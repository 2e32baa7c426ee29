SPECIFICATION Spec
CONSTANTS
  Persons = {p1}
  Apps = {a1, a2}
  Requests = {r1, r2}
  None = none
  Configs <- MCConfigs
  ResetLimit = 1
  AttemptLimit = 2
  Window = 1
  MaxOps = 3
  MaxFaults = 1
  MaxClock = 2
SYMMETRY Symmetry
INVARIANTS
  StampMeansKnown
  ProvisionedIsServed
  ResetsWithinLimit
PROPERTIES
  ChosenPasswordIsKept
