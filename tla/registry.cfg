SPECIFICATION Spec
CONSTANTS
  None = none
  App = app
  OtherApp = other
  Operator = operator
  Wildcard = any
  Names = {n1}
  Routes = {r1}
  Requests = {q1, q2}
  Urls = {u1, u2}
  Secrets = {s1, s2}
  Expiries = {e1}
  MaxId = 2
SYMMETRY Symmetry
INVARIANTS
  AppUrlIsVetted
  ResolveDropsNothing
  TornDownOwnsNothing
  UpdatesAreMerged
