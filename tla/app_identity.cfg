SPECIFICATION Spec
CONSTANTS
  t1 = t1
  t2 = t2
  k1 = k1
  k2 = k2
  None = none
  Apps = {a1}
  Exchanges = {x1, x2}
  Tokens = {t1, t2}
  Kids = {k1, k2}
  Claims <- MCClaims
  Overlaps = {}
  ClockLeeway = 1
  SupersededGrace = 1
  RejectedRequestWindow = 1
  PendingTTL = 1
  RefetchInterval = 1
  MaxPendingRequests = 1
  MaxIds = 2
  MaxClock = 2
SYMMETRY Symmetry
INVARIANTS
  TokenSpentOnce
  KeysFollowBinding
  QueueIsSound
PROPERTIES
  FetchesAreSpaced
