SPECIFICATION Spec
CONSTANTS
  None = none
  App = app
  Rows = {app}
  Mints = {m1, m2}
  MaxInFlightMints = 2
  MaxTokens = 3
SYMMETRY Symmetry
INVARIANTS
  StoredTokenIsLive
  TornDownStaysDown
  SealedStaysReadable
