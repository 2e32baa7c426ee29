SPECIFICATION PolicySpec
CONSTANTS
    Outcome <- MCOutcome
    Random <- MCRandom
    Unit = 2
    Delay = {0, 100}
    MaxBudgetAttempts = 6
    MaxBudgetAge = 300
    BaseBackoff = 30
    MaxBackoff = 60
    MaxRetryAfter = 60
    PollInterval = {1, 5, 127}
    MaxClaimBackoff = 30
    MaxClaimBackoffShift = 5
    MaxFailures = 7
    Width = 8
INVARIANTS WaitsInBounds RetriesEndInTime
CHECK_DEADLOCK FALSE
