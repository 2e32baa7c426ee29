SPECIFICATION FairSpec
CONSTANTS
    d = d
    e = e
    url1 = url1
    url2 = url2
    Check = {1, 2}
    Probed = {}
    Dest = {d, e}
    Broken = {e}
    Span = {1}
    Config = {}
    ProbeFailureThreshold = 2
    StartupHoldOff = 1
    Concurrency = 1
    ProbeLimit = 1
    MaxLag = 0
    MaxTime = 2
    MaxEdits = 3
    MaxFaults = 1
INVARIANTS OutboxMatchesState OneKindPerAlert NoAlertLost
PROPERTIES NoFalseMiss PendingIsFlushed MissIsDetected
