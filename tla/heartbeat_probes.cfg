SPECIFICATION Spec
CONSTANTS
    d = d
    e = e
    url1 = url1
    url2 = url2
    Check = {1}
    Probed = {1}
    Dest = {d}
    Broken = {}
    Span = {}
    Config <- LaggedConfigs
    ProbeFailureThreshold = 2
    StartupHoldOff = 1
    Concurrency = 2
    ProbeLimit = 1
    MaxLag = 1
    MaxTime = 9
    MaxEdits = 3
    MaxFaults = 1
INVARIANTS ResultsAreCurrent
PROPERTIES ProbeDownIsEarned
