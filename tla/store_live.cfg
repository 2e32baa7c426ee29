SPECIFICATION FairSpec
CONSTANTS
    c1 = c1
    c2 = c2
    k1 = k1
    k2 = k2
    app1 = app1
    app2 = app2
    x = x
    d = d
    e = e
    Client = {c1, c2}
    Key = {k1, k2}
    AppOf <- MCTwoKeys
    Content = {x}
    DeliverAt <- MCTimes1
    Hold = {FALSE}
    Dest = {d}
    PerApp = 1
    Total = 1
    HeldPerApp = 1
    HeldTotal = 1
    ReleaseLimit = 1
    SweepBatch = 1
    Retention = 1
    HeldTTL = 1
    MaxInsertAttempts = 2
    MaxTime = 1
INVARIANTS WithinCaps
PROPERTIES DueIsReleased EveryRequestEnds
