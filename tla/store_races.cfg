SPECIFICATION Spec
CONSTANTS
    c1 = c1
    c2 = c2
    k1 = k1
    k2 = k2
    app1 = app1
    app2 = app2
    x = x
    d = d
    e = e
    Client = {c1, c2}
    Key = {k1}
    AppOf <- MCOneKey
    Content = {x}
    DeliverAt <- MCTimes
    Hold = {TRUE}
    Dest = {d, e}
    PerApp = 1
    Total = 1
    HeldPerApp = 1
    HeldTotal = 1
    ReleaseLimit = 1
    SweepBatch = 1
    Retention = 1
    HeldTTL = 1
    MaxInsertAttempts = 2
    MaxTime = 3
SYMMETRY Symmetry
PROPERTIES ImplementsLifecycle SweepSparesLive
