SPECIFICATION Spec
CONSTANTS
    w1 = w1
    w2 = w2
    hook = hook
    recipient = recipient
    Worker = {w1, w2}
    Delivery = {1}
    Name = {hook}
    Recipient = recipient
    NtfyNames = {}
    DestName <- MCDest1
    NtfyConfigs = {TRUE}
    ConfiguredLease = 2
    AttemptTimeout = 1
    RecordTimeout = 1
    DisableTimeout = 1
    LeaseMargin = 2
    MaxClaimLag = 1
    StopTimeout = 4
    BaseBackoff = 4
    MaxBackoff = 3
    MaxBudgetAttempts = 2
    MaxBudgetAge = 3
    RecordAttempts = 2
    MaxOverdue = 1
    MaxIds = 2
    MaxReplays = 1
    MaxFaults = 2
SYMMETRY Loops
INVARIANTS SentOnlyToAddressee DisabledOnlyIfGone NoConcurrentSend AcceptedIsKept SendsWithinBudget DrainFinishesAttempts
PROPERTIES ImplementsQueue
