SPECIFICATION FairSpec
CONSTANTS
    w1 = w1
    w2 = w2
    hook = hook
    recipient = recipient
    Worker = {w1}
    Delivery = {1, 2}
    Name = {hook}
    Recipient = recipient
    NtfyNames = {hook}
    DestName <- MCDest2
    NtfyConfigs = {TRUE, FALSE}
    ConfiguredLease = 1
    AttemptTimeout = 1
    RecordTimeout = 0
    DisableTimeout = 0
    LeaseMargin = 1
    MaxClaimLag = 0
    StopTimeout = 2
    BaseBackoff = 2
    MaxBackoff = 1
    MaxBudgetAttempts = 2
    MaxBudgetAge = 1
    RecordAttempts = 1
    MaxOverdue = 0
    MaxIds = 1
    MaxReplays = 0
    MaxFaults = 1
PROPERTIES EveryDeliveryEnds
