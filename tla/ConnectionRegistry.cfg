SPECIFICATION FairSpec
CONSTANTS
    MaxSpawns = 2
    MaxConnections = 1
    MaxPushes = 2
    PushCap = 1
    ExitCap = 1
    Quotas <- MCQuotas
CHECK_DEADLOCK FALSE
INVARIANTS NothingStranded PushReportsTruth
PROPERTIES RegistrySettles
