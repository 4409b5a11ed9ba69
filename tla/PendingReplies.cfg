SPECIFICATION FairSpec
CONSTANTS
    v1 = v1
    v2 = v2
    Convs = {v1, v2}
    MaxPerConversation = 2
    MaxPerConnection = 2
    MaxOps = 3
    Workloads <- MCWorkloads
    MaxWire = 1
    NoConv = NoConv
CHECK_DEADLOCK FALSE
INVARIANTS AnsweredOnceByItsOwn NoOrphanReply
PROPERTIES TableDrains
