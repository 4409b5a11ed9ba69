SPECIFICATION FairSpec
CONSTANTS
    Callers = {c1, c2}
    Kinds = {"send", "receive", "receive_timeout", "query", "close", "finalize"}
    FailOnCrash = TRUE
    MaxSpawns = 3
    Faults = {"actor", "participant", "watcher"}
    MaxFaults = 2
    MaxOps = 2
    Nobody = Nobody
CHECK_DEADLOCK FALSE
INVARIANTS FinalizationComplete HandoffIsExact CrashReportedOnce
PROPERTIES FinalizeSettles
