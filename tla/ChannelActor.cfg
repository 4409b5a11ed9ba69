SPECIFICATION FairSpec
CONSTANTS
    s1 = s1
    s2 = s2
    Callers = {c1, c2}
    Subs <- MCSubs
    Keys = {k1}
    Durable = TRUE
    Deployments <- MCDeployments
    MaxCrashes = 1
    MaxOps = 2
    SlowActor = TRUE
    DropsInBoot = TRUE
    Nobody = Nobody
CHECK_DEADLOCK FALSE
INVARIANTS AckedPublishReachesMembers InOrderAndDurable FanOutListSound
PROPERTIES CallReturns
