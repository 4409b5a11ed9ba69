SPECIFICATION Spec
CONSTANTS
    Process = {p1, p2}
    Connection = {c1, c2}
    Deployments <- MCDeployments
    MaxServer = 2
    MaxOrdinal = 1
    BackoffCeiling = 1
    NoOrdinal = NoOrdinal
SYMMETRY MCSymmetry
INVARIANTS NextStartSound ResumeExact CompleteMeansFolded
PROPERTIES PublishedOnce
