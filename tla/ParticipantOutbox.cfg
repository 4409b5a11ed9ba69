CONSTANTS
    N = 2
    Conns = 2
    Limit = 4
    Quotas <- MCQuotas
SPECIFICATION Spec
CHECK_DEADLOCK FALSE
INVARIANTS LoadsUnlessOverBound LiveIsReplay OffersGapless OwedIsTold
PROPERTIES ImplementsLedger OffersComplete
