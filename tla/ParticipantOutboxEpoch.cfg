CONSTANTS
    N = 2
    Conns = 2
    Limit = 20
    Quotas <- EpochQuotas
SPECIFICATION Spec
INVARIANT OfferCursorIsBindings
CHECK_DEADLOCK FALSE
