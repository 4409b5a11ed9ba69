SPECIFICATION Spec
CONSTANTS
    Publishers = {p1, p2}
    Keys = {k1, k2}
    Ttl = 1
    MaxTime = 3
    MaxLog = 4
    Nobody = Nobody
INVARIANTS AtMostOnceDelivery
PROPERTIES ReceiptNeverClobbered ClaimSettledByOwner
