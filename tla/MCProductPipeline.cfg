SPECIFICATION FairSpec
CONSTANTS
    a = a
    b = b
    Ids = {a, b}
    Prefetch = 2
    MaxWrites = 4
    MaxPoison = 1
    MaxFaults = 2
INVARIANTS
    TypeOK
    NoLostProduct
PROPERTIES
    StoredInOrder
    ImplementsDelivery
CHECK_DEADLOCK FALSE
