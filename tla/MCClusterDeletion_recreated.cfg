SPECIFICATION FairSpec
CONSTANTS
    first = first
    second = second
    here = here
    there = there
    None = None
    Clusters = {first, second}
    Namespaces = {here}
    NamespaceOf <- Successor
    Nodes = {0}
    MaxFaults = 1
INVARIANTS
    TypeOK
    
PROPERTIES
    OthersKeepTheirStatefulSet
    DeletionCompletes
CHECK_DEADLOCK FALSE
