SPECIFICATION FairSpec
CONSTANTS
    MaxReplicas = 2
    Capacities = {0, 1, 2}
    InitialSpecs <- EveryStorage
    Specs <- AllEdits
    MaxEdits = 2
    MaxFaults = 1
INVARIANTS
    TypeOK
    ObservedMeansExpanded
PROPERTIES
    VolumesNeverShrink
    Converges
CHECK_DEADLOCK FALSE
