SPECIFICATION Spec
CONSTANTS
    MaxReplicas = 2
    Capacities = {0, 1, 2}
    InitialSpecs <- TwoNodes
    Specs <- ExpandAndScaleDown
    MaxEdits = 2
    MaxFaults = 0
PROPERTY
    ExpansionKeepsNodes
CHECK_DEADLOCK FALSE
