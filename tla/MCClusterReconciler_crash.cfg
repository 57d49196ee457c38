CONSTANTS
    Confs = {"c1", "c2"}
    PluginSets = {"p1", "p2"}
    Templates = {"t1", "t2"}
    MaxReplicas = 1
    InitialSpecs <- OneNode
    Specs <- ConfEdit
    Pausable = FALSE
    MaxEdits = 1
    MaxFaults = 1
    None = None
SPECIFICATION FairSpec
PROPERTY ConfChangeRestartsNodes
