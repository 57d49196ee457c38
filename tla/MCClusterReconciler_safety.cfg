CONSTANTS
    Confs = {"c1", "c2"}
    PluginSets = {"p1", "p2"}
    Templates = {"t1", "t2"}
    MaxReplicas = 2
    InitialSpecs <- NewCluster
    Specs <- SafetyEdits
    Pausable = FALSE
    MaxEdits = 1
    MaxFaults = 1
    None = None
SPECIFICATION Spec
INVARIANTS TypeOK LatestCopies  NoLostPlugins NoLostRestart
PROPERTIES  ObservedMonotone 
