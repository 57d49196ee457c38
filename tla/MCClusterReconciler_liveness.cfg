CONSTANTS
    Confs = {"c1", "c2"}
    PluginSets = {"p1", "p2"}
    Templates = {"t1", "t2"}
    MaxReplicas = 2
    InitialSpecs <- FewNodes
    Specs <- LivenessEdits
    Pausable = TRUE
    MaxEdits = 1
    MaxFaults = 1
    None = None
SPECIFICATION FairSpec
ACTION_CONSTRAINT FaultsInSmallClusters
PROPERTIES Converges RestartsSettle RebalanceMarkHonoured
