CONSTANTS
    Confs = {"c1", "c2"}
    PluginSets = {"p1", "p2"}
    Templates = {"t1", "t2"}
    MaxReplicas = 2
    InitialSpecs <- TwoNodes
    Specs <- TemplateEdit
    Pausable = FALSE
    MaxEdits = 1
    MaxFaults = 0
    None = None
SPECIFICATION FairSpec
PROPERTY UpdatesAreRebalanced
