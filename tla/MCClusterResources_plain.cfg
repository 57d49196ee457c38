CONSTANTS
    InitialSpecs <- NewClusters
    PluginSets <- SomePlugins
    ExtraFiles <- SomeFiles
    Overrides <- NoOverrides
    MaxEdits = 0
    MaxFaults = 0
    None = None
SPECIFICATION Spec
INVARIANT OnlyTLSClientsConnect
\* The operator stops at a spec that reconcileTLS refuses.
CHECK_DEADLOCK FALSE
