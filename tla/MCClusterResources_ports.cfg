CONSTANTS
    InitialSpecs <- AllClusters
    PluginSets <- SomePlugins
    ExtraFiles <- SomeFiles
    Overrides <- SomeOverrides
    MaxEdits = 2
    MaxFaults = 1
    None = None
SPECIFICATION Spec
INVARIANTS TypeOK PortsAnswer SecretPortsAreServed PodsAnswerThemselves FilesHaveOneSource TemplateIsBacked ReferencesResolve DataIsNotShadowed
PROPERTY NodePortsAreKept
\* The operator stops at a spec that reconcileTLS refuses.
CHECK_DEADLOCK FALSE
