CONSTANTS
    InitialSpecs <- NewSpecs
    DeployedSpecs <- OneSpec
    Edits <- SomeEdits
    Confs = {"c1", "c2"}
    Templates = {"t1", "t2"}
    Uneven = {"t2"}
    Secured = {"t2"}
    MaxEdits = 1
    None = None
SPECIFICATION FairSpec
INVARIANTS TypeOK StatusIsTrueAtRest NoLostRestart
PROPERTIES StatusCatchesUp RestartsSettle
