SPECIFICATION FairSpec
CHECK_DEADLOCK FALSE
CONSTANTS
    GovActions = {"provision", "destroy"}
    Disabled = {}
    SandboxInUse = TRUE
    CatchAll = TRUE
    PowerEnabled = {}
    MaxFaults = 2
    MaxFailures = 1
    MaxRequests = 0
    MaxCallbacks = 1
    MaxQueued = 2
    TokenMayVanish = FALSE
    StaleLookups = FALSE
INVARIANTS
    NoPlacementLeak
    DestroyedFirst
PROPERTIES
    OneJobPerAction
    
    ImplementsSubjectLife
    LaunchNeedsPlacement
    DeletionCompletes
