SPECIFICATION Spec
CHECK_DEADLOCK FALSE
CONSTANTS
    GovActions = {"provision", "destroy"}
    Disabled = {}
    SandboxInUse = TRUE
    CatchAll = TRUE
    PowerEnabled = {}
    MaxFaults = 0
    MaxFailures = 0
    MaxRequests = 0
    MaxCallbacks = 0
    MaxQueued = 2
    TokenMayVanish = TRUE
    StaleLookups = FALSE
INVARIANTS
    NoPlacementLeak
