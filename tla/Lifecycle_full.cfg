SPECIFICATION Spec
CHECK_DEADLOCK FALSE
CONSTANTS
    GovActions = {"provision", "destroy", "start", "stop", "update", "status"}
    Disabled = {}
    SandboxInUse = TRUE
    CatchAll = TRUE
    PowerEnabled = {"start", "stop"}
    MaxFaults = 0
    MaxFailures = 1
    MaxRequests = 1
    MaxCallbacks = 1
    MaxQueued = 2
    TokenMayVanish = TRUE
    StaleLookups = TRUE
INVARIANTS
    TypeOK
    DestroyedFirst
