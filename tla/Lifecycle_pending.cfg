SPECIFICATION Spec
CHECK_DEADLOCK FALSE
CONSTANTS
    GovActions = {"provision", "destroy", "start", "stop"}
    Disabled = {}
    SandboxInUse = FALSE
    CatchAll = TRUE
    PowerEnabled = {}
    MaxFaults = 1
    MaxFailures = 0
    MaxRequests = 1
    MaxCallbacks = 0
    MaxQueued = 2
    TokenMayVanish = FALSE
    StaleLookups = FALSE
INVARIANTS
    PendingIsScheduled
