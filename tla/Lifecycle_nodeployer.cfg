SPECIFICATION Spec
CHECK_DEADLOCK FALSE
CONSTANTS
    GovActions = {"provision", "destroy", "start", "stop"}
    Disabled = {"provision", "destroy", "start", "stop"}
    SandboxInUse = TRUE
    CatchAll = TRUE
    PowerEnabled = {"start", "stop"}
    MaxFaults = 2
    MaxFailures = 1
    MaxRequests = 3
    MaxCallbacks = 0
    MaxQueued = 2
    TokenMayVanish = FALSE
    StaleLookups = FALSE
INVARIANTS
    NoPlacementLeak
    PowerFollowsState
    FailureLeavesTrace
