SPECIFICATION Spec
CHECK_DEADLOCK FALSE
CONSTANTS
    GovActions = {"provision", "destroy", "start", "stop", "status"}
    Disabled = {}
    SandboxInUse = FALSE
    CatchAll = TRUE
    PowerEnabled = {}
    MaxFaults = 1
    MaxFailures = 2
    MaxRequests = 2
    MaxCallbacks = 0
    MaxQueued = 2
    TokenMayVanish = FALSE
    StaleLookups = FALSE
INVARIANTS
    PendingIsScheduledUnfailed
    NoStuck
    NoLostWakeup
    DestroyedFirst
PROPERTIES
    OneJobPerAction
