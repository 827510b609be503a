SPECIFICATION Spec
CHECK_DEADLOCK FALSE
CONSTANTS
    GovActions = {"provision", "destroy", "update"}
    Disabled = {}
    SandboxInUse = TRUE
    CatchAll = TRUE
    PowerEnabled = {}
    MaxFaults = 0
    MaxFailures = 0
    MaxRequests = 1
    MaxCallbacks = 0
    MaxQueued = 2
    TokenMayVanish = FALSE
    StaleLookups = FALSE
PROPERTIES
    EditsSurvive
