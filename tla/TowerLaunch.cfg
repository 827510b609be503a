SPECIFICATION Spec
CHECK_DEADLOCK FALSE
CONSTANTS
    Pods = {p1, p2}
    Actions = {provision, stop}
    Provisions = {provision}
    Config <- MCConfig
    Static <- MCStatic
    MaxFaults = 1
    None = None
INVARIANTS
    TypeOK
    TokensAccounted
    JobsAccounted
    RunsOwnVars
PROPERTIES
    RunsAsConfigured
    LaunchesInTheEnd
