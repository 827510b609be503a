SPECIFICATION Spec
CONSTANTS
    Pods = {p1}
    Runs = {r1}
    MaxPollFailures = 2
    MaxRetries = 1
    MaxErrors = 3
    MaxFaults = 4
    NoRun = NoRun
INVARIANTS
    ExitsAtThreshold
