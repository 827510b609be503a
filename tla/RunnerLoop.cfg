SPECIFICATION FairSpec
CONSTANTS
    Pods = {p1, p2}
    Runs = {r1}
    MaxPollFailures = 2
    MaxRetries = 1
    MaxErrors = 3
    MaxFaults = 4
    NoRun = NoRun
INVARIANTS
    TypeOK
    ReadinessFollowsFailures
    DoneMeansHandled
    LoopInv
    HandlersExclusive
PROPERTIES
    UnreadyOnlyAtThreshold
    EveryRunDone
    ShutdownEnds
