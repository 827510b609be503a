SPECIFICATION Spec
CHECK_DEADLOCK FALSE
CONSTANTS
    Entries <- MCEntries
    ParseDuration <- MCParseDuration
    Environments <- MCEnvironments
    DefaultActionRetryIntervals <- MCDefaultActionRetryIntervals
    DefaultTowerPollIntervals <- MCDefaultTowerPollIntervals
    MaxCount = 7
INVARIANTS
    TypeOK
PROPERTIES
    RetriesBackOff
    PollsBackOff
