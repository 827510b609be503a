SPECIFICATION Spec
CHECK_DEADLOCK FALSE
CONSTANTS
    Entries <- MCEntries
    ParseDuration <- MCParseDuration
    Environments <- NoEnvironment
    DefaultActionRetryIntervals <- MCDefaultActionRetryIntervals
    DefaultTowerPollIntervals <- MCDefaultTowerPollIntervals
    MaxCount = 10
INVARIANTS
    RetryWaits
