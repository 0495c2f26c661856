SPECIFICATION FairSpec
CONSTANTS
    StartSettings <- StartSets
    StopSettings <- OneSetting
    LimitReadings <- MCReadings
    ActualPowers <- MCPowers
    Placeholders <- MCPlaceholders
    UnitsPerKw = 10
    MaxLimitChanges = 1
PROPERTY NeverBeyondTarget
PROPERTY LimitIsKept
INVARIANT CancelTakesEffect
INVARIANT FailedStartIsSafe
INVARIANT StoppedMeansStopped
PROPERTY WorkflowsEnd
