SPECIFICATION Spec
CONSTANTS
    StartSettings <- OneSetting
    StopSettings <- OneSetting
    LimitReadings <- MCReadings
    ActualPowers <- MCPowers
    Placeholders <- MCPlaceholders
    UnitsPerKw = 10
    MaxLimitChanges = 1
PROPERTY StopWins
