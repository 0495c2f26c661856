SPECIFICATION MCSpec
CONSTANTS
    p1 = p1
    p2 = p2
    p3 = p3
    Cluster <- MCCluster
    Others <- MCOthers
    Files <- MCFiles
    Rated <- MCRated
    PowerPoint <- MCPowerPoint
    UnitsPerKw = 2
    HeartbeatSize = 2
    WordSize = 16
    SomePoints <- MCPoints
    SomeValues <- MCValues
    Requests <- MCRequests
    Margins <- MCMargins
    ClusterLimits <- MCLimits
    Placeholders <- MCPlaceholders
    ThreadPowers <- MCThreadPowers
    MaxActs = 3
INVARIANT SetpointsAddUp
INVARIANT StopReachesAll
INVARIANT WrittenIsReadBack
PROPERTY HeartbeatKeepsChanging
