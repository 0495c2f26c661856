SPECIFICATION FairSpec
CONSTANTS
    b1 = b1
    p1 = p1
    p2 = p2
    NoBeat = NoBeat
    Bms <- MCBms
    Pcs <- MCPcs
    Fleets <- MCFleets
    MaxThread = 2
    MaxSignals = 2
    HeartbeatModulus = 256
    Tolerance = 5
    StaleCount = 3
INVARIANT NoUnownedThread
INVARIANT TaskStatusSettles
INVARIANT PcsRowsAreTrue
PROPERTY StoppedThreadsEnd
PROPERTY FrozenIsNoticed
