SPECIFICATION FairSpec
CONSTANTS
    d1 = d1
    d2 = d2
    n1 = n1
    n2 = n2
    NoReading = NoReading
    NoPower = NoPower
    Devices <- MCDevices
    Names <- MCNames
    Readings <- MCReadings
    Powers <- MCPowers
    ActualPowers <- MCActual
    Runtimes <- MCRuntimes
    Strategies <- MCStrategies
    MaxCount = 1
    MaxOperator = 1
INVARIANT LatchesFollowVoltages
INVARIANT PowerAsIntended
PROPERTY LostPcsLeadsToHvOff
