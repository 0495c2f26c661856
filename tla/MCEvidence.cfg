SPECIFICATION MCSpec
CONSTANTS
    c1 = c1
    c2 = c2
    l1 = l1
    m1 = m1
    m2 = m2
    s1 = s1
    s2 = s2
    None = None
    Captures = {c1, c2}
    Logs = {l1}
    Mappings = {m1, m2}
    Signals = {s1, s2}
    SignalsOf <- MCSignalsOf
    PageSize = 1
    MaxPlots = 1
    MaxVersion = 2
    MaxActs = 4
    Ids = {1, 2}
    MaxLength = 4
    SamplePackets <- MCPackets
    Timeout = 2
    SampleBytes = {0, 1, 165, 255}
    MaxBytes = 2
    MaxBits = 12
INVARIANT TablesFollowRecords
INVARIANT DerivedFollowsRecords
INVARIANT NoBlankPage
INVARIANT AnnotationIsTrue
INVARIANT SignalsAreTrue
PROPERTY HitsAreTrue
CHECK_DEADLOCK FALSE
SYMMETRY MCSymmetry
