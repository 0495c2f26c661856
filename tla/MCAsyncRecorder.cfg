SPECIFICATION FairSpec
CONSTANTS
    Points = {a, b}
    MaxDate = 2
    MaxVersion = 5
    Poison = Poison
    Capacity = 2
    MaxRows = 4
INVARIANT HeadersStayValid
PROPERTY ImplementsContract
PROPERTY CloseReturns
CHECK_DEADLOCK FALSE
