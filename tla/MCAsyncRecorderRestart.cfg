SPECIFICATION Spec
CONSTANTS
    Points = {a, b}
    MaxDate = 2
    MaxVersion = 5
    Poison = Poison
    Capacity = 2
    MaxRows = 4
INVARIANT AllHeadersValid
CHECK_DEADLOCK FALSE
