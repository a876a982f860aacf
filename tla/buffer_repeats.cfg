SPECIFICATION ContainersSpec
CONSTANTS
    c1 = c1
    c2 = c2
    Callers <- TwoCallers
    Size = 3
    Width = 8
    Classes = {"buffer"}
    MaxPuts = 4
    MaxTakes = 2
INVARIANT TakenOnce
CHECK_DEADLOCK FALSE
