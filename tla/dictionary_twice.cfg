SPECIFICATION DictSpec
CONSTANTS
    t1 = t1
    t2 = t2
    k1 = k1
    k2 = k2
    k3 = k3
    n1 = n1
    n2 = n2
    n3 = n3
    Null = Null
    Threads <- TwoThreads
    Keys <- ThreeKeys
    Hash <- SomeHash
    Moved <- MoveEmpties
    S = 2
    Nodes <- ThreeNodes
    Ops <- LookBeforeInsert
    Alone <- LookBeforeInsert
    SizeMod = 4
INVARIANT OnePerKey
