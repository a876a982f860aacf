SPECIFICATION NotifySpec
CONSTANTS
    p1 = p1
    p2 = p2
    c1 = c1
    c2 = c2
    m = m
    x1 = x1
    x2 = x2
    a = a
    b = b
    NoItem = NoItem
    NoThread = NoThread
    Items <- OneItem
    Managers <- OneManager
    Producers <- TwoProducers
    Closers <- OneCloser
    S = 2
    Kinds <- BaseKind
    Backends <- BothBackends
    ReadChunk = 2
    PipeCap = 3
    Consumers <- OneConsumer
INVARIANT ReadableHasItem
