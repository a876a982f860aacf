SPECIFICATION FairSpec
CONSTANTS
    p1 = p1
    p2 = p2
    c1 = c1
    c2 = c2
    m = m
    x1 = x1
    x2 = x2
    a = a
    b = b
    NoItem = NoItem
    NoThread = NoThread
    Items <- TwoItems
    Managers <- OneManager
    Producers <- SPSCProducers
    Consumers <- SPSCConsumers
    Closers <- TwoClosers
    S = 2
    Kinds <- AllKinds
INVARIANT NoStrandedConsumer
INVARIANT NoStrandedProducer
PROPERTY CallsServed
PROPERTY CloseDrains
