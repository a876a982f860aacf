SPECIFICATION TimerFairSpec
CONSTANTS
    t1 = t1
    t2 = t2
    k1 = k1
    k2 = k2
    g1 = g1
    g2 = g2
    Null = Null
    Timers <- TwoTimers
    Tokens <- TwoTokens
    Holders <- TwoHolders
    Interval = 2
    MaxLag = 2
INVARIANT CancelInv
INVARIANT DeadlineInv
PROPERTY CancelStops
PROPERTY TimerServed
