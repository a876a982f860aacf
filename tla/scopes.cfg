SPECIFICATION MCSpec
CONSTANTS
    w1 = w1
    w2 = w2
    s1 = s1
    s2 = s2
    Owner = w1
    Waiters <- TwoWaiters
    Scopes <- TwoScopes
    MaxCount = 3
    p1 = p1
    p2 = p2
    p3 = p3
    u1 = u1
    u2 = u2
    a1 = a1
    a2 = a2
    ar = ar
    bg = bg
    br = br
    bw = bw
    h1 = h1
    h2 = h2
    l1 = l1
    l2 = l2
    Parties <- ThreeParties
    Slots <- FourSlots
    Party <- SlotThread
    Permits = 3
    Users <- TwoUsers
    Vars <- FourVars
    User <- VarThread
    MaxSignals = 2
    Pointers <- SixPointers
    Kind <- KindOf
    Home <- HomeOf
    Objects = {1, 2}
    SharedOnes = {2}
    None = None
    Owners = {h1, h2, l1, l2}
    Lists <- TwoLists
    Numbers = {0, 1, 2, 3}
    Addresses = {2, 3}
    MaxLoans = 4
INVARIANT CountInv
INVARIANT NoSleeperAtZero
INVARIANT DestroyInv
INVARIANT BarrierInv
INVARIANT PermitInv
INVARIANT LockInv
INVARIANT NobodyLockedOut
INVARIANT OwnedOnce
PROPERTY WaitMeansDone
PROPERTY ImplementsReadersWriters
PROPERTY WaitServed
PROPERTY WaitForReturns
PROPERTY PhaseServed
PROPERTY PermitServed
CHECK_DEADLOCK FALSE
