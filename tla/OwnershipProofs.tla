--------------------------- MODULE OwnershipProofs --------------------------
(***************************************************************************)
(* Proofs about the classes that own: the smart pointers of Locking, and   *)
(* the owners of descriptors and lists of Handles.                         *)
(***************************************************************************)
EXTENDS Locking, Handles, SequenceProofs, TLAPS

-----------------------------------------------------------------------------
(* For every set of pointers, threads and objects, the smart pointers of   *)
(* Locking lock and unlock in pairs, and whoever reaches an object has its *)
(* lock.  LockInv is not inductive: LockIInv adds who reaches an object,   *)
(* who may share a mutex, what a waiting pointer cannot be, and what       *)
(* unlock() leaves behind.                                                 *)

\* Whoever reaches an object has its lock, and reaches it alone unless all are
\* readers.
AccessInv ==
    \A p \in inUse :
        /\ ptr[p] # None
        /\ p \in keepers[ptr[p]]
        /\ \A q \in inUse \ {p} : ptr[q] = ptr[p] => Reads(p) /\ Reads(q)

\* Pointers that share a mutex are readers.
ExclusionInv ==
    \A o \in Objects : \A p, q \in keepers[o] : p # q => Reads(p) /\ Reads(q)

\* A pointer that waits for a lock has none and is not in use.
WaitInv == \A p \in Pointers : waits[p] # None => p \notin owns /\ p \notin inUse

\* What unlock() has been called of still points to its object.
BareInv == \A p \in bare : p \in alive /\ p \notin owns /\ ptr[p] = device[p] /\ ptr[p] # None

LockIInv ==
    /\ LockTypeOK
    /\ LockInv
    /\ AccessInv
    /\ ExclusionInv
    /\ WaitInv
    /\ BareInv

\* No pointer has anything when the program begins.
LEMMA LockInitInvariant == LockInit => LockIInv
BY DEF LockInit, LockIInv, LockTypeOK, LockInv, AccessInv, ExclusionInv, WaitInv, BareInv

\* Waiting to lock, or to lock again, gives nothing yet.
LEMMA WaitingStep ==
    ASSUME LockIInv,
           \/ \E p \in Pointers, o \in Objects : Construct(p, o)
           \/ \E p \in Pointers : Relock(p)
    PROVE  LockIInv'
<1>1. PICK p \in Pointers, o \in Objects :
        /\ Ready(p)
        /\ p \notin owns
        /\ waits' = [waits EXCEPT ![p] = o]
        /\ UNCHANGED <<keepers, alive, device, owns, ptr, inUse, bare>>
  BY LockingAssumption DEF LockIInv, LockTypeOK, LockInv, BareInv, Construct, Relock
<1>2. p \notin inUse
  BY <1>1 DEF Ready
<1>3. LockTypeOK'
  BY <1>1 DEF LockIInv, LockTypeOK
<1>4. WaitInv'
  BY <1>1, <1>2 DEF LockIInv, LockTypeOK, WaitInv
<1>5. LockInv' /\ AccessInv' /\ ExclusionInv' /\ BareInv'
  BY <1>1 DEF LockIInv, LockInv, AccessInv, ExclusionInv, BareInv, Reads
<1> QED
  BY <1>3, <1>4, <1>5 DEF LockIInv

\* A lock is given beside locks of readers only.
LEMMA LockedStep ==
    ASSUME LockIInv, NEW p \in Pointers, Locked(p)
    PROVE  LockIInv'
<1> DEFINE o == waits[p]
<1>1. /\ o \in Objects
      /\ o # None
      /\ p \notin owns
      /\ p \notin inUse
  BY DEF LockIInv, LockTypeOK, WaitInv, Locked
<1>2. /\ keepers' = [keepers EXCEPT ![o] = @ \cup {p}]
      /\ alive' = alive \cup {p}
      /\ device' = [device EXCEPT ![p] = o]
      /\ owns' = owns \cup {p}
      /\ ptr' = [ptr EXCEPT ![p] = o]
      /\ waits' = [waits EXCEPT ![p] = None]
      /\ bare' = bare \ {p}
      /\ inUse' = inUse
      /\ Admits(o, p)
  BY DEF Locked
<1> HIDE DEF o
<1>3. LockTypeOK'
  BY <1>1, <1>2 DEF LockIInv, LockTypeOK
<1>4. LockInv'
  <2>1. ASSUME NEW b \in Objects
        PROVE  keepers'[b] = {q \in owns' : device'[q] = b}
    BY <1>1, <1>2 DEF LockIInv, LockTypeOK, LockInv
  <2>2. ASSUME NEW q \in owns'
        PROVE  q \in alive' /\ ptr'[q] = device'[q] /\ ptr'[q] # None
    BY <1>1, <1>2 DEF LockIInv, LockTypeOK, LockInv
  <2>3. ASSUME NEW q \in Pointers, ptr'[q] # None
        PROVE  q \in owns' \cup bare'
    BY <1>1, <1>2, <2>3 DEF LockIInv, LockTypeOK, LockInv
  <2> QED
    BY <2>1, <2>2, <2>3 DEF LockInv
<1>5. AccessInv'
  BY <1>1, <1>2 DEF LockIInv, LockTypeOK, AccessInv, Reads
<1>6. ExclusionInv'
  BY <1>1, <1>2 DEF LockIInv, LockTypeOK, ExclusionInv, Admits, Reads
<1>7. WaitInv' /\ BareInv'
  BY <1>1, <1>2 DEF LockIInv, LockTypeOK, WaitInv, BareInv
<1> QED
  BY <1>3, <1>4, <1>5, <1>6, <1>7 DEF LockIInv

\* An access begins with a lock that is there, so beside readers at most.
LEMMA AccessStep ==
    ASSUME LockIInv, NEW p \in Pointers, Access(p)
    PROVE  LockIInv'
<1>1. /\ waits[p] = None
      /\ ptr[p] # None
      /\ p \notin bare
      /\ inUse' = inUse \cup {p}
      /\ UNCHANGED <<keepers, alive, waits, device, owns, ptr, bare>>
  BY DEF Access, Ready
<1>2. ptr[p] \in Objects /\ p \in keepers[ptr[p]]
  BY <1>1 DEF LockIInv, LockTypeOK, LockInv
<1>3. LockTypeOK' /\ LockInv' /\ ExclusionInv' /\ WaitInv' /\ BareInv'
  BY <1>1 DEF LockIInv, LockTypeOK, LockInv, ExclusionInv, WaitInv, BareInv, Reads
<1>4. AccessInv'
  <2>1. ASSUME NEW q \in inUse', NEW r \in inUse' \ {q}, ptr'[r] = ptr'[q]
        PROVE  Reads(q) /\ Reads(r)
    <3>1. {q, r} \subseteq keepers[ptr[q]] /\ ptr[q] \in Objects
      BY <1>1, <1>2, <2>1 DEF LockIInv, LockTypeOK, AccessInv
    <3> QED
      BY <3>1, <2>1 DEF LockIInv, ExclusionInv
  <2>2. ASSUME NEW q \in inUse'
        PROVE  ptr'[q] # None /\ q \in keepers'[ptr'[q]]
    BY <1>1, <1>2 DEF LockIInv, AccessInv
  <2> QED
    BY <2>1, <2>2 DEF AccessInv, Reads
<1> QED
  BY <1>3, <1>4 DEF LockIInv

\* The end of an access changes nothing else.
LEMMA FinishStep ==
    ASSUME LockIInv, NEW p \in Pointers, Finish(p)
    PROVE  LockIInv'
BY DEF LockIInv, LockTypeOK, LockInv, AccessInv, ExclusionInv, WaitInv, BareInv, Finish, Reads

\* Neither unlock() nor the end of a scope comes in the middle of an access.
LEMMA UnlockStep ==
    ASSUME LockIInv, NEW p \in Pointers, Unlock(p) \/ ScopeEnds(p)
    PROVE  LockIInv'
<1>1. p \notin inUse /\ waits[p] = None /\ keepers' = Without(p) /\ owns' = owns \ {p}
  BY DEF Unlock, ScopeEnds, Ready
<1>2. keepers' \in [Objects -> SUBSET Pointers]
  BY <1>1 DEF LockIInv, LockTypeOK, Without
<1>3. \A o \in Objects : keepers'[o] = keepers[o] \ {p}
  BY <1>1 DEF LockIInv, LockInv, Without
<1>4. LockTypeOK'
  BY <1>1, <1>2 DEF LockIInv, LockTypeOK, Unlock, ScopeEnds
<1>5. LockInv'
  <2>1. CASE Unlock(p)
    BY <1>1, <1>3, <2>1 DEF LockIInv, LockTypeOK, LockInv, Unlock
  <2>2. CASE ScopeEnds(p)
    BY <1>1, <1>3, <2>2 DEF LockIInv, LockTypeOK, LockInv, ScopeEnds
  <2> QED
    BY <2>1, <2>2
<1>6. AccessInv'
  <2>1. \A q \in inUse : ptr[q] \in Objects /\ q # p /\ ptr'[q] = ptr[q]
    BY <1>1 DEF LockIInv, LockTypeOK, AccessInv, Unlock, ScopeEnds
  <2>2. inUse' = inUse
    BY DEF Unlock, ScopeEnds
  <2> QED
    BY <1>3, <2>1, <2>2 DEF LockIInv, AccessInv, Reads
<1>7. ExclusionInv'
  BY <1>3 DEF LockIInv, ExclusionInv, Reads
<1>8. WaitInv'
  BY <1>1 DEF LockIInv, WaitInv, Unlock, ScopeEnds
<1>9. BareInv'
  BY <1>1 DEF LockIInv, LockTypeOK, LockInv, BareInv, Unlock, ScopeEnds
<1> QED
  BY <1>4, <1>5, <1>6, <1>7, <1>8, <1>9 DEF LockIInv

\* A move carries one lock from one pointer of a class to another, and the
\* lock the other had is given back first.
LEMMA MoveStep ==
    ASSUME LockIInv, NEW p \in Pointers, NEW q \in Pointers,
           Moving(p, q), Take(p, q, Without(p)), alive' = alive \cup {p}
    PROVE  LockIInv'
<1>1. /\ p # q
      /\ q \in alive
      /\ p \notin inUse /\ q \notin inUse
      /\ waits[p] = None /\ waits[q] = None
      /\ Reads(p) <=> Reads(q)
  BY DEF Moving, Ready, Reads
<1>2. \A o \in Objects : Without(p)[o] = keepers[o] \ {p}
  BY DEF LockIInv, LockInv, Without
<1>3. /\ keepers' = [o \in Objects |-> IF q \in keepers[o] THEN (keepers[o] \ {p, q}) \cup {p}
                                       ELSE keepers[o] \ {p}]
      /\ device' = [device EXCEPT ![p] = device[q], ![q] = None]
      /\ owns' = IF q \in owns THEN (owns \ {q}) \cup {p} ELSE owns \ {p}
      /\ ptr' = [ptr EXCEPT ![p] = ptr[q], ![q] = None]
      /\ bare' = IF q \in bare THEN (bare \ {q}) \cup {p} ELSE bare \ {p}
      /\ waits' = waits
      /\ inUse' = inUse
  BY <1>1, <1>2 DEF Take, Handed
<1>4. LockTypeOK'
  BY <1>1, <1>3 DEF LockIInv, LockTypeOK
<1>5. LockInv'
  <2>1. ASSUME NEW o \in Objects
        PROVE  keepers'[o] = {r \in owns' : device'[r] = o}
    BY <1>1, <1>3, LockingAssumption DEF LockIInv, LockTypeOK, LockInv
  <2>2. ASSUME NEW r \in owns'
        PROVE  r \in alive' /\ ptr'[r] = device'[r] /\ ptr'[r] # None
    BY <1>1, <1>3 DEF LockIInv, LockTypeOK, LockInv
  <2>3. ASSUME NEW r \in Pointers, ptr'[r] # None
        PROVE  r \in owns' \cup bare'
    BY <1>1, <1>3, <2>3 DEF LockIInv, LockTypeOK, LockInv
  <2> QED
    BY <2>1, <2>2, <2>3 DEF LockInv
<1>6. AccessInv'
  <2>1. \A r \in inUse : ptr[r] \in Objects /\ r # p /\ r # q /\ ptr'[r] = ptr[r]
    BY <1>1, <1>3 DEF LockIInv, LockTypeOK, AccessInv
  <2>2. \A r \in inUse : r \in keepers'[ptr[r]]
    BY <1>3, <2>1 DEF LockIInv, AccessInv
  <2>3. \A r \in inUse : \A s \in inUse \ {r} : ptr'[s] = ptr'[r] => Reads(r) /\ Reads(s)
    BY <2>1 DEF LockIInv, AccessInv
  <2>4. \A r \in inUse : ptr'[r] # None
    BY <2>1 DEF LockIInv, AccessInv
  <2> QED
    BY <1>3, <2>1, <2>2, <2>3, <2>4 DEF AccessInv, Reads
<1>7. ExclusionInv'
  <2>1. SUFFICES ASSUME NEW o \in Objects, NEW r \in keepers'[o], NEW s \in keepers'[o], r # s
                 PROVE  Reads(r) /\ Reads(s)
    BY DEF ExclusionInv, Reads
  <2>2. ASSUME NEW t \in keepers'[o]
        PROVE  IF t = p THEN q \in keepers[o] ELSE t \in keepers[o] /\ t # q
    BY <1>1, <1>3
  <2> QED
    BY <2>1, <2>2, <1>1 DEF LockIInv, ExclusionInv
<1>8. WaitInv'
  BY <1>1, <1>3 DEF LockIInv, WaitInv
<1>9. BareInv'
  BY <1>1, <1>3 DEF LockIInv, LockTypeOK, LockInv, BareInv
<1> QED
  BY <1>4, <1>5, <1>6, <1>7, <1>8, <1>9 DEF LockIInv

\* A pointer that is not alive yet has no lock to give back, and one that is
\* assigned to was alive.
LEMMA MovingStep ==
    ASSUME LockIInv, NEW p \in Pointers, NEW q \in Pointers,
           MoveConstruct(p, q) \/ MoveAssign(p, q)
    PROVE  LockIInv'
<1>1. CASE MoveConstruct(p, q)
  <2>1. Without(p) = keepers
    BY <1>1 DEF LockIInv, LockTypeOK, LockInv, MoveConstruct, Without
  <2> QED
    BY <1>1, <2>1, MoveStep DEF MoveConstruct
<1>2. CASE MoveAssign(p, q)
  <2>1. alive' = alive \cup {p}
    BY <1>2 DEF MoveAssign
  <2> QED
    BY <1>2, <2>1, MoveStep DEF MoveAssign
<1> QED
  BY <1>1, <1>2

\* LockInvariance: LockIInv holds in every state, whatever the pointers do.
THEOREM LockInvariance == LockSpec => []LockIInv
<1>1. ASSUME LockIInv, [LockNext]_lockVars
      PROVE  LockIInv'
  <2>1. CASE LockNext
    BY <1>1, <2>1, WaitingStep, LockedStep, AccessStep, FinishStep, UnlockStep, MovingStep
       DEF LockNext
  <2>2. CASE UNCHANGED lockVars
    BY <1>1, <2>2 DEF lockVars, LockIInv, LockTypeOK, LockInv, AccessInv, ExclusionInv,
                      WaitInv, BareInv, Reads
  <2> QED
    BY <1>1, <2>1, <2>2
<1> QED
  BY LockInitInvariant, <1>1, PTL DEF LockSpec

\* LocksPaired: moving, assigning, unlocking and ending pointers in any order
\* leaves every mutex locked for exactly the pointers that own it.
THEOREM LocksPaired == LockSpec => []LockInv
<1>1. LockIInv => LockInv
  BY DEF LockIInv
<1> QED
  BY LockInvariance, <1>1, PTL

\* AccessCorrect: for any number of threads an object is reached under its
\* lock only, and by one pointer unless all are readers.
THEOREM AccessCorrect == LockSpec => []AccessInv
<1>1. LockIInv => AccessInv
  BY DEF LockIInv
<1> QED
  BY LockInvariance, <1>1, PTL

-----------------------------------------------------------------------------
(* Threads never all wait for each other.  What a thread waits for comes   *)
(* after all that it has (OrderInv), so that whoever waits for the last of *)
(* the objects that are waited for is hindered by threads that run only.   *)

\* A thread waits for one lock at a time, and for one after those it has.
OrderInv ==
    \A p, q \in Pointers : Waiting(p) /\ Home[q] = Home[p] =>
        /\ Waiting(q) => q = p
        /\ q \in owns => device[q] < waits[p]

\* A thread has no lock twice.
AloneInv == \A p, q \in owns : Home[p] = Home[q] /\ device[p] = device[q] => p = q

LEMMA OrderWaits ==
    ASSUME LockIInv, OrderInv, AloneInv,
           \/ \E p \in Pointers, o \in Objects : Construct(p, o)
           \/ \E p \in Pointers : Relock(p)
    PROVE  OrderInv' /\ AloneInv'
<1>1. PICK p \in Pointers, o \in Objects :
        /\ Ready(p)
        /\ InOrder(p, o)
        /\ waits' = [waits EXCEPT ![p] = o]
        /\ UNCHANGED <<device, owns>>
  BY LockingAssumption DEF LockIInv, LockTypeOK, LockInv, BareInv, Construct, Relock
<1>2. \A q \in Pointers : Home[q] = Home[p] => waits[q] = None /\ (q \in owns => device[q] < o)
  BY <1>1 DEF Ready, InOrder
<1>3. \A q \in Pointers : waits'[q] = IF q = p THEN o ELSE waits[q]
  BY <1>1 DEF LockIInv, LockTypeOK
<1>4. OrderInv'
  BY <1>1, <1>2, <1>3 DEF OrderInv, Waiting
<1>5. AloneInv'
  BY <1>1 DEF AloneInv
<1> QED
  BY <1>4, <1>5

LEMMA OrderLocked ==
    ASSUME LockIInv, OrderInv, AloneInv, NEW p \in Pointers, Locked(p)
    PROVE  OrderInv' /\ AloneInv'
<1> DEFINE o == waits[p]
<1>1. /\ o \in Objects /\ o # None /\ o \in Nat
      /\ owns' = owns \cup {p}
      /\ \A q \in Pointers : device'[q] = IF q = p THEN o ELSE device[q]
      /\ \A q \in Pointers : waits'[q] = IF q = p THEN None ELSE waits[q]
  BY LockingAssumption DEF LockIInv, LockTypeOK, Locked
<1>2. \A q \in Pointers : Home[q] = Home[p] =>
        /\ Waiting(q) => q = p
        /\ q \in owns => device[q] < o
  BY <1>1 DEF OrderInv, Waiting
<1> HIDE DEF o
<1>3. OrderInv'
  BY <1>1, <1>2 DEF OrderInv, Waiting
<1>4. AloneInv'
  <2>1. \A q \in owns : q \in Pointers
    BY DEF LockIInv, LockTypeOK
  <2>2. \A q \in owns : Home[q] = Home[p] => device[q] # o
    BY <1>1, <1>2, <2>1
  <2> QED
    BY <1>1, <2>1, <2>2 DEF AloneInv
<1> QED
  BY <1>3, <1>4

\* Whoever gives a lock back, or gets one from another of the same thread,
\* waits for none.
LEMMA OrderUnlocked ==
    ASSUME LockIInv, OrderInv, AloneInv, NEW p \in Pointers, Unlock(p) \/ ScopeEnds(p)
    PROVE  OrderInv' /\ AloneInv'
<1>1. /\ waits' = waits
      /\ owns' = owns \ {p}
      /\ \A q \in Pointers : q # p => device'[q] = device[q]
      /\ owns \subseteq Pointers
  BY DEF LockIInv, LockTypeOK, Unlock, ScopeEnds
<1> QED
  BY <1>1 DEF OrderInv, AloneInv, Waiting

LEMMA OrderMoved ==
    ASSUME LockIInv, OrderInv, AloneInv, NEW p \in Pointers, NEW q \in Pointers,
           MoveConstruct(p, q) \/ MoveAssign(p, q)
    PROVE  OrderInv' /\ AloneInv'
<1>1. /\ p # q /\ Home[p] = Home[q]
      /\ \A r \in Pointers : Home[r] = Home[p] => ~Waiting(r)
      /\ waits' = waits
      /\ owns' = IF q \in owns THEN (owns \ {q}) \cup {p} ELSE owns \ {p}
      /\ device' = [device EXCEPT ![p] = device[q], ![q] = None]
      /\ device \in [Pointers -> Objects \cup {None}]
      /\ owns \subseteq Pointers
  BY DEF LockIInv, LockTypeOK, MoveConstruct, MoveAssign, Moving, Ready, Take, Handed, Waiting
<1>2. \A r \in Pointers : device'[r] = IF r = p THEN device[q] ELSE IF r = q THEN None ELSE device[r]
  BY <1>1
<1>3. OrderInv'
  BY <1>1, <1>2 DEF OrderInv, Waiting
<1>4. AloneInv'
  BY <1>1, <1>2 DEF AloneInv
<1> QED
  BY <1>3, <1>4

\* OrderInvariance: every thread locks in order, whatever it moves meanwhile.
THEOREM OrderInvariance == LockSpec => [](OrderInv /\ AloneInv)
<1>1. LockInit => OrderInv /\ AloneInv
  BY DEF LockInit, OrderInv, AloneInv, Waiting
<1>2. ASSUME LockIInv, OrderInv, AloneInv, [LockNext]_lockVars
      PROVE  OrderInv' /\ AloneInv'
  <2>1. CASE \E p \in Pointers : Access(p) \/ Finish(p)
    BY <1>2, <2>1 DEF Access, Finish, OrderInv, AloneInv, Waiting
  <2>2. CASE UNCHANGED lockVars
    BY <1>2, <2>2 DEF lockVars, OrderInv, AloneInv, Waiting
  <2> QED
    BY <1>2, <2>1, <2>2, OrderWaits, OrderLocked, OrderUnlocked, OrderMoved DEF LockNext
<1> QED
  BY <1>1, <1>2, LockInvariance, PTL DEF LockSpec

Behind(p) == {q \in Pointers : Waiting(q) /\ waits[q] > waits[p]}

\* Of the pointers that wait there is one that no other waits behind.
LEMMA LastWaits ==
    ASSUME LockTypeOK, \E p \in Pointers : Waiting(p)
    PROVE  \E p \in Pointers : Waiting(p) /\ \A q \in Pointers : Waiting(q) => waits[q] <= waits[p]
<1> DEFINE P == {p \in Pointers : Waiting(p)}
           T == {Cardinality(Behind(p)) : p \in P}
<1>1. \A p \in P : waits[p] \in Nat
  BY LockingAssumption DEF LockTypeOK, Waiting
<1>2. \A p \in Pointers : IsFiniteSet(Behind(p)) /\ Cardinality(Behind(p)) \in Nat
  <2>1. \A p \in Pointers : Behind(p) \in SUBSET Pointers
    BY DEF Behind
  <2> QED
    BY <2>1, LockingAssumption, FS_Subset, FS_CardinalityType
<1>3. T \in SUBSET Nat /\ T # {}
  BY <1>2
<1>4. PICK p \in P : \A q \in P : Cardinality(Behind(p)) <= Cardinality(Behind(q))
  <2> HIDE DEF T
  <2>1. Min(T) \in T /\ \A y \in T : Min(T) <= y
    BY <1>3, LeastNumber
  <2> QED
    BY <2>1 DEF T
<1>5. ASSUME NEW q \in P, waits[q] > waits[p]
      PROVE  FALSE
  <2>1. Behind(q) \in SUBSET Behind(p)
    <3>1. ASSUME NEW r \in Behind(q)
          PROVE  r \in Behind(p)
      <4>1. r \in P /\ waits[r] > waits[q]
        BY DEF Behind
      <4>2. waits[r] \in Nat /\ waits[q] \in Nat /\ waits[p] \in Nat
        BY <1>1, <4>1
      <4>3. waits[r] > waits[p]
        BY <1>5, <4>1, <4>2
      <4> QED
        BY <4>1, <4>3 DEF Behind
    <3> QED
      BY <3>1
  <2>2. q \in Behind(p) /\ q \notin Behind(q)
    <3>1. waits[q] \in Nat
      BY <1>1
    <3> QED
      BY <1>5, <3>1 DEF Behind
  <2>3. /\ Cardinality(Behind(q)) <= Cardinality(Behind(p))
        /\ Cardinality(Behind(p)) = Cardinality(Behind(q)) => Behind(p) = Behind(q)
    BY <1>2, <2>1, FS_Subset
  <2>4. Cardinality(Behind(p)) = Cardinality(Behind(q))
    BY <1>2, <1>4, <2>3
  <2> QED
    BY <2>2, <2>3, <2>4
<1>6. \A q \in P : waits[q] <= waits[p]
  BY <1>1, <1>5
<1> QED
  BY <1>6

\* NobodyLockedOutCorrect: threads that lock objects in their order never all
\* wait for each other: no move, assignment or unlock() leaves a lock with a
\* thread that no longer knows of it.
THEOREM NobodyLockedOutCorrect == LockSpec => []NobodyLockedOut
<1>1. ASSUME LockIInv, OrderInv
      PROVE  NobodyLockedOut
  <2>1. SUFFICES ASSUME \E p \in Pointers : Waiting(p)
                 PROVE  \E p \in Pointers :
                          /\ Waiting(p)
                          /\ \A q, r \in Pointers : Hinders(q, p) /\ Home[r] = Home[q] => ~Waiting(r)
    BY DEF NobodyLockedOut
  <2>2. PICK p \in Pointers :
          Waiting(p) /\ \A q \in Pointers : Waiting(q) => waits[q] <= waits[p]
    BY <1>1, <2>1, LastWaits DEF LockIInv
  <2>3. ASSUME NEW q \in Pointers, NEW r \in Pointers, Hinders(q, p), Home[r] = Home[q], Waiting(r)
        PROVE  FALSE
    <3>1. waits[p] \in Objects /\ waits[p] \in Nat /\ waits[r] \in Nat
      BY <1>1, <2>2, <2>3, LockingAssumption DEF LockIInv, LockTypeOK, Waiting
    <3>2. q \in owns /\ device[q] = waits[p]
      BY <1>1, <2>3, <3>1 DEF LockIInv, LockInv, Hinders
    <3>3. device[q] < waits[r]
      BY <1>1, <2>3, <3>2 DEF OrderInv
    <3>4. waits[r] <= waits[p]
      BY <2>2, <2>3
    <3> QED
      BY <3>1, <3>2, <3>3, <3>4
  <2> QED
    BY <2>2, <2>3
<1> QED
  BY <1>1, LockInvariance, OrderInvariance, PTL

-----------------------------------------------------------------------------
(* The refinement of ReadersWriters: a lock that is got or given back is   *)
(* the thread's, since it has none twice, and everything else a pointer    *)
(* does is a stutter.                                                      *)

RefInv == LockIInv /\ OrderInv /\ AloneInv

LEMMA HomesGrow ==
    ASSUME NEW P, NEW p
    PROVE  Homes(P \cup {p}) = Homes(P) \cup {Home[p]}
BY Zenon DEF Homes

LEMMA HomesLess ==
    ASSUME NEW P, NEW p, \A q \in P : Home[q] = Home[p] => q = p
    PROVE  Homes(P \ {p}) = Homes(P) \ {Home[p]}
BY Zenon DEF Homes

LEMMA HomesMove ==
    ASSUME NEW P, NEW p, NEW q \in P, p # q, Home[p] = Home[q]
    PROVE  Homes((P \ {p, q}) \cup {p}) = Homes(P \ {p})
<1>1. Homes((P \ {p, q}) \cup {p}) \subseteq Homes(P \ {p})
  BY Zenon DEF Homes
<1>2. Homes(P \ {p}) \subseteq Homes((P \ {p, q}) \cup {p})
  BY Zenon DEF Homes
<1> QED
  BY <1>1, <1>2

LEMMA HeldAbstractly ==
    ASSUME NEW o \in Objects, NEW t
    PROVE  /\ t \in LockReaders[o] <=> \E p \in keepers[o] : Reads(p) /\ Home[p] = t
           /\ t \in LockWriters[o] <=> \E p \in keepers[o] : ~Reads(p) /\ Home[p] = t
           /\ t \in LockInside[o] <=> \E p \in inUse : ptr[p] = o /\ Home[p] = t
BY DEF LockReaders, LockWriters, LockInside, Homes

\* Two pointers of a thread that keep one object are one.
LEMMA KeepsOnce ==
    ASSUME RefInv, NEW o \in Objects, NEW p \in keepers[o], NEW q \in keepers[o], Home[p] = Home[q]
    PROVE  p = q
BY DEF RefInv, LockIInv, LockInv, AloneInv

LEMMA InitRefines == LockInit => RW!RWInit
BY DEF LockInit, RW!RWInit, LockReaders, LockWriters, LockInside, Homes

LEMMA WaitingStutters ==
    ASSUME UNCHANGED <<keepers, ptr, inUse>>
    PROVE  UNCHANGED RW!rwVars
BY DEF RW!rwVars, LockReaders, LockWriters, LockInside, Homes, Reads

\* A lock that is given to a pointer is the thread's first on the object.
LEMMA LockedRefines ==
    ASSUME RefInv, NEW p \in Pointers, Locked(p)
    PROVE  RW!ToRead(Home[p], waits[p]) \/ RW!ToWrite(Home[p], waits[p])
<1> DEFINE o == waits[p]
           t == Home[p]
<1>1. /\ o \in Objects /\ o # None /\ o \in Nat
      /\ p \notin inUse
      /\ \A b \in Objects : keepers'[b] = IF b = o THEN keepers[o] \cup {p} ELSE keepers[b]
      /\ \A q \in Pointers : q # p => ptr'[q] = ptr[q]
      /\ inUse' = inUse /\ inUse \subseteq Pointers
      /\ Admits(o, p)
  BY LockingAssumption DEF RefInv, LockIInv, LockTypeOK, WaitInv, Locked
<1>2. \A q \in keepers[o] : q \in Pointers /\ Home[q] # t
  <2>1. ASSUME NEW q \in keepers[o], Home[q] = t
        PROVE  FALSE
    <3>1. q \in Pointers /\ q \in owns /\ device[q] = o
      BY <1>1, <2>1 DEF RefInv, LockIInv, LockTypeOK, LockInv
    <3>2. device[q] < o
      BY <1>1, <2>1, <3>1 DEF RefInv, OrderInv, Waiting
    <3> QED
      BY <1>1, <3>1, <3>2
  <2>2. keepers[o] \subseteq Pointers
    BY <1>1 DEF RefInv, LockIInv, LockTypeOK
  <2> QED
    BY <2>1, <2>2
<1> HIDE DEF o, t
<1>3. LockInside' = LockInside
  BY <1>1 DEF LockInside, Homes
<1>4. CASE Reads(p)
  <2>1. LockWriters[o] = {} /\ t \notin LockReaders[o]
    BY <1>1, <1>2, <1>4 DEF Admits, LockWriters, LockReaders, Homes
  <2>2. LockWriters' = LockWriters
    BY <1>1, <1>4 DEF LockWriters, Homes, Reads
  <2>3. ASSUME NEW b \in Objects
        PROVE  LockReaders'[b] = IF b = o THEN LockReaders[o] \cup {t} ELSE LockReaders[b]
    <3>1. LockReaders'[b] = Homes({q \in keepers'[b] : Reads(q)})
      BY DEF LockReaders, Homes, Reads
    <3>2. {q \in keepers'[b] : Reads(q)}
            = IF b = o THEN {q \in keepers[o] : Reads(q)} \cup {p} ELSE {q \in keepers[b] : Reads(q)}
      BY <1>1, <1>4
    <3> DEFINE P == {q \in keepers[o] : Reads(q)}
    <3>3. Homes(P \cup {p}) = LockReaders[o] \cup {t}
      BY <1>1, HomesGrow DEF LockReaders, t
    <3> QED
      BY <3>1, <3>2, <3>3 DEF LockReaders
  <2>4. LockReaders' = [LockReaders EXCEPT ![o] = @ \cup {t}]
    BY <1>1, <2>3 DEF LockReaders
  <2> QED
    BY <1>3, <2>1, <2>2, <2>4 DEF RW!ToRead, o, t
<1>5. CASE ~Reads(p)
  <2>1. keepers[o] = {}
    BY <1>1, <1>5 DEF Admits
  <2>2. LockWriters[o] = {} /\ LockReaders[o] = {}
    BY <1>1, <2>1 DEF LockWriters, LockReaders, Homes
  <2>3. LockReaders' = LockReaders
    BY <1>1, <1>5 DEF LockReaders, Homes, Reads
  <2>4. ASSUME NEW b \in Objects
        PROVE  LockWriters'[b] = IF b = o THEN {t} ELSE LockWriters[b]
    <3>1. LockWriters'[b] = Homes({q \in keepers'[b] : ~Reads(q)})
      BY DEF LockWriters, Homes, Reads
    <3>2. {q \in keepers'[b] : ~Reads(q)} = IF b = o THEN {p} ELSE {q \in keepers[b] : ~Reads(q)}
      <4>1. keepers'[b] = IF b = o THEN {p} ELSE keepers[b]
        BY <1>1, <2>1
      <4>2. {q \in {p} : ~Reads(q)} = {p}
        BY <1>5
      <4> QED
        BY <4>1, <4>2
    <3>3. Homes({p}) = {t}
      BY DEF Homes, t
    <3> QED
      BY <3>1, <3>2, <3>3 DEF LockWriters
  <2>5. LockWriters' = [LockWriters EXCEPT ![o] = {t}]
    BY <1>1, <2>4 DEF LockWriters
  <2> QED
    BY <1>3, <2>2, <2>3, <2>5 DEF RW!ToWrite, o, t
<1> QED
  BY <1>4, <1>5 DEF o, t

\* Who reaches an object has it, and reaches it by one pointer.
LEMMA ReachRefines ==
    ASSUME RefInv, NEW p \in Pointers, Access(p) \/ Finish(p)
    PROVE  ptr[p] \in Objects /\ (RW!Reach(Home[p], ptr[p]) \/ RW!Leave(Home[p], ptr[p]))
<1> DEFINE o == ptr[p]
           t == Home[p]
<1>1. o \in Objects /\ p \in keepers[o] /\ UNCHANGED <<keepers, ptr>>
  BY DEF RefInv, LockIInv, LockTypeOK, LockInv, AccessInv, Access, Finish
<1>2. LockReaders' = LockReaders /\ LockWriters' = LockWriters
  BY <1>1 DEF LockReaders, LockWriters, Homes, Reads
<1>3. CASE Access(p)
  <2>1. inUse' = inUse \cup {p}
    BY <1>3 DEF Access
  <2>2. t \in LockReaders[o] \cup LockWriters[o]
    BY <1>1, HeldAbstractly
  <2>3. ASSUME NEW b \in Objects
        PROVE  LockInside'[b] = IF b = o THEN LockInside[o] \cup {t} ELSE LockInside[b]
    <3>1. LockInside'[b] = Homes({q \in inUse' : ptr[q] = b})
      BY <1>1 DEF LockInside, Homes
    <3>2. {q \in inUse' : ptr[q] = b}
            = IF b = o THEN {q \in inUse : ptr[q] = o} \cup {p} ELSE {q \in inUse : ptr[q] = b}
      BY <2>1
    <3> QED
      BY <1>1, <3>1, <3>2, HomesGrow DEF LockInside
  <2>4. LockInside' = [LockInside EXCEPT ![o] = @ \cup {t}]
    BY <1>1, <2>3 DEF LockInside
  <2> QED
    BY <1>1, <1>2, <2>2, <2>4 DEF RW!Reach
<1>4. CASE Finish(p)
  <2>1. p \in inUse /\ inUse' = inUse \ {p}
    BY <1>4 DEF Finish
  <2>2. \A q \in inUse : ptr[q] = o /\ Home[q] = t => q = p
    BY <1>1, KeepsOnce DEF RefInv, LockIInv, AccessInv
  <2>3. t \in LockInside[o]
    BY <1>1, <2>1 DEF LockInside, Homes
  <2>4. ASSUME NEW b \in Objects
        PROVE  LockInside'[b] = IF b = o THEN LockInside[o] \ {t} ELSE LockInside[b]
    <3> DEFINE P == {q \in inUse : ptr[q] = o}
    <3>1. LockInside'[b] = Homes({q \in inUse' : ptr[q] = b})
      BY <1>1 DEF LockInside, Homes
    <3>2. {q \in inUse' : ptr[q] = b} = IF b = o THEN P \ {p} ELSE {q \in inUse : ptr[q] = b}
      BY <2>1
    <3>3. \A q \in P : Home[q] = Home[p] => q = p
      BY <2>2
    <3>4. LockInside[o] = Homes(P)
      BY <1>1 DEF LockInside
    <3> HIDE DEF P
    <3>5. Homes(P \ {p}) = Homes(P) \ {Home[p]}
      BY <3>3, HomesLess
    <3> QED
      BY <3>1, <3>2, <3>4, <3>5 DEF LockInside
  <2>5. LockInside' = [LockInside EXCEPT ![o] = @ \ {t}]
    BY <1>1, <2>4 DEF LockInside
  <2> QED
    BY <1>1, <1>2, <2>3, <2>5 DEF RW!Leave
<1> QED
  BY <1>1, <1>3, <1>4

\* All keep what they have, but for the lock that p gives back.
GivesBack(p) ==
    /\ \A b \in Objects :
         /\ LockReaders'[b] = Homes({q \in keepers[b] : Reads(q)} \ {p})
         /\ LockWriters'[b] = Homes({q \in keepers[b] : ~Reads(q)} \ {p})
    /\ LockInside' = LockInside
    /\ \A q \in inUse : Home[q] # Home[p]

LEMMA GivesBackRefines ==
    ASSUME RefInv, NEW p \in Pointers, GivesBack(p)
    PROVE  (device[p] \in Objects /\ RW!GiveUp(Home[p], device[p])) \/ UNCHANGED RW!rwVars
<1>1. CASE p \notin owns
  <2>1. \A b \in Objects : p \notin keepers[b]
    BY <1>1 DEF RefInv, LockIInv, LockInv
  <2>2. ASSUME NEW b \in Objects
        PROVE  LockReaders'[b] = LockReaders[b] /\ LockWriters'[b] = LockWriters[b]
    <3>1. /\ {q \in keepers[b] : Reads(q)} \ {p} = {q \in keepers[b] : Reads(q)}
          /\ {q \in keepers[b] : ~Reads(q)} \ {p} = {q \in keepers[b] : ~Reads(q)}
      BY <2>1
    <3> QED
      BY <3>1 DEF GivesBack, LockReaders, LockWriters
  <2>3. LockReaders' = LockReaders /\ LockWriters' = LockWriters
    BY <2>2 DEF LockReaders, LockWriters
  <2> QED
    BY <2>3 DEF GivesBack, RW!rwVars
<1>2. CASE p \in owns
  <2> DEFINE o == device[p]
             t == Home[p]
  <2>1. o \in Objects /\ p \in keepers[o]
    BY <1>2 DEF RefInv, LockIInv, LockTypeOK, LockInv
  <2>2. \A b \in Objects : b # o => p \notin keepers[b]
    BY DEF RefInv, LockIInv, LockInv
  <2>3. \A q \in keepers[o] : Home[q] = t => q = p
    BY <2>1, KeepsOnce
  <2>4. t \in LockReaders[o] \cup LockWriters[o] /\ t \notin LockInside[o]
    BY <2>1, HeldAbstractly DEF GivesBack
  <2> HIDE DEF o, t
  <2>5. ASSUME NEW b \in Objects
        PROVE  LockReaders'[b] = IF b = o THEN LockReaders[o] \ {t} ELSE LockReaders[b]
    <3> DEFINE P == {q \in keepers[b] : Reads(q)}
    <3>1. LockReaders'[b] = Homes(P \ {p}) /\ LockReaders[b] = Homes(P)
      BY DEF GivesBack, LockReaders
    <3>2. CASE b = o
      <4>1. \A q \in P : Home[q] = Home[p] => q = p
        BY <2>3, <3>2 DEF t
      <4> HIDE DEF P
      <4>2. Homes(P \ {p}) = Homes(P) \ {Home[p]}
        BY <4>1, HomesLess
      <4> QED
        BY <3>1, <3>2, <4>2 DEF t
    <3>3. CASE b # o
      <4>1. P \ {p} = P
        BY <2>2, <3>3
      <4> QED
        BY <3>1, <3>3, <4>1
    <3> QED
      BY <3>2, <3>3
  <2>6. ASSUME NEW b \in Objects
        PROVE  LockWriters'[b] = IF b = o THEN LockWriters[o] \ {t} ELSE LockWriters[b]
    <3> DEFINE P == {q \in keepers[b] : ~Reads(q)}
    <3>1. LockWriters'[b] = Homes(P \ {p}) /\ LockWriters[b] = Homes(P)
      BY DEF GivesBack, LockWriters
    <3>2. CASE b = o
      <4>1. \A q \in P : Home[q] = Home[p] => q = p
        BY <2>3, <3>2 DEF t
      <4> HIDE DEF P
      <4>2. Homes(P \ {p}) = Homes(P) \ {Home[p]}
        BY <4>1, HomesLess
      <4> QED
        BY <3>1, <3>2, <4>2 DEF t
    <3>3. CASE b # o
      <4>1. P \ {p} = P
        BY <2>2, <3>3
      <4> QED
        BY <3>1, <3>3, <4>1
    <3> QED
      BY <3>2, <3>3
  <2>7. LockReaders' = [LockReaders EXCEPT ![o] = @ \ {t}]
    BY <2>1, <2>5 DEF LockReaders
  <2>8. LockWriters' = [LockWriters EXCEPT ![o] = @ \ {t}]
    BY <2>1, <2>6 DEF LockWriters
  <2> QED
    BY <2>1, <2>4, <2>7, <2>8 DEF GivesBack, RW!GiveUp, o, t
<1> QED
  BY <1>1, <1>2

LEMMA UnlockGivesBack ==
    ASSUME RefInv, NEW p \in Pointers, Unlock(p) \/ ScopeEnds(p)
    PROVE  GivesBack(p)
<1>1. /\ \A q \in inUse : Home[q] # Home[p]
      /\ keepers' = Without(p)
      /\ \A q \in Pointers : q # p => ptr'[q] = ptr[q]
      /\ inUse' = inUse /\ inUse \subseteq Pointers
  BY DEF RefInv, LockIInv, LockTypeOK, Unlock, ScopeEnds, Ready
<1>2. \A b \in Objects : keepers'[b] = keepers[b] \ {p}
  BY <1>1 DEF RefInv, LockIInv, LockInv, Without
<1>3. LockInside' = LockInside
  BY <1>1 DEF LockInside, Homes
<1>4. ASSUME NEW b \in Objects
      PROVE  /\ LockReaders'[b] = Homes({q \in keepers[b] : Reads(q)} \ {p})
             /\ LockWriters'[b] = Homes({q \in keepers[b] : ~Reads(q)} \ {p})
  <2>1. /\ LockReaders'[b] = Homes({q \in keepers'[b] : Reads(q)})
        /\ LockWriters'[b] = Homes({q \in keepers'[b] : ~Reads(q)})
    BY DEF LockReaders, LockWriters, Homes, Reads
  <2>2. /\ {q \in keepers'[b] : Reads(q)} = {q \in keepers[b] : Reads(q)} \ {p}
        /\ {q \in keepers'[b] : ~Reads(q)} = {q \in keepers[b] : ~Reads(q)} \ {p}
    BY <1>2
  <2> QED
    BY <2>1, <2>2
<1> QED
  BY <1>1, <1>3, <1>4 DEF GivesBack

\* What q had stays with the thread.
LEMMA MoveGivesBack ==
    ASSUME RefInv, NEW p \in Pointers, NEW q \in Pointers,
           MoveConstruct(p, q) \/ MoveAssign(p, q)
    PROVE  GivesBack(p)
<1>1. /\ p # q /\ Home[p] = Home[q]
      /\ Reads(p) <=> Reads(q)
      /\ \A r \in inUse : Home[r] # Home[p]
      /\ \A r \in Pointers : r # p /\ r # q => ptr'[r] = ptr[r]
      /\ inUse' = inUse /\ inUse \subseteq Pointers
  BY DEF RefInv, LockIInv, LockTypeOK, MoveConstruct, MoveAssign, Moving, Ready, Take, Reads
<1>2. ASSUME NEW b \in Objects
      PROVE  keepers'[b] = IF q \in keepers[b] THEN (keepers[b] \ {p, q}) \cup {p}
                           ELSE keepers[b] \ {p}
  <2>1. Without(p)[b] = keepers[b] \ {p}
    BY DEF RefInv, LockIInv, LockInv, Without
  <2>2. CASE MoveAssign(p, q)
    BY <1>1, <2>1, <2>2 DEF MoveAssign, Take
  <2>3. CASE MoveConstruct(p, q)
    <3>1. p \notin keepers[b]
      BY <2>3 DEF RefInv, LockIInv, LockInv, MoveConstruct
    <3> QED
      BY <1>1, <2>3, <3>1 DEF MoveConstruct, Take
  <2> QED
    BY <2>2, <2>3
<1>3. LockInside' = LockInside
  BY <1>1 DEF LockInside, Homes
<1>4. ASSUME NEW b \in Objects
      PROVE  /\ LockReaders'[b] = Homes({r \in keepers[b] : Reads(r)} \ {p})
             /\ LockWriters'[b] = Homes({r \in keepers[b] : ~Reads(r)} \ {p})
  <2> DEFINE P == {r \in keepers[b] : Reads(r)}
             Q == {r \in keepers[b] : ~Reads(r)}
             Moved(R) == IF q \in R THEN (R \ {p, q}) \cup {p} ELSE R \ {p}
  <2>1. LockReaders'[b] = Homes({r \in keepers'[b] : Reads(r)})
    BY DEF LockReaders, Homes, Reads
  <2>2. LockWriters'[b] = Homes({r \in keepers'[b] : ~Reads(r)})
    BY DEF LockWriters, Homes, Reads
  <2>3. {r \in keepers'[b] : Reads(r)} = Moved(P)
    BY <1>1, <1>2, Zenon
  <2>4. {r \in keepers'[b] : ~Reads(r)} = Moved(Q)
    BY <1>1, <1>2, Zenon
  <2>5. ASSUME NEW R
        PROVE  Homes(Moved(R)) = Homes(R \ {p})
    BY <1>1, HomesMove
  <2> HIDE DEF P, Q, Moved
  <2>6. LockReaders'[b] = Homes(P \ {p}) /\ LockWriters'[b] = Homes(Q \ {p})
    BY <2>1, <2>2, <2>3, <2>4, <2>5
  <2> QED
    BY <2>6 DEF P, Q
<1> QED
  BY <1>1, <1>3, <1>4 DEF GivesBack

\* ReadersWritersRefined: whatever threads do with their pointers, objects are
\* got, reached and given up as with locks that are locked by hand.
THEOREM ReadersWritersRefined == LockSpec => ImplementsReadersWriters
<1>1. ASSUME RefInv, [LockNext]_lockVars
      PROVE  [RW!RWNext]_(RW!rwVars)
  <2>1. ASSUME NEW p \in Pointers, NEW o \in Objects,
               RW!ToRead(Home[p], o) \/ RW!ToWrite(Home[p], o) \/ RW!GiveUp(Home[p], o)
                 \/ RW!Reach(Home[p], o) \/ RW!Leave(Home[p], o)
        PROVE  RW!RWNext
    BY <2>1 DEF RW!RWNext, Homes
  <2>2. CASE UNCHANGED lockVars
    BY <2>2, WaitingStutters DEF lockVars
  <2>3. ASSUME NEW p \in Pointers,
               Relock(p) \/ Locked(p) \/ Access(p) \/ Finish(p) \/ Unlock(p) \/ ScopeEnds(p)
        PROVE  RW!RWNext \/ UNCHANGED RW!rwVars
    <3>1. CASE Relock(p)
      BY <3>1, WaitingStutters DEF Relock
    <3>2. CASE Locked(p)
      <4>1. waits[p] \in Objects
        BY <1>1, <3>2 DEF RefInv, LockIInv, LockTypeOK, Locked
      <4> QED
        BY <1>1, <2>1, <3>2, <4>1, LockedRefines
    <3>3. CASE Access(p) \/ Finish(p)
      BY <1>1, <2>1, <3>3, ReachRefines
    <3>4. CASE Unlock(p) \/ ScopeEnds(p)
      BY <1>1, <2>1, <3>4, UnlockGivesBack, GivesBackRefines
    <3> QED
      BY <2>3, <3>1, <3>2, <3>3, <3>4
  <2>4. ASSUME NEW p \in Pointers, NEW o \in Objects, Construct(p, o)
        PROVE  UNCHANGED RW!rwVars
    BY <2>4, WaitingStutters DEF Construct
  <2>5. ASSUME NEW p \in Pointers, NEW q \in Pointers, MoveConstruct(p, q) \/ MoveAssign(p, q)
        PROVE  RW!RWNext \/ UNCHANGED RW!rwVars
    BY <1>1, <2>1, <2>5, MoveGivesBack, GivesBackRefines
  <2> QED
    BY <1>1, <2>2, <2>3, <2>4, <2>5 DEF LockNext
<1>2. LockSpec => []RefInv
  BY LockInvariance, OrderInvariance, PTL DEF RefInv
<1> QED
  BY InitRefines, <1>1, <1>2, PTL DEF LockSpec, ImplementsReadersWriters, RW!RWSpec

-----------------------------------------------------------------------------
(* For any number of owners, numbers and loans, every loan of the system   *)
(* has one owner and is given back once, whatever the owners do and        *)
(* however soon numbers come round again.  OwnedOnce becomes inductive     *)
(* with LoansInv, which says that a loan has one number and a new loan is  *)
(* new.                                                                    *)

LoansInv ==
    /\ \A n, m \in Numbers : system[n] = system[m] /\ system[n] # 0 => n = m
    /\ \A n \in Numbers : system[n] <= loans
    /\ \A h \in Owners : loan[h] <= loans
    /\ \A l \in loose : l <= loans

HandlesIInv == OwnedOnce /\ LoansInv

USE HandlesAssumption

LEMMA EmptyIsNoNumber == Empty \notin Numbers
BY DEF Empty

\* Nothing is lent when the program begins.
LEMMA HandlesInitInvariant == HandlesInit => HandlesIInv
BY DEF HandlesInit, HandlesIInv, OwnedOnce, LoansInv, HandlesTypeOK, Empty

\* What an owner has is its own: no other owner has the number, and the
\* caller does not keep it.
LEMMA OwnsAlone ==
    ASSUME HandlesIInv, NEW h \in Owners, value[h] # Empty
    PROVE  /\ value[h] \in Numbers
           /\ system[value[h]] = loan[h]
           /\ loan[h] \in Nat \ {0}
           /\ loan[h] \notin loose
           /\ \A g \in Owners : g # h => value[g] # value[h] /\ loan[g] # loan[h]
           /\ \A n \in Numbers : system[n] = loan[h] => n = value[h]
<1>1. /\ value[h] \in Numbers
      /\ system[value[h]] = loan[h]
      /\ loan[h] \in Nat \ {0}
  BY EmptyIsNoNumber DEF HandlesIInv, OwnedOnce, HandlesTypeOK
<1>2. loan[h] \notin loose
  BY <1>1 DEF HandlesIInv, OwnedOnce
<1>3. ASSUME NEW g \in Owners, g # h
      PROVE  value[g] # value[h] /\ loan[g] # loan[h]
  <2>1. loan[g] # loan[h]
    BY <1>1, <1>3 DEF HandlesIInv, OwnedOnce
  <2> QED
    BY <1>1, <2>1 DEF HandlesIInv, OwnedOnce
<1>4. \A n \in Numbers : system[n] = loan[h] => n = value[h]
  BY <1>1 DEF HandlesIInv, LoansInv
<1> QED
  BY <1>1, <1>2, <1>3, <1>4

\* A loan that is the caller's has no owner, and one number.
LEMMA LooseAlone ==
    ASSUME HandlesIInv, NEW n \in Numbers, system[n] \in loose
    PROVE  /\ system[n] \in Nat \ {0}
           /\ \A g \in Owners : loan[g] # system[n] /\ value[g] # n
           /\ \A m \in Numbers : system[m] = system[n] => m = n
<1>1. system[n] \in Nat \ {0}
  BY DEF HandlesIInv, OwnedOnce, HandlesTypeOK
<1>2. \A g \in Owners : loan[g] # system[n]
  BY <1>1 DEF HandlesIInv, OwnedOnce
<1>3. \A g \in Owners : value[g] # n
  BY <1>1, <1>2, EmptyIsNoNumber DEF HandlesIInv, OwnedOnce
<1> QED
  BY <1>1, <1>2, <1>3 DEF HandlesIInv, LoansInv

\* The two ways in which something new is lent.
LEMMA LentStep ==
    ASSUME HandlesIInv, NEW n \in Numbers,
           \/ \E h \in Owners : Make(h, n)
           \/ Obtain(n)
    PROVE  HandlesIInv'
<1>1. /\ loans + 1 \in 1..MaxLoans
      /\ loans \in Nat
      /\ loans' = loans + 1
      /\ system[n] = 0
      /\ system' = [system EXCEPT ![n] = loans + 1]
      /\ \A m \in Numbers : system[m] \in Nat /\ system[m] <= loans
      /\ \A h \in Owners : loan[h] \in Nat /\ loan[h] <= loans
      /\ \A l \in loose : l \in Nat /\ l <= loans
  BY DEF HandlesIInv, OwnedOnce, LoansInv, HandlesTypeOK, Make, Obtain, Lent
<1>2. \A g \in Owners : value[g] # n
  BY <1>1, EmptyIsNoNumber DEF HandlesIInv, OwnedOnce
<1>3. system' \in [Numbers -> 0..MaxLoans] /\ loans' \in 0..MaxLoans
  BY <1>1 DEF HandlesIInv, OwnedOnce, HandlesTypeOK
<1>4. /\ \A m, k \in Numbers : system'[m] = system'[k] /\ system'[m] # 0 => m = k
      /\ \A m \in Numbers : system'[m] <= loans'
  BY <1>1 DEF HandlesIInv, OwnedOnce, LoansInv, HandlesTypeOK
<1>5. CASE \E h \in Owners : Make(h, n)
  <2>1. PICK h \in Owners : Make(h, n)
    BY <1>5
  <2>2. /\ value[h] = Empty
        /\ loan[h] = 0
        /\ value' = [value EXCEPT ![h] = n]
        /\ loan' = [loan EXCEPT ![h] = loans + 1]
        /\ loose' = loose
    BY <2>1 DEF Make, HandlesIInv, OwnedOnce
  <2>3. \A g \in Owners : IF value'[g] = Empty THEN loan'[g] = 0 ELSE
           system'[value'[g]] = loan'[g] /\ loan'[g] # 0
    BY <1>1, <1>2, <2>2, EmptyIsNoNumber DEF HandlesIInv, OwnedOnce, HandlesTypeOK
  <2>4. \A g, k \in Owners : g # k /\ loan'[g] # 0 => loan'[g] # loan'[k]
    BY <1>1, <2>2 DEF HandlesIInv, OwnedOnce, HandlesTypeOK
  <2>5. ASSUME NEW m \in Numbers, system'[m] # 0
        PROVE  system'[m] \in loose' <=> ~\E g \in Owners : loan'[g] = system'[m]
    <3>1. CASE m = n
      <4>1. loan'[h] = system'[m] /\ system'[m] \notin loose'
        BY <1>1, <2>2, <3>1 DEF HandlesIInv, OwnedOnce, HandlesTypeOK
      <4> QED
        BY <4>1
    <3>2. CASE m # n
      <4>1. \A g \in Owners : loan'[g] = system'[m] <=> loan[g] = system[m]
        BY <1>1, <2>2, <2>5, <3>2 DEF HandlesIInv, OwnedOnce, HandlesTypeOK
      <4> QED
        BY <1>1, <2>2, <2>5, <3>2, <4>1 DEF HandlesIInv, OwnedOnce, HandlesTypeOK
    <3> QED
      BY <3>1, <3>2
  <2>6. HandlesTypeOK' /\ LoansInv'
    BY <1>1, <1>3, <1>4, <2>2 DEF HandlesIInv, OwnedOnce, HandlesTypeOK, LoansInv
  <2> QED
    BY <2>3, <2>4, <2>5, <2>6 DEF HandlesIInv, OwnedOnce
<1>6. CASE Obtain(n)
  <2>1. loose' = loose \cup {loans + 1} /\ UNCHANGED <<value, loan>>
    BY <1>6 DEF Obtain
  <2>2. \A g \in Owners : IF value'[g] = Empty THEN loan'[g] = 0 ELSE
           system'[value'[g]] = loan'[g] /\ loan'[g] # 0
    BY <1>1, <1>2, <2>1 DEF HandlesIInv, OwnedOnce, HandlesTypeOK
  <2>3. ASSUME NEW m \in Numbers, system'[m] # 0
        PROVE  system'[m] \in loose' <=> ~\E g \in Owners : loan'[g] = system'[m]
    BY <1>1, <2>1, <2>3 DEF HandlesIInv, OwnedOnce, HandlesTypeOK
  <2>4. HandlesTypeOK' /\ LoansInv'
    BY <1>1, <1>3, <1>4, <2>1 DEF HandlesIInv, OwnedOnce, HandlesTypeOK, LoansInv
  <2> QED
    BY <2>1, <2>2, <2>3, <2>4 DEF HandlesIInv, OwnedOnce
<1> QED
  BY <1>5, <1>6

\* What is given back by an owner is nobody else's.
LEMMA ReturnedFacts ==
    ASSUME HandlesIInv, NEW h \in Owners
    PROVE  /\ Returned(h) \in [Numbers -> 0..MaxLoans]
           /\ \A n \in Numbers : Returned(h)[n] =
                IF value[h] # Empty /\ n = value[h] THEN 0 ELSE system[n]
           /\ \A n \in Numbers : Returned(h)[n] # 0 =>
                Returned(h)[n] = system[n] /\ system[n] # loan[h]
<1>1. /\ Returned(h) \in [Numbers -> 0..MaxLoans]
      /\ \A n \in Numbers : Returned(h)[n] =
           IF value[h] # Empty /\ n = value[h] THEN 0 ELSE system[n]
  BY EmptyIsNoNumber DEF HandlesIInv, OwnedOnce, HandlesTypeOK, Returned
<1>2. value[h] = Empty => loan[h] = 0
  BY DEF HandlesIInv, OwnedOnce
<1> QED
  BY <1>1, <1>2, OwnsAlone

LEMMA ReturnedLoans ==
    ASSUME HandlesIInv, NEW h \in Owners
    PROVE  /\ \A n, m \in Numbers :
                Returned(h)[n] = Returned(h)[m] /\ Returned(h)[n] # 0 => n = m
           /\ \A n \in Numbers : Returned(h)[n] <= loans
<1>1. loans \in Nat
  BY DEF HandlesIInv, OwnedOnce, HandlesTypeOK
<1>2. \A n \in Numbers : Returned(h)[n] = 0 \/ Returned(h)[n] = system[n]
  BY ReturnedFacts
<1> QED
  BY <1>1, <1>2 DEF HandlesIInv, LoansInv

\* The other owners still have what they had.
LEMMA OthersKeep ==
    ASSUME HandlesIInv, NEW h \in Owners, NEW g \in Owners, g # h, value[g] # Empty
    PROVE  Returned(h)[value[g]] = loan[g] /\ loan[g] # 0
<1>1. value[g] \in Numbers /\ system[value[g]] = loan[g] /\ loan[g] # 0
  BY OwnsAlone
<1>2. value[h] # Empty => value[g] # value[h]
  BY OwnsAlone
<1> QED
  BY <1>1, <1>2, ReturnedFacts

\* An owner closes, or lets the caller have its number.
LEMMA LetGoStep ==
    ASSUME HandlesIInv, NEW h \in Owners, Close(h) \/ ReleaseHandle(h)
    PROVE  HandlesIInv'
<1>1. value' = [value EXCEPT ![h] = Empty] /\ loan' = [loan EXCEPT ![h] = 0] /\ loans' = loans
  BY DEF Close, ReleaseHandle
<1>2. CASE Close(h)
  <2>1. system' = Returned(h) /\ loose' = loose
    BY <1>2 DEF Close
  <2>2. HandlesTypeOK'
    BY <1>1, <2>1, ReturnedFacts DEF HandlesIInv, OwnedOnce, HandlesTypeOK
  <2>3. LoansInv'
    BY <1>1, <2>1, ReturnedLoans DEF HandlesIInv, OwnedOnce, HandlesTypeOK, LoansInv
  <2>4. \A g \in Owners : IF value'[g] = Empty THEN loan'[g] = 0 ELSE
           system'[value'[g]] = loan'[g] /\ loan'[g] # 0
    BY <1>1, <2>1, OthersKeep DEF HandlesIInv, OwnedOnce, HandlesTypeOK
  <2>5. ASSUME NEW m \in Numbers, system'[m] # 0
        PROVE  system'[m] \in loose' <=> ~\E g \in Owners : loan'[g] = system'[m]
    <3>1. system'[m] = system[m] /\ system[m] # loan[h] /\ system[m] # 0
      BY <2>1, <2>5, ReturnedFacts
    <3>2. \A g \in Owners : loan'[g] = system'[m] <=> loan[g] = system[m]
      BY <1>1, <3>1 DEF HandlesIInv, OwnedOnce, HandlesTypeOK
    <3> QED
      BY <2>1, <3>1, <3>2 DEF HandlesIInv, OwnedOnce
  <2>6. \A g, k \in Owners : g # k /\ loan'[g] # 0 => loan'[g] # loan'[k]
    BY <1>1 DEF HandlesIInv, OwnedOnce, HandlesTypeOK
  <2> QED
    BY <2>2, <2>3, <2>4, <2>5, <2>6 DEF HandlesIInv, OwnedOnce
<1>3. CASE ReleaseHandle(h)
  <2>1. system' = system /\ loose' = loose \cup {loan[h]} /\ value[h] # Empty
    BY <1>3 DEF ReleaseHandle
  <2>2. HandlesTypeOK' /\ LoansInv'
    <3>1. loan[h] \in Nat \ {0} /\ loan[h] \in 0..MaxLoans /\ loan[h] <= loans
      BY <2>1, OwnsAlone DEF HandlesIInv, OwnedOnce, HandlesTypeOK, LoansInv
    <3>2. HandlesTypeOK'
      <4>1. HandlesTypeOK /\ loan[h] \in 1..MaxLoans
        BY <3>1 DEF HandlesIInv, OwnedOnce
      <4>2. loose' \subseteq 1..MaxLoans
        BY <2>1, <4>1 DEF HandlesTypeOK
      <4>3. loan' \in [Owners -> 0..MaxLoans]
        BY <1>1, <4>1 DEF HandlesTypeOK
      <4> QED
        BY <1>1, <2>1, <4>1, <4>2, <4>3 DEF HandlesTypeOK
    <3>3. LoansInv'
      BY <1>1, <2>1, <3>1 DEF HandlesIInv, OwnedOnce, HandlesTypeOK, LoansInv
    <3> QED
      BY <3>2, <3>3
  <2>3. \A g \in Owners : IF value'[g] = Empty THEN loan'[g] = 0 ELSE
           system'[value'[g]] = loan'[g] /\ loan'[g] # 0
    BY <1>1, <2>1 DEF HandlesIInv, OwnedOnce, HandlesTypeOK
  <2>4. ASSUME NEW m \in Numbers, system'[m] # 0
        PROVE  system'[m] \in loose' <=> ~\E g \in Owners : loan'[g] = system'[m]
    <3>1. \A g \in Owners : loan'[g] = system'[m] <=> g # h /\ loan[g] = system[m]
      BY <1>1, <2>1, <2>4 DEF HandlesIInv, OwnedOnce, HandlesTypeOK
    <3>2. system'[m] = loan[h] => \A g \in Owners : g # h => loan[g] # loan[h]
      BY <2>1, OwnsAlone
    <3> QED
      BY <2>1, <2>4, <3>1, <3>2 DEF HandlesIInv, OwnedOnce
  <2>5. \A g, k \in Owners : g # k /\ loan'[g] # 0 => loan'[g] # loan'[k]
    BY <1>1 DEF HandlesIInv, OwnedOnce, HandlesTypeOK
  <2> QED
    BY <2>2, <2>3, <2>4, <2>5 DEF HandlesIInv, OwnedOnce
<1> QED
  BY <1>2, <1>3

\* An owner closes what it has before it takes a number of the caller's.
LEMMA AssignStep ==
    ASSUME HandlesIInv, NEW h \in Owners, NEW n \in Numbers, Assign(h, n)
    PROVE  HandlesIInv'
<1>1. /\ system[n] \in loose
      /\ system' = Returned(h)
      /\ value' = [value EXCEPT ![h] = n]
      /\ loan' = [loan EXCEPT ![h] = system[n]]
      /\ loose' = loose \ {system[n]}
      /\ loans' = loans
  BY DEF Assign
<1>2. system'[n] = system[n]
  BY <1>1, ReturnedFacts, LooseAlone
<1>3. HandlesTypeOK' /\ LoansInv'
  <2>1. HandlesTypeOK'
    BY <1>1, ReturnedFacts DEF HandlesIInv, OwnedOnce, HandlesTypeOK
  <2>2. LoansInv'
    BY <1>1, ReturnedLoans DEF HandlesIInv, OwnedOnce, HandlesTypeOK, LoansInv
  <2> QED
    BY <2>1, <2>2
<1>4. ASSUME NEW g \in Owners
      PROVE  IF value'[g] = Empty THEN loan'[g] = 0 ELSE
               system'[value'[g]] = loan'[g] /\ loan'[g] # 0
  <2>1. CASE g = h
    BY <1>1, <1>2, <2>1, LooseAlone, EmptyIsNoNumber DEF HandlesIInv, OwnedOnce, HandlesTypeOK
  <2>2. CASE g # h
    BY <1>1, <2>2, OthersKeep DEF HandlesIInv, OwnedOnce, HandlesTypeOK
  <2> QED
    BY <2>1, <2>2
<1>5. \A g, k \in Owners : g # k /\ loan'[g] # 0 => loan'[g] # loan'[k]
  BY <1>1, LooseAlone DEF HandlesIInv, OwnedOnce, HandlesTypeOK
<1>6. ASSUME NEW m \in Numbers, system'[m] # 0
      PROVE  system'[m] \in loose' <=> ~\E g \in Owners : loan'[g] = system'[m]
  <2>1. system'[m] = system[m] /\ system[m] # loan[h] /\ system[m] # 0
    BY <1>1, <1>6, ReturnedFacts
  <2>2. CASE m = n
    <3>1. loan'[h] = system'[m] /\ system'[m] \notin loose'
      BY <1>1, <2>1, <2>2 DEF HandlesIInv, OwnedOnce, HandlesTypeOK
    <3> QED
      BY <3>1
  <2>3. CASE m # n
    <3>1. system[m] # system[n]
      BY <1>1, <2>3, LooseAlone
    <3>2. \A g \in Owners : loan'[g] = system'[m] <=> loan[g] = system[m]
      BY <1>1, <2>1, <3>1 DEF HandlesIInv, OwnedOnce, HandlesTypeOK
    <3> QED
      BY <1>1, <2>1, <3>1, <3>2 DEF HandlesIInv, OwnedOnce
  <2> QED
    BY <2>2, <2>3
<1> QED
  BY <1>3, <1>4, <1>5, <1>6 DEF HandlesIInv, OwnedOnce

\* A move carries one loan over, after the other one has been given back.
LEMMA MoveOwnerStep ==
    ASSUME HandlesIInv, NEW h \in Owners, NEW g \in Owners, MoveOwner(h, g)
    PROVE  HandlesIInv'
<1>1. /\ h # g
      /\ system' = Returned(h)
      /\ value' = [value EXCEPT ![h] = value[g], ![g] = Empty]
      /\ loan' = [loan EXCEPT ![h] = loan[g], ![g] = 0]
      /\ UNCHANGED <<loose, loans>>
  BY DEF MoveOwner, Unaffected
<1>2. HandlesTypeOK' /\ LoansInv'
  <2>1. HandlesTypeOK'
    BY <1>1, ReturnedFacts DEF HandlesIInv, OwnedOnce, HandlesTypeOK
  <2>2. LoansInv'
    BY <1>1, ReturnedLoans DEF HandlesIInv, OwnedOnce, HandlesTypeOK, LoansInv
  <2> QED
    BY <2>1, <2>2
<1>3. ASSUME NEW k \in Owners
      PROVE  IF value'[k] = Empty THEN loan'[k] = 0 ELSE
               system'[value'[k]] = loan'[k] /\ loan'[k] # 0
  <2>1. CASE k = g
    BY <1>1, <2>1 DEF HandlesIInv, OwnedOnce, HandlesTypeOK
  <2>2. CASE k = h
    <3>1. value'[k] = value[g] /\ loan'[k] = loan[g]
      BY <1>1, <2>2 DEF HandlesIInv, OwnedOnce, HandlesTypeOK
    <3>2. CASE value[g] = Empty
      BY <3>1, <3>2 DEF HandlesIInv, OwnedOnce
    <3>3. CASE value[g] # Empty
      BY <1>1, <3>1, <3>3, OthersKeep
    <3> QED
      BY <3>2, <3>3
  <2>3. CASE k # g /\ k # h
    BY <1>1, <2>3, OthersKeep DEF HandlesIInv, OwnedOnce, HandlesTypeOK
  <2> QED
    BY <2>1, <2>2, <2>3
<1>4. \A k, j \in Owners : k # j /\ loan'[k] # 0 => loan'[k] # loan'[j]
  BY <1>1 DEF HandlesIInv, OwnedOnce, HandlesTypeOK
<1>5. ASSUME NEW m \in Numbers, system'[m] # 0
      PROVE  system'[m] \in loose' <=> ~\E k \in Owners : loan'[k] = system'[m]
  <2>1. system'[m] = system[m] /\ system[m] # loan[h] /\ system[m] # 0
    BY <1>1, <1>5, ReturnedFacts
  <2>2. (\E k \in Owners : loan'[k] = system'[m]) <=> (\E k \in Owners : loan[k] = system[m])
    <3>1. ASSUME NEW k \in Owners, loan'[k] = system'[m]
          PROVE  \E j \in Owners : loan[j] = system[m]
      BY <1>1, <2>1, <3>1 DEF HandlesIInv, OwnedOnce, HandlesTypeOK
    <3>2. ASSUME NEW k \in Owners, loan[k] = system[m]
          PROVE  \E j \in Owners : loan'[j] = system'[m]
      <4>1. CASE k = g
        BY <1>1, <2>1, <3>2, <4>1 DEF HandlesIInv, OwnedOnce, HandlesTypeOK
      <4>2. CASE k # g
        BY <1>1, <2>1, <3>2, <4>2 DEF HandlesIInv, OwnedOnce, HandlesTypeOK
      <4> QED
        BY <4>1, <4>2
    <3> QED
      BY <3>1, <3>2
  <2> QED
    BY <1>1, <2>1, <2>2 DEF HandlesIInv, OwnedOnce
<1> QED
  BY <1>2, <1>3, <1>4, <1>5 DEF HandlesIInv, OwnedOnce

\* The caller closes what is its own, which no owner has.
LEMMA CloseLooseStep ==
    ASSUME HandlesIInv, NEW n \in Numbers, CloseLoose(n)
    PROVE  HandlesIInv'
<1>1. /\ system[n] \in loose
      /\ loose' = loose \ {system[n]}
      /\ system' = [system EXCEPT ![n] = 0]
      /\ UNCHANGED <<value, loan, loans>>
  BY DEF CloseLoose
<1>2. HandlesTypeOK' /\ LoansInv'
  <2>1. HandlesTypeOK'
    <3>1. HandlesTypeOK
      BY DEF HandlesIInv, OwnedOnce
    <3>2. loose' \subseteq 1..MaxLoans
      BY <1>1, <3>1 DEF HandlesTypeOK
    <3>3. system' \in [Numbers -> 0..MaxLoans]
      BY <1>1, <3>1 DEF HandlesTypeOK
    <3> QED
      BY <1>1, <3>1, <3>2, <3>3 DEF HandlesTypeOK
  <2>2. LoansInv'
    <3>1. \A m \in Numbers : system'[m] = IF m = n THEN 0 ELSE system[m]
      BY <1>1 DEF HandlesIInv, OwnedOnce, HandlesTypeOK
    <3>2. loans \in Nat
      BY DEF HandlesIInv, OwnedOnce, HandlesTypeOK
    <3> QED
      BY <1>1, <3>1, <3>2 DEF HandlesIInv, LoansInv
  <2> QED
    BY <2>1, <2>2
<1>3. \A g \in Owners : IF value'[g] = Empty THEN loan'[g] = 0 ELSE
         system'[value'[g]] = loan'[g] /\ loan'[g] # 0
  BY <1>1, LooseAlone DEF HandlesIInv, OwnedOnce, HandlesTypeOK
<1>4. ASSUME NEW m \in Numbers, system'[m] # 0
      PROVE  system'[m] \in loose' <=> ~\E k \in Owners : loan'[k] = system'[m]
  <2>1. m # n /\ system'[m] = system[m] /\ system[m] # system[n]
    BY <1>1, <1>4, LooseAlone DEF HandlesIInv, OwnedOnce, HandlesTypeOK
  <2>2. system[m] \in loose <=> ~\E k \in Owners : loan[k] = system[m]
    BY <1>4, <2>1 DEF HandlesIInv, OwnedOnce
  <2> QED
    BY <1>1, <2>1, <2>2
<1> QED
  BY <1>1, <1>2, <1>3, <1>4 DEF HandlesIInv, OwnedOnce

\* OwnedOnceCorrect: for any number of owners, and numbers that come round
\* again at once, every loan is given back once, by the one that has it.
THEOREM OwnedOnceCorrect == HandlesSpec => []OwnedOnce
<1>1. ASSUME HandlesIInv, [HandlesNext]_handleVars
      PROVE  HandlesIInv'
  <2>1. CASE HandlesNext
    BY <1>1, <2>1, LentStep, LetGoStep, AssignStep, MoveOwnerStep, CloseLooseStep
       DEF HandlesNext
  <2>2. CASE UNCHANGED handleVars
    BY <1>1, <2>2 DEF handleVars, HandlesIInv, OwnedOnce, LoansInv, HandlesTypeOK
  <2> QED
    BY <1>1, <2>1, <2>2
<1>2. HandlesIInv => OwnedOnce
  BY DEF HandlesIInv
<1> QED
  BY HandlesInitInvariant, <1>1, <1>2, PTL DEF HandlesSpec
=============================================================================
