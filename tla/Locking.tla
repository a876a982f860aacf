------------------------------ MODULE Locking -------------------------------
(***************************************************************************)
(* hitycho::lock (src/locking.hpp): objects that are reached through smart *)
(* pointers only, and each pointer keeps the object's mutex while it       *)
(* lives.                                                                  *)
(*                                                                         *)
(* A pointer is two things that move together or not at all: the base      *)
(* class (std::unique_lock or std::shared_lock), which knows the mutex and *)
(* whether it is owned, and ptr_.  The mutexes and the base classes are    *)
(* not in the repository and are modelled by their contract.               *)
(***************************************************************************)
EXTENDS Naturals, FiniteSets

CONSTANTS
    Pointers,   \* variables that are smart pointers or guards
    Kind,       \* Pointers -> the class of each
    Home,       \* Pointers -> the thread whose variable it is
    Objects,    \* numbers of the protected objects, in locking order
    SharedOnes, \* those of class shared, the others are of class exclusive
    None        \* no object

Movable == {"exclusive_ptr", "reader_ptr", "writer_ptr"}

ASSUME LockingAssumption ==
    /\ IsFiniteSet(Pointers)
    /\ Objects \subseteq Nat
    /\ None \notin Objects
    /\ Kind \in [Pointers -> Movable \cup {"exclusive_guard"}]

VARIABLES
    keepers,    \* object -> the pointers its mutex is locked for
    alive,      \* pointers whose lifetime has begun, moved-from ones included
    waits,      \* pointer -> the object it waits to lock
    device,     \* pointer -> the object whose mutex the base class refers to
    owns,       \* pointers whose base class owns_lock()
    ptr,        \* pointer -> ptr_, or obj_ of a guard
    inUse,      \* pointers through which the object is being accessed
    bare        \* history: pointers whose lock unlock() has taken away

lockVars == <<keepers, alive, waits, device, owns, ptr, inUse, bare>>

LockTypeOK ==
    /\ keepers \in [Objects -> SUBSET Pointers]
    /\ alive \subseteq Pointers
    /\ waits \in [Pointers -> Objects \cup {None}]
    /\ device \in [Pointers -> Objects \cup {None}]
    /\ owns \subseteq Pointers
    /\ ptr \in [Pointers -> Objects \cup {None}]
    /\ inUse \subseteq Pointers
    /\ bare \subseteq Pointers

LockInit ==
    /\ keepers = [o \in Objects |-> {}]
    /\ alive = {}
    /\ waits = [p \in Pointers |-> None]
    /\ device = [p \in Pointers |-> None]
    /\ owns = {}
    /\ ptr = [p \in Pointers |-> None]
    /\ inUse = {}
    /\ bare = {}

Reads(p) == Kind[p] = "reader_ptr"

Protects(p, o) == (o \in SharedOnes) = (Kind[p] \in {"reader_ptr", "writer_ptr"})

\* A mutex lets a pointer in beside readers only, and only if it is one.
Admits(o, p) == \A q \in keepers[o] : Reads(p) /\ Reads(q)

\* The thread of p is not in the middle of an expression.
Ready(p) == \A q \in Pointers : Home[q] = Home[p] => q \notin inUse /\ waits[q] = None

\* Callers lock several objects in their order: this is what keeps threads
\* from waiting for each other.
InOrder(p, o) == \A q \in owns : Home[q] = Home[p] => device[q] < o

Without(p) == [o \in Objects |-> IF p \in owns THEN keepers[o] \ {p} ELSE keepers[o]]

-----------------------------------------------------------------------------
(* TakeCopies and AssignForgets take no part in LockSpec: each is the      *)
(* definition after it with a slip that breaks a property.                 *)

\* exclusive_ptr(obj) and its like call lock() before ptr_ is set.
Construct(p, o) ==
    /\ Ready(p)
    /\ p \notin alive
    /\ Protects(p, o)
    /\ InOrder(p, o)
    /\ waits' = [waits EXCEPT ![p] = o]
    /\ UNCHANGED <<keepers, alive, device, owns, ptr, inUse, bare>>

\* lock() of the base class, which a condition variable calls after unlock().
Relock(p) ==
    /\ Ready(p)
    /\ p \in bare
    /\ InOrder(p, device[p])
    /\ waits' = [waits EXCEPT ![p] = device[p]]
    /\ UNCHANGED <<keepers, alive, device, owns, ptr, inUse, bare>>

\* The lock is there; ptr_ is set by a constructor and had stayed at a Relock.
Locked(p) ==
    /\ waits[p] # None
    /\ Admits(waits[p], p)
    /\ keepers' = [keepers EXCEPT ![waits[p]] = @ \cup {p}]
    /\ alive' = alive \cup {p}
    /\ device' = [device EXCEPT ![p] = waits[p]]
    /\ owns' = owns \cup {p}
    /\ ptr' = [ptr EXCEPT ![p] = waits[p]]
    /\ waits' = [waits EXCEPT ![p] = None]
    /\ bare' = bare \ {p}
    /\ UNCHANGED inUse

\* operator->, operator*, operator[] and at() throw when ptr_ is null and do
\* not ask owns_lock(): the caller does not come after unlock().
Access(p) ==
    /\ Ready(p)
    /\ p \in alive
    /\ ptr[p] # None
    /\ p \notin bare
    /\ inUse' = inUse \cup {p}
    /\ UNCHANGED <<keepers, alive, waits, device, owns, ptr, bare>>

Finish(p) ==
    /\ p \in inUse
    /\ inUse' = inUse \ {p}
    /\ UNCHANGED <<keepers, alive, waits, device, owns, ptr, bare>>

\* unlock() of the public base class: ptr_ stays.
Unlock(p) ==
    /\ Ready(p)
    /\ Kind[p] \in Movable
    /\ p \in owns
    /\ keepers' = Without(p)
    /\ owns' = owns \ {p}
    /\ bare' = bare \cup {p}
    /\ UNCHANGED <<alive, waits, device, ptr, inUse>>

Handed(set, q, p) == IF q \in set THEN (set \ {q}) \cup {p} ELSE set \ {p}

TakeCopies(p, q, locks) ==
    /\ keepers' = [o \in Objects |->
                     IF q \in locks[o] THEN (locks[o] \ {q}) \cup {p} ELSE locks[o]]
    /\ device' = [device EXCEPT ![p] = device[q], ![q] = None]
    /\ owns' = Handed(owns, q, p)
    /\ ptr' = [ptr EXCEPT ![p] = ptr[q]]
    /\ bare' = Handed(bare, q, p)
    /\ UNCHANGED <<waits, inUse>>

\* p gets all that q has, and q is left with nothing.
Take(p, q, locks) ==
    /\ keepers' = [o \in Objects |->
                     IF q \in locks[o] THEN (locks[o] \ {q}) \cup {p} ELSE locks[o]]
    /\ device' = [device EXCEPT ![p] = device[q], ![q] = None]
    /\ owns' = Handed(owns, q, p)
    /\ ptr' = [ptr EXCEPT ![p] = ptr[q], ![q] = None]
    /\ bare' = Handed(bare, q, p)
    /\ UNCHANGED <<waits, inUse>>

\* q is moved to p, which is of the same class.
Moving(p, q) ==
    /\ Ready(p)
    /\ p # q
    /\ q \in alive
    /\ Home[p] = Home[q]
    /\ Kind[p] = Kind[q]
    /\ Kind[p] \in Movable

MoveConstruct(p, q) ==
    /\ Moving(p, q)
    /\ p \notin alive
    /\ alive' = alive \cup {p}
    /\ Take(p, q, keepers)

AssignForgets(p, q) ==
    /\ Moving(p, q)
    /\ p \in alive
    /\ Take(p, q, keepers)
    /\ UNCHANGED alive

\* p = std::move(q): p unlocks what it owns first.
MoveAssign(p, q) ==
    /\ Moving(p, q)
    /\ p \in alive
    /\ Take(p, q, Without(p))
    /\ UNCHANGED alive

\* The base class, or ~exclusive_guard(), unlocks what is owned.
ScopeEnds(p) ==
    /\ Ready(p)
    /\ p \in alive
    /\ keepers' = Without(p)
    /\ alive' = alive \ {p}
    /\ device' = [device EXCEPT ![p] = None]
    /\ owns' = owns \ {p}
    /\ ptr' = [ptr EXCEPT ![p] = None]
    /\ bare' = bare \ {p}
    /\ UNCHANGED <<waits, inUse>>

LockNext ==
    \/ \E p \in Pointers, o \in Objects : Construct(p, o)
    \/ \E p \in Pointers :
         Relock(p) \/ Locked(p) \/ Access(p) \/ Finish(p) \/ Unlock(p) \/ ScopeEnds(p)
    \/ \E p, q \in Pointers : MoveConstruct(p, q) \/ MoveAssign(p, q)

LockSpec == LockInit /\ [][LockNext]_lockVars

-----------------------------------------------------------------------------
\* LockInv: a mutex is locked for exactly those pointers that own it, and a
\* pointer owns the mutex of the very object it points to: no lock is leaked
\* or unlocked twice by moving, assigning and ending pointers in any order.
LockInv ==
    /\ \A o \in Objects : keepers[o] = {p \in owns : device[p] = o}
    /\ \A p \in owns : p \in alive /\ ptr[p] = device[p] /\ ptr[p] # None
    /\ \A p \in Pointers : ptr[p] # None => p \in owns \cup bare

\* NobodyLockedOut: threads never all wait for each other: while any waits for
\* a lock, one of them waits for nobody or for threads only that run.  A lock
\* that a move leaked would have its thread, which no longer knows of it, wait
\* for itself.
Waiting(p) == waits[p] # None

Hinders(q, p) == q \in keepers[waits[p]] /\ ~(Reads(p) /\ Reads(q))

NobodyLockedOut ==
    (\E p \in Pointers : Waiting(p)) =>
        \E p \in Pointers :
            /\ Waiting(p)
            /\ \A q, r \in Pointers : Hinders(q, p) /\ Home[r] = Home[q] => ~Waiting(r)

-----------------------------------------------------------------------------
(* The abstract lock: what threads have is what their pointers keep.       *)

Homes(P) == {Home[p] : p \in P}
LockReaders == [o \in Objects |-> Homes({p \in keepers[o] : Reads(p)})]
LockWriters == [o \in Objects |-> Homes({p \in keepers[o] : ~Reads(p)})]
LockInside == [o \in Objects |-> Homes({p \in inUse : ptr[p] = o})]

RW == INSTANCE ReadersWriters WITH
          Threads <- Homes(Pointers), readers <- LockReaders, writers <- LockWriters,
          inside <- LockInside

\* ImplementsReadersWriters: whatever a thread does with its pointers, it gets
\* an object, reaches it and gives it up as if it had locked and unlocked it
\* by hand: a move changes nothing that another thread could tell, and an
\* assignment gives up what the pointer had and nothing else.
ImplementsReadersWriters == RW!RWSpec
=============================================================================
