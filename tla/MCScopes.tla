------------------------------ MODULE MCScopes ------------------------------
(***************************************************************************)
(* Checking the classes that hold something for the length of a scope with *)
(* TLC, in one run: WaitGroup, BarrierScope, Semaphores, Locking and       *)
(* Handles.  No module knows of another, so a behaviour is one of the      *)
(* subject's and the others stay as they were, and their states add up.    *)
(***************************************************************************)
EXTENDS WaitGroup, BarrierScope, Semaphores, Locking, Handles

CONSTANTS w1, w2, s1, s2, p1, p2, p3, u1, u2, a1, a2, ar, bg, br, bw, h1, h2, l1, l2

TwoWaiters == {w1, w2}
TwoScopes == {s1, s2}

ThreeParties == {p1, p2, p3}
FourSlots == {<<p1, 1>>, <<p1, 2>>, <<p2, 1>>, <<p3, 1>>}
TwoUsers == {u1, u2}
FourVars == {<<u1, 1>>, <<u1, 2>>, <<u2, 1>>, <<u2, 2>>}
SlotThread == [s \in FourSlots |-> s[1]]
VarThread == [v \in FourVars |-> v[1]]

\* Thread a has two exclusive_ptrs and a reader, thread b one of each other.
SixPointers == {a1, a2, ar, bg, br, bw}
KindOf ==
    [p \in SixPointers |->
        CASE p \in {a1, a2} -> "exclusive_ptr"
          [] p \in {ar, br} -> "reader_ptr"
          [] p = bg -> "exclusive_guard"
          [] p = bw -> "writer_ptr"]
HomeOf == [p \in SixPointers |-> IF p \in {a1, a2, ar} THEN "a" ELSE "b"]

TwoLists == {l1, l2}

VARIABLE subject

ScopeVars == <<groupVars, barrierVars, semaphoreVars, lockVars, handleVars>>

\* A barrier that is not the subject is one that all have left.
BarrierOver ==
    /\ expected = 0
    /\ pending = 0
    /\ blocked = {}
    /\ scope = [s \in Slots |-> Gone]
    /\ retired = Parties
    /\ came = {}

ScopesInit ==
    /\ subject \in {"group", "barrier", "semaphore", "event", "lock", "handle"}
    /\ WGInit
    /\ subject # "group" => count = 0
    /\ IF subject = "barrier" THEN BarrierInit ELSE BarrierOver
    /\ SemaphoresInit
    /\ LockInit
    /\ HandlesInit

MCNext ==
    /\ UNCHANGED subject
    /\ \/ subject = "group" /\ WGNext
          /\ UNCHANGED <<barrierVars, semaphoreVars, lockVars, handleVars>>
       \/ subject = "barrier" /\ BarrierNext
          /\ UNCHANGED <<groupVars, semaphoreVars, lockVars, handleVars>>
       \/ subject = "semaphore" /\ ScopesNext
          /\ UNCHANGED <<groupVars, barrierVars, lockVars, handleVars>>
       \/ subject = "event" /\ EventNext
          /\ UNCHANGED <<groupVars, barrierVars, lockVars, handleVars>>
       \/ subject = "lock" /\ LockNext
          /\ UNCHANGED <<groupVars, barrierVars, semaphoreVars, handleVars>>
       \/ subject = "handle" /\ HandlesNext
          /\ UNCHANGED <<groupVars, barrierVars, semaphoreVars, lockVars>>

MCSpec ==
    /\ ScopesInit
    /\ [][MCNext]_<<subject, ScopeVars>>
    /\ WGFairness
    /\ BarrierFairness
    /\ SemaphoresFairness
=============================================================================
