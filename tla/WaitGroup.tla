----------------------------- MODULE WaitGroup ------------------------------
(***************************************************************************)
(* hitycho::sync::wait_group and group_scope (src/sync.hpp): a counter of  *)
(* tasks that are still to finish, and scopes that count one task down     *)
(* when they end, wherever their pointer has been moved to.                *)
(*                                                                         *)
(* The counter is read and written, sleepers are queued and notify_all()   *)
(* is called under lock_ and nowhere else, so each critical section is one *)
(* action and the mutex itself does not appear.                            *)
(*                                                                         *)
(* The callers keep to what a counter can promise anything about: a scope  *)
(* stands for a unit that was added for it, nobody takes back another's    *)
(* unit, the units never exceed the width of unsigned, and the group is    *)
(* destroyed by one thread while no other is inside wait().                *)
(***************************************************************************)
EXTENDS Naturals, FiniteSets

CONSTANTS
    Waiters,    \* threads that wait
    Owner,      \* the one of them that destroys the group
    Scopes,     \* group_scope objects
    MaxCount    \* the largest unsigned

ASSUME WaitGroupAssumption ==
    /\ Owner \in Waiters
    /\ IsFiniteSet(Scopes)
    /\ MaxCount \in Nat \ {0}

VARIABLES
    count,      \* count_
    cond,       \* threads asleep on cond_
    pc,         \* waiter -> the call it is in
    answer,     \* waiter -> what its last wait returned
    active,     \* scopes whose wg_ is not null
    spare       \* history: units added that no scope stands for

groupVars == <<count, cond, pc, answer, active, spare>>

Waits == {"wait", "wait_for", "destroy"}

WGTypeOK ==
    /\ count \in 0..MaxCount
    /\ cond \subseteq Waiters
    /\ pc \in [Waiters -> {"idle", "expired", "gone"} \cup Waits]
    /\ answer \in [Waiters -> BOOLEAN]
    /\ active \subseteq Scopes
    /\ spare \in 0..MaxCount

\* The constructor takes the first count.
WGInit ==
    /\ count \in 0..MaxCount
    /\ spare = count
    /\ cond = {}
    /\ pc = [t \in Waiters |-> "idle"]
    /\ answer = [t \in Waiters |-> FALSE]
    /\ active = {}

-----------------------------------------------------------------------------
(* CountDownAtOne, CountDownOne, LeakyScopeMove, DestroyUnwaited,          *)
(* PassUnchecked and AnswerAgain take no part in the specification: each   *)
(* is the definition after it with a slip that breaks a property.          *)

Usable == pc[Owner] # "gone"

\* Once the destructor runs, only a task that still has a unit may add more.
Add(n) ==
    /\ Usable
    /\ pc[Owner] = "destroy" => count > 0
    /\ count + n <= MaxCount
    /\ count' = (count + n) % (MaxCount + 1)
    /\ spare' = spare + n
    /\ UNCHANGED <<cond, pc, answer, active>>

CountDownAtOne ==
    /\ count' = IF count = 0 THEN 0 ELSE count - 1
    /\ cond' = IF count = 0 THEN {} ELSE cond

CountDownOne ==
    /\ count' = IF count = 0 THEN 0 ELSE count - 1
    /\ IF count = 1 /\ cond # {} THEN \E t \in cond : cond' = cond \ {t} ELSE UNCHANGED cond

\* wait_group::release(): nothing to do at 0, and everybody is woken on the
\* way to 0.
CountDown ==
    /\ count' = IF count = 0 THEN 0 ELSE count - 1
    /\ cond' = IF count = 1 THEN {} ELSE cond

\* A task without a scope releases its unit, or one too many at 0.
Release ==
    /\ Usable
    /\ spare > 0 \/ count = 0
    /\ CountDown
    /\ spare' = IF spare = 0 THEN 0 ELSE spare - 1
    /\ UNCHANGED <<pc, answer, active>>

\* group_scope(wg): the constructor adds nothing.
ScopeEnter(s) ==
    /\ Usable
    /\ s \notin active
    /\ spare > 0
    /\ active' = active \cup {s}
    /\ spare' = spare - 1
    /\ UNCHANGED <<count, cond, pc, answer>>

ScopeExit(s) ==
    /\ s \in active
    /\ CountDown
    /\ active' = active \ {s}
    /\ UNCHANGED <<pc, answer, spare>>

LeakyScopeMove(s, r) ==
    /\ s # r
    /\ r \in active
    /\ active' = (active \ {r}) \cup {s}
    /\ UNCHANGED <<count, cond, pc, answer, spare>>

\* s = std::move(r): s releases what it had and takes r's pointer.
ScopeMove(s, r) ==
    /\ s # r
    /\ r \in active
    /\ IF s \in active THEN CountDown ELSE UNCHANGED <<count, cond>>
    /\ active' = (active \ {r}) \cup {s}
    /\ UNCHANGED <<pc, answer, spare>>

-----------------------------------------------------------------------------
(* wait(), wait_for() (and wait_until()) and the destructor.               *)

Return(t, done) ==
    /\ pc' = [pc EXCEPT ![t] = IF pc[t] = "destroy" THEN "gone" ELSE "idle"]
    /\ answer' = [answer EXCEPT ![t] = done]
    /\ UNCHANGED <<count, active, spare>>

WaitCall(t, call) ==
    /\ pc[Owner] \notin {"destroy", "gone"}
    /\ pc[t] = "idle"
    /\ pc' = [pc EXCEPT ![t] = call]
    /\ UNCHANGED <<count, cond, answer, active, spare>>

DestroyUnwaited ==
    /\ \A t \in Waiters : pc[t] = "idle"
    /\ pc' = [pc EXCEPT ![Owner] = "gone"]
    /\ UNCHANGED <<count, cond, answer, active, spare>>

\* ~wait_group() is a wait().
Destroy ==
    /\ \A t \in Waiters : pc[t] = "idle"
    /\ pc' = [pc EXCEPT ![Owner] = "destroy"]
    /\ UNCHANGED <<count, cond, answer, active, spare>>

Awake(t) == pc[t] \in Waits /\ t \notin cond

\* The predicate and the queueing, under lock_.
Sleep(t) ==
    /\ Awake(t)
    /\ count # 0
    /\ cond' = cond \cup {t}
    /\ UNCHANGED <<count, pc, answer, active, spare>>

PassUnchecked(t) == Awake(t) /\ Return(t, TRUE) /\ UNCHANGED cond

\* A thread that was woken tests the count again before it returns.
Pass(t) == Awake(t) /\ count = 0 /\ Return(t, TRUE) /\ UNCHANGED cond

\* The deadline, fixed when the call began, is past: the thread does not sleep
\* again.
Expire(t) ==
    /\ pc[t] = "wait_for"
    /\ cond' = cond \ {t}
    /\ pc' = [pc EXCEPT ![t] = "expired"]
    /\ UNCHANGED <<count, answer, active, spare>>

AnswerAgain(t) ==
    /\ pc[t] = "expired"
    /\ pc' = [pc EXCEPT ![t] = "wait_for"]
    /\ UNCHANGED <<count, cond, answer, active, spare>>

\* A wait that timed out answers from the count and not from the clock.
Answer(t) == pc[t] = "expired" /\ Return(t, count = 0) /\ UNCHANGED cond

SpuriousWake(t) ==
    /\ t \in cond
    /\ cond' = cond \ {t}
    /\ UNCHANGED <<count, pc, answer, active, spare>>

-----------------------------------------------------------------------------
Tasks ==
    \/ \E n \in 1..MaxCount : Add(n)
    \/ Release
    \/ \E s \in Scopes : ScopeEnter(s) \/ ScopeExit(s)
    \/ \E s, r \in Scopes : ScopeMove(s, r)

Wait(t) == Sleep(t) \/ Pass(t) \/ Answer(t)

WGNext ==
    \/ Tasks
    \/ \E t \in Waiters : Wait(t) \/ Expire(t) \/ SpuriousWake(t)
    \/ \E t \in Waiters, call \in {"wait", "wait_for"} : WaitCall(t, call)
    \/ Destroy

WGSpec == WGInit /\ [][WGNext]_groupVars

(***************************************************************************)
(* A waiter that can run is run and gets the mutex in its turn, and time   *)
(* passes.  No task has to end, and no sleeper is woken but by a notice or *)
(* the clock.                                                              *)
(***************************************************************************)
WGFairness == \A t \in Waiters : WF_groupVars(Wait(t)) /\ WF_groupVars(Expire(t))

WGFairSpec == WGSpec /\ WGFairness

-----------------------------------------------------------------------------
\* CountInv: the count is what the tasks still owe, one unit for every scope
\* that has not ended wherever it was moved, and so a scope counts down once
\* and only once through moves, assignments over a live scope and release()
\* calls at 0.
CountInv == count = spare + Cardinality(active)

\* NoSleeperAtZero: nobody is asleep at 0: whoever was on cond_ when the count
\* reached 0 has been woken, and nobody has gone to sleep since.
NoSleeperAtZero == count = 0 => cond = {}

\* DestroyInv: when the destructor has returned every task has ended and
\* nobody is left inside: no scope will release a group that is gone.
DestroyInv ==
    /\ pc[Owner] \in {"destroy", "gone"} => \A t \in Waiters \ {Owner} : pc[t] = "idle"
    /\ pc[Owner] = "gone" => active = {} /\ spare = 0 /\ cond = {}

Inside == Waits \cup {"expired"}

\* WaitMeansDone: a wait() that returns, a wait_for() that answers true and
\* the destructor all do so at a moment when no task is left, although the
\* count may have left 0 again between the wake-up and the lock.
WaitMeansDone ==
    [][\A t \in Waiters :
         pc[t] \in Inside /\ pc'[t] \notin Inside /\ answer'[t] =>
            active = {} /\ spare = 0]_groupVars

\* WaitServed: a waiter gets through, however many others wait, unless tasks
\* are added again first.
WaitServed ==
    \A t \in Waiters :
        (pc[t] \in Waits /\ count = 0) ~> (pc[t] \notin Waits \/ count # 0)

\* WaitForReturns: wait_for() comes back even if no task ever ends.
WaitForReturns ==
    \A t \in Waiters : pc[t] = "wait_for" ~> pc[t] = "idle"
=============================================================================
