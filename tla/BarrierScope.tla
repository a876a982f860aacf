---------------------------- MODULE BarrierScope ----------------------------
(***************************************************************************)
(* hitycho::sync::barrier_scope (src/sync.hpp): an object that arrives at  *)
(* an hpx::barrier when its scope ends, unless wait() or drop() has done   *)
(* so before or the task has moved it away.                                *)
(*                                                                         *)
(* hpx::barrier is modelled by its contract: pending counts the arrivals   *)
(* that the phase still needs, expected those of the phases to come.       *)
(***************************************************************************)
EXTENDS Naturals, FiniteSets

CONSTANTS
    Parties,    \* threads that meet at the barrier
    Slots,      \* barrier_scope variables
    Party       \* Slots -> the thread whose variable it is

ASSUME BarrierAssumption ==
    /\ IsFiniteSet(Parties)
    /\ Party \in [Slots -> Parties]

VARIABLES
    expected,   \* of the barrier: arrivals that complete a later phase
    pending,    \* of the barrier: arrivals that the phase lacks
    blocked,    \* parties inside arrive_and_wait()
    scope,      \* slot -> its flags, or "none" outside a lifetime
    retired,    \* history: parties that have dropped out
    came        \* history: parties that have arrived in this phase

barrierVars == <<expected, pending, blocked, scope, retired, came>>

\* {null, dropped, waited} says which of barrier_ = null, dropped_ and
\* waited_ hold.
Flags == SUBSET {"null", "dropped", "waited"}
Gone == {"none"}
MovedFrom == {"null", "dropped", "waited"}

BarrierTypeOK ==
    /\ expected \in 0..Cardinality(Parties)
    /\ pending \in 0..Cardinality(Parties)
    /\ blocked \subseteq Parties
    /\ scope \in [Slots -> Flags \cup {Gone}]
    /\ retired \subseteq Parties
    /\ came \subseteq Parties

BarrierInit ==
    /\ expected = Cardinality(Parties)
    /\ pending = Cardinality(Parties)
    /\ blocked = {}
    /\ scope = [s \in Slots |-> Gone]
    /\ retired = {}
    /\ came = {}

Live(s) == scope[s] # Gone
Armed(s) == Live(s) /\ "dropped" \notin scope[s] /\ "waited" \notin scope[s]
Free(s) == Party[s] \notin blocked

\* What t's arrival does to the barrier, when it is the last of the phase and
\* when it is not.
Arrives(t, later, sleepers) ==
    /\ expected' = later
    /\ pending' = IF pending = 1 THEN later ELSE pending - 1
    /\ blocked' = IF pending = 1 THEN {} ELSE sleepers
    /\ came' = IF pending = 1 THEN {} ELSE came \cup {t}

ArriveAndWait(t) == Arrives(t, expected, blocked \cup {t}) /\ UNCHANGED retired

ArriveAndDrop(t) ==
    /\ Arrives(t, expected - 1, blocked)
    /\ retired' = retired \cup {t}

Barrier == <<expected, pending, blocked, retired, came>>

-----------------------------------------------------------------------------
(* DropOnlyLeaves and ScopeOverWaits take no part in BarrierSpec: each is  *)
(* the definition after it with a slip that breaks a property.             *)

\* A party makes one scope for each phase, while it takes part.
EnterScope(s) ==
    /\ Free(s)
    /\ ~Live(s)
    /\ Party[s] \notin retired
    /\ \A r \in Slots : Party[r] = Party[s] => ~Armed(r)
    /\ scope' = [scope EXCEPT ![s] = {}]
    /\ UNCHANGED Barrier

WaitAtBarrier(s) ==
    /\ Free(s)
    /\ Armed(s)
    /\ ArriveAndWait(Party[s])
    /\ scope' = [scope EXCEPT ![s] = @ \cup {"waited"}]

DropOnlyLeaves(s) ==
    /\ Free(s)
    /\ Armed(s)
    /\ expected' = expected - 1
    /\ retired' = retired \cup {Party[s]}
    /\ scope' = [scope EXCEPT ![s] = @ \cup {"dropped"}]
    /\ UNCHANGED <<pending, blocked, came>>

DropOut(s) ==
    /\ Free(s)
    /\ Armed(s)
    /\ ArriveAndDrop(Party[s])
    /\ scope' = [scope EXCEPT ![s] = @ \cup {"dropped"}]

ScopeOverWaits(s) ==
    /\ Free(s)
    /\ Live(s)
    /\ "dropped" \notin scope[s]
    /\ ArriveAndWait(Party[s])
    /\ scope' = [scope EXCEPT ![s] = Gone]

\* ~barrier_scope().  wait() and drop() on a scope that is spent do nothing.
ScopeOver(s) ==
    /\ Free(s)
    /\ Live(s)
    /\ IF Armed(s) THEN ArriveAndWait(Party[s]) ELSE UNCHANGED Barrier
    /\ scope' = [scope EXCEPT ![s] = Gone]

SameParty(s, r) == s # r /\ Party[s] = Party[r] /\ Free(s) /\ Live(r)

ScopeMoved(s, r) ==
    /\ SameParty(s, r)
    /\ ~Live(s)
    /\ scope' = [scope EXCEPT ![s] = scope[r], ![r] = MovedFrom]
    /\ UNCHANGED Barrier

\* s = std::move(r): drop() of an s that is armed leaves the barrier for good.
ScopeAssigned(s, r) ==
    /\ SameParty(s, r)
    /\ Live(s)
    /\ IF Armed(s) THEN ArriveAndDrop(Party[s]) ELSE UNCHANGED Barrier
    /\ scope' = [scope EXCEPT ![s] = scope[r], ![r] = MovedFrom]

-----------------------------------------------------------------------------
Ends(t) ==
    \E s \in Slots :
        Party[s] = t /\ Armed(s) /\ (ScopeOver(s) \/ WaitAtBarrier(s) \/ DropOut(s))

Clears(t) == \E s \in Slots : Party[s] = t /\ ~Armed(s) /\ ScopeOver(s)

Enters(t) == \E s \in Slots : Party[s] = t /\ EnterScope(s)

BarrierNext ==
    \/ \E t \in Parties : Enters(t)
    \/ \E s \in Slots : WaitAtBarrier(s) \/ DropOut(s) \/ ScopeOver(s)
    \/ \E s, r \in Slots : ScopeMoved(s, r) \/ ScopeAssigned(s, r)

BarrierSpec == BarrierInit /\ [][BarrierNext]_barrierVars

(***************************************************************************)
(* A thread goes on: its scopes end, and while it takes part it enters the *)
(* next phase, though it may move spent scopes about in between.           *)
(***************************************************************************)
BarrierFairness ==
    \A t \in Parties :
        /\ WF_barrierVars(Ends(t))
        /\ WF_barrierVars(Clears(t))
        /\ SF_barrierVars(Enters(t))

BarrierFairSpec == BarrierSpec /\ BarrierFairness

-----------------------------------------------------------------------------
\* BarrierInv: the barrier waits for exactly those parties that take part and
\* have not arrived yet: no scope arrives twice or not at all, whichever way it
\* is moved, waited on, dropped and ended; and only a scope that has a barrier
\* will arrive.
BarrierInv ==
    /\ BarrierTypeOK
    /\ expected = Cardinality(Parties \ retired)
    /\ pending = Cardinality(Parties \ (retired \cup came))
    /\ blocked \subseteq came
    /\ \A s \in Slots : Armed(s) =>
         /\ "null" \notin scope[s]
         /\ Party[s] \notin blocked \cup retired

\* PhaseServed: nobody waits at the barrier for ever, even when the last of the
\* others drops out instead of arriving.
PhaseServed == \A t \in Parties : t \in blocked ~> t \notin blocked
=============================================================================
