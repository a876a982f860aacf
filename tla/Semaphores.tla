----------------------------- MODULE Semaphores -----------------------------
(***************************************************************************)
(* hitycho::sync::semaphore_scope and event (src/sync.hpp).  A scope keeps *)
(* a permit of a counting semaphore while it lives, wherever it is moved;  *)
(* an event is a handle, copied at will, on one binary semaphore that      *)
(* starts at 0: signal() releases it and each wait takes one signal.       *)
(*                                                                         *)
(* hpx's semaphores are modelled by their contract: acquire waits for a    *)
(* positive count and takes one from it, release adds one.  That of a      *)
(* binary semaphore ends at 1, and signal() does not look: what becomes of *)
(* a signal that comes on top of another is left open, counted or dropped. *)
(***************************************************************************)
EXTENDS Naturals, FiniteSets

CONSTANTS
    Permits,    \* Value of the semaphore
    Users,      \* threads
    Vars,       \* semaphore_scope variables
    User,       \* Vars -> the thread whose variable it is
    MaxSignals  \* bound: signals that are sent

ASSUME SemaphoresAssumption ==
    /\ Permits \in Nat \ {0}
    /\ MaxSignals \in Nat
    /\ IsFiniteSet(Vars)
    /\ User \in [Vars -> Users]

VARIABLES
    free,       \* count of the semaphore
    permit,     \* variable -> "none", "wants", "has", "moved" from
    bin,        \* count of the event's semaphore
    listener,   \* thread -> "away", "wait", "wait_for", "woken", "timeout"
    sent,       \* history: calls of signal()
    heard       \* history: waits that were answered with a signal

scopeVars == <<free, permit>>
eventVars == <<bin, listener, sent, heard>>
semaphoreVars == <<free, permit, bin, listener, sent, heard>>

SemaphoresTypeOK ==
    /\ free \in 0..Permits
    /\ permit \in [Vars -> {"none", "wants", "has", "moved"}]
    /\ bin \in 0..MaxSignals
    /\ listener \in [Users -> {"away", "wait", "wait_for", "woken", "timeout"}]
    /\ sent \in 0..MaxSignals
    /\ heard \in 0..MaxSignals

SemaphoresInit ==
    /\ free = Permits
    /\ permit = [v \in Vars |-> "none"]
    /\ bin = 0
    /\ listener = [t \in Users |-> "away"]
    /\ sent = 0
    /\ heard = 0

\* The thread of v is not inside acquire().
Runs(v) == \A w \in Vars : User[w] = User[v] => permit[w] # "wants"

Holds(v) == permit[v] = "has"

-----------------------------------------------------------------------------
(* semaphore_scope.  PermitCopied and PermitLost take no part in           *)
(* SemaphoresSpec: each is the definition after it with a slip.            *)

\* semaphore_scope(sem)
Acquire(v) ==
    /\ Runs(v)
    /\ permit[v] = "none"
    /\ permit' = [permit EXCEPT ![v] = "wants"]
    /\ UNCHANGED <<free, eventVars>>

Acquired(v) ==
    /\ permit[v] = "wants"
    /\ free > 0
    /\ free' = free - 1
    /\ permit' = [permit EXCEPT ![v] = "has"]
    /\ UNCHANGED eventVars

\* release(), which does nothing when sem_ is null.
Released(v) == IF Holds(v) THEN free + 1 ELSE free

SemScopeEnds(v) ==
    /\ Runs(v)
    /\ permit[v] \in {"has", "moved"}
    /\ free' = Released(v)
    /\ permit' = [permit EXCEPT ![v] = "none"]
    /\ UNCHANGED eventVars

Between(v, w) == v # w /\ User[v] = User[w] /\ Runs(v) /\ permit[w] \in {"has", "moved"}

PermitCopied(v, w) ==
    /\ Between(v, w)
    /\ permit[v] = "none"
    /\ permit' = [permit EXCEPT ![v] = permit[w]]
    /\ UNCHANGED <<free, eventVars>>

SemScopeMoved(v, w) ==
    /\ Between(v, w)
    /\ permit[v] = "none"
    /\ permit' = [permit EXCEPT ![v] = permit[w], ![w] = "moved"]
    /\ UNCHANGED <<free, eventVars>>

PermitLost(v, w) ==
    /\ Between(v, w)
    /\ permit[v] \in {"has", "moved"}
    /\ permit' = [permit EXCEPT ![v] = permit[w], ![w] = "moved"]
    /\ UNCHANGED <<free, eventVars>>

\* v = std::move(w): what v has is released, then w's permit is taken over.
SemScopeAssigned(v, w) ==
    /\ Between(v, w)
    /\ permit[v] \in {"has", "moved"}
    /\ free' = Released(v)
    /\ permit' = [permit EXCEPT ![v] = permit[w], ![w] = "moved"]
    /\ UNCHANGED eventVars

-----------------------------------------------------------------------------
(* event                                                                   *)

Signal ==
    /\ sent < MaxSignals
    /\ sent' = sent + 1
    /\ bin' = bin + 1 \/ (bin > 0 /\ bin' = bin)
    /\ UNCHANGED <<listener, heard, scopeVars>>

\* wait() and wait_for() or wait_until().
Listen(t, call) ==
    /\ listener[t] \in {"away", "woken", "timeout"}
    /\ listener' = [listener EXCEPT ![t] = call]
    /\ UNCHANGED <<bin, sent, heard, scopeVars>>

Heard(t) ==
    /\ bin > 0
    /\ bin' = bin - 1
    /\ heard' = heard + 1
    /\ listener' = [listener EXCEPT ![t] = "woken"]
    /\ UNCHANGED <<sent, scopeVars>>

\* The signal is there, in time or not: the timeout gives way to it.
Hear(t) == listener[t] \in {"wait", "wait_for"} /\ Heard(t)

TimeOut(t) ==
    /\ listener[t] = "wait_for"
    /\ bin = 0
    /\ listener' = [listener EXCEPT ![t] = "timeout"]
    /\ UNCHANGED <<bin, sent, heard, scopeVars>>

\* try_wait(), which answers false and changes nothing at 0.
TryWait(t) == listener[t] \in {"away", "woken", "timeout"} /\ Heard(t)

-----------------------------------------------------------------------------
ScopesNext ==
    \/ \E v \in Vars : Acquire(v) \/ Acquired(v) \/ SemScopeEnds(v)
    \/ \E v, w \in Vars : SemScopeMoved(v, w) \/ SemScopeAssigned(v, w)

EventNext ==
    \/ Signal
    \/ \E t \in Users : Hear(t) \/ TimeOut(t) \/ TryWait(t)
    \/ \E t \in Users, call \in {"wait", "wait_for"} : Listen(t, call)

SemaphoresNext == ScopesNext \/ EventNext

SemaphoresSpec == SemaphoresInit /\ [][SemaphoresNext]_semaphoreVars

GivesBack(t) == \E v \in Vars : User[v] = t /\ Holds(v) /\ SemScopeEnds(v)

(***************************************************************************)
(* A thread that is not waiting gives its permits back in the end, moved   *)
(* about as they may be, and a semaphore that is free again and again      *)
(* serves everyone who waits.                                              *)
(***************************************************************************)
SemaphoresFairness ==
    /\ \A t \in Users : WF_semaphoreVars(GivesBack(t))
    /\ \A v \in Vars : SF_semaphoreVars(Acquired(v))

SemaphoresFairSpec == SemaphoresSpec /\ SemaphoresFairness

-----------------------------------------------------------------------------
\* PermitInv: every permit is free or with exactly one scope, whichever way
\* scopes are moved, assigned and ended; no signal is heard by two waits, and
\* of those that come on top of one another at least one stays.
PermitInv ==
    /\ SemaphoresTypeOK
    /\ free + Cardinality({v \in Vars : Holds(v)}) = Permits
    /\ bin + heard \in 0..sent
    /\ sent > 0 => bin + heard > 0

\* Threads that all wait do not hold every permit between them: one that waits
\* holds at most as many as it has other scopes.
EnoughPermits == Permits + Cardinality({User[v] : v \in Vars}) > Cardinality(Vars)

\* PermitServed: whoever wants a permit gets one, though others who wait hold
\* permits themselves, where there are enough for one of them to go on.
PermitServed == EnoughPermits => \A v \in Vars : permit[v] = "wants" ~> Holds(v)
=============================================================================
