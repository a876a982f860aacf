------------------------------ MODULE Channel ------------------------------
(***************************************************************************)
(* What hitycho::system::pipeline promises its callers, without the ring,  *)
(* the mutex or the condition variables: a bounded first-in first-out      *)
(* queue "used to move objects between producer and consumer threads much  *)
(* like go channels might work" (FEATURES.md:73-74).  A closed channel is     *)
(* drained once and stays empty.                                           *)
(***************************************************************************)
EXTENDS Naturals, Sequences

CONSTANTS
    Capacity,   \* slots of the channel
    Items,      \* what may be sent
    Receivers,  \* who may receive
    NoItem      \* what a receiver's variable holds before its first receive

VARIABLES
    queue,      \* items sent and not yet received or discarded, oldest first
    phase,      \* "open", "closing" (closed, not drained yet) or "closed"
    got         \* receiver -> the last item it received

chanVars == <<queue, phase, got>>

ChanInit ==
    /\ queue = <<>>
    /\ phase = "open"
    /\ got = [r \in Receivers |-> NoItem]

\* A send that began before the close may still land while it is under way.
Send(v) ==
    /\ phase # "closed"
    /\ Len(queue) < Capacity
    /\ queue' = Append(queue, v)
    /\ UNCHANGED <<phase, got>>

Receive(r) ==
    /\ queue # <<>>
    /\ got' = [got EXCEPT ![r] = Head(queue)]
    /\ queue' = Tail(queue)
    /\ UNCHANGED phase

\* Dropping loses the oldest item and nothing else.
Discard ==
    /\ queue # <<>>
    /\ queue' = Tail(queue)
    /\ UNCHANGED <<phase, got>>

Flush ==
    /\ queue' = <<>>
    /\ UNCHANGED <<phase, got>>

BeginClose ==
    /\ phase = "open"
    /\ phase' = "closing"
    /\ UNCHANGED <<queue, got>>

EndClose ==
    /\ phase = "closing"
    /\ phase' = "closed"
    /\ queue' = <<>>
    /\ UNCHANGED got

ChanNext ==
    \/ \E v \in Items : Send(v)
    \/ \E r \in Receivers : Receive(r)
    \/ Discard
    \/ Flush
    \/ BeginClose
    \/ EndClose

ChanSpec == ChanInit /\ [][ChanNext]_chanVars
=============================================================================
