------------------------------ MODULE Pipeline ------------------------------
(***************************************************************************)
(* hitycho::system::pipeline<T, S> and its drop_pipeline and               *)
(* throw_pipeline subclasses (src/pipeline.hpp): a ring of S slots behind  *)
(* one mutex, two condition variables and an atomic closed flag.           *)
(*                                                                         *)
(* Every access to the ring is made under lock_, so a critical section is  *)
(* one action, except where another thread can get in between: closed_ is  *)
(* written WITHOUT the lock, and a thread that found its wait predicate    *)
(* false is not yet on the condition variable's queue.  Those points end   *)
(* an action with the lock still held (the control points in Holding).     *)
(***************************************************************************)
EXTENDS Integers

CONSTANTS
    Producers,  \* threads that push
    Consumers,  \* threads that pull
    Managers,   \* threads that drop and clear
    Closers,    \* threads that close
    S,          \* the template parameter: slots of the ring
    Items,      \* the objects pushed
    NoItem,     \* T{}: what an emptied slot holds
    NoThread,   \* the mutex has no owner
    Kinds       \* the classes an instance of which is modelled

Threads == Producers \cup Consumers \cup Managers \cup Closers

ASSUME PipelineAssumption ==
    /\ S \in Nat \ {0}
    /\ NoItem \notin Items
    /\ NoThread \notin Threads
    /\ Producers \cap Consumers = {}
    /\ Kinds \subseteq {"pipeline", "drop_pipeline", "throw_pipeline"}

VARIABLES
    kind,    \* the object's class: which full() is called
    data,    \* data_: the ring
    head,    \* head_: next slot to pull
    tail,    \* tail_: next slot to fill
    count,   \* count_: filled slots
    closed,  \* closed_
    lock,    \* owner of lock_
    input,   \* threads asleep on input_ (pushers waiting for room)
    output,  \* threads asleep on output_ (pullers waiting for an item)
    pc,      \* thread -> where it is in its call
    val      \* thread -> the caller's variable: what it pushes or pulled

ring == <<data, head, tail, count>>
vars == <<kind, ring, closed, lock, input, output, pc, val>>

\* Control points reached with lock_ held, and those inside close().
Holding == {"put", "full", "evict", "take", "empty"}
Closing == {"close_output", "close_input", "close_clear"}

TypeOK ==
    /\ kind \in Kinds
    /\ data \in [0..(S - 1) -> Items \cup {NoItem}]
    /\ head \in 0..(S - 1)
    /\ tail \in 0..(S - 1)
    /\ count \in 0..S
    /\ closed \in BOOLEAN
    /\ lock \in Threads \cup {NoThread}
    /\ input \subseteq Threads
    /\ output \subseteq Threads
    /\ pc \in [Threads -> {"idle", "push", "pull"} \cup Holding \cup Closing]
    /\ val \in [Threads -> Items \cup {NoItem}]

Init ==
    /\ kind \in Kinds
    /\ data = [i \in 0..(S - 1) |-> NoItem]
    /\ head = 0
    /\ tail = 0
    /\ count = 0
    /\ closed = FALSE
    /\ lock = NoThread
    /\ input = {}
    /\ output = {}
    /\ pc = [t \in Threads |-> "idle"]
    /\ val = [t \in Threads |-> NoItem]

-----------------------------------------------------------------------------
(* Helpers of the class.                                                   *)
(*                                                                         *)
(* Here and below, a definition whose name says what is wrong with it      *)
(* (PopHeadUncleared, PushStoreLateNotify, ...) takes no part in Spec: it  *)
(* is the definition after it with a plausible slip.  Put in its place it  *)
(* breaks a property, which shows that the property would notice.          *)

NextSlot(i) == (i + 1) % S

\* Where the i-th oldest item is, counting from 0.
Slot(i) == (head + i) % S

NotifyNobody(cv) == {cv}

\* notify_one(): whoever it picks leaves the queue; with nobody there the
\* call has no effect and is not remembered.
NotifyOne(cv) == IF cv = {} THEN {{}} ELSE {cv \ {t} : t \in cv}

Goto(t, label) == pc' = [pc EXCEPT ![t] = label]

\* Lock, and read what decides where to go next.
Enter(t, label) ==
    /\ lock' = t
    /\ Goto(t, label)
    /\ UNCHANGED <<kind, ring, closed, input, output, val>>

PopHeadUncleared ==
    /\ head' = NextSlot(head)
    /\ count' = count - 1
    /\ UNCHANGED <<data, tail>>

\* Taking the oldest item out of the ring: clear_item() and the new indices.
PopHead ==
    /\ data' = [data EXCEPT ![head] = NoItem]
    /\ head' = NextSlot(head)
    /\ count' = count - 1
    /\ UNCHANGED tail

\* drop_head(notify), with lock_ held.
DropHead(notify) ==
    /\ PopHead
    /\ IF notify THEN input' \in NotifyOne(input) ELSE UNCHANGED input

-----------------------------------------------------------------------------
(* push(): a thread asleep on input_ comes back to "push" and, once woken, *)
(* takes the lock and looks again, as a new caller does.                   *)

PushCall(t, v) ==
    /\ pc[t] = "idle"
    /\ Goto(t, "push")
    /\ val' = [val EXCEPT ![t] = v]
    /\ UNCHANGED <<kind, ring, closed, lock, input, output>>

PushLocksAnyway(t) == pc[t] = "push" /\ t \notin input

\* The thread is awake and the lock is free: it locks and reads closed_.
PushLocks(t) == pc[t] = "push" /\ t \notin input /\ lock = NoThread

\* A closed pipeline returns false; full() of throw_pipeline throws out of
\* push(), which unlocks.
PushRefused(t) ==
    /\ PushLocks(t)
    /\ closed \/ (count = S /\ kind = "throw_pipeline")
    /\ Goto(t, "idle")
    /\ val' = [val EXCEPT ![t] = NoItem]
    /\ UNCHANGED <<kind, ring, closed, lock, input, output>>

PushRoom(t) == PushLocks(t) /\ ~closed /\ count < S /\ Enter(t, "put")

\* full() of the base class has evaluated its predicate; that of
\* drop_pipeline is about to drop.
PushFull(t) ==
    /\ PushLocks(t)
    /\ ~closed
    /\ count = S
    /\ \/ kind = "pipeline" /\ Enter(t, "full")
       \/ kind = "drop_pipeline" /\ Enter(t, "evict")

\* input_.wait() gives the lock up and queues the thread, whatever happened
\* to closed_ since the predicate was evaluated.
PushSleep(t) ==
    /\ pc[t] = "full"
    /\ input' = input \cup {t}
    /\ lock' = NoThread
    /\ Goto(t, "push")
    /\ UNCHANGED <<kind, ring, closed, output, val>>

\* full() of drop_pipeline drops the oldest item; push() reads closed_ again
\* and may then give up, with the item already gone.
PushEvict(t) ==
    /\ pc[t] = "evict"
    /\ DropHead(FALSE)
    /\ \/ /\ closed
          /\ lock' = NoThread
          /\ Goto(t, "idle")
          /\ val' = [val EXCEPT ![t] = NoItem]
       \/ /\ ~closed
          /\ Goto(t, "put")
          /\ UNCHANGED <<lock, val>>
    /\ UNCHANGED <<kind, closed, output>>

Store(t, wakes) ==
    /\ pc[t] = "put"
    /\ data' = [data EXCEPT ![tail] = val[t]]
    /\ tail' = NextSlot(tail)
    /\ count' = count + 1
    /\ IF wakes THEN output' \in NotifyOne(output) ELSE UNCHANGED output
    /\ lock' = NoThread
    /\ Goto(t, "idle")
    /\ val' = [val EXCEPT ![t] = NoItem]
    /\ UNCHANGED <<kind, head, closed, input>>

PushStoreLateNotify(t) == Store(t, count = 1)

\* notify_one() only "when no longer empty".
PushStore(t) == Store(t, count = 0)

-----------------------------------------------------------------------------
(* pull()                                                                  *)

PullCall(t) ==
    /\ pc[t] = "idle"
    /\ Goto(t, "pull")
    /\ UNCHANGED <<kind, ring, closed, lock, input, output, val>>

PullLocks(t) == pc[t] = "pull" /\ t \notin output /\ lock = NoThread

\* A closed pipeline refuses even when items are left in it.
PullRefused(t) ==
    /\ PullLocks(t)
    /\ closed
    /\ Goto(t, "idle")
    /\ UNCHANGED <<kind, ring, closed, lock, input, output, val>>

PullItem(t) == PullLocks(t) /\ ~closed /\ count > 0 /\ Enter(t, "take")

\* wait() has evaluated its predicate.
PullEmpty(t) == PullLocks(t) /\ ~closed /\ count = 0 /\ Enter(t, "empty")

PullSleep(t) ==
    /\ pc[t] = "empty"
    /\ output' = output \cup {t}
    /\ lock' = NoThread
    /\ Goto(t, "pull")
    /\ UNCHANGED <<kind, ring, closed, input, val>>

Take(t, slot, wakes) ==
    /\ pc[t] = "take"
    /\ val' = [val EXCEPT ![t] = data[slot]]
    /\ PopHead
    /\ IF wakes THEN input' \in NotifyOne(input) ELSE UNCHANGED input
    /\ lock' = NoThread
    /\ Goto(t, "idle")
    /\ UNCHANGED <<kind, closed, output>>

PullTakeNewest(t) == Take(t, Slot(count - 1), count = S)
PullTakeUnnotified(t) == Take(t, head, FALSE)

\* notify_one() only "when no longer full".
PullTake(t) == Take(t, head, count = S)

-----------------------------------------------------------------------------
(* drop(), drop_if() and clear(): one critical section each.               *)

Unlocked(t) == pc[t] = "idle" /\ lock = NoThread

Drop(t) ==
    /\ Unlocked(t)
    /\ count > 0
    /\ DropHead(count = S)
    /\ UNCHANGED <<kind, closed, lock, output, pc, val>>

DropIf(t) ==
    /\ Unlocked(t)
    /\ count = S
    /\ DropHead(TRUE)
    /\ UNCHANGED <<kind, closed, lock, output, pc, val>>

\* The loop of drop_head(false) calls, one for every filled slot.
ClearRing ==
    /\ data' = [i \in 0..(S - 1) |->
                  IF \E k \in 0..(S - 1) : k < count /\ i = Slot(k)
                    THEN NoItem ELSE data[i]]
    /\ head' = Slot(count)
    /\ count' = 0
    /\ UNCHANGED tail

ClearUnnotified(t) ==
    /\ Unlocked(t)
    /\ ClearRing
    /\ UNCHANGED <<kind, closed, lock, input, output, pc, val>>

Clear(t) ==
    /\ Unlocked(t)
    /\ ClearRing
    /\ IF count > 0 /\ ~closed THEN input' \in NotifyOne(input) ELSE UNCHANGED input
    /\ UNCHANGED <<kind, closed, lock, output, pc, val>>

-----------------------------------------------------------------------------
(* close(): no lock until clear().                                         *)

CloseNotExchanged(t) ==
    /\ pc[t] = "idle"
    /\ closed' = TRUE
    /\ Goto(t, "close_output")
    /\ UNCHANGED <<kind, ring, lock, input, output, val>>

CloseFirst(t) ==
    /\ pc[t] = "idle"
    /\ ~closed
    /\ closed' = TRUE
    /\ Goto(t, "close_output")
    /\ UNCHANGED <<kind, ring, lock, input, output, val>>

CloseNotifyOutput(t) ==
    /\ pc[t] = "close_output"
    /\ output' = {}
    /\ Goto(t, "close_input")
    /\ UNCHANGED <<kind, ring, closed, lock, input, val>>

CloseWithoutClear(t) ==
    /\ pc[t] = "close_input"
    /\ input' = {}
    /\ Goto(t, "idle")
    /\ UNCHANGED <<kind, ring, closed, lock, output, val>>

CloseNotifyInput(t) ==
    /\ pc[t] = "close_input"
    /\ input' = {}
    /\ Goto(t, "close_clear")
    /\ UNCHANGED <<kind, ring, closed, lock, output, val>>

\* clear() with closed_ set: nobody is notified.
CloseClear(t) ==
    /\ pc[t] = "close_clear"
    /\ lock = NoThread
    /\ ClearRing
    /\ Goto(t, "idle")
    /\ UNCHANGED <<kind, closed, lock, input, output, val>>

-----------------------------------------------------------------------------
\* A condition variable may wake a sleeper for no reason.
SpuriousWake(t) ==
    /\ t \in input \cup output
    /\ input' = input \ {t}
    /\ output' = output \ {t}
    /\ UNCHANGED <<kind, ring, closed, lock, pc, val>>

\* The steps a thread inside a call takes by itself.
PushWaits(t) ==
    PushRefused(t) \/ PushRoom(t) \/ PushFull(t) \/ PushSleep(t) \/ PushEvict(t)
PullWaits(t) ==
    PullRefused(t) \/ PullItem(t) \/ PullEmpty(t) \/ PullSleep(t)
Push(t) == PushWaits(t) \/ PushStore(t)
Pull(t) == PullWaits(t) \/ PullTake(t)
Close(t) ==
    CloseNotifyOutput(t) \/ CloseNotifyInput(t) \/ CloseClear(t)

Next ==
    \/ \E t \in Producers : Push(t) \/ \E v \in Items : PushCall(t, v)
    \/ \E t \in Consumers : Pull(t) \/ PullCall(t)
    \/ \E t \in Managers : Drop(t) \/ DropIf(t) \/ Clear(t)
    \/ \E t \in Closers : Close(t) \/ CloseFirst(t)
    \/ \E t \in Threads : SpuriousWake(t)

Spec == Init /\ [][Next]_vars

(***************************************************************************)
(* HPX keeps running every thread that can run, and hpx::mutex queues the  *)
(* threads that wait for it, so a thread that finds the lock free again    *)
(* and again gets it.  Nothing makes a thread start a call or wakes a      *)
(* sleeper that nobody notifies.                                           *)
(***************************************************************************)
Fairness ==
    /\ \A t \in Producers : SF_vars(Push(t))
    /\ \A t \in Consumers : SF_vars(Pull(t))
    /\ \A t \in Closers : SF_vars(Close(t))

FairSpec == Spec /\ Fairness

-----------------------------------------------------------------------------
(* What is true of the ring, the lock and the two wait queues.             *)

\* RingInv: the filled slots are the count_ slots from head_ up to tail_, and
\* every slot an item was removed from has been cleared ("clear objects from
\* the pipeline when they are removed", FEATURES.md:74-75), however pushes,
\* pulls, drops, evictions and clear() follow each other round the ring.
RingInv ==
    /\ tail = Slot(count)
    /\ \A i \in 0..(S - 1) : data[Slot(i)] \in Items <=> i < count

\* SectionInv: what a thread has found out about the ring while it held lock_ is
\* still so when it acts on it, though closed_ and the wait queues may have
\* changed in between: push() stores into a free slot, full() evicts from or
\* sleeps on a full ring, pull() takes from or sleeps on the ring it saw.
InSection(t) ==
    /\ pc[t] \in Holding <=> lock = t
    /\ pc[t] = "put" => count < S
    /\ pc[t] = "full" => count = S /\ kind = "pipeline"
    /\ pc[t] = "evict" => count = S /\ kind = "drop_pipeline"
    /\ pc[t] = "take" => count > 0
    /\ pc[t] = "empty" => count = 0

SectionInv == \A t \in Threads : InSection(t)

\* Who may be where: only a pusher of the base class sleeps on input_, only a
\* puller on output_, and a pusher inside its call has an item to push.
CallInv ==
    /\ \A t \in input : t \in Producers /\ pc[t] = "push" /\ kind = "pipeline"
    /\ \A t \in output : t \in Consumers /\ pc[t] = "pull"
    /\ \A t \in Threads :
        /\ pc[t] \in {"push", "put", "full", "evict"} =>
               t \in Producers /\ val[t] \in Items
        /\ pc[t] \in {"pull", "take", "empty"} => t \in Consumers

Phase ==
    IF ~closed THEN "open"
    ELSE IF \E t \in Threads : pc[t] \in Closing THEN "closing" ELSE "closed"

\* CloseInv: one thread at most is carrying a close out, and once it has done
\* so the pipeline is empty and no push that was under way when closed_ was
\* set can still store, although closed_ is set without the lock.
CloseInv ==
    /\ \A t \in Threads : pc[t] \in Closing => closed
    /\ \A t, u \in Threads : pc[t] \in Closing /\ pc[u] \in Closing => t = u
    /\ Phase = "closed" =>
        /\ count = 0
        /\ \A t \in Threads : pc[t] \notin {"put", "full", "evict", "take"}

\* SomeoneAwake: notify_one() is called only when the ring stops being empty
\* or full, which leaves sleepers behind (see NoStrandedConsumer) but never
\* puts everybody to sleep: while an open pipeline holds an item some consumer
\* is not waiting for one, and while it has room some producer is not waiting
\* for it.
SomeoneAwake ==
    ~closed =>
        /\ Consumers # {} /\ count > 0 => ~(Consumers \subseteq output)
        /\ Producers # {} /\ count < S => ~(Producers \subseteq input)

IInv ==
    TypeOK /\ RingInv /\ SectionInv /\ CallInv /\ CloseInv /\ SomeoneAwake

-----------------------------------------------------------------------------
(* The pipeline as a channel.                                              *)

Contents == [i \in 1..count |-> data[Slot(i - 1)]]

Chan == INSTANCE Channel WITH
            queue <- Contents, phase <- Phase,
            got <- [c \in Consumers |-> val[c]],
            Capacity <- S, Receivers <- Consumers

\* ImplementsChannel: seen from outside, the three classes are a bounded FIFO
\* queue: every item pushed is pulled once, dropped from the old end, or
\* flushed, in the order the pushes stored them, whatever the interleaving.
ImplementsChannel == Chan!ChanSpec

-----------------------------------------------------------------------------
(* Waiting.                                                                *)

\* NoStrandedConsumer: nobody sleeps on output_ beside an item that no awake
\* consumer has been told of ("much like go channels might work",
\* FEATURES.md:73-74: a channel holding an item has no receiver blocked on it).
NoStrandedConsumer ==
    output # {} /\ count > 0 /\ ~closed =>
        \E c \in Consumers \ output : pc[c] \in {"pull", "take", "empty"}

\* NoStrandedProducer: the same of a pusher asleep on input_ beside a free slot.
NoStrandedProducer ==
    input # {} /\ count < S /\ ~closed =>
        \E p \in Producers \ input : pc[p] \in {"push", "put", "full"}

\* AllReleasedByClose: close() notifies everybody on both condition variables
\* so that nobody is left asleep in a pipeline that will never hold an item or
\* have a pusher again.
AllReleasedByClose == Phase = "closed" => input = {} /\ output = {}

\* CallsServed: a pull() that waits while an open pipeline holds an item does
\* not wait for ever, nor does a push() while there is room.
CallsServed ==
    /\ \A c \in Consumers :
         (pc[c] = "pull" /\ count > 0) ~> (pc[c] = "idle" \/ count = 0 \/ closed)
    /\ \A p \in Producers :
         (pc[p] = "push" /\ count < S) ~> (pc[p] = "idle" \/ count = S \/ closed)

\* CloseDrains: close() always gets to the end, and leaves the pipeline empty
\* for good.
CloseDrains == closed ~> [](Phase = "closed" /\ count = 0)
=============================================================================
