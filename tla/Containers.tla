----------------------------- MODULE Containers -----------------------------
(***************************************************************************)
(* hitycho::atomic::stack_t and buffer_t (src/atomic.hpp): an array with   *)
(* one atomic counter, or with two atomic indices.  Each atomic access is  *)
(* a step of its own, and so is each access to a slot.                     *)
(***************************************************************************)
EXTENDS Integers, Sequences, FiniteSets

CONSTANTS
    Callers,    \* threads
    Size,       \* slots
    Width,      \* size_t holds 0..Width-1
    Classes,    \* the classes looked at, of "stack" and "buffer"
    MaxPuts,    \* bound: items, numbered in the order of their puts
    MaxTakes    \* bound: takes that are answered

ASSUME ContainersAssumption ==
    /\ Size \in Nat
    /\ Size > 2
    /\ MaxPuts \in Nat
    /\ MaxTakes \in Nat
    /\ IsFiniteSet(Callers)
    /\ Classes \subseteq {"stack", "buffer"}
    /\ Width \in Nat
    \* Calls under way cannot bring a count round to a size it is not.
    /\ Width > Size + 2 * Cardinality(Callers)

VARIABLES
    class,      \* "stack" or "buffer"
    count_,     \* of a stack
    head_,      \* of a buffer
    tail_,      \* of a buffer
    data_,      \* slot -> item, 0 while nothing is stored there
    at,         \* caller -> the step that it takes next
    read,       \* caller -> the counter or the index it has read
    limit,      \* caller -> the other index it has read
    item,       \* caller -> the item it puts
    puts,       \* history: puts so far
    stores,     \* history: puts that were accepted
    got         \* history: what takes answered; 0 from a slot never written

locals == <<at, read, limit, item>>
containerVars == <<class, count_, head_, tail_, data_, locals, puts, stores, got>>

ContainersInit ==
    /\ class \in Classes
    /\ count_ = 0
    /\ head_ = 0
    /\ tail_ = 0
    /\ data_ = [i \in 0..(Size - 1) |-> 0]
    /\ at = [t \in Callers |-> "out"]
    /\ read = [t \in Callers |-> 0]
    /\ limit = [t \in Callers |-> 0]
    /\ item = [t \in Callers |-> 0]
    /\ puts = 0
    /\ stores = 0
    /\ got = <<>>

Go(t, label) == at' = [at EXCEPT ![t] = label]
Reads(t, v) == read' = [read EXCEPT ![t] = v]

After(i) == IF i + 1 >= Size THEN i + 1 - Size ELSE i + 1

\* A call of t begins.  Every put brings a new item.
PutBegins(t) ==
    /\ at[t] = "out"
    /\ puts < MaxPuts
    /\ puts' = puts + 1
    /\ item' = [item EXCEPT ![t] = puts + 1]

TakeBegins(t) ==
    /\ at[t] = "out"
    /\ Len(got) + Cardinality({u \in Callers : at[u] \in {"load", "tail", "take"}}) < MaxTakes

Stored(t, i) ==
    /\ data_' = [data_ EXCEPT ![i] = item[t]]
    /\ stores' = stores + 1

-----------------------------------------------------------------------------
(* stack_t.  PushUndoForgotten takes no part in ContainersSpec: it is      *)
(* PushUndo with a slip that breaks a property.                            *)

\* The comparison of an int with a size_t makes a negative count a large one.
Refused(count) == count % Width >= Size

PushCount(t) ==
    /\ class = "stack"
    /\ PutBegins(t)
    /\ count_' = count_ + 1
    /\ Reads(t, count_)
    /\ Go(t, IF Refused(count_) THEN "unpush" ELSE "store")
    /\ UNCHANGED <<class, head_, tail_, data_, limit, stores, got>>

PushUndoForgotten(t) ==
    /\ at[t] = "unpush"
    /\ Go(t, "out")
    /\ UNCHANGED <<class, count_, head_, tail_, data_, read, limit, item, puts, stores, got>>

PushUndo(t) ==
    /\ at[t] = "unpush"
    /\ count_' = count_ - 1
    /\ Go(t, "out")
    /\ UNCHANGED <<class, head_, tail_, data_, read, limit, item, puts, stores, got>>

PushSlot(t) ==
    /\ at[t] = "store"
    /\ Stored(t, read[t])
    /\ Go(t, "out")
    /\ UNCHANGED <<class, count_, head_, tail_, read, limit, item, puts, got>>

\* pull() and pop()
PullCount(t) ==
    /\ class = "stack"
    /\ TakeBegins(t)
    /\ count_' = count_ - 1
    /\ Reads(t, count_)
    /\ Go(t, IF count_ < 0 THEN "unpull" ELSE "load")
    /\ UNCHANGED <<class, head_, tail_, data_, limit, item, puts, stores, got>>

PullUndo(t) ==
    /\ at[t] = "unpull"
    /\ count_' = count_ + 1
    /\ Go(t, "out")
    /\ UNCHANGED <<class, head_, tail_, data_, read, limit, item, puts, stores, got>>

\* Slots from Size on are not the array's: what is there is nobody's item.
Slot(i) == IF i < Size THEN data_[i] ELSE 0

PullSlot(t) ==
    /\ at[t] = "load"
    /\ got' = Append(got, Slot(read[t]))
    /\ Go(t, "out")
    /\ UNCHANGED <<class, count_, head_, tail_, data_, read, limit, item, puts, stores>>

-----------------------------------------------------------------------------
(* buffer_t                                                                *)

BufferPush(t) ==
    /\ class = "buffer"
    /\ PutBegins(t)
    /\ Reads(t, tail_)
    /\ Go(t, "head")
    /\ UNCHANGED <<class, count_, head_, tail_, data_, limit, stores, got>>

BufferFull(t) ==
    /\ at[t] = "head"
    /\ Go(t, IF After(read[t]) = head_ THEN "out" ELSE "write")
    /\ UNCHANGED <<class, count_, head_, tail_, data_, read, limit, item, puts, stores, got>>

BufferWrite(t) ==
    /\ at[t] = "write"
    /\ Stored(t, read[t])
    /\ Go(t, "publish")
    /\ UNCHANGED <<class, count_, head_, tail_, read, limit, item, puts, got>>

BufferPublish(t) ==
    /\ at[t] = "publish"
    /\ tail_' = After(read[t])
    /\ Go(t, "out")
    /\ UNCHANGED <<class, count_, head_, data_, read, limit, item, puts, stores, got>>

BufferPull(t) ==
    /\ class = "buffer"
    /\ TakeBegins(t)
    /\ Reads(t, head_)
    /\ Go(t, "tail")
    /\ UNCHANGED <<class, count_, head_, tail_, data_, limit, item, puts, stores, got>>

BufferEmpty(t) ==
    /\ at[t] = "tail"
    /\ limit' = [limit EXCEPT ![t] = tail_]
    /\ Go(t, IF read[t] = tail_ THEN "out" ELSE "take")
    /\ UNCHANGED <<class, count_, head_, tail_, data_, read, item, puts, stores, got>>

\* The item is copied out; head is advanced in a local variable.  (pop()
\* answers with that variable instead of the item.)
BufferTake(t) ==
    /\ at[t] = "take"
    /\ got' = Append(got, data_[read[t]])
    /\ Go(t, "restore")
    /\ UNCHANGED <<class, count_, head_, tail_, data_, read, limit, item, puts, stores>>

\* What is stored is the tail that was read.
BufferRestore(t) ==
    /\ at[t] = "restore"
    /\ tail_' = limit[t]
    /\ Go(t, "out")
    /\ UNCHANGED <<class, count_, head_, data_, read, limit, item, puts, stores, got>>

-----------------------------------------------------------------------------
StackStep(t) ==
    \/ PushCount(t) \/ PushUndo(t) \/ PushSlot(t)
    \/ PullCount(t) \/ PullUndo(t) \/ PullSlot(t)

BufferStep(t) ==
    \/ BufferPush(t) \/ BufferFull(t) \/ BufferWrite(t) \/ BufferPublish(t)
    \/ BufferPull(t) \/ BufferEmpty(t) \/ BufferTake(t) \/ BufferRestore(t)

ContainersNext == \E t \in Callers : StackStep(t) \/ BufferStep(t)

ContainersSpec == ContainersInit /\ [][ContainersNext]_containerVars

-----------------------------------------------------------------------------
\* StoresInBounds: no put writes outside the array, whatever the counter has
\* become through puts and takes that are about to be undone; and the undoing
\* is exact, so that at rest the counter is the puts that were accepted less
\* the takes that were answered.
StoresInBounds ==
    /\ \A t \in Callers : at[t] \in {"store", "write"} => read[t] \in 0..(Size - 1)
    /\ {head_, tail_} \subseteq 0..(Size - 1)
    /\ (class = "stack" /\ \A t \in Callers : at[t] = "out") => count_ = stores - Len(got)

\* TakenOnce: what a take answers is an item that was put, and no other take
\* answers it again.
TakenOnce ==
    \A i \in 1..Len(got) : got[i] # 0 /\ \A j \in 1..(i - 1) : got[j] # got[i]
=============================================================================
