--------------------------- MODULE PipelineProofs ---------------------------
(***************************************************************************)
(* For every number of producers, consumers, managers and closers, every   *)
(* ring size and every set of items: the conjunction IInv of Pipeline is   *)
(* an inductive invariant.  And for every pipe capacity and read size: a   *)
(* notify_pipeline is a pipeline, so all that is proved of Pipeline holds  *)
(* of it, and its handle announces every item.                             *)
(***************************************************************************)
EXTENDS NotifyPipeline, SequenceTheorems, TLAPS

-----------------------------------------------------------------------------
(* Arithmetic of the ring: one lap at most is ever taken off an index.     *)

LEMMA ModBelow == ASSUME NEW n \in 0..(S - 1) PROVE n % S = n
BY PipelineAssumption

LEMMA ModAbove == ASSUME NEW n \in S..(2 * S - 1) PROVE n % S = n - S
BY PipelineAssumption

\* A lap that starts at slot h: its i-th slot, its end, and the next lap.
LEMMA LapValue ==
    ASSUME NEW h \in 0..(S - 1), NEW i \in 0..S
    PROVE  /\ (h + i) % S \in 0..(S - 1)
           /\ (h + i) % S = IF h + i < S THEN h + i ELSE h + i - S
<1>1. h + i \in 0..(S - 1) \/ h + i \in S..(2 * S - 1)
  BY PipelineAssumption
<1> QED BY <1>1, ModBelow, ModAbove, PipelineAssumption

\* A lap begins where it ends.
LEMMA LapEnds ==
    ASSUME NEW h \in 0..(S - 1)
    PROVE  (h + 0) % S = h /\ (h + S) % S = h
<1>1. 0 \in 0..S /\ S \in 0..S /\ h + 0 = h /\ h + 0 < S /\ ~(h + S < S) /\ h + S - S = h
  BY PipelineAssumption
<1>2. (h + 0) % S = IF h + 0 < S THEN h + 0 ELSE h + 0 - S
  BY <1>1, LapValue
<1>3. (h + S) % S = IF h + S < S THEN h + S ELSE h + S - S
  BY <1>1, LapValue
<1> QED BY <1>1, <1>2, <1>3

LEMMA NextSlotValue ==
    ASSUME NEW i \in 0..(S - 1)
    PROVE  /\ NextSlot(i) \in 0..(S - 1)
           /\ NextSlot(i) = IF i + 1 = S THEN 0 ELSE i + 1
<1>1. i + 1 \in 0..(S - 1) \/ i + 1 \in S..(2 * S - 1)
  BY PipelineAssumption
<1> QED BY <1>1, ModBelow, ModAbove, PipelineAssumption DEF NextSlot

LEMMA LapNext ==
    ASSUME NEW h \in 0..(S - 1), NEW i \in 0..(S - 1)
    PROVE  /\ NextSlot((h + i) % S) = (h + (i + 1)) % S
           /\ (NextSlot(h) + i) % S = (h + (i + 1)) % S
<1>1. i \in 0..S /\ i + 1 \in 0..S
  BY PipelineAssumption
<1>2. (h + i) % S = IF h + i < S THEN h + i ELSE h + i - S
  BY <1>1, LapValue
<1>3. (h + (i + 1)) % S = IF h + (i + 1) < S THEN h + (i + 1) ELSE h + (i + 1) - S
  BY <1>1, LapValue
<1>4. NextSlot(h) \in 0..(S - 1) /\ NextSlot(h) = IF h + 1 = S THEN 0 ELSE h + 1
  BY NextSlotValue
<1>5. (NextSlot(h) + i) % S = IF NextSlot(h) + i < S THEN NextSlot(h) + i ELSE NextSlot(h) + i - S
  BY <1>1, <1>4, LapValue
<1>6. (h + i) % S \in 0..(S - 1)
  BY <1>1, LapValue
<1>7. NextSlot((h + i) % S) = IF ((h + i) % S) + 1 = S THEN 0 ELSE ((h + i) % S) + 1
  BY <1>6, NextSlotValue
<1> QED BY <1>2, <1>3, <1>4, <1>5, <1>7, PipelineAssumption

\* No two slots of a lap coincide, and every slot is on the lap.
LEMMA LapInjective ==
    ASSUME NEW h \in 0..(S - 1), NEW i \in 0..(S - 1), NEW j \in 0..(S - 1),
           (h + i) % S = (h + j) % S
    PROVE  i = j
<1>1. i \in 0..S /\ j \in 0..S
  BY PipelineAssumption
<1>2. (h + i) % S = IF h + i < S THEN h + i ELSE h + i - S
  BY <1>1, LapValue
<1>3. (h + j) % S = IF h + j < S THEN h + j ELSE h + j - S
  BY <1>1, LapValue
<1>4. (IF h + i < S THEN h + i ELSE h + i - S) = (IF h + j < S THEN h + j ELSE h + j - S)
  BY <1>2, <1>3
<1> QED BY <1>4, PipelineAssumption

LEMMA LapSurjective ==
    ASSUME NEW h \in 0..(S - 1), NEW n \in 0..(S - 1)
    PROVE  \E i \in 0..(S - 1) : (h + i) % S = n
<1>1. CASE h <= n
  <2>1. n - h \in 0..(S - 1) /\ n - h \in 0..S
    BY <1>1, PipelineAssumption
  <2>2. (h + (n - h)) % S = IF h + (n - h) < S THEN h + (n - h) ELSE h + (n - h) - S
    BY <2>1, LapValue
  <2> QED BY <2>1, <2>2, PipelineAssumption
<1>2. CASE n < h
  <2>1. n - h + S \in 0..(S - 1) /\ n - h + S \in 0..S
    BY <1>2, PipelineAssumption
  <2>2. (h + (n - h + S)) % S = IF h + (n - h + S) < S THEN h + (n - h + S) ELSE h + (n - h + S) - S
    BY <2>1, LapValue
  <2> QED BY <2>1, <2>2, PipelineAssumption
<1> QED BY <1>1, <1>2, PipelineAssumption

LEMMA NotifyOneSubset ==
    ASSUME NEW cv, NEW w \in NotifyOne(cv)
    PROVE  w \subseteq cv
BY DEF NotifyOne

-----------------------------------------------------------------------------
(* The three ways a step changes the ring.                                 *)

LEMMA RingSteps ==
    ASSUME IInv, [Next]_vars
    PROVE  \/ UNCHANGED ring
           \/ \E t \in Producers : PushStore(t)
           \/ PopHead /\ count > 0
           \/ ClearRing
<1> USE DEF ring
<1>1. CASE UNCHANGED vars
  BY <1>1 DEF vars
<1>2. ASSUME NEW t \in Producers, Push(t) PROVE UNCHANGED ring \/ PushStore(t) \/ (PopHead /\ count > 0)
  BY <1>2, PipelineAssumption DEF Enter, Store, Push, PushWaits, PushRefused, PushRoom, PushFull, PushSleep,
     PushEvict, DropHead, IInv, SectionInv, InSection, Threads
<1>3. ASSUME NEW t \in Producers, NEW v \in Items, PushCall(t, v) PROVE UNCHANGED ring
  BY <1>3 DEF PushCall
<1>4. ASSUME NEW t \in Consumers, Pull(t) \/ PullCall(t) PROVE UNCHANGED ring \/ (PopHead /\ count > 0)
  BY <1>4 DEF Enter, Take, Pull, PullWaits, PullCall, PullRefused, PullItem, PullEmpty, PullSleep, PullTake, IInv, SectionInv, InSection, Threads
<1>5. ASSUME NEW t \in Managers, Drop(t) \/ DropIf(t) \/ Clear(t) PROVE (PopHead /\ count > 0) \/ ClearRing
  BY <1>5, PipelineAssumption DEF Drop, DropIf, Clear, DropHead
<1>6. ASSUME NEW t \in Closers, Close(t) \/ CloseFirst(t) PROVE UNCHANGED ring \/ ClearRing
  BY <1>6 DEF Close, CloseFirst, CloseNotifyOutput, CloseNotifyInput, CloseClear
<1>7. ASSUME NEW t \in Threads, SpuriousWake(t) PROVE UNCHANGED ring
  BY <1>7 DEF SpuriousWake
<1> QED BY <1>1, <1>2, <1>3, <1>4, <1>5, <1>6, <1>7 DEF Next

LEMMA TypeInit == Init => TypeOK
<1>1. 0 \in 0..(S - 1) /\ 0 \in 0..S
  BY PipelineAssumption
<1> QED BY <1>1 DEF Init, TypeOK

LEMMA TypeStep == IInv /\ [Next]_vars => TypeOK'
<1> SUFFICES ASSUME IInv, [Next]_vars PROVE TypeOK'
  OBVIOUS
<1> USE PipelineAssumption DEF IInv
<1>1. data' \in [0..(S - 1) -> Items \cup {NoItem}] /\ head' \in 0..(S - 1)
          /\ tail' \in 0..(S - 1) /\ count' \in 0..S
  <2>1. CASE UNCHANGED ring
    BY <2>1 DEF ring, TypeOK
  <2>2. ASSUME NEW t \in Producers, PushStore(t) 
        PROVE data' \in [0..(S - 1) -> Items \cup {NoItem}] /\ head' \in 0..(S - 1)
                /\ tail' \in 0..(S - 1) /\ count' \in 0..S
    BY <2>2, NextSlotValue DEF Store, PushStore, TypeOK, SectionInv, InSection, CallInv, Threads
  <2>3. CASE PopHead /\ count > 0
    BY <2>3, NextSlotValue DEF PopHead, TypeOK
  <2>4. CASE ClearRing
    BY <2>4, LapValue DEF ClearRing, Slot, TypeOK
  <2> QED BY <2>1, <2>2, <2>3, <2>4, RingSteps
<1> DEFINE Rest ==
        /\ kind' \in Kinds /\ closed' \in BOOLEAN /\ lock' \in Threads \cup {NoThread}
        /\ input' \subseteq Threads /\ output' \subseteq Threads
        /\ pc' \in [Threads -> {"idle", "push", "pull"} \cup Holding \cup Closing]
        /\ val' \in [Threads -> Items \cup {NoItem}]
<1>2. Rest
  <2>1. CASE UNCHANGED vars
    BY <2>1 DEF vars, TypeOK
  <2>2. ASSUME NEW t \in Producers, Push(t) \/ \E v \in Items : PushCall(t, v) PROVE Rest
    BY <2>2, NotifyOneSubset DEF Enter, Store, Push, PushWaits, PushCall, PushLocks, PushRefused, PushRoom, PushFull, 
       PushSleep, PushEvict, PushStore, DropHead, Goto, TypeOK, Threads, Holding
  <2>3. ASSUME NEW t \in Consumers, Pull(t) \/ PullCall(t) PROVE Rest
    <3>1. CASE PullTake(t)
      <4>1. val' \in [Threads -> Items \cup {NoItem}]
        BY <3>1 DEF Take, PullTake, TypeOK, Threads
      <4> QED BY <4>1, <3>1, NotifyOneSubset DEF Take, PullTake, Goto, TypeOK, Threads
    <3> QED BY <2>3, <3>1 DEF Enter, Take, Pull, PullWaits, PullCall, PullLocks, PullRefused, PullItem, PullEmpty, PullSleep,
               Goto, TypeOK, Threads, Holding
  <2>4. ASSUME NEW t \in Managers, Drop(t) \/ DropIf(t) \/ Clear(t) PROVE Rest
    BY <2>4, NotifyOneSubset DEF Drop, DropIf, Clear, DropHead, TypeOK, Threads
  <2>5. ASSUME NEW t \in Closers, Close(t) \/ CloseFirst(t) PROVE Rest
    BY <2>5 DEF Close, CloseFirst, CloseNotifyOutput, CloseNotifyInput, CloseClear, Goto, TypeOK, Closing
  <2>6. ASSUME NEW t \in Threads, SpuriousWake(t) PROVE Rest
    BY <2>6 DEF SpuriousWake, TypeOK
  <2> HIDE DEF Rest
  <2> QED BY <2>1, <2>2, <2>3, <2>4, <2>5, <2>6 DEF Next
<1> QED BY <1>1, <1>2 DEF TypeOK

-----------------------------------------------------------------------------
(* RingInv                                                                 *)

LEMMA RingInit == Init => RingInv
<1> SUFFICES ASSUME Init PROVE RingInv
  OBVIOUS
<1>1. 0 \in 0..(S - 1) /\ 0 \in 0..S /\ \A i \in 0..(S - 1) : i \in 0..S
  BY PipelineAssumption
<1>2. Slot(0) = 0 /\ \A i \in 0..(S - 1) : Slot(i) \in 0..(S - 1)
  BY <1>1, LapValue, PipelineAssumption DEF Init, Slot
<1> QED BY <1>2, PipelineAssumption DEF Init, RingInv

\* Storing an item fills the slot after the filled ones.
LEMMA StoreRing ==
    ASSUME IInv, NEW t \in Producers, PushStore(t)
    PROVE  RingInv'
<1> USE PipelineAssumption DEF IInv, Slot
<1>1. /\ head \in 0..(S - 1) /\ count \in 0..(S - 1) /\ count \in 0..S
      /\ val[t] \in Items /\ tail = (head + count) % S
      /\ head' = head /\ count' = count + 1
  BY DEF Store, PushStore, SectionInv, InSection, CallInv, RingInv, Threads, TypeOK
<1>2. tail' = (head' + count') % S
  BY <1>1, LapNext DEF Store, PushStore
<1>3. ASSUME NEW i \in 0..(S - 1)
      PROVE  data'[(head' + i) % S] \in Items <=> i < count'
  <2>1. (head + i) % S \in 0..(S - 1) /\ tail \in 0..(S - 1)
    BY <1>1, LapValue
  <2>2. CASE i = count
    BY <1>1, <2>1, <2>2 DEF Store, PushStore, TypeOK
  <2>3. CASE i # count
    <3>1. (head + i) % S # tail
      BY <1>1, <2>3, LapInjective
    <3>2. data'[(head + i) % S] = data[(head + i) % S]
      BY <2>1, <3>1 DEF Store, PushStore, TypeOK
    <3>3. data[(head + i) % S] \in Items <=> i < count
      BY DEF RingInv
    <3>4. i < count <=> i < count'
      BY <1>1, <2>3
    <3> QED BY <1>1, <3>2, <3>3, <3>4
  <2> QED BY <2>2, <2>3
<1> QED BY <1>2, <1>3 DEF RingInv

\* Removing the oldest item moves the lap on by one slot; the slot it leaves
\* is now the last of the lap, and clear.
LEMMA PopRing ==
    ASSUME IInv, PopHead, count > 0
    PROVE  RingInv'
<1> USE PipelineAssumption DEF IInv, Slot
<1>1. /\ head \in 0..(S - 1) /\ count \in 1..S /\ count - 1 \in 0..(S - 1)
      /\ tail = (head + count) % S
  BY DEF RingInv, TypeOK
<1>2. tail' = (head' + count') % S
  BY <1>1, LapNext DEF PopHead
<1>3. ASSUME NEW i \in 0..(S - 1)
      PROVE  data'[(head' + i) % S] \in Items <=> i < count'
  <2>1. (head' + i) % S = (head + (i + 1)) % S
    BY <1>1, LapNext DEF PopHead
  <2>2. CASE i + 1 = S
    <3>1. (head' + i) % S = head
      BY <1>1, <2>1, <2>2, LapEnds
    <3> QED BY <1>1, <2>2, <3>1 DEF PopHead, TypeOK
  <2>3. CASE i + 1 # S
    <3>1. i + 1 \in 0..(S - 1) /\ i + 1 \in 0..S /\ 0 \in 0..(S - 1)
      BY <2>3
    <3>2. (head + 0) % S = head
      BY <1>1, LapEnds
    <3>3. (head + (i + 1)) % S # head
      BY <1>1, <3>1, <3>2, LapInjective
    <3>4. data'[(head' + i) % S] = data[(head + (i + 1)) % S]
      BY <1>1, <2>1, <3>1, <3>3, LapValue DEF PopHead, TypeOK
    <3>5. data[(head + (i + 1)) % S] \in Items <=> i + 1 < count
      BY <3>1 DEF RingInv
    <3> QED BY <1>1, <3>4, <3>5 DEF PopHead
  <2> QED BY <2>2, <2>3
<1> QED BY <1>2, <1>3 DEF RingInv

\* Clearing empties the filled slots and so all of them.
LEMMA ClearsRing ==
    ASSUME IInv, ClearRing
    PROVE  RingInv'
<1> USE PipelineAssumption DEF IInv, Slot
<1>1. /\ head \in 0..(S - 1) /\ count \in 0..S /\ tail = (head + count) % S
      /\ head' = tail /\ tail' = tail /\ count' = 0
  BY DEF RingInv, TypeOK, ClearRing
<1>2. tail \in 0..(S - 1) /\ 0 \in 0..S
  BY <1>1, LapValue
<1>3. tail' = (head' + count') % S
  BY <1>1, <1>2, LapEnds
<1>4. ASSUME NEW n \in 0..(S - 1)
      PROVE  data'[n] \notin Items
  <2>1. PICK i \in 0..(S - 1) : (head + i) % S = n
    BY <1>1, LapSurjective
  <2>2. data[n] \in Items <=> i < count
    BY <2>1 DEF RingInv
  <2> QED BY <2>1, <2>2 DEF ClearRing
<1>5. \A i \in 0..(S - 1) : (head' + i) % S \in 0..(S - 1)
  BY <1>1, <1>2, LapValue
<1> QED BY <1>1, <1>3, <1>4, <1>5 DEF RingInv

LEMMA RingStep == IInv /\ [Next]_vars => RingInv'
<1> SUFFICES ASSUME IInv, [Next]_vars PROVE RingInv'
  OBVIOUS
<1>1. CASE UNCHANGED ring
  BY <1>1 DEF IInv, RingInv, ring, Slot
<1> QED BY <1>1, RingSteps, StoreRing, PopRing, ClearsRing

-----------------------------------------------------------------------------
(* SectionInv: the owner of lock_ is the only thread inside a critical     *)
(* section, so nobody changes the ring behind its back.                    *)

LEMMA SectionInit == Init => SectionInv
BY PipelineAssumption DEF Init, SectionInv, InSection, Holding

LEMMA SectionStep == IInv /\ [Next]_vars => SectionInv'
<1> SUFFICES ASSUME IInv, [Next]_vars, NEW u \in Threads PROVE InSection(u)'
  BY DEF SectionInv
<1> USE PipelineAssumption DEF IInv
<1>1. CASE UNCHANGED vars
  BY <1>1 DEF vars, ring, InSection, SectionInv
<1>2. ASSUME NEW t \in Producers, Push(t) \/ \E v \in Items : PushCall(t, v) PROVE InSection(u)'
  BY <1>2 DEF Enter, Store, Push, PushWaits, PushCall, PushLocks, PushRefused, PushRoom, PushFull, 
     PushSleep, PushEvict, PushStore, DropHead, PopHead, Goto, TypeOK, Threads, Holding, InSection, SectionInv, ring
<1>3. ASSUME NEW t \in Consumers, Pull(t) \/ PullCall(t) PROVE InSection(u)'
  BY <1>3 DEF Enter, Take, Pull, PullWaits, PullCall, PullLocks, PullRefused, PullItem, PullEmpty, PullSleep, PullTake,
               Goto, TypeOK, Threads, Holding, InSection, SectionInv, ring
<1>4. ASSUME NEW t \in Managers, Drop(t) \/ DropIf(t) \/ Clear(t) PROVE InSection(u)'
  BY <1>4 DEF Drop, DropIf, Clear, Unlocked, Holding, InSection, SectionInv
<1>5. ASSUME NEW t \in Closers, Close(t) \/ CloseFirst(t) PROVE InSection(u)'
  BY <1>5 DEF Close, CloseFirst, CloseNotifyOutput, CloseNotifyInput, CloseClear, Goto, TypeOK, Closing, Holding, InSection, SectionInv, ring, Threads
<1>6. ASSUME NEW t \in Threads, SpuriousWake(t) PROVE InSection(u)'
  BY <1>6 DEF SpuriousWake, InSection, SectionInv, ring
<1> QED BY <1>1, <1>2, <1>3, <1>4, <1>5, <1>6 DEF Next

-----------------------------------------------------------------------------
(* CallInv                                                                 *)

LEMMA CallInit == Init => CallInv
BY DEF Init, CallInv

LEMMA CallStep == IInv /\ [Next]_vars => CallInv'
<1> SUFFICES ASSUME IInv, [Next]_vars PROVE CallInv'
  OBVIOUS
<1> USE PipelineAssumption DEF IInv
<1>1. CASE UNCHANGED vars
  BY <1>1 DEF vars, CallInv
<1>2. ASSUME NEW t \in Producers, Push(t) \/ \E v \in Items : PushCall(t, v) PROVE CallInv'
  BY <1>2, NotifyOneSubset DEF Enter, Store, Push, PushWaits, PushCall, PushLocks, PushRefused, PushRoom, PushFull, 
     PushSleep, PushEvict, PushStore, DropHead, PopHead, Goto, TypeOK, Threads, CallInv, SectionInv, InSection
<1>3. ASSUME NEW t \in Consumers, Pull(t) \/ PullCall(t) PROVE CallInv'
  BY <1>3, NotifyOneSubset DEF Enter, Take, Pull, PullWaits, PullCall, PullLocks, PullRefused, PullItem, PullEmpty, PullSleep,
     PullTake, Goto, TypeOK, Threads, CallInv
<1>4. ASSUME NEW t \in Managers, Drop(t) \/ DropIf(t) \/ Clear(t) PROVE CallInv'
  BY <1>4, NotifyOneSubset DEF Drop, DropIf, Clear, DropHead, CallInv
<1>5. ASSUME NEW t \in Closers, Close(t) \/ CloseFirst(t) PROVE CallInv'
  BY <1>5 DEF Close, CloseFirst, CloseNotifyOutput, CloseNotifyInput, CloseClear, Goto, TypeOK, Threads, CallInv
<1>6. ASSUME NEW t \in Threads, SpuriousWake(t) PROVE CallInv'
  BY <1>6 DEF SpuriousWake, CallInv
<1> QED BY <1>1, <1>2, <1>3, <1>4, <1>5, <1>6 DEF Next

-----------------------------------------------------------------------------
(* CloseInv                                                                *)

LEMMA CloseInit == Init => CloseInv
BY PipelineAssumption DEF Init, CloseInv, Closing, Phase

LEMMA CloseStep == IInv /\ [Next]_vars => CloseInv'
<1> SUFFICES ASSUME IInv, [Next]_vars PROVE CloseInv'
  OBVIOUS
<1> USE PipelineAssumption DEF IInv
<1>1. CASE UNCHANGED vars
  BY <1>1 DEF vars, ring, CloseInv, Phase
<1>2. ASSUME NEW t \in Producers, Push(t) \/ \E v \in Items : PushCall(t, v) PROVE CloseInv'
  BY <1>2 DEF Enter, Store, Push, PushWaits, PushCall, PushLocks, PushRefused, PushRoom, PushFull, PushSleep, PushEvict,
     PushStore, DropHead, PopHead, Goto, TypeOK, Threads, CloseInv, Phase, Closing, Holding, ring
<1>3. ASSUME NEW t \in Consumers, Pull(t) \/ PullCall(t) PROVE CloseInv'
  BY <1>3 DEF Enter, Take, Pull, PullWaits, PullCall, PullLocks, PullRefused, PullItem, PullEmpty, PullSleep, PullTake, PopHead,
     Goto, TypeOK, Threads, CloseInv, Phase, Closing, Holding, ring
<1>4. ASSUME NEW t \in Managers, Drop(t) \/ DropIf(t) \/ Clear(t) PROVE CloseInv'
  BY <1>4 DEF Drop, DropIf, Clear, ClearRing, DropHead, PopHead, CloseInv, Phase
<1>5. ASSUME NEW t \in Closers, Close(t) \/ CloseFirst(t) PROVE CloseInv'
  BY <1>5 DEF Close, CloseFirst, CloseNotifyOutput, CloseNotifyInput, CloseClear, ClearRing, Goto, TypeOK,
     Threads, CloseInv, Phase, Closing, Holding, SectionInv, InSection, ring
<1>6. ASSUME NEW t \in Threads, SpuriousWake(t) PROVE CloseInv'
  BY <1>6 DEF SpuriousWake, CloseInv, Phase, ring
<1> QED BY <1>1, <1>2, <1>3, <1>4, <1>5, <1>6 DEF Next

-----------------------------------------------------------------------------
(* SomeoneAwake                                                            *)

LEMMA AwakeInit == Init => SomeoneAwake
BY PipelineAssumption DEF Init, SomeoneAwake

LEMMA AwakeStep == IInv /\ [Next]_vars => SomeoneAwake'
<1> SUFFICES ASSUME IInv, [Next]_vars PROVE SomeoneAwake'
  OBVIOUS
<1> USE PipelineAssumption DEF IInv
<1>1. CASE UNCHANGED vars
  BY <1>1 DEF vars, ring, SomeoneAwake
<1>2. ASSUME NEW t \in Producers, Push(t) \/ \E v \in Items : PushCall(t, v) PROVE SomeoneAwake'
  BY <1>2 DEF Enter, Store, Push, PushWaits, PushCall, PushLocks, PushRefused, PushRoom, PushFull, PushSleep, PushEvict,
     PushStore, DropHead, PopHead, Goto, TypeOK, Threads, SomeoneAwake, SectionInv, InSection, CallInv, NotifyOne, ring
<1>3. ASSUME NEW t \in Consumers, Pull(t) \/ PullCall(t) PROVE SomeoneAwake'
  BY <1>3 DEF Enter, Take, Pull, PullWaits, PullCall, PullLocks, PullRefused, PullItem, PullEmpty, PullSleep, PullTake, PopHead,
     Goto, TypeOK, Threads, SomeoneAwake, SectionInv, InSection, CallInv, NotifyOne, ring
<1>4. ASSUME NEW t \in Managers, Drop(t) \/ DropIf(t) \/ Clear(t) PROVE SomeoneAwake'
  BY <1>4 DEF Drop, DropIf, Clear, ClearRing, DropHead, PopHead, SomeoneAwake, CallInv, NotifyOne, TypeOK
<1>5. ASSUME NEW t \in Closers, Close(t) \/ CloseFirst(t) PROVE SomeoneAwake'
  BY <1>5 DEF Close, CloseFirst, CloseNotifyOutput, CloseNotifyInput, CloseClear, Goto, CloseInv, SomeoneAwake,
     Closing, Threads, TypeOK
<1>6. ASSUME NEW t \in Threads, SpuriousWake(t) PROVE SomeoneAwake'
  BY <1>6 DEF SpuriousWake, SomeoneAwake, ring
<1> QED BY <1>1, <1>2, <1>3, <1>4, <1>5, <1>6 DEF Next

-----------------------------------------------------------------------------
\* The inductive invariant holds in every reachable state.
THEOREM Invariance == Spec => []IInv
<1>1. Init => IInv
  BY TypeInit, RingInit, SectionInit, CallInit, CloseInit, AwakeInit DEF IInv
<1>2. IInv /\ [Next]_vars => IInv'
  BY TypeStep, RingStep, SectionStep, CallStep, CloseStep, AwakeStep DEF IInv
<1> QED BY <1>1, <1>2, PTL DEF Spec

\* Every variable stays in its type.
THEOREM TypeCorrect == Spec => []TypeOK
BY Invariance, PTL DEF IInv

\* The ring's indices, its counter and its slots always agree.
THEOREM RingCorrect == Spec => []RingInv
BY Invariance, PTL DEF IInv

\* A critical section acts on the ring it looked at.
THEOREM SectionsCorrect == Spec => []SectionInv
BY Invariance, PTL DEF IInv

\* Closing happens once, and a closed pipeline is empty for good.
THEOREM CloseCorrect == Spec => []CloseInv
BY Invariance, PTL DEF IInv

\* The lost wakeups of several consumers or producers never stall them all.
THEOREM NeverAllAsleep == Spec => []SomeoneAwake
BY Invariance, PTL DEF IInv

-----------------------------------------------------------------------------
(* One consumer, or one producer: nobody is left behind.                   *)

\* With a single consumer no wakeup is lost: it never sleeps in an open
\* pipeline that holds an item.
THEOREM SingleConsumerServed ==
    ASSUME NEW c, Consumers = {c}
    PROVE  Spec => []NoStrandedConsumer
<1>1. IInv => NoStrandedConsumer
  BY DEF IInv, SomeoneAwake, CallInv, NoStrandedConsumer
<1> QED BY <1>1, Invariance, PTL

\* With a single producer neither: it never sleeps beside a free slot.
THEOREM SingleProducerServed ==
    ASSUME NEW p, Producers = {p}
    PROVE  Spec => []NoStrandedProducer
<1>1. IInv => NoStrandedProducer
  BY DEF IInv, SomeoneAwake, CallInv, NoStrandedProducer
<1> QED BY <1>1, Invariance, PTL

-----------------------------------------------------------------------------
(* The pipeline implements the channel.                                    *)

ContentsAre(n) ==
    /\ Contents \in Seq(Items)
    /\ Len(Contents) = n
    /\ \A i \in 1..n : Contents[i] = data[Slot(i - 1)]

LEMMA ContentsType == IInv => ContentsAre(count)
<1> SUFFICES ASSUME IInv PROVE ContentsAre(count)
  OBVIOUS
<1>1. count \in Nat /\ count <= S
  BY PipelineAssumption DEF IInv, TypeOK
<1>2. \A i \in 1..count : data[Slot(i - 1)] \in Items
  BY <1>1, PipelineAssumption DEF IInv, RingInv
<1> QED BY <1>1, <1>2 DEF Contents, ContentsAre

LEMMA ContentsTypeNext == IInv' => ContentsAre(count)'
BY ContentsType, PTL

LEMMA ChannelInit == Init => Chan!ChanInit
<1> SUFFICES ASSUME Init PROVE Chan!ChanInit
  OBVIOUS
<1>1. Contents = <<>>
  BY DEF Init, Contents
<1>2. Phase = "open"
  BY DEF Init, Phase
<1>3. [c \in Consumers |-> val[c]] = [c \in Consumers |-> NoItem]
  BY DEF Init, Threads
<1> QED BY <1>1, <1>2, <1>3 DEF Chan!ChanInit

\* A store appends.
LEMMA StoreAppends ==
    ASSUME IInv, IInv', NEW t \in Producers, PushStore(t)
    PROVE  Contents' = Append(Contents, val[t]) /\ val[t] \in Items
<1> USE PipelineAssumption
<1>1. /\ head \in 0..(S - 1) /\ count \in 0..(S - 1) /\ count' = count + 1 /\ head' = head
      /\ val[t] \in Items /\ tail = (head + count) % S
      /\ data' = [data EXCEPT ![tail] = val[t]] /\ DOMAIN data = 0..(S - 1)
  BY DEF IInv, Store, PushStore, SectionInv, InSection, CallInv, RingInv, Slot, Threads, TypeOK
<1>2. /\ Contents \in Seq(Items) /\ Len(Contents) = count
      /\ \A i \in 1..count : Contents[i] = data[(head + (i - 1)) % S]
  BY ContentsType DEF ContentsAre, Slot
<1>3. /\ Contents' \in Seq(Items) /\ Len(Contents') = count + 1
      /\ \A i \in 1..(count + 1) : Contents'[i] = data'[(head + (i - 1)) % S]
  BY <1>1, ContentsTypeNext DEF ContentsAre, Slot
<1>4. Contents'[count + 1] = val[t]
  <2>1. count + 1 \in 1..(count + 1) /\ count + 1 - 1 = count /\ tail \in 0..(S - 1)
    BY <1>1 DEF IInv, TypeOK
  <2> QED BY <1>1, <1>3, <2>1
<1>5. ASSUME NEW i \in 1..count PROVE Contents'[i] = Contents[i]
  <2>1. i - 1 \in 0..(S - 1) /\ i - 1 \in 0..S /\ i - 1 # count /\ i \in 1..(count + 1)
    BY <1>1
  <2>2. (head + (i - 1)) % S # tail
    BY <1>1, <2>1, LapInjective
  <2>3. (head + (i - 1)) % S \in 0..(S - 1)
    BY <1>1, <2>1, LapValue
  <2>4. data'[(head + (i - 1)) % S] = data[(head + (i - 1)) % S]
    BY <1>1, <2>2, <2>3
  <2> QED BY <1>2, <1>3, <2>1, <2>4
<1>6. Append(Contents, val[t]) \in Seq(Items) /\ Len(Append(Contents, val[t])) = count + 1
      /\ \A i \in 1..(count + 1) : Append(Contents, val[t])[i] = IF i = count + 1 THEN val[t] ELSE Contents[i]
  BY <1>1, <1>2, AppendProperties
<1>7. \A i \in 1..(count + 1) : Contents'[i] = Append(Contents, val[t])[i]
  BY <1>1, <1>4, <1>5, <1>6
<1> QED BY <1>1, <1>3, <1>6, <1>7, SeqEqual

\* Removing the oldest item takes the head off.
LEMMA PopTakesHead ==
    ASSUME IInv, IInv', PopHead, count > 0
    PROVE  Contents # <<>> /\ Head(Contents) = data[head] /\ Contents' = Tail(Contents)
<1> USE PipelineAssumption
<1>1. /\ head \in 0..(S - 1) /\ count \in 1..S /\ count' = count - 1 /\ head' = NextSlot(head)
      /\ data' = [data EXCEPT ![head] = NoItem] /\ DOMAIN data = 0..(S - 1)
  BY DEF IInv, PopHead, TypeOK
<1>2. /\ Contents \in Seq(Items) /\ Len(Contents) = count
      /\ \A i \in 1..count : Contents[i] = data[(head + (i - 1)) % S]
  BY ContentsType DEF ContentsAre, Slot
<1>3. /\ Contents' \in Seq(Items) /\ Len(Contents') = count - 1
      /\ \A i \in 1..(count - 1) : Contents'[i] = data'[(NextSlot(head) + (i - 1)) % S]
  BY <1>1, ContentsTypeNext DEF ContentsAre, Slot
<1>4. Contents # <<>> /\ Head(Contents) = data[head]
  BY <1>1, <1>2, LapEnds
<1>5. Tail(Contents) \in Seq(Items) /\ Len(Tail(Contents)) = count - 1
      /\ \A i \in 1..(count - 1) : Tail(Contents)[i] = Contents[i + 1]
  BY <1>1, <1>2, <1>4, HeadTailProperties
<1>6. ASSUME NEW i \in 1..(count - 1) PROVE Contents'[i] = Tail(Contents)[i]
  <2>1. i - 1 \in 0..(S - 1) /\ i \in 0..(S - 1) /\ i # 0 /\ 0 \in 0..(S - 1) /\ i - 1 + 1 = i
        /\ i + 1 \in 1..count /\ i + 1 - 1 = i
    BY <1>1
  <2>2. (NextSlot(head) + (i - 1)) % S = (head + i) % S
    BY <1>1, <2>1, LapNext
  <2>3. (head + 0) % S = head
    BY <1>1, LapEnds
  <2>4. (head + i) % S # head
    BY <1>1, <2>1, <2>3, LapInjective
  <2>5. (head + i) % S \in 0..(S - 1)
    BY <1>1, <2>1, LapValue
  <2>6. Contents'[i] = data[(head + i) % S]
    BY <1>1, <1>3, <2>2, <2>4, <2>5
  <2>7. Tail(Contents)[i] = data[(head + i) % S]
    BY <1>2, <1>5, <2>1
  <2> QED BY <2>6, <2>7
<1> QED BY <1>1, <1>3, <1>4, <1>5, <1>6, SeqEqual

LEMMA ClearEmpties ==
    ASSUME IInv', ClearRing
    PROVE  Contents' = <<>>
<1>1. Contents' \in Seq(Items) /\ Len(Contents') = 0
  BY ContentsTypeNext DEF ContentsAre, ClearRing
<1> QED BY <1>1, EmptySeq

\* A step that leaves the ring alone leaves the contents alone.
LEMMA RingKeepsContents ==
    ASSUME UNCHANGED ring
    PROVE  Contents' = Contents
BY DEF ring, Contents, Slot

\* Every step of the pipeline is a step of the channel or none.
LEMMA ChannelStep ==
    ASSUME IInv, IInv', [Next]_vars
    PROVE  [Chan!ChanNext]_(Chan!chanVars)
<1> DEFINE Got == [c \in Consumers |-> val[c]]
           Step == [Chan!ChanNext]_(Chan!chanVars)
<1> USE PipelineAssumption
<1>1. ASSUME UNCHANGED vars PROVE Step
  <2>1. Contents' = Contents /\ Phase' = Phase /\ Got' = Got
    BY <1>1, RingKeepsContents DEF vars, Phase
  <2> QED BY <2>1 DEF Chan!chanVars
<1>2. ASSUME NEW t \in Producers, Push(t) \/ \E v \in Items : PushCall(t, v) PROVE Step
  <2>1. Phase' = Phase /\ Got' = Got
    <3>1. Phase' = Phase
      <4>1. /\ closed' = closed /\ pc[t] \notin Closing
            /\ \E label : label \notin Closing /\ pc' = [pc EXCEPT ![t] = label]
        BY <1>2 DEF Enter, Store, Push, PushWaits, PushCall, PushLocks, PushRefused, PushRoom, PushFull, PushSleep,
           PushEvict, PushStore, Goto, Closing, Holding
      <4>2. \A u \in Threads : pc'[u] \in Closing <=> pc[u] \in Closing
        BY <4>1 DEF IInv, TypeOK
      <4> QED BY <4>1, <4>2 DEF Phase
    <3>2. val' = val \/ \E v : val' = [val EXCEPT ![t] = v]
      BY <1>2 DEF Enter, Store, Push, PushWaits, PushCall, PushRefused, PushRoom, PushFull, PushSleep, PushEvict,
         PushStore
    <3>3. \A c \in Consumers : val'[c] = val[c]
      BY <3>2 DEF IInv, TypeOK, Threads
    <3> QED BY <3>1, <3>3
  <2>2. CASE PushStore(t)
    <3>1. Contents' = Append(Contents, val[t]) /\ val[t] \in Items
      BY <2>2, StoreAppends
    <3>2. Phase # "closed"
      BY <2>2 DEF Store, PushStore, IInv, CloseInv, Threads
    <3>3. Len(Contents) < S
      BY <2>2, ContentsType DEF ContentsAre, Store, PushStore, IInv, SectionInv, InSection, Threads
    <3>4. Chan!Send(val[t])
      BY <2>1, <3>1, <3>2, <3>3 DEF Chan!Send
    <3> QED BY <3>1, <3>4 DEF Chan!ChanNext
  <2>3. CASE PushEvict(t)
    <3>1. PopHead /\ count > 0
      BY <2>3 DEF PushEvict, DropHead, IInv, SectionInv, InSection, Threads
    <3>2. Chan!Discard
      BY <2>1, <3>1, PopTakesHead DEF Chan!Discard
    <3> QED BY <3>2 DEF Chan!ChanNext
  <2>4. CASE ~PushStore(t) /\ ~PushEvict(t)
    <3>1. Contents' = Contents
      BY <1>2, <2>4, RingKeepsContents DEF Enter, Store, Push, PushWaits, PushCall, PushRefused, PushRoom, PushFull, PushSleep
    <3> QED BY <2>1, <3>1 DEF Chan!chanVars
  <2> QED BY <2>2, <2>3, <2>4
<1>3. ASSUME NEW t \in Consumers, Pull(t) \/ PullCall(t) PROVE Step
  <2>1. Phase' = Phase
    BY <1>3 DEF Enter, Take, Pull, PullWaits, PullCall, PullLocks, PullRefused, PullItem, PullEmpty, PullSleep, PullTake,
       Goto, IInv, TypeOK, Threads, Phase, Closing, Holding
  <2>2. CASE PullTake(t)
    <3>1. PopHead /\ count > 0
      BY <2>2 DEF Take, PullTake, IInv, SectionInv, InSection, Threads
    <3>2. Contents # <<>> /\ Head(Contents) = data[head] /\ Contents' = Tail(Contents)
      BY <3>1, PopTakesHead
    <3>3. Got' = [Got EXCEPT ![t] = Head(Contents)]
      BY <2>2, <3>2 DEF Take, PullTake, IInv, TypeOK, Threads
    <3>4. Chan!Receive(t)
      BY <2>1, <3>2, <3>3 DEF Chan!Receive
    <3> QED BY <3>4 DEF Chan!ChanNext
  <2>3. CASE ~PullTake(t)
    <3>1. Contents' = Contents /\ Got' = Got
      BY <1>3, <2>3, RingKeepsContents DEF Enter, Take, Pull, PullWaits, PullCall, PullRefused, PullItem, PullEmpty, PullSleep
    <3> QED BY <2>1, <3>1 DEF Chan!chanVars
  <2> QED BY <2>2, <2>3
<1>4. ASSUME NEW t \in Managers, Drop(t) \/ DropIf(t) \/ Clear(t) PROVE Step
  <2>1. Phase' = Phase /\ Got' = Got
    <3>1. closed' = closed /\ pc' = pc /\ val' = val
      BY <1>4 DEF Drop, DropIf, Clear
    <3> QED BY <3>1 DEF Phase
  <2>2. CASE Clear(t)
    <3>1. Chan!Flush
      BY <2>1, <2>2, ClearEmpties DEF Clear, Chan!Flush
    <3> QED BY <3>1 DEF Chan!ChanNext
  <2>3. CASE Drop(t) \/ DropIf(t)
    <3>1. PopHead /\ count > 0
      BY <2>3 DEF Drop, DropIf, DropHead
    <3>2. Chan!Discard
      BY <2>1, <3>1, PopTakesHead DEF Chan!Discard
    <3> QED BY <3>2 DEF Chan!ChanNext
  <2> QED BY <1>4, <2>2, <2>3
<1>5. ASSUME NEW t \in Closers, Close(t) \/ CloseFirst(t) PROVE Step
  <2>1. Got' = Got
    BY <1>5 DEF Close, CloseFirst, CloseNotifyOutput, CloseNotifyInput, CloseClear
  <2>2. CASE CloseFirst(t)
    <3>1. Phase = "open" /\ Phase' = "closing"
      BY <2>2 DEF CloseFirst, Goto, Phase, Closing, IInv, TypeOK, Threads
    <3>2. Contents' = Contents
      BY <2>2, RingKeepsContents DEF CloseFirst
    <3>3. Chan!BeginClose
      BY <2>1, <3>1, <3>2 DEF Chan!BeginClose
    <3> QED BY <3>3 DEF Chan!ChanNext
  <2>3. CASE CloseNotifyOutput(t) \/ CloseNotifyInput(t)
    <3>1. Phase' = Phase
      BY <2>3 DEF CloseNotifyOutput, CloseNotifyInput, Goto, Phase, Closing, IInv, TypeOK, Threads
    <3>2. Contents' = Contents
      BY <2>3, RingKeepsContents DEF CloseNotifyOutput, CloseNotifyInput
    <3> QED BY <2>1, <3>1, <3>2 DEF Chan!chanVars
  <2>4. CASE CloseClear(t)
    <3>1. Phase = "closing" /\ Phase' = "closed"
      BY <2>4 DEF CloseClear, Goto, Phase, Closing, IInv, TypeOK, CloseInv, Threads
    <3>2. Chan!EndClose
      BY <2>1, <2>4, <3>1, ClearEmpties DEF CloseClear, Chan!EndClose
    <3> QED BY <3>2 DEF Chan!ChanNext
  <2> QED BY <1>5, <2>2, <2>3, <2>4 DEF Close
<1>6. ASSUME NEW t \in Threads, SpuriousWake(t) PROVE Step
  <2>1. Contents' = Contents /\ Phase' = Phase /\ Got' = Got
    BY <1>6, RingKeepsContents DEF SpuriousWake, Phase
  <2> QED BY <2>1 DEF Chan!chanVars
<1> HIDE DEF Step
<1>7. Step
  BY <1>1, <1>2, <1>3, <1>4, <1>5, <1>6 DEF Next
<1> QED BY <1>7 DEF Step

\* For every number of threads, every ring size and every set of items, the
\* pipeline and its subclasses implement the bounded FIFO channel.
THEOREM Refinement == Spec => ImplementsChannel
<1>1. Init => Chan!ChanInit
  BY ChannelInit
<1>2. IInv /\ IInv' /\ [Next]_vars => [Chan!ChanNext]_(Chan!chanVars)
  BY ChannelStep
<1> QED BY <1>1, <1>2, Invariance, PTL DEF Spec, ImplementsChannel, Chan!ChanSpec

-----------------------------------------------------------------------------
(* notify_pipeline.                                                        *)

LEMMA NotifyStepIsStep == [NotifyNext]_notifyVars => [Next]_vars
<1> SUFFICES ASSUME [NotifyNext]_notifyVars PROVE [Next]_vars
  OBVIOUS
<1>1. CASE UNCHANGED notifyVars \/ PollInterrupted
  BY <1>1 DEF notifyVars, PollInterrupted
<1>2. ASSUME NEW t \in Producers, NotifyStore(t) PROVE Next
  BY <1>2 DEF NotifyStore, Next, Push
<1>3. ASSUME NEW t \in Consumers, NotifyTake(t) PROVE Next
  BY <1>3 DEF NotifyTake, Next, Pull
<1>4. CASE Silent
  BY <1>4 DEF Silent, Next, Push, Pull
<1> QED BY <1>1, <1>2, <1>3, <1>4 DEF NotifyNext

\* The handle changes nothing of what the pipeline does.
THEOREM NotifyIsPipeline == NotifySpec => Spec
<1>1. NotifyInit => Init
  BY DEF NotifyInit
<1> QED BY <1>1, NotifyStepIsStep, PTL DEF NotifySpec, Spec

NotifyInv == IInv /\ NotifyTypeOK /\ ItemsAnnounced

\* Only a store lets the count grow, and from there it is by one.
LEMMA SilentCount ==
    ASSUME IInv, Silent
    PROVE  count' <= count
<1> USE PipelineAssumption DEF IInv, ring
<1>1. count \in 0..S /\ count \in Int
  BY DEF TypeOK
<1>2. ASSUME NEW t \in Producers, PushWaits(t) \/ \E v \in Items : PushCall(t, v) PROVE count' <= count
  BY <1>1, <1>2 DEF Enter, PushWaits, PushCall, PushRefused, PushRoom, PushFull, PushSleep, PushEvict,
     DropHead, PopHead
<1>3. ASSUME NEW t \in Consumers, PullWaits(t) \/ PullCall(t) PROVE count' <= count
  BY <1>1, <1>3 DEF Enter, PullWaits, PullCall, PullRefused, PullItem, PullEmpty, PullSleep
<1>4. ASSUME NEW t \in Managers, Drop(t) \/ DropIf(t) \/ Clear(t) PROVE count' <= count
  BY <1>1, <1>4 DEF Drop, DropIf, Clear, ClearRing, DropHead, PopHead
<1>5. ASSUME NEW t \in Closers, Close(t) \/ CloseFirst(t) PROVE count' <= count
  BY <1>1, <1>5 DEF Close, CloseFirst, CloseNotifyOutput, CloseNotifyInput, CloseClear, ClearRing
<1>6. ASSUME NEW t \in Threads, SpuriousWake(t) PROVE count' <= count
  BY <1>1, <1>6 DEF SpuriousWake
<1> QED BY <1>2, <1>3, <1>4, <1>5, <1>6 DEF Silent

LEMMA NotifyInvStep == NotifyInv /\ [NotifyNext]_notifyVars => NotifyInv'
<1> SUFFICES ASSUME NotifyInv, [NotifyNext]_notifyVars PROVE NotifyInv'
  OBVIOUS
<1>1. IInv /\ IInv' /\ count \in 0..S /\ count' \in 0..S
  <2>1. IInv /\ IInv'
    BY NotifyStepIsStep, TypeStep, RingStep, SectionStep, CallStep, CloseStep, AwakeStep DEF NotifyInv, IInv
  <2> QED BY <2>1 DEF IInv, TypeOK
<1> DEFINE FdOK == /\ backend \in Backends
                   /\ handle \in BOOLEAN
                   /\ pending \in IF backend = "eventfd" THEN {0, 1} ELSE 0..PipeCap
                   /\ ItemsAnnounced
<1> USE PipelineAssumption, NotifyAssumption
<1>2. FdOK
  BY DEF NotifyInv, NotifyTypeOK
<1>3. ASSUME UNCHANGED notifyVars PROVE FdOK'
  BY <1>2, <1>3 DEF notifyVars, vars, ring, fd, ItemsAnnounced
<1>4. ASSUME NEW t \in Producers, NotifyStore(t) PROVE FdOK'
  <2>1. CASE count # 0
    BY <1>2, <1>4, <2>1, <1>1 DEF NotifyStore, Store, PushStore, fd, ItemsAnnounced
  <2>2. CASE count = 0
    <3>1. Signal /\ backend' = backend
      BY <1>4, <2>2 DEF NotifyStore
    <3>2. CASE ~handle
      BY <1>2, <3>1, <3>2 DEF Signal, fd, ItemsAnnounced
    <3>3. CASE handle /\ backend = "eventfd"
      BY <1>2, <3>1, <3>3 DEF Signal, ItemsAnnounced
    <3>4. CASE handle /\ backend = "pipe"
      <4>1. pending \in 0..PipeCap /\ 0 \in 0..PipeCap
        BY <1>2, <3>4
      <4>2. \/ pending < PipeCap /\ pending' = pending + 1 /\ handle' = TRUE
            \/ pending' = 0 /\ handle' = FALSE
        BY <3>1, <3>4 DEF Signal, Release
      <4>3. pending' \in 0..PipeCap /\ backend' = "pipe" /\ backend' \in Backends
        BY <1>2, <3>1, <3>4, <4>1, <4>2
      <4>4. ItemsAnnounced'
        BY <4>1, <4>2 DEF ItemsAnnounced
      <4> QED BY <4>2, <4>3, <4>4
    <3> QED BY <1>2, <3>2, <3>3, <3>4
  <2> QED BY <2>1, <2>2
<1>5. ASSUME NEW t \in Consumers, NotifyTake(t) PROVE FdOK'
  <2>1. count' = count - 1
    BY <1>5 DEF NotifyTake, Take, PullTake, PopHead
  <2>2. Unread \in Nat /\ Unread <= pending
    BY <1>2 DEF Unread
  <2> QED BY <1>1, <1>2, <1>5, <2>1, <2>2 DEF NotifyTake, ClearHandle, Release, fd, ItemsAnnounced
<1>6. ASSUME Silent PROVE FdOK'
  BY <1>1, <1>2, <1>6, SilentCount DEF Silent, fd, ItemsAnnounced
<1>7. ASSUME PollInterrupted PROVE FdOK'
  <2>1. backend' = backend /\ handle' = FALSE /\ pending' = 0 /\ 0 \in 0..PipeCap
    BY <1>7 DEF PollInterrupted, Release
  <2> QED BY <1>2, <2>1 DEF ItemsAnnounced
<1> HIDE DEF FdOK
<1>8. FdOK'
  BY <1>3, <1>4, <1>5, <1>6, <1>7 DEF NotifyNext
<1> QED BY <1>1, <1>8 DEF FdOK, NotifyInv, NotifyTypeOK, IInv

LEMMA NotifyInvInit == NotifyInit => NotifyInv
<1>1. NotifyInit => IInv
  BY TypeInit, RingInit, SectionInit, CallInit, CloseInit, AwakeInit DEF NotifyInit, IInv
<1>2. NotifyInit => ItemsAnnounced /\ NotifyTypeOK
  BY <1>1, PipelineAssumption, NotifyAssumption DEF NotifyInit, Init, ItemsAnnounced, NotifyTypeOK, IInv
<1> QED BY <1>1, <1>2 DEF NotifyInv

\* A poller misses no item, whatever drops, clears and pulls go on beside it.
THEOREM ItemsAlwaysAnnounced == NotifySpec => []ItemsAnnounced
<1>1. NotifyInv => ItemsAnnounced
  BY DEF NotifyInv
<1> QED BY <1>1, NotifyInvInit, NotifyInvStep, PTL DEF NotifySpec

\* A pull() that empties the pipeline always finds something to read.
THEOREM HandleLostOnlyToErrors == NotifySpec => HandleLost
<1> DEFINE Loss == handle /\ ~handle' =>
                     \/ UNCHANGED vars
                     \/ count' = count + 1 /\ backend = "pipe" /\ pending = PipeCap
<1>1. ASSUME NotifyInv, [NotifyNext]_notifyVars PROVE Loss \/ UNCHANGED notifyVars
  <2>1. ASSUME NEW t \in Producers, NotifyStore(t) PROVE Loss
    BY <2>1 DEF NotifyStore, Store, PushStore, Signal, fd
  <2>2. ASSUME NEW t \in Consumers, NotifyTake(t) PROVE Loss
    <3>1. handle /\ count = 1 => pending > 0
      BY <1>1 DEF NotifyInv, ItemsAnnounced
    <3>2. pending > 0 => pending # 0
      OBVIOUS
    <3> QED BY <2>2, <3>1, <3>2 DEF NotifyTake, ClearHandle, fd
  <2>3. Silent => Loss
    BY DEF Silent, fd
  <2>4. PollInterrupted => Loss
    BY DEF PollInterrupted
  <2> HIDE DEF Loss
  <2> QED BY <1>1, <2>1, <2>2, <2>3, <2>4 DEF NotifyNext
<1> QED BY <1>1, NotifyInvInit, NotifyInvStep, PTL DEF NotifySpec, HandleLost
=============================================================================
