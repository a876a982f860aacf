---------------------------- MODULE ScopesProofs ----------------------------
(***************************************************************************)
(* Proofs about the classes that count what scopes hold: wait_group, a     *)
(* barrier, a semaphore and an event.                                      *)
(***************************************************************************)
EXTENDS WaitGroup, BarrierScope, Semaphores, FiniteSetTheorems, TLAPS

-----------------------------------------------------------------------------
(* wait_group, for any number of waiters and scopes and any width of the   *)
(* counter.                                                                *)

GroupInv == WGTypeOK /\ CountInv /\ NoSleeperAtZero /\ DestroyInv

\* What becomes of the units when one scope begins or ends.
LEMMA ScopeCounts ==
    ASSUME WGTypeOK, NEW s \in Scopes
    PROVE  /\ Cardinality(active) \in Nat
           /\ Cardinality(active) = 0 <=> active = {}
           /\ s \in active =>
                /\ Cardinality(active \ {s}) = Cardinality(active) - 1
                /\ Cardinality(active) > 0
           /\ s \notin active => Cardinality(active \cup {s}) = Cardinality(active) + 1
<1>1. IsFiniteSet(active)
  BY WaitGroupAssumption, FS_Subset DEF WGTypeOK
<1>2. Cardinality(active) \in Nat /\ (Cardinality(active) = 0 <=> active = {})
  BY <1>1, FS_CardinalityType, FS_EmptySet
<1>3. s \in active => Cardinality(active \ {s}) = Cardinality(active) - 1
  BY <1>1, FS_RemoveElement
<1>4. s \notin active => Cardinality(active \cup {s}) = Cardinality(active) + 1
  BY <1>1, FS_AddElement
<1> QED BY <1>2, <1>3, <1>4

LEMMA NoUnits == ASSUME WGTypeOK, CountInv, count = 0 PROVE active = {} /\ spare = 0
<1>1. IsFiniteSet(active)
  BY WaitGroupAssumption, FS_Subset DEF WGTypeOK
<1>2. Cardinality(active) \in Nat /\ (Cardinality(active) = 0 <=> active = {})
  BY <1>1, FS_CardinalityType, FS_EmptySet
<1> QED BY <1>2 DEF WGTypeOK, CountInv

\* A scope that takes another's pointer leaves as many of them.
LEMMA MoveCounts ==
    ASSUME WGTypeOK, NEW s \in Scopes, NEW r \in active, s # r
    PROVE  Cardinality((active \ {r}) \cup {s}) =
             IF s \in active THEN Cardinality(active) - 1 ELSE Cardinality(active)
<1>1. IsFiniteSet(active)
  BY WaitGroupAssumption, FS_Subset DEF WGTypeOK
<1>2. IsFiniteSet(active \ {r}) /\ Cardinality(active \ {r}) = Cardinality(active) - 1
  BY <1>1, FS_RemoveElement
<1>3. Cardinality(active) \in Nat
  BY <1>1, FS_CardinalityType
<1>4. CASE s \in active
  <2>1. (active \ {r}) \cup {s} = active \ {r}
    BY <1>4
  <2> QED BY <1>2, <1>4, <2>1
<1>5. CASE s \notin active
  <2>1. Cardinality((active \ {r}) \cup {s}) = Cardinality(active \ {r}) + 1
    BY <1>2, <1>5, FS_AddElement
  <2> QED BY <1>2, <1>3, <1>5, <2>1
<1> QED BY <1>4, <1>5

LEMMA GroupInit == WGInit => GroupInv
<1> SUFFICES ASSUME WGInit PROVE GroupInv
  OBVIOUS
<1>1. WGTypeOK
  BY WaitGroupAssumption DEF WGInit, WGTypeOK, Waits
<1>2. CountInv
  BY FS_EmptySet DEF WGInit, CountInv
<1>3. NoSleeperAtZero /\ DestroyInv
  BY WaitGroupAssumption DEF WGInit, NoSleeperAtZero, DestroyInv
<1> QED BY <1>1, <1>2, <1>3 DEF GroupInv

LEMMA TypeStep == GroupInv /\ [WGNext]_groupVars => WGTypeOK'
<1> SUFFICES ASSUME WGTypeOK, CountInv, [WGNext]_groupVars PROVE WGTypeOK'
  BY DEF GroupInv
<1> USE WaitGroupAssumption DEF WGTypeOK
<1>1. ASSUME NEW n \in 1..MaxCount, Add(n) PROVE WGTypeOK'
  <2>1. Cardinality(active) \in Nat
    BY FS_Subset, FS_CardinalityType
  <2>2. spare <= count
    BY <2>1 DEF CountInv
  <2>3. count' = count + n /\ spare' = spare + n
    BY <1>1 DEF Add
  <2> QED BY <1>1, <2>2, <2>3 DEF Add
<1>2. CASE Release
  BY <1>2 DEF Release, CountDown
<1>3. ASSUME NEW s \in Scopes, ScopeEnter(s) PROVE WGTypeOK'
  BY <1>3 DEF ScopeEnter
<1>4. ASSUME NEW s \in Scopes, ScopeExit(s) PROVE WGTypeOK'
  BY <1>4 DEF ScopeExit, CountDown
<1>5. ASSUME NEW s \in Scopes, NEW r \in Scopes, ScopeMove(s, r) PROVE WGTypeOK'
  BY <1>5 DEF ScopeMove, CountDown
<1>6. ASSUME NEW t \in Waiters, Wait(t) PROVE WGTypeOK'
  BY <1>6 DEF Wait, Sleep, Pass, Answer, Return, Waits
<1>7. ASSUME NEW t \in Waiters, Expire(t) \/ SpuriousWake(t) PROVE WGTypeOK'
  BY <1>7 DEF Expire, SpuriousWake, Waits
<1>8. ASSUME NEW t \in Waiters, NEW call \in {"wait", "wait_for"}, WaitCall(t, call)
      PROVE  WGTypeOK'
  BY <1>8 DEF WaitCall, Waits
<1>9. CASE Destroy
  BY <1>9 DEF Destroy, Waits
<1>10. CASE UNCHANGED groupVars
  BY <1>10 DEF groupVars
<1> QED
  BY <1>1, <1>2, <1>3, <1>4, <1>5, <1>6, <1>7, <1>8, <1>9, <1>10 DEF WGNext, Tasks

LEMMA CountStep == GroupInv /\ [WGNext]_groupVars => CountInv'
<1> SUFFICES ASSUME WGTypeOK, CountInv, [WGNext]_groupVars PROVE CountInv'
  BY DEF GroupInv
<1> USE WaitGroupAssumption DEF WGTypeOK, CountInv
<1>0. Cardinality(active) \in Nat
  BY FS_Subset, FS_CardinalityType
<1>1. ASSUME NEW n \in 1..MaxCount, Add(n) PROVE CountInv'
  <2>1. count' = count + n
    BY <1>1 DEF Add
  <2> QED BY <1>0, <1>1, <2>1 DEF Add
<1>2. CASE Release
  BY <1>0, <1>2 DEF Release, CountDown
<1>3. ASSUME NEW s \in Scopes, ScopeEnter(s) PROVE CountInv'
  BY <1>0, <1>3, ScopeCounts DEF ScopeEnter
<1>4. ASSUME NEW s \in Scopes, ScopeExit(s) PROVE CountInv'
  BY <1>0, <1>4, ScopeCounts DEF ScopeExit, CountDown
<1>5. ASSUME NEW s \in Scopes, NEW r \in Scopes, ScopeMove(s, r) PROVE CountInv'
  <2>1. Cardinality(active') = IF s \in active THEN Cardinality(active) - 1 ELSE Cardinality(active)
    BY <1>5, MoveCounts DEF ScopeMove
  <2>2. Cardinality(active) > 0
    BY <1>5, ScopeCounts DEF ScopeMove
  <2> QED BY <1>0, <1>5, <2>1, <2>2 DEF ScopeMove, CountDown
<1>6. ASSUME NEW t \in Waiters, Wait(t) PROVE CountInv'
  BY <1>6 DEF Wait, Sleep, Pass, Answer, Return
<1>7. ASSUME NEW t \in Waiters, Expire(t) \/ SpuriousWake(t) PROVE CountInv'
  BY <1>7 DEF Expire, SpuriousWake
<1>8. ASSUME NEW t \in Waiters, NEW call \in {"wait", "wait_for"}, WaitCall(t, call)
      PROVE  CountInv'
  BY <1>8 DEF WaitCall
<1>9. CASE Destroy
  BY <1>9 DEF Destroy
<1>10. CASE UNCHANGED groupVars
  BY <1>10 DEF groupVars
<1> QED
  BY <1>1, <1>2, <1>3, <1>4, <1>5, <1>6, <1>7, <1>8, <1>9, <1>10 DEF WGNext, Tasks

\* Only a count-down makes the count 0, and it wakes everybody.
LEMMA SleeperStep == GroupInv /\ [WGNext]_groupVars => NoSleeperAtZero'
<1> SUFFICES ASSUME WGTypeOK, NoSleeperAtZero, [WGNext]_groupVars PROVE NoSleeperAtZero'
  BY DEF GroupInv
<1> USE WaitGroupAssumption DEF WGTypeOK, NoSleeperAtZero
<1>1. ASSUME NEW n \in 1..MaxCount, Add(n) PROVE NoSleeperAtZero'
  <2>1. count' = count + n
    BY <1>1 DEF Add
  <2> QED BY <1>1, <2>1 DEF Add
<1>2. CountDown => NoSleeperAtZero'
  BY DEF CountDown
<1>3. CASE Release \/ \E s \in Scopes : ScopeExit(s)
  BY <1>2, <1>3 DEF Release, ScopeExit
<1>4. CASE \E s \in Scopes : ScopeEnter(s)
  BY <1>4 DEF ScopeEnter
<1>5. CASE \E s, r \in Scopes : ScopeMove(s, r)
  BY <1>2, <1>5 DEF ScopeMove
<1>6. ASSUME NEW t \in Waiters, Wait(t) PROVE NoSleeperAtZero'
  BY <1>6 DEF Wait, Sleep, Pass, Answer, Return
<1>7. ASSUME NEW t \in Waiters, Expire(t) \/ SpuriousWake(t) PROVE NoSleeperAtZero'
  BY <1>7 DEF Expire, SpuriousWake
<1>8. CASE Destroy \/ \E t \in Waiters, call \in {"wait", "wait_for"} : WaitCall(t, call)
  BY <1>8 DEF Destroy, WaitCall
<1>9. CASE UNCHANGED groupVars
  BY <1>9 DEF groupVars
<1> QED
  BY <1>1, <1>3, <1>4, <1>5, <1>6, <1>7, <1>8, <1>9 DEF WGNext, Tasks

LEMMA DestroyStep == GroupInv /\ [WGNext]_groupVars => DestroyInv'
<1> SUFFICES ASSUME GroupInv, [WGNext]_groupVars PROVE DestroyInv'
  OBVIOUS
<1> USE WaitGroupAssumption DEF GroupInv, WGTypeOK, DestroyInv
<1>1. ASSUME NEW n \in 1..MaxCount, Add(n) PROVE DestroyInv'
  BY <1>1 DEF Add, Usable
<1>2. CASE Release
  BY <1>2 DEF Release, Usable
<1>3. ASSUME NEW s \in Scopes, ScopeEnter(s) PROVE DestroyInv'
  BY <1>3 DEF ScopeEnter, Usable
<1>4. ASSUME NEW s \in Scopes, ScopeExit(s) PROVE DestroyInv'
  BY <1>4 DEF ScopeExit
<1>5. ASSUME NEW s \in Scopes, NEW r \in Scopes, ScopeMove(s, r) PROVE DestroyInv'
  BY <1>5 DEF ScopeMove
<1>6. ASSUME NEW t \in Waiters, Wait(t) PROVE DestroyInv'
  <2>1. CASE Sleep(t)
    BY <2>1 DEF Sleep, Awake, Waits
  <2>2. CASE Pass(t)
    <3>1. active = {} /\ spare = 0 /\ cond = {}
      BY <2>2, NoUnits DEF Pass, NoSleeperAtZero
    <3> QED BY <2>2, <3>1 DEF Pass, Return, Awake, Waits
  <2>3. CASE Answer(t)
    BY <2>3 DEF Answer, Return
  <2> QED BY <1>6, <2>1, <2>2, <2>3 DEF Wait
<1>7. ASSUME NEW t \in Waiters, Expire(t) \/ SpuriousWake(t) PROVE DestroyInv'
  BY <1>7 DEF Expire, SpuriousWake
<1>8. ASSUME NEW t \in Waiters, NEW call \in {"wait", "wait_for"}, WaitCall(t, call)
      PROVE  DestroyInv'
  BY <1>8 DEF WaitCall
<1>9. CASE Destroy
  BY <1>9 DEF Destroy
<1>10. CASE UNCHANGED groupVars
  BY <1>10 DEF groupVars
<1> QED
  BY <1>1, <1>2, <1>3, <1>4, <1>5, <1>6, <1>7, <1>8, <1>9, <1>10 DEF WGNext, Tasks

\* GroupInv is inductive.
THEOREM GroupInvariance == WGSpec => []GroupInv
<1>1. GroupInv /\ [WGNext]_groupVars => GroupInv'
  BY TypeStep, CountStep, SleeperStep, DestroyStep DEF GroupInv
<1> QED BY GroupInit, <1>1, PTL DEF WGSpec

\* The counter stays what the tasks owe (CountInv): group_scope counts down
\* once whatever is moved where.
THEOREM CountCorrect == WGSpec => []CountInv
<1> QED BY GroupInvariance, PTL DEF GroupInv

\* Nobody is left asleep at 0 (NoSleeperAtZero), so that release() wakes
\* everybody it has to.
THEOREM NobodyAsleepAtZero == WGSpec => []NoSleeperAtZero
<1> QED BY GroupInvariance, PTL DEF GroupInv

\* The destructor returns when every task has ended (DestroyInv).
THEOREM DestroyCorrect == WGSpec => []DestroyInv
<1> QED BY GroupInvariance, PTL DEF GroupInv

\* A wait that succeeds does so when no task is left (WaitMeansDone).
THEOREM WaitsMeanDone == WGSpec => WaitMeansDone
<1> DEFINE Done == \A t \in Waiters :
         pc[t] \in Inside /\ pc'[t] \notin Inside /\ answer'[t] => active = {} /\ spare = 0
<1>1. GroupInv /\ [WGNext]_groupVars => [Done]_groupVars
  <2> SUFFICES ASSUME GroupInv, WGNext, NEW u \in Waiters,
                      pc[u] \in Inside, pc'[u] \notin Inside, answer'[u]
               PROVE  active = {} /\ spare = 0
    BY DEF Done
  <2> USE WaitGroupAssumption DEF GroupInv, WGTypeOK
  <2>1. CASE Tasks
    BY <2>1 DEF Tasks, Add, Release, ScopeEnter, ScopeExit, ScopeMove
  <2>2. ASSUME NEW t \in Waiters, Wait(t) PROVE active = {} /\ spare = 0
    <3>1. count = 0
      BY <2>2 DEF Wait, Sleep, Pass, Answer, Return, Inside
    <3> QED BY <3>1, NoUnits
  <2>3. ASSUME NEW t \in Waiters, Expire(t) \/ SpuriousWake(t) PROVE active = {} /\ spare = 0
    BY <2>3 DEF Expire, SpuriousWake, Inside
  <2>4. ASSUME NEW t \in Waiters, NEW call \in {"wait", "wait_for"}, WaitCall(t, call)
        PROVE  active = {} /\ spare = 0
    BY <2>4 DEF WaitCall, Inside, Waits
  <2>5. CASE Destroy
    BY <2>5 DEF Destroy, Inside, Waits
  <2> QED BY <2>1, <2>2, <2>3, <2>4, <2>5 DEF WGNext
<1>2. WGSpec => [][Done]_groupVars
  BY GroupInvariance, <1>1, PTL DEF WGSpec
<1> QED BY <1>2 DEF WaitMeansDone, Done

-----------------------------------------------------------------------------
(* barrier_scope.  For any number of parties and scopes, a barrier waits   *)
(* for exactly the parties that take part and have not arrived.            *)
(* BarrierInv becomes inductive with two facts: who has arrived is asleep  *)
(* or has dropped out, and a party has one armed scope at most, so it      *)
(* cannot arrive twice.                                                    *)

USE BarrierAssumption

CameInv == came \subseteq blocked \cup retired

OneArmed == \A s, r \in Slots : Armed(s) /\ Armed(r) /\ Party[s] = Party[r] => s = r

BarrierIInv == BarrierInv /\ CameInv /\ OneArmed

\* All parties take part in the first phase.
LEMMA BarrierInitInvariant == BarrierInit => BarrierIInv
<1>1. Cardinality(Parties) \in Nat
  BY FS_CardinalityType
<1>2. Parties \ {} = Parties /\ Parties \ ({} \cup {}) = Parties
  OBVIOUS
<1> QED
  BY <1>1, <1>2 DEF BarrierInit, BarrierIInv, BarrierInv, BarrierTypeOK, CameInv, OneArmed,
                    Armed, Live, Gone

\* How many are left of a set of parties when one of them leaves it.
LEMMA OneLess ==
    ASSUME NEW S \in SUBSET Parties, NEW t \in Parties \ S
    PROVE  /\ Cardinality(Parties \ S) \in 1..Cardinality(Parties)
           /\ Cardinality(Parties \ (S \cup {t})) = Cardinality(Parties \ S) - 1
           /\ Cardinality(Parties) \in Nat
<1>1. IsFiniteSet(Parties \ S) /\ Cardinality(Parties \ S) \in Nat /\ Cardinality(Parties) \in Nat
  BY FS_Subset, FS_CardinalityType
<1>2. Cardinality(Parties \ S) <= Cardinality(Parties)
  BY FS_Subset
<1>3. Cardinality((Parties \ S) \ {t}) = Cardinality(Parties \ S) - 1
  BY <1>1, FS_RemoveElement
<1>4. Cardinality((Parties \ S) \ {t}) \in Nat
  BY <1>1, FS_RemoveElement, FS_CardinalityType
<1>5. Parties \ (S \cup {t}) = (Parties \ S) \ {t}
  OBVIOUS
<1> QED
  BY <1>1, <1>2, <1>3, <1>4, <1>5

\* What the barrier keeps of itself, apart from the scopes.
Kept ==
    /\ expected \in 0..Cardinality(Parties)
    /\ pending \in 0..Cardinality(Parties)
    /\ blocked \subseteq Parties
    /\ retired \subseteq Parties
    /\ came \subseteq Parties
    /\ expected = Cardinality(Parties \ retired)
    /\ pending = Cardinality(Parties \ (retired \cup came))
    /\ blocked \subseteq came
    /\ CameInv

\* An arrival counts one party, which had not arrived before, and the last
\* one begins a phase of those who still take part.
LEMMA ArrivalStep ==
    ASSUME Kept, NEW t \in Parties, t \notin blocked, t \notin retired,
           ArriveAndWait(t) \/ ArriveAndDrop(t)
    PROVE  /\ Kept'
           /\ blocked' \subseteq blocked \cup {t}
           /\ retired' \subseteq retired \cup {t}
<1>1. t \notin retired \cup came
  BY DEF Kept, CameInv
<1>2. /\ pending \in 1..Cardinality(Parties)
      /\ Cardinality(Parties \ ((retired \cup came) \cup {t})) = pending - 1
      /\ Cardinality(Parties) \in Nat
  BY <1>1, OneLess DEF Kept
<1>3. /\ expected \in 1..Cardinality(Parties)
      /\ Cardinality(Parties \ (retired \cup {t})) = expected - 1
  BY OneLess DEF Kept
<1>4. CASE ArriveAndWait(t)
  <2>1. retired' = retired /\ expected' = expected
    BY <1>4 DEF ArriveAndWait, Arrives
  <2>2. CASE pending = 1
    <3>1. pending' = expected /\ blocked' = {} /\ came' = {}
      BY <1>4, <2>2 DEF ArriveAndWait, Arrives
    <3>2. retired' \cup came' = retired
      BY <2>1, <3>1
    <3> QED
      BY <2>1, <3>1, <3>2 DEF Kept, CameInv
  <2>3. CASE pending # 1
    <3>1. pending' = pending - 1 /\ blocked' = blocked \cup {t} /\ came' = came \cup {t}
      BY <1>4, <2>3 DEF ArriveAndWait, Arrives
    <3>2. retired' \cup came' = (retired \cup came) \cup {t}
      BY <2>1, <3>1
    <3> QED
      BY <1>2, <2>1, <3>1, <3>2 DEF Kept, CameInv
  <2> QED
    BY <2>2, <2>3
<1>5. CASE ArriveAndDrop(t)
  <2>1. retired' = retired \cup {t} /\ expected' = expected - 1
    BY <1>5 DEF ArriveAndDrop, Arrives
  <2>2. /\ expected' = Cardinality(Parties \ retired')
        /\ expected' \in 0..Cardinality(Parties)
        /\ retired' \subseteq Parties
    <3>1. expected' = Cardinality(Parties \ retired')
      BY <1>3, <2>1
    <3>2. expected' \in 0..Cardinality(Parties)
      BY <1>2, <1>3, <2>1
    <3> QED
      BY <2>1, <3>1, <3>2 DEF Kept
  <2>3. CASE pending = 1
    <3>1. pending' = expected' /\ blocked' = {} /\ came' = {}
      BY <1>5, <2>1, <2>3 DEF ArriveAndDrop, Arrives
    <3>2. retired' \cup came' = retired'
      BY <3>1
    <3>3. pending' = Cardinality(Parties \ (retired' \cup came'))
      BY <2>2, <3>1, <3>2
    <3> QED
      BY <2>1, <2>2, <3>1, <3>3 DEF Kept, CameInv
  <2>4. CASE pending # 1
    <3>1. pending' = pending - 1 /\ blocked' = blocked /\ came' = came \cup {t}
      BY <1>5, <2>4 DEF ArriveAndDrop, Arrives
    <3>2. retired' \cup came' = (retired \cup came) \cup {t}
      BY <2>1, <3>1
    <3>3. pending' = Cardinality(Parties \ (retired' \cup came'))
      BY <1>2, <3>1, <3>2
    <3>4. pending' \in 0..Cardinality(Parties)
      BY <1>2, <3>1
    <3>5. came' \subseteq Parties /\ blocked' \subseteq came' /\ blocked' \subseteq Parties
      BY <3>1 DEF Kept
    <3>6. CameInv'
      BY <2>1, <3>1 DEF Kept, CameInv
    <3> QED
      BY <2>1, <2>2, <3>1, <3>3, <3>4, <3>5, <3>6 DEF Kept
  <2> QED
    BY <2>3, <2>4
<1> QED
  BY <1>4, <1>5

\* A step in which no new scope is armed, and one that has arrived is not any
\* more, keeps the invariant.
LEMMA ScopesKept ==
    ASSUME BarrierIInv, Kept', NEW t \in Parties,
           scope' \in [Slots -> Flags \cup {Gone}],
           blocked' \subseteq blocked \cup {t},
           retired' \subseteq retired \cup {t},
           \A s \in Slots : Armed(s)' =>
                \E r \in Slots : Armed(r) /\ Party[r] = Party[s] /\ "null" \notin scope'[s],
           \A s \in Slots : Armed(s)' /\ Party[s] = t => blocked' = blocked /\ retired' = retired,
           OneArmed'
    PROVE  BarrierIInv'
<1>1. ASSUME NEW s \in Slots, Armed(s)'
      PROVE  "null" \notin scope'[s] /\ Party[s] \notin blocked' \cup retired'
  <2>1. PICK r \in Slots : Armed(r) /\ Party[r] = Party[s] /\ "null" \notin scope'[s]
    BY <1>1
  <2>2. Party[s] \notin blocked \cup retired
    BY <2>1 DEF BarrierIInv, BarrierInv
  <2> QED
    BY <1>1, <2>1, <2>2
<1> QED
  BY <1>1 DEF BarrierIInv, BarrierInv, BarrierTypeOK, Kept

LEMMA BarrierKept == BarrierIInv => Kept
BY DEF BarrierIInv, BarrierInv, BarrierTypeOK, Kept

\* A new scope is armed when no other of its party is.
LEMMA EnterStep ==
    ASSUME BarrierIInv, NEW s \in Slots, EnterScope(s)
    PROVE  BarrierIInv'
<1>1. /\ scope' = [scope EXCEPT ![s] = {}]
      /\ UNCHANGED <<expected, pending, blocked, retired, came>>
      /\ Party[s] \notin blocked \cup retired
      /\ \A r \in Slots : Party[r] = Party[s] => ~Armed(r)
  BY DEF EnterScope, Barrier, Free
<1>2. scope \in [Slots -> Flags \cup {Gone}]
  BY DEF BarrierIInv, BarrierInv, BarrierTypeOK
<1>3. scope' \in [Slots -> Flags \cup {Gone}] /\ scope'[s] = {}
  BY <1>1, <1>2 DEF Flags
<1>4. \A r \in Slots : r # s => (Armed(r)' <=> Armed(r)) /\ scope'[r] = scope[r]
  BY <1>1, <1>2 DEF Armed, Live
<1>5. Kept'
  BY <1>1, BarrierKept DEF Kept, CameInv
<1>6. OneArmed'
  BY <1>1, <1>4 DEF BarrierIInv, OneArmed
<1>7. ASSUME NEW r \in Slots, Armed(r)'
      PROVE  "null" \notin scope'[r] /\ Party[r] \notin blocked' \cup retired'
  BY <1>1, <1>3, <1>4, <1>7 DEF BarrierIInv, BarrierInv
<1> QED
  BY <1>3, <1>5, <1>6, <1>7 DEF BarrierIInv, BarrierInv, BarrierTypeOK, Kept

\* The end of a scope, a wait and a drop: the scope arrives and is spent.
LEMMA SpentStep ==
    ASSUME BarrierIInv, NEW s \in Slots, WaitAtBarrier(s) \/ DropOut(s) \/ ScopeOver(s)
    PROVE  BarrierIInv'
<1>1. /\ Party[s] \in Parties
      /\ Party[s] \notin blocked
      /\ scope \in [Slots -> Flags \cup {Gone}]
  BY DEF WaitAtBarrier, DropOut, ScopeOver, Free, BarrierIInv, BarrierInv, BarrierTypeOK
<1>2. /\ scope' \in [Slots -> Flags \cup {Gone}]
      /\ \A r \in Slots : r # s => scope'[r] = scope[r]
      /\ ~Armed(s)'
  <2>1. CASE WaitAtBarrier(s)
    <3>1. scope[s] \in Flags
      BY <1>1, <2>1 DEF WaitAtBarrier, Armed, Live
    <3> QED
      BY <1>1, <2>1, <3>1 DEF WaitAtBarrier, Flags, Armed
  <2>2. CASE DropOut(s)
    <3>1. scope[s] \in Flags
      BY <1>1, <2>2 DEF DropOut, Armed, Live
    <3> QED
      BY <1>1, <2>2, <3>1 DEF DropOut, Flags, Armed
  <2>3. CASE ScopeOver(s)
    BY <1>1, <2>3 DEF ScopeOver, Armed, Live
  <2> QED
    BY <2>1, <2>2, <2>3
<1>3. \A r \in Slots : Armed(r)' => r # s /\ Armed(r)
  BY <1>2 DEF Armed, Live
<1>4. OneArmed'
  BY <1>3 DEF BarrierIInv, OneArmed
<1>5. ASSUME NEW r \in Slots, Armed(r)'
      PROVE  Armed(r) /\ "null" \notin scope'[r]
  BY <1>2, <1>3, <1>5 DEF BarrierIInv, BarrierInv
<1>6. CASE Armed(s)
  <2>1. ArriveAndWait(Party[s]) \/ ArriveAndDrop(Party[s])
    BY <1>6 DEF WaitAtBarrier, DropOut, ScopeOver
  <2>2. Party[s] \notin retired
    BY <1>6 DEF BarrierIInv, BarrierInv
  <2>3. /\ Kept'
        /\ blocked' \subseteq blocked \cup {Party[s]}
        /\ retired' \subseteq retired \cup {Party[s]}
    BY <1>1, <2>1, <2>2, BarrierKept, ArrivalStep
  <2>4. \A r \in Slots : Armed(r)' => Party[r] # Party[s]
    BY <1>3, <1>6 DEF BarrierIInv, OneArmed
  <2> QED
    BY <1>1, <1>2, <1>4, <1>5, <2>3, <2>4, ScopesKept
<1>7. CASE ~Armed(s)
  <2>1. UNCHANGED <<expected, pending, blocked, retired, came>>
    BY <1>7 DEF WaitAtBarrier, DropOut, ScopeOver, Barrier
  <2>2. Kept'
    BY <2>1, BarrierKept DEF Kept, CameInv
  <2> QED
    BY <1>1, <1>2, <1>4, <1>5, <2>1, <2>2, ScopesKept
<1> QED
  BY <1>6, <1>7

\* A scope that is moved is armed where it has come to, and only there; the
\* one it is assigned over drops out if it was armed, and then this one is
\* not.
LEMMA MovedStep ==
    ASSUME BarrierIInv, NEW s \in Slots, NEW r \in Slots,
           ScopeMoved(s, r) \/ ScopeAssigned(s, r)
    PROVE  BarrierIInv'
<1>1. /\ Party[s] \in Parties
      /\ Party[s] \notin blocked
      /\ s # r
      /\ Party[s] = Party[r]
      /\ scope \in [Slots -> Flags \cup {Gone}]
      /\ scope' = [scope EXCEPT ![s] = scope[r], ![r] = MovedFrom]
  BY DEF ScopeMoved, ScopeAssigned, SameParty, Free, BarrierIInv, BarrierInv, BarrierTypeOK
<1>2. /\ scope' \in [Slots -> Flags \cup {Gone}]
      /\ scope'[s] = scope[r]
      /\ scope'[r] = MovedFrom
      /\ \A q \in Slots : q \notin {s, r} => scope'[q] = scope[q]
  BY <1>1 DEF MovedFrom, Flags
<1>3. /\ ~Armed(r)'
      /\ Armed(s)' <=> Armed(r)
      /\ \A q \in Slots : q \notin {s, r} => (Armed(q)' <=> Armed(q))
  BY <1>2 DEF Armed, Live, MovedFrom
<1>4. OneArmed'
  BY <1>1, <1>3 DEF BarrierIInv, OneArmed
<1>5. ASSUME NEW q \in Slots, Armed(q)'
      PROVE  \E p \in Slots : Armed(p) /\ Party[p] = Party[q] /\ "null" \notin scope'[q]
  <2>1. CASE q = s
    BY <1>1, <1>2, <1>3, <1>5, <2>1 DEF BarrierIInv, BarrierInv
  <2>2. CASE q # s
    BY <1>2, <1>3, <1>5, <2>2 DEF BarrierIInv, BarrierInv
  <2> QED
    BY <2>1, <2>2
<1>6. CASE ScopeAssigned(s, r) /\ Armed(s)
  <2>1. ArriveAndDrop(Party[s]) /\ Party[s] \notin retired
    BY <1>6 DEF ScopeAssigned, BarrierIInv, BarrierInv
  <2>2. /\ Kept'
        /\ blocked' \subseteq blocked \cup {Party[s]}
        /\ retired' \subseteq retired \cup {Party[s]}
    BY <1>1, <2>1, BarrierKept, ArrivalStep
  <2>3. \A q \in Slots : Armed(q)' => Party[q] # Party[s]
    BY <1>1, <1>3, <1>6 DEF BarrierIInv, OneArmed
  <2> QED
    BY <1>1, <1>2, <1>4, <1>5, <2>2, <2>3, ScopesKept
<1>7. CASE ~(ScopeAssigned(s, r) /\ Armed(s))
  <2>1. UNCHANGED <<expected, pending, blocked, retired, came>>
    BY <1>7 DEF ScopeMoved, ScopeAssigned, Barrier
  <2>2. Kept'
    BY <2>1, BarrierKept DEF Kept, CameInv
  <2> QED
    BY <1>1, <1>2, <1>4, <1>5, <2>1, <2>2, ScopesKept
<1> QED
  BY <1>6, <1>7

\* BarrierCorrect: for any number of parties, and any number of scopes that
\* each moves about, every party that takes part is waited for once a phase.
THEOREM BarrierCorrect == BarrierSpec => []BarrierInv
<1>1. ASSUME BarrierIInv, [BarrierNext]_barrierVars
      PROVE  BarrierIInv'
  <2>1. CASE BarrierNext
    BY <1>1, <2>1, EnterStep, SpentStep, MovedStep DEF BarrierNext, Enters
  <2>2. CASE UNCHANGED barrierVars
    BY <1>1, <2>2 DEF barrierVars, BarrierIInv, BarrierInv, BarrierTypeOK, CameInv, OneArmed,
                      Armed, Live
  <2> QED
    BY <1>1, <2>1, <2>2
<1>2. BarrierIInv => BarrierInv
  BY DEF BarrierIInv
<1> QED
  BY BarrierInitInvariant, <1>1, <1>2, PTL DEF BarrierSpec

-----------------------------------------------------------------------------
(* semaphore_scope and event.  For any number of permits, threads and      *)
(* scopes, no permit of a semaphore is lost or made by moving, assigning   *)
(* and ending semaphore_scopes, and no signal of an event is heard twice.  *)
(* PermitInv is inductive.                                                 *)

USE SemaphoresAssumption

Holders == {v \in Vars : Holds(v)}

\* Nothing is taken and nothing sent when the program begins.
LEMMA SemaphoresInitInvariant == SemaphoresInit => PermitInv
<1>1. ASSUME SemaphoresInit PROVE {v \in Vars : Holds(v)} = {}
  BY <1>1 DEF SemaphoresInit, Holds
<1>2. ASSUME SemaphoresInit PROVE Cardinality({v \in Vars : Holds(v)}) = 0
  BY <1>1, <1>2, FS_EmptySet
<1> QED
  BY <1>2 DEF SemaphoresInit, PermitInv, SemaphoresTypeOK

LEMMA HoldersFinite ==
    /\ IsFiniteSet(Holders)
    /\ Cardinality(Holders) \in Nat
    /\ \A v \in Holders : Cardinality(Holders \ {v}) = Cardinality(Holders) - 1
    /\ \A v \in Vars \ Holders : Cardinality(Holders \cup {v}) = Cardinality(Holders) + 1
<1>1. IsFiniteSet(Holders)
  BY FS_Subset DEF Holders
<1> QED
  BY <1>1, FS_CardinalityType, FS_AddElement, FS_RemoveElement

\* A scope that takes another's permit leaves as many of them as there were.
LEMMA HolderMoved ==
    ASSUME NEW v \in Vars \ Holders, NEW w \in Holders
    PROVE  Cardinality((Holders \ {w}) \cup {v}) = Cardinality(Holders)
<1>1. IsFiniteSet(Holders \ {w}) /\ Cardinality(Holders \ {w}) = Cardinality(Holders) - 1
  BY HoldersFinite, FS_RemoveElement
<1>2. v \notin Holders \ {w}
  OBVIOUS
<1>3. Cardinality((Holders \ {w}) \cup {v}) = Cardinality(Holders \ {w}) + 1
  BY <1>1, <1>2, FS_AddElement
<1> QED
  BY <1>1, <1>3, HoldersFinite

\* Each step of a scope takes the permits it gives from the free ones, and
\* gives back those it takes away.
LEMMA ScopesStep ==
    ASSUME PermitInv, ScopesNext
    PROVE  PermitInv'
<1>1. /\ SemaphoresTypeOK
      /\ free + Cardinality(Holders) = Permits
      /\ free \in Nat
  BY DEF PermitInv, SemaphoresTypeOK, Holders
<1>2. UNCHANGED <<bin, listener, sent, heard>>
  BY DEF ScopesNext, Acquire, Acquired, SemScopeEnds, SemScopeMoved, SemScopeAssigned, eventVars
<1>3. SUFFICES /\ free' \in Nat
               /\ permit' \in [Vars -> {"none", "wants", "has", "moved"}]
               /\ free' + Cardinality(Holders') = Permits
               /\ Cardinality(Holders') \in Nat
  BY <1>1, <1>2 DEF PermitInv, SemaphoresTypeOK, Holders
<1>4. ASSUME NEW v \in Vars, Acquire(v) PROVE <1>3!1
  <2>1. Holders' = Holders /\ free' = free
    BY <1>1, <1>4 DEF Acquire, Holders, Holds, SemaphoresTypeOK
  <2> QED
    BY <1>1, <1>4, <2>1, HoldersFinite DEF Acquire, SemaphoresTypeOK
<1>5. ASSUME NEW v \in Vars, Acquired(v) PROVE <1>3!1
  <2>1. Holders' = Holders \cup {v} /\ v \notin Holders /\ free' = free - 1 /\ free > 0
    BY <1>1, <1>5 DEF Acquired, Holders, Holds, SemaphoresTypeOK
  <2>2. permit' \in [Vars -> {"none", "wants", "has", "moved"}]
    BY <1>1, <1>5 DEF Acquired, SemaphoresTypeOK
  <2> QED
    BY <1>1, <2>1, <2>2, HoldersFinite
<1>6. ASSUME NEW v \in Vars, SemScopeEnds(v) PROVE <1>3!1
  <2>1. Holders' = Holders \ {v} /\ free' = IF v \in Holders THEN free + 1 ELSE free
    BY <1>1, <1>6 DEF SemScopeEnds, Released, Holders, Holds, SemaphoresTypeOK
  <2>2. permit' \in [Vars -> {"none", "wants", "has", "moved"}]
    BY <1>1, <1>6 DEF SemScopeEnds, SemaphoresTypeOK
  <2>3. CASE v \in Holders
    <3>1. Cardinality(Holders') = Cardinality(Holders) - 1 /\ free' = free + 1
      BY <2>1, <2>3, HoldersFinite
    <3>2. Cardinality(Holders') \in Nat
      BY <2>1, HoldersFinite, FS_RemoveElement, FS_CardinalityType
    <3> QED
      BY <1>1, <2>2, <3>1, <3>2, HoldersFinite
  <2>4. CASE v \notin Holders
    <3>1. Holders' = Holders /\ free' = free
      BY <2>1, <2>4
    <3> QED
      BY <1>1, <2>2, <3>1, HoldersFinite
  <2> QED
    BY <2>3, <2>4
<1>7. ASSUME NEW v \in Vars, NEW w \in Vars, SemScopeMoved(v, w) PROVE <1>3!1
  <2>1. /\ v \notin Holders
        /\ Holders' = IF w \in Holders THEN (Holders \ {w}) \cup {v} ELSE Holders
        /\ free' = free
    BY <1>1, <1>7 DEF SemScopeMoved, Between, Holders, Holds, SemaphoresTypeOK
  <2>2. permit' \in [Vars -> {"none", "wants", "has", "moved"}]
    BY <1>1, <1>7 DEF SemScopeMoved, Between, SemaphoresTypeOK
  <2> QED
    BY <1>1, <2>1, <2>2, HolderMoved, HoldersFinite
<1>8. ASSUME NEW v \in Vars, NEW w \in Vars, SemScopeAssigned(v, w) PROVE <1>3!1
  <2>1. /\ Holders' = IF w \in Holders THEN (Holders \ {w}) \cup {v} ELSE Holders \ {v}
        /\ free' = IF v \in Holders THEN free + 1 ELSE free
        /\ v # w
    BY <1>1, <1>8 DEF SemScopeAssigned, Between, Released, Holders, Holds, SemaphoresTypeOK
  <2>2. permit' \in [Vars -> {"none", "wants", "has", "moved"}]
    BY <1>1, <1>8 DEF SemScopeAssigned, Between, SemaphoresTypeOK
  <2>3. CASE v \in Holders
    <3>1. Holders' = IF w \in Holders THEN Holders \ {w} ELSE Holders \ {v}
      BY <2>1, <2>3
    <3>2. Cardinality(Holders') = Cardinality(Holders) - 1 /\ free' = free + 1
      BY <2>1, <2>3, <3>1, HoldersFinite
    <3>3. Cardinality(Holders') \in Nat
      BY <3>1, HoldersFinite, FS_RemoveElement, FS_CardinalityType
    <3> QED
      BY <1>1, <2>2, <3>2, <3>3, HoldersFinite
  <2>4. CASE v \notin Holders
    <3>1. Holders \ {v} = Holders
      BY <2>4
    <3> QED
      BY <1>1, <2>1, <2>2, <2>4, <3>1, HolderMoved, HoldersFinite
  <2> QED
    BY <2>3, <2>4
<1> QED
  BY <1>4, <1>5, <1>6, <1>7, <1>8 DEF ScopesNext

\* A signal is taken by the wait that hears it.
LEMMA EventStep ==
    ASSUME PermitInv, EventNext
    PROVE  PermitInv'
<1>1. UNCHANGED <<free, permit>>
  BY DEF EventNext, Signal, Hear, Heard, TimeOut, TryWait, Listen, scopeVars
<1>2. {v \in Vars : Holds(v)}' = {v \in Vars : Holds(v)}
  BY <1>1 DEF Holds
<1>3. Cardinality({v \in Vars : Holds(v)})' = Cardinality({v \in Vars : Holds(v)})
  BY <1>2
<1>4. CASE Signal
  BY <1>1, <1>3, <1>4 DEF PermitInv, SemaphoresTypeOK, Signal
<1>5. ASSUME NEW t \in Users, Hear(t) \/ TryWait(t) PROVE PermitInv'
  BY <1>1, <1>3, <1>5 DEF PermitInv, SemaphoresTypeOK, Hear, TryWait, Heard
<1>6. ASSUME NEW t \in Users, TimeOut(t) PROVE PermitInv'
  BY <1>1, <1>3, <1>6 DEF PermitInv, SemaphoresTypeOK, TimeOut
<1>7. ASSUME NEW t \in Users, NEW call \in {"wait", "wait_for"}, Listen(t, call)
      PROVE  PermitInv'
  BY <1>1, <1>3, <1>7 DEF PermitInv, SemaphoresTypeOK, Listen
<1> QED
  BY <1>4, <1>5, <1>6, <1>7 DEF EventNext

\* PermitsCorrect: for any positive number of permits and any number of threads
\* and scopes, what is free and what scopes have add up to the permits there
\* are (semaphore_scope); and what was heard and what still waits are no more
\* signals than were sent, nor none once one was (event).
THEOREM PermitsCorrect == SemaphoresSpec => []PermitInv
<1>1. ASSUME PermitInv, [SemaphoresNext]_semaphoreVars
      PROVE  PermitInv'
  <2>1. CASE UNCHANGED semaphoreVars
    <3>1. Cardinality({v \in Vars : Holds(v)})' = Cardinality({v \in Vars : Holds(v)})
      BY <2>1 DEF semaphoreVars, Holds
    <3> QED
      BY <1>1, <2>1, <3>1 DEF semaphoreVars, PermitInv, SemaphoresTypeOK
  <2> QED
    BY <1>1, <2>1, ScopesStep, EventStep DEF SemaphoresNext
<1> QED
  BY SemaphoresInitInvariant, <1>1, PTL DEF SemaphoresSpec
=============================================================================
