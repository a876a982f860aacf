--------------------------- MODULE AtomicProofs -----------------------------
(***************************************************************************)
(* For any number of threads, keys, nodes and lists: while remove() and    *)
(* clear() are called alone, the lists of the dictionary stay well formed  *)
(* and nothing in them is lost, missed or miscounted.  And for any number  *)
(* of callers, whatever puts and takes are under way at once, no put of    *)
(* stack_t or buffer_t writes outside its array, and the counter of a      *)
(* stack comes back to what the stack holds.                               *)
(***************************************************************************)
EXTENDS Dictionary, Containers, FiniteSetTheorems, TLAPS

-----------------------------------------------------------------------------
(* Facts about pointers followed, whatever the nodes hold.                 *)

Heap(heap) == \A n \in Nodes : heap[n].next \in Pointer

\* A pointer reaches itself, and what it reaches can be followed.
LEMMA ReachedFollows ==
    ASSUME NEW heap, Heap(heap), NEW p \in Pointer
    PROVE  /\ p \in Reached(heap, p)
           /\ Reached(heap, p) \subseteq Pointer
           /\ Follows(heap, Reached(heap, p))
BY DEF Reached, Follows, Heap, Pointer

\* It reaches no more than a set that has it and can be followed.
LEMMA ReachedLeast ==
    ASSUME NEW heap, NEW p, NEW C, C \subseteq Pointer, p \in C, Follows(heap, C)
    PROVE  Reached(heap, p) \subseteq C
BY DEF Reached

\* What a pointer reaches reaches no more than the pointer does.
LEMMA ReachedOnward ==
    ASSUME NEW heap, Heap(heap), NEW p \in Pointer, NEW q \in Reached(heap, p)
    PROVE  Reached(heap, q) \subseteq Reached(heap, p)
BY ReachedFollows, ReachedLeast

LEMMA NullReached ==
    ASSUME NEW heap
    PROVE  Reached(heap, Null) = {Null}
<1>1. Null \in Pointer
  BY DEF Pointer
<1>2. Follows(heap, {Null})
  BY DEF Follows
<1>3. Reached(heap, Null) \subseteq {Null}
  BY <1>1, <1>2, ReachedLeast
<1> QED
  BY <1>1, <1>3 DEF Reached

\* A node reaches itself and what its next reaches.
LEMMA NodeReached ==
    ASSUME NEW heap, Heap(heap), NEW n \in Nodes
    PROVE  Reached(heap, n) = {n} \cup Reached(heap, heap[n].next)
<1> DEFINE C == {n} \cup Reached(heap, heap[n].next)
<1>1. heap[n].next \in Pointer /\ n \in Pointer /\ n # Null
  BY DictionaryAssumption DEF Heap, Pointer
<1>2. Follows(heap, C) /\ C \subseteq Pointer
  BY <1>1, ReachedFollows DEF Follows
<1>3. Reached(heap, n) \subseteq C
  BY <1>2, ReachedLeast
<1>4. n \in Reached(heap, n) /\ heap[n].next \in Reached(heap, n)
  BY <1>1, ReachedFollows DEF Follows
<1> QED
  BY <1>3, <1>4, <1>1, ReachedOnward

\* A list that ends does not come back to a node.
LEMMA NoReturn ==
    ASSUME NEW heap, Heap(heap), NEW n \in Nodes, Null \in Reached(heap, n)
    PROVE  n \notin Reached(heap, heap[n].next)
<1> SUFFICES ASSUME n \in Reached(heap, heap[n].next)
             PROVE  FALSE
  OBVIOUS
<1> DEFINE C == {q \in Reached(heap, n) : n \in Reached(heap, q)}
<1>1. n \in Pointer /\ Reached(heap, n) \subseteq Pointer /\ n \in C
  BY ReachedFollows DEF Pointer
<1>2. ASSUME NEW q \in C \ {Null}
      PROVE  heap[q].next \in C
  <2>1. q \in Nodes /\ heap[q].next \in Reached(heap, n)
    BY <1>1, <1>2, ReachedFollows DEF Follows, Pointer
  <2>2. n \in Reached(heap, heap[q].next)
    BY <2>1, <1>2, NodeReached
  <2> QED
    BY <2>1, <2>2
<1>3. Null \in C
  <2>1. C \subseteq Pointer /\ Follows(heap, C)
    BY <1>1, <1>2 DEF Follows
  <2>2. Reached(heap, n) \subseteq C
    <3> HIDE DEF C
    <3> QED
      BY <1>1, <2>1, ReachedLeast
  <2> QED
    BY <2>2
<1> QED
  BY <1>3, NullReached, DictionaryAssumption

\* Of two pointers that one pointer reaches, one reaches the other.
LEMMA ReachedInOrder ==
    ASSUME NEW heap, Heap(heap), NEW p \in Pointer,
           NEW q \in Reached(heap, p), NEW r \in Reached(heap, p)
    PROVE  q \in Reached(heap, r) \/ r \in Reached(heap, q)
<1> DEFINE C == {x \in Reached(heap, p) : x \in Reached(heap, q) \/ q \in Reached(heap, x)}
<1>1. /\ Reached(heap, p) \subseteq Pointer
      /\ p \in Reached(heap, p)
      /\ Follows(heap, Reached(heap, p))
      /\ Follows(heap, Reached(heap, q))
      /\ q \in Reached(heap, q)
  BY ReachedFollows
<1>2. ASSUME NEW x \in C \ {Null}
      PROVE  heap[x].next \in C
  <2>1. x \in Nodes /\ heap[x].next \in Reached(heap, p)
    BY <1>1 DEF Follows, Pointer
  <2>2. CASE x \in Reached(heap, q)
    BY <1>1, <2>1, <2>2 DEF Follows
  <2>3. CASE q \in Reached(heap, x)
    BY <1>1, <2>1, <2>3, NodeReached DEF Follows
  <2> QED
    BY <2>2, <2>3
<1>3. Follows(heap, C)
  BY <1>2 DEF Follows
<1>4. Reached(heap, p) \subseteq C
  BY <1>1, <1>3, ReachedLeast
<1> QED
  BY <1>4

\* What a list that ends reaches ends.
LEMMA EndsOnward ==
    ASSUME NEW heap, Heap(heap), NEW p \in Pointer, Null \in Reached(heap, p),
           NEW q \in Reached(heap, p)
    PROVE  Null \in Reached(heap, q)
<1>1. Null \in Reached(heap, q) \/ q \in Reached(heap, Null)
  BY ReachedInOrder
<1> QED
  BY <1>1, NullReached

\* A change to a node that is not reached changes nothing that is.
LEMMA ReachedKept ==
    ASSUME NEW heap, Heap(heap), NEW other, NEW p \in Pointer,
           \A n \in Reached(heap, p) \ {Null} : other[n].next = heap[n].next
    PROVE  Reached(other, p) = Reached(heap, p)
<1>1. /\ p \in Reached(heap, p)
      /\ Reached(heap, p) \subseteq Pointer
      /\ Follows(heap, Reached(heap, p))
  BY ReachedFollows
<1>2. Reached(other, p) \subseteq Reached(heap, p)
  BY <1>1, ReachedLeast DEF Follows
<1>3. ASSUME NEW C \in SUBSET Pointer, p \in C, Follows(other, C)
      PROVE  Reached(heap, p) \subseteq C
  <2>1. Follows(heap, C \cap Reached(heap, p))
    BY <1>1, <1>3 DEF Follows
  <2> QED
    BY <1>1, <1>3, <2>1, ReachedLeast
<1> QED
  BY <1>1, <1>2, <1>3 DEF Reached

\* Only one node of a list that ends comes before a node.
LEMMA OneBefore ==
    ASSUME NEW heap, Heap(heap), NEW p \in Pointer, Null \in Reached(heap, p),
           NEW n \in Nodes,
           NEW q \in Reached(heap, p) \ {Null}, NEW r \in Reached(heap, p) \ {Null},
           heap[q].next = n, heap[r].next = n
    PROVE  q = r
<1> SUFFICES ASSUME NEW x \in Reached(heap, p) \ {Null}, NEW y \in Reached(heap, p) \ {Null},
                    heap[x].next = n, heap[y].next = n, x # y, y \in Reached(heap, x)
             PROVE  FALSE
  BY ReachedInOrder
<1>1. x \in Nodes /\ y \in Nodes /\ n \in Reached(heap, p)
  BY ReachedFollows DEF Follows, Pointer
<1>2. y \in Reached(heap, n)
  BY <1>1, NodeReached
<1>3. y # n
  <2> SUFFICES ASSUME y = n PROVE FALSE
    OBVIOUS
  <2>1. n \in Reached(heap, heap[n].next)
    BY <1>1, NodeReached
  <2> QED
    BY <1>1, <2>1, EndsOnward, NoReturn
<1>4. y \in Reached(heap, heap[n].next)
  BY <1>2, <1>3, NodeReached
<1>5. n \in Reached(heap, heap[n].next)
  BY <1>4, <1>1, ReachedFollows DEF Heap, Follows
<1> QED
  BY <1>1, <1>5, EndsOnward, NoReturn

\* A node whose predecessor skips it is the only one that is not reached any
\* more.
LEMMA ReachedPast ==
    ASSUME NEW heap, Heap(heap), NEW p \in Pointer, Null \in Reached(heap, p),
           NEW q \in Reached(heap, p) \ {Null}, NEW n \in Nodes, heap[q].next = n,
           NEW other, Heap(other), other[q].next = heap[n].next,
           \A m \in Nodes \ {q} : other[m].next = heap[m].next
    PROVE  Reached(other, p) = Reached(heap, p) \ {n}
<1> DEFINE D == Reached(heap, p) \ {n}
           C == Reached(other, p) \cup {n}
<1>1. /\ q \in Nodes /\ n \in Pointer /\ n # Null /\ q # Null
      /\ Reached(heap, p) \subseteq Pointer
      /\ Follows(heap, Reached(heap, p))
      /\ p \in Reached(heap, p)
      /\ n \in Reached(heap, p)
  BY ReachedFollows, DictionaryAssumption DEF Follows, Pointer
<1>2. Null \in Reached(heap, n) /\ n \notin Reached(heap, heap[n].next)
  BY <1>1, EndsOnward, NoReturn
<1>3. heap[n].next # n /\ q # n
  BY <1>2, ReachedFollows DEF Heap
<1>4. p # n
  <2> SUFFICES ASSUME p = n PROVE FALSE
    OBVIOUS
  <2>1. q \in Reached(heap, heap[n].next)
    BY <1>1, <1>3, NodeReached
  <2>2. n \in Reached(heap, heap[n].next)
    BY <1>1, <2>1, ReachedFollows DEF Heap, Follows
  <2> QED
    BY <1>2, <2>2
<1>5. Follows(other, D)
  <2> SUFFICES ASSUME NEW m \in D \ {Null} PROVE other[m].next \in D
    BY DEF Follows
  <2>1. m \in Nodes /\ heap[m].next \in Reached(heap, p)
    BY <1>1 DEF Follows, Pointer
  <2>2. CASE m = q
    BY <1>1, <1>3, <2>2 DEF Follows
  <2>3. CASE m # q
    BY <2>1, <2>3, OneBefore
  <2> QED
    BY <2>2, <2>3
<1>6. Reached(other, p) \subseteq D
  BY <1>1, <1>4, <1>5, ReachedLeast
<1>7. /\ p \in Reached(other, p)
      /\ Reached(other, p) \subseteq Pointer
      /\ Follows(other, Reached(other, p))
  BY ReachedFollows
<1>8. q \in Reached(other, p)
  <2> SUFFICES ASSUME q \notin Reached(other, p) PROVE FALSE
    OBVIOUS
  <2>1. Follows(heap, Reached(other, p))
    BY <1>7 DEF Follows, Pointer
  <2> QED
    BY <1>7, <2>1, ReachedLeast
<1>9. Follows(heap, C)
  <2> SUFFICES ASSUME NEW m \in C \ {Null} PROVE heap[m].next \in C
    BY DEF Follows
  <2>1. CASE m = n
    BY <1>1, <1>7, <1>8, <2>1 DEF Follows
  <2>2. CASE m = q
    BY <2>2
  <2>3. CASE m # n /\ m # q
    BY <1>7, <2>3 DEF Follows, Pointer
  <2> QED
    BY <2>1, <2>2, <2>3
<1>10. Reached(heap, p) \subseteq C
  BY <1>1, <1>7, <1>9, ReachedLeast
<1> QED
  BY <1>6, <1>10

-----------------------------------------------------------------------------
(* The inductive invariant.                                                *)

Inserters == {"insert", "insert_or_assign", "try_emplace"}

\* Where a thread is in its call, and with what.
CallInv(t) ==
    /\ pc[t] = "idle" <=> my[t].op = "none"
    /\ pc[t] # "idle" => my[t].op \in Ops /\ my[t].key \in Keys
    /\ pc[t] \in Insertion => my[t].op \in Inserters
    /\ pc[t] \in Walking => my[t].op \notin {"insert", "clear"}
    /\ pc[t] \in Removal => my[t].op = "remove"
    /\ pc[t] \in Sweeping => my[t].op = "clear"
    /\ pc[t] \in Insertion \cup Walking \cup Removal => my[t].index = KeyIndex(my[t].key)

\* A node that is being linked or freed is in no list.
HeldInv(t) ==
    /\ pc[t] \in {"link", "swap", "delete"} => my[t].current \in live \ Linked
    /\ pc[t] \in {"link", "swap"} => node[my[t].current].key = my[t].key
    /\ pc[t] = "swap" => node[my[t].current].next = my[t].next

\* What remove() has walked past.
BehindInv(t) ==
    IF my[t].prev = Null THEN my[t].current = table[my[t].index]
    ELSE my[t].prev \in List(my[t].index) /\ node[my[t].prev].next = my[t].current

\* A walk does not leave its list, and has what it looks for before it.
WalkInv(t) ==
    /\ pc[t] = "head" /\ my[t].had =>
         \E n \in List(my[t].index) : node[n].key = my[t].key
    /\ pc[t] = "walk" => my[t].current \in From(table[my[t].index])
    /\ pc[t] = "walk" /\ my[t].op = "remove" => BehindInv(t)
    /\ pc[t] = "unlink" =>
         /\ my[t].current \in List(my[t].index)
         /\ my[t].next = node[my[t].current].next
         /\ BehindInv(t)

\* clear() has the list that it is about to free for itself, and leaves none
\* behind it.
SweepInv(t) ==
    /\ pc[t] = "take" => \A i \in 0..(my[t].index - 1) : table[i] = Null
    /\ pc[t] = "sweep" =>
         /\ \A i \in 0..my[t].index : table[i] = Null
         /\ Null \in From(my[t].current)
         /\ From(my[t].current) \ {Null} \subseteq live \ Linked
    /\ pc[t] = "zero" => \A i \in 0..(S - 1) : table[i] = Null

ThreadInv(t) == CallInv(t) /\ HeldInv(t) /\ WalkInv(t) /\ SweepInv(t)

\* A call that is to be alone is, and no two threads are linking one node.
PairInv(t, u) ==
    /\ pc[t] # "idle" /\ my[t].op \in Alone => pc[u] = "idle"
    /\ {pc[t], pc[u]} \subseteq {"link", "swap"} => my[t].current # my[u].current

ShapeInv ==
    /\ ListsInv
    /\ \A n \in live : node[n] \in Node
    /\ \A t \in Threads : ThreadInv(t)
    /\ \A t, u \in Threads : t # u => PairInv(t, u)

DictIInv == ShapeInv /\ NothingLost /\ LookupInv /\ CountInv

RemoversAlone == {"remove", "clear"} \cap Ops \subseteq Alone

LEMMA IndexType == \A k \in Keys : KeyIndex(k) \in 0..(S - 1)
BY DictionaryAssumption DEF KeyIndex

LEMMA BlankIsNoNode == Blank.next = Null /\ \A n \in Node \cup {Blank} : n.next \in Pointer
BY DEF Blank, Node, Pointer

\* Whatever the nodes hold can be followed.
LEMMA HeapTyped ==
    ASSUME DictTypeOK
    PROVE  Heap(node)
BY BlankIsNoNode DEF DictTypeOK, Heap

\* What the lists reach, in the words of the facts above.
LEMMA ListFacts ==
    ASSUME ShapeInv, NEW i \in 0..(S - 1)
    PROVE  /\ table[i] \in Pointer
           /\ table[i] \in From(table[i])
           /\ From(table[i]) = List(i) \cup {Null}
           /\ List(i) \subseteq Nodes
           /\ List(i) \subseteq Linked
           /\ Linked \subseteq live
           /\ \A n \in List(i) : node[n].next \in From(table[i])
           /\ \A n \in List(i) : KeyIndex(node[n].key) = i
<1>1. table[i] \in Pointer /\ Heap(node)
  BY HeapTyped DEF ShapeInv, ListsInv, DictTypeOK
<1>2. List(i) \subseteq Linked
  BY DEF Linked
<1>3. Linked \subseteq live
  BY DEF Linked, ShapeInv, ListsInv
<1> QED
  BY <1>1, <1>2, <1>3, ReachedFollows DEF From, List, Follows, ShapeInv, ListsInv, Pointer

\* When one thread removes or clears, the others are idle, and an idle
\* thread's part of the invariant does not depend on the lists.
LEMMA OthersIdle ==
    ASSUME RemoversAlone, ShapeInv, NEW t \in Threads,
           pc[t] \in Removal \cup Sweeping \/ my[t].op = "remove", pc[t] # "idle"
    PROVE  \A u \in Threads \ {t} : pc[u] = "idle"
<1>1. my[t].op \in {"remove", "clear"} /\ my[t].op \in Ops
  BY DEF ShapeInv, ThreadInv, CallInv
<1> QED
  BY <1>1 DEF RemoversAlone, ShapeInv, PairInv

LEMMA NoRemoverBeside ==
    ASSUME RemoversAlone, ShapeInv, NEW t \in Threads, pc[t] # "idle",
           NEW u \in Threads, u # t
    PROVE  /\ pc[u] \notin Removal \cup Sweeping
           /\ pc[u] # "idle" => my[u].op # "remove"
BY OthersIdle DEF Removal, Sweeping

LEMMA DictInitInvariant == DictInit => DictIInv
<1> SUFFICES ASSUME DictInit
             PROVE  DictIInv
  OBVIOUS
<1>1. DictTypeOK
  BY DictionaryAssumption, FS_CardinalityType
     DEF DictInit, DictTypeOK, Rest, Local, Pointer, Blank, Node, Insertion, Walking, Removal, Sweeping
<1>2. \A i \in 0..(S - 1) : From(table[i]) = {Null}
  BY NullReached DEF DictInit, From
<1>3. Linked = {}
  BY <1>2 DEF Linked, List
<1>4. ShapeInv
  BY <1>1, <1>2
     DEF ShapeInv, ListsInv, List, DictInit, ThreadInv, PairInv, CallInv, HeldInv, WalkInv, SweepInv,
         Rest, Insertion, Walking, Removal, Sweeping
<1>5. NothingLost /\ LookupInv
  BY DEF NothingLost, LookupInv, DictInit
<1>6. CountInv
  <2>1. At("add") = {} /\ At("delete") = {} /\ At("subtract") = {}
    BY DEF At, DictInit
  <2> QED
    BY <1>3, <2>1, FS_EmptySet DEF CountInv, DictInit
<1> QED
  BY <1>4, <1>5, <1>6 DEF DictIInv

-----------------------------------------------------------------------------
(* Steps that change no list: what is to prove is the thread's own part.   *)

\* The other threads stand still, and so does what they look at.
OthersStay(t) == \A u \in Threads \ {t} : pc'[u] = pc[u] /\ my'[u] = my[u]

LEMMA QuietKeeps ==
    ASSUME ShapeInv, NEW t \in Threads, UNCHANGED <<table, node, live>>, OthersStay(t),
           DictTypeOK', ThreadInv(t)',
           \A u \in Threads \ {t} : PairInv(t, u)' /\ PairInv(u, t)'
    PROVE  ShapeInv'
<1>1. ASSUME NEW u \in Threads, u # t
      PROVE  ThreadInv(u)'
  <2>1. ThreadInv(u) /\ pc'[u] = pc[u] /\ my'[u] = my[u]
    BY <1>1 DEF OthersStay, ShapeInv
  <2>2. CallInv(u)' /\ HeldInv(u)' /\ SweepInv(u)'
    BY <2>1 DEF ThreadInv, CallInv, HeldInv, SweepInv, From, List, Linked
  <2>3. WalkInv(u)'
    BY <2>1 DEF ThreadInv, WalkInv, BehindInv, From, List
  <2> QED
    BY <2>2, <2>3 DEF ThreadInv
<1>2. ASSUME NEW u \in Threads, NEW v \in Threads, u # v
      PROVE  PairInv(u, v)'
  BY <1>2 DEF ShapeInv, PairInv, OthersStay
<1>3. ListsInv'
  BY DEF ShapeInv, ListsInv, From, List
<1> QED
  BY <1>1, <1>2, <1>3 DEF ShapeInv

LEMMA CallStep ==
    ASSUME ShapeInv, NEW t \in Threads, NEW o \in Ops, NEW k \in Keys, Call(t, o, k)
    PROVE  ShapeInv'
<1> DEFINE m == [Rest EXCEPT !.op = o, !.key = k, !.sought = Sought(o, k),
                             !.index = IF o = "clear" THEN 0 ELSE KeyIndex(k),
                             !.had = o # "insert" /\ \E n \in Linked : node[n].key = k]
<1>1. /\ o \in DictOps /\ o # "none"
      /\ KeyIndex(k) \in 0..(S - 1) /\ 0 \in 0..(S - 1)
      /\ Sought(o, k) \in Keys \cup {Null}
  BY IndexType, DictionaryAssumption DEF Sought, DictOps
<1>2. /\ m \in Local
      /\ m.op = o /\ m.key = k /\ m.index = IF o = "clear" THEN 0 ELSE KeyIndex(k)
      /\ m.had => \E n \in Linked : node[n].key = k
  BY <1>1 DEF Rest, Local, Pointer
<1>3. /\ pc[t] = "idle" /\ pc'[t] = FirstStep(o) /\ my'[t] = m
      /\ OthersStay(t) /\ DictTypeOK'
      /\ UNCHANGED <<table, node, live>>
  BY <1>2 DEF Call, Goto, ShapeInv, ListsInv, DictTypeOK, OthersStay, FirstStep, shared,
              Insertion, Walking, Removal, Sweeping
<1>4. ThreadInv(t)'
  <2>1. CallInv(t)'
    BY <1>1, <1>2, <1>3
       DEF CallInv, FirstStep, Inserters, Insertion, Walking, Removal, Sweeping, DictOps
  <2>2. HeldInv(t)' /\ SweepInv(t)'
    BY <1>1, <1>2, <1>3 DEF HeldInv, SweepInv, FirstStep
  <2>3. ASSUME pc'[t] = "head", m.had
        PROVE  \E n \in List(m.index) : node[n].key = k
    <3>1. PICK n \in Linked : node[n].key = k
      BY <1>2, <2>3
    <3>2. PICK i \in 0..(S - 1) : n \in List(i)
      BY DEF Linked
    <3>3. i = KeyIndex(k)
      BY <3>1, <3>2, ListFacts
    <3> QED
      BY <1>2, <1>3, <2>3, <3>1, <3>2, <3>3 DEF FirstStep
  <2>4. WalkInv(t)'
    BY <1>2, <1>3, <2>3 DEF WalkInv, FirstStep, List, From
  <2> QED
    BY <2>1, <2>2, <2>4 DEF ThreadInv
<1>5. \A u \in Threads \ {t} : PairInv(t, u)' /\ PairInv(u, t)'
  BY <1>2, <1>3 DEF Call, Apart, PairInv, OthersStay, FirstStep
<1> QED
  BY <1>3, <1>4, <1>5, QuietKeeps

\* A call returns.  What it does to the counter is a matter of CountInv.
LEMMA ReturnStep ==
    ASSUME ShapeInv, NEW t \in Threads, Return(t), UNCHANGED <<table, node, live>>,
           count' \in 0..(SizeMod - 1)
    PROVE  ShapeInv'
<1>1. /\ pc'[t] = "idle" /\ my'[t] = Rest
      /\ OthersStay(t) /\ DictTypeOK'
  <2>1. Rest \in Local
    BY DictionaryAssumption DEF Rest, Local, Pointer
  <2> QED
    BY <2>1 DEF Return, Goto, ShapeInv, ListsInv, DictTypeOK, OthersStay
<1>2. ThreadInv(t)'
  BY <1>1 DEF ThreadInv, CallInv, HeldInv, WalkInv, SweepInv, Rest,
              Insertion, Walking, Removal, Sweeping
<1>3. \A u \in Threads \ {t} : PairInv(t, u)' /\ PairInv(u, t)'
  BY <1>1 DEF PairInv
<1> QED
  BY <1>1, <1>2, <1>3, QuietKeeps

\* While a call goes on, its operation and its list stay what they are.
Continues(t, label) ==
    /\ pc[t] # "idle"
    /\ pc'[t] = label
    /\ my'[t].op = my[t].op
    /\ my'[t].key = my[t].key
    /\ OthersStay(t)

LEMMA ContinuesPairs ==
    ASSUME ShapeInv, NEW t \in Threads, NEW label, Continues(t, label),
           label \notin {"idle", "link", "swap"}
    PROVE  \A u \in Threads \ {t} : PairInv(t, u)' /\ PairInv(u, t)'
BY DEF Continues, ShapeInv, PairInv, OthersStay

LEMMA WalkStep ==
    ASSUME ShapeInv, NEW t \in Threads,
           LoadHead(t) \/ WalkOn(t) \/ AddMissing(t) \/ RemoveFound(t) \/ NextList(t)
    PROVE  ShapeInv'
<1> USE DEF Insertion, Walking, Removal, Sweeping
<1>1. /\ my[t] \in Local /\ my \in [Threads -> Local]
      /\ \A n \in Nodes : node[n].next \in Pointer
      /\ \A i \in 0..(S - 1) : table[i] \in Pointer
      /\ UNCHANGED <<table, node, live>>
      /\ live \subseteq Nodes
      /\ my[t].index \in 0..(S - 1)
      /\ Null \notin Nodes
  BY BlankIsNoNode, DictionaryAssumption
     DEF ShapeInv, ListsInv, DictTypeOK, Local, shared,
         LoadHead, WalkOn, AddMissing, RemoveFound, NextList
<1>2. CASE LoadHead(t)
  <2>1. /\ Continues(t, "walk") /\ DictTypeOK' /\ pc[t] = "head"
        /\ my'[t].current = table[my[t].index] /\ my'[t].prev = Null
        /\ my'[t].index = my[t].index
    BY <1>1, <1>2
       DEF Continues, OthersStay, LoadHead, Goto, ShapeInv, ListsInv, DictTypeOK, Local, Pointer, shared
  <2>2. table[my[t].index] \in From(table[my[t].index])
    BY <1>1, ListFacts
  <2>3. ThreadInv(t)'
    BY <1>1, <2>1, <2>2
       DEF ThreadInv, CallInv, HeldInv, WalkInv, BehindInv, SweepInv, ShapeInv, Continues, From
  <2> QED
    BY <1>1, <2>1, <2>3, ContinuesPairs, QuietKeeps DEF Continues
<1>3. CASE WalkOn(t)
  <2>1. /\ Continues(t, "walk") /\ DictTypeOK' /\ pc[t] = "walk"
        /\ my[t].current \in live
        /\ my'[t].current = node[my[t].current].next /\ my'[t].prev = my[t].current
        /\ my'[t].index = my[t].index
    BY <1>1, <1>3
       DEF Continues, OthersStay, WalkOn, Looks, ShapeInv, ListsInv, DictTypeOK, Local, Pointer, shared
  <2>2. my[t].current \in List(my[t].index)
    BY <1>1, <2>1 DEF ShapeInv, ThreadInv, WalkInv, List
  <2>3. my'[t].current \in From(table[my[t].index])
    BY <1>1, <2>1, <2>2, ListFacts
  <2>4. ThreadInv(t)'
    BY <1>1, <2>1, <2>2, <2>3
       DEF ThreadInv, CallInv, HeldInv, WalkInv, BehindInv, SweepInv, ShapeInv, Continues, List, From
  <2> QED
    BY <1>1, <2>1, <2>4, ContinuesPairs, QuietKeeps DEF Continues
<1>4. CASE AddMissing(t)
  <2>1. /\ Continues(t, "new") /\ DictTypeOK' /\ pc[t] = "walk"
        /\ my[t].op \in Inserters
        /\ my'[t].index = my[t].index
    <3>1. /\ pc[t] = "walk" /\ my[t].op \in Inserters
          /\ pc' = [pc EXCEPT ![t] = "new"]
          /\ my' = [my EXCEPT ![t].prev = Null, ![t].had = FALSE]
          /\ UNCHANGED shared
      BY <1>4 DEF AddMissing, AtEnd, Goto, Inserters
    <3>2. DictTypeOK
      BY DEF ShapeInv, ListsInv
    <3>3. my[t] \in Local /\ my'[t] = [my[t] EXCEPT !.prev = Null, !.had = FALSE]
      BY <3>1, <3>2 DEF DictTypeOK
    <3>4. Continues(t, "new") /\ my'[t].index = my[t].index
      BY <3>1, <3>2, <3>3 DEF Continues, OthersStay, DictTypeOK, Local
    <3>5. my'[t] \in Local
      BY <3>3 DEF Local, Pointer
    <3>6. DictTypeOK'
      BY <3>1, <3>2, <3>5 DEF DictTypeOK, shared
    <3> QED
      BY <3>1, <3>4, <3>6
  <2>2. CallInv(t)'
    BY <1>1, <2>1 DEF ThreadInv, CallInv, ShapeInv, Continues
  <2>3. HeldInv(t)' /\ WalkInv(t)' /\ SweepInv(t)'
    BY <2>1 DEF HeldInv, WalkInv, SweepInv, Continues
  <2>4. ThreadInv(t)'
    BY <2>2, <2>3 DEF ThreadInv
  <2> QED
    BY <1>1, <2>1, <2>4, ContinuesPairs, QuietKeeps DEF Continues
<1>5. CASE RemoveFound(t)
  <2>1. /\ Continues(t, "unlink") /\ DictTypeOK' /\ pc[t] = "walk"
        /\ my[t].op = "remove" /\ my[t].current \in live
        /\ my'[t].next = node[my[t].current].next
        /\ my'[t].current = my[t].current /\ my'[t].prev = my[t].prev
        /\ my'[t].index = my[t].index
    BY <1>1, <1>5
       DEF Continues, OthersStay, RemoveFound, AtKey, Looks, Goto, ShapeInv, ListsInv, DictTypeOK,
           Local, Pointer, shared
  <2>2. my[t].current \in List(my[t].index) /\ BehindInv(t)
    BY <1>1, <2>1 DEF ShapeInv, ThreadInv, WalkInv, List
  <2>3. ThreadInv(t)'
    BY <1>1, <2>1, <2>2
       DEF ThreadInv, CallInv, HeldInv, WalkInv, BehindInv, SweepInv, ShapeInv, Continues, List, From
  <2> QED
    BY <1>1, <2>1, <2>3, ContinuesPairs, QuietKeeps DEF Continues
<1>6. CASE NextList(t)
  <2>0. S \in Nat /\ count' = count
    BY <1>6, DictionaryAssumption DEF NextList, shared
  <2>1. my[t].index < S - 1 => [my[t] EXCEPT !.index = my[t].index + 1] \in Local
    <3>1. my[t].index < S - 1 => my[t].index + 1 \in 0..(S - 1)
      BY <1>1, <2>0
    <3> QED
      BY <1>1, <3>1 DEF Local
  <2>2. /\ my' \in [Threads -> Local]
        /\ OthersStay(t) /\ pc[t] = "sweep"
        /\ pc' = [pc EXCEPT ![t] = "take"] \/ pc' = [pc EXCEPT ![t] = "zero"]
    BY <1>1, <1>6, <2>1 DEF OthersStay, NextList, Goto, ShapeInv, ListsInv, DictTypeOK
  <2>3. DictTypeOK'
    BY <1>1, <2>0, <2>2 DEF ShapeInv, ListsInv, DictTypeOK
  <2>4. \/ Continues(t, "take") /\ my'[t].index = my[t].index + 1
        \/ Continues(t, "zero") /\ my[t].index = S - 1
    BY <1>1, <1>6, <2>2
       DEF Continues, NextList, Goto, ShapeInv, ListsInv, DictTypeOK, Local
  <2>5. \A i \in 0..my[t].index : table[i] = Null
    BY <2>2 DEF ShapeInv, ThreadInv, SweepInv
  <2>6. ThreadInv(t)'
    BY <1>1, <2>0, <2>2, <2>4, <2>5
       DEF ThreadInv, CallInv, HeldInv, WalkInv, SweepInv, ShapeInv, Continues
  <2> QED
    BY <1>1, <2>3, <2>4, <2>6, <2>2, ContinuesPairs, QuietKeeps
<1> QED
  BY <1>2, <1>3, <1>4, <1>5, <1>6

-----------------------------------------------------------------------------
(* Insertions, which other insertions and look-ups may run beside.         *)

\* A node outside the lists is changed, or made: the lists stay as they are.
LEMMA ListsKept ==
    ASSUME ShapeInv, DictTypeOK', UNCHANGED table, Linked \subseteq live',
           \A n \in Linked : node'[n] = node[n]
    PROVE  /\ \A i \in 0..(S - 1) : Reached(node', table[i]) = From(table[i])
           /\ Linked' = Linked
           /\ ListsInv'
<1>1. Heap(node)
  BY HeapTyped DEF ShapeInv, ListsInv
<1>2. ASSUME NEW i \in 0..(S - 1)
      PROVE  Reached(node', table[i]) = From(table[i])
  <2>1. \A n \in From(table[i]) \ {Null} : node'[n].next = node[n].next
    BY ListFacts
  <2> QED
    BY <1>1, <2>1, ListFacts, ReachedKept DEF From
<1>3. Linked' = Linked
  BY <1>2 DEF Linked, List, From
<1>4. ASSUME NEW i \in 0..(S - 1)
      PROVE  /\ Null \in Reached(node', table[i])
             /\ Reached(node', table[i]) \ {Null} \subseteq live'
             /\ \A n \in Reached(node', table[i]) \ {Null} : KeyIndex(node'[n].key) = i
  BY <1>2, <1>4, ListFacts DEF List
<1>5. ListsInv'
  BY <1>4 DEF ListsInv, List, From, KeyIndex
<1> QED
  BY <1>2, <1>3, <1>5

\* What other threads have seen stays, and what they hold is still theirs.
LEMMA GrowKeeps ==
    ASSUME RemoversAlone, ShapeInv, NEW t \in Threads, pc[t] # "idle", OthersStay(t),
           live \subseteq live',
           \A n \in Linked : node'[n] = node[n],
           \A i \in 0..(S - 1) : From(table[i]) \subseteq Reached(node', table'[i]),
           \A u \in Threads \ {t} : pc[u] \in {"link", "swap"} =>
               my[u].current \notin Linked' /\ node'[my[u].current] = node[my[u].current]
    PROVE  \A u \in Threads \ {t} : ThreadInv(u)'
<1> SUFFICES ASSUME NEW u \in Threads, u # t
             PROVE  ThreadInv(u)'
  OBVIOUS
<1>1. /\ pc'[u] = pc[u] /\ my'[u] = my[u]
      /\ pc[u] \notin Removal \cup Sweeping
      /\ pc[u] # "idle" => my[u].op # "remove"
      /\ my[u].index \in 0..(S - 1)
      /\ ThreadInv(u)
  BY NoRemoverBeside DEF OthersStay, ShapeInv, ListsInv, DictTypeOK, Local
<1>2. CallInv(u)'
  BY <1>1 DEF ThreadInv, CallInv, KeyIndex
<1>3. HeldInv(u)'
  BY <1>1 DEF ThreadInv, HeldInv, Removal
<1>4. pc[u] = "head" /\ my[u].had =>
        \E n \in Reached(node', table'[my[u].index]) \ {Null} : node'[n].key = my[u].key
  <2>1. pc[u] = "head" /\ my[u].had => \E n \in List(my[u].index) : node[n].key = my[u].key
    BY <1>1 DEF ThreadInv, WalkInv
  <2>2. \A n \in List(my[u].index) : n \in Linked /\ node'[n] = node[n]
    BY <1>1 DEF Linked
  <2>3. List(my[u].index) \subseteq Reached(node', table'[my[u].index]) \ {Null}
    BY <1>1 DEF List
  <2> QED
    BY <2>1, <2>2, <2>3
<1>5. WalkInv(u)'
  <2>1. pc[u] # "unlink" /\ WalkInv(u)
    BY <1>1 DEF ThreadInv, Removal
  <2>2. pc[u] = "walk" => my[u].current \in From(table[my[u].index]) /\ my[u].op # "remove"
    BY <1>1, <2>1 DEF WalkInv
  <2>3. pc[u] = "walk" => my[u].current \in Reached(node', table'[my[u].index])
    BY <1>1, <2>2
  <2>4. /\ From(table[my[u].index])' = Reached(node', table'[my[u].index])
        /\ List(my[u].index)' = Reached(node', table'[my[u].index]) \ {Null}
    BY <1>1 DEF List, From
  <2> QED
    BY <1>1, <1>4, <2>1, <2>2, <2>3, <2>4 DEF WalkInv
<1>6. SweepInv(u)'
  BY <1>1 DEF SweepInv, Sweeping
<1> QED
  BY <1>2, <1>3, <1>5, <1>6 DEF ThreadInv

LEMMA NewStep ==
    ASSUME RemoversAlone, ShapeInv, NEW t \in Threads, New(t)
    PROVE  /\ ShapeInv'
           /\ Linked' = Linked
           /\ \A n \in live' \ live : n \in Held(t)'
           /\ \A n \in Linked : node'[n] = node[n]
<1>1. PICK n \in Nodes \ live :
        /\ live' = live \cup {n}
        /\ node' = [node EXCEPT ![n] = [key |-> my[t].key, next |-> Null]]
        /\ my' = [my EXCEPT ![t].current = n]
  BY DEF New
<1>2. /\ pc[t] = "new" /\ my[t] \in Local /\ my[t].key \in Keys /\ my[t].op # "none"
      /\ pc' = [pc EXCEPT ![t] = "link"]
      /\ UNCHANGED <<table, count>>
  BY DEF New, Goto, ShapeInv, ListsInv, DictTypeOK, ThreadInv, CallInv
<1>3. /\ [key |-> my[t].key, next |-> Null] \in Node
      /\ [my[t] EXCEPT !.current = n] \in Local
  BY <1>1, <1>2 DEF Node, Local, Pointer
<1>4. DictTypeOK'
  BY <1>1, <1>2, <1>3 DEF ShapeInv, ListsInv, DictTypeOK, Insertion
<1>5. /\ OthersStay(t) /\ pc'[t] = "link"
      /\ my'[t].current = n /\ my'[t].op = my[t].op /\ my'[t].key = my[t].key
      /\ my'[t].index = my[t].index
      /\ node'[n].key = my[t].key
  BY <1>1, <1>2 DEF ShapeInv, ListsInv, DictTypeOK, OthersStay, Local
<1>6. \A m \in live : node'[m] = node[m]
  BY <1>1 DEF ShapeInv, ListsInv, DictTypeOK
<1>7. Linked \subseteq live
  BY DEF Linked, ShapeInv, ListsInv
<1>8. /\ \A i \in 0..(S - 1) : Reached(node', table[i]) = From(table[i])
      /\ Linked' = Linked
      /\ ListsInv'
  BY <1>1, <1>2, <1>4, <1>6, <1>7, ListsKept
<1>9. ASSUME NEW u \in Threads \ {t}, pc[u] \in {"link", "swap"}
      PROVE  my[u].current \in live \ Linked
  BY <1>9 DEF ShapeInv, ThreadInv, HeldInv
<1>10. \A u \in Threads \ {t} : ThreadInv(u)'
  BY <1>1, <1>2, <1>5, <1>6, <1>7, <1>8, <1>9, GrowKeeps
<1>11. ThreadInv(t)'
  <2>1. CallInv(t)'
    BY <1>2, <1>5 DEF ShapeInv, ThreadInv, CallInv, KeyIndex, Insertion, Walking, Removal, Sweeping
  <2>2. n \in live' \ Linked'
    BY <1>1, <1>7, <1>8
  <2> QED
    BY <1>5, <2>1, <2>2 DEF ThreadInv, HeldInv, WalkInv, SweepInv
<1>12. ASSUME NEW u \in Threads, NEW v \in Threads, u # v
       PROVE  PairInv(u, v)'
  BY <1>1, <1>2, <1>5, <1>9, <1>12 DEF ShapeInv, PairInv, OthersStay
<1>13. \A m \in live' : node'[m] \in Node
  BY <1>1, <1>3, <1>6 DEF ShapeInv, ListsInv, DictTypeOK
<1>14. \A m \in live' \ live : m \in Held(t)'
  BY <1>1, <1>5 DEF Held
<1> QED
  BY <1>6, <1>7, <1>8, <1>10, <1>11, <1>12, <1>13, <1>14 DEF ShapeInv

LEMMA LinkStep ==
    ASSUME RemoversAlone, ShapeInv, NEW t \in Threads, Link(t)
    PROVE  /\ ShapeInv'
           /\ Linked' = Linked
           /\ \A n \in Linked : node'[n] = node[n]
<1> DEFINE n == my[t].current
           i == my[t].index
<1>1. /\ pc[t] = "link" /\ my[t] \in Local /\ my[t].op # "none"
      /\ node' = [node EXCEPT ![n].next = table[i]]
      /\ my' = [my EXCEPT ![t].next = table[i]]
      /\ pc' = [pc EXCEPT ![t] = "swap"]
      /\ UNCHANGED <<table, live, count>>
  BY DEF Link, Goto, ShapeInv, ListsInv, DictTypeOK, ThreadInv, CallInv
<1>2. /\ n \in live \ Linked /\ live \subseteq Nodes
      /\ node[n] \in Node /\ node[n].key = my[t].key
      /\ table[i] \in Pointer
  BY <1>1 DEF ShapeInv, ListsInv, DictTypeOK, ThreadInv, HeldInv, Local
<1>3. /\ [node[n] EXCEPT !.next = table[i]] \in Node
      /\ [my[t] EXCEPT !.next = table[i]] \in Local
  BY <1>1, <1>2 DEF Node, Local
<1>4. DictTypeOK'
  BY <1>1, <1>2, <1>3 DEF ShapeInv, ListsInv, DictTypeOK, Insertion
<1>5. /\ OthersStay(t) /\ pc'[t] = "swap"
      /\ my'[t].current = n /\ my'[t].op = my[t].op /\ my'[t].key = my[t].key
      /\ my'[t].index = i /\ my'[t].next = table[i]
      /\ node'[n].key = my[t].key /\ node'[n].next = table[i]
      /\ \A m \in Nodes \ {n} : node'[m] = node[m]
  BY <1>1, <1>2 DEF ShapeInv, ListsInv, DictTypeOK, OthersStay, Local, Node
<1>6. Linked \subseteq live
  BY DEF Linked, ShapeInv, ListsInv
<1>7. /\ \A j \in 0..(S - 1) : Reached(node', table[j]) = From(table[j])
      /\ Linked' = Linked
      /\ ListsInv'
  BY <1>1, <1>2, <1>4, <1>5, <1>6, ListsKept
<1>8. ASSUME NEW u \in Threads \ {t}, pc[u] \in {"link", "swap"}
      PROVE  my[u].current \in live \ Linked /\ my[u].current # n
  BY <1>1, <1>8 DEF ShapeInv, ThreadInv, HeldInv, PairInv
<1>9. \A u \in Threads \ {t} : ThreadInv(u)'
  BY <1>1, <1>2, <1>5, <1>6, <1>7, <1>8, GrowKeeps
<1>10. ThreadInv(t)'
  <2>1. CallInv(t)'
    BY <1>1, <1>5 DEF ShapeInv, ThreadInv, CallInv, KeyIndex, Insertion, Walking, Removal, Sweeping
  <2>2. HeldInv(t)'
    BY <1>1, <1>2, <1>5, <1>7 DEF HeldInv
  <2> QED
    BY <1>5, <2>1, <2>2 DEF ThreadInv, WalkInv, SweepInv
<1>11. ASSUME NEW u \in Threads, NEW v \in Threads, u # v
       PROVE  PairInv(u, v)'
  BY <1>1, <1>5, <1>8, <1>11 DEF ShapeInv, PairInv, OthersStay
<1>12. \A m \in live' : node'[m] \in Node
  BY <1>1, <1>2, <1>3, <1>5 DEF ShapeInv, ListsInv, DictTypeOK
<1> QED
  BY <1>2, <1>5, <1>6, <1>7, <1>9, <1>10, <1>11, <1>12 DEF ShapeInv

\* A swap that fails changes nothing; one that succeeds puts the thread's
\* node in its list, and takes nothing out.
LEMMA SwapStep ==
    ASSUME RemoversAlone, ShapeInv, NEW t \in Threads, Swap(t)
    PROVE  /\ ShapeInv'
           /\ \/ pc'[t] = "link" /\ Linked' = Linked
              \/ /\ pc'[t] = "add"
                 /\ Linked' = Linked \cup {my[t].current}
                 /\ my[t].current \in Nodes \ Linked
           /\ UNCHANGED <<node, live, count, my>>
<1> DEFINE n == my[t].current
           i == my[t].index
<1>1. /\ pc[t] = "swap" /\ my[t] \in Local /\ my[t].op # "none"
      /\ UNCHANGED <<node, live, count, my>>
      /\ i \in 0..(S - 1)
  BY DEF Swap, ShapeInv, ListsInv, DictTypeOK, ThreadInv, CallInv, Local
<1>2. /\ n \in live \ Linked /\ live \subseteq Nodes
      /\ node[n].key = my[t].key /\ node[n].next = my[t].next
      /\ i = KeyIndex(my[t].key)
  BY <1>1 DEF ShapeInv, ListsInv, DictTypeOK, ThreadInv, HeldInv, CallInv, Insertion
<1>3. ASSUME NEW u \in Threads \ {t}, pc[u] \in {"link", "swap"}
      PROVE  my[u].current \in live \ Linked /\ my[u].current # n
  BY <1>1, <1>3 DEF ShapeInv, ThreadInv, HeldInv, PairInv
<1>4. CASE pc' = [pc EXCEPT ![t] = "link"] /\ UNCHANGED table
  <2>1. DictTypeOK' /\ OthersStay(t) /\ pc'[t] = "link"
    BY <1>1, <1>4 DEF ShapeInv, ListsInv, DictTypeOK, Insertion, OthersStay
  <2>2. ThreadInv(t)'
    BY <1>1, <1>4, <2>1
       DEF ShapeInv, ThreadInv, CallInv, HeldInv, WalkInv, SweepInv, Linked, List, From,
           Insertion, Walking, Removal, Sweeping
  <2>3. \A u \in Threads \ {t} : PairInv(t, u)' /\ PairInv(u, t)'
    BY <1>1, <1>3, <2>1 DEF ShapeInv, PairInv, OthersStay
  <2>4. Linked' = Linked
    BY <1>1, <1>4 DEF Linked, List, From
  <2> QED
    BY <1>1, <1>4, <2>1, <2>2, <2>3, <2>4, QuietKeeps
<1>5. CASE /\ table[i] = my[t].next
           /\ table' = [table EXCEPT ![i] = n]
           /\ pc' = [pc EXCEPT ![t] = "add"]
  <2>1. DictTypeOK' /\ OthersStay(t) /\ pc'[t] = "add"
    BY <1>1, <1>2, <1>5 DEF ShapeInv, ListsInv, DictTypeOK, Insertion, OthersStay, Pointer
  <2>2. table'[i] = n /\ \A j \in (0..(S - 1)) \ {i} : table'[j] = table[j]
    BY <1>1, <1>5 DEF ShapeInv, ListsInv, DictTypeOK
  <2>3. Heap(node)
    BY HeapTyped DEF ShapeInv, ListsInv
  <2>4. Reached(node', table'[i]) = {n} \cup From(table[i])
    BY <1>1, <1>2, <1>5, <2>2, <2>3, NodeReached DEF From
  <2>5. \A j \in (0..(S - 1)) \ {i} : Reached(node', table'[j]) = From(table[j])
    BY <1>1, <2>2 DEF From
  <2>6. n # Null
    BY <1>2, DictionaryAssumption
  <2>7. Linked' = Linked \cup {n}
    BY <1>1, <2>4, <2>5, <2>6 DEF Linked, List, From
  <2>8. ListsInv'
    <3>1. ASSUME NEW j \in 0..(S - 1)
          PROVE  /\ Null \in Reached(node', table'[j])
                 /\ Reached(node', table'[j]) \ {Null} \subseteq live'
                 /\ \A m \in Reached(node', table'[j]) \ {Null} : KeyIndex(node'[m].key) = j
      BY <1>1, <1>2, <2>4, <2>5, ListFacts DEF List
    <3> QED
      BY <2>1, <3>1 DEF ListsInv, List, From, KeyIndex
  <2>9. \A u \in Threads \ {t} : ThreadInv(u)'
    <3>1. \A j \in 0..(S - 1) : From(table[j]) \subseteq Reached(node', table'[j])
      BY <2>4, <2>5
    <3>2. \A u \in Threads \ {t} : pc[u] \in {"link", "swap"} =>
            my[u].current \notin Linked' /\ node'[my[u].current] = node[my[u].current]
      BY <1>1, <1>3, <2>7
    <3> QED
      BY <1>1, <2>1, <3>1, <3>2, GrowKeeps
  <2>10. ThreadInv(t)'
    BY <1>1, <2>1
       DEF ShapeInv, ThreadInv, CallInv, KeyIndex, HeldInv, WalkInv, SweepInv,
           Insertion, Walking, Removal, Sweeping
  <2>11. ASSUME NEW u \in Threads, NEW v \in Threads, u # v
         PROVE  PairInv(u, v)'
    BY <1>1, <2>1, <2>11 DEF ShapeInv, PairInv, OthersStay
  <2> QED
    BY <1>1, <1>2, <2>1, <2>7, <2>8, <2>9, <2>10, <2>11 DEF ShapeInv
<1> QED
  BY <1>4, <1>5 DEF Swap, Goto

-----------------------------------------------------------------------------
(* remove() and clear(), with every other thread idle.                     *)

LEMMA AloneKeeps ==
    ASSUME ShapeInv, NEW t \in Threads, OthersStay(t),
           \A u \in Threads \ {t} : pc[u] = "idle",
           ListsInv', \A n \in live' : node'[n] \in Node, ThreadInv(t)'
    PROVE  ShapeInv'
<1>1. ASSUME NEW u \in Threads, u # t
      PROVE  ThreadInv(u)'
  BY <1>1
     DEF ShapeInv, ThreadInv, CallInv, HeldInv, WalkInv, SweepInv, OthersStay,
         Insertion, Walking, Removal, Sweeping
<1>2. ASSUME NEW u \in Threads, NEW v \in Threads, u # v
      PROVE  PairInv(u, v)'
  BY <1>2 DEF PairInv, OthersStay
<1> QED
  BY <1>1, <1>2 DEF ShapeInv

\* No node is in two lists.
LEMMA OneList ==
    ASSUME ShapeInv, NEW i \in 0..(S - 1), NEW j \in 0..(S - 1), i # j
    PROVE  List(i) \cap List(j) = {}
BY ListFacts

LEMMA UnlinkStep ==
    ASSUME RemoversAlone, ShapeInv, NEW t \in Threads, Unlink(t)
    PROVE  /\ ShapeInv'
           /\ Linked' = Linked \ {my[t].current}
           /\ my[t].current \in Linked
           /\ UNCHANGED <<live, count, my>>
           /\ pc' = [pc EXCEPT ![t] = "delete"]
<1> DEFINE n == my[t].current
           i == my[t].index
           q == my[t].prev
<1>1. /\ pc[t] = "unlink" /\ my[t].op # "none"
      /\ UNCHANGED <<live, count, my>>
      /\ pc' = [pc EXCEPT ![t] = "delete"]
      /\ i \in 0..(S - 1)
      /\ live \subseteq Nodes /\ Null \notin Nodes
      /\ \A m \in Nodes : node[m].next \in Pointer
  BY BlankIsNoNode, DictionaryAssumption
     DEF Unlink, Goto, ShapeInv, ListsInv, DictTypeOK, ThreadInv, CallInv, Local
<1>2. /\ n \in List(i)
      /\ my[t].next = node[n].next
      /\ BehindInv(t)
  BY <1>1 DEF ShapeInv, ThreadInv, WalkInv
<1>3. /\ n \in Nodes /\ n \in live /\ n \in Linked /\ node[n].next \in Pointer
      /\ table[i] \in Pointer /\ Null \in From(table[i])
      /\ Heap(node)
  BY <1>1, <1>2, ListFacts, HeapTyped DEF ShapeInv, ListsInv
<1>4. /\ DictTypeOK' /\ OthersStay(t) /\ pc'[t] = "delete"
      /\ \A m \in Nodes : node'[m].key = node[m].key
      /\ \A m \in live : node'[m] \in Node
      /\ Reached(node', table'[i]) = From(table[i]) \ {n}
      /\ \A j \in (0..(S - 1)) \ {i} : Reached(node', table'[j]) = From(table[j])
  <2>1. OthersStay(t) /\ pc'[t] = "delete"
    BY <1>1 DEF OthersStay, ShapeInv, ListsInv, DictTypeOK
  <2>2. CASE q = Null /\ table' = [table EXCEPT ![i] = my[t].next] /\ UNCHANGED node
    <3>1. /\ table'[i] = node[n].next
          /\ \A j \in (0..(S - 1)) \ {i} : table'[j] = table[j]
          /\ DictTypeOK'
      BY <1>1, <1>2, <1>3, <2>2 DEF ShapeInv, ListsInv, DictTypeOK, Removal
    <3>2. table[i] = n
      BY <1>2, <2>2 DEF BehindInv
    <3>3. Reached(node, node[n].next) = Reached(node, n) \ {n}
      BY <1>3, <3>2, NodeReached, NoReturn DEF From
    <3> QED
      BY <1>1, <2>1, <2>2, <3>1, <3>2, <3>3 DEF From, ShapeInv
  <2>3. CASE /\ q \in live /\ UNCHANGED table
             /\ node' = [node EXCEPT ![q].next = my[t].next]
    <3>1. q \in List(i) /\ node[q].next = n /\ node[q] \in Node
      BY <1>1, <1>2, <2>3 DEF BehindInv, ShapeInv
    <3>2. /\ [node[q] EXCEPT !.next = my[t].next] \in Node
          /\ q \in Nodes
      BY <1>1, <1>2, <1>3, <2>3, <3>1 DEF Node
    <3>3. /\ DictTypeOK'
          /\ node'[q] = [node[q] EXCEPT !.next = my[t].next]
          /\ \A m \in Nodes \ {q} : node'[m] = node[m]
      BY <1>1, <2>3, <3>2 DEF ShapeInv, ListsInv, DictTypeOK, Removal
    <3>4. node'[q].next = node[n].next /\ node'[q].key = node[q].key
      BY <1>2, <3>1, <3>3 DEF Node
    <3>5. Heap(node')
      BY <1>1, <1>3, <3>3, <3>4 DEF Heap
    <3>6. Reached(node', table[i]) = From(table[i]) \ {n}
      <4>1. q \in Reached(node, table[i]) \ {Null} /\ Null \in Reached(node, table[i])
        BY <1>3, <3>1 DEF From, List
      <4>2. \A m \in Nodes \ {q} : node'[m].next = node[m].next
        BY <3>3
      <4> QED
        BY <1>3, <3>1, <3>4, <3>5, <4>1, <4>2, ReachedPast DEF From
    <3>7. ASSUME NEW j \in (0..(S - 1)) \ {i}
          PROVE  Reached(node', table[j]) = From(table[j])
      <4>1. table[j] \in Pointer /\ List(j) \subseteq Nodes /\ q \notin List(j)
        BY <1>1, <3>1, ListFacts, OneList
      <4>2. \A m \in Reached(node, table[j]) \ {Null} : node'[m].next = node[m].next
        BY <3>3, <4>1 DEF List, From
      <4> QED
        BY <1>3, <4>1, <4>2, ReachedKept DEF From
    <3>8. \A m \in live : node'[m] \in Node
      BY <1>1, <3>2, <3>3 DEF ShapeInv
    <3>9. \A m \in Nodes : node'[m].key = node[m].key
      BY <3>3, <3>4
    <3> QED
      BY <2>1, <2>3, <3>3, <3>6, <3>7, <3>8, <3>9
  <2> QED
    BY <2>2, <2>3 DEF Unlink
<1>5. Linked' = Linked \ {n}
  <2>1. \A j \in (0..(S - 1)) \ {i} : n \notin List(j)
    BY <1>1, <1>2, OneList
  <2> QED
    BY <1>1, <1>4, <2>1 DEF Linked, List, From
<1>6. ListsInv'
  <2>1. ASSUME NEW j \in 0..(S - 1)
        PROVE  /\ Null \in Reached(node', table'[j])
               /\ Reached(node', table'[j]) \ {Null} \subseteq live'
               /\ \A m \in Reached(node', table'[j]) \ {Null} : KeyIndex(node'[m].key) = j
    BY <1>1, <1>3, <1>4, ListFacts DEF List
  <2> QED
    BY <1>4, <2>1 DEF ListsInv, List, From, KeyIndex
<1>7. ThreadInv(t)'
  <2>1. CallInv(t)'
    BY <1>1, <1>4 DEF ShapeInv, ThreadInv, CallInv, KeyIndex, Insertion, Walking, Removal, Sweeping
  <2>2. HeldInv(t)'
    BY <1>1, <1>3, <1>4, <1>5 DEF HeldInv
  <2> QED
    BY <1>4, <2>1, <2>2 DEF ThreadInv, WalkInv, SweepInv
<1>8. \A u \in Threads \ {t} : pc[u] = "idle"
  BY <1>1, OthersIdle DEF Removal
<1> QED
  BY <1>1, <1>3, <1>4, <1>5, <1>6, <1>7, <1>8, AloneKeeps

\* Freeing a node that is in no list leaves the lists as they are.
LEMMA FreeKeeps ==
    ASSUME ShapeInv, NEW n \in live \ Linked, Free(n), UNCHANGED <<table, count>>,
           pc' \in [Threads -> {"idle"} \cup Insertion \cup Walking \cup Removal \cup Sweeping],
           my' \in [Threads -> Local]
    PROVE  /\ Linked' = Linked
           /\ ListsInv'
           /\ \A m \in live' : node'[m] \in Node
           /\ \A m \in Nodes \ {n} : node'[m] = node[m]
<1>1. /\ DictTypeOK'
      /\ \A m \in Nodes \ {n} : node'[m] = node[m]
      /\ live \subseteq Nodes
  BY DEF Free, ShapeInv, ListsInv, DictTypeOK
<1>2. Linked \subseteq live
  BY DEF Linked, ShapeInv, ListsInv
<1>3. Linked \subseteq live' /\ \A m \in Linked : node'[m] = node[m]
  BY <1>1, <1>2 DEF Free
<1>4. \A m \in live' : node'[m] \in Node
  BY <1>1 DEF Free, ShapeInv
<1> QED
  BY <1>1, <1>3, <1>4, ListsKept

LEMMA DeleteStep ==
    ASSUME RemoversAlone, ShapeInv, NEW t \in Threads, Delete(t)
    PROVE  /\ ShapeInv'
           /\ Linked' = Linked
           /\ live' = live \ {my[t].current}
           /\ pc' = [pc EXCEPT ![t] = "subtract"]
           /\ UNCHANGED <<count, my>>
<1>1. /\ pc[t] = "delete" /\ my[t].op # "none"
      /\ my[t].current \in live \ Linked
      /\ Free(my[t].current)
      /\ pc' = [pc EXCEPT ![t] = "subtract"]
      /\ UNCHANGED <<table, count, my>>
  BY DEF Delete, Goto, ShapeInv, ThreadInv, HeldInv, CallInv
<1>2. /\ pc' \in [Threads -> {"idle"} \cup Insertion \cup Walking \cup Removal \cup Sweeping]
      /\ my' \in [Threads -> Local]
      /\ OthersStay(t) /\ pc'[t] = "subtract"
  BY <1>1 DEF ShapeInv, ListsInv, DictTypeOK, OthersStay, Removal
<1>3. Linked' = Linked /\ ListsInv' /\ \A m \in live' : node'[m] \in Node
  BY <1>1, <1>2, FreeKeeps
<1>4. ThreadInv(t)'
  BY <1>1, <1>2
     DEF ShapeInv, ThreadInv, CallInv, KeyIndex, HeldInv, WalkInv, SweepInv,
         Insertion, Walking, Removal, Sweeping
<1>5. \A u \in Threads \ {t} : pc[u] = "idle"
  BY <1>1, OthersIdle DEF Removal
<1> QED
  BY <1>1, <1>2, <1>3, <1>4, <1>5, AloneKeeps DEF Free

\* clear() takes a list: nothing of it is in the dictionary any more.
LEMMA TakeListStep ==
    ASSUME RemoversAlone, ShapeInv, NEW t \in Threads, TakeList(t)
    PROVE  /\ ShapeInv'
           /\ Linked = Linked' \cup (From(my[t].current)' \ {Null})
           /\ UNCHANGED <<live, count>>
           /\ pc' = [pc EXCEPT ![t] = "sweep"]
<1> DEFINE i == my[t].index
<1>1. /\ pc[t] = "take" /\ my[t].op # "none" /\ my[t] \in Local /\ i \in 0..(S - 1)
      /\ my' = [my EXCEPT ![t].current = table[i]]
      /\ table' = [table EXCEPT ![i] = Null]
      /\ pc' = [pc EXCEPT ![t] = "sweep"]
      /\ UNCHANGED <<node, live, count>>
      /\ \A j \in 0..(i - 1) : table[j] = Null
  BY DEF TakeList, Goto, ShapeInv, ListsInv, DictTypeOK, ThreadInv, CallInv, SweepInv, Local
<1>2. /\ table[i] \in Pointer /\ Null \in From(table[i])
      /\ [my[t] EXCEPT !.current = table[i]] \in Local
  BY <1>1, ListFacts DEF Local
<1>3. /\ DictTypeOK' /\ OthersStay(t) /\ pc'[t] = "sweep"
      /\ my'[t].current = table[i] /\ my'[t].index = i
      /\ my'[t].op = my[t].op /\ my'[t].key = my[t].key
      /\ table'[i] = Null /\ \A j \in (0..(S - 1)) \ {i} : table'[j] = table[j]
  BY <1>1, <1>2 DEF ShapeInv, ListsInv, DictTypeOK, OthersStay, Local, Sweeping, Pointer
<1>4. /\ Reached(node', table'[i]) = {Null}
      /\ \A j \in (0..(S - 1)) \ {i} : Reached(node', table'[j]) = From(table[j])
      /\ Reached(node', my'[t].current) = From(table[i])
  BY <1>1, <1>3, NullReached DEF From
<1>5. Linked' = UNION {List(j) : j \in (0..(S - 1)) \ {i}}
  BY <1>1, <1>3, <1>4 DEF Linked, List, From
<1>6. Linked = Linked' \cup List(i) /\ Linked' \cap List(i) = {}
  BY <1>1, <1>5, OneList DEF Linked
<1>7. ListsInv'
  <2>1. ASSUME NEW j \in 0..(S - 1)
        PROVE  /\ Null \in Reached(node', table'[j])
               /\ Reached(node', table'[j]) \ {Null} \subseteq live'
               /\ \A m \in Reached(node', table'[j]) \ {Null} : KeyIndex(node'[m].key) = j
    BY <1>1, <1>4, ListFacts DEF List
  <2> QED
    BY <1>3, <2>1 DEF ListsInv, List, From, KeyIndex
<1>8. \A m \in live' : node'[m] \in Node
  BY <1>1 DEF ShapeInv
<1>9. ThreadInv(t)'
  <2>1. CallInv(t)'
    BY <1>1, <1>3 DEF ShapeInv, ThreadInv, CallInv, KeyIndex, Insertion, Walking, Removal, Sweeping
  <2>2. \A j \in 0..i : table'[j] = Null
    BY <1>1, <1>3, DictionaryAssumption
  <2>3. List(i) \subseteq live' \ Linked'
    BY <1>1, <1>6, ListFacts
  <2>4. SweepInv(t)'
    BY <1>2, <1>3, <1>4, <2>2, <2>3 DEF SweepInv, From, List
  <2> QED
    BY <1>3, <2>1, <2>4 DEF ThreadInv, HeldInv, WalkInv
<1>10. \A u \in Threads \ {t} : pc[u] = "idle"
  BY <1>1, OthersIdle DEF Sweeping
<1>11. ShapeInv'
  BY <1>3, <1>7, <1>8, <1>9, <1>10, AloneKeeps
<1> QED
  BY <1>1, <1>4, <1>6, <1>11 DEF List, From

LEMMA SweepStep ==
    ASSUME RemoversAlone, ShapeInv, NEW t \in Threads, Sweep(t)
    PROVE  /\ ShapeInv'
           /\ Linked' = Linked
           /\ live' = live \ {my[t].current}
           /\ pc[t] = "sweep"
           /\ From(my[t].current) \ {Null, my[t].current} \subseteq From(my[t].current)'
           /\ UNCHANGED <<count, pc>>
<1> DEFINE n == my[t].current
<1>1. /\ pc[t] = "sweep" /\ my[t].op # "none" /\ my[t] \in Local
      /\ n \in live /\ Free(n)
      /\ my' = [my EXCEPT ![t].current = node[n].next]
      /\ UNCHANGED <<table, count, pc>>
      /\ Null \in From(n)
      /\ From(n) \ {Null} \subseteq live \ Linked
      /\ \A i \in 0..my[t].index : table[i] = Null
  BY DEF Sweep, ShapeInv, ListsInv, DictTypeOK, ThreadInv, CallInv, SweepInv
<1>2. Heap(node) /\ n \in Nodes /\ n # Null /\ node[n].next \in Pointer
  BY <1>1, HeapTyped, DictionaryAssumption DEF ShapeInv, ListsInv, DictTypeOK, Heap
<1>3. /\ From(n) = {n} \cup Reached(node, node[n].next)
      /\ n \notin Reached(node, node[n].next)
  BY <1>1, <1>2, NodeReached, NoReturn DEF From
<1>4. /\ my' \in [Threads -> Local]
      /\ pc' \in [Threads -> {"idle"} \cup Insertion \cup Walking \cup Removal \cup Sweeping]
      /\ OthersStay(t)
      /\ my'[t].current = node[n].next
      /\ my'[t].op = my[t].op /\ my'[t].key = my[t].key /\ my'[t].index = my[t].index
  <2>1. [my[t] EXCEPT !.current = node[n].next] \in Local
    BY <1>1, <1>2 DEF Local
  <2> QED
    BY <1>1, <2>1 DEF ShapeInv, ListsInv, DictTypeOK, OthersStay, Local
<1>5. /\ Linked' = Linked /\ ListsInv'
      /\ \A m \in live' : node'[m] \in Node
      /\ \A m \in Nodes \ {n} : node'[m] = node[m]
  <2>1. n \in live \ Linked
    BY <1>1, <1>2, <1>3
  <2> QED
    BY <1>1, <1>4, <2>1, FreeKeeps
<1>6. Reached(node', node[n].next) = Reached(node, node[n].next)
  <2>1. Reached(node, node[n].next) \subseteq Pointer
    BY <1>2, ReachedFollows
  <2>2. \A m \in Reached(node, node[n].next) \ {Null} : node'[m].next = node[m].next
    BY <1>3, <1>5, <2>1 DEF Pointer
  <2> QED
    BY <1>2, <2>2, ReachedKept
<1>7. ThreadInv(t)'
  <2>1. CallInv(t)'
    BY <1>1, <1>4 DEF ShapeInv, ThreadInv, CallInv, KeyIndex, Insertion, Walking, Removal, Sweeping
  <2>2. Null \in Reached(node', node[n].next)
    BY <1>1, <1>2, <1>3, <1>6
  <2>3. Reached(node', node[n].next) \ {Null} \subseteq live' \ Linked'
    BY <1>1, <1>3, <1>5, <1>6 DEF Free
  <2>4. SweepInv(t)'
    BY <1>1, <1>4, <2>2, <2>3 DEF SweepInv, From
  <2> QED
    BY <1>1, <1>4, <2>1, <2>4 DEF ThreadInv, HeldInv, WalkInv
<1>8. \A u \in Threads \ {t} : pc[u] = "idle"
  BY <1>1, OthersIdle DEF Sweeping
<1>9. ShapeInv'
  BY <1>4, <1>5, <1>7, <1>8, AloneKeeps
<1> QED
  BY <1>1, <1>3, <1>4, <1>5, <1>6, <1>9 DEF Free, From

-----------------------------------------------------------------------------
(* Every step keeps the lists in shape.                                    *)

LEMMA NodesCounted == Cardinality(Nodes) \in Nat /\ Cardinality(Nodes) < SizeMod /\ SizeMod \in Nat
BY FS_CardinalityType, DictionaryAssumption

LEMMA Counts ==
    /\ \A n \in 0..(SizeMod - 1) : n % SizeMod = n
    /\ \A n \in Int : n % SizeMod \in 0..(SizeMod - 1)
BY NodesCounted

LEMMA ShapeStep ==
    ASSUME RemoversAlone, ShapeInv, NEW t \in Threads, Step(t)
    PROVE  ShapeInv'
<1>1. ASSUME NEW o \in Ops, NEW k \in Keys, Call(t, o, k)
      PROVE  ShapeInv'
  BY <1>1, CallStep
<1>2. CASE New(t) \/ Link(t) \/ Swap(t)
  BY <1>2, NewStep, LinkStep, SwapStep
<1>3. CASE LoadHead(t) \/ WalkOn(t) \/ AddMissing(t) \/ RemoveFound(t) \/ NextList(t)
  BY <1>3, WalkStep
<1>4. CASE Unlink(t) \/ Delete(t) \/ TakeList(t) \/ Sweep(t)
  BY <1>4, UnlinkStep, DeleteStep, TakeListStep, SweepStep
<1>5. CASE NoMemory(t) \/ WalkReturns(t) \/ AddCount(t) \/ SubtractCount(t) \/ ZeroCount(t)
  <2>1. count \in 0..(SizeMod - 1)
    BY DEF ShapeInv, ListsInv, DictTypeOK
  <2>2. count' \in 0..(SizeMod - 1)
    <3>1. CASE AddCount(t) \/ SubtractCount(t)
      BY <2>1, <3>1, Counts DEF AddCount, SubtractCount
    <3>2. CASE ZeroCount(t)
      BY <3>2, NodesCounted DEF ZeroCount
    <3>3. CASE NoMemory(t) \/ WalkReturns(t)
      BY <2>1, <3>3 DEF NoMemory, WalkReturns, shared
    <3> QED
      BY <1>5, <3>1, <3>2, <3>3
  <2>3. Return(t) /\ UNCHANGED <<table, node, live>>
    BY <1>5 DEF NoMemory, WalkReturns, AddCount, SubtractCount, ZeroCount, shared
  <2> QED
    BY <2>2, <2>3, ReturnStep
<1> QED
  BY <1>1, <1>2, <1>3, <1>4, <1>5 DEF Step

LEMMA StepIsOnes ==
    ASSUME ShapeInv, NEW t \in Threads, Step(t)
    PROVE  OthersStay(t)
<1>1. pc \in [Threads -> {"idle"} \cup Insertion \cup Walking \cup Removal \cup Sweeping] /\ my \in [Threads -> Local]
  BY DEF ShapeInv, ListsInv, DictTypeOK
<1>2. ASSUME NEW o \in Ops, NEW k \in Keys, Call(t, o, k)
      PROVE  OthersStay(t)
  BY <1>1, <1>2 DEF Call, Goto, OthersStay
<1>3. CASE New(t) \/ NoMemory(t) \/ Link(t) \/ Swap(t) \/ AddCount(t)
  BY <1>1, <1>3 DEF New, NoMemory, Link, Swap, AddCount, Return, Goto, OthersStay
<1>4. CASE LoadHead(t) \/ WalkOn(t) \/ WalkReturns(t) \/ AddMissing(t) \/ RemoveFound(t)
  BY <1>1, <1>4 DEF LoadHead, WalkOn, WalkReturns, AddMissing, RemoveFound, Return, Goto, OthersStay
<1>5. CASE Unlink(t) \/ Delete(t) \/ SubtractCount(t)
  BY <1>1, <1>5 DEF Unlink, Delete, SubtractCount, Return, Goto, OthersStay
<1>6. CASE TakeList(t) \/ Sweep(t) \/ NextList(t) \/ ZeroCount(t)
  BY <1>1, <1>6 DEF TakeList, Sweep, NextList, ZeroCount, Return, Goto, OthersStay
<1> QED
  BY <1>2, <1>3, <1>4, <1>5, <1>6 DEF Step

-----------------------------------------------------------------------------
(* Nothing is lost.                                                        *)

LEMMA LostKeeps ==
    ASSUME RemoversAlone, ShapeInv, NothingLost, NEW t \in Threads, OthersStay(t),
           pc[t] # "idle" \/ UNCHANGED node,
           live' \ live \subseteq Held(t)',
           (Linked \cup Held(t)) \cap live' \subseteq Linked' \cup Held(t)'
    PROVE  NothingLost'
<1>1. ASSUME NEW u \in Threads, u # t
      PROVE  Held(u)' = Held(u)
  <2>1. pc'[u] = pc[u] /\ my'[u] = my[u]
    BY <1>1 DEF OthersStay
  <2>2. CASE UNCHANGED node
    BY <2>1, <2>2 DEF Held, From
  <2>3. CASE pc[t] # "idle"
    BY <1>1, <2>1, <2>3, NoRemoverBeside DEF Held, Removal, Sweeping
  <2> QED
    BY <2>2, <2>3
<1> QED
  BY <1>1 DEF NothingLost

LEMMA NothingLostStep ==
    ASSUME RemoversAlone, ShapeInv, NothingLost, NEW t \in Threads, Step(t)
    PROVE  NothingLost'
<1>1. OthersStay(t) /\ pc \in [Threads -> {"idle"} \cup Insertion \cup Walking \cup Removal \cup Sweeping]
  BY StepIsOnes DEF ShapeInv, ListsInv, DictTypeOK
<1>2. ASSUME UNCHANGED <<table, node, live>>, Held(t) \cap live = {}
      PROVE  NothingLost'
  <2>1. Linked' = Linked
    BY <1>2 DEF Linked, List, From
  <2> QED
    BY <1>1, <1>2, <2>1, LostKeeps
<1>3. ASSUME NEW o \in Ops, NEW k \in Keys, Call(t, o, k)
      PROVE  NothingLost'
  BY <1>2, <1>3 DEF Call, shared, Held
<1>4. CASE NoMemory(t) \/ AddCount(t) \/ WalkReturns(t) \/ SubtractCount(t) \/ ZeroCount(t)
  BY <1>2, <1>4
     DEF NoMemory, AddCount, WalkReturns, SubtractCount, ZeroCount, AtKey, AtEnd, Looks, shared, Held
<1>5. CASE LoadHead(t) \/ WalkOn(t) \/ AddMissing(t) \/ RemoveFound(t)
  BY <1>2, <1>5 DEF LoadHead, WalkOn, AddMissing, RemoveFound, AtKey, AtEnd, Looks, shared, Held
<1>6. CASE NextList(t)
  <2>1. Held(t) = {Null} /\ Null \notin live
    BY <1>6, NullReached, DictionaryAssumption
       DEF NextList, Held, From, ShapeInv, ListsInv, DictTypeOK
  <2> QED
    BY <1>2, <1>6, <2>1 DEF NextList, shared
<1>7. CASE New(t)
  <2>1. pc[t] = "new" /\ Held(t) = {}
    BY <1>7 DEF New, Held
  <2> QED
    BY <1>1, <1>7, <2>1, NewStep, LostKeeps
<1>8. CASE Link(t)
  <2>1. /\ pc[t] = "link" /\ live' = live
        /\ Held(t) = {my[t].current} /\ Held(t)' = {my[t].current}
    BY <1>1, <1>8 DEF Link, Goto, Held, ShapeInv, ListsInv, DictTypeOK, Local
  <2> QED
    BY <1>1, <1>8, <2>1, LinkStep, LostKeeps
<1>9. CASE Swap(t)
  <2>1. pc[t] = "swap" /\ Held(t) = {my[t].current}
    BY <1>9 DEF Swap, Held
  <2>2. pc'[t] = "link" => Held(t)' = {my[t].current}
    BY <1>9 DEF Swap, Held
  <2> QED
    BY <1>1, <1>9, <2>1, <2>2, SwapStep, LostKeeps
<1>10. CASE Unlink(t)
  <2>1. pc[t] = "unlink" /\ Held(t) = {}
    BY <1>10 DEF Unlink, Held
  <2>2. Held(t)' = {my[t].current}
    BY <1>1, <1>10, UnlinkStep DEF Held
  <2> QED
    BY <1>1, <1>10, <2>1, <2>2, UnlinkStep, LostKeeps
<1>11. CASE Delete(t)
  <2>1. pc[t] = "delete" /\ Held(t) = {my[t].current}
    BY <1>11 DEF Delete, Held
  <2> QED
    BY <1>1, <1>11, <2>1, DeleteStep, LostKeeps
<1>12. CASE TakeList(t)
  <2>1. pc[t] = "take" /\ Held(t) = {}
    BY <1>12 DEF TakeList, Held
  <2>2. Held(t)' = From(my[t].current)'
    BY <1>1, <1>12, TakeListStep DEF Held, From
  <2> QED
    BY <1>1, <1>12, <2>1, <2>2, TakeListStep, LostKeeps
<1>13. CASE Sweep(t)
  <2>1. /\ pc[t] = "sweep" /\ pc'[t] = "sweep"
        /\ Held(t) = From(my[t].current) /\ Null \notin live'
    BY <1>13, SweepStep, DictionaryAssumption DEF Held, ShapeInv, ListsInv, DictTypeOK
  <2>2. Held(t)' = From(my[t].current)'
    BY <2>1 DEF Held, From
  <2> QED
    BY <1>1, <1>13, <2>1, <2>2, SweepStep, LostKeeps
<1> QED
  BY <1>3, <1>4, <1>5, <1>6, <1>7, <1>8, <1>9, <1>10, <1>11, <1>12, <1>13 DEF Step

-----------------------------------------------------------------------------
(* No look-up misses.                                                      *)

\* What the walk of a thread that looks for a key has before it.
Sees(t) ==
    pc[t] = "walk" /\ my[t].had /\ my[t].sought = my[t].key =>
        \E n \in From(my[t].current) \ {Null} : node[n].key = my[t].key

\* A walk goes on over the same nodes while the linked ones stay as they are.
LEMMA LookupKeeps ==
    ASSUME ShapeInv, LookupInv, NEW t \in Threads, OthersStay(t),
           \/ \A u \in Threads \ {t} : pc[u] = "idle"
           \/ \A n \in Linked : node'[n] = node[n],
           Sees(t)'
    PROVE  LookupInv'
<1>1. ASSUME NEW u \in Threads, u # t, pc[u] = "walk", \A n \in Linked : node'[n] = node[n]
      PROVE  /\ Reached(node', my[u].current) = From(my[u].current)
             /\ From(my[u].current) \ {Null} \subseteq Linked
  <2> DEFINE i == my[u].index
  <2>1. /\ my[u].current \in From(table[i]) /\ i \in 0..(S - 1)
        /\ my[u].current \in Pointer
        /\ Heap(node)
    BY <1>1, HeapTyped DEF ShapeInv, ThreadInv, WalkInv, ListsInv, DictTypeOK, Local
  <2>2. From(my[u].current) \subseteq From(table[i])
    BY <2>1, ListFacts, ReachedOnward DEF From
  <2>3. From(my[u].current) \ {Null} \subseteq Linked
    BY <2>1, <2>2, ListFacts
  <2>4. \A n \in Reached(node, my[u].current) \ {Null} : node'[n].next = node[n].next
    BY <1>1, <2>3 DEF From
  <2> QED
    BY <2>1, <2>3, <2>4, ReachedKept DEF From
<1>2. ASSUME NEW u \in Threads, u # t
      PROVE  Sees(u)'
  <2>1. pc'[u] = pc[u] /\ my'[u] = my[u] /\ Sees(u)
    BY <1>2 DEF OthersStay, LookupInv, Sees
  <2>2. CASE pc[u] # "walk"
    BY <2>1, <2>2 DEF Sees
  <2>3. CASE pc[u] = "walk"
    <3>1. \A n \in Linked : node'[n] = node[n]
      BY <1>2, <2>3
    <3> QED
      BY <1>1, <1>2, <2>1, <2>3, <3>1 DEF Sees, From
  <2> QED
    BY <2>2, <2>3
<1> QED
  BY <1>2 DEF LookupInv, Sees

LEMMA LookupStep ==
    ASSUME RemoversAlone, ShapeInv, LookupInv, NEW t \in Threads, Step(t)
    PROVE  LookupInv'
<1>1. /\ OthersStay(t)
      /\ pc \in [Threads -> {"idle"} \cup Insertion \cup Walking \cup Removal \cup Sweeping]
      /\ my \in [Threads -> Local]
  BY StepIsOnes DEF ShapeInv, ListsInv, DictTypeOK
<1>2. ASSUME pc'[t] # "walk", UNCHANGED node
      PROVE  LookupInv'
  BY <1>1, <1>2, LookupKeeps DEF Sees
<1>3. ASSUME NEW o \in Ops, NEW k \in Keys, Call(t, o, k)
      PROVE  LookupInv'
  BY <1>1, <1>2, <1>3 DEF Call, Goto, FirstStep, shared
<1>4. CASE NoMemory(t) \/ AddCount(t) \/ WalkReturns(t) \/ SubtractCount(t) \/ ZeroCount(t)
  BY <1>1, <1>2, <1>4
     DEF NoMemory, AddCount, WalkReturns, SubtractCount, ZeroCount, Return, Goto, shared
<1>5. CASE AddMissing(t) \/ RemoveFound(t) \/ Swap(t) \/ NextList(t)
  BY <1>1, <1>2, <1>5 DEF AddMissing, RemoveFound, Swap, NextList, Goto, shared
<1>6. CASE LoadHead(t)
  <2>1. /\ pc[t] = "head" /\ UNCHANGED <<table, node>>
        /\ my'[t].current = table[my[t].index]
        /\ my'[t].had = my[t].had /\ my'[t].key = my[t].key
    BY <1>1, <1>6 DEF LoadHead, shared, Local
  <2>2. my[t].had => \E n \in List(my[t].index) : node[n].key = my[t].key
    BY <2>1 DEF ShapeInv, ThreadInv, WalkInv
  <2>3. Sees(t)'
    BY <2>1, <2>2 DEF Sees, List, From
  <2> QED
    BY <1>1, <2>1, <2>3, LookupKeeps
<1>7. CASE WalkOn(t)
  <2> DEFINE n == my[t].current
  <2>1. /\ pc[t] = "walk" /\ UNCHANGED <<table, node>>
        /\ n \in live /\ node[n].key # my[t].sought
        /\ my'[t].current = node[n].next
        /\ my'[t].had = my[t].had /\ my'[t].key = my[t].key
        /\ my'[t].sought = my[t].sought
    BY <1>1, <1>7 DEF WalkOn, AtKey, Looks, shared, Local
  <2>2. From(n) = {n} \cup From(node[n].next)
    BY <2>1, HeapTyped, NodeReached DEF From, ShapeInv, ListsInv, DictTypeOK
  <2>3. Sees(t)
    BY DEF LookupInv, Sees
  <2>4. Sees(t)'
    BY <2>1, <2>2, <2>3 DEF Sees, From
  <2> QED
    BY <1>1, <2>1, <2>4, LookupKeeps
<1>8. CASE New(t)
  <2>1. pc'[t] # "walk"
    BY <1>1, <1>8 DEF New, Goto
  <2> QED
    BY <1>1, <1>8, <2>1, NewStep, LookupKeeps DEF Sees
<1>9. CASE Link(t)
  <2>1. pc'[t] # "walk"
    BY <1>1, <1>9 DEF Link, Goto
  <2> QED
    BY <1>1, <1>9, <2>1, LinkStep, LookupKeeps DEF Sees
<1>10. CASE Unlink(t) \/ Delete(t) \/ TakeList(t) \/ Sweep(t)
  <2>1. pc'[t] # "walk" /\ pc[t] \in Removal \cup Sweeping /\ pc[t] # "idle"
    BY <1>1, <1>10 DEF Unlink, Delete, TakeList, Sweep, Goto, Removal, Sweeping
  <2> QED
    BY <1>1, <2>1, OthersIdle, LookupKeeps DEF Sees
<1> QED
  BY <1>3, <1>4, <1>5, <1>6, <1>7, <1>8, <1>9, <1>10 DEF Step

-----------------------------------------------------------------------------
(* The counter.                                                            *)

Clearing == At("zero") \cup At("sweep") \cup At("take")
Uncounted == At("delete") \cup At("subtract")

LEMMA CountedSets ==
    ASSUME ShapeInv
    PROVE  /\ IsFiniteSet(Linked) /\ Cardinality(Linked) \in Nat
           /\ Cardinality(Linked) < SizeMod
           /\ IsFiniteSet(At("add")) /\ Cardinality(At("add")) \in Nat
           /\ count \in Nat
<1>1. Linked \subseteq Nodes /\ At("add") \subseteq Threads /\ count \in Nat
  BY DEF Linked, At, ShapeInv, ListsInv, DictTypeOK
<1>2. IsFiniteSet(Nodes) /\ IsFiniteSet(Threads)
  BY DictionaryAssumption
<1>3. /\ IsFiniteSet(Linked) /\ Cardinality(Linked) <= Cardinality(Nodes)
      /\ IsFiniteSet(At("add"))
  BY <1>1, <1>2, FS_Subset
<1>4. Cardinality(Linked) \in Nat /\ Cardinality(At("add")) \in Nat
  BY <1>3, FS_CardinalityType
<1> QED
  BY <1>1, <1>3, <1>4, NodesCounted

\* Steps that the counter has nothing to do with.
LEMMA CountKeeps ==
    ASSUME ShapeInv, CountInv, NEW t \in Threads, OthersStay(t),
           pc[t] \notin Sweeping, Linked' = Linked, count' = count,
           pc[t] = "add" <=> pc'[t] = "add",
           pc[t] \in {"delete", "subtract"} <=> pc'[t] \in {"delete", "subtract"}
    PROVE  CountInv'
<1>1. /\ At("add")' = At("add")
      /\ At("delete")' \cup At("subtract")' = At("delete") \cup At("subtract")
      /\ At("zero") \cup At("sweep") \cup At("take") \subseteq
           At("zero")' \cup At("sweep")' \cup At("take")'
  BY DEF At, OthersStay, Sweeping
<1> QED
  BY <1>1 DEF CountInv

\* clear() is on its way.
LEMMA ClearingKeeps ==
    ASSUME NEW t \in Threads, pc'[t] \in Sweeping
    PROVE  CountInv'
BY DEF CountInv, At, Sweeping

\* When a thread is not idle, no other removes or clears.
LEMMA AtOnes ==
    ASSUME RemoversAlone, ShapeInv, NEW t \in Threads, pc[t] # "idle", pc[t] \notin Sweeping
    PROVE  /\ Clearing = {}
           /\ Uncounted \subseteq {t}
           /\ pc[t] \in Removal => At("add") = {}
BY NoRemoverBeside, OthersIdle DEF At, Clearing, Uncounted, Removal, Sweeping

LEMMA CountStep ==
    ASSUME RemoversAlone, ShapeInv, CountInv, NEW t \in Threads, Step(t)
    PROVE  CountInv'
<1> USE DEF Insertion, Walking, Removal, Sweeping
<1>1. /\ OthersStay(t)
      /\ pc \in [Threads -> {"idle"} \cup Insertion \cup Walking \cup Removal \cup Sweeping]
      /\ count \in Nat
  BY StepIsOnes DEF ShapeInv, ListsInv, DictTypeOK
<1>2. ASSUME UNCHANGED <<table, node, count>>,
             pc[t] \notin {"add", "delete", "subtract"} \cup Sweeping,
             pc'[t] \notin {"add", "delete", "subtract"}
      PROVE  CountInv'
  <2>1. Linked' = Linked
    BY <1>2 DEF Linked, List, From
  <2> QED
    BY <1>1, <1>2, <2>1, CountKeeps
<1>3. ASSUME NEW o \in Ops, NEW k \in Keys, Call(t, o, k)
      PROVE  CountInv'
  BY <1>1, <1>2, <1>3 DEF Call, Goto, FirstStep, shared
<1>4. CASE NoMemory(t) \/ WalkReturns(t)
  BY <1>1, <1>2, <1>4 DEF NoMemory, WalkReturns, AtKey, AtEnd, Looks, Return, Goto, shared
<1>5. CASE LoadHead(t) \/ WalkOn(t) \/ AddMissing(t) \/ RemoveFound(t)
  BY <1>1, <1>2, <1>5
     DEF LoadHead, WalkOn, AddMissing, RemoveFound, AtKey, AtEnd, Looks, Goto, shared
<1>6. CASE TakeList(t) \/ Sweep(t) \/ NextList(t)
  <2>1. pc'[t] \in Sweeping
    BY <1>1, <1>6 DEF TakeList, Sweep, NextList, Goto
  <2> QED
    BY <2>1, ClearingKeeps
<1>7. CASE New(t)
  <2>1. pc[t] = "new" /\ pc'[t] = "link" /\ count' = count
    BY <1>1, <1>7 DEF New, Goto
  <2> QED
    BY <1>1, <1>7, <2>1, NewStep, CountKeeps
<1>8. CASE Link(t)
  <2>1. pc[t] = "link" /\ pc'[t] = "swap" /\ count' = count
    BY <1>1, <1>8 DEF Link, Goto
  <2> QED
    BY <1>1, <1>8, <2>1, LinkStep, CountKeeps
<1>9. CASE Delete(t)
  <2>1. pc[t] = "delete" /\ pc'[t] = "subtract" /\ count' = count /\ Linked' = Linked
    BY <1>1, <1>9, DeleteStep DEF Delete
  <2> QED
    BY <1>1, <2>1, CountKeeps
<1>10. CASE Swap(t) \/ AddCount(t) \/ Unlink(t) \/ SubtractCount(t)
  <2>1. /\ pc[t] # "idle" /\ pc[t] \notin Sweeping
        /\ pc[t] \notin Removal => Uncounted = {}
        /\ pc[t] \in {"delete", "subtract"} => Uncounted = {t}
        /\ pc[t] = "unlink" => Uncounted = {}
    <3>1. pc[t] # "idle" /\ pc[t] \notin Sweeping
      BY <1>10 DEF Swap, AddCount, Unlink, SubtractCount
    <3> QED
      BY <3>1, AtOnes DEF Uncounted, At
  <2>2. count + Cardinality(At("add")) = Cardinality(Linked) + Cardinality(Uncounted)
    BY <2>1, AtOnes DEF CountInv, Clearing, Uncounted
  <2>3. Cardinality({}) = 0 /\ Cardinality({t}) = 1
    BY FS_EmptySet, FS_Singleton
  <2>4. pc[t] \notin {"delete", "subtract"} => count + Cardinality(At("add")) = Cardinality(Linked)
    <3>1. pc[t] \notin {"delete", "subtract"} => Cardinality(Uncounted) = 0
      BY <1>1, <2>1, <2>3
    <3> QED
      BY <2>2, <3>1, CountedSets
  <2>5. ASSUME count' + Cardinality(At("add")') =
                 Cardinality(Linked') + Cardinality(At("delete")' \cup At("subtract")')
        PROVE  CountInv'
    BY <2>5 DEF CountInv
  <2>6. CASE Swap(t)
    <3>1. pc[t] = "swap" /\ count' = count
      BY <2>6 DEF Swap
    <3>2. CASE pc'[t] = "link" /\ Linked' = Linked
      BY <1>1, <3>1, <3>2, CountKeeps
    <3>3. CASE /\ pc'[t] = "add"
               /\ Linked' = Linked \cup {my[t].current}
               /\ my[t].current \notin Linked
      <4>1. /\ At("add")' = At("add") \cup {t} /\ t \notin At("add")
            /\ At("delete")' \cup At("subtract")' = Uncounted
        BY <1>1, <3>1, <3>3 DEF At, Uncounted, OthersStay
      <4>2. Cardinality(At("add")') = Cardinality(At("add")) + 1
        BY <4>1, CountedSets, FS_AddElement
      <4>3. Cardinality(Linked') = Cardinality(Linked) + 1
        BY <3>3, CountedSets, FS_AddElement
      <4>4. Cardinality(At("delete")' \cup At("subtract")') = 0
        BY <2>1, <2>3, <3>1, <4>1
      <4>5. count + Cardinality(At("add")) = Cardinality(Linked)
        BY <2>4, <3>1
      <4> QED
        BY <2>5, <3>1, <4>2, <4>3, <4>4, <4>5, CountedSets
    <3> QED
      BY <2>6, <3>2, <3>3, SwapStep
  <2>7. CASE AddCount(t)
    <3>1. /\ pc[t] = "add" /\ pc'[t] = "idle"
          /\ count' = (count + 1) % SizeMod /\ UNCHANGED <<table, node>>
      BY <1>1, <2>7 DEF AddCount, Return, Goto
    <3>2. /\ At("add")' = At("add") \ {t} /\ t \in At("add")
          /\ At("delete")' \cup At("subtract")' = Uncounted
      BY <1>1, <3>1 DEF At, Uncounted, OthersStay
    <3>3. Cardinality(At("add")') = Cardinality(At("add")) - 1
      BY <3>2, CountedSets, FS_RemoveElement
    <3>4. Cardinality(At("add")) # 0
      BY <3>2, CountedSets, FS_EmptySet
    <3>5. count + 1 <= Cardinality(Linked)
      <4>1. count + Cardinality(At("add")) = Cardinality(Linked)
        BY <2>4, <3>1
      <4> QED
        BY <3>4, <4>1, CountedSets
    <3>6. count' = count + 1
      <4>1. count + 1 \in 0..(SizeMod - 1)
        BY <3>5, CountedSets, NodesCounted
      <4> QED
        BY <3>1, <4>1, Counts
    <3>7. Linked' = Linked
      BY <3>1 DEF Linked, List, From
    <3> QED
      <4>1. Cardinality(At("delete")' \cup At("subtract")') = 0
        BY <2>1, <2>3, <3>1, <3>2
      <4>2. count + Cardinality(At("add")) = Cardinality(Linked)
        BY <2>4, <3>1
      <4> QED
        BY <2>5, <3>3, <3>6, <3>7, <4>1, <4>2, CountedSets
  <2>8. CASE Unlink(t)
    <3>1. /\ pc[t] = "unlink" /\ pc'[t] = "delete" /\ count' = count
          /\ Linked' = Linked \ {my[t].current} /\ my[t].current \in Linked
      BY <1>1, <2>8, UnlinkStep DEF Unlink
    <3>2. /\ At("add")' = At("add") /\ At("add") = {}
          /\ At("delete")' \cup At("subtract")' = {t}
      <4>1. At("add") = {} /\ Uncounted = {}
        BY <2>1, <3>1, AtOnes
      <4> QED
        BY <1>1, <3>1, <4>1 DEF At, Uncounted, OthersStay
    <3>3. Cardinality(Linked') = Cardinality(Linked) - 1
      BY <3>1, CountedSets, FS_RemoveElement
    <3> QED
      <4>1. count = Cardinality(Linked)
        <5>1. count + Cardinality(At("add")) = Cardinality(Linked)
          BY <2>4, <3>1
        <5>2. Cardinality(At("add")) = 0
          BY <2>3, <3>2
        <5> QED
          BY <5>1, <5>2, CountedSets
      <4>2. Cardinality(At("delete")' \cup At("subtract")') = 1 /\ Cardinality(At("add")') = 0
        BY <2>3, <3>2
      <4> QED
        BY <2>5, <3>1, <3>3, <4>1, <4>2, CountedSets
  <2>9. CASE SubtractCount(t)
    <3>1. /\ pc[t] = "subtract" /\ pc'[t] = "idle"
          /\ count' = (count - 1) % SizeMod /\ UNCHANGED <<table, node>>
      BY <1>1, <2>9 DEF SubtractCount, Return, Goto
    <3>2. /\ At("add")' = {} /\ At("add") = {}
          /\ At("delete")' \cup At("subtract")' = {}
      <4>1. At("add") = {} /\ Uncounted \subseteq {t}
        BY <3>1, AtOnes
      <4> QED
        BY <1>1, <3>1, <4>1 DEF At, Uncounted, OthersStay
    <3>3. count' = count - 1 /\ count = Cardinality(Linked) + 1
      <4>1. count = Cardinality(Linked) + 1
        <5>1. Cardinality(Uncounted) = 1 /\ Cardinality(At("add")) = 0
          BY <2>1, <2>3, <3>1, <3>2
        <5> QED
          BY <2>2, <5>1, CountedSets
      <4>2. count - 1 \in 0..(SizeMod - 1)
        BY <4>1, CountedSets, NodesCounted
      <4> QED
        BY <3>1, <4>1, <4>2, Counts
    <3>4. Linked' = Linked
      BY <3>1 DEF Linked, List, From
    <3> QED
      <4>1. Cardinality(At("delete")' \cup At("subtract")') = 0 /\ Cardinality(At("add")') = 0
        BY <2>3, <3>2
      <4> QED
        BY <2>5, <3>3, <3>4, <4>1, CountedSets
  <2> QED
    BY <1>10, <2>6, <2>7, <2>8, <2>9
<1>11. CASE ZeroCount(t)
  <2>1. /\ pc[t] = "zero" /\ pc'[t] = "idle" /\ count' = 0 /\ UNCHANGED <<table, node>>
        /\ \A i \in 0..(S - 1) : table[i] = Null
        /\ \A u \in Threads \ {t} : pc[u] = "idle"
    BY <1>1, <1>11, OthersIdle DEF ZeroCount, Return, Goto, ShapeInv, ThreadInv, SweepInv
  <2>2. Linked' = {}
    BY <2>1, NullReached DEF Linked, List, From
  <2>3. At("add")' = {} /\ At("delete")' \cup At("subtract")' = {}
    BY <1>1, <2>1 DEF At, OthersStay
  <2> QED
    BY <2>1, <2>2, <2>3, FS_EmptySet DEF CountInv
<1> QED
  BY <1>3, <1>4, <1>5, <1>6, <1>7, <1>8, <1>9, <1>10, <1>11 DEF Step

-----------------------------------------------------------------------------
(* The theorems.                                                           *)

LEMMA DictStutters ==
    ASSUME DictIInv, UNCHANGED dictVars
    PROVE  DictIInv'
<1>1. Linked' = Linked
  BY DEF dictVars, shared, Linked, List, From
<1>2. \A label : At(label)' = At(label)
  BY DEF dictVars, At
<1>3. ShapeInv'
  <2>1. \A t \in Threads : ThreadInv(t)'
    BY <1>1
       DEF DictIInv, ShapeInv, dictVars, shared, ThreadInv, CallInv, HeldInv, WalkInv, BehindInv, SweepInv,
           List, From
  <2>2. \A t, u \in Threads : t # u => PairInv(t, u)'
    BY DEF DictIInv, ShapeInv, dictVars, PairInv
  <2>3. ListsInv'
    BY DEF DictIInv, ShapeInv, dictVars, shared, ListsInv, DictTypeOK, List, From
  <2> QED
    BY <2>1, <2>2, <2>3 DEF DictIInv, ShapeInv, dictVars, shared
<1>4. NothingLost'
  BY <1>1 DEF DictIInv, NothingLost, Held, From, dictVars, shared
<1>5. LookupInv'
  BY DEF DictIInv, LookupInv, From, dictVars, shared
<1>6. CountInv'
  BY <1>1, <1>2 DEF DictIInv, CountInv, dictVars, shared
<1> QED
  BY <1>3, <1>4, <1>5, <1>6 DEF DictIInv

LEMMA DictInductive == RemoversAlone => (DictSpec => []DictIInv)
<1> SUFFICES ASSUME RemoversAlone
             PROVE  DictSpec => []DictIInv
  OBVIOUS
<1>1. DictInit => DictIInv
  BY DictInitInvariant
<1>2. DictIInv /\ [DictNext]_dictVars => DictIInv'
  BY ShapeStep, NothingLostStep, LookupStep, CountStep, DictStutters DEF DictIInv, DictNext
<1> QED
  BY <1>1, <1>2, PTL DEF DictSpec

\* The types of the dictionary's state, and that every list of it ends, holds
\* only nodes of its own keys and none that has been freed, whatever
\* insertions race each other and the look-ups (insert(), emplace() and the
\* walks of dictionary_t); remove() and clear() are called alone.
THEOREM ListsSound == RemoversAlone => (DictSpec => []ListsInv)
BY DictInductive, PTL DEF DictIInv, ShapeInv

\* Every node inserted and not removed stays in its list: the
\* compare-and-swap of insert() undoes no other insertion, and remove() and
\* clear(), called alone, undo none.  (Called beside an insertion, remove()
\* does: the run dictionary_loses.)
THEOREM InsertedIsKept == RemoversAlone => (DictSpec => []NothingLost)
BY DictInductive, PTL DEF DictIInv

\* The walk of find(), contains(), at(), insert_or_assign() and try_emplace()
\* does not miss a key that was in the dictionary when the call began, however
\* many nodes insertions put at the head of its list meanwhile.
THEOREM LookupMissesNothing == RemoversAlone => (DictSpec => []LookupInv)
BY DictInductive, PTL DEF DictIInv

\* size() differs from the number of linked nodes by the calls that have
\* linked or unlinked one and not counted it yet (fetch_add and fetch_sub
\* come after), and the counter wraps on neither side.
THEOREM SizeIsExact == RemoversAlone => (DictSpec => []CountInv)
BY DictInductive, PTL DEF DictIInv

-----------------------------------------------------------------------------
(* stack_t and buffer_t.                                                   *)

StackLabels == {"out", "unpush", "store", "unpull", "load"}
BufferLabels == {"out", "head", "write", "publish", "tail", "take", "restore"}
Labels == StackLabels \cup BufferLabels
Slots == 0..(Size - 1)

ContainersTypeOK ==
    /\ class \in {"stack", "buffer"}
    /\ count_ \in Int
    /\ head_ \in Slots /\ tail_ \in Slots
    /\ data_ \in [Slots -> Nat]
    /\ at \in [Callers -> Labels]
    /\ read \in [Callers -> Int]
    /\ limit \in [Callers -> Int]
    /\ item \in [Callers -> Nat]
    /\ puts \in Nat
    /\ stores \in Nat
    /\ got \in Seq(Nat)

\* What a caller has read, where it goes on with it.
CallerInv(t) ==
    /\ class = "stack" => at[t] \in StackLabels
    /\ class = "buffer" => at[t] \in BufferLabels
    /\ at[t] \in {"store", "head", "write", "publish", "tail", "take"} => read[t] \in Slots
    /\ at[t] = "load" => read[t] \in Nat
    /\ at[t] \in {"take", "restore"} => limit[t] \in Slots

Doing(label) == {t \in Callers : at[t] = label}
Many(label) == Cardinality(Doing(label))

\* Puts that were let in less takes that were: callers that turn back do not
\* count, and can carry it past either end of the array.
Kept == (stores + Many("store")) - (Len(got) + Many("load"))

StackInv ==
    class = "stack" =>
        /\ count_ = Kept + Many("unpush") - Many("unpull")
        /\ Kept \in (-Cardinality(Callers))..(Size + Cardinality(Callers))

ContainersIInv ==
    /\ ContainersTypeOK
    /\ \A t \in Callers : CallerInv(t)
    /\ StackInv

LEMMA CallersCounted == Cardinality(Callers) \in Nat
BY ContainersAssumption, FS_CardinalityType

LEMMA DoingCounted ==
    ASSUME NEW label
    PROVE  /\ IsFiniteSet(Doing(label))
           /\ Many(label) \in 0..Cardinality(Callers)
           /\ \A t \in Callers : at[t] # label => Many(label) < Cardinality(Callers)
<1>1. Doing(label) \subseteq Callers /\ IsFiniteSet(Callers)
  BY ContainersAssumption DEF Doing
<1>2. IsFiniteSet(Doing(label)) /\ Many(label) <= Cardinality(Callers)
  BY <1>1, FS_Subset DEF Many
<1>3. Many(label) \in Nat
  BY <1>2, FS_CardinalityType DEF Many
<1>4. ASSUME NEW t \in Callers, at[t] # label
      PROVE  Many(label) # Cardinality(Callers)
  BY <1>1, <1>4, FS_Subset DEF Doing, Many
<1> QED
  BY <1>2, <1>3, <1>4, CallersCounted

\* One caller goes from one step to another.
LEMMA OneGoes ==
    ASSUME ContainersTypeOK, NEW t \in Callers, NEW next, Go(t, next), at[t] # next, NEW label
    PROVE  /\ label = next => Many(label)' = Many(label) + 1
           /\ label = at[t] => Many(label)' = Many(label) - 1
           /\ label \notin {next, at[t]} => Many(label)' = Many(label)
<1>1. IsFiniteSet(Doing(label)) /\ Many(label) \in Nat
  BY DoingCounted
<1>2. /\ label = next => Doing(label)' = Doing(label) \cup {t} /\ t \notin Doing(label)
      /\ label = at[t] => Doing(label)' = Doing(label) \ {t} /\ t \in Doing(label)
      /\ label \notin {next, at[t]} => Doing(label)' = Doing(label)
  BY DEF Go, Doing, ContainersTypeOK
<1>3. CASE label = next
  BY <1>1, <1>2, <1>3, FS_AddElement DEF Many
<1>4. CASE label = at[t]
  BY <1>1, <1>2, <1>4, FS_RemoveElement DEF Many
<1>5. CASE label \notin {next, at[t]}
  BY <1>2, <1>5 DEF Many
<1> QED
  BY <1>3, <1>4, <1>5

\* No put is let in by a count that has gone round.
LEMMA LetIn ==
    ASSUME ContainersIInv, class = "stack", ~Refused(count_)
    PROVE  count_ \in Slots
<1> DEFINE C == Cardinality(Callers)
<1>1. count_ \in (-(2 * C))..(Size + 2 * C)
  BY CallersCounted, DoingCounted, ContainersAssumption DEF ContainersIInv, StackInv
<1>2. count_ < 0 => count_ % Width = count_ + Width
  BY <1>1, CallersCounted, ContainersAssumption
<1>3. count_ >= 0 => count_ % Width = count_
  BY <1>1, CallersCounted, ContainersAssumption
<1> QED
  BY <1>1, <1>2, <1>3, CallersCounted, ContainersAssumption DEF Refused, Slots

LEMMA ContainersInitInvariant == ContainersInit => ContainersIInv
<1> SUFFICES ASSUME ContainersInit
             PROVE  ContainersIInv
  OBVIOUS
<1>1. ContainersTypeOK
  BY ContainersAssumption
     DEF ContainersInit, ContainersTypeOK, Slots, Labels, StackLabels, BufferLabels
<1>2. \A t \in Callers : CallerInv(t)
  BY DEF ContainersInit, CallerInv, StackLabels, BufferLabels
<1>3. Many("store") = 0 /\ Many("load") = 0 /\ Many("unpush") = 0 /\ Many("unpull") = 0
  <2>1. /\ Doing("store") = {} /\ Doing("load") = {}
        /\ Doing("unpush") = {} /\ Doing("unpull") = {}
    BY DEF ContainersInit, Doing
  <2> QED
    BY <2>1, FS_EmptySet DEF Many
<1>4. Kept = 0 /\ count_ = 0
  BY <1>3 DEF Kept, ContainersInit
<1>5. StackInv
  BY <1>3, <1>4, CallersCounted, ContainersAssumption DEF StackInv
<1> QED
  BY <1>1, <1>2, <1>5 DEF ContainersIInv

-----------------------------------------------------------------------------
(* Each step keeps the invariant: the caller's own part, and the counts.   *)

LEMMA CallerStep ==
    ASSUME ContainersIInv, NEW t \in Callers, class' = class,
           \A u \in Callers \ {t} : at'[u] = at[u] /\ read'[u] = read[u] /\ limit'[u] = limit[u],
           ContainersTypeOK', CallerInv(t)', StackInv'
    PROVE  ContainersIInv'
BY DEF ContainersIInv, CallerInv

LEMMA StackCounts ==
    ASSUME ContainersIInv, NEW t \in Callers, StackStep(t)
    PROVE  StackInv' /\ class = "stack"
<1> DEFINE C == Cardinality(Callers)
<1>1. /\ class = "stack" /\ class' = class /\ ContainersTypeOK
      /\ count_ = Kept + Many("unpush") - Many("unpull")
      /\ Kept \in (-C)..(Size + C)
      /\ at \in [Callers -> Labels]
  BY DEF StackStep, PushCount, PushUndo, PushSlot, PullCount, PullUndo, PullSlot,
         ContainersIInv, CallerInv, BufferLabels, StackInv, ContainersTypeOK
<1>2. /\ C \in Nat /\ Size \in Nat /\ count_ \in Int
      /\ stores \in Nat /\ Len(got) \in Nat
  BY CallersCounted, ContainersAssumption DEF ContainersIInv, ContainersTypeOK
<1>3. /\ Many("store") \in 0..C /\ Many("load") \in 0..C
      /\ Many("unpush") \in 0..C /\ Many("unpull") \in 0..C
      /\ Kept \in Int
  BY <1>1, <1>2, DoingCounted
<1>4. ASSUME count_' = Kept' + Many("unpush")' - Many("unpull")', Kept' \in (-C)..(Size + C)
      PROVE  StackInv'
  BY <1>4 DEF StackInv
<1>5. CASE PushCount(t)
  <2>1. /\ at[t] = "out" /\ count_' = count_ + 1 /\ stores' = stores /\ got' = got
        /\ Go(t, IF Refused(count_) THEN "unpush" ELSE "store")
    BY <1>5 DEF PushCount, PutBegins
  <2>2. CASE Refused(count_)
    <3>1. /\ Many("store")' = Many("store") /\ Many("load")' = Many("load")
          /\ Many("unpush")' = Many("unpush") + 1 /\ Many("unpull")' = Many("unpull")
      BY <1>1, <2>1, <2>2, OneGoes
    <3>2. Kept' = Kept
      BY <1>2, <1>3, <2>1, <3>1 DEF Kept
    <3> QED
      BY <1>1, <1>2, <1>3, <1>4, <2>1, <3>1, <3>2, SMTT(20)
  <2>3. CASE ~Refused(count_)
    <3>1. /\ Many("store")' = Many("store") + 1 /\ Many("load")' = Many("load")
          /\ Many("unpush")' = Many("unpush") /\ Many("unpull")' = Many("unpull")
      BY <1>1, <2>1, <2>3, OneGoes
    <3>2. count_ \in 0..(Size - 1)
      BY <1>1, <2>3, LetIn DEF Slots
    <3>3. Kept' = Kept + 1
      BY <1>2, <1>3, <2>1, <3>1 DEF Kept
    <3>4. Many("unpull") < C
      BY <2>1, DoingCounted
    <3>5. Kept' \in (-C)..(Size + C)
      BY <1>1, <1>2, <1>3, <3>2, <3>3, <3>4
    <3> QED
      BY <1>1, <1>2, <1>3, <1>4, <2>1, <3>1, <3>3, <3>5, SMTT(20)
  <2> QED
    BY <2>2, <2>3
<1>6. CASE PullCount(t)
  <2>1. /\ at[t] = "out" /\ count_' = count_ - 1 /\ stores' = stores /\ got' = got
        /\ Go(t, IF count_ < 0 THEN "unpull" ELSE "load")
    BY <1>6 DEF PullCount, TakeBegins
  <2>2. CASE count_ < 0
    <3>1. /\ Many("store")' = Many("store") /\ Many("load")' = Many("load")
          /\ Many("unpush")' = Many("unpush") /\ Many("unpull")' = Many("unpull") + 1
      BY <1>1, <2>1, <2>2, OneGoes
    <3>2. Kept' = Kept
      BY <1>2, <1>3, <2>1, <3>1 DEF Kept
    <3> QED
      BY <1>1, <1>2, <1>3, <1>4, <2>1, <3>1, <3>2, SMTT(20)
  <2>3. CASE ~(count_ < 0)
    <3>1. /\ Many("store")' = Many("store") /\ Many("load")' = Many("load") + 1
          /\ Many("unpush")' = Many("unpush") /\ Many("unpull")' = Many("unpull")
      BY <1>1, <2>1, <2>3, OneGoes
    <3>2. Kept' = Kept - 1
      BY <1>2, <1>3, <2>1, <3>1 DEF Kept
    <3>3. Many("unpush") < C
      BY <2>1, DoingCounted
    <3>4. Kept' \in (-C)..(Size + C)
      BY <1>1, <1>2, <1>3, <2>3, <3>2, <3>3
    <3> QED
      BY <1>1, <1>2, <1>3, <1>4, <2>1, <3>1, <3>2, <3>4, SMTT(20)
  <2> QED
    BY <2>2, <2>3
<1>7. CASE PushUndo(t) \/ PullUndo(t)
  <2>1. /\ stores' = stores /\ got' = got /\ Go(t, "out")
        /\ \/ at[t] = "unpush" /\ count_' = count_ - 1
           \/ at[t] = "unpull" /\ count_' = count_ + 1
    BY <1>7 DEF PushUndo, PullUndo
  <2>2. /\ Many("store")' = Many("store") /\ Many("load")' = Many("load")
        /\ at[t] = "unpush" =>
             Many("unpush")' = Many("unpush") - 1 /\ Many("unpull")' = Many("unpull")
        /\ at[t] = "unpull" =>
             Many("unpush")' = Many("unpush") /\ Many("unpull")' = Many("unpull") - 1
    BY <1>1, <2>1, OneGoes
  <2>3. Kept' = Kept
    BY <1>2, <1>3, <2>1, <2>2 DEF Kept
  <2> QED
    BY <1>1, <1>2, <1>3, <1>4, <2>1, <2>2, <2>3, SMTT(20)
<1>8. CASE PushSlot(t)
  <2>1. /\ at[t] = "store" /\ count_' = count_ /\ stores' = stores + 1 /\ got' = got
        /\ Go(t, "out")
    BY <1>8 DEF PushSlot, Stored
  <2>2. /\ Many("store")' = Many("store") - 1 /\ Many("load")' = Many("load")
        /\ Many("unpush")' = Many("unpush") /\ Many("unpull")' = Many("unpull")
    BY <1>1, <2>1, OneGoes
  <2>3. Kept' = Kept
    BY <1>2, <1>3, <2>1, <2>2 DEF Kept
  <2> QED
    BY <1>1, <1>2, <1>3, <1>4, <2>1, <2>2, <2>3
<1>9. CASE PullSlot(t)
  <2>1. /\ at[t] = "load" /\ count_' = count_ /\ stores' = stores
        /\ got' = Append(got, Slot(read[t])) /\ Go(t, "out")
    BY <1>9 DEF PullSlot
  <2>2. /\ Many("store")' = Many("store") /\ Many("load")' = Many("load") - 1
        /\ Many("unpush")' = Many("unpush") /\ Many("unpull")' = Many("unpull")
    BY <1>1, <2>1, OneGoes
  <2>3. Len(got') = Len(got) + 1
    BY <1>1, <2>1 DEF ContainersTypeOK
  <2>4. Kept' = Kept
    BY <1>2, <1>3, <2>1, <2>2, <2>3 DEF Kept
  <2> QED
    BY <1>1, <1>2, <1>3, <1>4, <2>1, <2>2, <2>4
<1> QED
  BY <1>1, <1>5, <1>6, <1>7, <1>8, <1>9 DEF StackStep

LEMMA StackKeeps ==
    ASSUME ContainersIInv, NEW t \in Callers, StackStep(t)
    PROVE  ContainersIInv'
<1>1. StackInv' /\ class = "stack"
  BY StackCounts
<1>2. /\ ContainersTypeOK /\ CallerInv(t) /\ Size \in Nat
      /\ count_ + 1 \in Int /\ count_ - 1 \in Int /\ puts + 1 \in Nat /\ stores + 1 \in Nat
  BY ContainersAssumption DEF ContainersIInv, ContainersTypeOK
<1>3. CASE PushCount(t) \/ PullCount(t) \/ PushUndo(t) \/ PullUndo(t)
  <2>1. ContainersTypeOK'
    BY <1>2, <1>3
       DEF PushCount, PullCount, PushUndo, PullUndo, Go, Reads, PutBegins, ContainersTypeOK, Labels, StackLabels
  <2>2. CallerInv(t)'
    <3>1. CASE PushCount(t)
      <4>1. ~Refused(count_) => count_ \in Slots
        BY <1>1, LetIn
      <4> QED
        BY <1>1, <1>2, <3>1, <4>1
           DEF PushCount, Go, Reads, CallerInv, ContainersTypeOK, StackLabels
    <3>2. CASE PullCount(t)
      BY <1>1, <1>2, <3>2 DEF PullCount, Go, Reads, CallerInv, ContainersTypeOK, StackLabels
    <3>3. CASE PushUndo(t) \/ PullUndo(t)
      BY <1>1, <1>2, <3>3 DEF PushUndo, PullUndo, Go, CallerInv, ContainersTypeOK, StackLabels
    <3> QED
      BY <1>3, <3>1, <3>2, <3>3
  <2> QED
    BY <1>1, <1>2, <1>3, <2>1, <2>2, CallerStep
       DEF PushCount, PullCount, PushUndo, PullUndo, Go, Reads, ContainersTypeOK
<1>4. CASE PushSlot(t)
  <2>1. ContainersTypeOK'
    BY <1>2, <1>4 DEF PushSlot, Stored, Go, ContainersTypeOK, Labels, StackLabels
  <2>2. CallerInv(t)'
    BY <1>1, <1>2, <1>4 DEF PushSlot, Go, CallerInv, ContainersTypeOK, StackLabels
  <2> QED
    BY <1>1, <1>2, <1>4, <2>1, <2>2, CallerStep DEF PushSlot, Go, ContainersTypeOK
<1>5. CASE PullSlot(t)
  <2>1. read[t] \in Nat
    BY <1>2, <1>5 DEF PullSlot, CallerInv
  <2>2. Slot(read[t]) \in Nat
    BY <1>2, <2>1 DEF Slot, Slots, ContainersTypeOK
  <2>3. ContainersTypeOK'
    BY <1>2, <1>5, <2>2 DEF PullSlot, Go, ContainersTypeOK, Labels, StackLabels
  <2>4. CallerInv(t)'
    BY <1>1, <1>2, <1>5 DEF PullSlot, Go, CallerInv, ContainersTypeOK, StackLabels
  <2> QED
    BY <1>1, <1>2, <1>5, <2>3, <2>4, CallerStep DEF PullSlot, Go, ContainersTypeOK
<1> QED
  BY <1>3, <1>4, <1>5 DEF StackStep

LEMMA AfterType == \A i \in Slots : After(i) \in Slots
BY ContainersAssumption DEF After, Slots

LEMMA BufferKeeps ==
    ASSUME ContainersIInv, NEW t \in Callers, BufferStep(t)
    PROVE  ContainersIInv'
<1>1. /\ ContainersTypeOK /\ CallerInv(t) /\ class = "buffer" /\ class' = class
      /\ puts + 1 \in Nat /\ stores + 1 \in Nat
  BY SMTT(20)
     DEF BufferStep, BufferPush, BufferFull, BufferWrite, BufferPublish, BufferPull, BufferEmpty,
         BufferTake, BufferRestore, ContainersIInv, ContainersTypeOK, CallerInv, StackLabels
<1>2. StackInv'
  BY <1>1 DEF StackInv
<1>3. \A u \in Callers \ {t} : at'[u] = at[u] /\ read'[u] = read[u] /\ limit'[u] = limit[u]
  BY <1>1 DEF BufferStep, BufferPush, BufferFull, BufferWrite, BufferPublish, BufferPull,
              BufferEmpty, BufferTake, BufferRestore, Go, Reads, ContainersTypeOK
<1>4. ContainersTypeOK' /\ CallerInv(t)'
  <2> USE DEF ContainersTypeOK, CallerInv, Labels, BufferLabels, Go, Reads
  <2>1. CASE BufferPush(t)
    BY <1>1, <2>1 DEF BufferPush, PutBegins, Slots
  <2>2. CASE BufferFull(t)
    BY <1>1, <2>2 DEF BufferFull
  <2>3. CASE BufferWrite(t)
    BY <1>1, <2>3 DEF BufferWrite, Stored
  <2>4. CASE BufferPublish(t)
    BY <1>1, <2>4, AfterType DEF BufferPublish
  <2>5. CASE BufferPull(t)
    BY <1>1, <2>5 DEF BufferPull, Slots
  <2>6. CASE BufferEmpty(t)
    <3>1. at[t] = "tail" /\ read[t] \in Slots /\ tail_ \in Slots /\ Slots \subseteq Int
      BY <1>1, <2>6 DEF BufferEmpty, Slots
    <3>2. ContainersTypeOK'
      BY <1>1, <2>6, <3>1 DEF BufferEmpty
    <3>3. CallerInv(t)'
      BY <1>1, <2>6, <3>1 DEF BufferEmpty
    <3> QED
      BY <3>2, <3>3
  <2>7. CASE BufferTake(t)
    <3>1. at[t] = "take" /\ read[t] \in Slots /\ data_[read[t]] \in Nat
      BY <1>1, <2>7, ContainersAssumption DEF BufferTake, Slots
    <3>2. Append(got, data_[read[t]]) \in Seq(Nat)
      BY <1>1, <3>1
    <3>3. ContainersTypeOK'
      BY <1>1, <2>7, <3>1, <3>2 DEF BufferTake
    <3>4. CallerInv(t)'
      BY <1>1, <2>7 DEF BufferTake
    <3> QED
      BY <3>3, <3>4
  <2>8. CASE BufferRestore(t)
    BY <1>1, <2>8 DEF BufferRestore
  <2> QED
    BY <2>1, <2>2, <2>3, <2>4, <2>5, <2>6, <2>7, <2>8 DEF BufferStep
<1> QED
  BY <1>1, <1>2, <1>3, <1>4, CallerStep

\* StoresInBounds: push() of stack_t and of buffer_t writes to a slot of its
\* array only, although the counter of a stack runs past both ends while
\* calls that turn back have not undone theirs, and the undoing is exact.
THEOREM PutsStayInBounds == ContainersSpec => []StoresInBounds
<1>1. ContainersIInv /\ [ContainersNext]_containerVars => ContainersIInv'
  <2> SUFFICES ASSUME ContainersIInv, [ContainersNext]_containerVars
               PROVE  ContainersIInv'
    OBVIOUS
  <2>1. CASE ContainersNext
    BY <2>1, StackKeeps, BufferKeeps DEF ContainersNext
  <2>2. CASE UNCHANGED containerVars
    BY <2>2
       DEF containerVars, locals, ContainersIInv, ContainersTypeOK, CallerInv, StackInv, Kept, Many, Doing
  <2> QED
    BY <2>1, <2>2
<1>2. ContainersIInv => StoresInBounds
  <2> SUFFICES ASSUME ContainersIInv
               PROVE  StoresInBounds
    OBVIOUS
  <2>1. ASSUME class = "stack", \A t \in Callers : at[t] = "out"
        PROVE  count_ = stores - Len(got)
    <3>1. /\ Doing("store") = {} /\ Doing("load") = {}
          /\ Doing("unpush") = {} /\ Doing("unpull") = {}
      BY <2>1 DEF Doing
    <3>2. Many("store") = 0 /\ Many("load") = 0 /\ Many("unpush") = 0 /\ Many("unpull") = 0
      BY <3>1, FS_EmptySet DEF Many
    <3>3. Kept = stores - Len(got)
      BY <3>2 DEF Kept, ContainersIInv, ContainersTypeOK
    <3> QED
      BY <2>1, <3>2, <3>3 DEF ContainersIInv, ContainersTypeOK, StackInv
  <2> QED
    BY <2>1 DEF ContainersIInv, ContainersTypeOK, CallerInv, StoresInBounds, Slots
<1> QED
  BY ContainersInitInvariant, <1>1, <1>2, PTL DEF ContainersSpec
=============================================================================
