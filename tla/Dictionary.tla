----------------------------- MODULE Dictionary -----------------------------
(***************************************************************************)
(* hitycho::atomic::dictionary_t<K, V, S> (src/atomic.hpp): S lists of     *)
(* nodes, each behind an atomic pointer.  Insertion links a node at the    *)
(* head by compare-and-swap; look-up, assignment and removal walk the list *)
(* with nothing held.  Every access to a shared atomic is a step.          *)
(*                                                                         *)
(* remove() and clear() unlink with plain stores and free the node at      *)
(* once.  Alone names the operations that the callers keep apart from all  *)
(* others; what happens to a thread that follows a pointer into a freed    *)
(* node is undefined, and such a thread takes no further step here.        *)
(*                                                                         *)
(* Left out: values, which no step reads but to return them; the node that *)
(* insert_or_assign() and try_emplace() make before they look, which no    *)
(* other thread ever sees; keys() and each(), which walk every list as     *)
(* find() walks one; and the moves, which need the dictionary for          *)
(* themselves.  emplace() is insert(), and contains() and at() are find(), *)
(* with another result.                                                    *)
(***************************************************************************)
EXTENDS Integers, FiniteSets

CONSTANTS
    Threads,
    Keys,
    Hash,      \* key -> its hash
    Moved,     \* key -> what is left of it after std::move: an int stays what
               \* it is, a string is left empty
    S,         \* the template parameter: number of lists
    Nodes,     \* the memory nodes are allocated from (a bound)
    Null,      \* nullptr
    Ops,       \* the operations called
    Alone,     \* those that are called while no other call is under way
    SizeMod    \* 2^w for a size_t of w bits

DictOps == {"insert", "insert_or_assign", "try_emplace", "find", "remove", "clear"}

ASSUME DictionaryAssumption ==
    /\ S \in Nat \ {0}
    /\ Hash \in [Keys -> Nat]
    /\ Moved \in [Keys -> Keys \cup {Null}]
    /\ IsFiniteSet(Threads)
    /\ IsFiniteSet(Nodes)
    /\ Null \notin Nodes
    /\ Ops \subseteq DictOps
    /\ Alone \subseteq Ops
    /\ SizeMod \in Nat
    /\ SizeMod > Cardinality(Nodes)

VARIABLES
    table,   \* table_: the heads of the lists
    node,    \* what each node holds
    live,    \* the nodes allocated and not yet freed
    count,   \* count_
    pc,      \* thread -> where it is in its call
    my       \* thread -> its arguments and local variables

shared == <<table, node, live, count>>
dictVars == <<shared, pc, my>>

KeyIndex(k) == Hash[k] % S

Pointer == Nodes \cup {Null}
Node == [key : Keys, next : Pointer]
Blank == [key |-> Null, next |-> Null]

\* had is history: the key was in the dictionary when the call began.
Local == [op : {"none"} \cup DictOps, key : Keys \cup {Null}, sought : Keys \cup {Null},
          index : 0..(S - 1), current : Pointer, prev : Pointer, next : Pointer,
          had : BOOLEAN]
Rest == [op |-> "none", key |-> Null, sought |-> Null, index |-> 0,
         current |-> Null, prev |-> Null, next |-> Null, had |-> FALSE]

Insertion == {"new", "link", "swap", "add"}
Walking == {"head", "walk"}
Removal == {"unlink", "delete", "subtract"}
Sweeping == {"take", "sweep", "zero"}

DictTypeOK ==
    /\ table \in [0..(S - 1) -> Pointer]
    /\ node \in [Nodes -> Node \cup {Blank}]
    /\ live \subseteq Nodes
    /\ count \in 0..(SizeMod - 1)
    /\ pc \in [Threads -> {"idle"} \cup Insertion \cup Walking \cup Removal \cup Sweeping]
    /\ my \in [Threads -> Local]

DictInit ==
    /\ table = [i \in 0..(S - 1) |-> Null]
    /\ node = [n \in Nodes |-> Blank]
    /\ live = {}
    /\ count = 0
    /\ pc = [t \in Threads |-> "idle"]
    /\ my = [t \in Threads |-> Rest]

-----------------------------------------------------------------------------
Follows(heap, C) == \A n \in C \ {Null} : heap[n].next \in C

\* The pointers met by following next from p: what is in every set that has
\* p and follows next.
Reached(heap, p) ==
    LET all == {C \in SUBSET Pointer : p \in C /\ Follows(heap, C)}
    IN  {q \in Pointer : \A C \in all : q \in C}

From(p) == Reached(node, p)

List(i) == From(table[i]) \ {Null}

Linked == UNION {List(i) : i \in 0..(S - 1)}

Goto(t, label) == pc' = [pc EXCEPT ![t] = label]

Return(t) ==
    /\ Goto(t, "idle")
    /\ my' = [my EXCEPT ![t] = Rest]

Apart(t, o) ==
    \A u \in Threads \ {t} :
        pc[u] = "idle" \/ (o \notin Alone /\ my[u].op \notin Alone)

FirstStep(o) ==
    CASE o = "insert" -> "new"
      [] o = "clear" -> "take"
      [] OTHER -> "head"

\* try_emplace() moves the key into the node it makes and looks for what is
\* left.
Sought(o, k) == IF o = "try_emplace" THEN Moved[k] ELSE k

Call(t, o, k) ==
    /\ pc[t] = "idle"
    /\ Apart(t, o)
    /\ Goto(t, FirstStep(o))
    /\ my' = [my EXCEPT ![t] =
                [Rest EXCEPT !.op = o, !.key = k, !.sought = Sought(o, k),
                             !.index = IF o = "clear" THEN 0 ELSE KeyIndex(k),
                             !.had = o # "insert" /\ \E n \in Linked : node[n].key = k]]
    /\ UNCHANGED shared

-----------------------------------------------------------------------------
(* LinkNowhere, SwapUncompared, SubtractNothing and LoadList take no part  *)
(* in DictSpec: each is the action after it with a slip that breaks a      *)
(* property.                                                               *)

(* insert() and emplace(): the node being made is the thread's current.    *)

\* new throws when there is no memory.
NoMemory(t) ==
    /\ pc[t] = "new"
    /\ live = Nodes
    /\ Return(t)
    /\ UNCHANGED shared

New(t) ==
    /\ pc[t] = "new"
    /\ \E n \in Nodes \ live :
        /\ live' = live \cup {n}
        /\ node' = [node EXCEPT ![n] = [key |-> my[t].key, next |-> Null]]
        /\ my' = [my EXCEPT ![t].current = n]
    /\ Goto(t, "link")
    /\ UNCHANGED <<table, count>>

LinkNowhere(t) ==
    /\ pc[t] = "link"
    /\ Goto(t, "swap")
    /\ my' = [my EXCEPT ![t].next = table[my[t].index]]
    /\ UNCHANGED shared

\* expected is loaded and stored in the new node.
Link(t) ==
    /\ pc[t] = "link"
    /\ node' = [node EXCEPT ![my[t].current].next = table[my[t].index]]
    /\ my' = [my EXCEPT ![t].next = table[my[t].index]]
    /\ Goto(t, "swap")
    /\ UNCHANGED <<table, live, count>>

SwapUncompared(t) ==
    /\ pc[t] = "swap"
    /\ table' = [table EXCEPT ![my[t].index] = my[t].current]
    /\ Goto(t, "add")
    /\ UNCHANGED <<node, live, count, my>>

\* compare_exchange_weak: it may fail for no reason.
Swap(t) ==
    /\ pc[t] = "swap"
    /\ \/ /\ table[my[t].index] = my[t].next
          /\ table' = [table EXCEPT ![my[t].index] = my[t].current]
          /\ Goto(t, "add")
       \/ /\ Goto(t, "link")
          /\ UNCHANGED table
    /\ UNCHANGED <<node, live, count, my>>

AddCount(t) ==
    /\ pc[t] = "add"
    /\ count' = (count + 1) % SizeMod
    /\ Return(t)
    /\ UNCHANGED <<table, node, live>>

-----------------------------------------------------------------------------
(* The walk that every other operation begins with.                        *)

LoadHead(t) ==
    /\ pc[t] = "head"
    /\ my' = [my EXCEPT ![t].current = table[my[t].index], ![t].prev = Null]
    /\ Goto(t, "walk")
    /\ UNCHANGED shared

\* The thread looks at a node that is still there.
Looks(t) == pc[t] = "walk" /\ my[t].current \in live

AtKey(t) == Looks(t) /\ node[my[t].current].key = my[t].sought

AtEnd(t) == pc[t] = "walk" /\ my[t].current = Null

WalkOn(t) ==
    /\ Looks(t)
    /\ ~AtKey(t)
    /\ my' = [my EXCEPT ![t].prev = my[t].current,
                        ![t].current = node[my[t].current].next]
    /\ UNCHANGED <<shared, pc>>

\* find() has its value, insert_or_assign() has replaced it, try_emplace() is
\* refused, or there is nothing to find or to remove.
WalkReturns(t) ==
    /\ \/ AtKey(t) /\ my[t].op # "remove"
       \/ AtEnd(t) /\ my[t].op \in {"find", "remove"}
    /\ Return(t)
    /\ UNCHANGED shared

\* What was not found is inserted, and nothing is looked at again.
AddMissing(t) ==
    /\ AtEnd(t)
    /\ my[t].op \in {"insert_or_assign", "try_emplace"}
    /\ my' = [my EXCEPT ![t].prev = Null, ![t].had = FALSE]
    /\ Goto(t, "new")
    /\ UNCHANGED shared

-----------------------------------------------------------------------------
(* remove()                                                                *)

RemoveFound(t) ==
    /\ AtKey(t)
    /\ my[t].op = "remove"
    /\ my' = [my EXCEPT ![t].next = node[my[t].current].next]
    /\ Goto(t, "unlink")
    /\ UNCHANGED shared

\* Plain stores: whatever the head has become is overwritten.
Unlink(t) ==
    /\ pc[t] = "unlink"
    /\ \/ /\ my[t].prev = Null
          /\ table' = [table EXCEPT ![my[t].index] = my[t].next]
          /\ UNCHANGED node
       \/ /\ my[t].prev \in live
          /\ node' = [node EXCEPT ![my[t].prev].next = my[t].next]
          /\ UNCHANGED table
    /\ Goto(t, "delete")
    /\ UNCHANGED <<live, count, my>>

Free(n) ==
    /\ live' = live \ {n}
    /\ node' = [node EXCEPT ![n] = Blank]

Delete(t) ==
    /\ pc[t] = "delete"
    /\ my[t].current \in live
    /\ Free(my[t].current)
    /\ Goto(t, "subtract")
    /\ UNCHANGED <<table, count, my>>

SubtractNothing(t) ==
    /\ pc[t] = "subtract"
    /\ Return(t)
    /\ UNCHANGED shared

SubtractCount(t) ==
    /\ pc[t] = "subtract"
    /\ count' = (count - 1) % SizeMod
    /\ Return(t)
    /\ UNCHANGED <<table, node, live>>

-----------------------------------------------------------------------------
(* clear(): list by list, then the counter.                                *)

LoadList(t) ==
    /\ pc[t] = "take"
    /\ my' = [my EXCEPT ![t].current = table[my[t].index]]
    /\ Goto(t, "sweep")
    /\ UNCHANGED shared

TakeList(t) ==
    /\ pc[t] = "take"
    /\ my' = [my EXCEPT ![t].current = table[my[t].index]]
    /\ table' = [table EXCEPT ![my[t].index] = Null]
    /\ Goto(t, "sweep")
    /\ UNCHANGED <<node, live, count>>

Sweep(t) ==
    /\ pc[t] = "sweep"
    /\ my[t].current \in live
    /\ my' = [my EXCEPT ![t].current = node[my[t].current].next]
    /\ Free(my[t].current)
    /\ UNCHANGED <<table, count, pc>>

NextList(t) ==
    /\ pc[t] = "sweep"
    /\ my[t].current = Null
    /\ \/ /\ my[t].index < S - 1
          /\ my' = [my EXCEPT ![t].index = my[t].index + 1]
          /\ Goto(t, "take")
       \/ /\ my[t].index = S - 1
          /\ Goto(t, "zero")
          /\ UNCHANGED my
    /\ UNCHANGED shared

ZeroCount(t) ==
    /\ pc[t] = "zero"
    /\ count' = 0
    /\ Return(t)
    /\ UNCHANGED <<table, node, live>>

-----------------------------------------------------------------------------
Step(t) ==
    \/ \E o \in Ops, k \in Keys : Call(t, o, k)
    \/ New(t) \/ NoMemory(t) \/ Link(t) \/ Swap(t) \/ AddCount(t)
    \/ LoadHead(t) \/ WalkOn(t) \/ WalkReturns(t) \/ AddMissing(t)
    \/ RemoveFound(t) \/ Unlink(t) \/ Delete(t) \/ SubtractCount(t)
    \/ TakeList(t) \/ Sweep(t) \/ NextList(t) \/ ZeroCount(t)

DictNext == \E t \in Threads : Step(t)

DictSpec == DictInit /\ [][DictNext]_dictVars

-----------------------------------------------------------------------------
\* ListsInv: whatever insertions race each other, every list ends, holds
\* only nodes of its own keys, and none that has been freed.
ListsInv ==
    /\ DictTypeOK
    /\ \A i \in 0..(S - 1) :
        /\ Null \in From(table[i])
        /\ List(i) \subseteq live
        /\ \A n \in List(i) : KeyIndex(node[n].key) = i

\* In the hands of one thread: not linked yet, or not linked any more.
Held(t) ==
    CASE pc[t] \in {"link", "swap", "delete"} -> {my[t].current}
      [] pc[t] = "sweep" -> From(my[t].current)
      [] OTHER -> {}

\* NothingLost: every node that was inserted and not removed can be found
\* from its list ("lockfree ... unordered dictionary implementations which are
\* something like C# ... ConcurrentDictionary", FEATURES.md:10-12): no
\* insertion is undone by another thread's insertion or removal.
NothingLost ==
    \A n \in live : n \in Linked \/ \E t \in Threads : n \in Held(t)

At(label) == {t \in Threads : pc[t] = label}

\* CountInv: size() differs from the number of nodes linked by the calls
\* that have linked or freed a node and not counted it yet, and by no more.
CountInv ==
    At("zero") \cup At("sweep") \cup At("take") = {} =>
        count + Cardinality(At("add")) =
            Cardinality(Linked) + Cardinality(At("delete") \cup At("subtract"))

\* LookupInv: a look-up does not miss a key that was there when it began,
\* however many insertions move the head of the list meanwhile: the walk has
\* it at or ahead of its current node until it stops.  (Of a key that
\* try_emplace() has moved from, and so does not look for, nothing is said.)
LookupInv ==
    \A t \in Threads :
        pc[t] = "walk" /\ my[t].had /\ my[t].sought = my[t].key =>
            \E n \in From(my[t].current) \ {Null} : node[n].key = my[t].key

\* OnePerKey: insert_or_assign() and try_emplace() add a key only when it is
\* not there, so no key is there twice ("something like C# ...
\* ConcurrentDictionary", FEATURES.md:10-12).  insert() makes no such promise.
OnePerKey ==
    \A m, n \in Linked : node[m].key = node[n].key => m = n
=============================================================================
