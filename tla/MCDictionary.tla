---------------------------- MODULE MCDictionary ----------------------------
\* Model values and symmetry for checking Dictionary with TLC.
EXTENDS Dictionary, TLC

CONSTANTS t1, t2, k1, k2, k3, n1, n2, n3

TwoThreads == {t1, t2}
ThreeKeys == {k1, k2, k3}
TwoKeys == {k1, k2}
ThreeNodes == {n1, n2, n3}

\* k1 and k2 share a list.
SomeHash == [k \in Keys |-> IF k = k3 THEN 1 ELSE 2]

\* Keys that a move leaves as they are, and keys that it empties.
MoveKeeps == [k \in Keys |-> k]
MoveEmpties == [k \in Keys |-> Null]

LookBeforeInsert == {"insert_or_assign", "try_emplace"}

Removers == {"remove", "clear"}

\* k1 and k2 are interchangeable, and so are threads and nodes.
Symmetry ==
    Permutations(Threads) \cup Permutations(Nodes) \cup Permutations({k1, k2})
=============================================================================
