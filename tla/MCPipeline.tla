----------------------------- MODULE MCPipeline -----------------------------
\* Model values and symmetry for checking Pipeline with TLC.
EXTENDS Pipeline, TLC

CONSTANTS p1, p2, c1, c2, m, x1, x2, a, b

SPSCProducers == {p1}
SPSCConsumers == {c1}
MPMCProducers == {p1, p2}
MPMCConsumers == {c1, c2}
OneManager == {m}
OneCloser == {x1}
TwoClosers == {x1, x2}
TwoItems == {a, b}
AllKinds == {"pipeline", "drop_pipeline", "throw_pipeline"}
BaseKind == {"pipeline"}

\* The threads of one role, and the items, are interchangeable.  Only safety
\* runs use this.
Symmetry ==
    Permutations(Producers) \cup Permutations(Consumers)
        \cup Permutations(Closers) \cup Permutations(Items)
=============================================================================
