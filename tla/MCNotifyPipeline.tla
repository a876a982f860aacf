-------------------------- MODULE MCNotifyPipeline --------------------------
\* Model values for checking NotifyPipeline with TLC.
EXTENDS NotifyPipeline, TLC

CONSTANTS p1, p2, c1, c2, m, x1, x2, a, b

TwoProducers == {p1, p2}
OneConsumer == {c1}
TwoConsumers == {c1, c2}
OneManager == {m}
OneCloser == {x1}
OneItem == {a}
BaseKind == {"pipeline"}
BothBackends == {"eventfd", "pipe"}

Symmetry == Permutations(Producers) \cup Permutations(Consumers)
=============================================================================
