------------------------------ MODULE MCTimer -------------------------------
\* Model values for checking Timer with TLC.
EXTENDS Timer

CONSTANTS t1, t2, k1, k2, g1, g2

TwoTimers == {t1, t2}
TwoTokens == {k1, k2}
TwoHolders == {g1, g2}
=============================================================================
