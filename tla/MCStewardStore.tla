----------------------------- MODULE MCStewardStore -----------------------------
\* The instance of StewardStore that TLC checks: three transactions, so that two
\* can recover the lock of a third that was killed.
EXTENDS StewardStore

CONSTANTS p1, p2, p3

MCProcs == {p1, p2, p3}
===============================================================================
