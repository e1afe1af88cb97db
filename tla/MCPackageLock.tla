---------------------------- MODULE MCPackageLock ----------------------------
\* The instance of PackageLock that TLC checks: three sessions, so that two can
\* recover the lock of a third that was killed.
EXTENDS StoreLock

CONSTANTS p1, p2, p3

MCProcs == {p1, p2, p3}
===============================================================================
