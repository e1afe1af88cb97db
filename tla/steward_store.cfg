\* Three transactions, one of which may be killed.  When every one has ended
\* nothing happens any more: no deadlock check.
CONSTANTS
  p1 = p1  p2 = p2  p3 = p3
  Procs <- MCProcs
  NoLock = NoLock
  MaxKilled = 1
SPECIFICATION Spec
PROPERTIES
  NobodyWaitsForever
CHECK_DEADLOCK FALSE
