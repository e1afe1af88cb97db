\* Three sessions, one of which may be killed.  When every session has ended
\* nothing happens any more: no deadlock check.
CONSTANTS
  p1 = p1  p2 = p2  p3 = p3
  Procs <- MCProcs
  Nobody = Nobody
  MaxKilled = 1
SPECIFICATION LockSpec
INVARIANTS
  LossTakesThree
PROPERTIES
  EverySessionEnds
CHECK_DEADLOCK FALSE
