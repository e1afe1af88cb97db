\* Two sessions recover the lock of a third, and one's update is lost.
CONSTANTS
  p1 = p1  p2 = p2  p3 = p3
  Procs <- MCProcs
  Nobody = Nobody
  MaxKilled = 1
SPECIFICATION LockSpec
INVARIANT AnswersAreDurable
CHECK_DEADLOCK FALSE
