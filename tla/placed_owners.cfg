\* Three attempts at two operations, one change of a Namespace and one search; an attempt
\* may stop anywhere and all of them end: no deadlock check.
CONSTANTS
  a1 = a1  a2 = a2  a3 = a3  m1 = m1  s1 = s1
  frame = frame  case = case  new = new  home = home  side = side
  i = i  d = d  x = x  y = y
  None = None
  InitOp = InitOp
  Attempts <- MCAttempts
  Ops <- MCOps
  Frames <- MCFrames
  Cases <- MCCases
  Namespaces <- MCNamespaces
  Admins <- MCAdmins
  Searchers <- MCSearchers
  Initial <- MCInitial
  Open <- MCOpen
  Plan <- MCPlan
  AdminPlan <- MCAdminPlan
SPECIFICATION Spec
INVARIANTS
  MaterialFollowsPlacement
  HistoryBuilds
  AnswersFollowReceipts
  PagesAgree
CHECK_DEADLOCK FALSE
