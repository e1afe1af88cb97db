\* Three attempts at colliding operations on one store, with every failure the
\* code catches.  An attempt finishes and a client may be killed: no deadlock check.
CONSTANTS
  p1 = p1  p2 = p2  p3 = p3
  o1 = o1  o2 = o2  o3 = o3  o4 = o4
  Case = Case  Prof = Prof  Sel = Sel  q1 = q1  q2 = q2
  Attempts <- MCAttempts
  Ops <- MCOps
  Owners <- MCOwners
  Selection = Sel
  ProfileRevs <- MCProfileRevs
  InitialProfile = q1
  InitialOwner = Prof
  InitOp = InitOp
  NoProfile = NoProfile
  NoReceipt = NoReceipt
  Plan <- MCPlan
  Admits <- MCAdmits
SPECIFICATION Spec
INVARIANTS
  OutcomesAreTrue
  EventsFollowHistory
PROPERTIES
  SelectionGoverns
  ImplementsLedger
CHECK_DEADLOCK FALSE
