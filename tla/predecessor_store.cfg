\* Two processes on one store, under three sets of requests, or four attempts on a Frame.
\* Processes and attempts end, or are killed: no deadlock check.
SPECIFICATION PartsSpec
CONSTANTS
  p1 = p1
  p2 = p2
  a = a
  b = b
  x = x
  a1 = a1  a2 = a2  a3 = a3  a4 = a4  frame = frame  other = other
  i = i  j = j  home = home  d = d  k1 = k1  k2 = k2  resource = resource  elsewhere = elsewhere
  None = None
  Processes = {p1, p2}
  Cases = {a, b}
  Requests <- MCRequests
  Offers <- MCOffers
  Policies <- MCPolicies
  MaxFaults = 1
  Attempts <- MCAttempts
  Ops <- MCOps
  Frames <- MCFrames
  Offered <- MCFramePlan
  Initial <- MCInitial
  InitOp <- MCInitOp
  Profile <- MCProfile
  Items <- MCItems
  Boundaries <- MCBoundaries
  Dispositions <- MCDispositions
  FrameCases <- MCOneCase
  CaseOps <- MCCaseOps
  Owners = {a, b}
  Resource = resource
  Elsewhere <- MCElsewhere
  MaxOwners = 2
  MaxEntries = 6
  MaxNumber = 2
  Writers = {a}
SYMMETRY MCSymmetry
INVARIANTS
  StoreIsExact
  SettledUnderTheirView
  ListIsASnapshot
  FramesAreKept
  RevisionsAreFounded
  EntriesAreTrue
  DiscoveryIsTrue
PROPERTIES
  RetriesAreAnswered
CHECK_DEADLOCK FALSE
