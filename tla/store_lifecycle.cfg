\* A store is initialized and snapshotted at its second fence; one is restored at its sixth;
\* one is exported by two preflights and two finalizations, cut over by two attempts, or
\* initialized by three attempts of two grants.
\* Calls end, all but the restore, which may be repeated: no deadlock check.
SPECIFICATION LifeSpec
SYMMETRY Symmetry
CONSTANTS
  c1 = c1  c2 = c2  c3 = c3  c4 = c4  c5 = c5
  i1 = i1  i2 = i2  s1 = s1  s2 = s2
  p1 = p1  p2 = p2  f1 = f1  f2 = f2  o1 = o1  o2 = o2
  TargetFence = 6
  SnapshotFence = 2
  Absent = Absent
  Torn = Torn
  MaxCommits = 2
  MaxFaults = 3
  Calls <- MCCalls
  Operations <- MCOperations
  Requests <- MCRequests
  Plan <- MCPlan
  OtherCommits = 1
  OtherFaults = 1
  Preflights <- MCPreflights
  Finalizations <- MCFinalizations
  ExportIds <- MCOperationIds
  MaxMoves = 1
  MaxKills = 1
  MaxAttempts = 2
  Attempts <- MCAttempts
  CutoverIds <- MCOperationIds
  Partial = Torn
  MaxWrites = 2
  Initializers <- MCInitializers
  Grants <- MCOperationIds
  MaxRemovals = 1
  MaxCrashes = 1
INVARIANTS
  SnapshotIsTrue
  PriorIsRetained
  ReceiptIsTrue
  ExportIsTrue
  CutoverIsOneState
  OneMaker
CHECK_DEADLOCK FALSE
