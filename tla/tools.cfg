\* Three submissions, two of them of one envelope, and a recovery; two paired runs; a bus of
\* three; or two checkouts that are synchronised.  A call, a run or a sync ends, and may be
\* killed: no deadlock check.
CONSTANTS
  c1 = c1  c2 = c2  c3 = c3  c4 = c4
  e1 = e1  e2 = e2  k1 = k1  k2 = k2
  Calls = {c1, c2, c3, c4}
  Envelopes = {e1, e2}
  Correlations = {k1, k2}
  NoEntry = NoEntry
  NoCorrelation = NoCorrelation
  Work <- MCWork
  one = one  two = two  m1 = m1
  Runs = {one, two}
  Stamps = {m1}
  Offered <- MCOffered
  Missing = Absent
  MaxFaults = 1
  Clients = {c1, c2, c3}
  MaxMessages <- MCMessages
  main = main  tree = tree  skill = skill  validator = validator
  Roots = {main, tree}
  Targets <- MCTargets
  Skills = {skill}
  Agents = {validator}
  WithAgents <- MCGiven
  Listed <- MCListed
  Excluded <- MCExcluded
  Retired = {skill}
  Profiles <- MCProfiles
  Absent = Absent
  Unmanaged = Unmanaged
  AtRest = TRUE
  MaxEdits = 1
  MaxSyncs = 2
  MaxKills = 1
SPECIFICATION ToolsSpec
SYMMETRY MCSymmetry
INVARIANTS
  AdmissionsAreTrue
  SuccessIsSupervised
  RunsEndWell
  OneOrderForAll
  SyncRepairs
PROPERTIES
  UnmanagedIsKept
CHECK_DEADLOCK FALSE
