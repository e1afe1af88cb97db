\* A consumer, one snapshot and the writers, to the third fence.
CONSTANTS
  c1 = c1  case = case  prof = prof  wksp = wksp  s1 = s1
  Consumers <- MCConsumers
  Owners <- MCOwners
  Profiles <- MCProfiles
  Rank <- MCRank
  Snapshots <- MCSnapshots
  NoToken = NoToken
  MaxLimit = 2
  MaxFence = 3
SPECIFICATION Spec
INVARIANTS
  NothingIsMissed
