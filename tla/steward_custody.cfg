\* Four clients with tasks that build on each other or collide.  A client
\* finishes, and may find nothing to do its task to: no deadlock check.
CONSTANTS
  c1 = c1  c2 = c2  c3 = c3  c4 = c4
  s1 = s1  s2 = s2  n1 = n1  k1 = k1  v1 = v1  v2 = v2
  Everything = Everything
  Clients <- MCClients
  Spaces <- MCSpaces
  Namespaces <- MCNamespaces
  Keys <- MCKeys
  Contents <- MCContents
  InitialSpaces <- MCInitial
  Global = Everything
  NoIntake = NoIntake
  NoMatter = NoMatter
  NoAnswer = NoAnswer
  MaxCurrentness = 2
  Plan <- MCPlan
SPECIFICATION Spec
INVARIANTS
  QuestionsFollowOwner
PROPERTIES
  DecisionsAreSeen
  BaselinesAdvance
CHECK_DEADLOCK FALSE
