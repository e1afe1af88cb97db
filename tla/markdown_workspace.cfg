\* Two dossiers of one case and a frame, with stops and power losses.  Writers
\* stop for good when they are killed: no deadlock check.
SPECIFICATION Spec
CONSTANTS
  d1 = d1
  d2 = d2
  c1 = c1
  c2 = c2
  Absent = Absent
  Legacies = {l1, l2}
  Digests <- MCDigests
  Dossiers <- MCDossiers
  Cites <- MCCites
  MaxFaults = 2
INVARIANTS
  SelectionIsWhole
  SettledIsKept
  RemovalsAreHarmless
CHECK_DEADLOCK FALSE
