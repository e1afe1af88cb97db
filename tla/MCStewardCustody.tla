---------------------------- MODULE MCStewardCustody ----------------------------
\* The instance of StewardCustody that TLC checks: one Space and one to create,
\* one replay key, and four clients whose tasks build on each other or collide.
EXTENDS StewardCustody, TLC

CONSTANTS c1, c2, c3, c4, s1, s2, n1, k1, v1, v2, Everything

MCClients    == {c1, c2, c3, c4}
MCSpaces     == {s1, s2}
MCInitial    == {s1}
MCNamespaces == {n1}
MCKeys       == {k1}
MCContents   == {v1, v2}

T(kind, space, content) == [kind |-> kind, space |-> space, intake |-> k1, content |-> content]

\* The first captures, in a Space or without.  The second captures the same Intake
\* again, places it, links a Question, or changes the Space.  The third and the
\* fourth act on what there is by then.
MCPlan ==
  (c1 :> {T("capture", s1, v1), T("capture", Everything, v1)}) @@
  (c2 :> {T("capture", s1, v1), T("place", s1, v1), T("link", s1, v1), T("associate", s1, v1)}) @@
  (c3 :> {T("place", s1, v1), T("create", s2, v1), T("retire", s1, v1), T("answer", s1, v1),
          T("acknowledge", s1, v1), T("acknowledge", Everything, v1)}) @@
  (c4 :> {T("capture", s1, v2), T("dissociate", s1, v1), T("transition", s1, v1), T("close", s1, v1),
          T("retire", s1, v1), T("create", s2, v1), T("answer", s1, v1), T("answer", s1, v2), T("acknowledge", s1, v1)})
===============================================================================
