--------------------------- MODULE MCSuccessorStore ---------------------------
\* The instance of SuccessorStore that TLC checks: one Case that does not exist
\* yet, the initial Profile and one further revision of it, and three attempts
\* that choose among requests made to collide.
EXTENDS SuccessorStore, TLC

CONSTANTS p1, p2, p3, o1, o2, o3, o4, Case, Prof, Sel, q1, q2

MCAttempts == {p1, p2, p3}
MCOps      == {o1, o2, o3, o4}
MCOwners   == {Case, Prof}
MCProfileRevs == {q1, q2}

\* The initial Profile admits everything, its successor does not admit commits.
MCAdmits == [q \in {q1, q2} |-> IF q = q1 THEN Kinds ELSE Kinds \ {"commit"}]

CommitCase(op, n, b) == [op |-> op, kind |-> "commit", owner |-> Case, expected |-> n,
                         binding |-> b, profile |-> NoProfile]
ReviseTo(op, n, q)   == [op |-> op, kind |-> "revise", owner |-> Prof, expected |-> n,
                         binding |-> 1, profile |-> q]
ActivateIt(op, q)    == [op |-> op, kind |-> "activate", owner |-> Sel, expected |-> 1,
                         binding |-> 1, profile |-> q]
RetireFor(op, q)     == [op |-> op, kind |-> "retire", owner |-> Sel, expected |-> 1,
                         binding |-> 1, profile |-> q]
RebuildAt(op, f)     == [op |-> op, kind |-> "rebuild", owner |-> Sel, expected |-> f,
                         binding |-> 1, profile |-> NoProfile]

\* The first attempt creates the Case or a further Profile revision.  The second
\* retries the first, races it for the Case (or reuses its operation identity for
\* another request), or changes the selection.  The third revises what the first
\* made, rebuilds the projection, or retires the Profile under the others.
MCPlan ==
  (p1 :> {CommitCase(o1, 0, 1), ReviseTo(o2, 1, q2)}) @@
  (p2 :> {CommitCase(o1, 0, 1), CommitCase(o2, 0, 1), ActivateIt(o3, q2), RetireFor(o3, q2)}) @@
  (p3 :> {CommitCase(o4, 1, 1), RebuildAt(o4, 2), RetireFor(o4, NoProfile)})
===============================================================================
