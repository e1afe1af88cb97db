--------------------------- MODULE MCReconciliation ---------------------------
\* The instance of Reconciliation that TLC checks: a Case, a Profile and a Space,
\* which sort in that order, and one consumer, who follows one snapshot to the feed
\* while others write and expire it.
EXTENDS Reconciliation, TLC

CONSTANTS c1, case, prof, wksp, s1

MCConsumers  == {c1}
MCOwners     == {case, prof, wksp}
MCProfiles   == {prof}
MCRank       == (case :> 1) @@ (prof :> 2) @@ (wksp :> 3)
MCSnapshots  == {s1}
===============================================================================
