-------------------------- MODULE MCMarkdownWorkspace --------------------------
EXTENDS MarkdownWorkspace, TLC

CONSTANTS d1, d2, c1, c2

MCDigests == {d1, d2}
MCDossiers == {c1, c2}

\* One of the Frames names a dossier as the evidence of a settled disposition.
MCCites == (d1 :> Absent) @@ (d2 :> c1)
===============================================================================
