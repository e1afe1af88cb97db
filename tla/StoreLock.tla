------------------------------- MODULE StoreLock -------------------------------
(***************************************************************************)
(* The lock of a store's file (PackageLock) as the runs and the proofs     *)
(* about it both see it: under names that stand beside those of the other  *)
(* files of a store.                                                       *)
(***************************************************************************)

CONSTANTS Procs, Nobody, MaxKilled

VARIABLES made, owner, contents, copy, session, said, killed

L == INSTANCE PackageLock WITH pc <- session, answer <- said

ASSUME LockAssumption == L!LockConstants

LockSpec == L!Spec

\* An update that was acknowledged is lost only to three sessions, one of them killed
\* (embedded-sqlite.mjs: acquireLock).
LossTakesThree == L!LossTakesThree

\* Every call ends: it gets the lock or gives up waiting (embedded-sqlite.mjs: acquireLock).
EverySessionEnds == L!EverySessionEnds

\* What the code does not do once a process was killed
AnswersAreDurable == L!AnswersAreDurable
===============================================================================
