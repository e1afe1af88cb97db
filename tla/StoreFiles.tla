------------------------------- MODULE StoreFiles -------------------------------
(***************************************************************************)
(* What becomes of the files of a store, in parts that share no state: it  *)
(* is restored (StoreRestore, which this module extends), initialized and  *)
(* snapshotted (B), exported (E), cut over to the final schema (C), or a   *)
(* successor is initialized by grant (G).  What is not there is Absent in  *)
(* all of them.  What each part promises is stated here, for the run and   *)
(* for the proofs.                                                         *)
(***************************************************************************)
EXTENDS StoreRestore

CONSTANTS
  Calls, Operations, Requests, Plan, Torn, OtherCommits, OtherFaults,     \* StoreBootstrap
  Preflights, Finalizations, ExportIds, MaxMoves, MaxKills, MaxAttempts,  \* StoreExport
  Attempts, CutoverIds, Partial, MaxWrites,                               \* StoreCutover
  Initializers, Grants, MaxRemovals,                                      \* SuccessorBootstrap
  MaxCrashes                                                              \* of either

VARIABLES
  file, artifact, intent, at, read, outcome, answer, others, faulty,
  states, settled, temporary, final, step, exported, observed, operation, terminal, fenceRead, attempts,
    moves, kills,
  predecessor, retained, destination, phase, admitted, cutOver, writes, cutCrashes,
  grant, consumed, reservation, successor, stage, granted, record, initialized, grantCrashes, removals

B == INSTANCE StoreBootstrap WITH MaxCommits <- OtherCommits, MaxFaults <- OtherFaults

E == INSTANCE StoreExport WITH None <- Absent, reply <- exported

C == INSTANCE StoreCutover WITH Missing <- Absent, told <- cutOver, crashes <- cutCrashes

G == INSTANCE SuccessorBootstrap WITH
  Attempts <- Initializers, Missing <- Absent, operation <- granted, told <- initialized, crashes <- grantCrashes

ASSUME PartsAssumption ==
  B!BootstrapConstants /\ E!ExportConstants /\ C!CutoverConstants /\ G!GrantConstants

-------------------------------------------------------------------------------
\* A snapshot that was settled is the file that is there, and nothing was committed between
\* the state in the file and its receipt (operations/index.mjs:918).
SnapshotIsTrue == B!SnapshotIsTrue

\* An export that is ready is of one state of the store, and one that is finalized is whole
\* and stays (export/index.mjs:488, 784).
ExportIsTrue == E!ReadyIsOneState /\ E!FinalizedIsExact

\* The final store of a cutover is one state of the predecessor (cutover.mjs:315).
CutoverIsOneState == C!CutoverIsOneState

\* Whoever is told that a store was initialized is told of the one that has the name, in the
\* predecessor (substrate/index.mjs:528) and by grant (bootstrap/index.mjs:362).
OneMaker == B!InitializersAgree /\ G!OneGrantedMaker

\* What the code does not do: each has a counterexample, in no listed run
CopiesAreExplained  == B!CopiesAreExplained
BlockedHasNoEffect  == E!BlockedHasNoEffect
ConsumedIsGone      == G!ConsumedIsGone
RemovedStaysRemoved == G!RemovedStaysRemoved

FileTypesOK == B!TypeOK /\ E!TypeOK /\ C!TypeOK /\ G!TypeOK
===============================================================================
