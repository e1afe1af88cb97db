---------------------------- MODULE PredecessorParts ----------------------------
(***************************************************************************)
(* The predecessor store (PredecessorStore, which this module extends)     *)
(* beside two more parts of it that share no state with it here: what a    *)
(* Frame commits (F), and the entries of the projection (E).  What each    *)
(* part promises is stated here, for the run and for the proofs.           *)
(***************************************************************************)
EXTENDS PredecessorStore

CONSTANTS
  Attempts, Ops, Frames, Offered, Initial, InitOp,                            \* PredecessorFrames
  Profile, Items, Boundaries, Dispositions, FrameCases, CaseOps,
  Owners, Resource, Elsewhere, MaxOwners, MaxEntries, MaxNumber, Writers      \* ProjectionEntries

VARIABLES
  versions, revisions, frameReceipts, caseRevisions, caseReceipts, call,
  corpus, generation, status, source, purged

F == INSTANCE PredecessorFrames WITH Cases <- FrameCases, receipts <- frameReceipts

E == INSTANCE ProjectionEntries

ASSUME FramesAssumption == F!FrameConstants

ASSUME EntriesAssumption == E!EntriesConstants

-------------------------------------------------------------------------------
\* A Frame keeps what was committed, family by family (frame/index.mjs:598).
FramesAreKept == F!FramesAreKept

\* What a revision of a Frame refers to is there: the version that an item was reopened from,
\* and the Case revision that realizes a disposition (frame/index.mjs:1066-1133).
RevisionsAreFounded == F!ReopensNamePrior /\ F!RealizedByCases

\* A retry that finds its operation committed builds the envelope that was committed,
\* whatever became of the Frame since (frame/index.mjs:598-603, 1106-1109).
RetriesAreAnswered == [][\A q \in Attempts : F!RetryIsAnswered(q)]_F!vars

\* The entries of the projection tell every drift, and a purge takes its own and no others
\* (projection.mjs:336-409, mechanical.mjs:1406-1435).
EntriesAreTrue == E!DriftIsTold /\ E!PurgeTakesItsOwn

\* What the code does not do: it has a counterexample, in no listed run
ExactRetriesAgree == F!ExactRetriesAgree

FrameTypeOK == F!TypeOK
EntriesTypeOK == E!TypeOK
===============================================================================
