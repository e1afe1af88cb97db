-------------------------- MODULE StoreLifecycleProofs --------------------------
(***************************************************************************)
(* Proofs about what becomes of the files of a store, for any calls,       *)
(* operations, fences and numbers of commits and of faults.                *)
(*                                                                         *)
(* StoreRestore: the prior state is retained, and a store that went away   *)
(* can be accounted for.  From the moment that its copy is verified the    *)
(* copy is what the rest relies on, and the stages of the journal say so   *)
(* after a kill.  The receipt is true as long as the replacement cannot    *)
(* reach the fence of the target, by which a replay tells the one from the *)
(* other.                                                                  *)
(*                                                                         *)
(* The other parts do not share its state: they are the instances of       *)
(* StoreFiles.  In all of them a file that has its name is not replaced (a *)
(* store, a snapshot, a final bundle, a retained copy, a reservation), and *)
(* what a call has verified of it stays true until the call settles it.    *)
(*                                                                         *)
(* PackageLock: at most one session holds the lock and its copy is the     *)
(* file, so no update is lost as long as no process is killed; and what a  *)
(* loss takes.  That invariant keeps what of all this is left when         *)
(* processes are killed: until one is that holds the lock, all of it; from *)
(* then on, that a copy differs from the file only by work of others than  *)
(* a killed holder, the third of those that a loss takes.                  *)
(***************************************************************************)
EXTENDS StoreFiles, StoreLock, Sequences, FiniteSetTheorems, TLAPS

-------------------------------------------------------------------------------
\* The restore

Labels == {"idle", "authorize", "reject", "retain", "copying", "retained", "decide", "recheck",
           "replace", "replaced", "replaceFailed", "fail", "health", "inspect", "settle", "finish",
           "quarantine", "quarantined", "rollback", "rolledBack", "settleRollback", "rollbackFailed"}

\* Where the call relies on the copy, and the stages from which a replay will
Verified == {"retained", "decide", "recheck", "replace", "replaced", "replaceFailed", "health",
             "inspect", "settle", "finish", "quarantine", "quarantined", "rollback", "rolledBack",
             "settleRollback", "rollbackFailed"}

Relying == {"prior_copy_verified", "replacement_ready", "replaced_pending_health",
            "unhealthy_quarantined", "terminal_external"}

\* Where the replacement has taken, or is to lose, the store's name
Replacing == {"health", "inspect", "settle", "finish", "quarantine", "quarantined", "rollback",
              "rolledBack", "settleRollback", "rollbackFailed"}

Copied == IsExpected(prior) /\ prior.lineage = "target"

CopyOK ==
  /\ prior \in Stores => prior.lineage = "target"
  /\ pc = "copying" => prior = Absent /\ IsExpected(seen)
  /\ pc \in Verified \/ journal \in Relying => Copied

AbsenceOK ==
  /\ store = Absent => /\ quarantine # Absent /\ journal # Absent
                       /\ pc \in {"idle", "authorize", "retain", "retained", "decide", "recheck",
                                  "replaceFailed", "quarantined", "rollback", "rollbackFailed"}
  /\ pc \in {"authorize", "retain", "copying", "retained"} /\ seen # Absent => store # Absent
  /\ pc = "quarantined" => quarantine # Absent
  /\ pc \in Replacing => journal # Absent

RetainedInv == TypeOK /\ pc \in Labels /\ PriorIsRetained /\ CopyOK /\ AbsenceOK

-------------------------------------------------------------------------------
\* Changes of a store leave it a store of its lineage.
LEMMA SettledStore ==
  ASSUME NEW s \in Stores, NEW o \in Outcomes
  PROVE  /\ [s EXCEPT !.receipt = o, !.fence = @ + 1] \in Stores
         /\ [s EXCEPT !.receipt = o, !.fence = @ + 1].lineage = s.lineage
         /\ [s EXCEPT !.receipt = o, !.fence = @ + 1].receipt = o
         /\ [s EXCEPT !.receipt = o, !.fence = @ + 1].fence = s.fence + 1
<1>1. s.fence \in Nat /\ s.fence + 1 \in Nat /\ o \in Outcomes \cup {"none"}
  BY DEF Stores
<1>2. [s EXCEPT !.receipt = o, !.fence = @ + 1] = [s EXCEPT !.receipt = o, !.fence = s.fence + 1]
  BY DEF Stores
<1> QED
  BY <1>1, <1>2 DEF Stores

\* A store that is damaged keeps everything but its health.
LEMMA CorruptedStore ==
  ASSUME NEW s \in Stores
  PROVE  /\ [s EXCEPT !.healthy = FALSE] \in Stores /\ ~[s EXCEPT !.healthy = FALSE].healthy
         /\ [s EXCEPT !.healthy = FALSE].lineage = s.lineage
         /\ [s EXCEPT !.healthy = FALSE].receipt = s.receipt
         /\ [s EXCEPT !.healthy = FALSE].fence = s.fence
BY DEF Stores

\* A store that others commit to keeps its lineage.
LEMMA CommittedStore ==
  ASSUME NEW s \in Stores
  PROVE  /\ [s EXCEPT !.fence = @ + 1] \in Stores
         /\ [s EXCEPT !.fence = @ + 1].lineage = s.lineage
         /\ [s EXCEPT !.fence = @ + 1].receipt = s.receipt
         /\ [s EXCEPT !.fence = @ + 1].fence = s.fence + 1
BY DEF Stores

\* The snapshot is a store.
LEMMA SnapshotStore ==
  /\ Snapshot \in Stores
  /\ Snapshot.lineage = "snapshot" /\ Snapshot.receipt = "none" /\ Snapshot.fence = SnapshotFence
BY RestoreAssumption DEF RestoreAssumption, Stores, Snapshot, Outcomes

\* The target is a store.
LEMMA TargetStore ==
  /\ Target \in Stores
  /\ Target.lineage = "target" /\ Target.receipt = "none" /\ Target.fence = TargetFence
BY RestoreAssumption DEF RestoreAssumption, Stores, Target, Outcomes

-------------------------------------------------------------------------------
\* What other processes and a settlement make of the store that is there
LEMMA Facts ==
  ASSUME TypeOK
  PROVE  /\ Absent \notin Stores
         /\ \A o \in Outcomes : store \in Stores => Settled(o) \in Stores /\ Settled(o).lineage = store.lineage
         /\ Snapshot \in Stores /\ Target \in Stores
BY FileAssumption, SettledStore, SnapshotStore, TargetStore DEF Settled, FileAssumption

\* Every step keeps the prior state in the store or in its verified copy.
LEMMA RetainedStep ==
  ASSUME RetainedInv, [Next]_vars
  PROVE  RetainedInv'
<1> USE DEF RetainedInv, TypeOK, PriorIsRetained, CopyOK, AbsenceOK
<1>1. CASE UNCHANGED vars
  BY <1>1 DEF vars, files, IsExpected, Available, Copied
<1>2. CASE Begin
  BY <1>2, Facts, FileAssumption DEF Begin, Goto, Finish, Others, files, IsExpected, Available, Copied, Verified,
     Relying, Replacing, Labels, Stages, Outcomes
<1>3. CASE Authorize
  BY <1>3, Facts, FileAssumption DEF Authorize, Goto, Finish, Others, files, IsExpected, Available, Copied,
     Verified,
     Relying, Replacing, Labels, Stages, Outcomes
<1>4. CASE Reject
  BY <1>4, Facts, FileAssumption DEF Reject, Goto, Finish, Others, files, IsExpected, Available, Copied, Verified,
     Relying, Replacing, Labels, Stages, Outcomes
<1>5. CASE Retain
  BY <1>5, Facts, FileAssumption DEF Retain, Goto, Finish, Others, files, IsExpected, Available, Copied, Verified,
     Relying, Replacing, Labels, Stages, Outcomes
<1>6. CASE Copy
  BY <1>6, Facts, FileAssumption DEF Copy, Goto, Finish, Others, files, IsExpected, Available, Copied, Verified,
     Relying, Replacing, Labels, Stages, Outcomes
<1>7. CASE RecordPrior
  BY <1>7, Facts, FileAssumption DEF RecordPrior, Goto, Finish, Others, files, IsExpected, Available, Copied,
     Verified,
     Relying, Replacing, Labels, Stages, Outcomes
<1>8. CASE Decide
  BY <1>8, Facts, FileAssumption DEF Decide, Goto, Finish, Others, files, IsExpected, Available, Copied, Verified,
     Relying, Replacing, Labels, Stages, Outcomes
<1>9. CASE Recheck
  BY <1>9, Facts, FileAssumption DEF Recheck, Goto, Finish, Others, files, IsExpected, Available, Copied, Verified,
     Relying, Replacing, Labels, Stages, Outcomes
<1>10. CASE Replace
  BY <1>10, Facts, FileAssumption DEF Replace, Goto, Finish, Others, files, IsExpected, Available, Copied,
     Verified,
     Relying, Replacing, Labels, Stages, Outcomes
<1>11. CASE RecordReplaced
  BY <1>11, Facts, FileAssumption DEF RecordReplaced, Goto, Finish, Others, files, IsExpected, Available,
     Copied, Verified,
     Relying, Replacing, Labels, Stages, Outcomes
<1>12. CASE ReplaceFailed
  BY <1>12, Facts, FileAssumption DEF ReplaceFailed, Goto, Finish, Others, files, IsExpected, Available, Copied,
     Verified,
     Relying, Replacing, Labels, Stages, Outcomes
<1>13. CASE SettleFailed
  BY <1>13, Facts, FileAssumption DEF SettleFailed, Goto, Finish, Others, files, IsExpected, Available, Copied,
     Verified,
     Relying, Replacing, Labels, Stages, Outcomes
<1>14. CASE Verify
  BY <1>14, Facts, FileAssumption DEF Verify, Goto, Finish, Others, files, IsExpected, Available, Copied, Verified,
     Relying, Replacing, Labels, Stages, Outcomes
<1>15. CASE Inspect
  BY <1>15, Facts, FileAssumption DEF Inspect, Goto, Finish, Others, files, IsExpected, Available, Copied,
     Verified,
     Relying, Replacing, Labels, Stages, Outcomes
<1>16. CASE Settle
  BY <1>16, Facts, FileAssumption DEF Settle, Goto, Finish, Others, files, IsExpected, Available, Copied, Verified,
     Relying, Replacing, Labels, Stages, Outcomes
<1>17. CASE Complete
  BY <1>17, Facts, FileAssumption DEF Complete, Goto, Finish, Others, files, IsExpected, Available, Copied,
     Verified,
     Relying, Replacing, Labels, Stages, Outcomes
<1>18. CASE Quarantine
  BY <1>18, Facts, FileAssumption DEF Quarantine, Goto, Finish, Others, files, IsExpected, Available, Copied,
     Verified,
     Relying, Replacing, Labels, Stages, Outcomes
<1>19. CASE RecordQuarantine
  BY <1>19, Facts, FileAssumption DEF RecordQuarantine, Goto, Finish, Others, files, IsExpected, Available,
     Copied, Verified,
     Relying, Replacing, Labels, Stages, Outcomes
<1>20. CASE Rollback
  BY <1>20, Facts, FileAssumption DEF Rollback, Goto, Finish, Others, files, IsExpected, Available, Copied,
     Verified,
     Relying, Replacing, Labels, Stages, Outcomes
<1>21. CASE InspectRollback
  BY <1>21, Facts, FileAssumption DEF InspectRollback, Goto, Finish, Others, files, IsExpected, Available,
     Copied, Verified,
     Relying, Replacing, Labels, Stages, Outcomes
<1>22. CASE SettleRollback
  BY <1>22, Facts, FileAssumption DEF SettleRollback, Goto, Finish, Others, files, IsExpected, Available,
     Copied, Verified,
     Relying, Replacing, Labels, Stages, Outcomes
<1>23. CASE RollbackFailed
  BY <1>23, Facts, FileAssumption DEF RollbackFailed, Goto, Finish, Others, files, IsExpected, Available,
     Copied, Verified,
     Relying, Replacing, Labels, Stages, Outcomes
<1>24. CASE Kill
  <2>1. faults' \in 0 .. MaxFaults
    BY <1>24, RestoreAssumption DEF Kill, Fault, RestoreAssumption
  <2> QED
    BY <1>24, <2>1, FileAssumption DEF Kill, Finish, IsExpected, Available, Copied, Verified,
       Relying, Replacing, Labels, Stages, FileAssumption
<1>25. CASE Throws
  <2>1. faults' \in 0 .. MaxFaults
    BY <1>25, RestoreAssumption DEF Throws, Fault, RestoreAssumption
  <2> QED
    BY <1>25, <2>1, FileAssumption DEF Throws, Goto, Finish, files, IsExpected, Available, Copied, Verified,
       Relying, Replacing, Labels
<1>26. CASE Corrupt
  <2>1. faults' \in 0 .. MaxFaults
    BY <1>26, RestoreAssumption DEF Corrupt, Fault, RestoreAssumption
  <2>2. store \in Stores /\ store' \in Stores /\ store'.lineage = store.lineage
    BY <1>26, CorruptedStore DEF Corrupt, Available
  <2> QED
    BY <1>26, <2>1, <2>2, FileAssumption DEF Corrupt, IsExpected, Available, Copied, FileAssumption
<1>27. CASE LoseSource
  <2>1. faults' \in 0 .. MaxFaults
    BY <1>27, RestoreAssumption DEF LoseSource, Fault, RestoreAssumption
  <2> QED
    BY <1>27, <2>1 DEF LoseSource, files, IsExpected, Available, Copied
<1>28. CASE Commit
  <2>1. commits' \in 0 .. MaxCommits
    BY <1>28, RestoreAssumption DEF Commit, RestoreAssumption
  <2>2. store \in Stores /\ store' \in Stores /\ store'.lineage = store.lineage
    BY <1>28, CommittedStore DEF Commit, Available
  <2> QED
    BY <1>28, <2>1, <2>2, FileAssumption DEF Commit, IsExpected, Available, Copied, FileAssumption
<1> QED
  BY <1>1, <1>2, <1>3, <1>4, <1>5, <1>6, <1>7, <1>8, <1>9, <1>10, <1>11, <1>12, <1>13, <1>14,
     <1>15, <1>16, <1>17, <1>18, <1>19, <1>20, <1>21, <1>22, <1>23, <1>24, <1>25, <1>26, <1>27,
     <1>28 DEF Next, Step

\* At the start the store is the target, at its fence or one further.
LEMMA RetainedInit ==
  ASSUME Init
  PROVE  RetainedInv
<1>1. store \in Stores /\ store.lineage = "target"
  <2>1. store = Target \/ store = [Target EXCEPT !.fence = TargetFence + 1]
    BY DEF Init
  <2>2. ASSUME NEW s \in Stores, NEW n \in Nat
        PROVE [s EXCEPT !.fence = n] \in Stores /\ [s EXCEPT !.fence = n].lineage = s.lineage
    BY DEF Stores
  <2>3. TargetFence + 1 \in Nat
    BY RestoreAssumption DEF RestoreAssumption
  <2> QED
    BY <2>1, <2>2, <2>3, TargetStore
<1>2. commits \in 0 .. MaxCommits /\ faults \in 0 .. MaxFaults
  BY RestoreAssumption DEF Init, RestoreAssumption
<1> QED
  BY <1>1, <1>2, FileAssumption
  DEF Init, RetainedInv, TypeOK, PriorIsRetained, CopyOK, AbsenceOK, FileAssumption, Labels, Verified, Relying,
      Replacing, Stages

\* Whatever fails or is killed, the prior state is in the store or in its copy.
THEOREM PriorStaysRetained == Spec => []PriorIsRetained
<1>1. RetainedInv => PriorIsRetained
  BY DEF RetainedInv
<1> QED
  BY <1>1, RetainedInit, RetainedStep, PTL DEF Spec

\* A store that went away is in quarantine, and a replay knows.
THEOREM AbsenceIsExplained == Spec => []AbsentIsQuarantined
<1>1. RetainedInv => AbsentIsQuarantined
  BY DEF RetainedInv, AbsenceOK, AbsentIsQuarantined
<1> QED
  BY <1>1, RetainedInit, RetainedStep, PTL DEF Spec

\* The files and the journal have their types.
THEOREM TypeCorrect == Spec => []TypeOK
<1>1. RetainedInv => TypeOK
  BY DEF RetainedInv
<1> QED
  BY <1>1, RetainedInit, RetainedStep, PTL DEF Spec

-------------------------------------------------------------------------------
\* The receipt

\* Commits to the replacement do not bring it to the fence of the target.
OutOfReach == SnapshotFence + MaxCommits + 1 < TargetFence

\* Where the name is known to be the replacement's, and where it is known not to be
Replaced == {"replaced", "health", "inspect", "settle"}

NotReplaced == {"reject", "copying", "fail", "rolledBack", "settleRollback"}

ReceiptOK ==
  /\ ReceiptIsTrue
  /\ prior \in Stores => prior.receipt # "restored"
  /\ pc \in Replaced => store \in Stores /\ store.lineage = "snapshot" /\ store.receipt = "none"
  /\ pc = "finish" => store \in Stores /\ store.receipt = "restored"
  /\ pc \in {"recheck", "replace", "replaced", "replaceFailed"} => journal # Absent
  /\ store \in Stores /\ store.lineage = "snapshot" =>
       /\ store.fence <= SnapshotFence + commits + 1
       /\ store.receipt = "none" => store.fence <= SnapshotFence + commits /\ journal # Absent
       /\ pc = "authorize" => journal # Absent
       /\ pc \notin NotReplaced
       /\ pc \in {"authorize", "retain", "copying", "retained"} => ~IsExpected(seen)

\* A replacement is not taken for the target.
LEMMA ReplacementIsOlder ==
  ASSUME OutOfReach, RetainedInv, ReceiptOK, store \in Stores, store.lineage = "snapshot"
  PROVE  ~IsExpected(store)
<1>1. store.fence \in Nat /\ store.fence <= SnapshotFence + commits + 1 /\ commits \in 0 .. MaxCommits
  BY DEF ReceiptOK, RetainedInv, TypeOK, Stores
<1>2. store.fence < TargetFence
  BY <1>1, RestoreAssumption DEF OutOfReach, RestoreAssumption
<1> QED
  BY <1>1, <1>2, RestoreAssumption DEF IsExpected, RestoreAssumption

\* What the receipt is judged by: lineage, fence and receipt of the stores there can be.
LEMMA ReceiptFacts ==
  ASSUME RetainedInv
  PROVE  /\ Absent \notin Stores
         /\ store \in Stores => store.lineage \in {"target", "snapshot"} /\ store.fence \in Nat
         /\ \A o \in Outcomes : store \in Stores =>
              /\ Settled(o) \in Stores /\ Settled(o).lineage = store.lineage
              /\ Settled(o).receipt = o /\ Settled(o).fence = store.fence + 1
         /\ Snapshot \in Stores /\ Snapshot.lineage = "snapshot" /\ Snapshot.receipt = "none"
         /\ Snapshot.fence = SnapshotFence
         /\ SnapshotFence \in Nat /\ commits \in Nat /\ MaxCommits \in Nat
<1>1. store \in Stores => store.lineage \in {"target", "snapshot"} /\ store.fence \in Nat
  BY DEF Stores
<1>2. commits \in Nat /\ MaxCommits \in Nat /\ SnapshotFence \in Nat
  BY RestoreAssumption DEF RetainedInv, TypeOK, RestoreAssumption
<1> QED
  BY <1>1, <1>2, FileAssumption, SettledStore, SnapshotStore DEF Settled, FileAssumption

\* Every step keeps the receipt true as long as commits cannot reach the fence of the target.
LEMMA ReceiptStep ==
  ASSUME OutOfReach, RetainedInv, ReceiptOK, [Next]_vars
  PROVE  ReceiptOK'
<1> USE DEF ReceiptOK, ReceiptIsTrue
<1>0. /\ PriorIsRetained /\ store \in Stores \cup {Absent}
      /\ store = Absent => pc \notin NotReplaced
      /\ pc \in Replacing => journal # Absent
      /\ prior \in Stores => prior.lineage = "target"
      /\ pc = "rollback" => prior \in Stores
      /\ store \in Stores /\ store.lineage = "snapshot" => IsExpected(prior)
      /\ "prior_copy_verified" # Absent /\ "replaced_pending_health" # Absent /\ "replacement_ready" # Absent
      /\ "unhealthy_quarantined" # Absent /\ "terminal_external" # Absent
  BY FileAssumption DEF FileAssumption, Stages, RetainedInv, PriorIsRetained, CopyOK, AbsenceOK, TypeOK,
     NotReplaced, Replacing, Verified, Copied, IsExpected, Available
<1>1. CASE UNCHANGED vars
  BY <1>1 DEF vars, files
<1>2. CASE Begin
  BY <1>0, <1>2, ReceiptFacts, ReplacementIsOlder, FileAssumption
  DEF Begin, Goto, Finish, Others, files, Available, Replaced, NotReplaced, Replacing, Outcomes
<1>3. CASE Authorize
  BY <1>0, <1>3, ReceiptFacts, ReplacementIsOlder, FileAssumption
  DEF Authorize, Goto, Finish, Others, files, Available, Replaced, NotReplaced, Replacing, Outcomes
<1>4. CASE Reject
  BY <1>0, <1>4, ReceiptFacts, ReplacementIsOlder, FileAssumption
  DEF Reject, Goto, Finish, Others, files, Available, Replaced, NotReplaced, Replacing, Outcomes, Settles
<1>5. CASE Retain
  BY <1>0, <1>5, ReceiptFacts, ReplacementIsOlder, FileAssumption
  DEF Retain, Goto, Finish, Others, files, IsExpected, Available, Replaced, NotReplaced, Replacing
<1>6. CASE Copy
  BY <1>0, <1>6, ReceiptFacts, ReplacementIsOlder, FileAssumption
  DEF Copy, Goto, Finish, Others, files, Available, Replaced, NotReplaced, Replacing, Outcomes
<1>7. CASE RecordPrior
  BY <1>0, <1>7, ReceiptFacts, ReplacementIsOlder, FileAssumption
  DEF RecordPrior, Goto, Finish, Others, files, Available, Replaced, NotReplaced, Replacing, Outcomes
<1>8. CASE Decide
  BY <1>0, <1>8, ReceiptFacts, ReplacementIsOlder, FileAssumption
  DEF Decide, Goto, Finish, Others, files, Available, Replaced, NotReplaced, Replacing, Outcomes
<1>9. CASE Recheck
  BY <1>0, <1>9, ReceiptFacts, ReplacementIsOlder, FileAssumption
  DEF Recheck, Goto, Finish, Others, files, Available, Replaced, NotReplaced, Replacing, Outcomes
<1>10. CASE Replace
  BY <1>0, <1>10, ReceiptFacts, ReplacementIsOlder, FileAssumption
  DEF Replace, Goto, Finish, Others, files, Available, Replaced, NotReplaced, Replacing, Outcomes
<1>11. CASE RecordReplaced
  BY <1>0, <1>11, ReceiptFacts, ReplacementIsOlder, FileAssumption
  DEF RecordReplaced, Goto, Finish, Others, files, Available, Replaced, NotReplaced, Replacing, Outcomes
<1>12. CASE ReplaceFailed
  BY <1>0, <1>12, ReceiptFacts, ReplacementIsOlder, FileAssumption
  DEF ReplaceFailed, Goto, Finish, Others, files, Available, Replaced, NotReplaced, Replacing, Outcomes
<1>13. CASE SettleFailed
  BY <1>0, <1>13, ReceiptFacts, ReplacementIsOlder, FileAssumption
  DEF SettleFailed, Goto, Finish, Others, files, Available, Replaced, NotReplaced, Replacing, Outcomes, Settles
<1>14. CASE Verify
  BY <1>0, <1>14, ReceiptFacts, ReplacementIsOlder, FileAssumption
  DEF Verify, Goto, Finish, Others, files, Available, Replaced, NotReplaced, Replacing, Outcomes
<1>15. CASE Inspect
  BY <1>0, <1>15, ReceiptFacts, ReplacementIsOlder, FileAssumption
  DEF Inspect, Goto, Finish, Others, files, Available, Replaced, NotReplaced, Replacing, Outcomes
<1>16. CASE Settle
  BY <1>0, <1>16, ReceiptFacts, ReplacementIsOlder, FileAssumption
  DEF Settle, Goto, Finish, Others, files, Available, Replaced, NotReplaced, Replacing, Outcomes, Settles
<1>17. CASE Complete
  BY <1>0, <1>17, ReceiptFacts, ReplacementIsOlder, FileAssumption
  DEF Complete, Goto, Finish, Others, files, Available, Replaced, NotReplaced, Replacing, Outcomes
<1>18. CASE Quarantine
  BY <1>0, <1>18, ReceiptFacts, ReplacementIsOlder, FileAssumption
  DEF Quarantine, Goto, Finish, Others, files, Available, Replaced, NotReplaced, Replacing, Outcomes
<1>19. CASE RecordQuarantine
  BY <1>0, <1>19, ReceiptFacts, ReplacementIsOlder, FileAssumption
  DEF RecordQuarantine, Goto, Finish, Others, files, Available, Replaced, NotReplaced, Replacing, Outcomes
<1>20. CASE Rollback
  BY <1>0, <1>20, ReceiptFacts, ReplacementIsOlder, FileAssumption
  DEF Rollback, Goto, Finish, Others, files, Available, Replaced, NotReplaced, Replacing, Outcomes
<1>21. CASE InspectRollback
  BY <1>0, <1>21, ReceiptFacts, ReplacementIsOlder, FileAssumption
  DEF InspectRollback, Goto, Finish, Others, files, Available, Replaced, NotReplaced, Replacing, Outcomes
<1>22. CASE SettleRollback
  BY <1>0, <1>22, ReceiptFacts, ReplacementIsOlder, FileAssumption
  DEF SettleRollback, Goto, Finish, Others, files, Available, Replaced, NotReplaced, Replacing, Outcomes, Settles
<1>23. CASE RollbackFailed
  BY <1>0, <1>23, ReceiptFacts, ReplacementIsOlder, FileAssumption
  DEF RollbackFailed, Goto, Finish, Others, files, Available, Replaced, NotReplaced, Replacing, Outcomes
<1>24. CASE Kill
  BY <1>0, <1>24, ReceiptFacts, ReplacementIsOlder, FileAssumption
  DEF Kill, Goto, Finish, Others, files, Available, Replaced, NotReplaced, Replacing, Outcomes
<1>25. CASE Throws
  BY <1>0, <1>25, ReceiptFacts, ReplacementIsOlder, FileAssumption
  DEF Throws, Goto, Finish, Others, files, IsExpected, Available, Replaced, NotReplaced, Replacing, Outcomes
<1>26. CASE Corrupt
  <2>1. /\ store \in Stores /\ store' \in Stores /\ store'.lineage = store.lineage
        /\ store'.receipt = store.receipt /\ store'.fence = store.fence
    BY <1>0, <1>26, CorruptedStore DEF Corrupt, Available
  <2> QED
    BY <1>0, <1>26, <2>1, ReceiptFacts DEF Corrupt, Replaced
<1>27. CASE LoseSource
  BY <1>0, <1>27, ReceiptFacts, ReplacementIsOlder, FileAssumption
  DEF LoseSource, Goto, Finish, Others, files, Available, Replaced, NotReplaced, Replacing, Outcomes
<1>28. CASE Commit
  <2>1. /\ store \in Stores /\ store' \in Stores /\ store'.lineage = store.lineage
        /\ store'.receipt = store.receipt /\ store'.fence = store.fence + 1
    BY <1>0, <1>28, CommittedStore DEF Commit, Available
  <2>2. store.fence \in Nat /\ commits \in Nat /\ SnapshotFence \in Nat /\ commits' = commits + 1
    BY <1>28, <2>1, ReceiptFacts DEF Commit
  <2> QED
    BY <1>0, <1>28, <2>1, <2>2, ReceiptFacts DEF Commit, Replaced
<1> QED
  BY <1>1, <1>2, <1>3, <1>4, <1>5, <1>6, <1>7, <1>8, <1>9, <1>10, <1>11, <1>12, <1>13, <1>14,
     <1>15, <1>16, <1>17, <1>18, <1>19, <1>20, <1>21, <1>22, <1>23, <1>24, <1>25, <1>26, <1>27,
     <1>28 DEF Next, Step

\* Unless commits can bring a replacement to the fence of the target, the receipt tells
\* which of the two states the store is in.
THEOREM ReceiptStaysTrue == OutOfReach => (Spec => []ReceiptIsTrue)
<1> SUFFICES ASSUME OutOfReach PROVE Spec => []ReceiptIsTrue
  OBVIOUS
<1>1. Init => RetainedInv /\ ReceiptOK
  <2> SUFFICES ASSUME Init PROVE ReceiptOK
    BY RetainedInit
  <2>1. store \in Stores /\ store.lineage = "target" /\ store.receipt = "none"
    <3>1. store = Target \/ store = [Target EXCEPT !.fence = TargetFence + 1]
      BY DEF Init
    <3>2. TargetFence + 1 \in Nat
      BY RestoreAssumption DEF RestoreAssumption
    <3>3. ASSUME NEW s \in Stores, NEW m \in Nat
          PROVE  /\ [s EXCEPT !.fence = m] \in Stores /\ [s EXCEPT !.fence = m].lineage = s.lineage
                 /\ [s EXCEPT !.fence = m].receipt = s.receipt
      BY DEF Stores
    <3> QED
      BY <3>1, <3>2, <3>3, TargetStore
  <2> QED
    BY <2>1, FileAssumption DEF Init, ReceiptOK, ReceiptIsTrue, Replaced, NotReplaced, FileAssumption
<1>2. RetainedInv /\ ReceiptOK /\ [Next]_vars => RetainedInv' /\ ReceiptOK'
  BY RetainedStep, ReceiptStep
<1>3. ReceiptOK => ReceiptIsTrue
  BY DEF ReceiptOK
<1> QED
  BY <1>1, <1>2, <1>3, PTL DEF Spec

-------------------------------------------------------------------------------
\* The initialization and the snapshot

\* Where a call has found the store, and where a snapshot has found the fence that it expects
Found  == {"receipt", "check", "match", "verify", "intend", "export", "verifyNew", "failed", "settle", "clean"}
Agreed == {"match", "verify", "intend", "export", "verifyNew"}

\* A snapshot that is to be settled is of the file that is there, at the fence that was read.
CallOK(c) ==
  LET r == read[c] IN
  /\ at[c] \in Found => file # Absent
  /\ outcome[c] \in B!Outcomes \cup {"none"}
  /\ at[c] \in Agreed => r.fence = Plan[c].fence
  /\ at[c] = "settle" => outcome[c] \in B!Outcomes
  /\ at[c] = "settle" /\ outcome[c] = "snapshotted" =>
       artifact # Absent /\ artifact.fence = r.fence
  /\ answer[c].status = "initialized" => file # Absent /\ file.id = answer[c].id

CallTypes ==
  /\ DOMAIN at = Calls /\ DOMAIN read = Calls /\ DOMAIN outcome = Calls /\ DOMAIN answer = Calls

\* A copy is of the store.
CopyIsOwn == artifact # Absent => artifact \in B!Copies /\ file # Absent /\ artifact.id = file.id

BootstrapInv ==
  /\ file \in B!Stored \cup {Absent} /\ CopyIsOwn /\ B!SnapshotIsTrue
  /\ CallTypes /\ \A c \in Calls : CallOK(c)

\* A store that commits keeps its identity.
LEMMA Commits ==
  ASSUME file \in B!Stored, file' = [file EXCEPT !.fence = @ + 1]
  PROVE  file' \in B!Stored /\ file'.id = file.id /\ file'.receipts = file.receipts
  BY DEF B!Stored

\* So does one that settles a receipt, and it keeps the others.
LEMMA SettlesOne ==
  ASSUME file \in B!Stored, NEW o \in Operations, NEW q \in Requests, NEW what \in B!Outcomes,
         file' = [file EXCEPT !.fence = @ + 1,
                    !.receipts[o] = [request |-> q, outcome |-> what, fence |-> file.fence + 1]]
  PROVE  /\ file' \in B!Stored /\ file'.id = file.id
         /\ file'.receipts[o] = [request |-> q, outcome |-> what, fence |-> file.fence + 1]
         /\ \A p \in Operations \ {o} : file'.receipts[p] = file.receipts[p]
<1>1. /\ file \in [id: Calls, fence: Nat \ {0}, receipts: [Operations ->
             [request: Requests, outcome: B!Outcomes, fence: Nat \ {0}] \cup {B!NoRow}]]
  BY DEF B!Stored
<1>2. file.fence + 1 \in Nat \ {0}
  BY <1>1
<1> DEFINE row == [request |-> q, outcome |-> what, fence |-> file.fence + 1]
           Rows == [request: Requests, outcome: B!Outcomes, fence: Nat \ {0}] \cup {B!NoRow}
<1>3. row \in Rows
  BY <1>2
<1> HIDE DEF row, Rows
<1>4. file \in [id: Calls, fence: Nat \ {0}, receipts: [Operations -> Rows]]
  BY <1>1 DEF Rows
<1>5. file' = [file EXCEPT !.fence = @ + 1, !.receipts[o] = row]
  BY DEF row
<1>6. /\ file' \in [id: Calls, fence: Nat \ {0}, receipts: [Operations -> Rows]] /\ file'.id = file.id
      /\ file'.receipts[o] = row /\ \A p \in Operations \ {o} : file'.receipts[p] = file.receipts[p]
  <2> DEFINE f == file.receipts
             g == [f EXCEPT ![o] = row]
  <2>1. f \in [Operations -> Rows]
    BY <1>4
  <2>2. file' = [file EXCEPT !.fence = file.fence + 1, !.receipts = g]
    BY <1>5
  <2>3. g \in [Operations -> Rows] /\ g[o] = row /\ \A p \in Operations \ {o} : g[p] = f[p]
    <3> HIDE DEF f
    <3> QED
      BY <1>3, <2>1
  <2> HIDE DEF g
  <2>4. file' \in [id: Calls, fence: Nat \ {0}, receipts: [Operations -> Rows]] /\ file'.id = file.id
        /\ file'.receipts = g
    BY <1>2, <1>4, <2>2, <2>3
  <2> QED
    BY <2>3, <2>4
<1> QED
  BY <1>6 DEF row, Rows, B!Stored

\* Every step of the initialization and of the snapshot keeps their invariant.
LEMMA BootstrapStep ==
  ASSUME B!BootstrapConstants, BootstrapInv, [B!Next]_B!bvars
  PROVE  BootstrapInv'
<1> USE DEF BootstrapInv, CallTypes
<1>1. Absent \notin B!Stored /\ Absent \notin B!Copies /\ \A c \in Calls :
        Plan[c] \in Requests /\ Plan[c].operation \in Operations
  BY DEF B!BootstrapConstants
<1>2. CASE UNCHANGED B!bvars
  BY <1>2 DEF B!bvars, B!disk, B!calls, CopyIsOwn, CallOK, B!SnapshotIsTrue, B!Outcomes, B!Available
\* What the files do not lose is enough for the calls that do not move.
<1>3. ASSUME file # Absent => file' # Absent /\ file'.id = file.id,
             artifact # Absent => artifact' = artifact,
             NEW b \in Calls, at'[b] = at[b], read'[b] = read[b], outcome'[b] = outcome[b],
             answer'[b] = answer[b]
      PROVE  CallOK(b)'
  <2>1. CallOK(b)
    OBVIOUS
  <2> QED
    BY <1>3, <2>1 DEF CallOK, B!Outcomes
\* A call that moves with no change of the files
<1>4. ASSUME NEW c \in Calls, UNCHANGED <<file, artifact, read>>, DOMAIN at' = Calls, DOMAIN outcome' = Calls,
             DOMAIN answer' = Calls,
             \A b \in Calls \ {c} : at'[b] = at[b] /\ outcome'[b] = outcome[b] /\ answer'[b] = answer[b],
             CallOK(c)'
      PROVE  BootstrapInv'
  <2>1. ASSUME NEW b \in Calls, b # c PROVE CallOK(b)'
    BY <1>3, <1>4, <2>1
  <2> QED
    BY <1>4, <2>1 DEF CopyIsOwn, B!SnapshotIsTrue, B!Available
<1>5. CASE B!Commit
  <2>1. file # Absent /\ file' = [file EXCEPT !.fence = @ + 1] /\ UNCHANGED <<artifact, at, read, outcome, answer>>
    BY <1>5 DEF B!Commit, B!Available, B!calls
  <2>2. file' \in B!Stored /\ file'.id = file.id /\ file'.receipts = file.receipts
    BY <2>1, Commits
  <2>3. \A b \in Calls : CallOK(b)'
    BY <1>1, <1>3, <2>1, <2>2
  <2> QED
    BY <1>1, <2>1, <2>2, <2>3 DEF CopyIsOwn, B!SnapshotIsTrue, B!Available
\* What a call tells is of the store that is there.
<1>6. ASSUME NEW c \in Calls, NEW status, B!Says(c, status), status = "initialized" => file # Absent
      PROVE  /\ DOMAIN answer' = Calls /\ \A b \in Calls \ {c} : answer'[b] = answer[b]
             /\ answer'[c].status = "initialized" => file # Absent /\ file.id = answer'[c].id
  BY <1>6 DEF B!Says, B!Available
<1>7. ASSUME NEW c \in Calls, NEW status, B!Finish(c, status), status = "initialized" => file # Absent,
             UNCHANGED <<file, artifact>>
      PROVE  BootstrapInv'
  <2>1. /\ at' = [at EXCEPT ![c] = "done"] /\ B!Says(c, status) /\ UNCHANGED <<read, outcome>>
    BY <1>7 DEF B!Finish, B!Goto
  <2>2. CallOK(c)'
    BY <1>6, <1>7, <2>1 DEF CallOK, Found, Agreed
  <2> QED
    BY <1>4, <1>6, <1>7, <2>1, <2>2
<1>8. ASSUME NEW c \in Calls, NEW status, B!FinishClean(c, status), at[c] \in Found, UNCHANGED <<file, artifact>>
      PROVE  BootstrapInv'
  <2>1. CASE B!Matches(c)
    <3>1. /\ at' = [at EXCEPT ![c] = "clean"] /\ B!Says(c, status) /\ UNCHANGED <<read, outcome>> /\ file # Absent
      BY <1>8, <2>1 DEF B!FinishClean, B!Goto, CallOK
    <3>2. CallOK(c)'
      BY <1>6, <1>8, <3>1 DEF CallOK, Found, Agreed, B!Outcomes
    <3> QED
      BY <1>4, <1>6, <1>8, <3>1, <3>2
  <2>2. CASE ~B!Matches(c)
    <3>1. B!Finish(c, status) /\ file # Absent
      BY <1>8, <2>2 DEF B!FinishClean, CallOK
    <3> QED
      BY <1>7, <1>8, <3>1
  <2> QED
    BY <2>1, <2>2
\* A call that goes on
<1>9. ASSUME NEW c \in Calls, NEW label, UNCHANGED <<file, artifact, read, outcome, answer>>,
             at' = [at EXCEPT ![c] = label], label # "settle",
             label \in Found => file # Absent,
             label \in Agreed => read[c].fence = Plan[c].fence
      PROVE  BootstrapInv'
  <2>1. CallOK(c)'
    BY <1>9 DEF CallOK, Found, Agreed, B!Outcomes
  <2> QED
    BY <1>4, <1>9, <2>1
<1>10. ASSUME NEW c \in Calls, B!InitializeStore(c) PROVE BootstrapInv'
  <2>1. CASE file = Absent
    BY <1>9, <1>10, <2>1 DEF B!InitializeStore, B!disk, B!Goto, B!Available, Found, Agreed
  <2>2. CASE file # Absent
    <3> DEFINE status == IF B!Settled(c) THEN B!Replayed(c) ELSE "initialized"
    <3>1. B!Finish(c, status) /\ UNCHANGED <<file, artifact>>
      BY <1>10, <2>2 DEF B!InitializeStore, B!disk, B!Available
    <3> QED
      BY <1>7, <2>2, <3>1
  <2> QED
    BY <2>1, <2>2
<1>11. ASSUME NEW c \in Calls, B!CreateStore(c) PROVE BootstrapInv'
  <2>1. CASE file # Absent
    BY <1>7, <1>11, <2>1 DEF B!CreateStore, B!Available
  <2>2. CASE file = Absent
    <3>1. /\ file' = B!Created(c) /\ at' = [at EXCEPT ![c] = "done"] /\ UNCHANGED <<artifact, read, outcome>>
          /\ answer' = [answer EXCEPT ![c] = [status |-> "initialized", id |-> c]]
      BY <1>11, <2>2 DEF B!CreateStore, B!Available, B!Goto
    <3>2. file' \in B!Stored /\ file'.id = c /\ \A o \in Operations : file'.receipts[o].outcome # "snapshotted"
      <4> DEFINE rows == [o \in Operations |-> IF o = Plan[c].operation
                   THEN [request |-> Plan[c], outcome |-> "initialized", fence |-> 1] ELSE B!NoRow]
      <4>1. rows \in [Operations -> [request: Requests, outcome: B!Outcomes, fence: Nat \ {0}] \cup {B!NoRow}]
        BY <1>1 DEF B!Outcomes
      <4>2. \A o \in Operations : rows[o].outcome # "snapshotted"
        BY DEF B!NoRow
      <4>3. file' = [id |-> c, fence |-> 1, receipts |-> rows]
        BY <3>1 DEF B!Created
      <4> HIDE DEF rows
      <4> QED
        BY <4>1, <4>2, <4>3 DEF B!Stored
    <3>3. artifact = Absent
      BY <2>2 DEF CopyIsOwn
    <3>4. file' # Absent
      BY <1>1, <3>2
    <3>5. CallOK(c)'
      BY <3>1, <3>2, <3>4 DEF CallOK, Found, Agreed, B!Outcomes
    <3>6. ASSUME NEW b \in Calls, b # c PROVE CallOK(b)'
      BY <1>3, <2>2, <3>1, <3>3, <3>4, <3>6
    <3> QED
      BY <3>1, <3>2, <3>3, <3>4, <3>5, <3>6 DEF CopyIsOwn, B!SnapshotIsTrue, B!Available
  <2> QED
    BY <2>1, <2>2
<1>12. ASSUME NEW c \in Calls, B!InspectStore(c) PROVE BootstrapInv'
  <2>1. CASE file = Absent
    <3>1. B!Finish(c, "store_unavailable") /\ UNCHANGED <<file, artifact>>
      BY <1>12, <2>1 DEF B!InspectStore, B!Available, B!disk
    <3> QED
      BY <1>7, <3>1
  <2>2. CASE file # Absent
    <3>1. /\ at' = [at EXCEPT ![c] = "receipt"] /\ read' = [read EXCEPT ![c] = file]
          /\ UNCHANGED <<file, artifact, outcome, answer>>
      BY <1>12, <2>2 DEF B!InspectStore, B!Available, B!disk, B!Goto
    <3>2. CallOK(c)'
      BY <2>2, <3>1 DEF CallOK, Found, Agreed, B!Outcomes
    <3>3. ASSUME NEW b \in Calls, b # c PROVE CallOK(b)'
      BY <1>3, <3>1, <3>3
    <3> QED
      BY <3>1, <3>2, <3>3 DEF CopyIsOwn, B!SnapshotIsTrue, B!Available
  <2> QED
    BY <2>1, <2>2
<1>13. ASSUME NEW c \in Calls, B!ReadReceipt(c) PROVE BootstrapInv'
  <2>1. at[c] = "receipt" /\ UNCHANGED <<file, artifact>> /\ at[c] \in Found /\ file # Absent
    BY <1>13 DEF B!ReadReceipt, B!disk, Found, CallOK
  <2>2. CASE ~B!Settled(c)
    BY <1>9, <1>13, <2>1, <2>2 DEF B!ReadReceipt, B!Goto, Found, Agreed
  <2>3. CASE B!Settled(c)
    BY <1>7, <1>8, <1>13, <2>1, <2>3 DEF B!ReadReceipt
  <2> QED
    BY <2>2, <2>3
\* A call that is to settle an outcome: of a snapshot, one that it verified
<1>14. ASSUME NEW c \in Calls, NEW what \in B!Outcomes, B!Settles(c, what), UNCHANGED <<file, artifact>>,
              at[c] \in Found,
              what = "snapshotted" => at[c] \in Agreed /\ B!Expected(c)
       PROVE  BootstrapInv'
  <2>1. /\ at' = [at EXCEPT ![c] = "settle"] /\ outcome' = [outcome EXCEPT ![c] = what]
        /\ UNCHANGED <<read, answer>>
    BY <1>14 DEF B!Settles, B!Goto
  <2>2. CallOK(c)'
    BY <1>14, <2>1 DEF CallOK, Found, Agreed, B!Expected
  <2> QED
    BY <1>4, <1>14, <2>1, <2>2
<1>15. ASSUME NEW c \in Calls, B!CheckTarget(c) PROVE BootstrapInv'
  <2>1. at[c] = "check" /\ UNCHANGED <<file, artifact>> /\ at[c] \in Found /\ file # Absent
    BY <1>15 DEF B!CheckTarget, B!disk, Found, CallOK
  <2>2. CASE read[c].fence # Plan[c].fence
    BY <1>14, <1>15, <2>1, <2>2 DEF B!CheckTarget, B!Outcomes
  <2>3. CASE read[c].fence = Plan[c].fence
    <3> DEFINE label == IF artifact = Absent THEN "intend" ELSE "match"
    <3>1. at' = [at EXCEPT ![c] = label] /\ UNCHANGED <<read, outcome, answer>>
      BY <1>15, <2>3 DEF B!CheckTarget, B!Goto
    <3>2. label # "settle"
      OBVIOUS
    <3> HIDE DEF label
    <3> QED
      BY <1>9, <2>1, <2>3, <3>1, <3>2
  <2> QED
    BY <2>2, <2>3
<1>16. ASSUME NEW c \in Calls, B!MatchIntent(c) PROVE BootstrapInv'
  <2>1. at[c] = "match" /\ UNCHANGED <<file, artifact>> /\ at[c] \in Found /\ file # Absent
        /\ read[c].fence = Plan[c].fence
    BY <1>16 DEF B!MatchIntent, B!disk, Found, Agreed, CallOK
  <2>2. CASE B!Matches(c)
    BY <1>9, <1>16, <2>1, <2>2 DEF B!MatchIntent, B!Goto
  <2>3. CASE ~B!Matches(c)
    BY <1>14, <1>16, <2>1, <2>3 DEF B!MatchIntent, B!Outcomes
  <2> QED
    BY <2>2, <2>3
<1>17. ASSUME NEW c \in Calls, B!WriteIntent(c) PROVE BootstrapInv'
  <2>1. at[c] = "intend" /\ UNCHANGED <<file, artifact, read, outcome, answer>> /\ file # Absent
        /\ read[c].fence = Plan[c].fence
    BY <1>17 DEF B!WriteIntent, Found, Agreed, CallOK
  <2> QED
    BY <1>9, <1>17, <2>1 DEF B!WriteIntent, B!Goto
<1>18. ASSUME NEW c \in Calls, B!Export(c) PROVE BootstrapInv'
  <2>1. at[c] = "export" /\ UNCHANGED <<file, read, outcome, answer>> /\ file # Absent
        /\ read[c].fence = Plan[c].fence
    BY <1>18 DEF B!Export, Found, Agreed, CallOK
  <2>2. CASE artifact # Absent
    BY <1>9, <1>18, <2>1, <2>2 DEF B!Export, B!Goto
  <2>3. CASE artifact = Absent
    <3>1. artifact' = [id |-> file.id, fence |-> file.fence] /\ at' = [at EXCEPT ![c] = "verifyNew"]
      BY <1>18, <2>3 DEF B!Export, B!Goto
    <3>2. artifact' \in B!Copies /\ artifact'.id = file.id
      BY <2>1, <3>1 DEF B!Stored, B!Copies
    <3>3. CallOK(c)'
      BY <2>1, <2>3, <3>1 DEF CallOK, Found, Agreed, B!Outcomes
    <3>4. ASSUME NEW b \in Calls, b # c PROVE CallOK(b)'
      BY <1>3, <2>1, <2>3, <3>1, <3>4
    <3>5. B!SnapshotIsTrue'
      BY <2>1, <2>3 DEF B!SnapshotIsTrue, B!Available
    <3> QED
      BY <2>1, <3>1, <3>2, <3>3, <3>4, <3>5 DEF CopyIsOwn
  <2> QED
    BY <2>2, <2>3
<1>19. ASSUME NEW c \in Calls, B!VerifyExport(c) \/ B!VerifyFound(c) PROVE BootstrapInv'
  <2>1. at[c] \in Agreed \cap Found /\ at[c] # "settle" /\ UNCHANGED <<file, artifact>> /\ file # Absent
    BY <1>19 DEF B!VerifyExport, B!VerifyFound, B!disk, Found, Agreed, CallOK
  <2>2. CASE B!Expected(c)
    BY <1>14, <1>19, <2>1, <2>2 DEF B!VerifyExport, B!VerifyFound, B!Outcomes
  <2>3. CASE ~B!Expected(c) /\ B!VerifyExport(c)
    BY <1>9, <2>1, <2>3 DEF B!VerifyExport, B!Goto, Agreed
  <2>4. CASE ~B!Expected(c) /\ B!VerifyFound(c)
    BY <1>7, <2>1, <2>4 DEF B!VerifyFound
  <2> QED
    BY <1>19, <2>2, <2>3, <2>4
<1>20. ASSUME NEW c \in Calls, B!ExecutionFailed(c) PROVE BootstrapInv'
  <2>1. at[c] \in Found /\ UNCHANGED <<file, artifact>> /\ file # Absent
    BY <1>20 DEF B!ExecutionFailed, B!disk, Found, CallOK
  <2> QED
    BY <1>7, <1>8, <1>20, <2>1 DEF B!ExecutionFailed
<1>21. ASSUME NEW c \in Calls, B!Settle(c) PROVE BootstrapInv'
  <2>1. at[c] = "settle" /\ UNCHANGED <<artifact, intent>> /\ at[c] \in Found /\ file # Absent
        /\ outcome[c] \in B!Outcomes /\ file \in B!Stored
    BY <1>21 DEF B!Settle, Found, CallOK
  <2>2. CASE ~(~B!Settled(c) /\ B!AtFence(c))
    <3>1. UNCHANGED <<file, artifact>>
      BY <1>21, <2>2 DEF B!Settle
    <3>2. (\E status : B!FinishClean(c, status)) \/ (\E status : B!Finish(c, status))
      BY <1>21, <2>2 DEF B!Settle
    <3> QED
      BY <1>7, <1>8, <2>1, <3>1, <3>2
  <2>3. CASE ~B!Settled(c) /\ B!AtFence(c)
    <3> DEFINE o == Plan[c].operation
    <3>1. file' = [file EXCEPT !.fence = @ + 1,
                     !.receipts[o] = [request |-> Plan[c], outcome |-> outcome[c], fence |-> file.fence + 1]]
      BY <1>21, <2>3 DEF B!Settle
    <3>2. o \in Operations /\ Plan[c] \in Requests
      BY <1>1
    <3>3. /\ file' \in B!Stored /\ file'.id = file.id
          /\ file'.receipts[o] = [request |-> Plan[c], outcome |-> outcome[c], fence |-> file.fence + 1]
          /\ \A p \in Operations \ {o} : file'.receipts[p] = file.receipts[p]
      <4> HIDE DEF o
      <4> QED
        BY <2>1, <3>1, <3>2, SettlesOne
    <3>4. file' # Absent
      BY <1>1, <3>3
    <3>5. outcome[c] = "snapshotted" => artifact # Absent /\ artifact.fence = file.fence
      BY <2>1, <2>3 DEF CallOK, B!AtFence
    <3>6. B!SnapshotIsTrue'
      <4> SUFFICES ASSUME NEW p \in Operations, file'.receipts[p].outcome = "snapshotted"
                   PROVE  artifact # Absent /\ artifact.id = file.id
                            /\ artifact.fence = file'.receipts[p].fence - 1
        BY <2>1, <3>3 DEF B!SnapshotIsTrue
      <4>1. CASE p = o
        <5>1. outcome[c] = "snapshotted" /\ file'.receipts[p].fence = file.fence + 1
          BY <3>3, <4>1
        <5>2. file.fence \in Nat
          BY <2>1 DEF B!Stored
        <5>3. file.fence = file'.receipts[p].fence - 1
          BY <5>1, <5>2
        <5> QED
          BY <3>5, <5>1, <5>3 DEF CopyIsOwn
      <4>2. CASE p # o
        <5>1. file'.receipts[p] = file.receipts[p]
          BY <3>3, <4>2
        <5> QED
          BY <2>1, <5>1 DEF B!SnapshotIsTrue, B!Available
      <4> QED
        BY <4>1, <4>2
    <3>7. /\ \E label \in {"clean", "done"} : at' = [at EXCEPT ![c] = label]
          /\ B!Says(c, outcome[c]) /\ UNCHANGED <<read, outcome>>
      BY <1>21, <2>3 DEF B!Settle, B!FinishClean, B!Finish, B!Goto
    <3>8. DOMAIN answer' = Calls /\ \A b \in Calls \ {c} : answer'[b] = answer[b]
      BY <1>6, <2>1, <3>7
    <3>9. answer'[c].status = "initialized" => answer'[c].id = file.id
      BY <1>6, <2>1, <3>7
    <3>10. CallOK(c)'
      BY <3>3, <3>4, <3>7, <3>9 DEF CallOK, Found, Agreed, B!Outcomes
    <3>11. ASSUME NEW b \in Calls, b # c PROVE CallOK(b)'
      BY <1>3, <2>1, <3>3, <3>4, <3>7, <3>8, <3>11
    <3> QED
      BY <2>1, <3>3, <3>4, <3>6, <3>7, <3>8, <3>10, <3>11 DEF CopyIsOwn
  <2> QED
    BY <2>2, <2>3
<1>22. ASSUME NEW c \in Calls, B!Clean(c) \/ B!Kill(c) PROVE BootstrapInv'
  BY <1>9, <1>22 DEF B!Clean, B!Kill, B!Goto, Found, Agreed
<1> QED
  BY <1>2, <1>5, <1>10, <1>11, <1>12, <1>13, <1>15, <1>16, <1>17, <1>18, <1>19, <1>20, <1>21, <1>22
  DEF B!Next, B!Steps

\* A snapshot that was settled is the file that is there, and all who are told that a store
\* was initialized are told of one.
THEOREM BootstrapIsTrue == B!Spec => [](B!SnapshotIsTrue /\ B!InitializersAgree)
<1> USE PartsAssumption
<1>1. B!Init => BootstrapInv
  BY DEF B!Init, B!NoAnswer, BootstrapInv, CopyIsOwn, CallTypes, CallOK, B!SnapshotIsTrue, B!Available,
         Found, Agreed, B!Outcomes
<1>2. BootstrapInv /\ [B!Next]_B!bvars => BootstrapInv'
  BY BootstrapStep
<1>3. BootstrapInv => B!SnapshotIsTrue /\ B!InitializersAgree
  BY DEF BootstrapInv, CallOK, B!InitializersAgree, B!Available
<1> QED
  BY <1>1, <1>2, <1>3, PTL DEF B!Spec

-------------------------------------------------------------------------------
\* The export

State == [case: Nat, frame: Nat, depends: Nat, policy: BOOLEAN]

\* Where a preflight is ahead of its first look, of its second, and of its last
Seen    == {"frames", "caseFragment", "frameFragment", "casesAgain", "framesAgain", "mkdir", "fragments",
            "manifest", "verifyTemporary"}
SeenAll == Seen \ {"frames"}
Checked == {"framesAgain", "mkdir", "fragments", "manifest", "verifyTemporary"}

\* What a preflight has seen is of the state at the fence that it read first: what it read
\* later is so as soon as it finds that fence again.
PreflightOK(c) ==
  LET m == observed[c]  then == states[m.fence]  ready == exported[c] = "ready" IN
  /\ ready => step[c] = "done"
  /\ step[c] \in Seen \/ ready => m.fence \in 1 .. Len(states) /\ then.policy /\ then.case = m.case
  /\ step[c] \in SeenAll \/ ready => then.frame = m.frame
  /\ step[c] = "casesAgain" /\ Len(states) = m.fence => then.depends = m.case
  /\ step[c] \in Checked \/ ready => then.depends = m.case

\* The final bundle, exactly
Exact(o, m) == final = [fragments |-> m, manifest |-> m, marker |-> [operation |-> o, expected |-> m]]

FinalizationOK(c) ==
  /\ step[c] # "start" => operation[c] \in ExportIds
  /\ terminal[c] = "finalized" => step[c] # "start" /\ Exact(operation[c], observed[c])

ReceiptsOK ==
  \A o \in ExportIds : settled[o] # Absent => settled[o].expected \in E!Manifests /\
    (settled[o].outcome = "finalized" => Exact(o, settled[o].expected))

ExportTypes ==
  /\ states \in Seq(State) /\ Len(states) # 0
  /\ DOMAIN settled = ExportIds /\ observed \in [E!Attempted -> E!Manifests]
  /\ DOMAIN step = E!Attempted /\ DOMAIN exported = E!Attempted
  /\ DOMAIN operation = Finalizations /\ DOMAIN terminal = Finalizations

ExportInv ==
  /\ ExportTypes /\ ReceiptsOK
  /\ \A c \in Preflights : PreflightOK(c)
  /\ \A c \in Finalizations : FinalizationOK(c)

\* The bundle that a finalization trusts is one, which nothing replaces.
LEMMA ExactIsThere ==
  ASSUME E!ExportConstants, NEW o \in ExportIds, NEW m \in E!Manifests, Exact(o, m)
  PROVE  final # Absent
<1>1. [fragments |-> m, manifest |-> m, marker |-> [operation |-> o, expected |-> m]] \in E!Bundles
  BY DEF E!Bundles
<1> QED
  BY <1>1 DEF E!ExportConstants, Exact

\* A state that is committed comes after those that were.
LEMMA Appends ==
  ASSUME states \in Seq(State), NEW s \in State, states' = Append(states, s)
  PROVE  /\ states' \in Seq(State) /\ Len(states') = Len(states) + 1
         /\ \A i \in 1 .. Len(states) : states'[i] = states[i]
  OBVIOUS

\* Every step of the export keeps its invariant.
LEMMA ExportStep ==
  ASSUME E!ExportConstants, ExportInv, [E!Next]_E!evars
  PROVE  ExportInv'
<1> USE DEF ExportInv, ExportTypes
<1>1. Preflights \cap Finalizations = {} /\ E!Attempted = Preflights \cup Finalizations
  BY DEF E!ExportConstants, E!Attempted
<1>2. CASE UNCHANGED E!evars
  BY <1>2 DEF E!evars, E!store, E!paths, E!locals, E!counts, ReceiptsOK, PreflightOK, FinalizationOK, Exact
\* A preflight that does not move, as states are added
<1>3. ASSUME NEW c \in Preflights, step'[c] = step[c], exported'[c] = exported[c], observed'[c] = observed[c],
             Len(states') \in Nat, Len(states') >= Len(states), \A i \in 1 .. Len(states) : states'[i] = states[i]
      PROVE  PreflightOK(c)'
  <2>1. PreflightOK(c) /\ observed[c].fence \in Nat
    BY <1>1 DEF E!Manifests
  <2>2. Len(states) \in Nat
    OBVIOUS
  <2> QED
    BY <1>3, <2>1, <2>2 DEF PreflightOK, Seen, SeenAll, Checked
\* A finalization that does not move, and the receipts, as the final bundle stays
<1>4. ASSUME final # Absent => final' = final
      PROVE  /\ \A c \in Finalizations : step'[c] = step[c] /\ operation'[c] = operation[c]
                  /\ terminal'[c] = terminal[c] /\ observed'[c] = observed[c] => FinalizationOK(c)'
             /\ \A o \in ExportIds : settled[o] # Absent /\ settled[o].outcome = "finalized" =>
                  Exact(o, settled[o].expected) /\ final' = final
             /\ settled' = settled => ReceiptsOK'
  <2>1. ASSUME NEW c \in Finalizations, step'[c] = step[c], operation'[c] = operation[c],
               terminal'[c] = terminal[c], observed'[c] = observed[c]
        PROVE  FinalizationOK(c)'
    <3>1. observed[c] \in E!Manifests
      BY <1>1
    <3> QED
      BY <1>4, <2>1, <3>1, ExactIsThere DEF FinalizationOK, Exact
  <2>2. ASSUME NEW o \in ExportIds, settled[o] # Absent, settled[o].outcome = "finalized"
        PROVE  Exact(o, settled[o].expected) /\ final' = final
    BY <1>4, <2>2, ExactIsThere DEF ReceiptsOK
  <2>3. settled' = settled => ReceiptsOK'
    BY <2>2 DEF ReceiptsOK, Exact
  <2> QED
    BY <2>1, <2>2, <2>3
\* A call that leaves the store alone, and the final bundle if there is one
<1>5. ASSUME NEW c \in E!Attempted, UNCHANGED <<states, settled>>, final # Absent => final' = final,
             DOMAIN step' = E!Attempted, DOMAIN exported' = E!Attempted,
             observed' \in [E!Attempted -> E!Manifests],
             \A b \in E!Attempted \ {c} :
               step'[b] = step[b] /\ exported'[b] = exported[b] /\ observed'[b] = observed[b],
             DOMAIN operation' = Finalizations, DOMAIN terminal' = Finalizations,
             \A b \in Finalizations \ {c} : operation'[b] = operation[b] /\ terminal'[b] = terminal[b],
             c \in Preflights => PreflightOK(c)', c \in Finalizations => FinalizationOK(c)'
      PROVE  ExportInv'
  <2>1. ASSUME NEW b \in Preflights PROVE PreflightOK(b)'
    <3>1. CASE b # c
      BY <1>1, <1>3, <1>5, <3>1
    <3> QED
      BY <1>5, <3>1
  <2>2. ASSUME NEW b \in Finalizations PROVE FinalizationOK(b)'
    BY <1>1, <1>4, <1>5
  <2>3. ReceiptsOK'
    BY <1>4, <1>5
  <2> QED
    BY <1>5, <2>1, <2>2, <2>3
\* A preflight that goes on with what it has seen
<1>6. ASSUME NEW c \in Preflights, NEW label, NEW what,
             UNCHANGED <<states, settled, final, observed, operation, terminal>>,
             step' = [step EXCEPT ![c] = label],
             exported' = exported \/ (exported' = [exported EXCEPT ![c] = what] /\ label = "done"),
             step[c] # "done",
             what = "ready" => step[c] = "verifyTemporary",
             label \in Seen => step[c] \in Seen, label \in SeenAll => step[c] \in SeenAll,
             label = "casesAgain" /\ Len(states) = observed[c].fence =>
               states[observed[c].fence].depends = observed[c].case,
             label \in Checked => step[c] \in Checked \/ (step[c] = "casesAgain" /\ Len(states) = observed[c].fence)
      PROVE  ExportInv'
  <2>1. c \in E!Attempted /\ c \notin Finalizations
    BY <1>1
  <2>2. PreflightOK(c)
    OBVIOUS
  <2>3. step'[c] = label /\ (exported'[c] = "ready" => label = "done" /\ step[c] = "verifyTemporary")
    BY <1>6, <2>1, <2>2 DEF PreflightOK
  <2>4. PreflightOK(c)'
    BY <1>6, <2>2, <2>3 DEF PreflightOK, Seen, SeenAll, Checked
  <2> QED
    BY <1>5, <1>6, <2>1, <2>4
<1>7. ASSUME NEW c \in Preflights, E!Preflight(c) PROVE ExportInv'
  <2>1. c \in E!Attempted /\ c \notin Finalizations /\ PreflightOK(c)
    BY <1>1
  <2>2. Len(states) \in Nat \ {0} /\ states[Len(states)] \in State /\ observed[c] \in E!Manifests
    BY <2>1
  <2>3. CASE E!NoTemporary(c) \/ E!NoFinal(c) \/ E!RenderCase(c)
    <3>1. /\ step[c] \in {"start", "noFinal", "caseFragment"}
          /\ UNCHANGED <<states, settled, final, observed, operation, terminal>>
      BY <2>3 DEF E!NoTemporary, E!NoFinal, E!RenderCase, E!store, E!paths, E!locals
    <3>2. \/ /\ exported' = exported
             /\ step' = [step EXCEPT ![c] = IF step[c] = "start" THEN "noFinal"
                            ELSE IF step[c] = "noFinal" THEN "cases" ELSE "frameFragment"]
          \/ \E what \in {"invalid", "blocked"} :
               step' = [step EXCEPT ![c] = "done"] /\ exported' = [exported EXCEPT ![c] = what]
      BY <2>3 DEF E!NoTemporary, E!NoFinal, E!RenderCase, E!Check, E!Go, E!End
    <3>3. ASSUME NEW what \in {"invalid", "blocked"}, step' = [step EXCEPT ![c] = "done"],
                 exported' = [exported EXCEPT ![c] = what]
          PROVE  ExportInv'
      BY <1>6, <3>1, <3>3 DEF Seen, SeenAll, Checked
    <3>4. ASSUME exported' = exported, NEW label, step' = [step EXCEPT ![c] = label],
                 label \in {"noFinal", "cases"} \/ (label = "frameFragment" /\ step[c] = "caseFragment")
          PROVE  ExportInv'
      BY <1>6, <3>1, <3>4 DEF Seen, SeenAll, Checked
    <3> QED
      BY <3>1, <3>2, <3>3, <3>4
  <2>4. CASE E!RenderFrame(c)
    <3>1. step[c] = "frameFragment" /\ UNCHANGED <<states, settled, final, observed, operation, terminal>>
      BY <2>4 DEF E!RenderFrame, E!store, E!paths, E!locals
    <3>2. \/ /\ step' = [step EXCEPT ![c] = "casesAgain"] /\ exported' = exported
             /\ states[Len(states)].depends = observed[c].case
          \/ step' = [step EXCEPT ![c] = "done"] /\ exported' = [exported EXCEPT ![c] = "blocked"]
      BY <2>4 DEF E!RenderFrame, E!Check, E!Go, E!End, E!Now, E!Fence
    <3>3. CASE step' = [step EXCEPT ![c] = "done"] /\ exported' = [exported EXCEPT ![c] = "blocked"]
      BY <1>6, <3>1, <3>3 DEF Seen, SeenAll, Checked
    <3>4. CASE step' = [step EXCEPT ![c] = "casesAgain"] /\ exported' = exported
               /\ states[Len(states)].depends = observed[c].case
      BY <1>6, <3>1, <3>4 DEF Seen, SeenAll, Checked
    <3> QED
      BY <3>2, <3>3, <3>4
  <2>5. CASE E!ReadAgain(c)
    <3>1. step[c] \in {"casesAgain", "framesAgain"} /\ UNCHANGED <<states, settled, final, observed, operation,
            terminal>>
      BY <2>5 DEF E!ReadAgain, E!store, E!paths, E!locals
    <3>2. \/ /\ step' = [step EXCEPT ![c] = IF step[c] = "casesAgain" THEN "framesAgain" ELSE "mkdir"]
             /\ exported' = exported /\ Len(states) = observed[c].fence
          \/ step' = [step EXCEPT ![c] = "done"] /\ exported' = [exported EXCEPT ![c] = "blocked"]
      BY <2>5 DEF E!ReadAgain, E!Check, E!Go, E!End, E!AtFence, E!Fence
    <3>3. CASE step' = [step EXCEPT ![c] = "done"] /\ exported' = [exported EXCEPT ![c] = "blocked"]
      BY <1>6, <3>1, <3>3 DEF Seen, SeenAll, Checked
    <3>4. CASE exported' = exported /\ step[c] = "casesAgain" /\ step' = [step EXCEPT ![c] = "framesAgain"]
               /\ Len(states) = observed[c].fence
      BY <1>6, <3>1, <3>4 DEF Seen, SeenAll, Checked
    <3>5. CASE exported' = exported /\ step[c] = "framesAgain" /\ step' = [step EXCEPT ![c] = "mkdir"]
      BY <1>6, <3>1, <3>5 DEF Seen, SeenAll, Checked
    <3> QED
      BY <3>1, <3>2, <3>3, <3>4, <3>5
  <2>6. CASE E!ReadCases(c)
    <3> DEFINE m == [fence |-> Len(states), case |-> states[Len(states)].case, frame |-> 0]
    <3>1. /\ step[c] = "cases" /\ UNCHANGED <<states, settled, final, operation, terminal>>
          /\ observed' = [observed EXCEPT ![c] = m]
      BY <2>6 DEF E!ReadCases, E!store, E!paths, E!Now, E!Fence
    <3>2. \/ /\ step' = [step EXCEPT ![c] = "frames"] /\ exported' = exported /\ states[Len(states)].policy
          \/ step' = [step EXCEPT ![c] = "done"] /\ exported' = [exported EXCEPT ![c] = "blocked"]
      BY <2>6 DEF E!ReadCases, E!Check, E!Go, E!End, E!Now, E!Fence
    <3>3. m \in E!Manifests
      BY <2>2 DEF E!Manifests, State
    <3>4. observed'[c] = m /\ m.fence = Len(states) /\ m.case = states[Len(states)].case
      BY <2>1, <3>1
    <3>5. PreflightOK(c)'
      <4> HIDE DEF m
      <4> QED
        BY <2>1, <2>2, <3>1, <3>2, <3>4 DEF PreflightOK, Seen, SeenAll, Checked
    <3> HIDE DEF m
    <3> QED
      BY <1>5, <2>1, <3>1, <3>2, <3>3, <3>5
  <2>7. CASE E!ReadFrames(c)
    <3> DEFINE m == [observed[c] EXCEPT !.frame = states[Len(states)].frame]
    <3>1. /\ step[c] = "frames" /\ UNCHANGED <<states, settled, final, operation, terminal>>
          /\ observed' = [observed EXCEPT ![c] = m]
      BY <2>7 DEF E!ReadFrames, E!store, E!paths, E!Now, E!Fence
    <3>2. \/ /\ step' = [step EXCEPT ![c] = "caseFragment"] /\ exported' = exported
               /\ Len(states) = observed[c].fence
          \/ step' = [step EXCEPT ![c] = "done"] /\ exported' = [exported EXCEPT ![c] = "blocked"]
      BY <2>7 DEF E!ReadFrames, E!Check, E!Go, E!End, E!AtFence, E!Fence
    <3>3. m \in E!Manifests /\ m.fence = observed[c].fence /\ m.case = observed[c].case
          /\ m.frame = states[Len(states)].frame
      BY <2>2 DEF E!Manifests, State
    <3>4. observed'[c] = m
      BY <2>1, <3>1
    <3>5. PreflightOK(c)'
      <4> HIDE DEF m
      <4> QED
        BY <2>1, <2>2, <3>1, <3>2, <3>3, <3>4 DEF PreflightOK, Seen, SeenAll, Checked
    <3> HIDE DEF m
    <3> QED
      BY <1>5, <2>1, <3>1, <3>2, <3>3, <3>5
  <2>8. CASE E!MakeTemporary(c) \/ E!WriteBundle(c) \/ E!VerifyTemporary(c)
    BY <1>6, <2>8 DEF E!MakeTemporary, E!WriteBundle, E!Write, E!VerifyTemporary, E!Go, E!End, E!store, E!paths,
       E!locals, Seen, SeenAll, Checked
  <2> QED
    BY <1>7, <2>3, <2>4, <2>5, <2>6, <2>7, <2>8 DEF E!Preflight
\* A finalization that goes on, with a bundle that it trusts only if it is the final one
<1>8. ASSUME NEW c \in Finalizations, NEW label, NEW what, NEW t,
             UNCHANGED <<states, settled, observed, operation>>, final # Absent => final' = final,
             step[c] # "start", label # "start", step' = [step EXCEPT ![c] = label],
             exported' = exported \/ exported' = [exported EXCEPT ![c] = what],
             terminal' = terminal \/ terminal' = [terminal EXCEPT ![c] = t],
             terminal' = terminal \/ (t = "finalized" => Exact(operation[c], observed[c]))
      PROVE  ExportInv'
  <2>1. c \in E!Attempted /\ c \notin Preflights /\ observed[c] \in E!Manifests
    BY <1>1
  <2>2. FinalizationOK(c) /\ operation[c] \in ExportIds
    BY <1>8 DEF FinalizationOK
  <2>3. terminal'[c] = "finalized" => Exact(operation[c], observed[c])
    BY <1>8, <2>2 DEF FinalizationOK
  <2>4. terminal'[c] = "finalized" => final' = final
    BY <1>8, <2>1, <2>2, <2>3, ExactIsThere
  <2>5. FinalizationOK(c)'
    BY <1>8, <2>1, <2>2, <2>3, <2>4 DEF FinalizationOK, Exact
  <2> QED
    BY <1>5, <1>8, <2>1, <2>5
<1>9. ASSUME NEW c \in Finalizations, NEW o \in ExportIds, NEW p \in Preflights, E!Finalize(c, o, p)
      PROVE  ExportInv'
  <2>1. c \in E!Attempted /\ c \notin Preflights /\ observed[p] \in E!Manifests
    BY <1>1
  <2>2. /\ step[c] = "start" /\ UNCHANGED <<states, settled, final, terminal>>
        /\ operation' = [operation EXCEPT ![c] = o] /\ observed' = [observed EXCEPT ![c] = observed[p]]
    BY <1>9 DEF E!Finalize, E!store, E!paths
  <2>3. \E label, what : /\ label # "start" /\ step' = [step EXCEPT ![c] = label]
                         /\ exported' = exported \/ exported' = [exported EXCEPT ![c] = what]
    BY <1>9 DEF E!Finalize, E!Go, E!End
  <2>4. FinalizationOK(c)'
    BY <2>1, <2>2, <2>3 DEF FinalizationOK
  <2> QED
    BY <1>5, <2>1, <2>2, <2>3, <2>4
<1>10. ASSUME NEW c \in Finalizations, E!Finalization(c), \A o \in ExportIds,
              p \in Preflights : ~E!Finalize(c, o, p),
              ~E!SettleReceipt(c)
       PROVE  ExportInv'
  <2> DEFINE Moves(label, what, t) ==
        /\ UNCHANGED <<states, settled, observed, operation>> /\ (final # Absent => final' = final)
        /\ step[c] # "start" /\ label # "start" /\ step' = [step EXCEPT ![c] = label]
        /\ exported' = exported \/ exported' = [exported EXCEPT ![c] = what]
        /\ terminal' = terminal \/ terminal' = [terminal EXCEPT ![c] = t]
        /\ terminal' = terminal \/ (t = "finalized" => Exact(operation[c], observed[c]))
  <2>1. SUFFICES \E label, what, t : Moves(label, what, t)
    BY <1>8
  <2>2. CASE E!FindFinal(c) \/ E!FindTemporary(c)
    BY <2>2 DEF E!FindFinal, E!FindTemporary, E!Block, E!Go, E!store, E!paths, E!locals
  <2>3. CASE E!RecoverFinal(c) \/ E!StaleTemporary(c)
    BY <2>3 DEF E!RecoverFinal, E!StaleTemporary, E!Check, E!Go, E!End, E!store, E!paths, E!locals
  <2>4. CASE E!VerifyBundle(c) \/ E!ReadPolicy(c)
    BY <2>4 DEF E!VerifyBundle, E!ReadPolicy, E!Block, E!Go, E!store, E!paths, E!locals
  <2>5. CASE E!OneDevice(c) \/ E!CheckMarker(c)
    BY <2>5 DEF E!OneDevice, E!CheckMarker, E!Block, E!Go, E!store, E!paths, E!locals
  <2>6. CASE E!WriteMarker(c) \/ E!Rename(c) \/ E!Raced(c)
    BY <2>6 DEF E!WriteMarker, E!Rename, E!Raced, E!Go, E!End, E!store, E!paths, E!locals
  <2>7. CASE E!NotRaced(c)
    BY <2>7 DEF E!NotRaced, E!Block, E!Go, E!End, E!store, E!paths, E!locals
  <2>8. CASE E!Confirm(c)
    BY <2>8 DEF E!Confirm, E!Verified, E!Marker, Exact, E!Go, E!End, E!store, E!paths, E!locals
  <2>9. CASE E!ReadReceipt(c)
    BY <2>9 DEF E!ReadReceipt, E!Go, E!End, E!store, E!paths, E!locals
  <2> QED
    BY <1>10, <2>2, <2>3, <2>4, <2>5, <2>6, <2>7, <2>8, <2>9 DEF E!Finalization
<1>11. ASSUME NEW c \in Finalizations, E!SettleReceipt(c) PROVE ExportInv'
  <2> DEFINE o == operation[c]
  <2>1. /\ step[c] = "commit" /\ UNCHANGED <<final, observed, operation, terminal>>
        /\ c \in E!Attempted /\ c \notin Preflights /\ observed[c] \in E!Manifests
    BY <1>1, <1>11 DEF E!SettleReceipt, E!paths, E!locals
  <2>2. FinalizationOK(c) /\ o \in ExportIds
    BY <2>1 DEF FinalizationOK
  <2>3. CASE ~(settled[o] = Absent /\ Len(states) = fenceRead[c])
    <3>1. step' = [step EXCEPT ![c] = "settle"] /\ exported' = exported /\ UNCHANGED <<states, settled>>
      BY <1>11, <2>3 DEF E!SettleReceipt, E!Go, E!store, E!Fence
    <3> QED
      BY <1>8, <2>1, <3>1
  <2>4. CASE settled[o] = Absent /\ Len(states) = fenceRead[c]
    <3>1. /\ settled' = [settled EXCEPT ![o] = [expected |-> observed[c], outcome |-> terminal[c]]]
          /\ states' = Append(states, states[Len(states)])
          /\ step' = [step EXCEPT ![c] = "done"] /\ exported' = [exported EXCEPT ![c] = terminal[c]]
      BY <1>11, <2>4 DEF E!SettleReceipt, E!End, E!Now, E!Fence
    <3>2. states[Len(states)] \in State
      OBVIOUS
    <3>3. /\ states' \in Seq(State) /\ Len(states') = Len(states) + 1
          /\ \A i \in 1 .. Len(states) : states'[i] = states[i]
      BY <3>1, <3>2, Appends
    <3>4. Len(states') \in Nat /\ Len(states') >= Len(states) /\ Len(states') # 0
      BY <3>3
    <3>5. ASSUME NEW b \in Preflights PROVE PreflightOK(b)'
      BY <1>1, <1>3, <2>1, <3>1, <3>3, <3>4
    <3>6. FinalizationOK(c)'
      BY <2>1, <2>2, <3>1 DEF FinalizationOK, Exact
    <3>7. ASSUME NEW b \in Finalizations PROVE FinalizationOK(b)'
      BY <1>4, <1>1, <2>1, <3>1, <3>6
    <3>8. ReceiptsOK'
      <4> SUFFICES ASSUME NEW q \in ExportIds, settled'[q] # Absent
                   PROVE  settled'[q].expected \in E!Manifests
                          /\ (settled'[q].outcome = "finalized" => Exact(q, settled'[q].expected))
        BY <2>1 DEF ReceiptsOK, Exact
      <4>1. CASE q = o
        BY <2>1, <2>2, <3>1, <4>1 DEF FinalizationOK, Exact
      <4>2. CASE q # o
        BY <2>1, <3>1, <4>2 DEF ReceiptsOK, Exact
      <4> QED
        BY <4>1, <4>2
    <3> QED
      BY <2>1, <3>1, <3>3, <3>4, <3>5, <3>7, <3>8
  <2> QED
    BY <2>3, <2>4
<1>12. CASE E!Move
  <2>1. UNCHANGED <<settled, final, step, exported, observed, operation, terminal>>
    BY <1>12 DEF E!Move, E!paths, E!locals
  <2>2. PICK s \in State : states' = Append(states, s)
    <3>1. states[Len(states)] \in State
      OBVIOUS
    <3> DEFINE now == states[Len(states)]
    <3>2. /\ [now EXCEPT !.case = @ + 1] \in State
          /\ [now EXCEPT !.frame = @ + 1, !.depends = now.case] \in State
          /\ [now EXCEPT !.policy = FALSE] \in State
      <4>1. now \in State
        BY <3>1
      <4> HIDE DEF now
      <4>2. [now EXCEPT !.case = @ + 1] \in State
        BY <4>1, SMTT(30) DEF State
      <4>3. [now EXCEPT !.frame = @ + 1, !.depends = now.case] \in State
        <5>1. \A k \in State : k.frame + 1 \in Nat /\ k.case \in Nat
          BY DEF State
        <5>2. ASSUME NEW k \in State, NEW n \in Nat, NEW m \in Nat
              PROVE  [k EXCEPT !.frame = n, !.depends = m] \in State
          BY DEF State
        <5> QED
          BY <4>1, <5>1, <5>2
      <4>4. [now EXCEPT !.policy = FALSE] \in State
        BY <4>1 DEF State
      <4> QED
        BY <4>2, <4>3, <4>4
    <3> QED
      BY <1>12, <3>2 DEF E!Move, E!Now, E!Fence
  <2>3. /\ states' \in Seq(State) /\ Len(states') = Len(states) + 1
        /\ \A i \in 1 .. Len(states) : states'[i] = states[i]
    BY <2>2, Appends
  <2>4. Len(states') \in Nat /\ Len(states') >= Len(states) /\ Len(states') # 0
    BY <2>3
  <2>5. ASSUME NEW b \in Preflights PROVE PreflightOK(b)'
    BY <1>3, <2>1, <2>3, <2>4
  <2>6. ReceiptsOK' /\ \A b \in Finalizations : FinalizationOK(b)'
    BY <1>4, <2>1
  <2> QED
    BY <2>1, <2>3, <2>4, <2>5, <2>6
<1>13. ASSUME NEW c \in E!Attempted, E!RemoveFiles(c) \/ E!RemoveDirectory(c) \/ E!Kill(c) PROVE ExportInv'
  <2>1. /\ UNCHANGED <<states, settled, final, observed, operation, terminal>>
        /\ step[c] # "start" /\ step[c] # "done"
    BY <1>13 DEF E!RemoveFiles, E!RemoveDirectory, E!Kill, E!store, E!paths, E!locals
  <2>2. CASE c \in Preflights
    <3>1. \/ step' = [step EXCEPT ![c] = "rmDirectory"] /\ exported' = exported
          \/ \E what \in {"failed", "killed"} :
               step' = [step EXCEPT ![c] = "done"] /\ exported' = [exported EXCEPT ![c] = what]
      BY <1>13, <2>2 DEF E!RemoveFiles, E!RemoveDirectory, E!Kill, E!Go, E!End
    <3>2. CASE step' = [step EXCEPT ![c] = "rmDirectory"] /\ exported' = exported
      <4>1. "rmDirectory" \notin Seen /\ "rmDirectory" \notin SeenAll /\ "rmDirectory" \notin Checked
        BY DEF Seen, SeenAll, Checked
      <4>2. "none" # "ready" /\ "rmDirectory" # "casesAgain"
        OBVIOUS
      <4> QED
        BY <1>6, <2>1, <2>2, <3>2, <4>1, <4>2
    <3>3. ASSUME NEW what \in {"failed", "killed"}, step' = [step EXCEPT ![c] = "done"],
                 exported' = [exported EXCEPT ![c] = what]
          PROVE  ExportInv'
      BY <1>6, <2>1, <2>2, <3>3 DEF Seen, SeenAll, Checked
    <3> QED
      BY <3>1, <3>2, <3>3
  <2>3. CASE c \in Finalizations
    <3>1. c \notin Preflights
      BY <1>1, <2>3
    <3>2. \E label, what : /\ label # "start" /\ step' = [step EXCEPT ![c] = label]
                           /\ exported' = exported \/ exported' = [exported EXCEPT ![c] = what]
      BY <1>13, <3>1 DEF E!RemoveFiles, E!RemoveDirectory, E!Kill, E!Go, E!End
    <3> QED
      BY <1>8, <2>1, <2>3, <3>2
  <2> QED
    BY <1>1, <2>2, <2>3
<1> QED
  BY <1>2, <1>7, <1>9, <1>10, <1>11, <1>12, <1>13 DEF E!Next, E!Finalization

\* A manifest that a preflight made ready is of one state of the store, and what a receipt
\* says was finalized is there, exactly.
THEOREM ExportIsExact == E!Spec => [](E!ReadyIsOneState /\ E!FinalizedIsExact)
<1> USE PartsAssumption
<1>1. E!Init => ExportInv
  <2> SUFFICES ASSUME E!Init PROVE ExportInv
    OBVIOUS
  <2>1. states = <<[case |-> 1, frame |-> 1, depends |-> 1, policy |-> TRUE]>>
    BY DEF E!Init
  <2>2. states \in Seq(State) /\ Len(states) # 0
    BY <2>1 DEF State
  <2>3. E!NoManifest \in E!Manifests
    BY DEF E!NoManifest, E!Manifests
  <2> QED
    BY <2>2, <2>3 DEF E!Init, ExportInv, ExportTypes, ReceiptsOK, PreflightOK, FinalizationOK, E!Attempted,
       Seen, SeenAll, Checked
<1>2. ExportInv /\ [E!Next]_E!evars => ExportInv'
  BY ExportStep
<1>3. ExportInv => E!ReadyIsOneState /\ E!FinalizedIsExact
  BY DEF ExportInv, PreflightOK, ReceiptsOK, Exact, E!ReadyIsOneState, E!FinalizedIsExact
<1> QED
  BY <1>1, <1>2, <1>3, PTL DEF E!Spec

-------------------------------------------------------------------------------
\* The cutover

\* What an attempt has read is of the source as it was, in the order in which it was read.
ReadInOrder(a) ==
  LET r == admitted[a] IN
  /\ r.snapshot \in Nat /\ r.fence \in Nat
  /\ phase[a] # "start" => r.snapshot <= predecessor
  /\ phase[a] \notin {"start", "fence", "done"} => r.snapshot <= r.fence /\ r.fence <= predecessor
  /\ phase[a] = "publish" => r.fence = r.snapshot

\* The retained copy is written by one attempt, whole or not, and then by none.
RetainedOnce(a) ==
  /\ phase[a] = "copying" => retained = Partial /\ \A b \in Attempts \ {a} : phase[b] # "copying"
  /\ phase[a] \in {"unchanged", "publish"} => retained = admitted[a].snapshot

CutoverInv ==
  /\ predecessor \in Nat /\ retained \in Nat \cup {Partial, Absent}
  /\ DOMAIN phase = Attempts /\ DOMAIN admitted = Attempts
  /\ \A a \in Attempts : DOMAIN admitted[a] = {"operation", "snapshot", "fence"} /\ ReadInOrder(a)
       /\ RetainedOnce(a)
  /\ C!CutoverIsOneState /\ (destination # Absent => destination.snapshot \in Nat)

\* An attempt that moves on with what it has read leaves the source and the files alone.
LEMMA CutoverMoves ==
  ASSUME NEW a \in Attempts, NEW label, DOMAIN phase = Attempts
  PROVE  /\ C!Go(a, label) => phase' = [phase EXCEPT ![a] = label]
         /\ \A what : C!Tell(a, what) => phase' = [phase EXCEPT ![a] = "done"]
         /\ \A code : C!Fail(a, code) => phase' = [phase EXCEPT ![a] = "done"]
  BY DEF C!Go, C!Tell, C!Fail

\* Every step of the cutover keeps its invariant.
LEMMA CutoverStep ==
  ASSUME C!CutoverConstants, CutoverInv, [C!Next]_C!cvars
  PROVE  CutoverInv'
<1> USE DEF CutoverInv
<1>1. Partial \notin Nat /\ Absent \notin Nat /\ Partial # Absent
  BY DEF C!CutoverConstants
<1>2. CASE UNCHANGED C!cvars
  BY <1>2 DEF C!cvars, ReadInOrder, RetainedOnce, C!CutoverIsOneState
<1>3. CASE C!WriteSource
  BY <1>3 DEF C!WriteSource, ReadInOrder, RetainedOnce, C!CutoverIsOneState
\* an attempt that only moves
<1>4. ASSUME NEW a \in Attempts, UNCHANGED <<predecessor, retained, destination, admitted>>,
             NEW label \in {"destination", "retained", "copy", "bind", "unchanged", "publish", "done"},
             phase' = [phase EXCEPT ![a] = label],
             phase[a] # "start", label = "done" \/ phase[a] \notin {"fence", "done"},
             label \in {"unchanged", "publish"} => retained = admitted[a].snapshot,
             label = "publish" => admitted[a].fence = admitted[a].snapshot
      PROVE  CutoverInv'
  <2>1. \A b \in Attempts : phase'[b] = IF b = a THEN label ELSE phase[b]
    BY <1>4
  <2>2. ASSUME NEW b \in Attempts PROVE ReadInOrder(b)' /\ RetainedOnce(b)'
    BY <1>4, <2>1 DEF ReadInOrder, RetainedOnce
  <2> QED
    BY <1>4, <2>2 DEF C!CutoverIsOneState
<1>5. ASSUME NEW a \in Attempts, NEW o \in CutoverIds, C!ReadSource(a, o) PROVE CutoverInv'
  <2>1. /\ phase' = [phase EXCEPT ![a] = "fence"] /\ UNCHANGED <<predecessor, retained, destination>>
        /\ admitted' = [admitted EXCEPT ![a] = [operation |-> o, snapshot |-> predecessor, fence |-> 0]]
    BY <1>5 DEF C!ReadSource, C!Go
  <2>2. ASSUME NEW b \in Attempts
        PROVE  ReadInOrder(b)' /\ RetainedOnce(b)' /\ DOMAIN admitted'[b] = {"operation", "snapshot", "fence"}
    BY <2>1 DEF ReadInOrder, RetainedOnce
  <2> QED
    BY <2>1, <2>2 DEF C!CutoverIsOneState
<1>6. ASSUME NEW a \in Attempts, C!ReadFence(a) PROVE CutoverInv'
  <2>1. /\ phase[a] = "fence" /\ phase' = [phase EXCEPT ![a] = "destination"]
        /\ UNCHANGED <<predecessor, retained, destination>>
        /\ admitted' = [admitted EXCEPT ![a].fence = predecessor]
    BY <1>6 DEF C!ReadFence, C!Go
  <2>2. ASSUME NEW b \in Attempts
        PROVE  ReadInOrder(b)' /\ RetainedOnce(b)' /\ DOMAIN admitted'[b] = {"operation", "snapshot", "fence"}
    BY <2>1 DEF ReadInOrder, RetainedOnce
  <2> QED
    BY <2>1, <2>2 DEF C!CutoverIsOneState
<1>7. ASSUME NEW a \in Attempts, C!FindDestination(a) \/ C!FindRetained(a) PROVE CutoverInv'
  BY <1>4, <1>7 DEF C!FindDestination, C!FindRetained, C!Go, C!Tell
<1>8. ASSUME NEW a \in Attempts, C!CopySource(a) PROVE CutoverInv'
  <2>1. CASE phase[a] = "copy" /\ retained # Absent
    BY <1>4, <1>8, <2>1, CutoverMoves DEF C!CopySource
  <2>2. CASE phase[a] = "copy" /\ retained = Absent
    <3>1. /\ retained' = Partial /\ phase' = [phase EXCEPT ![a] = "copying"]
          /\ UNCHANGED <<predecessor, destination, admitted>>
      BY <1>8, <2>2 DEF C!CopySource, C!Go
    <3>2. destination = Absent /\ \A b \in Attempts : phase[b] \notin {"copying", "unchanged", "publish"}
      BY <1>1, <2>2 DEF RetainedOnce, ReadInOrder, C!CutoverIsOneState
    <3>3. ASSUME NEW b \in Attempts PROVE ReadInOrder(b)' /\ RetainedOnce(b)'
      BY <2>2, <3>1, <3>2 DEF ReadInOrder, RetainedOnce
    <3> QED
      BY <3>1, <3>2, <3>3 DEF C!CutoverIsOneState
  <2>3. CASE phase[a] = "copying"
    <3>1. /\ retained' = predecessor /\ phase' = [phase EXCEPT ![a] = "bind"]
          /\ UNCHANGED <<predecessor, destination, admitted>>
      BY <1>8, <2>3 DEF C!CopySource, C!Go
    <3>2. retained = Partial /\ \A b \in Attempts \ {a} : phase[b] \notin {"copying", "unchanged", "publish"}
      BY <1>1, <2>3 DEF RetainedOnce, ReadInOrder
    <3>3. ASSUME NEW b \in Attempts PROVE ReadInOrder(b)' /\ RetainedOnce(b)'
      BY <2>3, <3>1, <3>2 DEF ReadInOrder, RetainedOnce
    <3>4. destination = Absent
      BY <1>1, <3>2 DEF C!CutoverIsOneState
    <3> QED
      BY <3>1, <3>3, <3>4 DEF C!CutoverIsOneState
  <2> QED
    BY <1>8, <2>1, <2>2, <2>3 DEF C!CopySource
<1>9. ASSUME NEW a \in Attempts, C!BindRetained(a) PROVE CutoverInv'
  BY <1>4, <1>9, CutoverMoves DEF C!BindRetained, C!IsSnapshot, C!Go
<1>10. ASSUME NEW a \in Attempts, C!SourceUnchanged(a) PROVE CutoverInv'
  <2>1. phase[a] = "unchanged" /\ UNCHANGED <<predecessor, retained, destination, admitted>>
    BY <1>10 DEF C!SourceUnchanged
  <2>2. CASE predecessor = admitted[a].snapshot
    <3>1. admitted[a].fence = admitted[a].snapshot /\ retained = admitted[a].snapshot
      BY <2>1, <2>2 DEF ReadInOrder, RetainedOnce
    <3>2. phase' = [phase EXCEPT ![a] = "publish"]
      BY <1>10, <2>2 DEF C!SourceUnchanged, C!Go
    <3> QED
      BY <1>4, <2>1, <3>1, <3>2
  <2>3. CASE predecessor # admitted[a].snapshot
    BY <1>4, <1>10, <2>1, <2>3, CutoverMoves DEF C!SourceUnchanged
  <2> QED
    BY <2>2, <2>3
<1>11. ASSUME NEW a \in Attempts, C!Publish(a) PROVE CutoverInv'
  <2>1. phase[a] = "publish" /\ UNCHANGED <<predecessor, retained, admitted>>
    BY <1>11 DEF C!Publish
  <2>2. phase' = [phase EXCEPT ![a] = "done"]
    BY <1>11, CutoverMoves DEF C!Publish, C!Tell
  <2>3. ASSUME NEW b \in Attempts PROVE ReadInOrder(b)' /\ RetainedOnce(b)'
    BY <2>1, <2>2 DEF ReadInOrder, RetainedOnce
  <2>4. C!CutoverIsOneState' /\ (destination' # Absent => destination'.snapshot \in Nat)
    <3>1. CASE destination = Absent
      <4>1. destination' = [operation |-> admitted[a].operation, snapshot |-> admitted[a].snapshot,
                            content |-> retained, fence |-> admitted[a].fence + 1]
        BY <1>11, <3>1 DEF C!Publish
      <4>2. retained = admitted[a].snapshot /\ admitted[a].fence = admitted[a].snapshot
        BY <2>1 DEF ReadInOrder, RetainedOnce
      <4> QED
        BY <2>1, <4>1, <4>2 DEF C!CutoverIsOneState, ReadInOrder
    <3>2. CASE destination # Absent
      BY <1>11, <2>1, <3>2 DEF C!Publish, C!CutoverIsOneState
    <3> QED
      BY <3>1, <3>2
  <2> QED
    BY <2>1, <2>2, <2>3, <2>4
<1>12. ASSUME NEW a \in Attempts, C!Kill(a) PROVE CutoverInv'
  BY <1>4, <1>12, CutoverMoves DEF C!Kill
<1> QED
  BY <1>2, <1>3, <1>5, <1>6, <1>7, <1>8, <1>9, <1>10, <1>11, <1>12 DEF C!Next

\* The final store of a cutover is one state of the predecessor (cutover.mjs:315).
THEOREM CutoverIsTrue == C!Spec => []CutoverIsOneState
<1>1. C!Init => CutoverInv
  BY DEF C!Init, C!Nothing, CutoverInv, ReadInOrder, RetainedOnce, C!CutoverIsOneState
<1>2. CutoverInv /\ [C!Next]_C!cvars => CutoverInv'
  BY PartsAssumption, CutoverStep
<1>3. CutoverInv => CutoverIsOneState
  BY DEF CutoverInv, CutoverIsOneState
<1> QED
  BY <1>1, <1>2, <1>3, PTL DEF C!Spec

-------------------------------------------------------------------------------
\* The initialization by grant

\* A grant that is gone was consumed, and the store at the destination is of the operation
\* that reserved it.
FilesOK ==
  /\ DOMAIN consumed = Grants /\ \A o \in Grants : o \notin grant => consumed[o] # Absent
  /\ successor # Absent =>
       reservation # Absent /\ reservation.operation = successor /\ consumed[successor] # Absent

\* How far an attempt has come with its operation
Holder == {"destination", "publish", "publishRecord", "publishReservation"}

AttemptOK(a) ==
  LET o == granted[a] IN
  /\ stage[a] # "start" => o \in Grants
  /\ stage[a] \in {"spent", "lost", "unlink", "record", "reserve"} \cup Holder => consumed[o] # Absent
  /\ stage[a] \in {"record", "reserve"} \cup Holder => o \notin grant
  /\ stage[a] \in Holder => reservation # Absent /\ reservation.operation = o
  /\ stage[a] = "publishReservation" => consumed[o] = "published"
  /\ stage[a] # "done" => initialized[a] # "initialized"
  /\ initialized[a] = "initialized" =>
       /\ o \in Grants /\ reservation # Absent /\ reservation.operation = o
       /\ consumed[o] = "published" /\ o \notin grant

GrantInv ==
  /\ DOMAIN stage = Initializers /\ DOMAIN granted = Initializers /\ DOMAIN initialized = Initializers
  /\ FilesOK /\ \A a \in Initializers : AttemptOK(a)

\* Every step of the initialization by grant keeps its invariant.
LEMMA GrantStep ==
  ASSUME G!GrantConstants, GrantInv, [G!Next]_G!bvars
  PROVE  GrantInv'
<1> USE DEF GrantInv
<1>1. /\ Absent \notin {"consumed", "published"}
      /\ \A o \in Grants, phase1 \in {"reserved", "published"} : Absent # [operation |-> o, phase |-> phase1]
  BY DEF G!GrantConstants
<1>2. CASE UNCHANGED G!bvars
  BY <1>2 DEF G!bvars, G!files, FilesOK, AttemptOK
\* The files only go on: a grant goes, a record stays, and so does a reservation.
<1>3. ASSUME grant' \subseteq grant,
             DOMAIN consumed' = Grants,
             \A o \in Grants : /\ consumed[o] # Absent => consumed'[o] # Absent
                               /\ consumed[o] = "published" => consumed'[o] = "published",
             reservation # Absent => reservation' # Absent /\ reservation'.operation = reservation.operation,
             NEW b \in Initializers, stage'[b] = stage[b], granted'[b] = granted[b], initialized'[b] = initialized[b]
      PROVE  AttemptOK(b)'
  <2> DEFINE o == granted[b]
  <2>1. AttemptOK(b)
    OBVIOUS
  <2>2. ASSUME NEW w \in Grants
        PROVE  /\ consumed[w] # Absent => consumed'[w] # Absent
               /\ consumed[w] = "published" => consumed'[w] = "published"
    BY <1>3
  <2>3. stage[b] # "start" => o \in Grants
    BY <2>1 DEF AttemptOK
  <2> QED
    BY <1>1, <1>3, <2>1, <2>2, <2>3 DEF AttemptOK, Holder
<1>4. ASSUME NEW a \in Initializers, NEW o \in Grants, G!ReadRecord(a, o) PROVE GrantInv'
  <2>1. stage[a] = "start" /\ granted' = [granted EXCEPT ![a] = o] /\ initialized' = initialized
        /\ stage' = [stage EXCEPT ![a] = IF consumed[o] = Absent THEN "grant" ELSE "spent"]
        /\ UNCHANGED <<grant, consumed, reservation, successor>>
    BY <1>4 DEF G!ReadRecord, G!Go, G!files
  <2>2. AttemptOK(a)'
    BY <2>1 DEF AttemptOK, Holder
  <2>3. ASSUME NEW b \in Initializers, b # a PROVE AttemptOK(b)'
    BY <1>3, <2>1, <2>3 DEF FilesOK
  <2> QED
    BY <2>1, <2>2, <2>3 DEF FilesOK
\* An attempt that goes on without a change of the files
<1>5. ASSUME NEW a \in Initializers, UNCHANGED <<grant, consumed, reservation, successor, granted>>,
             stage[a] # "start", stage[a] # "done",
             NEW label, NEW what, what # "initialized",
             \/ stage' = [stage EXCEPT ![a] = label] /\ initialized' = initialized
                  /\ label \notin {"start", "done"}
             \/ /\ stage' = [stage EXCEPT ![a] = label] /\ label = "done"
                /\ initialized' = [initialized EXCEPT ![a] = what],
             label \in {"spent", "lost", "unlink", "record", "reserve"} \cup Holder =>
               consumed[granted[a]] # Absent,
             label \in {"record", "reserve"} \cup Holder => granted[a] \notin grant,
             label \in Holder => reservation # Absent /\ reservation.operation = granted[a],
             label # "publishReservation"
      PROVE  GrantInv'
  <2>1. \A b \in Initializers \ {a} : stage'[b] = stage[b] /\ initialized'[b] = initialized[b]
    BY <1>5
  <2>2. stage'[a] = label /\ (label = "done" => initialized'[a] = what)
          /\ (label # "done" => initialized' = initialized)
    BY <1>5
  <2>3. AttemptOK(a)'
    BY <1>5, <2>2 DEF AttemptOK
  <2>4. ASSUME NEW b \in Initializers, b # a PROVE AttemptOK(b)'
    BY <1>3, <1>5, <2>1, <2>4 DEF FilesOK
  <2> QED
    BY <1>5, <2>3, <2>4 DEF FilesOK
<1>6. ASSUME NEW a \in Initializers, \/ G!NoSecondGrant(a) \/ G!ReadGrant(a) \/ G!DestinationAbsent(a) \/ G!LoseGrant(a)
                                 \/ G!RereadRecord(a) \/ G!FindDestination(a) \/ G!Kill(a)
      PROVE  GrantInv'
  <2>1. UNCHANGED <<grant, consumed, reservation, successor, granted>> /\ stage[a] # "start" /\ stage[a] # "done"
    BY <1>6 DEF G!NoSecondGrant, G!ReadGrant, G!DestinationAbsent, G!LoseGrant, G!RereadRecord, G!FindDestination,
       G!Kill, G!files
  <2>2. AttemptOK(a) /\ FilesOK
    OBVIOUS
  <2> DEFINE Moves(label, what) ==
          /\ what # "initialized"
          /\ \/ stage' = [stage EXCEPT ![a] = label] /\ initialized' = initialized
               /\ label \notin {"start", "done"}
             \/ /\ stage' = [stage EXCEPT ![a] = label] /\ label = "done"
                /\ initialized' = [initialized EXCEPT ![a] = what]
          /\ label \in {"spent", "lost", "unlink", "record", "reserve"} \cup Holder =>
               consumed[granted[a]] # Absent
          /\ label \in {"record", "reserve"} \cup Holder => granted[a] \notin grant
          /\ label \in Holder => reservation # Absent /\ reservation.operation = granted[a]
          /\ label # "publishReservation"
  <2>3. \E label, what : Moves(label, what)
    <3>1. CASE G!NoSecondGrant(a)
      BY <2>2, <3>1 DEF G!NoSecondGrant, G!Granted, G!Own, G!Go, G!Tell, AttemptOK, Holder
    <3>2. CASE G!ReadGrant(a) \/ G!DestinationAbsent(a)
      BY <3>2 DEF G!ReadGrant, G!DestinationAbsent, G!Go, G!Tell, Holder
    <3>3. CASE G!LoseGrant(a)
      BY <2>2, <3>3 DEF G!LoseGrant, G!Granted, G!Own, G!Go, G!Tell, AttemptOK, Holder
    <3>4. CASE G!RereadRecord(a)
      <4>1. Moves("reserve", "none")
        BY <2>2, <3>4 DEF G!RereadRecord, G!Go, AttemptOK, Holder
      <4> QED
        BY <4>1
    <3>5. CASE G!FindDestination(a)
      BY <2>2, <3>5 DEF G!FindDestination, G!Go, G!Tell, AttemptOK, Holder
    <3>6. CASE G!Kill(a)
      <4>1. Moves("done", "killed")
        BY <3>6 DEF G!Kill, G!Tell, Holder
      <4> QED
        BY <4>1
    <3> QED
      BY <1>6, <3>1, <3>2, <3>3, <3>4, <3>5, <3>6
  <2> QED
    BY <1>5, <2>1, <2>3
<1>7. ASSUME NEW a \in Initializers, G!ConsumeGrant(a) PROVE GrantInv'
  <2> DEFINE o == granted[a]
  <2>1. stage[a] = "link" /\ UNCHANGED <<grant, reservation, successor, granted, initialized>> /\ o \in Grants
    BY <1>7 DEF G!ConsumeGrant, G!Go, AttemptOK
  <2>2. CASE o \in grant /\ consumed[o] = Absent
    <3>1. consumed' = [consumed EXCEPT ![o] = "consumed"] /\ stage' = [stage EXCEPT ![a] = "unlink"]
      BY <1>7, <2>2 DEF G!ConsumeGrant, G!Go, G!Own, G!Granted
    <3>2. FilesOK'
      BY <1>1, <2>1, <2>2, <3>1 DEF FilesOK
    <3>3. AttemptOK(a)'
      BY <1>1, <2>1, <2>2, <3>1 DEF AttemptOK, Holder, FilesOK
    <3>4. ASSUME NEW b \in Initializers, b # a PROVE AttemptOK(b)'
      BY <1>1, <1>3, <2>1, <2>2, <3>1, <3>4 DEF FilesOK
    <3> QED
      BY <2>1, <3>1, <3>2, <3>3, <3>4
  <2>3. CASE ~(o \in grant /\ consumed[o] = Absent)
    <3>1. consumed' = consumed /\ stage' = [stage EXCEPT ![a] = IF o \in grant THEN "lost" ELSE "unlink"]
      BY <1>7, <2>3 DEF G!ConsumeGrant, G!Go, G!Own, G!Granted
    <3>2. consumed[o] # Absent
      BY <2>1, <2>3 DEF FilesOK
    <3>3. CASE o \in grant
      BY <1>5, <2>1, <3>1, <3>2, <3>3, ZenonT(60) DEF Holder
    <3>4. CASE o \notin grant
      <4>1. stage' = [stage EXCEPT ![a] = "unlink"]
        BY <3>1, <3>4
      <4>2. "none" # "initialized" /\ "unlink" \notin {"record", "reserve", "start", "done"} \cup Holder
        BY DEF Holder
      <4> QED
        BY <1>5, <2>1, <3>1, <3>2, <4>1, <4>2
    <3> QED
      BY <3>3, <3>4
  <2> QED
    BY <2>2, <2>3
<1>8. ASSUME NEW a \in Initializers, G!UnlinkGrant(a) PROVE GrantInv'
  <2> DEFINE o == granted[a]
  <2>1. /\ stage[a] = "unlink" /\ UNCHANGED <<consumed, reservation, successor, granted, initialized>>
        /\ grant' = grant \ {o} /\ stage' = [stage EXCEPT ![a] = "record"]
        /\ o \in Grants /\ consumed[o] # Absent
    BY <1>8 DEF G!UnlinkGrant, G!Go, G!Own, AttemptOK
  <2>2. AttemptOK(a)'
    BY <2>1 DEF AttemptOK, Holder
  <2>3. ASSUME NEW b \in Initializers, b # a PROVE AttemptOK(b)'
    BY <1>3, <2>1, <2>3 DEF FilesOK
  <2> QED
    BY <2>1, <2>2, <2>3 DEF FilesOK
<1>9. ASSUME NEW a \in Initializers, G!ReserveDestination(a) PROVE GrantInv'
  <2> DEFINE o == granted[a]
  <2>1. /\ stage[a] = "reserve" /\ UNCHANGED <<grant, consumed, successor, granted>>
        /\ o \in Grants /\ consumed[o] # Absent /\ o \notin grant
    BY <1>9 DEF G!ReserveDestination, AttemptOK
  <2>2. CASE reservation = Absent
    <3>1. /\ reservation' = [operation |-> o, phase |-> "reserved"] /\ initialized' = initialized
          /\ stage' = [stage EXCEPT ![a] = "destination"] /\ reservation' # Absent
      BY <1>1, <1>9, <2>1, <2>2 DEF G!ReserveDestination, G!Reserved, G!Go, G!Own
    <3>2. successor = Absent
      BY <2>2 DEF FilesOK
    <3>3. AttemptOK(a)'
      BY <2>1, <3>1 DEF AttemptOK, Holder
    <3>4. ASSUME NEW b \in Initializers, b # a PROVE AttemptOK(b)'
      BY <1>3, <2>1, <2>2, <3>1, <3>4 DEF FilesOK
    <3> QED
      BY <2>1, <3>1, <3>2, <3>3, <3>4 DEF FilesOK
  <2>3. CASE reservation # Absent /\ reservation.operation = o
    BY <1>5, <1>9, <2>1, <2>3 DEF G!ReserveDestination, G!Go, G!Own, Holder
  <2>4. CASE reservation # Absent /\ reservation.operation # o
    BY <1>5, <1>9, <2>1, <2>4 DEF G!ReserveDestination, G!Tell, G!Own, Holder
  <2> QED
    BY <2>2, <2>3, <2>4
<1>10. ASSUME NEW a \in Initializers, G!PublishStore(a) PROVE GrantInv'
  <2> DEFINE o == granted[a]
  <2>1. /\ stage[a] = "publish" /\ UNCHANGED <<grant, consumed, reservation, granted>>
        /\ o \in Grants /\ consumed[o] # Absent /\ o \notin grant
        /\ reservation # Absent /\ reservation.operation = o
    BY <1>10 DEF G!PublishStore, AttemptOK, Holder
  <2>2. CASE successor = Absent
    <3>1. successor' = o /\ stage' = [stage EXCEPT ![a] = "publishRecord"] /\ initialized' = initialized
      BY <1>10, <2>2 DEF G!PublishStore, G!Go, G!Own
    <3>2. AttemptOK(a)'
      BY <2>1, <3>1 DEF AttemptOK, Holder
    <3>3. ASSUME NEW b \in Initializers, b # a PROVE AttemptOK(b)'
      BY <1>3, <2>1, <3>1, <3>3 DEF FilesOK
    <3> QED
      BY <2>1, <3>1, <3>2, <3>3 DEF FilesOK
  <2>3. CASE successor # Absent
    BY <1>5, <1>10, <2>1, <2>3 DEF G!PublishStore, G!Go, G!Tell, G!Own, Holder
  <2> QED
    BY <2>2, <2>3
<1>11. ASSUME NEW a \in Initializers, G!PublishRecord(a) PROVE GrantInv'
  <2> DEFINE o == granted[a]
  <2>1. /\ stage[a] = "publishRecord" /\ UNCHANGED <<grant, reservation, successor, granted, initialized>>
        /\ consumed' = [consumed EXCEPT ![o] = "published"] /\ stage' = [stage EXCEPT ![a] = "publishReservation"]
        /\ o \in Grants /\ o \notin grant /\ reservation # Absent /\ reservation.operation = o
    BY <1>11 DEF G!PublishRecord, G!Go, G!Own, AttemptOK, Holder
  <2>2. FilesOK'
    BY <1>1, <2>1 DEF FilesOK
  <2>3. AttemptOK(a)'
    BY <1>1, <2>1 DEF AttemptOK, Holder, FilesOK
  <2>4. ASSUME NEW b \in Initializers, b # a PROVE AttemptOK(b)'
    BY <1>1, <1>3, <2>1, <2>4 DEF FilesOK
  <2> QED
    BY <2>1, <2>2, <2>3, <2>4
<1>12. ASSUME NEW a \in Initializers, G!PublishReservation(a) PROVE GrantInv'
  <2> DEFINE o == granted[a]
  <2>1. /\ stage[a] = "publishReservation" /\ UNCHANGED <<grant, consumed, successor, granted>>
        /\ reservation' = [operation |-> o, phase |-> "published"]
        /\ stage' = [stage EXCEPT ![a] = "done"] /\ initialized' = [initialized EXCEPT ![a] = "initialized"]
        /\ o \in Grants /\ o \notin grant /\ reservation # Absent /\ reservation.operation = o
        /\ consumed[o] = "published"
    BY <1>12 DEF G!PublishReservation, G!Tell, G!Own, AttemptOK, Holder
  <2>2. reservation' # Absent /\ reservation'.operation = o
    BY <1>1, <2>1
  <2>3. AttemptOK(a)'
    BY <1>1, <2>1, <2>2 DEF AttemptOK, Holder
  <2>4. ASSUME NEW b \in Initializers, b # a PROVE AttemptOK(b)'
    BY <1>3, <2>1, <2>2, <2>4 DEF FilesOK
  <2> QED
    BY <2>1, <2>2, <2>3, <2>4 DEF FilesOK
<1>13. CASE G!Remove
  <2>1. UNCHANGED <<grant, consumed, reservation, stage, granted, initialized>> /\ successor' = Absent
    BY <1>13 DEF G!Remove
  <2>2. \A b \in Initializers : AttemptOK(b)'
    BY <2>1 DEF AttemptOK
  <2> QED
    BY <2>1, <2>2 DEF FilesOK
<1> QED
  BY <1>2, <1>4, <1>6, <1>7, <1>8, <1>9, <1>10, <1>11, <1>12, <1>13 DEF G!Next

\* One operation, whose grant is spent, makes the store at the destination, and only its
\* callers are told so.
THEOREM OneMakerByGrant == G!Spec => []G!OneGrantedMaker
<1> USE PartsAssumption
<1>1. G!Init => GrantInv
  BY DEF G!Init, GrantInv, FilesOK, AttemptOK, Holder
<1>2. GrantInv /\ [G!Next]_G!bvars => GrantInv'
  BY GrantStep
<1>3. GrantInv => G!OneGrantedMaker
  BY DEF GrantInv, FilesOK, AttemptOK, G!OneGrantedMaker, G!Own
<1> QED
  BY <1>1, <1>2, <1>3, PTL DEF G!Spec

-------------------------------------------------------------------------------
\* A snapshot that was settled is the file that is there, and nothing was committed between
\* the state in the file and its receipt (operations/index.mjs:918).
THEOREM SnapshotCorrect == B!Spec => []SnapshotIsTrue
<1>1. B!Spec => [](B!SnapshotIsTrue /\ B!InitializersAgree)
  BY BootstrapIsTrue
<1> QED
  BY <1>1, PTL DEF SnapshotIsTrue

\* An export that is ready is of one state of the store, and one that is finalized is whole
\* and stays (export/index.mjs:488, 784).
THEOREM ExportCorrect == E!Spec => []ExportIsTrue
<1>1. E!Spec => [](E!ReadyIsOneState /\ E!FinalizedIsExact)
  BY ExportIsExact
<1> QED
  BY <1>1, PTL DEF ExportIsTrue

\* Whoever is told that a store was initialized is told of the one that has the name, in the
\* predecessor (substrate/index.mjs:528) and by grant (bootstrap/index.mjs:362).
THEOREM OneMakerCorrect == B!Spec /\ G!Spec => []OneMaker
<1>1. B!Spec => [](B!SnapshotIsTrue /\ B!InitializersAgree)
  BY BootstrapIsTrue
<1>2. G!Spec => []G!OneGrantedMaker
  BY OneMakerByGrant
<1> QED
  BY <1>1, <1>2, PTL DEF OneMaker

-------------------------------------------------------------------------------
\* The lock of a store's file: sessions, of which processes are killed

\* At most one session is between creating the lock and releasing it.
Exclusion ==
  \A p \in Procs : session[p] \in L!Holding =>
    made /\ \A q \in Procs : session[q] \in L!Holding => p = q

\* The copy of a session at work is the file, with its own work once committed.
CopyIsFresh ==
  \A p \in Procs :
    /\ session[p] = "work" => copy[p] = contents
    /\ session[p] = "persist" => \/ said[p] = "committed" /\ copy[p] = contents \cup {p}
                                 \/ said[p] = "failed" /\ copy[p] = contents

\* The file contains the work of sessions that wrote it, and all that was answered.
FileMatchesAnswers ==
  \A p \in Procs :
    /\ p \in contents => session[p] \in {"release", "done"} /\ said[p] \in {"committed", "uncertain"}
    /\ session[p] \in {"release", "done"} /\ said[p] = "committed" => p \in contents

NobodyRecovers == \A p \in Procs : session[p] # "recover"

Undisturbed == Exclusion /\ CopyIsFresh /\ FileMatchesAnswers /\ NobodyRecovers

LockInv == L!TypeOK /\ (killed = {} => Undisturbed)

-------------------------------------------------------------------------------
\* The initial state is of the declared types.
LEMMA LockTypeInit == L!Init => L!TypeOK
  BY DEF L!Init, L!TypeOK, L!Labels, L!Answers

\* Every step, a kill included, keeps the types.
LEMMA LockTypeStep == L!LockConstants /\ L!TypeOK /\ [L!Next]_(L!vars) => L!TypeOK'
<1> SUFFICES ASSUME L!LockConstants, L!TypeOK, [L!Next]_(L!vars) PROVE L!TypeOK'
  OBVIOUS
<1> USE DEF L!LockConstants, L!TypeOK, L!Labels, L!Answers, L!Goto, L!Say, L!RemoveDirectory, L!RemovalFails
<1>1. ASSUME NEW p \in Procs, L!Step(p) PROVE L!TypeOK'
  <2> USE <1>1
  <2>1. CASE L!Acquire(p)
    BY <2>1 DEF L!Step, L!Acquire, L!MakeDirectory
  <2>2. CASE L!WriteOwner(p)
    BY <2>2 DEF L!Step, L!WriteOwner
  <2>3. CASE L!Inspect(p)
    BY <2>3 DEF L!Step, L!Inspect
  <2>4. CASE L!RecoverStale(p)
    BY <2>4 DEF L!Step, L!RecoverStale
  <2>5. CASE L!Wait(p)
    BY <2>5 DEF L!Step, L!Wait, L!GiveUpOrRetry
  <2>6. CASE L!Open(p)
    BY <2>6 DEF L!Step, L!Open
  <2>7. CASE L!Execute(p)
    BY <2>7 DEF L!Step, L!Execute
  <2>8. CASE L!Persist(p)
    BY <2>8 DEF L!Step, L!Persist
  <2>9. CASE L!Release(p)
    BY <2>9 DEF L!Step, L!Release
  <2> QED
    BY <2>1, <2>2, <2>3, <2>4, <2>5, <2>6, <2>7, <2>8, <2>9 DEF L!Step
<1>2. ASSUME NEW p \in Procs, L!Kill(p) PROVE L!TypeOK'
  BY <1>2 DEF L!Kill
<1>3. CASE UNCHANGED L!vars
  BY <1>3 DEF L!vars
<1> QED
  BY <1>1, <1>2, <1>3 DEF L!Next

\* The lock, its owner, the file, the copies and the sessions always hold values
\* of their declared kinds, and there is no owner.json without its directory.
THEOREM LockTypeCorrect == LockSpec => []L!TypeOK
  BY LockAssumption, LockTypeInit, LockTypeStep, PTL DEF LockSpec, L!Spec

-------------------------------------------------------------------------------
\* Nobody holds the lock, and nothing was answered, in the initial state.
LEMMA UndisturbedInit == L!Init => Undisturbed
  BY DEF L!Init, Undisturbed, Exclusion, CopyIsFresh, FileMatchesAnswers, NobodyRecovers, L!Holding

\* Where no process was killed, a step of a session keeps the sessions apart and
\* the file in accord with the answers.
LEMMA UndisturbedStep ==
  ASSUME L!LockConstants, L!TypeOK, Undisturbed, killed = {}, NEW p \in Procs, L!Step(p)
  PROVE  Undisturbed'
<1> USE DEF L!LockConstants, L!TypeOK, Undisturbed, NobodyRecovers, L!Holding, L!Goto, L!Say
<1>1. CASE L!Acquire(p)
  BY <1>1 DEF L!Acquire, L!MakeDirectory, Exclusion, CopyIsFresh, FileMatchesAnswers
<1>2. CASE L!WriteOwner(p)
  BY <1>2 DEF L!WriteOwner, Exclusion, CopyIsFresh, FileMatchesAnswers
<1>3. CASE L!Inspect(p)
  BY <1>3 DEF L!Inspect, L!Stale, Exclusion, CopyIsFresh, FileMatchesAnswers
<1>4. CASE L!RecoverStale(p)
  BY <1>4 DEF L!RecoverStale
<1>5. CASE L!Wait(p)
  BY <1>5 DEF L!Wait, L!GiveUpOrRetry, Exclusion, CopyIsFresh, FileMatchesAnswers
<1>6. CASE L!Open(p)
  <2>1. Exclusion' /\ NobodyRecovers'
    BY <1>6 DEF L!Open, Exclusion
  <2>2. CopyIsFresh' /\ FileMatchesAnswers'
    BY <1>6 DEF L!Open, CopyIsFresh, FileMatchesAnswers
  <2> QED
    BY <2>1, <2>2
<1>7. CASE L!Execute(p)
  <2>1. Exclusion' /\ NobodyRecovers'
    BY <1>7 DEF L!Execute, Exclusion
  <2>2. CopyIsFresh' /\ FileMatchesAnswers'
    BY <1>7 DEF L!Execute, CopyIsFresh, FileMatchesAnswers
  <2> QED
    BY <2>1, <2>2
<1>8. CASE L!Persist(p)
  <2>1. Exclusion' /\ NobodyRecovers'
    BY <1>8 DEF L!Persist, Exclusion
  \* No other session has a copy that the new file would make stale.
  <2>2. CopyIsFresh'
    BY <1>8 DEF L!Persist, Exclusion, CopyIsFresh
  <2>3. FileMatchesAnswers'
    BY <1>8 DEF L!Persist, CopyIsFresh, FileMatchesAnswers
  <2> QED
    BY <2>1, <2>2, <2>3
<1>9. CASE L!Release(p)
  BY <1>9 DEF L!Release, L!RemoveDirectory, L!RemovalFails, Exclusion, CopyIsFresh, FileMatchesAnswers
<1> QED
  BY <1>1, <1>2, <1>3, <1>4, <1>5, <1>6, <1>7, <1>8, <1>9 DEF L!Step

\* The inductive invariant is kept: by a kill because it then promises nothing,
\* by a step after a kill because the killed stay killed.
LEMMA LockInvStep == L!LockConstants /\ LockInv /\ [L!Next]_(L!vars) => LockInv'
<1> SUFFICES ASSUME L!LockConstants, LockInv, [L!Next]_(L!vars), killed' = {} PROVE Undisturbed'
  BY LockTypeStep DEF LockInv
<1>1. ASSUME NEW p \in Procs, L!Step(p) PROVE Undisturbed'
  <2>1. killed = {}
    BY <1>1 DEF L!Step
  <2> QED
    BY <1>1, <2>1, UndisturbedStep DEF LockInv
<1>2. ASSUME NEW p \in Procs, L!Kill(p) PROVE Undisturbed'
  BY <1>2 DEF L!Kill
<1>3. CASE UNCHANGED L!vars
  BY <1>3 DEF LockInv, Undisturbed, Exclusion, CopyIsFresh, FileMatchesAnswers, NobodyRecovers, L!vars
<1> QED
  BY <1>1, <1>2, <1>3 DEF L!Next

\* As long as no process is killed, every session that was told its transaction
\* committed finds its work in the database file for good, and no work of a session
\* that was told of a failure is in it, however many processes compete.
THEOREM UpdatesAreKept == LockSpec => []L!NoLostUpdate
<1>1. L!Init => LockInv
  BY LockTypeInit, UndisturbedInit DEF LockInv
<1>2. LockInv => L!NoLostUpdate
  BY DEF LockInv, L!NoLostUpdate, L!AnswersAreDurable, Undisturbed, FileMatchesAnswers
<1> QED
  BY <1>1, <1>2, LockAssumption, LockInvStep, PTL DEF LockSpec, L!Spec

-------------------------------------------------------------------------------
\* What a loss takes

\* A process was killed while it held the lock or left it, other than these.
KilledHolder(rest) == \E k \in killed \ rest : session[k] \in L!Holding \cup {"done"}

\* The owner of the lock is one that holds it, or could not release it.
OwnerHolds == owner # Nobody => session[owner] \in (L!Holding \cup {"done"}) \ {"own"}

Outside == {p \in Procs : session[p] # "acquire"}

\* A copy that a living session may still write is the file, but for its own work, as far as
\* no holder was killed.
CopiesDiffer ==
  \A p \in Procs, q \in Procs \ killed : p # q /\ session[q] \in {"work", "persist"} =>
    (p \in copy[q] <=> p \in contents) \/ KilledHolder({p})

\* What is in a copy or in the file is there since its session replaced the file, and each
\* session's copy has its own work when it is to commit.
WorkIsWritten ==
  /\ \A p \in Procs : p \in contents => session[p] \in {"release", "done"}
       /\ said[p] \in {"committed", "uncertain"}
  /\ \A q \in Procs : session[q] \in {"work", "persist"} =>
       \A p \in copy[q] \ {q} : session[p] \in {"release", "done"} /\ said[p] \in {"committed", "uncertain"}
  /\ \A q \in Procs : /\ session[q] = "work" => q \notin copy[q]
                      /\ session[q] = "persist" /\ said[q] = "committed" => q \in copy[q]
                      /\ session[q] = "persist" /\ said[q] # "committed" => q \notin copy[q] /\ said[q] = "failed"

\* The work of a session that committed is lost only to another that was not killed before it
\* replaced the file, and with a third that was killed.
LossIsExplained ==
  \A p \in Procs : session[p] \in {"release", "done"} /\ said[p] = "committed" /\ p \notin contents =>
    \E q \in Procs \ {p} : session[q] \in {"release", "done"} /\ KilledHolder({p, q})

LossInv ==
  /\ L!TypeOK /\ IsFiniteSet(Outside)
  /\ KilledHolder({}) \/ (Exclusion /\ NobodyRecovers /\ OwnerHolds)
  /\ WorkIsWritten /\ CopiesDiffer /\ LossIsExplained

\* The session that steps leaves the rest where they are, and is not one that was killed.
LEMMA OthersStay ==
  ASSUME L!LockConstants, L!TypeOK, NEW p \in Procs, L!Step(p)
  PROVE  /\ p \notin killed /\ killed' = killed
         /\ \A q \in Procs : q # p => session'[q] = session[q] /\ said'[q] = said[q] /\ copy'[q] = copy[q]
  BY DEF L!TypeOK, L!Step, L!Acquire, L!MakeDirectory, L!WriteOwner, L!Inspect, L!RecoverStale, L!Wait,
     L!GiveUpOrRetry,
         L!Open, L!Execute, L!Persist, L!Release, L!Goto, L!Say

\* A holder that was killed stays one.
LEMMA KilledHolderStays ==
  ASSUME L!LockConstants, L!TypeOK, [L!Next]_(L!vars), NEW rest, KilledHolder(rest)
  PROVE  KilledHolder(rest)'
<1>1. PICK k \in killed \ rest : session[k] \in L!Holding \cup {"done"}
  BY DEF KilledHolder
<1>2. k \in Procs
  BY <1>1 DEF L!TypeOK
<1>3. k \in killed' /\ session'[k] = session[k]
  <2>1. CASE UNCHANGED L!vars
    BY <1>1, <2>1 DEF L!vars
  <2>2. ASSUME NEW p \in Procs, L!Step(p) PROVE k \in killed' /\ session'[k] = session[k]
    BY <1>1, <1>2, <2>2, OthersStay
  <2>3. ASSUME NEW p \in Procs, L!Kill(p) PROVE k \in killed' /\ session'[k] = session[k]
    BY <1>1, <2>3 DEF L!Kill
  <2> QED
    BY <2>1, <2>2, <2>3 DEF L!Next
<1> QED
  BY <1>1, <1>3 DEF KilledHolder

\* As long as no holder was killed there is one holder, which owns the lock: nothing is
\* stale and nobody recovers it.
LEMMA ExclusionStep ==
  ASSUME L!LockConstants, LossInv, NEW p \in Procs, L!Step(p), ~KilledHolder({})
  PROVE  Exclusion' /\ NobodyRecovers' /\ OwnerHolds'
<1> USE DEF L!LockConstants, LossInv, L!TypeOK, NobodyRecovers, Exclusion, OwnerHolds, L!Holding, L!Goto, L!Say
<1>1. CASE L!Acquire(p)
  BY <1>1 DEF L!Acquire, L!MakeDirectory
<1>2. CASE L!WriteOwner(p)
  BY <1>2 DEF L!WriteOwner
<1>3. CASE L!Inspect(p)
  <2>1. ~L!Stale
    BY DEF L!Stale, KilledHolder
  <2> QED
    BY <1>3, <2>1 DEF L!Inspect
<1>4. CASE L!RecoverStale(p)
  BY <1>4 DEF L!RecoverStale
<1>5. CASE L!Wait(p)
  BY <1>5 DEF L!Wait, L!GiveUpOrRetry
<1>6. CASE L!Open(p)
  BY <1>6 DEF L!Open
<1>7. CASE L!Execute(p)
  BY <1>7 DEF L!Execute
<1>8. CASE L!Persist(p)
  BY <1>8 DEF L!Persist
<1>9. CASE L!Release(p)
  BY <1>9 DEF L!Release, L!RemoveDirectory, L!RemovalFails
<1> QED
  BY <1>1, <1>2, <1>3, <1>4, <1>5, <1>6, <1>7, <1>8, <1>9 DEF L!Step

\* What is in the file or in a copy was put there by its session.
LEMMA WrittenStep ==
  ASSUME L!LockConstants, L!TypeOK, WorkIsWritten, NEW p \in Procs, L!Step(p)
  PROVE  WorkIsWritten'
<1> USE DEF L!TypeOK, WorkIsWritten, L!Goto, L!Say
<1>1. CASE L!Acquire(p)
  BY <1>1 DEF L!Acquire, L!MakeDirectory
<1>2. CASE L!WriteOwner(p)
  BY <1>2 DEF L!WriteOwner
<1>3. CASE L!Inspect(p)
  BY <1>3 DEF L!Inspect
<1>4. CASE L!RecoverStale(p)
  BY <1>4 DEF L!RecoverStale
<1>5. CASE L!Wait(p)
  BY <1>5 DEF L!Wait, L!GiveUpOrRetry
<1>6. CASE L!Open(p)
  BY <1>6 DEF L!Open
<1>7. CASE L!Execute(p)
  BY <1>7 DEF L!Execute
<1>8. CASE L!Persist(p)
  BY <1>8 DEF L!Persist
<1>9. CASE L!Release(p)
  BY <1>9 DEF L!Release, L!RemoveDirectory, L!RemovalFails
<1> QED
  BY <1>1, <1>2, <1>3, <1>4, <1>5, <1>6, <1>7, <1>8, <1>9 DEF L!Step

\* A session that replaces the file has a copy that differs from another's only if a holder
\* was killed; so does one that opens the file, from what it read.
LEMMA CopiesStep ==
  ASSUME L!LockConstants, LossInv, NEW p \in Procs, L!Step(p)
  PROVE  CopiesDiffer'
<1>k. \A x : KilledHolder({x}) => KilledHolder({x})'
  BY KilledHolderStays DEF LossInv, L!Next
<1>o. /\ p \notin killed /\ killed' = killed
      /\ \A q \in Procs : q # p => session'[q] = session[q] /\ said'[q] = said[q] /\ copy'[q] = copy[q]
  BY OthersStay DEF LossInv
<1> SUFFICES ASSUME NEW x \in Procs, NEW q \in Procs \ killed, x # q, session'[q] \in {"work", "persist"},
                    ~KilledHolder({x})
             PROVE  x \in copy'[q] <=> x \in contents'
  BY <1>k, <1>o DEF CopiesDiffer
<1>d. session[q] \in {"work", "persist"} => (x \in copy[q] <=> x \in contents)
  BY DEF LossInv, CopiesDiffer
<1> USE DEF LossInv, L!TypeOK, L!Goto, L!Say
<1>1. CASE L!Persist(p)
  <2>1. p # q
    BY <1>1 DEF L!Persist
  <2>2. session[q] \in {"work", "persist"} /\ copy'[q] = copy[q]
    BY <1>o, <2>1
  <2>3. PICK k \in killed : session[k] \in L!Holding \cup {"done"}
    <3>1. ~Exclusion
      BY <1>1, <2>1, <2>2 DEF L!Persist, Exclusion, L!Holding
    <3> QED
      BY <3>1 DEF KilledHolder
  <2>4. x = k /\ x # p
    BY <1>o, <2>3 DEF KilledHolder
  <2>5. x \in copy[p] <=> x \in contents
    BY <1>1, <1>o, <2>4 DEF CopiesDiffer, L!Persist
  <2>6. contents' \in {contents, copy[p]}
    BY <1>1 DEF L!Persist
  <2> QED
    BY <1>d, <2>2, <2>5, <2>6
<1>2. CASE L!Open(p)
  BY <1>2, <1>d, <1>o DEF L!Open
<1>3. CASE L!Execute(p)
  BY <1>3, <1>d, <1>o DEF L!Execute
<1>4. CASE UNCHANGED <<contents, copy>>
             /\ (session'[p] \in {"work", "persist"} => session[p] \in {"work", "persist"})
  BY <1>4, <1>d, <1>o
<1>5. CASE L!Acquire(p) \/ L!WriteOwner(p) \/ L!Inspect(p) \/ L!RecoverStale(p) \/ L!Wait(p) \/ L!Release(p)
  BY <1>5, <1>4 DEF L!Acquire, L!MakeDirectory, L!WriteOwner, L!Inspect, L!RecoverStale, L!Wait,
     L!GiveUpOrRetry, L!Release
<1> QED
  BY <1>1, <1>2, <1>3, <1>5 DEF L!Step

\* The work of a session is lost when another replaces the file by a copy that lacks it.
LEMMA LossStep ==
  ASSUME L!LockConstants, LossInv, NEW p \in Procs, L!Step(p)
  PROVE  LossIsExplained'
<1>k. \A rest : KilledHolder(rest) => KilledHolder(rest)'
  BY KilledHolderStays DEF LossInv, L!Next
<1>o. /\ p \notin killed /\ killed' = killed
      /\ \A q \in Procs : q # p => session'[q] = session[q] /\ said'[q] = said[q] /\ copy'[q] = copy[q]
  BY OthersStay DEF LossInv
<1>e. session[p] \in {"release", "done"} => session'[p] \in {"release", "done"}
  BY DEF LossInv, L!TypeOK, L!Step, L!Acquire, L!WriteOwner, L!Inspect, L!RecoverStale, L!Wait, L!Open,
     L!Execute, L!Persist,
         L!Release, L!Goto
<1> SUFFICES ASSUME NEW x \in Procs, session'[x] \in {"release", "done"}, said'[x] = "committed",
      x \notin contents'
             PROVE  \E q \in Procs \ {x} : session'[q] \in {"release", "done"} /\ KilledHolder({x, q})'
  BY DEF LossIsExplained
<1>1. CASE session[x] \in {"release", "done"} /\ said[x] = "committed" /\ x \notin contents
  <2>1. PICK q \in Procs \ {x} : session[q] \in {"release", "done"} /\ KilledHolder({x, q})
    BY <1>1 DEF LossInv, LossIsExplained
  <2>2. session'[q] \in {"release", "done"}
    BY <2>1, <1>o, <1>e
  <2> QED
    BY <1>k, <2>1, <2>2
<1>2. CASE session[x] \in {"release", "done"} /\ said[x] = "committed" /\ x \in contents
  <2>1. L!Persist(p) /\ contents' = copy[p]
    BY <1>2 DEF L!Step, L!Acquire, L!WriteOwner, L!Inspect, L!RecoverStale, L!Wait, L!Open, L!Execute,
       L!Persist, L!Release
  <2>2. x # p /\ session[p] = "persist" /\ session'[p] = "release"
    BY <1>2, <2>1 DEF L!Persist, L!Goto, LossInv, L!TypeOK
  <2>3. KilledHolder({x})
    BY <1>2, <1>o, <2>1, <2>2 DEF LossInv, CopiesDiffer
  <2>4. KilledHolder({x, p})
    BY <1>o, <2>3 DEF KilledHolder
  <2> QED
    BY <1>k, <2>2, <2>4
<1>3. CASE ~(session[x] \in {"release", "done"} /\ said[x] = "committed")
  <2>1. x = p
    BY <1>3, <1>o
  <2>2. L!Persist(p) /\ said[p] = "committed" /\ contents' = copy[p]
    BY <2>1, <1>3 DEF LossInv, L!TypeOK, L!Step, L!Acquire, L!MakeDirectory, L!WriteOwner, L!Inspect,
       L!RecoverStale, L!Wait,
       L!GiveUpOrRetry, L!Open, L!Execute, L!Persist, L!Release, L!Goto, L!Say
  <2> QED
    BY <2>1, <2>2 DEF LossInv, WorkIsWritten, L!Persist
<1> QED
  BY <1>1, <1>2, <1>3

\* At most one session more is past its beginning after a step.
LEMMA OutsideStep ==
  ASSUME L!LockConstants, LossInv, NEW p \in Procs, L!Step(p)
  PROVE  IsFiniteSet(Outside')
<1>1. Outside' \subseteq Outside \cup {p}
  BY OthersStay DEF Outside, LossInv
<1>2. IsFiniteSet(Outside \cup {p})
  BY FS_AddElement DEF LossInv
<1> QED
  BY <1>1, <1>2, FS_Subset

\* A step keeps the invariant.
LEMMA LossInvStep ==
  ASSUME L!LockConstants, LossInv, [L!Next]_(L!vars)
  PROVE  LossInv'
<1>t. L!TypeOK'
  BY LockTypeStep DEF LossInv
<1>k. KilledHolder({}) => KilledHolder({})'
  BY KilledHolderStays DEF LossInv
<1>1. ASSUME NEW p \in Procs, L!Step(p) PROVE LossInv'
  <2>1. KilledHolder({})' \/ (Exclusion' /\ NobodyRecovers' /\ OwnerHolds')
    BY <1>k, <1>1, ExclusionStep
  <2>2. WorkIsWritten'
    BY <1>1, WrittenStep DEF LossInv
  <2> QED
    BY <1>t, <1>1, <2>1, <2>2, CopiesStep, LossStep, OutsideStep DEF LossInv
<1>2. ASSUME NEW p \in Procs, L!Kill(p) PROVE LossInv'
  <2>1. UNCHANGED <<made, owner, contents, copy, session, said>> /\ killed' = killed \cup {p}
    BY <1>2 DEF L!Kill
  <2>2. \A rest : KilledHolder(rest) => KilledHolder(rest)'
    BY KilledHolderStays, <1>2 DEF LossInv, L!Next
  <2>3. Outside' = Outside
    BY <2>1 DEF Outside
  <2>4. WorkIsWritten' /\ CopiesDiffer' /\ LossIsExplained'
    BY <2>1, <2>2 DEF LossInv, WorkIsWritten, CopiesDiffer, LossIsExplained
  <2>5. KilledHolder({})' \/ (Exclusion' /\ NobodyRecovers' /\ OwnerHolds')
    BY <2>1, <2>2 DEF LossInv, Exclusion, NobodyRecovers, OwnerHolds
  <2> QED
    BY <1>t, <2>3, <2>4, <2>5 DEF LossInv
<1>3. CASE UNCHANGED L!vars
  BY <1>t, <1>3 DEF L!vars, LossInv, Outside, KilledHolder, Exclusion, NobodyRecovers, OwnerHolds, WorkIsWritten,
     CopiesDiffer, LossIsExplained
<1> QED
  BY <1>1, <1>2, <1>3 DEF L!Next

\* Three sessions that are not at their beginning.
LEMMA ThreeOutside ==
  ASSUME IsFiniteSet(Outside), NEW p \in Outside, NEW q \in Outside, NEW k \in Outside,
         p # q, p # k, q # k
  PROVE  Cardinality(Outside) >= 3
<1>1. IsFiniteSet({p}) /\ Cardinality({p}) = 1
  BY FS_Singleton
<1>2. q \notin {p} /\ k \notin {p} \cup {q}
  OBVIOUS
<1>3. IsFiniteSet({p} \cup {q}) /\ Cardinality({p} \cup {q}) = 2
  <2> DEFINE T == {p}
  <2>1. IsFiniteSet(T) /\ Cardinality(T) = 1 /\ q \notin T
    BY <1>1, <1>2
  <2> HIDE DEF T
  <2>2. /\ IsFiniteSet(T \cup {q})
        /\ Cardinality(T \cup {q}) = IF q \in T THEN Cardinality(T) ELSE Cardinality(T) + 1
    BY <2>1, FS_AddElement
  <2>3. Cardinality(T \cup {q}) = 2
    BY <2>1, <2>2
  <2> QED
    BY <2>2, <2>3 DEF T
<1>4. Cardinality(({p} \cup {q}) \cup {k}) = 3
  <2> DEFINE T == {p} \cup {q}
  <2>1. IsFiniteSet(T) /\ Cardinality(T) = 2 /\ k \notin T
    BY <1>2, <1>3
  <2> HIDE DEF T
  <2>2. Cardinality(T \cup {k}) = IF k \in T THEN Cardinality(T) ELSE Cardinality(T) + 1
    BY <2>1, FS_AddElement
  <2>3. Cardinality(T \cup {k}) = 3
    BY <2>1, <2>2
  <2> QED
    BY <2>3 DEF T
<1>5. (({p} \cup {q}) \cup {k}) \subseteq Outside
  OBVIOUS
<1>6. Cardinality(Outside) \in Nat /\ Cardinality(({p} \cup {q}) \cup {k}) <= Cardinality(Outside)
  BY <1>5, FS_CardinalityType, FS_Subset
<1> QED
  BY <1>4, <1>6

\* The instance counts as this module does.
LEMMA SameCount == \A S : L!Cardinality(S) = Cardinality(S)
  BY DEF L!Cardinality, Cardinality

\* An update is lost only to three processes, of any number that compete and are killed: the
\* one that was told, the one that replaced the file by a copy without its work, and one that
\* was killed while it held the lock, without which nobody removes a lock that is held.
THEOREM LossExplained == LockSpec => []LossTakesThree
<1>1. L!Init => LossInv
  <2> SUFFICES ASSUME L!Init PROVE LossInv
    OBVIOUS
  <2>1. Outside = {}
    BY DEF L!Init, Outside
  <2>2. IsFiniteSet(Outside)
    BY <2>1, FS_EmptySet
  <2> QED
    BY <2>2, LockTypeInit DEF L!Init, LossInv, Exclusion, NobodyRecovers, OwnerHolds, WorkIsWritten, CopiesDiffer,
       LossIsExplained, L!Holding
<1>2. LossInv => LossTakesThree
  <2> SUFFICES ASSUME LossInv, NEW p \in Procs, session[p] = "done", said[p] = "committed", p \notin contents
               PROVE  Cardinality(Outside) >= 3
    BY SameCount DEF LossInv, LossTakesThree, L!LossTakesThree, L!AnswersAreDurable, WorkIsWritten, Outside
  <2>1. PICK q \in Procs \ {p} : session[q] \in {"release", "done"} /\ KilledHolder({p, q})
    BY DEF LossInv, LossIsExplained
  <2>2. PICK k \in killed \ {p, q} : session[k] \in L!Holding \cup {"done"}
    BY <2>1 DEF KilledHolder
  <2>3. p \in Outside /\ q \in Outside /\ k \in Outside
    BY <2>1, <2>2 DEF Outside, LossInv, L!TypeOK, L!Holding
  <2>4. IsFiniteSet(Outside) /\ p # q /\ p # k /\ q # k
    BY <2>1, <2>2 DEF LossInv
  <2> QED
    BY <2>3, <2>4, ThreeOutside
<1>3. LossInv /\ [L!Next]_L!vars => LossInv'
  BY LockAssumption, LossInvStep
<1> QED
  BY <1>1, <1>2, <1>3, PTL DEF LockSpec, L!Spec
===============================================================================
