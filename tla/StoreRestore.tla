------------------------------ MODULE StoreRestore ------------------------------
(***************************************************************************)
(* restore_store: one authorized restore of a store file from a snapshot,  *)
(* driven by replays of the same request.  The prior state is copied aside *)
(* and verified, the snapshot takes the store's name by a rename, and the  *)
(* receipt is settled in the store that is then there; if that one is not  *)
(* healthy it is moved to quarantine and the prior copy is put back.  A    *)
(* journal file beside the copy carries the stage over kills.  Meanwhile   *)
(* other processes commit to whatever store has the name.                  *)
(*                                                                         *)
(* A store is its lineage, its operation fence, whether it passes the      *)
(* inspection, and the receipt of this restore that is settled in it.      *)
(***************************************************************************)
EXTENDS Naturals

CONSTANTS
  TargetFence,     \* expected_target.operation_fence
  SnapshotFence,   \* snapshot.operation_fence
  Absent,          \* no such file
  MaxCommits,      \* bound: commits of other processes
  MaxFaults        \* bound: kills, failing steps, corrupted stores

ASSUME RestoreAssumption ==
  /\ {TargetFence, SnapshotFence, MaxCommits, MaxFaults} \subseteq Nat
  /\ SnapshotFence < TargetFence

VARIABLES
  store, prior, quarantine,   \* files: a store, or Absent
  journal,      \* restore-state.json: a stage, "torn", or Absent
  source,       \* whether the authorized snapshot still verifies
  pc, seen,     \* where the call is, the store that it inspected last
  reply,        \* its last answer
  commits, faults

files == <<store, prior, quarantine, journal>>
vars  == <<files, source, pc, seen, reply, commits, faults>>

Stages == {"authorized", "prior_copy_verified", "replacement_ready", "replaced_pending_health",
           "unhealthy_quarantined", "terminal_external"}

Outcomes == {"restored", "rejected", "failed", "rolled_back"}

Stores == [lineage: {"target", "snapshot"}, fence: Nat, healthy: BOOLEAN,
           receipt: Outcomes \cup {"none"}]

ASSUME FileAssumption ==
  Absent \notin Stores /\ Absent \notin Stages \cup {"torn"}

Target == [lineage |-> "target", fence |-> TargetFence, healthy |-> TRUE, receipt |-> "none"]

Snapshot == [lineage |-> "snapshot", fence |-> SnapshotFence, healthy |-> TRUE, receipt |-> "none"]

Available(s) == s # Absent /\ s.healthy

\* restoreObserved(s) is the expected target: identity, schema, protocol and fence, which
\* is all that it looks at
IsExpected(s) == Available(s) /\ s.fence = TargetFence

Init ==
  /\ store \in {Target, [Target EXCEPT !.fence = TargetFence + 1]}
  /\ prior = Absent /\ quarantine = Absent /\ journal = Absent /\ source = TRUE
  /\ pc = "idle" /\ seen = Absent /\ reply = "none" /\ commits = 0 /\ faults = 0

-------------------------------------------------------------------------------
Goto(label) == pc' = label /\ UNCHANGED <<seen, reply>>

Finish(code) == pc' = "idle" /\ seen' = Absent /\ reply' = code

Others == <<source, commits, faults>>

\* settleStoreOperationReceipt: only at the fence of the store that was inspected
Settles(state) == Available(store) /\ state # Absent /\ store.fence = state.fence

Settled(outcome) == [store EXCEPT !.receipt = outcome, !.fence = @ + 1]

\* restoreStore, up to the verification of the target: a replay of a settled restore
\* answers with its receipt.
Begin ==
  /\ pc = "idle"
  /\ IF journal = "torn" THEN Finish("state_conflict") /\ UNCHANGED journal
     ELSE IF journal = "terminal_external" THEN Finish("unhealthy") /\ UNCHANGED journal
     ELSE IF Available(store) /\ store.receipt # "none" THEN Finish(store.receipt) /\ journal' = Absent
     ELSE IF ~Available(store) /\ journal = Absent THEN Finish("unavailable") /\ UNCHANGED journal
     ELSE pc' = "authorize" /\ seen' = store /\ reply' = "none" /\ UNCHANGED journal
  /\ UNCHANGED <<store, prior, quarantine, Others>>

\* The target and the snapshot are verified, and the first journal is written; a restore
\* that goes on from a journal verifies the snapshot only.
Authorize ==
  /\ pc = "authorize"
  /\ IF journal # Absent
       THEN (IF source THEN Goto("retain") ELSE Finish("recovery_required")) /\ UNCHANGED journal
       ELSE IF ~IsExpected(seen) \/ ~source \/ prior # Absent \/ quarantine # Absent
       THEN Goto("reject") /\ UNCHANGED journal
       ELSE Goto("retain") /\ journal' = "authorized"
  /\ UNCHANGED <<store, prior, quarantine, Others>>

\* settleRestoreNotReplaced; after a failure to retain the journal goes, settled or not
Reject ==
  /\ pc = "reject"
  /\ IF Settles(seen) THEN store' = Settled("rejected") /\ Finish("rejected")
                      ELSE UNCHANGED store /\ Finish("conflict")
  /\ journal' = Absent
  /\ UNCHANGED <<prior, quarantine, Others>>

\* A copy that is there is verified; else one is made of a target that is still expected.
Retain ==
  /\ pc = "retain"
  /\ IF prior = Absent /\ IsExpected(seen) THEN Goto("copying")
     ELSE IF prior # Absent /\ IsExpected(prior) THEN Goto("retained")
     ELSE IF IsExpected(seen) THEN Goto("reject") ELSE Finish("recovery_required")
  /\ UNCHANGED <<files, Others>>

\* The copy is of the store as it is now, gets its name whole (module StoreBootstrap), and
\* must have the expected fence.
Copy ==
  /\ pc = "copying"
  /\ prior' = store
  /\ Goto(IF IsExpected(prior') THEN "retained" ELSE "reject")
  /\ UNCHANGED <<store, quarantine, journal, Others>>

RecordPrior ==
  /\ pc = "retained"
  /\ journal' = IF journal = "authorized" THEN "prior_copy_verified" ELSE journal
  /\ Goto("decide")
  /\ UNCHANGED <<store, prior, quarantine, Others>>

\* What a replay finds: a quarantined replacement, a replacement, or neither
Decide ==
  /\ pc = "decide"
  /\ IF journal = "unhealthy_quarantined"
       THEN /\ UNCHANGED journal
            /\ IF store = Absent /\ quarantine # Absent
                 THEN Goto("rollback") ELSE Finish("recovery_required")
       ELSE IF Available(seen) /\ store = Snapshot
       THEN journal' = "replaced_pending_health" /\ Goto("health")
       ELSE journal' = "replacement_ready" /\ Goto("recheck")
  /\ UNCHANGED <<store, prior, quarantine, Others>>

Recheck ==
  /\ pc = "recheck"
  /\ Goto(IF IsExpected(store) THEN "replace" ELSE "replaceFailed")
  /\ UNCHANGED <<files, Others>>

\* rename(candidatePath, storePath)
Replace ==
  /\ pc = "replace"
  /\ store' = Snapshot /\ Goto("replaced")
  /\ UNCHANGED <<prior, quarantine, journal, Others>>

RecordReplaced ==
  /\ pc = "replaced"
  /\ journal' = "replaced_pending_health" /\ Goto("health")
  /\ UNCHANGED <<store, prior, quarantine, Others>>

AnyStoreFails ==   \* mutant: whatever is there now is taken for the target
  /\ pc = "replaceFailed"
  /\ IF Available(store) THEN pc' = "fail" /\ seen' = store /\ UNCHANGED reply
                         ELSE Finish("recovery_required")
  /\ UNCHANGED <<files, Others>>

\* The catch of the replacement
ReplaceFailed ==
  /\ pc = "replaceFailed"
  /\ IF IsExpected(store) THEN pc' = "fail" /\ seen' = store /\ UNCHANGED reply
                          ELSE Finish("recovery_required")
  /\ UNCHANGED <<files, Others>>

SettleFailed ==
  /\ pc = "fail"
  /\ IF Settles(seen) THEN store' = Settled("failed") /\ Finish("failed")
                      ELSE UNCHANGED store /\ Finish("recovery_required")
  /\ journal' = Absent
  /\ UNCHANGED <<prior, quarantine, Others>>

\* verifyRestoreArtifact, of the bytes, and then the inspection whose fence is settled
Verify ==
  /\ pc = "health"
  /\ IF store = Snapshot THEN pc' = "inspect" /\ seen' = store ELSE pc' = "quarantine" /\ UNCHANGED seen
  /\ UNCHANGED <<files, reply, Others>>

Inspect ==
  /\ pc = "inspect"
  /\ IF Available(store) THEN pc' = "settle" /\ seen' = store ELSE pc' = "quarantine" /\ UNCHANGED seen
  /\ UNCHANGED <<files, reply, Others>>

Settle ==
  /\ pc = "settle"
  /\ IF ~Available(store) THEN Goto("quarantine") /\ UNCHANGED store
     ELSE IF Settles(seen) THEN store' = Settled("restored") /\ Goto("finish")
     ELSE UNCHANGED store /\ Finish("receipt_unavailable")
  /\ UNCHANGED <<prior, quarantine, journal, Others>>

Complete ==
  /\ pc = "finish"
  /\ IF Available(store) THEN journal' = Absent /\ Finish("restored")
                         ELSE UNCHANGED journal /\ Goto("quarantine")
  /\ UNCHANGED <<store, prior, quarantine, Others>>

-------------------------------------------------------------------------------
\* settleUnhealthyReplacement

Quarantine ==
  /\ pc = "quarantine"
  /\ quarantine' = store /\ store' = Absent /\ Goto("quarantined")
  /\ UNCHANGED <<prior, journal, Others>>

RecordQuarantine ==
  /\ pc = "quarantined"
  /\ journal' = "unhealthy_quarantined" /\ Goto("rollback")
  /\ UNCHANGED <<store, prior, quarantine, Others>>

MoveBack ==   \* mutant: the copy itself takes the store's name
  /\ pc = "rollback"
  /\ store' = prior /\ prior' = Absent /\ Goto("rolledBack")
  /\ UNCHANGED <<quarantine, journal, Others>>

\* copyFile(prior, rollback), verified, and the rename to the store's name
Rollback ==
  /\ pc = "rollback"
  /\ store' = prior /\ Goto("rolledBack")
  /\ UNCHANGED <<prior, quarantine, journal, Others>>

InspectRollback ==
  /\ pc = "rolledBack"
  /\ IF IsExpected(store) THEN pc' = "settleRollback" /\ seen' = store /\ UNCHANGED reply
                          ELSE Goto("rollbackFailed")
  /\ UNCHANGED <<files, Others>>

SettleRollback ==
  /\ pc = "settleRollback"
  /\ IF Settles(seen)
       THEN store' = Settled("rolled_back") /\ journal' = Absent /\ Finish("rolled_back")
       ELSE UNCHANGED <<store, journal>> /\ Goto("rollbackFailed")
  /\ UNCHANGED <<prior, quarantine, Others>>

\* The answer that is kept in the journal; a store that is there and healthy stays.
RollbackFailed ==
  /\ pc = "rollbackFailed"
  /\ IF store # Absent /\ ~Available(store)
       THEN quarantine' = store /\ store' = Absent ELSE UNCHANGED <<store, quarantine>>
  /\ journal' = "terminal_external" /\ Finish("unhealthy")
  /\ UNCHANGED <<prior, Others>>

Step ==
  \/ Begin \/ Authorize \/ Reject \/ Retain \/ Copy \/ RecordPrior \/ Decide
  \/ Recheck \/ Replace \/ RecordReplaced \/ ReplaceFailed \/ SettleFailed
  \/ Verify \/ Inspect \/ Settle \/ Complete
  \/ Quarantine \/ RecordQuarantine \/ Rollback \/ InspectRollback \/ SettleRollback \/ RollbackFailed

-------------------------------------------------------------------------------
Fault == faults < MaxFaults /\ faults' = faults + 1

\* A kill, possibly in the middle of the first write of the journal
Kill ==
  /\ Fault /\ pc # "idle"
  /\ \/ UNCHANGED journal
     \/ pc = "retain" /\ journal = "authorized" /\ prior = Absent /\ journal' = "torn"
  /\ Finish("none")
  /\ UNCHANGED <<store, prior, quarantine, source, commits>>

\* A copy, a write or a settlement throws, and the catch of its block takes over.
Throws ==
  /\ Fault
  /\ \/ /\ pc \in {"copying", "retained"}
        /\ IF IsExpected(seen) THEN Goto("reject") ELSE Finish("recovery_required")
     \/ pc \in {"recheck", "replace", "replaced"} /\ Goto("replaceFailed")
     \/ pc \in {"health", "inspect", "settle"} /\ Goto("quarantine")
     \/ pc \in {"rollback", "rolledBack", "settleRollback"} /\ Goto("rollbackFailed")
  /\ UNCHANGED <<files, source, commits>>

Corrupt ==
  /\ Fault /\ Available(store) /\ store' = [store EXCEPT !.healthy = FALSE]
  /\ UNCHANGED <<prior, quarantine, journal, source, pc, seen, reply, commits>>

LoseSource ==
  /\ Fault /\ source /\ source' = FALSE
  /\ UNCHANGED <<files, pc, seen, reply, commits>>

\* Another process commits, which moves the fence.
Commit ==
  /\ commits < MaxCommits /\ commits' = commits + 1
  /\ Available(store) /\ store' = [store EXCEPT !.fence = @ + 1]
  /\ UNCHANGED <<prior, quarantine, journal, source, pc, seen, reply, faults>>

Next == Step \/ Kill \/ Throws \/ Corrupt \/ LoseSource \/ Commit

Spec == Init /\ [][Next]_vars
-------------------------------------------------------------------------------
TypeOK ==
  /\ store \in Stores \cup {Absent} /\ prior \in Stores \cup {Absent}
  /\ quarantine \in Stores \cup {Absent} /\ seen \in Stores \cup {Absent}
  /\ journal \in Stages \cup {"torn", Absent} /\ source \in BOOLEAN
  /\ commits \in 0..MaxCommits /\ faults \in 0..MaxFaults

\* The prior state is not lost: the store is what it was, with what was committed to it, or
\* its whole copy is there, whatever fails, or is killed, on the way.
PriorIsRetained ==
  \/ store # Absent /\ store.lineage = "target"
  \/ IsExpected(prior) /\ prior.lineage = "target"

\* The receipt tells which state the store is in: restored is settled in the snapshot, what
\* says that nothing was replaced or that it was rolled back in the target.  It is so only
\* while commits to the replacement cannot reach the fence of the target.
ReceiptIsTrue ==
  store # Absent /\ store.receipt # "none" =>
    (store.receipt = "restored") = (store.lineage = "snapshot")

\* A store that went away is in quarantine, and the restore is not over.
AbsentIsQuarantined == store = Absent => quarantine # Absent /\ journal # Absent
===============================================================================
