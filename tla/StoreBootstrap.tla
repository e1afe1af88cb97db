----------------------------- MODULE StoreBootstrap -----------------------------
(***************************************************************************)
(* initialize_store and snapshot_store: how a store comes to have its      *)
(* name, and how a copy of it is taken aside.  A new store is built under  *)
(* another name and linked to its own, which only one can do.  A snapshot  *)
(* writes an intent, exports the store to a file that must not be there    *)
(* yet, verifies it, and settles a receipt if the fence has not moved      *)
(* since it looked; a replay that finds the file and its own intent goes   *)
(* on from there.  A call reads and writes in separate steps, and may be   *)
(* killed between any two.                                                 *)
(*                                                                         *)
(* All snapshots are to one file.  A store is its identity, its fence and  *)
(* its receipts; the file of a snapshot is the identity and the fence.     *)
(***************************************************************************)
EXTENDS Naturals

CONSTANTS
  Calls,       \* invocations, each with a request
  Operations,  \* operation ids
  Requests,    \* [kind, operation, fence]: fence is the one that a snapshot expects
  Plan,        \* the request of each call
  Absent,      \* no such file
  Torn,        \* a file that was not written to its end
  MaxCommits,  \* bound: commits of other processes
  MaxFaults    \* bound: kills and lost results

Outcomes == {"initialized", "snapshotted", "conflict", "rejected"}
NoRow    == [request |-> Absent, outcome |-> "none", fence |-> 0]

Stored == [id: Calls, fence: Nat \ {0},
           receipts: [Operations -> [request: Requests, outcome: Outcomes, fence: Nat \ {0}] \cup {NoRow}]]
Copies == [id: Calls, fence: Nat \ {0}]

\* A call has a request, and what is not there is none of the things that are.
BootstrapConstants ==
  /\ Plan \in [Calls -> Requests]
  /\ Requests \subseteq [kind: {"initialize", "snapshot"}, operation: Operations, fence: Nat]
  /\ Absent \notin Requests /\ Absent \notin Stored /\ Absent \notin Copies

VARIABLES
  file,      \* the store file: [id, fence, receipts], or Absent
  artifact,  \* the file of the snapshot: [id, fence], or Absent
  intent,    \* its intent: a request, Torn, or Absent
  at,        \* where each call is
  read,      \* the store that each call inspected
  outcome,   \* the terminal that it settles
  answer,    \* what it tells its caller: [status, id]
  others,    \* commits of other processes
  faulty     \* faults so far

disk  == <<file, artifact, intent>>
calls == <<at, read, outcome, answer>>
bvars == <<disk, calls, others, faulty>>

NoAnswer == [status |-> "none", id |-> Absent]

Available == file # Absent

Row(c)      == file.receipts[Plan[c].operation]
Settled(c)  == Row(c) # NoRow
Matches(c)  == intent = Plan[c]
Is(c, kind) == Plan[c].kind = kind

Init ==
  /\ file = Absent /\ artifact = Absent /\ intent = Absent
  /\ at = [c \in Calls |-> "start"] /\ read = [c \in Calls |-> Absent]
  /\ outcome = [c \in Calls |-> "none"] /\ answer = [c \in Calls |-> NoAnswer]
  /\ others = 0 /\ faulty = 0

-------------------------------------------------------------------------------
Goto(c, label) == at' = [at EXCEPT ![c] = label]

Says(c, status) ==
  answer' = [answer EXCEPT ![c] = [status |-> status, id |-> IF Available THEN file.id ELSE Absent]]

\* The answer of a call that ends
Finish(c, status) ==
  /\ Goto(c, "done") /\ Says(c, status)
  /\ UNCHANGED <<read, outcome>>

\* removeMatchingSnapshotIntent reads the intent, and removes the file if it was its own.
FinishClean(c, status) ==
  IF Matches(c) THEN Goto(c, "clean") /\ Says(c, status) /\ UNCHANGED <<read, outcome>>
                ELSE Finish(c, status)

\* An operation id that was settled answers with its receipt, or not at all.
Replayed(c) == IF Row(c).request = Plan[c] THEN Row(c).outcome ELSE "idempotency_mismatch"

-------------------------------------------------------------------------------
\* initializeStore

\* Its own receipt, or that of the initialization that there was
InitializeStore(c) ==
  /\ at[c] = "start" /\ Is(c, "initialize")
  /\ IF ~Available THEN Goto(c, "create") /\ UNCHANGED <<read, outcome, answer>>
     ELSE Finish(c, IF Settled(c) THEN Replayed(c) ELSE "initialized")
  /\ UNCHANGED <<disk, others, faulty>>

Created(c) ==
  [id |-> c, fence |-> 1,
   receipts |-> [o \in Operations |-> IF o = Plan[c].operation
                   THEN [request |-> Plan[c], outcome |-> "initialized", fence |-> 1] ELSE NoRow]]

\* createInitializedStore: link(temporaryStore, storePath) fails if the name is taken.
CreateStore(c) ==
  /\ at[c] = "create"
  /\ IF Available THEN Finish(c, "initialization_unavailable") /\ UNCHANGED file
     ELSE /\ file' = Created(c)
          /\ Goto(c, "done") /\ answer' = [answer EXCEPT ![c] = [status |-> "initialized", id |-> c]]
          /\ UNCHANGED <<read, outcome>>
  /\ UNCHANGED <<artifact, intent, others, faulty>>

-------------------------------------------------------------------------------
\* snapshotStore

\* inspectStore
InspectStore(c) ==
  /\ at[c] = "start" /\ Is(c, "snapshot")
  /\ IF Available THEN /\ read' = [read EXCEPT ![c] = file]
                       /\ Goto(c, "receipt")
                       /\ UNCHANGED <<outcome, answer>>
                  ELSE Finish(c, "store_unavailable")
  /\ UNCHANGED <<disk, others, faulty>>

ReadReceipt(c) ==
  /\ at[c] = "receipt"
  /\ IF ~Settled(c) THEN Goto(c, "check") /\ UNCHANGED <<read, outcome, answer>>
     ELSE IF Row(c).request = Plan[c] THEN FinishClean(c, Row(c).outcome)
     ELSE Finish(c, "idempotency_mismatch")
  /\ UNCHANGED <<disk, others, faulty>>

Settles(c, what) ==
  Goto(c, "settle") /\ outcome' = [outcome EXCEPT ![c] = what] /\ UNCHANGED <<read, answer>>

\* The fence that it expects, and whether the file is there
CheckTarget(c) ==
  /\ at[c] = "check"
  /\ IF read[c].fence # Plan[c].fence THEN Settles(c, "conflict")
     ELSE Goto(c, IF artifact = Absent THEN "intend" ELSE "match") /\ UNCHANGED <<read, outcome, answer>>
  /\ UNCHANGED <<disk, others, faulty>>

\* A file that is there must have come with this request's intent.
MatchIntent(c) ==
  /\ at[c] = "match"
  /\ IF Matches(c) THEN Goto(c, "verify") /\ UNCHANGED <<read, outcome, answer>>
                   ELSE Settles(c, "rejected")
  /\ UNCHANGED <<disk, others, faulty>>

\* writeFile(..., {flag: "wx"})
WriteIntent(c) ==
  /\ at[c] = "intend"
  /\ IF intent = Absent THEN intent' = Plan[c] /\ Goto(c, "export")
                        ELSE UNCHANGED intent /\ Goto(c, "failed")
  /\ UNCHANGED <<file, artifact, read, outcome, answer, others, faulty>>

\* createVerifiedStoreSnapshot: VACUUM INTO links the export of the store as it is now to
\* a name that must be free.
Export(c) ==
  /\ at[c] = "export"
  /\ IF artifact = Absent
       THEN artifact' = [id |-> file.id, fence |-> file.fence] /\ Goto(c, "verifyNew")
       ELSE UNCHANGED artifact /\ Goto(c, "failed")
  /\ UNCHANGED <<file, intent, read, outcome, answer, others, faulty>>

\* verifyExactStoreSnapshot
Expected(c) == artifact # Absent /\ artifact.fence = Plan[c].fence

VerifyExport(c) ==
  /\ at[c] = "verifyNew"
  /\ IF Expected(c) THEN Settles(c, "snapshotted")
                    ELSE Goto(c, "failed") /\ UNCHANGED <<read, outcome, answer>>
  /\ UNCHANGED <<disk, others, faulty>>

VerifyFound(c) ==
  /\ at[c] = "verify"
  /\ IF Expected(c) THEN Settles(c, "snapshotted") ELSE Finish(c, "snapshot_recovery_mismatch")
  /\ UNCHANGED <<disk, others, faulty>>

\* The catch: the intent goes if no file was left.
ExecutionFailed(c) ==
  /\ at[c] = "failed"
  /\ IF artifact = Absent THEN FinishClean(c, "snapshot_execution_failed")
                          ELSE Finish(c, "snapshot_execution_failed")
  /\ UNCHANGED <<disk, others, faulty>>

AnyFence(c) == TRUE   \* mutant: settles whatever was committed since it looked

AtFence(c) == file.fence = read[c].fence

\* settleStoreOperationReceipt, and the receipt that is there after it
Settle(c) ==
  /\ at[c] = "settle"
  /\ IF ~Settled(c) /\ AtFence(c)
       THEN /\ file' = [file EXCEPT !.fence = @ + 1,
                          !.receipts[Plan[c].operation] =
                             [request |-> Plan[c], outcome |-> outcome[c], fence |-> file.fence + 1]]
            /\ IF outcome[c] = "snapshotted" THEN FinishClean(c, outcome[c]) ELSE Finish(c, outcome[c])
       ELSE /\ UNCHANGED file
            /\ IF Settled(c) /\ Row(c).request = Plan[c] /\ outcome[c] = "snapshotted"
                 THEN FinishClean(c, Row(c).outcome)
                 ELSE Finish(c, IF Settled(c) THEN Replayed(c)
                                ELSE IF outcome[c] = "snapshotted" THEN "snapshot_receipt_unavailable"
                                ELSE "store_operation_conflict")
  /\ UNCHANGED <<artifact, intent, others, faulty>>

\* rm(snapshotIntentPath)
Clean(c) ==
  /\ at[c] = "clean"
  /\ intent' = Absent /\ Goto(c, "done")
  /\ UNCHANGED <<file, artifact, read, outcome, answer, others, faulty>>

-------------------------------------------------------------------------------
\* Another process commits, which moves the fence.
Commit ==
  /\ Available /\ others < MaxCommits /\ others' = others + 1
  /\ file' = [file EXCEPT !.fence = @ + 1]
  /\ UNCHANGED <<artifact, intent, calls, faulty>>

\* A call is killed, possibly while it writes the intent.
Kill(c) ==
  /\ at[c] \notin {"start", "done"} /\ faulty < MaxFaults /\ faulty' = faulty + 1
  /\ \/ UNCHANGED intent
     \/ at[c] = "intend" /\ intent = Absent /\ intent' = Torn
  /\ Goto(c, "done") /\ UNCHANGED <<file, artifact, read, outcome, answer, others>>

Steps(c) ==
  \/ InitializeStore(c) \/ CreateStore(c)
  \/ InspectStore(c) \/ ReadReceipt(c) \/ CheckTarget(c) \/ MatchIntent(c) \/ WriteIntent(c)
  \/ Export(c) \/ VerifyExport(c) \/ VerifyFound(c) \/ ExecutionFailed(c) \/ Settle(c) \/ Clean(c)

Next == Commit \/ \E c \in Calls : Steps(c) \/ Kill(c)

Spec == Init /\ [][Next]_bvars
-------------------------------------------------------------------------------
TypeOK ==
  /\ file \in Stored \cup {Absent}
  /\ artifact \in Copies \cup {Absent}
  /\ intent \in Requests \cup {Torn, Absent}
  /\ read \in [Calls -> Stored \cup {Absent}]
  /\ outcome \in [Calls -> Outcomes \cup {"none"}]
  /\ others \in 0..MaxCommits /\ faulty \in 0..MaxFaults

\* There is one store: whoever was told that it is initialized was told of the one that has
\* the name, whether it made it, lost the race, or was answered after a kill.
InitializersAgree ==
  \A c \in Calls : answer[c].status = "initialized" => Available /\ file.id = answer[c].id

\* A receipt of a snapshot is of the file that is there, and nothing was committed between
\* the state in the file and the receipt.
SnapshotIsTrue ==
  Available => \A o \in Operations :
    file.receipts[o].outcome = "snapshotted" =>
      artifact # Absent /\ artifact.id = file.id /\ artifact.fence = file.receipts[o].fence - 1

\* A copy that no receipt names can still be settled by a replay: its intent is there.  It is
\* not always so: a second attempt of the same operation, which finds the intent of the first
\* before the copy, fails, and removes it.
CopiesAreExplained ==
  artifact # Absent /\ (\A o \in Operations : file.receipts[o].outcome # "snapshotted") =>
    intent \in Requests
===============================================================================
