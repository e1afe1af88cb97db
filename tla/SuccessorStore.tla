---------------------------- MODULE SuccessorStore ----------------------------
(***************************************************************************)
(* The owner-neutral SQLite store of casebook-persistence (the "successor" *)
(* substrate): revisioned owners, one durable receipt per operation, an    *)
(* event per committed revision, one selected admission Profile and a      *)
(* store-wide operation fence.                                             *)
(*                                                                         *)
(* Every public operation is a sequence of separate reads of the database  *)
(* followed by one transaction.  A read or a transaction is one action     *)
(* here (the package lock and the atomic replacement of the database file  *)
(* make it so: module PackageLock); between two of them any other client   *)
(* may run.  A client killed between two calls is an attempt that takes no *)
(* further step, and a retry is another attempt with the same request.     *)
(*                                                                         *)
(* The policy and placement guards of a commit, its query material and its *)
(* outbox are left out: the guards are more of the tests that abort the    *)
(* transaction (WriteFails), the rows belong to one revision.              *)
(***************************************************************************)
EXTENDS Integers, FiniteSetsExt

CONSTANTS
  Attempts,        \* invocations of an operation, each by some client process
  Ops,             \* operation identities chosen by the clients
  Owners,          \* Cases, Frames and Profiles
  Selection,       \* the owner whose revisions record the Profile selection
  ProfileRevs,     \* Profile revisions
  InitialProfile,  \* the Profile revision selected when the store was created
  InitialOwner,    \* the Profile that InitialProfile is revision 1 of
  InitOp,          \* the operation that created the store
  NoProfile,       \* no Profile revision
  NoReceipt,       \* the operation has no settled receipt
  Plan,            \* the requests each attempt may carry
  Admits           \* the operation kinds each Profile revision admits

AllOwners == Owners \cup {Selection}

Kinds == {"commit", "revise", "activate", "retire", "rebuild"}

ProfileKinds == {"revise", "activate", "retire"}

\* A request is its own digest: two requests with one operation identity and
\* different contents have different canonical meanings.  `expected` is the
\* expected revision of the owner, the expected selection revision (activate,
\* retire) or the expected fence (rebuild); `binding` is the selection revision
\* that the admission binding was taken from; `profile` is the Profile revision
\* created (revise), activated, or put in the place of the retired one.
Request == [op: Ops, kind: Kinds, owner: AllOwners, expected: Nat, binding: Nat,
            profile: ProfileRevs \cup {NoProfile}]

Outcomes == {"committed", "rejected", "rebuilt"}

Receipt == [request: Request, outcome: Outcomes, fence: Nat, observed: Nat]

ASSUME RequestAssumption ==
  /\ Plan \in [Attempts -> SUBSET Request]
  /\ \A p \in Attempts : \A r \in Plan[p] :
       /\ r.kind \in {"commit", "revise"} => r.owner \in Owners
       /\ r.kind \in {"activate", "retire", "rebuild"} => r.owner = Selection
       /\ r.kind \in {"revise", "activate"} => r.profile \in ProfileRevs

ASSUME ConstantAssumption ==
  /\ Selection \notin Owners
  /\ InitialOwner \in Owners
  /\ InitialProfile \in ProfileRevs
  /\ InitOp \notin Ops
  /\ NoProfile \notin ProfileRevs
  /\ NoReceipt \notin Receipt
  /\ Admits \in [ProfileRevs -> SUBSET Kinds]

VARIABLES
  fence,       \* store_fence.operation_fence
  revisions,   \* owner_revisions: immutable rows [owner, number, op]
  current,     \* owner_current: the current revision number, 0 for no row
  events,      \* owner_events: immutable rows [seq, op, owner, number]
  receipts,    \* store_operation_receipts, by operation_id
  selection,   \* profile_selection_current: [rev, profile]
  lifecycle,   \* profile_revision_records.lifecycle, "absent" for no row
  projection,  \* disposable_projection_selection.source_fence, 0 for no row
  pc,          \* where each attempt is
  req,         \* the request each attempt carries
  seenFence,   \* the fence each attempt read when it inspected the store
  seenRev,     \* the revision each attempt read
  reply        \* what each attempt was told

tables == <<fence, revisions, current, events, receipts, selection, lifecycle, projection>>
local  == <<pc, req, seenFence, seenRev, reply>>
vars   == <<tables, local>>

Lifecycles == {"absent", "candidate", "active", "superseded", "retired"}

Labels == {"inspect", "receipt", "admission", "read", "target", "write", "answer", "raced",
           "readmit", "reinspect", "reread", "reject", "refused", "done"}

Refusals == {"store_unavailable", "idempotency_mismatch", "profile_changed",
             "profile_guard_denied", "profile_selection_unavailable",
             "profile_selection_conflict", "profile_revision_unavailable",
             "revision_conflict", "canonical_fence_conflict", "commit_execution_failed",
             "internal_failure"}

Replies == Outcomes \cup Refusals \cup {"none"}

-------------------------------------------------------------------------------
\* What the statements of a transaction test

Settled(op) == receipts[op] # NoReceipt

AnyActiveBinding(r) ==   \* mutant: does not compare the selection revision
  selection.profile # NoProfile /\ lifecycle[selection.profile] = "active"

\* The exact Profile selection of the request's binding is still current.
BindingOk(r) ==
  /\ selection.profile # NoProfile
  /\ selection.rev = r.binding
  /\ current[Selection] = selection.rev
  /\ lifecycle[selection.profile] = "active"

\* ... and its Profile admits the purpose of the operation.
Admitted(r) == BindingOk(r) /\ r.kind \in Admits[selection.profile]

Denial(r) ==
  IF r.kind \in ProfileKinds /\ selection.profile = NoProfile
  THEN "profile_selection_unavailable"
  ELSE IF BindingOk(r) THEN "profile_guard_denied" ELSE "profile_changed"

\* UNIQUE(owner_id, revision_number), UNIQUE(operation_id) and
\* UNIQUE(commit_sequence) let the transaction insert its rows.
KeysFree(op, o, n, seq) ==
  /\ \A row \in revisions : row.op # op /\ (row.owner = o => row.number # n)
  /\ \A row \in events : row.op # op /\ row.seq # seq

\* The compare-and-set of owner_current, or its insertion for a new owner.
ExpectsCurrent(o, n) == current[o] = n

\* A commit also compares the fence; the Profile operations do not.
FenceUnchanged(p) == fence = seenFence[p]

LatestRevision(o) == Max({0} \cup {row.number : row \in {w \in revisions : w.owner = o}})

-------------------------------------------------------------------------------
\* What the statements of a transaction write

SetFence(seen) == fence' = seen + 1   \* mutant: not a compare-and-set

\* UPDATE store_fence SET operation_fence=seen+1 WHERE operation_fence=seen
AdvanceFence(seen) == fence' = IF fence = seen THEN seen + 1 ELSE fence

LeaveProjection(op, o, n, seq) ==   \* mutant: owner_current is left behind
  /\ revisions' = revisions \cup {[owner |-> o, number |-> n, op |-> op]}
  /\ events' = events \cup {[seq |-> seq, op |-> op, owner |-> o, number |-> n]}
  /\ UNCHANGED current

AppendRevision(op, o, n, seq) ==
  /\ revisions' = revisions \cup {[owner |-> o, number |-> n, op |-> op]}
  /\ current' = [current EXCEPT ![o] = n]
  /\ events' = events \cup {[seq |-> seq, op |-> op, owner |-> o, number |-> n]}

Settle(r, outcome, at, observed) ==
  receipts' = [receipts EXCEPT ![r.op] =
                 [request |-> r, outcome |-> outcome, fence |-> at, observed |-> observed]]

-------------------------------------------------------------------------------
\* How an attempt moves

Goto(p, label) == pc' = [pc EXCEPT ![p] = label]

Finish(p, answer) ==
  /\ Goto(p, "done")
  /\ reply' = [reply EXCEPT ![p] = answer]

ReplayAnyMeaning(r) == receipts[r.op].outcome   \* mutant: compares no digest

\* Replay a settled receipt to a request of the same meaning only.
Replay(r) == IF receipts[r.op].request = r THEN receipts[r.op].outcome ELSE "idempotency_mismatch"

\* Where the catch clause of a failed transaction begins.
AfterFailure(r) == CASE r.kind = "revise" -> "readmit"
                     [] r.kind = "rebuild" -> "answer"
                     [] OTHER -> "raced"

\* A transaction that is durable may still be reported as failed: the database
\* file is replaced before its directory is synchronised.
Written(p) == \E label \in {"answer", AfterFailure(req[p])} : Goto(p, label)

-------------------------------------------------------------------------------
\* The store as bootstrap leaves it, less the receipt of InitOp and its event of
\* sequence 1, which no operation reads or collides with

Init ==
  /\ fence = 1
  /\ revisions = {[owner |-> o, number |-> 1, op |-> InitOp] : o \in {Selection, InitialOwner}}
  /\ current = [o \in AllOwners |-> IF o \in {Selection, InitialOwner} THEN 1 ELSE 0]
  /\ events = {}
  /\ receipts = [op \in Ops |-> NoReceipt]
  /\ selection = [rev |-> 1, profile |-> InitialProfile]
  /\ lifecycle = [q \in ProfileRevs |-> IF q = InitialProfile THEN "active" ELSE "absent"]
  /\ projection = 0
  /\ pc = [p \in Attempts |-> "inspect"]
  /\ req \in {f \in [Attempts -> UNION {Plan[p] : p \in Attempts}] :
                \A p \in Attempts : f[p] \in Plan[p]}
  /\ seenFence = [p \in Attempts |-> 0]
  /\ seenRev = [p \in Attempts |-> 0]
  /\ reply = [p \in Attempts |-> "none"]

-------------------------------------------------------------------------------
\* The reads before the transaction, each a query of its own

\* prepare: the fence that the whole attempt will work from
Inspect(p) ==
  /\ pc[p] = "inspect"
  /\ seenFence' = [seenFence EXCEPT ![p] = fence]
  /\ Goto(p, "receipt")
  /\ UNCHANGED <<tables, req, seenRev, reply>>

LookUpReceipt(p) ==
  /\ pc[p] = "receipt"
  /\ IF Settled(req[p].op)
     THEN Finish(p, Replay(req[p]))
     ELSE Goto(p, "admission") /\ UNCHANGED reply
  /\ UNCHANGED <<tables, req, seenFence, seenRev>>

CheckAdmission(p) ==
  /\ pc[p] = "admission"
  /\ IF Admitted(req[p])
     THEN Goto(p, "read") /\ UNCHANGED reply
     ELSE Finish(p, Denial(req[p]))
  /\ UNCHANGED <<tables, req, seenFence, seenRev>>

\* commit: a stale expectation is settled as a rejection
ReadOwner(p) ==
  LET r == req[p] IN
  /\ pc[p] = "read" /\ r.kind = "commit"
  /\ seenRev' = [seenRev EXCEPT ![p] = current[r.owner]]
  /\ Goto(p, IF ExpectsCurrent(r.owner, r.expected) THEN "write" ELSE "reject")
  /\ UNCHANGED <<tables, req, seenFence, reply>>

\* profile.create and profile.revise: a stale expectation is refused, not settled
ReadProfile(p) ==
  LET r == req[p] IN
  /\ pc[p] = "read" /\ r.kind = "revise"
  /\ IF ExpectsCurrent(r.owner, r.expected)
     THEN /\ seenRev' = [seenRev EXCEPT ![p] = current[r.owner]]
          /\ Goto(p, "write") /\ UNCHANGED reply
     ELSE Finish(p, "revision_conflict") /\ UNCHANGED seenRev
  /\ UNCHANGED <<tables, req, seenFence>>

ReadSelection(p) ==
  LET r == req[p] IN
  /\ pc[p] = "read" /\ r.kind \in {"activate", "retire"}
  /\ CASE selection.profile = NoProfile ->
            Finish(p, "profile_selection_unavailable") /\ UNCHANGED seenRev
       [] selection.profile # NoProfile /\ selection.rev # r.expected ->
            Finish(p, "profile_selection_conflict") /\ UNCHANGED seenRev
       [] OTHER ->
            /\ seenRev' = [seenRev EXCEPT ![p] = current[Selection]]
            /\ Goto(p, IF r.profile = NoProfile THEN "write" ELSE "target")
            /\ UNCHANGED reply
  /\ UNCHANGED <<tables, req, seenFence>>

\* The lifecycles a target of an activation, or a replacement, may be in
Activable(r) == IF r.kind = "activate" THEN {"candidate", "active"} ELSE {"candidate"}

ReadTarget(p) ==
  LET r == req[p] IN
  /\ pc[p] = "target"
  /\ IF lifecycle[r.profile] \in Activable(r)
     THEN Goto(p, "write") /\ UNCHANGED reply
     ELSE Finish(p, "profile_revision_unavailable")
  /\ UNCHANGED <<tables, req, seenFence, seenRev>>

\* projection.rebuild compares the fence it has already read
CheckFence(p) ==
  /\ pc[p] = "read" /\ req[p].kind = "rebuild"
  /\ IF seenFence[p] = req[p].expected
     THEN Goto(p, "write") /\ UNCHANGED reply
     ELSE Finish(p, "canonical_fence_conflict")
  /\ UNCHANGED <<tables, req, seenFence, seenRev>>

-------------------------------------------------------------------------------
\* The transactions

Commit(p) ==
  LET r == req[p]  n == r.expected + 1  next == seenFence[p] + 1 IN
  /\ pc[p] = "write" /\ r.kind = "commit"
  /\ Admitted(r) /\ FenceUnchanged(p) /\ ~Settled(r.op)
  /\ ExpectsCurrent(r.owner, r.expected) /\ KeysFree(r.op, r.owner, n, next)
  /\ AppendRevision(r.op, r.owner, n, next)
  /\ AdvanceFence(seenFence[p])
  /\ Settle(r, "committed", next, seenRev[p])
  /\ Written(p)
  /\ UNCHANGED <<selection, lifecycle, projection, req, seenFence, seenRev, reply>>

Revise(p) ==
  LET r == req[p]  n == r.expected + 1  next == seenFence[p] + 1 IN
  /\ pc[p] = "write" /\ r.kind = "revise"
  /\ Admitted(r) /\ ~Settled(r.op)
  /\ ExpectsCurrent(r.owner, r.expected) /\ KeysFree(r.op, r.owner, n, next)
  /\ lifecycle[r.profile] = "absent"
  /\ AppendRevision(r.op, r.owner, n, next)
  /\ lifecycle' = [lifecycle EXCEPT ![r.profile] = "candidate"]
  /\ AdvanceFence(seenFence[p])
  /\ Settle(r, "committed", next, seenRev[p])
  /\ Written(p)
  /\ UNCHANGED <<selection, projection, req, seenFence, seenRev, reply>>

\* The selection that the activation or retirement was computed from is current.
SelectionUnchanged(p) ==
  /\ selection.profile # NoProfile
  /\ selection.rev = req[p].expected
  /\ ExpectsCurrent(Selection, seenRev[p])

\* The previous selection loses its place before the target takes it.
Supersede(q) == [lifecycle EXCEPT ![selection.profile] = "superseded", ![q] = "active"]

Activate(p) ==
  LET r == req[p]  n == seenRev[p] + 1  next == seenFence[p] + 1 IN
  /\ pc[p] = "write" /\ r.kind = "activate"
  /\ Admitted(r) /\ ~Settled(r.op)
  /\ SelectionUnchanged(p) /\ KeysFree(r.op, Selection, n, next)
  /\ lifecycle[r.profile] \in Activable(r)
  /\ AppendRevision(r.op, Selection, n, next)
  /\ lifecycle' = Supersede(r.profile)
  /\ selection' = [rev |-> n, profile |-> r.profile]
  /\ AdvanceFence(seenFence[p])
  /\ Settle(r, "committed", next, seenRev[p])
  /\ Written(p)
  /\ UNCHANGED <<projection, req, seenFence, seenRev, reply>>

\* Without a replacement the admission slot is left without a selection.
Retire(p) ==
  LET r == req[p]  n == seenRev[p] + 1  next == seenFence[p] + 1 IN
  /\ pc[p] = "write" /\ r.kind = "retire"
  /\ Admitted(r) /\ ~Settled(r.op)
  /\ SelectionUnchanged(p) /\ KeysFree(r.op, Selection, n, next)
  /\ lifecycle[selection.profile] = "active"
  /\ r.profile # NoProfile => lifecycle[r.profile] \in Activable(r)
  /\ AppendRevision(r.op, Selection, n, next)
  /\ lifecycle' = [q \in ProfileRevs |-> IF q = r.profile THEN "active"
                                         ELSE IF q = selection.profile THEN "retired"
                                         ELSE lifecycle[q]]
  /\ selection' = [rev |-> IF r.profile = NoProfile THEN selection.rev ELSE n,
                   profile |-> r.profile]
  /\ AdvanceFence(seenFence[p])
  /\ Settle(r, "committed", next, seenRev[p])
  /\ Written(p)
  /\ UNCHANGED <<projection, req, seenFence, seenRev, reply>>

\* The projection of current revisions is recomputed from the immutable rows.
Rebuild(p) ==
  LET r == req[p]  next == seenFence[p] + 1 IN
  /\ pc[p] = "write" /\ r.kind = "rebuild"
  /\ Admitted(r) /\ ~Settled(r.op)
  /\ current' = [o \in AllOwners |-> LatestRevision(o)]
  /\ projection' = seenFence[p]
  /\ AdvanceFence(seenFence[p])
  /\ Settle(r, "rebuilt", next, 0)
  /\ Written(p)
  /\ UNCHANGED <<revisions, events, selection, lifecycle, req, seenFence, seenRev, reply>>

-------------------------------------------------------------------------------
\* The answer, and the ways a call fails

\* The settled receipt is read back and disclosed.
Answer(p) ==
  /\ pc[p] = "answer" /\ Settled(req[p].op)
  /\ Finish(p, Replay(req[p]))
  /\ UNCHANGED <<tables, req, seenFence, seenRev>>

\* The transaction did not happen: a guard or a unique key aborted it, or the
\* package lock was not obtained in time.  A rebuild has no catch clause.
WriteFails(p) ==
  /\ pc[p] = "write" /\ req[p].kind # "rebuild"
  /\ Goto(p, AfterFailure(req[p]))
  /\ UNCHANGED <<tables, req, seenFence, seenRev, reply>>

\* A read outside a catch clause throws: the attempt answers with the failure.
CallFails(p) ==
  /\ \/ pc[p] \in {"inspect", "receipt", "admission", "read", "target", "answer"}
     \/ pc[p] = "write" /\ req[p].kind = "rebuild"
  /\ Finish(p, IF pc[p] = "inspect" THEN "store_unavailable" ELSE "internal_failure")
  /\ UNCHANGED <<tables, req, seenFence, seenRev>>

\* Did a concurrent attempt settle the operation?  A failed read counts as no.
Raced(p) ==
  LET r == req[p] IN
  /\ pc[p] = "raced"
  /\ \/ Settled(r.op) /\ Finish(p, Replay(r))
     \/ IF r.kind = "revise" THEN Finish(p, "revision_conflict")
                             ELSE Goto(p, "readmit") /\ UNCHANGED reply
  /\ UNCHANGED <<tables, req, seenFence, seenRev>>

\* Has the admission changed?  A failed read counts as a changed Profile.
ReadmitFails(r) == IF r.kind \in ProfileKinds THEN "profile_selection_unavailable"
                                              ELSE "profile_changed"

Readmit(p) ==
  LET r == req[p] IN
  /\ pc[p] = "readmit"
  /\ \/ Finish(p, ReadmitFails(r))
     \/ ~Admitted(r) /\ Finish(p, Denial(r))
     \/ Admitted(r) /\ r.kind \in {"activate", "retire"} /\ Finish(p, "profile_selection_conflict")
     \/ Admitted(r) /\ r.kind = "commit" /\ Goto(p, "reinspect") /\ UNCHANGED reply
     \/ Admitted(r) /\ r.kind = "revise" /\ Goto(p, "raced") /\ UNCHANGED reply
  /\ UNCHANGED <<tables, req, seenFence, seenRev>>

\* A commit re-reads the store to tell a lost comparison from a failure.
Reinspect(p) ==
  /\ pc[p] = "reinspect"
  /\ \/ /\ seenFence' = [seenFence EXCEPT ![p] = fence]
        /\ Goto(p, "reread") /\ UNCHANGED reply
     \/ Finish(p, "commit_execution_failed") /\ UNCHANGED seenFence
  /\ UNCHANGED <<tables, req, seenRev>>

\* A failed read counts as an owner without a revision.
Reread(p) ==
  LET r == req[p] IN
  /\ pc[p] = "reread"
  /\ \E observed \in {current[r.owner], 0} :
       IF observed = r.expected
       THEN Finish(p, "commit_execution_failed") /\ UNCHANGED seenRev
       ELSE /\ seenRev' = [seenRev EXCEPT ![p] = observed]
            /\ Goto(p, "reject") /\ UNCHANGED reply
  /\ UNCHANGED <<tables, req, seenFence>>

-------------------------------------------------------------------------------
\* A rejected commit is settled too

\* The receipt is inserted where there is none, and the insertion of its
\* admission evidence aborts the transaction when there is one.
Rejectable(r) == Admitted(r) /\ ~Settled(r.op)

Reject(p) ==
  LET r == req[p] IN
  /\ pc[p] = "reject"
  /\ Rejectable(r)
  /\ Settle(r, "rejected", seenFence[p] + 1, seenRev[p])
  /\ AdvanceFence(seenFence[p])
  /\ \/ Finish(p, "rejected")
     \/ Goto(p, "refused") /\ UNCHANGED reply
  /\ UNCHANGED <<revisions, current, events, selection, lifecycle, projection,
                 req, seenFence, seenRev>>

RejectFails(p) ==
  /\ pc[p] = "reject"
  /\ Goto(p, "refused")
  /\ UNCHANGED <<tables, req, seenFence, seenRev, reply>>

\* Why the rejection did not settle.  A failed read counts as a changed Profile.
Refuse(p) ==
  /\ pc[p] = "refused"
  /\ Finish(p, "profile_changed") \/
     Finish(p, IF Admitted(req[p]) THEN "commit_execution_failed" ELSE Denial(req[p]))
  /\ UNCHANGED <<tables, req, seenFence, seenRev>>

-------------------------------------------------------------------------------
Read(p) == \/ Inspect(p) \/ LookUpReceipt(p) \/ CheckAdmission(p) \/ ReadOwner(p)
           \/ ReadProfile(p) \/ ReadSelection(p) \/ ReadTarget(p) \/ CheckFence(p)

Transact(p) == Commit(p) \/ Revise(p) \/ Activate(p) \/ Retire(p) \/ Rebuild(p) \/ Reject(p)

Recover(p) == \/ WriteFails(p) \/ CallFails(p) \/ Raced(p) \/ Readmit(p) \/ Reinspect(p)
              \/ Reread(p) \/ RejectFails(p) \/ Refuse(p)

Next == \E p \in Attempts : Read(p) \/ Transact(p) \/ Answer(p) \/ Recover(p)

Spec == Init /\ [][Next]_vars

-------------------------------------------------------------------------------
\* Properties

\* Every table and every attempt holds values of its declared kind.
TablesOK ==
  /\ fence \in Nat
  /\ revisions \subseteq [owner: AllOwners, number: Nat, op: Ops \cup {InitOp}]
  /\ current \in [AllOwners -> Nat]
  /\ events \subseteq [seq: Nat, op: Ops, owner: AllOwners, number: Nat]
  /\ receipts \in [Ops -> Receipt \cup {NoReceipt}]
  /\ selection \in [rev: Nat, profile: ProfileRevs \cup {NoProfile}]
  /\ lifecycle \in [ProfileRevs -> Lifecycles]
  /\ projection \in Nat

AttemptsOK ==
  /\ pc \in [Attempts -> Labels]
  /\ req \in [Attempts -> Request] /\ \A p \in Attempts : req[p] \in Plan[p]
  /\ seenFence \in [Attempts -> Nat]
  /\ seenRev \in [Attempts -> Nat]
  /\ reply \in [Attempts -> Replies]

TypeOK == TablesOK /\ AttemptsOK

\* The owner and revision number that an operation of this request appends.
AppendedNumber(c) == IF c.request.kind \in {"commit", "revise"} THEN c.request.expected + 1
                                                                 ELSE c.observed + 1

\* An operation has one outcome, and its rows agree with it: a committed one
\* has exactly one revision and one event, at the receipt's fence; a rejected
\* or rebuilt one, and one without a receipt, has none.
OneOutcomePerOperation ==
  \A op \in Ops :
    LET c == receipts[op]
        committed == Settled(op) /\ c.outcome = "committed"
    IN /\ {w \in revisions : w.op = op} =
            IF committed
            THEN {[owner |-> c.request.owner, number |-> AppendedNumber(c), op |-> op]} ELSE {}
       /\ {e \in events : e.op = op} =
            IF committed
            THEN {[seq |-> c.fence, op |-> op, owner |-> c.request.owner,
                   number |-> AppendedNumber(c)]} ELSE {}

\* The revisions of an owner are numbered 1, 2, ... without gap or repetition,
\* and owner_current is the last of them, however many clients revise it.
HistoryIsContiguous ==
  \A o \in AllOwners :
    LET rows == {w \in revisions : w.owner = o}
    IN /\ {w.number : w \in rows} = 1..current[o]
       /\ \A v, w \in rows : v.number = w.number => v = w

\* A client that was told of an outcome was told the durable outcome of its own
\* request, never that of another request with the same operation identity.
AnswersMatchReceipts ==
  \A p \in Attempts : reply[p] \in Outcomes =>
    /\ Settled(req[p].op)
    /\ receipts[req[p].op].request = req[p]
    /\ receipts[req[p].op].outcome = reply[p]

\* What is settled is settled once, and what a client is told is what was settled.
OutcomesAreTrue == OneOutcomePerOperation /\ AnswersMatchReceipts

\* Concurrent activations and retirements leave exactly one active Profile
\* revision, the selected one, whose selection is the last of its history; or
\* none, when the slot was retired without replacement.
OnlySelectedProfileActive ==
  /\ {q \in ProfileRevs : lifecycle[q] = "active"} = {selection.profile} \ {NoProfile}
  /\ selection.profile # NoProfile => current[Selection] = selection.rev

\* Nothing is settled under an admission binding that was replaced between the
\* check of the binding and the transaction.
NothingSettlesUnderAReplacedSelection ==
  [][\A op \in Ops : receipts'[op] # receipts[op] =>
       /\ receipts'[op].request.binding = selection.rev
       /\ receipts'[op].request.kind \in Admits[selection.profile]]_vars

\* One selection governs at any time, and whatever is settled is settled under it, in spite
\* of activations and retirements between a check and its transaction (profile/index.mjs:210).
SelectionGoverns == []OnlySelectedProfileActive /\ NothingSettlesUnderAReplacedSelection

\* The recomputed projection of current revisions is the one there was: a
\* rebuild has no effect on canonical state, whatever it races with.
RebuildIsNeutral == [][revisions' = revisions => current' = current]_vars

\* The event of a commit follows every event of the owner's earlier revisions
\* in sequence, and no event is numbered beyond the fence, so an observer who
\* has read up to the fence has seen the owner's commits in order.
EventsFollowHistory ==
  /\ \A e \in events : e.seq <= fence
  /\ \A e, f \in events :
       e.owner = f.owner /\ e.number < f.number /\ receipts[f.op].request.kind = "commit"
         => e.seq < f.seq

-------------------------------------------------------------------------------
\* What the store promises: a ledger of operations

OpOf(o, n) == (CHOOSE row \in revisions : row.owner = o /\ row.number = n).op

Ledger == INSTANCE OperationLedger WITH
  Request <- UNION {Plan[p] : p \in Attempts},
  history <- [o \in AllOwners |-> [n \in 1..current[o] |-> OpOf(o, n)]],
  outcome <- [op \in Ops |-> IF Settled(op) THEN receipts[op].outcome ELSE "none"],
  meaning <- [op \in Ops |-> IF Settled(op) THEN {receipts[op].request} ELSE {}]

\* Every transaction of the store is one step of the ledger, or none: whatever
\* the reads before it saw, an operation takes effect once, at the end of the
\* history its request names and under the selection it was bound to.
ImplementsLedger == Ledger!Init /\ [][Ledger!Next]_(Ledger!ledger)

-------------------------------------------------------------------------------
\* What messages and documents of the repository say, and the store does not do

\* A reconciliation snapshot holds the events up to the last sequence there is
\* when it begins.  It is called immutable, but a Profile operation that works
\* from an older fence inserts an event below it.
SnapshotEvents == LET last == Max({0} \cup {e.seq : e \in events})
                  IN {e \in events' : e.seq <= last}

ImmutableSnapshots == [][SnapshotEvents = events]_vars

\* A refusal that the command line reports as definitive is one: at that time
\* the operation is not committed.
Refused(p) == reply[p] \notin Refusals /\ reply'[p] \in Refusals

RefusalIsDefinitive ==
  [][\A p \in Attempts : Refused(p) /\ Settled(req[p].op) /\ receipts[req[p].op].request = req[p]
       => receipts[req[p].op].outcome # "committed"]_vars
===============================================================================
