-------------------------- MODULE SuccessorStoreProofs --------------------------
(***************************************************************************)
(* Proofs about SuccessorStore, for any attempts, operations, owners,      *)
(* Profile revisions and plans.  The order of the results:                 *)
(*   - types and histories, proved together: a rebuild keeps the type of   *)
(*     owner_current only because the numbers of an owner's rows are       *)
(*     1..current, so that their maximum is that number;                   *)
(*   - a settled receipt stays, hence what a client was told stays true;   *)
(*   - the rows of an operation agree with its receipt, since they are     *)
(*     written in one transaction that requires it to be unsettled;        *)
(*   - one active Profile; nothing settles under a replaced selection;     *)
(*   - the events of an owner's commits are in the order of its history,   *)
(*     since no fence that was read is ahead of the fence;                 *)
(*   - every step is a step of the ledger of OperationLedger, or none.     *)
(***************************************************************************)
EXTENDS SuccessorStore, SequenceTheorems, TLAPS

USE DEF AllOwners

\* The store that bootstrap leaves is well typed.
LEMMA TypeInit == Init => TypeOK
<1> SUFFICES ASSUME Init PROVE TypeOK
  OBVIOUS
<1>1. TablesOK
  BY ConstantAssumption DEF Init, TablesOK, Lifecycles
<1>2. req \in [Attempts -> Request] /\ \A p \in Attempts : req[p] \in Plan[p]
  BY RequestAssumption DEF Init
<1>3. AttemptsOK
  BY <1>2 DEF Init, AttemptsOK, Labels, Replies
<1> QED
  BY <1>1, <1>3 DEF TypeOK

\* What an attempt carries is a request of its plan, of the kind and owner that go together.
LEMMA RequestFacts ==
  ASSUME TypeOK, NEW p \in Attempts
  PROVE  /\ req[p] \in Request
         /\ req[p].op \in Ops /\ req[p].kind \in Kinds /\ req[p].owner \in AllOwners
         /\ req[p].expected \in Nat /\ req[p].binding \in Nat
         /\ req[p].profile \in ProfileRevs \cup {NoProfile}
         /\ req[p].kind \in {"commit", "revise"} => req[p].owner \in Owners
         /\ req[p].kind \in {"activate", "retire", "rebuild"} => req[p].owner = Selection
         /\ req[p].kind \in {"revise", "activate"} => req[p].profile \in ProfileRevs
         /\ seenFence[p] \in Nat /\ seenRev[p] \in Nat
<1>1. req[p] \in Request /\ req[p] \in Plan[p] /\ seenFence[p] \in Nat /\ seenRev[p] \in Nat
  BY DEF TypeOK, AttemptsOK
<1>2. /\ req[p].op \in Ops /\ req[p].kind \in Kinds /\ req[p].owner \in AllOwners
      /\ req[p].expected \in Nat /\ req[p].binding \in Nat
      /\ req[p].profile \in ProfileRevs \cup {NoProfile}
  BY <1>1 DEF Request
<1> QED
  BY <1>1, <1>2, RequestAssumption

\* A settled receipt is a receipt.
LEMMA ReceiptFacts ==
  ASSUME TypeOK, NEW op \in Ops, Settled(op)
  PROVE  /\ receipts[op] \in Receipt
         /\ receipts[op].request \in Request /\ receipts[op].outcome \in Outcomes
         /\ receipts[op].fence \in Nat /\ receipts[op].observed \in Nat
  BY DEF TypeOK, TablesOK, Settled, Receipt

\* Moving an attempt to a label keeps pc well typed.
LEMMA GotoType ==
  ASSUME pc \in [Attempts -> Labels], NEW p \in Attempts, NEW l \in Labels, Goto(p, l)
  PROVE  pc' \in [Attempts -> Labels]
  BY DEF Goto

\* Finishing an attempt with an answer keeps pc and reply well typed.
LEMMA FinishType ==
  ASSUME pc \in [Attempts -> Labels], reply \in [Attempts -> Replies],
         NEW p \in Attempts, NEW answer \in Replies, Finish(p, answer)
  PROVE  pc' \in [Attempts -> Labels] /\ reply' \in [Attempts -> Replies]
  BY DEF Finish, Goto, Labels

\* A replay of a settled receipt is one of the replies.
LEMMA ReplayType ==
  ASSUME TypeOK, NEW r \in Request, Settled(r.op)
  PROVE  Replay(r) \in Replies
<1>1. r.op \in Ops
  BY DEF Request
<1> QED
  BY <1>1, ReceiptFacts DEF Replay, Replies, Refusals

\* A denied admission is one of the refusals.
LEMMA DenialType ==
  ASSUME NEW r
  PROVE  Denial(r) \in Refusals
  BY DEF Denial, Refusals

\* A step that leaves the tables and the requests alone keeps the types when it
\* keeps those of the variables of the attempts.
LEMMA LocalStep ==
  ASSUME TypeOK, UNCHANGED <<tables, req>>,
         pc' \in [Attempts -> Labels], reply' \in [Attempts -> Replies],
         seenFence' \in [Attempts -> Nat], seenRev' \in [Attempts -> Nat]
  PROVE  TypeOK'
<1>1. TablesOK'
  BY DEF TypeOK, TablesOK, tables
<1>2. AttemptsOK'
  BY DEF TypeOK, AttemptsOK
<1> QED
  BY <1>1, <1>2 DEF TypeOK

\* The reads before the transaction keep the types.
LEMMA TypeReads ==
  ASSUME TypeOK, NEW p \in Attempts, Read(p)
  PROVE  TypeOK'
<1> USE RequestFacts, LocalStep DEF Labels, Replies, Refusals
<1>t. /\ pc \in [Attempts -> Labels] /\ reply \in [Attempts -> Replies]
      /\ seenFence \in [Attempts -> Nat] /\ seenRev \in [Attempts -> Nat]
      /\ fence \in Nat /\ current \in [AllOwners -> Nat]
  BY DEF TypeOK, TablesOK, AttemptsOK
<1>1. CASE Inspect(p)
  BY <1>t, <1>1 DEF Inspect, Goto
<1>2. CASE LookUpReceipt(p)
  BY <1>t, <1>2, ReplayType DEF LookUpReceipt, Goto, Finish
<1>3. CASE CheckAdmission(p)
  BY <1>t, <1>3, DenialType DEF CheckAdmission, Goto, Finish
<1>4. CASE ReadOwner(p)
  BY <1>t, <1>4 DEF ReadOwner, Goto
<1>5. CASE ReadProfile(p)
  BY <1>t, <1>5 DEF ReadProfile, Goto, Finish
<1>6. CASE ReadSelection(p)
  BY <1>t, <1>6 DEF ReadSelection, Goto, Finish
<1>7. CASE ReadTarget(p)
  BY <1>t, <1>7 DEF ReadTarget, Goto, Finish
<1>8. CASE CheckFence(p)
  BY <1>t, <1>8 DEF CheckFence, Goto, Finish
<1> QED
  BY <1>1, <1>2, <1>3, <1>4, <1>5, <1>6, <1>7, <1>8 DEF Read

\* The statements of a transaction keep the types of the tables they write.
LEMMA AdvanceFenceType ==
  ASSUME fence \in Nat, NEW seen \in Nat, AdvanceFence(seen)
  PROVE  fence' \in Nat
  BY DEF AdvanceFence

\* Appending a revision keeps its three tables well typed.
LEMMA AppendRevisionType ==
  ASSUME TablesOK, NEW op \in Ops, NEW o \in AllOwners, NEW n \in Nat, NEW seq \in Nat,
         AppendRevision(op, o, n, seq)
  PROVE  /\ revisions' \subseteq [owner: AllOwners, number: Nat, op: Ops \cup {InitOp}]
         /\ current' \in [AllOwners -> Nat]
         /\ events' \subseteq [seq: Nat, op: Ops, owner: AllOwners, number: Nat]
  BY DEF TablesOK, AppendRevision

\* Settling an operation keeps the receipts well typed.
LEMMA SettleType ==
  ASSUME TablesOK, NEW r \in Request, NEW outcome \in Outcomes, NEW at \in Nat,
         NEW observed \in Nat, Settle(r, outcome, at, observed)
  PROVE  receipts' \in [Ops -> Receipt \cup {NoReceipt}]
  BY DEF TablesOK, Settle, Receipt

\* A transaction leaves its attempt at a label.
LEMMA WrittenType ==
  ASSUME pc \in [Attempts -> Labels], NEW p \in Attempts, Written(p)
  PROVE  pc' \in [Attempts -> Labels]
  BY DEF Written, Goto, AfterFailure, Labels

\* The latest revision of an owner is a number.
LEMMA LatestType ==
  ASSUME TablesOK, NEW o, {row.number : row \in {w \in revisions : w.owner = o}} = 1..current[o],
         o \in AllOwners
  PROVE  LatestRevision(o) = current[o]
<1> DEFINE N == {0} \cup {row.number : row \in {w \in revisions : w.owner = o}}
<1>1. current[o] \in Nat
  BY DEF TablesOK
<1>2. N = 0..current[o]
  BY <1>1
<1>3. current[o] \in N /\ \A y \in N : current[o] >= y
  BY <1>1, <1>2
<1>4. \A x \in N : (\A y \in N : x >= y) => x = current[o]
  BY <1>1, <1>2
<1>5. LatestRevision(o) = CHOOSE x \in N : \A y \in N : x >= y
  BY DEF LatestRevision, Max
<1> HIDE DEF N
<1> QED
  BY <1>3, <1>4, <1>5

\* Recomputing the current revisions from a contiguous history changes nothing.
LEMMA RebuildNeutral ==
  ASSUME TypeOK, HistoryIsContiguous,
         current' = [o \in AllOwners |-> LatestRevision(o)]
  PROVE  current' = current
<1>1. \A o \in AllOwners : LatestRevision(o) = current[o]
  BY LatestType DEF TypeOK, HistoryIsContiguous
<1> QED
  BY <1>1 DEF TypeOK, TablesOK

\* The tables a transaction writes stay of their types, and so do the labels.
LEMMA TypeTransact ==
  ASSUME TypeOK, HistoryIsContiguous, NEW p \in Attempts, Transact(p)
  PROVE  TypeOK'
<1> DEFINE r == req[p]
           next == seenFence[p] + 1
<1>t. /\ TablesOK /\ AttemptsOK
      /\ pc \in [Attempts -> Labels] /\ reply \in [Attempts -> Replies]
      /\ fence \in Nat /\ current \in [AllOwners -> Nat]
      /\ selection.rev \in Nat /\ selection.profile \in ProfileRevs \cup {NoProfile}
      /\ lifecycle \in [ProfileRevs -> Lifecycles] /\ projection \in Nat
  BY DEF TypeOK, TablesOK, AttemptsOK
<1>r. /\ r \in Request /\ r.op \in Ops /\ r.owner \in AllOwners
      /\ r.expected + 1 \in Nat /\ next \in Nat /\ seenFence[p] \in Nat
      /\ seenRev[p] \in Nat /\ seenRev[p] + 1 \in Nat
      /\ r.profile \in ProfileRevs \cup {NoProfile}
      /\ r.kind \in {"revise", "activate"} => r.profile \in ProfileRevs
  BY RequestFacts
<1>o. {"committed", "rejected", "rebuilt"} \subseteq Outcomes
  BY DEF Outcomes
<1> HIDE DEF r, next
<1>a. ASSUME pc' \in [Attempts -> Labels], reply' \in [Attempts -> Replies],
             UNCHANGED <<req, seenFence, seenRev>>
      PROVE  AttemptsOK'
  BY <1>t, <1>a DEF AttemptsOK
<1>1. CASE Commit(p)
  <2>1. fence' \in Nat
    BY <1>1, <1>t, <1>r, AdvanceFenceType DEF Commit
  <2>2. AppendRevision(r.op, r.owner, r.expected + 1, next) /\ Settle(r, "committed", next, seenRev[p])
    BY <1>1 DEF Commit, r, next
  <2>3. TablesOK'
    BY <1>1, <1>t, <1>r, <1>o, <2>1, <2>2, AppendRevisionType, SettleType DEF Commit, TablesOK
  <2>4. AttemptsOK'
    BY <1>1, <1>t, <1>a, WrittenType DEF Commit
  <2> QED
    BY <2>3, <2>4 DEF TypeOK
<1>2. CASE Revise(p)
  <2>1. fence' \in Nat
    BY <1>2, <1>t, <1>r, AdvanceFenceType DEF Revise
  <2>2. AppendRevision(r.op, r.owner, r.expected + 1, next) /\ Settle(r, "committed", next, seenRev[p])
    BY <1>2 DEF Revise, r, next
  <2>3. lifecycle' \in [ProfileRevs -> Lifecycles]
    BY <1>2, <1>t DEF Revise, Lifecycles
  <2>4. TablesOK'
    BY <1>2, <1>t, <1>r, <1>o, <2>1, <2>2, <2>3, AppendRevisionType, SettleType DEF Revise, TablesOK
  <2>5. AttemptsOK'
    BY <1>2, <1>t, <1>a, WrittenType DEF Revise
  <2> QED
    BY <2>4, <2>5 DEF TypeOK
<1>3. CASE Activate(p)
  <2>1. fence' \in Nat
    BY <1>3, <1>t, <1>r, AdvanceFenceType DEF Activate
  <2>2. /\ AppendRevision(r.op, Selection, seenRev[p] + 1, next)
        /\ Settle(r, "committed", next, seenRev[p])
    BY <1>3 DEF Activate, r, next
  <2>3. lifecycle' \in [ProfileRevs -> Lifecycles]
    BY <1>3, <1>t DEF Activate, Supersede, Lifecycles
  <2>4. selection' \in [rev: Nat, profile: ProfileRevs \cup {NoProfile}]
    BY <1>3, <1>r DEF Activate, r
  <2>5. TablesOK'
    BY <1>3, <1>t, <1>r, <1>o, <2>1, <2>2, <2>3, <2>4, AppendRevisionType, SettleType
       DEF Activate, TablesOK
  <2>6. AttemptsOK'
    BY <1>3, <1>t, <1>a, WrittenType DEF Activate
  <2> QED
    BY <2>5, <2>6 DEF TypeOK
<1>4. CASE Retire(p)
  <2>1. fence' \in Nat
    BY <1>4, <1>t, <1>r, AdvanceFenceType DEF Retire
  <2>2. /\ AppendRevision(r.op, Selection, seenRev[p] + 1, next)
        /\ Settle(r, "committed", next, seenRev[p])
    BY <1>4 DEF Retire, r, next
  <2>3. lifecycle' \in [ProfileRevs -> Lifecycles]
    BY <1>4, <1>t DEF Retire, Lifecycles
  <2>4. selection' \in [rev: Nat, profile: ProfileRevs \cup {NoProfile}]
    BY <1>4, <1>t, <1>r DEF Retire, r
  <2>5. TablesOK'
    BY <1>4, <1>t, <1>r, <1>o, <2>1, <2>2, <2>3, <2>4, AppendRevisionType, SettleType
       DEF Retire, TablesOK
  <2>6. AttemptsOK'
    BY <1>4, <1>t, <1>a, WrittenType DEF Retire
  <2> QED
    BY <2>5, <2>6 DEF TypeOK
<1>5. CASE Rebuild(p)
  <2>1. fence' \in Nat
    BY <1>5, <1>t, <1>r, AdvanceFenceType DEF Rebuild
  <2>2. Settle(r, "rebuilt", next, 0) /\ current' = current /\ projection' \in Nat
    BY <1>5, <1>r, RebuildNeutral DEF Rebuild, r, next
  <2>3. TablesOK'
    BY <1>5, <1>t, <1>r, <1>o, <2>1, <2>2, SettleType DEF Rebuild, TablesOK
  <2>4. AttemptsOK'
    BY <1>5, <1>t, <1>a, WrittenType DEF Rebuild
  <2> QED
    BY <2>3, <2>4 DEF TypeOK
<1>6. CASE Reject(p)
  <2>1. fence' \in Nat
    BY <1>6, <1>t, <1>r, AdvanceFenceType DEF Reject
  <2>2. Settle(r, "rejected", next, seenRev[p])
    BY <1>6 DEF Reject, r, next
  <2>3. TablesOK'
    BY <1>6, <1>t, <1>r, <1>o, <2>1, <2>2, SettleType DEF Reject, TablesOK
  <2>4. pc' \in [Attempts -> Labels] /\ reply' \in [Attempts -> Replies]
    BY <1>6, <1>t, <1>o DEF Reject, Goto, Finish, Labels, Replies
  <2>5. AttemptsOK'
    BY <1>6, <1>t, <1>a, <2>4 DEF Reject
  <2> QED
    BY <2>3, <2>5 DEF TypeOK
<1> QED
  BY <1>1, <1>2, <1>3, <1>4, <1>5, <1>6 DEF Transact

\* The catch clauses, and the answer, keep the types.
LEMMA TypeRecover ==
  ASSUME TypeOK, NEW p \in Attempts, Recover(p) \/ Answer(p)
  PROVE  TypeOK'
<1> USE RequestFacts, LocalStep DEF Labels, Replies, Refusals
<1>t. /\ pc \in [Attempts -> Labels] /\ reply \in [Attempts -> Replies]
      /\ seenFence \in [Attempts -> Nat] /\ seenRev \in [Attempts -> Nat]
      /\ fence \in Nat /\ current \in [AllOwners -> Nat]
  BY DEF TypeOK, TablesOK, AttemptsOK
<1>1. CASE WriteFails(p)
  BY <1>t, <1>1 DEF WriteFails, Goto, AfterFailure
<1>2. CASE CallFails(p)
  BY <1>t, <1>2 DEF CallFails, Goto, Finish
<1>3. CASE Raced(p)
  BY <1>t, <1>3, ReplayType DEF Raced, Goto, Finish
<1>4. CASE Readmit(p)
  BY <1>t, <1>4, DenialType DEF Readmit, ReadmitFails, Goto, Finish
<1>5. CASE Reinspect(p)
  BY <1>t, <1>5 DEF Reinspect, Goto, Finish
<1>6. CASE Reread(p)
  BY <1>t, <1>6 DEF Reread, Goto, Finish
<1>7. CASE RejectFails(p)
  BY <1>t, <1>7 DEF RejectFails, Goto
<1>8. CASE Refuse(p)
  BY <1>t, <1>8, DenialType DEF Refuse, Goto, Finish
<1>9. CASE Answer(p)
  BY <1>t, <1>9, ReplayType DEF Answer, Goto, Finish
<1> QED
  BY <1>1, <1>2, <1>3, <1>4, <1>5, <1>6, <1>7, <1>8, <1>9 DEF Recover

-------------------------------------------------------------------------------
\* The history of an owner

\* The revision numbers of a set of rows and one more.
LEMMA NumbersOfUnion ==
  ASSUME NEW rows, NEW row
  PROVE  /\ {w.number : w \in rows \cup {row}} = {w.number : w \in rows} \cup {row.number}
         /\ {w.number : w \in {row}} = {row.number}
  OBVIOUS

\* Appending the revision after the current one keeps the history contiguous.
LEMMA AppendKeepsHistory ==
  ASSUME TablesOK, HistoryIsContiguous, NEW op, NEW o \in AllOwners, NEW n \in Nat, NEW seq,
         current[o] + 1 = n, AppendRevision(op, o, n, seq)
  PROVE  HistoryIsContiguous'
<1> DEFINE row == [owner |-> o, number |-> n, op |-> op]
<1>1. revisions' = revisions \cup {row} /\ current' = [current EXCEPT ![o] = n]
  BY DEF AppendRevision
<1>2. SUFFICES ASSUME NEW u \in AllOwners
               PROVE  /\ {w.number : w \in {w \in revisions' : w.owner = u}} = 1..current'[u]
                      /\ \A v, w \in {w \in revisions' : w.owner = u} :
                           v.number = w.number => v = w
  BY DEF HistoryIsContiguous
<1>3. /\ current \in [AllOwners -> Nat]
      /\ {w.number : w \in {w \in revisions : w.owner = u}} = 1..current[u]
      /\ \A v, w \in {w \in revisions : w.owner = u} : v.number = w.number => v = w
  BY DEF TablesOK, HistoryIsContiguous
<1>4. CASE u = o
  <2>1. {w \in revisions' : w.owner = u} = {w \in revisions : w.owner = u} \cup {row}
    BY <1>1, <1>4
  <2>2. {w.number : w \in {w \in revisions' : w.owner = u}} = 1..current[u] \cup {n}
    <3> DEFINE before == {w \in revisions : w.owner = u}
               after  == {w \in revisions' : w.owner = u}
    <3>1. after = before \cup {row} /\ {w.number : w \in before} = 1..current[u] /\ row.number = n
      BY <2>1, <1>3
    <3> HIDE DEF before, after, row
    <3>2. {w.number : w \in after} = {w.number : w \in before} \cup {row.number}
      BY <3>1, NumbersOfUnion
    <3> QED
      BY <3>1, <3>2 DEF after
  <2>3. current'[u] = n /\ current[u] + 1 = n /\ current[u] \in Nat
    BY <1>1, <1>3, <1>4
  <2>4. 1..current[u] \cup {n} = 1..current'[u]
    BY <2>3
  <2>5. \A w \in {w \in revisions : w.owner = u} : w.number # n
    BY <1>3, <2>3
  <2> QED
    BY <2>1, <2>2, <2>4, <2>5, <1>3
<1>5. CASE u # o
  <2>1. {w \in revisions' : w.owner = u} = {w \in revisions : w.owner = u}
    BY <1>1, <1>5
  <2>2. current'[u] = current[u]
    BY <1>1, <1>3, <1>5
  <2> QED
    BY <2>1, <2>2, <1>3
<1> QED
  BY <1>4, <1>5

\* Every step keeps the histories contiguous.
LEMMA HistoryStep ==
  ASSUME TypeOK, HistoryIsContiguous, [Next]_vars
  PROVE  HistoryIsContiguous'
<1>1. ASSUME UNCHANGED <<revisions, current>>
      PROVE  HistoryIsContiguous'
  BY <1>1 DEF HistoryIsContiguous
<1>2. CASE UNCHANGED vars
  BY <1>1, <1>2 DEF vars, tables
<1>3. ASSUME NEW p \in Attempts, Read(p) \/ Recover(p) \/ Answer(p)
      PROVE  HistoryIsContiguous'
  <2>1. UNCHANGED tables
    BY <1>3 DEF Read, Inspect, LookUpReceipt, CheckAdmission, ReadOwner, ReadProfile,
       ReadSelection, ReadTarget, CheckFence, Recover, WriteFails, CallFails, Raced, Readmit,
       Reinspect, Reread, RejectFails, Refuse, Answer
  <2> QED
    BY <1>1, <2>1 DEF tables
<1>4. ASSUME NEW p \in Attempts, Transact(p)
      PROVE  HistoryIsContiguous'
  <2>t. TablesOK /\ Selection \in AllOwners
    BY DEF TypeOK
  <2>r. /\ req[p].owner \in AllOwners /\ req[p].expected \in Nat /\ seenRev[p] \in Nat
        /\ req[p].expected + 1 \in Nat /\ seenRev[p] + 1 \in Nat
    BY RequestFacts
  <2>1. CASE Commit(p) \/ Revise(p)
    <3>1. /\ current[req[p].owner] + 1 = req[p].expected + 1
          /\ AppendRevision(req[p].op, req[p].owner, req[p].expected + 1, seenFence[p] + 1)
      BY <2>1 DEF Commit, Revise, ExpectsCurrent
    <3> QED
      BY <3>1, <2>t, <2>r, AppendKeepsHistory
  <2>2. CASE Activate(p) \/ Retire(p)
    <3>1. /\ current[Selection] + 1 = seenRev[p] + 1
          /\ AppendRevision(req[p].op, Selection, seenRev[p] + 1, seenFence[p] + 1)
      BY <2>2 DEF Activate, Retire, SelectionUnchanged, ExpectsCurrent
    <3> QED
      BY <3>1, <2>t, <2>r, AppendKeepsHistory
  <2>3. CASE Rebuild(p)
    BY <2>3, <1>1, RebuildNeutral DEF Rebuild
  <2>4. CASE Reject(p)
    BY <2>4, <1>1 DEF Reject
  <2> QED
    BY <1>4, <2>1, <2>2, <2>3, <2>4 DEF Transact
<1> QED
  BY <1>2, <1>3, <1>4 DEF Next

\* The history that bootstrap leaves is contiguous.
LEMMA HistoryInit == Init => HistoryIsContiguous
<1> SUFFICES ASSUME Init, NEW o \in AllOwners
             PROVE  /\ {w.number : w \in {w \in revisions : w.owner = o}} = 1..current[o]
                    /\ \A v, w \in {w \in revisions : w.owner = o} : v.number = w.number => v = w
  BY DEF HistoryIsContiguous
<1>1. revisions = {[owner |-> u, number |-> 1, op |-> InitOp] : u \in {Selection, InitialOwner}}
  BY DEF Init
<1>2. CASE o \in {Selection, InitialOwner}
  <2>1. {w \in revisions : w.owner = o} = {[owner |-> o, number |-> 1, op |-> InitOp]}
    BY <1>1, <1>2
  <2>2. {w.number : w \in {w \in revisions : w.owner = o}} = {1}
    BY <2>1, NumbersOfUnion
  <2>3. current[o] = 1
    BY <1>2 DEF Init
  <2> QED
    BY <2>1, <2>2, <2>3
<1>3. CASE o \notin {Selection, InitialOwner}
  <2>1. {w \in revisions : w.owner = o} = {}
    BY <1>1, <1>3
  <2>2. current[o] = 0
    BY <1>3 DEF Init
  <2> QED
    BY <2>1, <2>2
<1> QED
  BY <1>2, <1>3

\* Every table and every attempt holds values of its kind.  That a rebuild keeps
\* the type of owner_current needs the contiguity of the histories it reads.
THEOREM TypeCorrect == Spec => []TypeOK
<1>1. Init => TypeOK /\ HistoryIsContiguous
  BY TypeInit, HistoryInit
<1>2. TypeOK /\ HistoryIsContiguous /\ [Next]_vars => TypeOK' /\ HistoryIsContiguous'
  <2> SUFFICES ASSUME TypeOK, HistoryIsContiguous, [Next]_vars
               PROVE  TypeOK' /\ HistoryIsContiguous'
    OBVIOUS
  <2>1. ASSUME UNCHANGED vars PROVE TypeOK'
    BY <2>1 DEF TypeOK, TablesOK, AttemptsOK, vars, tables, local
  <2>2. ASSUME Next PROVE TypeOK'
    BY <2>2, TypeReads, TypeTransact, TypeRecover DEF Next
  <2> QED
    BY <2>1, <2>2, HistoryStep
<1> QED
  BY <1>1, <1>2, PTL DEF Spec

\* However many clients revise an owner, with whatever they read before, its
\* revisions are numbered without gap and its current revision is the last.
THEOREM HistoryCorrect == Spec => []HistoryIsContiguous
<1>1. Init => HistoryIsContiguous
  BY HistoryInit
<1>2. TypeOK /\ HistoryIsContiguous /\ [Next]_vars => HistoryIsContiguous'
  BY HistoryStep
<1> QED
  BY <1>1, <1>2, TypeCorrect, PTL DEF Spec

\* A rebuild of the projection of current revisions has no effect on it.
THEOREM RebuildHasNoEffect == Spec => RebuildIsNeutral
<1>1. TypeOK /\ HistoryIsContiguous /\ [Next]_vars => [revisions' = revisions => current' = current]_vars
  <2> SUFFICES ASSUME TypeOK, HistoryIsContiguous, Next, revisions' = revisions
               PROVE  current' = current
    OBVIOUS
  <2>1. PICK p \in Attempts : Read(p) \/ Transact(p) \/ Answer(p) \/ Recover(p)
    BY DEF Next
  <2>2. CASE Read(p) \/ Recover(p) \/ Answer(p)
    BY <2>2 DEF tables, Read, Inspect, LookUpReceipt, CheckAdmission, ReadOwner, ReadProfile,
       ReadSelection, ReadTarget, CheckFence, Recover, WriteFails, CallFails, Raced, Readmit,
       Reinspect, Reread, RejectFails, Refuse, Answer
  <2>3. ASSUME NEW op, NEW o, NEW n, NEW seq, KeysFree(op, o, n, seq), AppendRevision(op, o, n, seq)
        PROVE  FALSE
    <3>1. [owner |-> o, number |-> n, op |-> op] \in revisions
      BY <2>3 DEF AppendRevision
    <3> QED
      BY <2>3, <3>1 DEF KeysFree
  <2>4. CASE Commit(p) \/ Revise(p) \/ Activate(p) \/ Retire(p)
    BY <2>3, <2>4 DEF Commit, Revise, Activate, Retire
  <2>5. CASE Rebuild(p)
    BY <2>5, RebuildNeutral DEF Rebuild
  <2>6. CASE Reject(p)
    BY <2>6 DEF Reject
  <2> QED
    BY <2>1, <2>2, <2>4, <2>5, <2>6 DEF Transact
<1> QED
  BY <1>1, TypeCorrect, HistoryCorrect, PTL DEF Spec, RebuildIsNeutral

-------------------------------------------------------------------------------
\* Receipts and answers

\* A settled receipt is never replaced.
LEMMA ReceiptsStay ==
  ASSUME TypeOK, Next
  PROVE  \A op \in Ops : Settled(op) => receipts'[op] = receipts[op]
<1>1. PICK p \in Attempts : Read(p) \/ Transact(p) \/ Answer(p) \/ Recover(p)
  BY DEF Next
<1>2. CASE Read(p) \/ Recover(p) \/ Answer(p)
  BY <1>2 DEF tables, Read, Inspect, LookUpReceipt, CheckAdmission, ReadOwner, ReadProfile,
     ReadSelection, ReadTarget, CheckFence, Recover, WriteFails, CallFails, Raced, Readmit,
     Reinspect, Reread, RejectFails, Refuse, Answer
<1>3. CASE Transact(p)
  <2>1. ~Settled(req[p].op) /\ \E outcome, at, observed : Settle(req[p], outcome, at, observed)
    BY <1>3 DEF Transact, Commit, Revise, Activate, Retire, Rebuild, Reject, Rejectable
  <2>2. receipts \in [Ops -> Receipt \cup {NoReceipt}] /\ req[p].op \in Ops
    BY RequestFacts DEF TypeOK, TablesOK
  <2> QED
    BY <2>1, <2>2 DEF Settle, Settled
<1> QED
  BY <1>1, <1>2, <1>3

\* What an attempt may be told in a step: nothing new, a refusal, or the
\* outcome that its request is settled with.
Truthful(p) ==
  \/ reply'[p] = reply[p]
  \/ reply'[p] \notin Outcomes
  \/ /\ receipts'[req[p].op] # NoReceipt
     /\ receipts'[req[p].op].request = req[p]
     /\ receipts'[req[p].op].outcome = reply'[p]

\* Every step keeps what an attempt was told true of its receipt.
LEMMA AnswersTruthful ==
  ASSUME TypeOK, Next, NEW q \in Attempts
  PROVE  Truthful(q)
<1>1. PICK p \in Attempts : Read(p) \/ Transact(p) \/ Answer(p) \/ Recover(p)
  BY DEF Next
<1>t. reply \in [Attempts -> Replies] /\ req \in [Attempts -> Request]
  BY DEF TypeOK, AttemptsOK
<1>d. \A r : Denial(r) \in Refusals
  BY DenialType
<1>n. \A x \in Refusals : x \notin Outcomes
  BY DEF Refusals, Outcomes
<1>2. ASSUME NEW answer, Finish(p, answer), answer \in Refusals
      PROVE  Truthful(q)
  BY <1>2, <1>t, <1>n DEF Finish, Truthful
<1>3. ASSUME Finish(p, Replay(req[p])), Settled(req[p].op), UNCHANGED receipts
      PROVE  Truthful(q)
  BY <1>3, <1>t DEF Finish, Truthful, Replay, Settled, Outcomes
<1>4. ASSUME UNCHANGED reply
      PROVE  Truthful(q)
  BY <1>4 DEF Truthful
<1>5. CASE Read(p)
  BY <1>5, <1>2, <1>3, <1>4, <1>d
     DEF tables, Read, Inspect, LookUpReceipt, CheckAdmission, ReadOwner, ReadProfile,
         ReadSelection, ReadTarget, CheckFence, Refusals
<1>6. CASE Recover(p)
  BY <1>6, <1>2, <1>3, <1>4, <1>d
     DEF tables, Recover, WriteFails, CallFails, Raced, Readmit, ReadmitFails, Reinspect, Reread,
         RejectFails, Refuse, Refusals
<1>7. CASE Answer(p)
  BY <1>7, <1>3 DEF Answer, tables
<1>8. CASE Commit(p) \/ Revise(p) \/ Activate(p) \/ Retire(p) \/ Rebuild(p)
  BY <1>8, <1>4 DEF Commit, Revise, Activate, Retire, Rebuild
<1>9. CASE Reject(p)
  <2>1. CASE UNCHANGED reply
    BY <2>1, <1>4
  <2>2. CASE Finish(p, "rejected")
    <3>1. Settle(req[p], "rejected", seenFence[p] + 1, seenRev[p])
      BY <1>9 DEF Reject
    <3>2. /\ req[p] \in Request /\ req[p].op \in Ops
          /\ seenFence[p] + 1 \in Nat /\ seenRev[p] \in Nat
      BY RequestFacts
    <3>3. receipts'[req[p].op] = [request |-> req[p], outcome |-> "rejected",
                                  fence |-> seenFence[p] + 1, observed |-> seenRev[p]]
      BY <3>1, <3>2 DEF Settle, TypeOK, TablesOK
    <3>4. receipts'[req[p].op] \in Receipt
      BY <3>2, <3>3 DEF Receipt, Outcomes
    <3> QED
      BY <2>2, <3>3, <3>4, <1>t, ConstantAssumption DEF Finish, Truthful
  <2> QED
    BY <1>9, <2>1, <2>2 DEF Reject
<1> QED
  BY <1>1, <1>5, <1>6, <1>7, <1>8, <1>9 DEF Transact

\* A client is told of an outcome only when it is the durable outcome of its
\* own request: receipts are final, and every answer is read from one.
THEOREM AnswersCorrect == Spec => []AnswersMatchReceipts
<1>1. Init => AnswersMatchReceipts
  BY DEF Init, AnswersMatchReceipts, Outcomes
<1>2. TypeOK /\ AnswersMatchReceipts /\ [Next]_vars => AnswersMatchReceipts'
  <2> SUFFICES ASSUME TypeOK, AnswersMatchReceipts, [Next]_vars
               PROVE  AnswersMatchReceipts'
    OBVIOUS
  <2>1. CASE UNCHANGED vars
    BY <2>1 DEF AnswersMatchReceipts, Settled, vars, tables, local
  <2>2. CASE Next
    <3>1. UNCHANGED req
      BY <2>2, ZenonT(60) DEF Next, Transact, Commit, Revise, Activate, Retire, Rebuild, Reject,
         Read, Inspect, LookUpReceipt, CheckAdmission, ReadOwner, ReadProfile,
         ReadSelection, ReadTarget, CheckFence, Recover, WriteFails, CallFails, Raced, Readmit,
         Reinspect, Reread, RejectFails, Refuse, Answer
    <3> SUFFICES ASSUME NEW q \in Attempts, reply'[q] \in Outcomes
                 PROVE  /\ receipts'[req[q].op] # NoReceipt
                        /\ receipts'[req[q].op].request = req[q]
                        /\ receipts'[req[q].op].outcome = reply'[q]
      BY <3>1 DEF AnswersMatchReceipts, Settled
    <3>2. CASE reply'[q] = reply[q]
      BY <2>2, <3>2, ReceiptsStay, RequestFacts DEF AnswersMatchReceipts, Settled
    <3>3. CASE reply'[q] # reply[q]
      BY <2>2, <3>3, AnswersTruthful DEF Truthful
    <3> QED
      BY <3>2, <3>3
  <2> QED
    BY <2>1, <2>2
<1> QED
  BY <1>1, <1>2, TypeCorrect, PTL DEF Spec

-------------------------------------------------------------------------------
\* One outcome per operation

\* A transaction that appends the revision of its request and settles it as
\* committed, when it was not settled before.
LEMMA CommittedOnce ==
  ASSUME TypeOK, OneOutcomePerOperation, NEW r \in Request, ~Settled(r.op),
         NEW n \in Nat, NEW seq \in Nat, NEW observed \in Nat,
         n = IF r.kind \in {"commit", "revise"} THEN r.expected + 1 ELSE observed + 1,
         AppendRevision(r.op, r.owner, n, seq), Settle(r, "committed", seq, observed)
  PROVE  OneOutcomePerOperation'
<1> DEFINE row   == [owner |-> r.owner, number |-> n, op |-> r.op]
           event == [seq |-> seq, op |-> r.op, owner |-> r.owner, number |-> n]
           c     == [request |-> r, outcome |-> "committed", fence |-> seq, observed |-> observed]
<1>t. receipts \in [Ops -> Receipt \cup {NoReceipt}] /\ r.op \in Ops
  BY DEF TypeOK, TablesOK, Request
<1>1. /\ revisions' = revisions \cup {row} /\ events' = events \cup {event}
      /\ receipts' = [receipts EXCEPT ![r.op] = c]
  BY DEF AppendRevision, Settle
<1>2. c \in Receipt /\ c # NoReceipt
  BY ConstantAssumption DEF Receipt, Outcomes
<1>3. SUFFICES ASSUME NEW op \in Ops
      PROVE  LET committed == receipts'[op] # NoReceipt /\ receipts'[op].outcome = "committed"
             IN /\ {w \in revisions' : w.op = op} =
                     IF committed
                     THEN {[owner |-> receipts'[op].request.owner,
                            number |-> AppendedNumber(receipts'[op]), op |-> op]} ELSE {}
                /\ {e \in events' : e.op = op} =
                     IF committed
                     THEN {[seq |-> receipts'[op].fence, op |-> op,
                            owner |-> receipts'[op].request.owner,
                            number |-> AppendedNumber(receipts'[op])]} ELSE {}
  BY DEF OneOutcomePerOperation, Settled
<1>4. CASE op = r.op
  <2>1. receipts'[op] = c
    BY <1>t, <1>1, <1>4
  <2>2. AppendedNumber(receipts'[op]) = n
    BY <2>1 DEF AppendedNumber
  <2>3. {w \in revisions : w.op = op} = {} /\ {e \in events : e.op = op} = {}
    BY <1>4, <1>t DEF OneOutcomePerOperation
  <2>4. {w \in revisions' : w.op = op} = {row} /\ {e \in events' : e.op = op} = {event}
    BY <1>1, <1>4, <2>3
  <2>5. receipts'[op] # NoReceipt /\ receipts'[op].outcome = "committed"
    BY <2>1, <1>2
  <2> QED
    BY <1>4, <2>1, <2>2, <2>4, <2>5
<1>5. CASE op # r.op
  <2>1. receipts'[op] = receipts[op]
    BY <1>t, <1>1, <1>5
  <2>2. /\ {w \in revisions' : w.op = op} = {w \in revisions : w.op = op}
        /\ {e \in events' : e.op = op} = {e \in events : e.op = op}
    BY <1>1, <1>5
  <2> QED
    BY <2>1, <2>2 DEF OneOutcomePerOperation, Settled, AppendedNumber
<1> QED
  BY <1>4, <1>5

\* A transaction that settles a request with another outcome and appends nothing.
LEMMA SettledWithoutEffect ==
  ASSUME TypeOK, OneOutcomePerOperation, NEW r \in Request, ~Settled(r.op),
         NEW outcome \in Outcomes, outcome # "committed", NEW at \in Nat, NEW observed \in Nat,
         Settle(r, outcome, at, observed), UNCHANGED <<revisions, events>>
  PROVE  OneOutcomePerOperation'
<1>1. receipts \in [Ops -> Receipt \cup {NoReceipt}] /\ r.op \in Ops
  BY DEF TypeOK, TablesOK, Request
<1>2. \A op \in Ops : op # r.op => receipts'[op] = receipts[op]
  BY <1>1 DEF Settle
<1>3. receipts'[r.op].outcome # "committed"
  BY <1>1 DEF Settle
<1> QED
  BY <1>1, <1>2, <1>3 DEF OneOutcomePerOperation, Settled, AppendedNumber

\* An operation takes effect at most once, and its receipt, revision and event
\* agree, whatever the reads that preceded its transaction saw.
THEOREM OutcomeCorrect == Spec => []OneOutcomePerOperation
<1>1. Init => OneOutcomePerOperation
  <2> SUFFICES ASSUME Init, NEW op \in Ops
               PROVE  ~Settled(op) /\ {w \in revisions : w.op = op} = {} /\ {e \in events : e.op = op} = {}
    BY DEF OneOutcomePerOperation
  <2> QED
    BY ConstantAssumption DEF Init, Settled
<1>2. TypeOK /\ OneOutcomePerOperation /\ [Next]_vars => OneOutcomePerOperation'
  <2> SUFFICES ASSUME TypeOK, OneOutcomePerOperation, [Next]_vars
               PROVE  OneOutcomePerOperation'
    OBVIOUS
  <2>1. ASSUME UNCHANGED <<revisions, events, receipts>>
        PROVE  OneOutcomePerOperation'
    BY <2>1 DEF OneOutcomePerOperation, Settled, AppendedNumber
  <2>2. CASE UNCHANGED vars
    BY <2>1, <2>2 DEF vars, tables
  <2>3. ASSUME NEW p \in Attempts, Read(p) \/ Recover(p) \/ Answer(p)
        PROVE  OneOutcomePerOperation'
    BY <2>1, <2>3 DEF tables, Read, Inspect, LookUpReceipt, CheckAdmission, ReadOwner, ReadProfile,
       ReadSelection, ReadTarget, CheckFence, Recover, WriteFails, CallFails, Raced, Readmit,
       Reinspect, Reread, RejectFails, Refuse, Answer
  <2>4. ASSUME NEW p \in Attempts, Transact(p)
        PROVE  OneOutcomePerOperation'
    <3> DEFINE r == req[p]  next == seenFence[p] + 1
    <3>r. /\ r \in Request /\ r.expected + 1 \in Nat /\ next \in Nat
          /\ seenRev[p] \in Nat /\ seenRev[p] + 1 \in Nat
          /\ r.kind \in {"activate", "retire"} => r.owner = Selection
      BY RequestFacts
    <3>1. CASE Commit(p)
      <4>1. /\ ~Settled(r.op) /\ r.kind = "commit"
            /\ AppendRevision(r.op, r.owner, r.expected + 1, next)
            /\ Settle(r, "committed", next, seenRev[p])
        BY <3>1 DEF Commit
      <4> HIDE DEF r, next
      <4> QED
        BY <4>1, <3>r, CommittedOnce
    <3>2. CASE Revise(p)
      <4>1. /\ ~Settled(r.op) /\ r.kind = "revise"
            /\ AppendRevision(r.op, r.owner, r.expected + 1, next)
            /\ Settle(r, "committed", next, seenRev[p])
        BY <3>2 DEF Revise
      <4> HIDE DEF r, next
      <4> QED
        BY <4>1, <3>r, CommittedOnce
    <3>3. CASE Activate(p) \/ Retire(p)
      <4>1. /\ ~Settled(r.op) /\ r.kind \in {"activate", "retire"}
            /\ AppendRevision(r.op, Selection, seenRev[p] + 1, next)
            /\ Settle(r, "committed", next, seenRev[p])
        BY <3>3 DEF Activate, Retire
      <4>2. r.owner = Selection /\ r.kind \notin {"commit", "revise"}
        BY <4>1, <3>r
      <4> HIDE DEF r, next
      <4> QED
        BY <4>1, <4>2, <3>r, CommittedOnce
    <3>4. CASE Rebuild(p)
      <4>1. /\ ~Settled(r.op) /\ Settle(r, "rebuilt", next, 0) /\ UNCHANGED <<revisions, events>>
        BY <3>4 DEF Rebuild
      <4> HIDE DEF r, next
      <4> QED
        BY <4>1, <3>r, SettledWithoutEffect DEF Outcomes
    <3>5. CASE Reject(p)
      <4>1. /\ ~Settled(r.op) /\ Settle(r, "rejected", next, seenRev[p])
            /\ UNCHANGED <<revisions, events>>
        BY <3>5 DEF Reject, Rejectable
      <4> HIDE DEF r, next
      <4> QED
        BY <4>1, <3>r, SettledWithoutEffect DEF Outcomes
    <3> QED
      BY <2>4, <3>1, <3>2, <3>3, <3>4, <3>5 DEF Transact
  <2> QED
    BY <2>2, <2>3, <2>4 DEF Next
<1> QED
  BY <1>1, <1>2, TypeCorrect, PTL DEF Spec

-------------------------------------------------------------------------------
\* The Profile selection

\* Concurrent activations and retirements leave the selected Profile revision,
\* and no other, active: that no step but theirs moves the current revision of
\* the selection depends on rebuilds having no effect.
THEOREM SelectionCorrect == Spec => []OnlySelectedProfileActive
<1>1. Init => OnlySelectedProfileActive
  BY ConstantAssumption DEF Init, OnlySelectedProfileActive
<1>2. TypeOK /\ HistoryIsContiguous /\ OnlySelectedProfileActive /\ [Next]_vars
        => OnlySelectedProfileActive'
  <2> SUFFICES ASSUME TypeOK, HistoryIsContiguous, OnlySelectedProfileActive, [Next]_vars
               PROVE  OnlySelectedProfileActive'
    OBVIOUS
  <2>t. /\ lifecycle \in [ProfileRevs -> Lifecycles] /\ current \in [AllOwners -> Nat]
        /\ selection \in [rev: Nat, profile: ProfileRevs \cup {NoProfile}]
        /\ selection.profile \in ProfileRevs \cup {NoProfile}
        /\ {q \in ProfileRevs : lifecycle[q] = "active"} = {selection.profile} \ {NoProfile}
        /\ selection.profile # NoProfile => current[Selection] = selection.rev
    BY DEF TypeOK, TablesOK, OnlySelectedProfileActive
  <2>1. ASSUME UNCHANGED <<selection, lifecycle>>, current'[Selection] = current[Selection]
        PROVE  OnlySelectedProfileActive'
    BY <2>1 DEF OnlySelectedProfileActive
  <2>2. CASE UNCHANGED vars
    BY <2>1, <2>2 DEF vars, tables
  <2>3. ASSUME NEW p \in Attempts, Read(p) \/ Recover(p) \/ Answer(p)
        PROVE  OnlySelectedProfileActive'
    BY <2>1, <2>3 DEF tables, Read, Inspect, LookUpReceipt, CheckAdmission, ReadOwner, ReadProfile,
       ReadSelection, ReadTarget, CheckFence, Recover, WriteFails, CallFails, Raced, Readmit,
       Reinspect, Reread, RejectFails, Refuse, Answer
  <2>4. ASSUME NEW p \in Attempts, Transact(p)
        PROVE  OnlySelectedProfileActive'
    <3>r. /\ req[p].profile \in ProfileRevs \cup {NoProfile}
          /\ req[p].kind \in {"revise", "activate"} => req[p].profile \in ProfileRevs
          /\ req[p].kind \in {"commit", "revise"} => req[p].owner \in Owners
      BY RequestFacts
    <3>1. CASE Commit(p)
      <4>1. current'[Selection] = current[Selection]
        BY <3>1, <3>r, <2>t, ConstantAssumption DEF Commit, AppendRevision
      <4> QED
        BY <3>1, <4>1, <2>1 DEF Commit
    <3>2. CASE Revise(p)
      <4>1. current'[Selection] = current[Selection]
        BY <3>2, <3>r, <2>t, ConstantAssumption DEF Revise, AppendRevision
      <4>2. {q \in ProfileRevs : lifecycle'[q] = "active"} = {q \in ProfileRevs : lifecycle[q] = "active"}
        BY <3>2, <3>r, <2>t DEF Revise
      <4> QED
        BY <3>2, <4>1, <4>2, <2>t DEF Revise, OnlySelectedProfileActive
    <3>3. CASE Activate(p)
      <4>1. /\ req[p].profile \in ProfileRevs /\ selection.profile # NoProfile
            /\ lifecycle' = Supersede(req[p].profile)
            /\ selection' = [rev |-> seenRev[p] + 1, profile |-> req[p].profile]
            /\ current' = [current EXCEPT ![Selection] = seenRev[p] + 1]
        BY <3>3, <3>r DEF Activate, SelectionUnchanged, AppendRevision
      <4>2. {q \in ProfileRevs : lifecycle'[q] = "active"} = {req[p].profile}
        BY <4>1, <2>t DEF Supersede
      <4> QED
        BY <4>1, <4>2, <2>t, ConstantAssumption DEF OnlySelectedProfileActive
    <3>4. CASE Retire(p)
      <4>1. /\ selection.profile # NoProfile
            /\ lifecycle' = [q \in ProfileRevs |-> IF q = req[p].profile THEN "active"
                                                   ELSE IF q = selection.profile THEN "retired"
                                                   ELSE lifecycle[q]]
            /\ selection'.profile = req[p].profile
            /\ req[p].profile # NoProfile => selection'.rev = seenRev[p] + 1
            /\ current' = [current EXCEPT ![Selection] = seenRev[p] + 1]
        BY <3>4, <3>r DEF Retire, SelectionUnchanged, AppendRevision
      <4>2. {q \in ProfileRevs : lifecycle'[q] = "active"} = {req[p].profile} \ {NoProfile}
        BY <4>1, <3>r, <2>t, ConstantAssumption
      <4> QED
        BY <4>1, <4>2, <2>t DEF OnlySelectedProfileActive
    <3>5. CASE Rebuild(p)
      BY <3>5, <2>1, RebuildNeutral DEF Rebuild
    <3>6. CASE Reject(p)
      BY <3>6, <2>1 DEF Reject
    <3> QED
      BY <2>4, <3>1, <3>2, <3>3, <3>4, <3>5, <3>6 DEF Transact
  <2> QED
    BY <2>2, <2>3, <2>4 DEF Next
<1> QED
  BY <1>1, <1>2, TypeCorrect, HistoryCorrect, PTL DEF Spec

\* No operation is settled under an admission binding that was replaced after
\* it was checked: every transaction compares the selection again.
THEOREM AdmissionCorrect == Spec => NothingSettlesUnderAReplacedSelection
<1>1. TypeOK /\ [Next]_vars =>
        [\A op \in Ops : receipts'[op] # receipts[op] =>
           /\ receipts'[op].request.binding = selection.rev
           /\ receipts'[op].request.kind \in Admits[selection.profile]]_vars
  <2> SUFFICES ASSUME TypeOK, Next, NEW op \in Ops, receipts'[op] # receipts[op]
               PROVE  /\ receipts'[op].request.binding = selection.rev
                      /\ receipts'[op].request.kind \in Admits[selection.profile]
    OBVIOUS
  <2>1. PICK p \in Attempts : Read(p) \/ Transact(p) \/ Answer(p) \/ Recover(p)
    BY DEF Next
  <2>2. Transact(p)
    BY <2>1 DEF tables, Read, Inspect, LookUpReceipt, CheckAdmission, ReadOwner, ReadProfile,
       ReadSelection, ReadTarget, CheckFence, Recover, WriteFails, CallFails, Raced, Readmit,
       Reinspect, Reread, RejectFails, Refuse, Answer
  <2>3. Admitted(req[p]) /\ \E outcome, at, observed : Settle(req[p], outcome, at, observed)
    BY <2>2 DEF Transact, Commit, Revise, Activate, Retire, Rebuild, Reject, Rejectable
  <2>4. receipts \in [Ops -> Receipt \cup {NoReceipt}] /\ req[p].op \in Ops
    BY RequestFacts DEF TypeOK, TablesOK
  <2>5. op = req[p].op /\ receipts'[op].request = req[p]
    BY <2>3, <2>4 DEF Settle
  <2> QED
    BY <2>3, <2>5 DEF Admitted, BindingOk
<1> QED
  BY <1>1, TypeCorrect, PTL DEF Spec, NothingSettlesUnderAReplacedSelection
\* What is settled is settled once, with exactly its rows, and clients are told so, for any
\* number of attempts at any operations.
THEOREM OutcomesStayTrue == Spec => []OutcomesAreTrue
  BY OutcomeCorrect, AnswersCorrect, PTL DEF OutcomesAreTrue

\* One selection governs, and whatever is settled is settled under it.
THEOREM SelectionStaysGoverning == Spec => SelectionGoverns
  BY SelectionCorrect, AdmissionCorrect, PTL DEF SelectionGoverns

-------------------------------------------------------------------------------
\* The order of the events

\* No attempt has read a fence that is still to come.
SeenIsPast == \A p \in Attempts : seenFence[p] <= fence

\* An event is of a settled operation, and of a revision that its owner has reached.
LEMMA EventFacts ==
  ASSUME TypeOK, HistoryIsContiguous, OneOutcomePerOperation, NEW e \in events
  PROVE  /\ e.op \in Ops /\ e.owner \in AllOwners /\ e.number \in Nat /\ e.seq \in Nat
         /\ Settled(e.op) /\ e.number <= current[e.owner]
<1>1. /\ e.op \in Ops /\ e.owner \in AllOwners /\ e.number \in Nat /\ e.seq \in Nat
      /\ current[e.owner] \in Nat
  BY DEF TypeOK, TablesOK
<1>2. e \in {f \in events : f.op = e.op}
  OBVIOUS
<1>3. /\ Settled(e.op) /\ receipts[e.op].outcome = "committed"
      /\ e.owner = receipts[e.op].request.owner /\ e.number = AppendedNumber(receipts[e.op])
  BY <1>1, <1>2 DEF OneOutcomePerOperation
<1> DEFINE row == [owner |-> e.owner, number |-> e.number, op |-> e.op]
<1>4. row \in {w \in revisions : w.op = e.op}
  BY <1>1, <1>3 DEF OneOutcomePerOperation
<1>5. row \in {w \in revisions : w.owner = e.owner} /\ row.number = e.number
  BY <1>4
<1>6. e.number \in {w.number : w \in {w \in revisions : w.owner = e.owner}}
  BY <1>5
<1>7. e.number \in 1..current[e.owner]
  BY <1>1, <1>6 DEF HistoryIsContiguous
<1> QED
  BY <1>1, <1>3, <1>7

\* The event of the revision after the current one follows the events of the earlier ones,
\* if it is numbered after every event or no commit's.
LEMMA EventAppended ==
  ASSUME TypeOK, HistoryIsContiguous, OneOutcomePerOperation, EventsFollowHistory,
         \A op \in Ops : Settled(op) => receipts'[op] = receipts[op],
         NEW op \in Ops, NEW o \in AllOwners, NEW seq \in Nat,
         AppendRevision(op, o, current[o] + 1, seq),
         receipts'[op].request.kind = "commit" => fence < seq,
         fence <= fence', seq <= fence', fence' \in Nat
  PROVE  EventsFollowHistory'
<1> DEFINE new == [seq |-> seq, op |-> op, owner |-> o, number |-> current[o] + 1]
<1>1. events' = events \cup {new} /\ fence \in Nat /\ current[o] \in Nat
  BY DEF AppendRevision, TypeOK, TablesOK
<1>2. \A e \in events : /\ e.op \in Ops /\ e.number \in Nat /\ e.seq \in Nat
                        /\ receipts'[e.op] = receipts[e.op] /\ e.number <= current[e.owner]
                        /\ e.seq <= fence
  BY EventFacts DEF EventsFollowHistory
<1>3. new.seq = seq /\ new.op = op /\ new.owner = o /\ new.number = current[o] + 1
  OBVIOUS
<1> HIDE DEF new
<1>4. \A e \in events' : e.seq <= fence'
  BY <1>1, <1>2, <1>3
<1>5. ASSUME NEW e \in events', NEW f \in events', e.owner = f.owner, e.number < f.number,
             receipts'[f.op].request.kind = "commit"
      PROVE  e.seq < f.seq
  <2>1. CASE e \in events /\ f \in events
    BY <1>2, <1>5, <2>1 DEF EventsFollowHistory
  <2>2. CASE f = new /\ e \in events
    BY <1>1, <1>2, <1>3, <1>5, <2>2
  <2>3. CASE e = new /\ f \in events
    BY <1>1, <1>2, <1>3, <1>5, <2>3
  <2>4. CASE e = new /\ f = new
    BY <1>1, <1>3, <1>5, <2>4
  <2> QED
    BY <1>1, <1>5, <2>1, <2>2, <2>3, <2>4
<1> QED
  BY <1>4, <1>5 DEF EventsFollowHistory

\* The fence never goes back, and what an attempt reads of it is what it is.
LEMMA SeenStaysPast ==
  ASSUME TypeOK, SeenIsPast, Next
  PROVE  fence' \in Nat /\ fence <= fence' /\ SeenIsPast'
<1>1. PICK p \in Attempts : Read(p) \/ Transact(p) \/ Answer(p) \/ Recover(p)
  BY DEF Next
<1>t. fence \in Nat /\ seenFence \in [Attempts -> Nat]
  BY DEF TypeOK, TablesOK, AttemptsOK
<1>2. CASE UNCHANGED <<fence, seenFence>>
  BY <1>2, <1>t DEF SeenIsPast
<1>3. CASE fence' = fence /\ seenFence' = [seenFence EXCEPT ![p] = fence]
  BY <1>3, <1>t DEF SeenIsPast
<1>4. CASE AdvanceFence(seenFence[p]) /\ UNCHANGED seenFence
  <2>1. fence' \in {fence, fence + 1}
    BY <1>4, <1>t DEF AdvanceFence
  <2> QED
    BY <2>1, <1>4, <1>t DEF SeenIsPast
<1>5. CASE Read(p)
  BY <1>5, <1>2, <1>3 DEF tables, Read, Inspect, LookUpReceipt, CheckAdmission, ReadOwner,
     ReadProfile, ReadSelection, ReadTarget, CheckFence
<1>6. CASE Recover(p) \/ Answer(p)
  BY <1>6, <1>2, <1>3 DEF tables, Recover, WriteFails, CallFails, Raced, Readmit,
     Reinspect, Reread, RejectFails, Refuse, Answer
<1>7. CASE Transact(p)
  BY <1>7, <1>4 DEF Transact, Commit, Revise, Activate, Retire, Rebuild, Reject
<1> QED
  BY <1>1, <1>5, <1>6, <1>7

\* A reader of the events up to the fence has seen the commits of every owner in order,
\* although a Profile operation may insert its event below the fence.
LEMMA EventsStep ==
  ASSUME TypeOK, HistoryIsContiguous, OneOutcomePerOperation, SeenIsPast, EventsFollowHistory, Next
  PROVE  EventsFollowHistory'
<1>1. PICK p \in Attempts : Read(p) \/ Transact(p) \/ Answer(p) \/ Recover(p)
  BY DEF Next
<1> DEFINE r == req[p]  next == seenFence[p] + 1
<1>t. /\ fence \in Nat /\ fence' \in Nat /\ fence <= fence' /\ seenFence[p] \in Nat /\ seenFence[p] <= fence
      /\ next \in Nat /\ receipts \in [Ops -> Receipt \cup {NoReceipt}]
      /\ r \in Request /\ r.op \in Ops /\ r.owner \in AllOwners /\ Selection \in AllOwners
  BY RequestFacts, SeenStaysPast DEF TypeOK, TablesOK, SeenIsPast, AllOwners
<1>s. \A op \in Ops : Settled(op) => receipts'[op] = receipts[op]
  BY ReceiptsStay
<1>2. CASE UNCHANGED events
  <2>1. \A e \in events : e.seq \in Nat /\ e.seq <= fence /\ receipts'[e.op] = receipts[e.op]
    BY <1>s, EventFacts DEF EventsFollowHistory
  <2> QED
    BY <1>2, <1>t, <2>1 DEF EventsFollowHistory
<1>3. AdvanceFence(seenFence[p]) => next <= fence' /\ fence' \in Nat
  BY <1>t DEF AdvanceFence
<1>4. CASE Commit(p)
  <2>1. /\ AppendRevision(r.op, r.owner, current[r.owner] + 1, next)
        /\ AdvanceFence(seenFence[p]) /\ fence < next
    BY <1>4, <1>t DEF Commit, ExpectsCurrent, FenceUnchanged
  <2> HIDE DEF r, next
  <2> QED
    BY <2>1, <1>t, <1>s, <1>3, EventAppended
<1>5. CASE Revise(p)
  <2>1. /\ AppendRevision(r.op, r.owner, current[r.owner] + 1, next)
        /\ AdvanceFence(seenFence[p]) /\ receipts'[r.op].request.kind = "revise"
    BY <1>5, <1>t DEF Revise, ExpectsCurrent, Settle
  <2> HIDE DEF r, next
  <2> QED
    BY <2>1, <1>t, <1>s, <1>3, EventAppended
<1>6. CASE Activate(p) \/ Retire(p)
  <2>1. /\ AppendRevision(r.op, Selection, current[Selection] + 1, next)
        /\ AdvanceFence(seenFence[p]) /\ receipts'[r.op].request.kind # "commit"
    BY <1>6, <1>t DEF Activate, Retire, SelectionUnchanged, ExpectsCurrent, Settle
  <2> HIDE DEF r, next
  <2> QED
    BY <2>1, <1>t, <1>s, <1>3, EventAppended
<1>7. CASE Rebuild(p) \/ Reject(p)
  BY <1>7, <1>2 DEF Rebuild, Reject
<1>8. CASE Read(p) \/ Recover(p) \/ Answer(p)
  BY <1>8, <1>2 DEF tables, Read, Inspect, LookUpReceipt, CheckAdmission, ReadOwner, ReadProfile,
     ReadSelection, ReadTarget, CheckFence, Recover, WriteFails, CallFails, Raced, Readmit,
     Reinspect, Reread, RejectFails, Refuse, Answer
<1> QED
  BY <1>1, <1>4, <1>5, <1>6, <1>7, <1>8 DEF Transact

\* A reader of the events up to the fence has seen the commits of every owner in order,
\* although a Profile operation may insert its event below the fence: a commit compares
\* the fence that it numbers its event after, and no fence that was read is ahead of it.
THEOREM EventsCorrect == Spec => []EventsFollowHistory
<1>1. Init => SeenIsPast /\ EventsFollowHistory
  BY DEF Init, SeenIsPast, EventsFollowHistory
<1>2. TypeOK /\ HistoryIsContiguous /\ OneOutcomePerOperation /\ SeenIsPast /\ EventsFollowHistory
      /\ [Next]_vars => SeenIsPast' /\ EventsFollowHistory'
  <2>1. ASSUME UNCHANGED vars, SeenIsPast, EventsFollowHistory
        PROVE  SeenIsPast' /\ EventsFollowHistory'
    BY <2>1 DEF vars, tables, local, SeenIsPast, EventsFollowHistory
  <2> QED
    BY <2>1, SeenStaysPast, EventsStep
<1> QED
  BY <1>1, <1>2, TypeCorrect, HistoryCorrect, OutcomeCorrect, PTL DEF Spec

-------------------------------------------------------------------------------
\* The ledger of operations

\* What the refinement mapping takes for the three variables of the ledger.
History == [o \in AllOwners |-> [n \in 1..current[o] |-> OpOf(o, n)]]
Outcome == [op \in Ops |-> IF Settled(op) THEN receipts[op].outcome ELSE "none"]
Meaning == [op \in Ops |-> IF Settled(op) THEN {receipts[op].request} ELSE {}]

\* A function on 1..k is a sequence of length k, to which an element can be appended.
LEMMA SequenceFacts ==
  ASSUME NEW k \in Nat, NEW f, NEW x, f = [n \in 1..k |-> f[n]]
  PROVE  /\ Len(f) = k
         /\ Append(f, x) = [n \in 1..(k + 1) |-> IF n = k + 1 THEN x ELSE f[n]]
<1> DEFINE S == {f[n] : n \in 1..k} \cup {x}
<1>1. f \in [1..k -> S] /\ x \in S
  OBVIOUS
<1> HIDE DEF S
<1>2. f \in Seq(S)
  BY <1>1, SeqDef
<1>3. DOMAIN f = 1..Len(f) /\ Len(f) \in Nat /\ DOMAIN f = 1..k
  BY <1>1, <1>2, LenProperties
<1>4. Len(f) = k
  BY <1>3
<1>5. Append(f, x) = [n \in 1..(Len(f) + 1) |-> IF n = Len(f) + 1 THEN x ELSE f[n]]
  BY <1>2, <1>4, AppendProperties
<1> QED
  BY <1>4, <1>5

\* The operation of a revision number is that of the only row that has it.
LEMMA OpOfRow ==
  ASSUME HistoryIsContiguous, NEW w \in revisions, w.owner \in AllOwners
  PROVE  OpOf(w.owner, w.number) = w.op
<1>1. \A v \in revisions : v.owner = w.owner /\ v.number = w.number => v = w
  BY DEF HistoryIsContiguous
<1>2. (CHOOSE v \in revisions : v.owner = w.owner /\ v.number = w.number) = w
  BY <1>1
<1> QED
  BY <1>2 DEF OpOf

\* Every revision number of an owner has a row.
LEMMA RowOf ==
  ASSUME HistoryIsContiguous, NEW o \in AllOwners, NEW n \in 1..current[o]
  PROVE  \E w \in revisions : w.owner = o /\ w.number = n
<1>1. n \in {w.number : w \in {w \in revisions : w.owner = o}}
  BY DEF HistoryIsContiguous
<1> QED
  BY <1>1

\* The store that bootstrap leaves is the initial ledger.
LEMMA LedgerInit == Init => Ledger!Init
<1> SUFFICES ASSUME Init PROVE Ledger!Init
  OBVIOUS
<1>1. HistoryIsContiguous
  BY HistoryInit
<1>2. ASSUME NEW o \in AllOwners
      PROVE  [n \in 1..current[o] |-> OpOf(o, n)] =
               IF o \in {Selection, InitialOwner} THEN <<InitOp>> ELSE <<>>
  <2>1. CASE o \in {Selection, InitialOwner}
    <3> DEFINE w == [owner |-> o, number |-> 1, op |-> InitOp]
    <3>1. w \in revisions /\ w.owner \in AllOwners /\ w.number = 1 /\ w.op = InitOp /\ w.owner = o
      BY <2>1 DEF Init
    <3> HIDE DEF w
    <3>2. OpOf(o, 1) = InitOp
      BY <1>1, <3>1, OpOfRow
    <3> QED
      BY <2>1, <3>2 DEF Init
  <2>2. CASE o \notin {Selection, InitialOwner}
    BY <2>2 DEF Init
  <2> QED
    BY <2>1, <2>2
<1>3. /\ [op \in Ops |-> IF Settled(op) THEN receipts[op].outcome ELSE "none"] = [op \in Ops |-> "none"]
      /\ [op \in Ops |-> IF Settled(op) THEN {receipts[op].request} ELSE {}] = [op \in Ops |-> {}]
  BY DEF Init, Settled
<1> QED
  BY <1>2, <1>3 DEF Ledger!Init

\* A step that revises an owner, settles without an effect, or changes none of the three, as
\* a step of the ledger.
LEMMA LedgerRevises ==
  ASSUME NEW r \in UNION {Plan[p] : p \in Attempts}, r.kind # "rebuild",
         Len(History[r.owner]) = r.expected, r.binding = Len(History[Selection]),
         Outcome[r.op] = "none", Outcome' = [Outcome EXCEPT ![r.op] = "committed"],
         Meaning' = [Meaning EXCEPT ![r.op] = {r}],
         History' = [History EXCEPT ![r.owner] = Append(@, r.op)]
  PROVE  Ledger!Next
<1>1. Ledger!Revise(r)
  BY DEF Ledger!Revise, Ledger!SettleAs, History, Outcome, Meaning
<1> QED
  BY <1>1 DEF Ledger!Next

\* A rejection or a rebuild settles its operation in the ledger and leaves the history.
LEMMA LedgerSettles ==
  ASSUME NEW r \in UNION {Plan[p] : p \in Attempts}, NEW outcome,
         \/ r.kind = "commit" /\ outcome = "rejected"
         \/ r.kind = "rebuild" /\ outcome = "rebuilt",
         r.binding = Len(History[Selection]),
         Outcome[r.op] = "none", Outcome' = [Outcome EXCEPT ![r.op] = outcome],
         Meaning' = [Meaning EXCEPT ![r.op] = {r}], History' = History
  PROVE  Ledger!Next
<1>1. Ledger!Reject(r) \/ Ledger!Rebuild(r)
  BY DEF Ledger!Reject, Ledger!Rebuild, Ledger!SettleAs, History, Outcome, Meaning
<1> QED
  BY <1>1 DEF Ledger!Next

\* What changes neither history, outcome nor meaning is no step of the ledger.
LEMMA LedgerStutters ==
  ASSUME UNCHANGED <<History, Outcome, Meaning>>
  PROVE  UNCHANGED Ledger!ledger
  BY DEF Ledger!ledger, History, Outcome, Meaning

\* The history as the ledger has it is as long as the current revision.
LEMMA HistoryLength ==
  ASSUME TypeOK, NEW o \in AllOwners
  PROVE  Len(History[o]) = current[o]
<1>1. current[o] \in Nat /\ History[o] = [n \in 1..current[o] |-> OpOf(o, n)]
  BY DEF TypeOK, TablesOK, History
<1>2. History[o] = [n \in 1..current[o] |-> History[o][n]]
  BY <1>1
<1> QED
  BY <1>1, <1>2, SequenceFacts

\* A settled request is in the outcomes and the meanings of the ledger.
LEMMA SettledInLedger ==
  ASSUME TypeOK, NEW r \in Request, NEW outcome \in Outcomes, NEW at \in Nat, NEW observed \in Nat,
         ~Settled(r.op), Settle(r, outcome, at, observed)
  PROVE  /\ Outcome[r.op] = "none" /\ Outcome' = [Outcome EXCEPT ![r.op] = outcome]
         /\ Meaning' = [Meaning EXCEPT ![r.op] = {r}]
<1> DEFINE c == [request |-> r, outcome |-> outcome, fence |-> at, observed |-> observed]
<1>1. c \in Receipt /\ c.request = r /\ c.outcome = outcome
  BY DEF Receipt
<1>2. receipts' = [receipts EXCEPT ![r.op] = c] /\ r.op \in Ops /\ DOMAIN receipts = Ops
      /\ receipts[r.op] = NoReceipt
  BY DEF Settle, Request, TypeOK, TablesOK, Settled
<1> HIDE DEF c
<1>3. c # NoReceipt
  BY <1>1, ConstantAssumption
<1>4. /\ receipts'[r.op] = c
      /\ \A op \in Ops : op # r.op => receipts'[op] = receipts[op]
  BY <1>2
<1>5. Outcome[r.op] = "none"
  BY <1>2 DEF Outcome, Settled
<1>6. Outcome' = [Outcome EXCEPT ![r.op] = outcome]
  BY <1>1, <1>2, <1>3, <1>4 DEF Outcome, Settled
<1>7. Meaning' = [Meaning EXCEPT ![r.op] = {r}]
  BY <1>1, <1>2, <1>3, <1>4 DEF Meaning, Settled
<1> QED
  BY <1>5, <1>6, <1>7

\* Appending the revision after the current one appends its operation to the history.
LEMMA AppendedInLedger ==
  ASSUME TypeOK, HistoryIsContiguous, HistoryIsContiguous', NEW op, NEW o \in AllOwners, NEW seq,
         AppendRevision(op, o, current[o] + 1, seq)
  PROVE  History' = [History EXCEPT ![o] = Append(@, op)]
<1> DEFINE row == [owner |-> o, number |-> current[o] + 1, op |-> op]
<1>1. /\ revisions' = revisions \cup {row} /\ current' = [current EXCEPT ![o] = current[o] + 1]
      /\ current \in [AllOwners -> Nat]
  BY DEF AppendRevision, TypeOK, TablesOK
<1>2. row \in revisions' /\ row.owner = o /\ row.number = current[o] + 1 /\ row.op = op
  BY <1>1
<1> HIDE DEF row
<1>3. ASSUME NEW n, n = current[o] + 1
      PROVE  (OpOf(o, n))' = op
  <2>1. \A v \in revisions' : v.owner = o /\ v.number = n => v = row
    BY <1>2, <1>3 DEF HistoryIsContiguous
  <2>2. (CHOOSE v \in revisions' : v.owner = o /\ v.number = n) = row
    BY <1>2, <1>3, <2>1
  <2> QED
    BY <1>2, <2>2 DEF OpOf
<1>4. ASSUME NEW u \in AllOwners, NEW n \in 1..current[u]
      PROVE  (OpOf(u, n))' = OpOf(u, n)
  <2>1. PICK w \in revisions : w.owner = u /\ w.number = n
    BY <1>4, RowOf
  <2>2. OpOf(u, n) = w.op
    BY <2>1, OpOfRow
  <2>3. w \in revisions' /\ \A v \in revisions' : v.owner = u /\ v.number = n => v = w
    BY <1>1, <2>1 DEF HistoryIsContiguous
  <2>4. (CHOOSE v \in revisions' : v.owner = u /\ v.number = n) = w
    BY <2>1, <2>3
  <2> QED
    BY <2>2, <2>4 DEF OpOf
<1>5. History'[o] = Append(History[o], op)
  <2> DEFINE f == History[o]
  <2>1. /\ current[o] \in Nat /\ current'[o] = current[o] + 1
        /\ \A n \in 1..current[o] : f[n] = OpOf(o, n)
        /\ f = [n \in 1..current[o] |-> f[n]]
        /\ History'[o] = [n \in 1..current'[o] |-> (OpOf(o, n))']
    BY <1>1 DEF History
  <2> HIDE DEF f
  <2>2. Append(f, op) = [n \in 1..(current[o] + 1) |-> IF n = current[o] + 1 THEN op ELSE f[n]]
    BY <2>1, SequenceFacts
  <2>3. \A n \in 1..(current[o] + 1) : (OpOf(o, n))' = IF n = current[o] + 1 THEN op ELSE f[n]
    <3> SUFFICES ASSUME NEW n \in 1..(current[o] + 1)
                 PROVE  (OpOf(o, n))' = IF n = current[o] + 1 THEN op ELSE f[n]
      OBVIOUS
    <3>1. CASE n = current[o] + 1
      BY <3>1, <1>3
    <3>2. CASE n # current[o] + 1
      <4>1. n \in 1..current[o]
        BY <3>2, <2>1
      <4>2. (OpOf(o, n))' = OpOf(o, n)
        BY <4>1, <1>4
      <4> QED
        BY <3>2, <2>1, <4>1, <4>2
    <3> QED
      BY <3>1, <3>2
  <2>4. History'[o] = Append(f, op)
    BY <2>1, <2>2, <2>3
  <2> QED
    BY <2>4 DEF f
<1>6. ASSUME NEW u \in AllOwners, u # o
      PROVE  History'[u] = History[u]
  <2>1. current'[u] = current[u]
    BY <1>1, <1>6
  <2> QED
    BY <1>4, <2>1 DEF History
<1> QED
  BY <1>5, <1>6 DEF History

\* A history whose rows and current revisions stay is the same.
LEMMA SameHistory ==
  ASSUME UNCHANGED <<revisions, current>>
  PROVE  History' = History
  BY DEF History, OpOf

\* Only a commit is rejected.
RejectsCommits ==
  \A p \in Attempts : pc[p] \in {"reinspect", "reread", "reject", "refused"} => req[p].kind = "commit"

\* Every step keeps that.
LEMMA RejectsCommitsStep ==
  ASSUME TypeOK, RejectsCommits, Next
  PROVE  RejectsCommits'
<1> USE DEF RejectsCommits
<1>1. PICK p \in Attempts : Read(p) \/ Transact(p) \/ Answer(p) \/ Recover(p)
  BY DEF Next
<1>t. pc \in [Attempts -> Labels]
  BY DEF TypeOK, AttemptsOK
<1>2. CASE Read(p)
  BY <1>2, <1>t DEF Read, Inspect, LookUpReceipt, CheckAdmission, ReadOwner, ReadProfile,
     ReadSelection, ReadTarget, CheckFence, Goto, Finish
<1>3. CASE Recover(p) \/ Answer(p)
  BY <1>3, <1>t DEF Recover, WriteFails, CallFails, Raced, Readmit, Reinspect, Reread, RejectFails,
     Refuse, Answer, AfterFailure, Goto, Finish
<1>4. CASE Transact(p)
  BY <1>4, <1>t DEF Transact, Commit, Revise, Activate, Retire, Rebuild, Reject, Written,
     AfterFailure, Goto, Finish
<1> QED
  BY <1>1, <1>2, <1>3, <1>4

\* A step of the store is a step of the ledger, or none.
LEMMA LedgerStep ==
  ASSUME TypeOK, HistoryIsContiguous, HistoryIsContiguous', RejectsCommits, Next
  PROVE  Ledger!Next \/ UNCHANGED Ledger!ledger
<1>1. PICK p \in Attempts : Read(p) \/ Transact(p) \/ Answer(p) \/ Recover(p)
  BY DEF Next
<1> DEFINE r == req[p]  next == seenFence[p] + 1
<1>r. /\ r \in Request /\ r \in UNION {Plan[q] : q \in Attempts} /\ next \in Nat /\ seenRev[p] \in Nat
      /\ r.owner \in AllOwners /\ Selection \in AllOwners
      /\ r.kind \in {"activate", "retire", "rebuild"} => r.owner = Selection
      /\ {"committed", "rejected", "rebuilt"} \subseteq Outcomes
  BY RequestFacts DEF TypeOK, AttemptsOK, AllOwners, Outcomes
<1>b. Admitted(r) => r.binding = Len(History[Selection]) /\ selection.rev = current[Selection]
  BY <1>r, HistoryLength DEF Admitted, BindingOk
<1>2. CASE Read(p) \/ Recover(p) \/ Answer(p)
  <2>1. UNCHANGED <<revisions, current, receipts>>
    BY <1>2 DEF tables, Read, Inspect, LookUpReceipt, CheckAdmission, ReadOwner, ReadProfile,
       ReadSelection, ReadTarget, CheckFence, Recover, WriteFails, CallFails, Raced, Readmit,
       Reinspect, Reread, RejectFails, Refuse, Answer
  <2>2. UNCHANGED <<History, Outcome, Meaning>>
    BY <2>1, SameHistory DEF Outcome, Meaning, Settled
  <2> QED
    BY <2>2, LedgerStutters
<1>3. CASE Commit(p) \/ Revise(p) \/ Activate(p) \/ Retire(p)
  <2>1. /\ Admitted(r) /\ ~Settled(r.op) /\ r.kind # "rebuild"
        /\ Settle(r, "committed", next, seenRev[p])
    BY <1>3 DEF Commit, Revise, Activate, Retire
  <2>2. current[r.owner] = r.expected /\ AppendRevision(r.op, r.owner, current[r.owner] + 1, next)
    <3>1. CASE Commit(p) \/ Revise(p)
      BY <3>1 DEF Commit, Revise, ExpectsCurrent
    <3>2. CASE Activate(p) \/ Retire(p)
      BY <3>2, <1>b, <1>r, <2>1 DEF Activate, Retire, SelectionUnchanged, ExpectsCurrent
    <3> QED
      BY <1>3, <3>1, <3>2
  <2> HIDE DEF r, next
  <2>3. /\ Outcome[r.op] = "none" /\ Outcome' = [Outcome EXCEPT ![r.op] = "committed"]
        /\ Meaning' = [Meaning EXCEPT ![r.op] = {r}]
    BY <1>r, <2>1, SettledInLedger
  <2>4. History' = [History EXCEPT ![r.owner] = Append(@, r.op)]
    BY <1>r, <2>2, AppendedInLedger
  <2>5. Len(History[r.owner]) = r.expected
    BY <1>r, <2>2, HistoryLength
  <2> QED
    BY <1>r, <1>b, <2>1, <2>3, <2>4, <2>5, LedgerRevises
<1>4. CASE Rebuild(p)
  <2>1. /\ Admitted(r) /\ ~Settled(r.op) /\ r.kind = "rebuild" /\ Settle(r, "rebuilt", next, 0)
        /\ UNCHANGED <<revisions, current>>
    BY <1>4, RebuildNeutral DEF Rebuild
  <2> HIDE DEF r, next
  <2>2. /\ Outcome[r.op] = "none" /\ Outcome' = [Outcome EXCEPT ![r.op] = "rebuilt"]
        /\ Meaning' = [Meaning EXCEPT ![r.op] = {r}]
    BY <1>r, <2>1, SettledInLedger
  <2> QED
    BY <1>r, <1>b, <2>1, <2>2, SameHistory, LedgerSettles
<1>5. CASE Reject(p)
  <2>1. /\ Admitted(r) /\ ~Settled(r.op) /\ r.kind = "commit" /\ Settle(r, "rejected", next, seenRev[p])
        /\ UNCHANGED <<revisions, current>>
    BY <1>5 DEF Reject, Rejectable, RejectsCommits
  <2> HIDE DEF r, next
  <2>2. /\ Outcome[r.op] = "none" /\ Outcome' = [Outcome EXCEPT ![r.op] = "rejected"]
        /\ Meaning' = [Meaning EXCEPT ![r.op] = {r}]
    BY <1>r, <2>1, SettledInLedger
  <2> QED
    BY <1>r, <1>b, <2>1, <2>2, SameHistory, LedgerSettles
<1> QED
  BY <1>1, <1>2, <1>3, <1>4, <1>5 DEF Transact

\* Every transaction of the store is one step of the ledger, whatever the attempt read before
\* it: the compare-and-set of the owner and of the selection is what makes the operation
\* take effect once, at the end of the history that its request names.
THEOREM LedgerImplemented == Spec => ImplementsLedger
<1>1. Init => RejectsCommits
  BY DEF Init, RejectsCommits
<1>2. TypeOK /\ RejectsCommits /\ [Next]_vars => RejectsCommits'
  <2>1. ASSUME UNCHANGED vars, RejectsCommits PROVE RejectsCommits'
    BY <2>1 DEF vars, local, RejectsCommits
  <2> QED
    BY <2>1, RejectsCommitsStep
<1>3. TypeOK /\ HistoryIsContiguous /\ HistoryIsContiguous' /\ RejectsCommits /\ [Next]_vars
        => [Ledger!Next]_(Ledger!ledger)
  <2>1. ASSUME UNCHANGED vars PROVE UNCHANGED Ledger!ledger
    <3>1. UNCHANGED <<History, Outcome, Meaning>>
      BY <2>1 DEF vars, tables, History, OpOf, Outcome, Meaning, Settled
    <3> QED
      BY <3>1, LedgerStutters
  <2> QED
    BY <2>1, LedgerStep
<1> QED
  BY <1>1, <1>2, <1>3, LedgerInit, TypeCorrect, HistoryCorrect, PTL DEF Spec, ImplementsLedger
===============================================================================
