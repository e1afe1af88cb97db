---------------------------- MODULE OperationLedger ----------------------------
(***************************************************************************)
(* What the successor store promises to the clients of an operation,       *)
(* without fences, receipts, events or the reads a client makes: every     *)
(* owner has a history of the operations that revised it, and every        *)
(* operation has at most one outcome, which never changes.  An operation   *)
(* takes effect at one instant, at which its request is still what the     *)
(* history says: the owner is at the expected revision and the selection   *)
(* the request was bound to is the last one.                               *)
(***************************************************************************)
EXTENDS Integers, Sequences

CONSTANTS
  Ops,           \* operation identities
  AllOwners,     \* the owners, Selection among them
  Selection,     \* the owner whose history is that of the Profile selection
  InitialOwner,  \* the owner that exists beside Selection from the beginning
  InitOp,        \* the operation that created them
  Request        \* the canonical meanings of operations

VARIABLES
  history,       \* the operations that made each owner's revisions, in order
  outcome,       \* each operation's outcome, or "none"
  meaning        \* the request each settled operation was settled for

ledger == <<history, outcome, meaning>>

Init ==
  /\ history = [o \in AllOwners |-> IF o \in {Selection, InitialOwner} THEN <<InitOp>> ELSE <<>>]
  /\ outcome = [op \in Ops |-> "none"]
  /\ meaning = [op \in Ops |-> {}]

SettleAs(r, result) ==
  /\ outcome[r.op] = "none"
  /\ r.binding = Len(history[Selection])
  /\ outcome' = [outcome EXCEPT ![r.op] = result]
  /\ meaning' = [meaning EXCEPT ![r.op] = {r}]

\* The operation becomes the owner's next revision.
Revise(r) ==
  /\ r.kind # "rebuild" /\ Len(history[r.owner]) = r.expected
  /\ SettleAs(r, "committed")
  /\ history' = [history EXCEPT ![r.owner] = Append(@, r.op)]

\* The operation is settled without an effect on any history.
Reject(r)  == r.kind = "commit"  /\ SettleAs(r, "rejected") /\ UNCHANGED history
Rebuild(r) == r.kind = "rebuild" /\ SettleAs(r, "rebuilt")  /\ UNCHANGED history

Next == \E r \in Request : Revise(r) \/ Reject(r) \/ Rebuild(r)

Spec == Init /\ [][Next]_ledger
===============================================================================
