--------------------------- MODULE PredecessorFrames ---------------------------
(***************************************************************************)
(* Frames on the predecessor store.  A complete commit or a modular edit   *)
(* becomes a complete Frame, is normalized, is compared with the current   *)
(* revision or with the receipt that the operation already has, and its    *)
(* settled dispositions are looked up among the commits of the Cases they  *)
(* name; then the families whose content changed get new versions and the  *)
(* revision selects one version of each family.                            *)
(*                                                                         *)
(* The commit is that of module PredecessorStore, one action here, and so  *)
(* are the commits of Cases; the view policy is left to that module.       *)
(***************************************************************************)
EXTENDS Naturals, Sequences

CONSTANTS
  Attempts,       \* calls of an operation, each by some client process
  Ops,            \* operation identities chosen by the clients
  Frames,
  Offered,        \* the requests each attempt may carry
  Initial,        \* the content of each Frame that exists at the start
  InitOp,         \* the operation that created those
  Profile, Items, Boundaries, Dispositions,  \* the families of a Frame
  Cases, CaseOps, \* the Cases, and the operations that commit them
  None

\* What a client submits as complete is the content of each family, a modular edit is of a
\* revision, and what exists at the start was not reopened and settles nothing.
FrameConstants ==
  /\ InitOp \notin Ops /\ None \notin {"committed", "rejected"}
  /\ \A a \in Attempts : \A r \in Offered[a] :
       /\ r.op \in Ops /\ r.frame \in Frames /\ r.base \in Nat
       /\ r.base = 0 => r.edit.action = "complete"
       /\ r.edit.action = "complete" => r.edit.content = [x \in DOMAIN r.edit.content |-> r.edit.content[x]]
  /\ \A f \in DOMAIN Initial, x \in Items \cup Dispositions : x \in DOMAIN Initial[f] =>
       /\ x \in Items => Initial[f][x].reopened = None
       /\ x \in Dispositions => Initial[f][x].state # "settled"

VARIABLES
  versions,       \* owner_versions: the content of each version, named by operation and family
  revisions,      \* owner_revisions with their selections, and the operation of each
  receipts,       \* store_operation_receipts of Frames
  caseRevisions,  \* the operation that committed each revision of a Case
  caseReceipts,   \* store_operation_receipts of Cases
  call            \* where each attempt is, and what it has read

vars == <<versions, revisions, receipts, caseRevisions, caseReceipts, call>>

-------------------------------------------------------------------------------
\* The content of a Frame: for each of its families a record.  `text` stands for the
\* descriptive fields, the category of an item follows its lifecycle.

NewItem(text) == [lifecycle |-> "active", text |-> text, resolution |-> None, reopened |-> None]

NewDisposition(b) == [state |-> "pending", boundary |-> b, case |-> None, op |-> None, revs |-> {}]

Of(families, c) == families \cap DOMAIN c

\* One more family, or another record of one
Put(c, x, record) == [y \in DOMAIN c \cup {x} |-> IF y = x THEN record ELSE c[y]]

Undecided(d) == d.state \in {"pending", "awaiting"}

ItemOk(i) == i.lifecycle # "active" => i.resolution # None /\ i.reopened = None

DispositionOk(d) == (d.revs # {}) = (d.state = "settled")

BoundaryOk(c, b) ==
  /\ c[b].members # {}
  /\ c[b].members = {d \in Of(Dispositions, c) : c[d].boundary = b}
  /\ c[b].closure = "closed" => \A d \in c[b].members : ~Undecided(c[d])

WellFormed(c) ==
  /\ Of(Items, c) # {} /\ \A i \in Of(Items, c) : ItemOk(c[i])
  /\ \A d \in Of(Dispositions, c) : c[d].boundary \in DOMAIN c /\ DispositionOk(c[d])
  /\ \A b \in Of(Boundaries, c) : BoundaryOk(c, b)
  /\ c[Profile].status = "completed" => \A d \in Of(Dispositions, c) : ~Undecided(c[d])

\* The revision n of a Frame, as a read hydrates it.
Hydrated(f, n) ==
  [x \in DOMAIN revisions[f][n].selection |-> versions[revisions[f][n].selection[x]]]

VersionOf(f, n, x) == revisions[f][n].selection[x]

-------------------------------------------------------------------------------
\* Modular edits of the revision named by if_match; None if the resource is unknown, is
\* there already, or is not in the state the edit is for.  Edits of the descriptive fields
\* are those of the profile and of items.

EditItem(c, e, version) ==
  LET prior == c[e.id]
  IN CASE e.action = "discovery.update" /\ prior.lifecycle = "active" ->
            [c EXCEPT ![e.id].text = e.text]
       [] e.action = "discovery.settle" /\ prior.lifecycle = "active" ->
            [c EXCEPT ![e.id].lifecycle = "settled", ![e.id].resolution = e.resolution]
       [] e.action = "discovery.tombstone" /\ prior.lifecycle = "settled" ->
            [c EXCEPT ![e.id].lifecycle = "tombstoned"]
       [] e.action = "discovery.reopen" /\ prior.lifecycle # "active" /\ e.from = version ->
            [c EXCEPT ![e.id].lifecycle = "active", ![e.id].resolution = None, ![e.id].reopened = e.from]
       [] OTHER -> None

EditDisposition(c, e) ==
  CASE e.action = "disposition.classify" /\ c[e.id].state = "pending" -> [c EXCEPT ![e.id] = e.result]
    [] e.action = "disposition.settle" /\ c[e.id].state = "awaiting" ->
         [c EXCEPT ![e.id].state = "settled", ![e.id].revs = e.revs]
    [] OTHER -> None

Create(c, e) ==
  IF e.id \in DOMAIN c THEN None
  ELSE IF e.id \in Items THEN Put(c, e.id, NewItem(e.text))
  ELSE IF e.id \in Boundaries
    THEN Put(Put(c, e.first, NewDisposition(e.id)), e.id, [closure |-> "open", members |-> {e.first}])
  ELSE IF e.boundary \in DOMAIN c /\ c[e.boundary].closure = "open"
    THEN Put([c EXCEPT ![e.boundary].members = @ \cup {e.id}], e.id, NewDisposition(e.boundary))
  ELSE None

Edited(f, n, e) ==
  LET c == Hydrated(f, n)
  IN CASE e.action = "update" -> [c EXCEPT ![Profile].text = e.text, ![Profile].status = e.status]
       [] e.action = "create" -> Create(c, e)
       [] e.action \notin {"update", "create"} /\ e.id \in Of(Items, c) -> EditItem(c, e, VersionOf(f, n, e.id))
       [] e.action = "boundary.close" /\ e.id \in Of(Boundaries, c) /\ c[e.id].closure = "open" ->
            [c EXCEPT ![e.id].closure = "closed"]
       [] e.action \notin {"update", "create"} /\ e.id \in Of(Dispositions, c) -> EditDisposition(c, e)
       [] OTHER -> None

-------------------------------------------------------------------------------
\* What a complete Frame must keep of the revision that is current

ItemFollows(f, n, c, i) ==
  LET known == i \in DOMAIN revisions[f][n].selection
      prior == Hydrated(f, n)[i]
  IN IF ~known
     THEN c[i].reopened = None /\ c[i].lifecycle # "tombstoned"
     ELSE /\ prior.lifecycle # "active" /\ c[i].lifecycle = "active" => c[i].reopened = VersionOf(f, n, i)
          /\ prior.lifecycle = "active" /\ c[i].reopened # None => c[i] = prior
          /\ prior.lifecycle # "active" /\ c[i].lifecycle = "tombstoned" => c[i].resolution = prior.resolution

\* Every boundary and every disposition that was selected must be submitted again.
KeepsDispositions(prior, c) == DOMAIN prior \cap (Boundaries \cup Dispositions) \subseteq DOMAIN c

Follows(f, n, c) ==
  /\ Of(Items, revisions[f][n].selection) \subseteq DOMAIN c
  /\ KeepsDispositions(revisions[f][n].selection, c)
  /\ \A i \in Of(Items, c) : ItemFollows(f, n, c, i)

CanBegin(c) == /\ c[Profile].status # "tombstoned"
               /\ \A i \in Of(Items, c) : c[i].reopened = None

-------------------------------------------------------------------------------
\* The envelope: each family selects the version it had, if that has its content, or a
\* new one.  The versions that the operation allocated itself are allocated again.

Nothing == <<>>   \* no family selects anything

FreshIfUnknown(c, prior, replayed) ==   \* mutant: a known family keeps its version
  {x \in DOMAIN c : x \notin DOMAIN prior \/ prior[x] \in replayed}

FreshIfChanged(c, prior, replayed) ==   \* mutant: what it allocated is not allocated again
  {x \in DOMAIN c : x \notin DOMAIN prior \/ versions[prior[x]] # c[x]}

Fresh(c, prior, replayed) ==
  {x \in DOMAIN c : x \notin DOMAIN prior \/ prior[x] \in replayed \/ versions[prior[x]] # c[x]}

\* A new version is named by its family and the operation, the same at every attempt.
Allocated(r, x) == <<r.op, x>>

Envelope(r, c, prior, replayed) ==
  LET fresh == Fresh(c, prior, replayed)
  IN [req |-> r, content |-> c, fresh |-> fresh,
      selection |-> [x \in DOMAIN c |-> IF x \in fresh THEN Allocated(r, x) ELSE prior[x]]]

-------------------------------------------------------------------------------
\* Calls

Latest(f) == Len(revisions[f])

NoReceipt == [outcome |-> "none", envelope |-> None, observed |-> 0]

Idle == [pc |-> "load", req |-> None, content |-> None, envelope |-> None, reply |-> "none", shown |-> 0]

Answers(a, reply) == call' = [call EXCEPT ![a].pc = "done", ![a].reply = reply]

Assembles(a, prior, replayed) ==
  call' = [call EXCEPT ![a].pc = "evidence",
                       ![a].envelope = Envelope(call[a].req, call[a].content, prior, replayed)]

store == <<versions, revisions, receipts, caseRevisions, caseReceipts>>

\* Reads the base of a modular edit and applies it; the complete Frame is normalized.  A
\* client names only revisions it has seen.
Load(a) ==
  \E r \in Offered[a] :
    LET c == IF r.edit.action = "complete" THEN r.edit.content ELSE Edited(r.frame, r.base, r.edit)
        ok == c # None /\ WellFormed(c) /\ (r.base = 0 => CanBegin(c))
    IN /\ call[a].pc = "load" /\ r.base <= Latest(r.frame)
       /\ call' = [call EXCEPT ![a] =
            IF ~ok THEN [Idle EXCEPT !.pc = "done", !.req = r, !.reply = "refused"]
            ELSE [Idle EXCEPT !.pc = "receipt", !.req = r, !.content = c]]
       /\ UNCHANGED store

\* A creation takes nothing over.  Any other operation looks for its receipt first, so that
\* a retry selects from what the first attempt selected from.
ReadReceipt(a) ==
  LET r     == call[a].req
      found == receipts[r.op]
      prior == IF found.outcome = "committed" THEN found.envelope.selection
               ELSE IF found.observed = 0 THEN Nothing
               ELSE revisions[r.frame][found.observed].selection
      own   == IF found.outcome = "committed" THEN {Allocated(r, x) : x \in found.envelope.fresh} ELSE {}
  IN /\ call[a].pc = "receipt"
     /\ IF r.base = 0 THEN Assembles(a, Nothing, {})
        ELSE IF found = NoReceipt \/ found.envelope.req.frame # r.frame
        THEN call' = [call EXCEPT ![a].pc = "current"]
        ELSE IF KeepsDispositions(prior, call[a].content) THEN Assembles(a, prior, own)
        ELSE Answers(a, "refused")
     /\ UNCHANGED store

ReadCurrent(a) ==
  LET f == call[a].req.frame
  IN /\ call[a].pc = "current"
     /\ IF Latest(f) > 0 /\ Follows(f, Latest(f), call[a].content)
        THEN Assembles(a, revisions[f][Latest(f)].selection, {})
        ELSE Answers(a, "refused")
     /\ UNCHANGED store

RealizedBySome(d) ==   \* mutant: any revision of the Case, and any commit
  /\ \A n \in d.revs : n \in DOMAIN caseRevisions[d.case]
  /\ caseReceipts[d.op] = "committed"

\* Every revision that a settled disposition names exists, and one of them is what the
\* operation that it names has committed.
Realized(d) ==
  /\ d.case \in Cases /\ \A n \in d.revs : n \in DOMAIN caseRevisions[d.case]
  /\ caseReceipts[d.op] = "committed"
  /\ \E n \in d.revs : caseRevisions[d.case][n] = d.op

\* What is found of a Case never goes away, so that one step may stand for its queries.
CheckEvidence(a) ==
  LET c == call[a].content
  IN /\ call[a].pc = "evidence"
     /\ IF \A d \in Of(Dispositions, c) : c[d].state = "settled" => Realized(c[d])
        THEN call' = [call EXCEPT ![a].pc = "commit"]
        ELSE Answers(a, "refused")
     /\ UNCHANGED store

Settle(a) ==
  LET e == call[a].envelope  r == call[a].req
  IN /\ call[a].pc = "commit" /\ receipts[r.op] = NoReceipt /\ Latest(r.frame) = r.base
     /\ LET new == {Allocated(r, x) : x \in e.fresh}
        IN versions' = [v \in DOMAIN versions \cup new |-> IF v \in new THEN e.content[v[2]] ELSE versions[v]]
     /\ revisions' = [revisions EXCEPT ![r.frame] = Append(@, [op |-> r.op, selection |-> e.selection])]
     /\ receipts' = [receipts EXCEPT ![r.op] = [outcome |-> "committed", envelope |-> e, observed |-> r.base]]
     /\ Answers(a, "committed")
     /\ UNCHANGED <<caseRevisions, caseReceipts>>

\* Another revision is current, or the transaction was lost.  The receipt of the rejection
\* names the revision that was observed, unless it is lost too.
Reject(a) ==
  LET r == call[a].req
  IN /\ call[a].pc = "commit" /\ receipts[r.op] = NoReceipt
     /\ Answers(a, IF Latest(r.frame) # r.base THEN "revision_conflict" ELSE "commit_execution_failed")
     /\ receipts' \in {receipts, [receipts EXCEPT ![r.op] =
          [outcome |-> "rejected", envelope |-> call[a].envelope, observed |-> Latest(r.frame)]]}
     /\ UNCHANGED <<versions, revisions, caseRevisions, caseReceipts>>

Replay(a) ==
  LET found == receipts[call[a].req.op]
  IN /\ call[a].pc = "commit" /\ found # NoReceipt
     /\ Answers(a, IF found.envelope # call[a].envelope THEN "idempotency_mismatch"
                   ELSE IF found.outcome = "committed" THEN "replayed"
                   ELSE IF found.observed # call[a].req.base THEN "revision_conflict"
                   ELSE "commit_execution_failed")
     /\ UNCHANGED store

\* A modular edit that lost is shown the revision its receipt observed, once it is read; a
\* receipt of another Frame is not visible to it.
ShowConflict(a) ==
  LET found == receipts[call[a].req.op]
  IN /\ call[a].pc = "done" /\ call[a].reply = "revision_conflict" /\ call[a].shown = 0
     /\ call[a].req.edit.action # "complete"
     /\ found # NoReceipt /\ found.envelope.req.frame = call[a].req.frame
     /\ call' = [call EXCEPT ![a].shown = found.observed]
     /\ UNCHANGED store

-------------------------------------------------------------------------------
CommitCase(k, o) ==
  /\ caseReceipts[o] = None
  /\ \/ /\ caseReceipts' = [caseReceipts EXCEPT ![o] = "committed"]
        /\ caseRevisions' = [caseRevisions EXCEPT ![k] = Append(@, o)]
     \/ caseReceipts' = [caseReceipts EXCEPT ![o] = "rejected"] /\ UNCHANGED caseRevisions
  /\ UNCHANGED <<versions, revisions, receipts, call>>

Init ==
  /\ versions = [v \in {<<InitOp, x>> : x \in UNION {DOMAIN Initial[f] : f \in DOMAIN Initial}} |->
                   Initial[CHOOSE f \in DOMAIN Initial : v[2] \in DOMAIN Initial[f]][v[2]]]
  /\ revisions = [f \in Frames |-> IF f \in DOMAIN Initial
                    THEN <<[op |-> InitOp, selection |-> [x \in DOMAIN Initial[f] |-> <<InitOp, x>>]]>> ELSE <<>>]
  /\ receipts = [o \in Ops |-> NoReceipt]
  /\ caseRevisions = [k \in Cases |-> <<>>]
  /\ caseReceipts = [o \in CaseOps |-> None]
  /\ call = [a \in Attempts |-> Idle]

Next ==
  \/ \E a \in Attempts : \/ Load(a) \/ ReadReceipt(a) \/ ReadCurrent(a) \/ CheckEvidence(a)
                         \/ Settle(a) \/ Reject(a) \/ Replay(a) \/ ShowConflict(a)
  \/ \E k \in Cases, o \in CaseOps : CommitCase(k, o)

Spec == Init /\ [][Next]_vars

-------------------------------------------------------------------------------
\* Properties

TypeOK ==
  /\ \A f \in Frames : \A n \in 1..Latest(f) :
       \A x \in DOMAIN revisions[f][n].selection : revisions[f][n].selection[x] \in DOMAIN versions
  /\ \A o \in Ops : receipts[o] = NoReceipt \/ receipts[o].outcome \in {"committed", "rejected"}
  /\ \A o \in CaseOps : caseReceipts[o] \in {None, "committed", "rejected"}
  /\ \A a \in Attempts : call[a].pc \in {"load", "receipt", "current", "evidence", "commit", "done"}

\* What a revision selects is, family by family, the Frame that its operation submitted,
\* though it takes over versions that others wrote; and a conflicting edit is shown another
\* revision than the one it was based on (frame/index.mjs:598-603, 2239-2271).
FramesAreKept ==
  /\ \A f \in Frames : \A n \in 1..Latest(f) :
       revisions[f][n].op # InitOp => Hydrated(f, n) = receipts[revisions[f][n].op].envelope.content
  /\ \A a \in Attempts : call[a].shown # 0 => call[a].shown # call[a].req.base

\* An item that was settled or tombstoned is active again only in a version that names the
\* version it had, and what an active item says of its reopening stays: walking back from it
\* one comes to the very revision that it names (frame/index.mjs:1118-1133).
ReopensNamePrior ==
  \A f \in Frames : \A n \in 2..Latest(f) : \A i \in Of(Items, Hydrated(f, n)) :
    LET item == Hydrated(f, n)[i]
        known == i \in DOMAIN revisions[f][n - 1].selection
    IN /\ item.reopened # None =>
            \E m \in 1..(n - 1) :
              /\ VersionOf(f, m, i) = item.reopened /\ Hydrated(f, m)[i].lifecycle # "active"
              /\ \A l \in (m + 1)..n : VersionOf(f, l, i) = VersionOf(f, n, i)
       /\ known /\ Hydrated(f, n - 1)[i].lifecycle # "active" /\ item.lifecycle = "active" =>
            item.reopened = VersionOf(f, n - 1, i)

\* A disposition that is settled names a Case operation that committed one of the Case
\* revisions it names, whatever Frames and Cases did meanwhile (frame/index.mjs:1066-1093).
RealizedByCases ==
  \A f \in Frames : \A n \in 1..Latest(f) :
    LET c == Hydrated(f, n)
    IN \A d \in Of(Dispositions, c) : c[d].state = "settled" =>
         \E m \in c[d].revs : m \in DOMAIN caseRevisions[c[d].case] /\ caseRevisions[c[d].case][m] = c[d].op

\* A retry that finds its operation committed builds, from what was selected then, the
\* envelope that was committed, whatever became of the Frame since
\* (frame/index.mjs:598-603, 1106-1109).
RetryIsAnswered(a) ==
  LET r     == call[a].req
      found == receipts[r.op]
  IN /\ call[a].pc = "receipt" /\ call'[a].pc # "receipt"
     /\ found # NoReceipt /\ found.outcome = "committed" /\ found.envelope.req = r
     => call'[a].envelope = found.envelope

\* The exact request of a settled operation is never told idempotency_mismatch.  It is, of
\* a rejection that observed a later revision than it had selected from, and of a commit by
\* an attempt that found no receipt but then its own revision as the current one.
ExactRetriesAgree ==
  \A a \in Attempts : call[a].reply = "idempotency_mismatch" =>
    receipts[call[a].req.op].envelope.req # call[a].req
===============================================================================
