--------------------------- MODULE PredecessorStore ---------------------------
(***************************************************************************)
(* The predecessor store: what the processes that share one SQLite file do *)
(* to it.  Every operation reads with some queries of their own, decides,  *)
(* and then runs one IMMEDIATE transaction that re-checks what it read,    *)
(* advances the operation fence by one and inserts the receipt of the      *)
(* operation.  A transaction may be lost, or take effect with its answer   *)
(* lost; the operation then looks for its receipt, and settles a failure.  *)
(*                                                                         *)
(* Modelled: commits of Case revisions and their refusals, the purge of a  *)
(* tombstoned Case, the rebuild of the disposable projection, the life of  *)
(* the view policies that all of them need, and paged lists.               *)
(***************************************************************************)
EXTENDS Naturals, Sequences, FiniteSets

CONSTANTS
  Processes, Cases,
  Requests,       \* operation identifiers, as the requests they are bound to
  Policies,       \* lifecycles of the revisions of the view policy at the start
  None,
  Offers,         \* bound: the sets of requests that callers may make in one behaviour
  MaxFaults       \* bound: transactions and answers that are lost

Kinds == {"commit", "purge", "rebuild", "revise", "activate", "retire"}

\* context: the revision of the view policy that the request names; on: the Case or the
\* revision of the policy that it is about; the rest is of commits
RequestAssumption ==
  /\ \A r \in Requests : r.kind \in Kinds /\ r.context \in Nat \ {0}
  /\ \A r \in Requests : r.kind \in {"commit", "purge"} => r.on \in Cases
  /\ \A r \in Requests : r.kind = "commit" => r.expected \in Nat /\ r.state \in {"active", "tombstoned"}
  /\ Offers \subseteq SUBSET Requests

PolicyStates == {"created", "active", "superseded", "retired"}

PolicyAssumption == Policies \in Seq(PolicyStates)

\* What a receipt settles, and what it is bound to
Outcomes == {"committed", "rejected", "deleted", "rebuilt", "conflict", "failed", "changed"}
Bounds   == [fence : Nat, number : Nat]
Receipts == [outcome : Outcomes, fence : Nat, bound : Bounds \cup {None}]

NoneAssumption == None \notin Nat /\ None \notin Receipts /\ MaxFaults \in Nat

ASSUME Assumptions == RequestAssumption /\ PolicyAssumption /\ NoneAssumption

VARIABLES
  fence,        \* store_fence.operation_fence
  cases,        \* owners, owner_revisions, owner_current and owner_versions of each Case
  policies,     \* view_policy_revisions, in the order of their numbers
  receipts,     \* store_operation_receipts
  generations,  \* disposable_projection_generations with their entries
  selection,    \* disposable_projection_selection
  bound,        \* the fence and revision that callers put in a plan or a rebuild
  procs,        \* what each process is doing
  offered,      \* the requests that callers make
  faults

store == <<fence, cases, policies, receipts, generations, selection>>
vars  == <<store, bound, procs, offered, faults>>

Idle == [pc |-> "idle", req |-> None, bound |-> None, fence |-> 0, data |-> None,
         tries |-> 0]

Init ==
  /\ fence = 1
  /\ cases = [c \in Cases |-> [made |-> 0, current |-> 0, state |-> "none", alias |-> None,
                               payload |-> {}, updated |-> 0]]
  /\ policies = [n \in DOMAIN Policies |->
                   [state |-> Policies[n], from |-> IF Policies[n] = "active" THEN 0 ELSE None,
                    until |-> None]]
  /\ receipts = [r \in Requests |-> None]
  /\ generations = [r \in Requests |-> None]
  /\ selection = [status |-> "unavailable", of |-> None]
  /\ bound = [r \in Requests |-> None]
  /\ procs = [p \in Processes |-> Idle]
  /\ offered \in Offers
  /\ faults = 0

-------------------------------------------------------------------------------
\* What the queries return

Active(n) == n \in DOMAIN policies /\ policies[n].state = "active"

Known(c) == cases[c].made > 0

\* readCanonicalCorpus: every Case with a current revision, tombstoned ones too
Corpus == {<<c, cases[c].current>> : c \in {d \in Cases : cases[d].current # 0}}

\* hasStructuralClaimConflict: another current Case claims the alias, in whatever state
ClaimConflict(r) ==
  r.alias # None /\ \E c \in Cases \ {r.on} : cases[c].current # 0 /\ cases[c].alias = r.alias

\* purgeProjectionChanges: the entries to take, by generation
EntriesOf(c) ==
  [g \in Requests |-> IF generations[g] = None THEN {}
                      ELSE {e \in generations[g].entries : e[1] = c}]

-------------------------------------------------------------------------------
\* How a process moves on

Goto(p, pc) == procs' = [procs EXCEPT ![p].pc = pc]

\* What a call answers is left out: a receipt, if there is one of its request, or a refusal.
Return(p) == procs' = [procs EXCEPT ![p] = Idle]

Receipt(p, outcome, at) ==
  receipts' = [receipts EXCEPT ![procs[p].req] =
                 [outcome |-> outcome, fence |-> at, bound |-> procs[p].bound]]

\* Callers plan a purge from the corpus they read, and bind a rebuild to its fence; they
\* may do so again until they know of a receipt.
Plan(r) ==
  /\ r.kind \in {"purge", "rebuild"}
  /\ receipts[r] = None /\ Active(r.context)
  /\ r.kind = "purge" => cases[r.on].current # 0 /\ cases[r.on].state = "tombstoned"
  /\ bound' = [bound EXCEPT ![r] =
                 [fence |-> fence, number |-> IF r.kind = "purge" THEN cases[r.on].current ELSE 0]]
  /\ bound'[r] # bound[r]
  /\ UNCHANGED <<store, procs, faults>>

\* prepare, the first look for a receipt, and the check of the view; without a receipt and
\* under an active view the operation goes on.
Invoke(p, r) ==
  /\ procs[p].pc = "idle"
  /\ r.kind \in {"purge", "rebuild"} => bound[r] # None
  /\ receipts[r] = None /\ Active(r.context)
  /\ procs' = [procs EXCEPT ![p] = [Idle EXCEPT !.pc = "observe", !.req = r, !.bound = bound[r],
                                                !.fence = fence]]
  /\ UNCHANGED <<store, bound, faults>>

-------------------------------------------------------------------------------
\* commitOwnerRevision

ObserveCommit(p) ==
  LET r == procs[p].req
  IN  /\ procs[p].pc = "observe" /\ r.kind = "commit"
      /\ IF cases[r.on].current # r.expected \/ ClaimConflict(r)
         THEN Goto(p, "settle")
         ELSE Goto(p, "transact")
      /\ UNCHANGED <<store, bound, faults>>

\* Mutant: the view is checked before the transaction only.
CommitsUnderAnyView(p) ==
  LET r == procs[p].req
  IN  /\ receipts[r] = None
      /\ IF r.expected = 0 THEN ~Known(r.on) ELSE cases[r.on].current = r.expected
      /\ ~ClaimConflict(r)

\* buildCommitSql: what its guards ask of the store
Commits(p) ==
  LET r == procs[p].req
  IN  /\ receipts[r] = None
      /\ Active(r.context)
      /\ IF r.expected = 0 THEN ~Known(r.on) ELSE cases[r.on].current = r.expected
      /\ ~ClaimConflict(r)

EffectOfCommit(p) ==
  LET r == procs[p].req
  IN  /\ cases' = [cases EXCEPT ![r.on] =
                     [made |-> r.expected + 1, current |-> r.expected + 1, state |-> r.state,
                      alias |-> r.alias, payload |-> @.payload \cup {r.expected + 1},
                      updated |-> fence + 1]]
      /\ fence' = fence + 1
      /\ Receipt(p, "committed", fence + 1)
      /\ UNCHANGED <<policies, generations, selection>>

\* After a failure without a receipt the refusal is settled, whatever it was.
RecheckCommit(p) ==
  /\ procs[p].pc = "failed" /\ procs[p].req.kind = "commit"
  /\ IF receipts[procs[p].req] # None THEN Return(p) ELSE Goto(p, "settle")
  /\ UNCHANGED <<store, bound, faults>>

\* settleFailure: guarded by the absence of a receipt alone
SettleCommit(p) ==
  /\ procs[p].pc = "settle" /\ procs[p].req.kind = "commit"
  /\ \/ /\ receipts[procs[p].req] = None
        /\ fence' = fence + 1
        /\ Receipt(p, "rejected", fence + 1)
        /\ Return(p)
        /\ UNCHANGED faults
     \/ /\ receipts[procs[p].req] # None \/ faults < MaxFaults
        /\ faults' = IF receipts[procs[p].req] # None THEN faults ELSE faults + 1
        /\ Return(p)
        /\ UNCHANGED <<fence, receipts>>
  /\ UNCHANGED <<cases, policies, generations, selection, bound>>

-------------------------------------------------------------------------------
\* case.purge.execute and purgeCasePayload

ObservePurge(p) ==
  LET r == procs[p].req
  IN  /\ procs[p].pc = "observe" /\ r.kind = "purge"
      /\ IF procs[p].fence # procs[p].bound.fence \/ cases[r.on].current # procs[p].bound.number
         THEN Return(p)
         ELSE procs' = [procs EXCEPT ![p].pc = "transact", ![p].data = EntriesOf(r.on)]
      /\ UNCHANGED <<store, bound, faults>>

\* The plan binds every revision from 1 to the current one, and their versions.
Purges(p) ==
  LET case == cases[procs[p].req.on]
  IN  /\ receipts[procs[p].req] = None
      /\ fence = procs[p].fence
      /\ case.current = procs[p].bound.number /\ case.state = "tombstoned"
      /\ case.made = procs[p].bound.number /\ case.payload = 1 .. procs[p].bound.number

\* The projection is changed by the entries that were read before.
EffectOfPurge(p) ==
  LET r     == procs[p].req
      taken == procs[p].data
  IN  /\ cases' = [cases EXCEPT ![r.on].current = 0, ![r.on].state = "none", ![r.on].alias = None,
                                ![r.on].payload = {}, ![r.on].updated = 0]
      /\ generations' = [g \in Requests |->
                           IF generations[g] = None THEN None
                           ELSE [generations[g] EXCEPT !.entries = @ \ taken[g]]]
      /\ selection' = IF \E g \in Requests : taken[g] # {} THEN [selection EXCEPT !.status = "stale"]
                      ELSE selection
      /\ fence' = procs[p].fence + 1
      /\ Receipt(p, "deleted", procs[p].fence + 1)
      /\ UNCHANGED policies

\* After a failure the receipt, if another call settled one, or "not deleted"
RecheckPurge(p) ==
  /\ procs[p].pc = "failed" /\ procs[p].req.kind = "purge"
  /\ Return(p)
  /\ UNCHANGED <<store, bound, faults>>

-------------------------------------------------------------------------------
\* projection.rebuild

ObserveRebuild(p) ==
  /\ procs[p].pc = "observe" /\ procs[p].req.kind = "rebuild"
  /\ IF procs[p].fence # procs[p].bound.fence \/ fence # procs[p].bound.fence
     THEN procs' = [procs EXCEPT ![p].pc = "settle", ![p].data = "conflict"]
     ELSE procs' = [procs EXCEPT ![p].pc = "transact", ![p].data = Corpus]
  /\ UNCHANGED <<store, bound, faults>>

\* Mutant: the replacement is selected at whatever fence the store is.
RebuildsAnyFence(p) == receipts[procs[p].req] = None

Rebuilds(p) == receipts[procs[p].req] = None /\ fence = procs[p].bound.fence

\* selectReplacement
EffectOfRebuild(p) ==
  LET r == procs[p].req
  IN  /\ generations' = [generations EXCEPT ![r] = [source  |-> procs[p].bound.fence,
                                                    entries |-> procs[p].data]]
      /\ selection' = [status |-> "current", of |-> r]
      /\ fence' = procs[p].bound.fence + 1
      /\ Receipt(p, "rebuilt", procs[p].bound.fence + 1)
      /\ UNCHANGED <<cases, policies>>

RecheckRebuild(p) ==
  /\ procs[p].pc = "failed" /\ procs[p].req.kind = "rebuild"
  /\ IF receipts[procs[p].req] # None THEN Return(p)
     ELSE procs' = [procs EXCEPT ![p].pc   = "settle",
                                 ![p].data = IF fence # procs[p].bound.fence THEN "conflict"
                                             ELSE "failed"]
  /\ UNCHANGED <<store, bound, faults>>

\* settleFailure reads the fence, and tries three times to settle the failure at it.
PrepareFailure(p) ==
  /\ procs[p].pc = "settle" /\ procs[p].req.kind = "rebuild"
  /\ procs' = [procs EXCEPT ![p].pc = "settling", ![p].fence = fence]
  /\ UNCHANGED <<store, bound, faults>>

SettleRebuild(p) ==
  LET r == procs[p].req
  IN  /\ procs[p].pc = "settling"
      /\ \/ /\ receipts[r] = None /\ fence = procs[p].fence
            /\ selection' = [selection EXCEPT !.status =
                               IF selection.of = None THEN "unavailable" ELSE "stale"]
            /\ fence' = fence + 1
            /\ Receipt(p, procs[p].data, fence + 1)
            /\ Return(p)
         \/ /\ receipts[r] # None
            /\ Return(p)
            /\ UNCHANGED <<fence, receipts, selection>>
         \/ /\ receipts[r] = None /\ fence # procs[p].fence
            /\ IF procs[p].tries = 2 THEN Return(p)
               ELSE procs' = [procs EXCEPT ![p].pc = "settle", ![p].tries = @ + 1]
            /\ UNCHANGED <<fence, receipts, selection>>
      /\ UNCHANGED <<cases, policies, generations, bound, faults>>

-------------------------------------------------------------------------------
\* view_policy.revise, .activate, .retire

Latest == Len(policies)

Serving == {n \in DOMAIN policies : policies[n].state = "active"}

\* What each asks of the revision it is about, before the transaction and within it
Candidate(r) ==
  /\ r.on \in DOMAIN policies
  /\ CASE r.kind = "revise"   -> r.on = Latest /\ policies[r.on].state # "retired"
       [] r.kind = "activate" -> r.on = Latest /\ policies[r.on].state = "created"
       [] r.kind = "retire"   -> policies[r.on].state = "active"

PolicyRequest(r) == r.kind \in {"revise", "activate", "retire"}

\* An activation supersedes the revision that it saw active.
ObservePolicy(p) ==
  /\ procs[p].pc = "observe" /\ PolicyRequest(procs[p].req)
  /\ IF Candidate(procs[p].req)
     THEN procs' = [procs EXCEPT ![p].pc = "transact", ![p].data = Serving]
     ELSE Return(p)
  /\ UNCHANGED <<store, bound, faults>>

\* commitPolicyChange
Changes(p) ==
  LET r == procs[p].req
  IN  /\ receipts[r] = None
      /\ Active(r.context)
      /\ fence = procs[p].fence
      /\ Candidate(r)

Ended(n, how, at) == [policies[n] EXCEPT !.state = how, !.until = at]

EffectOfPolicy(p) ==
  LET r  == procs[p].req
      at == procs[p].fence + 1
  IN  /\ policies' =
           CASE r.kind = "revise" ->
                  Append([policies EXCEPT ![r.on] = IF @.state = "created" THEN Ended(r.on, "superseded", at)
                                                    ELSE @],
                         [state |-> "created", from |-> None, until |-> None])
             [] r.kind = "activate" ->
                  [n \in DOMAIN policies |->
                     IF n = r.on THEN [policies[n] EXCEPT !.state = "active", !.from = at]
                     ELSE IF n \in procs[p].data /\ policies[n].state = "active"
                          THEN Ended(n, "superseded", at) ELSE policies[n]]
             [] r.kind = "retire" -> [policies EXCEPT ![r.on] = Ended(r.on, "retired", at)]
      /\ fence' = at
      /\ Receipt(p, "changed", at)
      /\ UNCHANGED <<cases, generations, selection>>

RecheckPolicy(p) ==
  /\ procs[p].pc = "failed" /\ PolicyRequest(procs[p].req)
  /\ Return(p)
  /\ UNCHANGED <<store, bound, faults>>

-------------------------------------------------------------------------------
\* The transaction

Admits(p) ==
  CASE procs[p].req.kind = "commit"  -> Commits(p)
    [] procs[p].req.kind = "purge"   -> Purges(p)
    [] procs[p].req.kind = "rebuild" -> Rebuilds(p)
    [] PolicyRequest(procs[p].req)   -> Changes(p)

Effect(p) ==
  \/ procs[p].req.kind = "commit"  /\ EffectOfCommit(p)
  \/ procs[p].req.kind = "purge"   /\ EffectOfPurge(p)
  \/ procs[p].req.kind = "rebuild" /\ EffectOfRebuild(p)
  \/ PolicyRequest(procs[p].req)   /\ EffectOfPolicy(p)

Transact(p) ==
  /\ procs[p].pc = "transact"
  /\ Admits(p)
  /\ Effect(p)
  /\ \/ Return(p) /\ UNCHANGED faults
     \/ faults < MaxFaults /\ faults' = faults + 1 /\ Goto(p, "failed")
  /\ UNCHANGED bound

\* A guard fails; or the transaction is lost to a busy store or to a timeout.
RollBack(p) ==
  /\ procs[p].pc = "transact"
  /\ \/ ~Admits(p) /\ UNCHANGED faults
     \/ Admits(p) /\ faults < MaxFaults /\ faults' = faults + 1
  /\ Goto(p, "failed")
  /\ UNCHANGED <<store, bound>>

\* A process is killed.
Kill(p) ==
  /\ procs[p].pc # "idle" /\ faults < MaxFaults
  /\ faults' = faults + 1
  /\ procs' = [procs EXCEPT ![p] = Idle]
  /\ UNCHANGED <<store, bound>>

-------------------------------------------------------------------------------
\* listOwnerCurrent: pages of one, newest first, each at the fence of the first.  Of a page
\* one query checks the view, and another reads what is visible under it.

\* The query joins the view: once it is not active any more, nothing is visible.
After(key) == {c \in Cases : Active(1) /\ cases[c].current # 0 /\ (key = 0 \/ cases[c].updated < key)}

\* of: the corpus and the view at the first page, which no code reads; tries: how far it read
List(p) ==
  /\ procs[p].pc = "idle" /\ Active(1)
  /\ procs' = [procs EXCEPT ![p] = [Idle EXCEPT !.pc = "paging", !.data = [items |-> {}, of |-> None]]]
  /\ UNCHANGED <<store, bound, faults>>

NextPage(p) ==
  /\ procs[p].pc = "listing"
  /\ IF Active(1) THEN Goto(p, "paging") ELSE Return(p)
  /\ UNCHANGED <<store, bound, faults>>

FirstPage(p) == procs[p].fence = 0

TakePage(p) ==
  LET rest == After(procs[p].tries)
      next == CHOOSE c \in rest : \A d \in rest : cases[d].updated <= cases[c].updated
      was  == procs[p].data
      read == IF rest = {} THEN was.items ELSE was.items \cup {<<next, cases[next].current>>}
      of   == IF FirstPage(p) THEN [corpus |-> Corpus, active |-> Active(1)] ELSE was.of
  IN  procs' = [procs EXCEPT ![p] =
                  [Idle EXCEPT !.pc = IF Cardinality(rest) > 1 THEN "listing" ELSE "listed",
                               !.fence = fence, !.tries = IF rest = {} THEN 0 ELSE cases[next].updated,
                               !.data = [items |-> read, of |-> of]]]

\* Mutant: a page is taken at any fence.
ReadsAnyFence(p) ==
  /\ procs[p].pc = "paging" /\ TakePage(p)
  /\ UNCHANGED <<store, bound, faults>>

ReadPage(p) ==
  /\ procs[p].pc = "paging"
  /\ IF FirstPage(p) \/ fence = procs[p].fence THEN TakePage(p) ELSE Return(p)
  /\ UNCHANGED <<store, bound, faults>>

Listed(p) ==
  /\ procs[p].pc = "listed"
  /\ procs' = [procs EXCEPT ![p] = Idle]
  /\ UNCHANGED <<store, bound, faults>>

-------------------------------------------------------------------------------
Steps(p) ==
  \/ ObserveCommit(p) \/ RecheckCommit(p) \/ SettleCommit(p)
  \/ ObservePurge(p) \/ RecheckPurge(p)
  \/ ObserveRebuild(p) \/ RecheckRebuild(p) \/ PrepareFailure(p) \/ SettleRebuild(p)
  \/ ObservePolicy(p) \/ RecheckPolicy(p)
  \/ Transact(p) \/ RollBack(p) \/ Kill(p)
  \/ List(p) \/ ReadPage(p) \/ NextPage(p) \/ Listed(p)

Next ==
  /\ \/ \E r \in offered : Plan(r)
     \/ \E p \in Processes, r \in offered : Invoke(p, r)
     \/ \E p \in Processes : Steps(p)
  /\ UNCHANGED offered

Spec == Init /\ [][Next]_vars

-------------------------------------------------------------------------------
\* What each table and each process holds.  What a process has read is not typed.
Aliases     == {None} \cup {r.alias : r \in {q \in Requests : q.kind = "commit"}}
Entries     == SUBSET (Cases \X Nat)
CaseRows    == [made : Nat, current : Nat, state : {"none", "active", "tombstoned"},
                alias : Aliases, payload : SUBSET Nat, updated : Nat]
PolicyRows  == [state : PolicyStates, from : Nat \cup {None}, until : Nat \cup {None}]
Generations == [source : Nat, entries : Entries]
Selections  == [status : {"unavailable", "current", "stale"}, of : Requests \cup {None}]
Listings    == {"paging", "listing", "listed"}
Fields      == {"pc", "req", "bound", "fence", "data", "tries"}

ProcessOK(q) ==
  /\ DOMAIN q = Fields
  /\ q.pc \in {"idle", "observe", "transact", "failed", "settle", "settling"} \cup Listings
  /\ q.pc \notin Listings => /\ q.req \in Requests \cup {None} /\ q.bound \in Bounds \cup {None}
                             /\ q.fence \in Nat /\ q.tries \in Nat

TypeOK ==
  /\ fence \in Nat
  /\ cases \in [Cases -> CaseRows]
  /\ policies \in Seq(PolicyRows)
  /\ receipts \in [Requests -> Receipts \cup {None}]
  /\ generations \in [Requests -> Generations \cup {None}]
  /\ selection \in Selections
  /\ bound \in [Requests -> Bounds \cup {None}]
  /\ DOMAIN procs = Processes /\ procs = [p \in Processes |-> procs[p]]
  /\ \A p \in Processes : ProcessOK(procs[p])
  /\ offered \subseteq Requests
  /\ faults \in Nat

Settled(r, outcome) == receipts[r] # None /\ receipts[r].outcome = outcome

\* One transaction, one fence, one receipt: although some of the transactions add one to
\* the fence and others write the number they computed before they began, the receipts
\* carry every fence from the first to the current one, each of them once.
FencesCountReceipts ==
  LET settled == {r \in Requests : receipts[r] # None}
  IN  /\ {receipts[r].fence : r \in settled} = 2 .. fence
      /\ Cardinality(settled) = fence - 1

\* Once a purge has its receipt the Case has no current revision and no payload, no
\* generation of the projection keeps an entry of it, nothing brings it back, and its
\* history is the one that the plan had shown; commits, refusals, rebuilds and repeated
\* purges run in between (purgeCasePayload, selectReplacement).
PurgedIsGone ==
  \A r \in Requests : r.kind = "purge" /\ Settled(r, "deleted") =>
    /\ cases[r.on].current = 0 /\ cases[r.on].payload = {}
    /\ cases[r.on].made = receipts[r].bound.number
    /\ \A g \in Requests : EntriesOf(r.on)[g] = {}

\* A projection that is called current, and was built at the last fence before that of
\* its own receipt, holds the current revisions and nothing else, whatever was committed
\* or purged while it was built.
ProjectionIsExact ==
  selection.status = "current" /\ generations[selection.of].source + 1 = fence
    => generations[selection.of].entries = Corpus

\* The store holds what its receipts say and no more: every fence has its receipt, what was
\* purged is gone, and a current projection is that of the current revisions.
StoreIsExact == FencesCountReceipts /\ PurgedIsGone /\ ProjectionIsExact

\* What took effect did so while the view policy that it names was active: between the
\* fence of its activation and the one that superseded or retired it, although the view
\* is read before the transaction and only some transactions read it again.
SettledUnderTheirView ==
  \A r \in Requests : receipts[r] # None /\ ~Settled(r, "rejected")
                      /\ ~Settled(r, "conflict") /\ ~Settled(r, "failed") =>
    /\ policies[r.context].from # None /\ policies[r.context].from < receipts[r].fence
    /\ policies[r.context].until # None => receipts[r].fence <= policies[r.context].until

\* No two Cases hold an alias, although it is looked up before the transaction and a
\* tombstoned Case holds its own until it is purged.
AliasesAreUnique ==
  \A c, d \in Cases : c # d /\ cases[c].current # 0 /\ cases[c].alias # None
                      => ~(cases[d].current # 0 /\ cases[d].alias = cases[c].alias)

\* A list that ends is the corpus of the fence of its first page, although others commit
\* between its pages and between the two queries of each; but it is empty if the view is
\* superseded or retired between the two of the first (pageOwnerCurrent).
ListIsASnapshot ==
  \A p \in Processes : procs[p].pc = "listed" =>
    LET first == procs[p].data.of
    IN procs[p].data.items = IF first.active THEN first.corpus ELSE {}

-------------------------------------------------------------------------------
\* What the code does not do: an empty list may succeed although Cases are current.
ListsAreComplete ==
  \A p \in Processes : procs[p].pc = "listed" => procs[p].data.items = procs[p].data.of.corpus
===============================================================================
