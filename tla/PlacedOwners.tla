------------------------------ MODULE PlacedOwners ------------------------------
(***************************************************************************)
(* Frames and Cases on the successor store: the facades that turn an       *)
(* operation into a complete revision, the foundation that places every    *)
(* revision in a Namespace, the Namespaces themselves, and the search that *)
(* reads what the revisions project.                                       *)
(*                                                                         *)
(* A facade call is five separate uses of the store: it loads a revision,  *)
(* looks for a receipt, resolves the Namespace, reads the current revision *)
(* and commits.  The commit is module SuccessorStore's, here one action    *)
(* that settles, replays, rejects or fails; admission by a Profile, which  *)
(* is tested at each of the five uses, is left to that module.  Namespace  *)
(* is the only placement a facade accepts: the Chat default of             *)
(* placement/index.mjs is refused before it is reached.                    *)
(*                                                                         *)
(* The resources of an owner are reduced to what guards and search tell    *)
(* apart; `text` stands for the descriptive fields of all of them.         *)
(***************************************************************************)
EXTENDS Integers, Sequences, FiniteSets, TLC

CONSTANTS
  Attempts,       \* invocations of an operation, each by some client process
  Ops,            \* operation identities chosen by the clients
  Frames, Cases,  \* the owners
  Namespaces,
  Admins,         \* clients of the Context operations
  Searchers,      \* clients of the search
  Initial,        \* [content, ns] of each owner that exists at the start
  Open,           \* the Namespaces that are active at the start
  Plan,           \* the requests each attempt may carry
  AdminPlan,      \* the requests each of the Admins may carry
  InitOp,         \* the operation that created the owners
  None            \* no placement, no cursor, no handoff, no receipt

Owners == Frames \cup Cases

\* A request is [op, owner, ns, base, edit]: base is the expected revision number,
\* or the number of the revision named by if_match; a complete edit brings all of
\* the content, any other edit is modular and is applied to the base.
Modular(r) == r.edit.action # "complete"

ASSUME PlanAssumption ==
  /\ Frames \cap Cases = {} /\ DOMAIN Initial \subseteq Owners /\ InitOp \notin Ops
  /\ IsFiniteSet(DOMAIN Initial) /\ IsFiniteSet(Open) /\ Open \subseteq Namespaces
  /\ \A o \in DOMAIN Initial : Initial[o].ns \in Namespaces
  /\ \A a \in Attempts : \A r \in Plan[a] :
       /\ r.op \in Ops /\ r.owner \in Owners /\ r.ns \in Namespaces /\ r.base \in Nat
       /\ Modular(r) => r.base > 0
  /\ \A m \in Admins : \A r \in AdminPlan[m] :
       r.ns \in Namespaces /\ r.parent \in Namespaces \cup {None} /\ r.expected \in Nat

\* The tokens that are allocated for placements, and what a revision retains of one
Tokens     == Owners \X (Ops \cup {InitOp})
Placements == [ns : Namespaces, family : Tokens, version : Tokens]

Generations == [h : Nat, p : Nat, r : Nat]
Cursors     == [offset : Nat, generations : Generations]

ASSUME NoneAssumption == None \notin Namespaces /\ None \notin Placements /\ None \notin Cursors

VARIABLES
  history,      \* owner_revisions: [content, placement, op, edit] by owner and number
  namespaces,   \* context_namespace_current: [lifecycle, rev]
  fence,        \* store_fence.operation_fence
  generations,  \* store_fence: hierarchy (h), placement (p) and resource (r) generation
  query,        \* owner_query_current: [number, material] of each owner, or NoRow
  claims,       \* owner_current_claims: [ns, alias, owner, number]
  receipts,     \* store_operation_receipts, by operation_id
  call,         \* where each attempt is and what it has read
  admin,        \* where each of the Admins is and what it has read
  search        \* where each search is, and the pages it was given

vars == <<history, namespaces, fence, generations, query, claims, receipts, call, admin, search>>

-------------------------------------------------------------------------------
\* The content of a Frame and of a Case

\* A Frame is [status, text, items, closure, results].  items are its Discovery
\* items by identity; there is one disposition boundary, absent, open or closed,
\* and results are the dispositions it lists.
Item(lifecycle, reopened) == [lifecycle |-> lifecycle, reopened |-> reopened]

Undecided == {"pending", "awaiting"}

Unsettled(c) == \E d \in DOMAIN c.results : c.results[d] \in Undecided

\* What the normalizer demands of a complete Frame.
WellFormed(c) ==
  /\ DOMAIN c.items # {}
  /\ \A i \in DOMAIN c.items : c.items[i].lifecycle # "active" => ~c.items[i].reopened
  /\ (c.closure = "absent") = (DOMAIN c.results = {})
  /\ c.closure = "closed" \/ c.status = "completed" => ~Unsettled(c)

\* The complete Frame that a modular edit makes of its base; None if the resource is
\* unknown, is there already, or is not in the state the edit is for.
FrameEdit(c, e) ==
  CASE e.action = "update" -> [c EXCEPT !.text = e.text, !.status = e.status]
    [] e.action = "discovery.create" /\ e.id \notin DOMAIN c.items ->
         [c EXCEPT !.items = (e.id :> Item("active", FALSE)) @@ @]
    [] e.action = "discovery.settle" /\ e.id \in DOMAIN c.items ->
         [c EXCEPT !.items[e.id].lifecycle = "settled"]
    [] e.action = "discovery.tombstone" /\ e.id \in DOMAIN c.items ->
         [c EXCEPT !.items[e.id].lifecycle = "tombstoned"]
    [] e.action = "discovery.reopen" /\ e.id \in DOMAIN c.items ->
         [c EXCEPT !.items[e.id] = Item("active", TRUE)]
    [] e.action = "boundary.create" /\ c.closure = "absent" ->
         [c EXCEPT !.closure = e.closure, !.results = e.results]
    [] e.action = "boundary.close" /\ c.closure # "absent" -> [c EXCEPT !.closure = "closed"]
    [] e.action = "disposition.create" /\ c.closure # "absent" /\ e.id \notin DOMAIN c.results ->
         [c EXCEPT !.results = (e.id :> e.result) @@ @]
    [] e.action = "disposition.classify" /\ e.id \in DOMAIN c.results ->
         [c EXCEPT !.results[e.id] = e.result]
    [] e.action = "disposition.settle" /\ e.id \in DOMAIN c.results
         /\ c.results[e.id] \in {"awaiting", "settled"} -> [c EXCEPT !.results[e.id] = "settled"]
    [] OTHER -> None

\* A Case is [state, text, aliases].  No modular edit changes its aliases, and none is
\* applied to a tombstoned Case.
CaseEdit(c, e) ==
  CASE e.action = "update"    /\ c.state = "active" -> [c EXCEPT !.text = e.text]
    [] e.action = "tombstone" /\ c.state = "active" -> [c EXCEPT !.state = "tombstoned"]
    [] OTHER -> None

Edited(o, c, e) == IF o \in Frames THEN FrameEdit(c, e) ELSE CaseEdit(c, e)

Acceptable(o, c) == c # None /\ (o \in Frames => WellFormed(c))

\* What search and graph queries find of a content.  The realization of a disposition
\* and the marks of a reopened item are not in it, nor is a tombstoned resource.
ResultState(state) == IF state \in {"awaiting", "settled"} THEN "case" ELSE state

FrameMaterial(c) ==
  [documents |-> {<<c.status, c.text, c.closure>>}
     \cup {<<i, c.items[i].lifecycle>> : i \in {j \in DOMAIN c.items : c.items[j].lifecycle # "tombstoned"}}
     \cup {<<d, ResultState(c.results[d])>> : d \in DOMAIN c.results},
   aliases |-> {}]

\* The aliases of a Case stay in its material when it is tombstoned.
CaseMaterial(c) ==
  [documents |-> IF c.state = "active" THEN {<<c.text>>} ELSE {}, aliases |-> c.aliases]

Material(o, c) == IF o \in Frames THEN FrameMaterial(c) ELSE CaseMaterial(c)

-------------------------------------------------------------------------------
\* Placement

Number(o) == Len(history[o])

CurrentPlacement(o) == history[o][Number(o)].placement

\* The placement a request selects over the prior one: its family is the owner's first
\* one for ever, and its version changes exactly when the Namespace does.  What is
\* allocated is named by the owner and the operation.
Select(r, prior) ==
  IF prior = None
  THEN [ns |-> r.ns, family |-> <<r.owner, r.op>>, version |-> <<r.owner, r.op>>, predecessor |-> None]
  ELSE IF prior.ns = r.ns
  THEN [ns |-> r.ns, family |-> prior.family, version |-> prior.version, predecessor |-> None]
  ELSE [ns |-> r.ns, family |-> prior.family, version |-> <<r.owner, r.op>>, predecessor |-> prior.version]

\* The three keys of a placement that a revision retains.
Placed(selected) == [ns |-> selected.ns, family |-> selected.family, version |-> selected.version]

PriorIsCurrent(r) ==   \* mutant: always the placement of the current revision
  IF r.base = 0 \/ Number(r.owner) = 0 THEN None ELSE CurrentPlacement(r.owner)

\* The revision a request is based on, as a read of that exact revision gives it.
Base(r) == history[r.owner][r.base]

\* A modular edit follows the placement of the revision it is based on; a complete one
\* that of the current revision, if that is the expected one.
PriorOfEdit(r) == Base(r).placement

PriorOfComplete(r) ==
  IF r.base > 0 /\ Number(r.owner) = r.base THEN CurrentPlacement(r.owner) ELSE None

Prior(r) == IF Modular(r) THEN PriorOfEdit(r) ELSE PriorOfComplete(r)

-------------------------------------------------------------------------------
\* Owner operations

Idle == [pc |-> "load", req |-> None, content |-> None, selected |-> None, nsRev |-> 0,
         placementChanged |-> FALSE, queryChanged |-> FALSE, reply |-> "none"]

Goes(a, pc) == call' = [call EXCEPT ![a].pc = pc]

Answers(a, reply) == call' = [call EXCEPT ![a].pc = "done", ![a].reply = reply]

\* The meaning of a request for a receipt: the request with its complete content and
\* its selected placement, without what it would change or the Namespace's revision.
Meaning(a) == [req |-> call[a].req, content |-> call[a].content, selected |-> call[a].selected]

\* The meaning of the whole envelope.
Envelope(a) == [meaning |-> Meaning(a), nsRev |-> call[a].nsRev,
                placementChanged |-> call[a].placementChanged, queryChanged |-> call[a].queryChanged]

NoReceipt == [outcome |-> "none", envelope |-> None]

\* The receipt of the operation, NoReceipt while it is not settled.
Found(a) == receipts[call[a].req.op]

\* Loads the base, edits it and assembles the complete envelope.  A client names only
\* revisions it has seen.
Load(a) ==
  \E r \in Plan[a] :
    LET next == IF Modular(r) THEN Edited(r.owner, Base(r).content, r.edit)
                              ELSE r.edit.content
    IN /\ call[a].pc = "load" /\ r.base <= Number(r.owner)
       /\ call' = [call EXCEPT ![a] =
            IF Acceptable(r.owner, next)
            THEN [Idle EXCEPT !.pc = "receipt", !.req = r, !.content = next,
                              !.selected = Select(r, Prior(r))]
            ELSE [Idle EXCEPT !.pc = "done", !.req = r, !.reply = "refused"]]
       /\ UNCHANGED <<history, namespaces, fence, generations, query, claims, receipts, admin, search>>

\* A settled operation is replayed before anything current is looked at.  The receipt
\* of a rejection has no meaning to compare.
ReadReceipt(a) ==
  /\ call[a].pc = "receipt"
  /\ CASE Found(a).outcome = "none" -> Goes(a, "namespace")
       [] Found(a).outcome = "committed" /\ Found(a).envelope.meaning = Meaning(a) -> Answers(a, "replayed")
       [] OTHER -> Answers(a, "idempotency_mismatch")
  /\ UNCHANGED <<history, namespaces, fence, generations, query, claims, receipts, admin, search>>

ResolveNamespace(a) ==
  LET found == namespaces[call[a].req.ns]
  IN /\ call[a].pc = "namespace"
     /\ IF found.lifecycle = "active"
        THEN call' = [call EXCEPT ![a].pc = "current", ![a].nsRev = found.rev]
        ELSE Answers(a, "context_stale")
     /\ UNCHANGED <<history, namespaces, fence, generations, query, claims, receipts, admin, search>>

\* An owner without a revision has no row in the query tables.
NoRow == [number |-> 0, material |-> None]

NeverChanges(a) == FALSE   \* mutant: the generation never advances

PlacementChanges(a) ==
  LET o == call[a].req.owner
  IN Number(o) = 0 \/ CurrentPlacement(o) # Placed(call[a].selected)

QueryChanges(a) ==
  LET o == call[a].req.owner
  IN query[o] = NoRow \/ query[o].material # Material(o, call[a].content)

\* Reads the current revision, and computes which generations the commit advances.
ReadCurrent(a) ==
  /\ call[a].pc = "current"
  /\ IF Number(call[a].req.owner) = call[a].req.base
     THEN call' = [call EXCEPT ![a].pc = "commit", ![a].placementChanged = PlacementChanges(a),
                               ![a].queryChanged = QueryChanges(a)]
     ELSE Answers(a, "revision_conflict")
  /\ UNCHANGED <<history, namespaces, fence, generations, query, claims, receipts, admin, search>>

PlacementGuard(a) ==
  /\ namespaces[call[a].req.ns].lifecycle = "active"
  /\ namespaces[call[a].req.ns].rev = call[a].nsRev

ExpectsAny(a) == TRUE   \* mutant: the expected revision is not compared

ExpectsCurrent(a) == Number(call[a].req.owner) = call[a].req.base

Claimed(o, number, content, ns) ==
  {[ns |-> ns, alias |-> x, owner |-> o, number |-> number] : x \in Material(o, content).aliases}

ClaimsIfQueryChanges(a) ==   \* mutant: a move leaves the claims where they are
  LET o == call[a].req.owner
  IN IF call[a].queryChanged
     THEN {row \in claims : row.owner # o} \cup Claimed(o, Number(o) + 1, call[a].content, call[a].req.ns)
     ELSE claims

\* The rows of an owner in the claims are replaced with every revision, those in the
\* query tables only if the material changed.
Claims(a) ==
  LET o == call[a].req.owner
  IN {row \in claims : row.owner # o} \cup Claimed(o, Number(o) + 1, call[a].content, call[a].req.ns)

Bump(flag) == IF flag THEN 1 ELSE 0

Settle(a) ==
  LET c == call[a]  o == c.req.owner
  IN /\ c.pc = "commit" /\ Found(a).outcome = "none"
     /\ PlacementGuard(a) /\ ExpectsCurrent(a) /\ c.queryChanged = QueryChanges(a)
     /\ history' = [history EXCEPT ![o] = Append(@,
          [content |-> c.content, placement |-> Placed(c.selected), op |-> c.req.op, edit |-> c.req.edit])]
     /\ fence' = fence + 1
     /\ generations' = [generations EXCEPT !.p = @ + Bump(c.placementChanged), !.r = @ + Bump(c.queryChanged)]
     /\ query' = IF c.queryChanged
                 THEN [query EXCEPT ![o] = [number |-> Number(o) + 1, material |-> Material(o, c.content)]]
                 ELSE query
     /\ claims' = Claims(a)
     /\ receipts' = [receipts EXCEPT ![c.req.op] = [outcome |-> "committed", envelope |-> Envelope(a)]]
     /\ Answers(a, "committed")
     /\ UNCHANGED <<namespaces, admin, search>>

\* The operation was settled by another attempt in the meantime.
Replay(a) ==
  /\ call[a].pc = "commit" /\ Found(a).outcome # "none"
  /\ Answers(a, IF Found(a).envelope # Envelope(a) THEN "idempotency_mismatch"
                ELSE IF Found(a).outcome = "committed" THEN "replayed" ELSE "revision_conflict")
  /\ UNCHANGED <<history, namespaces, fence, generations, query, claims, receipts, admin, search>>

\* The owner was revised in the meantime: the rejection is settled.
Reject(a) ==
  /\ call[a].pc = "commit" /\ Found(a).outcome = "none" /\ ~ExpectsCurrent(a)
  /\ fence' = fence + 1
  /\ receipts' = [receipts EXCEPT ![call[a].req.op] = [outcome |-> "rejected", envelope |-> Envelope(a)]]
  /\ Answers(a, "revision_conflict")
  /\ UNCHANGED <<history, namespaces, generations, query, claims, admin, search>>

\* The transaction found another Namespace revision, or lost the fence to another one.
Fail(a) ==
  /\ call[a].pc = "commit"
  /\ \/ ~PlacementGuard(a) /\ Answers(a, "context_stale")
     \/ Answers(a, "commit_execution_failed")
  /\ UNCHANGED <<history, namespaces, fence, generations, query, claims, receipts, admin, search>>

-------------------------------------------------------------------------------
\* Namespaces

\* Reads the fence first, then everything its comparisons need; the transaction tests
\* that fence, so that what was read together was so at once.
ReadNamespace(m) ==
  \E r \in AdminPlan[m] :
    /\ admin[m].pc = "read"
    /\ admin' = [admin EXCEPT ![m] =
         [pc |-> IF /\ namespaces[r.ns].rev = r.expected
                    /\ r.kind = "create" => r.expected = 0
                    /\ r.parent # None => namespaces[r.parent].lifecycle = "active"
                 THEN "write" ELSE "refused",
          req |-> r, fence |-> fence]]
    /\ UNCHANGED <<history, namespaces, fence, generations, query, claims, receipts, call, search>>

\* A revision makes a retired Namespace active again; neither it nor a retirement looks
\* at what is placed there.
WriteNamespace(m) ==
  LET r == admin[m].req
  IN /\ admin[m].pc = "write"
     /\ IF fence = admin[m].fence
        THEN /\ namespaces' = [namespaces EXCEPT ![r.ns] =
                  [lifecycle |-> IF r.kind = "retire" THEN "retired" ELSE "active", rev |-> @.rev + 1]]
             /\ fence' = fence + 1
             /\ generations' = [generations EXCEPT !.h = @ + 1]
             /\ admin' = [admin EXCEPT ![m].pc = "settled"]
        ELSE /\ admin' = [admin EXCEPT ![m].pc = "refused"]
             /\ UNCHANGED <<namespaces, fence, generations>>
     /\ UNCHANGED <<history, query, claims, receipts, call, search>>

-------------------------------------------------------------------------------
\* Search, its cursors and its handoffs; one row to a page

Rows(n) ==
  {[owner |-> o, number |-> query[o].number, material |-> query[o].material] :
     o \in {x \in Owners : /\ Number(x) > 0 /\ CurrentPlacement(x).ns = n
                           /\ query[x].material.documents # {}}}

Ordered(rows) ==
  CHOOSE list \in [1..Cardinality(rows) -> rows] : \A row \in rows : \E i \in DOMAIN list : list[i] = row

NewSearch == [pc |-> "begin", ns |-> None, generations |-> None, cursor |-> None,
              handoff |-> None, pages |-> <<>>, listed |-> <<>>]

\* Reads the generations, and compares them with those of the cursor.  `listed` is what
\* the Namespace held when the first page read them; no query returns it.
BeginPage(s) ==
  \E n \in Namespaces :
    LET c == search[s]
    IN /\ c.pc = "begin" /\ c.ns \in {None, n}
       /\ search' = [search EXCEPT ![s] =
            IF c.cursor # None /\ c.cursor.generations # generations
            THEN [c EXCEPT !.pc = "stale"]
            ELSE [c EXCEPT !.pc = "scope", !.ns = n, !.generations = generations,
                           !.listed = IF c.cursor = None THEN Ordered(Rows(n)) ELSE @]]
       /\ UNCHANGED <<history, namespaces, fence, generations, query, claims, receipts, call, admin>>

ReadScope(s) ==
  /\ search[s].pc = "scope"
  /\ search' = [search EXCEPT ![s].pc =
       IF namespaces[search[s].ns].lifecycle = "active" THEN "rows" ELSE "stale"]
  /\ UNCHANGED <<history, namespaces, fence, generations, query, claims, receipts, call, admin>>

\* Reads the rows, and issues a cursor and a handoff with the generations read before.
ReadRows(s) ==
  LET c      == search[s]
      list   == Ordered(Rows(c.ns))
      offset == IF c.cursor = None THEN 0 ELSE c.cursor.offset
  IN /\ c.pc = "rows"
     /\ search' = [search EXCEPT ![s] =
          IF offset > Len(list) THEN [c EXCEPT !.pc = "stale"]
          ELSE [c EXCEPT
                 !.pc = IF offset + 1 < Len(list) THEN "begin" ELSE "complete",
                 !.pages = Append(@, list),
                 !.cursor = IF offset + 1 < Len(list)
                            THEN [offset |-> offset + 1, generations |-> c.generations] ELSE None,
                 !.handoff = IF offset < Len(list)
                             THEN [row |-> list[offset + 1], generations |-> c.generations] ELSE None]]
     /\ UNCHANGED <<history, namespaces, fence, generations, query, claims, receipts, call, admin>>

\* A handoff of the last page is hydrated: its generations first, then its document.
CheckHandoff(s) ==
  LET c == search[s]
  IN /\ c.pc \in {"begin", "complete"} /\ c.handoff # None
     /\ search' = [search EXCEPT ![s].pc =
          IF c.handoff.generations = generations THEN "hydrate" ELSE "stale"]
     /\ UNCHANGED <<history, namespaces, fence, generations, query, claims, receipts, call, admin>>

ReadDocument(s) ==
  LET row == search[s].handoff.row
  IN /\ search[s].pc = "hydrate"
     /\ search' = [search EXCEPT ![s].pc =
          IF query[row.owner] = [number |-> row.number, material |-> row.material] THEN "hydrated" ELSE "stale"]
     /\ UNCHANGED <<history, namespaces, fence, generations, query, claims, receipts, call, admin>>

-------------------------------------------------------------------------------
FirstRevision(o) ==
  [content |-> Initial[o].content, op |-> InitOp, edit |-> [action |-> "complete", content |-> Initial[o].content],
   placement |-> [ns |-> Initial[o].ns, family |-> <<o, InitOp>>, version |-> <<o, InitOp>>]]

Init ==
  /\ history = [o \in Owners |-> IF o \in DOMAIN Initial THEN <<FirstRevision(o)>> ELSE <<>>]
  /\ namespaces = [n \in Namespaces |-> IF n \in Open THEN [lifecycle |-> "active", rev |-> 1]
                                                       ELSE [lifecycle |-> "absent", rev |-> 0]]
  /\ fence = Cardinality(DOMAIN Initial) + Cardinality(Open)
  /\ generations = [h |-> Cardinality(Open), p |-> Cardinality(DOMAIN Initial), r |-> Cardinality(DOMAIN Initial)]
  /\ query = [o \in Owners |-> IF o \in DOMAIN Initial
                               THEN [number |-> 1, material |-> Material(o, Initial[o].content)] ELSE NoRow]
  /\ claims = UNION {Claimed(o, 1, Initial[o].content, Initial[o].ns) : o \in DOMAIN Initial}
  /\ receipts = [op \in Ops |-> NoReceipt]
  /\ call = [a \in Attempts |-> Idle]
  /\ admin = [m \in Admins |-> [pc |-> "read", req |-> None, fence |-> 0]]
  /\ search = [s \in Searchers |-> NewSearch]

Next ==
  \/ \E a \in Attempts : \/ Load(a) \/ ReadReceipt(a) \/ ResolveNamespace(a) \/ ReadCurrent(a)
                         \/ Settle(a) \/ Replay(a) \/ Reject(a) \/ Fail(a)
  \/ \E m \in Admins : ReadNamespace(m) \/ WriteNamespace(m)
  \/ \E s \in Searchers : \/ BeginPage(s) \/ ReadScope(s) \/ ReadRows(s)
                          \/ CheckHandoff(s) \/ ReadDocument(s)

Spec == Init /\ [][Next]_vars

-------------------------------------------------------------------------------
\* Properties

TypeOK ==
  /\ \A o \in Owners : \A n \in 1..Number(o) : history[o][n].placement.ns \in Namespaces
  /\ \A n \in Namespaces : namespaces[n].lifecycle \in {"absent", "active", "retired"}
  /\ fence \in Nat /\ \A g \in DOMAIN generations : generations[g] \in Nat
  /\ \A o \in Owners : (query[o] = NoRow) = (Number(o) = 0)
  /\ \A row \in claims : row.ns \in Namespaces /\ row.owner \in Owners
  /\ \A op \in Ops : receipts[op].outcome \in {"none", "committed", "rejected"}
  /\ \A a \in Attempts : call[a].pc \in {"load", "receipt", "namespace", "current", "commit", "done"}
  /\ \A m \in Admins : admin[m].pc \in {"read", "write", "settled", "refused"}
  /\ \A s \in Searchers :
       search[s].pc \in {"begin", "scope", "rows", "complete", "hydrate", "hydrated", "stale"}

\* What search finds of an owner and the exact claims of its aliases are always those of
\* its current revision in its current Namespace: a move that changes no document takes
\* the claims with it, an edit that changes no document leaves the query rows where they
\* are and they are still right (substrate/mechanical-successor.mjs:219-243).
MaterialFollowsPlacement ==
  \A o \in {x \in Owners : Number(x) > 0} :
    LET content == history[o][Number(o)].content
    IN /\ query[o].material = Material(o, content)
       /\ Material(o, history[o][query[o].number].content) = query[o].material
       /\ {row \in claims : row.owner = o} = Claimed(o, Number(o), content, CurrentPlacement(o).ns)

\* Every revision is made of the one before it: a modular edit, whoever raced it, of
\* exactly that content; the placement family is the owner's for ever, and the placement
\* version is another one exactly when the Namespace is (frame/successor.mjs:53-65, 237-242).
HistoryBuilds ==
  \A o \in Owners : \A n \in 2..Number(o) :
    LET this == history[o][n]  before == history[o][n - 1]
    IN /\ this.edit.action # "complete" => this.content = Edited(o, before.content, this.edit)
       /\ this.placement.family = before.placement.family
       /\ (this.placement.version = before.placement.version) = (this.placement.ns = before.placement.ns)

\* Whoever is told that an operation is committed finds it settled for the same request.
\* The exact retry of a settled modular operation is told idempotency_mismatch only if
\* it had passed the receipt and resolved another revision of the Namespace: what the
\* owner has become since is no part of the meaning (placement/index.mjs:60-63).
AnswersFollowReceipts ==
  \A a \in {x \in Attempts : call[x].pc = "done" /\ call[x].reply # "refused"} :
    LET c == call[a]  settled == receipts[c.req.op]
    IN /\ c.reply \in {"committed", "replayed"} =>
            settled.outcome = "committed" /\ settled.envelope.meaning.req = c.req
       /\ /\ c.reply = "idempotency_mismatch" /\ Modular(c.req)
          /\ settled.outcome = "committed" /\ settled.envelope.meaning.req = c.req
          => c.nsRev \notin {0, settled.envelope.nsRev}

\* A page that is continued with its cursor, or of which a row is hydrated, is of the
\* state its first page read the generations of; only the last page of a search may be
\* of a later one (query/search.mjs:94-117, query/cursor.mjs:46-49).
PagesAgree ==
  \A s \in Searchers : \A i \in DOMAIN search[s].pages :
    (i < Len(search[s].pages) \/ search[s].pc \in {"hydrate", "hydrated"})
      => search[s].pages[i] = search[s].listed
===============================================================================
