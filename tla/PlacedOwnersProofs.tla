--------------------------- MODULE PlacedOwnersProofs ---------------------------
(***************************************************************************)
(* Proofs about PlacedOwners: its type invariant and the four invariants   *)
(* that its run checks, for any owners, plans, attempts and searches.      *)
(*                                                                         *)
(* What makes them inductive is how long a read stays true.  A revision    *)
(* stays for good (Grows), so what a modular call made of the one that it  *)
(* names is right whenever it commits (RequestOK) and is what its receipt  *)
(* holds (ReceiptsOK).  What it computed of the current revision stays     *)
(* right because it expects that revision (ChangesOK).  And while neither  *)
(* generation advances, a Namespace holds the same rows (RowsSteady), so   *)
(* that a search whose generations are the current ones is of one state    *)
(* (ScopeOK, PagesOK).                                                     *)
(***************************************************************************)
EXTENDS PlacedOwners, SequenceTheorems, FiniteSetTheorems, TLAPS

Working == {"receipt", "namespace", "current", "commit"}

Labels == Working \cup {"load", "done"}

Fields == {"pc", "req", "content", "selected", "nsRev", "placementChanged", "queryChanged", "reply"}

-------------------------------------------------------------------------------
\* The inductive invariant: the store

\* A placement version was allocated by an operation that is settled, or before all.
VersionOK(o, version, settled) ==
  \E k \in Ops \cup {InitOp} : version = <<o, k>> /\ (k \in Ops => settled[k].outcome # "none")

StoreOK ==
  /\ DOMAIN history = Owners /\ DOMAIN query = Owners /\ DOMAIN receipts = Ops
  /\ \A o \in Owners : Number(o) \in Nat /\ history[o] = [n \in 1..Number(o) |-> history[o][n]]
  /\ \A o \in Owners : \A n \in 1..Number(o) :
       history[o][n].placement \in Placements /\ VersionOK(o, history[o][n].placement.version, receipts)
  /\ \A op \in Ops : receipts[op].outcome \in {"none", "committed", "rejected"}
  /\ namespaces \in [Namespaces -> [lifecycle : {"absent", "active", "retired"}, rev : Nat]]
  /\ \A n \in Namespaces : namespaces[n].lifecycle = "active" => namespaces[n].rev > 0
  /\ fence \in Nat /\ generations \in Generations

\* Search finds the rows of every owner that has a revision, and of no other.
RowsOK ==
  /\ MaterialFollowsPlacement
  /\ \A o \in Owners : IF Number(o) = 0 THEN query[o] = NoRow ELSE query[o].number \in 1..Number(o)
  /\ \A row \in claims : row.ns \in Namespaces /\ row.owner \in Owners

-------------------------------------------------------------------------------
\* ... the calls

\* What a modular request comes to, whenever it is made of the revision that it names.
ContentOf(r)  == Edited(r.owner, Base(r).content, r.edit)
SelectedOf(r) == Select(r, Base(r).placement)

EnvelopeOf(r, rev) ==
  [meaning          |-> [req |-> r, content |-> ContentOf(r), selected |-> SelectedOf(r)],
   nsRev            |-> rev,
   placementChanged |-> Base(r).placement # Placed(SelectedOf(r)),
   queryChanged     |-> Material(r.owner, Base(r).content) # Material(r.owner, ContentOf(r))]

\* A call that was not refused carries a request of its plan, and what that comes to: a
\* modular one always, a complete one if the revision that it names is the current one.
Accepted(c) == c.pc \in Working \/ (c.pc = "done" /\ c.reply # "refused")

RequestOK(a) ==
  LET c == call[a]  r == c.req IN
  /\ r \in Plan[a] /\ r.base <= Number(r.owner) /\ c.selected.ns = r.ns
  /\ Modular(r) => c.content = ContentOf(r)
  /\ r.base = 0 => c.selected = Select(r, None)
  /\ r.base > 0 /\ (Modular(r) \/ Number(r.owner) = r.base) => c.selected = SelectedOf(r)

\* What a call computed of the current revision, which was the one that it names.
ChangesOK(a) ==
  LET c == call[a]  r == c.req IN
  /\ c.placementChanged = (r.base = 0 \/ Base(r).placement # Placed(c.selected))
  /\ c.queryChanged = (r.base = 0 \/ Material(r.owner, Base(r).content) # Material(r.owner, c.content))

CallOK(a) ==
  /\ DOMAIN call[a] = Fields /\ call[a].pc \in Labels
  /\ Accepted(call[a]) => RequestOK(a)
  /\ call[a].pc \in {"current", "commit"} => call[a].nsRev \in Nat \ {0}
  /\ call[a].pc = "commit" => ChangesOK(a)

CallsOK == DOMAIN call = Attempts /\ \A a \in Attempts : CallOK(a)

\* The receipt of a modular request holds what the request comes to.
Holds(op, e) ==
  LET r == e.meaning.req IN
  /\ r.op = op /\ \E a \in Attempts : r \in Plan[a]
  /\ r.base <= Number(r.owner)
  /\ Modular(r) => e = EnvelopeOf(r, e.nsRev)

ReceiptsOK == \A op \in Ops : receipts[op].outcome = "committed" => Holds(op, receipts[op].envelope)

AnswersOK ==
  /\ AnswersFollowReceipts
  /\ \A a \in Attempts : call[a].pc = "done" /\ call[a].reply = "idempotency_mismatch" =>
       receipts[call[a].req.op].outcome # "none"

OwnersInv == StoreOK /\ RowsOK /\ HistoryBuilds /\ CallsOK /\ ReceiptsOK /\ AnswersOK

AdminsOK ==
  /\ DOMAIN admin = Admins
  /\ \A m \in Admins :
       /\ DOMAIN admin[m] = {"pc", "req", "fence"}
       /\ admin[m].pc \in {"read", "write", "settled", "refused"}
       /\ admin[m].pc = "write" => admin[m].req \in AdminPlan[m]

-------------------------------------------------------------------------------
\* ... and the searches

Stages == {"begin", "scope", "rows", "complete", "hydrate", "hydrated", "stale"}

SearchFields == {"pc", "ns", "generations", "cursor", "handoff", "pages", "listed"}

UpTo(g, e) == g.h <= e.h /\ g.p <= e.p /\ g.r <= e.r

Started(c) == c.pc # "begin" \/ Len(c.pages) > 0

\* What a search read of the generations, which only grow: while they are the same, what
\* its Namespace holds is what it was.
ScopeOK(c) ==
  Started(c) =>
    /\ c.generations \in Generations /\ UpTo(c.generations, generations) /\ c.ns \in Namespaces
    /\ c.generations = generations => c.listed = Ordered(Rows(c.ns))

\* A cursor and a handoff belong to the last page, and carry the generations of the first.
MarksOK(c) ==
  /\ c.cursor # None => c.cursor \in Cursors /\ c.cursor.generations = c.generations /\ Len(c.pages) > 0
  /\ c.handoff # None => c.handoff.generations = c.generations /\ Len(c.pages) > 0
  /\ c.pc = "begin" /\ Len(c.pages) > 0 => c.cursor # None

\* The last page too is of the first one's state, unless something changed meanwhile.
PagesOK(c) ==
  /\ Len(c.pages) \in Nat /\ c.pages = [i \in 1..Len(c.pages) |-> c.pages[i]]
  /\ \A i \in 1..(Len(c.pages) - 1) : c.pages[i] = c.listed
  /\ /\ Len(c.pages) > 0
     /\ c.generations = generations \/ c.pc \in {"scope", "rows", "hydrate", "hydrated"}
     => c.pages[Len(c.pages)] = c.listed

SearchOK(c) == DOMAIN c = SearchFields /\ c.pc \in Stages /\ ScopeOK(c) /\ MarksOK(c) /\ PagesOK(c)

SearchesOK == DOMAIN search = Searchers /\ \A s \in Searchers : SearchOK(search[s])

Inv == OwnersInv /\ AdminsOK /\ SearchesOK

-------------------------------------------------------------------------------
\* Steps

\* A sequence of whatever elements, and one more of them
LEMMA Appended ==
  ASSUME NEW f, Len(f) \in Nat, f = [n \in 1..Len(f) |-> f[n]], NEW x
  PROVE  /\ Len(Append(f, x)) = Len(f) + 1
         /\ Append(f, x) = [n \in 1..(Len(f) + 1) |-> Append(f, x)[n]]
         /\ \A n \in 1..Len(f) : Append(f, x)[n] = f[n]
         /\ Append(f, x)[Len(f) + 1] = x
<1> DEFINE S == {f[n] : n \in 1..Len(f)} \cup {x}
<1>1. f \in [1..Len(f) -> S] /\ x \in S
  OBVIOUS
<1> HIDE DEF S
<1>2. f \in Seq(S)
  BY <1>1, SeqDef
<1>3. /\ Append(f, x) \in Seq(S) /\ Len(Append(f, x)) = Len(f) + 1
      /\ \A n \in 1..Len(f) : Append(f, x)[n] = f[n]
      /\ Append(f, x)[Len(f) + 1] = x
  BY <1>1, <1>2, AppendProperties
<1>4. Append(f, x) = [n \in 1..(Len(f) + 1) |-> Append(f, x)[n]]
  <2> DEFINE g == Append(f, x)
  <2>1. g \in Seq(S) /\ Len(g) = Len(f) + 1
    BY <1>3
  <2> HIDE DEF g
  <2>2. g \in [1..Len(g) -> S]
    BY <2>1, LenProperties
  <2>3. g = [n \in 1..(Len(f) + 1) |-> g[n]]
    BY <2>1, <2>2
  <2> QED
    BY <2>3 DEF g
<1> QED
  BY <1>3, <1>4

\* What Plan[a] assumes of a request
LEMMA RequestFacts ==
  ASSUME NEW a \in Attempts, NEW r \in Plan[a]
  PROVE  /\ r.op \in Ops /\ r.op # InitOp /\ r.owner \in Owners /\ r.ns \in Namespaces /\ r.base \in Nat
         /\ Modular(r) => r.base > 0
  BY PlanAssumption

\* The revision that a call settles is that of its request, the next one of its owner, and
\* the one before it is the one that the request names.
LEMMA SettleFacts ==
  ASSUME OwnersInv, NEW a \in Attempts, Settle(a)
  PROVE  LET c == call[a]  r == c.req  o == r.owner IN
         /\ r \in Plan[a] /\ o \in Owners /\ c.pc = "commit" /\ RequestOK(a) /\ ChangesOK(a)
         /\ Number(o) = r.base /\ receipts[r.op].outcome = "none"
         /\ Len(history'[o]) = r.base + 1
         /\ history'[o] = [n \in 1..(r.base + 1) |-> history'[o][n]]
         /\ \A n \in 1..r.base : history'[o][n] = history[o][n]
         /\ history'[o][r.base + 1].content = c.content
         /\ history'[o][r.base + 1].placement = Placed(c.selected)
         /\ history'[o][r.base + 1].op = r.op /\ history'[o][r.base + 1].edit = r.edit
         /\ \A w \in Owners \ {o} : history'[w] = history[w]
         /\ DOMAIN history' = Owners
<1> DEFINE c == call[a]  r == c.req  o == r.owner
           row == [content |-> c.content, placement |-> Placed(c.selected), op |-> r.op, edit |-> r.edit]
<1>1. c.pc = "commit" /\ RequestOK(a) /\ ChangesOK(a) /\ r \in Plan[a]
  <2>1. c.pc = "commit"
    BY DEF Settle
  <2>2. CallOK(a)
    BY DEF OwnersInv, CallsOK
  <2> QED
    BY <2>1, <2>2 DEF CallOK, Accepted, Working, RequestOK
<1>2. r.op \in Ops /\ o \in Owners /\ r.base \in Nat
  BY <1>1, RequestFacts
<1>3. Number(o) = r.base /\ receipts[r.op].outcome = "none"
  BY DEF Settle, ExpectsCurrent, Found
<1>4. history' = [history EXCEPT ![o] = Append(history[o], row)]
  BY DEF Settle
<1>5. row.content = c.content /\ row.placement = Placed(c.selected) /\ row.op = r.op /\ row.edit = r.edit
  OBVIOUS
<1> HIDE DEF row
<1>6. /\ Len(history[o]) = r.base /\ r.base \in Nat /\ DOMAIN history = Owners
      /\ history[o] = [n \in 1..r.base |-> history[o][n]]
  BY <1>2, <1>3 DEF OwnersInv, StoreOK, Number
<1>7. history'[o] = Append(history[o], row) /\ DOMAIN history' = Owners
      /\ \A w \in Owners \ {o} : history'[w] = history[w]
  BY <1>2, <1>4, <1>6
<1>8. /\ Len(history'[o]) = r.base + 1
      /\ history'[o] = [n \in 1..(r.base + 1) |-> history'[o][n]]
      /\ \A n \in 1..r.base : history'[o][n] = history[o][n]
      /\ history'[o][r.base + 1] = row
  <2> DEFINE f == history[o]  g == history'[o]  k == r.base
  <2>1. Len(f) = k /\ k \in Nat /\ f = [n \in 1..k |-> f[n]] /\ g = Append(f, row)
    BY <1>6, <1>7
  <2> HIDE DEF f, g, k
  <2>2. /\ Len(g) = k + 1 /\ g = [n \in 1..(k + 1) |-> g[n]]
        /\ \A n \in 1..k : g[n] = f[n]
        /\ g[k + 1] = row
    BY <2>1, Appended
  <2> QED
    BY <2>2 DEF f, g, k
<1> QED
  BY <1>1, <1>2, <1>3, <1>5, <1>7, <1>8

\* What is selected is in the requested Namespace, keeps the family, and keeps the version
\* unless the Namespace changes.
LEMMA SelectFacts ==
  ASSUME NEW a \in Attempts, NEW r \in Plan[a]
  PROVE  /\ Placed(Select(r, None)) \in Placements /\ Placed(Select(r, None)).version = <<r.owner, r.op>>
         /\ \A prior \in Placements :
              LET p == Placed(Select(r, prior)) IN
              /\ p \in Placements /\ Select(r, prior).ns = r.ns
              /\ p.ns = r.ns /\ p.family = prior.family
              /\ p.version = IF prior.ns = r.ns THEN prior.version ELSE <<r.owner, r.op>>
<1> DEFINE token == <<r.owner, r.op>>
<1>1. token \in Tokens /\ r.ns \in Namespaces
  BY RequestFacts DEF Tokens
<1> HIDE DEF token
<1>2. Placed(Select(r, None)) = [ns |-> r.ns, family |-> token, version |-> token]
  BY DEF Placed, Select, token
<1>3. [ns |-> r.ns, family |-> token, version |-> token] \in Placements
  BY <1>1 DEF Placements
<1>4. ASSUME NEW prior \in Placements
      PROVE  LET p == Placed(Select(r, prior)) IN
             /\ p \in Placements /\ Select(r, prior).ns = r.ns
             /\ p.ns = r.ns /\ p.family = prior.family
             /\ p.version = IF prior.ns = r.ns THEN prior.version ELSE token
  <2> DEFINE version == IF prior.ns = r.ns THEN prior.version ELSE token
             p == Placed(Select(r, prior))
  <2>1. prior # None /\ prior.family \in Tokens /\ prior.version \in Tokens
    BY NoneAssumption DEF Placements
  <2>2. version \in Tokens
    BY <1>1, <2>1
  <2>3. p = [ns |-> r.ns, family |-> prior.family, version |-> version] /\ Select(r, prior).ns = r.ns
    BY <2>1 DEF Placed, Select, token
  <2> HIDE DEF version, p
  <2>4. p \in Placements /\ p.ns = r.ns /\ p.family = prior.family /\ p.version = version
    BY <1>1, <2>1, <2>2, <2>3 DEF Placements
  <2> QED
    BY <2>3, <2>4 DEF version, p
<1> QED
  BY <1>2, <1>3, <1>4 DEF token

\* Nothing but a commit or a rejection that are settled changes owners or receipts.
LEMMA OwnerSteps ==
  ASSUME [Next]_vars
  PROVE  \/ UNCHANGED <<history, query, claims, receipts>>
         \/ \E a \in Attempts : Settle(a) \/ Reject(a)
<1>1. CASE UNCHANGED vars
  BY <1>1 DEF vars
<1>2. ASSUME NEW a \in Attempts, \/ Load(a) \/ ReadReceipt(a) \/ ResolveNamespace(a) \/ ReadCurrent(a)
                                 \/ Replay(a) \/ Fail(a)
      PROVE  UNCHANGED <<history, query, claims, receipts>>
  BY <1>2 DEF Load, ReadReceipt, ResolveNamespace, ReadCurrent, Replay, Fail
<1>3. ASSUME NEW m \in Admins, ReadNamespace(m) \/ WriteNamespace(m)
      PROVE  UNCHANGED <<history, query, claims, receipts>>
  BY <1>3 DEF ReadNamespace, WriteNamespace
<1>4. ASSUME NEW s \in Searchers, \/ BeginPage(s) \/ ReadScope(s) \/ ReadRows(s)
                                  \/ CheckHandoff(s) \/ ReadDocument(s)
      PROVE  UNCHANGED <<history, query, claims, receipts>>
  BY <1>4 DEF BeginPage, ReadScope, ReadRows, CheckHandoff, ReadDocument
<1> QED
  BY <1>1, <1>2, <1>3, <1>4 DEF Next

\* A revision stays what it is, and so does a receipt.
LEMMA Grows ==
  ASSUME OwnersInv, [Next]_vars
  PROVE  /\ DOMAIN history' = Owners /\ DOMAIN receipts' = Ops
         /\ \A o \in Owners :
              /\ Len(history[o]) \in Nat /\ Len(history'[o]) \in Nat /\ Len(history[o]) <= Len(history'[o])
              /\ history'[o] = [n \in 1..Len(history'[o]) |-> history'[o][n]]
              /\ \A n \in 1..Len(history[o]) : history'[o][n] = history[o][n]
         /\ \A op \in Ops : receipts[op].outcome # "none" => receipts'[op] = receipts[op]
<1>1. /\ DOMAIN history = Owners /\ DOMAIN receipts = Ops
      /\ \A o \in Owners : Len(history[o]) \in Nat /\ history[o] = [n \in 1..Len(history[o]) |-> history[o][n]]
  BY DEF OwnersInv, StoreOK, Number
<1>2. CASE UNCHANGED <<history, query, claims, receipts>>
  BY <1>1, <1>2
<1>3. ASSUME NEW a \in Attempts, Reject(a) PROVE UNCHANGED history
  BY <1>3 DEF Reject
<1>4. ASSUME NEW a \in Attempts, Settle(a) \/ Reject(a)
      PROVE  /\ DOMAIN receipts' = Ops
             /\ \A op \in Ops : receipts[op].outcome # "none" => receipts'[op] = receipts[op]
  <2>1. receipts[call[a].req.op].outcome = "none"
    BY <1>4 DEF Settle, Reject, Found
  <2>2. \E x : receipts' = [receipts EXCEPT ![call[a].req.op] = x]
    BY <1>4 DEF Settle, Reject
  <2> QED
    BY <1>1, <2>1, <2>2
<1>5. ASSUME NEW a \in Attempts, Settle(a), NEW o \in Owners
      PROVE  /\ Len(history'[o]) \in Nat /\ Len(history[o]) <= Len(history'[o]) /\ DOMAIN history' = Owners
             /\ history'[o] = [n \in 1..Len(history'[o]) |-> history'[o][n]]
             /\ \A n \in 1..Len(history[o]) : history'[o][n] = history[o][n]
  <2>1. CASE o = call[a].req.owner
    <3> DEFINE k == call[a].req.base
    <3>1. /\ Len(history[o]) = k /\ Len(history'[o]) = k + 1
          /\ history'[o] = [n \in 1..(k + 1) |-> history'[o][n]]
          /\ \A n \in 1..k : history'[o][n] = history[o][n]
          /\ DOMAIN history' = Owners
      BY <1>5, <2>1, SettleFacts DEF Number
    <3>2. k \in Nat /\ k + 1 \in Nat /\ k <= k + 1
      BY <1>1, <3>1
    <3>3. /\ Len(history'[o]) \in Nat /\ Len(history[o]) <= Len(history'[o])
          /\ history'[o] = [n \in 1..Len(history'[o]) |-> history'[o][n]]
      BY <3>1, <3>2
    <3> QED
      BY <3>1, <3>3
  <2>2. CASE o # call[a].req.owner
    <3>1. history'[o] = history[o] /\ DOMAIN history' = Owners
      BY <1>5, <2>2, SettleFacts
    <3> QED
      BY <1>1, <3>1
  <2> QED
    BY <2>1, <2>2
<1>6. ASSUME NEW a \in Attempts, Settle(a) PROVE DOMAIN history' = Owners
  BY <1>6, SettleFacts
<1> QED
  BY <1>1, <1>2, <1>3, <1>4, <1>5, <1>6, OwnerSteps

\* The placement of a settled revision keeps the family of the one before it; its version
\* is that one's unless the Namespace is another one, and then nobody had it before.
LEMMA Placing ==
  ASSUME OwnersInv, NEW a \in Attempts, Settle(a)
  PROVE  LET c == call[a]  r == c.req  o == r.owner  p == Placed(c.selected) IN
         /\ p \in Placements /\ p.ns = r.ns
         /\ VersionOK(o, p.version, receipts')
         /\ r.base > 0 =>
              LET before == history[o][r.base].placement IN
              p.family = before.family /\ (p.version = before.version) = (p.ns = before.ns)
<1> DEFINE c == call[a]  r == c.req  o == r.owner  p == Placed(c.selected)
           before == history[o][r.base].placement
           Known(version) == VersionOK(o, version, receipts')
<1>1. /\ r \in Plan[a] /\ RequestOK(a) /\ Number(o) = r.base /\ receipts[r.op].outcome = "none"
      /\ o \in Owners
  BY SettleFacts
<1>2. r.op \in Ops /\ r.op # InitOp /\ r.ns \in Namespaces /\ r.base \in Nat
  BY <1>1, RequestFacts
<1>3. DOMAIN receipts = Ops /\ \A k \in Ops : receipts[k].outcome # "none" => receipts'[k] = receipts[k]
  <2>1. [Next]_vars
    BY DEF Next
  <2> QED
    BY <2>1, Grows DEF OwnersInv, StoreOK
<1>4. Known(<<o, r.op>>)
  <2>1. receipts' = [receipts EXCEPT ![r.op] = [outcome |-> "committed", envelope |-> Envelope(a)]]
    BY DEF Settle
  <2>2. receipts'[r.op].outcome # "none"
    BY <1>2, <1>3, <2>1
  <2> QED
    BY <1>2, <2>2 DEF VersionOK
<1>5. CASE r.base = 0
  <2>1. c.selected = Select(r, None)
    BY <1>1, <1>5 DEF RequestOK
  <2>2. p \in Placements /\ p.version = <<o, r.op>>
    BY <1>1, <2>1, SelectFacts
  <2>3. p.ns = r.ns
    BY <2>1 DEF Placed, Select
  <2> QED
    BY <1>4, <1>5, <2>2, <2>3
<1>6. CASE r.base > 0
  <2>1. c.selected = Select(r, before)
    BY <1>1, <1>6 DEF RequestOK, SelectedOf, Base
  <2>2. r.base \in 1..Number(o)
    BY <1>1, <1>2, <1>6
  <2>3. before \in Placements /\ VersionOK(o, before.version, receipts)
    BY <1>1, <2>2 DEF OwnersInv, StoreOK
  <2>4. /\ p \in Placements /\ p.ns = r.ns /\ p.family = before.family
        /\ p.version = IF before.ns = r.ns THEN before.version ELSE <<o, r.op>>
    <3> DEFINE q == Placed(Select(r, before))
    <3> HIDE DEF before
    <3>1. /\ q \in Placements /\ Select(r, before).ns = r.ns
          /\ q.ns = r.ns /\ q.family = before.family
          /\ q.version = IF before.ns = r.ns THEN before.version ELSE <<o, r.op>>
      BY <1>1, <2>3, SelectFacts
    <3>2. p = q
      BY <2>1
    <3> HIDE DEF p, q
    <3> QED
      BY <3>1, <3>2
  <2>5. Known(before.version) /\ before.version # <<o, r.op>>
    <3> DEFINE version == before.version  w == r.op
    <3>1. PICK k \in Ops \cup {InitOp} : version = <<o, k>> /\ (k \in Ops => receipts[k].outcome # "none")
      BY <2>3 DEF VersionOK
    <3>2. w # InitOp /\ receipts[w].outcome = "none" /\ w \in Ops
      BY <1>1, <1>2
    <3> HIDE DEF version, w
    <3>3. Known(version)
      BY <1>3, <3>1 DEF VersionOK
    <3>4. k # w
      BY <3>1, <3>2
    <3>5. version # <<o, w>>
      BY <3>1, <3>4
    <3> QED
      BY <3>3, <3>5 DEF version, w
  <2> HIDE DEF p, before, Known
  <2>6. Known(p.version) /\ p.family = before.family /\ (p.version = before.version) = (p.ns = before.ns)
    BY <1>4, <2>4, <2>5
  <2> QED
    BY <2>4, <2>6 DEF p, before, Known
<1>7. r.base = 0 \/ r.base > 0
  BY <1>2
<1> QED
  BY <1>5, <1>6, <1>7, Zenon

\* Namespaces keep their form: an active one has been revised at least once.  The fence
\* and the generations are numbers, and the generations only grow.
LEMMA NamespaceStep ==
  ASSUME StoreOK, [Next]_vars
  PROVE  /\ namespaces' \in [Namespaces -> [lifecycle : {"absent", "active", "retired"}, rev : Nat]]
         /\ \A n \in Namespaces : namespaces'[n].lifecycle = "active" => namespaces'[n].rev > 0
         /\ fence' \in Nat /\ generations' \in Generations /\ UpTo(generations, generations')
<1> DEFINE Form == [lifecycle : {"absent", "active", "retired"}, rev : Nat]
           Good(f) == f \in [Namespaces -> Form]
                      /\ \A n \in Namespaces : f[n].lifecycle = "active" => f[n].rev > 0
<1>1. Good(namespaces) /\ fence \in Nat /\ generations \in Generations /\ UpTo(generations, generations)
  BY DEF StoreOK, UpTo, Generations
<1>2. ASSUME NEW a \in Attempts, Settle(a)
      PROVE Good(namespaces') /\ fence' \in Nat /\ generations' \in Generations
                                                 /\ UpTo(generations, generations')
  <2>1. namespaces' = namespaces /\ fence' = fence + 1
    BY <1>2 DEF Settle
  <2>2. PICK p \in {0, 1}, r \in {0, 1} : generations' = [generations EXCEPT !.p = @ + p, !.r = @ + r]
    BY <1>2 DEF Settle, Bump
  <2>3. /\ generations.h \in Nat /\ generations.p \in Nat /\ generations.r \in Nat
        /\ generations' = [h |-> generations.h, p |-> generations.p + p, r |-> generations.r + r]
    BY <1>1, <2>2 DEF Generations
  <2>4. generations' \in Generations /\ UpTo(generations, generations')
    BY <2>3 DEF Generations, UpTo
  <2> QED
    BY <1>1, <2>1, <2>4
<1>3. ASSUME NEW a \in Attempts, Reject(a)
      PROVE Good(namespaces') /\ fence' \in Nat /\ generations' \in Generations
                                                 /\ UpTo(generations, generations')
  <2>1. UNCHANGED <<namespaces, generations>> /\ fence' = fence + 1
    BY <1>3 DEF Reject
  <2> HIDE DEF Good
  <2> QED
    BY <1>1, <2>1
<1>4. ASSUME NEW m \in Admins, WriteNamespace(m), fence = admin[m].fence
      PROVE  Good(namespaces') /\ fence' \in Nat /\ generations' \in Generations /\ UpTo(generations, generations')
  <2> DEFINE n == admin[m].req.ns
  <2>1. fence' = fence + 1 /\ generations' = [generations EXCEPT !.h = @ + 1]
    BY <1>4 DEF WriteNamespace
  <2>2. PICK l \in {"active", "retired"} :
          namespaces' = [namespaces EXCEPT ![n] = [lifecycle |-> l, rev |-> namespaces[n].rev + 1]]
    BY <1>4 DEF WriteNamespace
  <2> HIDE DEF n
  <2>3. Good(namespaces')
    <3>1. [lifecycle |-> l, rev |-> namespaces[n].rev + 1] \in Form \/ n \notin Namespaces
      BY <1>1
    <3> DEFINE row == [lifecycle |-> l, rev |-> namespaces[n].rev + 1]
    <3>2. row.rev > 0 \/ n \notin Namespaces
      BY <1>1
    <3> HIDE DEF row
    <3> QED
      BY <1>1, <2>2, <3>1, <3>2 DEF row
  <2>4. generations' \in Generations /\ UpTo(generations, generations')
    BY <1>1, <2>1 DEF Generations, UpTo
  <2> QED
    BY <1>1, <2>1, <2>3, <2>4
<1>5. ASSUME NEW a \in Attempts, \/ Load(a) \/ ReadReceipt(a) \/ ResolveNamespace(a) \/ ReadCurrent(a)
                                 \/ Replay(a) \/ Fail(a)
      PROVE  UNCHANGED <<namespaces, fence, generations>>
  BY <1>5 DEF Load, ReadReceipt, ResolveNamespace, ReadCurrent, Replay, Fail
<1>6. ASSUME NEW m \in Admins, ReadNamespace(m) \/ (WriteNamespace(m) /\ fence # admin[m].fence)
      PROVE  UNCHANGED <<namespaces, fence, generations>>
  BY <1>6 DEF ReadNamespace, WriteNamespace
<1>7. ASSUME NEW s \in Searchers, \/ BeginPage(s) \/ ReadScope(s) \/ ReadRows(s)
                                  \/ CheckHandoff(s) \/ ReadDocument(s)
      PROVE  UNCHANGED <<namespaces, fence, generations>>
  BY <1>7 DEF BeginPage, ReadScope, ReadRows, CheckHandoff, ReadDocument
<1>8. Good(namespaces') /\ fence' \in Nat /\ generations' \in Generations /\ UpTo(generations, generations')
  <2> HIDE DEF Good
  <2>1. ASSUME UNCHANGED <<namespaces, fence, generations>>
        PROVE  Good(namespaces') /\ fence' \in Nat /\ generations' \in Generations
                 /\ UpTo(generations, generations')
    <3>1. generations' = generations /\ namespaces' = namespaces /\ fence' = fence
      BY <2>1
    <3> QED
      BY <1>1, <3>1
  <2>2. CASE \E a \in Attempts : \/ Load(a) \/ ReadReceipt(a) \/ ResolveNamespace(a) \/ ReadCurrent(a)
                                  \/ Settle(a) \/ Replay(a) \/ Reject(a) \/ Fail(a)
    BY <1>2, <1>3, <1>5, <2>1, <2>2
  <2>3. CASE \E m \in Admins : ReadNamespace(m) \/ WriteNamespace(m)
    BY <1>4, <1>6, <2>1, <2>3
  <2>4. CASE \E s \in Searchers : \/ BeginPage(s) \/ ReadScope(s) \/ ReadRows(s)
                                   \/ CheckHandoff(s) \/ ReadDocument(s)
    BY <1>7, <2>1, <2>4
  <2>5. CASE UNCHANGED vars
    BY <2>1, <2>5 DEF vars
  <2> QED
    BY <2>2, <2>3, <2>4, <2>5 DEF Next
<1> QED
  BY <1>8

\* Every retained placement is one, and its version is accounted for.
LEMMA StoreStep ==
  ASSUME OwnersInv, [Next]_vars
  PROVE  StoreOK'
<1>1. StoreOK /\ [Next]_vars
  BY DEF OwnersInv
<1>2. /\ DOMAIN history' = Owners /\ DOMAIN receipts' = Ops
      /\ \A o \in Owners :
           /\ Number(o)' \in Nat
           /\ history'[o] = [n \in 1..Number(o)' |-> history'[o][n]]
      /\ \A op \in Ops : receipts[op].outcome # "none" => receipts'[op] = receipts[op]
  BY Grows DEF Number
<1>3. ASSUME NEW o \in Owners, NEW version, VersionOK(o, version, receipts)
      PROVE  VersionOK(o, version, receipts')
  BY <1>2, <1>3 DEF VersionOK
<1>4. ASSUME NEW o \in Owners, history'[o] = history[o], NEW n \in 1..Number(o)'
      PROVE  history'[o][n].placement \in Placements /\ VersionOK(o, history'[o][n].placement.version, receipts')
  <2>1. n \in 1..Number(o) /\ history'[o][n] = history[o][n]
    BY <1>4 DEF Number
  <2>2. history[o][n].placement \in Placements /\ VersionOK(o, history[o][n].placement.version, receipts)
    BY <1>1, <2>1 DEF StoreOK
  <2> QED
    BY <1>3, <2>1, <2>2
<1>5. ASSUME NEW a \in Attempts, Settle(a), NEW o \in Owners, NEW n \in 1..Number(o)'
      PROVE  history'[o][n].placement \in Placements /\ VersionOK(o, history'[o][n].placement.version, receipts')
  <2> DEFINE r == call[a].req  p == Placed(call[a].selected)  k == r.base
  <2>1. CASE o # r.owner
    BY <1>4, <1>5, <2>1, SettleFacts
  <2>2. CASE o = r.owner
    <3>1. /\ Number(o) = k /\ Number(o)' = k + 1 /\ Number(o) \in Nat
          /\ \A i \in 1..k : history'[o][i] = history[o][i]
          /\ history'[o][k + 1].placement = p
      BY <1>1, <1>5, <2>2, SettleFacts DEF Number, StoreOK
    <3>2. /\ p \in Placements
          /\ VersionOK(o, p.version, receipts')
      BY <1>5, <2>2, Placing
    <3> HIDE DEF p, k
    <3>3. CASE n = k + 1
      BY <3>1, <3>2, <3>3
    <3>4. CASE n # k + 1
      <4>1. n \in 1..Number(o) /\ history'[o][n] = history[o][n]
        BY <1>5, <3>1, <3>4
      <4>2. history[o][n].placement \in Placements /\ VersionOK(o, history[o][n].placement.version, receipts)
        BY <1>1, <4>1 DEF StoreOK
      <4> QED
        BY <1>3, <4>1, <4>2
    <3> QED
      BY <3>3, <3>4
  <2> QED
    BY <2>1, <2>2
<1>6. \A o \in Owners : \A n \in 1..Number(o)' :
        history'[o][n].placement \in Placements /\ VersionOK(o, history'[o][n].placement.version, receipts')
  <2>1. ASSUME NEW a \in Attempts, Reject(a) PROVE history' = history
    BY <2>1 DEF Reject
  <2> QED
    BY <1>1, <1>4, <1>5, <2>1, OwnerSteps
<1>7. \A op \in Ops : receipts'[op].outcome \in {"none", "committed", "rejected"}
  <2>1. CASE receipts' = receipts
    BY <1>1, <2>1 DEF StoreOK
  <2>2. ASSUME NEW a \in Attempts, Settle(a) \/ Reject(a), NEW op \in Ops
        PROVE  receipts'[op].outcome \in {"none", "committed", "rejected"}
    <3>1. PICK out \in {"committed", "rejected"} :
            receipts' = [receipts EXCEPT ![call[a].req.op] = [outcome |-> out, envelope |-> Envelope(a)]]
      BY <2>2 DEF Settle, Reject
    <3> QED
      BY <1>1, <3>1 DEF StoreOK
  <2> QED
    BY <1>1, <2>1, <2>2, OwnerSteps
<1>8. DOMAIN query' = Owners
  <2>1. ASSUME NEW a \in Attempts, Settle(a) \/ Reject(a) PROVE DOMAIN query' = DOMAIN query
    BY <2>1 DEF Settle, Reject
  <2> QED
    BY <1>1, <2>1, OwnerSteps DEF StoreOK
<1> QED
  BY <1>1, <1>2, <1>6, <1>7, <1>8, NamespaceStep DEF StoreOK

\* A settled revision is made of the one before it, which is the one it was based on.
LEMMA HistoryStep ==
  ASSUME OwnersInv, [Next]_vars
  PROVE  HistoryBuilds'
<1> DEFINE Follows(o, this, before) ==
             /\ this.edit.action # "complete" => this.content = Edited(o, before.content, this.edit)
             /\ this.placement.family = before.placement.family
             /\ (this.placement.version = before.placement.version) = (this.placement.ns = before.placement.ns)
<1>1. \A o \in Owners : \A n \in 2..Number(o) : Follows(o, history[o][n], history[o][n - 1])
  BY DEF OwnersInv, HistoryBuilds
<1>2. \A o \in Owners : Number(o) \in Nat
  BY DEF OwnersInv, StoreOK
<1>3. ASSUME NEW o \in Owners, history'[o] = history[o], NEW n \in 2..Number(o)'
      PROVE  Follows(o, history'[o][n], history'[o][n - 1])
  BY <1>1, <1>3 DEF Number
<1>4. ASSUME NEW a \in Attempts, Settle(a), NEW o \in Owners, NEW n \in 2..Number(o)'
      PROVE  Follows(o, history'[o][n], history'[o][n - 1])
  <2> DEFINE c == call[a]  r == c.req  k == r.base  this == history'[o][n]  before == history'[o][n - 1]
  <2>1. CASE o # r.owner
    BY <1>3, <1>4, <2>1, SettleFacts, ZenonT(60)
  <2>2. CASE o = r.owner
    <3>1. /\ Number(o) = k /\ Number(o)' = k + 1
          /\ \A i \in 1..k : history'[o][i] = history[o][i]
          /\ history'[o][k + 1].content = c.content /\ history'[o][k + 1].placement = Placed(c.selected)
          /\ history'[o][k + 1].edit = r.edit
      BY <1>4, <2>2, SettleFacts DEF Number
    <3>2. CASE n = k + 1
      <4>1. k > 0 /\ n - 1 = k /\ before = history[o][k]
        <5>1. k \in Nat /\ n \in 2..(k + 1)
          BY <1>2, <1>4, <3>1
        <5> HIDE DEF k
        <5>2. k > 0 /\ n - 1 = k /\ k \in 1..k
          BY <3>2, <5>1
        <5> QED
          BY <3>1, <5>2
      <4>2. Modular(r) => c.content = Edited(o, history[o][k].content, r.edit)
        BY <1>4, <2>2, SettleFacts DEF RequestOK, ContentOf, Base
      <4>3. LET p == Placed(c.selected)  q == history[o][k].placement IN
            p.family = q.family /\ (p.version = q.version) = (p.ns = q.ns)
        BY <1>4, <2>2, <4>1, Placing
      <4>4. this.content = c.content /\ this.placement = Placed(c.selected) /\ this.edit = r.edit
        BY <3>1, <3>2
      <4>5. this.edit.action # "complete" => this.content = Edited(o, before.content, this.edit)
        BY <4>1, <4>2, <4>4 DEF Modular
      <4>6. /\ this.placement.family = before.placement.family
            /\ (this.placement.version = before.placement.version) = (this.placement.ns = before.placement.ns)
        BY <4>1, <4>3, <4>4
      <4> QED
        BY <4>5, <4>6
    <3>3. CASE n # k + 1
      <4>1. n \in 2..Number(o) /\ this = history[o][n] /\ before = history[o][n - 1]
        BY <1>2, <1>4, <3>1, <3>3
      <4> HIDE DEF Follows
      <4> QED
        BY <1>1, <4>1
    <3> QED
      BY <3>2, <3>3
  <2> QED
    BY <2>1, <2>2
<1>5. ASSUME NEW a \in Attempts, Reject(a) PROVE history' = history
  BY <1>5 DEF Reject
<1>6. \A o \in Owners : \A n \in 2..Number(o)' : Follows(o, history'[o][n], history'[o][n - 1])
  <2> HIDE DEF Follows
  <2> QED
    BY <1>3, <1>4, <1>5, OwnerSteps
<1> QED
  BY <1>6 DEF HistoryBuilds

\* The rows of an owner move with every revision; its material stays unless it changed, and
\* then the rows it leaves behind hold the same.
LEMMA RowsStep ==
  ASSUME OwnersInv, [Next]_vars
  PROVE  RowsOK'
<1> DEFINE Own(rows, o) == {row \in rows : row.owner = o}
           Row(o, h, q) ==
             /\ q.material = Material(o, h[Len(h)].content)
             /\ Material(o, h[q.number].content) = q.material
           Indexed(q, k) == IF k = 0 THEN q = NoRow ELSE q.number \in 1..k
           Right(o) ==
             /\ Len(history[o]) > 0 =>
                  /\ Row(o, history[o], query[o])
                  /\ Own(claims, o) = Claimed(o, Len(history[o]), history[o][Len(history[o])].content,
                                              history[o][Len(history[o])].placement.ns)
             /\ Indexed(query[o], Len(history[o]))
<1>1. \A o \in Owners : Right(o)
  BY DEF OwnersInv, RowsOK, MaterialFollowsPlacement, Number, CurrentPlacement
<1>2. \A row \in claims : row.ns \in Namespaces /\ row.owner \in Owners
  BY DEF OwnersInv, RowsOK
<1>3. \A o \in Owners : Len(history[o]) \in Nat
  BY DEF OwnersInv, StoreOK, Number
<1>4. CASE UNCHANGED <<history, query, claims, receipts>>
  BY <1>4 DEF OwnersInv, RowsOK, MaterialFollowsPlacement, Number, CurrentPlacement
<1>5. ASSUME NEW a \in Attempts, Reject(a) PROVE UNCHANGED <<history, query, claims>>
  BY <1>5 DEF Reject
<1>6. ASSUME NEW a \in Attempts, Settle(a)
      PROVE  /\ \A o \in Owners : Right(o)'
             /\ \A row \in claims' : row.ns \in Namespaces /\ row.owner \in Owners
  <2> DEFINE c == call[a]  r == c.req  w == r.owner  k == r.base
             own == Claimed(w, k + 1, c.content, r.ns)
             others == {row \in claims : row.owner # w}
  <2>1. /\ r \in Plan[a] /\ w \in Owners /\ Number(w) = k /\ Len(history[w]) = k
        /\ Len(history'[w]) = k + 1
        /\ \A n \in 1..k : history'[w][n] = history[w][n]
        /\ history'[w][k + 1].content = c.content /\ history'[w][k + 1].placement = Placed(c.selected)
        /\ \A o \in Owners \ {w} : history'[o] = history[o]
    BY <1>6, SettleFacts DEF Number
  <2>2. k \in Nat /\ r.ns \in Namespaces
    BY <2>1, RequestFacts
  <2>3. claims' = others \cup own
    BY <1>6, <2>1 DEF Settle, Claims
  <2>4. \A row \in own : row.owner = w /\ row.ns = r.ns
    BY DEF Claimed
  <2>5. history'[w][k + 1].placement.ns = r.ns
    BY <1>6, <2>1, Placing
  <2> HIDE DEF own, others
  <2>6. \A row \in claims' : row.ns \in Namespaces /\ row.owner \in Owners
    BY <1>2, <2>1, <2>2, <2>3, <2>4 DEF others
  <2>7. ASSUME NEW o \in Owners, o # w PROVE Right(o)'
    <3>1. query'[o] = query[o]
      BY <1>6, <2>7 DEF Settle
    <3>2. Own(claims', o) = Own(claims, o)
      BY <2>3, <2>4, <2>7 DEF others
    <3>3. history'[o] = history[o]
      BY <2>1, <2>7
    <3> QED
      BY <1>1, <3>1, <3>2, <3>3
  <2>8. Own(claims', w) = Claimed(w, k + 1, history'[w][k + 1].content, history'[w][k + 1].placement.ns)
    BY <2>1, <2>3, <2>4, <2>5 DEF own, others
  <2>9. Row(w, history'[w], query'[w]) /\ Indexed(query'[w], k + 1)
    <3> DEFINE q == query[w]  q1 == query'[w]  h == history[w]  h1 == history'[w]  m == Material(w, c.content)
    <3>1. Len(h1) = k + 1 /\ h1[k + 1].content = c.content /\ \A n \in 1..k : h1[n] = h[n]
      BY <2>1
    <3>2. CASE c.queryChanged
      <4>1. q1 = [number |-> k + 1, material |-> m]
        BY <1>6, <2>1, <3>2 DEF Settle, OwnersInv, StoreOK
      <4> HIDE DEF q1, h1, m
      <4>2. q1.number = k + 1 /\ q1.material = m
        BY <4>1
      <4>3. q1.number \in 1..(k + 1)
        BY <2>2, <4>2
      <4>4. m = Material(w, h1[k + 1].content)
        BY <3>1 DEF m
      <4> QED
        BY <2>2, <3>1, <4>2, <4>3, <4>4 DEF q1, h1
    <3>3. CASE ~c.queryChanged
      <4>1. q1 = q /\ q # NoRow /\ q.material = m
        BY <1>6, <3>3 DEF Settle, QueryChanges
      <4>2. Row(w, h, q) /\ Indexed(q, k) /\ Len(h) = k
        <5>1. Right(w)
          BY <1>1, <2>1
        <5>2. Indexed(q, k) /\ Len(h) = k
          BY <2>1, <5>1
        <5>3. k > 0
          BY <2>2, <4>1, <5>2
        <5> QED
          BY <2>1, <5>1, <5>2, <5>3
      <4>3. q.number \in 1..k /\ k # 0
        BY <4>1, <4>2
      <4> HIDE DEF q, q1, h, h1, m
      <4>4. h1[q.number] = h[q.number] /\ q.number \in 1..(k + 1)
        BY <2>2, <3>1, <4>3
      <4>5. m = Material(w, h1[k + 1].content)
        BY <3>1 DEF m
      <4>6. q1.material = Material(w, h1[Len(h1)].content) /\ Material(w, h1[q1.number].content) = q1.material
        BY <3>1, <4>1, <4>2, <4>4, <4>5
      <4>7. Indexed(q1, k + 1)
        BY <2>2, <4>1, <4>4
      <4> QED
        BY <4>6, <4>7 DEF q1, h1
    <3> QED
      BY <3>2, <3>3
  <2>10. ASSUME NEW o \in Owners, o = w PROVE Right(o)'
    <3>1. Len(history'[o]) = k + 1
      BY <2>1, <2>10
    <3> HIDE DEF w, k
    <3> QED
      BY <2>8, <2>9, <2>10, <3>1
  <2> QED
    BY <2>6, <2>7, <2>10
<1>7. ASSUME NEW a \in Attempts, Settle(a) PROVE RowsOK'
  BY <1>6, <1>7 DEF RowsOK, MaterialFollowsPlacement, Number, CurrentPlacement
<1>8. ASSUME NEW a \in Attempts, Reject(a) PROVE RowsOK'
  BY <1>5, <1>8 DEF OwnersInv, RowsOK, MaterialFollowsPlacement, Number, CurrentPlacement
<1> QED
  BY <1>4, <1>7, <1>8, OwnerSteps

\* A call loads a request, and from then on only moves.
LEMMA CallSteps ==
  ASSUME CallsOK, [Next]_vars
  PROVE  /\ DOMAIN call' = Attempts
         /\ \A b \in Attempts :
              \/ call'[b] = call[b]
              \/ Load(b)
              \/ /\ call[b].pc \in Working /\ DOMAIN call'[b] = Fields
                 /\ call'[b].req = call[b].req /\ call'[b].content = call[b].content
                 /\ call'[b].selected = call[b].selected
                 /\ \/ call'[b].pc \in {"namespace", "done"}
                    \/ call'[b].pc = "current" /\ ResolveNamespace(b)
                    \/ call'[b].pc = "commit" /\ ReadCurrent(b)
<1> DEFINE Good(b) == \/ call'[b] = call[b]
                      \/ Load(b)
                      \/ /\ call[b].pc \in Working /\ DOMAIN call'[b] = Fields
                         /\ call'[b].req = call[b].req /\ call'[b].content = call[b].content
                         /\ call'[b].selected = call[b].selected
                         /\ \/ call'[b].pc \in {"namespace", "done"}
                            \/ call'[b].pc = "current" /\ ResolveNamespace(b)
                            \/ call'[b].pc = "commit" /\ ReadCurrent(b)
           Goal == DOMAIN call' = Attempts /\ \A b \in Attempts : Good(b)
<1>1. DOMAIN call = Attempts /\ \A b \in Attempts : DOMAIN call[b] = Fields
  BY DEF CallsOK, CallOK
<1>2. ASSUME call' = call PROVE Goal
  BY <1>1, <1>2
<1>3. ASSUME NEW a \in Attempts, Load(a) PROVE Goal
  <2>1. DOMAIN call' = Attempts /\ \A b \in Attempts \ {a} : call'[b] = call[b]
    BY <1>1, <1>3 DEF Load
  <2> QED
    BY <1>3, <2>1
<1>4. ASSUME NEW a \in Attempts, call[a].pc \in Working,
             Goes(a, "namespace") \/ \E reply : Answers(a, reply)
      PROVE  Goal
  <2>1. DOMAIN call' = Attempts /\ \A b \in Attempts \ {a} : call'[b] = call[b]
    BY <1>1, <1>4 DEF Goes, Answers
  <2>2. /\ DOMAIN call'[a] = Fields
        /\ call'[a].req = call[a].req /\ call'[a].content = call[a].content
        /\ call'[a].selected = call[a].selected /\ call'[a].pc \in {"namespace", "done"}
    <3>1. CASE Goes(a, "namespace")
      BY <1>1, <3>1 DEF Goes, Fields
    <3>2. ASSUME NEW reply, Answers(a, reply)
          PROVE  /\ DOMAIN call'[a] = Fields
                 /\ call'[a].req = call[a].req /\ call'[a].content = call[a].content
                 /\ call'[a].selected = call[a].selected /\ call'[a].pc \in {"namespace", "done"}
      BY <1>1, <3>2 DEF Answers, Fields
    <3> QED
      BY <1>4, <3>1, <3>2
  <2> QED
    BY <1>4, <2>1, <2>2
<1>5. ASSUME NEW a \in Attempts, ReadReceipt(a) \/ Settle(a) \/ Replay(a) \/ Reject(a) \/ Fail(a)
      PROVE  Goal
  <2>1. call[a].pc \in Working
    BY <1>5 DEF ReadReceipt, Settle, Replay, Reject, Fail, Working
  <2>2. Goes(a, "namespace") \/ \E reply : Answers(a, reply)
    BY <1>5 DEF ReadReceipt, Settle, Replay, Reject, Fail
  <2> QED
    BY <1>4, <2>1, <2>2
<1>6. ASSUME NEW a \in Attempts, ResolveNamespace(a) PROVE Goal
  <2>1. call[a].pc \in Working
    BY <1>6 DEF ResolveNamespace, Working
  <2>2. CASE namespaces[call[a].req.ns].lifecycle = "active"
    <3>1. call' = [call EXCEPT ![a].pc = "current", ![a].nsRev = namespaces[call[a].req.ns].rev]
      BY <1>6, <2>2 DEF ResolveNamespace
    <3>2. DOMAIN call' = Attempts /\ \A b \in Attempts \ {a} : call'[b] = call[b]
      BY <1>1, <3>1
    <3>3. /\ DOMAIN call'[a] = Fields
          /\ call'[a].req = call[a].req /\ call'[a].content = call[a].content
          /\ call'[a].selected = call[a].selected /\ call'[a].pc = "current"
      BY <1>1, <3>1 DEF Fields
    <3> QED
      BY <1>6, <2>1, <3>2, <3>3
  <2>3. CASE namespaces[call[a].req.ns].lifecycle # "active"
    BY <1>4, <1>6, <2>1, <2>3 DEF ResolveNamespace
  <2> QED
    BY <2>2, <2>3
<1>7. ASSUME NEW a \in Attempts, ReadCurrent(a) PROVE Goal
  <2>1. call[a].pc \in Working
    BY <1>7 DEF ReadCurrent, Working
  <2>2. CASE Number(call[a].req.owner) = call[a].req.base
    <3>1. PICK p, q : call' = [call EXCEPT ![a].pc = "commit", ![a].placementChanged = p, ![a].queryChanged = q]
      BY <1>7, <2>2 DEF ReadCurrent
    <3>2. DOMAIN call' = Attempts /\ \A b \in Attempts \ {a} : call'[b] = call[b]
      BY <1>1, <3>1
    <3>3. /\ DOMAIN call'[a] = Fields
          /\ call'[a].req = call[a].req /\ call'[a].content = call[a].content
          /\ call'[a].selected = call[a].selected /\ call'[a].pc = "commit"
      BY <1>1, <3>1 DEF Fields
    <3> QED
      BY <1>7, <2>1, <3>2, <3>3
  <2>3. CASE Number(call[a].req.owner) # call[a].req.base
    BY <1>4, <1>7, <2>1, <2>3 DEF ReadCurrent
  <2> QED
    BY <2>2, <2>3
<1>8. ASSUME NEW m \in Admins, ReadNamespace(m) \/ WriteNamespace(m) PROVE Goal
  <2>1. call' = call
    BY <1>8 DEF ReadNamespace, WriteNamespace
  <2> QED
    BY <1>2, <2>1
<1>9. ASSUME NEW s \in Searchers, \/ BeginPage(s) \/ ReadScope(s) \/ ReadRows(s)
                                  \/ CheckHandoff(s) \/ ReadDocument(s)
      PROVE  Goal
  <2>1. call' = call
    BY <1>9 DEF BeginPage, ReadScope, ReadRows, CheckHandoff, ReadDocument
  <2> QED
    BY <1>2, <2>1
<1>10. CASE UNCHANGED vars
  BY <1>2, <1>10 DEF vars
<1> HIDE DEF Goal
<1>11. Goal
  BY <1>2, <1>3, <1>5, <1>6, <1>7, <1>8, <1>9 DEF Next, vars
<1> QED
  BY <1>11 DEF Goal

\* The revision that a request names is there for good.
LEMMA BaseStays ==
  ASSUME OwnersInv, [Next]_vars, NEW a \in Attempts, NEW r \in Plan[a], r.base <= Number(r.owner)
  PROVE  /\ r.base <= Number(r.owner)'
         /\ Number(r.owner)' = r.base => Number(r.owner) = r.base
         /\ r.base > 0 => Base(r)' = Base(r)
<1> DEFINE f == history[r.owner]  g == history'[r.owner]  k == r.base
<1>1. /\ Len(f) \in Nat /\ Len(g) \in Nat /\ Len(f) <= Len(g)
      /\ \A n \in 1..Len(f) : g[n] = f[n]
  BY Grows, RequestFacts
<1>2. k \in Nat /\ k <= Len(f)
  BY RequestFacts DEF Number
<1> HIDE DEF f, g, k
<1>3. k <= Len(g) /\ (Len(g) = k => Len(f) = k) /\ (k > 0 => g[k] = f[k])
  BY <1>1, <1>2
<1> QED
  BY <1>3 DEF f, g, k, Number, Base

\* So what a call holds of a request stays right, whatever the other calls do.
LEMMA RequestStays ==
  ASSUME OwnersInv, [Next]_vars, NEW b \in Attempts, RequestOK(b),
         call'[b].req = call[b].req, call'[b].content = call[b].content, call'[b].selected = call[b].selected
  PROVE  /\ RequestOK(b)'
         /\ /\ ChangesOK(b)
            /\ call'[b].placementChanged = call[b].placementChanged
            /\ call'[b].queryChanged = call[b].queryChanged
            => ChangesOK(b)'
<1> DEFINE r == call[b].req  c == call[b]
<1>1. r \in Plan[b] /\ r.base <= Number(r.owner)
  BY DEF RequestOK
<1>2. r.base \in Nat /\ (Modular(r) => r.base > 0)
  BY <1>1, RequestFacts
<1>3. /\ r.base <= Number(r.owner)
      /\ r.base <= Len(history'[r.owner])
      /\ Len(history'[r.owner]) = r.base => Number(r.owner) = r.base
      /\ r.base > 0 => history'[r.owner][r.base] = history[r.owner][r.base]
  BY <1>1, BaseStays DEF Number, Base
<1>4. RequestOK(b)'
  BY <1>2, <1>3 DEF RequestOK, ContentOf, SelectedOf, Base, Number
<1>5. ASSUME ChangesOK(b), call'[b].placementChanged = call[b].placementChanged,
             call'[b].queryChanged = call[b].queryChanged
      PROVE  ChangesOK(b)'
  <2>1. CASE r.base = 0
    BY <1>5, <2>1 DEF ChangesOK
  <2>2. CASE r.base # 0
    <3>1. history'[r.owner][r.base] = history[r.owner][r.base]
      BY <1>2, <1>3, <2>2
    <3> QED
      BY <1>5, <3>1 DEF ChangesOK, Base
  <2> QED
    BY <2>1, <2>2
<1> QED
  BY <1>4, <1>5

\* What is loaded is what the request comes to.
LEMMA LoadStep ==
  ASSUME OwnersInv, NEW a \in Attempts, Load(a)
  PROVE  CallOK(a)'
<1>1. DOMAIN call = Attempts /\ history' = history
  BY DEF OwnersInv, CallsOK, Load
<1>2. PICK r \in Plan[a] :
        LET next == IF Modular(r) THEN Edited(r.owner, Base(r).content, r.edit) ELSE r.edit.content IN
        /\ r.base <= Number(r.owner)
        /\ call' = [call EXCEPT ![a] =
             IF Acceptable(r.owner, next)
             THEN [Idle EXCEPT !.pc = "receipt", !.req = r, !.content = next, !.selected = Select(r, Prior(r))]
             ELSE [Idle EXCEPT !.pc = "done", !.req = r, !.reply = "refused"]]
  BY DEF Load
<1> DEFINE next == IF Modular(r) THEN Edited(r.owner, Base(r).content, r.edit) ELSE r.edit.content
           c == call'[a]
<1>3. r.base \in Nat /\ (Modular(r) => r.base > 0) /\ r.base <= Number(r.owner)
  BY <1>2, RequestFacts
<1>4. CASE Acceptable(r.owner, next)
  <2>1. c = [Idle EXCEPT !.pc = "receipt", !.req = r, !.content = next, !.selected = Select(r, Prior(r))]
    BY <1>1, <1>2, <1>4
  <2> HIDE DEF next
  <2>2. /\ DOMAIN c = Fields /\ c.pc = "receipt" /\ c.req = r /\ c.content = next
        /\ c.selected = Select(r, Prior(r))
    BY <2>1 DEF Idle, Fields
  <2>3. c.selected.ns = r.ns
    BY <2>2 DEF Select
  <2>4. Modular(r) => c.content = ContentOf(r)
    BY <2>2 DEF ContentOf, next
  <2>5. r.base = 0 => c.selected = Select(r, None)
    BY <1>3, <2>2 DEF Prior, PriorOfComplete
  <2>6. r.base > 0 /\ (Modular(r) \/ Number(r.owner) = r.base) => c.selected = SelectedOf(r)
    BY <2>2 DEF Prior, PriorOfComplete, PriorOfEdit, CurrentPlacement, SelectedOf, Base
  <2>7. RequestOK(a)'
    BY <1>1, <1>3, <2>2, <2>3, <2>4, <2>5, <2>6 DEF RequestOK, ContentOf, SelectedOf, Base, Number
  <2> QED
    BY <2>2, <2>7 DEF CallOK, Labels, Working
<1>5. CASE ~Acceptable(r.owner, next)
  <2>1. c = [Idle EXCEPT !.pc = "done", !.req = r, !.reply = "refused"]
    BY <1>1, <1>2, <1>5
  <2>2. DOMAIN c = Fields /\ c.pc = "done" /\ c.reply = "refused"
    BY <2>1 DEF Idle, Fields
  <2> QED
    BY <2>2 DEF CallOK, Accepted, Labels, Working
<1> QED
  BY <1>4, <1>5

\* What is computed of the current revision is computed of the one that the request names.
LEMMA CurrentStep ==
  ASSUME OwnersInv, NEW a \in Attempts, ReadCurrent(a), call'[a].pc = "commit"
  PROVE  ChangesOK(a)' /\ call'[a].nsRev \in Nat \ {0}
<1> DEFINE c == call[a]  r == c.req  o == r.owner  k == r.base
<1>1. CallOK(a) /\ c.pc = "current" /\ DOMAIN call = Attempts
  BY DEF OwnersInv, CallsOK, ReadCurrent
<1>2. RequestOK(a) /\ r \in Plan[a] /\ c.nsRev \in Nat \ {0} /\ DOMAIN c = Fields
  BY <1>1 DEF CallOK, Accepted, Working, RequestOK
<1>3. o \in Owners /\ k \in Nat /\ history' = history
  BY <1>2, RequestFacts DEF ReadCurrent
<1>4. /\ Number(o) = k
      /\ call' = [call EXCEPT ![a].pc = "commit", ![a].placementChanged = PlacementChanges(a),
                              ![a].queryChanged = QueryChanges(a)]
  <2>1. CASE Number(o) = k
    BY <2>1 DEF ReadCurrent
  <2>2. CASE Number(o) # k
    BY <1>1, <1>2, <2>2 DEF ReadCurrent, Answers, Fields
  <2> QED
    BY <2>1, <2>2
<1>5. /\ call'[a].req = r /\ call'[a].content = c.content /\ call'[a].selected = c.selected
      /\ call'[a].nsRev = c.nsRev
      /\ call'[a].placementChanged = PlacementChanges(a) /\ call'[a].queryChanged = QueryChanges(a)
  BY <1>1, <1>2, <1>4 DEF Fields
<1>6. PlacementChanges(a) = (k = 0 \/ Base(r).placement # Placed(c.selected))
  BY <1>4 DEF PlacementChanges, CurrentPlacement, Base
<1>7. QueryChanges(a) = (k = 0 \/ Material(o, Base(r).content) # Material(o, c.content))
  <2>1. IF k = 0 THEN query[o] = NoRow ELSE query[o].number \in 1..k
    BY <1>3, <1>4 DEF OwnersInv, RowsOK
  <2>2. k > 0 => query[o].material = Material(o, Base(r).content)
    BY <1>3, <1>4 DEF OwnersInv, RowsOK, MaterialFollowsPlacement, Base
  <2>3. k > 0 => query[o] # NoRow
    BY <1>3, <2>1 DEF NoRow
  <2> QED
    BY <1>3, <2>1, <2>2, <2>3 DEF QueryChanges
<1>8. ChangesOK(a)'
  BY <1>3, <1>5, <1>6, <1>7 DEF ChangesOK, Base
<1> QED
  BY <1>2, <1>5, <1>8

\* A call that resolved its Namespace holds a revision of it.
LEMMA ResolveStep ==
  ASSUME OwnersInv, NEW a \in Attempts, ResolveNamespace(a), call'[a].pc = "current"
  PROVE  call'[a].nsRev \in Nat \ {0}
<1> DEFINE n == call[a].req.ns
<1>1. CallOK(a) /\ call[a].pc = "namespace" /\ DOMAIN call = Attempts
  BY DEF OwnersInv, CallsOK, ResolveNamespace
<1>2. n \in Namespaces /\ DOMAIN call[a] = Fields
  BY <1>1, RequestFacts DEF CallOK, Accepted, Working, RequestOK
<1>3. namespaces[n].lifecycle = "active"
        /\ call' = [call EXCEPT ![a].pc = "current", ![a].nsRev = namespaces[n].rev]
  <2>1. CASE namespaces[n].lifecycle = "active"
    BY <2>1 DEF ResolveNamespace
  <2>2. CASE namespaces[n].lifecycle # "active"
    BY <1>1, <1>2, <2>2 DEF ResolveNamespace, Answers, Fields
  <2> QED
    BY <2>1, <2>2
<1>4. call'[a].nsRev = namespaces[n].rev
  BY <1>1, <1>2, <1>3 DEF Fields
<1>5. namespaces[n].rev \in Nat /\ namespaces[n].rev > 0
  BY <1>2, <1>3 DEF OwnersInv, StoreOK
<1> QED
  BY <1>4, <1>5

\* Every call holds what its request comes to.
LEMMA CallsStep ==
  ASSUME OwnersInv, [Next]_vars
  PROVE  CallsOK'
<1>1. CallsOK
  BY DEF OwnersInv
<1>2. ASSUME NEW b \in Attempts, call'[b] = call[b]
      PROVE  CallOK(b)'
  <2>1. CallOK(b)
    BY <1>1 DEF CallsOK
  <2>2. Accepted(call[b]) => RequestOK(b)'
    BY <1>2, <2>1, RequestStays DEF CallOK
  <2>3. call[b].pc = "commit" => ChangesOK(b)'
    <3>1. ASSUME call[b].pc = "commit" PROVE RequestOK(b) /\ ChangesOK(b)
      BY <2>1, <3>1 DEF CallOK, Accepted, Working
    <3> QED
      BY <1>2, <3>1, RequestStays
  <2> QED
    BY <1>2, <2>1, <2>2, <2>3 DEF CallOK
<1>3. ASSUME NEW b \in Attempts,
             call[b].pc \in Working, DOMAIN call'[b] = Fields,
             call'[b].req = call[b].req, call'[b].content = call[b].content,
             call'[b].selected = call[b].selected,
             \/ call'[b].pc \in {"namespace", "done"}
             \/ call'[b].pc = "current" /\ ResolveNamespace(b)
             \/ call'[b].pc = "commit" /\ ReadCurrent(b)
      PROVE  CallOK(b)'
  <2>1. RequestOK(b)
    BY <1>1, <1>3 DEF CallsOK, CallOK, Accepted
  <2>2. RequestOK(b)'
    BY <1>3, <2>1, RequestStays
  <2>3. CASE call'[b].pc \in {"namespace", "done"}
    BY <1>3, <2>2, <2>3 DEF CallOK, Labels, Working
  <2>4. CASE call'[b].pc = "current" /\ ResolveNamespace(b)
    BY <1>3, <2>2, <2>4, ResolveStep DEF CallOK, Labels, Working
  <2>5. CASE call'[b].pc = "commit" /\ ReadCurrent(b)
    BY <1>3, <2>2, <2>5, CurrentStep DEF CallOK, Labels, Working
  <2> QED
    BY <1>3, <2>3, <2>4, <2>5
<1> QED
  BY <1>1, <1>2, <1>3, CallSteps, LoadStep DEF CallsOK

\* The envelope of a modular request is what the request comes to.
LEMMA EnvelopeFacts ==
  ASSUME NEW a \in Attempts, RequestOK(a), ChangesOK(a), Modular(call[a].req)
  PROVE  Envelope(a) = EnvelopeOf(call[a].req, call[a].nsRev)
<1> DEFINE c == call[a]  r == c.req
<1>1. r.base > 0 /\ r.base \in Nat
  BY RequestFacts DEF RequestOK
<1>2. c.content = ContentOf(r) /\ c.selected = SelectedOf(r)
  BY <1>1 DEF RequestOK
<1>3. /\ c.placementChanged = (Base(r).placement # Placed(SelectedOf(r)))
      /\ c.queryChanged = (Material(r.owner, Base(r).content) # Material(r.owner, ContentOf(r)))
  BY <1>1, <1>2 DEF ChangesOK
<1> QED
  BY <1>2, <1>3 DEF Envelope, EnvelopeOf, Meaning

\* The receipt of a modular request holds what the request comes to, then and ever after.
LEMMA ReceiptsStep ==
  ASSUME OwnersInv, [Next]_vars
  PROVE  ReceiptsOK'
<1>1. ASSUME NEW op, NEW e, Holds(op, e)
      PROVE  Holds(op, e)'
  <2> DEFINE r == e.meaning.req
  <2>1. PICK a \in Attempts : r \in Plan[a]
    BY <1>1 DEF Holds
  <2>2. r.base <= Number(r.owner)
    BY <1>1 DEF Holds
  <2>3. r.base <= Number(r.owner)' /\ (r.base > 0 => Base(r)' = Base(r)) /\ (Modular(r) => r.base > 0)
    BY <2>1, <2>2, BaseStays, RequestFacts
  <2>4. Modular(r) => EnvelopeOf(r, e.nsRev)' = EnvelopeOf(r, e.nsRev)
    BY <2>3 DEF EnvelopeOf, ContentOf, SelectedOf
  <2> QED
    BY <1>1, <2>1, <2>3, <2>4 DEF Holds
<1>2. \A op \in Ops : receipts[op].outcome = "committed" => Holds(op, receipts[op].envelope)
  BY DEF OwnersInv, ReceiptsOK
<1>3. ASSUME NEW op \in Ops, NEW e, receipts'[op].envelope = e, Holds(op, e)
      PROVE  Holds(op, receipts[op].envelope)'
  <2>1. Holds(op, e)'
    BY <1>1, <1>3
  <2> QED
    BY <1>3, <2>1 DEF Holds
<1>4. ASSUME NEW op \in Ops, receipts'[op] = receipts[op], receipts'[op].outcome = "committed"
      PROVE  Holds(op, receipts[op].envelope)'
  BY <1>2, <1>3, <1>4
<1>5. ASSUME NEW a \in Attempts, Settle(a), NEW op \in Ops, receipts'[op].outcome = "committed"
      PROVE  Holds(op, receipts[op].envelope)'
  <2> DEFINE q == call[a].req  f == Envelope(a)
  <2>1. q \in Plan[a] /\ RequestOK(a) /\ ChangesOK(a)
    BY <1>5, SettleFacts
  <2>2. q.op \in Ops /\ q.base <= Number(q.owner)
    BY <2>1, RequestFacts DEF RequestOK
  <2>3. receipts' = [receipts EXCEPT ![q.op] = [outcome |-> "committed", envelope |-> f]] /\ DOMAIN receipts = Ops
    BY <1>5 DEF Settle, OwnersInv, StoreOK
  <2>4. f.meaning.req = q /\ f.nsRev = call[a].nsRev
    BY DEF Envelope, Meaning
  <2>5. Modular(q) => f = EnvelopeOf(q, f.nsRev)
    BY <2>1, <2>4, EnvelopeFacts
  <2>6. CASE op = q.op
    <3>1. Holds(op, f)
      BY <2>1, <2>2, <2>4, <2>5, <2>6 DEF Holds
    <3>2. receipts'[op].envelope = f
      BY <2>2, <2>3, <2>6
    <3> QED
      BY <1>3, <3>1, <3>2
  <2>7. CASE op # q.op
    <3>1. receipts'[op] = receipts[op]
      BY <2>3, <2>7
    <3> QED
      BY <1>4, <1>5, <3>1
  <2> QED
    BY <2>6, <2>7
<1>6. ASSUME NEW a \in Attempts, Reject(a), NEW op \in Ops, receipts'[op].outcome = "committed"
      PROVE  receipts'[op] = receipts[op]
  <2>1. receipts' = [receipts EXCEPT ![call[a].req.op] = [outcome |-> "rejected", envelope |-> Envelope(a)]]
        /\ DOMAIN receipts = Ops
    BY <1>6 DEF Reject, OwnersInv, StoreOK
  <2> QED
    BY <1>6, <2>1
<1>7. CASE receipts' = receipts
  BY <1>4, <1>7 DEF ReceiptsOK
<1>8. ASSUME NEW a \in Attempts, Settle(a) PROVE ReceiptsOK'
  BY <1>5, <1>8 DEF ReceiptsOK
<1>9. ASSUME NEW a \in Attempts, Reject(a) PROVE ReceiptsOK'
  BY <1>4, <1>6, <1>9 DEF ReceiptsOK
<1> QED
  BY <1>7, <1>8, <1>9, OwnerSteps

\* What a call is told is true of the receipt of its operation, then and ever after.
LEMMA AnswersStep ==
  ASSUME OwnersInv, [Next]_vars
  PROVE  AnswersOK'
<1> DEFINE Told(c, settled) ==
             c.pc = "done" /\ c.reply # "refused" =>
               /\ c.reply \in {"committed", "replayed"} =>
                    settled.outcome = "committed" /\ settled.envelope.meaning.req = c.req
               /\ /\ c.reply = "idempotency_mismatch" /\ Modular(c.req)
                  /\ settled.outcome = "committed" /\ settled.envelope.meaning.req = c.req
                  => c.nsRev \notin {0, settled.envelope.nsRev}
               /\ c.reply = "idempotency_mismatch" => settled.outcome # "none"
           Right(b) == Told(call'[b], receipts'[call'[b].req.op])
<1>1. \A a \in Attempts : Told(call[a], receipts[call[a].req.op])
  BY DEF OwnersInv, AnswersOK, AnswersFollowReceipts
<1>2. /\ DOMAIN call = Attempts
      /\ \A a \in Attempts : CallOK(a) /\ DOMAIN call[a] = Fields
      /\ \A op \in Ops : receipts[op].outcome # "none" => receipts'[op] = receipts[op]
  BY Grows DEF OwnersInv, CallsOK, CallOK
<1>3. ASSUME NEW b \in Attempts, call'[b] = call[b]
      PROVE  Right(b)
  <2> DEFINE c == call[b]  settled == receipts[c.req.op]
  <2>1. CASE c.pc = "done" /\ c.reply \in {"committed", "replayed", "idempotency_mismatch"}
    <3>1. c.req.op \in Ops
      BY <1>2, <2>1, RequestFacts DEF CallOK, Accepted, RequestOK
    <3>2. Told(c, settled)
      BY <1>1
    <3>3. settled.outcome # "none"
      BY <2>1, <3>2
    <3>4. receipts'[c.req.op] = settled
      BY <1>2, <3>1, <3>3
    <3> QED
      BY <1>3, <3>2, <3>4
  <2>2. CASE ~(c.pc = "done" /\ c.reply \in {"committed", "replayed", "idempotency_mismatch"})
    BY <1>3, <2>2
  <2> QED
    BY <2>1, <2>2
<1>4. ASSUME NEW a \in Attempts, NEW reply, Answers(a, reply)
      PROVE  /\ call'[a].pc = "done" /\ call'[a].reply = reply
             /\ call'[a].req = call[a].req /\ call'[a].nsRev = call[a].nsRev
             /\ \A b \in Attempts \ {a} : call'[b] = call[b]
  BY <1>2, <1>4 DEF Answers, Fields
<1>0. ASSUME NEW a \in Attempts, NEW reply, Answers(a, reply), Right(a)
      PROVE  \A b \in Attempts : Right(b)
  <2>1. \A b \in Attempts \ {a} : Right(b)
    BY <1>0, <1>3, <1>4
  <2> HIDE DEF Right
  <2> QED
    BY <1>0, <2>1
<1>5. ASSUME NEW a \in Attempts,
             \/ Answers(a, "context_stale") \/ Answers(a, "revision_conflict")
             \/ Answers(a, "commit_execution_failed")
      PROVE  \A b \in Attempts : Right(b)
  <2>1. PICK reply \in {"context_stale", "revision_conflict", "commit_execution_failed"} : Answers(a, reply)
    BY <1>5
  <2>2. call'[a].reply = reply
    BY <1>4, <2>1
  <2>3. Right(a)
    BY <2>2
  <2> QED
    BY <1>0, <2>1, <2>3
<1>6. ASSUME NEW a \in Attempts, call[a].pc \in Working
      PROVE  RequestOK(a) /\ call[a].req.op \in Ops
  BY <1>2, <1>6, RequestFacts DEF CallOK, Accepted, RequestOK
<1>7. ASSUME NEW a \in Attempts, Load(a)
      PROVE  \A b \in Attempts : Right(b)
  <2>1. /\ call'[a].pc = "receipt" \/ call'[a].reply = "refused"
        /\ \A b \in Attempts \ {a} : call'[b] = call[b]
    BY <1>2, <1>7 DEF Load, Idle
  <2> QED
    BY <1>3, <2>1
<1>8. ASSUME NEW a \in Attempts, ReadReceipt(a)
      PROVE  \A b \in Attempts : Right(b)
  <2> DEFINE r == call[a].req  settled == receipts[r.op]
  <2>1. call[a].pc \in Working /\ receipts' = receipts
    BY <1>8 DEF ReadReceipt, Working
  <2>2. RequestOK(a) /\ r.op \in Ops
    BY <1>6, <2>1
  <2>3. CASE settled.outcome = "none"
    <3>1. call' = [call EXCEPT ![a].pc = "namespace"]
      BY <1>8, <2>3 DEF ReadReceipt, Found, Goes
    <3>2. call'[a].pc = "namespace" /\ \A b \in Attempts \ {a} : call'[b] = call[b]
      BY <1>2, <3>1 DEF Fields
    <3> QED
      BY <1>3, <3>2
  <2>4. CASE settled.outcome = "committed" /\ settled.envelope.meaning = Meaning(a)
    <3>1. Answers(a, "replayed")
      BY <1>8, <2>4 DEF ReadReceipt, Found
    <3>2. settled.envelope.meaning.req = r
      BY <2>4 DEF Meaning
    <3>3. /\ call'[a].reply = "replayed" /\ call'[a].req = r
          /\ receipts'[r.op] = settled
      BY <1>4, <2>1, <3>1
    <3>4. Right(a)
      BY <2>4, <3>2, <3>3
    <3> QED
      BY <1>0, <3>1, <3>4
  <2>5. CASE settled.outcome # "none" /\ ~(settled.outcome = "committed" /\ settled.envelope.meaning = Meaning(a))
    <3>1. Answers(a, "idempotency_mismatch")
      BY <1>8, <2>5 DEF ReadReceipt, Found
    <3>2. ~(Modular(r) /\ settled.outcome = "committed" /\ settled.envelope.meaning.req = r)
      <4>1. SUFFICES ASSUME Modular(r), settled.outcome = "committed", settled.envelope.meaning.req = r
                     PROVE  settled.envelope.meaning = Meaning(a)
        BY <2>5
      <4>2. settled.envelope = EnvelopeOf(r, settled.envelope.nsRev)
        BY <2>2, <4>1 DEF OwnersInv, ReceiptsOK, Holds
      <4>3. settled.envelope.meaning = [req |-> r, content |-> ContentOf(r), selected |-> SelectedOf(r)]
        BY <4>2 DEF EnvelopeOf
      <4>4. r.base > 0
        BY <2>2, <4>1, RequestFacts DEF RequestOK
      <4> QED
        BY <2>2, <4>1, <4>3, <4>4 DEF Meaning, RequestOK
    <3>3. /\ call'[a].pc = "done" /\ call'[a].reply = "idempotency_mismatch" /\ call'[a].req = r
          /\ receipts'[r.op] = settled
      BY <1>4, <2>1, <3>1
    <3>4. Right(a)
      BY <2>5, <3>2, <3>3
    <3>5. \A b \in Attempts \ {a} : Right(b)
      BY <1>3, <1>4, <3>1
    <3> QED
      BY <3>4, <3>5
  <2> QED
    BY <2>3, <2>4, <2>5
<1>9. ASSUME NEW a \in Attempts, ResolveNamespace(a)
      PROVE  \A b \in Attempts : Right(b)
  <2>1. CASE namespaces[call[a].req.ns].lifecycle = "active"
    <3>1. call'[a].pc = "current" /\ \A b \in Attempts \ {a} : call'[b] = call[b]
      BY <1>2, <1>9, <2>1 DEF ResolveNamespace, Fields
    <3> QED
      BY <1>3, <3>1
  <2>2. CASE namespaces[call[a].req.ns].lifecycle # "active"
    BY <1>5, <1>9, <2>2 DEF ResolveNamespace
  <2> QED
    BY <2>1, <2>2
<1>10. ASSUME NEW a \in Attempts, ReadCurrent(a)
       PROVE  \A b \in Attempts : Right(b)
  <2>1. CASE Number(call[a].req.owner) = call[a].req.base
    <3>1. call'[a].pc = "commit" /\ \A b \in Attempts \ {a} : call'[b] = call[b]
      BY <1>2, <1>10, <2>1 DEF ReadCurrent, Fields
    <3> QED
      BY <1>3, <3>1
  <2>2. CASE Number(call[a].req.owner) # call[a].req.base
    BY <1>5, <1>10, <2>2 DEF ReadCurrent
  <2> QED
    BY <2>1, <2>2
<1>11. ASSUME NEW a \in Attempts, Settle(a)
       PROVE  \A b \in Attempts : Right(b)
  <2> DEFINE r == call[a].req
  <2>1. /\ call[a].pc \in Working /\ Answers(a, "committed") /\ DOMAIN receipts = Ops
        /\ receipts' = [receipts EXCEPT ![r.op] = [outcome |-> "committed", envelope |-> Envelope(a)]]
    BY <1>11 DEF Settle, Working, OwnersInv, StoreOK
  <2>2. receipts'[r.op] = [outcome |-> "committed", envelope |-> Envelope(a)]
    BY <1>6, <2>1
  <2>3. Envelope(a).meaning.req = r
    BY DEF Envelope, Meaning
  <2>4. call'[a].reply = "committed" /\ call'[a].req = r
    BY <1>4, <2>1
  <2>5. Right(a)
    BY <2>2, <2>3, <2>4
  <2> QED
    BY <1>0, <2>1, <2>5
<1>12. ASSUME NEW a \in Attempts, Replay(a)
       PROVE  \A b \in Attempts : Right(b)
  <2> DEFINE c == call[a]  r == c.req  settled == receipts[r.op]
  <2>1. call[a].pc = "commit" /\ call[a].pc \in Working /\ receipts' = receipts /\ settled.outcome # "none"
    BY <1>12 DEF Replay, Working, Found
  <2>2. RequestOK(a) /\ r.op \in Ops /\ ChangesOK(a) /\ c.nsRev \in Nat \ {0}
    BY <1>2, <1>6, <2>1 DEF CallOK
  <2>3. CASE settled.envelope # Envelope(a)
    <3>1. Answers(a, "idempotency_mismatch")
      BY <1>12, <2>3 DEF Replay, Found
    <3>2. ASSUME Modular(r), settled.outcome = "committed", settled.envelope.meaning.req = r
          PROVE  c.nsRev \notin {0, settled.envelope.nsRev}
      <4>1. settled.envelope = EnvelopeOf(r, settled.envelope.nsRev)
        BY <2>2, <3>2 DEF OwnersInv, ReceiptsOK, Holds
      <4>2. Envelope(a) = EnvelopeOf(r, c.nsRev)
        BY <2>2, <3>2, EnvelopeFacts
      <4> QED
        BY <2>2, <2>3, <4>1, <4>2
    <3>3. /\ call'[a].reply = "idempotency_mismatch" /\ call'[a].req = r /\ call'[a].nsRev = c.nsRev
          /\ receipts'[r.op] = settled
      BY <1>4, <2>1, <3>1
    <3>4. Right(a)
      BY <2>1, <3>2, <3>3
    <3> QED
      BY <1>0, <3>1, <3>4
  <2>4. CASE settled.envelope = Envelope(a) /\ settled.outcome = "committed"
    <3>1. Answers(a, "replayed")
      BY <1>12, <2>4 DEF Replay, Found
    <3>2. settled.envelope.meaning.req = r
      BY <2>4 DEF Envelope, Meaning
    <3>3. /\ call'[a].reply = "replayed" /\ call'[a].req = r
          /\ receipts'[r.op] = settled
      BY <1>4, <2>1, <3>1
    <3>4. Right(a)
      BY <2>4, <3>2, <3>3
    <3> QED
      BY <1>0, <3>1, <3>4
  <2>5. CASE settled.envelope = Envelope(a) /\ settled.outcome # "committed"
    BY <1>5, <1>12, <2>5 DEF Replay, Found
  <2> QED
    BY <2>3, <2>4, <2>5
<1>13. ASSUME NEW a \in Attempts, Reject(a) \/ Fail(a)
       PROVE  \A b \in Attempts : Right(b)
  BY <1>5, <1>13 DEF Reject, Fail
<1>14. CASE call' = call
  BY <1>3, <1>14 DEF AnswersOK, AnswersFollowReceipts
<1>15. ASSUME \A b \in Attempts : Right(b) PROVE AnswersOK'
  BY <1>15 DEF AnswersOK, AnswersFollowReceipts
<1> HIDE DEF Right
<1>16. ASSUME NEW m \in Admins, ReadNamespace(m) \/ WriteNamespace(m) PROVE call' = call
  BY <1>16 DEF ReadNamespace, WriteNamespace
<1>17. ASSUME NEW s \in Searchers, \/ BeginPage(s) \/ ReadScope(s) \/ ReadRows(s)
                                   \/ CheckHandoff(s) \/ ReadDocument(s)
       PROVE  call' = call
  BY <1>17 DEF BeginPage, ReadScope, ReadRows, CheckHandoff, ReadDocument
<1> QED
  BY <1>7, <1>8, <1>9, <1>10, <1>11, <1>12, <1>13, <1>14, <1>15, <1>16, <1>17 DEF Next, vars

-------------------------------------------------------------------------------
\* Searches

\* While the generations are the same, so is what search finds in a Namespace: a commit
\* that advances neither leaves the placement and the rows of its owner.
LEMMA RowsSteady ==
  ASSUME OwnersInv, [Next]_vars, generations' = generations, NEW n
  PROVE  Rows(n)' = Rows(n)
<1>1. CASE UNCHANGED <<history, query, claims, receipts>>
  BY <1>1 DEF Rows, Number, CurrentPlacement
<1>2. ASSUME NEW a \in Attempts, Reject(a) PROVE Rows(n)' = Rows(n)
  BY <1>2 DEF Reject, Rows, Number, CurrentPlacement
<1>3. ASSUME NEW a \in Attempts, Settle(a) PROVE Rows(n)' = Rows(n)
  <2> DEFINE c == call[a]  r == c.req  w == r.owner  k == r.base
  <2>1. /\ w \in Owners /\ Number(w) = k /\ Len(history[w]) = k /\ Len(history'[w]) = k + 1
        /\ history'[w][k + 1].placement = Placed(c.selected)
        /\ \A o \in Owners \ {w} : history'[o] = history[o]
        /\ ChangesOK(a) /\ k \in Nat
    BY <1>3, SettleFacts, RequestFacts DEF Number
  <2>2. ~c.placementChanged /\ ~c.queryChanged
    <3>1. generations' = [generations EXCEPT !.p = @ + Bump(c.placementChanged), !.r = @ + Bump(c.queryChanged)]
      BY <1>3 DEF Settle
    <3>2. generations = [h |-> generations.h, p |-> generations.p, r |-> generations.r]
          /\ generations.p \in Nat /\ generations.r \in Nat
      BY DEF OwnersInv, StoreOK, Generations
    <3> DEFINE bp == Bump(c.placementChanged)  br == Bump(c.queryChanged)
    <3>3. bp \in {0, 1} /\ br \in {0, 1}
      BY DEF Bump
    <3>4. (c.placementChanged => bp = 1) /\ (c.queryChanged => br = 1)
      BY DEF Bump
    <3> HIDE DEF bp, br
    <3>5. generations.p = generations.p + bp /\ generations.r = generations.r + br
      <4>1. generations'.p = generations.p + bp /\ generations'.r = generations.r + br
        BY <3>1, <3>2 DEF bp, br
      <4> QED
        BY <4>1
    <3>6. bp = 0 /\ br = 0
      BY <3>2, <3>3, <3>5
    <3> QED
      BY <3>4, <3>6
  <2>3. query' = query
    BY <1>3, <2>2 DEF Settle
  <2>4. k > 0 /\ history[w][k].placement = Placed(c.selected)
    <3>1. c.placementChanged = (k = 0 \/ history[w][k].placement # Placed(c.selected))
      BY <2>1 DEF ChangesOK, Base
    <3>2. k # 0 /\ history[w][k].placement = Placed(c.selected)
      BY <2>2, <3>1
    <3> QED
      BY <2>1, <3>2
  <2>5. \A o \in Owners :
          /\ (Len(history'[o]) > 0) = (Len(history[o]) > 0)
          /\ Len(history[o]) > 0 =>
               history'[o][Len(history'[o])].placement.ns = history[o][Len(history[o])].placement.ns
    <3>1. ASSUME NEW o \in Owners, o # w
          PROVE  /\ (Len(history'[o]) > 0) = (Len(history[o]) > 0)
                 /\ history'[o][Len(history'[o])].placement.ns = history[o][Len(history[o])].placement.ns
      BY <2>1, <3>1
    <3> HIDE DEF k, w
    <3>2. /\ (Len(history'[w]) > 0) = (Len(history[w]) > 0)
          /\ history'[w][Len(history'[w])].placement.ns = history[w][Len(history[w])].placement.ns
      BY <2>1, <2>4
    <3> QED
      BY <3>1, <3>2
  <2> QED
    BY <2>3, <2>5 DEF Rows, Number, CurrentPlacement
<1> QED
  BY <1>1, <1>2, <1>3, OwnerSteps

\* The generations that a search holds are of a time when its Namespace held `listed`; if
\* they are the current ones, nothing has changed in between.
LEMMA SearchStays ==
  ASSUME OwnersInv, [Next]_vars, NEW c, SearchOK(c)
  PROVE  SearchOK(c)'
<1>1. /\ generations \in Generations /\ generations' \in Generations /\ UpTo(generations, generations')
  BY NamespaceStep DEF OwnersInv, StoreOK
<1>2. ASSUME Started(c)
      PROVE  /\ c.generations \in Generations /\ UpTo(c.generations, generations') /\ c.ns \in Namespaces
             /\ c.generations = generations' => generations' = generations
  <2> DEFINE g == c.generations  e == generations  f == generations'
  <2>1. g \in Generations /\ UpTo(g, e) /\ c.ns \in Namespaces
    BY <1>2 DEF SearchOK, ScopeOK
  <2>2. e \in Generations /\ f \in Generations /\ UpTo(e, f)
    BY <1>1
  <2> HIDE DEF g, e, f
  <2>3. UpTo(g, f)
    BY <2>1, <2>2 DEF UpTo, Generations
  <2>4. ASSUME g = f PROVE f = e
    <3>1. f.h = e.h /\ f.p = e.p /\ f.r = e.r
      BY <2>1, <2>2, <2>4 DEF UpTo, Generations
    <3>2. f = [h |-> f.h, p |-> f.p, r |-> f.r] /\ e = [h |-> e.h, p |-> e.p, r |-> e.r]
      BY <2>2 DEF Generations
    <3> QED
      BY <3>1, <3>2
  <2> QED
    BY <2>1, <2>3, <2>4 DEF g, e, f
<1>3. ScopeOK(c)'
  <2>1. ASSUME Started(c), c.generations = generations'
        PROVE  c.listed = Ordered(Rows(c.ns)')
    <3>1. generations' = generations
      BY <1>2, <2>1
    <3>2. c.listed = Ordered(Rows(c.ns))
      BY <2>1, <3>1 DEF SearchOK, ScopeOK
    <3>3. Rows(c.ns)' = Rows(c.ns)
      BY <3>1, RowsSteady
    <3> QED
      BY <3>2, <3>3
  <2> QED
    BY <1>2, <2>1 DEF ScopeOK, Ordered
<1>4. PagesOK(c)'
  <2>1. Len(c.pages) > 0 => Started(c)
    BY DEF Started
  <2> QED
    BY <1>2, <2>1 DEF SearchOK, PagesOK
<1> QED
  BY <1>3, <1>4 DEF SearchOK, MarksOK

\* A page begins with the generations of the one before it, or with the first ones.
LEMMA BeginStep ==
  ASSUME StoreOK, NEW s \in Searchers, SearchOK(search[s]), BeginPage(s), DOMAIN search = Searchers
  PROVE  SearchOK(search'[s])
<1> DEFINE c == search[s]  d == search'[s]
<1>1. PICK n \in Namespaces :
        /\ c.pc = "begin" /\ c.ns \in {None, n}
        /\ d = IF c.cursor # None /\ c.cursor.generations # generations
               THEN [c EXCEPT !.pc = "stale"]
               ELSE [c EXCEPT !.pc = "scope", !.ns = n, !.generations = generations,
                              !.listed = IF c.cursor = None THEN Ordered(Rows(n)) ELSE @]
  BY DEF BeginPage
<1>2. /\ DOMAIN c = SearchFields /\ ScopeOK(c) /\ MarksOK(c) /\ PagesOK(c)
      /\ generations \in Generations /\ UpTo(generations, generations)
  BY DEF SearchOK, StoreOK, UpTo, Generations
<1>3. CASE c.cursor # None /\ c.cursor.generations # generations
  <2>1. /\ d.pc = "stale" /\ DOMAIN d = SearchFields /\ d.ns = c.ns /\ d.generations = c.generations
        /\ d.cursor = c.cursor /\ d.handoff = c.handoff /\ d.pages = c.pages /\ d.listed = c.listed
    BY <1>1, <1>2, <1>3 DEF SearchFields
  <2>2. Started(c)
    BY <1>2, <1>3 DEF MarksOK, Started
  <2> HIDE DEF d
  <2>3. ScopeOK(d)
    BY <1>2, <2>1, <2>2 DEF ScopeOK
  <2>4. MarksOK(d) /\ PagesOK(d)
    BY <1>2, <2>1 DEF MarksOK, PagesOK
  <2> QED
    BY <2>1, <2>3, <2>4 DEF SearchOK, Stages, d
<1>4. CASE c.cursor = None
  <2>1. /\ d.pc = "scope" /\ DOMAIN d = SearchFields /\ d.ns = n /\ d.generations = generations
        /\ d.cursor = None /\ d.handoff = c.handoff /\ d.pages = c.pages /\ d.listed = Ordered(Rows(n))
    BY <1>1, <1>2, <1>4 DEF SearchFields
  <2>2. ~(Len(c.pages) > 0) /\ c.handoff = None
    BY <1>1, <1>2, <1>4 DEF MarksOK
  <2> HIDE DEF d
  <2>3. ScopeOK(d)
    BY <1>2, <2>1 DEF ScopeOK
  <2>4. MarksOK(d) /\ PagesOK(d)
    BY <1>2, <2>1, <2>2 DEF MarksOK, PagesOK
  <2> QED
    BY <2>1, <2>3, <2>4 DEF SearchOK, Stages, d
<1>5. CASE c.cursor # None /\ c.cursor.generations = generations
  <2>1. /\ d.pc = "scope" /\ DOMAIN d = SearchFields /\ d.ns = n /\ d.generations = generations
        /\ d.cursor = c.cursor /\ d.handoff = c.handoff /\ d.pages = c.pages /\ d.listed = c.listed
    BY <1>1, <1>2, <1>5 DEF SearchFields
  <2>2. Len(c.pages) > 0 /\ c.generations = generations /\ Started(c)
    BY <1>2, <1>5 DEF MarksOK, Started
  <2>3. c.ns = n /\ c.listed = Ordered(Rows(c.ns))
    BY <1>1, <1>2, <2>2, NoneAssumption DEF ScopeOK
  <2> HIDE DEF d
  <2>4. ScopeOK(d)
    BY <1>2, <2>1, <2>3 DEF ScopeOK
  <2>5. MarksOK(d) /\ PagesOK(d)
    BY <1>2, <2>1, <2>2 DEF MarksOK, PagesOK
  <2> QED
    BY <2>1, <2>4, <2>5 DEF SearchOK, Stages, d
<1> QED
  BY <1>3, <1>4, <1>5

\* A page is of the first one's state if nothing has changed since.
LEMMA PageStep ==
  ASSUME StoreOK, NEW s \in Searchers, SearchOK(search[s]), ReadRows(s), DOMAIN search = Searchers
  PROVE  SearchOK(search'[s])
<1> DEFINE c == search[s]  d == search'[s]  list == Ordered(Rows(c.ns))
           offset == IF c.cursor = None THEN 0 ELSE c.cursor.offset
           mark == [offset |-> offset + 1, generations |-> c.generations]
<1>1. /\ c.pc = "rows" /\ DOMAIN c = SearchFields /\ ScopeOK(c) /\ MarksOK(c) /\ PagesOK(c)
      /\ Started(c)
  BY DEF SearchOK, ReadRows, Started
<1>2. CASE offset > Len(list)
  <2>1. d = [c EXCEPT !.pc = "stale"]
    BY <1>2 DEF ReadRows
  <2>2. /\ d.pc = "stale" /\ DOMAIN d = SearchFields /\ d.ns = c.ns /\ d.generations = c.generations
        /\ d.cursor = c.cursor /\ d.handoff = c.handoff /\ d.pages = c.pages /\ d.listed = c.listed
    BY <1>1, <2>1 DEF SearchFields
  <2> HIDE DEF d
  <2>3. ScopeOK(d) /\ MarksOK(d) /\ PagesOK(d)
    BY <1>1, <2>2 DEF ScopeOK, MarksOK, PagesOK
  <2> QED
    BY <2>2, <2>3 DEF SearchOK, Stages, d
<1>3. CASE ~(offset > Len(list))
  <2>1. PICK row :
          d = [c EXCEPT !.pc = IF offset + 1 < Len(list) THEN "begin" ELSE "complete",
                        !.pages = Append(@, list),
                        !.cursor = IF offset + 1 < Len(list) THEN mark ELSE None,
                        !.handoff = IF offset < Len(list)
                                    THEN [row |-> row, generations |-> c.generations] ELSE None]
    BY <1>3 DEF ReadRows
  <2>2. /\ DOMAIN d = SearchFields /\ d.ns = c.ns /\ d.generations = c.generations /\ d.listed = c.listed
        /\ d.pages = Append(c.pages, list)
        /\ d.pc \in {"begin", "complete"}
        /\ d.pc = "begin" => d.cursor = mark
        /\ d.cursor \in {mark, None}
        /\ d.handoff # None => d.handoff.generations = c.generations
    BY <1>1, <2>1 DEF SearchFields
  <2>3. mark \in Cursors /\ mark.generations = c.generations /\ mark # None
    <3>1. offset \in Nat /\ c.generations \in Generations
      BY <1>1 DEF MarksOK, ScopeOK, Cursors
    <3> HIDE DEF offset
    <3> QED
      BY <3>1, NoneAssumption DEF Cursors
  <2>4. /\ Len(c.pages) \in Nat /\ Len(d.pages) = Len(c.pages) + 1
        /\ d.pages = [i \in 1..Len(d.pages) |-> d.pages[i]]
        /\ \A i \in 1..Len(c.pages) : d.pages[i] = c.pages[i]
        /\ d.pages[Len(d.pages)] = list
    <3> DEFINE f == c.pages  g == d.pages
    <3>1. g = Append(f, list) /\ Len(f) \in Nat /\ f = [i \in 1..Len(f) |-> f[i]]
      BY <1>1, <2>2 DEF PagesOK
    <3> HIDE DEF f, g, list
    <3>2. /\ Len(g) = Len(f) + 1 /\ g = [i \in 1..(Len(f) + 1) |-> g[i]]
          /\ \A i \in 1..Len(f) : g[i] = f[i]
          /\ g[Len(f) + 1] = list
      BY <3>1, Appended
    <3> QED
      BY <3>1, <3>2 DEF f, g
  <2> HIDE DEF d, mark, list
  <2>5. ScopeOK(d)
    BY <1>1, <2>2 DEF ScopeOK
  <2>6. MarksOK(d)
    BY <2>2, <2>3, <2>4 DEF MarksOK
  <2>7. PagesOK(d)
    <3>1. \A i \in 1..Len(c.pages) : c.pages[i] = c.listed
      BY <1>1 DEF PagesOK
    <3>2. \A i \in 1..(Len(d.pages) - 1) : d.pages[i] = d.listed
      BY <2>2, <2>4, <3>1
    <3>3. d.generations = generations => list = d.listed
      BY <1>1, <2>2 DEF ScopeOK, list
    <3>4. d.pc \notin {"scope", "rows", "hydrate", "hydrated"}
      BY <2>2
    <3> QED
      BY <2>4, <3>2, <3>3, <3>4 DEF PagesOK
  <2> QED
    BY <2>2, <2>5, <2>6, <2>7 DEF SearchOK, Stages, d
<1> QED
  BY <1>2, <1>3

\* The other reads of a search only move it.
LEMMA MarkStep ==
  ASSUME StoreOK, NEW s \in Searchers, SearchOK(search[s]), DOMAIN search = Searchers,
         ReadScope(s) \/ CheckHandoff(s) \/ ReadDocument(s)
  PROVE  SearchOK(search'[s])
<1> DEFINE c == search[s]  d == search'[s]
<1>1. DOMAIN c = SearchFields /\ ScopeOK(c) /\ MarksOK(c) /\ PagesOK(c)
  BY DEF SearchOK
<1>2. PICK pc \in {"rows", "stale", "hydrate", "hydrated"} :
        /\ search' = [search EXCEPT ![s].pc = pc]
        /\ pc = "rows" => c.pc = "scope"
        /\ pc = "hydrate" => c.handoff # None /\ c.handoff.generations = generations
        /\ pc = "hydrated" => c.pc = "hydrate"
        /\ c.pc \in {"scope", "hydrate"} \/ c.handoff # None
  BY DEF ReadScope, CheckHandoff, ReadDocument
<1>3. /\ d.pc = pc /\ DOMAIN d = SearchFields /\ d.ns = c.ns /\ d.generations = c.generations
      /\ d.cursor = c.cursor /\ d.handoff = c.handoff /\ d.pages = c.pages /\ d.listed = c.listed
  BY <1>1, <1>2 DEF SearchFields
<1>4. Started(c)
  BY <1>1, <1>2 DEF MarksOK, Started
<1>5. pc = "hydrate" => c.generations = generations
  BY <1>1, <1>2 DEF MarksOK
<1> HIDE DEF d
<1>6. ScopeOK(d)
  BY <1>1, <1>3, <1>4 DEF ScopeOK
<1>7. MarksOK(d)
  BY <1>1, <1>2, <1>3 DEF MarksOK
<1>8. PagesOK(d)
  BY <1>1, <1>2, <1>3, <1>5 DEF PagesOK
<1> QED
  BY <1>2, <1>3, <1>6, <1>7, <1>8 DEF SearchOK, Stages, d

\* Every search holds pages of one state, but for the last.
LEMMA SearchesStep ==
  ASSUME OwnersInv, SearchesOK, [Next]_vars
  PROVE  SearchesOK'
<1>1. DOMAIN search = Searchers /\ \A s \in Searchers : SearchOK(search[s])
  BY DEF SearchesOK
<1>2. ASSUME NEW t \in Searchers, search'[t] = search[t]
      PROVE  SearchOK(search[t])'
  <2>1. PICK c : c = search[t]
    OBVIOUS
  <2>2. SearchOK(c)'
    BY <1>1, <2>1, SearchStays
  <2> QED
    BY <1>2, <2>1, <2>2 DEF SearchOK, ScopeOK, MarksOK, PagesOK, Started, Rows, Number, CurrentPlacement
<1>3. ASSUME NEW s \in Searchers,
             BeginPage(s) \/ ReadScope(s) \/ ReadRows(s) \/ CheckHandoff(s) \/ ReadDocument(s)
      PROVE  SearchesOK'
  <2>1. /\ UNCHANGED <<history, generations, query>> /\ DOMAIN search' = Searchers
        /\ \A t \in Searchers \ {s} : search'[t] = search[t]
    BY <1>1, <1>3 DEF BeginPage, ReadScope, ReadRows, CheckHandoff, ReadDocument
  <2>2. SearchOK(search'[s])
    <3>1. StoreOK
      BY DEF OwnersInv
    <3> QED
      BY <1>1, <1>3, <3>1, BeginStep, PageStep, MarkStep
  <2>3. SearchOK(search[s])'
    BY <2>1, <2>2 DEF SearchOK, ScopeOK, MarksOK, PagesOK, Started, Rows, Number, CurrentPlacement
  <2> QED
    BY <1>2, <2>1, <2>3 DEF SearchesOK
<1>4. ASSUME search' = search PROVE SearchesOK'
  BY <1>1, <1>2, <1>4 DEF SearchesOK
<1>5. ASSUME NEW a \in Attempts, \/ Load(a) \/ ReadReceipt(a) \/ ResolveNamespace(a) \/ ReadCurrent(a)
                                 \/ Settle(a) \/ Replay(a) \/ Reject(a) \/ Fail(a)
      PROVE  search' = search
  BY <1>5 DEF Load, ReadReceipt, ResolveNamespace, ReadCurrent, Settle, Replay, Reject, Fail
<1>6. ASSUME NEW m \in Admins, ReadNamespace(m) \/ WriteNamespace(m) PROVE search' = search
  BY <1>6 DEF ReadNamespace, WriteNamespace
<1> QED
  BY <1>3, <1>4, <1>5, <1>6 DEF Next, vars

-------------------------------------------------------------------------------
\* The theorems

\* A change of a Namespace is prepared, and then written or refused.
LEMMA AdminsStep ==
  ASSUME AdminsOK, [Next]_vars
  PROVE  AdminsOK'
<1>1. ASSUME admin' = admin PROVE AdminsOK'
  BY <1>1 DEF AdminsOK
<1>2. ASSUME NEW m \in Admins, ReadNamespace(m) PROVE AdminsOK'
  <2>1. PICK r \in AdminPlan[m], pc \in {"write", "refused"} :
          admin' = [admin EXCEPT ![m] = [pc |-> pc, req |-> r, fence |-> fence]]
    BY <1>2 DEF ReadNamespace
  <2> QED
    BY <2>1 DEF AdminsOK
<1>3. ASSUME NEW m \in Admins, WriteNamespace(m) PROVE AdminsOK'
  <2>1. PICK pc \in {"settled", "refused"} : admin' = [admin EXCEPT ![m].pc = pc]
    BY <1>3 DEF WriteNamespace
  <2> QED
    BY <2>1 DEF AdminsOK
<1>4. ASSUME NEW a \in Attempts, \/ Load(a) \/ ReadReceipt(a) \/ ResolveNamespace(a) \/ ReadCurrent(a)
                                 \/ Settle(a) \/ Replay(a) \/ Reject(a) \/ Fail(a)
      PROVE  admin' = admin
  BY <1>4 DEF Load, ReadReceipt, ResolveNamespace, ReadCurrent, Settle, Replay, Reject, Fail
<1>5. ASSUME NEW s \in Searchers, \/ BeginPage(s) \/ ReadScope(s) \/ ReadRows(s)
                                  \/ CheckHandoff(s) \/ ReadDocument(s)
      PROVE  admin' = admin
  BY <1>5 DEF BeginPage, ReadScope, ReadRows, CheckHandoff, ReadDocument
<1> QED
  BY <1>1, <1>2, <1>3, <1>4, <1>5 DEF Next, vars

\* The owners that exist at the start have one revision each, placed and projected.
LEMMA StoreInit ==
  ASSUME Init
  PROVE  StoreOK /\ RowsOK /\ HistoryBuilds
<1> DEFINE Made(o) == o \in DOMAIN Initial
<1>1. \A o \in Owners : history[o] = IF Made(o) THEN <<FirstRevision(o)>> ELSE <<>>
  BY DEF Init
<1>2. ASSUME NEW o \in Owners
      PROVE  /\ Made(o) => Number(o) = 1 /\ history[o][1] = FirstRevision(o)
             /\ ~Made(o) => Number(o) = 0
             /\ history[o] = [n \in 1..Number(o) |-> history[o][n]]
  <2> DEFINE f == history[o]  first == FirstRevision(o)
  <2>1. f = IF Made(o) THEN <<first>> ELSE <<>>
    BY <1>1
  <2> HIDE DEF f, first
  <2>2. CASE Made(o)
    <3>1. f = <<first>>
      BY <2>1, <2>2
    <3>2. Len(f) = 1 /\ f[1] = first /\ f = [n \in 1..1 |-> f[n]]
      BY <3>1
    <3> QED
      BY <2>2, <3>2 DEF f, first, Number
  <2>3. CASE ~Made(o)
    <3>1. f = <<>>
      BY <2>1, <2>3
    <3>2. Len(f) = 0 /\ f = [n \in 1..0 |-> f[n]]
      BY <3>1
    <3> QED
      BY <2>3, <3>2 DEF f, Number
  <2> QED
    BY <2>2, <2>3
<1>3. ASSUME NEW o \in Owners, Made(o)
      PROVE  /\ FirstRevision(o).placement \in Placements /\ FirstRevision(o).placement.ns = Initial[o].ns
             /\ FirstRevision(o).placement.version = <<o, InitOp>> /\ FirstRevision(o).content = Initial[o].content
  <2> DEFINE token == <<o, InitOp>>  p == [ns |-> Initial[o].ns, family |-> token, version |-> token]
  <2>1. token \in Tokens /\ Initial[o].ns \in Namespaces
    BY <1>3, PlanAssumption DEF Tokens
  <2>2. FirstRevision(o).placement = p /\ FirstRevision(o).content = Initial[o].content
    BY DEF FirstRevision
  <2> HIDE DEF token
  <2>3. p \in Placements
    BY <2>1 DEF Placements
  <2> QED
    BY <2>2, <2>3 DEF token
<1>4. Cardinality(DOMAIN Initial) \in Nat /\ Cardinality(Open) \in Nat
  BY PlanAssumption, FS_CardinalityType
<1>5. StoreOK
  <2>1. DOMAIN history = Owners /\ DOMAIN query = Owners /\ DOMAIN receipts = Ops
    BY DEF Init
  <2>2. \A o \in Owners : Number(o) \in Nat /\ history[o] = [n \in 1..Number(o) |-> history[o][n]]
    BY <1>2
  <2>3. ASSUME NEW o \in Owners, NEW n \in 1..Number(o)
        PROVE  history[o][n].placement \in Placements /\ VersionOK(o, history[o][n].placement.version, receipts)
    <3>1. Made(o) /\ n = 1
      <4>1. CASE Made(o)
        <5>1. Number(o) = 1
          BY <1>2, <4>1
        <5> QED
          BY <2>3, <4>1, <5>1
      <4>2. CASE ~Made(o)
        <5>1. Number(o) = 0
          BY <1>2, <4>2
        <5> QED
          BY <2>3, <5>1
      <4> QED
        BY <4>1, <4>2
    <3>2. history[o][n] = FirstRevision(o) /\ InitOp \notin Ops
      BY <1>2, <3>1, PlanAssumption
    <3> QED
      BY <1>3, <3>1, <3>2 DEF VersionOK
  <2>4. \A op \in Ops : receipts[op].outcome = "none"
    BY DEF Init, NoReceipt
  <2>5. /\ namespaces \in [Namespaces -> [lifecycle : {"absent", "active", "retired"}, rev : Nat]]
        /\ \A n \in Namespaces : namespaces[n].lifecycle = "active" => namespaces[n].rev > 0
    BY DEF Init
  <2>6. fence \in Nat /\ generations \in Generations
    BY <1>4 DEF Init, Generations
  <2> QED
    BY <2>1, <2>2, <2>3, <2>4, <2>5, <2>6 DEF StoreOK
<1>6. RowsOK
  <2>1. ASSUME NEW o \in Owners
        PROVE  /\ Made(o) => query[o].number = 1 /\ query[o].material = Material(o, Initial[o].content)
               /\ ~Made(o) => query[o] = NoRow
    <3> DEFINE m == Material(o, Initial[o].content)  row == [number |-> 1, material |-> m]
    <3>1. query[o] = IF Made(o) THEN row ELSE NoRow
      BY DEF Init
    <3> HIDE DEF m
    <3>2. row.number = 1 /\ row.material = m
      OBVIOUS
    <3> HIDE DEF row
    <3> QED
      BY <3>1, <3>2 DEF m
  <2>2. claims = UNION {Claimed(o, 1, Initial[o].content, Initial[o].ns) : o \in DOMAIN Initial}
    BY DEF Init
  <2>3. \A o, number, content, ns : \A row \in Claimed(o, number, content, ns) : row.owner = o /\ row.ns = ns
    BY DEF Claimed
  <2>4. ASSUME NEW o \in Owners, Made(o)
        PROVE  {row \in claims : row.owner = o} = Claimed(o, 1, Initial[o].content, Initial[o].ns)
    BY <2>2, <2>3, <2>4
  <2>5. \A row \in claims : row.ns \in Namespaces /\ row.owner \in Owners
    BY <2>2, <2>3, PlanAssumption
  <2>6. ASSUME NEW o \in Owners
        PROVE  IF Number(o) = 0 THEN query[o] = NoRow ELSE query[o].number \in 1..Number(o)
    <3>1. CASE Made(o)
      <4>1. Number(o) = 1 /\ query[o].number = 1
        BY <1>2, <2>1, <3>1
      <4> QED
        BY <4>1
    <3>2. CASE ~Made(o)
      BY <1>2, <2>1, <3>2
    <3> QED
      BY <3>1, <3>2
  <2>7. ASSUME NEW o \in Owners, Number(o) > 0
        PROVE  LET content == history[o][Number(o)].content
               IN /\ query[o].material = Material(o, content)
                  /\ Material(o, history[o][query[o].number].content) = query[o].material
                  /\ {row \in claims : row.owner = o} = Claimed(o, Number(o), content, CurrentPlacement(o).ns)
    <3>1. Made(o)
      <4>1. ASSUME ~Made(o) PROVE Number(o) = 0
        BY <1>2, <4>1
      <4> HIDE DEF Made
      <4> QED
        BY <2>7, <4>1
    <3>2. Number(o) = 1 /\ history[o][1] = FirstRevision(o)
      BY <1>2, <3>1
    <3>3. query[o].number = 1 /\ query[o].material = Material(o, Initial[o].content)
      BY <2>1, <3>1
    <3> QED
      BY <1>3, <2>4, <3>1, <3>2, <3>3 DEF CurrentPlacement
  <2> QED
    BY <2>5, <2>6, <2>7 DEF RowsOK, MaterialFollowsPlacement
<1>7. HistoryBuilds
  <2>1. ASSUME NEW o \in Owners PROVE ~ \E n \in 2..Number(o) : TRUE
    <3>1. Number(o) \in {0, 1}
      BY <1>2
    <3> QED
      BY <3>1
  <2> QED
    BY <2>1 DEF HistoryBuilds
<1> QED
  BY <1>5, <1>6, <1>7

\* Nobody has called, asked for a change or searched at the start.
LEMMA InvInit ==
  ASSUME Init
  PROVE  Inv
<1>1. CallsOK
  BY DEF Init, Idle, CallsOK, CallOK, Accepted, Fields, Labels, Working
<1>2. \A op \in Ops : receipts[op].outcome = "none"
  BY DEF Init, NoReceipt
<1>3. ReceiptsOK
  BY <1>2 DEF ReceiptsOK
<1>4. \A a \in Attempts : call[a].pc = "load"
  BY DEF Init, Idle
<1>5. AnswersOK
  BY <1>4 DEF AnswersOK, AnswersFollowReceipts
<1>6. AdminsOK
  BY DEF Init, AdminsOK
<1>7. SearchesOK
  <2>1. DOMAIN search = Searchers /\ \A s \in Searchers : search[s] = NewSearch
    BY DEF Init
  <2>2. /\ DOMAIN NewSearch = SearchFields /\ NewSearch.pc = "begin" /\ NewSearch.cursor = None
        /\ NewSearch.handoff = None /\ NewSearch.pages = <<>>
    BY DEF NewSearch, SearchFields
  <2>3. Len(NewSearch.pages) = 0 /\ NewSearch.pages = [i \in 1..0 |-> NewSearch.pages[i]]
    BY <2>2
  <2>4. SearchOK(NewSearch)
    BY <2>2, <2>3 DEF SearchOK, Stages, ScopeOK, Started, MarksOK, PagesOK
  <2> QED
    BY <2>1, <2>4 DEF SearchesOK
<1> QED
  BY <1>1, <1>3, <1>5, <1>6, <1>7, StoreInit DEF Inv, OwnersInv

\* The invariant of every behaviour.
LEMMA Invariant == Spec => []Inv
<1>1. Inv /\ [Next]_vars => Inv'
  <2> SUFFICES ASSUME Inv, [Next]_vars PROVE Inv'
    OBVIOUS
  <2> QED
    BY StoreStep, RowsStep, HistoryStep, CallsStep, ReceiptsStep, AnswersStep, AdminsStep, SearchesStep
       DEF Inv, OwnersInv
<1> QED
  BY <1>1, InvInit, PTL DEF Spec

\* Owners, Namespaces, receipts, calls and searches keep their form.
THEOREM TypeCorrect == Spec => []TypeOK
<1>1. Inv => TypeOK
  <2> SUFFICES ASSUME Inv PROVE TypeOK
    OBVIOUS
  <2>1. StoreOK /\ RowsOK /\ CallsOK /\ AdminsOK /\ SearchesOK
    BY DEF Inv, OwnersInv
  <2>2. \A o \in Owners : \A n \in 1..Number(o) : history[o][n].placement.ns \in Namespaces
    BY <2>1 DEF StoreOK, Placements
  <2>3. \A n \in Namespaces : namespaces[n].lifecycle \in {"absent", "active", "retired"}
    BY <2>1 DEF StoreOK
  <2>4. fence \in Nat /\ \A g \in DOMAIN generations : generations[g] \in Nat
    BY <2>1 DEF StoreOK, Generations
  <2>5. \A o \in Owners : (query[o] = NoRow) = (Number(o) = 0)
    <3>1. ASSUME NEW o \in Owners, Number(o) # 0 PROVE query[o] # NoRow
      <4>1. query[o].number \in 1..Number(o)
        BY <2>1, <3>1 DEF RowsOK
      <4> QED
        BY <4>1 DEF NoRow
    <3> QED
      BY <2>1, <3>1 DEF RowsOK
  <2>6. \A row \in claims : row.ns \in Namespaces /\ row.owner \in Owners
    BY <2>1 DEF RowsOK
  <2>7. \A op \in Ops : receipts[op].outcome \in {"none", "committed", "rejected"}
    BY <2>1 DEF StoreOK
  <2>8. \A a \in Attempts : call[a].pc \in {"load", "receipt", "namespace", "current", "commit", "done"}
    BY <2>1 DEF CallsOK, CallOK, Labels, Working
  <2>9. \A m \in Admins : admin[m].pc \in {"read", "write", "settled", "refused"}
    BY <2>1 DEF AdminsOK
  <2>10. \A s \in Searchers :
          search[s].pc \in {"begin", "scope", "rows", "complete", "hydrate", "hydrated", "stale"}
    BY <2>1 DEF SearchesOK, SearchOK, Stages
  <2> QED
    BY <2>2, <2>3, <2>4, <2>5, <2>6, <2>7, <2>8, <2>9, <2>10 DEF TypeOK
<1> QED
  BY <1>1, Invariant, PTL

\* What search and the exact claims hold of an owner is of its current revision and in its
\* current Namespace, however its moves and its edits are interleaved.
THEOREM MaterialCorrect == Spec => []MaterialFollowsPlacement
<1>1. Inv => MaterialFollowsPlacement
  BY DEF Inv, OwnersInv, RowsOK
<1> QED
  BY <1>1, Invariant, PTL

\* Every modular revision is the edit of exactly the one before it, whose placement family
\* it keeps and whose version it leaves only with the Namespace.
THEOREM HistoryCorrect == Spec => []HistoryBuilds
<1>1. Inv => HistoryBuilds
  BY DEF Inv, OwnersInv
<1> QED
  BY <1>1, Invariant, PTL

\* What a call is told of its operation is what the receipt says.
THEOREM AnswersCorrect == Spec => []AnswersFollowReceipts
<1>1. Inv => AnswersFollowReceipts
  BY DEF Inv, OwnersInv, AnswersOK
<1> QED
  BY <1>1, Invariant, PTL

\* The pages of a search that was continued, or of which a row was hydrated, agree.
THEOREM PagesCorrect == Spec => []PagesAgree
<1>1. Inv => PagesAgree
  <2> SUFFICES ASSUME Inv, NEW s \in Searchers, NEW i \in DOMAIN search[s].pages,
                      i < Len(search[s].pages) \/ search[s].pc \in {"hydrate", "hydrated"}
               PROVE  search[s].pages[i] = search[s].listed
    BY DEF PagesAgree
  <2> DEFINE c == search[s]  k == Len(c.pages)
  <2>1. PagesOK(c)
    BY DEF Inv, SearchesOK, SearchOK
  <2>2. k \in Nat /\ i \in 1..k
    BY <2>1 DEF PagesOK
  <2>3. CASE i < k
    <3>1. i \in 1..(k - 1)
      BY <2>2, <2>3
    <3> QED
      BY <2>1, <3>1 DEF PagesOK
  <2>4. CASE i = k
    <3>1. k > 0 /\ c.pc \in {"hydrate", "hydrated"}
      BY <2>2, <2>4
    <3> QED
      BY <2>1, <2>4, <3>1 DEF PagesOK
  <2> QED
    BY <2>2, <2>3, <2>4
<1> QED
  BY <1>1, Invariant, PTL
===============================================================================
