-------------------------- MODULE MCPredecessorStore --------------------------
\* The instance of PredecessorStore that TLC checks: two Cases that want one alias, the
\* burial and the purge of the first, a rebuild, and the next revision of the view policy; two
\* Cases that are listed while one of them is purged; or the revisions of the view policy
\* beside a commit and a rebuild.  Apart from those, four attempts at three operations on a
\* Frame (PredecessorFrames), or the projection of two owners (ProjectionEntries), or a
\* discovery among two Cases and a Frame (IdentityDiscovery): one of the four parts is chosen
\* at the start.
EXTENDS PredecessorParts, TLC

CONSTANTS p1, p2, a, b, x, a1, a2, a3, a4, frame, other, i, j, home, d, k1, k2, resource, elsewhere

VARIABLES part, history, gone, viewActive, discoveryFence, client

entries == <<corpus, generation, status, source, purged>>

discovery == <<history, gone, viewActive, discoveryFence, client>>

frames == <<versions, revisions, frameReceipts, caseRevisions, caseReceipts, call>>

Commit(id, on, expected, state, alias) ==
  [id |-> id, kind |-> "commit", on |-> on, context |-> 1, expected |-> expected,
   state |-> state, alias |-> alias]

Operation(id, kind, on, context) == [id |-> id, kind |-> kind, on |-> on, context |-> context]

CreateA == Commit("create_a", a, 0, "active", x)
BuryA   == Commit("bury_a", a, 1, "tombstoned", x)
PurgeA  == Operation("purge_a", "purge", a, 1)
Rebuild == Operation("rebuild", "rebuild", None, 1)

MCOffers ==
  {{CreateA, BuryA, PurgeA, Rebuild, Commit("create_b", b, 0, "active", x),
    Operation("activate_2", "activate", 2, 1)},
   {CreateA, BuryA, PurgeA, Commit("create_b_apart", b, 0, "active", None)},
   {CreateA, Rebuild, Operation("revise_2", "revise", 2, 1), Operation("activate_2", "activate", 2, 1),
    Operation("activate_3", "activate", 3, 1), Operation("retire_1", "retire", 1, 1)}}

MCRequests == UNION MCOffers

MCPolicies == <<"active", "created">>

Item(text)  == [lifecycle |-> "active", text |-> text, resolution |-> None, reopened |-> None]
Done        == [Item("t") EXCEPT !.lifecycle = "settled", !.resolution = "done"]
From(v)     == [Item("t") EXCEPT !.reopened = v]
Disposition == [state |-> "awaiting", boundary |-> home, case |-> a, op |-> k1, revs |-> {}]

OneFrame ==
  ("profile" :> [status |-> "active", text |-> "t"]) @@ (i :> Item("t"))
    @@ (home :> [closure |-> "open", members |-> {d}]) @@ (d :> Disposition)

R(op, f, base, edit) == [op |-> op, frame |-> f, base |-> base, edit |-> edit]
Whole(c)   == [action |-> "complete", content |-> c]
With(item) == Whole([OneFrame EXCEPT ![i] = item])

SettleItem == R("one", frame, 1, [action |-> "discovery.settle", id |-> i, resolution |-> "done"])
SettleCase(op, base, revs) == R(op, frame, base, [action |-> "disposition.settle", id |-> d, revs |-> revs])
Update == R("two", frame, 1, [action |-> "update", text |-> "u", status |-> "active"])
Reopen == R("two", frame, 2, With(From(<<"one", i>>)))

MCFramePlan ==
  [q \in {a1, a2, a3, a4} |->
    CASE q = a1 -> {SettleItem, SettleCase("one", 1, {1}), R("one", other, 0, Whole(OneFrame)),
                    R("one", frame, 1, [action |-> "create", id |-> j, text |-> "t"])}
      [] q = a2 -> {Reopen, Update, R("two", frame, 2, With(From(<<"init", i>>))),
                    R("two", frame, 2, [action |-> "discovery.tombstone", id |-> i]),
                    R("two", frame, 2, [action |-> "discovery.reopen", id |-> i, from |-> <<"one", i>>]),
                    R("two", frame, 2, [action |-> "boundary.close", id |-> home])}
      [] q = a3 -> {SettleItem, Reopen}
      [] q = a4 -> {SettleCase("three", 2, {1, 2}), R("three", frame, 3, With(Done)),
                    R("three", frame, 3, With([From(<<"two", i>>) EXCEPT !.text = "u"])),
                    R("three", frame, 3, With([Done EXCEPT !.lifecycle = "tombstoned"]))}]

MCAttempts     == {a1, a2, a3, a4}
MCOps          == {"one", "two", "three"}
MCFrames       == {frame, other}
MCInitial      == frame :> OneFrame
MCInitOp       == "init"
MCProfile      == "profile"
MCItems        == {i, j}
MCBoundaries   == {home}
MCDispositions == {d}
MCCaseOps      == {k1, k2}
MCElsewhere    == <<elsewhere, "profile">>
MCOneCase      == {a}

Link(from, to, predicate) == [from |-> from, to |-> to, predicate |-> predicate]

Holds(words, links) ==
  [active |-> TRUE, words |-> words, aliases |-> {[type |-> None, value |-> x]}, links |-> links]

\* A chain whose last link leads back to its middle; and three owners linked from the first,
\* one of which is no longer active
Chain ==
  (a :> Holds({"t"}, {Link(a, b, "about")})) @@ (b :> Holds({"t"}, {Link(b, frame, "about")}))
    @@ (frame :> Holds({"t"}, {Link(frame, b, "of"), Link(i, a, "of")}))

Star ==
  (a :> Holds({"t"}, {Link(a, b, "about"), Link(a, frame, "of")})) @@ (b :> [Holds({}, {}) EXCEPT !.active = FALSE])
    @@ (frame :> Holds({}, {Link(frame, frame, "of")}))

MCEdits ==
  (a :> {[Chain[a] EXCEPT !.active = FALSE], [Chain[a] EXCEPT !.links = {Link(a, frame, "of")}]})
    @@ (b :> {[Chain[b] EXCEPT !.active = FALSE, !.words = {"u"}]}) @@ (frame :> {Star[frame]})

WalkFrom(start, predicates, direction, depth, limit) ==
  [by |-> "relationship", start |-> start, predicates |-> predicates, direction |-> direction,
   depth |-> depth, limit |-> limit]

MCQueries ==
  {WalkFrom({a}, {}, "outgoing", 2, 1), WalkFrom({frame}, {}, "incoming", 1, 2),
   WalkFrom({b, frame}, {"about"}, "both", 1, 2), WalkFrom({a}, {}, "both", 0, 2),
   WalkFrom({a}, {}, "both", 3, 2),
   [by |-> "text", words |-> {"t"}, depth |-> 0, limit |-> 2],
   [by |-> "identity", id |-> frame, depth |-> 0, limit |-> 1],
   [by |-> "alias", type |-> "alias", value |-> x, depth |-> 0, limit |-> 1]}

D == INSTANCE IdentityDiscovery WITH
  Order <- <<a, b, frame>>, Cases <- {a, b}, Corpora <- {Chain, Star}, Edits <- MCEdits,
  Queries <- MCQueries, MaxResults <- 2, MaxDepth <- 2, MaxChanges <- 2,
  purged <- gone, fence <- discoveryFence

allVars == <<part, vars, frames, entries, discovery>>

PartsInit ==
  /\ part \in {"store", "frames", "entries", "discovery"}
  /\ Init /\ F!Init /\ E!Init /\ D!Init
  /\ part = "store" \/ offered = CHOOSE o \in MCOffers : TRUE
  /\ part = "discovery" \/ history = [o \in {a, b, frame} |-> <<Chain[o]>>]

PartsNext ==
  \/ part = "store" /\ Next /\ UNCHANGED <<part, frames, entries, discovery>>
  \/ part = "frames" /\ F!Next /\ UNCHANGED <<part, vars, entries, discovery>>
  \/ part = "entries" /\ E!Next /\ UNCHANGED <<part, vars, frames, discovery>>
  \/ part = "discovery" /\ D!Next /\ UNCHANGED <<part, vars, frames, entries>>

PartsSpec == PartsInit /\ [][PartsNext]_allVars

\* What is discovered is of one state, and what is hydrated is what was discovered
\* (mechanical.mjs:1301-1374, frame/index.mjs:2299-2311)
DiscoveryIsTrue == D!PagesAreOneState /\ D!HydratedAsDiscovered

DiscoveryTypeOK == D!TypeOK

\* What the code does not do: an answer without candidates may be called complete although
\* owners match, if the view is retired between the two queries (mechanical.mjs:1270-1275).
CompleteAsShown == D!CompleteAsShown

MCSymmetry == Permutations({p1, p2})
===============================================================================
