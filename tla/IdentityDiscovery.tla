--------------------------- MODULE IdentityDiscovery ---------------------------
(***************************************************************************)
(* identity.discover and the hydration of what it finds, on the            *)
(* predecessor store.  A query selects active owners by text, identity or  *)
(* alias, or walks the links between them; its pages carry a cursor, each  *)
(* bound to the fence, and a handoff that names the revisions found.  For  *)
(* each page one query checks the view, and another reads the owners.  The *)
(* candidates of a handoff are hydrated one at a time, each from the       *)
(* revision that the handoff names, while commits and purges go on.        *)
(***************************************************************************)
EXTENDS Naturals, Sequences, FiniteSets, SequencesExt, TLC

CONSTANTS
  Order,       \* the owners, by kind and identity
  Cases,       \* which of them are Cases; the others are Frames
  Corpora,     \* what the owners may hold at the start
  Edits,       \* the contents that a commit may give to each owner
  Queries, MaxResults, MaxDepth,  \* the limits of the view policy
  None,
  MaxChanges   \* bound: commits, purges and retirements

VARIABLES
  history,     \* owner_revisions of each owner, with their content
  purged,      \* owners whose content was purged
  viewActive,
  fence,
  client       \* a caller: what it asked, the pages it got and what it hydrated

vars == <<history, purged, viewActive, fence, client>>

Everyone == Range(Order)

\* of: the owners to be found at the first page, and shown: whether the view was still active
\* then; no code reads either
Idle == [at |-> "idle", query |-> None, fence |-> 0, of |-> <<>>, shown |-> FALSE, pages |-> <<>>,
         links |-> {}, asked |-> <<>>, items |-> <<>>]

Init ==
  /\ history \in {[o \in Everyone |-> <<c[o]>>] : c \in Corpora}
  /\ purged = {} /\ viewActive = TRUE /\ fence = 1 /\ client = Idle

-------------------------------------------------------------------------------
(* discoverIdentities *)

Current(o) == [number |-> Len(history[o]), content |-> Last(history[o])]

\* The owners to be found: those with a current revision that is active
Findable ==
  LET found == {o \in Everyone \ purged : Current(o).content.active}
  IN [o \in found |-> Current(o)]

\* ... and those that the query reads, which joins the view: none once it is retired
Corpus == IF viewActive THEN Findable ELSE <<>>

\* normalizedIdentityQuery and the limits of the policy: one selector, bounded
Admissible(q) ==
  /\ q.by \in {"text", "identity", "alias", "relationship"}
  /\ q.limit \in 1 .. MaxResults /\ q.depth \in 0 .. MaxDepth
  /\ q.by = "relationship" => q.start # {} /\ q.direction \in {"outgoing", "incoming", "both"}

\* A link counts if both of its ends are found; those from an item of a Frame never are.
Links(c) ==
  {l \in UNION {c[o].content.links : o \in DOMAIN c} : {l.from, l.to} \subseteq DOMAIN c}

\* An alias is matched by its type too, which no commit of a Case writes.
Matches(c, q, o) ==
  CASE q.by = "text"     -> q.words \subseteq c[o].content.words
    [] q.by = "identity" -> o = q.id
    [] q.by = "alias"    -> \E a \in c[o].content.aliases : a = [type |-> q.type, value |-> q.value]

Crossed(c, q, o) ==
  {l \in Links(c) :
     /\ q.predicates = {} \/ l.predicate \in q.predicates
     /\ \/ l.from = o /\ q.direction # "incoming"
        \/ l.to = o /\ q.direction # "outgoing"}

\* The other end, as seen from o
OtherEnd(q, l, o) == IF l.from = o /\ q.direction # "incoming" THEN l.to ELSE l.from

TooFar(q, depth) == depth >= q.depth

\* The walk: depth is of the owners selected so far, queue of those to go on from.
RECURSIVE Walk(_, _, _, _)
Walk(c, q, depth, queue) ==
  IF queue = <<>> THEN depth
  ELSE LET o     == Head(queue)
           ends  == IF TooFar(q, depth[o]) THEN {} ELSE {OtherEnd(q, l, o) : l \in Crossed(c, q, o)}
           found == ends \ DOMAIN depth
       IN Walk(c, q, depth @@ [e \in found |-> depth[o] + 1], Tail(queue) \o SetToSeq(found))

Selected(c, q) ==
  IF q.by # "relationship" THEN [o \in {p \in DOMAIN c : Matches(c, q, p)} |-> 0]
  ELSE LET start == q.start \cap DOMAIN c
       IN Walk(c, q, [o \in start |-> 0], SetToSeq(start))

Retained(c, q, depth) ==
  IF q.by # "relationship" THEN {}
  ELSE UNION {Crossed(c, q, o) : o \in {p \in DOMAIN depth : ~TooFar(q, depth[p])}}

Position(o) == CHOOSE n \in DOMAIN Order : Order[n] = o

Ordered(depth) ==
  SetToSortSeq(DOMAIN depth,
               LAMBDA o, p : depth[o] < depth[p] \/ (depth[o] = depth[p] /\ Position(o) < Position(p)))

\* One page, from an offset; the links among its candidates; and the handoff, which is the page.
Page(c, q, offset) ==
  LET depth == Selected(c, q)
      all   == Ordered(depth)
      upTo  == IF offset + q.limit < Len(all) THEN offset + q.limit ELSE Len(all)
      page  == SubSeq(all, offset + 1, upTo)
  IN [candidates |-> [n \in DOMAIN page |-> [owner |-> page[n], number |-> c[page[n]].number]],
      links      |-> {l \in Retained(c, q, depth) : {l.from, l.to} \subseteq Range(page)},
      more       |-> upTo < Len(all)]

Taken(l, page) ==
  [l EXCEPT !.at = IF page.more THEN "paging" ELSE "complete",
            !.pages = Append(@, page.candidates), !.links = @ \cup page.links]

Refused == [client EXCEPT !.at = "refused", !.items = <<>>]

Discover(q) ==
  /\ client.at = "idle"
  /\ client' = IF viewActive /\ Admissible(q) THEN [Idle EXCEPT !.at = "asking", !.query = q] ELSE Refused
  /\ UNCHANGED <<history, purged, viewActive, fence>>

NextPage ==
  /\ client.at = "paging"
  /\ client' = IF viewActive THEN [client EXCEPT !.at = "asking"] ELSE Refused
  /\ UNCHANGED <<history, purged, viewActive, fence>>

FirstPage == client.pages = <<>>

Paged ==
  LET asking == IF FirstPage THEN [client EXCEPT !.fence = fence, !.of = Findable, !.shown = viewActive]
                ELSE client
  IN Taken(asking, Page(Corpus, client.query, Len(FlattenSeq(client.pages))))

\* Mutant: a cursor is taken at any fence.
ReadsAnyFence ==
  /\ client.at = "asking" /\ client' = Paged
  /\ UNCHANGED <<history, purged, viewActive, fence>>

ReadPage ==
  /\ client.at = "asking"
  /\ client' = IF FirstPage \/ client.fence = fence THEN Paged ELSE Refused
  /\ UNCHANGED <<history, purged, viewActive, fence>>

-------------------------------------------------------------------------------
(* case.discovery.hydrate, frame.discovery.hydrate *)

\* validateIdentityHandoff: candidates of one kind, among those of a page, at any later fence
Hydrate(kind) ==
  /\ client.at \in {"paging", "complete"}
  /\ LET asked == SelectSeq(Last(client.pages), LAMBDA i : i.owner \in kind)
     IN /\ asked # <<>>
        /\ client' = IF viewActive THEN [client EXCEPT !.at = "hydrating", !.asked = asked] ELSE Refused
  /\ UNCHANGED <<history, purged, viewActive, fence>>

\* read_owner_revision of a revision that the handoff names
Reads(o, number) == [number |-> number, content |-> history[o][number]]

\* One candidate after the other; one that is gone refuses them all.
HydrateNext ==
  /\ client.at = "hydrating"
  /\ LET next == client.asked[Len(client.items) + 1]
         read == Reads(next.owner, next.number)
     IN client' =
          IF ~viewActive \/ next.owner \in purged \/ ~read.content.active THEN Refused
          ELSE [client EXCEPT !.items = Append(@, [owner |-> next.owner] @@ read),
                              !.at = IF Len(client.items) + 1 = Len(client.asked) THEN "hydrated" ELSE @]
  /\ UNCHANGED <<history, purged, viewActive, fence>>

-------------------------------------------------------------------------------
(* What others do meanwhile *)

Commit(o) ==
  /\ o \notin purged /\ fence < 1 + MaxChanges
  /\ \E content \in Edits[o] : history' = [history EXCEPT ![o] = Append(@, content)]
  /\ fence' = fence + 1 /\ UNCHANGED <<purged, viewActive, client>>

\* A purge, of a Case that is no longer active: its revisions select nothing any more.
Purge(o) ==
  /\ o \in Cases \ purged /\ ~Current(o).content.active /\ fence < 1 + MaxChanges
  /\ purged' = purged \cup {o}
  /\ fence' = fence + 1 /\ UNCHANGED <<history, viewActive, client>>

Retire ==
  /\ viewActive /\ viewActive' = FALSE /\ fence < 1 + MaxChanges
  /\ fence' = fence + 1 /\ UNCHANGED <<history, purged, client>>

Next ==
  \/ \E q \in Queries : Discover(q)
  \/ NextPage \/ ReadPage \/ Hydrate(Cases) \/ Hydrate(Everyone \ Cases) \/ HydrateNext
  \/ Retire \/ \E o \in Everyone : Commit(o) \/ Purge(o)

-------------------------------------------------------------------------------
TypeOK ==
  /\ purged \subseteq Cases /\ fence \in 1 .. 1 + MaxChanges
  /\ client.at \in {"idle", "asking", "paging", "complete", "hydrating", "hydrated", "refused"}

\* What a walk should reach: the owners at no more than n links from the start
Within(c, q, n) ==
  LET ball[k \in Nat] ==
        IF k = 0 THEN q.start \cap DOMAIN c
        ELSE ball[k - 1] \cup {OtherEnd(q, l, o) : <<l, o>> \in
                                 {<<l, o>> \in Links(c) \X ball[k - 1] : l \in Crossed(c, q, o)}}
  IN ball[n]

\* The pages of a discovery that came to its end are those of one state of the store: each
\* owner that the query is about once, nearest first, with the revision that was current; for
\* a walk, those within its depth.  A link is reported exactly if a page holds both ends and
\* the walk crossed it.  If the view is retired before the owners are read for the first page,
\* nothing is found (mechanical.mjs:1270-1346).
PagesAreOneState ==
  client.at = "complete" =>
    LET all   == FlattenSeq(client.pages)
        c     == IF client.shown THEN client.of ELSE <<>>
        q     == client.query
        ofAll == {i.owner : i \in Range(all)}
    IN /\ Len(all) = Cardinality(ofAll)
       /\ \A i \in Range(all) : i.owner \in DOMAIN c /\ i.number = c[i.owner].number
       /\ ofAll = IF q.by = "relationship" THEN Within(c, q, q.depth)
                  ELSE {o \in DOMAIN c : Matches(c, q, o)}
       /\ q.by = "relationship" =>
            /\ \A m, n \in DOMAIN all : \A k \in 0 .. q.depth :
                 m < n /\ all[n].owner \in Within(c, q, k) => all[m].owner \in Within(c, q, k)
            /\ client.links = {l \in Links(c) :
                 /\ \E p \in Range(client.pages) : {l.from, l.to} \subseteq {i.owner : i \in Range(p)}
                 /\ q.depth > 0
                 /\ \E o \in Within(c, q, q.depth - 1) : l \in Crossed(c, q, o)}

\* What is hydrated is what was discovered: all the candidates, each with the content that it
\* had at the fence of the discovery, however the owners went on since
\* (frame/index.mjs:2299-2311, mechanical.mjs:1354-1374).
HydratedAsDiscovered ==
  client.at = "hydrated" =>
    client.items = [n \in DOMAIN client.asked |->
                      [owner |-> client.asked[n].owner] @@ client.of[client.asked[n].owner]]

-------------------------------------------------------------------------------
\* What the code does not do: an empty answer may be called complete although there are
\* owners that match.
CompleteAsShown == client.at = "complete" => client.shown
===============================================================================
