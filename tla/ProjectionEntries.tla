--------------------------- MODULE ProjectionEntries ---------------------------
(***************************************************************************)
(* What the disposable projection of the predecessor store says of its     *)
(* owners: for every owner the words of its selected versions, for every   *)
(* reference in them an entry under what it refers to and an entry of how  *)
(* it compares with the revision that is current there, and for an owner   *)
(* with references that do not compare an entry that asks for attention.   *)
(* A purge takes the entries of one owner out again.                       *)
(*                                                                         *)
(* When a rebuild is selected, and what it does to receipts and fences, is *)
(* in module PredecessorStore; here a rebuild, a commit and a purge are    *)
(* one action each.                                                        *)
(***************************************************************************)
EXTENDS Naturals, FiniteSets

CONSTANTS
  Owners, None,
  Resource,       \* the second family that an owner may select, beside its profile
  Elsewhere,      \* a family that no owner of the corpus selects
  MaxOwners, MaxEntries,  \* MAX_OWNERS, MAX_ENTRIES
  MaxNumber,      \* bound: revisions of one owner
  Writers         \* bound: the owners whose versions refer to families

\* None is no revision.
EntriesConstants ==
  MaxNumber \in Nat /\ \A o \in Owners, n \in 1 .. MaxNumber : None # <<o, n>>

VARIABLES
  corpus,         \* the current revision of each owner, with the content it selects
  generation,     \* the entries of the selected generation, or None; older ones are treated alike
  status,         \* disposable_projection_selection.selection_status
  source,         \* the corpus that generation was built from; the code keeps its fence
  purged          \* owners that were purged

vars == <<corpus, generation, status, source, purged>>

-------------------------------------------------------------------------------
\* A family is named by its owner and its part: the profile family has the owner's own name.

Families(o) == {<<o, "profile">>, <<o, Resource>>}

Revision(o, c) == <<o, c[o].number>>

Absent == [number |-> 0, lifecycle |-> "none", selected |-> <<>>]

Present(c) == {o \in Owners : c[o].number # 0}

\* A reference, or the object of a relationship, which names no revision
Reference(family, observed, pinned) ==
  [target |-> family, observed |-> observed, pinned |-> pinned]

\* referencesIn, over all selected versions of an owner: the families and what they refer to
ReferencesOf(c, o) ==
  UNION {{[source |-> o, family |-> f, reference |-> r] : r \in c[o].selected[f]} :
         f \in DOMAIN c[o].selected}

\* targetByFamily: the current revision of the owner that selects a family
RevisionOf(c, family) ==
  IF \E o \in Present(c) : family \in DOMAIN c[o].selected
  THEN Revision(CHOOSE o \in Present(c) : family \in DOMAIN c[o].selected, c)
  ELSE None

-------------------------------------------------------------------------------
\* buildReplacement

\* Mutant: a pin that holds answers for the observation too.
ConditionOfPin(c, r) ==
  LET now == RevisionOf(c, r.target)
  IN CASE now = None -> "unknown"
       [] now # None /\ r.pinned # None -> IF r.pinned = now THEN "current" ELSE "pinned_drift"
       [] OTHER -> IF r.observed \in {None, now} THEN "current" ELSE "stale"

Condition(c, r) ==
  LET now == RevisionOf(c, r.target)
  IN CASE now = None                                           -> "unknown"
       [] now # None /\ r.pinned \notin {None, now}            -> "pinned_drift"
       [] now # None /\ r.pinned \in {None, now} /\ r.observed \notin {None, now} -> "stale"
       [] OTHER                                                -> "current"

\* An entry: its kind, the owner it is of, and its payload
Entry(kind, o, payload) == [kind |-> kind, of |-> o, payload |-> payload]

Lexical(c) ==
  {Entry("lexical", o, <<Revision(o, c), DOMAIN c[o].selected>>) : o \in Present(c)}

Referring(c) == UNION {ReferencesOf(c, o) : o \in Present(c)}

Reverse(c) ==
  {Entry("reverse_reference", i.source, <<Revision(i.source, c), i>>) : i \in Referring(c)}

Staleness(c) ==
  {Entry("staleness", i.source, <<i, RevisionOf(c, i.reference.target), Condition(c, i.reference)>>) :
   i \in Referring(c)}

Pending(c, o) == {i \in ReferencesOf(c, o) : Condition(c, i.reference) # "current"}

Attention(c) ==
  {Entry("attention", o, {<<i.reference, Condition(c, i.reference)>> : i \in Pending(c, o)}) :
   o \in {p \in Present(c) : Pending(c, p) # {}}}

Built(c) == Lexical(c) \cup Reverse(c) \cup Staleness(c) \cup Attention(c)

Fits(c) == Cardinality(Present(c)) <= MaxOwners /\ Cardinality(Built(c)) <= MaxEntries

-------------------------------------------------------------------------------
Init ==
  /\ corpus = [o \in Owners |-> Absent]
  /\ generation = None /\ status = "unavailable" /\ source = None
  /\ purged = {}

\* What a version may say: nothing; of a family, the revision that its writer finds there, as
\* observed, as pinned or not at all; or what the owner said before, as it was, with a new pin,
\* or both.
Sayings(o) ==
  LET now(f)   == RevisionOf(corpus, f)
      said     == {i.reference : i \in ReferencesOf(corpus, o)}
      again(r) == [r EXCEPT !.pinned = now(r.target)]
      fresh    == UNION {{Reference(f, None, None), Reference(f, now(f), None), Reference(f, None, now(f))} :
                         f \in UNION {Families(p) : p \in Owners} \cup {Elsewhere}}
  IN {{}} \cup (IF o \notin Writers THEN {}
                ELSE {{r} : r \in fresh \cup said}
                     \cup {{again(r)} : r \in said} \cup {{r, again(r)} : r \in said})

\* A commit of a revision; the projection is as it was, of an earlier fence.
Commit(o) ==
  /\ o \notin purged /\ corpus[o].number < MaxNumber /\ corpus[o].lifecycle # "tombstoned"
  /\ \E refs \in Sayings(o), part \in {"profile", Resource}, lifecycle \in {"active", "tombstoned"} :
       corpus' = [corpus EXCEPT ![o] =
         [number |-> @.number + 1, lifecycle |-> lifecycle,
          selected |-> [f \in {<<o, "profile">>, <<o, part>>} |-> IF f = <<o, part>> THEN refs ELSE {}]]]
  /\ UNCHANGED <<generation, status, source, purged>>

\* A rebuild replaces the generation, or leaves the one there is, no longer as current.
Rebuild ==
  /\ IF Fits(corpus)
     THEN generation' = Built(corpus) /\ source' = corpus /\ status' = "current"
     ELSE /\ status' = IF generation = None THEN "unavailable" ELSE "stale"
          /\ UNCHANGED <<generation, source>>
  /\ UNCHANGED <<corpus, purged>>

\* purgeProjectionTargets: the owner, or the owner of the reference; what others say of the
\* purged owner stays.
PurgeTargets(e, o) == e.of = o

Purge(o) ==
  /\ corpus[o].lifecycle = "tombstoned"
  /\ corpus' = [corpus EXCEPT ![o] = Absent]
  /\ purged' = purged \cup {o}
  /\ IF generation # None /\ \E e \in generation : PurgeTargets(e, o)
     THEN generation' = {e \in generation : ~PurgeTargets(e, o)} /\ status' = "stale"
     ELSE UNCHANGED <<generation, status>>
  /\ UNCHANGED source

Next == Rebuild \/ \E o \in Owners : Commit(o) \/ Purge(o)

Spec == Init /\ [][Next]_vars

-------------------------------------------------------------------------------
TypeOK ==
  /\ \A o \in Owners : corpus[o].number \in 0 .. MaxNumber
  /\ status \in {"unavailable", "current", "stale"} /\ purged \subseteq Owners

Exact == status = "current" /\ source = corpus

\* An exact projection asks for attention to an owner exactly if one of its references is to a
\* family that nobody selects, or was observed or pinned at a revision after which the owner
\* of the family went on; and every reference of a current owner is found from its target
\* (projection.mjs:336-409).
DriftIsTold ==
  Exact =>
    LET moved(r, rev) == rev # None /\ corpus[r.target[1]].number # rev[2]
        due(r) == \/ \A o \in Present(corpus) : r.target \notin DOMAIN corpus[o].selected
                  \/ moved(r, r.observed) \/ moved(r, r.pinned)
    IN \A o \in Present(corpus) :
         /\ (\E e \in generation : e.kind = "attention" /\ e.of = o)
              <=> \E i \in ReferencesOf(corpus, o) : due(i.reference)
         /\ \A i \in ReferencesOf(corpus, o) :
              \E e \in generation : e.kind = "reverse_reference" /\ e.payload[2] = i

\* A projection is never selected as current while its entries are not those of the corpus it
\* names; and after purges it holds what was built, less every entry of a purged owner
\* (mechanical.mjs:1406-1435).
PurgeTakesItsOwn ==
  generation # None =>
    /\ status = "current" => generation = Built(source)
    /\ LET gone == {o \in purged : source[o].number # 0}
       IN generation = {e \in Built(source) : e.of \notin gone}
===============================================================================
