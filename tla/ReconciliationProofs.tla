-------------------------- MODULE ReconciliationProofs --------------------------
(***************************************************************************)
(* Proofs about Reconciliation, for any consumers, owners and snapshots,   *)
(* any page sizes and any bound of the fence: the type invariant, that a   *)
(* completion token follows every page, that an event cursor misses no     *)
(* commit, and that the rows of a snapshot and its expiry stay.            *)
(*                                                                         *)
(* The argument: events are numbered by the fence, a snapshot reads a      *)
(* sequence that is not beyond it, and so only a late Profile event can    *)
(* still come below a token.  What a token says of its consumer is true    *)
(* when it is offered, for what the consumer knows once the same answer is *)
(* disclosed, and stays true as the consumer learns and others write.      *)
(***************************************************************************)
EXTENDS Reconciliation, FiniteSetTheorems, WellFoundedInduction, TLAPS

\* Everything that has a sequence has one that the fence has reached.
Bounded ==
  /\ 1 <= fence /\ profileSaw <= fence
  /\ \A e \in events : e.sequence <= fence
  /\ \A s \in Snapshots : snapshots[s].sequence <= fence
  /\ \A c \in Consumers : saw[c].sequence <= fence

\* A call under way presents a token that its consumer was given.
TokenOps == OperationKinds \ {"begin"}

OpsAt(label) == CASE label = "rows"                  -> {"page"}
                  [] label \in {"count", "complete"} -> {"finish"}
                  [] label \in {"lineage", "feed"}   -> {"events", "checkpoint"}
                  [] label \in {"record", "scope"}   -> TokenOps
                  [] OTHER                           -> OperationKinds

CallsPresentGivenTokens ==
  \A c \in Consumers :
    /\ call[c].op \in OpsAt(pc[c])
    /\ pc[c] # "idle" /\ call[c].op # "begin"
         => call[c].token \in tokens[c] /\ call[c].token.domain = DomainOf(call[c].op)

\* What a token says of a consumer who knows k
RowsKnown(k, s) == \A o \in Rows(s) \ Profiles : RowOf(s, o) <= k[o]

PagesKnown(k, s, n) == \A o \in Rows(s) \ Profiles : Index(s, o) < n => RowOf(s, o) <= k[o]

EventsKnown(k, n) ==
  \A e \in events : e.owner \notin Profiles /\ e.sequence <= n => e.sequence <= k[e.owner]

TokenTrue(k, t) ==
  /\ snapshots[t.snapshot].state # "none"
  /\ t.domain = "page" => PagesKnown(k, t.snapshot, t.at)
  /\ t.domain = "complete" => RowsKnown(k, t.snapshot)
  /\ t.domain = "event" => /\ t.at <= fence /\ snapshots[t.snapshot].sequence <= t.at
                           /\ snapshots[t.snapshot].state # "open"
                           /\ EventsKnown(k, t.at)

\* The tokens that were given are true, and those on offer will be.
TokensTrue ==
  \A c \in Consumers :
    /\ \A t \in tokens[c] : TokenTrue(known[c], t)
    /\ \A t \in result[c].granted : TokenTrue(Learn(known[c], result[c].rows), t)

IInv == TypeOK /\ Bounded /\ CallsPresentGivenTokens /\ TokensTrue

-------------------------------------------------------------------------------
\* Lemmas about numbers and rows

\* A nonempty set of numbers with a bound has a greatest one, which is its Max.
LEMMA MaxIsGreatest ==
  ASSUME NEW S \in SUBSET Nat, S # {}, NEW b \in Nat, \A n \in S : n <= b
  PROVE  Max(S) \in S /\ \A n \in S : n <= Max(S)
<1> DEFINE Below == {b - n : n \in S}
<1>1. Below \subseteq Nat /\ Below # {}
  <2>1. \A n \in S : n \in Nat /\ n <= b
    OBVIOUS
  <2>2. \A n \in S : b - n \in Nat
    BY <2>1
  <2> QED
    BY <2>2
<1> DEFINE R == OpToRel(<, Nat)
<1>2. IsWellFoundedOn(R, Nat)
  BY NatLessThanWellFounded
<1>3. PICK d \in Below : \A e \in Below : ~ (<<e, d>> \in R)
  <2> HIDE DEF R
  <2> QED
    BY <1>1, <1>2, WFMin
<1>4. \A e \in Below : ~(e < d)
  BY <1>1, <1>3 DEF OpToRel
<1>5. PICK m \in S : d = b - m
  OBVIOUS
<1>6. \A n \in S : m >= n
  <2> TAKE n \in S
  <2>1. ~(b - n < b - m)
    BY <1>4, <1>5
  <2> QED
    BY <2>1
<1> QED
  BY <1>6 DEF Max

\* The lesser of two numbers.
LEMMA MinOfTwo ==
  ASSUME NEW a \in Nat, NEW b \in Nat
  PROVE  Min({a, b}) = IF a <= b THEN a ELSE b
BY DEF Min

\* The row of an owner in a snapshot is its latest event by the snapshot's sequence.
LEMMA RowIsLatest ==
  ASSUME TypeOK, NEW s \in Snapshots, NEW o \in Rows(s)
  PROVE  /\ o \in Owners /\ RowOf(s, o) \in Nat /\ RowOf(s, o) <= snapshots[s].sequence
         /\ \E e \in EventsOf(o, snapshots[s].sequence) : e.sequence = RowOf(s, o)
         /\ \A e \in EventsOf(o, snapshots[s].sequence) : e.sequence <= RowOf(s, o)
<1> DEFINE q == snapshots[s].sequence
           S == {e.sequence : e \in EventsOf(o, q)}
<1>1. q \in Nat
  BY DEF TypeOK, Snapshot
<1>2. S \in SUBSET Nat /\ S # {} /\ \A n \in S : n <= q
  BY DEF TypeOK, EventsOf, Rows
<1>3. Max(S) \in S /\ \A n \in S : n <= Max(S)
  <2> HIDE DEF S, q
  <2> QED
    BY <1>1, <1>2, MaxIsGreatest
<1>4. RowOf(s, o) = Max(S)
  BY DEF RowOf
<1> QED
  BY <1>1, <1>2, <1>3, <1>4 DEF Rows

\* The index of a row is less than the count of the rows.
LEMMA IndexBelowCount ==
  ASSUME TypeOK, NEW s \in Snapshots
  PROVE  /\ Cardinality(Rows(s)) \in Nat
         /\ \A o \in Rows(s) : Index(s, o) \in Nat /\ Index(s, o) < Cardinality(Rows(s))
<1>1. Rows(s) \subseteq Owners /\ IsFiniteSet(Rows(s)) /\ Cardinality(Rows(s)) \in Nat
  <2>1. Rows(s) \in SUBSET Owners
    BY DEF Rows
  <2> QED
    BY <2>1, ReconciliationAssumption, FS_Subset, FS_CardinalityType
<1>2. ASSUME NEW o \in Rows(s)
      PROVE  Index(s, o) \in Nat /\ Index(s, o) < Cardinality(Rows(s))
  <2> DEFINE T == {x \in Rows(s) : Rank[x] < Rank[o]}
  <2>1. T \in SUBSET Rows(s) /\ T # Rows(s)
    BY <1>1, ReconciliationAssumption
  <2>2. IsFiniteSet(T) /\ Cardinality(T) <= Cardinality(Rows(s)) /\ Cardinality(T) # Cardinality(Rows(s))
    <3> HIDE DEF T
    <3> QED
      BY <1>1, <2>1, FS_Subset
  <2>3. Cardinality(T) \in Nat
    <3> HIDE DEF T
    <3> QED
      BY <2>2, FS_CardinalityType
  <2>4. Index(s, o) = Cardinality(T)
    BY DEF Index
  <2> QED
    BY <1>1, <2>2, <2>3, <2>4
<1> QED
  BY <1>1, <1>2

\* The last sequence of the events is one that the fence has reached.
LEMMA LastSequenceReached ==
  ASSUME TypeOK, Bounded
  PROVE  LastSequence \in Nat /\ LastSequence <= fence
<1> DEFINE S == {1} \cup {e.sequence : e \in events}
<1>1. fence \in Nat /\ S \in SUBSET Nat /\ S # {} /\ \A n \in S : n <= fence
  BY DEF TypeOK, Bounded
<1>2. Max(S) \in S
  <2> HIDE DEF S
  <2> QED
    BY <1>1, MaxIsGreatest
<1> QED
  BY <1>1, <1>2 DEF LastSequence

\* What a page of the feed says: the sequence it goes through to, and the latest
\* event of each owner in it.
LatestIn(page, o) == Max({0} \cup {e.sequence : e \in {f \in page : f.owner = o}})

\* The sequence a page goes through to is that of its last event, or the one it began at.
LEMMA PageFacts ==
  ASSUME TypeOK, Bounded, NEW page \in SUBSET events, NEW from \in Nat
  PROVE  /\ Through(page, from) \in Nat
         /\ Through(page, from) = from \/ \E e \in page : e.sequence = Through(page, from)
         /\ from <= Through(page, from)
         /\ \A e \in page : e.sequence <= Through(page, from)
         /\ \A o \in Owners : /\ LatestIn(page, o) \in Nat
                              /\ \A e \in page : e.owner = o => e.sequence <= LatestIn(page, o)
<1>1. from + fence \in Nat /\ fence \in Nat
  BY DEF TypeOK
<1>2. \A e \in page : e.sequence \in Nat /\ e.sequence <= fence
  BY DEF TypeOK, Bounded
<1>3. /\ Through(page, from) \in {from} \cup {e.sequence : e \in page}
      /\ \A n \in {from} \cup {e.sequence : e \in page} : n <= Through(page, from)
  <2> DEFINE S == {from} \cup {e.sequence : e \in page}
  <2>1. S \in SUBSET Nat /\ S # {} /\ \A n \in S : n <= from + fence
    BY <1>1, <1>2
  <2>2. Max(S) \in S /\ \A n \in S : n <= Max(S)
    <3> HIDE DEF S
    <3> QED
      BY <1>1, <2>1, MaxIsGreatest
  <2> QED
    BY <2>2 DEF Through
<1>4. ASSUME NEW o \in Owners
      PROVE  /\ LatestIn(page, o) \in Nat
             /\ \A e \in page : e.owner = o => e.sequence <= LatestIn(page, o)
  <2> DEFINE S == {0} \cup {e.sequence : e \in {f \in page : f.owner = o}}
  <2>1. S \in SUBSET Nat /\ S # {} /\ \A n \in S : n <= fence
    BY <1>1, <1>2
  <2>2. Max(S) \in S /\ \A n \in S : n <= Max(S)
    <3> HIDE DEF S
    <3> QED
      BY <1>1, <2>1, MaxIsGreatest
  <2> QED
    BY <2>1, <2>2 DEF LatestIn
<1> QED
  BY <1>2, <1>3, <1>4

\* A call that presents a token presents one of the consumer's.
LEMMA PresentedToken ==
  ASSUME TypeOK, CallsPresentGivenTokens, NEW c \in Consumers,
         pc[c] \in {"record", "scope", "rows", "count", "complete", "lineage", "feed"}
  PROVE  /\ call[c].token \in tokens[c] /\ call[c].token \in Token
         /\ Of(c) \in Snapshots /\ At(c) \in Nat
         /\ call[c].token.domain = DomainOf(call[c].op)
<1>1. call[c].op # "begin" /\ pc[c] # "idle"
  BY DEF CallsPresentGivenTokens, OpsAt, TokenOps, OperationKinds
<1>2. call[c].token \in tokens[c] /\ call[c].token.domain = DomainOf(call[c].op)
  BY <1>1 DEF CallsPresentGivenTokens
<1>3. call[c].token \in Token
  BY <1>2 DEF TypeOK
<1> QED
  BY <1>2, <1>3 DEF Of, At, Token

-------------------------------------------------------------------------------
\* The initial state: nothing was written, asked or given.
LEMMA InvariantInit == Init => IInv
<1> SUFFICES ASSUME Init PROVE IInv
  OBVIOUS
<1> USE DEF Init
<1>1. TypeOK
  BY DEF TypeOK, Snapshot, Labels, NoCall, OperationKinds, NothingSeen, Nothing, Replies
<1>2. Bounded
  BY DEF Bounded, NothingSeen
<1>3. CallsPresentGivenTokens
  BY DEF CallsPresentGivenTokens, OpsAt, NoCall, OperationKinds
<1>4. TokensTrue
  BY DEF TokensTrue, Nothing
<1> QED
  BY <1>1, <1>2, <1>3, <1>4 DEF IInv

\* Every step keeps the variables to their kinds of value.
LEMMA TypeStep ==
  ASSUME TypeOK, Bounded, CallsPresentGivenTokens, [Next]_vars
  PROVE  TypeOK'
<1> USE DEF TypeOK
<1>1. CASE Write
  <2> USE DEF Write, store, given
  <2>1. CASE \E o \in Owners \ Profiles, moves \in BOOLEAN : Commit(o, moves)
    BY <1>1, <2>1 DEF Commit, Add, NextSequence
  <2>2. CASE Settle
    BY <1>1, <2>2 DEF Settle
  <2>3. CASE ProfileReads
    BY <1>1, <2>3 DEF ProfileReads
  <2>4. CASE \E o \in Profiles : ProfileWrites(o)
    BY <1>1, <2>4, ReconciliationAssumption DEF ProfileWrites, Add
  <2> QED
    BY <1>1, <2>1, <2>2, <2>3, <2>4
<1>2. ASSUME Expire
      PROVE  snapshots' \in [Snapshots -> Snapshot]
  <2>1. PICK due \in SUBSET {s \in Snapshots : snapshots[s].state \in Expirable},
             old \in SUBSET {s \in Snapshots : snapshots[s].state = "expired"} :
          snapshots' = [s \in Snapshots |->
             IF s \in due THEN [snapshots[s] EXCEPT !.state = "expired"]
             ELSE IF s \in old THEN [snapshots[s] EXCEPT !.state = "gone"] ELSE snapshots[s]]
    BY <1>2 DEF Expire
  <2>2. \A r \in Snapshot : /\ [r EXCEPT !.state = "expired"] \in Snapshot
                            /\ [r EXCEPT !.state = "gone"] \in Snapshot
    BY DEF Snapshot
  <2> QED
    BY <2>1, <2>2
<1>3. CASE ForeignCleanup
  BY <1>2, <1>3 DEF ForeignCleanup, given
<1>4. ASSUME NEW c \in Consumers, Step(c)
      PROVE  TypeOK'
  <2> USE DEF store, given
  <2>1. ASSUME NEW label \in Labels, Continue(c, label), UNCHANGED <<fence, generation, events,
               profileSaw, given>>, snapshots' \in [Snapshots -> Snapshot]
        PROVE  TypeOK'
    BY <2>1 DEF Continue, Goto
  <2>2. ASSUME NEW code \in Replies, Answer(c, code), UNCHANGED store,
               tokens' \in [Consumers -> SUBSET Token],
               known' \in [Consumers -> [Owners -> Nat]]
        PROVE  TypeOK'
    BY <2>2 DEF Answer, Goto, NoCall, NothingSeen, Nothing, OperationKinds, Labels
  <2>3. ASSUME NEW granted \in SUBSET Token, NEW rows \in [Owners -> Nat], Offer(c, granted, rows),
               UNCHANGED <<fence, generation, events, profileSaw, given>>,
               snapshots' \in [Snapshots -> Snapshot]
        PROVE  TypeOK'
    BY <2>3 DEF Offer, Goto, Labels
  <2>4. CASE Ask(c)
    <3>1. PICK op \in OperationKinds, t \in Token \cup {NoToken} :
            call' = [call EXCEPT ![c] = [op |-> op, token |-> t]]
      BY <2>4 DEF Ask
    <3>2. call' \in [Consumers -> [op: OperationKinds, token: Token \cup {NoToken}]]
      BY <3>1
    <3> QED
      BY <2>4, <3>2 DEF Ask, Goto, Labels, Replies
  <2>5. CASE Cleanup(c)
    BY <1>2, <2>1, <2>5 DEF Cleanup, Labels
  <2>6. CASE ReadFence(c)
    BY <2>6 DEF ReadFence, Goto, Labels
  <2>7. CASE ReadSequence(c)
    BY <2>7, LastSequenceReached DEF ReadSequence, Goto, Labels
  <2>8. CASE Insert(c)
    <3>1. snapshots' \in [Snapshots -> Snapshot]
      BY <2>8 DEF Insert, Snapshot
    <3>2. PICK s \in Snapshots : Offer(c, {Cursor("page", s, 0)}, Nothing.rows)
      BY <2>8 DEF Insert
    <3>3. {Cursor("page", s, 0)} \in SUBSET Token /\ Nothing.rows \in [Owners -> Nat]
      BY DEF Cursor, Token, Nothing
    <3> QED
      BY <2>3, <2>8, <3>1, <3>2, <3>3 DEF Insert
  <2>9. CASE CompareScope(c)
    BY <2>2, <2>9 DEF CompareScope, Replies
  <2>10. CASE FindSnapshot(c)
    BY <2>1, <2>2, <2>10 DEF FindSnapshot, Labels, Replies
  <2>11. CASE Page(c)
    <3> DEFINE s == Of(c)
               next(limit) == NextOffset(s, At(c), limit)
               rows(limit) == [o \in Owners |-> IF o \in Slice(s, At(c), limit) THEN RowOf(s, o) ELSE 0]
    <3>1. s \in Snapshots /\ At(c) \in Nat
      BY <2>11, PresentedToken DEF Page
    <3>2. PICK limit \in 1..MaxLimit :
            Offer(c, {IF next(limit) < Cardinality(Rows(s)) THEN Cursor("page", s, next(limit))
                        ELSE Cursor("complete", s, Cardinality(Rows(s)))}, rows(limit))
      BY <2>11 DEF Page
    <3>3. rows(limit) \in [Owners -> Nat]
      BY <3>1, RowIsLatest DEF Slice
    <3>4. Cardinality(Rows(s)) \in Nat
      BY <3>1, IndexBelowCount
    <3>5. next(limit) \in Nat
      <4>1. limit \in Nat /\ At(c) + limit \in Nat
        BY <3>1, ReconciliationAssumption
      <4> QED
        BY <3>4, <4>1, MinOfTwo DEF NextOffset
    <3>6. {IF next(limit) < Cardinality(Rows(s)) THEN Cursor("page", s, next(limit))
             ELSE Cursor("complete", s, Cardinality(Rows(s)))} \in SUBSET Token
      BY <3>1, <3>4, <3>5 DEF Cursor, Token
    <3> HIDE DEF s, next, rows
    <3> QED
      BY <2>3, <2>11, <3>2, <3>3, <3>6 DEF Page
  <2>12. CASE CountRows(c)
    BY <2>1, <2>2, <2>12 DEF CountRows, Labels, Replies
  <2>13. CASE Complete(c)
    <3>1. Of(c) \in Snapshots
      BY <2>13, PresentedToken DEF Complete
    <3>2. snapshots' \in [Snapshots -> Snapshot]
      <4>1. [snapshots[Of(c)] EXCEPT !.state = IF @ = "open" THEN "completed" ELSE @] \in Snapshot
        <5>1. \A r \in Snapshot :
                [r EXCEPT !.state = IF @ = "open" THEN "completed" ELSE @] \in Snapshot
          BY DEF Snapshot
        <5> QED
          BY <3>1, <5>1
      <4> QED
        BY <2>13, <3>1, <4>1 DEF Complete, CompleteOpen
    <3>3. {Cursor("event", Of(c), snapshots[Of(c)].sequence)} \in SUBSET Token
      BY <3>1 DEF Cursor, Token, Snapshot
    <3>4. Nothing.rows \in [Owners -> Nat]
      BY DEF Nothing
    <3> QED
      BY <2>3, <2>13, <3>2, <3>3, <3>4 DEF Complete
  <2>14. CASE CompareLineage(c)
    BY <2>1, <2>2, <2>14 DEF CompareLineage, Labels, Replies
  <2>15. CASE Feed(c)
    <3>1. Of(c) \in Snapshots /\ At(c) \in Nat
      BY <2>15, PresentedToken DEF Feed
    <3>2. PICK page \in SUBSET events :
            Offer(c, {Cursor("event", Of(c), Through(page, At(c)))}, [o \in Owners |-> LatestIn(page, o)])
      BY <2>15 DEF Feed, LatestIn
    <3>3. Through(page, At(c)) \in Nat /\ [o \in Owners |-> LatestIn(page, o)] \in [Owners -> Nat]
      BY <3>1, PageFacts
    <3>4. {Cursor("event", Of(c), Through(page, At(c)))} \in SUBSET Token
      BY <3>1, <3>3 DEF Cursor, Token
    <3> QED
      BY <2>3, <2>15, <3>2, <3>3, <3>4 DEF Feed
  <2>16. CASE Disclose(c)
    <3>1. tokens' \in [Consumers -> SUBSET Token]
      BY <2>16 DEF Disclose
    <3>2. known' \in [Consumers -> [Owners -> Nat]]
      BY <2>16 DEF Disclose, Learn
    <3> QED
      BY <2>2, <2>16, <3>1, <3>2 DEF Disclose, Replies
  <2>17. CASE ProfileChanged(c)
    BY <2>2, <2>17 DEF ProfileChanged, Replies
  <2>18. CASE CallFails(c)
    BY <2>2, <2>18 DEF CallFails, Replies
  <2> QED
    BY <1>4, <2>4, <2>5, <2>6, <2>7, <2>8, <2>9, <2>10, <2>11, <2>12, <2>13, <2>14, <2>15, <2>16,
       <2>17, <2>18 DEF Step
<1>5. CASE UNCHANGED vars
  BY <1>5 DEF vars, store, given
<1> QED
  BY <1>1, <1>3, <1>4, <1>5 DEF Next

\* Every step keeps sequences to what the fence has reached.
LEMMA BoundedStep ==
  ASSUME TypeOK, Bounded, CallsPresentGivenTokens, [Next]_vars
  PROVE  Bounded'
<1> USE DEF TypeOK, Bounded
<1>1. CASE Write
  <2> USE DEF Write, store, given
  <2>1. ASSUME fence' \in Nat, fence <= fence', profileSaw' <= fence', UNCHANGED snapshots,
               \A e \in events' : e.sequence <= fence'
        PROVE  Bounded'
    <3>1. \A s \in Snapshots : snapshots[s].sequence \in Nat /\ snapshots'[s].sequence <= fence'
      BY <2>1 DEF Snapshot
    <3>2. \A c \in Consumers : saw[c].sequence \in Nat /\ saw'[c].sequence <= fence'
      BY <1>1, <2>1
    <3> QED
      BY <2>1, <3>1, <3>2
  <2>2. \A e \in events : e.sequence \in Nat
    OBVIOUS
  <2>3. CASE \E o \in Owners \ Profiles, moves \in BOOLEAN : Commit(o, moves)
    <3>1. fence' = fence + 1 /\ UNCHANGED <<profileSaw, snapshots>>
      BY <2>3 DEF Commit
    <3>2. \A e \in events' : e \in events \/ e.sequence = fence + 1
      BY <2>3 DEF Commit, Add, NextSequence
    <3> QED
      BY <2>1, <2>2, <3>1, <3>2
  <2>4. CASE Settle
    BY <2>1, <2>2, <2>4 DEF Settle
  <2>5. CASE ProfileReads
    BY <2>1, <2>2, <2>5 DEF ProfileReads
  <2>6. CASE \E o \in Profiles : ProfileWrites(o)
    <3>1. profileSaw' = 0 /\ UNCHANGED snapshots /\ fence' = IF fence = profileSaw THEN fence + 1 ELSE fence
      BY <2>6 DEF ProfileWrites
    <3>2. \A e \in events' : e \in events \/ e.sequence = profileSaw + 1
      BY <2>6 DEF ProfileWrites, Add
    <3> QED
      BY <2>1, <2>2, <3>1, <3>2
  <2> QED
    BY <1>1, <2>3, <2>4, <2>5, <2>6
<1>2. ASSUME UNCHANGED <<fence, profileSaw, events>>,
             \A s \in Snapshots : snapshots'[s].sequence <= fence,
             \A c \in Consumers : saw'[c].sequence <= fence
      PROVE  Bounded'
  BY <1>2
<1>3. ASSUME Expire
      PROVE  \A s \in Snapshots : snapshots'[s].sequence = snapshots[s].sequence
  BY <1>3 DEF Expire, Snapshot
<1>4. CASE ForeignCleanup
  BY <1>2, <1>3, <1>4 DEF ForeignCleanup
<1>5. ASSUME NEW c \in Consumers, Step(c)
      PROVE  Bounded'
  <2> USE DEF store, given
  <2>1. ASSUME NEW code, Answer(c, code)
        PROVE  \A d \in Consumers : saw'[d].sequence <= fence
    BY <2>1 DEF Answer, NothingSeen
  <2>2. CASE Cleanup(c)
    BY <1>2, <1>3, <2>2 DEF Cleanup, Continue
  <2>3. CASE ReadSequence(c)
    BY <1>2, <2>3, LastSequenceReached DEF ReadSequence
  <2>4. CASE Insert(c)
    <3>1. \A s \in Snapshots : snapshots'[s].sequence <= fence
      BY <2>4 DEF Insert
    <3> QED
      BY <1>2, <2>4, <3>1 DEF Insert, Offer
  <2>5. CASE Complete(c)
    <3>1. \A s \in Snapshots : snapshots'[s].sequence = snapshots[s].sequence
      BY <2>5 DEF Complete, CompleteOpen, Snapshot
    <3> QED
      BY <1>2, <2>5, <3>1 DEF Complete, Offer
  <2>6. CASE Ask(c) \/ ReadFence(c) \/ Page(c) \/ Feed(c)
    BY <1>2, <2>6, ZenonT(60) DEF Ask, ReadFence, Page, Feed, Offer
  <2>7. CASE CompareScope(c) \/ Disclose(c) \/ ProfileChanged(c) \/ CallFails(c)
    BY <1>2, <2>1, <2>7 DEF CompareScope, Disclose, ProfileChanged, CallFails
  <2>8. CASE FindSnapshot(c) \/ CountRows(c) \/ CompareLineage(c)
    BY <1>2, <2>1, <2>8 DEF FindSnapshot, CountRows, CompareLineage, Continue
  <2> QED
    BY <1>5, <2>2, <2>3, <2>4, <2>5, <2>6, <2>7, <2>8 DEF Step
<1>6. CASE UNCHANGED vars
  BY <1>6 DEF vars, store, given
<1> QED
  BY <1>1, <1>4, <1>5, <1>6 DEF Next

\* Every step keeps calls to the tokens of their consumers.
LEMMA CallStep ==
  ASSUME TypeOK, CallsPresentGivenTokens, [Next]_vars
  PROVE  CallsPresentGivenTokens'
<1> USE DEF TypeOK, OperationKinds
<1>1. CASE Write \/ ForeignCleanup \/ UNCHANGED vars
  BY <1>1 DEF Write, ForeignCleanup, vars, store, given, CallsPresentGivenTokens
<1>2. ASSUME NEW c \in Consumers, Step(c)
      PROVE  CallsPresentGivenTokens'
  <2> USE DEF store, given
  <2> DEFINE Presents(d) ==
        /\ call[d].op \in OpsAt(pc[d])
        /\ pc[d] # "idle" /\ call[d].op # "begin"
             => call[d].token \in tokens[d] /\ call[d].token.domain = DomainOf(call[d].op)
  <2>1. Presents(c)
    BY DEF CallsPresentGivenTokens
  <2>2. ASSUME NEW label \in Labels, Goto(c, label), UNCHANGED <<call, tokens>>, pc[c] # "idle",
               call[c].op \in OpsAt(label)
        PROVE  CallsPresentGivenTokens'
    BY <2>2 DEF CallsPresentGivenTokens, Goto
  <2>3. ASSUME NEW code, Answer(c, code), \A d \in Consumers : tokens[d] \subseteq tokens'[d]
        PROVE  CallsPresentGivenTokens'
    BY <2>3 DEF CallsPresentGivenTokens, Answer, Goto, NoCall, OpsAt
  <2>4. CASE Ask(c)
    BY <2>4 DEF Ask, Goto, CallsPresentGivenTokens, OpsAt
  <2>5. CASE Cleanup(c)
    BY <2>2, <2>5 DEF Cleanup, Continue, OpsAt, TokenOps, Labels
  <2>6. CASE ReadFence(c) \/ ReadSequence(c) \/ Insert(c) \/ Page(c) \/ Complete(c) \/ Feed(c)
    BY <2>2, <2>6 DEF ReadFence, ReadSequence, Insert, Page, Complete, Feed, Offer, OpsAt, Labels
  <2>7. CASE CompareScope(c) \/ ProfileChanged(c) \/ CallFails(c)
    BY <2>3, <2>7 DEF CompareScope, ProfileChanged, CallFails
  <2>8. CASE Disclose(c)
    <3>1. \A d \in Consumers : tokens[d] \subseteq tokens'[d]
      BY <2>8 DEF Disclose
    <3> QED
      BY <2>3, <2>8, <3>1 DEF Disclose
  <2>9. CASE FindSnapshot(c)
    BY <2>1, <2>2, <2>3, <2>9 DEF FindSnapshot, Continue, OpsAt, TokenOps, Labels
  <2>10. CASE CountRows(c) \/ CompareLineage(c)
    BY <2>1, <2>2, <2>3, <2>10 DEF CountRows, CompareLineage, Continue, OpsAt, Labels
  <2> QED
    BY <1>2, <2>4, <2>5, <2>6, <2>7, <2>8, <2>9, <2>10 DEF Step
<1> QED
  BY <1>1, <1>2 DEF Next

-------------------------------------------------------------------------------
\* How the store grows

\* Events are only added, the late ones are of Profiles, and a snapshot that was
\* begun keeps its sequence and is not opened again.
StoreGrows ==
  /\ fence <= fence'
  /\ events \subseteq events'
  /\ \A e \in events' \ events : e.owner \in Profiles \/ e.sequence > fence
  /\ \A s \in Snapshots : snapshots[s].state # "none" =>
       /\ snapshots'[s].sequence = snapshots[s].sequence
       /\ snapshots'[s].state # "none"
       /\ snapshots[s].state # "open" => snapshots'[s].state # "open"

\* The store only grows: new events come after the fence, those of Profiles excepted.
LEMMA StoreGrowth ==
  ASSUME TypeOK, Bounded, CallsPresentGivenTokens, [Next]_vars
  PROVE  StoreGrows
<1> USE DEF TypeOK, StoreGrows
<1>1. CASE Write
  <2> USE DEF Write
  <2>1. CASE \E o \in Owners \ Profiles, moves \in BOOLEAN : Commit(o, moves)
    BY <2>1 DEF Commit, Add, NextSequence
  <2>2. CASE Settle \/ ProfileReads
    BY <2>2 DEF Settle, ProfileReads
  <2>3. CASE \E o \in Profiles : ProfileWrites(o)
    <3>1. UNCHANGED snapshots /\ fence <= fence'
      BY <2>3 DEF ProfileWrites
    <3>2. \A e \in events' \ events : e.owner \in Profiles
      BY <2>3 DEF ProfileWrites, Add
    <3>3. events \subseteq events'
      BY <2>3 DEF ProfileWrites, Add
    <3> QED
      BY <3>1, <3>2, <3>3
  <2> QED
    BY <1>1, <2>1, <2>2, <2>3
<1>2. CASE UNCHANGED <<fence, events, snapshots>>
  BY <1>2
<1>3. ASSUME Expire, UNCHANGED <<fence, events>>
      PROVE  StoreGrows
  BY <1>3 DEF Expire, Expirable, Snapshot
<1>4. ASSUME NEW c \in Consumers, Step(c)
      PROVE  StoreGrows
  <2>1. CASE Cleanup(c)
    BY <1>3, <2>1 DEF Cleanup
  <2>2. CASE Insert(c)
    BY <2>2 DEF Insert, Snapshot
  <2>3. CASE Complete(c)
    BY <2>3 DEF Complete, CompleteOpen, Snapshot
  <2>4. CASE Ask(c) \/ ReadFence(c) \/ ReadSequence(c) \/ CompareScope(c) \/ FindSnapshot(c)
    BY <1>2, <2>4 DEF Ask, ReadFence, ReadSequence, CompareScope, FindSnapshot, store
  <2>5. CASE Page(c) \/ CountRows(c) \/ CompareLineage(c) \/ Feed(c)
    BY <1>2, <2>5 DEF Page, CountRows, CompareLineage, Feed, store
  <2>6. CASE Disclose(c) \/ ProfileChanged(c) \/ CallFails(c)
    BY <1>2, <2>6 DEF Disclose, ProfileChanged, CallFails, store
  <2> QED
    BY <1>4, <2>1, <2>2, <2>3, <2>4, <2>5, <2>6 DEF Step
<1> QED
  BY <1>1, <1>2, <1>3, <1>4 DEF Next, ForeignCleanup, vars, store

\* As the store grows, a snapshot that was begun keeps its rows but for those of
\* Profiles, and the index of a row does not fall.
LEMMA RowsStayBelow ==
  ASSUME TypeOK, TypeOK', Bounded, StoreGrows, NEW s \in Snapshots, snapshots[s].state # "none"
  PROVE  /\ Rows(s) \subseteq Rows(s)'
         /\ Rows(s)' \ Profiles = Rows(s) \ Profiles
         /\ \A o \in Rows(s) \ Profiles : RowOf(s, o)' = RowOf(s, o)
         /\ \A o \in Rows(s) : Index(s, o)' \in Nat /\ Index(s, o) <= Index(s, o)'
<1> DEFINE q == snapshots[s].sequence
<1>1. q \in Nat /\ q <= fence /\ snapshots'[s].sequence = q /\ fence \in Nat
  BY DEF TypeOK, Bounded, StoreGrows, Snapshot
<1>2. \A o \in Owners : EventsOf(o, q) \subseteq EventsOf(o, q)'
  BY <1>1 DEF EventsOf, StoreGrows
<1>3. \A o \in Owners \ Profiles : EventsOf(o, q)' = EventsOf(o, q)
  <2> SUFFICES ASSUME NEW o \in Owners \ Profiles, NEW e \in EventsOf(o, q)'
               PROVE  e \in EventsOf(o, q)
    BY <1>2
  <2>1. e \in events' /\ e.owner = o /\ e.sequence <= q /\ e.sequence \in Nat
    BY <1>1 DEF EventsOf, TypeOK
  <2>2. e \in events
    BY <1>1, <2>1 DEF StoreGrows
  <2> QED
    BY <2>1, <2>2 DEF EventsOf
<1>4. Rows(s) = {o \in Owners : EventsOf(o, q) # {}} /\ Rows(s)' = {o \in Owners : EventsOf(o, q)' # {}}
  BY <1>1 DEF Rows, EventsOf
<1>5. Rows(s) \subseteq Rows(s)' /\ Rows(s)' \ Profiles = Rows(s) \ Profiles
  BY <1>2, <1>3, <1>4
<1>6. ASSUME NEW o \in Rows(s) \ Profiles
      PROVE  RowOf(s, o)' = RowOf(s, o)
  <2>1. RowOf(s, o) = Max({e.sequence : e \in EventsOf(o, q)})
    BY DEF RowOf
  <2>2. RowOf(s, o)' = Max({e.sequence : e \in EventsOf(o, q)'})
    BY <1>1 DEF RowOf, EventsOf
  <2>3. EventsOf(o, q)' = EventsOf(o, q)
    BY <1>3, <1>4
  <2> QED
    BY <2>1, <2>2, <2>3
<1>7. ASSUME NEW o \in Rows(s)
      PROVE  Index(s, o)' \in Nat /\ Index(s, o) <= Index(s, o)'
  <2> DEFINE T == {x \in Rows(s) : Rank[x] < Rank[o]}
             U == {x \in Rows(s)' : Rank[x] < Rank[o]}
  <2>1. U \in SUBSET Owners /\ T \in SUBSET U
    BY <1>4, <1>5
  <2>2. IsFiniteSet(U)
    <3> HIDE DEF U
    <3> QED
      BY <2>1, ReconciliationAssumption, FS_Subset
  <2>3. Cardinality(U) \in Nat /\ Cardinality(T) <= Cardinality(U)
    <3> HIDE DEF T, U
    <3> QED
      BY <2>1, <2>2, FS_Subset, FS_CardinalityType
  <2>4. Index(s, o) = Cardinality(T) /\ Index(s, o)' = Cardinality(U)
    BY DEF Index
  <2> QED
    BY <2>3, <2>4
<1> QED
  BY <1>5, <1>6, <1>7

\* What a token says stays true as the store grows ...
LEMMA TruthStays ==
  ASSUME TypeOK, TypeOK', Bounded, StoreGrows, NEW k \in [Owners -> Nat], NEW t \in Token,
         TokenTrue(k, t)
  PROVE  TokenTrue(k, t)'
<1> DEFINE s == t.snapshot
<1>1. s \in Snapshots /\ t.at \in Nat /\ snapshots[s].state # "none"
  BY DEF Token, TokenTrue
<1>2. /\ Rows(s) \subseteq Rows(s)' /\ Rows(s)' \ Profiles = Rows(s) \ Profiles
      /\ \A o \in Rows(s) \ Profiles : RowOf(s, o)' = RowOf(s, o)
      /\ \A o \in Rows(s) : Index(s, o)' \in Nat /\ Index(s, o) <= Index(s, o)'
  BY <1>1, RowsStayBelow
<1>3. /\ snapshots'[s].state # "none" /\ snapshots'[s].sequence = snapshots[s].sequence
      /\ snapshots[s].state # "open" => snapshots'[s].state # "open"
  BY <1>1 DEF StoreGrows
<1>4. PagesKnown(k, s, t.at) => PagesKnown(k, s, t.at)'
  <2> SUFFICES ASSUME PagesKnown(k, s, t.at), NEW o \in Rows(s)' \ Profiles, Index(s, o)' < t.at
               PROVE  RowOf(s, o)' <= k[o]
    BY DEF PagesKnown
  <2>1. o \in Rows(s) \ Profiles
    BY <1>2
  <2>2. Index(s, o) \in Nat
    BY <1>1, <2>1, IndexBelowCount
  <2>3. Index(s, o) < t.at
    BY <1>1, <1>2, <2>1, <2>2
  <2> QED
    BY <1>2, <2>1, <2>3 DEF PagesKnown
<1>5. RowsKnown(k, s) => RowsKnown(k, s)'
  BY <1>2 DEF RowsKnown
<1>6. t.at <= fence => (EventsKnown(k, t.at) => EventsKnown(k, t.at)')
  <2> SUFFICES ASSUME t.at <= fence, EventsKnown(k, t.at), NEW e \in events',
                      e.owner \notin Profiles, e.sequence <= t.at
               PROVE  e.sequence <= k[e.owner]
    BY DEF EventsKnown
  <2>1. e.sequence \in Nat /\ fence \in Nat
    BY DEF TypeOK
  <2>2. e \in events
    BY <1>1, <2>1 DEF StoreGrows
  <2> QED
    BY <2>2 DEF EventsKnown
<1>7. fence \in Nat /\ fence' \in Nat /\ fence <= fence'
  BY DEF TypeOK, StoreGrows
<1> HIDE DEF s
<1> QED
  BY <1>1, <1>3, <1>4, <1>5, <1>6, <1>7 DEF TokenTrue, s

\* ... and as its consumer learns.
LEMMA TruthGrows ==
  ASSUME TypeOK, NEW k \in [Owners -> Nat], NEW l \in [Owners -> Nat], \A o \in Owners : k[o] <= l[o],
         NEW t \in Token, TokenTrue(k, t)
  PROVE  TokenTrue(l, t)
<1> DEFINE s == t.snapshot
<1>1. s \in Snapshots /\ t.at \in Nat
  BY DEF Token
<1>2. \A o \in Rows(s) : o \in Owners /\ RowOf(s, o) \in Nat
  BY <1>1, RowIsLatest
<1>3. PagesKnown(k, s, t.at) => PagesKnown(l, s, t.at)
  BY <1>2 DEF PagesKnown
<1>4. RowsKnown(k, s) => RowsKnown(l, s)
  BY <1>2 DEF RowsKnown
<1>5. EventsKnown(k, t.at) => EventsKnown(l, t.at)
  BY DEF EventsKnown, TypeOK
<1> HIDE DEF s
<1> QED
  BY <1>3, <1>4, <1>5 DEF TokenTrue, s

\* Learning forgets nothing, and takes in what it is told.
LEMMA LearnGrows ==
  ASSUME NEW k \in [Owners -> Nat], NEW rows \in [Owners -> Nat]
  PROVE  /\ Learn(k, rows) \in [Owners -> Nat]
         /\ \A o \in Owners : k[o] <= Learn(k, rows)[o] /\ rows[o] <= Learn(k, rows)[o]
BY DEF Learn

-------------------------------------------------------------------------------
\* What an answer offers is true of a consumer who learns what it discloses.

\* A snapshot that is inserted has no page before the first cursor.
LEMMA FirstCursorTrue ==
  ASSUME TypeOK, TypeOK', NEW c \in Consumers, NEW s \in Snapshots, NEW k \in [Owners -> Nat],
         snapshots'[s].state = "open"
  PROVE  TokenTrue(k, Cursor("page", s, 0))'
<1>1. ASSUME NEW o \in Rows(s)'
      PROVE  Index(s, o)' \in Nat
  <2> DEFINE U == {x \in Rows(s)' : Rank[x] < Rank[o]}
  <2>1. U \in SUBSET Owners
    BY DEF Rows
  <2>2. Cardinality(U) \in Nat
    <3> HIDE DEF U
    <3> QED
      BY <2>1, ReconciliationAssumption, FS_Subset, FS_CardinalityType
  <2> QED
    BY <2>2 DEF Index
<1>2. PagesKnown(k, s, 0)'
  BY <1>1 DEF PagesKnown
<1> QED
  BY <1>2 DEF TokenTrue, Cursor

\* A page continues where its cursor stood, and the last one completes the rows.
LEMMA PageTrue ==
  ASSUME TypeOK, NEW s \in Snapshots, NEW at \in Nat, NEW limit \in 1..MaxLimit,
         NEW k \in [Owners -> Nat], TokenTrue(k, Cursor("page", s, at)),
         NEW l \in [Owners -> Nat],
         \A o \in Owners : k[o] <= l[o] /\ (o \in Slice(s, at, limit) => RowOf(s, o) <= l[o])
  PROVE  LET next == NextOffset(s, at, limit) IN
         TokenTrue(l, IF next < Cardinality(Rows(s)) THEN Cursor("page", s, next)
                      ELSE Cursor("complete", s, Cardinality(Rows(s))))
<1> DEFINE count == Cardinality(Rows(s))
           next == NextOffset(s, at, limit)
<1>1. limit \in Nat /\ at + limit \in Nat
  BY ReconciliationAssumption
<1>2. count \in Nat /\ \A o \in Rows(s) : Index(s, o) \in Nat /\ Index(s, o) < count
  BY IndexBelowCount
<1>3. next = IF at + limit <= count THEN at + limit ELSE count
  BY <1>1, <1>2, MinOfTwo DEF NextOffset
<1>4. snapshots[s].state # "none" /\ PagesKnown(k, s, at)
  BY DEF TokenTrue, Cursor
<1>5. ASSUME NEW o \in Rows(s) \ Profiles, Index(s, o) < at + limit
      PROVE  RowOf(s, o) <= l[o]
  <2>1. o \in Owners /\ RowOf(s, o) \in Nat /\ Index(s, o) \in Nat
    BY <1>2, RowIsLatest
  <2>2. CASE Index(s, o) < at
    BY <1>4, <2>1, <2>2 DEF PagesKnown
  <2>3. CASE at <= Index(s, o)
    BY <1>5, <2>1, <2>3 DEF Slice
  <2> QED
    BY <2>1, <2>2, <2>3
<1>6. ASSUME next < count
      PROVE  TokenTrue(l, Cursor("page", s, next))
  <2>1. next = at + limit
    BY <1>1, <1>2, <1>3, <1>6
  <2>2. PagesKnown(l, s, next)
    BY <1>5, <2>1 DEF PagesKnown
  <2> HIDE DEF next
  <2> QED
    BY <1>4, <2>2 DEF TokenTrue, Cursor
<1>7. ASSUME ~(next < count)
      PROVE  TokenTrue(l, Cursor("complete", s, count))
  <2>1. count <= at + limit
    BY <1>1, <1>2, <1>3, <1>7
  <2>2. RowsKnown(l, s)
    BY <1>1, <1>2, <1>5, <2>1 DEF RowsKnown
  <2> HIDE DEF next, count
  <2> QED
    BY <1>4, <2>2 DEF TokenTrue, Cursor
<1> QED
  BY <1>6, <1>7

\* Who knows every row of a snapshot knows every event up to its sequence.
LEMMA CompletionTrue ==
  ASSUME TypeOK, NEW s \in Snapshots, NEW k \in [Owners -> Nat], RowsKnown(k, s)
  PROVE  EventsKnown(k, snapshots[s].sequence)
<1> SUFFICES ASSUME NEW e \in events, e.owner \notin Profiles, e.sequence <= snapshots[s].sequence
             PROVE  e.sequence <= k[e.owner]
  BY DEF EventsKnown
<1> DEFINE o == e.owner
<1>1. o \in Owners /\ e \in EventsOf(o, snapshots[s].sequence) /\ e.sequence \in Nat
  BY DEF EventsOf, TypeOK
<1>2. o \in Rows(s) \ Profiles
  BY <1>1 DEF Rows
<1>3. RowOf(s, o) \in Nat /\ e.sequence <= RowOf(s, o)
  BY <1>1, <1>2, RowIsLatest
<1>4. RowOf(s, o) <= k[o] /\ k[o] \in Nat
  BY <1>1, <1>2 DEF RowsKnown
<1> HIDE DEF o
<1> QED
  BY <1>1, <1>3, <1>4 DEF o

\* A page of the feed leaves out nothing that its cursor passes.
LEMMA FeedTrue ==
  ASSUME TypeOK, Bounded, NEW s \in Snapshots, NEW at \in Nat,
         NEW k \in [Owners -> Nat], TokenTrue(k, Cursor("event", s, at)),
         NEW page \in SUBSET events, IsPage(page, {e \in events : e.sequence > at}),
         NEW l \in [Owners -> Nat],
         \A o \in Owners : k[o] <= l[o] /\ LatestIn(page, o) <= l[o]
  PROVE  TokenTrue(l, Cursor("event", s, Through(page, at)))
<1> DEFINE through == Through(page, at)
<1>1. /\ through \in Nat /\ at <= through
      /\ through = at \/ \E e \in page : e.sequence = through
      /\ \A o \in Owners : /\ LatestIn(page, o) \in Nat
                           /\ \A e \in page : e.owner = o => e.sequence <= LatestIn(page, o)
  BY PageFacts
<1>2. /\ at <= fence /\ snapshots[s].sequence <= at
      /\ snapshots[s].state # "none" /\ snapshots[s].state # "open" /\ EventsKnown(k, at)
  BY DEF TokenTrue, Cursor
<1>3. fence \in Nat /\ snapshots[s].sequence \in Nat
  BY DEF TypeOK, Snapshot
<1>4. through <= fence
  BY <1>1, <1>2, <1>3 DEF Bounded
<1>5. ASSUME NEW e \in events, e.owner \notin Profiles, e.sequence <= through
      PROVE  e.sequence <= l[e.owner]
  <2>1. e.owner \in Owners /\ e.sequence \in Nat /\ k[e.owner] \in Nat /\ l[e.owner] \in Nat
    BY DEF TypeOK
  <2>2. CASE e.sequence <= at
    BY <1>2, <1>5, <2>1, <2>2 DEF EventsKnown
  <2>3. CASE at < e.sequence
    <3>1. PICK f \in page : f.sequence = through
      BY <1>1, <1>5, <2>1, <2>3
    <3>2. e \in page
      BY <1>5, <2>3, <3>1 DEF IsPage
    <3>3. e.sequence <= LatestIn(page, e.owner) /\ LatestIn(page, e.owner) \in Nat
      BY <1>1, <2>1, <3>2
    <3>4. LatestIn(page, e.owner) <= l[e.owner]
      BY <2>1
    <3> QED
      BY <2>1, <3>3, <3>4
  <2> QED
    BY <2>1, <2>2, <2>3
<1>6. snapshots[s].sequence <= through
  BY <1>1, <1>2, <1>3
<1>7. EventsKnown(l, through)
  BY <1>5 DEF EventsKnown
<1> HIDE DEF through
<1> QED
  BY <1>2, <1>4, <1>6, <1>7 DEF TokenTrue, Cursor, through

-------------------------------------------------------------------------------
\* Every step keeps what the tokens say true.
LEMMA TokensStep ==
  ASSUME IInv, TypeOK', StoreGrows, [Next]_vars
  PROVE  TokensTrue'
<1> USE DEF IInv
<1>1. \A d \in Consumers : /\ known[d] \in [Owners -> Nat] /\ tokens[d] \subseteq Token
                           /\ result[d].granted \subseteq Token /\ result[d].rows \in [Owners -> Nat]
                           /\ Learn(known[d], result[d].rows) \in [Owners -> Nat]
  BY LearnGrows DEF TypeOK
\* a token is still true of what it was true of
<1>2. ASSUME NEW d \in Consumers, UNCHANGED <<tokens[d], known[d]>>, NEW t \in tokens'[d]
      PROVE  TokenTrue(known[d], t)'
  <2>1. PICK k \in [Owners -> Nat] : k = known[d]
    BY <1>1
  <2>2. TokenTrue(k, t) /\ t \in Token
    BY <1>1, <1>2, <2>1 DEF TokensTrue
  <2>3. TokenTrue(k, t)'
    BY <2>2, TruthStays
  <2>4. k = known'[d]
    BY <1>2, <2>1
  <2> QED
    BY <2>3, <2>4 DEF TokenTrue, PagesKnown, RowsKnown, EventsKnown
<1>3. ASSUME NEW d \in Consumers, UNCHANGED <<result[d], known[d]>>, NEW t \in result'[d].granted
      PROVE  TokenTrue(Learn(known[d], result[d].rows), t)'
  <2>1. PICK k \in [Owners -> Nat] : k = Learn(known[d], result[d].rows)
    BY <1>1
  <2>2. TokenTrue(k, t) /\ t \in Token
    BY <1>1, <1>3, <2>1 DEF TokensTrue
  <2>3. TokenTrue(k, t)'
    BY <2>2, TruthStays
  <2>4. k = Learn(known'[d], result'[d].rows)
    BY <1>3, <2>1
  <2> QED
    BY <2>3, <2>4 DEF TokenTrue, PagesKnown, RowsKnown, EventsKnown
<1>4. CASE UNCHANGED <<given, result>>
  BY <1>2, <1>3, <1>4 DEF TokensTrue, given
<1>5. ASSUME NEW c \in Consumers, Step(c)
      PROVE  TokensTrue'
  <2>1. ASSUME UNCHANGED given, NEW code, Answer(c, code)
        PROVE  TokensTrue'
    <3>1. result'[c].granted = {} /\ \A d \in Consumers \ {c} : result'[d] = result[d]
      BY <2>1 DEF Answer, Nothing, TypeOK
    <3> QED
      BY <1>2, <1>3, <2>1, <3>1 DEF TokensTrue, given
  \* an offer is true if its token is, of who learns its rows
  <2>2. ASSUME UNCHANGED given, NEW t \in Token, NEW rows \in [Owners -> Nat], Offer(c, {t}, rows),
               NEW l \in [Owners -> Nat], l = Learn(known[c], rows), TokenTrue(l, t)'
        PROVE  TokensTrue'
    <3>1. /\ result'[c] = [granted |-> {t}, rows |-> rows]
          /\ \A d \in Consumers \ {c} : result'[d] = result[d]
      BY <2>2 DEF Offer, TypeOK
    <3>2. l = Learn(known'[c], result'[c].rows)
      BY <2>2, <3>1 DEF given
    <3>3. TokenTrue(Learn(known[c], result[c].rows), t)'
      BY <2>2, <3>2 DEF TokenTrue, PagesKnown, RowsKnown, EventsKnown
    <3> QED
      BY <1>2, <1>3, <2>2, <3>1, <3>3 DEF TokensTrue, given
  <2>3. CASE Ask(c) \/ Cleanup(c) \/ ReadFence(c) \/ ReadSequence(c)
    BY <1>4, <2>3 DEF Ask, Cleanup, ReadFence, ReadSequence, Continue
  <2>4. CASE Insert(c)
    <3>1. PICK s \in Snapshots :
            /\ snapshots' = [snapshots EXCEPT ![s] =
                 [state |-> "open", sequence |-> saw[c].sequence, generation |-> saw[c].generation]]
            /\ Offer(c, {Cursor("page", s, 0)}, Nothing.rows)
      BY <2>4 DEF Insert
    <3>2. snapshots'[s].state = "open"
      BY <3>1 DEF TypeOK
    <3>3. Nothing.rows \in [Owners -> Nat] /\ Cursor("page", s, 0) \in Token
      BY DEF Nothing, Cursor, Token
    <3>4. PICK l \in [Owners -> Nat] : l = Learn(known[c], Nothing.rows)
      BY <1>1, <3>3, LearnGrows
    <3>5. TokenTrue(l, Cursor("page", s, 0))'
      BY <3>2, FirstCursorTrue
    <3> QED
      BY <2>2, <2>4, <3>1, <3>3, <3>4, <3>5 DEF Insert
  <2>5. CASE CompareScope(c) \/ ProfileChanged(c) \/ CallFails(c)
    BY <2>1, <2>5 DEF CompareScope, ProfileChanged, CallFails
  <2>6. CASE FindSnapshot(c) \/ CountRows(c) \/ CompareLineage(c)
    BY <1>4, <2>1, <2>6 DEF FindSnapshot, CountRows, CompareLineage, Continue
  <2>7. CASE Page(c) \/ Complete(c) \/ Feed(c)
    <3>1. PICK s \in Snapshots, at \in Nat, k \in [Owners -> Nat] :
            s = Of(c) /\ at = At(c) /\ k = known[c]
      BY <1>1, <2>7, PresentedToken DEF Page, Complete, Feed
    <3>2. call[c].token = Cursor(DomainOf(call[c].op), s, at) /\ call[c].token \in tokens[c]
      BY <2>7, <3>1, PresentedToken DEF Page, Complete, Feed, Token, Cursor, Of, At
    <3>3. TokenTrue(k, Cursor(DomainOf(call[c].op), s, at))
      BY <3>1, <3>2 DEF TokensTrue
    <3>4. CASE Page(c)
      <4>1. DomainOf(call[c].op) = "page"
        BY <3>4 DEF Page, CallsPresentGivenTokens, OpsAt, DomainOf
      <4> DEFINE next(limit) == NextOffset(s, at, limit)
                 Offered(limit) == IF next(limit) < Cardinality(Rows(s)) THEN Cursor("page", s, next(limit))
                                   ELSE Cursor("complete", s, Cardinality(Rows(s)))
                 Told(limit) == [o \in Owners |-> IF o \in Slice(s, at, limit) THEN RowOf(s, o) ELSE 0]
      <4>2. PICK limit \in 1..MaxLimit : Offer(c, {Offered(limit)}, Told(limit))
        BY <3>1, <3>4 DEF Page
      <4>3. Told(limit) \in [Owners -> Nat]
        BY RowIsLatest DEF Slice
      <4>4. PICK rows \in [Owners -> Nat] : rows = Told(limit)
        BY <4>3
      <4>5. PICK t : t = Offered(limit)
        OBVIOUS
      <4>6. PICK l \in [Owners -> Nat] : l = Learn(k, rows)
        BY LearnGrows
      <4>7. \A o \in Owners : k[o] <= l[o] /\ (o \in Slice(s, at, limit) => RowOf(s, o) <= l[o])
        BY <4>4, <4>6, LearnGrows
      <4>8. TokenTrue(l, t)
        BY <3>3, <4>1, <4>5, <4>7, PageTrue
      <4>9. result' = [result EXCEPT ![c] = [granted |-> {t}, rows |-> rows]]
        BY <4>2, <4>4, <4>5 DEF Offer
      <4>10. t \in Token
        <5>1. result'[c].granted = {t} /\ result'[c].granted \subseteq Token
          BY <4>9 DEF TypeOK
        <5> QED
          BY <5>1
      <4>11. TokenTrue(l, t)'
        BY <4>8, <4>10, TruthStays
      <4> HIDE DEF next, Offered, Told
      <4> QED
        BY <2>2, <3>1, <3>4, <4>2, <4>4, <4>5, <4>6, <4>10, <4>11 DEF Page
    <3>5. CASE Complete(c)
      <4>1. DomainOf(call[c].op) = "complete"
        BY <3>5 DEF Complete, CallsPresentGivenTokens, OpsAt, DomainOf
      <4>2. PICK n \in Nat : n = snapshots[s].sequence
        BY DEF TypeOK, Snapshot
      <4>3. Cursor("event", s, n) \in Token /\ Nothing.rows \in [Owners -> Nat]
        BY DEF Cursor, Token, Nothing
      <4>4. PICK l \in [Owners -> Nat] : l = Learn(k, Nothing.rows)
        BY <4>3, LearnGrows
      <4>5. RowsKnown(k, s) /\ snapshots[s].state # "none"
        BY <3>3, <4>1 DEF TokenTrue, Cursor
      <4>6. EventsKnown(k, n)
        BY <4>2, <4>5, CompletionTrue
      <4>7. EventsKnown(l, n)
        <5>1. \A o \in Owners : k[o] <= l[o]
          BY <4>3, <4>4, LearnGrows
        <5>2. \A e \in events : e.owner \in Owners /\ e.sequence \in Nat
          BY DEF TypeOK
        <5> QED
          BY <4>6, <5>1, <5>2 DEF EventsKnown
      <4>8. /\ UNCHANGED <<fence, events>> /\ snapshots'[s].state \notin {"none", "open"}
            /\ snapshots'[s].sequence = n
        BY <3>1, <3>5, <4>2, <4>5 DEF Complete, CompleteOpen, TypeOK, Snapshot
      <4>9. n <= fence
        BY <4>2 DEF Bounded
      <4>10. TokenTrue(l, Cursor("event", s, n))'
        BY <4>7, <4>8, <4>9 DEF TokenTrue, Cursor, EventsKnown
      <4> QED
        BY <2>2, <3>1, <3>5, <4>2, <4>3, <4>4, <4>10 DEF Complete
    <3>6. CASE Feed(c)
      <4>1. DomainOf(call[c].op) = "event"
        BY <3>6 DEF Feed, CallsPresentGivenTokens, OpsAt, DomainOf
      <4>2. PICK page \in SUBSET events :
              /\ IsPage(page, {e \in events : e.sequence > at})
              /\ Offer(c, {Cursor("event", s, Through(page, at))}, [o \in Owners |-> LatestIn(page, o)])
        BY <3>1, <3>6 DEF Feed, LatestIn
      <4>3. PICK n \in Nat, rows \in [Owners -> Nat] :
              n = Through(page, at) /\ rows = [o \in Owners |-> LatestIn(page, o)]
        BY PageFacts
      <4>4. PICK l \in [Owners -> Nat] : l = Learn(k, rows)
        BY LearnGrows
      <4>5. \A o \in Owners : k[o] <= l[o] /\ LatestIn(page, o) <= l[o]
        BY <4>3, <4>4, LearnGrows
      <4>6. TokenTrue(l, Cursor("event", s, n))
        BY <3>3, <4>1, <4>2, <4>3, <4>5, FeedTrue
      <4>7. Cursor("event", s, n) \in Token
        BY DEF Cursor, Token
      <4>8. TokenTrue(l, Cursor("event", s, n))'
        BY <4>6, <4>7, TruthStays
      <4> QED
        BY <2>2, <3>1, <3>6, <4>2, <4>3, <4>4, <4>7, <4>8 DEF Feed
    <3> QED
      BY <2>7, <3>4, <3>5, <3>6
  <2>8. CASE Disclose(c)
    <3>1. /\ tokens'[c] = tokens[c] \cup result[c].granted
          /\ known'[c] = Learn(known[c], result[c].rows) /\ result'[c].granted = {}
          /\ \A d \in Consumers \ {c} : UNCHANGED <<tokens[d], known[d], result[d]>>
      BY <2>8 DEF Disclose, Answer, Nothing, TypeOK
    <3>2. ASSUME NEW t \in tokens'[c]
          PROVE  TokenTrue(known[c], t)'
      <4>1. PICK k \in [Owners -> Nat], l \in [Owners -> Nat] :
              k = known[c] /\ l = Learn(known[c], result[c].rows)
        BY <1>1
      <4>2. \A o \in Owners : k[o] <= l[o]
        BY <1>1, <4>1, LearnGrows
      <4>3. t \in Token
        BY <1>1, <3>1
      <4>4. t \in tokens[c] => TokenTrue(k, t)
        BY <4>1 DEF TokensTrue
      <4>5. t \in tokens[c] => TokenTrue(l, t)
        BY <4>2, <4>3, <4>4, TruthGrows
      <4>6. TokenTrue(l, t)
        BY <3>1, <4>1, <4>5 DEF TokensTrue
      <4>7. TokenTrue(l, t)'
        BY <4>3, <4>6, TruthStays
      <4>8. l = known'[c]
        BY <3>1, <4>1
      <4> QED
        BY <4>7, <4>8 DEF TokenTrue, PagesKnown, RowsKnown, EventsKnown
    <3> QED
      BY <1>2, <1>3, <3>1, <3>2 DEF TokensTrue
  <2> QED
    BY <1>5, <2>3, <2>4, <2>5, <2>6, <2>7, <2>8 DEF Step
<1> QED
  BY <1>4, <1>5 DEF Next, Write, ForeignCleanup, vars

-------------------------------------------------------------------------------
\* The invariant is inductive.
LEMMA InvariantStep == IInv /\ [Next]_vars => IInv' /\ StoreGrows
<1> SUFFICES ASSUME IInv, [Next]_vars PROVE IInv' /\ StoreGrows
  OBVIOUS
<1>1. TypeOK /\ Bounded /\ CallsPresentGivenTokens
  BY DEF IInv
<1>2. TypeOK' /\ Bounded' /\ CallsPresentGivenTokens' /\ StoreGrows
  BY <1>1, TypeStep, BoundedStep, CallStep, StoreGrowth
<1>3. TokensTrue'
  BY <1>2, TokensStep
<1> QED
  BY <1>2, <1>3 DEF IInv

\* The inductive invariant holds in every state.
THEOREM InvariantHolds == Spec => []IInv
<1>1. Init => IInv
  BY InvariantInit
<1>2. IInv /\ [Next]_vars => IInv'
  BY InvariantStep
<1> QED
  BY <1>1, <1>2, PTL DEF Spec

\* Every variable keeps to its kind of value, in every behaviour of the consumers
\* and writers of the store.
THEOREM TypeCorrect == Spec => []TypeOK
<1>1. IInv => TypeOK
  BY DEF IInv
<1> QED
  BY <1>1, InvariantHolds, PTL

\* What a consumer has seen by an event cursor (finish, events) lacks no commit of
\* a Case, a Frame or a Namespace, whatever the pages, the interleaving with the
\* writers and the tokens it went back to.
THEOREM CursorsMissNothing == Spec => []CursorsMissNoCommit
<1>1. IInv => CursorsMissNoCommit
  BY DEF IInv, TokensTrue, TokenTrue, EventsKnown, CursorsMissNoCommit
<1> QED
  BY <1>1, InvariantHolds, PTL

\* Who has a completion token (page) was given every row of the snapshot.
THEOREM CompletionIsEarned == Spec => []CompletionFollowsEveryPage
<1>1. IInv => CompletionFollowsEveryPage
  BY DEF IInv, TokensTrue, TokenTrue, RowsKnown, CompletionFollowsEveryPage
<1> QED
  BY <1>1, InvariantHolds, PTL

\* An event cursor is of a snapshot that was completed, and not before its sequence.
THEOREM CursorsFollowSnapshots == Spec => []CursorsStartAtSnapshots
<1>1. IInv => CursorsStartAtSnapshots
  <2> SUFFICES ASSUME IInv, NEW c \in Consumers, NEW t \in tokens[c], t.domain = "event"
               PROVE  /\ snapshots[t.snapshot].state \in {"completed", "expired", "gone"}
                      /\ snapshots[t.snapshot].sequence <= t.at
    BY DEF CursorsStartAtSnapshots
  <2>1. t \in Token /\ TokenTrue(known[c], t)
    BY DEF IInv, TypeOK, TokensTrue
  <2>2. snapshots[t.snapshot] \in Snapshot
    BY <2>1 DEF IInv, TypeOK, Token
  <2> QED
    BY <2>1, <2>2 DEF TokenTrue, Snapshot
<1> QED
  BY <1>1, InvariantHolds, PTL

\* The rows of a snapshot (snapshotRows) stay, those of Profiles excepted.
THEOREM SnapshotsStay == Spec => RowsStay
<1>1. IInv /\ IInv' /\ [Next]_vars => [\A s \in Snapshots : snapshots[s].state # "none" =>
       /\ Rows(s)' \ Profiles = Rows(s) \ Profiles
       /\ \A o \in Rows(s) \ Profiles : RowOf(s, o)' = RowOf(s, o)]_vars
  BY InvariantStep, RowsStayBelow DEF IInv
<1> QED
  BY <1>1, InvariantHolds, PTL DEF Spec, RowsStay

\* A snapshot that expired (cleanup) is not completed by a finish that had found it.
THEOREM ExpiryStays == Spec => ExpiryIsFinal
<1>1. IInv /\ [Next]_vars =>
        [\A s \in Snapshots : /\ snapshots[s].state = "expired" => snapshots'[s].state \in {"expired", "gone"}
                              /\ snapshots[s].state = "gone" => snapshots'[s].state = "gone"]_vars
  <2> SUFFICES ASSUME IInv, Next, NEW s \in Snapshots
               PROVE  /\ snapshots[s].state = "expired" => snapshots'[s].state \in {"expired", "gone"}
                      /\ snapshots[s].state = "gone" => snapshots'[s].state = "gone"
    OBVIOUS
  <2> USE DEF IInv, TypeOK
  <2>1. CASE UNCHANGED snapshots
    BY <2>1
  <2>2. CASE Expire
    BY <2>2 DEF Expire, Expirable, Snapshot
  <2>3. CASE Write
    BY <2>1, <2>3 DEF Write, Commit, Settle, ProfileReads, ProfileWrites
  <2>4. ASSUME NEW c \in Consumers, Step(c)
        PROVE  UNCHANGED snapshots \/ Expire \/ Insert(c) \/ Complete(c)
    BY <2>4 DEF Step, Ask, Cleanup, ReadFence, ReadSequence, CompareScope, FindSnapshot, Page,
                CountRows, CompareLineage, Feed, Disclose, ProfileChanged, CallFails, store
  <2>5. ASSUME NEW c \in Consumers, Insert(c) \/ Complete(c)
        PROVE  /\ snapshots[s].state = "expired" => snapshots'[s].state = "expired"
               /\ snapshots[s].state = "gone" => snapshots'[s].state = "gone"
    BY <2>5, ZenonT(60) DEF Insert, Complete, CompleteOpen, Snapshot
  <2> QED
    BY <2>1, <2>2, <2>3, <2>4, <2>5 DEF Next, ForeignCleanup
<1> QED
  BY <1>1, InvariantHolds, PTL DEF Spec, ExpiryIsFinal
\* A consumer misses nothing, by pages or by events.
THEOREM NothingEverMissed == Spec => []NothingIsMissed
  BY CursorsMissNothing, CompletionIsEarned, PTL DEF NothingIsMissed
===============================================================================
