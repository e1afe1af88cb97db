---------------------------- MODULE Reconciliation ----------------------------
(***************************************************************************)
(* Snapshot reconciliation and the event feed of the successor store: how  *)
(* a consumer learns of every owner by pages of a snapshot, and then       *)
(* follows the events, while clients commit, Profile operations write      *)
(* late, and snapshots expire.                                             *)
(*                                                                         *)
(* A call is a sequence of separate queries; one query is one action.  A   *)
(* consumer can only present tokens that the store signed, and may present *)
(* any that it was given: after a crash it repeats a call with an older    *)
(* one.  Whether the selected Profile still admits the call is decided     *)
(* elsewhere (module SuccessorStore): either outcome is possible here.     *)
(*                                                                         *)
(* Time is left out: any snapshot may have expired by the next cleanup.    *)
(* The retention limit of the feed is left out too: nothing advances it.   *)
(***************************************************************************)
EXTENDS Integers, FiniteSetsExt

CONSTANTS
  Consumers,
  Owners,
  Profiles,      \* the owners that only Profile operations write
  Rank,          \* their order: by kind, then by identity
  Snapshots,     \* snapshot identities
  NoToken,       \* a beginning presents no token
  MaxLimit,      \* bound: the largest page asked for
  MaxFence       \* bound: the last fence that a writer reaches

OperationKinds == {"begin", "page", "finish", "events", "checkpoint"}

ASSUME ReconciliationAssumption ==
  /\ IsFiniteSet(Owners) /\ Profiles \subseteq Owners
  /\ Rank \in [Owners -> Nat]
  /\ MaxLimit \in Nat \ {0} /\ MaxFence \in Nat

VARIABLES
  fence,        \* store_fence.operation_fence
  generation,   \* its hierarchy, placement and resource generations, as one
  events,       \* owner_events: rows [owner, sequence]
  profileSaw,   \* the fence a Profile operation in flight works from, 0 for none
  snapshots,    \* reconciliation_snapshots: [state, sequence, generation]
  pc,           \* where each consumer's call is
  call,         \* the operation and the token presented
  saw,          \* the generation and the sequence a beginning snapshot has read
  result,       \* the tokens and the owners that the call will disclose
  reply,        \* the last answer
  tokens,       \* the tokens each consumer was given
  known         \* the latest commit of each owner that each consumer knows of

store == <<fence, generation, events, profileSaw, snapshots>>
given == <<tokens, known>>
vars  == <<store, pc, call, saw, result, reply, given>>

\* A page cursor is at an offset, a completion token at a count of rows, an event
\* cursor at a commit sequence.  A token also has every field of its snapshot.
Token == [domain: {"page", "complete", "event"}, snapshot: Snapshots, at: Nat]

ASSUME TokenAssumption == NoToken \notin Token

Cursor(d, s, n) == [domain |-> d, snapshot |-> s, at |-> n]

Snapshot == [state: {"none", "open", "completed", "expired", "gone"},
             sequence: Nat, generation: Nat]

Labels == {"idle", "cleanup", "fence", "sequence", "insert", "scope", "record", "rows",
           "count", "complete", "lineage", "feed", "disclose"}

Replies == {"none", "available", "profile_changed", "internal_failure", "snapshot_not_visible",
            "snapshot_expired", "snapshot_incomplete", "event_cursor_stale",
            "event_cursor_invalid"}

NoCall == [op |-> "begin", token |-> NoToken]

NothingSeen == [sequence |-> 0, generation |-> 0]

Nothing == [granted |-> {}, rows |-> [o \in Owners |-> 0]]

-------------------------------------------------------------------------------
\* What the queries compute

\* COALESCE(max(commit_sequence), 0): bootstrap wrote an event of sequence 1, of no owner.
LastSequence == Max({1} \cup {e.sequence : e \in events})

EventsOf(o, q) == {e \in events : e.owner = o /\ e.sequence <= q}

\* snapshotRows: the owners that have an event by the sequence of the snapshot, ...
Rows(s) == {o \in Owners : EventsOf(o, snapshots[s].sequence) # {}}

\* ... and the latest such event of each
RowOf(s, o) == Max({e.sequence : e \in EventsOf(o, snapshots[s].sequence)})

Index(s, o) == Cardinality({x \in Rows(s) : Rank[x] < Rank[o]})

\* rows.slice(offset, offset + limit)
Slice(s, offset, limit) == {o \in Rows(s) : offset <= Index(s, o) /\ Index(s, o) < offset + limit}

\* offset + items.length
NextOffset(s, offset, limit) == Min({offset + limit, Cardinality(Rows(s))})

\* The events after the cursor, in order, up to some limit
IsPage(p, rest) ==
  /\ p \subseteq rest /\ Cardinality(p) <= MaxLimit
  /\ p = {} => rest = {}
  /\ \A e \in p, f \in rest : f.sequence <= e.sequence => f \in p

\* What a consumer knows after it was told of rows.
Learn(k, rows) == [o \in Owners |-> IF k[o] < rows[o] THEN rows[o] ELSE k[o]]

-------------------------------------------------------------------------------
Init ==
  /\ fence = 1 /\ generation = 1
  /\ events = {}
  /\ profileSaw = 0
  /\ snapshots = [s \in Snapshots |-> [state |-> "none", sequence |-> 0, generation |-> 0]]
  /\ pc = [c \in Consumers |-> "idle"]
  /\ call = [c \in Consumers |-> NoCall]
  /\ saw = [c \in Consumers |-> NothingSeen]
  /\ result = [c \in Consumers |-> Nothing]
  /\ reply = [c \in Consumers |-> "none"]
  /\ tokens = [c \in Consumers |-> {}]
  /\ known = [c \in Consumers |-> [o \in Owners |-> 0]]

-------------------------------------------------------------------------------
\* The writers of the store

Add(o, n) == events' = events \cup {[owner |-> o, sequence |-> n]}

\* A commit of a Case, a Frame, a Namespace, ... : the fence is compared and set,
\* and the event takes the next one.  It may move a generation.
NextSequence == fence + 1

Commit(o, moves) ==
  /\ fence < MaxFence
  /\ \A e \in events : e.sequence # NextSequence
  /\ fence' = fence + 1
  /\ generation' = IF moves THEN generation + 1 ELSE generation
  /\ Add(o, NextSequence)
  /\ UNCHANGED <<profileSaw, snapshots>>

\* A rejected commit, or a rebuild: a fence without an event
Settle ==
  /\ fence < MaxFence
  /\ fence' = fence + 1
  /\ UNCHANGED <<generation, events, profileSaw, snapshots>>

\* A Profile operation reads the fence ...
ProfileReads ==
  /\ profileSaw' = fence
  /\ UNCHANGED <<fence, generation, events, snapshots>>

\* ... and writes its event after that, whatever the fence is by then.
ProfileWrites(o) ==
  /\ profileSaw \in 1..(MaxFence - 1)
  /\ \A e \in events : e.sequence # profileSaw + 1
  /\ Add(o, profileSaw + 1)
  /\ fence' = IF fence = profileSaw THEN fence + 1 ELSE fence
  /\ profileSaw' = 0
  /\ UNCHANGED <<generation, snapshots>>

Write ==
  /\ \/ \E o \in Owners \ Profiles, moves \in BOOLEAN : Commit(o, moves)
     \/ Settle
     \/ ProfileReads
     \/ \E o \in Profiles : ProfileWrites(o)
  /\ UNCHANGED <<pc, call, saw, result, reply, given>>

-------------------------------------------------------------------------------
\* How a call moves

Goto(c, label) == pc' = [pc EXCEPT ![c] = label]

Continue(c, label) == Goto(c, label) /\ UNCHANGED <<call, saw, result, reply>>

Offer(c, granted, rows) ==
  /\ Goto(c, "disclose")
  /\ result' = [result EXCEPT ![c] = [granted |-> granted, rows |-> rows]]
  /\ UNCHANGED <<call, saw, reply>>

\* Nothing is left of the call but its answer.
Answer(c, code) ==
  /\ Goto(c, "idle")
  /\ call' = [call EXCEPT ![c] = NoCall]
  /\ saw' = [saw EXCEPT ![c] = NothingSeen]
  /\ result' = [result EXCEPT ![c] = Nothing]
  /\ reply' = [reply EXCEPT ![c] = code]

Of(c) == call[c].token.snapshot
At(c) == call[c].token.at

DomainOf(op) == CASE op = "page"   -> "page"
                  [] op = "finish" -> "complete"
                  [] OTHER         -> "event"

\* A consumer begins, or presents a token it was given.
Ask(c) ==
  /\ pc[c] = "idle"
  /\ \E op \in OperationKinds :
       \/ op = "begin" /\ call' = [call EXCEPT ![c] = [op |-> op, token |-> NoToken]]
       \/ \E t \in tokens[c] :
            /\ op # "begin" /\ t.domain = DomainOf(op)
            /\ call' = [call EXCEPT ![c] = [op |-> op, token |-> t]]
  /\ Goto(c, "cleanup")
  /\ reply' = [reply EXCEPT ![c] = "none"]
  /\ UNCHANGED <<store, saw, result, given>>

\* Every call first expires the snapshots that are due, and removes old ones.
Expirable == {"open", "completed"}

Expire ==
  \E due \in SUBSET {s \in Snapshots : snapshots[s].state \in Expirable},
     old \in SUBSET {s \in Snapshots : snapshots[s].state = "expired"} :
    snapshots' = [s \in Snapshots |->
       IF s \in due THEN [snapshots[s] EXCEPT !.state = "expired"]
       ELSE IF s \in old THEN [snapshots[s] EXCEPT !.state = "gone"] ELSE snapshots[s]]

Cleanup(c) ==
  /\ pc[c] = "cleanup"
  /\ Expire
  /\ Continue(c, CASE call[c].op = "begin"      -> "fence"
                   [] call[c].op = "checkpoint" -> "scope"
                   [] OTHER                     -> "record")
  /\ UNCHANGED <<fence, generation, events, profileSaw, given>>

\* The same step of the call of a consumer that is not followed.
ForeignCleanup ==
  /\ Expire
  /\ UNCHANGED <<fence, generation, events, profileSaw, pc, call, saw, result, reply, given>>

\* begin
ReadFence(c) ==
  /\ pc[c] = "fence"
  /\ saw' = [saw EXCEPT ![c].generation = generation]
  /\ Goto(c, "sequence")
  /\ UNCHANGED <<store, call, result, reply, given>>

ReadSequence(c) ==
  /\ pc[c] = "sequence"
  /\ saw' = [saw EXCEPT ![c].sequence = LastSequence]
  /\ Goto(c, "insert")
  /\ UNCHANGED <<store, call, result, reply, given>>

Insert(c) ==
  /\ pc[c] = "insert"
  /\ \E s \in Snapshots :
       /\ snapshots[s].state = "none"
       /\ snapshots' = [snapshots EXCEPT ![s] =
            [state |-> "open", sequence |-> saw[c].sequence, generation |-> saw[c].generation]]
       /\ Offer(c, {Cursor("page", s, 0)}, Nothing.rows)
  /\ UNCHANGED <<fence, generation, events, profileSaw, given>>

\* checkpoint compares cursor.snapshot_fence, which no event cursor has, with a
\* number; what follows in the code is not reached.
CursorFields == {"domain", "snapshot_id", "store_id", "admission_slot_id", "fence", "sequence",
                 "h", "p", "r", "scope"}

CompareScope(c) ==
  /\ pc[c] = "scope"
  /\ "snapshot_fence" \notin CursorFields
  /\ Answer(c, "event_cursor_invalid")
  /\ UNCHANGED <<store, given>>

\* snapshotRecord compares the sequence of the snapshot with that of the token: an
\* event cursor that has gone on from its snapshot is not of it any more.
OfItsSnapshot(t) == t.domain = "event" => t.at = snapshots[t.snapshot].sequence

\* snapshotRecord, and the state that events require
FindSnapshot(c) ==
  LET state == snapshots[Of(c)].state IN
  /\ pc[c] = "record"
  /\ \/ state = "gone" /\ Answer(c, "snapshot_not_visible")
     \/ state = "expired" /\ Answer(c, "snapshot_expired")
     \/ /\ state \in {"open", "completed"}
        /\ \/ ~OfItsSnapshot(call[c].token) /\ Answer(c, "snapshot_not_visible")
           \/ /\ OfItsSnapshot(call[c].token)
              /\ IF state = "open" /\ call[c].op = "events"
                 THEN Answer(c, "snapshot_incomplete")
                 ELSE Continue(c, CASE call[c].op = "page"   -> "rows"
                                    [] call[c].op = "finish" -> "count"
                                    [] OTHER                 -> "lineage")
  /\ UNCHANGED <<store, given>>

\* page: a completion token comes with the last page only.  The rows never become
\* fewer, so that the offset is never beyond them.
Page(c) ==
  LET s == Of(c) IN
  /\ pc[c] = "rows"
  /\ \E limit \in 1..MaxLimit :
       LET next == NextOffset(s, At(c), limit) IN
       Offer(c, {IF next < Cardinality(Rows(s)) THEN Cursor("page", s, next)
                                                ELSE Cursor("complete", s, Cardinality(Rows(s)))},
             [o \in Owners |-> IF o \in Slice(s, At(c), limit) THEN RowOf(s, o) ELSE 0])
  /\ UNCHANGED <<store, given>>

\* finish: the count in the token is the count of rows, again.
CountRows(c) ==
  /\ pc[c] = "count"
  /\ IF At(c) = Cardinality(Rows(Of(c))) THEN Continue(c, "complete")
                                         ELSE Answer(c, "snapshot_incomplete")
  /\ UNCHANGED <<store, given>>

\* UPDATE ... SET state='completed' WHERE ... AND state='open'
CompleteOpen(s) == [snapshots EXCEPT ![s].state = IF @ = "open" THEN "completed" ELSE @]

Complete(c) ==
  /\ pc[c] = "complete"
  /\ snapshots' = CompleteOpen(Of(c))
  /\ Offer(c, {Cursor("event", Of(c), snapshots[Of(c)].sequence)}, Nothing.rows)
  /\ UNCHANGED <<fence, generation, events, profileSaw, given>>

\* events
CompareLineage(c) ==
  /\ pc[c] = "lineage"
  /\ IF snapshots[Of(c)].generation = generation THEN Continue(c, "feed")
                                                 ELSE Answer(c, "event_cursor_stale")
  /\ UNCHANGED <<store, given>>

ToLatest(page, from) == Max({from, LastSequence})   \* mutant: skips what the limit cut off

\* page.at(-1)?.commit_sequence ?? after.sequence
Through(page, from) == Max({from} \cup {e.sequence : e \in page})

Feed(c) ==
  /\ pc[c] = "feed"
  /\ \E page \in SUBSET {e \in events : e.sequence > At(c)} :
       /\ IsPage(page, {e \in events : e.sequence > At(c)})
       /\ Offer(c, {Cursor("event", Of(c), Through(page, At(c)))},
                [o \in Owners |-> Max({0} \cup {e.sequence : e \in {f \in page : f.owner = o}})])
  /\ UNCHANGED <<store, given>>

-------------------------------------------------------------------------------
\* The answer, if the Profile still admits it, and failures

Disclose(c) ==
  /\ pc[c] = "disclose"
  /\ tokens' = [tokens EXCEPT ![c] = @ \cup result[c].granted]
  /\ known' = [known EXCEPT ![c] = Learn(@, result[c].rows)]
  /\ Answer(c, "available")
  /\ UNCHANGED store

ProfileChanged(c) ==
  /\ pc[c] \in {"cleanup", "disclose"}
  /\ Answer(c, "profile_changed")
  /\ UNCHANGED <<store, given>>

\* A query throws, or the consumer stops before it has the answer.
CallFails(c) ==
  /\ pc[c] # "idle"
  /\ Answer(c, "internal_failure")
  /\ UNCHANGED <<store, given>>

Step(c) ==
  \/ Ask(c) \/ Cleanup(c) \/ ReadFence(c) \/ ReadSequence(c) \/ Insert(c) \/ CompareScope(c)
  \/ FindSnapshot(c) \/ Page(c) \/ CountRows(c) \/ Complete(c) \/ CompareLineage(c) \/ Feed(c)
  \/ Disclose(c) \/ ProfileChanged(c) \/ CallFails(c)

Next == Write \/ ForeignCleanup \/ \E c \in Consumers : Step(c)

Spec == Init /\ [][Next]_vars

-------------------------------------------------------------------------------
\* Properties

\* Every variable keeps to its kind of value: rows, tokens and answers are those
\* of the schema and of snapshot-reconcile.mjs.
TypeOK ==
  /\ fence \in Nat /\ generation \in Nat /\ profileSaw \in Nat
  /\ events \subseteq [owner: Owners, sequence: Nat]
  /\ snapshots \in [Snapshots -> Snapshot]
  /\ pc \in [Consumers -> Labels]
  /\ call \in [Consumers -> [op: OperationKinds, token: Token \cup {NoToken}]]
  /\ saw \in [Consumers -> [sequence: Nat, generation: Nat]]
  /\ result \in [Consumers -> [granted: SUBSET Token, rows: [Owners -> Nat]]]
  /\ reply \in [Consumers -> Replies]
  /\ tokens \in [Consumers -> SUBSET Token]
  /\ known \in [Consumers -> [Owners -> Nat]]

\* What a consumer has seen by an event cursor lacks no commit: of every Case,
\* Frame or Namespace that changed up to the cursor, by pages or by events, the
\* consumer knows that change or a later one (snapshotReconcile: events.page after
\* begin, page, finish, with commits between any two queries).
CursorsMissNoCommit ==
  \A c \in Consumers : \A t \in tokens[c] : t.domain = "event" =>
    \A e \in events : e.owner \notin Profiles /\ e.sequence <= t.at
                        => e.sequence <= known[c][e.owner]

\* A completion token is only in the hands of a consumer that was given every page
\* of the snapshot, although each page recomputes its rows (page, snapshotRows).
CompletionFollowsEveryPage ==
  \A c \in Consumers : \A t \in tokens[c] : t.domain = "complete" =>
    \A o \in Rows(t.snapshot) \ Profiles : RowOf(t.snapshot, o) <= known[c][o]

\* A consumer misses nothing: not by the pages of a snapshot, nor by the events after them
\* (snapshotReconcile).
NothingIsMissed == CursorsMissNoCommit /\ CompletionFollowsEveryPage

\* A snapshot stays what it was: no commit adds a row to it or changes one (begin
\* reads the sequence, the pages read the rows, all at different times).
RowsStay ==
  [][\A s \in Snapshots : snapshots[s].state # "none" =>
       /\ Rows(s)' \ Profiles = Rows(s) \ Profiles
       /\ \A o \in Rows(s) \ Profiles : RowOf(s, o)' = RowOf(s, o)]_vars

\* A snapshot that expired stays expired, even when the finish of another call was
\* already past its check (finish, cleanup).
ExpiryIsFinal ==
  [][\A s \in Snapshots : /\ snapshots[s].state = "expired" => snapshots'[s].state \in {"expired", "gone"}
                          /\ snapshots[s].state = "gone" => snapshots'[s].state = "gone"]_vars

\* The feed is open only after a completed reconciliation: who holds an event
\* cursor has, for the sequence of its snapshot, seen everything committed.
\* (events: "Event delivery requires an exact completed snapshot.")
CursorsStartAtSnapshots ==
  \A c \in Consumers : \A t \in tokens[c] : t.domain = "event" =>
    /\ snapshots[t.snapshot].state \in {"completed", "expired", "gone"}
    /\ snapshots[t.snapshot].sequence <= t.at

\* The cursor that a page of events comes with continues the feed: it is not refused
\* as that of another snapshot ("delivery_semantics: at_least_once", events).
FeedContinues ==
  [][\A c \in Consumers :
       pc[c] = "record" /\ call[c].op = "events" /\ snapshots[Of(c)].state = "completed"
         => reply'[c] # "snapshot_not_visible"]_vars
===============================================================================
