------------------------------- MODULE LeaderKeys -------------------------------
(***************************************************************************)
(* pi-keysmith: the leader sequences of one editor and the bindings they   *)
(* spell.  The leader key opens a sequence; each further key descends in a *)
(* trie of bindings, dispatches an action or abandons the sequence.  One   *)
(* timer ends a sequence that stalls; another shows a panel of the keys    *)
(* that could follow, which stays until it is used or dismissed.  Keys     *)
(* that no sequence takes go to the editor below, a modal one.             *)
(*                                                                         *)
(* Other extensions register actions, default keymaps and shims at any     *)
(* time; the runtime of the session follows the registry by rebuilding its *)
(* handlers and the children of the root of its trie, in place, while      *)
(* nodes of the former trie may still be held by an open sequence.         *)
(*                                                                         *)
(* A binding is a sequence of keys, an action and whether it is explicit,  *)
(* the user's or a project's, or a default.  A trie maps the sequences of  *)
(* its nodes to their actions, or to Group.                                *)
(***************************************************************************)
EXTENDS Integers, FiniteSets, SequencesExt

CONSTANTS
  Leader, Esc, Keys,    \* the leader, escape, and the other keys
  Actions, BuiltIns,    \* action ids, and those that the runtime registers itself
  Configured,           \* the bindings of the effective configuration
  Keymaps, Shims,       \* what extensions can register ...
  Bindings,             \* ... the default bindings of each of them
  Provided,             \* ... and the actions of each shim
  Holders,              \* bound: registrations of one shim
  Group, None

VARIABLES
  registered, keymaps, holders,   \* the registry: actions, keymaps, shims' reference counts
  phase,                          \* of the session: "off", "loading" its configuration, "on"
  handlers, trie,                 \* of the runtime: actions it can run, the trie below its root
  leader,                         \* MinimalLeaderState
  mode, suggesting,               \* of the editor: its mode, whether it shows completions
  typed, seen,  \* history: the keys that led to the current node, the tries in force meanwhile
  fired         \* history: what the last key dispatched

registry == <<registered, keymaps, holders>>
runtime  == <<handlers, trie>>
editor   == <<mode, suggesting>>
history  == <<typed, seen, fired>>
vars     == <<registry, phase, runtime, leader, editor, history>>

-----------------------------------------------------------------------------
(* Bindings and tries *)

\* What a registry with these keymaps and shims adds to the configured bindings
Mounted(maps, held) == {s \in Keymaps \cup Shims : s \in maps \/ (s \in Shims /\ held[s] > 0)}

Specs(maps, held) ==
  {[seq |-> b.seq, act |-> b.act, explicit |-> b.explicit, from |-> "config"] : b \in Configured}
    \cup UNION {{[seq |-> b.seq, act |-> b.act, explicit |-> FALSE, from |-> s] : b \in Bindings[s]} :
                  s \in Mounted(maps, held)}

\* Of the bindings of one sequence the only one is kept, else the explicit one, else none
Kept(specs) ==
  {b \in specs : \A c \in specs \ {b} : c.seq = b.seq => b.explicit /\ ~c.explicit}

\* No action has two sequences, or stands on the way to another
Unambiguous(specs) ==
  \A b, c \in specs : b # c => b.act # c.act /\ ~IsStrictPrefix(b.seq, c.seq)

\* One set of bindings that cannot be a trie is no trie at all
Built(specs) ==
  IF ~Unambiguous(specs) THEN <<>>
  ELSE LET paths == UNION {{SubSeq(b.seq, 1, n) : n \in 1..Len(b.seq)} : b \in specs}
       IN [p \in paths |-> IF \E b \in specs : b.seq = p
                           THEN (CHOOSE b \in specs : b.seq = p).act ELSE Group]

DispatchTrie(maps, held) == Built(Kept(Specs(maps, held)))

Snapshot(acts, held) == acts \cup UNION {Provided[s] : s \in {t \in Shims : held[t] > 0}}

-----------------------------------------------------------------------------
(* Nodes and the leader's state.  A node is where it is in the trie that it *)
(* was found in; the root is one object, whose children are replaced.       *)

Root == [of |-> <<>>, at |-> <<>>]

ChildrenOf(n) == IF n = Root THEN trie ELSE n.of

\* The child of n under key k, as a set of at most one
Child(n, k) ==
  LET at == Append(n.at, k)
  IN {[of |-> ChildrenOf(n), at |-> p] : p \in DOMAIN ChildrenOf(n) \cap {at}}

ActionAt(n) == n.of[n.at]

\* The tries that a registry may give, and the nodes that are found in them
Tries == {DispatchTrie(maps, held) : maps \in SUBSET Keymaps, held \in [Shims -> 0..Holders]}
Nodes == {Root} \cup UNION {{[of |-> t, at |-> p] : p \in DOMAIN t} : t \in Tries}

\* The leader and escape are keys of their own, a configuration binds a sequence once, and no
\* node is none.
KeysConstants ==
  /\ Leader \notin Keys /\ Esc \notin Keys /\ Leader # Esc
  /\ BuiltIns \subseteq Actions /\ Provided \in [Shims -> SUBSET Actions]
  /\ \A b, c \in Configured : b.seq = c.seq => b = c
  /\ Group \notin Actions /\ Holders \in Nat /\ None \notin Nodes

Idle == [pending |-> FALSE, node |-> None, path |-> <<>>, timeout |-> FALSE, timer |-> None, panel |-> None]

\* The sequence has come to the last node of path: both timers start over
At(path) ==
  [leader EXCEPT !.pending = TRUE, !.node = Last(path), !.path = path,
                 !.timeout = TRUE, !.timer = Last(path)]

Open == leader.pending \/ leader.panel # None

Clear == leader' = Idle /\ typed' = <<>> /\ seen' = {} /\ fired' = None

-----------------------------------------------------------------------------
Init ==
  /\ registered = {} /\ keymaps = {} /\ holders = [s \in Shims |-> 0]
  /\ phase = "off" /\ handlers = {} /\ trie = <<>>
  /\ leader = Idle /\ mode = "normal" /\ suggesting = FALSE
  /\ typed = <<>> /\ seen = {} /\ fired = None

-----------------------------------------------------------------------------
(* Keys *)

\* The wrapper has been given key k.  Out of context it stops a sequence, and takes none up
Active == mode = "normal"

\* The editor below takes the key: it may change its mode and begin or end to suggest
Delegate ==
  /\ mode' \in {"normal", "insert"} /\ suggesting' \in BOOLEAN
  /\ UNCHANGED <<registry, phase, runtime>>

PressDeclined(k) ==
  /\ phase = "on"
  /\ suggesting \/ (~Active /\ (leader.pending \/ k = Leader))
  /\ Clear /\ Delegate

Heard(k) ==
  /\ phase = "on" /\ ~suggesting
  /\ Active \/ (~leader.pending /\ k # Leader)

Taken == UNCHANGED <<registry, phase, runtime, editor>>

\* A submenu that is shown can be left for the menu above
CanBackOut ==
  /\ leader.panel # None /\ leader.node # None
  /\ leader.panel = leader.node /\ Len(leader.path) > 1

\* A mistaken BackOut: the submenu stays current behind the panel of the menu above
BackOutPanel ==
  /\ Heard(Esc) /\ CanBackOut
  /\ LET path == Front(leader.path)
     IN leader' = [At(path) EXCEPT !.timer = None, !.panel = Last(path), !.node = leader.node]
  /\ typed' = Front(typed) /\ fired' = None /\ UNCHANGED seen
  /\ Taken

BackOut ==
  /\ Heard(Esc) /\ CanBackOut
  /\ LET path == Front(leader.path)
     IN leader' = [At(path) EXCEPT !.timer = None, !.panel = Last(path)]
  /\ typed' = Front(typed) /\ fired' = None /\ UNCHANGED seen
  /\ Taken

Cancel ==
  /\ Heard(Esc) /\ ~CanBackOut /\ Open
  /\ Clear /\ Taken

\* The key that may follow: of a pending sequence, or of a panel that outlived its sequence
Follows(k) ==
  /\ Heard(k) /\ k # Esc /\ leader.node # None
  /\ leader.pending \/ leader.panel # None
  /\ Child(leader.node, k) # {}

Descend(k) ==
  /\ Follows(k)
  /\ \E n \in Child(leader.node, k) :
       ActionAt(n) = Group /\ leader' = At(Append(leader.path, n))
  /\ typed' = Append(typed, k) /\ fired' = None /\ UNCHANGED seen
  /\ Taken

\* The state is cleared, then the runtime looks the action up and runs its handler, or
\* says that there is none
Dispatch(k) ==
  /\ Follows(k)
  /\ \E n \in Child(leader.node, k) :
       /\ ActionAt(n) # Group
       /\ fired' = [act |-> ActionAt(n), ran |-> ActionAt(n) \in handlers, keys |-> Append(typed, k)]
  /\ leader' = Idle /\ typed' = <<>> /\ seen' = {}
  /\ Taken

\* Any other key abandons the sequence; with only the panel left, the leader reopens instead
Stray(k) ==
  /\ Heard(k) /\ k # Esc /\ ~Follows(k)
  /\ leader.pending \/ (leader.panel # None /\ leader.node # None /\ k # Leader)
  /\ Clear /\ Taken

Start ==
  /\ Heard(Leader) /\ ~leader.pending /\ ~Follows(Leader)
  /\ leader' = At(<<Root>>)
  /\ typed' = <<>> /\ seen' = {trie} /\ fired' = None
  /\ Taken

PassOn(k) ==
  /\ Heard(k) /\ k # Leader /\ ~leader.pending
  /\ leader.panel = None \/ (leader.node = None /\ k # Esc)
  /\ fired' = None /\ UNCHANGED <<leader, typed, seen>>
  /\ Delegate

Press(k) ==
  \/ PressDeclined(k) \/ Descend(k) \/ Dispatch(k) \/ Stray(k) \/ PassOn(k)
  \/ (k = Esc /\ (BackOut \/ Cancel))
  \/ (k = Leader /\ Start)

\* Completions arrive by themselves
Suggest ==
  /\ ~suggesting /\ suggesting' = TRUE
  /\ UNCHANGED <<registry, phase, runtime, leader, mode, history>>

-----------------------------------------------------------------------------
(* Timers *)

\* A mistaken ExpireSequence: a sequence whose panel is shown stays pending
ExpireUnseen ==
  /\ leader.timeout
  /\ leader' = IF leader.panel = None
               THEN [leader EXCEPT !.pending = FALSE, !.timeout = FALSE, !.node = None, !.timer = None]
               ELSE [leader EXCEPT !.timeout = FALSE]
  /\ fired' = None
  /\ UNCHANGED <<registry, phase, runtime, editor, typed, seen>>

\* expireSequence: the panel, if there is one, keeps the node
ExpireSequence ==
  /\ leader.timeout
  /\ leader' = IF leader.panel = None
               THEN [leader EXCEPT !.pending = FALSE, !.timeout = FALSE, !.node = None, !.timer = None]
               ELSE [leader EXCEPT !.pending = FALSE, !.timeout = FALSE]
  /\ fired' = None
  /\ UNCHANGED <<registry, phase, runtime, editor, typed, seen>>

ShowWhichKey ==
  /\ leader.timer # None
  /\ leader' = IF leader.node = leader.timer /\ Open
               THEN [leader EXCEPT !.timer = None, !.panel = leader.timer]
               ELSE [leader EXCEPT !.timer = None]
  /\ fired' = None
  /\ UNCHANGED <<registry, phase, runtime, editor, typed, seen>>

-----------------------------------------------------------------------------
(* The registry, and the runtime that follows it *)

\* rebuildSdkState, by the subscription of a runtime that is on
Notify(acts, maps, held) ==
  /\ registered' = acts /\ keymaps' = maps /\ holders' = held
  /\ IF phase = "on"
     THEN /\ handlers' = Snapshot(acts, held)
          /\ trie' = DispatchTrie(maps, held)
          /\ seen' = IF Open THEN seen \cup {DispatchTrie(maps, held)} ELSE seen
     ELSE UNCHANGED <<handlers, trie, seen>>
  /\ fired' = None /\ UNCHANGED <<phase, leader, editor, typed>>

\* A second registration of an id is refused
RegisterAction(a) == a \notin registered /\ Notify(registered \cup {a}, keymaps, holders)

DisposeAction(a) == a \in registered \ BuiltIns /\ Notify(registered \ {a}, keymaps, holders)

RegisterKeymap(m) == m \notin keymaps /\ Notify(registered, keymaps \cup {m}, holders)

DisposeKeymap(m) == m \in keymaps /\ Notify(registered, keymaps \ {m}, holders)

\* Only the first registration of a shim and the last disposal notify
RegisterShim(s) ==
  /\ holders[s] < Holders
  /\ LET held == [holders EXCEPT ![s] = @ + 1]
     IN IF holders[s] = 0 THEN Notify(registered, keymaps, held)
        ELSE /\ holders' = held /\ fired' = None
             /\ UNCHANGED <<registered, keymaps, phase, runtime, leader, editor, typed, seen>>

DisposeShim(s) ==
  /\ holders[s] > 0
  /\ LET held == [holders EXCEPT ![s] = @ - 1]
     IN IF holders[s] = 1 THEN Notify(registered, keymaps, held)
        ELSE /\ holders' = held /\ fired' = None
             /\ UNCHANGED <<registered, keymaps, phase, runtime, leader, editor, typed, seen>>

-----------------------------------------------------------------------------
(* The session.  The runtime of a former one is shut down first: its wrapper *)
(* is disposed and the editor takes its own keys again.                      *)

Shutdown(next) ==
  /\ phase' = next /\ handlers' = {} /\ trie' = <<>>
  /\ Clear /\ UNCHANGED <<registry, editor>>

SessionStart == phase \in {"off", "on"} /\ Shutdown("loading")

\* The configuration is there: a new runtime registers the built-in actions, subscribes,
\* builds its trie and wraps the editor
Started ==
  /\ phase = "loading" /\ phase' = "on"
  /\ registered' = registered \cup BuiltIns
  /\ handlers' = Snapshot(registered \cup BuiltIns, holders)
  /\ trie' = DispatchTrie(keymaps, holders)
  /\ fired' = None
  /\ UNCHANGED <<keymaps, holders, leader, editor, typed, seen>>

SessionShutdown == phase = "on" /\ Shutdown("off")

\* The editor has the keys to itself
PressUnwrapped == phase # "on" /\ Delegate /\ UNCHANGED <<leader, history>>

-----------------------------------------------------------------------------
Registration ==
  \/ \E a \in Actions : RegisterAction(a) \/ DisposeAction(a)
  \/ \E m \in Keymaps : RegisterKeymap(m) \/ DisposeKeymap(m)
  \/ \E s \in Shims : RegisterShim(s) \/ DisposeShim(s)

Pressing == \E k \in Keys \cup {Leader, Esc} : Press(k)

Next ==
  \/ Pressing \/ PressUnwrapped \/ Suggest
  \/ ExpireSequence \/ ShowWhichKey
  \/ Registration
  \/ SessionStart \/ Started \/ SessionShutdown

\* An armed timer fires
Spec == Init /\ [][Next]_vars /\ WF_vars(ExpireSequence) /\ WF_vars(ShowWhichKey)

-----------------------------------------------------------------------------
(* Properties *)

\* The parts of the leader's state, which handleInput, both timers, a rebuild and a
\* shutdown change one by one, stay in step: the timeout is armed while a sequence is
\* pending, the panel's timer only for the current node, the current node ends the path
\* that Esc walks back and exists as long as there is a panel, and outside a session
\* nothing is armed or shown.
NothingIsLeftOver ==
  /\ leader.timeout = leader.pending
  /\ leader.timer # None => leader.timer = leader.node /\ Open
  /\ leader.panel # None => leader.node # None
  /\ leader.node # None => Open /\ leader.path # <<>> /\ Last(leader.path) = leader.node
  /\ phase # "on" => leader = Idle

\* Keys are captured in normal mode only: a sequence or a panel, which outlives its
\* sequence, never meets an insert-mode editor, although the wrapper tests the mode only
\* when a sequence is pending or the leader is pressed and although the editor may change
\* its mode with any key that it is given.
CapturesInContext == Open => Active

\* What is dispatched is what the keys since the leader spell, those that Esc took back
\* left out, in one of the tries that were in force since then; the trie may have been
\* rebuilt below an open sequence.
SpellsWhatItRuns ==
  [][fired' # fired /\ fired' # None =>
       \E t \in seen : fired'.keys \in DOMAIN t /\ t[fired'.keys] = fired'.act]_vars

\* A running session has the handlers and the bindings of the registry as it is, however
\* registrations, disposals and counted holders of one shim followed each other, before or
\* after it began.
RegistryIsFollowed ==
  phase = "on" => handlers = Snapshot(registered, holders) /\ trie = DispatchTrie(keymaps, holders)

\* Keys mean what they say: they are captured in context only, run what they spell, and the
\* session that they are pressed in has the bindings of the registry (index.ts:120-170).
KeysAreFaithful == []CapturesInContext /\ []RegistryIsFollowed /\ SpellsWhatItRuns

\* A sequence does not stay pending unless keys keep coming: the timeout ends it.
SequencesEnd == []<>(~leader.pending) \/ []<><<Pressing>>_vars

\* A panel that shows another menu than the current one, after a key or a second leader,
\* comes to show the current one or is gone.
PanelCatchesUp == leader.panel # None ~> leader.panel \in {None, leader.node}

\* Both timers of the leader serve: what waits for a key is given up, and what is shown is
\* brought up to date (leader.ts: the sequence timeout and the which-key delay).
TimersServe == SequencesEnd /\ PanelCatchesUp

\* README: "Explicit user/project bindings win over defaults."
ExplicitBindingsWin ==
  phase = "on" => \A b \in Configured : b.explicit => b.seq \in DOMAIN trie /\ trie[b.seq] = b.act
===============================================================================
