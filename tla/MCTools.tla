-------------------------------- MODULE MCTools --------------------------------
\* The programs beside the stores, in one of four parts that have nothing in common, which
\* is chosen at the start.  Implementation admission by the Steward (StewardAdmission): two
\* calls submit the same envelope, one another, and one recovers the correlation they compete
\* for.  Paired agents (PairedAgents): a call in either mode, or an offline harness, beside
\* another call that may begin in the same millisecond.  Their bus (PairBus): three clients,
\* one of which publishes twice.  The installer (AgentsOs): two checkouts that share the
\* directories of two targets.
EXTENDS Tools, TLC

CONSTANTS c1, c2, c3, c4, e1, e2, k1, k2,          \* calls or clients, envelopes, correlations
          one, two, m1,                            \* paired runs, and when they begin
          main, tree, skill, validator             \* checkouts, a skill and an agent

VARIABLE part

submissions == <<admissions, sent, decided, calling, correlation, heard, answer>>
pairs       == <<run, files, index, faults>>
bus         == <<status, published, up, down, kept, buffer, received, emitted, since>>

MCWork == (c1 :> e1) @@ (c2 :> e1) @@ (c3 :> e2) @@ (c4 :> k1)

OfTheFirst ==
  [calls   |-> [mode: {"research", "implementation"}, stamp: {m1}],
   texts   |-> [research |-> {{}, {"uncertain", "cited"}, {"number"}},
                implementation |-> {{"done", "tests", "claimed"}, {"files"}}],
   advice  |-> {"noop", "note", "steer", "block", "approve"},
   offline |-> {[harness |-> "research", turns |-> <<{"low_value"}, {"oauth", "compared", "final"}>>],
                [harness |-> "implementation", turns |-> <<{}, {"changed", "elsewhere"}>>],
                [harness |-> "tdd", turns |-> <<{"red"}, {"green", "production", "commands"}>>],
                [harness |-> "tdd", turns |-> <<{"production"}, {"refactor", "weakened"}>>]}]

OfTheSecond ==
  [calls   |-> [mode: {"research"}, stamp: {m1}],
   texts   |-> [research |-> {{"number"}}, implementation |-> {}],
   advice  |-> {"escalate"}, offline |-> {}]

MCOffered == (one :> OfTheFirst) @@ (two :> OfTheSecond)

MCMessages == (c1 :> 2) @@ (c2 :> 1) @@ (c3 :> 0)

MCTargets  == <<"opencode", "claude">>
MCGiven    == {"opencode", "claude"}
MCListed   == ("opencode" :> {validator}) @@ ("claude" :> Absent)
MCExcluded == ("opencode" :> {}) @@ ("claude" :> {})
MCProfiles ==
  {[tools |-> {"read", "bash", "grep", "find", "ls"}, disallowed |-> {"write", "edit", "notebookedit"}]}

\* The checkouts are alike.
MCSymmetry == Permutations({main, tree})

allVars == <<part, submissions, pairs, bus, avars>>

ToolsInit ==
  part \in {"admission", "pairs", "bus", "links"} /\ A!Init /\ P!Init /\ W!Init /\ Init

ToolsNext ==
  \/ part = "admission" /\ A!Next /\ UNCHANGED <<part, pairs, bus, avars>>
  \/ part = "pairs" /\ P!Next /\ UNCHANGED <<part, submissions, bus, avars>>
  \/ part = "bus" /\ W!Next /\ UNCHANGED <<part, submissions, pairs, avars>>
  \/ part = "links" /\ Next /\ UNCHANGED <<part, submissions, pairs, bus>>

ToolsSpec == ToolsInit /\ [][ToolsNext]_allVars
===============================================================================
