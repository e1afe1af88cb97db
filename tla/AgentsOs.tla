-------------------------------- MODULE AgentsOs --------------------------------
(***************************************************************************)
(* scripts/agents-os.mjs sync: for each target, the sources of a checkout  *)
(* are rendered into its generated tree, and links to what was generated   *)
(* are kept in the directories that the target reads.  A link to any       *)
(* checkout's generated tree is owned; whatever else is there belongs to    *)
(* the user.  Two checkouts share those directories, people edit them and  *)
(* the sources, and a sync may be killed between any two of its calls.     *)
(*                                                                         *)
(* A source is its version.  Skills are linked as directories and agents   *)
(* as files; commands are installed like agents.                           *)
(***************************************************************************)
EXTENDS Naturals, Sequences, FiniteSets

CONSTANTS
  Roots,       \* checkouts
  Targets,     \* sequence of harnesses
  Skills,      \* their names
  Agents,      \* theirs; the profile of one of them is checked by doctor
  WithAgents,  \* targets that are given agents
  Listed,      \* of those, the agents that the configuration lists for them, or Absent: all
  Excluded,    \* the skills that a target is not given: [target -> set of skills]
  Retired,     \* skills whose links are removed whatever they lead to
  Profiles,    \* what the checked agent may say: [tools, disallowed]
  Absent,      \* nothing there
  Unmanaged,   \* a file of the user, or a link to elsewhere
  AtRest,      \* whether people touch the installed directories only while no sync runs
  MaxEdits,    \* bound: changes by people
  MaxSyncs,    \* bound: invocations
  MaxKills     \* bound: of them killed

VARIABLES
  source,        \* of each checkout: [names, version]
  generated,     \* of each checkout and target: [version, digest] of a name, or Absent
  instructions,  \* of each checkout and target: the version of AGENTS.md that was generated
  installed,     \* in each target's directories: a link [root |-> r], Unmanaged, or Absent
  global,        \* of each target: the version of its global instructions, and whose
  profile,       \* what the checked agent says
  sync,          \* of each checkout, its invocation
  calm,          \* history: nothing else has happened since the sync of a checkout began
  edits, syncs, kills

avars == <<source, generated, instructions, installed, global, profile, sync, calm, edits, syncs, kills>>
disk  == <<source, generated, instructions, installed, global, profile>>
count == <<calm, edits, syncs, kills>>

Names == Skills \cup Agents
T     == {Targets[i] : i \in DOMAIN Targets}
Kinds == <<"skills", "agents">>
Of(kind) == IF kind = "skills" THEN Skills ELSE Agents

Idle == [at |-> "idle", target |-> 1, kind |-> 1, todo |-> {}, name |-> Absent]

Init ==
  /\ source = [r \in Roots |-> [names |-> Names, version |-> 1]]
  /\ generated = [r \in Roots |-> [t \in T |-> [n \in Names |-> Absent]]]
  /\ instructions = [r \in Roots |-> [t \in T |-> 0]]
  /\ installed = [t \in T |-> [n \in Names |-> Absent]] /\ global = [t \in T |-> Absent]
  /\ profile \in Profiles /\ sync = [r \in Roots |-> Idle]
  /\ calm = [r \in Roots |-> FALSE] /\ edits = 0 /\ syncs = 0 /\ kills = 0

-------------------------------------------------------------------------------
(* What is rendered *)

\* filesUnder, excludedSkills, generateAgents
Given(t, names) == ((names \cap Skills) \ Excluded[t]) \cup (IF t \in WithAgents THEN names \cap Agents ELSE {})

Writing == {"write", "edit", "notebookedit"}

\* What is generated of a name, what can be at it in a target's directories, and what the
\* global instructions of a target can be
Rendering == [version : Nat, digest : {"source", "generated"}]
Links     == [root : Roots]
Globals   == [root : Roots, version : Nat]

\* A harness is named once, what is listed and excluded are agents and skills, and what is not
\* there is none of the things that are; the checked agent may read and run commands, find and
\* search, and may write nothing (src/agents/focused-validator.md).
SyncConstants ==
  /\ Len(Targets) \in Nat \ {0} /\ DOMAIN Targets = 1..Len(Targets) /\ {MaxEdits, MaxSyncs, MaxKills} \subseteq Nat
  /\ \A i, j \in DOMAIN Targets : Targets[i] = Targets[j] => i = j
  /\ Skills \cap Agents = {} /\ WithAgents \subseteq T
  /\ \A t \in T : Listed[t] = Absent \/ Listed[t] \subseteq Agents
  /\ Absent # Unmanaged /\ {Absent, Unmanaged} \cap Links = {}
  /\ Absent \notin Rendering /\ Absent \notin Globals
  /\ \A p \in Profiles : /\ {"read", "bash", "grep"} \subseteq p.tools /\ p.tools \cap {"glob", "find"} # {}
                         /\ Writing \subseteq p.disallowed

\* declaredTools
Declared(p) == IF p.disallowed \cap Writing # {} THEN p.tools \ Writing ELSE p.tools

\* renderOpenCodeTools: what is granted and what is denied by name
OpenCodeGrants(p) ==
  LET d == Declared(p)
      blocks == p.disallowed \cap Writing # {}
  IN {"skill"} \cup (d \cap {"read", "grep", "bash"})
       \cup (IF d \cap {"glob", "find"} # {} THEN {"glob"} ELSE {})
       \cup (IF ~blocks /\ d \cap {"write", "edit"} # {} THEN {"edit"} ELSE {})
OpenCodeDenies(p) ==
  ({"read", "glob", "grep", "bash", "edit"} \ OpenCodeGrants(p))
    \cup (IF p.disallowed \cap Writing # {} THEN {"task", "webfetch", "todowrite"} ELSE {})

\* renderClaudeAgentFields: the tools are renamed, and what is disallowed stays so.
ClaudeName(tool) == IF tool \in {"glob", "find", "ls"} THEN "glob" ELSE IF tool = "task" THEN "agent" ELSE tool
ClaudeTools(p)   == {ClaudeName(tool) : tool \in p.tools}
ClaudeDenies(p)  == {ClaudeName(tool) : tool \in p.disallowed}

-------------------------------------------------------------------------------
(* The steps of one sync *)

Target(r) == Targets[sync[r].target]
Kind(r)   == Kinds[sync[r].kind]
At(r, label) == sync[r].at = label
Go(r, label) == sync' = [sync EXCEPT ![r].at = label]

Running(r) == ~(sync[r].at \in {"idle", "done", "failed"})

\* An error that nothing catches ends the invocation.
Fail(r) == Go(r, "failed")

\* There is something to do about a name, or nothing.
Turn(r, label, n) == sync' = [sync EXCEPT ![r].at = label, ![r].name = n]
Pass(r, n)        == sync' = [sync EXCEPT ![r].todo = @ \ {n}]

\* What is being done with a kind or a target is done: the next one follows.
NextKind(r) ==
  sync' = [sync EXCEPT ![r] =
    IF Kind(r) = "skills" /\ Target(r) \in WithAgents THEN [@ EXCEPT !.at = "list", !.kind = 2]
    ELSE IF @.target < Len(Targets) THEN [Idle EXCEPT !.at = "clear", !.target = sync[r].target + 1]
    ELSE [Idle EXCEPT !.at = "done"]]

Start(r) ==
  /\ ~Running(r) /\ syncs < MaxSyncs /\ syncs' = syncs + 1
  /\ sync' = [sync EXCEPT ![r] = [Idle EXCEPT !.at = "clear"]]
  /\ calm' = [s \in Roots |-> s = r /\ \A o \in Roots \ {r} : ~Running(o)]
  /\ UNCHANGED <<disk, edits, kills>>

\* The generated directories are removed and made anew.
Clear(r) ==
  /\ At(r, "clear")
  /\ generated' = [generated EXCEPT ![r][Target(r)] = [n \in Names |-> Absent]]
  /\ sync' = [sync EXCEPT ![r].at = "render", ![r].todo = Given(Target(r), source[r].names)]
  /\ UNCHANGED <<source, instructions, installed, global, profile, count>>

\* A file that was listed and is gone cannot be read.  A package's manifest is copied, with
\* the digests of its source.
Render(r, n) ==
  /\ At(r, "render") /\ n \in sync[r].todo
  /\ IF n \in source[r].names
       THEN /\ generated' = [generated EXCEPT ![r][Target(r)][n] =
                               [version |-> source[r].version, digest |-> "source"]]
            /\ Pass(r, n)
       ELSE UNCHANGED generated /\ Fail(r)
  /\ UNCHANGED <<source, instructions, installed, global, profile, count>>

\* refreshGeneratedPackageManifests
Refresh(r) ==
  /\ At(r, "render") /\ sync[r].todo = {} /\ Go(r, "instructions")
  /\ generated' = [generated EXCEPT ![r][Target(r)] =
       [n \in Names |-> IF @[n] # Absent /\ n \in Skills THEN [@[n] EXCEPT !.digest = "generated"] ELSE @[n]]]
  /\ UNCHANGED <<source, instructions, installed, global, profile, count>>

\* AGENTS.md, and the target's global instructions, which it replaces whoever wrote them
WriteInstructions(r) ==
  /\ At(r, "instructions") /\ Go(r, "global")
  /\ instructions' = [instructions EXCEPT ![r][Target(r)] = source[r].version]
  /\ UNCHANGED <<source, generated, installed, global, profile, count>>

InstallInstructions(r) ==
  /\ At(r, "global") /\ Go(r, "list")
  /\ global' = [global EXCEPT ![Target(r)] = [root |-> r, version |-> instructions[r][Target(r)]]]
  /\ UNCHANGED <<source, generated, instructions, installed, profile, count>>

\* topLevelDirectories, surfaceFileNames
Desired(r, t, kind) ==
  IF kind = "agents" /\ Listed[t] # Absent THEN Listed[t]
  ELSE {n \in Of(kind) : generated[r][t][n] # Absent}

IsLink(x) == x \notin {Absent, Unmanaged}

\* installEntryDirectory lists what is there.
List(r) ==
  /\ At(r, "list")
  /\ sync' = [sync EXCEPT ![r].at = "stale",
       ![r].todo = {n \in Of(Kind(r)) \ Desired(r, Target(r), Kind(r)) : IsLink(installed[Target(r)][n])}]
  /\ UNCHANGED <<disk, count>>

OnlyRetired(t, n) == n \in Retired   \* mutant: a link that leads nowhere is not stale

\* A link is stale when it leads nowhere, or its skill was retired.
StaleLink(t, n) ==
  \/ n \in Retired
  \/ IsLink(installed[t][n]) /\ generated[installed[t][n].root][t][n] = Absent

\* removeStaleOwnedLinks; a link that is gone meanwhile cannot be read.
Judge(r, n) ==
  /\ At(r, "stale") /\ n \in sync[r].todo
  /\ LET x == installed[Target(r)][n]
     IN IF ~IsLink(x) THEN Fail(r)
        ELSE IF StaleLink(Target(r), n) THEN Turn(r, "unlink", n)
        ELSE Pass(r, n)
  /\ UNCHANGED <<disk, count>>

\* rm with force: whatever is under the name by now
Unlink(r) ==
  /\ At(r, "unlink") /\ installed' = [installed EXCEPT ![Target(r)][sync[r].name] = Absent]
  /\ sync' = [sync EXCEPT ![r].at = "stale", ![r].todo = @ \ {sync[r].name}]
  /\ UNCHANGED <<source, generated, instructions, global, profile, count>>

Link(r) ==
  /\ At(r, "stale") /\ sync[r].todo = {}
  /\ sync' = [sync EXCEPT ![r].at = "link", ![r].todo = Desired(r, Target(r), Kind(r))]
  /\ UNCHANGED <<disk, count>>

ReplacesAny(x) == x # Absent   \* mutant: anything in the way is replaced

\* isOwnedGeneratedTarget: a link to any checkout's generated tree
MayReplace(x) == IsLink(x)

\* ensureOwnedLink
Look(r, n) ==
  /\ At(r, "link") /\ n \in sync[r].todo
  /\ LET x == installed[Target(r)][n]
     IN IF x = [root |-> r] THEN Pass(r, n)
        ELSE IF x = Absent THEN Turn(r, "symlink", n)
        ELSE IF MayReplace(x) THEN Turn(r, "replace", n)
        ELSE Fail(r)
  /\ UNCHANGED <<disk, count>>

Replace(r) ==
  /\ At(r, "replace") /\ Go(r, "symlink")
  /\ installed' = [installed EXCEPT ![Target(r)][sync[r].name] = Absent]
  /\ UNCHANGED <<source, generated, instructions, global, profile, count>>

Symlink(r) ==
  /\ At(r, "symlink")
  /\ IF installed[Target(r)][sync[r].name] = Absent
       THEN /\ installed' = [installed EXCEPT ![Target(r)][sync[r].name] = [root |-> r]]
            /\ sync' = [sync EXCEPT ![r].at = "link", ![r].todo = @ \ {sync[r].name}]
       ELSE UNCHANGED installed /\ Fail(r)
  /\ UNCHANGED <<source, generated, instructions, global, profile, count>>

Finish(r) == At(r, "link") /\ sync[r].todo = {} /\ NextKind(r) /\ UNCHANGED <<disk, count>>

Kill(r) ==
  /\ Running(r) /\ kills < MaxKills /\ kills' = kills + 1 /\ Fail(r)
  /\ UNCHANGED <<disk, calm, edits, syncs>>

-------------------------------------------------------------------------------
(* People *)

Edits == edits < MaxEdits /\ edits' = edits + 1 /\ calm' = [r \in Roots |-> FALSE]

EditSource(r, n) ==
  /\ Edits /\ UNCHANGED <<generated, instructions, installed, global, profile, sync, syncs, kills>>
  /\ \E names \in {source[r].names, source[r].names \ {n}, source[r].names \cup {n}} :
       source' = [source EXCEPT ![r] = [names |-> names, version |-> @.version + 1]]

EditInstalled(t, n) ==
  /\ Edits /\ (AtRest => \A r \in Roots : ~Running(r))
  /\ installed' = [installed EXCEPT ![t][n] = IF @ = Unmanaged THEN Absent ELSE Unmanaged]
  /\ UNCHANGED <<source, generated, instructions, global, profile, sync, syncs, kills>>

Next ==
  \/ \E r \in Roots :
       \/ Start(r) \/ Clear(r) \/ Refresh(r) \/ WriteInstructions(r) \/ InstallInstructions(r) \/ List(r)
       \/ Unlink(r) \/ Link(r) \/ Replace(r) \/ Symlink(r) \/ Finish(r) \/ Kill(r)
       \/ \E n \in Names : Render(r, n) \/ Judge(r, n) \/ Look(r, n) \/ EditSource(r, n)
  \/ \E t \in T, n \in Names : EditInstalled(t, n)

Spec == Init /\ [][Next]_avars

-------------------------------------------------------------------------------
(* Properties *)

\* doctor: the profile of the checked agent
ProfileIsSafe(t) ==
  /\ t = "opencode" => /\ {"read", "glob", "grep", "bash", "skill"} \subseteq OpenCodeGrants(profile)
                       /\ {"edit", "task", "webfetch", "todowrite"} \subseteq OpenCodeDenies(profile)
  /\ t = "claude" => "bash" \in ClaudeTools(profile) /\ Writing \subseteq ClaudeDenies(profile)

\* surfaceFileNames of what a target is given
Surface(r, t) == Desired(r, t, "skills") \cup (IF t \in WithAgents THEN Desired(r, t, "agents") ELSE {})

\* doctor, of a checkout: the skills that were generated are there and no more, every link is
\* exact, and the global instructions are those that were generated
Healthy(r, t) ==
  /\ \A n \in Skills : generated[r][t][n] # Absent <=> n \in Given(t, source[r].names)
  /\ \A n \in Surface(r, t) : installed[t][n] = [root |-> r]
  /\ global[t] # Absent /\ global[t].version = instructions[r][t]
  /\ t \in WithAgents => \A n \in Desired(r, t, "agents") : generated[r][t][n] # Absent
  /\ t \in WithAgents /\ Agents \subseteq source[r].names => ProfileIsSafe(t)

TypeOK ==
  /\ edits \in 0..MaxEdits /\ syncs \in 0..MaxSyncs /\ kills \in 0..MaxKills
  /\ installed \in [T -> [Names -> {Absent, Unmanaged} \cup Links]]
  /\ sync \in [Roots -> [at: {"idle", "clear", "render", "instructions", "global", "list", "stale", "unlink",
                              "link", "replace", "symlink", "done", "failed"},
                         target: DOMAIN Targets, kind: 1..2, todo: SUBSET Names, name: Names \cup {Absent}]]

\* Whatever earlier syncs of either checkout left, killed, failed or overtaken, and whatever
\* was edited before: after a sync that nothing disturbed, doctor finds nothing wrong, what is
\* generated is what the present sources give, and no owned link leads nowhere
\* (agents-os.mjs:472-481); unless an agent that the configuration lists is not among the
\* sources: it is linked anyway.
SyncRepairs ==
  \A r \in Roots, t \in T : sync[r].at = "done" /\ calm[r] /\ Desired(r, t, "agents") \subseteq source[r].names =>
    /\ Healthy(r, t)
    /\ \A n \in Names : generated[r][t][n] # Absent <=> n \in Given(t, source[r].names)
    /\ \A n \in Names : generated[r][t][n] # Absent =>
         /\ generated[r][t][n].version = source[r].version
         /\ n \in Skills => generated[r][t][n].digest = "generated"
    /\ \A n \in Names : IsLink(installed[t][n]) => generated[installed[t][n].root][t][n] # Absent

\* What people put in the installed directories is removed by nobody but them
\* (agents-os.mjs:285-299: "Refusing to replace unmanaged installed path").
UnmanagedIsKept ==
  [][\A t \in T, n \in Names : installed[t][n] = Unmanaged /\ installed'[t][n] # Unmanaged => edits' # edits]_avars
===============================================================================
