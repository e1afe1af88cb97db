------------------------------- MODULE ToolsProofs -------------------------------
(***************************************************************************)
(* Proofs about the programs beside the stores (Tools, Keysmith): the      *)
(* installer, whose theorems come first; a call of run_paired_agent, its   *)
(* sessions and what its artifacts tell; the bus of the pairs, over which  *)
(* everyone is given the messages in one order; the leader keys of an      *)
(* editor; and the admission of an implementation by the Steward, by which *)
(* an envelope is delivered to its owner at most once, a correlation       *)
(* identifies one submission, and a settled admission is the owner's       *)
(* decision and stays.                                                     *)
(***************************************************************************)
EXTENDS Tools, Keysmith, FiniteSetTheorems, SequenceTheorems, TLAPS

-------------------------------------------------------------------------------
\* Types

Labels == {"idle", "clear", "render", "instructions", "global", "list", "stale", "unlink", "link", "replace",
           "symlink", "done", "failed"}

Syncs == [at : Labels, target : DOMAIN Targets, kind : 1..2, todo : SUBSET Names, name : Names \cup {Absent}]

Changing == {"unlink", "replace", "symlink"}

Linking == Changing \cup {"stale", "link"}

\* A sync handles agents only for the targets that are given agents, what it has yet to do is of
\* the kind that it handles, and the name that it is about to change is one of those.
SyncOK(q) ==
  /\ q \in Syncs
  /\ q.kind = 2 => Targets[q.target] \in WithAgents
  /\ q.at \in Linking => q.todo \subseteq Of(Kinds[q.kind])
  /\ q.at \in Changing => q.name \in q.todo

\* Nobody links agents for the others.
AgentsOnlyWhereGiven == \A t \in T \ WithAgents, n \in Agents : ~IsLink(installed[t][n])

TypeInv ==
  /\ edits \in 0..MaxEdits /\ syncs \in 0..MaxSyncs /\ kills \in 0..MaxKills
  /\ source \in [Roots -> [names : SUBSET Names, version : Nat]]
  /\ generated \in [Roots -> [T -> [Names -> {Absent} \cup Rendering]]]
  /\ instructions \in [Roots -> [T -> Nat]]
  /\ installed \in [T -> [Names -> {Absent, Unmanaged} \cup Links]]
  /\ global \in [T -> {Absent} \cup Globals]
  /\ profile \in Profiles
  /\ calm \in [Roots -> BOOLEAN]
  /\ sync \in [Roots -> Syncs] /\ \A r \in Roots : SyncOK(sync[r])
  /\ AgentsOnlyWhereGiven

\* What a sync is about, and what is desired for it.
LEMMA SyncTypes ==
  ASSUME SyncConstants, TypeInv, NEW r \in Roots
  PROVE  /\ sync[r].target \in DOMAIN Targets /\ Target(r) \in T /\ Target(r) = Targets[sync[r].target]
         /\ sync[r].kind \in 1..2 /\ Kind(r) = Kinds[sync[r].kind] /\ Kind(r) \in {"skills", "agents"}
         /\ Kind(r) = "skills" <=> sync[r].kind = 1
         /\ Kind(r) = "agents" => Target(r) \in WithAgents
         /\ sync[r].todo \subseteq Names /\ sync[r].name \in Names \cup {Absent} /\ sync[r].at \in Labels
         /\ Of(Kind(r)) \subseteq Names
         /\ \A t \in T, k \in {"skills", "agents"} : Desired(r, t, k) \subseteq Of(k)
         /\ sync[r].at \in Linking => sync[r].todo \subseteq Of(Kind(r))
         /\ sync[r].at \in Changing => sync[r].name \in sync[r].todo
<1>1. sync[r] \in Syncs /\ SyncOK(sync[r])
  BY DEF TypeInv
<1>2. sync[r].target \in DOMAIN Targets /\ Targets[sync[r].target] \in T
  BY <1>1 DEF Syncs, T
<1>3. sync[r].kind \in {1, 2} /\ Kinds[1] = "skills" /\ Kinds[2] = "agents"
  BY <1>1 DEF Syncs, Kinds
<1>4. \A t \in T, k \in {"skills", "agents"} : Desired(r, t, k) \subseteq Of(k)
  BY DEF Desired, Of, SyncConstants
<1>5. Of(Kind(r)) \subseteq Names
  BY DEF Of, Names
<1> QED
  BY <1>1, <1>2, <1>3, <1>4, <1>5 DEF Syncs, SyncOK, Target, Kind

\* The change of one sync, seen by all of them.
LEMMA OneSync ==
  ASSUME TypeInv, NEW r \in Roots, NEW q, sync' = [sync EXCEPT ![r] = q], SyncOK(q)
  PROVE  /\ sync' \in [Roots -> Syncs] /\ \A o \in Roots : SyncOK(sync'[o])
         /\ sync'[r] = q /\ \A o \in Roots \ {r} : sync'[o] = sync[o]
BY DEF TypeInv, SyncOK

\* The place in a sync and what it has yet to do change; the rest stays.
LEMMA Changed ==
  ASSUME NEW q \in Syncs, NEW l \in Labels
  PROVE  /\ [q EXCEPT !.at = l] \in Syncs
         /\ [q EXCEPT !.at = l, !.kind = 2] \in Syncs
         /\ \A s \in SUBSET Names : /\ [q EXCEPT !.todo = s] \in Syncs
                                    /\ [q EXCEPT !.at = l, !.todo = s] \in Syncs
         /\ \A n \in Names : [q EXCEPT !.at = l, !.name = n] \in Syncs
<1> DEFINE Both == 1..2
<1>1. 2 \in Both
  OBVIOUS
<1>2. Syncs = [at : Labels, target : DOMAIN Targets, kind : Both, todo : SUBSET Names, name : Names \cup {Absent}]
  BY DEF Syncs
<1> HIDE DEF Both
<1>3. [q EXCEPT !.at = l] \in Syncs
  BY <1>2
<1>4. [q EXCEPT !.at = l, !.kind = 2] \in Syncs
  BY <1>1, <1>2
<1>5. \A s \in SUBSET Names : [q EXCEPT !.todo = s] \in Syncs /\ [q EXCEPT !.at = l, !.todo = s] \in Syncs
  BY <1>2
<1>6. \A n \in Names : [q EXCEPT !.at = l, !.name = n] \in Syncs
  BY <1>2
<1> QED BY <1>3, <1>4, <1>5, <1>6

\* It may be anywhere, as long as what it has to do is of the kind that it handles.
LEMMA Moved ==
  ASSUME NEW q, SyncOK(q), NEW l \in Labels
  PROVE  /\ (l \in Linking => q.todo \subseteq Of(Kinds[q.kind])) /\ (l \in Changing => q.name \in q.todo)
            => SyncOK([q EXCEPT !.at = l])
         /\ \A s \in SUBSET Names :
              (l \in Linking => s \subseteq Of(Kinds[q.kind])) /\ l \notin Changing =>
                SyncOK([q EXCEPT !.at = l, !.todo = s])
         /\ \A n \in q.todo \cap Names :
              q.todo \subseteq Of(Kinds[q.kind]) => SyncOK([q EXCEPT !.at = l, !.name = n])
         /\ l \notin Linking /\ Targets[q.target] \in WithAgents => SyncOK([q EXCEPT !.at = l, !.kind = 2])
<1>0. q \in Syncs
  BY DEF SyncOK
<1>1. ASSUME (l \in Linking => q.todo \subseteq Of(Kinds[q.kind])), (l \in Changing => q.name \in q.todo)
      PROVE  SyncOK([q EXCEPT !.at = l])
  <2> DEFINE new == [q EXCEPT !.at = l]
  <2>1. new \in Syncs
    BY <1>0, Changed
  <2>2. new.at = l /\ new.todo = q.todo /\ new.kind = q.kind /\ new.target = q.target /\ new.name = q.name
    BY <1>0 DEF Syncs
  <2> HIDE DEF new
  <2>3. SyncOK(new)
    BY <1>1, <2>1, <2>2 DEF SyncOK
  <2> QED BY <2>3 DEF new
<1>2. ASSUME NEW s \in SUBSET Names, (l \in Linking => s \subseteq Of(Kinds[q.kind])), l \notin Changing
      PROVE  SyncOK([q EXCEPT !.at = l, !.todo = s])
  <2> DEFINE new == [q EXCEPT !.at = l, !.todo = s]
  <2>1. new \in Syncs
    BY <1>0, Changed
  <2>2. new.at = l /\ new.todo = s /\ new.kind = q.kind /\ new.target = q.target /\ new.name = q.name
    BY <1>0 DEF Syncs
  <2> HIDE DEF new
  <2>3. SyncOK(new)
    BY <1>2, <2>1, <2>2 DEF SyncOK
  <2> QED BY <2>3 DEF new
<1>3. ASSUME NEW n \in q.todo \cap Names, q.todo \subseteq Of(Kinds[q.kind])
      PROVE  SyncOK([q EXCEPT !.at = l, !.name = n])
  <2> DEFINE new == [q EXCEPT !.at = l, !.name = n]
  <2>1. new \in Syncs
    BY <1>0, Changed
  <2>2. new.at = l /\ new.todo = q.todo /\ new.kind = q.kind /\ new.target = q.target /\ new.name = n
    BY <1>0 DEF Syncs
  <2> HIDE DEF new
  <2>3. SyncOK(new)
    BY <1>3, <2>1, <2>2 DEF SyncOK
  <2> QED BY <2>3 DEF new
<1>4. ASSUME l \notin Linking, Targets[q.target] \in WithAgents
      PROVE  SyncOK([q EXCEPT !.at = l, !.kind = 2])
  <2> DEFINE new == [q EXCEPT !.at = l, !.kind = 2]
  <2>1. new \in Syncs
    BY <1>0, Changed
  <2>2. new.at = l /\ new.kind = 2 /\ new.target = q.target
    BY <1>0 DEF Syncs
  <2> HIDE DEF new
  <2>3. SyncOK(new)
    BY <1>4, <2>1, <2>2 DEF SyncOK, Linking, Changing
  <2> QED BY <2>3 DEF new
<1> QED
  BY <1>1, <1>2, <1>3, <1>4

\* A sync begins a target with nothing done.
LEMMA Begun ==
  ASSUME SyncConstants, NEW l \in Labels \ Linking, NEW i \in DOMAIN Targets
  PROVE  SyncOK([Idle EXCEPT !.at = l, !.target = i]) /\ SyncOK([Idle EXCEPT !.at = l])
<1>1. 1 \in DOMAIN Targets
  BY DEF SyncConstants
<1>2. 1 \in 1..2 /\ {} \in SUBSET Names
  OBVIOUS
<1>3. [Idle EXCEPT !.at = l, !.target = i] \in Syncs
  BY <1>2 DEF Idle, Syncs
<1>4. [Idle EXCEPT !.at = l] \in Syncs
  BY <1>1, <1>2 DEF Idle, Syncs
<1> QED
  BY <1>3, <1>4 DEF SyncOK, Idle, Linking

SyncStep(r) ==
  \/ Start(r) \/ Clear(r) \/ Refresh(r) \/ WriteInstructions(r) \/ InstallInstructions(r) \/ List(r)
  \/ Unlink(r) \/ Link(r) \/ Replace(r) \/ Symlink(r) \/ Finish(r) \/ Kill(r)
  \/ \E n \in Names : Render(r, n) \/ Judge(r, n) \/ Look(r, n)

\* An action of a sync leaves it in a state that a sync may be in.
LEMMA SyncKept ==
  ASSUME SyncConstants, TypeInv, NEW r \in Roots, SyncStep(r)
  PROVE  \E q : SyncOK(q) /\ sync' = [sync EXCEPT ![r] = q]
<1> DEFINE q == sync[r]
<1>0. /\ q \in Syncs /\ SyncOK(q) /\ sync \in [Roots -> Syncs]
      /\ q.todo \subseteq Names /\ q.at \in Labels /\ Kind(r) = Kinds[q.kind]
      /\ q.at \in Linking => q.todo \subseteq Of(Kinds[q.kind])
      /\ q.at \in Changing => q.name \in q.todo
  BY SyncTypes DEF TypeInv
<1> HIDE DEF q
<1>1. CASE Start(r)
  <2>1. sync' = [sync EXCEPT ![r] = [Idle EXCEPT !.at = "clear"]]
    BY <1>1 DEF Start
  <2>2. "clear" \in Labels \ Linking /\ 1 \in DOMAIN Targets
    BY DEF Labels, Linking, Changing, SyncConstants
  <2> QED BY <2>1, <2>2, Begun
<1>2. CASE Clear(r)
  <2> DEFINE s == Given(Target(r), source[r].names)
  <2>1. s \subseteq Names
    BY DEF Given, Names
  <2>2. sync' = [sync EXCEPT ![r] = [q EXCEPT !.at = "render", !.todo = s]]
    BY <1>2, <1>0 DEF Clear, q
  <2>3. "render" \in Labels /\ "render" \notin Linking /\ "render" \notin Changing
    BY DEF Labels, Linking, Changing
  <2>4. SyncOK([q EXCEPT !.at = "render", !.todo = s])
    BY <1>0, <2>1, <2>3, Moved
  <2> QED BY <2>2, <2>4
<1>3. CASE \E l \in Labels : sync' = [sync EXCEPT ![r].at = l]
             /\ (l \in Linking => l \in Changing /\ q.at \in Changing)
  <2> PICK l \in Labels : sync' = [sync EXCEPT ![r].at = l]
        /\ (l \in Linking => l \in Changing /\ q.at \in Changing)
    BY <1>3
  <2>1. sync' = [sync EXCEPT ![r] = [q EXCEPT !.at = l]]
    BY <1>0 DEF q
  <2>2. Changing \subseteq Linking
    BY DEF Linking
  <2>3. SyncOK([q EXCEPT !.at = l])
    BY <1>0, <2>2, Moved
  <2> QED BY <2>1, <2>3
<1>4. CASE \E l \in {"stale", "link"}, s \in SUBSET Of(Kind(r)) : sync' = [sync EXCEPT ![r].at = l, ![r].todo = s]
  <2> PICK l \in {"stale", "link"}, s \in SUBSET Of(Kind(r)) : sync' = [sync EXCEPT ![r].at = l, ![r].todo = s]
    BY <1>4
  <2>1. sync' = [sync EXCEPT ![r] = [q EXCEPT !.at = l, !.todo = s]]
    BY <1>0 DEF q
  <2>2. l \in Labels /\ l \notin Changing /\ s \subseteq Names
    BY SyncTypes DEF Labels, Changing
  <2>3. SyncOK([q EXCEPT !.at = l, !.todo = s])
    BY <1>0, <2>2, Moved
  <2> QED BY <2>1, <2>3
<1>5. ASSUME q.at \in {"render", "stale", "link"}, NEW n PROVE SyncOK([q EXCEPT !.todo = q.todo \ {n}])
  <2> DEFINE s == q.todo \ {n}
  <2>1. s \subseteq Names /\ (q.at \in Linking => s \subseteq Of(Kinds[q.kind])) /\ q.at \notin Changing
    BY <1>0, <1>5 DEF Changing
  <2> HIDE DEF s
  <2>2. SyncOK([q EXCEPT !.at = q.at, !.todo = s])
    BY <1>0, <2>1, Moved
  <2>3. [q EXCEPT !.todo = s] = [q EXCEPT !.at = q.at, !.todo = s]
    BY <1>0 DEF Syncs
  <2>4. SyncOK([q EXCEPT !.todo = s])
    BY <2>2, <2>3
  <2> QED BY <2>4 DEF s
<1>6. CASE \E n \in q.todo, l \in Changing : /\ q.at \in {"stale", "link"}
                                             /\ sync' = [sync EXCEPT ![r] = [q EXCEPT !.at = l, !.name = n]]
  <2> PICK n \in q.todo, l \in Changing : /\ q.at \in {"stale", "link"}
                                          /\ sync' = [sync EXCEPT ![r] = [q EXCEPT !.at = l, !.name = n]]
    BY <1>6
  <2>1. l \in Labels /\ q.at \in Linking /\ n \in q.todo \cap Names
    BY <1>0 DEF Labels, Changing, Linking
  <2>2. SyncOK([q EXCEPT !.at = l, !.name = n])
    BY <1>0, <2>1, Moved
  <2> QED BY <2>2
<1>7. CASE Finish(r)
  <2>1. CASE Kind(r) = "skills" /\ Target(r) \in WithAgents
    <3>1. sync' = [sync EXCEPT ![r] = [q EXCEPT !.at = "list", !.kind = 2]]
      BY <1>7, <1>0, <2>1 DEF Finish, NextKind, q
    <3>2. "list" \in Labels /\ "list" \notin Linking
      BY DEF Labels, Linking, Changing
    <3>3. SyncOK([q EXCEPT !.at = "list", !.kind = 2])
      BY <1>0, <2>1, <3>2, Moved DEF Target, q
    <3> QED BY <3>1, <3>3
  <2>2. CASE ~(Kind(r) = "skills" /\ Target(r) \in WithAgents) /\ q.target < Len(Targets)
    <3>1. sync' = [sync EXCEPT ![r] = [Idle EXCEPT !.at = "clear", !.target = q.target + 1]]
      BY <1>7, <1>0, <2>2 DEF Finish, NextKind, q
    <3>2. q.target \in DOMAIN Targets
      BY <1>0 DEF Syncs
    <3>3. q.target + 1 \in DOMAIN Targets
      BY <3>2, <2>2 DEF SyncConstants
    <3>4. "clear" \in Labels \ Linking
      BY DEF Labels, Linking, Changing
    <3>5. SyncOK([Idle EXCEPT !.at = "clear", !.target = q.target + 1])
      BY <3>3, <3>4, Begun
    <3> QED BY <3>1, <3>5
  <2>3. CASE ~(Kind(r) = "skills" /\ Target(r) \in WithAgents) /\ ~(q.target < Len(Targets))
    <3>1. sync' = [sync EXCEPT ![r] = [Idle EXCEPT !.at = "done"]]
      BY <1>7, <1>0, <2>3 DEF Finish, NextKind, q
    <3>2. "done" \in Labels \ Linking /\ 1 \in DOMAIN Targets
      BY DEF Labels, Linking, Changing, SyncConstants
    <3> QED BY <3>1, <3>2, Begun
  <2> QED BY <2>1, <2>2, <2>3
<1>8. ASSUME NEW l \in {"instructions", "global", "list", "failed"}, sync' = [sync EXCEPT ![r].at = l] PROVE <1>3!1
  BY <1>8 DEF Labels, Linking, Changing
<1>9. CASE Refresh(r)
  BY <1>9, <1>8, <1>3 DEF Refresh, Go
<1>10. CASE WriteInstructions(r)
  BY <1>10, <1>8, <1>3 DEF WriteInstructions, Go
<1>11. CASE InstallInstructions(r)
  BY <1>11, <1>8, <1>3 DEF InstallInstructions, Go
<1>12. CASE Kill(r)
  BY <1>12, <1>8, <1>3 DEF Kill, Fail, Go
<1>13. CASE Replace(r)
  <2>1. sync' = [sync EXCEPT ![r].at = "symlink"] /\ q.at = "replace"
    BY <1>13 DEF Replace, Go, At, q
  <2>2. "symlink" \in Labels /\ "symlink" \in Changing /\ "replace" \in Changing
    BY DEF Labels, Changing
  <2> QED BY <2>1, <2>2, <1>3
<1>14. CASE List(r)
  <2> DEFINE s == {n \in Of(Kind(r)) \ Desired(r, Target(r), Kind(r)) : IsLink(installed[Target(r)][n])}
  <2>1. sync' = [sync EXCEPT ![r].at = "stale", ![r].todo = s] /\ s \in SUBSET Of(Kind(r))
    BY <1>14 DEF List
  <2> QED BY <2>1, <1>4
<1>15. CASE Link(r)
  <2>1. sync' = [sync EXCEPT ![r].at = "link", ![r].todo = Desired(r, Target(r), Kind(r))]
    BY <1>15 DEF Link
  <2>2. Desired(r, Target(r), Kind(r)) \in SUBSET Of(Kind(r))
    BY SyncTypes
  <2> QED BY <2>1, <2>2, <1>4
<1>16. ASSUME NEW l \in {"stale", "link"}, q.at \in Linking, NEW n,
              sync' = [sync EXCEPT ![r].at = l, ![r].todo = @ \ {n}]
       PROVE  <1>4!1
  <2>1. sync' = [sync EXCEPT ![r].at = l, ![r].todo = q.todo \ {n}]
    BY <1>16, <1>0 DEF q
  <2> QED BY <2>1, <1>0, <1>16
<1>17. CASE Unlink(r)
  <2>1. q.at \in Linking /\ sync' = [sync EXCEPT ![r].at = "stale", ![r].todo = @ \ {sync[r].name}]
    BY <1>17 DEF Unlink, At, q, Linking, Changing
  <2> QED BY <2>1, <1>16, <1>4
<1>18. CASE Symlink(r)
  <2>1. CASE sync' = [sync EXCEPT ![r].at = "link", ![r].todo = @ \ {sync[r].name}]
    <3>1. q.at \in Linking
      BY <1>18 DEF Symlink, At, q, Linking, Changing
    <3> QED BY <2>1, <3>1, <1>16, <1>4
  <2> QED
    BY <1>18, <2>1, <1>8, <1>3 DEF Symlink, Fail, Go
<1>19. ASSUME NEW n \in Names, Pass(r, n), q.at \in {"render", "stale", "link"}
       PROVE  \E x : SyncOK(x) /\ sync' = [sync EXCEPT ![r] = x]
  <2> DEFINE s == q.todo \ {n}
  <2>1. sync' = [sync EXCEPT ![r].todo = s]
    BY <1>19 DEF Pass, q
  <2> HIDE DEF s
  <2>2. sync' = [sync EXCEPT ![r] = [sync[r] EXCEPT !.todo = s]]
    BY <2>1
  <2>3. sync' = [sync EXCEPT ![r] = [q EXCEPT !.todo = q.todo \ {n}]]
    BY <2>2 DEF s, q
  <2>4. SyncOK([q EXCEPT !.todo = q.todo \ {n}])
    BY <1>5, <1>19
  <2> QED BY <2>3, <2>4
<1>20. ASSUME NEW n \in q.todo, NEW l \in Changing, Turn(r, l, n), q.at \in {"stale", "link"} PROVE <1>6!1
  <2>1. sync' = [sync EXCEPT ![r] = [q EXCEPT !.at = l, !.name = n]]
    BY <1>20, <1>0 DEF Turn, q
  <2> QED BY <2>1, <1>20
<1>21. CASE Fail(r)
  BY <1>21, <1>8, <1>3 DEF Fail, Go
<1>22. CASE \E n \in Names : Render(r, n)
  BY <1>22, <1>19, <1>21 DEF Render, At, q
<1>23. CASE \E n \in Names : Judge(r, n)
  BY <1>23, <1>19, <1>20, <1>21, <1>6 DEF Judge, At, q, Changing
<1>24. CASE \E n \in Names : Look(r, n)
  BY <1>24, <1>19, <1>20, <1>21, <1>6 DEF Look, At, q, Changing
<1> QED
  BY <1>1, <1>2, <1>7, <1>9, <1>10, <1>11, <1>12, <1>13, <1>14, <1>15, <1>17, <1>18, <1>22, <1>23, <1>24
     DEF SyncStep
\* A file of the table of one target is changed.
LEMMA InstalledKept ==
  ASSUME TypeInv, NEW t \in T, NEW n \in Names, NEW x \in {Absent, Unmanaged} \cup Links,
         installed' = [installed EXCEPT ![t][n] = x], IsLink(x) /\ n \in Agents => t \in WithAgents
  PROVE  installed' \in [T -> [Names -> {Absent, Unmanaged} \cup Links]] /\ AgentsOnlyWhereGiven'
BY DEF TypeInv, AgentsOnlyWhereGiven, IsLink

\* Every step keeps the types.
LEMMA TypeStep ==
  ASSUME SyncConstants, TypeInv, [Next]_avars
  PROVE  TypeInv'
<1>1. CASE UNCHANGED avars
  BY <1>1 DEF avars, TypeInv, AgentsOnlyWhereGiven
<1>2. ASSUME NEW r \in Roots, SyncStep(r) PROVE TypeInv'
  <2>1. sync' \in [Roots -> Syncs] /\ \A o \in Roots : SyncOK(sync'[o])
    BY <1>2, SyncKept, OneSync
  <2>2. Target(r) \in T
    BY SyncTypes
  <2>3. source' = source /\ profile' = profile /\ edits' = edits
    BY <1>2 DEF SyncStep, Start, Clear, Refresh, WriteInstructions, InstallInstructions, List, Unlink, Link,
       Replace,
                Symlink, Finish, Kill, Render, Judge, Look, disk, count
  <2>4. syncs' \in 0..MaxSyncs /\ kills' \in 0..MaxKills
    <3>1. Start(r) \/ Kill(r) \/ (syncs' = syncs /\ kills' = kills)
      BY <1>2 DEF SyncStep, Clear, Refresh, WriteInstructions, InstallInstructions, List, Unlink, Link,
         Replace, Symlink, Finish, Render, Judge, Look, disk, count
    <3>2. CASE Start(r)
      BY <3>2 DEF Start, TypeInv, SyncConstants
    <3>3. CASE Kill(r)
      BY <3>3 DEF Kill, TypeInv, SyncConstants
    <3>4. CASE syncs' = syncs /\ kills' = kills
      BY <3>4 DEF TypeInv
    <3> QED
      BY <3>1, <3>2, <3>3, <3>4
  <2>5. calm' \in [Roots -> BOOLEAN]
    BY <1>2 DEF SyncStep, Start, Clear, Refresh, WriteInstructions, InstallInstructions, List, Unlink, Link,
       Replace,
                Symlink, Finish, Kill, Render, Judge, Look, disk, count, TypeInv
  <2>6. generated' \in [Roots -> [T -> [Names -> {Absent} \cup Rendering]]]
    <3>1. CASE Clear(r)
      BY <3>1, <2>2 DEF Clear, TypeInv
    <3>2. CASE \E n \in Names : Render(r, n)
      <4> PICK n \in Names : Render(r, n)
        BY <3>2
      <4> DEFINE v == [version |-> source[r].version, digest |-> "source"]
      <4>1. v \in Rendering
        BY DEF TypeInv, Rendering
      <4>2. generated' = generated \/ generated' = [generated EXCEPT ![r][Target(r)][n] = v]
        BY DEF Render
      <4>3. ASSUME NEW x \in Rendering, generated' = [generated EXCEPT ![r][Target(r)][n] = x]
            PROVE  generated' \in [Roots -> [T -> [Names -> {Absent} \cup Rendering]]]
        BY <4>3, <2>2 DEF TypeInv
      <4> HIDE DEF v
      <4> QED BY <4>1, <4>2, <4>3 DEF TypeInv
    <3>3. CASE Refresh(r)
      <4> DEFINE g == generated[r][Target(r)]
                 h == [n \in Names |-> IF g[n] # Absent /\ n \in Skills THEN [g[n] EXCEPT !.digest = "generated"] ELSE g[n]]
      <4>1. g \in [Names -> {Absent} \cup Rendering]
        BY <2>2 DEF TypeInv
      <4>2. \A x \in Rendering : [x EXCEPT !.digest = "generated"] \in Rendering
        BY DEF Rendering
      <4>3. h \in [Names -> {Absent} \cup Rendering]
        BY <4>1, <4>2
      <4>4. generated' = [generated EXCEPT ![r][Target(r)] = h]
        BY <3>3 DEF Refresh
      <4> HIDE DEF h
      <4> QED BY <2>2, <4>3, <4>4 DEF TypeInv
    <3>4. CASE UNCHANGED generated
      BY <3>4 DEF TypeInv
    <3> QED
      BY <1>2, <3>1, <3>2, <3>3, <3>4 DEF SyncStep, Start, WriteInstructions, InstallInstructions, List, Unlink,
         Link,
         Replace, Symlink, Finish, Kill, Judge, Look, disk, count
  <2>7. instructions' \in [Roots -> [T -> Nat]]
    <3>1. CASE WriteInstructions(r)
      BY <3>1, <2>2 DEF WriteInstructions, TypeInv
    <3>2. CASE UNCHANGED instructions
      BY <3>2 DEF TypeInv
    <3> QED
      BY <1>2, <3>1, <3>2 DEF SyncStep, Start, Clear, Refresh, InstallInstructions, List, Unlink, Link, Replace,
         Symlink, Finish, Kill, Render, Judge, Look, disk, count
  <2>8. global' \in [T -> {Absent} \cup Globals]
    <3>1. CASE InstallInstructions(r)
      <4>1. [root |-> r, version |-> instructions[r][Target(r)]] \in Globals
        BY <2>2 DEF TypeInv, Globals
      <4> QED BY <4>1, <3>1, <2>2 DEF InstallInstructions, TypeInv
    <3>2. CASE UNCHANGED global
      BY <3>2 DEF TypeInv
    <3> QED
      BY <1>2, <3>1, <3>2 DEF SyncStep, Start, Clear, Refresh, WriteInstructions, List, Unlink, Link, Replace,
         Symlink, Finish, Kill, Render, Judge, Look, disk, count
  <2>9. installed' \in [T -> [Names -> {Absent, Unmanaged} \cup Links]] /\ AgentsOnlyWhereGiven'
    <3>1. CASE Unlink(r) \/ Replace(r)
      <4>1. sync[r].name \in Names
        BY <3>1, SyncTypes DEF Unlink, Replace, At, Changing
      <4> QED BY <3>1, <4>1, <2>2, InstalledKept DEF Unlink, Replace, IsLink
    <3>2. CASE Symlink(r)
      <4>1. sync[r].name \in Names /\ sync[r].name \in Of(Kind(r))
        BY <3>2, SyncTypes DEF Symlink, At, Changing, Linking
      <4>2. [root |-> r] \in Links
        BY DEF Links
      <4>3. sync[r].name \in Agents => Target(r) \in WithAgents
        BY <4>1, SyncTypes DEF Of, SyncConstants
      <4>4. CASE UNCHANGED installed
        BY <4>4 DEF TypeInv, AgentsOnlyWhereGiven, IsLink
      <4>5. CASE installed' = [installed EXCEPT ![Target(r)][sync[r].name] = [root |-> r]]
        BY <4>5, <4>1, <4>2, <4>3, <2>2, InstalledKept
      <4> QED BY <3>2, <4>4, <4>5 DEF Symlink
    <3>3. CASE UNCHANGED installed
      BY <3>3 DEF TypeInv, AgentsOnlyWhereGiven, IsLink
    <3> QED
      BY <1>2, <3>1, <3>2, <3>3 DEF SyncStep, Start, Clear, Refresh, WriteInstructions, InstallInstructions,
         List, Link,
         Finish, Kill, Render, Judge, Look, disk, count
  <2> QED
    BY <2>1, <2>3, <2>4, <2>5, <2>6, <2>7, <2>8, <2>9 DEF TypeInv
<1>3. ASSUME Edits PROVE edits' \in 0..MaxEdits /\ calm' \in [Roots -> BOOLEAN]
  BY <1>3 DEF Edits, TypeInv, SyncConstants
<1>4. ASSUME NEW r \in Roots, NEW n \in Names, EditSource(r, n) PROVE TypeInv'
  <2> PICK names \in {source[r].names, source[r].names \ {n}, source[r].names \cup {n}} :
        source' = [source EXCEPT ![r] = [names |-> names, version |-> @.version + 1]]
    BY <1>4 DEF EditSource
  <2>1. source[r] \in [names : SUBSET Names, version : Nat]
    BY DEF TypeInv
  <2>2. [names |-> names, version |-> source[r].version + 1] \in [names : SUBSET Names, version : Nat]
    BY <2>1
  <2>3. source' \in [Roots -> [names : SUBSET Names, version : Nat]]
    BY <2>2 DEF TypeInv
  <2> QED
    BY <1>3, <1>4, <2>3 DEF EditSource, TypeInv, AgentsOnlyWhereGiven
<1>5. ASSUME NEW t \in T, NEW n \in Names, EditInstalled(t, n) PROVE TypeInv'
  <2>1. installed' = [installed EXCEPT ![t][n] = IF installed[t][n] = Unmanaged THEN Absent ELSE Unmanaged]
    BY <1>5 DEF EditInstalled
  <2>2. installed' \in [T -> [Names -> {Absent, Unmanaged} \cup Links]] /\ AgentsOnlyWhereGiven'
    BY <2>1, InstalledKept DEF IsLink
  <2> QED
    BY <1>3, <1>5, <2>2 DEF EditInstalled, TypeInv
<1> QED
  BY <1>1, <1>2, <1>4, <1>5 DEF Next, SyncStep

\* At the start nothing is there.
LEMMA TypeInit ==
  ASSUME SyncConstants, Init
  PROVE  TypeInv
<1>1. Idle \in Syncs /\ SyncOK(Idle)
  BY DEF Idle, Syncs, SyncOK, Labels, Linking, Changing, SyncConstants
<1> QED
  BY <1>1 DEF Init, TypeInv, AgentsOnlyWhereGiven, IsLink, Names, SyncConstants

\* The types hold in every state.
LEMMA TypesHold == Spec => []TypeInv
<1>1. Init => TypeInv
  BY ToolsAssumption, TypeInit
<1>2. TypeInv /\ [Next]_avars => TypeInv'
  BY ToolsAssumption, TypeStep
<1> QED
  BY <1>1, <1>2, PTL DEF Spec

\* What the steps of a sync change in it.
Same(q, p) == q.target = p.target /\ q.kind = p.kind

Sets(r, l, s) == sync' = [sync EXCEPT ![r].at = l, ![r].todo = s]

\* What the changes of a sync leave of it.
LEMMA Advance ==
  ASSUME TypeInv, NEW r \in Roots
  PROVE  /\ \A l : Go(r, l) => /\ sync'[r].at = l /\ Same(sync'[r], sync[r]) /\ sync'[r].todo = sync[r].todo
                               /\ sync'[r].name = sync[r].name
         /\ \A n : Pass(r, n) => /\ sync'[r].at = sync[r].at /\ Same(sync'[r], sync[r])
                                 /\ sync'[r].todo = sync[r].todo \ {n}
         /\ \A l, n : Turn(r, l, n) => /\ sync'[r].at = l /\ Same(sync'[r], sync[r]) /\ sync'[r].todo = sync[r].todo
                                       /\ sync'[r].name = n
         /\ \A l, s : Sets(r, l, s) => sync'[r].at = l /\ Same(sync'[r], sync[r]) /\ sync'[r].todo = s
<1>0. sync[r] \in Syncs /\ sync \in [Roots -> Syncs]
  BY DEF TypeInv
<1>1. ASSUME NEW l, Go(r, l) PROVE /\ sync'[r].at = l /\ Same(sync'[r], sync[r]) /\ sync'[r].todo = sync[r].todo
                                   /\ sync'[r].name = sync[r].name
  BY <1>0, <1>1 DEF Go, Same, Syncs
<1>2. ASSUME NEW n, Pass(r, n) PROVE /\ sync'[r].at = sync[r].at /\ Same(sync'[r], sync[r])
                                     /\ sync'[r].todo = sync[r].todo \ {n}
  BY <1>0, <1>2 DEF Pass, Same, Syncs
<1>3. ASSUME NEW l, NEW n, Turn(r, l, n)
      PROVE  /\ sync'[r].at = l /\ Same(sync'[r], sync[r]) /\ sync'[r].todo = sync[r].todo /\ sync'[r].name = n
  BY <1>0, <1>3 DEF Turn, Same, Syncs
<1>4. ASSUME NEW l, NEW s, Sets(r, l, s)
      PROVE  sync'[r].at = l /\ Same(sync'[r], sync[r]) /\ sync'[r].todo = s
  BY <1>0, <1>4 DEF Sets, Same, Syncs
<1> QED BY <1>1, <1>2, <1>3, <1>4

-------------------------------------------------------------------------------
\* What people put there

\* While people wait for a sync to end, what it is about to remove is not theirs: neither it
\* nor another sync puts anything of that kind there.
RemovesOwn ==
  \A r \in Roots : sync[r].at \in {"unlink", "replace"} => installed[Target(r)][sync[r].name] # Unmanaged

\* Whoever changes a file that is not theirs to another that is not changes nothing of theirs.
LEMMA OneFile ==
  ASSUME TypeInv, NEW t \in T, NEW n \in Names, NEW x, x # Unmanaged, installed[t][n] # Unmanaged,
         installed' = [installed EXCEPT ![t][n] = x]
  PROVE  \A u \in T, m \in Names : installed'[u][m] = Unmanaged <=> installed[u][m] = Unmanaged
<1> SUFFICES ASSUME NEW u \in T, NEW m \in Names
             PROVE  installed'[u][m] = Unmanaged <=> installed[u][m] = Unmanaged
  OBVIOUS
<1>1. installed \in [T -> [Names -> {Absent, Unmanaged} \cup Links]]
  BY DEF TypeInv
<1>2. u # t => installed'[u] = installed[u]
  BY <1>1
<1>3. u = t => installed'[u] = [installed[t] EXCEPT ![n] = x]
  BY <1>1
<1> QED BY <1>1, <1>2, <1>3

\* No step of a sync removes what people put there, or is about to.
LEMMA RemovesStep ==
  ASSUME SyncConstants, AtRest, TypeInv, RemovesOwn, [Next]_avars
  PROVE  /\ RemovesOwn'
         /\ \A t \in T, n \in Names : installed[t][n] = Unmanaged /\ installed'[t][n] # Unmanaged => edits' # edits
<1>1. CASE UNCHANGED avars
  BY <1>1 DEF avars, RemovesOwn, Target
<1>2. ASSUME NEW r \in Roots, SyncStep(r)
      PROVE  \A t \in T, n \in Names :
               /\ installed[t][n] = Unmanaged => installed'[t][n] = Unmanaged
               /\ installed'[t][n] = Unmanaged => installed[t][n] = Unmanaged
  <2>1. Target(r) \in T /\ (sync[r].at \in Changing => sync[r].name \in Names)
    BY SyncTypes
  <2>2. CASE UNCHANGED installed
    BY <2>2
  <2>3. CASE Unlink(r) \/ Replace(r)
    <3>1. sync[r].name \in Names /\ installed[Target(r)][sync[r].name] # Unmanaged
      BY <2>1, <2>3 DEF RemovesOwn, Unlink, Replace, At, Changing
    <3>2. installed' = [installed EXCEPT ![Target(r)][sync[r].name] = Absent]
      BY <2>3 DEF Unlink, Replace
    <3>3. Absent # Unmanaged
      BY DEF SyncConstants
    <3> QED BY <3>1, <3>2, <3>3, <2>1, OneFile
  <2>4. CASE Symlink(r) /\ ~UNCHANGED installed
    <3>1. sync[r].name \in Names /\ installed[Target(r)][sync[r].name] = Absent
      BY <2>1, <2>4 DEF Symlink, At, Changing
    <3>2. [root |-> r] # Unmanaged /\ [root |-> r] \in Links
      BY DEF SyncConstants, Links
    <3>3. installed' = [installed EXCEPT ![Target(r)][sync[r].name] = [root |-> r]] /\ Absent # Unmanaged
      BY <2>4 DEF Symlink, SyncConstants
    <3> QED BY <3>1, <3>2, <3>3, <2>1, OneFile
  <2> QED
    BY <1>2, <2>2, <2>3, <2>4 DEF SyncStep, Start, Clear, Refresh, WriteInstructions, InstallInstructions, List,
       Link,
       Finish, Kill, Render, Judge, Look, disk, count
<1>3. ASSUME NEW r \in Roots, SyncStep(r) PROVE RemovesOwn'
  <2>1. \A o \in Roots \ {r} : sync'[o] = sync[o]
    BY <1>3, SyncKept, OneSync
  <2> SUFFICES ASSUME NEW o \in Roots, sync'[o].at \in {"unlink", "replace"}
               PROVE  installed'[Targets[sync'[o].target]][sync'[o].name] # Unmanaged
    BY DEF RemovesOwn, Target
  <2>2. sync' \in [Roots -> Syncs] /\ SyncOK(sync'[o])
    BY <1>3, SyncKept, OneSync
  <2>3. Targets[sync'[o].target] \in T /\ sync'[o].name \in Names
    BY <2>2 DEF SyncOK, Syncs, T, Changing
  <2>4. CASE o # r
    BY <2>1, <2>3, <2>4, <1>2, <1>3 DEF RemovesOwn, Target
  <2>5. CASE o = r
    <3>1. CASE \E n \in Names : Judge(r, n)
      <4> PICK n \in Names : Judge(r, n)
        BY <3>1
      <4>1. IsLink(installed[Target(r)][n]) /\ Turn(r, "unlink", n) /\ UNCHANGED installed
        BY <2>5, Advance DEF Judge, Fail, disk, At
      <4> QED BY <4>1, <2>5, Advance DEF IsLink, Same, Target
    <3>2. CASE \E n \in Names : Look(r, n)
      <4> PICK n \in Names : Look(r, n)
        BY <3>2
      <4>1. IsLink(installed[Target(r)][n]) /\ Turn(r, "replace", n) /\ UNCHANGED installed
        BY <2>5, Advance DEF Look, Fail, disk, At, MayReplace
      <4> QED BY <4>1, <2>5, Advance DEF IsLink, Same, Target
    <3>3. CASE ~\E n \in Names : Judge(r, n) \/ Look(r, n)
      <4>1. sync'[r].at \notin {"unlink", "replace"}
        <5>0. sync[r] \in Syncs /\ sync \in [Roots -> Syncs]
          BY DEF TypeInv
        <5>1. CASE Finish(r)
          BY <5>0, <5>1 DEF Finish, NextKind, Syncs, Idle
        <5>6. CASE Start(r)
          BY <5>0, <5>6 DEF Start, Idle
        <5>7. CASE Clear(r)
          <6>1. \E s : Sets(r, "render", s)
            BY <5>7 DEF Clear, Sets
          <6> QED BY <6>1, Advance
        <5>2. CASE \E n \in Names : Render(r, n)
          BY <5>2, Advance DEF Render, Fail, At
        <5>3. CASE List(r) \/ Unlink(r) \/ Link(r) \/ Symlink(r)
          <6>1. Fail(r) \/ \E l \in {"stale", "link"} : \E s : Sets(r, l, s)
            <7>1. CASE List(r)
              BY <7>1 DEF List, Sets
            <7>2. CASE Link(r)
              BY <7>2 DEF Link, Sets
            <7>3. CASE Unlink(r)
              BY <7>3 DEF Unlink, Sets
            <7>4. CASE Symlink(r)
              BY <7>4 DEF Symlink, Sets
            <7> QED BY <5>3, <7>1, <7>2, <7>3, <7>4
          <6> QED BY <6>1, Advance DEF Fail
        <5>4. CASE Refresh(r) \/ WriteInstructions(r) \/ InstallInstructions(r) \/ Replace(r) \/ Kill(r)
          BY <5>4, Advance DEF Refresh, WriteInstructions, InstallInstructions, Replace, Kill, Fail
        <5> QED BY <3>3, <1>3, <5>1, <5>2, <5>3, <5>4, <5>6, <5>7 DEF SyncStep
      <4> QED BY <4>1, <2>5
    <3> QED BY <3>1, <3>2, <3>3
  <2> QED BY <2>4, <2>5
<1>4. ASSUME NEW t \in T, NEW n \in Names, EditInstalled(t, n) PROVE RemovesOwn' /\ edits' # edits
  <2>1. \A r \in Roots : ~Running(r) /\ sync'[r] = sync[r]
    BY <1>4 DEF EditInstalled
  <2>2. RemovesOwn'
    BY <2>1 DEF RemovesOwn, Running
  <2>3. edits' # edits
    BY <1>4 DEF EditInstalled, Edits, TypeInv
  <2> QED
    BY <2>2, <2>3
<1>5. ASSUME NEW r \in Roots, NEW n \in Names, EditSource(r, n) PROVE RemovesOwn' /\ edits' # edits
  BY <1>5 DEF EditSource, Edits, RemovesOwn, TypeInv, Target
<1> QED
  BY <1>1, <1>2, <1>3, <1>4, <1>5 DEF Next, SyncStep, avars

\* While people touch the directories only when no sync runs, no sync removes what they put
\* there: neither the link that is replaced nor the one that is stale is theirs by the time it
\* is removed by name (agents-os.mjs:285-322).
THEOREM UnmanagedStays ==
  ASSUME AtRest
  PROVE  Spec => UnmanagedIsKept
<1>1. Init => RemovesOwn
  BY DEF Init, RemovesOwn, Idle
<1>2. TypeInv /\ RemovesOwn /\ [Next]_avars => RemovesOwn'
  BY ToolsAssumption, RemovesStep
<1>3. TypeInv /\ RemovesOwn /\ [Next]_avars =>
        [\A t \in T, n \in Names : installed[t][n] = Unmanaged /\ installed'[t][n] # Unmanaged => edits' # edits]_avars
  BY ToolsAssumption, RemovesStep
<1> QED
  BY <1>1, <1>2, <1>3, TypesHold, PTL DEF Spec, UnmanagedIsKept

-------------------------------------------------------------------------------
\* What a sync that nothing disturbs leaves

\* What is generated of the names of a target but some
Generated(r, t, todo, d) ==
  \A n \in Names : generated[r][t][n] =
    IF n \in Given(t, source[r].names) \ todo
      THEN [version |-> source[r].version, digest |-> IF n \in Skills THEN d ELSE "source"]
      ELSE Absent

Rendered(r, t) == Generated(r, t, {}, "generated")

Instructed(r, t) == global[t] = [root |-> r, version |-> instructions[r][t]]

\* An owned link that is there leads to something generated.
Leads(t, n) == IsLink(installed[t][n]) => generated[installed[t][n].root][t][n] # Absent

Linked(r, t, names) == \A n \in names : installed[t][n] = [root |-> r]

Clean(t, names) == \A n \in names : Leads(t, n)

LinksDone(r, t, k) == Linked(r, t, Desired(r, t, k)) /\ Clean(t, Of(k) \ Desired(r, t, k))

\* A target that a sync is done with
Repaired(r, t) ==
  /\ Rendered(r, t) /\ Instructed(r, t) /\ LinksDone(r, t, "skills")
  /\ t \in WithAgents => LinksDone(r, t, "agents")

\* How far a sync q is with the kind k of the target t
Progress(r, t, k, q) ==
  /\ q.at = "render" => q.todo \subseteq Given(t, source[r].names) /\ Generated(r, t, q.todo, "source")
  /\ q.at \in {"instructions", "global", "list"} \cup Linking => Rendered(r, t)
  /\ q.at \in {"list"} \cup Linking => Instructed(r, t) /\ (k = "agents" => LinksDone(r, t, "skills"))
  /\ q.at \in {"stale", "unlink"} =>
       Clean(t, Of(k) \ (Desired(r, t, k) \cup q.todo)) /\ q.todo \cap Desired(r, t, k) = {}
  /\ q.at \in {"link", "replace", "symlink"} =>
       /\ Clean(t, Of(k) \ Desired(r, t, k)) /\ Linked(r, t, Desired(r, t, k) \ q.todo)
       /\ q.todo \subseteq Desired(r, t, k)
  /\ k = "agents" => q.at \in {"list", "failed"} \cup Linking

\* What holds of a sync that nothing has disturbed: it is alone, the targets before the one it
\* is at are as it leaves them, and so are all of them when it is done.
Track(r) ==
  /\ \A o \in Roots \ {r} : ~Running(o)
  /\ Running(r) => /\ Progress(r, Target(r), Kind(r), sync[r])
                   /\ \A j \in 1..(sync[r].target - 1) : Repaired(r, Targets[j])
  /\ sync[r].at = "done" => \A t \in T : Repaired(r, t)

CalmOK == \A r \in Roots : calm[r] => Track(r)

\* What is at a target does not change with what is elsewhere.
LEMMA RepairedKept ==
  ASSUME TypeInv, NEW r \in Roots, NEW t \in T, source' = source,
         \A o \in Roots : generated'[o][t] = generated[o][t],
         installed'[t] = installed[t], global'[t] = global[t], instructions'[r][t] = instructions[r][t]
  PROVE  Repaired(r, t) => Repaired(r, t)'
<1>1. \A n \in Names : IsLink(installed[t][n]) => installed[t][n].root \in Roots
  BY DEF TypeInv, IsLink, Links
<1>2. \A k \in {"skills", "agents"} : Of(k) \subseteq Names /\ Desired(r, t, k)' = Desired(r, t, k)
  BY DEF Of, Names, Desired
<1>3. \A n \in Names : Leads(t, n) => Leads(t, n)'
  BY <1>1 DEF Leads
<1>4. \A k \in {"skills", "agents"} : LinksDone(r, t, k) => LinksDone(r, t, k)'
  BY <1>2, <1>3 DEF LinksDone, Linked, Clean
<1> QED
  BY <1>4 DEF Repaired, Rendered, Generated, Instructed

\* A sync touches what belongs to the target that it is at.
LEMMA Elsewhere ==
  ASSUME SyncConstants, TypeInv, NEW r \in Roots, SyncStep(r), NEW u \in T, u # Target(r)
  PROVE  /\ source' = source /\ \A o \in Roots : generated'[o][u] = generated[o][u]
         /\ installed'[u] = installed[u] /\ global'[u] = global[u] /\ instructions'[r][u] = instructions[r][u]
<1>0. Target(r) \in T
  BY SyncTypes
<1>1. generated \in [Roots -> [T -> [Names -> {Absent} \cup Rendering]]]
        /\ installed \in [T -> [Names -> {Absent, Unmanaged} \cup Links]]
      /\ global \in [T -> {Absent} \cup Globals] /\ instructions \in [Roots -> [T -> Nat]]
  BY DEF TypeInv
<1>2. CASE UNCHANGED <<source, generated, instructions, installed, global>>
  BY <1>2
<1>3. ASSUME NEW x, generated' = [generated EXCEPT ![r][Target(r)] = x]
      PROVE \A o \in Roots : generated'[o][u] = generated[o][u]
  BY <1>0, <1>1, <1>3
<1>4. ASSUME NEW x, NEW n, installed' = [installed EXCEPT ![Target(r)][n] = x] PROVE installed'[u] = installed[u]
  BY <1>0, <1>1, <1>4
<1>5. CASE Clear(r)
  BY <1>3, <1>5 DEF Clear
<1>6. CASE \E n \in Names : Render(r, n)
  <2> PICK n \in Names : Render(r, n)
    BY <1>6
  <2>1. \/ generated' = generated
        \/ generated' = [generated EXCEPT ![r][Target(r)] =
             [generated[r][Target(r)] EXCEPT ![n] = [version |-> source[r].version, digest |-> "source"]]]
    BY <1>0, <1>1 DEF Render
  <2> QED BY <2>1, <1>3 DEF Render
<1>7. CASE Refresh(r)
  BY <1>3, <1>7 DEF Refresh
<1>8. CASE WriteInstructions(r)
  BY <1>0, <1>1, <1>8 DEF WriteInstructions
<1>9. CASE InstallInstructions(r)
  BY <1>0, <1>1, <1>9 DEF InstallInstructions
<1>10. CASE Unlink(r) \/ Replace(r) \/ Symlink(r)
  BY <1>4, <1>10 DEF Unlink, Replace, Symlink
<1> QED
  BY <1>2, <1>5, <1>6, <1>7, <1>8, <1>9, <1>10 DEF SyncStep, Start, List, Link, Finish, Kill, Judge, Look, disk

\* One link changes: what is said of other names stays.
LEMMA OneLink ==
  ASSUME TypeInv, NEW r \in Roots, NEW t \in T, NEW n \in Names, NEW x, NEW names, n \notin names,
         names \subseteq Names,
         installed' = [installed EXCEPT ![t][n] = x], generated' = generated
  PROVE  /\ installed'[t][n] = x
         /\ Linked(r, t, names) => Linked(r, t, names)'
         /\ Clean(t, names) => Clean(t, names)'
<1>1. \A m \in Names \ {n} : installed'[t][m] = installed[t][m]
  BY DEF TypeInv
<1>2. installed'[t][n] = x
  BY DEF TypeInv
<1> QED BY <1>1, <1>2 DEF Linked, Clean, Leads

\* What is rendered and what is linked of a kind depends on what is on disk alone.
LEMMA LinksKept ==
  ASSUME TypeInv, NEW r \in Roots, NEW t \in T, source' = source, generated' = generated
  PROVE  /\ Rendered(r, t) => Rendered(r, t)'
         /\ \A k \in {"skills", "agents"} : Desired(r, t, k)' = Desired(r, t, k)
         /\ instructions' = instructions /\ global' = global /\ Instructed(r, t) => Instructed(r, t)'
         /\ \A names : installed' = installed => /\ Linked(r, t, names) => Linked(r, t, names)'
                                                 /\ Clean(t, names) => Clean(t, names)'
         /\ \A k \in {"skills", "agents"} : installed' = installed /\ LinksDone(r, t, k) => LinksDone(r, t, k)'
BY DEF Rendered, Generated, Desired, Instructed, Linked, Clean, Leads, LinksDone

\* Rendering.
LEMMA RenderStep ==
  ASSUME SyncConstants, TypeInv, NEW r \in Roots, NEW t, NEW k, t = Target(r), k = Kind(r),
         Clear(r) \/ (\E n \in Names : Render(r, n)) \/ Refresh(r),
         Progress(r, t, k, sync[r]), sync'[r].at # "failed"
  PROVE  Same(sync'[r], sync[r]) /\ Progress(r, t, k, sync[r])'
<1> PICK q : q = sync[r]
  OBVIOUS
<1> PICK given : given = Given(t, source[r].names)
  OBVIOUS
<1> PICK new : new = [version |-> source[r].version, digest |-> "source"]
  OBVIOUS
<1>0. /\ t \in T /\ q \in Syncs /\ k \in {"skills", "agents"}
      /\ generated \in [Roots -> [T -> [Names -> {Absent} \cup Rendering]]]
      /\ source[r].version \in Nat /\ given \subseteq Names
  BY SyncTypes DEF TypeInv, Given, Names
<1>1. source' = source /\ instructions' = instructions
  BY DEF Clear, Render, Refresh
<1>2. k = "skills"
  BY <1>0 DEF Clear, Render, Refresh, At, Progress, Linking, Changing
<1>3. given = Given(t, source'[r].names)
  BY <1>1
<1>4. CASE Clear(r)
  <2>1. Sets(r, "render", given)
    BY <1>4 DEF Clear, Sets
  <2>2. sync'[r].at = "render" /\ Same(sync'[r], q) /\ sync'[r].todo = given
    BY <2>1, Advance
  <2>3. generated' = [generated EXCEPT ![r][t] = [n \in Names |-> Absent]]
    BY <1>4 DEF Clear
  <2>4. \A n \in Names : generated'[r][t][n] = Absent
    BY <1>0, <2>3
  <2> QED
    BY <1>1, <1>2, <1>3, <2>2, <2>4 DEF Progress, Generated, Linking, Changing
<1>5. CASE \E n \in Names : Render(r, n)
  <2> PICK n \in Names : Render(r, n)
    BY <1>5
  <2>1. n \in source[r].names /\ generated' = [generated EXCEPT ![r][t][n] = new] /\ Pass(r, n)
    BY <1>5, Advance DEF Render, Fail
  <2>2. q.at = "render" /\ n \in q.todo /\ q.todo \subseteq given /\ Generated(r, t, q.todo, "source")
    BY DEF Render, At, Progress
  <2>3. sync'[r].at = "render" /\ Same(sync'[r], q) /\ sync'[r].todo = q.todo \ {n}
    BY <2>1, <2>2, Advance
  <2>4. generated'[r][t][n] = new /\ \A m \in Names \ {n} : generated'[r][t][m] = generated[r][t][m]
    BY <1>0, <2>1
  <2>5. Generated(r, t, q.todo \ {n}, "source")'
    <3> SUFFICES ASSUME NEW m \in Names
                 PROVE  generated'[r][t][m] = IF m \in given \ (q.todo \ {n}) THEN new ELSE Absent
      BY <1>1, <1>3 DEF Generated
    <3>1. generated[r][t][m] = IF m \in given \ q.todo THEN new ELSE Absent
      BY <2>2 DEF Generated
    <3> QED BY <2>2, <2>4, <3>1
  <2> QED
    BY <1>1, <1>2, <1>3, <2>2, <2>3, <2>5 DEF Progress, Linking, Changing
<1>6. CASE Refresh(r)
  <2>1. sync'[r].at = "instructions" /\ Same(sync'[r], q)
    BY <1>6, Advance DEF Refresh
  <2>2. \A n \in Names : generated[r][t][n] = IF n \in given THEN new ELSE Absent
    BY <1>6 DEF Refresh, At, Progress, Generated
  <2>3. generated' = [generated EXCEPT ![r][t] =
          [n \in Names |-> IF generated[r][t][n] # Absent /\ n \in Skills
                             THEN [generated[r][t][n] EXCEPT !.digest = "generated"] ELSE generated[r][t][n]]]
    BY <1>0, <1>6 DEF Refresh
  <2>4. new # Absent /\ [new EXCEPT !.digest = "generated"] = [version |-> source[r].version, digest |-> "generated"]
    BY <1>0 DEF SyncConstants, Rendering
  <2>5. \A n \in Names : generated'[r][t][n] =
          IF n \in given
            THEN [version |-> source[r].version, digest |-> IF n \in Skills THEN "generated" ELSE "source"]
            ELSE Absent
    <3> SUFFICES ASSUME NEW n \in Names
                 PROVE  generated'[r][t][n] =
                   IF n \in given
                     THEN [version |-> source[r].version, digest |-> IF n \in Skills THEN "generated" ELSE "source"]
                     ELSE Absent
      OBVIOUS
    <3>1. generated'[r][t][n] = IF generated[r][t][n] # Absent /\ n \in Skills
                                  THEN [generated[r][t][n] EXCEPT !.digest = "generated"] ELSE generated[r][t][n]
      BY <1>0, <2>3
    <3>2. generated[r][t][n] = IF n \in given THEN new ELSE Absent
      BY <2>2
    <3>3. CASE n \in given /\ n \in Skills
      BY <2>4, <3>1, <3>2, <3>3
    <3>4. CASE n \in given /\ n \notin Skills
      BY <3>1, <3>2, <3>4
    <3>5. CASE n \notin given
      BY <3>1, <3>2, <3>5
    <3> QED BY <3>3, <3>4, <3>5
  <2>6. Rendered(r, t)'
    BY <1>1, <1>3, <2>5 DEF Rendered, Generated
  <2> QED
    BY <1>2, <2>1, <2>6 DEF Progress, Linking, Changing
<1> QED BY <1>4, <1>5, <1>6

\* Instructions, and the list of what is there.
LEMMA InstructStep ==
  ASSUME SyncConstants, TypeInv, NEW r \in Roots, NEW t, NEW k, t = Target(r), k = Kind(r),
         WriteInstructions(r) \/ InstallInstructions(r) \/ List(r), Progress(r, t, k, sync[r])
  PROVE  Same(sync'[r], sync[r]) /\ Progress(r, t, k, sync[r])'
<1> PICK q : q = sync[r]
  OBVIOUS
<1>0. t \in T /\ q \in Syncs /\ k \in {"skills", "agents"} /\ Of(k) \subseteq Names
  BY SyncTypes DEF TypeInv
<1>1. source' = source /\ generated' = generated /\ installed' = installed
  BY DEF WriteInstructions, InstallInstructions, List, disk
<1>2. CASE WriteInstructions(r)
  <2>1. sync'[r].at = "global" /\ Same(sync'[r], q) /\ k = "skills"
    BY <1>0, <1>2, Advance DEF WriteInstructions, At, Progress, Linking, Changing
  <2>2. Rendered(r, t)'
    BY <1>0, <1>1, <1>2 DEF WriteInstructions, At, Progress, Rendered, Generated
  <2> QED BY <2>1, <2>2 DEF Progress, Linking, Changing
<1>3. CASE InstallInstructions(r)
  <2>1. sync'[r].at = "list" /\ Same(sync'[r], q) /\ k = "skills"
    BY <1>0, <1>3, Advance DEF InstallInstructions, At, Progress, Linking, Changing
  <2>2. Rendered(r, t)'
    BY <1>0, <1>1, <1>3 DEF InstallInstructions, At, Progress, Rendered, Generated
  <2>3. Instructed(r, t)'
    BY <1>0, <1>3 DEF InstallInstructions, Instructed, TypeInv
  <2> QED BY <2>1, <2>2, <2>3 DEF Progress, Linking, Changing
<1>4. CASE List(r)
  <2> PICK d : d = Desired(r, t, k)
    OBVIOUS
  <2> PICK s : s = {n \in Of(k) \ d : IsLink(installed[t][n])}
    OBVIOUS
  <2>1. Sets(r, "stale", s)
    BY <1>4 DEF List, Sets
  <2>2. sync'[r].at = "stale" /\ Same(sync'[r], q) /\ sync'[r].todo = s
    BY <2>1, Advance
  <2>3. q.at = "list" /\ instructions' = instructions /\ global' = global
    BY <1>4 DEF List, At, disk
  <2>4. Rendered(r, t)' /\ Instructed(r, t)' /\ (k = "agents" => LinksDone(r, t, "skills")')
        /\ Desired(r, t, k)' = d
    BY <1>0, <1>1, <2>3 DEF Progress, Rendered, Generated, Instructed, LinksDone, Linked, Clean, Leads, Desired
  <2>5. Clean(t, Of(k) \ (d \cup s))'
    BY <1>1 DEF Clean, Leads
  <2>6. s \cap d = {}
    OBVIOUS
  <2> QED BY <2>2, <2>4, <2>5, <2>6 DEF Progress, Linking, Changing
<1> QED BY <1>2, <1>3, <1>4

\* What has been rendered and instructed, and the links of the skills while those of the agents
\* are seen to, stay while links change.
LEMMA OthersKept ==
  ASSUME SyncConstants, TypeInv, NEW r \in Roots, NEW t \in T, NEW k \in {"skills", "agents"}, NEW n \in Of(k),
         NEW x,
         installed' = installed \/ installed' = [installed EXCEPT ![t][n] = x],
         source' = source, generated' = generated, instructions' = instructions, global' = global,
         Rendered(r, t), Instructed(r, t), k = "agents" => LinksDone(r, t, "skills")
  PROVE  /\ Rendered(r, t)' /\ Instructed(r, t)' /\ (k = "agents" => LinksDone(r, t, "skills")')
         /\ Desired(r, t, k)' = Desired(r, t, k)
         /\ \A names \in SUBSET (Of(k) \ {n}) : /\ Linked(r, t, names) => Linked(r, t, names)'
                                                /\ Clean(t, names) => Clean(t, names)'
<1>1. Rendered(r, t)' /\ Instructed(r, t)' /\ \A j \in {"skills", "agents"} : Desired(r, t, j)' = Desired(r, t, j)
  BY DEF Rendered, Generated, Instructed, Desired
<1>2. n \in Names /\ Of(k) \subseteq Names /\ Of("skills") \subseteq Names
        /\ (k = "agents" => n \notin Of("skills"))
  BY DEF Of, Names, SyncConstants
<1>3. ASSUME NEW names \in SUBSET Names, n \notin names
      PROVE  (Linked(r, t, names) => Linked(r, t, names)') /\ (Clean(t, names) => Clean(t, names)')
  <2>1. CASE installed' = installed
    BY <2>1 DEF Linked, Clean, Leads
  <2>2. CASE installed' = [installed EXCEPT ![t][n] = x]
    BY <1>2, <1>3, <2>2, OneLink
  <2> QED BY <2>1, <2>2
<1>4. k = "agents" => LinksDone(r, t, "skills")'
  <2> SUFFICES ASSUME k = "agents" PROVE LinksDone(r, t, "skills")'
    OBVIOUS
  <2> PICK d : d = Desired(r, t, "skills")
    OBVIOUS
  <2>1. d \subseteq Names /\ Of("skills") \ d \subseteq Names /\ n \notin d /\ n \notin Of("skills") \ d
    BY <1>2 DEF Desired
  <2>2. Linked(r, t, d)' /\ Clean(t, Of("skills") \ d)'
    BY <1>3, <2>1 DEF LinksDone
  <2> QED BY <1>1, <2>2 DEF LinksDone
<1> QED BY <1>1, <1>2, <1>3, <1>4

\* What is stale is unlinked.
LEMMA StaleStep ==
  ASSUME SyncConstants, TypeInv, NEW r \in Roots, NEW t, NEW k, t = Target(r), k = Kind(r),
         (\E n \in Names : Judge(r, n)) \/ Unlink(r) \/ Link(r),
         Progress(r, t, k, sync[r]), sync'[r].at # "failed"
  PROVE  Same(sync'[r], sync[r]) /\ Progress(r, t, k, sync[r])'
<1> PICK q : q = sync[r]
  OBVIOUS
<1> PICK d : d = Desired(r, t, k)
  OBVIOUS
<1>0. /\ t \in T /\ q \in Syncs /\ k \in {"skills", "agents"} /\ Of(k) \subseteq Names /\ d \subseteq Of(k)
      /\ q.at \in Linking => q.todo \subseteq Of(k)
      /\ q.at \in Changing => q.name \in q.todo
  BY SyncTypes DEF TypeInv
<1>1. q.at \in {"stale", "unlink"} /\ "stale" \in Linking /\ "unlink" \in Linking
  BY DEF Judge, Unlink, Link, At, Linking, Changing
<1>2. Rendered(r, t) /\ Instructed(r, t) /\ (k = "agents" => LinksDone(r, t, "skills"))
      /\ Clean(t, Of(k) \ (d \cup q.todo)) /\ q.todo \cap d = {} /\ q.todo \subseteq Of(k)
  BY <1>0, <1>1 DEF Progress
<1>3. source' = source /\ generated' = generated /\ instructions' = instructions /\ global' = global
  BY DEF Judge, Unlink, Link, disk
<1>4. CASE \E n \in Names : Judge(r, n)
  <2> PICK n \in Names : Judge(r, n)
    BY <1>4
  <2>1. installed' = installed /\ n \in q.todo /\ q.at = "stale"
    BY DEF Judge, disk, At
  <2>2. Rendered(r, t)' /\ Instructed(r, t)' /\ (k = "agents" => LinksDone(r, t, "skills")')
          /\ Desired(r, t, k)' = d
    BY <1>0, <1>2, <1>3, <2>1, OthersKept
  <2>3. \A m : Leads(t, m) => Leads(t, m)'
    BY <1>3, <2>1 DEF Leads
  <2>4. CASE Turn(r, "unlink", n)
    <3>1. sync'[r].at = "unlink" /\ Same(sync'[r], q) /\ sync'[r].todo = q.todo
      BY <2>4, Advance
    <3>2. Clean(t, Of(k) \ (d \cup q.todo))'
      BY <1>2, <2>3 DEF Clean
    <3> QED BY <1>2, <2>2, <3>1, <3>2 DEF Progress, Linking, Changing
  <2>5. CASE ~StaleLink(t, n) /\ Pass(r, n)
    <3>1. sync'[r].at = "stale" /\ Same(sync'[r], q) /\ sync'[r].todo = q.todo \ {n}
      BY <2>1, <2>5, Advance
    <3>2. Leads(t, n)
      BY <2>5 DEF StaleLink, Leads
    <3>3. Clean(t, Of(k) \ (d \cup (q.todo \ {n})))'
      BY <1>2, <2>3, <3>2 DEF Clean
    <3> QED BY <1>2, <2>2, <3>1, <3>3 DEF Progress, Linking, Changing
  <2> QED
    BY <2>4, <2>5, Advance DEF Judge, Fail
<1>5. CASE Unlink(r)
  <2>1. q.name \in q.todo /\ installed' = [installed EXCEPT ![t][q.name] = Absent]
    BY <1>0, <1>5 DEF Unlink, At, Changing
  <2>2. Sets(r, "stale", q.todo \ {q.name})
    BY <1>5 DEF Unlink, Sets, TypeInv
  <2>3. sync'[r].at = "stale" /\ Same(sync'[r], q) /\ sync'[r].todo = q.todo \ {q.name}
    BY <2>2, Advance
  <2>4. q.name \in Of(k) /\ q.name \in Names /\ q.name \notin Of(k) \ (d \cup q.todo)
    BY <1>0, <1>2, <2>1
  <2> PICK others \in SUBSET (Of(k) \ {q.name}) : others = Of(k) \ (d \cup q.todo)
    BY <2>4
  <2>5. Rendered(r, t)' /\ Instructed(r, t)' /\ (k = "agents" => LinksDone(r, t, "skills")')
          /\ Desired(r, t, k)' = d
        /\ Clean(t, others)'
    BY <1>0, <1>2, <1>3, <2>1, <2>4, OthersKept
  <2>6. installed'[t][q.name] = Absent
    BY <1>0, <2>1, <2>4 DEF TypeInv
  <2>7. Leads(t, q.name)'
    BY <2>6 DEF Leads, IsLink
  <2>8. Clean(t, Of(k) \ (d \cup (q.todo \ {q.name})))'
    BY <2>5, <2>7 DEF Clean
  <2> QED BY <1>2, <2>3, <2>5, <2>8 DEF Progress, Linking, Changing
<1>6. CASE Link(r)
  <2>1. installed' = installed /\ q.todo = {} /\ Sets(r, "link", d)
    BY <1>6 DEF Link, disk, Sets
  <2>2. sync'[r].at = "link" /\ Same(sync'[r], q) /\ sync'[r].todo = d
    BY <2>1, Advance
  <2>3. Rendered(r, t)' /\ Instructed(r, t)' /\ (k = "agents" => LinksDone(r, t, "skills")')
          /\ Desired(r, t, k)' = d
    <3>1. CASE k = "agents"
      BY <1>0, <1>2, <1>3, <2>1, <3>1 DEF Rendered, Generated, Instructed, Desired, LinksDone, Linked, Clean, Leads
    <3>2. CASE k # "agents"
      BY <1>0, <1>2, <1>3, <2>1, <3>2 DEF Rendered, Generated, Instructed, Desired
    <3> QED BY <3>1, <3>2
  <2>4. Clean(t, Of(k) \ d)' /\ Linked(r, t, d \ d)'
    BY <1>2, <1>3, <2>1 DEF Clean, Leads, Linked
  <2> QED BY <2>2, <2>3, <2>4 DEF Progress, Linking, Changing
<1> QED BY <1>4, <1>5, <1>6

\* What is desired is linked.
LEMMA LinkStep ==
  ASSUME SyncConstants, TypeInv, NEW r \in Roots, NEW t, NEW k, t = Target(r), k = Kind(r),
         (\E n \in Names : Look(r, n)) \/ Replace(r) \/ Symlink(r),
         Progress(r, t, k, sync[r]), sync'[r].at # "failed"
  PROVE  Same(sync'[r], sync[r]) /\ Progress(r, t, k, sync[r])'
<1> PICK q : q = sync[r]
  OBVIOUS
<1> PICK d : d = Desired(r, t, k)
  OBVIOUS
<1>0. /\ t \in T /\ q \in Syncs /\ k \in {"skills", "agents"} /\ Of(k) \subseteq Names /\ d \subseteq Of(k)
      /\ q.at \in Changing => q.name \in q.todo
  BY SyncTypes DEF TypeInv
<1>1. q.at \in {"link", "replace", "symlink"}
  BY DEF Look, Replace, Symlink, At
<1>2. Rendered(r, t) /\ Instructed(r, t) /\ (k = "agents" => LinksDone(r, t, "skills"))
      /\ Clean(t, Of(k) \ d) /\ Linked(r, t, d \ q.todo) /\ q.todo \subseteq d
  BY <1>0, <1>1 DEF Progress, Linking, Changing
<1>3. source' = source /\ generated' = generated /\ instructions' = instructions /\ global' = global
  BY DEF Look, Replace, Symlink, disk
<1>4. ASSUME NEW n \in q.todo, NEW x, installed' = installed \/ installed' = [installed EXCEPT ![t][n] = x]
      PROVE  /\ Rendered(r, t)' /\ Instructed(r, t)' /\ (k = "agents" => LinksDone(r, t, "skills")') /\ Desired(r, t, k)' = d
             /\ Clean(t, Of(k) \ d)' /\ Linked(r, t, d \ q.todo)'
  <2>1. n \in Of(k)
    BY <1>0, <1>2
  <2> PICK others \in SUBSET (Of(k) \ {n}) : others = Of(k) \ d
    BY <1>2
  <2> PICK done \in SUBSET (Of(k) \ {n}) : done = d \ q.todo
    BY <1>0
  <2>2. /\ Rendered(r, t)' /\ Instructed(r, t)' /\ (k = "agents" => LinksDone(r, t, "skills")')
        /\ Desired(r, t, k)' = d
        /\ \A names \in SUBSET (Of(k) \ {n}) : /\ Linked(r, t, names) => Linked(r, t, names)'
                                               /\ Clean(t, names) => Clean(t, names)'
    BY <1>0, <1>2, <1>3, <1>4, <2>1, OthersKept
  <2>3. Linked(r, t, done)' /\ Clean(t, others)'
    BY <1>2, <2>2
  <2> QED BY <2>2, <2>3
<1>5. CASE \E n \in Names : Look(r, n)
  <2> PICK n \in Names : Look(r, n)
    BY <1>5
  <2>1. installed' = installed /\ n \in q.todo /\ q.at = "link"
    BY DEF Look, disk, At
  <2>2. CASE Turn(r, "replace", n) \/ Turn(r, "symlink", n)
    <3>1. sync'[r].at \in {"replace", "symlink"} /\ Same(sync'[r], q) /\ sync'[r].todo = q.todo
      BY <2>2, Advance
    <3> QED BY <1>2, <1>4, <2>1, <3>1 DEF Progress, Linking, Changing
  <2>3. CASE installed[t][n] = [root |-> r] /\ Pass(r, n)
    <3>1. sync'[r].at = "link" /\ Same(sync'[r], q) /\ sync'[r].todo = q.todo \ {n}
      BY <2>1, <2>3, Advance
    <3>2. Linked(r, t, d \ (q.todo \ {n}))'
      BY <1>4, <2>1, <2>3 DEF Linked
    <3> QED BY <1>2, <1>4, <2>1, <3>1, <3>2 DEF Progress, Linking, Changing
  <2> QED
    BY <2>2, <2>3, Advance DEF Look, Fail
<1>6. CASE Replace(r)
  <2>1. q.name \in q.todo /\ installed' = [installed EXCEPT ![t][q.name] = Absent]
    BY <1>0, <1>6 DEF Replace, At, Changing
  <2>2. sync'[r].at = "symlink" /\ Same(sync'[r], q) /\ sync'[r].todo = q.todo
    BY <1>6, Advance DEF Replace
  <2> QED BY <1>2, <1>4, <2>1, <2>2 DEF Progress, Linking, Changing
<1>7. CASE Symlink(r)
  <2>0. ~Fail(r)
    BY Advance DEF Fail
  <2>1. q.name \in q.todo /\ installed' = [installed EXCEPT ![t][q.name] = [root |-> r]]
    BY <1>0, <1>7, <2>0 DEF Symlink, At, Changing
  <2>2. Sets(r, "link", q.todo \ {q.name})
    BY <1>7, <2>0 DEF Symlink, Sets, TypeInv
  <2>3. sync'[r].at = "link" /\ Same(sync'[r], q) /\ sync'[r].todo = q.todo \ {q.name}
    BY <2>2, Advance
  <2>4. installed'[t][q.name] = [root |-> r]
    BY <1>0, <1>2, <2>1 DEF TypeInv
  <2>5. Linked(r, t, d \ (q.todo \ {q.name}))'
    BY <1>4, <2>1, <2>4 DEF Linked
  <2> QED BY <1>2, <1>4, <2>1, <2>3, <2>5 DEF Progress, Linking, Changing
<1> QED BY <1>5, <1>6, <1>7

\* A sync that nothing disturbs goes on as it should.
LEMMA TrackStep ==
  ASSUME SyncConstants, TypeInv, NEW r \in Roots, Track(r), SyncStep(r), ~Start(r), ~Kill(r)
  PROVE  Track(r)'
<1> PICK q : q = sync[r]
  OBVIOUS
<1> PICK t : t = Target(r)
  OBVIOUS
<1> PICK k : k = Kind(r)
  OBVIOUS
<1>0. /\ t \in T /\ t = Targets[q.target] /\ q.target \in 1..Len(Targets) /\ Len(Targets) \in Nat /\ q \in Syncs
      /\ k \in {"skills", "agents"} /\ k = Kinds[q.kind] /\ (k = "agents" => t \in WithAgents)
           /\ Of(k) \subseteq Names
  BY SyncTypes DEF TypeInv, SyncConstants
<1>1. \A o \in Roots \ {r} : sync'[o] = sync[o]
  BY SyncKept, OneSync
<1>2. \A o \in Roots \ {r} : ~Running(o)'
  BY <1>1 DEF Track, Running
<1>3. Running(r)
  BY DEF SyncStep, Clear, Refresh, WriteInstructions, InstallInstructions, List, Unlink, Link, Replace, Symlink,
         Finish, Render, Judge, Look, At, Running
<1>4. Progress(r, t, k, q) /\ \A j \in 1..(q.target - 1) : Repaired(r, Targets[j])
  BY <1>3 DEF Track
<1>5. ASSUME NEW u \in T, Repaired(r, u), u # t PROVE Repaired(r, u)'
  BY <1>5, Elsewhere, RepairedKept
<1>6. \A j \in 1..(q.target - 1) : Targets[j] \in T /\ Targets[j] # t
  BY <1>0 DEF SyncConstants, T
<1>7. CASE ~Finish(r) /\ sync'[r].at = "failed"
  BY <1>2, <1>7 DEF Track, Running
<1>8. CASE ~Finish(r) /\ sync'[r].at # "failed"
  <2>1. Same(sync'[r], q) /\ Progress(r, t, k, sync[r])'
    BY <1>4, <1>8, RenderStep, InstructStep, StaleStep, LinkStep DEF SyncStep
  <2>2. Target(r)' = t /\ Kind(r)' = k /\ sync'[r].target = q.target
    BY <2>1 DEF Same, Target, Kind
  <2>3. \A j \in 1..(sync'[r].target - 1) : Repaired(r, Targets[j])'
    BY <1>4, <1>5, <1>6, <2>2
  <2>4. sync'[r].at # "done"
    <3>1. CASE Clear(r) \/ List(r) \/ Link(r) \/ Unlink(r) \/ Symlink(r)
      <4>1. Fail(r) \/ \E l \in {"render", "stale", "link"} : \E s : Sets(r, l, s)
        <5>1. CASE Clear(r)
          BY <5>1 DEF Clear, Sets
        <5>2. CASE List(r) \/ Link(r)
          BY <5>2 DEF List, Link, Sets
        <5>3. CASE Unlink(r) \/ Symlink(r)
          BY <5>3 DEF Unlink, Symlink, Sets
        <5> QED BY <3>1, <5>1, <5>2, <5>3
      <4> QED BY <4>1, Advance DEF Fail
    <3>2. CASE Refresh(r) \/ WriteInstructions(r) \/ InstallInstructions(r) \/ Replace(r)
      BY <3>2, Advance DEF Refresh, WriteInstructions, InstallInstructions, Replace
    <3>3. CASE \E n \in Names : Render(r, n) \/ Judge(r, n) \/ Look(r, n)
      BY <3>3, Advance DEF Render, Judge, Look, Fail, At
    <3> QED BY <1>8, <3>1, <3>2, <3>3 DEF SyncStep
  <2> QED BY <1>2, <2>1, <2>2, <2>3, <2>4 DEF Track
<1>9. CASE Finish(r)
  <2>1. q.at = "link" /\ q.todo = {} /\ NextKind(r)
        /\ UNCHANGED <<source, generated, instructions, installed, global>>
    BY <1>9 DEF Finish, At, disk
  <2>2. /\ Rendered(r, t) /\ Instructed(r, t) /\ LinksDone(r, t, k)
        /\ k = "agents" => LinksDone(r, t, "skills")
    BY <1>4, <2>1 DEF Progress, LinksDone, Linking, Changing
  <2>3. \A u : Repaired(r, u) => Repaired(r, u)'
    BY <2>1 DEF Repaired, Rendered, Generated, Instructed, LinksDone, Linked, Clean, Leads, Desired
  <2>4. CASE k = "skills" /\ t \in WithAgents
    <3>1. sync' = [sync EXCEPT ![r] = [sync[r] EXCEPT !.at = "list", !.kind = 2]]
      BY <2>1, <2>4 DEF NextKind, TypeInv
    <3>2. sync'[r].at = "list" /\ sync'[r].kind = 2 /\ sync'[r].target = q.target
      BY <3>1 DEF TypeInv, Syncs
    <3>3. Target(r)' = t /\ Kind(r)' = "agents"
      BY <1>0, <3>2 DEF Target, Kind, Kinds
    <3>4. Rendered(r, t)' /\ Instructed(r, t)' /\ LinksDone(r, t, "skills")'
      BY <2>1, <2>2, <2>4 DEF Rendered, Generated, Instructed, LinksDone, Linked, Clean, Leads, Desired
    <3>5. Progress(r, t, "agents", sync[r])'
      BY <3>2, <3>4 DEF Progress, Linking, Changing
    <3> QED BY <1>2, <1>4, <2>3, <3>2, <3>3, <3>5 DEF Track
  <2>5. CASE ~(k = "skills" /\ t \in WithAgents)
    <3>1. Repaired(r, t)
      BY <1>0, <2>2, <2>5 DEF Repaired
    <3>2. \A j \in 1..q.target : Repaired(r, Targets[j])'
      BY <1>0, <1>4, <2>3, <3>1
    <3>3. CASE q.target < Len(Targets)
      <4>1. sync' = [sync EXCEPT ![r] = [Idle EXCEPT !.at = "clear", !.target = q.target + 1]]
        BY <2>1, <2>5, <3>3 DEF NextKind, TypeInv
      <4>2. sync'[r].at = "clear" /\ sync'[r].kind = 1 /\ sync'[r].target = q.target + 1
        BY <4>1 DEF TypeInv, Syncs, Idle
      <4>3. Kind(r)' = "skills" /\ sync'[r].target - 1 = q.target
        BY <1>0, <4>2 DEF Kind, Kinds
      <4>4. Progress(r, Target(r), Kind(r), sync[r])'
        BY <4>2, <4>3 DEF Progress, Linking, Changing
      <4> QED BY <1>2, <3>2, <4>2, <4>3, <4>4 DEF Track
    <3>4. CASE ~(q.target < Len(Targets))
      <4>1. sync' = [sync EXCEPT ![r] = [Idle EXCEPT !.at = "done"]]
        BY <2>1, <2>5, <3>4 DEF NextKind, TypeInv
      <4>2. sync'[r].at = "done"
        BY <4>1 DEF TypeInv, Idle
      <4>3. \A u \in T : Repaired(r, u)'
        BY <1>0, <3>2, <3>4 DEF T, SyncConstants
      <4> QED BY <1>2, <4>2, <4>3 DEF Track, Running
    <3> QED BY <3>3, <3>4
  <2> QED BY <2>4, <2>5
<1> QED BY <1>7, <1>8, <1>9

\* A sync that begins, or is killed, or that another disturbs, and what people do.
LEMMA CalmStep ==
  ASSUME SyncConstants, TypeInv, CalmOK, [Next]_avars
  PROVE  CalmOK'
<1> SUFFICES ASSUME NEW r \in Roots, calm'[r] PROVE Track(r)'
  BY DEF CalmOK
<1>1. CASE UNCHANGED avars
  <2>1. CalmOK /\ calm[r]
    BY <1>1 DEF avars
  <2>2. /\ \A t, names : (Linked(r, t, names) => Linked(r, t, names)') /\ (Clean(t, names) => Clean(t, names)')
        /\ \A t, k : Desired(r, t, k)' = Desired(r, t, k)
        /\ \A t, names, d : Generated(r, t, names, d) => Generated(r, t, names, d)'
        /\ \A t : Instructed(r, t) => Instructed(r, t)'
    BY <1>1 DEF avars, Generated, Instructed, Linked, Clean, Leads, Desired
  <2>3. \A t, k : LinksDone(r, t, k) => LinksDone(r, t, k)'
    BY <2>2 DEF LinksDone
  <2>4. \A t : (Rendered(r, t) => Rendered(r, t)') /\ (Repaired(r, t) => Repaired(r, t)')
    BY <2>2, <2>3 DEF Rendered, Repaired
  <2>5. source' = source /\ sync' = sync
    BY <1>1 DEF avars
  <2>6. \A t, k, q : Progress(r, t, k, q) => Progress(r, t, k, q)'
    BY <2>2, <2>3, <2>4, <2>5 DEF Progress
  <2>7. Target(r)' = Target(r) /\ Kind(r)' = Kind(r)
    BY <2>5 DEF Target, Kind
  <2> QED BY <2>1, <2>4, <2>5, <2>6, <2>7 DEF CalmOK, Track, Running
<1>2. ASSUME Edits PROVE FALSE
  BY <1>2 DEF Edits
<1>3. ASSUME NEW o \in Roots, SyncStep(o) PROVE Track(r)'
  <2>1. CASE Start(o)
    <3>1. r = o /\ \A u \in Roots \ {r} : ~Running(u)
      BY <2>1 DEF Start
    <3>2. sync' = [sync EXCEPT ![r] = [Idle EXCEPT !.at = "clear"]]
      BY <2>1, <3>1 DEF Start
    <3>3. sync'[r].at = "clear" /\ sync'[r].kind = 1 /\ sync'[r].target = 1
            /\ \A u \in Roots \ {r} : sync'[u] = sync[u]
      BY <3>2 DEF TypeInv, Idle
    <3>4. Kind(r)' = "skills" /\ 1..(sync'[r].target - 1) = {}
      BY <3>3 DEF Kind, Kinds
    <3>5. Progress(r, Target(r), Kind(r), sync[r])'
      BY <3>3, <3>4 DEF Progress, Linking, Changing
    <3> QED BY <3>1, <3>3, <3>4, <3>5 DEF Track, Running
  <2>2. CASE ~Start(o)
    <3>1. calm[r] /\ Track(r)
      BY <1>3, <2>2 DEF CalmOK, SyncStep, Clear, Refresh, WriteInstructions, InstallInstructions, List, Unlink,
         Link,
         Replace, Symlink, Finish, Kill, Render, Judge, Look, count
    <3>2. Running(o)
      BY <1>3, <2>2 DEF SyncStep, Clear, Refresh, WriteInstructions, InstallInstructions, List, Unlink, Link,
         Replace,
         Symlink, Finish, Kill, Render, Judge, Look, At, Running
    <3>3. o = r
      BY <3>1, <3>2 DEF Track
    <3>4. CASE Kill(o)
      <4>1. sync'[r].at = "failed" /\ \A u \in Roots \ {r} : sync'[u] = sync[u]
        BY <3>3, <3>4 DEF Kill, Fail, Go, TypeInv, Syncs
      <4> QED BY <3>1, <4>1 DEF Track, Running
    <3> QED BY <1>3, <2>2, <3>1, <3>3, <3>4, TrackStep
  <2> QED BY <2>1, <2>2
<1> QED
  BY <1>1, <1>2, <1>3 DEF Next, SyncStep, EditSource, EditInstalled

\* What the checked agent may do is safe for every target.
LEMMA ProfilesAreSafe ==
  ASSUME SyncConstants, TypeInv, NEW t \in T
  PROVE  ProfileIsSafe(t)
<1>1. /\ {"read", "bash", "grep"} \subseteq profile.tools /\ profile.tools \cap {"glob", "find"} # {}
      /\ Writing \subseteq profile.disallowed
  BY DEF SyncConstants, TypeInv
<1>2. "write" \in profile.disallowed \cap Writing
  BY <1>1 DEF Writing
<1>3. Declared(profile) = profile.tools \ Writing
  BY <1>2 DEF Declared
<1>4. {"read", "glob", "grep", "bash", "skill"} \subseteq OpenCodeGrants(profile)
        /\ "edit" \notin OpenCodeGrants(profile)
  BY <1>1, <1>2, <1>3 DEF OpenCodeGrants, Writing
<1>5. {"edit", "task", "webfetch", "todowrite"} \subseteq OpenCodeDenies(profile)
  BY <1>2, <1>4 DEF OpenCodeDenies
<1>6. "bash" \in ClaudeTools(profile)
  BY <1>1 DEF ClaudeTools, ClaudeName
<1>7. \A tool \in Writing : ClaudeName(tool) = tool
  BY DEF Writing, ClaudeName
<1>8. Writing \subseteq ClaudeDenies(profile)
  BY <1>1, <1>7 DEF ClaudeDenies
<1> QED BY <1>4, <1>5, <1>6, <1>8 DEF ProfileIsSafe

\* What a sync leaves is what doctor asks for.
LEMMA CalmSuffices ==
  ASSUME SyncConstants, TypeInv, CalmOK
  PROVE  SyncRepairs
<1> SUFFICES ASSUME NEW r \in Roots, NEW t \in T, sync[r].at = "done", calm[r],
                    Desired(r, t, "agents") \subseteq source[r].names
             PROVE  /\ Healthy(r, t)
                    /\ \A n \in Names : generated[r][t][n] # Absent <=> n \in Given(t, source[r].names)
                    /\ \A n \in Names : generated[r][t][n] # Absent =>
                         /\ generated[r][t][n].version = source[r].version
                         /\ n \in Skills => generated[r][t][n].digest = "generated"
                    /\ \A n \in Names : IsLink(installed[t][n]) => generated[installed[t][n].root][t][n] # Absent
  BY DEF SyncRepairs
<1> PICK given : given = Given(t, source[r].names)
  OBVIOUS
<1>1. /\ Rendered(r, t) /\ Instructed(r, t) /\ LinksDone(r, t, "skills")
      /\ t \in WithAgents => LinksDone(r, t, "agents")
  BY DEF CalmOK, Track, Repaired
<1>2. \A n \in Names : generated[r][t][n] =
        IF n \in given
          THEN [version |-> source[r].version, digest |-> IF n \in Skills THEN "generated" ELSE "source"]
          ELSE Absent
  BY <1>1 DEF Rendered, Generated
<1>3. source[r].version \in Nat /\ Absent \notin Rendering
  BY DEF TypeInv, SyncConstants
<1>4. ASSUME NEW n \in Names, n \in given PROVE generated[r][t][n] \in Rendering /\ generated[r][t][n] # Absent
  <2>1. \A d \in {"source", "generated"} : [version |-> source[r].version, digest |-> d] \in Rendering
    BY <1>3 DEF Rendering
  <2>2. \E d \in {"source", "generated"} : generated[r][t][n] = [version |-> source[r].version, digest |-> d]
    BY <1>2, <1>4
  <2> QED BY <1>3, <2>1, <2>2
<1>5. \A n \in Names : generated[r][t][n] # Absent <=> n \in given
  BY <1>2, <1>4
<1>6. ASSUME NEW n \in Names, generated[r][t][n] # Absent
      PROVE  generated[r][t][n].version = source[r].version
               /\ (n \in Skills => generated[r][t][n].digest = "generated")
  <2>1. generated[r][t][n] = [version |-> source[r].version, digest |-> IF n \in Skills THEN "generated" ELSE "source"]
    BY <1>2, <1>6
  <2> QED BY <2>1
<1>7. Desired(r, t, "skills") \subseteq Skills /\ Desired(r, t, "agents") \subseteq Agents
      /\ \A n \in Desired(r, t, "skills") : generated[r][t][n] # Absent
  BY DEF Desired, Of, SyncConstants
<1>8. t \in WithAgents => \A n \in Desired(r, t, "agents") : n \in given
  BY <1>7 DEF Given
<1>9. t \in WithAgents => \A n \in Desired(r, t, "agents") : generated[r][t][n] # Absent
  BY <1>4, <1>7, <1>8 DEF Names
<1>10. \A n \in Surface(r, t) : installed[t][n] = [root |-> r]
  BY <1>1 DEF Surface, LinksDone, Linked
<1>11. global[t] # Absent /\ global[t].version = instructions[r][t]
  <2>1. global[t] = [root |-> r, version |-> instructions[r][t]] /\ instructions[r][t] \in Nat
    BY <1>1 DEF Instructed, TypeInv
  <2>2. [root |-> r, version |-> instructions[r][t]] \in Globals
    BY <2>1 DEF Globals
  <2> QED BY <2>1, <2>2 DEF SyncConstants
<1>12. Healthy(r, t)
  BY <1>5, <1>9, <1>10, <1>11, ProfilesAreSafe DEF Healthy, Names
<1>13. ASSUME NEW k \in {"skills", "agents"}, LinksDone(r, t, k),
              \A n \in Desired(r, t, k) : generated[r][t][n] # Absent,
              NEW n \in Of(k)
       PROVE  Leads(t, n)
  BY <1>13 DEF LinksDone, Linked, Clean, Leads
<1>14. \A n \in Skills : Leads(t, n)
  BY <1>1, <1>7, <1>13 DEF Of
<1>15. \A n \in Agents : Leads(t, n)
  <2>1. CASE t \in WithAgents
    BY <1>1, <1>9, <1>13, <2>1 DEF Of
  <2>2. CASE t \notin WithAgents
    BY <2>2 DEF TypeInv, AgentsOnlyWhereGiven, Leads
  <2> QED BY <2>1, <2>2
<1> QED
  BY <1>5, <1>6, <1>12, <1>14, <1>15 DEF Leads, Names

\* The variables keep their types, which is what is said of them and more: a sync is about to
\* change only what it has to do, and agents are linked only where they are given.
THEOREM TypeCorrect == Spec => []TypeOK
<1>1. TypeInv => TypeOK
  BY DEF TypeInv, TypeOK, Syncs, Labels
<1> QED
  BY <1>1, TypesHold, PTL

\* Whatever was left by syncs of any checkout that were killed, that failed or that overtook each
\* other, and whatever people did before: a sync that nothing disturbs leaves what doctor asks
\* for, generated from the present sources, and no owned link that leads nowhere
\* (agents-os.mjs:296-325, 472-494).
THEOREM SyncStaysRepaired == Spec => []SyncRepairs
<1>1. Init => CalmOK
  BY DEF Init, CalmOK
<1>2. TypeInv /\ CalmOK /\ [Next]_avars => CalmOK'
  BY ToolsAssumption, CalmStep
<1>3. TypeInv /\ CalmOK => SyncRepairs
  BY ToolsAssumption, CalmSuffices
<1> QED
  BY <1>1, <1>2, <1>3, TypesHold, PTL DEF Spec

-------------------------------------------------------------------------------
(* Counting *)

\* As many more elements as there are numbers that follow
LEMMA CountMore ==
  ASSUME NEW m \in Nat, NEW i \in Nat, NEW X \in SUBSET (1 .. m)
  PROVE  /\ IsFiniteSet(X) /\ Cardinality(X) \in Nat
         /\ Cardinality(X \cup (m + 1 .. m + i)) = Cardinality(X) + i
<1>1. IsFiniteSet(X) /\ Cardinality(X) \in Nat
  <2>1. IsFiniteSet(1 .. m)
    BY FS_Interval
  <2>2. IsFiniteSet(X)
    BY <2>1, FS_Subset
  <2> QED
    BY <2>2, FS_CardinalityType
<1>2. IsFiniteSet(m + 1 .. m + i) /\ Cardinality(m + 1 .. m + i) = i
  BY FS_Interval
<1>3. X \cap (m + 1 .. m + i) = {}
  OBVIOUS
<1>4. Cardinality(X \cap (m + 1 .. m + i)) = 0
  BY <1>3, FS_EmptySet
<1>5. Cardinality(X \cup (m + 1 .. m + i))
        = Cardinality(X) + Cardinality(m + 1 .. m + i) - Cardinality(X \cap (m + 1 .. m + i))
  <2>1. \A Y : IsFiniteSet(Y) => Cardinality(X \cup Y) = Cardinality(X) + Cardinality(Y) - Cardinality(X \cap Y)
    BY <1>1, FS_Union
  <2> QED
    BY <1>2, <2>1
<1> QED
  BY <1>1, <1>2, <1>4, <1>5

-------------------------------------------------------------------------------
(* Paired agents *)

\* What a call has in memory
Memory(l) ==
  l = [at |-> l.at, mode |-> l.mode, dir |-> l.dir, open |-> l.open, said |-> l.said, decisions |-> l.decisions,
       handling |-> l.handling, degraded |-> l.degraded, failed |-> l.failed, lost |-> l.lost, answer |-> l.answer]

\* What decides how a call goes on: not which writes were lost
Alike(l, m) ==
  /\ l.at = m.at /\ l.mode = m.mode /\ l.dir = m.dir /\ l.open = m.open /\ l.said = m.said
  /\ l.decisions = m.decisions /\ l.handling = m.handling /\ l.degraded = m.degraded /\ l.answer = m.answer

Supervised(l) ==
  IF l.dir[1] = "offline"
    THEN \A d \in P!Range(l.decisions) : d.decision \notin {"block", "escalate"}
    ELSE \/ P!Triggers(l.mode, l.said) = {} /\ l.decisions = <<>>
         \/ \E d \in P!Range(l.decisions) :
              d.source = "advisor" /\ (P!Intervenes(d.decision) => l.handling \in {<<"accepted">>, <<"rejected">>})

\* There is one decision at most; the advisor's, unless the call is degraded.
Decided(l) == \E x, s : l.decisions = <<[decision |-> x, source |-> s]>> /\ (s = "advisor" \/ l.degraded)

RunOK(l) ==
  /\ l.at \in {"driver", "prompt", "advisor", "asked", "handling"} => l.dir[1] # "offline" /\ l.handling = <<>>
  /\ l.at \in {"driver", "prompt", "advisor", "asked"} => l.decisions = <<>>
  /\ l.at = "driver" => l.open = {}
  /\ l.at \in {"prompt", "advisor", "handling"} => l.open \subseteq {"driver"}
  /\ l.at = "asked" => l.open \subseteq {"driver", "advisor"}
  /\ l.at = "handling" => Decided(l)
  /\ l.at = "done" => l.open = {} /\ (l.answer.status = "success" => Supervised(l))

RunsOK == run = [r \in Runs |-> run[r]] /\ \A r \in Runs : Memory(run[r]) /\ RunOK(run[r])

\* Which writes were lost does not matter.
LEMMA AlikeOK ==
  ASSUME NEW l, NEW m, Alike(l, m), RunOK(l)
  PROVE  RunOK(m)
BY ZenonT(60) DEF Alike, RunOK, Decided, Supervised

\* A stretch of code of one call.
LEMMA WriteStep ==
  ASSUME RunsOK, NEW r \in Runs, NEW l, NEW new, Memory(l), RunOK(l), P!Write(r, l, new)
  PROVE  RunsOK'
<1>1. PICK broken : run' = [run EXCEPT ![r] = [l EXCEPT !.lost = l.lost \cup broken]]
  BY DEF P!Write
<1> DEFINE m == [l EXCEPT !.lost = l.lost \cup broken]
<1>2. Memory(m) /\ Alike(l, m)
  BY DEF Memory, Alike
<1> HIDE DEF m
<1>3. RunOK(m)
  BY <1>2, AlikeOK
<1>4. run' = [run EXCEPT ![r] = m]
  BY <1>1 DEF m
<1>5. run' = [s \in Runs |-> run'[s]] /\ run'[r] = m /\ \A s \in Runs \ {r} : run'[s] = run[s]
  BY <1>4 DEF RunsOK
<1> QED BY <1>2, <1>3, <1>5 DEF RunsOK

\* A call that ends: its driver's session is disposed of, and its answer is told.
LEMMA EndedForm ==
  ASSUME NEW l, Memory(l)
  PROVE  /\ Memory(P!Ended(l))
         /\ P!Ended(l).at = "done" /\ P!Ended(l).open = l.open \ {"driver"}
              /\ P!Ended(l).answer.status = P!Status(l)
         /\ P!Ended(l).mode = l.mode /\ P!Ended(l).dir = l.dir /\ P!Ended(l).said = l.said
         /\ P!Ended(l).decisions = l.decisions /\ P!Ended(l).handling = l.handling
<1> PICK a : a = [status |-> P!Status(l), decisions |-> l.decisions, handling |-> l.handling]
  OBVIOUS
<1>1. P!Ended(l) = [l EXCEPT !.at = "done", !.open = l.open \ {"driver"}, !.answer = a] /\ a.status = P!Status(l)
  BY DEF P!Ended
<1> QED BY <1>1 DEF Memory

\* What ends well was supervised.
LEMMA EndedOK ==
  ASSUME NEW l, Memory(l), l.open \subseteq {"driver"}, P!Status(l) = "success" => Supervised(l)
  PROVE  Memory(P!Ended(l)) /\ RunOK(P!Ended(l))
<1> PICK e : e = P!Ended(l)
  OBVIOUS
<1>1. /\ Memory(e) /\ e.at = "done" /\ e.open = {} /\ e.answer.status = P!Status(l)
      /\ e.mode = l.mode /\ e.dir = l.dir /\ e.said = l.said /\ e.decisions = l.decisions
           /\ e.handling = l.handling
  BY EndedForm
<1>2. Supervised(l) => Supervised(e)
  BY <1>1 DEF Supervised
<1> QED BY <1>1, <1>2 DEF RunOK

\* A failure ends the call, and is told.
LEMMA FailsOK ==
  ASSUME RunsOK, NEW r \in Runs, run[r].open \subseteq {"driver"}, P!Fails(r)
  PROVE  RunsOK'
<1> PICK k : k = run[r]
  OBVIOUS
<1> PICK l : l = [k EXCEPT !.failed = TRUE]
  OBVIOUS
<1>0. Memory(k) /\ k.open \subseteq {"driver"}
  BY DEF RunsOK
<1>1. Memory(l) /\ l.open \subseteq {"driver"} /\ l.failed = TRUE
  BY <1>0 DEF Memory
<1>2. P!Status(l) # "success"
  BY <1>1 DEF P!Status
<1>3. P!Write(r, P!Ended(l), P!Nothing)
  BY DEF P!Fails
<1> QED BY <1>1, <1>2, <1>3, EndedOK, WriteStep

\* The advisor has decided, or the responder in its place.
LEMMA AdvisedOK ==
  ASSUME RunsOK, NEW r \in Runs, run[r].at \in {"advisor", "asked"}, NEW x, NEW from \in {"advisor", "fallback"},
         P!Advised(r, x, from)
  PROVE  RunsOK'
<1> PICK k : k = run[r]
  OBVIOUS
<1> PICK d : d = [decision |-> x, source |-> from]
  OBVIOUS
<1> DEFINE l == [P!Disposed(run[r], from) EXCEPT
                   !.decisions = Append(@, [decision |-> x, source |-> from]), !.degraded = @ \/ from = "fallback"]
<1>8. \E new : P!Write(r, IF P!Intervenes(x) THEN [l EXCEPT !.at = "handling"] ELSE P!Ended(l), new)
  BY Zenon DEF P!Advised
<1>9. l = [P!Disposed(k, from) EXCEPT !.decisions = Append(k.decisions, d), !.degraded = k.degraded \/ from = "fallback"]
  BY DEF P!Disposed, RunsOK, Memory
<1> HIDE DEF l
<1>1. Memory(k) /\ k.open \subseteq {"driver", "advisor"} /\ k.decisions = <<>> /\ k.handling = <<>>
        /\ k.dir[1] # "offline"
  BY DEF RunsOK, RunOK
<1>2. Append(k.decisions, d) = <<d>> /\ d.source = from /\ d.decision = x
  BY <1>1
<1>3. l = [k EXCEPT !.open = k.open \ {"advisor"}, !.decisions = <<d>>, !.degraded = k.degraded \/ from = "fallback"]
  BY <1>1, <1>2, <1>9 DEF P!Disposed, Memory
<1>4. /\ Memory(l) /\ l.open = k.open \ {"advisor"} /\ l.decisions = <<d>> /\ l.handling = <<>> /\ l.dir = k.dir
      /\ l.degraded = (k.degraded \/ from = "fallback")
  BY <1>1, <1>3 DEF Memory
<1>5. from = "advisor" \/ l.degraded
  BY <1>4
<1>6. CASE P!Intervenes(x)
  <2> PICK m : m = [l EXCEPT !.at = "handling"]
    OBVIOUS
  <2>1. /\ Memory(m) /\ m.at = "handling" /\ m.open \subseteq {"driver"} /\ m.decisions = <<d>>
             /\ m.handling = <<>>
        /\ m.dir = k.dir /\ m.degraded = l.degraded
    BY <1>1, <1>4 DEF Memory
  <2>2. Decided(m)
    <3>1. m.decisions = <<[decision |-> x, source |-> from]>> /\ (from = "advisor" \/ m.degraded)
      BY <1>5, <2>1
    <3> QED BY <3>1, Zenon DEF Decided
  <2>3. RunOK(m)
    BY <1>1, <2>1, <2>2 DEF RunOK
  <2>4. \E new : P!Write(r, m, new)
    BY <1>6, <1>8
  <2> QED BY <2>1, <2>3, <2>4, WriteStep
<1>7. CASE ~P!Intervenes(x)
  <2>1. P!Status(l) = "success" => from = "advisor"
    BY <1>5 DEF P!Status
  <2>2. d \in P!Range(<<d>>)
    BY DEF P!Range
  <2>3. from = "advisor" => Supervised(l)
    BY <1>1, <1>2, <1>4, <1>7, <2>2 DEF Supervised
  <2>4. \E new : P!Write(r, P!Ended(l), new)
    BY <1>7, <1>8
  <2>5. l.open \subseteq {"driver"}
    BY <1>1, <1>4
  <2> QED BY <1>4, <2>1, <2>3, <2>4, <2>5, EndedOK, WriteStep
<1> QED BY <1>6, <1>7

\* What was said is handled, or accepted and rejected.
LEMMA HandledOK ==
  ASSUME RunsOK, NEW r \in Runs, NEW words, P!DriverHandles(r, words)
  PROVE  RunsOK'
<1> PICK k : k = run[r]
  OBVIOUS
<1> PICK how : how = P!Handling(words)
  OBVIOUS
<1> DEFINE l == [run[r] EXCEPT !.handling = Append(@, P!Handling(words))]
<1>1. \E new : P!Write(r, P!Ended(l), new)
  BY Zenon DEF P!DriverHandles
<1>2. l = [k EXCEPT !.handling = Append(k.handling, how)]
  BY DEF RunsOK, Memory
<1> HIDE DEF l
<1>3. Memory(k) /\ k.open \subseteq {"driver"} /\ k.handling = <<>> /\ k.dir[1] # "offline" /\ Decided(k)
  BY DEF RunsOK, RunOK, P!DriverHandles
<1>4. Append(k.handling, how) = <<how>> /\ how \in {"accepted", "rejected", "none"}
  BY <1>3 DEF P!Handling
<1>5. /\ Memory(l) /\ l.open \subseteq {"driver"} /\ l.handling = <<how>> /\ l.dir = k.dir
           /\ l.decisions = k.decisions
      /\ l.degraded = k.degraded
  BY <1>2, <1>3, <1>4 DEF Memory
<1>6. how \in P!Range(<<how>>)
  BY DEF P!Range
<1>7. P!Status(l) = "success" => how # "none" /\ ~l.degraded
  BY <1>5, <1>6 DEF P!Status
<1>8. ASSUME P!Status(l) = "success" PROVE Supervised(l)
  <2> PICK x, s : k.decisions = <<[decision |-> x, source |-> s]>> /\ (s = "advisor" \/ k.degraded)
    BY <1>3 DEF Decided
  <2> PICK d : d = [decision |-> x, source |-> s]
    OBVIOUS
  <2>1. l.decisions = <<d>> /\ d.source = "advisor" /\ l.handling \in {<<"accepted">>, <<"rejected">>}
    BY <1>4, <1>5, <1>7, <1>8
  <2>2. d \in P!Range(<<d>>)
    BY DEF P!Range
  <2> QED BY <1>3, <1>5, <2>1, <2>2 DEF Supervised
<1> QED BY <1>1, <1>5, <1>8, EndedOK, WriteStep

\* An offline harness blocks what its responder blocks.
LEMMA OfflineOK ==
  ASSUME RunsOK, NEW r \in Runs, NEW harness, NEW turns, P!Offline(r, harness, turns)
  PROVE  RunsOK'
<1> PICK decisions : decisions = P!OfflineDecisions(harness, turns)
  OBVIOUS
<1> PICK a : a = P!OfflineAnswer(decisions)
  OBVIOUS
<1> PICK l : l = [P!Idle EXCEPT !.at = "done", !.mode = harness, !.dir = <<"offline", harness>>,
                                !.decisions = decisions, !.answer = a]
  OBVIOUS
<1>1. \E new : P!Write(r, l, new)
  BY DEF P!Offline
<1>2. /\ Memory(l) /\ l.at = "done" /\ l.open = {} /\ l.dir = <<"offline", harness>> /\ l.decisions = decisions
      /\ l.answer = a
  BY DEF P!Idle, Memory
<1>3. l.dir[1] = "offline"
  BY <1>2
<1>4. a.status = "success" => \A d \in P!Range(decisions) : d.decision \notin {"block", "escalate"}
  BY DEF P!OfflineAnswer
<1>5. RunOK(l)
  BY <1>2, <1>3, <1>4 DEF RunOK, Supervised
<1> QED BY <1>1, <1>2, <1>5, WriteStep

\* A call begins, its driver's session is made, and the driver says something.
LEMMA DriverOK ==
  ASSUME P!PairConstants, RunsOK, NEW r \in Runs, NEW t, P!Call(r) \/ P!DriverStarts(r) \/ P!DriverSays(r, t)
  PROVE  RunsOK'
<1> PICK k : k = run[r]
  OBVIOUS
<1>0. Memory(k) /\ RunOK(k)
  BY DEF RunsOK
<1>1. CASE P!Call(r)
  <2> PICK c \in Offered[r].calls :
        \E new : P!Write(r, [P!Idle EXCEPT !.at = "driver", !.mode = c.mode, !.dir = <<c.stamp, c.mode>>], new)
    BY <1>1 DEF P!Call
  <2> PICK l : l = [P!Idle EXCEPT !.at = "driver", !.mode = c.mode, !.dir = <<c.stamp, c.mode>>]
    OBVIOUS
  <2>1. /\ Memory(l) /\ l.at = "driver" /\ l.open = {} /\ l.dir = <<c.stamp, c.mode>> /\ l.decisions = <<>>
        /\ l.handling = <<>>
    BY DEF P!Idle, Memory
  <2>2. l.dir[1] # "offline"
    BY <2>1 DEF P!PairConstants
  <2>3. RunOK(l)
    BY <2>1, <2>2 DEF RunOK
  <2> QED BY <2>1, <2>3, WriteStep
<1>2. CASE P!DriverStarts(r)
  <2>0. k.at = "driver" /\ k.open = {} /\ k.decisions = <<>> /\ k.handling = <<>> /\ k.dir[1] # "offline"
    BY <1>0, <1>2 DEF P!DriverStarts, RunOK
  <2>1. CASE P!Fails(r)
    BY <2>0, <2>1, FailsOK
  <2>2. CASE ~P!Fails(r)
    <3> PICK l : l = [k EXCEPT !.at = "prompt", !.open = {"driver"}]
      OBVIOUS
    <3>1. \E new : P!Write(r, l, new)
      BY <1>2, <2>2 DEF P!DriverStarts
    <3>2. /\ Memory(l) /\ l.at = "prompt" /\ l.open = {"driver"} /\ l.decisions = <<>> /\ l.handling = <<>>
          /\ l.dir = k.dir
      BY <1>0, <2>0 DEF Memory
    <3>3. RunOK(l)
      BY <2>0, <3>2 DEF RunOK
    <3> QED BY <3>1, <3>2, <3>3, WriteStep
  <2> QED BY <2>1, <2>2
<1>3. CASE P!DriverSays(r, t)
  <2>0. k.at = "prompt" /\ k.open \subseteq {"driver"} /\ k.decisions = <<>> /\ k.handling = <<>>
          /\ k.dir[1] # "offline"
    BY <1>0, <1>3 DEF P!DriverSays, RunOK
  <2> PICK l : l = [k EXCEPT !.said = t]
    OBVIOUS
  <2>1. /\ Memory(l) /\ l.at = "prompt" /\ l.open = k.open /\ l.decisions = <<>> /\ l.handling = <<>>
             /\ l.dir = k.dir
        /\ l.mode = k.mode /\ l.said = t
    BY <1>0, <2>0 DEF Memory
  <2>2. \E new : P!Write(r, IF P!Triggers(l.mode, t) = {} THEN P!Ended(l) ELSE [l EXCEPT !.at = "advisor"], new)
    BY <1>3 DEF P!DriverSays
  <2>3. CASE P!Triggers(l.mode, t) = {}
    <3>1. Supervised(l)
      BY <2>0, <2>1, <2>3 DEF Supervised
    <3>2. \E new : P!Write(r, P!Ended(l), new)
      BY <2>2, <2>3
    <3> QED BY <2>0, <2>1, <3>1, <3>2, EndedOK, WriteStep
  <2>4. CASE P!Triggers(l.mode, t) # {}
    <3> PICK m : m = [l EXCEPT !.at = "advisor"]
      OBVIOUS
    <3>1. \E new : P!Write(r, m, new)
      BY <2>2, <2>4
    <3>2. /\ Memory(m) /\ m.at = "advisor" /\ m.open = k.open /\ m.decisions = <<>> /\ m.handling = <<>>
               /\ m.dir = k.dir
      BY <2>1 DEF Memory
    <3>3. RunOK(m)
      BY <2>0, <3>2 DEF RunOK
    <3> QED BY <3>1, <3>2, <3>3, WriteStep
  <2> QED BY <2>3, <2>4
<1> QED BY <1>1, <1>2, <1>3

\* Every step keeps what is said of the calls.
LEMMA RunsStep ==
  ASSUME P!PairConstants, RunsOK, [P!Next]_P!pvars
  PROVE  RunsOK'
<1>1. CASE UNCHANGED P!pvars
  <2>1. run' = run
    BY <1>1 DEF P!pvars
  <2> QED BY <2>1 DEF RunsOK
<1>2. ASSUME NEW r \in Runs, NEW m, Memory(m), RunOK(m), run' = [run EXCEPT ![r] = m] PROVE RunsOK'
  <2>1. run' = [s \in Runs |-> run'[s]] /\ run'[r] = m /\ \A s \in Runs \ {r} : run'[s] = run[s]
    BY <1>2 DEF RunsOK
  <2> QED BY <1>2, <2>1 DEF RunsOK
<1>3. ASSUME NEW r \in Runs, P!AdvisorStarts(r) PROVE RunsOK'
  <2>1. CASE P!Advised(r, P!Responder(run[r].mode, run[r].said), "fallback")
    BY <1>3, <2>1, AdvisedOK DEF P!AdvisorStarts
  <2>2. CASE ~P!Advised(r, P!Responder(run[r].mode, run[r].said), "fallback")
    <3> PICK k : k = run[r]
      OBVIOUS
    <3> PICK m : m = [k EXCEPT !.at = "asked", !.open = k.open \cup {"advisor"}]
      OBVIOUS
    <3>1. Memory(k) /\ RunOK(k) /\ k.at = "advisor"
      BY <1>3 DEF RunsOK, P!AdvisorStarts
    <3>2. run' = [run EXCEPT ![r] = m]
      BY <1>3, <2>2 DEF P!AdvisorStarts, RunsOK
    <3>3. /\ Memory(m) /\ m.at = "asked" /\ m.open = k.open \cup {"advisor"} /\ m.decisions = k.decisions
          /\ m.handling = k.handling /\ m.dir = k.dir
      BY <3>1 DEF Memory
    <3>4. RunOK(m)
      BY <3>1, <3>3 DEF RunOK
    <3> QED BY <1>2, <3>2, <3>3, <3>4
  <2> QED BY <2>1, <2>2
<1>4. ASSUME NEW r \in Runs, P!AdvisorReplies(r) PROVE RunsOK'
  <2>1. run[r].at = "asked"
    BY <1>4 DEF P!AdvisorReplies
  <2>2. \E x : P!Advised(r, x, "advisor") \/ P!Advised(r, x, "fallback")
    BY <1>4 DEF P!AdvisorReplies
  <2> QED BY <2>1, <2>2, AdvisedOK
<1>5. ASSUME NEW r \in Runs, P!PromptFails(r) PROVE RunsOK'
  <2>1. run[r].open \subseteq {"driver"} /\ P!Fails(r)
    BY <1>5 DEF P!PromptFails, RunsOK, RunOK
  <2> QED BY <2>1, FailsOK
<1>6. ASSUME NEW r \in Runs, P!Exit(r) PROVE RunsOK'
  <2> PICK k : k = run[r]
    OBVIOUS
  <2> PICK m : m = [k EXCEPT !.at = "exited", !.open = {}]
    OBVIOUS
  <2>1. Memory(k)
    BY DEF RunsOK
  <2>2. run' = [run EXCEPT ![r] = m]
    BY <1>6 DEF P!Exit, RunsOK
  <2>3. Memory(m) /\ m.at = "exited"
    BY <2>1 DEF Memory
  <2>4. RunOK(m)
    BY <2>3 DEF RunOK
  <2> QED BY <1>2, <2>2, <2>3, <2>4
<1>7. ASSUME NEW r \in Runs, P!Call(r) \/ P!DriverStarts(r) PROVE RunsOK'
  BY <1>7, DriverOK
<1>8. ASSUME NEW r \in Runs, NEW t, P!DriverSays(r, t) PROVE RunsOK'
  BY <1>8, DriverOK
<1> QED
  BY <1>1, <1>3, <1>4, <1>5, <1>6, <1>7, <1>8, HandledOK, OfflineOK DEF P!Next

\* At the start no call has been made.
LEMMA RunsInit == P!Init => RunsOK
<1>1. Memory(P!Idle) /\ RunOK(P!Idle)
  BY DEF Memory, RunOK, P!Idle
<1> QED BY <1>1 DEF P!Init, RunsOK

\* What is said of the calls holds in every state.
LEMMA RunsHold == P!Spec => []RunsOK
<1>1. P!Init => RunsOK
  BY RunsInit
<1>2. RunsOK /\ [P!Next]_P!pvars => RunsOK'
  BY PairsAssumption, RunsStep
<1> QED BY <1>1, <1>2, PTL DEF P!Spec

\* For any calls, texts, decisions and faults: a run that tells "success" was supervised
\* (isolated-runner.mjs:238-266).
THEOREM RunsAreSupervised == P!Spec => []SuccessIsSupervised
<1>1. RunsOK => SuccessIsSupervised
  BY DEF RunsOK, RunOK, Supervised, SuccessIsSupervised, P!SuccessIsSupervised
<1> QED BY <1>1, RunsHold, PTL

\* For any calls and faults: whichever of the awaits fails, a run that has ended has no session
\* (isolated-runner.mjs:127, 281).
THEOREM NoSessionStays == P!Spec => []P!SessionsEnd
<1>1. RunsOK => P!SessionsEnd
  BY DEF RunsOK, RunOK, P!SessionsEnd
<1> QED BY <1>1, RunsHold, PTL

\* What the files tell of a call

\* The instance counts as this module does.
LEMMA LineCount == \A S : P!Cardinality(S) = Cardinality(S)
  BY DEF P!Cardinality, Cardinality

\* A line of the messages: a decision, or what the driver made of one
Line     == [kind: {"decision", "handling"}, what: P!Decisions \cup {"accepted", "rejected", "none"}]
Statuses == {"success", "partial", "blocked", "failed"}

LinesOf(ms, kind)   == Cardinality({i \in DOMAIN ms : ms[i].kind = kind})
Indexed(entries, d) == {i \in DOMAIN entries : entries[i].dir = d}
Unused(d)           == \A s \in Runs : run[s].dir # d

FilesTyped ==
  /\ files = [d \in P!Directories |-> files[d]]
  /\ \A d \in P!Directories : files[d].messages \in Seq(Line)
  /\ index \in Seq([dir: P!Directories, status: Statuses])

\* A directory that no call has holds nothing.
Fresh(d) == Unused(d) => files[d].messages = <<>> /\ Indexed(index, d) = {}

\* What the files held and the index say of a call that has its directory for itself, up to
\* the writes that failed
Recorded(k, held, entries) ==
  /\ "messages" \notin k.lost => /\ LinesOf(held.messages, "decision") = Len(k.decisions)
                                 /\ LinesOf(held.messages, "handling") = Len(k.handling)
  /\ k.at # "done" => Indexed(entries, k.dir) = {}
  /\ k.at = "done" /\ "compact" \notin k.lost =>
       held.compact # <<>> /\ held.compact[1].status = k.answer.status
  /\ k.at = "done" /\ "index" \notin k.lost =>
       \E i \in Indexed(entries, k.dir) : entries[i].status = k.answer.status /\ Indexed(entries, k.dir) = {i}

\* Whatever its files say
Placed(k) ==
  /\ k.at = "idle" => k = P!Idle
  /\ k.at # "idle" => k.dir \in P!Directories
  /\ k.at \in {"driver", "prompt", "advisor", "asked", "handling"} => k.mode \in P!Modes
  /\ k.at = "done" => k.answer.decisions = k.decisions /\ k.answer.handling = k.handling

Filed(r) == run[r].at # "idle" /\ P!Alone(r) => Recorded(run[r], files[run[r].dir], index)

FilesOK ==
  /\ FilesTyped
  /\ \A d \in P!Directories : Fresh(d)
  /\ \A r \in Runs : Placed(run[r]) /\ Filed(r)

\* Lines of one kind are added to those there are.
LEMMA LinesAdded ==
  ASSUME NEW ms \in Seq(Line), NEW ns \in Seq(Line), NEW kind, \A i \in 1 .. Len(ns) : ns[i].kind = kind
  PROVE  /\ LinesOf(ms \o ns, kind) = LinesOf(ms, kind) + Len(ns)
         /\ \A k : k # kind => LinesOf(ms \o ns, k) = LinesOf(ms, k)
         /\ \A k : LinesOf(ms, k) \in Nat
<1> DEFINE m == Len(ms)
           n == Len(ns)
           X(k) == {i \in 1 .. m : ms[i].kind = k}
<1>1. m \in Nat /\ n \in Nat /\ DOMAIN ms = 1 .. m
  OBVIOUS
<1>2. /\ ms \o ns \in Seq(Line) /\ Len(ms \o ns) = m + n /\ DOMAIN (ms \o ns) = 1 .. m + n
      /\ \A i \in 1 .. m : (ms \o ns)[i] = ms[i]
      /\ \A i \in m + 1 .. m + n : (ms \o ns)[i] = ns[i - m]
  <2>1. /\ ms \o ns \in Seq(Line) /\ Len(ms \o ns) = m + n
        /\ \A i \in 1 .. m + n : (ms \o ns)[i] = IF i <= m THEN ms[i] ELSE ns[i - m]
    BY ConcatProperties
  <2>2. DOMAIN (ms \o ns) = 1 .. m + n
    BY <2>1, LenProperties
  <2>3. \A i \in 1 .. m : i \in 1 .. m + n /\ i <= m
    BY <1>1
  <2>4. \A i \in m + 1 .. m + n : i \in 1 .. m + n /\ ~(i <= m)
    BY <1>1
  <2> QED
    BY <2>1, <2>2, <2>3, <2>4
<1>3. \A i \in m + 1 .. m + n : (ms \o ns)[i].kind = kind
  <2> SUFFICES ASSUME NEW i \in m + 1 .. m + n
               PROVE  (ms \o ns)[i].kind = kind
    OBVIOUS
  <2>1. i - m \in 1 .. n
    BY <1>1
  <2> QED
    BY <1>2, <2>1
<1> HIDE DEF m, n
<1>4. {i \in 1 .. m + n : (ms \o ns)[i].kind = kind} = X(kind) \cup (m + 1 .. m + n)
  BY <1>1, <1>2, <1>3
<1>5. \A k : k # kind => {i \in 1 .. m + n : (ms \o ns)[i].kind = k} = X(k)
  BY <1>1, <1>2, <1>3
<1>6. \A k : X(k) \in SUBSET (1 .. m)
  OBVIOUS
<1> HIDE DEF X
<1>7. \A Y \in SUBSET (1 .. m) : Cardinality(Y) \in Nat /\ Cardinality(Y \cup (m + 1 .. m + n)) = Cardinality(Y) + n
  BY <1>1, CountMore
<1>8. \A k : LinesOf(ms, k) = Cardinality(X(k))
  BY <1>1 DEF LinesOf, X
<1>9. LinesOf(ms \o ns, kind) = Cardinality(X(kind) \cup (m + 1 .. m + n))
  BY <1>2, <1>4 DEF LinesOf
<1>10. \A k : k # kind => LinesOf(ms \o ns, k) = Cardinality(X(k))
  BY <1>2, <1>5 DEF LinesOf
<1>11. LinesOf(ms \o ns, kind) = LinesOf(ms, kind) + n
  <2>1. X(kind) \in SUBSET (1 .. m)
    BY <1>6
  <2>2. Cardinality(X(kind) \cup (m + 1 .. m + n)) = Cardinality(X(kind)) + n
    BY <1>7, <2>1
  <2> QED
    BY <1>8, <1>9, <2>2
<1>12. ASSUME NEW k, k # kind
       PROVE  LinesOf(ms \o ns, k) = LinesOf(ms, k)
  BY <1>8, <1>10, <1>12
<1>13. ASSUME NEW k
       PROVE  LinesOf(ms, k) \in Nat
  <2>1. X(k) \in SUBSET (1 .. m)
    BY <1>6
  <2> QED
    BY <1>7, <1>8, <2>1
<1> QED
  BY <1>11, <1>12, <1>13 DEF n

\* What is empty has no line.
LEMMA NoLines == \A k : LinesOf(<<>>, k) = 0
<1>1. \A k : {i \in DOMAIN <<>> : <<>>[i].kind = k} = {}
  OBVIOUS
<1> QED
  BY <1>1, FS_EmptySet DEF LinesOf

\* What a stretch of a call may add: lines of one kind, as many as it has more of in memory
Adds(k, l, ms) ==
  \/ /\ \A i \in 1 .. Len(ms) : ms[i].kind = "decision"
     /\ Len(l.decisions) = Len(k.decisions) + Len(ms) /\ Len(l.handling) = Len(k.handling)
  \/ /\ \A i \in 1 .. Len(ms) : ms[i].kind = "handling"
     /\ Len(l.handling) = Len(k.handling) + Len(ms) /\ Len(l.decisions) = Len(k.decisions)

\* What a call has before it writes, and after
Writes(r, l, new) ==
  /\ Memory(l) /\ l.at # "idle" /\ l.dir \in P!Directories /\ l.lost = run[r].lost
  /\ run[r].at # "done" /\ (run[r].at = "idle" \/ l.dir = run[r].dir)
  /\ l.at # "done" => l.mode \in P!Modes
  /\ l.at = "done" => /\ l.answer.decisions = l.decisions /\ l.answer.handling = l.handling
                      /\ l.answer.status \in Statuses
  /\ new = [n \in P!Names |-> new[n]] /\ new["messages"] \in Seq(Line) /\ Adds(run[r], l, new["messages"])

\* If there were as many lines as the call had decisions and handlings, there still are.
LEMMA LinesTold ==
  ASSUME NEW k, NEW l, NEW ms \in Seq(Line), NEW ns \in Seq(Line), Adds(k, l, ns),
         LinesOf(ms, "decision") = Len(k.decisions), LinesOf(ms, "handling") = Len(k.handling)
  PROVE  LinesOf(ms \o ns, "decision") = Len(l.decisions) /\ LinesOf(ms \o ns, "handling") = Len(l.handling)
<1>1. CASE /\ \A i \in 1 .. Len(ns) : ns[i].kind = "decision"
           /\ Len(l.decisions) = Len(k.decisions) + Len(ns) /\ Len(l.handling) = Len(k.handling)
  <2>1. LinesOf(ms \o ns, "decision") = LinesOf(ms, "decision") + Len(ns)
    BY <1>1, LinesAdded
  <2>2. \A x : x # "decision" => LinesOf(ms \o ns, x) = LinesOf(ms, x)
    BY <1>1, LinesAdded
  <2>3. LinesOf(ms \o ns, "handling") = LinesOf(ms, "handling")
    BY <2>2
  <2> QED
    BY <1>1, <2>1, <2>3
<1>2. CASE /\ \A i \in 1 .. Len(ns) : ns[i].kind = "handling"
           /\ Len(l.handling) = Len(k.handling) + Len(ns) /\ Len(l.decisions) = Len(k.decisions)
  <2>1. LinesOf(ms \o ns, "handling") = LinesOf(ms, "handling") + Len(ns)
    BY <1>2, LinesAdded
  <2>2. \A x : x # "handling" => LinesOf(ms \o ns, x) = LinesOf(ms, x)
    BY <1>2, LinesAdded
  <2>3. LinesOf(ms \o ns, "decision") = LinesOf(ms, "decision")
    BY <2>2
  <2> QED
    BY <1>2, <2>1, <2>3
<1> QED
  BY <1>1, <1>2 DEF Adds

\* One entry is added to the index.
LEMMA EntryAdded ==
  ASSUME NEW S, NEW entries \in Seq(S), NEW e \in S
  PROVE  /\ Append(entries, e) \in Seq(S)
         /\ \A x : x # e.dir => Indexed(Append(entries, e), x) = Indexed(entries, x)
         /\ Indexed(Append(entries, e), e.dir) = Indexed(entries, e.dir) \cup {Len(entries) + 1}
         /\ \A i \in DOMAIN entries : Append(entries, e)[i] = entries[i]
         /\ Append(entries, e)[Len(entries) + 1] = e
<1> DEFINE n == Len(entries)
<1>1. n \in Nat /\ DOMAIN entries = 1 .. n /\ n + 1 \notin 1 .. n
  OBVIOUS
<1>2. /\ Append(entries, e) \in Seq(S) /\ Len(Append(entries, e)) = n + 1
      /\ \A i \in 1 .. n : Append(entries, e)[i] = entries[i]
      /\ Append(entries, e)[n + 1] = e
  BY AppendProperties
<1>3. DOMAIN Append(entries, e) = (1 .. n) \cup {n + 1}
  BY <1>1, <1>2
<1> HIDE DEF n
<1>4. \A x : x # e.dir => Indexed(Append(entries, e), x) = Indexed(entries, x)
  BY <1>1, <1>2, <1>3 DEF Indexed
<1>5. Indexed(Append(entries, e), e.dir) = Indexed(entries, e.dir) \cup {n + 1}
  BY <1>1, <1>2, <1>3 DEF Indexed
<1> QED
  BY <1>1, <1>2, <1>4, <1>5 DEF n

\* What is said of a call is said by what is said of its directory.
LEMMA RecordedStill ==
  ASSUME NEW k, NEW held, NEW ix, NEW jx, Recorded(k, held, ix), Indexed(jx, k.dir) = Indexed(ix, k.dir),
         \A i \in Indexed(ix, k.dir) : jx[i] = ix[i]
  PROVE  Recorded(k, held, jx)
BY DEF Recorded

\* Before a call that shares its directory with none writes there, nobody else has.
LEMMA BeforeWriting ==
  ASSUME P!PairConstants, FilesOK, NEW r \in Runs, NEW l, NEW new, Writes(r, l, new),
         \A s \in Runs \ {r} : run[s].dir # l.dir
  PROVE  /\ Indexed(index, l.dir) = {}
         /\ "messages" \notin l.lost => /\ LinesOf(files[l.dir].messages, "decision") = Len(run[r].decisions)
                                       /\ LinesOf(files[l.dir].messages, "handling") = Len(run[r].handling)
<1>1. CASE run[r].at = "idle"
  <2>1. run[r] = P!Idle
    BY <1>1 DEF FilesOK, Placed
  <2>2. run[r].dir = Missing /\ Len(run[r].decisions) = 0 /\ Len(run[r].handling) = 0
    BY <2>1 DEF P!Idle
  <2>3. run[r].dir # l.dir
    BY <2>2 DEF Writes, P!PairConstants
  <2>4. files[l.dir].messages = <<>> /\ Indexed(index, l.dir) = {}
    BY <2>3 DEF FilesOK, Fresh, Unused, Writes
  <2> QED
    BY <2>2, <2>4, NoLines
<1>2. CASE run[r].at # "idle"
  <2>1. l.dir = run[r].dir /\ run[r].at # "done" /\ l.lost = run[r].lost
    BY <1>2 DEF Writes
  <2>2. P!Alone(r)
    BY <2>1 DEF P!Alone
  <2>3. Recorded(run[r], files[l.dir], index)
    BY <1>2, <2>1, <2>2 DEF FilesOK, Filed
  <2> QED
    BY <2>1, <2>3 DEF Recorded
<1> QED
  BY <1>1, <1>2

\* What a write leaves: the call as m, and held in its directory
Leaves(r, l, new, broken, m, held) ==
  /\ run'[r] = m /\ \A s \in Runs \ {r} : run'[s] = run[s]
  /\ m.at = l.at /\ m.mode = l.mode /\ m.dir = l.dir /\ m.decisions = l.decisions
  /\ m.handling = l.handling /\ m.answer = l.answer /\ m.lost = l.lost \cup broken
  /\ files' = [x \in P!Directories |-> files'[x]] /\ files'[l.dir] = held
  /\ \A x \in P!Directories \ {l.dir} : files'[x] = files[x]
  /\ held.messages = IF "messages" \in broken THEN files[l.dir].messages
                     ELSE files[l.dir].messages \o new["messages"]
  /\ l.at = "done" /\ "compact" \notin broken => held.compact = <<l.answer>>
  /\ index' = IF l.at # "done" \/ "index" \in broken THEN index
              ELSE Append(index, [dir |-> l.dir, status |-> l.answer.status])

\* A write leaves that.
LEMMA Written ==
  ASSUME RunsOK, FilesOK, NEW r \in Runs, NEW l, NEW new, Writes(r, l, new), P!Write(r, l, new)
  PROVE  \E broken, m, held : Leaves(r, l, new, broken, m, held)
<1> DEFINE added == IF l.at # "done" THEN new
                    ELSE [new EXCEPT !.events = Append(@, "ended"), !.compact = <<l.answer>>]
           tried == {n \in P!Names : added[n] # <<>>} \cup (IF l.at = "done" THEN {"index"} ELSE {})
           d == l.dir
<1>1. PICK broken : /\ run' = [run EXCEPT ![r] = [l EXCEPT !.lost = @ \cup broken]]
                    /\ files' = [files EXCEPT ![d] =
                                   [n \in P!Names |-> IF n \in broken THEN @[n]
                                                    ELSE IF n = "compact" /\ n \in tried THEN added[n]
                                                    ELSE @[n] \o added[n]]]
                    /\ index' = IF l.at # "done" \/ "index" \in broken THEN index
                                ELSE Append(index, [dir |-> l.dir, status |-> l.answer.status])
  BY DEF P!Write
<1> DEFINE m == [l EXCEPT !.lost = l.lost \cup broken]
           F == [n \in P!Names |-> IF n \in broken THEN files[d][n]
                                 ELSE IF n = "compact" /\ n \in tried THEN added[n]
                                 ELSE files[d][n] \o added[n]]
<1>2. Memory(l) /\ d \in P!Directories /\ new = [n \in P!Names |-> new[n]]
  BY DEF Writes
<1>3. /\ m.at = l.at /\ m.mode = l.mode /\ m.dir = d /\ m.decisions = l.decisions /\ m.handling = l.handling
      /\ m.answer = l.answer /\ m.lost = l.lost \cup broken
  BY <1>2 DEF Memory
<1>4. run' = [run EXCEPT ![r] = m]
  BY <1>1
<1> HIDE DEF m
<1>5. run'[r] = m /\ \A s \in Runs \ {r} : run'[s] = run[s]
  BY <1>4 DEF RunsOK
<1>6. files' = [files EXCEPT ![d] = F]
  BY <1>1, Zenon
<1>7. added["messages"] = new["messages"] /\ (l.at = "done" => added["compact"] = <<l.answer>>)
  <2>1. CASE l.at # "done"
    BY <2>1
  <2>2. CASE l.at = "done"
    <3>1. "messages" \in P!Names /\ "compact" \in P!Names
      BY DEF P!Names
    <3> PICK p : p = Append(new["events"], "ended")
      OBVIOUS
    <3>2. added = [new EXCEPT !.events = p, !.compact = <<l.answer>>]
      BY <1>2, <2>2 DEF P!Names
    <3> QED
      BY <1>2, <3>1, <3>2
  <2> QED
    BY <2>1, <2>2
<1> HIDE DEF added
<1>8. l.at = "done" => "compact" \in tried
  <2>1. <<l.answer>> # <<>> /\ "compact" \in P!Names
    BY DEF P!Names
  <2> QED
    BY <1>7, <2>1
<1> HIDE DEF tried
<1>9. /\ F.messages = IF "messages" \in broken THEN files[d].messages ELSE files[d].messages \o new["messages"]
      /\ l.at = "done" /\ "compact" \notin broken => F.compact = <<l.answer>>
  <2>1. "messages" \in P!Names /\ "compact" \in P!Names
    BY DEF P!Names
  <2> QED
    BY <1>7, <1>8, <2>1
<1> HIDE DEF F
<1>10. /\ files'[d] = F /\ files' = [x \in P!Directories |-> files'[x]]
       /\ \A x \in P!Directories \ {d} : files'[x] = files[x]
  BY <1>2, <1>6 DEF FilesOK, FilesTyped
<1> HIDE DEF d
<1>11. d = l.dir
  BY DEF d
<1> PICK held : held = F
  OBVIOUS
<1>12. Leaves(r, l, new, broken, m, held)
  BY <1>1, <1>3, <1>5, <1>9, <1>10, <1>11 DEF Leaves
<1> QED
  BY <1>12

\* A write keeps what is said of the files.
LEMMA WrittenFiles ==
  ASSUME P!PairConstants, RunsOK, FilesOK, NEW r \in Runs, NEW l, NEW new, Writes(r, l, new), P!Write(r, l, new)
  PROVE  FilesOK'
<1>0. ASSUME NEW ms \in Seq(Line), NEW ns \in Seq(Line), Adds(run[r], l, ns),
             LinesOf(ms, "decision") = Len(run[r].decisions), LinesOf(ms, "handling") = Len(run[r].handling)
      PROVE  LinesOf(ms \o ns, "decision") = Len(l.decisions) /\ LinesOf(ms \o ns, "handling") = Len(l.handling)
  BY <1>0, LinesTold
<1> PICK broken, m, held : Leaves(r, l, new, broken, m, held)
  BY Written
<1>1. /\ run'[r] = m /\ \A s \in Runs \ {r} : run'[s] = run[s]
      /\ m.at = l.at /\ m.mode = l.mode /\ m.dir = l.dir /\ m.decisions = l.decisions
      /\ m.handling = l.handling /\ m.answer = l.answer /\ m.lost = l.lost \cup broken
      /\ files' = [x \in P!Directories |-> files'[x]] /\ files'[l.dir] = held
      /\ \A x \in P!Directories \ {l.dir} : files'[x] = files[x]
      /\ held.messages = IF "messages" \in broken THEN files[l.dir].messages
                         ELSE files[l.dir].messages \o new["messages"]
      /\ l.at = "done" /\ "compact" \notin broken => held.compact = <<l.answer>>
      /\ index' = IF l.at # "done" \/ "index" \in broken THEN index
                  ELSE Append(index, [dir |-> l.dir, status |-> l.answer.status])
  BY DEF Leaves
<1> PICK d : d = l.dir
  OBVIOUS
<1> PICK e : e = [dir |-> d, status |-> l.answer.status]
  OBVIOUS
<1> PICK ms : ms = files[d].messages
  OBVIOUS
<1> PICK ns : ns = new["messages"]
  OBVIOUS
<1> DEFINE Entry == [dir: P!Directories, status: Statuses]
<1>2. /\ l.at # "idle" /\ d \in P!Directories /\ ns \in Seq(Line) /\ Adds(run[r], l, ns)
      /\ l.at = "done" => l.answer.status \in Statuses
      /\ l.at = "done" => l.answer.decisions = l.decisions /\ l.answer.handling = l.handling
      /\ l.at # "done" => l.mode \in P!Modes
      /\ run[r].at = "idle" \/ d = run[r].dir
  BY DEF Writes
<1>3. ms \in Seq(Line) /\ index \in Seq(Entry)
  BY <1>2 DEF FilesOK, FilesTyped
<1>4. /\ held.messages \in Seq(Line)
      /\ held.messages = ms \/ held.messages = ms \o ns
      /\ "messages" \notin m.lost => "messages" \notin l.lost /\ held.messages = ms \o ns
  <2>1. ms \o ns \in Seq(Line)
    BY <1>2, <1>3, ConcatProperties
  <2> QED
    BY <1>1, <1>3, <2>1
<1>5. l.at = "done" => e \in Entry
  BY <1>2
<1>6. /\ index' \in Seq(Entry)
      /\ \A x : x # d => Indexed(index', x) = Indexed(index, x)
      /\ \A x : \A i \in Indexed(index, x) : index'[i] = index[i]
      /\ l.at # "done" => Indexed(index', d) = Indexed(index, d)
      /\ l.at = "done" /\ "index" \notin broken =>
           /\ Indexed(index', d) = Indexed(index, d) \cup {Len(index) + 1}
           /\ index'[Len(index) + 1].status = l.answer.status
  <2>1. CASE l.at # "done" \/ "index" \in broken
    <3>1. index' = index
      BY <1>1, <2>1
    <3> QED
      BY <1>3, <2>1, <3>1
  <2>2. CASE l.at = "done" /\ "index" \notin broken
    <3>1. index' = Append(index, e) /\ e.dir = d /\ e.status = l.answer.status
      BY <1>1, <2>2
    <3>2. /\ Append(index, e) \in Seq(Entry)
          /\ \A x : x # e.dir => Indexed(Append(index, e), x) = Indexed(index, x)
          /\ Indexed(Append(index, e), e.dir) = Indexed(index, e.dir) \cup {Len(index) + 1}
          /\ \A i \in DOMAIN index : Append(index, e)[i] = index[i]
          /\ Append(index, e)[Len(index) + 1] = e
      <4> HIDE DEF Entry
      <4> QED
        <5>1. e \in Entry
          BY <1>5, <2>2
        <5> QED
          BY <1>3, <5>1, EntryAdded, SMTT(20)
    <3>3. \A x : \A i \in Indexed(index, x) : i \in DOMAIN index
      BY DEF Indexed
    <3> QED
      BY <2>2, <3>1, <3>2, <3>3
  <2> QED
    BY <2>1, <2>2
<1>7. FilesTyped'
  <2>1. \A x \in P!Directories : files'[x].messages \in Seq(Line)
    BY <1>1, <1>4 DEF FilesOK, FilesTyped
  <2> QED
    BY <1>1, <1>6, <2>1 DEF FilesTyped
<1>8. ASSUME NEW x \in P!Directories
      PROVE  Fresh(x)'
  <2> SUFFICES ASSUME \A s \in Runs : run'[s].dir # x
               PROVE  files'[x].messages = <<>> /\ Indexed(index', x) = {}
    BY DEF Fresh, Unused
  <2>1. x # d
    BY <1>1
  <2>2. run[r].dir # x
    <3>1. CASE run[r].at = "idle"
      <4>1. run[r].dir = Missing
        BY <3>1 DEF FilesOK, Placed, P!Idle
      <4> QED
        BY <4>1 DEF P!PairConstants
    <3>2. CASE run[r].at # "idle"
      BY <1>2, <2>1, <3>2
    <3> QED
      BY <3>1, <3>2
  <2>3. Unused(x)
    BY <1>1, <2>2 DEF Unused
  <2>4. files[x].messages = <<>> /\ Indexed(index, x) = {}
    BY <2>3 DEF FilesOK, Fresh
  <2> QED
    BY <1>1, <1>6, <2>1, <2>4
<1>9. ASSUME NEW s \in Runs \ {r}
      PROVE  Placed(run'[s]) /\ Filed(s)'
  <2> PICK k : k = run[s]
    OBVIOUS
  <2>1. run'[s] = k /\ Placed(k)
    BY <1>1 DEF FilesOK
  <2>2. ASSUME k.at # "idle", \A t \in Runs \ {s} : run'[t].dir # k.dir
        PROVE  Recorded(k, files'[k.dir], index')
    <3>1. k.dir # d /\ k.dir \in P!Directories
      BY <1>1, <2>1, <2>2 DEF Placed
    <3>2. run[r].dir # k.dir
      <4>1. CASE run[r].at = "idle"
        <5>1. run[r].dir = Missing
          BY <4>1 DEF FilesOK, Placed, P!Idle
        <5> QED
          BY <3>1, <5>1 DEF P!PairConstants
      <4>2. CASE run[r].at # "idle"
        BY <1>2, <3>1, <4>2
      <4> QED
        BY <4>1, <4>2
    <3>3. P!Alone(s)
      BY <1>1, <2>2, <3>2 DEF P!Alone
    <3>4. Recorded(k, files[k.dir], index)
      BY <2>2, <3>3 DEF FilesOK, Filed
    <3>5. files'[k.dir] = files[k.dir] /\ Indexed(index', k.dir) = Indexed(index, k.dir)
      BY <1>1, <1>6, <3>1
    <3> QED
      BY <1>6, <3>4, <3>5, RecordedStill
  <2> QED
    BY <2>1, <2>2 DEF Filed, P!Alone
<1>10. Placed(m)
  BY <1>1, <1>2 DEF Placed
<1>11. Filed(r)'
  <2> SUFFICES ASSUME \A t \in Runs \ {r} : run'[t].dir # d
               PROVE  Recorded(m, held, index')
    BY <1>1 DEF Filed, P!Alone
  <2>1. /\ Indexed(index, d) = {}
        /\ "messages" \notin l.lost => /\ LinesOf(ms, "decision") = Len(run[r].decisions)
                                       /\ LinesOf(ms, "handling") = Len(run[r].handling)
    <3>1. \A s \in Runs \ {r} : run[s].dir # l.dir
      BY <1>1
    <3> QED
      BY <3>1, BeforeWriting
  <2>2. "messages" \notin m.lost =>
          LinesOf(held.messages, "decision") = Len(m.decisions) /\ LinesOf(held.messages, "handling") = Len(m.handling)
    <3> SUFFICES ASSUME "messages" \notin m.lost
                 PROVE  LinesOf(held.messages, "decision") = Len(m.decisions)
                        /\ LinesOf(held.messages, "handling") = Len(m.handling)
      OBVIOUS
    <3>1. LinesOf(ms, "decision") = Len(run[r].decisions) /\ LinesOf(ms, "handling") = Len(run[r].handling)
      BY <1>4, <2>1
    <3>2. LinesOf(ms \o ns, "decision") = Len(l.decisions) /\ LinesOf(ms \o ns, "handling") = Len(l.handling)
      BY <1>0, <1>2, <1>3, <3>1
    <3> QED
      BY <1>1, <1>4, <3>2
  <2>3. m.at # "done" => Indexed(index', m.dir) = {}
    BY <1>1, <1>6, <2>1
  <2>4. m.at = "done" /\ "compact" \notin m.lost =>
          held.compact # <<>> /\ held.compact[1].status = m.answer.status
    <3>1. m.at = "done" /\ "compact" \notin m.lost => held.compact = <<m.answer>>
      BY <1>1
    <3>2. <<m.answer>> # <<>> /\ <<m.answer>>[1] = m.answer
      OBVIOUS
    <3> QED
      BY <3>1, <3>2
  <2>5. m.at = "done" /\ "index" \notin m.lost =>
          \E i \in Indexed(index', m.dir) : index'[i].status = m.answer.status /\ Indexed(index', m.dir) = {i}
    <3> PICK n : n = Len(index) + 1
      OBVIOUS
    <3>1. m.at = "done" /\ "index" \notin m.lost =>
            Indexed(index', m.dir) = {n} /\ index'[n].status = m.answer.status
      BY <1>1, <1>6, <2>1
    <3> QED
      BY <3>1
  <2> QED
    BY <2>2, <2>3, <2>4, <2>5 DEF Recorded
<1> QED
  BY <1>1, <1>7, <1>8, <1>9, <1>10, <1>11 DEF FilesOK

\* What writes nothing goes on as the same call, or leaves it.
Quiet(r, m) ==
  /\ run[r].at \notin {"idle", "done"} /\ m.at \in {"asked", "exited"} /\ (m.at = "asked" => m.mode \in P!Modes)
  /\ m.dir = run[r].dir /\ m.decisions = run[r].decisions /\ m.handling = run[r].handling /\ m.lost = run[r].lost
  /\ run' = [run EXCEPT ![r] = m] /\ files' = files /\ index' = index

\* It leaves what is said of the files.
LEMMA QuietFiles ==
  ASSUME RunsOK, FilesOK, NEW r \in Runs, NEW m, Quiet(r, m)
  PROVE  FilesOK'
<1>0. /\ run[r].at \notin {"idle", "done"} /\ m.at \in {"asked", "exited"} /\ (m.at = "asked" => m.mode \in P!Modes)
      /\ m.dir = run[r].dir /\ m.decisions = run[r].decisions /\ m.handling = run[r].handling
      /\ m.lost = run[r].lost
      /\ run' = [run EXCEPT ![r] = m] /\ files' = files /\ index' = index
  BY DEF Quiet
<1>1. run'[r] = m /\ \A s \in Runs \ {r} : run'[s] = run[s]
  BY <1>0 DEF RunsOK
<1>2. \A s \in Runs : run'[s].dir = run[s].dir
  BY <1>0, <1>1
<1>3. files' = files /\ index' = index
  BY <1>0
<1>4. FilesTyped'
  BY <1>3 DEF FilesOK, FilesTyped
<1>5. ASSUME NEW x \in P!Directories
      PROVE  Fresh(x)'
  BY <1>2, <1>3 DEF FilesOK, Fresh, Unused
<1>6. ASSUME NEW s \in Runs \ {r}
      PROVE  Placed(run'[s]) /\ Filed(s)'
  <2>1. Placed(run[s]) /\ Filed(s)
    BY DEF FilesOK
  <2> QED
    BY <1>1, <1>2, <1>3, <2>1 DEF Filed, P!Alone
<1>7. Placed(m) /\ Filed(r)'
  <2>1. Placed(run[r]) /\ Filed(r)
    BY DEF FilesOK
  <2>2. Placed(m)
    BY <1>0, <2>1 DEF Placed
  <2>3. ASSUME P!Alone(r)
        PROVE  Recorded(m, files[m.dir], index)
    <3>1. Recorded(run[r], files[run[r].dir], index)
      BY <1>0, <2>1, <2>3 DEF Filed
    <3> QED
      BY <1>0, <3>1 DEF Recorded
  <2>4. (P!Alone(r))' => P!Alone(r)
    BY <1>2 DEF P!Alone
  <2> QED
    BY <1>1, <1>3, <2>2, <2>3, <2>4 DEF Filed
<1> QED
  BY <1>1, <1>4, <1>5, <1>6, <1>7 DEF FilesOK

\* A call that goes on
LEMMA GoesOn ==
  ASSUME RunsOK, FilesOK, NEW r \in Runs, run[r].at \in {"driver", "prompt", "advisor", "asked", "handling"}
  PROVE  /\ Memory(run[r]) /\ run[r].at \notin {"idle", "done"}
         /\ run[r].dir \in P!Directories /\ run[r].mode \in P!Modes
         /\ run[r].handling = <<>> /\ Len(run[r].decisions) \in Nat
<1> PICK k : k = run[r]
  OBVIOUS
<1>1. Memory(k) /\ RunOK(k) /\ Placed(k)
  BY DEF RunsOK, FilesOK
<1>2. k.dir \in P!Directories /\ k.mode \in P!Modes
  BY <1>1 DEF Placed
<1>3. k.handling = <<>>
  BY <1>1 DEF RunOK
<1>4. Len(k.decisions) \in Nat
  <2>1. CASE k.at = "handling"
    <3>1. \E x, s : k.decisions = <<[decision |-> x, source |-> s]>>
      BY <1>1, <2>1 DEF RunOK, Decided
    <3> QED
      BY <3>1
  <2>2. CASE k.at # "handling"
    <3>1. k.decisions = <<>>
      BY <1>1, <2>2 DEF RunOK
    <3> QED
      BY <3>1
  <2> QED
    BY <2>1, <2>2
<1> QED
  BY <1>1, <1>2, <1>3, <1>4

\* What a call that ends writes
LEMMA EndedWrites ==
  ASSUME NEW r, NEW l, NEW new, Memory(l), l.dir \in P!Directories, l.lost = run[r].lost,
         run[r].at # "done", l.dir = run[r].dir, new = [n \in P!Names |-> new[n]],
         new["messages"] \in Seq(Line), Adds(run[r], l, new["messages"])
  PROVE  Writes(r, P!Ended(l), new)
<1> PICK a : a = [status |-> P!Status(l), decisions |-> l.decisions, handling |-> l.handling]
  OBVIOUS
<1> PICK e : e = P!Ended(l)
  OBVIOUS
<1>1. e = [l EXCEPT !.at = "done", !.open = l.open \ {"driver"}, !.answer = a]
  BY DEF P!Ended
<1>2. /\ Memory(e) /\ e.at = "done" /\ e.dir = l.dir /\ e.lost = l.lost /\ e.answer = a
      /\ e.decisions = l.decisions /\ e.handling = l.handling
  BY <1>1 DEF Memory
<1>3. a.status \in Statuses /\ a.decisions = e.decisions /\ a.handling = e.handling
  BY <1>2 DEF P!Status, Statuses
<1>4. Adds(run[r], e, new["messages"])
  BY <1>2 DEF Adds
<1> QED
  BY <1>2, <1>3, <1>4 DEF Writes

\* What is no message is added to the other files.
LEMMA NoMessages ==
  ASSUME NEW new, new = [n \in P!Names |-> new[n]], new["messages"] = <<>>,
         NEW k, NEW l, l.decisions = k.decisions, l.handling = k.handling,
         Len(k.decisions) \in Nat
  PROVE  new["messages"] \in Seq(Line) /\ Adds(k, l, new["messages"])
<1> PICK ms : ms = new["messages"]
  OBVIOUS
<1>1. ms \in Seq(Line) /\ Len(ms) = 0
  OBVIOUS
<1>2. Len(l.decisions) = Len(k.decisions) + Len(ms) /\ Len(l.handling) = Len(k.handling)
  BY <1>1
<1>3. \A i \in 1 .. Len(ms) : ms[i].kind = "decision"
  BY <1>1
<1>4. Adds(k, l, ms)
  BY <1>2, <1>3 DEF Adds
<1> QED
  BY <1>1, <1>4

\* A failure is recorded.
LEMMA FailsFiles ==
  ASSUME P!PairConstants, RunsOK, FilesOK, NEW r \in Runs,
         run[r].at \in {"driver", "prompt", "advisor", "asked", "handling"}, P!Fails(r)
  PROVE  FilesOK'
<1> PICK k : k = run[r]
  OBVIOUS
<1> PICK l : l = [k EXCEPT !.failed = TRUE]
  OBVIOUS
<1>1. /\ Memory(k) /\ k.at \notin {"idle", "done"} /\ k.dir \in P!Directories /\ Len(k.decisions) \in Nat
  BY GoesOn
<1>2. Memory(l) /\ l.dir = k.dir /\ l.lost = k.lost /\ l.decisions = k.decisions /\ l.handling = k.handling
  BY <1>1 DEF Memory
<1>3. P!Nothing = [n \in P!Names |-> P!Nothing[n]] /\ P!Nothing["messages"] = <<>>
  BY DEF P!Nothing, P!Names
<1>4. P!Nothing["messages"] \in Seq(Line) /\ Adds(k, l, P!Nothing["messages"])
  BY <1>1, <1>2, <1>3, NoMessages
<1>5. Writes(r, P!Ended(l), P!Nothing)
  BY <1>1, <1>2, <1>3, <1>4, EndedWrites
<1>6. P!Write(r, P!Ended(l), P!Nothing)
  BY DEF P!Fails
<1> QED
  BY <1>5, <1>6, WrittenFiles

\* A call begins, its driver's session is made, and the driver says something.
LEMMA DriverFiles ==
  ASSUME P!PairConstants, RunsOK, FilesOK, NEW r \in Runs, NEW t,
         P!Call(r) \/ P!DriverStarts(r) \/ P!DriverSays(r, t)
  PROVE  FilesOK'
<1> PICK k : k = run[r]
  OBVIOUS
<1>1. CASE P!Call(r)
  <2> PICK c \in Offered[r].calls :
        P!Write(r, [P!Idle EXCEPT !.at = "driver", !.mode = c.mode, !.dir = <<c.stamp, c.mode>>],
                [P!Nothing EXCEPT !.events = <<"started">>])
    BY <1>1 DEF P!Call
  <2> PICK l : l = [P!Idle EXCEPT !.at = "driver", !.mode = c.mode, !.dir = <<c.stamp, c.mode>>]
    OBVIOUS
  <2> PICK new : new = [P!Nothing EXCEPT !.events = <<"started">>]
    OBVIOUS
  <2>1. k = P!Idle /\ k.at = "idle"
    BY <1>1 DEF P!Call, FilesOK, Placed
  <2>2. /\ Memory(l) /\ l.at = "driver" /\ l.mode = c.mode /\ l.dir = <<c.stamp, c.mode>> /\ l.lost = k.lost
        /\ l.decisions = k.decisions /\ l.handling = k.handling /\ Len(k.decisions) \in Nat
    <3>1. /\ Memory(l) /\ l.at = "driver" /\ l.mode = c.mode /\ l.dir = <<c.stamp, c.mode>> /\ l.lost = {}
          /\ l.decisions = <<>> /\ l.handling = <<>>
      BY DEF P!Idle, Memory
    <3>2. k.lost = {} /\ k.decisions = <<>> /\ k.handling = <<>>
      BY <2>1 DEF P!Idle
    <3> QED
      BY <3>1, <3>2
  <2>3. l.mode \in P!Modes /\ l.dir \in P!Directories
    BY <2>2 DEF P!PairConstants, P!Directories
  <2>4. new = [n \in P!Names |-> new[n]] /\ new["messages"] = <<>>
    BY DEF P!Nothing, P!Names
  <2>5. new["messages"] \in Seq(Line) /\ Adds(k, l, new["messages"])
    BY <2>2, <2>4, NoMessages
  <2>6. Writes(r, l, new)
    BY <2>1, <2>2, <2>3, <2>4, <2>5 DEF Writes
  <2> QED
    BY <2>6, WrittenFiles
<1>2. CASE P!DriverStarts(r)
  <2>0. k.at = "driver"
    BY <1>2 DEF P!DriverStarts
  <2>1. CASE P!Fails(r)
    BY <2>0, <2>1, FailsFiles
  <2>2. CASE ~P!Fails(r)
    <3> PICK l : l = [k EXCEPT !.at = "prompt", !.open = {"driver"}]
      OBVIOUS
    <3> PICK new : new = [P!Nothing EXCEPT !.events = <<"session">>]
      OBVIOUS
    <3>1. P!Write(r, l, new)
      BY <1>2, <2>2 DEF P!DriverStarts
    <3>2. Memory(k) /\ k.dir \in P!Directories /\ k.mode \in P!Modes /\ Len(k.decisions) \in Nat
      BY <2>0, GoesOn
    <3>3. /\ Memory(l) /\ l.at = "prompt" /\ l.dir = k.dir /\ l.mode = k.mode /\ l.lost = k.lost
          /\ l.decisions = k.decisions /\ l.handling = k.handling
      BY <3>2 DEF Memory
    <3>4. new = [n \in P!Names |-> new[n]] /\ new["messages"] = <<>>
      BY DEF P!Nothing, P!Names
    <3>5. new["messages"] \in Seq(Line) /\ Adds(k, l, new["messages"])
      BY <3>2, <3>3, <3>4, NoMessages
    <3>6. Writes(r, l, new)
      BY <2>0, <3>2, <3>3, <3>4, <3>5 DEF Writes
    <3> QED
      BY <3>1, <3>6, WrittenFiles
  <2> QED
    BY <2>1, <2>2
<1>3. CASE P!DriverSays(r, t)
  <2>0. k.at = "prompt"
    BY <1>3 DEF P!DriverSays
  <2> PICK l : l = [k EXCEPT !.said = t]
    OBVIOUS
  <2> PICK new : new = [P!Nothing EXCEPT !.turns = <<t>>, !.events = <<"turn">>]
    OBVIOUS
  <2>1. Memory(k) /\ k.dir \in P!Directories /\ k.mode \in P!Modes /\ Len(k.decisions) \in Nat
    BY <2>0, GoesOn
  <2>2. P!Write(r, IF P!Triggers(l.mode, t) = {} THEN P!Ended(l) ELSE [l EXCEPT !.at = "advisor"], new)
    BY <1>3 DEF P!DriverSays
  <2>3. /\ Memory(l) /\ l.dir = k.dir /\ l.mode = k.mode /\ l.lost = k.lost
        /\ l.decisions = k.decisions /\ l.handling = k.handling
    BY <2>1 DEF Memory
  <2>4. new = [n \in P!Names |-> new[n]] /\ new["messages"] = <<>>
    BY DEF P!Nothing, P!Names
  <2>5. new["messages"] \in Seq(Line) /\ Adds(k, l, new["messages"])
    BY <2>1, <2>3, <2>4, NoMessages
  <2>6. CASE P!Triggers(l.mode, t) = {}
    <3>1. P!Write(r, P!Ended(l), new)
      BY <2>2, <2>6
    <3>2. Writes(r, P!Ended(l), new)
      BY <2>0, <2>1, <2>3, <2>4, <2>5, EndedWrites
    <3> QED
      BY <3>1, <3>2, WrittenFiles
  <2>7. CASE P!Triggers(l.mode, t) # {}
    <3> PICK m : m = [l EXCEPT !.at = "advisor"]
      OBVIOUS
    <3>1. P!Write(r, m, new)
      BY <2>2, <2>7
    <3>2. /\ Memory(m) /\ m.at = "advisor" /\ m.dir = k.dir /\ m.mode = k.mode /\ m.lost = k.lost
          /\ m.decisions = l.decisions /\ m.handling = l.handling
      BY <2>3 DEF Memory
    <3>3. Adds(k, m, new["messages"])
      BY <2>5, <3>2 DEF Adds
    <3>4. Writes(r, m, new)
      BY <2>0, <2>1, <2>4, <2>5, <3>2, <3>3 DEF Writes
    <3> QED
      BY <3>1, <3>4, WrittenFiles
  <2> QED
    BY <2>6, <2>7
<1> QED
  BY <1>1, <1>2, <1>3

\* One message is added, of a decision or of what the driver made of it.
LEMMA OneMessage ==
  ASSUME NEW k, NEW l, NEW x \in Line, NEW d,
         \/ x.kind = "decision" /\ k.decisions = <<>> /\ l.decisions = <<d>> /\ l.handling = k.handling
         \/ x.kind = "handling" /\ k.handling = <<>> /\ l.handling = <<d>> /\ l.decisions = k.decisions
  PROVE  <<x>> \in Seq(Line) /\ Adds(k, l, <<x>>)
<1>1. <<x>> \in Seq(Line) /\ Len(<<x>>) = 1 /\ \A i \in 1 .. 1 : <<x>>[i] = x
  OBVIOUS
<1>2. Len(<<d>>) = 1 /\ Len(<<>>) = 0
  OBVIOUS
<1> PICK ms : ms = <<x>>
  OBVIOUS
<1>3. Len(ms) = 1 /\ \A i \in 1 .. Len(ms) : ms[i] = x
  BY <1>1
<1>4. CASE x.kind = "decision" /\ k.decisions = <<>> /\ l.decisions = <<d>> /\ l.handling = k.handling
  <2>1. Len(l.decisions) = Len(k.decisions) + Len(ms) /\ Len(l.handling) = Len(k.handling)
    BY <1>2, <1>3, <1>4
  <2> QED
    BY <1>1, <1>3, <1>4, <2>1 DEF Adds
<1>5. CASE x.kind = "handling" /\ k.handling = <<>> /\ l.handling = <<d>> /\ l.decisions = k.decisions
  <2>1. Len(l.handling) = Len(k.handling) + Len(ms) /\ Len(l.decisions) = Len(k.decisions)
    BY <1>2, <1>3, <1>5
  <2> QED
    BY <1>1, <1>3, <1>5, <2>1 DEF Adds
<1> QED
  BY <1>4, <1>5

\* The responders decide one of the decisions.
LEMMA ResponderType == \A h \in P!Harnesses : \A t : P!Responder(h, t) \in P!Decisions
BY DEF P!Responder, P!Harnesses, P!Decisions

\* A decision is recorded.
LEMMA AdvisedFiles ==
  ASSUME P!PairConstants, RunsOK, FilesOK, NEW r \in Runs, run[r].at \in {"advisor", "asked"},
         NEW x \in P!Decisions, NEW from, P!Advised(r, x, from)
  PROVE  FilesOK'
<1> PICK k : k = run[r]
  OBVIOUS
<1> PICK d : d = [decision |-> x, source |-> from]
  OBVIOUS
<1> PICK new : new = [P!Nothing EXCEPT !.messages = <<P!Message(d)>>]
  OBVIOUS
<1> DEFINE l == [P!Disposed(run[r], from) EXCEPT
                   !.decisions = Append(@, [decision |-> x, source |-> from]), !.degraded = @ \/ from = "fallback"]
<1>1. P!Write(r, IF P!Intervenes(x) THEN [l EXCEPT !.at = "handling"] ELSE P!Ended(l), new)
  BY Zenon DEF P!Advised
<1>2. /\ Memory(k) /\ k.at \notin {"idle", "done"} /\ k.dir \in P!Directories /\ k.mode \in P!Modes
  BY GoesOn
<1>3. k.decisions = <<>>
  BY DEF RunsOK, RunOK
<1>4. l = [P!Disposed(k, from) EXCEPT !.decisions = Append(k.decisions, d), !.degraded = k.degraded \/ from = "fallback"]
  BY <1>2 DEF P!Disposed, Memory
<1> HIDE DEF l
<1>5. Append(k.decisions, d) = <<d>>
  BY <1>3
<1>6. l = [k EXCEPT !.open = k.open \ {"advisor"}, !.decisions = <<d>>, !.degraded = k.degraded \/ from = "fallback"]
  BY <1>2, <1>4, <1>5 DEF P!Disposed, Memory
<1>7. /\ Memory(l) /\ l.dir = k.dir /\ l.mode = k.mode /\ l.lost = k.lost
      /\ l.decisions = <<d>> /\ l.handling = k.handling
  BY <1>2, <1>6 DEF Memory
<1> PICK y : y = P!Message(d)
  OBVIOUS
<1>8. y \in Line /\ y.kind = "decision"
  BY DEF P!Message, Line
<1>9. new = [n \in P!Names |-> new[n]] /\ new["messages"] = <<y>>
  BY DEF P!Nothing, P!Names
<1>10. <<y>> \in Seq(Line) /\ Adds(k, l, <<y>>)
  BY <1>3, <1>7, <1>8, OneMessage
<1>11. CASE P!Intervenes(x)
  <2> PICK m : m = [l EXCEPT !.at = "handling"]
    OBVIOUS
  <2>1. P!Write(r, m, new)
    BY <1>1, <1>11
  <2>2. /\ Memory(m) /\ m.at = "handling" /\ m.dir = k.dir /\ m.mode = k.mode /\ m.lost = k.lost
        /\ m.decisions = l.decisions /\ m.handling = l.handling
    BY <1>7 DEF Memory
  <2>3. Adds(k, m, <<y>>)
    BY <1>10, <2>2 DEF Adds
  <2>4. Writes(r, m, new)
    BY <1>2, <1>9, <1>10, <2>2, <2>3 DEF Writes
  <2> QED
    BY <2>1, <2>4, WrittenFiles
<1>12. CASE ~P!Intervenes(x)
  <2>1. P!Write(r, P!Ended(l), new)
    BY <1>1, <1>12
  <2>2. Writes(r, P!Ended(l), new)
    BY <1>2, <1>7, <1>9, <1>10, EndedWrites
  <2> QED
    BY <2>1, <2>2, WrittenFiles
<1> QED
  BY <1>11, <1>12

\* What the driver makes of the advice is recorded.
LEMMA HandledFiles ==
  ASSUME P!PairConstants, RunsOK, FilesOK, NEW r \in Runs, NEW words, P!DriverHandles(r, words)
  PROVE  FilesOK'
<1> PICK k : k = run[r]
  OBVIOUS
<1> PICK how : how = P!Handling(words)
  OBVIOUS
<1> PICK y : y = [kind |-> "handling", what |-> how]
  OBVIOUS
<1> PICK new : new = [P!Nothing EXCEPT !.turns = <<{}>>, !.messages = <<y>>]
  OBVIOUS
<1> DEFINE l == [run[r] EXCEPT !.handling = Append(@, P!Handling(words))]
<1>1. run[r].at = "handling" /\ P!Write(r, P!Ended(l), new)
  BY Zenon DEF P!DriverHandles
<1>2. /\ Memory(k) /\ k.at \notin {"idle", "done"} /\ k.dir \in P!Directories /\ k.handling = <<>>
  BY <1>1, GoesOn
<1>3. l = [k EXCEPT !.handling = Append(k.handling, how)]
  BY <1>2 DEF Memory
<1> HIDE DEF l
<1>4. Append(k.handling, how) = <<how>> /\ how \in {"accepted", "rejected", "none"}
  BY <1>2 DEF P!Handling
<1>5. /\ Memory(l) /\ l.dir = k.dir /\ l.lost = k.lost /\ l.handling = <<how>> /\ l.decisions = k.decisions
  BY <1>2, <1>3, <1>4 DEF Memory
<1>6. y \in Line /\ y.kind = "handling"
  BY <1>4 DEF Line
<1>7. new = [n \in P!Names |-> new[n]] /\ new["messages"] = <<y>>
  BY DEF P!Nothing, P!Names
<1>8. <<y>> \in Seq(Line) /\ Adds(k, l, <<y>>)
  BY <1>2, <1>5, <1>6, OneMessage
<1>9. Writes(r, P!Ended(l), new)
  BY <1>2, <1>5, <1>7, <1>8, EndedWrites, ZenonT(60)
<1> QED
  BY <1>1, <1>9, WrittenFiles

\* The offline harnesses decide once about each turn that they decide about.
LEMMA OfflineType ==
  ASSUME NEW harness \in P!Harnesses, NEW turns \in Seq(SUBSET STRING)
  PROVE  /\ P!OfflineDecisions(harness, turns) \in Seq([decision: P!Decisions, source: {"fallback"}])
         /\ P!OfflineAnswer(P!OfflineDecisions(harness, turns)).status \in Statuses
<1> DEFINE advised == {i \in DOMAIN turns : P!Triggers(harness, turns[i]) # {}}
           n == Cardinality(advised)
<1>1. IsFiniteSet(advised)
  <2>1. IsFiniteSet(1 .. Len(turns)) /\ DOMAIN turns = 1 .. Len(turns)
    BY FS_Interval
  <2>2. advised \subseteq 1 .. Len(turns)
    BY <2>1
  <2> HIDE DEF advised
  <2> QED
    BY <2>1, <2>2, FS_Subset
<1>2. n \in Nat
  BY <1>1, FS_CardinalityType
<1>3. P!Cardinality(advised) = n
  BY LineCount
<1> DEFINE Nth(k) == CHOOSE i \in advised : P!Cardinality({j \in advised : j <= i}) = k
           D(k) == [decision |-> P!Responder(harness, turns[Nth(k)]), source |-> "fallback"]
<1>4. P!OfflineDecisions(harness, turns) = [k \in 1 .. P!Cardinality(advised) |-> D(k)]
  BY Zenon DEF P!OfflineDecisions
<1>5. \A k : D(k) \in [decision: P!Decisions, source: {"fallback"}]
  BY ResponderType
<1> HIDE DEF advised, n, D
<1>6. P!OfflineDecisions(harness, turns) = [k \in 1 .. n |-> D(k)]
  BY <1>3, <1>4
<1>7. P!OfflineDecisions(harness, turns) \in Seq([decision: P!Decisions, source: {"fallback"}])
  BY <1>2, <1>5, <1>6
<1>8. \A x : P!OfflineAnswer(x).status \in Statuses
  BY DEF P!OfflineAnswer, Statuses
<1> QED
  BY <1>7, <1>8

\* What an offline harness decides is recorded.
LEMMA OfflineFiles ==
  ASSUME P!PairConstants, RunsOK, FilesOK, NEW r \in Runs, NEW harness \in P!Harnesses,
         NEW turns \in Seq(SUBSET STRING), P!Offline(r, harness, turns)
  PROVE  FilesOK'
<1> PICK k : k = run[r]
  OBVIOUS
<1> PICK decisions : decisions = P!OfflineDecisions(harness, turns)
  OBVIOUS
<1> PICK a : a = P!OfflineAnswer(decisions)
  OBVIOUS
<1> PICK l : l = [P!Idle EXCEPT !.at = "done", !.mode = harness, !.dir = <<"offline", harness>>,
                                !.decisions = decisions, !.answer = a]
  OBVIOUS
<1> PICK t : t = IF harness = "research" THEN turns ELSE <<>>
  OBVIOUS
<1> PICK v : v = [i \in DOMAIN turns |-> "turn"]
  OBVIOUS
<1> PICK ms : ms = [i \in DOMAIN decisions |-> P!Message(decisions[i])]
  OBVIOUS
<1> PICK new : new = [P!Nothing EXCEPT !.turns = t, !.events = v, !.messages = ms]
  OBVIOUS
<1>1. run[r].at = "idle" /\ P!Write(r, l, new)
  BY DEF P!Offline
<1>2. k = P!Idle
  BY <1>1 DEF FilesOK, Placed
<1>3. k.lost = {} /\ k.decisions = <<>> /\ k.handling = <<>>
  BY <1>2 DEF P!Idle
<1>4. /\ Memory(l) /\ l.at = "done" /\ l.dir = <<"offline", harness>> /\ l.lost = {} /\ l.decisions = decisions
      /\ l.handling = <<>> /\ l.answer = a
  BY DEF P!Idle, Memory
<1>5. l.dir \in P!Directories
  BY <1>4 DEF P!Directories
<1>6. decisions \in Seq([decision: P!Decisions, source: {"fallback"}]) /\ a.status \in Statuses
  BY OfflineType
<1>7. a.decisions = decisions /\ a.handling = <<>>
  BY DEF P!OfflineAnswer
<1>8. Len(decisions) \in Nat /\ DOMAIN decisions = 1 .. Len(decisions)
  BY <1>6
<1>9. \A i \in 1 .. Len(decisions) : P!Message(decisions[i]) \in Line /\ P!Message(decisions[i]).kind = "decision"
  <2>1. \A i \in 1 .. Len(decisions) : decisions[i].decision \in P!Decisions
    <3> PICK S : S = [decision: P!Decisions, source: {"fallback"}]
      OBVIOUS
    <3>1. decisions \in Seq(S)
      BY <1>6
    <3>2. \A i \in 1 .. Len(decisions) : decisions[i] \in S
      BY <3>1, ElementOfSeq
    <3> QED
      BY <3>2
  <2> QED
    BY <2>1 DEF P!Message, Line
<1>10. ms \in Seq(Line) /\ Len(ms) = Len(decisions)
  BY <1>8, <1>9
<1>11. \A i \in 1 .. Len(ms) : ms[i].kind = "decision"
  BY <1>8, <1>9, <1>10
<1>12. Adds(k, l, ms)
  <2>1. Len(k.decisions) = 0 /\ Len(l.handling) = Len(k.handling)
    BY <1>3, <1>4
  <2>2. Len(l.decisions) = Len(k.decisions) + Len(ms)
    BY <1>4, <1>8, <1>10, <2>1
  <2> QED
    BY <1>11, <2>1, <2>2 DEF Adds
<1>13. new = [n \in P!Names |-> new[n]] /\ new["messages"] = ms
  BY DEF P!Nothing, P!Names
<1>14. Writes(r, l, new)
  BY <1>1, <1>3, <1>4, <1>5, <1>6, <1>7, <1>10, <1>12, <1>13 DEF Writes
<1> QED
  BY <1>1, <1>14, WrittenFiles

\* Every step keeps what is said of the files.
LEMMA FilesStep ==
  ASSUME P!PairConstants, RunsOK, FilesOK, [P!Next]_P!pvars
  PROVE  FilesOK'
<1>1. CASE UNCHANGED P!pvars
  <2>1. run' = run /\ files' = files /\ index' = index
    BY <1>1 DEF P!pvars
  <2> QED
    BY <2>1 DEF FilesOK, FilesTyped, Fresh, Unused, Filed, P!Alone
<1>2. ASSUME NEW r \in Runs, P!AdvisorStarts(r)
      PROVE  FilesOK'
  <2> PICK k : k = run[r]
    OBVIOUS
  <2>1. k.at = "advisor" /\ Memory(k) /\ k.mode \in P!Modes
    BY <1>2, GoesOn DEF P!AdvisorStarts
  <2>2. CASE P!Advised(r, P!Responder(run[r].mode, run[r].said), "fallback")
    <3>1. P!Responder(run[r].mode, run[r].said) \in P!Decisions
      BY <2>1, ResponderType DEF P!Modes, P!Harnesses
    <3> QED
      BY <2>1, <2>2, <3>1, AdvisedFiles
  <2>3. CASE ~P!Advised(r, P!Responder(run[r].mode, run[r].said), "fallback")
    <3> PICK m : m = [k EXCEPT !.at = "asked", !.open = k.open \cup {"advisor"}]
      OBVIOUS
    <3>1. run' = [run EXCEPT ![r] = m] /\ files' = files /\ index' = index
      BY <1>2, <2>3 DEF P!AdvisorStarts, RunsOK
    <3>2. /\ m.at = "asked" /\ m.mode = k.mode /\ m.dir = k.dir /\ m.decisions = k.decisions
          /\ m.handling = k.handling /\ m.lost = k.lost
      BY <2>1 DEF Memory
    <3>3. Quiet(r, m)
      BY <2>1, <3>1, <3>2 DEF Quiet
    <3> QED
      BY <3>3, QuietFiles
  <2> QED
    BY <2>2, <2>3
<1>3. ASSUME NEW r \in Runs, P!AdvisorReplies(r)
      PROVE  FilesOK'
  <2>1. run[r].at = "asked" /\ run[r].mode \in P!Modes
    BY <1>3, GoesOn DEF P!AdvisorReplies
  <2>2. P!Responder(run[r].mode, run[r].said) \in P!Decisions
    BY <2>1, ResponderType DEF P!Modes, P!Harnesses
  <2>3. \E x \in P!Decisions : \E from : P!Advised(r, x, from)
    BY <1>3, <2>2 DEF P!AdvisorReplies, P!Usable
  <2> QED
    BY <2>1, <2>3, AdvisedFiles
<1>4. ASSUME NEW r \in Runs, P!PromptFails(r)
      PROVE  FilesOK'
  <2>1. run[r].at \in {"prompt", "handling"} /\ P!Fails(r)
    BY <1>4 DEF P!PromptFails
  <2> QED
    BY <2>1, FailsFiles
<1>5. ASSUME NEW r \in Runs, P!Exit(r)
      PROVE  FilesOK'
  <2> PICK k : k = run[r]
    OBVIOUS
  <2> PICK m : m = [k EXCEPT !.at = "exited", !.open = {}]
    OBVIOUS
  <2>1. Memory(k) /\ k.at \notin {"idle", "done"}
    BY <1>5 DEF RunsOK, P!Exit
  <2>2. run' = [run EXCEPT ![r] = m] /\ files' = files /\ index' = index
    BY <1>5 DEF P!Exit, RunsOK
  <2>3. /\ m.at = "exited" /\ m.dir = k.dir /\ m.decisions = k.decisions /\ m.handling = k.handling
        /\ m.lost = k.lost
    BY <2>1 DEF Memory
  <2>4. Quiet(r, m)
    BY <2>1, <2>2, <2>3 DEF Quiet
  <2> QED
    BY <2>4, QuietFiles
<1>6. ASSUME NEW r \in Runs, NEW o \in Offered[r].offline, P!Offline(r, o.harness, o.turns)
      PROVE  FilesOK'
  <2>1. o.harness \in P!Harnesses /\ o.turns \in Seq(SUBSET STRING)
    BY <1>6 DEF P!PairConstants
  <2> QED
    BY <1>6, <2>1, OfflineFiles
<1>7. ASSUME NEW r \in Runs, P!Call(r) \/ P!DriverStarts(r)
      PROVE  FilesOK'
  BY <1>7, DriverFiles
<1>8. ASSUME NEW r \in Runs, NEW t, P!DriverSays(r, t)
      PROVE  FilesOK'
  BY <1>8, DriverFiles
<1>9. ASSUME NEW r \in Runs, NEW words, P!DriverHandles(r, words)
      PROVE  FilesOK'
  BY <1>9, HandledFiles
<1> QED
  BY <1>1, <1>2, <1>3, <1>4, <1>5, <1>6, <1>7, <1>8, <1>9 DEF P!Next

\* At the start there is no file.
LEMMA FilesInit == P!PairConstants /\ P!Init => FilesOK
<1> SUFFICES ASSUME P!PairConstants, P!Init
             PROVE  FilesOK
  OBVIOUS
<1>1. \A s \in Runs : run[s] = P!Idle
  BY DEF P!Init
<1>2. P!Idle.at = "idle"
  BY DEF P!Idle
<1>3. \A x \in P!Directories : files[x] = P!Nothing /\ P!Nothing.messages = <<>>
  BY DEF P!Init, P!Nothing, P!Names
<1>4. index = <<>> /\ \A x : Indexed(<<>>, x) = {}
  BY DEF P!Init, Indexed
<1>5. FilesTyped
  <2>1. files = [x \in P!Directories |-> files[x]]
    BY DEF P!Init
  <2>2. <<>> \in Seq(Line) /\ <<>> \in Seq([dir: P!Directories, status: Statuses])
    OBVIOUS
  <2> QED
    BY <1>3, <1>4, <2>1, <2>2 DEF FilesTyped
<1>6. \A x \in P!Directories : Fresh(x)
  BY <1>3, <1>4 DEF Fresh
<1>7. \A s \in Runs : Placed(run[s]) /\ Filed(s)
  BY <1>1, <1>2 DEF Placed, Filed
<1> QED
  BY <1>5, <1>6, <1>7 DEF FilesOK

\* What is said of the files holds in every state.
LEMMA FilesHold == P!Spec => [](RunsOK /\ FilesOK)
<1>1. P!Init => RunsOK /\ FilesOK
  BY PairsAssumption, RunsInit, FilesInit
<1>2. RunsOK /\ FilesOK /\ [P!Next]_P!pvars => (RunsOK /\ FilesOK)'
  BY PairsAssumption, RunsStep, FilesStep
<1> QED
  BY <1>1, <1>2, PTL DEF P!Spec

\* For any calls, texts, decisions, transcripts and faults: whichever of the awaits fails, a
\* run that has ended has no session, and the files of one that has its directory for itself
\* tell what its caller was told, up to the writes that failed (isolated-runner.mjs:127,
\* 255-283, and formatRunInspection of the extension).
THEOREM RunsEndTrue == P!Spec => []RunsEndWell
<1>1. ASSUME RunsOK, FilesOK
      PROVE  RunsEndWell
  <2>1. P!SessionsEnd
    BY <1>1 DEF RunsOK, RunOK, P!SessionsEnd
  <2>2. ASSUME NEW r \in Runs, run[r].at = "done", P!Alone(r)
        PROVE  LET d == run[r].dir
                   told == run[r].answer
               IN /\ "compact" \notin run[r].lost => P!Inspection(d).status = told.status
                  /\ "messages" \notin run[r].lost =>
                       P!Inspection(d).decisions = Len(told.decisions) /\ P!Inspection(d).handling = Len(told.handling)
                  /\ "index" \notin run[r].lost =>
                       \E i \in DOMAIN index : /\ index[i].status = told.status
                                               /\ \A j \in DOMAIN index : index[j].dir = d <=> j = i
    <3> PICK k : k = run[r]
      OBVIOUS
    <3> PICK held : held = files[k.dir]
      OBVIOUS
    <3>1. Recorded(k, held, index) /\ k.answer.decisions = k.decisions /\ k.answer.handling = k.handling
      BY <1>1, <2>2 DEF FilesOK, Filed, Placed
    <3>2. \A kind : P!Entries(k.dir, kind) = LinesOf(held.messages, kind)
      BY LineCount DEF P!Entries, LinesOf
    <3>3. "compact" \notin k.lost => P!Inspection(k.dir).status = k.answer.status
      BY <2>2, <3>1 DEF Recorded, P!Inspection
    <3>4. "messages" \notin k.lost =>
             /\ P!Inspection(k.dir).decisions = Len(k.answer.decisions)
             /\ P!Inspection(k.dir).handling = Len(k.answer.handling)
      BY <3>1, <3>2 DEF Recorded, P!Inspection
    <3>5. "index" \notin k.lost =>
             \E i \in DOMAIN index : /\ index[i].status = k.answer.status
                                     /\ \A j \in DOMAIN index : index[j].dir = k.dir <=> j = i
      BY <2>2, <3>1 DEF Recorded, Indexed
    <3> QED
      BY <3>3, <3>4, <3>5
  <2> QED
    BY <2>1, <2>2 DEF RunsEndWell, P!ArtifactsTellTheAnswer
<1> QED
  BY <1>1, FilesHold, PTL

-------------------------------------------------------------------------------
(* The bus of the pairs: what a stream still carries *)

BusMessage == Clients \X Nat
Piece      == [part: {"length", "text"}, of: BusMessage]
UpStream(c)   == kept[c] \o up[c]
DownStream(c) == buffer[c] \o down[c]

BusTypes ==
  /\ status \in [Clients -> {"new", "open", "ending", "closed"}]
  /\ published \in [Clients -> Nat] /\ since \in [Clients -> Nat]
  /\ up \in [Clients -> Seq(Piece)] /\ down \in [Clients -> Seq(Piece)]
  /\ kept \in [Clients -> Seq(Piece)] /\ buffer \in [Clients -> Seq(Piece)]
  /\ received \in [Clients -> Seq(BusMessage)] /\ emitted \in Seq(BusMessage)
  /\ \A c \in Clients : since[c] <= Len(emitted)

\* What a client published and the server has not taken is on its stream, in order.
UpCarries(c) ==
  /\ W!Taken(c, Len(emitted)) <= published[c]
  /\ Len(UpStream(c)) = 2 * (published[c] - W!Taken(c, Len(emitted)))
  /\ \A i \in 1 .. published[c] - W!Taken(c, Len(emitted)) :
       UpStream(c)[2 * i].of = <<c, W!Taken(c, Len(emitted)) + i>>

\* What a client is still to be given is on its way, in order.
DownCarries(c) ==
  /\ Len(DownStream(c)) = 2 * (W!Due(c, Len(emitted)) - Len(received[c]))
  /\ \A n \in since[c] + 1 .. Len(emitted) :
       emitted[n][1] # c /\ W!Due(c, n) > Len(received[c])
         => DownStream(c)[2 * (W!Due(c, n) - Len(received[c]))].of = emitted[n]

GivenInOrder(c) ==
  /\ Len(received[c]) <= W!Due(c, Len(emitted))
  /\ \A n \in since[c] + 1 .. Len(emitted) :
       emitted[n][1] # c /\ W!Due(c, n) <= Len(received[c]) => received[c][W!Due(c, n)] = emitted[n]

Untouched(c) == received[c] = <<>> /\ buffer[c] = <<>> /\ down[c] = <<>>

BusInv ==
  /\ BusTypes
  /\ \A c \in Clients :
       /\ UpCarries(c) /\ GivenInOrder(c)
       /\ status[c] \in {"open", "ending"} => DownCarries(c)
       /\ status[c] = "new" => Untouched(c)
  /\ \A n \in DOMAIN emitted : emitted[n] = <<emitted[n][1], W!Taken(emitted[n][1], n)>>

-------------------------------------------------------------------------------
\* Half of a number, rounded down
LEMMA Halves == \A n \in Nat : n \div 2 \in Nat /\ 2 * (n \div 2) <= n /\ n - 2 * (n \div 2) < 2
  OBVIOUS

\* Of an even number, and of the odd one after it
LEMMA EvenHalf == \A i \in Nat : (2 * i) % 2 = 0 /\ (2 * i + 1) \div 2 = i
  OBVIOUS

\* A piece of the frames of n messages belongs to one of them.
LEMMA HalfIn == \A n, i \in Nat : i \in 1 .. 2 * n => (i + 1) \div 2 \in 1 .. n
  OBVIOUS

\* Frames of messages: two pieces of each, the second of which is its text
LEMMA FramesAre ==
  ASSUME NEW ms \in Seq(BusMessage)
  PROVE  /\ W!Frames(ms) \in Seq(Piece) /\ Len(W!Frames(ms)) = 2 * Len(ms)
         /\ \A i \in 1 .. Len(ms) : W!Frames(ms)[2 * i].of = ms[i]
<1>1. Len(ms) \in Nat /\ 2 * Len(ms) \in Nat
  OBVIOUS
<1>2. ASSUME NEW i \in 1 .. 2 * Len(ms)
      PROVE  [part |-> IF i % 2 = 1 THEN "length" ELSE "text", of |-> ms[(i + 1) \div 2]] \in Piece
  <2>1. (i + 1) \div 2 \in 1 .. Len(ms)
    BY <1>1, HalfIn
  <2>2. ms[(i + 1) \div 2] \in BusMessage
    BY <2>1
  <2> QED
    BY <2>2 DEF Piece
<1>3. W!Frames(ms) \in [1 .. 2 * Len(ms) -> Piece]
  BY <1>2 DEF W!Frames
<1>4. W!Frames(ms) \in Seq(Piece) /\ Len(W!Frames(ms)) = 2 * Len(ms)
  BY <1>1, <1>3
<1>5. ASSUME NEW i \in 1 .. Len(ms)
      PROVE  W!Frames(ms)[2 * i].of = ms[i]
  <2>1. 2 * i \in 1 .. 2 * Len(ms) /\ (2 * i + 1) \div 2 = i
    BY <1>1, EvenHalf
  <2> QED
    BY <2>1 DEF W!Frames
<1> QED
  BY <1>4, <1>5

\* What is behind the first m pieces
LEMMA TailOf ==
  ASSUME NEW S, NEW b \in Seq(S), NEW m \in Nat, m <= Len(b)
  PROVE  /\ SubSeq(b, m + 1, Len(b)) \in Seq(S) /\ Len(SubSeq(b, m + 1, Len(b))) = Len(b) - m
         /\ \A i \in 1 .. Len(b) - m : SubSeq(b, m + 1, Len(b))[i] = b[m + i]
<1>1. Len(b) \in Nat /\ m + 1 \in Int /\ \A i \in m + 1 .. Len(b) : b[i] \in S
  OBVIOUS
<1>2. /\ SubSeq(b, m + 1, Len(b)) \in Seq(S)
      /\ Len(SubSeq(b, m + 1, Len(b))) = IF m + 1 <= Len(b) THEN Len(b) - (m + 1) + 1 ELSE 0
      /\ \A i \in 1 .. Len(b) - (m + 1) + 1 : SubSeq(b, m + 1, Len(b))[i] = b[(m + 1) + i - 1]
  BY <1>1, SubSeqProperties
<1>3. Len(b) - (m + 1) + 1 = Len(b) - m
  BY <1>1
<1>4. ASSUME NEW i \in 1 .. Len(b) - m
      PROVE  SubSeq(b, m + 1, Len(b))[i] = b[m + i]
  <2>1. SubSeq(b, m + 1, Len(b))[i] = b[(m + 1) + i - 1]
    BY <1>2, <1>3
  <2>2. (m + 1) + i - 1 = m + i
    BY <1>1
  <2> QED
    BY <2>1, <2>2
<1>5. Len(SubSeq(b, m + 1, Len(b))) = Len(b) - m
  <2>1. m + 1 <= Len(b) \/ Len(b) - m = 0
    BY <1>1
  <2> QED
    BY <1>2, <1>3, <2>1
<1> QED
  BY <1>2, <1>4, <1>5

\* One stream behind another
LEMMA Joined ==
  ASSUME NEW S, NEW b \in Seq(S), NEW t \in Seq(S)
  PROVE  /\ b \o t \in Seq(S) /\ Len(b \o t) = Len(b) + Len(t)
         /\ \A i \in 1 .. Len(b) : (b \o t)[i] = b[i]
         /\ \A i \in 1 .. Len(t) : (b \o t)[Len(b) + i] = t[i]
  OBVIOUS

\* Streams are joined in any grouping.
LEMMA Chained ==
  ASSUME NEW S, NEW a \in Seq(S), NEW b \in Seq(S), NEW c \in Seq(S), NEW d, d = b \o c
  PROVE  a \o d = (a \o b) \o c
  BY ConcatAssociative

\* The same of pieces
LEMMA PiecesChain == \A k, q, f \in Seq(Piece) : (k \o q) \o f = k \o (q \o f)
  BY ConcatAssociative

\* What has arrived and what has not are the stream.
LEMMA Split ==
  ASSUME NEW S, NEW k \in Seq(S), NEW q \in Seq(S), NEW n \in 1 .. Len(q)
  PROVE  /\ SubSeq(q, 1, n) \in Seq(S) /\ SubSeq(q, n + 1, Len(q)) \in Seq(S)
         /\ k \o q = (k \o SubSeq(q, 1, n)) \o SubSeq(q, n + 1, Len(q))
<1> DEFINE h == SubSeq(q, 1, n)
           t == SubSeq(q, n + 1, Len(q))
<1>1. Len(q) \in Nat /\ n \in Nat /\ n <= Len(q)
  OBVIOUS
<1>2. h \in Seq(S) /\ Len(h) = n /\ \A i \in 1 .. n : h[i] = q[i]
  BY <1>1
<1>3. t \in Seq(S) /\ Len(t) = Len(q) - n /\ \A i \in 1 .. Len(q) - n : t[i] = q[n + i]
  BY <1>1, TailOf
<1> HIDE DEF h, t
<1>4. q = h \o t
  <2>1. h \in Seq(S) /\ t \in Seq(S)
    BY <1>2, <1>3
  <2>2. \A i \in 1 .. Len(q) : q[i] = IF i <= n THEN h[i] ELSE t[i - n]
    BY <1>1, <1>2, <1>3
  <2>3. h \o t \in Seq(S) /\ Len(h \o t) = n + (Len(q) - n)
    BY <2>1, <1>2, <1>3, Joined
  <2>4. \A i \in 1 .. Len(q) : (h \o t)[i] = q[i]
    BY <1>1, <1>2, <1>3, <2>1, <2>2
  <2>5. Len(h \o t) = Len(q)
    BY <1>1, <2>3
  <2> QED
    BY <2>3, <2>4, <2>5, SeqEqual, Zenon
<1>5. h \in Seq(S) /\ t \in Seq(S)
  BY <1>2, <1>3
<1>6. k \o q = (k \o h) \o t
  BY <1>4, <1>5, Chained
<1> QED
  BY <1>2, <1>3, <1>6 DEF h, t

\* What a reader takes off the front of a stream, and what it leaves
LEMMA Cut ==
  ASSUME NEW k \in Seq(Piece), NEW q \in Seq(Piece), NEW n \in 1 .. Len(q)
  PROVE  LET b    == k \o SubSeq(q, 1, n)
             t    == SubSeq(q, n + 1, Len(q))
             rest == W!Rest(b) \o t
         IN /\ W!Rest(b) \in Seq(Piece) /\ t \in Seq(Piece)
            /\ W!Messages(b) \in Seq(BusMessage) /\ Len(W!Messages(b)) = W!Whole(b) /\ W!Whole(b) \in Nat
            /\ Len(rest) = Len(k \o q) - 2 * W!Whole(b) /\ 2 * W!Whole(b) <= Len(k \o q)
            /\ \A i \in 1 .. W!Whole(b) : W!Messages(b)[i] = (k \o q)[2 * i].of
            /\ \A j \in 1 .. Len(rest) : rest[j] = (k \o q)[2 * W!Whole(b) + j]
<1> DEFINE b == k \o SubSeq(q, 1, n)
           t == SubSeq(q, n + 1, Len(q))
           w == W!Whole(b)
           r == W!Rest(b)
<1>1. k \o q = b \o t /\ b \in Seq(Piece) /\ t \in Seq(Piece)
  <2>1. SubSeq(q, 1, n) \in Seq(Piece) /\ t \in Seq(Piece) /\ k \o q = b \o t
    <3>1. /\ SubSeq(q, 1, n) \in Seq(Piece) /\ SubSeq(q, n + 1, Len(q)) \in Seq(Piece)
          /\ k \o q = (k \o SubSeq(q, 1, n)) \o SubSeq(q, n + 1, Len(q))
      <4> HIDE DEF b, t, w, r
      <4> QED
        BY Split, ZenonT(60)
    <3> QED
      BY <3>1
  <2>2. \A h \in Seq(Piece) : k \o h \in Seq(Piece)
    BY Joined
  <2> QED
    BY <2>1, <2>2, Zenon
<1> HIDE DEF b, t
<1>2. Len(b) \in Nat /\ Len(t) \in Nat /\ w \in Nat /\ 2 * w \in Nat /\ 2 * w <= Len(b)
  BY <1>1, Halves DEF W!Whole
<1>3. r = SubSeq(b, 2 * w + 1, Len(b))
  BY DEF W!Rest
<1>4. /\ r \in Seq(Piece) /\ Len(r) = Len(b) - 2 * w
      /\ \A i \in 1 .. Len(b) - 2 * w : r[i] = b[2 * w + i]
  <2>1. \A m \in Nat : m <= Len(b) => /\ SubSeq(b, m + 1, Len(b)) \in Seq(Piece) /\ Len(SubSeq(b, m + 1, Len(b))) = Len(b) - m
                                      /\ \A i \in 1 .. Len(b) - m : SubSeq(b, m + 1, Len(b))[i] = b[m + i]
    BY <1>1, TailOf
  <2> QED
    BY <1>2, <1>3, <2>1
<1>5. /\ Len(b \o t) = Len(b) + Len(t)
      /\ \A i \in 1 .. Len(b) : (b \o t)[i] = b[i]
      /\ \A i \in 1 .. Len(t) : (b \o t)[Len(b) + i] = t[i]
  BY <1>1, Joined
<1> HIDE DEF w, r
<1>6. /\ Len(r \o t) = Len(r) + Len(t)
      /\ \A i \in 1 .. Len(r) : (r \o t)[i] = r[i]
      /\ \A i \in 1 .. Len(t) : (r \o t)[Len(r) + i] = t[i]
  <2>1. r \in Seq(Piece) /\ t \in Seq(Piece)
    BY <1>1, <1>4
  <2> QED
    BY <2>1, Joined
<1>7. Len(r \o t) = Len(b \o t) - 2 * w /\ 2 * w <= Len(b \o t)
  BY <1>2, <1>4, <1>5, <1>6
<1>8. ASSUME NEW j \in 1 .. Len(r \o t)
      PROVE  (r \o t)[j] = (b \o t)[2 * w + j]
  <2>1. CASE j <= Len(r)
    <3>1. j \in 1 .. Len(r) /\ j \in 1 .. Len(b) - 2 * w /\ 2 * w + j \in 1 .. Len(b)
      BY <1>2, <1>4, <2>1
    <3> QED
      BY <1>4, <1>5, <1>6, <3>1
  <2>2. CASE j > Len(r)
    <3>1. j - Len(r) \in 1 .. Len(t) /\ j = Len(r) + (j - Len(r)) /\ 2 * w + j = Len(b) + (j - Len(r))
      BY <1>2, <1>4, <1>6, <2>2
    <3> QED
      BY <1>5, <1>6, <3>1
  <2>3. j <= Len(r) \/ j > Len(r)
    <3>1. Len(r) \in Nat
      BY <1>2, <1>4
    <3> QED
      BY <3>1
  <2> QED
    BY <2>1, <2>2, <2>3, Zenon
<1>9. ASSUME NEW i \in 1 .. w
      PROVE  b[2 * i] = (b \o t)[2 * i] /\ b[2 * i] \in Piece
  <2>1. 2 * i \in 1 .. Len(b)
    BY <1>2
  <2> QED
    BY <1>1, <1>5, <2>1
<1>10. W!Messages(b) = [i \in 1 .. w |-> b[2 * i].of]
  BY DEF W!Messages, w
<1>11. \A i \in 1 .. w : W!Messages(b)[i] = (b \o t)[2 * i].of /\ b[2 * i].of \in BusMessage
  BY <1>9, <1>10 DEF Piece
<1>12. W!Messages(b) \in [1 .. w -> BusMessage]
  BY <1>10, <1>11
<1>13. W!Messages(b) \in Seq(BusMessage) /\ Len(W!Messages(b)) = w
  BY <1>2, <1>12, SeqDef, LenProperties
<1> QED
  BY <1>1, <1>2, <1>4, <1>7, <1>8, <1>11, <1>13 DEF b, t, w, r

-------------------------------------------------------------------------------
(* How many messages there are for a client, and of a client *)

\* The instance counts as this module does.
LEMMA BusCount == \A S : W!Cardinality(S) = Cardinality(S)
  BY DEF W!Cardinality, Cardinality

DueOf(e, from, c, n) == Cardinality({k \in from + 1 .. n : e[k][1] # c})
TakenOf(e, c, n)     == Cardinality({k \in 1 .. n : e[k][1] = c})

\* Due and Taken, as counts of the messages alone
LEMMA CountsAre ==
  ASSUME NEW c, NEW n
  PROVE  /\ W!Due(c, n) = DueOf(emitted, since[c], c, n) /\ W!Taken(c, n) = TakenOf(emitted, c, n)
         /\ W!Due(c, n)' = DueOf(emitted', since'[c], c, n) /\ W!Taken(c, n)' = TakenOf(emitted', c, n)
  BY BusCount DEF W!Due, W!Taken, DueOf, TakenOf

\* Counts are numbers, and grow with the messages that they are over.
LEMMA CountFacts ==
  ASSUME NEW e, NEW from \in Nat, NEW c, NEW m \in Nat, NEW n \in Nat, n <= m
  PROVE  /\ DueOf(e, from, c, n) \in Nat /\ TakenOf(e, c, n) \in Nat
         /\ DueOf(e, from, c, n) <= DueOf(e, from, c, m)
         /\ n > from /\ e[n][1] # c => DueOf(e, from, c, n) >= 1
         /\ n <= from => DueOf(e, from, c, n) = 0
<1> DEFINE Foreign(k) == {j \in from + 1 .. k : e[j][1] # c}
<1>1. Foreign(n) \subseteq 1 .. n /\ Foreign(m) \subseteq 1 .. m /\ Foreign(n) \subseteq Foreign(m)
  OBVIOUS
<1>2. IsFiniteSet(Foreign(m)) /\ Cardinality(Foreign(n)) \in Nat
  <2> HIDE DEF Foreign
  <2>1. \A k \in Nat : \A X \in SUBSET (1 .. k) : IsFiniteSet(X) /\ Cardinality(X) \in Nat
    BY CountMore
  <2> QED
    BY <1>1, <2>1
<1>3. Cardinality(Foreign(n)) <= Cardinality(Foreign(m)) /\ IsFiniteSet(Foreign(n))
  BY <1>1, <1>2, FS_Subset
<1>4. ASSUME n > from, e[n][1] # c
      PROVE  Cardinality(Foreign(n)) >= 1
  <2>1. n \in Foreign(n)
    BY <1>4
  <2>2. Cardinality(Foreign(n)) # 0
    BY <1>3, <2>1, FS_EmptySet
  <2> QED
    BY <1>2, <2>2
<1>5. ASSUME n <= from
      PROVE  Cardinality(Foreign(n)) = 0
  <2>1. Foreign(n) = {}
    BY <1>5
  <2> QED
    BY <2>1, FS_EmptySet
<1>6. TakenOf(e, c, n) \in Nat
  <2>1. {k \in 1 .. n : e[k][1] = c} \in SUBSET (1 .. n)
    OBVIOUS
  <2> QED
    BY <2>1, CountMore DEF TakenOf
<1> QED
  BY <1>2, <1>3, <1>4, <1>5, <1>6 DEF DueOf

\* They are numbers.
LEMMA CountTypes ==
  \A e, c : \A from, n \in Nat : DueOf(e, from, c, n) \in Nat /\ TakenOf(e, c, n) \in Nat
<1> SUFFICES ASSUME NEW e, NEW c, NEW from \in Nat, NEW n \in Nat
             PROVE  DueOf(e, from, c, n) \in Nat /\ TakenOf(e, c, n) \in Nat
  OBVIOUS
<1>1. n <= n
  OBVIOUS
<1> QED
  BY <1>1, CountFacts

\* What the counts become when the server takes messages of one client
GrowsBy(e, f, m, w, c) ==
  (\A k \in 1 .. m : f[k] = e[k]) /\ (\A k \in m + 1 .. m + w : f[k][1] = c)

Grown(e, f, m, w, c) ==
  /\ \A from \in 0 .. m :
       /\ \A d : \A i \in 0 .. m : DueOf(f, from, d, i) = DueOf(e, from, d, i)
       /\ \A d : d # c => \A i \in 0 .. w : DueOf(f, from, d, m + i) = DueOf(e, from, d, m) + i
       /\ \A i \in 0 .. w : DueOf(f, from, c, m + i) = DueOf(e, from, c, m)
  /\ \A d : \A i \in 0 .. m : TakenOf(f, d, i) = TakenOf(e, d, i)
  /\ \A d : d # c => \A i \in 0 .. w : TakenOf(f, d, m + i) = TakenOf(e, d, m)
  /\ \A i \in 0 .. w : TakenOf(f, c, m + i) = TakenOf(e, c, m) + i

\* When w messages of one client follow m others, the others are due w more, and w more of it are taken.
LEMMA CountsGrow ==
  ASSUME NEW e, NEW f, NEW m \in Nat, NEW w \in Nat, NEW c, GrowsBy(e, f, m, w, c)
  PROVE  Grown(e, f, m, w, c)
<1>0. (\A k \in 1 .. m : f[k] = e[k]) /\ (\A k \in m + 1 .. m + w : f[k][1] = c)
  BY DEF GrowsBy
<1>1. ASSUME NEW from \in 0 .. m, NEW d, NEW n \in 0 .. m
      PROVE  DueOf(f, from, d, n) = DueOf(e, from, d, n) /\ TakenOf(f, d, n) = TakenOf(e, d, n)
  <2>1. {k \in from + 1 .. n : f[k][1] # d} = {k \in from + 1 .. n : e[k][1] # d}
    BY <1>0
  <2>2. {k \in 1 .. n : f[k][1] = d} = {k \in 1 .. n : e[k][1] = d}
    BY <1>0
  <2> QED
    BY <2>1, <2>2 DEF DueOf, TakenOf
<1>2. ASSUME NEW from \in 0 .. m, NEW d, d # c, NEW i \in 0 .. w
      PROVE  /\ DueOf(f, from, d, m + i) = DueOf(e, from, d, m) + i
             /\ TakenOf(f, d, m + i) = TakenOf(e, d, m)
  <2>1. {k \in from + 1 .. m + i : f[k][1] # d} = {k \in from + 1 .. m : e[k][1] # d} \cup (m + 1 .. m + i)
    BY <1>0, <1>2
  <2>2. {k \in 1 .. m + i : f[k][1] = d} = {k \in 1 .. m : e[k][1] = d}
    BY <1>0, <1>2
  <2>3. {k \in from + 1 .. m : e[k][1] # d} \in SUBSET (1 .. m) /\ i \in Nat
    OBVIOUS
  <2> DEFINE X == {k \in from + 1 .. m : e[k][1] # d}
  <2>4. Cardinality(X \cup (m + 1 .. m + i)) = Cardinality(X) + i
    <3> HIDE DEF X
    <3>1. \A Y \in SUBSET (1 .. m) : Cardinality(Y \cup (m + 1 .. m + i)) = Cardinality(Y) + i
      BY <2>3, CountMore
    <3>2. X \in SUBSET (1 .. m)
      BY <2>3 DEF X
    <3> QED
      BY <3>1, <3>2
  <2> QED
    BY <2>1, <2>2, <2>4 DEF DueOf, TakenOf
<1>3. ASSUME NEW from \in 0 .. m, NEW i \in 0 .. w
      PROVE  /\ DueOf(f, from, c, m + i) = DueOf(e, from, c, m)
             /\ TakenOf(f, c, m + i) = TakenOf(e, c, m) + i
  <2>1. {k \in from + 1 .. m + i : f[k][1] # c} = {k \in from + 1 .. m : e[k][1] # c}
    BY <1>0
  <2>2. {k \in 1 .. m + i : f[k][1] = c} = {k \in 1 .. m : e[k][1] = c} \cup (m + 1 .. m + i)
    BY <1>0
  <2>3. {k \in 1 .. m : e[k][1] = c} \in SUBSET (1 .. m) /\ i \in Nat
    OBVIOUS
  <2> DEFINE X == {k \in 1 .. m : e[k][1] = c}
  <2>4. Cardinality(X \cup (m + 1 .. m + i)) = Cardinality(X) + i
    <3> HIDE DEF X
    <3>1. \A Y \in SUBSET (1 .. m) : Cardinality(Y \cup (m + 1 .. m + i)) = Cardinality(Y) + i
      BY <2>3, CountMore
    <3>2. X \in SUBSET (1 .. m)
      BY <2>3 DEF X
    <3> QED
      BY <3>1, <3>2
  <2> QED
    BY <2>1, <2>2, <2>4 DEF DueOf, TakenOf
<1>4. 0 \in 0 .. m
  OBVIOUS
<1> QED
  BY <1>1, <1>2, <1>3, <1>4 DEF Grown
-------------------------------------------------------------------------------
(* The steps of the bus *)

\* The lengths and the counts of a client
LEMMA BusFacts ==
  ASSUME BusTypes, NEW c \in Clients
  PROVE  /\ Len(emitted) \in Nat /\ since[c] \in Nat /\ published[c] \in Nat
         /\ W!Taken(c, Len(emitted)) \in Nat /\ W!Due(c, Len(emitted)) \in Nat
         /\ Len(UpStream(c)) \in Nat /\ Len(DownStream(c)) \in Nat /\ Len(received[c]) \in Nat
         /\ UpStream(c) \in Seq(Piece) /\ DownStream(c) \in Seq(Piece)
         /\ \A n \in since[c] + 1 .. Len(emitted) :
              W!Due(c, n) \in Nat /\ W!Due(c, n) <= W!Due(c, Len(emitted)) /\ (emitted[n][1] # c => W!Due(c, n) >= 1)
<1>1. /\ Len(emitted) \in Nat /\ since[c] \in Nat /\ published[c] \in Nat /\ Len(received[c]) \in Nat
      /\ kept[c] \in Seq(Piece) /\ up[c] \in Seq(Piece) /\ buffer[c] \in Seq(Piece) /\ down[c] \in Seq(Piece)
  BY DEF BusTypes
<1>2. UpStream(c) \in Seq(Piece) /\ DownStream(c) \in Seq(Piece)
  BY <1>1 DEF UpStream, DownStream
<1>3. Len(UpStream(c)) \in Nat /\ Len(DownStream(c)) \in Nat
  BY <1>2
<1>4. W!Taken(c, Len(emitted)) \in Nat /\ W!Due(c, Len(emitted)) \in Nat
  <2>1. /\ DueOf(emitted, since[c], c, Len(emitted)) \in Nat
        /\ TakenOf(emitted, c, Len(emitted)) \in Nat
    BY <1>1, CountTypes
  <2> QED
    BY <2>1, CountsAre
<1>5. ASSUME NEW n \in since[c] + 1 .. Len(emitted)
      PROVE  W!Due(c, n) \in Nat /\ W!Due(c, n) <= W!Due(c, Len(emitted)) /\ (emitted[n][1] # c => W!Due(c, n) >= 1)
  <2>1. n \in Nat /\ n <= Len(emitted) /\ n > since[c]
    BY <1>1
  <2>2. /\ DueOf(emitted, since[c], c, n) \in Nat
        /\ DueOf(emitted, since[c], c, n) <= DueOf(emitted, since[c], c, Len(emitted))
        /\ emitted[n][1] # c => DueOf(emitted, since[c], c, n) >= 1
    BY <1>1, <2>1, CountFacts
  <2> QED
    BY <2>2, CountsAre
<1> QED
  BY <1>1, <1>2, <1>3, <1>4, <1>5

\* What a step leaves of the stream to the server, it leaves true.
LEMMA UpUndisturbed ==
  ASSUME NEW c, emitted' = emitted, published'[c] = published[c], UpStream(c)' = UpStream(c), UpCarries(c)
  PROVE  UpCarries(c)'
<1>1. \A n : W!Taken(c, n)' = W!Taken(c, n)
  BY CountsAre
<1> QED
  BY <1>1 DEF UpCarries

\* The same of the stream to a client, and of what it was given
LEMMA Undisturbed ==
  ASSUME NEW c, emitted' = emitted, since'[c] = since[c], received'[c] = received[c]
  PROVE  /\ GivenInOrder(c) => GivenInOrder(c)'
         /\ DownStream(c)' = DownStream(c) /\ DownCarries(c) => DownCarries(c)'
<1>1. \A n : W!Due(c, n)' = W!Due(c, n)
  BY CountsAre
<1> QED
  BY <1>1 DEF GivenInOrder, DownCarries

\* The same of the order of what the server took
LEMMA NumberedAlike ==
  ASSUME emitted' = emitted, \A n \in DOMAIN emitted : emitted[n] = <<emitted[n][1], W!Taken(emitted[n][1], n)>>
  PROVE  (\A n \in DOMAIN emitted : emitted[n] = <<emitted[n][1], W!Taken(emitted[n][1], n)>>)'
<1>1. \A c, n : W!Taken(c, n)' = W!Taken(c, n)
  BY CountsAre
<1> QED
  BY <1>1

\* A client connects: nothing is due to it, and nothing is on its way.
LEMMA BusConnects ==
  ASSUME BusInv, NEW c \in Clients, W!Connect(c)
  PROVE  BusInv'
<1>1. BusTypes'
  BY DEF BusInv, BusTypes, W!Connect
<1>2. ASSUME NEW d \in Clients
      PROVE  UpCarries(d)'
  BY UpUndisturbed DEF BusInv, W!Connect, UpStream
<1>3. ASSUME NEW d \in Clients, d # c
      PROVE  GivenInOrder(d)' /\ (status'[d] \in {"open", "ending"} => DownCarries(d)') /\ (status'[d] = "new" => Untouched(d)')
  <2>1. since'[d] = since[d] /\ status'[d] = status[d]
    BY <1>3 DEF BusInv, BusTypes, W!Connect
  <2> QED
    BY <2>1, Undisturbed DEF BusInv, W!Connect, DownStream, Untouched
<1>4. GivenInOrder(c)' /\ DownCarries(c)' /\ status'[c] = "open"
  <2>1. since'[c] = Len(emitted) /\ Len(emitted) \in Nat /\ status'[c] = "open" /\ Untouched(c)
    BY DEF BusInv, BusTypes, W!Connect
  <2>2. W!Due(c, Len(emitted))' = 0
    BY <2>1, CountsAre, CountFacts DEF W!Connect
  <2>3. Len(received'[c]) = 0 /\ Len(DownStream(c)') = 0 /\ since'[c] + 1 .. Len(emitted') = {}
    BY <2>1 DEF W!Connect, Untouched, DownStream
  <2> QED
    BY <2>1, <2>2, <2>3 DEF GivenInOrder, DownCarries
<1> QED
  BY <1>1, <1>2, <1>3, <1>4, NumberedAlike DEF BusInv, W!Connect

\* A client publishes: its stream is longer by one message.
LEMMA BusPublishes ==
  ASSUME BusInv, NEW c \in Clients, W!Publish(c)
  PROVE  BusInv'
<1> DEFINE m == <<c, published[c] + 1>>
           F == W!Frames(<<m>>)
           Q == W!Taken(c, Len(emitted))
<1>0. BusTypes /\ m \in BusMessage
  <2>1. BusTypes /\ published[c] \in Nat
    BY DEF BusInv, BusTypes
  <2> QED
    BY <2>1 DEF BusMessage
<1> HIDE DEF m
<1>1. BusTypes /\ m \in BusMessage /\ <<m>> \in Seq(BusMessage) /\ Len(<<m>>) = 1 /\ <<m>>[1] = m
  BY <1>0
<1>2. /\ F \in Seq(Piece) /\ Len(F) = 2
      /\ F[2].of = m
  <2>1. /\ F \in Seq(Piece) /\ Len(F) = 2 * Len(<<m>>)
        /\ \A i \in 1 .. Len(<<m>>) : F[2 * i].of = <<m>>[i]
    BY <1>1, FramesAre
  <2> QED
    BY <1>1, <2>1
<1>3. /\ published' = [published EXCEPT ![c] = @ + 1] /\ up' = [up EXCEPT ![c] = @ \o F]
      /\ UNCHANGED <<status, down, kept, buffer, received, emitted, since>>
  BY DEF W!Publish, m
<1> HIDE DEF F
<1>4. BusTypes'
  BY <1>1, <1>2, <1>3, SMTT(20) DEF BusTypes
<1>5. ASSUME NEW d \in Clients
      PROVE  GivenInOrder(d)' /\ (status'[d] \in {"open", "ending"} => DownCarries(d)') /\ (status'[d] = "new" => Untouched(d)')
  BY <1>3, Undisturbed DEF BusInv, DownStream, Untouched
<1>6. ASSUME NEW d \in Clients, d # c
      PROVE  UpCarries(d)'
  <2>1. published'[d] = published[d] /\ up'[d] = up[d]
    BY <1>1, <1>3, <1>6 DEF BusTypes
  <2> QED
    BY <1>3, <2>1, UpUndisturbed DEF BusInv, UpStream
<1>7. UpCarries(c)'
  <2>1. /\ published'[c] = published[c] + 1 /\ UpStream(c)' = kept[c] \o up'[c] /\ up'[c] = up[c] \o F
        /\ kept[c] \in Seq(Piece) /\ up[c] \in Seq(Piece)
    BY <1>1, <1>3 DEF BusTypes, UpStream
  <2>2. UpStream(c)' = UpStream(c) \o F
    <3>1. kept[c] \in Seq(Piece) /\ up[c] \in Seq(Piece) /\ F \in Seq(Piece)
      BY <1>2, <2>1
    <3>2. (kept[c] \o up[c]) \o F = kept[c] \o (up[c] \o F)
      BY <3>1, PiecesChain
    <3> QED
      BY <2>1, <3>2 DEF UpStream
  <2>3. /\ UpStream(c) \in Seq(Piece) /\ Len(UpStream(c)) \in Nat /\ published[c] \in Nat /\ Q \in Nat
        /\ Q <= published[c] /\ Len(UpStream(c)) = 2 * (published[c] - Q)
        /\ \A i \in 1 .. published[c] - Q : UpStream(c)[2 * i].of = <<c, Q + i>>
    BY <1>1, BusFacts DEF BusInv, UpCarries
  <2>4. W!Taken(c, Len(emitted))' = Q
    BY <1>3, CountsAre
  <2> HIDE DEF Q
  <2>5. /\ Len(UpStream(c)') = Len(UpStream(c)) + 2
        /\ \A i \in 1 .. Len(UpStream(c)) : UpStream(c)'[i] = UpStream(c)[i]
        /\ UpStream(c)'[Len(UpStream(c)) + 2] = F[2]
    <3>1. /\ Len(UpStream(c) \o F) = Len(UpStream(c)) + Len(F)
          /\ \A i \in 1 .. Len(UpStream(c)) : (UpStream(c) \o F)[i] = UpStream(c)[i]
          /\ \A i \in 1 .. Len(F) : (UpStream(c) \o F)[Len(UpStream(c)) + i] = F[i]
      <4>1. UpStream(c) \in Seq(Piece) /\ F \in Seq(Piece)
        BY <1>2, <2>3
      <4> QED
        BY <4>1, Joined
    <3>2. 2 \in 1 .. Len(F)
      BY <1>2
    <3> QED
      BY <1>2, <2>2, <3>1, <3>2
  <2>6. ASSUME NEW i \in 1 .. published[c] + 1 - Q
        PROVE  UpStream(c)'[2 * i].of = <<c, Q + i>>
    <3>1. CASE i <= published[c] - Q
      <4>1. i \in 1 .. published[c] - Q /\ 2 * i \in 1 .. Len(UpStream(c))
        BY <2>3, <3>1
      <4> QED
        BY <2>3, <2>5, <4>1
    <3>2. CASE i = published[c] - Q + 1
      <4>1. Len(UpStream(c)) = 2 * (published[c] - Q) /\ published[c] - Q \in Nat /\ Q \in Nat /\ published[c] \in Nat
        BY <2>3
      <4>2. 2 * i = Len(UpStream(c)) + 2 /\ Q + i = published[c] + 1
        BY <4>1, <3>2
      <4> QED
        BY <1>2, <2>5, <4>2 DEF m
    <3> QED
      BY <2>3, <3>1, <3>2
  <2>7. Q <= published[c] + 1 /\ Len(UpStream(c)') = 2 * (published[c] + 1 - Q)
    BY <2>3, <2>5
  <2>8. published'[c] = published[c] + 1 /\ Len(emitted') = Len(emitted)
    BY <1>3, <2>1
  <2>9. /\ Q <= published'[c] /\ Len(UpStream(c)') = 2 * (published'[c] - Q)
        /\ \A i \in 1 .. published'[c] - Q : UpStream(c)'[2 * i].of = <<c, Q + i>>
    <3>1. published'[c] - Q = published[c] + 1 - Q
      BY <2>3, <2>8
    <3> QED
      BY <2>6, <2>7, <2>8, <3>1, Zenon
  <2> QED
    BY <2>4, <2>9 DEF UpCarries
<1> QED
  BY <1>3, <1>4, <1>5, <1>6, <1>7, NumberedAlike DEF BusInv

\* A client takes what is whole of its stream, in order.
LEMMA ClientTakes ==
  ASSUME BusInv, NEW c \in Clients, NEW n \in 1 .. Len(down[c]), W!ClientReads(c, n)
  PROVE  BusInv'
<1> DEFINE b == buffer[c] \o SubSeq(down[c], 1, n)
           t == SubSeq(down[c], n + 1, Len(down[c]))
           w == W!Whole(b)
           M == W!Messages(b)
           r == W!Rest(b)
           D(i) == W!Due(c, i)
           L == Len(emitted)
           R == Len(received[c])
           R2 == Len(received'[c])
           Z == Len(DownStream(c))
           Z2 == Len(DownStream(c)')
<1>1. /\ status[c] \in {"open", "ending"}
      /\ buffer' = [buffer EXCEPT ![c] = r] /\ received' = [received EXCEPT ![c] = @ \o M]
      /\ down' = [down EXCEPT ![c] = t] /\ UNCHANGED <<status, published, up, kept, emitted, since>>
  BY DEF W!ClientReads
<1>2. BusTypes /\ buffer[c] \in Seq(Piece) /\ down[c] \in Seq(Piece) /\ received[c] \in Seq(BusMessage)
  BY DEF BusInv, BusTypes
<1>3. /\ r \in Seq(Piece) /\ t \in Seq(Piece)
      /\ M \in Seq(BusMessage) /\ Len(M) = w /\ w \in Nat
      /\ Len(r \o t) = Len(DownStream(c)) - 2 * w /\ 2 * w <= Len(DownStream(c))
      /\ \A i \in 1 .. w : M[i] = DownStream(c)[2 * i].of
      /\ \A j \in 1 .. Len(r \o t) : (r \o t)[j] = DownStream(c)[2 * w + j]
  BY <1>2, Cut DEF DownStream
<1> HIDE DEF b, t, w, M, r
<1>4. BusTypes'
  <2>1. received[c] \o M \in Seq(BusMessage)
    BY <1>2, <1>3, Joined
  <2> QED
    BY <1>1, <1>2, <1>3, <2>1 DEF BusTypes
<1>5. ASSUME NEW d \in Clients
      PROVE  UpCarries(d)'
  BY <1>1, UpUndisturbed DEF BusInv, UpStream
<1>6. ASSUME NEW d \in Clients, d # c
      PROVE  GivenInOrder(d)' /\ (status'[d] \in {"open", "ending"} => DownCarries(d)') /\ (status'[d] = "new" => Untouched(d)')
  <2>1. received'[d] = received[d] /\ buffer'[d] = buffer[d] /\ down'[d] = down[d]
    BY <1>1, <1>2, <1>6 DEF BusTypes
  <2> QED
    BY <1>1, <2>1, Undisturbed DEF BusInv, DownStream, Untouched
<1>7. GivenInOrder(c)' /\ DownCarries(c)' /\ status'[c] \in {"open", "ending"}
  <2>1. /\ received'[c] = received[c] \o M /\ DownStream(c)' = r \o t
    BY <1>1, <1>2 DEF BusTypes, DownStream
  <2>2. /\ L \in Nat /\ since[c] \in Nat /\ Len(received[c]) \in Nat /\ D(L) \in Nat /\ Len(DownStream(c)) \in Nat
        /\ \A i \in since[c] + 1 .. L : D(i) \in Nat /\ D(i) <= D(L) /\ (emitted[i][1] # c => D(i) >= 1)
    BY <1>2, BusFacts
  <2>3. \A i : W!Due(c, i)' = D(i)
    BY <1>1, CountsAre
  <2> HIDE DEF D
  <2>4. /\ Len(received[c]) <= D(L) /\ Len(DownStream(c)) = 2 * (D(L) - Len(received[c]))
        /\ \A i \in since[c] + 1 .. L :
             /\ emitted[i][1] # c /\ D(i) <= Len(received[c]) => received[c][D(i)] = emitted[i]
             /\ emitted[i][1] # c /\ D(i) > Len(received[c])
                  => DownStream(c)[2 * (D(i) - Len(received[c]))].of = emitted[i]
    BY <1>1 DEF BusInv, GivenInOrder, DownCarries, D
  <2>5. /\ Len(received'[c]) = Len(received[c]) + w
        /\ \A i \in 1 .. Len(received[c]) : received'[c][i] = received[c][i]
        /\ \A i \in 1 .. w : received'[c][Len(received[c]) + i] = M[i]
    <3>1. /\ Len(received[c] \o M) = Len(received[c]) + Len(M)
          /\ \A i \in 1 .. Len(received[c]) : (received[c] \o M)[i] = received[c][i]
          /\ \A i \in 1 .. Len(M) : (received[c] \o M)[Len(received[c]) + i] = M[i]
      <4>1. received[c] \in Seq(BusMessage) /\ M \in Seq(BusMessage)
        BY <1>2, <1>3
      <4> QED
        BY <4>1, Joined
    <3> QED
      BY <1>3, <2>1, <3>1
  <2>a. R \in Nat /\ Z \in Nat /\ w \in Nat /\ D(L) \in Nat /\ R2 = R + w /\ Z2 = Z - 2 * w /\ Z = 2 * (D(L) - R) /\ 2 * w <= Z /\ R <= D(L)
    BY <1>3, <2>1, <2>2, <2>4, <2>5
  <2>b. \A i \in since[c] + 1 .. L : D(i) \in Nat /\ D(i) <= D(L) /\ (emitted[i][1] # c => D(i) >= 1)
    BY <2>2
  <2>6. R2 <= D(L) /\ Z2 = 2 * (D(L) - R2)
    <3> HIDE DEF R, R2, Z, Z2
    <3> QED
      BY <2>a
  <2>7. ASSUME NEW i \in since[c] + 1 .. L, emitted[i][1] # c, D(i) <= R2
        PROVE  received'[c][D(i)] = emitted[i]
    <3>1. CASE D(i) <= R
      <4>1. D(i) \in 1 .. R
        <5>1. D(i) \in Nat /\ D(i) >= 1 /\ R \in Nat
          BY <2>a, <2>b, <2>7
        <5> HIDE DEF R, R2
        <5> QED
          BY <3>1, <5>1
      <4> QED
        BY <2>4, <2>5, <2>7, <3>1, <4>1
    <3>2. CASE D(i) > R
      <4>1. D(i) - R \in 1 .. w /\ R + (D(i) - R) = D(i)
        <5>1. D(i) \in Nat
          BY <2>b
        <5>2. R \in Nat /\ w \in Nat /\ R2 = R + w
          BY <2>a
        <5> HIDE DEF R, R2
        <5>3. D(i) <= R + w /\ D(i) > R
          BY <2>7, <3>2, <5>2
        <5> QED
          BY <5>1, <5>2, <5>3
      <4>2. received'[c][D(i)] = M[D(i) - R]
        BY <2>5, <4>1
      <4>3. M[D(i) - R] = DownStream(c)[2 * (D(i) - R)].of
        BY <1>3, <4>1
      <4> QED
        BY <2>4, <2>7, <3>2, <4>2, <4>3
    <3> QED
      <4>1. D(i) \in Nat /\ R \in Nat
        BY <2>a, <2>b
      <4> HIDE DEF R
      <4> QED
        BY <3>1, <3>2, <4>1
  <2>8. ASSUME NEW i \in since[c] + 1 .. L, emitted[i][1] # c, D(i) > R2
        PROVE  DownStream(c)'[2 * (D(i) - R2)].of = emitted[i]
    <3>1. /\ D(i) > R /\ 2 * w + 2 * (D(i) - R2) = 2 * (D(i) - R)
          /\ 2 * (D(i) - R2) \in 1 .. Z2
      <4>1. D(i) \in Nat /\ D(i) <= D(L)
        BY <2>b
      <4> HIDE DEF R, R2, Z, Z2
      <4>2. /\ w \in Nat /\ R \in Nat /\ D(L) \in Nat /\ R2 = R + w /\ Z2 = Z - 2 * w /\ Z = 2 * (D(L) - R)
        BY <2>a
      <4>3. D(i) > R2
        BY <2>8
      <4>4. \A x, y, v, q \in Nat : x > v + q /\ x <= y =>
              /\ x > v /\ 2 * q + 2 * (x - (v + q)) = 2 * (x - v)
              /\ 2 * (x - (v + q)) \in 1 .. 2 * (y - v) - 2 * q
        OBVIOUS
      <4>5. /\ D(i) > R /\ 2 * w + 2 * (D(i) - (R + w)) = 2 * (D(i) - R)
            /\ 2 * (D(i) - (R + w)) \in 1 .. 2 * (D(L) - R) - 2 * w
        <5>1. D(i) > R + w
          BY <4>2, <4>3
        <5> QED
          BY <4>1, <4>2, <4>4, <5>1
      <4> QED
        BY <4>2, <4>5
    <3>2. DownStream(c)'[2 * (D(i) - R2)] = DownStream(c)[2 * w + 2 * (D(i) - R2)]
      BY <1>3, <2>1, <3>1
    <3> QED
      BY <2>4, <2>8, <3>1, <3>2
  <2>9. since'[c] = since[c] /\ emitted' = emitted /\ Len(emitted') = L /\ status' = status
    BY <1>1
  <2>10. GivenInOrder(c)'
    BY <2>3, <2>6, <2>7, <2>9 DEF GivenInOrder
  <2>11. DownCarries(c)'
    BY <2>3, <2>6, <2>8, <2>9 DEF DownCarries
  <2> QED
    BY <1>1, <2>9, <2>10, <2>11
<1> QED
  BY <1>1, <1>4, <1>5, <1>6, <1>7, NumberedAlike DEF BusInv

\* A client disconnects, or is closed.
LEMMA BusEnds ==
  ASSUME BusInv, NEW c \in Clients, W!Disconnect(c) \/ W!Closed(c)
  PROVE  BusInv'
<1>1. /\ UNCHANGED <<published, up, down, kept, buffer, received, emitted, since>>
      /\ \A d \in Clients :
           /\ status'[d] \in {"open", "ending"} => status[d] \in {"open", "ending"}
           /\ status'[d] = "new" => status[d] = "new"
  BY DEF BusInv, BusTypes, W!Disconnect, W!Closed
<1>2. BusTypes'
  BY DEF BusInv, BusTypes, W!Disconnect, W!Closed
<1>3. ASSUME NEW d \in Clients
      PROVE  UpCarries(d)'
  BY <1>1, UpUndisturbed DEF BusInv, UpStream
<1>4. ASSUME NEW d \in Clients
      PROVE  GivenInOrder(d)' /\ (status'[d] \in {"open", "ending"} => DownCarries(d)') /\ (status'[d] = "new" => Untouched(d)')
  BY <1>1, Undisturbed DEF BusInv, DownStream, Untouched
<1> QED
  BY <1>1, <1>2, <1>3, <1>4, NumberedAlike DEF BusInv

\* The server takes w messages of one client, whose stream is then shorter by them.
LEMMA ServerTakes ==
  ASSUME BusInv, NEW c \in Clients, NEW n \in 1 .. Len(up[c]), W!ServerReads(c, n)
  PROVE  BusInv'
<1>0. PICK L \in Nat : L = Len(emitted)
  <2>1. Len(emitted) \in Nat
    BY DEF BusInv, BusTypes
  <2> QED
    BY <2>1
<1>a. PICK w \in Nat : w = W!Whole(kept[c] \o SubSeq(up[c], 1, n))
  <2>1. W!Whole(kept[c] \o SubSeq(up[c], 1, n)) \in Nat
    <3>1. kept[c] \in Seq(Piece) /\ up[c] \in Seq(Piece)
      BY DEF BusInv, BusTypes
    <3> QED
      BY <3>1, Cut
  <2> QED
    BY <2>1
<1> DEFINE b == kept[c] \o SubSeq(up[c], 1, n)
           t == SubSeq(up[c], n + 1, Len(up[c]))
           M == W!Messages(b)
           r == W!Rest(b)
           F == W!Frames(M)
           Q == W!Taken(c, L)
           U == UpStream(c)
           Heard(d) == d # c /\ status[d] \in {"open", "ending"}
<1>1. /\ kept' = [kept EXCEPT ![c] = r] /\ emitted' = emitted \o M
      /\ down' = [d \in Clients |-> IF Heard(d) THEN down[d] \o F ELSE down[d]]
      /\ up' = [up EXCEPT ![c] = t] /\ UNCHANGED <<status, published, buffer, received, since>>
  BY DEF W!ServerReads
<1>2. /\ BusTypes /\ kept[c] \in Seq(Piece) /\ up[c] \in Seq(Piece) /\ emitted \in Seq(BusMessage) /\ L \in Nat
      /\ \A d \in Clients : since[d] \in Nat /\ since[d] <= L
  BY <1>0 DEF BusInv, BusTypes
<1> USE <1>0
<1>3. /\ r \in Seq(Piece) /\ t \in Seq(Piece)
      /\ M \in Seq(BusMessage) /\ Len(M) = w /\ w \in Nat
      /\ Len(r \o t) = Len(U) - 2 * w /\ 2 * w <= Len(U)
      /\ \A i \in 1 .. w : M[i] = U[2 * i].of
      /\ \A j \in 1 .. Len(r \o t) : (r \o t)[j] = U[2 * w + j]
  <2>1. /\ r \in Seq(Piece) /\ t \in Seq(Piece)
        /\ M \in Seq(BusMessage) /\ Len(M) = W!Whole(b) /\ W!Whole(b) \in Nat
        /\ Len(r \o t) = Len(kept[c] \o up[c]) - 2 * W!Whole(b) /\ 2 * W!Whole(b) <= Len(kept[c] \o up[c])
        /\ \A i \in 1 .. W!Whole(b) : M[i] = (kept[c] \o up[c])[2 * i].of
        /\ \A j \in 1 .. Len(r \o t) : (r \o t)[j] = (kept[c] \o up[c])[2 * W!Whole(b) + j]
    BY <1>2, Cut
  <2>2. U = kept[c] \o up[c] /\ w = W!Whole(b)
    BY <1>a DEF UpStream
  <2> HIDE DEF b, t, M, r, U
  <2> QED
    BY <2>1, <2>2
<1> HIDE DEF b, t, M, r
<1>4. F \in Seq(Piece) /\ Len(F) = 2 * w /\ \A i \in 1 .. w : F[2 * i].of = M[i]
  BY <1>3, FramesAre
<1> HIDE DEF F
<1>5. /\ Len(U) \in Nat /\ published[c] \in Nat /\ Q \in Nat /\ Q <= published[c] /\ Len(U) = 2 * (published[c] - Q)
      /\ \A i \in 1 .. published[c] - Q : U[2 * i].of = <<c, Q + i>>
  BY <1>2, BusFacts DEF BusInv, UpCarries
<1>6. w <= published[c] - Q /\ \A i \in 1 .. w : M[i] = <<c, Q + i>>
  <2>1. w <= published[c] - Q /\ w \in Nat
    BY <1>3, <1>5
  <2>2. ASSUME NEW i \in 1 .. w
        PROVE  M[i] = <<c, Q + i>>
    <3>1. i \in 1 .. published[c] - Q
      BY <1>5, <2>1
    <3> QED
      BY <1>3, <1>5, <3>1
  <2> QED
    BY <2>1, <2>2
<1> HIDE DEF Q, U
<1>7. /\ emitted' \in Seq(BusMessage) /\ Len(emitted') = L + w
      /\ \A k \in 1 .. L : emitted'[k] = emitted[k]
      /\ \A i \in 1 .. w : emitted'[L + i] = <<c, Q + i>>
  <2>1. emitted \in Seq(BusMessage) /\ M \in Seq(BusMessage)
    BY <1>2, <1>3
  <2>2. /\ emitted \o M \in Seq(BusMessage) /\ Len(emitted \o M) = L + Len(M)
        /\ \A i \in 1 .. L : (emitted \o M)[i] = emitted[i]
        /\ \A i \in 1 .. Len(M) : (emitted \o M)[L + i] = M[i]
    BY <2>1, Joined
  <2> QED
    BY <1>1, <1>3, <1>6, <2>2
<1>8. \A k \in L + 1 .. L + w : k - L \in 1 .. w /\ k = L + (k - L) /\ emitted'[k] = <<c, Q + (k - L)>>
  <2> SUFFICES ASSUME NEW k \in L + 1 .. L + w
               PROVE  k - L \in 1 .. w /\ k = L + (k - L) /\ emitted'[k] = <<c, Q + (k - L)>>
    OBVIOUS
  <2>1. \A x, y \in Nat : \A j \in x + 1 .. x + y : j - x \in 1 .. y /\ j = x + (j - x)
    OBVIOUS
  <2>2. k - L \in 1 .. w /\ k = L + (k - L)
    BY <1>2, <1>3, <2>1
  <2>3. emitted'[L + (k - L)] = <<c, Q + (k - L)>>
    BY <1>7, <2>2
  <2> QED
    BY <2>2, <2>3
<1>9. ASSUME NEW d \in Clients
      PROVE  /\ \A i \in 0 .. L : W!Due(d, i)' = W!Due(d, i)
             /\ d # c => \A i \in 0 .. w : W!Due(d, L + i)' = W!Due(d, L) + i
             /\ d = c => \A i \in 0 .. w : W!Due(d, L + i)' = W!Due(d, L)
  <2>1. since[d] \in Nat /\ since[d] <= L /\ since'[d] = since[d] /\ L \in Nat /\ w \in Nat
    BY <1>1, <1>2, <1>3
  <2>2. GrowsBy(emitted, emitted', L, w, c)
    BY <1>7, <1>8 DEF GrowsBy
  <2>3. /\ \A i \in 0 .. L : DueOf(emitted', since[d], d, i) = DueOf(emitted, since[d], d, i)
        /\ d # c => \A i \in 0 .. w : DueOf(emitted', since[d], d, L + i) = DueOf(emitted, since[d], d, L) + i
        /\ d = c => \A i \in 0 .. w : DueOf(emitted', since[d], d, L + i) = DueOf(emitted, since[d], d, L)
    <3>1. since[d] \in 0 .. L
      BY <2>1
    <3>2. Grown(emitted, emitted', L, w, c)
      BY <2>1, <2>2, CountsGrow, SMTT(20)
    <3> QED
      BY <3>1, <3>2, ZenonT(40) DEF Grown
  <2>4. \A i : W!Due(d, i)' = DueOf(emitted', since[d], d, i) /\ W!Due(d, i) = DueOf(emitted, since[d], d, i)
    BY <2>1, CountsAre
  <2> QED
    BY <2>3, <2>4
<1>10. /\ \A d : \A i \in 0 .. L : TakenOf(emitted', d, i) = TakenOf(emitted, d, i)
       /\ \A d : d # c => TakenOf(emitted', d, L + w) = TakenOf(emitted, d, L)
       /\ \A i \in 0 .. w : TakenOf(emitted', c, L + i) = Q + i
       /\ w \in 0 .. w
  <2>1. GrowsBy(emitted, emitted', L, w, c)
    BY <1>7, <1>8 DEF GrowsBy
  <2>2. 0 \in Nat /\ 0 <= L /\ L \in Nat /\ w \in Nat /\ w \in 0 .. w
    BY <1>2, <1>3
  <2>3. /\ \A d : \A i \in 0 .. L : TakenOf(emitted', d, i) = TakenOf(emitted, d, i)
        /\ \A d : d # c => \A i \in 0 .. w : TakenOf(emitted', d, L + i) = TakenOf(emitted, d, L)
        /\ \A i \in 0 .. w : TakenOf(emitted', c, L + i) = TakenOf(emitted, c, L) + i
    <3>1. Grown(emitted, emitted', L, w, c)
      BY <2>1, <2>2, CountsGrow, SMTT(20)
    <3> QED
      BY <3>1 DEF Grown
  <2> QED
    <3>1. Q = TakenOf(emitted, c, L)
      BY CountsAre DEF Q
    <3> QED
      BY <2>2, <2>3, <3>1
<1>11. BusTypes'
  <2>1. ASSUME NEW d \in Clients, Heard(d)
        PROVE  down[d] \o F \in Seq(Piece)
    BY <1>2, <1>4, Joined DEF BusTypes
  <2>2. down' \in [Clients -> Seq(Piece)]
    BY <1>1, <1>2, <2>1 DEF BusTypes
  <2>3. \A d \in Clients : since'[d] <= Len(emitted')
    BY <1>1, <1>2, <1>3, <1>7
  <2> QED
    BY <1>1, <1>2, <1>3, <1>7, <2>2, <2>3 DEF BusTypes
<1>12. ASSUME NEW d \in Clients, d # c
       PROVE  UpCarries(d)'
  <2>1. UpStream(d)' = UpStream(d) /\ published'[d] = published[d]
    BY <1>1, <1>2, <1>12 DEF BusTypes, UpStream
  <2>2. W!Taken(d, Len(emitted))' = W!Taken(d, L)
    <3>1. W!Taken(d, Len(emitted))' = TakenOf(emitted', d, L + w) /\ W!Taken(d, L) = TakenOf(emitted, d, L)
      BY <1>7, CountsAre
    <3> QED
      BY <1>10, <1>12, <3>1
  <2> QED
    BY <2>1, <2>2 DEF BusInv, UpCarries
<1>13. UpCarries(c)'
  <2>1. UpStream(c)' = r \o t /\ published'[c] = published[c]
    BY <1>1, <1>2 DEF BusTypes, UpStream
  <2>2. W!Taken(c, Len(emitted))' = Q + w
    <3>1. W!Taken(c, Len(emitted))' = TakenOf(emitted', c, L + w)
      BY <1>7, CountsAre
    <3> QED
      BY <1>10, <3>1
  <2>3. /\ Q + w <= published[c] /\ Len(r \o t) = 2 * (published[c] - (Q + w))
    <3>1. \A x, y, v \in Nat : y <= x - v => v + y <= x /\ 2 * (x - v) - 2 * y = 2 * (x - (v + y))
      OBVIOUS
    <3>2. w \in Nat /\ published[c] \in Nat /\ Q \in Nat /\ w <= published[c] - Q
      BY <1>3, <1>5, <1>6
    <3>3. Len(r \o t) = 2 * (published[c] - Q) - 2 * w
      BY <1>3, <1>5
    <3> QED
      BY <3>1, <3>2, <3>3
  <2>4. ASSUME NEW i \in 1 .. published[c] - (Q + w)
        PROVE  (r \o t)[2 * i].of = <<c, (Q + w) + i>>
    <3>1. /\ 2 * i \in 1 .. Len(r \o t) /\ 2 * w + 2 * i = 2 * (w + i) /\ w + i \in 1 .. published[c] - Q
          /\ Q + (w + i) = (Q + w) + i
      <4>1. \A x, y, v \in Nat : \A j \in 1 .. x - (v + y) :
              /\ 2 * j \in 1 .. 2 * (x - (v + y)) /\ 2 * y + 2 * j = 2 * (y + j) /\ y + j \in 1 .. x - v
              /\ v + (y + j) = (v + y) + j
        OBVIOUS
      <4>2. w \in Nat /\ published[c] \in Nat /\ Q \in Nat
        BY <1>3, <1>5
      <4> QED
        BY <2>3, <4>1, <4>2
    <3>2. (r \o t)[2 * i] = U[2 * (w + i)]
      BY <1>3, <3>1
    <3> QED
      BY <1>5, <3>1, <3>2
  <2> QED
    BY <2>1, <2>2, <2>3, <2>4 DEF UpCarries
<1>14. ASSUME NEW d \in Clients
       PROVE  GivenInOrder(d)'
  <2>1. /\ since'[d] = since[d] /\ received'[d] = received[d] /\ GivenInOrder(d)
        /\ since[d] \in Nat /\ Len(received[d]) \in Nat /\ W!Due(d, L) \in Nat
    BY <1>1, <1>2, BusFacts DEF BusInv
  <2>2. W!Due(d, L + w)' >= W!Due(d, L)
    <3>1. w \in 0 .. w
      BY <1>3
    <3>2. W!Due(d, L + w)' = W!Due(d, L) + w \/ W!Due(d, L + w)' = W!Due(d, L)
      BY <1>9, <3>1
    <3> QED
      BY <1>3, <2>1, <3>2
  <2>3. ASSUME NEW i \in since[d] + 1 .. L + w, emitted'[i][1] # d, W!Due(d, i)' <= Len(received[d])
        PROVE  received[d][W!Due(d, i)'] = emitted'[i]
    <3>1. CASE i <= L
      <4>1. i \in since[d] + 1 .. L /\ i \in 0 .. L /\ i \in 1 .. L
        BY <1>2, <2>1, <3>1
      <4> QED
        BY <1>7, <1>9, <2>1, <2>3, <4>1 DEF GivenInOrder
    <3>2. CASE i > L
      <4>1. i \in L + 1 .. L + w
        BY <1>2, <2>1, <3>2
      <4>2. emitted'[i][1] = c /\ i - L \in 1 .. w /\ i - L \in 0 .. w /\ i = L + (i - L)
        <5>1. i - L \in 1 .. w /\ i = L + (i - L) /\ emitted'[i] = <<c, Q + (i - L)>>
          BY <1>8, <4>1
        <5>2. \A j \in 1 .. w : j \in 0 .. w
          BY <1>3
        <5>3. emitted'[i][1] = c
          BY <5>1
        <5> QED
          BY <5>1, <5>2, <5>3
      <4>3. W!Due(d, i)' = W!Due(d, L) + (i - L)
        BY <1>9, <2>3, <4>2
      <4>4. Len(received[d]) <= W!Due(d, L)
        BY <2>1 DEF GivenInOrder
      <4>5. W!Due(d, L) + (i - L) <= Len(received[d])
        BY <2>3, <4>3
      <4>6. W!Due(d, L) \in Nat /\ Len(received[d]) \in Nat
        BY <2>1
      <4>7. i - L \in Nat /\ i - L >= 1
        BY <1>3, <4>2
      <4> QED
        BY <4>4, <4>5, <4>6, <4>7
    <3>3. i <= L \/ i > L
      BY <1>2, <2>1
    <3> QED
      BY <3>1, <3>2, <3>3
  <2>4. Len(received[d]) <= W!Due(d, L)
    BY <2>1 DEF GivenInOrder
  <2>5. Len(received[d]) <= W!Due(d, L + w)'
    <3>1. W!Due(d, L + w)' \in Nat
      <4>1. since'[d] \in Nat
        BY <2>1
      <4>2. L + w \in Nat
        BY <1>3
      <4> QED
        BY <4>1, <4>2, CountsAre, CountTypes
    <3> QED
      BY <2>1, <2>2, <2>4, <3>1
  <2> QED
    BY <1>7, <2>1, <2>3, <2>5 DEF GivenInOrder
<1>15. ASSUME NEW d \in Clients, Heard(d)
       PROVE  DownCarries(d)'
  <2> DEFINE R == Len(received[d])
             S == DownStream(d)
             D == W!Due(d, L)
  <2>1. /\ since'[d] = since[d] /\ received'[d] = received[d] /\ DownCarries(d) /\ d # c /\ R <= D
        /\ since[d] \in Nat /\ R \in Nat /\ D \in Nat /\ S \in Seq(Piece) /\ Len(S) \in Nat
        /\ \A i \in since[d] + 1 .. L : W!Due(d, i) \in Nat /\ W!Due(d, i) <= D
    BY <1>1, <1>2, <1>15, BusFacts DEF BusInv, GivenInOrder
  <2>2. DownStream(d)' = S \o F
    <3>1. buffer'[d] = buffer[d] /\ down'[d] = down[d] \o F /\ buffer[d] \in Seq(Piece) /\ down[d] \in Seq(Piece)
      BY <1>1, <1>2, <1>15 DEF BusTypes
    <3>2. (buffer[d] \o down[d]) \o F = buffer[d] \o (down[d] \o F)
      BY <1>4, <3>1, PiecesChain
    <3> QED
      BY <3>1, <3>2 DEF DownStream
  <2>3. /\ Len(S) = 2 * (D - R)
        /\ \A i \in since[d] + 1 .. L :
             emitted[i][1] # d /\ W!Due(d, i) > R => S[2 * (W!Due(d, i) - R)].of = emitted[i]
    BY <2>1 DEF DownCarries
  <2> HIDE DEF S, D, R
  <2>4. /\ Len(S \o F) = Len(S) + 2 * w
        /\ \A i \in 1 .. Len(S) : (S \o F)[i] = S[i]
        /\ \A i \in 1 .. 2 * w : (S \o F)[Len(S) + i] = F[i]
    <3>1. S \in Seq(Piece) /\ F \in Seq(Piece)
      BY <1>4, <2>1
    <3>2. /\ Len(S \o F) = Len(S) + Len(F)
          /\ \A i \in 1 .. Len(S) : (S \o F)[i] = S[i]
          /\ \A i \in 1 .. Len(F) : (S \o F)[Len(S) + i] = F[i]
      BY <3>1, Joined
    <3> QED
      BY <1>4, <3>2
  <2>5. W!Due(d, L + w)' = D + w
    BY <1>3, <1>9, <2>1 DEF D
  <2>6. Len(S \o F) = 2 * ((D + w) - R)
    BY <1>3, <2>1, <2>3, <2>4
  <2>7. ASSUME NEW i \in since[d] + 1 .. L + w, emitted'[i][1] # d, W!Due(d, i)' > R
        PROVE  (S \o F)[2 * (W!Due(d, i)' - R)].of = emitted'[i]
    <3>1. CASE i <= L
      <4>1. i \in since[d] + 1 .. L /\ i \in 0 .. L /\ i \in 1 .. L
        BY <1>2, <2>1, <3>1
      <4>2. W!Due(d, i)' = W!Due(d, i) /\ emitted'[i] = emitted[i] /\ W!Due(d, i) \in Nat /\ W!Due(d, i) <= D
        BY <1>7, <1>9, <2>1, <4>1
      <4>3. 2 * (W!Due(d, i) - R) \in 1 .. Len(S)
        BY <2>1, <2>3, <2>7, <4>2, SMTT(30)
      <4> QED
        BY <2>3, <2>4, <2>7, <4>1, <4>2, <4>3
    <3>2. CASE i > L
      <4>1. i \in L + 1 .. L + w
        BY <1>2, <2>1, <3>2
      <4>2. /\ emitted'[i] = <<c, Q + (i - L)>> /\ i - L \in 1 .. w /\ i - L \in 0 .. w /\ i = L + (i - L)
        <5>1. i - L \in 1 .. w /\ i = L + (i - L) /\ emitted'[i] = <<c, Q + (i - L)>>
          BY <1>8, <4>1
        <5>2. \A j \in 1 .. w : j \in 0 .. w
          BY <1>3
        <5> QED
          BY <5>1, <5>2
      <4>3. W!Due(d, i)' = D + (i - L)
        BY <1>9, <2>1, <4>2 DEF D
      <4>4. i - L \in Nat /\ 2 * (i - L) \in 1 .. 2 * w /\ 2 * (W!Due(d, i)' - R) = Len(S) + 2 * (i - L)
        <5>1. \A x, y, v \in Nat : \A j \in 1 .. v :
                j \in Nat /\ 2 * j \in 1 .. 2 * v /\ 2 * ((x + j) - y) = 2 * (x - y) + 2 * j
          OBVIOUS
        <5> QED
          BY <1>3, <2>1, <2>3, <4>2, <4>3, <5>1, SMTT(30)
      <4>5. F[2 * (i - L)].of = <<c, Q + (i - L)>>
        BY <1>4, <1>6, <4>2
      <4> QED
        BY <2>4, <4>2, <4>4, <4>5
    <3>3. i <= L \/ i > L
      BY <2>1
    <3> QED
      BY <3>1, <3>2, <3>3
  <2>8. Len(received'[d]) = R /\ received'[d] = received[d]
    BY <2>1 DEF R
  <2> QED
    BY <1>7, <2>1, <2>2, <2>5, <2>6, <2>7, <2>8 DEF DownCarries
<1>16. ASSUME NEW d \in Clients, ~Heard(d)
       PROVE  DownStream(d)' = DownStream(d) /\ down'[d] = down[d]
  BY <1>1, <1>16 DEF DownStream
<1>17. ASSUME DownCarries(c)
       PROVE  DownCarries(c)'
  <2>1. /\ since'[c] = since[c] /\ received'[c] = received[c] /\ ~Heard(c) /\ w \in 0 .. w /\ since[c] \in Nat
    BY <1>1, <1>2, <1>3
  <2>2. W!Due(c, L + w)' = W!Due(c, L)
    BY <1>9, <2>1
  <2>3. ASSUME NEW i \in since[c] + 1 .. L + w, emitted'[i][1] # c
        PROVE  i \in since[c] + 1 .. L /\ W!Due(c, i)' = W!Due(c, i) /\ emitted'[i] = emitted[i]
    <3>1. i <= L
      BY <1>2, <1>8, <2>1, <2>3, SMTT(30)
    <3>2. i \in since[c] + 1 .. L /\ i \in 0 .. L /\ i \in 1 .. L
      BY <1>2, <2>1, <3>1
    <3> QED
      BY <1>7, <1>9, <3>2
  <2> QED
    BY <1>7, <1>16, <1>17, <2>1, <2>2, <2>3 DEF DownCarries
<1>18. \A k \in DOMAIN emitted' : emitted'[k] = <<emitted'[k][1], TakenOf(emitted', emitted'[k][1], k)>>
  <2>0. DOMAIN emitted' = 1 .. L + w
    BY <1>7, LenProperties
  <2> SUFFICES ASSUME NEW k \in 1 .. L + w
               PROVE  emitted'[k] = <<emitted'[k][1], TakenOf(emitted', emitted'[k][1], k)>>
    BY <2>0
  <2>1. CASE k <= L
    <3>1. k \in 1 .. L /\ k \in 0 .. L /\ k \in DOMAIN emitted
      BY <1>2, <2>1
    <3> QED
      <4>1. emitted[k] = <<emitted[k][1], TakenOf(emitted, emitted[k][1], k)>>
        BY <3>1, CountsAre DEF BusInv
      <4> QED
        BY <1>7, <1>10, <3>1, <4>1
  <2>2. CASE k > L
    <3>1. k \in L + 1 .. L + w
      BY <1>2, <2>2
    <3>2. emitted'[k] = <<c, Q + (k - L)>> /\ k - L \in 0 .. w /\ k = L + (k - L)
      <4>1. k - L \in 1 .. w /\ k = L + (k - L) /\ emitted'[k] = <<c, Q + (k - L)>>
        BY <1>8, <3>1
      <4>2. \A j \in 1 .. w : j \in 0 .. w
        BY <1>3
      <4> QED
        BY <4>1, <4>2
    <3> QED
      BY <1>10, <3>2
  <2> QED
    BY <1>2, <1>3, <2>1, <2>2
<1>19. ASSUME NEW d \in Clients
       PROVE  /\ UpCarries(d)' /\ GivenInOrder(d)'
              /\ status'[d] \in {"open", "ending"} => DownCarries(d)'
              /\ status'[d] = "new" => Untouched(d)'
  <2>1. UpCarries(d)' /\ GivenInOrder(d)'
    BY <1>12, <1>13, <1>14
  <2>2. ASSUME status'[d] \in {"open", "ending"}
        PROVE  DownCarries(d)'
    <3>1. status[d] \in {"open", "ending"} /\ (d = c => DownCarries(c))
      BY <1>1, <2>2 DEF BusInv
    <3> QED
      BY <1>15, <1>17, <3>1
  <2>3. ASSUME status'[d] = "new"
        PROVE  Untouched(d)'
    <3>1. status[d] = "new" /\ ~Heard(d)
      BY <1>1, <2>3
    <3> QED
      BY <1>1, <1>16, <3>1 DEF BusInv, Untouched
  <2> QED
    BY <2>1, <2>2, <2>3
<1>20. (\A k \in DOMAIN emitted : emitted[k] = <<emitted[k][1], W!Taken(emitted[k][1], k)>>)'
  BY <1>18, CountsAre
<1> QED
  BY <1>11, <1>19, <1>20 DEF BusInv

\* Every step keeps what is said of the streams.
LEMMA BusStep == BusInv /\ [W!Next]_(W!bvars) => BusInv'
<1> SUFFICES ASSUME BusInv, [W!Next]_(W!bvars)
             PROVE  BusInv'
  OBVIOUS
<1>1. CASE W!Next
  BY <1>1, BusConnects, BusPublishes, BusEnds, ServerTakes, ClientTakes DEF W!Next
<1>2. CASE UNCHANGED W!bvars
  <2>1. UNCHANGED <<status, published, up, down, kept, buffer, received, emitted, since>>
    BY <1>2 DEF W!bvars
  <2>2. BusTypes'
    BY <2>1 DEF BusInv, BusTypes
  <2>3. ASSUME NEW d \in Clients
        PROVE  /\ UpCarries(d)' /\ GivenInOrder(d)'
               /\ status'[d] \in {"open", "ending"} => DownCarries(d)'
               /\ status'[d] = "new" => Untouched(d)'
    BY <2>1, Undisturbed, UpUndisturbed DEF BusInv, UpStream, DownStream, Untouched
  <2> QED
    BY <2>1, <2>2, <2>3, NumberedAlike DEF BusInv
<1> QED
  BY <1>1, <1>2

\* At the start nothing is on its way.
LEMMA BusInit == W!Init => BusInv
<1> SUFFICES ASSUME W!Init
             PROVE  BusInv
  OBVIOUS
<1>1. Len(emitted) = 0 /\ emitted = <<>> /\ DOMAIN emitted = {}
  BY DEF W!Init
<1>2. BusTypes
  BY <1>1 DEF W!Init, BusTypes
<1>3. ASSUME NEW c \in Clients
      PROVE  UpCarries(c) /\ GivenInOrder(c) /\ Untouched(c) /\ status[c] = "new"
  <2>1. /\ published[c] = 0 /\ since[c] = 0 /\ status[c] = "new" /\ received[c] = <<>>
        /\ kept[c] = <<>> /\ up[c] = <<>> /\ Untouched(c)
    BY DEF W!Init, Untouched
  <2>2. W!Taken(c, 0) = 0 /\ W!Due(c, 0) = 0
    <3>1. 0 <= 0 /\ 0 \in Nat /\ {k \in 1 .. 0 : emitted[k][1] = c} = {}
      OBVIOUS
    <3>2. DueOf(emitted, 0, c, 0) = 0
      BY <3>1, CountFacts
    <3>3. TakenOf(emitted, c, 0) = 0
      BY <3>1, FS_EmptySet DEF TakenOf
    <3> QED
      BY <2>1, <3>2, <3>3, CountsAre
  <2>3. UpStream(c) = <<>> /\ Len(UpStream(c)) = 0
    BY <2>1 DEF UpStream
  <2> QED
    BY <1>1, <2>1, <2>2, <2>3 DEF UpCarries, GivenInOrder
<1> QED
  BY <1>1, <1>2, <1>3 DEF BusInv

\* What is said of the streams holds in every state.
LEMMA BusHolds == W!Spec => []BusInv
<1> QED
  BY BusInit, BusStep, PTL DEF W!Spec

\* For any clients and messages, however the streams are cut into pieces: a client is given what
\* the others published since it was accepted, in one order for all, without loss, repetition
\* or its own, and the server takes what each client publishes in order (pair-bus.mjs:14-25,
\* 66-72).
THEOREM OrderIsKept == W!Spec => []OneOrderForAll
<1>1. BusInv => OneOrderForAll
  BY DEF BusInv, GivenInOrder, OneOrderForAll, W!OneOrderForAll
<1> QED
  BY <1>1, BusHolds, PTL

-------------------------------------------------------------------------------
(* Leader keys *)

Pressed == Keys \cup {Leader, Esc}

LeaderStates ==
  [pending : BOOLEAN, node : K!Nodes \cup {None}, path : Seq(K!Nodes), timeout : BOOLEAN,
   timer : K!Nodes \cup {None}, panel : K!Nodes \cup {None}]

\* A path spells the first n of the keys t.
Spells(path, t, n) == path \in Seq(Pressed) /\ Len(path) = n /\ \A j \in 1..n : path[j] = t[j]

\* The nodes of a path spell what was typed, key by key, in tries that were in force.
OnPath(path, t, tries) ==
  /\ Len(path) = Len(t) + 1
  /\ \A i \in 1..Len(path) : Spells(path[i].at, t, i - 1) /\ K!ChildrenOf(path[i]) \in tries

RegistryOK ==
  /\ holders \in [Shims -> 0..Holders] /\ keymaps \subseteq Keymaps
  /\ K!RegistryIsFollowed

\* The parts of the leader's state are in step: a panel, and the panel's timer, are for a
\* current node, which ends the path of what was typed; nothing is open out of context.
LeaderOK ==
  /\ leader \in LeaderStates /\ typed \in Seq(Pressed)
  /\ leader.timer # None => leader.timer = leader.node
  /\ leader.panel # None => leader.node # None
  /\ leader.node # None => /\ K!Open /\ OnPath(leader.path, typed, seen)
                           /\ leader.node = leader.path[Len(leader.path)]
  /\ phase # "on" => leader = K!Idle
  /\ K!CapturesInContext

\* The tries of a registry are those that a node may be in.
LEMMA TriesOfRegistry ==
  ASSUME NEW maps \in SUBSET Keymaps, NEW held \in [Shims -> 0..Holders]
  PROVE  K!DispatchTrie(maps, held) \in K!Tries
BY DEF K!Tries

\* A counted holder more or less changes nothing as long as there is one.
LEMMA SameMounted ==
  ASSUME NEW acts, NEW maps, NEW held, NEW more, \A s \in Shims : held[s] > 0 <=> more[s] > 0
  PROVE  K!Snapshot(acts, held) = K!Snapshot(acts, more) /\ K!DispatchTrie(maps, held) = K!DispatchTrie(maps, more)
<1>1. {s \in Shims : held[s] > 0} = {s \in Shims : more[s] > 0}
  OBVIOUS
<1>2. K!Mounted(maps, held) = K!Mounted(maps, more)
  BY DEF K!Mounted
<1>3. K!Snapshot(acts, held) = K!Snapshot(acts, more)
  BY <1>1 DEF K!Snapshot
<1>4. K!Specs(maps, held) = K!Specs(maps, more)
  BY <1>2 DEF K!Specs
<1> QED BY <1>3, <1>4 DEF K!DispatchTrie

\* The registry changes, and the runtime follows.
LEMMA NotifyOK ==
  ASSUME K!KeysConstants, RegistryOK, NEW acts, NEW maps \in SUBSET Keymaps, NEW held \in [Shims -> 0..Holders],
         K!Notify(acts, maps, held)
  PROVE  RegistryOK'
BY DEF K!Notify, RegistryOK, K!RegistryIsFollowed

\* A shim is registered or disposed of.
LEMMA ShimOK ==
  ASSUME K!KeysConstants, RegistryOK, NEW s \in Shims, K!RegisterShim(s) \/ K!DisposeShim(s)
  PROVE  RegistryOK'
<1> PICK more : more = [holders EXCEPT ![s] = holders[s] + 1]
  OBVIOUS
<1> PICK less : less = [holders EXCEPT ![s] = holders[s] - 1]
  OBVIOUS
<1>0. holders \in [Shims -> 0..Holders] /\ keymaps \subseteq Keymaps /\ Holders \in Nat
        /\ holders[s] \in 0..Holders
  BY DEF RegistryOK, K!KeysConstants
<1>1. holders[s] < Holders => more \in [Shims -> 0..Holders]
  BY <1>0
<1>2. holders[s] > 0 => less \in [Shims -> 0..Holders]
  BY <1>0
<1>3. ASSUME NEW held \in [Shims -> 0..Holders], \A t \in Shims : holders[t] > 0 <=> held[t] > 0, holders' = held,
             UNCHANGED <<registered, keymaps, phase, handlers, trie>>
      PROVE  RegistryOK'
  <2>1. K!Snapshot(registered, held) = K!Snapshot(registered, holders)
        /\ K!DispatchTrie(keymaps, held) = K!DispatchTrie(keymaps, holders)
    BY <1>3, SameMounted
  <2> QED BY <1>0, <1>3, <2>1 DEF RegistryOK, K!RegistryIsFollowed
<1>4. CASE K!RegisterShim(s)
  <2>1. CASE holders[s] = 0
    <3>1. K!Notify(registered, keymaps, more) /\ holders[s] < Holders
      BY <1>4, <2>1 DEF K!RegisterShim
    <3> QED BY <1>0, <1>1, <3>1, NotifyOK
  <2>2. CASE holders[s] # 0
    <3>1. holders' = more /\ UNCHANGED <<registered, keymaps, phase, handlers, trie>> /\ holders[s] < Holders
      BY <1>4, <2>2 DEF K!RegisterShim, K!runtime
    <3>2. \A t \in Shims : holders[t] > 0 <=> more[t] > 0
      BY <1>0, <2>2
    <3> QED BY <1>1, <1>3, <3>1, <3>2
  <2> QED BY <2>1, <2>2
<1>5. CASE K!DisposeShim(s)
  <2>1. CASE holders[s] = 1
    <3>1. K!Notify(registered, keymaps, less) /\ holders[s] > 0
      BY <1>5, <2>1 DEF K!DisposeShim
    <3> QED BY <1>0, <1>2, <3>1, NotifyOK
  <2>2. CASE holders[s] # 1
    <3>1. holders' = less /\ UNCHANGED <<registered, keymaps, phase, handlers, trie>> /\ holders[s] > 0
      BY <1>5, <2>2 DEF K!DisposeShim, K!runtime
    <3>2. \A t \in Shims : holders[t] > 0 <=> less[t] > 0
      BY <1>0, <2>2, <3>1
    <3> QED BY <1>2, <1>3, <3>1, <3>2
  <2> QED BY <2>1, <2>2
<1> QED BY <1>4, <1>5

\* Every step keeps the runtime in step with the registry.
LEMMA RegistryStep ==
  ASSUME K!KeysConstants, RegistryOK, [K!Next]_K!vars
  PROVE  RegistryOK'
<1>1. CASE UNCHANGED <<registered, keymaps, holders, phase, handlers, trie>>
  BY <1>1 DEF RegistryOK, K!RegistryIsFollowed
<1>2. CASE K!Pressing \/ K!PressUnwrapped \/ K!Suggest \/ K!ExpireSequence \/ K!ShowWhichKey
  BY <1>1, <1>2 DEF K!Pressing, K!Press, K!PressDeclined, K!Descend, K!Dispatch, K!Stray, K!PassOn, K!BackOut,
     K!Cancel,
     K!Start, K!Taken, K!Delegate, K!PressUnwrapped, K!Suggest, K!ExpireSequence, K!ShowWhichKey, K!registry,
       K!runtime
<1>3. CASE K!Registration
  <2>1. holders \in [Shims -> 0..Holders] /\ keymaps \subseteq Keymaps
    BY DEF RegistryOK
  <2>2. ASSUME NEW a \in Actions, K!RegisterAction(a) \/ K!DisposeAction(a) PROVE RegistryOK'
    BY <2>1, <2>2, NotifyOK DEF K!RegisterAction, K!DisposeAction
  <2>3. ASSUME NEW m \in Keymaps, K!RegisterKeymap(m) \/ K!DisposeKeymap(m) PROVE RegistryOK'
    <3>1. keymaps \cup {m} \in SUBSET Keymaps /\ keymaps \ {m} \in SUBSET Keymaps
      BY <2>1
    <3> QED BY <2>1, <2>3, <3>1, NotifyOK DEF K!RegisterKeymap, K!DisposeKeymap
  <2> QED BY <1>3, <2>2, <2>3, ShimOK DEF K!Registration
<1>4. CASE K!SessionStart \/ K!SessionShutdown
  BY <1>4 DEF K!SessionStart, K!SessionShutdown, K!Shutdown, K!registry, RegistryOK, K!RegistryIsFollowed
<1>5. CASE K!Started
  BY <1>5 DEF K!Started, RegistryOK, K!RegistryIsFollowed
<1>6. CASE UNCHANGED K!vars
  BY <1>1, <1>6 DEF K!vars, K!registry, K!runtime
<1> QED BY <1>2, <1>3, <1>4, <1>5, <1>6 DEF K!Next

\* A path that spells all that was typed is what was typed.
LEMMA SpellsAll ==
  ASSUME NEW t \in Seq(Pressed), NEW path, Spells(path, t, Len(t))
  PROVE  path = t
BY DEF Spells

\* One more key, or one less
LEMMA SpellsMore ==
  ASSUME NEW t \in Seq(Pressed), NEW k \in Pressed, NEW path, NEW n \in 0..Len(t), Spells(path, t, n)
  PROVE  /\ Spells(path, Append(t, k), n)
         /\ n = Len(t) => Spells(Append(path, k), Append(t, k), n + 1)
         /\ n < Len(t) => Spells(path, K!Front(t), n)
<1>1. Spells(path, Append(t, k), n)
  BY DEF Spells
<1>2. n = Len(t) => Spells(Append(path, k), Append(t, k), n + 1)
  BY DEF Spells
<1>3. n < Len(t) => Spells(path, K!Front(t), n)
  BY DEF Spells, K!Front
<1> QED BY <1>1, <1>2, <1>3

\* The tries in force become more.
LEMMA PathKept ==
  ASSUME NEW path, NEW t, OnPath(path, t, seen), trie' \in seen', seen \subseteq seen'
  PROVE  OnPath(path, t, seen)'
BY DEF OnPath, K!ChildrenOf

\* The leader comes to the last node of a path.
LEMMA AtForm ==
  ASSUME LeaderOK, NEW path \in Seq(K!Nodes), path # <<>>
  PROVE  /\ K!At(path) \in LeaderStates /\ path[Len(path)] \in K!Nodes
         /\ K!At(path).pending = TRUE /\ K!At(path).node = path[Len(path)] /\ K!At(path).path = path
         /\ K!At(path).timer = path[Len(path)] /\ K!At(path).panel = leader.panel
<1>1. path[Len(path)] \in K!Nodes
  OBVIOUS
<1>2. leader \in LeaderStates
  BY DEF LeaderOK
<1> QED BY <1>1, <1>2 DEF K!At, K!Last, LeaderStates

\* A key that follows leads to a node of the trie that the current one is in.
LEMMA ChildForm ==
  ASSUME K!KeysConstants, RegistryOK, LeaderOK, NEW k \in Pressed, K!Follows(k), NEW n \in K!Child(leader.node, k)
  PROVE  /\ leader.node \in K!Nodes /\ n \in K!Nodes /\ n # None /\ n.at = Append(leader.node.at, k)
         /\ n.of = K!ChildrenOf(leader.node) /\ n.at \in DOMAIN n.of /\ K!ChildrenOf(n) = n.of
<1>1. phase = "on" /\ leader.node # None
  BY DEF K!Follows, K!Heard
<1>2. leader.node \in K!Nodes
  BY <1>1 DEF LeaderOK, LeaderStates
<1>3. trie \in K!Tries
  BY <1>1, TriesOfRegistry DEF RegistryOK, K!RegistryIsFollowed
<1>4. leader.node = K!Root \/ \E t \in K!Tries : \E p \in DOMAIN t : leader.node = [of |-> t, at |-> p]
  BY <1>2 DEF K!Nodes
<1>5. K!ChildrenOf(leader.node) \in K!Tries
  <2>1. CASE leader.node = K!Root
    BY <1>3, <2>1 DEF K!ChildrenOf
  <2>2. CASE leader.node # K!Root
    <3> PICK t \in K!Tries : \E p \in DOMAIN t : leader.node = [of |-> t, at |-> p]
      BY <1>4, <2>2
    <3>1. leader.node.of = t
      OBVIOUS
    <3> QED BY <2>2, <3>1 DEF K!ChildrenOf
  <2> QED BY <2>1, <2>2
<1> PICK c : c = K!ChildrenOf(leader.node)
  OBVIOUS
<1> PICK p : p = Append(leader.node.at, k)
  OBVIOUS
<1>6. n = [of |-> c, at |-> p] /\ p \in DOMAIN c
  BY DEF K!Child
<1>7. n \in K!Nodes
  <2> DEFINE Sheet(t) == {[of |-> t, at |-> q] : q \in DOMAIN t}
  <2>1. K!Nodes = {K!Root} \cup UNION {Sheet(t) : t \in K!Tries}
    BY DEF K!Nodes
  <2>2. n \in Sheet(c) /\ c \in K!Tries
    BY <1>5, <1>6
  <2> HIDE DEF Sheet
  <2> QED BY <2>1, <2>2
<1>8. n # None
  BY <1>7 DEF K!KeysConstants
<1>9. p # <<>>
  <2>1. leader.node.at \in Seq(Pressed)
    BY <1>1, <1>2 DEF LeaderOK, OnPath, Spells, LeaderStates
  <2> QED BY <2>1
<1>10. n # K!Root
  BY <1>6, <1>9 DEF K!Root
<1>11. K!ChildrenOf(n) = n.of
  BY <1>10 DEF K!ChildrenOf
<1> QED BY <1>2, <1>6, <1>7, <1>8, <1>11

\* A key descends.
LEMMA DescendOK ==
  ASSUME K!KeysConstants, RegistryOK, LeaderOK, NEW k \in Pressed, K!Descend(k)
  PROVE  LeaderOK'
<1> PICK n \in K!Child(leader.node, k) : leader' = K!At(Append(leader.path, n))
  BY DEF K!Descend
<1> PICK path : path = Append(leader.path, n)
  OBVIOUS
<1>1. /\ K!Follows(k) /\ typed' = Append(typed, k) /\ seen' = seen /\ trie' = trie /\ mode' = mode
           /\ phase' = phase
      /\ phase = "on" /\ leader.node # None /\ K!Open
  BY DEF K!Descend, K!Follows, K!Heard, K!Taken, K!runtime, K!editor, K!Open
<1>2. /\ n \in K!Nodes /\ n # None /\ n.at = Append(leader.node.at, k)
           /\ K!ChildrenOf(n) = K!ChildrenOf(leader.node)
  BY <1>1, ChildForm
<1>3. /\ typed \in Seq(Pressed) /\ leader.path \in Seq(K!Nodes) /\ OnPath(leader.path, typed, seen)
      /\ leader.node = leader.path[Len(leader.path)] /\ mode = "normal"
  BY <1>1 DEF LeaderOK, LeaderStates, K!CapturesInContext, K!Active
<1>4. /\ path \in Seq(K!Nodes) /\ Len(path) = Len(leader.path) + 1 /\ path[Len(path)] = n /\ path # <<>>
      /\ \A i \in 1..Len(leader.path) : path[i] = leader.path[i]
  BY <1>2, <1>3
<1>5. Len(path) = Len(Append(typed, k)) + 1 /\ Append(typed, k) \in Seq(Pressed)
        /\ Len(leader.path) = Len(typed) + 1
  BY <1>3, <1>4 DEF OnPath
<1>6. ASSUME NEW i \in 1..Len(path) PROVE Spells(path[i].at, Append(typed, k), i - 1)
             /\ K!ChildrenOf(path[i]) \in seen
  <2>1. CASE i \in 1..Len(leader.path)
    <3>1. Spells(path[i].at, typed, i - 1) /\ K!ChildrenOf(path[i]) \in seen /\ i - 1 \in 0..Len(typed)
      BY <1>3, <1>4, <1>5, <2>1 DEF OnPath
    <3> QED BY <1>3, <3>1, SpellsMore
  <2>2. CASE i = Len(path)
    <3>1. Spells(leader.node.at, typed, Len(typed)) /\ K!ChildrenOf(leader.node) \in seen
      BY <1>3, <1>5 DEF OnPath
    <3>2. Len(typed) \in 0..Len(typed) /\ i - 1 = Len(typed) + 1
      BY <1>3, <1>4, <1>5, <2>2
    <3>3. Spells(n.at, Append(typed, k), Len(typed) + 1)
      BY <1>2, <1>3, <3>1, <3>2, SpellsMore
    <3> QED BY <1>2, <1>4, <2>2, <3>1, <3>2, <3>3
  <2> QED BY <1>4, <2>1, <2>2
<1>7. OnPath(path, Append(typed, k), seen)
  BY <1>5, <1>6 DEF OnPath
<1>8. OnPath(path, typed, seen)'
  BY <1>1, <1>7 DEF OnPath, K!ChildrenOf
<1>9. leader' = K!At(path)
  OBVIOUS
<1>10. /\ leader' \in LeaderStates /\ leader'.pending = TRUE /\ leader'.node = n /\ leader'.path = path
       /\ leader'.timer = n
  BY <1>4, <1>9, AtForm, ZenonT(60)
<1> QED BY <1>1, <1>2, <1>3, <1>4, <1>5, <1>8, <1>10 DEF LeaderOK, K!Open, K!CapturesInContext, K!Active

\* The leader key opens the root.
LEMMA StartOK ==
  ASSUME K!KeysConstants, RegistryOK, LeaderOK, K!Start
  PROVE  LeaderOK'
<1> PICK path : path = <<K!Root>>
  OBVIOUS
<1>1. /\ leader' = K!At(path) /\ typed' = <<>> /\ seen' = {trie} /\ trie' = trie /\ mode' = mode /\ phase' = phase
      /\ phase = "on" /\ mode = "normal"
  BY DEF K!Start, K!Heard, K!Taken, K!runtime, K!editor, K!Active
<1>2. /\ path \in Seq(K!Nodes) /\ path # <<>> /\ Len(path) = 1 /\ path[1] = K!Root /\ K!Root \in K!Nodes
      /\ K!Root # None /\ K!Root.at = <<>>
  BY DEF K!Nodes, K!KeysConstants, K!Root
<1>3. /\ leader' \in LeaderStates /\ leader'.pending = TRUE /\ leader'.node = K!Root /\ leader'.path = path
      /\ leader'.timer = K!Root
  BY <1>1, <1>2, AtForm
<1>4. Spells(<<>>, <<>>, 0) /\ Len(<<>>) = 0
  BY DEF Spells
<1>5. OnPath(path, typed, seen)'
  <2>1. ASSUME NEW i \in 1..1
        PROVE  Spells(path[i].at, <<>>, i - 1) /\ (IF path[i] = K!Root THEN trie' ELSE path[i].of) \in {trie}
    <3>1. i = 1 /\ path[i] = K!Root /\ path[i].at = <<>>
      BY <1>2
    <3> QED BY <1>1, <1>4, <3>1
  <2>2. OnPath(path, <<>>, {trie})
    BY <1>1, <1>2, <1>4, <2>1 DEF OnPath, K!ChildrenOf
  <2> QED BY <1>1, <2>2 DEF OnPath, K!ChildrenOf
<1>6. leader'.path[Len(leader'.path)] = K!Root
  BY <1>2, <1>3
<1>7. typed' \in Seq(Pressed)
  BY <1>1
<1> QED BY <1>1, <1>2, <1>3, <1>5, <1>6, <1>7 DEF LeaderOK, K!Open, K!CapturesInContext, K!Active

\* Escape goes back to the menu above.
LEMMA BackOutOK ==
  ASSUME K!KeysConstants, RegistryOK, LeaderOK, K!BackOut
  PROVE  LeaderOK'
<1> PICK path : path = K!Front(leader.path)
  OBVIOUS
<1> PICK top : top = path[Len(path)]
  OBVIOUS
<1>1. /\ leader' = [K!At(path) EXCEPT !.timer = None, !.panel = top]
      /\ typed' = K!Front(typed) /\ seen' = seen /\ trie' = trie /\ mode' = mode
      /\ phase' = phase /\ phase = "on" /\ leader.node # None /\ leader.panel # None /\ Len(leader.path) > 1
           /\ K!Open
  BY DEF K!BackOut, K!CanBackOut, K!Heard, K!Taken, K!runtime, K!editor, K!Last, K!Open
<1>2. /\ typed \in Seq(Pressed) /\ leader.path \in Seq(K!Nodes) /\ OnPath(leader.path, typed, seen)
           /\ mode = "normal"
  BY <1>1 DEF LeaderOK, LeaderStates, K!CapturesInContext, K!Active
<1>3. Len(leader.path) = Len(typed) + 1 /\ Len(typed) > 0
  BY <1>1, <1>2 DEF OnPath
<1>4. /\ path \in Seq(K!Nodes) /\ Len(path) = Len(typed) /\ path # <<>> /\ top \in K!Nodes /\ top # None
      /\ \A i \in 1..Len(path) : path[i] = leader.path[i]
  BY <1>2, <1>3 DEF K!Front, K!KeysConstants
<1>5. K!Front(typed) \in Seq(Pressed) /\ Len(K!Front(typed)) = Len(typed) - 1
  <2>1. K!Front(typed) = SubSeq(typed, 1, Len(typed) - 1) /\ Len(typed) \in Nat
    BY <1>2 DEF K!Front
  <2>2. \A i \in 1..(Len(typed) - 1) : typed[i] \in Pressed
    BY <1>2, <2>1
  <2> PICK n \in Nat : n = Len(typed)
    BY <2>1
  <2>3. n - 1 \in Int /\ 1 \in Int /\ n - 1 >= 0
    BY <1>3
  <2> QED BY <2>1, <2>2, <2>3, SubSeqProperties
<1>6. ASSUME NEW i \in 1..Len(path) PROVE Spells(path[i].at, K!Front(typed), i - 1)
             /\ K!ChildrenOf(path[i]) \in seen
  <2>1. Spells(path[i].at, typed, i - 1) /\ K!ChildrenOf(path[i]) \in seen /\ i - 1 \in 0..Len(typed)
          /\ i - 1 < Len(typed)
    BY <1>2, <1>3, <1>4 DEF OnPath
  <2>2. Leader \in Pressed
    BY DEF Pressed
  <2> QED BY <1>2, <2>1, <2>2, SpellsMore
<1>7. OnPath(path, K!Front(typed), seen)
  BY <1>4, <1>5, <1>6 DEF OnPath
<1>8. OnPath(path, typed, seen)'
  BY <1>1, <1>7 DEF OnPath, K!ChildrenOf
<1>9. /\ K!At(path) \in LeaderStates /\ K!At(path).pending = TRUE /\ K!At(path).node = top
           /\ K!At(path).path = path
  BY <1>4, AtForm
<1> PICK here : here = K!At(path)
  OBVIOUS
<1>10. /\ leader' \in LeaderStates /\ leader'.pending = TRUE /\ leader'.node = top /\ leader'.path = path
       /\ leader'.timer = None /\ leader'.panel = top
  <2>1. leader' = [here EXCEPT !.timer = None, !.panel = top] /\ here \in LeaderStates
    BY <1>1, <1>9
  <2> QED BY <1>4, <1>9, <2>1 DEF LeaderStates
<1> QED BY <1>1, <1>2, <1>4, <1>5, <1>8, <1>10 DEF LeaderOK, K!Open, K!CapturesInContext, K!Active

\* The leader is cleared.
LEMMA ClearOK ==
  ASSUME LeaderOK, leader' = K!Idle, typed' = <<>>
  PROVE  LeaderOK'
<1> PICK idle : idle = K!Idle
  OBVIOUS
<1>1. /\ idle \in LeaderStates /\ idle.pending = FALSE /\ idle.node = None /\ idle.panel = None
           /\ idle.timer = None
  BY DEF K!Idle, LeaderStates
<1>2. typed' \in Seq(Pressed)
  OBVIOUS
<1> QED BY <1>1, <1>2 DEF LeaderOK, K!Open, K!CapturesInContext

\* The leader stays as it is, and what it is at stays where it was; with nothing open, the mode
\* is of no matter.
LEMMA StaysOK ==
  ASSUME LeaderOK, leader' = leader, typed' = typed, mode' = mode \/ ~K!Open, phase' # "on" => leader = K!Idle,
         K!Open => (trie' = trie /\ seen' = seen) \/ (trie' \in seen' /\ seen \subseteq seen')
  PROVE  LeaderOK'
<1>1. leader.node # None => K!Open /\ OnPath(leader.path, typed, seen)
  BY DEF LeaderOK
<1>2. leader.node # None => OnPath(leader.path, typed, seen)'
  <2>1. ASSUME leader.node # None, trie' = trie, seen' = seen PROVE OnPath(leader.path, typed, seen)'
    BY <1>1, <2>1 DEF OnPath, K!ChildrenOf
  <2>2. ASSUME leader.node # None, trie' \in seen', seen \subseteq seen' PROVE OnPath(leader.path, typed, seen)'
    <3> PICK path : path = leader.path
      OBVIOUS
    <3> PICK t : t = typed
      OBVIOUS
    <3>1. OnPath(path, t, seen)'
      BY <1>1, <2>2, PathKept
    <3> QED BY <3>1
  <2> QED BY <1>1, <2>1, <2>2
<1>3. K!Open' <=> K!Open
  BY DEF K!Open
<1> QED BY <1>2, <1>3 DEF LeaderOK, K!CapturesInContext, K!Active

\* The timers.
LEMMA TimerOK ==
  ASSUME LeaderOK, K!ExpireSequence \/ K!ShowWhichKey
  PROVE  LeaderOK'
<1> PICK l : l = leader
  OBVIOUS
<1>1. /\ typed' = typed /\ seen' = seen /\ trie' = trie /\ mode' = mode /\ phase' = phase
  BY DEF K!ExpireSequence, K!ShowWhichKey, K!runtime, K!editor
<1>2. l \in LeaderStates
  BY DEF LeaderOK
<1>3. OnPath(l.path, typed, seen) => OnPath(l.path, typed, seen)'
  BY <1>1 DEF OnPath, K!ChildrenOf
<1>4. CASE /\ leader' = [l EXCEPT !.pending = FALSE, !.timeout = FALSE, !.node = None, !.timer = None]
           /\ l.panel = None /\ l.timeout
  <2>1. /\ leader' \in LeaderStates /\ leader'.pending = FALSE /\ leader'.node = None /\ leader'.timer = None
        /\ leader'.panel = None
    BY <1>2, <1>4 DEF LeaderStates
  <2>2. l # K!Idle => phase = "on"
    BY DEF LeaderOK
  <2>3. l # K!Idle
    BY <1>4 DEF K!Idle
  <2> QED BY <1>1, <2>1, <2>2, <2>3 DEF LeaderOK, K!Open, K!CapturesInContext
<1>5. CASE leader' = [l EXCEPT !.pending = FALSE, !.timeout = FALSE] /\ l.panel # None
  <2>1. /\ leader' \in LeaderStates /\ leader'.node = l.node /\ leader'.timer = l.timer /\ leader'.panel = l.panel
        /\ leader'.path = l.path
    BY <1>2, <1>5 DEF LeaderStates
  <2>2. l # K!Idle
    BY <1>5 DEF K!Idle
  <2> QED BY <1>1, <1>3, <1>5, <2>1, <2>2 DEF LeaderOK, K!Open, K!CapturesInContext, K!Active
<1>6. CASE leader' = [l EXCEPT !.timer = None, !.panel = l.timer] /\ l.timer # None /\ l.node = l.timer /\ K!Open
  <2>1. /\ leader' \in LeaderStates /\ leader'.node = l.node /\ leader'.timer = None /\ leader'.panel = l.node
        /\ leader'.path = l.path /\ l.node # None
    BY <1>2, <1>6 DEF LeaderStates
  <2>2. l # K!Idle
    BY <1>6 DEF K!Idle
  <2> QED BY <1>1, <1>3, <1>6, <2>1, <2>2 DEF LeaderOK, K!Open, K!CapturesInContext, K!Active
<1>7. CASE leader' = [l EXCEPT !.timer = None] /\ l.timer # None
  <2>1. /\ leader' \in LeaderStates /\ leader'.node = l.node /\ leader'.timer = None /\ leader'.panel = l.panel
        /\ leader'.path = l.path /\ leader'.pending = l.pending
    BY <1>2, <1>7 DEF LeaderStates
  <2>2. l # K!Idle
    BY <1>7 DEF K!Idle
  <2> QED BY <1>1, <1>3, <1>7, <2>1, <2>2 DEF LeaderOK, K!Open, K!CapturesInContext, K!Active
<1> QED BY <1>4, <1>5, <1>6, <1>7 DEF K!ExpireSequence, K!ShowWhichKey

\* Every step keeps the leader in step.
LEMMA LeaderStep ==
  ASSUME K!KeysConstants, RegistryOK, LeaderOK, [K!Next]_K!vars
  PROVE  LeaderOK'
<1>0. phase # "on" => leader = K!Idle
  BY DEF LeaderOK
<1>1. ASSUME NEW k \in Pressed, K!PressDeclined(k) \/ K!Dispatch(k) \/ K!Stray(k) \/ K!Cancel PROVE LeaderOK'
  BY <1>1, ClearOK DEF K!PressDeclined, K!Dispatch, K!Stray, K!Cancel, K!Clear
<1>2. ASSUME NEW k \in Pressed, K!PassOn(k) PROVE LeaderOK'
  <2>1. ~K!Open /\ phase' = phase /\ leader' = leader /\ typed' = typed
    BY <1>2 DEF K!PassOn, K!Delegate, K!Open, LeaderOK
  <2> QED BY <1>0, <2>1, StaysOK
<1>3. CASE K!Pressing
  BY <1>1, <1>2, <1>3, DescendOK, StartOK, BackOutOK DEF K!Pressing, K!Press, Pressed
<1>4. CASE K!PressUnwrapped
  <2>1. ~K!Open /\ phase' = phase /\ leader' = leader /\ typed' = typed
    BY <1>0, <1>4 DEF K!PressUnwrapped, K!Delegate, K!history, K!Open, K!Idle
  <2> QED BY <1>0, <2>1, StaysOK
<1>5. CASE K!Suggest
  BY <1>0, <1>5, StaysOK DEF K!Suggest, K!history, K!runtime
<1>6. ASSUME NEW acts, NEW maps, NEW held, K!Notify(acts, maps, held) PROVE LeaderOK'
  <2>1. leader' = leader /\ typed' = typed /\ mode' = mode /\ phase' = phase
    BY <1>6 DEF K!Notify, K!editor
  <2>2. K!Open => (trie' = trie /\ seen' = seen) \/ (trie' \in seen' /\ seen \subseteq seen')
    BY <1>6 DEF K!Notify
  <2> QED BY <1>0, <2>1, <2>2, StaysOK
<1>7. CASE K!Registration
  <2>1. ASSUME NEW s \in Shims, K!RegisterShim(s) \/ K!DisposeShim(s), ~\E acts, maps,
               held : K!Notify(acts, maps, held)
        PROVE  LeaderOK'
    <3>1. UNCHANGED <<phase, trie, leader, mode, typed, seen>>
      BY <2>1 DEF K!RegisterShim, K!DisposeShim, K!runtime, K!editor
    <3> QED BY <1>0, <3>1, StaysOK
  <2>2. ASSUME ~\E acts, maps, held : K!Notify(acts, maps, held)
        PROVE \E s \in Shims : K!RegisterShim(s) \/ K!DisposeShim(s)
    BY <1>7, <2>2 DEF K!Registration, K!RegisterAction, K!DisposeAction, K!RegisterKeymap, K!DisposeKeymap
  <2> QED BY <1>6, <2>1, <2>2
<1>8. CASE K!SessionStart \/ K!SessionShutdown
  BY <1>8, ClearOK DEF K!SessionStart, K!SessionShutdown, K!Shutdown, K!Clear
<1>9. CASE K!Started
  <2>1. leader' = leader /\ typed' = typed /\ mode' = mode /\ leader = K!Idle /\ ~K!Open
    BY <1>0, <1>9 DEF K!Started, K!editor, K!Idle, K!Open
  <2> QED BY <2>1, StaysOK
<1>10. CASE UNCHANGED K!vars
  BY <1>0, <1>10, StaysOK DEF K!vars, K!registry, K!runtime, K!editor, K!history
<1> QED BY <1>3, <1>4, <1>5, <1>7, <1>8, <1>9, <1>10, TimerOK DEF K!Next

\* What a step runs is what was typed.
LEMMA FiredStep ==
  ASSUME K!KeysConstants, RegistryOK, LeaderOK, [K!Next]_K!vars, fired' # fired, fired' # None
  PROVE  \E t \in seen : fired'.keys \in DOMAIN t /\ t[fired'.keys] = fired'.act
<1>1. \E k \in Pressed : K!Dispatch(k)
  <2>1. CASE K!Pressing
    BY <2>1 DEF K!Pressing, K!Press, K!PressDeclined, K!Descend, K!Stray, K!PassOn, K!BackOut, K!Cancel,
       K!Start, K!Clear,
       Pressed
  <2>2. CASE K!Registration
    BY <2>2 DEF K!Registration, K!RegisterAction, K!DisposeAction, K!RegisterKeymap, K!DisposeKeymap,
       K!RegisterShim,
       K!DisposeShim, K!Notify
  <2> QED
    BY <2>1, <2>2 DEF K!Next, K!PressUnwrapped, K!Suggest, K!ExpireSequence, K!ShowWhichKey, K!SessionStart,
       K!Started,
       K!SessionShutdown, K!Shutdown, K!Clear, K!vars, K!history
<1> PICK k \in Pressed : K!Dispatch(k)
  BY <1>1
<1>2. K!Follows(k)
  BY DEF K!Dispatch
<1> PICK n \in K!Child(leader.node, k) :
      fired' = [act |-> K!ActionAt(n), ran |-> K!ActionAt(n) \in handlers, keys |-> Append(typed, k)]
  BY DEF K!Dispatch
<1>3. fired'.keys = Append(typed, k) /\ fired'.act = n.of[n.at]
  BY DEF K!ActionAt
<1>4. /\ leader.node # None /\ n.at = Append(leader.node.at, k) /\ n.of = K!ChildrenOf(leader.node)
      /\ n.at \in DOMAIN n.of
  BY <1>2, ChildForm DEF K!Follows
<1>5. /\ typed \in Seq(Pressed) /\ Len(leader.path) = Len(typed) + 1 /\ leader.path[Len(leader.path)] = leader.node
      /\ OnPath(leader.path, typed, seen)
  BY <1>4 DEF LeaderOK, OnPath
<1>6. Spells(leader.node.at, typed, Len(typed)) /\ K!ChildrenOf(leader.node) \in seen
  <2> PICK last : last = Len(leader.path)
    OBVIOUS
  <2>1. Len(typed) \in Nat /\ last = Len(typed) + 1
    BY <1>5
  <2>2. last \in 1..last /\ last - 1 = Len(typed)
    BY <2>1
  <2>3. \A i \in 1..last : Spells(leader.path[i].at, typed, i - 1) /\ K!ChildrenOf(leader.path[i]) \in seen
    BY <1>5 DEF OnPath
  <2>4. Spells(leader.path[last].at, typed, last - 1) /\ K!ChildrenOf(leader.path[last]) \in seen
    BY <2>2, <2>3
  <2> QED BY <1>5, <2>2, <2>4
<1>7. leader.node.at = typed
  BY <1>5, <1>6, SpellsAll
<1> QED BY <1>3, <1>4, <1>6, <1>7

\* At the start there is nothing.
LEMMA KeysInit ==
  ASSUME K!KeysConstants, K!Init
  PROVE  RegistryOK /\ LeaderOK
<1>1. RegistryOK
  BY DEF K!Init, RegistryOK, K!RegistryIsFollowed, K!KeysConstants
<1> PICK idle : idle = K!Idle
  OBVIOUS
<1>2. /\ idle \in LeaderStates /\ idle.pending = FALSE /\ idle.node = None /\ idle.panel = None
           /\ idle.timer = None
  BY DEF K!Idle, LeaderStates
<1>3. typed \in Seq(Pressed) /\ leader = idle
  BY DEF K!Init
<1>4. LeaderOK
  BY <1>2, <1>3 DEF LeaderOK, K!Open, K!CapturesInContext
<1> QED BY <1>1, <1>4

\* For any keys, bindings, keymaps, shims and counts of holders: keys are captured in context
\* only, a session has the bindings of the registry as it is, and what a sequence runs is what
\* its keys spell in a trie that was in force since the leader (index.ts:120-170).
THEOREM KeysStayFaithful == KeysSpec => KeysAreFaithful
<1>1. K!Init => RegistryOK /\ LeaderOK
  BY KeysAssumption, KeysInit
<1>2. RegistryOK /\ LeaderOK /\ [K!Next]_K!vars => RegistryOK' /\ LeaderOK'
  BY KeysAssumption, RegistryStep, LeaderStep
<1>3. RegistryOK /\ LeaderOK /\ [K!Next]_K!vars =>
        [fired' # fired /\ fired' # None =>
           \E t \in seen : fired'.keys \in DOMAIN t /\ t[fired'.keys] = fired'.act]_K!vars
  BY KeysAssumption, FiredStep
<1>4. RegistryOK /\ LeaderOK => K!CapturesInContext /\ K!RegistryIsFollowed
  BY DEF RegistryOK, LeaderOK
<1> QED BY <1>1, <1>2, <1>3, <1>4, PTL DEF KeysSpec, K!Spec, KeysAreFaithful, K!KeysAreFaithful, K!SpellsWhatItRuns

-------------------------------------------------------------------------------
(* Implementation admission *)

\* The labels at which a submission has reserved its envelope
Reserved == {"admit", "await", "settle"}

\* A call that works with a correlation has one.
Correlated ==
  \A c \in Calls :
    /\ calling[c] \in {"reserve", "ask", "reconcile"} \cup Reserved => correlation[c] \in Correlations
    /\ calling[c] \in {"correlate", "reserve"} \cup Reserved => A!Submits(c)
    /\ ~A!Submits(c) => correlation[c] = Work[c]

\* The reservation of an envelope is that of the one call that works on it.
ReservationHolds ==
  \A c \in Calls : calling[c] \in Reserved =>
    /\ A!Has(Work[c]) /\ admissions[Work[c]].correlation = correlation[c]
    /\ \A d \in Calls : calling[d] \in Reserved /\ Work[d] = Work[c] => d = c

\* Nothing was sent for an envelope that is about to be.
NotYetSent == \A c \in Calls : calling[c] = "admit" => \A m \in sent : m.envelope # Work[c]

\* What a call has heard and is about to record is what the owner decided.
HeardIsDecided ==
  \A c \in Calls : calling[c] \in {"settle", "reconcile"} =>
    /\ heard[c].disposition # "lost"
    /\ heard[c].disposition \in A!Settled =>
         \E d \in decided[correlation[c]] : d.disposition = heard[c].disposition

AdmissionInv == /\ A!TypeOK /\ Correlated /\ ReservationHolds /\ NotYetSent /\ HeardIsDecided
                /\ A!DeliveredOnce /\ A!CorrelationsIdentify /\ A!SettledIsDecided

-------------------------------------------------------------------------------
\* The initial state satisfies the inductive invariant: nothing was submitted.
LEMMA AdmissionBegins ==
  ASSUME A!AdmissionConstants, A!Init
  PROVE  AdmissionInv
<1> USE DEF A!AdmissionConstants, A!Init
<1>1. A!TypeOK
  BY DEF A!TypeOK, A!Labels, A!Answers, A!Dispositions, A!Settled, A!Replies, A!NoReply, A!Submits
<1>2. Correlated /\ ReservationHolds /\ NotYetSent /\ HeardIsDecided
  BY DEF Correlated, ReservationHolds, NotYetSent, HeardIsDecided, Reserved, A!Submits
<1>3. A!DeliveredOnce /\ A!CorrelationsIdentify /\ A!SettledIsDecided
  BY DEF A!DeliveredOnce, A!CorrelationsIdentify, A!SettledIsDecided, A!Has
<1> QED
  BY <1>1, <1>2, <1>3 DEF AdmissionInv

\* An admission is an entry, and no entry is the mark of an absent one.
LEMMA EntryFacts ==
  ASSUME A!AdmissionConstants, A!TypeOK, NEW e \in Envelopes
  PROVE  /\ A!Has(e) => /\ admissions[e] \in A!Entry
                        /\ admissions[e].correlation \in Correlations
                        /\ admissions[e].disposition \in A!Dispositions
         /\ ~A!Has(e) => admissions[e] = NoEntry
  BY DEF A!AdmissionConstants, A!TypeOK, A!Has, A!Entry

\* What a call records of a reply is an entry under its own correlation.
LEMMA HeardFacts ==
  ASSUME A!AdmissionConstants, A!TypeOK, Correlated, HeardIsDecided, NEW c \in Calls,
         calling[c] \in {"settle", "reconcile"}
  PROVE  /\ A!Heard(c) \in A!Entry
         /\ A!Heard(c) # NoEntry
         /\ A!Heard(c).correlation = correlation[c]
         /\ A!Heard(c).disposition = heard[c].disposition
         /\ heard[c].disposition \in A!Dispositions
<1>1. heard[c].disposition \in A!Dispositions /\ heard[c].exact \in BOOLEAN
  BY DEF A!TypeOK, A!Replies, HeardIsDecided
<1>2. correlation[c] \in Correlations
  BY DEF Correlated, Reserved
<1>3. A!Heard(c) \in A!Entry
  BY <1>1, <1>2 DEF A!Heard, A!Entry
<1> QED
  BY <1>1, <1>3 DEF A!Heard, A!AdmissionConstants

\* What the owner may reply to a question about a correlation is a reply, and a
\* settled disposition in it is decided.
LEMMA ReplyFacts ==
  ASSUME A!TypeOK, NEW k \in Correlations, NEW r \in A!OwnerReplies(k)
  PROVE  /\ r \in A!Replies
         /\ r.disposition \in A!Settled => \E d \in decided[k] : d.disposition = r.disposition
<1>1. ASSUME NEW w \in {"lost", "unknown"}, r = [disposition |-> w, exact |-> FALSE]
      PROVE  r \in A!Replies /\ r.disposition \notin A!Settled
  <2>1. r.disposition = w /\ w \in A!Dispositions \cup {"lost"} /\ w \notin A!Settled
    BY <1>1 DEF A!Dispositions, A!Settled
  <2> QED
    BY <1>1, <2>1 DEF A!Replies
<1>2. CASE r \in decided[k]
  <2>1. r \in A!Decision
    BY <1>2 DEF A!TypeOK
  <2> QED
    BY <1>2, <2>1 DEF A!Decision, A!Replies, A!Dispositions
<1> QED
  BY <1>1, <1>2 DEF A!OwnerReplies, A!NoReply

-------------------------------------------------------------------------------
\* A step that leaves the store, the owner and what was sent alone keeps what the
\* invariant says of them.
LEMMA SameStore ==
  ASSUME A!DeliveredOnce, A!CorrelationsIdentify, A!SettledIsDecided, UNCHANGED <<admissions, sent, decided>>
  PROVE  A!DeliveredOnce' /\ A!CorrelationsIdentify' /\ A!SettledIsDecided'
  BY DEF A!DeliveredOnce, A!CorrelationsIdentify, A!SettledIsDecided, A!Has

\* Steps of a call before it has reserved, and those that only answer.
LEMMA QuietSteps ==
  ASSUME A!AdmissionConstants, AdmissionInv, NEW c \in Calls,
         A!LookUp(c) \/ A!Correlate(c) \/ A!Find(c)
  PROVE  AdmissionInv'
<1> USE DEF A!AdmissionConstants, AdmissionInv, A!Goto, A!Finish, Reserved
<1>1. CASE A!LookUp(c)
  <2>1. A!TypeOK'
    BY <1>1, EntryFacts DEF A!LookUp, A!TypeOK, A!Labels, A!Answers, A!Dispositions,
                           A!Submits, A!ExistingAnswer, A!Unknown
  <2>2. Correlated' /\ ReservationHolds' /\ NotYetSent' /\ HeardIsDecided'
    BY <1>1 DEF A!LookUp, A!TypeOK, Correlated, ReservationHolds, NotYetSent, HeardIsDecided, A!Has, A!Submits
  <2> QED
    BY <1>1, <2>1, <2>2, SameStore DEF A!LookUp
<1>2. CASE A!Correlate(c)
  <2>1. A!TypeOK'
    BY <1>2 DEF A!Correlate, A!TypeOK, A!Labels, A!Answers
  <2>2. Correlated' /\ ReservationHolds' /\ NotYetSent' /\ HeardIsDecided'
    BY <1>2 DEF A!Correlate, A!TypeOK, Correlated, ReservationHolds, NotYetSent, HeardIsDecided, A!Has, A!Submits
  <2> QED
    BY <1>2, <2>1, <2>2, SameStore DEF A!Correlate
<1>3. CASE A!Find(c)
  <2>1. A!TypeOK'
    BY <1>3 DEF A!Find, A!TypeOK, A!Labels, A!Answers
  <2>2. Correlated' /\ ReservationHolds' /\ NotYetSent' /\ HeardIsDecided'
    BY <1>3 DEF A!Find, A!TypeOK, Correlated, ReservationHolds, NotYetSent, HeardIsDecided, A!Has, A!Submits
  <2> QED
    BY <1>3, <2>1, <2>2, SameStore DEF A!Find
<1> QED
  BY <1>1, <1>2, <1>3

\* A call that hears from the owner keeps what it heard, which was decided.
LEMMA HearingSteps ==
  ASSUME A!AdmissionConstants, AdmissionInv, NEW c \in Calls, A!Await(c) \/ A!Ask(c)
  PROVE  AdmissionInv'
<1> USE DEF A!AdmissionConstants, AdmissionInv, A!Goto, A!Finish, Reserved
<1>1. correlation[c] \in Correlations
  BY DEF A!Await, A!Ask, Correlated
<1>2. PICK r \in A!OwnerReplies(correlation[c]) :
        \/ /\ r.disposition # "lost"
           /\ heard' = [heard EXCEPT ![c] = r]
           /\ calling' = [calling EXCEPT ![c] = IF calling[c] = "await" THEN "settle" ELSE "reconcile"]
           /\ UNCHANGED answer
        \/ /\ UNCHANGED heard
           /\ calling' = [calling EXCEPT ![c] = "done"]
           /\ \E w \in {"delivery_unknown", "failed"} : answer' = [answer EXCEPT ![c] = w]
  BY DEF A!Await, A!Ask, A!Usable
<1>3. r \in A!Replies /\ (r.disposition \in A!Settled =>
                            \E d \in decided[correlation[c]] : d.disposition = r.disposition)
  BY <1>1, ReplyFacts
<1>4. /\ calling[c] \in {"await", "ask"}
      /\ UNCHANGED <<admissions, sent, decided, correlation>>
  BY DEF A!Await, A!Ask
<1>5. A!TypeOK'
  BY <1>2, <1>3, <1>4 DEF A!TypeOK, A!Labels, A!Answers
<1>6. Correlated' /\ ReservationHolds' /\ NotYetSent'
  BY <1>2, <1>4 DEF A!TypeOK, Correlated, ReservationHolds, NotYetSent, A!Has, A!Submits
<1>7. HeardIsDecided'
  BY <1>2, <1>3, <1>4 DEF A!TypeOK, HeardIsDecided
<1> QED
  BY <1>4, <1>5, <1>6, <1>7, SameStore

\* Reserving an envelope that has no admission, under a correlation nobody has.
LEMMA ReserveStep ==
  ASSUME A!AdmissionConstants, AdmissionInv, NEW c \in Calls, A!Reserve(c)
  PROVE  AdmissionInv'
<1> USE DEF A!AdmissionConstants, AdmissionInv, A!Goto, A!Finish, Reserved
<1> DEFINE e == Work[c]
           k == correlation[c]
           new == [correlation |-> k, disposition |-> "unknown", exact |-> FALSE]
<1>1. e \in Envelopes /\ k \in Correlations /\ calling[c] = "reserve"
  BY DEF A!Reserve, Correlated, A!Submits
<1>2. UNCHANGED <<sent, decided, correlation, heard>>
  BY DEF A!Reserve
<1>3. ASSUME ~A!Has(e), ~A!CorrelationTaken(k), A!Goto(c, "admit"), UNCHANGED answer,
             admissions' = [admissions EXCEPT ![e] = new]
      PROVE  AdmissionInv'
  <2>1. new \in A!Entry /\ new # NoEntry /\ new.correlation = k /\ new.disposition = "unknown"
    <3>1. new \in A!Entry
      BY <1>1 DEF A!Entry, A!Dispositions
    <3> QED
      BY <3>1
  <2> HIDE DEF new
  <2>2. \A d \in Envelopes : admissions'[d] = IF d = e THEN new ELSE admissions[d]
    BY <1>1, <1>3 DEF A!TypeOK
  <2>3. \A d \in Envelopes : A!Has(d)' <=> A!Has(d) \/ d = e
    BY <2>1, <2>2 DEF A!Has
  <2>4. A!TypeOK'
    BY <1>1, <1>2, <1>3, <2>1 DEF A!TypeOK, A!Labels
  <2>5. Correlated'
    BY <1>1, <1>2, <1>3 DEF A!TypeOK, Correlated, A!Submits
  <2>6. ReservationHolds'
    <3>1. \A d \in Calls : calling[d] \in Reserved => Work[d] # e
      BY <1>3 DEF ReservationHolds
    <3>2. ASSUME NEW d \in Calls, calling'[d] \in Reserved
          PROVE  Work[d] \in Envelopes
      BY <2>5, <3>2 DEF Correlated, A!Submits
    <3> QED
      BY <1>1, <1>2, <1>3, <2>1, <2>2, <2>3, <3>1, <3>2 DEF A!TypeOK, ReservationHolds
  <2>7. NotYetSent' /\ HeardIsDecided'
    <3>1. \A m \in sent : m.envelope # e
      BY <1>3 DEF A!DeliveredOnce
    <3> QED
      BY <1>1, <1>2, <1>3, <3>1 DEF A!TypeOK, NotYetSent, HeardIsDecided
  <2>8. A!DeliveredOnce'
    <3>1. \A m \in sent : m.envelope \in Envelopes
      BY DEF A!TypeOK
    <3> QED
      BY <1>2, <1>3, <2>2, <2>3, <3>1 DEF A!DeliveredOnce
  <2>9. A!CorrelationsIdentify'
    BY <1>3, <2>1, <2>2, <2>3 DEF A!CorrelationsIdentify, A!CorrelationTaken
  <2>10. A!SettledIsDecided'
    BY <1>2, <2>1, <2>2, <2>3 DEF A!SettledIsDecided, A!Settled
  <2> QED
    BY <2>4, <2>5, <2>6, <2>7, <2>8, <2>9, <2>10
<1>4. ASSUME UNCHANGED admissions, NEW w \in A!Answers, A!Finish(c, w)
      PROVE  AdmissionInv'
  <2>1. A!TypeOK'
    BY <1>2, <1>4 DEF A!TypeOK, A!Labels
  <2>2. Correlated' /\ ReservationHolds' /\ NotYetSent' /\ HeardIsDecided'
    BY <1>2, <1>4 DEF A!TypeOK, Correlated, ReservationHolds, NotYetSent, HeardIsDecided, A!Has, A!Submits
  <2> QED
    BY <1>2, <1>4, <2>1, <2>2, SameStore
<1>5. A!Has(e) => A!ExistingAnswer(e) \in A!Answers
  BY <1>1, EntryFacts DEF A!ExistingAnswer, A!Unknown, A!Answers
<1>6. "correlation_conflict" \in A!Answers /\ "failed" \in A!Answers
  BY DEF A!Answers
<1> QED
  BY <1>3, <1>4, <1>5, <1>6 DEF A!Reserve, A!ReservedMeanwhile

\* Calling the owner with an envelope that was reserved and not sent.
LEMMA AdmitStep ==
  ASSUME A!AdmissionConstants, AdmissionInv, NEW c \in Calls, A!Admit(c)
  PROVE  AdmissionInv'
<1> USE DEF A!AdmissionConstants, AdmissionInv, A!Goto, Reserved
<1> DEFINE m0 == [envelope |-> Work[c], correlation |-> correlation[c], call |-> c]
<1>1. /\ calling[c] = "admit" /\ calling' = [calling EXCEPT ![c] = "await"] /\ sent' = sent \cup {m0}
      /\ UNCHANGED <<admissions, decided, correlation, heard, answer>>
  BY DEF A!Admit
<1>2. Work[c] \in Envelopes /\ correlation[c] \in Correlations
  BY <1>1 DEF Correlated, A!Submits
<1>3. m0 \in [envelope: Envelopes, correlation: Correlations, call: Calls]
      /\ m0.envelope = Work[c] /\ m0.correlation = correlation[c]
  BY <1>2
<1> HIDE DEF m0
<1>4. A!TypeOK'
  BY <1>1, <1>3 DEF A!TypeOK, A!Labels
<1>5. Correlated' /\ ReservationHolds' /\ HeardIsDecided'
  BY <1>1 DEF A!TypeOK, Correlated, ReservationHolds, HeardIsDecided, A!Has, A!Submits
\* No other call is about to send the same envelope: the reservation is this one's.
<1>6. NotYetSent'
  BY <1>1, <1>3 DEF A!TypeOK, NotYetSent, ReservationHolds
<1>7. A!DeliveredOnce'
  BY <1>1, <1>3 DEF A!DeliveredOnce, NotYetSent, ReservationHolds, A!Has
<1>8. A!CorrelationsIdentify' /\ A!SettledIsDecided'
  BY <1>1 DEF A!CorrelationsIdentify, A!SettledIsDecided, A!Has
<1> QED
  BY <1>4, <1>5, <1>6, <1>7, <1>8

\* A step that adds no entry and leaves every entry its correlation
CorrelationsKept ==
  \A d \in Envelopes : /\ admissions'[d] # NoEntry <=> admissions[d] # NoEntry
                       /\ admissions[d] # NoEntry =>
                            admissions'[d].correlation = admissions[d].correlation

\* Recording an outcome keeps who is reserved for what: nothing is added to the
\* store, and every entry keeps its correlation.
LEMMA KeepsReservations ==
  ASSUME A!AdmissionConstants, AdmissionInv, NEW c \in Calls, A!Goto(c, "done"),
         UNCHANGED <<sent, correlation>>, CorrelationsKept
  PROVE  ReservationHolds' /\ A!DeliveredOnce' /\ A!CorrelationsIdentify'
<1> USE DEF AdmissionInv, A!Has, CorrelationsKept
<1>1. ReservationHolds'
  <2> SUFFICES ASSUME NEW d \in Calls, (calling[d] \in Reserved)'
               PROVE  /\ A!Has(Work[d])' /\ admissions'[Work[d]].correlation = correlation'[d]
                      /\ \A b \in Calls : calling'[b] \in Reserved /\ Work[b] = Work[d] => b = d
    BY DEF ReservationHolds, Reserved
  <2>1. \A b \in Calls : calling'[b] \in Reserved => calling[b] \in Reserved
    BY DEF A!Goto, A!TypeOK, Reserved
  <2>2. calling[d] \in Reserved /\ Work[d] \in Envelopes
    BY <2>1 DEF Correlated, A!Submits, Reserved
  <2> QED
    BY <2>1, <2>2 DEF ReservationHolds
<1>2. A!DeliveredOnce'
  BY DEF A!TypeOK, A!DeliveredOnce
<1>3. A!CorrelationsIdentify'
  BY DEF A!CorrelationsIdentify
<1> QED
  BY <1>1, <1>2, <1>3

\* Recording what was heard in the entry that is still the unknown one.
LEMMA RecordStep ==
  ASSUME A!AdmissionConstants, AdmissionInv, NEW c \in Calls, calling[c] \in {"settle", "reconcile"},
         NEW e \in Envelopes, A!StillUnknown(e, correlation[c]),
         admissions' = [admissions EXCEPT ![e] = A!Heard(c)],
         A!Finish(c, heard[c].disposition),
         UNCHANGED <<sent, decided, correlation, heard>>
  PROVE  AdmissionInv'
<1>1. /\ A!Heard(c) \in A!Entry /\ A!Heard(c) # NoEntry /\ A!Heard(c).correlation = correlation[c]
      /\ A!Heard(c).disposition = heard[c].disposition /\ heard[c].disposition \in A!Dispositions
  BY HeardFacts DEF AdmissionInv, Reserved
<1>2. \A d \in Envelopes : admissions'[d] = IF d = e THEN A!Heard(c) ELSE admissions[d]
  BY DEF AdmissionInv, A!TypeOK
<1>3. CorrelationsKept
  BY <1>1, <1>2 DEF CorrelationsKept, A!Has, A!StillUnknown, A!Unknown
<1>4. A!Goto(c, "done") /\ UNCHANGED <<sent, correlation>>
  BY DEF A!Finish
<1>5. ReservationHolds' /\ A!DeliveredOnce' /\ A!CorrelationsIdentify'
  BY <1>3, <1>4, KeepsReservations
<1> USE DEF A!AdmissionConstants, AdmissionInv, A!Goto, A!Finish, Reserved
<1>6. A!TypeOK'
  BY <1>1 DEF A!TypeOK, A!Labels, A!Answers
<1>8. Correlated' /\ NotYetSent' /\ HeardIsDecided'
  BY DEF A!TypeOK, Correlated, NotYetSent, HeardIsDecided, A!Submits
<1>7. A!SettledIsDecided'
  BY <1>1, <1>2 DEF A!SettledIsDecided, HeardIsDecided, A!Has
<1> QED
  BY <1>5, <1>6, <1>7, <1>8

\* A settlement or a recovery records what was heard, or only answers.
LEMMA SettlingSteps ==
  ASSUME A!AdmissionConstants, AdmissionInv, NEW c \in Calls, A!Settle(c) \/ A!Reconcile(c)
  PROVE  AdmissionInv'
<1>1. calling[c] \in {"settle", "reconcile"} /\ UNCHANGED <<sent, decided, correlation, heard>>
  BY DEF A!Settle, A!Reconcile
<1>2. CASE \E e \in Envelopes : /\ A!StillUnknown(e, correlation[c])
                               /\ admissions' = [admissions EXCEPT ![e] = A!Heard(c)]
                               /\ A!Finish(c, heard[c].disposition)
  BY <1>1, <1>2, RecordStep
<1>3. CASE UNCHANGED admissions /\ \E w \in {"recovery_mismatch", "failed"} : A!Finish(c, w)
  <2> USE DEF A!AdmissionConstants, AdmissionInv, A!Goto, A!Finish, Reserved
  <2>1. A!TypeOK'
    BY <1>1, <1>3 DEF A!TypeOK, A!Labels, A!Answers
  <2>2. Correlated' /\ ReservationHolds' /\ NotYetSent' /\ HeardIsDecided'
    BY <1>1, <1>3 DEF A!TypeOK, Correlated, ReservationHolds, NotYetSent, HeardIsDecided, A!Has, A!Submits
  <2> QED
    BY <1>1, <1>3, <2>1, <2>2, SameStore
<1>4. A!Settle(c) => Work[c] \in Envelopes
  BY DEF A!Settle, AdmissionInv, Correlated, A!Submits, Reserved
<1> QED
  BY <1>2, <1>3, <1>4 DEF A!Settle, A!Reconcile, A!Recoverable

\* The owner decides once for a correlation, so what was decided stays so.
LEMMA DecideStep ==
  ASSUME A!AdmissionConstants, AdmissionInv, NEW k \in Correlations, A!Decide(k)
  PROVE  AdmissionInv'
<1> USE DEF A!AdmissionConstants, AdmissionInv, Reserved
<1>1. /\ decided[k] = {} /\ \E d \in A!Decision : decided' = [decided EXCEPT ![k] = {d}]
      /\ UNCHANGED <<admissions, sent, calling, correlation, heard, answer>>
  BY DEF A!Decide
<1>2. \A j \in Correlations : decided[j] \subseteq decided'[j]
  BY <1>1 DEF A!TypeOK
<1>3. A!TypeOK'
  BY <1>1 DEF A!TypeOK
<1>4. Correlated' /\ ReservationHolds' /\ NotYetSent' /\ A!DeliveredOnce' /\ A!CorrelationsIdentify'
  BY <1>1 DEF Correlated, ReservationHolds, NotYetSent, A!DeliveredOnce, A!CorrelationsIdentify, A!Has, A!Submits
<1>5. HeardIsDecided'
  <2>1. \A c \in Calls : calling[c] \in {"settle", "reconcile"} => correlation[c] \in Correlations
    BY DEF Correlated
  <2> QED
    BY <1>1, <1>2, <2>1 DEF HeardIsDecided
<1>6. A!SettledIsDecided'
  BY <1>1, <1>2, EntryFacts DEF A!SettledIsDecided, A!Has
<1> QED
  BY <1>3, <1>4, <1>5, <1>6

\* Every step keeps the inductive invariant.
LEMMA AdmissionStep ==
  ASSUME A!AdmissionConstants, AdmissionInv, [A!Next]_(A!vars)
  PROVE  AdmissionInv'
<1>1. ASSUME NEW c \in Calls, A!Call(c) PROVE AdmissionInv'
  BY <1>1, QuietSteps, HearingSteps, ReserveStep, AdmitStep, SettlingSteps DEF A!Call
<1>2. ASSUME NEW k \in Correlations, A!Decide(k) PROVE AdmissionInv'
  BY <1>2, DecideStep
<1>3. CASE UNCHANGED A!vars
  BY <1>3 DEF A!vars, AdmissionInv, A!TypeOK, Correlated, ReservationHolds, NotYetSent, HeardIsDecided,
              A!DeliveredOnce, A!CorrelationsIdentify, A!SettledIsDecided, A!Has, A!Submits
<1> QED
  BY <1>1, <1>2, <1>3 DEF A!Next

\* The inductive invariant holds in every reachable state.
LEMMA AdmissionInvariance == A!Spec => []AdmissionInv
<1>1. A!Init => AdmissionInv
  BY AdmissionAssumption, AdmissionBegins
<1>2. AdmissionInv /\ [A!Next]_(A!vars) => AdmissionInv'
  BY AdmissionAssumption, AdmissionStep
<1> QED
  BY <1>1, <1>2, PTL DEF A!Spec

-------------------------------------------------------------------------------
\* The store, the owner's decisions and the calls always hold values of their kinds.
THEOREM AdmissionTypeCorrect == A!Spec => []A!TypeOK
<1>1. AdmissionInv => A!TypeOK
  BY DEF AdmissionInv
<1> QED
  BY <1>1, AdmissionInvariance, PTL

\* submitAdmission calls the owner at most once for an envelope, and only after the
\* store holds the unknown outcome under the correlation of that call.
THEOREM DeliveryCorrect == A!Spec => []A!DeliveredOnce
<1>1. AdmissionInv => A!DeliveredOnce
  BY DEF AdmissionInv
<1> QED
  BY <1>1, AdmissionInvariance, PTL

\* No two envelopes have the same owner correlation in the store.
THEOREM CorrelationCorrect == A!Spec => []A!CorrelationsIdentify
<1>1. AdmissionInv => A!CorrelationsIdentify
  BY DEF AdmissionInv
<1> QED
  BY <1>1, AdmissionInvariance, PTL

\* What the store says of an admission that is no longer unknown is the decision
\* of its owner, however its replies were lost, delayed or recovered.
THEOREM SettlementCorrect == A!Spec => []A!SettledIsDecided
<1>1. AdmissionInv => A!SettledIsDecided
  BY DEF AdmissionInv
<1> QED
  BY <1>1, AdmissionInvariance, PTL

\* A transaction replaces only an entry that is unknown, so a settled admission is
\* never unsettled or changed.
THEOREM SettlementStays == A!Spec => A!SettledStays
<1> DEFINE Stays == \A e \in Envelopes : A!Has(e) /\ admissions[e].disposition \in A!Settled
                     => admissions'[e] = admissions[e]
<1>1. ASSUME AdmissionInv, [A!Next]_(A!vars) PROVE Stays
  <2> SUFFICES ASSUME NEW e \in Envelopes, A!Has(e), admissions[e].disposition \in A!Settled,
                      admissions' # admissions
               PROVE  admissions'[e] = admissions[e]
    OBVIOUS
  <2>1. ~A!Unknown(e)
    BY DEF A!Unknown, A!Settled
  <2>2. PICK c \in Calls : A!Reserve(c) \/ A!Settle(c) \/ A!Reconcile(c)
    BY <1>1 DEF A!Next, A!Call, A!Decide, A!LookUp, A!Correlate, A!Admit, A!Await, A!Find, A!Ask, A!vars
  <2>3. CASE A!Reserve(c)
    BY <1>1, <2>3 DEF A!Reserve, A!ReservedMeanwhile, AdmissionInv, A!TypeOK
  <2>4. CASE A!Settle(c)
    BY <1>1, <2>1, <2>4 DEF A!Settle, A!StillUnknown, AdmissionInv, A!TypeOK
  <2>5. CASE A!Reconcile(c)
    BY <1>1, <2>1, <2>5 DEF A!Reconcile, A!Recoverable, A!StillUnknown, AdmissionInv, A!TypeOK
  <2> QED
    BY <2>2, <2>3, <2>4, <2>5
<1>2. Stays => [Stays]_(A!vars)
  OBVIOUS
<1> QED
  BY <1>1, AdmissionInvariance, PTL DEF A!Spec, A!SettledStays

\* What is admitted is delivered once and settled as its owner decided.
THEOREM AdmissionsStayTrue == A!Spec => []AdmissionsAreTrue
  BY DeliveryCorrect, SettlementCorrect, PTL DEF AdmissionsAreTrue
================================================================================
