--------------------------- MODULE MarkdownWorkspace ---------------------------
(***************************************************************************)
(* The file-authoritative Markdown workspace: a Frame is a directory of    *)
(* generations, one of which a selector file names; a Case is one dossier. *)
(* One trusted writer at a time replaces them by steps of the file system. *)
(* Readers come at any time, people edit the documents that no generation  *)
(* holds, a writer may be killed between two steps, a write or an fsync    *)
(* may fail, and power may be lost.                                        *)
(*                                                                         *)
(* What a file holds is its digest.  A generation is two parts, the        *)
(* documents and the manifest that makes it attributable.  Power loss may  *)
(* undo, in any combination, the directory changes that no fsync of their  *)
(* directory has covered; what is in a file is flushed before it is named. *)
(* A flush of a directory that does not fail is taken to work: where the   *)
(* file system syncs no directories, syncDirectoryAsAvailable goes on      *)
(* without (EINVAL, ENOTSUP, EISDIR, EPERM), and nothing here is said of   *)
(* power losses.                                                           *)
(***************************************************************************)
EXTENDS Naturals, FiniteSets

CONSTANTS
  Digests,       \* of complete Frame aggregates
  Legacies,      \* digests of a Frame that has documents and no selector
  Dossiers,      \* digests of Case dossiers
  Cites,         \* the dossier that the settled disposition of a Frame names, if any
  Absent,        \* no Frame, no Case; also: nothing
  MaxFaults      \* bound: kills, failed flushes and power losses

ASSUME MarkdownAssumption ==
  /\ MaxFaults \in Nat
  /\ Absent \notin Digests \cup Legacies \cup Dossiers
  /\ Digests \cap Legacies = {}
  /\ Cites \in [Digests -> Dossiers \cup {Absent}]

Parts == {"documents", "manifest"}

VARIABLES
  selector,   \* what the Frame's directory selects: a generation, a legacy Frame, or Absent
  gens,       \* the parts in the directory of each generation, none if there is no such one
  dossier,    \* the digest of the Case dossier
  debris,     \* stages, by the call that left them
  durable,    \* what is on the disk: [selector, gens, dossier, owner]
  cleared,    \* generations that lost a part since their directory was flushed
  job,        \* the writer's call: [kind, target, expected]
  pc,         \* where it is
  removing,   \* the generation directory that it is removing
  swept,      \* whether its cleanup has removed something
  reply,      \* its last answer
  told,       \* what may be selected: what was last settled or edited, and later selections
  reader,     \* one reader: [pc, digest, left, overtaken]
  faults      \* [stops, losses]: calls that were cut short, power losses

files  == <<selector, gens, dossier, debris, durable, cleared>>
writer == <<job, pc, removing, swept, reply>>
vars   == <<files, writer, told, reader, faults>>

Kinds == {"frame.create", "frame.commit", "case"}

Cleaning == {"clean", "sweep"}

Labels == {"idle", "load", "compare", "stage", "publish", "flushPublished", "stageSelector",
           "recheck", "select", "flushSelected", "undo", "answer"} \cup Cleaning

Replies == {"none", "settled", "conflict", "refused", "taken", "failed"}

Frames == Digests \cup Legacies \cup {Absent}

Calls == [kind: {"case"}, target: Dossiers, expected: Dossiers \cup {Absent}]
           \cup [kind: {"frame.create"}, target: Digests, expected: {Absent}]
           \cup [kind: {"frame.commit"}, target: Digests, expected: Digests \cup Legacies]

NoJob == [kind |-> "none", target |-> Absent, expected |-> Absent]

Resting == [pc |-> "idle", digest |-> Absent, left |-> {}, overtaken |-> FALSE]

-------------------------------------------------------------------------------
\* What the Frame's directory holds

Whole(d) == gens[d] = Parts

\* loadSelectedFrame: without a selector, the legacy documents
Loads == selector \in Legacies \/ (selector \in Digests /\ Whole(selector))

SelectedToo(d) == "manifest" \in gens[d]   \* mutant: the selected one is debris too

\* attributableGeneration, of those that are not selected
Attributable(d) == d # selector /\ "manifest" \in gens[d]

\* validateCurrentCaseVersionEvidence
EvidenceCurrent(d) == Cites[d] \in {Absent, dossier}

\* The digest that a call compares with the one that it expects
Current == IF job.kind = "case" THEN dossier ELSE selector

Init ==
  /\ selector \in Legacies \cup {Absent} /\ dossier = Absent
  /\ gens = [d \in Digests |-> {}] /\ debris = {} /\ cleared = {}
  /\ durable = [selector |-> selector, gens |-> gens, dossier |-> dossier,
                owner |-> selector # Absent]
  /\ job = NoJob /\ pc = "idle" /\ removing = Absent /\ swept = FALSE /\ reply = "none"
  /\ told = [frame |-> {selector}, dossier |-> {dossier}]
  /\ reader = Resting /\ faults = [stops |-> 0, losses |-> 0]

-------------------------------------------------------------------------------
\* How a call moves

Continue(label) == pc' = label /\ UNCHANGED <<job, removing, swept, reply>>

Finish(code) ==
  /\ pc' = "idle" /\ reply' = code
  /\ job' = NoJob /\ removing' = Absent /\ swept' = FALSE

FlushNothing ==   \* mutant: the directory is not flushed
  UNCHANGED <<durable, cleared>>

\* syncDirectoryAsAvailable of the Frame's directory.  A generation that has lost some of
\* its parts is still a directory of its own, and that one is not flushed.
FlushOwner ==
  LET partly == {d \in cleared : gens[d] # {}} IN
  /\ durable' = [durable EXCEPT !.selector = selector,
                   !.gens = [d \in Digests |-> IF d \in partly THEN @[d] ELSE gens[d]]]
  /\ cleared' = partly

\* syncDirectoryAsAvailable of cases/, or of frames/ after a creation
FlushParent ==
  /\ durable' = IF job.kind = "case" THEN [durable EXCEPT !.dossier = dossier]
                                     ELSE [durable EXCEPT !.owner = TRUE]
  /\ UNCHANGED cleared

-------------------------------------------------------------------------------
\* createFileAuthorityCase expects no dossier, commitFileAuthorityCase a digest;
\* createFileAuthorityFrame expects no Frame.

Invoke(call) ==
  /\ pc = "idle"
  /\ job' = call /\ pc' = "load" /\ reply' = "none"
  /\ UNCHANGED <<files, removing, swept, told, reader, faults>>

Load ==
  /\ pc = "load" /\ job.kind # "frame.commit"
  /\ IF job.kind = "frame.create" /\ ~EvidenceCurrent(job.target) THEN Finish("refused")
     ELSE IF Current # job.expected THEN Finish("conflict")
     ELSE Continue("stage")
  /\ UNCHANGED <<files, told, reader, faults>>

\* A stage has a name of its own, is flushed and read back.
Stage ==
  /\ pc = "stage"
  /\ debris' = debris \cup {job.kind}
  /\ Continue(IF job.kind = "frame.commit" THEN "publish" ELSE "recheck")
  /\ UNCHANGED <<selector, gens, dossier, durable, cleared, told, reader, faults>>

SelectCase ==
  /\ pc = "select" /\ job.kind = "case"
  /\ dossier' = job.target /\ debris' = debris \ {"case"}
  /\ told' = [told EXCEPT !.dossier = @ \cup {job.target}]
  /\ Continue("flushSelected")
  /\ UNCHANGED <<selector, gens, durable, cleared, reader, faults>>

\* The whole directory, flushed, with its selector and its generation, gets its name.
SelectCreated ==
  /\ pc = "select" /\ job.kind = "frame.create"
  /\ selector' = job.target /\ gens' = [gens EXCEPT ![job.target] = Parts]
  /\ durable' = [durable EXCEPT !.selector = job.target, !.gens[job.target] = Parts]
  /\ debris' = debris \ {"frame.create"}
  /\ told' = [told EXCEPT !.frame = @ \cup {job.target}]
  /\ Continue("flushSelected")
  /\ UNCHANGED <<dossier, cleared, reader, faults>>

-------------------------------------------------------------------------------
\* commitFileAuthorityFrame

FrameStages == {"frame.commit", "selector"}

LoadCommit ==
  /\ pc = "load" /\ job.kind = "frame.commit"
  /\ IF EvidenceCurrent(job.target) /\ Loads THEN Continue("clean") ELSE Finish("refused")
  /\ UNCHANGED <<files, told, reader, faults>>

\* cleanupFrameDebris: the directories that are debris, one by one, and what is in a
\* directory in any order.  The finally clause removes a generation in the same way.
BeginRemoval(d) ==
  /\ pc \in Cleaning /\ removing = Absent /\ Attributable(d)
  /\ removing' = d
  /\ UNCHANGED <<files, pc, job, swept, reply, told, reader, faults>>

RemovePart(p) ==
  /\ removing # Absent /\ p \in gens[removing]
  /\ gens' = [gens EXCEPT ![removing] = @ \ {p}]
  /\ cleared' = cleared \cup {removing}
  /\ removing' = IF gens[removing] = {p} THEN Absent ELSE removing
  /\ swept' = TRUE
  /\ UNCHANGED <<selector, dossier, debris, durable, pc, job, reply, told, reader, faults>>

EndCleanup ==
  /\ pc \in Cleaning /\ removing = Absent /\ \A d \in Digests : ~Attributable(d)
  /\ debris' = debris \ FrameStages
  /\ IF swept \/ debris \cap FrameStages # {} THEN FlushOwner ELSE UNCHANGED <<durable, cleared>>
  /\ pc' = (IF pc = "clean" THEN "compare" ELSE "answer") /\ swept' = FALSE
  /\ UNCHANGED <<selector, gens, dossier, job, removing, reply, told, reader, faults>>

\* What is selected already is not replaced; nothing of it is flushed again.
Compare ==
  /\ pc = "compare"
  /\ IF ~Loads THEN Finish("refused")
     ELSE IF selector # job.expected THEN Finish("conflict")
     ELSE Continue(IF selector = job.target THEN "sweep" ELSE "stage")
  /\ UNCHANGED <<files, told, reader, faults>>

\* rename(stagePath, finalPath), which fails on a directory that is not empty
Publish ==
  /\ pc = "publish"
  /\ debris' = debris \ {"frame.commit"}
  /\ IF gens[job.target] = {}
       THEN gens' = [gens EXCEPT ![job.target] = Parts] /\ Continue("flushPublished")
       ELSE UNCHANGED gens /\ Finish("taken")
  /\ UNCHANGED <<selector, dossier, durable, cleared, told, reader, faults>>

FlushPublished ==
  /\ pc = "flushPublished" /\ FlushOwner
  /\ Continue("stageSelector")
  /\ UNCHANGED <<selector, gens, dossier, debris, told, reader, faults>>

StageSelector ==
  /\ pc = "stageSelector"
  /\ debris' = debris \cup {"selector"}
  /\ Continue("recheck")
  /\ UNCHANGED <<selector, gens, dossier, durable, cleared, told, reader, faults>>

\* The digest is read again; in a creation link and rename find out.
Recheck ==
  /\ pc = "recheck"
  /\ IF Current = job.expected
       THEN Continue("select") /\ UNCHANGED debris
       ELSE IF job.kind = "frame.commit"
       THEN pc' = "undo" /\ reply' = "conflict" /\ UNCHANGED <<job, removing, swept, debris>>
       ELSE Finish("conflict") /\ debris' = debris \ {job.kind}
  /\ UNCHANGED <<selector, gens, dossier, durable, cleared, told, reader, faults>>

Select ==
  /\ pc = "select" /\ job.kind = "frame.commit"
  /\ selector' = job.target /\ debris' = debris \ {"selector"}
  /\ told' = [told EXCEPT !.frame = @ \cup {job.target}]
  /\ reader' = [reader EXCEPT !.overtaken = TRUE]
  /\ Continue("flushSelected")
  /\ UNCHANGED <<gens, dossier, durable, cleared, faults>>

FlushSelected ==
  /\ pc = "flushSelected"
  /\ IF job.kind = "frame.commit" THEN FlushOwner /\ Continue("sweep")
                                  ELSE FlushParent /\ Continue("answer")
  /\ UNCHANGED <<selector, gens, dossier, debris, told, reader, faults>>

Answer ==
  /\ pc = "answer"
  /\ told' = IF job.kind # "case" THEN [told EXCEPT !.frame = {job.target}]
             ELSE IF job.target \in told.dossier THEN [told EXCEPT !.dossier = {job.target}]
             ELSE told   \* edited since
  /\ Finish("settled")
  /\ UNCHANGED <<files, reader, faults>>

\* finally: the stages go, and so does what was published and not selected.
Undo ==
  /\ pc = "undo" /\ removing = Absent
  /\ debris' = debris \ FrameStages
  /\ IF gens[job.target] = {} THEN Finish(reply)
     ELSE removing' = job.target /\ UNCHANGED <<pc, job, swept, reply>>
  /\ UNCHANGED <<selector, gens, dossier, durable, cleared, told, reader, faults>>

WriterStep ==
  \/ Load \/ Stage \/ SelectCase \/ SelectCreated
  \/ LoadCommit \/ \E d \in Digests : BeginRemoval(d)
  \/ \E p \in Parts : RemovePart(p)
  \/ EndCleanup \/ Compare \/ Publish \/ FlushPublished \/ StageSelector
  \/ Recheck \/ Select \/ FlushSelected \/ Answer \/ Undo

-------------------------------------------------------------------------------
\* Faults, and people

MayFault == faults.stops + faults.losses < MaxFaults

Stopped == MayFault /\ faults' = [faults EXCEPT !.stops = @ + 1]

UntilFlushed ==   \* mutant: it counts as selected after the flush, not after the rename
  {"flushPublished", "stageSelector", "recheck", "select", "flushSelected"}

\* published && !selected
PublishedUnselected == {"flushPublished", "stageSelector", "recheck", "select"}

\* A write or a flush fails, and the call answers so after its finally clause.
Fails ==
  /\ Stopped /\ pc \notin {"idle", "undo"} /\ removing = Absent
  /\ IF pc \in PublishedUnselected /\ job.kind = "frame.commit"
       THEN pc' = "undo" /\ reply' = "failed" /\ UNCHANGED <<job, removing, swept, debris>>
       ELSE Finish("failed") /\ debris' = debris \ {job.kind}
  /\ UNCHANGED <<selector, gens, dossier, durable, cleared, told, reader>>

Kill ==
  /\ Stopped /\ pc # "idle"
  /\ Finish("none")
  /\ UNCHANGED <<files, told, reader>>

\* A change that was not flushed is there or is not.  A Frame whose name in frames/ was
\* not flushed may be gone.
PowerLoss ==
  /\ MayFault /\ faults' = [faults EXCEPT !.losses = @ + 1]
  /\ dossier' \in {dossier, durable.dossier}
  /\ \/ /\ selector' \in {selector, durable.selector}
        /\ gens' \in [Digests -> SUBSET Parts]
        /\ \A d \in Digests :
             IF d \in cleared THEN gens[d] \subseteq gens'[d] /\ gens'[d] \subseteq durable.gens[d]
                              ELSE gens'[d] \in {gens[d], durable.gens[d]}
     \/ ~durable.owner /\ selector' = Absent /\ gens' = [d \in Digests |-> {}]
  /\ durable' = [selector |-> selector', gens |-> gens', dossier |-> dossier',
                 owner |-> selector' # Absent]
  /\ cleared' = {} /\ debris' \in {debris, {}}
  /\ Finish("none") /\ reader' = Resting
  /\ UNCHANGED told

\* Someone edits, in place, a dossier or the documents of a legacy Frame, and not in the
\* instant between the last comparison of a call and its rename, which nothing guards.
EditDossier(d) ==
  /\ dossier # Absent /\ pc # "select"
  /\ dossier' = d /\ durable' = [durable EXCEPT !.dossier = d]
  /\ told' = [told EXCEPT !.dossier = {d}]
  /\ UNCHANGED <<selector, gens, debris, cleared, writer, reader, faults>>

EditLegacy(d) ==
  /\ selector \in Legacies /\ pc # "select"
  /\ selector' = d /\ durable' = [durable EXCEPT !.selector = d]
  /\ told' = [told EXCEPT !.frame = {d}]
  /\ UNCHANGED <<gens, dossier, debris, cleared, writer, reader, faults>>

-------------------------------------------------------------------------------
\* A reader: the selector, then the generation that it names, file by file

ReadSelector ==
  /\ reader.pc # "reading" /\ selector \in Digests
  /\ reader' = [pc |-> "reading", digest |-> selector, left |-> Parts, overtaken |-> FALSE]
  /\ UNCHANGED <<files, writer, told, faults>>

ReadPart(p) ==
  /\ reader.pc = "reading" /\ p \in reader.left
  /\ reader' = IF p \notin gens[reader.digest]
                 THEN [reader EXCEPT !.pc = "refused", !.left = {}]
                 ELSE [reader EXCEPT !.pc = IF reader.left = {p} THEN "served" ELSE "reading",
                                     !.left = @ \ {p}]
  /\ UNCHANGED <<files, writer, told, faults>>

Next ==
  \/ \E call \in Calls : Invoke(call)
  \/ WriterStep
  \/ Fails \/ Kill \/ PowerLoss
  \/ \E d \in Dossiers : EditDossier(d)
  \/ \E d \in Legacies : EditLegacy(d)
  \/ ReadSelector \/ \E p \in Parts : ReadPart(p)

Spec == Init /\ [][Next]_vars

-------------------------------------------------------------------------------
TypeOK ==
  /\ selector \in Frames /\ gens \in [Digests -> SUBSET Parts] /\ dossier \in Dossiers \cup {Absent}
  /\ debris \subseteq Kinds \cup {"selector"} /\ cleared \subseteq Digests
  /\ durable \in [selector: Frames, gens: [Digests -> SUBSET Parts],
                  dossier: Dossiers \cup {Absent}, owner: BOOLEAN]
  /\ job \in Calls \cup {NoJob} /\ pc \in Labels /\ removing \in Digests \cup {Absent}
  /\ swept \in BOOLEAN /\ reply \in Replies
  /\ told \in [frame: SUBSET Frames, dossier: SUBSET (Dossiers \cup {Absent})]
  /\ reader \in [pc: {"idle", "reading", "served", "refused"}, digest: Digests \cup {Absent},
                 left: SUBSET Parts, overtaken: BOOLEAN]
  /\ faults \in [stops: 0..MaxFaults, losses: 0..MaxFaults]

\* Calls that were cut short, without a power loss, and power losses, without one of
\* those.  Together they are more than the order of the flushes is made for: see README.
Survivable == faults.stops = 0 \/ faults.losses = 0

\* The generation that the selector names is complete, whichever step of the cleanup, the
\* publication or the selection a kill, a failed flush or a power loss came after.
SelectionIsWhole == Survivable /\ selector \in Digests => Whole(selector)

\* What is selected is what was last settled or edited, or something that was selected
\* after it: a settled Frame or Case is not lost, whatever is on the disk.
SettledIsKept == Survivable => selector \in told.frame /\ dossier \in told.dossier

\* A reader that finds its generation incomplete was overtaken by a commit: the cleanup
\* takes nothing that is selected, and a conflict removes only what nobody could select.
RefusedReadersWereOvertaken ==
  Survivable /\ reader.pc = "refused" => reader.overtaken

\* A commit fails on a directory that has the name of its generation only where a removal
\* was cut short: what earlier commits and conflicts left is gone by then.
NamesAreFree == reply = "taken" => faults.stops + faults.losses > 0

\* What the cleanup and the undo remove is in nobody's way, and what they leave neither
\* (cleanupFrameDebris, and the finally clauses of a failed commit).
RemovalsAreHarmless == RefusedReadersWereOvertaken /\ NamesAreFree

===============================================================================
