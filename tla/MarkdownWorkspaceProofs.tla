------------------------ MODULE MarkdownWorkspaceProofs ------------------------
(***************************************************************************)
(* Proofs about MarkdownWorkspace, for any digests, dossiers and numbers   *)
(* of faults: what is selected is complete, what was settled is kept, and  *)
(* removals are harmless.  As long as no power is lost, what is in memory  *)
(* decides, wherever calls are cut short; as long as no call is cut short, *)
(* what is selected in memory and what is selected on the disk are both    *)
(* complete on both, and differ only until the selection is flushed.       *)
(***************************************************************************)
EXTENDS MarkdownWorkspace, TLAPS

-------------------------------------------------------------------------------
\* A call

Published == {"flushPublished", "stageSelector", "recheck", "select"}

\* Steps that only a commit of a Frame takes
OfCommit == Cleaning \cup {"compare", "publish", "flushPublished", "stageSelector", "undo"}

JobOK ==
  /\ pc # "idle" => job \in Calls
  /\ pc \in OfCommit => job.kind = "frame.commit"
  /\ removing # Absent => pc \in Cleaning \cup {"undo"} /\ removing # selector
  /\ pc = "select" => Current = job.expected
  /\ pc \in {"stage", "publish", "undo"} \cup Published /\ job.kind = "frame.commit" => selector # job.target
  /\ pc = "undo" => reply \in {"conflict", "failed"}

-------------------------------------------------------------------------------
\* What memory holds

MemoryOK ==
  /\ selector \in Digests => Whole(selector)
  /\ pc \in Published /\ job.kind = "frame.commit" => Whole(job.target)
  /\ pc \in {"flushSelected", "sweep", "answer"} /\ job.kind # "case" => selector = job.target
  /\ pc \in {"flushSelected", "answer"} /\ job.kind = "case" /\ job.target \in told.dossier => dossier = job.target
  /\ selector \in told.frame /\ dossier \in told.dossier
  /\ reader.pc = "reading" /\ ~reader.overtaken => reader.digest = selector /\ selector \in Digests
  /\ reader.pc = "refused" => reader.overtaken

\* What the disk holds while no call was cut short

OnDisk(d) == Whole(d) /\ (d \in cleared \/ durable.gens[d] = Parts)

Selecting == pc = "flushSelected" /\ job.kind = "frame.commit"

DiskOK ==
  /\ \A d \in {selector, durable.selector} : d \in Digests => OnDisk(d)
  /\ pc \in Published \ {"flushPublished"} /\ job.kind = "frame.commit" => OnDisk(job.target)
  /\ ~Selecting => durable.selector = selector
  /\ durable.selector \in told.frame /\ durable.dossier \in told.dossier
  /\ pc = "answer" /\ job.kind = "case" /\ job.target \in told.dossier => durable.dossier = job.target
  /\ durable.owner \/ Absent \in told.frame
  /\ durable.owner \/ selector = Absent \/ (pc = "flushSelected" /\ job.kind = "frame.create")

\* What generations there are before the first fault

Untouched ==
  /\ \A d \in Digests : d = removing \/ gens[d] \in {{}, Parts}
  /\ pc \in {"compare", "stage", "publish"} /\ job.kind = "frame.commit" =>
       \A d \in Digests : d = selector \/ gens[d] = {}
  /\ reply # "taken"

WorkspaceInv ==
  /\ TypeOK /\ JobOK
  /\ Survivable => MemoryOK
  /\ faults.stops = 0 => DiskOK
  /\ faults.stops + faults.losses = 0 => Untouched
-------------------------------------------------------------------------------
\* Types

FilesTyped ==
  /\ selector \in Frames /\ gens \in [Digests -> SUBSET Parts] /\ dossier \in Dossiers \cup {Absent}
  /\ debris \subseteq Kinds \cup {"selector"} /\ cleared \subseteq Digests

Disks == [selector: Frames, gens: [Digests -> SUBSET Parts], dossier: Dossiers \cup {Absent}, owner: BOOLEAN]

WriterTyped ==
  /\ job \in Calls \cup {NoJob} /\ pc \in Labels /\ removing \in Digests \cup {Absent}
  /\ swept \in BOOLEAN /\ reply \in Replies

Tellings == [frame: SUBSET Frames, dossier: SUBSET (Dossiers \cup {Absent})]

Readers == [pc: {"idle", "reading", "served", "refused"}, digest: Digests \cup {Absent},
            left: SUBSET Parts, overtaken: BOOLEAN]

Faults == [stops: 0 .. MaxFaults, losses: 0 .. MaxFaults]

\* The type invariant, part by part
LEMMA TypeParts ==
  TypeOK <=> FilesTyped /\ durable \in Disks /\ WriterTyped /\ told \in Tellings /\ reader \in Readers
             /\ faults \in Faults
  BY DEF TypeOK, FilesTyped, Disks, WriterTyped, Tellings, Readers, Faults

\* What a call may be
LEMMA CallForms ==
  ASSUME NEW c \in Calls
  PROVE  /\ c.kind = "case" => c.target \in Dossiers /\ c.expected \in Dossiers \cup {Absent}
         /\ c.kind = "frame.create" => c.target \in Digests /\ c.expected = Absent
         /\ c.kind = "frame.commit" => c.target \in Digests /\ c.expected \in Digests \cup Legacies
         /\ c.kind \in Kinds
  BY DEF Calls, Kinds

\* A call that goes on, or ends, is one of those.
LEMMA WriterMoves ==
  ASSUME WriterTyped
  PROVE  /\ \A l \in Labels : Continue(l) => WriterTyped'
         /\ \A r \in Replies : Finish(r) => WriterTyped'
<1>1. ASSUME NEW l \in Labels, Continue(l) PROVE WriterTyped'
  BY <1>1 DEF Continue, WriterTyped
<1>2. ASSUME NEW r \in Replies, Finish(r) PROVE WriterTyped'
  BY <1>2 DEF Finish, WriterTyped, Labels
<1> QED
  BY <1>1, <1>2

\* What is flushed is what there is.
LEMMA OwnerFlushed ==
  ASSUME FilesTyped, durable \in Disks, FlushOwner
  PROVE  /\ durable' \in Disks /\ cleared' \subseteq Digests
         /\ durable'.selector = selector /\ durable'.dossier = durable.dossier /\ durable'.owner = durable.owner
         /\ cleared' = {d \in cleared : gens[d] # {}}
         /\ \A d \in Digests : durable'.gens[d] = IF d \in cleared' THEN durable.gens[d] ELSE gens[d]
<1> DEFINE partly == {d \in cleared : gens[d] # {}}
           g == [d \in Digests |-> IF d \in partly THEN durable.gens[d] ELSE gens[d]]
<1>1. g \in [Digests -> SUBSET Parts]
  BY DEF FilesTyped, Disks
<1>2. durable' = [[durable EXCEPT !.selector = selector] EXCEPT !.gens = g] /\ cleared' = partly
  BY DEF FlushOwner, Disks
<1>3. partly \subseteq Digests
  BY DEF FilesTyped
<1>4. \A d \in Digests : g[d] = IF d \in partly THEN durable.gens[d] ELSE gens[d]
  OBVIOUS
<1> HIDE DEF g, partly
<1>5. durable' \in Disks /\ durable'.gens = g /\ durable'.selector = selector
      /\ durable'.dossier = durable.dossier /\ durable'.owner = durable.owner
  BY <1>1, <1>2 DEF FilesTyped, Disks
<1> QED
  BY <1>2, <1>3, <1>4, <1>5 DEF partly

\* Of cases/ a flush covers the dossier, of frames/ the name of the Frame.
LEMMA ParentFlushed ==
  ASSUME FilesTyped, durable \in Disks, FlushParent
  PROVE  /\ durable' \in Disks /\ cleared' = cleared
         /\ durable'.selector = durable.selector /\ durable'.gens = durable.gens
         /\ durable'.dossier = (IF job.kind = "case" THEN dossier ELSE durable.dossier)
         /\ durable'.owner = (IF job.kind = "case" THEN durable.owner ELSE TRUE)
  BY DEF FilesTyped, Disks, FlushParent

\* A call reads what there is, and refuses or goes on.
LEMMA LoadKeeps ==
  ASSUME WorkspaceInv, Load
  PROVE  WorkspaceInv'
<1>1. FilesTyped /\ durable \in Disks /\ WriterTyped /\ told \in Tellings /\ reader \in Readers
        /\ faults \in Faults
  BY TypeParts DEF WorkspaceInv
<1>2. JobOK
  BY DEF WorkspaceInv
<1>3. WriterTyped'
  BY <1>1, WriterMoves DEF Load, Labels, Replies
<1>4. FilesTyped'
  BY <1>1, <1>2, CallForms DEF Load, FilesTyped, files
<1>5. durable' \in Disks
  BY <1>1 DEF Load, files
<1>6. told' \in Tellings
  BY <1>1 DEF Load
<1>7. reader' \in Readers
  BY <1>1 DEF Load
<1>8. faults' \in Faults
  BY <1>1 DEF Load
<1>9. TypeOK'
  BY <1>3, <1>4, <1>5, <1>6, <1>7, <1>8 DEF TypeOK, FilesTyped, Disks, WriterTyped, Tellings, Readers, Faults
<1>10. JobOK'
  BY <1>1, <1>2, CallForms, MarkdownAssumption DEF Load, files, Continue, Finish, JobOK, Published, OfCommit,
     Cleaning
<1>12. /\ Survivable' => Survivable /\ MemoryOK
       /\ faults'.stops = 0 => Survivable /\ MemoryOK /\ DiskOK
       /\ faults'.stops + faults'.losses = 0 => Survivable /\ MemoryOK /\ Untouched
  BY <1>1 DEF WorkspaceInv, Survivable, Load, Faults
<1>11. Survivable' => MemoryOK'
  BY <1>1, <1>2, <1>12, CallForms, MarkdownAssumption DEF Load, files, Continue, Finish, MemoryOK, Published, Whole
<1>13. faults'.stops = 0 => DiskOK'
  BY <1>1, <1>2, <1>12, CallForms, MarkdownAssumption DEF Load, files, Continue, Finish, JobOK, MemoryOK,
     DiskOK, OnDisk, Selecting, Published, Whole
<1>14. faults'.stops + faults'.losses = 0 => Untouched'
  BY <1>1, <1>2, <1>12, CallForms, MarkdownAssumption DEF Load, files, Continue, Finish, JobOK, Untouched, OfCommit
<1> QED
  BY <1>9, <1>10, <1>11, <1>13, <1>14 DEF WorkspaceInv

\* A stage is written and flushed.
LEMMA StageKeeps ==
  ASSUME WorkspaceInv, Stage
  PROVE  WorkspaceInv'
<1>1. FilesTyped /\ durable \in Disks /\ WriterTyped /\ told \in Tellings /\ reader \in Readers
        /\ faults \in Faults
  BY TypeParts DEF WorkspaceInv
<1>2. JobOK
  BY DEF WorkspaceInv
<1>3. WriterTyped'
  BY <1>1, WriterMoves DEF Stage, Labels
<1>4. FilesTyped'
  BY <1>1, <1>2, CallForms DEF Stage, FilesTyped, JobOK
<1>5. durable' \in Disks
  BY <1>1 DEF Stage
<1>6. told' \in Tellings
  BY <1>1 DEF Stage
<1>7. reader' \in Readers
  BY <1>1 DEF Stage
<1>8. faults' \in Faults
  BY <1>1 DEF Stage
<1>9. TypeOK'
  BY <1>3, <1>4, <1>5, <1>6, <1>7, <1>8 DEF TypeOK, FilesTyped, Disks, WriterTyped, Tellings, Readers, Faults
<1>10. JobOK'
  BY <1>1, <1>2, CallForms, MarkdownAssumption DEF Stage, Continue, JobOK, OfCommit, Cleaning
<1>12. /\ Survivable' => Survivable /\ MemoryOK
       /\ faults'.stops = 0 => Survivable /\ MemoryOK /\ DiskOK
       /\ faults'.stops + faults'.losses = 0 => Survivable /\ MemoryOK /\ Untouched
  BY <1>1 DEF WorkspaceInv, Survivable, Stage, Faults
<1>11. Survivable' => MemoryOK'
  BY <1>1, <1>2, <1>12, CallForms, MarkdownAssumption DEF Stage, Continue, MemoryOK, Published, Whole
<1>13. faults'.stops = 0 => DiskOK'
  BY <1>1, <1>2, <1>12, CallForms, MarkdownAssumption DEF Stage, Continue, JobOK, MemoryOK, DiskOK, OnDisk,
     Selecting, Published, Whole
<1>14. faults'.stops + faults'.losses = 0 => Untouched'
  BY <1>1, <1>2, <1>12, CallForms, MarkdownAssumption DEF Stage, Continue, Untouched
<1> QED
  BY <1>9, <1>10, <1>11, <1>13, <1>14 DEF WorkspaceInv

\* A dossier is put in its place.
LEMMA SelectCaseKeeps ==
  ASSUME WorkspaceInv, SelectCase
  PROVE  WorkspaceInv'
<1>1. FilesTyped /\ durable \in Disks /\ WriterTyped /\ told \in Tellings /\ reader \in Readers
        /\ faults \in Faults
  BY TypeParts DEF WorkspaceInv
<1>2. JobOK
  BY DEF WorkspaceInv
<1>3. WriterTyped'
  BY <1>1, WriterMoves DEF SelectCase, Labels
<1>4. FilesTyped'
  BY <1>1, <1>2, CallForms DEF SelectCase, FilesTyped, JobOK
<1>5. durable' \in Disks
  BY <1>1 DEF SelectCase
<1>6. told' \in Tellings
  BY <1>1, <1>2, CallForms DEF SelectCase, Tellings, JobOK
<1>7. reader' \in Readers
  BY <1>1 DEF SelectCase
<1>8. faults' \in Faults
  BY <1>1 DEF SelectCase
<1>9. TypeOK'
  BY <1>3, <1>4, <1>5, <1>6, <1>7, <1>8 DEF TypeOK, FilesTyped, Disks, WriterTyped, Tellings, Readers, Faults
<1>10. JobOK'
  BY <1>1, <1>2, CallForms, MarkdownAssumption DEF SelectCase, Continue, JobOK, OfCommit, Cleaning
<1>12. /\ Survivable' => Survivable /\ MemoryOK
       /\ faults'.stops = 0 => Survivable /\ MemoryOK /\ DiskOK
       /\ faults'.stops + faults'.losses = 0 => Survivable /\ MemoryOK /\ Untouched
  BY <1>1 DEF WorkspaceInv, Survivable, SelectCase, Faults
<1>11. Survivable' => MemoryOK'
  BY <1>1, <1>2, <1>12, CallForms, MarkdownAssumption DEF SelectCase, Continue, MemoryOK, Whole
<1>13. faults'.stops = 0 => DiskOK'
  BY <1>1, <1>2, <1>12, CallForms, MarkdownAssumption DEF SelectCase, Continue, JobOK, MemoryOK, DiskOK, OnDisk,
     Selecting, Whole
<1>14. faults'.stops + faults'.losses = 0 => Untouched'
  BY <1>1, <1>2, <1>12, CallForms, MarkdownAssumption DEF SelectCase, Continue, Untouched
<1> QED
  BY <1>9, <1>10, <1>11, <1>13, <1>14 DEF WorkspaceInv

\* A new Frame, whole and flushed, gets its name.
LEMMA SelectCreatedKeeps ==
  ASSUME WorkspaceInv, SelectCreated
  PROVE  WorkspaceInv'
<1>1. FilesTyped /\ durable \in Disks /\ WriterTyped /\ told \in Tellings /\ reader \in Readers
        /\ faults \in Faults
  BY TypeParts DEF WorkspaceInv
<1>2. JobOK
  BY DEF WorkspaceInv
<1>3. WriterTyped'
  BY <1>1, WriterMoves DEF SelectCreated, Labels
<1>4. FilesTyped'
  BY <1>1, <1>2, CallForms DEF SelectCreated, FilesTyped, Frames, JobOK
<1>5. durable' \in Disks
  BY <1>1, <1>2, CallForms DEF SelectCreated, Disks, JobOK, Frames
<1>6. told' \in Tellings
  BY <1>1, <1>2, CallForms DEF SelectCreated, Tellings, JobOK, Frames
<1>7. reader' \in Readers
  BY <1>1 DEF SelectCreated
<1>8. faults' \in Faults
  BY <1>1 DEF SelectCreated
<1>9. TypeOK'
  BY <1>3, <1>4, <1>5, <1>6, <1>7, <1>8 DEF TypeOK, FilesTyped, Disks, WriterTyped, Tellings, Readers, Faults
<1>10. JobOK'
  BY <1>1, <1>2, CallForms, MarkdownAssumption DEF SelectCreated, Continue, JobOK, OfCommit, Cleaning
<1>12. /\ Survivable' => Survivable /\ MemoryOK
       /\ faults'.stops = 0 => Survivable /\ MemoryOK /\ DiskOK
       /\ faults'.stops + faults'.losses = 0 => Survivable /\ MemoryOK /\ Untouched
  BY <1>1 DEF WorkspaceInv, Survivable, SelectCreated, Faults
<1>11. Survivable' => MemoryOK'
  BY <1>1, <1>2, <1>12, CallForms, MarkdownAssumption DEF SelectCreated, Continue, JobOK, MemoryOK, Whole,
     FilesTyped, Current
<1>13. faults'.stops = 0 => DiskOK'
  BY <1>1, <1>2, <1>12, CallForms, MarkdownAssumption DEF SelectCreated, Continue, JobOK, MemoryOK, DiskOK,
     OnDisk, Whole, FilesTyped, Disks
<1>14. faults'.stops + faults'.losses = 0 => Untouched'
  BY <1>1, <1>2, <1>12, CallForms, MarkdownAssumption DEF SelectCreated, Continue, Untouched
<1> QED
  BY <1>9, <1>10, <1>11, <1>13, <1>14 DEF WorkspaceInv

\* A commit reads the selected generation whole.
LEMMA LoadCommitKeeps ==
  ASSUME WorkspaceInv, LoadCommit
  PROVE  WorkspaceInv'
<1>1. FilesTyped /\ durable \in Disks /\ WriterTyped /\ told \in Tellings /\ reader \in Readers
        /\ faults \in Faults
  BY TypeParts DEF WorkspaceInv
<1>2. JobOK
  BY DEF WorkspaceInv
<1>3. WriterTyped'
  BY <1>1, WriterMoves DEF LoadCommit, Labels, Cleaning, Replies
<1>4. FilesTyped'
  BY <1>1, <1>2, CallForms DEF LoadCommit, FilesTyped, files
<1>5. durable' \in Disks
  BY <1>1 DEF LoadCommit, files
<1>6. told' \in Tellings
  BY <1>1 DEF LoadCommit
<1>7. reader' \in Readers
  BY <1>1 DEF LoadCommit
<1>8. faults' \in Faults
  BY <1>1 DEF LoadCommit
<1>9. TypeOK'
  BY <1>3, <1>4, <1>5, <1>6, <1>7, <1>8 DEF TypeOK, FilesTyped, Disks, WriterTyped, Tellings, Readers, Faults
<1>10. JobOK'
  BY <1>1, <1>2, CallForms, MarkdownAssumption DEF LoadCommit, files, Continue, Finish, JobOK, Published,
     OfCommit, Cleaning
<1>12. /\ Survivable' => Survivable /\ MemoryOK
       /\ faults'.stops = 0 => Survivable /\ MemoryOK /\ DiskOK
       /\ faults'.stops + faults'.losses = 0 => Survivable /\ MemoryOK /\ Untouched
  BY <1>1 DEF WorkspaceInv, Survivable, LoadCommit, Faults
<1>11. Survivable' => MemoryOK'
  BY <1>1, <1>2, <1>12, CallForms, MarkdownAssumption DEF LoadCommit, files, Continue, Finish, MemoryOK,
     Published, Whole
<1>13. faults'.stops = 0 => DiskOK'
  BY <1>1, <1>2, <1>12, CallForms, MarkdownAssumption DEF LoadCommit, files, Continue, Finish, JobOK, MemoryOK,
     DiskOK, OnDisk, Selecting, Published, Whole
<1>14. faults'.stops + faults'.losses = 0 => Untouched'
  BY <1>1, <1>2, <1>12, CallForms, MarkdownAssumption DEF LoadCommit, files, Continue, Finish, JobOK, Untouched,
     Cleaning
<1> QED
  BY <1>9, <1>10, <1>11, <1>13, <1>14 DEF WorkspaceInv

\* The cleanup takes a generation that is not selected.
LEMMA BeginRemovalKeeps ==
  ASSUME WorkspaceInv, NEW d \in Digests, BeginRemoval(d)
  PROVE  WorkspaceInv'
<1>1. FilesTyped /\ durable \in Disks /\ WriterTyped /\ told \in Tellings /\ reader \in Readers
        /\ faults \in Faults
  BY TypeParts DEF WorkspaceInv
<1>2. JobOK
  BY DEF WorkspaceInv
<1>3. WriterTyped'
  BY <1>1 DEF BeginRemoval, WriterTyped
<1>4. FilesTyped'
  BY <1>1 DEF BeginRemoval, FilesTyped, files
<1>5. durable' \in Disks
  BY <1>1 DEF BeginRemoval, files
<1>6. told' \in Tellings
  BY <1>1, <1>2, CallForms DEF BeginRemoval, Tellings, JobOK, Frames
<1>7. reader' \in Readers
  BY <1>1 DEF BeginRemoval
<1>8. faults' \in Faults
  BY <1>1 DEF BeginRemoval
<1>9. TypeOK'
  BY <1>3, <1>4, <1>5, <1>6, <1>7, <1>8 DEF TypeOK, FilesTyped, Disks, WriterTyped, Tellings, Readers, Faults
<1>10. JobOK'
  BY <1>1, <1>2, CallForms, MarkdownAssumption DEF BeginRemoval, files, JobOK, Cleaning, Attributable
<1>12. /\ Survivable' => Survivable /\ MemoryOK
       /\ faults'.stops = 0 => Survivable /\ MemoryOK /\ DiskOK
       /\ faults'.stops + faults'.losses = 0 => Survivable /\ MemoryOK /\ Untouched
  BY <1>1 DEF WorkspaceInv, Survivable, BeginRemoval, Faults
<1>11. Survivable' => MemoryOK'
  BY <1>1, <1>2, <1>12, CallForms, MarkdownAssumption DEF BeginRemoval, files, JobOK, MemoryOK, Whole
<1>13. faults'.stops = 0 => DiskOK'
  BY <1>1, <1>2, <1>12, CallForms, MarkdownAssumption DEF BeginRemoval, files, JobOK, MemoryOK, DiskOK, OnDisk,
     Selecting, Whole
<1>14. faults'.stops + faults'.losses = 0 => Untouched'
  BY <1>1, <1>2, <1>12, CallForms, MarkdownAssumption DEF BeginRemoval, files, Untouched
<1> QED
  BY <1>9, <1>10, <1>11, <1>13, <1>14 DEF WorkspaceInv

\* A part of it goes.
LEMMA RemovePartKeeps ==
  ASSUME WorkspaceInv, NEW p \in Parts, RemovePart(p)
  PROVE  WorkspaceInv'
<1>1. FilesTyped /\ durable \in Disks /\ WriterTyped /\ told \in Tellings /\ reader \in Readers
        /\ faults \in Faults
  BY TypeParts DEF WorkspaceInv
<1>2. JobOK
  BY DEF WorkspaceInv
<1>3. WriterTyped'
  BY <1>1 DEF RemovePart, WriterTyped
<1>4. FilesTyped'
  BY <1>1 DEF RemovePart, FilesTyped, WriterTyped
<1>5. durable' \in Disks
  BY <1>1 DEF RemovePart
<1>6. told' \in Tellings
  BY <1>1 DEF RemovePart
<1>7. reader' \in Readers
  BY <1>1 DEF RemovePart
<1>8. faults' \in Faults
  BY <1>1 DEF RemovePart
<1>9. TypeOK'
  BY <1>3, <1>4, <1>5, <1>6, <1>7, <1>8 DEF TypeOK, FilesTyped, Disks, WriterTyped, Tellings, Readers, Faults
<1>10. JobOK'
  BY <1>1, <1>2, CallForms, MarkdownAssumption DEF RemovePart, JobOK, Cleaning
<1>12. /\ Survivable' => Survivable /\ MemoryOK
       /\ faults'.stops = 0 => Survivable /\ MemoryOK /\ DiskOK
       /\ faults'.stops + faults'.losses = 0 => Survivable /\ MemoryOK /\ Untouched
  BY <1>1 DEF WorkspaceInv, Survivable, RemovePart, Faults
<1>11. Survivable' => MemoryOK'
  BY <1>1, <1>2, <1>12, CallForms, MarkdownAssumption DEF RemovePart, JobOK, MemoryOK, Published, Cleaning, Whole
<1>13. faults'.stops = 0 => DiskOK'
  BY <1>1, <1>2, <1>12, CallForms, MarkdownAssumption DEF RemovePart, JobOK, MemoryOK, DiskOK, OnDisk,
     Selecting, Published, Cleaning, Whole
<1>14. faults'.stops + faults'.losses = 0 => Untouched'
  BY <1>1, <1>2, <1>12, CallForms, MarkdownAssumption DEF RemovePart, Untouched, FilesTyped
<1> QED
  BY <1>9, <1>10, <1>11, <1>13, <1>14 DEF WorkspaceInv

\* The cleanup has nothing left, and flushes what it removed.
LEMMA EndCleanupKeeps ==
  ASSUME WorkspaceInv, EndCleanup
  PROVE  WorkspaceInv'
<1>1. FilesTyped /\ durable \in Disks /\ WriterTyped /\ told \in Tellings /\ reader \in Readers
        /\ faults \in Faults
  BY TypeParts DEF WorkspaceInv
<1>2. JobOK
  BY DEF WorkspaceInv
<1>3. WriterTyped'
  BY <1>1 DEF EndCleanup, Labels, WriterTyped
<1>4. FilesTyped'
  BY <1>1, <1>2, OwnerFlushed DEF EndCleanup, FilesTyped
<1>5. durable' \in Disks
  BY <1>1, OwnerFlushed DEF EndCleanup
<1>6. told' \in Tellings
  BY <1>1 DEF EndCleanup
<1>7. reader' \in Readers
  BY <1>1 DEF EndCleanup
<1>8. faults' \in Faults
  BY <1>1 DEF EndCleanup
<1>9. TypeOK'
  BY <1>3, <1>4, <1>5, <1>6, <1>7, <1>8 DEF TypeOK, FilesTyped, Disks, WriterTyped, Tellings, Readers, Faults
<1>10. JobOK'
  BY <1>1, <1>2, OwnerFlushed, CallForms, MarkdownAssumption DEF EndCleanup, JobOK, Published, OfCommit, Cleaning
<1>12. /\ Survivable' => Survivable /\ MemoryOK
       /\ faults'.stops = 0 => Survivable /\ MemoryOK /\ DiskOK
       /\ faults'.stops + faults'.losses = 0 => Survivable /\ MemoryOK /\ Untouched
  BY <1>1 DEF WorkspaceInv, Survivable, EndCleanup, Faults
<1>11. Survivable' => MemoryOK'
  BY <1>1, <1>2, <1>12, CallForms, MarkdownAssumption DEF EndCleanup, JobOK, MemoryOK, Published, OfCommit,
     Cleaning, Whole
<1>13. faults'.stops = 0 => DiskOK'
  BY <1>1, <1>2, <1>12, OwnerFlushed, CallForms, MarkdownAssumption DEF EndCleanup, JobOK, MemoryOK, DiskOK,
     OnDisk, Selecting, Published, OfCommit, Cleaning, Whole
<1>14. faults'.stops + faults'.losses = 0 => Untouched'
  BY <1>1, <1>2, <1>12, CallForms, MarkdownAssumption DEF EndCleanup, Untouched, Attributable, Parts
<1> QED
  BY <1>9, <1>10, <1>11, <1>13, <1>14 DEF WorkspaceInv

\* A commit compares the digest.
LEMMA CompareKeeps ==
  ASSUME WorkspaceInv, Compare
  PROVE  WorkspaceInv'
<1>1. FilesTyped /\ durable \in Disks /\ WriterTyped /\ told \in Tellings /\ reader \in Readers
        /\ faults \in Faults
  BY TypeParts DEF WorkspaceInv
<1>2. JobOK
  BY DEF WorkspaceInv
<1>3. WriterTyped'
  BY <1>1, WriterMoves DEF Compare, Labels, Cleaning, Replies
<1>4. FilesTyped'
  BY <1>1, <1>2, CallForms DEF Compare, FilesTyped, files
<1>5. durable' \in Disks
  BY <1>1 DEF Compare, files
<1>6. told' \in Tellings
  BY <1>1 DEF Compare
<1>7. reader' \in Readers
  BY <1>1 DEF Compare
<1>8. faults' \in Faults
  BY <1>1 DEF Compare
<1>9. TypeOK'
  BY <1>3, <1>4, <1>5, <1>6, <1>7, <1>8 DEF TypeOK, FilesTyped, Disks, WriterTyped, Tellings, Readers, Faults
<1>10. JobOK'
  BY <1>1, <1>2, CallForms, MarkdownAssumption DEF Compare, files, Continue, Finish, JobOK, Published, OfCommit,
     Cleaning
<1>12. /\ Survivable' => Survivable /\ MemoryOK
       /\ faults'.stops = 0 => Survivable /\ MemoryOK /\ DiskOK
       /\ faults'.stops + faults'.losses = 0 => Survivable /\ MemoryOK /\ Untouched
  BY <1>1 DEF WorkspaceInv, Survivable, Compare, Faults
<1>11. Survivable' => MemoryOK'
  BY <1>1, <1>2, <1>12, CallForms, MarkdownAssumption DEF Compare, files, Continue, Finish, MemoryOK, Published,
     Whole
<1>13. faults'.stops = 0 => DiskOK'
  BY <1>1, <1>2, <1>12, CallForms, MarkdownAssumption DEF Compare, files, Continue, Finish, JobOK, MemoryOK,
     DiskOK, OnDisk, Selecting, Published, Whole
<1>14. faults'.stops + faults'.losses = 0 => Untouched'
  BY <1>1, <1>2, <1>12, CallForms, MarkdownAssumption DEF Compare, files, Continue, Finish, JobOK, Untouched,
     OfCommit
<1> QED
  BY <1>9, <1>10, <1>11, <1>13, <1>14 DEF WorkspaceInv

\* A generation gets its name where there is none.
LEMMA PublishKeeps ==
  ASSUME WorkspaceInv, Publish
  PROVE  WorkspaceInv'
<1>1. FilesTyped /\ durable \in Disks /\ WriterTyped /\ told \in Tellings /\ reader \in Readers
        /\ faults \in Faults
  BY TypeParts DEF WorkspaceInv
<1>2. JobOK
  BY DEF WorkspaceInv
<1>3. WriterTyped'
  BY <1>1, WriterMoves DEF Publish, Labels, Replies
<1>4. FilesTyped'
  BY <1>1, <1>2 DEF Publish, FilesTyped
<1>5. durable' \in Disks
  BY <1>1 DEF Publish
<1>6. told' \in Tellings
  BY <1>1 DEF Publish
<1>7. reader' \in Readers
  BY <1>1 DEF Publish
<1>8. faults' \in Faults
  BY <1>1 DEF Publish
<1>9. TypeOK'
  BY <1>3, <1>4, <1>5, <1>6, <1>7, <1>8 DEF TypeOK, FilesTyped, Disks, WriterTyped, Tellings, Readers, Faults
<1>10. JobOK'
  BY <1>1, <1>2, CallForms, MarkdownAssumption DEF Publish, Continue, Finish, JobOK, Published, OfCommit, Cleaning
<1>12. /\ Survivable' => Survivable /\ MemoryOK
       /\ faults'.stops = 0 => Survivable /\ MemoryOK /\ DiskOK
       /\ faults'.stops + faults'.losses = 0 => Survivable /\ MemoryOK /\ Untouched
  BY <1>1 DEF WorkspaceInv, Survivable, Publish, Faults
<1>11. Survivable' => MemoryOK'
  BY <1>1, <1>2, <1>12, CallForms, MarkdownAssumption DEF Publish, Continue, Finish, JobOK, MemoryOK, Published,
     Whole, FilesTyped
<1>13. faults'.stops = 0 => DiskOK'
  BY <1>1, <1>2, <1>12, CallForms, MarkdownAssumption DEF Publish, Continue, Finish, JobOK, MemoryOK, DiskOK,
     OnDisk, Selecting, Published, Whole, FilesTyped
<1>14. faults'.stops + faults'.losses = 0 => Untouched'
  BY <1>1, <1>2, <1>12, CallForms, MarkdownAssumption DEF Publish, Continue, JobOK, Untouched, OfCommit, FilesTyped
<1> QED
  BY <1>9, <1>10, <1>11, <1>13, <1>14 DEF WorkspaceInv

\* The generation is flushed before a selector may name it.
LEMMA FlushPublishedKeeps ==
  ASSUME WorkspaceInv, FlushPublished
  PROVE  WorkspaceInv'
<1>1. FilesTyped /\ durable \in Disks /\ WriterTyped /\ told \in Tellings /\ reader \in Readers
        /\ faults \in Faults
  BY TypeParts DEF WorkspaceInv
<1>2. JobOK
  BY DEF WorkspaceInv
<1>3. WriterTyped'
  BY <1>1, WriterMoves DEF FlushPublished, Labels
<1>4. FilesTyped'
  BY <1>1, <1>2, OwnerFlushed DEF FlushPublished, FilesTyped
<1>5. durable' \in Disks
  BY <1>1, OwnerFlushed DEF FlushPublished
<1>6. told' \in Tellings
  BY <1>1 DEF FlushPublished
<1>7. reader' \in Readers
  BY <1>1 DEF FlushPublished
<1>8. faults' \in Faults
  BY <1>1 DEF FlushPublished
<1>9. TypeOK'
  BY <1>3, <1>4, <1>5, <1>6, <1>7, <1>8 DEF TypeOK, FilesTyped, Disks, WriterTyped, Tellings, Readers, Faults
<1>10. JobOK'
  BY <1>1, <1>2, OwnerFlushed, CallForms, MarkdownAssumption DEF FlushPublished, Continue, JobOK, Published,
     OfCommit, Cleaning
<1>12. /\ Survivable' => Survivable /\ MemoryOK
       /\ faults'.stops = 0 => Survivable /\ MemoryOK /\ DiskOK
       /\ faults'.stops + faults'.losses = 0 => Survivable /\ MemoryOK /\ Untouched
  BY <1>1 DEF WorkspaceInv, Survivable, FlushPublished, Faults
<1>11. Survivable' => MemoryOK'
  BY <1>1, <1>2, <1>12, CallForms, MarkdownAssumption DEF FlushPublished, Continue, MemoryOK, Published, Whole
<1>13. faults'.stops = 0 => DiskOK'
  BY <1>1, <1>2, <1>12, OwnerFlushed, CallForms, MarkdownAssumption DEF FlushPublished, Continue, JobOK,
     MemoryOK, DiskOK, OnDisk, Published, Whole
<1>14. faults'.stops + faults'.losses = 0 => Untouched'
  BY <1>1, <1>2, <1>12, CallForms, MarkdownAssumption DEF FlushPublished, Continue, Untouched
<1> QED
  BY <1>9, <1>10, <1>11, <1>13, <1>14 DEF WorkspaceInv

\* The selector is staged.
LEMMA StageSelectorKeeps ==
  ASSUME WorkspaceInv, StageSelector
  PROVE  WorkspaceInv'
<1>1. FilesTyped /\ durable \in Disks /\ WriterTyped /\ told \in Tellings /\ reader \in Readers
        /\ faults \in Faults
  BY TypeParts DEF WorkspaceInv
<1>2. JobOK
  BY DEF WorkspaceInv
<1>3. WriterTyped'
  BY <1>1, WriterMoves DEF StageSelector, Labels
<1>4. FilesTyped'
  BY <1>1 DEF StageSelector, FilesTyped
<1>5. durable' \in Disks
  BY <1>1 DEF StageSelector
<1>6. told' \in Tellings
  BY <1>1 DEF StageSelector
<1>7. reader' \in Readers
  BY <1>1 DEF StageSelector
<1>8. faults' \in Faults
  BY <1>1 DEF StageSelector
<1>9. TypeOK'
  BY <1>3, <1>4, <1>5, <1>6, <1>7, <1>8 DEF TypeOK, FilesTyped, Disks, WriterTyped, Tellings, Readers, Faults
<1>10. JobOK'
  BY <1>1, <1>2, CallForms, MarkdownAssumption DEF StageSelector, Continue, JobOK, Published, OfCommit, Cleaning
<1>12. /\ Survivable' => Survivable /\ MemoryOK
       /\ faults'.stops = 0 => Survivable /\ MemoryOK /\ DiskOK
       /\ faults'.stops + faults'.losses = 0 => Survivable /\ MemoryOK /\ Untouched
  BY <1>1 DEF WorkspaceInv, Survivable, StageSelector, Faults
<1>11. Survivable' => MemoryOK'
  BY <1>1, <1>2, <1>12, CallForms, MarkdownAssumption DEF StageSelector, Continue, MemoryOK, Published, Whole
<1>13. faults'.stops = 0 => DiskOK'
  BY <1>1, <1>2, <1>12, CallForms, MarkdownAssumption DEF StageSelector, Continue, JobOK, MemoryOK, DiskOK,
     OnDisk, Selecting, Published, Whole
<1>14. faults'.stops + faults'.losses = 0 => Untouched'
  BY <1>1, <1>2, <1>12, CallForms, MarkdownAssumption DEF StageSelector, Continue, Untouched
<1> QED
  BY <1>9, <1>10, <1>11, <1>13, <1>14 DEF WorkspaceInv

\* The digest is compared once more.
LEMMA RecheckKeeps ==
  ASSUME WorkspaceInv, Recheck
  PROVE  WorkspaceInv'
<1>1. FilesTyped /\ durable \in Disks /\ WriterTyped /\ told \in Tellings /\ reader \in Readers
        /\ faults \in Faults
  BY TypeParts DEF WorkspaceInv
<1>2. JobOK
  BY DEF WorkspaceInv
<1>3. WriterTyped'
  BY <1>1, WriterMoves DEF Recheck, Labels, Replies, WriterTyped
<1>4. FilesTyped'
  BY <1>1, <1>2 DEF Recheck, FilesTyped
<1>5. durable' \in Disks
  BY <1>1 DEF Recheck
<1>6. told' \in Tellings
  BY <1>1 DEF Recheck
<1>7. reader' \in Readers
  BY <1>1 DEF Recheck
<1>8. faults' \in Faults
  BY <1>1 DEF Recheck
<1>9. TypeOK'
  BY <1>3, <1>4, <1>5, <1>6, <1>7, <1>8 DEF TypeOK, FilesTyped, Disks, WriterTyped, Tellings, Readers, Faults
<1>10. JobOK'
  BY <1>1, <1>2, CallForms, MarkdownAssumption DEF Recheck, Continue, Finish, JobOK, Published, OfCommit,
     Cleaning, Current
<1>12. /\ Survivable' => Survivable /\ MemoryOK
       /\ faults'.stops = 0 => Survivable /\ MemoryOK /\ DiskOK
       /\ faults'.stops + faults'.losses = 0 => Survivable /\ MemoryOK /\ Untouched
  BY <1>1 DEF WorkspaceInv, Survivable, Recheck, Faults
<1>11. Survivable' => MemoryOK'
  BY <1>1, <1>2, <1>12, CallForms, MarkdownAssumption DEF Recheck, Continue, Finish, MemoryOK, Published, Whole
<1>13. faults'.stops = 0 => DiskOK'
  BY <1>1, <1>2, <1>12, CallForms, MarkdownAssumption DEF Recheck, Continue, Finish, JobOK, MemoryOK, DiskOK,
     OnDisk, Selecting, Published, Whole
<1>14. faults'.stops + faults'.losses = 0 => Untouched'
  BY <1>1, <1>2, <1>12, CallForms, MarkdownAssumption DEF Recheck, Continue, Finish, JobOK, Untouched, OfCommit
<1> QED
  BY <1>9, <1>10, <1>11, <1>13, <1>14 DEF WorkspaceInv

\* The selector names a generation that is whole in memory and on the disk.
LEMMA SelectKeeps ==
  ASSUME WorkspaceInv, Select
  PROVE  WorkspaceInv'
<1>1. FilesTyped /\ durable \in Disks /\ WriterTyped /\ told \in Tellings /\ reader \in Readers
        /\ faults \in Faults
  BY TypeParts DEF WorkspaceInv
<1>2. JobOK
  BY DEF WorkspaceInv
<1>3. WriterTyped'
  BY <1>1, WriterMoves DEF Select, Labels
<1>4. FilesTyped'
  BY <1>1, <1>2, CallForms DEF Select, FilesTyped, Frames, JobOK
<1>5. durable' \in Disks
  BY <1>1 DEF Select
<1>6. told' \in Tellings
  BY <1>1, <1>2, CallForms DEF Select, Tellings, JobOK, Frames
<1>7. reader' \in Readers
  BY <1>1 DEF Select, Readers
<1>8. faults' \in Faults
  BY <1>1 DEF Select
<1>9. TypeOK'
  BY <1>3, <1>4, <1>5, <1>6, <1>7, <1>8 DEF TypeOK, FilesTyped, Disks, WriterTyped, Tellings, Readers, Faults
<1>10. JobOK'
  BY <1>1, <1>2, CallForms, MarkdownAssumption DEF Select, Continue, JobOK, Published, Cleaning
<1>12. /\ Survivable' => Survivable /\ MemoryOK
       /\ faults'.stops = 0 => Survivable /\ MemoryOK /\ DiskOK
       /\ faults'.stops + faults'.losses = 0 => Survivable /\ MemoryOK /\ Untouched
  BY <1>1 DEF WorkspaceInv, Survivable, Select, Faults
<1>11. Survivable' => MemoryOK'
  BY <1>1, <1>2, <1>12, CallForms, MarkdownAssumption DEF Select, Continue, MemoryOK, Published, Whole
<1>13. faults'.stops = 0 => DiskOK'
  BY <1>1, <1>2, <1>12, CallForms, MarkdownAssumption DEF Select, Continue, JobOK, MemoryOK, DiskOK, OnDisk,
     Selecting, Published, Whole, Current
<1>14. faults'.stops + faults'.losses = 0 => Untouched'
  BY <1>1, <1>2, <1>12, CallForms, MarkdownAssumption DEF Select, Continue, Untouched
<1> QED
  BY <1>9, <1>10, <1>11, <1>13, <1>14 DEF WorkspaceInv

\* The selection is flushed.
LEMMA FlushSelectedKeeps ==
  ASSUME WorkspaceInv, FlushSelected
  PROVE  WorkspaceInv'
<1>1. FilesTyped /\ durable \in Disks /\ WriterTyped /\ told \in Tellings /\ reader \in Readers
        /\ faults \in Faults
  BY TypeParts DEF WorkspaceInv
<1>2. JobOK
  BY DEF WorkspaceInv
<1>3. WriterTyped'
  BY <1>1, WriterMoves DEF FlushSelected, Labels, Cleaning
<1>4. FilesTyped'
  BY <1>1, <1>2, OwnerFlushed, ParentFlushed DEF FlushSelected, FilesTyped
<1>5. durable' \in Disks
  BY <1>1, OwnerFlushed, ParentFlushed DEF FlushSelected
<1>6. told' \in Tellings
  BY <1>1 DEF FlushSelected
<1>7. reader' \in Readers
  BY <1>1 DEF FlushSelected
<1>8. faults' \in Faults
  BY <1>1 DEF FlushSelected
<1>9. TypeOK'
  BY <1>3, <1>4, <1>5, <1>6, <1>7, <1>8 DEF TypeOK, FilesTyped, Disks, WriterTyped, Tellings, Readers, Faults
<1>10. JobOK'
  BY <1>1, <1>2, OwnerFlushed, ParentFlushed, CallForms, MarkdownAssumption DEF FlushSelected, Continue, JobOK,
     Published, OfCommit, Cleaning
<1>12. /\ Survivable' => Survivable /\ MemoryOK
       /\ faults'.stops = 0 => Survivable /\ MemoryOK /\ DiskOK
       /\ faults'.stops + faults'.losses = 0 => Survivable /\ MemoryOK /\ Untouched
  BY <1>1 DEF WorkspaceInv, Survivable, FlushSelected, Faults
<1>11. Survivable' => MemoryOK'
  BY <1>1, <1>2, <1>12, CallForms, MarkdownAssumption DEF FlushSelected, Continue, JobOK, MemoryOK, Whole
<1>13. faults'.stops = 0 => DiskOK'
  <2> SUFFICES ASSUME faults'.stops = 0 PROVE DiskOK'
    OBVIOUS
  <2>1. DiskOK /\ MemoryOK /\ pc = "flushSelected" /\ UNCHANGED <<selector, gens, dossier, told, job>>
          /\ job \in Calls
        /\ Absent \notin Digests
    BY <1>2, <1>12, MarkdownAssumption DEF FlushSelected, JobOK, Continue
  <2>2. CASE job.kind = "frame.commit"
    <3>1. /\ FlushOwner /\ pc' = "sweep"
      BY <2>2 DEF FlushSelected, Continue
    <3>2. /\ durable'.selector = selector /\ durable'.dossier = durable.dossier /\ durable'.owner = durable.owner
          /\ cleared' = {d \in cleared : gens[d] # {}}
          /\ \A d \in Digests : durable'.gens[d] = IF d \in cleared' THEN durable.gens[d] ELSE gens[d]
      BY <1>1, <3>1, OwnerFlushed
    <3>3. \A d \in {selector', durable'.selector} : d \in Digests => OnDisk(d)'
      BY <2>1, <3>2 DEF MemoryOK, OnDisk, Whole
    <3> QED
      BY <2>1, <2>2, <3>1, <3>2, <3>3 DEF DiskOK, MemoryOK, Published
  <2>3. CASE job.kind # "frame.commit"
    <3>1. /\ FlushParent /\ pc' = "answer"
      BY <2>3 DEF FlushSelected, Continue
    <3>2. /\ cleared' = cleared /\ durable'.selector = durable.selector /\ durable'.gens = durable.gens
          /\ durable'.dossier = (IF job.kind = "case" THEN dossier ELSE durable.dossier)
          /\ durable'.owner = (IF job.kind = "case" THEN durable.owner ELSE TRUE)
      BY <1>1, <3>1, ParentFlushed
    <3>3. job.kind \in {"case", "frame.create"}
      BY <2>1, <2>3, CallForms DEF Kinds
    <3>4. \A d \in {selector', durable'.selector} : d \in Digests => OnDisk(d)'
      BY <2>1, <3>2 DEF DiskOK, OnDisk, Whole
    <3> QED
      BY <2>1, <2>3, <3>2, <3>4 DEF DiskOK, MemoryOK, Selecting
  <2> QED
    BY <2>2, <2>3
<1>14. faults'.stops + faults'.losses = 0 => Untouched'
  BY <1>1, <1>2, <1>12, CallForms, MarkdownAssumption DEF FlushSelected, Continue, Untouched
<1> QED
  BY <1>9, <1>10, <1>11, <1>13, <1>14 DEF WorkspaceInv

\* The call answers that it settled.
LEMMA AnswerKeeps ==
  ASSUME WorkspaceInv, Answer
  PROVE  WorkspaceInv'
<1>1. FilesTyped /\ durable \in Disks /\ WriterTyped /\ told \in Tellings /\ reader \in Readers
        /\ faults \in Faults
  BY TypeParts DEF WorkspaceInv
<1>2. JobOK
  BY DEF WorkspaceInv
<1>3. WriterTyped'
  BY <1>1, WriterMoves DEF Answer, Replies
<1>4. FilesTyped'
  BY <1>1, <1>2 DEF Answer, FilesTyped, files
<1>5. durable' \in Disks
  BY <1>1 DEF Answer, files
<1>6. told' \in Tellings
  <2>1. job.kind # "case" => job.target \in Frames
    BY <1>2, CallForms DEF Answer, JobOK, Kinds, Frames
  <2>2. job.kind = "case" => job.target \in Dossiers
    BY <1>2, CallForms DEF Answer, JobOK
  <2> QED
    BY <1>1, <2>1 DEF Answer, Tellings
<1>7. reader' \in Readers
  BY <1>1 DEF Answer
<1>8. faults' \in Faults
  BY <1>1 DEF Answer
<1>9. TypeOK'
  BY <1>3, <1>4, <1>5, <1>6, <1>7, <1>8 DEF TypeOK, FilesTyped, Disks, WriterTyped, Tellings, Readers, Faults
<1>10. JobOK'
  BY <1>1, <1>2, CallForms, MarkdownAssumption DEF Answer, files, Finish, JobOK, Published, OfCommit, Cleaning
<1>12. /\ Survivable' => Survivable /\ MemoryOK
       /\ faults'.stops = 0 => Survivable /\ MemoryOK /\ DiskOK
       /\ faults'.stops + faults'.losses = 0 => Survivable /\ MemoryOK /\ Untouched
  BY <1>1 DEF WorkspaceInv, Survivable, Answer, Faults
<1>11. Survivable' => MemoryOK'
  BY <1>1, <1>2, <1>12, CallForms, MarkdownAssumption DEF Answer, files, Finish, MemoryOK, Published, Whole
<1>13. faults'.stops = 0 => DiskOK'
  BY <1>1, <1>2, <1>12, CallForms, MarkdownAssumption DEF Answer, files, Finish, JobOK, MemoryOK, DiskOK,
     OnDisk, Selecting, Published, Whole
<1>14. faults'.stops + faults'.losses = 0 => Untouched'
  BY <1>1, <1>2, <1>12, CallForms, MarkdownAssumption DEF Answer, files, Finish, JobOK, Untouched, Cleaning
<1> QED
  BY <1>9, <1>10, <1>11, <1>13, <1>14 DEF WorkspaceInv

\* What was published and not selected is removed.
LEMMA UndoKeeps ==
  ASSUME WorkspaceInv, Undo
  PROVE  WorkspaceInv'
<1>1. FilesTyped /\ durable \in Disks /\ WriterTyped /\ told \in Tellings /\ reader \in Readers
        /\ faults \in Faults
  BY TypeParts DEF WorkspaceInv
<1>2. JobOK
  BY DEF WorkspaceInv
<1>3. WriterTyped'
  <2>1. PICK r : r = reply
    OBVIOUS
  <2>2. r \in Replies
    BY <1>1, <2>1 DEF WriterTyped
  <2>3. Finish(r) \/ (removing' = job.target /\ UNCHANGED <<pc, job, swept, reply>>)
    BY <2>1 DEF Undo, Finish
  <2>4. job.target \in Digests
    BY <1>2, CallForms DEF Undo, JobOK, OfCommit
  <2> QED
    BY <1>1, <2>2, <2>3, <2>4, WriterMoves DEF WriterTyped
<1>4. FilesTyped'
  BY <1>1, <1>2 DEF Undo, FilesTyped
<1>5. durable' \in Disks
  BY <1>1 DEF Undo
<1>6. told' \in Tellings
  BY <1>1 DEF Undo
<1>7. reader' \in Readers
  BY <1>1 DEF Undo
<1>8. faults' \in Faults
  BY <1>1 DEF Undo
<1>9. TypeOK'
  BY <1>3, <1>4, <1>5, <1>6, <1>7, <1>8 DEF TypeOK, FilesTyped, Disks, WriterTyped, Tellings, Readers, Faults
<1>10. JobOK'
  BY <1>1, <1>2, CallForms, MarkdownAssumption DEF Undo, Finish, JobOK, Published, OfCommit, Cleaning
<1>12. /\ Survivable' => Survivable /\ MemoryOK
       /\ faults'.stops = 0 => Survivable /\ MemoryOK /\ DiskOK
       /\ faults'.stops + faults'.losses = 0 => Survivable /\ MemoryOK /\ Untouched
  BY <1>1 DEF WorkspaceInv, Survivable, Undo, Faults
<1>11. Survivable' => MemoryOK'
  BY <1>1, <1>2, <1>12, CallForms, MarkdownAssumption DEF Undo, Finish, MemoryOK, Published, Whole
<1>13. faults'.stops = 0 => DiskOK'
  BY <1>1, <1>2, <1>12, CallForms, MarkdownAssumption DEF Undo, Finish, JobOK, MemoryOK, DiskOK, OnDisk,
     Selecting, Published, Whole
<1>14. faults'.stops + faults'.losses = 0 => Untouched'
  BY <1>1, <1>2, <1>12, CallForms, MarkdownAssumption DEF Undo, Finish, Untouched
<1> QED
  BY <1>9, <1>10, <1>11, <1>13, <1>14 DEF WorkspaceInv

\* A call comes when none runs.
LEMMA InvokeKeeps ==
  ASSUME WorkspaceInv, NEW c \in Calls, Invoke(c)
  PROVE  WorkspaceInv'
<1>1. FilesTyped /\ durable \in Disks /\ WriterTyped /\ told \in Tellings /\ reader \in Readers
        /\ faults \in Faults
  BY TypeParts DEF WorkspaceInv
<1>2. JobOK
  BY DEF WorkspaceInv
<1>3. WriterTyped'
  BY <1>1 DEF Invoke, Labels, Replies, WriterTyped
<1>4. FilesTyped'
  BY <1>1 DEF Invoke, FilesTyped, files
<1>5. durable' \in Disks
  BY <1>1 DEF Invoke, files
<1>6. told' \in Tellings
  BY <1>1 DEF Invoke
<1>7. reader' \in Readers
  BY <1>1 DEF Invoke
<1>8. faults' \in Faults
  BY <1>1 DEF Invoke
<1>9. TypeOK'
  BY <1>3, <1>4, <1>5, <1>6, <1>7, <1>8 DEF TypeOK, FilesTyped, Disks, WriterTyped, Tellings, Readers, Faults
<1>10. JobOK'
  BY <1>1, <1>2, CallForms, MarkdownAssumption DEF Invoke, JobOK, Published, OfCommit, Cleaning
<1>12. /\ Survivable' => Survivable /\ MemoryOK
       /\ faults'.stops = 0 => Survivable /\ MemoryOK /\ DiskOK
       /\ faults'.stops + faults'.losses = 0 => Survivable /\ MemoryOK /\ Untouched
  BY <1>1 DEF WorkspaceInv, Survivable, Invoke, Faults
<1>11. Survivable' => MemoryOK'
  BY <1>1, <1>2, <1>12, CallForms, MarkdownAssumption DEF Invoke, files, MemoryOK, Published, Whole
<1>13. faults'.stops = 0 => DiskOK'
  BY <1>1, <1>2, <1>12, CallForms, MarkdownAssumption DEF Invoke, files, JobOK, MemoryOK, DiskOK, OnDisk,
     Selecting, Published, Whole
<1>14. faults'.stops + faults'.losses = 0 => Untouched'
  BY <1>1, <1>2, <1>12, CallForms, MarkdownAssumption DEF Invoke, files, Untouched
<1> QED
  BY <1>9, <1>10, <1>11, <1>13, <1>14 DEF WorkspaceInv

\* A write or a flush fails, and what was published is undone.
LEMMA FailsKeeps ==
  ASSUME WorkspaceInv, Fails
  PROVE  WorkspaceInv'
<1>1. FilesTyped /\ durable \in Disks /\ WriterTyped /\ told \in Tellings /\ reader \in Readers
        /\ faults \in Faults
  BY TypeParts DEF WorkspaceInv
<1>2. JobOK
  BY DEF WorkspaceInv
<1>3. WriterTyped'
  BY <1>1, WriterMoves DEF Fails, Labels, Replies, WriterTyped
<1>4. FilesTyped'
  BY <1>1 DEF Fails, FilesTyped
<1>5. durable' \in Disks
  BY <1>1 DEF Fails
<1>6. told' \in Tellings
  BY <1>1 DEF Fails
<1>7. reader' \in Readers
  BY <1>1 DEF Fails
<1>8. faults' \in Faults
  BY <1>1, MarkdownAssumption DEF Fails, Faults, Stopped, MayFault
<1>9. TypeOK'
  BY <1>3, <1>4, <1>5, <1>6, <1>7, <1>8 DEF TypeOK, FilesTyped, Disks, WriterTyped, Tellings, Readers, Faults
<1>10. JobOK'
  BY <1>1, <1>2, CallForms, MarkdownAssumption DEF Fails, Finish, JobOK, Published, OfCommit, Cleaning,
     PublishedUnselected
<1>12. /\ Survivable' => Survivable /\ MemoryOK
       /\ faults'.stops = 0 => Survivable /\ MemoryOK /\ DiskOK
       /\ faults'.stops + faults'.losses = 0 => Survivable /\ MemoryOK /\ Untouched
  BY <1>1 DEF WorkspaceInv, Survivable, Fails, Faults, Stopped
<1>11. Survivable' => MemoryOK'
  BY <1>1, <1>2, <1>12, CallForms, MarkdownAssumption DEF Fails, Finish, MemoryOK, Published, Whole
<1>13. faults'.stops = 0 => DiskOK'
  <2>1. faults'.stops = faults.stops + 1 /\ faults.stops \in Nat
    BY <1>1 DEF Fails, Stopped, Faults
  <2> QED
    BY <2>1
<1>14. faults'.stops + faults'.losses = 0 => Untouched'
  <2>1. faults'.stops = faults.stops + 1 /\ faults.stops \in Nat /\ faults'.losses = faults.losses
          /\ faults.losses \in Nat
    BY <1>1 DEF Fails, Stopped, Faults
  <2> QED
    BY <2>1
<1> QED
  BY <1>9, <1>10, <1>11, <1>13, <1>14 DEF WorkspaceInv

\* The writer is killed.
LEMMA KillKeeps ==
  ASSUME WorkspaceInv, Kill
  PROVE  WorkspaceInv'
<1>1. FilesTyped /\ durable \in Disks /\ WriterTyped /\ told \in Tellings /\ reader \in Readers
        /\ faults \in Faults
  BY TypeParts DEF WorkspaceInv
<1>2. JobOK
  BY DEF WorkspaceInv
<1>3. WriterTyped'
  BY <1>1, WriterMoves DEF Kill, Replies
<1>4. FilesTyped'
  BY <1>1, <1>2 DEF Kill, FilesTyped, files
<1>5. durable' \in Disks
  BY <1>1 DEF Kill, files
<1>6. told' \in Tellings
  BY <1>1 DEF Kill
<1>7. reader' \in Readers
  BY <1>1 DEF Kill
<1>8. faults' \in Faults
  BY <1>1, MarkdownAssumption DEF Kill, Faults, Stopped, MayFault
<1>9. TypeOK'
  BY <1>3, <1>4, <1>5, <1>6, <1>7, <1>8 DEF TypeOK, FilesTyped, Disks, WriterTyped, Tellings, Readers, Faults
<1>10. JobOK'
  BY <1>1, <1>2, CallForms, MarkdownAssumption DEF Kill, files, Finish, JobOK, Published, OfCommit, Cleaning
<1>12. /\ Survivable' => Survivable /\ MemoryOK
       /\ faults'.stops = 0 => Survivable /\ MemoryOK /\ DiskOK
       /\ faults'.stops + faults'.losses = 0 => Survivable /\ MemoryOK /\ Untouched
  BY <1>1 DEF WorkspaceInv, Survivable, Kill, Faults, Stopped
<1>11. Survivable' => MemoryOK'
  BY <1>1, <1>2, <1>12, CallForms, MarkdownAssumption DEF Kill, files, Finish, MemoryOK, Published, Whole
<1>13. faults'.stops = 0 => DiskOK'
  <2>1. faults'.stops = faults.stops + 1 /\ faults.stops \in Nat
    BY <1>1 DEF Kill, Stopped, Faults
  <2> QED
    BY <2>1
<1>14. faults'.stops + faults'.losses = 0 => Untouched'
  <2>1. faults'.stops = faults.stops + 1 /\ faults.stops \in Nat /\ faults'.losses = faults.losses
          /\ faults.losses \in Nat
    BY <1>1 DEF Kill, Stopped, Faults
  <2> QED
    BY <2>1
<1> QED
  BY <1>9, <1>10, <1>11, <1>13, <1>14 DEF WorkspaceInv

\* What is selected after a power loss is whole, whichever changes it undid.
LEMMA PowerLossKeeps ==
  ASSUME WorkspaceInv, PowerLoss
  PROVE  WorkspaceInv'
<1>1. FilesTyped /\ durable \in Disks /\ WriterTyped /\ told \in Tellings /\ reader \in Readers
        /\ faults \in Faults
  BY TypeParts DEF WorkspaceInv
<1>2. JobOK
  BY DEF WorkspaceInv
<1>3. WriterTyped'
  BY <1>1, WriterMoves DEF PowerLoss, Replies
<1>4. FilesTyped'
  <2>1. selector' \in Frames /\ gens' \in [Digests -> SUBSET Parts]
    BY <1>1 DEF PowerLoss, FilesTyped, Disks, Frames
  <2>2. dossier' \in Dossiers \cup {Absent} /\ debris' \subseteq Kinds \cup {"selector"}
          /\ cleared' \subseteq Digests
    BY <1>1 DEF PowerLoss, FilesTyped, Disks
  <2> QED
    BY <2>1, <2>2 DEF FilesTyped
<1>5. durable' \in Disks
  BY <1>1 DEF PowerLoss, Disks, FilesTyped, Frames
<1>6. told' \in Tellings
  BY <1>1 DEF PowerLoss
<1>7. reader' \in Readers
  BY DEF PowerLoss, Readers, Resting
<1>8. faults' \in Faults
  BY <1>1, MarkdownAssumption DEF PowerLoss, Faults, MayFault
<1>9. TypeOK'
  BY <1>3, <1>4, <1>5, <1>6, <1>7, <1>8 DEF TypeOK, FilesTyped, Disks, WriterTyped, Tellings, Readers, Faults
<1>10. JobOK'
  BY <1>1, <1>2, CallForms, MarkdownAssumption DEF PowerLoss, Finish, JobOK, Published, OfCommit, Cleaning
<1>12. /\ Survivable' => Survivable /\ MemoryOK
       /\ faults'.stops = 0 => Survivable /\ MemoryOK /\ DiskOK
       /\ faults'.stops + faults'.losses = 0 => Survivable /\ MemoryOK /\ Untouched
  BY <1>1 DEF WorkspaceInv, Survivable, PowerLoss, Faults
<1>11. Survivable' => MemoryOK'
  <2> SUFFICES ASSUME Survivable' PROVE MemoryOK'
    OBVIOUS
  <2>1. faults'.losses = faults.losses + 1 /\ faults.losses \in Nat /\ faults'.stops = faults.stops
          /\ faults.stops \in Nat
    BY <1>1 DEF PowerLoss, Faults
  <2>2. DiskOK /\ MemoryOK
    BY <1>12, <2>1 DEF Survivable
  <2>3. /\ pc' = "idle" /\ reader' = Resting /\ told' = told /\ dossier' \in {dossier, durable.dossier}
        /\ \/ /\ selector' \in {selector, durable.selector} /\ gens' \in [Digests -> SUBSET Parts]
              /\ \A d \in Digests :
                   IF d \in cleared THEN gens[d] \subseteq gens'[d] ELSE gens'[d] \in {gens[d], durable.gens[d]}
           \/ ~durable.owner /\ selector' = Absent
    BY DEF PowerLoss, Finish
  <2>4. selector' \in Digests => gens'[selector'] = Parts
    <3> SUFFICES ASSUME selector' \in Digests PROVE gens'[selector'] = Parts
      OBVIOUS
    <3>0. /\ selector' \in {selector, durable.selector} /\ gens' \in [Digests -> SUBSET Parts]
          /\ \A d \in Digests :
               IF d \in cleared THEN gens[d] \subseteq gens'[d] ELSE gens'[d] \in {gens[d], durable.gens[d]}
      BY <2>3, MarkdownAssumption
    <3>1. PICK s \in Digests : s = selector'
      OBVIOUS
    <3>2. OnDisk(s)
      BY <2>2, <3>0, <3>1 DEF DiskOK
    <3>3. gens'[s] \subseteq Parts
      BY <3>0
    <3>4. CASE s \in cleared
      <4>1. gens[s] \subseteq gens'[s] /\ gens[s] = Parts
        BY <3>0, <3>2 DEF OnDisk, Whole
      <4> QED
        BY <3>1, <3>3, <4>1
    <3>5. CASE s \notin cleared
      <4>1. gens'[s] \in {gens[s], durable.gens[s]} /\ gens[s] = Parts /\ durable.gens[s] = Parts
        BY <3>0, <3>2 DEF OnDisk, Whole
      <4> QED
        BY <3>1, <4>1
    <3> QED
      BY <3>4, <3>5
  <2>5. selector' \in told.frame /\ dossier' \in told.dossier
    BY <2>2, <2>3 DEF DiskOK, MemoryOK
  <2> QED
    BY <2>3, <2>4, <2>5 DEF MemoryOK, Whole, Resting, Published
<1>13. faults'.stops = 0 => DiskOK'
  <2> SUFFICES ASSUME faults'.stops = 0 PROVE DiskOK'
    OBVIOUS
  <2>1. faults'.losses = faults.losses + 1 /\ faults.losses \in Nat /\ faults'.stops = faults.stops
          /\ faults.stops \in Nat
    BY <1>1 DEF PowerLoss, Faults
  <2>2. Survivable' /\ DiskOK
    BY <1>12, <2>1 DEF Survivable
  <2>3. MemoryOK'
    BY <1>11, <2>2
  <2>4. /\ pc' = "idle" /\ told' = told /\ selector' \in {selector, durable.selector, Absent}
        /\ selector' = Absent => selector = Absent \/ durable.selector = Absent \/ ~durable.owner
        /\ durable'.selector = selector' /\ durable'.gens = gens' /\ durable'.dossier = dossier'
        /\ durable'.owner = (selector' # Absent)
    BY DEF PowerLoss, Finish
  <2>5. selector' = Absent => Absent \in told.frame
    BY <1>12, <2>4 DEF DiskOK, MemoryOK
  <2> QED
    BY <2>3, <2>4 DEF DiskOK, MemoryOK, OnDisk, Whole
<1>14. faults'.stops + faults'.losses = 0 => Untouched'
  <2>1. faults'.losses = faults.losses + 1 /\ faults.losses \in Nat /\ faults'.stops = faults.stops
          /\ faults.stops \in Nat
    BY <1>1 DEF PowerLoss, Faults
  <2> QED
    BY <2>1
<1> QED
  BY <1>9, <1>10, <1>11, <1>13, <1>14 DEF WorkspaceInv

\* A dossier is edited in place.
LEMMA EditDossierKeeps ==
  ASSUME WorkspaceInv, NEW d \in Dossiers, EditDossier(d)
  PROVE  WorkspaceInv'
<1>1. FilesTyped /\ durable \in Disks /\ WriterTyped /\ told \in Tellings /\ reader \in Readers
        /\ faults \in Faults
  BY TypeParts DEF WorkspaceInv
<1>2. JobOK
  BY DEF WorkspaceInv
<1>3. WriterTyped'
  BY <1>1 DEF EditDossier, writer, WriterTyped
<1>4. FilesTyped'
  BY <1>1 DEF EditDossier, FilesTyped
<1>5. durable' \in Disks
  BY <1>1 DEF EditDossier, Disks
<1>6. told' \in Tellings
  BY <1>1 DEF EditDossier, Tellings
<1>7. reader' \in Readers
  BY <1>1 DEF EditDossier
<1>8. faults' \in Faults
  BY <1>1 DEF EditDossier
<1>9. TypeOK'
  BY <1>3, <1>4, <1>5, <1>6, <1>7, <1>8 DEF TypeOK, FilesTyped, Disks, WriterTyped, Tellings, Readers, Faults
<1>10. JobOK'
  BY <1>1, <1>2, CallForms, MarkdownAssumption DEF EditDossier, writer, JobOK
<1>12. /\ Survivable' => Survivable /\ MemoryOK
       /\ faults'.stops = 0 => Survivable /\ MemoryOK /\ DiskOK
       /\ faults'.stops + faults'.losses = 0 => Survivable /\ MemoryOK /\ Untouched
  BY <1>1 DEF WorkspaceInv, Survivable, EditDossier, Faults
<1>11. Survivable' => MemoryOK'
  BY <1>1, <1>2, <1>12, CallForms, MarkdownAssumption DEF EditDossier, writer, MemoryOK, Whole
<1>13. faults'.stops = 0 => DiskOK'
  BY <1>1, <1>2, <1>12, CallForms, MarkdownAssumption DEF EditDossier, writer, JobOK, MemoryOK, DiskOK, OnDisk,
     Selecting, Whole
<1>14. faults'.stops + faults'.losses = 0 => Untouched'
  BY <1>1, <1>2, <1>12, CallForms, MarkdownAssumption DEF EditDossier, writer, Untouched
<1> QED
  BY <1>9, <1>10, <1>11, <1>13, <1>14 DEF WorkspaceInv

\* The documents of a legacy Frame are edited in place.
LEMMA EditLegacyKeeps ==
  ASSUME WorkspaceInv, NEW d \in Legacies, EditLegacy(d)
  PROVE  WorkspaceInv'
<1>1. FilesTyped /\ durable \in Disks /\ WriterTyped /\ told \in Tellings /\ reader \in Readers
        /\ faults \in Faults
  BY TypeParts DEF WorkspaceInv
<1>2. JobOK
  BY DEF WorkspaceInv
<1>3. WriterTyped'
  BY <1>1 DEF EditLegacy, writer, WriterTyped
<1>4. FilesTyped'
  BY <1>1 DEF EditLegacy, FilesTyped, Frames
<1>5. durable' \in Disks
  BY <1>1 DEF EditLegacy, Disks, Frames
<1>6. told' \in Tellings
  BY <1>1 DEF EditLegacy, Tellings, Frames
<1>7. reader' \in Readers
  BY <1>1 DEF EditLegacy
<1>8. faults' \in Faults
  BY <1>1 DEF EditLegacy
<1>9. TypeOK'
  BY <1>3, <1>4, <1>5, <1>6, <1>7, <1>8 DEF TypeOK, FilesTyped, Disks, WriterTyped, Tellings, Readers, Faults
<1>10. JobOK'
  BY <1>1, <1>2, CallForms, MarkdownAssumption DEF EditLegacy, writer, JobOK, Published, WriterTyped
<1>12. /\ Survivable' => Survivable /\ MemoryOK
       /\ faults'.stops = 0 => Survivable /\ MemoryOK /\ DiskOK
       /\ faults'.stops + faults'.losses = 0 => Survivable /\ MemoryOK /\ Untouched
  BY <1>1 DEF WorkspaceInv, Survivable, EditLegacy, Faults
<1>11. Survivable' => MemoryOK'
  BY <1>1, <1>2, <1>12, CallForms, MarkdownAssumption DEF EditLegacy, writer, JobOK, MemoryOK, Whole, Kinds
<1>13. faults'.stops = 0 => DiskOK'
  BY <1>1, <1>2, <1>12, CallForms, MarkdownAssumption DEF EditLegacy, writer, JobOK, MemoryOK, DiskOK, OnDisk,
     Whole
<1>14. faults'.stops + faults'.losses = 0 => Untouched'
  BY <1>1, <1>2, <1>12, CallForms, MarkdownAssumption DEF EditLegacy, writer, Untouched
<1> QED
  BY <1>9, <1>10, <1>11, <1>13, <1>14 DEF WorkspaceInv

\* A reader reads the selector.
LEMMA ReadSelectorKeeps ==
  ASSUME WorkspaceInv, ReadSelector
  PROVE  WorkspaceInv'
<1>1. FilesTyped /\ durable \in Disks /\ WriterTyped /\ told \in Tellings /\ reader \in Readers
        /\ faults \in Faults
  BY TypeParts DEF WorkspaceInv
<1>2. JobOK
  BY DEF WorkspaceInv
<1>3. WriterTyped'
  BY <1>1 DEF ReadSelector, writer, WriterTyped
<1>4. FilesTyped'
  BY <1>1 DEF ReadSelector, FilesTyped, files
<1>5. durable' \in Disks
  BY <1>1 DEF ReadSelector, files
<1>6. told' \in Tellings
  BY <1>1 DEF ReadSelector
<1>7. reader' \in Readers
  BY DEF ReadSelector, Readers
<1>8. faults' \in Faults
  BY <1>1 DEF ReadSelector
<1>9. TypeOK'
  BY <1>3, <1>4, <1>5, <1>6, <1>7, <1>8 DEF TypeOK, FilesTyped, Disks, WriterTyped, Tellings, Readers, Faults
<1>10. JobOK'
  BY <1>1, <1>2, CallForms, MarkdownAssumption DEF ReadSelector, files, writer, JobOK, Current
<1>12. /\ Survivable' => Survivable /\ MemoryOK
       /\ faults'.stops = 0 => Survivable /\ MemoryOK /\ DiskOK
       /\ faults'.stops + faults'.losses = 0 => Survivable /\ MemoryOK /\ Untouched
  BY <1>1 DEF WorkspaceInv, Survivable, ReadSelector, Faults
<1>11. Survivable' => MemoryOK'
  BY <1>1, <1>2, <1>12, CallForms, MarkdownAssumption DEF ReadSelector, files, writer, MemoryOK, Whole
<1>13. faults'.stops = 0 => DiskOK'
  BY <1>1, <1>2, <1>12, CallForms, MarkdownAssumption DEF ReadSelector, files, writer, JobOK, MemoryOK, DiskOK,
     OnDisk, Selecting, Whole
<1>14. faults'.stops + faults'.losses = 0 => Untouched'
  BY <1>1, <1>2, <1>12, CallForms, MarkdownAssumption DEF ReadSelector, files, writer, Untouched
<1> QED
  BY <1>9, <1>10, <1>11, <1>13, <1>14 DEF WorkspaceInv

\* A reader reads a part of the generation that it found selected.
LEMMA ReadPartKeeps ==
  ASSUME WorkspaceInv, NEW p \in Parts, ReadPart(p)
  PROVE  WorkspaceInv'
<1>1. FilesTyped /\ durable \in Disks /\ WriterTyped /\ told \in Tellings /\ reader \in Readers
        /\ faults \in Faults
  BY TypeParts DEF WorkspaceInv
<1>2. JobOK
  BY DEF WorkspaceInv
<1>3. WriterTyped'
  BY <1>1 DEF ReadPart, writer, WriterTyped
<1>4. FilesTyped'
  BY <1>1 DEF ReadPart, FilesTyped, files
<1>5. durable' \in Disks
  BY <1>1 DEF ReadPart, files
<1>6. told' \in Tellings
  BY <1>1 DEF ReadPart
<1>7. reader' \in Readers
  BY <1>1 DEF ReadPart, Readers
<1>8. faults' \in Faults
  BY <1>1 DEF ReadPart
<1>9. TypeOK'
  BY <1>3, <1>4, <1>5, <1>6, <1>7, <1>8 DEF TypeOK, FilesTyped, Disks, WriterTyped, Tellings, Readers, Faults
<1>10. JobOK'
  BY <1>1, <1>2, CallForms, MarkdownAssumption DEF ReadPart, files, writer, JobOK, Current
<1>12. /\ Survivable' => Survivable /\ MemoryOK
       /\ faults'.stops = 0 => Survivable /\ MemoryOK /\ DiskOK
       /\ faults'.stops + faults'.losses = 0 => Survivable /\ MemoryOK /\ Untouched
  BY <1>1 DEF WorkspaceInv, Survivable, ReadPart, Faults
<1>11. Survivable' => MemoryOK'
  BY <1>1, <1>2, <1>12, CallForms, MarkdownAssumption DEF ReadPart, files, writer, MemoryOK, Whole
<1>13. faults'.stops = 0 => DiskOK'
  BY <1>1, <1>2, <1>12, CallForms, MarkdownAssumption DEF ReadPart, files, writer, JobOK, MemoryOK, DiskOK,
     OnDisk, Selecting, Whole
<1>14. faults'.stops + faults'.losses = 0 => Untouched'
  BY <1>1, <1>2, <1>12, CallForms, MarkdownAssumption DEF ReadPart, files, writer, Untouched
<1> QED
  BY <1>9, <1>10, <1>11, <1>13, <1>14 DEF WorkspaceInv

-------------------------------------------------------------------------------
\* The specification

\* At first there is no generation, nothing is under way and the disk has what memory has.
LEMMA Begins ==
  ASSUME Init
  PROVE  WorkspaceInv
<1>1. TypeOK
  <2>1. FilesTyped
    BY DEF Init, FilesTyped, Frames
  <2>2. durable \in Disks
    BY <2>1 DEF Init, Disks, FilesTyped
  <2>3. WriterTyped
    BY DEF Init, WriterTyped, Labels, Replies
  <2>4. told \in Tellings
    BY <2>1 DEF Init, Tellings, FilesTyped
  <2>5. reader \in Readers /\ faults \in Faults
    BY MarkdownAssumption DEF Init, Readers, Resting, Faults
  <2> QED
    BY <2>1, <2>2, <2>3, <2>4, <2>5, TypeParts
<1>2. JobOK
  BY DEF Init, JobOK, Published, OfCommit, Cleaning
<1>3. selector \notin Digests /\ gens = [d \in Digests |-> {}] /\ pc = "idle" /\ reply = "none"
  BY MarkdownAssumption DEF Init
<1>4. MemoryOK
  BY <1>3 DEF Init, MemoryOK, Published, Resting
<1>5. DiskOK
  BY <1>3 DEF Init, DiskOK, Published
<1>6. Untouched
  BY <1>3 DEF Untouched
<1> QED
  BY <1>1, <1>2, <1>4, <1>5, <1>6 DEF WorkspaceInv

\* A step that changes nothing keeps it.
LEMMA StaysSo ==
  ASSUME WorkspaceInv, UNCHANGED vars
  PROVE  WorkspaceInv'
<1>1. TypeOK'
  BY DEF WorkspaceInv, TypeOK, vars, files, writer
<1>2. JobOK'
  BY DEF WorkspaceInv, JobOK, vars, files, writer, Current
<1>3. MemoryOK => MemoryOK'
  BY DEF MemoryOK, Whole, vars, files, writer
<1>4. DiskOK => DiskOK'
  BY DEF DiskOK, OnDisk, Whole, Selecting, vars, files, writer
<1>5. Untouched => Untouched'
  BY DEF Untouched, vars, files, writer
<1>6. faults' = faults
  BY DEF vars
<1> QED
  BY <1>1, <1>2, <1>3, <1>4, <1>5, <1>6 DEF WorkspaceInv, Survivable

\* Every step of a call keeps it.
LEMMA WriterKeeps ==
  ASSUME WorkspaceInv, WriterStep
  PROVE  WorkspaceInv'
  BY LoadKeeps, StageKeeps, SelectCaseKeeps, SelectCreatedKeeps, LoadCommitKeeps, BeginRemovalKeeps,
     RemovePartKeeps, EndCleanupKeeps, CompareKeeps, PublishKeeps, FlushPublishedKeeps,
     StageSelectorKeeps, RecheckKeeps, SelectKeeps, FlushSelectedKeeps, AnswerKeeps, UndoKeeps
  DEF WriterStep

\* So does every step of the system.
LEMMA StepKeeps ==
  ASSUME WorkspaceInv, Next
  PROVE  WorkspaceInv'
<1>1. CASE WriterStep
  BY <1>1, WriterKeeps
<1>2. CASE \E call \in Calls : Invoke(call)
  BY <1>2, InvokeKeeps
<1>3. CASE Fails
  BY <1>3, FailsKeeps
<1>4. CASE Kill
  BY <1>4, KillKeeps
<1>5. CASE PowerLoss
  BY <1>5, PowerLossKeeps
<1>6. CASE \E d \in Dossiers : EditDossier(d)
  BY <1>6, EditDossierKeeps
<1>7. CASE \E d \in Legacies : EditLegacy(d)
  BY <1>7, EditLegacyKeeps
<1>8. CASE ReadSelector
  BY <1>8, ReadSelectorKeeps
<1>9. CASE \E p \in Parts : ReadPart(p)
  BY <1>9, ReadPartKeeps
<1> QED
  BY <1>1, <1>2, <1>3, <1>4, <1>5, <1>6, <1>7, <1>8, <1>9 DEF Next

\* The invariant that the theorems below follow from
LEMMA WorkspaceInvariant == Spec => []WorkspaceInv
<1>1. Init => WorkspaceInv
  BY Begins
<1>2. WorkspaceInv /\ [Next]_vars => WorkspaceInv'
  BY StepKeeps, StaysSo
<1> QED
  BY <1>1, <1>2, PTL DEF Spec

\* Files, disk, writer and reader always have their types: a call is one of those that
\* the workspace offers, wherever one was cut short.
THEOREM TypeCorrect == Spec => []TypeOK
<1>1. WorkspaceInv => TypeOK
  BY DEF WorkspaceInv
<1> QED
  BY <1>1, WorkspaceInvariant, PTL

\* The generation that a selector names is complete, whichever step of a cleanup, a
\* publication or a selection a kill, a failed flush or a power loss came after
\* (commitFileAuthorityFrame, cleanupFrameDebris).
THEOREM SelectionStaysWhole == Spec => []SelectionIsWhole
<1>1. WorkspaceInv => SelectionIsWhole
  BY DEF WorkspaceInv, MemoryOK, SelectionIsWhole
<1> QED
  BY <1>1, WorkspaceInvariant, PTL

\* A settled Frame or Case is not lost: what is selected was settled or edited last, or was
\* selected after that (createFileAuthorityCase, commitFileAuthorityFrame).
THEOREM SettledStays == Spec => []SettledIsKept
<1>1. WorkspaceInv => SettledIsKept
  BY DEF WorkspaceInv, MemoryOK, SettledIsKept
<1> QED
  BY <1>1, WorkspaceInvariant, PTL

\* Only a reader whose generation another commit replaced finds it incomplete, and before
\* the first fault no commit finds its name taken (cleanupFrameDebris and the finally clause).
THEOREM RemovalsStayHarmless == Spec => []RemovalsAreHarmless
<1>1. TypeOK => faults.stops \in Nat /\ faults.losses \in Nat
  BY MarkdownAssumption DEF TypeOK
<1>2. WorkspaceInv => RefusedReadersWereOvertaken
  BY DEF WorkspaceInv, MemoryOK, RefusedReadersWereOvertaken
<1>3. WorkspaceInv => NamesAreFree
  BY <1>1 DEF WorkspaceInv, Untouched, NamesAreFree
<1>4. WorkspaceInv => RemovalsAreHarmless
  BY <1>2, <1>3 DEF RemovalsAreHarmless
<1> QED
  BY <1>4, WorkspaceInvariant, PTL
===============================================================================
