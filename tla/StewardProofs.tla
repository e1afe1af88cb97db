------------------------------ MODULE StewardProofs ------------------------------
(***************************************************************************)
(* Proofs about the Steward.                                               *)
(*                                                                         *)
(* StewardCustody, for any clients, Spaces, keys, contents and plans: the  *)
(* type invariant, one Matter per Intake, that captured content lasts,     *)
(* that Questions follow their owner, that a decision is about the custody *)
(* that was seen and that a baseline never falls behind the one it         *)
(* replaces.  The last two rest on how the store evolves: a Space or a     *)
(* Matter that changes has a later revision, so what is at the revision a  *)
(* client saw is what the client saw.                                      *)
(*                                                                         *)
(* StewardStore does not share its state: it is an instance, and what its  *)
(* constants must be is a hypothesis of its theorems.  No change is lost   *)
(* as long as nobody comes upon the lock of a dead holder, since then only *)
(* the holder of the lock has a draft, of the file as it is.               *)
(***************************************************************************)
EXTENDS StewardCustody, TLAPS

-------------------------------------------------------------------------------
\* Types

SawType == [directory: Nat, spaces: [Spaces -> Space],
            matters: [Clients -> Matter \cup {NoMatter}], acknowledged: [Scopes -> Nat]]

Pcs == {"look", "compose", "reobserve", "submit", "project", "act", "done"}

\* A custody read from a well-typed store is well typed.
LEMMA CustodyType == ASSUME TypeOK PROVE Custody \in SawType
  BY DEF TypeOK, Custody, SawType

\* A later revision of a Space is a Space.
LEMMA BumpSpace ==
  ASSUME NEW r \in Space
  PROVE  /\ Bump(r) \in Space
         /\ \A l \in {"absent", "active", "retired"} : [Bump(r) EXCEPT !.lifecycle = l] \in Space
         /\ \A n \in Namespaces, a \in Reach : [Bump(r) EXCEPT !.associations[n] = a] \in Space
<1>1. Bump(r) \in Space
  BY DEF Space, Bump
<1>2. \A l \in {"absent", "active", "retired"} : [Bump(r) EXCEPT !.lifecycle = l] \in Space
  BY <1>1 DEF Space
<1>3. ASSUME NEW b \in Space, NEW n \in Namespaces, NEW a \in Reach
      PROVE  [b EXCEPT !.associations[n] = a] \in Space
  <2>1. [b.associations EXCEPT ![n] = a] \in [Namespaces -> Reach]
    BY DEF Space
  <2>2. [b EXCEPT !.associations = [b.associations EXCEPT ![n] = a]] \in Space
    BY <2>1 DEF Space
  <2> QED
    BY <2>2
<1> QED
  BY <1>1, <1>2, <1>3

\* A later revision of a Matter is a Matter.
LEMMA BumpMatter ==
  ASSUME NEW r \in Matter
  PROVE  Bump(r) \in Matter
  BY DEF Matter, Bump

\* A new Matter is a Matter, and different from none.
LEMMA FreshType ==
  ASSUME NEW k \in Keys, NEW s \in Spaces
  PROVE  FreshMatter(k, s) \in Matter
  BY DEF FreshMatter, Matter

\* The view of a well-typed store is a view.
LEMMA ViewType ==
  ASSUME TypeOK, NEW x \in Scopes, x # Global => x \in Spaces, NEW o \in Nat
  PROVE  View(Custody, x, o) \in Views
<1>1. \A s \in Represented(Custody, x) : s \in Spaces
  BY DEF Represented
<1>2. \A s \in Spaces : Manifest(Custody, s) \in Manifests
  <2> SUFFICES ASSUME NEW s \in Spaces PROVE Manifest(Custody, s) \in Manifests
    OBVIOUS
  <2>1. \A m \in Shown(Custody, s) : <<m, Custody.matters[m]>> \in Clients \X Matter
    <3>1. Custody.matters = matters
      BY DEF Custody
    <3>2. \A m \in Shown(Custody, s) : m \in Clients /\ matters[m] \in Matter
      BY <3>1 DEF Shown, TypeOK
    <3> QED
      BY <3>1, <3>2
  <2>2. {<<m, Custody.matters[m]>> : m \in Shown(Custody, s)} \in SUBSET (Clients \X Matter)
    BY <2>1
  <2>3. Custody.spaces[s] \in Space
    BY DEF Custody, TypeOK
  <2> QED
    BY <2>2, <2>3 DEF Manifest, Manifests
<1>3. {Manifest(Custody, s) : s \in Represented(Custody, x)} \in SUBSET Manifests
  BY <1>1, <1>2
<1> QED
  BY <1>3 DEF View, Views, Custody, TypeOK

\* The store that there is at first is well typed.
LEMMA TypeInit == Init => TypeOK
<1> SUFFICES ASSUME Init PROVE TypeOK
  OBVIOUS
<1>1. spaces \in [Spaces -> Space]
  BY DEF Init, Space, Reach
<1>2. baselines \in [Scopes -> [revision: Nat, view: Views]]
  BY DEF Init, Views, NoView
<1>3. task \in [Clients -> Task] /\ \A c \in Clients : task[c] \in Plan[c]
  <2>1. \A c \in Clients : Plan[c] \subseteq Task
    BY CustodyAssumption
  <2>2. task \in [Clients -> UNION {Plan[c] : c \in Clients}] /\ \A c \in Clients : task[c] \in Plan[c]
    BY DEF Init
  <2> QED
    BY <2>1, <2>2
<1>4. /\ directory \in Nat /\ intakes \in [Keys -> Contents \cup {NoIntake}]
      /\ matters \in [Clients -> Matter \cup {NoMatter}]
  BY DEF Init
<1>5. saw \in [Clients -> SawType]
  <2>1. Custody \in SawType
    BY <1>1, <1>2, <1>4 DEF Custody, SawType
  <2> QED
    BY <2>1 DEF Init
<1> QED
  BY <1>1, <1>2, <1>3, <1>4, <1>5 DEF Init, TypeOK, SawType

\* The pc and the answers of a client that finishes are well typed.
LEMMA FinishType ==
  ASSUME TypeOK, NEW c \in Clients, NEW w \in {"nothing", "changed", "replayed", "refused"},
         Finish(c, w)
  PROVE  pc' \in [Clients -> Pcs] /\ told' \in [Clients -> {"nothing", "changed", "replayed", "refused"}]
  BY DEF Finish, Goto, TypeOK, Pcs

\* What a client that finishes leaves alone
Settled == UNCHANGED <<owner, task, subject, saw, observed>>

\* A transaction keeps the types when it keeps those of the store.
LEMMA TransactionType ==
  ASSUME TypeOK, NEW c \in Clients, NEW w \in {"changed", "replayed", "refused"}, Finish(c, w),
         Settled, directory' \in Nat, spaces' \in [Spaces -> Space],
         intakes' \in [Keys -> Contents \cup {NoIntake}],
         matters' \in [Clients -> Matter \cup {NoMatter}],
         baselines' \in [Scopes -> [revision: Nat, view: Views]]
  PROVE  TypeOK'
<1>1. pc' \in [Clients -> Pcs] /\ told' \in [Clients -> {"nothing", "changed", "replayed", "refused"}]
  BY FinishType
<1> QED
  BY <1>1 DEF TypeOK, Settled, owner, Pcs

\* A step of a client that leaves the store alone, and is not its last
Moves(c) == ObserveOwner(c) \/ Look(c) \/ SubmitAnswer(c) \/ ProjectQuestion(c) \/ Reobserve(c)

\* The steps before the transaction keep the types.
LEMMA TypeMoves ==
  ASSUME TypeOK, NEW c \in Clients, Moves(c)
  PROVE  TypeOK'
<1> USE DEF Goto, store, owner
<1>1. CASE ObserveOwner(c)
  BY <1>1 DEF ObserveOwner, TypeOK
<1>2. CASE Look(c)
  <2>1. Custody \in SawType
    BY CustodyType
  <2>2. saw' \in [Clients -> SawType]
    BY <2>1, <1>2 DEF Look, TypeOK, SawType
  <2>3. subject' \in [Clients -> Clients]
    BY <1>2 DEF Look, TypeOK
  <2>4. AfterLook(task[c].kind) \in Pcs
    BY DEF AfterLook, Pcs
  <2>5. pc' \in [Clients -> Pcs]
    BY <1>2, <2>4 DEF Look, TypeOK, Pcs
  <2> QED
    BY <1>2, <2>2, <2>3, <2>5 DEF Look, TypeOK, SawType, Pcs
<1>3. CASE SubmitAnswer(c)
  <2>1. task[c].content \in Contents /\ subject[c] \in Clients
    BY DEF TypeOK, Task
  <2>2. accepted' \in [Clients -> Contents \cup {NoAnswer}]
    BY <1>3, <2>1 DEF SubmitAnswer, TypeOK
  <2>3. /\ pc' \in [Clients -> Pcs]
        /\ told' \in [Clients -> {"nothing", "changed", "replayed", "refused"}]
    BY <1>3, ZenonT(60) DEF SubmitAnswer, Finish, TypeOK, Pcs
  <2> QED
    BY <1>3, <2>2, <2>3 DEF SubmitAnswer, TypeOK, Pcs
<1>4. CASE ProjectQuestion(c)
  BY <1>4 DEF ProjectQuestion, TypeOK
<1>5. CASE Reobserve(c)
  BY <1>5 DEF Reobserve, TypeOK
<1> QED
  BY <1>1, <1>2, <1>3, <1>4, <1>5 DEF Moves

\* What the transactions need to know of the client that runs one
LEMMA TaskFacts ==
  ASSUME TypeOK, NEW c \in Clients
  PROVE  /\ task[c] \in Task /\ task[c].intake \in Keys /\ task[c].content \in Contents
         /\ task[c].space \in Scopes /\ subject[c] \in Clients
         /\ task[c].kind \in {"create", "retire", "associate", "dissociate", "place"}
              => task[c].space \in Spaces
         /\ task[c].space # Global => task[c].space \in Spaces
<1>1. task[c] \in Task /\ task[c] \in Plan[c] /\ subject[c] \in Clients
  BY DEF TypeOK
<1> QED
  BY <1>1, CustodyAssumption DEF Task, Scopes

\* Touching a Space keeps the Spaces well typed.
LEMMA TouchType ==
  ASSUME TypeOK, NEW s \in Spaces, Touch(s)
  PROVE  spaces' \in [Spaces -> Space]
<1>1. Bump(spaces[s]) \in Space
  BY BumpSpace DEF TypeOK
<1> QED
  BY <1>1 DEF Touch, TypeOK

\* Making a Matter keeps the store well typed.
LEMMA NewMatterType ==
  ASSUME TypeOK, NEW c \in Clients, NEW k \in Keys, NEW s \in Spaces, NewMatter(c, k, s)
  PROVE  /\ spaces' \in [Spaces -> Space]
         /\ matters' \in [Clients -> Matter \cup {NoMatter}]
<1>1. FreshMatter(k, s) \in Matter
  BY FreshType
<1> QED
  BY <1>1, TouchType DEF NewMatter, TypeOK

\* A Matter that is changed is there, since its revision is a number the client saw.
Exists(c) == matters[subject[c]] \in Matter

\* Changing a Matter that there is keeps the types.
LEMMA ChangeMatterType ==
  ASSUME TypeOK, NEW c \in Clients, Exists(c), NEW m \in Matter, ChangeMatter(c, m)
  PROVE  TypeOK'
<1>1. subject[c] \in Clients
  BY TaskFacts
<1>2. Bump(m) \in Matter /\ matters[subject[c]].home \in Spaces
  BY BumpMatter DEF Exists, Matter
<1>3. spaces' \in [Spaces -> Space]
  BY <1>2, TouchType DEF ChangeMatter
<1>4. matters' \in [Clients -> Matter \cup {NoMatter}]
  BY <1>1, <1>2 DEF ChangeMatter, TypeOK
<1>5. Finish(c, "changed") /\ Settled /\ UNCHANGED <<directory, intakes, baselines>>
  BY DEF ChangeMatter, Done, Settled
<1> QED
  BY <1>3, <1>4, <1>5, TransactionType DEF TypeOK

-------------------------------------------------------------------------------
\* What a call may do to the store

MatterKinds == {"transition", "link", "answer", "close"}

\* The Matter that a client is about was there when it looked, and is there still.
LookedAt ==
  \A c \in Clients : pc[c] \in {"reobserve", "submit", "project", "act"} /\ task[c].kind \in MatterKinds =>
    matters[subject[c]] # NoMatter /\ saw[c].matters[subject[c]] # NoMatter

\* A client makes a Matter at its end.
MadeOnce == \A c \in Clients : matters[c] # NoMatter => pc[c] = "done"

Shape == TypeOK /\ LookedAt /\ MadeOnce

Replays(c) ==
  /\ pc[c] = "act" /\ Replayed(c)
  /\ task[c].kind = "capture" => SameIntake(c)

ChangesSpace(c) ==
  /\ pc[c] = "act" /\ task[c].kind \in {"create", "retire", "associate", "dissociate"}
  /\ \E s \in Spaces, r \in Space :
       /\ spaces' = [spaces EXCEPT ![s] = r] /\ r.revision = spaces[s].revision + 1
       /\ IF task[c].kind = "create" THEN DirectoryCurrent(c)
                                     ELSE s = task[c].space /\ SpaceCurrent(c, s)
       /\ directory' \in {directory, directory + 1}
       /\ r.lifecycle # spaces[s].lifecycle => directory' = directory + 1
  /\ Done(c) /\ UNCHANGED <<intakes, matters, baselines>>

CapturesOnly(c) ==
  /\ Acts(c, "capture") /\ task[c].space = Global /\ intakes[task[c].intake] = NoIntake
  /\ intakes' = [intakes EXCEPT ![task[c].intake] = task[c].content]
  /\ Done(c) /\ UNCHANGED <<directory, spaces, matters, baselines>>

Places(c) ==
  /\ task[c].space \in Spaces /\ NewMatter(c, task[c].intake, task[c].space)
  /\ \/ /\ Acts(c, "capture") /\ intakes[task[c].intake] = NoIntake
        /\ intakes' = [intakes EXCEPT ![task[c].intake] = task[c].content]
     \/ /\ Acts(c, "place") /\ intakes[task[c].intake] # NoIntake /\ ~Placed(task[c].intake)
        /\ UNCHANGED intakes
  /\ Done(c) /\ UNCHANGED <<directory, baselines>>

ChangesMatter(c) ==
  /\ pc[c] = "act" /\ task[c].kind \in MatterKinds
  /\ \E m \in Matter :
       /\ ChangeMatter(c, m)
       /\ m.intake = matters[subject[c]].intake /\ m.home = matters[subject[c]].home
       /\ m.revision = matters[subject[c]].revision
       /\ m.submission # matters[subject[c]].submission =>
            task[c].kind = "answer" /\ m.submission = task[c].content
       /\ m.question = "closed" /\ matters[subject[c]].question # "closed" => task[c].kind = "close"

Acknowledges(c) ==
  /\ Acts(c, "acknowledge")
  /\ baselines' \in [Scopes -> [revision: Nat, view: Views]]
  /\ View(Custody, task[c].space, observed[c]) = View(saw[c], task[c].space, observed[c])
  /\ Done(c) /\ UNCHANGED <<directory, spaces, intakes, matters>>

\* A call about a Space that is accepted
LEMMA SpaceCases ==
  ASSUME TypeOK, NEW c \in Clients,
         CreateSpace(c) \/ RetireSpace(c) \/ SetAssociation(c) \/ RemoveAssociation(c)
  PROVE  ChangesSpace(c) \/ Replays(c)
<1> DEFINE s == task[c].space
           b == Bump(spaces[s])
<1>1. task[c].kind \in {"create", "retire", "associate", "dissociate"} /\ pc[c] = "act" /\ s \in Spaces
  BY TaskFacts DEF CreateSpace, RetireSpace, SetAssociation, RemoveAssociation, Acts
<1>2. spaces[s] \in Space
  BY <1>1 DEF TypeOK
<1>3. /\ b \in Space /\ b.revision = spaces[s].revision + 1 /\ b.lifecycle = spaces[s].lifecycle
      /\ \A l \in {"absent", "active", "retired"} : /\ [b EXCEPT !.lifecycle = l] \in Space
                                                   /\ [b EXCEPT !.lifecycle = l].revision = b.revision
      /\ \A n \in Namespaces, a \in Reach : /\ [b EXCEPT !.associations[n] = a] \in Space
                                            /\ [b EXCEPT !.associations[n] = a].revision = b.revision
                                            /\ [b EXCEPT !.associations[n] = a].lifecycle = b.lifecycle
  <2>1. b.revision = spaces[s].revision + 1 /\ b.lifecycle = spaces[s].lifecycle
    BY <1>2 DEF Bump, Space
  <2>2. b \in Space
    BY <1>2, BumpSpace
  <2> HIDE DEF b
  <2>3. \A l : [b EXCEPT !.lifecycle = l].revision = b.revision
    BY <2>2 DEF Space
  <2>4. \A n, a : /\ [b EXCEPT !.associations[n] = a].revision = b.revision
                  /\ [b EXCEPT !.associations[n] = a].lifecycle = b.lifecycle
    BY <2>2 DEF Space
  <2> QED
    BY <1>2, <2>1, <2>2, <2>3, <2>4, BumpSpace DEF b
<1> HIDE DEF b
<1>4. CASE CreateSpace(c)
  <2>1. spaces' = [spaces EXCEPT ![s] = [b EXCEPT !.lifecycle = "active"]]
    BY <1>4 DEF CreateSpace, b
  <2> DEFINE r == [b EXCEPT !.lifecycle = "active"]
  <2>2. r \in Space /\ r.revision = spaces[s].revision + 1
    BY <1>3
  <2>3. /\ task[c].kind = "create" /\ DirectoryCurrent(c) /\ directory' = directory + 1
        /\ Done(c) /\ UNCHANGED <<intakes, matters, baselines>>
    BY <1>4 DEF CreateSpace, Acts
  <2> HIDE DEF r
  <2>4. spaces' = [spaces EXCEPT ![s] = r]
    BY <2>1 DEF r
  <2> QED
    BY <1>1, <2>2, <2>3, <2>4 DEF ChangesSpace
<1>5. CASE RetireSpace(c)
  <2>1. CASE spaces[s].lifecycle = "active"
    <3>1. /\ spaces' = [spaces EXCEPT ![s] = [b EXCEPT !.lifecycle = "retired"]]
          /\ directory' = directory + 1 /\ Done(c) /\ UNCHANGED <<intakes, matters, baselines>>
          /\ SpaceCurrent(c, s) /\ task[c].kind = "retire"
      BY <1>5, <2>1 DEF RetireSpace, Acts, b
    <3>2. ChangesSpace(c)
      BY <1>1, <1>3, <3>1 DEF ChangesSpace
    <3> QED
      BY <3>2
  <2>2. CASE spaces[s].lifecycle # "active"
    BY <1>5, <2>2 DEF RetireSpace, Replays, Acts
  <2> QED
    BY <2>1, <2>2
<1>6. ASSUME NEW n \in Namespaces, NEW a \in Reach, Associate(c, n, a), task[c].kind # "create"
      PROVE  ChangesSpace(c)
  <2>1. /\ spaces' = [spaces EXCEPT ![s] = [b EXCEPT !.associations[n] = a]]
        /\ UNCHANGED directory /\ Done(c) /\ UNCHANGED <<intakes, matters, baselines>>
        /\ SpaceCurrent(c, s)
    BY <1>6 DEF Associate, b
  <2> DEFINE r == [b EXCEPT !.associations[n] = a]
  <2>2. /\ r \in Space /\ r.revision = spaces[s].revision + 1
        /\ r.lifecycle = spaces[s].lifecycle
    BY <1>3
  <2> HIDE DEF r
  <2>3. spaces' = [spaces EXCEPT ![s] = r]
    BY <2>1 DEF r
  <2> QED
    BY <1>1, <1>6, <2>1, <2>2, <2>3 DEF ChangesSpace
<1>7. CASE SetAssociation(c)
  BY <1>6, <1>7 DEF SetAssociation, Acts
<1>8. CASE RemoveAssociation(c)
  BY <1>6, <1>8 DEF RemoveAssociation, Acts, Reach
<1> QED
  BY <1>4, <1>5, <1>7, <1>8

\* A call about an Intake that is accepted
LEMMA IntakeCases ==
  ASSUME TypeOK, NEW c \in Clients, Capture(c) \/ Place(c)
  PROVE  CapturesOnly(c) \/ Places(c) \/ Replays(c)
<1> USE DEF Acts
<1>1. CASE Capture(c)
  <2>1. CASE SameIntake(c) /\ Replayed(c)
    BY <1>1, <2>1 DEF Capture, Replays
  <2>2. CASE /\ intakes[task[c].intake] = NoIntake
             /\ intakes' = [intakes EXCEPT ![task[c].intake] = task[c].content]
             /\ IF task[c].space = Global THEN UNCHANGED <<spaces, matters>>
                                          ELSE NewMatter(c, task[c].intake, task[c].space)
             /\ Done(c) /\ UNCHANGED <<directory, baselines>>
    <3>1. CASE task[c].space = Global
      BY <1>1, <2>2, <3>1 DEF Capture, CapturesOnly
    <3>2. CASE task[c].space # Global
      <4>1. task[c].space \in Spaces
        BY <3>2, TaskFacts
      <4> QED
        BY <1>1, <2>2, <3>2, <4>1 DEF Capture, Places
    <3> QED
      BY <3>1, <3>2
  <2> QED
    BY <1>1, <2>1, <2>2 DEF Capture
<1>2. CASE Place(c)
  <2>1. task[c].space \in Spaces
    BY <1>2, TaskFacts DEF Place
  <2> QED
    BY <1>2, <2>1 DEF Place, Places, Replays
<1> QED
  BY <1>1, <1>2

\* A call about a Matter that is accepted
LEMMA MatterCases ==
  ASSUME Shape, NEW c \in Clients,
         Transition(c) \/ LinkQuestion(c) \/ RecordAnswer(c) \/ CloseQuestion(c)
  PROVE  ChangesMatter(c) \/ Replays(c)
<1> DEFINE m == matters[subject[c]]
<1>1. pc[c] = "act" /\ task[c].kind \in MatterKinds
  BY DEF Transition, LinkQuestion, RecordAnswer, CloseQuestion, Acts, MatterKinds
<1>2. m \in Matter /\ subject[c] \in Clients
  BY <1>1 DEF Shape, TypeOK, LookedAt
<1>3. task[c].content \in Contents
  BY TaskFacts DEF Shape
<1> HIDE DEF m
<1>4. ASSUME NEW relevant \in BOOLEAN, Acts(c, "transition"),
             ChangeMatter(c, [m EXCEPT !.relevant = relevant])
      PROVE  ChangesMatter(c)
  <2> DEFINE new == [m EXCEPT !.relevant = relevant]
  <2>1. /\ new \in Matter /\ new.intake = m.intake /\ new.home = m.home /\ new.revision = m.revision
        /\ new.submission = m.submission /\ new.question = m.question
    BY <1>2 DEF Matter
  <2> HIDE DEF new
  <2> QED
    BY <1>1, <1>4, <2>1 DEF ChangesMatter, m, new
<1>5. ASSUME Acts(c, "link"), ChangeMatter(c, [m EXCEPT !.question = "open"])
      PROVE  ChangesMatter(c)
  <2> DEFINE new == [m EXCEPT !.question = "open"]
  <2>1. /\ new \in Matter /\ new.intake = m.intake /\ new.home = m.home /\ new.revision = m.revision
        /\ new.submission = m.submission /\ new.question = "open"
    BY <1>2 DEF Matter
  <2> HIDE DEF new
  <2> QED
    BY <1>1, <1>5, <2>1 DEF ChangesMatter, m, new
<1>6. ASSUME Acts(c, "answer"),
             ChangeMatter(c, [m EXCEPT !.question = "answer-submitted", !.submission = task[c].content])
      PROVE  ChangesMatter(c)
  <2> DEFINE new == [m EXCEPT !.question = "answer-submitted", !.submission = task[c].content]
  <2>1. /\ new \in Matter /\ new.intake = m.intake /\ new.home = m.home /\ new.revision = m.revision
        /\ new.submission = task[c].content /\ new.question = "answer-submitted"
    BY <1>2, <1>3 DEF Matter
  <2> HIDE DEF new
  <2> QED
    BY <1>1, <1>6, <2>1 DEF ChangesMatter, m, new, Acts
<1>7. ASSUME Acts(c, "close"), ChangeMatter(c, [m EXCEPT !.question = "closed"])
      PROVE  ChangesMatter(c)
  <2> DEFINE new == [m EXCEPT !.question = "closed"]
  <2>1. /\ new \in Matter /\ new.intake = m.intake /\ new.home = m.home /\ new.revision = m.revision
        /\ new.submission = m.submission
    BY <1>2 DEF Matter
  <2> HIDE DEF new
  <2> QED
    BY <1>1, <1>7, <2>1 DEF ChangesMatter, m, new, Acts
<1>8. CASE RecordAnswer(c)
  BY <1>6, <1>8 DEF RecordAnswer, Replays, Acts, m
<1> QED
  BY <1>4, <1>5, <1>7, <1>8 DEF Transition, LinkQuestion, CloseQuestion, m

\* An acknowledgement that is accepted
LEMMA AcknowledgeCases ==
  ASSUME TypeOK, NEW c \in Clients, Acknowledge(c)
  PROVE  Acknowledges(c) \/ Replays(c)
<1> DEFINE x == task[c].space
           view == View(Custody, x, observed[c])
<1>1. x \in Scopes /\ (x # Global => x \in Spaces) /\ observed[c] \in Nat
  BY TaskFacts DEF TypeOK
<1>2. view \in Views
  BY <1>1, ViewType
<1>3. baselines[x] \in [revision: Nat, view: Views]
  BY <1>1 DEF TypeOK
<1> HIDE DEF view
<1>4. CASE Replayed(c)
  BY <1>4 DEF Acknowledge, Replays, Acts
<1>5. CASE /\ baselines' = [baselines EXCEPT ![x] = [Bump(@) EXCEPT !.view = view]]
           /\ Done(c) /\ UNCHANGED <<directory, spaces, intakes, matters>>
  <2>1. [Bump(baselines[x]) EXCEPT !.view = view] \in [revision: Nat, view: Views]
    <3> DEFINE b == baselines[x]
    <3> HIDE DEF x
    <3>1. b = [revision |-> b.revision, view |-> b.view] /\ b.revision \in Nat
      BY <1>3
    <3> HIDE DEF b
    <3>2. [Bump(b) EXCEPT !.view = view] = [revision |-> b.revision + 1, view |-> view]
      <4>1. Bump(b) = [revision |-> b.revision + 1, view |-> b.view]
        BY <3>1 DEF Bump
      <4>2. [[revision |-> b.revision + 1, view |-> b.view] EXCEPT !.view = view]
              = [revision |-> b.revision + 1, view |-> view]
        OBVIOUS
      <4> QED
        BY <4>1, <4>2
    <3>3. [Bump(b) EXCEPT !.view = view] \in [revision: Nat, view: Views]
      BY <1>2, <3>1, <3>2
    <3> QED
      BY <3>3 DEF b
  <2>2. baselines' \in [Scopes -> [revision: Nat, view: Views]]
    BY <1>1, <1>5, <2>1 DEF TypeOK
  <2> QED
    BY <1>5, <2>2 DEF Acknowledge, Acknowledges
<1> QED
  BY <1>4, <1>5 DEF Acknowledge, view

\* Every call is one of these.
LEMMA CallCases ==
  ASSUME Shape, NEW c \in Clients, Call(c)
  PROVE  \/ Moves(c) \/ Refuse(c) \/ Replays(c) \/ ChangesSpace(c) \/ CapturesOnly(c)
         \/ Places(c) \/ ChangesMatter(c) \/ Acknowledges(c)
  BY SpaceCases, IntakeCases, MatterCases, AcknowledgeCases DEF Shape, Call, Moves

-------------------------------------------------------------------------------
\* Types and shape

\* A step of an owner
OwnerStep == OwnerMoves \/ \E m \in Clients : OwnerCloses(m)

\* The types are kept by every call that is accepted, refused or replayed.
LEMMA TypeCall ==
  ASSUME Shape, NEW c \in Clients, Call(c)
  PROVE  TypeOK'
<1> USE DEF Shape
<1>1. CASE Moves(c)
  BY <1>1, TypeMoves
<1>2. CASE Refuse(c) \/ Replays(c)
  BY <1>2, TransactionType DEF Refuse, Replays, Replayed, Settled, store, TypeOK
<1>3. CASE ChangesSpace(c)
  <2>1. spaces' \in [Spaces -> Space] /\ directory' \in Nat
    BY <1>3 DEF ChangesSpace, TypeOK
  <2> QED
    BY <1>3, <2>1, TransactionType DEF ChangesSpace, Done, Settled, TypeOK
<1>4. CASE CapturesOnly(c)
  <2>1. intakes' \in [Keys -> Contents \cup {NoIntake}]
    BY <1>4, TaskFacts DEF CapturesOnly, TypeOK
  <2> QED
    BY <1>4, <2>1, TransactionType DEF CapturesOnly, Done, Settled, TypeOK
<1>5. CASE Places(c)
  <2>1. spaces' \in [Spaces -> Space] /\ matters' \in [Clients -> Matter \cup {NoMatter}]
    BY <1>5, NewMatterType, TaskFacts DEF Places
  <2>2. intakes' \in [Keys -> Contents \cup {NoIntake}]
    <3>1. UNCHANGED intakes \/ intakes' = [intakes EXCEPT ![task[c].intake] = task[c].content]
      BY <1>5 DEF Places
    <3>2. task[c].content \in Contents /\ intakes \in [Keys -> Contents \cup {NoIntake}]
      BY TaskFacts DEF TypeOK
    <3> QED
      BY <3>1, <3>2
  <2> QED
    BY <1>5, <2>1, <2>2, TransactionType DEF Places, Done, Settled, TypeOK
<1>6. CASE ChangesMatter(c)
  <2>1. Exists(c)
    BY <1>6 DEF ChangesMatter, LookedAt, Exists, TypeOK
  <2> QED
    BY <1>6, <2>1, ChangeMatterType DEF ChangesMatter
<1>7. CASE Acknowledges(c)
  BY <1>7, TransactionType DEF Acknowledges, Done, Settled, TypeOK
<1> QED
  BY <1>1, <1>2, <1>3, <1>4, <1>5, <1>6, <1>7, CallCases

\* How the Matters change in a call: by one that is new, or one that is changed
\* to its next revision.
LEMMA MatterSteps ==
  ASSUME Shape, NEW c \in Clients, Call(c)
  PROVE  \/ UNCHANGED matters
         \/ /\ Places(c) /\ matters[c] = NoMatter
            /\ matters' = [matters EXCEPT ![c] = FreshMatter(task[c].intake, task[c].space)]
            /\ matters'[c] \in Matter
         \/ /\ ChangesMatter(c) /\ subject[c] \in Clients
            /\ matters[subject[c]] \in Matter
            /\ \E m \in Matter : /\ matters' = [matters EXCEPT ![subject[c]] = m]
                                /\ m.intake = matters[subject[c]].intake
                                /\ m.home = matters[subject[c]].home
                                /\ m.revision = matters[subject[c]].revision + 1
<1> USE DEF Shape
<1>1. CASE Moves(c) \/ Refuse(c) \/ Replays(c) \/ ChangesSpace(c) \/ CapturesOnly(c) \/ Acknowledges(c)
  BY <1>1 DEF Moves, ObserveOwner, Look, SubmitAnswer, ProjectQuestion, Reobserve, Refuse, Replays,
     Replayed, store, ChangesSpace, CapturesOnly, Acknowledges
<1>2. CASE Places(c)
  <2>1. pc[c] # "done" /\ matters[c] = NoMatter
    BY <1>2 DEF Places, Acts, MadeOnce
  <2>2. FreshMatter(task[c].intake, task[c].space) \in Matter
    BY <1>2, FreshType, TaskFacts DEF Places
  <2> QED
    BY <1>2, <2>1, <2>2 DEF Places, NewMatter, TypeOK
<1>3. CASE ChangesMatter(c)
  <2>1. matters[subject[c]] \in Matter /\ subject[c] \in Clients
    BY <1>3 DEF ChangesMatter, LookedAt, TypeOK
  <2>2. PICK m \in Matter :
          /\ ChangeMatter(c, m) /\ m.intake = matters[subject[c]].intake
          /\ m.home = matters[subject[c]].home /\ m.revision = matters[subject[c]].revision
    BY <1>3 DEF ChangesMatter
  <2>3. /\ Bump(m).intake = m.intake /\ Bump(m).home = m.home /\ Bump(m).revision = m.revision + 1
        /\ Bump(m) \in Matter
    BY <2>2, BumpMatter DEF Bump, Matter
  <2> QED
    BY <1>3, <2>1, <2>2, <2>3 DEF ChangeMatter
<1> QED
  BY <1>1, <1>2, <1>3, CallCases

\* A Matter that there is stays, with its Intake and its home.
LEMMA MattersStay ==
  ASSUME Shape, NEW c \in Clients, Call(c)
  PROVE  \A m \in Clients : matters[m] # NoMatter =>
           /\ matters'[m] # NoMatter /\ matters'[m].intake = matters[m].intake
           /\ matters'[m].home = matters[m].home
           /\ matters[m].revision <= matters'[m].revision
           /\ matters[m].revision = matters'[m].revision => matters'[m] = matters[m]
<1>1. \A m \in Clients : matters[m] # NoMatter => matters[m] \in Matter /\ matters[m].revision \in Nat
  BY DEF Shape, TypeOK, Matter
<1>2. matters \in [Clients -> Matter \cup {NoMatter}]
  BY DEF Shape, TypeOK
<1> QED
  BY <1>1, <1>2, MatterSteps, MatterAssumption

\* A call leaves the other clients where they are, and every client its task.
LEMMA OthersRest ==
  ASSUME Shape, NEW c \in Clients, Call(c)
  PROVE  /\ UNCHANGED task
         /\ \A d \in Clients : d # c => pc'[d] = pc[d] /\ subject'[d] = subject[d] /\ saw'[d] = saw[d]
<1>1. \A d \in Clients : d # c => pc'[d] = pc[d] /\ subject'[d] = subject[d] /\ saw'[d] = saw[d]
  BY DEF Call, Finish, Goto, Done, Replayed, Associate, ChangeMatter, ObserveOwner, Look, Refuse,
     CreateSpace, RetireSpace, SetAssociation, RemoveAssociation, Capture, Place, Transition,
     LinkQuestion, SubmitAnswer, RecordAnswer, ProjectQuestion, CloseQuestion, Reobserve,
     Acknowledge, Shape, TypeOK
<1>2. UNCHANGED task
  BY DEF Call, Done, Replayed, Associate, ChangeMatter, ObserveOwner, Look, Refuse,
     CreateSpace, RetireSpace, SetAssociation, RemoveAssociation, Capture, Place, Transition,
     LinkQuestion, SubmitAnswer, RecordAnswer, ProjectQuestion, CloseQuestion, Reobserve, Acknowledge
<1> QED
  BY <1>1, <1>2

\* The shape is kept by every step.
LEMMA ShapeStep ==
  ASSUME Shape, [Next]_vars
  PROVE  Shape'
<1>1. CASE UNCHANGED vars
  BY <1>1 DEF Shape, TypeOK, LookedAt, MadeOnce, vars, store, owner
<1>2. CASE OwnerStep
  <2>1. UNCHANGED <<store, pc, task, subject, saw, observed, told>>
    BY <1>2 DEF OwnerStep, OwnerMoves, OwnerCloses
  <2>2. currentness' \in Nat /\ closed' \subseteq Clients /\ accepted' = accepted
    BY <1>2 DEF OwnerStep, OwnerMoves, OwnerCloses, Shape, TypeOK
  <2> QED
    BY <2>1, <2>2 DEF Shape, TypeOK, LookedAt, MadeOnce, store
<1>3. ASSUME NEW c \in Clients, Call(c) PROVE Shape'
  <2>1. TypeOK'
    BY <1>3, TypeCall
  <2>2. \A d \in Clients : d # c => pc'[d] = pc[d] /\ subject'[d] = subject[d] /\ saw'[d] = saw[d]
    BY <1>3, OthersRest
  <2>3. UNCHANGED task
    BY <1>3, OthersRest
  <2>4. \/ pc'[c] = "done"
        \/ Moves(c) /\ UNCHANGED matters
    BY <1>3, CallCases DEF Moves, ObserveOwner, Look, SubmitAnswer, ProjectQuestion, Reobserve, store,
       Refuse, Replays, Replayed, ChangesSpace, CapturesOnly, Places, ChangesMatter, ChangeMatter,
       Acknowledges, Done, Finish, Goto, Shape, TypeOK
  <2>5. MadeOnce'
    <3>1. \A d \in Clients : d # c /\ matters'[d] # NoMatter => matters[d] # NoMatter
      <4> SUFFICES ASSUME NEW d \in Clients, d # c, matters'[d] # NoMatter
                   PROVE  matters[d] # NoMatter
        OBVIOUS
      <4>1. matters \in [Clients -> Matter \cup {NoMatter}] /\ NoMatter \notin Matter
        BY MatterAssumption DEF Shape, TypeOK
      <4>2. CASE UNCHANGED matters
        BY <4>2
      <4>3. CASE /\ matters' = [matters EXCEPT ![c] = FreshMatter(task[c].intake, task[c].space)]
        BY <4>1, <4>3
      <4>4. CASE /\ matters[subject[c]] \in Matter
                 /\ \E m \in Matter : matters' = [matters EXCEPT ![subject[c]] = m]
        BY <4>1, <4>4
      <4> QED
        BY <1>3, <4>2, <4>3, <4>4, MatterSteps
    <3>2. pc[c] # "done"
      BY <1>3 DEF Call, ObserveOwner, Look, Refuse,
       CreateSpace, RetireSpace, SetAssociation, RemoveAssociation, Capture, Place, Transition,
       LinkQuestion, SubmitAnswer, RecordAnswer, ProjectQuestion, CloseQuestion, Reobserve,
       Acknowledge, Acts
    <3> QED
      BY <2>2, <2>4, <3>1, <3>2 DEF Shape, MadeOnce
  <2>6. LookedAt'
    <3>1. \A d \in Clients : d # c /\ pc'[d] \in {"reobserve", "submit", "project", "act"}
            /\ task[d].kind \in MatterKinds
            => matters'[subject[d]] # NoMatter /\ saw[d].matters[subject[d]] # NoMatter
      BY <1>3, <2>2, MattersStay DEF Shape, LookedAt, TypeOK
    <3>2. CASE Look(c) /\ task[c].kind \in MatterKinds
      <4>1. PICK m \in Clients : matters[m] # NoMatter /\ subject' = [subject EXCEPT ![c] = m]
        BY <3>2 DEF Look, MatterKinds
      <4>2. subject'[c] = m /\ saw'[c] = Custody /\ UNCHANGED matters
        BY <3>2, <4>1 DEF Look, Shape, TypeOK, store
      <4>3. matters'[subject'[c]] # NoMatter /\ saw'[c].matters[subject'[c]] # NoMatter
        BY <4>1, <4>2 DEF Custody
      <4> QED
        BY <2>2, <2>3, <3>1, <4>3 DEF LookedAt
    <3>3. CASE Moves(c) /\ ~Look(c) /\ task[c].kind \in MatterKinds
      <4>1. /\ subject' = subject /\ saw' = saw /\ UNCHANGED matters
            /\ pc[c] \in {"reobserve", "submit", "project"}
        BY <3>3 DEF Moves, ObserveOwner, SubmitAnswer, ProjectQuestion, Reobserve, store, Goto, Finish,
           MatterKinds, Shape, TypeOK
      <4>2. matters'[subject'[c]] # NoMatter /\ saw'[c].matters[subject'[c]] # NoMatter
        BY <3>3, <4>1 DEF Shape, LookedAt
      <4> QED
        BY <2>2, <2>3, <3>1, <4>2 DEF LookedAt
    <3>4. CASE pc'[c] = "done" \/ task[c].kind \notin MatterKinds
      BY <2>2, <2>3, <3>1, <3>4 DEF LookedAt
    <3> QED
      BY <2>4, <3>2, <3>3, <3>4
  <2> QED
    BY <2>1, <2>5, <2>6 DEF Shape
<1> QED
  BY <1>1, <1>2, <1>3 DEF Next, OwnerStep

\* The shape holds at first.
LEMMA ShapeInit == Init => Shape
  BY TypeInit DEF Init, Shape, LookedAt, MadeOnce

\* The shape holds at first and is kept.
LEMMA ShapeAlways == Spec => []Shape
<1>1. Init => Shape
  BY ShapeInit
<1>2. Shape /\ [Next]_vars => Shape'
  BY ShapeStep
<1> QED
  BY <1>1, <1>2, PTL DEF Spec

\* The store, the owners and the clients keep to their kinds, whatever calls are
\* made with whatever stale revisions.
THEOREM TypeCorrect == Spec => []TypeOK
<1>1. Shape => TypeOK
  BY DEF Shape
<1> QED
  BY <1>1, ShapeAlways, PTL

-------------------------------------------------------------------------------
\* Intakes and their Matters

\* An Intake that was captured keeps its content.
LEMMA IntakesStay ==
  ASSUME Shape, [Next]_vars
  PROVE  \A k \in Keys : intakes[k] # NoIntake => intakes'[k] = intakes[k]
<1>1. CASE UNCHANGED vars \/ OwnerStep
  BY <1>1 DEF vars, store, OwnerStep, OwnerMoves, OwnerCloses
<1>2. ASSUME NEW c \in Clients, Call(c)
      PROVE  \A k \in Keys : intakes[k] # NoIntake => intakes'[k] = intakes[k]
  <2>1. \/ UNCHANGED intakes
        \/ /\ intakes[task[c].intake] = NoIntake
           /\ intakes' = [intakes EXCEPT ![task[c].intake] = task[c].content]
    BY <1>2, CallCases DEF Moves, ObserveOwner, Look, SubmitAnswer, ProjectQuestion, Reobserve, store,
       Refuse, Replays, Replayed, ChangesSpace, CapturesOnly, Places, ChangesMatter, ChangeMatter,
       Acknowledges
  <2> QED
    BY <2>1 DEF Shape, TypeOK
<1> QED
  BY <1>1, <1>2 DEF Next, OwnerStep

\* Captures, placements and their retries make one Matter for an Intake: it is made
\* with the Intake, or in a transaction that has found none.
THEOREM OneMatter == Spec => []OneMatterPerIntake
<1>1. Init => OneMatterPerIntake
  BY DEF Init, OneMatterPerIntake
<1>2. Shape /\ OneMatterPerIntake /\ [Next]_vars => OneMatterPerIntake'
  <2> SUFFICES ASSUME Shape, OneMatterPerIntake, [Next]_vars PROVE OneMatterPerIntake'
    OBVIOUS
  <2>1. CASE UNCHANGED <<intakes, matters>>
    BY <2>1 DEF OneMatterPerIntake
  <2>2. ASSUME NEW c \in Clients, Call(c), ~UNCHANGED matters
        PROVE  OneMatterPerIntake'
    <3>1. \A k \in Keys : intakes[k] # NoIntake => intakes'[k] # NoIntake
      BY IntakesStay
    <3>2. \A m \in Clients : matters[m] # NoMatter => matters[m].intake \in Keys
      BY DEF Shape, TypeOK, Matter
    <3>3. matters \in [Clients -> Matter \cup {NoMatter}]
      BY DEF Shape, TypeOK
    <3>4. CASE /\ Places(c) /\ matters[c] = NoMatter
               /\ matters' = [matters EXCEPT ![c] = FreshMatter(task[c].intake, task[c].space)]
               /\ matters'[c] \in Matter
      <4> DEFINE k == task[c].intake
      <4>1. k \in Keys /\ task[c].content # NoIntake
        BY TaskFacts, CustodyAssumption DEF Shape
      <4>2. intakes'[k] # NoIntake
        BY <3>4, <4>1 DEF Places, Shape, TypeOK
      <4>3. matters'[c].intake = k /\ matters'[c] # NoMatter
        BY <3>3, <3>4, MatterAssumption DEF FreshMatter
      <4>4. \A m \in Clients : m # c => matters'[m] = matters[m]
        BY <3>3, <3>4
      <4>5. \A m \in Clients : matters[m] # NoMatter => matters[m].intake # k
        BY <3>4 DEF Places, Placed, OneMatterPerIntake
      <4> HIDE DEF k
      <4> QED
        BY <3>1, <3>2, <4>2, <4>3, <4>4, <4>5 DEF OneMatterPerIntake
    <3>5. CASE /\ subject[c] \in Clients /\ matters[subject[c]] \in Matter
               /\ \E m \in Matter : /\ matters' = [matters EXCEPT ![subject[c]] = m]
                                   /\ m.intake = matters[subject[c]].intake
      <4>1. \A m \in Clients : matters'[m] # NoMatter =>
               matters[m] # NoMatter /\ matters'[m].intake = matters[m].intake
        BY <3>3, <3>5, MatterAssumption
      <4> QED
        BY <3>1, <3>2, <4>1 DEF OneMatterPerIntake
    <3> QED
      BY <2>2, <3>4, <3>5, MatterSteps
  <2>3. ASSUME NEW c \in Clients, Call(c), UNCHANGED matters
        PROVE  OneMatterPerIntake'
    <3>1. \A m \in Clients : matters[m] # NoMatter => matters[m].intake \in Keys
      BY DEF Shape, TypeOK, Matter
    <3> QED
      BY <2>3, <3>1, IntakesStay DEF OneMatterPerIntake
  <2>4. CASE UNCHANGED vars \/ OwnerStep
    BY <2>1, <2>4 DEF vars, store, OwnerStep, OwnerMoves, OwnerCloses
  <2> QED
    BY <2>2, <2>3, <2>4 DEF Next, OwnerStep
<1> QED
  BY <1>1, <1>2, ShapeAlways, PTL DEF Spec

\* Only the client that a call belongs to is told something by it.
LEMMA ToldOnce ==
  ASSUME Shape, [Next]_vars, NEW d \in Clients, told'[d] # told[d]
  PROVE  Call(d) /\ told'[d] \in {"changed", "replayed", "refused"}
<1>1. CASE UNCHANGED vars \/ OwnerStep
  BY <1>1 DEF vars, OwnerStep, OwnerMoves, OwnerCloses
<1>2. ASSUME NEW c \in Clients, Call(c)
      PROVE  c = d /\ told'[d] \in {"changed", "replayed", "refused"}
  BY <1>2 DEF Call, Finish, Done, Replayed, Associate, ChangeMatter, ObserveOwner, Look, Refuse,
     CreateSpace, RetireSpace, SetAssociation, RemoveAssociation, Capture, Place, Transition,
     LinkQuestion, SubmitAnswer, RecordAnswer, ProjectQuestion, CloseQuestion, Reobserve,
     Acknowledge, Shape, TypeOK
<1> QED
  BY <1>1, <1>2 DEF Next, OwnerStep

\* What a client was told of its capture stays true.
THEOREM CapturesCorrect == Spec => []CapturesLast
<1>1. Init => CapturesLast
  BY DEF Init, CapturesLast
<1>2. Shape /\ CapturesLast /\ [Next]_vars => CapturesLast'
  <2> SUFFICES ASSUME Shape, CapturesLast, [Next]_vars, NEW d \in Clients,
                      (task[d].kind = "capture" /\ told[d] \in {"changed", "replayed"})'
               PROVE  intakes'[task'[d].intake] = task'[d].content
    BY DEF CapturesLast
  <2>1. UNCHANGED task
    BY OthersRest DEF Next, vars, OwnerMoves, OwnerCloses
  <2>2. task[d].intake \in Keys /\ task[d].content # NoIntake
    BY TaskFacts, CustodyAssumption DEF Shape
  <2>3. CASE told'[d] = told[d]
    BY <2>1, <2>2, <2>3, IntakesStay DEF CapturesLast
  <2>4. CASE told'[d] # told[d]
    <3>1. Call(d)
      BY <2>4, ToldOnce
    <3>2. CASE CapturesOnly(d) \/ Places(d)
      BY <2>1, <2>2, <3>2 DEF CapturesOnly, Places, Acts, Shape, TypeOK
    <3>3. CASE Replays(d)
      BY <2>1, <3>3 DEF Replays, Replayed, SameIntake, store
    <3>4. CASE Moves(d) \/ Refuse(d)
      BY <2>4, <3>4 DEF Moves, ObserveOwner, Look, SubmitAnswer, ProjectQuestion, Reobserve, Refuse,
         Finish, Shape, TypeOK
    <3>5. CASE ChangesSpace(d) \/ ChangesMatter(d) \/ Acknowledges(d)
      BY <2>1, <3>5 DEF ChangesSpace, ChangesMatter, Acknowledges, Acts, MatterKinds
    <3> QED
      BY <3>1, <3>2, <3>3, <3>4, <3>5, CallCases DEF Shape
  <2> QED
    BY <2>3, <2>4
<1> QED
  BY <1>1, <1>2, ShapeAlways, PTL DEF Spec

-------------------------------------------------------------------------------
\* Questions

\* A client about to record an Answer or a closure has it from the owner: it gets
\* there by asking.
HeardFromOwner ==
  \A c \in Clients :
    /\ pc[c] = "reobserve" => task[c].kind = "acknowledge"
    /\ pc[c] = "submit" => task[c].kind = "answer"
    /\ pc[c] = "project" => task[c].kind = "close"
    /\ pc[c] = "act" /\ task[c].kind = "answer" => accepted[subject[c]] = task[c].content
    /\ pc[c] = "act" /\ task[c].kind = "close" => subject[c] \in closed

\* An owner keeps the Answer it has accepted and the Questions it has closed.
LEMMA OwnersKeep ==
  ASSUME Shape, [Next]_vars
  PROVE  /\ \A m \in Clients : accepted[m] # NoAnswer => accepted'[m] = accepted[m]
         /\ closed \subseteq closed'
<1>1. CASE UNCHANGED vars \/ OwnerStep
  BY <1>1 DEF vars, owner, OwnerStep, OwnerMoves, OwnerCloses
<1>2. ASSUME NEW c \in Clients, Call(c)
      PROVE  UNCHANGED owner \/ SubmitAnswer(c)
  BY <1>2, CallCases DEF Moves, ObserveOwner, Look, ProjectQuestion, Reobserve, owner,
     Refuse, Replays, Replayed, ChangesSpace, CapturesOnly, Places, ChangesMatter, ChangeMatter,
     Acknowledges, Done
<1>3. ASSUME NEW c \in Clients, SubmitAnswer(c)
      PROVE  /\ \A m \in Clients : accepted[m] # NoAnswer => accepted'[m] = accepted[m]
             /\ UNCHANGED closed
  BY <1>3, TaskFacts, CustodyAssumption DEF SubmitAnswer, Shape, TypeOK
<1> QED
  BY <1>1, <1>2, <1>3 DEF Next, OwnerStep, owner

\* What a client has heard from the owner stays so until it records it.
LEMMA HeardStep ==
  ASSUME Shape, HeardFromOwner, [Next]_vars
  PROVE  HeardFromOwner'
<1> DEFINE Fits(d) ==
     /\ pc'[d] = "reobserve" => task'[d].kind = "acknowledge"
     /\ pc'[d] = "submit" => task'[d].kind = "answer"
     /\ pc'[d] = "project" => task'[d].kind = "close"
     /\ pc'[d] = "act" /\ task'[d].kind = "answer" => accepted'[subject'[d]] = task'[d].content
     /\ pc'[d] = "act" /\ task'[d].kind = "close" => subject'[d] \in closed'
<1> SUFFICES ASSUME NEW d \in Clients PROVE Fits(d)
  BY DEF HeardFromOwner
<1>1. UNCHANGED task
  BY OthersRest DEF Next, vars, OwnerMoves, OwnerCloses
<1>2. task[d].content # NoAnswer /\ subject[d] \in Clients
  BY TaskFacts, CustodyAssumption DEF Shape
<1>3. CASE pc'[d] = pc[d] /\ subject'[d] = subject[d]
  BY <1>1, <1>2, <1>3, OwnersKeep DEF HeardFromOwner
<1>4. CASE ~(pc'[d] = pc[d] /\ subject'[d] = subject[d])
  <2>1. Call(d)
    <3>1. \A c \in Clients : c # d /\ Call(c) => pc'[d] = pc[d] /\ subject'[d] = subject[d]
      BY OthersRest
    <3> QED
      BY <1>4, <3>1 DEF Next, vars, OwnerMoves, OwnerCloses
  <2>2. pc'[d] = "done" \/ Moves(d)
    BY <2>1, CallCases DEF Refuse, Replays, Replayed, ChangesSpace, CapturesOnly, Places,
       ChangesMatter, ChangeMatter, Acknowledges, Done, Finish, Goto, Shape, TypeOK
  <2>3. CASE pc'[d] \in {"done", "compose"}
    BY <2>3
  <2>4. CASE ObserveOwner(d)
    BY <2>3, <2>4 DEF ObserveOwner, Goto, Shape, TypeOK
  <2>5. CASE Reobserve(d)
    BY <1>1, <2>5 DEF Reobserve, Goto, HeardFromOwner, Shape, TypeOK
  <2>6. CASE Look(d)
    <3>1. pc'[d] = AfterLook(task[d].kind)
      BY <2>6 DEF Look, Goto, Shape, TypeOK
    <3> QED
      BY <1>1, <3>1 DEF AfterLook
  <2>7. CASE SubmitAnswer(d)
    <3>1. pc'[d] \in {"done", "act"} /\ task[d].kind = "answer"
      BY <2>7 DEF SubmitAnswer, Goto, Finish, HeardFromOwner, Shape, TypeOK
    <3>2. accepted'[subject'[d]] = task[d].content
      BY <1>2, <2>7 DEF SubmitAnswer, Shape, TypeOK
    <3> QED
      BY <1>1, <3>1, <3>2
  <2>8. CASE ProjectQuestion(d)
    <3>1. pc'[d] = "act" /\ task[d].kind = "close" /\ subject'[d] \in closed'
      BY <2>8 DEF ProjectQuestion, Terminal, Goto, HeardFromOwner, Shape, TypeOK, owner
    <3> QED
      BY <1>1, <3>1
  <2> QED
    BY <2>2, <2>3, <2>4, <2>5, <2>6, <2>7, <2>8 DEF Moves
<1> QED
  BY <1>3, <1>4

\* A Question is recorded as answered or closed only as its owner has it, though the
\* owner's reply may be lost and the record come long after it.
THEOREM QuestionsCorrect == Spec => []QuestionsFollowOwner
<1>1. Init => HeardFromOwner /\ QuestionsFollowOwner
  BY DEF Init, HeardFromOwner, QuestionsFollowOwner
<1>2. Shape /\ HeardFromOwner /\ [Next]_vars => HeardFromOwner'
  BY HeardStep
<1>3. Shape /\ HeardFromOwner /\ QuestionsFollowOwner /\ [Next]_vars => QuestionsFollowOwner'
  <2> SUFFICES ASSUME Shape, HeardFromOwner, QuestionsFollowOwner, [Next]_vars,
                      NEW m \in Clients, matters'[m] # NoMatter
               PROVE  /\ matters'[m].submission # NoAnswer => accepted'[m] = matters'[m].submission
                      /\ matters'[m].question = "closed" => m \in closed'
    BY DEF QuestionsFollowOwner
  <2>1. CASE matters'[m] = matters[m]
    BY <2>1, OwnersKeep DEF QuestionsFollowOwner
  <2>2. CASE matters'[m] # matters[m]
    <3>1. PICK c \in Clients : Call(c)
      BY <2>2 DEF Next, vars, store, OwnerMoves, OwnerCloses
    <3>2. CASE matters' = [matters EXCEPT ![c] = FreshMatter(task[c].intake, task[c].space)]
      BY <2>2, <3>2 DEF FreshMatter, Shape, TypeOK
    <3>3. CASE ChangesMatter(c)
      <4>1. PICK n \in Matter :
              /\ ChangeMatter(c, n)
              /\ n.submission # matters[subject[c]].submission =>
                   task[c].kind = "answer" /\ n.submission = task[c].content
              /\ n.question = "closed" /\ matters[subject[c]].question # "closed" => task[c].kind = "close"
        BY <3>3 DEF ChangesMatter
      <4>2. /\ subject[c] = m /\ matters'[m].submission = n.submission
            /\ matters'[m].question = n.question
        <5>1. Bump(n).submission = n.submission /\ Bump(n).question = n.question
          BY DEF Bump, Matter
        <5> QED
          BY <2>2, <4>1, <5>1 DEF ChangeMatter, Shape, TypeOK
      <4>3. pc[c] = "act" /\ matters[m] # NoMatter
        BY <3>3, <4>2 DEF ChangesMatter, Shape, LookedAt
      <4> QED
        BY <4>1, <4>2, <4>3, OwnersKeep, TaskFacts, CustodyAssumption
        DEF HeardFromOwner, QuestionsFollowOwner, Shape
    <3> QED
      BY <2>2, <3>1, <3>2, <3>3, MatterSteps
  <2> QED
    BY <2>1, <2>2
<1> QED
  BY <1>1, <1>2, <1>3, ShapeAlways, PTL DEF Spec

-------------------------------------------------------------------------------
\* Decisions are about what was seen

\* The Matter m has its home in the Space s, in a store with these Matters.
At(ms, m, s) == ms[m] # NoMatter /\ ms[m].home = s

\* What is later than custody k: a Space or a Matter at the revision it has in k is
\* as it is in k, and so is the set of Spaces at the directory's revision.
SpacesSince(k, sp, ms) ==
  \A s \in Spaces :
    /\ k.spaces[s].revision <= sp[s].revision
    /\ k.spaces[s].revision = sp[s].revision =>
         /\ sp[s] = k.spaces[s]
         /\ \A m \in Clients : At(k.matters, m, s) \/ At(ms, m, s) => ms[m] = k.matters[m]

DirectorySince(k, dir, sp) ==
  /\ k.directory <= dir
  /\ k.directory = dir => \A s \in Spaces : sp[s].lifecycle = k.spaces[s].lifecycle

MattersSince(k, ms) ==
  \A m \in Clients : k.matters[m] # NoMatter =>
    /\ ms[m] # NoMatter /\ k.matters[m].revision <= ms[m].revision
    /\ k.matters[m].revision = ms[m].revision => ms[m] = k.matters[m]

SeenBefore ==
  \A c \in Clients : /\ SpacesSince(saw[c], spaces, matters)
                     /\ DirectorySince(saw[c], directory, spaces)
                     /\ MattersSince(saw[c], matters)

\* A Space that is not the one replaced keeps everything at its revision; the one
\* replaced gets the next revision.
LEMMA ReplaceSpace ==
  ASSUME Shape, NEW z \in Spaces, NEW r \in Space, spaces' = [spaces EXCEPT ![z] = r],
         r.revision = spaces[z].revision + 1,
         \A m \in Clients : matters'[m] # matters[m] =>
           \A s \in Spaces : At(matters, m, s) \/ At(matters', m, s) => s = z
  PROVE  SpacesSince(Custody, spaces', matters')
<1>1. \A s \in Spaces : spaces[s] \in Space /\ spaces[s].revision \in Nat
  BY DEF Shape, TypeOK, Space
<1>2. spaces'[z] = r /\ \A s \in Spaces : s # z => spaces'[s] = spaces[s]
  BY DEF Shape, TypeOK
<1>3. Custody.spaces = spaces /\ Custody.matters = matters
  BY DEF Custody
<1> QED
  BY <1>1, <1>2, <1>3 DEF SpacesSince

\* Every call moves the store on.
LEMMA CallEvolves ==
  ASSUME Shape, NEW c \in Clients, Call(c)
  PROVE  /\ SpacesSince(Custody, spaces', matters')
         /\ DirectorySince(Custody, directory', spaces')
         /\ MattersSince(Custody, matters')
<1>1. /\ \A s \in Spaces : spaces[s] \in Space /\ spaces[s].revision \in Nat
      /\ directory \in Nat
      /\ \A m \in Clients : matters[m] # NoMatter => matters[m] \in Matter /\ matters[m].revision \in Nat
  BY DEF Shape, TypeOK, Space, Matter
<1>2. Custody.spaces = spaces /\ Custody.matters = matters /\ Custody.directory = directory
  BY DEF Custody
<1>3. MattersSince(Custody, matters')
  BY <1>2, MattersStay DEF MattersSince
<1>4. CASE UNCHANGED <<directory, spaces, matters>>
  BY <1>1, <1>2, <1>3, <1>4 DEF SpacesSince, DirectorySince
<1>5. CASE ChangesSpace(c)
  <2>1. PICK z \in Spaces, r \in Space :
          /\ spaces' = [spaces EXCEPT ![z] = r] /\ r.revision = spaces[z].revision + 1
          /\ r.lifecycle # spaces[z].lifecycle => directory' = directory + 1
    BY <1>5 DEF ChangesSpace
  <2>2. UNCHANGED matters /\ directory' \in {directory, directory + 1}
    BY <1>5 DEF ChangesSpace
  <2>3. SpacesSince(Custody, spaces', matters')
    BY <2>1, <2>2, ReplaceSpace
  <2>4. DirectorySince(Custody, directory', spaces')
    BY <1>1, <1>2, <2>1, <2>2 DEF DirectorySince, Shape, TypeOK
  <2> QED
    BY <1>3, <2>3, <2>4
<1>6. ASSUME NEW z \in Spaces, Touch(z), UNCHANGED directory,
             \A m \in Clients : matters'[m] # matters[m] =>
               \A s \in Spaces : At(matters, m, s) \/ At(matters', m, s) => s = z
      PROVE  SpacesSince(Custody, spaces', matters') /\ DirectorySince(Custody, directory', spaces')
  <2> DEFINE r == Bump(spaces[z])
  <2>1. r \in Space
    BY <1>1, BumpSpace
  <2>2. r.revision = spaces[z].revision + 1 /\ r.lifecycle = spaces[z].lifecycle
    BY <1>1 DEF Bump, Space
  <2>3. spaces' = [spaces EXCEPT ![z] = r]
    BY <1>6 DEF Touch
  <2> HIDE DEF r
  <2>4. SpacesSince(Custody, spaces', matters')
    BY <1>6, <2>1, <2>2, <2>3, ReplaceSpace
  <2>5. DirectorySince(Custody, directory', spaces')
    BY <1>1, <1>2, <1>6, <2>2, <2>3 DEF DirectorySince, Shape, TypeOK
  <2> QED
    BY <2>4, <2>5
<1>7. CASE Places(c)
  <2>1. /\ task[c].space \in Spaces /\ Touch(task[c].space) /\ UNCHANGED directory
        /\ matters' = [matters EXCEPT ![c] = FreshMatter(task[c].intake, task[c].space)]
    BY <1>7 DEF Places, NewMatter
  <2>2. matters[c] = NoMatter
    BY <1>7 DEF Places, Acts, Shape, MadeOnce
  <2>3. \A m \in Clients : matters'[m] # matters[m] =>
          \A s \in Spaces : At(matters, m, s) \/ At(matters', m, s) => s = task[c].space
    BY <2>1, <2>2 DEF At, FreshMatter, Shape, TypeOK
  <2> QED
    BY <1>3, <1>6, <2>1, <2>3
<1>8. CASE ChangesMatter(c)
  <2>1. PICK n \in Matter : ChangeMatter(c, n) /\ n.home = matters[subject[c]].home
    BY <1>8 DEF ChangesMatter
  <2>2. subject[c] \in Clients /\ matters[subject[c]] \in Matter
    BY <1>8 DEF ChangesMatter, Shape, LookedAt, TypeOK
  <2>3. /\ n.home \in Spaces /\ Touch(n.home) /\ UNCHANGED directory
        /\ matters' = [matters EXCEPT ![subject[c]] = Bump(n)] /\ Bump(n).home = n.home
    BY <2>1, <2>2 DEF ChangeMatter, Matter, Bump
  <2>4. \A m \in Clients : matters'[m] # matters[m] =>
          \A s \in Spaces : At(matters, m, s) \/ At(matters', m, s) => s = n.home
    BY <2>1, <2>2, <2>3 DEF At, Shape, TypeOK
  <2> QED
    BY <1>3, <1>6, <2>3, <2>4
<1> QED
  BY <1>4, <1>5, <1>7, <1>8, CallCases DEF Moves, ObserveOwner, Look, SubmitAnswer, ProjectQuestion,
     Reobserve, store, Refuse, Replays, Replayed, CapturesOnly, Acknowledges

\* What is later than something later than k is later than k.
LEMMA SinceSince ==
  ASSUME Shape, NEW k \in SawType, SpacesSince(k, spaces, matters),
         DirectorySince(k, directory, spaces), MattersSince(k, matters),
         SpacesSince(Custody, spaces', matters'), DirectorySince(Custody, directory', spaces'),
         MattersSince(Custody, matters'), TypeOK'
  PROVE  /\ SpacesSince(k, spaces', matters') /\ DirectorySince(k, directory', spaces')
         /\ MattersSince(k, matters')
<1>1. Custody.spaces = spaces /\ Custody.matters = matters /\ Custody.directory = directory
  BY DEF Custody
<1>2. /\ \A s \in Spaces : k.spaces[s].revision \in Nat /\ spaces[s].revision \in Nat
                          /\ spaces'[s].revision \in Nat
      /\ k.directory \in Nat /\ directory \in Nat /\ directory' \in Nat
  BY DEF Shape, TypeOK, SawType, Space
<1>3. \A m \in Clients :
        /\ k.matters[m] # NoMatter => k.matters[m].revision \in Nat
        /\ matters[m] # NoMatter => matters[m].revision \in Nat
        /\ matters'[m] # NoMatter => matters'[m].revision \in Nat
  BY DEF Shape, TypeOK, SawType, Matter
<1>4. SpacesSince(k, spaces', matters')
  <2> SUFFICES ASSUME NEW s \in Spaces
               PROVE  /\ k.spaces[s].revision <= spaces'[s].revision
                      /\ k.spaces[s].revision = spaces'[s].revision =>
                           /\ spaces'[s] = k.spaces[s]
                           /\ \A m \in Clients :
                                At(k.matters, m, s) \/ At(matters', m, s) => matters'[m] = k.matters[m]
    BY DEF SpacesSince
  <2>1. /\ k.spaces[s].revision <= spaces[s].revision
        /\ spaces[s].revision <= spaces'[s].revision
    BY <1>1 DEF SpacesSince
  <2>2. CASE k.spaces[s].revision = spaces'[s].revision
    <3>1. k.spaces[s].revision = spaces[s].revision /\ spaces[s].revision = spaces'[s].revision
      BY <1>2, <2>1, <2>2
    <3>2. /\ spaces[s] = k.spaces[s] /\ spaces'[s] = spaces[s]
          /\ \A m \in Clients : At(k.matters, m, s) \/ At(matters, m, s) => matters[m] = k.matters[m]
          /\ \A m \in Clients : At(matters, m, s) \/ At(matters', m, s) => matters'[m] = matters[m]
      BY <1>1, <3>1 DEF SpacesSince
    <3> QED
      BY <2>1, <2>2, <3>2, <1>2 DEF At
  <2> QED
    BY <1>2, <2>1, <2>2
<1>5. DirectorySince(k, directory', spaces')
  BY <1>1, <1>2 DEF DirectorySince
<1>6. MattersSince(k, matters')
  <2> SUFFICES ASSUME NEW m \in Clients, k.matters[m] # NoMatter
               PROVE  /\ matters'[m] # NoMatter /\ k.matters[m].revision <= matters'[m].revision
                      /\ k.matters[m].revision = matters'[m].revision => matters'[m] = k.matters[m]
    BY DEF MattersSince
  <2>1. /\ matters[m] # NoMatter /\ k.matters[m].revision <= matters[m].revision
        /\ k.matters[m].revision = matters[m].revision => matters[m] = k.matters[m]
    BY DEF MattersSince
  <2>2. /\ matters'[m] # NoMatter /\ matters[m].revision <= matters'[m].revision
        /\ matters[m].revision = matters'[m].revision => matters'[m] = matters[m]
    BY <1>1, <2>1 DEF MattersSince
  <2> QED
    BY <1>3, <2>1, <2>2
<1> QED
  BY <1>4, <1>5, <1>6

\* What a client saw remains something the store has moved on from.
LEMMA SeenStep ==
  ASSUME Shape, SeenBefore, [Next]_vars
  PROVE  SeenBefore'
<1>1. Shape'
  BY ShapeStep
<1> SUFFICES ASSUME NEW d \in Clients
             PROVE  /\ SpacesSince(saw'[d], spaces', matters')
                    /\ DirectorySince(saw'[d], directory', spaces')
                    /\ MattersSince(saw'[d], matters')
  BY DEF SeenBefore
<1>2. saw[d] \in SawType
  BY DEF Shape, TypeOK, SawType
<1>3. CASE UNCHANGED <<directory, spaces, matters>> /\ saw'[d] = saw[d]
  BY <1>3 DEF SeenBefore, SpacesSince, DirectorySince, MattersSince, At
<1>4. CASE UNCHANGED vars \/ OwnerStep
  BY <1>3, <1>4 DEF vars, store, OwnerStep, OwnerMoves, OwnerCloses
<1>5. ASSUME NEW c \in Clients, Call(c), saw'[d] = saw[d]
      PROVE  /\ SpacesSince(saw'[d], spaces', matters')
             /\ DirectorySince(saw'[d], directory', spaces')
             /\ MattersSince(saw'[d], matters')
  BY <1>1, <1>2, <1>5, CallEvolves, SinceSince DEF SeenBefore, Shape
<1>6. ASSUME NEW c \in Clients, Call(c), saw'[d] # saw[d]
      PROVE  /\ SpacesSince(saw'[d], spaces', matters')
             /\ DirectorySince(saw'[d], directory', spaces')
             /\ MattersSince(saw'[d], matters')
  <2>1. c = d
    BY <1>6, OthersRest
  <2>2. Look(d)
    BY <1>6, <2>1, CallCases DEF Moves, ObserveOwner, SubmitAnswer, ProjectQuestion, Reobserve,
       Refuse, Replays, Replayed, ChangesSpace, CapturesOnly, Places, ChangesMatter, ChangeMatter,
       Acknowledges, Done
  <2>3. saw'[d] = Custody
    BY <2>2 DEF Look, Shape, TypeOK
  <2> QED
    BY <1>6, <2>3, CallEvolves
<1> QED
  BY <1>4, <1>5, <1>6 DEF Next, OwnerStep

\* A Space at the revision it was seen at has the manifest it was seen with.
LEMMA ManifestAsSeen ==
  ASSUME SeenBefore, NEW c \in Clients, NEW s \in Spaces, SpaceCurrent(c, s)
  PROVE  Manifest(Custody, s) = Manifest(saw[c], s)
<1>1. Custody.spaces = spaces /\ Custody.matters = matters
  BY DEF Custody
<1>2. /\ spaces[s] = saw[c].spaces[s]
      /\ \A m \in Clients : At(saw[c].matters, m, s) \/ At(matters, m, s) => matters[m] = saw[c].matters[m]
  BY DEF SeenBefore, SpacesSince, SpaceCurrent
<1>3. Shown(Custody, s) = Shown(saw[c], s)
  BY <1>1, <1>2 DEF Shown, At
<1>4. \A m \in Shown(saw[c], s) : Custody.matters[m] = saw[c].matters[m]
  BY <1>1, <1>2 DEF Shown, At
<1>5. {<<m, Custody.matters[m]>> : m \in Shown(Custody, s)}
        = {<<m, saw[c].matters[m]>> : m \in Shown(saw[c], s)}
  BY <1>3, <1>4
<1> QED
  BY <1>1, <1>2, <1>5 DEF Manifest

\* A call that changes something changes what its client saw.
LEMMA DecisionStep ==
  ASSUME Shape, SeenBefore, NEW c \in Clients, Call(c), told[c] = "nothing", told'[c] = "changed"
  PROVE  ~Unseen(c)
<1>1. CASE ChangesSpace(c)
  <2>1. CASE task[c].kind = "create"
    <3>1. directory = saw[c].directory
      BY <1>1, <2>1 DEF ChangesSpace, DirectoryCurrent
    <3> QED
      BY <2>1, <3>1 DEF SeenBefore, DirectorySince, Unseen
  <2>2. CASE task[c].kind # "create"
    <3>1. /\ task[c].kind \in {"retire", "associate", "dissociate"}
          /\ task[c].space \in Spaces /\ SpaceCurrent(c, task[c].space)
      BY <1>1, <2>2 DEF ChangesSpace
    <3>2. Manifest(Custody, task[c].space) = Manifest(saw[c], task[c].space)
      BY <3>1, ManifestAsSeen
    <3> QED
      BY <3>1, <3>2 DEF Unseen
  <2> QED
    BY <2>1, <2>2
<1>2. CASE CapturesOnly(c)
  BY <1>2 DEF CapturesOnly, Acts, Unseen
<1>3. CASE Places(c)
  <2>1. /\ task[c].kind \in {"capture", "place"}
        /\ task[c].space \in Spaces /\ SpaceCurrent(c, task[c].space)
    BY <1>3 DEF Places, NewMatter, Acts
  <2>2. Manifest(Custody, task[c].space) = Manifest(saw[c], task[c].space)
    BY <2>1, ManifestAsSeen
  <2> QED
    BY <2>1, <2>2, CustodyAssumption DEF Unseen
<1>4. CASE ChangesMatter(c)
  <2>1. task[c].kind \in MatterKinds /\ MatterCurrent(c) /\ pc[c] = "act" /\ subject[c] \in Clients
    BY <1>4 DEF ChangesMatter, ChangeMatter, Shape, TypeOK
  <2>2. saw[c].matters[subject[c]] # NoMatter
    BY <2>1 DEF Shape, LookedAt
  <2>3. matters[subject[c]] = saw[c].matters[subject[c]]
    BY <2>1, <2>2 DEF SeenBefore, MattersSince, MatterCurrent
  <2> QED
    BY <2>1, <2>3 DEF Unseen, MatterKinds
<1>5. CASE Acknowledges(c)
  BY <1>5 DEF Acknowledges, Acts, Unseen
<1>6. CASE Moves(c) \/ Refuse(c) \/ Replays(c)
  BY <1>6 DEF Moves, ObserveOwner, Look, SubmitAnswer, ProjectQuestion, Reobserve, Refuse, Replays,
     Replayed, Finish, Shape, TypeOK
<1> QED
  BY <1>1, <1>2, <1>3, <1>4, <1>5, <1>6, CallCases

\* At first a client has seen what there is.
LEMMA SeenInit == Init => SeenBefore
<1> SUFFICES ASSUME Init, NEW c \in Clients
             PROVE  /\ SpacesSince(saw[c], spaces, matters)
                    /\ DirectorySince(saw[c], directory, spaces)
                    /\ MattersSince(saw[c], matters)
  BY DEF SeenBefore
<1>1. saw[c].spaces = spaces /\ saw[c].matters = matters /\ saw[c].directory = directory
  BY DEF Init, Custody
<1>2. directory \in Nat /\ \A s \in Spaces : spaces[s].revision \in Nat
  BY TypeInit DEF TypeOK, Space
<1>3. \A m \in Clients : matters[m] = NoMatter
  BY DEF Init
<1> QED
  BY <1>1, <1>2, <1>3 DEF SpacesSince, DirectorySince, MattersSince

\* A decision with the revisions a client saw is a decision about what it saw:
\* nothing that it was shown can have changed without changing a revision.
THEOREM DecisionsCorrect == Spec => DecisionsAreSeen
<1>1. Init => SeenBefore
  BY SeenInit
<1>2. Shape /\ SeenBefore /\ [Next]_vars => SeenBefore'
  BY SeenStep
<1>3. Shape /\ SeenBefore /\ [Next]_vars =>
        [\A c \in Clients : told[c] = "nothing" /\ told'[c] = "changed" => ~Unseen(c)]_vars
  BY ToldOnce, DecisionStep
<1> QED
  BY <1>1, <1>2, <1>3, ShapeAlways, PTL DEF Spec, DecisionsAreSeen

-------------------------------------------------------------------------------
\* Baselines advance

\* The Spaces a client is to acknowledge are at the revisions it saw, and so is the
\* directory if it is to acknowledge all of them.
StillAsSeen(c) ==
  LET x == task[c].space IN
  /\ \A s \in Represented(saw[c], x) : spaces[s].revision = saw[c].spaces[s].revision
  /\ x = Global => directory = saw[c].directory

Rendered(c) == View(saw[c], task[c].space, observed[c])

\* What is shown in a baseline was so before, once for every Space, and no client is ahead.
BaselinesArePast ==
  /\ \A x \in Scopes :
       /\ \A a \in baselines[x].view.spaces : a.space.revision <= spaces[a.id].revision
       /\ \A a, b \in baselines[x].view.spaces : a.id = b.id => a = b
       /\ baselines[x].view.observed <= currentness
  /\ \A c \in Clients : /\ observed[c] <= currentness
                        /\ \A x \in Scopes : saw[c].acknowledged[x] <= baselines[x].revision
                        /\ pc[c] \in {"submit", "project"} => task[c].kind # "acknowledge"

\* The observation of a client that may still acknowledge what it saw is not older than that
\* of the baseline, which was there when the owner was asked again.
ObservedSince ==
  \A c \in Clients : LET x == task[c].space IN
    /\ pc[c] = "act" /\ task[c].kind = "acknowledge"
    /\ BaselineCurrent(c, x) /\ StillAsSeen(c)
    => Rendered(c).observed = 0 \/ baselines[x].view.observed <= Rendered(c).observed

AdvanceInv == Shape /\ SeenBefore /\ BaselinesArePast /\ ObservedSince

\* The client acknowledges a view, as it is composed now and as it was seen.
Advances(c) ==
  LET x == task[c].space  view == View(Custody, x, observed[c]) IN
  /\ Acts(c, "acknowledge") /\ BaselineCurrent(c, x) /\ view = Rendered(c)
  /\ baselines' = [baselines EXCEPT ![x] = [Bump(@) EXCEPT !.view = view]]
  /\ UNCHANGED <<directory, spaces, matters>>

\* Nothing but an acknowledgement changes a baseline.
LEMMA BaselineSteps ==
  ASSUME NEW c \in Clients, Call(c)
  PROVE  UNCHANGED baselines \/ Advances(c)
<1>1. CASE Acknowledge(c)
  BY <1>1 DEF Acknowledge, Advances, Replayed, store, Rendered
<1>2. CASE ~Acknowledge(c)
  BY <1>2 DEF Call, Done, Replayed, Associate, ChangeMatter, ObserveOwner, Look, Refuse, CreateSpace,
     RetireSpace, SetAssociation, RemoveAssociation, Capture, Place, Transition, LinkQuestion, SubmitAnswer,
     RecordAnswer, ProjectQuestion, CloseQuestion, Reobserve, store
<1> QED
  BY <1>1, <1>2

\* The scope of a task is Global or a Space, and what its client saw is represented by Spaces.
LEMMA RepresentedFacts ==
  ASSUME TypeOK, NEW c \in Clients, task[c].kind = "acknowledge"
  PROVE  /\ task[c].space \in Scopes /\ observed[c] \in Nat /\ saw[c] \in SawType
         /\ \A k : Represented(k, task[c].space) \subseteq Spaces
  BY TaskFacts DEF TypeOK, SawType, Represented, Scopes

\* The view composed now and the one that was seen are the same only if nothing it shows
\* has another revision.
LEMMA SameViewAsSeen ==
  ASSUME TypeOK, NEW c \in Clients, task[c].kind = "acknowledge",
         View(Custody, task[c].space, observed[c]) = Rendered(c)
  PROVE  StillAsSeen(c)
<1> DEFINE x == task[c].space
           now  == {Manifest(Custody, s) : s \in Represented(Custody, x)}
           then == {Manifest(saw[c], s) : s \in Represented(saw[c], x)}
<1>1. now = then /\ (x = Global => directory = saw[c].directory)
  BY DEF View, Rendered, Custody
<1>2. ASSUME NEW s \in Represented(saw[c], x)
      PROVE  spaces[s].revision = saw[c].spaces[s].revision
  <2>1. Manifest(saw[c], s) \in now
    BY <1>1
  <2>2. PICK r \in Represented(Custody, x) : Manifest(saw[c], s) = Manifest(Custody, r)
    BY <2>1
  <2>3. Manifest(Custody, r).id = r /\ Manifest(saw[c], s).id = s
    BY DEF Manifest
  <2>4. Manifest(Custody, r).space = spaces[r] /\ Manifest(saw[c], s).space = saw[c].spaces[s]
    BY DEF Manifest, Custody
  <2> QED
    BY <2>2, <2>3, <2>4
<1> QED
  BY <1>1, <1>2 DEF StillAsSeen

\* A view of Spaces at the revisions that were seen has the observation that was seen.
LEMMA SameObservation ==
  ASSUME TypeOK, SeenBefore, NEW c \in Clients, task[c].kind = "acknowledge", StillAsSeen(c)
  PROVE  View(Custody, task[c].space, observed[c]).observed = Rendered(c).observed
<1> DEFINE x == task[c].space
<1>1. Represented(Custody, x) = Represented(saw[c], x)
  <2>1. CASE x = Global
    <3>1. \A s \in Spaces : spaces[s].lifecycle = saw[c].spaces[s].lifecycle
      BY <2>1 DEF StillAsSeen, SeenBefore, DirectorySince
    <3> QED
      BY <3>1 DEF Represented, Custody
  <2>2. CASE x # Global
    BY <2>2 DEF Represented
  <2> QED
    BY <2>1, <2>2
<1>2. ASSUME NEW s \in Represented(saw[c], x)
      PROVE  Shown(Custody, s) = Shown(saw[c], s)
  <2>1. s \in Spaces /\ saw[c].spaces[s].revision = spaces[s].revision
    BY <1>2, RepresentedFacts DEF StillAsSeen
  <2>2. \A m \in Clients : At(saw[c].matters, m, s) \/ At(matters, m, s) => matters[m] = saw[c].matters[m]
    BY <2>1 DEF SeenBefore, SpacesSince
  <2> QED
    BY <2>2 DEF Shown, At, Custody
<1> QED
  BY <1>1, <1>2 DEF View, Rendered

\* What is still as a client saw it after a step was so before it.
LEMMA SeenStillBefore ==
  ASSUME Shape, SeenBefore, TypeOK', NEW c \in Clients, task[c].kind = "acknowledge",
         SpacesSince(Custody, spaces', matters'), DirectorySince(Custody, directory', spaces'),
         UNCHANGED task, saw'[c] = saw[c], StillAsSeen(c)'
  PROVE  StillAsSeen(c)
<1>1. /\ \A s \in Spaces : saw[c].spaces[s].revision \in Nat /\ spaces[s].revision \in Nat
                           /\ spaces'[s].revision \in Nat
      /\ saw[c].directory \in Nat /\ directory \in Nat /\ directory' \in Nat
  BY DEF Shape, TypeOK, Space
<1>2. /\ \A s \in Spaces : saw[c].spaces[s].revision <= spaces[s].revision
                           /\ spaces[s].revision <= spaces'[s].revision
      /\ saw[c].directory <= directory /\ directory <= directory'
  BY DEF SeenBefore, SpacesSince, DirectorySince, Custody
<1>3. Represented(saw[c], task[c].space) \subseteq Spaces
  BY RepresentedFacts DEF Shape
<1> QED
  BY <1>1, <1>2, <1>3 DEF StillAsSeen

\* What is in a view of the store is the store's.
LEMMA ViewIsNow ==
  ASSUME NEW x, NEW o
  PROVE  /\ \A a \in View(Custody, x, o).spaces : a.space = spaces[a.id]
         /\ \A a, b \in View(Custody, x, o).spaces : a.id = b.id => a = b
         /\ View(Custody, x, o).observed \in {0, o}
<1>1. \A s : Manifest(Custody, s).id = s /\ Manifest(Custody, s).space = spaces[s]
  BY DEF Manifest, Custody
<1>2. View(Custody, x, o).spaces = {Manifest(Custody, s) : s \in Represented(Custody, x)}
  BY DEF View
<1>3. View(Custody, x, o).observed \in {0, o}
  BY DEF View
<1> QED
  BY <1>1, <1>2, <1>3

\* An acknowledged view replaces the baseline and is the next of it.
LEMMA AdvancedBaseline ==
  ASSUME TypeOK, NEW c \in Clients, Advances(c)
  PROVE  LET x == task[c].space IN
         /\ x \in Scopes /\ baselines'[x].view = View(Custody, x, observed[c])
         /\ baselines'[x].revision = baselines[x].revision + 1
         /\ \A y \in Scopes : y # x => baselines'[y] = baselines[y]
<1> DEFINE x == task[c].space
<1>1. x \in Scopes /\ baselines[x] \in [revision: Nat, view: Views] /\ DOMAIN baselines = Scopes
  BY TaskFacts DEF TypeOK
<1> DEFINE b == baselines[x]  view == View(Custody, x, observed[c])
<1>2. baselines' = [baselines EXCEPT ![x] = [Bump(b) EXCEPT !.view = view]]
  BY DEF Advances
<1> HIDE DEF x, view
<1>3. [Bump(b) EXCEPT !.view = view].view = view /\ [Bump(b) EXCEPT !.view = view].revision = b.revision + 1
  BY <1>1 DEF Bump
<1> HIDE DEF b
<1> QED
  BY <1>1, <1>2, <1>3 DEF b, x, view

\* A baseline that advances shows nothing at an earlier revision.
LEMMA AdvanceStep ==
  ASSUME AdvanceInv, NEW c \in Clients, Advances(c)
  PROVE  LET x == task[c].space  old == baselines[x].view  new == baselines'[x].view IN
         /\ \A a \in old.spaces, b \in new.spaces : a.id = b.id => a.space.revision <= b.space.revision
         /\ new.observed = 0 \/ old.observed <= new.observed
<1> DEFINE x == task[c].space
<1>1. x \in Scopes /\ baselines'[x].view = View(Custody, x, observed[c])
  BY AdvancedBaseline DEF AdvanceInv, Shape
<1>2. \A a \in baselines[x].view.spaces : a.space.revision <= spaces[a.id].revision
  BY <1>1 DEF AdvanceInv, BaselinesArePast
<1>3. \A b \in baselines'[x].view.spaces : b.space = spaces[b.id]
  BY <1>1, ViewIsNow
<1>4. task[c].kind = "acknowledge" /\ pc[c] = "act" /\ View(Custody, x, observed[c]) = Rendered(c)
      /\ BaselineCurrent(c, x)
  BY DEF Advances, Acts
<1>5. StillAsSeen(c)
  BY <1>4, SameViewAsSeen DEF AdvanceInv, Shape
<1>6. baselines'[x].view.observed = 0 \/ baselines[x].view.observed <= baselines'[x].view.observed
  BY <1>1, <1>4, <1>5 DEF AdvanceInv, ObservedSince
<1> QED
  BY <1>2, <1>3, <1>6

\* The revisions of Spaces and baselines, and the owner, only move on.
LEMMA MovesOn ==
  ASSUME AdvanceInv, [Next]_vars
  PROVE  /\ SpacesSince(Custody, spaces', matters') /\ DirectorySince(Custody, directory', spaces')
         /\ \A x \in Scopes : /\ baselines[x].revision <= baselines'[x].revision
                              /\ baselines[x].revision = baselines'[x].revision => baselines'[x] = baselines[x]
         /\ currentness <= currentness'
<1>n. /\ \A x \in Scopes : baselines[x].revision \in Nat
      /\ \A s \in Spaces : spaces[s].revision \in Nat
      /\ currentness \in Nat /\ directory \in Nat
  BY DEF AdvanceInv, Shape, TypeOK, Space
<1>1. CASE UNCHANGED <<store, currentness>>
  BY <1>1, <1>n DEF store, SpacesSince, DirectorySince, Custody
<1>2. CASE OwnerStep
  BY <1>2, <1>n DEF OwnerStep, OwnerMoves, OwnerCloses, store, SpacesSince, DirectorySince, Custody
<1>3. ASSUME NEW c \in Clients, Call(c)
      PROVE  /\ SpacesSince(Custody, spaces', matters') /\ DirectorySince(Custody, directory', spaces')
             /\ \A x \in Scopes : /\ baselines[x].revision <= baselines'[x].revision
                                  /\ baselines[x].revision = baselines'[x].revision => baselines'[x] = baselines[x]
             /\ currentness <= currentness'
  <2>1. SpacesSince(Custody, spaces', matters') /\ DirectorySince(Custody, directory', spaces')
    BY <1>3, CallEvolves DEF AdvanceInv
  <2>2. currentness' = currentness
    BY <1>3 DEF Call, Done, Replayed, Associate, ChangeMatter, ObserveOwner, Look, Refuse, CreateSpace,
       RetireSpace, SetAssociation, RemoveAssociation, Capture, Place, Transition, LinkQuestion, SubmitAnswer,
       RecordAnswer, ProjectQuestion, CloseQuestion, Reobserve, Acknowledge, owner
  <2>3. \A x \in Scopes : /\ baselines[x].revision <= baselines'[x].revision
                          /\ baselines[x].revision = baselines'[x].revision => baselines'[x] = baselines[x]
    <3>1. CASE UNCHANGED baselines
      BY <3>1, <1>n
    <3>2. CASE Advances(c)
      BY <3>2, <1>n, AdvancedBaseline DEF AdvanceInv, Shape
    <3> QED
      BY <1>3, <3>1, <3>2, BaselineSteps
  <2> QED
    BY <2>1, <2>2, <2>3, <1>n
<1> QED
  BY <1>1, <1>2, <1>3 DEF Next, OwnerStep, vars, owner

\* A client's observation changes only when it observes, what it saw only when it looks.
LEMMA ClientMoves ==
  ASSUME Shape, NEW c \in Clients, Call(c), NEW d \in Clients
  PROVE  /\ observed'[d] \in {observed[d], 0, currentness}
         /\ observed'[d] # observed[d] => pc'[d] = "compose"
         /\ saw'[d] # saw[d] => saw'[d] = Custody /\ Look(d)
         /\ pc'[d] # pc[d] => d = c
<1>1. observed'[d] \in {observed[d], 0, currentness} /\ (observed'[d] # observed[d] => pc'[d] = "compose")
  <2>1. CASE ObserveOwner(c)
    BY <2>1 DEF ObserveOwner, Goto, Shape, TypeOK
  <2>2. CASE ~ObserveOwner(c)
    BY <2>2 DEF Call, Done, Replayed, Associate, ChangeMatter, Look, Refuse, CreateSpace,
       RetireSpace, SetAssociation, RemoveAssociation, Capture, Place, Transition, LinkQuestion, SubmitAnswer,
       RecordAnswer, ProjectQuestion, CloseQuestion, Reobserve, Acknowledge
  <2> QED
    BY <2>1, <2>2
<1>2. CASE Look(c)
  BY <1>1, <1>2, OthersRest, ZenonT(60) DEF Look, Shape, TypeOK
<1>3. CASE ~Look(c)
  <2>1. UNCHANGED saw
    BY <1>3 DEF Call, Done, Replayed, Associate, ChangeMatter, ObserveOwner, Refuse, CreateSpace,
       RetireSpace, SetAssociation, RemoveAssociation, Capture, Place, Transition, LinkQuestion, SubmitAnswer,
       RecordAnswer, ProjectQuestion, CloseQuestion, Reobserve, Acknowledge
  <2> QED
    BY <1>1, <2>1, OthersRest
<1> QED
  BY <1>2, <1>3

\* Where a client that is to acknowledge goes.
LEMMA AcknowledgerMoves ==
  ASSUME Shape, NEW c \in Clients, Call(c), task[c].kind = "acknowledge",
         pc[c] \notin {"submit", "project"}
  PROVE  /\ pc'[c] \notin {"submit", "project"}
         /\ pc'[c] = "act" => Reobserve(c)
<1> USE DEF Shape, TypeOK, Goto, Finish
<1>1. CASE ObserveOwner(c) \/ Look(c) \/ Refuse(c) \/ Reobserve(c) \/ SubmitAnswer(c) \/ ProjectQuestion(c)
  BY <1>1 DEF ObserveOwner, Look, AfterLook, Refuse, Reobserve, SubmitAnswer, ProjectQuestion
<1>2. CASE ~(ObserveOwner(c) \/ Look(c) \/ Refuse(c) \/ Reobserve(c) \/ SubmitAnswer(c) \/ ProjectQuestion(c))
  <2>1. Done(c) \/ Replayed(c)
    BY <1>2 DEF Call, CreateSpace, RetireSpace, SetAssociation, RemoveAssociation, Associate, Capture, Place,
       Transition, LinkQuestion, RecordAnswer, CloseQuestion, ChangeMatter, Acknowledge
  <2> QED
    BY <2>1 DEF Done, Replayed
<1> QED
  BY <1>1, <1>2

\* A call keeps the baselines behind the store and the clients behind them.
LEMMA PastStep ==
  ASSUME AdvanceInv, [Next]_vars
  PROVE  BaselinesArePast'
<1>n. /\ \A x \in Scopes : baselines[x].revision \in Nat /\ baselines[x].view \in Views
      /\ \A x \in Scopes : baselines'[x].revision \in Nat
      /\ \A s \in Spaces : spaces[s].revision \in Nat /\ spaces'[s].revision \in Nat
      /\ currentness \in Nat /\ currentness' \in Nat
      /\ \A c \in Clients : observed[c] \in Nat /\ \A x \in Scopes : saw[c].acknowledged[x] \in Nat
  BY ShapeStep DEF AdvanceInv, Shape, TypeOK, Space
<1>v. \A x \in Scopes : /\ baselines[x].view.observed \in Nat
                        /\ \A a \in baselines[x].view.spaces : a.id \in Spaces /\ a.space.revision \in Nat
  BY <1>n DEF Views, Manifests, Space
<1>m. /\ \A s \in Spaces : spaces[s].revision <= spaces'[s].revision
      /\ \A x \in Scopes : baselines[x].revision <= baselines'[x].revision
      /\ currentness <= currentness'
  BY MovesOn DEF SpacesSince, Custody
<1>1. ASSUME NEW x \in Scopes, baselines'[x] = baselines[x]
      PROVE  /\ \A a \in baselines'[x].view.spaces : a.space.revision <= spaces'[a.id].revision
             /\ \A a, b \in baselines'[x].view.spaces : a.id = b.id => a = b
             /\ baselines'[x].view.observed <= currentness'
  BY <1>1, <1>n, <1>v, <1>m DEF AdvanceInv, BaselinesArePast
<1>2. ASSUME NEW c \in Clients, Advances(c)
      PROVE  \A x \in Scopes :
               /\ \A a \in baselines'[x].view.spaces : a.space.revision <= spaces'[a.id].revision
               /\ \A a, b \in baselines'[x].view.spaces : a.id = b.id => a = b
               /\ baselines'[x].view.observed <= currentness'
  <2> DEFINE x == task[c].space
  <2>1. /\ baselines'[x].view = View(Custody, x, observed[c])
        /\ \A y \in Scopes : y # x => baselines'[y] = baselines[y]
    BY <1>2, AdvancedBaseline DEF AdvanceInv, Shape
  <2>2. /\ \A a \in baselines'[x].view.spaces : a.space = spaces[a.id] /\ a.id \in Spaces
        /\ \A a, b \in baselines'[x].view.spaces : a.id = b.id => a = b
        /\ baselines'[x].view.observed \in {0, observed[c]}
    <3>1. View(Custody, x, observed[c]) \in Views
      BY <1>2, ViewType, TaskFacts DEF AdvanceInv, Shape, TypeOK, Scopes
    <3>2. \A a \in View(Custody, x, observed[c]).spaces : a.id \in Spaces
      BY <3>1 DEF Views, Manifests
    <3> QED
      BY <2>1, <3>2, ViewIsNow
  <2>3. observed[c] <= currentness
    BY DEF AdvanceInv, BaselinesArePast
  <2>4. /\ \A a \in baselines'[x].view.spaces : a.space.revision <= spaces'[a.id].revision
        /\ baselines'[x].view.observed <= currentness'
    BY <1>n, <1>m, <2>2, <2>3
  <2> QED
    BY <1>1, <2>1, <2>2, <2>4
<1>3. \A x \in Scopes :
        /\ \A a \in baselines'[x].view.spaces : a.space.revision <= spaces'[a.id].revision
        /\ \A a, b \in baselines'[x].view.spaces : a.id = b.id => a = b
        /\ baselines'[x].view.observed <= currentness'
  <2>1. CASE UNCHANGED baselines
    BY <1>1, <2>1
  <2>2. CASE ~UNCHANGED baselines
    <3>1. \E c \in Clients : Call(c)
      BY <2>2 DEF Next, OwnerMoves, OwnerCloses, vars, store
    <3> QED
      BY <1>2, <2>2, <3>1, BaselineSteps
  <2> QED
    BY <2>1, <2>2
<1>4. ASSUME NEW d \in Clients
      PROVE  /\ observed'[d] <= currentness'
             /\ \A x \in Scopes : saw'[d].acknowledged[x] <= baselines'[x].revision
             /\ pc'[d] \in {"submit", "project"} => task'[d].kind # "acknowledge"
  <2>1. /\ observed[d] <= currentness
        /\ \A x \in Scopes : saw[d].acknowledged[x] <= baselines[x].revision
        /\ pc[d] \in {"submit", "project"} => task[d].kind # "acknowledge"
    BY DEF AdvanceInv, BaselinesArePast
  <2>2. CASE UNCHANGED <<observed, saw, pc, task>>
    BY <2>1, <2>2, <1>n, <1>m
  <2>3. ASSUME NEW c \in Clients, Call(c)
        PROVE  /\ observed'[d] <= currentness'
               /\ \A x \in Scopes : saw'[d].acknowledged[x] <= baselines'[x].revision
               /\ pc'[d] \in {"submit", "project"} => task'[d].kind # "acknowledge"
    <3>1. observed'[d] <= currentness'
      BY <2>1, <2>3, <1>n, <1>m, ClientMoves DEF AdvanceInv
    <3>2. \A x \in Scopes : saw'[d].acknowledged[x] <= baselines'[x].revision
      <4>1. CASE saw'[d] = saw[d]
        BY <4>1, <2>1, <1>n, <1>m
      <4>2. CASE saw'[d] = Custody
        BY <4>2, <1>n, <1>m DEF Custody
      <4> QED
        BY <4>1, <4>2, <2>3, ClientMoves DEF AdvanceInv
    <3>3. task'[d] = task[d]
      BY <2>3, OthersRest DEF AdvanceInv
    <3>4. CASE d = c
      BY <2>1, <2>3, <3>1, <3>2, <3>3, <3>4, AcknowledgerMoves DEF AdvanceInv
    <3>5. CASE d # c
      BY <2>1, <2>3, <3>1, <3>2, <3>3, <3>5, ClientMoves DEF AdvanceInv
    <3> QED
      BY <3>4, <3>5
  <2> QED
    BY <2>2, <2>3 DEF Next, OwnerMoves, OwnerCloses, vars
<1> QED
  BY <1>3, <1>4 DEF BaselinesArePast

\* The owner is asked again after the client looked: whoever may still acknowledge what it
\* saw then has an observation that is not older than the baseline it saw.
LEMMA ObservedStep ==
  ASSUME AdvanceInv, [Next]_vars
  PROVE  ObservedSince'
<1>s. Shape'
  BY ShapeStep DEF AdvanceInv
<1>k. UNCHANGED task
  BY OthersRest DEF AdvanceInv, Next, OwnerMoves, OwnerCloses, vars
<1> SUFFICES ASSUME NEW d \in Clients, pc'[d] = "act", task[d].kind = "acknowledge",
                    baselines'[task[d].space].revision = saw'[d].acknowledged[task[d].space],
                    StillAsSeen(d)'
             PROVE  \/ Rendered(d)'.observed = 0
                    \/ baselines'[task[d].space].view.observed <= Rendered(d)'.observed
  BY <1>k DEF ObservedSince, BaselineCurrent
<1> DEFINE x == task[d].space
<1>x. x \in Scopes
  BY RepresentedFacts DEF AdvanceInv, Shape
<1>c. /\ baselines[x].revision \in Nat /\ baselines'[x].revision \in Nat
      /\ saw[d].acknowledged[x] \in Nat /\ saw[d].acknowledged[x] <= baselines[x].revision
      /\ baselines[x].revision <= baselines'[x].revision
      /\ baselines[x].revision = baselines'[x].revision => baselines'[x] = baselines[x]
  BY <1>s, <1>x, MovesOn DEF AdvanceInv, Shape, TypeOK, BaselinesArePast
<1>1. ASSUME pc[d] = "act", saw'[d] = saw[d], observed'[d] = observed[d]
      PROVE  \/ Rendered(d)'.observed = 0
             \/ baselines'[x].view.observed <= Rendered(d)'.observed
  <2>1. baselines[x].revision = saw[d].acknowledged[x] /\ baselines'[x] = baselines[x]
    BY <1>1, <1>c
  <2>2. StillAsSeen(d)
    BY <1>1, <1>s, <1>k, MovesOn, SeenStillBefore DEF AdvanceInv, Shape
  <2>3. Rendered(d)' = Rendered(d)
    BY <1>1, <1>k DEF Rendered, View, Represented, Manifest, Shown
  <2> QED
    BY <1>1, <2>1, <2>2, <2>3 DEF AdvanceInv, ObservedSince, BaselineCurrent
<1>2. CASE UNCHANGED <<pc, saw, observed>>
  BY <1>1, <1>2
<1>3. ASSUME NEW c \in Clients, Call(c)
      PROVE  \/ Rendered(d)'.observed = 0
             \/ baselines'[x].view.observed <= Rendered(d)'.observed
  <2>1. CASE d # c
    <3>1. pc[d] = "act" /\ saw'[d] = saw[d]
      BY <1>3, <2>1, OthersRest DEF AdvanceInv
    <3>2. observed'[d] = observed[d]
      BY <1>3, ClientMoves DEF AdvanceInv
    <3> QED
      BY <1>1, <3>1, <3>2
  <2>2. CASE d = c
    <3>1. Reobserve(d)
      BY <1>3, <2>2, AcknowledgerMoves DEF AdvanceInv, BaselinesArePast
    <3>2. /\ View(Custody, x, observed[d]).observed \in {0, currentness}
          /\ UNCHANGED <<store, saw, observed>>
      BY <3>1 DEF Reobserve
    <3>3. StillAsSeen(d)
      BY <1>k, <3>2 DEF StillAsSeen, Represented, store
    <3>4. Rendered(d).observed \in {0, currentness}
      BY <3>2, <3>3, SameObservation DEF AdvanceInv, Shape
    <3>5. Rendered(d)' = Rendered(d) /\ baselines'[x] = baselines[x]
      BY <1>k, <3>2 DEF Rendered, View, Represented, Manifest, Shown, store
    <3>6. baselines[x].view.observed <= currentness
      BY <1>x DEF AdvanceInv, BaselinesArePast
    <3> QED
      BY <3>4, <3>5, <3>6
  <2> QED
    BY <2>1, <2>2
<1> QED
  BY <1>2, <1>3 DEF Next, OwnerMoves, OwnerCloses, vars

\* An acknowledged baseline never shows less than the one it replaces, a Space or an owner at
\* an earlier revision, although its view was rendered and its owner observed long before:
\* the revision of the baseline that the client saw ties the observation to that baseline.
THEOREM BaselinesCorrect == Spec => BaselinesAdvance
<1>1. Init => Shape /\ SeenBefore /\ BaselinesArePast /\ ObservedSince
  <2> SUFFICES ASSUME Init PROVE Shape /\ SeenBefore /\ BaselinesArePast /\ ObservedSince
    OBVIOUS
  <2>1. Shape /\ SeenBefore
    BY ShapeInit, SeenInit
  <2>2. BaselinesArePast
    <3>1. \A x \in Scopes : baselines[x].view = NoView /\ baselines[x].revision = 0
      BY DEF Init
    <3>2. \A c \in Clients : /\ observed[c] = 0 /\ pc[c] = "look"
                             /\ \A x \in Scopes : saw[c].acknowledged[x] = 0
      <4>1. \A c \in Clients : saw[c] = Custody /\ observed[c] = 0 /\ pc[c] = "look"
        BY DEF Init
      <4>2. \A x \in Scopes : Custody.acknowledged[x] = baselines[x].revision
        BY DEF Custody
      <4> QED
        BY <3>1, <4>1, <4>2
    <3>3. currentness = 1
      BY DEF Init
    <3> QED
      BY <3>1, <3>2, <3>3 DEF BaselinesArePast, NoView
  <2>3. ObservedSince
    BY DEF Init, ObservedSince
  <2> QED
    BY <2>1, <2>2, <2>3
<1>2. AdvanceInv /\ [Next]_vars => AdvanceInv'
  BY ShapeStep, SeenStep, PastStep, ObservedStep DEF AdvanceInv
<1>3. AdvanceInv /\ [Next]_vars =>
        [\A x \in Scopes : LET old == baselines[x].view  new == baselines'[x].view IN
           /\ \A a \in old.spaces, b \in new.spaces : a.id = b.id => a.space.revision <= b.space.revision
           /\ new.observed = 0 \/ old.observed <= new.observed]_vars
  <2> SUFFICES ASSUME AdvanceInv, Next, NEW x \in Scopes
               PROVE  LET old == baselines[x].view  new == baselines'[x].view IN
                      /\ \A a \in old.spaces, b \in new.spaces : a.id = b.id =>
                           a.space.revision <= b.space.revision
                      /\ new.observed = 0 \/ old.observed <= new.observed
    OBVIOUS
  <2>1. CASE baselines'[x] = baselines[x]
    <3>1. baselines[x].view \in Views
      BY DEF AdvanceInv, Shape, TypeOK
    <3>2. baselines[x].view.observed \in Nat /\ \A a \in baselines[x].view.spaces : a.space.revision \in Nat
      BY <3>1 DEF Views, Manifests, Space
    <3> QED
      BY <2>1, <3>2 DEF AdvanceInv, BaselinesArePast
  <2>2. CASE baselines'[x] # baselines[x]
    <3>1. PICK c \in Clients : Call(c)
      BY <2>2 DEF Next, OwnerMoves, OwnerCloses, store
    <3>2. Advances(c)
      BY <2>2, <3>1, BaselineSteps
    <3>3. x = task[c].space
      BY <2>2, <3>2, AdvancedBaseline DEF AdvanceInv, Shape
    <3> QED
      BY <3>2, <3>3, AdvanceStep
  <2> QED
    BY <2>1, <2>2
<1> QED
  BY <1>1, <1>2, <1>3, PTL DEF Spec, BaselinesAdvance, AdvanceInv

-------------------------------------------------------------------------------
\* The store below it: transactions, of which processes are killed or end

CONSTANTS Procs, NoLock, MaxKilled

VARIABLES lock, contents, draft, seen, writing, outcome, killed

S == INSTANCE StewardStore WITH pc <- writing, answer <- outcome

\* A transaction that has created the lock file and not released it owns it.
HolderOwnsLock == \A p \in Procs : writing[p] \in S!Holding => lock # NoLock /\ lock.by = p

\* The draft about to be renamed is the database with the transaction's change.
DraftIsFresh == \A p \in Procs : writing[p] = "rename" => draft[p] = contents \cup {p}

\* The file contains exactly the changes of the transactions that said so.
StoreMatchesAnswers ==
  \A p \in Procs :
    /\ p \in contents => writing[p] \in {"own", "free", "done"} /\ outcome[p] = "success"
    /\ outcome[p] = "success" => p \in contents

NobodyUnlinks == \A p \in Procs : writing[p] \notin {"recheck", "unlink"}

StoreUndisturbed == HolderOwnsLock /\ DraftIsFresh /\ StoreMatchesAnswers /\ NobodyUnlinks

\* No transaction has come upon a dead holder's lock.
NobodyMetDead == \A p \in Procs : seen[p] = {}

StoreInv == S!TypeOK /\ (NobodyMetDead => StoreUndisturbed)

-------------------------------------------------------------------------------
\* A lock file of a process is a lock, and names that process.
LEMMA LockOf ==
  ASSUME S!StoreConstants, NEW p \in Procs
  PROVE  /\ [by |-> p, written |-> FALSE] \in S!Locks \ {NoLock}
         /\ [by |-> p, written |-> TRUE] \in S!Locks \ {NoLock}
<1>1. [by |-> p, written |-> FALSE] \in S!Locks /\ [by |-> p, written |-> TRUE] \in S!Locks
  BY DEF S!Locks
<1> QED
  BY <1>1 DEF S!StoreConstants

\* The initial state is of the declared types.
LEMMA StoreTypeInit == S!Init => S!TypeOK
  BY DEF S!Init, S!TypeOK, S!Labels, S!Answers

\* Every step, a kill included, keeps the types.
LEMMA StoreTypeStep == S!StoreConstants /\ S!TypeOK /\ [S!Next]_(S!vars) => S!TypeOK'
<1> SUFFICES ASSUME S!StoreConstants, S!TypeOK, [S!Next]_(S!vars) PROVE S!TypeOK'
  OBVIOUS
<1> USE DEF S!StoreConstants, S!TypeOK, S!Labels, S!Answers, S!Goto, S!Say
<1>1. ASSUME NEW p \in Procs, S!Step(p) PROVE S!TypeOK'
  <2> USE <1>1
  <2>1. CASE S!Create(p)
    <3>1. lock' \in S!Locks \cup {NoLock}
      BY <2>1, LockOf DEF S!Create, S!CreateExclusive
    <3> QED
      BY <2>1, <3>1 DEF S!Step, S!Create, S!CreateExclusive
  <2>2. CASE S!Publish(p)
    <3>1. lock' \in S!Locks \cup {NoLock}
      BY <2>2, LockOf DEF S!Publish
    <3> QED
      BY <2>2, <3>1 DEF S!Step, S!Publish
  <2>3. CASE S!ReadHolder(p)
    BY <2>3 DEF S!Step, S!ReadHolder, S!Dead
  <2>4. CASE S!Recheck(p)
    BY <2>4 DEF S!Step, S!Recheck
  <2>5. CASE S!UnlinkStale(p)
    BY <2>5 DEF S!Step, S!UnlinkStale
  <2>6. CASE S!Wait(p)
    BY <2>6 DEF S!Step, S!Wait, S!GiveUpOrRetry
  <2>7. CASE S!CallAgain(p)
    BY <2>7 DEF S!Step, S!CallAgain
  <2>8. CASE S!Read(p)
    BY <2>8 DEF S!Step, S!Read
  <2>9. CASE S!Rename(p)
    BY <2>9 DEF S!Step, S!Rename
  <2>10. CASE S!CheckOwn(p)
    BY <2>10 DEF S!Step, S!CheckOwn
  <2>11. CASE S!Free(p)
    BY <2>11 DEF S!Step, S!Free
  <2>12. CASE S!Unrecovered(p)
    BY <2>12 DEF S!Step, S!Unrecovered, S!RecoveryFails, S!HolderUnread
  <2> QED
    BY <2>1, <2>2, <2>3, <2>4, <2>5, <2>6, <2>7, <2>8, <2>9, <2>10, <2>11, <2>12 DEF S!Step, S!Unrecovered
<1>2. ASSUME NEW p \in Procs, S!Kill(p) PROVE S!TypeOK'
  BY <1>2 DEF S!Kill
<1>3. CASE UNCHANGED S!vars
  BY <1>3 DEF S!vars
<1> QED
  BY <1>1, <1>2, <1>3 DEF S!Next

\* The lock, the file, the drafts and the transactions always hold values of their
\* declared kinds, and no transaction has taken a living process to be dead.
THEOREM StoreTypeCorrect ==
  ASSUME S!StoreConstants
  PROVE  S!Spec => []S!TypeOK
  BY StoreTypeInit, StoreTypeStep, PTL DEF S!Spec

-------------------------------------------------------------------------------
\* Nobody owns the lock, and nothing was answered, in the initial state.
LEMMA StoreUndisturbedInit == S!Init => StoreUndisturbed
  BY DEF S!Init, StoreUndisturbed, HolderOwnsLock, DraftIsFresh, StoreMatchesAnswers, NobodyUnlinks,
         S!Holding

\* A step of a transaction that comes upon no dead holder leaves every other holder its
\* lock and every other draft fresh.
LEMMA StoreUndisturbedStep ==
  ASSUME S!StoreConstants, S!TypeOK, StoreUndisturbed, NobodyMetDead', NEW p \in Procs, S!Step(p)
  PROVE  StoreUndisturbed'
<1> USE DEF S!StoreConstants, S!TypeOK, StoreUndisturbed, NobodyUnlinks, HolderOwnsLock, DraftIsFresh,
      StoreMatchesAnswers,
        S!Holding, S!Locks, S!Goto, S!Say
<1>1. CASE S!Create(p)
  <2>1. CASE S!CreateExclusive(p) /\ outcome' = outcome /\ lock = NoLock
    <3>1. lock' # NoLock /\ lock'.by = p
      BY <2>1, LockOf DEF S!CreateExclusive
    <3> QED
      BY <1>1, <2>1, <3>1 DEF S!Create, S!CreateExclusive
  <2>2. CASE S!CreateExclusive(p) /\ outcome' = outcome /\ lock # NoLock
    BY <1>1, <2>2 DEF S!Create, S!CreateExclusive
  <2>3. CASE lock' = lock /\ S!Goto(p, "done") /\ S!Say(p, "failed")
    BY <1>1, <2>3 DEF S!Create
  <2> QED
    BY <1>1, <2>1, <2>2, <2>3 DEF S!Create
<1>2. CASE S!Publish(p)
  <2>1. lock # NoLock /\ lock.by = p
    BY <1>2 DEF S!Publish
  <2>2. lock' # NoLock /\ lock'.by = p
    BY <1>2, <2>1, LockOf DEF S!Publish
  <2> QED
    BY <1>2, <2>1, <2>2 DEF S!Publish
<1>3. CASE S!ReadHolder(p)
  <2>1. seen'[p] = {}
    BY DEF NobodyMetDead
  <2>2. seen' # [seen EXCEPT ![p] = {lock.by}]
    BY <2>1
  <2> QED
    BY <1>3, <2>2 DEF S!ReadHolder
<1>4. CASE S!Recheck(p)
  BY <1>4 DEF S!Recheck
<1>5. CASE S!UnlinkStale(p)
  BY <1>5 DEF S!UnlinkStale
<1>6. CASE S!Wait(p)
  BY <1>6 DEF S!Wait, S!GiveUpOrRetry
<1>7. CASE S!CallAgain(p)
  BY <1>7 DEF S!CallAgain
<1>8. CASE S!Read(p)
  BY <1>8 DEF S!Read
<1>9. CASE S!Rename(p)
  \* No other transaction holds the lock, so no other draft becomes stale.
  <2>1. \A q \in Procs : writing[q] \in S!Holding => q = p
    BY <1>9 DEF S!Rename
  <2> QED
    BY <1>9, <2>1 DEF S!Rename
<1>10. CASE S!CheckOwn(p)
  BY <1>10 DEF S!CheckOwn
<1>11. CASE S!Free(p)
  BY <1>11 DEF S!Free
<1>12. CASE S!Unrecovered(p)
  BY <1>12 DEF S!Unrecovered, S!RecoveryFails, S!HolderUnread
<1> QED
  BY <1>1, <1>2, <1>3, <1>4, <1>5, <1>6, <1>7, <1>8, <1>9, <1>10, <1>11, <1>12 DEF S!Step, S!Unrecovered

\* What a transaction has come upon is not forgotten.
LEMMA SeenStays ==
  ASSUME S!TypeOK, [S!Next]_(S!vars), NobodyMetDead' PROVE NobodyMetDead
<1> SUFFICES ASSUME NEW q \in Procs PROVE seen[q] = {}
  BY DEF NobodyMetDead
<1>1. seen'[q] = {}
  BY DEF NobodyMetDead
<1>2. seen' = seen \/ \E p \in Procs : seen' = [seen EXCEPT ![p] = {lock.by}]
  BY DEF S!Next, S!Step, S!Create, S!Publish, S!ReadHolder, S!HolderUnread, S!Recheck, S!UnlinkStale,
         S!RecoveryFails, S!Wait, S!CallAgain, S!Read, S!Rename, S!CheckOwn, S!Free, S!Kill, S!vars
<1>3. ASSUME NEW p \in Procs, seen' = [seen EXCEPT ![p] = {lock.by}] PROVE seen[q] = {}
  BY <1>1, <1>3 DEF S!TypeOK
<1> QED
  BY <1>1, <1>2, <1>3

\* The inductive invariant is kept: by a kill because it leaves the locks alone, by a step
\* that comes upon the lock of the dead because it then promises nothing.
LEMMA StoreInvStep == S!StoreConstants /\ StoreInv /\ [S!Next]_(S!vars) => StoreInv'
<1> SUFFICES ASSUME S!StoreConstants, StoreInv, [S!Next]_(S!vars), NobodyMetDead' PROVE StoreUndisturbed'
  BY StoreTypeStep DEF StoreInv
<1>1. S!TypeOK /\ StoreUndisturbed
  BY SeenStays DEF StoreInv
<1>2. ASSUME NEW p \in Procs, S!Step(p) PROVE StoreUndisturbed'
  BY <1>1, <1>2, StoreUndisturbedStep
<1>3. CASE UNCHANGED <<lock, contents, draft, seen, writing, outcome>>
  BY <1>1, <1>3 DEF StoreUndisturbed, HolderOwnsLock, DraftIsFresh, StoreMatchesAnswers, NobodyUnlinks
<1> QED
  BY <1>2, <1>3 DEF S!Next, S!Kill, S!vars

\* As long as no transaction has come upon the lock of a dead holder, every one that answered
\* with success finds its change in the store for good, and none of a transaction that was
\* refused is in it, however many processes compete and are killed.
THEOREM ChangesAreKept ==
  ASSUME S!StoreConstants
  PROVE  S!Spec => []S!NoLostUpdate
<1>1. S!Init => StoreInv
  BY StoreTypeInit, StoreUndisturbedInit DEF StoreInv
<1>2. StoreInv => S!NoLostUpdate
  BY DEF StoreInv, NobodyMetDead, S!NoLostUpdate, S!AnswersAreDurable, StoreUndisturbed, StoreMatchesAnswers
<1> QED
  BY <1>1, <1>2, StoreInvStep, PTL DEF S!Spec
===============================================================================
