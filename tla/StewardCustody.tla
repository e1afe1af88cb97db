------------------------------ MODULE StewardCustody ------------------------------
(***************************************************************************)
(* What the Steward keeps: Spaces, captured Intakes, the Matters placed in *)
(* Spaces, the Questions linked to Matters, and the Portfolio baselines    *)
(* the Architect has acknowledged.                                         *)
(*                                                                         *)
(* A client looks (one read of the store, and for a view an observation of *)
(* the owner), then calls with the revisions it saw.  A transaction of the *)
(* store is one step (module StewardStore); a call that also asks an owner *)
(* takes several.  Any call may be refused with no effect on the store:    *)
(* its revision is stale, its input is refused, or the store is locked.    *)
(*                                                                         *)
(* The owners of Questions and observations are outside the repository: an *)
(* owner's currentness only advances, it accepts one Answer to a Question, *)
(* replays that acceptance, and closes a Question for good.                *)
(***************************************************************************)
EXTENDS Integers

CONSTANTS
  Clients,         \* callers; a Matter is identified by the client that made it
  Spaces, Namespaces,
  Keys,            \* replay keys, each identifying one Intake
  Contents,        \* contents of Intakes, and of Answers
  InitialSpaces,   \* the Spaces that there are at first
  Global,          \* the scope of every Space
  NoIntake, NoMatter, NoAnswer,
  MaxCurrentness,  \* bound: how often the observed owner moves
  Plan             \* the tasks each client may have

Scopes == Spaces \cup {Global}

Kinds == {"create", "retire", "associate", "dissociate", "capture", "place", "transition",
          "link", "answer", "close", "acknowledge"}

\* `space` is Global in a capture without placement.
Task == [kind: Kinds, space: Scopes, intake: Keys, content: Contents]

ASSUME CustodyAssumption ==
  /\ Global \notin Spaces /\ InitialSpaces \subseteq Spaces
  /\ NoIntake \notin Contents /\ NoAnswer \notin Contents
  /\ MaxCurrentness \in Nat
  /\ Plan \in [Clients -> SUBSET Task]
  /\ \A c \in Clients : \A t \in Plan[c] :
       t.kind \in {"create", "retire", "associate", "dissociate", "place"} => t.space \in Spaces

Reach == {"none", "exact", "descendants"}

Space == [lifecycle: {"absent", "active", "retired"}, revision: Nat,
          associations: [Namespaces -> Reach]]

\* Deferred, quiet and active Matters are relevant, released ones are not.
Matter == [intake: Keys, home: Spaces, relevant: BOOLEAN, revision: Nat,
           question: {"none", "open", "answer-submitted", "closed"},
           submission: Contents \cup {NoAnswer}]

ASSUME MatterAssumption == NoMatter \notin Matter

VARIABLES
  directory,    \* directory.revision
  spaces,       \* directory.spaces
  intakes,      \* state.replay and state.intakes, by replay key
  matters,      \* state.matters
  baselines,    \* state.baselines, by scope
  currentness,  \* what the observed owner reports
  accepted,     \* the Answer the owner of a Matter's Question has accepted
  closed,       \* the Questions their owner has closed, by Matter
  pc,           \* where each client is
  task,         \* what each client is to do
  subject,      \* the Matter it is to do it to
  saw,          \* the custody it saw when it looked
  observed,     \* the owner observation in its view, 0 for none
  told          \* what it was told

store == <<directory, spaces, intakes, matters, baselines>>
owner == <<currentness, accepted, closed>>
vars  == <<store, owner, pc, task, subject, saw, observed, told>>

-------------------------------------------------------------------------------
\* Manifests and views

Custody == [directory |-> directory, spaces |-> spaces, matters |-> matters,
            acknowledged |-> [x \in Scopes |-> baselines[x].revision]]

\* The Matters that a Space shows in custody k
Shown(k, s) == {m \in Clients : k.matters[m] # NoMatter /\ k.matters[m].home = s
                                /\ k.matters[m].relevant}

Manifest(k, s) ==
  [id |-> s, space |-> k.spaces[s], matters |-> {<<m, k.matters[m]>> : m \in Shown(k, s)}]

Represented(k, scope) ==
  IF scope = Global THEN {s \in Spaces : k.spaces[s].lifecycle # "absent"} ELSE {scope}

\* An observation is kept when it is of a represented Matter.
View(k, scope, observation) ==
  [directory |-> IF scope = Global THEN k.directory ELSE 0,
   spaces    |-> {Manifest(k, s) : s \in Represented(k, scope)},
   observed  |-> IF \E s \in Represented(k, scope) : Shown(k, s) # {} THEN observation ELSE 0]

Manifests == [id: Spaces, space: Space, matters: SUBSET (Clients \X Matter)]
Views     == [directory: Nat, spaces: SUBSET Manifests, observed: Nat]

NoView == [directory |-> 0, spaces |-> {}, observed |-> 0]

-------------------------------------------------------------------------------
Goto(c, label) == pc' = [pc EXCEPT ![c] = label]

Finish(c, what) ==
  /\ Goto(c, "done")
  /\ told' = [told EXCEPT ![c] = what]

Init ==
  /\ directory = 0
  /\ spaces = [s \in Spaces |->
                 [lifecycle |-> IF s \in InitialSpaces THEN "active" ELSE "absent",
                  revision |-> IF s \in InitialSpaces THEN 1 ELSE 0,
                  associations |-> [n \in Namespaces |-> "none"]]]
  /\ intakes = [k \in Keys |-> NoIntake]
  /\ matters = [m \in Clients |-> NoMatter]
  /\ baselines = [x \in Scopes |-> [revision |-> 0, view |-> NoView]]
  /\ currentness = 1
  /\ accepted = [m \in Clients |-> NoAnswer]
  /\ closed = {}
  /\ pc = [c \in Clients |-> "look"]
  /\ task \in {f \in [Clients -> UNION {Plan[c] : c \in Clients}] :
                 \A c \in Clients : f[c] \in Plan[c]}
  /\ subject = [c \in Clients |-> c]
  /\ saw = [c \in Clients |-> Custody]
  /\ observed = [c \in Clients |-> 0]
  /\ told = [c \in Clients |-> "nothing"]

-------------------------------------------------------------------------------
\* What a client does before its call

\* The view to acknowledge is composed with an observation of the owner, or none.
ObserveOwner(c) ==
  /\ pc[c] = "look" /\ task[c].kind = "acknowledge"
  /\ \E o \in {0, currentness} : observed' = [observed EXCEPT ![c] = o]
  /\ Goto(c, "compose")
  /\ UNCHANGED <<store, owner, task, subject, saw, told>>

AfterLook(kind) == CASE kind = "acknowledge" -> "reobserve"
                     [] kind = "answer" -> "submit"
                     [] kind = "close" -> "project"
                     [] OTHER -> "act"

Look(c) ==
  LET kind == task[c].kind IN
  /\ pc[c] = IF kind = "acknowledge" THEN "compose" ELSE "look"
  /\ IF kind \in {"transition", "link", "answer", "close"}
     THEN \E m \in Clients : matters[m] # NoMatter /\ subject' = [subject EXCEPT ![c] = m]
     ELSE UNCHANGED subject
  /\ saw' = [saw EXCEPT ![c] = Custody]
  /\ Goto(c, AfterLook(kind))
  /\ UNCHANGED <<store, owner, task, observed, told>>

Refuse(c) ==
  /\ pc[c] \in {"reobserve", "submit", "project", "act"}
  /\ Finish(c, "refused")
  /\ UNCHANGED <<store, owner, task, subject, saw, observed>>

-------------------------------------------------------------------------------
\* Expected revisions

DirectoryCurrent(c) == directory = saw[c].directory

SpaceCurrent(c, s) ==
  /\ spaces[s].lifecycle # "absent"
  /\ spaces[s].revision = saw[c].spaces[s].revision

MatterCurrent(c) == matters[subject[c]].revision = saw[c].matters[subject[c]].revision

Bump(r) == [r EXCEPT !.revision = @ + 1]

TouchNothing(s) == UNCHANGED spaces   \* mutant: a Space does not follow its Matters

Touch(s) == spaces' = [spaces EXCEPT ![s] = Bump(@)]

\* The client's own transaction, with the store as draft
Acts(c, kind) == pc[c] = "act" /\ task[c].kind = kind

Done(c) ==
  /\ Finish(c, "changed")
  /\ UNCHANGED <<owner, task, subject, saw, observed>>

Replayed(c) ==
  /\ Finish(c, "replayed")
  /\ UNCHANGED <<store, owner, task, subject, saw, observed>>

-------------------------------------------------------------------------------
\* Spaces

CreateSpace(c) ==
  LET s == task[c].space IN
  /\ Acts(c, "create") /\ DirectoryCurrent(c) /\ spaces[s].lifecycle = "absent"
  /\ spaces' = [spaces EXCEPT ![s] = [Bump(@) EXCEPT !.lifecycle = "active"]]
  /\ directory' = directory + 1
  /\ Done(c) /\ UNCHANGED <<intakes, matters, baselines>>

\* Retiring a Space again changes nothing.
RetireSpace(c) ==
  LET s == task[c].space IN
  /\ Acts(c, "retire") /\ SpaceCurrent(c, s)
  /\ \/ /\ spaces[s].lifecycle = "active"
        /\ spaces' = [spaces EXCEPT ![s] = [Bump(@) EXCEPT !.lifecycle = "retired"]]
        /\ directory' = directory + 1
        /\ Done(c) /\ UNCHANGED <<intakes, matters, baselines>>
     \/ spaces[s].lifecycle = "retired" /\ Replayed(c)

Associate(c, n, reach) ==
  LET s == task[c].space IN
  /\ SpaceCurrent(c, s)
  /\ spaces' = [spaces EXCEPT ![s] = [Bump(@) EXCEPT !.associations[n] = reach]]
  /\ Done(c) /\ UNCHANGED <<directory, intakes, matters, baselines>>

SetAssociation(c) ==
  /\ Acts(c, "associate")
  /\ \E n \in Namespaces, reach \in Reach \ {"none"} : Associate(c, n, reach)

RemoveAssociation(c) ==
  /\ Acts(c, "dissociate")
  /\ \E n \in Namespaces : /\ spaces[task[c].space].associations[n] # "none"
                           /\ Associate(c, n, "none")

-------------------------------------------------------------------------------
\* Intakes and Matters

FreshMatter(k, s) == [intake |-> k, home |-> s, relevant |-> TRUE, revision |-> 1,
                      question |-> "none", submission |-> NoAnswer]

\* A retired Space receives no Matter.
NewMatter(c, k, s) ==
  /\ SpaceCurrent(c, s) /\ spaces[s].lifecycle = "active"
  /\ matters' = [matters EXCEPT ![c] = FreshMatter(k, s)]
  /\ Touch(s)

\* The replay key identifies an Intake of the same content.
SameIntake(c) == intakes[task[c].intake] = task[c].content

Capture(c) ==
  LET t == task[c] IN
  /\ Acts(c, "capture")
  /\ \/ /\ intakes[t.intake] = NoIntake
        /\ intakes' = [intakes EXCEPT ![t.intake] = t.content]
        /\ IF t.space = Global THEN UNCHANGED <<spaces, matters>>
                               ELSE NewMatter(c, t.intake, t.space)
        /\ Done(c) /\ UNCHANGED <<directory, baselines>>
     \/ SameIntake(c) /\ Replayed(c)

Placed(k) == \E m \in Clients : matters[m] # NoMatter /\ matters[m].intake = k

Place(c) ==
  LET t == task[c] IN
  /\ Acts(c, "place") /\ intakes[t.intake] # NoIntake
  /\ \/ /\ ~Placed(t.intake)
        /\ NewMatter(c, t.intake, t.space)
        /\ Done(c) /\ UNCHANGED <<directory, intakes, baselines>>
     \/ Placed(t.intake) /\ Replayed(c)

\* A change of the Matter, at the end of which its Space is touched
ChangeMatter(c, becomes) ==
  /\ MatterCurrent(c)
  /\ matters' = [matters EXCEPT ![subject[c]] = Bump(becomes)]
  /\ Touch(matters[subject[c]].home)
  /\ Done(c) /\ UNCHANGED <<directory, intakes, baselines>>

Transition(c) ==
  LET m == matters[subject[c]] IN
  /\ Acts(c, "transition")
  /\ \E relevant \in BOOLEAN : ChangeMatter(c, [m EXCEPT !.relevant = relevant])

-------------------------------------------------------------------------------
\* Questions and Answers

LinkQuestion(c) ==
  LET m == matters[subject[c]] IN
  /\ Acts(c, "link") /\ m.question = "none"
  /\ ChangeMatter(c, [m EXCEPT !.question = "open"])

\* The owner accepts the first Answer, and replays that acceptance; what it
\* replies may be lost.
SubmitAnswer(c) ==
  LET m == subject[c] IN
  /\ pc[c] = "submit" /\ MatterCurrent(c) /\ matters[m].question # "none"
  /\ \/ accepted[m] = NoAnswer /\ m \notin closed
     \/ accepted[m] = task[c].content
  /\ accepted' = [accepted EXCEPT ![m] = task[c].content]
  /\ \/ Goto(c, "act") /\ UNCHANGED told
     \/ Finish(c, "refused")
  /\ UNCHANGED <<store, currentness, closed, task, subject, saw, observed>>

\* The submission that is recorded already is not written again.
RecordAnswer(c) ==
  LET m == matters[subject[c]]  a == task[c].content IN
  /\ Acts(c, "answer") /\ MatterCurrent(c)
  /\ \/ /\ m.submission # a
        /\ ChangeMatter(c, [m EXCEPT !.question = "answer-submitted", !.submission = a])
     \/ m.submission = a /\ Replayed(c)

AnyProjection(m) == TRUE   \* mutant: reconciles a Question that is still open

\* The owner has returned a terminal result.
Terminal(m) == m \in closed

ProjectQuestion(c) ==
  /\ pc[c] = "project" /\ matters[subject[c]].question # "none" /\ Terminal(subject[c])
  /\ Goto(c, "act")
  /\ UNCHANGED <<store, owner, task, subject, saw, observed, told>>

CloseQuestion(c) ==
  LET m == matters[subject[c]] IN
  /\ Acts(c, "close")
  /\ ChangeMatter(c, [m EXCEPT !.question = "closed"])

-------------------------------------------------------------------------------
\* Baselines

\* The owner must report for a represented Matter what the view says.
Reobserve(c) ==
  /\ pc[c] = "reobserve"
  /\ View(Custody, task[c].space, observed[c]).observed \in {0, currentness}
  /\ Goto(c, "act")
  /\ UNCHANGED <<store, owner, task, subject, saw, observed, told>>

AnyBaseline(c, x) == TRUE   \* mutant: overwrites a baseline it has not seen

BaselineCurrent(c, x) == baselines[x].revision = saw[c].acknowledged[x]

\* The view is composed again inside the transaction and must be the one rendered.
Acknowledge(c) ==
  LET x == task[c].space
      view == View(Custody, x, observed[c])
  IN
  /\ Acts(c, "acknowledge")
  /\ x # Global => spaces[x].lifecycle # "absent"
  /\ view = View(saw[c], x, observed[c])
  /\ \/ /\ view # baselines[x].view /\ BaselineCurrent(c, x)
        /\ baselines' = [baselines EXCEPT ![x] = [Bump(@) EXCEPT !.view = view]]
        /\ Done(c) /\ UNCHANGED <<directory, spaces, intakes, matters>>
     \/ baselines[x].revision # 0 /\ view = baselines[x].view /\ Replayed(c)

-------------------------------------------------------------------------------
\* The owners

OwnerMoves ==
  /\ currentness < MaxCurrentness
  /\ currentness' = currentness + 1
  /\ UNCHANGED <<store, accepted, closed, pc, task, subject, saw, observed, told>>

OwnerCloses(m) ==
  /\ matters[m] # NoMatter /\ matters[m].question # "none" /\ m \notin closed
  /\ closed' = closed \cup {m}
  /\ UNCHANGED <<store, currentness, accepted, pc, task, subject, saw, observed, told>>

Call(c) ==
  \/ ObserveOwner(c) \/ Look(c) \/ Refuse(c) \/ CreateSpace(c) \/ RetireSpace(c)
  \/ SetAssociation(c) \/ RemoveAssociation(c) \/ Capture(c) \/ Place(c) \/ Transition(c)
  \/ LinkQuestion(c) \/ SubmitAnswer(c) \/ RecordAnswer(c) \/ ProjectQuestion(c)
  \/ CloseQuestion(c) \/ Reobserve(c) \/ Acknowledge(c)

Next == (\E c \in Clients : Call(c)) \/ OwnerMoves \/ (\E m \in Clients : OwnerCloses(m))

Spec == Init /\ [][Next]_vars

-------------------------------------------------------------------------------
\* Properties

\* The store, the owners and every client hold values of their declared kinds.
TypeOK ==
  /\ directory \in Nat
  /\ spaces \in [Spaces -> Space]
  /\ intakes \in [Keys -> Contents \cup {NoIntake}]
  /\ matters \in [Clients -> Matter \cup {NoMatter}]
  /\ baselines \in [Scopes -> [revision: Nat, view: Views]]
  /\ currentness \in Nat
  /\ accepted \in [Clients -> Contents \cup {NoAnswer}]
  /\ closed \subseteq Clients
  /\ pc \in [Clients -> {"look", "compose", "reobserve", "submit", "project", "act", "done"}]
  /\ task \in [Clients -> Task] /\ \A c \in Clients : task[c] \in Plan[c]
  /\ subject \in [Clients -> Clients]
  /\ saw \in [Clients -> [directory: Nat, spaces: [Spaces -> Space],
                          matters: [Clients -> Matter \cup {NoMatter}],
                          acknowledged: [Scopes -> Nat]]]
  /\ observed \in [Clients -> Nat]
  /\ told \in [Clients -> {"nothing", "changed", "replayed", "refused"}]

\* What a client decides, it decides about the custody it saw: the revision it
\* expects stands for everything it was shown with that revision.  A placement, a
\* retirement or an association is made on the manifest of the Space that was
\* seen, a Space is created in the directory that was seen, a Matter is changed
\* as it was seen, and the view that is acknowledged is the one rendered.
Unseen(c) ==
  LET t == task[c] IN
  CASE t.kind = "create" ->
         \E s \in Spaces : spaces[s].lifecycle # saw[c].spaces[s].lifecycle
    [] t.kind \in {"retire", "associate", "dissociate", "place"} \/
       (t.kind = "capture" /\ t.space # Global) ->
         Manifest(Custody, t.space) # Manifest(saw[c], t.space)
    [] t.kind \in {"transition", "link", "answer", "close"} ->
         matters[subject[c]] # saw[c].matters[subject[c]]
    [] t.kind = "acknowledge" ->
         View(Custody, t.space, observed[c]) # View(saw[c], t.space, observed[c])
    [] OTHER -> FALSE

DecisionsAreSeen ==
  [][\A c \in Clients : told[c] = "nothing" /\ told'[c] = "changed" => ~Unseen(c)]_vars

\* However often an Intake is captured and placed, and by whomever, it has at
\* most one Matter, of an Intake that was captured.
OneMatterPerIntake ==
  \A m \in Clients : matters[m] # NoMatter =>
    /\ intakes[matters[m].intake] # NoIntake
    /\ \A n \in Clients : matters[n] # NoMatter /\ matters[n].intake = matters[m].intake => n = m

\* A client told that its Intake was captured, now or before, has its own content
\* under its replay key, and that content is never replaced.
CapturesLast ==
  \A c \in Clients : task[c].kind = "capture" /\ told[c] \in {"changed", "replayed"} =>
    intakes[task[c].intake] = task[c].content

\* The Question of a Matter never runs ahead of its owner: a recorded submission
\* is the Answer that the owner accepted, a closed Question one that it closed.
QuestionsFollowOwner ==
  \A m \in Clients : matters[m] # NoMatter =>
    /\ matters[m].submission # NoAnswer => accepted[m] = matters[m].submission
    /\ matters[m].question = "closed" => m \in closed

\* A baseline advances: its successor shows no Space and no owner at an earlier
\* revision, though its view was rendered, and its owner observed, long before.
BaselinesAdvance ==
  [][\A x \in Scopes : LET old == baselines[x].view  new == baselines'[x].view IN
       /\ \A a \in old.spaces, b \in new.spaces :
            a.id = b.id => a.space.revision <= b.space.revision
       /\ new.observed = 0 \/ old.observed <= new.observed]_vars
===============================================================================
