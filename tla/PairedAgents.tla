------------------------------ MODULE PairedAgents ------------------------------
(***************************************************************************)
(* Paired agents: a call of run_paired_agent lets a driver session answer  *)
(* a task, a detector looks at the answer for triggers, an advisor session *)
(* decides about it, and the driver may have to accept or reject advice.   *)
(* Sessions and prompts may fail, an advisor may answer nothing usable, in *)
(* which case a deterministic responder decides instead, a write to the    *)
(* artifacts may fail without anyone noticing, and the process may end.    *)
(*                                                                         *)
(* One action is what runs between two awaits.  A text is the set of the   *)
(* features that the detectors' patterns find in it.  What one such stretch *)
(* adds to a file is written or lost as a whole.                           *)
(***************************************************************************)
EXTENDS Naturals, Sequences, FiniteSets, Functions

CONSTANTS
  Runs,         \* calls
  Stamps,       \* milliseconds at which they may begin
  Offered,      \* of each call: the [mode, stamp] it may have, what its driver may say in that
                \* mode and its advisor decide, and the [harness, turns] of an offline harness
  Missing,      \* no answer
  MaxFaults     \* bound: writes that fail, and processes that end

VARIABLES
  run,     \* what each call has in memory
  files,   \* what the artifacts of each directory hold
  index,   \* index.jsonl: the directory and the status of each run
  faults   \* faults so far

pvars == <<run, files, index, faults>>

Modes     == {"research", "implementation"}
Harnesses == {"research", "implementation", "tdd"}
Names     == {"events", "turns", "messages", "compact"}   \* files of a run; transcripts are turns

\* createRunId: the time and the mode; an offline harness has one name for all its runs.
Directories == (Stamps \X Modes) \cup ({"offline"} \X Harnesses)

\* A call has one of the modes and begins at one of the stamps, which are no name of an
\* offline directory (artifact-store.mjs: createRunId); a transcript has one turn after another.
PairConstants ==
  /\ "offline" \notin Stamps /\ Missing \notin Directories
  /\ \A r \in Runs : /\ \A c \in Offered[r].calls : c.stamp \in Stamps /\ c.mode \in Modes
                     /\ \A o \in Offered[r].offline : o.harness \in Harnesses /\ o.turns \in Seq(SUBSET STRING)

Idle == [at |-> "idle", mode |-> "research", dir |-> Missing, open |-> {}, said |-> {}, decisions |-> <<>>,
         handling |-> <<>>, degraded |-> FALSE, failed |-> FALSE, lost |-> {}, answer |-> Missing]

Init ==
  /\ run = [r \in Runs |-> Idle] /\ index = <<>> /\ faults = 0
  /\ files = [d \in Directories |-> [n \in Names |-> <<>>]]

-------------------------------------------------------------------------------
(* The detectors and the deterministic responders *)

Signals(mode) ==
  CASE mode = "research" ->
         [factual_claim |-> {"factual", "number"}, citation_sensitive_claim |-> {"model", "number"},
          draft_or_final_answer |-> {"final"}, uncertainty_or_conflict |-> {"uncertain"}]
    [] mode = "implementation" ->
         [completion_claim |-> {"done"}, verification_claim |-> {"tests"},
          changed_files_summary |-> {"files", "changed"}, scope_drift_signal |-> {"drift"},
          shortcut_taking_signal |-> {"assumed"}, unrelated_change_signal |-> {"elsewhere"}]
    [] mode = "tdd" ->
         [red_phase_claim |-> {"red"}, green_phase_claim |-> {"green"}, refactor_phase_claim |-> {"refactor"},
          test_failure_summary |-> {"failure", "setup"}, production_code_change |-> {"production"},
          test_intent_change |-> {"weakened"}]

Found(mode, t) == {s \in DOMAIN Signals(mode) : Signals(mode)[s] \cap t # {}}

Triggers(mode, t) ==
  CASE mode = "research" ->
         IF "low_value" \in t THEN {}
         ELSE Found(mode, t) \ (IF "cited" \in t THEN {"citation_sensitive_claim"} ELSE {})
    [] mode = "implementation" -> Found(mode, t)
    [] mode = "tdd" -> Found(mode, t) \cup {"every_driver_turn"}

ResearchSteers(t) ==
  \/ "citation_sensitive_claim" \in Triggers("research", t)
  \/ {"oauth", "compared"} \subseteq t /\ "cited" \notin t

ImplementationSteers(t) ==
  \/ {"tests", "claimed"} \subseteq t /\ "commands" \notin t
  \/ t \cap {"elsewhere", "unrelated", "drift", "assumed"} # {}

TddBlocks(t) ==
  \/ "production" \in t /\ t \cap {"red", "commands"} = {}
  \/ "setup" \in t
  \/ {"green", "broad"} \subseteq t
  \/ "weakened" \in t

Responder(mode, t) ==
  CASE mode = "research" /\ ResearchSteers(t)             -> "steer"
    [] mode = "research" /\ ~ResearchSteers(t)            -> IF "uncertain" \in t THEN "note" ELSE "noop"
    [] mode = "implementation"                            -> IF ImplementationSteers(t) THEN "steer" ELSE "noop"
    [] mode = "tdd"                                       -> IF TddBlocks(t) THEN "block" ELSE "noop"

\* validateAdvisorDecision, of what JSON there is in the advisor's answer
Decisions == {"noop", "note", "steer", "block", "escalate"}

Usable(answer) == answer # Missing /\ answer \in Decisions

Intervenes(decision) == decision \in {"steer", "block", "escalate"}

-------------------------------------------------------------------------------
(* What is recorded *)

StatusIfHeard(l) ==   \* mutant: a decision of the fallback counts like an advisor's
  IF l.failed THEN "failed" ELSE IF "none" \in Range(l.handling) THEN "blocked" ELSE "success"

Status(l) ==
  IF l.failed THEN "failed"
  ELSE IF "none" \in Range(l.handling) THEN "blocked"
  ELSE IF l.degraded THEN "partial" ELSE "success"

\* withToolHandoff, buildPairCompactResult; the driver's session is disposed of at last.
Ended(l) ==
  [l EXCEPT !.at = "done", !.open = @ \ {"driver"},
            !.answer = [status |-> Status(l), decisions |-> l.decisions, handling |-> l.handling]]

Nothing == [n \in Names |-> <<>>]

\* A stretch of code that leaves the call with l and adds new to its files: each of the
\* writes is tried, and one that fails is ignored.
Write(r, l, new) ==
  \E broken \in {{}} \cup {{n} : n \in Names \cup {"index"}} :
    /\ faults + Cardinality(broken) <= MaxFaults /\ faults' = faults + Cardinality(broken)
    /\ LET added == IF l.at # "done" THEN new
                    ELSE [new EXCEPT !.events = Append(@, "ended"), !.compact = <<l.answer>>]
           tried == {n \in Names : added[n] # <<>>} \cup (IF l.at = "done" THEN {"index"} ELSE {})
       IN /\ broken \subseteq tried
          /\ run' = [run EXCEPT ![r] = [l EXCEPT !.lost = @ \cup broken]]
          /\ files' = [files EXCEPT ![l.dir] =
                         [n \in Names |-> IF n \in broken THEN @[n]
                                          ELSE IF n = "compact" /\ n \in tried THEN added[n]
                                          ELSE @[n] \o added[n]]]
          /\ index' = IF l.at # "done" \/ "index" \in broken THEN index
                      ELSE Append(index, [dir |-> l.dir, status |-> l.answer.status])

\* A mistaken catch: the failure is answered, and not recorded
FailsUnrecorded(r) ==
  /\ run' = [run EXCEPT ![r] = Ended([@ EXCEPT !.failed = TRUE])]
  /\ UNCHANGED <<files, index, faults>>

\* The catch of runPairedAgent
Fails(r) == Write(r, Ended([run[r] EXCEPT !.failed = TRUE]), Nothing)

-------------------------------------------------------------------------------
(* runPairedAgent *)

Call(r) ==
  /\ run[r].at = "idle"
  /\ \E c \in Offered[r].calls :
       Write(r, [Idle EXCEPT !.at = "driver", !.mode = c.mode, !.dir = <<c.stamp, c.mode>>],
             [Nothing EXCEPT !.events = <<"started">>])

DriverStarts(r) ==
  /\ run[r].at = "driver"
  /\ \/ Write(r, [run[r] EXCEPT !.at = "prompt", !.open = {"driver"}], [Nothing EXCEPT !.events = <<"session">>])
     \/ Fails(r)

DriverSays(r, t) ==
  /\ run[r].at = "prompt" /\ t \in Offered[r].texts[run[r].mode]
  /\ LET l == [run[r] EXCEPT !.said = t]
     IN Write(r, IF Triggers(l.mode, t) = {} THEN Ended(l) ELSE [l EXCEPT !.at = "advisor"],
              [Nothing EXCEPT !.turns = <<t>>, !.events = <<"turn">>])

\* The finally of callAdvisorAgent
Disposed(l, source) == [l EXCEPT !.open = @ \ {"advisor"}]

\* A decision in the messages of a run; if it intervenes, the steering message that follows
\* in the same stretch is in it.
Message(d) == [kind |-> "decision", what |-> d.decision]

\* What callAdvisorAgent returns, and what is done about it up to the next await
Advised(r, decision, source) ==
  LET d == [decision |-> decision, source |-> source]
      l == [Disposed(run[r], source) EXCEPT !.decisions = Append(@, d), !.degraded = @ \/ source = "fallback"]
  IN Write(r, IF Intervenes(decision) THEN [l EXCEPT !.at = "handling"] ELSE Ended(l),
           [Nothing EXCEPT !.messages = <<Message(d)>>])

AdvisorStarts(r) ==
  /\ run[r].at = "advisor"
  /\ \/ /\ run' = [run EXCEPT ![r].at = "asked", ![r].open = @ \cup {"advisor"}]
        /\ UNCHANGED <<files, index, faults>>
     \/ Advised(r, Responder(run[r].mode, run[r].said), "fallback")

\* The advisor answers something, of use or not, or the prompt fails.
AdvisorReplies(r) ==
  /\ run[r].at = "asked"
  /\ \E answer \in Offered[r].advice \cup {Missing} :
       IF Usable(answer) THEN Advised(r, answer, "advisor")
       ELSE Advised(r, Responder(run[r].mode, run[r].said), "fallback")

\* classifyDriverHandling: what a text accepts is accepted, even if it rejects something too.
Handling(words) ==
  IF "accepts" \in words THEN "accepted" ELSE IF "rejects" \in words THEN "rejected" ELSE "none"

DriverHandles(r, words) ==
  LET how == Handling(words)
  IN /\ run[r].at = "handling"
     /\ Write(r, Ended([run[r] EXCEPT !.handling = Append(@, how)]),
              [Nothing EXCEPT !.turns = <<{}>>, !.messages = <<[kind |-> "handling", what |-> how]>>])

PromptFails(r) == run[r].at \in {"prompt", "handling"} /\ Fails(r)

\* The offline harnesses do all of theirs at once: the responder decides about each turn that
\* the detector finds something in.
OfflineDecisions(harness, turns) ==
  LET advised == {i \in DOMAIN turns : Triggers(harness, turns[i]) # {}}
      Nth(k)  == CHOOSE i \in advised : Cardinality({j \in advised : j <= i}) = k
  IN [k \in 1 .. Cardinality(advised) |->
        [decision |-> Responder(harness, turns[Nth(k)]), source |-> "fallback"]]

OfflineAnswer(decisions) ==
  [status    |-> IF \E d \in Range(decisions) : d.decision \in {"block", "escalate"}
                   THEN "blocked" ELSE "success",
   decisions |-> decisions, handling |-> <<>>]

Offline(r, harness, turns) ==
  /\ run[r].at = "idle"
  /\ LET decisions == OfflineDecisions(harness, turns)
     IN Write(r, [Idle EXCEPT !.at = "done", !.mode = harness, !.dir = <<"offline", harness>>,
                              !.decisions = decisions, !.answer = OfflineAnswer(decisions)],
              [Nothing EXCEPT !.turns = IF harness = "research" THEN turns ELSE <<>>,
                              !.events = [i \in DOMAIN turns |-> "turn"],
                              !.messages = [i \in DOMAIN decisions |-> Message(decisions[i])]])

\* The process of the call ends.
Exit(r) ==
  /\ run[r].at \notin {"idle", "done", "exited"} /\ faults < MaxFaults /\ faults' = faults + 1
  /\ run' = [run EXCEPT ![r].at = "exited", ![r].open = {}] /\ UNCHANGED <<files, index>>

Next ==
  \E r \in Runs :
    \/ Call(r) \/ DriverStarts(r) \/ PromptFails(r) \/ AdvisorStarts(r) \/ AdvisorReplies(r) \/ Exit(r)
    \/ \E t \in UNION {Offered[r].texts[m] : m \in Modes} : DriverSays(r, t)
    \/ \E words \in SUBSET {"accepts", "rejects"} : DriverHandles(r, words)
    \/ \E o \in Offered[r].offline : Offline(r, o.harness, o.turns)

Spec == Init /\ [][Next]_pvars

-------------------------------------------------------------------------------
(* Properties *)

TypeOK ==
  /\ faults \in 0..MaxFaults
  /\ index \in Seq([dir: Directories, status: {"success", "partial", "blocked", "failed"}])
  /\ \A r \in Runs : run[r].dir \in Directories \cup {Missing}
                       /\ run[r].open \subseteq {"driver", "advisor"}
                       /\ run[r].lost \subseteq Names \cup {"index"}

\* A run that tells its caller "success" was supervised (isolated-runner.mjs:238-266): either
\* nothing in the driver's answer called for the advisor, or the advisor itself decided and,
\* if it intervened, the driver said whether it accepts; whatever failed on the way.  A
\* transcript that an offline harness passes holds no turn that it blocks.
SuccessIsSupervised ==
  \A r \in Runs : run[r].at = "done" /\ run[r].answer.status = "success" =>
    IF run[r].dir[1] = "offline"
      THEN \A d \in Range(run[r].decisions) : d.decision \notin {"block", "escalate"}
      ELSE \/ Triggers(run[r].mode, run[r].said) = {} /\ run[r].decisions = <<>>
           \/ \E d \in Range(run[r].decisions) :
                d.source = "advisor" /\ (Intervenes(d.decision) => run[r].handling \in {<<"accepted">>, <<"rejected">>})

\* The lines of a kind in the messages of a run
Entries(d, kind) == Cardinality({i \in DOMAIN files[d].messages : files[d].messages[i].kind = kind})

\* /pi-pair inspect: what the files of a run say of it
Inspection(d) ==
  [status    |-> IF files[d].compact = <<>> THEN "unknown" ELSE files[d].compact[1].status,
   decisions |-> Entries(d, "decision"), handling |-> Entries(d, "handling")]

Alone(r) == \A s \in Runs \ {r} : run[s].dir # run[r].dir

\* The artifacts of a run that has ended, by failing too, tell what its caller was told, as
\* far as their writes did not fail and unless another run has the same directory
\* (isolated-runner.mjs:255-283, index.ts of the extension: formatRunInspection).
ArtifactsTellTheAnswer ==
  \A r \in Runs : run[r].at = "done" /\ Alone(r) =>
    LET d == run[r].dir
        told == run[r].answer
    IN /\ "compact" \notin run[r].lost => Inspection(d).status = told.status
       /\ "messages" \notin run[r].lost =>
            Inspection(d).decisions = Len(told.decisions) /\ Inspection(d).handling = Len(told.handling)
       /\ "index" \notin run[r].lost =>
            \E i \in DOMAIN index : /\ index[i].status = told.status
                                    /\ \A j \in DOMAIN index : index[j].dir = d <=> j = i

\* No session outlives its run, whichever of the awaits fails (isolated-runner.mjs:127, 281).
SessionsEnd == \A r \in Runs : run[r].at = "done" => run[r].open = {}

\* artifact-store.mjs: each run has a directory of its own.  It does not hold: two runs of
\* one mode that begin in one millisecond share theirs.
RunsAreApart ==
  \A r \in Runs : run[r].at = "done" /\ run[r].dir[1] # "offline" => Alone(r)
===============================================================================
