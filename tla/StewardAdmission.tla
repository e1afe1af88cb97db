----------------------------- MODULE StewardAdmission -----------------------------
(***************************************************************************)
(* Implementation admission in the Steward: the calls that submit an       *)
(* authorized envelope to the Software Implementation owner, and those     *)
(* that recover a submission whose outcome is unknown.  A call reads the   *)
(* store, calls the owner and writes the store in separate steps; a        *)
(* transaction of the store (module StewardStore) is one step.  A caller   *)
(* killed between two steps is a call that takes no further step.          *)
(*                                                                         *)
(* The owner is outside the repository: it may hand out any correlation,   *)
(* decide late or never, and its replies may be lost; but it decides once  *)
(* for a correlation and reports no other decision than that.              *)
(***************************************************************************)
CONSTANTS
  Calls,         \* invocations of submit or recover
  Envelopes,     \* cumulative envelopes, each the same as its digest
  Correlations,  \* the owner's correlation ids
  NoEntry,       \* the store has no admission for the envelope
  NoCorrelation, \* the call has not been given a correlation
  Plan           \* what each call submits (an envelope) or recovers (a correlation)

Settled      == {"admitted", "refused"}
Dispositions == Settled \cup {"unknown"}

\* `exact`: the admitted routine mechanics are those of the envelope.
Entry    == [correlation: Correlations, disposition: Dispositions, exact: BOOLEAN]
Decision == [disposition: Settled, exact: BOOLEAN]

\* What the owner may say to a call; "lost" when it throws or answers amiss.
Replies == [disposition: Dispositions \cup {"lost"}, exact: BOOLEAN]

AdmissionConstants ==
  /\ NoEntry \notin Entry /\ NoCorrelation \notin Correlations
  /\ Envelopes \cap Correlations = {}
  /\ Plan \in [Calls -> Envelopes \cup Correlations]

VARIABLES
  admissions,  \* state.admissions, by envelope digest
  sent,        \* the admit calls the owner may receive: [envelope, correlation, call]
  decided,     \* the owner's decisions, by correlation: a set of at most one
  pc,          \* where each call is
  correlation, \* the correlation each call works with
  heard,       \* what the owner replied to each call
  answer       \* what each call tells its caller

vars == <<admissions, sent, decided, pc, correlation, heard, answer>>

Labels == {"start", "correlate", "reserve", "admit", "await", "settle", "ask", "reconcile", "done"}

Answers == Dispositions \cup {"none", "failed", "recovery_required", "correlation_conflict",
                              "delivery_unknown", "recovery_mismatch", "recovery_unavailable"}

NoReply == [disposition |-> "lost", exact |-> FALSE]

Submits(c) == Plan[c] \in Envelopes

Goto(c, label) == pc' = [pc EXCEPT ![c] = label]

Finish(c, what) ==
  /\ Goto(c, "done")
  /\ answer' = [answer EXCEPT ![c] = what]

Init ==
  /\ admissions = [e \in Envelopes |-> NoEntry]
  /\ sent = {}
  /\ decided = [k \in Correlations |-> {}]
  /\ pc = [c \in Calls |-> "start"]
  /\ correlation = [c \in Calls |-> IF Submits(c) THEN NoCorrelation ELSE Plan[c]]
  /\ heard = [c \in Calls |-> NoReply]
  /\ answer = [c \in Calls |-> "none"]

-------------------------------------------------------------------------------
\* The owner

Decide(k) ==
  /\ decided[k] = {} /\ \E m \in sent : m.correlation = k
  /\ \E d \in Decision : decided' = [decided EXCEPT ![k] = {d}]
  /\ UNCHANGED <<admissions, sent, pc, correlation, heard, answer>>

\* What it may reply to a question about the correlation
OwnerReplies(k) ==
  {NoReply} \cup IF decided[k] = {} THEN {[disposition |-> "unknown", exact |-> FALSE]}
                                    ELSE decided[k]

-------------------------------------------------------------------------------
\* submitAdmission

Has(e)     == admissions[e] # NoEntry
Unknown(e) == Has(e) /\ admissions[e].disposition = "unknown"

\* A settled admission is replayed, an unknown one must be recovered.
ExistingAnswer(e) == IF Unknown(e) THEN "recovery_required" ELSE admissions[e].disposition

LookUp(c) ==
  /\ pc[c] = "start" /\ Submits(c)
  /\ IF Has(Plan[c]) THEN Finish(c, ExistingAnswer(Plan[c]))
                     ELSE Goto(c, "correlate") /\ UNCHANGED answer
  /\ UNCHANGED <<admissions, sent, decided, correlation, heard>>

Correlate(c) ==
  /\ pc[c] = "correlate"
  /\ \/ /\ \E k \in Correlations : correlation' = [correlation EXCEPT ![c] = k]
        /\ Goto(c, "reserve") /\ UNCHANGED answer
     \/ Finish(c, "failed") /\ UNCHANGED correlation
  /\ UNCHANGED <<admissions, sent, decided, heard>>

TrustLookUp(e) == FALSE   \* mutant: does not look again inside the transaction

\* Another call reserved the envelope since this one looked.
ReservedMeanwhile(e) == Has(e)

CorrelationTaken(k) == \E e \in Envelopes : Has(e) /\ admissions[e].correlation = k

\* The outcome is recorded as unknown before the owner is called.
Reserve(c) ==
  LET e == Plan[c]  k == correlation[c] IN
  /\ pc[c] = "reserve"
  /\ \/ /\ ~ReservedMeanwhile(e) /\ ~CorrelationTaken(k)
        /\ admissions' = [admissions EXCEPT ![e] =
                            [correlation |-> k, disposition |-> "unknown", exact |-> FALSE]]
        /\ Goto(c, "admit") /\ UNCHANGED answer
     \/ ReservedMeanwhile(e) /\ Finish(c, ExistingAnswer(e)) /\ UNCHANGED admissions
     \/ ~ReservedMeanwhile(e) /\ CorrelationTaken(k) /\ Finish(c, "correlation_conflict")
        /\ UNCHANGED admissions
     \/ Finish(c, "failed") /\ UNCHANGED admissions
  /\ UNCHANGED <<sent, decided, correlation, heard>>

Admit(c) ==
  /\ pc[c] = "admit"
  /\ sent' = sent \cup {[envelope |-> Plan[c], correlation |-> correlation[c], call |-> c]}
  /\ Goto(c, "await")
  /\ UNCHANGED <<admissions, decided, correlation, heard, answer>>

\* The reply names a disposition, and the exact mechanics when that is "admitted".
Usable(r) == r.disposition # "lost" /\ (r.disposition = "admitted" => r.exact)

Await(c) ==
  /\ pc[c] = "await"
  /\ \E r \in OwnerReplies(correlation[c]) :
       IF Usable(r)
       THEN /\ heard' = [heard EXCEPT ![c] = r]
            /\ Goto(c, "settle") /\ UNCHANGED answer
       ELSE Finish(c, "delivery_unknown") /\ UNCHANGED heard
  /\ UNCHANGED <<admissions, sent, decided, correlation>>

\* What a reply is recorded as
Heard(c) == [correlation |-> correlation[c], disposition |-> heard[c].disposition,
             exact |-> heard[c].exact]

\* The entry is still the unknown one of this correlation.
StillUnknown(e, k) == Unknown(e) /\ admissions[e].correlation = k

Settle(c) ==
  /\ pc[c] = "settle"
  /\ \/ /\ StillUnknown(Plan[c], correlation[c])
        /\ admissions' = [admissions EXCEPT ![Plan[c]] = Heard(c)]
        /\ Finish(c, heard[c].disposition)
     \/ /\ ~StillUnknown(Plan[c], correlation[c])
        /\ Finish(c, "recovery_mismatch") /\ UNCHANGED admissions
     \/ Finish(c, "failed") /\ UNCHANGED admissions
  /\ UNCHANGED <<sent, decided, correlation, heard>>

-------------------------------------------------------------------------------
\* recoverAdmission

Recoverable(k) == {e \in Envelopes : StillUnknown(e, k)}

Find(c) ==
  /\ pc[c] = "start" /\ ~Submits(c)
  /\ IF Recoverable(Plan[c]) = {} THEN Finish(c, "recovery_unavailable")
                                  ELSE Goto(c, "ask") /\ UNCHANGED answer
  /\ UNCHANGED <<admissions, sent, decided, correlation, heard>>

\* The reply must name a disposition; the mechanics are not compared.
Ask(c) ==
  /\ pc[c] = "ask"
  /\ \E r \in OwnerReplies(correlation[c]) :
       IF r.disposition # "lost"
       THEN /\ heard' = [heard EXCEPT ![c] = r]
            /\ Goto(c, "reconcile") /\ UNCHANGED answer
       ELSE Finish(c, "failed") /\ UNCHANGED heard
  /\ UNCHANGED <<admissions, sent, decided, correlation>>

Reconcile(c) ==
  /\ pc[c] = "reconcile"
  /\ \/ /\ \E e \in Recoverable(correlation[c]) : admissions' = [admissions EXCEPT ![e] = Heard(c)]
        /\ Finish(c, heard[c].disposition)
     \/ /\ Recoverable(correlation[c]) = {}
        /\ Finish(c, "recovery_mismatch") /\ UNCHANGED admissions
     \/ Finish(c, "failed") /\ UNCHANGED admissions
  /\ UNCHANGED <<sent, decided, correlation, heard>>

-------------------------------------------------------------------------------
Call(c) == \/ LookUp(c) \/ Correlate(c) \/ Reserve(c) \/ Admit(c) \/ Await(c) \/ Settle(c)
           \/ Find(c) \/ Ask(c) \/ Reconcile(c)

Next == (\E c \in Calls : Call(c)) \/ (\E k \in Correlations : Decide(k))

Spec == Init /\ [][Next]_vars

-------------------------------------------------------------------------------
\* Properties

\* The store, the owner and every call hold values of their declared kinds.
TypeOK ==
  /\ admissions \in [Envelopes -> Entry \cup {NoEntry}]
  /\ sent \subseteq [envelope: Envelopes, correlation: Correlations, call: Calls]
  /\ decided \in [Correlations -> SUBSET Decision]
  /\ \A k \in Correlations : \A d, e \in decided[k] : d = e
  /\ pc \in [Calls -> Labels]
  /\ correlation \in [Calls -> Correlations \cup {NoCorrelation}]
  /\ heard \in [Calls -> Replies]
  /\ answer \in [Calls -> Answers]

\* An envelope is delivered to the owner at most once, and not before the store
\* has it under the correlation it is delivered with, however many calls submit
\* it, are killed, and submit it again: an ambiguous delivery is never repeated.
DeliveredOnce ==
  /\ \A m, n \in sent : m.envelope = n.envelope => m = n
  /\ \A m \in sent : Has(m.envelope) /\ admissions[m.envelope].correlation = m.correlation

\* A correlation identifies one submission, so that a recovery by correlation
\* settles the envelope it was made for.
CorrelationsIdentify ==
  \A d, e \in Envelopes :
    Has(d) /\ Has(e) /\ admissions[d].correlation = admissions[e].correlation => d = e

\* A settled admission is what the owner decided, though the reply was lost, the
\* decision came late, or a submission and a recovery were under way at once.
SettledIsDecided ==
  \A e \in Envelopes : Has(e) /\ admissions[e].disposition \in Settled =>
    \E d \in decided[admissions[e].correlation] : d.disposition = admissions[e].disposition

\* A settled admission is never unsettled, by a reply that is older than it.
SettledStays ==
  [][\A e \in Envelopes : Has(e) /\ admissions[e].disposition \in Settled
       => admissions'[e] = admissions[e]]_vars

-------------------------------------------------------------------------------
\* What a document of the repository says, and the Steward does not do

\* An admission settled as "admitted" has the exact authorized routine mechanics.
AdmittedMechanicsAreExact ==
  \A e \in Envelopes : Has(e) /\ admissions[e].disposition = "admitted" => admissions[e].exact
===============================================================================
