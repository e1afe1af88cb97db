--------------------------------- MODULE Tools ---------------------------------
(***************************************************************************)
(* The programs beside the stores, which share no state: the installer     *)
(* (AgentsOs, which this module extends), the admission of an              *)
(* implementation by the Steward (A), paired agents (P) and their bus (W). *)
(* What each of them promises is stated here, for the run and for the      *)
(* proofs.                                                                 *)
(***************************************************************************)
EXTENDS AgentsOs

CONSTANTS
  Calls, Envelopes, Correlations, NoEntry, NoCorrelation, Work,   \* StewardAdmission
  Runs, Stamps, Offered, Missing, MaxFaults,                      \* PairedAgents
  Clients, MaxMessages                                            \* PairBus

VARIABLES
  admissions, sent, decided, calling, correlation, heard, answer,
  run, files, index, faults,
  status, published, up, down, kept, buffer, received, emitted, since

A == INSTANCE StewardAdmission WITH Plan <- Work, pc <- calling

P == INSTANCE PairedAgents

W == INSTANCE PairBus

ASSUME ToolsAssumption == SyncConstants

ASSUME AdmissionAssumption == A!AdmissionConstants

ASSUME PairsAssumption == P!PairConstants

-------------------------------------------------------------------------------
\* What is admitted is delivered once, and settled as its owner decided, whatever became of
\* the replies (steward.mjs: submitAdmission, recoverAdmission).
AdmissionsAreTrue == A!DeliveredOnce /\ A!SettledIsDecided

\* What a run that succeeds has been through (isolated-runner.mjs:241-250)
SuccessIsSupervised == P!SuccessIsSupervised

\* A run that ends leaves files that tell its answer, and no session (isolated-runner.mjs:126, 264).
RunsEndWell == P!ArtifactsTellTheAnswer /\ P!SessionsEnd

\* The messages of the bus, in one order
OneOrderForAll == W!OneOrderForAll

\* What the code does not do: each has a counterexample, in no listed run
AdmittedMechanicsAreExact == A!AdmittedMechanicsAreExact
RunsAreApart              == P!RunsAreApart

PartsOK == TypeOK /\ A!TypeOK /\ P!TypeOK /\ W!TypeOK
===============================================================================
