------------------------------- MODULE StoreExport -------------------------------
(***************************************************************************)
(* export.preflight and export.finalize.  A preflight reads the corpus of  *)
(* Cases and that of Frames, renders one fragment of each owner, reads the *)
(* fence again, and writes a bundle under a temporary name.  A             *)
(* finalization, of the digests that a preflight answered with, verifies   *)
(* the bundle, puts its marker in it, and renames it to its final name;    *)
(* what came of it is settled as a receipt of the store.  A call reads and *)
(* writes in separate steps, and may be killed between any two; others     *)
(* commit to the store meanwhile.                                          *)
(*                                                                         *)
(* There is one Case, and one Frame that depends on it, exported in the    *)
(* current mode.  A bundle is its fragments, its manifest and its marker;  *)
(* all requests name the same two paths.                                   *)
(***************************************************************************)
EXTENDS Naturals, Sequences

CONSTANTS
  Preflights,     \* calls of export.preflight
  Finalizations,  \* calls of export.finalize
  ExportIds,      \* their operation ids
  None,           \* no such file
  MaxMoves,       \* bound: commits of other processes
  MaxKills,       \* bound: kills
  MaxAttempts     \* attempts to settle a receipt

NoManifest == [fence |-> 0, case |-> 0, frame |-> 0]
Manifests  == [fence: Nat, case: Nat, frame: Nat]
Bundles    == [fragments: Manifests \cup {None}, manifest: Manifests \cup {None},
               marker: [operation: ExportIds, expected: Manifests] \cup {NoManifest, None}]

\* A call is of one kind, and a bundle that is not there is none of those that are.
ExportConstants == Preflights \cap Finalizations = {} /\ None \notin Bundles

VARIABLES
  states,     \* at each fence, the revisions of the owners, and whether the policy is active
  settled,    \* the receipt of each operation: [expected, outcome], or None
  temporary,  \* the bundle under its temporary name: [fragments, manifest, marker], or None
  final,      \* and under its final name
  step,       \* where each call is
  observed,   \* a preflight: the manifest that it builds; a finalization: that it was given
  reply,      \* what it tells its caller
  operation,  \* the operation of a finalization
  terminal,   \* the outcome that it settles
  fenceRead,  \* the fence at which it settles it
  attempts,   \* attempts to do so
  moves,      \* commits of other processes
  kills       \* kills so far

store   == <<states, settled>>
paths   == <<temporary, final>>
locals  == <<observed, operation, terminal, fenceRead, attempts>>
counts  == <<moves, kills>>
evars   == <<store, paths, step, reply, locals, counts>>

Attempted == Preflights \cup Finalizations

Fence == Len(states)
Now   == states[Fence]

Empty      == [fragments |-> None, manifest |-> None, marker |-> None]

Init ==
  /\ states = <<[case |-> 1, frame |-> 1, depends |-> 1, policy |-> TRUE]>>
  /\ settled = [o \in ExportIds |-> None]
  /\ temporary = None /\ final = None
  /\ step = [c \in Attempted |-> "start"] /\ reply = [c \in Attempted |-> "none"]
  /\ observed = [c \in Attempted |-> NoManifest] /\ operation = [c \in Finalizations |-> None]
  /\ terminal = [c \in Finalizations |-> "none"] /\ fenceRead = [c \in Finalizations |-> 0]
  /\ attempts = [c \in Finalizations |-> 0]
  /\ moves = 0 /\ kills = 0

Go(c, label) == step' = [step EXCEPT ![c] = label] /\ UNCHANGED reply

End(c, what) == step' = [step EXCEPT ![c] = "done"] /\ reply' = [reply EXCEPT ![c] = what]

Check(c, holds, next, otherwise) == IF holds THEN Go(c, next) ELSE End(c, otherwise)

-------------------------------------------------------------------------------
\* buildPreflight.  A blocker is recorded and the next step taken; with one the call ends
\* with no effect, so that it ends here at the first.

NoTemporary(c) ==
  /\ step[c] = "start" /\ c \in Preflights
  /\ Check(c, temporary = None, "noFinal", "invalid")
  /\ UNCHANGED <<store, paths, locals, counts>>

NoFinal(c) ==
  /\ step[c] = "noFinal" /\ Check(c, final = None, "cases", "invalid")
  /\ UNCHANGED <<store, paths, locals, counts>>

ReadCases(c) ==
  /\ step[c] = "cases" /\ Check(c, Now.policy, "frames", "blocked")
  /\ observed' = [observed EXCEPT ![c] = [fence |-> Fence, case |-> Now.case, frame |-> 0]]
  /\ UNCHANGED <<store, paths, operation, terminal, fenceRead, attempts, counts>>

\* The corpora are of one state: new Set(fences).size === 1
AtFence(c) == Fence = observed[c].fence

ReadFrames(c) ==
  /\ step[c] = "frames" /\ Check(c, Now.policy /\ AtFence(c), "caseFragment", "blocked")
  /\ observed' = [observed EXCEPT ![c].frame = Now.frame]
  /\ UNCHANGED <<store, paths, operation, terminal, fenceRead, attempts, counts>>

\* renderOwnerFragment and verifyFragment: the fragment is of the revision that the corpus
\* had, and names it as the current one.
RenderCase(c) ==
  /\ step[c] = "caseFragment"
  /\ Check(c, Now.policy /\ Now.case = observed[c].case, "frameFragment", "blocked")
  /\ UNCHANGED <<store, paths, locals, counts>>

\* dependencyState: the Frame's reference is to the revision that the Case has in the corpus.
RenderFrame(c) ==
  /\ step[c] = "frameFragment"
  /\ Check(c, Now.policy /\ Now.frame = observed[c].frame /\ Now.depends = observed[c].case,
           "casesAgain", "blocked")
  /\ UNCHANGED <<store, paths, locals, counts>>

ReadAgain(c) ==
  /\ \/ step[c] = "casesAgain" /\ Check(c, Now.policy /\ AtFence(c), "framesAgain", "blocked")
     \/ step[c] = "framesAgain" /\ Check(c, Now.policy /\ AtFence(c), "mkdir", "blocked")
  /\ UNCHANGED <<store, paths, locals, counts>>

\* mkdir and writeFile(..., {flag: "wx"}): what is there already, or is not there any more,
\* makes the call fail, and clean up.
MakeTemporary(c) ==
  /\ step[c] = "mkdir"
  /\ IF temporary = None THEN temporary' = Empty /\ Go(c, "fragments")
                         ELSE UNCHANGED temporary /\ Go(c, "rmFiles")
  /\ UNCHANGED <<store, final, locals, counts>>

Write(c, part, next) ==
  IF temporary # None /\ temporary[part] = None
    THEN temporary' = [temporary EXCEPT ![part] = observed[c]] /\ Go(c, next)
    ELSE UNCHANGED temporary /\ Go(c, "rmFiles")

WriteBundle(c) ==
  /\ \/ step[c] = "fragments" /\ Write(c, "fragments", "manifest")
     \/ step[c] = "manifest" /\ Write(c, "manifest", "verifyTemporary")
  /\ UNCHANGED <<store, final, locals, counts>>

VerifyTemporary(c) ==
  /\ step[c] = "verifyTemporary"
  /\ IF temporary # None /\ temporary.fragments = observed[c] /\ temporary.manifest = observed[c]
       THEN End(c, "ready") ELSE Go(c, "rmFiles")
  /\ UNCHANGED <<store, paths, locals, counts>>

-------------------------------------------------------------------------------
\* rm(temporary, {recursive: true, force: true}): some of the files, then all.  It is by
\* name, so that it removes what another call has put there in the meantime.

Parts(bundle) ==
  {[fragments |-> f, manifest |-> m, marker |-> k] :
     f \in {bundle.fragments, None}, m \in {bundle.manifest, None}, k \in {bundle.marker, None}}

RemoveFiles(c) ==
  /\ step[c] = "rmFiles" /\ Go(c, "rmDirectory")
  /\ IF temporary = None THEN UNCHANGED temporary ELSE temporary' \in Parts(temporary)
  /\ UNCHANGED <<store, final, locals, counts>>

RemoveDirectory(c) ==
  /\ step[c] = "rmDirectory" /\ temporary' = None
  /\ IF c \in Preflights THEN End(c, "failed")
     ELSE Go(c, IF terminal[c] = "blocked" THEN "settle" ELSE "confirm")
  /\ UNCHANGED <<store, final, locals, counts>>

-------------------------------------------------------------------------------
\* finalizeExport

Marker(c) == [operation |-> operation[c], expected |-> observed[c]]

\* replayFinalizationReceipt
Replayed(o, m) == IF settled[o].expected = m THEN settled[o].outcome ELSE "mismatch"

\* blockedFinalization, which removes the temporary bundle unless the rename failed
Block(c, next) == terminal' = [terminal EXCEPT ![c] = "blocked"] /\ Go(c, next)

\* The caller names an operation and what a preflight answered; a receipt that is there
\* comes first.
Finalize(c, o, p) ==
  /\ step[c] = "start" /\ c \in Finalizations /\ reply[p] = "ready"
  /\ operation' = [operation EXCEPT ![c] = o] /\ observed' = [observed EXCEPT ![c] = observed[p]]
  /\ IF settled[o] # None THEN End(c, Replayed(o, observed[p])) ELSE Go(c, "final")
  /\ UNCHANGED <<store, paths, terminal, fenceRead, attempts, counts>>

FindFinal(c) ==
  /\ step[c] = "final" /\ Go(c, IF final = None THEN "render" ELSE "recover")
  /\ UNCHANGED <<store, paths, locals, counts>>

FindTemporary(c) ==
  /\ step[c] \in {"render", "recover"}
  /\ IF step[c] = "recover"
       THEN Go(c, IF temporary = None THEN "recovered" ELSE "recoveredBoth") /\ UNCHANGED terminal
       ELSE IF temporary = None THEN Block(c, "rmFiles")
       ELSE Go(c, IF temporary.marker = None THEN "plain" ELSE "marked") /\ UNCHANGED terminal
  /\ UNCHANGED <<store, paths, observed, operation, fenceRead, attempts, counts>>

\* verifyBundle
Verified(bundle, c, marker) ==
  bundle = [fragments |-> observed[c], manifest |-> observed[c], marker |-> marker]

\* The final output is there: it is this operation's, or nobody knows.
RecoverFinal(c) ==
  /\ step[c] \in {"recovered", "recoveredBoth"}
  /\ Check(c, Verified(final, c, Marker(c)), IF step[c] = "recovered" THEN "confirm" ELSE "stale", "uncertain")
  /\ UNCHANGED <<store, paths, locals, counts>>

StaleTemporary(c) ==
  /\ step[c] = "stale" /\ Go(c, IF Verified(temporary, c, None) THEN "rmFiles" ELSE "confirm")
  /\ UNCHANGED <<store, paths, locals, counts>>

VerifyBundle(c) ==
  /\ step[c] \in {"plain", "marked"}
  /\ IF Verified(temporary, c, IF step[c] = "plain" THEN None ELSE Marker(c))
       THEN Go(c, IF step[c] = "plain" THEN "policy" ELSE "policyMarked") /\ UNCHANGED terminal
       ELSE Block(c, "rmFiles")
  /\ UNCHANGED <<store, paths, observed, operation, fenceRead, attempts, counts>>

\* The policy is active, and then the temporary directory is on the device of the final one.
ReadPolicy(c) ==
  /\ step[c] \in {"policy", "policyMarked"}
  /\ IF Now.policy THEN Go(c, IF step[c] = "policy" THEN "device" ELSE "deviceMarked") /\ UNCHANGED terminal
                   ELSE Block(c, "rmFiles")
  /\ UNCHANGED <<store, paths, observed, operation, fenceRead, attempts, counts>>

OneDevice(c) ==
  /\ step[c] \in {"device", "deviceMarked"}
  /\ IF temporary # None THEN Go(c, IF step[c] = "device" THEN "mark" ELSE "remark") /\ UNCHANGED terminal
                         ELSE Block(c, "rmFiles")
  /\ UNCHANGED <<store, paths, observed, operation, fenceRead, attempts, counts>>

CheckMarker(c) ==
  /\ step[c] = "remark"
  /\ IF temporary # None /\ temporary.marker = Marker(c) THEN Go(c, "rename") /\ UNCHANGED terminal
                                                          ELSE Block(c, "rmFiles")
  /\ UNCHANGED <<store, paths, observed, operation, fenceRead, attempts, counts>>

\* A marker, or no directory, where there was none a moment ago, makes the call fail.
WriteMarker(c) ==
  /\ step[c] = "mark"
  /\ IF temporary # None /\ temporary.marker = None
       THEN temporary' = [temporary EXCEPT !.marker = Marker(c)] /\ Go(c, "rename")
       ELSE UNCHANGED temporary /\ End(c, "unavailable")
  /\ UNCHANGED <<store, final, locals, counts>>

\* rename does not replace a directory that is not empty.
Rename(c) ==
  /\ step[c] = "rename"
  /\ IF temporary # None /\ final = None
       THEN final' = temporary /\ temporary' = None /\ Go(c, "confirm")
       ELSE UNCHANGED paths /\ Go(c, "raced")
  /\ UNCHANGED <<store, locals, counts>>

Raced(c) ==
  /\ step[c] = "raced"
  /\ Go(c, IF Verified(final, c, Marker(c)) THEN "confirm" ELSE "notRaced")
  /\ UNCHANGED <<store, paths, locals, counts>>

NotRaced(c) ==
  /\ step[c] = "notRaced"
  /\ IF final # None THEN End(c, "uncertain") /\ UNCHANGED terminal ELSE Block(c, "settle")
  /\ UNCHANGED <<store, paths, observed, operation, fenceRead, attempts, counts>>

Trust(c) ==   \* mutant: what was renamed is not verified again
  /\ step[c] = "confirm"
  /\ terminal' = [terminal EXCEPT ![c] = "finalized"] /\ Go(c, "settle")
  /\ UNCHANGED <<store, paths, observed, operation, fenceRead, attempts, counts>>

\* The final output as it is now
Confirm(c) ==
  /\ step[c] = "confirm"
  /\ IF Verified(final, c, Marker(c))
       THEN terminal' = [terminal EXCEPT ![c] = "finalized"] /\ Go(c, "settle")
       ELSE UNCHANGED terminal /\ End(c, "uncertain")
  /\ UNCHANGED <<store, paths, observed, operation, fenceRead, attempts, counts>>

\* settleFinalization: the receipt, if there is one; else the fence, and a receipt at it
ReadReceipt(c) ==
  /\ step[c] = "settle"
  /\ IF settled[operation[c]] # None THEN End(c, Replayed(operation[c], observed[c])) /\ UNCHANGED <<fenceRead, attempts>>
     ELSE IF attempts[c] = MaxAttempts THEN End(c, "receipt_unavailable") /\ UNCHANGED <<fenceRead, attempts>>
     ELSE /\ fenceRead' = [fenceRead EXCEPT ![c] = Fence] /\ attempts' = [attempts EXCEPT ![c] = @ + 1]
          /\ Go(c, "commit")
  /\ UNCHANGED <<store, paths, observed, operation, terminal, counts>>

SettleReceipt(c) ==
  /\ step[c] = "commit"
  /\ IF settled[operation[c]] = None /\ Fence = fenceRead[c]
       THEN /\ settled' = [settled EXCEPT ![operation[c]] = [expected |-> observed[c], outcome |-> terminal[c]]]
            /\ states' = Append(states, Now)
            /\ End(c, terminal[c])
       ELSE UNCHANGED store /\ Go(c, "settle")
  /\ UNCHANGED <<paths, locals, counts>>

-------------------------------------------------------------------------------
\* Other processes commit a Case, or a Frame that follows it, or another policy.
Move ==
  /\ moves < MaxMoves /\ moves' = moves + 1
  /\ states' \in {Append(states, [Now EXCEPT !.case = @ + 1]),
                  Append(states, [Now EXCEPT !.frame = @ + 1, !.depends = Now.case]),
                  Append(states, [Now EXCEPT !.policy = FALSE])}
  /\ UNCHANGED <<settled, paths, step, reply, locals, kills>>

\* A call is killed, possibly while it writes its marker.
Kill(c) ==
  /\ step[c] \notin {"start", "done"} /\ kills < MaxKills /\ kills' = kills + 1
  /\ \/ UNCHANGED temporary
     \/ step[c] = "mark" /\ temporary # None /\ temporary.marker = None
        /\ temporary' = [temporary EXCEPT !.marker = NoManifest]
  /\ End(c, "killed") /\ UNCHANGED <<store, final, locals, moves>>

Preflight(c) ==
  \/ NoTemporary(c) \/ NoFinal(c) \/ ReadCases(c) \/ ReadFrames(c) \/ RenderCase(c) \/ RenderFrame(c)
  \/ ReadAgain(c) \/ MakeTemporary(c) \/ WriteBundle(c) \/ VerifyTemporary(c)

Finalization(c) ==
  \/ \E o \in ExportIds, p \in Preflights : Finalize(c, o, p)
  \/ FindFinal(c) \/ FindTemporary(c) \/ RecoverFinal(c) \/ StaleTemporary(c) \/ VerifyBundle(c)
  \/ ReadPolicy(c) \/ OneDevice(c) \/ CheckMarker(c) \/ WriteMarker(c) \/ Rename(c) \/ Raced(c)
  \/ NotRaced(c) \/ Confirm(c) \/ ReadReceipt(c) \/ SettleReceipt(c)

Next ==
  \/ Move
  \/ \E c \in Preflights : Preflight(c)
  \/ \E c \in Finalizations : Finalization(c)
  \/ \E c \in Attempted : RemoveFiles(c) \/ RemoveDirectory(c) \/ Kill(c)

Spec == Init /\ [][Next]_evars
-------------------------------------------------------------------------------
TypeOK ==
  /\ settled \in [ExportIds -> [expected: Manifests, outcome: {"finalized", "blocked"}] \cup {None}]
  /\ {temporary, final} \subseteq Bundles \cup {None}
  /\ observed \in [Attempted -> Manifests]
  /\ attempts \in [Finalizations -> 0..MaxAttempts]
  /\ moves \in 0..MaxMoves /\ kills \in 0..MaxKills

\* A preflight that is ready exports one state: the revisions in its manifest were the
\* current ones at its fence, and the Frame depended on the Case that is exported with it.
ReadyIsOneState ==
  \A c \in Preflights : reply[c] = "ready" =>
    LET then == states[observed[c].fence] IN
      then.policy /\ then.case = observed[c].case /\ then.frame = observed[c].frame /\ then.depends = then.case

\* What a receipt says was finalized is there, whole, with the marker of that operation:
\* no other call has damaged it before it was renamed, or replaced it afterwards.
FinalizedIsExact ==
  \A o \in ExportIds : settled[o] # None /\ settled[o].outcome = "finalized" =>
    LET m == settled[o].expected IN
      final = [fragments |-> m, manifest |-> m, marker |-> [operation |-> o, expected |-> m]]

\* A receipt that says blocked, with no effect on the destination, is of an operation whose
\* bundle is not there.  It is not so when two attempts of one operation overlap.
BlockedHasNoEffect ==
  \A o \in ExportIds : settled[o] # None /\ settled[o].outcome = "blocked" =>
    final = None \/ final.marker # [operation |-> o, expected |-> settled[o].expected]
===============================================================================
