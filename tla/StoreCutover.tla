------------------------------ MODULE StoreCutover ------------------------------
(***************************************************************************)
(* cutover_store: a copy of the predecessor store is retained, a store of  *)
(* the final schema is built from it under another name, and linked to a   *)
(* name that must be free.  An attempt reads the source, its fence, the    *)
(* retained copy and the source again at different moments, and may be     *)
(* killed between any two; the source is meant to be a copy that nobody    *)
(* writes, and is written here all the same.                               *)
(*                                                                         *)
(* The bytes of the source are its fence: each commit makes other ones.    *)
(***************************************************************************)
EXTENDS Naturals

CONSTANTS
  Attempts,    \* invocations of cutover_store
  CutoverIds,  \* their operation ids
  Missing,     \* no such file
  Partial,     \* a file that was not written to its end
  MaxWrites,   \* bound: commits to the source
  MaxCrashes   \* bound: kills

\* A file that is not there, or not whole, is none of those that are
CutoverConstants == {Missing, Partial} \cap Nat = {} /\ Missing # Partial

VARIABLES
  predecessor,  \* the fence of the source
  retained,     \* the fence of the retained copy, Partial, or Missing
  destination,  \* [operation, snapshot, content, fence], or Missing
  phase,        \* where each attempt is
  admitted,     \* what it has read: [operation, snapshot, fence]
  told,         \* what it tells its caller
  writes,       \* commits to the source
  crashes       \* kills so far

cvars == <<predecessor, retained, destination, phase, admitted, told, writes, crashes>>

Nothing == [operation |-> Missing, snapshot |-> 0, fence |-> 0]

Init ==
  /\ predecessor = 1 /\ retained = Missing /\ destination = Missing
  /\ phase = [a \in Attempts |-> "start"] /\ admitted = [a \in Attempts |-> Nothing]
  /\ told = [a \in Attempts |-> "none"] /\ writes = 0 /\ crashes = 0

Go(a, label)   == phase' = [phase EXCEPT ![a] = label] /\ UNCHANGED told
Tell(a, what)  == phase' = [phase EXCEPT ![a] = "done"] /\ told' = [told EXCEPT ![a] = what]

\* readPublishedCutover: the destination is of this operation, and of the snapshot that this
\* attempt has admitted.
Published(a) ==
  IF destination.operation # admitted[a].operation THEN "destination_exists"
  ELSE IF destination.snapshot # admitted[a].snapshot THEN "idempotency_mismatch"
  ELSE "cutover"

\* The catch of cutoverStore: what is published answers for an attempt that failed.
Fail(a, code) ==
  Tell(a, IF destination # Missing /\ Published(a) = "cutover" THEN "cutover"
          ELSE IF destination # Missing /\ code = "destination_exists" THEN Published(a)
          ELSE code)

-------------------------------------------------------------------------------
\* admitPredecessor reads the bytes, and then, as a database, the fence.
ReadSource(a, o) ==
  /\ phase[a] = "start"
  /\ admitted' = [admitted EXCEPT ![a] = [operation |-> o, snapshot |-> predecessor, fence |-> 0]]
  /\ Go(a, "fence")
  /\ UNCHANGED <<predecessor, retained, destination, writes, crashes>>

ReadFence(a) ==
  /\ phase[a] = "fence" /\ Go(a, "destination")
  /\ admitted' = [admitted EXCEPT ![a].fence = predecessor]
  /\ UNCHANGED <<predecessor, retained, destination, writes, crashes>>

FindDestination(a) ==
  /\ phase[a] = "destination"
  /\ IF destination = Missing THEN Go(a, "retained") ELSE Tell(a, Published(a))
  /\ UNCHANGED <<predecessor, retained, destination, admitted, writes, crashes>>

FindRetained(a) ==
  /\ phase[a] = "retained" /\ Go(a, IF retained = Missing THEN "copy" ELSE "bind")
  /\ UNCHANGED <<predecessor, retained, destination, admitted, writes, crashes>>

\* copyFile(..., COPYFILE_EXCL): the name is taken first, and then there are the bytes.
CopySource(a) ==
  /\ \/ /\ phase[a] = "copy"
        /\ IF retained = Missing THEN retained' = Partial /\ Go(a, "copying")
                                 ELSE UNCHANGED retained /\ Fail(a, "failed")
     \/ phase[a] = "copying" /\ retained' = predecessor /\ Go(a, "bind")
  /\ UNCHANGED <<predecessor, destination, admitted, writes, crashes>>

AnyCopy(a) == retained # Partial   \* mutant: a copy that is there is taken for the snapshot

\* sha256(retainedBytes) !== snapshot.sha256
IsSnapshot(a) == retained = admitted[a].snapshot

BindRetained(a) ==
  /\ phase[a] = "bind"
  /\ IF IsSnapshot(a) THEN Go(a, "unchanged") ELSE Fail(a, "snapshot_mismatch")
  /\ UNCHANGED <<predecessor, retained, destination, admitted, writes, crashes>>

\* The final store is built from the retained copy; then the source must be what it was.
SourceUnchanged(a) ==
  /\ phase[a] = "unchanged"
  /\ IF predecessor = admitted[a].snapshot THEN Go(a, "publish") ELSE Fail(a, "source_changed")
  /\ UNCHANGED <<predecessor, retained, destination, admitted, writes, crashes>>

\* buildFinal, as it is linked to the destination, which is not replaced
Publish(a) ==
  /\ phase[a] = "publish"
  /\ IF destination = Missing
       THEN /\ destination' = [operation |-> admitted[a].operation, snapshot |-> admitted[a].snapshot,
                               content |-> retained, fence |-> admitted[a].fence + 1]
            /\ Tell(a, "cutover")
       ELSE UNCHANGED destination /\ Fail(a, "destination_exists")
  /\ UNCHANGED <<predecessor, retained, admitted, writes, crashes>>

-------------------------------------------------------------------------------
WriteSource ==
  /\ writes < MaxWrites /\ writes' = writes + 1 /\ predecessor' = predecessor + 1
  /\ UNCHANGED <<retained, destination, phase, admitted, told, crashes>>

Kill(a) ==
  /\ phase[a] \notin {"start", "done"} /\ crashes < MaxCrashes /\ crashes' = crashes + 1
  /\ Tell(a, "killed") /\ UNCHANGED <<predecessor, retained, destination, admitted, writes>>

Next ==
  \/ WriteSource
  \/ \E a \in Attempts :
       \/ \E o \in CutoverIds : ReadSource(a, o)
       \/ ReadFence(a) \/ FindDestination(a) \/ FindRetained(a) \/ CopySource(a) \/ BindRetained(a)
       \/ SourceUnchanged(a) \/ Publish(a) \/ Kill(a)

Spec == Init /\ [][Next]_cvars
-------------------------------------------------------------------------------
TypeOK ==
  /\ predecessor \in Nat \ {0} /\ retained \in Nat \cup {Partial, Missing}
  /\ destination \in [operation: CutoverIds, snapshot: Nat, content: Nat, fence: Nat] \cup {Missing}
  /\ admitted \in [Attempts -> [operation: CutoverIds \cup {Missing}, snapshot: Nat, fence: Nat]]
  /\ writes \in 0..MaxWrites /\ crashes \in 0..MaxCrashes

\* The store that was published is one state of the predecessor, the one that is retained:
\* its rows, its fence and the snapshot that its receipt names, although the source was
\* written between the reads, or an earlier attempt had retained another state.
CutoverIsOneState ==
  destination # Missing =>
    /\ destination.content = destination.snapshot /\ destination.fence = destination.snapshot + 1
    /\ retained = destination.snapshot
===============================================================================
