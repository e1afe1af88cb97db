--------------------------- MODULE SuccessorBootstrap ---------------------------
(***************************************************************************)
(* initialize_store of the successor: an operation that a human has        *)
(* granted consumes its grant, reserves the destination, builds a store    *)
(* under a private name and links it to the destination, and records that  *)
(* it was published.  Each is a file next to the destination, written in a *)
(* step of its own, so that an attempt can be killed between any two, and  *)
(* that attempts of one operation, or of two, overlap.  An operator may    *)
(* remove the store.                                                       *)
(***************************************************************************)
EXTENDS Naturals

CONSTANTS
  Attempts,    \* invocations of initialize_store
  Grants,      \* operations that were granted
  Missing,     \* no such file
  MaxCrashes,  \* bound: kills
  MaxRemovals  \* bound: removals of the store

\* A record that is not there is none of those that are
GrantConstants ==
  Missing \notin {"consumed", "published"} \cup [operation: Grants, phase: {"reserved", "published"}]

VARIABLES
  grant,        \* which grants are there
  consumed,     \* the record of each grant: its phase, or Missing
  reservation,  \* [operation, phase] of the destination, or Missing
  successor,    \* the operation that made the store at the destination, or Missing
  stage,        \* where each attempt is
  operation,    \* the operation that it attempts
  record,       \* the phase that it has read of its record
  told,         \* what it tells its caller
  crashes, removals

files == <<grant, consumed, reservation, successor>>
bvars == <<files, stage, operation, record, told, crashes, removals>>

Init ==
  /\ grant = Grants /\ consumed = [o \in Grants |-> Missing]
  /\ reservation = Missing /\ successor = Missing
  /\ stage = [a \in Attempts |-> "start"] /\ operation = [a \in Attempts |-> Missing]
  /\ record = [a \in Attempts |-> Missing] /\ told = [a \in Attempts |-> "none"]
  /\ crashes = 0 /\ removals = 0

Go(a, label)  == stage' = [stage EXCEPT ![a] = label] /\ UNCHANGED told
Tell(a, what) == stage' = [stage EXCEPT ![a] = "done"] /\ told' = [told EXCEPT ![a] = what]

Own(a)     == operation[a]
Granted(a) == Own(a) \in grant

-------------------------------------------------------------------------------
\* A record that is there is the grant that was consumed.
ReadRecord(a, o) ==
  /\ stage[a] = "start" /\ operation' = [operation EXCEPT ![a] = o]
  /\ record' = [record EXCEPT ![a] = consumed[o]]
  /\ Go(a, IF consumed[o] = Missing THEN "grant" ELSE "spent")
  /\ UNCHANGED <<files, crashes, removals>>

NoSecondGrant(a) ==
  /\ stage[a] = "spent" /\ IF Granted(a) THEN Tell(a, "duplicate_grant") ELSE Go(a, "reserve")
  /\ UNCHANGED <<files, operation, record, crashes, removals>>

ReadGrant(a) ==
  /\ stage[a] = "grant" /\ IF Granted(a) THEN Go(a, "absent") ELSE Tell(a, "unavailable")
  /\ UNCHANGED <<files, operation, record, crashes, removals>>

DestinationAbsent(a) ==
  /\ stage[a] = "absent" /\ IF successor = Missing THEN Go(a, "link") ELSE Tell(a, "destination_exists")
  /\ UNCHANGED <<files, operation, record, crashes, removals>>

\* linkSync(grantPath, paths.consumed): a grant that is gone has been consumed, and so has
\* one whose record is there; but then it must go.
ConsumeGrant(a) ==
  /\ stage[a] = "link"
  /\ IF Granted(a) /\ consumed[Own(a)] = Missing
       THEN consumed' = [consumed EXCEPT ![Own(a)] = "consumed"] /\ Go(a, "unlink")
       ELSE UNCHANGED consumed /\ Go(a, IF Granted(a) THEN "lost" ELSE "unlink")
  /\ UNCHANGED <<grant, reservation, successor, operation, record, crashes, removals>>

LoseGrant(a) ==
  /\ stage[a] = "lost" /\ IF Granted(a) THEN Tell(a, "duplicate_grant") ELSE Go(a, "unlink")
  /\ UNCHANGED <<files, operation, record, crashes, removals>>

UnlinkGrant(a) ==
  /\ stage[a] = "unlink" /\ grant' = grant \ {Own(a)} /\ Go(a, "record")
  /\ UNCHANGED <<consumed, reservation, successor, operation, record, crashes, removals>>

RereadRecord(a) ==
  /\ stage[a] = "record" /\ record' = [record EXCEPT ![a] = consumed[Own(a)]] /\ Go(a, "reserve")
  /\ UNCHANGED <<files, operation, crashes, removals>>

Reserved(a) == [operation |-> Own(a), phase |-> "reserved"]

ReserveOver(a) ==   \* mutant: the reservation is renamed, not linked, to its name
  /\ stage[a] = "reserve" /\ reservation' = Reserved(a) /\ Go(a, "destination")
  /\ UNCHANGED <<grant, consumed, successor, operation, record, crashes, removals>>

\* atomicWriteNoReplace: the first reservation stays, and binds the destination for ever.
ReserveDestination(a) ==
  /\ stage[a] = "reserve"
  /\ IF reservation = Missing THEN reservation' = Reserved(a) /\ Go(a, "destination")
     ELSE /\ UNCHANGED reservation
          /\ IF reservation.operation = Own(a) THEN Go(a, "destination") ELSE Tell(a, "destination_reserved")
  /\ UNCHANGED <<grant, consumed, successor, operation, record, crashes, removals>>

\* A store that is there must be this operation's: its receipt recovers the attempt.
FindDestination(a) ==
  /\ stage[a] = "destination"
  /\ IF successor = Own(a) THEN Go(a, "publishRecord")
     ELSE IF successor # Missing THEN Tell(a, "destination_exists")
     ELSE IF record[a] = "published" THEN Tell(a, "published_destination_missing")
     ELSE Go(a, "publish")
  /\ UNCHANGED <<files, operation, record, crashes, removals>>

\* createCompleteTemporaryStore, as it is linked to the destination, which is not replaced
PublishStore(a) ==
  /\ stage[a] = "publish"
  /\ IF successor = Missing THEN successor' = Own(a) /\ Go(a, "publishRecord")
     ELSE UNCHANGED successor /\ IF successor = Own(a) THEN Go(a, "publishRecord") ELSE Tell(a, "unavailable")
  /\ UNCHANGED <<grant, consumed, reservation, operation, record, crashes, removals>>

\* atomicReplaceMatchingPhaseRecord of both records
PublishRecord(a) ==
  /\ stage[a] = "publishRecord" /\ consumed' = [consumed EXCEPT ![Own(a)] = "published"]
  /\ Go(a, "publishReservation")
  /\ UNCHANGED <<grant, reservation, successor, operation, record, crashes, removals>>

PublishReservation(a) ==
  /\ stage[a] = "publishReservation"
  /\ reservation' = [operation |-> Own(a), phase |-> "published"] /\ Tell(a, "initialized")
  /\ UNCHANGED <<grant, consumed, successor, operation, record, crashes, removals>>

-------------------------------------------------------------------------------
Remove ==
  /\ successor # Missing /\ removals < MaxRemovals /\ removals' = removals + 1
  /\ successor' = Missing
  /\ UNCHANGED <<grant, consumed, reservation, stage, operation, record, told, crashes>>

Kill(a) ==
  /\ stage[a] \notin {"start", "done"} /\ crashes < MaxCrashes /\ crashes' = crashes + 1
  /\ Tell(a, "killed") /\ UNCHANGED <<files, operation, record, removals>>

Next ==
  \/ Remove
  \/ \E a \in Attempts :
       \/ \E o \in Grants : ReadRecord(a, o)
       \/ NoSecondGrant(a) \/ ReadGrant(a) \/ DestinationAbsent(a) \/ ConsumeGrant(a) \/ LoseGrant(a)
       \/ UnlinkGrant(a) \/ RereadRecord(a) \/ ReserveDestination(a) \/ FindDestination(a)
       \/ PublishStore(a) \/ PublishRecord(a) \/ PublishReservation(a) \/ Kill(a)

Spec == Init /\ [][Next]_bvars
-------------------------------------------------------------------------------
TypeOK ==
  /\ grant \subseteq Grants /\ consumed \in [Grants -> {"consumed", "published", Missing}]
  /\ reservation \in [operation: Grants, phase: {"reserved", "published"}] \cup {Missing}
  /\ successor \in Grants \cup {Missing}
  /\ record \in [Attempts -> {"consumed", "published", Missing}]
  /\ crashes \in 0..MaxCrashes /\ removals \in 0..MaxRemovals

\* One operation makes the store at the destination, with a grant that is spent: the one that
\* reserved it, also after the store was removed; no caller of another is told that it did.
OneGrantedMaker ==
  /\ successor # Missing =>
       /\ reservation # Missing /\ reservation.operation = successor
       /\ consumed[successor] # Missing
  /\ \A a \in Attempts : told[a] = "initialized" =>
       reservation.operation = Own(a) /\ consumed[Own(a)] = "published" /\ Own(a) \notin grant

\* A store that was published is not made again once it was removed.  It is not so while an
\* attempt that read its record before is under way, or the record was not written.
RemovedStaysRemoved == removals > 0 => successor = Missing

\* A grant that was consumed is gone once its attempts are over, so that a retry resumes.
\* It is not so for one that was killed between its link and its unlink.
ConsumedIsGone ==
  \A o \in Grants : consumed[o] # Missing /\ (\A a \in Attempts : Own(a) = o => stage[a] = "done") =>
    o \notin grant
===============================================================================
