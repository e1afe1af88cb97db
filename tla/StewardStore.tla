------------------------------ MODULE StewardStore ------------------------------
(***************************************************************************)
(* StewardStore.transact: every custody, portfolio and admission operation *)
(* of the Steward reads a JSON file, changes a draft of it and renames the *)
(* draft over the file, under a lock file that holds the pid and a token   *)
(* of the transaction that made it.                                        *)
(*                                                                         *)
(* One transaction per process.  The file system's calls are the actions,  *)
(* the creation of the lock file and the writing of its text among them as *)
(* two, and each may fail.  A process may be killed between any two calls, *)
(* or end after its own: then it no longer exists (a pid is not reused).   *)
(***************************************************************************)
EXTENDS Naturals, FiniteSets

CONSTANTS
  Procs,      \* processes, each with one transaction
  NoLock,     \* the lock file does not exist
  MaxKilled   \* bound: how many processes may be killed or end

\* The lock file, by the process that created it; its text names that process.
Locks == [by: Procs, written: BOOLEAN]

StoreConstants == NoLock \notin Locks /\ MaxKilled \in Nat

ASSUME StoreAssumption == StoreConstants

VARIABLES
  lock,      \* the file <database>.lock
  contents,  \* the transactions whose changes the database file contains
  draft,     \* ... and those that each transaction's draft contains
  seen,      \* the dead holders whose text each transaction has read
  pc,        \* where each transaction is
  answer,    \* what each transaction tells its caller
  killed     \* the processes that no longer exist

vars == <<lock, contents, draft, seen, pc, answer, killed>>

\* ("unread" and "wait" are one place in the code: which of the two tells whether the
\* text of the lock was read)
Labels == {"create", "publish", "holder", "recheck", "unlink", "unread", "wait", "conflict",
           "read", "rename", "own", "free", "done"}

Answers == {"none", "conflict", "failed", "unwritten", "success"}

\* From the creation of the lock to its release
Holding == {"publish", "read", "rename", "own", "free"}

Goto(p, label) == pc' = [pc EXCEPT ![p] = label]
Say(p, what)   == answer' = [answer EXCEPT ![p] = what]

Init ==
  /\ lock = NoLock
  /\ contents = {}
  /\ draft = [p \in Procs |-> {}]
  /\ seen = [p \in Procs |-> {}]
  /\ pc = [p \in Procs |-> "create"]
  /\ answer = [p \in Procs |-> "none"]
  /\ killed = {}

-------------------------------------------------------------------------------
\* #acquireTransactionLock

\* The text of the lock file is that of p.
Holds(p) == lock # NoLock /\ lock.by = p /\ lock.written

\* The lock file is created, empty, unless it exists.
CreateExclusive(p) ==
  IF lock = NoLock
  THEN lock' = [by |-> p, written |-> FALSE] /\ Goto(p, "publish")
  ELSE UNCHANGED lock /\ Goto(p, "holder")

Create(p) ==
  /\ pc[p] = "create"
  /\ \/ CreateExclusive(p) /\ UNCHANGED answer
     \/ UNCHANGED lock /\ Goto(p, "done") /\ Say(p, "failed")
  /\ UNCHANGED <<contents, draft, seen>>

\* The text is written to the file that was created, wherever that is now.  A
\* failed write refuses the transaction and leaves the lock file.
Publish(p) ==
  /\ pc[p] = "publish"
  /\ \/ /\ lock' = IF lock = [by |-> p, written |-> FALSE]
                   THEN [by |-> p, written |-> TRUE] ELSE lock
        /\ Goto(p, "read") /\ UNCHANGED answer
     \/ UNCHANGED lock /\ Goto(p, "done") /\ Say(p, "failed")
  /\ UNCHANGED <<contents, draft, seen>>

NeverDead(p) == FALSE   \* mutant: takes no process to be dead

\* process.kill(pid, 0) finds no process.
Dead(p) == p \in killed

\* A lock without a readable text has no holder to ask for.
ReadHolder(p) ==
  /\ pc[p] = "holder"
  /\ IF lock = NoLock THEN Goto(p, "create") /\ UNCHANGED seen
     ELSE IF lock.written /\ Dead(lock.by)
          THEN Goto(p, "recheck") /\ seen' = [seen EXCEPT ![p] = {lock.by}]
          ELSE Goto(p, "wait") /\ UNCHANGED seen
  /\ UNCHANGED <<lock, contents, draft, answer>>

\* The text cannot be read: null, as if it named nobody.
HolderUnread(p) ==
  /\ pc[p] = "holder" /\ lock # NoLock
  /\ Goto(p, "unread")
  /\ UNCHANGED <<lock, contents, draft, seen, answer>>

\* The text is read again, and is still that of the dead holder.
Recheck(p) ==
  /\ pc[p] = "recheck"
  /\ Goto(p, IF \E q \in seen[p] : Holds(q) THEN "unlink" ELSE "create")
  /\ UNCHANGED <<lock, contents, draft, seen, answer>>

\* ... and then the file is removed, whatever it is.
UnlinkStale(p) ==
  /\ pc[p] = "unlink"
  /\ lock' = NoLock
  /\ Goto(p, "create")
  /\ UNCHANGED <<contents, draft, seen, answer>>

\* The text cannot be read again, or the file not removed.  That is caught, and the loop
\* goes on without a look at the deadline, and without a sleep.
RecoveryFails(p) ==
  /\ pc[p] \in {"recheck", "unlink"}
  /\ Goto(p, "create")
  /\ UNCHANGED <<lock, contents, draft, seen, answer>>

\* Sleep and try again, or give up once the deadline has passed.
GiveUpOrRetry(p) ==
  \/ Goto(p, "create") /\ UNCHANGED answer
  \/ Goto(p, "conflict") /\ Say(p, "conflict")

Wait(p) ==
  /\ pc[p] \in {"wait", "unread"}
  /\ GiveUpOrRetry(p)
  /\ UNCHANGED <<lock, contents, draft, seen>>

\* "The Steward store is busy; retry the operation."  The caller does.
CallAgain(p) ==
  /\ pc[p] = "conflict"
  /\ Goto(p, "create") /\ Say(p, "none")
  /\ UNCHANGED <<lock, contents, draft, seen>>

-------------------------------------------------------------------------------
\* transact

\* The draft is made, or the operation throws, or it has nothing to write.
Read(p) ==
  /\ pc[p] = "read"
  /\ \/ draft' = [draft EXCEPT ![p] = contents \cup {p}] /\ Goto(p, "rename") /\ UNCHANGED answer
     \/ \E what \in {"failed", "unwritten"} : Say(p, what) /\ Goto(p, "own") /\ UNCHANGED draft
  /\ UNCHANGED <<lock, contents, seen>>

\* The draft is written to a file of its own and renamed over the database.
Rename(p) ==
  /\ pc[p] = "rename"
  /\ \/ contents' = draft[p] /\ Say(p, "success")
     \/ UNCHANGED contents /\ Say(p, "failed")
  /\ Goto(p, "own")
  /\ UNCHANGED <<lock, draft, seen>>

\* release: the lock is removed if its text is still that of the transaction.
\* A failure is ignored, and leaves the lock file.
CheckOwn(p) ==
  /\ pc[p] = "own"
  /\ \/ Holds(p) /\ Goto(p, "free")
     \/ Goto(p, "done")
  /\ UNCHANGED <<lock, contents, draft, seen, answer>>

Free(p) ==
  /\ pc[p] = "free"
  /\ lock' \in {NoLock, lock}
  /\ Goto(p, "done")
  /\ UNCHANGED <<contents, draft, seen, answer>>

-------------------------------------------------------------------------------
Step(p) ==
  /\ p \notin killed
  /\ \/ Create(p) \/ Publish(p) \/ ReadHolder(p) \/ HolderUnread(p)
     \/ Recheck(p) \/ UnlinkStale(p) \/ RecoveryFails(p) \/ Wait(p)
     \/ CallAgain(p) \/ Read(p) \/ Rename(p) \/ CheckOwn(p) \/ Free(p)
  /\ UNCHANGED killed

\* A process is killed, or ends after its call, which makes a difference if its lock is left.
Kill(p) ==
  /\ p \notin killed /\ (pc[p] = "done" => Holds(p))
  /\ Cardinality(killed) < MaxKilled
  /\ killed' = killed \cup {p}
  /\ UNCHANGED <<lock, contents, draft, seen, pc, answer>>

Next == \E p \in Procs : Step(p) \/ Kill(p)

\* The operating system runs every process that exists, the deadline of one that
\* waits again and again passes, and a caller that was told to retry does.
Spec == Init /\ [][Next]_vars
             /\ \A p \in Procs : /\ WF_vars(Step(p))
                                 /\ SF_vars(Step(p) /\ answer'[p] = "conflict")

-------------------------------------------------------------------------------
\* Properties

\* The lock, the file and every transaction hold values of their declared kinds,
\* and no transaction takes a process to be dead that is not.
TypeOK ==
  /\ lock \in Locks \cup {NoLock}
  /\ contents \subseteq Procs
  /\ draft \in [Procs -> SUBSET Procs]
  /\ seen \in [Procs -> SUBSET killed]
  /\ pc \in [Procs -> Labels]
  /\ answer \in [Procs -> Answers]
  /\ killed \subseteq Procs

\* What a caller was told is what the database file contains, and goes on
\* containing: no transaction enters between another's read and its rename.
AnswersAreDurable ==
  \A p \in Procs :
    /\ answer[p] = "success" => p \in contents
    /\ answer[p] \in {"conflict", "failed", "unwritten"} => p \notin contents

\* No change is lost as long as no transaction has come upon the lock of a dead holder,
\* however many compete, fail, time out or are killed: nobody recovers a lock then.
NoLostUpdate == (\A p \in Procs : seen[p] = {}) => AnswersAreDurable

\* It takes three processes to lose a change: a holder that was killed, and two
\* that recover its lock at the same time, the second that of the first.
LossTakesThree == AnswersAreDurable \/ Cardinality({p \in Procs : pc[p] # "create"}) >= 3

\* Whether the file system fails p: in the recovery of a lock, or in the reading of it
Unrecovered(p) == RecoveryFails(p) \/ HolderUnread(p)

\* A lock whose holder was killed after its text was written is removed, if some
\* process still wants a transaction: the store does not stay locked.
LockedByDead(p) == lock # NoLock /\ lock.by = p /\ p \in killed
Wanted          == \E q \in Procs \ killed : pc[q] # "done"

DeadHolderIsRecovered ==
  \A p \in Procs : (LockedByDead(p) /\ lock.written) ~> (~LockedByDead(p) \/ ~Wanted)

\* Every call of a process that exists ends, though the lock may stay; but for one that
\* tries again and again to recover it and fails, which no deadline stops.
EveryCallEnds ==
  \A p \in Procs : \/ []<>(pc[p] \in {"done", "conflict"} \/ p \in killed)
                   \/ []<><<RecoveryFails(p)>>_vars

\* Unless the file system goes on failing, the lock of a killed holder does not stay; and
\* the calls of the others end unless their own recovery goes on failing
\* (#acquireTransactionLock).
NobodyWaitsForever ==
  /\ (\A p \in Procs : <>[][~Unrecovered(p)]_vars) => DeadHolderIsRecovered
  /\ EveryCallEnds

-------------------------------------------------------------------------------
\* What a test and a deadline of the repository say, and the store does not do

\* A waiter gives up at its deadline.
DeadlinesAreKept == \A p \in Procs : []<>(pc[p] \in {"done", "conflict"} \/ p \in killed)

\* A killed writer cannot leave the store locked for good.
KilledWriterRecovered ==
  \A p \in Procs : LockedByDead(p) ~> (~LockedByDead(p) \/ ~Wanted)
===============================================================================
