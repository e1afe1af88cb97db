------------------------------ MODULE PackageLock ------------------------------
(***************************************************************************)
(* The embedded SQLite runtime of casebook-persistence: a writing session  *)
(* takes the package lock of a database (a directory that holds the        *)
(* owner's pid), reads the whole database file into memory, runs its       *)
(* statements there and, when it closes, replaces the file by the result.  *)
(* A read-only session takes no lock and reads the file whole.             *)
(*                                                                         *)
(* One session per process.  The file system's calls are the actions, and  *)
(* each may fail.  A process may be killed between any two of them, or end *)
(* after its own: then it no longer exists (a pid is not reused).          *)
(***************************************************************************)
EXTENDS Naturals, FiniteSets

CONSTANTS
  Procs,      \* processes, each with one writing session
  Nobody,     \* no owner.json
  MaxKilled   \* bound: how many processes may be killed or end

LockConstants == Nobody \notin Procs /\ MaxKilled \in Nat

VARIABLES
  made,      \* the directory <database>.casebook-lock exists
  owner,     \* the pid in its owner.json, Nobody when there is none
  contents,  \* the sessions whose statements the database file contains
  copy,      \* ... and those that each session's copy in memory contains
  pc,        \* where each session is
  answer,    \* what each session tells its caller
  killed     \* the processes that no longer exist

vars == <<made, owner, contents, copy, pc, answer, killed>>

Labels == {"acquire", "own", "inspect", "recover", "wait", "open", "work", "persist",
           "release", "done"}

\* "uncertain": the session failed while it was replacing the file, or after it.
Answers == {"none", "busy", "failed", "committed", "uncertain"}

\* From the creation of the lock to its release
Holding == {"own", "open", "work", "persist", "release"}

Goto(p, label) == pc' = [pc EXCEPT ![p] = label]
Say(p, what)   == answer' = [answer EXCEPT ![p] = what]

Init ==
  /\ made = FALSE
  /\ owner = Nobody
  /\ contents = {}
  /\ copy = [p \in Procs |-> {}]
  /\ pc = [p \in Procs |-> "acquire"]
  /\ answer = [p \in Procs |-> "none"]
  /\ killed = {}

-------------------------------------------------------------------------------
\* acquirePackageLock

\* mkdir fails when the directory exists.
MakeDirectory(p) ==
  /\ made' = TRUE
  /\ Goto(p, IF made THEN "inspect" ELSE "own")

Acquire(p) ==
  /\ pc[p] = "acquire"
  /\ \/ MakeDirectory(p) /\ UNCHANGED answer
     \/ UNCHANGED made /\ Goto(p, "done") /\ Say(p, "failed")
  /\ UNCHANGED <<owner, contents, copy>>

\* Writing owner.json.  If it fails (another process removed the directory, or
\* the disk is full) the call fails and leaves the directory as it is.
WriteOwner(p) ==
  /\ pc[p] = "own"
  /\ \/ made /\ owner' = p /\ Goto(p, "open") /\ UNCHANGED answer
     \/ Goto(p, "done") /\ Say(p, "failed") /\ UNCHANGED owner
  /\ UNCHANGED <<made, contents, copy>>

StaleWithoutOwner == made /\ (owner = Nobody \/ owner \in killed)   \* mutant: needs no owner.json

\* The lock names a process that does not exist.  (It must also be a minute old;
\* Inspect leaves open whether it is.)
Stale == made /\ owner \in killed

Inspect(p) ==
  /\ pc[p] = "inspect"
  /\ \/ ~made /\ Goto(p, "acquire")
     \/ Stale /\ Goto(p, "recover")
     \/ made /\ Goto(p, "wait")
  /\ UNCHANGED <<made, owner, contents, copy, answer>>

RemoveDirectory ==
  /\ made' = FALSE
  /\ owner' = Nobody

\* The directory stays, with its owner.json or without.
RemovalFails == UNCHANGED made /\ owner' \in {owner, Nobody}

\* What was inspected is not looked at again.  If it cannot be removed, the session waits.
RecoverStale(p) ==
  /\ pc[p] = "recover"
  /\ \/ RemoveDirectory /\ Goto(p, "acquire")
     \/ RemovalFails /\ Goto(p, "wait")
  /\ UNCHANGED <<contents, copy, answer>>

WaitForOwner(p) ==   \* mutant: gives up only on a lock that has an owner
  \/ Goto(p, "acquire") /\ UNCHANGED answer
  \/ owner # Nobody /\ Goto(p, "done") /\ Say(p, "busy")

\* Sleep and try again, or give up once the deadline has passed.
GiveUpOrRetry(p) ==
  \/ Goto(p, "acquire") /\ UNCHANGED answer
  \/ Goto(p, "done") /\ Say(p, "busy")

Wait(p) ==
  /\ pc[p] = "wait"
  /\ GiveUpOrRetry(p)
  /\ UNCHANGED <<made, owner, contents, copy>>

-------------------------------------------------------------------------------
\* DatabaseSync: the constructor, the statements and close

\* The file is read into memory; if that fails the lock is released.
Open(p) ==
  /\ pc[p] = "open"
  /\ \/ /\ copy' = [copy EXCEPT ![p] = contents]
        /\ Goto(p, "work") /\ UNCHANGED answer
     \/ Goto(p, "release") /\ Say(p, "failed") /\ UNCHANGED copy
  /\ UNCHANGED <<made, owner, contents>>

\* The transaction commits in memory, or fails and is rolled back.  Either way
\* the copy is written if a statement that is not read-only was run.
Execute(p) ==
  /\ pc[p] = "work"
  /\ \/ /\ copy' = [copy EXCEPT ![p] = @ \cup {p}]
        /\ Goto(p, "persist") /\ Say(p, "committed")
     \/ /\ \E label \in {"persist", "release"} : Goto(p, label)
        /\ Say(p, "failed") /\ UNCHANGED copy
  /\ UNCHANGED <<made, owner, contents>>

\* The file is replaced in one step, by a rename.  A failure before it leaves the
\* file as it was, a failure after it (of the directory's fsync) does not.
Persist(p) ==
  /\ pc[p] = "persist"
  /\ \/ contents' = copy[p] /\ UNCHANGED answer
     \/ contents' \in {contents, copy[p]}
        /\ Say(p, IF answer[p] = "committed" THEN "uncertain" ELSE "failed")
  /\ Goto(p, "release")
  /\ UNCHANGED <<made, owner, copy>>

\* The directory is removed, whoever owns it now.  If that fails, so does the session.
Release(p) ==
  /\ pc[p] = "release"
  /\ \/ RemoveDirectory /\ UNCHANGED answer
     \/ RemovalFails /\ Say(p, IF answer[p] = "committed" THEN "uncertain" ELSE answer[p])
  /\ Goto(p, "done")
  /\ UNCHANGED <<contents, copy>>

-------------------------------------------------------------------------------
Step(p) ==
  /\ p \notin killed
  /\ \/ Acquire(p) \/ WriteOwner(p) \/ Inspect(p) \/ RecoverStale(p) \/ Wait(p)
     \/ Open(p) \/ Execute(p) \/ Persist(p) \/ Release(p)
  /\ UNCHANGED killed

\* A process is killed, or ends after its session, which makes a difference if its lock is left.
Kill(p) ==
  /\ p \notin killed /\ (pc[p] = "done" => owner = p)
  /\ Cardinality(killed) < MaxKilled
  /\ killed' = killed \cup {p}
  /\ UNCHANGED <<made, owner, contents, copy, pc, answer>>

Next == \E p \in Procs : Step(p) \/ Kill(p)

\* The operating system runs every process that exists, and the deadline of a
\* process that waits again and again passes.
Spec == Init /\ [][Next]_vars
             /\ \A p \in Procs : WF_vars(Step(p)) /\ SF_vars(Step(p) /\ answer'[p] = "busy")

-------------------------------------------------------------------------------
\* Properties

\* The lock, the file and every session hold values of their declared kinds, and
\* there is no owner.json without its directory.
TypeOK ==
  /\ made \in BOOLEAN
  /\ owner \in Procs \cup {Nobody}
  /\ owner # Nobody => made
  /\ contents \subseteq Procs
  /\ copy \in [Procs -> SUBSET Procs]
  /\ pc \in [Procs -> Labels]
  /\ answer \in [Procs -> Answers]
  /\ killed \subseteq Procs

\* What a caller was told is what the database file contains, and goes on
\* containing: no session replaces the file by one that lacks the work of another.
AnswersAreDurable ==
  \A p \in Procs : pc[p] = "done" =>
    /\ answer[p] = "committed" => p \in contents
    /\ answer[p] \in {"busy", "failed"} => p \notin contents

\* No update is lost as long as every process exists, however many sessions
\* compete, fail or time out: nobody recovers a lock then.
NoLostUpdate == killed = {} => AnswersAreDurable

\* It takes three processes to lose an update: an owner that exists no more, and two
\* that remove its lock at the same time, the second that of the first.
LossTakesThree == AnswersAreDurable \/ Cardinality({p \in Procs : pc[p] # "acquire"}) >= 3

\* Every session of a process that is not killed ends: waiting is bounded.
EverySessionEnds == \A p \in Procs : <>(pc[p] = "done" \/ p \in killed)
===============================================================================
