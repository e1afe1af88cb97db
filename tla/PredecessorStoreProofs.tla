------------------------- MODULE PredecessorStoreProofs -------------------------
(***************************************************************************)
(* Proofs about PredecessorStore, for any processes, Cases, requests, view *)
(* policies and numbers of faults: every settlement has a fence of its     *)
(* own, what takes effect does so under its view, an alias has one owner,  *)
(* a purged Case stays purged, a current projection is exact and a list    *)
(* that ends is a snapshot.  They rest on what a process may rely on when  *)
(* its transaction begins, or it takes a page: as long as the fence is the *)
(* one that it read, what it read is still so.                             *)
(*                                                                         *)
(* Two more parts of that store are the instances of PredecessorParts.     *)
(* PredecessorFrames: versions are written once, so the envelope that an   *)
(* operation built stays what it builds again, each revision follows the   *)
(* one before, and what a Frame refers to stays, because Cases only        *)
(* append.  ProjectionEntries: an entry names its owner and a reference    *)
(* names a revision of it, so that a purge takes its own and a drift is    *)
(* told.                                                                   *)
(***************************************************************************)
EXTENDS PredecessorParts, SequenceTheorems, FiniteSetTheorems, FunctionTheorems, WellFoundedInduction,
        TLAPS

Processing == {"observe", "transact", "failed", "settle", "settling"}

-------------------------------------------------------------------------------
\* What a process knows about its own request

RequestOK(q) ==
  q.pc \in Processing =>
    /\ q.req \in Requests
    /\ q.req.kind \in {"purge", "rebuild"} => q.bound \in Bounds
    /\ q.req.kind = "purge" => q.bound.number > 0
    /\ q.pc = "transact" /\ q.req.kind = "rebuild" => q.data \in Entries /\ q.fence = q.bound.fence
    /\ q.pc \in {"settle", "settling"} /\ q.req.kind = "rebuild" => q.data \in {"conflict", "failed"}
    /\ q.pc = "settling" => q.req.kind = "rebuild"

LocalOK ==
  /\ \A r \in Requests : r.kind = "purge" /\ bound[r] # None => bound[r].number > 0
  /\ \A p \in Processes : RequestOK(procs[p])

\* A step that does not settle leaves the store alone.  The others each settle the request
\* of one process, which had no receipt.
Settles(p, outcome) ==
  /\ procs[p].pc \in Processing
  /\ procs[p].req \in Requests /\ receipts[procs[p].req] = None
  /\ fence' = fence + 1
  /\ Receipt(p, outcome, fence + 1)

CommitStep(p) ==
  /\ procs[p].pc = "transact" /\ procs[p].req.kind = "commit"
  /\ Commits(p) /\ EffectOfCommit(p) /\ Settles(p, "committed")

RefusalStep(p) == Settles(p, "rejected") /\ UNCHANGED <<cases, policies, generations, selection>>

PurgeStep(p) ==
  /\ procs[p].pc = "transact" /\ procs[p].req.kind = "purge" /\ fence = procs[p].fence
  /\ Purges(p) /\ EffectOfPurge(p) /\ Settles(p, "deleted")

RebuildStep(p) ==
  /\ procs[p].pc = "transact" /\ procs[p].req.kind = "rebuild" /\ fence = procs[p].fence
  /\ Rebuilds(p) /\ EffectOfRebuild(p) /\ Settles(p, "rebuilt")

FailureStep(p) ==
  /\ procs[p].data \in {"conflict", "failed"} /\ Settles(p, procs[p].data)
  /\ selection'.status \in {"unavailable", "stale"} /\ selection' = [selection EXCEPT !.status = selection'.status]
  /\ UNCHANGED <<cases, policies, generations>>

PolicyStep(p) ==
  /\ procs[p].pc = "transact" /\ PolicyRequest(procs[p].req) /\ fence = procs[p].fence
  /\ Changes(p) /\ EffectOfPolicy(p) /\ Settles(p, "changed")

StoreStep ==
  \/ UNCHANGED store
  \/ \E p \in Processes : \/ CommitStep(p) \/ RefusalStep(p) \/ PurgeStep(p)
                          \/ RebuildStep(p) \/ FailureStep(p) \/ PolicyStep(p)

\* Every step of the specification is one of these.
LEMMA EveryStoreStep ==
  ASSUME TypeOK, LocalOK, [Next]_vars
  PROVE  StoreStep
<1> USE DEF StoreStep, store
<1>1. CASE UNCHANGED vars
  BY <1>1 DEF vars
<1>2. CASE \E r \in offered : Plan(r)
  BY <1>2 DEF Plan
<1>3. CASE \E p \in Processes, r \in offered : Invoke(p, r)
  BY <1>3 DEF Invoke
<1>4. ASSUME NEW p \in Processes, Steps(p) PROVE StoreStep
  <2> SUFFICES ASSUME ~UNCHANGED store PROVE StoreStep
    BY DEF StoreStep
  <2>1. CASE SettleCommit(p)
    <3>1. procs[p].req \in Requests
      BY <2>1 DEF SettleCommit, LocalOK, RequestOK, Processing
    <3>2. CASE receipts[procs[p].req] = None /\ fence' = fence + 1 /\ Receipt(p, "rejected", fence + 1)
      BY <2>1, <3>1, <3>2 DEF SettleCommit, Processing, RefusalStep, Settles
    <3>3. CASE UNCHANGED <<fence, receipts>>
      BY <2>1, <3>3 DEF SettleCommit
    <3> QED
      BY <2>1, <3>2, <3>3 DEF SettleCommit
  <2>2. CASE SettleRebuild(p)
    <3>1. procs[p].req \in Requests /\ procs[p].data \in {"conflict", "failed"}
      BY <2>2 DEF SettleRebuild, LocalOK, RequestOK, Processing
    <3>2. CASE /\ receipts[procs[p].req] = None /\ fence' = fence + 1
               /\ selection' = [selection EXCEPT !.status =
                                  IF selection.of = None THEN "unavailable" ELSE "stale"]
               /\ Receipt(p, procs[p].data, fence + 1)
      <4>1. selection'.status \in {"unavailable", "stale"}
            /\ selection' = [selection EXCEPT !.status = selection'.status]
        BY <3>2 DEF TypeOK, Selections
      <4> QED
        BY <2>2, <3>1, <3>2, <4>1 DEF SettleRebuild, Processing, FailureStep, Settles
    <3>3. CASE UNCHANGED <<fence, receipts, selection>>
      BY <2>2, <3>3 DEF SettleRebuild
    <3> QED
      BY <2>2, <3>2, <3>3 DEF SettleRebuild
  <2>3. CASE Transact(p)
    <3>1. procs[p].pc = "transact" /\ Admits(p) /\ Effect(p) /\ procs[p].req \in Requests
      BY <2>3 DEF Transact, LocalOK, RequestOK, Processing
    <3>2. CASE procs[p].req.kind = "commit"
      <4>1. Commits(p) /\ EffectOfCommit(p)
        BY <3>1, <3>2 DEF Admits, Effect, PolicyRequest
      <4> QED
        BY <3>1, <3>2, <4>1 DEF CommitStep, Settles, Processing, Commits, EffectOfCommit
    <3>3. CASE procs[p].req.kind = "purge"
      <4>1. Purges(p) /\ EffectOfPurge(p)
        BY <3>1, <3>3 DEF Admits, Effect, PolicyRequest
      <4> QED
        BY <3>1, <3>3, <4>1 DEF PurgeStep, Settles, Processing, Purges, EffectOfPurge
    <3>4. CASE procs[p].req.kind = "rebuild"
      <4>1. Rebuilds(p) /\ EffectOfRebuild(p)
        BY <3>1, <3>4 DEF Admits, Effect, PolicyRequest
      <4>2. procs[p].fence = procs[p].bound.fence
        BY <3>1, <3>4 DEF LocalOK, RequestOK, Processing
      <4> QED
        BY <3>1, <3>4, <4>1, <4>2 DEF RebuildStep, Settles, Processing, Rebuilds, EffectOfRebuild
    <3>5. CASE PolicyRequest(procs[p].req)
      <4>1. Changes(p) /\ EffectOfPolicy(p)
        BY <3>1, <3>5 DEF Admits, Effect, PolicyRequest
      <4> QED
        BY <3>1, <3>5, <4>1 DEF PolicyStep, Settles, Processing, Changes, EffectOfPolicy
    <3> QED
      BY <3>1, <3>2, <3>3, <3>4, <3>5 DEF Effect
  <2> QED
    BY <1>4, <2>1, <2>2, <2>3 DEF Steps, ObserveCommit, RecheckCommit, ObservePurge, RecheckPurge,
       ObserveRebuild, RecheckRebuild, PrepareFailure, ObservePolicy, RecheckPolicy, RollBack, Kill,
       List, ReadPage, NextPage, Listed
<1> QED
  BY <1>1, <1>2, <1>3, <1>4 DEF Next

-------------------------------------------------------------------------------
\* Types

\* Rows that are changed stay rows.
LEMMA EndedRow ==
  ASSUME NEW n, policies[n] \in PolicyRows, NEW s \in PolicyStates, NEW u \in Nat
  PROVE  /\ Ended(n, s, u) \in PolicyRows
         /\ Ended(n, s, u).state = s /\ Ended(n, s, u).until = u
         /\ Ended(n, s, u).from = policies[n].from
  BY DEF Ended, PolicyRows

\* A view policy that is activated is a row of the table.
LEMMA ActiveRow ==
  ASSUME NEW x \in PolicyRows, NEW u \in Nat
  PROVE  [x EXCEPT !.state = "active", !.from = u] \in PolicyRows
  BY DEF PolicyRows, PolicyStates

\* What a purge leaves of a Case is a row of the table.
LEMMA PurgedRow ==
  ASSUME NEW x \in CaseRows
  PROVE  [x EXCEPT !.current = 0, !.state = "none", !.alias = None, !.payload = {}, !.updated = 0] \in CaseRows
  BY DEF CaseRows, Aliases

\* A change of the view policy adds a created revision at the end or none, ends revisions
\* that are created or active, activates one that is created, and leaves the others alone.
LEMMA PolicyEffect ==
  ASSUME TypeOK, NEW p \in Processes, PolicyStep(p)
  PROVE  /\ policies' \in Seq(PolicyRows)
         /\ DOMAIN policies \subseteq DOMAIN policies'
         /\ \A n \in DOMAIN policies' \ DOMAIN policies :
              policies'[n] = [state |-> "created", from |-> None, until |-> None]
         /\ \A n \in DOMAIN policies :
              \/ policies'[n] = policies[n]
              \/ /\ policies[n].state \in {"created", "active"}
                 /\ policies'[n].state \in {"superseded", "retired"}
                 /\ policies'[n].from = policies[n].from /\ policies'[n].until = fence + 1
              \/ /\ policies[n].state = "created" /\ policies'[n].state = "active"
                 /\ policies'[n].from = fence + 1 /\ policies'[n].until = policies[n].until
<1> DEFINE r == procs[p].req
           new == [state |-> "created", from |-> None, until |-> None]
<1>1. /\ fence \in Nat /\ procs[p].fence = fence /\ Candidate(r) /\ EffectOfPolicy(p)
      /\ r.on \in DOMAIN policies
  BY DEF PolicyStep, Changes, Candidate, TypeOK
<1>2. policies \in Seq(PolicyRows) /\ DOMAIN policies = 1 .. Len(policies) /\ Len(policies) \in Nat
      /\ \A n \in DOMAIN policies : policies[n] \in PolicyRows
      /\ policies \in [DOMAIN policies -> PolicyRows]
  BY LenProperties DEF TypeOK
<1>3. new \in PolicyRows
  BY DEF PolicyRows, PolicyStates
<1>4. \A n \in DOMAIN policies, how \in {"superseded", "retired"} :
        /\ Ended(n, how, fence + 1) \in PolicyRows
        /\ Ended(n, how, fence + 1).state = how /\ Ended(n, how, fence + 1).until = fence + 1
        /\ Ended(n, how, fence + 1).from = policies[n].from
  <2>1. PICK at \in Nat : at = fence + 1
    BY <1>1
  <2>2. ASSUME NEW n \in DOMAIN policies, NEW how \in {"superseded", "retired"}
        PROVE  /\ Ended(n, how, at) \in PolicyRows
               /\ Ended(n, how, at).state = how /\ Ended(n, how, at).until = at
               /\ Ended(n, how, at).from = policies[n].from
    <3>1. policies[n] \in PolicyRows /\ how \in PolicyStates
      BY <1>2 DEF PolicyStates
    <3> QED
      BY <3>1, EndedRow
  <2> QED
    BY <2>1, <2>2
<1>5. CASE r.kind = "revise"
  <2> DEFINE row  == IF policies[r.on].state = "created" THEN Ended(r.on, "superseded", fence + 1)
                     ELSE policies[r.on]
             kept == [policies EXCEPT ![r.on] = row]
  <2>1. row \in PolicyRows
    BY <1>1, <1>2, <1>4
  <2>2. /\ kept \in Seq(PolicyRows) /\ Len(kept) = Len(policies)
        /\ \A n \in 1 .. Len(policies) : kept[n] = IF n = r.on THEN row ELSE policies[n]
    <3> HIDE DEF row
    <3> QED
      BY <1>1, <1>2, <2>1, ExceptSeq
  <2>3. policies' = Append(kept, new)
    BY <1>1, <1>5 DEF EffectOfPolicy
  <2> HIDE DEF kept, new
  <2>4. /\ policies' \in Seq(PolicyRows) /\ Len(policies') = Len(policies) + 1
        /\ \A n \in 1 .. Len(policies) : policies'[n] = kept[n]
        /\ policies'[Len(policies) + 1] = new
    BY <1>3, <2>2, <2>3, AppendProperties
  <2>5. DOMAIN policies' = 1 .. Len(policies) + 1
    BY <2>4, LenProperties
  <2>6. DOMAIN policies' \ DOMAIN policies = {Len(policies) + 1}
    BY <1>2, <2>5
  <2>7. \A n \in DOMAIN policies : policies'[n] = IF n = r.on THEN row ELSE policies[n]
    BY <1>2, <2>2, <2>4
  <2>8. \A n \in DOMAIN policies :
          \/ policies'[n] = policies[n]
          \/ /\ policies[n].state = "created" /\ policies'[n] = Ended(n, "superseded", fence + 1)
    BY <2>7
  <2> QED
    BY <1>2, <1>4, <2>4, <2>5, <2>6, <2>8 DEF new
<1>6. CASE r.kind = "activate"
  <2> DEFINE row(n) == IF n = r.on THEN [policies[n] EXCEPT !.state = "active", !.from = fence + 1]
                       ELSE IF n \in procs[p].data /\ policies[n].state = "active"
                            THEN Ended(n, "superseded", fence + 1) ELSE policies[n]
  <2>1. policies' = [n \in DOMAIN policies |-> row(n)]
    BY <1>1, <1>6 DEF EffectOfPolicy
  <2>2. policies[r.on].state = "created"
    BY <1>1, <1>6 DEF Candidate
  <2>3. [policies[r.on] EXCEPT !.state = "active", !.from = fence + 1] \in PolicyRows
    <3>1. fence + 1 \in Nat /\ policies[r.on] \in PolicyRows
      BY <1>1, <1>2
    <3> QED
      BY <3>1, ActiveRow
  <2>4. \A n \in DOMAIN policies : row(n) \in PolicyRows
    BY <1>2, <1>4, <2>3
  <2>5. policies' \in [1 .. Len(policies) -> PolicyRows]
    BY <1>2, <2>1, <2>4
  <2>6. policies' \in Seq(PolicyRows) /\ DOMAIN policies' = DOMAIN policies
    BY <1>2, <2>5, SeqDef
  <2>7. \A n \in DOMAIN policies : n # r.on =>
          \/ policies'[n] = policies[n]
          \/ policies[n].state = "active" /\ policies'[n] = Ended(n, "superseded", fence + 1)
    BY <2>1
  <2>8. /\ policies'[r.on].state = "active" /\ policies'[r.on].from = fence + 1
        /\ policies'[r.on].until = policies[r.on].until
    BY <1>1, <1>2, <2>1 DEF PolicyRows
  <2> QED
    BY <1>4, <2>2, <2>6, <2>7, <2>8
<1>7. CASE r.kind = "retire"
  <2>1. policies' = [policies EXCEPT ![r.on] = Ended(r.on, "retired", fence + 1)]
    BY <1>1, <1>7 DEF EffectOfPolicy
  <2>2. policies[r.on].state = "active"
    BY <1>1, <1>7 DEF Candidate
  <2>3. /\ policies' \in Seq(PolicyRows) /\ Len(policies') = Len(policies)
        /\ \A n \in 1 .. Len(policies) :
             policies'[n] = IF n = r.on THEN Ended(r.on, "retired", fence + 1) ELSE policies[n]
    BY <1>1, <1>2, <1>4, <2>1, ExceptSeq
  <2>4. DOMAIN policies' = DOMAIN policies
    BY <1>2, <2>3, LenProperties
  <2> QED
    BY <1>2, <1>4, <2>2, <2>3, <2>4
<1> QED
  BY <1>5, <1>6, <1>7 DEF PolicyStep, PolicyRequest

\* The store has its types after each settlement.
LEMMA StoreTypes ==
  ASSUME Assumptions, TypeOK, LocalOK, StoreStep
  PROVE  /\ fence' \in Nat /\ cases' \in [Cases -> CaseRows] /\ policies' \in Seq(PolicyRows)
         /\ receipts' \in [Requests -> Receipts \cup {None}]
         /\ generations' \in [Requests -> Generations \cup {None}] /\ selection' \in Selections
<1> USE DEF Settles
<1>1. CASE UNCHANGED store
  BY <1>1 DEF TypeOK, store
<1>2. ASSUME NEW p \in Processes, NEW o \in Outcomes, Settles(p, o)
      PROVE  fence' \in Nat /\ receipts' \in [Requests -> Receipts \cup {None}]
  <2>1. fence + 1 \in Nat /\ procs[p].bound \in Bounds \cup {None}
    BY <1>2 DEF TypeOK, ProcessOK, Processing, Listings
  <2>2. [outcome |-> o, fence |-> fence + 1, bound |-> procs[p].bound] \in Receipts
    BY <2>1 DEF Receipts
  <2> QED
    BY <1>2, <2>1, <2>2 DEF Receipt, TypeOK
<1>3. ASSUME NEW p \in Processes, CommitStep(p)
      PROVE  cases' \in [Cases -> CaseRows] /\ UNCHANGED <<policies, generations, selection>>
  <2> DEFINE r == procs[p].req
  <2>1. r \in Requests /\ r.on \in Cases /\ r.expected \in Nat /\ r.state \in {"active", "tombstoned"}
    BY <1>3 DEF CommitStep, Assumptions, RequestAssumption
  <2>2. r.alias \in Aliases
    BY <1>3, <2>1 DEF CommitStep, Aliases
  <2>3. cases[r.on].payload \cup {r.expected + 1} \in SUBSET Nat
    BY <2>1 DEF TypeOK, CaseRows
  <2>4. [made |-> r.expected + 1, current |-> r.expected + 1, state |-> r.state, alias |-> r.alias,
         payload |-> cases[r.on].payload \cup {r.expected + 1}, updated |-> fence + 1] \in CaseRows
    BY <2>1, <2>2, <2>3 DEF TypeOK, CaseRows
  <2>5. cases' = [cases EXCEPT ![r.on] =
           [made |-> r.expected + 1, current |-> r.expected + 1, state |-> r.state, alias |-> r.alias,
            payload |-> cases[r.on].payload \cup {r.expected + 1}, updated |-> fence + 1]]
    BY <1>3 DEF CommitStep, EffectOfCommit
  <2> QED
    BY <1>3, <2>4, <2>5, ZenonT(60) DEF CommitStep, EffectOfCommit, TypeOK
<1>4. ASSUME NEW p \in Processes, PurgeStep(p)
      PROVE  /\ cases' \in [Cases -> CaseRows] /\ generations' \in [Requests -> Generations \cup {None}]
             /\ selection' \in Selections /\ UNCHANGED policies
  <2> DEFINE r == procs[p].req
             taken == procs[p].data
  <2>1. r.on \in Cases
    BY <1>4 DEF PurgeStep, Assumptions, RequestAssumption
  <2>2. cases' \in [Cases -> CaseRows]
    <3>1. [cases[r.on] EXCEPT !.current = 0, !.state = "none", !.alias = None, !.payload = {}, !.updated = 0]
            \in CaseRows
      BY <2>1, PurgedRow DEF TypeOK
    <3>2. cases' = [cases EXCEPT ![r.on] =
             [cases[r.on] EXCEPT !.current = 0, !.state = "none", !.alias = None, !.payload = {}, !.updated = 0]]
      BY <1>4, <2>1 DEF PurgeStep, EffectOfPurge, TypeOK, CaseRows
    <3> QED
      BY <3>1, <3>2 DEF TypeOK
  <2>3. generations' \in [Requests -> Generations \cup {None}]
    <3>1. ASSUME NEW g \in Requests, generations[g] # None
          PROVE  [generations[g] EXCEPT !.entries = generations[g].entries \ taken[g]] \in Generations
      BY <3>1 DEF TypeOK, Generations, Entries
    <3>2. generations' = [g \in Requests |->
                            IF generations[g] = None THEN None
                            ELSE [generations[g] EXCEPT !.entries = generations[g].entries \ taken[g]]]
      BY <1>4 DEF PurgeStep, EffectOfPurge
    <3> QED
      BY <3>1, <3>2
  <2>4. selection' \in Selections
    BY <1>4 DEF PurgeStep, EffectOfPurge, TypeOK, Selections
  <2> QED
    BY <1>4, <2>2, <2>3, <2>4 DEF PurgeStep, EffectOfPurge
<1>5. ASSUME NEW p \in Processes, RebuildStep(p)
      PROVE  /\ generations' \in [Requests -> Generations \cup {None}] /\ selection' \in Selections
             /\ UNCHANGED <<cases, policies>>
  <2>1. procs[p].req \in Requests /\ procs[p].bound \in Bounds /\ procs[p].data \in Entries
    BY <1>5 DEF RebuildStep, LocalOK, RequestOK, Processing
  <2>2. [source |-> procs[p].bound.fence, entries |-> procs[p].data] \in Generations
    BY <2>1 DEF Generations, Bounds
  <2>3. [status |-> "current", of |-> procs[p].req] \in Selections
    BY <2>1 DEF Selections
  <2> QED
    BY <1>5, <2>1, <2>2, <2>3 DEF RebuildStep, EffectOfRebuild, TypeOK
<1>6. ASSUME NEW p \in Processes, PolicyStep(p)
      PROVE  policies' \in Seq(PolicyRows) /\ UNCHANGED <<cases, generations, selection>>
  BY <1>6, PolicyEffect DEF PolicyStep, EffectOfPolicy
<1>7. ASSUME NEW p \in Processes, FailureStep(p)
      PROVE  selection' \in Selections /\ UNCHANGED <<cases, policies, generations>>
  BY <1>7 DEF FailureStep, TypeOK, Selections
<1>8. ASSUME NEW p \in Processes, \/ CommitStep(p) \/ RefusalStep(p) \/ PurgeStep(p)
                                 \/ RebuildStep(p) \/ FailureStep(p) \/ PolicyStep(p)
      PROVE  \E o \in Outcomes : Settles(p, o)
  BY <1>8 DEF CommitStep, RefusalStep, PurgeStep, RebuildStep, FailureStep, PolicyStep, Outcomes
<1>9. ASSUME NEW p \in Processes, RefusalStep(p)
      PROVE  UNCHANGED <<cases, policies, generations, selection>>
  BY <1>9 DEF RefusalStep
<1>10. CASE ~UNCHANGED store
  <2>1. PICK p \in Processes : \/ CommitStep(p) \/ RefusalStep(p) \/ PurgeStep(p)
                               \/ RebuildStep(p) \/ FailureStep(p) \/ PolicyStep(p)
    BY <1>10 DEF StoreStep
  <2>2. fence' \in Nat /\ receipts' \in [Requests -> Receipts \cup {None}]
    BY <1>2, <1>8, <2>1
  <2> QED
    BY <1>3, <1>4, <1>5, <1>6, <1>7, <1>9, <2>1, <2>2 DEF TypeOK
<1> QED
  BY <1>1, <1>10

-------------------------------------------------------------------------------
\* Processes

\* What a step does to a process: nothing, let it end, let it list, let it begin a
\* request, let it observe that it may go on, or bring it past its transaction.
Observes(p) ==
  /\ procs[p].pc = "observe" /\ procs'[p].pc = "transact" /\ UNCHANGED <<store, bound>>
  /\ procs'[p] = [procs[p] EXCEPT !.pc = "transact", !.data = procs'[p].data]
  /\ procs[p].req.kind = "purge" => procs'[p].data = EntriesOf(procs[p].req.on)
  /\ procs[p].req.kind = "rebuild" => /\ procs'[p].data = Corpus /\ fence = procs[p].fence
                                      /\ procs[p].fence = procs[p].bound.fence

MovesPast(p) ==
  /\ procs[p].pc \in Processing /\ procs'[p].pc \in {"failed", "settle", "settling"}
  /\ DOMAIN procs'[p] = Fields /\ procs'[p].fence \in Nat /\ procs'[p].tries \in Nat
  /\ procs'[p].req = procs[p].req /\ procs'[p].bound = procs[p].bound
  /\ procs[p].req.kind = "rebuild" /\ procs'[p].pc \in {"settle", "settling"}
       => procs'[p].data \in {"conflict", "failed"}
  /\ procs'[p].pc = "settling" => procs[p].req.kind = "rebuild"

Turn(p) ==
  \/ procs'[p] = procs[p]
  \/ procs'[p] = Idle
  \/ DOMAIN procs'[p] = Fields /\ procs'[p].pc \in Listings
  \/ \E r \in offered : Invoke(p, r)
  \/ Observes(p)
  \/ MovesPast(p)

Turns ==
  /\ DOMAIN procs' = Processes /\ procs' = [p \in Processes |-> procs'[p]]
  /\ \A p \in Processes : Turn(p)

\* A step that gives one process another state is a turn of all of them, if it is one of that process.
LEMMA OneProcess ==
  ASSUME TypeOK, NEW p \in Processes, NEW row, procs' = [procs EXCEPT ![p] = row], procs'[p] = row => Turn(p)
  PROVE  Turns
BY DEF TypeOK, Turns, Turn

\* Reading a page is a turn of the process that reads it.
LEMMA PageTurn ==
  ASSUME TypeOK, NEW p \in Processes, TakePage(p)
  PROVE  Turns
<1> DEFINE rest == After(procs[p].tries)
           next == CHOOSE c \in rest : \A d \in rest : cases[d].updated <= cases[c].updated
           was  == procs[p].data
           read == IF rest = {} THEN was.items ELSE was.items \cup {<<next, cases[next].current>>}
           of   == IF FirstPage(p) THEN [corpus |-> Corpus, active |-> Active(1)] ELSE was.of
           row  == [Idle EXCEPT !.pc = IF Cardinality(rest) > 1 THEN "listing" ELSE "listed",
                                !.fence = fence, !.tries = IF rest = {} THEN 0 ELSE cases[next].updated,
                                !.data = [items |-> read, of |-> of]]
<1>1. procs' = [procs EXCEPT ![p] = row]
  BY DEF TakePage
<1>2. DOMAIN row = Fields /\ row.pc \in Listings
  <2> HIDE DEF rest, next, read, of
  <2> QED
    BY DEF Idle, Fields, Listings
<1> HIDE DEF row
<1> QED
  BY <1>1, <1>2, OneProcess DEF Turn

\* Whatever happens, each process takes one of its turns or none.
LEMMA EveryTurn ==
  ASSUME TypeOK, LocalOK, [Next]_vars
  PROVE  Turns
<1>1. CASE UNCHANGED procs
  BY <1>1 DEF TypeOK, Turns, Turn
<1>2. CASE \E r \in offered : Plan(r)
  BY <1>1, <1>2 DEF Plan
<1>3. ASSUME NEW p \in Processes, NEW r \in offered, Invoke(p, r) PROVE Turns
  BY <1>3, OneProcess DEF Invoke, Turn
<1>4. ASSUME NEW p \in Processes, Steps(p) PROVE Turns
  <2> DEFINE q == procs[p]
  <2>1. DOMAIN q = Fields
    BY DEF TypeOK, ProcessOK
  <2>2. q.pc \in Processing => /\ q.req \in Requests /\ q.fence \in Nat /\ q.tries \in Nat
    BY DEF TypeOK, ProcessOK, Processing, LocalOK, RequestOK, Listings
  <2>3. CASE Return(p)
    BY <2>3, OneProcess DEF Return, Turn
  <2>4. ASSUME NEW to \in {"failed", "settle"}, Goto(p, to), q.pc \in Processing,
               to = "settle" => q.req.kind # "rebuild"
        PROVE  Turns
    <3> DEFINE row == [q EXCEPT !.pc = to]
    <3>1. procs' = [procs EXCEPT ![p] = row]
      BY <2>4 DEF Goto, TypeOK
    <3>2. /\ DOMAIN row = Fields /\ row.pc = to /\ row.fence = q.fence /\ row.tries = q.tries
          /\ row.req = q.req /\ row.bound = q.bound
      BY <2>1 DEF Fields
    <3> HIDE DEF row
    <3>3. procs'[p] = row => MovesPast(p)
      BY <2>2, <2>4, <3>2 DEF MovesPast
    <3> QED
      BY <3>1, <3>3, OneProcess DEF Turn
  <2>5. ASSUME NEW data, NEW to \in {"settle", "settling"}, NEW at \in Nat, NEW n \in Nat,
               procs' = [procs EXCEPT ![p] = [q EXCEPT !.pc = to, !.data = data, !.fence = at, !.tries = n]],
               q.pc \in Processing, q.req.kind = "rebuild", data \in {"conflict", "failed"}
        PROVE  Turns
    <3> DEFINE row == [q EXCEPT !.pc = to, !.data = data, !.fence = at, !.tries = n]
    <3>1. /\ DOMAIN row = Fields /\ row.pc = to /\ row.fence = at /\ row.tries = n
          /\ row.req = q.req /\ row.bound = q.bound /\ row.data = data
      BY <2>1 DEF Fields
    <3> HIDE DEF row
    <3>2. procs'[p] = row => MovesPast(p)
      BY <2>5, <3>1 DEF MovesPast
    <3> QED
      BY <2>5, <3>2, OneProcess DEF row, Turn
  <2>6. ASSUME NEW data, procs' = [procs EXCEPT ![p] = [q EXCEPT !.pc = "transact", !.data = data]],
               q.pc = "observe", UNCHANGED <<store, bound>>,
               q.req.kind = "purge" => data = EntriesOf(q.req.on),
               q.req.kind = "rebuild" => data = Corpus /\ fence = q.fence /\ q.fence = q.bound.fence
        PROVE  Turns
    <3> DEFINE row == [q EXCEPT !.pc = "transact", !.data = data]
    <3>1. row.pc = "transact" /\ row.data = data
      BY <2>1 DEF Fields
    <3>2. procs'[p] = row => Observes(p)
      <4> HIDE DEF row
      <4> SUFFICES ASSUME procs'[p] = row PROVE Observes(p)
        OBVIOUS
      <4>1. procs'[p] = [procs[p] EXCEPT !.pc = "transact", !.data = procs'[p].data]
        BY <3>1 DEF row
      <4> QED
        BY <2>6, <3>1, <4>1 DEF Observes
    <3> HIDE DEF row
    <3> QED
      BY <2>6, <3>2, OneProcess DEF row, Turn
  <2>7. CASE ObserveCommit(p)
    <3>1. CASE Goto(p, "settle")
      BY <2>4, <2>7, <3>1 DEF ObserveCommit, Processing
    <3>2. CASE Goto(p, "transact")
      <4>1. procs' = [procs EXCEPT ![p] = [q EXCEPT !.pc = "transact", !.data = q.data]]
        <5>1. [q EXCEPT !.pc = "transact", !.data = q.data] = [q EXCEPT !.pc = "transact"]
          BY <2>1 DEF Fields
        <5> QED
          BY <3>2, <5>1 DEF Goto, TypeOK
      <4> QED
        BY <2>6, <2>7, <4>1 DEF ObserveCommit
    <3> QED
      BY <2>7, <3>1, <3>2 DEF ObserveCommit
  <2>8. CASE RecheckCommit(p)
    BY <2>3, <2>4, <2>8 DEF RecheckCommit, Processing
  <2>9. CASE SettleCommit(p)
    BY <2>3, <2>9 DEF SettleCommit
  <2>10. CASE ObservePurge(p)
    <3>1. CASE procs' = [procs EXCEPT ![p].pc = "transact", ![p].data = EntriesOf(q.req.on)]
      <4>1. procs' = [procs EXCEPT ![p] = [q EXCEPT !.pc = "transact", !.data = EntriesOf(q.req.on)]]
        BY <3>1 DEF TypeOK
      <4> QED
        BY <2>6, <2>10, <4>1 DEF ObservePurge
    <3> QED
      BY <2>3, <2>10, <3>1 DEF ObservePurge
  <2>11. CASE ObserveRebuild(p)
    <3>1. CASE procs' = [procs EXCEPT ![p].pc = "settle", ![p].data = "conflict"]
      <4>1. procs' = [procs EXCEPT ![p] = [q EXCEPT !.pc = "settle", !.data = "conflict",
                                                    !.fence = q.fence, !.tries = q.tries]]
        <5>1. [q EXCEPT !.pc = "settle", !.data = "conflict", !.fence = q.fence, !.tries = q.tries]
                = [q EXCEPT !.pc = "settle", !.data = "conflict"]
          BY <2>1 DEF Fields
        <5> QED
          BY <3>1, <5>1 DEF TypeOK
      <4> QED
        BY <2>2, <2>5, <2>11, <4>1 DEF ObserveRebuild, Processing
    <3>2. CASE /\ procs' = [procs EXCEPT ![p].pc = "transact", ![p].data = Corpus]
               /\ fence = q.bound.fence /\ q.fence = q.bound.fence
      <4>1. procs' = [procs EXCEPT ![p] = [q EXCEPT !.pc = "transact", !.data = Corpus]]
        BY <3>2 DEF TypeOK
      <4> QED
        BY <2>6, <2>11, <3>2, <4>1 DEF ObserveRebuild
    <3> QED
      BY <2>11, <3>1, <3>2 DEF ObserveRebuild
  <2>12. CASE RecheckRebuild(p)
    <3>1. ASSUME NEW how \in {"conflict", "failed"}, procs' = [procs EXCEPT ![p].pc = "settle", ![p].data = how]
          PROVE  Turns
      <4>1. procs' = [procs EXCEPT ![p] = [q EXCEPT !.pc = "settle", !.data = how,
                                                    !.fence = q.fence, !.tries = q.tries]]
        <5>1. [q EXCEPT !.pc = "settle", !.data = how, !.fence = q.fence, !.tries = q.tries]
                = [q EXCEPT !.pc = "settle", !.data = how]
          BY <2>1 DEF Fields
        <5> QED
          BY <3>1, <5>1 DEF TypeOK
      <4> QED
        BY <2>2, <2>5, <2>12, <4>1 DEF RecheckRebuild, Processing
    <3> QED
      BY <2>3, <2>12, <3>1 DEF RecheckRebuild
  <2>13. CASE PrepareFailure(p)
    <3>1. q.data \in {"conflict", "failed"} /\ fence \in Nat
      BY <2>13 DEF PrepareFailure, LocalOK, RequestOK, Processing, TypeOK
    <3>2. procs' = [procs EXCEPT ![p] = [q EXCEPT !.pc = "settling", !.data = q.data,
                                                  !.fence = fence, !.tries = q.tries]]
      <4>1. [q EXCEPT !.pc = "settling", !.data = q.data, !.fence = fence, !.tries = q.tries]
              = [q EXCEPT !.pc = "settling", !.fence = fence]
        BY <2>1 DEF Fields
      <4> QED
        BY <2>13, <4>1 DEF PrepareFailure, TypeOK
    <3> QED
      BY <2>2, <2>5, <2>13, <3>1, <3>2 DEF PrepareFailure, Processing
  <2>14. CASE SettleRebuild(p)
    <3>1. CASE procs' = [procs EXCEPT ![p].pc = "settle", ![p].tries = @ + 1]
      <4>1. q.data \in {"conflict", "failed"} /\ q.req.kind = "rebuild"
        BY <2>14 DEF SettleRebuild, LocalOK, RequestOK, Processing
      <4>2. procs' = [procs EXCEPT ![p] = [q EXCEPT !.pc = "settle", !.data = q.data,
                                                    !.fence = q.fence, !.tries = q.tries + 1]]
        <5>1. [q EXCEPT !.pc = "settle", !.data = q.data, !.fence = q.fence, !.tries = q.tries + 1]
                = [q EXCEPT !.pc = "settle", !.tries = q.tries + 1]
          BY <2>1 DEF Fields
        <5> QED
          BY <3>1, <5>1 DEF TypeOK
      <4>3. q.tries + 1 \in Nat /\ q.fence \in Nat /\ q.pc \in Processing
        BY <2>2, <2>14 DEF SettleRebuild, Processing
      <4> QED
        BY <2>5, <4>1, <4>2, <4>3
    <3> QED
      BY <2>3, <2>14, <3>1 DEF SettleRebuild
  <2>15. CASE ObservePolicy(p)
    <3>1. CASE procs' = [procs EXCEPT ![p].pc = "transact", ![p].data = Serving]
      <4>1. procs' = [procs EXCEPT ![p] = [q EXCEPT !.pc = "transact", !.data = Serving]]
        BY <3>1 DEF TypeOK
      <4> QED
        BY <2>6, <2>15, <4>1 DEF ObservePolicy, PolicyRequest
    <3> QED
      BY <2>3, <2>15, <3>1 DEF ObservePolicy
  <2>16. CASE Transact(p) \/ RollBack(p)
    BY <2>3, <2>4, <2>16 DEF Transact, RollBack, Processing
  <2>17. CASE RecheckPurge(p) \/ RecheckPolicy(p)
    BY <2>3, <2>17 DEF RecheckPurge, RecheckPolicy
  <2>18. CASE Kill(p) \/ Listed(p)
    BY <2>3, <2>18 DEF Kill, Listed, Return
  <2>19. CASE ReadPage(p)
    BY <2>3, <2>19, PageTurn DEF ReadPage
  <2>20. ASSUME NEW row, procs' = [procs EXCEPT ![p] = row], DOMAIN row = Fields, row.pc = "paging"
         PROVE  Turns
    BY <2>20, OneProcess DEF Turn, Listings
  <2>21. CASE List(p)
    <3> DEFINE row == [Idle EXCEPT !.pc = "paging", !.data = [items |-> {}, of |-> None]]
    <3>1. procs' = [procs EXCEPT ![p] = row]
      BY <2>21 DEF List
    <3>2. DOMAIN row = Fields /\ row.pc = "paging"
      BY DEF Idle, Fields
    <3> HIDE DEF row
    <3> QED
      BY <2>20, <3>1, <3>2
  <2>22. CASE NextPage(p)
    <3> DEFINE row == [q EXCEPT !.pc = "paging"]
    <3>1. procs' = [procs EXCEPT ![p] = row] \/ Return(p)
      BY <2>22 DEF NextPage, Goto, TypeOK
    <3>2. DOMAIN row = Fields /\ row.pc = "paging"
      BY <2>1 DEF Fields
    <3> HIDE DEF row
    <3> QED
      BY <2>3, <2>20, <3>1, <3>2
  <2> QED
    BY <1>4, <2>7, <2>8, <2>9, <2>10, <2>11, <2>12, <2>13, <2>14, <2>15, <2>16, <2>17, <2>18, <2>19,
       <2>21, <2>22 DEF Steps
<1> QED
  BY <1>1, <1>2, <1>3, <1>4 DEF Next, vars

-------------------------------------------------------------------------------
\* Types are kept, and so is what a process knows about its request

\* The corpus consists of entries.
LEMMA CorpusType ==
  ASSUME TypeOK
  PROVE  Corpus \in Entries
BY DEF TypeOK, CaseRows, Corpus, Entries

\* What a process plans to write is of the kind of its table.
LEMMA PlanTypes ==
  ASSUME Assumptions, TypeOK, LocalOK, [Next]_vars
  PROVE  /\ bound' \in [Requests -> Bounds \cup {None}]
         /\ \A r \in Requests : r.kind = "purge" /\ bound'[r] # None => bound'[r].number > 0
         /\ offered' = offered /\ faults' \in Nat
<1>1. CASE UNCHANGED <<bound, offered, faults>>
  BY <1>1 DEF TypeOK, LocalOK, RequestOK
<1>2. ASSUME NEW r \in offered, Plan(r), UNCHANGED offered
      PROVE  /\ bound' \in [Requests -> Bounds \cup {None}]
             /\ \A s \in Requests : s.kind = "purge" /\ bound'[s] # None => bound'[s].number > 0
             /\ faults' \in Nat
  <2> DEFINE number == IF r.kind = "purge" THEN cases[r.on].current ELSE 0
             row    == [fence |-> fence, number |-> number]
  <2>1. r \in Requests /\ (r.kind = "purge" => r.on \in Cases)
    BY DEF TypeOK, Assumptions, RequestAssumption
  <2>2. number \in Nat /\ (r.kind = "purge" => number > 0)
    BY <1>2, <2>1 DEF Plan, TypeOK, CaseRows
  <2>3. row \in Bounds /\ row.number = number
    <3> HIDE DEF number
    <3> QED
      BY <2>2 DEF TypeOK, Bounds
  <2>4. bound' = [bound EXCEPT ![r] = row] /\ faults' = faults
    BY <1>2 DEF Plan
  <2> HIDE DEF row
  <2> QED
    BY <2>1, <2>2, <2>3, <2>4 DEF TypeOK, LocalOK, RequestOK
<1>3. CASE Next /\ \E p \in Processes, r \in offered : Invoke(p, r)
  BY <1>1, <1>3 DEF Next, Invoke
<1>4. ASSUME Next, NEW p \in Processes, Steps(p)
      PROVE  UNCHANGED <<bound, offered>> /\ faults' \in Nat
  <2>1. UNCHANGED offered
    BY <1>4 DEF Next
  <2>2. UNCHANGED bound /\ (faults' = faults \/ faults' = faults + 1)
    BY <1>4 DEF Steps, ObserveCommit, RecheckCommit, SettleCommit, ObservePurge, RecheckPurge,
       ObserveRebuild, RecheckRebuild, PrepareFailure, SettleRebuild, ObservePolicy, RecheckPolicy,
       Transact, RollBack, Kill, List, ReadPage, NextPage, Listed
  <2> QED
    BY <2>1, <2>2 DEF TypeOK
<1> QED
  BY <1>1, <1>2, <1>3, <1>4 DEF Next, vars, TypeOK, LocalOK, RequestOK

\* Every step keeps the types of the tables and of what a process knows.
LEMMA TypeStep ==
  ASSUME Assumptions, TypeOK, LocalOK, [Next]_vars
  PROVE  TypeOK' /\ LocalOK'
<1>1. Turns /\ DOMAIN procs' = Processes /\ procs' = [p \in Processes |-> procs'[p]]
  BY EveryTurn DEF Turns
<1>2. ASSUME NEW p \in Processes
      PROVE  ProcessOK(procs'[p]) /\ RequestOK(procs'[p])
  <2> USE DEF Processing, Listings
  <2>1. ProcessOK(procs[p]) /\ Turn(p)
    BY <1>1 DEF TypeOK, Turns
  <2>2. CASE procs'[p] = procs[p]
    BY <2>1, <2>2 DEF LocalOK, RequestOK
  <2>3. CASE procs'[p] = Idle
    <3>1. DOMAIN Idle = Fields /\ Idle.pc = "idle" /\ Idle.req = None /\ Idle.bound = None
          /\ Idle.fence = 0 /\ Idle.tries = 0
      BY DEF Idle, Fields
    <3> QED
      BY <2>3, <3>1 DEF ProcessOK, RequestOK
  <2>4. CASE DOMAIN procs'[p] = Fields /\ procs'[p].pc \in Listings
    BY <2>4 DEF ProcessOK, RequestOK
  <2>5. ASSUME NEW r \in offered, Invoke(p, r)
        PROVE  /\ procs'[p].pc = "observe" /\ procs'[p].req = r /\ procs'[p].bound = bound[r]
               /\ r \in Requests /\ bound[r] \in Bounds \cup {None}
               /\ (r.kind \in {"purge", "rebuild"} => bound[r] \in Bounds)
               /\ (r.kind = "purge" => bound[r].number > 0)
               /\ ProcessOK(procs'[p])
    <3> DEFINE row == [Idle EXCEPT !.pc = "observe", !.req = r, !.bound = bound[r], !.fence = fence]
    <3>1. r \in Requests /\ bound[r] \in Bounds \cup {None} /\ fence \in Nat
      BY DEF TypeOK
    <3>2. procs'[p] = row
      BY <2>5 DEF Invoke, TypeOK
    <3>3. /\ DOMAIN row = Fields /\ row.pc = "observe" /\ row.req = r /\ row.bound = bound[r]
          /\ row.fence = fence /\ row.tries = 0
      BY DEF Idle, Fields
    <3>4. r.kind \in {"purge", "rebuild"} => bound[r] # None
      BY <2>5 DEF Invoke
    <3> HIDE DEF row
    <3>5. ProcessOK(procs'[p])
      BY <3>1, <3>2, <3>3 DEF ProcessOK
    <3> QED
      BY <3>1, <3>2, <3>3, <3>4, <3>5 DEF LocalOK, RequestOK
  <2>6. CASE \E r \in offered : Invoke(p, r)
    BY <2>5, <2>6 DEF RequestOK
  <2>7. CASE Observes(p)
    <3>1. /\ DOMAIN procs[p] = Fields /\ procs[p].req \in Requests /\ procs[p].bound \in Bounds \cup {None}
          /\ procs[p].fence \in Nat /\ procs[p].tries \in Nat
      BY <2>1, <2>7 DEF Observes, ProcessOK, LocalOK, RequestOK
    <3>2. /\ DOMAIN procs'[p] = Fields /\ procs'[p].pc = "transact" /\ procs'[p].req = procs[p].req
          /\ procs'[p].bound = procs[p].bound /\ procs'[p].fence = procs[p].fence
          /\ procs'[p].tries = procs[p].tries
      BY <2>7, <3>1 DEF Observes, Fields
    <3>3. ProcessOK(procs'[p])
      BY <3>1, <3>2 DEF ProcessOK
    <3> QED
      BY <2>7, <3>1, <3>2, <3>3, CorpusType DEF Observes, LocalOK, RequestOK
  <2>8. CASE MovesPast(p)
    <3>1. procs[p].req \in Requests /\ procs[p].bound \in Bounds \cup {None}
      BY <2>1, <2>8 DEF MovesPast, ProcessOK, LocalOK, RequestOK
    <3>2. ProcessOK(procs'[p])
      BY <2>8, <3>1 DEF MovesPast, ProcessOK
    <3> QED
      BY <2>8, <3>1, <3>2 DEF MovesPast, LocalOK, RequestOK
  <2> QED
    BY <2>1, <2>2, <2>3, <2>4, <2>6, <2>7, <2>8 DEF Turn
<1>3. /\ fence' \in Nat /\ cases' \in [Cases -> CaseRows] /\ policies' \in Seq(PolicyRows)
      /\ receipts' \in [Requests -> Receipts \cup {None}]
      /\ generations' \in [Requests -> Generations \cup {None}] /\ selection' \in Selections
  BY EveryStoreStep, StoreTypes
<1>4. TypeOK'
  BY <1>1, <1>2, <1>3, PlanTypes DEF TypeOK
<1>5. LocalOK'
  BY <1>1, <1>2, PlanTypes DEF LocalOK, RequestOK
<1> QED
  BY <1>4, <1>5

\* They hold at the start.
LEMMA TypeInit ==
  ASSUME Assumptions, Init
  PROVE  TypeOK /\ LocalOK
<1> USE DEF Init, Assumptions
<1>1. cases \in [Cases -> CaseRows]
  BY DEF CaseRows, Aliases
<1>2. policies \in Seq(PolicyRows)
  <2>1. Policies \in [1 .. Len(Policies) -> PolicyStates] /\ Len(Policies) \in Nat
        /\ DOMAIN Policies = 1 .. Len(Policies)
    BY LenProperties DEF PolicyAssumption
  <2>2. ASSUME NEW n \in DOMAIN Policies
        PROVE  [state |-> Policies[n], from |-> IF Policies[n] = "active" THEN 0 ELSE None,
                until |-> None] \in PolicyRows
    BY <2>1, <2>2 DEF PolicyRows
  <2>3. policies \in [1 .. Len(Policies) -> PolicyRows]
    BY <2>1, <2>2
  <2> QED
    BY <2>1, <2>3, SeqDef
<1>3. selection \in Selections
  BY DEF Selections
<1>4. DOMAIN Idle = Fields /\ Idle.pc = "idle" /\ Idle.req = None /\ Idle.bound = None
      /\ Idle.fence = 0 /\ Idle.tries = 0
  BY DEF Idle, Fields
<1>5. \A p \in Processes : ProcessOK(procs[p]) /\ procs[p].pc = "idle"
  BY <1>4 DEF ProcessOK, Listings
<1>6. fence \in Nat /\ faults \in Nat /\ offered \subseteq Requests
  BY DEF RequestAssumption
<1>7. TypeOK
  BY <1>1, <1>2, <1>3, <1>5, <1>6 DEF TypeOK
<1>8. LocalOK
  BY <1>5 DEF LocalOK, RequestOK, Processing
<1> QED
  BY <1>7, <1>8

\* The store and the processes that use it have their types.
THEOREM TypeCorrect == Spec => []TypeOK
<1>1. Init => TypeOK /\ LocalOK
  BY Assumptions, TypeInit
<1>2. TypeOK /\ LocalOK /\ [Next]_vars => TypeOK' /\ LocalOK'
  BY Assumptions, TypeStep
<1> QED
  BY <1>1, <1>2, PTL DEF Spec

-------------------------------------------------------------------------------
\* What holds until the fence moves

\* A process that has read the store at a fence, and finds it at that fence still, acts
\* under an active view, on the entries and on the corpus that there are.
SeenBy(q) ==
  q.pc \in {"observe", "transact"} =>
    /\ q.fence <= fence
    /\ q.fence = fence => Active(q.req.context)
    /\ q.pc = "transact" /\ q.fence = fence =>
         /\ q.req.kind = "purge" => q.data = EntriesOf(q.req.on)
         /\ q.req.kind = "rebuild" => q.data = Corpus

SeenOK == \A p \in Processes : SeenBy(procs[p])

\* Whoever changes what was read advances the fence, and with it ends what relies on the fence.
LEMMA SeenStep ==
  ASSUME Assumptions, TypeOK, LocalOK, SeenOK, [Next]_vars
  PROVE  SeenOK'
<1>1. UNCHANGED store \/ fence' = fence + 1
  BY EveryStoreStep DEF StoreStep, CommitStep, RefusalStep, PurgeStep, RebuildStep, FailureStep,
     PolicyStep, Settles
<1> SUFFICES ASSUME NEW p \in Processes, (procs[p].pc \in {"observe", "transact"})' PROVE SeenBy(procs[p])'
  BY DEF SeenOK, SeenBy
<1>2. Turn(p) /\ ProcessOK(procs[p]) /\ fence \in Nat
  BY EveryTurn DEF Turns, TypeOK
<1>3. CASE procs'[p] = procs[p]
  <2>1. procs[p].fence \in Nat /\ procs[p].fence <= fence
    BY <1>2, <1>3 DEF ProcessOK, Listings, SeenOK, SeenBy
  <2>2. CASE UNCHANGED store
    BY <1>3, <2>1, <2>2 DEF SeenOK, SeenBy, store, Active, EntriesOf, Corpus
  <2>3. CASE fence' = fence + 1
    BY <1>2, <1>3, <2>1, <2>3 DEF SeenBy
  <2> QED
    BY <1>1, <2>2, <2>3
<1>4. CASE procs'[p] = Idle \/ procs'[p].pc \in Listings \/ MovesPast(p)
  BY <1>4 DEF Idle, Listings, MovesPast, SeenBy
<1>5. ASSUME NEW r \in offered, Invoke(p, r)
      PROVE  /\ procs'[p].pc = "observe" /\ procs'[p].fence = fence' /\ procs'[p].req = r
             /\ Active(r.context)' /\ fence' = fence
  <2>1. procs'[p] = [Idle EXCEPT !.pc = "observe", !.req = r, !.bound = bound[r], !.fence = fence]
    BY <1>5 DEF Invoke, TypeOK
  <2>2. procs'[p].pc = "observe" /\ procs'[p].fence = fence /\ procs'[p].req = r
    BY <2>1 DEF Idle
  <2> QED
    BY <1>5, <2>2 DEF Invoke, Active, store
<1>6. CASE Observes(p)
  <2>1. /\ UNCHANGED store /\ procs[p].pc = "observe" /\ procs[p].fence <= fence
        /\ procs[p].fence = fence => Active(procs[p].req.context)
    BY <1>6 DEF Observes, SeenOK, SeenBy
  <2>2. procs'[p].req = procs[p].req /\ procs'[p].fence = procs[p].fence
    BY <1>2, <1>6 DEF Observes, ProcessOK, Fields
  <2>3. /\ procs[p].req.kind = "purge" => procs'[p].data = EntriesOf(procs[p].req.on)'
        /\ procs[p].req.kind = "rebuild" => procs'[p].data = Corpus'
        /\ procs[p].fence = fence => Active(procs[p].req.context)'
    BY <1>6, <2>1, <2>2 DEF Observes, store, Active, EntriesOf, Corpus
  <2> QED
    BY <2>1, <2>2, <2>3 DEF store, SeenBy
<1> QED
  BY <1>2, <1>3, <1>4, <1>5, <1>6 DEF Turn, SeenBy

-------------------------------------------------------------------------------
\* Fences

FencesOK ==
  LET settled == {r \in Requests : receipts[r] # None}
  IN  /\ IsFiniteSet(settled) /\ FencesCountReceipts
      /\ fence > 0

\* A settlement takes the number of the fence and adds one receipt.
LEMMA FencesStep ==
  ASSUME Assumptions, TypeOK, LocalOK, FencesOK, [Next]_vars
  PROVE  FencesOK'
<1> DEFINE settled == {r \in Requests : receipts[r] # None}
<1>1. CASE UNCHANGED store
  BY <1>1 DEF FencesOK, FencesCountReceipts, store
<1>2. ASSUME NEW p \in Processes, NEW o \in Outcomes, Settles(p, o)
      PROVE  FencesOK'
  <2> DEFINE r   == procs[p].req
             row == [outcome |-> o, fence |-> fence + 1, bound |-> procs[p].bound]
  <2>1. r \in Requests /\ r \notin settled /\ fence \in Nat /\ fence' = fence + 1
    BY <1>2 DEF Settles, TypeOK
  <2>2. receipts' = [receipts EXCEPT ![r] = row] /\ row.fence = fence + 1
    BY <1>2 DEF Settles, Receipt
  <2>3. row # None
    <3>1. procs[p].bound \in Bounds \cup {None}
      BY <1>2 DEF Settles, TypeOK, ProcessOK, Processing, Listings
    <3>2. row \in Receipts
      BY <2>1, <3>1 DEF Receipts
    <3> QED
      BY <3>2 DEF Assumptions, NoneAssumption
  <2> HIDE DEF row
  <2>4. /\ settled' = settled \cup {r} /\ receipts'[r].fence = fence + 1
        /\ \A s \in settled : receipts'[s] = receipts[s]
    BY <2>1, <2>2, <2>3 DEF TypeOK
  <2>5. IsFiniteSet(settled) /\ Cardinality(settled) = fence - 1 /\ fence > 0
        /\ {receipts[s].fence : s \in settled} = 2 .. fence
    BY DEF FencesOK, FencesCountReceipts
  <2>6. IsFiniteSet(settled') /\ Cardinality(settled') = fence' - 1
    <3>1. IsFiniteSet(settled \cup {r}) /\ Cardinality(settled \cup {r}) = Cardinality(settled) + 1
      BY <2>1, <2>5, FS_AddElement
    <3> HIDE DEF settled
    <3> QED
      BY <2>1, <2>4, <2>5, <3>1
  <2>7. {receipts'[s].fence : s \in settled'} = 2 .. fence'
    <3>1. {receipts'[s].fence : s \in settled'} = {receipts[s].fence : s \in settled} \cup {fence + 1}
      BY <2>4
    <3> QED
      BY <2>1, <2>5, <3>1
  <2> QED
    BY <2>1, <2>5, <2>6, <2>7 DEF FencesOK, FencesCountReceipts
<1>3. ASSUME NEW p \in Processes, \/ CommitStep(p) \/ RefusalStep(p) \/ PurgeStep(p)
                                 \/ RebuildStep(p) \/ FailureStep(p) \/ PolicyStep(p)
      PROVE  \E o \in Outcomes : Settles(p, o)
  BY <1>3 DEF CommitStep, RefusalStep, PurgeStep, RebuildStep, FailureStep, PolicyStep, Outcomes
<1> QED
  BY <1>1, <1>2, <1>3, EveryStoreStep DEF StoreStep

\* Every settlement takes the next fence, and every fence is taken by one.
THEOREM FencesAreCounted == Spec => []FencesCountReceipts
<1>1. Init => TypeOK /\ LocalOK /\ FencesOK
  <2> SUFFICES ASSUME Init PROVE FencesOK
    BY Assumptions, TypeInit
  <2>1. {r \in Requests : receipts[r] # None} = {} /\ fence = 1
    BY DEF Init
  <2> QED
    BY <2>1, FS_EmptySet DEF FencesOK, FencesCountReceipts
<1>2. TypeOK /\ LocalOK /\ FencesOK /\ [Next]_vars => TypeOK' /\ LocalOK' /\ FencesOK'
  BY Assumptions, TypeStep, FencesStep
<1>3. FencesOK => FencesCountReceipts
  BY DEF FencesOK
<1> QED
  BY <1>1, <1>2, <1>3, PTL DEF Spec

-------------------------------------------------------------------------------
\* Aliases

\* Only commits give an alias to a Case, and only purges take one.
LEMMA AliasesStep ==
  ASSUME Assumptions, TypeOK, LocalOK, AliasesAreUnique, [Next]_vars
  PROVE  AliasesAreUnique'
<1>1. CASE UNCHANGED cases
  BY <1>1 DEF AliasesAreUnique
<1>2. ASSUME NEW p \in Processes, CommitStep(p) PROVE AliasesAreUnique'
  <2> DEFINE r   == procs[p].req
             row == [made |-> r.expected + 1, current |-> r.expected + 1, state |-> r.state,
                     alias |-> r.alias, payload |-> cases[r.on].payload \cup {r.expected + 1},
                     updated |-> fence + 1]
  <2>1. cases' = [cases EXCEPT ![r.on] = row] /\ row.alias = r.alias
    BY <1>2 DEF CommitStep, EffectOfCommit
  <2>2. \A c \in Cases \ {r.on} : cases[c].current # 0 /\ r.alias # None => cases[c].alias # r.alias
    BY <1>2 DEF CommitStep, Commits, ClaimConflict
  <2> HIDE DEF row
  <2> QED
    BY <2>1, <2>2 DEF AliasesAreUnique, TypeOK
<1>3. ASSUME NEW p \in Processes, PurgeStep(p) PROVE AliasesAreUnique'
  <2> DEFINE r   == procs[p].req
             row == [cases[r.on] EXCEPT !.current = 0, !.state = "none", !.alias = None,
                                        !.payload = {}, !.updated = 0]
  <2>1. r.on \in Cases
    BY <1>3 DEF PurgeStep, Settles, Assumptions, RequestAssumption
  <2>2. cases' = [cases EXCEPT ![r.on] = row]
    BY <1>3, <2>1 DEF PurgeStep, EffectOfPurge, TypeOK, CaseRows
  <2>3. row.current = 0
    BY <2>1 DEF TypeOK, CaseRows
  <2> HIDE DEF row
  <2> QED
    BY <2>2, <2>3 DEF AliasesAreUnique, TypeOK
<1> QED
  BY <1>1, <1>2, <1>3, EveryStoreStep
  DEF StoreStep, store, RefusalStep, RebuildStep, EffectOfRebuild, FailureStep, PolicyStep, EffectOfPolicy

\* An alias has one Case, in every behaviour.
THEOREM AliasesStayUnique == Spec => []AliasesAreUnique
<1>1. Init => TypeOK /\ LocalOK /\ AliasesAreUnique
  BY Assumptions, TypeInit DEF Init, AliasesAreUnique
<1>2. TypeOK /\ LocalOK /\ AliasesAreUnique /\ [Next]_vars => TypeOK' /\ LocalOK' /\ AliasesAreUnique'
  BY Assumptions, TypeStep, AliasesStep
<1> QED
  BY <1>1, <1>2, PTL DEF Spec

-------------------------------------------------------------------------------
\* Views

Effective(r) ==
  receipts[r] # None /\ ~Settled(r, "rejected") /\ ~Settled(r, "conflict") /\ ~Settled(r, "failed")

\* A revision that is active has been activated, one that is only created has not, and
\* neither has ended; what took effect names a revision that had been activated before.
ViewsOK ==
  /\ \A r \in Requests : receipts[r] # None => receipts[r].fence <= fence
  /\ \A n \in DOMAIN policies :
       /\ policies[n].state = "active" => policies[n].from \in Nat /\ policies[n].from <= fence
                                          /\ policies[n].until = None
       /\ policies[n].state = "created" => policies[n].from = None /\ policies[n].until = None
  /\ \A r \in Requests : Effective(r) =>
       /\ r.context \in DOMAIN policies /\ policies[r.context].from \in Nat
       /\ policies[r.context].from < receipts[r].fence
       /\ policies[r.context].until # None => receipts[r].fence <= policies[r.context].until

\* How a settlement may change a revision of the view policy
Moves(n) ==
  /\ n \in DOMAIN policies'
  /\ \/ policies'[n] = policies[n]
     \/ /\ policies[n].state \in {"created", "active"}
        /\ policies'[n].state \in {"superseded", "retired"}
        /\ policies'[n].from = policies[n].from /\ policies'[n].until = fence + 1
     \/ /\ policies[n].state = "created" /\ policies'[n].state = "active"
        /\ policies'[n].from = fence + 1 /\ policies'[n].until = policies[n].until

\* Whatever takes effect does so while the view that it names is active.
LEMMA EffectsAreInView ==
  ASSUME TypeOK, LocalOK, SeenOK, StoreStep, ~UNCHANGED store
  PROVE  /\ \A n \in DOMAIN policies : Moves(n)
         /\ \A n \in DOMAIN policies' \ DOMAIN policies :
              policies'[n] = [state |-> "created", from |-> None, until |-> None]
         /\ \E p \in Processes, o \in Outcomes :
              Settles(p, o) /\ (o \notin {"rejected", "conflict", "failed"} => Active(procs[p].req.context))
<1>1. ASSUME UNCHANGED policies
      PROVE  /\ \A n \in DOMAIN policies : Moves(n)
             /\ \A n \in DOMAIN policies' \ DOMAIN policies :
                  policies'[n] = [state |-> "created", from |-> None, until |-> None]
  BY <1>1 DEF Moves
<1>2. ASSUME NEW p \in Processes, CommitStep(p) \/ PurgeStep(p) \/ RebuildStep(p) \/ PolicyStep(p)
      PROVE  \E o \in Outcomes : Settles(p, o) /\ Active(procs[p].req.context)
  <2>1. CASE CommitStep(p)
    BY <2>1 DEF CommitStep, Commits, Outcomes
  <2>2. CASE PolicyStep(p)
    BY <2>2 DEF PolicyStep, Changes, Outcomes
  <2>3. CASE PurgeStep(p) \/ RebuildStep(p)
    BY <2>3 DEF PurgeStep, RebuildStep, SeenOK, SeenBy, Outcomes
  <2> QED
    BY <1>2, <2>1, <2>2, <2>3
<1>3. ASSUME NEW p \in Processes, PolicyStep(p)
      PROVE  /\ \A n \in DOMAIN policies : Moves(n)
             /\ \A n \in DOMAIN policies' \ DOMAIN policies :
                  policies'[n] = [state |-> "created", from |-> None, until |-> None]
  BY <1>3, PolicyEffect DEF Moves
<1>4. PICK p \in Processes : \/ CommitStep(p) \/ RefusalStep(p) \/ PurgeStep(p)
                             \/ RebuildStep(p) \/ FailureStep(p) \/ PolicyStep(p)
  BY DEF StoreStep
<1>5. CASE RefusalStep(p) \/ FailureStep(p)
  BY <1>1, <1>5 DEF RefusalStep, FailureStep, Outcomes
<1>6. CASE CommitStep(p) \/ PurgeStep(p) \/ RebuildStep(p)
  <2>1. UNCHANGED policies
    BY <1>6 DEF CommitStep, EffectOfCommit, PurgeStep, EffectOfPurge, RebuildStep, EffectOfRebuild
  <2> QED
    BY <1>1, <1>2, <1>6, <2>1
<1> QED
  BY <1>2, <1>3, <1>4, <1>5, <1>6

\* A view policy is active from one fence until another, and an effect settles under the active one.
LEMMA ViewsStep ==
  ASSUME Assumptions, TypeOK, LocalOK, SeenOK, ViewsOK, [Next]_vars
  PROVE  ViewsOK'
<1>1. CASE UNCHANGED store
  BY <1>1 DEF ViewsOK, Effective, Settled, store
<1>2. CASE ~UNCHANGED store
  <2>1. /\ \A n \in DOMAIN policies : Moves(n)
        /\ \A n \in DOMAIN policies' \ DOMAIN policies :
             policies'[n] = [state |-> "created", from |-> None, until |-> None]
    BY <1>2, EveryStoreStep, EffectsAreInView
  <2>2. PICK p \in Processes, o \in Outcomes :
          Settles(p, o) /\ (o \notin {"rejected", "conflict", "failed"} => Active(procs[p].req.context))
    BY <1>2, EveryStoreStep, EffectsAreInView
  <2> DEFINE r   == procs[p].req
             row == [outcome |-> o, fence |-> fence + 1, bound |-> procs[p].bound]
  <2>3. /\ r \in Requests /\ receipts[r] = None /\ fence \in Nat /\ fence' = fence + 1
        /\ receipts' = [receipts EXCEPT ![r] = row]
        /\ row.fence = fence + 1 /\ row.outcome = o
    BY <2>2 DEF Settles, Receipt, TypeOK
  <2> HIDE DEF row
  <2>4. /\ receipts'[r] = row /\ \A s \in Requests \ {r} : receipts'[s] = receipts[s]
        /\ \A s \in Requests : receipts[s] # None => receipts[s].fence \in Nat
    BY <2>3 DEF TypeOK, Receipts
  <2>5. \A s \in Requests : receipts'[s] # None => receipts'[s].fence <= fence'
    BY <2>3, <2>4 DEF ViewsOK
  <2>6. \A n \in DOMAIN policies' :
          /\ policies'[n].state = "active" => policies'[n].from \in Nat /\ policies'[n].from <= fence'
                                              /\ policies'[n].until = None
          /\ policies'[n].state = "created" => policies'[n].from = None /\ policies'[n].until = None
    BY <2>1, <2>3 DEF ViewsOK, Moves
  <2>7. ASSUME NEW s \in Requests, Effective(s)'
        PROVE  /\ s.context \in DOMAIN policies' /\ policies'[s.context].from \in Nat
               /\ policies'[s.context].from < receipts'[s].fence
               /\ policies'[s.context].until # None => receipts'[s].fence <= policies'[s.context].until
    <3> DEFINE view == policies[s.context]
    <3>1. CASE s = r
      <4>1. o \notin {"rejected", "conflict", "failed"}
        BY <2>3, <2>4, <2>7, <3>1 DEF Effective, Settled
      <4>2. s.context \in DOMAIN policies /\ view.state = "active"
        BY <2>2, <3>1, <4>1 DEF Active
      <4>3. view.from \in Nat /\ view.from <= fence /\ view.until = None
        BY <4>2 DEF ViewsOK
      <4>4. Moves(s.context)
        BY <2>1, <4>2
      <4>5. receipts'[s].fence = fence + 1
        BY <2>3, <2>4, <3>1
      <4> QED
        BY <2>3, <4>2, <4>3, <4>4, <4>5 DEF Moves
    <3>2. CASE s # r
      <4>1. receipts'[s] = receipts[s] /\ Effective(s)
        BY <2>4, <2>7, <3>2 DEF Effective, Settled
      <4>2. /\ s.context \in DOMAIN policies /\ view.from \in Nat /\ view.from < receipts[s].fence
            /\ view.until # None => receipts[s].fence <= view.until
            /\ receipts[s].fence <= fence /\ receipts[s].fence \in Nat
        BY <2>4, <4>1 DEF ViewsOK, Effective
      <4>3. view.state # "created"
        BY <4>2 DEF ViewsOK, Assumptions, NoneAssumption
      <4>4. Moves(s.context)
        BY <2>1, <4>2
      <4> QED
        BY <2>3, <4>1, <4>2, <4>3, <4>4 DEF Moves
    <3> QED
      BY <3>1, <3>2
  <2> QED
    BY <2>5, <2>6, <2>7 DEF ViewsOK
<1> QED
  BY <1>1, <1>2

\* No process relies on anything at the start.
LEMMA SeenInit ==
  ASSUME Init
  PROVE  SeenOK
BY DEF Init, SeenOK, SeenBy, Idle

\* What takes effect does so between the activation of its view and the end of it.
THEOREM EffectsSettleInView == Spec => []SettledUnderTheirView
<1>1. Init => TypeOK /\ LocalOK /\ SeenOK /\ ViewsOK
  <2> SUFFICES ASSUME Init PROVE ViewsOK
    BY Assumptions, TypeInit, SeenInit
  <2>1. \A r \in Requests : receipts[r] = None
    BY DEF Init
  <2>2. \A n \in DOMAIN policies :
          /\ policies[n].state = "active" => policies[n].from = 0 /\ policies[n].until = None
          /\ policies[n].state = "created" => policies[n].from = None /\ policies[n].until = None
    BY DEF Init
  <2> QED
    BY <2>1, <2>2 DEF ViewsOK, Effective, Init
<1>2. TypeOK /\ LocalOK /\ SeenOK /\ ViewsOK /\ [Next]_vars => TypeOK' /\ LocalOK' /\ SeenOK' /\ ViewsOK'
  BY Assumptions, TypeStep, SeenStep, ViewsStep
<1>3. ViewsOK => SettledUnderTheirView
  BY Assumptions DEF ViewsOK, Effective, SettledUnderTheirView, Assumptions, NoneAssumption
<1> QED
  BY <1>1, <1>2, <1>3, PTL DEF Spec

-------------------------------------------------------------------------------
\* Projections

ProjectionOK ==
  /\ ProjectionIsExact
  /\ selection.status = "current" => /\ selection.of \in Requests /\ generations[selection.of] \in Generations
                                     /\ generations[selection.of].source < fence

\* A rebuild of the last fence, a commit and a purge leave a projection exact or no longer current.
LEMMA ProjectionStep ==
  ASSUME Assumptions, TypeOK, LocalOK, SeenOK, ProjectionOK, [Next]_vars
  PROVE  ProjectionOK'
<1> USE DEF ProjectionOK, ProjectionIsExact, Settles
<1>1. CASE UNCHANGED store
  BY <1>1 DEF store, Corpus
<1>2. ASSUME NEW p \in Processes, RebuildStep(p) PROVE ProjectionOK'
  <2> DEFINE r   == procs[p].req
             row == [source |-> procs[p].bound.fence, entries |-> procs[p].data]
  <2>1. /\ r \in Requests /\ procs[p].data = Corpus /\ procs[p].bound.fence = fence /\ fence \in Nat
        /\ Corpus \in Entries
    BY <1>2, CorpusType DEF RebuildStep, Rebuilds, SeenOK, SeenBy, TypeOK
  <2>2. selection' = [status |-> "current", of |-> r] /\ generations' = [generations EXCEPT ![r] = row]
        /\ UNCHANGED cases /\ fence' = fence + 1
    BY <1>2 DEF RebuildStep, EffectOfRebuild
  <2>3. generations'[r] = row /\ row.source = fence /\ row.entries = Corpus /\ row \in Generations
    BY <2>1, <2>2 DEF TypeOK, Generations
  <2>4. Corpus' = Corpus
    BY <2>2 DEF Corpus
  <2> HIDE DEF row
  <2> QED
    BY <2>1, <2>2, <2>3, <2>4
<1>3. ASSUME NEW p \in Processes, PurgeStep(p) PROVE ProjectionOK'
  <2>1. fence \in Nat /\ fence' = fence + 1
    BY <1>3 DEF PurgeStep, TypeOK
  <2>2. generations' = [g \in Requests |-> IF generations[g] = None THEN None
                          ELSE [generations[g] EXCEPT !.entries = @ \ procs[p].data[g]]]
        /\ selection'.of = selection.of /\ (selection'.status = "current" => selection.status = "current")
    BY <1>3 DEF PurgeStep, EffectOfPurge, TypeOK, Selections
  <2>3. ASSUME NEW g \in Requests, generations[g] \in Generations
        PROVE  generations'[g] \in Generations /\ generations'[g].source = generations[g].source
    <3>1. generations[g] # None =>
            generations'[g] = [generations[g] EXCEPT !.entries = generations[g].entries \ procs[p].data[g]]
      BY <2>2
    <3>2. generations[g] = None => generations'[g] = generations[g]
      BY <2>2
    <3> QED
      BY <2>3, <3>1, <3>2 DEF Generations, Entries
  <2>4. \A g \in Requests : generations[g] \in Generations => generations[g].source \in Nat
    BY DEF Generations
  <2> QED
    BY <2>1, <2>2, <2>3, <2>4, SMTT(30)
<1>4. ASSUME NEW p \in Processes, CommitStep(p) \/ RefusalStep(p) \/ PolicyStep(p) \/ FailureStep(p)
      PROVE  ProjectionOK'
  <2>1. fence \in Nat /\ fence' = fence + 1 /\ UNCHANGED generations
    BY <1>4 DEF CommitStep, EffectOfCommit, RefusalStep, PolicyStep, EffectOfPolicy, FailureStep, TypeOK
  <2>2. selection'.status = "current" => selection' = selection
    BY <1>4 DEF CommitStep, EffectOfCommit, RefusalStep, PolicyStep, EffectOfPolicy, FailureStep
  <2>3. \A g \in Requests : generations[g] \in Generations => generations[g].source \in Nat
    BY DEF Generations
  <2> QED
    BY <2>1, <2>2, <2>3
<1> QED
  BY <1>1, <1>2, <1>3, <1>4, EveryStoreStep DEF StoreStep

\* A current projection of the last fence holds the current revisions and nothing else.
THEOREM ProjectionStaysExact == Spec => []ProjectionIsExact
<1>1. Init => TypeOK /\ LocalOK /\ SeenOK /\ ProjectionOK
  BY Assumptions, TypeInit, SeenInit DEF Init, ProjectionOK, ProjectionIsExact
<1>2. TypeOK /\ LocalOK /\ SeenOK /\ ProjectionOK /\ [Next]_vars
        => TypeOK' /\ LocalOK' /\ SeenOK' /\ ProjectionOK'
  BY Assumptions, TypeStep, SeenStep, ProjectionStep
<1>3. ProjectionOK => ProjectionIsExact
  BY DEF ProjectionOK
<1> QED
  BY <1>1, <1>2, <1>3, PTL DEF Spec

-------------------------------------------------------------------------------
\* Purges

\* A Case that was purged has nothing left but its number of revisions, and had some.
Gone(c, number) ==
  /\ number > 0
  /\ cases[c].current = 0 /\ cases[c].payload = {} /\ cases[c].made = number
  /\ \A g \in Requests : EntriesOf(c)[g] = {}

GoneAsBound(r) == receipts[r].bound \in Bounds /\ Gone(r.on, receipts[r].bound.number)

PurgesOK == \A r \in Requests : r.kind = "purge" /\ Settled(r, "deleted") => GoneAsBound(r)

\* Nothing comes back to a Case that is gone.
LEMMA StaysGone ==
  ASSUME Assumptions, TypeOK, LocalOK, SeenOK, StoreStep,
         NEW c \in Cases, NEW number, Gone(c, number)
  PROVE  Gone(c, number)'
<1>1. CASE UNCHANGED <<cases, generations>>
  BY <1>1 DEF Gone, EntriesOf
<1>2. ASSUME NEW p \in Processes, CommitStep(p) PROVE Gone(c, number)'
  <2> DEFINE r == procs[p].req
  <2>1. r \in Requests /\ r.expected \in Nat /\ r.on \in Cases
    BY <1>2 DEF CommitStep, Settles, Assumptions, RequestAssumption
  <2>2. IF r.expected = 0 THEN ~Known(r.on) ELSE cases[r.on].current = r.expected
    BY <1>2 DEF CommitStep, Commits
  <2>3. r.on # c
    BY <2>1, <2>2 DEF Known, Gone
  <2>4. cases'[c] = cases[c] /\ UNCHANGED generations
    BY <1>2, <2>3 DEF CommitStep, EffectOfCommit, TypeOK
  <2> QED
    BY <2>4 DEF Gone, EntriesOf
<1>3. ASSUME NEW p \in Processes, PurgeStep(p) PROVE Gone(c, number)'
  <2> DEFINE r == procs[p].req
  <2>1. r \in Requests /\ r.on \in Cases /\ procs[p].bound.number > 0
    BY <1>3 DEF PurgeStep, Settles, Assumptions, RequestAssumption, LocalOK, RequestOK
  <2>2. r.on # c
    BY <1>3, <2>1 DEF PurgeStep, Purges, Gone
  <2>3. cases'[c] = cases[c]
    BY <1>3, <2>2 DEF PurgeStep, EffectOfPurge, TypeOK
  <2>4. \A g \in Requests : EntriesOf(c)'[g] \subseteq EntriesOf(c)[g]
    <3> SUFFICES ASSUME NEW g \in Requests PROVE EntriesOf(c)'[g] \subseteq EntriesOf(c)[g]
      OBVIOUS
    <3>1. generations'[g] = IF generations[g] = None THEN None
                            ELSE [generations[g] EXCEPT !.entries = @ \ procs[p].data[g]]
      BY <1>3 DEF PurgeStep, EffectOfPurge
    <3>2. CASE generations[g] = None
      BY <3>1, <3>2 DEF EntriesOf
    <3>3. CASE generations[g] # None
      <4>1. generations'[g].entries \subseteq generations[g].entries
        BY <3>1, <3>3 DEF TypeOK, Generations
      <4> QED
        BY <3>3, <4>1 DEF EntriesOf
    <3> QED
      BY <3>2, <3>3
  <2> QED
    BY <2>3, <2>4 DEF Gone
<1>4. ASSUME NEW p \in Processes, RebuildStep(p) PROVE Gone(c, number)'
  <2> DEFINE r   == procs[p].req
             row == [source |-> procs[p].bound.fence, entries |-> procs[p].data]
  <2>1. r \in Requests /\ procs[p].data = Corpus
    BY <1>4 DEF RebuildStep, SeenOK, SeenBy, Settles
  <2>2. generations' = [generations EXCEPT ![r] = row] /\ UNCHANGED cases /\ row.entries = Corpus
    BY <1>4, <2>1 DEF RebuildStep, EffectOfRebuild
  <2>3. {e \in row.entries : e[1] = c} = {}
    BY <2>2 DEF Corpus, Gone
  <2> HIDE DEF row
  <2>4. ASSUME NEW g \in Requests PROVE EntriesOf(c)'[g] = {}
    <3>1. CASE g = r
      BY <2>1, <2>2, <2>3, <3>1 DEF EntriesOf, TypeOK
    <3>2. CASE g # r
      <4>1. generations'[g] = generations[g] /\ EntriesOf(c)[g] = {}
        BY <2>1, <2>2, <3>2 DEF Gone, TypeOK
      <4> QED
        BY <4>1 DEF EntriesOf
    <3> QED
      BY <3>1, <3>2
  <2> QED
    BY <2>2, <2>4 DEF Gone
<1> QED
  BY <1>1, <1>2, <1>3, <1>4
  DEF StoreStep, store, RefusalStep, FailureStep, PolicyStep, EffectOfPolicy

\* A purge takes all that there is of its Case.
LEMMA PurgeRemoves ==
  ASSUME TypeOK, LocalOK, SeenOK, NEW p \in Processes, PurgeStep(p),
         NEW c \in Cases, NEW number, c = procs[p].req.on, number = procs[p].bound.number
  PROVE  Gone(c, number)' /\ procs[p].bound \in Bounds
<1>1. procs[p].bound \in Bounds /\ number > 0 /\ procs[p].data = EntriesOf(c)
  BY DEF PurgeStep, Settles, LocalOK, RequestOK, SeenOK, SeenBy
<1>2. cases'[c].current = 0 /\ cases'[c].payload = {} /\ cases'[c].made = number
  <2>1. cases[c].made = number /\ cases[c] \in CaseRows
    BY DEF PurgeStep, Purges, TypeOK
  <2>2. cases' = [cases EXCEPT ![c] = [cases[c] EXCEPT !.current = 0, !.state = "none", !.alias = None,
                                                       !.payload = {}, !.updated = 0]]
    BY DEF PurgeStep, EffectOfPurge, TypeOK
  <2> QED
    BY <2>1, <2>2 DEF TypeOK, CaseRows
<1>3. ASSUME NEW g \in Requests PROVE EntriesOf(c)'[g] = {}
  <2>1. generations'[g] = IF generations[g] = None THEN None
                          ELSE [generations[g] EXCEPT !.entries = @ \ EntriesOf(c)[g]]
    BY <1>1 DEF PurgeStep, EffectOfPurge
  <2>2. CASE generations[g] = None
    BY <2>1, <2>2 DEF EntriesOf
  <2>3. CASE generations[g] # None
    <3>1. EntriesOf(c)[g] = {e \in generations[g].entries : e[1] = c}
      BY <2>3 DEF EntriesOf
    <3>2. generations'[g].entries = generations[g].entries \ EntriesOf(c)[g]
      BY <2>1, <2>3 DEF TypeOK, Generations
    <3>3. {e \in generations'[g].entries : e[1] = c} = {}
      BY <3>1, <3>2
    <3> QED
      BY <2>3, <3>3 DEF EntriesOf
  <2> QED
    BY <2>2, <2>3
<1> QED
  BY <1>1, <1>2, <1>3 DEF Gone

\* What was purged is not brought back: not by a commit, whose owner is gone, nor by a rebuild of another fence.
LEMMA PurgesStep ==
  ASSUME Assumptions, TypeOK, LocalOK, SeenOK, PurgesOK, [Next]_vars
  PROVE  PurgesOK'
<1>1. StoreStep
  BY EveryStoreStep
<1> SUFFICES ASSUME NEW r \in Requests, r.kind = "purge", Settled(r, "deleted")'
             PROVE  GoneAsBound(r)'
  BY DEF PurgesOK
<1>2. r.on \in Cases
  BY DEF Assumptions, RequestAssumption
<1>3. CASE receipts'[r] = receipts[r]
  <2>1. receipts[r].bound \in Bounds /\ Gone(r.on, receipts[r].bound.number)
    BY <1>3 DEF PurgesOK, GoneAsBound, Settled
  <2>2. PICK n : n = receipts[r].bound.number
    OBVIOUS
  <2>3. Gone(r.on, n)'
    BY <1>1, <1>2, <2>1, <2>2, StaysGone
  <2> QED
    BY <1>3, <2>1, <2>2, <2>3 DEF Gone, GoneAsBound
<1>4. ASSUME NEW p \in Processes, PurgeStep(p), receipts'[r] # receipts[r]
      PROVE  GoneAsBound(r)'
  <2>1. r = procs[p].req /\ receipts'[r].bound = procs[p].bound
    BY <1>4 DEF PurgeStep, EffectOfPurge, Receipt, TypeOK
  <2>2. PICK n : n = procs[p].bound.number
    OBVIOUS
  <2>3. Gone(r.on, n)' /\ procs[p].bound \in Bounds
    BY <1>2, <1>4, <2>1, <2>2, PurgeRemoves
  <2> QED
    BY <2>1, <2>2, <2>3 DEF Gone, GoneAsBound
<1>5. ASSUME NEW p \in Processes, receipts'[r] # receipts[r],
             \/ CommitStep(p) \/ RefusalStep(p) \/ RebuildStep(p) \/ FailureStep(p) \/ PolicyStep(p)
      PROVE  FALSE
  <2>1. \E o \in {"committed", "rejected", "rebuilt", "conflict", "failed", "changed"} : Settles(p, o)
    BY <1>5 DEF CommitStep, RefusalStep, RebuildStep, FailureStep, PolicyStep
  <2> QED
    BY <1>5, <2>1 DEF Settles, Receipt, Settled, TypeOK
<1> QED
  BY <1>1, <1>3, <1>4, <1>5 DEF StoreStep, store

\* A Case that was purged stays gone.
THEOREM PurgedStaysGone == Spec => []PurgedIsGone
<1>1. Init => TypeOK /\ LocalOK /\ SeenOK /\ PurgesOK
  BY Assumptions, TypeInit, SeenInit DEF Init, PurgesOK, Settled
<1>2. TypeOK /\ LocalOK /\ SeenOK /\ PurgesOK /\ [Next]_vars
        => TypeOK' /\ LocalOK' /\ SeenOK' /\ PurgesOK'
  BY Assumptions, TypeStep, SeenStep, PurgesStep
<1>3. PurgesOK => PurgedIsGone
  BY DEF PurgesOK, GoneAsBound, PurgedIsGone, Gone
<1> QED
  BY <1>1, <1>2, <1>3, PTL DEF Spec
\* The store holds what its receipts say: their fences, what was purged, and the projection.
THEOREM StoreStaysExact == Spec => []StoreIsExact
  BY FencesAreCounted, PurgedStaysGone, ProjectionStaysExact, PTL DEF StoreIsExact

-------------------------------------------------------------------------------
\* Lists

\* The current Cases that were committed at the fence key or later: those that a list has
\* come by once it has read down to it.
ReadDownTo(key) ==
  {<<c, cases[c].current>> : c \in {d \in Cases : /\ cases[d].current # 0 /\ key # 0
                                                  /\ key <= cases[d].updated}}

\* Current Cases were committed at fences of their own.
UpdatesOK ==
  /\ fence >= 1
  /\ \A c \in Cases : cases[c].current # 0 => cases[c].updated \in 1 .. fence
  /\ \A c, d \in Cases : c # d /\ cases[c].current # 0 /\ cases[d].current # 0
                         => cases[c].updated # cases[d].updated

\* What was there to be listed at the first page
Shown(first) == IF first.active THEN first.corpus ELSE {}

\* A list that goes on has read nothing before its first page, and then the newest of the
\* corpus it began with, as long as the fence is the one it read; a list that ended was given
\* all of it.
ListOK(q) ==
  /\ q.pc = "listed" => q.data.items = Shown(q.data.of)
  /\ q.pc \in {"paging", "listing"} =>
       /\ q.fence \in Nat /\ q.fence <= fence /\ q.tries \in Nat
       /\ q.fence = 0 => q.data.items = {} /\ q.tries = 0
       /\ q.fence # 0 /\ q.fence = fence =>
            /\ Active(1) /\ q.data.of = [corpus |-> Corpus, active |-> TRUE]
            /\ q.data.items = ReadDownTo(q.tries)

ListsOK == \A p \in Processes : ListOK(procs[p])

\* A set of naturals has a least element.
LEMMA Least ==
  ASSUME NEW T \in SUBSET Nat, T # {}
  PROVE  \E x \in T : \A y \in T : x <= y
<1> DEFINE R == OpToRel(<, Nat)
<1>1. IsWellFoundedOn(R, Nat)
  BY NatLessThanWellFounded
<1>2. \A x, y \in Nat : x < y => <<x, y>> \in R
  BY DEF OpToRel
<1> HIDE DEF R
<1>3. PICK x \in T : \A y \in T : ~ (<<y, x>> \in R)
  BY <1>1, WFMin
<1>4. \A y \in T : ~ (y < x)
  BY <1>2, <1>3
<1> QED
  BY <1>4

\* Of the Cases that are left to read there are finitely many, and if any the newest.
LEMMA NewestIsThere ==
  ASSUME TypeOK, UpdatesOK, NEW key \in Nat
  PROVE  /\ IsFiniteSet(After(key))
         /\ After(key) # {} => \E c \in After(key) : \A d \in After(key) : cases[d].updated <= cases[c].updated
<1> DEFINE rest == After(key)
<1>1. rest \subseteq Cases /\ \A c \in rest : cases[c].updated \in 1 .. fence
  BY DEF After, UpdatesOK
<1>2. fence \in Nat
  BY DEF TypeOK
<1>3. IsFiniteSet(rest)
  <2> DEFINE f == [c \in rest |-> cases[c].updated]
  <2>1. f \in Injection(rest, 1 .. fence)
    <3>1. \A c, d \in rest : c # d => cases[c].updated # cases[d].updated
      BY DEF After, UpdatesOK
    <3> HIDE DEF rest
    <3>2. f \in [rest -> 1 .. fence]
      BY <1>1
    <3>3. \A c, d \in rest : f[c] = f[d] => c = d
      BY <3>1
    <3> QED
      BY <3>2, <3>3, Fun_IsInj
  <2>2. IsFiniteSet(1 .. fence)
    BY <1>2, FS_Interval
  <2> QED
    BY <2>1, <2>2, FS_Injection
<1>4. ASSUME rest # {}
      PROVE  \E c \in rest : \A d \in rest : cases[d].updated <= cases[c].updated
  <2> DEFINE T == {fence - cases[c].updated : c \in rest}
  <2> HIDE DEF rest
  <2>1. T \in SUBSET Nat /\ T # {}
    BY <1>1, <1>2, <1>4
  <2>2. PICK x \in T : \A y \in T : x <= y
    BY <2>1, Least
  <2>3. PICK c \in rest : x = fence - cases[c].updated
    BY <2>2
  <2>4. \A d \in rest : fence - cases[c].updated <= fence - cases[d].updated
    BY <2>2, <2>3
  <2>5. \A d \in rest : cases[d].updated <= cases[c].updated
    BY <1>1, <1>2, <2>4
  <2> QED
    BY <2>5
<1> QED
  BY <1>3, <1>4

\* A page goes on where the last one ended, and the last one leaves nothing to read.
LEMMA PageReads ==
  ASSUME TypeOK, UpdatesOK, NEW p \in Processes, NEW key \in Nat, key = procs[p].tries, Active(1),
         procs[p].data.items = ReadDownTo(key),
         FirstPage(p) \/ procs[p].data.of = [corpus |-> Corpus, active |-> TRUE],
         TakePage(p), UNCHANGED store
  PROVE  ListOK(procs[p])'
<1> DEFINE rest == After(key)
           next == CHOOSE c \in rest : \A d \in rest : cases[d].updated <= cases[c].updated
           read == IF rest = {} THEN ReadDownTo(key) ELSE ReadDownTo(key) \cup {<<next, cases[next].current>>}
           pc   == IF Cardinality(rest) > 1 THEN "listing" ELSE "listed"
           at   == IF rest = {} THEN 0 ELSE cases[next].updated
           of   == [corpus |-> Corpus, active |-> TRUE]
           row  == [Idle EXCEPT !.pc = pc, !.fence = fence, !.tries = at, !.data = [items |-> read, of |-> of]]
<1>1. procs'[p] = row
  <2>1. (IF FirstPage(p) THEN [corpus |-> Corpus, active |-> Active(1)] ELSE procs[p].data.of) = of
    <3>1. Active(1) = TRUE
      BY DEF Active
    <3> QED
      BY <3>1
  <2> DEFINE given == IF FirstPage(p) THEN [corpus |-> Corpus, active |-> Active(1)] ELSE procs[p].data.of
             taken == [Idle EXCEPT !.pc = pc, !.fence = fence, !.tries = at, !.data = [items |-> read, of |-> given]]
  <2>2. procs' = [procs EXCEPT ![p] = taken]
    BY DEF TakePage
  <2>3. procs'[p] = taken
    <3> HIDE DEF taken
    <3> QED
      BY <2>2 DEF TypeOK
  <2>4. given = of
    BY <2>1
  <2> HIDE DEF given, of, read, pc, at
  <2> QED
    BY <2>3, <2>4
<1>2. /\ row.pc = pc /\ row.fence = fence /\ row.tries = at /\ row.data.items = read /\ row.data.of = of
      /\ Shown(of) = Corpus
  <2> HIDE DEF pc, at, read
  <2> QED
    BY DEF Idle, Shown
<1>3. /\ fence' = fence /\ Corpus' = Corpus /\ (\A k : ReadDownTo(k)' = ReadDownTo(k)) /\ Active(1)'
      /\ \A x : Shown(x)' = Shown(x)
  BY DEF store, Corpus, ReadDownTo, Active, Shown
<1>4. fence \in Nat /\ fence # 0 /\ \A c \in Cases : cases[c].updated \in Nat
  BY DEF TypeOK, CaseRows, UpdatesOK
<1>5. rest \subseteq Cases /\ IsFiniteSet(rest)
  BY NewestIsThere DEF After
<1>6. CASE rest = {}
  <2>1. pc = "listed"
    BY <1>6, FS_EmptySet
  <2>2. Corpus = ReadDownTo(key)
    BY <1>4, <1>6 DEF Corpus, ReadDownTo, After, UpdatesOK
  <2> HIDE DEF rest, row, pc, at
  <2> QED
    BY <1>1, <1>2, <1>6, <2>1, <2>2 DEF ListOK
<1>7. CASE rest # {}
  <2>1. next \in rest /\ \A d \in rest : cases[d].updated <= cases[next].updated
    BY <1>7, NewestIsThere
  <2>2. next \in Cases /\ cases[next].current # 0 /\ (key = 0 \/ cases[next].updated < key)
        /\ cases[next].updated \in 1 .. fence /\ at = cases[next].updated
    BY <1>7, <2>1 DEF After, UpdatesOK
  <2>r. \A d \in Cases : d \in rest <=> cases[d].current # 0 /\ (key = 0 \/ cases[d].updated < key)
    BY DEF After
  <2> HIDE DEF rest, next
  <2>3. ReadDownTo(at) = read
    <3>1. \A d \in Cases : /\ cases[d].current # 0 /\ at # 0 /\ at <= cases[d].updated
                           <=> \/ cases[d].current # 0 /\ key # 0 /\ key <= cases[d].updated
                               \/ d = next
      <4> SUFFICES ASSUME NEW d \in Cases, cases[d].current # 0
                   PROVE  at <= cases[d].updated <=> (key # 0 /\ key <= cases[d].updated) \/ d = next
        BY <2>2
      <4>1. d # next => cases[d].updated # cases[next].updated
        BY <2>2 DEF UpdatesOK
      <4>2. d \in rest => cases[d].updated <= cases[next].updated
        BY <2>1
      <4> QED
        BY <1>4, <2>2, <2>r, <4>1, <4>2
    <3> HIDE DEF at
    <3>2. ReadDownTo(at) = ReadDownTo(key) \cup {<<next, cases[next].current>>}
      BY <2>2, <3>1 DEF ReadDownTo
    <3> QED
      BY <1>7, <3>2
  <2>4. CASE pc = "listing"
    <3> HIDE DEF row, pc, at, read
    <3> QED
      BY <1>1, <1>2, <1>3, <1>4, <2>2, <2>3, <2>4 DEF ListOK
  <2>5. CASE pc = "listed"
    <3>1. Cardinality(rest) = 1
      BY <1>5, <1>7, <2>5, FS_EmptySet, FS_CardinalityType
    <3>2. rest = {next}
      BY <1>5, <2>1, <3>1, FS_Singleton
    <3>3. Corpus = ReadDownTo(at)
      <4>1. \A d \in Cases : cases[d].current # 0 => at # 0 /\ at <= cases[d].updated
        BY <1>4, <2>2, <2>r, <3>2
      <4> HIDE DEF at
      <4> QED
        BY <4>1 DEF Corpus, ReadDownTo
    <3> HIDE DEF row, pc, at, read
    <3> QED
      BY <1>1, <1>2, <2>3, <2>5, <3>3 DEF ListOK
  <2> QED
    BY <2>4, <2>5
<1> QED
  BY <1>6, <1>7

\* Nothing is visible once the view is not active: the list ends empty.
LEMMA EmptyPage ==
  ASSUME TypeOK, NEW p \in Processes, FirstPage(p), procs[p].data.items = {}, ~Active(1), TakePage(p)
  PROVE  ListOK(procs[p])'
<1> DEFINE of  == [corpus |-> Corpus, active |-> Active(1)]
           row == [Idle EXCEPT !.pc = "listed", !.fence = fence, !.tries = 0, !.data = [items |-> {}, of |-> of]]
<1>1. After(procs[p].tries) = {} /\ ~(Cardinality({}) > 1)
  BY FS_EmptySet DEF After
<1>2. procs'[p] = row
  BY <1>1 DEF TakePage, TypeOK
<1>3. row.pc = "listed" /\ row.data.items = {} /\ Shown(row.data.of) = {}
  BY DEF Idle, Shown
<1> HIDE DEF row
<1> QED
  BY <1>2, <1>3 DEF ListOK, Shown

\* A process takes the page that it has asked for, of a store at its fence; or asks for one.
TakesPage(p) ==
  /\ UNCHANGED store
  /\ procs[p].pc = "paging" /\ (FirstPage(p) \/ fence = procs[p].fence)
  /\ TakePage(p)

AsksForPage(p) ==
  /\ UNCHANGED store
  /\ \/ procs'[p] = [Idle EXCEPT !.pc = "paging", !.data = [items |-> {}, of |-> None]]
     \/ procs[p].pc = "listing" /\ procs'[p] = [procs[p] EXCEPT !.pc = "paging"]

\* Nothing but reading a page gives a process a list.
LEMMA ListsByPages ==
  ASSUME TypeOK, LocalOK, [Next]_vars, NEW p \in Processes, procs'[p].pc \in Listings
  PROVE  procs'[p] = procs[p] \/ TakesPage(p) \/ AsksForPage(p)
<1> USE DEF Listings
<1>1. CASE UNCHANGED procs
  BY <1>1
<1>2. CASE \E r \in offered : Plan(r)
  BY <1>1, <1>2 DEF Plan
<1>3. ASSUME NEW q \in Processes, NEW r \in offered, Invoke(q, r)
      PROVE  procs'[p] = procs[p]
  BY <1>3 DEF Invoke, Idle, TypeOK
<1>4. ASSUME NEW q \in Processes, Steps(q)
      PROVE  procs'[p] = procs[p] \/ TakesPage(p) \/ AsksForPage(p)
  <2>1. CASE q # p
    <3>1. \E row : procs' = [procs EXCEPT ![q] = row]
      BY <1>4, ZenonT(60) DEF Steps, ObserveCommit, RecheckCommit, SettleCommit, ObservePurge, RecheckPurge,
       ObserveRebuild, RecheckRebuild, PrepareFailure, SettleRebuild, ObservePolicy, RecheckPolicy,
       Transact, RollBack, Kill, List, ReadPage, TakePage, NextPage, Listed, Goto, Return
    <3> QED
      BY <2>1, <3>1
  <2>2. CASE q = p
    <3> DEFINE old == procs[p]
    <3>d. DOMAIN old = Fields
      BY DEF TypeOK, ProcessOK
    <3>1. CASE List(p) \/ NextPage(p)
      BY <3>1 DEF List, NextPage, AsksForPage, Goto, Return, Idle, TypeOK
    <3>10. CASE ReadPage(p)
      BY <3>10 DEF ReadPage, TakesPage, Return, Idle, TypeOK
    <3>2. ASSUME NEW to \in {"transact", "failed", "settle", "settling"}, procs'[p].pc = to
          PROVE  FALSE
      BY <3>2
    <3>3. CASE Return(p) \/ Kill(p) \/ Listed(p)
      BY <3>3 DEF Return, Kill, Listed, Idle, TypeOK
    <3>4. ASSUME NEW to \in {"transact", "failed", "settle", "settling"}, Goto(p, to)
          PROVE  FALSE
      BY <3>2, <3>4, <3>d DEF Goto, TypeOK, Fields
    <3>5. CASE ObserveCommit(p) \/ RecheckCommit(p) \/ SettleCommit(p)
      BY <3>3, <3>4, <3>5 DEF ObserveCommit, RecheckCommit, SettleCommit
    <3>6. CASE ObservePurge(p) \/ RecheckPurge(p) \/ ObservePolicy(p) \/ RecheckPolicy(p)
      BY <3>2, <3>3, <3>6, <3>d DEF ObservePurge, RecheckPurge, ObservePolicy, RecheckPolicy, TypeOK, Fields
    <3>7. CASE ObserveRebuild(p) \/ RecheckRebuild(p) \/ PrepareFailure(p)
      BY <3>2, <3>3, <3>7, <3>d DEF ObserveRebuild, RecheckRebuild, PrepareFailure, TypeOK, Fields
    <3>8. CASE SettleRebuild(p)
      BY <3>2, <3>3, <3>8, <3>d DEF SettleRebuild, TypeOK, Fields
    <3>9. CASE Transact(p) \/ RollBack(p)
      BY <3>3, <3>4, <3>9 DEF Transact, RollBack
    <3> QED
      BY <1>4, <2>2, <3>1, <3>3, <3>5, <3>6, <3>7, <3>8, <3>9, <3>10 DEF Steps
  <2> QED
    BY <2>1, <2>2
<1> QED
  BY <1>1, <1>2, <1>3, <1>4 DEF Next, vars

\* Every commit has a fence of its own.
LEMMA UpdatesStep ==
  ASSUME Assumptions, TypeOK, LocalOK, UpdatesOK, [Next]_vars
  PROVE  UpdatesOK'
<1>1. fence \in Nat
  BY DEF TypeOK
<1>2. CASE UNCHANGED cases /\ fence' \in {fence, fence + 1}
  BY <1>1, <1>2 DEF UpdatesOK
<1>3. ASSUME NEW p \in Processes, CommitStep(p) PROVE UpdatesOK'
  <2> DEFINE r == procs[p].req
             row == [made |-> r.expected + 1, current |-> r.expected + 1, state |-> r.state,
                     alias |-> r.alias, payload |-> cases[r.on].payload \cup {r.expected + 1},
                     updated |-> fence + 1]
  <2>1. r.on \in Cases /\ fence' = fence + 1
    BY <1>3 DEF CommitStep, Settles, LocalOK, RequestOK, Assumptions, RequestAssumption
  <2>2. cases' = [cases EXCEPT ![r.on] = row]
    BY <1>3, <2>1 DEF CommitStep, EffectOfCommit, TypeOK
  <2>3. row.updated = fence + 1
    OBVIOUS
  <2> HIDE DEF row
  <2> QED
    BY <1>1, <2>1, <2>2, <2>3 DEF UpdatesOK, TypeOK
<1>4. ASSUME NEW p \in Processes, PurgeStep(p) PROVE UpdatesOK'
  <2> DEFINE r == procs[p].req
  <2>1. fence' = fence + 1 /\ r.on \in Cases
    BY <1>4 DEF PurgeStep, Settles, Assumptions, RequestAssumption
  <2>2. cases'[r.on].current = 0 /\ \A c \in Cases \ {r.on} : cases'[c] = cases[c]
    <3> DEFINE row == [cases[r.on] EXCEPT !.current = 0, !.state = "none", !.alias = None, !.payload = {},
                                          !.updated = 0]
    <3>1. cases' = [cases EXCEPT ![r.on] = row]
      BY <1>4, <2>1 DEF PurgeStep, EffectOfPurge, TypeOK, CaseRows
    <3>2. row.current = 0
      BY <2>1 DEF TypeOK, CaseRows
    <3> HIDE DEF row
    <3> QED
      BY <2>1, <3>1, <3>2 DEF TypeOK
  <2> QED
    BY <1>1, <2>1, <2>2 DEF UpdatesOK
<1>5. ASSUME NEW p \in Processes, RefusalStep(p) \/ RebuildStep(p) \/ FailureStep(p) \/ PolicyStep(p)
      PROVE  UpdatesOK'
  BY <1>2, <1>5 DEF RefusalStep, RebuildStep, EffectOfRebuild, FailureStep, PolicyStep, EffectOfPolicy, Settles
<1> QED
  BY <1>2, <1>3, <1>4, <1>5, EveryStoreStep DEF StoreStep, store

\* A list keeps to the corpus it began with, or finds the fence moved.
LEMMA ListsStep ==
  ASSUME TypeOK, LocalOK, UpdatesOK, ListsOK, [Next]_vars
  PROVE  ListsOK'
<1> SUFFICES ASSUME NEW p \in Processes, procs'[p].pc \in Listings PROVE ListOK(procs[p])'
  BY DEF ListsOK, ListOK, Listings
<1>1. CASE procs'[p] = procs[p]
  <2>1. ListOK(procs[p]) /\ fence \in Nat
    BY DEF ListsOK, TypeOK
  <2>2. CASE UNCHANGED store
    <3>1. Active(1)' = Active(1) /\ Corpus' = Corpus /\ (\A k : ReadDownTo(k)' = ReadDownTo(k)) /\ fence' = fence
      BY <2>2 DEF store, Active, Corpus, ReadDownTo
    <3> QED
      BY <1>1, <2>1, <3>1 DEF ListOK, Shown
  <2>3. CASE fence' = fence + 1
    BY <1>1, <2>1, <2>3 DEF ListOK, Shown
  <2> QED
    BY <2>2, <2>3, EveryStoreStep DEF StoreStep, CommitStep, RefusalStep, PurgeStep, RebuildStep,
       FailureStep, PolicyStep, Settles
<1>2. CASE TakesPage(p)
  <2>1. ListOK(procs[p])
    BY DEF ListsOK
  <2>2. CASE FirstPage(p)
    <3>1. procs[p].data.items = {} /\ procs[p].tries = 0
      BY <1>2, <2>1, <2>2 DEF TakesPage, FirstPage, ListOK
    <3>2. ReadDownTo(0) = {}
      BY DEF ReadDownTo
    <3>3. TakePage(p) /\ UNCHANGED store
      BY <1>2 DEF TakesPage
    <3>4. CASE Active(1)
      <4>1. 0 \in Nat /\ 0 = procs[p].tries /\ procs[p].data.items = ReadDownTo(0)
        BY <3>1, <3>2
      <4> QED
        BY <2>2, <3>3, <3>4, <4>1, PageReads, Zenon
    <3>5. CASE ~Active(1)
      BY <2>2, <3>1, <3>3, <3>5, EmptyPage, Zenon
    <3> QED
      BY <3>4, <3>5
  <2>3. CASE ~FirstPage(p)
    <3> DEFINE key == procs[p].tries
    <3>1. /\ key \in Nat /\ key = procs[p].tries /\ Active(1)
          /\ procs[p].data.items = ReadDownTo(key)
          /\ procs[p].data.of = [corpus |-> Corpus, active |-> TRUE]
      BY <1>2, <2>1, <2>3 DEF TakesPage, FirstPage, ListOK
    <3>2. TakePage(p) /\ UNCHANGED store
      BY <1>2 DEF TakesPage
    <3> HIDE DEF key
    <3> QED
      BY <3>1, <3>2, PageReads, Zenon
  <2> QED
    BY <2>2, <2>3
<1>3. CASE AsksForPage(p)
  <2>1. CASE procs'[p] = [Idle EXCEPT !.pc = "paging", !.data = [items |-> {}, of |-> None]]
    <3> DEFINE row == [Idle EXCEPT !.pc = "paging", !.data = [items |-> {}, of |-> None]]
    <3>1. row.pc = "paging" /\ row.fence = 0 /\ row.tries = 0 /\ row.data.items = {}
      BY DEF Idle
    <3>2. fence' = fence /\ fence \in Nat
      BY <1>3 DEF AsksForPage, store, TypeOK
    <3> HIDE DEF row
    <3>3. procs'[p] = row
      BY <2>1 DEF row
    <3> QED
      BY <3>1, <3>2, <3>3 DEF ListOK
  <2>2. CASE procs[p].pc = "listing" /\ procs'[p] = [procs[p] EXCEPT !.pc = "paging"]
    <3>1. ListOK(procs[p]) /\ DOMAIN procs[p] = Fields
      BY DEF ListsOK, TypeOK, ProcessOK
    <3>2. /\ procs'[p].pc = "paging" /\ procs'[p].fence = procs[p].fence
          /\ procs'[p].tries = procs[p].tries /\ procs'[p].data = procs[p].data
      BY <2>2, <3>1 DEF Fields
    <3>3. fence' = fence /\ Corpus' = Corpus /\ (\A k : ReadDownTo(k)' = ReadDownTo(k)) /\ Active(1)' = Active(1)
      BY <1>3 DEF AsksForPage, store, Corpus, ReadDownTo, Active
    <3> QED
      BY <2>2, <3>1, <3>2, <3>3 DEF ListOK
  <2> QED
    BY <1>3, <2>1, <2>2 DEF AsksForPage
<1> QED
  BY <1>1, <1>2, <1>3, ListsByPages

\* A list that ends is the corpus of the fence of its first page, whatever is committed or purged
\* between its pages and between the two queries of each: the fence of the first page finds every
\* change out.  Only of the first page no fence is expected: if the view is retired or superseded
\* between its two queries, the list is empty.
THEOREM ListsAreSnapshots == Spec => []ListIsASnapshot
<1>1. Init => TypeOK /\ LocalOK /\ UpdatesOK /\ ListsOK
  BY Assumptions, TypeInit DEF Init, UpdatesOK, ListsOK, ListOK, Idle
<1>2. TypeOK /\ LocalOK /\ UpdatesOK /\ ListsOK /\ [Next]_vars
        => TypeOK' /\ LocalOK' /\ UpdatesOK' /\ ListsOK'
  BY Assumptions, TypeStep, UpdatesStep, ListsStep
<1>3. ListsOK => ListIsASnapshot
  BY DEF ListsOK, ListOK, Shown, ListIsASnapshot
<1> QED
  BY <1>1, <1>2, <1>3, PTL DEF Spec

-------------------------------------------------------------------------------
\* Frames: what an operation builds

IsContent(c) == c = [x \in DOMAIN c |-> c[x]]

\* The content that a request stands for, and the versions that it starts from
ContentOf(r) == IF r.edit.action = "complete" THEN r.edit.content ELSE F!Edited(r.frame, r.base, r.edit)

Base(r) == IF r.base = 0 THEN F!Nothing ELSE revisions[r.frame][r.base].selection

Built(r) == F!Envelope(r, ContentOf(r), Base(r), {})

IsRequest(r) ==
  /\ r.op \in Ops /\ r.frame \in Frames /\ r.base \in Nat
  /\ r.base = 0 => r.edit.action = "complete"
  /\ r.edit.action = "complete" => IsContent(r.edit.content)
  /\ r.base <= F!Latest(r.frame)

\* An envelope selects for each family a version that has its content, or allocates one.
EnvelopeOK(e) ==
  /\ IsRequest(e.req) /\ IsContent(e.content)
  /\ DOMAIN e.selection = DOMAIN e.content /\ e.fresh \subseteq DOMAIN e.content
  /\ \A x \in DOMAIN e.content :
       IF x \in e.fresh THEN e.selection[x] = <<e.req.op, x>>
       ELSE e.selection[x] \in DOMAIN versions /\ versions[e.selection[x]] = e.content[x]

\* What was stored stays, and what is stored next is of the revision that is current.
FramesStay ==
  /\ \A v \in DOMAIN versions : v \in DOMAIN versions' /\ versions'[v] = versions[v]
  /\ \A f \in Frames : /\ Len(revisions'[f]) \in Nat /\ Len(revisions'[f]) >= Len(revisions[f])
                       /\ \A n \in 1 .. Len(revisions[f]) : revisions'[f][n] = revisions[f][n]
  /\ \A o \in Ops : IF frameReceipts[o] = F!NoReceipt
       THEN frameReceipts'[o] # F!NoReceipt =>
              frameReceipts'[o].observed = Len(revisions[frameReceipts'[o].envelope.req.frame])
       ELSE frameReceipts'[o] = frameReceipts[o]
  /\ \A k \in FrameCases : \A n \in DOMAIN caseRevisions[k] :
       n \in DOMAIN caseRevisions'[k] /\ caseRevisions'[k][n] = caseRevisions[k][n]

\* An edit of a content is a content.
LEMMA EditsAreContents ==
  ASSUME NEW c, IsContent(c), NEW e, NEW version
  PROVE  /\ F!EditItem(c, e, version) = None \/ IsContent(F!EditItem(c, e, version))
         /\ F!EditDisposition(c, e) = None \/ IsContent(F!EditDisposition(c, e))
         /\ F!Create(c, e) = None \/ IsContent(F!Create(c, e))
<1>1. ASSUME NEW g, NEW x, NEW v PROVE IsContent([g EXCEPT ![x] = v]) /\ IsContent(F!Put(g, x, v))
  BY DEF IsContent, F!Put
<1>2. F!EditItem(c, e, version) = None \/ IsContent(F!EditItem(c, e, version))
  BY <1>1 DEF F!EditItem
<1>3. F!EditDisposition(c, e) = None \/ IsContent(F!EditDisposition(c, e))
  BY <1>1 DEF F!EditDisposition
<1>4. F!Create(c, e) = None \/ IsContent(F!Create(c, e))
  BY <1>1 DEF F!Create
<1> QED
  BY <1>2, <1>3, <1>4

\* Every edit of a revision is one of what the revision holds.
LEMMA EditedIsContent ==
  ASSUME NEW f, NEW n, NEW e
  PROVE  F!Edited(f, n, e) = None \/ IsContent(F!Edited(f, n, e))
<1> DEFINE c == F!Hydrated(f, n)
<1>1. IsContent(c)
  BY DEF IsContent, F!Hydrated
<1>2. ASSUME NEW g, NEW x, NEW v PROVE IsContent([g EXCEPT ![x] = v])
  BY DEF IsContent
<1> HIDE DEF c
<1>3. /\ IsContent([c EXCEPT ![Profile].text = e.text, ![Profile].status = e.status])
      /\ IsContent([c EXCEPT ![e.id].closure = "closed"])
  BY <1>2
<1> DEFINE x == F!Edited(f, n, e)
           y1 == [c EXCEPT ![Profile].text = e.text, ![Profile].status = e.status]
           y2 == [c EXCEPT ![e.id].closure = "closed"]
           y3 == F!EditItem(c, e, F!VersionOf(f, n, e.id))
<1>4. x = y1 \/ x = y2 \/ x = y3 \/ x = F!Create(c, e) \/ x = F!EditDisposition(c, e) \/ x = None
  BY DEF F!Edited, c
<1>5. /\ F!EditItem(c, e, F!VersionOf(f, n, e.id)) = None \/ IsContent(F!EditItem(c, e, F!VersionOf(f, n, e.id)))
      /\ F!EditDisposition(c, e) = None \/ IsContent(F!EditDisposition(c, e))
      /\ F!Create(c, e) = None \/ IsContent(F!Create(c, e))
  <2> DEFINE version == F!VersionOf(f, n, e.id)
  <2> HIDE DEF version
  <2>1. /\ F!EditItem(c, e, version) = None \/ IsContent(F!EditItem(c, e, version))
        /\ F!EditDisposition(c, e) = None \/ IsContent(F!EditDisposition(c, e))
        /\ F!Create(c, e) = None \/ IsContent(F!Create(c, e))
    BY <1>1, EditsAreContents
  <2> QED
    BY <2>1 DEF version
<1>6. (IsContent(y1) /\ IsContent(y2)) /\ (y3 = None \/ IsContent(y3))
  BY <1>3, <1>5
<1> HIDE DEF x, y1, y2, y3
<1>7. x = None \/ IsContent(x)
  BY <1>4, <1>5, <1>6
<1> QED
  BY <1>7 DEF x

\* What a request stands for, and starts from, stays.
LEMMA BuiltStays ==
  ASSUME NEW r, IsRequest(r), FramesStay,
         r.base # 0 => \A x \in DOMAIN revisions[r.frame][r.base].selection :
           revisions[r.frame][r.base].selection[x] \in DOMAIN versions
  PROVE  IsRequest(r)' /\ Base(r)' = Base(r) /\ ContentOf(r)' = ContentOf(r) /\ Built(r)' = Built(r)
<1>1. IsRequest(r)' /\ (r.base # 0 => revisions'[r.frame][r.base] = revisions[r.frame][r.base])
  BY DEF IsRequest, FramesStay, F!Latest
<1>2. Base(r)' = Base(r)
  BY <1>1 DEF Base
<1>3. ASSUME r.base # 0
      PROVE  F!Hydrated(r.frame, r.base)' = F!Hydrated(r.frame, r.base)
             /\ \A x : F!VersionOf(r.frame, r.base, x)' = F!VersionOf(r.frame, r.base, x)
  BY <1>1, <1>3 DEF F!Hydrated, F!VersionOf, FramesStay
<1>4. ContentOf(r)' = ContentOf(r)
  <2>1. CASE r.edit.action = "complete"
    BY <2>1 DEF ContentOf
  <2>2. CASE r.edit.action # "complete"
    <3>1. r.base # 0
      BY <2>2 DEF IsRequest
    <3>2. F!Edited(r.frame, r.base, r.edit)' = F!Edited(r.frame, r.base, r.edit)
      BY <1>3, <3>1 DEF F!Edited
    <3> QED
      BY <2>2, <3>2 DEF ContentOf
  <2> QED
    BY <2>1, <2>2
<1>5. \A x \in DOMAIN Base(r) : Base(r)[x] \in DOMAIN versions
  BY DEF Base, F!Nothing
<1>6. F!Fresh(ContentOf(r), Base(r), {})' = F!Fresh(ContentOf(r), Base(r), {})
  BY <1>2, <1>4, <1>5 DEF F!Fresh, FramesStay
<1> QED
  BY <1>1, <1>2, <1>4, <1>6 DEF Built, F!Envelope
-------------------------------------------------------------------------------
\* Frames: what is stored, and what an attempt knows

FrameTypes ==
  /\ DOMAIN revisions = Frames /\ \A f \in Frames : \E S : revisions[f] \in Seq(S)
  /\ DOMAIN caseRevisions = FrameCases /\ \A k \in FrameCases : \E S : caseRevisions[k] \in Seq(S)
  /\ DOMAIN frameReceipts = Ops /\ DOMAIN caseReceipts = CaseOps
  /\ DOMAIN call = Attempts
  /\ \A a \in Attempts : DOMAIN call[a] = {"pc", "req", "content", "envelope", "reply", "shown"}

\* A version is named by an operation that was committed.
VersionsOK ==
  \A v \in DOMAIN versions :
    v[1] = InitOp \/ (v[1] \in Ops /\ frameReceipts[v[1]].outcome = "committed")

RevisionOK(f, n) ==
  LET r == revisions[f][n] IN
  /\ \A x \in DOMAIN r.selection : r.selection[x] \in DOMAIN versions
  /\ r.op # InitOp => /\ r.op \in Ops /\ frameReceipts[r.op].outcome = "committed"
                      /\ r.selection = frameReceipts[r.op].envelope.selection

\* What was committed is what its request stands for, and can be built again.
FrameReceiptOK(o) ==
  LET w == frameReceipts[o]  e == w.envelope IN
  w # F!NoReceipt =>
    /\ w.outcome \in {"committed", "rejected"}
    /\ EnvelopeOK(e) /\ w.observed \in Nat /\ w.observed <= F!Latest(e.req.frame)
    /\ w.outcome = "committed" =>
         /\ e = Built(e.req) /\ e.req.op = o
         /\ \A x \in DOMAIN e.content :
              /\ e.selection[x] \in DOMAIN versions /\ versions[e.selection[x]] = e.content[x]
              /\ x \notin e.fresh => e.selection[x][1] # o

\* A disposition names a commit of its Case.
Founded(d) ==
  d.case \in FrameCases /\ \E m \in d.revs : m \in DOMAIN caseRevisions[d.case] /\ caseRevisions[d.case][m] = d.op

Working == {"receipt", "current", "evidence", "commit"}

\* As long as the revision that an attempt is based on is current, and its operation is not
\* settled, what it has built is what would be built now.
KnowsOK(q) ==
  LET r == q.req  w == frameReceipts[r.op] IN
  /\ q.pc \in {"load", "done"} \cup Working
  /\ q.pc # "load" => IsRequest(r)
  /\ q.pc \in Working => /\ IsContent(q.content) /\ q.content = ContentOf(r) /\ F!WellFormed(q.content)
                         /\ r.base = 0 => F!CanBegin(q.content)
  /\ q.pc = "current" => r.base # 0
  /\ q.pc \in {"evidence", "commit"} =>
       /\ EnvelopeOK(q.envelope) /\ q.envelope.req = r /\ q.envelope.content = q.content
       /\ w = F!NoReceipt /\ F!Latest(r.frame) = r.base =>
            q.envelope = Built(r) /\ (r.base # 0 => F!Follows(r.frame, r.base, q.content))
  /\ q.pc = "commit" =>
       \A d \in F!Of(Dispositions, q.content) : q.content[d].state = "settled" => Founded(q.content[d])
  /\ q.reply = "revision_conflict" =>
       /\ q.pc = "done"
       /\ IF w = F!NoReceipt THEN F!Latest(r.frame) > r.base
          ELSE w.envelope.req.frame = r.frame => w.observed # r.base
  /\ q.shown # 0 => q.pc = "done" /\ q.shown # r.base

AttemptOK(a) == KnowsOK(call[a])

FramesInv ==
  /\ FrameTypes /\ VersionsOK
  /\ \A f \in Frames : \A n \in 1 .. Len(revisions[f]) : RevisionOK(f, n)
  /\ \A o \in Ops : FrameReceiptOK(o)
  /\ \A a \in Attempts : AttemptOK(a)

\* One more element
LEMMA AppendsAny ==
  ASSUME NEW s, \E S : s \in Seq(S), NEW e
  PROVE  /\ \E S : Append(s, e) \in Seq(S)
         /\ Len(s) \in Nat /\ Len(Append(s, e)) = Len(s) + 1 /\ Append(s, e)[Len(s) + 1] = e
         /\ \A n \in 1 .. Len(s) : Append(s, e)[n] = s[n]
         /\ DOMAIN s = 1 .. Len(s) /\ DOMAIN Append(s, e) = 1 .. (Len(s) + 1)
<1> PICK S : s \in Seq(S)
  OBVIOUS
<1>1. s \in Seq(S \cup {e})
  <2>1. Len(s) \in Nat /\ s \in [1 .. Len(s) -> S]
    OBVIOUS
  <2>2. s \in [1 .. Len(s) -> S \cup {e}]
    BY <2>1
  <2> QED
    BY <2>1, <2>2
<1>2. Append(s, e) \in Seq(S \cup {e})
  BY <1>1
<1> QED
  BY <1>1, <1>2

\* What holds of what is stored goes on holding of it.
LEMMA EnvelopeStays ==
  ASSUME FramesInv, FramesStay, NEW e, EnvelopeOK(e)
  PROVE  EnvelopeOK(e)' /\ Built(e.req)' = Built(e.req) /\ ContentOf(e.req)' = ContentOf(e.req)
<1>1. e.req.base # 0 => \A x \in DOMAIN revisions[e.req.frame][e.req.base].selection :
        revisions[e.req.frame][e.req.base].selection[x] \in DOMAIN versions
  BY DEF FramesInv, EnvelopeOK, IsRequest, RevisionOK, F!Latest
<1>2. IsRequest(e.req)' /\ Built(e.req)' = Built(e.req) /\ ContentOf(e.req)' = ContentOf(e.req)
  BY <1>1, BuiltStays DEF EnvelopeOK
<1> QED
  BY <1>2 DEF EnvelopeOK, FramesStay

\* A revision that is stored keeps what it says of its receipt.
LEMMA RevisionStays ==
  ASSUME FramesInv, FramesStay, NEW f \in Frames, NEW n \in 1 .. Len(revisions[f])
  PROVE  RevisionOK(f, n)'
<1>1. RevisionOK(f, n) /\ revisions'[f][n] = revisions[f][n]
  BY DEF FramesInv, FramesStay
<1>2. revisions[f][n].op \in Ops /\ frameReceipts[revisions[f][n].op].outcome = "committed" =>
        frameReceipts'[revisions[f][n].op] = frameReceipts[revisions[f][n].op]
  BY DEF FramesStay, F!NoReceipt
<1> QED
  BY <1>1, <1>2 DEF RevisionOK, FramesStay

\* A receipt that is stored can be built again.
LEMMA ReceiptStays ==
  ASSUME FramesInv, FramesStay, NEW o \in Ops, frameReceipts[o] # F!NoReceipt
  PROVE  FrameReceiptOK(o)'
<1> DEFINE e == frameReceipts[o].envelope
<1>1. FrameReceiptOK(o) /\ frameReceipts'[o] = frameReceipts[o] /\ EnvelopeOK(e)
  BY DEF FramesInv, FramesStay, FrameReceiptOK
<1>2. EnvelopeOK(e)' /\ Built(e.req)' = Built(e.req)
  BY <1>1, EnvelopeStays
<1>3. F!Latest(e.req.frame)' \in Nat /\ F!Latest(e.req.frame)' >= F!Latest(e.req.frame)
      /\ F!Latest(e.req.frame) \in Nat
  BY <1>1 DEF EnvelopeOK, IsRequest, FramesStay, F!Latest, FramesInv, FrameTypes
<1> QED
  BY <1>1, <1>2, <1>3, SMTT(30) DEF FrameReceiptOK, FramesStay

\* What follows a revision goes on following it.
LEMMA FollowsStays ==
  ASSUME FramesInv, FramesStay, NEW r, IsRequest(r), r.base # 0, NEW c
  PROVE  F!Follows(r.frame, r.base, c)' = F!Follows(r.frame, r.base, c)
<1> DEFINE f == r.frame
           n == r.base
<1>1. revisions'[f][n] = revisions[f][n] /\ RevisionOK(f, n)
  BY DEF FramesInv, FramesStay, IsRequest, F!Latest
<1>2. F!Hydrated(f, n)' = F!Hydrated(f, n)
  <2>1. \A x \in DOMAIN revisions[f][n].selection : versions'[revisions[f][n].selection[x]] = versions[revisions[f][n].selection[x]]
    BY <1>1 DEF FramesStay, RevisionOK
  <2> QED
    BY <1>1, <2>1 DEF F!Hydrated
<1>3. \A i : F!VersionOf(f, n, i)' = F!VersionOf(f, n, i)
  BY <1>1 DEF F!VersionOf
<1>4. \A i : F!ItemFollows(f, n, c, i)' = F!ItemFollows(f, n, c, i)
  BY <1>1, <1>2, <1>3 DEF F!ItemFollows
<1> QED
  BY <1>1, <1>4 DEF F!Follows

\* What an attempt knows goes on being so, whatever others store.
LEMMA KnowledgeStays ==
  ASSUME FramesInv, FramesStay, NEW q, KnowsOK(q)
  PROVE  KnowsOK(q)'
<1> DEFINE r == q.req
<1>1. KnowsOK(q)
  OBVIOUS
<1>2. CASE q.pc = "load"
  BY <1>1, <1>2 DEF KnowsOK, Working
<1>3. CASE q.pc # "load"
  <2>1. IsRequest(r)
    BY <1>1, <1>3 DEF KnowsOK
  <2>2. r.base # 0 => \A x \in DOMAIN revisions[r.frame][r.base].selection :
          revisions[r.frame][r.base].selection[x] \in DOMAIN versions
    BY <2>1 DEF FramesInv, IsRequest, RevisionOK, F!Latest
  <2>3. IsRequest(r)' /\ ContentOf(r)' = ContentOf(r) /\ Built(r)' = Built(r)
    BY <2>1, <2>2, BuiltStays
  <2>4. r.base # 0 => F!Follows(r.frame, r.base, q.content)' = F!Follows(r.frame, r.base, q.content)
    BY <2>1, FollowsStays
  <2>5. /\ F!Latest(r.frame) \in Nat /\ F!Latest(r.frame)' \in Nat /\ F!Latest(r.frame)' >= F!Latest(r.frame)
        /\ r.base \in Nat /\ r.base <= F!Latest(r.frame) /\ r.op \in Ops
    BY <2>1 DEF IsRequest, FramesStay, F!Latest, FramesInv, FrameTypes
  <2>6. frameReceipts'[r.op] = F!NoReceipt => frameReceipts[r.op] = F!NoReceipt
    BY <2>5 DEF FramesStay
  <2>7. q.pc \in {"evidence", "commit"} =>
          /\ EnvelopeOK(q.envelope)'
          /\ frameReceipts'[r.op] = F!NoReceipt /\ F!Latest(r.frame)' = r.base =>
               q.envelope = Built(r)' /\ (r.base # 0 => F!Follows(r.frame, r.base, q.content)')
    <3> SUFFICES ASSUME q.pc \in {"evidence", "commit"}
                 PROVE  /\ EnvelopeOK(q.envelope)'
                        /\ frameReceipts'[r.op] = F!NoReceipt /\ F!Latest(r.frame)' = r.base =>
                             q.envelope = Built(r)' /\ (r.base # 0 => F!Follows(r.frame, r.base, q.content)')
      OBVIOUS
    <3>1. EnvelopeOK(q.envelope)
      BY <1>1 DEF KnowsOK
    <3>2. EnvelopeOK(q.envelope)'
      BY <3>1, EnvelopeStays
    <3>3. F!Latest(r.frame)' = r.base => F!Latest(r.frame) = r.base
      BY <2>5
    <3> QED
      BY <1>1, <2>3, <2>4, <2>6, <3>2, <3>3 DEF KnowsOK
  <2>8. q.reply = "revision_conflict" =>
          IF frameReceipts'[r.op] = F!NoReceipt THEN F!Latest(r.frame)' > r.base
          ELSE frameReceipts'[r.op].envelope.req.frame = r.frame => frameReceipts'[r.op].observed # r.base
    <3> SUFFICES ASSUME q.reply = "revision_conflict"
                 PROVE  IF frameReceipts'[r.op] = F!NoReceipt THEN F!Latest(r.frame)' > r.base
          ELSE frameReceipts'[r.op].envelope.req.frame = r.frame => frameReceipts'[r.op].observed # r.base
      OBVIOUS
    <3> DEFINE w == frameReceipts[r.op]
               v == frameReceipts'[r.op]
    <3>1. IF w = F!NoReceipt THEN F!Latest(r.frame) > r.base
          ELSE w.envelope.req.frame = r.frame => w.observed # r.base
      BY <1>1 DEF KnowsOK
    <3>2. w = F!NoReceipt /\ v # F!NoReceipt => v.observed = F!Latest(v.envelope.req.frame)
      BY <2>5 DEF FramesStay, F!Latest
    <3>3. w # F!NoReceipt => v = w
      BY <2>5 DEF FramesStay
    <3> HIDE DEF w, v
    <3>4. CASE w # F!NoReceipt
      BY <3>1, <3>3, <3>4 DEF v
    <3>5. CASE w = F!NoReceipt
      BY <2>5, <3>1, <3>2, <3>5 DEF v
    <3> QED
      BY <3>4, <3>5
  <2>9. \A d : Founded(d) => Founded(d)'
    BY DEF Founded, FramesStay
  <2>11. q.pc = "commit" =>
       \A d \in F!Of(Dispositions, q.content) : q.content[d].state = "settled" => Founded(q.content[d])'
    BY <1>1, <2>9 DEF KnowsOK
  <2> QED
    BY <1>1, <2>3, <2>7, <2>8, <2>11 DEF KnowsOK
<1> QED
  BY <1>2, <1>3

\* An attempt that does not move goes on knowing what it knows.
LEMMA AttemptStays ==
  ASSUME FramesInv, FramesStay, NEW a \in Attempts, call'[a] = call[a]
  PROVE  AttemptOK(a)'
<1>1. PICK q : q = call[a]
  OBVIOUS
<1>2. KnowsOK(q)
  BY <1>1 DEF FramesInv, AttemptOK
<1>3. KnowsOK(q)' /\ q = call'[a]
  BY <1>1, <1>2, KnowledgeStays
<1> QED
  BY <1>3 DEF AttemptOK, KnowsOK

\* An attempt that stores nothing
LEMMA OnlyKnows ==
  ASSUME FramesInv, NEW a \in Attempts, UNCHANGED F!store,
         DOMAIN call' = Attempts, DOMAIN call'[a] = {"pc", "req", "content", "envelope", "reply", "shown"},
         \A b \in Attempts \ {a} : call'[b] = call[b], AttemptOK(a)'
  PROVE  FramesInv'
<1>1. FramesStay
  BY DEF F!store, FramesStay, FramesInv, FrameTypes
<1>2. \A b \in Attempts : AttemptOK(b)'
  BY <1>1, AttemptStays
<1>3. \A o \in Ops : FrameReceiptOK(o)'
  BY <1>1, ReceiptStays DEF F!store, FrameReceiptOK
<1>4. FrameTypes' /\ VersionsOK' /\ \A f \in Frames : \A n \in 1 .. Len(revisions'[f]) : RevisionOK(f, n)'
  BY <1>1, RevisionStays DEF F!store, FramesInv, FrameTypes, VersionsOK
<1> QED
  BY <1>2, <1>3, <1>4 DEF FramesInv

\* A request is loaded, with the content that it stands for.
LEMMA LoadStep ==
  ASSUME F!FrameConstants, FramesInv, NEW a \in Attempts, F!Load(a)
  PROVE  FramesInv'
<1>1. PICK r \in Offered[a] :
        LET c == IF r.edit.action = "complete" THEN r.edit.content ELSE F!Edited(r.frame, r.base, r.edit)
            ok == c # None /\ F!WellFormed(c) /\ (r.base = 0 => F!CanBegin(c))
        IN /\ call[a].pc = "load" /\ r.base <= F!Latest(r.frame)
           /\ call' = [call EXCEPT ![a] =
                IF ~ok THEN [F!Idle EXCEPT !.pc = "done", !.req = r, !.reply = "refused"]
                ELSE [F!Idle EXCEPT !.pc = "receipt", !.req = r, !.content = c]]
           /\ UNCHANGED F!store
  BY DEF F!Load
<1> DEFINE c == ContentOf(r)
           ok == c # None /\ F!WellFormed(c) /\ (r.base = 0 => F!CanBegin(c))
           q == IF ~ok THEN [F!Idle EXCEPT !.pc = "done", !.req = r, !.reply = "refused"]
                ELSE [F!Idle EXCEPT !.pc = "receipt", !.req = r, !.content = c]
<1>2. /\ r.base <= F!Latest(r.frame) /\ UNCHANGED F!store /\ call' = [call EXCEPT ![a] = q]
  BY <1>1 DEF ContentOf
<1>3. IsRequest(r)
  BY <1>2 DEF F!FrameConstants, IsRequest, IsContent
<1>4. ok => IsContent(c)
  BY <1>3, EditedIsContent DEF ContentOf, IsRequest
<1>5. DOMAIN q = {"pc", "req", "content", "envelope", "reply", "shown"} /\ q.req = r /\ q.shown = 0
      /\ q.reply \in {"none", "refused"}
      /\ (q.pc = "done" \/ (q.pc = "receipt" /\ q.content = c /\ ok))
  BY DEF F!Idle
<1> HIDE DEF q, c
<1>6. call'[a] = q /\ DOMAIN call' = Attempts /\ \A b \in Attempts \ {a} : call'[b] = call[b]
  BY <1>2 DEF FramesInv, FrameTypes
<1>7. ContentOf(r)' = ContentOf(r) /\ IsRequest(r)'
  <2>1. FramesStay
    BY <1>2 DEF F!store, FramesStay, FramesInv, FrameTypes
  <2>2. r.base # 0 => \A x \in DOMAIN revisions[r.frame][r.base].selection :
          revisions[r.frame][r.base].selection[x] \in DOMAIN versions
    BY <1>3 DEF FramesInv, IsRequest, RevisionOK, F!Latest
  <2> QED
    BY <1>3, <2>1, <2>2, BuiltStays
<1>8. AttemptOK(a)'
  BY <1>4, <1>5, <1>6, <1>7 DEF AttemptOK, KnowsOK, Working, c
<1> QED
  BY <1>2, <1>5, <1>6, <1>8, OnlyKnows

\* An envelope that takes over stored versions
LEMMA Assembled ==
  ASSUME NEW r, IsRequest(r), NEW c, IsContent(c), NEW replayed, NEW prior,
         \A x \in DOMAIN prior : prior[x] \in DOMAIN versions
  PROVE  /\ EnvelopeOK(F!Envelope(r, c, prior, replayed))
         /\ F!Envelope(r, c, prior, replayed).req = r /\ F!Envelope(r, c, prior, replayed).content = c
<1> DEFINE fresh == F!Fresh(c, prior, replayed)
           sel   == [x \in DOMAIN c |-> IF x \in fresh THEN F!Allocated(r, x) ELSE prior[x]]
<1>1. fresh \subseteq DOMAIN c /\ \A x \in DOMAIN c \ fresh : x \in DOMAIN prior /\ versions[prior[x]] = c[x]
  BY DEF F!Fresh
<1>2. F!Envelope(r, c, prior, replayed) = [req |-> r, content |-> c, fresh |-> fresh, selection |-> sel]
  BY DEF F!Envelope
<1>3. \A x \in DOMAIN c : sel[x] = IF x \in fresh THEN <<r.op, x>> ELSE prior[x]
  BY DEF F!Allocated
<1>4. DOMAIN sel = DOMAIN c
  OBVIOUS
<1> HIDE DEF fresh, sel
<1> QED
  BY <1>1, <1>2, <1>3, <1>4 DEF EnvelopeOK

\* An attempt that answers, and does not say that it lost
LEMMA Answered ==
  ASSUME FramesInv, NEW a \in Attempts, NEW reply, F!Answers(a, reply), call[a].pc \in Working,
         IsRequest(call[a].req)',
         reply = "revision_conflict" =>
           LET r == call[a].req  w == frameReceipts'[r.op] IN
           IF w = F!NoReceipt THEN Len(revisions'[r.frame]) > r.base
           ELSE w.envelope.req.frame = r.frame => w.observed # r.base
  PROVE  /\ AttemptOK(a)' /\ DOMAIN call' = Attempts /\ \A b \in Attempts \ {a} : call'[b] = call[b]
         /\ DOMAIN call'[a] = {"pc", "req", "content", "envelope", "reply", "shown"}
<1> DEFINE q == call[a]
           k == [q EXCEPT !.pc = "done", !.reply = reply]
<1>1. call' = [call EXCEPT ![a] = k]
  BY DEF F!Answers
<1>2. /\ DOMAIN k = {"pc", "req", "content", "envelope", "reply", "shown"} /\ k.pc = "done" /\ k.reply = reply
      /\ k.req = q.req /\ k.shown = q.shown
  BY DEF FramesInv, FrameTypes
<1>3. q.shown = 0
  BY DEF FramesInv, AttemptOK, KnowsOK, Working
<1>4. call'[a] = k /\ DOMAIN call' = Attempts /\ \A b \in Attempts \ {a} : call'[b] = call[b]
  <2> HIDE DEF k
  <2> QED
    BY <1>1 DEF FramesInv, FrameTypes
<1>5. IsRequest(k.req)'
  BY <1>2, <1>4
<1> HIDE DEF k
<1>6. AttemptOK(a)'
  BY <1>2, <1>3, <1>4, <1>5 DEF AttemptOK, KnowsOK, Working, F!Latest
<1> QED
  BY <1>2, <1>4, <1>6

\* An attempt that has assembled its envelope
LEMMA Assembles ==
  ASSUME FramesInv, NEW a \in Attempts, NEW prior, NEW replayed, F!Assembles(a, prior, replayed),
         UNCHANGED F!store, call[a].pc \in Working,
         \A x \in DOMAIN prior : prior[x] \in DOMAIN versions,
         LET r == call[a].req IN
           frameReceipts[r.op] = F!NoReceipt /\ F!Latest(r.frame) = r.base =>
             prior = Base(r) /\ replayed = {} /\ (r.base # 0 => F!Follows(r.frame, r.base, call[a].content))
  PROVE  FramesInv'
<1> DEFINE q == call[a]
           e == F!Envelope(q.req, q.content, prior, replayed)
           k == [q EXCEPT !.pc = "evidence", !.envelope = e]
<1>1. call' = [call EXCEPT ![a] = k]
  BY DEF F!Assembles
<1>2. KnowsOK(q)
  BY DEF FramesInv, AttemptOK
<1>3. IsRequest(q.req) /\ IsContent(q.content) /\ q.content = ContentOf(q.req) /\ q.shown = 0
      /\ q.reply # "revision_conflict" /\ F!WellFormed(q.content) /\ (q.req.base = 0 => F!CanBegin(q.content))
  BY <1>2 DEF KnowsOK, Working
<1>4. EnvelopeOK(e) /\ e.req = q.req /\ e.content = q.content
  BY <1>3, Assembled
<1>5. frameReceipts[q.req.op] = F!NoReceipt /\ F!Latest(q.req.frame) = q.req.base =>
        e = Built(q.req) /\ (q.req.base # 0 => F!Follows(q.req.frame, q.req.base, q.content))
  BY <1>3 DEF Built
<1> HIDE DEF e
<1>6. /\ DOMAIN k = {"pc", "req", "content", "envelope", "reply", "shown"} /\ k.pc = "evidence"
           /\ k.reply = q.reply
      /\ k.req = q.req /\ k.shown = q.shown /\ k.content = q.content /\ k.envelope = e
  BY DEF FramesInv, FrameTypes
<1>7. KnowsOK(k)
  <2> HIDE DEF k, q
  <2> QED
    BY <1>3, <1>4, <1>5, <1>6 DEF KnowsOK, Working
<1>8. call'[a] = k /\ DOMAIN call' = Attempts /\ \A b \in Attempts \ {a} : call'[b] = call[b]
  <2> HIDE DEF k
  <2> QED
    BY <1>1 DEF FramesInv, FrameTypes
<1>9. AttemptOK(a)'
  <2>1. FramesStay
    BY DEF F!store, FramesStay, FramesInv, FrameTypes
  <2>2. PICK x : x = k
    OBVIOUS
  <2>3. KnowsOK(x)'
    BY <1>7, <2>1, <2>2, KnowledgeStays
  <2>4. call'[a] = x
    BY <1>8, <2>2
  <2> HIDE DEF k
  <2> QED
    BY <2>3, <2>4 DEF AttemptOK, KnowsOK
<1> QED
  BY <1>6, <1>8, <1>9, OnlyKnows

\* An attempt that answers with what is stored
LEMMA OnlyAnswers ==
  ASSUME FramesInv, NEW a \in Attempts, NEW reply, F!Answers(a, reply), call[a].pc \in Working,
         UNCHANGED F!store,
         reply = "revision_conflict" =>
           LET r == call[a].req  w == frameReceipts[r.op] IN
           w # F!NoReceipt /\ w.observed # r.base
  PROVE  FramesInv'
<1>1. UNCHANGED <<versions, revisions, frameReceipts>> /\ IsRequest(call[a].req)
  BY DEF F!store, FramesInv, AttemptOK, KnowsOK, Working
<1>2. IsRequest(call[a].req)'
  <2>1. PICK r : r = call[a].req
    OBVIOUS
  <2>2. FramesStay
    BY DEF F!store, FramesStay, FramesInv, FrameTypes
  <2>3. r.base # 0 => \A x \in DOMAIN revisions[r.frame][r.base].selection :
          revisions[r.frame][r.base].selection[x] \in DOMAIN versions
    BY <1>1, <2>1 DEF FramesInv, IsRequest, RevisionOK, F!Latest
  <2>4. call'[a].req = r
    BY <2>1 DEF F!Answers, FramesInv, FrameTypes
  <2>5. IsRequest(r)'
    BY <1>1, <2>1, <2>2, <2>3, BuiltStays
  <2> QED
    BY <2>4, <2>5
<1> QED
  BY <1>1, <1>2, Answered, OnlyKnows

\* A receipt, or a creation, says what the envelope selects from.
LEMMA ReadReceiptStep ==
  ASSUME FramesInv, NEW a \in Attempts, F!ReadReceipt(a)
  PROVE  FramesInv'
<1> DEFINE r     == call[a].req
           found == frameReceipts[r.op]
           prior == IF found.outcome = "committed" THEN found.envelope.selection
                    ELSE IF found.observed = 0 THEN F!Nothing
                    ELSE revisions[r.frame][found.observed].selection
           own   == IF found.outcome = "committed" THEN {F!Allocated(r, x) : x \in found.envelope.fresh} ELSE {}
<1>1. /\ call[a].pc = "receipt" /\ UNCHANGED F!store
      /\ IF r.base = 0 THEN F!Assembles(a, F!Nothing, {})
         ELSE IF found = F!NoReceipt \/ found.envelope.req.frame # r.frame
         THEN call' = [call EXCEPT ![a].pc = "current"]
         ELSE IF F!KeepsDispositions(prior, call[a].content) THEN F!Assembles(a, prior, own)
         ELSE F!Answers(a, "refused")
  BY DEF F!ReadReceipt
<1>2. KnowsOK(call[a]) /\ IsRequest(r) /\ call[a].pc \in Working
  BY <1>1 DEF FramesInv, AttemptOK, KnowsOK, Working
<1>3. CASE r.base = 0
  <2>1. F!Assembles(a, F!Nothing, {}) /\ Base(r) = F!Nothing
    BY <1>1, <1>3 DEF Base
  <2>2. \A x \in DOMAIN F!Nothing : F!Nothing[x] \in DOMAIN versions
    BY DEF F!Nothing
  <2> QED
    BY <1>1, <1>2, <1>3, <2>1, <2>2, Assembles
<1>4. CASE r.base # 0 /\ (found = F!NoReceipt \/ found.envelope.req.frame # r.frame)
  <2> DEFINE k == [call[a] EXCEPT !.pc = "current"]
  <2>1. call' = [call EXCEPT ![a] = k]
    BY <1>1, <1>4
  <2>2. /\ DOMAIN k = {"pc", "req", "content", "envelope", "reply", "shown"} /\ k.pc = "current"
        /\ k.reply = call[a].reply /\ k.req = r /\ k.shown = call[a].shown /\ k.content = call[a].content
    BY DEF FramesInv, FrameTypes
  <2> HIDE DEF k, r, found, prior, own
  <2>3. call'[a] = k /\ DOMAIN call' = Attempts /\ \A b \in Attempts \ {a} : call'[b] = call[b]
    BY <2>1 DEF FramesInv, FrameTypes
  <2>4. KnowsOK(k)
    BY <1>1, <1>2, <1>4, <2>2 DEF KnowsOK, Working, r
  <2>5. AttemptOK(a)'
    <3>1. FramesStay
      BY <1>1 DEF F!store, FramesStay, FramesInv, FrameTypes
    <3>2. PICK x : x = k
      OBVIOUS
    <3>3. KnowsOK(x)' /\ call'[a] = x
      BY <2>3, <2>4, <3>1, <3>2, KnowledgeStays
    <3> QED
      BY <3>3 DEF AttemptOK, KnowsOK
  <2> QED
    BY <1>1, <2>2, <2>3, <2>5, OnlyKnows
<1>5. CASE r.base # 0 /\ ~(found = F!NoReceipt \/ found.envelope.req.frame # r.frame)
  <2>1. FrameReceiptOK(r.op) /\ found.envelope.req.frame = r.frame /\ r.frame \in Frames
    BY <1>2, <1>5 DEF FramesInv, IsRequest
  <2>2. \A x \in DOMAIN prior : prior[x] \in DOMAIN versions
    <3>1. CASE found.outcome = "committed"
      BY <1>5, <2>1, <3>1 DEF FrameReceiptOK, EnvelopeOK
    <3>2. CASE found.outcome # "committed" /\ found.observed = 0
      BY <3>2 DEF F!Nothing
    <3>3. CASE found.outcome # "committed" /\ found.observed # 0
      <4>1. found.observed \in 1 .. Len(revisions[r.frame])
        <5>1. Len(revisions[r.frame]) \in Nat
          BY <2>1 DEF FramesInv, FrameTypes
        <5>2. found.observed \in Nat /\ found.observed <= Len(revisions[r.frame])
          BY <1>5, <2>1 DEF FrameReceiptOK, F!Latest
        <5> QED
          BY <3>3, <5>1, <5>2
      <4> QED
        BY <2>1, <3>3, <4>1 DEF FramesInv, RevisionOK
    <3> QED
      BY <3>1, <3>2, <3>3
  <2>3. CASE F!KeepsDispositions(prior, call[a].content)
    <3>1. F!Assembles(a, prior, own)
      BY <1>1, <1>5, <2>3
    <3> HIDE DEF prior, own
    <3> QED
      BY <1>1, <1>2, <1>5, <2>2, <3>1, Assembles
  <2>4. CASE ~F!KeepsDispositions(prior, call[a].content)
    BY <1>1, <1>2, <1>5, <2>4, OnlyAnswers
  <2> QED
    BY <2>3, <2>4
<1> QED
  BY <1>3, <1>4, <1>5

\* Without a receipt the envelope selects from the current revision.
LEMMA ReadCurrentStep ==
  ASSUME FramesInv, NEW a \in Attempts, F!ReadCurrent(a)
  PROVE  FramesInv'
<1> DEFINE r == call[a].req
           f == r.frame
           n == F!Latest(f)
<1>1. /\ call[a].pc = "current" /\ UNCHANGED F!store
      /\ IF n > 0 /\ F!Follows(f, n, call[a].content) THEN F!Assembles(a, revisions[f][n].selection, {})
         ELSE F!Answers(a, "refused")
  BY DEF F!ReadCurrent
<1>2. IsRequest(r) /\ call[a].pc \in Working /\ r.base # 0
  BY <1>1 DEF FramesInv, AttemptOK, KnowsOK, Working
<1>3. CASE n > 0 /\ F!Follows(f, n, call[a].content)
  <2> DEFINE prior == revisions[f][n].selection
  <2>1. n \in 1 .. Len(revisions[f]) /\ f \in Frames
    BY <1>2, <1>3 DEF F!Latest, FramesInv, FrameTypes, IsRequest
  <2>2. \A x \in DOMAIN prior : prior[x] \in DOMAIN versions
    BY <2>1 DEF FramesInv, RevisionOK
  <2>3. n = r.base => prior = Base(r)
    BY <1>2 DEF Base
  <2>4. F!Assembles(a, prior, {})
    BY <1>1, <1>3
  <2> HIDE DEF prior
  <2> QED
    BY <1>1, <1>2, <1>3, <2>2, <2>3, <2>4, Assembles
<1>4. CASE ~(n > 0 /\ F!Follows(f, n, call[a].content))
  BY <1>1, <1>2, <1>4, OnlyAnswers
<1> QED
  BY <1>3, <1>4

\* Settled dispositions are looked up before the commit.
LEMMA CheckEvidenceStep ==
  ASSUME FramesInv, NEW a \in Attempts, F!CheckEvidence(a)
  PROVE  FramesInv'
<1> DEFINE c == call[a].content
           all == \A d \in F!Of(Dispositions, c) : c[d].state = "settled" => F!Realized(c[d])
           k == [call[a] EXCEPT !.pc = "commit"]
<1>1. /\ call[a].pc = "evidence" /\ UNCHANGED F!store
      /\ IF all THEN call' = [call EXCEPT ![a] = k] ELSE F!Answers(a, "refused")
  BY DEF F!CheckEvidence
<1>2. KnowsOK(call[a]) /\ call[a].pc \in Working
  BY <1>1 DEF FramesInv, AttemptOK, Working
<1>3. CASE all
  <2>1. ASSUME NEW d, F!Realized(d) PROVE Founded(d)
    BY <2>1 DEF F!Realized, Founded
  <2>2. \A d \in F!Of(Dispositions, c) : c[d].state = "settled" => Founded(c[d])
    BY <1>3, <2>1
  <2>3. /\ DOMAIN k = {"pc", "req", "content", "envelope", "reply", "shown"} /\ k.pc = "commit"
        /\ k.reply = call[a].reply /\ k.req = call[a].req /\ k.shown = call[a].shown /\ k.content = c
        /\ k.envelope = call[a].envelope
    BY DEF FramesInv, FrameTypes
  <2>4. call' = [call EXCEPT ![a] = k]
    BY <1>1, <1>3
  <2> HIDE DEF k, all
  <2>5. call'[a] = k /\ DOMAIN call' = Attempts /\ \A b \in Attempts \ {a} : call'[b] = call[b]
    BY <2>4 DEF FramesInv, FrameTypes
  <2>6. KnowsOK(k)
    BY <1>1, <1>2, <2>2, <2>3 DEF KnowsOK, Working
  <2>7. AttemptOK(a)'
    <3>1. FramesStay
      BY <1>1 DEF F!store, FramesStay, FramesInv, FrameTypes
    <3>2. PICK x : x = k
      OBVIOUS
    <3>3. KnowsOK(x)' /\ call'[a] = x
      BY <2>5, <2>6, <3>1, <3>2, KnowledgeStays
    <3> QED
      BY <3>3 DEF AttemptOK, KnowsOK
  <2> QED
    BY <1>1, <2>3, <2>5, <2>7, OnlyKnows
<1>4. CASE ~all
  BY <1>1, <1>2, <1>4, OnlyAnswers
<1> QED
  BY <1>3, <1>4

\* A commit that finds its receipt
LEMMA ReplayStep ==
  ASSUME FramesInv, NEW a \in Attempts, F!Replay(a)
  PROVE  FramesInv'
<1> DEFINE found == frameReceipts[call[a].req.op]
           reply == IF found.envelope # call[a].envelope THEN "idempotency_mismatch"
                    ELSE IF found.outcome = "committed" THEN "replayed"
                    ELSE IF found.observed # call[a].req.base THEN "revision_conflict"
                    ELSE "commit_execution_failed"
<1>1. call[a].pc = "commit" /\ found # F!NoReceipt /\ F!Answers(a, reply) /\ UNCHANGED F!store
  BY DEF F!Replay
<1>2. call[a].pc \in Working
  BY <1>1 DEF Working
<1>3. reply = "revision_conflict" => found.observed # call[a].req.base
  OBVIOUS
<1> HIDE DEF reply
<1> QED
  BY <1>1, <1>2, <1>3, OnlyAnswers

\* What is shown is what the receipt observed.
LEMMA ShowConflictStep ==
  ASSUME FramesInv, NEW a \in Attempts, F!ShowConflict(a)
  PROVE  FramesInv'
<1> DEFINE found == frameReceipts[call[a].req.op]
           k == [call[a] EXCEPT !.shown = found.observed]
<1>1. /\ call[a].pc = "done" /\ call[a].reply = "revision_conflict" /\ UNCHANGED F!store
      /\ found # F!NoReceipt /\ found.envelope.req.frame = call[a].req.frame
      /\ call' = [call EXCEPT ![a] = k]
  BY DEF F!ShowConflict
<1>2. KnowsOK(call[a])
  BY DEF FramesInv, AttemptOK
<1>3. found.observed # call[a].req.base
  BY <1>1, <1>2 DEF KnowsOK
<1>4. /\ DOMAIN k = {"pc", "req", "content", "envelope", "reply", "shown"} /\ k.pc = "done"
      /\ k.reply = call[a].reply /\ k.req = call[a].req /\ k.shown = found.observed
  BY <1>1 DEF FramesInv, FrameTypes
<1> HIDE DEF k
<1>5. call'[a] = k /\ DOMAIN call' = Attempts /\ \A b \in Attempts \ {a} : call'[b] = call[b]
  BY <1>1 DEF FramesInv, FrameTypes
<1>6. KnowsOK(k)
  BY <1>1, <1>2, <1>3, <1>4 DEF KnowsOK, Working
<1>7. AttemptOK(a)'
  <2>1. FramesStay
    BY <1>1 DEF F!store, FramesStay, FramesInv, FrameTypes
  <2>2. PICK x : x = k
    OBVIOUS
  <2>3. KnowsOK(x)' /\ call'[a] = x
    BY <1>5, <1>6, <2>1, <2>2, KnowledgeStays
  <2> QED
    BY <2>3 DEF AttemptOK, KnowsOK
<1> QED
  BY <1>1, <1>4, <1>5, <1>7, OnlyKnows

\* What only adds to what is stored
LEMMA StoresMore ==
  ASSUME FramesInv, FramesStay, FrameTypes', VersionsOK',
         \A f \in Frames : \A n \in 1 .. Len(revisions'[f]) : n <= Len(revisions[f]) \/ RevisionOK(f, n)',
         \A o \in Ops : frameReceipts[o] = F!NoReceipt => FrameReceiptOK(o)',
         \A a \in Attempts : call'[a] = call[a] \/ AttemptOK(a)'
  PROVE  FramesInv'
<1>1. \A f \in Frames : \A n \in 1 .. Len(revisions'[f]) : RevisionOK(f, n)'
  <2> SUFFICES ASSUME NEW f \in Frames, NEW n \in 1 .. Len(revisions'[f]), n <= Len(revisions[f])
               PROVE  RevisionOK(f, n)'
    OBVIOUS
  <2>1. n \in 1 .. Len(revisions[f])
    BY DEF FramesInv, FrameTypes
  <2> QED
    BY <2>1, RevisionStays
<1>2. \A o \in Ops : FrameReceiptOK(o)'
  BY ReceiptStays
<1>3. \A a \in Attempts : AttemptOK(a)'
  BY AttemptStays
<1> QED
  BY <1>1, <1>2, <1>3 DEF FramesInv

\* A rejection stores at most its receipt.
LEMMA RejectStep ==
  ASSUME F!FrameConstants, FramesInv, NEW a \in Attempts, F!Reject(a)
  PROVE  FramesInv'
<1>1. PICK r, e : r = call[a].req /\ e = call[a].envelope
  OBVIOUS
<1> DEFINE w == [outcome |-> "rejected", envelope |-> e, observed |-> F!Latest(r.frame)]
           reply == IF F!Latest(r.frame) # r.base THEN "revision_conflict" ELSE "commit_execution_failed"
<1>2. /\ call[a].pc = "commit" /\ frameReceipts[r.op] = F!NoReceipt /\ F!Answers(a, reply)
      /\ frameReceipts' = frameReceipts \/ frameReceipts' = [frameReceipts EXCEPT ![r.op] = w]
      /\ UNCHANGED <<versions, revisions, caseRevisions, caseReceipts>>
  BY <1>1 DEF F!Reject
<1>3. call[a].pc \in Working /\ IsRequest(r) /\ EnvelopeOK(e) /\ e.req = r
  BY <1>1, <1>2 DEF FramesInv, AttemptOK, KnowsOK, Working
<1>4. /\ r.op \in Ops /\ r.frame \in Frames /\ r.base \in Nat /\ r.base <= Len(revisions[r.frame])
      /\ Len(revisions[r.frame]) \in Nat
  BY <1>3 DEF IsRequest, F!Latest, FramesInv, FrameTypes
<1>5. w # F!NoReceipt /\ w.outcome = "rejected" /\ w.envelope = e /\ w.observed = Len(revisions[r.frame])
  BY DEF F!NoReceipt, F!Latest
<1> HIDE DEF w
<1>6. /\ DOMAIN frameReceipts' = Ops
      /\ \A o \in Ops : frameReceipts'[o] = frameReceipts[o] \/ (o = r.op /\ frameReceipts'[o] = w)
  BY <1>2, <1>4 DEF FramesInv, FrameTypes
<1>7. FramesStay
  <2>1. \A f \in Frames : Len(revisions[f]) \in Nat
    BY DEF FramesInv, FrameTypes
  <2>2. \A o \in Ops : IF frameReceipts[o] = F!NoReceipt
          THEN frameReceipts'[o] # F!NoReceipt =>
                 frameReceipts'[o].observed = Len(revisions[frameReceipts'[o].envelope.req.frame])
          ELSE frameReceipts'[o] = frameReceipts[o]
    BY <1>2, <1>3, <1>5, <1>6
  <2> QED
    BY <1>2, <2>1, <2>2 DEF FramesStay
<1>8. IsRequest(call[a].req)'
  <2>1. r.base # 0 => \A x \in DOMAIN revisions[r.frame][r.base].selection :
          revisions[r.frame][r.base].selection[x] \in DOMAIN versions
    BY <1>3 DEF FramesInv, IsRequest, RevisionOK, F!Latest
  <2>2. IsRequest(r)'
    BY <1>3, <1>7, <2>1, BuiltStays
  <2>3. call'[a].req = r
    BY <1>1, <1>2 DEF F!Answers, FramesInv, FrameTypes
  <2> QED
    BY <2>2, <2>3
<1>9. /\ AttemptOK(a)' /\ DOMAIN call' = Attempts /\ \A b \in Attempts \ {a} : call'[b] = call[b]
      /\ DOMAIN call'[a] = {"pc", "req", "content", "envelope", "reply", "shown"}
  <2>1. reply = "revision_conflict" =>
           IF frameReceipts'[r.op] = F!NoReceipt THEN Len(revisions'[r.frame]) > r.base
           ELSE frameReceipts'[r.op].envelope.req.frame = r.frame => frameReceipts'[r.op].observed # r.base
    <3> SUFFICES ASSUME F!Latest(r.frame) # r.base
                 PROVE  IF frameReceipts'[r.op] = F!NoReceipt THEN Len(revisions'[r.frame]) > r.base
           ELSE frameReceipts'[r.op].envelope.req.frame = r.frame => frameReceipts'[r.op].observed # r.base
      OBVIOUS
    <3> QED
      BY <1>2, <1>4, <1>5, <1>6 DEF F!Latest
  <2> HIDE DEF reply
  <2> QED
    BY <1>1, <1>2, <1>3, <1>8, <2>1, Answered
<1>10. FrameTypes' /\ VersionsOK'
  <2>1. \A b \in Attempts : DOMAIN call'[b] = {"pc", "req", "content", "envelope", "reply", "shown"}
    BY <1>9 DEF FramesInv, FrameTypes
  <2>2. \A o \in Ops : frameReceipts[o].outcome = "committed" => frameReceipts'[o] = frameReceipts[o]
    BY <1>7 DEF FramesStay, F!NoReceipt
  <2> QED
    BY <1>2, <1>6, <1>9, <2>1, <2>2 DEF FramesInv, FrameTypes, VersionsOK
<1>11. \A o \in Ops : frameReceipts[o] = F!NoReceipt => FrameReceiptOK(o)'
  <2> SUFFICES ASSUME NEW o \in Ops, frameReceipts[o] = F!NoReceipt, frameReceipts'[o] # F!NoReceipt
               PROVE  FrameReceiptOK(o)'
    BY DEF FrameReceiptOK
  <2>1. frameReceipts'[o] = w
    BY <1>6
  <2>2. EnvelopeOK(e)'
    BY <1>3, <1>7, EnvelopeStays
  <2>3. w.observed \in Nat /\ w.observed <= F!Latest(e.req.frame)'
    BY <1>2, <1>3, <1>4, <1>5 DEF F!Latest
  <2>4. EnvelopeOK(frameReceipts[o].envelope)' /\ frameReceipts'[o].envelope = e
    BY <1>5, <2>1, <2>2 DEF EnvelopeOK
  <2> QED
    BY <1>5, <2>1, <2>3, <2>4 DEF FrameReceiptOK, F!Latest
<1>12. \A b \in Attempts : call'[b] = call[b] \/ AttemptOK(b)'
  BY <1>9
<1>13. \A f \in Frames : \A n \in 1 .. Len(revisions'[f]) : n <= Len(revisions[f]) \/ RevisionOK(f, n)'
  <2>1. \A f \in Frames : Len(revisions[f]) \in Nat
    BY DEF FramesInv, FrameTypes
  <2> QED
    BY <1>2, <2>1
<1> QED
  BY <1>7, <1>10, <1>11, <1>12, <1>13, StoresMore

\* A commit of a Case adds to it.
LEMMA CommitCaseStep ==
  ASSUME FramesInv, NEW k \in FrameCases, NEW o \in CaseOps, F!CommitCase(k, o)
  PROVE  FramesInv'
<1>1. /\ caseRevisions' = [caseRevisions EXCEPT ![k] = Append(caseRevisions[k], o)] \/ UNCHANGED caseRevisions
      /\ DOMAIN caseReceipts' = CaseOps /\ UNCHANGED <<versions, revisions, frameReceipts, call>>
  BY DEF F!CommitCase, FramesInv, FrameTypes
<1>2. /\ \E S : Append(caseRevisions[k], o) \in Seq(S)
      /\ DOMAIN caseRevisions[k] = 1 .. Len(caseRevisions[k]) /\ Len(caseRevisions[k]) \in Nat
      /\ DOMAIN Append(caseRevisions[k], o) = 1 .. (Len(caseRevisions[k]) + 1)
      /\ \A n \in 1 .. Len(caseRevisions[k]) : Append(caseRevisions[k], o)[n] = caseRevisions[k][n]
  <2>1. PICK s : s = caseRevisions[k]
    OBVIOUS
  <2>2. \E S : s \in Seq(S)
    BY <2>1 DEF FramesInv, FrameTypes
  <2>3. /\ \E S : Append(s, o) \in Seq(S)
        /\ Len(s) \in Nat /\ Len(Append(s, o)) = Len(s) + 1 /\ Append(s, o)[Len(s) + 1] = o
        /\ \A n \in 1 .. Len(s) : Append(s, o)[n] = s[n]
        /\ DOMAIN s = 1 .. Len(s) /\ DOMAIN Append(s, o) = 1 .. (Len(s) + 1)
    BY <2>2, AppendsAny
  <2> QED
    BY <2>1, <2>3
<1> DEFINE more == Append(caseRevisions[k], o)
<1>3. \A n \in DOMAIN caseRevisions[k] : n \in DOMAIN more /\ more[n] = caseRevisions[k][n]
  BY <1>2
<1>4. \E S : more \in Seq(S)
  BY <1>2
<1> HIDE DEF more
<1>5. /\ DOMAIN caseRevisions' = FrameCases
      /\ \A c \in FrameCases : caseRevisions'[c] = caseRevisions[c] \/ (c = k /\ caseRevisions'[c] = more)
  BY <1>1 DEF more, FramesInv, FrameTypes
<1>6. FrameTypes' /\ VersionsOK'
  BY <1>1, <1>4, <1>5 DEF FramesInv, FrameTypes, VersionsOK
<1>7. FramesStay
  <2>1. \A f \in Frames : Len(revisions[f]) \in Nat
    BY DEF FramesInv, FrameTypes
  <2>2. \A c \in FrameCases : \A n \in DOMAIN caseRevisions[c] :
          n \in DOMAIN caseRevisions'[c] /\ caseRevisions'[c][n] = caseRevisions[c][n]
    BY <1>3, <1>5
  <2> QED
    BY <1>1, <2>1, <2>2 DEF FramesStay
<1>8. \A x \in Ops : frameReceipts[x] = F!NoReceipt => FrameReceiptOK(x)'
  BY <1>1 DEF FrameReceiptOK
<1>9. \A f \in Frames : \A n \in 1 .. Len(revisions'[f]) : n <= Len(revisions[f]) \/ RevisionOK(f, n)'
  <2>1. \A f \in Frames : Len(revisions[f]) \in Nat
    BY DEF FramesInv, FrameTypes
  <2> QED
    BY <1>1, <2>1
<1> QED
  BY <1>1, <1>6, <1>7, <1>8, <1>9, StoresMore

\* A commit stores new versions, a revision that selects them, and its receipt.
LEMMA SettleStep ==
  ASSUME F!FrameConstants, FramesInv, NEW a \in Attempts, F!Settle(a)
  PROVE  /\ FramesInv' /\ FramesStay
         /\ LET r == call[a].req  e == call[a].envelope  n == Len(revisions[r.frame]) + 1 IN
            /\ r.op \in Ops /\ r.frame \in Frames /\ r.base = n - 1 /\ e = Built(r)
            /\ Len(revisions'[r.frame]) = n /\ frameReceipts'[r.op].envelope = e
            /\ revisions'[r.frame][n].op = r.op /\ revisions'[r.frame][n].selection = e.selection
            /\ \A f \in Frames : f # r.frame => revisions'[f] = revisions[f]
<1>1. PICK r, e : r = call[a].req /\ e = call[a].envelope
  OBVIOUS
<1> DEFINE w == [outcome |-> "committed", envelope |-> e, observed |-> r.base]
           new == {F!Allocated(r, x) : x \in e.fresh}
           old == revisions[r.frame]
           row == [op |-> r.op, selection |-> e.selection]
           more == Append(old, row)
<1>2. /\ call[a].pc = "commit" /\ frameReceipts[r.op] = F!NoReceipt /\ F!Latest(r.frame) = r.base
      /\ versions' = [v \in DOMAIN versions \cup new |-> IF v \in new THEN e.content[v[2]] ELSE versions[v]]
      /\ revisions' = [revisions EXCEPT ![r.frame] = more]
      /\ frameReceipts' = [frameReceipts EXCEPT ![r.op] = w]
      /\ F!Answers(a, "committed") /\ UNCHANGED <<caseRevisions, caseReceipts>>
  BY <1>1 DEF F!Settle
<1>3. call[a].pc \in Working /\ IsRequest(r) /\ EnvelopeOK(e) /\ e.req = r /\ e = Built(r)
  BY <1>1, <1>2 DEF FramesInv, AttemptOK, KnowsOK, Working
<1>4. r.op \in Ops /\ r.frame \in Frames /\ r.base = Len(old) /\ Len(old) \in Nat
  BY <1>2, <1>3 DEF IsRequest, F!Latest, FramesInv, FrameTypes
<1>5. w # F!NoReceipt /\ w.outcome = "committed" /\ w.envelope = e /\ w.observed = Len(old)
  BY <1>4 DEF F!NoReceipt
<1>6. /\ \A v \in new : v[1] = r.op
      /\ \A x \in e.fresh : <<r.op, x>> \in new
  BY DEF F!Allocated
<1>7. \A v \in DOMAIN versions : v[1] # r.op
  BY <1>2, <1>4 DEF FramesInv, VersionsOK, F!FrameConstants, F!NoReceipt
<1>8. /\ \E S : more \in Seq(S)
      /\ Len(more) = Len(old) + 1 /\ more[Len(old) + 1] = row /\ \A n \in 1 .. Len(old) : more[n] = old[n]
  <2>1. PICK s : s = old
    OBVIOUS
  <2>2. \E S : s \in Seq(S)
    BY <1>4, <2>1 DEF FramesInv, FrameTypes
  <2>3. PICK x : x = row
    OBVIOUS
  <2>4. /\ \E S : Append(s, x) \in Seq(S)
        /\ Len(s) \in Nat /\ Len(Append(s, x)) = Len(s) + 1 /\ Append(s, x)[Len(s) + 1] = x
        /\ \A n \in 1 .. Len(s) : Append(s, x)[n] = s[n]
        /\ DOMAIN s = 1 .. Len(s) /\ DOMAIN Append(s, x) = 1 .. (Len(s) + 1)
    <3> HIDE DEF w, new, old, row, more
    <3> QED
      BY ONLY <2>2, AppendsAny
  <2> QED
    BY <2>1, <2>3, <2>4
<1>9. row.op = r.op /\ row.selection = e.selection
  OBVIOUS
<1> HIDE DEF w, more, row
<1>10. /\ DOMAIN frameReceipts' = Ops /\ frameReceipts'[r.op] = w
       /\ \A o \in Ops : o # r.op => frameReceipts'[o] = frameReceipts[o]
  BY <1>2, <1>4 DEF FramesInv, FrameTypes
<1>11. /\ DOMAIN revisions' = Frames /\ revisions'[r.frame] = more
       /\ \A f \in Frames : f # r.frame => revisions'[f] = revisions[f]
  <2> HIDE DEF new
  <2> QED
    BY <1>2, <1>4 DEF FramesInv, FrameTypes
<1>12. /\ \A v \in DOMAIN versions : v \in DOMAIN versions' /\ versions'[v] = versions[v]
       /\ \A x \in e.fresh : <<r.op, x>> \in DOMAIN versions' /\ versions'[<<r.op, x>>] = e.content[x]
       /\ DOMAIN versions' = DOMAIN versions \cup new
  <2>1. \A v \in DOMAIN versions : v \notin new
    BY <1>6, <1>7
  <2> HIDE DEF new
  <2>2. \A x \in e.fresh : <<r.op, x>>[2] = x
    OBVIOUS
  <2> QED
    BY <1>2, <1>6, <2>1, <2>2
<1> HIDE DEF new, old
<1>13. FramesStay
  <2>1. \A f \in Frames : Len(revisions[f]) \in Nat
    BY DEF FramesInv, FrameTypes
  <2>2. \A o \in Ops : IF frameReceipts[o] = F!NoReceipt
          THEN frameReceipts'[o] # F!NoReceipt =>
                 frameReceipts'[o].observed = Len(revisions[frameReceipts'[o].envelope.req.frame])
          ELSE frameReceipts'[o] = frameReceipts[o]
    BY <1>2, <1>3, <1>5, <1>10 DEF old
  <2>3. \A f \in Frames : /\ Len(revisions'[f]) \in Nat /\ Len(revisions'[f]) >= Len(revisions[f])
                          /\ \A n \in 1 .. Len(revisions[f]) : revisions'[f][n] = revisions[f][n]
    BY <1>4, <1>8, <1>11, <2>1 DEF old
  <2> QED
    BY <1>2, <1>12, <2>2, <2>3 DEF FramesStay
<1>14. IsRequest(call[a].req)'
  <2>1. r.base # 0 => \A x \in DOMAIN revisions[r.frame][r.base].selection :
          revisions[r.frame][r.base].selection[x] \in DOMAIN versions
    BY <1>3 DEF FramesInv, IsRequest, RevisionOK, F!Latest
  <2>2. IsRequest(r)'
    BY <1>3, <1>13, <2>1, BuiltStays
  <2>3. call'[a].req = r
    BY <1>1, <1>2 DEF F!Answers, FramesInv, FrameTypes
  <2> QED
    BY <2>2, <2>3
<1>15. /\ AttemptOK(a)' /\ DOMAIN call' = Attempts /\ \A b \in Attempts \ {a} : call'[b] = call[b]
       /\ DOMAIN call'[a] = {"pc", "req", "content", "envelope", "reply", "shown"}
  BY <1>2, <1>3, <1>14, Answered
<1>16. FrameTypes' /\ VersionsOK'
  <2>1. \A b \in Attempts : DOMAIN call'[b] = {"pc", "req", "content", "envelope", "reply", "shown"}
    BY <1>15 DEF FramesInv, FrameTypes
  <2>2. \A f \in Frames : \E S : revisions'[f] \in Seq(S)
    BY <1>8, <1>11 DEF FramesInv, FrameTypes
  <2>3. FrameTypes'
    BY <1>2, <1>10, <1>11, <1>15, <2>1, <2>2 DEF FramesInv, FrameTypes
  <2>4. \A o \in Ops : frameReceipts[o].outcome = "committed" => frameReceipts'[o] = frameReceipts[o]
    BY <1>13 DEF FramesStay, F!NoReceipt
  <2>5. VersionsOK'
    BY <1>4, <1>5, <1>6, <1>10, <1>12, <2>4 DEF FramesInv, VersionsOK
  <2> QED
    BY <2>3, <2>5
<1>17. \A x \in DOMAIN e.content :
         /\ e.selection[x] \in DOMAIN versions' /\ versions'[e.selection[x]] = e.content[x]
         /\ x \notin e.fresh => e.selection[x][1] # r.op
  BY <1>3, <1>7, <1>12 DEF EnvelopeOK
<1>18. \A o \in Ops : frameReceipts[o] = F!NoReceipt => FrameReceiptOK(o)'
  <2> SUFFICES ASSUME NEW o \in Ops, frameReceipts[o] = F!NoReceipt, frameReceipts'[o] # F!NoReceipt
               PROVE  FrameReceiptOK(o)'
    BY DEF FrameReceiptOK
  <2>1. frameReceipts'[o] = w /\ o = r.op
    BY <1>10
  <2>2. EnvelopeOK(e)' /\ Built(r)' = Built(r)
    BY <1>3, <1>13, EnvelopeStays
  <2>3. w.observed \in Nat /\ w.observed <= F!Latest(r.frame)'
    BY <1>4, <1>5, <1>8, <1>11 DEF F!Latest
  <2>4. EnvelopeOK(frameReceipts[o].envelope)' /\ frameReceipts'[o].envelope = e
    BY <1>5, <2>1, <2>2 DEF EnvelopeOK
  <2>5. frameReceipts'[o].envelope = Built(frameReceipts[o].envelope.req)'
    <3>1. frameReceipts'[o].envelope.req = r
      BY <1>3, <2>4
    <3>2. Built(frameReceipts[o].envelope.req)' = Built(r)'
      BY <3>1 DEF Built, ContentOf, Base, F!Envelope, F!Fresh, F!Edited, F!Hydrated, F!VersionOf
    <3> QED
      BY <1>3, <2>2, <2>4, <3>2
  <2> QED
    BY <1>3, <1>5, <1>17, <2>1, <2>3, <2>4, <2>5 DEF FrameReceiptOK, F!Latest
<1>19. \A f \in Frames : \A n \in 1 .. Len(revisions'[f]) : n <= Len(revisions[f]) \/ RevisionOK(f, n)'
  <2> SUFFICES ASSUME NEW f \in Frames, NEW n \in 1 .. Len(revisions'[f]), ~(n <= Len(revisions[f]))
               PROVE  RevisionOK(f, n)'
    OBVIOUS
  <2>1. f = r.frame /\ n = Len(old) + 1
    <3>1. Len(revisions[f]) \in Nat
      BY DEF FramesInv, FrameTypes
    <3>2. f = r.frame
      BY <1>11, <3>1
    <3> QED
      BY <1>4, <1>8, <1>11, <3>2 DEF old
  <2>2. revisions'[f][n].op = r.op /\ revisions'[f][n].selection = e.selection
    BY <1>8, <1>9, <1>11, <2>1
  <2>3. frameReceipts'[r.op].outcome = "committed" /\ frameReceipts'[r.op].envelope.selection = e.selection
    BY <1>5, <1>10
  <2>4. \A x \in DOMAIN e.selection : e.selection[x] \in DOMAIN versions'
    BY <1>3, <1>17 DEF EnvelopeOK
  <2> QED
    BY <1>4, <2>2, <2>3, <2>4 DEF RevisionOK
<1>20. \A b \in Attempts : call'[b] = call[b] \/ AttemptOK(b)'
  BY <1>15
<1>21. /\ r.op \in Ops /\ r.frame \in Frames /\ r.base = Len(revisions[r.frame]) + 1 - 1 /\ e = Built(r)
       /\ Len(revisions'[r.frame]) = Len(revisions[r.frame]) + 1 /\ frameReceipts'[r.op].envelope = e
       /\ revisions'[r.frame][Len(revisions[r.frame]) + 1].op = r.op
       /\ revisions'[r.frame][Len(revisions[r.frame]) + 1].selection = e.selection
       /\ \A f \in Frames : f # r.frame => revisions'[f] = revisions[f]
  BY <1>3, <1>4, <1>5, <1>8, <1>9, <1>10, <1>11 DEF old
<1>22. FramesInv'
  BY <1>13, <1>16, <1>18, <1>19, <1>20, StoresMore
<1> QED
  BY <1>1, <1>13, <1>21, <1>22
-------------------------------------------------------------------------------
\* Frames: the theorems

\* At the start every version is what InitOp created.
LEMMA FramesInit ==
  ASSUME F!FrameConstants, F!Init
  PROVE  FramesInv
<1> DEFINE row(f) == [op |-> InitOp, selection |-> [x \in DOMAIN Initial[f] |-> <<InitOp, x>>]]
           made == {<<InitOp, x>> : x \in UNION {DOMAIN Initial[f] : f \in DOMAIN Initial}}
<1>1. /\ DOMAIN versions = made
      /\ revisions = [f \in Frames |-> IF f \in DOMAIN Initial THEN <<row(f)>> ELSE <<>>]
      /\ frameReceipts = [o \in Ops |-> F!NoReceipt] /\ caseRevisions = [k \in FrameCases |-> <<>>]
      /\ caseReceipts = [o \in CaseOps |-> None] /\ call = [a \in Attempts |-> F!Idle]
  BY DEF F!Init
<1>2. \A v \in made : v[1] = InitOp
  OBVIOUS
<1>3. \A f \in DOMAIN Initial : row(f).op = InitOp /\
        \A x \in DOMAIN row(f).selection : row(f).selection[x] \in made
  OBVIOUS
<1> HIDE DEF row, made
<1>4. \A f \in Frames : \E S : revisions[f] \in Seq(S)
  <2> SUFFICES ASSUME NEW f \in Frames PROVE \E S : revisions[f] \in Seq(S)
    OBVIOUS
  <2>1. ASSUME NEW r PROVE <<r>> \in Seq({r}) /\ <<>> \in Seq({r})
    OBVIOUS
  <2>2. revisions[f] = <<row(f)>> \/ revisions[f] = <<>>
    BY <1>1
  <2> QED
    BY <2>1, <2>2
<1>5. \A k \in FrameCases : caseRevisions[k] \in Seq({})
  BY <1>1
<1>6. \A a \in Attempts : call[a] = F!Idle
  BY <1>1
<1>7. FrameTypes
  BY <1>1, <1>4, <1>5, <1>6 DEF FrameTypes, F!Idle
<1>8. VersionsOK
  BY <1>1, <1>2 DEF VersionsOK
<1>9. \A f \in Frames : \A n \in 1 .. Len(revisions[f]) : RevisionOK(f, n)
  <2> SUFFICES ASSUME NEW f \in Frames, NEW n \in 1 .. Len(revisions[f]) PROVE RevisionOK(f, n)
    OBVIOUS
  <2>1. f \in DOMAIN Initial /\ revisions[f][n] = row(f)
    BY <1>1
  <2> QED
    BY <1>1, <1>3, <2>1 DEF RevisionOK
<1>10. \A o \in Ops : FrameReceiptOK(o)
  BY <1>1 DEF FrameReceiptOK
<1>11. \A a \in Attempts : AttemptOK(a)
  BY <1>6 DEF AttemptOK, KnowsOK, F!Idle, Working
<1> QED
  BY <1>7, <1>8, <1>9, <1>10, <1>11 DEF FramesInv

\* Every step keeps the invariant.
LEMMA FramesStep ==
  ASSUME F!FrameConstants, FramesInv, [F!Next]_F!vars
  PROVE  FramesInv'
<1>1. ASSUME NEW a \in Attempts,
             \/ F!Load(a) \/ F!ReadReceipt(a) \/ F!ReadCurrent(a) \/ F!CheckEvidence(a)
             \/ F!Settle(a) \/ F!Reject(a) \/ F!Replay(a) \/ F!ShowConflict(a)
      PROVE  FramesInv'
  BY <1>1, LoadStep, ReadReceiptStep, ReadCurrentStep, CheckEvidenceStep, SettleStep, RejectStep, ReplayStep,
     ShowConflictStep
<1>2. CASE UNCHANGED F!vars
  <2>1. FramesStay /\ FrameTypes' /\ VersionsOK'
    BY <1>2 DEF F!vars, FramesStay, FramesInv, FrameTypes, VersionsOK
  <2>2. \A f \in Frames : \A n \in 1 .. Len(revisions'[f]) : n <= Len(revisions[f])
    BY <1>2 DEF F!vars, FramesInv, FrameTypes
  <2>3. \A o \in Ops : frameReceipts[o] = F!NoReceipt => FrameReceiptOK(o)'
    BY <1>2 DEF F!vars, FrameReceiptOK
  <2> QED
    BY <1>2, <2>1, <2>2, <2>3, StoresMore DEF F!vars
<1> QED
  BY <1>1, <1>2, CommitCaseStep DEF F!Next

\* The invariant holds throughout.
LEMMA FramesInvariant ==
  ASSUME F!FrameConstants
  PROVE  F!Spec => []FramesInv
<1>1. F!Init => FramesInv
  BY FramesInit
<1>2. FramesInv /\ [F!Next]_F!vars => FramesInv'
  BY FramesStep
<1> QED
  BY <1>1, <1>2, PTL DEF F!Spec

\* What a revision selects is the content of its receipt.
LEMMA RevisionsHold == FramesInv => F!FramesAreKept
<1> SUFFICES ASSUME FramesInv PROVE F!FramesAreKept
  OBVIOUS
<1>1. ASSUME NEW f \in Frames, NEW n \in 1 .. Len(revisions[f]), revisions[f][n].op # InitOp
      PROVE  F!Hydrated(f, n) = frameReceipts[revisions[f][n].op].envelope.content
  <2> DEFINE e == frameReceipts[revisions[f][n].op].envelope
  <2>1. revisions[f][n].op \in Ops /\ frameReceipts[revisions[f][n].op].outcome = "committed"
        /\ revisions[f][n].selection = e.selection
    BY <1>1 DEF FramesInv, RevisionOK
  <2>2. IsContent(e.content) /\ DOMAIN e.selection = DOMAIN e.content
        /\ \A x \in DOMAIN e.content : versions[e.selection[x]] = e.content[x]
    <3>1. PICK o : o = revisions[f][n].op
      OBVIOUS
    <3>2. FrameReceiptOK(o) /\ frameReceipts[o].outcome = "committed"
      BY <2>1, <3>1 DEF FramesInv
    <3>3. frameReceipts[o] # F!NoReceipt
      BY <3>2 DEF F!NoReceipt
    <3> QED
      BY <3>1, <3>2, <3>3 DEF FrameReceiptOK, EnvelopeOK
  <2>3. F!Hydrated(f, n) = [x \in DOMAIN e.content |-> e.content[x]]
    BY <2>1, <2>2 DEF F!Hydrated
  <2> QED
    BY <2>2, <2>3 DEF IsContent
<1>2. \A a \in Attempts : call[a].shown # 0 => call[a].shown # call[a].req.base
  BY DEF FramesInv, AttemptOK, KnowsOK
<1> QED
  BY <1>1, <1>2 DEF F!FramesAreKept, F!Latest

\* And so it is after a step.
LEMMA RevisionsHoldNext == FramesInv' => F!FramesAreKept'
  BY RevisionsHold, PTL

\* What a revision selects is the Frame that its operation submitted, and a conflicting edit
\* is shown another revision than the one it was based on (frame/index.mjs:598-603, 2239-2271).
THEOREM FramesKept == F!Spec => []FramesAreKept
<1>1. F!Spec => []FramesInv
  BY FramesAssumption, FramesInvariant
<1>2. FramesInv => FramesAreKept
  BY RevisionsHold DEF FramesAreKept
<1> QED
  BY <1>1, <1>2, PTL

\* What a revision of a Frame refers to is there: a revision of the same Frame from which an
\* item was reopened, and a commit of the Case that realizes a disposition.
ReopenOK(f, n) ==
  \A i \in F!Of(Items, F!Hydrated(f, n)) :
    LET item == F!Hydrated(f, n)[i] IN
    /\ item.reopened # None =>
         \E m \in 1 .. (n - 1) :
           /\ F!VersionOf(f, m, i) = item.reopened /\ F!Hydrated(f, m)[i].lifecycle # "active"
           /\ \A l \in (m + 1) .. n : F!VersionOf(f, l, i) = F!VersionOf(f, n, i)
    /\ n >= 2 /\ i \in DOMAIN revisions[f][n - 1].selection =>
         (F!Hydrated(f, n - 1)[i].lifecycle # "active" /\ item.lifecycle = "active" =>
            item.reopened = F!VersionOf(f, n - 1, i))

RealizedOK(f, n) ==
  \A d \in F!Of(Dispositions, F!Hydrated(f, n)) :
    F!Hydrated(f, n)[d].state = "settled" => Founded(F!Hydrated(f, n)[d])

FoundedInv ==
  /\ FramesInv
  /\ \A f \in Frames : \A n \in 1 .. Len(revisions[f]) : ReopenOK(f, n) /\ RealizedOK(f, n)

\* A revision that is stored goes on holding what it holds.
LEMMA HydratedStays ==
  ASSUME FramesInv, FramesStay, NEW f \in Frames, NEW n \in 1 .. Len(revisions[f])
  PROVE  F!Hydrated(f, n)' = F!Hydrated(f, n) /\ \A i : F!VersionOf(f, n, i)' = F!VersionOf(f, n, i)
<1>1. revisions'[f][n] = revisions[f][n] /\ RevisionOK(f, n)
  BY DEF FramesInv, FramesStay
<1> QED
  BY <1>1 DEF F!Hydrated, F!VersionOf, FramesStay, RevisionOK

\* What a revision refers to stays.
LEMMA FoundationsStay ==
  ASSUME FoundedInv, FramesStay, NEW f \in Frames, NEW n \in 1 .. Len(revisions[f])
  PROVE  ReopenOK(f, n)' /\ RealizedOK(f, n)'
<1>1. FramesInv /\ ReopenOK(f, n) /\ RealizedOK(f, n) /\ Len(revisions[f]) \in Nat
  BY DEF FoundedInv, FramesInv, FrameTypes
<1>2. \A m \in 1 .. n : /\ m \in 1 .. Len(revisions[f]) /\ revisions'[f][m] = revisions[f][m]
                        /\ F!Hydrated(f, m)' = F!Hydrated(f, m)
                        /\ \A i : F!VersionOf(f, m, i)' = F!VersionOf(f, m, i)
  <2> SUFFICES ASSUME NEW m \in 1 .. n
               PROVE  /\ m \in 1 .. Len(revisions[f]) /\ revisions'[f][m] = revisions[f][m]
                      /\ F!Hydrated(f, m)' = F!Hydrated(f, m)
                      /\ \A i : F!VersionOf(f, m, i)' = F!VersionOf(f, m, i)
    OBVIOUS
  <2>1. m \in 1 .. Len(revisions[f])
    BY <1>1
  <2> QED
    BY <1>1, <2>1, HydratedStays DEF FramesStay
<1>3. \A d : Founded(d) => Founded(d)'
  BY DEF Founded, FramesStay
<1>4. RealizedOK(f, n)'
  <2>1. F!Hydrated(f, n)' = F!Hydrated(f, n)
    BY <1>1, <1>2
  <2>2. RealizedOK(f, n)' <=>
          \A d \in F!Of(Dispositions, F!Hydrated(f, n)) :
            F!Hydrated(f, n)[d].state = "settled" => Founded(F!Hydrated(f, n)[d])'
    BY <2>1 DEF RealizedOK, F!Of, Founded
  <2>3. PICK h : h = F!Hydrated(f, n)
    OBVIOUS
  <2>4. \A d \in F!Of(Dispositions, h) : h[d].state = "settled" => Founded(h[d])
    BY <1>1, <2>3 DEF RealizedOK
  <2>5. \A d \in F!Of(Dispositions, h) : h[d].state = "settled" => Founded(h[d])'
    BY <1>3, <2>4
  <2> QED
    BY <2>1, <2>3, <2>5 DEF RealizedOK, F!Of, Founded
<1>5. ReopenOK(f, n)'
  <2> SUFFICES ASSUME NEW i \in F!Of(Items, F!Hydrated(f, n))
               PROVE  LET item == F!Hydrated(f, n)[i] IN
                      /\ item.reopened # None =>
                           \E m \in 1 .. (n - 1) :
                             /\ F!VersionOf(f, m, i)' = item.reopened /\ F!Hydrated(f, m)'[i].lifecycle # "active"
                             /\ \A l \in (m + 1) .. n : F!VersionOf(f, l, i)' = F!VersionOf(f, n, i)'
                      /\ n >= 2 /\ i \in DOMAIN revisions'[f][n - 1].selection =>
                           (F!Hydrated(f, n - 1)'[i].lifecycle # "active" /\ item.lifecycle = "active" =>
                              item.reopened = F!VersionOf(f, n - 1, i)')
    BY <1>2 DEF ReopenOK, F!Of
  <2> DEFINE item == F!Hydrated(f, n)[i]
  <2>1. ASSUME item.reopened # None
        PROVE  \E m \in 1 .. (n - 1) :
                 /\ F!VersionOf(f, m, i)' = item.reopened /\ F!Hydrated(f, m)'[i].lifecycle # "active"
                 /\ \A l \in (m + 1) .. n : F!VersionOf(f, l, i)' = F!VersionOf(f, n, i)'
    <3>1. PICK m \in 1 .. (n - 1) :
            /\ F!VersionOf(f, m, i) = item.reopened /\ F!Hydrated(f, m)[i].lifecycle # "active"
            /\ \A l \in (m + 1) .. n : F!VersionOf(f, l, i) = F!VersionOf(f, n, i)
      BY <1>1, <2>1 DEF ReopenOK
    <3>2. \A l \in m .. n : l \in 1 .. n
      BY <3>1
    <3> QED
      BY <1>2, <3>1, <3>2
  <2>2. n >= 2 => n - 1 \in 1 .. n
    OBVIOUS
  <2> QED
    BY <1>1, <1>2, <2>1, <2>2 DEF ReopenOK
<1> QED
  BY <1>4, <1>5

\* A new revision of a Frame refers to what is there.
LEMMA SettleFounds ==
  ASSUME F!FrameConstants, FoundedInv, NEW a \in Attempts, F!Settle(a)
  PROVE  FoundedInv'
<1>1. PICK r, e, f, n : r = call[a].req /\ e = call[a].envelope /\ f = r.frame /\ n = Len(revisions[f]) + 1
  OBVIOUS
<1>2. PICK c : c = e.content
  OBVIOUS
<1>3. /\ FramesInv' /\ FramesStay
      /\ r.op \in Ops /\ f \in Frames /\ r.base = n - 1 /\ e = Built(r)
      /\ Len(revisions'[f]) = n /\ frameReceipts'[r.op].envelope = e
      /\ revisions'[f][n].op = r.op /\ revisions'[f][n].selection = e.selection
      /\ \A g \in Frames : g # f => revisions'[g] = revisions[g]
  BY <1>1, SettleStep DEF FoundedInv
<1>4. n \in Nat \ {0} /\ Len(revisions[f]) \in Nat /\ \A m \in 1 .. (n - 1) : m \in 1 .. Len(revisions[f])
  <2>1. Len(revisions[f]) \in Nat
    BY <1>3 DEF FoundedInv, FramesInv, FrameTypes
  <2> QED
    BY <1>1, <2>1
<1>5. /\ call[a].pc = "commit" /\ frameReceipts[r.op] = F!NoReceipt /\ F!Latest(f) = r.base
      /\ KnowsOK(call[a]) /\ c = call[a].content
  BY <1>1, <1>2 DEF F!Settle, FoundedInv, FramesInv, AttemptOK, KnowsOK
<1>6. F!Hydrated(f, n)' = c
  <2>1. revisions'[f][n].op # InitOp /\ n \in 1 .. F!Latest(f)'
    BY <1>3, <1>4 DEF F!FrameConstants, F!Latest
  <2>2. F!Hydrated(f, n)' = frameReceipts'[revisions'[f][n].op].envelope.content
    BY <1>3, <2>1, RevisionsHoldNext DEF F!FramesAreKept
  <2> QED
    BY <1>2, <1>3, <2>2
<1>7. F!WellFormed(c) /\ (r.base = 0 => F!CanBegin(c)) /\ (r.base # 0 => F!Follows(f, r.base, c))
      /\ \A d \in F!Of(Dispositions, c) : c[d].state = "settled" => Founded(c[d])
  BY <1>1, <1>5 DEF KnowsOK, Working
<1>8. RealizedOK(f, n)'
  <2>1. \A d \in F!Of(Dispositions, c) : c[d].state = "settled" => Founded(c[d])'
    BY <1>3, <1>7 DEF Founded, FramesStay
  <2> QED
    BY <1>6, <2>1 DEF RealizedOK, F!Of, Founded
<1>9. \A m \in 1 .. (n - 1) : /\ revisions'[f][m] = revisions[f][m] /\ F!Hydrated(f, m)' = F!Hydrated(f, m)
                             /\ \A i : F!VersionOf(f, m, i)' = F!VersionOf(f, m, i)
  BY <1>3, <1>4, HydratedStays DEF FoundedInv, FramesStay
<1>10. ReopenOK(f, n)'
  <2> SUFFICES ASSUME NEW i \in F!Of(Items, c)
               PROVE  /\ c[i].reopened # None =>
                           \E m \in 1 .. (n - 1) :
                             /\ F!VersionOf(f, m, i) = c[i].reopened /\ F!Hydrated(f, m)[i].lifecycle # "active"
                             /\ \A l \in (m + 1) .. n : F!VersionOf(f, l, i)' = F!VersionOf(f, n, i)'
                      /\ n >= 2 /\ i \in DOMAIN revisions[f][n - 1].selection =>
                           (F!Hydrated(f, n - 1)[i].lifecycle # "active" /\ c[i].lifecycle = "active" =>
                              c[i].reopened = F!VersionOf(f, n - 1, i))
    <3>1. n >= 2 => n - 1 \in 1 .. (n - 1)
      BY <1>4
    <3> QED
      BY <1>6, <1>9, <3>1 DEF ReopenOK, F!Of
  <2>1. CASE r.base = 0
    BY <1>3, <1>4, <1>7, <2>1 DEF F!CanBegin
  <2>2. CASE r.base # 0
    <3> DEFINE b == n - 1
               prior == F!Hydrated(f, b)[i]
               known == i \in DOMAIN revisions[f][b].selection
    <3>1. b \in 1 .. (n - 1) /\ b = r.base /\ n = b + 1 /\ b >= 1 /\ b \in 1 .. Len(revisions[f])
      BY <1>3, <1>4, <2>2
    <3>2. F!ItemFollows(f, b, c, i) /\ F!ItemOk(c[i])
      BY <1>7, <2>2, <3>1 DEF F!Follows, F!WellFormed
    <3>3. CASE ~known
      BY <3>2, <3>3 DEF F!ItemFollows
    <3>4. CASE known /\ prior.lifecycle # "active"
      <4>1. c[i].lifecycle = "active" => c[i].reopened = F!VersionOf(f, b, i)
        BY <3>2, <3>4 DEF F!ItemFollows
      <4>2. c[i].reopened # None => c[i].lifecycle = "active"
        BY <3>2 DEF F!ItemOk
      <4>3. \A l \in (b + 1) .. n : l = n
        BY <3>1
      <4> QED
        BY <3>1, <3>4, <4>1, <4>2, <4>3
    <3>5. CASE known /\ prior.lifecycle = "active"
      <4> SUFFICES ASSUME c[i].reopened # None
                   PROVE  \E m \in 1 .. (n - 1) :
                            /\ F!VersionOf(f, m, i) = c[i].reopened /\ F!Hydrated(f, m)[i].lifecycle # "active"
                            /\ \A l \in (m + 1) .. n : F!VersionOf(f, l, i)' = F!VersionOf(f, n, i)'
        BY <3>5
      <4>1. c[i] = prior
        BY <3>2, <3>5 DEF F!ItemFollows
      <4>2. ReopenOK(f, b) /\ i \in F!Of(Items, F!Hydrated(f, b))
        BY <1>3, <3>1, <3>5 DEF FoundedInv, F!Of, F!Hydrated
      <4>3. PICK m \in 1 .. (b - 1) :
              /\ F!VersionOf(f, m, i) = prior.reopened /\ F!Hydrated(f, m)[i].lifecycle # "active"
              /\ \A l \in (m + 1) .. b : F!VersionOf(f, l, i) = F!VersionOf(f, b, i)
        BY <4>1, <4>2 DEF ReopenOK
      <4>4. F!VersionOf(f, n, i)' = F!VersionOf(f, b, i)
        <5>1. prior = versions[revisions[f][b].selection[i]] /\ i \in DOMAIN c
          BY <3>5 DEF F!Hydrated, F!Of
        <5>2. Base(r) = revisions[f][b].selection
          BY <1>1, <2>2, <3>1 DEF Base
        <5>3. e.content = ContentOf(r) /\ e.fresh = F!Fresh(ContentOf(r), Base(r), {})
              /\ e.selection = [x \in DOMAIN ContentOf(r) |->
                   IF x \in F!Fresh(ContentOf(r), Base(r), {}) THEN F!Allocated(r, x) ELSE Base(r)[x]]
          BY <1>3 DEF Built, F!Envelope
        <5>4. i \notin F!Fresh(c, Base(r), {})
          BY <3>5, <4>1, <5>1, <5>2 DEF F!Fresh
        <5>5. e.selection[i] = Base(r)[i]
          BY <1>2, <5>1, <5>3, <5>4
        <5> QED
          BY <1>3, <5>2, <5>5 DEF F!VersionOf
      <4>5. m \in 1 .. (n - 1) /\ \A l \in (m + 1) .. n : l = n \/ (l \in (m + 1) .. b /\ l \in 1 .. (n - 1))
        BY <3>1, <4>3
      <4> HIDE DEF prior, b, known
      <4>6. \A l \in (m + 1) .. n : F!VersionOf(f, l, i)' = F!VersionOf(f, n, i)'
        BY <1>9, <4>3, <4>4, <4>5
      <4> QED
        BY <4>1, <4>3, <4>5, <4>6
    <3> QED
      BY <3>3, <3>4, <3>5
  <2> QED
    BY <2>1, <2>2
<1>11. ASSUME NEW g \in Frames, NEW m \in 1 .. Len(revisions'[g])
       PROVE  ReopenOK(g, m)' /\ RealizedOK(g, m)'
  <2>1. CASE g = f /\ m = n
    BY <1>8, <1>10, <2>1
  <2>2. CASE ~(g = f /\ m = n)
    <3>1. m \in 1 .. Len(revisions[g])
      <4>1. CASE g = f
        <5>1. m \in 1 .. n /\ m # n
          BY <1>3, <2>2, <4>1
        <5>2. n = Len(revisions[f]) + 1
          BY <1>1
        <5> QED
          BY <1>4, <4>1, <5>1, <5>2
      <4>2. CASE g # f
        BY <1>3, <4>2
      <4> QED
        BY <4>1, <4>2
    <3> QED
      BY <1>3, <3>1, FoundationsStay
  <2> QED
    BY <2>1, <2>2
<1> QED
  BY <1>3, <1>11 DEF FoundedInv

\* What exists at the start was not reopened, and settles nothing.
LEMMA FoundedInit ==
  ASSUME F!FrameConstants, F!Init
  PROVE  FoundedInv
<1>1. FramesInv
  BY FramesInit
<1>2. ASSUME NEW f \in Frames, NEW n \in 1 .. Len(revisions[f])
      PROVE  /\ n = 1
             /\ \A x \in DOMAIN F!Hydrated(f, n) : \E g \in DOMAIN Initial :
                  x \in DOMAIN Initial[g] /\ F!Hydrated(f, n)[x] = Initial[g][x]
  <2> DEFINE sel == [x \in DOMAIN Initial[f] |-> <<InitOp, x>>]
             row == [op |-> InitOp, selection |-> sel]
             made == {<<InitOp, x>> : x \in UNION {DOMAIN Initial[g] : g \in DOMAIN Initial}}
             of(y) == CHOOSE g \in DOMAIN Initial : y \in DOMAIN Initial[g]
  <2>1. /\ versions = [v \in made |-> Initial[of(v[2])][v[2]]]
        /\ revisions[f] = IF f \in DOMAIN Initial THEN <<row>> ELSE <<>>
    BY DEF F!Init
  <2>2. n = 1 /\ f \in DOMAIN Initial /\ revisions[f][n] = row
    BY <2>1
  <2>3. ASSUME NEW x \in DOMAIN F!Hydrated(f, n)
        PROVE  \E g \in DOMAIN Initial : x \in DOMAIN Initial[g] /\ F!Hydrated(f, n)[x] = Initial[g][x]
    <3>1. x \in DOMAIN Initial[f] /\ F!Hydrated(f, n)[x] = versions[<<InitOp, x>>]
      BY <2>2 DEF F!Hydrated
    <3>2. <<InitOp, x>> \in made /\ <<InitOp, x>>[2] = x
      BY <2>2, <3>1
    <3>3. of(x) \in DOMAIN Initial /\ x \in DOMAIN Initial[of(x)]
      BY <2>2, <3>1
    <3> HIDE DEF of, made
    <3>4. versions[<<InitOp, x>>] = Initial[of(x)][x]
      BY <2>1, <3>2
    <3> QED
      BY <3>1, <3>3, <3>4
  <2> QED
    BY <2>2, <2>3
<1>3. ASSUME NEW f \in Frames, NEW n \in 1 .. Len(revisions[f])
      PROVE  ReopenOK(f, n) /\ RealizedOK(f, n)
  <2> DEFINE h == F!Hydrated(f, n)
  <2>1. n = 1 /\ \A x \in DOMAIN h : (x \in Items => h[x].reopened = None)
                                      /\ (x \in Dispositions => h[x].state # "settled")
    BY <1>2 DEF F!FrameConstants
  <2> HIDE DEF h
  <2>2. ReopenOK(f, n)
    BY <2>1 DEF ReopenOK, F!Of, h
  <2>3. RealizedOK(f, n)
    BY <2>1 DEF RealizedOK, F!Of, h
  <2> QED
    BY <2>2, <2>3
<1> QED
  BY <1>1, <1>3 DEF FoundedInv

\* What revisions refer to is there throughout.
LEMMA FoundedInvariant ==
  ASSUME F!FrameConstants
  PROVE  F!Spec => []FoundedInv
<1>1. F!Init => FoundedInv
  BY FoundedInit
<1>2. FoundedInv /\ [F!Next]_F!vars => FoundedInv'
  <2> SUFFICES ASSUME FoundedInv, [F!Next]_F!vars PROVE FoundedInv'
    OBVIOUS
  <2>1. FramesInv /\ FramesInv'
    BY FramesStep DEF FoundedInv
  <2>2. CASE \E a \in Attempts : F!Settle(a)
    BY <2>2, SettleFounds
  <2>3. CASE UNCHANGED <<versions, revisions, caseRevisions>> \/ \E k \in FrameCases, o \in CaseOps : F!CommitCase(k, o)
    <3>1. UNCHANGED <<versions, revisions>>
      BY <2>3 DEF F!CommitCase
    <3>2. \A f \in Frames : \A n : F!Hydrated(f, n)' = F!Hydrated(f, n)
                                   /\ \A i : F!VersionOf(f, n, i)' = F!VersionOf(f, n, i)
      BY <3>1 DEF F!Hydrated, F!VersionOf
    <3>3. \A d : Founded(d) => Founded(d)'
      <4>1. ASSUME NEW k \in FrameCases, NEW o \in CaseOps, F!CommitCase(k, o), NEW c \in FrameCases,
                   NEW n \in DOMAIN caseRevisions[c]
            PROVE  n \in DOMAIN caseRevisions'[c] /\ caseRevisions'[c][n] = caseRevisions[c][n]
        <5>1. PICK s : s = caseRevisions[k]
          OBVIOUS
        <5>2. \E S : s \in Seq(S)
          BY <2>1, <5>1 DEF FramesInv, FrameTypes
        <5>3. /\ \E S : Append(s, o) \in Seq(S)
              /\ Len(s) \in Nat /\ Len(Append(s, o)) = Len(s) + 1 /\ Append(s, o)[Len(s) + 1] = o
              /\ \A m \in 1 .. Len(s) : Append(s, o)[m] = s[m]
              /\ DOMAIN s = 1 .. Len(s) /\ DOMAIN Append(s, o) = 1 .. (Len(s) + 1)
          BY ONLY <5>2, AppendsAny
        <5>4. \A m \in DOMAIN s : m \in DOMAIN Append(s, o) /\ Append(s, o)[m] = s[m]
          BY <5>3
        <5>5. caseRevisions'[c] = caseRevisions[c] \/ (c = k /\ caseRevisions'[c] = Append(s, o))
          BY <2>1, <4>1, <5>1 DEF F!CommitCase, FramesInv, FrameTypes
        <5> QED
          BY <4>1, <5>1, <5>4, <5>5
      <4>2. \A c \in FrameCases : \A n \in DOMAIN caseRevisions[c] :
              n \in DOMAIN caseRevisions'[c] /\ caseRevisions'[c][n] = caseRevisions[c][n]
        BY <2>3, <4>1
      <4> QED
        BY <4>2 DEF Founded
    <3>4. ASSUME NEW f \in Frames, NEW n \in 1 .. Len(revisions'[f])
          PROVE  ReopenOK(f, n)' /\ RealizedOK(f, n)'
      <4>1. ReopenOK(f, n) /\ RealizedOK(f, n)
        BY <3>1 DEF FoundedInv
      <4>2. ReopenOK(f, n)'
        BY <3>1, <3>2, <4>1 DEF ReopenOK, F!Of
      <4>3. RealizedOK(f, n)'
        <5>1. PICK h : h = F!Hydrated(f, n)
          OBVIOUS
        <5>2. h = F!Hydrated(f, n)'
          BY <3>2, <5>1
        <5>3. \A d \in F!Of(Dispositions, h) : h[d].state = "settled" => Founded(h[d])'
          BY <3>3, <4>1, <5>1 DEF RealizedOK
        <5> QED
          BY <5>2, <5>3 DEF RealizedOK, F!Of, Founded
      <4> QED
        BY <4>2, <4>3
    <3> QED
      BY <2>1, <3>4 DEF FoundedInv
  <2>4. \A a \in Attempts : F!Load(a) \/ F!ReadReceipt(a) \/ F!ReadCurrent(a) \/ F!CheckEvidence(a)
          \/ F!Reject(a) \/ F!Replay(a) \/ F!ShowConflict(a) => UNCHANGED <<versions, revisions, caseRevisions>>
    BY DEF F!Load, F!ReadReceipt, F!ReadCurrent, F!CheckEvidence, F!Reject, F!Replay, F!ShowConflict, F!store
  <2> QED
    BY <2>2, <2>3, <2>4 DEF F!Next, F!vars
<1> QED
  BY <1>1, <1>2, PTL DEF F!Spec

\* A committed revision is founded on versions and realizations that stay.
THEOREM RevisionsFounded == F!Spec => []RevisionsAreFounded
<1>1. FoundedInv => RevisionsAreFounded
  <2> SUFFICES ASSUME FoundedInv PROVE RevisionsAreFounded
    OBVIOUS
  <2>1. \A f \in Frames : Len(revisions[f]) \in Nat
    BY DEF FoundedInv, FramesInv, FrameTypes
  <2>2. F!ReopensNamePrior
    <3> SUFFICES ASSUME NEW f \in Frames, NEW n \in 2 .. F!Latest(f), NEW i \in F!Of(Items, F!Hydrated(f, n))
                 PROVE  LET item == F!Hydrated(f, n)[i]
                            known == i \in DOMAIN revisions[f][n - 1].selection
                        IN /\ item.reopened # None =>
                                \E m \in 1 .. (n - 1) :
                                  /\ F!VersionOf(f, m, i) = item.reopened
                                  /\ F!Hydrated(f, m)[i].lifecycle # "active"
                                  /\ \A l \in (m + 1) .. n : F!VersionOf(f, l, i) = F!VersionOf(f, n, i)
                           /\ known /\ F!Hydrated(f, n - 1)[i].lifecycle # "active" /\ item.lifecycle = "active" =>
                                item.reopened = F!VersionOf(f, n - 1, i)
      BY DEF F!ReopensNamePrior
    <3>1. n \in 1 .. Len(revisions[f]) /\ n >= 2
      BY <2>1 DEF F!Latest
    <3>2. ReopenOK(f, n)
      BY <3>1 DEF FoundedInv
    <3> QED
      BY <3>1, <3>2 DEF ReopenOK
  <2>3. F!RealizedByCases
    BY DEF F!RealizedByCases, FoundedInv, RealizedOK, Founded, F!Latest
  <2> QED
    BY <2>2, <2>3 DEF RevisionsAreFounded
<1>2. F!Spec => []FoundedInv
  BY FramesAssumption, FoundedInvariant
<1> QED
  BY <1>1, <1>2, PTL

\* A retry allocates again what was allocated, from its receipt and the versions that were never rewritten.
THEOREM RetriesAnswered == F!Spec => RetriesAreAnswered
<1>1. FramesInv /\ [F!Next]_F!vars => [\A q \in Attempts : F!RetryIsAnswered(q)]_F!vars
  <2> SUFFICES ASSUME FramesInv, [F!Next]_F!vars, ~(UNCHANGED F!vars), NEW a \in Attempts,
                      call[a].pc = "receipt", call'[a].pc # "receipt",
                      frameReceipts[call[a].req.op] # F!NoReceipt,
                      frameReceipts[call[a].req.op].outcome = "committed",
                      frameReceipts[call[a].req.op].envelope.req = call[a].req
               PROVE  call'[a].envelope = frameReceipts[call[a].req.op].envelope
    BY DEF F!RetryIsAnswered
  <2>1. ASSUME NEW b \in Attempts, b # a,
               \/ F!Load(b) \/ F!ReadReceipt(b) \/ F!ReadCurrent(b) \/ F!CheckEvidence(b)
               \/ F!Settle(b) \/ F!Reject(b) \/ F!Replay(b) \/ F!ShowConflict(b)
        PROVE  call'[a] = call[a]
    BY <2>1 DEF F!Load, F!ReadReceipt, F!ReadCurrent, F!CheckEvidence, F!Settle, F!Reject, F!Replay,
       F!ShowConflict,
                F!Answers, F!Assembles, FramesInv, FrameTypes
  <2>2. ~F!Load(a) /\ ~F!ReadCurrent(a) /\ ~F!CheckEvidence(a) /\ ~F!Settle(a) /\ ~F!Reject(a) /\ ~F!Replay(a)
        /\ ~F!ShowConflict(a)
    BY DEF F!Load, F!ReadCurrent, F!CheckEvidence, F!Settle, F!Reject, F!Replay, F!ShowConflict
  <2>3. F!ReadReceipt(a)
    BY <2>1, <2>2 DEF F!Next, F!CommitCase
  <2>4. PICK r, e, c : r = call[a].req /\ e = frameReceipts[r.op].envelope /\ c = call[a].content
    OBVIOUS
  <2> DEFINE own == {F!Allocated(r, x) : x \in e.fresh}
  <2>5. KnowsOK(call[a]) /\ r.op \in Ops /\ FrameReceiptOK(r.op) /\ c = ContentOf(r)
    BY <2>4 DEF FramesInv, AttemptOK, KnowsOK, Working, IsRequest
  <2>6. /\ e = Built(r) /\ e.content = c /\ DOMAIN e.selection = DOMAIN c
        /\ \A x \in DOMAIN c :
             /\ versions[e.selection[x]] = c[x]
             /\ x \notin e.fresh => e.selection[x][1] # r.op
             /\ x \in e.fresh => e.selection[x] = <<r.op, x>>
    <3>1. frameReceipts[r.op].outcome = "committed" /\ frameReceipts[r.op] # F!NoReceipt
      BY <2>4
    <3>2. EnvelopeOK(e) /\ e = Built(e.req) /\ e.req = r
          /\ \A x \in DOMAIN e.content : versions[e.selection[x]] = e.content[x]
                                       /\ (x \notin e.fresh => e.selection[x][1] # r.op)
      BY <2>4, <2>5, <3>1 DEF FrameReceiptOK
    <3>3. e.content = c
      BY <2>5, <3>2 DEF Built, F!Envelope
    <3> QED
      BY <3>2, <3>3 DEF EnvelopeOK
  <2>7. /\ e = [req |-> r, content |-> c, fresh |-> F!Fresh(c, Base(r), {}),
                selection |-> [x \in DOMAIN c |->
                  IF x \in F!Fresh(c, Base(r), {}) THEN F!Allocated(r, x) ELSE Base(r)[x]]]
        /\ e.fresh = F!Fresh(c, Base(r), {})
    BY <2>5, <2>6 DEF Built, F!Envelope
  <2>8. CASE r.base = 0
    <3>1. call' = [call EXCEPT ![a].pc = "evidence", ![a].envelope = F!Envelope(r, c, F!Nothing, {})]
      BY <2>3, <2>4, <2>8 DEF F!ReadReceipt, F!Assembles
    <3>2. F!Envelope(r, c, F!Nothing, {}) = e
      BY <2>5, <2>6, <2>8 DEF Built, Base
    <3> QED
      BY <2>4, <3>1, <3>2 DEF FramesInv, FrameTypes
  <2>9. CASE r.base # 0
    <3>1. F!KeepsDispositions(e.selection, c)
      BY <2>6 DEF F!KeepsDispositions
    <3>2. call' = [call EXCEPT ![a].pc = "evidence", ![a].envelope = F!Envelope(r, c, e.selection, own)]
      <4>1. F!Assembles(a, e.selection, own)
        BY <2>3, <2>4, <2>9, <3>1 DEF F!ReadReceipt
      <4> QED
        BY <2>4, <4>1 DEF F!Assembles
    <3>3. F!Fresh(c, e.selection, own) = e.fresh
      <4>1. \A x \in DOMAIN c : e.selection[x] \in own <=> x \in e.fresh
        <5>1. ASSUME NEW v \in own PROVE v[1] = r.op
          BY DEF F!Allocated
        <5>2. \A x \in e.fresh : <<r.op, x>> \in own
          BY DEF F!Allocated
        <5> HIDE DEF own
        <5> QED
          BY <2>6, <5>1, <5>2
      <4>2. e.fresh \subseteq DOMAIN c
        BY <2>7 DEF F!Fresh
      <4> HIDE DEF own
      <4> QED
        BY <2>6, <4>1, <4>2 DEF F!Fresh
    <3>4. [x \in DOMAIN c |-> IF x \in e.fresh THEN F!Allocated(r, x) ELSE e.selection[x]] = e.selection
      <4>1. e.selection = [x \in DOMAIN c |-> e.selection[x]]
        BY <2>7
      <4> QED
        BY <2>6, <4>1 DEF F!Allocated
    <3>5. F!Envelope(r, c, e.selection, own) = e
      <4> HIDE DEF own
      <4>1. F!Envelope(r, c, e.selection, own) =
              [req |-> r, content |-> c, fresh |-> e.fresh, selection |-> e.selection]
        BY <3>3, <3>4 DEF F!Envelope
      <4>2. e = [req |-> r, content |-> c, fresh |-> e.fresh, selection |-> e.selection]
        BY <2>7
      <4> QED
        BY <4>1, <4>2
    <3> QED
      BY <2>4, <3>2, <3>5 DEF FramesInv, FrameTypes
  <2> QED
    BY <2>8, <2>9
<1>2. F!Spec => []FramesInv
  BY FramesAssumption, FramesInvariant
<1> QED
  BY <1>1, <1>2, PTL DEF F!Spec, RetriesAreAnswered

-------------------------------------------------------------------------------
\* The entries of the projection

\* What is said of a family names a revision of the owner whose family it is, or none.
IsNaming(rev, family) == rev = None \/ \E n \in 1 .. MaxNumber : rev = <<family[1], n>>

IsReference(r) == IsNaming(r.observed, r.target) /\ IsNaming(r.pinned, r.target)

OwnerOK(c, o) ==
  /\ c[o].number \in 0 .. MaxNumber
  /\ DOMAIN c[o].selected \subseteq E!Families(o)
  /\ \A f \in DOMAIN c[o].selected : \A r \in c[o].selected[f] : IsReference(r)

\* What purges have taken out of the generation that was built last
Taken == {e \in E!Built(source) : e.of \notin {o \in purged : source[o].number # 0}}

EntriesInv ==
  /\ DOMAIN corpus = Owners /\ \A o \in Owners : OwnerOK(corpus, o)
  /\ \A o \in purged : o \in Owners /\ corpus[o].number = 0
  /\ status = "current" => generation = E!Built(source)
  /\ generation # None => generation = Taken

\* The owner that selects a family is the one that it is named by.
LEMMA NamesItsOwner ==
  ASSUME E!EntriesConstants, NEW c, \A o \in Owners : OwnerOK(c, o), NEW f
  PROVE  /\ E!RevisionOf(c, f) = None => \A o \in E!Present(c) : f \notin DOMAIN c[o].selected
         /\ E!RevisionOf(c, f) # None =>
              /\ f[1] \in E!Present(c) /\ f \in DOMAIN c[f[1]].selected
              /\ E!RevisionOf(c, f) = <<f[1], c[f[1]].number>> /\ c[f[1]].number \in 1 .. MaxNumber
<1>1. CASE \E o \in E!Present(c) : f \in DOMAIN c[o].selected
  <2> DEFINE o == CHOOSE p \in E!Present(c) : f \in DOMAIN c[p].selected
  <2>1. o \in E!Present(c) /\ f \in DOMAIN c[o].selected /\ E!RevisionOf(c, f) = <<o, c[o].number>>
    BY <1>1 DEF E!RevisionOf, E!Revision
  <2> HIDE DEF o
  <2>2. o \in Owners /\ c[o].number \in 1 .. MaxNumber /\ f[1] = o
    BY <2>1 DEF E!Present, OwnerOK, E!Families, E!EntriesConstants
  <2>3. E!RevisionOf(c, f) # None
    BY <2>1, <2>2 DEF E!EntriesConstants
  <2> QED
    BY <2>1, <2>2, <2>3
<1>2. CASE ~ \E o \in E!Present(c) : f \in DOMAIN c[o].selected
  BY <1>2 DEF E!RevisionOf
<1> QED
  BY <1>1, <1>2

\* A reference asks for attention exactly if nobody selects its family or the owner went on.
LEMMA DueIsNotCurrent ==
  ASSUME E!EntriesConstants, NEW c, \A o \in Owners : OwnerOK(c, o), NEW r, IsReference(r)
  PROVE  (E!Condition(c, r) # "current") <=>
           \/ \A o \in E!Present(c) : r.target \notin DOMAIN c[o].selected
           \/ r.observed # None /\ c[r.target[1]].number # r.observed[2]
           \/ r.pinned # None /\ c[r.target[1]].number # r.pinned[2]
<1> DEFINE now == E!RevisionOf(c, r.target)
<1>1. CASE now = None
  <2>1. E!Condition(c, r) = "unknown"
    BY <1>1 DEF E!Condition
  <2> QED
    BY <1>1, <2>1, NamesItsOwner
<1>2. CASE now # None
  <2>1. /\ r.target[1] \in E!Present(c) /\ r.target \in DOMAIN c[r.target[1]].selected
        /\ now = <<r.target[1], c[r.target[1]].number>> /\ c[r.target[1]].number \in 1 .. MaxNumber
    BY <1>2, NamesItsOwner
  <2>2. ASSUME NEW rev, IsNaming(rev, r.target)
        PROVE  rev \notin {None, now} <=> rev # None /\ c[r.target[1]].number # rev[2]
    BY <2>1, <2>2 DEF IsNaming
  <2>3. (r.pinned \notin {None, now} <=> r.pinned # None /\ c[r.target[1]].number # r.pinned[2])
        /\ (r.observed \notin {None, now} <=> r.observed # None /\ c[r.target[1]].number # r.observed[2])
    BY <2>2 DEF IsReference
  <2>4. E!Condition(c, r) = "current" <=> r.pinned \in {None, now} /\ r.observed \in {None, now}
    <3>1. CASE r.pinned \notin {None, now}
      BY <1>2, <3>1 DEF E!Condition
    <3>2. CASE r.pinned \in {None, now} /\ r.observed \notin {None, now}
      BY <1>2, <3>2 DEF E!Condition
    <3>3. CASE r.pinned \in {None, now} /\ r.observed \in {None, now}
      BY <1>2, <3>3 DEF E!Condition
    <3> QED
      BY <3>1, <3>2, <3>3
  <2> QED
    BY <2>1, <2>3, <2>4
<1> QED
  BY <1>1, <1>2

\* What a version may say names revisions that are.
LEMMA SayingsAreReferences ==
  ASSUME E!EntriesConstants, EntriesInv, NEW o \in Owners, NEW refs \in E!Sayings(o), NEW r \in refs
  PROVE  IsReference(r)
<1> DEFINE now(f)   == E!RevisionOf(corpus, f)
           said     == {i.reference : i \in E!ReferencesOf(corpus, o)}
           again(q) == [q EXCEPT !.pinned = now(q.target)]
           fresh    == UNION {{E!Reference(f, None, None), E!Reference(f, now(f), None), E!Reference(f, None, now(f))} :
                              f \in UNION {E!Families(p) : p \in Owners} \cup {Elsewhere}}
<1>1. refs \in {{}} \cup (IF o \notin Writers THEN {}
                ELSE {{q} : q \in fresh \cup said}
                     \cup {{again(q)} : q \in said} \cup {{q, again(q)} : q \in said})
  BY DEF E!Sayings
<1>2. r \in fresh \/ r \in said \/ \E q \in said : r = again(q)
  <2> HIDE DEF fresh, said, again
  <2> QED
    BY <1>1
<1>3. \A f : IsNaming(now(f), f)
  <2> SUFFICES ASSUME NEW f PROVE IsNaming(now(f), f)
    OBVIOUS
  <2>1. now(f) # None => now(f) = <<f[1], corpus[f[1]].number>> /\ corpus[f[1]].number \in 1 .. MaxNumber
    BY NamesItsOwner DEF EntriesInv
  <2> HIDE DEF now
  <2> QED
    BY <2>1 DEF IsNaming
<1>4. \A q \in said : IsReference(q) /\ DOMAIN q = DOMAIN q
  BY DEF E!ReferencesOf, EntriesInv, OwnerOK
<1>5. CASE r \in fresh
  <2> HIDE DEF now
  <2>1. PICK f : r \in {E!Reference(f, None, None), E!Reference(f, now(f), None), E!Reference(f, None, now(f))}
    BY <1>5
  <2> QED
    BY <1>3, <2>1 DEF IsReference, IsNaming, E!Reference
<1>6. CASE \E q \in said : r = again(q)
  <2>1. PICK q \in said : r = again(q)
    BY <1>6
  <2> HIDE DEF now, said
  <2>2. IsReference(q)
    BY <1>4
  <2>3. r.target = q.target /\ r.observed = q.observed /\ (r.pinned = now(q.target) \/ r.pinned = q.pinned)
    BY <2>1
  <2> HIDE DEF again
  <2> QED
    BY <1>3, <2>2, <2>3 DEF IsReference
<1> QED
  BY <1>2, <1>4, <1>5, <1>6

\* A commit of an owner keeps what is known of all.
LEMMA CommitKeepsEntries ==
  ASSUME E!EntriesConstants, EntriesInv, NEW o \in Owners, E!Commit(o)
  PROVE  EntriesInv'
<1>1. PICK refs \in E!Sayings(o), part \in {"profile", Resource}, lifecycle \in {"active", "tombstoned"} :
        corpus' = [corpus EXCEPT ![o] =
          [number |-> corpus[o].number + 1, lifecycle |-> lifecycle,
           selected |-> [f \in {<<o, "profile">>, <<o, part>>} |-> IF f = <<o, part>> THEN refs ELSE {}]]]
  BY DEF E!Commit
<1> DEFINE sel == [f \in {<<o, "profile">>, <<o, part>>} |-> IF f = <<o, part>> THEN refs ELSE {}]
           row == [number |-> corpus[o].number + 1, lifecycle |-> lifecycle, selected |-> sel]
<1>2. DOMAIN sel \subseteq E!Families(o) /\ \A f \in DOMAIN sel : \A r \in sel[f] : r \in refs
  BY DEF E!Families
<1>3. row.number = corpus[o].number + 1 /\ row.selected = sel
  OBVIOUS
<1>4. o \notin purged /\ corpus[o].number < MaxNumber /\ corpus' = [corpus EXCEPT ![o] = row]
      /\ UNCHANGED <<generation, status, source, purged>>
  BY <1>1 DEF E!Commit
<1> HIDE DEF sel, row
<1>5. corpus'[o] = row /\ DOMAIN corpus' = Owners /\ \A p \in Owners : p # o => corpus'[p] = corpus[p]
  BY <1>4 DEF EntriesInv
<1>6. OwnerOK(corpus, o)'
  <2>1. corpus[o].number + 1 \in 0 .. MaxNumber
    BY <1>4 DEF EntriesInv, OwnerOK, E!EntriesConstants
  <2>2. \A f \in DOMAIN sel : \A r \in sel[f] : IsReference(r)
    BY <1>2, SayingsAreReferences
  <2> QED
    BY <1>2, <1>3, <1>5, <2>1, <2>2 DEF OwnerOK
<1>7. \A p \in Owners : OwnerOK(corpus, p)'
  BY <1>5, <1>6 DEF EntriesInv, OwnerOK
<1> QED
  BY <1>4, <1>5, <1>7 DEF EntriesInv, Taken

\* What an entry of each kind is of
LEMMA EntryForms ==
  ASSUME NEW c, NEW e
  PROVE  /\ e \in E!Lexical(c) => \E o \in E!Present(c) : \E w : e = E!Entry("lexical", o, w)
         /\ e \in E!Reverse(c) => \E i \in E!Referring(c) : \E w : e = E!Entry("reverse_reference", i.source, w)
         /\ e \in E!Staleness(c) => \E i \in E!Referring(c) : \E w : e = E!Entry("staleness", i.source, w)
         /\ e \in E!Attention(c) => \E o \in E!Present(c) : \E w : E!Pending(c, o) # {}
              /\ e = E!Entry("attention", o, w)
<1>1. e \in E!Lexical(c) => \E o \in E!Present(c) : \E w : e = E!Entry("lexical", o, w)
  BY DEF E!Lexical
<1>2. e \in E!Reverse(c) => \E i \in E!Referring(c) : \E w : e = E!Entry("reverse_reference", i.source, w)
  BY DEF E!Reverse
<1>3. e \in E!Staleness(c) => \E i \in E!Referring(c) : \E w : e = E!Entry("staleness", i.source, w)
  BY DEF E!Staleness
<1>4. e \in E!Attention(c) => \E o \in E!Present(c) : \E w : E!Pending(c, o) # {} /\ e = E!Entry("attention", o, w)
  BY DEF E!Attention
<1> QED
  BY <1>1, <1>2, <1>3, <1>4

\* The fields of an entry
LEMMA EntryFields ==
  ASSUME NEW k, NEW o, NEW w
  PROVE  E!Entry(k, o, w).kind = k /\ E!Entry(k, o, w).of = o /\ E!Entry(k, o, w).payload = w
  BY DEF E!Entry

\* What is built of a corpus is of the owners that are in it.
LEMMA BuiltIsOfPresent ==
  ASSUME NEW c, NEW e \in E!Built(c)
  PROVE  e.of \in E!Present(c) /\ (e.kind = "attention" => E!Pending(c, e.of) # {})
<1>1. \A i \in E!Referring(c) : i.source \in E!Present(c)
  BY DEF E!Referring, E!ReferencesOf
<1>2. CASE e \in E!Lexical(c)
  <2>1. PICK o \in E!Present(c) : \E w : e = E!Entry("lexical", o, w)
    BY <1>2, EntryForms
  <2> QED
    BY <2>1, EntryFields
<1>3. CASE e \in E!Reverse(c)
  <2>1. PICK i \in E!Referring(c) : \E w : e = E!Entry("reverse_reference", i.source, w)
    BY <1>3, EntryForms
  <2> QED
    BY <1>1, <2>1, EntryFields
<1>4. CASE e \in E!Staleness(c)
  <2>1. PICK i \in E!Referring(c) : \E w : e = E!Entry("staleness", i.source, w)
    BY <1>4, EntryForms
  <2> QED
    BY <1>1, <2>1, EntryFields
<1>5. CASE e \in E!Attention(c)
  <2>1. PICK o \in E!Present(c) : \E w : E!Pending(c, o) # {} /\ e = E!Entry("attention", o, w)
    BY <1>5, EntryForms
  <2> QED
    BY <2>1, EntryFields
<1> QED
  BY <1>2, <1>3, <1>4, <1>5 DEF E!Built

\* A rebuild builds the entries of the corpus, from which nobody was purged.
LEMMA RebuildKeepsEntries ==
  ASSUME EntriesInv, E!Rebuild
  PROVE  EntriesInv'
<1>1. UNCHANGED <<corpus, purged>>
  BY DEF E!Rebuild
<1>2. DOMAIN corpus' = Owners /\ (\A o \in Owners : OwnerOK(corpus, o)')
      /\ \A o \in purged' : o \in Owners /\ corpus'[o].number = 0
  BY <1>1 DEF EntriesInv, OwnerOK
<1>3. CASE E!Fits(corpus)
  <2>1. generation' = E!Built(corpus) /\ source' = corpus
    BY <1>3 DEF E!Rebuild
  <2>2. {o \in purged' : source'[o].number # 0} = {}
    BY <1>1, <2>1 DEF EntriesInv
  <2>3. E!Built(source)' = E!Built(corpus)
    BY <2>1
  <2>4. Taken' = E!Built(corpus)
    BY <2>2, <2>3 DEF Taken
  <2> QED
    BY <1>2, <2>1, <2>3, <2>4 DEF EntriesInv
<1>4. CASE ~E!Fits(corpus)
  <2>1. UNCHANGED <<generation, source>> /\ status' = IF generation = None THEN "unavailable" ELSE "stale"
    BY <1>4 DEF E!Rebuild
  <2> QED
    BY <1>1, <1>2, <2>1 DEF EntriesInv, Taken
<1> QED
  BY <1>3, <1>4

\* A purge takes the entries of one owner, if there are any.
LEMMA PurgeKeepsEntries ==
  ASSUME E!EntriesConstants, EntriesInv, NEW o \in Owners, E!Purge(o)
  PROVE  EntriesInv'
<1>1. /\ corpus' = [corpus EXCEPT ![o] = E!Absent] /\ purged' = purged \cup {o} /\ UNCHANGED source
      /\ IF generation # None /\ \E e \in generation : e.of = o
         THEN generation' = {e \in generation : ~(e.of = o)} /\ status' = "stale"
         ELSE UNCHANGED <<generation, status>>
  BY DEF E!Purge, E!PurgeTargets
<1>2. E!Absent.number = 0 /\ DOMAIN E!Absent.selected = {}
  BY DEF E!Absent
<1>3. corpus'[o] = E!Absent /\ DOMAIN corpus' = Owners /\ \A p \in Owners : p # o => corpus'[p] = corpus[p]
  BY <1>1 DEF EntriesInv
<1>4. \A p \in Owners : OwnerOK(corpus, p)'
  <2>1. 0 \in 0 .. MaxNumber
    BY DEF E!EntriesConstants
  <2> QED
    BY <1>2, <1>3, <2>1 DEF EntriesInv, OwnerOK
<1>5. \A p \in purged' : p \in Owners /\ corpus'[p].number = 0
  BY <1>1, <1>2, <1>3 DEF EntriesInv
<1>6. PICK all : all = E!Built(source)
  OBVIOUS
<1>7. Taken = {e \in all : e.of \notin {p \in purged : source[p].number # 0}}
      /\ Taken' = {e \in all : e.of \notin {p \in purged \cup {o} : source[p].number # 0}}
  BY <1>1, <1>6 DEF Taken
<1>8. \A e \in all : e.of = o => source[o].number # 0
  BY <1>6, BuiltIsOfPresent DEF E!Present
<1>9. Taken' = {e \in Taken : ~(e.of = o)}
  BY <1>7, <1>8
<1>10. E!Built(source)' = all
  BY <1>1, <1>6
<1>11. (status' = "current" => generation' = all) /\ (generation' # None => generation' = Taken')
  BY <1>1, <1>6, <1>9 DEF EntriesInv
<1> QED
  BY <1>3, <1>4, <1>5, <1>10, <1>11 DEF EntriesInv

\* What is known of owners and entries is so throughout.
LEMMA EntriesInvariant ==
  ASSUME E!EntriesConstants
  PROVE  E!Spec => []EntriesInv
<1>1. ASSUME E!Init PROVE EntriesInv
  <2>1. \A o \in Owners : OwnerOK(corpus, o)
    BY <1>1 DEF E!Init, E!Absent, OwnerOK, E!EntriesConstants
  <2> QED
    BY <1>1, <2>1 DEF E!Init, EntriesInv
<1>2. ASSUME EntriesInv, UNCHANGED E!vars PROVE EntriesInv'
  BY <1>2 DEF E!vars, EntriesInv, OwnerOK, Taken
<1>3. EntriesInv /\ [E!Next]_E!vars => EntriesInv'
  BY <1>2, CommitKeepsEntries, RebuildKeepsEntries, PurgeKeepsEntries DEF E!Next
<1> QED
  BY <1>1, <1>3, PTL DEF E!Spec

\* An entry names its owner and a reference a revision of it, so a purge can tell its own.
THEOREM EntriesCorrect == E!Spec => []EntriesAreTrue
<1>1. ASSUME EntriesInv PROVE EntriesAreTrue
  <2>1. E!PurgeTakesItsOwn
    BY <1>1 DEF EntriesInv, E!PurgeTakesItsOwn, Taken
  <2>2. ASSUME E!Exact, NEW o \in E!Present(corpus)
        PROVE  /\ (\E e \in generation : e.kind = "attention" /\ e.of = o) <=> E!Pending(corpus, o) # {}
               /\ \A i \in E!ReferencesOf(corpus, o) :
                    \E e \in generation : e.kind = "reverse_reference" /\ e.payload[2] = i
    <3>1. generation = E!Built(corpus)
      BY <1>1, <2>2 DEF EntriesInv, E!Exact
    <3>3. ASSUME NEW e \in generation, e.kind = "attention"
          PROVE  E!Pending(corpus, e.of) # {}
      BY <3>1, <3>3, BuiltIsOfPresent
    <3>4. ASSUME E!Pending(corpus, o) # {}
          PROVE  \E e \in generation : e.kind = "attention" /\ e.of = o
      <4> DEFINE e == E!Entry("attention", o,
                              {<<i.reference, E!Condition(corpus, i.reference)>> : i \in E!Pending(corpus, o)})
      <4>1. e \in E!Attention(corpus)
        BY <2>2, <3>4 DEF E!Attention
      <4>2. e \in generation
        BY <3>1, <4>1 DEF E!Built
      <4> HIDE DEF e
      <4>3. e.kind = "attention" /\ e.of = o
        BY EntryFields DEF e
      <4> QED
        BY <4>2, <4>3
    <3>5. ASSUME NEW i \in E!ReferencesOf(corpus, o)
          PROVE  \E e \in generation : e.kind = "reverse_reference" /\ e.payload[2] = i
      <4> DEFINE w == <<E!Revision(i.source, corpus), i>>
                 e == E!Entry("reverse_reference", i.source, w)
      <4>1. i \in E!Referring(corpus)
        BY <2>2, <3>5 DEF E!Referring
      <4>2. e \in generation
        BY <3>1, <4>1 DEF E!Reverse, E!Built
      <4>3. w[2] = i
        OBVIOUS
      <4> HIDE DEF e, w
      <4>4. e.kind = "reverse_reference" /\ e.payload = w
        BY EntryFields DEF e
      <4> QED
        BY <4>2, <4>3, <4>4
    <3> QED
      BY <3>3, <3>4, <3>5
  <2>3. ASSUME NEW o \in E!Present(corpus)
        PROVE  E!Pending(corpus, o) # {} <=>
                 \E i \in E!ReferencesOf(corpus, o) :
                   LET r == i.reference IN
                   \/ \A p \in E!Present(corpus) : r.target \notin DOMAIN corpus[p].selected
                   \/ r.observed # None /\ corpus[r.target[1]].number # r.observed[2]
                   \/ r.pinned # None /\ corpus[r.target[1]].number # r.pinned[2]
    <3>1. \A i \in E!ReferencesOf(corpus, o) : IsReference(i.reference)
      BY <1>1, <2>3 DEF EntriesInv, OwnerOK, E!ReferencesOf, E!Present
    <3>2. \A p \in Owners : OwnerOK(corpus, p)
      BY <1>1 DEF EntriesInv
    <3>3. \A i \in E!ReferencesOf(corpus, o) : LET r == i.reference IN
            (E!Condition(corpus, r) # "current") <=>
               \/ \A p \in E!Present(corpus) : r.target \notin DOMAIN corpus[p].selected
               \/ r.observed # None /\ corpus[r.target[1]].number # r.observed[2]
               \/ r.pinned # None /\ corpus[r.target[1]].number # r.pinned[2]
      BY <3>1, <3>2, EntriesAssumption, DueIsNotCurrent
    <3> QED
      BY <3>3 DEF E!Pending
  <2>4. E!DriftIsTold
    <3> SUFFICES ASSUME E!Exact PROVE
          \A o \in E!Present(corpus) :
         /\ (\E e \in generation : e.kind = "attention" /\ e.of = o)
              <=> \E i \in E!ReferencesOf(corpus, o) : LET r == i.reference IN
                   \/ \A p \in E!Present(corpus) : r.target \notin DOMAIN corpus[p].selected
                   \/ r.observed # None /\ corpus[r.target[1]].number # r.observed[2]
                   \/ r.pinned # None /\ corpus[r.target[1]].number # r.pinned[2]
         /\ \A i \in E!ReferencesOf(corpus, o) :
              \E e \in generation : e.kind = "reverse_reference" /\ e.payload[2] = i
      BY DEF E!DriftIsTold
    <3> QED
      BY <2>2, <2>3
  <2> QED
    BY <2>1, <2>4 DEF EntriesAreTrue
<1>2. E!Spec => []EntriesInv
  BY EntriesAssumption, EntriesInvariant
<1> QED
  BY <1>1, <1>2, PTL
===============================================================================
