---------------------------- MODULE MCStoreLifecycle ----------------------------
\* What becomes of the files of a store, in one of five parts that have nothing in common:
\* two calls initialize a store, and two attempts of one snapshot and another snapshot
\* compete for a file (StoreBootstrap); a store is restored (StoreRestore), exported
\* (StoreExport), or cut over to the final schema (StoreCutover); a successor is initialized
\* by grant (SuccessorBootstrap).
EXTENDS StoreFiles, TLC

CONSTANTS
  c1, c2, c3, c4, c5, i1, i2, s1, s2,   \* calls, initializations, snapshots
  p1, p2, f1, f2, o1, o2                          \* preflights, attempts, their operations

VARIABLE part

bootstrap == <<file, artifact, intent, at, read, outcome, answer, others, faulty>>
export    == <<states, settled, temporary, final, step, exported, observed, operation, terminal, fenceRead,
               attempts, moves, kills>>
cutover   == <<predecessor, retained, destination, phase, admitted, cutOver, writes, cutCrashes>>
grants    == <<grant, consumed, reservation, successor, stage, granted, record, initialized, grantCrashes, removals>>

R(kind, id, fence) == [kind |-> kind, operation |-> id, fence |-> fence]

MCPlan ==
  (c1 :> R("initialize", i1, 0)) @@ (c2 :> R("initialize", i2, 0)) @@
  (c3 :> R("snapshot", s1, SnapshotFence)) @@ (c4 :> R("snapshot", s1, SnapshotFence)) @@
  (c5 :> R("snapshot", s2, SnapshotFence + 1))

MCRequests == {MCPlan[c] : c \in DOMAIN MCPlan}

MCCalls      == DOMAIN MCPlan
MCOperations == {i1, i2, s1, s2}

MCPreflights    == {p1, p2}
MCFinalizations == {f1, f2}
MCOperationIds  == {o1, o2}    \* of exports, cutovers and grants
MCAttempts      == {f1, f2}
MCInitializers  == {c1, f1, f2}

allVars == <<part, vars, bootstrap, export, cutover, grants>>

LifeInit ==
  /\ part \in {"bootstrap", "restore", "export", "cutover", "grant"}
  /\ B!Init /\ Init /\ (part = "restore" \/ store = Target) /\ E!Init /\ C!Init /\ G!Init

LifeNext ==
  \/ part = "bootstrap" /\ B!Next /\ UNCHANGED <<part, vars, export, cutover, grants>>
  \/ part = "restore" /\ Next /\ UNCHANGED <<part, bootstrap, export, cutover, grants>>
  \/ part = "export" /\ E!Next /\ UNCHANGED <<part, vars, bootstrap, cutover, grants>>
  \/ part = "cutover" /\ C!Next /\ UNCHANGED <<part, vars, bootstrap, export, grants>>
  \/ part = "grant" /\ G!Next /\ UNCHANGED <<part, vars, bootstrap, export, cutover>>

LifeSpec == LifeInit /\ [][LifeNext]_allVars

Symmetry == Permutations({p1, p2}) \cup Permutations({f1, f2}) \cup Permutations({o1, o2})
===============================================================================
