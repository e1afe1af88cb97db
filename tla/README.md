# Formal models of agents-os

TLA+ models of the stateful parts of this repository, the configurations that
check them with TLC, and proofs of their main properties that TLAPS checks. The
models are translations of the code: every definition that models code names the
lines it stands for in `PROJECT.json` (`map`), and every hazard the models are
aimed at names the line where it bites (`hazards`).

Paths below are relative to the root of the repository, and *lib* is
`src/skills/casebook-persistence/variants/sqlite/lib/`.

1. The system - 2. Modules - 3. What TLC checks - 4. What is proved -
5. What is not modelled - 6. Disagreements met on the way - 7. What could come next

## 1. The system

agents-os is a collection of skills, agents and tools. Its programs that keep
state are these:

* **casebook-persistence** stores Cases and Frames for agents. A command-line
  tool (`src/packages/casebook-cli`) is its only ordinary client; many agents run
  it at once against one store. There are three stores: the *predecessor* SQLite
  store, which the `case/`, `frame/`, `operations/` and `export/` of *lib* work on;
  the *successor* SQLite store of the `*-successor` modules, `query/`, `context/`
  and `placement/`; and a *Markdown workspace* of plain files.
* **Steward** (`src/packages/steward`) keeps what the Global Steward has in
  custody, in one JSON file, and talks to the owners of Questions, observations
  and implementations.
* **pairs** runs two agents on one task, **pi-keysmith** binds keys,
  **agents-os.mjs** installs all of it, **hop** moves sessions.

### Inventory

| component | state | operations | interacts with | hard behaviour |
|---|---|---|---|---|
| successor commit and receipts, `substrate/mechanical-successor.mjs` | owners, immutable revisions, current revisions, events, receipts, fence | commit a revision, read a receipt, observe integrity, rebuild the projection | bootstrap (inspection), admission guards, embedded SQLite | separate reads before one transaction; retries; failures after a durable commit |
| Profile lifecycle, `profile/index.mjs` | Profile revisions with a lifecycle, one selection per admission slot | create, revise, activate, retire, read | same tables and fence as commit | activation races everything bound to the previous selection |
| admission guards, `resource/admission-guards.mjs` | none | predicates inside every transaction | every operation | a check outside the transaction, and again inside |
| embedded SQLite, `substrate/embedded-sqlite.mjs` | lock directory, database file, copy in memory | open, execute, close | file system, other processes | kills, stale locks, a failed fsync, timeouts |
| successor bootstrap, `substrate/bootstrap.mjs` | grant, record, reservation, store | initialize, inspect | file system | a kill between two files, two initializers, a removed store |
| reconciliation, `query/snapshot-reconcile.mjs` | snapshots, cursors, retention, checkpoints | begin, page, finish, events, checkpoint, expire | events and generations | snapshots of a moving history, expiry, stale cursors |
| Context and placement, `context/`, `placement/index.mjs` | Namespaces, Chats, Project defaults, generations | create, revise, retire, place | commit (placement guard) | placement evidence that is stale when used |
| Case and Frame facades, `case/successor.mjs`, `frame/successor.mjs` | the content of revisions, claims, query rows | complete commits, modular edits | placement, commit | an edit of a revision that was loaded before; retries |
| search, graph, cursors, handoff, `query/` | none | paged reads | generations | cursors over a store that moves |
| predecessor operations, `operations/`, `substrate/mechanical.mjs`, `case/index.mjs` | Cases, view policies, receipts, fence, disposable projection | commit, purge, rebuild, list; revise, activate and retire a view policy | each other, through the fence | what was read before a transaction is stale in it |
| predecessor Frames, `frame/index.mjs` | families, their versions, the versions each revision selects | complete commits, modular operations, hydration | Case commits that realize dispositions | retries allocate versions again; items that are reopened |
| projection and discovery, `substrate/projection.mjs`, `mechanical.mjs` | entries of generations | rebuild, purge; discover, hydrate | commits and purges | drift between references and revisions; pages of a moving corpus |
| predecessor files, `substrate/index.mjs`, `operations/`, `export/`, `substrate/cutover.mjs` | store file, snapshot and intent, restore journal, copies, bundles | initialize, snapshot, restore, export, cut over | file system, commits | interrupted between two files; attempts that overlap |
| Markdown workspace, `variants/markdown/lib/workspace.mjs` | dossiers, generations, a selector | commit, cleanup, read | file system, people | kills and power losses between renames and flushes |
| Steward store, `steward.mjs` 60-135 | one JSON file, one lock file | read, transact | file system, other processes | kills, stale locks, retries |
| Steward custody, `steward.mjs` 137-460, 562-581 | Spaces, Intakes, Matters, Questions, baselines | see module StewardCustody | the store; the owners of Questions and observations | decisions made from what was read earlier; an owner that moves meanwhile |
| Steward admission, `steward.mjs` 582-663 | admissions by envelope digest | submit, recover | the store; the Software Implementation owner | lost and late replies, duplicated submissions |
| casebook-cli and bridge | none | parse, dispatch, exit status | casebook-persistence | what an exit status promises |
| pairs, `src/pairs` | artifacts and an index of runs, sessions; streams of the bus | run a pair, inspect it; publish | agent sessions, sockets | a failure at any await; messages in pieces |
| pi-keysmith, `plugins/pi-keysmith` | a leader sequence with two timers, a registry, an editor mode | press, expire, register, load | other extensions, the editor | a timeout racing a key; a registry that changes below a sequence |
| agents-os.mjs, `scripts` | generated trees, links | sync, doctor | people, other checkouts | a sync that is stopped; links of somebody else |
| hop, `harness_config/pi/agent/extensions/hop` | hand-off files | hop to a session | tmux | none that is its own |

### What makes them correct

* An operation with an identity has one outcome, however often it is tried, by
  whomever, and whatever fails; its rows and its receipt agree, and its callers are
  told of it.
* The revisions of an owner form one history; a revision is written on the one
  its author saw.
* Nothing is settled under an admission, or a view, that ended before it settled.
* A repair (rebuild, restore, recovery of a lock or of an admission, cleanup) does
  not change what it repairs, and does not repeat what may have been done.
* What is derived (projections, claims, search rows, links) follows what it is
  derived from, and what is read in pages is of one state.
* What one client was told is durable, and nobody overwrites it: not at a kill, not
  at a power loss.
* The Steward never says more than an owner said, nor a paired run more than its
  agents.
* Every call ends, a lock whose holder died is taken over, and a timer that is due
  is served.

## 2. Modules

| module | models | state |
|---|---|---|
| `OperationLedger` | what the successor store promises (abstract) | history of each owner, outcome and meaning of each operation |
| `SuccessorStore` | commit, Profile operations, rebuild, receipts, with all their failure paths | the tables; per attempt, where it is, what it read, what it was told |
| `PackageLock` | the lock, the copy in memory and the replacement of the file | lock directory, `owner.json`, file, copies, killed processes |
| `SuccessorBootstrap` | initialization of a successor by a grant | grants, records, the reservation, the store; per attempt, its stage |
| `Reconciliation` | snapshots of the owners, their pages and the event feed, while the store moves | fence, events, snapshots; per consumer, the call, the tokens it was given, what it knows |
| `PlacedOwners` | Frames and Cases on the successor: facades, placement, Namespaces, search | histories with placements, generations, claims, query rows, receipts; calls, administrators, searches |
| `PredecessorStore` | operations on Cases, view policies, the projection and lists | fence, Cases, policies, receipts, generations; per process, what it has read |
| `PredecessorFrames` | complete and modular operations on a Frame | versions, revisions with their selections, receipts; Case commits; attempts |
| `ProjectionEntries` | what a projection says of references, and what a purge takes out | the corpus, the entries, the corpus they were built from |
| `IdentityDiscovery` | queries and walks in pages, hydration | histories with content, fence, the client's pages |
| `StoreBootstrap` | initialization and snapshot of a predecessor store | store file, snapshot file, intent; calls |
| `StoreRestore` | restore from a snapshot | store, retained copy, quarantine, journal; the call |
| `StoreExport` | preflight and finalization of an export | states of the store, bundles under two names, receipts; calls |
| `StoreCutover` | cutover to the final schema | source, retained copy, destination; attempts |
| `MarkdownWorkspace` | commits, cleanup and reads of the workspace | selector, generations, dossier, stages, and what of them is on the disk |
| `StewardStore` | `transact` and its lock file | lock file, file, drafts, killed processes |
| `StewardAdmission` | submission and recovery of an implementation admission | admissions, what the owner received and decided, calls |
| `StewardCustody` | Spaces, Intakes, Matters, Questions, baselines | the store; the owners; what each client saw |
| `PairedAgents` | `run_paired_agent` and the offline harnesses | per run, its stage and memory; artifacts, index |
| `PairBus` | the socket bus of the pairs | streams, what each reader keeps, what was received |
| `LeaderKeys` | leader sequences, timers, registry, trie | registry, runtime, leader state, editor mode |
| `AgentsOs` | `sync` | sources, generated trees, links, the invocation of each checkout |
| `StoreFiles` | `StoreRestore` beside `StoreBootstrap`, `StoreExport`, `StoreCutover` and `SuccessorBootstrap` | that of each |
| `StoreLock` | `PackageLock` under other names | |
| `PredecessorParts` | `PredecessorStore` beside `PredecessorFrames` and `ProjectionEntries` | that of each |
| `Tools` | `AgentsOs` beside `StewardAdmission`, `PairedAgents` and `PairBus` | that of each |
| `Keysmith` | `LeaderKeys` under other names | |
| `MC...` | the instances that TLC checks | |
| `...Proofs` | the theorems about each | |

How they fit together. A transaction on the successor store is one action in
`SuccessorStore`, and one transaction on the Steward's store one action in
`StewardStore`'s two users; `PackageLock` and `StewardStore` are the reason it
may be: both say when a session's change, once acknowledged, is in the file, and
`lost_update` and `KilledWriterRecovered` say when it is not. In the same way a
commit of `PlacedOwners` is one action because `SuccessorStore` shows what it
promises, and a commit of `PredecessorFrames`, and a rebuild or a purge of
`ProjectionEntries`, because `PredecessorStore` does. They are kept apart so that a
store with several clients at several places stays small enough to check.

Programs that share no state stand side by side in `StoreFiles`, `PredecessorParts` and
`Tools`, and `StoreLock` and `Keysmith` rename one so that it can stand beside others.
These modules state what their parts assume of the constants and what they promise, and
are extended both by the module of the run (`MCStoreLifecycle`, `MCPredecessorStore`,
`MCTools`, `MCPackageLock`, `MCLeaderKeys`) and by that of the proofs
(`StoreLifecycleProofs`, `PredecessorStoreProofs`, `ToolsProofs`), so that the formula
that TLC checks is the one that is proved. In the runs of the first three a variable
`part` chooses one of the parts in the initial state, and the others stay as they begin.
`IdentityDiscovery` is recursive, so only `MCPredecessorStore` has it.

### SuccessorStore

An *attempt* is one invocation of an operation. The JavaScript function is a
sequence of `await`s, and each of them is an action: `Inspect` (`prepare`),
`LookUpReceipt`, `CheckAdmission`, then the read of the operation's kind
(`ReadOwner`, `ReadProfile`, `ReadSelection` and `ReadTarget`, `CheckFence`), then
the transaction (`Commit`, `Revise`, `Activate`, `Retire`, `Rebuild`), then `Answer`.
A transaction's guard is the conjunction of its guard rows and unique keys; its
effect is one operator per table (`AppendRevision`, `AdvanceFence`, `Settle`).
`WriteFails` is a transaction that did not happen, and `Written` lets one that did
be reported as failed, because the file is replaced before its directory is
synchronised. The catch clauses are `Raced`, `Readmit`, `Reinspect`, `Reread`, and the
settlement of a rejection `Reject`, `RejectFails`, `Refuse`; a read there that fails
counts as "no" in the code and so it does here.

Data is abstracted: a request is its own digest, an owner's content is the
identity of the operation that wrote it, a Profile is the set of operation kinds
it admits. Query material, claims and placement are in `PlacedOwners`; policy
guards and the outbox are further guards and rows of the same transaction.

### SuccessorBootstrap

Each file next to the destination is written in an action of its own: the record
that consumes the grant and the removal of the grant (`ConsumeGrant`,
`UnlinkGrant`), the reservation (`ReserveDestination`), the store (`PublishStore`),
the record that it was published and that of the reservation. `Kill` comes between
any two, attempts of one operation or of two overlap, and an operator may `Remove`
the store.

### Reconciliation

A consumer of `snapshot-reconcile.mjs` asks `begin` for a snapshot, reads its owners
by `page`, calls `finish` with the completion token of the last page, and follows
`events.page` with the cursor it is given. Each query of those functions is an
action, so that writers come between any two of them: `Cleanup`; `ReadFence`,
`ReadSequence` and `Insert` of `begin`; `FindSnapshot` (`snapshotRecord`) and then
`Page`, `CountRows` and `Complete` of `finish`, or `CompareLineage` and `Feed` of
`events.page`. `Disclose` is the answer. A snapshot holds no rows: a page computes
them from the events up to its sequence, and so does `Rows`.

The writers are those of `SuccessorStore`, as far as the feed can tell: `Commit`
compares the fence and takes the next sequence, `Settle` takes a fence without an
event, and a Profile operation reads the fence (`ProfileReads`) and numbers its event
by it later (`ProfileWrites`). An owner is of one kind or the other (`Profiles`).
Bootstrap's own event has no owner, and an owner that bootstrap created is in no
snapshot until it changes; so it is in the code.

Tokens are signed, so a consumer presents only what it was given, but any of it: a
consumer that crashed presents an older one. `known` is what the consumer has been
told, and the properties are about it. `ForeignCleanup` is the cleanup of
everybody else's calls. Clocks are left out, any snapshot may be due; the retention
limit is left out, as nothing advances it. A checkpoint is always refused
(`CompareScope`): line 37 compares `cursor.snapshot_fence`, which no event cursor
has, with a number. What would follow there is not modelled.

### PlacedOwners

A call of a facade uses the store five times, and each is an action: `Load` the
revision that a modular edit applies to, `ReadReceipt`, `ResolveNamespace`,
`ReadCurrent` and then the commit: `Settle`, `Replay`, `Reject` or `Fail`. The content of
a Frame is the lifecycles of its Discovery items, its boundary and its disposition,
of a Case its state, text and aliases; an edit is a function of it. A commit writes the
revision with its placement, the claims and the query row by the flags that the
code computes before the transaction, and advances the generations by them.
Administrators revise, retire and create Namespaces in two steps; a search reads the
generations (`BeginPage`, `ReadScope`) and then rows (`ReadRows`), a handoff generations
and then its document.

### PredecessorStore

A process invokes an operation, reads with queries of their own (the view, the
receipt, the owner, the aliases, the projection), decides, and runs one transaction
that checks some of it again: which part is what the module is about. `Commits`,
`Purges`, `Rebuilds`, `Changes` are the guards of those transactions, and `EffectOf...`
their effects. A transaction may be lost, or take effect with its answer lost; the
process then looks for its receipt and settles a failure. A list is read in pages, each
bound to the fence of the first, and each page by two queries: one checks the view
(`List`, `NextPage`), the other reads what is visible under it (`ReadPage`), which is
nothing if the view has ended in between. Callers bind purges and rebuilds to
what they saw (`Plan`).

### PredecessorFrames

An attempt loads the current revision for a modular edit (`Load`), looks for its
receipt (`ReadReceipt`), reads the current revision again (`ReadCurrent`), looks up the
commits that realize its settled dispositions (`CheckEvidence`), and settles, is
replayed, rejected or shown a conflict. `Normalized` is what the code makes of a
Frame, `Follows` what it compares with the revision before; a family whose content
changed gets a version named by the operation, the others keep theirs (`Fresh`).
Cases are committed in between.

### ProjectionEntries and IdentityDiscovery

A reference of an owner names a family, and may have been observed or pinned at a
revision. `Built` is the projection of a corpus: lexical entries, an entry under the
target of each reference, the condition of the reference (`Condition`), and the owners
that need attention. `Purge` removes the entries that the code selects
(`PurgeTargets`). A discovery walks the links of active owners, nearest first, up to a
depth, and answers in pages; for each, `Discover` or `NextPage` checks the view, and
`ReadPage` reads the owners, with a query that finds none once the view is retired. `Hydrate` and `HydrateNext` read the
revisions that a handoff names, one after the other, while `Commit`, `Purge` and
`Retire` (of the view) go on.

### StoreBootstrap, StoreRestore, StoreExport, StoreCutover

Each call is the sequence of its file-system calls and transactions; a kill may
come between any two, and other processes commit meanwhile. In `StoreBootstrap` a new
store is linked to its name, a snapshot writes its intent, exports, verifies, and settles
a receipt unless the fence moved. In `StoreRestore` the prior store is copied aside,
the journal says how far the restore came, and a replacement that is not healthy is
quarantined and the copy put back; the call is replayed for ever. In `StoreExport` a
preflight reads the Cases, the Frames, the fragments and the fence at different fences,
and writes the bundle file by file; a finalization puts its marker in it and renames
it. In `StoreCutover` attempts bind to a retained copy, and link the new store to a
free name.

### MarkdownWorkspace

A Frame is a directory of generations that a selector file names; a Case is one
file. The writer stages, flushes, renames and flushes again, each an action, and
cleans up generations that are not selected (`Attributable`). `durable` is what is on
the disk: a power loss may undo, in any combination, what no flush has covered. A flush
that does not fail is taken to work (section 5).
Calls may be refused, fail (`Fails`), or be killed (`Kill`); people edit dossiers and
legacy Frames; a reader takes the selector and then the parts.

### PackageLock and StewardStore

Each file-system call is an action, because another process may come between two
of them. Ages and deadlines are
nondeterministic: a lock may be older than a minute or not, and a waiter may have
passed its deadline or not. Each call may fail. A process may be killed between any two
of them, or end after its own with its lock left behind (a failed removal): then it does
not exist, and its pid is not reused. A stale lock that cannot be removed is where the
two differ: the session of a package lock waits, as for any other
(`embedded-sqlite.mjs:82-86`), and gives up at its deadline; the Steward's transaction
goes round again at once, past the deadline and the sleep (`RecoveryFails`,
`steward.mjs:126-129`).

### StewardAdmission and StewardCustody

A call is the sequence of its reads, its calls to an owner and its one transaction.
The owners are outside the repository; they are modelled from how `steward.mjs`
uses them (`correlate`, `admit`, `recover`, `observe`, `project`, `submitAnswer`) and
marked external. An owner may decide late or never, and its reply may be lost; it
decides once. A custody client looks, and calls later with the revisions that it
saw, which is how the protocol is meant to be used; any call may be refused.

### PairedAgents and PairBus

One action of `PairedAgents` is what runs between two awaits: the call, the start of
the driver, its answer, the start and the answer of the advisor, how the driver handles
advice; a session or a prompt may fail at each, a write may be lost, the process may
exit. A text is the set of features that the patterns of the detectors find in it;
detectors and responders are functions of it, and the offline harnesses run them
without sessions. In `PairBus` a message is a frame of two pieces on a stream; a
reader gets any number of them at a time and keeps the rest.

### LeaderKeys

`Press...` are the branches of the wrapper and of the leader: a key is declined,
delegated, descends (`Descend`), dispatches, goes back (`BackOut`) or abandons the
sequence. `ExpireSequence` and `ShowWhichKey` are the timers. Registrations, disposals and
counted holders of shims change the registry, and a running session rebuilds its
handlers and the children of its root in place, while an open sequence keeps its
node. `seen` and `typed` are history that the properties speak of.

### AgentsOs

A sync renders the sources of a checkout into its generated tree and then, per
target, lists a directory, unlinks stale links and replaces or makes the others
(`Judge`, `Look`, `Link`, `Replace`, `Symlink`); it may be killed between any two calls.
Another checkout syncs the same directories, and people edit them. `Healthy` is what
`doctor` asks of skills, links, global instructions and profile.

## 3. What TLC checks

| run | instance | states | result |
|---|---|---|---|
| `successor_store` | 3 attempts, 1 Case, 1 Profile with 2 revisions, 9 requests | 543,732 | holds |
| `reconciliation` | 1 consumer, 1 snapshot, 2 owners and a Profile, pages of 1 or 2 | 154,486 | holds |
| `package_lock` | 3 sessions, 1 killed | 49,430 | holds |
| `steward_store` | 3 transactions, 1 killed | 93,475 | holds |
| `steward_custody` | 4 clients, 2 Spaces, 1 replay key, 2 contents | 1,471,891 | holds |
| `tools` | 4 admission calls; 2 paired runs, 1 fault; 3 clients of a bus; 2 checkouts, 2 syncs, 1 edit, 1 kill | 1,411,255 | holds |
| `markdown_workspace` | 2 generations, 2 dossiers, 2 legacy Frames, 1 reader, 2 faults | 2,088,105 | holds |
| `store_lifecycle` | 5 calls of bootstrap and snapshot; 1 restore, 3 faults; 2 preflights and 2 finalizations; 2 cutovers; 3 attempts of 2 grants | 419,466 | holds |
| `leader_keys` | 2 keys, 2 configured bindings, 2 keymaps, 1 shim with 2 holders | 81,280 | holds |
| `placed_owners` | 3 attempts, 1 Frame, 2 Cases, 2 Namespaces, 1 administrator, 1 search | 1,624,734 | holds |
| `predecessor_store` | 2 processes, 2 Cases, 3 policies, 1 fault; 4 attempts on a Frame; 2 owners with references; 3 owners that are discovered | 1,407,015 | holds |
| `lost_update` | that of `package_lock` | | violated |

**successor_store.** `OutcomesAreTrue` says what the store is for: one outcome per
operation, with exactly its rows (`OneOutcomePerOperation`), of which each client
is told (`AnswersMatchReceipts`). `SelectionGoverns`: one Profile selection at any time
(`OnlySelectedProfileActive`), and nothing settled under another
(`NothingSettlesUnderAReplacedSelection`). `EventsFollowHistory` is what order
observers of events may rely on: commits follow their owner's earlier events; Profile
operations need not. `ImplementsLedger` says all of it at once: each transaction is
one step of `OperationLedger`, which has no fences, no receipts and no reads.

**reconciliation.** `NothingIsMissed`: whoever holds an event cursor knows of every
Case, Frame and Namespace as of the cursor, whether it came by pages or by events,
and whatever was committed in between (`CursorsMissNoCommit`), and completion
follows every page (`CompletionFollowsEveryPage`). It excepts Profiles, because their
late events are the one way to be missed (section 6).

**package_lock, steward_store.** What was acknowledged is in the file as long as every
process exists (`NoLostUpdate` of `PackageLock`), or nobody has come upon the lock of a
dead holder (that of `StewardStore`); both are proved. After a recovery this is false
(`lost_update`), and `LossTakesThree` says how much it takes: the dead holder, one who
recovers the lock and is acknowledged, and one who removes that one's lock.
`EverySessionEnds` and `NobodyWaitsForever` are the liveness of the waiting loops. A
session always ends. A Steward transaction ends but for one case, which `EveryCallEnds`
names: it tries again and again to recover a dead holder's lock and fails, and no
deadline stops it. The lock of a dead holder is recovered unless the file system goes
on failing those who recover it or read it (`Unrecovered`).

**steward_custody.** `DecisionsAreSeen` is what every expected revision is for: the
thing a client changes is as it was shown to the client. It needs a Space's revision to
follow its Matters, which is done by hand in each operation. `QuestionsFollowOwner`
relates Questions to their owners across lost replies. `BaselinesAdvance`: an
acknowledgement that was prepared earlier never replaces one of later custody.

**tools.** `AdmissionsAreTrue`: an envelope is delivered once, which is the point of
recording "unknown" before calling the owner, and what is settled is what the owner
decided, though a submission and a recovery race. `SuccessIsSupervised`: a paired run is
a success only if nothing triggered the advisor, or a real advisor let it pass, or the
driver handled what it said. `RunsEndWell`: report, messages and index agree with the
answer, also when a prompt or a session failed after some of them were written, and
every session is closed. `OneOrderForAll`: clients of the bus see the messages of others
whole and in the order of the server, whatever the pieces. `SyncRepairs`: after a sync that
nobody disturbed, every link is what the sources say, whatever a stopped sync or another
checkout left; `UnmanagedIsKept`: what is neither a link of agents-os nor asked to be
replaced stays.

**markdown_workspace.** `SelectionIsWhole` and `SettledIsKept` relate the selector to
the disk after kills or power losses: why the order of renames and flushes is what it
is. `RemovalsAreHarmless`: a reader that finds its generation incomplete was overtaken by
a commit, and a commit finds its name taken only where a removal was cut short.
`Survivable` excludes stops and power losses in one behaviour: a call that is stopped
between a rename and its flush leaves a change that the next call builds on without
flushing it, and a power loss may then undo the older change and keep the newer one. The
order of flushes is not made for that, and it does not survive it.

**store_lifecycle.** `SnapshotIsTrue`: a receipt is of the file that is there, at the
fence it names. `PriorIsRetained`: at every moment of a restore the prior state is in
the store or whole in its copy. `ReceiptIsTrue`: the receipt tells which of the two states
the store is in. `ExportIsTrue`: a ready preflight is of one state of the store, and a
finalized bundle is there, whole, under its operation. `CutoverIsOneState`: the final
store is of one state of its source, the one its receipt names. `OneMaker`: everyone who is
told that a store was initialized is told of the one that is there.

**leader_keys.** `KeysAreFaithful`: keys are captured in normal mode only
(`CapturesInContext`), what is dispatched was spelt in a trie that was in force since the
leader (`SpellsWhatItRuns`), and a running session has the handlers and bindings of
the registry (`RegistryIsFollowed`). `TimersServe`: a sequence does not stay pending
unless keys keep coming, and a panel that shows an older menu is brought up to date.

**placed_owners.** `MaterialFollowsPlacement`: claims and query rows are those of the
current revision in its current Namespace. `HistoryBuilds`: every revision is the edit
of its operation applied to the revision before. `AnswersFollowReceipts`: answers, of
retries too, are those of the receipts. `PagesAgree`: the pages of a search are of one
state, but for the last (section 6).

**predecessor_store.** `StoreIsExact`: receipts carry every fence once, what was purged
is gone for good, and a current projection is exact. `SettledUnderTheirView`: what took
effect did so between the activation and the end of the view it names, although only
some transactions look at the view again. `ListIsASnapshot`: a list that ends is the
corpus of the fence of its first page, whatever is committed between its pages and between
the two queries of each; but it is empty, and succeeds all the same, if the view was
superseded or retired between the two queries of the first (`ListsAreComplete`, section
6). `FramesAreKept`: each revision of a Frame selects, family by family, what
was committed; `RevisionsAreFounded`: an item that was settled is active again only under
the version it names, and a settled disposition names a Case commit that happened.
`RetriesAreAnswered`: a retry that finds its receipt builds the same envelope again,
whatever became of the Frame. `EntriesAreTrue`: a projection tells every drift of a
reference, and a purge takes the entries of its owner and no others. `DiscoveryIsTrue`:
pages are of one state, complete up to the depth, and hydration yields what was
discovered; here too a view that is retired between the two queries of the first page
makes an empty answer that is called complete (`CompleteAsShown`, section 6).

### Bounds, and why they are enough

* *Attempts, sessions, transactions: 3, processes of the predecessor: 2.* Every race
  in the code is between a client, one that changes what it saw, and at most one more
  that changes it back or recovers. Losing an update takes exactly three, which
  `LossTakesThree` states. Many invariants are proved for any number (section 4).
* *One operation per attempt*, a retry being another attempt with the same request;
  processes of `PredecessorStore` go on to further ones. The requests are chosen to
  collide: same operation, same owner, same identity with another meaning, a changed
  selection or view, a fence that is right only at one time.
* *Kills, faults*: `MaxKilled` and `MaxFaults` of the predecessor are 1: the code treats
  what one dead process left at a time. `MaxFaults` is 3 for a restore, which is replayed
  after each, so that the rollback of a replay can fail too, and 2 for the workspace, so
  that the cleanup of what was cut short is cut short. Cutover, grants, exports, runs and
  syncs have one kill, beside attempts that overlap.
* *`MaxCommits` = 2* and fences 2 and 6 of a restore: commits come before and after
  the rename and the replacement does not reach the fence of the target; `MaxMoves`,
  `MaxWrites`, `MaxCurrentness`, `MaxChanges`: one or two moves, before or after any step.
* *Frames* have one or two items, one boundary and one disposition; *references* two
  owners with two revisions each (`MaxEntries` 6 caps what a revision refers to);
  *discovery* two corpora (a chain with a cycle, and a star) and eight queries, depth up
  to 2, pages of 1 or 2.
* *One consumer, `MaxLimit` = 2, `MaxFence` = 3* of reconciliation: consumers do not see
  each other except by cleanups, which `ForeignCleanup` makes as often as anyone could.
* *Two keys*, bindings of one and two keys, a keymap that adds to a group, one that
  stands in its way, and a shim that collides: every way a trie may change below a node.
* *Four clients in custody*: the depth of capture, place, change, acknowledge.
* *Three clients of the bus*, one of which publishes twice: two senders whose messages
  cross, and one that only receives.

Symmetry is used where members are interchangeable: the processes of
`PredecessorStore`, the preflights, finalizations and export operations of
`MCStoreLifecycle`, and the two checkouts of `MCTools`. Elsewhere the members of each
set carry different requests. Runs with liveness properties use none.

Deadlock is not checked where calls end and nothing else happens, which is every run
but `reconciliation` and `leader_keys`; there TLC looks for it. That calls do end is a
liveness property where the code waits (`EverySessionEnds`, `NobodyWaitsForever`).

### Fairness

`PackageLock` and `StewardStore` assume that the operating system runs every process
that exists (weak fairness of its next step), and that the deadline of a process
which waits again and again is reached (strong fairness of giving up, because
whether a waiter gives up is decided anew in each round: the code compares the
clock with a fixed deadline). Nothing is assumed of who gets the lock, and no call is
assumed to succeed: a removal may fail in every round. In the Steward's loop the ways
back that do not look at the clock (a lock that is gone by the time it is read, and the
recovery of a dead holder's lock, whether it works or fails) are steps of their own. The
strong fairness does not help a transaction that takes only these, as the clock does
not help the program; the first needs others to create and remove the lock, and that they
do only so often, so what is left is the failing recovery, which the property excepts.
That a dead holder's lock is recovered has the premise that the file system does not fail
for ever. A Steward caller that is told to retry does (`CallAgain`). `LeaderKeys` assumes that an armed
timer fires (weak fairness of `ExpireSequence` and `ShowWhichKey`); it assumes nothing of
keys, and a sequence that keys keep re-arming is excepted in `SequencesEnd`. The other
modules state safety only and assume no fairness.

## 4. What is proved

Every theorem below holds for any number of attempts, owners, processes, clients,
names and bounds, and any plan of requests. What the constants have to satisfy is
stated as `ASSUME`s in the modules that the proofs extend (`RequestAssumption`,
`ConstantAssumption`, `ReconciliationAssumption`, `TokenAssumption`,
`CustodyAssumption`, `MatterAssumption`, `Assumptions` of `PredecessorStore`,
`PlanAssumption` and `NoneAssumption` of `PlacedOwners`, `RestoreAssumption`,
`FileAssumption`, `MarkdownAssumption`, and of the instances `PartsAssumption`,
`LockAssumption`, `FramesAssumption`, `EntriesAssumption`, `ToolsAssumption`,
`AdmissionAssumption`, `PairsAssumption`, `KeysAssumption`). They say that the "no value"
constants are no values, that plans are plans and that bounds are numbers, and TLC
evaluates all of them in the runs. A few theorems take a hypothesis of their own:
`StoreConstants` for the two about `StewardStore` (an `ASSUME` of the run's module), and
`OutOfReach` and `AtRest`, which are explained below.

* `SuccessorStoreProofs`: `TypeCorrect`, `HistoryCorrect`, `OutcomeCorrect`,
  `AnswersCorrect`, `SelectionCorrect`, `AdmissionCorrect`, `RebuildHasNoEffect`,
  `EventsCorrect`, `LedgerImplemented`, and from them `OutcomesStayTrue` and
  `SelectionStaysGoverning`: every property of the run. The inductive invariant adds to
  the properties what each attempt carries from one `await` to the next: a label tells
  which request kind is there, and a revision read earlier that is still current is
  the one the transaction compares. That every revision number up to the current one
  exists is what makes a rebuild neutral: the maximum it recomputes is the number that is
  there. The refinement is proved step by step: each transaction maps to one step of
  `OperationLedger`, everything else to a stutter.
* `ReconciliationProofs`: `TypeCorrect`, `CursorsMissNothing`, `CompletionIsEarned`,
  `CursorsFollowSnapshots`, `SnapshotsStay`, `ExpiryStays`, `NothingEverMissed`. The
  inductive invariant says what each kind of token is worth: a page cursor at `n`,
  that the first `n` rows are known but for Profiles; a completion token, that all are.
  That is kept because the store only grows: a commit's sequence is above every
  snapshot's, and a late Profile row can only raise the index of the others, which
  `NextOffset` then repeats rather than skips. Maxima exist by well-founded induction on
  the finite part below the fence.
* `PlacedOwnersProofs`: `TypeCorrect`, `MaterialCorrect`, `HistoryCorrect`,
  `AnswersCorrect`, `PagesCorrect`. What a call has computed stays true of what it was
  computed from: revisions are only appended, so the edit of a revision that was loaded
  is the one that the commit, which compares the number, puts on top of it. A generation
  that did not move says that no row of its kind did, so pages that compare generations
  are of one state. Exact claims and rows follow the current revision because a commit
  replaces them by flags, and each flag is computed from the revision that is replaced.
* `PredecessorStoreProofs`, operations: `TypeCorrect`, `FencesAreCounted`,
  `AliasesStayUnique`, `EffectsSettleInView`, `ProjectionStaysExact`, `PurgedStaysGone`,
  `StoreStaysExact`, `ListsAreSnapshots`. The heart of the inductive invariant is
  `LocalOK` and `SeenOK`: what a process has read is still so while the fence is the one
  it read, because every effect takes a fence. The rest speaks of views (`ViewsOK`: which
  fence each began and ended at), the projection, purges and the fences that receipts
  carry. For lists it says which current Cases a list has come by once it has read down
  to a fence (`ReadDownTo`); at the fence of its first page nothing has moved. A first page
  of a view that has ended has no rows (`EmptyPage`), and ends the list.
* `PredecessorStoreProofs`, Frames: `FramesKept`, `RevisionsFounded`,
  `RetriesAnswered`. Versions are written once, so an envelope that was built stays built
  of them; each revision follows the one that it was based on, and what a settled
  disposition is founded on stays, since commits of Cases are appended. A retry finds
  in its receipt what was allocated, and allocates it again.
* `PredecessorStoreProofs`, projection: `EntriesCorrect`. An entry names its owner
  and a reference a revision of its target, in every generation, which is why a purge
  that filters can tell its own.
* `StoreLifecycleProofs`, restore: `TypeCorrect`, `PriorStaysRetained`,
  `AbsenceIsExplained`, `ReceiptStaysTrue`. `RetainedInv` tells for each journal state
  where the prior state is. The receipt needs one more assumption, `OutOfReach`: commits do
  not bring the prior store from below to the fence of the target while the restore lasts,
  because the code tells the two apart by their fences.
* `StoreLifecycleProofs`, the other files: `BootstrapIsTrue`, `SnapshotCorrect`,
  `ExportIsExact`, `ExportCorrect`, `CutoverIsTrue`, `OneMakerByGrant`,
  `OneMakerCorrect`. Their invariants have one form: a file that has its final name is
  never replaced (links and renames refuse), and what a call carries to its receipt is of
  the state that it read, in the order it read it, whatever was committed in between.
* `StoreLifecycleProofs`, the lock of the file: `LockTypeCorrect`, `UpdatesAreKept`,
  `LossExplained`. While every process exists, nobody judges a lock stale; so at most one
  session is between acquisition and release, and its copy contains the file. With
  kills, the third counts those that have got past the lock: each loss needs a holder
  that died or ended with its lock, one that was told, and one whose copy is older.
* `StewardProofs`, store: `StoreTypeCorrect`, `ChangesAreKept`, by the argument of
  `UpdatesAreKept`. Its invariant holds as long as no transaction has read the text of a
  dead holder (`NobodyMetDead`), which none forgets (`SeenStays`).
* `ToolsProofs`, admission: `AdmissionTypeCorrect`, `DeliveryCorrect`,
  `CorrelationCorrect`, `SettlementCorrect`, `SettlementStays`, `AdmissionsStayTrue`. A
  call past its reservation owns the entry of its envelope: no other call past a
  reservation has the same envelope or correlation; what a call has heard is what the
  owner has decided.
* `StewardProofs`, custody: `TypeCorrect`, `OneMatter`, `CapturesCorrect`,
  `QuestionsCorrect`, `DecisionsCorrect`, `BaselinesCorrect`. What a client saw is never
  newer than what there is, and equal revisions mean equal contents: of Spaces with their
  manifests, of Matters, of the directory. `DecisionsAreSeen` follows, since a call
  compares the revision; a baseline is replaced by one of later custody because
  revisions do not decrease.
* `MarkdownWorkspaceProofs`: `TypeCorrect`, `SelectionStaysWhole`, `SettledStays`,
  `RemovalsStayHarmless`. The invariant has three parts: what the files hold in memory,
  by the step that the writer has come to; what the disk is known to hold, as long as no
  call was cut short; and that nothing is out of place before the first fault. A power loss
  needs the second to restore the first; a kill or a failure leaves the first as it is and
  gives up the second, which `Survivable` allows (section 3).
* `ToolsProofs`, installer: `TypeCorrect`, `UnmanagedStays`, `SyncStaysRepaired`. A
  sync that nothing disturbs is alone (`CalmOK`), the targets before its own are
  repaired, and of its own it has done what its label and its list say (`Track`, `Progress`).
  What a sync is about to remove is a link of agents-os as long as people touch the
  directories at rest (`AtRest`, which the run sets).
* `ToolsProofs`, paired agents: `RunsAreSupervised`, `NoSessionStays`, `RunsEndTrue`.
  Each run, by the `await` it has come to: which sessions are open, that there is one
  decision at most and by whom, and what the driver did with it. Which writes are lost
  changes none of that (`Alike`), and that calls share nothing but files is why each stands
  for itself. The files are the other half (`FilesOK`): a call that has its directory for
  itself finds there as many decisions and handlings as it has in memory, no entry of the
  index until it is done and exactly one after that, its own (`Recorded`, up to the writes
  that failed). This is inductive only together with `Fresh`, that a directory which no call
  has yet holds nothing: that is what a new call starts from.
* `ToolsProofs`, bus: `OrderIsKept`. What a reader has of a frame and has not used and what
  its stream still carries are one sequence (`UpStream`, `DownStream`), which a read of any
  number of pieces does not change. `BusInv` says what is on it: from a client, the messages
  that the server has not taken; to a client, those that it is `Due` and has not been given;
  each as two pieces, in order. Nothing is assumed of the constants.
* `ToolsProofs`, leader keys: `KeysStayFaithful`, which states all three of
  `KeysAreFaithful`. `OnPath` relates three pieces of the leader's state: the path spells what
  was typed, key by key, and each of its nodes is in a trie that was in force since the
  leader, although the root's children are replaced below an open sequence, whose inner
  nodes are then of an older trie. `RegistryOK` is about counted holders: one more or less
  changes nothing as long as there is one (`SameMounted`).

These are proved of invariants that no run lists, since others imply them or say more:
`HistoryIsContiguous`, `RebuildIsNeutral`, `CursorsStartAtSnapshots`, `RowsStay`,
`ExpiryIsFinal`, `NoLostUpdate`, `CorrelationsIdentify`, `SettledStays`,
`OneMatterPerIntake`, `CapturesLast`, `AliasesAreUnique`, `AbsentIsQuarantined`,
`SessionsEnd` and the type invariants.

Changes that the proofs asked for, each of which the runs check too: bounds of
`Frames` and `Entries` became named predicates; a conflict of a Frame is shown only where
a revision is visible; the calm of a sync is recorded per checkout, and what doctor asks for
after it (`Healthy`) covers every link of the checkout. `OneOrderForAll` says by
counts, not by selected sequences, which message is the n-th that a client is due, and
`ArtifactsTellTheAnswer` counts the lines of a kind; each says what it said. The constants
of `PairedAgents` got a type (`PairConstants`).

### Model-checked only

* Liveness (`EverySessionEnds`, `NobodyWaitsForever`, `TimersServe`): the prover does not
  treat fairness and `ENABLED`.
* `DiscoveryIsTrue`: the walk over references is recursive, over a depth that the request
  gives, and so is the reference that it is compared with. That the two agree for every
  depth needs induction over a recursive definition, which the installed provers cannot
  instantiate, and a recursive operator costs a module its SMT prover.
* `lost_update` and the properties of section 6, which are false.

Everything else that a passing run checks is a theorem. Modules with proofs use sets,
maxima and functions, and no recursive operator.

## 5. What is not modelled

Left out everywhere: parsing and the validation of the shape of requests (a refusal),
the text of SQL, digests, signatures and identifiers (equality; they cannot be forged),
reports and formatting, the vendored SQLite. `PROJECT.json` says of each component what
is left out of it. What a reader of one module should know besides:

* **Successor store.** Modules, observations and the integrity report change nothing
  that the properties speak of. `operation_fence` of a projected resource
  (`mechanical.mjs:787`) is not modelled. `PlacedOwners` knows the scope
  `exact_namespace` only; default placements of Chats and Projects, path resolution and
  reads of claims are left out. `placement_no_change` (`placement/index.mjs:81`) cannot
  be reached, nor can the placement of a Chat through the facades.
* **Predecessor operations.** Creation of the first view policy, modules,
  `get_store_operation_receipt`, observations, the integrity report, and
  `rebuildFinalProjections` are not modelled.
* **Frames.** A commit is atomic here and the view is left to `PredecessorStore`; a
  client names revisions that it has seen; external references, reads, lists, export
  fragments and the legacy reconciliation are left out. Adding a Discovery item that
  was tombstoned is an internal failure (`frame/index.mjs:1128`), here a refusal.
* **Projection and discovery.** Generations before the current one are alike;
  words are what they match. At hydration all owners are visible, and owner references
  and metadata are left out.
* **Files of the predecessor.** The identity check of a snapshot request never fails; a
  store file of somebody else at initialization is left out; all snapshots go to one
  file. Export is in the current mode with ready fragments, without the document trace
  and the comparison of the destination's digest (lines 906-909), and reads a bundle
  at once. A source that changes while cutover copies it is left out. What a kill may
  leave for ever, and the models show: a torn retained copy fails every retry of a
  cutover; a torn journal answers `restore_state_conflict`; a torn snapshot intent fails
  every attempt until it is removed by hand; a store that was renamed to quarantine and
  whose journal was not written is absent and replays answer `recovery_required`.
  Successive fences carry increasing `updated_at`.
* **Markdown workspace.** One logical writer, as its manifest demands; what people write
  between the last comparison of a file and its rename is overwritten. What is said of
  power losses is said of file systems that sync directories:
  `syncDirectoryAsAvailable` goes on as if it had flushed where the file system answers
  EINVAL, ENOTSUP, EISDIR or EPERM (`workspace.mjs:755-756`), and no order of flushes
  protects anything there.
* **keysmith.** Hosts wait for handlers (otherwise `index.ts:248` is a further race); the
  editor mode changes by delegated keys only; there is one wrapper per session. Action
  handlers, configuration files and help are not modelled.
* **pairs.** The writes to a file between two awaits are kept or lost together; the
  driver's second answer is not seen by a detector, as in the code; the extension's
  `turn_end` and `agent_end` are never called; socket errors are not modelled.
* **Installer.** Modes that copy, namespaces and configured packages are left out, and of
  `doctor` all but what `Healthy` says of skills, links, global instructions and profile. The global instructions are overwritten whoever wrote them, links of
  other checkouts are taken over, and an agent that is listed without a source gets a
  link to nothing; the models allow all three.
* **hop**, and skills, agents, commands and themes, which are text.

## 6. Disagreements met on the way

`lost_update` is in the list of runs: a waiter that judged a lock stale removes it later,
when another has already recovered and taken it, and an acknowledged update is
overwritten. For each of the following the property is in the module; a reader sees the
trace by putting it in place of the properties of the named run's configuration (as a
`PROPERTY` where it says so).

| property | run | what the code does |
|---|---|---|
| `ImmutableSnapshots` | `successor_store` | Profile operations do not compare the fence they number their event by, so an event can appear below the end of a snapshot that the code calls immutable |
| `RefusalIsDefinitive` | `successor_store` | a commit may be durable and its caller be told `internal_failure`, exit status 2, documented as definitive (3 is unknown) |
| `FeedContinues` | `reconciliation` | `events.page` compares the sequence of the cursor with that of the snapshot (line 27), which only the first cursor has; the next is answered `snapshot_not_visible` |
| `KilledWriterRecovered` (`PROPERTY`) | `steward_store` | the lock file is created first and written next; a process killed in between leaves a text nobody can recover, and every later transaction ends in a conflict |
| `DeadlinesAreKept` (`PROPERTY`) | `steward_store` | a transaction that finds a dead holder's lock and cannot read it again or remove it goes round past its deadline and its sleep, and may never answer (`steward.mjs:126-129`, 132) |
| `AdmittedMechanicsAreExact` | `tools` | a reply with other mechanics than authorized is refused by the submission and accepted by its recovery |
| `RunsAreApart` | `tools` | two paired runs of one mode that begin in one millisecond share a directory (`artifact-store.mjs:14`) |
| `ExplicitBindingsWin` | `leader_keys` | a binding that a keymap contributed stays where a configured one should be |
| `CopiesAreExplained` | `store_lifecycle` | an attempt at a snapshot removes the intent of another that is under way (`operations/index.mjs:1081`), which then leaves a copy that no intent explains |
| `BlockedHasNoEffect` | `store_lifecycle` | a finalization that is answered `blocked` has marked and renamed its bundle |
| `ConsumedIsGone` | `store_lifecycle` | a bootstrap killed between the record of its grant and the removal of it is answered `duplicate_grant` for ever |
| `RemovedStaysRemoved` | `store_lifecycle` | a successor that was removed is initialized again by an attempt under way (`bootstrap.mjs:381`) |
| `ExactRetriesAgree` | `predecessor_store` | a modular operation on a Frame allocates again when it is retried after a rejection, or after it read its own commit, and is answered `idempotency_mismatch` |
| `ListsAreComplete` | `predecessor_store` | a list whose view is superseded or retired between the check (`mechanical.mjs:1105`) and the page, which joins the active view (1109), succeeds without items although Cases are current |
| `CompleteAsShown` | `predecessor_store` | a discovery whose view is retired between the check (`mechanical.mjs:1270`) and the query (1275) finds nothing, and its answer is called complete |

Seen while modelling, without a property of their own:

* An exact retry of a settled modular edit on the successor (`case.commit_revision`, the
  operations on Frames) is built on the newer revision and answered
  `idempotency_mismatch`, and so is the retry of a rejected operation by a facade. Of two
  concurrent attempts of one operation the loser is told `revision_conflict`, of its own
  commit.
* The successor's modular operations on Frames drop guards that the predecessor's have.
* A Discovery item that was reopened can never be settled, tombstoned or updated by a
  modular operation (`frame/index.mjs:434`, 1124-1126, 2190-2206).
* The last page of a search is of the state when it is read, which may be another than
  that of the pages before it.
* `query/graph.mjs:27` reads columns that the schema does not have
  (`schema-successor.sql:388`).
* A preflight of an export whose `mkdir` fails because another made the directory
  removes the bundle of the other (`export/index.mjs:587`).
* After a purge the projected entries of other owners still name the purged Case
  (`mechanical.mjs:1406`).
* Discovery of an identity by alias matches `alias.type` (`mechanical.mjs:1309`), which no
  commit of a Case writes (`case/index.mjs:161`), and so never finds a Case. Links
  between candidates of different pages are on no page (`mechanical.mjs:1349`), and
  those from a Frame's Discovery items (`frame/index.mjs:592`) are never walked
  (`mechanical.mjs:1297`).

## 7. What could come next

About 30 % of the lines of the implementation are mapped. The rest is mostly validation
of request shapes, parsers, SQL text, reports and formatting. What would add most:

1. What is left to prove needs induction over data: the walk of `IdentityDiscovery`.
2. `PlacedOwners` with default placements and more than one scope.
3. The observations of the predecessor, and the first creation of a view policy.
