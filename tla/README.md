# Project DNA: a formal model

Project DNA is a VS Code extension that analyses a repository, keeps the result
as a numbered *analysis* (a `ProjectDNA` aggregate with its collections and an
evolution snapshot), stores every version in SQLite, refreshes incrementally
when files change, answers queries from the analysis it has published, and shows
all of it in a sidebar whose page lives in a webview of its own.

The specifications here are about what makes that hard: file events, analyses,
commands, queries, folder changes, shutdowns and crashes interleave at every
`await`, and nothing of it may lose a change, publish half an analysis or make a
stored one unrecoverable. Paths below are relative to `src/`.

- [The system](#the-system): components, their state, how they interact
- [Modules](#modules): which module models what, and how to read it
- [Properties](#properties) and [runs](#runs-and-bounds)
- [Fairness](#fairness)
- [Proofs](#proofs)
- [Disagreement with the code](#disagreement-with-the-code) and [known exceptions](#known-exceptions)
- [What is not modelled](#what-is-not-modelled) and [the plan](#plan)

## The system

| Component | State | Operations | Talks to |
|---|---|---|---|
| `ProjectDNAService` (`packages/dna-core/src/service`) | published analysis, root, incremental baseline, latest record, pending changes with their generations, watcher epoch and sequence, refresh timer, the active operation, impact epoch, disposed | analyze, refresh, restore, getImpact and three further impact requests, two event handlers, dispose | everything below |
| `PersistedAnalysisRecoveryManager` (`analysis-recovery.ts`) | none; repairs the storage | recover: discover versions, evaluate, quarantine, select, repair pointers | storage |
| `GitCommitMetadataProvider`, `HistoricalTreeMaterializer` | none; private temporary directories while a request runs | parents, metadata, ranges; materialize, cleanup | child processes, files |
| `EvolutionEngine` (`packages/evolution-engine`) | snapshots, next version, last snapshot id | createSnapshot, restoreSnapshots, getHistory, diffs | called by the service |
| `SqliteStorage` (`packages/storage`) | one table of records, closed | save, load, delete, list, inspect, applyAtomically with preconditions | service, recovery |
| `GitChangeSetProvider` | none | working tree change set and fingerprints | child processes, files |
| `DNAOrchestrator`, `RepositoryScanner` | none between calls; the previous result is passed in | full and incremental analysis | files, AST pool, event bus |
| `RepositoryWatcher` (`apps/vscode-extension`) | root, epoch, sequence, pending changes, flush scheduled | queueChange, flushChanges, overflow, replaceWorkspace, dispose | editor, event bus |
| `EventBus`, `Container` (`packages/shared`) | listeners; singletons | emit (synchronous), resolve | all |
| `extension.ts`, `commands/` | the active container | activate, deactivate, commands | service, watcher, sidebar |
| `SidebarProvider` | publication epoch, navigation generation and revision, active requests | messages from and to the webview | service, webview |
| Webview reducers (`webview/src/state`) | what the views show | one reducer per kind of message | sidebar |
| `AstEngine`, `DeterministicAstWorkerPool` (`packages/ast-engine`) | worker slots, buffered results, next indices, failure; all per call | an ordered stream of parse results | worker threads; called by the orchestrator |
| Engines: dependency, architecture, knowledge, DNA, intelligence, impact | none between calls | pure functions of their input | called by orchestrator and service |

How an analysis goes. The service is told of changes by the watcher through the
event bus. It numbers the notifications (`changeGeneration`) and arms a timer. An
operation (`runAnalysis`) notes the generation, asks Git for the working tree,
picks the changed paths and the baseline, restores the repository from storage
if it does not follow it yet, runs the pipeline, asks Git again, and gives up if
the tree or the generation moved. Otherwise it appends a snapshot to the
evolution engine's history, persists a new version in one batch conditional on
the latest pointer, and - if still nothing moved - publishes it. When it is
superseded after the snapshot or after the batch it rolls back the history, the
records and the pointer.

What each part must get right:

- the service: no change is lost between notification and analysis; published
  means stored and recoverable; the baseline is the published analysis; rollbacks
  restore exactly what was there; queries are answered from one analysis;
- recovery: the newest version with an intact chain, nothing else removed;
- the evolution engine: its history ends at the published version;
- the watcher: pending changes always have a flush; an epoch ends with an
  invalidation;
- the incremental pipeline: what it keeps from the previous analysis is what a
  full analysis would compute;
- the sidebar and the webview: nothing older is shown over something newer, and
  nothing waits for an answer that will not come;
- the impact requests: answers of one analysis and one working tree, which say
  when they were cut; child processes and directories released on every path;
- the AST pool: every input answered once, in order; no missed wake-up.

## Modules

| Module | Models | Code it stands for |
|---|---|---|
| `Workspace` | roots, files, contents, an observation of all files, the limit on pending changes | `MAX_PENDING_PATHS`, `MAX_PENDING_CHANGES` |
| `ProjectDNAService` | the service with recovery, evolution engine, storage, Git and pipeline as its collaborators | `project-dna-service.ts` 178-763 and 1699-1881, `analysis-recovery.ts`, `evolution-engine.ts`, `snapshot-creator.ts`, `sqlite-storage.ts` |
| `WorkingTreeImpact` | the working-tree impact query on top of the service | `project-dna-service.ts` 765-973, `git-change-set-provider.ts` |
| `SharedDatabase` | recovery, persistence and rollback statement by statement, two windows on one file, damaged and legacy records | `analysis-recovery.ts`, `persisted-analysis.ts`, `sqlite-storage.ts`, `project-dna-service.ts` 1714-1881 |
| `RepositoryWatcher` | the watcher and the events the editor owes it | `repository-watcher.ts` |
| `WorkspaceAnalysis` | service and watcher together, with the files, the user and the windows | `extension.ts`, `event-bus.ts`, commands |
| `DependencyGraph` | resolution, building and repair of the graph, entities, dirty paths, as functions | `graph-builder.ts`, `entity-synthesizer.ts`, `dna-engine.ts`, `architecture-engine.ts`, `calculateDirtyPaths` |
| `IncrementalAnalysis` | an analysis file by file while files change | `dna-orchestrator.ts`, `scanner.ts`, `file-walker.ts` |
| `FileParsing` | what an analysis is promised by the parsing of its files | (abstract) |
| `AstWorkerPool` | the pool's generator, its slots and the worker threads | `ast-worker-pool.ts` 85-208, `ast-worker.ts` |
| `AstParsing` | the pool under `parseFiles` with its sequential fallback, under the orchestrator's loop | `ast-engine.ts` 84-218, `dna-orchestrator.ts` 219-325 |
| `DependencyTraversal` | the bounded breadth-first search | `dependency-traversal.ts` |
| `ChangeImpact` | the impact of a commit or pull request composed from one search per changed file | `project-dna-service.ts` 1321-1575, `impact-engine.ts` |
| `GitCommand` | one child process: output, limits, time-out, abort, the archive file | `runGit` (twice), `runProcess`, `archiveTree` |
| `HistoricalImpact` | the awaits of a commit or pull-request request, and its two private directories | `project-dna-service.ts` 975-1319, `commit-metadata-provider.ts`, `historical-tree-materializer.ts` |
| `SidebarPage` | the reducers of the page | `webview/src/state/*-state.ts` |
| `Sidebar` | provider, page, messages, and the service as the provider sees it | `sidebar-provider.ts`, `App.tsx`, `messages.ts`, `sidebar-data.ts` |
| `SidebarNavigation` | the route of host and page | `sidebar-provider.ts`, `navigation-state.ts`, `useVSCodeApi.ts`, `open-architecture.ts` |
| `MC...` | the instances and symmetry sets for TLC | |
| `..._proofs` | the theorems about a module; those about `WorkingTreeImpact` and `WorkspaceAnalysis` are in `ProjectDNAService_proofs`, those about `DependencyTraversal` in `ChangeImpact_proofs` | |

How they are composed. `WorkspaceAnalysis` extends `ProjectDNAService` and
`RepositoryWatcher`; both extend `Workspace`; `WorkingTreeImpact` extends
`ProjectDNAService`. `IncrementalAnalysis` extends `DependencyGraph`,
`ChangeImpact` extends `DependencyTraversal`, `HistoricalImpact` extends
`GitCommand`, `Sidebar` extends `SidebarPage`. `AstParsing` extends
`AstWorkerPool` and implements `FileParsing`.

The groups meet at what one takes for granted of another. `Orchestrate` of
`ProjectDNAService` - the pipeline returns what it observed of each file, or
nothing after an abort - is one action for what `IncrementalAnalysis` does file by
file, with the parsing that `AstParsing` shows to be `FileParsing`. `Recover`,
`Persist` and `RemoveCandidate` are one action each for what `SharedDatabase` does
statement by statement. The two historical trees that `HistoricalImpact` hands over
are the two graphs `ChangeImpact` starts from. `Sidebar` knows of the service what
its progress events and answers say.

### How the model corresponds to the code

**Steps.** JavaScript runs the code between two awaits without interruption, so
one action is the code from one await to the next, and `phase` says at which
await `runAnalysis` is suspended:

| phase | suspended at | left by |
|---|---|---|
| `starting` | the microtask `startAnalysis` queues (379) | `BeginAnalysis` |
| `workingTreeBefore` | the first Git call (411) | `ReceiveWorkingTree` |
| `recovering` | `recover` (322) | `Recover`, `RecoverFails` |
| `restoring` | `restoreSnapshots` (332, 337) | `Restore` |
| `orchestrating` | pipeline, synthesis, intelligence (443-519) | `Orchestrate`, `OrchestrateFails` |
| `workingTreeAfter` | the second Git call (536) | `SupersedeCandidate`, `KeepCurrent`, `AssembleCandidate`, `WorkingTreeFails` |
| `history` | `getHistory` (611) | `CreateSnapshot` |
| `snapshot` | `createSnapshot` (624) | `SupersedeSnapshot`, `Persist`, `PersistFails` |
| `persisting` | `persistAnalysis` (641) | `Publish`, `RollBackFailure`, `DiscardCandidate` |
| `discarding` | `restoreSnapshots` (661) | `RemoveCandidate`, `RemoveCandidateFails` |
| `settling` | the caller's `finally` (393) | `Settle` |

The locals of `runAnalysis` are the record `op`. Awaits in which neither the
service nor a collaborator changes state are passed in one step with the next
one: the stages of the pipeline, the single reads of a recovery, the rollbacks
awaited before a return.

**Data.** An analysis is what it observed of every file: one member of
`Contents` per path. What the engines compute from it is a function of it.
`ProjectDNA`, its collections, manifest and snapshot are one `VersionRecord`,
because the storage writes and deletes them in one batch. The latest pointer and
the service's copy of it are represented by the version they name; `0` is the
code's `null`. A snapshot keeps its repository, number and parent, which is what
recovery checks.

**Files that change while they are read.** Git and the pipeline read one file
after the other. `Sightings` is what such a call may return: for each path
independently, the content when the call was made or when it returns. The second
Git call is made when the pipeline finished. An incremental analysis observes
its changed paths only, or everything when one of them is a directory or a file
that configures the scan (`ObservedPaths`). A file's absence is a content
(`Absent`) where it matters.

**Storage.** The deployed `SqliteStorage` runs a batch synchronously inside the
call, so a batch takes effect in the step that calls it and its result arrives
one step later. `Failures` says which collaborators may fail: the calls of a
failing storage fail at any time, and without it they fail exactly when the
storage is closed or a precondition does not hold.

**Recovery** is at the grain of versions: `RepairStorage` quarantines all
invalid ones and repairs the pointer in one step, `AbandonedRepair` stops after
any number of them. For batches written by this service these are the only
records there are; damaged or legacy ones are in `SharedDatabase`.

**Processes.** `RestartExtension` and `RestartUnrestored` start a new extension
host after a disposal or in the middle of anything, which is a crash: the
variables of the process are reset and the storage stays. Activation awaits the
restore before it constructs the watcher or registers commands, so it is one
step. After `deactivate` nothing calls the service any more.

**The watcher** keeps the kind of every pending change; queued flush microtasks
are a sequence of the epochs they were queued with. The editor delivers a batch
of events in one task; `TaskEnded` lets nothing else run until the microtasks
queued in it have run. `EventBus.emit` calls its listeners synchronously, so a
watcher action that emits is conjoined with the service's handler, or with
nothing when the handler returns early.

In `ProjectDNAService` alone (`Next`), notifications are arbitrary: any root,
epoch, sequence and set of paths in any order. That is more than the watcher
does, and the safety properties of the service hold for it; properties that
relate files to notifications need the watcher and are stated in
`WorkspaceAnalysis`.

**The parsing stage** is three nested loops: the orchestrator's `for await` over
the generator `parseFiles`, whose `for await` runs over the pool's generator. A
generator runs only when it is asked for a result, up to its next await or yield,
and neither loop body awaits anything, so `Process` is one step through all three:
the orchestrator counts the result and releases the content of that input, the
engine resumes after its `yield`, the pool resumes after its own, consumes the
next buffered result and gives the idle slots new tasks. `engine` and `stream` say
where the two generators are suspended. The released contents matter: the
sequential fallback parses from the same array, and a file whose content is gone
would be parsed as an empty one. A parse result therefore records the content it
was made from. Files and slots are numbered from 1, so that `0` is the code's
`undefined`.

A worker thread has at most one request, answers it and is told to terminate; its
events to the main thread are queued in order, and the listeners of message, error
and exit are one action each. `Faults` says what may befall workers: the script
cannot be found, a thread does not start, a `postMessage` throws, a thread crashes
at any moment, or it answers with something else than a result of its task.

**A shared database.** VS Code gives every window of a user the same global
storage, so `SharedDatabase` has the rows of one SQLite file and several windows.
A statement is synchronous and a batch is one immediate transaction; recovery
awaits after each statement, so one action is one statement or the local code up
to the next one, and `phase` says which. Preconditions are compared as the code
does: metadata field by field, evidence by its raw value. The nine record
namespaces are two (one that recovery reads of every version, one that it reads
of the version it selects); a value is missing, corrupt, invalid, or an analysis
with its parent.

**Incremental analysis.** Every file system call is a step, and files change and
reports arrive between any two of them. A file has a content, which is the set of
specifiers it imports, and a modification time, by which the manifest tells that it
changed. `DependencyGraph` holds what the engines compute of one file as far as it
depends on others: edges, relations, layers, importance, the risk of an orphan.

**Child processes.** A promise around `spawn` is settled by whichever event comes
first; each event listener is one action on one record. `HistoricalImpact` has the
awaits still to come as a sequence (`plan`): a call that returns takes the first
away, one that fails unwinds to the `finally` blocks, which are the removals of the
directories that still are in the plan.

**The search.** `Dequeue` takes a file of the queue, `TakeNeighbor` one of its
neighbours, in the order of identifiers. The parents in `nodes` give the path that
`buildCanonicalPath` follows back.

**The sidebar.** Host and page exchange messages in two queues. What is posted to a
page that is destroyed is lost; the provider learns of a hidden view or a new page
only by its events. A request has an id and the version or folder it is about, and
`IsReset` and `IsAnswer` say what a reducer takes for its end. In
`SidebarNavigation` a version is a generation and a revision; `delivered` is what
the host need not post again.

## Properties

`ProjectDNAService`, `WorkingTreeImpact`:

- `TypeOK` - types, and which locals are assigned when a phase reads them.
- `BaselineMatchesCurrent` - the incremental baseline is of the published
  repository and says what the published analysis says.
- `CurrentIsStored` - the published analysis is in the storage.
- `OperationTracksService` - seven facts an operation read before an await and
  relies on after it, among them that the baseline it compares with still is the
  service's unless it is superseded, and that its version is newer than the
  published one.
- `PublishedIsRecoverable` - at any moment, a crash would be followed by a restore
  of the published analysis or a newer one.
- `HistoryEndsAtCurrent`, `StorageMatchesCurrent` - between operations the
  evolution history, the newest stored version and the latest pointer all are at
  the published version: every rollback was complete. The one exception, a
  storage that fails to remove a candidate, is part of the statement.
- `ImpactAnswerIsCurrent` - an action property: an impact query is only answered
  from the analysis that is published at that moment, with no operation active.
- `WorkingTreeAnswerIsCurrent` - the same of a working-tree query, which awaits Git
  twice and the history once, and the snapshots it compares are whole in the
  storage: none is a candidate that was rolled back while the query waited.

`SharedDatabase`:

- `RecoveryIsExact` - a recovery during which no window committed an analysis, or
  removed one, brings back the newest version stored whole and leaves only valid
  records, also when another window repairs the same damage at the same time.
- `RecoveryLosesNothing` - no statement of such a recovery changes which version
  is the newest stored whole.
- `VersionsAreNotOverwritten` - no window replaces the records of one analysis by
  those of another.
- `CommitIsRecoverable` - a version persisted on top of a stored chain is the one a
  recovery will bring back.

`RepositoryWatcher`, `WorkspaceAnalysis`:

- `PendingIsFlushed` - pending changes have a flush of the current epoch queued.
- `NoLostChange` - a file that differs from what the next incremental analysis
  takes for granted has an event under way somewhere between editor and service.
- `ChangesAreAnalysed` - once the user stops editing and aborting, what the
  service was told about is eventually acknowledged by an analysis.
- `Converges` - then the baseline eventually is, for good, what the files contain.

`IncrementalAnalysis`:

- `FilesAreCurrent` - a file of which no report is pending or to come is in the
  baseline as it is on the disk.
- `EdgesAreCurrent` - its edges are those its imports resolve to, although a repair
  copies the edges of files that were not reported.
- `DirtyClosureIsEnough` - an action property: an incremental analysis that finds
  no difference outside the reported paths keeps only entities that are right.

`AstParsing`:

- `ParsesEveryFile` - the stage implements `FileParsing`: every file is answered
  once, in order, from its source and not from a released content, whatever the
  workers do and wherever the engine falls back.
- `NextResultIsUnderWay` - while the pool's generator waits, its promise is going
  to be resolved: no missed wake-up, and no task left in an idle slot.
- `TasksAreInOnePlace` - a file that was dispatched is in one slot or among the
  buffered results, and never in both.
- `WorkersAreTerminated` - the stage leaves no worker thread behind.
- `AbortStartsNothing` - an action property: after an abort no file is sent to a
  worker or parsed.
- `StageEnds` - the stage comes to an end.

`HistoricalImpact`, `GitCommand`:

- `CommandIsReleased` - a settled command has neither timer nor abort listener, and
  its process has ended or was killed.
- `TreesAreReleased` - however a request ends, no private directory is left that
  could have been removed, and no command works in one that is gone.
- `AnalysedTreesAreWhole` - both directories are there until both analyses are done,
  and hold everything Git has of their trees: no archive is read before it is
  flushed.
- `EveryRequestEnds` - every request is answered or rejected though commands hang.
- `OnlyMergesNeedAParent` - a parent has to be selected only for a merge (violated).

`DependencyTraversal`, `ChangeImpact`:

- `SearchIsExact` - each file is met at its shortest distance, computed
  independently, and a search says it was cut exactly when something is missing.
- `EvidenceIsShortest` - the paths given as evidence are paths of imports, shortest
  ones, and as many as the bound allows.
- `CompleteAnswerIsWhole` - an answer that calls itself complete left nothing out,
  whichever of the eight places that cut it.
- `AnswerIsReached` - what it lists is reached by a change.

`Sidebar`, `SidebarNavigation`:

- `LoadingIsAnswered` - a request the page shows as loading is on its way, or being
  worked on, or its answer or what resets it is on the way back. The exceptions are
  named in the statement: of each kind, the last request that is left without an answer
  the page takes (see [known exceptions](#known-exceptions)).
- `ResultsMatchAnalysis` - no result is shown beside another analysis than it is of.
- `OpensInWorkspace` - no document of a folder is opened after the user left it.
- `PageFollowsService` - at rest, the page shows the published analysis of the open
  folder or says that there is none.
- `DeliveredReachesPage` - a route the host takes for delivered has reached the page
  or is on the way to it.
- `RoutesConverge` - when the user rests, host and page agree on the route. Both are
  claimed of pages that are not destroyed with posted messages unread.

Every module also states its types (`WatcherTypeOK`, `PoolTypeOK`,
`SidebarTypeOK`, ...), with what is typed by relations between the variables. Of
these the runs keep `TypeOK` of the service; the others were checked on the same
instances and are there for the proofs.

## Runs and bounds

| Run | Specification | Checks | Distinct states |
|---|---|---|---|
| `two_repositories` | service | `TypeOK`, `BaselineMatchesCurrent`, `CurrentIsStored`, `OperationTracksService` | 2.0 M |
| `failing_collaborators` | service with working-tree queries, one repository | `StorageMatchesCurrent`, `PublishedIsRecoverable`, `HistoryEndsAtCurrent`, `ImpactAnswerIsCurrent`, `WorkingTreeAnswerIsCurrent` | 1.8 M |
| `shared_database` | two windows, one file | `RecoveryIsExact`, `RecoveryLosesNothing`, `VersionsAreNotOverwritten`, `CommitIsRecoverable` | 1.6 M |
| `lost_changes` | extension | `PendingIsFlushed`, `NoLostChange` | 1.8 M |
| `convergence` | reopened window, fair | `ChangesAreAnalysed`, `Converges` | 0.9 M |
| `incremental_analysis` | one repository | `FilesAreCurrent`, `EdgesAreCurrent`, `DirtyClosureIsEnough` | 1.2 M |
| `parallel_parsing` | parsing stage, fair | its six properties | 1.5 M |
| `historical_impact` | one request, fair | `CommandIsReleased`, `TreesAreReleased`, `AnalysedTreesAreWhole`, `EveryRequestEnds` | 0.1 M |
| `impact_answers` | one answer | `SearchIsExact`, `EvidenceIsShortest`, `CompleteAnswerIsWhole`, `AnswerIsReached` | 43 k |
| `sidebar` | provider and page, fair | `LoadingIsAnswered`, `ResultsMatchAnalysis`, `OpensInWorkspace`, `PageFollowsService` | 3.0 M |
| `navigation` | host and page, fair | `DeliveredReachesPage`, `RoutesConverge` | 0.3 M |
| `child_of_merge` | one request | `OnlyMergesNeedAParent`, violated, see below | |

The bounds, and why they let the interesting cases happen:

- `MaxGeneration` (2-3) bounds accepted notifications per process: one is enough
  to supersede an operation, a second arrives while the operation that handles
  the first is running, a third after an overflow.
- `MaxPendingPaths = 1` with two paths makes an overflow happen with two changes;
  with one path every change fits.
- `MaxVersion = 2` stops user requests, restarts and commands - not the
  automatic refreshes - once such a version is stored: a second version
  is analysed on top of the first, discarded, rolled back and restored; automatic
  refreshes go further.
- `MaxEpoch`, `MaxSequence` bound watchers and notifications per watcher: two
  epochs show a missed epoch and a flush of an earlier watcher.
- `MaxFileEvents = 2` undelivered events: two events of one path merge, of two
  paths overflow.
- Two contents tell a stale observation from a current one; two roots a foreign
  one from an own one.
- `shared_database` starts from an empty file, or from two versions - written as
  batches, without manifests by an older release, or one of each - whole or with
  any one row lost, corrupt or invalid. Two windows recover, persist and discard;
  the third version is the first one the windows write themselves, and a third
  analysis the first that is written on top of another window's.
- `incremental_analysis`: three sources of which one imports what resolves to the
  second or, without it, to the third, so that an edit of a file changes the
  resolution of another; a package; two files in a folder that can be removed as
  one; a `.gitignore`; two edits, of which one can be undone by the other or arrive
  before, during and after the analysis of the other.
- Three workers and five files: the third worker finishes before the first two,
  results are buffered out of order, a slot is used twice, and two files are left
  when the first slots are free again, so that an abort between two results finds
  one still to be dispatched; one of the files does not parse.
- `historical_impact`: two chunks of output and a limit of one, so that output
  ends below, at and beyond a limit; up to two parents and two merge bases.
- `impact_answers`: chains, stars, circles, two ways of different length to one
  file, trees with different files, every set of up to two modified files, a
  rename, a binary file and a file outside the graph; the search is three deep and
  four wide in graphs that are five deep, and evidence, targets and the answer are
  bounded below what the largest change reaches. The search is a deterministic
  computation from each of the initial comparisons.
- `sidebar`: two folders, two versions, one analysis after the first publication,
  one request of one of four kinds (of an analysis, cancellable or not; of a commit or
  a range), and one act besides: a folder switched, a page hidden, a view closed, or a
  parent selected, which is a second request of the panel. Comparisons are handled like
  entities, and working trees like impacts, by the same definitions. `navigation`: three
  routes, four acts of the user, revisions that run over after one, three
  undelivered messages. It takes posted messages to be received by the page they were
  posted to (`LosesPosted = FALSE`): VS Code's promise of a delivery is all the host has.

`Edit` is guarded so that the notifications it leads to always fit the bounds; no
run gets stuck with an undeliverable event.

Symmetry of contents, files, roots and windows is used in the runs that check
invariants and action properties only; the definitions do not tell members of these
sets apart (except `Absent`, which is left out of the permutations). The liveness
runs use none.

`CHECK_DEADLOCK FALSE` is said where the system comes to rest: an extension that is
deactivated or idle with the edits used up, a parsing stage or an answer that is
done, a sidebar nobody uses, windows that are closed. That they never stop before
is what `StageEnds`, `PageFollowsService` and the like are for. The runs of the
service, of the navigation, of `HistoricalImpact` and of the incremental analysis check
deadlock.

## Fairness

`WorkspaceAnalysis`: `Fairness == WF(ServiceStep) /\ WF(WatcherStep)`.

A service step continues a pending promise or runs a timer that is due, a watcher
step delivers a file event or runs a microtask. Node's event loop does all of
these without anyone's help, and each stays enabled until taken; weak fairness is
what it provides. Git calls end because they run under a time limit, workers
because parsing does. Nothing is assumed of the user: requests, aborts, edits,
folder changes, deactivation and restarts may never happen or happen forever.
`Converges` and `ChangesAreAnalysed` therefore assume explicitly (`UsersRest`) that
edits and aborted signals come to an end; without that an operation can be
superseded or aborted each time. The liveness runs have no failing collaborator,
since one that fails for ever lets nothing finish.

`AstParsing`: the event loop resumes what is ready, and each worker on its own
parses, answers and terminates: weak fairness of every worker's steps, since a
slow one does not hold up the others. Faults and aborts may happen or not.

`HistoricalImpact`: the event loop goes on with the request, and a timer that is due
runs. Nothing is assumed of the child process: it may hang with its output half
written, and `EveryRequestEnds` because of the timer.

`Sidebar`: messages are received, and the provider's pending awaits go on: an
analysis ends, a publication posts, a request is answered. `SidebarNavigation`:
messages are received by whoever is there and a delivery's promise resolves.
Nothing is assumed of the user, who may leave the sidebar hidden or closed.

## Proofs

TLC checks the instances of the runs; the theorems below hold for every value of the
constants that satisfies the assumptions of the modules: any repositories, files,
contents, windows, workers, notifications and requests, and any bounds. The
assumptions say that bounds are naturals (`MaxEpoch` and, in `Sidebar`, `MaxVersion`
at least 1), that `None` and the like are no members of the sets they are told apart
from, that the sidebar knows some folder, and of `IncrementalAnalysis` that candidates
and packages are what `DependencyGraph` takes them for and that the contents a run
starts from and edits to are contents; and of `DependencyTraversal` and `ChangeImpact`
that files and changes are finitely many, that at least one file may be met, and that
a tree's imports lead from one of its files to another. TLC evaluates each of them in the runs.

Every proof follows the same plan: an invariant that is inductive where the property is
not, one lemma per group of actions, one step per action, the theorem by temporal
reasoning. What follows says which invariant and why it is needed.

### The service: `ProjectDNAService_proofs`

| Theorem | States |
|---|---|
| `TypeCorrect` | `Spec => []TypeOK` |
| `IncrementalBaselineIsPublished` | `Spec => []BaselineMatchesCurrent` |
| `PublishedIsStored` | `Spec => []CurrentIsStored` |
| `OperationStaysInStep` | `Spec => []OperationTracksService` |
| `ImpactAnswersAreCurrent` | `Spec => ImpactAnswerIsCurrent` |
| `PublishedSurvivesACrash` | `Spec /\ StaysInWorkspace => []PublishedIsRecoverable` |
| `HistoryIsRolledBack` | `Spec /\ StaysInWorkspace => []HistoryEndsAtCurrent` |
| `StorageIsRolledBack` | `Spec /\ StaysInWorkspace => []StorageMatchesCurrent` |
| `WorkingTreeAnswersAreCurrent` | `ComparisonSpec /\ StaysInWorkspace => WorkingTreeAnswerIsCurrent` |

*Type correctness.* `TypeOK` is not inductive: `Restore` publishes the record
with the version recovery selected, and that record is of the right type only if
it exists. `TypeInv` adds `RestoredIsStored`, which says so while a restore is
under way, and `VersionsBounded`, from which `MaxOfBounded` derives (by
well-foundedness of `<` on the naturals) that the greatest valid version which
`RecoveredVersion` denotes exists.

*The published analysis.* The three safety invariants are only inductive
together, as `Safe`: `KeepCurrent` replaces the baseline by what the operation
observed, which is what the published analysis says only because
`ComparesWithTheBaseline` held from the moment the operation chose its inputs;
`Publish` keeps `CurrentIsStored` because of `PersistedIsStored`; `RemoveCandidate`
keeps it because of `CandidateIsNewer` (the record removed is not the published
one); a restore, which quarantines records, does not touch the published
repository's because of `RestoresAnotherRepository`.

*Impact answers.* `FreshQueries`, an invariant relating waiting queries to the
impact epoch, says that a query that is not stale captured the published analysis
while no operation is active. Every action either supersedes the queries or
leaves both alone.

*Rollbacks and crashes.* `StaysInWorkspace` says that no notification moves the service
from a repository it follows to another; `OneRepositoryStays` proves it where there is
one repository. Without it the three properties are false, since a workspace change
clears what is published and not the history (see [known
exceptions](#known-exceptions)). `Recoverable` describes storage and history
from version to version: the stored versions of a repository are an intact chain up to
its pointer; the history is that chain up to the published version, with the candidate
behind it exactly in the phases `snapshot` and `persisting`, for which the operation
kept the published one; only a candidate, the running one or one whose removal
failed, is stored beyond the published version. `RecoveredIsLatest` then
shows that recovery of such a storage selects the end of the chain and quarantines
nothing.

*The working-tree query* awaits three times. `ComparisonInv` says what one that nothing
superseded may rely on: the repository Git was asked about is still the published
one's, and the versions read from the history are not beyond the published version;
`PublishedSurvivesACrash`'s invariant makes those whole.

### The extension: `ProjectDNAService_proofs`, from *The watcher* on

| Theorem | States |
|---|---|
| `PendingChangesAreFlushed` | `WorkspaceSpec => []PendingIsFlushed` |
| `ExtensionImplementsService` | `WorkspaceSpec => Spec` |
| `NoChangeIsLost` | `WorkspaceSpec /\ NothingCancelsOut => []NoLostChange` |
| `NoModificationIsLost` | `WorkspaceSpec => []NoLostChange` where `Absent` is no content |

*The refinement.* In `ProjectDNAService` the environment may send any notification the
protocol allows; in `WorkspaceAnalysis` the watcher sends them. Each step of the
watcher is a notification with the epoch and sequence the service accepts, or a
stutter, because the epochs and sequences stay within their bounds: `WatcherInv` counts
what is pending and what the editor still owes. All that is proved of the service
therefore holds in the extension.

*No change is lost* relates files, editor, watcher, service and the running operation.
`ObservationInv` is about an operation nothing superseded: what differs between
the disk and what it observed, or is going to take over from its baseline, is still an
event or pending in the watcher - so that its notification will supersede the operation
or find the analysis published. `FollowInv` says that the service never knows a later
watcher than there is, so that it accepts the notification. `NothingCancelsOut` excludes
the one way out, a deletion that takes back a creation the watcher still holds
(`repository-watcher.ts:147`); the corollary shows that modifications alone need no
such premise.

### Incremental analysis: `IncrementalAnalysis_proofs`

| Theorem | States |
|---|---|
| `TypesHold` | `Spec => []IncrementalTypeOK` |
| `FilesStayCurrent` | `Spec => []FilesAreCurrent` |
| `EdgesStayCurrent` | `Spec => []EdgesAreCurrent` |
| `DirtyClosureSuffices` | `Spec => DirtyClosureIsEnough` |

The invariant has four parts besides types, about the baseline and about an analysis
under way that nothing superseded. `ContentInv`: a file that was not told of is as it was
read, or gone with its folder. `ManifestInv`: the files that are there are the ones
listed, apart from those told of and those still to be scanned. `EdgeInv`: the edges
of a file that was not told of are those its imports give among the baseline's files.
`CaptureInv`: the analysis goes on from the pending paths and the baseline it started
with. Two lemmas about the functions of `DependencyGraph` carry the rest: the repair of a
graph that is a full build gives the full build of the new files when every file that
differs is among the changed ones (`RepairBuilds`), and a file that no path connects
with a changed one keeps content, neighbours and layers (`NeighboursKept` and the lemma
after it), because a specifier that resolves to a file only while other files are known
resolved to one of those otherwise (`ResolutionChanges`).

### The parsing stage: `AstParsing_proofs`

| Theorem | States |
|---|---|
| `InvariantHolds` | `Spec => []Inv`, which contains `TypeOK` |
| `EveryFileIsParsed` | `Spec => ParsesEveryFile`, that is `Spec => Promise!Spec` |
| `NoWorkerIsLeft` | `Spec => []WorkersAreTerminated` |
| `NothingStartsAfterAbort` | `Spec => AbortStartsNothing` |
| `TasksHaveOnePlace` | `Spec => []TasksAreInOnePlace` |
| `TheNextResultIsUnderWay` | `Spec => []NextResultIsUnderWay` |

`ParsesEveryFile` is not a consequence of types: that the result the pool yields
is the one of the next file, and was parsed from its source, depends on where every
task is. `Inv` has four parts besides `TypeOK`. `ScheduleInv`: what is buffered at
an index, requested from a thread or carried by its events as a result was made
from the source of its own file, and only dispatched files are in slots and buffer.
`FailureInv`: a recorded cancellation is due to the signal, and an open stream
knows of the signal. `ThreadInv`: a pool that has not started or has ended has no
threads. `EngineInv` aligns the three counters - of the orchestrator, of the engine
and of the pool - at every point where the generators can be suspended; from it the
refinement follows step by step, `Process`, `Abort` and `FinishStage` being the
steps that are not stutters. `PlacementInv` adds that a dispatched file
whose result was not yielded is in one slot or in the buffer (`PlacesInv`), that a
worker with a file works on it or has an event to deliver (`WorkInv`), and that the
generator only waits for a result that is not there (`WaitInv`): there is no missed
wake-up.

### Requests: `HistoricalImpact_proofs`

| Theorem | States |
|---|---|
| `InvariantHolds`, `TypesHold` | `Spec => []Inv`, `Spec => []HistoricalTypeOK` |
| `CommandsAreReleased` | `Spec => []CommandIsReleased` |
| `DirectoriesAreReleased` | `Spec => []TreesAreReleased` |
| `WholeTreesAreAnalysed` | `Spec => []AnalysedTreesAreWhole` |

The plan of a request is the sequence of awaits left. `Ordered` says which await may come
before which: a directory is made, filled, handed over, used and cleaned up, in this order
and once, and nothing else happens between its creation and the moment it is handed over.
Every plan the code can have is proved ordered, and a failure that cuts the plan to what
its `finally` blocks still do leaves it ordered. `DirectoryInv` reads off the rest of the
plan whether a directory is there and whose it is, and `WholeInv` that its tree is all
archived and extracted once these awaits are past. `CommandInv` says of the child
process which of timer, listener, process and archive file are there at which end.

### The search and the answer: `ChangeImpact_proofs`

| Theorem | States |
|---|---|
| `SearchesAreExact` | `ImpactSpec => []SearchIsExact` |
| `EvidencePathsAreShortest` | `ImpactSpec => []EvidenceIsShortest` |
| `CompleteAnswersAreWhole` | `ImpactSpec => []CompleteAnswerIsWhole` |
| `AnswersAreReached` | `ImpactSpec => []AnswerIsReached` |

*Distances.* `Within`, the reference the search is compared with, is defined by
recursion, and so are the path that leads back along the predecessors and the reach in a
tree. `Iteration` proves, from the well-foundedness of `<`, that a step can be repeated any
number of times; hence the three recursions have solutions, and their equations
may be used. `LayersSettle` counts: at each distance there is a file more or nothing
new, so that as many steps as there are files reach all (`Reachable`).
`ClosedHoldsLayers` says that a set closed under neighbours up to a depth contains what
is within that depth.

*The search.* `TraversalInv` is the argument for breadth-first search with two bounds.
`QueueIsOrdered`: depths along the queue do not decrease, and exceed that of the file
taken last by one at most. `DepthsAreDistances`: a file was met at its distance, from one a
step closer. `TakenAreClosed`: of the files taken, all neighbours are met - of the last
one, those no longer to look at, unless more are still to look at than may be added -
so that when the queue moves on to the next depth everything within that depth is
met. That `collectNeighbors` collects one more than may be added is what makes the exception
sound: the search then ends with `max-entities` and never silently
(`CutAtTheLimit`). `CutsAreTold`: each truncation has a witness that was left out.

*The answer.* `NothingIsLeftOut` says that a changed side is a target, was searched from
or is unresolved, and that a cut of the list of changes or of the targets is
told; `EntryOK` says of each result what the search promised. A complete answer has no
cut, nothing unresolved and complete results only; then no bound was exceeded and
`FirstOf` left nothing out.

### The shared database: `SharedDatabase_proofs`

| Theorem | States |
|---|---|
| `RecordsAreNotOverwritten` | `Spec => VersionsAreNotOverwritten` |

The database is never written except by `ExecuteBatch`, and the argument needs no
invariant: `HarmlessBatch` says that a batch whose mutations of version records all
are deletions, or are preconditioned on the record being missing, turns no analysis
into another; then there is one lemma for each of the four batches of a window.
The promotion of a legacy version is the interesting one: it writes a manifest only
under the precondition that there is none.

### The sidebar: `Sidebar_proofs`

| Theorem | States |
|---|---|
| `TypesHold` | `Spec => []SidebarTypeOK` |
| `DocumentsOfTheFolder` | `Spec => OpensInWorkspace` |
| `ResultsBelongToTheAnalysis` | `Spec => []ResultsMatchAnalysis` |
| `LoadingIsNotForgotten` | `Spec => []LoadingIsAnswered` |

`BesideAnalysis` relates a result to the analysis of the page and to the messages that
replace either. *Nothing waits for ever* needs three more invariants. `RequestsInv`:
requests of a kind arrive in the order of their ids; of a cancellable kind the service
works on one request, the active one; what is cancelled is not waited for; a request
left unanswered is no newer than the last one the provider took. `NoFolderInv`:
without a folder nothing is analysed or published, and the page has learned of it or is
about to. `WaitingInv` says, of each kind the page shows as loading, which of four it
is: asked (the request is on its way, and nothing behind it cancels it), served,
ending (an answer or what resets the page is on its way and will be accepted) or
left unanswered in one of the three ways the property names: aborted by another folder,
rejected, or answered by parents although one had been selected.

### Its route: `SidebarNavigation_proofs`

| Theorem | States |
|---|---|
| `NavigationTypesHold` | `Spec => []NavigationTypeOK` |
| `DeliveredHasReachedThePage` | `~LosesPosted => (Spec => []DeliveredReachesPage)` |

`DeliveryInv` orders the versions of host, page and messages: a host that a page has
announced itself to is never behind page or messages (so that the branch for a page
that is ahead is only taken when nothing counts as delivered); until then nothing
is posted; what a page announces is not newer than what it shows; a success that is
still to be reported is of a version the page has or is about to receive.
The hypothesis says that no page is destroyed with posted messages unread.

### Left to TLC

- The liveness properties `Converges`, `ChangesAreAnalysed`, `StageEnds`,
  `PageFollowsService`, `RoutesConverge` and `EveryRequestEnds`: fairness and `ENABLED`
  are beyond the prover.
- `RecoveryIsExact`, `RecoveryLosesNothing` and `CommitIsRecoverable`: they are about the
  newest version of a chain, which is defined by recursion along it, while two windows
  interleave their statements.

## Disagreement with the code

`child_of_merge`: to analyse the tree before a commit, `getCommitImpact` asks for the
metadata of the commit's parent, and asks without a parent SHA
(`project-dna-service.ts:1145-1153`). `selectParent` then applies to the parent's own
parents: when the parent is a merge, the request fails with `ambiguous-merge-parent`,
which `commit-metadata-provider.ts:384` words as "Merge commits require an explicit
direct parent SHA". The commit asked about is none, and no selection helps. In the
counterexample a commit with one parent, which has two, is asked about, and every await
before that succeeds.

In the sidebar it goes on. The provider answers each such failure with the commit's
parents to select from and `selectedParentSha` null (`sidebar-provider.ts:890-926`), also
when a parent had been selected. The page takes the first offer. Loading with a selected
parent, it rejects an answer that names another (`commit-impact-state.ts:83`, `186`) and
stays loading until the user cancels. The tests look at a first request only
(`commit-impact-state.test.ts:30`, `sidebar-navigation.test.ts:326`). `Sidebar` models the
second offer (`OfferParents`), and `LoadingIsAnswered` names it as an exception.

## Known exceptions

The following happens in the code and is modelled, or was seen while modelling. The
passing runs exclude these cases by a named condition or by their instance, and say
nothing about them.

The whole extension:

- *A switch of the workspace folder* clears the service (`clearCurrent`, 1699) but not the
  evolution engine. The first analysis of the new folder is version 1 with
  a snapshot whose parent belongs to the old one; `analysis-recovery.ts:395` rejects
  it and the analysis is quarantined at the next start. The handler also sets
  `rootPath`, so that `runAnalysis` (437) does not restore what is stored for the new
  folder: every refresh computes version 1, is refused by the preconditions of the
  batch and is rescheduled, until the user restarts. `README.md:435` promises "version
  continuity across extension restarts". And the operation running for the old folder
  is not cancelled, although `README.md:269` names that as the purpose of the abort
  signals; it may put the service back on the old folder. The windows of the passing
  runs stay on one folder.
- *A file created and deleted in one batch of events* is no change to
  `mergeChangeKinds` (`repository-watcher.ts:147`). When the running analysis read it in
  between, it stays in the published analysis with nothing pending. `Absent` is not
  among the contents of the runs with the watcher.
- *A path newly ignored by `.gitignore`, or a removed folder* of which only the folder
  is reported, leaves `calculateDirtyPaths` (`dna-orchestrator.ts:505`) without the
  files that disappear: entities that depended on them keep `dependsOn` until they
  change themselves. `DirtyClosureIsEnough` has the reported paths as its premise.
- A file that could not be read stays failed until it changes. Entities outside
  the dirty closure keep their importance. A full scan inside an incremental run
  publishes a graph that is stale for files whose report is still to come.

The shared database:

- The verdict on a version is reached on metadata, and the precondition of its removal
  is evidence read afterwards (`analysis-recovery.ts:149-173`): a version another window
  commits in between is removed though it is whole. Pointers are compared by version,
  previous version and format only. A repair may point to a candidate that was
  discarded meanwhile, and a recovery that found nothing deletes the root index while
  another window persists. All of these need a commit or a removal during the
  recovery: `disturbed` in the model.
- A window that lost a race keeps its old analysis, and each of its later batches is
  refused until it is reloaded.
- With one window: a legacy version 2 without version 1 is accepted; the next analysis
  persists version 3 with a manifest; the recovery after that quarantines both
  (`analysis-recovery.ts:434-441`). `CommitIsRecoverable` has the whole chain as its premise.

The sidebar:

- The progress event `scanning` of a commit's tree, and an analysis that is superseded
  without a retry, leave the provider in progress for ever (`sidebar-provider.ts:86`).
  `PageFollowsService` is about a provider that is not.
- The start of an analysis stops the publication of the version before; when that
  analysis fails, the page shows the error beside the older version.
- `analysisComplete` is posted without another check of the epoch; what is shown of
  an entity, a comparison or an impact is not reset by `analysisUnavailable`.
- Three requests are never answered in a way the page takes, and `LoadingIsAnswered`
  names them (`unanswered` in the model): an impact request aborted by a switch of
  folders; a commit or range whose promise is rejected, as when a tree cannot be removed
  (`project-dna-service.ts:1091-1094`, `1204-1207`), which also stays the active one;
  a commit with a selected parent that is answered by parents to select from, since that
  parent is a merge itself (see `child_of_merge`, above).
- A page hidden with a posted navigation unread may leave the host taking it for
  delivered: the next page then stays behind. VS Code promises a delivery, not its
  receipt. `navigation` excludes this case (`LosesPosted = FALSE`), in which both its
  properties fail, and `DeliveredHasReachedThePage` has it as a hypothesis.
- A panel that offers a single parent, as only a child of a merge makes it, is forgotten
  with its request ids when the page is made anew (`commit-impact-state.ts:155`); the
  model keeps it.

Impact requests:

- A crash leaves `project-dna-commit-tree-*` directories for ever. A removal that fails
  in a `finally` replaces the answer by a rejection, which the sidebar does not answer
  (above), and races with the child that was
  killed. An abort during `mkdtemp` is only noticed by the measuring of the tree.
- Edits that cancel out between the two Git calls of a working-tree query are not
  noticed. Commit and pull-request requests do not check the epoch at all. The
  `complete` of a working-tree answer (969) ignores whether its searches were.

## What is not modelled

- Persistence through a storage without batches (`persistAnalysis` 1800-1831); the
  extension always uses `SqliteStorage`.
- What the engines compute of a single file, and the score, domains, capabilities and
  risks of an impact: heuristics without state. Cycle detection, trends and snapshot
  differences are queries for display.
- The parsing of Git's and tar's output, and the conversion to transfer objects.
- That a message fails its schema and is dropped by the host (an error above 2000
  characters, more than 64 parents).
- `DeterministicAstWorkerPool.parse`, which collects the same stream into an array
  and releases nothing; the analysis does not use it.
- Timing: intervals and limits are timers that may fire.
- The container, logging, the native runtime, build scripts, packaging, benchmarks,
  CI, rendering.

## Plan

Done: the life cycle with the watcher; the parsing stage; the shared database; the
sidebar, its page and its navigation; the four kinds of impact request; incremental
analysis; the search - and the theorems above, which state every safety property of the
runs except those of the recovery.

Next:

1. `CommitIsRecoverable` with an invariant on what the pointer a window holds says of
   the rows, and the types of `SharedDatabase`; then `RecoveryIsExact` for one window.
2. A weaker premise than `NothingCancelsOut`: only a deletion that arrives while an
   analysis runs can lose a change.
3. An abstract "publish atomically" specification implemented by `ProjectDNAService`
   under `StaysInWorkspace`.
