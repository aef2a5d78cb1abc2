-------------------------- MODULE RepositoryWatcher --------------------------
(***************************************************************************)
(* The RepositoryWatcher of the VS Code extension: it turns file system    *)
(* events of the first workspace folder into RepositoryFilesChanged and    *)
(* RepositoryWatcherInvalidated events.  Every watcher has an epoch, every *)
(* batch of an epoch a sequence number; an epoch ends when the workspace   *)
(* changes or too many changes are pending.                                *)
(*                                                                         *)
(* The event bus calls its listeners synchronously, so an action that emits*)
(* is completed by its user with the listener's step (WorkspaceAnalysis).  *)
(***************************************************************************)
EXTENDS Workspace

CONSTANT MaxFileEvents   \* bound on the events the editor has yet to deliver

VARIABLES
    wRoot,            \* rootPath, or None without a workspace folder
    wEpoch,           \* watcherEpoch
    wSequence,        \* sequence
    wPending,         \* pendingChanges: kind of the change of every path, or None
    wFlushScheduled,  \* flushScheduled
    wFlushes,         \* epochs of the queued flush microtasks
    fileEvents        \* external: events the editor owes the current watcher

watcherVars == <<wRoot, wEpoch, wSequence, wPending, wFlushScheduled, wFlushes, fileEvents>>

Kinds == {"created", "modified", "deleted"}
FileEvent == [kind : Kinds, path : Paths]

\* null is not a kind of change.
ASSUME KindsAssumption == None \notin Kinds

WatcherTypeOK ==
    /\ wRoot \in Roots \cup {None}
    /\ wEpoch \in Nat
    /\ wSequence \in Nat
    /\ wPending \in [Paths -> Kinds \cup {None}]
    /\ wFlushScheduled \in BOOLEAN
    /\ wFlushes \in Seq(Nat)
    /\ fileEvents \in Seq(FileEvent)

NothingPending == [p \in Paths |-> None]
PendingPaths == {p \in Paths : wPending[p] # None}

\* mergeChangeKinds: the change two successive changes of a path amount to.
MergeKinds(previous, next) ==
    CASE previous = None -> next
      [] previous = "created" -> IF next = "deleted" THEN None ELSE "created"
      [] previous = "deleted" -> IF next = "deleted" THEN "deleted" ELSE "modified"
      [] OTHER -> IF next = "deleted" THEN "deleted" ELSE "modified"

\* The editor observes a change of a file of the watched folder.
EditorObserves(kind, p) ==
    /\ Len(fileEvents) < MaxFileEvents
    /\ fileEvents' = Append(fileEvents, [kind |-> kind, path |-> p])
    /\ UNCHANGED <<wRoot, wEpoch, wSequence, wPending, wFlushScheduled, wFlushes>>

\* The state a new watcher starts from; what the old one was owed is lost.
NewWatcher(root) ==
    /\ wRoot' = root
    /\ wEpoch' = wEpoch + 1
    /\ wSequence' = 0
    /\ wPending' = NothingPending
    /\ wFlushScheduled' = FALSE
    /\ UNCHANGED wFlushes
    /\ fileEvents' = <<>>

\* The pending changes once the next event of the editor is merged in.
Merged ==
    LET event == Head(fileEvents)
    IN  [wPending EXCEPT ![event.path] = MergeKinds(@, event.kind)]

Overflows == Cardinality({p \in Paths : Merged[p] # None}) > MaxPendingPaths

\* queueChange: the change is merged and a flush microtask scheduled.
QueueChange ==
    /\ fileEvents # <<>>
    /\ ~Overflows
    /\ fileEvents' = Tail(fileEvents)
    /\ wPending' = Merged
    /\ wFlushScheduled' = TRUE
    /\ wFlushes' = IF wFlushScheduled THEN wFlushes ELSE Append(wFlushes, wEpoch)
    /\ UNCHANGED <<wRoot, wEpoch, wSequence>>

\* queueChange with too many pending changes: invalidateForOverflow.
InvalidateForOverflow ==
    /\ fileEvents # <<>>
    /\ wEpoch < MaxEpoch
    /\ Overflows
    /\ NewWatcher(wRoot)

\* A flush microtask runs; FlushEmits when it is not of an earlier watcher and
\* there is something to publish.
FlushEmits == Head(wFlushes) = wEpoch /\ PendingPaths # {}

\* Mutant: flushScheduled is not reset.
FlushStaysScheduled ==
    /\ wFlushes # <<>>
    /\ wFlushes' = Tail(wFlushes)
    /\ IF FlushEmits
         THEN /\ wPending' = NothingPending
              /\ wSequence' = wSequence + 1
         ELSE UNCHANGED <<wPending, wSequence>>
    /\ UNCHANGED <<wRoot, wEpoch, wFlushScheduled, fileEvents>>

FlushChanges ==
    /\ wFlushes # <<>>
    /\ wFlushes' = Tail(wFlushes)
    /\ wFlushScheduled' = FALSE
    /\ IF FlushEmits
         THEN /\ wPending' = NothingPending
              /\ wSequence' = wSequence + 1
         ELSE UNCHANGED <<wPending, wSequence>>
    /\ UNCHANGED <<wRoot, wEpoch, fileEvents>>

\* replaceWorkspace, when the workspace folders change.
ReplaceWorkspace(root) ==
    /\ wEpoch < MaxEpoch
    /\ NewWatcher(root)

\* dispose: nothing is observed any more.
StopWatching ==
    /\ wPending' = NothingPending
    /\ fileEvents' = <<>>
    /\ UNCHANGED <<wRoot, wEpoch, wSequence, wFlushScheduled, wFlushes>>

InvalidationReason(root) == IF wRoot = root THEN "restart" ELSE "workspace-change"

\* The constructor, in a window with the given folder.
WatcherInit(root) ==
    /\ wRoot = root
    /\ wEpoch = 1
    /\ wSequence = 0
    /\ wPending = NothingPending
    /\ wFlushScheduled = FALSE
    /\ wFlushes = <<>>
    /\ fileEvents = <<>>

-----------------------------------------------------------------------------
(* Properties *)

\* A change the watcher holds always has a flush of the current watcher queued, whatever
\* overflows come in between: flushScheduled, which does not say for which watcher, is
\* never left true without one (repository-watcher.ts:95-106).  Flushes are microtasks
\* and a new watcher starts without events, so that those of an earlier watcher hardly
\* ever run beside changes of a later one.
PendingIsFlushed ==
    PendingPaths # {} => \E i \in 1 .. Len(wFlushes) : wFlushes[i] = wEpoch
=============================================================================
