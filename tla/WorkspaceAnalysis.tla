-------------------------- MODULE WorkspaceAnalysis --------------------------
(***************************************************************************)
(* The running extension: the files of the workspace, the watcher that     *)
(* reports their changes, and the service that analyses them.  An event the*)
(* watcher emits is handled by the service in the same step, because the   *)
(* event bus is synchronous; everything else interleaves.                  *)
(***************************************************************************)
EXTENDS ProjectDNAService, RepositoryWatcher

CONSTANT Absent   \* the content of a file that does not exist

workspaceVars == <<vars, watcherVars>>

\* The editor delivers the events of a batch in one task; the flush microtasks
\* they queue run when it ends, before anything else gets a turn.
TaskEnded == wFlushes = <<>>

-----------------------------------------------------------------------------
(* Files *)

ChangeKind(old, new) ==
    CASE old = Absent -> "created"
      [] new = Absent -> "deleted"
      [] OTHER -> "modified"

\* A file changes; the editor will tell the watcher if it watches the folder.
\* MaxGeneration and MaxSequence bound the edits so that every notification they
\* lead to can be accepted.
Edit(r, p, c) ==
    LET owed == Len(fileEvents) + Cardinality(PendingPaths)
    IN  /\ TaskEnded
        /\ changeGeneration + owed < MaxGeneration
        /\ wSequence + owed < MaxSequence
        /\ EditFile(r, p, c)
        /\ IF r = wRoot /\ ~disposed
             THEN EditorObserves(ChangeKind(disk[r][p], c), p)
             ELSE UNCHANGED watcherVars

-----------------------------------------------------------------------------
(* Events the watcher emits and the service handles, or drops *)

NotifyFilesChanged ==
    IF AcceptsFilesChanged(wRoot, wEpoch, wSequence + 1)
      THEN RepositoryFilesChanged(wRoot, wEpoch, wSequence + 1, PendingPaths)
      ELSE UNCHANGED vars

NotifyInvalidated(r, reason) ==
    IF AcceptsInvalidation(r, wEpoch + 1, reason)
      THEN RepositoryWatcherInvalidated(r, wEpoch + 1, reason)
      ELSE UNCHANGED vars

Queue == QueueChange /\ UNCHANGED vars

Overflow == InvalidateForOverflow /\ NotifyInvalidated(wRoot, "overflow")

Flush ==
    /\ FlushChanges
    /\ IF FlushEmits THEN NotifyFilesChanged ELSE UNCHANGED vars

\* The user opens another folder, closes it (None), or the folders change
\* behind an unchanged first one.
SwitchWorkspace(r) ==
    /\ TaskEnded
    /\ ~disposed
    /\ ReplaceWorkspace(r)
    /\ IF r = None THEN UNCHANGED vars ELSE NotifyInvalidated(r, InvalidationReason(r))

-----------------------------------------------------------------------------
(* Users: commands and sidebar analyse the first workspace folder.  Impact  *)
(* queries change nothing the rest depends on and are left to              *)
(* ProjectDNAService.                                                      *)

UserRequest ==
    /\ TaskEnded
    /\ \/ wRoot # None /\ \E signal \in {"none", "live"} : Analyze(wRoot, signal)
       \/ Refresh
       \/ Abort
    /\ UNCHANGED watcherVars

\* deactivate disposes the service; the editor then disposes the watcher.
Deactivate == TaskEnded /\ Dispose /\ StopWatching

\* A new window: the service is restored, then the watcher constructed.
RestartWindow(r) ==
    /\ RestartExtension(r) \/ RestartUnrestored(r)
    /\ wRoot' = r
    /\ wEpoch' = 1
    /\ wSequence' = 0
    /\ wPending' = NothingPending
    /\ wFlushScheduled' = FALSE
    /\ wFlushes' = <<>>
    /\ fileEvents' = <<>>

-----------------------------------------------------------------------------
(* Specification *)

ServiceStep ==
    /\ TaskEnded
    /\ RunAnalysis \/ AutomaticRefresh
    /\ UNCHANGED watcherVars

WatcherStep == Queue \/ Overflow \/ Flush

WorkspaceInit == Init /\ \E r \in Roots : WatcherInit(r)

WorkspaceNext ==
    \/ ServiceStep
    \/ WatcherStep
    \/ UserRequest
    \/ Deactivate
    \/ \E r \in Roots, p \in Paths, c \in Contents : Edit(r, p, c)
    \/ \E r \in Roots \cup {None} : SwitchWorkspace(r)
    \/ \E r \in Roots : RestartWindow(r)

WorkspaceSpec == WorkspaceInit /\ [][WorkspaceNext]_workspaceVars

\* Microtasks and timers run, promises settle and the editor delivers its events
\* whatever the user does; nothing else is certain to happen.
Fairness == WF_workspaceVars(ServiceStep) /\ WF_workspaceVars(WatcherStep)

\* A window on a repository analysed before, in an earlier window.
ReopenedInit ==
    \E r \in Roots, content \in Observation :
        /\ Activated(r, {FirstVersion(r, content)})
        /\ WatcherInit(r)

ReopenedSpec == ReopenedInit /\ [][WorkspaceNext]_workspaceVars /\ Fairness

-----------------------------------------------------------------------------
(* Properties *)

\* The change of a file is on its way to the service, or waits there.
Unprocessed(p) ==
    \/ \E i \in 1 .. Len(fileEvents) : fileEvents[i].path = p
    \/ wPending[p] # None
    \/ pendingChanges[p] # 0
    \/ pendingOverflow

\* A file that differs from what the next incremental analysis would take for
\* granted has an event under way: no interleaving of edits, merged or dropped
\* notifications, overflows, restarted watchers, superseded and completed
\* analyses loses a change for good.
NoLostChange ==
    ~disposed /\ incrementalBaseline # None /\ incrementalBaseline.root = wRoot =>
        \A p \in Paths :
            incrementalBaseline.content[p] # disk[wRoot][p] => Unprocessed(p)

\* In the end users stop editing files and aborting analyses; they may go on
\* requesting them, querying, switching folders and reopening windows.
UsersRest == <>[][disk' = disk]_disk /\ <>[]~Aborted

\* Then every change the service was told about is analysed, once it follows a
\* repository and unless the extension is shut down: whatever is superseded,
\* aborted or overflows on the way, a refresh is scheduled that acknowledges it.
ChangesAreAnalysed ==
    UsersRest => (HasPending /\ rootPath # None ~> ~HasPending \/ disposed)

\* And what the service takes for granted becomes, for good, what the files of
\* the workspace contain.
Converges ==
    UsersRest =>
        <>[](incrementalBaseline # None /\ incrementalBaseline.root = wRoot =>
                incrementalBaseline.content = disk[wRoot])
=============================================================================
