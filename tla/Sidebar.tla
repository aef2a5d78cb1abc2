-------------------------------- MODULE Sidebar --------------------------------
(***************************************************************************)
(* The sidebar: the provider in the extension host, the page in the        *)
(* webview (SidebarPage), the messages between them, and as much of        *)
(* ProjectDNAService as the provider sees: the published analysis, the     *)
(* analysis that runs and the progress it emits.  The page is destroyed    *)
(* when the sidebar is hidden, made anew when it is shown, and its view is *)
(* disposed when it is closed; messages posted meanwhile are lost.         *)
(***************************************************************************)
EXTENDS SidebarPage, Sequences

CONSTANTS
    MaxVersion,     \* bound: versions of an analysis
    MaxAnalyses,    \* bound: analyses of the folder or of the trees of a commit
    MaxRequests,    \* bound: requests of the page
    MaxActs         \* bound: folders switched, pages hidden, views closed, parents selected

ASSUME SidebarAssumption ==
    /\ MaxVersion \in Nat \ {0}
    /\ MaxAnalyses \in Nat
    /\ MaxRequests \in Nat
    /\ MaxActs \in Nat

VARIABLES
    \* the workspace and the service
    workspace,      \* the open folder
    service,        \* folder and version of the published analysis
    analysis,       \* the folder of the analysis that runs
    \* the provider
    inProgress,     \* analysisInProgress
    activeRoot,     \* activeRootPath
    requested,      \* publicationRequested
    publications,   \* publishCurrentData past its first await
    active,         \* activeImpact, activeWorkingTreeImpact, ...: their request ids
    calls,          \* requests that wait for the service
    targets,        \* openWorkspaceTarget: waiting, with the folder it began in
    \* the page and the messages
    view,           \* "closed", "hidden", "running"
    page,
    toPage,
    toHost,
    \* bounds and history
    counts,
    unanswered,     \* of each kind the request last ended without an answer the page takes
    opened          \* the folder of the document shown last

serviceVars == <<workspace, service, analysis>>
publicationVars == <<inProgress, activeRoot, requested, publications>>
requestVars == <<active, calls, targets, opened>>
pageVars == <<view, page>>
vars ==
    <<serviceVars, publicationVars, requestVars, pageVars, toPage, toHost, counts, unanswered>>

Analyses == [root : Roots, version : 1 .. MaxVersion]

Init ==
    /\ workspace = (CHOOSE root \in Roots : TRUE)
    /\ service \in {None} \cup [root : {workspace}, version : {1}]
    /\ analysis = None
    /\ inProgress = FALSE
    /\ activeRoot = None
    /\ requested = FALSE
    /\ publications = {}
    /\ active = [kind \in Kinds \cap Cancellable |-> None]
    /\ calls = {}
    /\ targets = {}
    /\ view = "closed"
    /\ page = NewPage
    /\ toPage = <<>>
    /\ toHost = <<>>
    /\ counts = [analyses |-> 0, requests |-> 0, acts |-> 0]
    /\ unanswered = [kind \in Kinds |-> None]
    /\ opened = None

-----------------------------------------------------------------------------
(* What handlers share *)

\* A message reaches the page that runs, if any.
Post(messages) == toPage' = IF view = "running" THEN toPage \o messages ELSE toPage

Silent == UNCHANGED toPage

Message(type) == [type |-> type]
Unavailable(root) == [type |-> "analysisUnavailable", root |-> root]
Started(root) == [type |-> "analysisStarted", root |-> root]
Snapshot(p) == [type |-> "analysisSnapshot", version |-> p.version, root |-> p.root]
Answer(m, outcome, parent) ==
    [type |-> "result", kind |-> m.kind, id |-> m.id, version |-> m.version,
     parent |-> parent, outcome |-> outcome]

\* cancelActiveImpact and its like: the call ends and nothing comes of it.
Cancel(kinds) ==
    /\ active' = [kind \in DOMAIN active |-> IF kind \in kinds THEN None ELSE active[kind]]
    /\ calls' = {c \in calls : c.kind \notin kinds}

\* An active impact is aborted, and nothing tells the page.
Orphan ==
    unanswered' = IF "impact" \in Kinds /\ active["impact"] # None
                    THEN [unanswered EXCEPT !["impact"] = active["impact"]]
                    ELSE unanswered

\* publicationEpoch++: what is being assembled will not be published.
EndEpoch == publications' = {[p EXCEPT !.current = FALSE] : p \in publications}

-----------------------------------------------------------------------------
(* Publication of the analysis *)

Loaded == service # None /\ service.root = workspace

\* publishCurrentData up to its await
PublishCurrentData(byLoop) ==
    \/ /\ inProgress
       /\ Post(IF activeRoot = None THEN <<>> ELSE <<Started(activeRoot)>>)
       /\ UNCHANGED publications
    \/ /\ ~inProgress
       /\ ~Loaded
       /\ Post(<<Unavailable(workspace)>>)
       /\ UNCHANGED publications
    \/ /\ ~inProgress
       /\ Loaded
       /\ publications' = publications \cup
            {[root |-> service.root, version |-> service.version, step |-> "assembling",
              current |-> TRUE, byLoop |-> byLoop]}
       /\ Silent

\* publishCurrentData once the data is assembled: from one analysis, or not at all
PostSnapshot ==
    \E p \in publications :
      /\ p.step = "assembling"
      /\ \/ /\ p.current
            /\ service = [root |-> p.root, version |-> p.version]
            /\ Post(<<Snapshot(p)>>)
            /\ publications' = (publications \ {p}) \cup {[p EXCEPT !.step = "posted"]}
         \/ /\ p.current
            /\ service # [root |-> p.root, version |-> p.version]
            /\ Post(<<Message("analysisError")>>)
            /\ publications' = publications \ {p}
         \/ /\ ~p.current
            /\ Silent
            /\ publications' = publications \ {p}
      /\ UNCHANGED <<serviceVars, inProgress, activeRoot, requested, requestVars, pageVars,
                     toHost, counts, unanswered>>

\* publishCurrentData after the snapshot was posted; its epoch is not checked again
PostComplete ==
    \E p \in publications :
      /\ p.step = "posted"
      /\ publications' = publications \ {p}
      /\ Post(<<Message("analysisComplete")>>)
      /\ UNCHANGED <<serviceVars, inProgress, activeRoot, requested, requestVars, pageVars,
                     toHost, counts, unanswered>>

\* requestPublication: one publication after the other for as long as there are
\* requests
PublicationLoop ==
    /\ requested
    /\ \A p \in publications : ~p.byLoop
    /\ requested' = FALSE
    /\ PublishCurrentData(TRUE)
    /\ UNCHANGED <<serviceVars, inProgress, activeRoot, requestVars, pageVars, toHost, counts, unanswered>>

-----------------------------------------------------------------------------
(* The provider's subscriptions *)

\* onProgress, "scanning": of an analysis, or of the tree of a commit
OnScanning ==
    \/ /\ inProgress
       /\ UNCHANGED <<publicationVars, active, calls, unanswered>>
       /\ Silent
    \/ /\ ~inProgress
       /\ workspace # None
       /\ Cancel({"impact", "workingTree"})
       /\ EndEpoch
       /\ inProgress' = TRUE
       /\ activeRoot' = workspace
       /\ Post(<<Started(workspace)>>)
       /\ UNCHANGED <<requested, unanswered>>
    \/ /\ ~inProgress
       /\ workspace = None
       /\ Cancel({"impact", "workingTree"})
       /\ Orphan
       /\ UNCHANGED publicationVars
       /\ Silent

\* onProgress, "failed"
OnFailed ==
    /\ inProgress' = FALSE
    /\ activeRoot' = None
    /\ Post(<<Message("analysisError")>>)
    /\ UNCHANGED <<requested, publications>>

\* onReady, and onProgress, "complete"
OnComplete ==
    /\ inProgress' = FALSE
    /\ activeRoot' = None
    /\ requested' = TRUE
    /\ UNCHANGED publications
    /\ Silent

\* handleWorkspaceChanged
OnWorkspaceChanged(root) ==
    /\ Cancel(Cancellable)
    /\ EndEpoch
    /\ inProgress' = FALSE
    /\ activeRoot' = None
    /\ requested' = FALSE
    /\ Post(<<Unavailable(root)>>)

-----------------------------------------------------------------------------
(* The service *)

Analyze(root) ==
    /\ analysis = None
    /\ analysis' = root
    /\ OnScanning

\* A command, or a refresh of changed files: of the folder that is open, or of the one
\* that was when none is
StartAnalysis ==
    /\ counts.analyses < MaxAnalyses
    /\ counts' = [counts EXCEPT !.analyses = @ + 1]
    /\ \/ workspace # None /\ Analyze(workspace)
       \/ workspace = None /\ service # None /\ Analyze(service.root)
    /\ UNCHANGED <<workspace, service, targets, opened, pageVars, toHost>>

\* An analysis of a folder of which nothing is published restores what is stored.
Restore ==
    /\ analysis # None
    /\ service = None
    /\ \E version \in 1 .. MaxVersion : service' = [root |-> analysis, version |-> version]
    /\ Silent
    /\ UNCHANGED <<workspace, analysis, publicationVars, requestVars, pageVars, toHost, counts, unanswered>>

\* A new version is published, or nothing has changed.  An analysis of a folder that was
\* left is superseded.
Complete ==
    /\ analysis # None
    /\ workspace \in {None, analysis}
    /\ analysis' = None
    /\ \/ service = None /\ service' = [root |-> analysis, version |-> 1]
       \/ service # None /\ UNCHANGED service
       \/ /\ service # None
          /\ service.version < MaxVersion
          /\ service' = [service EXCEPT !.version = @ + 1]
    /\ OnComplete
    /\ UNCHANGED <<workspace, requestVars, pageVars, toHost, counts, unanswered>>

Fail ==
    /\ analysis # None
    /\ analysis' = None
    /\ OnFailed
    /\ UNCHANGED <<workspace, service, requestVars, pageVars, toHost, counts, unanswered>>

\* A superseded analysis ends without any progress.  It is followed by a refresh when
\* changes are pending.
Supersede ==
    /\ analysis # None
    /\ analysis' = None
    /\ Silent
    /\ UNCHANGED <<workspace, service, publicationVars, requestVars, pageVars, toHost, counts, unanswered>>

\* The trees of a commit are analysed with the same pipeline as the repository.
AnalyzeHistoricalTree ==
    /\ \E c \in calls : c.kind \in Historical /\ c.step = "service"
    /\ counts.analyses < MaxAnalyses
    /\ counts' = [counts EXCEPT !.analyses = @ + 1]
    /\ OnScanning
    /\ UNCHANGED <<serviceVars, targets, opened, pageVars, toHost>>

\* The watcher tells the provider, then the service.
SwitchWorkspace(root) ==
    /\ root # workspace
    /\ counts.acts < MaxActs
    /\ counts' = [counts EXCEPT !.acts = @ + 1]
    /\ workspace' = root
    /\ service' = IF service # None /\ root \notin {None, service.root} THEN None ELSE service
    /\ OnWorkspaceChanged(root)
    /\ Orphan
    /\ UNCHANGED <<analysis, targets, opened, pageVars, toHost>>
-----------------------------------------------------------------------------
(* The provider's handlers of the page's messages *)

Receive(type) ==
    /\ toHost # <<>>
    /\ Head(toHost).type = type
    /\ toHost' = Tail(toHost)

HandleReady ==
    /\ Receive("ready")
    /\ PublishCurrentData(FALSE)
    /\ UNCHANGED <<serviceVars, inProgress, activeRoot, requested, requestVars, pageVars, counts, unanswered>>

\* analyzeWorkspace and refreshAnalysis; what runs already is joined or refused.
HandleAnalyze ==
    /\ \/ Receive("requestAnalysis") \/ Receive("requestRefresh")
    /\ LET root == IF Head(toHost).type = "requestRefresh" /\ service # None
                     THEN service.root ELSE workspace
       IN  \/ /\ root # None
              /\ Analyze(root)
           \/ /\ root # None
              /\ analysis # None
              /\ UNCHANGED <<analysis, publicationVars, active, calls, unanswered>>
              /\ Silent
           \/ /\ root = None
              /\ UNCHANGED <<analysis, publicationVars, active, calls, unanswered>>
              /\ Post(<<Message("analysisError")>>)
    /\ UNCHANGED <<workspace, service, targets, opened, pageVars, counts>>

Call(m) ==
    [kind |-> m.kind, id |-> m.id, version |-> m.version, parent |-> m.parent, step |-> "service"]

\* A request that is passed to the service; one of a kind that can be cancelled cancels
\* the one before
Serve(m) ==
    /\ calls' = {c \in calls : c.kind # m.kind \/ c.kind \notin Cancellable} \cup {Call(m)}
    /\ active' = [kind \in DOMAIN active |-> IF kind = m.kind THEN m.id ELSE active[kind]]
    /\ Silent

Refuse(m) == Post(<<Answer(m, "error", m.parent)>>)

OfCurrentAnalysis(m) == service # None /\ service.version = m.version

\* publishEntityDetail, publishEvolutionComparison, up to their awaits
HandleQuery(m) ==
    \/ OfCurrentAnalysis(m) /\ Serve(m)
    \/ ~OfCurrentAnalysis(m) /\ Refuse(m) /\ UNCHANGED <<calls, active>>

\* publishImpact, publishWorkingTreeImpact
HandleImpact(m) ==
    \/ OfCurrentAnalysis(m) /\ Serve(m)
    \/ ~OfCurrentAnalysis(m) /\ Refuse(m) /\ Cancel({m.kind})

\* publishCommitImpact
HandleCommit(m) ==
    \/ service # None /\ workspace # None /\ Serve(m)
    \/ ~(service # None /\ workspace # None) /\ Refuse(m) /\ Cancel({m.kind})

\* publishPullRequestImpact: what is refused stays the active one
HandlePullRequest(m) ==
    \/ service # None /\ Serve(m)
    \/ /\ service = None
       /\ Refuse(m)
       /\ calls' = {c \in calls : c.kind # m.kind}
       /\ active' = [active EXCEPT ![m.kind] = m.id]

HandleRequest ==
    /\ Receive("request")
    /\ LET m == Head(toHost)
       IN  \/ m.kind \in {"entity", "evolution"} /\ HandleQuery(m)
           \/ m.kind \in {"impact", "workingTree"} /\ HandleImpact(m)
           \/ m.kind = "commit" /\ HandleCommit(m)
           \/ m.kind = "pullRequest" /\ HandlePullRequest(m)
    /\ UNCHANGED <<serviceVars, publicationVars, targets, opened, pageVars, counts, unanswered>>

HandleCancel ==
    /\ Receive("cancel")
    /\ LET m == Head(toHost)
       IN  IF active[m.kind] = m.id
             THEN Cancel({m.kind})
             ELSE UNCHANGED <<active, calls>>
    /\ UNCHANGED <<serviceVars, publicationVars, targets, opened, pageVars, toPage, counts, unanswered>>

Finish(c) ==
    /\ calls' = calls \ {c}
    /\ active' = [kind \in DOMAIN active |-> IF kind = c.kind THEN None ELSE active[kind]]

\* The promise of the service is rejected, as when the trees of a commit cannot be
\* removed: nothing is posted, and the request stays the active one.
Reject(c) ==
    /\ c.step = "service"
    /\ calls' = calls \ {c}
    /\ unanswered' = [unanswered EXCEPT ![c.kind] = c.id]
    /\ Silent
    /\ UNCHANGED active

\* The same functions after their await.  The service answers an entity or comparison;
\* an impact of the published analysis while no other is computed (ProjectDNAService) ...
AnswerVersioned(c) ==
    /\ c.kind \in Versioned
    /\ Finish(c)
    /\ \/ Post(<<Answer(c, "error", None)>>)
       \/ /\ c.kind \in Cancellable => analysis = None /\ OfCurrentAnalysis(c)
          /\ Post(<<Answer(c, "result", None)>>)
    /\ UNCHANGED unanswered

\* Mutant: the error of a request with a selected parent does not name it.
CommitErrorOfNoParent(c) == Answer(c, "error", None)

CommitError(c) == Answer(c, "error", c.parent)

\* ... the impact of a commit on the parent that was selected or its only one, which may
\* not cross the boundary, ...
AnswerWithParent(c) ==
    /\ c.step = "service"
    /\ Finish(c)
    /\ \E outcome \in {"result", "error"},
          parent \in IF c.parent = None THEN Parents \cup {None} ELSE {c.parent} :
         Post(<<Answer(c, outcome, parent)>>)
    /\ UNCHANGED unanswered

\* ... or the parents to select from, which are looked up once more.  They are offered
\* also when one had been selected, as the parent of the parent is ambiguous then
\* (HistoricalImpact), and that the page does not take.
OfferParents(c) ==
    \/ /\ c.step = "service"
       /\ calls' = (calls \ {c}) \cup {[c EXCEPT !.step = "parents"]}
       /\ Silent
       /\ UNCHANGED <<active, unanswered>>
    \/ /\ c.step = "parents"
       /\ Finish(c)
       /\ Post(<<Answer(c, "parents", None)>>)
       /\ unanswered' = IF c.parent = None THEN unanswered
                        ELSE [unanswered EXCEPT ![c.kind] = c.id]

AnswerCommit(c) ==
    /\ c.kind = "commit"
    /\ \/ Finish(c) /\ Post(<<CommitError(c)>>) /\ UNCHANGED unanswered
       \/ AnswerWithParent(c)
       \/ OfferParents(c)
       \/ Reject(c)

\* ... or the impact of a range.
AnswerPullRequest(c) ==
    /\ c.kind = "pullRequest"
    /\ \/ /\ Finish(c)
          /\ \E outcome \in {"result", "error"} : Post(<<Answer(c, outcome, None)>>)
          /\ UNCHANGED unanswered
       \/ Reject(c)

AnswerRequest ==
    /\ \E c \in calls : AnswerVersioned(c) \/ AnswerCommit(c) \/ AnswerPullRequest(c)
    /\ UNCHANGED <<serviceVars, publicationVars, targets, opened, pageVars, toHost, counts>>

\* openWorkspaceTarget: to the look at the file, to the document being opened, and shown
HandleOpen ==
    /\ Receive("openWorkspaceTarget")
    /\ targets' = IF workspace = None THEN targets
                  ELSE targets \cup {[root |-> workspace, step |-> "looking"]}
    /\ UNCHANGED <<serviceVars, publicationVars, active, calls, opened, pageVars, toPage, counts, unanswered>>

\* Mutant: the folder is not looked at again once the document was opened.
OpenTargetUnchecked ==
    \E t \in targets :
      /\ \/ /\ t.step = "looking"
            /\ t.root = workspace
            /\ targets' = (targets \ {t}) \cup {[t EXCEPT !.step = "opening"]}
            /\ UNCHANGED opened
         \/ /\ t.step = "opening" \/ t.root # workspace
            /\ targets' = targets \ {t}
            /\ opened' = IF t.step = "opening" THEN t.root ELSE opened
      /\ UNCHANGED <<serviceVars, publicationVars, active, calls, pageVars, toPage, toHost, counts, unanswered>>

\* A target that leaves the folder or is missing is rejected; a directory is shown
\* without being opened.
OpenTarget ==
    \E t \in targets :
      /\ \/ /\ t.step = "looking"
            /\ t.root = workspace
            /\ targets' = (targets \ {t}) \cup {[t EXCEPT !.step = "opening"]}
            /\ UNCHANGED opened
         \/ /\ t.root = workspace
            /\ targets' = targets \ {t}
            /\ opened' = t.root
         \/ /\ targets' = targets \ {t}
            /\ UNCHANGED opened
      /\ UNCHANGED <<serviceVars, publicationVars, active, calls, pageVars, toPage, toHost, counts, unanswered>>

-----------------------------------------------------------------------------
(* The page *)

\* handleMessage: one message to all reducers
ReceiveMessage ==
    /\ view = "running"
    /\ toPage # <<>>
    /\ page' = Reduce(page, Head(toPage))
    /\ toPage' = Tail(toPage)
    /\ UNCHANGED <<serviceVars, publicationVars, requestVars, view, toHost, counts, unanswered>>

\* Something the user does in the page
Act(messages) ==
    /\ view = "running"
    /\ toHost' = toHost \o messages
    /\ UNCHANGED <<serviceVars, publicationVars, requestVars, view, toPage, unanswered>>

BoundedAct(messages) ==
    /\ counts.requests < MaxRequests
    /\ counts' = [counts EXCEPT !.requests = @ + 1]
    /\ Act(messages)

RequestMessage(kind, request) ==
    [type |-> "request", kind |-> kind, id |-> request.id, version |-> request.version,
     parent |-> request.parent]

CancelMessage(kind) == [type |-> "cancel", kind |-> kind, id |-> page.requests[kind].id]

Shown(kind) == kind \in Kinds /\ page.requests[kind].status = "ready"

\* Where the page offers a kind of request: on the analysis, on what another request
\* found, on the panel of a commit or range, which the analysis opens
IsOffered(kind) ==
    \/ kind \in Versioned /\ page.analysis.status = "ready"
    \/ kind = "entity" /\ (Shown("impact") \/ Shown("workingTree"))
    \/ kind = "impact" /\ Shown("entity")
    \/ kind \in Historical /\ page.requests[kind].status \notin {"idle", "loading"}
    \/ kind \in Historical /\ page.requests[kind].status = "idle" /\ page.analysis.status = "ready"

Request(kind, parent) ==
    /\ IsOffered(kind)
    /\ parent # None => kind = "commit" /\ page.requests[kind].status = "parent-selection"
    /\ LET version == IF kind \in Versioned THEN page.analysis.version ELSE 0
           request == Requested(page.requests[kind], version, parent)
       IN  /\ page' = [page EXCEPT !.requests[kind] = request]
           /\ Act(<<RequestMessage(kind, request)>>)
    /\ \/ /\ parent = None
          /\ counts.requests < MaxRequests
          /\ counts' = [counts EXCEPT !.requests = @ + 1]
       \/ /\ parent # None
          /\ counts.acts < MaxActs
          /\ counts' = [counts EXCEPT !.acts = @ + 1]

CancelRequest(kind) ==
    /\ kind \in Cancellable
    /\ page.requests[kind].status = "loading"
    /\ page' = [page EXCEPT !.requests[kind] = CancelledRequest(@)]
    /\ Act(<<CancelMessage(kind)>>)
    /\ UNCHANGED counts

ClosePanel(kind) ==
    /\ kind \in Historical
    /\ page.requests[kind].status # "idle"
    /\ page' = [page EXCEPT !.requests[kind] = NoRequest(@.id)]
    /\ Act(IF page.requests[kind].status = "loading" THEN <<CancelMessage(kind)>> ELSE <<>>)
    /\ UNCHANGED counts

PressAnalyze ==
    /\ \/ page.analysis.status = "empty" /\ page.analysis.root # None
       \/ page.analysis.status \in {"error", "ready"}
    /\ \E type \in {"requestAnalysis", "requestRefresh"} :
         /\ type = "requestRefresh" => page.analysis.status = "ready"
         /\ Act(<<Message(type)>>)
    /\ counts.analyses < MaxAnalyses
    /\ counts' = [counts EXCEPT !.analyses = @ + 1]
    /\ UNCHANGED page

PressOpen ==
    /\ page.analysis.status = "ready"
    /\ BoundedAct(<<Message("openWorkspaceTarget")>>)
    /\ UNCHANGED page

-----------------------------------------------------------------------------
(* The view *)

\* The effects that ask again for what was loading, in their order
AskAgain(p, kind) ==
    IF kind \in Kinds /\ p.requests[kind].status = "loading"
      THEN <<RequestMessage(kind, p.requests[kind])>> ELSE <<>>

Effects(p) ==
    AskAgain(p, "entity") \o AskAgain(p, "pullRequest") \o AskAgain(p, "commit")
      \o AskAgain(p, "impact") \o AskAgain(p, "workingTree") \o AskAgain(p, "evolution")

\* The page is made anew, tells that it is ready, and asks again.
Show ==
    /\ view \in {"closed", "hidden"}
    /\ view' = "running"
    /\ page' = Restored(page)
    /\ toHost' = toHost \o <<Message("ready")>> \o Effects(page)
    /\ UNCHANGED <<serviceVars, publicationVars, requestVars, toPage, counts, unanswered>>

Hide ==
    /\ view = "running"
    /\ counts.acts < MaxActs
    /\ counts' = [counts EXCEPT !.acts = @ + 1]
    /\ view' = "hidden"
    /\ toPage' = <<>>
    /\ UNCHANGED <<serviceVars, publicationVars, requestVars, page, toHost, unanswered>>

\* onDidDispose: what the view asked for is not answered.
Close ==
    /\ view \in {"running", "hidden"}
    /\ counts.acts < MaxActs
    /\ counts' = [counts EXCEPT !.acts = @ + 1]
    /\ view' = "closed"
    /\ toPage' = <<>>
    /\ toHost' = <<>>
    /\ active' = [kind \in DOMAIN active |-> None]
    /\ calls' = {}
    /\ targets' = {}
    /\ UNCHANGED <<serviceVars, publicationVars, page, opened, unanswered>>

-----------------------------------------------------------------------------
Environment ==
    \/ StartAnalysis
    \/ Restore
    \/ AnalyzeHistoricalTree
    \/ \E root \in Roots \cup {None} : SwitchWorkspace(root)
    \/ Hide
    \/ Close

User ==
    \/ \E kind \in Kinds, parent \in Parents \cup {None} : Request(kind, parent)
    \/ \E kind \in Kinds : CancelRequest(kind) \/ ClosePanel(kind)
    \/ PressAnalyze
    \/ PressOpen

EndAnalysis == Complete \/ Fail \/ Supersede

Publish == PublicationLoop \/ PostSnapshot \/ PostComplete

Handle ==
    HandleReady \/ HandleAnalyze \/ HandleRequest \/ HandleCancel \/ HandleOpen

Answering == AnswerRequest \/ OpenTarget

Next == Environment \/ User \/ EndAnalysis \/ Publish \/ Handle \/ Answering \/ ReceiveMessage \/ Show

Spec == Init /\ [][Next]_vars

\* Analyses end, timers and callbacks run, messages between extension and page arrive.
Fairness ==
    /\ WF_vars(EndAnalysis)
    /\ WF_vars(PublicationLoop)
    /\ WF_vars(PostSnapshot)
    /\ WF_vars(PostComplete)
    /\ WF_vars(Handle)
    /\ WF_vars(AnswerRequest)
    /\ WF_vars(OpenTarget)
    /\ WF_vars(ReceiveMessage)

FairSpec == Spec /\ Fairness

-----------------------------------------------------------------------------
(* Properties *)

SidebarTypeOK ==
    /\ workspace \in Roots \cup {None}
    /\ service \in {None} \cup Analyses
    /\ analysis \in Roots \cup {None}
    /\ inProgress \in BOOLEAN
    /\ activeRoot \in Roots \cup {None}
    /\ inProgress <=> activeRoot # None
    /\ requested \in BOOLEAN
    /\ \A p \in publications : p.step \in {"assembling", "posted"} /\ [root |-> p.root, version |-> p.version] \in Analyses
    /\ active \in [Kinds \cap Cancellable -> Nat \cup {None}]
    /\ view \in {"closed", "hidden", "running"}
    /\ page \in Pages
    /\ \A i \in DOMAIN toPage : toPage[i] \in ExtensionMessages
    /\ \A i \in DOMAIN toHost : toHost[i] \in WebviewMessages

InSequence(message(_), messages) == \E i \in DOMAIN messages : message(messages[i])

\* A request the page shows as loading is not forgotten: it is on its way to the
\* provider, the service works on it, or its answer or what resets it is on its way
\* back.  The exceptions are the last unanswered requests: an impact aborted by another
\* folder; a commit or range whose promise was rejected; a commit with a selected parent
\* for which parents are offered again.
LoadingIsAnswered ==
    \A kind \in Kinds :
      LET request == page.requests[kind]
          asks(m) == m.type = "request" /\ m.kind = kind /\ m.id = request.id
          ends(m) == IsReset(kind, request, m) \/ IsAnswer(kind, request, m)
      IN  view = "running" /\ request.status = "loading" =>
            \/ InSequence(asks, toHost)
            \/ \E c \in calls : c.kind = kind /\ c.id = request.id
            \/ InSequence(ends, toPage)
            \/ request.id = unanswered[kind]

\* What the page shows of an entity, comparison or impact was asked of the analysis the
\* page shows beside it.
ResultsMatchAnalysis ==
    \A kind \in Kinds \cap Versioned :
      page.analysis.status = "ready" /\ page.requests[kind].status \in {"loading", "ready"} =>
        page.requests[kind].version = page.analysis.version

\* A document is shown only while the folder is open in which the user asked for it.
OpensInWorkspace == [][opened' # opened => opened' = workspace]_vars

PageIsCurrent ==
    IF Loaded
      THEN \/ /\ page.analysis.status = "ready"
              /\ page.analysis.root = workspace
              /\ page.analysis.version = service.version
           \/ page.analysis.error
      ELSE ~page.analysis.repository

\* Once folders, analyses and the view come to rest, a page that is shown shows the
\* published analysis of the open folder, or none.  It may lag behind only beside the
\* error of an analysis that failed: one that failed before the page had shown any, or
\* whose start had stopped the publication of the version before.
PageFollowsService == <>[](view = "running" /\ ~inProgress => PageIsCurrent)
=============================================================================
