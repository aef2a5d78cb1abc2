---------------------------- MODULE Sidebar_proofs ----------------------------
(***************************************************************************)
(* Proofs about the sidebar, for any folders, versions, kinds of requests  *)
(* and number of acts: no request the page shows as loading is forgotten,  *)
(* what it shows of an analysis was asked of the one it shows, and no      *)
(* document of a folder that was left is opened.                           *)
(***************************************************************************)
EXTENDS Sidebar, TLAPS

-----------------------------------------------------------------------------
(* Queues of messages *)

LEMMA TailAt ==
    ASSUME NEW S, NEW s \in Seq(S), s # <<>>
    PROVE  /\ Tail(s) \in Seq(S) /\ Head(s) \in S /\ 1 \in DOMAIN s /\ Head(s) = s[1]
           /\ \A i \in DOMAIN Tail(s) : i + 1 \in DOMAIN s /\ Tail(s)[i] = s[i + 1]
           /\ \A i \in DOMAIN s : i = 1 \/ (i - 1 \in DOMAIN Tail(s) /\ Tail(s)[i - 1] = s[i])
           /\ DOMAIN s \subseteq Nat /\ DOMAIN Tail(s) \subseteq Nat
OBVIOUS

LEMMA JoinedAt ==
    ASSUME NEW S, NEW s \in Seq(S), NEW t \in Seq(S)
    PROVE  /\ s \o t \in Seq(S)
           /\ \A i \in DOMAIN s : i \in DOMAIN (s \o t) /\ (s \o t)[i] = s[i]
           /\ \A i \in DOMAIN t : Len(s) + i \in DOMAIN (s \o t) /\ (s \o t)[Len(s) + i] = t[i]
           /\ \A i \in DOMAIN (s \o t) :
                 \/ i \in DOMAIN s
                 \/ i > Len(s) /\ i - Len(s) \in DOMAIN t /\ (s \o t)[i] = t[i - Len(s)]
           /\ \A i \in DOMAIN s : i <= Len(s)
           /\ Len(s) \in Nat /\ DOMAIN s \subseteq Nat /\ DOMAIN t \subseteq Nat /\ DOMAIN (s \o t) \subseteq Nat
OBVIOUS

LEMMA Single ==
    ASSUME NEW S, NEW m \in S
    PROVE  /\ <<m>> \in Seq(S) /\ Len(<<m>>) = 1 /\ <<m>>[1] = m
           /\ DOMAIN <<m>> = {1} /\ <<>> \in Seq(S) /\ DOMAIN <<>> = {}
OBVIOUS

-----------------------------------------------------------------------------
(* Types *)

Parented == [kind : Kinds, id : Nat, version : Nat, parent : Parents \cup {None}, step : {"service", "parents"}]

Publications ==
    [root : Roots, version : 1 .. MaxVersion, step : {"assembling", "posted"}, current : BOOLEAN,
     byLoop : BOOLEAN]

\* Only commits are asked for with a parent, and only what can be cancelled is cancelled.
MessageOK(m) ==
    /\ m \in WebviewMessages
    /\ m.type = "request" => m.parent = None \/ m.kind = "commit"
    /\ m.type = "cancel" => m.kind \in Cancellable

HostTypes ==
    /\ workspace \in Roots \cup {None}
    /\ service \in {None} \cup Analyses
    /\ analysis \in Roots \cup {None}
    /\ inProgress \in BOOLEAN
    /\ activeRoot \in Roots \cup {None}
    /\ inProgress <=> activeRoot # None
    /\ requested \in BOOLEAN
    /\ publications \subseteq Publications
    /\ active \in [Kinds \cap Cancellable -> Nat \cup {None}]
    /\ calls \subseteq Parented
    /\ \A c \in calls :
          /\ c.parent = None \/ c.kind = "commit"
          /\ c.step = "parents" => c.kind = "commit"
    /\ targets \subseteq [root : Roots, step : {"looking", "opening"}]

PageTypes ==
    /\ view \in {"closed", "hidden", "running"}
    /\ page \in Pages
    /\ \A kind \in Kinds : page.requests[kind].parent = None \/ kind = "commit"

QueueTypes ==
    /\ toPage \in Seq(ExtensionMessages)
    /\ toHost \in Seq(WebviewMessages)
    /\ \A i \in DOMAIN toHost : MessageOK(toHost[i])

TypeInv == HostTypes /\ PageTypes /\ QueueTypes

LEMMA TypesOfMessages ==
    /\ \A type \in {"analysisError", "analysisComplete"} : Message(type) \in ExtensionMessages
    /\ \A root \in Roots \cup {None} : Unavailable(root) \in ExtensionMessages
    /\ \A root \in Roots : Started(root) \in ExtensionMessages
    /\ \A p \in Publications : Snapshot(p) \in ExtensionMessages
BY DEF Message, Unavailable, Started, Snapshot, ExtensionMessages, Snapshots, Publications

LEMMA TypesOfAnswers ==
    ASSUME NEW m, m.kind \in Kinds, m.id \in Nat, m.version \in Nat,
           NEW outcome \in {"result", "error", "parents"}, outcome = "parents" => m.kind = "commit",
           NEW parent \in Parents \cup {None}, parent = None \/ m.kind = "commit"
    PROVE  Answer(m, outcome, parent) \in ExtensionMessages
<1>1. m.kind \in {"entity", "evolution", "impact", "workingTree", "commit", "pullRequest"}
  BY PageAssumption DEF Versioned, Historical
<1> DEFINE k == m.kind
           answer == [type |-> "result", kind |-> k, id |-> m.id, version |-> m.version,
                      parent |-> parent, outcome |-> outcome]
<1> HIDE DEF k
<1>2. answer \in Answers
  BY <1>1 DEF k, Answers, QueryAnswers, ImpactAnswers, WorkingTreeAnswers, CommitAnswers, PullRequestAnswers,
              AnswersTo
<1>3. QED BY <1>2 DEF Answer, ExtensionMessages, k

LEMMA TypesOfPost ==
    ASSUME QueueTypes, NEW messages \in Seq(ExtensionMessages), Post(messages)
    PROVE  toPage' \in Seq(ExtensionMessages)
BY JoinedAt DEF Post, QueueTypes

LEMMA TypesOfOnePost ==
    ASSUME QueueTypes, NEW m \in ExtensionMessages, Post(<<m>>)
    PROVE  toPage' \in Seq(ExtensionMessages)
BY TypesOfPost, Single

\* What a message is that has the type it says
LEMMA ExtensionMessageTypes ==
    ASSUME NEW m \in ExtensionMessages
    PROVE  /\ m.type = "analysisUnavailable" => m.root \in Roots \cup {None}
           /\ m.type = "analysisStarted" => m.root \in Roots
           /\ m.type = "analysisSnapshot" => m.version \in Nat /\ m.root \in Roots
           /\ m.type = "result" =>
                 /\ m.kind \in Kinds /\ m.id \in Nat /\ m.version \in Nat
                 /\ m.parent \in Parents \cup {None} /\ (m.parent = None \/ m.kind = "commit")
BY DEF ExtensionMessages, Snapshots, Answers, QueryAnswers, ImpactAnswers, WorkingTreeAnswers, CommitAnswers,
       PullRequestAnswers, AnswersTo

LEMMA WebviewMessageTypes ==
    ASSUME NEW m \in WebviewMessages
    PROVE  /\ m.type = "request" =>
                 m.kind \in Kinds /\ m.id \in Nat /\ m.version \in Nat /\ m.parent \in Parents \cup {None}
           /\ m.type = "cancel" => m.kind \in Kinds /\ m.id \in Nat
           /\ m.type \in {"ready", "requestAnalysis", "requestRefresh", "openWorkspaceTarget", "request", "cancel"}
BY DEF WebviewMessages

LEMMA TypesOfReduceAnalysis ==
    ASSUME NEW state \in AnalysisStates, NEW m \in ExtensionMessages
    PROVE  ReduceAnalysis(state, m) \in AnalysisStates
<1>1. CASE m.type = "analysisUnavailable"
  BY <1>1, ExtensionMessageTypes DEF ReduceAnalysis, NoRepository, AnalysisStates
<1>2. CASE m.type = "analysisStarted"
  BY <1>2, ExtensionMessageTypes DEF ReduceAnalysis, AfterStarted, NoRepository, AnalysisStates
<1>3. CASE m.type = "analysisError"
  BY <1>3 DEF ReduceAnalysis, AfterError, NoRepository, AnalysisStates
<1>4. CASE m.type = "analysisSnapshot"
  BY <1>4, ExtensionMessageTypes DEF ReduceAnalysis, AfterSnapshot, IsNews, AnalysisStates
<1>5. CASE m.type = "analysisComplete"
  BY <1>5 DEF ReduceAnalysis, AfterComplete, AnalysisStates
<1>6. CASE m.type \notin {"analysisUnavailable", "analysisStarted", "analysisError", "analysisSnapshot",
                          "analysisComplete"}
  BY <1>6 DEF ReduceAnalysis
<1>7. QED BY <1>1, <1>2, <1>3, <1>4, <1>5, <1>6

\* What a message makes of a request: it is reset, answered or left alone.
LEMMA ReducedRequest ==
    ASSUME NEW kind \in Kinds, NEW request \in RequestStates, NEW m \in ExtensionMessages
    PROVE  /\ ReduceRequest(kind, request, m) \in RequestStates
           /\ ReduceRequest(kind, request, m).id = request.id
           /\ \/ ReduceRequest(kind, request, m) = request /\ ~IsReset(kind, request, m) /\ ~IsAnswer(kind, request, m)
              \/ ReduceRequest(kind, request, m).status = "idle"
              \/ /\ ReduceRequest(kind, request, m).status \notin {"idle", "loading"}
                 /\ ReduceRequest(kind, request, m).version = request.version
                 /\ request.status = "loading" /\ ~IsReset(kind, request, m)
           /\ ReduceRequest(kind, request, m).parent \in {None, request.parent} \/ kind = "commit"
<1>1. CASE IsReset(kind, request, m)
  <2>1. ~IsAnswer(kind, request, m)
    BY <1>1 DEF IsReset, IsAnswer
  <2>2. ReduceRequest(kind, request, m) = NoRequest(request.id)
    BY <1>1, <2>1 DEF ReduceRequest
  <2>3. QED BY <2>2 DEF NoRequest, RequestStates
<1>2. CASE ~IsReset(kind, request, m) /\ IsAnswer(kind, request, m)
  <2>1. m.parent \in Parents \cup {None} /\ (m.parent = None \/ kind = "commit") /\ request.status = "loading"
    BY <1>2, ExtensionMessageTypes DEF IsAnswer
  <2>2. ReduceRequest(kind, request, m) = AfterAnswer(request, m)
    BY <1>2 DEF ReduceRequest
  <2>3. QED BY <1>2, <2>1, <2>2 DEF AfterAnswer, RequestStates
<1>3. CASE ~IsReset(kind, request, m) /\ ~IsAnswer(kind, request, m)
  BY <1>3 DEF ReduceRequest
<1>4. QED BY <1>1, <1>2, <1>3

LEMMA Reduced ==
    ASSUME PageTypes, NEW m \in ExtensionMessages
    PROVE  /\ Reduce(page, m) \in Pages
           /\ Reduce(page, m).analysis = ReduceAnalysis(page.analysis, m)
           /\ \A kind \in Kinds :
                 /\ page.requests[kind] \in RequestStates
                 /\ Reduce(page, m).requests[kind] = ReduceRequest(kind, page.requests[kind], m)
<1>1. page.analysis \in AnalysisStates /\ \A kind \in Kinds : page.requests[kind] \in RequestStates
  BY DEF PageTypes, Pages
<1>2. ReduceAnalysis(page.analysis, m) \in AnalysisStates
  BY <1>1, TypesOfReduceAnalysis
<1>3. \A kind \in Kinds : ReduceRequest(kind, page.requests[kind], m) \in RequestStates
  BY <1>1, ReducedRequest
<1>4. QED BY <1>1, <1>2, <1>3 DEF Reduce, Pages

LEMMA TypesOfCancel ==
    ASSUME HostTypes, NEW kinds, Cancel(kinds)
    PROVE  /\ active' \in [Kinds \cap Cancellable -> Nat \cup {None}]
           /\ calls' \subseteq calls
BY DEF HostTypes, Cancel

LEMMA TypesOfEndEpoch ==
    ASSUME HostTypes, EndEpoch
    PROVE  publications' \subseteq Publications
BY DEF HostTypes, EndEpoch, Publications

\* Whatever an analysis or the trees of a commit begin
LEMMA TypesOfScanning ==
    ASSUME HostTypes, QueueTypes, OnScanning, UNCHANGED <<workspace, service, targets>>,
           analysis' \in Roots \cup {None}
    PROVE  HostTypes' /\ toPage' \in Seq(ExtensionMessages)
<1>1. CASE inProgress
  BY <1>1 DEF OnScanning, Silent, publicationVars, HostTypes, QueueTypes
<1>2. CASE ~inProgress
  <2>1. Cancel({"impact", "workingTree"}) /\ UNCHANGED requested
    BY <1>2 DEF OnScanning, publicationVars
  <2>2. active' \in [Kinds \cap Cancellable -> Nat \cup {None}] /\ calls' \subseteq calls
    BY <2>1, TypesOfCancel
  <2>3. CASE workspace # None
    <3>1. EndEpoch /\ inProgress' = TRUE /\ activeRoot' = workspace /\ Post(<<Started(workspace)>>)
      BY <1>2, <2>3 DEF OnScanning
    <3>2. workspace \in Roots
      BY <2>3 DEF HostTypes
    <3>3. publications' \subseteq Publications
      BY <3>1, TypesOfEndEpoch
    <3>4. toPage' \in Seq(ExtensionMessages)
      BY <3>1, <3>2, TypesOfMessages, TypesOfOnePost
    <3>5. inProgress' \in BOOLEAN /\ activeRoot' \in Roots \cup {None} /\ (inProgress' <=> activeRoot' # None)
      BY <2>3, <3>1, <3>2
    <3>6. HostTypes'
      BY <2>1, <2>2, <3>3, <3>5 DEF HostTypes
    <3>7. QED BY <3>4, <3>6
  <2>4. CASE workspace = None
    <3>1. UNCHANGED <<inProgress, activeRoot, publications, toPage>>
      BY <1>2, <2>4 DEF OnScanning, publicationVars, Silent
    <3>2. QED BY <2>1, <2>2, <3>1 DEF HostTypes, QueueTypes
  <2>5. QED BY <2>3, <2>4
<1>3. QED BY <1>1, <1>2 DEF HostTypes

LEMMA TypesOfPublish ==
    ASSUME HostTypes, QueueTypes, NEW byLoop \in BOOLEAN, PublishCurrentData(byLoop)
    PROVE  publications' \subseteq Publications /\ toPage' \in Seq(ExtensionMessages)
<1>1. CASE inProgress
  <2>1. Post(IF activeRoot = None THEN <<>> ELSE <<Started(activeRoot)>>) /\ UNCHANGED publications
    BY <1>1 DEF PublishCurrentData
  <2>2. activeRoot \in Roots
    BY <1>1 DEF HostTypes
  <2>3. activeRoot # None
    BY <1>1 DEF HostTypes
  <2>4. QED BY <2>1, <2>2, <2>3, TypesOfMessages, TypesOfOnePost DEF HostTypes
<1>2. CASE ~inProgress /\ ~Loaded
  <2>1. Post(<<Unavailable(workspace)>>) /\ UNCHANGED publications
    BY <1>2 DEF PublishCurrentData
  <2>2. QED BY <2>1, TypesOfMessages, TypesOfOnePost DEF HostTypes
<1>3. CASE ~inProgress /\ Loaded
  <2>1. /\ publications' = publications \cup
            {[root |-> service.root, version |-> service.version, step |-> "assembling",
              current |-> TRUE, byLoop |-> byLoop]}
        /\ UNCHANGED toPage
    BY <1>3 DEF PublishCurrentData, Silent
  <2>2. service \in Analyses
    BY <1>3 DEF Loaded, HostTypes
  <2> DEFINE new == [root |-> service.root, version |-> service.version, step |-> "assembling",
                     current |-> TRUE, byLoop |-> byLoop]
  <2>3. new \in Publications
    BY <2>2 DEF Publications, Analyses
  <2>4. publications' = publications \cup {new}
    BY <2>1
  <2> HIDE DEF new
  <2>5. QED BY <2>1, <2>3, <2>4 DEF HostTypes, QueueTypes
<1>4. QED BY <1>1, <1>2, <1>3

LEMMA TypesOfPublication ==
    ASSUME TypeInv, Publish
    PROVE  TypeInv'
<1>1. HostTypes /\ PageTypes /\ QueueTypes
  BY DEF TypeInv
<1>2. CASE PublicationLoop
  <2>1. publications' \subseteq Publications /\ toPage' \in Seq(ExtensionMessages)
    BY <1>1, <1>2, TypesOfPublish DEF PublicationLoop
  <2>2. QED BY <1>1, <1>2, <2>1
        DEF PublicationLoop, serviceVars, requestVars, pageVars, TypeInv, HostTypes, PageTypes, QueueTypes
<1>3. CASE PostSnapshot
  <2>1. PICK p \in publications :
          /\ \/ /\ Post(<<Snapshot(p)>>)
                /\ publications' = (publications \ {p}) \cup {[p EXCEPT !.step = "posted"]}
             \/ /\ Post(<<Message("analysisError")>>)
                /\ publications' = publications \ {p}
             \/ /\ UNCHANGED toPage
                /\ publications' = publications \ {p}
          /\ UNCHANGED <<serviceVars, inProgress, activeRoot, requested, requestVars, pageVars,
                         toHost, counts, unanswered>>
    BY <1>3 DEF PostSnapshot, Silent
  <2>2. p \in Publications /\ [p EXCEPT !.step = "posted"] \in Publications
    BY <1>1 DEF HostTypes, Publications
  <2>3. toPage' \in Seq(ExtensionMessages)
    BY <1>1, <2>1, <2>2, TypesOfMessages, TypesOfOnePost DEF QueueTypes
  <2>4. publications' \subseteq Publications
    BY <1>1, <2>1, <2>2 DEF HostTypes
  <2>5. QED BY <1>1, <2>1, <2>3, <2>4
        DEF serviceVars, requestVars, pageVars, TypeInv, HostTypes, PageTypes, QueueTypes
<1>4. CASE PostComplete
  <2>1. PICK p \in publications :
          /\ publications' = publications \ {p}
          /\ Post(<<Message("analysisComplete")>>)
          /\ UNCHANGED <<serviceVars, inProgress, activeRoot, requested, requestVars, pageVars,
                         toHost, counts, unanswered>>
    BY <1>4 DEF PostComplete
  <2>2. toPage' \in Seq(ExtensionMessages)
    BY <1>1, <2>1, TypesOfMessages, TypesOfOnePost
  <2>3. QED BY <1>1, <2>1, <2>2
        DEF serviceVars, requestVars, pageVars, TypeInv, HostTypes, PageTypes, QueueTypes
<1>5. QED BY <1>2, <1>3, <1>4 DEF Publish

LEMMA TypesOfAnalysis ==
    ASSUME TypeInv, EndAnalysis \/ StartAnalysis \/ Restore \/ AnalyzeHistoricalTree
    PROVE  TypeInv'
<1>1. HostTypes /\ PageTypes /\ QueueTypes
  BY DEF TypeInv
<1>2. CASE StartAnalysis
  <2>1. UNCHANGED <<workspace, service, targets, toHost>> /\ UNCHANGED pageVars /\ OnScanning
        /\ analysis' \in {workspace, service.root} /\ (analysis' = workspace \/ service # None)
    BY <1>2 DEF StartAnalysis, Analyze
  <2>2. analysis' \in Roots \cup {None}
    BY <1>1, <2>1 DEF HostTypes, Analyses
  <2>3. HostTypes' /\ toPage' \in Seq(ExtensionMessages)
    BY <1>1, <2>1, <2>2, TypesOfScanning
  <2>4. QED BY <1>1, <2>1, <2>3 DEF TypeInv, PageTypes, QueueTypes, pageVars
<1>3. CASE AnalyzeHistoricalTree
  <2>1. UNCHANGED <<workspace, service, analysis, targets, toHost>> /\ UNCHANGED pageVars /\ OnScanning
    BY <1>3 DEF AnalyzeHistoricalTree, serviceVars
  <2>2. HostTypes' /\ toPage' \in Seq(ExtensionMessages)
    BY <1>1, <2>1, TypesOfScanning DEF HostTypes
  <2>3. QED BY <1>1, <2>1, <2>2 DEF TypeInv, PageTypes, QueueTypes, pageVars
<1>4. CASE Restore
  <2>1. service' \in Analyses
    BY <1>1, <1>4 DEF Restore, HostTypes, Analyses
  <2>2. QED BY <1>1, <1>4, <2>1
        DEF Restore, Silent, publicationVars, requestVars, pageVars, TypeInv, HostTypes, PageTypes, QueueTypes
<1>5. CASE Complete
  <2>1. service' \in {None} \cup Analyses
    <3>1. CASE service = None
      BY <1>1, <1>5, <3>1, SidebarAssumption DEF Complete, HostTypes, Analyses
    <3>2. CASE service # None
      BY <1>1, <1>5, <3>2, SidebarAssumption DEF Complete, HostTypes, Analyses
    <3>3. QED BY <3>1, <3>2
  <2>2. QED BY <1>1, <1>5, <2>1
        DEF Complete, OnComplete, Silent, requestVars, pageVars, TypeInv, HostTypes, PageTypes, QueueTypes
<1>6. CASE Fail
  <2>1. toPage' \in Seq(ExtensionMessages)
    BY <1>1, <1>6, TypesOfMessages, TypesOfOnePost DEF Fail, OnFailed
  <2>2. QED BY <1>1, <1>6, <2>1
        DEF Fail, OnFailed, requestVars, pageVars, TypeInv, HostTypes, PageTypes, QueueTypes
<1>7. CASE Supersede
  BY <1>1, <1>7
  DEF Supersede, Silent, publicationVars, requestVars, pageVars, TypeInv, HostTypes, PageTypes, QueueTypes
<1>8. QED BY <1>2, <1>3, <1>4, <1>5, <1>6, <1>7 DEF EndAnalysis

LEMMA TypesOfSwitch ==
    ASSUME TypeInv, NEW root \in Roots \cup {None}, SwitchWorkspace(root)
    PROVE  TypeInv'
<1>1. HostTypes /\ PageTypes /\ QueueTypes
  BY DEF TypeInv
<1>2. Cancel(Cancellable) /\ EndEpoch /\ Post(<<Unavailable(root)>>)
  BY DEF SwitchWorkspace, OnWorkspaceChanged
<1>3. /\ active' \in [Kinds \cap Cancellable -> Nat \cup {None}] /\ calls' \subseteq calls
      /\ publications' \subseteq Publications
  BY <1>1, <1>2, TypesOfCancel, TypesOfEndEpoch
<1>4. toPage' \in Seq(ExtensionMessages)
  BY <1>1, <1>2, TypesOfMessages, TypesOfOnePost
<1>5. HostTypes'
  BY <1>1, <1>3 DEF SwitchWorkspace, OnWorkspaceChanged, HostTypes
<1>6. QED BY <1>1, <1>4, <1>5 DEF SwitchWorkspace, pageVars, TypeInv, PageTypes, QueueTypes

\* The message that is handled
LEMMA TypesOfReceived ==
    ASSUME QueueTypes, NEW type, Receive(type)
    PROVE  /\ MessageOK(Head(toHost)) /\ Head(toHost).type = type /\ toHost # <<>> /\ toHost' = Tail(toHost)
           /\ toHost' \in Seq(WebviewMessages) /\ \A i \in DOMAIN toHost' : MessageOK(toHost'[i])
BY TailAt DEF QueueTypes, Receive

LEMMA TypesOfServe ==
    ASSUME HostTypes, QueueTypes, NEW m, MessageOK(m), m.type = "request", Serve(m)
    PROVE  /\ active' \in [Kinds \cap Cancellable -> Nat \cup {None}]
           /\ calls' \subseteq calls \cup {Call(m)} /\ Call(m) \in Parented
           /\ Call(m).step = "service" /\ (Call(m).parent = None \/ Call(m).kind = "commit")
           /\ UNCHANGED toPage
<1>1. m.kind \in Kinds /\ m.id \in Nat /\ m.version \in Nat /\ m.parent \in Parents \cup {None}
  BY WebviewMessageTypes DEF MessageOK
<1>2. active' \in [Kinds \cap Cancellable -> Nat \cup {None}]
  BY <1>1 DEF Serve, HostTypes
<1>3. calls' \subseteq calls \cup {Call(m)} /\ UNCHANGED toPage
  BY DEF Serve, Silent
<1>4. Call(m) \in Parented /\ Call(m).step = "service" /\ (Call(m).parent = None \/ Call(m).kind = "commit")
  BY <1>1 DEF Call, Parented, MessageOK
<1>5. QED BY <1>2, <1>3, <1>4

LEMMA TypesOfRefuse ==
    ASSUME HostTypes, QueueTypes, NEW m, MessageOK(m), m.type = "request", Refuse(m)
    PROVE  toPage' \in Seq(ExtensionMessages)
<1>1. m.kind \in Kinds /\ m.id \in Nat /\ m.version \in Nat /\ m.parent \in Parents \cup {None}
      /\ (m.parent = None \/ m.kind = "commit")
  BY WebviewMessageTypes DEF MessageOK
<1>2. Answer(m, "error", m.parent) \in ExtensionMessages
  BY <1>1, TypesOfAnswers
<1>3. QED BY <1>2, TypesOfOnePost DEF Refuse

\* A request that is handled is served, or refused and what was served of its kind
\* may be cancelled.
LEMMA Handled ==
    ASSUME HandleRequest, NEW m, m = Head(toHost)
    PROVE  /\ Receive("request")
           /\ \/ Serve(m)
              \/ Refuse(m) /\ UNCHANGED <<calls, active>>
              \/ Refuse(m) /\ Cancel({m.kind})
              \/ /\ Refuse(m)
                 /\ calls' = {c \in calls : c.kind # m.kind}
                 /\ active' = [active EXCEPT ![m.kind] = m.id]
           /\ UNCHANGED <<serviceVars, publicationVars, targets, opened, pageVars, counts, unanswered>>
<1>1. /\ Receive("request")
      /\ \/ HandleQuery(m)
         \/ HandleImpact(m)
         \/ HandleCommit(m)
         \/ HandlePullRequest(m)
      /\ UNCHANGED <<serviceVars, publicationVars, targets, opened, pageVars, counts, unanswered>>
  BY DEF HandleRequest
<1>2. QED BY <1>1 DEF HandleQuery, HandleImpact, HandleCommit, HandlePullRequest

LEMMA TypesOfHandle ==
    ASSUME TypeInv, Handle
    PROVE  TypeInv'
<1>1. HostTypes /\ PageTypes /\ QueueTypes
  BY DEF TypeInv
<1>2. CASE HandleReady
  <2>1. Receive("ready") /\ PublishCurrentData(FALSE)
    BY <1>2 DEF HandleReady
  <2>2. publications' \subseteq Publications /\ toPage' \in Seq(ExtensionMessages)
    BY <1>1, <2>1, TypesOfPublish
  <2>3. QueueTypes'
    BY <1>1, <2>1, <2>2, TypesOfReceived DEF QueueTypes
  <2>4. QED BY <1>1, <1>2, <2>2, <2>3 DEF HandleReady, serviceVars, requestVars, pageVars, TypeInv, HostTypes, PageTypes
<1>3. CASE HandleAnalyze
  <2>1. toHost' \in Seq(WebviewMessages) /\ \A i \in DOMAIN toHost' : MessageOK(toHost'[i])
    BY <1>1, <1>3, TypesOfReceived DEF HandleAnalyze
  <2>2. UNCHANGED <<workspace, service, targets, opened, pageVars>>
    BY <1>3 DEF HandleAnalyze
  <2>3. PICK root \in {workspace} \cup (IF service # None THEN {service.root} ELSE {}) :
          \/ root # None /\ Analyze(root)
          \/ UNCHANGED <<analysis, publicationVars, active, calls, unanswered>> /\ UNCHANGED toPage
          \/ UNCHANGED <<analysis, publicationVars, active, calls, unanswered>> /\ Post(<<Message("analysisError")>>)
    BY <1>3 DEF HandleAnalyze, Silent
  <2>4. root \in Roots \cup {None}
    BY <1>1, <2>3 DEF HostTypes, Analyses
  <2>5. CASE Analyze(root)
    <3>1. OnScanning /\ analysis' \in Roots \cup {None}
      BY <2>4, <2>5 DEF Analyze
    <3>2. HostTypes' /\ toPage' \in Seq(ExtensionMessages)
      BY <1>1, <2>2, <3>1, TypesOfScanning
    <3>3. QED BY <1>1, <2>1, <2>2, <3>2 DEF TypeInv, QueueTypes, PageTypes, pageVars
  <2>6. CASE ~Analyze(root)
    <3>1. toPage' \in Seq(ExtensionMessages)
      BY <1>1, <2>3, <2>6, TypesOfMessages, TypesOfOnePost DEF QueueTypes
    <3>2. UNCHANGED <<analysis, publicationVars, active, calls>>
      BY <2>3, <2>6
    <3>3. QED BY <1>1, <2>1, <2>2, <3>1, <3>2 DEF publicationVars, pageVars, TypeInv, HostTypes, PageTypes, QueueTypes
  <2>7. QED BY <2>3, <2>5, <2>6
<1>4. CASE HandleRequest
  <2> DEFINE m == Head(toHost)
  <2> HIDE DEF m
  <2>1. /\ Receive("request")
        /\ \/ Serve(m)
           \/ Refuse(m) /\ UNCHANGED <<calls, active>>
           \/ Refuse(m) /\ Cancel({m.kind})
           \/ /\ Refuse(m)
              /\ calls' = {c \in calls : c.kind # m.kind}
              /\ active' = [active EXCEPT ![m.kind] = m.id]
        /\ UNCHANGED <<serviceVars, publicationVars, targets, opened, pageVars, counts, unanswered>>
    BY <1>4, Handled DEF m
  <2>2. /\ MessageOK(m) /\ m.type = "request"
        /\ toHost' \in Seq(WebviewMessages) /\ \A i \in DOMAIN toHost' : MessageOK(toHost'[i])
    BY <1>1, <2>1, TypesOfReceived DEF m
  <2>3. CASE Serve(m)
    <3>1. /\ active' \in [Kinds \cap Cancellable -> Nat \cup {None}]
          /\ calls' \subseteq calls \cup {Call(m)} /\ Call(m) \in Parented
          /\ Call(m).step = "service" /\ (Call(m).parent = None \/ Call(m).kind = "commit")
          /\ UNCHANGED toPage
      BY <1>1, <2>2, <2>3, TypesOfServe
    <3>2. HostTypes'
      BY <1>1, <2>1, <3>1 DEF serviceVars, publicationVars, HostTypes
    <3>3. QED BY <1>1, <2>1, <2>2, <3>1, <3>2 DEF TypeInv, PageTypes, QueueTypes, pageVars
  <2>4. CASE Refuse(m) /\ ~Serve(m)
    <3>1. toPage' \in Seq(ExtensionMessages)
      BY <1>1, <2>2, <2>4, TypesOfRefuse
    <3>2. /\ active' \in [Kinds \cap Cancellable -> Nat \cup {None}]
          /\ calls' \subseteq calls
      <4>1. m.id \in Nat
        BY <2>2, WebviewMessageTypes DEF MessageOK
      <4>2. CASE Cancel({m.kind})
        BY <1>1, <4>2, TypesOfCancel
      <4>3. CASE UNCHANGED <<calls, active>>
        BY <1>1, <4>3 DEF HostTypes
      <4>4. CASE calls' = {c \in calls : c.kind # m.kind} /\ active' = [active EXCEPT ![m.kind] = m.id]
        BY <1>1, <4>1, <4>4 DEF HostTypes
      <4>5. QED BY <2>1, <2>4, <4>2, <4>3, <4>4
    <3>3. HostTypes'
      BY <1>1, <2>1, <3>2 DEF serviceVars, publicationVars, HostTypes
    <3>4. QED BY <1>1, <2>1, <2>2, <3>1, <3>3 DEF TypeInv, PageTypes, QueueTypes, pageVars
  <2>5. QED BY <2>1, <2>3, <2>4
<1>5. CASE HandleCancel
  <2>1. toHost' \in Seq(WebviewMessages) /\ \A i \in DOMAIN toHost' : MessageOK(toHost'[i])
    BY <1>1, <1>5, TypesOfReceived DEF HandleCancel
  <2>2. /\ active' \in [Kinds \cap Cancellable -> Nat \cup {None}] /\ calls' \subseteq calls
    BY <1>1, <1>5, TypesOfCancel DEF HandleCancel, HostTypes
  <2>3. QED BY <1>1, <1>5, <2>1, <2>2
        DEF HandleCancel, serviceVars, publicationVars, pageVars, TypeInv, HostTypes, PageTypes, QueueTypes
<1>6. CASE HandleOpen
  <2>1. toHost' \in Seq(WebviewMessages) /\ \A i \in DOMAIN toHost' : MessageOK(toHost'[i])
    BY <1>1, <1>6, TypesOfReceived DEF HandleOpen
  <2>2. targets' \subseteq [root : Roots, step : {"looking", "opening"}]
    BY <1>1, <1>6 DEF HandleOpen, HostTypes
  <2>3. QED BY <1>1, <1>6, <2>1, <2>2
        DEF HandleOpen, serviceVars, publicationVars, pageVars, TypeInv, HostTypes, PageTypes, QueueTypes
<1>7. QED BY <1>2, <1>3, <1>4, <1>5, <1>6 DEF Handle

LEMMA TypesOfAnswering ==
    ASSUME TypeInv, Answering
    PROVE  TypeInv'
<1>1. HostTypes /\ PageTypes /\ QueueTypes
  BY DEF TypeInv
<1>2. CASE OpenTarget
  <2>1. targets' \subseteq [root : Roots, step : {"looking", "opening"}]
    BY <1>1, <1>2 DEF OpenTarget, HostTypes
  <2>2. UNCHANGED <<serviceVars, publicationVars, active, calls, pageVars, toPage, toHost>>
    BY <1>2 DEF OpenTarget
  <2>3. QED BY <1>1, <2>1, <2>2
        DEF serviceVars, publicationVars, pageVars, TypeInv, HostTypes, PageTypes, QueueTypes
<1>3. CASE AnswerRequest
  <2>1. PICK c \in calls : AnswerVersioned(c) \/ AnswerCommit(c) \/ AnswerPullRequest(c)
    BY <1>3 DEF AnswerRequest
  <2>2. c \in Parented /\ (c.parent = None \/ c.kind = "commit")
    BY <1>1 DEF HostTypes
  <2>3. c.kind \in Kinds /\ c.id \in Nat /\ c.version \in Nat /\ c.parent \in Parents \cup {None}
    BY <2>2 DEF Parented
  <2>4. ASSUME Finish(c) \/ Reject(c)
        PROVE  calls' \subseteq calls /\ active' \in [Kinds \cap Cancellable -> Nat \cup {None}]
    BY <1>1, <2>4 DEF Finish, Reject, HostTypes
  <2>5. UNCHANGED <<serviceVars, publicationVars, targets, opened, pageVars, toHost>>
    BY <1>3 DEF AnswerRequest
  <2>6. ASSUME Finish(c) \/ Reject(c), toPage' \in Seq(ExtensionMessages) PROVE TypeInv'
    BY <1>1, <2>4, <2>5, <2>6
    DEF serviceVars, publicationVars, pageVars, TypeInv, HostTypes, PageTypes, QueueTypes
  <2>7. CASE AnswerVersioned(c)
    <3>1. PICK outcome \in {"error", "result"} : Post(<<Answer(c, outcome, None)>>)
      BY <2>7 DEF AnswerVersioned
    <3>2. Answer(c, outcome, None) \in ExtensionMessages
      BY <2>3, TypesOfAnswers
    <3>3. QED BY <1>1, <2>6, <2>7, <3>1, <3>2, TypesOfOnePost DEF AnswerVersioned
  <2>8. CASE Reject(c)
    BY <1>1, <2>6, <2>8 DEF Reject, Silent, QueueTypes
  <2>9. CASE AnswerCommit(c)
    <3>1. \/ /\ Finish(c)
             /\ \E outcome \in {"result", "error", "parents"}, parent \in Parents \cup {None} :
                   Post(<<Answer(c, outcome, parent)>>)
          \/ /\ calls' = (calls \ {c}) \cup {[c EXCEPT !.step = "parents"]}
             /\ UNCHANGED toPage /\ UNCHANGED active
          \/ Reject(c)
      BY <2>3, <2>9 DEF AnswerCommit, CommitError, AnswerWithParent, OfferParents, Silent
    <3>2. c.kind = "commit"
      BY <2>9 DEF AnswerCommit
    <3>3. CASE /\ Finish(c)
               /\ \E outcome \in {"result", "error", "parents"}, parent \in Parents \cup {None} :
                     Post(<<Answer(c, outcome, parent)>>)
      <4>1. PICK outcome \in {"result", "error", "parents"}, parent \in Parents \cup {None} :
                   Post(<<Answer(c, outcome, parent)>>)
        BY <3>3
      <4>2. Answer(c, outcome, parent) \in ExtensionMessages
        BY <2>3, <3>2, TypesOfAnswers
      <4>3. QED BY <1>1, <2>6, <3>3, <4>1, <4>2, TypesOfOnePost
    <3>4. CASE /\ calls' = (calls \ {c}) \cup {[c EXCEPT !.step = "parents"]}
               /\ UNCHANGED toPage /\ UNCHANGED active
      <4> DEFINE d == [c EXCEPT !.step = "parents"]
      <4>1. d \in Parented /\ d.kind = "commit"
        BY <2>2, <3>2, <3>4 DEF Parented
      <4>2. calls' = (calls \ {c}) \cup {d}
        BY <3>4
      <4> HIDE DEF d
      <4>3. HostTypes'
        BY <1>1, <2>5, <3>4, <4>1, <4>2 DEF serviceVars, publicationVars, HostTypes
      <4>4. QED BY <1>1, <2>5, <3>4, <4>3 DEF pageVars, TypeInv, PageTypes, QueueTypes
    <3>5. QED BY <2>8, <3>1, <3>3, <3>4
  <2>10. CASE AnswerPullRequest(c) /\ ~Reject(c)
    <3>1. PICK outcome \in {"error", "result"} : Post(<<Answer(c, outcome, None)>>)
      BY <2>10 DEF AnswerPullRequest
    <3>2. Answer(c, outcome, None) \in ExtensionMessages
      BY <2>3, TypesOfAnswers
    <3>3. QED BY <1>1, <2>6, <2>10, <3>1, <3>2, TypesOfOnePost DEF AnswerPullRequest
  <2>11. QED BY <2>1, <2>7, <2>8, <2>9, <2>10
<1>4. QED BY <1>2, <1>3 DEF Answering

LEMMA TypesOfReceive ==
    ASSUME TypeInv, ReceiveMessage
    PROVE  TypeInv'
<1>1. HostTypes /\ PageTypes /\ QueueTypes
  BY DEF TypeInv
<1>2. Head(toPage) \in ExtensionMessages /\ toPage' \in Seq(ExtensionMessages) /\ page' = Reduce(page, Head(toPage))
  BY <1>1, TailAt DEF ReceiveMessage, QueueTypes
<1>3. page' \in Pages /\ \A kind \in Kinds : page'.requests[kind].parent = None \/ kind = "commit"
  BY <1>1, <1>2, Reduced, ReducedRequest DEF PageTypes
<1>4. QED BY <1>1, <1>2, <1>3
      DEF ReceiveMessage, serviceVars, publicationVars, requestVars, TypeInv, HostTypes, PageTypes, QueueTypes

\* What the user does in the page changes one request and sends a message.
LEMMA UserActs ==
    ASSUME TypeInv, User
    PROVE  /\ view = "running" /\ UNCHANGED <<serviceVars, publicationVars, requestVars, view, toPage, unanswered>>
           /\ page'.analysis = page.analysis /\ page' \in Pages
           /\ \/ /\ UNCHANGED page
                 /\ \E type \in {"requestAnalysis", "requestRefresh", "openWorkspaceTarget"} :
                       toHost' = toHost \o <<Message(type)>>
              \/ \E kind \in Kinds :
                    /\ \A k \in Kinds \ {kind} : page'.requests[k] = page.requests[k]
                    /\ \/ /\ IsOffered(kind)
                          /\ page'.requests[kind].status = "loading"
                          /\ page'.requests[kind].id = page.requests[kind].id + 1
                          /\ page'.requests[kind].version =
                                (IF kind \in Versioned THEN page.analysis.version ELSE 0)
                          /\ page'.requests[kind].parent = None \/ kind = "commit"
                          /\ toHost' = toHost \o <<RequestMessage(kind, page'.requests[kind])>>
                       \/ /\ page'.requests[kind].status \in {"idle", "cancelled"}
                          /\ page'.requests[kind].id = page.requests[kind].id
                          /\ page'.requests[kind].parent \in {None, page.requests[kind].parent}
                          /\ kind \in Cancellable
                          /\ toHost' \in {toHost, toHost \o <<CancelMessage(kind)>>}
<1>1. /\ page \in Pages /\ page.analysis \in AnalysisStates /\ page.requests \in [Kinds -> RequestStates]
      /\ \A kind \in Kinds : page.requests[kind] \in RequestStates
  BY DEF TypeInv, PageTypes, Pages
<1>2. ASSUME NEW kind \in Kinds, NEW new \in RequestStates, page' = [page EXCEPT !.requests[kind] = new]
      PROVE  /\ page'.analysis = page.analysis /\ page' \in Pages
             /\ \A k \in Kinds \ {kind} : page'.requests[k] = page.requests[k]
             /\ page'.requests[kind] = new
  BY <1>1, <1>2 DEF Pages
<1>3. CASE PressAnalyze \/ PressOpen
  BY <1>1, <1>3 DEF PressAnalyze, PressOpen, BoundedAct, Act
<1>4. ASSUME NEW kind \in Kinds, NEW parent \in Parents \cup {None}, Request(kind, parent)
      PROVE  /\ view = "running" /\ UNCHANGED <<serviceVars, publicationVars, requestVars, view, toPage, unanswered>>
             /\ page'.analysis = page.analysis /\ page' \in Pages
             /\ \A k \in Kinds \ {kind} : page'.requests[k] = page.requests[k]
             /\ IsOffered(kind)
             /\ page'.requests[kind].status = "loading"
             /\ page'.requests[kind].id = page.requests[kind].id + 1
             /\ page'.requests[kind].version = (IF kind \in Versioned THEN page.analysis.version ELSE 0)
             /\ page'.requests[kind].parent = None \/ kind = "commit"
             /\ toHost' = toHost \o <<RequestMessage(kind, page'.requests[kind])>>
  <2> DEFINE version == IF kind \in Versioned THEN page.analysis.version ELSE 0
             new == Requested(page.requests[kind], version, parent)
  <2>1. version \in Nat
    BY <1>1 DEF AnalysisStates
  <2> HIDE DEF version
  <2>2. /\ new \in RequestStates /\ new.status = "loading" /\ new.id = page.requests[kind].id + 1
        /\ new.version = version /\ new.parent = parent
    BY <1>1, <2>1 DEF Requested, RequestStates
  <2>3. /\ page' = [page EXCEPT !.requests[kind] = new]
        /\ Act(<<RequestMessage(kind, new)>>)
        /\ IsOffered(kind) /\ (parent = None \/ kind = "commit")
    BY <1>4 DEF Request, version
  <2> HIDE DEF new
  <2>4. QED BY <1>2, <2>2, <2>3 DEF Act, version
<1>5. ASSUME NEW kind \in Kinds, CancelRequest(kind) \/ ClosePanel(kind)
      PROVE  /\ view = "running" /\ UNCHANGED <<serviceVars, publicationVars, requestVars, view, toPage, unanswered>>
             /\ page'.analysis = page.analysis /\ page' \in Pages
             /\ \A k \in Kinds \ {kind} : page'.requests[k] = page.requests[k]
             /\ page'.requests[kind].status \in {"idle", "cancelled"}
             /\ page'.requests[kind].id = page.requests[kind].id
             /\ page'.requests[kind].parent \in {None, page.requests[kind].parent}
             /\ kind \in Cancellable
             /\ toHost' \in {toHost, toHost \o <<CancelMessage(kind)>>}
  <2>1. PICK new \in {CancelledRequest(page.requests[kind]), NoRequest(page.requests[kind].id)} :
           page' = [page EXCEPT !.requests[kind] = new]
    BY <1>1, <1>5 DEF CancelRequest, ClosePanel, Pages
  <2>2. /\ new \in RequestStates /\ new.status \in {"idle", "cancelled"} /\ new.id = page.requests[kind].id
        /\ new.parent \in {None, page.requests[kind].parent}
    BY <1>1 DEF CancelledRequest, NoRequest, RequestStates
  <2>3. /\ view = "running" /\ UNCHANGED <<serviceVars, publicationVars, requestVars, view, toPage, unanswered>>
        /\ kind \in Cancellable
        /\ toHost' = toHost \o <<CancelMessage(kind)>> \/ toHost' = toHost \o <<>>
    BY <1>5 DEF CancelRequest, ClosePanel, Act, Historical, Cancellable
  <2>4. toHost \o <<>> = toHost
    BY DEF TypeInv, QueueTypes
  <2>5. QED BY <1>2, <2>1, <2>2, <2>3, <2>4
<1>6. QED
  <2>1. CASE \E kind \in Kinds, parent \in Parents \cup {None} : Request(kind, parent)
    BY <1>4, <2>1
  <2>2. CASE \E kind \in Kinds : CancelRequest(kind) \/ ClosePanel(kind)
    BY <1>5, <2>2
  <2>3. CASE PressAnalyze \/ PressOpen
    BY <1>3, <2>3
  <2>4. QED BY <2>1, <2>2, <2>3 DEF User

\* The messages that ask again for what is loading
Again(p) == {RequestMessage(kind, p.requests[kind]) : kind \in {k \in Kinds : p.requests[k].status = "loading"}}

\* A queue asks again for every kind of kinds that is loading, and for nothing else.
AsksAgain(messages, kinds) ==
    /\ messages \in Seq(Again(page))
    /\ \A kind \in Kinds \cap kinds : page.requests[kind].status = "loading" =>
          \E i \in DOMAIN messages : messages[i] = RequestMessage(kind, page.requests[kind])

LEMMA OneAsksAgain ==
    ASSUME NEW kind
    PROVE  AsksAgain(AskAgain(page, kind), {kind})
<1> DEFINE m == RequestMessage(kind, page.requests[kind])
<1>1. CASE kind \in Kinds /\ page.requests[kind].status = "loading"
  <2>1. m \in Again(page)
    BY <1>1 DEF Again
  <2>2. AskAgain(page, kind) = <<m>>
    BY <1>1 DEF AskAgain
  <2> DEFINE one == <<m>>
  <2>3. one \in Seq(Again(page)) /\ 1 \in DOMAIN one /\ one[1] = m
    BY <2>1
  <2> HIDE DEF one
  <2>4. \E i \in DOMAIN one : one[i] = RequestMessage(kind, page.requests[kind])
    BY <2>3
  <2>5. AskAgain(page, kind) = one
    BY <2>2 DEF one
  <2>6. QED BY <2>3, <2>4, <2>5 DEF AsksAgain
<1>2. CASE ~(kind \in Kinds /\ page.requests[kind].status = "loading")
  BY <1>2 DEF AskAgain, AsksAgain
<1>3. QED BY <1>1, <1>2

LEMMA MoreAsksAgain ==
    ASSUME NEW messages, NEW kinds, AsksAgain(messages, kinds), NEW kind
    PROVE  AsksAgain(messages \o AskAgain(page, kind), kinds \cup {kind})
<1> DEFINE more == AskAgain(page, kind)
<1>1. AsksAgain(more, {kind})
  BY OneAsksAgain
<1> HIDE DEF more
<1>2. messages \in Seq(Again(page)) /\ more \in Seq(Again(page))
  BY <1>1 DEF AsksAgain
<1>3. messages \o more \in Seq(Again(page))
  BY <1>2, JoinedAt
<1>4. ASSUME NEW k \in Kinds \cap (kinds \cup {kind}), page.requests[k].status = "loading"
      PROVE  \E i \in DOMAIN (messages \o more) : (messages \o more)[i] = RequestMessage(k, page.requests[k])
  <2>1. \/ \E i \in DOMAIN messages : messages[i] = RequestMessage(k, page.requests[k])
        \/ \E i \in DOMAIN more : more[i] = RequestMessage(k, page.requests[k])
    BY <1>1, <1>4 DEF AsksAgain
  <2> DEFINE ask == RequestMessage(k, page.requests[k])
  <2>2. (\E i \in DOMAIN messages : messages[i] = ask) \/ (\E i \in DOMAIN more : more[i] = ask)
    BY <2>1
  <2> HIDE DEF ask
  <2> DEFINE joined == messages \o more
  <2>3. /\ \A i \in DOMAIN messages : i \in DOMAIN joined /\ joined[i] = messages[i]
        /\ \A i \in DOMAIN more : Len(messages) + i \in DOMAIN joined /\ joined[Len(messages) + i] = more[i]
    BY <1>2, JoinedAt
  <2> HIDE DEF joined
  <2>4. \E i \in DOMAIN joined : joined[i] = ask
    BY <2>2, <2>3
  <2>5. QED BY <2>4 DEF ask, joined
<1>5. QED BY <1>3, <1>4 DEF AsksAgain, more

\* A page that is made anew asks again for everything that was loading, and for
\* nothing else.
LEMMA EffectsAskAgain == AsksAgain(Effects(page), Kinds)
<1> DEFINE e1 == AskAgain(page, "entity")
           e2 == e1 \o AskAgain(page, "pullRequest")
           e3 == e2 \o AskAgain(page, "commit")
           e4 == e3 \o AskAgain(page, "impact")
           e5 == e4 \o AskAgain(page, "workingTree")
           e6 == e5 \o AskAgain(page, "evolution")
<1>1. AsksAgain(e1, {"entity"})
  BY OneAsksAgain
<1>2. AsksAgain(e2, {"entity"} \cup {"pullRequest"})
  BY <1>1, MoreAsksAgain
<1>3. AsksAgain(e3, ({"entity"} \cup {"pullRequest"}) \cup {"commit"})
  BY <1>2, MoreAsksAgain
<1>4. AsksAgain(e4, (({"entity"} \cup {"pullRequest"}) \cup {"commit"}) \cup {"impact"})
  BY <1>3, MoreAsksAgain
<1>5. AsksAgain(e5, ((({"entity"} \cup {"pullRequest"}) \cup {"commit"}) \cup {"impact"}) \cup {"workingTree"})
  BY <1>4, MoreAsksAgain
<1>6. AsksAgain(e6, (((({"entity"} \cup {"pullRequest"}) \cup {"commit"}) \cup {"impact"}) \cup {"workingTree"})
                       \cup {"evolution"})
  BY <1>5, MoreAsksAgain
<1>7. Effects(page) = e6
  BY DEF Effects
<1> HIDE DEF e6
<1>8. QED BY <1>6, <1>7, PageAssumption DEF AsksAgain, Versioned, Historical

LEMMA TypesOfSend ==
    ASSUME QueueTypes, NEW messages \in Seq(WebviewMessages), \A i \in DOMAIN messages : MessageOK(messages[i]),
           toHost' = toHost \o messages
    PROVE  toHost' \in Seq(WebviewMessages) /\ \A i \in DOMAIN toHost' : MessageOK(toHost'[i])
BY JoinedAt DEF QueueTypes

LEMMA TypesOfOneSent ==
    ASSUME QueueTypes, NEW m, MessageOK(m), toHost' = toHost \o <<m>>
    PROVE  toHost' \in Seq(WebviewMessages) /\ \A i \in DOMAIN toHost' : MessageOK(toHost'[i])
<1>1. m \in WebviewMessages
  BY DEF MessageOK
<1>2. <<m>> \in Seq(WebviewMessages) /\ \A i \in DOMAIN <<m>> : MessageOK(<<m>>[i])
  BY <1>1, Single
<1>3. QED BY <1>2, TypesOfSend

LEMMA TypesOfUser ==
    ASSUME TypeInv, User
    PROVE  TypeInv'
<1>1. HostTypes /\ PageTypes /\ QueueTypes
  BY DEF TypeInv
<1>2. /\ UNCHANGED <<serviceVars, publicationVars, requestVars, view, toPage>>
      /\ page' \in Pages
  BY UserActs
<1>3. \A kind \in Kinds : page.requests[kind] \in RequestStates /\ page'.requests[kind] \in RequestStates
  BY <1>1, <1>2 DEF PageTypes, Pages
<1>4. SUFFICES /\ \A kind \in Kinds : page'.requests[kind].parent = None \/ kind = "commit"
               /\ toHost' \in Seq(WebviewMessages) /\ \A i \in DOMAIN toHost' : MessageOK(toHost'[i])
  BY <1>1, <1>2 DEF serviceVars, publicationVars, requestVars, TypeInv, HostTypes, PageTypes, QueueTypes
<1>5. CASE /\ UNCHANGED page
           /\ \E type \in {"requestAnalysis", "requestRefresh", "openWorkspaceTarget"} :
                 toHost' = toHost \o <<Message(type)>>
  <2>1. PICK type \in {"requestAnalysis", "requestRefresh", "openWorkspaceTarget"} :
           toHost' = toHost \o <<Message(type)>>
    BY <1>5
  <2>2. MessageOK(Message(type))
    BY DEF Message, MessageOK, WebviewMessages
  <2>3. QED BY <1>1, <1>5, <2>1, <2>2, TypesOfOneSent DEF PageTypes
<1>6. ASSUME NEW kind \in Kinds, \A k \in Kinds \ {kind} : page'.requests[k] = page.requests[k],
             page'.requests[kind].parent = None \/ kind = "commit",
             toHost' = toHost \o <<RequestMessage(kind, page'.requests[kind])>>
      PROVE  /\ \A k \in Kinds : page'.requests[k].parent = None \/ k = "commit"
             /\ toHost' \in Seq(WebviewMessages) /\ \A i \in DOMAIN toHost' : MessageOK(toHost'[i])
  <2> DEFINE r == page'.requests[kind]
             m == RequestMessage(kind, r)
  <2>1. r \in RequestStates /\ (r.parent = None \/ kind = "commit")
    BY <1>3, <1>6
  <2> HIDE DEF r
  <2>2. MessageOK(m)
    BY <2>1 DEF RequestMessage, RequestStates, MessageOK, WebviewMessages
  <2>3. toHost' = toHost \o <<m>>
    BY <1>6 DEF r
  <2> HIDE DEF m
  <2>4. \A k \in Kinds : page'.requests[k].parent = None \/ k = "commit"
    BY <1>1, <1>6 DEF PageTypes
  <2>5. QED BY <1>1, <2>2, <2>3, <2>4, TypesOfOneSent
<1>7. ASSUME NEW kind \in Kinds, \A k \in Kinds \ {kind} : page'.requests[k] = page.requests[k],
             page'.requests[kind].parent \in {None, page.requests[kind].parent}, kind \in Cancellable,
             toHost' \in {toHost, toHost \o <<CancelMessage(kind)>>}
      PROVE  /\ \A k \in Kinds : page'.requests[k].parent = None \/ k = "commit"
             /\ toHost' \in Seq(WebviewMessages) /\ \A i \in DOMAIN toHost' : MessageOK(toHost'[i])
  <2> DEFINE m == CancelMessage(kind)
  <2>1. MessageOK(m)
    BY <1>3, <1>7 DEF CancelMessage, RequestStates, MessageOK, WebviewMessages
  <2>2. toHost' = toHost \/ toHost' = toHost \o <<m>>
    BY <1>7
  <2> HIDE DEF m
  <2>3. toHost' \in Seq(WebviewMessages) /\ \A i \in DOMAIN toHost' : MessageOK(toHost'[i])
    BY <1>1, <2>1, <2>2, TypesOfOneSent DEF QueueTypes
  <2>4. QED BY <1>1, <1>7, <2>3 DEF PageTypes
<1>8. QED BY <1>5, <1>6, <1>7, UserActs

\* The messages a page sends that is made anew
LEMMA Announced ==
    ASSUME TypeInv
    PROVE  /\ Again(page) \subseteq WebviewMessages /\ \A m \in Again(page) : MessageOK(m)
           /\ <<Message("ready")>> \in Seq(WebviewMessages) /\ MessageOK(Message("ready"))
           /\ Effects(page) \in Seq(WebviewMessages) /\ Effects(page) \in Seq(Again(page))
<1>1. \A m \in Again(page) : MessageOK(m)
  <2> SUFFICES ASSUME NEW kind \in Kinds PROVE MessageOK(RequestMessage(kind, page.requests[kind]))
    BY DEF Again
  <2> DEFINE r == page.requests[kind]
  <2>1. r \in RequestStates /\ (r.parent = None \/ kind = "commit")
    BY DEF TypeInv, PageTypes, Pages
  <2> HIDE DEF r
  <2>2. MessageOK(RequestMessage(kind, r))
    BY <2>1 DEF RequestMessage, RequestStates, MessageOK, WebviewMessages
  <2>3. QED BY <2>2 DEF r
<1>2. Again(page) \subseteq WebviewMessages
  BY <1>1 DEF MessageOK
<1>3. Message("ready") \in WebviewMessages /\ MessageOK(Message("ready"))
  BY DEF Message, MessageOK, WebviewMessages
<1>4. <<Message("ready")>> \in Seq(WebviewMessages)
  BY <1>3, Single
<1>5. Effects(page) \in Seq(Again(page))
  BY EffectsAskAgain DEF AsksAgain
<1> DEFINE e == Effects(page)
           S == Again(page)
<1> HIDE DEF e, S
<1>6. e \in Seq(S) /\ S \subseteq WebviewMessages
  BY <1>2, <1>5 DEF e, S
<1>7. e \in Seq(WebviewMessages)
  BY <1>6
<1>8. QED BY <1>1, <1>2, <1>3, <1>4, <1>5, <1>7 DEF e

LEMMA TypesOfView ==
    ASSUME TypeInv, Show \/ Hide \/ Close
    PROVE  TypeInv'
<1>1. HostTypes /\ PageTypes /\ QueueTypes
  BY DEF TypeInv
<1>2. CASE Show
  <2>1. toHost' = (toHost \o <<Message("ready")>>) \o Effects(page) /\ page' = Restored(page) /\ view' = "running"
        /\ UNCHANGED <<serviceVars, publicationVars, requestVars, toPage>>
    BY <1>2 DEF Show
  <2> DEFINE ready == Message("ready")
             middle == toHost \o <<ready>>
             effects == Effects(page)
  <2>2. middle \in Seq(WebviewMessages) /\ \A i \in DOMAIN middle : MessageOK(middle[i])
    <3>1. toHost \in Seq(WebviewMessages) /\ <<ready>> \in Seq(WebviewMessages) /\ MessageOK(ready)
      BY <1>1, Announced DEF QueueTypes
    <3> DEFINE one == <<ready>>
    <3>2. \A i \in DOMAIN one : MessageOK(one[i])
      BY <3>1, Single
    <3> HIDE DEF one
    <3>3. QED BY <1>1, <3>1, <3>2, JoinedAt DEF QueueTypes, one
  <2>3. effects \in Seq(WebviewMessages) /\ \A i \in DOMAIN effects : MessageOK(effects[i])
    <3>1. effects \in Seq(WebviewMessages) /\ effects \in Seq(Again(page)) /\ \A m \in Again(page) : MessageOK(m)
      BY Announced
    <3> HIDE DEF effects
    <3>2. QED BY <3>1
  <2>4. toHost' = middle \o effects
    BY <2>1
  <2> HIDE DEF middle, effects
  <2>5. toHost' \in Seq(WebviewMessages) /\ \A i \in DOMAIN toHost' : MessageOK(toHost'[i])
    BY <2>2, <2>3, <2>4, JoinedAt
  <2>6. InitialAnalysis \in AnalysisStates
    BY DEF InitialAnalysis, NoRepository, AnalysisStates
  <2>7. page' \in Pages /\ page'.requests = page.requests
    BY <1>1, <2>1, <2>6 DEF Restored, PageTypes, Pages
  <2>8. PageTypes'
    BY <1>1, <2>1, <2>7 DEF PageTypes
  <2>9. QED BY <1>1, <2>1, <2>5, <2>8
        DEF serviceVars, publicationVars, requestVars, TypeInv, HostTypes, QueueTypes
<1>3. CASE Hide
  BY <1>1, <1>3 DEF Hide, serviceVars, publicationVars, requestVars, TypeInv, HostTypes, PageTypes, QueueTypes
<1>4. CASE Close
  <2>1. active' \in [Kinds \cap Cancellable -> Nat \cup {None}]
    BY <1>1, <1>4 DEF Close, HostTypes
  <2>2. HostTypes'
    BY <1>1, <1>4, <2>1 DEF Close, serviceVars, publicationVars, HostTypes
  <2>3. PageTypes' /\ QueueTypes'
    BY <1>1, <1>4 DEF Close, PageTypes, QueueTypes
  <2>4. QED BY <2>2, <2>3 DEF TypeInv
<1>5. QED BY <1>2, <1>3, <1>4

LEMMA TypesNext ==
    TypeInv /\ [Next]_vars => TypeInv'
<1> SUFFICES ASSUME TypeInv, [Next]_vars PROVE TypeInv'
  OBVIOUS
<1>1. CASE UNCHANGED vars
  BY <1>1 DEF vars, serviceVars, publicationVars, requestVars, pageVars, TypeInv, HostTypes, PageTypes, QueueTypes
<1>2. CASE Environment
  BY <1>2, TypesOfAnalysis, TypesOfSwitch, TypesOfView DEF Environment
<1>3. QED BY <1>1, <1>2, TypesOfAnalysis, TypesOfUser, TypesOfPublication, TypesOfHandle, TypesOfAnswering,
             TypesOfReceive, TypesOfView DEF Next

LEMMA TypesInit == Init => TypeInv
<1> SUFFICES ASSUME Init PROVE TypeInv
  OBVIOUS
<1>1. HostTypes
  <2>1. workspace \in Roots
    BY PageAssumption DEF Init
  <2>2. service \in {None} \cup Analyses
    BY <2>1, SidebarAssumption DEF Init, Analyses
  <2>3. active \in [Kinds \cap Cancellable -> Nat \cup {None}]
    BY DEF Init
  <2>4. QED BY <2>1, <2>2, <2>3 DEF Init, HostTypes
<1>2. PageTypes /\ QueueTypes
  BY DEF Init, NewPage, InitialAnalysis, NoRepository, NoRequest, AnalysisStates, RequestStates, Pages, PageTypes, QueueTypes
<1>3. QED BY <1>1, <1>2 DEF TypeInv

LEMMA TypesHoldAlways == Spec => []TypeInv
BY TypesInit, TypesNext, PTL DEF Spec

\* Types
THEOREM TypesHold == Spec => []SidebarTypeOK
<1>1. TypeInv => SidebarTypeOK
  <2> SUFFICES ASSUME TypeInv PROVE SidebarTypeOK
    OBVIOUS
  <2>1. \A p \in publications : p.step \in {"assembling", "posted"} /\ [root |-> p.root, version |-> p.version] \in Analyses
    BY DEF TypeInv, HostTypes, Publications, Analyses
  <2>2. /\ \A i \in DOMAIN toPage : toPage[i] \in ExtensionMessages
        /\ \A i \in DOMAIN toHost : toHost[i] \in WebviewMessages
    BY DEF TypeInv, QueueTypes
  <2>3. QED BY <2>1, <2>2 DEF TypeInv, HostTypes, PageTypes, SidebarTypeOK
<1>2. QED BY <1>1, TypesHoldAlways, PTL

-----------------------------------------------------------------------------
(* Documents of the open folder *)

\* A document is opened, and shown, only in the folder in which the user asked for it
\* (openWorkspaceTarget of the SidebarProvider).
THEOREM DocumentsOfTheFolder == Spec => OpensInWorkspace
<1>1. [Next]_vars => [opened' # opened => opened' = workspace]_vars
  <2> SUFFICES ASSUME Next, opened' # opened PROVE opened' = workspace
    OBVIOUS
  <2>1. CASE OpenTarget
    BY <2>1 DEF OpenTarget
  <2>2. CASE ~OpenTarget
    BY <2>2 DEF Next, Environment, StartAnalysis, Restore, AnalyzeHistoricalTree, SwitchWorkspace, Hide, Close,
       User, Request, CancelRequest, ClosePanel, PressAnalyze, PressOpen, BoundedAct, Act, EndAnalysis, Complete,
       Fail, Supersede, Publish, PublicationLoop, PostSnapshot, PostComplete, Handle, HandleReady, HandleAnalyze,
       HandleRequest, HandleCancel, HandleOpen, Answering, AnswerRequest, ReceiveMessage, Show, requestVars
  <2>3. QED BY <2>1, <2>2
<1>2. QED BY <1>1, PTL DEF Spec, OpensInWorkspace

-----------------------------------------------------------------------------
(* What the page shows belongs together *)

\* An analysis that is shown is there; a request of an analysis that was not
\* forgotten was made of the one the page knows.
BesideAnalysis ==
    /\ page.analysis.status = "ready" => page.analysis.repository
    /\ \A kind \in Kinds \cap Versioned :
          page.analysis.repository /\ page.requests[kind].status \in {"loading", "ready"} =>
             page.requests[kind].version = page.analysis.version

LEMMA BesideNext ==
    TypeInv /\ BesideAnalysis /\ [Next]_vars => BesideAnalysis'
<1> SUFFICES ASSUME TypeInv, BesideAnalysis, [Next]_vars PROVE BesideAnalysis'
  OBVIOUS
<1>1. CASE UNCHANGED page
  BY <1>1 DEF BesideAnalysis
<1>2. CASE User
  BY <1>2, UserActs DEF BesideAnalysis
<1>3. CASE ReceiveMessage
  <2> DEFINE m == Head(toPage)
             a == page.analysis
  <2>1. m \in ExtensionMessages /\ page' = Reduce(page, m) /\ PageTypes
    BY <1>3, TailAt DEF ReceiveMessage, TypeInv, QueueTypes
  <2> HIDE DEF m, a
  <2>2. /\ page'.analysis = ReduceAnalysis(a, m) /\ a \in AnalysisStates
        /\ \A kind \in Kinds :
              /\ page.requests[kind] \in RequestStates
              /\ page'.requests[kind] = ReduceRequest(kind, page.requests[kind], m)
    BY <2>1, Reduced DEF a, PageTypes, Pages
  <2>3. a.status = "ready" => a.repository
    BY DEF BesideAnalysis, a
  <2>4. page'.analysis.status = "ready" => page'.analysis.repository
    BY <2>2, <2>3 DEF ReduceAnalysis, AfterStarted, AfterError, AfterSnapshot, AfterComplete, NoRepository, AnalysisStates
  <2>5. ASSUME NEW kind \in Kinds \cap Versioned, page'.analysis.repository,
               page'.requests[kind].status \in {"loading", "ready"}
        PROVE  page'.requests[kind].version = page'.analysis.version
    <3> DEFINE r == page.requests[kind]
    <3>1. /\ page'.requests[kind].version = r.version /\ r.status \in {"loading", "ready"} /\ ~IsReset(kind, r, m)
      BY <2>1, <2>2, <2>5, ReducedRequest
    <3>2. m.type # "analysisStarted" /\ (m.type = "analysisSnapshot" => m.version = r.version)
      BY <3>1 DEF IsReset
    <3>3. a.repository => r.version = a.version
      BY <3>1 DEF BesideAnalysis, a
    <3> HIDE DEF r
    <3>4. CASE m.type = "analysisSnapshot"
      BY <2>2, <2>5, <3>1, <3>2, <3>3, <3>4 DEF ReduceAnalysis, AfterSnapshot, IsNews
    <3>5. CASE m.type # "analysisSnapshot"
      <4>1. page'.analysis.repository => a.repository /\ page'.analysis.version = a.version
        BY <2>2, <3>2, <3>5 DEF ReduceAnalysis, AfterError, AfterComplete, NoRepository, AnalysisStates
      <4>2. QED BY <2>5, <3>1, <3>3, <4>1
    <3>6. QED BY <3>4, <3>5
  <2>6. QED BY <2>4, <2>5 DEF BesideAnalysis
<1>4. CASE Show
  <2>1. page'.analysis = InitialAnalysis
    BY <1>4 DEF Show, Restored, TypeInv, PageTypes, Pages
  <2>2. QED BY <2>1 DEF InitialAnalysis, NoRepository, BesideAnalysis
<1>5. QED
  BY <1>1, <1>2, <1>3, <1>4 DEF Next, Environment, StartAnalysis, Restore, AnalyzeHistoricalTree, SwitchWorkspace,
     Hide, Close, EndAnalysis, Complete, Fail, Supersede, Publish, PublicationLoop, PostSnapshot, PostComplete,
     Handle, HandleReady, HandleAnalyze, HandleRequest, HandleCancel, HandleOpen, Answering, AnswerRequest,
     OpenTarget, pageVars, vars

\* What the page shows of an entity, a comparison or an impact was asked of the analysis
\* it shows beside it, however messages of several analyses and folders, requests and
\* new pages come in between (the reducers of the webview).
THEOREM ResultsBelongToTheAnalysis == Spec => []ResultsMatchAnalysis
<1>1. Init => BesideAnalysis
  BY DEF Init, NewPage, InitialAnalysis, NoRepository, NoRequest, BesideAnalysis
<1>2. Spec => []BesideAnalysis
  BY <1>1, TypesHoldAlways, BesideNext, PTL DEF Spec
<1>3. BesideAnalysis => ResultsMatchAnalysis
  BY DEF BesideAnalysis, ResultsMatchAnalysis
<1>4. QED BY <1>2, <1>3, PTL

-----------------------------------------------------------------------------
(* Requests, from the page to the service.  p is the page, q the queue to  *)
(* the host, cs the requests the service works on, act the active ones and *)
(* left the requests that were last left unanswered.                       *)

\* A request is not newer than the page's last one of its kind, and it is that one
\* when it has its id and the page waits for it.
AskOK(p, m) ==
    LET r == p.requests[m.kind]
    IN  /\ m.id <= r.id
        /\ m.id = r.id /\ r.status = "loading" => m.version = r.version /\ m.parent = r.parent

\* What is cancelled is not waited for.
CancelOK(p, m) ==
    LET r == p.requests[m.kind]
    IN  m.id <= r.id /\ (m.id = r.id => r.status # "loading")

\* Requests of a kind arrive in the order of their ids.
QueueOK(p, q) ==
    /\ \A i \in DOMAIN q :
          (q[i].type = "request" => AskOK(p, q[i])) /\ (q[i].type = "cancel" => CancelOK(p, q[i]))
    /\ \A i, j \in DOMAIN q :
          i < j /\ q[i].type = "request" /\ q[j].type = "request" /\ q[i].kind = q[j].kind => q[i].id <= q[j].id

\* The request with this id was made before those that are still on their way.
Precedes(p, q, id, kind) ==
    /\ id <= p.requests[kind].id
    /\ \A i \in DOMAIN q : q[i].type = "request" /\ q[i].kind = kind => id <= q[i].id

\* Of a kind that can be cancelled the service works on one request, the active one.
CallsOK(p, q, cs, act) ==
    \A c \in cs :
        /\ AskOK(p, c)
        /\ Precedes(p, q, c.id, c.kind)
        /\ c.kind \in Cancellable => act[c.kind] = c.id /\ \A d \in cs : d.kind = c.kind => d = c

ActiveOK(p, q, act) ==
    \A kind \in Kinds \cap Cancellable : act[kind] # None => Precedes(p, q, act[kind], kind)

LeftOK(p, q, act, left) ==
    /\ left \in [Kinds -> Nat \cup {None}]
    /\ \A kind \in Kinds \cap Cancellable : left[kind] # None =>
          Precedes(p, q, left[kind], kind) /\ (act[kind] # None => left[kind] <= act[kind])

RequestsOK(p, q, cs, act, left) ==
    QueueOK(p, q) /\ CallsOK(p, q, cs, act) /\ ActiveOK(p, q, act) /\ LeftOK(p, q, act, left)

Actives == [Kinds \cap Cancellable -> Nat \cup {None}]

\* The page only makes newer requests and stops waiting.
Grows(p, p2) ==
    \A kind \in Kinds :
        /\ p.requests[kind].id <= p2.requests[kind].id
        /\ p2.requests[kind].id = p.requests[kind].id /\ p2.requests[kind].status = "loading" =>
              p2.requests[kind] = p.requests[kind]

LEMMA RequestIds ==
    ASSUME NEW p \in Pages, NEW kind \in Kinds
    PROVE  p.requests[kind].id \in Nat
BY DEF Pages, RequestStates

LEMMA AskGrows ==
    ASSUME NEW p \in Pages, NEW p2 \in Pages, Grows(p, p2), NEW m, m.kind \in Kinds, m.id \in Nat
    PROVE  /\ AskOK(p, m) => AskOK(p2, m)
           /\ CancelOK(p, m) => CancelOK(p2, m)
<1> DEFINE r == p.requests[m.kind]
           r2 == p2.requests[m.kind]
<1>1. /\ r.id \in Nat /\ r2.id \in Nat /\ r.id <= r2.id
      /\ r2.id = r.id /\ r2.status = "loading" => r2 = r
  BY RequestIds DEF Grows
<1> HIDE DEF r, r2
<1>2. ASSUME m.id <= r.id PROVE m.id <= r2.id /\ (m.id = r2.id => m.id = r.id /\ r2.id = r.id)
  BY <1>1, <1>2
<1>3. QED BY <1>1, <1>2 DEF AskOK, CancelOK, r, r2

\* The types of what the service works on and of what is on its way to it
LEMMA CallTypes ==
    ASSUME NEW cs \in SUBSET Parented, NEW c \in cs
    PROVE  c.kind \in Kinds /\ c.id \in Nat /\ c.version \in Nat
BY DEF Parented

LEMMA QueuedTypes ==
    ASSUME NEW q \in Seq(WebviewMessages), NEW i \in DOMAIN q
    PROVE  /\ q[i].type = "request" => q[i].kind \in Kinds /\ q[i].id \in Nat
           /\ q[i].type = "cancel" => q[i].kind \in Kinds /\ q[i].id \in Nat
           /\ i \in Nat
<1>1. q[i] \in WebviewMessages /\ i \in Nat
  OBVIOUS
<1>2. QED BY <1>1, WebviewMessageTypes

\* The first message is handled.
LEMMA QueueTail ==
    ASSUME NEW p, NEW q \in Seq(WebviewMessages), q # <<>>, QueueOK(p, q)
    PROVE  /\ QueueOK(p, Tail(q))
           /\ \A id, kind : Precedes(p, q, id, kind) => Precedes(p, Tail(q), id, kind)
           /\ Head(q).type = "request" => AskOK(p, Head(q)) /\ Precedes(p, Tail(q), Head(q).id, Head(q).kind)
           /\ Head(q).type = "cancel" => CancelOK(p, Head(q))
           /\ \A id, kind : Precedes(p, q, id, kind) /\ Head(q).type = "request" /\ Head(q).kind = kind => id <= Head(q).id
<1> DEFINE t == Tail(q)
           h == Head(q)
<1>1. /\ 1 \in DOMAIN q /\ h = q[1]
      /\ \A i \in DOMAIN t : i + 1 \in DOMAIN q /\ t[i] = q[i + 1]
      /\ DOMAIN q \subseteq Nat /\ DOMAIN t \subseteq Nat
  BY TailAt
<1>2. \A i \in DOMAIN t : 1 < i + 1
  OBVIOUS
<1>3. \A i, j \in DOMAIN t : i < j => i + 1 < j + 1
  BY <1>1
<1> HIDE DEF t, h
<1>4. QueueOK(p, t)
  BY <1>1, <1>3 DEF QueueOK
<1>5. \A id, kind : Precedes(p, q, id, kind) => Precedes(p, t, id, kind)
  BY <1>1 DEF Precedes
<1>6. h.type = "request" => AskOK(p, h) /\ Precedes(p, t, h.id, h.kind)
  <2> SUFFICES ASSUME h.type = "request" PROVE AskOK(p, h) /\ Precedes(p, t, h.id, h.kind)
    OBVIOUS
  <2>1. AskOK(p, h)
    BY <1>1 DEF QueueOK
  <2>2. h.id <= p.requests[h.kind].id
    BY <2>1 DEF AskOK
  <2>3. \A i \in DOMAIN t : t[i].type = "request" /\ t[i].kind = h.kind => h.id <= t[i].id
    BY <1>1, <1>2 DEF QueueOK
  <2>4. QED BY <2>1, <2>2, <2>3 DEF Precedes
<1>7. h.type = "cancel" => CancelOK(p, h)
  BY <1>1 DEF QueueOK
<1>8. \A id, kind : Precedes(p, q, id, kind) /\ h.type = "request" /\ h.kind = kind => id <= h.id
  BY <1>1 DEF Precedes
<1>9. QED BY <1>4, <1>5, <1>6, <1>7, <1>8 DEF t, h

\* The page changes and sends messages.
LEMMA QueueGrows ==
    ASSUME NEW p \in Pages, NEW p2 \in Pages, Grows(p, p2),
           NEW q \in Seq(WebviewMessages), NEW new \in Seq(WebviewMessages), QueueOK(p, q),
           \A i \in DOMAIN new : new[i].type = "request" =>
               AskOK(p2, new[i]) /\ new[i].id = p2.requests[new[i].kind].id,
           \A i \in DOMAIN new : new[i].type = "cancel" => CancelOK(p2, new[i])
    PROVE  /\ QueueOK(p2, q \o new)
           /\ \A id \in Nat, kind \in Kinds : Precedes(p, q, id, kind) => Precedes(p2, q \o new, id, kind)
<1> DEFINE j == q \o new
           n == Len(q)
<1>1. /\ \A i \in DOMAIN j :
            \/ i \in DOMAIN q /\ j[i] = q[i] /\ i <= n
            \/ i > n /\ i - n \in DOMAIN new /\ j[i] = new[i - n]
      /\ n \in Nat /\ DOMAIN j \subseteq Nat
      /\ j \in Seq(WebviewMessages)
  BY JoinedAt
<1> HIDE DEF j, n
<1>2. \A i \in DOMAIN q : /\ q[i].type = "request" => q[i].kind \in Kinds /\ q[i].id \in Nat
                          /\ q[i].type = "cancel" => q[i].kind \in Kinds /\ q[i].id \in Nat
  BY QueuedTypes
<1>3. \A i \in DOMAIN new : new[i].type = "request" => new[i].kind \in Kinds /\ new[i].id \in Nat
  BY QueuedTypes
<1>4. \A i \in DOMAIN j : /\ j[i].type = "request" => AskOK(p2, j[i])
                          /\ j[i].type = "cancel" => CancelOK(p2, j[i])
  BY <1>1, <1>2, AskGrows DEF QueueOK
<1>5. \A kind \in Kinds : /\ p.requests[kind].id \in Nat /\ p2.requests[kind].id \in Nat
                          /\ p.requests[kind].id <= p2.requests[kind].id
  BY RequestIds DEF Grows
<1>6. ASSUME NEW x \in DOMAIN j, NEW y \in DOMAIN j, x < y, j[x].type = "request", j[y].type = "request",
             j[x].kind = j[y].kind
      PROVE  j[x].id <= j[y].id
  <2>1. CASE y <= n
    <3>1. x <= n /\ x \in DOMAIN q /\ y \in DOMAIN q
      BY <1>1, <1>6, <2>1
    <3>2. j[x] = q[x] /\ j[y] = q[y]
      BY <1>1, <1>6, <2>1, <3>1
    <3>3. QED BY <1>6, <3>1, <3>2 DEF QueueOK
  <2>2. CASE y > n
    <3>1. y - n \in DOMAIN new /\ j[y] = new[y - n]
      BY <1>1, <2>2
    <3>2. j[y].id = p2.requests[j[y].kind].id
      BY <1>6, <3>1
    <3>3. j[x].id <= p2.requests[j[x].kind].id
      BY <1>4, <1>6 DEF AskOK
    <3>4. QED BY <1>6, <3>2, <3>3
  <2>3. QED BY <1>1, <2>1, <2>2
<1>7. ASSUME NEW id \in Nat, NEW kind \in Kinds, Precedes(p, q, id, kind) PROVE Precedes(p2, j, id, kind)
  <2>1. id <= p2.requests[kind].id
    <3>1. id <= p.requests[kind].id
      BY <1>7 DEF Precedes
    <3>2. QED BY <1>5, <3>1
  <2>2. ASSUME NEW i \in DOMAIN j, j[i].type = "request", j[i].kind = kind PROVE id <= j[i].id
    <3>1. CASE i \in DOMAIN q /\ j[i] = q[i]
      BY <1>7, <2>2, <3>1 DEF Precedes
    <3>2. CASE i - n \in DOMAIN new /\ j[i] = new[i - n]
      BY <2>1, <2>2, <3>2
    <3>3. QED BY <1>1, <3>1, <3>2
  <2>3. QED BY <2>1, <2>2 DEF Precedes
<1>8. QED BY <1>4, <1>6, <1>7 DEF QueueOK, j

\* The first message is handled, or none.
LEMMA RequestsTail ==
    ASSUME NEW p, NEW q \in Seq(WebviewMessages), q # <<>>, NEW cs, NEW act, NEW left,
           RequestsOK(p, q, cs, act, left)
    PROVE  RequestsOK(p, Tail(q), cs, act, left)
<1>1. QueueOK(p, Tail(q)) /\ \A id, kind : Precedes(p, q, id, kind) => Precedes(p, Tail(q), id, kind)
  BY QueueTail DEF RequestsOK
<1>2. CallsOK(p, Tail(q), cs, act)
  BY <1>1 DEF RequestsOK, CallsOK
<1>3. ActiveOK(p, Tail(q), act) /\ LeftOK(p, Tail(q), act, left)
  BY <1>1 DEF RequestsOK, ActiveOK, LeftOK
<1>4. QED BY <1>1, <1>2, <1>3 DEF RequestsOK

\* The page changes and sends messages.
LEMMA RequestsGrow ==
    ASSUME NEW p \in Pages, NEW p2 \in Pages, Grows(p, p2),
           NEW q \in Seq(WebviewMessages), NEW new \in Seq(WebviewMessages),
           NEW cs \in SUBSET Parented, NEW act \in Actives, NEW left, RequestsOK(p, q, cs, act, left),
           \A i \in DOMAIN new : new[i].type = "request" =>
               AskOK(p2, new[i]) /\ new[i].id = p2.requests[new[i].kind].id,
           \A i \in DOMAIN new : new[i].type = "cancel" => CancelOK(p2, new[i])
    PROVE  RequestsOK(p2, q \o new, cs, act, left)
<1> DEFINE j == q \o new
<1>1. /\ QueueOK(p2, j)
      /\ \A id \in Nat, kind \in Kinds : Precedes(p, q, id, kind) => Precedes(p2, j, id, kind)
  BY QueueGrows DEF RequestsOK
<1> HIDE DEF j
<1>2. CallsOK(p2, j, cs, act)
  <2> SUFFICES ASSUME NEW c \in cs
               PROVE  /\ AskOK(p2, c)
                      /\ Precedes(p2, j, c.id, c.kind)
                      /\ c.kind \in Cancellable => act[c.kind] = c.id /\ \A d \in cs : d.kind = c.kind => d = c
    BY DEF CallsOK
  <2>1. c.kind \in Kinds /\ c.id \in Nat
    BY CallTypes
  <2>2. /\ AskOK(p, c)
        /\ Precedes(p, q, c.id, c.kind)
        /\ c.kind \in Cancellable => act[c.kind] = c.id /\ \A d \in cs : d.kind = c.kind => d = c
    BY DEF RequestsOK, CallsOK
  <2>3. QED BY <1>1, <2>1, <2>2, AskGrows
<1>3. ActiveOK(p2, j, act)
  <2> SUFFICES ASSUME NEW kind \in Kinds \cap Cancellable, act[kind] # None
               PROVE  Precedes(p2, j, act[kind], kind)
    BY DEF ActiveOK
  <2>1. act[kind] \in Nat
    BY DEF Actives
  <2>2. QED BY <1>1, <2>1 DEF RequestsOK, ActiveOK
<1>4. LeftOK(p2, j, act, left)
  BY <1>1 DEF RequestsOK, LeftOK
<1>5. QED BY <1>1, <1>2, <1>3, <1>4 DEF RequestsOK, j

\* Requests of some kinds are cancelled.
Without(act, kinds) == [kind \in DOMAIN act |-> IF kind \in kinds THEN None ELSE act[kind]]

LEMMA RequestsCancelled ==
    ASSUME NEW p, NEW q, NEW cs \in SUBSET Parented, NEW act \in Actives, NEW left, NEW kinds,
           RequestsOK(p, q, cs, act, left)
    PROVE  RequestsOK(p, q, {c \in cs : c.kind \notin kinds}, Without(act, kinds), left)
<1> DEFINE act2 == Without(act, kinds)
           cs2 == {c \in cs : c.kind \notin kinds}
<1>1. /\ \A kind \in Kinds \cap Cancellable : act2[kind] = IF kind \in kinds THEN None ELSE act[kind]
      /\ \A kind : kind \notin kinds /\ kind \in Kinds \cap Cancellable => act2[kind] = act[kind]
  BY DEF Without, Actives
<1>2. \A c \in cs2 : c \in cs /\ c.kind \notin kinds /\ c.kind \in Kinds
  BY CallTypes
<1> HIDE DEF act2, cs2
<1>3. CallsOK(p, q, cs2, act2)
  BY <1>1, <1>2 DEF RequestsOK, CallsOK
<1>4. ActiveOK(p, q, act2) /\ LeftOK(p, q, act2, left)
  BY <1>1 DEF RequestsOK, ActiveOK, LeftOK, Cancellable
<1>5. QED BY <1>3, <1>4 DEF RequestsOK, act2, cs2

\* An impact request is aborted without a word.
Aborted(act, left) ==
    IF "impact" \in Kinds /\ act["impact"] # None THEN [left EXCEPT !["impact"] = act["impact"]] ELSE left

LEMMA RequestsAborted ==
    ASSUME NEW p, NEW q, NEW cs, NEW act \in Actives, NEW left, RequestsOK(p, q, cs, act, left)
    PROVE  RequestsOK(p, q, cs, act, Aborted(act, left))
<1>1. CASE "impact" \in Kinds /\ act["impact"] # None
  <2>1. "impact" \in Kinds \cap Cancellable
    BY <1>1 DEF Cancellable
  <2>2. /\ act["impact"] \in Nat
        /\ Aborted(act, left) = [left EXCEPT !["impact"] = act["impact"]]
        /\ LeftOK(p, q, act, left)
    BY <1>1, <2>1 DEF Actives, Aborted, RequestsOK
  <2>3. Precedes(p, q, act["impact"], "impact")
    BY <1>1, <2>1 DEF RequestsOK, ActiveOK
  <2> DEFINE left2 == [left EXCEPT !["impact"] = act["impact"]]
  <2>4. /\ left2 \in [Kinds -> Nat \cup {None}]
        /\ \A kind \in Kinds : left2[kind] = IF kind = "impact" THEN act["impact"] ELSE left[kind]
    BY <2>1, <2>2 DEF LeftOK
  <2> HIDE DEF left2
  <2>5. act["impact"] <= act["impact"]
    BY <2>2
  <2>6. ASSUME NEW kind \in Kinds \cap Cancellable, left2[kind] # None
        PROVE  Precedes(p, q, left2[kind], kind) /\ (act[kind] # None => left2[kind] <= act[kind])
    <3>1. CASE kind = "impact"
      BY <2>1, <2>3, <2>4, <2>5, <3>1
    <3>2. CASE kind # "impact"
      BY <2>2, <2>4, <2>6, <3>2 DEF LeftOK
    <3>3. QED BY <3>1, <3>2
  <2>7. LeftOK(p, q, act, left2)
    BY <2>4, <2>6 DEF LeftOK
  <2>8. LeftOK(p, q, act, Aborted(act, left))
    BY <2>2, <2>7 DEF left2
  <2>9. QED BY <2>8 DEF RequestsOK
<1>2. CASE ~("impact" \in Kinds /\ act["impact"] # None)
  BY <1>2 DEF Aborted
<1>3. QED BY <1>1, <1>2

\* A request is served or refused: those of its kind that can be cancelled are gone.
LEMMA RequestsHandled ==
    ASSUME NEW p, NEW q \in Seq(WebviewMessages), q # <<>>, NEW cs \in SUBSET Parented, NEW act \in Actives,
           NEW left, RequestsOK(p, q, cs, act, left),
           NEW m, m = Head(q), m.type = "request", m.kind \in Kinds, m.id \in Nat,
           NEW cs2, \A c \in cs2 : c = Call(m) \/ (c \in cs /\ (c.kind # m.kind \/ c.kind \notin Cancellable)),
           NEW act2 \in Actives, \A kind \in Kinds \cap Cancellable :
               act2[kind] = IF kind = m.kind THEN m.id ELSE act[kind]
    PROVE  RequestsOK(p, Tail(q), cs2, act2, left)
<1> DEFINE t == Tail(q)
<1>1. /\ QueueOK(p, t) /\ AskOK(p, m) /\ Precedes(p, t, m.id, m.kind)
      /\ \A id, kind : Precedes(p, q, id, kind) => Precedes(p, t, id, kind) /\ (kind = m.kind => id <= m.id)
  BY QueueTail DEF RequestsOK
<1> HIDE DEF t
<1> DEFINE call == Call(m)
<1>2. call.kind = m.kind /\ call.id = m.id /\ AskOK(p, call)
  BY <1>1 DEF Call, AskOK
<1> HIDE DEF call
<1>3. ASSUME NEW c \in cs2
      PROVE  /\ AskOK(p, c)
             /\ Precedes(p, t, c.id, c.kind)
             /\ c.kind \in Cancellable => act2[c.kind] = c.id /\ \A d \in cs2 : d.kind = c.kind => d = c
  <2>1. CASE c = call
    <3>1. \A d \in cs2 : d.kind = m.kind /\ m.kind \in Cancellable => d = call
      BY DEF call
    <3>2. QED BY <1>1, <1>2, <2>1, <3>1
  <2>2. CASE c \in cs /\ (c.kind # m.kind \/ c.kind \notin Cancellable)
    <3>1. AskOK(p, c) /\ Precedes(p, t, c.id, c.kind) /\ c.kind \in Kinds
      BY <1>1, <2>2, CallTypes DEF RequestsOK, CallsOK
    <3>2. ASSUME c.kind \in Cancellable
          PROVE  act2[c.kind] = c.id /\ \A d \in cs2 : d.kind = c.kind => d = c
      <4>1. \A d \in cs2 : d.kind = c.kind => d \in cs
        BY <1>2, <2>2, <3>2 DEF call
      <4>2. act[c.kind] = c.id /\ \A d \in cs : d.kind = c.kind => d = c
        BY <2>2, <3>2 DEF RequestsOK, CallsOK
      <4>3. QED BY <2>2, <3>1, <3>2, <4>1, <4>2
    <3>3. QED BY <3>1, <3>2
  <2>3. QED BY <2>1, <2>2 DEF call
<1>4. ActiveOK(p, t, act2)
  BY <1>1 DEF RequestsOK, ActiveOK
<1>5. LeftOK(p, t, act2, left)
  BY <1>1 DEF RequestsOK, LeftOK, Cancellable
<1>6. CallsOK(p, t, cs2, act2)
  BY <1>3 DEF CallsOK
<1>7. QED BY <1>1, <1>4, <1>5, <1>6 DEF RequestsOK, t

\* The service is done with a request.
LEMMA RequestsFinished ==
    ASSUME NEW p, NEW q, NEW cs \in SUBSET Parented, NEW act \in Actives, NEW left,
           RequestsOK(p, q, cs, act, left), NEW c \in cs
    PROVE  RequestsOK(p, q, cs \ {c}, Without(act, {c.kind}), left)
<1> DEFINE act2 == Without(act, {c.kind})
           cs2 == cs \ {c}
<1>1. \A kind \in Kinds \cap Cancellable : act2[kind] = IF kind = c.kind THEN None ELSE act[kind]
  BY DEF Without, Actives
<1>2. \A d \in cs2 : d \in cs /\ d # c /\ d.kind \in Kinds
  BY CallTypes
<1> HIDE DEF act2, cs2
<1>3. \A d \in cs2 : d.kind \in Cancellable => d.kind # c.kind
  BY <1>2 DEF RequestsOK, CallsOK
<1>4. CallsOK(p, q, cs2, act2)
  BY <1>1, <1>2, <1>3 DEF RequestsOK, CallsOK
<1>5. ActiveOK(p, q, act2) /\ LeftOK(p, q, act2, left)
  BY <1>1 DEF RequestsOK, ActiveOK, LeftOK, Cancellable
<1>6. QED BY <1>4, <1>5 DEF RequestsOK, act2, cs2

\* A request is left without an answer.
LEMMA RequestsLeft ==
    ASSUME NEW p, NEW q, NEW cs \in SUBSET Parented, NEW act \in Actives, NEW left,
           RequestsOK(p, q, cs, act, left), NEW c \in cs, c.kind \in Cancellable
    PROVE  RequestsOK(p, q, cs, act, [left EXCEPT ![c.kind] = c.id])
<1> DEFINE left2 == [left EXCEPT ![c.kind] = c.id]
<1>1. c.kind \in Kinds /\ c.id \in Nat
  BY CallTypes
<1>2. Precedes(p, q, c.id, c.kind) /\ act[c.kind] = c.id
  BY DEF RequestsOK, CallsOK
<1>3. LeftOK(p, q, act, left)
  BY DEF RequestsOK
<1>4. /\ left2 \in [Kinds -> Nat \cup {None}]
      /\ \A kind \in Kinds : left2[kind] = IF kind = c.kind THEN c.id ELSE left[kind]
  BY <1>1, <1>3 DEF LeftOK
<1> HIDE DEF left2
<1>5. LeftOK(p, q, act, left2)
  BY <1>1, <1>2, <1>3, <1>4 DEF LeftOK
<1>6. QED BY <1>5 DEF RequestsOK, left2

LEMMA RequestsRejected ==
    ASSUME NEW p, NEW q, NEW cs, NEW act, NEW left, RequestsOK(p, q, cs, act, left), NEW c
    PROVE  RequestsOK(p, q, cs \ {c}, act, left)
BY DEF RequestsOK, CallsOK

\* The service goes on with a request.
LEMMA RequestsContinued ==
    ASSUME NEW p, NEW q, NEW cs \in SUBSET Parented, NEW act, NEW left,
           RequestsOK(p, q, cs, act, left), NEW c \in cs, c.kind \in Cancellable,
           NEW d, d.kind = c.kind, d.id = c.id, d.version = c.version, d.parent = c.parent
    PROVE  RequestsOK(p, q, (cs \ {c}) \cup {d}, act, left)
<1> DEFINE cs2 == (cs \ {c}) \cup {d}
<1>1. AskOK(p, d) /\ Precedes(p, q, d.id, d.kind) /\ act[d.kind] = d.id
  BY DEF RequestsOK, CallsOK, AskOK
<1>2. \A e \in cs : e.kind = c.kind => e = c
  BY DEF RequestsOK, CallsOK
<1>3. \A e \in cs2 : e = d \/ (e \in cs /\ e.kind # c.kind)
  BY <1>2
<1> HIDE DEF cs2
<1>4. CallsOK(p, q, cs2, act)
  BY <1>1, <1>3 DEF RequestsOK, CallsOK
<1>5. QED BY <1>4 DEF RequestsOK, cs2

\* The requests as they are
RequestsInv == RequestsOK(page, toHost, calls, active, unanswered)

LEMMA CancelIs ==
    ASSUME NEW kinds, Cancel(kinds)
    PROVE  calls' = {c \in calls : c.kind \notin kinds} /\ active' = Without(active, kinds)
BY DEF Cancel, Without

LEMMA RequestsScanning ==
    ASSUME TypeInv, NEW q, RequestsOK(page, q, calls, active, unanswered), OnScanning
    PROVE  RequestsOK(page, q, calls', active', unanswered')
<1>1. calls \in SUBSET Parented /\ active \in Actives
  BY DEF TypeInv, HostTypes, Actives
<1> DEFINE kinds == {"impact", "workingTree"}
<1>2. \/ UNCHANGED <<active, calls, unanswered>>
      \/ Cancel(kinds) /\ unanswered' \in {unanswered, Aborted(active, unanswered)}
  BY DEF OnScanning, Orphan, Aborted
<1> HIDE DEF kinds
<1>3. CASE Cancel(kinds) /\ unanswered' \in {unanswered, Aborted(active, unanswered)}
  <2>1. RequestsOK(page, q, calls, active, unanswered')
    BY <1>1, <1>3, RequestsAborted
  <2>2. QED BY <1>1, <1>3, <2>1, RequestsCancelled, CancelIs
<1>4. QED BY <1>2, <1>3

LEMMA RequestsOfAnalysis ==
    ASSUME TypeInv, RequestsInv, StartAnalysis \/ AnalyzeHistoricalTree \/ HandleAnalyze
    PROVE  RequestsInv'
<1>1. CASE StartAnalysis \/ AnalyzeHistoricalTree
  <2>1. OnScanning /\ UNCHANGED <<page, toHost>>
    BY <1>1 DEF StartAnalysis, Analyze, AnalyzeHistoricalTree, pageVars
  <2>2. QED BY <2>1, RequestsScanning DEF RequestsInv
<1>2. CASE HandleAnalyze
  <2>1. /\ toHost # <<>> /\ toHost' = Tail(toHost) /\ UNCHANGED page
        /\ OnScanning \/ UNCHANGED <<calls, active, unanswered>>
    BY <1>2 DEF HandleAnalyze, Receive, Analyze, pageVars
  <2>2. RequestsOK(page, toHost', calls, active, unanswered)
    BY <2>1, RequestsTail DEF RequestsInv, TypeInv, QueueTypes
  <2>3. QED BY <2>1, <2>2, RequestsScanning DEF RequestsInv
<1>3. QED BY <1>1, <1>2

LEMMA RequestsOfSwitch ==
    ASSUME TypeInv, RequestsInv, NEW root, SwitchWorkspace(root)
    PROVE  RequestsInv'
<1>1. calls \in SUBSET Parented /\ active \in Actives
  BY DEF TypeInv, HostTypes, Actives
<1>2. Cancel(Cancellable) /\ unanswered' = Aborted(active, unanswered) /\ UNCHANGED <<page, toHost>>
  BY DEF SwitchWorkspace, OnWorkspaceChanged, Orphan, Aborted, pageVars
<1>3. RequestsOK(page, toHost, calls, active, unanswered')
  BY <1>1, <1>2, RequestsAborted DEF RequestsInv
<1>4. QED BY <1>1, <1>2, <1>3, RequestsCancelled, CancelIs DEF RequestsInv

LEMMA RequestsOfHandle ==
    ASSUME TypeInv, RequestsInv, HandleReady \/ HandleRequest \/ HandleCancel \/ HandleOpen
    PROVE  RequestsInv'
<1>1. calls \in SUBSET Parented /\ active \in Actives /\ toHost \in Seq(WebviewMessages)
  BY DEF TypeInv, HostTypes, QueueTypes, Actives
<1>2. toHost # <<>> /\ toHost' = Tail(toHost) /\ UNCHANGED <<page, unanswered>>
  BY DEF HandleReady, HandleRequest, HandleCancel, HandleOpen, Receive, pageVars
<1>3. RequestsOK(page, toHost', calls, active, unanswered)
  BY <1>1, <1>2, RequestsTail DEF RequestsInv
<1>4. CASE HandleReady \/ HandleOpen
  BY <1>2, <1>3, <1>4 DEF HandleReady, HandleOpen, requestVars, RequestsInv
<1>5. CASE HandleCancel
  <2>1. UNCHANGED <<active, calls>> \/ \E kinds : Cancel(kinds)
    BY <1>5 DEF HandleCancel
  <2>2. QED BY <1>1, <1>2, <1>3, <2>1, RequestsCancelled, CancelIs DEF RequestsInv
<1>6. CASE HandleRequest
  <2> DEFINE m == Head(toHost)
  <2>1. m.type = "request" /\ m.kind \in Kinds /\ m.id \in Nat
    <3>1. MessageOK(m) /\ m.type = "request"
      BY <1>6, TypesOfReceived DEF HandleRequest, TypeInv
    <3>2. QED BY <3>1, WebviewMessageTypes DEF MessageOK
  <2> HIDE DEF m
  <2>2. \/ Serve(m)
        \/ Refuse(m) /\ UNCHANGED <<calls, active>>
        \/ Refuse(m) /\ Cancel({m.kind})
        \/ /\ Refuse(m)
           /\ calls' = {c \in calls : c.kind # m.kind}
           /\ active' = [active EXCEPT ![m.kind] = m.id]
    BY <1>6, Handled DEF m
  <2>3. CASE Serve(m) \/ (calls' = {c \in calls : c.kind # m.kind} /\ active' = [active EXCEPT ![m.kind] = m.id])
    <3>1. \A c \in calls' : c = Call(m) \/ (c \in calls /\ (c.kind # m.kind \/ c.kind \notin Cancellable))
      BY <2>3 DEF Serve
    <3>2. /\ active' \in Actives
          /\ \A kind \in Kinds \cap Cancellable : active'[kind] = IF kind = m.kind THEN m.id ELSE active[kind]
      BY <1>1, <2>1, <2>3 DEF Serve, Actives
    <3>3. QED BY <1>1, <1>2, <2>1, <3>1, <3>2, RequestsHandled DEF RequestsInv, m
  <2>4. CASE UNCHANGED <<calls, active>>
    BY <1>2, <1>3, <2>4 DEF RequestsInv
  <2>5. CASE Cancel({m.kind})
    BY <1>1, <1>2, <1>3, <2>5, RequestsCancelled, CancelIs DEF RequestsInv
  <2>6. QED BY <2>2, <2>3, <2>4, <2>5
<1>7. QED BY <1>4, <1>5, <1>6

\* An answer of the service ends a request, with what the page takes or without, or goes
\* on with it.
Leaves(c) == c.kind \in Cancellable /\ unanswered' = [unanswered EXCEPT ![c.kind] = c.id]

LEMMA ServiceAnswers ==
    ASSUME TypeInv, AnswerRequest
    PROVE  \E c \in calls :
             /\ c \in Parented /\ (c.parent = None \/ c.kind = "commit")
             /\ \/ /\ calls' = calls \ {c} /\ active' = Without(active, {c.kind})
                   /\ \E outcome, parent :
                        /\ \/ (parent = c.parent \/ c.parent = None) /\ UNCHANGED unanswered
                           \/ Leaves(c)
                        /\ Answer(c, outcome, parent) \in ExtensionMessages
                        /\ Post(<<Answer(c, outcome, parent)>>)
                \/ /\ calls' = (calls \ {c}) \cup {[c EXCEPT !.step = "parents"]}
                   /\ c.kind = "commit"
                   /\ UNCHANGED <<active, toPage, unanswered>>
                \/ /\ calls' = calls \ {c}
                   /\ Leaves(c)
                   /\ UNCHANGED <<active, toPage>>
<1>1. PICK c \in calls : AnswerVersioned(c) \/ AnswerCommit(c) \/ AnswerPullRequest(c)
  BY DEF AnswerRequest
<1>2. c \in Parented /\ (c.parent = None \/ c.kind = "commit")
  BY DEF TypeInv, HostTypes
<1>3. Finish(c) => calls' = calls \ {c} /\ active' = Without(active, {c.kind})
  BY DEF Finish, Without
<1> DEFINE Typed(outcome, parent) == Answer(c, outcome, parent) \in ExtensionMessages
<1>7. /\ \A outcome \in {"result", "error"} : Typed(outcome, None)
      /\ c.kind = "commit" => \A outcome \in {"result", "error", "parents"}, parent \in Parents \cup {None} :
            Typed(outcome, parent)
  BY <1>2, TypesOfAnswers DEF Parented
<1>8. c.parent \in Parents \cup {None}
  BY <1>2 DEF Parented
<1> HIDE DEF Typed
<1>9. CASE Reject(c) /\ c.kind \in {"commit", "pullRequest"}
  <2>1. c.kind \in Cancellable
    BY <1>9 DEF Cancellable
  <2>2. QED BY <1>2, <1>9, <2>1 DEF Reject, Silent, Leaves
<1>4. CASE AnswerVersioned(c) \/ (AnswerPullRequest(c) /\ ~Reject(c))
  <2>1. /\ Finish(c) /\ (c.kind \in Versioned \/ c.kind = "pullRequest") /\ UNCHANGED unanswered
        /\ \E outcome \in {"result", "error"} : Post(<<Answer(c, outcome, None)>>)
    BY <1>4 DEF AnswerVersioned, AnswerPullRequest
  <2>2. c.parent = None
    BY <1>2, <2>1 DEF Versioned
  <2>3. QED BY <1>2, <1>3, <1>7, <2>1, <2>2 DEF Typed
<1>5. CASE AnswerCommit(c) /\ ~Reject(c)
  <2>1. c.kind = "commit" /\ c.kind \in Cancellable
    BY <1>5 DEF AnswerCommit, Cancellable
  <2>2. \/ /\ Finish(c)
           /\ \E outcome \in {"result", "error", "parents"}, parent \in Parents \cup {None} :
                 /\ ((parent = c.parent \/ c.parent = None) /\ UNCHANGED unanswered) \/ Leaves(c)
                 /\ Post(<<Answer(c, outcome, parent)>>)
        \/ /\ calls' = (calls \ {c}) \cup {[c EXCEPT !.step = "parents"]}
           /\ UNCHANGED <<active, toPage, unanswered>>
    <3>1. CASE Finish(c) /\ Post(<<CommitError(c)>>) /\ UNCHANGED unanswered
      BY <1>8, <3>1 DEF CommitError
    <3>2. CASE AnswerWithParent(c)
      BY <1>8, <3>2 DEF AnswerWithParent
    <3>3. CASE OfferParents(c)
      BY <2>1, <3>3 DEF OfferParents, Silent, Leaves
    <3>4. QED BY <1>5, <3>1, <3>2, <3>3 DEF AnswerCommit
  <2>3. QED BY <1>2, <1>3, <1>7, <2>1, <2>2 DEF Typed
<1>6. QED BY <1>1, <1>4, <1>5, <1>9 DEF AnswerCommit, AnswerPullRequest

LEMMA RequestsOfAnswer ==
    ASSUME TypeInv, RequestsInv, AnswerRequest
    PROVE  RequestsInv'
<1>1. calls \in SUBSET Parented /\ active \in Actives
  BY DEF TypeInv, HostTypes, Actives
<1>2. UNCHANGED <<page, toHost>>
  BY DEF AnswerRequest, pageVars
<1>3. PICK c \in calls :
        /\ c \in Parented
        /\ \/ /\ calls' = calls \ {c} /\ active' = Without(active, {c.kind})
              /\ UNCHANGED unanswered \/ Leaves(c)
           \/ /\ calls' = (calls \ {c}) \cup {[c EXCEPT !.step = "parents"]}
              /\ c.kind = "commit" /\ UNCHANGED <<active, unanswered>>
           \/ calls' = calls \ {c} /\ UNCHANGED active /\ Leaves(c)
  BY ServiceAnswers
<1>4. UNCHANGED unanswered \/ Leaves(c)
  BY <1>3
<1>5. RequestsOK(page, toHost, calls, active, unanswered')
  BY <1>1, <1>4, RequestsLeft DEF RequestsInv, Leaves
<1>6. CASE calls' = calls \ {c} /\ active' = Without(active, {c.kind})
  BY <1>1, <1>2, <1>5, <1>6, RequestsFinished DEF RequestsInv
<1>7. CASE calls' = (calls \ {c}) \cup {[c EXCEPT !.step = "parents"]} /\ c.kind = "commit" /\ UNCHANGED active
  <2> DEFINE d == [c EXCEPT !.step = "parents"]
  <2>1. d.kind = c.kind /\ d.id = c.id /\ d.version = c.version /\ d.parent = c.parent /\ c.kind \in Cancellable
    BY <1>3, <1>7 DEF Parented, Cancellable
  <2>2. calls' = (calls \ {c}) \cup {d}
    BY <1>7
  <2> HIDE DEF d
  <2>3. QED BY <1>1, <1>2, <1>5, <1>7, <2>1, <2>2, RequestsContinued DEF RequestsInv
<1>8. CASE calls' = calls \ {c} /\ UNCHANGED active
  BY <1>2, <1>5, <1>8, RequestsRejected DEF RequestsInv
<1>9. QED BY <1>3, <1>6, <1>7, <1>8

LEMMA GrowsByMessage ==
    ASSUME PageTypes, NEW m \in ExtensionMessages
    PROVE  Reduce(page, m) \in Pages /\ Grows(page, Reduce(page, m))
<1> DEFINE p2 == Reduce(page, m)
<1>1. /\ p2 \in Pages
      /\ \A kind \in Kinds :
            /\ page.requests[kind] \in RequestStates
            /\ p2.requests[kind] = ReduceRequest(kind, page.requests[kind], m)
  BY Reduced
<1> HIDE DEF p2
<1>2. ASSUME NEW kind \in Kinds
      PROVE  /\ page.requests[kind].id <= p2.requests[kind].id
             /\ p2.requests[kind].status = "loading" => p2.requests[kind] = page.requests[kind]
  <2> DEFINE r == page.requests[kind]
             r2 == p2.requests[kind]
  <2>1. r \in RequestStates /\ r2 = ReduceRequest(kind, r, m)
    BY <1>1
  <2> HIDE DEF r, r2
  <2>2. r2.id = r.id /\ (r2.status = "loading" => r2 = r)
    BY <2>1, ReducedRequest
  <2>3. r.id \in Nat
    BY <2>1 DEF RequestStates
  <2>4. QED BY <2>2, <2>3 DEF r, r2
<1>3. QED BY <1>1, <1>2 DEF Grows, p2

LEMMA RequestsOfReceive ==
    ASSUME TypeInv, RequestsInv, ReceiveMessage
    PROVE  RequestsInv'
<1>1. /\ calls \in SUBSET Parented /\ active \in Actives /\ toHost \in Seq(WebviewMessages) /\ page \in Pages
      /\ PageTypes
  BY DEF TypeInv, HostTypes, QueueTypes, PageTypes, Actives
<1>2. UNCHANGED <<toHost, unanswered, calls, active>> /\ page' = Reduce(page, Head(toPage))
  BY DEF ReceiveMessage, requestVars
<1>3. Head(toPage) \in ExtensionMessages
  BY TailAt DEF ReceiveMessage, TypeInv, QueueTypes
<1>4. page' \in Pages /\ Grows(page, page')
  BY <1>1, <1>2, <1>3, GrowsByMessage
<1> DEFINE new == <<>>
<1>5. new \in Seq(WebviewMessages) /\ DOMAIN new = {} /\ toHost \o new = toHost
  BY <1>1
<1> HIDE DEF new
<1>6. RequestsOK(page', toHost \o new, calls, active, unanswered)
  BY <1>1, <1>4, <1>5, RequestsGrow DEF RequestsInv
<1>7. QED BY <1>2, <1>5, <1>6 DEF RequestsInv

LEMMA RequestsOfOneSent ==
    ASSUME TypeInv, RequestsInv, page' \in Pages, Grows(page, page'), NEW m \in WebviewMessages,
           toHost' = toHost \o <<m>>, UNCHANGED <<calls, active, unanswered>>,
           m.type = "request" => AskOK(page', m) /\ m.id = page'.requests[m.kind].id,
           m.type = "cancel" => CancelOK(page', m)
    PROVE  RequestsInv'
<1>1. calls \in SUBSET Parented /\ active \in Actives /\ toHost \in Seq(WebviewMessages) /\ page \in Pages
  BY DEF TypeInv, HostTypes, QueueTypes, PageTypes, Actives
<1> DEFINE new == <<m>>
<1>2. new \in Seq(WebviewMessages) /\ \A i \in DOMAIN new : new[i] = m
  BY Single
<1>3. toHost' = toHost \o new
  OBVIOUS
<1> HIDE DEF new
<1>4. RequestsOK(page', toHost \o new, calls, active, unanswered)
  BY <1>1, <1>2, RequestsGrow DEF RequestsInv
<1>5. QED BY <1>3, <1>4 DEF RequestsInv

LEMMA RequestsOfUser ==
    ASSUME TypeInv, RequestsInv, User
    PROVE  RequestsInv'
<1>1. /\ calls \in SUBSET Parented /\ active \in Actives /\ toHost \in Seq(WebviewMessages) /\ page \in Pages
      /\ page' \in Pages /\ UNCHANGED <<calls, active, unanswered>>
  BY UserActs DEF TypeInv, HostTypes, QueueTypes, PageTypes, Actives, requestVars
<1>2. \A kind \in Kinds : page.requests[kind] \in RequestStates /\ page'.requests[kind] \in RequestStates
  BY <1>1 DEF Pages
<1>3. CASE /\ UNCHANGED page
           /\ \E type \in {"requestAnalysis", "requestRefresh", "openWorkspaceTarget"} :
                 toHost' = toHost \o <<Message(type)>>
  <2>1. PICK type \in {"requestAnalysis", "requestRefresh", "openWorkspaceTarget"} :
           toHost' = toHost \o <<Message(type)>>
    BY <1>3
  <2>2. Message(type) \in WebviewMessages /\ Message(type).type \notin {"request", "cancel"}
    BY DEF Message, WebviewMessages
  <2>3. Grows(page, page')
    BY <1>2, <1>3 DEF Grows, RequestStates
  <2>4. QED BY <1>1, <2>1, <2>2, <2>3, RequestsOfOneSent
<1>4. ASSUME NEW kind \in Kinds, \A k \in Kinds \ {kind} : page'.requests[k] = page.requests[k],
             page'.requests[kind].id = page.requests[kind].id + 1,
             toHost' = toHost \o <<RequestMessage(kind, page'.requests[kind])>>
      PROVE  RequestsInv'
  <2> DEFINE r == page'.requests[kind]
             m == RequestMessage(kind, r)
  <2>1. r \in RequestStates
    BY <1>2
  <2>2. Grows(page, page')
    BY <1>2, <1>4 DEF Grows, RequestStates
  <2> HIDE DEF r
  <2>3. m \in WebviewMessages /\ m.type = "request" /\ m.kind = kind /\ m.id = r.id /\ m.version = r.version
        /\ m.parent = r.parent /\ r.id \in Nat
    BY <2>1 DEF RequestMessage, RequestStates, WebviewMessages
  <2>4. toHost' = toHost \o <<m>>
    BY <1>4 DEF r
  <2> HIDE DEF m
  <2>5. AskOK(page', m) /\ m.id = page'.requests[m.kind].id
    BY <2>3 DEF AskOK, r
  <2>6. QED BY <1>1, <2>2, <2>3, <2>4, <2>5, RequestsOfOneSent
<1>5. ASSUME NEW kind \in Kinds, \A k \in Kinds \ {kind} : page'.requests[k] = page.requests[k],
             page'.requests[kind].status \in {"idle", "cancelled"},
             page'.requests[kind].id = page.requests[kind].id,
             toHost' \in {toHost, toHost \o <<CancelMessage(kind)>>}
      PROVE  RequestsInv'
  <2> DEFINE m == CancelMessage(kind)
  <2>1. Grows(page, page')
    BY <1>2, <1>5 DEF Grows, RequestStates
  <2>2. m \in WebviewMessages /\ m.type = "cancel" /\ m.kind = kind /\ m.id = page'.requests[kind].id /\ m.id \in Nat
    BY <1>2, <1>5 DEF CancelMessage, RequestStates, WebviewMessages
  <2> HIDE DEF m
  <2>3. CancelOK(page', m)
    BY <1>5, <2>2 DEF CancelOK
  <2>4. CASE toHost' = toHost \o <<m>>
    BY <1>1, <2>1, <2>2, <2>3, <2>4, RequestsOfOneSent
  <2>5. CASE toHost' = toHost
    <3> DEFINE new == <<>>
    <3>1. new \in Seq(WebviewMessages) /\ DOMAIN new = {} /\ toHost \o new = toHost
      BY <1>1
    <3> HIDE DEF new
    <3>2. RequestsOK(page', toHost \o new, calls, active, unanswered)
      BY <1>1, <2>1, <3>1, RequestsGrow DEF RequestsInv
    <3>3. QED BY <1>1, <2>5, <3>1, <3>2 DEF RequestsInv
  <2>6. QED BY <1>5, <2>4, <2>5 DEF m
<1>6. QED BY <1>3, <1>4, <1>5, UserActs

LEMMA RequestsOfView ==
    ASSUME TypeInv, RequestsInv, Show \/ Hide \/ Close
    PROVE  RequestsInv'
<1>1. calls \in SUBSET Parented /\ active \in Actives /\ toHost \in Seq(WebviewMessages) /\ page \in Pages
  BY DEF TypeInv, HostTypes, QueueTypes, PageTypes, Actives
<1>2. \A kind \in Kinds : page.requests[kind] \in RequestStates
  BY <1>1 DEF Pages
<1>3. CASE Show
  <2> DEFINE ready == <<Message("ready")>>
             effects == Effects(page)
             middle == toHost \o ready
  <2>1. /\ UNCHANGED <<calls, active, unanswered>> /\ toHost' = middle \o effects
        /\ page' = Restored(page)
    BY <1>3 DEF Show, requestVars
  <2>2. page' \in Pages /\ page'.requests = page.requests
    <3>1. InitialAnalysis \in AnalysisStates
      BY DEF InitialAnalysis, NoRepository, AnalysisStates
    <3>2. QED BY <1>1, <2>1, <3>1 DEF Restored, Pages
  <2>3. Grows(page, page') /\ Grows(page', page')
    BY <1>2, <2>2 DEF Grows, RequestStates
  <2>4. ready \in Seq(WebviewMessages) /\ \A i \in DOMAIN ready : ready[i].type = "ready"
    BY Announced DEF Message
  <2>5. \A m \in Again(page) : m.type = "request" /\ AskOK(page', m) /\ m.id = page'.requests[m.kind].id
    <3> SUFFICES ASSUME NEW kind \in Kinds
                 PROVE  LET m == RequestMessage(kind, page.requests[kind])
                        IN  m.type = "request" /\ AskOK(page', m) /\ m.id = page'.requests[m.kind].id
      BY DEF Again
    <3>1. page.requests[kind].id \in Nat
      BY <1>1, RequestIds
    <3>2. QED BY <2>2, <3>1 DEF RequestMessage, AskOK
  <2>6. effects \in Seq(WebviewMessages) /\ effects \in Seq(Again(page))
    BY Announced
  <2>7. middle \in Seq(WebviewMessages)
    BY <1>1, <2>4, JoinedAt
  <2> HIDE DEF ready, effects
  <2>8. RequestsOK(page', middle, calls, active, unanswered)
    BY <1>1, <2>2, <2>3, <2>4, RequestsGrow DEF RequestsInv
  <2> HIDE DEF middle
  <2>9. \A i \in DOMAIN effects : effects[i] \in Again(page)
    BY <2>6
  <2>10. RequestsOK(page', middle \o effects, calls, active, unanswered)
    <3>1. \A i \in DOMAIN effects : effects[i].type = "request" /\ AskOK(page', effects[i])
                                    /\ effects[i].id = page'.requests[effects[i].kind].id
      BY <2>5, <2>9
    <3>2. QED BY <1>1, <2>2, <2>3, <2>6, <2>7, <2>8, <3>1, RequestsGrow
  <2>11. QED BY <2>1, <2>10 DEF RequestsInv
<1>4. CASE Hide
  BY <1>4 DEF Hide, requestVars, RequestsInv
<1>5. CASE Close
  <2>1. toHost' = <<>> /\ calls' = {} /\ UNCHANGED <<page, unanswered>>
        /\ \A kind \in Kinds \cap Cancellable : active'[kind] = None
    BY <1>1, <1>5 DEF Close, Actives
  <2>2. QueueOK(page', <<>>) /\ CallsOK(page', <<>>, {}, active') /\ ActiveOK(page', <<>>, active')
    BY <2>1 DEF QueueOK, CallsOK, ActiveOK
  <2>3. LeftOK(page', <<>>, active', unanswered')
    BY <2>1 DEF RequestsInv, RequestsOK, LeftOK, Precedes, Cancellable
  <2>4. QED BY <2>1, <2>2, <2>3 DEF RequestsInv, RequestsOK
<1>6. QED BY <1>3, <1>4, <1>5

LEMMA RequestsNext ==
    TypeInv /\ RequestsInv /\ [Next]_vars => RequestsInv'
<1> SUFFICES ASSUME TypeInv, RequestsInv, [Next]_vars PROVE RequestsInv'
  OBVIOUS
<1>1. CASE UNCHANGED vars
  BY <1>1 DEF vars, requestVars, pageVars, RequestsInv
<1>2. CASE Restore \/ EndAnalysis \/ Publish \/ OpenTarget
  BY <1>2 DEF Restore, EndAnalysis, Complete, Fail, Supersede, Publish, PublicationLoop, PostSnapshot, PostComplete,
     OpenTarget, requestVars, pageVars, RequestsInv
<1>3. QED BY <1>1, <1>2, RequestsOfAnalysis, RequestsOfSwitch, RequestsOfHandle, RequestsOfAnswer, RequestsOfReceive,
             RequestsOfUser, RequestsOfView DEF Next, Environment, Handle, Answering

LEMMA RequestsInit == Init => RequestsInv
BY DEF Init, NewPage, NoRequest, RequestsInv, RequestsOK, QueueOK, CallsOK, ActiveOK, LeftOK

-----------------------------------------------------------------------------
(* Pages without a folder *)

HasUnavailable(messages) == \E i \in DOMAIN messages : messages[i].type = "analysisUnavailable"

\* The page knows no analysis once it has received everything.
Unseen(p, messages) ==
    /\ p.analysis.repository => HasUnavailable(messages)
    /\ \A i \in DOMAIN messages : messages[i].type = "analysisSnapshot" =>
          \E j \in DOMAIN messages : i < j /\ messages[j].type = "analysisUnavailable"

\* The page that asks again for an impact of the working tree is new to the provider.
NewToProvider(p, q) ==
    \E i, j \in DOMAIN q :
        /\ i < j
        /\ q[i].type = "ready"
        /\ q[j].type = "request" /\ q[j].kind = "workingTree" /\ q[j].id = p.requests["workingTree"].id

ForgetsWorkingTree(p, messages, q) ==
    "workingTree" \in Kinds /\ p.requests["workingTree"].status = "loading" =>
        HasUnavailable(messages) \/ NewToProvider(p, q)

\* Without a folder nothing is analysed or published, and the page learns of it.
NoFolderInv ==
    /\ inProgress => workspace # None
    /\ \A p \in publications : p.current => workspace # None
    /\ view # "running" => toPage = <<>>
    /\ workspace = None /\ view = "running" => Unseen(page, toPage) /\ ForgetsWorkingTree(page, toPage, toHost)

LEMMA AppendedToPage ==
    ASSUME NEW tp \in Seq(ExtensionMessages), NEW m \in ExtensionMessages
    PROVE  /\ HasUnavailable(tp) => HasUnavailable(tp \o <<m>>)
           /\ m.type = "analysisUnavailable" => HasUnavailable(tp \o <<m>>) /\ \A p : Unseen(p, tp \o <<m>>)
           /\ m.type # "analysisSnapshot" => \A p : Unseen(p, tp) => Unseen(p, tp \o <<m>>)
<1> DEFINE new == <<m>>
           j == tp \o new
           n == Len(tp)
<1>1. new \in Seq(ExtensionMessages) /\ DOMAIN new = {1} /\ new[1] = m
  BY Single
<1> HIDE DEF new
<1>2. /\ \A i \in DOMAIN tp : i \in DOMAIN j /\ j[i] = tp[i] /\ i <= n
      /\ n + 1 \in DOMAIN j /\ j[n + 1] = m
      /\ \A i \in DOMAIN j : i \in DOMAIN tp \/ (i - n \in DOMAIN new /\ j[i] = new[i - n])
      /\ n \in Nat /\ DOMAIN j \subseteq Nat
  BY <1>1, JoinedAt
<1> HIDE DEF j, n
<1>3. \A i \in DOMAIN j : (i \in DOMAIN tp /\ j[i] = tp[i] /\ i < n + 1) \/ (i = n + 1 /\ j[i] = m)
  BY <1>1, <1>2
<1>4. HasUnavailable(tp) => HasUnavailable(j)
  BY <1>2 DEF HasUnavailable
<1>5. ASSUME m.type = "analysisUnavailable" PROVE HasUnavailable(j) /\ \A p : Unseen(p, j)
  <2>1. HasUnavailable(j)
    BY <1>2, <1>5 DEF HasUnavailable
  <2>2. \A i \in DOMAIN j : j[i].type = "analysisSnapshot" => i < n + 1
    BY <1>3, <1>5
  <2>3. QED BY <1>2, <1>5, <2>1, <2>2 DEF Unseen
<1>6. ASSUME m.type # "analysisSnapshot", NEW p, Unseen(p, tp) PROVE Unseen(p, j)
  <2>1. \A i \in DOMAIN j : j[i].type = "analysisSnapshot" => i \in DOMAIN tp /\ tp[i].type = "analysisSnapshot"
    BY <1>3, <1>6
  <2>2. QED BY <1>2, <1>4, <1>6, <2>1 DEF Unseen
<1>7. QED BY <1>4, <1>5, <1>6 DEF j, new

\* The first message is received.
LEMMA UnseenReceived ==
    ASSUME NEW p, NEW p2, NEW tp \in Seq(ExtensionMessages), tp # <<>>, Unseen(p, tp),
           p2.analysis.repository =>
              \/ Head(tp).type = "analysisSnapshot"
              \/ p.analysis.repository /\ Head(tp).type # "analysisUnavailable"
    PROVE  /\ Unseen(p2, Tail(tp))
           /\ HasUnavailable(tp) => HasUnavailable(Tail(tp)) \/ Head(tp).type = "analysisUnavailable"
<1> DEFINE t == Tail(tp)
           h == Head(tp)
<1>1. /\ 1 \in DOMAIN tp /\ h = tp[1]
      /\ \A i \in DOMAIN t : i + 1 \in DOMAIN tp /\ t[i] = tp[i + 1]
      /\ \A i \in DOMAIN tp : i = 1 \/ (i - 1 \in DOMAIN t /\ t[i - 1] = tp[i])
      /\ DOMAIN tp \subseteq Nat /\ DOMAIN t \subseteq Nat
  BY TailAt
<1>2. \A i \in DOMAIN t : i + 1 > 1
  OBVIOUS
<1> HIDE DEF t, h
<1>3. HasUnavailable(tp) /\ h.type # "analysisUnavailable" => HasUnavailable(t)
  BY <1>1 DEF HasUnavailable
<1>4. ASSUME NEW i \in DOMAIN t, t[i].type = "analysisSnapshot"
      PROVE  \E j \in DOMAIN t : i < j /\ t[j].type = "analysisUnavailable"
  <2>1. i + 1 \in DOMAIN tp /\ tp[i + 1].type = "analysisSnapshot"
    BY <1>1, <1>4
  <2>2. PICK j \in DOMAIN tp : i + 1 < j /\ tp[j].type = "analysisUnavailable"
    BY <2>1 DEF Unseen
  <2>3. j - 1 \in DOMAIN t /\ t[j - 1] = tp[j] /\ i < j - 1
    BY <1>1, <2>1, <2>2
  <2>4. QED BY <2>2, <2>3
<1>5. ASSUME p2.analysis.repository PROVE HasUnavailable(t)
  <2>1. CASE h.type = "analysisSnapshot"
    <3>1. PICK j \in DOMAIN tp : 1 < j /\ tp[j].type = "analysisUnavailable"
      BY <1>1, <2>1 DEF Unseen
    <3>2. j - 1 \in DOMAIN t /\ t[j - 1] = tp[j]
      BY <1>1, <3>1
    <3>3. QED BY <3>1, <3>2 DEF HasUnavailable
  <2>2. CASE p.analysis.repository /\ h.type # "analysisUnavailable"
    BY <1>3, <2>2 DEF Unseen
  <2>3. QED BY <1>5, <2>1, <2>2 DEF h
<1>6. QED BY <1>3, <1>4, <1>5 DEF Unseen, t, h

LEMMA NewToProviderTail ==
    ASSUME NEW p, NEW q \in Seq(WebviewMessages), q # <<>>, NewToProvider(p, q), Head(q).type # "ready"
    PROVE  NewToProvider(p, Tail(q))
<1> DEFINE t == Tail(q)
<1>1. /\ 1 \in DOMAIN q /\ Head(q) = q[1]
      /\ \A i \in DOMAIN q : i = 1 \/ (i - 1 \in DOMAIN t /\ t[i - 1] = q[i])
      /\ DOMAIN q \subseteq Nat /\ \A i \in DOMAIN q : i >= 1
  BY TailAt
<1> HIDE DEF t
<1>2. PICK i \in DOMAIN q, j \in DOMAIN q :
        /\ i < j
        /\ q[i].type = "ready"
        /\ q[j].type = "request" /\ q[j].kind = "workingTree" /\ q[j].id = p.requests["workingTree"].id
  BY DEF NewToProvider
<1>3. i # 1 /\ j # 1
  BY <1>1, <1>2
<1>4. i - 1 < j - 1 /\ i - 1 \in DOMAIN t /\ j - 1 \in DOMAIN t /\ t[i - 1] = q[i] /\ t[j - 1] = q[j]
  BY <1>1, <1>2, <1>3
<1>5. NewToProvider(p, t)
  BY <1>2, <1>4 DEF NewToProvider
<1>6. QED BY <1>5 DEF t

LEMMA NewToProviderSent ==
    ASSUME NEW p, NEW p2, NEW q \in Seq(WebviewMessages), NEW new \in Seq(WebviewMessages),
           NewToProvider(p, q), p2.requests["workingTree"].id = p.requests["workingTree"].id
    PROVE  NewToProvider(p2, q \o new)
<1> DEFINE j == q \o new
<1>1. \A i \in DOMAIN q : i \in DOMAIN j /\ j[i] = q[i]
  BY JoinedAt
<1> HIDE DEF j
<1>2. QED BY <1>1 DEF NewToProvider, j

\* What is posted to a page
LEMMA Posted ==
    ASSUME TypeInv, NEW m \in ExtensionMessages, Post(<<m>>), view = "running"
    PROVE  /\ toPage' = toPage \o <<m>> /\ toPage \in Seq(ExtensionMessages)
           /\ HasUnavailable(toPage) => HasUnavailable(toPage')
           /\ m.type = "analysisUnavailable" => HasUnavailable(toPage') /\ Unseen(page, toPage')
           /\ m.type # "analysisSnapshot" => (Unseen(page, toPage) => Unseen(page, toPage'))
<1>1. toPage' = toPage \o <<m>> /\ toPage \in Seq(ExtensionMessages)
  BY DEF Post, TypeInv, QueueTypes
<1>2. QED BY <1>1, AppendedToPage

LEMMA NotPosted ==
    ASSUME NEW messages, Post(messages), view # "running"
    PROVE  toPage' = toPage
BY DEF Post

\* What is left alone stays as it is.
LEMMA NoFolderKept ==
    ASSUME TypeInv, NoFolderInv, UNCHANGED <<workspace, view, page>>,
           inProgress' => inProgress, \A p \in publications' : p.current => workspace # None,
           workspace = None => \/ UNCHANGED toPage
                               \/ \E m \in ExtensionMessages : Post(<<m>>) /\ m.type # "analysisSnapshot",
           view # "running" => UNCHANGED toPage,
           \/ UNCHANGED toHost
           \/ toHost # <<>> /\ toHost' = Tail(toHost) /\ Head(toHost).type # "ready"
    PROVE  NoFolderInv'
<1>1. CASE workspace = None /\ view = "running"
  <2>1. Unseen(page, toPage') /\ (HasUnavailable(toPage) => HasUnavailable(toPage'))
    BY <1>1, Posted DEF NoFolderInv
  <2>2. NewToProvider(page, toHost) => NewToProvider(page, toHost')
    BY NewToProviderTail DEF TypeInv, QueueTypes
  <2>3. ForgetsWorkingTree(page, toPage', toHost')
    BY <1>1, <2>1, <2>2 DEF NoFolderInv, ForgetsWorkingTree
  <2>4. QED BY <1>1, <2>1, <2>3 DEF NoFolderInv
<1>2. CASE ~(workspace = None /\ view = "running")
  BY <1>2 DEF NoFolderInv
<1>3. QED BY <1>1, <1>2

LEMMA NoFolderScanning ==
    ASSUME TypeInv, NoFolderInv, UNCHANGED <<workspace, view, page>>, OnScanning,
           \/ UNCHANGED toHost
           \/ toHost # <<>> /\ toHost' = Tail(toHost) /\ Head(toHost).type # "ready"
    PROVE  NoFolderInv'
<1>1. CASE inProgress \/ workspace = None
  <2>1. UNCHANGED <<inProgress, publications, toPage>>
    BY <1>1 DEF OnScanning, publicationVars, Silent, NoFolderInv
  <2>2. QED BY <2>1, NoFolderKept DEF NoFolderInv
<1>2. CASE ~inProgress /\ workspace # None
  <2>1. EndEpoch /\ Post(<<Started(workspace)>>)
    BY <1>2 DEF OnScanning
  <2>2. view # "running" => UNCHANGED toPage
    BY <2>1, NotPosted
  <2>3. QED BY <1>2, <2>2 DEF NoFolderInv
<1>3. QED BY <1>1, <1>2

LEMMA NoFolderPublishing ==
    ASSUME TypeInv, NoFolderInv, UNCHANGED <<workspace, view, page, inProgress>>, NEW byLoop \in BOOLEAN,
           PublishCurrentData(byLoop)
    PROVE  /\ \A p \in publications' : p.current => workspace # None
           /\ view # "running" => UNCHANGED toPage
           /\ workspace = None => Post(<<Unavailable(None)>>)
<1>1. Loaded => workspace # None
  BY PageAssumption DEF Loaded, TypeInv, HostTypes, Analyses
<1>2. CASE inProgress
  BY <1>2, NotPosted DEF PublishCurrentData, NoFolderInv
<1>3. CASE ~inProgress /\ ~Loaded
  BY <1>3, NotPosted DEF PublishCurrentData, NoFolderInv
<1>4. CASE ~inProgress /\ Loaded
  <2>1. \A p \in publications' : workspace # None
    BY <1>1, <1>4
  <2>2. QED BY <1>1, <1>4, <2>1 DEF PublishCurrentData, Silent
<1>5. QED BY <1>2, <1>3, <1>4

LEMMA NoFolderPublish ==
    ASSUME TypeInv, NoFolderInv, Publish
    PROVE  NoFolderInv'
<1>1. UNCHANGED <<workspace, view, page, inProgress, toHost>>
  BY DEF Publish, PublicationLoop, PostSnapshot, PostComplete, serviceVars, pageVars
<1>2. CASE PublicationLoop
  <2>1. PublishCurrentData(TRUE)
    BY <1>2 DEF PublicationLoop
  <2>2. Unavailable(None) \in ExtensionMessages /\ Unavailable(None).type # "analysisSnapshot"
    BY TypesOfMessages DEF Unavailable
  <2>3. QED BY <1>1, <2>1, <2>2, NoFolderPublishing, NoFolderKept
<1>3. CASE PostSnapshot
  <2>1. PICK p \in publications :
          \/ p.current /\ Post(<<Snapshot(p)>>) /\ publications' = (publications \ {p}) \cup {[p EXCEPT !.step = "posted"]}
          \/ p.current /\ Post(<<Message("analysisError")>>) /\ publications' = publications \ {p}
          \/ UNCHANGED toPage /\ publications' = publications \ {p}
    BY <1>3 DEF PostSnapshot, Silent
  <2>2. p \in Publications
    BY DEF TypeInv, HostTypes
  <2>3. [p EXCEPT !.step = "posted"].current = p.current
    BY <2>2 DEF Publications
  <2>4. \A x \in publications' : x.current => workspace # None
    BY <2>1, <2>3 DEF NoFolderInv
  <2>5. view # "running" => UNCHANGED toPage
    BY <2>1, NotPosted
  <2>6. workspace = None => UNCHANGED toPage
    BY <2>1 DEF NoFolderInv
  <2>7. QED BY <1>1, <2>4, <2>5, <2>6, NoFolderKept
<1>4. CASE PostComplete
  <2>1. Post(<<Message("analysisComplete")>>) /\ \A p \in publications' : p.current => workspace # None
    BY <1>4 DEF PostComplete, NoFolderInv
  <2>2. Message("analysisComplete") \in ExtensionMessages /\ Message("analysisComplete").type # "analysisSnapshot"
    BY TypesOfMessages DEF Message
  <2>3. QED BY <1>1, <2>1, <2>2, NoFolderKept, NotPosted
<1>5. QED BY <1>2, <1>3, <1>4 DEF Publish

LEMMA NoFolderAnalysis ==
    ASSUME TypeInv, NoFolderInv, EndAnalysis \/ StartAnalysis \/ Restore \/ AnalyzeHistoricalTree
    PROVE  NoFolderInv'
<1>1. UNCHANGED <<workspace, view, page, toHost>>
  BY DEF EndAnalysis, Complete, Fail, Supersede, StartAnalysis, Restore, AnalyzeHistoricalTree, serviceVars, pageVars
<1>2. CASE StartAnalysis \/ AnalyzeHistoricalTree
  <2>1. OnScanning
    BY <1>2 DEF StartAnalysis, Analyze, AnalyzeHistoricalTree
  <2>2. QED BY <1>1, <2>1, NoFolderScanning
<1>3. CASE Restore \/ Supersede \/ Complete
  <2>1. UNCHANGED <<publications, toPage>> /\ (inProgress' => inProgress)
    BY <1>3 DEF Restore, Supersede, Complete, OnComplete, publicationVars, Silent
  <2>2. QED BY <1>1, <2>1, NoFolderKept DEF NoFolderInv
<1>4. CASE Fail
  <2>1. UNCHANGED publications /\ inProgress' = FALSE /\ Post(<<Message("analysisError")>>)
    BY <1>4 DEF Fail, OnFailed
  <2>2. Message("analysisError") \in ExtensionMessages /\ Message("analysisError").type # "analysisSnapshot"
    BY TypesOfMessages DEF Message
  <2>3. view # "running" => UNCHANGED toPage
    BY <2>1, NotPosted
  <2>4. QED BY <1>1, <2>1, <2>2, <2>3, NoFolderKept DEF NoFolderInv
<1>5. QED BY <1>2, <1>3, <1>4 DEF EndAnalysis

LEMMA NoFolderSwitch ==
    ASSUME TypeInv, NoFolderInv, NEW root \in Roots \cup {None}, SwitchWorkspace(root)
    PROVE  NoFolderInv'
<1>1. /\ UNCHANGED <<view, page, toHost>> /\ inProgress' = FALSE /\ EndEpoch /\ Post(<<Unavailable(root)>>)
  BY DEF SwitchWorkspace, OnWorkspaceChanged, pageVars
<1>2. \A p \in publications' : ~p.current
  BY <1>1 DEF EndEpoch, TypeInv, HostTypes, Publications
<1>3. Unavailable(root) \in ExtensionMessages /\ Unavailable(root).type = "analysisUnavailable"
  BY TypesOfMessages DEF Unavailable
<1>4. view = "running" => HasUnavailable(toPage') /\ Unseen(page, toPage')
  BY <1>1, <1>3, Posted
<1>5. view # "running" => UNCHANGED toPage
  BY <1>1, NotPosted
<1>6. QED BY <1>1, <1>2, <1>4, <1>5 DEF NoFolderInv, ForgetsWorkingTree

LEMMA NoFolderHandle ==
    ASSUME TypeInv, NoFolderInv, Handle
    PROVE  NoFolderInv'
<1>1. UNCHANGED <<workspace, view, page>> /\ toHost # <<>> /\ toHost' = Tail(toHost)
  BY DEF Handle, HandleReady, HandleAnalyze, HandleRequest, HandleCancel, HandleOpen, Receive, serviceVars, pageVars
<1>2. CASE HandleReady
  <2>1. UNCHANGED inProgress /\ PublishCurrentData(FALSE)
    BY <1>2 DEF HandleReady
  <2>2. /\ \A p \in publications' : p.current => workspace # None
        /\ view # "running" => UNCHANGED toPage
        /\ workspace = None => Post(<<Unavailable(None)>>)
    BY <1>1, <2>1, NoFolderPublishing
  <2>3. Unavailable(None) \in ExtensionMessages /\ Unavailable(None).type = "analysisUnavailable"
    BY TypesOfMessages DEF Unavailable
  <2>4. workspace = None /\ view = "running" => HasUnavailable(toPage') /\ Unseen(page, toPage')
    BY <2>2, <2>3, Posted
  <2>5. QED BY <1>1, <2>1, <2>2, <2>4 DEF NoFolderInv, ForgetsWorkingTree
<1>3. CASE HandleAnalyze
  <2>1. Head(toHost).type # "ready"
    BY <1>3 DEF HandleAnalyze, Receive
  <2>2. CASE OnScanning
    BY <1>1, <2>1, <2>2, NoFolderScanning
  <2>3. CASE ~OnScanning
    <3>1. UNCHANGED publicationVars /\ (UNCHANGED toPage \/ Post(<<Message("analysisError")>>))
      BY <1>3, <2>3 DEF HandleAnalyze, Analyze, Silent
    <3>2. Message("analysisError") \in ExtensionMessages /\ Message("analysisError").type # "analysisSnapshot"
      BY TypesOfMessages DEF Message
    <3>3. view # "running" => UNCHANGED toPage
      BY <3>1, NotPosted
    <3>4. QED BY <1>1, <2>1, <3>1, <3>2, <3>3, NoFolderKept DEF publicationVars, NoFolderInv
  <2>4. QED BY <2>2, <2>3
<1>4. CASE HandleRequest
  <2> DEFINE m == Head(toHost)
             error == Answer(m, "error", m.parent)
  <2>1. MessageOK(m) /\ m.type = "request"
    BY <1>4, TypesOfReceived DEF HandleRequest, TypeInv
  <2>2. m.kind \in Kinds /\ m.id \in Nat /\ m.version \in Nat /\ m.parent \in Parents \cup {None}
        /\ (m.parent = None \/ m.kind = "commit")
    BY <2>1, WebviewMessageTypes DEF MessageOK
  <2>3. UNCHANGED publicationVars /\ (UNCHANGED toPage \/ Post(<<error>>))
    BY <1>4, Handled DEF Serve, Refuse, Silent
  <2>4. error \in ExtensionMessages /\ error.type # "analysisSnapshot"
    BY <2>2, TypesOfAnswers DEF Answer
  <2> HIDE DEF error
  <2>5. view # "running" => UNCHANGED toPage
    BY <2>3, NotPosted
  <2>6. QED BY <1>1, <2>1, <2>3, <2>4, <2>5, NoFolderKept DEF publicationVars, NoFolderInv
<1>5. CASE HandleCancel \/ HandleOpen
  <2>1. UNCHANGED publicationVars /\ UNCHANGED toPage /\ Head(toHost).type # "ready"
    BY <1>5 DEF HandleCancel, HandleOpen, Receive
  <2>2. QED BY <1>1, <2>1, NoFolderKept DEF publicationVars, NoFolderInv
<1>6. QED BY <1>2, <1>3, <1>4, <1>5 DEF Handle

LEMMA NoFolderAnswering ==
    ASSUME TypeInv, NoFolderInv, Answering
    PROVE  NoFolderInv'
<1>1. UNCHANGED <<workspace, view, page, toHost>> /\ UNCHANGED publicationVars
  BY DEF Answering, AnswerRequest, OpenTarget, serviceVars, pageVars
<1>2. UNCHANGED toPage \/ \E m \in ExtensionMessages : Post(<<m>>) /\ m.type # "analysisSnapshot"
  <2>1. CASE OpenTarget
    BY <2>1 DEF OpenTarget
  <2>2. CASE AnswerRequest
    <3>1. UNCHANGED toPage \/ \E c, outcome, parent : /\ Answer(c, outcome, parent) \in ExtensionMessages
                                                      /\ Post(<<Answer(c, outcome, parent)>>)
      BY <2>2, ServiceAnswers
    <3>2. \A c, outcome, parent : Answer(c, outcome, parent).type # "analysisSnapshot"
      BY DEF Answer
    <3>3. QED BY <3>1, <3>2
  <2>3. QED BY <2>1, <2>2 DEF Answering
<1>3. view # "running" => UNCHANGED toPage
  BY <1>2, NotPosted
<1>4. QED BY <1>1, <1>2, <1>3, NoFolderKept DEF publicationVars, NoFolderInv

LEMMA NoFolderReceive ==
    ASSUME TypeInv, NoFolderInv, ReceiveMessage
    PROVE  NoFolderInv'
<1> DEFINE m == Head(toPage)
<1>1. /\ UNCHANGED <<workspace, publications, inProgress, view, toHost>> /\ page' = Reduce(page, m)
      /\ toPage' = Tail(toPage) /\ toPage # <<>> /\ toPage \in Seq(ExtensionMessages) /\ PageTypes
      /\ view = "running"
  BY DEF ReceiveMessage, TypeInv, QueueTypes, serviceVars, publicationVars
<1>2. m \in ExtensionMessages
  BY <1>1, TailAt
<1> HIDE DEF m
<1>3. /\ page'.analysis = ReduceAnalysis(page.analysis, m) /\ page.analysis \in AnalysisStates
      /\ \A kind \in Kinds :
            /\ page.requests[kind] \in RequestStates
            /\ page'.requests[kind] = ReduceRequest(kind, page.requests[kind], m)
  BY <1>1, <1>2, Reduced DEF PageTypes, Pages
<1>4. page'.analysis.repository =>
         m.type = "analysisSnapshot" \/ (page.analysis.repository /\ m.type # "analysisUnavailable")
  BY <1>3 DEF ReduceAnalysis, AfterStarted, AfterError, AfterSnapshot, AfterComplete, NoRepository, AnalysisStates
<1>5. Unseen(page, toPage) =>
         /\ Unseen(page', toPage')
         /\ HasUnavailable(toPage) => HasUnavailable(toPage') \/ m.type = "analysisUnavailable"
  BY <1>1, <1>4, UnseenReceived DEF m
<1>6. ASSUME "workingTree" \in Kinds, page'.requests["workingTree"].status = "loading"
      PROVE  /\ page.requests["workingTree"] = page'.requests["workingTree"]
             /\ m.type # "analysisUnavailable"
  <2>1. /\ page.requests["workingTree"] = page'.requests["workingTree"]
        /\ ~IsReset("workingTree", page.requests["workingTree"], m)
    BY <1>2, <1>3, <1>6, ReducedRequest
  <2>2. QED BY <2>1 DEF IsReset
<1>7. workspace = None => Unseen(page', toPage') /\ ForgetsWorkingTree(page', toPage', toHost')
  BY <1>1, <1>5, <1>6 DEF NoFolderInv, ForgetsWorkingTree, NewToProvider
<1>8. QED BY <1>1, <1>7 DEF NoFolderInv

LEMMA NoFolderUser ==
    ASSUME TypeInv, BesideAnalysis, NoFolderInv, User
    PROVE  NoFolderInv'
<1>1. /\ UNCHANGED <<workspace, publications, inProgress, view, toPage>> /\ view = "running"
      /\ page'.analysis = page.analysis /\ toHost \in Seq(WebviewMessages)
  BY UserActs DEF serviceVars, publicationVars, TypeInv, QueueTypes
<1>2. Unseen(page, toPage) => Unseen(page', toPage')
  BY <1>1 DEF Unseen
<1>3. PICK new \in Seq(WebviewMessages) : toHost' = toHost \o new
  <2>1. toHost' \in Seq(WebviewMessages)
    BY TypesOfUser DEF TypeInv, QueueTypes
  <2>2. toHost = toHost \o <<>>
    BY <1>1
  <2>3. \A type \in {"requestAnalysis", "requestRefresh", "openWorkspaceTarget"} :
           <<Message(type)>> \in Seq(WebviewMessages)
    BY DEF Message, WebviewMessages
  <2>4. \A kind \in Kinds : /\ page.requests[kind] \in RequestStates
                            /\ page'.requests[kind] \in RequestStates
    BY UserActs DEF TypeInv, PageTypes, Pages
  <2>5. \A kind \in Kinds : /\ RequestMessage(kind, page'.requests[kind]) \in WebviewMessages
                            /\ CancelMessage(kind) \in WebviewMessages
    BY <2>4 DEF RequestMessage, CancelMessage, RequestStates, WebviewMessages
  <2>6. \A kind \in Kinds : /\ <<RequestMessage(kind, page'.requests[kind])>> \in Seq(WebviewMessages)
                            /\ <<CancelMessage(kind)>> \in Seq(WebviewMessages)
    BY <2>5
  <2>7. \/ \E type \in {"requestAnalysis", "requestRefresh", "openWorkspaceTarget"} :
              toHost' = toHost \o <<Message(type)>>
        \/ \E kind \in Kinds : \/ toHost' = toHost \o <<RequestMessage(kind, page'.requests[kind])>>
                               \/ toHost' = toHost \o <<CancelMessage(kind)>>
                               \/ toHost' = toHost \o <<>>
    BY <2>2, UserActs
  <2>8. <<>> \in Seq(WebviewMessages)
    OBVIOUS
  <2>9. \A new : new \in Seq(WebviewMessages) /\ toHost' = toHost \o new =>
           \E more \in Seq(WebviewMessages) : toHost' = toHost \o more
    BY Zenon
  <2>10. QED BY <2>3, <2>6, <2>7, <2>8, <2>9, Zenon
<1>4. ASSUME "workingTree" \in Kinds, page'.requests["workingTree"].status = "loading",
             Unseen(page, toPage), ForgetsWorkingTree(page, toPage, toHost)
      PROVE  HasUnavailable(toPage) \/ NewToProvider(page', toHost')
  <2>1. \/ page'.requests["workingTree"] = page.requests["workingTree"]
        \/ IsOffered("workingTree")
    BY <1>4, UserActs
  <2>2. CASE page'.requests["workingTree"] = page.requests["workingTree"]
    BY <1>1, <1>3, <1>4, <2>2, NewToProviderSent DEF ForgetsWorkingTree
  <2>3. CASE IsOffered("workingTree")
    <3>1. page.analysis.status = "ready"
      BY <2>3 DEF IsOffered, Historical
    <3>2. QED BY <1>4, <3>1 DEF BesideAnalysis, Unseen
  <2>4. QED BY <2>1, <2>2, <2>3
<1>5. workspace = None => ForgetsWorkingTree(page', toPage', toHost')
  BY <1>1, <1>4 DEF NoFolderInv, ForgetsWorkingTree
<1>6. QED BY <1>1, <1>2, <1>5 DEF NoFolderInv

LEMMA ShownAgain ==
    ASSUME TypeInv, Show, NEW kind \in Kinds, page'.requests[kind].status = "loading"
    PROVE  \E i, j \in DOMAIN toHost' :
              /\ i < j /\ toHost'[i].type = "ready"
              /\ toHost'[j].type = "request" /\ toHost'[j].kind = kind /\ toHost'[j].id = page'.requests[kind].id
<1> DEFINE ready == <<Message("ready")>>
           effects == Effects(page)
           middle == toHost \o ready
           n == Len(toHost)
           ask == RequestMessage(kind, page.requests[kind])
<1>1. toHost' = middle \o effects /\ page' = Restored(page) /\ page \in Pages
  BY DEF Show, TypeInv, PageTypes
<1>2. page'.requests = page.requests
  BY <1>1 DEF Restored, Pages
<1>3. ready \in Seq(WebviewMessages) /\ effects \in Seq(WebviewMessages) /\ toHost \in Seq(WebviewMessages)
  BY Announced DEF TypeInv, QueueTypes
<1>4. PICK k \in DOMAIN effects : effects[k] = ask
  BY <1>2, EffectsAskAgain DEF AsksAgain
<1>5. ask.type = "request" /\ ask.kind = kind /\ ask.id = page'.requests[kind].id
  BY <1>2 DEF RequestMessage
<1>6. 1 \in DOMAIN ready /\ ready[1].type = "ready"
  BY DEF Message
<1> HIDE DEF ready, effects, ask
<1>7. middle \in Seq(WebviewMessages) /\ n + 1 \in DOMAIN middle /\ middle[n + 1] = ready[1] /\ n + 1 <= Len(middle)
      /\ n \in Nat /\ Len(middle) \in Nat
  BY <1>3, <1>6, JoinedAt
<1> HIDE DEF middle, n
<1> DEFINE joined == middle \o effects
<1>8. /\ n + 1 \in DOMAIN joined /\ joined[n + 1] = middle[n + 1]
      /\ Len(middle) + k \in DOMAIN joined /\ joined[Len(middle) + k] = effects[k] /\ k \in Nat
  <2>1. /\ \A i \in DOMAIN middle : i \in DOMAIN joined /\ joined[i] = middle[i]
        /\ \A i \in DOMAIN effects : Len(middle) + i \in DOMAIN joined /\ joined[Len(middle) + i] = effects[i]
        /\ DOMAIN effects \subseteq Nat
    BY <1>3, <1>7, JoinedAt
  <2> HIDE DEF joined
  <2>2. QED BY <1>4, <1>7, <2>1
<1>9. k >= 1
  BY <1>3, <1>4
<1> HIDE DEF joined
<1>10. n + 1 < Len(middle) + k
  BY <1>7, <1>8, <1>9
<1>11. toHost' = joined
  BY <1>1 DEF joined
<1>12. QED BY <1>4, <1>5, <1>6, <1>7, <1>8, <1>10, <1>11

LEMMA NoFolderView ==
    ASSUME TypeInv, NoFolderInv, Show \/ Hide \/ Close
    PROVE  NoFolderInv'
<1>1. UNCHANGED <<workspace, publications, inProgress>>
  BY DEF Show, Hide, Close, serviceVars, publicationVars
<1>2. CASE Show
  <2>1. toPage' = <<>> /\ page'.analysis = InitialAnalysis /\ view' = "running"
    BY <1>2 DEF Show, Restored, TypeInv, PageTypes, Pages, NoFolderInv
  <2>2. Unseen(page', toPage')
    BY <2>1 DEF InitialAnalysis, NoRepository, Unseen
  <2>3. ForgetsWorkingTree(page', toPage', toHost')
    BY <1>2, ShownAgain DEF ForgetsWorkingTree, NewToProvider
  <2>4. QED BY <1>1, <2>1, <2>2, <2>3 DEF NoFolderInv
<1>3. CASE Hide \/ Close
  BY <1>1, <1>3 DEF Hide, Close, NoFolderInv
<1>4. QED BY <1>2, <1>3

LEMMA NoFolderNext ==
    TypeInv /\ BesideAnalysis /\ NoFolderInv /\ [Next]_vars => NoFolderInv'
<1> SUFFICES ASSUME TypeInv, BesideAnalysis, NoFolderInv, [Next]_vars PROVE NoFolderInv'
  OBVIOUS
<1>1. CASE UNCHANGED vars
  BY <1>1 DEF vars, serviceVars, publicationVars, pageVars, NoFolderInv
<1>2. QED BY <1>1, NoFolderAnalysis, NoFolderSwitch, NoFolderView, NoFolderUser, NoFolderPublish, NoFolderHandle,
             NoFolderAnswering, NoFolderReceive DEF Next, Environment

LEMMA NoFolderInit == Init => NoFolderInv
<1> SUFFICES ASSUME Init PROVE NoFolderInv
  OBVIOUS
<1>1. workspace # None
  BY PageAssumption DEF Init
<1>2. QED BY <1>1 DEF Init, NoFolderInv

-----------------------------------------------------------------------------
(* Requests that are waited for *)

Asked(p, q, kind) ==
    \E i \in DOMAIN q : q[i].type = "request" /\ q[i].kind = kind /\ q[i].id = p.requests[kind].id

Served(p, cs, kind) == \E c \in cs : c.kind = kind /\ c.id = p.requests[kind].id

Ends(kind, request, m) == IsReset(kind, request, m) \/ IsAnswer(kind, request, m)

Ending(p, messages, kind) == \E i \in DOMAIN messages : Ends(kind, p.requests[kind], messages[i])

Forgotten(p, left, kind) == p.requests[kind].id = left[kind]

\* Where the request is that the page waits for
UnderWay(p, q, cs, messages, left, kind) ==
    Asked(p, q, kind) \/ Served(p, cs, kind) \/ Ending(p, messages, kind) \/ Forgotten(p, left, kind)

WaitingInv ==
    view = "running" =>
        \A kind \in Kinds : page.requests[kind].status = "loading" =>
            UnderWay(page, toHost, calls, toPage, unanswered, kind)

\* What is on its way stays on its way while other messages follow it.
LEMMA EndingPosted ==
    ASSUME TypeInv, NEW m \in ExtensionMessages, Post(<<m>>), view = "running", NEW kind
    PROVE  /\ Ending(page, toPage, kind) => Ending(page, toPage', kind)
           /\ Ends(kind, page.requests[kind], m) => Ending(page, toPage', kind)
<1> DEFINE new == <<m>>
           j == toPage \o new
           n == Len(toPage)
<1>1. toPage' = j /\ toPage \in Seq(ExtensionMessages) /\ new \in Seq(ExtensionMessages) /\ 1 \in DOMAIN new
      /\ new[1] = m
  BY Single DEF Post, TypeInv, QueueTypes
<1> HIDE DEF new
<1>2. /\ \A i \in DOMAIN toPage : i \in DOMAIN j /\ j[i] = toPage[i]
      /\ n + 1 \in DOMAIN j /\ j[n + 1] = m
  BY <1>1, JoinedAt
<1> HIDE DEF j, n
<1>3. QED BY <1>1, <1>2 DEF Ending

LEMMA AskedTail ==
    ASSUME NEW q \in Seq(WebviewMessages), q # <<>>, NEW p, NEW kind, Asked(p, q, kind)
    PROVE  \/ Asked(p, Tail(q), kind)
           \/ Head(q).type = "request" /\ Head(q).kind = kind /\ Head(q).id = p.requests[kind].id
<1> DEFINE t == Tail(q)
<1>1. /\ Head(q) = q[1]
      /\ \A i \in DOMAIN q : i = 1 \/ (i - 1 \in DOMAIN t /\ t[i - 1] = q[i])
  BY TailAt
<1> HIDE DEF t
<1>2. QED BY <1>1 DEF Asked, t

LEMMA AskedSent ==
    ASSUME NEW q \in Seq(WebviewMessages), NEW m \in WebviewMessages, NEW p, NEW p2, NEW kind
    PROVE  /\ Asked(p, q, kind) /\ p2.requests[kind].id = p.requests[kind].id => Asked(p2, q \o <<m>>, kind)
           /\ m.type = "request" /\ m.kind = kind /\ m.id = p2.requests[kind].id => Asked(p2, q \o <<m>>, kind)
<1> DEFINE new == <<m>>
           j == q \o new
           n == Len(q)
<1>1. new \in Seq(WebviewMessages) /\ 1 \in DOMAIN new /\ new[1] = m
  BY Single
<1> HIDE DEF new
<1>2. /\ \A i \in DOMAIN q : i \in DOMAIN j /\ j[i] = q[i]
      /\ n + 1 \in DOMAIN j /\ j[n + 1] = m
  BY <1>1, JoinedAt
<1> HIDE DEF j, n
<1>3. /\ Asked(p, q, kind) /\ p2.requests[kind].id = p.requests[kind].id => Asked(p2, j, kind)
      /\ m.type = "request" /\ m.kind = kind /\ m.id = p2.requests[kind].id => Asked(p2, j, kind)
  BY <1>2 DEF Asked
<1>4. QED BY <1>3 DEF j, new

\* A step of the host that leaves the requests alone
LEMMA WaitingKept ==
    ASSUME TypeInv, WaitingInv, UNCHANGED <<view, page, unanswered, calls>>,
           UNCHANGED toPage \/ \E m \in ExtensionMessages : Post(<<m>>),
           \/ UNCHANGED toHost
           \/ toHost # <<>> /\ toHost' = Tail(toHost) /\ Head(toHost).type # "request"
    PROVE  WaitingInv'
<1> SUFFICES ASSUME view = "running", NEW kind \in Kinds, page.requests[kind].status = "loading"
             PROVE  UnderWay(page, toHost', calls, toPage', unanswered, kind)
  BY DEF WaitingInv
<1>1. UnderWay(page, toHost, calls, toPage, unanswered, kind)
  BY DEF WaitingInv
<1>2. Asked(page, toHost, kind) => Asked(page, toHost', kind)
  BY AskedTail DEF TypeInv, QueueTypes
<1>3. Ending(page, toPage, kind) => Ending(page, toPage', kind)
  BY EndingPosted
<1>4. QED BY <1>1, <1>2, <1>3 DEF UnderWay

\* An impact that is aborted is the one the page waits for, or was aborted before.
LEMMA AbortedIsForgotten ==
    ASSUME TypeInv, RequestsInv
    PROVE  /\ \A kind \in Kinds \ {"impact"} : Aborted(active, unanswered)[kind] = unanswered[kind]
           /\ page.requests["impact"].status = "loading" /\ "impact" \in Kinds
                 /\ (Served(page, calls, "impact") \/ Forgotten(page, unanswered, "impact"))
              => Forgotten(page, Aborted(active, unanswered), "impact")
<1> DEFINE r == page.requests["impact"]
           a == active["impact"]
           left == unanswered["impact"]
           left2 == Aborted(active, unanswered)
<1>1. unanswered \in [Kinds -> Nat \cup {None}]
  BY DEF RequestsInv, RequestsOK, LeftOK
<1>2. /\ \A kind \in Kinds \ {"impact"} : left2[kind] = unanswered[kind]
      /\ "impact" \in Kinds => left2["impact"] = IF a # None THEN a ELSE left
  BY <1>1 DEF Aborted
<1> HIDE DEF left2
<1>3. ASSUME "impact" \in Kinds, Served(page, calls, "impact") \/ Forgotten(page, unanswered, "impact")
      PROVE  left2["impact"] = r.id
  <2>1. "impact" \in Kinds \cap Cancellable /\ a \in Nat \cup {None} /\ r.id \in Nat /\ None \notin Nat
        /\ left \in Nat \cup {None}
    BY <1>1, <1>3, PageAssumption, RequestIds DEF Cancellable, TypeInv, HostTypes, PageTypes
  <2>2. CASE Served(page, calls, "impact")
    <3>1. PICK c \in calls : c.kind = "impact" /\ c.id = r.id
      BY <2>2 DEF Served
    <3>2. a = c.id
      BY <2>1, <3>1 DEF RequestsInv, RequestsOK, CallsOK
    <3>3. QED BY <1>2, <2>1, <3>1, <3>2
  <2>3. CASE Forgotten(page, unanswered, "impact")
    <3>1. left = r.id
      BY <2>3 DEF Forgotten
    <3>2. CASE a # None
      <4>1. left # None
        BY <2>1, <3>1
      <4>2. left <= a /\ a <= r.id
        BY <2>1, <3>2, <4>1 DEF RequestsInv, RequestsOK, LeftOK, ActiveOK, Precedes
      <4>3. a = r.id
        BY <2>1, <3>1, <3>2, <4>2
      <4>4. QED BY <1>2, <2>1, <3>2, <4>3
    <3>3. CASE a = None
      BY <1>2, <2>1, <3>1, <3>3
    <3>4. QED BY <3>2, <3>3
  <2>4. QED BY <1>3, <2>2, <2>3
<1>4. QED BY <1>2, <1>3 DEF Forgotten, left2

LEMMA WaitingScanning ==
    ASSUME TypeInv, RequestsInv, NoFolderInv, WaitingInv, OnScanning, UNCHANGED <<workspace, view, page>>,
           \/ UNCHANGED toHost
           \/ toHost # <<>> /\ toHost' = Tail(toHost) /\ Head(toHost).type # "request"
    PROVE  WaitingInv'
<1>1. CASE inProgress
  BY <1>1, WaitingKept DEF OnScanning, Silent
<1>2. CASE ~inProgress
  <2> SUFFICES ASSUME view = "running", NEW kind \in Kinds, page.requests[kind].status = "loading"
               PROVE  UnderWay(page, toHost', calls', toPage', unanswered', kind)
    BY DEF WaitingInv
  <2>1. UnderWay(page, toHost, calls, toPage, unanswered, kind)
    BY DEF WaitingInv
  <2>2. Asked(page, toHost, kind) => Asked(page, toHost', kind)
    BY AskedTail DEF TypeInv, QueueTypes
  <2>3. calls' = {c \in calls : c.kind \notin {"impact", "workingTree"}}
    BY <1>2, CancelIs DEF OnScanning
  <2>4. kind \notin {"impact", "workingTree"} /\ Served(page, calls, kind) => Served(page, calls', kind)
    BY <2>3 DEF Served
  <2>5. CASE workspace # None
    <3>1. Post(<<Started(workspace)>>) /\ UNCHANGED unanswered
      BY <1>2, <2>5 DEF OnScanning
    <3>2. Started(workspace) \in ExtensionMessages
      BY <2>5, TypesOfMessages DEF TypeInv, HostTypes
    <3>3. Ending(page, toPage, kind) => Ending(page, toPage', kind)
      BY <3>1, <3>2, EndingPosted
    <3>4. kind \in Versioned => Ends(kind, page.requests[kind], Started(workspace))
      BY DEF Ends, IsReset, Started
    <3>5. kind \in {"impact", "workingTree"} => Ending(page, toPage', kind)
      BY <3>1, <3>2, <3>4, EndingPosted DEF Versioned
    <3>6. QED BY <2>1, <2>2, <2>4, <3>1, <3>3, <3>5 DEF UnderWay
  <2>6. CASE workspace = None
    <3>1. UNCHANGED toPage /\ unanswered' = Aborted(active, unanswered)
      BY <1>2, <2>6 DEF OnScanning, Silent, Orphan, Aborted
    <3>2. CASE kind = "impact"
      <4>1. Served(page, calls, kind) \/ Forgotten(page, unanswered, kind) => Forgotten(page, unanswered', kind)
        BY <3>1, <3>2, AbortedIsForgotten
      <4>2. QED BY <2>1, <2>2, <3>1, <4>1 DEF UnderWay
    <3>3. CASE kind = "workingTree"
      <4>1. HasUnavailable(toPage) \/ NewToProvider(page, toHost)
        BY <2>6, <3>3 DEF NoFolderInv, ForgetsWorkingTree
      <4>2. HasUnavailable(toPage) => Ending(page, toPage, kind)
        BY <3>3 DEF HasUnavailable, Ending, Ends, IsReset
      <4>3. NewToProvider(page, toHost) => Asked(page, toHost, kind)
        BY <3>3 DEF NewToProvider, Asked
      <4>4. QED BY <2>2, <3>1, <4>1, <4>2, <4>3 DEF UnderWay
    <3>4. CASE kind \notin {"impact", "workingTree"}
      <4>1. Forgotten(page, unanswered, kind) => Forgotten(page, unanswered', kind)
        BY <3>1, <3>4, AbortedIsForgotten DEF Forgotten
      <4>2. QED BY <2>1, <2>2, <2>4, <3>1, <3>4, <4>1 DEF UnderWay
    <3>5. QED BY <3>2, <3>3, <3>4
  <2>7. QED BY <2>5, <2>6
<1>3. QED BY <1>1, <1>2

LEMMA WaitingSwitch ==
    ASSUME TypeInv, RequestsInv, WaitingInv, NEW root \in Roots \cup {None}, SwitchWorkspace(root)
    PROVE  WaitingInv'
<1>1. /\ UNCHANGED <<view, page, toHost>> /\ Cancel(Cancellable) /\ Post(<<Unavailable(root)>>)
      /\ unanswered' = Aborted(active, unanswered)
  BY DEF SwitchWorkspace, OnWorkspaceChanged, Orphan, Aborted, pageVars
<1> SUFFICES ASSUME view = "running", NEW kind \in Kinds, page.requests[kind].status = "loading"
             PROVE  UnderWay(page, toHost, calls', toPage', unanswered', kind)
  BY <1>1 DEF WaitingInv
<1>2. UnderWay(page, toHost, calls, toPage, unanswered, kind)
  BY DEF WaitingInv
<1>3. Unavailable(root) \in ExtensionMessages
  BY TypesOfMessages
<1>4. /\ Ending(page, toPage, kind) => Ending(page, toPage', kind)
      /\ Ends(kind, page.requests[kind], Unavailable(root)) => Ending(page, toPage', kind)
  BY <1>1, <1>3, EndingPosted
<1>5. CASE kind \in {"entity", "evolution"}
  <2>1. Served(page, calls, kind) => Served(page, calls', kind)
    BY <1>1, <1>5, CancelIs DEF Served, Cancellable
  <2>2. Forgotten(page, unanswered, kind) => Forgotten(page, unanswered', kind)
    BY <1>1, <1>5, AbortedIsForgotten DEF Forgotten
  <2>3. QED BY <1>2, <1>4, <2>1, <2>2 DEF UnderWay
<1>6. CASE kind = "impact"
  <2>1. Served(page, calls, kind) \/ Forgotten(page, unanswered, kind) => Forgotten(page, unanswered', kind)
    BY <1>1, <1>6, AbortedIsForgotten
  <2>2. QED BY <1>2, <1>4, <2>1 DEF UnderWay
<1>7. CASE kind \in {"workingTree"} \cup Historical
  <2>1. Ends(kind, page.requests[kind], Unavailable(root))
    BY <1>7 DEF Ends, IsReset, Unavailable
  <2>2. QED BY <1>4, <2>1 DEF UnderWay
<1>8. QED BY <1>5, <1>6, <1>7, PageAssumption DEF Versioned, Historical

LEMMA PublishingPosts ==
    ASSUME TypeInv, NEW byLoop \in BOOLEAN, PublishCurrentData(byLoop)
    PROVE  UNCHANGED toPage \/ \E m \in ExtensionMessages : Post(<<m>>)
<1>1. inProgress => activeRoot \in Roots /\ activeRoot # None
  BY DEF TypeInv, HostTypes
<1>2. Unavailable(workspace) \in ExtensionMessages /\ (inProgress => Started(activeRoot) \in ExtensionMessages)
  BY <1>1, TypesOfMessages DEF TypeInv, HostTypes
<1>3. \/ inProgress /\ Post(IF activeRoot = None THEN <<>> ELSE <<Started(activeRoot)>>)
      \/ Post(<<Unavailable(workspace)>>)
      \/ UNCHANGED toPage
  BY DEF PublishCurrentData, Silent
<1>4. QED BY <1>1, <1>2, <1>3

LEMMA WaitingPublish ==
    ASSUME TypeInv, WaitingInv, Publish
    PROVE  WaitingInv'
<1>1. UNCHANGED <<view, page, toHost, calls, unanswered>>
  BY DEF Publish, PublicationLoop, PostSnapshot, PostComplete, requestVars, pageVars
<1>2. UNCHANGED toPage \/ \E m \in ExtensionMessages : Post(<<m>>)
  <2>1. CASE PublicationLoop
    BY <2>1, PublishingPosts DEF PublicationLoop
  <2>2. CASE PostSnapshot
    <3>1. PICK p \in publications : Post(<<Snapshot(p)>>) \/ Post(<<Message("analysisError")>>) \/ UNCHANGED toPage
      BY <2>2 DEF PostSnapshot, Silent
    <3>2. p \in Publications
      BY DEF TypeInv, HostTypes
    <3>3. QED BY <3>1, <3>2, TypesOfMessages
  <2>3. CASE PostComplete
    BY <2>3, TypesOfMessages DEF PostComplete
  <2>4. QED BY <2>1, <2>2, <2>3 DEF Publish
<1>3. QED BY <1>1, <1>2, WaitingKept

LEMMA WaitingAnalysis ==
    ASSUME TypeInv, RequestsInv, NoFolderInv, WaitingInv,
           EndAnalysis \/ StartAnalysis \/ Restore \/ AnalyzeHistoricalTree
    PROVE  WaitingInv'
<1>1. UNCHANGED <<workspace, view, page, toHost>>
  BY DEF EndAnalysis, Complete, Fail, Supersede, StartAnalysis, Restore, AnalyzeHistoricalTree, serviceVars, pageVars
<1>2. CASE StartAnalysis \/ AnalyzeHistoricalTree
  <2>1. OnScanning
    BY <1>2 DEF StartAnalysis, Analyze, AnalyzeHistoricalTree
  <2>2. QED BY <1>1, <2>1, WaitingScanning
<1>3. CASE EndAnalysis \/ Restore
  <2>1. UNCHANGED <<calls, unanswered>> /\ (UNCHANGED toPage \/ Post(<<Message("analysisError")>>))
    BY <1>3 DEF Restore, EndAnalysis, Supersede, Complete, Fail, OnFailed, OnComplete, requestVars, Silent
  <2>2. QED BY <1>1, <2>1, TypesOfMessages, WaitingKept
<1>4. QED BY <1>2, <1>3

\* What the provider is asked for is passed to the service or refused.
LEMMA WaitingRequest ==
    ASSUME TypeInv, RequestsInv, WaitingInv, HandleRequest
    PROVE  WaitingInv'
<1> DEFINE m == Head(toHost)
           error == Answer(m, "error", m.parent)
<1>1. /\ UNCHANGED <<view, page, unanswered>> /\ toHost # <<>> /\ toHost' = Tail(toHost)
      /\ toHost \in Seq(WebviewMessages)
  BY DEF HandleRequest, Receive, pageVars, TypeInv, QueueTypes
<1>2. MessageOK(m) /\ m.type = "request"
  BY TypesOfReceived DEF HandleRequest, TypeInv
<1>3. m.kind \in Kinds /\ m.id \in Nat /\ m.version \in Nat /\ m.parent \in Parents \cup {None}
      /\ (m.parent = None \/ m.kind = "commit")
  BY <1>2, WebviewMessageTypes DEF MessageOK
<1>4. error \in ExtensionMessages
  BY <1>3, TypesOfAnswers
<1>5. /\ AskOK(page, m)
      /\ \A id, kind : Precedes(page, toHost, id, kind) /\ m.kind = kind => id <= m.id
  BY <1>1, <1>2, QueueTail DEF RequestsInv, RequestsOK
<1>6. \/ Serve(m)
      \/ Refuse(m) /\ UNCHANGED <<calls, active>>
      \/ Refuse(m) /\ Cancel({m.kind})
      \/ Refuse(m) /\ calls' = {c \in calls : c.kind # m.kind}
  BY Handled
<1> SUFFICES ASSUME view = "running", NEW kind \in Kinds, page.requests[kind].status = "loading"
             PROVE  UnderWay(page, toHost', calls', toPage', unanswered, kind)
  BY <1>1 DEF WaitingInv
<1> DEFINE r == page.requests[kind]
<1>7. UnderWay(page, toHost, calls, toPage, unanswered, kind)
  BY DEF WaitingInv
<1>8. Asked(page, toHost, kind) => Asked(page, toHost', kind) \/ (m.kind = kind /\ m.id = r.id)
  BY <1>1, AskedTail
<1>9. Ending(page, toPage, kind) => Ending(page, toPage', kind)
  BY <1>4, <1>6, EndingPosted DEF Serve, Refuse, Silent
<1>10. ASSUME Served(page, calls, kind)
       PROVE  Served(page, calls', kind) \/ (m.kind = kind /\ m.id = r.id)
  <2>1. PICK c \in calls : c.kind = kind /\ c.id = r.id
    BY <1>10 DEF Served
  <2>2. CASE m.kind # kind
    <3>1. c \in calls'
      BY <1>6, <2>1, <2>2, CancelIs DEF Serve
    <3>2. QED BY <2>1, <3>1 DEF Served
  <2>3. CASE m.kind = kind
    <3>1. Precedes(page, toHost, c.id, c.kind)
      BY DEF RequestsInv, RequestsOK, CallsOK
    <3>2. r.id <= m.id /\ m.id <= r.id
      BY <1>5, <2>1, <2>3, <3>1 DEF AskOK
    <3>3. r.id \in Nat
      BY RequestIds DEF TypeInv, PageTypes
    <3> HIDE DEF r, m
    <3>4. r.id = m.id
      BY <1>3, <3>2, <3>3
    <3>5. QED BY <2>3, <3>4
  <2>4. QED BY <2>2, <2>3
<1>11. ASSUME m.kind = kind, m.id = r.id
       PROVE  Served(page, calls', kind) \/ Ending(page, toPage', kind)
  <2>1. CASE Serve(m)
    <3>1. Call(m) \in calls' /\ Call(m).kind = kind /\ Call(m).id = r.id
      BY <1>11, <2>1 DEF Serve, Call
    <3>2. QED BY <3>1 DEF Served
  <2>2. CASE Refuse(m)
    <3>1. m.version = r.version /\ m.parent = r.parent
      BY <1>5, <1>11 DEF AskOK
    <3>2. Ends(kind, r, error)
      BY <1>11, <3>1 DEF Ends, IsAnswer, MatchesParent, Answer
    <3>3. QED BY <1>4, <2>2, <3>2, EndingPosted DEF Refuse
  <2>3. QED BY <1>6, <2>1, <2>2
<1> HIDE DEF m, r
<1>12. QED BY <1>7, <1>8, <1>9, <1>10, <1>11 DEF UnderWay

\* What is cancelled is not waited for.
LEMMA WaitingCancel ==
    ASSUME TypeInv, RequestsInv, WaitingInv, HandleCancel
    PROVE  WaitingInv'
<1> DEFINE m == Head(toHost)
<1>1. /\ UNCHANGED <<view, page, unanswered, toPage>> /\ toHost # <<>> /\ toHost' = Tail(toHost)
      /\ toHost \in Seq(WebviewMessages) /\ m.type = "cancel"
  BY DEF HandleCancel, Receive, pageVars, TypeInv, QueueTypes
<1>2. UNCHANGED calls \/ (active[m.kind] = m.id /\ Cancel({m.kind}))
  BY DEF HandleCancel
<1>3. CancelOK(page, m)
  BY <1>1, QueueTail DEF RequestsInv, RequestsOK
<1>4. m.kind \in Cancellable
  <2>1. MessageOK(m)
    BY TypesOfReceived DEF HandleCancel, TypeInv
  <2>2. QED BY <1>1, <2>1 DEF MessageOK
<1> SUFFICES ASSUME view = "running", NEW kind \in Kinds, page.requests[kind].status = "loading"
             PROVE  UnderWay(page, toHost', calls', toPage, unanswered, kind)
  BY <1>1 DEF WaitingInv
<1>5. UnderWay(page, toHost, calls, toPage, unanswered, kind)
  BY DEF WaitingInv
<1>6. Asked(page, toHost, kind) => Asked(page, toHost', kind)
  BY <1>1, AskedTail
<1>7. ASSUME Served(page, calls, kind) PROVE Served(page, calls', kind)
  <2>1. PICK c \in calls : c.kind = kind /\ c.id = page.requests[kind].id
    BY <1>7 DEF Served
  <2>2. CASE m.kind = kind /\ active[m.kind] = m.id
    <3>1. active[kind] = c.id
      BY <1>4, <2>1, <2>2 DEF RequestsInv, RequestsOK, CallsOK
    <3>2. QED BY <1>3, <2>1, <2>2, <3>1 DEF CancelOK
  <2>3. CASE ~(m.kind = kind /\ active[m.kind] = m.id)
    <3>1. c \in calls'
      BY <1>2, <2>1, <2>3, CancelIs
    <3>2. QED BY <2>1, <3>1 DEF Served
  <2>4. QED BY <2>2, <2>3
<1>8. QED BY <1>5, <1>6, <1>7 DEF UnderWay

LEMMA WaitingHandle ==
    ASSUME TypeInv, RequestsInv, NoFolderInv, WaitingInv, Handle
    PROVE  WaitingInv'
<1>1. UNCHANGED <<workspace, view, page>> /\ toHost # <<>> /\ toHost' = Tail(toHost)
  BY DEF Handle, HandleReady, HandleAnalyze, HandleRequest, HandleCancel, HandleOpen, Receive, serviceVars, pageVars
<1>2. CASE HandleReady
  <2>1. UNCHANGED <<calls, unanswered>> /\ PublishCurrentData(FALSE) /\ Head(toHost).type # "request"
    BY <1>2 DEF HandleReady, Receive, requestVars
  <2>2. QED BY <1>1, <2>1, PublishingPosts, WaitingKept
<1>3. CASE HandleAnalyze
  <2>1. Head(toHost).type # "request"
    BY <1>3 DEF HandleAnalyze, Receive
  <2>2. CASE OnScanning
    BY <1>1, <2>1, <2>2, WaitingScanning
  <2>3. CASE ~OnScanning
    <3>1. UNCHANGED <<calls, unanswered>> /\ (UNCHANGED toPage \/ Post(<<Message("analysisError")>>))
      BY <1>3, <2>3 DEF HandleAnalyze, Analyze, Silent
    <3>2. QED BY <1>1, <2>1, <3>1, TypesOfMessages, WaitingKept
  <2>4. QED BY <2>2, <2>3
<1>4. CASE HandleOpen
  <2>1. UNCHANGED <<calls, unanswered, toPage>> /\ Head(toHost).type # "request"
    BY <1>4 DEF HandleOpen, Receive
  <2>2. QED BY <1>1, <2>1, WaitingKept
<1>5. QED BY <1>2, <1>3, <1>4, WaitingRequest, WaitingCancel DEF Handle

\* What the service answers is what the page waits for, or the request is left.
LEMMA WaitingAnswering ==
    ASSUME TypeInv, RequestsInv, WaitingInv, Answering
    PROVE  WaitingInv'
<1>1. UNCHANGED <<view, page, toHost>>
  BY DEF Answering, AnswerRequest, OpenTarget, pageVars
<1>2. CASE OpenTarget
  <2>1. UNCHANGED <<calls, toPage, unanswered>>
    BY <1>2 DEF OpenTarget
  <2>2. QED BY <1>1, <2>1, WaitingKept
<1>3. CASE AnswerRequest
  <2>1. PICK c \in calls :
          /\ c \in Parented
          /\ \/ /\ calls' = calls \ {c}
                /\ \E outcome, parent :
                     /\ \/ (parent = c.parent \/ c.parent = None) /\ UNCHANGED unanswered
                        \/ Leaves(c)
                     /\ Answer(c, outcome, parent) \in ExtensionMessages
                     /\ Post(<<Answer(c, outcome, parent)>>)
             \/ /\ calls' = (calls \ {c}) \cup {[c EXCEPT !.step = "parents"]}
                /\ UNCHANGED <<toPage, unanswered>>
             \/ calls' = calls \ {c} /\ Leaves(c) /\ UNCHANGED toPage
    BY <1>3, ServiceAnswers
  <2> SUFFICES ASSUME view = "running", NEW kind \in Kinds, page.requests[kind].status = "loading"
               PROVE  UnderWay(page, toHost, calls', toPage', unanswered', kind)
    BY <1>1 DEF WaitingInv
  <2> DEFINE r == page.requests[kind]
  <2>2. UnderWay(page, toHost, calls, toPage, unanswered, kind)
    BY DEF WaitingInv
  <2>3. Ending(page, toPage, kind) => Ending(page, toPage', kind)
    BY <2>1, EndingPosted
  <2>4. c.kind \in Kinds /\ c.id \in Nat /\ r.id \in Nat /\ None \notin Nat
    BY <2>1, PageAssumption, RequestIds DEF Parented, TypeInv, PageTypes
  <2>5. unanswered \in [Kinds -> Nat \cup {None}]
    BY DEF RequestsInv, RequestsOK, LeftOK
  <2>6. Leaves(c) => unanswered'[kind] = IF kind = c.kind THEN c.id ELSE unanswered[kind]
    BY <2>4, <2>5 DEF Leaves
  <2>7. ASSUME Forgotten(page, unanswered, kind)
        PROVE  Forgotten(page, unanswered', kind)
    <3>1. CASE UNCHANGED unanswered
      BY <2>7, <3>1 DEF Forgotten
    <3>2. CASE Leaves(c) /\ kind = c.kind
      <4>1. kind \in Cancellable /\ unanswered[kind] = r.id /\ unanswered[kind] # None
        BY <2>4, <2>7, <3>2 DEF Leaves, Forgotten
      <4>2. active[kind] = c.id /\ c.id <= r.id
        BY <3>2, <4>1 DEF RequestsInv, RequestsOK, CallsOK, Precedes
      <4>3. unanswered[kind] <= c.id
        BY <2>4, <4>1, <4>2 DEF RequestsInv, RequestsOK, LeftOK
      <4> HIDE DEF r
      <4>4. c.id = r.id
        BY <2>4, <4>1, <4>2, <4>3
      <4>5. QED BY <2>6, <3>2, <4>4 DEF Forgotten, r
    <3>3. CASE Leaves(c) /\ kind # c.kind
      BY <2>6, <2>7, <3>3 DEF Forgotten
    <3>4. QED BY <2>1, <3>1, <3>2, <3>3
  <2>8. ASSUME Served(page, calls, kind)
        PROVE  Served(page, calls', kind) \/ Ending(page, toPage', kind) \/ Forgotten(page, unanswered', kind)
    <3>1. PICK d \in calls : d.kind = kind /\ d.id = r.id
      BY <2>8 DEF Served
    <3>2. CASE d # c
      BY <2>1, <3>1, <3>2 DEF Served
    <3>3. CASE d = c /\ calls' = (calls \ {c}) \cup {[c EXCEPT !.step = "parents"]}
      <4> DEFINE e == [c EXCEPT !.step = "parents"]
      <4>1. e \in calls' /\ e.kind = c.kind /\ e.id = c.id
        BY <2>1, <3>3 DEF Parented
      <4> HIDE DEF e
      <4>2. QED BY <3>1, <3>3, <4>1 DEF Served
    <3>4. CASE d = c /\ Leaves(c)
      BY <2>6, <3>1, <3>4 DEF Forgotten
    <3>5. CASE d = c /\ \E outcome, parent :
                     /\ parent = c.parent \/ c.parent = None
                     /\ Answer(c, outcome, parent) \in ExtensionMessages
                     /\ Post(<<Answer(c, outcome, parent)>>)
      <4>1. PICK outcome, parent :
                     /\ parent = c.parent \/ c.parent = None
                     /\ Answer(c, outcome, parent) \in ExtensionMessages
                     /\ Post(<<Answer(c, outcome, parent)>>)
        BY <3>5
      <4>2. c.kind = kind /\ c.id = r.id /\ c.version = r.version /\ c.parent = r.parent
        BY <3>1, <3>5 DEF RequestsInv, RequestsOK, CallsOK, AskOK
      <4>3. Ends(kind, r, Answer(c, outcome, parent))
        BY <4>1, <4>2 DEF Ends, IsAnswer, MatchesParent, Answer
      <4>4. QED BY <4>1, <4>3, EndingPosted
    <3>6. QED BY <2>1, <3>2, <3>3, <3>4, <3>5
  <2>9. QED BY <2>2, <2>3, <2>7, <2>8 DEF UnderWay
<1>4. QED BY <1>2, <1>3 DEF Answering

\* A message that does not end the waiting leaves the one that will.
LEMMA WaitingReceive ==
    ASSUME TypeInv, WaitingInv, ReceiveMessage
    PROVE  WaitingInv'
<1> DEFINE m == Head(toPage)
           t == Tail(toPage)
<1>1. /\ UNCHANGED <<toHost, calls, unanswered, view>> /\ page' = Reduce(page, m) /\ toPage' = t
      /\ toPage # <<>> /\ toPage \in Seq(ExtensionMessages) /\ PageTypes
  BY DEF ReceiveMessage, TypeInv, QueueTypes, requestVars
<1>2. /\ m \in ExtensionMessages /\ m = toPage[1]
      /\ \A i \in DOMAIN toPage : i = 1 \/ (i - 1 \in DOMAIN t /\ t[i - 1] = toPage[i])
  BY <1>1, TailAt
<1> HIDE DEF m, t
<1> SUFFICES ASSUME view = "running", NEW kind \in Kinds, page'.requests[kind].status = "loading"
             PROVE  UnderWay(page', toHost, calls, toPage', unanswered, kind)
  BY <1>1 DEF WaitingInv
<1> DEFINE r == page.requests[kind]
<1>3. r \in RequestStates /\ page'.requests[kind] = ReduceRequest(kind, r, m)
  BY <1>1, <1>2, Reduced
<1>4. page'.requests[kind] = r /\ ~IsReset(kind, r, m) /\ ~IsAnswer(kind, r, m)
  BY <1>2, <1>3, ReducedRequest
<1>5. UnderWay(page, toHost, calls, toPage, unanswered, kind)
  BY <1>4 DEF WaitingInv
<1>6. Ending(page, toPage, kind) => Ending(page', toPage', kind)
  <2> SUFFICES ASSUME NEW i \in DOMAIN toPage, Ends(kind, r, toPage[i])
               PROVE  \E j \in DOMAIN t : Ends(kind, r, t[j])
    BY <1>1, <1>4 DEF Ending
  <2>1. i # 1
    BY <1>2, <1>4 DEF Ends
  <2>2. QED BY <1>2, <2>1
<1>7. QED BY <1>4, <1>5, <1>6 DEF UnderWay, Asked, Served, Forgotten

LEMMA WaitingUser ==
    ASSUME TypeInv, WaitingInv, User
    PROVE  WaitingInv'
<1>1. /\ view = "running" /\ UNCHANGED <<view, toPage, calls, unanswered>> /\ toHost \in Seq(WebviewMessages)
      /\ page' \in Pages
  BY UserActs DEF requestVars, TypeInv, QueueTypes
<1> SUFFICES ASSUME NEW kind \in Kinds, page'.requests[kind].status = "loading"
             PROVE  UnderWay(page', toHost', calls, toPage, unanswered, kind)
  BY <1>1 DEF WaitingInv
<1>2. ASSUME NEW m \in WebviewMessages, toHost' = toHost \o <<m>> \/ toHost' = toHost,
             page'.requests[kind] = page.requests[kind]
      PROVE  UnderWay(page', toHost', calls, toPage, unanswered, kind)
  <2>1. UnderWay(page, toHost, calls, toPage, unanswered, kind)
    BY <1>1, <1>2 DEF WaitingInv
  <2>2. Asked(page, toHost, kind) => Asked(page', toHost', kind)
    <3>1. CASE toHost' = toHost
      BY <1>2, <3>1 DEF Asked
    <3>2. CASE toHost' = toHost \o <<m>>
      BY <1>1, <1>2, <3>2, AskedSent
    <3>3. QED BY <1>2, <3>1, <3>2
  <2>3. QED BY <1>2, <2>1, <2>2 DEF UnderWay, Served, Ending, Forgotten
<1>3. CASE /\ UNCHANGED page
           /\ \E type \in {"requestAnalysis", "requestRefresh", "openWorkspaceTarget"} :
                 toHost' = toHost \o <<Message(type)>>
  <2>1. \A type \in {"requestAnalysis", "requestRefresh", "openWorkspaceTarget"} : Message(type) \in WebviewMessages
    BY DEF Message, WebviewMessages
  <2>2. QED BY <1>2, <1>3, <2>1
<1>4. \A k \in Kinds : page.requests[k] \in RequestStates /\ page'.requests[k] \in RequestStates
  BY <1>1 DEF Pages, TypeInv, PageTypes
<1>5. ASSUME NEW k \in Kinds, \A l \in Kinds \ {k} : page'.requests[l] = page.requests[l],
             toHost' = toHost \o <<RequestMessage(k, page'.requests[k])>>
      PROVE  UnderWay(page', toHost', calls, toPage, unanswered, kind)
  <2> DEFINE m == RequestMessage(k, page'.requests[k])
  <2>1. m \in WebviewMessages /\ m.type = "request" /\ m.kind = k /\ m.id = page'.requests[k].id
    BY <1>4 DEF RequestMessage, RequestStates, WebviewMessages
  <2>2. toHost' = toHost \o <<m>>
    BY <1>5
  <2> HIDE DEF m
  <2>3. CASE k = kind
    BY <1>1, <2>1, <2>2, <2>3, AskedSent DEF UnderWay
  <2>4. CASE k # kind
    BY <1>2, <1>5, <2>1, <2>2, <2>4
  <2>5. QED BY <2>3, <2>4
<1>6. ASSUME NEW k \in Kinds, \A l \in Kinds \ {k} : page'.requests[l] = page.requests[l],
             page'.requests[k].status \in {"idle", "cancelled"},
             toHost' \in {toHost, toHost \o <<CancelMessage(k)>>}
      PROVE  UnderWay(page', toHost', calls, toPage, unanswered, kind)
  <2>1. CancelMessage(k) \in WebviewMessages
    BY <1>4 DEF CancelMessage, RequestStates, WebviewMessages
  <2>2. page'.requests[kind] = page.requests[kind]
    BY <1>6
  <2>3. toHost' = toHost \o <<CancelMessage(k)>> \/ toHost' = toHost
    BY <1>6
  <2>4. QED BY <1>2, <2>1, <2>2, <2>3
<1>7. QED BY <1>3, <1>5, <1>6, UserActs

LEMMA WaitingView ==
    ASSUME TypeInv, WaitingInv, Show \/ Hide \/ Close
    PROVE  WaitingInv'
<1>1. CASE Show
  <2>1. \A kind \in Kinds : page'.requests[kind].status = "loading" => Asked(page', toHost', kind)
    BY <1>1, ShownAgain DEF Asked
  <2>2. QED BY <2>1 DEF WaitingInv, UnderWay
<1>2. CASE Hide \/ Close
  BY <1>2 DEF Hide, Close, WaitingInv
<1>3. QED BY <1>1, <1>2

LEMMA WaitingNext ==
    TypeInv /\ RequestsInv /\ NoFolderInv /\ WaitingInv /\ [Next]_vars => WaitingInv'
<1> SUFFICES ASSUME TypeInv, RequestsInv, NoFolderInv, WaitingInv, [Next]_vars PROVE WaitingInv'
  OBVIOUS
<1>1. CASE UNCHANGED vars
  BY <1>1 DEF vars, requestVars, pageVars, WaitingInv
<1>2. QED BY <1>1, WaitingAnalysis, WaitingSwitch, WaitingView, WaitingUser, WaitingPublish, WaitingHandle,
             WaitingAnswering, WaitingReceive DEF Next, Environment

\* A request the page shows as loading is not forgotten, in whatever order requests,
\* cancellations, analyses, folders and new pages come (the handlers of the
\* SidebarProvider and the reducers of the webview): it is on its way to the provider,
\* the service works on it, or what ends the waiting is on its way back.  The
\* exceptions are the requests that are left unanswered: an impact aborted by another
\* folder, a commit or range whose promise was rejected, and a commit with a selected
\* parent for which parents are offered again.
THEOREM LoadingIsNotForgotten == Spec => []LoadingIsAnswered
<1>1. Init => BesideAnalysis /\ NoFolderInv /\ WaitingInv
  <2>1. Init => BesideAnalysis
    BY DEF Init, NewPage, InitialAnalysis, NoRepository, NoRequest, BesideAnalysis
  <2>2. Init => WaitingInv
    BY DEF Init, WaitingInv
  <2>3. QED BY <2>1, <2>2, NoFolderInit
<1>2. TypeInv /\ BesideAnalysis /\ RequestsInv /\ NoFolderInv /\ WaitingInv /\ [Next]_vars =>
         (BesideAnalysis /\ RequestsInv /\ NoFolderInv /\ WaitingInv)'
  BY BesideNext, RequestsNext, NoFolderNext, WaitingNext
<1>3. Spec => []WaitingInv
  BY <1>1, <1>2, RequestsInit, TypesHoldAlways, PTL DEF Spec
<1>4. WaitingInv => LoadingIsAnswered
  BY DEF WaitingInv, LoadingIsAnswered, UnderWay, Asked, Served, Ending, Ends, Forgotten, InSequence
<1>5. QED BY <1>3, <1>4, PTL
=================================================================================
