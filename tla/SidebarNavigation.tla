-------------------------- MODULE SidebarNavigation ---------------------------
(***************************************************************************)
(* The route the sidebar shows.  The extension host (SidebarProvider) and  *)
(* the webview page (SidebarNavigationController) each keep one, numbered  *)
(* by a generation and a revision.  Commands navigate at the host, clicks  *)
(* navigate at the page, which shows the new route at once and asks the    *)
(* host for it.  VS Code destroys the page of a hidden sidebar and runs it *)
(* anew from the state it saved; a view that was closed is resolved again; *)
(* a restarted window has a new host and the saved state.                  *)
(***************************************************************************)
EXTENDS Integers, Sequences

CONSTANTS
    Routes,
    Overview,       \* the route of a host or page without any state
    MaxRevision,    \* Number.MAX_SAFE_INTEGER, as far as revisions go
    MaxActs,        \* bound: clicks, commands and restarts in a behaviour
    MaxMessages,    \* bound: undelivered messages of pages
    LosesPosted,    \* whether a page may be destroyed with posted messages
    None

ASSUME NavigationAssumption ==
    /\ Overview \in Routes
    /\ MaxRevision \in Nat
    /\ MaxActs \in Nat
    /\ MaxMessages \in Nat
    /\ LosesPosted \in BOOLEAN
    /\ None \notin Routes \cup Nat

VARIABLES
    \* the host
    navigation,           \* currentRoute, navigationGeneration, navigationRevision
    delivered,            \* deliveredNavigationRevision
    requestId,            \* navigationRequestId
    lastClientRequestId,
    authoritative,        \* hasAuthoritativeNavigation
    ready,                \* webviewReady
    deliveries,           \* posted navigations whose promise has not resolved
    \* the page and its saved state
    view,                 \* "closed", "hidden", "running"
    page,                 \* state, inFlight, queuedRoute, nextRequestId
    \* the messages between them
    toPage,
    toHost,
    \* the environment
    acts,
    collided              \* history: see HandleReady

hostVars == <<navigation, delivered, requestId, lastClientRequestId, authoritative, ready>>
vars == <<hostVars, deliveries, view, page, toPage, toHost, acts, collided>>

Versions == [generation : Nat, revision : 0 .. MaxRevision]
VersionOf(n) == [generation |-> n.generation, revision |-> n.revision]

IsNewer(v, w) ==
    \/ v.generation > w.generation
    \/ v.generation = w.generation /\ v.revision > w.revision

NextVersion(v) ==
    IF v.revision = MaxRevision
      THEN [generation |-> v.generation + 1, revision |-> 0]
      ELSE [generation |-> v.generation, revision |-> v.revision + 1]

At(route, v) == [route |-> route, generation |-> v.generation, revision |-> v.revision]

InitialNavigation == [route |-> Overview, generation |-> 0, revision |-> 0]

InitialPage ==
    [state |-> InitialNavigation, inFlight |-> None, queuedRoute |-> None, nextRequestId |-> 0]

HostInit ==
    /\ navigation = InitialNavigation
    /\ delivered = -1
    /\ requestId = None
    /\ lastClientRequestId = -1
    /\ authoritative = FALSE
    /\ ready = FALSE

Init ==
    /\ HostInit
    /\ deliveries = {}
    /\ view = "closed"
    /\ page = InitialPage
    /\ toPage = <<>>
    /\ toHost = <<>>
    /\ acts = 0
    /\ collided = FALSE

-----------------------------------------------------------------------------
(* The extension host *)

\* Mutant: what is delivered in one generation counts in the next.
AcceptKeepingDelivered(route) ==
    /\ navigation' = At(route, NextVersion(navigation))
    /\ UNCHANGED delivered

\* acceptNavigation: one revision further, or the first one of a new generation,
\* of which nothing was delivered
Accept(route) ==
    /\ navigation' = At(route, NextVersion(navigation))
    /\ delivered' = IF navigation.revision = MaxRevision THEN -1 ELSE delivered

\* deliverNavigation up to its await.  Posting fails unless the page runs; what is
\* not delivered waits for the next navigation or the next page that is ready.
Deliver ==
    IF ready' /\ delivered' < navigation'.revision /\ view = "running"
      THEN /\ toPage' = Append(toPage, [navigation |-> navigation', requestId |-> requestId'])
           /\ deliveries' = deliveries \cup {VersionOf(navigation')}
      ELSE UNCHANGED <<toPage, deliveries>>

\* Mutant: a late success counts whatever was accepted since.
\* deliverNavigation after its await
Delivered ==
    \E v \in deliveries :
      /\ deliveries' = deliveries \ {v}
      /\ delivered' = IF v = VersionOf(navigation) /\ v.revision > delivered
                        THEN v.revision ELSE delivered
      /\ UNCHANGED <<navigation, requestId, lastClientRequestId, authoritative, ready,
                     view, page, toPage, toHost, acts, collided>>

\* The commands Open Architecture and Open Knowledge Graph
Command(route) ==
    /\ route # Overview
    /\ acts < MaxActs
    /\ acts' = acts + 1
    /\ authoritative' = TRUE
    /\ requestId' = None
    /\ Accept(route)
    /\ UNCHANGED <<lastClientRequestId, ready, view, page, toHost>>
    /\ Deliver
    /\ collided' = FALSE

\* Mutant: a page that is ahead is left alone.
ReconcileOnlyEqual(n) ==
    \/ /\ ~authoritative
       /\ navigation' = n
       /\ delivered' = n.revision
       /\ UNCHANGED collided
    \/ /\ authoritative
       /\ delivered' = IF n = navigation THEN n.revision ELSE delivered
       /\ collided' = (n # navigation /\ VersionOf(n) = VersionOf(navigation))
       /\ UNCHANGED navigation

\* restoreOrReconcileNavigation: a host without a navigation of its own takes the
\* page's; a page that is ahead of it is overtaken.  A page of the same version that
\* shows another route is told nothing it would accept: the history variable notes it.
RestoreOrReconcile(n) ==
    \/ /\ ~authoritative
       /\ navigation' = n
       /\ delivered' = n.revision
       /\ UNCHANGED collided
    \/ /\ authoritative
       /\ n = navigation
       /\ delivered' = n.revision
       /\ UNCHANGED <<navigation, collided>>
    \/ /\ authoritative
       /\ IsNewer(n, navigation)
       /\ navigation' = At(navigation.route, NextVersion(n))
       /\ delivered' = IF n.revision = MaxRevision THEN -1 ELSE delivered
       /\ collided' = FALSE
    \/ /\ authoritative
       /\ n # navigation
       /\ ~IsNewer(n, navigation)
       /\ collided' = (VersionOf(n) = VersionOf(navigation))
       /\ UNCHANGED <<navigation, delivered>>

HandleReady ==
    /\ toHost # <<>>
    /\ Head(toHost).type = "ready"
    /\ toHost' = Tail(toHost)
    /\ ready' = TRUE
    /\ RestoreOrReconcile(Head(toHost).navigation)
    /\ UNCHANGED <<requestId, lastClientRequestId, authoritative, view, page, acts>>
    /\ Deliver

\* A request counts when it was made on the route the host has and is not a
\* repetition.
IsCurrentRequest(m) ==
    /\ VersionOf(m.navigation) = VersionOf(navigation)
    /\ m.requestId > lastClientRequestId

HandleNavigateTo ==
    /\ toHost # <<>>
    /\ LET m == Head(toHost)
       IN  /\ m.type = "navigateTo"
           /\ toHost' = Tail(toHost)
           /\ \/ /\ IsCurrentRequest(m)
                 /\ authoritative' = TRUE
                 /\ lastClientRequestId' = m.requestId
                 /\ requestId' = m.requestId
                 /\ Accept(m.navigation.route)
                 /\ UNCHANGED <<ready, view, page, acts>>
                 /\ Deliver
                 /\ collided' = FALSE
              \/ /\ ~IsCurrentRequest(m)
                 /\ UNCHANGED <<hostVars, deliveries, view, page, toPage, acts, collided>>

-----------------------------------------------------------------------------
(* The page *)

\* sendRequest: navigationOfRequest carries the version the click was made on
Request(p, route) ==
    [type |-> "navigateTo", navigation |-> At(route, p.state), requestId |-> p.nextRequestId]

Sent(p, route) ==
    [p EXCEPT !.inFlight = [requestId |-> p.nextRequestId, navigation |-> At(route, p.state)],
              !.nextRequestId = @ + 1]

Click(route) ==
    /\ view = "running"
    /\ route # page.state.route
    /\ acts < MaxActs
    /\ acts' = acts + 1
    /\ LET p == [page EXCEPT !.state.route = route]
       IN  IF page.inFlight # None
             THEN /\ page' = [p EXCEPT !.queuedRoute = route]
                  /\ UNCHANGED toHost
             ELSE /\ page' = Sent(p, route)
                  /\ toHost' = Append(toHost, Request(p, route))
    /\ UNCHANGED <<hostVars, deliveries, view, toPage, collided>>

\* What receive makes of a navigation that is newer
Acknowledges(m) ==
    /\ page.inFlight # None
    /\ m.requestId = page.inFlight.requestId
    /\ VersionOf(m.navigation) = NextVersion(page.inFlight.navigation)

Receive ==
    /\ view = "running"
    /\ toPage # <<>>
    /\ toPage' = Tail(toPage)
    /\ LET m == Head(toPage)
           p == [page EXCEPT !.state = m.navigation, !.inFlight = None, !.queuedRoute = None]
           queued == page.queuedRoute
       IN  \/ /\ ~IsNewer(m.navigation, page.state)
              /\ UNCHANGED <<page, toHost>>
           \/ /\ IsNewer(m.navigation, page.state)
              /\ ~Acknowledges(m) \/ queued \in {None, m.navigation.route}
              /\ page' = p
              /\ UNCHANGED toHost
           \/ /\ IsNewer(m.navigation, page.state)
              /\ Acknowledges(m)
              /\ queued \notin {None, m.navigation.route}
              /\ LET q == [p EXCEPT !.state.route = queued]
                 IN  /\ page' = Sent(q, queued)
                     /\ toHost' = Append(toHost, Request(q, queued))
    /\ UNCHANGED <<hostVars, deliveries, view, acts, collided>>

\* The constructor and start: the saved state is announced, and the request that was
\* in flight is made again.  Every change was saved, so it is the page's last state.
Show ==
    /\ view = "hidden"
    /\ view' = "running"
    /\ LET announcement == [type |-> "ready", navigation |-> page.state]
       IN  toHost' = toHost \o <<announcement>> \o
             IF page.inFlight = None THEN <<>>
             ELSE <<[type |-> "navigateTo", navigation |-> page.inFlight.navigation,
                     requestId |-> page.inFlight.requestId]>>
    /\ UNCHANGED <<hostVars, deliveries, page, toPage, acts, collided>>

-----------------------------------------------------------------------------
(* VS Code and the user *)

Hide ==
    /\ view = "running"
    /\ LosesPosted \/ toPage = <<>>
    /\ Len(toHost) + 2 <= MaxMessages
    /\ view' = "hidden"
    /\ toPage' = <<>>
    /\ UNCHANGED <<hostVars, deliveries, page, toHost, acts, collided>>

\* resolveWebviewView
Resolve ==
    /\ view = "closed"
    /\ view' = "hidden"
    /\ ready' = FALSE
    /\ delivered' = -1
    /\ lastClientRequestId' = -1
    /\ UNCHANGED <<navigation, requestId, authoritative, deliveries, page, toPage, toHost,
                   acts, collided>>

\* onDidDispose: messages of a disposed view are ignored, deliveries to it too
Close ==
    /\ view # "closed"
    /\ view' = "closed"
    /\ ready' = FALSE
    /\ toPage' = <<>>
    /\ toHost' = <<>>
    /\ deliveries' = {}
    /\ UNCHANGED <<navigation, delivered, requestId, lastClientRequestId, authoritative, page,
                   acts, collided>>

\* The window is loaded again, with or without the state saved for the sidebar
RestartWindow ==
    /\ acts < MaxActs
    /\ acts' = acts + 1
    /\ navigation' = InitialNavigation
    /\ delivered' = -1
    /\ requestId' = None
    /\ lastClientRequestId' = -1
    /\ authoritative' = FALSE
    /\ ready' = FALSE
    /\ deliveries' = {}
    /\ view' = "closed"
    /\ page' \in {page, InitialPage}
    /\ toPage' = <<>>
    /\ toHost' = <<>>
    /\ collided' = FALSE

-----------------------------------------------------------------------------

UserAct ==
    \/ \E route \in Routes : Command(route) \/ Click(route)
    \/ Show \/ Hide \/ Resolve \/ Close \/ RestartWindow

MessageStep == HandleReady \/ HandleNavigateTo \/ Receive \/ Delivered

Next == UserAct \/ MessageStep

Spec == Init /\ [][Next]_vars

\* Messages are delivered in order and promises resolve
Fairness == WF_vars(HandleReady \/ HandleNavigateTo) /\ WF_vars(Receive) /\ WF_vars(Delivered)

FairSpec == Spec /\ Fairness

-----------------------------------------------------------------------------
(* Properties *)

Navigation == [route : Routes, generation : Nat, revision : 0 .. MaxRevision]

\* Types
NavigationTypeOK ==
    /\ navigation \in Navigation
    /\ delivered \in -1 .. MaxRevision
    /\ requestId \in Nat \cup {None}
    /\ lastClientRequestId \in Nat \cup {-1}
    /\ authoritative \in BOOLEAN
    /\ ready \in BOOLEAN
    /\ deliveries \subseteq Versions
    /\ view \in {"closed", "hidden", "running"}
    /\ page \in [state : Navigation,
                 inFlight : {None} \cup [requestId : Nat, navigation : Navigation],
                 queuedRoute : Routes \cup {None},
                 nextRequestId : Nat]
    /\ toPage \in Seq([navigation : Navigation, requestId : Nat \cup {None}])
    /\ \A i \in DOMAIN toHost :
          /\ toHost[i].type \in {"ready", "navigateTo"}
          /\ toHost[i].navigation \in Navigation
    /\ collided \in BOOLEAN

\* What the host takes for delivered, and will not post again, has reached the page
\* or is under way to it: a page that runs and has announced itself is not behind
\* (sidebar-provider.ts:1195-1222).  Holds where no page is destroyed with posted
\* messages unread (~LosesPosted), though VS Code does not promise that: the host then
\* takes for delivered what only the destroyed page was sent.
DeliveredReachesPage ==
    /\ view = "running"
    /\ ready
    /\ delivered >= navigation.revision
    => \/ ~IsNewer(navigation, page.state)
       \/ \E i \in DOMAIN toPage : VersionOf(toPage[i].navigation) = VersionOf(navigation)

\* Host and page agree on a version, no click waits for an answer that will not come,
\* and both have the same route - unless the page that was last ready had the host's
\* version and another route (navigation-state.ts:97-137).
Agrees ==
    view = "running" =>
      /\ VersionOf(page.state) = VersionOf(navigation)
      /\ page.inFlight = None
      /\ page.queuedRoute = None
      /\ ~collided => page.state.route = navigation.route

UserRests == <>[][~UserAct]_vars

\* The user leaving the sidebar alone is followed by agreement for good, through queued
\* clicks, lost requests, restarts and revisions that run over (navigation-state.ts,
\* sidebar-provider.ts:1141-1222).  Like DeliveredReachesPage it is claimed only where
\* ~LosesPosted: a posted navigation lost with its page would leave the next page behind.
RoutesConverge == UserRests => <>[]Agrees
=============================================================================
