----------------------- MODULE SidebarNavigation_proofs -----------------------
(***************************************************************************)
(* Proofs about the route of the sidebar, for any routes, any wrap-around  *)
(* of revisions and any number of acts: what the host takes for delivered  *)
(* has reached the page or is under way to it.                             *)
(***************************************************************************)
EXTENDS SidebarNavigation, TLAPS

-----------------------------------------------------------------------------
(* Types *)

Posts == [navigation : Navigation, requestId : Nat \cup {None}]

Announcements == [type : {"ready"}, navigation : Navigation]

Requests == [type : {"navigateTo"}, navigation : Navigation, requestId : Nat]

TypeInv ==
    /\ NavigationTypeOK
    /\ toHost \in Seq(Announcements \cup Requests)
    /\ acts \in Nat

\* The first version of a generation follows the last one of the generation before.
LEMMA VersionTypes ==
    /\ \A n \in Navigation : VersionOf(n) \in Versions /\ n.route \in Routes
                             /\ n.generation \in Nat /\ n.revision \in 0 .. MaxRevision
    /\ \A v \in Versions : NextVersion(v) \in Versions /\ v.generation \in Nat /\ v.revision \in 0 .. MaxRevision
    /\ \A n \in Navigation : NextVersion(n) \in Versions
    /\ \A route \in Routes, v \in Versions : At(route, v) \in Navigation /\ VersionOf(At(route, v)) = v
    /\ \A route \in Routes, n \in Navigation : At(route, n) \in Navigation /\ VersionOf(At(route, n)) = VersionOf(n)
    /\ InitialNavigation \in Navigation
BY NavigationAssumption DEF Navigation, Versions, VersionOf, NextVersion, At, InitialNavigation

\* Versions are ordered, by generation and revision.
LEMMA VersionOrder ==
    /\ \A a, b \in Versions \cup Navigation : VersionOf(a) = VersionOf(b) => ~IsNewer(a, b)
    /\ \A a, b, c \in Versions \cup Navigation : ~IsNewer(a, b) /\ ~IsNewer(b, c) => ~IsNewer(a, c)
    /\ \A a, b, c \in Versions \cup Navigation : VersionOf(a) = VersionOf(b) => (IsNewer(a, c) <=> IsNewer(b, c))
    /\ \A a, b, c \in Versions \cup Navigation : VersionOf(a) = VersionOf(b) => (IsNewer(c, a) <=> IsNewer(c, b))
    /\ \A a, b \in Versions \cup Navigation : IsNewer(a, b) => ~IsNewer(b, a)
    /\ \A a \in Versions \cup Navigation : IsNewer(NextVersion(a), a)
    /\ \A a \in Versions : VersionOf(a) = a
<1>1. \A a \in Versions \cup Navigation : a.generation \in Nat /\ a.revision \in 0 .. MaxRevision
  BY DEF Versions, Navigation
<1>2. QED BY <1>1, NavigationAssumption DEF VersionOf, IsNewer, NextVersion, Versions

\* A message that is taken from a queue
LEMMA TailAt ==
    ASSUME NEW S, NEW s \in Seq(S), s # <<>>
    PROVE  /\ Tail(s) \in Seq(S) /\ Head(s) \in S /\ 1 \in DOMAIN s /\ Head(s) = s[1]
           /\ \A i \in DOMAIN Tail(s) : i + 1 \in DOMAIN s /\ Tail(s)[i] = s[i + 1]
           /\ \A i \in DOMAIN s : i = 1 \/ (i - 1 \in DOMAIN Tail(s) /\ Tail(s)[i - 1] = s[i])
OBVIOUS

LEMMA NoMessage == ASSUME NEW S PROVE <<>> \in Seq(S) /\ DOMAIN <<>> = {}
OBVIOUS

LEMMA Undelivered == -1 \in -1 .. MaxRevision /\ -1 \in Nat \cup {-1} /\ -1 < 0
BY NavigationAssumption

LEMMA AppendAt ==
    ASSUME NEW S, NEW s \in Seq(S), NEW m \in S
    PROVE  /\ Append(s, m) \in Seq(S)
           /\ \A i \in DOMAIN s : i \in DOMAIN Append(s, m) /\ Append(s, m)[i] = s[i]
           /\ \A i \in DOMAIN Append(s, m) : Append(s, m)[i] = m \/ (i \in DOMAIN s /\ Append(s, m)[i] = s[i])
           /\ \E i \in DOMAIN Append(s, m) : Append(s, m)[i] = m
<1>1. Len(s) + 1 \in DOMAIN Append(s, m) /\ Append(s, m)[Len(s) + 1] = m
  OBVIOUS
<1>2. QED BY <1>1

-----------------------------------------------------------------------------
(* The order of messages *)

\* The page has a version or is about to.
Reaches(v) ==
    \/ ~IsNewer(v, page.state)
    \/ \E i \in DOMAIN toPage : VersionOf(toPage[i].navigation) = v

\* What the page announces is not newer than what it shows.
AnnouncedIsShown ==
    \A i \in DOMAIN toHost : toHost[i].type = "ready" => ~IsNewer(toHost[i].navigation, page.state)

\* Until a page has announced itself to a host that has accepted a navigation, nothing
\* is posted and the page changes no version.
NothingPosted ==
    ~ready \/ ~authoritative =>
        /\ toPage = <<>>
        /\ deliveries = {}
        /\ \A i \in DOMAIN toHost :
              toHost[i].type = "ready" => VersionOf(toHost[i].navigation) = VersionOf(page.state)

\* From then on the host is ahead of the page.
HostIsAhead ==
    ready =>
        /\ ~authoritative => VersionOf(navigation) = VersionOf(page.state)
        /\ ~IsNewer(page.state, navigation)
        /\ \A i \in DOMAIN toPage : ~IsNewer(toPage[i].navigation, navigation)

\* What counts as delivered is of the navigation or of an earlier one of its generation.
DeliveredInv ==
    /\ delivered <= navigation.revision
    /\ ~ready /\ view # "closed" => delivered = -1
    /\ \A v \in deliveries : Reaches(v)
    /\ view # "closed" /\ delivered >= navigation.revision => Reaches(VersionOf(navigation))

\* A view that is closed has no messages, and a page that is hidden none to read.
QuietView ==
    /\ view # "running" => toPage = <<>>
    /\ view = "closed" => ~ready /\ toHost = <<>> /\ deliveries = {}

DeliveryInv ==
    AnnouncedIsShown /\ NothingPosted /\ HostIsAhead /\ DeliveredInv /\ QuietView

-----------------------------------------------------------------------------
(* Steps *)

\* The types of what an acceptance or an announcement leaves
LEMMA TypesOfDeliver ==
    ASSUME TypeInv, Deliver, navigation' \in Navigation, requestId' \in Nat \cup {None}
    PROVE  deliveries' \subseteq Versions /\ toPage' \in Seq(Posts)
<1>1. toPage \in Seq(Posts) /\ deliveries \subseteq Versions
  BY DEF TypeInv, NavigationTypeOK, Posts
<1>2. VersionOf(navigation') \in Versions
  BY VersionTypes
<1>3. [navigation |-> navigation', requestId |-> requestId'] \in Posts
  BY DEF Posts
<1>4. QED BY <1>1, <1>2, <1>3, AppendAt DEF Deliver

LEMMA TypesOfAccept ==
    ASSUME TypeInv, NEW route \in Routes, Accept(route)
    PROVE  navigation' \in Navigation /\ delivered' \in -1 .. MaxRevision
           /\ VersionOf(navigation') = NextVersion(navigation)
<1>1. navigation \in Navigation /\ delivered \in -1 .. MaxRevision
  BY DEF TypeInv, NavigationTypeOK
<1>2. NextVersion(navigation) \in Versions
  BY <1>1, VersionTypes
<1>3. QED BY <1>1, <1>2, VersionTypes, NavigationAssumption DEF Accept

LEMMA TypesOfHead ==
    ASSUME TypeInv, toHost # <<>>
    PROVE  /\ Head(toHost) \in Announcements \cup Requests
           /\ Tail(toHost) \in Seq(Announcements \cup Requests)
           /\ Head(toHost).navigation \in Navigation
           /\ Head(toHost).type = "navigateTo" => Head(toHost).requestId \in Nat
<1>1. toHost \in Seq(Announcements \cup Requests)
  BY DEF TypeInv
<1>2. Head(toHost) \in Announcements \cup Requests /\ Tail(toHost) \in Seq(Announcements \cup Requests)
  BY <1>1, TailAt
<1>3. QED BY <1>2 DEF Announcements, Requests

LEMMA TypesOfReconcile ==
    ASSUME TypeInv, NEW n \in Navigation, RestoreOrReconcile(n)
    PROVE  /\ navigation' \in Navigation /\ delivered' \in -1 .. MaxRevision /\ collided' \in BOOLEAN
           /\ ~authoritative => navigation' = n /\ delivered' = n.revision
           /\ authoritative /\ IsNewer(n, navigation) =>
                 VersionOf(navigation') = NextVersion(n) /\ delivered' \in {delivered, -1}
           /\ authoritative /\ ~IsNewer(n, navigation) =>
                 /\ navigation' = navigation
                 /\ delivered' = delivered \/ (n = navigation /\ delivered' = n.revision)
<1>1. /\ navigation \in Navigation /\ delivered \in -1 .. MaxRevision /\ navigation.route \in Routes
      /\ collided \in BOOLEAN
  BY DEF TypeInv, NavigationTypeOK, Navigation
<1>2. /\ NextVersion(n) \in Versions /\ n.revision \in 0 .. MaxRevision
      /\ At(navigation.route, NextVersion(n)) \in Navigation
      /\ VersionOf(At(navigation.route, NextVersion(n))) = NextVersion(n)
  BY <1>1, VersionTypes
<1>3. n = navigation => ~IsNewer(n, navigation)
  BY <1>1, VersionOrder
<1>4. collided' \in BOOLEAN
  <2>1. \/ collided' = collided
        \/ collided' = FALSE
        \/ collided' = (VersionOf(n) = VersionOf(navigation))
    BY DEF RestoreOrReconcile
  <2>2. QED BY <1>1, <2>1
<1>5. CASE ~authoritative
  BY <1>1, <1>2, <1>4, <1>5, NavigationAssumption DEF RestoreOrReconcile
<1>6. CASE authoritative /\ IsNewer(n, navigation)
  <2>1. n # navigation
    BY <1>3, <1>6
  <2>2. /\ navigation' = At(navigation.route, NextVersion(n))
        /\ delivered' = IF n.revision = MaxRevision THEN -1 ELSE delivered
    BY <1>6, <2>1 DEF RestoreOrReconcile
  <2>3. QED BY <1>1, <1>2, <1>4, <1>6, <2>2, NavigationAssumption
<1>7. CASE authoritative /\ ~IsNewer(n, navigation)
  <2>1. navigation' = navigation /\ (delivered' = delivered \/ (n = navigation /\ delivered' = n.revision))
    BY <1>7 DEF RestoreOrReconcile
  <2>2. QED BY <1>1, <1>2, <1>4, <1>7, <2>1, NavigationAssumption
<1>8. QED BY <1>5, <1>6, <1>7

\* The messages a page sends and the page after it
LEMMA TypesOfPage ==
    ASSUME TypeInv, NEW route \in Routes,
           NEW p, p \in [state : Navigation,
                         inFlight : {None} \cup [requestId : Nat, navigation : Navigation],
                         queuedRoute : Routes \cup {None},
                         nextRequestId : Nat]
    PROVE  /\ Request(p, route) \in Requests
           /\ Sent(p, route) \in [state : Navigation,
                                  inFlight : {None} \cup [requestId : Nat, navigation : Navigation],
                                  queuedRoute : Routes \cup {None},
                                  nextRequestId : Nat]
           /\ Sent(p, route).state = p.state
<1>1. p.state \in Navigation /\ p.nextRequestId \in Nat
  OBVIOUS
<1>2. At(route, p.state) \in Navigation
  BY <1>1, VersionTypes
<1>3. Request(p, route) \in Requests
  BY <1>1, <1>2 DEF Request, Requests
<1>4. [requestId |-> p.nextRequestId, navigation |-> At(route, p.state)] \in [requestId : Nat, navigation : Navigation]
  BY <1>1, <1>2
<1>5. p.nextRequestId + 1 \in Nat
  BY <1>1
<1>6. QED BY <1>3, <1>4, <1>5 DEF Sent

-----------------------------------------------------------------------------
(* Every variable keeps its type *)

LEMMA TypesOfHost ==
    ASSUME TypeInv, (\E route \in Routes : Command(route)) \/ HandleReady \/ HandleNavigateTo \/ Delivered
    PROVE  TypeInv'
<1>1. CASE \E route \in Routes : Command(route)
  <2>1. PICK route \in Routes : Command(route)
    BY <1>1
  <2>2. navigation' \in Navigation /\ delivered' \in -1 .. MaxRevision
    BY <2>1, TypesOfAccept DEF Command
  <2>3. deliveries' \subseteq Versions /\ toPage' \in Seq(Posts)
    BY <2>1, <2>2, TypesOfDeliver DEF Command
  <2>4. /\ authoritative' = TRUE /\ requestId' = None /\ acts' = acts + 1 /\ collided' = FALSE
        /\ UNCHANGED <<lastClientRequestId, ready, view, page, toHost>>
    BY <2>1 DEF Command
  <2>5. toHost' \in Seq(Announcements \cup Requests) /\ acts' \in Nat
    BY <2>4 DEF TypeInv
  <2>6. authoritative' \in BOOLEAN /\ collided' \in BOOLEAN
    BY <2>4
  <2>7. QED BY <2>2, <2>3, <2>4, <2>5, <2>6 DEF TypeInv, NavigationTypeOK, Posts
<1>2. CASE HandleReady
  <2>1. /\ Tail(toHost) \in Seq(Announcements \cup Requests)
        /\ navigation' \in Navigation /\ delivered' \in -1 .. MaxRevision /\ collided' \in BOOLEAN
    BY <1>2, TypesOfHead, TypesOfReconcile DEF HandleReady
  <2>2. requestId' \in Nat \cup {None}
    BY <1>2 DEF HandleReady, TypeInv, NavigationTypeOK
  <2>3. deliveries' \subseteq Versions /\ toPage' \in Seq(Posts)
    BY <1>2, <2>1, <2>2, TypesOfDeliver DEF HandleReady
  <2>4. \A i \in DOMAIN toHost' : toHost'[i].type \in {"ready", "navigateTo"} /\ toHost'[i].navigation \in Navigation
    BY <1>2, <2>1 DEF HandleReady, Announcements, Requests
  <2>5. QED BY <1>2, <2>1, <2>2, <2>3, <2>4 DEF TypeInv, NavigationTypeOK, HandleReady, Posts
<1>3. CASE HandleNavigateTo
  <2>1. /\ toHost # <<>> /\ toHost' = Tail(toHost)
        /\ Head(toHost).type = "navigateTo"
    BY <1>3 DEF HandleNavigateTo
  <2>2. /\ Tail(toHost) \in Seq(Announcements \cup Requests)
        /\ Head(toHost).navigation.route \in Routes /\ Head(toHost).requestId \in Nat
    BY <2>1, TypesOfHead, VersionTypes
  <2>3. \A i \in DOMAIN toHost' : toHost'[i].type \in {"ready", "navigateTo"} /\ toHost'[i].navigation \in Navigation
    BY <2>1, <2>2 DEF Announcements, Requests
  <2>4. CASE IsCurrentRequest(Head(toHost))
    <3>1. navigation' \in Navigation /\ delivered' \in -1 .. MaxRevision
      BY <1>3, <2>2, <2>4, TypesOfAccept DEF HandleNavigateTo
    <3>2. deliveries' \subseteq Versions /\ toPage' \in Seq(Posts)
      BY <1>3, <2>2, <2>4, <3>1, TypesOfDeliver DEF HandleNavigateTo
    <3>3. QED BY <1>3, <2>1, <2>2, <2>3, <2>4, <3>1, <3>2 DEF TypeInv, NavigationTypeOK, HandleNavigateTo, Posts
  <2>5. CASE ~IsCurrentRequest(Head(toHost))
    BY <1>3, <2>1, <2>2, <2>3, <2>5 DEF TypeInv, NavigationTypeOK, HandleNavigateTo, hostVars
  <2>6. QED BY <2>4, <2>5
<1>4. CASE Delivered
  <2>1. PICK v \in deliveries : /\ deliveries' = deliveries \ {v}
                                /\ delivered' = IF v = VersionOf(navigation) /\ v.revision > delivered
                                                  THEN v.revision ELSE delivered
    BY <1>4 DEF Delivered
  <2>2. v.revision \in 0 .. MaxRevision
    BY <2>1, VersionTypes DEF TypeInv, NavigationTypeOK
  <2>3. delivered' \in -1 .. MaxRevision
    BY <2>1, <2>2, NavigationAssumption DEF TypeInv, NavigationTypeOK
  <2>4. QED BY <1>4, <2>1, <2>3 DEF TypeInv, NavigationTypeOK, Delivered
<1>5. QED BY <1>1, <1>2, <1>3, <1>4

LEMMA TypesOfThePage ==
    ASSUME TypeInv, (\E route \in Routes : Click(route)) \/ Receive \/ Show
    PROVE  TypeInv'
<1> DEFINE Pages == [state : Navigation,
                     inFlight : {None} \cup [requestId : Nat, navigation : Navigation],
                     queuedRoute : Routes \cup {None},
                     nextRequestId : Nat]
           Messages == Announcements \cup Requests
<1>1. page \in Pages /\ toHost \in Seq(Messages) /\ toPage \in Seq(Posts)
  BY DEF TypeInv, NavigationTypeOK, Posts
<1>2. SUFFICES page' \in Pages /\ toHost' \in Seq(Messages) /\ toPage' \in Seq(Posts)
  <2>1. ASSUME toHost' \in Seq(Messages)
        PROVE  \A i \in DOMAIN toHost' :
                  toHost'[i].type \in {"ready", "navigateTo"} /\ toHost'[i].navigation \in Navigation
    BY <2>1 DEF Announcements, Requests
  <2>2. UNCHANGED <<hostVars, deliveries, collided>> /\ view' \in {view, "running"} /\ acts' \in {acts, acts + 1}
    BY DEF Click, Receive, Show
  <2>3. QED BY <1>2, <2>1, <2>2 DEF TypeInv, NavigationTypeOK, Posts, hostVars
<1>3. CASE \E route \in Routes : Click(route)
  <2>1. PICK route \in Routes : Click(route)
    BY <1>3
  <2> DEFINE p == [page EXCEPT !.state.route = route]
  <2>2. p.state \in Navigation
    BY <1>1 DEF Navigation
  <2>3. p \in Pages
    BY <1>1, <2>2
  <2>4. [p EXCEPT !.queuedRoute = route] \in Pages
    BY <2>3
  <2>5. Sent(p, route) \in Pages /\ Request(p, route) \in Messages
    <3> HIDE DEF p
    <3>1. QED BY <2>3, TypesOfPage
  <2>6. page' \in {[p EXCEPT !.queuedRoute = route], Sent(p, route)}
        /\ toHost' \in {toHost, Append(toHost, Request(p, route))} /\ toPage' = toPage
    BY <2>1 DEF Click
  <2> HIDE DEF p
  <2>7. Append(toHost, Request(p, route)) \in Seq(Messages)
    BY <1>1, <2>5, AppendAt
  <2>8. QED BY <1>1, <2>4, <2>5, <2>6, <2>7
<1>4. CASE Receive
  <2> DEFINE m == Head(toPage)
             p == [page EXCEPT !.state = m.navigation, !.inFlight = None, !.queuedRoute = None]
             queued == page.queuedRoute
             q == [p EXCEPT !.state.route = queued]
  <2>1. toPage' = Tail(toPage) /\ toPage' \in Seq(Posts) /\ m \in Posts
    BY <1>1, <1>4, TailAt DEF Receive
  <2>2. p \in Pages
    BY <1>1, <2>1 DEF Posts
  <2>3. CASE page' = page /\ toHost' = toHost
    BY <1>1, <2>1, <2>3
  <2>4. CASE page' = p /\ toHost' = toHost
    BY <1>1, <2>1, <2>2, <2>4
  <2>5. CASE /\ queued \notin {None, m.navigation.route}
             /\ page' = Sent(q, queued) /\ toHost' = Append(toHost, Request(q, queued))
    <3>1. queued \in Routes
      BY <1>1, <2>5
    <3>2. q.state \in Navigation
      BY <2>2, <3>1 DEF Navigation
    <3>3. q \in Pages
      BY <2>2, <3>2
    <3> HIDE DEF p, q, queued
    <3>4. Sent(q, queued) \in Pages /\ Request(q, queued) \in Messages
      BY <3>1, <3>3, TypesOfPage
    <3>5. QED BY <1>1, <2>1, <2>5, <3>4, AppendAt
  <2>6. QED
    BY <1>4, <2>3, <2>4, <2>5 DEF Receive
<1>5. CASE Show
  <2>1. [type |-> "ready", navigation |-> page.state] \in Messages
    BY <1>1 DEF Announcements
  <2>2. page.inFlight # None =>
          [type |-> "navigateTo", navigation |-> page.inFlight.navigation, requestId |-> page.inFlight.requestId]
             \in Messages
    BY <1>1 DEF Requests
  <2>3. /\ page' = page /\ toPage' = toPage
        /\ \/ toHost' = toHost \o <<[type |-> "ready", navigation |-> page.state]>> \o <<>>
           \/ /\ page.inFlight # None
              /\ toHost' = toHost \o <<[type |-> "ready", navigation |-> page.state]>> \o
                    <<[type |-> "navigateTo", navigation |-> page.inFlight.navigation,
                       requestId |-> page.inFlight.requestId]>>
    BY <1>5 DEF Show
  <2> DEFINE first == [type |-> "ready", navigation |-> page.state]
             second == [type |-> "navigateTo", navigation |-> page.inFlight.navigation,
                        requestId |-> page.inFlight.requestId]
  <2> HIDE DEF Messages, first, second
  <2>4. \/ toHost' = toHost \o <<first>> \o <<>>
        \/ second \in Messages /\ toHost' = toHost \o <<first>> \o <<second>>
    BY <2>2, <2>3 DEF first, second
  <2>5. first \in Messages
    BY <2>1 DEF first
  <2>6. toHost' \in Seq(Messages)
    <3>1. toHost \o <<first>> \in Seq(Messages)
      BY <1>1, <2>5
    <3>2. <<>> \in Seq(Messages) /\ (second \in Messages => <<second>> \in Seq(Messages))
      BY NoMessage
    <3> DEFINE joined == toHost \o <<first>>
    <3> HIDE DEF joined
    <3>3. joined \in Seq(Messages) /\ (toHost' = joined \o <<>> \/ (second \in Messages /\ toHost' = joined \o <<second>>))
      BY <2>4, <3>1 DEF joined
    <3>4. QED BY <3>2, <3>3
  <2>7. QED BY <1>1, <2>3, <2>6
<1>6. QED BY <1>3, <1>4, <1>5

LEMMA TypesOfView ==
    ASSUME TypeInv, Hide \/ Resolve \/ Close \/ RestartWindow
    PROVE  TypeInv'
<1>1. InitialPage \in [state : Navigation,
                       inFlight : {None} \cup [requestId : Nat, navigation : Navigation],
                       queuedRoute : Routes \cup {None},
                       nextRequestId : Nat]
  BY VersionTypes DEF InitialPage
<1>2. NavigationTypeOK /\ toHost \in Seq(Announcements \cup Requests) /\ acts \in Nat
  BY DEF TypeInv
<1>3. CASE Hide
  BY <1>2, <1>3, NoMessage DEF Hide, TypeInv, NavigationTypeOK, hostVars
<1>4. CASE Resolve
  <2>1. ready' \in BOOLEAN /\ view' \in {"closed", "hidden", "running"}
    BY <1>4 DEF Resolve
  <2>2. delivered' \in -1 .. MaxRevision /\ lastClientRequestId' \in Nat \cup {-1}
    BY <1>4, Undelivered DEF Resolve
  <2>3. UNCHANGED <<navigation, requestId, authoritative, deliveries, page, toPage, toHost, acts, collided>>
    BY <1>4 DEF Resolve
  <2>4. QED BY <1>2, <2>1, <2>2, <2>3 DEF TypeInv, NavigationTypeOK
<1>5. CASE Close
  BY <1>2, <1>5, NoMessage DEF Close, TypeInv, NavigationTypeOK
<1>6. CASE RestartWindow
  <2>1. /\ ready' \in BOOLEAN /\ authoritative' \in BOOLEAN /\ collided' \in BOOLEAN
        /\ view' \in {"closed", "hidden", "running"} /\ deliveries' \subseteq Versions
    BY <1>6 DEF RestartWindow
  <2>2. /\ delivered' \in -1 .. MaxRevision /\ lastClientRequestId' \in Nat \cup {-1}
        /\ requestId' \in Nat \cup {None}
    BY <1>6, Undelivered DEF RestartWindow
  <2>3. toPage' \in Seq(Posts) /\ toHost' \in Seq(Announcements \cup Requests) /\ DOMAIN toHost' = {}
    BY <1>6, NoMessage DEF RestartWindow
  <2>4. navigation' \in Navigation /\ acts' \in Nat
    BY <1>2, <1>6, VersionTypes DEF RestartWindow
  <2>5. page' \in {page, InitialPage}
    BY <1>6 DEF RestartWindow
  <2>6. QED BY <1>1, <1>2, <2>1, <2>2, <2>3, <2>4, <2>5 DEF TypeInv, NavigationTypeOK, Posts
<1>7. QED BY <1>3, <1>4, <1>5, <1>6

LEMMA TypesNext == TypeInv /\ [Next]_vars => TypeInv'
<1>1. TypeInv /\ UNCHANGED vars => TypeInv'
  BY DEF vars, hostVars, TypeInv, NavigationTypeOK
<1>2. QED BY <1>1, TypesOfHost, TypesOfThePage, TypesOfView DEF Next, UserAct, MessageStep

LEMMA TypesInit == Init => TypeInv
<1> SUFFICES ASSUME Init PROVE TypeInv
  OBVIOUS
<1>1. /\ ready \in BOOLEAN /\ authoritative \in BOOLEAN /\ collided \in BOOLEAN
      /\ view \in {"closed", "hidden", "running"} /\ deliveries \subseteq Versions
      /\ requestId \in Nat \cup {None} /\ acts \in Nat
  BY DEF Init, HostInit
<1>2. delivered \in -1 .. MaxRevision /\ lastClientRequestId \in Nat \cup {-1}
  BY Undelivered DEF Init, HostInit
<1>3. toPage \in Seq(Posts) /\ toHost \in Seq(Announcements \cup Requests) /\ DOMAIN toHost = {}
  BY NoMessage DEF Init
<1>4. navigation \in Navigation /\ page = InitialPage /\ InitialNavigation \in Navigation
  BY VersionTypes DEF Init, HostInit
<1>5. QED BY <1>1, <1>2, <1>3, <1>4 DEF TypeInv, NavigationTypeOK, InitialPage, Posts

\* Host, page and messages keep their types, through restarts and new generations.
THEOREM NavigationTypesHold == Spec => []NavigationTypeOK
<1>1. TypeInv => NavigationTypeOK
  BY DEF TypeInv
<1>2. QED BY <1>1, TypesInit, TypesNext, PTL DEF Spec

-----------------------------------------------------------------------------
(* Every step keeps messages and deliveries in order *)

LEMMA NavigationTypes ==
    ASSUME TypeInv
    PROVE  /\ navigation \in Navigation /\ page.state \in Navigation
           /\ \A i \in DOMAIN toPage : toPage[i].navigation \in Navigation
           /\ \A i \in DOMAIN toHost : toHost[i].navigation \in Navigation
           /\ delivered \in -1 .. MaxRevision /\ deliveries \subseteq Versions
           /\ VersionOf(navigation) \in Versions
<1>1. navigation \in Navigation /\ delivered \in -1 .. MaxRevision /\ deliveries \subseteq Versions
  BY DEF TypeInv, NavigationTypeOK
<1>2. page.state \in Navigation
  BY DEF TypeInv, NavigationTypeOK
<1>3. \A i \in DOMAIN toPage : toPage[i].navigation \in Navigation
  <2>1. toPage \in Seq(Posts)
    BY DEF TypeInv, NavigationTypeOK, Posts
  <2>2. \A i \in DOMAIN toPage : toPage[i] \in Posts
    BY <2>1
  <2>3. QED BY <2>2 DEF Posts
<1>4. \A i \in DOMAIN toHost : toHost[i].navigation \in Navigation
  BY DEF TypeInv, NavigationTypeOK
<1>5. QED BY <1>1, <1>2, <1>3, <1>4, VersionTypes

\* A step of the host leaves the page alone and takes a message at most.
HostStep ==
    /\ UNCHANGED <<view, page>>
    /\ \A i \in DOMAIN toHost' : \E j \in DOMAIN toHost : toHost'[i] = toHost[j]
    /\ toHost = <<>> => toHost' = <<>>
    /\ ready => ready'
    /\ authoritative => authoritative'
    /\ ready' => ready \/ toHost # <<>>

\* What a step of the host that navigates or takes an announcement makes of its own
\* variables, before it posts: the navigation is one the page is not ahead of, and counts
\* as delivered only if the page has it.
Reconciled ==
    /\ ready' =>
          /\ ~IsNewer(page.state, navigation')
          /\ \A i \in DOMAIN toPage : ~IsNewer(toPage[i].navigation, navigation')
          /\ ~authoritative' =>
                VersionOf(navigation') = VersionOf(page.state) /\ delivered' >= navigation'.revision
    /\ delivered' <= navigation'.revision
    /\ ~ready' /\ view # "closed" => delivered' = -1
    /\ view # "closed" /\ delivered' >= navigation'.revision => Reaches(VersionOf(navigation'))

LEMMA DeliveryOfHost ==
    ASSUME TypeInv, TypeInv', DeliveryInv, HostStep, Reconciled, Deliver
    PROVE  DeliveryInv'
<1>1. AnnouncedIsShown'
  BY DEF HostStep, DeliveryInv, AnnouncedIsShown
<1>2. QuietView'
  BY DEF HostStep, DeliveryInv, QuietView, Deliver
<1>3. CASE UNCHANGED <<toPage, deliveries>>
  <2>1. NothingPosted'
    BY <1>3 DEF HostStep, DeliveryInv, NothingPosted
  <2>2. HostIsAhead'
    BY <1>3 DEF HostStep, Reconciled, HostIsAhead
  <2>3. DeliveredInv'
    BY <1>3 DEF HostStep, Reconciled, DeliveryInv, DeliveredInv, Reaches
  <2>4. QED BY <1>1, <1>2, <2>1, <2>2, <2>3 DEF DeliveryInv
<1>4. CASE ~UNCHANGED <<toPage, deliveries>>
  <2> DEFINE m == [navigation |-> navigation', requestId |-> requestId']
  <2>1. /\ ready' /\ delivered' < navigation'.revision /\ view = "running"
        /\ toPage' = Append(toPage, m)
        /\ deliveries' = deliveries \cup {VersionOf(navigation')}
    BY <1>4 DEF Deliver
  <2>2. navigation' \in Navigation /\ m \in Posts /\ toPage \in Seq(Posts) /\ m.navigation = navigation'
    BY DEF TypeInv, NavigationTypeOK, Posts
  <2> HIDE DEF m
  <2>3. /\ \A i \in DOMAIN toPage : i \in DOMAIN toPage' /\ toPage'[i] = toPage[i]
        /\ \A i \in DOMAIN toPage' : toPage'[i] = m \/ (i \in DOMAIN toPage /\ toPage'[i] = toPage[i])
        /\ \E i \in DOMAIN toPage' : toPage'[i] = m
    BY <2>1, <2>2, AppendAt
  <2>4. authoritative'
    BY <2>1, <2>2, NavigationAssumption DEF Reconciled, Navigation, TypeInv, NavigationTypeOK
  <2>5. NothingPosted'
    BY <2>1, <2>4 DEF NothingPosted
  <2>6. ~IsNewer(navigation', navigation')
    BY <2>2, VersionOrder
  <2>7. HostIsAhead'
    BY <2>1, <2>2, <2>3, <2>4, <2>6 DEF HostIsAhead, Reconciled, HostStep
  <2>8. \A v : Reaches(v) => Reaches(v)'
    BY <2>3 DEF Reaches, HostStep
  <2>9. Reaches(VersionOf(navigation))'
    BY <2>2, <2>3 DEF Reaches
  <2>10. DeliveredInv'
    BY <2>1, <2>8, <2>9 DEF DeliveredInv, DeliveryInv, Reconciled
  <2>11. QED BY <1>1, <1>2, <2>5, <2>7, <2>10 DEF DeliveryInv
<1>5. QED BY <1>3, <1>4

\* An accepted navigation is newer than all before and counts as not delivered.
LEMMA AcceptedIsNew ==
    ASSUME TypeInv, DeliveryInv, HostStep, ready' = ready, authoritative',
           NEW route \in Routes, Accept(route)
    PROVE  Reconciled
<1>1. /\ navigation \in Navigation /\ page.state \in Navigation
      /\ \A i \in DOMAIN toPage : toPage[i].navigation \in Navigation
      /\ delivered \in -1 .. MaxRevision
  BY NavigationTypes
<1>2. navigation' \in Navigation /\ VersionOf(navigation') = NextVersion(navigation) /\ NextVersion(navigation) \in Versions
  BY <1>1, TypesOfAccept, VersionTypes
<1>3. IsNewer(NextVersion(navigation), navigation) /\ VersionOf(NextVersion(navigation)) = NextVersion(navigation)
  BY <1>1, <1>2, VersionOrder
<1>4. ~IsNewer(navigation, navigation')
  BY <1>1, <1>2, <1>3, VersionOrder
<1>5. ready' => /\ ~IsNewer(page.state, navigation')
                /\ \A i \in DOMAIN toPage : ~IsNewer(toPage[i].navigation, navigation')
  BY <1>1, <1>2, <1>4, VersionOrder DEF DeliveryInv, HostIsAhead
<1>6. delivered' < navigation'.revision /\ (delivered = -1 => delivered' = -1)
  BY <1>1, NavigationAssumption DEF Accept, At, NextVersion, DeliveryInv, DeliveredInv, Navigation
<1>7. navigation'.revision \in Nat /\ delivered' \in Int
  BY <1>1, <1>2, NavigationAssumption DEF Navigation, Accept
<1>8. QED BY <1>5, <1>6, <1>7 DEF Reconciled, DeliveryInv, DeliveredInv

LEMMA DeliveryOfAccepting ==
    ASSUME TypeInv, TypeInv', DeliveryInv, (\E route \in Routes : Command(route)) \/ HandleNavigateTo
    PROVE  DeliveryInv'
<1>1. CASE \E route \in Routes : Command(route)
  <2>1. PICK route \in Routes : Command(route)
    BY <1>1
  <2>2. HostStep
    BY <2>1 DEF Command, HostStep
  <2>3. Reconciled
    BY <2>1, <2>2, AcceptedIsNew DEF Command
  <2>4. QED BY <2>1, <2>2, <2>3, DeliveryOfHost DEF Command
<1>2. CASE HandleNavigateTo
  <2>1. toHost # <<>> /\ toHost' = Tail(toHost) /\ toHost \in Seq(Announcements \cup Requests)
    BY <1>2 DEF HandleNavigateTo, TypeInv
  <2>2. \A i \in DOMAIN toHost' : i + 1 \in DOMAIN toHost /\ toHost'[i] = toHost[i + 1]
    BY <2>1, TailAt
  <2>3. CASE IsCurrentRequest(Head(toHost))
    <3>1. Head(toHost).navigation.route \in Routes
      BY <2>1, TypesOfHead, VersionTypes
    <3>2. HostStep
      BY <1>2, <2>1, <2>2, <2>3 DEF HandleNavigateTo, HostStep
    <3>3. Reconciled
      BY <1>2, <2>3, <3>1, <3>2, AcceptedIsNew DEF HandleNavigateTo
    <3>4. QED BY <1>2, <2>3, <3>2, <3>3, DeliveryOfHost DEF HandleNavigateTo
  <2>4. CASE ~IsCurrentRequest(Head(toHost))
    <3>1. UNCHANGED <<hostVars, deliveries, view, page, toPage>>
      BY <1>2, <2>4 DEF HandleNavigateTo
    <3>2. QED BY <2>1, <2>2, <3>1
          DEF hostVars, DeliveryInv, AnnouncedIsShown, NothingPosted, HostIsAhead, DeliveredInv, QuietView, Reaches
  <2>5. QED BY <2>3, <2>4
<1>3. QED BY <1>1, <1>2

\* A page that announces itself is never ahead of a host it already announced itself to.
LEMMA DeliveryOfReady ==
    ASSUME TypeInv, TypeInv', DeliveryInv, HandleReady
    PROVE  DeliveryInv'
<1> DEFINE n == Head(toHost).navigation
<1>1. /\ toHost # <<>> /\ toHost' = Tail(toHost) /\ toHost \in Seq(Announcements \cup Requests)
      /\ ready' = TRUE /\ RestoreOrReconcile(n) /\ n \in Navigation /\ view # "closed"
      /\ UNCHANGED <<authoritative, view, page>>
  BY TypesOfHead DEF HandleReady, TypeInv, DeliveryInv, QuietView
<1>2. /\ \A i \in DOMAIN toHost' : i + 1 \in DOMAIN toHost /\ toHost'[i] = toHost[i + 1]
      /\ 1 \in DOMAIN toHost /\ Head(toHost) = toHost[1]
  BY <1>1, TailAt
<1>3. HostStep
  BY <1>1, <1>2 DEF HostStep
<1>4. /\ ~IsNewer(n, page.state)
      /\ ~ready \/ ~authoritative => toPage = <<>> /\ VersionOf(n) = VersionOf(page.state)
  BY <1>2 DEF HandleReady, DeliveryInv, AnnouncedIsShown, NothingPosted
<1> HIDE DEF n
<1>5. /\ navigation \in Navigation /\ page.state \in Navigation /\ navigation' \in Navigation
      /\ \A i \in DOMAIN toPage : toPage[i].navigation \in Navigation
      /\ delivered \in -1 .. MaxRevision /\ navigation'.revision \in 0 .. MaxRevision
      /\ n.revision \in 0 .. MaxRevision
  <2>1. navigation' \in Navigation
    BY DEF TypeInv, NavigationTypeOK
  <2>2. QED BY <1>1, <2>1, NavigationTypes, VersionTypes
<1>6. CASE ~authoritative
  <2>1. navigation' = n /\ delivered' = n.revision
    BY <1>1, <1>6, TypesOfReconcile
  <2>2. ~IsNewer(page.state, n) /\ ~IsNewer(VersionOf(n), page.state) /\ DOMAIN toPage = {}
    BY <1>1, <1>4, <1>5, <1>6, VersionOrder, VersionTypes, NoMessage
  <2>3. QED BY <1>1, <1>3, <1>4, <1>5, <1>6, <2>1, <2>2, DeliveryOfHost, NavigationAssumption
        DEF Reconciled, Reaches, HandleReady
<1>7. CASE authoritative /\ IsNewer(n, navigation)
  <2>1. ~ready
    BY <1>1, <1>4, <1>5, <1>7, VersionOrder DEF DeliveryInv, HostIsAhead
  <2>2. delivered = -1 /\ toPage = <<>> /\ VersionOf(n) = VersionOf(page.state)
    BY <1>1, <1>4, <2>1 DEF DeliveryInv, DeliveredInv
  <2>3. VersionOf(navigation') = NextVersion(n) /\ delivered' = -1
    BY <1>1, <1>7, <2>2, TypesOfReconcile
  <2>4. ~IsNewer(n, navigation')
    BY <1>1, <1>5, <2>3, VersionOrder, VersionTypes
  <2>5. ~IsNewer(page.state, navigation')
    BY <1>1, <1>5, <2>2, <2>4, VersionOrder
  <2>6. QED BY <1>1, <1>3, <1>5, <1>7, <2>2, <2>3, <2>5, DeliveryOfHost, NavigationAssumption, NoMessage
        DEF Reconciled, HandleReady
<1>8. CASE authoritative /\ ~IsNewer(n, navigation)
  <2>1. navigation' = navigation /\ (delivered' = delivered \/ (n = navigation /\ delivered' = n.revision))
    BY <1>1, <1>8, TypesOfReconcile
  <2>2. ~IsNewer(page.state, navigation)
    BY <1>1, <1>4, <1>5, <1>8, VersionOrder DEF DeliveryInv, HostIsAhead
  <2>3. \A i \in DOMAIN toPage : ~IsNewer(toPage[i].navigation, navigation)
    BY <1>4, NoMessage DEF DeliveryInv, HostIsAhead
  <2>4. delivered' <= navigation.revision
    BY <1>5, <2>1, NavigationAssumption DEF DeliveryInv, DeliveredInv
  <2>5. n = navigation => Reaches(VersionOf(navigation))
    BY <1>1, <1>4, <1>5, VersionOrder, VersionTypes DEF Reaches
  <2>6. delivered' >= navigation.revision => Reaches(VersionOf(navigation))
    BY <1>1, <2>1, <2>5 DEF DeliveryInv, DeliveredInv
  <2>7. Reconciled
    BY <1>1, <1>8, <2>1, <2>2, <2>3, <2>4, <2>6 DEF Reconciled
  <2>8. QED BY <1>3, <2>7, DeliveryOfHost DEF HandleReady
<1>9. QED BY <1>6, <1>7, <1>8

LEMMA DeliveryOfDelivered ==
    ASSUME TypeInv, DeliveryInv, Delivered
    PROVE  DeliveryInv'
<1>1. PICK v \in deliveries :
         /\ deliveries' = deliveries \ {v}
         /\ delivered' = IF v = VersionOf(navigation) /\ v.revision > delivered THEN v.revision ELSE delivered
         /\ UNCHANGED <<navigation, authoritative, ready, view, page, toPage, toHost>>
  BY DEF Delivered
<1>2. ready /\ authoritative /\ Reaches(v)
  BY <1>1 DEF DeliveryInv, NothingPosted, DeliveredInv
<1>3. /\ delivered' \in {delivered, navigation.revision}
      /\ delivered' # delivered => v = VersionOf(navigation)
  BY <1>1 DEF VersionOf
<1>4. delivered' <= navigation.revision
  BY <1>3, NavigationAssumption DEF DeliveryInv, DeliveredInv, TypeInv, NavigationTypeOK, Navigation
<1>5. delivered' >= navigation.revision => Reaches(VersionOf(navigation))
  BY <1>2, <1>3 DEF DeliveryInv, DeliveredInv, QuietView
<1>6. DeliveredInv'
  BY <1>1, <1>2, <1>4, <1>5 DEF DeliveryInv, DeliveredInv, Reaches
<1>7. AnnouncedIsShown' /\ NothingPosted' /\ HostIsAhead' /\ QuietView'
  BY <1>1, <1>2 DEF DeliveryInv, AnnouncedIsShown, NothingPosted, HostIsAhead, QuietView
<1>8. QED BY <1>6, <1>7 DEF DeliveryInv

-----------------------------------------------------------------------------
(* Steps of the page *)

\* A page that goes on is of the same or a newer version, announces no other, and
\* forgets no navigation it has not taken.
PageStep ==
    /\ UNCHANGED <<hostVars, deliveries>>
    /\ view' = "running"
    /\ view # "closed"
    /\ ~IsNewer(page.state, page'.state)
    /\ \A i \in DOMAIN toHost' :
          \/ \E j \in DOMAIN toHost : toHost'[i] = toHost[j]
          \/ toHost'[i].type = "ready" => VersionOf(toHost'[i].navigation) = VersionOf(page'.state)
    /\ \A i \in DOMAIN toPage' : \E j \in DOMAIN toPage : toPage'[i] = toPage[j]
    /\ \A i \in DOMAIN toPage :
          \/ \E j \in DOMAIN toPage' : toPage[i] = toPage'[j]
          \/ ~IsNewer(toPage[i].navigation, page'.state)
    /\ toPage = <<>> => toPage' = <<>>
    /\ \/ VersionOf(page'.state) = VersionOf(page.state)
       \/ \E i \in DOMAIN toPage : VersionOf(page'.state) = VersionOf(toPage[i].navigation)

LEMMA DeliveryOfPage ==
    ASSUME TypeInv, TypeInv', DeliveryInv, PageStep
    PROVE  DeliveryInv'
<1>1. /\ page.state \in Navigation /\ page'.state \in Navigation /\ navigation \in Navigation
      /\ \A i \in DOMAIN toPage : toPage[i].navigation \in Navigation
      /\ \A i \in DOMAIN toHost : toHost[i].navigation \in Navigation
      /\ \A i \in DOMAIN toHost' : toHost'[i].navigation \in Navigation
      /\ deliveries \subseteq Versions /\ VersionOf(navigation) \in Versions
  <2>1. page'.state \in Navigation /\ \A i \in DOMAIN toHost' : toHost'[i].navigation \in Navigation
    BY DEF TypeInv, NavigationTypeOK
  <2>2. QED BY <2>1, NavigationTypes
<1>2. UNCHANGED <<navigation, delivered, authoritative, ready, deliveries>>
  BY DEF PageStep, hostVars
<1>3. AnnouncedIsShown'
  <2> SUFFICES ASSUME NEW i \in DOMAIN toHost', toHost'[i].type = "ready"
               PROVE  ~IsNewer(toHost'[i].navigation, page'.state)
    BY DEF AnnouncedIsShown
  <2>1. CASE \E j \in DOMAIN toHost : toHost'[i] = toHost[j]
    BY <1>1, <2>1, VersionOrder DEF DeliveryInv, AnnouncedIsShown, PageStep
  <2>2. CASE VersionOf(toHost'[i].navigation) = VersionOf(page'.state)
    BY <1>1, <2>2, VersionOrder
  <2>3. QED BY <2>1, <2>2 DEF PageStep
<1>4. NothingPosted'
  <2> SUFFICES ASSUME ~ready \/ ~authoritative
               PROVE  /\ toPage' = <<>>
                      /\ deliveries' = {}
                      /\ \A i \in DOMAIN toHost' : toHost'[i].type = "ready" =>
                            VersionOf(toHost'[i].navigation) = VersionOf(page'.state)
    BY <1>2 DEF NothingPosted
  <2>1. toPage = <<>> /\ toPage' = <<>> /\ deliveries' = {}
    BY <1>2 DEF DeliveryInv, NothingPosted, PageStep
  <2>2. VersionOf(page'.state) = VersionOf(page.state)
    BY <2>1, NoMessage DEF PageStep
  <2>3. QED BY <2>1, <2>2 DEF DeliveryInv, NothingPosted, PageStep
<1>5. HostIsAhead'
  <2> SUFFICES ASSUME ready PROVE HostIsAhead'
    BY <1>2 DEF HostIsAhead
  <2>1. ~authoritative => VersionOf(navigation) = VersionOf(page'.state)
    BY NoMessage DEF DeliveryInv, NothingPosted, HostIsAhead, PageStep
  <2>2. ~IsNewer(page'.state, navigation)
    BY <1>1, VersionOrder DEF DeliveryInv, HostIsAhead, PageStep
  <2>3. \A i \in DOMAIN toPage' : ~IsNewer(toPage'[i].navigation, navigation)
    BY DEF DeliveryInv, HostIsAhead, PageStep
  <2>4. QED BY <1>2, <2>1, <2>2, <2>3 DEF HostIsAhead
<1>6. ASSUME NEW v \in Versions, Reaches(v) PROVE Reaches(v)'
  <2>1. CASE ~IsNewer(v, page.state)
    BY <1>1, <2>1, VersionOrder DEF Reaches, PageStep
  <2>2. CASE \E i \in DOMAIN toPage : VersionOf(toPage[i].navigation) = v
    <3>1. PICK i \in DOMAIN toPage : VersionOf(toPage[i].navigation) = v
      BY <2>2
    <3>2. CASE \E j \in DOMAIN toPage' : toPage[i] = toPage'[j]
      BY <3>1, <3>2 DEF Reaches
    <3>3. CASE ~IsNewer(toPage[i].navigation, page'.state)
      BY <1>1, <3>1, <3>3, VersionOrder DEF Reaches
    <3>4. QED BY <3>2, <3>3 DEF PageStep
  <2>3. QED BY <1>6, <2>1, <2>2 DEF Reaches
<1>7. DeliveredInv'
  BY <1>1, <1>2, <1>6 DEF DeliveryInv, DeliveredInv, PageStep
<1>8. QuietView'
  BY DEF QuietView, PageStep
<1>9. QED BY <1>3, <1>4, <1>5, <1>7, <1>8 DEF DeliveryInv

\* The page receives, or the user clicks or shows it.
LEMMA PageSteps ==
    ASSUME TypeInv, TypeInv', DeliveryInv, (\E route \in Routes : Click(route)) \/ Receive \/ Show
    PROVE  PageStep
<1>1. /\ page.state \in Navigation /\ toPage \in Seq(Posts) /\ toHost \in Seq(Announcements \cup Requests)
      /\ toHost' \in Seq(Announcements \cup Requests)
      /\ ~IsNewer(page.state, page.state)
  BY VersionOrder DEF TypeInv, NavigationTypeOK, Posts
<1>2. CASE \E route \in Routes : Click(route)
  <2>1. PICK route \in Routes : Click(route)
    BY <1>2
  <2> DEFINE p == [page EXCEPT !.state.route = route]
             m == Request(p, route)
  <2>2. /\ UNCHANGED <<hostVars, deliveries, view, toPage>> /\ view = "running"
        /\ page' \in {[p EXCEPT !.queuedRoute = route], Sent(p, route)}
        /\ toHost' \in {toHost, Append(toHost, m)}
    BY <2>1 DEF Click
  <2>3. p.state.generation = page.state.generation /\ p.state.revision = page.state.revision
    BY <1>1 DEF TypeInv, NavigationTypeOK, Navigation
  <2>4. page'.state = p.state
    BY <2>2 DEF Sent, TypeInv, NavigationTypeOK
  <2>5. m.type = "navigateTo"
    BY DEF Request
  <2> HIDE DEF p, m
  <2>6. \A i \in DOMAIN toHost' : (\E j \in DOMAIN toHost : toHost'[i] = toHost[j]) \/ toHost'[i] = m
    BY <1>1, <2>2
  <2>7. VersionOf(page'.state) = VersionOf(page.state) /\ ~IsNewer(page.state, page'.state)
    BY <1>1, <2>3, <2>4 DEF VersionOf, IsNewer
  <2>8. QED BY <2>2, <2>5, <2>6, <2>7 DEF PageStep
<1>3. CASE Receive
  <2> DEFINE m == Head(toPage)
             p == [page EXCEPT !.state = m.navigation, !.inFlight = None, !.queuedRoute = None]
             queued == page.queuedRoute
             q == [p EXCEPT !.state.route = queued]
             r == Request(q, queued)
  <2> HIDE DEF m
  <2>1. /\ UNCHANGED <<hostVars, deliveries, view>> /\ view = "running" /\ toPage # <<>> /\ toPage' = Tail(toPage)
    BY <1>3 DEF Receive
  <2>2. /\ m \in Posts /\ 1 \in DOMAIN toPage /\ m = toPage[1]
        /\ \A i \in DOMAIN toPage' : \E j \in DOMAIN toPage : toPage'[i] = toPage[j]
        /\ \A i \in DOMAIN toPage : i = 1 \/ \E j \in DOMAIN toPage' : toPage[i] = toPage'[j]
    BY <1>1, <2>1, TailAt DEF m
  <2>3. m.navigation \in Navigation
    BY <2>2 DEF Posts
  <2>4. \/ ~IsNewer(m.navigation, page.state) /\ page' = page /\ toHost' = toHost
        \/ IsNewer(m.navigation, page.state) /\ page' = p /\ toHost' = toHost
        \/ IsNewer(m.navigation, page.state) /\ page' = Sent(q, queued) /\ toHost' = Append(toHost, r)
    BY <1>3 DEF Receive, m
  <2>5. p.state = m.navigation /\ q.state.generation = m.navigation.generation
        /\ q.state.revision = m.navigation.revision /\ Sent(q, queued).state = q.state
    BY <2>3 DEF TypeInv, NavigationTypeOK, Navigation, Sent
  <2>6. r.type = "navigateTo"
    BY DEF Request
  <2> HIDE DEF p, q, r, queued
  <2>7. \A i \in DOMAIN toHost' : (\E j \in DOMAIN toHost : toHost'[i] = toHost[j]) \/ toHost'[i] = r
    BY <1>1, <2>4
  <2>8. \/ page' = page /\ ~IsNewer(m.navigation, page.state)
        \/ VersionOf(page'.state) = VersionOf(m.navigation) /\ IsNewer(m.navigation, page.state)
    BY <2>4, <2>5 DEF VersionOf
  <2>9. /\ ~IsNewer(page.state, page'.state) /\ ~IsNewer(m.navigation, page'.state)
        /\ VersionOf(page'.state) \in {VersionOf(page.state), VersionOf(m.navigation)}
    BY <1>1, <2>3, <2>8, VersionOrder DEF TypeInv, NavigationTypeOK
  <2>10. /\ \A i \in DOMAIN toPage :
               (\E j \in DOMAIN toPage' : toPage[i] = toPage'[j]) \/ ~IsNewer(toPage[i].navigation, page'.state)
         /\ \/ VersionOf(page'.state) = VersionOf(page.state)
            \/ \E i \in DOMAIN toPage : VersionOf(page'.state) = VersionOf(toPage[i].navigation)
    BY <2>2, <2>9
  <2>11. QED BY <2>1, <2>2, <2>6, <2>7, <2>9, <2>10 DEF PageStep
<1>4. CASE Show
  <2> DEFINE first == [type |-> "ready", navigation |-> page.state]
             second == [type |-> "navigateTo", navigation |-> page.inFlight.navigation,
                        requestId |-> page.inFlight.requestId]
  <2>1. /\ UNCHANGED <<hostVars, deliveries, page, toPage>> /\ view = "hidden" /\ view' = "running"
        /\ toHost' \in {toHost \o <<first>> \o <<>>, toHost \o <<first>> \o <<second>>}
    BY <1>4 DEF Show
  <2>2. first.type = "ready" /\ first.navigation = page.state /\ second.type = "navigateTo"
    OBVIOUS
  <2> HIDE DEF first, second
  <2>3. \A i \in DOMAIN toHost' :
           (\E j \in DOMAIN toHost : toHost'[i] = toHost[j]) \/ toHost'[i] \in {first, second}
    <3> DEFINE S == Announcements \cup Requests \cup {first, second}
    <3>1. toHost \in Seq(S) /\ first \in S /\ second \in S
      BY <1>1
    <3> HIDE DEF S
    <3>2. QED BY <2>1, <3>1
  <2>4. QED BY <1>1, <2>1, <2>2, <2>3 DEF PageStep, DeliveryInv, QuietView
<1>5. QED BY <1>2, <1>3, <1>4

LEMMA DeliveryOfView ==
    ASSUME ~LosesPosted, TypeInv, DeliveryInv, Hide \/ Resolve \/ Close \/ RestartWindow
    PROVE  DeliveryInv'
<1>1. DOMAIN toHost' = {} \/ UNCHANGED <<page, toHost>>
  BY NoMessage DEF Hide, Resolve, Close, RestartWindow
<1>2. CASE Hide
  BY <1>2 DEF Hide, hostVars, DeliveryInv, AnnouncedIsShown, NothingPosted, HostIsAhead, DeliveredInv, QuietView, Reaches
<1>3. CASE Resolve
  <2>1. navigation.revision \in Nat
    BY NavigationAssumption DEF TypeInv, NavigationTypeOK, Navigation
  <2>2. QED
    BY <1>3, <2>1, Undelivered, NoMessage
    DEF Resolve, DeliveryInv, AnnouncedIsShown, NothingPosted, HostIsAhead, DeliveredInv, QuietView, Reaches
<1>4. CASE Close
  BY <1>4, NoMessage
  DEF Close, DeliveryInv, AnnouncedIsShown, NothingPosted, HostIsAhead, DeliveredInv, QuietView, Reaches
<1>5. CASE RestartWindow
  BY <1>5, Undelivered, NoMessage
  DEF RestartWindow, InitialNavigation, DeliveryInv, AnnouncedIsShown, NothingPosted, HostIsAhead, DeliveredInv,
      QuietView, Reaches
<1>6. QED BY <1>2, <1>3, <1>4, <1>5

LEMMA DeliveryNext ==
    ~LosesPosted /\ TypeInv /\ DeliveryInv /\ [Next]_vars => DeliveryInv'
<1> SUFFICES ASSUME ~LosesPosted, TypeInv, TypeInv', DeliveryInv, [Next]_vars PROVE DeliveryInv'
  BY TypesNext
<1>1. CASE UNCHANGED vars
  BY <1>1 DEF vars, hostVars, DeliveryInv, AnnouncedIsShown, NothingPosted, HostIsAhead, DeliveredInv, QuietView, Reaches
<1>2. QED BY <1>1, DeliveryOfAccepting, DeliveryOfReady, DeliveryOfDelivered, DeliveryOfPage, PageSteps,
             DeliveryOfView DEF Next, UserAct, MessageStep

\* A page that runs and has announced itself has what its host takes for delivered, or is
\* about to receive it (sidebar-provider.ts:1195-1222), however commands, clicks, late
\* promises, hidden and closed pages and restarts of the window come, as long as no page
\* is destroyed with posted messages unread.
THEOREM DeliveredHasReachedThePage == ~LosesPosted => (Spec => []DeliveredReachesPage)
<1> SUFFICES ASSUME ~LosesPosted PROVE Spec => []DeliveredReachesPage
  OBVIOUS
<1>1. Init => DeliveryInv
  BY NoMessage, Undelivered
  DEF Init, HostInit, InitialNavigation, DeliveryInv, AnnouncedIsShown, NothingPosted, HostIsAhead, DeliveredInv,
      QuietView, Reaches
<1>2. TypeInv /\ DeliveryInv /\ [Next]_vars => (TypeInv /\ DeliveryInv)'
  BY TypesNext, DeliveryNext
<1>3. TypeInv /\ DeliveryInv => DeliveredReachesPage
  <2> SUFFICES ASSUME TypeInv, DeliveryInv, view = "running", delivered >= navigation.revision,
                      ~(\E i \in DOMAIN toPage : VersionOf(toPage[i].navigation) = VersionOf(navigation))
               PROVE  ~IsNewer(navigation, page.state)
    BY DEF DeliveredReachesPage
  <2>1. ~IsNewer(VersionOf(navigation), page.state)
    BY DEF DeliveryInv, DeliveredInv, Reaches
  <2>2. QED BY <2>1 DEF IsNewer, VersionOf
<1>4. QED BY <1>1, <1>2, <1>3, TypesInit, PTL DEF Spec
=============================================================================
