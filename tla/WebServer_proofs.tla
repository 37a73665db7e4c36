--------------------------- MODULE WebServer_proofs ---------------------------
(***************************************************************************)
(* Theorems about WebServer, for any routes below /api/, any URIs and any  *)
(* files, through failures and restarts.                                   *)
(***************************************************************************)
EXTENDS WebServer, WellFoundedInduction, SequenceTheorems, TLAPS

-----------------------------------------------------------------------------
(* The routes                                                              *)

LEMMA BootIs ==
    \A s \in 1..10 : /\ Boot[s] = "up" <=> s = 10
                     /\ Boot[s] = "routes" <=> s = 9
                     /\ Boot[s] = "poll" <=> s = 5
                     /\ Boot[s] = "mount" <=> s = 7
BY DEF Boot

LEMMA RoutesAre ==
    /\ Len(ApiRoutes) \in Nat /\ Len(AllRoutes) = Len(ApiRoutes) + 1
    /\ \A k \in 1..Len(ApiRoutes) :
          AllRoutes[k] = ApiRoutes[k] /\ ApiRoutes[k] \in {"GET", "POST"} \X UnderApi
    /\ DOMAIN ApiRoutes = 1..Len(ApiRoutes)
<1>1. ApiRoutes \in Seq({"GET", "POST"} \X UnderApi)
  BY WebAssumption
<1>2. /\ Len(ApiRoutes) \in Nat /\ DOMAIN ApiRoutes = 1..Len(ApiRoutes)
      /\ \A k \in 1..Len(ApiRoutes) : ApiRoutes[k] \in {"GET", "POST"} \X UnderApi
  BY <1>1, LenProperties, ElementOfSeq
<1>3. /\ Len(AllRoutes) = Len(ApiRoutes) + 1
      /\ \A k \in 1..Len(ApiRoutes) : AllRoutes[k] = ApiRoutes[k]
  BY <1>1, <1>2 DEF AllRoutes
<1>. QED BY <1>2, <1>3

\* The files are not a route of the API.
LEMMA ApiIsNotStatic ==
    ASSUME NEW k \in 1..Len(ApiRoutes)
    PROVE  ApiRoutes[k] # StaticRoute /\ ApiRoutes[k][2] # AnyUri
<1>1. ApiRoutes[k] \in {"GET", "POST"} \X UnderApi
  BY RoutesAre
<1>2. ApiRoutes[k][2] \in UnderApi
  BY <1>1
<1>3. AnyUri \notin UnderApi
  BY WebAssumption
<1>4. StaticRoute[2] = AnyUri
  BY DEF StaticRoute
<1>. QED BY <1>2, <1>3, <1>4

\* A set of positions has a first one.
LEMMA FirstOf ==
    ASSUME NEW S, S \subseteq Nat, S # {}
    PROVE  \E k \in S : \A j \in S : k <= j
<1> DEFINE R == OpToRel(<, Nat)
<1>1. IsWellFoundedOn(R, Nat)
  BY NatLessThanWellFounded
<1> HIDE DEF R
<1>2. PICK x \in S : \A y \in S : ~(<<y, x>> \in R)
  BY <1>1, WFMin
<1>3. \A y \in S : ~(y < x)
  BY <1>2 DEF R, OpToRel
<1>. QED BY <1>3

-----------------------------------------------------------------------------
(* The invariant                                                           *)

\* The routes are registered in their order, all of them before the gateway is up.
InOrder ==
    /\ DOMAIN routes = 1..Len(routes) /\ Len(routes) \in 0..Len(AllRoutes)
    /\ \A k \in 1..Len(routes) : routes[k] = AllRoutes[k]
    /\ step = 10 => Len(routes) = Len(AllRoutes)

WebInv == step \in 1..10 /\ InOrder /\ FilesClosed

LEMMA EmptyInOrder ==
    ASSUME NEW r, r = << >>
    PROVE  DOMAIN r = 1..Len(r) /\ Len(r) = 0
OBVIOUS

LEMMA WebStarts == Init => WebInv
<1> SUFFICES ASSUME Init
             PROVE  WebInv
  OBVIOUS
<1>1. step = 1 /\ routes = << >> /\ phase = "none" /\ open = 0
  BY DEF Init, PowerOn
<1>2. InOrder
  BY <1>1, EmptyInOrder, RoutesAre DEF InOrder
<1>. QED BY <1>1, <1>2 DEF WebInv, FilesClosed

\* app_main goes on, or starts again.
LEMMA BootKeeps ==
    ASSUME WebInv, BootStep \/ BootFails
    PROVE  WebInv'
<1>0. step \in 1..10 /\ InOrder /\ FilesClosed
  BY DEF WebInv
<1>1. CASE Initialise \/ MountFormats \/ StartPolling
  <2>1. /\ Boot[step] \in {"nvs", "netif", "events", "client", "poll", "wifi", "mount", "httpd"}
        /\ step' = step + 1 /\ routes' = routes /\ phase' = phase /\ open' = open
    BY <1>1 DEF Initialise, MountFormats, StartPolling, Volatile
  <2>2. step # 9 /\ step # 10
    BY <1>0, <2>1, BootIs
  <2>3. step' \in 1..9
    BY <1>0, <2>1, <2>2
  <2>. QED BY <1>0, <2>1, <2>3 DEF WebInv, InOrder, FilesClosed
<1>2. CASE Register
  <2>1. /\ step' = step /\ step = 9 /\ phase' = phase /\ open' = open
        /\ Len(routes) < Len(AllRoutes) /\ routes' = Append(routes, AllRoutes[Len(routes) + 1])
    BY <1>0, <1>2, BootIs DEF Register, Volatile
  <2>2. Len(routes) \in Nat /\ Len(AllRoutes) \in Nat
    <3>1. Len(AllRoutes) \in Nat
      BY RoutesAre
    <3>. QED BY <1>0, <3>1 DEF InOrder
  <2>3. /\ DOMAIN routes' = 1..Len(routes') /\ Len(routes') = Len(routes) + 1
        /\ \A k \in 1..(Len(routes) + 1) :
              routes'[k] = IF k <= Len(routes) THEN routes[k] ELSE AllRoutes[Len(routes) + 1]
    BY <2>1, <2>2
  <2>4. \A k \in 1..Len(routes') : routes'[k] = AllRoutes[k]
    BY <1>0, <2>2, <2>3 DEF InOrder
  <2>5. InOrder'
    BY <2>1, <2>2, <2>3, <2>4 DEF InOrder, AllRoutes
  <2>. QED BY <1>0, <2>1, <2>5 DEF WebInv, FilesClosed
<1>3. CASE Registered
  <2>1. /\ step' = step + 1 /\ step = 9 /\ phase' = phase /\ open' = open
        /\ Len(routes) = Len(AllRoutes) /\ routes' = routes
    BY <1>0, <1>3, BootIs DEF Registered, Volatile
  <2>. QED BY <1>0, <2>1 DEF WebInv, InOrder, FilesClosed
<1>4. CASE BootFails
  <2>1. step' = 1 /\ routes' = << >> /\ phase' = "none" /\ open' = 0
    BY <1>4 DEF BootFails, Restart
  <2>2. InOrder'
    BY <2>1, EmptyInOrder, RoutesAre DEF InOrder, AllRoutes
  <2>. QED BY <2>1, <2>2 DEF WebInv, FilesClosed
<1>. QED BY <1>1, <1>2, <1>3, <1>4 DEF BootStep

\* Requests leave the start alone, and a file is open exactly while it is sent.
LEMMA ServeKeeps ==
    ASSUME WebInv, Serve \/ Poll \/ \E r \in Requests : Come(r)
    PROVE  WebInv'
<1>0. step \in 1..10 /\ InOrder /\ FilesClosed
  BY DEF WebInv
<1>1. CASE Poll \/ \E r \in Requests : Come(r)
  <2>1. /\ step' = step /\ routes' = routes /\ open' = open
        /\ phase' = phase \/ (phase = "none" /\ phase' = "match")
    BY <1>1 DEF Poll, Come
  <2>. QED BY <1>0, <2>1 DEF WebInv, InOrder, FilesClosed
<1>2. CASE NoRoute \/ Dispatch \/ ApiDone \/ StaticRefuses \/ StaticFinds \/ OpenFails
  <2>1. /\ step' = step /\ routes' = routes /\ open' = open
        /\ phase # "send" /\ phase' # "send"
    BY <1>2 DEF NoRoute, Dispatch, ApiDone, StaticRefuses, StaticFinds, OpenFails, Answer, Goto
  <2>. QED BY <1>0, <2>1 DEF WebInv, InOrder, FilesClosed
<1>3. CASE Open
  <2>1. /\ step' = step /\ routes' = routes /\ open' = open + 1
        /\ phase = "open" /\ phase' = "send"
    BY <1>3 DEF Open
  <2>. QED BY <1>0, <2>1 DEF WebInv, InOrder, FilesClosed
<1>4. CASE SendFails \/ SendEnd
  <2>1. /\ step' = step /\ routes' = routes /\ open' = open - 1
        /\ phase = "send" /\ phase' = "answered"
    BY <1>4 DEF SendFails, SendEnd, Close
  <2>. QED BY <1>0, <2>1 DEF WebInv, InOrder, FilesClosed
<1>5. CASE SendChunk \/ NextRequest
  <2>1. /\ step' = step /\ routes' = routes /\ open' = open
        /\ phase' = phase \/ (phase = "answered" /\ phase' = "none")
    BY <1>5 DEF SendChunk, NextRequest
  <2>. QED BY <1>0, <2>1 DEF WebInv, InOrder, FilesClosed
<1>. QED BY <1>1, <1>2, <1>3, <1>4, <1>5 DEF Serve

LEMMA WebStep == WebInv /\ [Next]_vars => WebInv'
<1>1. WebInv /\ UNCHANGED vars => WebInv'
  BY DEF vars, WebInv, InOrder, FilesClosed, AllRoutes
<1>. QED BY <1>1, BootKeeps, ServeKeeps DEF Next

-----------------------------------------------------------------------------

\* No way through a request, and no restart in the middle of one, leaves a file open
\* or closes one twice.
THEOREM FilesClosedAlways == Spec => []FilesClosed
<1>1. WebInv => FilesClosed
  BY DEF WebInv
<1>. QED BY WebStarts, WebStep, <1>1, PTL DEF Spec

\* The first route that matches a request of the API is one of the API, however
\* many routes there are already: the files come after all of them.
LEMMA DispatchedToApi ==
    ASSUME WebInv, Dispatch, NEW n \in DOMAIN ApiRoutes, request = ApiRoutes[n]
    PROVE  phase' = "api"
<1>1. Len(ApiRoutes) \in Nat /\ n \in 1..Len(ApiRoutes) /\ Len(routes) \in 0..(Len(ApiRoutes) + 1)
  <2>1. Len(AllRoutes) = Len(ApiRoutes) + 1
    BY RoutesAre
  <2>2. Len(routes) \in 0..Len(AllRoutes)
    BY DEF WebInv, InOrder
  <2>3. Len(ApiRoutes) \in Nat /\ n \in 1..Len(ApiRoutes)
    BY RoutesAre
  <2>. QED BY <2>1, <2>2, <2>3
<1>2. DOMAIN routes = 1..Len(routes) /\ Matching \subseteq 1..Len(routes)
  BY DEF WebInv, InOrder, Matching
<1>3. \A k \in 1..Len(ApiRoutes) : k <= Len(routes) => routes[k] = ApiRoutes[k]
  <2>1. \A k \in 1..Len(routes) : routes[k] = AllRoutes[k]
    BY DEF WebInv, InOrder
  <2>2. \A k \in 1..Len(ApiRoutes) : AllRoutes[k] = ApiRoutes[k]
    BY RoutesAre
  <2>. QED BY <1>1, <2>1, <2>2
<1> DEFINE k == CHOOSE k \in Matching : \A j \in Matching : k <= j
<1>4. k \in Matching /\ \A j \in Matching : k <= j
  <2>1. \E i \in Matching : \A j \in Matching : i <= j
    <3>1. Matching # {}
      BY DEF Dispatch
    <3>2. Matching \subseteq Nat
      BY <1>1, <1>2
    <3>. QED BY <3>1, <3>2, FirstOf
  <2>. QED BY <2>1, Zenon
<1>5. phase' = IF routes[k] = StaticRoute THEN "static" ELSE "api"
  BY DEF Dispatch, Goto
<1> HIDE DEF k
<1>6. k \in 1..Len(routes)
  BY <1>2, <1>4
<1>7. CASE k <= Len(ApiRoutes)
  <2>1. routes[k] # StaticRoute
    BY <1>1, <1>3, <1>6, <1>7, ApiIsNotStatic
  <2>. QED BY <1>5, <2>1
<1>8. CASE ~(k <= Len(ApiRoutes))
  <2>1. k = Len(ApiRoutes) + 1 /\ n <= Len(routes) /\ n < k
    BY <1>1, <1>6, <1>8
  <2>2. n \in Matching
    BY <1>1, <1>2, <1>3, <2>1 DEF Matching, UriMatches
  <2>. QED BY <1>1, <1>4, <2>1, <2>2
<1>. QED BY <1>7, <1>8

\* A request for a route of the API is matched by one.
LEMMA SomeRoute ==
    ASSUME WebInv, Boot[step] = "up",
           NEW n \in DOMAIN ApiRoutes, request = ApiRoutes[n]
    PROVE  Matching # {}
<1>1. step = 10
  BY BootIs DEF WebInv
<1>2. Len(routes) = Len(ApiRoutes) + 1 /\ Len(ApiRoutes) \in Nat /\ n \in 1..Len(ApiRoutes)
  BY <1>1, RoutesAre DEF WebInv, InOrder
<1>3. n \in DOMAIN routes /\ routes[n] = ApiRoutes[n]
  BY <1>2, RoutesAre DEF WebInv, InOrder
<1>. QED BY <1>3 DEF Matching, UriMatches

\* No request for a route of the API gets to the files, however many routes there
\* are and whenever it comes, and once the gateway is up it gets to its handler.
THEOREM ApiReachedAlways == Spec => ApiReached
<1> DEFINE A == phase = "match" /\ phase' # "match"
                /\ (\E k \in DOMAIN ApiRoutes : request = ApiRoutes[k]) =>
                       \/ phase' = "api"
                       \/ Boot[step] # "up" /\ (answer' \in {"404", "405"} \/ step' = 1)
<1>1. WebInv /\ [Next]_vars => [A]_vars
  <2> SUFFICES ASSUME WebInv, [Next]_vars, phase = "match", phase' # "match",
                      NEW n \in DOMAIN ApiRoutes, request = ApiRoutes[n]
               PROVE  \/ phase' = "api"
                      \/ Boot[step] # "up" /\ (answer' \in {"404", "405"} \/ step' = 1)
    BY DEF vars
  <2>1. CASE BootFails
    BY <2>1 DEF BootFails, Restart
  <2>2. ~BootStep /\ ~Poll /\ ~\E r \in Requests : Come(r)
    BY DEF BootStep, Initialise, MountFormats, StartPolling, Register, Registered, Volatile, Poll,
           Come
  <2>3. Serve => NoRoute \/ Dispatch
    BY DEF Serve, ApiDone, StaticRefuses, StaticFinds, OpenFails, Open, SendChunk, SendFails,
           SendEnd, NextRequest
  <2>4. CASE NoRoute
    <3>1. answer' \in {"404", "405"}
      BY <2>4 DEF NoRoute, Answer
    <3>2. Boot[step] # "up"
      BY <2>4, SomeRoute DEF NoRoute
    <3>. QED BY <3>1, <3>2
  <2>5. CASE Dispatch
    BY <2>5, DispatchedToApi
  <2>. QED BY <2>1, <2>2, <2>3, <2>4, <2>5 DEF Next, vars
<1>. QED BY <1>1, WebStarts, WebStep, PTL DEF Spec, ApiReached
=============================================================================
