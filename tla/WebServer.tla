------------------------------- MODULE WebServer -------------------------------
(***************************************************************************)
(* The start of the gateway (app_main, wifi_ap_start, web_server_start)    *)
(* and its HTTP server: routes are tried in the order of their             *)
(* registration, while the server already runs; what no API route takes is *)
(* a file, or index.html for the pages the browser program makes up.       *)
(*                                                                         *)
(* ESP-IDF is external: an initialisation succeeds or fails, a failure     *)
(* that ESP_ERROR_CHECK sees restarts the chip.  What the API handlers do  *)
(* is in PlcGateway and GraphStorage.                                      *)
(***************************************************************************)
EXTENDS Integers, Sequences

CONSTANTS
    ApiRoutes,      \* the registrations of api_register_handlers, in order: <<method, uri>>
    Uris,           \* the URIs that are asked for
    UnderApi,       \* those that begin with /api/
    Climbing,       \* those that hold ".."
    TooLong,        \* those too long for a path of FILE_PATH_MAX
    Stored,         \* those that name a file; "/" does if there is an index.html
    MaxChunks       \* bounds the length of a file, in pieces of SCRATCH_BUFSIZE

AnyUri == "/*"

ASSUME WebAssumption ==
    /\ ApiRoutes \in Seq({"GET", "POST"} \X UnderApi)
    /\ UnderApi \subseteq Uris /\ AnyUri \notin UnderApi /\ Climbing \subseteq Uris
    /\ TooLong \subseteq Uris /\ Stored \subseteq Uris
    /\ MaxChunks \in Nat

\* app_main, with web_server_start in place of its call.
Boot ==
    <<"nvs", "netif", "events", "client", "poll", "wifi", "mount", "httpd", "routes", "up">>

Phase == {"none", "match", "static", "open", "send", "api", "answered"}

Requests == {"GET", "POST"} \X Uris

VARIABLES
    step,       \* where app_main is in Boot
    routes,     \* the registered routes
    polling,    \* "no", "waits", "asks": the poll task
    request,    \* what the HTTP task is serving
    phase,
    answer,     \* "none", "api", "file", "index", or a status
    left,       \* pieces of the file still to send
    open,       \* files held open
    formatted   \* the files of the image are gone

vars == <<step, routes, polling, request, phase, answer, left, open, formatted>>

Up(what) == \E s \in 1..(step - 1) : Boot[s] = what

PowerOn ==
    /\ step = 1 /\ routes = << >> /\ polling = "no"
    /\ request = <<"GET", "/">> /\ phase = "none" /\ answer = "none"
    /\ left = 0 /\ open = 0

Init == PowerOn /\ formatted = FALSE

Volatile == <<polling, request, phase, answer, left, open>>

-----------------------------------------------------------------------------
(* app_main                                                                *)

Initialise ==
    /\ Boot[step] \in {"nvs", "netif", "events", "client", "wifi", "mount", "httpd"}
    /\ step' = step + 1
    /\ UNCHANGED <<routes, Volatile, formatted>>

\* A file system that cannot be mounted is formatted (format_if_mount_failed).
MountFormats ==
    /\ Boot[step] = "mount"
    /\ step' = step + 1 /\ formatted' = TRUE
    /\ UNCHANGED <<routes, Volatile>>

\* What xTaskCreatePinnedToCore returns is not looked at: there may be no task.
StartPolling ==
    /\ Boot[step] = "poll"
    /\ step' = step + 1 /\ polling' \in {"no", "waits"}
    /\ UNCHANGED <<routes, request, phase, answer, left, open, formatted>>

StaticRoute == <<"GET", AnyUri>>

\* Faulty variant: the files are registered before the API.
StaticFirst == <<StaticRoute>> \o ApiRoutes

AllRoutes == Append(ApiRoutes, StaticRoute)

Register ==
    /\ Boot[step] = "routes" /\ Len(routes) < Len(AllRoutes)
    /\ routes' = Append(routes, AllRoutes[Len(routes) + 1])
    /\ UNCHANGED <<step, Volatile, formatted>>

\* Faulty variant: the start waits for the poll task.
RegisteredAfterPoll ==
    /\ Boot[step] = "routes" /\ Len(routes) = Len(AllRoutes) /\ polling = "asks"
    /\ step' = step + 1
    /\ UNCHANGED <<routes, Volatile, formatted>>

Registered ==
    /\ Boot[step] = "routes" /\ Len(routes) = Len(AllRoutes)
    /\ step' = step + 1
    /\ UNCHANGED <<routes, Volatile, formatted>>

Restart ==
    /\ step' = 1 /\ routes' = << >> /\ polling' = "no"
    /\ request' = <<"GET", "/">> /\ phase' = "none" /\ answer' = "none"
    /\ left' = 0 /\ open' = 0

\* Every step but the polling task is checked.
BootFails == Boot[step] \notin {"poll", "up"} /\ Restart /\ UNCHANGED formatted

\* After its first delay the poll task asks the controller, for ever.
Poll ==
    /\ polling = "waits"
    /\ polling' = "asks"
    /\ UNCHANGED <<step, routes, request, phase, answer, left, open, formatted>>

-----------------------------------------------------------------------------
(* The HTTP task                                                           *)

Come(r) ==
    /\ Up("httpd") /\ phase = "none"
    /\ request' = r /\ phase' = "match" /\ answer' = "none"
    /\ UNCHANGED <<step, routes, polling, left, open, formatted>>

Answer(a) ==
    /\ phase' = "answered" /\ answer' = a
    /\ UNCHANGED <<step, routes, polling, request, left, open, formatted>>

Goto(where) ==
    /\ phase' = where
    /\ UNCHANGED <<step, routes, polling, request, answer, left, open, formatted>>

UriMatches(route) == route[2] \in {request[2], AnyUri}
Matching == {k \in DOMAIN routes : UriMatches(routes[k]) /\ routes[k][1] = request[1]}

\* httpd: the first route that matches, 404 without one, 405 if only the method is wrong.
NoRoute ==
    /\ phase = "match" /\ Matching = {}
    /\ Answer(IF \E k \in DOMAIN routes : UriMatches(routes[k]) THEN "405" ELSE "404")

Dispatch ==
    /\ phase = "match" /\ Matching # {}
    /\ LET k == CHOOSE k \in Matching : \A j \in Matching : k <= j
       IN  Goto(IF routes[k] = StaticRoute THEN "static" ELSE "api")

ApiDone == phase = "api" /\ Answer("api")

ApiOnly(uri) == uri \in UnderApi

\* static_file_handler up to its fopen, which may fail.
StaticRefuses ==
    LET uri == request[2]
    IN  /\ phase = "static"
        /\ \/ ApiOnly(uri) /\ Answer("404")
           \/ ~ApiOnly(uri) /\ uri \in Climbing /\ Answer("400")
           \/ ~ApiOnly(uri) /\ uri \in TooLong \ Climbing /\ Answer("414")

Found(uri) == uri \in Stored /\ ~formatted

StaticFinds ==
    LET uri == request[2]
    IN  /\ phase = "static" /\ ~ApiOnly(uri) /\ uri \notin Climbing \cup TooLong
        /\ IF Found(uri) \/ Found("/") THEN Goto("open") ELSE Answer("404")

OpenFails == phase = "open" /\ Answer("500")

Open ==
    /\ phase = "open"
    /\ phase' = "send" /\ open' = open + 1 /\ left' \in 0..MaxChunks
    /\ answer' = (IF Found(request[2]) THEN "file" ELSE "index")
    /\ UNCHANGED <<step, routes, polling, request, formatted>>

SendChunk ==
    /\ phase = "send" /\ left > 0
    /\ left' = left - 1
    /\ UNCHANGED <<step, routes, polling, request, phase, answer, open, formatted>>

\* Faulty variant: the early return leaves the file open.
CloseForgotten == UNCHANGED open

Close == open' = open - 1

\* The browser is gone; the connection is closed without an end of the answer.
SendFails ==
    /\ phase = "send" /\ left > 0
    /\ Close /\ phase' = "answered" /\ answer' = "broken" /\ left' = 0
    /\ UNCHANGED <<step, routes, polling, request, formatted>>

\* fread returns 0 at the end, and also when it cannot read on.
SendEnd ==
    /\ phase = "send"
    /\ open' = open - 1 /\ phase' = "answered" /\ left' = 0
    /\ UNCHANGED <<step, routes, polling, request, answer, formatted>>

NextRequest ==
    /\ phase = "answered"
    /\ phase' = "none" /\ answer' = "none"
    /\ UNCHANGED <<step, routes, polling, request, left, open, formatted>>

BootStep == Initialise \/ MountFormats \/ StartPolling \/ Register \/ Registered

Serve ==
    \/ NoRoute \/ Dispatch \/ ApiDone \/ StaticRefuses \/ StaticFinds
    \/ OpenFails \/ Open \/ SendChunk \/ SendFails \/ SendEnd \/ NextRequest

Next == BootStep \/ BootFails \/ Poll \/ Serve \/ \E r \in Requests : Come(r)

Spec == Init /\ [][Next]_vars

\* The tasks are scheduled; failures and browsers are not obliged to come.
FairSpec == Spec /\ WF_vars(BootStep) /\ WF_vars(Poll) /\ WF_vars(Serve)

-----------------------------------------------------------------------------

\* A request for a route of the API never gets to the files: whenever it comes, also
\* while the routes are being registered, it reaches its handler or is refused,
\* and once the gateway is up it is not refused (api_register_handlers, then the
\* files).
ApiReached ==
    [][phase = "match" /\ phase' # "match" /\ (\E k \in DOMAIN ApiRoutes : request = ApiRoutes[k]) =>
           \/ phase' = "api"
           \/ Boot[step] # "up" /\ (answer' \in {"404", "405"} \/ step' = 1)]_vars

\* No way out of static_file_handler keeps a file open.
FilesClosed == open = (IF phase = "send" THEN 1 ELSE 0)

\* The gateway comes up, or tries again and again: it never stays half started.
ComesUp == <>(Boot[step] = "up") \/ []<>(step = 1)
=============================================================================
