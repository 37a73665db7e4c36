------------------------------ MODULE PlcGateway ------------------------------
(***************************************************************************)
(* The gateway between the web page and the controller (plc_client.c,      *)
(* plc_gateway_state.c, the handlers of api_handlers.c): the poll task and *)
(* the HTTP server task each carry out jobs, sequences of requests over    *)
(* the link, and write what the replies say into the cache s_state, which  *)
(* no lock protects.                                                       *)
(*                                                                         *)
(* The link is PlcLink, which PlcUartClient implements.  Of s_state the    *)
(* model keeps two of the flags that set_connected couples.                *)
(* The controller is external: what an upload leaves in it is modelled     *)
(* from the requests plc_client_upload_graph_image sends.                  *)
(***************************************************************************)
EXTENDS Integers, Sequences

CONSTANTS
    Images,         \* graph images: what the page may upload
    NoImage,
    UploadChunks,   \* chunks of 512 bytes in an image
    HttpJobs,       \* the jobs the web page asks for (of OtherHttpJob)
    OtherBytes,     \* what other replies hold where a status says whether it runs
    NoRequest, LineBound     \* see PlcLink

Tasks == {"poll", "http"}

-----------------------------------------------------------------------------
(* Requests, replies and jobs.                                             *)

AckCmd == {"FORCE_OUTPUT", "RELEASE_OUTPUT", "SAFE_RESET", "ACTIVATE",
           "UPLOAD_BEGIN", "UPLOAD_CHUNK", "UPLOAD_END"}

Rsp == [GET_STATUS_WEB_V2 |-> "STATUS_WEB_V2", GET_IO_SUMMARY |-> "IO_SUMMARY",
        GET_NODES_SNAPSHOT |-> "NODES_SNAPSHOT", GET_NODE |-> "NODE"]

\* The body of a request: its chunk of an image, or the CRC that tells which
\* image is going to come; the request that ends an upload has none.
Cmd(c) == [cmd |-> c, image |-> NoImage, chunk |-> 0]
UploadBegin(g) == [cmd |-> "UPLOAD_BEGIN", image |-> g, chunk |-> 0]
Chunk(g, k) == [cmd |-> "UPLOAD_CHUNK", image |-> g, chunk |-> k]

Command ==
    {Cmd(c) : c \in AckCmd \cup DOMAIN Rsp} \cup {UploadBegin(g) : g \in Images} \cup
    {Chunk(g, k) : g \in Images, k \in 0..(UploadChunks - 1)}

Say(kind) == [kind |-> kind, running |-> OtherBytes]
Answer ==
    {Say(k) : k \in {"ACK", "ERROR", "IO_SUMMARY", "NODES_SNAPSHOT", "NODE"}} \cup
    [kind : {"STATUS_WEB_V2"}, running : BOOLEAN]

\* plc_request_ack has a buffer of 64 bytes.
BeyondAckBuffer ==
    {c \in Command : c.cmd \in AckCmd} \X
    {a \in Answer : a.kind \in {"STATUS_WEB_V2", "NODES_SNAPSHOT", "NODE"}}

PollJob == <<Cmd("GET_STATUS_WEB_V2"), Cmd("GET_IO_SUMMARY"), Cmd("GET_NODES_SNAPSHOT")>>

UploadJob(g) ==
    <<UploadBegin(g)>> \o [i \in 1..UploadChunks |-> Chunk(g, i - 1)]
                       \o <<Cmd("UPLOAD_END")>>

OtherHttpJob ==
    { <<Cmd("ACTIVATE")>>, <<Cmd("SAFE_RESET")>> \o PollJob,
      <<Cmd("FORCE_OUTPUT"), Cmd("GET_NODE")>>, <<Cmd("RELEASE_OUTPUT"), Cmd("GET_NODE")>> }

ASSUME GatewayAssumption ==
    UploadChunks \in Nat \ {0} /\ NoImage \notin Images /\ HttpJobs \subseteq OtherHttpJob

VARIABLES
    pc, request, answer, quiet, inbox, outbox,   \* PlcLink
    todo,           \* requests each task has still to make
    uploading,      \* the image, if the last HTTP job is, or was, an upload
    verdict,        \* what that job tells the page
    clean,          \* ghost: all its exchanges began with nothing under way
    cut,            \* which of the two flags a task writes next
    connected, running,    \* s_state
    staged          \* in the controller: n chunks, or one more when it is complete,
                    \* of an image, or of none if they are not all of the same

INSTANCE PlcLink WITH Request <- Command, Reply <- Answer, TooLong <- BeyondAckBuffer

link   == <<pc, request, answer, quiet, inbox, outbox>>
cache  == <<connected, running>>
jobs   == <<todo, uploading, verdict, clean>>
vars   == <<link, jobs, cut, cache, staged>>

Init ==
    /\ LinkInit
    /\ todo = [t \in Tasks |-> << >>]
    /\ uploading = NoImage /\ verdict = "none" /\ clean = TRUE
    /\ cut = [t \in Tasks |-> "connected"]
    /\ connected = FALSE /\ running = FALSE
    /\ staged = [of |-> NoImage, n |-> -1]

\* Tasks, flags and the controller's staging keep their types through every job.
TypeOK ==
    /\ LinkTypeOK
    /\ todo \in [Tasks -> Seq(Command)]
    /\ {clean, connected, running} \subseteq BOOLEAN
    /\ uploading \in Images \cup {NoImage}
    /\ verdict \in {"none", "ok", "failed"}
    /\ cut \in [Tasks -> {"connected", "running"}]
    /\ staged \in [of : Images \cup {NoImage}, n : -1..(UploadChunks + 1)]

-----------------------------------------------------------------------------
(* Jobs                                                                    *)

\* The poll task begins after its delay, the server when a page posts a request.
Start(t, job) ==
    /\ todo[t] = << >>
    /\ todo' = [todo EXCEPT ![t] = job]
    /\ Ask(t, Head(job))
    /\ UNCHANGED <<cut, cache, staged>>

StartPoll == Start("poll", PollJob) /\ UNCHANGED <<uploading, verdict, clean>>

StartHttp(job, g) ==
    /\ Start("http", job)
    /\ uploading' = g /\ verdict' = "none" /\ clean' = TRUE

StartUpload == \E g \in Images : StartHttp(UploadJob(g), g)
StartOther  == \E job \in HttpJobs : StartHttp(job, NoImage)

AskNext(t) ==
    /\ todo[t] # << >>
    /\ Ask(t, Head(todo[t]))
    /\ UNCHANGED <<jobs, cut, cache, staged>>

Asked(t) == Head(todo[t]).cmd

\* Faulty variant: the kind of the reply is not looked at.
AnySuccess(t) == answer[t].ok

\* A request succeeds when its reply is an ACK, or the data it asked for.
Success(t) ==
    answer[t].ok /\ answer[t].reply.kind = (IF Asked(t) \in AckCmd THEN "ACK" ELSE Rsp[Asked(t)])

\* A job ends when a command fails, and a poll when there is no status.
Decisive(t) == Asked(t) \in AckCmd \/ (t = "poll" /\ Asked(t) = "GET_STATUS_WEB_V2")

Advance(t) ==
    LET failed == ~Success(t) /\ Decisive(t)
        rest   == IF failed THEN << >> ELSE Tail(todo[t])
    IN  /\ Collect(t)
        /\ todo' = [todo EXCEPT ![t] = rest]
        /\ clean' = (clean /\ (t = "http" => quiet[t]))
        /\ verdict' = IF t = "poll" \/ rest # << >> THEN verdict
                      ELSE IF failed THEN "failed" ELSE "ok"
        /\ UNCHANGED <<uploading, staged>>

IsStatus(t) == Asked(t) = "GET_STATUS_WEB_V2" /\ (answer[t].ok => Success(t))

\* IO summary, nodes and acknowledgements touch none of the flags; nor does a
\* status request that is answered with something else.
HandleOther(t) ==
    /\ At(t, "done") /\ ~IsStatus(t)
    /\ Advance(t)
    /\ UNCHANGED <<cut, cache>>

\* The flags go one after another into s_state, the other task's in between:
\* all from the reply, or all FALSE (plc_gateway_state_set_connected(false)).
WriteConnected(t) ==
    /\ At(t, "done") /\ IsStatus(t) /\ cut[t] = "connected"
    /\ connected' = answer[t].ok
    /\ cut' = [cut EXCEPT ![t] = "running"]
    /\ UNCHANGED <<link, jobs, running, staged>>

\* Faulty variant: going offline leaves running as it was.
WriteRunningIfTold(t) ==
    /\ At(t, "done") /\ IsStatus(t) /\ cut[t] = "running"
    /\ running' = IF answer[t].ok THEN answer[t].reply.running ELSE running
    /\ cut' = [cut EXCEPT ![t] = "connected"]
    /\ Advance(t)
    /\ UNCHANGED connected

WriteRunning(t) ==
    /\ At(t, "done") /\ IsStatus(t) /\ cut[t] = "running"
    /\ running' = IF answer[t].ok THEN answer[t].reply.running ELSE FALSE
    /\ cut' = [cut EXCEPT ![t] = "connected"]
    /\ Advance(t)
    /\ UNCHANGED connected

TaskStep(t) ==
    \/ AskNext(t)
    \/ Exchange(t) /\ UNCHANGED <<jobs, cut, cache, staged>>
    \/ HandleOther(t) \/ WriteConnected(t) \/ WriteRunning(t)

-----------------------------------------------------------------------------
(* The controller: it stages the chunks of an upload in order, and tells   *)
(* by the CRC at the end whether they are the image it was announced.      *)

Complete == UploadChunks + 1

Staged(c) ==
    CASE c.cmd = "UPLOAD_BEGIN" ->
            [of |-> c.image, n |-> 0]
      [] c.cmd = "UPLOAD_CHUNK" /\ staged.n = c.chunk ->
            [of |-> IF staged.of = c.image THEN c.image ELSE NoImage, n |-> staged.n + 1]
      [] c.cmd = "UPLOAD_END" /\ staged.n = UploadChunks /\ staged.of # NoImage ->
            [staged EXCEPT !.n = Complete]
      [] OTHER -> staged

Accepted(c) == c.cmd \in {"UPLOAD_CHUNK", "UPLOAD_END"} => Staged(c) # staged

Replies(c) ==
    IF c.cmd \in AckCmd THEN {Say("ACK")} ELSE {a \in Answer : a.kind = Rsp[c.cmd]}

\* A request is carried out, or refused: out of order, busy, bad parameters.
Controller ==
    /\ inbox # << >>
    /\ LET c == Head(inbox).request
       IN  \/ /\ Accepted(c)
              /\ \E m \in Replies(c) : ControllerAnswers(m)
              /\ staged' = Staged(c)
           \/ /\ ControllerAnswers(Say("ERROR"))
              /\ UNCHANGED staged
    /\ UNCHANGED <<jobs, cut, cache>>

Wire == (RequestLost \/ ReplyLost) /\ UNCHANGED <<jobs, cut, cache, staged>>

Next ==
    \/ StartPoll \/ StartUpload \/ StartOther
    \/ \E t \in Tasks : TaskStep(t)
    \/ Controller \/ Wire

Spec == Init /\ [][Next]_vars

\* The poll task loops for ever; a task that can go on does.
FairSpec ==
    Spec /\ WF_vars(StartPoll) /\ \A t \in Tasks : WF_vars(TaskStep(t))

-----------------------------------------------------------------------------

\* "ok" for an upload means the controller has the whole image, and that image,
\* provided each of its exchanges began with nothing under way: no retry, no
\* upload that was given up before, no reordering and no poll in between can
\* make a missing or a foreign chunk look delivered.
UploadDelivered ==
    verdict = "ok" /\ uploading # NoImage /\ clean
        => staged = [of |-> uploading, n |-> Complete]

\* The cache may show a controller that is off line and running, when the two
\* tasks write their statuses at once, but not for ever: the next poll mends
\* it, unless the controller answers each one with something else.
OfflineRunning == ~connected /\ running
NoStatus == At("poll", "done") /\ Asked("poll") = "GET_STATUS_WEB_V2" /\ ~IsStatus("poll")
StatusRepaired == <>[]OfflineRunning => []<>NoStatus

\* Each job of the page ends with a verdict.
JobsEnd == todo["http"] # << >> ~> todo["http"] = << >>
=============================================================================
