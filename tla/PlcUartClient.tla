---------------------------- MODULE PlcUartClient ----------------------------
(***************************************************************************)
(* The request/response link of the gateway to the PLC controller          *)
(* (plc_uart_client.c, plc_frame.c, plc_request of plc_client.c).          *)
(*                                                                         *)
(* Tasks share one UART under a mutex.  An exchange flushes the receive    *)
(* buffer, writes one request frame and reads one reply frame, the two     *)
(* length bytes first.  The controller answers when it likes: a reply may  *)
(* be lost or damaged, or arrive when its exchange has timed out and the   *)
(* next has flushed.  The sequence number of the request is never compared *)
(* with the reply's, and is left out; so are the counters of s_stats.      *)
(*                                                                         *)
(* A frame is two pieces, "len" (the length) and "body" (payload and CRC), *)
(* whose content is Noise when it was damaged on the way.  "stale" is a    *)
(* ghost: it marks what belongs to an exchange that has ended.             *)
(***************************************************************************)
EXTENDS Naturals, Sequences

CONSTANTS
    Tasks,       \* the tasks that use the link
    Request,     \* request payloads
    NoRequest,   \* none
    Reply,       \* reply payloads
    Noise,       \* what is not one
    TooLong,     \* <<request, reply>>: longer than the rsp_cap of the requester
    LineBound,   \* requests and replies under way; what is beyond is lost
    RxBound      \* pieces the receive buffer holds; what is beyond is lost.
                 \* A whole frame fits: 1028 bytes into 2048

Free == "free"

ASSUME LinkAssumption ==
    /\ Free \notin Tasks /\ NoRequest \notin Request /\ Noise \notin Reply
    /\ LineBound \in Nat /\ RxBound \in Nat \ {0, 1}

VARIABLES
    pc,         \* where each task is in plc_uart_client_request
    request,    \* its request
    answer,     \* its result
    quiet,      \* ghost: nothing was under way when it sent its request
    mutex,      \* s_uart_mutex: its holder
    inbox,      \* requests on their way to, or waiting in, the controller
    outbox,     \* pieces of replies on their way back
    rx          \* pieces in the receive buffer of the UART driver

clients == <<pc, request, answer, quiet>>
line    == <<inbox, outbox, rx>>
linkVars == <<clients, mutex, line>>

Piece == [part : {"len", "body"}, reply : Reply \cup {Noise}, stale : BOOLEAN]
Failed == [ok |-> FALSE]

LinkInit ==
    /\ pc = [t \in Tasks |-> "idle"]
    /\ request = [t \in Tasks |-> NoRequest]
    /\ answer = [t \in Tasks |-> Failed]
    /\ quiet = [t \in Tasks |-> FALSE]
    /\ mutex = Free
    /\ inbox = << >> /\ outbox = << >> /\ rx = << >>

\* Lines and buffer hold whole pieces, and a success is a whole reply
\* (plc_uart_client_request).
LinkTypeOK ==
    /\ pc \in [Tasks -> {"idle", "take", "send", "len", "body", "done"}]
    /\ request \in [Tasks -> Request \cup {NoRequest}]
    /\ answer \in [Tasks -> {Failed} \cup [ok : {TRUE}, reply : Reply, stale : BOOLEAN]]
    /\ quiet \in [Tasks -> BOOLEAN]
    /\ mutex \in Tasks \cup {Free}
    /\ inbox \in Seq([request : Request, stale : BOOLEAN])
    /\ outbox \in Seq(Piece) /\ rx \in Seq(Piece)

-----------------------------------------------------------------------------
(* plc_uart_client_request                                                 *)

At(t, where) == pc[t] = where

Ask(t, r) ==
    /\ At(t, "idle")
    /\ pc' = [pc EXCEPT ![t] = "take"]
    /\ request' = [request EXCEPT ![t] = r]
    /\ UNCHANGED <<answer, quiet, mutex, line>>

Take(t) ==
    /\ At(t, "take") /\ mutex = Free
    /\ mutex' = t
    /\ pc' = [pc EXCEPT ![t] = "send"]
    /\ UNCHANGED <<request, answer, quiet, line>>

\* xSemaphoreTake gave up: nothing was held, nothing is given back.
TakeTimeout(t) ==
    /\ At(t, "take") /\ mutex # Free
    /\ pc' = [pc EXCEPT ![t] = "done"]
    /\ answer' = [answer EXCEPT ![t] = Failed]
    /\ UNCHANGED <<request, quiet, mutex, line>>

Stale(s) == [i \in 1..Len(s) |-> [s[i] EXCEPT !.stale = TRUE]]

\* Every way out gives the mutex back (label done).
Finish(t, result, newInbox, newRx) ==
    /\ pc' = [pc EXCEPT ![t] = "done"]
    /\ answer' = [answer EXCEPT ![t] = result]
    /\ mutex' = Free
    /\ inbox' = Stale(newInbox) /\ outbox' = Stale(outbox) /\ rx' = Stale(newRx)
    /\ UNCHANGED request

Sent(t) ==
    IF 2 * Len(inbox) + Len(outbox) < 2 * LineBound
    THEN Append(inbox, [request |-> request[t], stale |-> FALSE]) ELSE inbox

Quiet == inbox = << >> /\ outbox = << >>

\* Faulty variant: this early exit forgets to give the mutex back.
SendShortKeepsMutex(t) ==
    /\ At(t, "send")
    /\ quiet' = [quiet EXCEPT ![t] = Quiet]
    /\ pc' = [pc EXCEPT ![t] = "done"]
    /\ answer' = [answer EXCEPT ![t] = Failed]
    /\ rx' = << >>
    /\ UNCHANGED <<request, mutex, inbox, outbox>>

\* uart_write_bytes wrote less than the frame: the controller drops the rest.
SendShort(t) ==
    /\ At(t, "send")
    /\ quiet' = [quiet EXCEPT ![t] = Quiet]
    /\ Finish(t, Failed, inbox, << >>)

\* uart_wait_tx_done gave up: the frame may still reach the controller.
SendTimeout(t) ==
    /\ At(t, "send")
    /\ quiet' = [quiet EXCEPT ![t] = Quiet]
    /\ Finish(t, Failed, Sent(t), << >>)

\* Faulty variant: no uart_flush_input before the write.
SendWithoutFlush(t) ==
    /\ At(t, "send")
    /\ quiet' = [quiet EXCEPT ![t] = Quiet]
    /\ inbox' = Sent(t)
    /\ pc' = [pc EXCEPT ![t] = "len"]
    /\ UNCHANGED <<request, answer, mutex, outbox, rx>>

Send(t) ==
    /\ At(t, "send")
    /\ quiet' = [quiet EXCEPT ![t] = Quiet]
    /\ rx' = << >>
    /\ inbox' = Sent(t)
    /\ pc' = [pc EXCEPT ![t] = "len"]
    /\ UNCHANGED <<request, answer, mutex, outbox>>

\* plc_uart_read_exact: the read gives up when no byte has come for timeout_ms.
\* Faulty variant: it waits for ever.
ReadForever(t) == FALSE

ReadTimeout(t) ==
    /\ pc[t] \in {"len", "body"} /\ rx = << >>
    /\ UNCHANGED quiet
    /\ Finish(t, Failed, inbox, rx)

\* Faulty variant: the length is not compared with rsp_cap.
HasLengthUncapped(t) == Head(rx).part = "len" /\ Head(rx).reply # Noise

HasLength(t) ==
    /\ Head(rx).part = "len" /\ Head(rx).reply # Noise
    /\ <<request[t], Head(rx).reply>> \notin TooLong

ReadLen(t) ==
    /\ At(t, "len") /\ rx # << >>
    /\ HasLength(t)
    /\ pc' = [pc EXCEPT ![t] = "body"]
    /\ rx' = Tail(rx)
    /\ UNCHANGED <<request, answer, quiet, mutex, inbox, outbox>>

\* A length that is 0, above the maximum or above rsp_cap: nothing more is read,
\* the rest of the frame is left for the flush of the next request.  A wrong
\* length that passes ends in a timeout or a CRC error: the same result.
ReadBadLen(t) ==
    /\ At(t, "len") /\ rx # << >>
    /\ ~HasLength(t)
    /\ UNCHANGED quiet
    /\ Finish(t, Failed, inbox, Tail(rx))

Received == [ok |-> TRUE, reply |-> Head(rx).reply, stale |-> Head(rx).stale]

\* Faulty variant: the CRC is not checked.
ReadBodyUnchecked(t) ==
    /\ At(t, "body") /\ rx # << >>
    /\ UNCHANGED quiet
    /\ Finish(t, Received, inbox, Tail(rx))

\* plc_frame_try_parse accepts a whole body and refuses what the CRC refuses.
ReadBody(t) ==
    /\ At(t, "body") /\ rx # << >>
    /\ UNCHANGED quiet
    /\ Finish(t, IF Head(rx).part = "body" /\ Head(rx).reply # Noise THEN Received ELSE Failed,
              inbox, Tail(rx))

\* The caller has taken the result; the rest were locals of the call.
Collect(t) ==
    /\ At(t, "done")
    /\ pc' = [pc EXCEPT ![t] = "idle"]
    /\ request' = [request EXCEPT ![t] = NoRequest]
    /\ answer' = [answer EXCEPT ![t] = Failed]
    /\ quiet' = [quiet EXCEPT ![t] = FALSE]
    /\ UNCHANGED <<mutex, line>>

Exchange(t) ==
    \/ Take(t) \/ TakeTimeout(t)
    \/ SendShort(t) \/ SendTimeout(t) \/ Send(t)
    \/ ReadTimeout(t) \/ ReadLen(t) \/ ReadBadLen(t) \/ ReadBody(t)

-----------------------------------------------------------------------------
(* The wire and the controller.                                            *)

\* The controller answers the request it received first.
ControllerAnswers(m) ==
    /\ inbox # << >>
    /\ inbox' = Tail(inbox)
    /\ outbox' = outbox \o << [part |-> "len", reply |-> m, stale |-> Head(inbox).stale],
                              [part |-> "body", reply |-> m, stale |-> Head(inbox).stale] >>
    /\ UNCHANGED <<clients, mutex, rx>>

\* The request, or the whole reply to it, is lost.
RequestLost ==
    /\ inbox # << >>
    /\ inbox' = Tail(inbox)
    /\ UNCHANGED <<clients, mutex, outbox, rx>>

\* A piece of a reply arrives, perhaps damaged.
Arrives ==
    /\ outbox # << >>
    /\ outbox' = Tail(outbox)
    /\ \E content \in {Head(outbox).reply, Noise} :
          rx' = IF Len(rx) < RxBound
                THEN Append(rx, [Head(outbox) EXCEPT !.reply = content]) ELSE rx
    /\ UNCHANGED <<clients, mutex, inbox>>

-----------------------------------------------------------------------------
(* The link used by tasks that ask for anything at any time.               *)

LinkNext ==
    \/ \E t \in Tasks : Exchange(t) \/ Collect(t) \/ \E r \in Request : Ask(t, r)
    \/ \E m \in Reply : ControllerAnswers(m)
    \/ RequestLost \/ Arrives

LinkSpec == LinkInit /\ [][LinkNext]_linkVars

\* A task that can go on does, since the scheduler runs it and timeouts expire.
LinkFairSpec ==
    LinkSpec /\ \A t \in Tasks : WF_linkVars(Exchange(t)) /\ WF_linkVars(Collect(t))

\* An exchange begun with nothing under way either fails or returns the reply to
\* its own request, though replies carry nothing that is compared: the mutex
\* keeps other requests off the line and the flush removes what came late.
QuietAnswerIsOwn ==
    \A t \in Tasks : At(t, "done") /\ answer[t].ok /\ quiet[t] => ~answer[t].stale

\* The mutex is never left taken: whoever holds it is inside an exchange, and
\* nobody is inside one without it.
MutexIsInUse ==
    \A t \in Tasks : mutex = t <=> pc[t] \in {"send", "len", "body"}

\* What a caller sees of it is PlcLink: the replies under way are the bodies
\* that are not damaged.  What the buffer holds comes on top of the bound of the
\* line, and so may the body of a reply whose length has arrived.
Undamaged(p) == p.part = "body" /\ p.reply # Noise

RepliesIn(pieces) ==
    LET replies[n \in 0..Len(pieces)] ==
            IF n = 0 THEN << >>
            ELSE IF Undamaged(pieces[n])
            THEN Append(replies[n - 1], [reply |-> pieces[n].reply, stale |-> pieces[n].stale])
            ELSE replies[n - 1]
    IN  replies[Len(pieces)]

Phase ==
    [t \in Tasks |-> CASE pc[t] \in {"take", "send"} -> "wait"
                      [] pc[t] \in {"len", "body"}  -> "busy"
                      [] OTHER                      -> pc[t]]

ForCallers ==
    INSTANCE PlcLink WITH
        pc <- Phase, outbox <- RepliesIn(rx \o outbox),
        LineBound <- LineBound + RxBound + 1

ImplementsPlcLink == ForCallers!LinkSpec

\* Every request returns, whatever the controller and the other tasks do.
RequestReturns == \A t \in Tasks : pc[t] = "take" ~> pc[t] = "done"
=============================================================================
