------------------------------- MODULE PlcLink -------------------------------
(***************************************************************************)
(* What plc_uart_client_request promises to its callers: one exchange at a *)
(* time, which fails or takes in one whole reply, not always the reply to  *)
(* its own request.  PlcUartClient is shown to implement it, and           *)
(* PlcGateway is built on it.                                              *)
(*                                                                         *)
(* "stale" marks what belongs to an exchange that has ended, "quiet" the   *)
(* exchanges that began with nothing under way.                            *)
(***************************************************************************)
EXTENDS Naturals, Sequences

CONSTANTS
    Tasks,       \* the tasks that use the link
    Request,     \* request payloads
    NoRequest,   \* none
    Reply,       \* reply payloads
    TooLong,     \* <<request, reply>>: longer than the rsp_cap of the requester
    LineBound    \* requests and replies under way; what is beyond is lost

VARIABLES
    pc,          \* where each task is in its exchange
    request,     \* its request
    answer,      \* its result
    quiet,       \* nothing was under way when it sent its request
    inbox,      \* requests the controller has not answered
    outbox      \* replies nobody has read

plcLinkVars == <<pc, request, answer, quiet, inbox, outbox>>

Failed == [ok |-> FALSE]

LinkInit ==
    /\ pc = [t \in Tasks |-> "idle"]
    /\ request = [t \in Tasks |-> NoRequest]
    /\ answer = [t \in Tasks |-> Failed]
    /\ quiet = [t \in Tasks |-> FALSE]
    /\ inbox = << >> /\ outbox = << >>

\* Callers, their results and the two lines keep their types.
LinkTypeOK ==
    /\ pc \in [Tasks -> {"idle", "wait", "busy", "done"}]
    /\ request \in [Tasks -> Request \cup {NoRequest}]
    /\ answer \in [Tasks -> {Failed} \cup [ok : {TRUE}, reply : Reply, stale : BOOLEAN]]
    /\ quiet \in [Tasks -> BOOLEAN]
    /\ inbox \in Seq([request : Request, stale : BOOLEAN])
    /\ outbox \in Seq([reply : Reply, stale : BOOLEAN])

-----------------------------------------------------------------------------

At(t, where) == pc[t] = where
NobodyBusy == \A t \in Tasks : ~At(t, "busy")

Ask(t, r) ==
    /\ At(t, "idle")
    /\ pc' = [pc EXCEPT ![t] = "wait"]
    /\ request' = [request EXCEPT ![t] = r]
    /\ UNCHANGED <<answer, quiet, inbox, outbox>>

\* Somebody else was too long: this one never had the link.
Refused(t) ==
    /\ At(t, "wait")
    /\ pc' = [pc EXCEPT ![t] = "done"]
    /\ answer' = [answer EXCEPT ![t] = Failed]
    /\ UNCHANGED <<request, quiet, inbox, outbox>>

Stale(s) == [i \in 1..Len(s) |-> [s[i] EXCEPT !.stale = TRUE]]

From(s, n) == SubSeq(s, n, Len(s))

\* The request may get lost on the way.
Posted(t) ==
    {inbox} \cup (IF Len(inbox) + Len(outbox) < LineBound
                  THEN {Append(inbox, [request |-> request[t], stale |-> FALSE])} ELSE {})

\* Replies that have come so far are dropped, the request goes out.
Begin(t) ==
    /\ At(t, "wait") /\ NobodyBusy
    /\ \E n \in 1..(Len(outbox) + 1) :
          /\ outbox' = From(outbox, n)
          /\ quiet' = [quiet EXCEPT ![t] = inbox = << >> /\ outbox' = << >>]
    /\ inbox' \in Posted(t)
    /\ pc' = [pc EXCEPT ![t] = "busy"]
    /\ UNCHANGED <<request, answer>>

End(t, result) ==
    /\ pc' = [pc EXCEPT ![t] = "done"]
    /\ answer' = [answer EXCEPT ![t] = result]
    /\ UNCHANGED request

\* The same, but the exchange fails at once.
BeginFailed(t) ==
    /\ At(t, "wait") /\ NobodyBusy
    /\ \E n \in 1..(Len(outbox) + 1) :
          /\ outbox' = Stale(From(outbox, n))
          /\ quiet' = [quiet EXCEPT ![t] = inbox = << >> /\ outbox' = << >>]
    /\ \E posted \in Posted(t) : inbox' = Stale(posted)
    /\ End(t, Failed)

\* Faulty variant: the wait for a reply never gives up.
FailNever(t) == FALSE

\* No reply, or what there was made no sense.
Fail(t) ==
    /\ At(t, "busy")
    /\ inbox' = Stale(inbox)
    /\ \E n \in 1..(Len(outbox) + 1) : outbox' = Stale(From(outbox, n))
    /\ End(t, Failed)
    /\ UNCHANGED quiet

\* A reply that fits is read, whichever request it answers.
Receive(t) ==
    /\ At(t, "busy") /\ outbox # << >>
    /\ <<request[t], Head(outbox).reply>> \notin TooLong
    /\ End(t, [ok |-> TRUE, reply |-> Head(outbox).reply, stale |-> Head(outbox).stale])
    /\ inbox' = Stale(inbox)
    /\ outbox' = Stale(Tail(outbox))
    /\ UNCHANGED quiet

Exchange(t) == Refused(t) \/ Begin(t) \/ BeginFailed(t) \/ Fail(t) \/ Receive(t)

Collect(t) ==
    /\ At(t, "done")
    /\ pc' = [pc EXCEPT ![t] = "idle"]
    /\ request' = [request EXCEPT ![t] = NoRequest]
    /\ answer' = [answer EXCEPT ![t] = Failed]
    /\ quiet' = [quiet EXCEPT ![t] = FALSE]
    /\ UNCHANGED <<inbox, outbox>>

ControllerAnswers(m) ==
    /\ inbox # << >>
    /\ inbox' = Tail(inbox)
    /\ outbox' = Append(outbox, [reply |-> m, stale |-> Head(inbox).stale])
    /\ UNCHANGED <<pc, request, answer, quiet>>

\* A request is lost before it was carried out.
RequestLost ==
    /\ inbox # << >>
    /\ inbox' = Tail(inbox)
    /\ UNCHANGED <<pc, request, answer, quiet, outbox>>

\* A reply is lost, damaged or refused.
ReplyLost ==
    /\ outbox # << >>
    /\ \E i \in 1..Len(outbox) : outbox' = SubSeq(outbox, 1, i - 1) \o From(outbox, i + 1)
    /\ UNCHANGED <<pc, request, answer, quiet, inbox>>

LinkNext ==
    \/ \E t \in Tasks : Exchange(t) \/ Collect(t) \/ \E r \in Request : Ask(t, r)
    \/ \E m \in Reply : ControllerAnswers(m)
    \/ RequestLost \/ ReplyLost

LinkSpec == LinkInit /\ [][LinkNext]_plcLinkVars
=============================================================================
