-------------------------- MODULE PlcGateway_proofs --------------------------
(***************************************************************************)
(* An upload that a page is told to be "ok" is in the controller, for any  *)
(* number of chunks, any other jobs of the page and a line of any length.  *)
(*                                                                         *)
(* The link is known by PlcLink only.  The invariant follows the upload    *)
(* request by request: how far the controller is, and that no other        *)
(* request of an upload is under way that could move it.                   *)
(***************************************************************************)
EXTENDS PlcGateway, SequenceTheorems, TLAPS

Message  == [request : Command, stale : BOOLEAN]
Reaction == [reply : Answer, stale : BOOLEAN]
Result   == {Failed} \cup [ok : {TRUE}, reply : Answer, stale : BOOLEAN]

-----------------------------------------------------------------------------
(* Sequences of requests and replies                                       *)

LEMMA SeqOfFunction ==
    ASSUME NEW S, NEW n \in Nat, NEW f \in [1..n -> S]
    PROVE  f \in Seq(S) /\ Len(f) = n
BY SeqDef

LEMMA StaleMessages ==
    ASSUME NEW s \in Seq(Message)
    PROVE  /\ Stale(s) \in Seq(Message) /\ Len(Stale(s)) = Len(s)
           /\ \A i \in 1..Len(s) : Stale(s)[i].request = s[i].request
<1>1. Len(s) \in Nat /\ \A i \in 1..Len(s) : s[i] \in Message
  BY LenProperties, ElementOfSeq
<1>2. Stale(s) \in [1..Len(s) -> Message]
  BY <1>1 DEF Stale, Message
<1>3. \A i \in 1..Len(s) : Stale(s)[i].request = s[i].request
  BY <1>1 DEF Stale, Message
<1>. QED BY <1>1, <1>2, <1>3, SeqOfFunction

LEMMA StaleReactions ==
    ASSUME NEW s \in Seq(Reaction)
    PROVE  Stale(s) \in Seq(Reaction) /\ Len(Stale(s)) = Len(s)
<1>1. Len(s) \in Nat /\ \A i \in 1..Len(s) : s[i] \in Reaction
  BY LenProperties, ElementOfSeq
<1>2. Stale(s) \in [1..Len(s) -> Reaction]
  BY <1>1 DEF Stale, Reaction
<1>. QED BY <1>1, <1>2, SeqOfFunction

LEMMA FromKeeps ==
    ASSUME NEW S, NEW s \in Seq(S), NEW n \in 1..(Len(s) + 1)
    PROVE  From(s, n) \in Seq(S) /\ Len(From(s, n)) = Len(s) - n + 1
<1>1. Len(s) \in Nat /\ \A i \in n..Len(s) : s[i] \in S
  BY LenProperties, ElementOfSeq
<1>. QED BY <1>1, SubSeqProperties DEF From

LEMMA WithoutOne ==
    ASSUME NEW S, NEW s \in Seq(S), NEW n \in 1..Len(s)
    PROVE  /\ SubSeq(s, 1, n - 1) \o From(s, n + 1) \in Seq(S)
           /\ Len(SubSeq(s, 1, n - 1) \o From(s, n + 1)) = Len(s) - 1
<1>1. Len(s) \in Nat /\ \A i \in 1..(n - 1) : s[i] \in S
  BY LenProperties, ElementOfSeq
<1>2. SubSeq(s, 1, n - 1) \in Seq(S) /\ Len(SubSeq(s, 1, n - 1)) = n - 1
  BY <1>1, SubSeqProperties
<1>3. From(s, n + 1) \in Seq(S) /\ Len(From(s, n + 1)) = Len(s) - n
  BY <1>1, FromKeeps
<1> DEFINE before == SubSeq(s, 1, n - 1)
           after  == From(s, n + 1)
<1> HIDE DEF before, after
<1>4. before \o after \in Seq(S) /\ Len(before \o after) = Len(before) + Len(after)
  BY <1>2, <1>3, ConcatProperties DEF before, after
<1>. QED BY <1>1, <1>2, <1>3, <1>4 DEF before, after

LEMMA Taken ==
    ASSUME NEW S, NEW s \in Seq(S), s # << >>
    PROVE  /\ Head(s) \in S /\ Head(s) = s[1] /\ Tail(s) \in Seq(S)
           /\ Len(s) \in Nat \ {0} /\ Len(Tail(s)) = Len(s) - 1
           /\ \A i \in 1..(Len(s) - 1) : Tail(s)[i] = s[i + 1]
<1>1. Len(s) \in Nat \ {0}
  BY EmptySeq
<1>2. /\ Head(s) \in S /\ Tail(s) \in Seq(S) /\ Len(Tail(s)) = Len(s) - 1
      /\ \A i \in 1..(Len(s) - 1) : Tail(s)[i] = s[i + 1]
  BY HeadTailProperties
<1>3. Head(s) = s[1]
  BY <1>1
<1>. QED BY <1>1, <1>2, <1>3

LEMMA Appended ==
    ASSUME NEW S, NEW s \in Seq(S), NEW e \in S
    PROVE  /\ Append(s, e) \in Seq(S) /\ Len(s) \in Nat /\ Len(Append(s, e)) = Len(s) + 1
           /\ \A i \in 1..(Len(s) + 1) : Append(s, e)[i] = IF i <= Len(s) THEN s[i] ELSE e
OBVIOUS

LEMMA Joined ==
    ASSUME NEW S, NEW a, NEW b, a \in Seq(S), b \in Seq(S)
    PROVE  /\ a \o b \in Seq(S) /\ Len(a \o b) = Len(a) + Len(b)
           /\ \A i \in 1..Len(a) : (a \o b)[i] = a[i]
           /\ \A i \in 1..Len(b) : (a \o b)[Len(a) + i] = b[i]
<1>1. \A i \in 1..(Len(a) + Len(b)) :
         (a \o b)[i] = IF i <= Len(a) THEN a[i] ELSE b[i - Len(a)]
  BY ConcatProperties, Zenon
<1>0. Len(a) \in Nat /\ Len(b) \in Nat
  BY LenProperties
<1>2. \A i \in 1..Len(a) : (a \o b)[i] = a[i]
  BY <1>0, <1>1
<1>3. \A i \in 1..Len(b) : (a \o b)[Len(a) + i] = b[i]
  BY <1>0, <1>1
<1>4. a \o b \in Seq(S) /\ Len(a \o b) = Len(a) + Len(b)
  BY ConcatProperties
<1>. QED BY <1>2, <1>3, <1>4

LEMMA JoinedThree ==
    ASSUME NEW S, NEW a, NEW b, NEW c, a \in Seq(S), b \in Seq(S), c \in Seq(S)
    PROVE  /\ a \o b \o c \in Seq(S) /\ Len(a \o b \o c) = Len(a) + Len(b) + Len(c)
           /\ \A i \in 1..Len(a) : (a \o b \o c)[i] = a[i]
           /\ \A i \in 1..Len(b) : (a \o b \o c)[Len(a) + i] = b[i]
           /\ \A i \in 1..Len(c) : (a \o b \o c)[Len(a) + Len(b) + i] = c[i]
<1>0. Len(a) \in Nat /\ Len(b) \in Nat /\ Len(c) \in Nat
  BY LenProperties
<1>1. PICK d : d = a \o b
  OBVIOUS
<1>2. /\ d \in Seq(S) /\ Len(d) = Len(a) + Len(b)
      /\ \A i \in 1..Len(a) : d[i] = a[i]
      /\ \A i \in 1..Len(b) : d[Len(a) + i] = b[i]
  BY <1>1, Joined
<1>3. /\ d \o c \in Seq(S) /\ Len(d \o c) = Len(d) + Len(c)
      /\ \A i \in 1..Len(d) : (d \o c)[i] = d[i]
      /\ \A i \in 1..Len(c) : (d \o c)[Len(d) + i] = c[i]
  <2>1. d \in Seq(S)
    BY <1>2
  <2>. QED BY <2>1, Joined
<1>4. \A i \in 1..Len(a) : (d \o c)[i] = a[i]
  BY <1>0, <1>2, <1>3
<1>5. \A i \in 1..Len(b) : (d \o c)[Len(a) + i] = b[i]
  BY <1>0, <1>2, <1>3
<1>6. \A i \in 1..Len(c) : (d \o c)[Len(a) + Len(b) + i] = c[i]
  BY <1>0, <1>2, <1>3
<1>. QED BY <1>1, <1>2, <1>3, <1>4, <1>5, <1>6

LEMMA EmptyIsZero ==
    ASSUME NEW S, NEW s \in Seq(S)
    PROVE  Len(s) \in Nat /\ (s = << >> <=> Len(s) = 0)
BY EmptySeq, LenProperties

\* No request in s moves what the controller has staged.
UploadCmd == {"UPLOAD_BEGIN", "UPLOAD_CHUNK", "UPLOAD_END"}

NoUploads(s) == \A i \in 1..Len(s) : s[i].request.cmd \notin UploadCmd

LEMMA NoUploadsEmpty == NoUploads(<< >>)
BY DEF NoUploads

LEMMA NoUploadsStale ==
    ASSUME NEW s \in Seq(Message), NoUploads(s)
    PROVE  NoUploads(Stale(s))
BY StaleMessages DEF NoUploads

LEMMA NoUploadsTail ==
    ASSUME NEW s \in Seq(Message), NoUploads(s), s # << >>
    PROVE  NoUploads(Tail(s)) /\ Head(s).request.cmd \notin UploadCmd
<1>1. Len(s) \in Nat \ {0} /\ Head(s) = s[1] /\ Len(Tail(s)) = Len(s) - 1
      /\ \A i \in 1..(Len(s) - 1) : Tail(s)[i] = s[i + 1]
  BY Taken
<1>. QED BY <1>1 DEF NoUploads

LEMMA NoUploadsAppend ==
    ASSUME NEW s \in Seq(Message), NoUploads(s),
           NEW m \in Message, m.request.cmd \notin UploadCmd
    PROVE  NoUploads(Append(s, m))
<1>1. /\ Len(s) \in Nat /\ Len(Append(s, m)) = Len(s) + 1
      /\ \A i \in 1..(Len(s) + 1) : Append(s, m)[i] = IF i <= Len(s) THEN s[i] ELSE m
  BY Appended
<1>. QED BY <1>1 DEF NoUploads

-----------------------------------------------------------------------------
(* The invariant                                                           *)

\* A task in an exchange makes the first of the requests it has still to make.
Tasked ==
    \A t \in Tasks :
        /\ At(t, "wait") \/ At(t, "busy") => todo[t] # << >> /\ request[t] = Head(todo[t])
        /\ At(t, "done") => todo[t] # << >>

OneBusy == ~(At("poll", "busy") /\ At("http", "busy"))

PollAsks == \A i \in 1..Len(todo["poll"]) : todo["poll"][i].cmd \notin UploadCmd

\* How many requests of the upload are behind it.
Place == UploadChunks + 2 - Len(todo["http"])

HttpAsks ==
    uploading # NoImage =>
        /\ Place >= 0
        /\ \A j \in 1..Len(todo["http"]) : todo["http"][j] = UploadJob(uploading)[Place + j]

Ended == verdict # "none" => todo["http"] = << >>

Reached(k) == staged = [of |-> uploading, n |-> k]

\* Between two exchanges: nothing under way could move the controller.
Settled == Place > 0 => Reached(Place - 1) /\ NoUploads(inbox)

\* In a quiet exchange nothing is under way but the request or its reply.
Alone ==
    \/ /\ inbox = <<[request |-> request["http"], stale |-> FALSE]>> /\ outbox = << >>
       /\ Place > 0 => Reached(Place - 1)
    \/ /\ inbox = << >> /\ Len(outbox) <= 1
       /\ outbox # << >> /\ Head(outbox).reply.kind = "ACK" => Reached(Place)

Acked(t) == answer[t].ok /\ answer[t].reply.kind = "ACK"

Following ==
    uploading # NoImage /\ clean =>
        /\ (At("http", "idle") \/ At("http", "wait")) /\ (todo["http"] # << >> \/ verdict = "ok")
              => Settled
        /\ At("http", "busy") /\ quiet["http"] => Alone
        /\ At("http", "done") /\ quiet["http"] /\ Acked("http")
              => Reached(Place) /\ NoUploads(inbox)

Inv == TypeOK /\ Tasked /\ OneBusy /\ PollAsks /\ HttpAsks /\ Ended /\ Following

-----------------------------------------------------------------------------
(* Jobs                                                                    *)

LEMMA CommandType ==
    /\ \A c \in AckCmd : Cmd(c) \in Command
    /\ \A g \in Images : UploadBegin(g) \in Command
    /\ \A g \in Images, k \in 0..(UploadChunks - 1) : Chunk(g, k) \in Command
    /\ {Cmd("GET_STATUS_WEB_V2"), Cmd("GET_IO_SUMMARY"), Cmd("GET_NODES_SNAPSHOT"),
        Cmd("GET_NODE")} \subseteq Command
BY DEF Command, Rsp

LEMMA UploadJobIs ==
    ASSUME NEW g \in Images
    PROVE  /\ UploadJob(g) \in Seq(Command) /\ Len(UploadJob(g)) = UploadChunks + 2
           /\ UploadJob(g)[1] = UploadBegin(g)
           /\ \A i \in 1..UploadChunks : UploadJob(g)[1 + i] = Chunk(g, i - 1)
           /\ UploadJob(g)[UploadChunks + 2] = Cmd("UPLOAD_END")
<1> DEFINE begin  == <<UploadBegin(g)>>
           chunks == [i \in 1..UploadChunks |-> Chunk(g, i - 1)]
           end    == <<Cmd("UPLOAD_END")>>
<1>1. begin \in Seq(Command) /\ Len(begin) = 1 /\ begin[1] = UploadBegin(g)
  BY CommandType
<1>2. chunks \in Seq(Command) /\ Len(chunks) = UploadChunks
      /\ \A i \in 1..UploadChunks : chunks[i] = Chunk(g, i - 1)
  <2>1. \A i \in 1..UploadChunks : i - 1 \in 0..(UploadChunks - 1)
    BY GatewayAssumption
  <2>2. chunks \in [1..UploadChunks -> Command]
    BY <2>1, CommandType
  <2>. QED BY <2>2, SeqOfFunction, GatewayAssumption
<1>3. end \in Seq(Command) /\ Len(end) = 1 /\ end[1] = Cmd("UPLOAD_END")
  BY CommandType DEF AckCmd
<1> HIDE DEF begin, chunks, end
<1>4. UploadJob(g) = begin \o chunks \o end
  BY DEF UploadJob, begin, chunks, end
<1>5. UploadChunks \in Nat
  BY GatewayAssumption
<1>6. /\ UploadJob(g) \in Seq(Command)
      /\ Len(UploadJob(g)) = Len(begin) + Len(chunks) + Len(end)
      /\ \A i \in 1..Len(begin) : UploadJob(g)[i] = begin[i]
      /\ \A i \in 1..Len(chunks) : UploadJob(g)[Len(begin) + i] = chunks[i]
      /\ \A i \in 1..Len(end) : UploadJob(g)[Len(begin) + Len(chunks) + i] = end[i]
  <2>1. begin \in Seq(Command) /\ chunks \in Seq(Command) /\ end \in Seq(Command)
    BY <1>1, <1>2, <1>3
  <2>. QED BY <2>1, <1>4, JoinedThree
<1>7. UploadJob(g)[1] = UploadBegin(g)
  BY <1>1, <1>6
<1>8. \A i \in 1..UploadChunks : UploadJob(g)[1 + i] = Chunk(g, i - 1)
  BY <1>1, <1>2, <1>5, <1>6
<1>9. \A i \in 1..1 : UploadJob(g)[1 + UploadChunks + i] = Cmd("UPLOAD_END")
  BY <1>1, <1>2, <1>3, <1>5, <1>6
<1>10. Len(UploadJob(g)) = UploadChunks + 2
  BY <1>1, <1>2, <1>3, <1>5, <1>6
<1>. QED BY <1>5, <1>6, <1>7, <1>8, <1>9, <1>10

LEMMA PollJobIs ==
    /\ PollJob \in Seq(Command) /\ PollJob # << >>
    /\ \A i \in 1..Len(PollJob) : PollJob[i].cmd \notin UploadCmd
<1>1. /\ Len(PollJob) = 3
      /\ \A i \in 1..3 : PollJob[i].cmd \in {"GET_STATUS_WEB_V2", "GET_IO_SUMMARY",
                                            "GET_NODES_SNAPSHOT"}
  BY DEF PollJob, Cmd
<1>2. PollJob \in Seq(Command)
  BY CommandType DEF PollJob
<1>3. PollJob # << >>
  BY <1>1
<1>. QED BY <1>1, <1>2, <1>3 DEF UploadCmd

LEMMA HttpJobType ==
    ASSUME NEW job \in HttpJobs
    PROVE  job \in Seq(Command) /\ job # << >>
<1>1. job \in OtherHttpJob
  BY GatewayAssumption
<1>2. CASE job = <<Cmd("SAFE_RESET")>> \o PollJob
  <2>1. <<Cmd("SAFE_RESET")>> \in Seq(Command) /\ Len(<<Cmd("SAFE_RESET")>>) = 1
    BY CommandType DEF AckCmd
  <2>2. job \in Seq(Command) /\ Len(job) = 1 + Len(PollJob) /\ Len(PollJob) \in Nat
    BY <1>2, <2>1, PollJobIs, ConcatProperties, LenProperties
  <2>. QED BY <2>2, EmptyIsZero
<1>3. CASE job = <<Cmd("ACTIVATE")>>
  BY <1>3, CommandType DEF AckCmd
<1>4. CASE job = <<Cmd("FORCE_OUTPUT"), Cmd("GET_NODE")>>
  BY <1>4, CommandType DEF AckCmd
<1>5. CASE job = <<Cmd("RELEASE_OUTPUT"), Cmd("GET_NODE")>>
  BY <1>5, CommandType DEF AckCmd
<1>. QED BY <1>1, <1>2, <1>3, <1>4, <1>5 DEF OtherHttpJob

-----------------------------------------------------------------------------
(* Types                                                                   *)

LEMMA LinkTypes ==
    ASSUME TypeOK
    PROVE  /\ pc \in [Tasks -> {"idle", "wait", "busy", "done"}]
           /\ request \in [Tasks -> Command \cup {NoRequest}]
           /\ answer \in [Tasks -> Result] /\ quiet \in [Tasks -> BOOLEAN]
           /\ inbox \in Seq(Message) /\ outbox \in Seq(Reaction)
BY DEF TypeOK, LinkTypeOK, Message, Reaction, Result

LEMMA LinkTypesNext ==
    ASSUME /\ pc' \in [Tasks -> {"idle", "wait", "busy", "done"}]
           /\ request' \in [Tasks -> Command \cup {NoRequest}]
           /\ answer' \in [Tasks -> Result] /\ quiet' \in [Tasks -> BOOLEAN]
           /\ inbox' \in Seq(Message) /\ outbox' \in Seq(Reaction)
    PROVE  LinkTypeOK'
BY DEF LinkTypeOK, Message, Reaction, Result

LEMMA HeadOfTodo ==
    ASSUME TypeOK, NEW t \in Tasks, todo[t] # << >>
    PROVE  /\ Head(todo[t]) \in Command /\ Tail(todo[t]) \in Seq(Command)
           /\ Len(todo[t]) \in Nat \ {0} /\ Head(todo[t]) = todo[t][1]
           /\ Len(Tail(todo[t])) = Len(todo[t]) - 1
           /\ \A i \in 1..(Len(todo[t]) - 1) : Tail(todo[t])[i] = todo[t][i + 1]
<1>1. todo[t] \in Seq(Command)
  BY DEF TypeOK
<1>. QED BY <1>1, Taken

LEMMA PostedType ==
    ASSUME TypeOK, Tasked, NEW t \in Tasks, At(t, "wait"), NEW posted \in Posted(t)
    PROVE  posted \in Seq(Message)
<1>1. request[t] \in Command
  BY HeadOfTodo DEF Tasked
<1>2. [request |-> request[t], stale |-> FALSE] \in Message
  BY <1>1 DEF Message
<1>3. inbox \in Seq(Message) /\ Append(inbox, [request |-> request[t], stale |-> FALSE]) \in Seq(Message)
  BY <1>2, LinkTypes, Appended
<1>. QED BY <1>3 DEF Posted

LEMMA ExchangeType ==
    ASSUME TypeOK, Tasked, NEW t \in Tasks, Exchange(t)
    PROVE  LinkTypeOK'
<1>0. Failed \in Result
  BY DEF Result
<1>1. CASE Refused(t)
  BY <1>0, <1>1, LinkTypes, LinkTypesNext DEF Refused
<1>2. CASE Begin(t)
  <2>1. PICK n \in 1..(Len(outbox) + 1) : outbox' = From(outbox, n)
    BY <1>2 DEF Begin
  <2>2. outbox' \in Seq(Reaction)
    BY <2>1, LinkTypes, FromKeeps
  <2>3. inbox' \in Seq(Message)
    BY <1>2, PostedType DEF Begin
  <2>4. quiet' \in [Tasks -> BOOLEAN]
    BY <1>2, LinkTypes DEF Begin
  <2>5. /\ pc' \in [Tasks -> {"idle", "wait", "busy", "done"}]
        /\ request' \in [Tasks -> Command \cup {NoRequest}] /\ answer' \in [Tasks -> Result]
    BY <1>2, LinkTypes DEF Begin
  <2>. QED BY <2>2, <2>3, <2>4, <2>5, LinkTypesNext
<1>3. CASE BeginFailed(t)
  <2>1. PICK n \in 1..(Len(outbox) + 1) : outbox' = Stale(From(outbox, n))
    BY <1>3 DEF BeginFailed
  <2>2. outbox' \in Seq(Reaction)
    BY <2>1, LinkTypes, FromKeeps, StaleReactions
  <2>3. inbox' \in Seq(Message)
    BY <1>3, PostedType, StaleMessages DEF BeginFailed
  <2>4. quiet' \in [Tasks -> BOOLEAN]
    BY <1>3, LinkTypes DEF BeginFailed
  <2>5. /\ pc' \in [Tasks -> {"idle", "wait", "busy", "done"}]
        /\ request' \in [Tasks -> Command \cup {NoRequest}] /\ answer' \in [Tasks -> Result]
    BY <1>0, <1>3, LinkTypes DEF BeginFailed, End
  <2>. QED BY <2>2, <2>3, <2>4, <2>5, LinkTypesNext
<1>4. CASE Fail(t)
  <2>1. PICK n \in 1..(Len(outbox) + 1) : outbox' = Stale(From(outbox, n))
    BY <1>4 DEF Fail
  <2>2. outbox' \in Seq(Reaction) /\ inbox' \in Seq(Message)
    BY <1>4, <2>1, LinkTypes, FromKeeps, StaleReactions, StaleMessages DEF Fail
  <2>3. /\ pc' \in [Tasks -> {"idle", "wait", "busy", "done"}] /\ quiet' \in [Tasks -> BOOLEAN]
        /\ request' \in [Tasks -> Command \cup {NoRequest}] /\ answer' \in [Tasks -> Result]
    BY <1>0, <1>4, LinkTypes DEF Fail, End
  <2>. QED BY <2>2, <2>3, LinkTypesNext
<1>5. CASE Receive(t)
  <2>1. Head(outbox) \in Reaction /\ Tail(outbox) \in Seq(Reaction)
    BY <1>5, LinkTypes, Taken DEF Receive
  <2>2. [ok |-> TRUE, reply |-> Head(outbox).reply, stale |-> Head(outbox).stale] \in Result
    BY <2>1 DEF Reaction, Result
  <2>3. outbox' \in Seq(Reaction) /\ inbox' \in Seq(Message)
    BY <1>5, <2>1, LinkTypes, StaleReactions, StaleMessages DEF Receive
  <2>4. /\ pc' \in [Tasks -> {"idle", "wait", "busy", "done"}] /\ quiet' \in [Tasks -> BOOLEAN]
        /\ request' \in [Tasks -> Command \cup {NoRequest}] /\ answer' \in [Tasks -> Result]
    BY <1>5, <2>2, LinkTypes DEF Receive, End
  <2>. QED BY <2>3, <2>4, LinkTypesNext
<1>. QED BY <1>1, <1>2, <1>3, <1>4, <1>5 DEF Exchange

LEMMA AskType ==
    ASSUME TypeOK, NEW t \in Tasks, NEW r \in Command, Ask(t, r)
    PROVE  LinkTypeOK'
BY LinkTypes, LinkTypesNext DEF Ask

LEMMA CollectType ==
    ASSUME TypeOK, NEW t \in Tasks, Collect(t)
    PROVE  LinkTypeOK'
BY LinkTypes, LinkTypesNext DEF Collect, Result

LEMMA RequestLostType == ASSUME TypeOK, RequestLost PROVE LinkTypeOK'
BY LinkTypes, LinkTypesNext, Taken DEF RequestLost

LEMMA ReplyLostType == ASSUME TypeOK, ReplyLost PROVE LinkTypeOK'
<1>1. PICK i \in 1..Len(outbox) : outbox' = SubSeq(outbox, 1, i - 1) \o From(outbox, i + 1)
  BY DEF ReplyLost
<1>2. outbox' \in Seq(Reaction)
  BY <1>1, LinkTypes, WithoutOne
<1>. QED BY <1>2, LinkTypes, LinkTypesNext DEF ReplyLost

LEMMA AnswersType ==
    ASSUME TypeOK, NEW m \in Answer, ControllerAnswers(m)
    PROVE  LinkTypeOK'
<1>1. Head(inbox) \in Message /\ Tail(inbox) \in Seq(Message)
  BY LinkTypes, Taken DEF ControllerAnswers
<1>2. [reply |-> m, stale |-> Head(inbox).stale] \in Reaction
  BY <1>1 DEF Message, Reaction
<1>. QED BY <1>1, <1>2, LinkTypes, LinkTypesNext, Appended DEF ControllerAnswers

LEMMA ResultIs ==
    ASSUME TypeOK, NEW t \in Tasks
    PROVE  answer[t].ok \in BOOLEAN /\ (answer[t].ok => answer[t].reply \in Answer)
<1>1. answer[t] = [ok |-> FALSE] \/ answer[t] \in [ok : {TRUE}, reply : Answer, stale : BOOLEAN]
  BY LinkTypes DEF Result, Failed
<1>2. CASE answer[t] = [ok |-> FALSE]
  <2>1. answer[t].ok = FALSE
    BY <1>2
  <2>. QED BY <2>1
<1>3. CASE answer[t] \in [ok : {TRUE}, reply : Answer, stale : BOOLEAN]
  <2>1. answer[t].ok = TRUE /\ answer[t].reply \in Answer
    BY <1>3
  <2>. QED BY <2>1
<1>. QED BY <1>1, <1>2, <1>3

LEMMA StatusReply ==
    ASSUME TypeOK, NEW t \in Tasks, IsStatus(t), answer[t].ok
    PROVE  answer[t].reply.running \in BOOLEAN
<1>2. answer[t].reply \in Answer
  BY ResultIs
<1>3. answer[t].reply.kind = "STATUS_WEB_V2"
  BY DEF IsStatus, Success, AckCmd, Rsp
<1>. QED BY <1>2, <1>3 DEF Answer, Say

LEMMA JobType ==
    ASSUME NEW job, job \in Seq(Command), job # << >>
    PROVE  Head(job) \in Command
BY Taken

LEMMA StartType ==
    ASSUME TypeOK, NEW t \in Tasks, NEW job, job \in Seq(Command), job # << >>, Start(t, job)
    PROVE  LinkTypeOK' /\ todo' \in [Tasks -> Seq(Command)]
BY JobType, AskType DEF Start, TypeOK

LEMMA AdvanceType ==
    ASSUME TypeOK, Tasked, NEW t \in Tasks, Advance(t)
    PROVE  /\ LinkTypeOK' /\ todo' \in [Tasks -> Seq(Command)]
           /\ clean' \in BOOLEAN /\ verdict' \in {"none", "ok", "failed"}
<1>1. At(t, "done") /\ Collect(t)
  BY DEF Advance, Collect
<1>2. Tail(todo[t]) \in Seq(Command)
  BY <1>1, HeadOfTodo DEF Tasked
<1>3. << >> \in Seq(Command)
  OBVIOUS
<1>4. todo' \in [Tasks -> Seq(Command)]
  BY <1>2, <1>3 DEF Advance, TypeOK
<1>5. clean' \in BOOLEAN
  BY LinkTypes DEF Advance, TypeOK
<1>6. verdict' \in {"none", "ok", "failed"}
  BY DEF Advance, TypeOK
<1>. QED BY <1>1, <1>4, <1>5, <1>6, CollectType

LEMMA StagedType ==
    ASSUME TypeOK, NEW c \in Command
    PROVE  Staged(c) \in [of : Images \cup {NoImage}, n : -1..(UploadChunks + 1)]
<1>1. c.image \in Images \cup {NoImage} /\ c.chunk \in 0..(UploadChunks - 1)
  BY GatewayAssumption DEF Command, Cmd, UploadBegin, Chunk
<1>. QED BY <1>1, GatewayAssumption DEF Staged, Complete, TypeOK

LEMMA TypeStep == TypeOK /\ Tasked /\ [Next]_vars => TypeOK'
<1> SUFFICES ASSUME TypeOK, Tasked, [Next]_vars PROVE TypeOK'
  OBVIOUS
<1> USE DEF jobs, cache, link
<1>1. CASE UNCHANGED vars
  BY <1>1 DEF vars, TypeOK, LinkTypeOK
<1>2. CASE StartPoll
  BY <1>2, StartType, PollJobIs DEF StartPoll, Start, TypeOK, Tasks
<1>3. CASE StartUpload
  <2>1. PICK g \in Images : StartHttp(UploadJob(g), g)
    BY <1>3 DEF StartUpload
  <2>2. UploadJob(g) \in Seq(Command) /\ UploadJob(g) # << >>
    BY UploadJobIs, EmptyIsZero, GatewayAssumption
  <2>. QED BY <2>1, <2>2, StartType DEF StartHttp, Start, TypeOK, Tasks
<1>4. CASE StartOther
  <2>1. PICK job \in HttpJobs : StartHttp(job, NoImage)
    BY <1>4 DEF StartOther
  <2>. QED BY <2>1, HttpJobType, StartType DEF StartHttp, Start, TypeOK, Tasks
<1>5. ASSUME NEW t \in Tasks, TaskStep(t) PROVE TypeOK'
  <2>1. CASE AskNext(t)
    BY <2>1, HeadOfTodo, AskType DEF AskNext, TypeOK
  <2>2. CASE Exchange(t) /\ UNCHANGED <<jobs, cut, cache, staged>>
    BY <2>2, ExchangeType DEF TypeOK
  <2>3. CASE HandleOther(t)
    BY <2>3, AdvanceType DEF HandleOther, Advance, TypeOK
  <2>4. CASE WriteConnected(t)
    <3>1. answer[t].ok \in BOOLEAN
      BY ResultIs
    <3>. QED BY <2>4, <3>1 DEF WriteConnected, TypeOK, LinkTypeOK
  <2>5. CASE WriteRunning(t)
    <3>1. running' \in BOOLEAN
      BY <2>5, StatusReply DEF WriteRunning
    <3>2. /\ LinkTypeOK' /\ todo' \in [Tasks -> Seq(Command)]
          /\ clean' \in BOOLEAN /\ verdict' \in {"none", "ok", "failed"}
      BY <2>5, AdvanceType DEF WriteRunning
    <3>. QED BY <2>5, <3>1, <3>2 DEF WriteRunning, Advance, TypeOK
  <2>. QED BY <1>5, <2>1, <2>2, <2>3, <2>4, <2>5 DEF TaskStep
<1>6. CASE Controller
  <2>1. Head(inbox).request \in Command
    <3>1. Head(inbox) \in Message
      BY <1>6, LinkTypes, Taken DEF Controller
    <3>. QED BY <3>1 DEF Message
  <2>2. LinkTypeOK'
    <3>1. PICK m \in Answer : ControllerAnswers(m)
      BY <1>6 DEF Controller, Replies, Answer
    <3>. QED BY <3>1, AnswersType
  <2>3. staged' \in [of : Images \cup {NoImage}, n : -1..(UploadChunks + 1)]
    BY <1>6, <2>1, StagedType DEF Controller, TypeOK
  <2>. QED BY <1>6, <2>2, <2>3 DEF Controller, TypeOK
<1>7. CASE Wire
  BY <1>7, RequestLostType, ReplyLostType DEF Wire, TypeOK
<1>. QED BY <1>1, <1>2, <1>3, <1>4, <1>5, <1>6, <1>7 DEF Next

-----------------------------------------------------------------------------
(* What the tasks have still to do                                         *)

LEMMA ExchangeMoves ==
    ASSUME TypeOK, NEW t \in Tasks, Exchange(t)
    PROVE  /\ request' = request /\ (At(t, "wait") \/ At(t, "busy"))
           /\ \/ pc' = [pc EXCEPT ![t] = "done"]
              \/ pc' = [pc EXCEPT ![t] = "busy"] /\ NobodyBusy
<1>1. CASE Refused(t)
  BY <1>1 DEF Refused
<1>2. CASE Begin(t)
  BY <1>2 DEF Begin
<1>3. CASE BeginFailed(t)
  BY <1>3 DEF BeginFailed, End
<1>4. CASE Fail(t) \/ Receive(t)
  BY <1>4 DEF Fail, Receive, End
<1>. QED BY <1>1, <1>2, <1>3, <1>4 DEF Exchange

\* The steps, by what they do to the lists of requests.
LEMMA Steps ==
    ASSUME TypeOK, Next
    PROVE  \/ StartPoll \/ StartUpload \/ StartOther
           \/ \E t \in Tasks : AskNext(t)
           \/ \E t \in Tasks : Exchange(t) /\ UNCHANGED <<jobs, staged>>
           \/ \E t \in Tasks : Advance(t)
           \/ UNCHANGED <<link, jobs, staged>>
           \/ Controller
           \/ (RequestLost \/ ReplyLost) /\ UNCHANGED <<jobs, staged>>
<1>1. ASSUME NEW t \in Tasks, TaskStep(t)
      PROVE  \/ AskNext(t)
             \/ Exchange(t) /\ UNCHANGED <<jobs, staged>>
             \/ Advance(t)
             \/ UNCHANGED <<link, jobs, staged>>
  BY <1>1 DEF TaskStep, HandleOther, WriteConnected, WriteRunning
<1>. QED BY <1>1 DEF Next, Wire

LEMMA TaskedStep == TypeOK /\ Tasked /\ [Next]_vars => Tasked'
<1> SUFFICES ASSUME TypeOK, Tasked, [Next]_vars PROVE Tasked'
  OBVIOUS
<1>0. /\ pc \in [Tasks -> {"idle", "wait", "busy", "done"}]
      /\ request \in [Tasks -> Command \cup {NoRequest}]
      /\ todo \in [Tasks -> Seq(Command)]
  BY LinkTypes DEF TypeOK
<1>1. CASE UNCHANGED vars \/ UNCHANGED <<link, jobs, staged>>
  BY <1>1 DEF vars, link, jobs, Tasked, At
<1>2. ASSUME NEW t \in Tasks, NEW job, job # << >>, Start(t, job) PROVE Tasked'
  BY <1>0, <1>2 DEF Start, Ask, Tasked, At
<1>3. CASE StartPoll
  BY <1>2, <1>3, PollJobIs DEF StartPoll, Tasks
<1>4. CASE StartUpload
  <2>1. PICK g \in Images : Start("http", UploadJob(g))
    BY <1>4 DEF StartUpload, StartHttp
  <2>2. UploadJob(g) # << >>
    BY UploadJobIs, EmptyIsZero, GatewayAssumption
  <2>. QED BY <1>2, <2>1, <2>2 DEF Tasks
<1>5. CASE StartOther
  BY <1>2, <1>5, HttpJobType DEF StartOther, StartHttp, Tasks
<1>6. ASSUME NEW t \in Tasks, AskNext(t) PROVE Tasked'
  BY <1>0, <1>6 DEF AskNext, Ask, jobs, Tasked, At
<1>7. ASSUME NEW t \in Tasks, Exchange(t), UNCHANGED jobs PROVE Tasked'
  BY <1>0, <1>7, ExchangeMoves DEF jobs, Tasked, At
<1>8. ASSUME NEW t \in Tasks, Advance(t) PROVE Tasked'
  BY <1>0, <1>8 DEF Advance, Collect, Tasked, At
<1>9. CASE Controller
  BY <1>9 DEF Controller, ControllerAnswers, jobs, Tasked, At
<1>10. CASE (RequestLost \/ ReplyLost) /\ UNCHANGED jobs
  BY <1>10 DEF RequestLost, ReplyLost, jobs, Tasked, At
<1>. QED BY <1>1, <1>3, <1>4, <1>5, <1>6, <1>7, <1>8, <1>9, <1>10, Steps

LEMMA OneBusyStep == TypeOK /\ OneBusy /\ [Next]_vars => OneBusy'
<1> SUFFICES ASSUME TypeOK, OneBusy, [Next]_vars PROVE OneBusy'
  OBVIOUS
<1>0. pc \in [Tasks -> {"idle", "wait", "busy", "done"}]
  BY LinkTypes
<1>1. CASE UNCHANGED vars \/ UNCHANGED <<link, jobs, staged>>
  BY <1>1 DEF vars, link, OneBusy, At
<1>2. CASE StartPoll \/ StartUpload \/ StartOther
  BY <1>0, <1>2 DEF StartPoll, StartUpload, StartOther, StartHttp, Start, Ask, OneBusy, At, Tasks
<1>3. ASSUME NEW t \in Tasks, AskNext(t) \/ Advance(t) PROVE OneBusy'
  BY <1>0, <1>3 DEF AskNext, Ask, Advance, Collect, OneBusy, At, Tasks
<1>4. ASSUME NEW t \in Tasks, Exchange(t) PROVE OneBusy'
  BY <1>0, <1>4, ExchangeMoves DEF NobodyBusy, OneBusy, At, Tasks
<1>5. CASE Controller \/ RequestLost \/ ReplyLost
  BY <1>5 DEF Controller, ControllerAnswers, RequestLost, ReplyLost, OneBusy, At
<1>. QED BY <1>1, <1>2, <1>3, <1>4, <1>5, Steps

\* How a list changes when a request has been answered.
LEMMA AdvanceTodo ==
    ASSUME TypeOK, Tasked, NEW t \in Tasks, Advance(t)
    PROVE  /\ todo[t] # << >> /\ UNCHANGED <<uploading, staged>>
           /\ \A u \in Tasks \ {t} : todo'[u] = todo[u]
           /\ \/ todo'[t] = << >>
              \/ todo'[t] = Tail(todo[t]) /\ (Success(t) \/ ~Decisive(t))
           /\ t = "poll" \/ todo'[t] # << >> => verdict' = verdict
BY DEF Advance, Collect, Tasked, TypeOK

LEMMA PollAsksStep == TypeOK /\ Tasked /\ PollAsks /\ [Next]_vars => PollAsks'
<1> SUFFICES ASSUME TypeOK, Tasked, PollAsks, [Next]_vars PROVE PollAsks'
  OBVIOUS
<1>0. todo \in [Tasks -> Seq(Command)]
  BY DEF TypeOK
<1>1. CASE UNCHANGED todo["poll"]
  BY <1>1 DEF PollAsks
<1>2. CASE StartPoll
  <2>1. todo'["poll"] = PollJob
    BY <1>0, <1>2 DEF StartPoll, Start, Tasks
  <2>. QED BY <2>1, PollJobIs DEF PollAsks
<1>3. CASE StartUpload \/ StartOther
  BY <1>0, <1>1, <1>3 DEF StartUpload, StartOther, StartHttp, Start, Tasks
<1>4. ASSUME NEW t \in Tasks, Advance(t) PROVE PollAsks'
  <2>1. CASE t = "http"
    BY <1>1, <1>4, <2>1, AdvanceTodo DEF Tasks
  <2>2. CASE t = "poll" /\ todo'["poll"] = << >>
    BY <2>2, EmptySeq DEF PollAsks
  <2>3. CASE t = "poll" /\ todo'["poll"] = Tail(todo["poll"])
    <3>1. todo["poll"] # << >>
      BY <1>4, <2>3, AdvanceTodo
    <3>2. /\ Len(todo["poll"]) \in Nat /\ Len(todo'["poll"]) = Len(todo["poll"]) - 1
          /\ \A i \in 1..(Len(todo["poll"]) - 1) : todo'["poll"][i] = todo["poll"][i + 1]
      BY <2>3, <3>1, HeadOfTodo DEF Tasks
    <3>. QED BY <3>2 DEF PollAsks
  <2>. QED BY <1>4, <2>1, <2>2, <2>3, AdvanceTodo DEF Tasks
<1>5. ASSUME NEW t \in Tasks, AskNext(t) PROVE PollAsks'
  BY <1>1, <1>5 DEF AskNext, jobs
<1>. QED BY <1>1, <1>2, <1>3, <1>4, <1>5, Steps DEF vars, jobs, Controller

LEMMA EndedStep == TypeOK /\ Tasked /\ Ended /\ [Next]_vars => Ended'
<1> SUFFICES ASSUME TypeOK, Tasked, Ended, [Next]_vars PROVE Ended'
  OBVIOUS
<1>0. todo \in [Tasks -> Seq(Command)]
  BY DEF TypeOK
<1>1. CASE UNCHANGED <<todo["http"], verdict>>
  BY <1>1 DEF Ended
<1>2. CASE StartPoll
  BY <1>0, <1>1, <1>2 DEF StartPoll, Start, Tasks
<1>3. CASE StartUpload \/ StartOther
  BY <1>3 DEF StartUpload, StartOther, StartHttp, Ended
<1>4. ASSUME NEW t \in Tasks, Advance(t) PROVE Ended'
  <2>1. CASE t = "poll"
    BY <1>1, <1>4, <2>1, AdvanceTodo DEF Tasks
  <2>2. CASE t = "http"
    BY <1>4, <2>2, AdvanceTodo DEF Ended
  <2>. QED BY <2>1, <2>2 DEF Tasks
<1>5. ASSUME NEW t \in Tasks, AskNext(t) PROVE Ended'
  BY <1>1, <1>5 DEF AskNext, jobs
<1>. QED BY <1>1, <1>2, <1>3, <1>4, <1>5, Steps DEF vars, jobs, Controller

LEMMA HttpAsksStep == TypeOK /\ Tasked /\ HttpAsks /\ [Next]_vars => HttpAsks'
<1> SUFFICES ASSUME TypeOK, Tasked, HttpAsks, [Next]_vars PROVE HttpAsks'
  OBVIOUS
<1>0. todo \in [Tasks -> Seq(Command)] /\ UploadChunks \in Nat
  BY GatewayAssumption DEF TypeOK
<1>1. CASE UNCHANGED <<todo["http"], uploading>>
  BY <1>1 DEF HttpAsks, Place
<1>2. CASE StartPoll
  BY <1>0, <1>1, <1>2 DEF StartPoll, Start, Tasks
<1>3. CASE StartUpload
  <2>1. PICK g \in Images : StartHttp(UploadJob(g), g)
    BY <1>3 DEF StartUpload
  <2>2. todo'["http"] = UploadJob(g) /\ uploading' = g
    BY <1>0, <2>1 DEF StartHttp, Start, Tasks
  <2>3. Place' = 0
    BY <1>0, <2>2, UploadJobIs DEF Place
  <2>. QED BY <1>0, <2>2, <2>3, UploadJobIs DEF HttpAsks
<1>4. CASE StartOther
  BY <1>4 DEF StartOther, StartHttp, HttpAsks
<1>5. ASSUME NEW t \in Tasks, Advance(t) PROVE HttpAsks'
  <2>1. CASE t = "poll"
    BY <1>1, <1>5, <2>1, AdvanceTodo DEF Tasks
  <2>2. CASE t = "http" /\ todo'["http"] = << >>
    BY <1>0, <2>2, EmptySeq DEF HttpAsks, Place
  <2>3. CASE t = "http" /\ todo'["http"] = Tail(todo["http"])
    <3>1. todo["http"] # << >> /\ uploading' = uploading
      BY <1>5, <2>3, AdvanceTodo
    <3>2. /\ Len(todo["http"]) \in Nat /\ Len(todo'["http"]) = Len(todo["http"]) - 1
          /\ \A i \in 1..(Len(todo["http"]) - 1) : todo'["http"][i] = todo["http"][i + 1]
      BY <2>3, <3>1, HeadOfTodo DEF Tasks
    <3>3. Place' = Place + 1 /\ Place \in Int
      BY <1>0, <3>2 DEF Place
    <3>4. ASSUME uploading # NoImage, NEW j \in 1..(Len(todo["http"]) - 1)
          PROVE  todo'["http"][j] = UploadJob(uploading)[Place + 1 + j]
      <4>1. j + 1 \in 1..Len(todo["http"]) /\ Place + (j + 1) = Place + 1 + j
        BY <3>2, <3>3
      <4>2. todo["http"][j + 1] = UploadJob(uploading)[Place + (j + 1)]
        BY <3>4, <4>1 DEF HttpAsks
      <4>. QED BY <3>2, <4>1, <4>2
    <3>. QED BY <3>1, <3>2, <3>3, <3>4 DEF HttpAsks
  <2>. QED BY <1>5, <2>1, <2>2, <2>3, AdvanceTodo DEF Tasks
<1>6. ASSUME NEW t \in Tasks, AskNext(t) PROVE HttpAsks'
  BY <1>1, <1>6 DEF AskNext, jobs
<1>. QED BY <1>1, <1>2, <1>3, <1>4, <1>5, <1>6, Steps DEF vars, jobs, Controller

-----------------------------------------------------------------------------
(* The upload and the controller                                           *)

\* The request an upload makes next, by its place.
LEMMA UploadRequest ==
    ASSUME Inv, uploading # NoImage, todo["http"] # << >>
    PROVE  /\ Place \in 0..(UploadChunks + 1)
           /\ Place = 0 => Head(todo["http"]) = UploadBegin(uploading)
           /\ Place \in 1..UploadChunks => Head(todo["http"]) = Chunk(uploading, Place - 1)
           /\ Place = UploadChunks + 1 => Head(todo["http"]) = Cmd("UPLOAD_END")
<1>1. UploadChunks \in Nat \ {0} /\ uploading \in Images
  BY GatewayAssumption DEF Inv, TypeOK
<1>2. Len(todo["http"]) \in Nat \ {0} /\ Head(todo["http"]) = todo["http"][1]
  BY HeadOfTodo DEF Inv, Tasks
<1>3. Place \in 0..(UploadChunks + 1)
  <2>1. Place >= 0
    BY DEF Inv, HttpAsks
  <2>2. PICK n \in Nat : n = Len(todo["http"]) /\ n # 0
    BY <1>2
  <2>3. Place = UploadChunks + 2 - n
    BY <2>2 DEF Place
  <2>4. \A p, m \in Nat : m # 0 => p + 2 - m \in Int /\ p + 2 - m <= p + 1
    OBVIOUS
  <2>5. Place \in Int /\ Place <= UploadChunks + 1
    BY <1>1, <2>2, <2>3, <2>4
  <2>. QED BY <1>1, <2>1, <2>5
<1>4. Head(todo["http"]) = UploadJob(uploading)[Place + 1]
  BY <1>2 DEF Inv, HttpAsks
<1>5. ASSUME Place \in 1..UploadChunks PROVE Head(todo["http"]) = Chunk(uploading, Place - 1)
  <2>1. UploadJob(uploading)[1 + Place] = Chunk(uploading, Place - 1)
    BY <1>1, <1>5, UploadJobIs
  <2>. QED BY <1>1, <1>4, <1>5, <2>1
<1>6. ASSUME Place = UploadChunks + 1 PROVE Head(todo["http"]) = Cmd("UPLOAD_END")
  <2>1. Place + 1 = UploadChunks + 2
    BY <1>1, <1>6
  <2>. QED BY <1>1, <1>4, <2>1, UploadJobIs
<1>7. Place = 0 => Head(todo["http"]) = UploadBegin(uploading)
  BY <1>1, <1>4, UploadJobIs
<1>. QED BY <1>3, <1>5, <1>6, <1>7

\* What carrying it out leaves in the controller.
LEMMA RequestStages ==
    ASSUME Inv, uploading # NoImage, todo["http"] # << >>,
           Place > 0 => Reached(Place - 1)
    PROVE  Staged(Head(todo["http"])) = [of |-> uploading, n |-> Place]
<1>1. UploadChunks \in Nat \ {0} /\ Place \in 0..(UploadChunks + 1)
  BY GatewayAssumption, UploadRequest
<1>2. CASE Place = 0
  BY <1>2, UploadRequest DEF UploadBegin, Staged
<1>3. CASE Place \in 1..UploadChunks
  <2>1. Head(todo["http"]) = [cmd |-> "UPLOAD_CHUNK", image |-> uploading, chunk |-> Place - 1]
    BY <1>3, UploadRequest DEF Chunk
  <2>2. staged.of = uploading /\ staged.n = Place - 1
    BY <1>1, <1>3 DEF Reached
  <2>. QED BY <1>1, <1>3, <2>1, <2>2 DEF Staged
<1>4. CASE Place = UploadChunks + 1
  <2>1. Head(todo["http"]).cmd = "UPLOAD_END"
    BY <1>4, UploadRequest DEF Cmd
  <2>2. staged = [of |-> uploading, n |-> UploadChunks]
    BY <1>1, <1>4 DEF Reached
  <2>. QED BY <1>4, <2>1, <2>2 DEF Staged, Complete
<1>. QED BY <1>1, <1>2, <1>3, <1>4

LEMMA UploadIsAcked ==
    ASSUME Inv, uploading # NoImage, todo["http"] # << >>
    PROVE  Asked("http") \in AckCmd
<1>1. UploadChunks \in Nat \ {0} /\ Place \in 0..(UploadChunks + 1)
  BY GatewayAssumption, UploadRequest
<1>. QED BY <1>1, UploadRequest DEF Asked, UploadBegin, Chunk, Cmd, AckCmd

\* The poll asks for nothing that moves the controller.
LEMMA PollRequest ==
    ASSUME Inv, At("poll", "wait")
    PROVE  request["poll"] \in Command /\ request["poll"].cmd \notin UploadCmd
<1>1. todo["poll"] # << >> /\ request["poll"] = Head(todo["poll"])
  BY DEF Inv, Tasked, Tasks
<1>2. /\ Head(todo["poll"]) \in Command /\ Len(todo["poll"]) \in Nat \ {0}
      /\ Head(todo["poll"]) = todo["poll"][1]
  BY <1>1, HeadOfTodo DEF Inv, Tasks
<1>. QED BY <1>1, <1>2 DEF Inv, PollAsks

LEMMA PollPosts ==
    ASSUME Inv, At("poll", "wait"), NoUploads(inbox), NEW posted \in Posted("poll")
    PROVE  posted \in Seq(Message) /\ NoUploads(posted)
<1> DEFINE m == [request |-> request["poll"], stale |-> FALSE]
<1>1. m \in Message /\ m.request.cmd \notin UploadCmd
  BY PollRequest DEF Message
<1>2. inbox \in Seq(Message)
  BY LinkTypes DEF Inv
<1>3. Append(inbox, m) \in Seq(Message) /\ NoUploads(Append(inbox, m))
  <2> HIDE DEF m
  <2>. QED BY <1>1, <1>2, Appended, NoUploadsAppend
<1>. QED BY <1>2, <1>3 DEF Posted

LEMMA OthersStageNothing ==
    ASSUME NEW c, c.cmd \notin UploadCmd
    PROVE  Staged(c) = staged
BY DEF Staged, UploadCmd

-----------------------------------------------------------------------------
(* Every step keeps the invariant's last part                              *)

LEMMA SameFollows ==
    ASSUME Following,
           UNCHANGED <<uploading, clean, verdict, todo["http"], pc["http"], request["http"],
                       quiet["http"], answer["http"], staged, inbox, outbox>>
    PROVE  Following'
BY DEF Following, Settled, Alone, Acked, Reached, Place, At, NoUploads

LEMMA UndisturbedFollows ==
    ASSUME Following, ~At("http", "busy"),
           UNCHANGED <<uploading, clean, verdict, todo["http"], pc["http"],
                       quiet["http"], answer["http"]>>,
           NoUploads(inbox) => staged' = staged /\ NoUploads(inbox)'
    PROVE  Following'
BY DEF Following, Settled, Acked, Reached, Place, At

LEMMA NotAckedFollows ==
    ASSUME pc["http"]' = "done", answer["http"]' = Failed
    PROVE  Following'
<1>1. answer'["http"].ok = FALSE
  <2>1. [ok |-> FALSE].ok = FALSE
    OBVIOUS
  <2>. QED BY <2>1 DEF Failed
<1>. QED BY <1>1 DEF Following, Acked, At

LEMMA HttpExchangeFollows ==
    ASSUME Inv, Exchange("http"), UNCHANGED <<jobs, staged>>
    PROVE  Following'
<1>0. /\ pc \in [Tasks -> {"idle", "wait", "busy", "done"}] /\ answer \in [Tasks -> Result]
      /\ quiet \in [Tasks -> BOOLEAN] /\ inbox \in Seq(Message) /\ outbox \in Seq(Reaction)
      /\ "http" \in Tasks
  BY LinkTypes DEF Inv, Tasks
<1>1. CASE Refused("http") \/ BeginFailed("http") \/ Fail("http")
  BY <1>0, <1>1, NotAckedFollows DEF Refused, BeginFailed, Fail, End
<1>2. CASE Begin("http")
  <2>1. SUFFICES ASSUME uploading # NoImage, clean, quiet'["http"]
                 PROVE  Alone'
    BY <1>0, <1>2 DEF Begin, Following, At, jobs
  <2>2. inbox = << >> /\ outbox' = << >>
    BY <1>0, <1>2, <2>1 DEF Begin
  <2>3. Place > 0 => Reached(Place - 1)
    BY <1>2, <2>1 DEF Begin, At, Inv, Tasked, Following, Settled, Tasks
  <2>4. CASE inbox' = inbox
    <3>1. inbox' = << >> /\ Len(outbox') <= 1
      BY <2>2, <2>4
    <3>. QED BY <2>2, <3>1 DEF Alone
  <2>5. CASE inbox' = Append(inbox, [request |-> request["http"], stale |-> FALSE])
    <3>1. inbox' = <<[request |-> request["http"], stale |-> FALSE]>>
      BY <2>2, <2>5
    <3>2. request' = request /\ Place' = Place /\ (Reached(Place - 1) => Reached(Place - 1)')
      BY <1>2 DEF Begin, jobs, Place, Reached
    <3>. QED BY <2>2, <2>3, <3>1, <3>2 DEF Alone, Reached
  <2>. QED BY <1>2, <2>4, <2>5 DEF Begin, Posted
<1>3. CASE Receive("http")
  <2>1. SUFFICES ASSUME uploading # NoImage, clean, quiet["http"], Acked("http")'
                 PROVE  Reached(Place)' /\ NoUploads(inbox)'
    BY <1>0, <1>3 DEF Receive, End, Following, At, jobs
  <2>2. Alone
    BY <1>3, <2>1 DEF Receive, At, Inv, Following
  <2>3. inbox = << >> /\ (Head(outbox).reply.kind = "ACK" => Reached(Place))
    BY <1>3, <2>2 DEF Receive, Alone
  <2>4. answer'["http"] = [ok |-> TRUE, reply |-> Head(outbox).reply, stale |-> Head(outbox).stale]
    BY <1>0, <1>3 DEF Receive, End
  <2>5. Reached(Place)
    <3>1. answer'["http"].reply.kind = "ACK"
      BY <2>1 DEF Acked
    <3>2. answer'["http"].reply = Head(outbox).reply
      BY <2>4
    <3>. QED BY <2>3, <3>1, <3>2
  <2>6. inbox' = << >>
    <3>1. inbox' \in Seq(Message) /\ Len(inbox') = Len(inbox)
      BY <1>0, <1>3, StaleMessages DEF Receive
    <3>. QED BY <2>3, <3>1, EmptyIsZero, EmptySeq
  <2>. QED BY <2>5, <2>6, NoUploadsEmpty DEF Reached, Place, jobs
<1>. QED BY <1>1, <1>2, <1>3 DEF Exchange

LEMMA PollExchangeFollows ==
    ASSUME Inv, Exchange("poll"), UNCHANGED <<jobs, staged>>
    PROVE  Following'
<1>0. /\ pc \in [Tasks -> {"idle", "wait", "busy", "done"}] /\ answer \in [Tasks -> Result]
      /\ quiet \in [Tasks -> BOOLEAN] /\ inbox \in Seq(Message) /\ outbox \in Seq(Reaction)
      /\ "http" \in Tasks
  BY LinkTypes DEF Inv, Tasks
<1>1. CASE Refused("poll")
  BY <1>0, <1>1, SameFollows DEF Refused, jobs, Inv
<1>2. CASE Begin("poll") \/ BeginFailed("poll")
  <2>1. ~At("http", "busy") /\ At("poll", "wait")
    BY <1>0, <1>2 DEF Begin, BeginFailed, NobodyBusy
  <2>2. UNCHANGED <<pc["http"], quiet["http"], answer["http"]>>
    BY <1>0, <1>2 DEF Begin, BeginFailed, End
  <2>3. ASSUME NoUploads(inbox) PROVE NoUploads(inbox')
    <3>1. PICK posted \in Posted("poll") : inbox' = posted \/ inbox' = Stale(posted)
      BY <1>2 DEF Begin, BeginFailed
    <3>2. posted \in Seq(Message) /\ NoUploads(posted)
      BY <2>1, <2>3, PollPosts
    <3>. QED BY <3>1, <3>2, NoUploadsStale
  <2>4. NoUploads(inbox) => NoUploads(inbox)'
    BY <2>3 DEF NoUploads
  <2>. QED BY <2>1, <2>2, <2>4, UndisturbedFollows DEF jobs, Inv
<1>3. CASE Fail("poll") \/ Receive("poll")
  <2>1. ~At("http", "busy") /\ inbox' = Stale(inbox)
    BY <1>3 DEF Fail, Receive, Inv, OneBusy
  <2>2. UNCHANGED <<pc["http"], quiet["http"], answer["http"]>>
    BY <1>0, <1>3 DEF Fail, Receive, End
  <2>3. NoUploads(inbox) => NoUploads(inbox')
    BY <1>0, <2>1, NoUploadsStale
  <2>4. NoUploads(inbox) => NoUploads(inbox)'
    BY <2>3 DEF NoUploads
  <2>. QED BY <2>1, <2>2, <2>4, UndisturbedFollows DEF jobs, Inv
<1>. QED BY <1>1, <1>2, <1>3 DEF Exchange

LEMMA HttpAdvanceFollows ==
    ASSUME Inv, Advance("http")
    PROVE  Following'
<1>0. /\ pc \in [Tasks -> {"idle", "wait", "busy", "done"}] /\ "http" \in Tasks
      /\ todo \in [Tasks -> Seq(Command)] /\ UploadChunks \in Nat
  BY LinkTypes, GatewayAssumption DEF Inv, TypeOK, Tasks
<1>1. SUFFICES ASSUME uploading # NoImage, clean, quiet["http"],
                      todo'["http"] # << >> \/ verdict' = "ok"
               PROVE  Settled'
  BY <1>0 DEF Advance, Collect, Following, At
<1>2. At("http", "done") /\ todo["http"] # << >>
  BY DEF Advance, Collect, Inv, Tasked, Tasks
<1>3. Asked("http") \in AckCmd
  BY <1>1, <1>2, UploadIsAcked
<1>4. Success("http") /\ todo'["http"] = Tail(todo["http"])
  BY <1>0, <1>1, <1>3 DEF Advance, Decisive
<1>5. Acked("http")
  BY <1>3, <1>4 DEF Success, Acked
<1>6. Reached(Place) /\ NoUploads(inbox)
  BY <1>1, <1>2, <1>5 DEF Inv, Following
<1>7. Place' = Place + 1 /\ Place \in Int
  <2>1. Len(todo'["http"]) = Len(todo["http"]) - 1 /\ Len(todo["http"]) \in Nat
    BY <1>2, <1>4, HeadOfTodo DEF Inv, Tasks
  <2>. QED BY <1>0, <2>1 DEF Place
<1>8. inbox' = inbox /\ staged' = staged /\ uploading' = uploading
  BY DEF Advance, Collect
<1>9. NoUploads(inbox)'
  BY <1>6, <1>8 DEF NoUploads
<1>. QED BY <1>6, <1>7, <1>8, <1>9 DEF Settled, Reached

LEMMA ControllerFollows ==
    ASSUME Inv, Controller
    PROVE  Following'
<1> DEFINE c == Head(inbox).request
<1>0. /\ inbox \in Seq(Message) /\ outbox \in Seq(Reaction) /\ inbox # << >>
  BY LinkTypes DEF Inv, Controller
<1>1. /\ UNCHANGED <<pc, request, answer, quiet, uploading, clean, verdict, todo>>
      /\ inbox' = Tail(inbox)
  BY DEF Controller, ControllerAnswers, jobs
<1>2. CASE ~At("http", "busy")
  <2>1. ASSUME NoUploads(inbox) PROVE staged' = staged /\ NoUploads(inbox)'
    <3>1. NoUploads(Tail(inbox)) /\ c.cmd \notin UploadCmd
      BY <1>0, <2>1, NoUploadsTail
    <3>2. staged' = staged
      BY <3>1, OthersStageNothing DEF Controller
    <3>. QED BY <1>1, <3>1, <3>2 DEF NoUploads
  <2>. QED BY <1>1, <1>2, <2>1, UndisturbedFollows DEF Inv
<1>3. CASE At("http", "busy")
  <2>1. SUFFICES ASSUME uploading # NoImage, clean, quiet["http"]
                 PROVE  Alone'
    BY <1>1, <1>3 DEF Following, At
  <2>2. Alone
    BY <1>3, <2>1 DEF Inv, Following
  <2>3. /\ inbox = <<[request |-> request["http"], stale |-> FALSE]>> /\ outbox = << >>
        /\ Place > 0 => Reached(Place - 1)
    BY <1>0, <2>2 DEF Alone
  <2>4. todo["http"] # << >> /\ c = Head(todo["http"])
    BY <1>3, <2>3 DEF Inv, Tasked, Tasks
  <2>5. inbox' = << >>
    BY <1>1, <2>3
  <2>6. PICK a : outbox' = <<a>> /\ (a.reply.kind = "ACK" => staged' = Staged(c))
    <3>1. CASE \E m \in Replies(c) : ControllerAnswers(m) /\ staged' = Staged(c)
      BY <2>3, <3>1 DEF ControllerAnswers
    <3>2. CASE ControllerAnswers(Say("ERROR"))
      <4> DEFINE a == [reply |-> Say("ERROR"), stale |-> Head(inbox).stale]
      <4>1. outbox' = <<a>>
        BY <2>3, <3>2 DEF ControllerAnswers
      <4>2. a.reply.kind # "ACK"
        BY DEF Say
      <4>. QED BY <4>1, <4>2
    <3>. QED BY <3>1, <3>2 DEF Controller
  <2>7. a.reply.kind = "ACK" => Reached(Place)'
    BY <1>1, <2>1, <2>3, <2>4, <2>6, RequestStages DEF Reached, Place
  <2>8. Head(outbox') = a /\ Len(outbox') = 1
    BY <2>6
  <2>. QED BY <2>5, <2>7, <2>8 DEF Alone
<1>. QED BY <1>2, <1>3

LEMMA WireFollows ==
    ASSUME Inv, RequestLost \/ ReplyLost, UNCHANGED <<jobs, staged>>
    PROVE  Following'
<1>0. inbox \in Seq(Message) /\ outbox \in Seq(Reaction)
  BY LinkTypes DEF Inv
<1>1. UNCHANGED <<pc, request, answer, quiet, uploading, clean, verdict, todo, staged>>
  BY DEF RequestLost, ReplyLost, jobs
<1>2. CASE ~At("http", "busy")
  <2>1. NoUploads(inbox) => NoUploads(inbox')
    BY <1>0, NoUploadsTail DEF RequestLost, ReplyLost
  <2>2. NoUploads(inbox) => NoUploads(inbox)'
    BY <2>1 DEF NoUploads
  <2>. QED BY <1>1, <1>2, <2>2, UndisturbedFollows DEF Inv
<1>3. CASE At("http", "busy")
  <2>1. SUFFICES ASSUME uploading # NoImage, clean, quiet["http"]
                 PROVE  Alone'
    BY <1>1, <1>3 DEF Following, At
  <2>2. Alone
    BY <1>3, <2>1 DEF Inv, Following
  <2>3. CASE RequestLost
    <3>1. inbox' = << >> /\ outbox' = << >>
      BY <2>2, <2>3 DEF RequestLost, Alone
    <3>2. Len(outbox') <= 1
      BY <3>1
    <3>. QED BY <3>1, <3>2 DEF Alone
  <2>4. CASE ReplyLost
    <3>1. PICK i \in 1..Len(outbox) : outbox' = SubSeq(outbox, 1, i - 1) \o From(outbox, i + 1)
      BY <2>4 DEF ReplyLost
    <3>2. outbox' \in Seq(Reaction) /\ Len(outbox') = Len(outbox) - 1
      BY <1>0, <3>1, WithoutOne
    <3>3. outbox # << >> /\ inbox' = inbox
      BY <2>4 DEF ReplyLost
    <3>4. inbox = << >> /\ Len(outbox) <= 1
      BY <2>2, <3>3 DEF Alone
    <3>5. Len(outbox') = 0
      BY <1>0, <3>2, <3>3, <3>4, EmptyIsZero
    <3>6. outbox' = << >>
      BY <3>2, <3>5, EmptyIsZero
    <3>. QED BY <3>3, <3>4, <3>5, <3>6 DEF Alone
  <2>. QED BY <2>3, <2>4
<1>. QED BY <1>2, <1>3

LEMMA FollowingStep == Inv /\ [Next]_vars => Following'
<1> SUFFICES ASSUME Inv, [Next]_vars PROVE Following'
  OBVIOUS
<1>0. /\ pc \in [Tasks -> {"idle", "wait", "busy", "done"}]
      /\ request \in [Tasks -> Command \cup {NoRequest}]
      /\ answer \in [Tasks -> Result] /\ quiet \in [Tasks -> BOOLEAN]
      /\ todo \in [Tasks -> Seq(Command)] /\ Following /\ TypeOK /\ UploadChunks \in Nat
  BY LinkTypes, GatewayAssumption DEF Inv, TypeOK
<1>1. CASE UNCHANGED vars \/ UNCHANGED <<link, jobs, staged>>
  BY <1>0, <1>1, SameFollows DEF vars, link, jobs
<1>2. CASE StartPoll
  BY <1>0, <1>2, SameFollows DEF StartPoll, Start, Ask, Tasks
<1>3. CASE StartUpload
  <2>1. PICK g \in Images : StartHttp(UploadJob(g), g)
    BY <1>3 DEF StartUpload
  <2>2. todo'["http"] = UploadJob(g) /\ pc'["http"] = "wait"
    BY <1>0, <2>1 DEF StartHttp, Start, Ask, Tasks
  <2>3. Place' = 0
    <3>1. Len(UploadJob(g)) = UploadChunks + 2
      BY UploadJobIs
    <3>. QED BY <1>0, <2>2, <3>1 DEF Place
  <2>. QED BY <2>2, <2>3 DEF Following, Settled, At
<1>4. CASE StartOther
  BY <1>4 DEF StartOther, StartHttp, Following
<1>5. CASE AskNext("poll")
  BY <1>0, <1>5, SameFollows DEF AskNext, Ask, jobs, Tasks
<1>6. CASE AskNext("http")
  <2>1. /\ UNCHANGED <<todo, uploading, clean, verdict, staged, inbox>>
        /\ todo["http"] # << >> /\ At("http", "idle") /\ pc'["http"] = "wait"
    BY <1>0, <1>6 DEF AskNext, Ask, jobs, Tasks
  <2>2. uploading # NoImage /\ clean => Settled
    BY <1>0, <2>1 DEF Following
  <2>. QED BY <2>1, <2>2 DEF Following, Settled, Reached, Place, NoUploads, At
<1>7. ASSUME NEW t \in Tasks, Exchange(t), UNCHANGED <<jobs, staged>> PROVE Following'
  BY <1>7, HttpExchangeFollows, PollExchangeFollows DEF Tasks
<1>8. CASE Advance("poll")
  <2>1. clean' = clean /\ verdict' = verdict
    BY <1>0, <1>8 DEF Advance, TypeOK
  <2>. QED BY <1>0, <1>8, <2>1, SameFollows DEF Advance, Collect, Tasks
<1>9. CASE Advance("http")
  BY <1>9, HttpAdvanceFollows
<1>10. CASE Controller
  BY <1>10, ControllerFollows
<1>11. CASE (RequestLost \/ ReplyLost) /\ UNCHANGED <<jobs, staged>>
  BY <1>11, WireFollows
<1>. QED
  BY <1>0, <1>1, <1>2, <1>3, <1>4, <1>5, <1>6, <1>7, <1>8, <1>9, <1>10, <1>11, Steps DEF Tasks

-----------------------------------------------------------------------------

LEMMA InitInv == Init => Inv
<1> SUFFICES ASSUME Init PROVE Inv
  OBVIOUS
<1>1. TypeOK
  <2>1. LinkTypeOK
    BY DEF Init, LinkInit, LinkTypeOK
  <2>2. staged \in [of : Images \cup {NoImage}, n : -1..(UploadChunks + 1)]
    BY GatewayAssumption DEF Init
  <2>3. todo \in [Tasks -> Seq(Command)] /\ cut \in [Tasks -> {"connected", "running"}]
    BY DEF Init
  <2>. QED BY <2>1, <2>2, <2>3 DEF Init, TypeOK
<1>2. todo["poll"] = << >> /\ todo["http"] = << >> /\ Len(todo["poll"]) = 0 /\ Len(todo["http"]) = 0
  BY DEF Init, Tasks
<1>3. \A t \in Tasks : pc[t] = "idle"
  BY DEF Init, LinkInit
<1>4. Tasked /\ OneBusy
  BY <1>3 DEF Tasked, OneBusy, At, Tasks
<1>5. PollAsks /\ Ended /\ HttpAsks /\ Following
  BY <1>2 DEF PollAsks, Ended, HttpAsks, Following, Init
<1>. QED BY <1>1, <1>4, <1>5 DEF Inv

LEMMA InvStep == Inv /\ [Next]_vars => Inv'
BY TypeStep, TaskedStep, OneBusyStep, PollAsksStep, HttpAsksStep, EndedStep, FollowingStep DEF Inv

LEMMA InvDelivers == Inv => UploadDelivered
<1> SUFFICES ASSUME Inv, verdict = "ok", uploading # NoImage, clean
             PROVE  staged = [of |-> uploading, n |-> Complete]
  BY DEF UploadDelivered
<1>1. todo["http"] = << >> /\ UploadChunks \in Nat
  BY GatewayAssumption DEF Inv, Ended
<1>2. At("http", "idle") \/ At("http", "wait")
  BY <1>1, LinkTypes DEF Inv, Tasked, At, Tasks
<1>3. Place = UploadChunks + 2
  BY <1>1, EmptySeq DEF Place
<1>4. Reached(Place - 1)
  BY <1>1, <1>2, <1>3 DEF Inv, Following, Settled
<1>. QED BY <1>1, <1>3, <1>4 DEF Reached, Complete

\* Tasks, jobs, cache and the controller's staging keep their types.
THEOREM GatewayTypeCorrect == Spec => []TypeOK
<1>1. Inv => TypeOK
  BY DEF Inv
<1>. QED BY InitInv, InvStep, <1>1, PTL DEF Spec

\* plc_client_upload_graph_image returns ESP_OK only when the controller has
\* the whole image, if nothing of an earlier exchange was under way in any of
\* its own.
THEOREM UploadDeliveredAlways == Spec => []UploadDelivered
BY InitInv, InvStep, InvDelivers, PTL DEF Spec
=============================================================================
