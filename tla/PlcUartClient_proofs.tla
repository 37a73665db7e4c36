------------------------- MODULE PlcUartClient_proofs -------------------------
(***************************************************************************)
(* Theorems about PlcUartClient, for any tasks, requests and replies, and  *)
(* buffers of any size.                                                    *)
(***************************************************************************)
EXTENDS PlcUartClient, SequenceTheorems, WellFoundedInduction, TLAPS

Posted == [request : Request, stale : BOOLEAN]
Result == {Failed} \cup [ok : {TRUE}, reply : Reply, stale : BOOLEAN]

-----------------------------------------------------------------------------
(* Sequences.                                                              *)

Fresh(s) == \A i \in 1..Len(s) : ~s[i].stale

LEMMA SeqOfFunction ==
    ASSUME NEW S, NEW n \in Nat, NEW f \in [1..n -> S]
    PROVE  f \in Seq(S)
BY SeqDef

LEMMA StalePieces ==
    ASSUME NEW s \in Seq(Piece)
    PROVE  Stale(s) \in Seq(Piece)
<1>1. Len(s) \in Nat /\ \A i \in 1..Len(s) : s[i] \in Piece
  BY LenProperties, ElementOfSeq
<1>2. Stale(s) \in [1..Len(s) -> Piece]
  BY <1>1 DEF Stale, Piece
<1>. QED BY <1>1, <1>2, SeqOfFunction

LEMMA StalePosted ==
    ASSUME NEW s \in Seq(Posted)
    PROVE  Stale(s) \in Seq(Posted)
<1>1. Len(s) \in Nat /\ \A i \in 1..Len(s) : s[i] \in Posted
  BY LenProperties, ElementOfSeq
<1>2. Stale(s) \in [1..Len(s) -> Posted]
  BY <1>1 DEF Stale, Posted
<1>. QED BY <1>1, <1>2, SeqOfFunction

LEMMA TailType ==
    ASSUME NEW S, NEW s \in Seq(S), s # << >>
    PROVE  Head(s) \in S /\ Tail(s) \in Seq(S)
BY HeadTailProperties

LEMMA AppendType ==
    ASSUME NEW S, NEW s \in Seq(S), NEW e \in S
    PROVE  Append(s, e) \in Seq(S)
OBVIOUS

LEMMA FreshEmpty == Fresh(<< >>)
BY DEF Fresh

LEMMA FreshTail ==
    ASSUME NEW S, NEW s \in Seq(S), s # << >>, Fresh(s)
    PROVE  ~Head(s).stale /\ Fresh(Tail(s))
<1>1. Len(s) \in Nat /\ Len(s) # 0 /\ Head(s) = s[1]
  BY EmptySeq, LenProperties
<1>2. Len(Tail(s)) = Len(s) - 1 /\ \A i \in 1..Len(Tail(s)) : Tail(s)[i] = s[i + 1]
  BY HeadTailProperties
<1>. QED BY <1>1, <1>2 DEF Fresh

LEMMA FreshAppend ==
    ASSUME NEW S, NEW s \in Seq(S), NEW e \in S, Fresh(s), ~e.stale
    PROVE  Fresh(Append(s, e))
<1>1. Len(s) \in Nat /\ Len(Append(s, e)) = Len(s) + 1
  BY LenProperties
<1>2. \A i \in 1..(Len(s) + 1) : Append(s, e)[i] = IF i <= Len(s) THEN s[i] ELSE e
  BY <1>1
<1>. QED BY <1>1, <1>2 DEF Fresh

LEMMA FreshConcat ==
    ASSUME NEW S, NEW s \in Seq(S), NEW u \in Seq(S), Fresh(s), Fresh(u)
    PROVE  Fresh(s \o u)
<1>1. Len(s) \in Nat /\ Len(u) \in Nat /\ Len(s \o u) = Len(s) + Len(u)
  BY LenProperties, ConcatProperties
<1>2. \A i \in 1..(Len(s) + Len(u)) :
         (s \o u)[i] = IF i <= Len(s) THEN s[i] ELSE u[i - Len(s)]
  BY ConcatProperties
<1>. QED BY <1>1, <1>2 DEF Fresh

-----------------------------------------------------------------------------
(* Types.  A task that is about to send has a request to send.             *)

Asking == \A t \in Tasks : pc[t] \in {"take", "send"} => request[t] \in Request

Typed == LinkTypeOK /\ Asking

USE DEF Posted

LEMMA TypedInit == LinkInit => Typed
<1>. SUFFICES ASSUME LinkInit PROVE Typed
  OBVIOUS
<1>1. LinkTypeOK
  BY EmptySeq DEF LinkInit, LinkTypeOK
<1>2. Asking
  BY DEF LinkInit, Asking
<1>. QED BY <1>1, <1>2 DEF Typed

LEMMA SentType ==
    ASSUME Typed, NEW t \in Tasks, pc[t] = "send"
    PROVE  Sent(t) \in Seq(Posted)
<1>1. [request |-> request[t], stale |-> FALSE] \in Posted
  BY DEF Typed, Asking
<1>2. inbox \in Seq(Posted)
  BY DEF Typed, LinkTypeOK
<1>. QED BY <1>1, <1>2, AppendType DEF Sent

LEMMA FinishTyped ==
    ASSUME Typed, NEW t \in Tasks, NEW result \in Result,
           NEW newInbox \in Seq(Posted), NEW newRx \in Seq(Piece),
           quiet' \in [Tasks -> BOOLEAN],
           Finish(t, result, newInbox, newRx)
    PROVE  Typed'
<1>1. inbox' \in Seq(Posted) /\ outbox' \in Seq(Piece) /\ rx' \in Seq(Piece)
  BY StalePosted, StalePieces DEF Typed, LinkTypeOK, Finish
<1>2. /\ pc' \in [Tasks -> {"idle", "take", "send", "len", "body", "done"}]
      /\ request' \in [Tasks -> Request \cup {NoRequest}]
      /\ answer' \in [Tasks -> Result]
      /\ mutex' \in Tasks \cup {Free}
  BY DEF Typed, LinkTypeOK, Finish, Result
<1>3. LinkTypeOK'
  BY <1>1, <1>2 DEF LinkTypeOK, Result
<1>4. Asking'
  BY DEF Typed, LinkTypeOK, Asking, Finish
<1>. QED BY <1>3, <1>4 DEF Typed

LEMMA ReceivedType ==
    ASSUME Typed, rx # << >>
    PROVE  /\ Head(rx).part = "body" /\ Head(rx).reply # Noise => Received \in Result
           /\ Failed \in Result
<1>1. Head(rx) \in Piece
  BY TailType DEF Typed, LinkTypeOK
<1>. QED BY <1>1 DEF Piece, Received, Result

LEMMA ExchangeTyped ==
    ASSUME Typed, NEW t \in Tasks, Exchange(t)
    PROVE  Typed'
<1>. USE DEF At
<1>1. inbox \in Seq(Posted) /\ outbox \in Seq(Piece) /\ rx \in Seq(Piece) /\ Failed \in Result
  BY DEF Typed, LinkTypeOK, Result
<1>2. << >> \in Seq(Piece)
  BY EmptySeq
<1>3. CASE Take(t)
  BY <1>3 DEF Take, Typed, LinkTypeOK, Asking, line
<1>4. CASE TakeTimeout(t)
  BY <1>4 DEF TakeTimeout, Typed, LinkTypeOK, Asking, line
<1>5. ASSUME quiet' = [quiet EXCEPT ![t] = Quiet]
      PROVE  quiet' \in [Tasks -> BOOLEAN]
  BY <1>5 DEF Typed, LinkTypeOK, Quiet
<1>6. CASE SendShort(t)
  BY <1>1, <1>2, <1>5, <1>6, FinishTyped DEF SendShort
<1>7. CASE SendTimeout(t)
  BY <1>1, <1>2, <1>5, <1>7, SentType, FinishTyped DEF SendTimeout
<1>8. CASE Send(t)
  <2>1. inbox' \in Seq(Posted) /\ rx' \in Seq(Piece) /\ quiet' \in [Tasks -> BOOLEAN]
    BY <1>2, <1>5, <1>8, SentType DEF Send
  <2>. QED BY <1>8, <2>1 DEF Send, Typed, LinkTypeOK, Asking
<1>9. quiet \in [Tasks -> BOOLEAN]
  BY DEF Typed, LinkTypeOK
<1>10. CASE ReadTimeout(t)
  BY <1>1, <1>9, <1>10, FinishTyped DEF ReadTimeout
<1>11. ASSUME rx # << >> PROVE Tail(rx) \in Seq(Piece)
  BY <1>1, <1>11, TailType
<1>12. CASE ReadLen(t)
  <2>1. rx' \in Seq(Piece)
    BY <1>11, <1>12 DEF ReadLen
  <2>. QED BY <1>12, <2>1 DEF ReadLen, Typed, LinkTypeOK, Asking
<1>13. CASE ReadBadLen(t)
  BY <1>1, <1>9, <1>11, <1>13, FinishTyped DEF ReadBadLen
<1>14. CASE ReadBody(t)
  BY <1>1, <1>9, <1>11, <1>14, ReceivedType, FinishTyped DEF ReadBody
<1>. QED BY <1>3, <1>4, <1>6, <1>7, <1>8, <1>10, <1>12, <1>13, <1>14 DEF Exchange

LEMMA RestTyped ==
    ASSUME Typed,
           \/ \E t \in Tasks : Collect(t) \/ \E r \in Request : Ask(t, r)
           \/ \E m \in Reply : ControllerAnswers(m)
           \/ RequestLost \/ Arrives
    PROVE  Typed'
<1>. USE DEF At
<1>1. inbox \in Seq(Posted) /\ outbox \in Seq(Piece) /\ rx \in Seq(Piece)
  BY DEF Typed, LinkTypeOK
<1>2. ASSUME NEW t \in Tasks, Collect(t) PROVE Typed'
  BY <1>2 DEF Collect, Typed, LinkTypeOK, Asking, line
<1>3. ASSUME NEW t \in Tasks, NEW r \in Request, Ask(t, r) PROVE Typed'
  BY <1>3 DEF Ask, Typed, LinkTypeOK, Asking, line
<1>4. ASSUME NEW m \in Reply, ControllerAnswers(m) PROVE Typed'
  <2> DEFINE reply == << [part |-> "len", reply |-> m, stale |-> Head(inbox).stale],
                         [part |-> "body", reply |-> m, stale |-> Head(inbox).stale] >>
  <2>0. Head(inbox) \in Posted /\ Tail(inbox) \in Seq(Posted)
    BY <1>1, <1>4, TailType DEF ControllerAnswers
  <2>1. Head(inbox).stale \in BOOLEAN
    BY <2>0
  <2>2. reply \in Seq(Piece)
    BY <2>1 DEF Piece
  <2> HIDE DEF reply
  <2>3. outbox \o reply \in Seq(Piece)
    BY <1>1, <2>2, ConcatProperties
  <2>4. outbox' \in Seq(Piece) /\ inbox' \in Seq(Posted)
    BY <1>4, <2>0, <2>3 DEF ControllerAnswers, reply
  <2>. QED BY <1>4, <2>4 DEF ControllerAnswers, Typed, LinkTypeOK, Asking, clients
<1>5. CASE RequestLost
  <2>1. inbox' \in Seq(Posted)
    BY <1>1, <1>5, TailType DEF RequestLost
  <2>. QED BY <1>5, <2>1 DEF RequestLost, Typed, LinkTypeOK, Asking, clients
<1>6. CASE Arrives
  <2>1. Head(outbox) \in Piece /\ outbox' \in Seq(Piece)
    BY <1>1, <1>6, TailType DEF Arrives
  <2>2. PICK content \in {Head(outbox).reply, Noise} :
          rx' = IF Len(rx) < RxBound
                THEN Append(rx, [Head(outbox) EXCEPT !.reply = content]) ELSE rx
    BY <1>6 DEF Arrives
  <2>3. [Head(outbox) EXCEPT !.reply = content] \in Piece
    BY <2>1 DEF Piece
  <2>4. rx' \in Seq(Piece)
    BY <1>1, <2>2, <2>3, AppendType
  <2>. QED BY <1>6, <2>1, <2>4 DEF Arrives, Typed, LinkTypeOK, Asking, clients
<1>. QED BY <1>2, <1>3, <1>4, <1>5, <1>6

LEMMA TypedStep == Typed /\ [LinkNext]_linkVars => Typed'
<1>1. Typed /\ UNCHANGED linkVars => Typed'
  BY DEF Typed, LinkTypeOK, Asking, linkVars, clients, line
<1>. QED BY <1>1, ExchangeTyped, RestTyped DEF LinkNext

LEMMA AlwaysTyped == LinkSpec => []Typed
BY TypedInit, TypedStep, PTL DEF LinkSpec

\* What a request returns as a success is a reply of the controller, never a
\* damaged one, and the buffers hold whole pieces.
THEOREM LinkTypeCorrect == LinkSpec => []LinkTypeOK
<1>1. Typed => LinkTypeOK
  BY DEF Typed
<1>. QED BY <1>1, AlwaysTyped, PTL

-----------------------------------------------------------------------------
(* The mutex.  Only the task that holds it is inside an exchange.          *)

Inside == {"send", "len", "body"}

LEMMA MutexInit == LinkInit => MutexIsInUse
BY LinkAssumption DEF LinkInit, MutexIsInUse, Inside

LEMMA Alone ==
    ASSUME Typed, MutexIsInUse, NEW t \in Tasks, pc[t] \in Inside,
           NEW u \in Tasks, u # t
    PROVE  pc[u] \notin Inside
BY DEF MutexIsInUse, Inside

LEMMA FinishMutex ==
    ASSUME Typed, MutexIsInUse, NEW t \in Tasks, pc[t] \in Inside,
           pc' = [pc EXCEPT ![t] = "done"], mutex' = Free
    PROVE  MutexIsInUse'
<1>1. \A u \in Tasks : pc'[u] = IF u = t THEN "done" ELSE pc[u]
  BY DEF Typed, LinkTypeOK
<1>2. \A u \in Tasks : pc'[u] \notin {"send", "len", "body"}
  BY <1>1, Alone DEF Inside
<1>. QED BY <1>2, LinkAssumption DEF MutexIsInUse

LEMMA ExchangeMutex ==
    ASSUME Typed, MutexIsInUse, NEW t \in Tasks, Exchange(t)
    PROVE  MutexIsInUse'
<1>. USE DEF At
<1>1. CASE Take(t)
  BY <1>1, LinkAssumption DEF Take, Typed, LinkTypeOK, MutexIsInUse
<1>2. CASE TakeTimeout(t)
  BY <1>2 DEF TakeTimeout, Typed, LinkTypeOK, MutexIsInUse
<1>3. CASE SendShort(t) \/ SendTimeout(t)
  BY <1>3, FinishMutex DEF SendShort, SendTimeout, Finish, Inside
<1>4. CASE Send(t)
  BY <1>4 DEF Send, Typed, LinkTypeOK, MutexIsInUse
<1>5. CASE ReadLen(t)
  BY <1>5 DEF ReadLen, Typed, LinkTypeOK, MutexIsInUse
<1>6. CASE ReadTimeout(t) \/ ReadBadLen(t) \/ ReadBody(t)
  BY <1>6, FinishMutex DEF ReadTimeout, ReadBadLen, ReadBody, Finish, Inside
<1>. QED BY <1>1, <1>2, <1>3, <1>4, <1>5, <1>6 DEF Exchange

LEMMA MutexStep == Typed /\ MutexIsInUse /\ [LinkNext]_linkVars => MutexIsInUse'
<1>. SUFFICES ASSUME Typed, MutexIsInUse, [LinkNext]_linkVars PROVE MutexIsInUse'
  OBVIOUS
<1>1. ASSUME NEW t \in Tasks, Collect(t) \/ \E r \in Request : Ask(t, r)
      PROVE  MutexIsInUse'
  BY <1>1 DEF Collect, Ask, At, Typed, LinkTypeOK, MutexIsInUse
<1>2. CASE \/ \E m \in Reply : ControllerAnswers(m)
           \/ RequestLost \/ Arrives \/ UNCHANGED linkVars
  BY <1>2 DEF ControllerAnswers, RequestLost, Arrives, linkVars, clients, MutexIsInUse
<1>. QED BY <1>1, <1>2, ExchangeMutex DEF LinkNext

\* Every way out of plc_uart_client_request, the early ones included, gives the
\* mutex back, and nobody writes or reads on the line without it.
THEOREM MutexIsInUseAlways == LinkSpec => []MutexIsInUse
BY MutexInit, MutexStep, AlwaysTyped, PTL DEF LinkSpec

-----------------------------------------------------------------------------
(* Whose reply it is.  While an exchange that began quietly lasts, nothing *)
(* older is on the line.                                                   *)

OnlyOwn ==
    \A t \in Tasks : pc[t] \in {"len", "body"} /\ quiet[t] =>
        Fresh(inbox) /\ Fresh(outbox) /\ Fresh(rx)

OwnInv == OnlyOwn /\ QuietAnswerIsOwn

LEMMA OwnInit == LinkInit => OwnInv
BY DEF LinkInit, OwnInv, OnlyOwn, QuietAnswerIsOwn, At

\* An exchange that ends: nobody else is inside one.
LEMMA FinishOwn ==
    ASSUME Typed, MutexIsInUse, OwnInv, NEW t \in Tasks, pc[t] \in Inside,
           NEW result \in Result, pc' = [pc EXCEPT ![t] = "done"],
           answer' = [answer EXCEPT ![t] = result],
           \A u \in Tasks : u # t => quiet'[u] = quiet[u],
           result.ok /\ quiet'[t] => ~result.stale
    PROVE  OwnInv'
<1>1. \A u \in Tasks : pc'[u] = IF u = t THEN "done" ELSE pc[u]
  BY DEF Typed, LinkTypeOK
<1>2. OnlyOwn'
  BY <1>1, Alone DEF OnlyOwn, Inside
<1>3. \A u \in Tasks : answer'[u] = IF u = t THEN result ELSE answer[u]
  BY DEF Typed, LinkTypeOK
<1>4. QuietAnswerIsOwn'
  BY <1>1, <1>3 DEF OwnInv, QuietAnswerIsOwn, At
<1>. QED BY <1>2, <1>4 DEF OwnInv

LEMMA SendOwn ==
    ASSUME Typed, MutexIsInUse, OwnInv, NEW t \in Tasks, Send(t)
    PROVE  OwnInv'
<1>1. pc[t] = "send" /\ \A u \in Tasks : u # t => pc[u] \notin Inside
  BY Alone DEF Send, At, Inside
<1>2. \A u \in Tasks : pc'[u] = IF u = t THEN "len" ELSE pc[u]
  BY DEF Send, Typed, LinkTypeOK
<1>3. ASSUME Quiet PROVE Fresh(inbox') /\ Fresh(outbox') /\ Fresh(rx')
  <2>1. Fresh(Sent(t))
    <3>1. [request |-> request[t], stale |-> FALSE] \in Posted
      BY <1>1 DEF Typed, Asking
    <3>2. inbox \in Seq(Posted) /\ Fresh(inbox)
      BY <1>3, FreshEmpty DEF Quiet, Typed, LinkTypeOK
    <3>. QED BY <3>1, <3>2, FreshAppend DEF Sent
  <2>. QED BY <1>3, <2>1, FreshEmpty DEF Send, Quiet
<1>4. quiet'[t] = Quiet
  BY DEF Send, Typed, LinkTypeOK
<1>5. OnlyOwn'
  BY <1>1, <1>2, <1>3, <1>4 DEF OnlyOwn, Inside
<1>6. QuietAnswerIsOwn'
  BY <1>2 DEF OwnInv, QuietAnswerIsOwn, At, Send, Typed, LinkTypeOK
<1>. QED BY <1>5, <1>6 DEF OwnInv

LEMMA ReadOwn ==
    ASSUME Typed, MutexIsInUse, OwnInv, NEW t \in Tasks, Exchange(t),
           pc[t] \in {"len", "body"}
    PROVE  OwnInv'
<1>. USE DEF At
<1>1. rx \in Seq(Piece) /\ inbox \in Seq(Posted) /\ pc[t] \in Inside /\ Failed \in Result
  BY DEF Typed, LinkTypeOK, Result, Inside
<1>2. quiet[t] => Fresh(inbox) /\ Fresh(outbox) /\ Fresh(rx)
  BY DEF OwnInv, OnlyOwn
<1>3. CASE ReadTimeout(t) \/ ReadBadLen(t)
  BY <1>1, <1>3, FinishOwn DEF ReadTimeout, ReadBadLen, Finish, Failed
<1>4. CASE ReadLen(t)
  <2>1. quiet[t] => Fresh(rx')
    BY <1>1, <1>2, <1>4, FreshTail DEF ReadLen
  <2>2. \A u \in Tasks : u # t => pc[u] \notin Inside
    BY <1>1, Alone
  <2>3. \A u \in Tasks : pc'[u] = IF u = t THEN "body" ELSE pc[u]
    BY <1>4 DEF ReadLen, Typed, LinkTypeOK
  <2>4. OnlyOwn'
    BY <1>2, <1>4, <2>1, <2>2, <2>3 DEF ReadLen, OnlyOwn, Inside
  <2>5. QuietAnswerIsOwn'
    BY <1>4, <2>3 DEF ReadLen, OwnInv, QuietAnswerIsOwn
  <2>. QED BY <2>4, <2>5 DEF OwnInv
<1>5. CASE ReadBody(t)
  <2>1. rx # << >> /\ (quiet[t] => ~Head(rx).stale)
    BY <1>1, <1>2, <1>5, FreshTail DEF ReadBody
  <2>2. CASE Head(rx).part = "body" /\ Head(rx).reply # Noise
    <3>1. Received \in Result
      BY <2>1, <2>2, ReceivedType
    <3>2. quiet'[t] => ~Received.stale
      BY <1>5, <2>1 DEF ReadBody, Received
    <3>. QED BY <1>1, <1>5, <2>2, <3>1, <3>2, FinishOwn DEF ReadBody, Finish
  <2>3. CASE ~(Head(rx).part = "body" /\ Head(rx).reply # Noise)
    BY <1>1, <1>5, <2>3, FinishOwn DEF ReadBody, Finish, Failed
  <2>. QED BY <2>2, <2>3
<1>6. ~Take(t) /\ ~TakeTimeout(t) /\ ~SendShort(t) /\ ~SendTimeout(t) /\ ~Send(t)
  BY DEF Take, TakeTimeout, SendShort, SendTimeout, Send
<1>. QED BY <1>3, <1>4, <1>5, <1>6 DEF Exchange

LEMMA ExchangeOwn ==
    ASSUME Typed, MutexIsInUse, OwnInv, NEW t \in Tasks, Exchange(t)
    PROVE  OwnInv'
<1>. USE DEF At
<1>1. CASE Take(t)
  BY <1>1 DEF Take, Typed, LinkTypeOK, OwnInv, OnlyOwn, QuietAnswerIsOwn, line
<1>2. CASE TakeTimeout(t)
  BY <1>2 DEF TakeTimeout, Typed, LinkTypeOK, OwnInv, OnlyOwn, QuietAnswerIsOwn, line, Failed
<1>3. CASE SendShort(t) \/ SendTimeout(t)
  <2>1. pc[t] \in Inside /\ Failed \in Result /\ ~Failed.ok
    BY <1>3 DEF SendShort, SendTimeout, Inside, Result, Failed
  <2>2. \A u \in Tasks : u # t => quiet'[u] = quiet[u]
    BY <1>3 DEF SendShort, SendTimeout, Typed, LinkTypeOK
  <2>. QED BY <1>3, <2>1, <2>2, FinishOwn DEF SendShort, SendTimeout, Finish
<1>4. CASE Send(t)
  BY <1>4, SendOwn
<1>5. CASE pc[t] \in {"len", "body"}
  BY <1>5, ReadOwn
<1>6. ReadTimeout(t) \/ ReadLen(t) \/ ReadBadLen(t) \/ ReadBody(t) => pc[t] \in {"len", "body"}
  BY DEF ReadTimeout, ReadLen, ReadBadLen, ReadBody
<1>. QED BY <1>1, <1>2, <1>3, <1>4, <1>5, <1>6 DEF Exchange

\* What the wire and the controller do keeps the marks.
LEMMA WireOwn ==
    ASSUME Typed, OwnInv,
           (\E m \in Reply : ControllerAnswers(m)) \/ RequestLost \/ Arrives
    PROVE  OwnInv'
<1>1. inbox \in Seq(Posted) /\ outbox \in Seq(Piece) /\ rx \in Seq(Piece)
  BY DEF Typed, LinkTypeOK
<1>2. pc' = pc /\ quiet' = quiet /\ answer' = answer
  BY DEF ControllerAnswers, RequestLost, Arrives, clients
<1>3. ASSUME Fresh(inbox), Fresh(outbox), Fresh(rx)
      PROVE  Fresh(inbox') /\ Fresh(outbox') /\ Fresh(rx')
  <2>1. ASSUME NEW m \in Reply, ControllerAnswers(m)
        PROVE  Fresh(inbox') /\ Fresh(outbox') /\ Fresh(rx')
    <3> DEFINE reply == << [part |-> "len", reply |-> m, stale |-> Head(inbox).stale],
                           [part |-> "body", reply |-> m, stale |-> Head(inbox).stale] >>
    <3>1. ~Head(inbox).stale /\ Fresh(Tail(inbox)) /\ Head(inbox) \in Posted
      BY <1>1, <1>3, <2>1, FreshTail, TailType DEF ControllerAnswers
    <3>2. reply \in Seq(Piece)
      BY <3>1 DEF Piece
    <3>3. Fresh(reply)
      BY <3>1 DEF Fresh
    <3>4. outbox' = outbox \o reply /\ inbox' = Tail(inbox) /\ rx' = rx
      BY <2>1 DEF ControllerAnswers
    <3> HIDE DEF reply
    <3>. QED BY <1>1, <1>3, <3>1, <3>2, <3>3, <3>4, FreshConcat
  <2>2. CASE RequestLost
    BY <1>1, <1>3, <2>2, FreshTail DEF RequestLost
  <2>3. CASE Arrives
    <3>1. Head(outbox) \in Piece /\ ~Head(outbox).stale /\ Fresh(Tail(outbox))
      BY <1>1, <1>3, <2>3, TailType, FreshTail DEF Arrives
    <3>2. PICK content \in {Head(outbox).reply, Noise} :
            rx' = IF Len(rx) < RxBound
                  THEN Append(rx, [Head(outbox) EXCEPT !.reply = content]) ELSE rx
      BY <2>3 DEF Arrives
    <3> DEFINE piece == [Head(outbox) EXCEPT !.reply = content]
    <3>3. piece \in Piece /\ ~piece.stale
      BY <3>1 DEF Piece
    <3> HIDE DEF piece
    <3>4. Fresh(rx')
      BY <1>1, <1>3, <3>2, <3>3, FreshAppend DEF piece
    <3>. QED BY <1>3, <2>3, <3>1, <3>4 DEF Arrives
  <2>. QED BY <2>1, <2>2, <2>3
<1>. QED BY <1>2, <1>3 DEF OwnInv, OnlyOwn, QuietAnswerIsOwn, At

LEMMA OwnStep == Typed /\ MutexIsInUse /\ OwnInv /\ [LinkNext]_linkVars => OwnInv'
<1>. SUFFICES ASSUME Typed, MutexIsInUse, OwnInv, [LinkNext]_linkVars PROVE OwnInv'
  OBVIOUS
<1>1. ASSUME NEW t \in Tasks, Collect(t) \/ \E r \in Request : Ask(t, r)
      PROVE  OwnInv'
  BY <1>1 DEF Collect, Ask, At, Typed, LinkTypeOK, OwnInv, OnlyOwn, QuietAnswerIsOwn, line
<1>2. CASE UNCHANGED linkVars
  BY <1>2 DEF linkVars, clients, line, OwnInv, OnlyOwn, QuietAnswerIsOwn, At
<1>. QED BY <1>1, <1>2, ExchangeOwn, WireOwn DEF LinkNext

\* No reply is ever compared with its request, yet one that was asked for with
\* nothing under way is answered by its own reply: the mutex and the flush
\* before the write are enough.
THEOREM QuietAnswerIsOwnAlways == LinkSpec => []QuietAnswerIsOwn
<1>1. OwnInv => QuietAnswerIsOwn
  BY DEF OwnInv
<1>. QED BY <1>1, OwnInit, OwnStep, MutexIsInUseAlways, AlwaysTyped, PTL DEF LinkSpec

-----------------------------------------------------------------------------
(* What is held of every sequence.                                         *)

\* A set of numbers that holds 0 and the successor of each of its members.
LEMMA AllNumbers ==
    ASSUME NEW S, 0 \in S, \A n \in Nat : n \in S => n + 1 \in S
    PROVE  Nat \subseteq S
<1> DEFINE R == OpToRel(<, Nat)
           T == Nat \ S
<1>1. IsWellFoundedOn(R, Nat)
  BY NatLessThanWellFounded
<1>2. SUFFICES ASSUME T # {} PROVE FALSE
  OBVIOUS
<1> HIDE DEF R
<1>3. PICK x \in T : \A y \in T : ~(<<y, x>> \in R)
  BY <1>1, <1>2, WFMin
<1>4. \A y \in T : ~(y < x)
  BY <1>3 DEF R, OpToRel
<1>5. x \in Nat /\ x # 0 /\ x \notin S
  BY DEF T
<1>6. x - 1 \in T
  BY <1>5 DEF T
<1>. QED BY <1>4, <1>5, <1>6

\* A set of sequences that holds the empty one and can be appended to.
LEMMA AllSequences ==
    ASSUME NEW S, NEW G, << >> \in G,
           \A s \in Seq(S), e \in S : s \in G => Append(s, e) \in G
    PROVE  Seq(S) \subseteq G
<1> DEFINE N == {n \in Nat : \A s \in Seq(S) : Len(s) = n => s \in G}
<1>1. 0 \in N
  BY EmptySeq
<1>2. ASSUME NEW n \in Nat, n \in N PROVE n + 1 \in N
  <2>1. SUFFICES ASSUME NEW s \in Seq(S), Len(s) = n + 1 PROVE s \in G
    BY DEF N
  <2>2. s # << >>
    BY <2>1, EmptySeq
  <2>3. PICK r \in Seq(S), e \in S : s = Append(r, e)
    BY <2>2, SequenceEmptyOrAppend
  <2>4. Len(r) = n
    BY <2>1, <2>3, AppendProperties, LenProperties
  <2>. QED BY <1>2, <2>3, <2>4 DEF N
<1> HIDE DEF N
<1>3. Nat \subseteq N
  BY <1>1, <1>2, AllNumbers
<1>. QED BY <1>3, LenProperties DEF N

-----------------------------------------------------------------------------
(* The replies that pieces hold.                                           *)

Whole == [reply : Reply, stale : BOOLEAN]

Part(p) == IF Undamaged(p) THEN <<[reply |-> p.reply, stale |-> p.stale]>> ELSE << >>

Folded(s, f) ==
    f = [n \in 0..Len(s) |->
           IF n = 0 THEN << >>
           ELSE IF Undamaged(s[n])
           THEN Append(f[n - 1], [reply |-> s[n].reply, stale |-> s[n].stale])
           ELSE f[n - 1]]

LEMMA PartType ==
    ASSUME NEW p \in Piece
    PROVE  /\ Part(p) \in Seq(Whole)
           /\ Part(p) = IF Undamaged(p) THEN <<[reply |-> p.reply, stale |-> p.stale]>> ELSE << >>
<1>1. CASE Undamaged(p)
  <2>1. [reply |-> p.reply, stale |-> p.stale] \in Whole
    BY <1>1 DEF Undamaged, Piece, Whole
  <2>. QED BY <1>1, <2>1 DEF Part
<1>2. CASE ~Undamaged(p)
  BY <1>2, EmptySeq DEF Part
<1>. QED BY <1>1, <1>2 DEF Part

\* The replies in a sequence that got one piece more.
With(x, p) == IF Undamaged(p) THEN Append(x, [reply |-> p.reply, stale |-> p.stale]) ELSE x

Grown(k, f, p) == [n \in 0..(k + 1) |-> IF n = k + 1 THEN With(f[k], p) ELSE f[n]]

LEMMA FoldedAppend ==
    ASSUME NEW s \in Seq(Piece), NEW e \in Piece
    PROVE  /\ \A f : Folded(Append(s, e), f) =>
                \E g : /\ Folded(s, g)
                       /\ f = Grown(Len(s), g, e)
                       /\ f[Len(s) + 1] = With(g[Len(s)], e)
           /\ \A g : Folded(s, g) => Folded(Append(s, e), Grown(Len(s), g, e))
<1> DEFINE k == Len(s)
           a == Append(s, e)
<1>1. k \in Nat /\ a \in Seq(Piece) /\ Len(a) = k + 1 /\ a[k + 1] = e
      /\ \A n \in 1..k : a[n] = s[n]
  BY LenProperties, AppendProperties
<1> HIDE DEF k, a
<1> DEFINE Read(r, f, n) == IF n = 0 THEN << >>
                            ELSE IF Undamaged(r[n])
                            THEN Append(f[n - 1], [reply |-> r[n].reply, stale |-> r[n].stale])
                            ELSE f[n - 1]
           Cut(f) == [n \in 0..k |-> f[n]]
<1>2. /\ \A f : Folded(a, f) <=> f = [n \in 0..(k + 1) |-> Read(a, f, n)]
      /\ \A f : Folded(s, f) <=> f = [n \in 0..k |-> Read(s, f, n)]
  BY <1>1 DEF Folded, k
<1>3. \A f, n : n \in 0..k => Read(a, f, n) = Read(s, f, n)
  BY <1>1
<1>4. \A f : Read(a, f, k + 1) = With(f[k], e)
  BY <1>1 DEF With
<1>5. \A f, n : n \in 0..k => Read(s, f, n) = Read(s, Cut(f), n)
  BY <1>1
<1>6. \A f, n : n \in 0..k => Read(s, f, n) = Read(s, Grown(k, f, e), n)
  BY <1>1 DEF Grown
<1> HIDE DEF Read
<1>7. \A f : /\ Cut(f) = [n \in 0..k |-> Cut(f)[n]]
             /\ \A n \in 0..k : Cut(f)[n] = f[n]
  BY Zenon
<1>8. \A f : /\ Grown(k, f, e) = [n \in 0..(k + 1) |-> Grown(k, f, e)[n]]
             /\ \A n \in 0..k : Grown(k, f, e)[n] = f[n]
             /\ Grown(k, f, e)[k + 1] = With(f[k], e)
  BY <1>1 DEF Grown
<1> HIDE DEF Cut
<1>9. k \in 0..k /\ k + 1 \in 0..(k + 1)
  BY <1>1
<1>10. \A n \in 0..(k + 1) : n \in 0..k \/ n = k + 1
  BY <1>1
<1>11. \A n \in 0..k : n \in 0..(k + 1)
  BY <1>1
<1>12. ASSUME NEW f, Folded(a, f)
       PROVE  Folded(s, Cut(f)) /\ f = Grown(k, Cut(f), e) /\ f[k + 1] = With(Cut(f)[k], e)
  <2>1. f = [n \in 0..(k + 1) |-> Read(a, f, n)]
    BY <1>2, <1>12, Zenon
  <2>2. \A n \in 0..(k + 1) : f[n] = Read(a, f, n)
    BY <2>1, Zenon
  <2>3. \A n \in 0..k : Cut(f)[n] = Read(s, Cut(f), n)
    BY <1>3, <1>5, <1>7, <1>11, <2>2, Zenon
  <2>4. Cut(f) = [n \in 0..k |-> Read(s, Cut(f), n)]
    BY <1>7, <2>3, Zenon
  <2>5. Folded(s, Cut(f))
    BY <1>2, <2>4, Zenon
  <2>6. f[k + 1] = With(Cut(f)[k], e)
    BY <1>4, <1>7, <1>9, <2>2, Zenon
  <2>7. \A n \in 0..(k + 1) : f[n] = Grown(k, Cut(f), e)[n]
    BY <1>7, <1>8, <1>10, <2>6, Zenon
  <2>8. f = [n \in 0..(k + 1) |-> f[n]]
    BY <2>1
  <2>. QED BY <1>8, <2>5, <2>6, <2>7, <2>8
<1>13. ASSUME NEW f, Folded(s, f) PROVE Folded(a, Grown(k, f, e))
  <2> DEFINE g == Grown(k, f, e)
  <2>1. f = [n \in 0..k |-> Read(s, f, n)]
    BY <1>2, <1>13, Zenon
  <2>2. \A n \in 0..k : f[n] = Read(s, f, n)
    BY <2>1, Zenon
  <2>3. ASSUME NEW n \in 0..k PROVE g[n] = Read(a, g, n)
    <3>1. g[n] = f[n] /\ f[n] = Read(s, f, n)
      BY <1>8, <2>2, Zenon
    <3>2. Read(s, f, n) = Read(s, g, n)
      BY <1>6, Zenon
    <3>3. Read(a, g, n) = Read(s, g, n)
      BY <1>3, Zenon
    <3>. QED BY <3>1, <3>2, <3>3, Zenon
  <2>4. g[k + 1] = Read(a, g, k + 1)
    BY <1>4, <1>8, <1>9, Zenon
  <2>5. \A n \in 0..(k + 1) : g[n] = Read(a, g, n)
    BY <1>10, <2>3, <2>4, Zenon
  <2>6. g = [n \in 0..(k + 1) |-> Read(a, g, n)]
    BY <1>8, <2>5, Zenon
  <2>. QED BY <1>2, <2>6, Zenon
<1>. QED BY <1>12, <1>13, Zenon DEF a, k

\* The replies are defined for every sequence of pieces, in one way.
LEMMA FoldedOnce ==
    ASSUME NEW s \in Seq(Piece)
    PROVE  /\ \E f : Folded(s, f)
           /\ \A f, g : Folded(s, f) /\ Folded(s, g) => f = g
           /\ \A f : Folded(s, f) => f[Len(s)] \in Seq(Whole)
<1> DEFINE One(r) == /\ \E f : Folded(r, f)
                     /\ \A f, g : Folded(r, f) /\ Folded(r, g) => f = g
                     /\ \A f : Folded(r, f) => f[Len(r)] \in Seq(Whole)
           G == {r \in Seq(Piece) : One(r)}
<1>1. << >> \in G
  <2>1. << >> \in Seq(Piece) /\ Len(<< >>) = 0 /\ << >> \in Seq(Whole)
    BY EmptySeq
  <2>2. \A f : Folded(<< >>, f) <=> f = [n \in {0} |-> << >>]
    BY <2>1 DEF Folded
  <2>. QED BY <2>1, <2>2
<1>2. ASSUME NEW r \in Seq(Piece), NEW e \in Piece, r \in G PROVE Append(r, e) \in G
  <2>1. Append(r, e) \in Seq(Piece) /\ Len(Append(r, e)) = Len(r) + 1
    BY AppendProperties
  <2>2. \A x \in Seq(Whole) : With(x, e) \in Seq(Whole)
    <3>1. Undamaged(e) => [reply |-> e.reply, stale |-> e.stale] \in Whole
      BY DEF Undamaged, Piece, Whole
    <3>. QED BY <3>1, AppendType DEF With
  <2>3. (\E f : Folded(Append(r, e), f))
        /\ \A f, g : Folded(Append(r, e), f) /\ Folded(Append(r, e), g) => f = g
    <3>1. (\E f : Folded(r, f)) /\ \A f, g : Folded(r, f) /\ Folded(r, g) => f = g
      BY <1>2
    <3>2. \A f : Folded(Append(r, e), f) => \E g : Folded(r, g) /\ f = Grown(Len(r), g, e)
      BY FoldedAppend, Zenon
    <3>3. \A g : Folded(r, g) => Folded(Append(r, e), Grown(Len(r), g, e))
      BY FoldedAppend, Zenon
    <3>4. \E f : Folded(Append(r, e), f)
      BY <3>1, <3>3, Zenon
    <3>5. ASSUME NEW f, NEW g, Folded(Append(r, e), f), Folded(Append(r, e), g) PROVE f = g
      BY <3>1, <3>2, <3>5
    <3>. QED BY <3>4, <3>5
  <2>4. ASSUME NEW f, Folded(Append(r, e), f) PROVE f[Len(r) + 1] \in Seq(Whole)
    <3>1. PICK g : Folded(r, g) /\ f[Len(r) + 1] = With(g[Len(r)], e)
      BY <2>4, FoldedAppend
    <3>2. g[Len(r)] \in Seq(Whole)
      BY <1>2, <3>1
    <3>. QED BY <2>2, <3>1, <3>2
  <2>. QED BY <2>1, <2>3, <2>4
<1> HIDE DEF G
<1>3. Seq(Piece) \subseteq G
  BY <1>1, <1>2, AllSequences
<1>. QED BY <1>3 DEF G

LEMMA RepliesChosen ==
    ASSUME NEW s
    PROVE  RepliesIn(s) = (CHOOSE f : Folded(s, f))[Len(s)]
BY DEF RepliesIn, Folded

LEMMA FoldedReplies ==
    ASSUME NEW s \in Seq(Piece)
    PROVE  \A g : Folded(s, g) => RepliesIn(s) = g[Len(s)] /\ g[Len(s)] \in Seq(Whole)
<1>1. ASSUME NEW g, Folded(s, g)
      PROVE  RepliesIn(s) = g[Len(s)] /\ g[Len(s)] \in Seq(Whole)
  <2>1. \A f : Folded(s, f) <=> f = g
    BY <1>1, FoldedOnce
  <2>2. (CHOOSE f : Folded(s, f)) = g
    BY <2>1
  <2>. QED BY <1>1, <2>2, FoldedOnce, RepliesChosen
<1>. QED BY <1>1

LEMMA RepliesType ==
    ASSUME NEW s \in Seq(Piece)
    PROVE  RepliesIn(s) \in Seq(Whole) /\ Len(RepliesIn(s)) \in Nat
BY FoldedOnce, FoldedReplies, LenProperties

LEMMA RepliesEmpty == RepliesIn(<< >>) = << >>
<1>1. << >> \in Seq(Piece) /\ Len(<< >>) = 0
  BY EmptySeq
<1>2. PICK f : Folded(<< >>, f)
  BY <1>1, FoldedOnce
<1>3. f[0] = << >>
  BY <1>1, <1>2 DEF Folded
<1>. QED BY <1>1, <1>2, <1>3, FoldedReplies

LEMMA RepliesAppend ==
    ASSUME NEW s \in Seq(Piece), NEW e \in Piece
    PROVE  RepliesIn(Append(s, e)) = RepliesIn(s) \o Part(e)
<1>1. Append(s, e) \in Seq(Piece) /\ Len(Append(s, e)) = Len(s) + 1
  BY AppendProperties
<1>2. PICK f : Folded(Append(s, e), f)
  BY <1>1, FoldedOnce
<1>3. PICK g : Folded(s, g) /\ f[Len(s) + 1] = With(g[Len(s)], e)
  BY <1>2, FoldedAppend
<1>4. RepliesIn(Append(s, e)) = With(RepliesIn(s), e) /\ RepliesIn(s) \in Seq(Whole)
  <2>1. RepliesIn(Append(s, e)) = f[Len(s) + 1]
    BY <1>1, <1>2, FoldedReplies
  <2>2. RepliesIn(s) = g[Len(s)] /\ g[Len(s)] \in Seq(Whole)
    BY <1>3, FoldedReplies
  <2>. QED BY <1>3, <2>1, <2>2
<1>5. CASE Undamaged(e)
  <2>1. [reply |-> e.reply, stale |-> e.stale] \in Whole
    BY <1>5 DEF Undamaged, Piece, Whole
  <2>. QED BY <1>4, <1>5, <2>1, AppendIsConcat DEF With, Part
<1>6. CASE ~Undamaged(e)
  BY <1>4, <1>6, ConcatEmptySeq DEF With, Part
<1>. QED BY <1>5, <1>6

LEMMA RepliesGrow ==
    ASSUME NEW s \in Seq(Piece), NEW e \in Piece
    PROVE  Len(RepliesIn(Append(s, e))) = Len(RepliesIn(s)) + (IF Undamaged(e) THEN 1 ELSE 0)
<1>1. RepliesIn(s) \in Seq(Whole) /\ Part(e) \in Seq(Whole) /\ Len(RepliesIn(s)) \in Nat
  BY RepliesType, PartType
<1>2. Len(RepliesIn(Append(s, e))) = Len(RepliesIn(s)) + Len(Part(e))
  BY <1>1, RepliesAppend, ConcatProperties
<1>3. Len(Part(e)) = IF Undamaged(e) THEN 1 ELSE 0
  BY EmptySeq DEF Part
<1>. QED BY <1>2, <1>3

LEMMA RepliesConcat ==
    ASSUME NEW s \in Seq(Piece), NEW u \in Seq(Piece)
    PROVE  RepliesIn(s \o u) = RepliesIn(s) \o RepliesIn(u)
<1> DEFINE G == {v \in Seq(Piece) : RepliesIn(s \o v) = RepliesIn(s) \o RepliesIn(v)}
<1>1. << >> \in G
  BY EmptySeq, ConcatEmptySeq, RepliesEmpty, RepliesType
<1>2. ASSUME NEW v \in Seq(Piece), NEW e \in Piece, v \in G PROVE Append(v, e) \in G
  <2>1. Append(v, e) \in Seq(Piece) /\ s \o v \in Seq(Piece)
    BY AppendType, ConcatProperties
  <2>2. s \o Append(v, e) = Append(s \o v, e)
    BY <2>1
  <2>3. RepliesIn(s \o Append(v, e)) = (RepliesIn(s) \o RepliesIn(v)) \o Part(e)
    BY <1>2, <2>1, <2>2, RepliesAppend
  <2>4. (RepliesIn(s) \o RepliesIn(v)) \o Part(e) = RepliesIn(s) \o (RepliesIn(v) \o Part(e))
    <3>1. RepliesIn(s) \in Seq(Whole) /\ RepliesIn(v) \in Seq(Whole) /\ Part(e) \in Seq(Whole)
      BY RepliesType, PartType
    <3>. QED BY <3>1, ConcatAssociative
  <2>. QED BY <2>1, <2>3, <2>4, RepliesAppend
<1> HIDE DEF G
<1>3. Seq(Piece) \subseteq G
  BY <1>1, <1>2, AllSequences
<1>. QED BY <1>3 DEF G

LEMMA RepliesOne ==
    ASSUME NEW p \in Piece
    PROVE  RepliesIn(<<p>>) = Part(p)
<1>1. << >> \in Seq(Piece) /\ Append(<< >>, p) = <<p>>
  BY EmptySeq
<1>. QED BY <1>1, RepliesAppend, RepliesEmpty, PartType, ConcatEmptySeq

LEMMA RepliesTail ==
    ASSUME NEW s \in Seq(Piece), s # << >>
    PROVE  RepliesIn(s) = Part(Head(s)) \o RepliesIn(Tail(s))
<1>1. Head(s) \in Piece /\ Tail(s) \in Seq(Piece) /\ <<Head(s)>> \in Seq(Piece)
  BY TailType
<1>2. s = <<Head(s)>> \o Tail(s)
  <2>1. /\ Len(s) \in Nat /\ Len(s) # 0 /\ s[1] = Head(s) /\ Len(Tail(s)) = Len(s) - 1
        /\ \A i \in 1..Len(Tail(s)) : Tail(s)[i] = s[i + 1]
    BY EmptySeq, LenProperties, HeadTailProperties
  <2>2. /\ <<Head(s)>> \o Tail(s) \in Seq(Piece)
        /\ Len(<<Head(s)>> \o Tail(s)) = Len(s)
        /\ \A i \in 1..Len(s) : (<<Head(s)>> \o Tail(s))[i] = s[i]
    BY <1>1, <2>1, ConcatProperties
  <2>. QED BY <2>2, SeqEqual
<1>. QED BY <1>1, <1>2, RepliesConcat, RepliesOne

\* There are not more replies than pieces, and about half as many where no body
\* follows another.
Alternating(s) == \A i \in 1..Len(s) : i < Len(s) /\ s[i].part = "body" => s[i + 1].part # "body"

LEMMA RepliesCount ==
    ASSUME NEW s \in Seq(Piece)
    PROVE  /\ Len(RepliesIn(s)) <= Len(s)
           /\ Alternating(s) => 2 * Len(RepliesIn(s)) <= Len(s) + 1
<1> DEFINE Odd(v) == v # << >> /\ v[Len(v)].part = "body"
           G == {v \in Seq(Piece) :
                   /\ Len(RepliesIn(v)) <= Len(v)
                   /\ Alternating(v) => IF Odd(v) THEN 2 * Len(RepliesIn(v)) <= Len(v) + 1
                                        ELSE 2 * Len(RepliesIn(v)) <= Len(v)}
<1>1. << >> \in G
  BY EmptySeq, RepliesEmpty
<1>2. ASSUME NEW v \in Seq(Piece), NEW e \in Piece, v \in G PROVE Append(v, e) \in G
  <2>1. /\ Append(v, e) \in Seq(Piece) /\ Len(Append(v, e)) = Len(v) + 1 /\ Len(v) \in Nat
        /\ Append(v, e)[Len(v) + 1] = e /\ \A i \in 1..Len(v) : Append(v, e)[i] = v[i]
        /\ Append(v, e) # << >>
    BY AppendProperties, LenProperties
  <2>2. Len(RepliesIn(Append(v, e))) = Len(RepliesIn(v)) + (IF Undamaged(e) THEN 1 ELSE 0)
    BY RepliesGrow
  <2>3. Len(RepliesIn(v)) \in Nat
    BY RepliesType
  <2>4. Alternating(Append(v, e)) => Alternating(v) /\ (e.part = "body" => ~Odd(v))
    BY <2>1, EmptySeq DEF Alternating
  <2>5. Odd(Append(v, e)) <=> e.part = "body"
    BY <2>1
  <2>6. Undamaged(e) => e.part = "body"
    BY DEF Undamaged
  <2> HIDE DEF Odd
  <2>7. CASE Undamaged(e)
    BY <1>2, <2>1, <2>2, <2>3, <2>4, <2>5, <2>6, <2>7
  <2>8. CASE ~Undamaged(e)
    BY <1>2, <2>1, <2>2, <2>3, <2>4, <2>5, <2>8
  <2>. QED BY <2>7, <2>8
<1>3. Seq(Piece) \subseteq G
  <2> HIDE DEF G
  <2>. QED BY <1>1, <1>2, AllSequences
<1>. QED BY <1>3, RepliesType, LenProperties

LEMMA RepliesNotEmpty ==
    ASSUME NEW s \in Seq(Piece), NEW i \in 1..Len(s), Undamaged(s[i])
    PROVE  RepliesIn(s) # << >>
<1> DEFINE G == {v \in Seq(Piece) : (\E j \in 1..Len(v) : Undamaged(v[j])) => RepliesIn(v) # << >>}
<1>1. << >> \in G
  BY EmptySeq
<1>2. ASSUME NEW v \in Seq(Piece), NEW e \in Piece, v \in G PROVE Append(v, e) \in G
  <2>1. /\ Append(v, e) \in Seq(Piece) /\ Len(Append(v, e)) = Len(v) + 1 /\ Len(v) \in Nat
        /\ Append(v, e)[Len(v) + 1] = e /\ \A j \in 1..Len(v) : Append(v, e)[j] = v[j]
    BY AppendProperties, LenProperties
  <2>2. Len(RepliesIn(Append(v, e))) = Len(RepliesIn(v)) + (IF Undamaged(e) THEN 1 ELSE 0)
    BY RepliesGrow
  <2>3. RepliesIn(v) # << >> => Len(RepliesIn(v)) \in Nat \ {0}
    BY RepliesType, EmptySeq
  <2>4. SUFFICES ASSUME NEW j \in 1..Len(Append(v, e)), Undamaged(Append(v, e)[j])
                 PROVE  Len(RepliesIn(Append(v, e))) # 0
    BY <2>1, EmptySeq
  <2>. QED BY <1>2, <2>1, <2>2, <2>3, <2>4, RepliesType
<1> HIDE DEF G
<1>3. Seq(Piece) \subseteq G
  BY <1>1, <1>2, AllSequences
<1>. QED BY <1>3 DEF G

\* Replies of an exchange that has ended.
LEMMA StaleTypes ==
    ASSUME NEW S, NEW s \in Seq(S), \A x \in S : [x EXCEPT !.stale = TRUE] \in S
    PROVE  /\ Stale(s) \in Seq(S) /\ Len(Stale(s)) = Len(s)
           /\ \A i \in 1..Len(s) : Stale(s)[i] = [s[i] EXCEPT !.stale = TRUE]
<1>1. Len(s) \in Nat /\ \A i \in 1..Len(s) : s[i] \in S
  BY LenProperties, ElementOfSeq
<1>2. Stale(s) \in [1..Len(s) -> S]
  BY <1>1 DEF Stale
<1>3. Stale(s) \in Seq(S)
  BY <1>1, <1>2, SeqOfFunction
<1>4. Len(Stale(s)) = Len(s)
  BY <1>1, <1>2, <1>3, LenProperties
<1>. QED BY <1>3, <1>4 DEF Stale

LEMMA StaleOne ==
    ASSUME NEW x
    PROVE  Stale(<<x>>) = <<[x EXCEPT !.stale = TRUE]>>
<1>1. Len(<<x>>) = 1 /\ <<x>>[1] = x /\ 1..1 = {1}
  OBVIOUS
<1> DEFINE y == [x EXCEPT !.stale = TRUE]
<1>2. Stale(<<x>>) = [i \in 1..1 |-> y]
  BY <1>1 DEF Stale
<1> HIDE DEF y
<1>3. [i \in 1..1 |-> y] = <<y>>
  OBVIOUS
<1>. QED BY <1>2, <1>3 DEF y

LEMMA StaleConcat ==
    ASSUME NEW S, NEW s \in Seq(S), NEW u \in Seq(S),
           \A x \in S : [x EXCEPT !.stale = TRUE] \in S
    PROVE  Stale(s \o u) = Stale(s) \o Stale(u)
<1> DEFINE a == s \o u
           b == Stale(s) \o Stale(u)
<1>1. /\ Stale(s) \in Seq(S) /\ Len(Stale(s)) = Len(s)
      /\ Stale(u) \in Seq(S) /\ Len(Stale(u)) = Len(u)
      /\ Len(s) \in Nat /\ Len(u) \in Nat
  BY StaleTypes, LenProperties
<1>2. /\ a \in Seq(S) /\ Len(a) = Len(s) + Len(u)
      /\ \A i \in 1..(Len(s) + Len(u)) : a[i] = IF i <= Len(s) THEN s[i] ELSE u[i - Len(s)]
  BY ConcatProperties
<1>3. /\ b \in Seq(S) /\ Len(b) = Len(s) + Len(u)
      /\ \A i \in 1..(Len(s) + Len(u)) :
            b[i] = IF i <= Len(s) THEN Stale(s)[i] ELSE Stale(u)[i - Len(s)]
  <2>1. ASSUME NEW x \in Seq(S), NEW y \in Seq(S)
        PROVE  /\ x \o y \in Seq(S) /\ Len(x \o y) = Len(x) + Len(y)
               /\ \A i \in 1..(Len(x) + Len(y)) :
                     (x \o y)[i] = IF i <= Len(x) THEN x[i] ELSE y[i - Len(x)]
    BY ConcatProperties
  <2>2. /\ b \in Seq(S) /\ Len(b) = Len(Stale(s)) + Len(Stale(u))
        /\ \A i \in 1..(Len(Stale(s)) + Len(Stale(u))) :
              b[i] = IF i <= Len(Stale(s)) THEN Stale(s)[i] ELSE Stale(u)[i - Len(Stale(s))]
    BY <1>1, <2>1, Zenon
  <2>. QED BY <1>1, <2>2
<1> HIDE DEF a, b
<1>4. /\ Stale(a) \in Seq(S) /\ Len(Stale(a)) = Len(a)
      /\ \A i \in 1..Len(a) : Stale(a)[i] = [a[i] EXCEPT !.stale = TRUE]
  BY <1>2, StaleTypes
<1>5. /\ \A i \in 1..Len(s) : Stale(s)[i] = [s[i] EXCEPT !.stale = TRUE]
      /\ \A i \in 1..Len(u) : Stale(u)[i] = [u[i] EXCEPT !.stale = TRUE]
  BY StaleTypes
<1>6. ASSUME NEW i \in 1..Len(a) PROVE Stale(a)[i] = b[i]
  <2>1. CASE i <= Len(s)
    <3>1. i \in 1..Len(s) /\ i \in 1..(Len(s) + Len(u))
      BY <1>1, <1>2, <2>1
    <3>2. a[i] = s[i] /\ b[i] = Stale(s)[i]
      BY <1>2, <1>3, <2>1, <3>1
    <3>. QED BY <1>4, <1>5, <3>1, <3>2
  <2>2. CASE ~(i <= Len(s))
    <3>1. i - Len(s) \in 1..Len(u)
      BY <1>1, <1>2, <2>2
    <3>. QED BY <1>1, <1>2, <1>3, <1>4, <1>5, <2>2, <3>1
  <2>. QED BY <2>1, <2>2
<1>7. Stale(a) = b
  BY <1>2, <1>3, <1>4, <1>6, SeqEqual
<1>. QED BY <1>7 DEF a, b

LEMMA StaleReplies ==
    ASSUME NEW s \in Seq(Piece)
    PROVE  RepliesIn(Stale(s)) = Stale(RepliesIn(s))
<1> DEFINE G == {v \in Seq(Piece) : RepliesIn(Stale(v)) = Stale(RepliesIn(v))}
<1>0. /\ \A x \in Piece : [x EXCEPT !.stale = TRUE] \in Piece
      /\ \A x \in Whole : [x EXCEPT !.stale = TRUE] \in Whole
  BY DEF Piece, Whole
<1>1. Stale(<< >>) = << >>
  BY EmptySeq DEF Stale
<1>2. << >> \in G
  BY <1>1, EmptySeq, RepliesEmpty
<1>3. ASSUME NEW v \in Seq(Piece), NEW e \in Piece, v \in G PROVE Append(v, e) \in G
  <2> DEFINE o == [e EXCEPT !.stale = TRUE]
  <2>1. o \in Piece /\ <<e>> \in Seq(Piece) /\ <<o>> \in Seq(Piece) /\ Append(v, e) \in Seq(Piece)
    BY <1>0
  <2>2. Stale(<<e>>) = <<o>>
    BY StaleOne
  <2>3. Append(v, e) = v \o <<e>>
    BY AppendIsConcat
  <2>4. Stale(Append(v, e)) = Stale(v) \o <<o>> /\ Stale(v) \in Seq(Piece)
    <3>1. Stale(v \o <<e>>) = Stale(v) \o Stale(<<e>>)
      BY <1>0, <2>1, StaleConcat
    <3>2. Stale(v) \in Seq(Piece)
      BY <1>0, StaleTypes
    <3>. QED BY <2>2, <2>3, <3>1, <3>2
  <2>5. RepliesIn(Stale(Append(v, e))) = Stale(RepliesIn(v)) \o Part(o)
    BY <1>3, <2>1, <2>4, RepliesConcat, RepliesOne
  <2>6. Part(o) = Stale(Part(e))
    <3>1. Undamaged(o) <=> Undamaged(e)
      BY DEF Undamaged, Piece
    <3>2. CASE Undamaged(e)
      <4>1. Part(o) = <<[reply |-> e.reply, stale |-> TRUE]>>
        BY <3>1, <3>2 DEF Part, Piece
      <4>2. Part(e) = <<[reply |-> e.reply, stale |-> e.stale]>>
        BY <3>2 DEF Part
      <4>3. Stale(<<[reply |-> e.reply, stale |-> e.stale]>>) = <<[reply |-> e.reply, stale |-> TRUE]>>
        BY StaleOne
      <4>. QED BY <4>1, <4>2, <4>3
    <3>3. CASE ~Undamaged(e)
      BY <1>1, <3>1, <3>3 DEF Part
    <3>. QED BY <3>2, <3>3
  <2>7. Stale(RepliesIn(Append(v, e))) = Stale(RepliesIn(v)) \o Stale(Part(e))
    BY <1>0, RepliesAppend, RepliesType, PartType, StaleConcat
  <2>. QED BY <2>1, <2>5, <2>6, <2>7
<1> HIDE DEF G
<1>4. Seq(Piece) \subseteq G
  BY <1>2, <1>3, AllSequences
<1>. QED BY <1>4 DEF G

-----------------------------------------------------------------------------
(* Frames.  On the line a body follows its length, so that an exchange     *)
(* which has read a length that fits gets the body of that reply next, or  *)
(* a damaged one.                                                          *)

Framed(s) ==
    \A i \in 1..Len(s) :
        /\ s[i].reply # Noise
        /\ s[i].part = "len" =>
              i < Len(s) /\ s[i + 1].part = "body" /\ s[i + 1].reply = s[i].reply
        /\ i < Len(s) /\ s[i].part = "body" => s[i + 1].part = "len"

LenNext ==
    \A t \in Tasks :
        pc[t] = "len" /\ rx # << >> /\ rx[1].part = "len" /\ rx[1].reply # Noise =>
            IF Len(rx) > 1
            THEN rx[2].part = "body" /\ rx[2].reply \in {rx[1].reply, Noise}
            ELSE outbox # << >> /\ outbox[1].part = "body" /\ outbox[1].reply = rx[1].reply

Fits(t, p) == p.part = "body" /\ (p.reply # Noise => <<request[t], p.reply>> \notin TooLong)

BodyNext ==
    \A t \in Tasks : pc[t] = "body" =>
        IF rx # << >> THEN Fits(t, rx[1]) ELSE outbox # << >> /\ Fits(t, outbox[1])

FrameInv == Framed(outbox) /\ Len(rx) <= RxBound /\ LenNext /\ BodyNext

LEMMA FramedTail ==
    ASSUME NEW s \in Seq(Piece), s # << >>, Framed(s)
    PROVE  Framed(Tail(s))
<1>1. /\ Len(s) \in Nat \ {0} /\ Len(Tail(s)) = Len(s) - 1
      /\ \A i \in 1..Len(Tail(s)) : Tail(s)[i] = s[i + 1]
  BY EmptySeq, HeadTailProperties
<1>. QED BY <1>1 DEF Framed

LEMMA FramedStale ==
    ASSUME NEW s \in Seq(Piece), Framed(s)
    PROVE  Framed(Stale(s))
<1>1. \A x \in Piece : [x EXCEPT !.stale = TRUE] \in Piece
  BY DEF Piece
<1>2. /\ Len(Stale(s)) = Len(s)
      /\ \A i \in 1..Len(s) : Stale(s)[i] = [s[i] EXCEPT !.stale = TRUE]
  BY <1>1, StaleTypes
<1>3. Len(s) \in Nat /\ \A i \in 1..Len(s) : s[i] \in Piece
  BY LenProperties, ElementOfSeq
<1>4. \A i \in 1..Len(s) : Stale(s)[i].reply = s[i].reply /\ Stale(s)[i].part = s[i].part
  BY <1>2, <1>3 DEF Piece
<1>. QED BY <1>2, <1>3, <1>4 DEF Framed

LEMMA FramedReply ==
    ASSUME NEW s \in Seq(Piece), Framed(s), NEW a \in Piece, NEW b \in Piece,
           a.part = "len", b.part = "body", a.reply # Noise, b.reply = a.reply
    PROVE  Framed(s \o <<a, b>>)
<1> DEFINE u == s \o <<a, b>>
<1>1. Len(s) \in Nat /\ <<a, b>> \in Seq(Piece)
  BY LenProperties
<1>2. /\ Len(u) = Len(s) + 2 /\ \A i \in 1..Len(s) : u[i] = s[i]
      /\ u[Len(s) + 1] = a /\ u[Len(s) + 2] = b
  BY <1>1, ConcatProperties
<1> HIDE DEF u
<1>3. ASSUME NEW i \in 1..Len(u)
      PROVE  /\ u[i].reply # Noise
             /\ u[i].part = "len" =>
                   i < Len(u) /\ u[i + 1].part = "body" /\ u[i + 1].reply = u[i].reply
             /\ i < Len(u) /\ u[i].part = "body" => u[i + 1].part = "len"
  <2>1. CASE i < Len(s)
    BY <1>1, <1>2, <2>1 DEF Framed
  <2>2. CASE i = Len(s)
    <3>1. s[i].reply # Noise /\ s[i].part # "len" /\ u[i] = s[i] /\ u[i + 1] = a
      BY <1>1, <1>2, <2>2 DEF Framed
    <3>. QED BY <3>1
  <2>3. CASE i = Len(s) + 1
    BY <1>1, <1>2, <2>3
  <2>4. CASE i = Len(s) + 2
    BY <1>1, <1>2, <2>4
  <2>. QED BY <1>1, <1>2, <2>1, <2>2, <2>3, <2>4
<1>. QED BY <1>3 DEF Framed, u

LEMMA FrameInit == LinkInit => FrameInv
<1>. SUFFICES ASSUME LinkInit PROVE FrameInv
  OBVIOUS
<1>1. Framed(outbox) /\ Len(rx) <= RxBound
  BY LinkAssumption, EmptySeq DEF LinkInit, Framed
<1>. QED BY <1>1 DEF LinkInit, FrameInv, LenNext, BodyNext

LEMMA FinishFrames ==
    ASSUME Typed, MutexIsInUse, FrameInv, NEW t \in Tasks, pc[t] \in Inside,
           NEW result, NEW newInbox, NEW newRx \in Seq(Piece), Len(newRx) <= RxBound,
           Finish(t, result, newInbox, newRx)
    PROVE  FrameInv'
<1>1. \A u \in Tasks : pc'[u] \notin {"len", "body"}
  BY Alone DEF Finish, Typed, LinkTypeOK, Inside
<1>2. Framed(outbox')
  BY FramedStale DEF Finish, FrameInv, Typed, LinkTypeOK
<1>3. Len(rx') <= RxBound
  <2>1. \A x \in Piece : [x EXCEPT !.stale = TRUE] \in Piece
    BY DEF Piece
  <2>. QED BY <2>1, StaleTypes DEF Finish
<1>. QED BY <1>1, <1>2, <1>3 DEF FrameInv, LenNext, BodyNext

LEMMA ExchangeFrames ==
    ASSUME Typed, MutexIsInUse, FrameInv, NEW t \in Tasks, Exchange(t)
    PROVE  FrameInv'
<1>. USE DEF At
<1>1. rx \in Seq(Piece) /\ outbox \in Seq(Piece) /\ << >> \in Seq(Piece) /\ Len(<< >>) <= RxBound
  BY LinkAssumption, EmptySeq DEF Typed, LinkTypeOK
<1>2. ASSUME rx # << >>
      PROVE  /\ Len(rx) \in Nat \ {0} /\ Tail(rx) \in Seq(Piece) /\ Len(Tail(rx)) = Len(rx) - 1
             /\ Len(Tail(rx)) <= RxBound /\ Head(rx) = rx[1]
             /\ \A i \in 1..Len(Tail(rx)) : Tail(rx)[i] = rx[i + 1]
  BY <1>1, <1>2, EmptySeq, HeadTailProperties, LinkAssumption DEF FrameInv
<1>3. CASE Take(t) \/ TakeTimeout(t)
  BY <1>3 DEF Take, TakeTimeout, Typed, LinkTypeOK, FrameInv, LenNext, BodyNext, Fits, line
<1>4. CASE SendShort(t) \/ SendTimeout(t)
  BY <1>1, <1>4, FinishFrames DEF SendShort, SendTimeout, Inside
<1>5. CASE Send(t)
  <2>1. pc[t] \in Inside
    BY <1>5 DEF Send, Inside
  <2>2. \A u \in Tasks : pc'[u] # "body"
    BY <1>5, <2>1, Alone DEF Send, Typed, LinkTypeOK, Inside
  <2>3. rx' = << >> /\ outbox' = outbox
    BY <1>5 DEF Send
  <2>. QED BY <1>1, <2>2, <2>3 DEF FrameInv, LenNext, BodyNext
<1>6. CASE ReadTimeout(t)
  BY <1>1, <1>6, FinishFrames DEF ReadTimeout, Inside, FrameInv
<1>7. CASE ReadBadLen(t) \/ ReadBody(t)
  BY <1>1, <1>2, <1>7, FinishFrames DEF ReadBadLen, ReadBody, Inside
<1>8. CASE ReadLen(t)
  <2>1. pc[t] \in Inside /\ rx # << >>
    BY <1>8 DEF ReadLen, Inside
  <2>2. \A u \in Tasks : pc'[u] \in {"len", "body"} => u = t /\ pc'[u] = "body"
    BY <1>8, <2>1, Alone DEF ReadLen, Typed, LinkTypeOK, Inside
  <2>3. rx' = Tail(rx) /\ outbox' = outbox /\ request' = request
    BY <1>8 DEF ReadLen
  <2>4. rx[1].part = "len" /\ rx[1].reply # Noise /\ <<request[t], rx[1].reply>> \notin TooLong
    BY <1>2, <1>8, <2>1 DEF ReadLen, HasLength
  <2>5. IF Len(rx) > 1
        THEN rx[2].part = "body" /\ rx[2].reply \in {rx[1].reply, Noise}
        ELSE outbox # << >> /\ outbox[1].part = "body" /\ outbox[1].reply = rx[1].reply
    BY <1>8, <2>1, <2>4 DEF ReadLen, FrameInv, LenNext
  <2>6. Framed(outbox') /\ Len(rx') <= RxBound
    BY <1>2, <2>1, <2>3 DEF FrameInv
  <2>7. LenNext'
    BY <2>2 DEF LenNext
  <2>8. CASE Len(rx) > 1
    <3>1. rx' # << >> /\ rx'[1] = rx[2]
      <4>1. 1 \in 1..Len(Tail(rx)) /\ Len(Tail(rx)) # 0
        <5>1. Len(rx) \in Nat /\ Len(Tail(rx)) = Len(rx) - 1
          BY <1>2, <2>1
        <5> DEFINE n == Len(rx)
                   k == Len(Tail(rx))
        <5>2. n \in Nat /\ k = n - 1 /\ n > 1
          BY <2>8, <5>1
        <5> HIDE DEF n, k
        <5>3. 1 \in 1..k /\ k # 0
          BY <5>2
        <5>. QED BY <5>3 DEF k
      <4>2. Tail(rx)[1] = rx[2]
        BY <1>2, <2>1, <4>1
      <4>3. Tail(rx) # << >>
        BY <4>1, EmptySeq
      <4>. QED BY <2>3, <4>2, <4>3
    <3>2. /\ rx'[1].part = "body"
          /\ rx'[1].reply # Noise => <<request'[t], rx'[1].reply>> \notin TooLong
      BY <2>3, <2>4, <2>5, <2>8, <3>1
    <3>. QED BY <2>2, <2>6, <2>7, <3>1, <3>2 DEF FrameInv, BodyNext, Fits
  <2>9. CASE ~(Len(rx) > 1)
    <3>1. rx' = << >>
      BY <1>1, <1>2, <2>1, <2>3, <2>9, EmptySeq
    <3>2. /\ outbox' # << >> /\ outbox'[1].part = "body"
          /\ outbox'[1].reply # Noise => <<request'[t], outbox'[1].reply>> \notin TooLong
      BY <2>3, <2>4, <2>5, <2>9
    <3>. QED BY <2>2, <2>6, <2>7, <3>1, <3>2 DEF FrameInv, BodyNext, Fits
  <2>. QED BY <2>8, <2>9
<1>. QED BY <1>3, <1>4, <1>5, <1>6, <1>7, <1>8 DEF Exchange

LEMMA ArrivesFrames ==
    ASSUME Typed, FrameInv, Arrives
    PROVE  FrameInv'
<1>1. /\ rx \in Seq(Piece) /\ outbox \in Seq(Piece) /\ outbox # << >>
      /\ outbox' = Tail(outbox) /\ pc' = pc /\ request' = request
  BY DEF Typed, LinkTypeOK, Arrives, clients
<1>2. /\ Len(outbox) \in Nat \ {0} /\ Head(outbox) = outbox[1] /\ outbox[1] \in Piece
      /\ Tail(outbox) \in Seq(Piece) /\ Len(Tail(outbox)) = Len(outbox) - 1
      /\ \A i \in 1..Len(Tail(outbox)) : Tail(outbox)[i] = outbox[i + 1]
  BY <1>1, EmptySeq, HeadTailProperties
<1>3. Len(rx) \in Nat /\ Len(rx) <= RxBound /\ RxBound \in Nat /\ RxBound > 1
  BY <1>1, LenProperties, LinkAssumption DEF FrameInv
<1>4. Framed(outbox')
  BY <1>1, FramedTail DEF FrameInv
<1>5. /\ outbox[1].reply # Noise
      /\ outbox[1].part = "len" =>
            outbox' # << >> /\ outbox'[1].part = "body" /\ outbox'[1].reply = outbox[1].reply
  <2>1. /\ outbox[1].reply # Noise
        /\ outbox[1].part = "len" =>
              1 < Len(outbox) /\ outbox[2].part = "body" /\ outbox[2].reply = outbox[1].reply
    BY <1>2 DEF FrameInv, Framed
  <2>2. 1 < Len(outbox) => Tail(outbox) # << >> /\ Tail(outbox)[1] = outbox[2]
    BY <1>2, EmptySeq
  <2>. QED BY <1>1, <2>1, <2>2
<1>6. PICK content \in {outbox[1].reply, Noise} :
        rx' = IF Len(rx) < RxBound
              THEN Append(rx, [outbox[1] EXCEPT !.reply = content]) ELSE rx
  BY <1>2 DEF Arrives
<1> DEFINE p == [outbox[1] EXCEPT !.reply = content]
<1>7. p \in Piece /\ p.part = outbox[1].part /\ p.reply = content
  BY <1>2 DEF Piece
<1> HIDE DEF p
<1>8. CASE Len(rx) < RxBound
  <2>1. /\ rx' # << >> /\ Len(rx') = Len(rx) + 1 /\ rx'[Len(rx) + 1] = p
        /\ \A i \in 1..Len(rx) : rx'[i] = rx[i]
    BY <1>1, <1>6, <1>7, <1>8, AppendProperties DEF p
  <2>2. Len(rx') <= RxBound
    BY <1>3, <1>8, <2>1
  <2>3. CASE rx = << >>
    <3>1. rx'[1] = p /\ Len(rx') = 1
      BY <2>1, <2>3, EmptySeq
    <3>2. LenNext'
      BY <1>5, <1>6, <1>7, <2>1, <3>1 DEF LenNext
    <3>3. BodyNext'
      BY <1>1, <1>6, <1>7, <2>1, <2>3, <3>1 DEF FrameInv, BodyNext, Fits
    <3>. QED BY <1>4, <2>2, <3>2, <3>3 DEF FrameInv
  <2>4. CASE rx # << >>
    <3>1. Len(rx) > 0 /\ rx'[1] = rx[1] /\ Len(rx') > 1
      BY <1>1, <1>3, <2>1, <2>4, EmptySeq
    <3>2. rx'[2] = IF Len(rx) > 1 THEN rx[2] ELSE p
      BY <1>3, <2>1, <3>1
    <3>3. LenNext'
      BY <1>1, <1>6, <1>7, <2>1, <2>4, <3>1, <3>2 DEF FrameInv, LenNext
    <3>4. BodyNext'
      BY <1>1, <2>1, <2>4, <3>1 DEF FrameInv, BodyNext, Fits
    <3>. QED BY <1>4, <2>2, <3>3, <3>4 DEF FrameInv
  <2>. QED BY <2>3, <2>4
<1>9. CASE ~(Len(rx) < RxBound)
  <2>1. rx' = rx /\ Len(rx) > 1 /\ rx # << >>
    BY <1>3, <1>6, <1>9, EmptySeq
  <2>. QED BY <1>1, <1>4, <2>1 DEF FrameInv, LenNext, BodyNext, Fits
<1>. QED BY <1>8, <1>9

LEMMA AnswerFrames ==
    ASSUME Typed, FrameInv, NEW m \in Reply, ControllerAnswers(m)
    PROVE  FrameInv'
<1> DEFINE a == [part |-> "len", reply |-> m, stale |-> Head(inbox).stale]
           b == [part |-> "body", reply |-> m, stale |-> Head(inbox).stale]
<1>1. /\ rx' = rx /\ pc' = pc /\ request' = request /\ outbox' = outbox \o <<a, b>>
      /\ outbox \in Seq(Piece)
  BY DEF Typed, LinkTypeOK, ControllerAnswers, clients
<1>2. Head(inbox).stale \in BOOLEAN
  <2>1. inbox \in Seq(Posted) /\ inbox # << >>
    BY DEF Typed, LinkTypeOK, ControllerAnswers
  <2>2. Head(inbox) \in Posted
    BY <2>1, TailType
  <2>. QED BY <2>2
<1>3. /\ a \in Piece /\ b \in Piece /\ a.part = "len" /\ b.part = "body"
      /\ a.reply # Noise /\ b.reply = a.reply
  BY <1>2, LinkAssumption DEF Piece
<1> HIDE DEF a, b
<1>4. Framed(outbox')
  BY <1>1, <1>3, FramedReply DEF FrameInv
<1>5. outbox # << >> => outbox' # << >> /\ outbox'[1] = outbox[1]
  <2>1. <<a, b>> \in Seq(Piece)
    BY <1>3
  <2>2. outbox # << >> => Len(outbox) \in Nat \ {0}
    BY <1>1, EmptySeq
  <2>. QED BY <1>1, <2>1, <2>2, ConcatProperties, EmptySeq
<1>. QED BY <1>1, <1>4, <1>5 DEF FrameInv, LenNext, BodyNext, Fits

LEMMA FrameStep == Typed /\ MutexIsInUse /\ FrameInv /\ [LinkNext]_linkVars => FrameInv'
<1>. SUFFICES ASSUME Typed, MutexIsInUse, FrameInv, [LinkNext]_linkVars PROVE FrameInv'
  OBVIOUS
<1>1. ASSUME NEW t \in Tasks, Collect(t) \/ \E r \in Request : Ask(t, r)
      PROVE  FrameInv'
  BY <1>1 DEF Collect, Ask, At, Typed, LinkTypeOK, FrameInv, LenNext, BodyNext, Fits, line
<1>2. CASE RequestLost \/ UNCHANGED linkVars
  BY <1>2 DEF RequestLost, linkVars, clients, line, FrameInv, LenNext, BodyNext, Fits
<1>. QED BY <1>1, <1>2, ExchangeFrames, AnswerFrames, ArrivesFrames DEF LinkNext

-----------------------------------------------------------------------------
(* What the callers see.  Each step of the link is a step of PlcLink, or   *)
(* one that the callers do not notice: the buffer and the line together    *)
(* hold the replies that are under way, those in the buffer first.         *)

PhaseOf(where) ==
    CASE where \in {"take", "send"} -> "wait"
      [] where \in {"len", "body"}  -> "busy"
      [] OTHER                      -> where

Under == RepliesIn(rx \o outbox)

\* The wires of PlcLink, as their variables are mapped.
callerVars == <<Phase, request, answer, quiet, inbox, Under>>

LinkInv == Typed /\ MutexIsInUse /\ FrameInv

LEMMA PhaseMoves ==
    ASSUME Typed, NEW t \in Tasks, NEW where, pc' = [pc EXCEPT ![t] = where]
    PROVE  /\ Phase[t] = PhaseOf(pc[t])
           /\ Phase' = [Phase EXCEPT ![t] = PhaseOf(where)]
<1>1. Phase = [u \in Tasks |-> PhaseOf(pc[u])]
  BY DEF Phase, PhaseOf
<1>2. Phase' = [u \in Tasks |-> PhaseOf(pc'[u])]
  BY DEF Phase, PhaseOf
<1> HIDE DEF PhaseOf
<1>3. pc' = [u \in Tasks |-> IF u = t THEN where ELSE pc[u]]
  BY DEF Typed, LinkTypeOK
<1>. QED BY <1>1, <1>2, <1>3

LEMMA PhaseRests ==
    ASSUME Typed, NEW t \in Tasks, NEW where, pc' = [pc EXCEPT ![t] = where],
           PhaseOf(where) = PhaseOf(pc[t])
    PROVE  Phase' = Phase
<1>1. Phase = [u \in Tasks |-> PhaseOf(pc[u])]
  BY DEF Phase, PhaseOf
<1>2. Phase' = [Phase EXCEPT ![t] = Phase[t]]
  BY PhaseMoves
<1>. QED BY <1>1, <1>2

LEMMA UnderIs ==
    ASSUME Typed
    PROVE  /\ Under = RepliesIn(rx) \o RepliesIn(outbox) /\ Under \in Seq(Whole)
           /\ RepliesIn(rx) \in Seq(Whole) /\ RepliesIn(outbox) \in Seq(Whole)
<1>1. rx \in Seq(Piece) /\ outbox \in Seq(Piece)
  BY DEF Typed, LinkTypeOK
<1>2. rx \o outbox \in Seq(Piece)
  BY <1>1, ConcatProperties
<1>. QED BY <1>1, <1>2, RepliesConcat, RepliesType DEF Under

LEMMA FinishUnder ==
    ASSUME Typed, NEW t, NEW result, NEW newInbox, NEW newRx \in Seq(Piece),
           Finish(t, result, newInbox, newRx)
    PROVE  Under' = Stale(RepliesIn(newRx) \o RepliesIn(outbox))
<1>1. /\ \A x \in Piece : [x EXCEPT !.stale = TRUE] \in Piece
      /\ \A x \in Whole : [x EXCEPT !.stale = TRUE] \in Whole
  BY DEF Piece, Whole
<1>2. outbox \in Seq(Piece) /\ rx' = Stale(newRx) /\ outbox' = Stale(outbox)
  BY DEF Typed, LinkTypeOK, Finish
<1>3. rx' \o outbox' = Stale(newRx \o outbox)
  BY <1>1, <1>2, StaleConcat
<1>4. newRx \o outbox \in Seq(Piece)
  BY <1>2, ConcatProperties
<1>5. RepliesIn(Stale(newRx \o outbox)) = Stale(RepliesIn(newRx \o outbox))
  BY <1>4, StaleReplies
<1>6. RepliesIn(newRx \o outbox) = RepliesIn(newRx) \o RepliesIn(outbox)
  BY <1>2, RepliesConcat
<1>. QED BY <1>3, <1>5, <1>6 DEF Under

\* Dropping what comes first.
LEMMA RestOf ==
    ASSUME NEW S, NEW a \in Seq(S), NEW b \in Seq(S)
    PROVE  /\ Len(a) + 1 \in 1..(Len(a \o b) + 1)
           /\ SubSeq(a \o b, Len(a) + 1, Len(a \o b)) = b
<1> DEFINE c == a \o b
           d == SubSeq(c, Len(a) + 1, Len(c))
<1>1. /\ c \in Seq(S) /\ Len(c) = Len(a) + Len(b) /\ Len(a) \in Nat /\ Len(b) \in Nat
      /\ \A i \in 1..(Len(a) + Len(b)) : c[i] = IF i <= Len(a) THEN a[i] ELSE b[i - Len(a)]
  BY ConcatProperties, LenProperties
<1> HIDE DEF c
<1>2. \A i \in (Len(a) + 1)..Len(c) : c[i] \in S
  BY <1>1, ElementOfSeq
<1>3. /\ d \in Seq(S)
      /\ Len(d) = IF Len(a) + 1 <= Len(c) THEN Len(c) - (Len(a) + 1) + 1 ELSE 0
      /\ \A i \in 1..(Len(c) - (Len(a) + 1) + 1) : d[i] = c[(Len(a) + 1) + i - 1]
  BY <1>1, <1>2, SubSeqProperties
<1> HIDE DEF d
<1>4. Len(d) = Len(b)
  BY <1>1, <1>3
<1>5. ASSUME NEW i \in 1..Len(b) PROVE d[i] = b[i]
  <2> DEFINE j == Len(a) + i
  <2>1. /\ j \in 1..(Len(a) + Len(b)) /\ ~(j <= Len(a)) /\ j - Len(a) = i
        /\ (Len(a) + 1) + i - 1 = j /\ i \in 1..(Len(c) - (Len(a) + 1) + 1)
    BY <1>1
  <2>2. d[i] = c[j]
    BY <1>3, <2>1
  <2> HIDE DEF j
  <2>. QED BY <1>1, <2>1, <2>2
<1>6. d = b
  BY <1>3, <1>4, <1>5, SeqEqual
<1>. QED BY <1>1, <1>6 DEF c, d

\* Taking one out.
Without(s, i) == SubSeq(s, 1, i - 1) \o SubSeq(s, i + 1, Len(s))

LEMMA WithoutOne ==
    ASSUME NEW S, NEW a \in Seq(S), NEW b \in Seq(S), NEW m \in Seq(S),
           Len(m) = 1
    PROVE  /\ a \o (m \o b) # << >>
           /\ Len(a) + 1 \in 1..Len(a \o (m \o b))
           /\ a \o b = Without(a \o (m \o b), Len(a) + 1)
<1> DEFINE s == a \o (m \o b)
<1> DEFINE ae == a \o m
<1>1. m \in Seq(S) /\ m \o b \in Seq(S) /\ Len(m) = 1
  BY ConcatProperties
<1>2. s \in Seq(S) /\ ae \in Seq(S) /\ s = ae \o b
  <2>1. \A x, y \in Seq(S) : x \o y \in Seq(S)
    BY ConcatProperties
  <2>2. (a \o m) \o b = a \o (m \o b)
    BY ConcatAssociative
  <2>. QED BY <1>1, <2>1, <2>2
<1>3. /\ Len(a) \in Nat /\ Len(b) \in Nat /\ Len(ae) = Len(a) + 1
      /\ Len(s) = Len(a) + 1 + Len(b)
  <2>1. Len(ae) = Len(a) + Len(m)
    BY ConcatProperties
  <2> HIDE DEF ae
  <2>2. Len(ae \o b) = Len(ae) + Len(b)
    BY <1>2, ConcatProperties
  <2>. QED BY <1>2, <2>1, <2>2, LenProperties
<1>4. SubSeq(s, Len(ae) + 1, Len(s)) = b
  BY <1>2, RestOf
<1>5. SubSeq(s, 1, Len(a)) = a
  <2> DEFINE d == SubSeq(s, 1, Len(a))
  <2>1. \A i \in 1..Len(a) : s[i] = a[i] /\ s[i] \in S
    BY <1>1, <1>3, ConcatProperties, ElementOfSeq
  <2>2. /\ d \in Seq(S) /\ Len(d) = IF 1 <= Len(a) THEN Len(a) - 1 + 1 ELSE 0
        /\ \A i \in 1..(Len(a) - 1 + 1) : d[i] = s[1 + i - 1]
    BY <1>3, <2>1, SubSeqProperties
  <2> HIDE DEF d, s
  <2>3. Len(d) = Len(a) /\ \A i \in 1..Len(a) : d[i] = a[i]
    BY <1>3, <2>1, <2>2
  <2>4. d = a
    BY <2>2, <2>3, SeqEqual
  <2>. QED BY <2>4 DEF d
<1>6. s # << >>
  BY <1>2, <1>3, EmptySeq
<1> HIDE DEF ae, s
<1>7. Len(a) + 1 \in 1..Len(s) /\ (Len(a) + 1) - 1 = Len(a) /\ (Len(a) + 1) + 1 = Len(ae) + 1
  BY <1>3
<1>8. SubSeq(s, 1, (Len(a) + 1) - 1) \o SubSeq(s, (Len(a) + 1) + 1, Len(s)) = a \o b
  BY <1>4, <1>5, <1>7
<1>. QED BY <1>6, <1>7, <1>8 DEF Without, s

LEMMA OneFirst ==
    ASSUME NEW S, NEW e \in S, NEW b \in Seq(S)
    PROVE  <<e>> \o b # << >> /\ Head(<<e>> \o b) = e /\ Tail(<<e>> \o b) = b
<1> DEFINE c == <<e>> \o b
<1>1. <<e>> \in Seq(S) /\ Len(<<e>>) = 1 /\ <<e>>[1] = e
  OBVIOUS
<1>2. c \in Seq(S) /\ Len(c) = 1 + Len(b) /\ Len(b) \in Nat /\ c[1] = e
      /\ \A i \in 1..(1 + Len(b)) : c[i] = IF i <= 1 THEN <<e>>[i] ELSE b[i - 1]
  BY <1>1, ConcatProperties, LenProperties
<1> HIDE DEF c
<1>3. c # << >> /\ Head(c) = e
  BY <1>2, EmptySeq
<1>4. Tail(c) \in Seq(S) /\ Len(Tail(c)) = Len(b) /\ \A i \in 1..Len(b) : Tail(c)[i] = b[i]
  BY <1>2, <1>3, HeadTailProperties
<1>5. Tail(c) = b
  BY <1>4, SeqEqual
<1>. QED BY <1>3, <1>5 DEF c

LEMMA CallersStale == ASSUME NEW s PROVE ForCallers!Stale(s) = Stale(s)
BY DEF ForCallers!Stale, Stale

LEMMA CallersFrom == ASSUME NEW s, NEW n PROVE ForCallers!From(s, n) = SubSeq(s, n, Len(s))
BY DEF ForCallers!From

\* The controller, or the wire.
LEMMA AnswerSeen ==
    ASSUME LinkInv, NEW m \in Reply, ControllerAnswers(m)
    PROVE  ForCallers!ControllerAnswers(m)
<1> DEFINE h == Head(inbox).stale
           a == [part |-> "len", reply |-> m, stale |-> h]
           b == [part |-> "body", reply |-> m, stale |-> h]
           r == [reply |-> m, stale |-> h]
<1>1. /\ inbox # << >> /\ inbox' = Tail(inbox) /\ rx' = rx /\ outbox' = outbox \o <<a, b>>
      /\ UNCHANGED <<pc, request, answer, quiet>>
  BY DEF ControllerAnswers, clients
<1>2. h \in BOOLEAN
  <2>1. inbox \in Seq(Posted)
    BY DEF LinkInv, Typed, LinkTypeOK
  <2>2. Head(inbox) \in Posted
    BY <1>1, <2>1, TailType
  <2>. QED BY <2>2
<1>3. a \in Piece /\ b \in Piece /\ <<a>> \in Seq(Piece) /\ <<b>> \in Seq(Piece)
  BY <1>2 DEF Piece
<1>4. r \in Whole
  BY <1>2 DEF Whole
<1>5. Part(a) = << >> /\ Part(b) = <<r>>
  BY <1>1, LinkAssumption DEF Part, Undamaged
<1> HIDE DEF a, b
<1>6. /\ rx \o outbox \in Seq(Piece) /\ rx \in Seq(Piece) /\ outbox \in Seq(Piece)
      /\ <<a, b>> \in Seq(Piece)
  BY <1>3, ConcatProperties DEF LinkInv, Typed, LinkTypeOK
<1>7. RepliesIn(<<a, b>>) = <<r>>
  <2>1. <<a, b>> = Append(<<a>>, b)
    OBVIOUS
  <2>2. RepliesIn(<<a, b>>) = RepliesIn(<<a>>) \o Part(b)
    BY <1>3, <2>1, RepliesAppend
  <2>3. RepliesIn(<<a>>) = << >> /\ <<r>> \in Seq(Whole)
    BY <1>3, <1>4, <1>5, RepliesOne
  <2>. QED BY <1>5, <2>2, <2>3, ConcatEmptySeq
<1>8. Under' = RepliesIn((rx \o outbox) \o <<a, b>>)
  <2>1. Under' = RepliesIn(rx \o (outbox \o <<a, b>>))
    BY <1>1 DEF Under
  <2>2. (rx \o outbox) \o <<a, b>> = rx \o (outbox \o <<a, b>>)
    BY <1>6, ConcatAssociative
  <2>. QED BY <2>1, <2>2
<1>9. Under' = Under \o <<r>>
  BY <1>6, <1>7, <1>8, RepliesConcat DEF Under
<1>10. Under' = Append(Under, r)
  BY <1>4, <1>9, UnderIs, AppendIsConcat DEF LinkInv
<1>11. Phase' = Phase
  BY <1>1 DEF Phase
<1>. QED BY <1>1, <1>10, <1>11 DEF ForCallers!ControllerAnswers, Under

LEMMA LostSeen ==
    ASSUME RequestLost
    PROVE  ForCallers!RequestLost
<1>1. /\ inbox # << >> /\ inbox' = Tail(inbox)
      /\ UNCHANGED <<pc, request, answer, quiet, outbox, rx>>
  BY DEF RequestLost, clients
<1>2. Phase' = Phase /\ Under' = Under
  BY <1>1 DEF Phase, Under
<1>. QED BY <1>1, <1>2 DEF ForCallers!RequestLost, Under

LEMMA ArrivesSeen ==
    ASSUME LinkInv, Arrives
    PROVE  ForCallers!ReplyLost \/ UNCHANGED callerVars
<1>1. /\ outbox # << >> /\ outbox' = Tail(outbox) /\ rx \in Seq(Piece) /\ outbox \in Seq(Piece)
      /\ UNCHANGED <<pc, request, answer, quiet, inbox>>
  BY DEF LinkInv, Typed, LinkTypeOK, Arrives, clients
<1> DEFINE h == Head(outbox)
           rest == RepliesIn(Tail(outbox))
           mine == RepliesIn(rx)
<1>2. h \in Piece /\ Tail(outbox) \in Seq(Piece)
  BY <1>1, TailType
<1>3. PICK content \in {h.reply, Noise} :
        rx' = IF Len(rx) < RxBound
              THEN Append(rx, [h EXCEPT !.reply = content]) ELSE rx
  BY DEF Arrives
<1> DEFINE p == [h EXCEPT !.reply = content]
<1> HIDE DEF h
<1>4. p \in Piece
  BY <1>2 DEF Piece
<1>5. (content = h.reply => p = h) /\ (content = Noise => Part(p) = << >>)
  BY <1>2 DEF Piece, Part, Undamaged
<1> HIDE DEF p
<1>6. /\ mine \in Seq(Whole) /\ rest \in Seq(Whole) /\ Part(h) \in Seq(Whole)
      /\ Part(p) \in Seq(Whole)
  BY <1>1, <1>2, <1>4, RepliesType, PartType
<1>7. Under = mine \o (Part(h) \o rest)
  <2>1. RepliesIn(outbox) = Part(h) \o rest
    BY <1>1, RepliesTail DEF h
  <2>. QED BY <2>1, UnderIs DEF LinkInv
<1>8. /\ Len(rx) < RxBound => Under' = mine \o (Part(p) \o rest)
      /\ ~(Len(rx) < RxBound) => Under' = mine \o rest
  <2>1. CASE Len(rx) < RxBound
    <3>1. rx' = Append(rx, p) /\ rx' \in Seq(Piece)
      BY <1>1, <1>3, <1>4, <2>1, AppendType DEF p
    <3>2. Under' = RepliesIn(rx') \o rest
      BY <1>1, <1>2, <3>1, RepliesConcat DEF Under
    <3>3. RepliesIn(rx') = mine \o Part(p)
      BY <1>1, <1>4, <3>1, RepliesAppend
    <3> HIDE DEF mine, rest
    <3>4. (mine \o Part(p)) \o rest = mine \o (Part(p) \o rest)
      BY <1>6, ConcatAssociative
    <3>. QED BY <2>1, <3>2, <3>3, <3>4
  <2>2. CASE ~(Len(rx) < RxBound)
    <3>1. rx' = rx
      BY <1>3, <2>2
    <3>2. Under' = mine \o rest
      BY <1>1, <1>2, <3>1, RepliesConcat DEF Under
    <3>. QED BY <2>2, <3>2
  <2>. QED BY <2>1, <2>2
<1> HIDE DEF mine, rest
<1>9. << >> \o rest = rest
  BY <1>6, ConcatEmptySeq
<1>10. Under' = Under \/ Under' = mine \o rest
  BY <1>3, <1>5, <1>7, <1>8, <1>9
<1>11. Phase' = Phase
  BY <1>1 DEF Phase
<1>12. CASE Under' = Under
  BY <1>1, <1>11, <1>12 DEF callerVars
<1>13. CASE Under' = mine \o rest
  <2>1. CASE Part(h) = << >>
    BY <1>7, <1>9, <1>12, <1>13, <2>1
  <2>2. CASE Part(h) # << >>
    <3>1. Len(Part(h)) = 1
      BY <1>2, <2>2, PartType
    <3> DEFINE m == Part(h)
    <3>2. m \in Seq(Whole) /\ Len(m) = 1 /\ Under = mine \o (m \o rest)
      BY <1>6, <1>7, <3>1
    <3> HIDE DEF m
    <3>3. Under # << >> /\ \E i \in 1..Len(Under) : mine \o rest = Without(Under, i)
      <4>1. /\ mine \o (m \o rest) # << >>
            /\ Len(mine) + 1 \in 1..Len(mine \o (m \o rest))
            /\ mine \o rest = Without(mine \o (m \o rest), Len(mine) + 1)
        BY <1>6, <3>2, WithoutOne
      <4>. QED BY <3>2, <4>1
    <3>4. Under # << >> /\ \E i \in 1..Len(Under) : Under' = Without(Under, i)
      BY <1>13, <3>3
    <3>. QED BY <1>1, <1>11, <3>4 DEF ForCallers!ReplyLost, ForCallers!From, Without, Under
  <2>. QED BY <2>1, <2>2
<1>. QED BY <1>10, <1>12, <1>13

\* The exchanges.
LEMMA EndSeen ==
    ASSUME Typed, NEW t \in Tasks, NEW result, NEW newInbox, NEW newRx,
           Finish(t, result, newInbox, newRx)
    PROVE  ForCallers!End(t, result)
<1>1. Phase' = [Phase EXCEPT ![t] = "done"]
  BY PhaseMoves DEF Finish, PhaseOf
<1>. QED BY <1>1 DEF Finish, ForCallers!End

LEMMA NobodyBusySeen ==
    ASSUME Typed, MutexIsInUse, NEW t \in Tasks, pc[t] = "send"
    PROVE  ForCallers!NobodyBusy /\ Phase[t] = "wait"
<1>1. \A u \in Tasks : pc[u] \notin {"len", "body"}
  BY Alone DEF Inside
<1>2. \A u \in Tasks : Phase[u] = PhaseOf(pc[u])
  BY DEF Phase, PhaseOf
<1>3. \A u \in Tasks : pc[u] \in {"idle", "take", "send", "len", "body", "done"}
  BY DEF Typed, LinkTypeOK
<1>4. \A u \in Tasks : Phase[u] # "busy"
  BY <1>1, <1>2, <1>3 DEF PhaseOf
<1>. QED BY <1>2, <1>4 DEF PhaseOf, ForCallers!NobodyBusy, ForCallers!At

LEMMA SentSeen ==
    ASSUME LinkInv, NEW t \in Tasks, pc[t] = "send"
    PROVE  Sent(t) \in ForCallers!Posted(t) /\ inbox \in ForCallers!Posted(t)
<1>1. inbox \in Seq(Posted) /\ outbox \in Seq(Piece) /\ rx \in Seq(Piece)
  BY DEF LinkInv, Typed, LinkTypeOK
<1>2. Alternating(outbox)
  BY DEF LinkInv, FrameInv, Framed, Alternating
<1>3. Len(RepliesIn(rx)) <= Len(rx) /\ 2 * Len(RepliesIn(outbox)) <= Len(outbox) + 1
  BY <1>1, <1>2, RepliesCount
<1>4. /\ Len(inbox) \in Nat /\ Len(outbox) \in Nat /\ Len(rx) \in Nat
      /\ Len(RepliesIn(rx)) \in Nat /\ Len(RepliesIn(outbox)) \in Nat
  BY <1>1, LenProperties, RepliesType
<1>5. Len(Under) = Len(RepliesIn(rx)) + Len(RepliesIn(outbox))
  BY UnderIs, ConcatProperties DEF LinkInv
<1>6. Len(rx) <= RxBound /\ RxBound \in Nat /\ LineBound \in Nat
  BY LinkAssumption DEF LinkInv, FrameInv
<1>7. 2 * Len(inbox) + Len(outbox) < 2 * LineBound
      => Len(inbox) + Len(Under) < LineBound + RxBound + 1
  BY <1>3, <1>4, <1>5, <1>6
<1>8. ForCallers!Posted(t) =
        {inbox} \cup (IF Len(inbox) + Len(Under) < LineBound + RxBound + 1
                      THEN {Append(inbox, [request |-> request[t], stale |-> FALSE])} ELSE {})
  BY DEF ForCallers!Posted, Under
<1>. QED BY <1>7, <1>8 DEF Sent

LEMMA QuietSeen ==
    ASSUME LinkInv
    PROVE  outbox = << >> <=> RepliesIn(outbox) = << >>
<1>1. outbox \in Seq(Piece)
  BY DEF LinkInv, Typed, LinkTypeOK
<1>2. ASSUME outbox # << >> PROVE RepliesIn(outbox) # << >>
  <2>1. Len(outbox) \in Nat \ {0}
    BY <1>1, <1>2, EmptySeq
  <2>2. outbox[1] \in Piece
    BY <1>1, <2>1, ElementOfSeq
  <2>3. outbox[1].part = "len" \/ Undamaged(outbox[1])
    BY <2>1, <2>2 DEF LinkInv, FrameInv, Framed, Undamaged, Piece
  <2>4. CASE outbox[1].part = "len"
    <3>1. 1 < Len(outbox) /\ outbox[2].part = "body"
      BY <2>1, <2>4 DEF LinkInv, FrameInv, Framed
    <3>2. outbox[2].reply # Noise
      BY <2>1, <3>1 DEF LinkInv, FrameInv, Framed
    <3>3. 2 \in 1..Len(outbox)
      BY <2>1, <3>1
    <3>. QED BY <1>1, <3>1, <3>2, <3>3, RepliesNotEmpty DEF Undamaged
  <2>5. CASE Undamaged(outbox[1])
    <3>1. 1 \in 1..Len(outbox)
      BY <2>1
    <3>. QED BY <1>1, <2>5, <3>1, RepliesNotEmpty
  <2>. QED BY <2>3, <2>4, <2>5
<1>. QED BY <1>2, RepliesEmpty

LEMMA StaleQuiet ==
    ASSUME NEW s \in Seq(Whole)
    PROVE  Stale(s) = << >> <=> s = << >>
<1>1. \A x \in Whole : [x EXCEPT !.stale = TRUE] \in Whole
  BY DEF Whole
<1>2. Len(Stale(s)) = Len(s) /\ Stale(s) \in Seq(Whole)
  BY <1>1, StaleTypes
<1>. QED BY <1>2, EmptySeq

LEMMA SendSeen ==
    ASSUME LinkInv, NEW t \in Tasks, Send(t)
    PROVE  ForCallers!Begin(t)
<1>1. /\ pc[t] = "send" /\ quiet' = [quiet EXCEPT ![t] = Quiet] /\ rx' = << >>
      /\ inbox' = Sent(t) /\ pc' = [pc EXCEPT ![t] = "len"]
      /\ UNCHANGED <<request, answer, outbox>> /\ outbox \in Seq(Piece)
  BY DEF Send, At, LinkInv, Typed, LinkTypeOK
<1>2. Phase[t] = "wait" /\ ForCallers!NobodyBusy /\ Phase' = [Phase EXCEPT ![t] = "busy"]
  BY <1>1, NobodyBusySeen, PhaseMoves DEF LinkInv, PhaseOf
<1>3. inbox' \in ForCallers!Posted(t)
  BY <1>1, SentSeen
<1> DEFINE n == Len(RepliesIn(rx)) + 1
<1>4. Under' = RepliesIn(outbox)
  BY <1>1, ConcatEmptySeq DEF Under
<1>5. n \in 1..(Len(Under) + 1) /\ SubSeq(Under, n, Len(Under)) = RepliesIn(outbox)
  BY UnderIs, RestOf DEF LinkInv
<1>6. quiet' = [quiet EXCEPT ![t] = inbox = << >> /\ Under' = << >>]
  BY <1>1, <1>4, QuietSeen DEF Quiet
<1> HIDE DEF n
<1>7. \E k \in 1..(Len(Under) + 1) :
         /\ Under' = SubSeq(Under, k, Len(Under))
         /\ quiet' = [quiet EXCEPT ![t] = inbox = << >> /\ Under' = << >>]
  BY <1>4, <1>5, <1>6
<1>. QED BY <1>1, <1>2, <1>3, <1>7 DEF ForCallers!Begin, ForCallers!At, ForCallers!From, Under

LEMMA SendFailedSeen ==
    ASSUME LinkInv, NEW t \in Tasks, SendShort(t) \/ SendTimeout(t)
    PROVE  ForCallers!BeginFailed(t)
<1>1. PICK newInbox \in {inbox, Sent(t)} : Finish(t, Failed, newInbox, << >>)
  BY DEF SendShort, SendTimeout
<1>2. pc[t] = "send" /\ quiet' = [quiet EXCEPT ![t] = Quiet] /\ outbox \in Seq(Piece)
  BY DEF SendShort, SendTimeout, At, LinkInv, Typed, LinkTypeOK
<1>3. Phase[t] = "wait" /\ ForCallers!NobodyBusy
  BY <1>2, NobodyBusySeen DEF LinkInv
<1>4. newInbox \in ForCallers!Posted(t) /\ inbox' = Stale(newInbox)
  BY <1>1, <1>2, SentSeen DEF Finish
<1>5. ForCallers!End(t, Failed)
  BY <1>1, EndSeen DEF LinkInv
<1> DEFINE n == Len(RepliesIn(rx)) + 1
<1>6. n \in 1..(Len(Under) + 1) /\ SubSeq(Under, n, Len(Under)) = RepliesIn(outbox)
  BY UnderIs, RestOf DEF LinkInv
<1>7. RepliesIn(outbox) \in Seq(Whole) /\ << >> \o RepliesIn(outbox) = RepliesIn(outbox)
  BY <1>2, RepliesType, ConcatEmptySeq
<1>8. Under' = Stale(RepliesIn(outbox))
  BY <1>1, <1>7, EmptySeq, FinishUnder, RepliesEmpty DEF LinkInv
<1>9. quiet' = [quiet EXCEPT ![t] = inbox = << >> /\ Under' = << >>]
  BY <1>2, <1>7, <1>8, QuietSeen, StaleQuiet DEF Quiet
<1> HIDE DEF n
<1>10. \E k \in 1..(Len(Under) + 1) :
         /\ Under' = Stale(SubSeq(Under, k, Len(Under)))
         /\ quiet' = [quiet EXCEPT ![t] = inbox = << >> /\ Under' = << >>]
  BY <1>6, <1>8, <1>9
<1>11. \E posted \in ForCallers!Posted(t) : inbox' = ForCallers!Stale(posted)
  BY <1>4, CallersStale
<1>12. \E k \in 1..(Len(Under) + 1) :
         /\ Under' = ForCallers!Stale(ForCallers!From(Under, k))
         /\ quiet' = [quiet EXCEPT ![t] = inbox = << >> /\ Under' = << >>]
  BY <1>10, CallersStale, CallersFrom
<1>. QED BY <1>3, <1>5, <1>11, <1>12 DEF ForCallers!BeginFailed, ForCallers!At, ForCallers!Failed, Failed, Under

LEMMA FailSeen ==
    ASSUME LinkInv, NEW t \in Tasks, pc[t] \in {"len", "body"}, UNCHANGED quiet,
           NEW newRx \in Seq(Piece), Finish(t, Failed, inbox, newRx),
           newRx = rx \/ (rx # << >> /\ newRx = Tail(rx))
    PROVE  ForCallers!Fail(t)
<1>1. Phase[t] = "busy" /\ ForCallers!End(t, Failed)
  BY PhaseMoves, EndSeen DEF LinkInv, PhaseOf, Finish
<1>2. inbox' = ForCallers!Stale(inbox)
  BY CallersStale DEF Finish
<1>3. rx \in Seq(Piece)
  BY DEF LinkInv, Typed, LinkTypeOK
<1>4. /\ RepliesIn(rx) \in Seq(Whole) /\ RepliesIn(outbox) \in Seq(Whole)
      /\ RepliesIn(newRx) \in Seq(Whole) /\ << >> \in Seq(Whole)
  BY UnderIs, RepliesType DEF LinkInv
<1> DEFINE kept == RepliesIn(newRx) \o RepliesIn(outbox)
<1>5. kept \in Seq(Whole)
  BY <1>4, ConcatProperties
<1>6. PICK gone \in Seq(Whole) : Under = gone \o kept
  <2>1. CASE newRx = rx
    <3>1. Under = kept
      BY <2>1, UnderIs DEF LinkInv
    <3> HIDE DEF kept
    <3>. QED BY <1>4, <1>5, <3>1, ConcatEmptySeq
  <2>2. CASE rx # << >> /\ newRx = Tail(rx)
    <3>1. Part(Head(rx)) \in Seq(Whole) /\ RepliesIn(rx) = Part(Head(rx)) \o RepliesIn(newRx)
      BY <1>3, <2>2, TailType, PartType, RepliesTail
    <3>2. Under = (Part(Head(rx)) \o RepliesIn(newRx)) \o RepliesIn(outbox)
      BY <3>1, UnderIs DEF LinkInv
    <3>3. Under = Part(Head(rx)) \o kept
      <4>1. \A x, y, z \in Seq(Whole) : (x \o y) \o z = x \o (y \o z)
        BY ConcatAssociative
      <4>. QED BY <1>4, <3>1, <3>2, <4>1, Zenon
    <3>. QED BY <3>1, <3>3
  <2>. QED BY <2>1, <2>2
<1>7. Under' = Stale(kept)
  BY FinishUnder DEF LinkInv
<1> HIDE DEF kept
<1>8. Len(gone) + 1 \in 1..(Len(Under) + 1) /\ SubSeq(Under, Len(gone) + 1, Len(Under)) = kept
  BY <1>5, <1>6, RestOf
<1>9. \E k \in 1..(Len(Under) + 1) : Under' = ForCallers!Stale(ForCallers!From(Under, k))
  BY <1>7, <1>8, CallersStale, CallersFrom
<1>. QED BY <1>1, <1>2, <1>9 DEF ForCallers!Fail, ForCallers!At, ForCallers!Failed, Failed, Under

LEMMA ReceiveSeen ==
    ASSUME LinkInv, NEW t \in Tasks, ReadBody(t), Undamaged(Head(rx))
    PROVE  ForCallers!Receive(t)
<1>1. /\ pc[t] = "body" /\ rx # << >> /\ quiet' = quiet /\ Finish(t, Received, inbox, Tail(rx))
      /\ rx \in Seq(Piece)
  BY DEF ReadBody, At, Undamaged, LinkInv, Typed, LinkTypeOK
<1>2. Head(rx) \in Piece /\ Tail(rx) \in Seq(Piece) /\ Head(rx) = rx[1]
  BY <1>1, TailType
<1> DEFINE e == [reply |-> Head(rx).reply, stale |-> Head(rx).stale]
           rest == RepliesIn(Tail(rx)) \o RepliesIn(outbox)
<1>3. Part(Head(rx)) = <<e>> /\ e \in Whole
  BY <1>2 DEF Part, Undamaged, Piece, Whole
<1>4. <<request[t], Head(rx).reply>> \notin TooLong
  BY <1>1, <1>2 DEF LinkInv, FrameInv, BodyNext, Fits, Undamaged
<1>5. /\ RepliesIn(Tail(rx)) \in Seq(Whole) /\ RepliesIn(outbox) \in Seq(Whole)
      /\ <<e>> \in Seq(Whole)
  <2>1. <<e>> \in Seq(Whole)
    BY <1>2, <1>3, PartType
  <2>. QED BY <1>2, <2>1, RepliesType, UnderIs DEF LinkInv
<1>6. rest \in Seq(Whole)
  BY <1>5, ConcatProperties
<1>7. Under = <<e>> \o rest
  <2>1. RepliesIn(rx) = <<e>> \o RepliesIn(Tail(rx))
    BY <1>1, <1>3, RepliesTail
  <2> HIDE DEF e
  <2>2. Under = (<<e>> \o RepliesIn(Tail(rx))) \o RepliesIn(outbox)
    BY <2>1, UnderIs DEF LinkInv
  <2>. QED BY <1>5, <2>2, ConcatAssociative
<1>8. Under' = Stale(rest)
  BY <1>1, <1>2, FinishUnder DEF LinkInv
<1>9. Received = [ok |-> TRUE, reply |-> e.reply, stale |-> e.stale]
  BY DEF Received
<1>10. <<request[t], e.reply>> \notin TooLong
  BY <1>4
<1> HIDE DEF e, rest
<1>11. Under # << >> /\ Head(Under) = e /\ Tail(Under) = rest
  BY <1>3, <1>6, <1>7, OneFirst
<1>12. Phase[t] = "busy" /\ ForCallers!End(t, Received) /\ inbox' = Stale(inbox)
  BY <1>1, PhaseMoves, EndSeen DEF LinkInv, PhaseOf, Finish
<1>13. /\ Under # << >> /\ <<request[t], Head(Under).reply>> \notin TooLong
       /\ ForCallers!End(t, [ok |-> TRUE, reply |-> Head(Under).reply, stale |-> Head(Under).stale])
       /\ inbox' = ForCallers!Stale(inbox) /\ Under' = ForCallers!Stale(Tail(Under))
  BY <1>8, <1>9, <1>10, <1>11, <1>12, CallersStale
<1>. QED BY <1>1, <1>12, <1>13 DEF ForCallers!Receive, ForCallers!At, Under

LEMMA ExchangeSeen ==
    ASSUME LinkInv, NEW t \in Tasks, Exchange(t)
    PROVE  ForCallers!Exchange(t) \/ UNCHANGED callerVars
<1>1. rx \in Seq(Piece) /\ (rx # << >> => Tail(rx) \in Seq(Piece))
  BY TailType DEF LinkInv, Typed, LinkTypeOK
<1>2. CASE Take(t)
  <2>1. Phase' = Phase
    BY <1>2, PhaseRests DEF Take, At, LinkInv, PhaseOf
  <2>2. UNCHANGED <<request, answer, quiet, inbox, outbox, rx>>
    BY <1>2 DEF Take, line
  <2>. QED BY <2>1, <2>2 DEF callerVars, Under
<1>3. CASE TakeTimeout(t)
  <2>1. Phase[t] = "wait" /\ Phase' = [Phase EXCEPT ![t] = "done"]
    BY <1>3, PhaseMoves DEF TakeTimeout, At, LinkInv, PhaseOf
  <2>2. /\ answer' = [answer EXCEPT ![t] = Failed]
        /\ UNCHANGED <<request, quiet, inbox, outbox, rx>>
    BY <1>3 DEF TakeTimeout, line
  <2>3. ForCallers!Refused(t)
    BY <2>1, <2>2 DEF ForCallers!Refused, ForCallers!At, ForCallers!Failed, Failed
  <2>. QED BY <2>3 DEF ForCallers!Exchange
<1>4. CASE SendShort(t) \/ SendTimeout(t)
  BY <1>4, SendFailedSeen DEF ForCallers!Exchange
<1>5. CASE Send(t)
  BY <1>5, SendSeen DEF ForCallers!Exchange
<1>6. CASE ReadTimeout(t)
  <2>1. ForCallers!Fail(t)
    BY <1>1, <1>6, FailSeen DEF ReadTimeout
  <2>. QED BY <2>1 DEF ForCallers!Exchange
<1>7. CASE ReadBadLen(t)
  <2>1. ForCallers!Fail(t)
    BY <1>1, <1>7, FailSeen DEF ReadBadLen, At
  <2>. QED BY <2>1 DEF ForCallers!Exchange
<1>8. CASE ReadLen(t)
  <2>1. Phase' = Phase
    BY <1>8, PhaseRests DEF ReadLen, At, LinkInv, PhaseOf
  <2>2. /\ rx # << >> /\ rx' = Tail(rx) /\ Head(rx).part = "len"
        /\ UNCHANGED <<request, answer, quiet, inbox, outbox>>
    BY <1>8 DEF ReadLen, HasLength
  <2>3. RepliesIn(rx) = << >> \o RepliesIn(rx')
    BY <1>1, <2>2, RepliesTail DEF Part, Undamaged
  <2>4. RepliesIn(rx) = RepliesIn(rx') /\ rx' \in Seq(Piece) /\ outbox \in Seq(Piece)
    BY <1>1, <2>2, <2>3, RepliesType, ConcatEmptySeq DEF LinkInv, Typed, LinkTypeOK
  <2>5. Under' = Under
    BY <1>1, <2>2, <2>4, RepliesConcat DEF Under
  <2>. QED BY <2>1, <2>2, <2>5 DEF callerVars
<1>9. CASE ReadBody(t)
  <2>1. CASE Undamaged(Head(rx))
    BY <1>9, <2>1, ReceiveSeen DEF ForCallers!Exchange
  <2>2. CASE ~Undamaged(Head(rx))
    <3>1. ForCallers!Fail(t)
      BY <1>1, <1>9, <2>2, FailSeen DEF ReadBody, At, Undamaged
    <3>. QED BY <3>1 DEF ForCallers!Exchange
  <2>. QED BY <2>1, <2>2
<1>. QED BY <1>2, <1>3, <1>4, <1>5, <1>6, <1>7, <1>8, <1>9 DEF Exchange

LEMMA CallerSeen ==
    ASSUME LinkInv, NEW t \in Tasks
    PROVE  /\ Collect(t) => ForCallers!Collect(t)
           /\ \A r \in Request : Ask(t, r) => ForCallers!Ask(t, r)
<1>1. ASSUME Collect(t) PROVE ForCallers!Collect(t)
  <2>1. Phase[t] = "done" /\ Phase' = [Phase EXCEPT ![t] = "idle"]
    BY <1>1, PhaseMoves DEF Collect, At, LinkInv, PhaseOf
  <2>. QED BY <1>1, <2>1
           DEF Collect, line, ForCallers!Collect, ForCallers!At, ForCallers!Failed, Failed
<1>2. ASSUME NEW r \in Request, Ask(t, r) PROVE ForCallers!Ask(t, r)
  <2>1. Phase[t] = "idle" /\ Phase' = [Phase EXCEPT ![t] = "wait"]
    BY <1>2, PhaseMoves DEF Ask, At, LinkInv, PhaseOf
  <2>. QED BY <1>2, <2>1 DEF Ask, line, ForCallers!Ask, ForCallers!At
<1>. QED BY <1>1, <1>2

LEMMA StepSeen ==
    ASSUME LinkInv, [LinkNext]_linkVars
    PROVE  [ForCallers!LinkNext]_callerVars
<1>1. CASE UNCHANGED linkVars
  BY <1>1 DEF linkVars, clients, line, callerVars, Phase, Under
<1>2. ASSUME NEW t \in Tasks, Exchange(t) PROVE [ForCallers!LinkNext]_callerVars
  BY <1>2, ExchangeSeen DEF ForCallers!LinkNext
<1>3. ASSUME NEW t \in Tasks, Collect(t) \/ \E r \in Request : Ask(t, r)
      PROVE  ForCallers!LinkNext
  BY <1>3, CallerSeen DEF ForCallers!LinkNext
<1>4. ASSUME NEW m \in Reply, ControllerAnswers(m) PROVE ForCallers!LinkNext
  BY <1>4, AnswerSeen DEF ForCallers!LinkNext
<1>5. CASE RequestLost
  BY <1>5, LostSeen DEF ForCallers!LinkNext
<1>6. CASE Arrives
  BY <1>6, ArrivesSeen DEF ForCallers!LinkNext
<1>. QED BY <1>1, <1>2, <1>3, <1>4, <1>5, <1>6 DEF LinkNext

LEMMA InitSeen == LinkInit => ForCallers!LinkInit
<1>. SUFFICES ASSUME LinkInit PROVE ForCallers!LinkInit
  OBVIOUS
<1>1. Phase = [t \in Tasks |-> "idle"]
  BY DEF LinkInit, Phase
<1>2. RepliesIn(rx \o outbox) = << >>
  <2>1. << >> \in Seq(Piece)
    BY EmptySeq
  <2>2. << >> \o << >> = << >>
    BY <2>1, ConcatEmptySeq
  <2>. QED BY <2>2, RepliesEmpty DEF LinkInit
<1>. QED BY <1>1, <1>2 DEF LinkInit, ForCallers!LinkInit, ForCallers!Failed, Failed

\* plc_uart_client_request is what its callers take it for, one exchange at a time
\* that fails or takes in one whole reply which fits: the mutex, the flush and the
\* order in which a frame is read hide the pieces, whatever the line loses or
\* damages, wherever a request times out and however large the buffer is.
THEOREM LinkImplementsPlcLink == LinkSpec => ImplementsPlcLink
<1>1. LinkSpec => []FrameInv
  BY FrameInit, FrameStep, MutexIsInUseAlways, AlwaysTyped, PTL DEF LinkSpec
<1>2. Typed /\ MutexIsInUse /\ FrameInv => LinkInv
  BY DEF LinkInv
<1>3. LinkSpec => []LinkInv
  BY <1>1, <1>2, MutexIsInUseAlways, AlwaysTyped, PTL
<1>. QED BY <1>3, InitSeen, StepSeen, PTL
         DEF LinkSpec, ImplementsPlcLink, ForCallers!LinkSpec, ForCallers!plcLinkVars,
             callerVars, Under
=============================================================================
