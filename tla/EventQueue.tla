----------------------------- MODULE EventQueue -----------------------------
(***************************************************************************)
(* What a reader of plc_event.c is promised: a queue of the newest events, *)
(* read oldest first, that drops the oldest when it is full.               *)
(***************************************************************************)
EXTENDS Sequences, Naturals

CONSTANTS Events, Capacity, NoEvent

VARIABLES queue, answer

Init == queue = <<>> /\ answer = NoEvent

Push(e) ==
    /\ queue' = Append(IF Len(queue) = Capacity THEN Tail(queue) ELSE queue, e)
    /\ UNCHANGED answer

Pop ==
    \/ queue # <<>> /\ answer' = Head(queue) /\ queue' = Tail(queue)
    \/ queue = <<>> /\ answer' = NoEvent /\ UNCHANGED queue

Clear == queue' = <<>> /\ UNCHANGED answer

Next == Pop \/ Clear \/ \E e \in Events : Push(e)

Spec == Init /\ [][Next]_<<queue, answer>>
=============================================================================
