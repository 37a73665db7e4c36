------------------------------ MODULE EventRing ------------------------------
(***************************************************************************)
(* The ring of plc_event.c, whose calls are made one after the other, and  *)
(* that it is an EventQueue.                                               *)
(***************************************************************************)
EXTENDS Naturals

CONSTANTS
    Events,
    Capacity,    \* PLC_EVENT_CAPACITY
    NoEvent      \* what plc_event_pop leaves when it returns false

ASSUME RingAssumption == Capacity \in Nat \ {0} /\ NoEvent \notin Events

VARIABLES s_events, s_head, s_tail, s_count, answer

ringVars == <<s_events, s_head, s_tail, s_count, answer>>

Slots == 0..(Capacity - 1)

RingInit ==
    /\ s_events \in [Slots -> {NoEvent}]
    /\ s_head = 0 /\ s_tail = 0 /\ s_count = 0
    /\ answer = NoEvent

\* Faulty variant: the tail stays behind when the oldest event is overwritten.
TailStays == s_tail

TailAfterPush == IF s_count < Capacity THEN s_tail ELSE (s_tail + 1) % Capacity

CountAfterPush == IF s_count < Capacity THEN s_count + 1 ELSE s_count

plc_event_push(e) ==
    /\ s_events' = [s_events EXCEPT ![s_head] = e]
    /\ s_head' = (s_head + 1) % Capacity
    /\ s_tail' = TailAfterPush
    /\ s_count' = CountAfterPush
    /\ UNCHANGED answer

plc_event_pop ==
    \/ /\ s_count = 0
       /\ answer' = NoEvent
       /\ UNCHANGED <<s_events, s_head, s_tail, s_count>>
    \/ /\ s_count > 0
       /\ answer' = s_events[s_tail]
       /\ s_tail' = (s_tail + 1) % Capacity
       /\ s_count' = s_count - 1
       /\ UNCHANGED <<s_events, s_head>>

plc_event_clear ==
    /\ s_head' = 0 /\ s_tail' = 0 /\ s_count' = 0
    /\ UNCHANGED <<s_events, answer>>

RingNext == plc_event_pop \/ plc_event_clear \/ \E e \in Events : plc_event_push(e)

RingSpec == RingInit /\ [][RingNext]_ringVars

-----------------------------------------------------------------------------

\* The indices stay in the array.
RingTypeOK ==
    /\ s_events \in [Slots -> Events \cup {NoEvent}]
    /\ s_head \in Slots /\ s_tail \in Slots /\ s_count \in 0..Capacity
    /\ answer \in Events \cup {NoEvent}

Queue == INSTANCE EventQueue
             WITH queue <- [i \in 1..s_count |-> s_events[(s_tail + i - 1) % Capacity]]

\* The ring is a queue that drops the oldest event when it is full, whatever slots were
\* written before and wherever head and tail have wrapped (plc_event.c).
ImplementsQueue == Queue!Spec
=============================================================================
