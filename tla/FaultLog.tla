------------------------------- MODULE FaultLog -------------------------------
(***************************************************************************)
(* What a reader of the fault history is promised: the most recent         *)
(* Capacity fault records, newest first, none missing and none twice.      *)
(* PlcSafetyApi implements it with a ring of slots.                        *)
(***************************************************************************)
EXTENDS Naturals, Sequences

CONSTANTS Capacity, Record

VARIABLE log

Newest(n, s) == IF Len(s) <= n THEN s ELSE SubSeq(s, 1, n)

Init == log = << >>

\* Some record enters at the front, and the oldest falls off a full log.
Report ==
    /\ log' # << >>
    /\ log'[1] \in Record
    /\ log' = Newest(Capacity, <<log'[1]>> \o log)

Clear == log' = << >>

Next == Clear \/ Report

Spec == Init /\ [][Next]_log
=============================================================================
