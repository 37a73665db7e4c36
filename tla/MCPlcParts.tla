------------------------------ MODULE MCPlcParts ------------------------------
(***************************************************************************)
(* The parts of the library that remember something from scan to scan and  *)
(* share nothing: a node, the filter of an input channel, the event ring.  *)
(* A behaviour is about one of them.                                       *)
(***************************************************************************)
EXTENDS MCPlcNodes, InputFilter, EventRing

VARIABLE part

partVars == <<part, nodesVars, filterVars, ringVars>>

Init ==
    /\ part \in {"node", "filter", "ring"}
    /\ IF part = "node" THEN NodesInit ELSE config = (CHOOSE c \in Configs : TRUE) /\ NodesInit
    /\ IF part = "filter" THEN FilterInit ELSE now = 0 /\ FilterInit
    /\ RingInit

NodeStep   == part = "node" /\ NodesNext /\ UNCHANGED <<part, filterVars, ringVars>>
FilterStep == part = "filter" /\ FilterNext /\ UNCHANGED <<part, nodesVars, ringVars>>
RingStep   == part = "ring" /\ RingNext /\ UNCHANGED <<part, nodesVars, filterVars>>

Next == NodeStep \/ FilterStep \/ RingStep

Spec == Init /\ [][Next]_partVars

\* No time is longer than its parameter, no sum of times wraps but that of a heartbeat
\* that does not keep up, no counter leaves its range and the indices of the ring
\* stay in its array, whatever was executed, read, pushed and popped.
PartsTypeOK == NodesTypeOK /\ FilterTypeOK /\ RingTypeOK
=============================================================================
