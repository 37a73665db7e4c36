------------------------------ MODULE MCPlcNodes ------------------------------
(***************************************************************************)
(* Nodes for TLC: times of no, one, two and three steps, of up to two      *)
(* milliseconds each, heartbeats at both ends of the range of a time, and  *)
(* presets below and above zero.                                           *)
(***************************************************************************)
EXTENDS PlcNodes

ConfigsDef ==
    Timers \X {0, 1, 2, 3} \cup {"HEARTBEAT"} \X {Wrap - 2, Wrap - 1} \cup {"CTU", "CTUD"} \X {0} \cup {"CTD"} \X {-1, 2}
=============================================================================
