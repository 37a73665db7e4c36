----------------------------- MODULE MCPlcRuntime -----------------------------
(***************************************************************************)
(* PlcRuntime on hardware with one digital output and two digital inputs,  *)
(* of which only the first has a debounce filter, and the graphs in which  *)
(* the scan can go wrong.                                                  *)
(***************************************************************************)
EXTENDS PlcRuntime

MCHwCount == [t \in {"DIGITAL_IN", "DIGITAL_OUT", "AI_IN", "AO", "HSC_IN", "ENCODER_IN"} |->
                 CASE t = "DIGITAL_IN" -> 2 [] t = "DIGITAL_OUT" -> 1 [] OTHER -> 0]
MCOutputs == {<<"DIGITAL_OUT", 0>>}

MCNode(id, type, inA, param) ==
    [id |-> id, type |-> type, valueType |-> "BOOL", inA |-> inA, inB |-> -1,
     paramInt |-> param, paramMs |-> 0, force_flag |-> FALSE, out |-> FALSE,
     force_en |-> FALSE, force_bool |-> FALSE, force_left_ms |-> 0]

MCGraph(n, node(_)) == [cycleMs |-> 1, nodeCount |-> n, nodes |-> [i \in 0..(n - 1) |-> node(i)]]

\* The graph of examples/safe_mode, uploaded with stale forces on both its nodes.
MCStale(n) == [n EXCEPT !.force_en = TRUE, !.force_flag = TRUE]

MCDrive == MCGraph(2, LAMBDA i :
    IF i = 0 THEN MCStale(MCNode(0, "CONST_BOOL", -1, 1))
    ELSE MCStale(MCNode(1, "DIGITAL_OUT", 0, 0)))

\* An input beyond the debounce filters makes the machine SAFE in mid scan.
MCUnfiltered == MCGraph(2, LAMBDA i :
    IF i = 0 THEN MCNode(0, "DIGITAL_IN", -1, 1) ELSE MCNode(1, "DIGITAL_OUT", 0, 0))

\* Type NODE_MAX passes the validation and faults after the output was written.
MCLastType == MCGraph(3, LAMBDA i :
    CASE i = 0 -> MCNode(0, "DIGITAL_IN", -1, 0)
      [] i = 1 -> MCNode(1, "DIGITAL_OUT", 0, 0)
      [] OTHER -> MCNode(2, "NODE_MAX", -1, 0))

\* Not valid: an output at index 0, reading past the end.
MCInvalid == MCGraph(1, LAMBDA i : MCNode(0, "DIGITAL_OUT", 4, 0))

MCSource == {MCDrive, MCUnfiltered, MCLastType, MCInvalid}
=============================================================================
