------------------------------- MODULE PlcGraph -------------------------------
(***************************************************************************)
(* The program of the controller: a graph of nodes, each reading at most   *)
(* two earlier ones, and the check every uploaded graph has to pass        *)
(* (plc_types.h, plc_validation.c, the resets of plc_runtime.c).           *)
(*                                                                         *)
(* A node's value is kept as the BOOLEAN other nodes read with get_bool;   *)
(* what numeric nodes compute is left open.  Its configuration and its     *)
(* run-time state share one struct in the code, hence one record here.     *)
(***************************************************************************)
EXTENDS Integers

CONSTANTS
    MaxNodes,      \* PLC_MAX_NODES
    CycleMin,      \* PLC_CYCLE_MS_MIN
    CycleMax,      \* PLC_CYCLE_MS_MAX
    TimerMax,      \* longest paramMs of a timer node (600000)
    HwCount        \* plc_port_get_hw_info: channels of each I/O node type

ASSUME GraphAssumption ==
    /\ MaxNodes \in Nat
    /\ CycleMin \in Nat \ {0} /\ CycleMax \in Nat /\ CycleMin <= CycleMax

ConstType   == {"CONST_BOOL", "CONST_INT", "CONST_FLOAT"}
OutputType  == {"DIGITAL_OUT", "AO"}
TimerType   == {"TON", "TOFF", "TP"}
BinaryType  == {"AND2", "OR2", "COMPARE_LT", "COMPARE_GT", "COMPARE_GE"}
CounterType == {"HSC_IN", "ENCODER_IN"}

\* Types plc_node_get_exec_fn has a function for.
ExecutableType ==
    ConstType \cup OutputType \cup TimerType \cup BinaryType \cup CounterType \cup
    {"DIGITAL_IN", "AI_IN", "NOT", "SR", "R_TRIG", "F_TRIG", "MUX2", "HYST",
     "SCALE", "ADD", "LIMIT", "PID", "ANALOG_AVG", "RAMP", "LOG", "CTU", "CTD",
     "CTUD", "WINDOW_CHECK", "SAFE_OUTPUT", "ALARM_GEN", "ALARM_LATCH",
     "HEARTBEAT", "MEM_BOOL", "MEM_INT", "MEM_REAL", "FILTER_AVG", "MATH_OP"}

\* NODE_MAX is the enumerator after the last type, BEYOND_MAX any larger byte.
NodeType  == ExecutableType \cup {"NODE_MAX", "BEYOND_MAX"}
ValueType == {"BOOL", "INT", "FLOAT"}

Node ==
    [id : Nat, type : NodeType, valueType : ValueType,
     inA : Int, inB : Int, paramInt : Int, paramMs : Nat,
     force_flag : BOOLEAN,                          \* PLC_NODE_FLAG_FORCE
     out : BOOLEAN,
     force_en : BOOLEAN, force_bool : BOOLEAN, force_left_ms : Nat]

NodeIndex(g) == 0..(g.nodeCount - 1)

\* nodes[] beyond nodeCount is never read.
IsGraph(g) ==
    /\ g = [cycleMs |-> g.cycleMs, nodeCount |-> g.nodeCount, nodes |-> g.nodes]
    /\ g.cycleMs \in Nat /\ g.nodeCount \in Nat
    /\ g.nodes \in [NodeIndex(g) -> Node]

EmptyGraph == [cycleMs |-> 0, nodeCount |-> 0, nodes |-> << >>]

-----------------------------------------------------------------------------
(* plc_validate_graph_ex                                                   *)

\* The cycle time is clamped before any node is looked at.
Clamped(g) ==
    IF g.nodeCount \notin 1..MaxNodes THEN g
    ELSE [g EXCEPT !.cycleMs = IF @ < CycleMin THEN CycleMin
                               ELSE IF @ > CycleMax THEN CycleMax ELSE @]

NoInputs(n)  == n.inA = -1 /\ n.inB = -1
ChannelOK(n) == n.paramInt \in 0..(HwCount[n.type] - 1)

TypeRules(n) ==
    CASE n.type \in ConstType    -> NoInputs(n)
      [] n.type = "DIGITAL_IN"   -> NoInputs(n) /\ ChannelOK(n) /\ n.valueType = "BOOL"
      [] n.type \in OutputType   -> n.inA >= 0 /\ ChannelOK(n)
      [] n.type = "AI_IN"        -> ChannelOK(n)
      [] n.type \in BinaryType   -> n.inA >= 0 /\ n.inB >= 0
      [] n.type \in TimerType    -> n.inA >= 0 /\ n.paramMs <= TimerMax
      [] n.type \in CounterType  -> NoInputs(n) /\ ChannelOK(n)
                                    /\ n.valueType \in {"INT", "FLOAT"}
      [] OTHER                   -> TRUE

ValidNode(n, i) ==
    /\ n.id = i
    /\ n.type # "BEYOND_MAX"
    /\ n.inA < i /\ n.inB < i
    /\ TypeRules(n)

ValidGraph(g) ==
    /\ g.nodeCount \in 1..MaxNodes
    /\ \A i \in NodeIndex(g) : ValidNode(g.nodes[i], i)

-----------------------------------------------------------------------------
(* plc_graph_reset_runtime: the flags belong to the configuration and stay. *)

\* Faulty variant: forces are not run-time state.
ResetKeepsForce(n) == [n EXCEPT !.out = FALSE]

plc_node_reset_runtime(n) ==
    [n EXCEPT !.out = FALSE, !.force_en = FALSE, !.force_bool = FALSE,
              !.force_left_ms = 0]

plc_graph_reset_runtime(g) ==
    [g EXCEPT !.nodes = [i \in NodeIndex(g) |-> plc_node_reset_runtime(g.nodes[i])]]

-----------------------------------------------------------------------------
(* The node functions: may node i take value v, given its inputs?          *)

get_bool(g, ref) == IF ref >= 0 THEN g.nodes[ref].out ELSE FALSE

\* Forced needs both the run-time switch and the flag.
Forced(n) == n.force_en /\ n.force_flag

plc_node_exec(g, i, v) ==
    LET n == g.nodes[i]
        a == get_bool(g, n.inA)
        b == get_bool(g, n.inB)
    IN  CASE n.type \in OutputType /\ Forced(n)      -> v = n.force_bool
          [] n.type = "DIGITAL_OUT" /\ ~Forced(n)    -> v = a
          [] n.type = "CONST_BOOL"                   -> v = (n.paramInt # 0)
          [] n.type \in {"DIGITAL_IN", "AI_IN"}      -> v = n.out
          [] n.type = "AND2"                         -> v = (a /\ b)
          [] n.type = "OR2"                          -> v = (a \/ b)
          [] n.type = "NOT"                          -> v = ~a
          [] OTHER                                   -> TRUE

\* The result goes to out.b, an analog one to out.f: what a node shows others is
\* the field its valueType names, which this model follows for out.b only.
Shows(n, v, seen) == n.valueType = "BOOL" /\ n.type # "AO" => seen = v
=============================================================================
