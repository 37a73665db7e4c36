------------------------------ MODULE PlcRuntime ------------------------------
(***************************************************************************)
(* The run-time of friendly_plc_core (plc_runtime.c, plc_nodes.c): the     *)
(* scan, plc_tick, and the calls that upload, activate, force and stop     *)
(* what it executes.                                                       *)
(*                                                                         *)
(* Two threads of control share the globals: the scan and the caller of    *)
(* the API.  plc_tick is cut where it reads what a call may change.  With  *)
(* Preemptive = FALSE no call runs inside a tick and no tick inside a call *)
(* (one loop does both, as in the README of the library).  With TRUE the   *)
(* scan is a task of its own ("TaskPlcScan", plc_runtime.c:118), and the   *)
(* code takes no lock: calls come between the steps of a scan and steps of *)
(* a scan between the two halves of an upload.  The other calls stay whole *)
(* there, so TRUE serves to show what goes wrong, not what goes right.     *)
(***************************************************************************)
EXTENDS PlcSafety, PlcGraph

CONSTANTS
    Preemptive,     \* BOOLEAN: see above
    DiFilters,      \* PLC_MAX_DI_CHANNELS
    DefaultPeriod,  \* period before there is a graph (10)
    Source,         \* graphs a caller may upload
    Elapsed,        \* times between two ticks
    HoldMs          \* hold times of plc_force_output (0 is without end)

OutputOf(n) == <<n.type, n.paramInt>>

ASSUME RuntimeAssumption ==
    /\ Preemptive \in BOOLEAN /\ DiFilters \in Nat /\ DefaultPeriod \in Nat \ {0}
    /\ \A g \in Source : IsGraph(g)
    /\ Elapsed \subseteq Nat /\ HoldMs \subseteq Nat

VARIABLES
    plc,            \* g_plcSafety and the outputs (PlcSafety)
    active,         \* g_activeGraph
    activeValid,    \* g_activeGraphValid
    staging,        \* g_stagingGraph
    stagingValid,   \* g_stagingGraphValid
    needSwap,       \* g_needSwapGraph
    safeMode,       \* g_plcRuntime.safeMode
    scan,           \* plc_tick: where it is, node index, dt, whether it is late
    caller,         \* "idle", or "copied" inside plc_upload_graph
    commanded       \* of the model: <<node, value>> of the forces that were asked
                    \* for on the active graph and were neither released nor ran out

vars == <<plc, active, activeValid, staging, stagingValid, needSwap, safeMode,
          scan, caller, commanded>>
graphs == <<active, activeValid, staging, stagingValid, needSwap, commanded>>

ScanPc == {"idle", "swap", "ready", "inputs", "commands", "nodes", "finish"}
Idle == [pc |-> "idle", i |-> 0, dt |-> 1, late |-> FALSE]

Init ==
    /\ plc = PowerOn
    /\ active = EmptyGraph /\ activeValid = FALSE
    /\ staging = EmptyGraph /\ stagingValid = FALSE
    /\ needSwap = FALSE /\ safeMode = FALSE
    /\ scan = Idle /\ caller = "idle"
    /\ commanded = {}

\* Graphs stay graphs through copies, resets and scans, and no time step is 0
\* (plc_tick).
TypeOK ==
    /\ plc \in PlcSafetyState
    /\ IsGraph(active) /\ IsGraph(staging)
    /\ {activeValid, stagingValid, needSwap, safeMode} \subseteq BOOLEAN
    /\ scan \in [pc : ScanPc, i : Nat, dt : Nat \ {0}, late : BOOLEAN]
    /\ caller \in {"idle", "copied"}
    /\ commanded \subseteq (NodeIndex(active) \X BOOLEAN)

-----------------------------------------------------------------------------
(* plc_tick                                                                *)

ScanAt(pc) ==
    /\ scan.pc = pc
    /\ Preemptive \/ caller = "idle"

Goto(pc) == scan' = [scan EXCEPT !.pc = pc]

Period == IF activeValid /\ active.cycleMs > 0 THEN active.cycleMs ELSE DefaultPeriod

\* Faulty variant: no lower bound on dt.
ClampDtWithoutMin(dt, period) == IF dt > 4 * period THEN 4 * period ELSE dt

\* dt is clamped to 1 .. 4 periods; the first tick has none and takes the period.
ClampDt(dt, period) ==
    IF dt = 0 THEN 1 ELSE IF dt > 4 * period THEN 4 * period ELSE dt

TickSafe ==
    /\ ScanAt("idle")
    /\ plc_is_safe_or_faulted(plc)
    /\ plc' = apply_safe_outputs_once(plc)
    /\ UNCHANGED <<graphs, safeMode, scan, caller>>

TickBegin ==
    /\ ScanAt("idle")
    /\ ~plc_is_safe_or_faulted(plc)
    /\ \E elapsed \in Elapsed \cup {Period} :
          LET dt == ClampDt(elapsed, Period)
          IN  scan' = [pc |-> "swap", i |-> 0, dt |-> dt, late |-> dt > 2 * Period]
    /\ UNCHANGED <<plc, graphs, safeMode, caller>>

\* Faulty variant: the request survives its own swap.
SwapKeepsRequest ==
    /\ needSwap /\ stagingValid
    /\ active' = plc_graph_reset_runtime(staging)
    /\ activeValid' = TRUE
    /\ commanded' = {}
    /\ plc' = plc_request_run(plc_ack_faults(apply_safe_outputs_always(plc)))
    /\ UNCHANGED <<staging, stagingValid, needSwap>>

\* The hot swap also acknowledges the faults and requests RUN.
SwapGraph ==
    /\ needSwap /\ stagingValid
    /\ active' = plc_graph_reset_runtime(staging)
    /\ activeValid' = TRUE
    /\ commanded' = {}
    /\ needSwap' = FALSE
    /\ plc' = plc_request_run(plc_ack_faults(apply_safe_outputs_always(plc)))
    /\ UNCHANGED <<staging, stagingValid>>

TickSwap ==
    /\ ScanAt("swap")
    /\ Goto("ready")
    /\ \/ SwapGraph
       \/ ~(needSwap /\ stagingValid) /\ UNCHANGED <<plc, graphs>>
    /\ UNCHANGED <<safeMode, caller>>

TickReady ==
    /\ ScanAt("ready")
    /\ scan' = IF activeValid /\ plc_is_running(plc)
               THEN [scan EXCEPT !.pc = "inputs"] ELSE Idle
    /\ plc' = IF activeValid /\ ~plc_is_running(plc)
              THEN apply_safe_outputs_once(plc) ELSE plc
    /\ UNCHANGED <<graphs, safeMode, caller>>

\* plc_refresh_inputs_hw: inputs take what the port and the debounce filter
\* deliver; a channel beyond the filters makes the machine SAFE and reads FALSE.
BadChannel(n) == n.type = "DIGITAL_IN" /\ n.paramInt \notin 0..(DiFilters - 1)

plc_refresh_inputs_hw(g, signal) ==
    [g EXCEPT !.nodes = [i \in NodeIndex(g) |->
        LET n == g.nodes[i]
        IN  IF n.type \in {"DIGITAL_IN", "AI_IN"}
            THEN [n EXCEPT !.out = ~BadChannel(n) /\ signal[<<n.type, n.paramInt>>]]
            ELSE n]]

InputsOf(g) ==
    {<<g.nodes[i].type, g.nodes[i].paramInt>> :
        i \in {j \in NodeIndex(g) : g.nodes[j].type \in {"DIGITAL_IN", "AI_IN"}}}

TickInputs ==
    /\ ScanAt("inputs")
    /\ \E signal \in [InputsOf(active) -> BOOLEAN] :
          active' = plc_refresh_inputs_hw(active, signal)
    /\ plc' = IF \E i \in NodeIndex(active) : BadChannel(active.nodes[i])
              THEN plc_enter_safe(plc, "SOME") ELSE plc
    /\ Goto("commands")
    /\ UNCHANGED <<activeValid, staging, stagingValid, needSwap, safeMode, caller, commanded>>

\* plc_apply_pending_cmds: a timed force runs down and ends; 0 has no end.
Released(n) == [n EXCEPT !.force_en = FALSE, !.force_flag = FALSE, !.force_left_ms = 0]

\* Faulty variants: a force that ends exactly now is left with 0 ms, and the
\* rest that is shorter than a scan is never used up.
CountDownToZero(n, dt) ==
    IF ~Forced(n) \/ n.force_left_ms = 0 THEN n
    ELSE IF n.force_left_ms < dt THEN Released(n)
    ELSE [n EXCEPT !.force_left_ms = @ - dt]

CountDownKeepsRest(n, dt) ==
    IF ~Forced(n) \/ n.force_left_ms <= dt THEN n
    ELSE [n EXCEPT !.force_left_ms = @ - dt]

CountDown(n, dt) ==
    IF ~Forced(n) \/ n.force_left_ms = 0 THEN n
    ELSE IF n.force_left_ms <= dt THEN Released(n)
    ELSE [n EXCEPT !.force_left_ms = @ - dt]

plc_apply_pending_cmds(g, dt) ==
    [g EXCEPT !.nodes = [i \in NodeIndex(g) |-> CountDown(g.nodes[i], dt)]]

TickCommands ==
    /\ ScanAt("commands")
    /\ active' = plc_apply_pending_cmds(active, scan.dt)
    /\ commanded' = {c \in commanded : active'.nodes[c[1]].force_en}
    /\ Goto("nodes")
    /\ UNCHANGED <<plc, activeValid, staging, stagingValid, needSwap, safeMode, caller>>

\* plc_graph_step, one node a step.  A fault ends the scan; after a node that
\* did run, the scan goes on unless the machine is SAFE or in FAULT.
Executable(n) ==
    /\ n.inA < active.nodeCount /\ n.inB < active.nodeCount
    /\ n.type \in ExecutableType

\* plc_port_write_do and _ao_percent: channels the hardware lacks are ignored.
WritePort(p, n, v) ==
    IF n.type \in OutputType /\ OutputOf(n) \in Outputs
    THEN [p EXCEPT !.outputs[OutputOf(n)] = v] ELSE p

NodeFault ==
    /\ ~Executable(active.nodes[scan.i])
    /\ plc' = plc_enter_fault(plc, "SOME")
    /\ safeMode' = TRUE
    /\ Goto("finish")
    /\ UNCHANGED <<graphs, caller>>

\* Faulty variant: after an input made the machine SAFE the scan goes on.
NodeExecGoesOn ==
    LET n == active.nodes[scan.i]
    IN  /\ Executable(n)
        /\ \E v, seen \in BOOLEAN :
              /\ plc_node_exec(active, scan.i, v) /\ Shows(n, v, seen)
              /\ active' = [active EXCEPT !.nodes[scan.i].out = seen]
              /\ plc' = WritePort(plc, n, v)
        /\ scan' = [scan EXCEPT !.i = @ + 1]
        /\ UNCHANGED <<activeValid, staging, stagingValid, needSwap, safeMode, caller, commanded>>

NodeExec ==
    LET n == active.nodes[scan.i]
    IN  /\ Executable(n)
        /\ \E v, seen \in BOOLEAN :
              /\ plc_node_exec(active, scan.i, v) /\ Shows(n, v, seen)
              /\ active' = [active EXCEPT !.nodes[scan.i].out = seen]
              /\ plc' = WritePort(plc, n, v)
        /\ scan' = IF plc_is_safe_or_faulted(plc)
                   THEN [scan EXCEPT !.pc = "finish"] ELSE [scan EXCEPT !.i = @ + 1]
        /\ UNCHANGED <<activeValid, staging, stagingValid, needSwap, safeMode, caller, commanded>>

TickNode ==
    /\ ScanAt("nodes")
    /\ scan.i < active.nodeCount
    /\ NodeFault \/ NodeExec

\* Overrun: the tick came late, or executing took longer than the budget.
TickFinish ==
    /\ \/ ScanAt("finish")
       \/ ScanAt("nodes") /\ scan.i >= active.nodeCount
    /\ \E slow \in BOOLEAN :
          plc' = IF slow \/ scan.late THEN plc_fault_note_scan_overrun(plc)
                 ELSE plc_fault_note_scan_ok(plc)
    /\ scan' = Idle
    /\ UNCHANGED <<graphs, safeMode, caller>>

Scan ==
    \/ TickSafe \/ TickBegin \/ TickSwap \/ TickReady
    \/ TickInputs \/ TickCommands \/ TickNode \/ TickFinish

-----------------------------------------------------------------------------
(* The API                                                                 *)

CallerAt(pc) ==
    /\ caller = pc
    /\ Preemptive \/ scan.pc = "idle"

\* plc_upload_graph: the graph is copied before it is validated.
UploadCopy ==
    /\ CallerAt("idle")
    /\ \E g \in Source : staging' = g
    /\ caller' = "copied"
    /\ UNCHANGED <<plc, active, activeValid, stagingValid, needSwap, safeMode, scan, commanded>>

\* Faulty variant: a rejected graph inherits the verdict on the one before it.
UploadValidateKeepsFlag ==
    /\ CallerAt("copied")
    /\ caller' = "idle"
    /\ stagingValid' = (stagingValid \/ ValidGraph(staging))
    /\ staging' = IF ValidGraph(staging)
                  THEN plc_graph_reset_runtime(Clamped(staging)) ELSE Clamped(staging)
    /\ plc' = IF ValidGraph(staging) THEN plc ELSE plc_enter_safe(plc, "SOME")
    /\ UNCHANGED <<active, activeValid, needSwap, safeMode, scan, commanded>>

UploadValidate ==
    /\ CallerAt("copied")
    /\ caller' = "idle"
    /\ stagingValid' = ValidGraph(staging)
    /\ staging' = IF ValidGraph(staging)
                  THEN plc_graph_reset_runtime(Clamped(staging)) ELSE Clamped(staging)
    /\ plc' = IF ValidGraph(staging) THEN plc ELSE plc_enter_safe(plc, "SOME")
    /\ UNCHANGED <<active, activeValid, needSwap, safeMode, scan, commanded>>

RequestActivate ==
    /\ CallerAt("idle")
    /\ stagingValid
    /\ needSwap' = TRUE
    /\ UNCHANGED <<plc, active, activeValid, staging, stagingValid, safeMode, scan, caller,
                   commanded>>

\* Forcing and releasing are for the output nodes of the active graph.
SetOutputNode(i, node) ==
    /\ CallerAt("idle")
    /\ activeValid
    /\ active.nodes[i].type \in OutputType
    /\ active' = [active EXCEPT !.nodes[i] = node]
    /\ UNCHANGED <<plc, activeValid, staging, stagingValid, needSwap, safeMode, scan, caller>>

CommandedBut(i) == {c \in commanded : c[1] # i}

ForceOutput(i, value, holdMs) ==
    /\ SetOutputNode(i, [active.nodes[i] EXCEPT !.force_en = TRUE, !.force_flag = TRUE,
                                                !.force_bool = value, !.force_left_ms = holdMs])
    /\ commanded' = CommandedBut(i) \cup {<<i, value>>}

ReleaseOutput(i) ==
    /\ SetOutputNode(i, Released(active.nodes[i]))
    /\ commanded' = CommandedBut(i)

\* A call that only moves the safety state machine.
SafetyCall(p) ==
    /\ CallerAt("idle")
    /\ plc' = p
    /\ UNCHANGED <<graphs, scan, caller>>

RuntimeInit ==
    /\ plc.state = "BOOT" /\ scan.pc = "idle"
    /\ SafetyCall(plc_safety_init(plc))
    /\ safeMode' = FALSE

RequestStop  == SafetyCall(plc_request_stop(plc)) /\ UNCHANGED safeMode
RequestRun   == SafetyCall(plc_request_run(plc)) /\ UNCHANGED safeMode
AckFaults    == SafetyCall(plc_ack_faults(plc)) /\ UNCHANGED safeMode
EnterSafe    == \E code \in Code : SafetyCall(plc_enter_safe(plc, code)) /\ UNCHANGED safeMode
RuntimeEnterFault == SafetyCall(plc_enter_fault(plc, "SOME")) /\ safeMode' = TRUE

RuntimeResetFault ==
    LET acked == plc_ack_faults(plc)
    IN  /\ SafetyCall(IF activeValid THEN plc_request_run(acked) ELSE acked)
        /\ safeMode' = FALSE

Call ==
    \/ UploadCopy \/ UploadValidate \/ RequestActivate
    \/ \E i \in NodeIndex(active) :
          \/ ReleaseOutput(i)
          \/ \E value \in BOOLEAN, holdMs \in HoldMs : ForceOutput(i, value, holdMs)
    \/ RuntimeInit \/ RequestStop \/ RequestRun \/ AckFaults
    \/ EnterSafe \/ RuntimeEnterFault \/ RuntimeResetFault

-----------------------------------------------------------------------------

Next == Scan \/ Call

Spec == Init /\ [][Next]_vars

\* The scan is called again and again, and a call that began ends.
FairSpec == Spec /\ SF_vars(Scan) /\ WF_vars(UploadValidate)

-----------------------------------------------------------------------------
(* Safety                                                                  *)

\* Outside RUN no output is energised, at any point of a tick: in particular
\* not by the node that still runs after an input made the machine SAFE.
EnergisedOnlyInRun == plc.state # "RUN" => plc.outputs = SafeImage

\* No scan executes a graph that plc_validate_graph_ex did not accept.
ActiveIsValid ==
    activeValid => /\ ValidGraph(active)
                   /\ active.cycleMs \in CycleMin..CycleMax
ScanIsOfActive ==
    scan.pc \in {"inputs", "commands", "nodes", "finish"} => activeValid
OnlyValidatedRuns == ActiveIsValid /\ ScanIsOfActive

\* A force is on an output node and holds the value plc_force_output last asked
\* for there, on this very graph, and has not been released or run out: a graph
\* that is uploaded with stale run-time fields (plc_upload_graph copies the whole
\* struct) brings none in, and the hot swap leaves none of the graph before.
ForceIsExplicit ==
    \A i \in NodeIndex(active) :
        active.nodes[i].force_en => /\ active.nodes[i].type \in OutputType
                                    /\ active.nodes[i].force_flag
                                    /\ <<i, active.nodes[i].force_bool>> \in commanded

\* The machine that is latched in FAULT cannot be running, whatever the order of
\* activations, acknowledgements and faults, the hot swap's own included.
LatchBlocksRun ==
    /\ plc.state = "FAULT" => plc.fault_latched
    /\ plc.fault_latched => plc.state \in {"FAULT", "SAFE", "STOP"}

\* Timed(n): a force that ends by itself; Permanent(n): one that does not.
Timed(n)     == n.force_en /\ n.force_left_ms > 0
Permanent(n) == n.force_en /\ n.force_left_ms = 0

\* A scan never turns a timed force into one without end (0 means both "no time
\* left" and "no end"), and only the hot swap takes a permanent force away.
ForceKindStable ==
    [][scan' # scan =>
          \A i \in NodeIndex(active) \cap NodeIndex(active') :
              /\ Timed(active.nodes[i]) => ~Permanent(active'.nodes[i])
              /\ Permanent(active.nodes[i]) /\ scan.pc # "swap"
                   => Permanent(active'.nodes[i])]_vars

-----------------------------------------------------------------------------
(* Liveness                                                                *)

\* A pending activation of a valid graph takes place, unless a fault or another
\* upload comes between.
ActivationSettles ==
    needSwap /\ stagingValid ~> \/ ~needSwap \/ ~stagingValid
                                \/ plc_is_safe_or_faulted(plc)

\* A force with a hold time does not outlast it: the machine cannot stay in RUN
\* with one, unless the caller forces again and again.
AnyTimed == \E i \in NodeIndex(active) : Timed(active.nodes[i])
ForceAny == \E i \in NodeIndex(active), value \in BOOLEAN, holdMs \in HoldMs :
                ForceOutput(i, value, holdMs)
TimedForceEnds ==
    <>[](AnyTimed /\ plc_is_running(plc)) => []<><<ForceAny>>_active

-----------------------------------------------------------------------------
(* What the repository says and the code does not do                       *)

\* plc_runtime.c:120 logs "activate: requested (will swap on next tick)".
ActivationHappens == needSwap /\ stagingValid ~> ~needSwap

\* plc_validation.c:107 means to reject the types no node function exists for.
ValidatedIsExecutable ==
    activeValid => \A i \in NodeIndex(active) : active.nodes[i].type \in ExecutableType
=============================================================================
