--------------------------- MODULE PlcRuntime_proofs ---------------------------
(***************************************************************************)
(* Theorems about PlcRuntime, for every hardware, every set of uploaded    *)
(* graphs, all thresholds and both ways of scheduling the scan.            *)
(***************************************************************************)
EXTENDS PlcRuntime, TLAPS

USE DEF PlcState

-----------------------------------------------------------------------------
(* The operators of PlcSafety: each maps controller states to such states. *)

LEMMA SetStateType ==
    ASSUME NEW p \in PlcSafetyState, NEW new \in PlcState
    PROVE  plc_safety_set_state(p, new) \in PlcSafetyState
BY DEF plc_safety_set_state, PlcSafetyState

LEMMA SetStateFields ==
    ASSUME NEW p \in PlcSafetyState, NEW new \in PlcState
    PROVE  /\ plc_safety_set_state(p, new).state = new
           /\ plc_safety_set_state(p, new).fault_latched = p.fault_latched
           /\ plc_safety_set_state(p, new).outputs = p.outputs
           /\ plc_safety_set_state(p, new).safe_outputs_applied => p.safe_outputs_applied
           /\ p.state # "RUN" /\ new = "RUN"
                => ~plc_safety_set_state(p, new).safe_outputs_applied
BY DEF plc_safety_set_state, PlcSafetyState

LEMMA ApplyAlwaysType ==
    ASSUME NEW p \in PlcSafetyState
    PROVE  apply_safe_outputs_always(p) \in PlcSafetyState
BY DEF apply_safe_outputs_always, PlcSafetyState, SafeImage

LEMMA ApplyOnceType ==
    ASSUME NEW p \in PlcSafetyState
    PROVE  apply_safe_outputs_once(p) \in PlcSafetyState
BY DEF apply_safe_outputs_once, apply_safe_outputs_always, PlcSafetyState, SafeImage

LEMMA ReportType ==
    ASSUME NEW p \in PlcSafetyState, NEW code, NEW severity
    PROVE  plc_fault_report(p, code, severity) \in PlcSafetyState
<1>1. [p EXCEPT !.fault_latched = TRUE] \in PlcSafetyState
  BY DEF PlcSafetyState
<1>. QED BY <1>1, SetStateType, ApplyOnceType DEF plc_fault_report

LEMMA RequestStopType ==
    ASSUME NEW p \in PlcSafetyState
    PROVE  plc_request_stop(p) \in PlcSafetyState
BY ReportType, SetStateType, ApplyOnceType DEF plc_request_stop

LEMMA RequestRunType ==
    ASSUME NEW p \in PlcSafetyState
    PROVE  plc_request_run(p) \in PlcSafetyState
BY SetStateType DEF plc_request_run

LEMMA AckFaultsType ==
    ASSUME NEW p \in PlcSafetyState
    PROVE  plc_ack_faults(p) \in PlcSafetyState
<1> DEFINE cleared == [p EXCEPT !.fault_latched = FALSE,
                                !.protocol_error_streak = 0,
                                !.scan_overrun_streak = 0,
                                !.watchdog_miss_streak = 0,
                                !.safe_outputs_applied = FALSE]
<1>1. cleared \in PlcSafetyState
  BY DEF PlcSafetyState
<1>. QED BY <1>1, SetStateType, ApplyOnceType DEF plc_ack_faults

LEMMA ScanNotesType ==
    ASSUME NEW p \in PlcSafetyState
    PROVE  /\ plc_fault_note_scan_overrun(p) \in PlcSafetyState
           /\ plc_fault_note_scan_ok(p) \in PlcSafetyState
<1>1. [p EXCEPT !.scan_overrun_streak = Incremented(@)] \in PlcSafetyState
  BY DEF PlcSafetyState, Incremented
<1>. QED BY <1>1, ReportType
         DEF plc_fault_note_scan_overrun, plc_fault_note_scan_ok, PlcSafetyState

LEMMA PowerOnType == PowerOn \in PlcSafetyState
BY DEF PowerOn, PlcSafetyState, SafeImage

-----------------------------------------------------------------------------
(* The operators on graphs.                                                *)

LEMMA ChangedNodesType ==
    ASSUME NEW g, IsGraph(g), NEW f \in [NodeIndex(g) -> Node]
    PROVE  /\ IsGraph([g EXCEPT !.nodes = f])
           /\ NodeIndex([g EXCEPT !.nodes = f]) = NodeIndex(g)
BY DEF IsGraph, NodeIndex

LEMMA ChangedNodeType ==
    ASSUME NEW g, IsGraph(g), NEW i \in NodeIndex(g), NEW n \in Node
    PROVE  /\ IsGraph([g EXCEPT !.nodes[i] = n])
           /\ NodeIndex([g EXCEPT !.nodes[i] = n]) = NodeIndex(g)
<1> DEFINE f == [g.nodes EXCEPT ![i] = n]
<1>1. f \in [NodeIndex(g) -> Node]
  BY DEF IsGraph
<1>2. [g EXCEPT !.nodes[i] = n] = [g EXCEPT !.nodes = f]
  OBVIOUS
<1> HIDE DEF f
<1>. QED BY <1>1, <1>2, ChangedNodesType

LEMMA NodeOfGraph ==
    ASSUME NEW g, IsGraph(g), NEW i \in NodeIndex(g)
    PROVE  g.nodes[i] \in Node
BY DEF IsGraph

LEMMA ResetType ==
    ASSUME NEW g, IsGraph(g)
    PROVE  IsGraph(plc_graph_reset_runtime(g))
<1>1. \A n \in Node : plc_node_reset_runtime(n) \in Node
  BY DEF plc_node_reset_runtime, Node
<1>2. [i \in NodeIndex(g) |-> plc_node_reset_runtime(g.nodes[i])] \in [NodeIndex(g) -> Node]
  BY <1>1, NodeOfGraph
<1>. QED BY <1>2, ChangedNodesType DEF plc_graph_reset_runtime

LEMMA ClampedType ==
    ASSUME NEW g, IsGraph(g)
    PROVE  IsGraph(Clamped(g))
BY GraphAssumption DEF IsGraph, Clamped, NodeIndex

LEMMA EmptyGraphType == IsGraph(EmptyGraph)
<1>1. << >> \in [{} -> Node]
  OBVIOUS
<1>2. 0..(0 - 1) = {}
  OBVIOUS
<1>. QED BY <1>1, <1>2 DEF IsGraph, EmptyGraph, NodeIndex

LEMMA RefreshType ==
    ASSUME NEW g, IsGraph(g), NEW signal \in [InputsOf(g) -> BOOLEAN]
    PROVE  /\ IsGraph(plc_refresh_inputs_hw(g, signal))
           /\ NodeIndex(plc_refresh_inputs_hw(g, signal)) = NodeIndex(g)
<1> DEFINE f == [i \in NodeIndex(g) |->
                   LET n == g.nodes[i]
                   IN  IF n.type \in {"DIGITAL_IN", "AI_IN"}
                       THEN [n EXCEPT !.out = ~BadChannel(n) /\ signal[<<n.type, n.paramInt>>]]
                       ELSE n]
<1>1. ASSUME NEW n \in Node, NEW v \in BOOLEAN
      PROVE  [n EXCEPT !.out = v] \in Node
  BY DEF Node
<1>2. f \in [NodeIndex(g) -> Node]
  <2>1. ASSUME NEW i \in NodeIndex(g)
        PROVE  f[i] \in Node
    <3> DEFINE n == g.nodes[i]
               v == ~BadChannel(n) /\ signal[<<n.type, n.paramInt>>]
    <3>1. n \in Node
      BY NodeOfGraph
    <3>2. v \in BOOLEAN
      OBVIOUS
    <3>3. f[i] = IF n.type \in {"DIGITAL_IN", "AI_IN"} THEN [n EXCEPT !.out = v] ELSE n
      OBVIOUS
    <3> HIDE DEF n, v, f
    <3>. QED BY <3>1, <3>2, <3>3, <1>1
  <2>2. f = [i \in NodeIndex(g) |-> f[i]]
    OBVIOUS
  <2> HIDE DEF f
  <2>. QED BY <2>1, <2>2
<1>. QED BY <1>2, ChangedNodesType DEF plc_refresh_inputs_hw

LEMMA CountDownType ==
    ASSUME NEW n \in Node, NEW dt \in Nat
    PROVE  /\ CountDown(n, dt) \in Node
           /\ Released(n) \in Node
<1>1. Released(n) \in Node
  BY DEF Released, Node
<1>2. ASSUME n.force_left_ms > dt
      PROVE  [n EXCEPT !.force_left_ms = @ - dt] \in Node
  <2>1. n.force_left_ms - dt \in Nat
    BY <1>2 DEF Node
  <2>. QED BY <2>1 DEF Node
<1>3. n.force_left_ms \in Nat
  BY DEF Node
<1>. QED BY <1>1, <1>2, <1>3 DEF CountDown

LEMMA PendingCmdsType ==
    ASSUME NEW g, IsGraph(g), NEW dt \in Nat
    PROVE  /\ IsGraph(plc_apply_pending_cmds(g, dt))
           /\ NodeIndex(plc_apply_pending_cmds(g, dt)) = NodeIndex(g)
<1>1. [i \in NodeIndex(g) |-> CountDown(g.nodes[i], dt)] \in [NodeIndex(g) -> Node]
  BY CountDownType, NodeOfGraph
<1>. QED BY <1>1, ChangedNodesType DEF plc_apply_pending_cmds

LEMMA ShownValueType ==
    ASSUME NEW g, IsGraph(g), NEW i \in NodeIndex(g), NEW seen \in BOOLEAN
    PROVE  /\ IsGraph([g EXCEPT !.nodes[i].out = seen])
           /\ NodeIndex([g EXCEPT !.nodes[i].out = seen]) = NodeIndex(g)
<1>1. [g.nodes[i] EXCEPT !.out = seen] \in Node
  BY NodeOfGraph DEF Node
<1>. QED BY <1>1, ChangedNodeType

LEMMA WritePortType ==
    ASSUME NEW p \in PlcSafetyState, NEW n, NEW v \in BOOLEAN
    PROVE  WritePort(p, n, v) \in PlcSafetyState
BY DEF WritePort, PlcSafetyState

-----------------------------------------------------------------------------
(* Type correctness.                                                       *)

LEMMA InitType == Init => TypeOK
<1> SUFFICES ASSUME Init PROVE TypeOK
  OBVIOUS
<1>1. plc \in PlcSafetyState /\ IsGraph(active) /\ IsGraph(staging)
  BY PowerOnType, EmptyGraphType DEF Init
<1>2. scan \in [pc : ScanPc, i : Nat, dt : Nat \ {0}, late : BOOLEAN]
  BY DEF Init, Idle, ScanPc
<1>. QED BY <1>1, <1>2 DEF Init, TypeOK

LEMMA ClampDtType ==
    ASSUME NEW dt \in Nat, NEW period \in Nat \ {0}
    PROVE  ClampDt(dt, period) \in Nat \ {0}
BY DEF ClampDt

LEMMA PeriodType == TypeOK => Period \in Nat \ {0}
BY RuntimeAssumption DEF TypeOK, Period, IsGraph

LEMMA ScanType == TypeOK /\ Scan => TypeOK'
<1> SUFFICES ASSUME TypeOK, Scan PROVE TypeOK'
  OBVIOUS
<1> USE DEF TypeOK, ScanPc
<1>1. CASE TickSafe
  BY <1>1, ApplyOnceType DEF TickSafe, graphs
<1>2. CASE TickBegin
  <2>1. PICK elapsed \in Elapsed \cup {Period} :
            scan' = [pc |-> "swap", i |-> 0, dt |-> ClampDt(elapsed, Period),
                     late |-> ClampDt(elapsed, Period) > 2 * Period]
    BY <1>2 DEF TickBegin
  <2>2. elapsed \in Nat
    BY PeriodType, RuntimeAssumption
  <2>3. ClampDt(elapsed, Period) \in Nat \ {0}
    BY <2>2, PeriodType, ClampDtType
  <2>4. scan' \in [pc : ScanPc, i : Nat, dt : Nat \ {0}, late : BOOLEAN]
    BY <2>1, <2>3, PeriodType
  <2>. QED BY <1>2, <2>4 DEF TickBegin, graphs
<1>3. CASE TickSwap
  <2>1. CASE SwapGraph
    <3>1. plc' \in PlcSafetyState
      BY <2>1, ApplyAlwaysType, AckFaultsType, RequestRunType DEF SwapGraph
    <3>2. IsGraph(active')
      BY <2>1, ResetType DEF SwapGraph
    <3>. QED BY <1>3, <2>1, <3>1, <3>2 DEF TickSwap, SwapGraph, Goto
  <2>2. CASE ~(needSwap /\ stagingValid) /\ UNCHANGED <<plc, graphs>>
    BY <1>3, <2>2 DEF TickSwap, Goto, graphs
  <2>. QED BY <1>3, <2>1, <2>2 DEF TickSwap
<1>4. CASE TickReady
  <2>1. plc' \in PlcSafetyState
    BY <1>4, ApplyOnceType DEF TickReady
  <2>2. scan' \in [pc : ScanPc, i : Nat, dt : Nat \ {0}, late : BOOLEAN]
    BY <1>4 DEF TickReady, Idle
  <2>. QED BY <1>4, <2>1, <2>2 DEF TickReady, graphs
<1>5. CASE TickInputs
  <2>1. plc' \in PlcSafetyState
    BY <1>5, ReportType DEF TickInputs, plc_enter_safe
  <2>2. IsGraph(active') /\ NodeIndex(active') = NodeIndex(active)
    BY <1>5, RefreshType DEF TickInputs
  <2>. QED BY <1>5, <2>1, <2>2 DEF TickInputs, Goto
<1>6. CASE TickCommands
  <2>1. IsGraph(active') /\ NodeIndex(active') = NodeIndex(active)
    BY <1>6, PendingCmdsType DEF TickCommands
  <2>. QED BY <1>6, <2>1 DEF TickCommands, Goto
<1>7. CASE TickNode
  <2>1. scan.i \in NodeIndex(active)
    BY <1>7 DEF TickNode, NodeIndex, IsGraph
  <2>2. CASE NodeFault
    BY <2>2, ReportType DEF NodeFault, plc_enter_fault, Goto, graphs
  <2>3. CASE NodeExec
    <3>1. PICK v, seen \in BOOLEAN :
             /\ active' = [active EXCEPT !.nodes[scan.i].out = seen]
             /\ plc' = WritePort(plc, active.nodes[scan.i], v)
      BY <2>3 DEF NodeExec
    <3>2. IsGraph(active') /\ NodeIndex(active') = NodeIndex(active)
      BY <2>1, <3>1, ShownValueType
    <3>3. plc' \in PlcSafetyState
      BY <3>1, WritePortType
    <3>4. scan' \in [pc : ScanPc, i : Nat, dt : Nat \ {0}, late : BOOLEAN]
      BY <2>3 DEF NodeExec
    <3>. QED BY <2>3, <3>2, <3>3, <3>4 DEF NodeExec
  <2>. QED BY <1>7, <2>2, <2>3 DEF TickNode
<1>8. CASE TickFinish
  <2>1. plc' \in PlcSafetyState
    BY <1>8, ScanNotesType DEF TickFinish
  <2>. QED BY <1>8, <2>1 DEF TickFinish, Idle, graphs
<1>. QED BY <1>1, <1>2, <1>3, <1>4, <1>5, <1>6, <1>7, <1>8 DEF Scan

LEMMA CallType == TypeOK /\ Call => TypeOK'
<1> SUFFICES ASSUME TypeOK, Call PROVE TypeOK'
  OBVIOUS
<1> USE DEF TypeOK
<1>1. CASE UploadCopy
  BY <1>1, RuntimeAssumption DEF UploadCopy
<1>2. CASE UploadValidate
  <2>1. plc' \in PlcSafetyState
    BY <1>2, ReportType DEF UploadValidate, plc_enter_safe
  <2>2. IsGraph(staging')
    BY <1>2, ClampedType, ResetType DEF UploadValidate
  <2>3. stagingValid' \in BOOLEAN
    BY <1>2 DEF UploadValidate, ValidGraph
  <2>. QED BY <1>2, <2>1, <2>2, <2>3 DEF UploadValidate
<1>3. CASE RequestActivate
  BY <1>3 DEF RequestActivate
<1>4. ASSUME NEW i \in NodeIndex(active), NEW n \in Node, SetOutputNode(i, n),
             commanded' \subseteq (NodeIndex(active) \X BOOLEAN)
      PROVE  TypeOK'
  BY <1>4, ChangedNodeType DEF SetOutputNode
<1>5. ASSUME NEW i \in NodeIndex(active), ReleaseOutput(i)
      PROVE  TypeOK'
  <2>1. Released(active.nodes[i]) \in Node
    BY NodeOfGraph, CountDownType
  <2>2. commanded' \subseteq (NodeIndex(active) \X BOOLEAN)
    BY <1>5 DEF ReleaseOutput, CommandedBut
  <2>. QED BY <1>4, <1>5, <2>1, <2>2 DEF ReleaseOutput
<1>6. ASSUME NEW i \in NodeIndex(active), NEW value \in BOOLEAN, NEW holdMs \in HoldMs,
             ForceOutput(i, value, holdMs)
      PROVE  TypeOK'
  <2>1. active.nodes[i] \in Node /\ holdMs \in Nat
    BY NodeOfGraph, RuntimeAssumption
  <2>2. [active.nodes[i] EXCEPT !.force_en = TRUE, !.force_flag = TRUE,
                                !.force_bool = value, !.force_left_ms = holdMs] \in Node
    BY <2>1 DEF Node
  <2>3. commanded' \subseteq (NodeIndex(active) \X BOOLEAN)
    BY <1>6 DEF ForceOutput, CommandedBut
  <2>. QED BY <1>4, <1>6, <2>2, <2>3 DEF ForceOutput
<1>7. ASSUME NEW p \in PlcSafetyState, SafetyCall(p), safeMode' \in BOOLEAN
      PROVE  TypeOK'
  BY <1>7 DEF SafetyCall, graphs
<1>8. CASE RuntimeInit
  <2>1. [PowerOn EXCEPT !.outputs = plc.outputs] \in PlcSafetyState
    BY PowerOnType DEF PlcSafetyState
  <2>2. plc_safety_init(plc) \in PlcSafetyState
    BY <2>1, SetStateType DEF plc_safety_init
  <2>. QED BY <1>7, <1>8, <2>2 DEF RuntimeInit
<1>9. CASE RequestStop
  BY <1>7, <1>9, RequestStopType DEF RequestStop
<1>10. CASE RequestRun
  BY <1>7, <1>10, RequestRunType DEF RequestRun
<1>11. CASE AckFaults
  BY <1>7, <1>11, AckFaultsType DEF AckFaults
<1>12. CASE EnterSafe
  BY <1>7, <1>12, ReportType DEF EnterSafe, plc_enter_safe
<1>13. CASE RuntimeEnterFault
  BY <1>7, <1>13, ReportType DEF RuntimeEnterFault, plc_enter_fault
<1>14. CASE RuntimeResetFault
  BY <1>7, <1>14, AckFaultsType, RequestRunType DEF RuntimeResetFault
<1>. QED BY <1>1, <1>2, <1>3, <1>5, <1>6, <1>8, <1>9, <1>10, <1>11, <1>12, <1>13, <1>14
         DEF Call

\* Every reachable state is well typed: the node records stay whole through
\* uploads, swaps, scans and forces, and the streaks and timers natural numbers.
THEOREM TypeCorrect == Spec => []TypeOK
<1>1. TypeOK /\ UNCHANGED vars => TypeOK'
  BY DEF TypeOK, vars
<1>2. TypeOK /\ [Next]_vars => TypeOK'
  BY <1>1, ScanType, CallType DEF Next
<1>. QED BY <1>2, InitType, PTL DEF Spec

-----------------------------------------------------------------------------
(* The fault latch.  The formula is inductive as it stands: every operator  *)
(* that moves the machine preserves it, and a scan moves it by those alone. *)

Latch(p) == /\ p.state = "FAULT" => p.fault_latched
            /\ p.fault_latched => p.state \in {"FAULT", "SAFE", "STOP"}

LEMMA ApplyKeepsLatch ==
    ASSUME NEW p \in PlcSafetyState, Latch(p)
    PROVE  /\ Latch(apply_safe_outputs_always(p))
           /\ Latch(apply_safe_outputs_once(p))
BY DEF Latch, apply_safe_outputs_always, apply_safe_outputs_once, PlcSafetyState

LEMMA LeaveKeepsLatch ==
    ASSUME NEW p \in PlcSafetyState, NEW new \in {"SAFE", "STOP"}
    PROVE  /\ plc_safety_set_state(p, new) \in PlcSafetyState
           /\ Latch(plc_safety_set_state(p, new))
<1> DEFINE r == plc_safety_set_state(p, new)
<1>1. r \in PlcSafetyState
  BY SetStateType
<1>2. r.state = new
  BY SetStateFields
<1> HIDE DEF r
<1>3. Latch(r)
  BY <1>2 DEF Latch
<1>. QED BY <1>1, <1>3 DEF r

LEMMA ReportKeepsLatch ==
    ASSUME NEW p \in PlcSafetyState, Latch(p), NEW code, NEW severity
    PROVE  Latch(plc_fault_report(p, code, severity))
<1>1. /\ plc_safety_set_state(p, "SAFE") \in PlcSafetyState
      /\ Latch(plc_safety_set_state(p, "SAFE"))
  BY LeaveKeepsLatch
<1> DEFINE q == [p EXCEPT !.fault_latched = TRUE]
<1>2. q \in PlcSafetyState /\ q.fault_latched
  BY DEF PlcSafetyState
<1> HIDE DEF q
<1>3. /\ plc_safety_set_state(q, "FAULT") \in PlcSafetyState
      /\ Latch(plc_safety_set_state(q, "FAULT"))
  BY <1>2, SetStateType, SetStateFields DEF Latch
<1>. QED BY <1>1, <1>3, ApplyKeepsLatch DEF plc_fault_report, q

LEMMA RequestsKeepLatch ==
    ASSUME NEW p \in PlcSafetyState, Latch(p)
    PROVE  /\ Latch(plc_request_stop(p))
           /\ Latch(plc_request_run(p))
           /\ Latch(plc_ack_faults(p))
           /\ Latch(plc_safety_init(p))
<1>1. Latch(plc_request_stop(p))
  <2>1. plc_fault_report(p, "SOME", "WARNING") = p
    BY DEF plc_fault_report
  <2>2. /\ plc_safety_set_state(p, "STOP") \in PlcSafetyState
        /\ Latch(plc_safety_set_state(p, "STOP"))
    BY LeaveKeepsLatch
  <2>. QED BY <2>1, <2>2, ApplyKeepsLatch DEF plc_request_stop
<1>2. Latch(plc_request_run(p))
  BY DEF Latch, plc_request_run, plc_is_safe_or_faulted, plc_safety_set_state, PlcSafetyState
<1>3. Latch(plc_ack_faults(p))
  <2> DEFINE q == [p EXCEPT !.fault_latched = FALSE,
                            !.protocol_error_streak = 0,
                            !.scan_overrun_streak = 0,
                            !.watchdog_miss_streak = 0,
                            !.safe_outputs_applied = FALSE]
  <2>1. q \in PlcSafetyState /\ ~q.fault_latched
    BY DEF PlcSafetyState
  <2>2. plc_ack_faults(p) =
          IF plc_is_running(p) THEN p
          ELSE apply_safe_outputs_once(plc_safety_set_state(q, "STOP"))
    BY DEF plc_ack_faults
  <2> HIDE DEF q
  <2>3. /\ plc_safety_set_state(q, "STOP") \in PlcSafetyState
        /\ Latch(plc_safety_set_state(q, "STOP"))
    BY <2>1, LeaveKeepsLatch
  <2>. QED BY <2>2, <2>3, ApplyKeepsLatch
<1>4. Latch(plc_safety_init(p))
  BY DEF Latch, plc_safety_init, plc_safety_set_state, PowerOn, PlcSafetyState
<1>. QED BY <1>1, <1>2, <1>3, <1>4

LEMMA NotesKeepLatch ==
    ASSUME NEW p \in PlcSafetyState, Latch(p)
    PROVE  /\ Latch(plc_fault_note_scan_overrun(p))
           /\ Latch(plc_fault_note_scan_ok(p))
<1> DEFINE q == [p EXCEPT !.scan_overrun_streak = Incremented(@)]
<1>1. q \in PlcSafetyState /\ Latch(q)
  BY DEF PlcSafetyState, Latch, Incremented
<1>2. Latch(plc_fault_note_scan_ok(p))
  BY DEF plc_fault_note_scan_ok, PlcSafetyState, Latch
<1>. QED BY <1>1, <1>2, ReportKeepsLatch DEF plc_fault_note_scan_overrun

LEMMA LatchStep == TypeOK /\ LatchBlocksRun /\ [Next]_vars => LatchBlocksRun'
<1> SUFFICES ASSUME TypeOK, Latch(plc), [Next]_vars PROVE Latch(plc')
  BY DEF LatchBlocksRun, Latch
<1>1. plc \in PlcSafetyState
  BY DEF TypeOK
<1>2. CASE UNCHANGED plc
  BY <1>2
<1>3. CASE TickSafe \/ TickReady
  BY <1>1, <1>3, ApplyKeepsLatch DEF TickSafe, TickReady
<1>4. CASE SwapGraph
  <2>1. /\ apply_safe_outputs_always(plc) \in PlcSafetyState
        /\ Latch(apply_safe_outputs_always(plc))
    BY <1>1, ApplyAlwaysType, ApplyKeepsLatch
  <2>. QED BY <1>4, <2>1, AckFaultsType, RequestsKeepLatch DEF SwapGraph
<1>5. CASE TickInputs
  BY <1>1, <1>5, ReportKeepsLatch DEF TickInputs, plc_enter_safe
<1>6. CASE NodeFault
  BY <1>1, <1>6, ReportKeepsLatch DEF NodeFault, plc_enter_fault
<1>7. CASE NodeExec
  BY <1>1, <1>7 DEF NodeExec, WritePort, Latch, PlcSafetyState
<1>8. CASE TickFinish
  BY <1>1, <1>8, NotesKeepLatch DEF TickFinish
<1>9. CASE UploadValidate
  BY <1>1, <1>9, ReportKeepsLatch DEF UploadValidate, plc_enter_safe
<1>10. CASE RuntimeInit \/ RequestStop \/ RequestRun \/ AckFaults
  BY <1>1, <1>10, RequestsKeepLatch
     DEF RuntimeInit, RequestStop, RequestRun, AckFaults, SafetyCall
<1>11. CASE EnterSafe \/ RuntimeEnterFault
  BY <1>1, <1>11, ReportKeepsLatch
     DEF EnterSafe, RuntimeEnterFault, SafetyCall, plc_enter_safe, plc_enter_fault
<1>12. CASE RuntimeResetFault
  BY <1>1, <1>12, AckFaultsType, RequestsKeepLatch DEF RuntimeResetFault, SafetyCall
<1>13. Scan => \/ UNCHANGED plc \/ TickSafe \/ TickReady \/ SwapGraph \/ TickInputs
               \/ NodeFault \/ NodeExec \/ TickFinish
  BY DEF Scan, TickBegin, TickSwap, TickCommands, TickNode
<1>14. Call => \/ UNCHANGED plc \/ UploadValidate \/ RuntimeInit \/ RequestStop
               \/ RequestRun \/ AckFaults \/ EnterSafe \/ RuntimeEnterFault
               \/ RuntimeResetFault
  BY DEF Call, UploadCopy, RequestActivate, ReleaseOutput, ForceOutput, SetOutputNode
<1>. QED BY <1>2, <1>3, <1>4, <1>5, <1>6, <1>7, <1>8, <1>9, <1>10, <1>11, <1>12, <1>13, <1>14
         DEF Next, vars

\* A machine latched in FAULT never runs, however activations, swaps, faults and
\* acknowledgements interleave with the scan, in one loop or in a task of its own.
THEOREM LatchBlocksRunAlways == Spec => []LatchBlocksRun
<1>1. Init => LatchBlocksRun
  BY DEF Init, PowerOn, LatchBlocksRun
<1>. QED BY <1>1, LatchStep, TypeCorrect, PTL DEF Spec

-----------------------------------------------------------------------------
(* Forces.  A force of node i is in order when it is on an output node,    *)
(* carries the flag and holds a value commanded for i; nothing but         *)
(* plc_force_output puts one on.                                           *)

ForceInOrder(n, i, c) ==
    n.force_en => n.type \in OutputType /\ n.force_flag /\ <<i, n.force_bool>> \in c

LEMMA ResetNodes ==
    ASSUME NEW g, IsGraph(g)
    PROVE  /\ NodeIndex(plc_graph_reset_runtime(g)) = NodeIndex(g)
           /\ \A i \in NodeIndex(g) :
                 plc_graph_reset_runtime(g).nodes[i] = plc_node_reset_runtime(g.nodes[i])
BY DEF plc_graph_reset_runtime, NodeIndex, IsGraph

LEMMA RefreshNodes ==
    ASSUME NEW g, IsGraph(g), NEW signal, NEW i \in NodeIndex(g)
    PROVE  plc_refresh_inputs_hw(g, signal).nodes[i] =
             [g.nodes[i] EXCEPT !.out = plc_refresh_inputs_hw(g, signal).nodes[i].out]
<1> DEFINE n == g.nodes[i]
           v == ~BadChannel(n) /\ signal[<<n.type, n.paramInt>>]
           m == plc_refresh_inputs_hw(g, signal).nodes[i]
<1>1. m = IF n.type \in {"DIGITAL_IN", "AI_IN"} THEN [n EXCEPT !.out = v] ELSE n
  BY DEF plc_refresh_inputs_hw, IsGraph
<1>2. n \in Node
  BY NodeOfGraph
<1> HIDE DEF v, n, m
<1>3. m = [n EXCEPT !.out = m.out]
  BY <1>1, <1>2 DEF Node
<1>. QED BY <1>3 DEF m, n

LEMMA RefreshIndex ==
    ASSUME NEW g, IsGraph(g), NEW signal
    PROVE  NodeIndex(plc_refresh_inputs_hw(g, signal)) = NodeIndex(g)
BY DEF plc_refresh_inputs_hw, NodeIndex, IsGraph

LEMMA PendingNodes ==
    ASSUME NEW g, IsGraph(g), NEW dt
    PROVE  /\ NodeIndex(plc_apply_pending_cmds(g, dt)) = NodeIndex(g)
           /\ \A i \in NodeIndex(g) :
                 plc_apply_pending_cmds(g, dt).nodes[i] = CountDown(g.nodes[i], dt)
BY DEF plc_apply_pending_cmds, NodeIndex, IsGraph

LEMMA NodeOpsKeepForceInOrder ==
    ASSUME NEW n \in Node, NEW i, NEW c
    PROVE  /\ ForceInOrder(plc_node_reset_runtime(n), i, {})
           /\ ForceInOrder(Released(n), i, c)
           /\ ForceInOrder(n, i, c) => \A v : ForceInOrder([n EXCEPT !.out = v], i, c)
           /\ ForceInOrder(n, i, c) => \A dt : ForceInOrder(CountDown(n, dt), i, c)
<1>1. ForceInOrder(plc_node_reset_runtime(n), i, {}) /\ ForceInOrder(Released(n), i, c)
  BY DEF ForceInOrder, plc_node_reset_runtime, Released, Node
<1>2. ForceInOrder(n, i, c) => \A v : ForceInOrder([n EXCEPT !.out = v], i, c)
  BY DEF ForceInOrder, Node
<1>3. ForceInOrder(n, i, c) => \A ms : ForceInOrder([n EXCEPT !.force_left_ms = ms], i, c)
  BY DEF ForceInOrder, Node
<1>4. ASSUME ForceInOrder(n, i, c), NEW dt
      PROVE  ForceInOrder(CountDown(n, dt), i, c)
  <2>1. \/ CountDown(n, dt) = n
        \/ CountDown(n, dt) = Released(n)
        \/ \E ms : CountDown(n, dt) = [n EXCEPT !.force_left_ms = ms]
    BY DEF CountDown
  <2>. QED BY <1>1, <1>3, <1>4, <2>1
<1>. QED BY <1>1, <1>2, <1>4

LEMMA ForceStep == TypeOK /\ ForceIsExplicit /\ [Next]_vars => ForceIsExplicit'
<1> DEFINE AllInOrder(g, c) == \A i \in NodeIndex(g) : ForceInOrder(g.nodes[i], i, c)
<1> SUFFICES ASSUME TypeOK, AllInOrder(active, commanded), [Next]_vars
             PROVE  AllInOrder(active', commanded')
  BY DEF ForceIsExplicit, ForceInOrder
<1>1. IsGraph(active) /\ IsGraph(staging)
  BY DEF TypeOK
<1>2. CASE UNCHANGED <<active, commanded>>
  BY <1>2
<1>3. CASE SwapGraph
  <2>1. active' = plc_graph_reset_runtime(staging) /\ commanded' = {}
    BY <1>3 DEF SwapGraph
  <2>. QED BY <1>1, <2>1, ResetNodes, NodeOfGraph, NodeOpsKeepForceInOrder
<1>4. CASE TickInputs
  <2>1. commanded' = commanded
    BY <1>4 DEF TickInputs
  <2>2. PICK signal : active' = plc_refresh_inputs_hw(active, signal)
    BY <1>4 DEF TickInputs
  <2>3. NodeIndex(active') = NodeIndex(active)
    BY <1>1, <2>2, RefreshIndex
  <2>4. ASSUME NEW i \in NodeIndex(active)
        PROVE  ForceInOrder(active'.nodes[i], i, commanded)
    <3>1. active'.nodes[i] = [active.nodes[i] EXCEPT !.out = active'.nodes[i].out]
      BY <1>1, <2>2, RefreshNodes
    <3>2. active.nodes[i] \in Node /\ ForceInOrder(active.nodes[i], i, commanded)
      BY <1>1, NodeOfGraph
    <3> DEFINE v == active'.nodes[i].out
    <3> HIDE DEF v
    <3>3. ForceInOrder([active.nodes[i] EXCEPT !.out = v], i, commanded)
      BY <3>2, NodeOpsKeepForceInOrder
    <3>. QED BY <3>1, <3>3 DEF v
  <2>. QED BY <2>1, <2>3, <2>4
<1>5. CASE TickCommands
  <2>1. active' = plc_apply_pending_cmds(active, scan.dt)
    BY <1>5 DEF TickCommands
  <2>2. commanded' = {c \in commanded : active'.nodes[c[1]].force_en}
    BY <1>5 DEF TickCommands
  <2>3. NodeIndex(active') = NodeIndex(active)
    BY <1>1, <2>1, PendingNodes
  <2>4. ASSUME NEW i \in NodeIndex(active)
        PROVE  ForceInOrder(active'.nodes[i], i, commanded)
    BY <1>1, <2>1, PendingNodes, NodeOfGraph, NodeOpsKeepForceInOrder
  <2>5. ASSUME NEW i \in NodeIndex(active)
        PROVE  ForceInOrder(active'.nodes[i], i, commanded')
    BY <2>2, <2>4 DEF ForceInOrder
  <2>. QED BY <2>3, <2>5
<1>6. ASSUME NEW i \in NodeIndex(active), NEW n, ForceInOrder(n, i, commanded'),
             active' = [active EXCEPT !.nodes[i] = n],
             \A c \in commanded : c[1] # i => c \in commanded'
      PROVE  AllInOrder(active', commanded')
  <2>1. NodeIndex(active') = NodeIndex(active)
    BY <1>1, <1>6 DEF IsGraph, NodeIndex
  <2>2. \A j \in NodeIndex(active) : active'.nodes[j] = IF j = i THEN n ELSE active.nodes[j]
    BY <1>1, <1>6 DEF IsGraph
  <2>3. ASSUME NEW j \in NodeIndex(active), j # i
        PROVE  ForceInOrder(active.nodes[j], j, commanded')
    BY <1>6, <2>3 DEF ForceInOrder
  <2>. QED BY <1>6, <2>1, <2>2, <2>3
<1>7. CASE TickNode /\ NodeExec
  <2>1. scan.i \in NodeIndex(active)
    BY <1>1, <1>7 DEF TickNode, NodeIndex, IsGraph, TypeOK
  <2>2. PICK seen \in BOOLEAN : active' = [active EXCEPT !.nodes[scan.i].out = seen]
    BY <1>7 DEF NodeExec
  <2>3. ForceInOrder([active.nodes[scan.i] EXCEPT !.out = seen], scan.i, commanded)
    BY <1>1, <2>1, NodeOfGraph, NodeOpsKeepForceInOrder
  <2>4. active' = [active EXCEPT !.nodes[scan.i] = [active.nodes[scan.i] EXCEPT !.out = seen]]
    BY <2>2
  <2>5. commanded' = commanded
    BY <1>7 DEF NodeExec
  <2>. QED BY <1>6, <2>1, <2>3, <2>4, <2>5
<1>8. ASSUME NEW i \in NodeIndex(active), ReleaseOutput(i)
      PROVE  AllInOrder(active', commanded')
  <2>1. ForceInOrder(Released(active.nodes[i]), i, commanded')
    BY <1>1, NodeOfGraph, NodeOpsKeepForceInOrder
  <2>2. active' = [active EXCEPT !.nodes[i] = Released(active.nodes[i])]
    BY <1>8 DEF ReleaseOutput, SetOutputNode
  <2>3. \A c \in commanded : c[1] # i => c \in commanded'
    BY <1>8 DEF ReleaseOutput, CommandedBut
  <2>. QED BY <1>6, <2>1, <2>2, <2>3
<1>9. ASSUME NEW i \in NodeIndex(active), NEW value \in BOOLEAN, NEW holdMs \in HoldMs,
             ForceOutput(i, value, holdMs)
      PROVE  AllInOrder(active', commanded')
  <2> DEFINE n == [active.nodes[i] EXCEPT !.force_en = TRUE, !.force_flag = TRUE,
                                          !.force_bool = value, !.force_left_ms = holdMs]
  <2>1. <<i, value>> \in commanded' /\ \A c \in commanded : c[1] # i => c \in commanded'
    BY <1>9 DEF ForceOutput, CommandedBut
  <2>2. ForceInOrder(n, i, commanded')
    BY <1>1, <1>9, <2>1, NodeOfGraph DEF ForceOutput, SetOutputNode, ForceInOrder, Node
  <2>3. active' = [active EXCEPT !.nodes[i] = n]
    BY <1>9 DEF ForceOutput, SetOutputNode
  <2> HIDE DEF n
  <2>. QED BY <1>6, <2>1, <2>2, <2>3
<1>10. Scan => \/ UNCHANGED <<active, commanded>> \/ SwapGraph \/ TickInputs \/ TickCommands
               \/ TickNode /\ NodeExec
  BY DEF Scan, TickSafe, TickBegin, TickSwap, TickReady, TickNode, NodeFault, TickFinish, graphs
<1>11. Call => \/ UNCHANGED <<active, commanded>>
               \/ \E i \in NodeIndex(active) :
                     \/ ReleaseOutput(i)
                     \/ \E value \in BOOLEAN, holdMs \in HoldMs : ForceOutput(i, value, holdMs)
  BY DEF Call, UploadCopy, UploadValidate, RequestActivate, RuntimeInit, RequestStop,
         RequestRun, AckFaults, EnterSafe, RuntimeEnterFault, RuntimeResetFault,
         SafetyCall, graphs
<1>. QED BY <1>2, <1>3, <1>4, <1>5, <1>7, <1>8, <1>9, <1>10, <1>11 DEF Next, vars

\* Whatever graphs are uploaded, with whatever forces in their image, the only
\* forces there ever are, are on outputs, with the value plc_force_output last
\* asked for on the graph that is active, neither released nor run out.
THEOREM ForceIsExplicitAlways == Spec => []ForceIsExplicit
<1>1. Init => ForceIsExplicit
  BY DEF Init, EmptyGraph, ForceIsExplicit, NodeIndex
<1>. QED BY <1>1, ForceStep, TypeCorrect, PTL DEF Spec

-----------------------------------------------------------------------------
(* What kind a force has.  A step of a scan resets a node, counts its force *)
(* down, or sets its value: none makes a timed force one without end, and   *)
(* only the reset takes a permanent one away.                               *)

KindKept(m, n, swap) ==
    /\ Timed(m) => ~Permanent(n)
    /\ Permanent(m) /\ ~swap => Permanent(n)

LEMMA NodeOpsKeepKind ==
    ASSUME NEW n \in Node
    PROVE  /\ ~Permanent(plc_node_reset_runtime(n))
           /\ \A dt \in Nat \ {0} : KindKept(n, CountDown(n, dt), FALSE)
           /\ \A v \in BOOLEAN : KindKept(n, [n EXCEPT !.out = v], FALSE)
BY DEF KindKept, Permanent, Timed, plc_node_reset_runtime, CountDown, Released, Forced, Node

LEMMA ForceKindStep ==
    TypeOK /\ [Next]_vars =>
        [scan' # scan =>
          \A i \in NodeIndex(active) \cap NodeIndex(active') :
              /\ Timed(active.nodes[i]) => ~Permanent(active'.nodes[i])
              /\ Permanent(active.nodes[i]) /\ scan.pc # "swap"
                   => Permanent(active'.nodes[i])]_vars
<1> SUFFICES ASSUME TypeOK, Next, scan' # scan,
                    NEW i \in NodeIndex(active) \cap NodeIndex(active')
             PROVE  KindKept(active.nodes[i], active'.nodes[i], scan.pc = "swap")
  BY DEF KindKept, vars
<1>1. IsGraph(active) /\ active.nodes[i] \in Node /\ scan.dt \in Nat \ {0}
  BY NodeOfGraph DEF TypeOK
<1>2. CASE UNCHANGED active
  BY <1>1, <1>2 DEF KindKept, Timed, Permanent, Node
<1>3. CASE TickSwap /\ SwapGraph
  <2>1. IsGraph(staging) /\ active' = plc_graph_reset_runtime(staging)
    BY <1>3 DEF TypeOK, SwapGraph
  <2>2. i \in NodeIndex(staging) /\ active'.nodes[i] = plc_node_reset_runtime(staging.nodes[i])
    BY <2>1, ResetNodes
  <2>3. staging.nodes[i] \in Node
    BY <2>1, <2>2, NodeOfGraph
  <2>4. ~Permanent(active'.nodes[i])
    BY <1>1, <2>2, <2>3, NodeOpsKeepKind
  <2>. QED BY <1>3, <2>4 DEF KindKept, TickSwap, ScanAt
<1>4. CASE TickInputs
  <2>1. PICK signal \in [InputsOf(active) -> BOOLEAN] :
            active' = plc_refresh_inputs_hw(active, signal)
    BY <1>4 DEF TickInputs
  <2>2. active'.nodes[i] = [active.nodes[i] EXCEPT !.out = active'.nodes[i].out]
    BY <1>1, <2>1, RefreshNodes
  <2>3. active'.nodes[i].out \in BOOLEAN
    BY <1>1, <2>1, RefreshType, NodeOfGraph DEF Node
  <2> DEFINE v == active'.nodes[i].out
  <2> HIDE DEF v
  <2>4. KindKept(active.nodes[i], [active.nodes[i] EXCEPT !.out = v], FALSE)
    BY <1>1, <2>3, NodeOpsKeepKind DEF v, KindKept
  <2>. QED BY <2>2, <2>4 DEF v, KindKept
<1>5. CASE TickCommands
  <2>1. active'.nodes[i] = CountDown(active.nodes[i], scan.dt)
    BY <1>1, <1>5, PendingNodes DEF TickCommands
  <2>. QED BY <1>1, <2>1, NodeOpsKeepKind DEF KindKept
<1>6. CASE TickNode /\ NodeExec
  <2>1. PICK seen \in BOOLEAN : active' = [active EXCEPT !.nodes[scan.i].out = seen]
    BY <1>6 DEF NodeExec
  <2>2. active'.nodes[i] = active.nodes[i] \/ active'.nodes[i] = [active.nodes[i] EXCEPT !.out = seen]
    BY <1>1, <2>1 DEF IsGraph
  <2>. QED BY <1>1, <2>2, NodeOpsKeepKind DEF KindKept, Timed, Permanent, Node
<1>7. Scan
  BY DEF Next, Call, UploadCopy, UploadValidate, RequestActivate, SetOutputNode, ReleaseOutput,
         ForceOutput, RuntimeInit, RequestStop, RequestRun, AckFaults, EnterSafe,
         RuntimeEnterFault, RuntimeResetFault, SafetyCall
<1>8. TickSwap => UNCHANGED active \/ SwapGraph
  BY DEF TickSwap, graphs
<1>9. TickNode => UNCHANGED active \/ NodeExec
  BY DEF TickNode, NodeFault, graphs
<1>10. TickSafe \/ TickBegin \/ TickReady \/ TickFinish => UNCHANGED active
  BY DEF TickSafe, TickBegin, TickReady, TickFinish, graphs
<1>. QED BY <1>2, <1>3, <1>4, <1>5, <1>6, <1>7, <1>8, <1>9, <1>10 DEF Scan

\* Whatever graphs, hold times and time steps: no scan makes a timed force permanent,
\* and a permanent one ends only with its graph or by a call (plc_apply_pending_cmds).
THEOREM ForceKindStableAlways == Spec => ForceKindStable
BY ForceKindStep, TypeCorrect, PTL DEF Spec, ForceKindStable

-----------------------------------------------------------------------------
(* One loop (Preemptive = FALSE): no scan executes a graph that was not     *)
(* validated, and outside RUN nothing is energised.  Neither is inductive.  *)
(* A graph stays valid because a scan and a force touch run-time fields     *)
(* only; a swap brings in a valid one because no call is between copying    *)
(* and validating; and a node that runs after an input made the machine     *)
(* SAFE writes no output because it is node 0, which can have no input.     *)

SameConfig(m, n) ==
    /\ m.id = n.id /\ m.type = n.type /\ m.valueType = n.valueType
    /\ m.inA = n.inA /\ m.inB = n.inB
    /\ m.paramInt = n.paramInt /\ m.paramMs = n.paramMs

Accepted(g) == ValidGraph(g) /\ g.cycleMs \in CycleMin..CycleMax

OneLoop == scan.pc = "idle" \/ caller = "idle"

StagingIsValid == stagingValid /\ caller = "idle" => Accepted(staging)

\* Outputs are dark outside RUN and whenever the applied flag says so.
Dark(p) ==
    /\ p.state # "RUN" => p.outputs = SafeImage
    /\ p.safe_outputs_applied => p.outputs = SafeImage
    /\ p.state = "RUN" => ~p.safe_outputs_applied

\* Where a scan may be, given the state of the machine.
Located ==
    /\ scan.pc \in {"swap", "ready", "inputs", "commands"} => scan.i = 0
    /\ scan.pc = "inputs" => plc.state = "RUN"
    /\ scan.pc \in {"commands", "nodes"} => plc.state \in {"RUN", "SAFE"}
    /\ scan.pc = "nodes" /\ scan.i > 0 => plc.state = "RUN"

ProgramInv == OneLoop /\ StagingIsValid /\ ActiveIsValid /\ ScanIsOfActive
DarkInv    == Dark(plc) /\ Located

LEMMA SameConfigValid ==
    ASSUME NEW m \in Node, NEW n \in Node, SameConfig(m, n), NEW i, ValidNode(n, i)
    PROVE  ValidNode(m, i)
BY DEF SameConfig, ValidNode, TypeRules, NoInputs, ChannelOK

LEMMA NodeOpsKeepConfig ==
    ASSUME NEW n \in Node
    PROVE  /\ SameConfig(n, n)
           /\ SameConfig(plc_node_reset_runtime(n), n)
           /\ SameConfig(Released(n), n)
           /\ \A v : SameConfig([n EXCEPT !.out = v], n)
           /\ \A dt : SameConfig(CountDown(n, dt), n)
<1>1. SameConfig(plc_node_reset_runtime(n), n) /\ SameConfig(Released(n), n)
  BY DEF SameConfig, plc_node_reset_runtime, Released, Node
<1>2. SameConfig(n, n) /\ \A v : SameConfig([n EXCEPT !.out = v], n)
  BY DEF SameConfig, Node
<1>3. \A ms : SameConfig([n EXCEPT !.force_left_ms = ms], n)
  BY DEF SameConfig, Node
<1>4. ASSUME NEW dt
      PROVE  SameConfig(CountDown(n, dt), n)
  <2>1. \/ CountDown(n, dt) = n
        \/ CountDown(n, dt) = Released(n)
        \/ \E ms : CountDown(n, dt) = [n EXCEPT !.force_left_ms = ms]
    BY DEF CountDown
  <2>. QED BY <1>1, <1>2, <1>3, <2>1
<1>. QED BY <1>1, <1>2, <1>4

\* A graph whose nodes keep their configuration stays accepted.
LEMMA SameProgramAccepted ==
    ASSUME NEW g, IsGraph(g), Accepted(g), NEW h, IsGraph(h),
           h.nodeCount = g.nodeCount, h.cycleMs = g.cycleMs,
           \A i \in NodeIndex(g) : SameConfig(h.nodes[i], g.nodes[i])
    PROVE  Accepted(h)
<1>1. NodeIndex(h) = NodeIndex(g)
  BY DEF NodeIndex
<1>2. ASSUME NEW i \in NodeIndex(g)
      PROVE  ValidNode(h.nodes[i], i)
  BY <1>1, NodeOfGraph, SameConfigValid DEF Accepted, ValidGraph
<1>. QED BY <1>1, <1>2 DEF Accepted, ValidGraph

LEMMA HeaderKept ==
    ASSUME NEW g, IsGraph(g), NEW signal, NEW dt
    PROVE  /\ plc_graph_reset_runtime(g).nodeCount = g.nodeCount
           /\ plc_graph_reset_runtime(g).cycleMs = g.cycleMs
           /\ plc_refresh_inputs_hw(g, signal).nodeCount = g.nodeCount
           /\ plc_refresh_inputs_hw(g, signal).cycleMs = g.cycleMs
           /\ plc_apply_pending_cmds(g, dt).nodeCount = g.nodeCount
           /\ plc_apply_pending_cmds(g, dt).cycleMs = g.cycleMs
BY DEF IsGraph, plc_graph_reset_runtime, plc_refresh_inputs_hw, plc_apply_pending_cmds

LEMMA ResetAccepted ==
    ASSUME NEW g, IsGraph(g), Accepted(g)
    PROVE  Accepted(plc_graph_reset_runtime(g))
<1>1. \A i \in NodeIndex(g) : SameConfig(plc_graph_reset_runtime(g).nodes[i], g.nodes[i])
  BY ResetNodes, NodeOfGraph, NodeOpsKeepConfig
<1>. QED BY <1>1, HeaderKept, ResetType, SameProgramAccepted

LEMMA RefreshAccepted ==
    ASSUME NEW g, IsGraph(g), Accepted(g), NEW signal \in [InputsOf(g) -> BOOLEAN]
    PROVE  Accepted(plc_refresh_inputs_hw(g, signal))
<1> DEFINE h == plc_refresh_inputs_hw(g, signal)
<1>1. ASSUME NEW i \in NodeIndex(g)
      PROVE  SameConfig(h.nodes[i], g.nodes[i])
  <2>1. h.nodes[i] = [g.nodes[i] EXCEPT !.out = h.nodes[i].out]
    BY RefreshNodes
  <2>2. \A v : SameConfig([g.nodes[i] EXCEPT !.out = v], g.nodes[i])
    BY NodeOfGraph, NodeOpsKeepConfig
  <2> HIDE DEF h
  <2>3. SameConfig([g.nodes[i] EXCEPT !.out = h.nodes[i].out], g.nodes[i])
    BY <2>2
  <2>. QED BY <2>1, <2>3
<1>2. h.nodeCount = g.nodeCount /\ h.cycleMs = g.cycleMs
  BY HeaderKept
<1>3. IsGraph(h)
  BY RefreshType
<1> HIDE DEF h
<1>4. Accepted(h)
  BY <1>1, <1>2, <1>3, SameProgramAccepted
<1>. QED BY <1>4 DEF h

LEMMA PendingAccepted ==
    ASSUME NEW g, IsGraph(g), Accepted(g), NEW dt \in Nat
    PROVE  Accepted(plc_apply_pending_cmds(g, dt))
<1>1. \A i \in NodeIndex(g) : SameConfig(plc_apply_pending_cmds(g, dt).nodes[i], g.nodes[i])
  BY PendingNodes, NodeOfGraph, NodeOpsKeepConfig
<1>. QED BY <1>1, HeaderKept, PendingCmdsType, SameProgramAccepted

LEMMA ChangedNodeAccepted ==
    ASSUME NEW g, IsGraph(g), Accepted(g), NEW i \in NodeIndex(g),
           NEW n \in Node, SameConfig(n, g.nodes[i])
    PROVE  Accepted([g EXCEPT !.nodes[i] = n])
<1> DEFINE h == [g EXCEPT !.nodes[i] = n]
<1>1. IsGraph(h)
  BY ChangedNodeType
<1>2. h.nodeCount = g.nodeCount /\ h.cycleMs = g.cycleMs
  BY DEF IsGraph
<1>3. \A j \in NodeIndex(g) : h.nodes[j] = IF j = i THEN n ELSE g.nodes[j]
  BY DEF IsGraph
<1> HIDE DEF h
<1>4. \A j \in NodeIndex(g) : SameConfig(h.nodes[j], g.nodes[j])
  BY <1>3, NodeOfGraph, NodeOpsKeepConfig
<1>5. Accepted(h)
  BY <1>1, <1>2, <1>4, SameProgramAccepted
<1>. QED BY <1>5 DEF h

LEMMA ClampedAccepted ==
    ASSUME NEW g, IsGraph(g), ValidGraph(g)
    PROVE  Accepted(Clamped(g))
<1>1. /\ Clamped(g).nodeCount = g.nodeCount
      /\ Clamped(g).nodes = g.nodes
  BY DEF Clamped, IsGraph
<1>2. Clamped(g).cycleMs \in CycleMin..CycleMax
  BY GraphAssumption DEF Clamped, IsGraph, ValidGraph
<1>. QED BY <1>1, <1>2 DEF Accepted, ValidGraph, NodeIndex

LEMMA ProgramStep ==
    ASSUME Preemptive = FALSE, TypeOK, ProgramInv, [Next]_vars
    PROVE  ProgramInv'
<1> USE DEF ProgramInv, OneLoop, StagingIsValid, ActiveIsValid, ScanIsOfActive, Accepted
<1>1. IsGraph(active) /\ IsGraph(staging)
  BY DEF TypeOK
<1>2. CASE UNCHANGED vars
  BY <1>2 DEF vars
<1>3. CASE TickSafe
  BY <1>3 DEF TickSafe, graphs
<1>4. CASE TickBegin
  BY <1>4 DEF TickBegin, ScanAt, graphs
<1>5. CASE TickSwap
  <2>1. scan'.pc = "ready" /\ caller = "idle" /\ caller' = "idle"
    BY <1>5 DEF TickSwap, ScanAt, Goto, TypeOK
  <2>2. CASE SwapGraph
    <3>1. Accepted(active')
      BY <1>1, <2>1, <2>2, ResetAccepted DEF SwapGraph
    <3>. QED BY <2>1, <2>2, <3>1 DEF SwapGraph
  <2>3. CASE UNCHANGED <<plc, graphs>>
    BY <2>1, <2>3 DEF graphs
  <2>. QED BY <1>5, <2>2, <2>3 DEF TickSwap
<1>6. CASE TickReady
  BY <1>6 DEF TickReady, ScanAt, Idle, graphs, TypeOK
<1>7. CASE TickInputs
  <2>1. activeValid /\ scan'.pc = "commands" /\ caller = "idle"
    BY <1>7 DEF TickInputs, ScanAt, Goto, TypeOK
  <2>2. Accepted(active')
    BY <1>1, <1>7, <2>1, RefreshAccepted DEF TickInputs
  <2>. QED BY <1>7, <2>1, <2>2 DEF TickInputs
<1>8. CASE TickCommands
  <2>1. activeValid /\ scan'.pc = "nodes" /\ caller = "idle" /\ scan.dt \in Nat
    BY <1>8 DEF TickCommands, ScanAt, Goto, TypeOK
  <2>2. Accepted(active')
    BY <1>1, <1>8, <2>1, PendingAccepted DEF TickCommands
  <2>. QED BY <1>8, <2>1, <2>2 DEF TickCommands
<1>9. CASE TickNode
  <2>1. activeValid /\ caller = "idle" /\ scan.i \in NodeIndex(active)
    BY <1>1, <1>9 DEF TickNode, ScanAt, NodeIndex, IsGraph, TypeOK
  <2>2. scan'.pc \in {"finish", "nodes"}
    BY <1>9 DEF TickNode, ScanAt, NodeFault, NodeExec, Goto, TypeOK
  <2>3. CASE NodeFault
    BY <2>1, <2>3 DEF NodeFault, graphs
  <2>4. CASE NodeExec
    <3>1. PICK seen \in BOOLEAN : active' = [active EXCEPT !.nodes[scan.i].out = seen]
      BY <2>4 DEF NodeExec
    <3> DEFINE n == [active.nodes[scan.i] EXCEPT !.out = seen]
    <3>2. active' = [active EXCEPT !.nodes[scan.i] = n]
      BY <3>1
    <3>3. n \in Node /\ SameConfig(n, active.nodes[scan.i])
      BY <1>1, <2>1, NodeOfGraph DEF Node, SameConfig
    <3> HIDE DEF n
    <3>4. Accepted(active')
      BY <1>1, <2>1, <3>2, <3>3, ChangedNodeAccepted
    <3>. QED BY <2>1, <2>4, <3>4 DEF NodeExec
  <2>. QED BY <1>9, <2>3, <2>4 DEF TickNode
<1>10. CASE TickFinish
  BY <1>10 DEF TickFinish, Idle, graphs
<1>11. CASE UploadCopy
  BY <1>11 DEF UploadCopy, CallerAt
<1>12. CASE UploadValidate
  <2>1. CASE ValidGraph(staging)
    <3>1. Accepted(staging')
      BY <1>1, <1>12, <2>1, ClampedAccepted, ClampedType, ResetAccepted DEF UploadValidate
    <3>. QED BY <1>12, <2>1, <3>1 DEF UploadValidate
  <2>2. CASE ~ValidGraph(staging)
    BY <1>12, <2>2 DEF UploadValidate
  <2>. QED BY <2>1, <2>2
<1>13. CASE RequestActivate
  BY <1>13 DEF RequestActivate
<1>14. ASSUME NEW i \in NodeIndex(active), NEW n \in Node,
              SameConfig(n, active.nodes[i]), SetOutputNode(i, n)
       PROVE  ProgramInv'
  <2>1. Accepted(active')
    BY <1>1, <1>14, ChangedNodeAccepted DEF SetOutputNode
  <2>. QED BY <1>14, <2>1 DEF SetOutputNode
<1>15. ASSUME NEW i \in NodeIndex(active), ReleaseOutput(i)
       PROVE  ProgramInv'
  <2>1. /\ Released(active.nodes[i]) \in Node
        /\ SameConfig(Released(active.nodes[i]), active.nodes[i])
    BY <1>1, NodeOfGraph, CountDownType, NodeOpsKeepConfig
  <2>. QED BY <1>14, <1>15, <2>1 DEF ReleaseOutput
<1>16. ASSUME NEW i \in NodeIndex(active), NEW value \in BOOLEAN, NEW holdMs \in HoldMs,
              ForceOutput(i, value, holdMs)
       PROVE  ProgramInv'
  <2> DEFINE n == [active.nodes[i] EXCEPT !.force_en = TRUE, !.force_flag = TRUE,
                                          !.force_bool = value, !.force_left_ms = holdMs]
  <2>1. active.nodes[i] \in Node /\ holdMs \in Nat
    BY <1>1, NodeOfGraph, RuntimeAssumption
  <2>2. n \in Node /\ SameConfig(n, active.nodes[i])
    BY <2>1 DEF Node, SameConfig
  <2>3. SetOutputNode(i, n)
    BY <1>16 DEF ForceOutput
  <2> HIDE DEF n
  <2>. QED BY <1>14, <2>2, <2>3
<1>17. ASSUME NEW p, SafetyCall(p)
       PROVE  ProgramInv'
  BY <1>17 DEF SafetyCall, graphs
<1>18. Call => \/ UploadCopy \/ UploadValidate \/ RequestActivate
               \/ \E i \in NodeIndex(active) :
                     \/ ReleaseOutput(i)
                     \/ \E value \in BOOLEAN, holdMs \in HoldMs : ForceOutput(i, value, holdMs)
               \/ \E p : SafetyCall(p)
  BY DEF Call, RuntimeInit, RequestStop, RequestRun, AckFaults, EnterSafe,
         RuntimeEnterFault, RuntimeResetFault
<1>. QED BY <1>2, <1>3, <1>4, <1>5, <1>6, <1>7, <1>8, <1>9, <1>10, <1>11, <1>12, <1>13,
            <1>15, <1>16, <1>17, <1>18 DEF Next, Scan

\* With scan and calls in one loop, whatever is uploaded and however uploads,
\* activations and forces alternate with ticks, a scan executes only a graph
\* that plc_validate_graph_ex accepted, with its cycle time within bounds.
THEOREM OneLoopRunsValidated ==
    ASSUME Preemptive = FALSE
    PROVE  Spec => []OnlyValidatedRuns
<1>1. Init => ProgramInv
  BY DEF Init, Idle, ProgramInv, OneLoop, StagingIsValid, ActiveIsValid, ScanIsOfActive
<1>2. TypeOK /\ ProgramInv /\ [Next]_vars => ProgramInv'
  BY ProgramStep
<1>3. ProgramInv => OnlyValidatedRuns
  BY DEF ProgramInv, OnlyValidatedRuns
<1>. QED BY <1>1, <1>2, <1>3, TypeCorrect, PTL DEF Spec

-----------------------------------------------------------------------------
(* Dark outputs, on top of ProgramInv.                                     *)

LEMMA ApplyDarkens ==
    ASSUME NEW p \in PlcSafetyState, p.safe_outputs_applied => p.outputs = SafeImage
    PROVE  /\ apply_safe_outputs_once(p) \in PlcSafetyState
           /\ apply_safe_outputs_once(p).outputs = SafeImage
           /\ apply_safe_outputs_once(p).state = p.state
           /\ p.state # "RUN" => Dark(apply_safe_outputs_once(p))
<1>1. /\ apply_safe_outputs_once(p).outputs = SafeImage
      /\ apply_safe_outputs_once(p).state = p.state
  BY DEF apply_safe_outputs_once, apply_safe_outputs_always, PlcSafetyState
<1>. QED BY <1>1, ApplyOnceType DEF Dark

\* Leaving for any state but RUN and then applying the safe outputs.
LEMMA LeaveDarkens ==
    ASSUME NEW p \in PlcSafetyState, p.safe_outputs_applied => p.outputs = SafeImage,
           NEW new \in PlcState \ {"RUN"}
    PROVE  /\ Dark(apply_safe_outputs_once(plc_safety_set_state(p, new)))
           /\ apply_safe_outputs_once(plc_safety_set_state(p, new)).state = new
<1> DEFINE q == plc_safety_set_state(p, new)
<1>1. q \in PlcSafetyState
  BY SetStateType
<1>2. /\ q.state = new /\ q.outputs = p.outputs
      /\ q.safe_outputs_applied => p.safe_outputs_applied
  BY SetStateFields
<1> HIDE DEF q
<1>3. Dark(apply_safe_outputs_once(q)) /\ apply_safe_outputs_once(q).state = new
  BY <1>1, <1>2, ApplyDarkens
<1>. QED BY <1>3 DEF q

LEMMA ReportDarkens ==
    ASSUME NEW p \in PlcSafetyState, Dark(p), NEW code, NEW severity
    PROVE  /\ Dark(plc_fault_report(p, code, severity))
           /\ plc_fault_report(p, code, severity).state =
                IF code # "NONE" /\ severity \in {"SAFE", "FAULT"} THEN severity ELSE p.state
<1> DEFINE q == [p EXCEPT !.fault_latched = TRUE]
<1>1. /\ q \in PlcSafetyState
      /\ q.safe_outputs_applied => q.outputs = SafeImage
  BY DEF PlcSafetyState, Dark
<1>2. p.safe_outputs_applied => p.outputs = SafeImage
  BY DEF Dark
<1> HIDE DEF q
<1>3. CASE code # "NONE" /\ severity = "SAFE"
  BY <1>2, <1>3, LeaveDarkens DEF plc_fault_report
<1>4. CASE code # "NONE" /\ severity = "FAULT"
  BY <1>1, <1>4, LeaveDarkens DEF plc_fault_report, q
<1>5. CASE code = "NONE" \/ severity \notin {"SAFE", "FAULT"}
  BY <1>5 DEF plc_fault_report
<1>. QED BY <1>3, <1>4, <1>5

LEMMA RequestsKeepDark ==
    ASSUME NEW p \in PlcSafetyState, Dark(p)
    PROVE  /\ Dark(plc_request_stop(p))
           /\ Dark(plc_request_run(p))
           /\ Dark(plc_ack_faults(p))
           /\ p.state = "BOOT" => Dark(plc_safety_init(p))
<1>1. Dark(plc_request_stop(p))
  <2>1. plc_fault_report(p, "SOME", "WARNING") = p
    BY DEF plc_fault_report
  <2>2. p.safe_outputs_applied => p.outputs = SafeImage
    BY DEF Dark
  <2>. QED BY <2>1, <2>2, LeaveDarkens DEF plc_request_stop
<1>2. Dark(plc_request_run(p))
  <2> DEFINE q == plc_safety_set_state(p, "RUN")
  <2>1. /\ q.state = "RUN" /\ q.outputs = p.outputs
        /\ q.safe_outputs_applied => p.safe_outputs_applied
        /\ p.state # "RUN" => ~q.safe_outputs_applied
    BY SetStateFields
  <2> HIDE DEF q
  <2>2. Dark(q)
    BY <2>1 DEF Dark
  <2>. QED BY <2>2 DEF q, plc_request_run
<1>3. Dark(plc_ack_faults(p))
  <2> DEFINE q == [p EXCEPT !.fault_latched = FALSE,
                            !.protocol_error_streak = 0,
                            !.scan_overrun_streak = 0,
                            !.watchdog_miss_streak = 0,
                            !.safe_outputs_applied = FALSE]
  <2>1. q \in PlcSafetyState /\ ~q.safe_outputs_applied
    BY DEF PlcSafetyState
  <2>2. plc_ack_faults(p) =
          IF plc_is_running(p) THEN p
          ELSE apply_safe_outputs_once(plc_safety_set_state(q, "STOP"))
    BY DEF plc_ack_faults
  <2> HIDE DEF q
  <2>. QED BY <2>1, <2>2, LeaveDarkens
<1>4. ASSUME p.state = "BOOT"
      PROVE  Dark(plc_safety_init(p))
  <2> DEFINE q == [PowerOn EXCEPT !.outputs = p.outputs]
  <2>1. q \in PlcSafetyState /\ ~q.safe_outputs_applied /\ q.outputs = SafeImage
    BY <1>4, PowerOnType DEF PlcSafetyState, Dark, PowerOn
  <2> HIDE DEF q
  <2> DEFINE r == plc_safety_set_state(q, "STOP")
  <2>2. r.state = "STOP" /\ r.outputs = SafeImage
    BY <2>1, SetStateFields
  <2> HIDE DEF r
  <2>3. Dark(r)
    BY <2>2 DEF Dark
  <2>. QED BY <2>3 DEF q, r, plc_safety_init
<1>. QED BY <1>1, <1>2, <1>3, <1>4

LEMMA NotesKeepDark ==
    ASSUME NEW p \in PlcSafetyState, Dark(p)
    PROVE  /\ Dark(plc_fault_note_scan_overrun(p))
           /\ Dark(plc_fault_note_scan_ok(p))
<1> DEFINE q == [p EXCEPT !.scan_overrun_streak = Incremented(@)]
<1>1. q \in PlcSafetyState /\ Dark(q)
  BY DEF PlcSafetyState, Dark, Incremented
<1>2. Dark(plc_fault_note_scan_ok(p))
  BY DEF plc_fault_note_scan_ok, PlcSafetyState, Dark
<1> HIDE DEF q
<1>. QED BY <1>1, <1>2, ReportDarkens DEF plc_fault_note_scan_overrun, q

LEMMA SwapKeepsDark ==
    ASSUME NEW p \in PlcSafetyState, Dark(p)
    PROVE  Dark(plc_request_run(plc_ack_faults(apply_safe_outputs_always(p))))
<1>1. apply_safe_outputs_always(p) \in PlcSafetyState /\ Dark(apply_safe_outputs_always(p))
  BY ApplyAlwaysType DEF Dark, apply_safe_outputs_always, PlcSafetyState
<1>. QED BY <1>1, AckFaultsType, RequestsKeepDark

\* Node 0 of an accepted graph is no output: an output has an input before it.
LEMMA FirstNodeIsNoOutput ==
    ASSUME NEW g, IsGraph(g), Accepted(g)
    PROVE  g.nodes[0].type \notin OutputType
<1>1. 0 \in NodeIndex(g)
  BY DEF NodeIndex, Accepted, ValidGraph
<1>2. g.nodes[0] \in Node /\ ValidNode(g.nodes[0], 0)
  BY <1>1, NodeOfGraph DEF Accepted, ValidGraph
<1> DEFINE n == g.nodes[0]
<1> HIDE DEF n
<1>3. n \in Node /\ ValidNode(n, 0) => n.type \notin OutputType
  <2> SUFFICES ASSUME n \in Node, ValidNode(n, 0), n.type \in OutputType
               PROVE  FALSE
    OBVIOUS
  <2>1. n.inA < 0 /\ n.inA \in Int /\ TypeRules(n)
    BY DEF ValidNode, Node
  <2>2. /\ n.type \notin ConstType \cup BinaryType \cup TimerType \cup CounterType
        /\ n.type \notin {"DIGITAL_IN", "AI_IN"}
    BY DEF OutputType, ConstType, BinaryType, TimerType, CounterType
  <2>3. TypeRules(n) = (n.inA >= 0 /\ ChannelOK(n))
    BY <2>2 DEF TypeRules
  <2>4. n.inA >= 0
    BY <2>1, <2>3, Zenon
  <2>. QED BY <2>1, <2>4
<1>. QED BY <1>2, <1>3 DEF n

LEMMA DarkStep ==
    ASSUME Preemptive = FALSE, TypeOK, ProgramInv, DarkInv, [Next]_vars
    PROVE  DarkInv'
<1> USE DEF DarkInv, Located
<1>1. plc \in PlcSafetyState /\ Dark(plc) /\ IsGraph(active)
  BY DEF TypeOK
<1>2. CASE UNCHANGED vars
  BY <1>2 DEF vars, Dark
<1>3. CASE TickSafe
  <2>1. Dark(plc')
    BY <1>1, <1>3, ApplyDarkens DEF TickSafe, plc_is_safe_or_faulted, Dark
  <2>. QED BY <1>3, <2>1 DEF TickSafe, ScanAt
<1>4. CASE TickBegin
  BY <1>1, <1>4 DEF TickBegin, ScanAt
<1>5. CASE TickSwap
  <2>1. scan'.pc = "ready" /\ scan'.i = 0
    BY <1>5 DEF TickSwap, ScanAt, Goto, TypeOK
  <2>2. Dark(plc')
    BY <1>1, <1>5, SwapKeepsDark DEF TickSwap, SwapGraph
  <2>. QED BY <2>1, <2>2
<1>6. CASE TickReady
  <2>1. Dark(plc')
    BY <1>1, <1>6, ApplyDarkens DEF TickReady, plc_is_running, Dark
  <2>2. CASE activeValid /\ plc_is_running(plc)
    BY <1>6, <2>1, <2>2 DEF TickReady, ScanAt, plc_is_running, TypeOK
  <2>3. CASE ~(activeValid /\ plc_is_running(plc))
    BY <1>6, <2>1, <2>3 DEF TickReady, Idle
  <2>. QED BY <2>2, <2>3
<1>7. CASE TickInputs
  <2>1. plc' = plc \/ plc' = plc_fault_report(plc, "SOME", "SAFE")
    BY <1>7 DEF TickInputs, plc_enter_safe
  <2>2. Dark(plc') /\ plc'.state \in {"RUN", "SAFE"}
    BY <1>1, <1>7, <2>1, ReportDarkens DEF TickInputs, ScanAt
  <2>3. scan'.pc = "commands" /\ scan'.i = 0
    BY <1>7 DEF TickInputs, ScanAt, Goto, TypeOK
  <2>. QED BY <2>2, <2>3
<1>8. CASE TickCommands
  <2>1. scan'.pc = "nodes" /\ scan'.i = 0 /\ plc' = plc
    BY <1>8 DEF TickCommands, ScanAt, Goto, TypeOK
  <2>. QED BY <1>1, <1>8, <2>1 DEF TickCommands, ScanAt
<1>9. CASE TickNode /\ NodeFault
  <2>1. scan'.pc = "finish"
    BY <1>9 DEF NodeFault, Goto, TypeOK
  <2>2. Dark(plc')
    BY <1>1, <1>9, ReportDarkens DEF NodeFault, plc_enter_fault
  <2>. QED BY <2>1, <2>2
<1>10. CASE TickNode /\ NodeExec
  <2> DEFINE n == active.nodes[scan.i]
  <2>1. scan.pc = "nodes" /\ scan.i \in Nat /\ Accepted(active)
    BY <1>10 DEF TickNode, ScanAt, TypeOK, ProgramInv, ScanIsOfActive, ActiveIsValid, Accepted
  <2>2. PICK v \in BOOLEAN : plc' = WritePort(plc, n, v)
    BY <1>10 DEF NodeExec
  <2>3. plc.state = "RUN" \/ n.type \notin OutputType
    BY <1>1, <2>1, FirstNodeIsNoOutput
  <2>4. plc'.state = plc.state /\ Dark(plc')
    <3> HIDE DEF n
    <3>. QED BY <1>1, <2>2, <2>3 DEF WritePort, Dark, PlcSafetyState
  <2>5. CASE plc_is_safe_or_faulted(plc)
    BY <1>10, <2>4, <2>5 DEF NodeExec, TypeOK
  <2>6. CASE ~plc_is_safe_or_faulted(plc)
    <3>1. plc.state = "RUN"
      BY <2>1, <2>6 DEF plc_is_safe_or_faulted
    <3>2. scan'.pc = "nodes"
      BY <1>10, <2>1, <2>6 DEF NodeExec, TypeOK
    <3>. QED BY <2>4, <3>1, <3>2
  <2>. QED BY <2>5, <2>6
<1>11. CASE TickFinish
  <2>1. Dark(plc')
    BY <1>1, <1>11, NotesKeepDark DEF TickFinish
  <2>. QED BY <1>11, <2>1 DEF TickFinish, Idle
<1>12. ASSUME NEW p, Dark(p), scan.pc = "idle", scan' = scan, plc' = p
       PROVE  DarkInv'
  BY <1>12
<1>13. CASE Call
  <2>1. scan.pc = "idle" /\ scan' = scan
    BY <1>13 DEF Call, CallerAt, SafetyCall, UploadCopy, UploadValidate, RequestActivate,
           ReleaseOutput, ForceOutput, SetOutputNode, RuntimeInit, RequestStop, RequestRun,
           AckFaults, EnterSafe, RuntimeEnterFault, RuntimeResetFault
  <2>2. CASE UNCHANGED plc
    BY <1>1, <1>12, <2>1, <2>2
  <2>3. CASE UploadValidate \/ EnterSafe \/ RuntimeEnterFault
    <3>1. \/ plc' = plc
          \/ \E code, severity : plc' = plc_fault_report(plc, code, severity)
      BY <2>3 DEF UploadValidate, EnterSafe, RuntimeEnterFault, SafetyCall,
             plc_enter_safe, plc_enter_fault
    <3>. QED BY <1>1, <1>12, <2>1, <3>1, ReportDarkens
  <2>4. CASE RuntimeInit \/ RequestStop \/ RequestRun \/ AckFaults
    <3>1. Dark(plc')
      BY <1>1, <2>4, RequestsKeepDark
         DEF RuntimeInit, RequestStop, RequestRun, AckFaults, SafetyCall
    <3>. QED BY <1>12, <2>1, <3>1
  <2>5. CASE RuntimeResetFault
    <3>1. Dark(plc')
      BY <1>1, <2>5, AckFaultsType, RequestsKeepDark DEF RuntimeResetFault, SafetyCall
    <3>. QED BY <1>12, <2>1, <3>1
  <2>6. \/ UNCHANGED plc \/ UploadValidate \/ RuntimeInit \/ RequestStop \/ RequestRun
        \/ AckFaults \/ EnterSafe \/ RuntimeEnterFault \/ RuntimeResetFault
    BY <1>13 DEF Call, UploadCopy, RequestActivate, ReleaseOutput, ForceOutput, SetOutputNode
  <2>. QED BY <2>2, <2>3, <2>4, <2>5, <2>6
<1>. QED BY <1>2, <1>3, <1>4, <1>5, <1>6, <1>7, <1>8, <1>9, <1>10, <1>11, <1>13
         DEF Next, Scan, TickNode

\* With scan and calls in one loop no output is energised outside RUN, at any
\* point of any tick: not by the node that still runs after an input made the
\* machine SAFE, not after a stop, a fault or a hot swap.
THEOREM OneLoopEnergisedOnlyInRun ==
    ASSUME Preemptive = FALSE
    PROVE  Spec => []EnergisedOnlyInRun
<1>1. Init => ProgramInv /\ DarkInv
  BY DEF Init, Idle, PowerOn, ProgramInv, OneLoop, StagingIsValid, ActiveIsValid,
         ScanIsOfActive, DarkInv, Dark, Located
<1>2. TypeOK /\ ProgramInv /\ DarkInv /\ [Next]_vars => ProgramInv' /\ DarkInv'
  BY ProgramStep, DarkStep
<1>3. DarkInv => EnergisedOnlyInRun
  BY DEF DarkInv, Dark, EnergisedOnlyInRun
<1>. QED BY <1>1, <1>2, <1>3, TypeCorrect, PTL DEF Spec
=============================================================================
