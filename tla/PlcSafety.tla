------------------------------ MODULE PlcSafety ------------------------------
(***************************************************************************)
(* The safety state machine of friendly_plc_core (plc_safety.c).           *)
(*                                                                         *)
(* Its functions call one another and are called from the middle of        *)
(* plc_tick, so each is an operator from the state of the controller       *)
(* before the call to its state after the call.  The record "plc" holds    *)
(* the part of g_plcSafety that decides anything, and the images of the    *)
(* physical outputs, which the functions here force to their safe values.  *)
(* The fault history (PlcSafetyApi) and the last_* fields decide nothing.  *)
(***************************************************************************)
EXTENDS Naturals

CONSTANTS
    Outputs,         \* the physical outputs (digital and analog channels)
    ProtoSafe,       \* PLC_PROTOCOL_ERROR_SAFE_THRESHOLD
    ProtoFault,      \* PLC_PROTOCOL_ERROR_FAULT_THRESHOLD
    ScanSafe,        \* PLC_SCAN_OVERRUN_SAFE_THRESHOLD
    ScanFault,       \* PLC_SCAN_OVERRUN_FAULT_THRESHOLD
    WatchdogFault,   \* PLC_WATCHDOG_MISS_FAULT_THRESHOLD
    StreakMod        \* 65536: the streaks are uint16_t

\* The thresholds are #ifndef defaults of plc_config.h: a build may set any
\* positive number of errors, in any order of magnitude.
ASSUME ThresholdsAssumption ==
    {ProtoSafe, ProtoFault, ScanSafe, ScanFault, WatchdogFault, StreakMod} \subseteq Nat \ {0}

PlcState == {"BOOT", "STOP", "RUN", "SAFE", "FAULT"}
Severity == {"INFO", "WARNING", "SAFE", "FAULT"}

\* PlcFaultCode: PLC_FAULT_NONE, which reports nothing, or any of the others.
Code == {"NONE", "SOME"}

\* An output is TRUE when it is energised; the safe image energises none.
SafeImage == [o \in Outputs |-> FALSE]

PlcSafetyState ==
    [state : PlcState, previous_state : PlcState,
     fault_latched : BOOLEAN, safe_outputs_applied : BOOLEAN,
     protocol_error_streak : Nat, scan_overrun_streak : Nat,
     watchdog_miss_streak : Nat,
     outputs : [Outputs -> BOOLEAN]]

\* Power-on: .bss is zero (BOOT is 0) and the port's init has reset the outputs.
PowerOn ==
    [state |-> "BOOT", previous_state |-> "BOOT",
     fault_latched |-> FALSE, safe_outputs_applied |-> FALSE,
     protocol_error_streak |-> 0, scan_overrun_streak |-> 0,
     watchdog_miss_streak |-> 0,
     outputs |-> SafeImage]

-----------------------------------------------------------------------------

\* Faulty variant: entering RUN forgets to lower the applied flag.
SetStateKeepsApplied(p, new) ==
    IF p.state = new THEN p
    ELSE [p EXCEPT !.previous_state = p.state, !.state = new]

plc_safety_set_state(p, new) ==
    IF p.state = new THEN p
    ELSE [p EXCEPT !.previous_state = p.state,
                   !.state = new,
                   !.safe_outputs_applied = @ /\ new # "RUN"]

plc_is_running(p) == p.state = "RUN"

plc_is_safe_or_faulted(p) == p.state \in {"SAFE", "FAULT"}

apply_safe_outputs_always(p) == [p EXCEPT !.outputs = SafeImage]

apply_safe_outputs_once(p) ==
    IF p.safe_outputs_applied THEN p
    ELSE [apply_safe_outputs_always(p) EXCEPT !.safe_outputs_applied = TRUE]

\* The state reset of plc_safety_init: memset to 0, then BOOT to STOP.
plc_safety_init(p) ==
    plc_safety_set_state([PowerOn EXCEPT !.outputs = p.outputs], "STOP")

\* WARNING faults are only recorded; INFO, and a report without a code, are
\* dropped altogether.
plc_fault_report(p, code, severity) ==
    CASE code = "NONE" -> p
      [] code # "NONE" /\ severity = "SAFE" ->
            apply_safe_outputs_once(plc_safety_set_state(p, "SAFE"))
      [] code # "NONE" /\ severity = "FAULT" ->
            apply_safe_outputs_once(
                plc_safety_set_state([p EXCEPT !.fault_latched = TRUE], "FAULT"))
      [] OTHER -> p

plc_enter_safe(p, code)  == plc_fault_report(p, code, "SAFE")
plc_enter_fault(p, code) == plc_fault_report(p, code, "FAULT")

plc_request_stop(p) ==
    apply_safe_outputs_once(
        plc_safety_set_state(plc_fault_report(p, "SOME", "WARNING"), "STOP"))

\* Faulty variant: only the state is looked at, not the latch.
RequestRunIgnoresLatch(p) ==
    IF plc_is_safe_or_faulted(p) THEN p ELSE plc_safety_set_state(p, "RUN")

plc_request_run(p) ==
    IF p.fault_latched \/ plc_is_safe_or_faulted(p) THEN p
    ELSE plc_safety_set_state(p, "RUN")

\* Faulty variant: the watchdog streak survives the acknowledgement.
AckKeepsWatchdogStreak(p) ==
    IF plc_is_running(p) THEN p
    ELSE apply_safe_outputs_once(
            plc_safety_set_state(
                [p EXCEPT !.fault_latched = FALSE,
                          !.protocol_error_streak = 0,
                          !.scan_overrun_streak = 0,
                          !.safe_outputs_applied = FALSE], "STOP"))

plc_ack_faults(p) ==
    IF plc_is_running(p) THEN p
    ELSE apply_safe_outputs_once(
            plc_safety_set_state(
                [p EXCEPT !.fault_latched = FALSE,
                          !.protocol_error_streak = 0,
                          !.scan_overrun_streak = 0,
                          !.watchdog_miss_streak = 0,
                          !.safe_outputs_applied = FALSE], "STOP"))

-----------------------------------------------------------------------------
(* Escalation: what a streak of n errors in a row is reported as.          *)

\* Faulty variant: the FAULT threshold is only acted on once exceeded.
EscalationOffByOne(n, safeAt, faultAt) ==
    IF n > faultAt THEN "FAULT" ELSE IF n >= safeAt THEN "SAFE" ELSE "INFO"

Escalation(n, safeAt, faultAt) ==
    IF n >= faultAt THEN "FAULT" ELSE IF n >= safeAt THEN "SAFE" ELSE "INFO"

Incremented(streak) == IF streak + 1 = StreakMod THEN 0 ELSE streak + 1

ProtocolSeverity(p) == Escalation(Incremented(p.protocol_error_streak), ProtoSafe, ProtoFault)
ScanSeverity(p)     == Escalation(Incremented(p.scan_overrun_streak), ScanSafe, ScanFault)
WatchdogSeverity(p) == Escalation(Incremented(p.watchdog_miss_streak), 0, WatchdogFault)

\* The code is the caller's.
plc_fault_note_protocol_error(p, code) ==
    plc_fault_report([p EXCEPT !.protocol_error_streak = Incremented(@)],
                     code, ProtocolSeverity(p))

plc_fault_note_scan_overrun(p) ==
    plc_fault_report([p EXCEPT !.scan_overrun_streak = Incremented(@)], "SOME", ScanSeverity(p))

plc_fault_note_watchdog_miss(p) ==
    plc_fault_report([p EXCEPT !.watchdog_miss_streak = Incremented(@)], "SOME", WatchdogSeverity(p))

plc_fault_note_protocol_ok(p) == [p EXCEPT !.protocol_error_streak = 0]
plc_fault_note_scan_ok(p)     == [p EXCEPT !.scan_overrun_streak = 0]

=============================================================================
