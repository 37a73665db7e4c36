----------------------------- MODULE PlcSafetyApi -----------------------------
(***************************************************************************)
(* The public functions of plc_safety.c, called in any order by the rest   *)
(* of the firmware, with the fault history they keep.  A call is one step: *)
(* the functions take no lock and call nothing that blocks.                *)
(***************************************************************************)
EXTENDS PlcSafety, Sequences

CONSTANTS
    Capacity,      \* PLC_FAULT_HISTORY_CAPACITY
    MaxSequence    \* bound of the model: fault reports per behaviour

ASSUME CapacityAssumption == Capacity \in Nat \ {0}

VARIABLES
    plc,           \* the deciding part of g_plcSafety, and the outputs
    history,       \* g_plcSafety.history: slot -> record
    head,          \* history_head: the slot of the next record
    count,         \* history_count
    sequence,      \* fault_sequence: reports since plc_safety_init
    named          \* of the model: a protocol error that had a code was noted
                   \* since the streak reached its FAULT threshold

vars == <<plc, history, head, count, sequence, named>>

Domain == {"RUNTIME", "PROTOCOL", "WATCHDOG", "PERSIST", "OTHER"}
Record == [sequence : Nat, domain : Domain, severity : Severity]
NoRecord == [sequence |-> 0, domain |-> "OTHER", severity |-> "INFO"]

Init ==
    /\ plc = PowerOn
    /\ history = [s \in 0..(Capacity - 1) |-> NoRecord]
    /\ head = 0 /\ count = 0 /\ sequence = 0
    /\ named = FALSE

\* The machine, its streaks and the indices of the fault ring stay in their ranges.
TypeOK ==
    /\ plc \in PlcSafetyState
    /\ history \in [0..(Capacity - 1) -> Record]
    /\ head \in 0..(Capacity - 1)
    /\ count \in 0..Capacity
    /\ sequence \in Nat
    /\ named \in BOOLEAN

-----------------------------------------------------------------------------

plc_fault_push_history(domain, severity) ==
    /\ sequence < MaxSequence
    /\ sequence' = sequence + 1
    /\ history' = [history EXCEPT ![head] =
                      [sequence |-> sequence + 1, domain |-> domain, severity |-> severity]]
    /\ head' = (head + 1) % Capacity
    /\ count' = IF count < Capacity THEN count + 1 ELSE count

\* Every call reports at most one fault; INFO and NONE are not a report.
Recorded(domain, code, severity) ==
    IF code = "NONE" \/ severity = "INFO" THEN UNCHANGED <<history, head, count, sequence>>
    ELSE plc_fault_push_history(domain, severity)

Unrecorded == Recorded("OTHER", "NONE", "INFO")

\* Faulty variant: counts back from the next free slot, not from the newest.
HistoryGetFromHead(i) == history[(head + Capacity - i) % Capacity]

\* plc_fault_history_get: the i-th newest record, for i < history_count.
plc_fault_history_get(i) ==
    LET newest == IF head = 0 THEN Capacity - 1 ELSE head - 1
    IN  history[(newest + Capacity - i) % Capacity]

\* Called by plc_runtime_init, at start-up only.
SafetyInit ==
    /\ plc.state = "BOOT"
    /\ plc' = plc_safety_init(plc)
    /\ history' = [s \in 0..(Capacity - 1) |-> NoRecord]
    /\ head' = 0 /\ count' = 0 /\ sequence' = 0
    /\ UNCHANGED named

RequestStop ==
    /\ plc' = plc_request_stop(plc)
    /\ Recorded("RUNTIME", "SOME", "WARNING")
    /\ UNCHANGED named

RequestRun ==
    /\ plc' = plc_request_run(plc)
    /\ Unrecorded
    /\ UNCHANGED named

AckFaults ==
    /\ plc' = plc_ack_faults(plc)
    /\ Unrecorded
    /\ UNCHANGED named

FaultReport ==
    \E code \in Code, severity \in Severity :
        /\ plc' = plc_fault_report(plc, code, severity)
        /\ Recorded("OTHER", code, severity)
        /\ UNCHANGED named

EnterSafe ==
    \E code \in Code :
        /\ plc' = plc_enter_safe(plc, code)
        /\ Recorded("OTHER", code, "SAFE")
        /\ UNCHANGED named

EnterFault ==
    \E code \in Code :
        /\ plc' = plc_enter_fault(plc, code)
        /\ Recorded("OTHER", code, "FAULT")
        /\ UNCHANGED named

PersistCorrupt ==
    /\ plc' = plc_enter_fault(plc, "SOME")
    /\ Recorded("PERSIST", "SOME", "FAULT")
    /\ UNCHANGED named

\* Whether the streak has seen an error with a code at its FAULT threshold.
Named(p, code, before) ==
    /\ Incremented(p.protocol_error_streak) >= ProtoFault
    /\ code # "NONE" \/ (p.protocol_error_streak >= ProtoFault /\ before)

ProtocolError ==
    \E code \in Code :
        /\ plc' = plc_fault_note_protocol_error(plc, code)
        /\ Recorded("PROTOCOL", code, ProtocolSeverity(plc))
        /\ named' = Named(plc, code, named)

ProtocolOk ==
    /\ plc' = plc_fault_note_protocol_ok(plc)
    /\ Unrecorded
    /\ UNCHANGED named

WatchdogMiss ==
    /\ plc' = plc_fault_note_watchdog_miss(plc)
    /\ Recorded("WATCHDOG", "SOME", WatchdogSeverity(plc))
    /\ UNCHANGED named

\* The end of a scan, late or in time; a node may have left RUN in its course.
ScanOverrun ==
    /\ plc' = plc_fault_note_scan_overrun(plc)
    /\ Recorded("RUNTIME", "SOME", ScanSeverity(plc))
    /\ UNCHANGED named

ScanOk ==
    /\ plc' = plc_fault_note_scan_ok(plc)
    /\ Unrecorded
    /\ UNCHANGED named

\* A scan in RUN drives the outputs to whatever the program computes.
ScanWrites ==
    /\ plc_is_running(plc)
    /\ \E image \in [Outputs -> BOOLEAN] : plc' = [plc EXCEPT !.outputs = image]
    /\ Unrecorded
    /\ UNCHANGED named

\* plc_tick in STOP, SAFE or FAULT keeps asking for the safe outputs.
TickNotRunning ==
    /\ plc.state \in {"STOP", "SAFE", "FAULT"}
    /\ plc' = apply_safe_outputs_once(plc)
    /\ Unrecorded
    /\ UNCHANGED named

Next ==
    \/ SafetyInit \/ RequestStop \/ RequestRun \/ AckFaults
    \/ FaultReport \/ EnterSafe \/ EnterFault \/ PersistCorrupt
    \/ ProtocolError \/ ProtocolOk \/ WatchdogMiss
    \/ ScanOverrun \/ ScanOk \/ ScanWrites \/ TickNotRunning

Spec == Init /\ [][Next]_vars

-----------------------------------------------------------------------------

\* Outputs are energised only in RUN: a machine that was stopped, went SAFE
\* or FAULTed stays de-energised, although apply_safe_outputs_once skips the
\* hardware writes whenever its flag says they were done already.
EnergisedOnlyInRun == plc.state # "RUN" => plc.outputs = SafeImage

\* A FAULT is always latched, and while the latch is set no sequence of stop,
\* SAFE and run requests gets the machine back to RUN (plc_request_run).
LatchBlocksRun ==
    /\ plc.state = "FAULT" => plc.fault_latched
    /\ plc.fault_latched => plc.state \in {"FAULT", "SAFE", "STOP"}

\* The flag behind apply_safe_outputs_once tells the truth, and is down in RUN,
\* so that the next way out of RUN does write the safe outputs.
AppliedFlagHonest ==
    /\ plc.safe_outputs_applied => plc.outputs = SafeImage
    /\ plc.state = "RUN" => ~plc.safe_outputs_applied

\* A streak of errors that reached its FAULT threshold leaves the latch set for
\* as long as the streak lasts: no mix of stop, run and SAFE calls undoes it.
\* A protocol error whose caller gives PLC_FAULT_NONE is counted but reported to
\* nobody (plc_safety.c:99), so that streak latches from the first error at or
\* past the threshold that has a code, and the errors without one undo nothing.
EscalationSticks ==
    \/ plc.protocol_error_streak >= ProtoFault /\ named
    \/ plc.scan_overrun_streak >= ScanFault
    \/ plc.watchdog_miss_streak >= WatchdogFault
    => plc.fault_latched

\* The latch is only ever released into a stopped, de-energised machine whose
\* streaks start again from zero (plc_ack_faults).
LatchReleasedStopped ==
    [][plc.fault_latched /\ ~plc'.fault_latched
       => /\ plc'.state = "STOP"
          /\ plc'.outputs = SafeImage
          /\ plc'.protocol_error_streak = 0
          /\ plc'.scan_overrun_streak = 0
          /\ plc'.watchdog_miss_streak = 0]_vars

\* Reading the ring with plc_fault_history_get gives the last reports, in order:
\* the ring implements FaultLog.
Log == INSTANCE FaultLog WITH
    log <- [i \in 1..count |-> plc_fault_history_get(i - 1)]

HistoryIsTheLog == Log!Spec
=============================================================================
