------------------------- MODULE PlcSafetyApi_proofs -------------------------
(***************************************************************************)
(* Theorems about PlcSafetyApi, for every set of outputs, all thresholds,  *)
(* streaks and rings of any size.                                          *)
(*                                                                         *)
(* No public function is trusted to leave the machine in order by itself:  *)
(* Sound says what holds of it between two calls, and every function is    *)
(* shown to keep it.                                                       *)
(***************************************************************************)
EXTENDS PlcSafetyApi, SequenceTheorems, TLAPS

USE DEF PlcState

Escalated(p, n) ==
    (p.protocol_error_streak >= ProtoFault /\ n) \/ p.scan_overrun_streak >= ScanFault
    \/ p.watchdog_miss_streak >= WatchdogFault
    => p.fault_latched

\* Between two calls: dark outside RUN, latched in FAULT, never in RUN with the
\* latch set, an applied flag that is true, streaks that have escalated.
Sound(p, n) ==
    /\ p \in PlcSafetyState
    /\ p.state # "RUN" => p.outputs = SafeImage
    /\ p.state = "FAULT" => p.fault_latched
    /\ p.fault_latched => p.state \in {"FAULT", "SAFE", "STOP"}
    /\ p.safe_outputs_applied => p.outputs = SafeImage
    /\ p.state = "RUN" => ~p.safe_outputs_applied
    /\ Escalated(p, n)

\* q is p stopped in state new, with the safe outputs applied.
Stopped(q, p, new) ==
    /\ q \in PlcSafetyState
    /\ q.state = new /\ q.outputs = SafeImage /\ q.safe_outputs_applied
    /\ q.fault_latched = p.fault_latched
    /\ q.protocol_error_streak = p.protocol_error_streak
    /\ q.scan_overrun_streak = p.scan_overrun_streak
    /\ q.watchdog_miss_streak = p.watchdog_miss_streak

-----------------------------------------------------------------------------
(* The operators of PlcSafety.                                             *)

LEMMA LeaveStops ==
    ASSUME NEW p \in PlcSafetyState, NEW new \in {"STOP", "SAFE", "FAULT"},
           p.safe_outputs_applied => p.outputs = SafeImage
    PROVE  Stopped(apply_safe_outputs_once(plc_safety_set_state(p, new)), p, new)
<1>1. SafeImage \in [Outputs -> BOOLEAN]
  BY DEF SafeImage
<1>2. plc_safety_set_state(p, new) \in PlcSafetyState
      /\ plc_safety_set_state(p, new).state = new
      /\ plc_safety_set_state(p, new).outputs = p.outputs
      /\ (plc_safety_set_state(p, new).safe_outputs_applied = p.safe_outputs_applied)
      /\ (plc_safety_set_state(p, new).fault_latched = p.fault_latched)
      /\ plc_safety_set_state(p, new).protocol_error_streak = p.protocol_error_streak
      /\ plc_safety_set_state(p, new).scan_overrun_streak = p.scan_overrun_streak
      /\ plc_safety_set_state(p, new).watchdog_miss_streak = p.watchdog_miss_streak
  BY DEF plc_safety_set_state, PlcSafetyState
<1> DEFINE q == plc_safety_set_state(p, new)
<1> HIDE DEF q
<1>3. CASE q.safe_outputs_applied
  BY <1>2, <1>3 DEF q, apply_safe_outputs_once, Stopped
<1>4. CASE ~q.safe_outputs_applied
  BY <1>1, <1>2, <1>4 DEF q, apply_safe_outputs_once, apply_safe_outputs_always, Stopped, PlcSafetyState
<1>. QED BY <1>3, <1>4

\* What is left to show of a machine that was just stopped.
LEMMA StoppedSound ==
    ASSUME NEW p \in PlcSafetyState, NEW q, NEW n, NEW new \in {"STOP", "SAFE", "FAULT"},
           Stopped(q, p, new), new = "FAULT" => p.fault_latched,
           Escalated(p, n)
    PROVE  Sound(q, n)
BY DEF Stopped, Sound, Escalated

LEMMA ReportSound ==
    ASSUME NEW p, NEW n, Sound(p, n), NEW code, NEW severity
    PROVE  /\ Sound(plc_fault_report(p, code, severity), n)
           /\ p.fault_latched => plc_fault_report(p, code, severity).fault_latched
<1>1. CASE code # "NONE" /\ severity = "SAFE"
  BY <1>1, LeaveStops, StoppedSound DEF plc_fault_report, Stopped, Sound
<1>2. CASE code # "NONE" /\ severity = "FAULT"
  <2> DEFINE l == [p EXCEPT !.fault_latched = TRUE]
  <2>1. /\ l \in PlcSafetyState /\ l.fault_latched /\ Escalated(l, n)
        /\ l.safe_outputs_applied => l.outputs = SafeImage
    BY DEF Sound, Escalated, PlcSafetyState
  <2>2. plc_fault_report(p, code, severity) = apply_safe_outputs_once(plc_safety_set_state(l, "FAULT"))
    BY <1>2 DEF plc_fault_report
  <2> HIDE DEF l
  <2>. QED BY <2>1, <2>2, LeaveStops, StoppedSound DEF Stopped
<1>3. CASE code = "NONE" \/ severity \notin {"SAFE", "FAULT"}
  BY <1>3 DEF plc_fault_report
<1>. QED BY <1>1, <1>2, <1>3

LEMMA PowerOnSound == \A n : Sound(PowerOn, n)
BY ThresholdsAssumption DEF Sound, Escalated, PowerOn, PlcSafetyState, SafeImage

LEMMA SafetyInitSound ==
    ASSUME NEW p, NEW n, Sound(p, n), p.state = "BOOT"
    PROVE  Sound(plc_safety_init(p), n)
<1>1. p.outputs = SafeImage
  BY DEF Sound
<1>2. [PowerOn EXCEPT !.outputs = p.outputs] = PowerOn
  <2>1. PowerOn \in PlcSafetyState /\ PowerOn.outputs = p.outputs
    BY <1>1, PowerOnSound DEF Sound, PowerOn
  <2>. QED BY <2>1 DEF PlcSafetyState
<1> DEFINE q == plc_safety_set_state(PowerOn, "STOP")
<1>3. Sound(PowerOn, n) /\ PowerOn.state = "BOOT" /\ ~PowerOn.fault_latched
  BY PowerOnSound DEF PowerOn
<1>4. /\ q \in PlcSafetyState /\ q.state = "STOP" /\ q.outputs = PowerOn.outputs
      /\ ~q.fault_latched /\ (q.safe_outputs_applied => PowerOn.safe_outputs_applied)
      /\ q.protocol_error_streak = PowerOn.protocol_error_streak
      /\ q.scan_overrun_streak = PowerOn.scan_overrun_streak
      /\ q.watchdog_miss_streak = PowerOn.watchdog_miss_streak
  BY <1>3 DEF Sound, plc_safety_set_state, PlcSafetyState
<1>5. plc_safety_init(p) = q
  BY <1>2 DEF plc_safety_init
<1> HIDE DEF q
<1>. QED BY <1>3, <1>4, <1>5 DEF Sound, Escalated

LEMMA RequestStopSound ==
    ASSUME NEW p, NEW n, Sound(p, n)
    PROVE  Sound(plc_request_stop(p), n) /\ (p.fault_latched => plc_request_stop(p).fault_latched)
<1>1. plc_fault_report(p, "SOME", "WARNING") = p
  BY DEF plc_fault_report
<1>. QED BY <1>1, LeaveStops, StoppedSound DEF plc_request_stop, Stopped, Sound

LEMMA RequestRunSound ==
    ASSUME NEW p, NEW n, Sound(p, n)
    PROVE  Sound(plc_request_run(p), n) /\ (p.fault_latched => plc_request_run(p).fault_latched)
BY DEF Sound, Escalated, plc_request_run, plc_is_safe_or_faulted, plc_safety_set_state, PlcSafetyState

\* Acknowledging is the only call that releases the latch, into STOP.
LEMMA AckFaultsSound ==
    ASSUME NEW p, NEW n, Sound(p, n)
    PROVE  /\ Sound(plc_ack_faults(p), n)
           /\ p.fault_latched =>
                /\ plc_ack_faults(p).state = "STOP"
                /\ plc_ack_faults(p).outputs = SafeImage
                /\ plc_ack_faults(p).protocol_error_streak = 0
                /\ plc_ack_faults(p).scan_overrun_streak = 0
                /\ plc_ack_faults(p).watchdog_miss_streak = 0
<1> DEFINE c == [p EXCEPT !.fault_latched = FALSE,
                          !.protocol_error_streak = 0,
                          !.scan_overrun_streak = 0,
                          !.watchdog_miss_streak = 0,
                          !.safe_outputs_applied = FALSE]
<1>1. CASE plc_is_running(p)
  BY <1>1 DEF plc_is_running, plc_ack_faults, Sound
<1>2. CASE ~plc_is_running(p)
  <2>1. /\ c \in PlcSafetyState /\ ~c.safe_outputs_applied
        /\ c.protocol_error_streak = 0 /\ c.scan_overrun_streak = 0 /\ c.watchdog_miss_streak = 0
    BY DEF Sound, PlcSafetyState
  <2>2. Escalated(c, n)
    BY <2>1, ThresholdsAssumption DEF Escalated
  <2>3. plc_ack_faults(p) = apply_safe_outputs_once(plc_safety_set_state(c, "STOP"))
    BY <1>2 DEF plc_ack_faults
  <2> HIDE DEF c
  <2>4. Stopped(plc_ack_faults(p), c, "STOP")
    BY <2>1, <2>3, LeaveStops
  <2>5. Sound(plc_ack_faults(p), n)
    BY <2>1, <2>4, <2>2, StoppedSound
  <2>. QED BY <2>1, <2>4, <2>5 DEF Stopped
<1>. QED BY <1>1, <1>2

\* A streak that reaches its threshold is reported as a FAULT in the same call,
\* so what the report starts from is Sound except for that streak.
LEMMA EscalatedSound ==
    ASSUME NEW p, NEW n, Sound(p, n), NEW q \in PlcSafetyState, NEW m, NEW code, NEW severity,
           q.state = p.state, q.outputs = p.outputs,
           q.fault_latched = p.fault_latched, q.safe_outputs_applied = p.safe_outputs_applied,
           code = "NONE" \/ severity # "FAULT" => Escalated(q, m)
    PROVE  /\ Sound(plc_fault_report(q, code, severity), m)
           /\ p.fault_latched => plc_fault_report(q, code, severity).fault_latched
<1>1. CASE code # "NONE" /\ severity = "FAULT"
  <2> DEFINE l == [q EXCEPT !.fault_latched = TRUE]
  <2>1. /\ l \in PlcSafetyState /\ l.fault_latched /\ Escalated(l, m)
        /\ l.safe_outputs_applied => l.outputs = SafeImage
    BY DEF Sound, Escalated, PlcSafetyState
  <2>2. plc_fault_report(q, code, severity) = apply_safe_outputs_once(plc_safety_set_state(l, "FAULT"))
    BY <1>1 DEF plc_fault_report
  <2> HIDE DEF l
  <2>. QED BY <2>1, <2>2, LeaveStops, StoppedSound DEF Stopped
<1>2. CASE code = "NONE" \/ severity # "FAULT"
  <2>1. Sound(q, m)
    BY <1>2 DEF Sound, Escalated
  <2>. QED BY <2>1, ReportSound
<1>. QED BY <1>1, <1>2

LEMMA IncrementedType ==
    ASSUME NEW n \in Nat
    PROVE  Incremented(n) \in Nat
BY DEF Incremented

LEMMA NotesSound ==
    ASSUME NEW p, NEW n, Sound(p, n), NEW code
    PROVE  /\ Sound(plc_fault_note_protocol_error(p, code), Named(p, code, n)) /\ Sound(plc_fault_note_scan_overrun(p), n)
           /\ Sound(plc_fault_note_watchdog_miss(p), n)
           /\ p.fault_latched =>
                /\ plc_fault_note_protocol_error(p, code).fault_latched
                /\ plc_fault_note_scan_overrun(p).fault_latched
                /\ plc_fault_note_watchdog_miss(p).fault_latched
<1> USE ThresholdsAssumption
<1>1. /\ Incremented(p.protocol_error_streak) \in Nat
      /\ Incremented(p.scan_overrun_streak) \in Nat
      /\ Incremented(p.watchdog_miss_streak) \in Nat
  BY IncrementedType DEF Sound, Escalated, PlcSafetyState
<1>2. Sound(plc_fault_note_protocol_error(p, code), Named(p, code, n))
      /\ (p.fault_latched => plc_fault_note_protocol_error(p, code).fault_latched)
  <2> DEFINE q == [p EXCEPT !.protocol_error_streak = Incremented(@)]
  <2>1. q \in PlcSafetyState
    BY <1>1 DEF Sound, Escalated, PlcSafetyState
  <2>2. ProtocolSeverity(p) # "FAULT" => ~(q.protocol_error_streak >= ProtoFault)
    BY <1>1 DEF ProtocolSeverity, Escalation, Sound, PlcSafetyState
  <2>3. q.scan_overrun_streak = p.scan_overrun_streak /\ q.watchdog_miss_streak = p.watchdog_miss_streak
        /\ q.state = p.state /\ q.outputs = p.outputs
        /\ (q.fault_latched = p.fault_latched) /\ (q.safe_outputs_applied = p.safe_outputs_applied)
    BY DEF Sound, Escalated, PlcSafetyState
  <2>4. plc_fault_note_protocol_error(p, code) = plc_fault_report(q, code, ProtocolSeverity(p))
    BY DEF plc_fault_note_protocol_error
  <2> HIDE DEF q
  <2>5. q.protocol_error_streak = Incremented(p.protocol_error_streak)
    BY DEF q, Sound, PlcSafetyState
  <2>6. code = "NONE" \/ ProtocolSeverity(p) # "FAULT" => Escalated(q, Named(p, code, n))
    BY <2>2, <2>3, <2>5 DEF Sound, Escalated, Named
  <2>. QED BY <2>1, <2>3, <2>4, <2>6, EscalatedSound
<1>3. Sound(plc_fault_note_scan_overrun(p), n)
      /\ (p.fault_latched => plc_fault_note_scan_overrun(p).fault_latched)
  <2> DEFINE q == [p EXCEPT !.scan_overrun_streak = Incremented(@)]
  <2>1. q \in PlcSafetyState
    BY <1>1 DEF Sound, Escalated, PlcSafetyState
  <2>2. ScanSeverity(p) # "FAULT" => ~(q.scan_overrun_streak >= ScanFault)
    BY <1>1 DEF ScanSeverity, Escalation, Sound, PlcSafetyState
  <2>3. q.protocol_error_streak = p.protocol_error_streak /\ q.watchdog_miss_streak = p.watchdog_miss_streak
        /\ q.state = p.state /\ q.outputs = p.outputs
        /\ (q.fault_latched = p.fault_latched) /\ (q.safe_outputs_applied = p.safe_outputs_applied)
    BY DEF Sound, Escalated, PlcSafetyState
  <2>4. plc_fault_note_scan_overrun(p) = plc_fault_report(q, "SOME", ScanSeverity(p))
    BY DEF plc_fault_note_scan_overrun
  <2> HIDE DEF q
  <2>5. ScanSeverity(p) # "FAULT" => Escalated(q, n)
    BY <2>2, <2>3 DEF Sound, Escalated
  <2>. QED BY <2>1, <2>3, <2>4, <2>5, EscalatedSound
<1>4. Sound(plc_fault_note_watchdog_miss(p), n)
      /\ (p.fault_latched => plc_fault_note_watchdog_miss(p).fault_latched)
  <2> DEFINE q == [p EXCEPT !.watchdog_miss_streak = Incremented(@)]
  <2>1. q \in PlcSafetyState
    BY <1>1 DEF Sound, Escalated, PlcSafetyState
  <2>2. WatchdogSeverity(p) # "FAULT" => ~(q.watchdog_miss_streak >= WatchdogFault)
    BY <1>1 DEF WatchdogSeverity, Escalation, Sound, PlcSafetyState
  <2>3. q.protocol_error_streak = p.protocol_error_streak /\ q.scan_overrun_streak = p.scan_overrun_streak
        /\ q.state = p.state /\ q.outputs = p.outputs
        /\ (q.fault_latched = p.fault_latched) /\ (q.safe_outputs_applied = p.safe_outputs_applied)
    BY DEF Sound, Escalated, PlcSafetyState
  <2>4. plc_fault_note_watchdog_miss(p) = plc_fault_report(q, "SOME", WatchdogSeverity(p))
    BY DEF plc_fault_note_watchdog_miss
  <2> HIDE DEF q
  <2>5. WatchdogSeverity(p) # "FAULT" => Escalated(q, n)
    BY <2>2, <2>3 DEF Sound, Escalated
  <2>. QED BY <2>1, <2>3, <2>4, <2>5, EscalatedSound
<1>. QED BY <1>2, <1>3, <1>4

LEMMA StreakEndsSound ==
    ASSUME NEW p, NEW n, Sound(p, n)
    PROVE  /\ Sound(plc_fault_note_protocol_ok(p), n) /\ Sound(plc_fault_note_scan_ok(p), n)
           /\ p.fault_latched => /\ plc_fault_note_protocol_ok(p).fault_latched
                                 /\ plc_fault_note_scan_ok(p).fault_latched
BY ThresholdsAssumption
   DEF Sound, Escalated, plc_fault_note_protocol_ok, plc_fault_note_scan_ok, PlcSafetyState

LEMMA ScanWritesSound ==
    ASSUME NEW p, NEW n, Sound(p, n), plc_is_running(p), NEW image \in [Outputs -> BOOLEAN]
    PROVE  Sound([p EXCEPT !.outputs = image], n)
BY DEF Sound, Escalated, plc_is_running, PlcSafetyState

LEMMA ApplyOnceSound ==
    ASSUME NEW p, NEW n, Sound(p, n), p.state # "RUN"
    PROVE  /\ Sound(apply_safe_outputs_once(p), n)
           /\ p.fault_latched => apply_safe_outputs_once(p).fault_latched
BY DEF Sound, Escalated, apply_safe_outputs_once, apply_safe_outputs_always, PlcSafetyState, SafeImage

-----------------------------------------------------------------------------
(* Steps.                                                                  *)

RingOK ==
    /\ history \in [0..(Capacity - 1) -> Record]
    /\ head \in 0..(Capacity - 1)
    /\ count \in 0..Capacity
    /\ sequence \in Nat

LEMMA RecordedKeepsRing ==
    ASSUME RingOK, NEW domain \in Domain, NEW code, NEW severity \in Severity,
           Recorded(domain, code, severity)
    PROVE  RingOK'
<1> USE CapacityAssumption
<1>1. CASE code = "NONE" \/ severity = "INFO"
  BY <1>1 DEF Recorded, RingOK
<1>2. CASE code # "NONE" /\ severity # "INFO"
  <2>1. plc_fault_push_history(domain, severity)
    BY <1>2 DEF Recorded
  <2>2. [sequence |-> sequence + 1, domain |-> domain, severity |-> severity] \in Record
    BY DEF Record, RingOK
  <2>3. history' \in [0..(Capacity - 1) -> Record]
    BY <2>1, <2>2 DEF plc_fault_push_history, RingOK
  <2>4. head' \in 0..(Capacity - 1)
    BY <2>1 DEF plc_fault_push_history, RingOK
  <2>. QED BY <2>1, <2>3, <2>4 DEF plc_fault_push_history, RingOK
<1>. QED BY <1>1, <1>2

LEMMA SeverityType ==
    /\ ProtocolSeverity(plc) \in Severity
    /\ ScanSeverity(plc) \in Severity
    /\ WatchdogSeverity(plc) \in Severity
BY DEF ProtocolSeverity, ScanSeverity, WatchdogSeverity, Escalation, Severity

LEMMA RingStep == RingOK /\ [Next]_vars => RingOK'
<1> SUFFICES ASSUME RingOK, [Next]_vars
             PROVE  RingOK'
  OBVIOUS
<1> USE SeverityType, RecordedKeepsRing DEF Domain, Severity
<1>1. CASE SafetyInit
  BY <1>1, CapacityAssumption DEF SafetyInit, RingOK, NoRecord, Record
<1>2. CASE RequestStop \/ FaultReport \/ EnterSafe \/ EnterFault \/ PersistCorrupt
  BY <1>2 DEF RequestStop, FaultReport, EnterSafe, EnterFault, PersistCorrupt
<1>3. CASE ProtocolError \/ WatchdogMiss \/ ScanOverrun
  BY <1>3 DEF ProtocolError, WatchdogMiss, ScanOverrun
<1>4. CASE RequestRun \/ AckFaults \/ ProtocolOk \/ ScanOk \/ ScanWrites \/ TickNotRunning
  BY <1>4 DEF RequestRun, AckFaults, ProtocolOk, ScanOk, ScanWrites, TickNotRunning, Unrecorded
<1>5. CASE UNCHANGED vars
  BY <1>5 DEF vars, RingOK
<1>. QED BY <1>1, <1>2, <1>3, <1>4, <1>5 DEF Next

LEMMA NamedStep == named \in BOOLEAN /\ [Next]_vars => (named \in BOOLEAN)'
<1> SUFFICES ASSUME named \in BOOLEAN, [Next]_vars
             PROVE  named' \in BOOLEAN
  OBVIOUS
<1>1. CASE ProtocolError
  BY <1>1 DEF ProtocolError, Named
<1>2. CASE ~ProtocolError
  <2>1. named' = named
    BY <1>2 DEF Next, vars, SafetyInit, RequestStop, RequestRun, AckFaults, FaultReport,
         EnterSafe, EnterFault, PersistCorrupt, ProtocolOk, WatchdogMiss, ScanOverrun, ScanOk,
         ScanWrites, TickNotRunning
  <2>. QED BY <2>1
<1>. QED BY <1>1, <1>2

LEMMA SoundStep == Sound(plc, named) /\ [Next]_vars => Sound(plc, named)'
<1> SUFFICES ASSUME Sound(plc, named), [Next]_vars
             PROVE  Sound(plc', named')
  BY DEF Sound, Escalated, PlcSafetyState
<1>1. CASE SafetyInit
  BY <1>1, SafetyInitSound DEF SafetyInit
<1>2. CASE RequestStop
  BY <1>2, RequestStopSound DEF RequestStop
<1>3. CASE RequestRun
  BY <1>3, RequestRunSound DEF RequestRun
<1>4. CASE AckFaults
  BY <1>4, AckFaultsSound DEF AckFaults
<1>5. CASE FaultReport \/ EnterSafe \/ EnterFault \/ PersistCorrupt
  BY <1>5, ReportSound DEF FaultReport, EnterSafe, EnterFault, PersistCorrupt, plc_enter_safe, plc_enter_fault
<1>6. CASE ProtocolError \/ WatchdogMiss \/ ScanOverrun
  BY <1>6, NotesSound DEF ProtocolError, WatchdogMiss, ScanOverrun
<1>7. CASE ProtocolOk \/ ScanOk
  BY <1>7, StreakEndsSound DEF ProtocolOk, ScanOk
<1>8. CASE ScanWrites
  BY <1>8, ScanWritesSound DEF ScanWrites
<1>9. CASE TickNotRunning
  BY <1>9, ApplyOnceSound DEF TickNotRunning
<1>10. CASE UNCHANGED vars
  BY <1>10 DEF vars
<1>. QED BY <1>1, <1>2, <1>3, <1>4, <1>5, <1>6, <1>7, <1>8, <1>9, <1>10 DEF Next

LEMMA SoundAlways == Spec => [](Sound(plc, named))
<1>1. Init => Sound(plc, named)
  BY PowerOnSound DEF Init
<1>. QED BY <1>1, SoundStep, PTL DEF Spec

-----------------------------------------------------------------------------

\* The type invariant, of g_plcSafety and of the ring of plc_fault_push_history.
THEOREM TypeCorrect == Spec => []TypeOK
<1>1. Init => RingOK
  BY CapacityAssumption DEF Init, RingOK, NoRecord, Record, Domain, Severity
<1>2. Init => named \in BOOLEAN
  BY DEF Init
<1>3. Sound(plc, named) /\ RingOK /\ named \in BOOLEAN => TypeOK
  BY DEF Sound, RingOK, TypeOK
<1>. QED BY <1>1, <1>2, <1>3, SoundAlways, RingStep, NamedStep, PTL DEF Spec

\* Outputs are dark outside RUN, although apply_safe_outputs_once skips writes.
THEOREM EnergisedOnlyInRunAlways == Spec => []EnergisedOnlyInRun
<1>1. Sound(plc, named) => EnergisedOnlyInRun
  BY DEF Sound, Escalated, EnergisedOnlyInRun
<1>. QED BY <1>1, SoundAlways, PTL

\* No order of the public functions runs a latched machine (plc_request_run).
THEOREM LatchBlocksRunAlways == Spec => []LatchBlocksRun
<1>1. Sound(plc, named) => LatchBlocksRun
  BY DEF Sound, Escalated, LatchBlocksRun
<1>. QED BY <1>1, SoundAlways, PTL

\* The flag of apply_safe_outputs_once tells the truth.
THEOREM AppliedFlagHonestAlways == Spec => []AppliedFlagHonest
<1>1. Sound(plc, named) => AppliedFlagHonest
  BY DEF Sound, Escalated, AppliedFlagHonest
<1>. QED BY <1>1, SoundAlways, PTL

\* A streak at its threshold keeps the latch set (plc_fault_note_*), for all
\* thresholds and widths of the streaks, unless no error of a protocol streak
\* that got so far had a code.
THEOREM EscalationSticksAlways == Spec => []EscalationSticks
<1>1. Sound(plc, named) => EscalationSticks
  BY DEF Sound, Escalated, EscalationSticks
<1>. QED BY <1>1, SoundAlways, PTL

\* Only an acknowledgement releases the latch, into a stopped, dark machine.
THEOREM LatchReleasedStoppedAlways == Spec => LatchReleasedStopped
<1>1. ASSUME Sound(plc, named), [Next]_vars, plc.fault_latched, ~plc'.fault_latched
      PROVE  /\ plc'.state = "STOP" /\ plc'.outputs = SafeImage
             /\ plc'.protocol_error_streak = 0 /\ plc'.scan_overrun_streak = 0
             /\ plc'.watchdog_miss_streak = 0
  <2>1. CASE AckFaults
    BY <1>1, <2>1, AckFaultsSound DEF AckFaults
  <2>2. CASE SafetyInit
    BY <1>1, <2>2 DEF SafetyInit, Sound
  <2>3. CASE RequestStop \/ RequestRun
    BY <1>1, <2>3, RequestStopSound, RequestRunSound DEF RequestStop, RequestRun
  <2>4. CASE FaultReport \/ EnterSafe \/ EnterFault \/ PersistCorrupt
    BY <1>1, <2>4, ReportSound DEF FaultReport, EnterSafe, EnterFault, PersistCorrupt, plc_enter_safe, plc_enter_fault
  <2>5. CASE ProtocolError \/ WatchdogMiss \/ ScanOverrun
    BY <1>1, <2>5, NotesSound DEF ProtocolError, WatchdogMiss, ScanOverrun
  <2>6. CASE ProtocolOk \/ ScanOk
    BY <1>1, <2>6, StreakEndsSound DEF ProtocolOk, ScanOk
  <2>7. CASE ScanWrites
    BY <1>1, <2>7 DEF ScanWrites, Sound, PlcSafetyState
  <2>8. CASE TickNotRunning
    BY <1>1, <2>8, ApplyOnceSound DEF TickNotRunning
  <2>9. CASE UNCHANGED vars
    BY <1>1, <2>9 DEF vars
  <2>. QED BY <1>1, <2>1, <2>2, <2>3, <2>4, <2>5, <2>6, <2>7, <2>8, <2>9 DEF Next
<1>2. Sound(plc, named) /\ [Next]_vars =>
        [plc.fault_latched /\ ~plc'.fault_latched
           => /\ plc'.state = "STOP" /\ plc'.outputs = SafeImage
              /\ plc'.protocol_error_streak = 0 /\ plc'.scan_overrun_streak = 0
              /\ plc'.watchdog_miss_streak = 0]_vars
  BY <1>1
<1>. QED BY <1>2, SoundAlways, PTL DEF Spec, LatchReleasedStopped

-----------------------------------------------------------------------------
(* The ring implements FaultLog.                                           *)

\* Where the i-th newest record is: plc_fault_history_get without its modulus.
Slot(h, i) == IF i < h THEN h - 1 - i ELSE h - 1 - i + Capacity

LogOf(hist, h, n) == [i \in 1..n |-> hist[Slot(h, i - 1)]]

IsLog(log, hist, h, n) ==
    /\ log \in Seq(Record) /\ Len(log) = n
    /\ \A i \in 1..n : log[i] = hist[Slot(h, i - 1)]

IsReported(log2, r, log) ==
    log2 # << >> /\ log2[1] = r /\ log2 = Log!Newest(Capacity, <<r>> \o log)

LEMMA SlotType ==
    ASSUME NEW h \in 0..(Capacity - 1), NEW i \in 0..(Capacity - 1)
    PROVE  Slot(h, i) \in 0..(Capacity - 1)
BY CapacityAssumption DEF Slot

LEMMA SlotOfModulus ==
    ASSUME NEW h \in 0..(Capacity - 1), NEW i \in 0..(Capacity - 1)
    PROVE  ((IF h = 0 THEN Capacity - 1 ELSE h - 1) + Capacity - i) % Capacity = Slot(h, i)
<1>1. ASSUME NEW n \in 0..(Capacity - 1)
      PROVE  (n + Capacity - i) % Capacity = IF i <= n THEN n - i ELSE n + Capacity - i
  BY CapacityAssumption
<1>2. (IF h = 0 THEN Capacity - 1 ELSE h - 1) \in 0..(Capacity - 1)
  BY CapacityAssumption
<1>. QED BY <1>1, <1>2, CapacityAssumption DEF Slot

LEMMA LogOfType ==
    ASSUME NEW hist \in [0..(Capacity - 1) -> Record], NEW h \in 0..(Capacity - 1),
           NEW n \in 0..Capacity
    PROVE  IsLog(LogOf(hist, h, n), hist, h, n)
<1>1. ASSUME NEW i \in 1..n
      PROVE  hist[Slot(h, i - 1)] \in Record
  <2>1. i - 1 \in 0..(Capacity - 1)
    BY CapacityAssumption
  <2>. QED BY <2>1, SlotType
<1>2. LogOf(hist, h, n) \in [1..n -> Record]
  BY <1>1 DEF LogOf
<1>3. LogOf(hist, h, n) \in Seq(Record)
  BY <1>2, SeqDef, CapacityAssumption
<1>4. Len(LogOf(hist, h, n)) = n
  BY CapacityAssumption DEF LogOf
<1>. QED BY <1>3, <1>4 DEF LogOf, IsLog

\* One push: the record at the front, the others behind it, the oldest dropped.
LEMMA PushIsReport ==
    ASSUME NEW hist \in [0..(Capacity - 1) -> Record], NEW h \in 0..(Capacity - 1),
           NEW n \in 0..Capacity, NEW r \in Record,
           NEW h2 \in 0..(Capacity - 1), h2 = (IF h + 1 = Capacity THEN 0 ELSE h + 1),
           NEW n2 \in 1..Capacity, n2 = (IF n < Capacity THEN n + 1 ELSE n),
           NEW hist2 \in [0..(Capacity - 1) -> Record],
           hist2 = [hist EXCEPT ![h] = r]
    PROVE  IsReported(LogOf(hist2, h2, n2), r, LogOf(hist, h, n))
<1> DEFINE old == LogOf(hist, h, n)
           new == LogOf(hist2, h2, n2)
           all == <<r>> \o old
<1> USE CapacityAssumption
<1>1. n2 \in 0..Capacity
  OBVIOUS
<1>3. /\ old \in Seq(Record) /\ Len(old) = n
      /\ \A i \in 1..n : old[i] = hist[Slot(h, i - 1)]
  <2>1. IsLog(old, hist, h, n)
    BY LogOfType
  <2>. QED BY <2>1 DEF IsLog
<1>4. /\ new \in Seq(Record) /\ Len(new) = n2
      /\ \A i \in 1..n2 : new[i] = hist2[Slot(h2, i - 1)]
  <2>1. IsLog(new, hist2, h2, n2)
    BY <1>1, LogOfType
  <2>. QED BY <2>1 DEF IsLog
<1>5. Slot(h2, 0) = h /\ hist2[h] = r
  BY DEF Slot
<1>6. ASSUME NEW i \in 2..n2
      PROVE  hist2[Slot(h2, i - 1)] = hist[Slot(h, i - 2)]
  <2>1. Slot(h2, i - 1) = Slot(h, i - 2)
    BY DEF Slot
  <2>2. Slot(h, i - 2) # h /\ Slot(h, i - 2) \in 0..(Capacity - 1)
    BY SlotType DEF Slot
  <2>. QED BY <2>1, <2>2
<1>7. <<r>> \in Seq(Record) /\ Len(<<r>>) = 1 /\ <<r>>[1] = r
  OBVIOUS
<1>8. /\ all \in Seq(Record) /\ Len(all) = n + 1
      /\ \A i \in 1..(n + 1) : all[i] = IF i <= 1 THEN r ELSE old[i - 1]
  BY <1>3, <1>7, ConcatProperties
<1> HIDE DEF old, new, all
<1>9. ASSUME NEW i \in 1..n2
      PROVE  new[i] = all[i]
  <2>1. i \in 1..(n + 1) /\ (i # 1 => i \in 2..n2 /\ i - 1 \in 1..n)
    OBVIOUS
  <2>2. CASE i = 1
    <3>1. new[1] = hist2[Slot(h2, 1 - 1)] /\ 1 - 1 = 0
      BY <1>4
    <3>2. all[1] = r
      BY <1>8
    <3>. QED BY <1>5, <2>2, <3>1, <3>2
  <2>3. CASE i # 1
    <3>1. new[i] = hist[Slot(h, i - 2)] /\ all[i] = old[i - 1]
      BY <1>4, <1>6, <1>8, <2>1, <2>3
    <3>2. old[i - 1] = hist[Slot(h, (i - 1) - 1)] /\ (i - 1) - 1 = i - 2
      BY <1>3, <2>1, <2>3
    <3>. QED BY <3>1, <3>2
  <2>. QED BY <2>2, <2>3
<1>10. new # << >> /\ new[1] = r
  BY <1>4, <1>5, EmptySeq
<1>11. CASE n < Capacity
  <2>1. Log!Newest(Capacity, all) = all
    BY <1>8, <1>11 DEF Log!Newest
  <2>2. new = all
    BY <1>4, <1>8, <1>9, <1>11, SeqEqual
  <2>. QED BY <1>10, <2>1, <2>2 DEF new, old, all, IsReported
<1>12. CASE n = Capacity
  <2> DEFINE cut == SubSeq(all, 1, Capacity)
  <2>1. Log!Newest(Capacity, all) = cut
    BY <1>8, <1>12 DEF Log!Newest
  <2>2. \A i \in 1..Capacity : all[i] \in Record
    BY <1>8, <1>12, ElementOfSeq
  <2>3. /\ cut \in Seq(Record) /\ Len(cut) = Capacity
        /\ \A i \in 1..Capacity : cut[i] = all[i]
    BY <2>2, SubSeqProperties
  <2> HIDE DEF cut
  <2>4. n2 = Capacity /\ \A i \in 1..Len(new) : new[i] = cut[i]
    BY <1>4, <1>9, <1>12, <2>3
  <2>5. new = cut
    BY <1>4, <2>3, <2>4, SeqEqual
  <2>. QED BY <1>10, <2>1, <2>5 DEF new, old, all, IsReported
<1>. QED BY <1>11, <1>12

TheLog == [i \in 1..count |-> plc_fault_history_get(i - 1)]

LEMMA TheLogIsLogOf ==
    /\ RingOK => TheLog = LogOf(history, head, count)
    /\ RingOK' => TheLog' = LogOf(history', head', count')
<1>1. \A n \in 0..Capacity : \A i \in 1..n : i - 1 \in 0..(Capacity - 1)
  BY CapacityAssumption
<1>2. ASSUME RingOK, NEW i \in 1..count
      PROVE  plc_fault_history_get(i - 1) = history[Slot(head, i - 1)]
  BY <1>1, <1>2, SlotOfModulus DEF RingOK, plc_fault_history_get
<1>3. ASSUME RingOK', NEW i \in 1..count'
      PROVE  plc_fault_history_get(i - 1)' = history'[Slot(head', i - 1)]
  BY <1>1, <1>3, SlotOfModulus DEF RingOK, plc_fault_history_get
<1>. QED BY <1>2, <1>3 DEF TheLog, LogOf

LEMMA RecordedIsLogStep ==
    ASSUME RingOK, RingOK', NEW domain \in Domain, NEW code, NEW severity \in Severity,
           Recorded(domain, code, severity)
    PROVE  [Log!Next]_TheLog
<1>1. CASE code = "NONE" \/ severity = "INFO"
  BY <1>1 DEF Recorded, TheLog, plc_fault_history_get
<1>2. CASE code # "NONE" /\ severity # "INFO"
  <2> DEFINE r == [sequence |-> sequence + 1, domain |-> domain, severity |-> severity]
  <2>1. plc_fault_push_history(domain, severity) /\ r \in Record
    BY <1>2 DEF Recorded, RingOK, Record
  <2>2. /\ head' = (head + 1) % Capacity
        /\ count' = IF count < Capacity THEN count + 1 ELSE count
        /\ history' = [history EXCEPT ![head] = r]
    BY <2>1 DEF plc_fault_push_history
  <2> HIDE DEF r
  <2>3. /\ TheLog = LogOf(history, head, count)
        /\ TheLog' = LogOf(history', head', count')
    BY TheLogIsLogOf
  <2>4. /\ history \in [0..(Capacity - 1) -> Record] /\ head \in 0..(Capacity - 1)
        /\ count \in 0..Capacity
        /\ history' \in [0..(Capacity - 1) -> Record] /\ head' \in 0..(Capacity - 1)
        /\ count' \in 1..Capacity
        /\ head' = (IF head + 1 = Capacity THEN 0 ELSE head + 1)
    BY <2>2, CapacityAssumption DEF RingOK
  <2>5. IsReported(TheLog', r, TheLog)
    BY <2>1, <2>2, <2>3, <2>4, PushIsReport
  <2>. QED BY <2>1, <2>5 DEF IsReported, Log!Next, Log!Report, TheLog
<1>. QED BY <1>1, <1>2

\* Reading the ring with plc_fault_history_get shows a log of the last Capacity
\* reports, newest first, for a ring of any size and however often it wraps.
THEOREM RingImplementsLog == Spec => HistoryIsTheLog
<1>1. Init => Log!Init
  BY DEF Init, Log!Init
<1>2. RingOK /\ RingOK' /\ [Next]_vars => [Log!Next]_TheLog
  <2> SUFFICES ASSUME RingOK, RingOK', [Next]_vars
               PROVE  [Log!Next]_TheLog
    OBVIOUS
  <2> USE SeverityType, RecordedIsLogStep DEF Domain, Severity
  <2>1. CASE SafetyInit
    BY <2>1 DEF SafetyInit, Log!Next, Log!Clear, TheLog
  <2>2. CASE RequestStop \/ FaultReport \/ EnterSafe \/ EnterFault \/ PersistCorrupt
    BY <2>2 DEF RequestStop, FaultReport, EnterSafe, EnterFault, PersistCorrupt
  <2>3. CASE ProtocolError \/ WatchdogMiss \/ ScanOverrun
    BY <2>3 DEF ProtocolError, WatchdogMiss, ScanOverrun
  <2>4. CASE RequestRun \/ AckFaults \/ ProtocolOk \/ ScanOk \/ ScanWrites \/ TickNotRunning
    BY <2>4 DEF RequestRun, AckFaults, ProtocolOk, ScanOk, ScanWrites, TickNotRunning, Unrecorded
  <2>5. CASE UNCHANGED vars
    BY <2>5 DEF vars, TheLog, plc_fault_history_get
  <2>. QED BY <2>1, <2>2, <2>3, <2>4, <2>5 DEF Next
<1>3. Init => RingOK
  BY CapacityAssumption DEF Init, RingOK, NoRecord, Record, Domain, Severity
<1>. QED BY <1>1, <1>2, <1>3, RingStep, PTL DEF Spec, HistoryIsTheLog, Log!Spec, TheLog
=============================================================================
