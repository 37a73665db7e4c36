------------------------------- MODULE PlcNodes -------------------------------
(***************************************************************************)
(* The nodes that remember something from scan to scan: timers, heartbeat  *)
(* and counters.  One node is executed again and again with inputs and     *)
(* time steps that vary, and is reset when its graph is activated.         *)
(*                                                                         *)
(* What a node should show is told by history, which is computed from the  *)
(* inputs alone: how long an input has been on or off, how many edges it   *)
(* had.  No time passes for a node that is not executed.                   *)
(***************************************************************************)
EXTENDS Integers

CONSTANTS
    Configs,     \* <<type, parameter>>: paramMs, or the preset of a CTD
    DtMax,       \* longest time step (plc_tick clamps it)
    Wrap,        \* 2^32, where a time wraps
    AccMax,      \* INT32_MAX, where a counter stops
    Long         \* times of history are not told apart beyond this

Delays == {"TON", "TOFF", "TP"}
Timers == Delays \cup {"HEARTBEAT"}
Types  == Timers \cup {"CTU", "CTD", "CTUD"}

ASSUME NodesAssumption ==
    /\ Configs \subseteq Types \X Int
    /\ DtMax \in Nat \ {0} /\ Wrap \in Nat \ {0} /\ AccMax \in Nat /\ Long \in Nat
    /\ \A c \in Configs : c[1] \in Delays => c[2] \in 0..(Long - 1) /\ c[2] + DtMax < Wrap
    /\ \A c \in Configs : c[1] = "HEARTBEAT" => c[2] \in 0..(Wrap - 1)
    /\ \A c \in Configs : c[1] = "CTD" => c[2] <= AccMax

VARIABLES config, self, history

nodesVars == <<config, self, history>>

type  == config[1]
param == config[2]

Runtime ==
    [out : BOOLEAN, ton_active : BOOLEAN, ton_accum_ms : 0..(Wrap - 1),
     toff_holding : BOOLEAN, toff_left_ms : 0..(Wrap - 1),
     trig_prev : BOOLEAN, log_accum_ms : 0..(Wrap - 1), acc : 0..AccMax, prev_clk : BOOLEAN]

\* Nothing seen yet: the input was last on, and last rose, long ago.
Nothing ==
    [ran |-> FALSE, a |-> FALSE, b |-> FALSE, dt |-> 0, held |-> 0, gone |-> Long, age |-> Long,
     clock |-> 0, count |-> 0, apart |-> TRUE]

\* Static memory is zero before the first graph.
NodesInit ==
    /\ config \in Configs
    /\ self = [out |-> FALSE, ton_active |-> FALSE, ton_accum_ms |-> 0,
               toff_holding |-> FALSE, toff_left_ms |-> 0,
               trig_prev |-> FALSE, log_accum_ms |-> 0, acc |-> 0, prev_clk |-> FALSE]
    /\ history = Nothing

-----------------------------------------------------------------------------
(* The functions of the nodes, with inputs a and b                         *)

\* Faulty variant: the time of the scan that starts the timer counts.
TonStartsLate(s, a, dt) ==
    LET accum == IF ~a THEN 0
                 ELSE IF s.ton_accum_ms < param
                      THEN IF s.ton_accum_ms + dt > param THEN param ELSE s.ton_accum_ms + dt
                 ELSE s.ton_accum_ms
    IN  [s EXCEPT !.ton_active = a, !.ton_accum_ms = accum, !.out = accum >= param]

\* Faulty variant: the time runs on when the delay is over.
TonRunsOn(s, a, dt) ==
    LET accum == IF ~a \/ ~s.ton_active THEN 0 ELSE (s.ton_accum_ms + dt) % Wrap
    IN  [s EXCEPT !.ton_active = a, !.ton_accum_ms = accum, !.out = accum >= param]

plc_node_exec_ton(s, a, dt) ==
    LET counted == (s.ton_accum_ms + dt) % Wrap
        accum == IF ~a \/ ~s.ton_active THEN 0
                 ELSE IF s.ton_accum_ms >= param THEN s.ton_accum_ms
                 ELSE IF counted > param THEN param ELSE counted
    IN  [s EXCEPT !.ton_active = a, !.ton_accum_ms = accum, !.out = accum >= param]

Holding(s, left) == [s EXCEPT !.toff_holding = TRUE, !.toff_left_ms = left]

\* The time step is taken off what is left, or ends it.
RunDown(s, dt) ==
    IF ~s.toff_holding THEN s
    ELSE IF s.toff_left_ms <= dt THEN [s EXCEPT !.toff_holding = FALSE, !.toff_left_ms = 0]
    ELSE [s EXCEPT !.toff_left_ms = @ - dt]

plc_node_exec_toff(s, a, dt) ==
    LET n == IF a THEN Holding(s, param) ELSE RunDown(s, dt)
    IN  [n EXCEPT !.out = a \/ n.toff_holding]

\* The pulse shows before its first step is taken off.
plc_node_exec_tp(s, a, dt) ==
    LET n == IF a /\ ~s.trig_prev THEN Holding(s, param) ELSE s
    IN  RunDown([n EXCEPT !.trig_prev = a, !.out = n.toff_holding], dt)

plc_node_exec_heartbeat(s, dt) ==
    LET accum == (s.log_accum_ms + dt) % Wrap
    IN  IF accum >= param THEN [s EXCEPT !.log_accum_ms = accum - param, !.out = ~@]
        ELSE [s EXCEPT !.log_accum_ms = accum]

Up(acc)   == IF acc < AccMax THEN acc + 1 ELSE acc
Down(acc) == IF acc > 0 THEN acc - 1 ELSE acc

plc_node_exec_ctu(s, clk, rst) ==
    LET acc == IF rst THEN 0 ELSE s.acc
    IN  [s EXCEPT !.acc = IF clk /\ ~s.prev_clk THEN Up(acc) ELSE acc, !.prev_clk = clk]

plc_node_exec_ctd(s, clk, rst) ==
    LET acc == IF ~rst THEN s.acc ELSE IF param < 0 THEN 0 ELSE param
    IN  [s EXCEPT !.acc = IF clk /\ ~s.prev_clk THEN Down(acc) ELSE acc, !.prev_clk = clk]

\* Faulty variant: only the up clock is remembered.
ClockUpOnly(cu, cd) == cu

\* One memory for both clocks.
AnyClock(cu, cd) == cu \/ cd

plc_node_exec_ctud(s, cu, cd) ==
    LET rising == AnyClock(cu, cd) /\ ~s.prev_clk
    IN  [s EXCEPT !.prev_clk = AnyClock(cu, cd),
                  !.acc = IF rising /\ cu /\ ~cd THEN Up(@)
                          ELSE IF rising /\ cd /\ ~cu THEN Down(@) ELSE @]

exec(s, a, b, dt) ==
    CASE type = "TON"       -> plc_node_exec_ton(s, a, dt)
      [] type = "TOFF"      -> plc_node_exec_toff(s, a, dt)
      [] type = "TP"        -> plc_node_exec_tp(s, a, dt)
      [] type = "HEARTBEAT" -> plc_node_exec_heartbeat(s, dt)
      [] type = "CTU"       -> plc_node_exec_ctu(s, a, b)
      [] type = "CTD"       -> plc_node_exec_ctd(s, a, b)
      [] type = "CTUD"      -> plc_node_exec_ctud(s, a, b)

-----------------------------------------------------------------------------
(* History, from the inputs alone                                          *)

Capped(t) == IF t > Long THEN Long ELSE t

\* held: for how long a has been on; gone: since when it is off; age: how long ago it
\* last rose, up to the scan before; clock: all time, modulo two periods; count: what
\* an up and down counter should show; apart: the two clocks never met.
Seen(h, a, b, dt) ==
    LET rises == a /\ ~h.a
        falls == b /\ ~h.b                     \* a count downwards
    IN  [ran |-> TRUE, a |-> a, b |-> b, dt |-> dt,
         held |-> IF a /\ h.a THEN Capped(h.held + dt) ELSE 0,
         gone |-> IF a THEN 0 ELSE Capped(h.gone + dt),
         age |-> IF rises THEN 0 ELSE Capped(h.age + h.dt),
         clock |-> IF param > 0 THEN (h.clock + dt) % (2 * param) ELSE 0,
         count |-> IF rises THEN Up(h.count) ELSE IF falls THEN Down(h.count) ELSE h.count,
         apart |-> h.apart /\ ~((a \/ h.a) /\ (b \/ h.b))]

-----------------------------------------------------------------------------

Scan ==
    \E a, b \in BOOLEAN, dt \in 1..DtMax :
        /\ self' = exec(self, a, b, dt)
        /\ history' = Seen(history, a, b, dt)
        /\ UNCHANGED config

plc_node_reset_runtime ==
    [self EXCEPT !.out = FALSE, !.trig_prev = FALSE, !.ton_active = FALSE, !.ton_accum_ms = 0,
                 !.toff_holding = FALSE, !.toff_left_ms = 0, !.log_accum_ms = 0,
                 !.acc = 0, !.prev_clk = FALSE]

\* The graph is activated, once more or with another node in this place: the values
\* of an uploaded image do not survive.
Activate ==
    /\ self' = plc_node_reset_runtime
    /\ config' \in Configs
    /\ history' = Nothing

NodesNext == Scan \/ Activate

NodesSpec == NodesInit /\ [][NodesNext]_nodesVars

-----------------------------------------------------------------------------

\* A heartbeat that is scanned at least once in its period.  What is left over of a
\* shorter one adds up until it wraps, and so may the sum of one that is nearly as
\* long as the range of a time; plc_graph_validate bounds the parameter of neither.
KeepsUp == param >= DtMax /\ param + DtMax <= Wrap

\* No time is longer than its parameter, no counter leaves its range, and there is
\* always room for another step of time: the sum in plc_node_exec_ton never wraps,
\* nor does that in plc_node_exec_heartbeat if it keeps up.
NodesTypeOK ==
    /\ config \in Configs /\ self \in Runtime
    /\ type = "TON" => self.ton_accum_ms <= param /\ self.ton_accum_ms + DtMax < Wrap
    /\ type \in {"TOFF", "TP"} => self.toff_left_ms <= param
    /\ type = "HEARTBEAT" /\ KeepsUp =>
           self.log_accum_ms < param /\ self.log_accum_ms + DtMax < Wrap

Shows(t) == history.ran /\ type = t

\* An on-delay is on exactly when its input has been on for the whole delay, counted
\* from the scan that saw it come; without a delay it is always on, also while its
\* input is off (plc_node_exec_ton).
TonDelays ==
    Shows("TON") => (self.out <=> param = 0 \/ (history.a /\ history.held >= param))

\* An off-delay is on with its input, and then for less than the delay; nothing is
\* left of the graph before (plc_node_exec_toff).
ToffHolds == Shows("TOFF") => (self.out <=> history.a \/ history.gone < param)

\* A pulse starts in the scan of a rising edge, lasts the set time whatever the input
\* does, and starts anew with another edge (plc_node_exec_tp).
TpPulses == Shows("TP") => (self.out <=> history.age = 0 \/ history.age < param)

\* A heartbeat that keeps up does not drift, whatever the time steps
\* (plc_node_exec_heartbeat).
HeartbeatKeepsTime ==
    Shows("HEARTBEAT") /\ KeepsUp => (self.out <=> history.clock >= param)

\* Every delay, of 0 ms too, and every heartbeat that keeps up shows what its input was
\* over the time of its parameter, whatever the time steps and however often graphs
\* are activated in between: nothing is left of the node before (plc_node_timer.c,
\* plc_node_exec_heartbeat, plc_node_reset_runtime).
TimersKeepTime == TonDelays /\ ToffHolds /\ TpPulses /\ HeartbeatKeepsTime

\* A counter with two clocks that are never on together or in turn without a pause
\* counts every edge (plc_node_exec_ctud, which has one memory for both).
CtudCounts == Shows("CTUD") /\ history.apart => self.acc = history.count
=============================================================================
