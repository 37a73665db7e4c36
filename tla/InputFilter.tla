----------------------------- MODULE InputFilter -----------------------------
(***************************************************************************)
(* The filter of one digital input channel in plc_refresh_inputs_hw: what  *)
(* is read of the port counts when it has been read for DebounceMs.  Time  *)
(* is the clock of plc_tick, which wraps; the port may change between two  *)
(* readings, also between those of two nodes in one scan.                  *)
(***************************************************************************)
EXTENDS Integers

CONSTANTS
    DefaultMs,   \* DI_DEBOUNCE_DEFAULT_MS
    ClockWrap,   \* 2^32, where the clock wraps
    GapMax       \* longest time between two readings

ASSUME FilterAssumption ==
    /\ DefaultMs \in Nat \ {0} /\ ClockWrap \in Nat /\ GapMax \in Nat \ {0}
    /\ DefaultMs + GapMax <= ClockWrap

VARIABLES now, filter, out, seen

filterVars == <<now, filter, out, seen>>

Filter ==
    [inited : BOOLEAN, stable : BOOLEAN, candidate : BOOLEAN,
     sinceMs : 0..(ClockWrap - 1), debounceMs : {0, DefaultMs}]

Cleared ==
    [inited |-> FALSE, stable |-> FALSE, candidate |-> FALSE, sinceMs |-> 0, debounceMs |-> 0]

\* What was read: the last reading, for how long it has been the same (no more than
\* DefaultMs is told apart), and the last that stayed the same for DefaultMs.
NothingRead == [ran |-> FALSE, raw |-> FALSE, held |-> 0, settled |-> FALSE]

FilterInit ==
    /\ now \in 0..(ClockWrap - 1)
    /\ filter = Cleared
    /\ out = FALSE
    /\ seen = NothingRead

-----------------------------------------------------------------------------

\* The first reading counts at once.
First(raw, tnow) ==
    IF filter.inited THEN filter
    ELSE [inited |-> TRUE, stable |-> raw, candidate |-> raw, sinceMs |-> tnow,
          debounceMs |-> DefaultMs]

\* Faulty variant: the end of the time is compared, not the time that passed.
ElapsedByEnd(f, tnow) == tnow >= (f.sinceMs + f.debounceMs) % ClockWrap

Elapsed(f, tnow) == (tnow - f.sinceMs) % ClockWrap >= f.debounceMs

Filtered(f, raw, tnow) ==
    IF raw # f.candidate THEN [f EXCEPT !.candidate = raw, !.sinceMs = tnow]
    ELSE IF Elapsed(f, tnow) THEN [f EXCEPT !.stable = f.candidate]
    ELSE f

UpToDefault(t) == IF t > DefaultMs THEN DefaultMs ELSE t

Readings(raw, gap) ==
    LET held == IF ~seen.ran \/ raw # seen.raw THEN 0 ELSE UpToDefault(seen.held + gap)
    IN  [ran |-> TRUE, raw |-> raw, held |-> held,
         settled |-> IF ~seen.ran \/ held = DefaultMs THEN raw ELSE seen.settled]

\* A node reads the channel; no time has passed for a second node of the same scan.
Read ==
    \E raw \in BOOLEAN, gap \in 0..GapMax :
        LET tnow == (now + gap) % ClockWrap
        IN  /\ now' = tnow
            /\ filter' = Filtered(First(raw, tnow), raw, tnow)
            /\ out' = filter'.stable
            /\ seen' = Readings(raw, gap)

\* A graph is activated.
plc_io_reset_runtime ==
    /\ filter' = Cleared
    /\ out' = FALSE
    /\ seen' = NothingRead
    /\ UNCHANGED now

FilterNext == Read \/ plc_io_reset_runtime

FilterSpec == FilterInit /\ [][FilterNext]_filterVars

-----------------------------------------------------------------------------

\* The clock stays in its range, and a filter in use has a time.
FilterTypeOK ==
    /\ now \in 0..(ClockWrap - 1) /\ filter \in Filter /\ out \in BOOLEAN
    /\ filter.inited => filter.debounceMs = DefaultMs

\* A node shows the last value that was read without a change for the whole time,
\* from the reading that brought it, across the wrap of the clock (plc_refresh_inputs_hw).
ShowsSettled == seen.ran => out = seen.settled
=============================================================================
