--------------------------- MODULE PlcParts_proofs ---------------------------
(***************************************************************************)
(* The parts of the library with a memory show what the history of their   *)
(* inputs says: timers of any time and counters under any time steps, an   *)
(* input filter under any clock, an event ring of any length.              *)
(***************************************************************************)
EXTENDS MCPlcParts, SequenceTheorems, TLAPS

-----------------------------------------------------------------------------
(* Numbers that may wrap                                                   *)

LEMMA NoWrap ==
    ASSUME NEW n \in Nat \ {0}, NEW x \in 0..(n - 1)
    PROVE  x % n = x
OBVIOUS

LEMMA WrapsOnce ==
    ASSUME NEW n \in Nat \ {0}, NEW x \in n..(2 * n - 1)
    PROVE  x % n = x - n
OBVIOUS

LEMMA WrapsBelow ==
    ASSUME NEW n \in Nat \ {0}, NEW x \in (-n)..(-1)
    PROVE  x % n = x + n
OBVIOUS

LEMMA Wrapped ==
    ASSUME NEW n \in Nat \ {0}, NEW x \in Int
    PROVE  x % n \in 0..(n - 1)
OBVIOUS

-----------------------------------------------------------------------------
(* The input filter                                                        *)

\* While what is read is not yet shown, the clock has counted how long it has been
\* the same.
Counting ==
    \/ filter.stable = filter.candidate
    \/ (now - filter.sinceMs) % ClockWrap = seen.held /\ seen.held < DefaultMs

FilterInv ==
    /\ FilterTypeOK
    /\ seen.ran \in BOOLEAN /\ seen.raw \in BOOLEAN /\ seen.settled \in BOOLEAN
    /\ seen.held \in 0..DefaultMs
    /\ filter.inited = seen.ran
    /\ out = filter.stable
    /\ seen.ran => filter.candidate = seen.raw /\ out = seen.settled /\ Counting

\* The clock, one reading later.
LEMMA ElapsedGrows ==
    ASSUME NEW t \in 0..(ClockWrap - 1), NEW since \in 0..(ClockWrap - 1), NEW gap \in 0..GapMax,
           (t - since) % ClockWrap < DefaultMs
    PROVE  (((t + gap) % ClockWrap) - since) % ClockWrap = ((t - since) % ClockWrap) + gap
<1> DEFINE u == (t + gap) % ClockWrap
<1>0. /\ ClockWrap \in Nat \ {0} /\ GapMax \in Nat \ {0} /\ DefaultMs \in Nat \ {0}
      /\ DefaultMs + GapMax <= ClockWrap
  BY FilterAssumption
<1>1. u = t + gap \/ u = t + gap - ClockWrap
  <2>1. CASE t + gap < ClockWrap
    BY <1>0, <2>1, NoWrap
  <2>2. CASE t + gap >= ClockWrap
    BY <1>0, <2>2, WrapsOnce
  <2>. QED BY <1>0, <2>1, <2>2
<1>2. u \in 0..(ClockWrap - 1)
  BY <1>0, Wrapped
<1>3. (t - since) % ClockWrap = IF t >= since THEN t - since ELSE t - since + ClockWrap
  BY <1>0, NoWrap, WrapsBelow
<1> HIDE DEF u
<1>4. (u - since) % ClockWrap = IF u >= since THEN u - since ELSE u - since + ClockWrap
  BY <1>0, <1>2, NoWrap, WrapsBelow
<1>5. (u - since) % ClockWrap = ((t - since) % ClockWrap) + gap
  BY <1>0, <1>1, <1>2, <1>3, <1>4
<1>. QED BY <1>5 DEF u

LEMMA ClearedFilter ==
    /\ Cleared \in Filter /\ Cleared.inited = FALSE /\ Cleared.stable = FALSE
    /\ NothingRead.ran = FALSE /\ NothingRead.raw = FALSE /\ NothingRead.held = 0
    /\ NothingRead.settled = FALSE
BY FilterAssumption DEF Filter, Cleared, NothingRead

LEMMA FilterStarts == FilterInit => FilterInv
<1>1. 0 \in 0..DefaultMs
  BY FilterAssumption
<1>. QED BY <1>1, ClearedFilter, Zenon DEF FilterInit, FilterInv, FilterTypeOK

\* The invariant after a reading, part by part.
LEMMA FilterRead ==
    ASSUME now' \in 0..(ClockWrap - 1), filter' \in Filter, out' = filter'.stable,
           filter'.inited, filter'.debounceMs = DefaultMs,
           seen'.ran = TRUE, seen'.raw \in BOOLEAN, seen'.settled \in BOOLEAN,
           seen'.held \in 0..DefaultMs,
           filter'.candidate = seen'.raw, filter'.stable = seen'.settled,
           \/ filter'.stable = filter'.candidate
           \/ (now' - filter'.sinceMs) % ClockWrap = seen'.held /\ seen'.held < DefaultMs
    PROVE  FilterInv'
<1>1. filter'.stable \in BOOLEAN /\ filter'.inited = TRUE
  BY DEF Filter
<1>2. FilterTypeOK'
  BY <1>1, Zenon DEF FilterTypeOK
<1>3. Counting'
  BY Zenon DEF Counting
<1>. QED BY <1>1, <1>2, <1>3, Zenon DEF FilterInv

LEMMA ReadKeeps ==
    ASSUME FilterInv, Read
    PROVE  FilterInv'
<1>0. /\ ClockWrap \in Nat \ {0} /\ GapMax \in Nat \ {0} /\ DefaultMs \in Nat \ {0}
      /\ DefaultMs + GapMax <= ClockWrap
  BY FilterAssumption
<1>1. PICK raw \in BOOLEAN, gap \in 0..GapMax :
         LET tnow == (now + gap) % ClockWrap
         IN  /\ now' = tnow
             /\ filter' = Filtered(First(raw, tnow), raw, tnow)
             /\ out' = filter'.stable
             /\ seen' = Readings(raw, gap)
  BY DEF Read
<1>2. now \in 0..(ClockWrap - 1) /\ now' \in 0..(ClockWrap - 1) /\ now' = (now + gap) % ClockWrap
  BY <1>0, <1>1, Wrapped DEF FilterInv, FilterTypeOK
<1>3. /\ filter' = Filtered(First(raw, now'), raw, now') /\ out' = filter'.stable
      /\ seen' = Readings(raw, gap)
  BY <1>1
<1>4. CASE ~filter.inited
  <2> DEFINE f == [inited |-> TRUE, stable |-> raw, candidate |-> raw, sinceMs |-> now',
                   debounceMs |-> DefaultMs]
  <2>1. First(raw, now') = f
    BY <1>4 DEF First
  <2>2. (now' - now') % ClockWrap = 0
    BY <1>0, <1>2, NoWrap
  <2>3. filter' = f
    BY <1>0, <1>3, <2>1, <2>2 DEF Filtered, Elapsed
  <2>4. seen' = [ran |-> TRUE, raw |-> raw, held |-> 0, settled |-> raw]
    BY <1>0, <1>3, <1>4 DEF Readings, FilterInv
  <2>5. /\ filter' \in Filter /\ filter'.inited /\ filter'.debounceMs = DefaultMs
        /\ filter'.stable = raw /\ filter'.candidate = raw
    BY <1>2, <2>3 DEF Filter
  <2>6. /\ seen'.ran = TRUE /\ seen'.raw = raw /\ seen'.held = 0 /\ seen'.settled = raw
    BY <2>4
  <2>7. /\ seen'.raw \in BOOLEAN /\ seen'.settled \in BOOLEAN /\ seen'.held \in 0..DefaultMs
        /\ filter'.candidate = seen'.raw /\ filter'.stable = seen'.settled
        /\ filter'.stable = filter'.candidate
    BY <1>0, <2>5, <2>6
  <2>. QED BY <1>2, <1>3, <2>5, <2>6, <2>7, FilterRead
<1>5. CASE filter.inited /\ raw # filter.candidate
  <2>1. filter' = [filter EXCEPT !.candidate = raw, !.sinceMs = now']
    BY <1>3, <1>5 DEF First, Filtered
  <2>2. seen' = [ran |-> TRUE, raw |-> raw, held |-> 0, settled |-> seen.settled]
    BY <1>0, <1>3, <1>5 DEF Readings, FilterInv
  <2>3. (now' - now') % ClockWrap = 0
    BY <1>0, <1>2, NoWrap
  <2>4. /\ filter' \in Filter /\ filter'.inited /\ filter'.debounceMs = DefaultMs
        /\ filter'.stable = filter.stable /\ filter'.candidate = raw /\ filter'.sinceMs = now'
    BY <1>2, <1>5, <2>1 DEF FilterInv, FilterTypeOK, Filter
  <2>5. /\ seen'.ran = TRUE /\ seen'.raw = raw /\ seen'.held = 0
        /\ seen'.settled = seen.settled
    BY <2>2
  <2>6. seen.settled \in BOOLEAN /\ filter.stable = seen.settled
    BY <1>5 DEF FilterInv
  <2>7. /\ seen'.raw \in BOOLEAN /\ seen'.settled \in BOOLEAN /\ seen'.held \in 0..DefaultMs
        /\ filter'.candidate = seen'.raw /\ filter'.stable = seen'.settled
        /\ (now' - filter'.sinceMs) % ClockWrap = seen'.held /\ seen'.held < DefaultMs
    BY <1>0, <2>3, <2>4, <2>5, <2>6
  <2>. QED BY <1>2, <1>3, <2>4, <2>5, <2>7, FilterRead
<1>6. CASE filter.inited /\ raw = filter.candidate
  <2> DEFINE held == UpToDefault(seen.held + gap)
  <2>1. First(raw, now') = filter /\ filter \in Filter /\ filter.debounceMs = DefaultMs
    BY <1>6 DEF First, FilterInv, FilterTypeOK
  <2>2. filter' = IF Elapsed(filter, now') THEN [filter EXCEPT !.stable = filter.candidate]
                  ELSE filter
    BY <1>3, <1>6, <2>1 DEF Filtered
  <2>3. seen' = [ran |-> TRUE, raw |-> raw, held |-> held,
                 settled |-> IF held = DefaultMs THEN raw ELSE seen.settled]
    BY <1>3, <1>6 DEF Readings, FilterInv
  <2>4. held \in 0..DefaultMs /\ (held < DefaultMs => held = seen.held + gap)
        /\ (held = DefaultMs <=> seen.held + gap >= DefaultMs)
    BY <1>0 DEF UpToDefault, FilterInv
  <2>5. /\ seen'.ran = TRUE /\ seen'.raw = raw /\ seen'.held = held
        /\ seen'.settled = IF held = DefaultMs THEN raw ELSE seen.settled
    BY <2>3
  <2>6. seen.settled \in BOOLEAN /\ filter.stable = seen.settled
    BY <1>6 DEF FilterInv
  <2>7. CASE filter.stable = filter.candidate
    <3>1. filter' = filter
      BY <2>1, <2>2, <2>7 DEF Filter
    <3>. QED BY <1>2, <1>3, <1>6, <2>1, <2>4, <2>5, <2>6, <2>7, <3>1, FilterRead
  <2>8. CASE filter.stable # filter.candidate
    <3>1. (now - filter.sinceMs) % ClockWrap = seen.held /\ seen.held < DefaultMs
      BY <1>6, <2>8 DEF FilterInv, Counting
    <3>2. (now' - filter.sinceMs) % ClockWrap = seen.held + gap
      <4>1. now \in 0..(ClockWrap - 1) /\ filter.sinceMs \in 0..(ClockWrap - 1)
        BY <2>1 DEF Filter, FilterInv, FilterTypeOK
      <4>. QED BY <1>2, <3>1, <4>1, ElapsedGrows
    <3>3. Elapsed(filter, now') <=> held = DefaultMs
      BY <2>1, <2>4, <3>2 DEF Elapsed
    <3>4. CASE held = DefaultMs
      <4>1. filter' = [filter EXCEPT !.stable = filter.candidate]
        BY <2>2, <3>3, <3>4
      <4>2. /\ filter' \in Filter /\ filter'.inited /\ filter'.debounceMs = DefaultMs
            /\ filter'.stable = raw /\ filter'.candidate = raw
        BY <1>6, <2>1, <4>1 DEF Filter
      <4>. QED BY <1>2, <1>3, <2>4, <2>5, <3>4, <4>2, FilterRead
    <3>5. CASE held # DefaultMs
      <4>1. filter' = filter /\ held < DefaultMs /\ held = seen.held + gap
        BY <1>0, <2>2, <2>4, <3>3, <3>5
      <4>. QED BY <1>2, <1>3, <1>6, <2>1, <2>4, <2>5, <2>6, <3>2, <3>5, <4>1, FilterRead
    <3>. QED BY <3>4, <3>5
  <2>. QED BY <2>7, <2>8
<1>. QED BY <1>4, <1>5, <1>6

LEMMA ResetKeeps ==
    ASSUME FilterInv, plc_io_reset_runtime
    PROVE  FilterInv'
<1>1. 0 \in 0..DefaultMs
  BY FilterAssumption
<1>. QED BY <1>1, ClearedFilter, Zenon DEF plc_io_reset_runtime, FilterInv, FilterTypeOK

LEMMA FilterInvStep == FilterInv /\ [FilterNext]_filterVars => FilterInv'
<1>1. FilterInv /\ UNCHANGED filterVars => FilterInv'
  BY DEF filterVars, FilterInv, FilterTypeOK, Counting
<1>. QED BY <1>1, ReadKeeps, ResetKeeps DEF FilterNext

\* The clock stays in its range, for any range that a gap and the time fit in.
THEOREM FilterTypeCorrect == FilterSpec => []FilterTypeOK
<1>1. FilterInv => FilterTypeOK
  BY DEF FilterInv
<1>. QED BY FilterStarts, FilterInvStep, <1>1, PTL DEF FilterSpec

\* A node shows the last value that was read without a change for the whole debounce
\* time, across the wrap of the clock.
THEOREM ShowsSettledAlways == FilterSpec => []ShowsSettled
<1>1. FilterInv => ShowsSettled
  BY DEF FilterInv, ShowsSettled
<1>. QED BY FilterStarts, FilterInvStep, <1>1, PTL DEF FilterSpec

-----------------------------------------------------------------------------
(* The event ring                                                          *)

\* The head is where the tail gets to when all events are popped.
RingInv == RingTypeOK /\ s_head = (s_tail + s_count) % Capacity

QueueOf(ring, tail, n) == [i \in 1..n |-> ring[(tail + i - 1) % Capacity]]

TheQueue == QueueOf(s_events, s_tail, s_count)

LEMMA AppendIs ==
    ASSUME NEW S, NEW q \in Seq(S), NEW e \in S
    PROVE  Append(q, e) = [i \in 1..(Len(q) + 1) |-> IF i = Len(q) + 1 THEN e ELSE q[i]]
<1> DEFINE a == Append(q, e)
<1>1. /\ a \in Seq(S) /\ Len(a) = Len(q) + 1
      /\ \A i \in 1..Len(q) : a[i] = q[i]
      /\ a[Len(q) + 1] = e
  BY AppendProperties
<1>2. Len(q) \in Nat
  BY LenProperties
<1> HIDE DEF a
<1>3. a = [i \in 1..(Len(q) + 1) |-> a[i]]
  BY <1>1, LenProperties
<1>4. ASSUME NEW i \in 1..(Len(q) + 1)
      PROVE  a[i] = IF i = Len(q) + 1 THEN e ELSE q[i]
  <2>1. i # Len(q) + 1 => i \in 1..Len(q)
    BY <1>2
  <2>. QED BY <1>1, <2>1
<1>. QED BY <1>3, <1>4, Zenon DEF a

LEMMA TailIs ==
    ASSUME NEW S, NEW q \in Seq(S), q # <<>>
    PROVE  Tail(q) = [i \in 1..(Len(q) - 1) |-> q[i + 1]]
<1> DEFINE t == Tail(q)
<1>1. t \in Seq(S) /\ Len(t) = Len(q) - 1 /\ \A i \in 1..Len(t) : t[i] = q[i + 1]
  BY HeadTailProperties
<1> HIDE DEF t
<1>2. t = [i \in 1..(Len(q) - 1) |-> t[i]]
  BY <1>1, LenProperties
<1>. QED BY <1>1, <1>2, Zenon DEF t

\* The slot that is n slots after t.
LEMMA SlotAfter ==
    ASSUME NEW t \in Slots, NEW n \in 0..Capacity
    PROVE  /\ (t + n) % Capacity \in Slots
           /\ (t + n) % Capacity = IF t + n < Capacity THEN t + n ELSE t + n - Capacity
<1>1. Capacity \in Nat \ {0} /\ t \in 0..(Capacity - 1)
  BY RingAssumption DEF Slots
<1>2. CASE t + n < Capacity
  <2>1. (t + n) % Capacity = t + n
    BY <1>1, <1>2, NoWrap
  <2>. QED BY <1>1, <1>2, <2>1 DEF Slots
<1>3. CASE t + n >= Capacity
  <2>1. (t + n) % Capacity = t + n - Capacity
    <3>1. t + n \in Capacity..(2 * Capacity - 1)
      BY <1>1, <1>3
    <3> DEFINE x == t + n
    <3> HIDE DEF x
    <3>2. x \in Capacity..(2 * Capacity - 1)
      BY <3>1 DEF x
    <3>3. x % Capacity = x - Capacity
      BY <1>1, <3>2, WrapsOnce
    <3>. QED BY <1>1, <3>1, <3>2, <3>3 DEF x
  <2>. QED BY <1>1, <1>3, <2>1 DEF Slots
<1>. QED BY <1>1, <1>2, <1>3

\* The next slot, seen from the slot before.
LEMMA SlotAfterNext ==
    ASSUME NEW t \in Slots, NEW n \in 0..(Capacity - 1)
    PROVE  (((t + 1) % Capacity) + n) % Capacity = (t + n + 1) % Capacity
<1>1. Capacity \in Nat \ {0} /\ t \in 0..(Capacity - 1) /\ 1 \in 0..Capacity
      /\ n \in 0..Capacity /\ n + 1 \in 0..Capacity
  BY RingAssumption DEF Slots
<1> DEFINE u == (t + 1) % Capacity
<1>2. u \in 0..(Capacity - 1) /\ u = IF t + 1 < Capacity THEN t + 1 ELSE t + 1 - Capacity
  BY <1>1, SlotAfter DEF Slots
<1>3. (t + (n + 1)) % Capacity = IF t + (n + 1) < Capacity THEN t + (n + 1)
                                 ELSE t + (n + 1) - Capacity
  BY <1>1, SlotAfter DEF Slots
<1> HIDE DEF u
<1>4. (u + n) % Capacity = IF u + n < Capacity THEN u + n ELSE u + n - Capacity
  BY <1>1, <1>2, SlotAfter DEF Slots
<1>5. t + n + 1 = t + (n + 1)
  BY <1>1
<1>6. (u + n) % Capacity = (t + (n + 1)) % Capacity
  BY <1>1, <1>2, <1>3, <1>4
<1>. QED BY <1>5, <1>6 DEF u

LEMMA QueueIsSeq ==
    ASSUME RingTypeOK
    PROVE  /\ TheQueue \in Seq(Events \cup {NoEvent})
           /\ Len(TheQueue) = s_count /\ s_count \in 0..Capacity /\ Capacity \in Nat \ {0}
           /\ \A i \in 1..s_count : TheQueue[i] = s_events[(s_tail + i - 1) % Capacity]
<1>1. Capacity \in Nat \ {0} /\ s_count \in 0..Capacity /\ s_tail \in Slots
  BY RingAssumption DEF RingTypeOK
<1>2. ASSUME NEW i \in 1..s_count
      PROVE  s_events[(s_tail + i - 1) % Capacity] \in Events \cup {NoEvent}
  <2>1. i - 1 \in 0..Capacity /\ s_tail + i - 1 = s_tail + (i - 1)
    BY <1>1 DEF Slots
  <2>2. (s_tail + i - 1) % Capacity \in Slots
    BY <1>1, <2>1, SlotAfter
  <2>. QED BY <2>2 DEF RingTypeOK
<1>. QED BY <1>1, <1>2 DEF TheQueue, QueueOf

LEMMA PushIsQueueStep ==
    ASSUME RingInv, NEW e \in Events, plc_event_push(e)
    PROVE  TheQueue' = Append(IF Len(TheQueue) = Capacity THEN Tail(TheQueue) ELSE TheQueue, e)
<1>1. /\ Capacity \in Nat \ {0} /\ s_count \in 0..Capacity /\ s_tail \in Slots /\ s_head \in Slots
      /\ s_events \in [Slots -> Events \cup {NoEvent}] /\ s_head = (s_tail + s_count) % Capacity
      /\ Len(TheQueue) = s_count /\ TheQueue \in Seq(Events \cup {NoEvent})
  BY QueueIsSeq DEF RingInv, RingTypeOK
<1>2. /\ s_events' = [s_events EXCEPT ![s_head] = e] /\ s_tail' = TailAfterPush
      /\ s_count' = CountAfterPush
  BY DEF plc_event_push
<1>3. CASE s_count < Capacity
  <2>1. s_tail' = s_tail /\ s_count' = s_count + 1
    BY <1>2, <1>3 DEF TailAfterPush, CountAfterPush
  <2>2. TheQueue' = QueueOf(s_events', s_tail, s_count + 1)
    BY <2>1 DEF TheQueue
  <2>3. ASSUME NEW i \in 1..s_count
        PROVE  s_events'[(s_tail + i - 1) % Capacity] = TheQueue[i]
    <3>1. i - 1 \in 0..Capacity /\ s_tail + i - 1 = s_tail + (i - 1)
      BY <1>1 DEF Slots
    <3>2. /\ (s_tail + (i - 1)) % Capacity \in Slots
          /\ (s_tail + (i - 1)) % Capacity = IF s_tail + (i - 1) < Capacity THEN s_tail + (i - 1)
                                             ELSE s_tail + (i - 1) - Capacity
      BY <1>1, <3>1, SlotAfter
    <3>3. s_head = IF s_tail + s_count < Capacity THEN s_tail + s_count
                   ELSE s_tail + s_count - Capacity
      BY <1>1, SlotAfter
    <3>4. (s_tail + (i - 1)) % Capacity # s_head
      BY <1>1, <1>3, <3>2, <3>3 DEF Slots
    <3>. QED BY <1>1, <1>2, <3>1, <3>2, <3>4, QueueIsSeq DEF RingInv
  <2>4. s_events'[(s_tail + (s_count + 1) - 1) % Capacity] = e
    <3>1. s_tail + (s_count + 1) - 1 = s_tail + s_count
      BY <1>1 DEF Slots
    <3>. QED BY <1>1, <1>2, <3>1
  <2>5. Append(TheQueue, e) = [i \in 1..(s_count + 1) |-> IF i = s_count + 1 THEN e ELSE TheQueue[i]]
    BY <1>1, AppendIs, e \in Events \cup {NoEvent}
  <2>6. ASSUME NEW i \in 1..(s_count + 1)
        PROVE  s_events'[(s_tail + i - 1) % Capacity] = IF i = s_count + 1 THEN e ELSE TheQueue[i]
    <3>1. CASE i = s_count + 1
      BY <2>4, <3>1
    <3>2. CASE i # s_count + 1
      <4>1. i \in 1..s_count
        BY <1>1, <3>2
      <4>. QED BY <2>3, <3>2, <4>1
    <3>. QED BY <3>1, <3>2
  <2>7. TheQueue' = Append(TheQueue, e)
    BY <2>2, <2>5, <2>6, Zenon DEF QueueOf
  <2>. QED BY <1>1, <1>3, <2>7
<1>4. CASE s_count = Capacity
  <2>1. s_tail' = (s_tail + 1) % Capacity /\ s_count' = Capacity
    BY <1>1, <1>2, <1>4 DEF TailAfterPush, CountAfterPush
  <2>2. s_head = s_tail
    <3>1. s_head = IF s_tail + s_count < Capacity THEN s_tail + s_count
                   ELSE s_tail + s_count - Capacity
      BY <1>1, SlotAfter
    <3>. QED BY <1>1, <1>4, <3>1 DEF Slots
  <2>3. TheQueue' = QueueOf(s_events', (s_tail + 1) % Capacity, Capacity)
    BY <2>1 DEF TheQueue
  <2>4. ASSUME NEW i \in 1..(Capacity - 1)
        PROVE  s_events'[(((s_tail + 1) % Capacity) + i - 1) % Capacity] = TheQueue[i + 1]
    <3>1. i - 1 \in 0..(Capacity - 1) /\ i \in 0..Capacity /\ s_tail + (i - 1) + 1 = s_tail + i
          /\ s_tail + (i + 1) - 1 = s_tail + i /\ i + 1 \in 1..s_count
      BY <1>1, <1>4 DEF Slots
    <3>2. (s_tail + 1) % Capacity \in Slots
      BY <1>1, SlotAfter
    <3>3. ((s_tail + 1) % Capacity) + i - 1 = ((s_tail + 1) % Capacity) + (i - 1)
      BY <3>2 DEF Slots
    <3>4. (((s_tail + 1) % Capacity) + i - 1) % Capacity = (s_tail + i) % Capacity
      BY <1>1, <3>1, <3>3, SlotAfterNext
    <3>5. (s_tail + i) % Capacity # s_head /\ (s_tail + i) % Capacity \in Slots
      <4>1. /\ (s_tail + i) % Capacity \in Slots
            /\ (s_tail + i) % Capacity = IF s_tail + i < Capacity THEN s_tail + i
                                         ELSE s_tail + i - Capacity
        BY <1>1, <3>1, SlotAfter
      <4>. QED BY <1>1, <2>2, <4>1 DEF Slots
    <3>6. TheQueue[i + 1] = s_events[(s_tail + i) % Capacity]
      BY <3>1, QueueIsSeq DEF RingInv
    <3>. QED BY <1>1, <1>2, <3>4, <3>5, <3>6
  <2>5. s_events'[(((s_tail + 1) % Capacity) + Capacity - 1) % Capacity] = e
    <3>1. (s_tail + 1) % Capacity \in Slots /\ Capacity - 1 \in 0..(Capacity - 1)
          /\ s_tail + (Capacity - 1) + 1 = s_tail + Capacity
      BY <1>1, SlotAfter DEF Slots
    <3>2. ((s_tail + 1) % Capacity) + Capacity - 1 = ((s_tail + 1) % Capacity) + (Capacity - 1)
      BY <1>1, <3>1 DEF Slots
    <3>3. (((s_tail + 1) % Capacity) + Capacity - 1) % Capacity = s_head
      <4>1. (((s_tail + 1) % Capacity) + (Capacity - 1)) % Capacity
                = (s_tail + (Capacity - 1) + 1) % Capacity
        BY <1>1, <3>1, SlotAfterNext
      <4>. QED BY <1>1, <1>4, <3>1, <3>2, <4>1
    <3>. QED BY <1>1, <1>2, <3>3
  <2>6. Append(Tail(TheQueue), e)
            = [i \in 1..Capacity |-> IF i = Capacity THEN e ELSE TheQueue[i + 1]]
    <3> DEFINE t == Tail(TheQueue)
    <3>1. TheQueue # <<>>
      BY <1>1, <1>4
    <3>2. t \in Seq(Events \cup {NoEvent}) /\ Len(t) = Capacity - 1
          /\ \A i \in 1..Len(t) : t[i] = TheQueue[i + 1]
      BY <1>1, <1>4, <3>1, HeadTailProperties
    <3> HIDE DEF t
    <3>3. Append(t, e) = [i \in 1..(Len(t) + 1) |-> IF i = Len(t) + 1 THEN e ELSE t[i]]
      BY <3>2, AppendIs, e \in Events \cup {NoEvent}
    <3>4. Len(t) + 1 = Capacity /\ \A i \in 1..Capacity : i # Capacity => i \in 1..Len(t)
      BY <1>1, <3>2
    <3>5. ASSUME NEW i \in 1..Capacity
          PROVE  (IF i = Len(t) + 1 THEN e ELSE t[i]) = IF i = Capacity THEN e ELSE TheQueue[i + 1]
      BY <3>2, <3>4
    <3>. QED BY <3>3, <3>4, <3>5, Zenon DEF t
  <2>7. ASSUME NEW i \in 1..Capacity
        PROVE  s_events'[(((s_tail + 1) % Capacity) + i - 1) % Capacity]
                   = IF i = Capacity THEN e ELSE TheQueue[i + 1]
    <3>1. CASE i = Capacity
      BY <2>5, <3>1
    <3>2. CASE i # Capacity
      <4>1. i \in 1..(Capacity - 1)
        BY <1>1, <3>2
      <4>. QED BY <2>4, <3>2, <4>1
    <3>. QED BY <3>1, <3>2
  <2>8. TheQueue' = Append(Tail(TheQueue), e)
    BY <2>3, <2>6, <2>7, Zenon DEF QueueOf
  <2>. QED BY <1>1, <1>4, <2>8
<1>. QED BY <1>1, <1>3, <1>4

LEMMA PopIsQueueStep ==
    ASSUME RingInv, plc_event_pop, s_count > 0
    PROVE  TheQueue # <<>> /\ answer' = Head(TheQueue) /\ TheQueue' = Tail(TheQueue)
<1>1. /\ Capacity \in Nat \ {0} /\ s_count \in 1..Capacity /\ s_tail \in Slots
      /\ Len(TheQueue) = s_count /\ TheQueue \in Seq(Events \cup {NoEvent})
  BY QueueIsSeq DEF RingInv, RingTypeOK
<1>2. /\ answer' = s_events[s_tail] /\ s_tail' = (s_tail + 1) % Capacity
      /\ s_count' = s_count - 1 /\ s_events' = s_events
  BY <1>1 DEF plc_event_pop
<1>3. TheQueue # <<>> /\ Head(TheQueue) = TheQueue[1]
  BY <1>1
<1>4. TheQueue[1] = s_events[s_tail]
  <2>1. s_tail + 1 - 1 = s_tail /\ 1 \in 1..s_count
    BY <1>1 DEF Slots
  <2>2. s_tail % Capacity = s_tail
    BY <1>1, NoWrap DEF Slots
  <2>. QED BY <2>1, <2>2, QueueIsSeq DEF RingInv
<1>5. TheQueue' = QueueOf(s_events, (s_tail + 1) % Capacity, s_count - 1)
  BY <1>2 DEF TheQueue
<1>6. Tail(TheQueue) = [i \in 1..(s_count - 1) |-> TheQueue[i + 1]]
  BY <1>1, <1>3, TailIs
<1>7. ASSUME NEW i \in 1..(s_count - 1)
      PROVE  s_events[(((s_tail + 1) % Capacity) + i - 1) % Capacity] = TheQueue[i + 1]
  <2>1. i - 1 \in 0..(Capacity - 1) /\ s_tail + (i - 1) + 1 = s_tail + i
        /\ s_tail + (i + 1) - 1 = s_tail + i /\ i + 1 \in 1..s_count
    BY <1>1 DEF Slots
  <2>2. (s_tail + 1) % Capacity \in Slots
    BY <1>1, SlotAfter
  <2>3. ((s_tail + 1) % Capacity) + i - 1 = ((s_tail + 1) % Capacity) + (i - 1)
    BY <2>2 DEF Slots
  <2>4. (((s_tail + 1) % Capacity) + i - 1) % Capacity = (s_tail + i) % Capacity
    BY <1>1, <2>1, <2>3, SlotAfterNext
  <2>. QED BY <2>1, <2>4, QueueIsSeq DEF RingInv
<1>8. TheQueue' = Tail(TheQueue)
  BY <1>5, <1>6, <1>7, Zenon DEF QueueOf
<1>. QED BY <1>2, <1>3, <1>4, <1>8

LEMMA RingStarts == RingInit => RingInv
<1>1. Capacity \in Nat \ {0} /\ 0 \in Slots
  BY RingAssumption DEF Slots
<1>2. (0 + 0) % Capacity = 0
  BY <1>1, NoWrap
<1>. QED BY <1>1, <1>2 DEF RingInit, RingInv, RingTypeOK

LEMMA RingInvStep == RingInv /\ [RingNext]_ringVars => RingInv'
<1> SUFFICES ASSUME RingInv, [RingNext]_ringVars
             PROVE  RingInv'
  OBVIOUS
<1>1. /\ Capacity \in Nat \ {0} /\ s_count \in 0..Capacity /\ s_tail \in Slots /\ s_head \in Slots
      /\ s_events \in [Slots -> Events \cup {NoEvent}] /\ s_head = (s_tail + s_count) % Capacity
      /\ answer \in Events \cup {NoEvent} /\ 0 \in Slots /\ 1 \in 0..Capacity
  BY RingAssumption DEF RingInv, RingTypeOK, Slots
<1>2. (s_tail + 1) % Capacity \in Slots /\ (s_head + 1) % Capacity \in Slots
  BY <1>1, SlotAfter
<1>3. ASSUME NEW e \in Events, plc_event_push(e)
      PROVE  RingInv'
  <2>1. /\ s_events' = [s_events EXCEPT ![s_head] = e] /\ s_head' = (s_head + 1) % Capacity
        /\ s_tail' = TailAfterPush /\ s_count' = CountAfterPush /\ answer' = answer
    BY <1>3 DEF plc_event_push
  <2>2. s_events' \in [Slots -> Events \cup {NoEvent}] /\ s_head' \in Slots /\ answer' = answer
    BY <1>1, <1>2, <2>1
  <2>3. CASE s_count < Capacity
    <3>1. s_tail' = s_tail /\ s_count' = s_count + 1
      BY <2>1, <2>3 DEF TailAfterPush, CountAfterPush
    <3>2. (s_tail + (s_count + 1)) % Capacity = IF s_tail + (s_count + 1) < Capacity
              THEN s_tail + (s_count + 1) ELSE s_tail + (s_count + 1) - Capacity
      <4>1. s_count + 1 \in 0..Capacity
        BY <1>1, <2>3
      <4>. QED BY <1>1, <4>1, SlotAfter
    <3>3. s_head = IF s_tail + s_count < Capacity THEN s_tail + s_count
                   ELSE s_tail + s_count - Capacity
      BY <1>1, SlotAfter
    <3>4. (s_head + 1) % Capacity = IF s_head + 1 < Capacity THEN s_head + 1
                                    ELSE s_head + 1 - Capacity
      BY <1>1, SlotAfter
    <3>5. s_head' = (s_tail' + s_count') % Capacity
      BY <1>1, <2>1, <3>1, <3>2, <3>3, <3>4 DEF Slots
    <3>6. s_tail' \in Slots /\ s_count' \in 0..Capacity
      BY <1>1, <2>3, <3>1
    <3>. QED BY <1>1, <2>2, <3>5, <3>6, Zenon DEF RingInv, RingTypeOK
  <2>4. CASE s_count = Capacity
    <3>1. s_tail' = (s_tail + 1) % Capacity /\ s_count' = Capacity
      BY <1>1, <2>1, <2>4 DEF TailAfterPush, CountAfterPush
    <3>2. s_head = s_tail
      <4>1. s_head = IF s_tail + s_count < Capacity THEN s_tail + s_count
                     ELSE s_tail + s_count - Capacity
        BY <1>1, SlotAfter
      <4>. QED BY <1>1, <2>4, <4>1 DEF Slots
    <3>3. s_tail' \in Slots /\ s_count' \in 0..Capacity /\ s_head' = s_tail'
      BY <1>1, <1>2, <2>1, <3>1, <3>2
    <3>4. (s_tail' + s_count') % Capacity = s_tail'
      BY <1>1, <3>1, <3>3, SlotAfter DEF Slots
    <3>. QED BY <1>1, <2>2, <3>3, <3>4, Zenon DEF RingInv, RingTypeOK
  <2>. QED BY <1>1, <2>3, <2>4
<1>4. CASE plc_event_pop /\ s_count = 0
  BY <1>1, <1>4 DEF plc_event_pop, RingInv, RingTypeOK
<1>5. CASE plc_event_pop /\ s_count > 0
  <2>1. /\ answer' = s_events[s_tail] /\ s_tail' = (s_tail + 1) % Capacity
        /\ s_count' = s_count - 1 /\ s_events' = s_events /\ s_head' = s_head
    BY <1>1, <1>5 DEF plc_event_pop
  <2>2. s_tail' \in Slots /\ s_count' \in 0..(Capacity - 1) /\ answer' \in Events \cup {NoEvent}
    BY <1>1, <1>2, <1>5, <2>1
  <2>3. (((s_tail + 1) % Capacity) + (s_count - 1)) % Capacity = (s_tail + (s_count - 1) + 1) % Capacity
    <3>1. s_count - 1 \in 0..(Capacity - 1)
      BY <1>1, <1>5
    <3>. QED BY <1>1, <3>1, SlotAfterNext
  <2>4. s_tail + (s_count - 1) + 1 = s_tail + s_count
    BY <1>1 DEF Slots
  <2>5. s_head' = (s_tail' + s_count') % Capacity
    BY <1>1, <2>1, <2>3, <2>4
  <2>6. s_count' \in 0..Capacity
    BY <1>1, <2>2
  <2>. QED BY <1>1, <2>1, <2>2, <2>5, <2>6, Zenon DEF RingInv, RingTypeOK
<1>6. CASE plc_event_clear
  <2>1. (0 + 0) % Capacity = 0
    BY <1>1, NoWrap
  <2>. QED BY <1>1, <1>6, <2>1 DEF plc_event_clear, RingInv, RingTypeOK
<1>7. CASE UNCHANGED ringVars
  BY <1>7 DEF ringVars, RingInv, RingTypeOK
<1>8. plc_event_pop => s_count = 0 \/ s_count > 0
  BY <1>1
<1>. QED BY <1>3, <1>4, <1>5, <1>6, <1>7, <1>8 DEF RingNext

\* The indices stay in an array of any length.
THEOREM RingTypeCorrect == RingSpec => []RingTypeOK
<1>1. RingInv => RingTypeOK
  BY DEF RingInv
<1>. QED BY RingStarts, RingInvStep, <1>1, PTL DEF RingSpec

\* A ring of any length is a queue that drops the oldest event when it is full, wherever
\* head and tail have wrapped.
THEOREM RingImplementsQueue == RingSpec => ImplementsQueue
<1>1. RingInit => Queue!Init
  BY DEF RingInit, Queue!Init
<1>2. RingInv /\ [RingNext]_ringVars => [Queue!Next]_<<TheQueue, answer>>
  <2> SUFFICES ASSUME RingInv, [RingNext]_ringVars
               PROVE  [Queue!Next]_<<TheQueue, answer>>
    OBVIOUS
  <2>0. s_count \in Nat /\ Len(TheQueue) = s_count /\ TheQueue \in Seq(Events \cup {NoEvent})
    BY QueueIsSeq DEF RingInv
  <2>1. ASSUME NEW e \in Events, plc_event_push(e)
        PROVE  Queue!Push(e)
    <3>1. answer' = answer
      BY <2>1 DEF plc_event_push
    <3>. QED BY <2>1, <3>1, PushIsQueueStep DEF Queue!Push, TheQueue, QueueOf
  <2>2. CASE plc_event_pop /\ s_count > 0
    <3>1. Queue!Pop <=>
              \/ TheQueue # <<>> /\ answer' = Head(TheQueue) /\ TheQueue' = Tail(TheQueue)
              \/ TheQueue = <<>> /\ answer' = NoEvent /\ UNCHANGED TheQueue
      BY Zenon DEF Queue!Pop, TheQueue, QueueOf
    <3>. QED BY <2>2, <3>1, PopIsQueueStep, Zenon DEF Queue!Next
  <2>3. CASE plc_event_pop /\ ~(s_count > 0)
    <3>1. answer' = NoEvent /\ s_events' = s_events /\ s_tail' = s_tail /\ s_count' = s_count
      BY <2>0, <2>3 DEF plc_event_pop
    <3>2. TheQueue' = TheQueue
      BY <3>1 DEF TheQueue
    <3>3. TheQueue = <<>>
      BY <2>0, <2>3
    <3>4. Queue!Pop <=>
              \/ TheQueue # <<>> /\ answer' = Head(TheQueue) /\ TheQueue' = Tail(TheQueue)
              \/ TheQueue = <<>> /\ answer' = NoEvent /\ UNCHANGED TheQueue
      BY Zenon DEF Queue!Pop, TheQueue, QueueOf
    <3>. QED BY <3>1, <3>2, <3>3, <3>4, Zenon DEF Queue!Next
  <2>4. CASE plc_event_clear
    <3>1. s_count' = 0 /\ answer' = answer
      BY <2>4 DEF plc_event_clear
    <3>2. TheQueue' = <<>>
      BY <3>1 DEF TheQueue, QueueOf
    <3>3. Queue!Clear <=> TheQueue' = <<>> /\ UNCHANGED answer
      BY Zenon DEF Queue!Clear, TheQueue, QueueOf
    <3>. QED BY <3>1, <3>2, <3>3, Zenon DEF Queue!Next
  <2>5. CASE UNCHANGED ringVars
    BY <2>5 DEF ringVars, TheQueue, QueueOf
  <2>. QED BY <2>1, <2>2, <2>3, <2>4, <2>5 DEF RingNext, Queue!Next
<1>. QED BY <1>1, <1>2, RingStarts, RingInvStep, PTL
         DEF RingSpec, ImplementsQueue, Queue!Spec, TheQueue, QueueOf

-----------------------------------------------------------------------------
(* The nodes with a memory                                                 *)

History ==
    /\ history.ran \in BOOLEAN /\ history.a \in BOOLEAN /\ history.b \in BOOLEAN
    /\ history.apart \in BOOLEAN /\ history.dt \in 0..DtMax
    /\ history.held \in 0..Long /\ history.gone \in 0..Long /\ history.age \in 0..Long
    /\ history.count \in 0..AccMax

\* An on-delay has counted for how long its input has been on, up to the delay.
TonInv ==
    /\ self.ton_active = history.a
    /\ self.ton_accum_ms = IF ~history.a THEN 0
                           ELSE IF history.held >= param THEN param ELSE history.held
    /\ history.ran => (self.out <=> self.ton_accum_ms >= param)

\* An off-delay holds for what is left of the time since its input went off.
ToffInv ==
    /\ history.a => self.toff_holding /\ history.gone = 0
    /\ ~history.a => (self.toff_holding <=> history.gone < param)
    /\ self.toff_left_ms = IF self.toff_holding THEN param - history.gone ELSE 0
    /\ history.ran => (self.out <=> history.a \/ self.toff_holding)

\* A pulse has one step less left than it shows.
TpInv ==
    /\ self.trig_prev = history.a
    /\ self.toff_holding <=> history.age + history.dt < param
    /\ self.toff_left_ms = IF self.toff_holding THEN param - (history.age + history.dt) ELSE 0
    /\ history.age + history.dt >= 1
    /\ history.ran => (self.out <=> history.age = 0 \/ history.age < param)

\* A heartbeat that keeps up stands where the time stands in its two half-periods.
HeartbeatInv ==
    KeepsUp =>
        /\ self.log_accum_ms < param
        /\ history.clock = self.log_accum_ms + (IF self.out THEN param ELSE 0)

CtudInv ==
    /\ self.prev_clk = (history.a \/ history.b)
    /\ history.apart => self.acc = history.count

MemoryInv ==
    /\ type = "TON" => TonInv
    /\ type = "TOFF" => ToffInv
    /\ type = "TP" => TpInv
    /\ type = "HEARTBEAT" => HeartbeatInv
    /\ type = "CTUD" => CtudInv

NodesInv == config \in Configs /\ self \in Runtime /\ History /\ MemoryInv

LEMMA ConstantsOK ==
    /\ DtMax \in Nat \ {0} /\ Wrap \in Nat \ {0} /\ AccMax \in Nat /\ Long \in Nat
BY NodesAssumption

LEMMA TimeOK ==
    ASSUME config \in Configs
    PROVE  /\ type \in Delays => param \in 0..(Long - 1) /\ param + DtMax < Wrap
           /\ type = "HEARTBEAT" => param \in 0..(Wrap - 1)
BY NodesAssumption DEF type, param

\* What a timer remembers keeps its times within its parameter, with room for a step.
LEMMA TimesFit == NodesInv => NodesTypeOK
<1> SUFFICES ASSUME NodesInv
             PROVE  NodesTypeOK
  OBVIOUS
<1>1. config \in Configs /\ self \in Runtime /\ History /\ MemoryInv
  BY DEF NodesInv
<1>2. /\ self.log_accum_ms \in 0..(Wrap - 1)
      /\ history.held \in 0..Long /\ history.gone \in 0..Long
      /\ history.age \in 0..Long /\ history.dt \in 0..DtMax
  BY <1>1 DEF Runtime, History
<1>3. ASSUME type = "TON"
      PROVE  self.ton_accum_ms <= param /\ self.ton_accum_ms + DtMax < Wrap
  <2>1. TonInv /\ param \in 0..(Long - 1) /\ param + DtMax < Wrap
    BY <1>1, <1>3, TimeOK DEF MemoryInv, Delays
  <2>2. self.ton_accum_ms \in 0..param
    BY <1>2, <2>1, ConstantsOK DEF TonInv
  <2>. QED BY <2>1, <2>2, ConstantsOK
<1>4. ASSUME type = "TOFF"
      PROVE  self.toff_left_ms <= param
  <2>1. ToffInv /\ param \in 0..(Long - 1)
    BY <1>1, <1>4, TimeOK DEF MemoryInv, Delays
  <2>. QED BY <1>2, <2>1, ConstantsOK DEF ToffInv
<1>5. ASSUME type = "TP"
      PROVE  self.toff_left_ms <= param
  <2>1. TpInv /\ param \in 0..(Long - 1)
    BY <1>1, <1>5, TimeOK DEF MemoryInv, Delays
  <2>. QED BY <1>2, <2>1, ConstantsOK DEF TpInv
<1>6. ASSUME type = "HEARTBEAT", KeepsUp
      PROVE  self.log_accum_ms < param /\ self.log_accum_ms + DtMax < Wrap
  <2>1. self.log_accum_ms < param /\ param \in 0..(Wrap - 1)
    BY <1>1, <1>6, TimeOK DEF MemoryInv, HeartbeatInv
  <2>. QED BY <1>2, <1>6, <2>1, ConstantsOK DEF KeepsUp
<1>. QED BY <1>1, <1>3, <1>4, <1>5, <1>6 DEF NodesTypeOK

LEMMA NodesStart == NodesInit => NodesInv
<1> SUFFICES ASSUME NodesInit
             PROVE  NodesInv
  OBVIOUS
<1>1. config \in Configs /\ self \in Runtime
  <2>1. 0 \in 0..(Wrap - 1) /\ 0 \in 0..AccMax
    BY ConstantsOK
  <2>. QED BY <2>1, Zenon DEF NodesInit, Runtime
<1>2. /\ history.ran = FALSE /\ history.a = FALSE /\ history.b = FALSE /\ history.dt = 0
      /\ history.held = 0 /\ history.gone = Long /\ history.age = Long
      /\ history.clock = 0 /\ history.count = 0 /\ history.apart = TRUE
  <2>1. history = Nothing
    BY DEF NodesInit
  <2>. QED BY <2>1 DEF Nothing
<1>3. History
  <2>1. 0 \in 0..DtMax /\ 0 \in 0..Long /\ Long \in 0..Long /\ 0 \in 0..AccMax
    BY ConstantsOK
  <2>. QED BY <1>2, <2>1, Zenon DEF History
<1>4. /\ self.out = FALSE /\ self.ton_active = FALSE /\ self.ton_accum_ms = 0
      /\ self.toff_holding = FALSE /\ self.toff_left_ms = 0 /\ self.trig_prev = FALSE
      /\ self.log_accum_ms = 0 /\ self.acc = 0 /\ self.prev_clk = FALSE
  BY DEF NodesInit
<1>5. type \in Delays => param \in 0..(Long - 1)
  BY <1>1, TimeOK
<1>6. type = "TON" => TonInv
  BY <1>2, <1>4 DEF TonInv
<1>7. type = "TOFF" => ToffInv
  BY <1>2, <1>4, <1>5, ConstantsOK DEF ToffInv, Delays
<1>8. type = "TP" => TpInv
  <2>1. type = "TP" => ~(Long + 0 < param) /\ Long + 0 >= 1
    BY <1>5, ConstantsOK DEF Delays
  <2>. QED BY <1>2, <1>4, <2>1 DEF TpInv
<1>9. type = "HEARTBEAT" => HeartbeatInv
  <2>1. type = "HEARTBEAT" => param \in Nat
    BY <1>1, TimeOK, ConstantsOK
  <2>. QED BY <1>2, <1>4, <2>1, ConstantsOK DEF HeartbeatInv, KeepsUp
<1>10. type = "CTUD" => CtudInv
  BY <1>2, <1>4 DEF CtudInv
<1>. QED BY <1>1, <1>3, <1>6, <1>7, <1>8, <1>9, <1>10, Zenon DEF NodesInv, MemoryInv

\* History, one scan later.
LEMMA SeenIs ==
    ASSUME NEW a, NEW b, NEW dt, history' = Seen(history, a, b, dt)
    PROVE  /\ history'.ran = TRUE
           /\ history'.a = a
           /\ history'.b = b
           /\ history'.dt = dt
           /\ history'.held = IF a /\ history.a THEN Capped(history.held + dt) ELSE 0
           /\ history'.gone = IF a THEN 0 ELSE Capped(history.gone + dt)
           /\ history'.age = IF a /\ ~history.a THEN 0 ELSE Capped(history.age + history.dt)
           /\ history'.clock = IF param > 0 THEN (history.clock + dt) % (2 * param) ELSE 0
           /\ history'.count = IF a /\ ~history.a THEN Up(history.count)
                               ELSE IF b /\ ~history.b THEN Down(history.count) ELSE history.count
           /\ history'.apart = (history.apart /\ ~((a \/ history.a) /\ (b \/ history.b)))
<1>1. history'.ran = TRUE /\ history'.a = a /\ history'.b = b /\ history'.dt = dt
  BY DEF Seen
<1>2. history'.held = IF a /\ history.a THEN Capped(history.held + dt) ELSE 0
  BY DEF Seen
<1>3. history'.gone = IF a THEN 0 ELSE Capped(history.gone + dt)
  BY DEF Seen
<1>4. history'.age = IF a /\ ~history.a THEN 0 ELSE Capped(history.age + history.dt)
  BY DEF Seen
<1>5. history'.clock = IF param > 0 THEN (history.clock + dt) % (2 * param) ELSE 0
  BY DEF Seen
<1>6. history'.count = IF a /\ ~history.a THEN Up(history.count)
                      ELSE IF b /\ ~history.b THEN Down(history.count) ELSE history.count
  BY DEF Seen
<1>7. history'.apart = (history.apart /\ ~((a \/ history.a) /\ (b \/ history.b)))
  BY DEF Seen
<1>. QED BY <1>1, <1>2, <1>3, <1>4, <1>5, <1>6, <1>7

LEMMA CappedIs ==
    ASSUME NEW t \in Nat
    PROVE  /\ Capped(t) \in 0..Long
           /\ t <= Long => Capped(t) = t
           /\ t > Long => Capped(t) = Long
BY ConstantsOK DEF Capped

LEMMA CounterOK ==
    ASSUME NEW n \in 0..AccMax
    PROVE  Up(n) \in 0..AccMax /\ Down(n) \in 0..AccMax
BY ConstantsOK DEF Up, Down

LEMMA HistoryKept ==
    ASSUME History, NEW a \in BOOLEAN, NEW b \in BOOLEAN, NEW dt \in 1..DtMax,
           history' = Seen(history, a, b, dt)
    PROVE  History'
<1>1. dt \in 0..DtMax /\ 0 \in 0..Long /\ dt \in Nat /\ history.dt \in Nat
      /\ history.held + dt \in Nat /\ history.gone + dt \in Nat /\ history.age + history.dt \in Nat
  BY ConstantsOK DEF History
<1>2. /\ Capped(history.held + dt) \in 0..Long /\ Capped(history.gone + dt) \in 0..Long
      /\ Capped(history.age + history.dt) \in 0..Long
  BY <1>1, CappedIs
<1>3. history'.held \in 0..Long /\ history'.gone \in 0..Long /\ history'.age \in 0..Long
  <2>1. history'.held = Capped(history.held + dt) \/ history'.held = 0
    <3>1. history'.held = IF a /\ history.a THEN Capped(history.held + dt) ELSE 0
      BY SeenIs
    <3>. QED BY <3>1, Zenon
  <2>2. history'.gone = Capped(history.gone + dt) \/ history'.gone = 0
    BY SeenIs
  <2>3. history'.age = Capped(history.age + history.dt) \/ history'.age = 0
    BY SeenIs
  <2>. QED BY <1>1, <1>2, <2>1, <2>2, <2>3, Zenon
<1>4. history'.count \in 0..AccMax
  BY CounterOK, SeenIs, Zenon DEF History
<1>5. history'.ran \in BOOLEAN /\ history'.a \in BOOLEAN /\ history'.b \in BOOLEAN
      /\ history'.apart \in BOOLEAN /\ history'.dt \in 0..DtMax
  <2>1. history'.apart \in BOOLEAN
    BY SeenIs
  <2>. QED BY <1>1, <2>1, SeenIs
<1>. QED BY <1>3, <1>4, <1>5, Zenon DEF History

\* One scan of an on-delay.
LEMMA TonScan ==
    ASSUME NodesInv, type = "TON", NEW a \in BOOLEAN, NEW b \in BOOLEAN, NEW dt \in 1..DtMax,
           history' = Seen(history, a, b, dt), self' = plc_node_exec_ton(self, a, dt),
           config' = config
    PROVE  self' \in Runtime /\ TonInv'
<1> DEFINE counted == (self.ton_accum_ms + dt) % Wrap
           accum == IF ~a \/ ~self.ton_active THEN 0
                    ELSE IF self.ton_accum_ms >= param THEN self.ton_accum_ms
                    ELSE IF counted > param THEN param ELSE counted
<1>1. /\ self \in Runtime /\ History /\ TonInv /\ param \in 0..(Long - 1)
      /\ param + DtMax < Wrap /\ param' = param
  BY TimeOK DEF NodesInv, MemoryInv, Delays, param
<1>2. self.ton_accum_ms \in 0..(Wrap - 1) /\ dt \in 1..DtMax /\ history.held \in 0..Long
  BY <1>1 DEF Runtime, History
<1>3. self.ton_accum_ms < param => counted = self.ton_accum_ms + dt
  <2>1. self.ton_accum_ms < param => self.ton_accum_ms + dt \in 0..(Wrap - 1)
    BY <1>1, <1>2, ConstantsOK
  <2>. QED BY <2>1, NoWrap, ConstantsOK
<1>4. counted \in 0..(Wrap - 1)
  <2>1. self.ton_accum_ms + dt \in Int
    BY <1>2, ConstantsOK
  <2>. QED BY <2>1, Wrapped, ConstantsOK
<1> HIDE DEF counted
<1>5. accum \in 0..(Wrap - 1)
  BY <1>1, <1>2, <1>4, ConstantsOK
<1>6. self' = [self EXCEPT !.ton_active = a, !.ton_accum_ms = accum, !.out = accum >= param]
  BY DEF plc_node_exec_ton, counted
<1> HIDE DEF accum
<1>7. (accum >= param) \in BOOLEAN
  OBVIOUS
<1>8. self' \in Runtime
  BY <1>1, <1>5, <1>6, <1>7, Zenon DEF Runtime
<1>9. /\ self'.ton_active = a /\ self'.ton_accum_ms = accum /\ self'.out = (accum >= param)
  BY <1>1, <1>6 DEF Runtime
<1>10. accum = IF ~a THEN 0 ELSE IF history'.held >= param THEN param ELSE history'.held
  <2>1. CASE ~a \/ ~history.a
    <3>1. accum = 0
      BY <1>1, <2>1 DEF accum, TonInv
    <3>2. history'.held = 0
      BY <2>1, SeenIs
    <3>. QED BY <1>1, <3>1, <3>2
  <2>2. CASE a /\ history.a
    <3>0. history.held + dt \in Nat
      BY <1>2, ConstantsOK
    <3>1. history'.held = Capped(history.held + dt)
      BY <2>2, SeenIs
    <3>2. /\ history.held + dt <= Long => history'.held = history.held + dt
          /\ history.held + dt > Long => history'.held = Long
      BY <3>0, <3>1, CappedIs
    <3>3. accum = IF self.ton_accum_ms >= param THEN self.ton_accum_ms
                  ELSE IF counted > param THEN param ELSE counted
      BY <1>1, <2>2 DEF accum, TonInv
    <3>4. self.ton_accum_ms = IF history.held >= param THEN param ELSE history.held
      BY <1>1, <2>2 DEF TonInv
    <3>5. history'.held >= param <=> history.held + dt >= param
      BY <1>1, <1>2, <3>2, ConstantsOK
    <3>6. CASE history.held >= param
      <4>1. accum = param /\ history'.held >= param
        BY <1>1, <1>2, <3>3, <3>4, <3>5, <3>6, ConstantsOK
      <4>. QED BY <2>2, <4>1
    <3>7. CASE ~(history.held >= param)
      <4>1. self.ton_accum_ms = history.held /\ history.held < param
        BY <1>1, <1>2, <3>4, <3>7
      <4>2. accum = IF history.held + dt > param THEN param ELSE history.held + dt
        BY <1>1, <1>2, <1>3, <3>3, <4>1
      <4>3. history.held + dt < param => history'.held = history.held + dt
        BY <1>1, <1>2, <3>2, ConstantsOK
      <4>4. accum = IF history'.held >= param THEN param ELSE history'.held
        BY <1>1, <1>2, <3>5, <4>2, <4>3, ConstantsOK
      <4>. QED BY <2>2, <4>4
    <3>. QED BY <3>6, <3>7
  <2>. QED BY <2>1, <2>2
<1>11. TonInv'
  <2>1. history'.a = a
    BY SeenIs
  <2>. QED BY <1>1, <1>9, <1>10, <2>1, Zenon DEF TonInv
<1>. QED BY <1>8, <1>11

\* RunDown, field by field.
LEMMA RunDownIs ==
    ASSUME NEW s \in Runtime, NEW dt \in 1..DtMax
    PROVE  /\ RunDown(s, dt) \in Runtime
           /\ RunDown(s, dt).toff_holding <=> s.toff_holding /\ s.toff_left_ms > dt
           /\ RunDown(s, dt).toff_left_ms = IF ~s.toff_holding THEN s.toff_left_ms
                                            ELSE IF s.toff_left_ms > dt THEN s.toff_left_ms - dt
                                            ELSE 0
           /\ RunDown(s, dt).out = s.out
           /\ RunDown(s, dt).trig_prev = s.trig_prev
<1> DEFINE left == s.toff_left_ms
<1>0. left \in 0..(Wrap - 1) /\ 0 \in 0..(Wrap - 1) /\ dt \in 1..DtMax
  BY ConstantsOK DEF Runtime
<1>1. CASE ~s.toff_holding
  BY <1>1 DEF RunDown
<1>2. CASE s.toff_holding /\ left <= dt
  <2>1. RunDown(s, dt) = [s EXCEPT !.toff_holding = FALSE, !.toff_left_ms = 0]
    BY <1>2 DEF RunDown
  <2>2. RunDown(s, dt) \in Runtime
    BY <1>0, <2>1, Zenon DEF Runtime
  <2>3. /\ RunDown(s, dt).toff_holding = FALSE /\ RunDown(s, dt).toff_left_ms = 0
        /\ RunDown(s, dt).out = s.out /\ RunDown(s, dt).trig_prev = s.trig_prev
    BY <2>1 DEF Runtime
  <2>4. ~(left > dt)
    BY <1>0, <1>2, ConstantsOK
  <2>. QED BY <1>2, <2>2, <2>3, <2>4
<1>3. CASE s.toff_holding /\ ~(left <= dt)
  <2>1. RunDown(s, dt) = [s EXCEPT !.toff_left_ms = left - dt]
    BY <1>3 DEF RunDown
  <2>2. left - dt \in 0..(Wrap - 1) /\ left > dt
    BY <1>0, <1>3, ConstantsOK
  <2>3. RunDown(s, dt) \in Runtime
    BY <2>1, <2>2, Zenon DEF Runtime
  <2>4. /\ RunDown(s, dt).toff_holding = s.toff_holding
        /\ RunDown(s, dt).toff_left_ms = left - dt
        /\ RunDown(s, dt).out = s.out /\ RunDown(s, dt).trig_prev = s.trig_prev
    BY <2>1 DEF Runtime
  <2>. QED BY <1>3, <2>2, <2>3, <2>4
<1>. QED BY <1>1, <1>2, <1>3

LEMMA HoldingIs ==
    ASSUME NEW s \in Runtime, NEW left \in 0..(Wrap - 1)
    PROVE  /\ Holding(s, left) \in Runtime
           /\ Holding(s, left).toff_holding = TRUE
           /\ Holding(s, left).toff_left_ms = left
           /\ Holding(s, left).out = s.out
           /\ Holding(s, left).trig_prev = s.trig_prev
BY DEF Holding, Runtime

\* One scan of an off-delay.
LEMMA ToffScan ==
    ASSUME NodesInv, type = "TOFF", NEW a \in BOOLEAN, NEW b \in BOOLEAN, NEW dt \in 1..DtMax,
           history' = Seen(history, a, b, dt), self' = plc_node_exec_toff(self, a, dt),
           config' = config
    PROVE  self' \in Runtime /\ ToffInv'
<1> DEFINE n == IF a THEN Holding(self, param) ELSE RunDown(self, dt)
<1>1. /\ self \in Runtime /\ History /\ ToffInv /\ param \in 0..(Long - 1)
      /\ param + DtMax < Wrap /\ param' = param
  BY TimeOK DEF NodesInv, MemoryInv, Delays, param
<1>2. param \in 0..(Wrap - 1) /\ history.gone \in 0..Long /\ dt \in 1..DtMax
  BY <1>1, ConstantsOK DEF History
<1>3. self' = [n EXCEPT !.out = (a \/ n.toff_holding)]
  BY DEF plc_node_exec_toff
<1>4. n \in Runtime
  BY <1>1, <1>2, HoldingIs, RunDownIs
<1> HIDE DEF n
<1>5. (a \/ n.toff_holding) \in BOOLEAN
  OBVIOUS
<1>6. self' \in Runtime
  BY <1>3, <1>4, <1>5, Zenon DEF Runtime
<1>7. /\ self'.toff_holding = n.toff_holding /\ self'.toff_left_ms = n.toff_left_ms
      /\ self'.out = (a \/ n.toff_holding)
  BY <1>3, <1>4 DEF Runtime
<1>8. history'.ran = TRUE /\ history'.a = a
  BY SeenIs
<1>9. CASE a
  <2>1. n.toff_holding /\ n.toff_left_ms = param
    BY <1>1, <1>2, <1>9, HoldingIs DEF n
  <2>2. history'.gone = 0
    BY <1>9, SeenIs
  <2>3. self'.toff_left_ms = param - history'.gone
    BY <1>1, <1>7, <2>1, <2>2
  <2>4. ToffInv'
    BY <1>1, <1>7, <1>8, <1>9, <2>1, <2>2, <2>3 DEF ToffInv
  <2>. QED BY <1>6, <2>4
<1>10. CASE ~a
  <2>1. /\ n.toff_holding <=> self.toff_holding /\ self.toff_left_ms > dt
        /\ n.toff_left_ms = IF ~self.toff_holding THEN self.toff_left_ms
                            ELSE IF self.toff_left_ms > dt THEN self.toff_left_ms - dt ELSE 0
    BY <1>1, <1>10, RunDownIs DEF n
  <2>2. history.gone + dt \in Nat
    BY <1>2, ConstantsOK
  <2>3. history'.gone = Capped(history.gone + dt)
    BY <1>10, SeenIs
  <2>4. /\ history.gone + dt <= Long => history'.gone = history.gone + dt
        /\ history.gone + dt > Long => history'.gone = Long
    BY <2>2, <2>3, CappedIs
  <2>5. history'.gone < param <=> history.gone + dt < param
    BY <1>1, <1>2, <2>4, ConstantsOK
  <2>6. self.toff_left_ms = IF self.toff_holding THEN param - history.gone ELSE 0
    BY <1>1 DEF ToffInv
  <2>7. history.gone < param => self.toff_holding
    BY <1>1, <1>2 DEF ToffInv
  <2>8. n.toff_holding <=> history'.gone < param
    BY <1>1, <1>2, <2>1, <2>5, <2>6, <2>7, ConstantsOK
  <2>9. n.toff_left_ms = IF n.toff_holding THEN param - history'.gone ELSE 0
    BY <1>1, <1>2, <2>1, <2>4, <2>5, <2>6, <2>8, ConstantsOK
  <2>10. ToffInv'
    BY <1>1, <1>7, <1>8, <1>10, <2>8, <2>9 DEF ToffInv
  <2>. QED BY <1>6, <2>10
<1>. QED BY <1>9, <1>10

\* One scan of a pulse.
LEMMA TpScan ==
    ASSUME NodesInv, type = "TP", NEW a \in BOOLEAN, NEW b \in BOOLEAN, NEW dt \in 1..DtMax,
           history' = Seen(history, a, b, dt), self' = plc_node_exec_tp(self, a, dt),
           config' = config
    PROVE  self' \in Runtime /\ TpInv'
<1> DEFINE n == IF a /\ ~self.trig_prev THEN Holding(self, param) ELSE self
           m == [n EXCEPT !.trig_prev = a, !.out = n.toff_holding]
<1>1. /\ self \in Runtime /\ History /\ TpInv /\ param \in 0..(Long - 1)
      /\ param + DtMax < Wrap /\ param' = param
  BY TimeOK DEF NodesInv, MemoryInv, Delays, param
<1>2. /\ param \in 0..(Wrap - 1) /\ history.age \in 0..Long /\ history.dt \in 0..DtMax
      /\ dt \in 1..DtMax
  BY <1>1, ConstantsOK DEF History
<1>3. self' = RunDown(m, dt)
  BY DEF plc_node_exec_tp
<1>4. n \in Runtime
  BY <1>1, <1>2, HoldingIs
<1>5. n.toff_holding \in BOOLEAN
  BY <1>4 DEF Runtime
<1>6. IF a /\ ~history.a THEN n.toff_holding = TRUE /\ n.toff_left_ms = param ELSE n = self
  BY <1>1, <1>2, HoldingIs DEF TpInv
<1> HIDE DEF n
<1>7. m \in Runtime
  BY <1>4, <1>5, Zenon DEF Runtime
<1>8. /\ m.toff_holding = n.toff_holding /\ m.toff_left_ms = n.toff_left_ms
      /\ m.out = n.toff_holding /\ m.trig_prev = a
  BY <1>4 DEF Runtime
<1> HIDE DEF m
<1>9. /\ self' \in Runtime
      /\ self'.toff_holding <=> n.toff_holding /\ n.toff_left_ms > dt
      /\ self'.toff_left_ms = IF ~n.toff_holding THEN n.toff_left_ms
                              ELSE IF n.toff_left_ms > dt THEN n.toff_left_ms - dt ELSE 0
      /\ self'.out = n.toff_holding /\ self'.trig_prev = a
  BY <1>3, <1>7, <1>8, RunDownIs
<1>10. /\ history'.ran = TRUE /\ history'.a = a /\ history'.dt = dt
       /\ history'.age = IF a /\ ~history.a THEN 0 ELSE Capped(history.age + history.dt)
  BY SeenIs
<1>11. CASE a /\ ~history.a
  <2>1. history'.age = 0 /\ n.toff_holding = TRUE /\ n.toff_left_ms = param
    BY <1>6, <1>10, <1>11
  <2>2. self'.toff_holding <=> history'.age + history'.dt < param
    BY <1>1, <1>2, <1>9, <1>10, <2>1, ConstantsOK
  <2>3. self'.toff_left_ms = IF self'.toff_holding
                              THEN param - (history'.age + history'.dt) ELSE 0
    BY <1>1, <1>2, <1>9, <1>10, <2>1, ConstantsOK
  <2>4. history'.age + history'.dt >= 1
    BY <1>2, <1>10, <2>1, ConstantsOK
  <2>5. self'.out <=> history'.age = 0 \/ history'.age < param
    BY <1>9, <2>1
  <2>6. TpInv'
    BY <1>1, <1>9, <1>10, <2>2, <2>3, <2>4, <2>5 DEF TpInv
  <2>. QED BY <1>9, <2>6
<1>12. CASE ~(a /\ ~history.a)
  <2>0. history.age + history.dt \in Nat
    BY <1>2, ConstantsOK
  <2>1. n = self /\ history'.age = Capped(history.age + history.dt)
    BY <1>6, <1>10, <1>12
  <2>2. /\ history.age + history.dt <= Long => history'.age = history.age + history.dt
        /\ history.age + history.dt > Long => history'.age = Long
    BY <2>0, <2>1, CappedIs
  <2>3. n.toff_holding <=> history'.age < param
    BY <1>1, <1>2, <2>1, <2>2, ConstantsOK DEF TpInv
  <2>4. n.toff_left_ms = IF n.toff_holding THEN param - history'.age ELSE 0
    BY <1>1, <1>2, <2>1, <2>2, <2>3, ConstantsOK DEF TpInv
  <2>5. history'.age \in 0..Long
    BY <1>2, <2>0, <2>2, ConstantsOK
  <2>6. self'.toff_holding <=> history'.age + history'.dt < param
    BY <1>1, <1>2, <1>9, <1>10, <2>3, <2>4, <2>5, ConstantsOK
  <2>7. self'.toff_left_ms = IF self'.toff_holding
                              THEN param - (history'.age + history'.dt) ELSE 0
    BY <1>1, <1>2, <1>9, <1>10, <2>3, <2>4, <2>5, ConstantsOK
  <2>8. history'.age + history'.dt >= 1
    BY <1>2, <1>10, <2>5, ConstantsOK
  <2>9. self'.out <=> history'.age < param
    BY <1>9, <2>3
  <2>10. history'.age # 0
    BY <1>1, <1>2, <2>2, ConstantsOK DEF TpInv
  <2>11. TpInv'
    BY <1>1, <1>9, <1>10, <2>6, <2>7, <2>8, <2>9, <2>10 DEF TpInv
  <2>. QED BY <1>9, <2>11
<1>. QED BY <1>11, <1>12

\* One scan of a heartbeat.
LEMMA HeartbeatScan ==
    ASSUME NodesInv, type = "HEARTBEAT", NEW a \in BOOLEAN, NEW b \in BOOLEAN, NEW dt \in 1..DtMax,
           history' = Seen(history, a, b, dt), self' = plc_node_exec_heartbeat(self, dt),
           config' = config
    PROVE  self' \in Runtime /\ HeartbeatInv'
<1> DEFINE accum == (self.log_accum_ms + dt) % Wrap
<1>1. /\ self \in Runtime /\ HeartbeatInv /\ param \in 0..(Wrap - 1)
      /\ param' = param /\ (KeepsUp' <=> KeepsUp)
  BY TimeOK DEF NodesInv, MemoryInv, KeepsUp, param
<1>2. self.log_accum_ms \in 0..(Wrap - 1) /\ self.out \in BOOLEAN /\ dt \in 1..DtMax
  BY <1>1 DEF Runtime
<1>3. self' = IF accum >= param THEN [self EXCEPT !.log_accum_ms = accum - param, !.out = ~@]
              ELSE [self EXCEPT !.log_accum_ms = accum]
  BY DEF plc_node_exec_heartbeat
<1>4. accum \in 0..(Wrap - 1)
  <2>1. self.log_accum_ms + dt \in Int
    BY <1>2, ConstantsOK
  <2>. QED BY <2>1, Wrapped, ConstantsOK
<1>5. KeepsUp /\ self.log_accum_ms < param => accum = self.log_accum_ms + dt
  <2>1. KeepsUp /\ self.log_accum_ms < param => self.log_accum_ms + dt \in 0..(Wrap - 1)
    BY <1>1, <1>2, ConstantsOK DEF KeepsUp
  <2>. QED BY <2>1, NoWrap, ConstantsOK
<1> HIDE DEF accum
<1>6. CASE accum >= param
  <2>1. self' = [self EXCEPT !.log_accum_ms = accum - param, !.out = ~self.out]
    BY <1>3, <1>6
  <2>2. accum - param \in 0..(Wrap - 1) /\ (~self.out) \in BOOLEAN
    BY <1>1, <1>4, <1>6, ConstantsOK
  <2>3. self' \in Runtime
    BY <1>1, <2>1, <2>2, Zenon DEF Runtime
  <2>4. self'.log_accum_ms = accum - param /\ self'.out = ~self.out
    BY <1>1, <2>1 DEF Runtime
  <2>5. ASSUME KeepsUp
        PROVE  /\ self'.log_accum_ms < param
               /\ history'.clock = self'.log_accum_ms + (IF self'.out THEN param ELSE 0)
    <3>1. /\ self.log_accum_ms < param
          /\ history.clock = self.log_accum_ms + (IF self.out THEN param ELSE 0)
      BY <1>1, <2>5 DEF HeartbeatInv
    <3>2. accum = self.log_accum_ms + dt /\ self'.log_accum_ms < param
      BY <1>1, <1>2, <1>5, <2>4, <2>5, <3>1, ConstantsOK DEF KeepsUp
    <3>3. param > 0 /\ 2 * param \in Nat \ {0}
      BY <1>1, <2>5, ConstantsOK DEF KeepsUp
    <3> DEFINE d == 2 * param
               x == history.clock + dt
    <3>4. history'.clock = x % d
      BY <3>3, SeenIs
    <3>5. d \in Nat \ {0} /\ d = param + param
      BY <1>1, <3>3
    <3> HIDE DEF d
    <3>6. CASE self.out
      <4>1. x = self.log_accum_ms + param + dt
        BY <1>1, <1>2, <3>1, <3>6
      <4> HIDE DEF x
      <4>2. x \in d..(2 * d - 1)
        BY <1>1, <1>2, <1>6, <2>5, <3>1, <3>2, <3>5, <4>1, ConstantsOK DEF KeepsUp
      <4>3. x % d = x - d
        BY <3>5, <4>2, WrapsOnce
      <4>4. ~self'.out
        BY <1>2, <2>4, <3>6
      <4>. QED BY <1>1, <1>2, <2>4, <3>2, <3>4, <3>5, <4>1, <4>3, <4>4
    <3>7. CASE ~self.out
      <4>1. x = self.log_accum_ms + dt
        BY <1>1, <1>2, <3>1, <3>7
      <4> HIDE DEF x
      <4>2. x \in 0..(d - 1)
        BY <1>1, <1>2, <2>5, <3>1, <3>5, <4>1, ConstantsOK DEF KeepsUp
      <4>3. x % d = x
        BY <3>5, <4>2, NoWrap
      <4>4. self'.out
        BY <1>2, <2>4, <3>7
      <4>. QED BY <1>1, <1>2, <2>4, <3>2, <3>4, <3>5, <4>1, <4>3, <4>4
    <3>. QED BY <3>2, <3>6, <3>7
  <2>. QED BY <1>1, <2>3, <2>5 DEF HeartbeatInv
<1>7. CASE ~(accum >= param)
  <2>1. self' = [self EXCEPT !.log_accum_ms = accum]
    BY <1>3, <1>7
  <2>2. self' \in Runtime
    BY <1>1, <1>4, <2>1, Zenon DEF Runtime
  <2>3. self'.log_accum_ms = accum /\ self'.out = self.out
    BY <1>1, <2>1 DEF Runtime
  <2>4. ASSUME KeepsUp
        PROVE  /\ self'.log_accum_ms < param
               /\ history'.clock = self'.log_accum_ms + (IF self'.out THEN param ELSE 0)
    <3>1. /\ self.log_accum_ms < param
          /\ history.clock = self.log_accum_ms + (IF self.out THEN param ELSE 0)
      BY <1>1, <2>4 DEF HeartbeatInv
    <3>2. accum = self.log_accum_ms + dt /\ self'.log_accum_ms < param
      BY <1>1, <1>2, <1>4, <1>5, <1>7, <2>3, <2>4, <3>1
    <3>3. param > 0 /\ 2 * param \in Nat \ {0}
      BY <1>1, <2>4, ConstantsOK DEF KeepsUp
    <3> DEFINE d == 2 * param
               x == history.clock + dt
    <3>4. history'.clock = x % d
      BY <3>3, SeenIs
    <3>5. d \in Nat \ {0} /\ d = param + param
      BY <1>1, <3>3
    <3> HIDE DEF d
    <3>6. x = accum + (IF self.out THEN param ELSE 0)
      BY <1>1, <1>2, <3>1, <3>2
    <3> HIDE DEF x
    <3>7. x \in 0..(d - 1)
      BY <1>1, <1>4, <1>7, <3>5, <3>6
    <3>8. x % d = x
      BY <3>5, <3>7, NoWrap
    <3>. QED BY <2>3, <3>2, <3>4, <3>6, <3>8
  <2>. QED BY <1>1, <2>2, <2>4 DEF HeartbeatInv
<1>. QED BY <1>6, <1>7

\* One scan of a counter with one clock.
LEMMA CounterScan ==
    ASSUME NodesInv, NEW clk \in BOOLEAN, NEW rst \in BOOLEAN
    PROVE  /\ plc_node_exec_ctu(self, clk, rst) \in Runtime
           /\ type = "CTD" => plc_node_exec_ctd(self, clk, rst) \in Runtime
<1>1. self \in Runtime /\ self.acc \in 0..AccMax
  BY DEF NodesInv, Runtime
<1>2. plc_node_exec_ctu(self, clk, rst) \in Runtime
  <2> DEFINE acc == IF rst THEN 0 ELSE self.acc
             n == IF clk /\ ~self.prev_clk THEN Up(acc) ELSE acc
  <2>1. acc \in 0..AccMax
    BY <1>1, ConstantsOK
  <2> HIDE DEF acc
  <2>2. n \in 0..AccMax
    BY <2>1, CounterOK
  <2>3. plc_node_exec_ctu(self, clk, rst) = [self EXCEPT !.acc = n, !.prev_clk = clk]
    BY DEF plc_node_exec_ctu, acc
  <2> HIDE DEF n
  <2>. QED BY <1>1, <2>2, <2>3, Zenon DEF Runtime
<1>3. ASSUME type = "CTD"
      PROVE  plc_node_exec_ctd(self, clk, rst) \in Runtime
  <2> DEFINE acc == IF ~rst THEN self.acc ELSE IF param < 0 THEN 0 ELSE param
             n == IF clk /\ ~self.prev_clk THEN Down(acc) ELSE acc
  <2>1. param \in Int /\ param <= AccMax
    BY <1>3, NodesAssumption DEF NodesInv, type, param
  <2>2. acc \in 0..AccMax
    BY <1>1, <2>1, ConstantsOK
  <2> HIDE DEF acc
  <2>3. n \in 0..AccMax
    BY <2>2, CounterOK
  <2>4. plc_node_exec_ctd(self, clk, rst) = [self EXCEPT !.acc = n, !.prev_clk = clk]
    BY DEF plc_node_exec_ctd, acc
  <2> HIDE DEF n
  <2>. QED BY <1>1, <2>3, <2>4, Zenon DEF Runtime
<1>. QED BY <1>2, <1>3

\* One scan of a counter with two clocks.
LEMMA CtudScan ==
    ASSUME NodesInv, type = "CTUD", NEW a \in BOOLEAN, NEW b \in BOOLEAN, NEW dt \in 1..DtMax,
           history' = Seen(history, a, b, dt), self' = plc_node_exec_ctud(self, a, b)
    PROVE  self' \in Runtime /\ CtudInv'
<1> DEFINE rising == (a \/ b) /\ ~self.prev_clk
           n == IF rising /\ a /\ ~b THEN Up(self.acc)
                ELSE IF rising /\ b /\ ~a THEN Down(self.acc) ELSE self.acc
<1>1. self \in Runtime /\ History /\ CtudInv /\ self.acc \in 0..AccMax
  BY DEF NodesInv, MemoryInv, Runtime
<1>2. n \in 0..AccMax
  BY <1>1, CounterOK
<1>3. self' = [self EXCEPT !.prev_clk = (a \/ b), !.acc = n]
  BY DEF plc_node_exec_ctud, AnyClock
<1>4. (a \/ b) \in BOOLEAN
  OBVIOUS
<1> HIDE DEF n
<1>5. self' \in Runtime
  BY <1>1, <1>2, <1>3, <1>4, Zenon DEF Runtime
<1>6. self'.prev_clk = (a \/ b) /\ self'.acc = n
  BY <1>1, <1>3 DEF Runtime
<1>7. /\ history'.a = a /\ history'.b = b
      /\ history'.count = IF a /\ ~history.a THEN Up(history.count)
                          ELSE IF b /\ ~history.b THEN Down(history.count) ELSE history.count
  BY SeenIs
<1>8. history'.apart => history.apart /\ ~((a \/ history.a) /\ (b \/ history.b))
  BY SeenIs
<1>9. self'.prev_clk = (history'.a \/ history'.b)
  BY <1>6, <1>7
<1>10. self.prev_clk <=> history.a \/ history.b
  BY <1>1 DEF CtudInv
<1>11. ASSUME history'.apart
       PROVE  self'.acc = history'.count
  <2>1. self.acc = history.count /\ ~((a \/ history.a) /\ (b \/ history.b))
    BY <1>1, <1>8, <1>11 DEF CtudInv
  <2>2. CASE a /\ ~history.a
    BY <1>6, <1>7, <1>10, <2>1, <2>2, Zenon DEF n
  <2>3. CASE ~(a /\ ~history.a) /\ b /\ ~history.b
    BY <1>6, <1>7, <1>10, <2>1, <2>3, Zenon DEF n
  <2>4. CASE ~(a /\ ~history.a) /\ ~(b /\ ~history.b)
    BY <1>6, <1>7, <1>10, <2>1, <2>4, Zenon DEF n
  <2>. QED BY <2>2, <2>3, <2>4
<1>. QED BY <1>5, <1>9, <1>11 DEF CtudInv

LEMMA NodesScan == NodesInv /\ Scan => NodesInv'
<1> SUFFICES ASSUME NodesInv, Scan
             PROVE  NodesInv'
  OBVIOUS
<1>1. PICK a \in BOOLEAN, b \in BOOLEAN, dt \in 1..DtMax :
         self' = exec(self, a, b, dt) /\ history' = Seen(history, a, b, dt) /\ config' = config
  BY DEF Scan
<1>2. History' /\ config' \in Configs /\ config' = config /\ type' = type
  BY <1>1, HistoryKept DEF NodesInv, type
<1>3. type \in Types
  BY NodesAssumption DEF NodesInv, type
<1>4. CASE type = "TON"
  <2>1. self' = plc_node_exec_ton(self, a, dt)
    BY <1>1, <1>4 DEF exec
  <2>2. self' \in Runtime /\ TonInv'
    BY <1>1, <1>4, <2>1, TonScan
  <2>. QED BY <1>2, <1>4, <2>2 DEF NodesInv, MemoryInv
<1>5. CASE type = "TOFF"
  <2>1. self' = plc_node_exec_toff(self, a, dt)
    BY <1>1, <1>5 DEF exec
  <2>2. self' \in Runtime /\ ToffInv'
    BY <1>1, <1>5, <2>1, ToffScan
  <2>. QED BY <1>2, <1>5, <2>2 DEF NodesInv, MemoryInv
<1>6. CASE type = "TP"
  <2>1. self' = plc_node_exec_tp(self, a, dt)
    BY <1>1, <1>6 DEF exec
  <2>2. self' \in Runtime /\ TpInv'
    BY <1>1, <1>6, <2>1, TpScan
  <2>. QED BY <1>2, <1>6, <2>2 DEF NodesInv, MemoryInv
<1>7. CASE type = "HEARTBEAT"
  <2>1. self' = plc_node_exec_heartbeat(self, dt)
    BY <1>1, <1>7 DEF exec
  <2>2. self' \in Runtime /\ HeartbeatInv'
    BY <1>1, <1>7, <2>1, HeartbeatScan
  <2>. QED BY <1>2, <1>7, <2>2 DEF NodesInv, MemoryInv
<1>8. CASE type = "CTU"
  <2>1. self' = plc_node_exec_ctu(self, a, b)
    BY <1>1, <1>8 DEF exec
  <2>2. self' \in Runtime
    BY <2>1, CounterScan
  <2>. QED BY <1>2, <1>8, <2>2 DEF NodesInv, MemoryInv
<1>9. CASE type = "CTD"
  <2>1. self' = plc_node_exec_ctd(self, a, b)
    BY <1>1, <1>9 DEF exec
  <2>2. self' \in Runtime
    BY <1>9, <2>1, CounterScan
  <2>. QED BY <1>2, <1>9, <2>2 DEF NodesInv, MemoryInv
<1>10. CASE type = "CTUD"
  <2>1. self' = plc_node_exec_ctud(self, a, b)
    BY <1>1, <1>10 DEF exec
  <2>2. self' \in Runtime /\ CtudInv'
    BY <1>1, <1>10, <2>1, CtudScan
  <2>. QED BY <1>2, <1>10, <2>2 DEF NodesInv, MemoryInv
<1>. QED BY <1>3, <1>4, <1>5, <1>6, <1>7, <1>8, <1>9, <1>10 DEF Types, Timers, Delays

\* An activation leaves a node like those the first graph is given.
LEMMA ActivateResets ==
    ASSUME NodesInv, Activate
    PROVE  NodesInit'
<1>1. self \in Runtime
  BY DEF NodesInv
<1>2. plc_node_reset_runtime =
          [out |-> FALSE, ton_active |-> FALSE, ton_accum_ms |-> 0,
           toff_holding |-> FALSE, toff_left_ms |-> 0,
           trig_prev |-> FALSE, log_accum_ms |-> 0, acc |-> 0, prev_clk |-> FALSE]
  <2> DEFINE r == plc_node_reset_runtime
  <2>1. r = [self EXCEPT !.out = FALSE, !.trig_prev = FALSE, !.ton_active = FALSE,
                         !.ton_accum_ms = 0, !.toff_holding = FALSE, !.toff_left_ms = 0,
                         !.log_accum_ms = 0, !.acc = 0, !.prev_clk = FALSE]
    BY DEF plc_node_reset_runtime
  <2> HIDE DEF r
  <2>2. 0 \in 0..(Wrap - 1) /\ 0 \in 0..AccMax
    BY ConstantsOK
  <2>3. r \in Runtime
    BY <1>1, <2>1, <2>2, Zenon DEF Runtime
  <2>4. /\ r.out = FALSE /\ r.trig_prev = FALSE /\ r.ton_active = FALSE
        /\ r.ton_accum_ms = 0 /\ r.toff_holding = FALSE /\ r.toff_left_ms = 0
        /\ r.log_accum_ms = 0 /\ r.acc = 0 /\ r.prev_clk = FALSE
    BY <1>1, <2>1 DEF Runtime
  <2>5. r = [out |-> r.out, ton_active |-> r.ton_active, ton_accum_ms |-> r.ton_accum_ms,
             toff_holding |-> r.toff_holding, toff_left_ms |-> r.toff_left_ms,
             trig_prev |-> r.trig_prev, log_accum_ms |-> r.log_accum_ms, acc |-> r.acc,
             prev_clk |-> r.prev_clk]
    BY <2>3, Zenon DEF Runtime
  <2>. QED BY <2>4, <2>5, Zenon DEF r
<1>. QED BY <1>2 DEF Activate, NodesInit

LEMMA NodesInvStep == NodesInv /\ [NodesNext]_nodesVars => NodesInv'
<1>1. NodesInv /\ Activate => NodesInv'
  BY ActivateResets, NodesStart, PTL
<1>2. NodesInv /\ UNCHANGED nodesVars => NodesInv'
  BY DEF nodesVars, NodesInv, History, MemoryInv, TonInv, ToffInv, TpInv,
         HeartbeatInv, CtudInv, KeepsUp, type, param
<1>. QED BY <1>1, <1>2, NodesScan DEF NodesNext

\* What the timers count never comes closer to the width of the times than a longest
\* step, so no sum of times wraps: for every width, for every delay that leaves this
\* room (plc_graph_validate allows 600 s) and for every heartbeat that keeps up.  No
\* delay has more left than its parameter, and no counter leaves its range.
THEOREM NodesTypeCorrect == NodesSpec => []NodesTypeOK
BY NodesStart, NodesInvStep, TimesFit, PTL DEF NodesSpec

\* Every delay, of 0 ms too, and every heartbeat that keeps up shows what its input was
\* over the time of its parameter, whatever the time steps and however often graphs
\* are activated; nothing is said of a heartbeat shorter than the longest step.
THEOREM TimersKeepTimeAlways == NodesSpec => []TimersKeepTime
<1>1. NodesInv => TimersKeepTime
  <2> SUFFICES ASSUME NodesInv
               PROVE  TimersKeepTime
    OBVIOUS
  <2>1. History /\ MemoryInv /\ config \in Configs
    BY DEF NodesInv
  <2>2. /\ type \in Delays => param \in 0..(Long - 1)
        /\ type = "HEARTBEAT" => param \in 0..(Wrap - 1)
    BY <2>1, TimeOK
  <2>3. TonDelays
    BY <2>1, <2>2, ConstantsOK DEF TonDelays, Shows, TonInv, MemoryInv, History, Delays
  <2>4. ToffHolds
    BY <2>1 DEF ToffHolds, Shows, ToffInv, MemoryInv
  <2>5. TpPulses
    BY <2>1 DEF TpPulses, Shows, TpInv, MemoryInv
  <2>6. HeartbeatKeepsTime
    <3>1. self.log_accum_ms \in 0..(Wrap - 1)
      BY DEF NodesInv, Runtime
    <3>. QED BY <2>1, <2>2, <3>1, ConstantsOK
             DEF HeartbeatKeepsTime, Shows, HeartbeatInv, MemoryInv, KeepsUp
  <2>. QED BY <2>3, <2>4, <2>5, <2>6 DEF TimersKeepTime
<1>. QED BY NodesStart, NodesInvStep, <1>1, PTL DEF NodesSpec

\* A counter with two clocks that are kept apart counts every edge of both, up to any
\* limit.
THEOREM CtudCountsAlways == NodesSpec => []CtudCounts
<1>1. NodesInv => CtudCounts
  BY DEF NodesInv, MemoryInv, CtudInv, CtudCounts, Shows
<1>. QED BY NodesStart, NodesInvStep, <1>1, PTL DEF NodesSpec

-----------------------------------------------------------------------------
(* The parts together: a behaviour is about one of them and leaves the     *)
(* others alone, so it is a behaviour of each.                             *)

LEMMA PartsRun == Spec => NodesSpec /\ FilterSpec /\ RingSpec
<1>1. Init => NodesInit /\ FilterInit /\ RingInit
  BY DEF Init
<1>2. [Next]_partVars => [NodesNext]_nodesVars /\ [FilterNext]_filterVars /\ [RingNext]_ringVars
  BY DEF Next, NodeStep, FilterStep, RingStep, partVars
<1>. QED BY <1>1, <1>2, PTL DEF Spec, NodesSpec, FilterSpec, RingSpec

\* Whatever is executed, read, pushed and popped, every part stays in its ranges.
THEOREM PartsTypeCorrect == Spec => []PartsTypeOK
<1>1. NodesTypeOK /\ FilterTypeOK /\ RingTypeOK => PartsTypeOK
  BY DEF PartsTypeOK
<1>. QED BY <1>1, PartsRun, NodesTypeCorrect, FilterTypeCorrect, RingTypeCorrect, PTL

\* What is proved of a part alone holds where they stand together.
THEOREM PartsSafe ==
    Spec => [](TimersKeepTime /\ CtudCounts /\ ShowsSettled) /\ ImplementsQueue
BY PartsRun, TimersKeepTimeAlways, CtudCountsAlways, ShowsSettledAlways, RingImplementsQueue, PTL
=============================================================================
