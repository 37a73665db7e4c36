------------------------- MODULE HttpHandlers_proofs -------------------------
(***************************************************************************)
(* What the handlers of the HTTP task do for every request: the texts they *)
(* read, for any length and content and any size of the buffers; the page  *)
(* they write; and the graph they store, whatever write fails and whenever *)
(* the gateway restarts.                                                   *)
(***************************************************************************)
EXTENDS MCHttpHandlers, WellFoundedInduction, SequenceTheorems, TLAPS

-----------------------------------------------------------------------------
(* Sequences of any length, by induction over sets of them, and what       *)
(* FlattenSeq of the community modules makes of a sequence of sequences.   *)

LEMMA AllNumbers ==
    ASSUME NEW S, 0 \in S, \A n \in Nat : n \in S => n + 1 \in S
    PROVE  Nat \subseteq S
<1> DEFINE R == OpToRel(<, Nat)
           T == Nat \ S
<1>1. IsWellFoundedOn(R, Nat)
  BY NatLessThanWellFounded
<1>2. SUFFICES ASSUME T # {} PROVE FALSE
  OBVIOUS
<1> HIDE DEF R
<1>3. PICK x \in T : \A y \in T : ~(<<y, x>> \in R)
  BY <1>1, <1>2, WFMin
<1>4. \A y \in T : ~(y < x)
  BY <1>3 DEF R, OpToRel
<1>5. x \in Nat /\ x # 0 /\ x \notin S
  BY DEF T
<1>6. x - 1 \in T
  BY <1>5 DEF T
<1> QED
  BY <1>4, <1>5, <1>6

\* A set of sequences that holds the empty one and can be appended to.
LEMMA AllSequences ==
    ASSUME NEW S, NEW G, << >> \in G,
           \A s \in Seq(S), e \in S : s \in G => Append(s, e) \in G
    PROVE  Seq(S) \subseteq G
<1> DEFINE N == {n \in Nat : \A s \in Seq(S) : Len(s) = n => s \in G}
<1>1. 0 \in N
  BY EmptySeq
<1>2. ASSUME NEW n \in Nat, n \in N PROVE n + 1 \in N
  <2>1. SUFFICES ASSUME NEW s \in Seq(S), Len(s) = n + 1 PROVE s \in G
    BY DEF N
  <2>2. s # << >>
    BY <2>1, EmptySeq
  <2>3. PICK r \in Seq(S), e \in S : s = Append(r, e)
    BY <2>2, SequenceEmptyOrAppend
  <2>4. Len(r) = n
    BY <2>1, <2>3, AppendProperties, LenProperties
  <2> QED
    BY <1>2, <2>3, <2>4 DEF N
<1> HIDE DEF N
<1>3. Nat \subseteq N
  BY <1>1, <1>2, AllNumbers
<1> QED
  BY <1>3, LenProperties DEF N

\* The function that FlattenSeq defines by recursion.
Flattening(s, f) == f = [n \in 1..Len(s) |-> IF n = 1 THEN s[n] ELSE f[n - 1] \o s[n]]

\* The function for a sequence with one piece more.
Longer(k, f, e) ==
    [n \in 1..(k + 1) |-> IF n = k + 1 THEN (IF n = 1 THEN e ELSE f[k] \o e) ELSE f[n]]

LEMMA FlatteningAppend ==
    ASSUME NEW S, NEW s \in Seq(S), NEW e \in S
    PROVE  /\ \A f : Flattening(Append(s, e), f) => \E g : Flattening(s, g) /\ f = Longer(Len(s), g, e)
           /\ \A g : Flattening(s, g) => Flattening(Append(s, e), Longer(Len(s), g, e))
<1> DEFINE k == Len(s)
           a == Append(s, e)
<1>1. k \in Nat /\ Len(a) = k + 1 /\ a[k + 1] = e /\ \A n \in 1..k : a[n] = s[n]
  BY LenProperties, AppendProperties
<1> HIDE DEF k, a
<1> DEFINE Read(r, f, n) == IF n = 1 THEN r[n] ELSE f[n - 1] \o r[n]
           Cut(f) == [n \in 1..k |-> f[n]]
<1>2. /\ \A f : Flattening(a, f) <=> f = [n \in 1..(k + 1) |-> Read(a, f, n)]
      /\ \A f : Flattening(s, f) <=> f = [n \in 1..k |-> Read(s, f, n)]
  BY <1>1 DEF Flattening, k
<1>3. \A f, n : n \in 1..k => Read(a, f, n) = Read(s, f, n)
  BY <1>1
<1>4. \A f : Read(a, f, k + 1) = IF k + 1 = 1 THEN e ELSE f[k] \o e
  BY <1>1
<1>5. \A n \in 1..k : n = 1 \/ n - 1 \in 1..k
  BY <1>1
<1>6. \A f : /\ Cut(f) = [n \in 1..k |-> Cut(f)[n]]
             /\ \A n \in 1..k : Cut(f)[n] = f[n]
  BY Zenon
<1>7. \A n \in 1..k : n # k + 1 /\ n \in 1..(k + 1)
  BY <1>1
<1>8. k + 1 \in 1..(k + 1) /\ \A n \in 1..(k + 1) : n \in 1..k \/ n = k + 1
  BY <1>1
<1>9. \A f : /\ Longer(k, f, e) = [n \in 1..(k + 1) |-> Longer(k, f, e)[n]]
             /\ \A n \in 1..k : Longer(k, f, e)[n] = f[n]
             /\ Longer(k, f, e)[k + 1] = IF k + 1 = 1 THEN e ELSE f[k] \o e
  BY <1>7, <1>8, Zenon DEF Longer
<1>10. \A f, n : n \in 1..k => Read(s, f, n) = Read(s, Cut(f), n)
  BY <1>5, <1>6, Zenon
<1>11. \A f, n : n \in 1..k => Read(s, f, n) = Read(s, Longer(k, f, e), n)
  BY <1>5, <1>9, Zenon
<1>12. k + 1 = 1 \/ k \in 1..k
  BY <1>1
<1> HIDE DEF Read, Cut
<1>13. ASSUME NEW f, Flattening(a, f)
       PROVE  Flattening(s, Cut(f)) /\ f = Longer(k, Cut(f), e)
  <2>1. f = [n \in 1..(k + 1) |-> Read(a, f, n)]
    BY <1>2, <1>13, Zenon
  <2>2. \A n \in 1..(k + 1) : f[n] = Read(a, f, n)
    BY <2>1, Zenon
  <2>3. \A n \in 1..k : Cut(f)[n] = Read(s, Cut(f), n)
    BY <1>3, <1>6, <1>7, <1>10, <2>2, Zenon
  <2>4. Flattening(s, Cut(f))
    <3>1. Cut(f) = [n \in 1..k |-> Read(s, Cut(f), n)]
      BY <1>6, <2>3, Zenon
    <3> QED
      BY <1>2, <3>1, Zenon
  <2>5. f[k + 1] = IF k + 1 = 1 THEN e ELSE Cut(f)[k] \o e
    BY <1>4, <1>6, <1>8, <1>12, <2>2, Zenon
  <2>6. \A n \in 1..(k + 1) : f[n] = Longer(k, Cut(f), e)[n]
    BY <1>6, <1>8, <1>9, <2>5, Zenon
  <2>7. f = [n \in 1..(k + 1) |-> f[n]]
    BY <2>1
  <2> QED
    BY <1>9, <2>4, <2>6, <2>7
<1>14. ASSUME NEW f, Flattening(s, f) PROVE Flattening(a, Longer(k, f, e))
  <2> DEFINE g == Longer(k, f, e)
  <2>1. f = [n \in 1..k |-> Read(s, f, n)]
    BY <1>2, <1>14, Zenon
  <2>2. \A n \in 1..k : f[n] = Read(s, f, n)
    BY <2>1, Zenon
  <2>3. ASSUME NEW n \in 1..k PROVE g[n] = Read(a, g, n)
    <3>1. g[n] = f[n] /\ f[n] = Read(s, f, n)
      BY <1>9, <2>2, Zenon
    <3>2. Read(s, f, n) = Read(s, g, n)
      BY <1>11, Zenon
    <3>3. Read(a, g, n) = Read(s, g, n)
      BY <1>3, Zenon
    <3> QED
      BY <3>1, <3>2, <3>3, Zenon
  <2>4. g[k + 1] = Read(a, g, k + 1)
    BY <1>4, <1>9, <1>12, Zenon
  <2>5. \A n \in 1..(k + 1) : g[n] = Read(a, g, n)
    BY <1>8, <2>3, <2>4, Zenon
  <2>6. g = [n \in 1..(k + 1) |-> Read(a, g, n)]
    BY <1>9, <2>5, Zenon
  <2> QED
    BY <1>2, <2>6, Zenon
<1> QED
  BY <1>13, <1>14, Zenon DEF a, k

\* Every sequence is flattened in one way.
LEMMA FlatteningOnce ==
    ASSUME NEW S, NEW s \in Seq(S)
    PROVE  /\ \E f : Flattening(s, f)
           /\ \A f, g : Flattening(s, f) /\ Flattening(s, g) => f = g
<1> DEFINE One(r) == /\ \E f : Flattening(r, f)
                     /\ \A f, g : Flattening(r, f) /\ Flattening(r, g) => f = g
           G == {r \in Seq(S) : One(r)}
<1>1. << >> \in G
  <2>1. << >> \in Seq(S) /\ Len(<< >>) = 0 /\ 1..0 = {}
    BY EmptySeq
  <2>2. \A f : Flattening(<< >>, f) <=> f = [n \in {} |-> n]
    BY <2>1 DEF Flattening
  <2> QED
    BY <2>1, <2>2
<1>2. ASSUME NEW r \in Seq(S), NEW e \in S, r \in G PROVE Append(r, e) \in G
  <2>1. Append(r, e) \in Seq(S)
    BY AppendProperties
  <2>2. One(r)
    BY <1>2
  <2>3. \A f : Flattening(Append(r, e), f) =>
            \E g : Flattening(r, g) /\ f = Longer(Len(r), g, e)
    BY FlatteningAppend, Zenon
  <2>4. \A g : Flattening(r, g) => Flattening(Append(r, e), Longer(Len(r), g, e))
    BY FlatteningAppend, Zenon
  <2>5. \E f : Flattening(Append(r, e), f)
    BY <2>2, <2>4, Zenon
  <2>6. ASSUME NEW f, NEW g, Flattening(Append(r, e), f), Flattening(Append(r, e), g) PROVE f = g
    BY <2>2, <2>3, <2>6
  <2> QED
    BY <2>1, <2>5, <2>6
<1> HIDE DEF G
<1>3. Seq(S) \subseteq G
  BY <1>1, <1>2, AllSequences
<1> QED
  BY <1>3 DEF G

LEMMA FlattenIs ==
    ASSUME NEW S, NEW s \in Seq(S)
    PROVE  \A f : Flattening(s, f) => FlattenSeq(s) = IF Len(s) = 0 THEN s ELSE f[Len(s)]
<1>1. SUFFICES ASSUME NEW f, Flattening(s, f)
               PROVE  FlattenSeq(s) = IF Len(s) = 0 THEN s ELSE f[Len(s)]
  OBVIOUS
<1>2. \A g : Flattening(s, g) <=> g = f
  BY <1>1, FlatteningOnce
<1>3. (CHOOSE g : Flattening(s, g)) = f
  BY <1>2
<1>4. FlattenSeq(s) = IF Len(s) = 0 THEN s ELSE (CHOOSE g : Flattening(s, g))[Len(s)]
  BY Zenon DEF FlattenSeq, Flattening
<1> QED
  BY <1>3, <1>4

\* A piece at the end stands at the end of the flat sequence.
LEMMA FlattenAppend ==
    ASSUME NEW S, NEW s \in Seq(Seq(S)), NEW e \in Seq(S)
    PROVE  FlattenSeq(Append(s, e)) = (IF s = << >> THEN e ELSE FlattenSeq(s) \o e)
<1>1. Append(s, e) \in Seq(Seq(S)) /\ Len(Append(s, e)) = Len(s) + 1 /\ Len(s) \in Nat
  BY AppendProperties, LenProperties
<1>2. PICK g : Flattening(s, g)
  BY FlatteningOnce
<1>3. Flattening(Append(s, e), Longer(Len(s), g, e))
  BY <1>2, FlatteningAppend, Zenon
<1>4. FlattenSeq(Append(s, e)) = Longer(Len(s), g, e)[Len(s) + 1]
  <2> DEFINE a == Append(s, e)
             f == Longer(Len(s), g, e)
  <2>1. Flattening(a, f)
    BY <1>3
  <2>2. Len(a) # 0 /\ Len(a) = Len(s) + 1 /\ a \in Seq(Seq(S))
    BY <1>1
  <2> HIDE DEF a, f
  <2>3. FlattenSeq(a) = IF Len(a) = 0 THEN a ELSE f[Len(a)]
    BY <2>1, <2>2, FlattenIs
  <2>4. FlattenSeq(a) = f[Len(s) + 1]
    BY <2>2, <2>3
  <2> QED
    BY <2>4 DEF a, f
<1>5. Longer(Len(s), g, e)[Len(s) + 1] = IF Len(s) = 0 THEN e ELSE g[Len(s)] \o e
  BY <1>1 DEF Longer
<1>6. FlattenSeq(s) = IF Len(s) = 0 THEN s ELSE g[Len(s)]
  BY <1>2, FlattenIs
<1>7. s = << >> <=> Len(s) = 0
  BY EmptySeq
<1> QED
  BY <1>4, <1>5, <1>6, <1>7

LEMMA FlattenType ==
    ASSUME NEW S, NEW s \in Seq(Seq(S))
    PROVE  FlattenSeq(s) \in Seq(S)
<1> DEFINE G == {r \in Seq(Seq(S)) : FlattenSeq(r) \in Seq(S)}
<1>0. FlattenSeq(<< >>) = << >>
  BY DEF FlattenSeq
<1>1. << >> \in G
  BY <1>0, EmptySeq
<1>2. ASSUME NEW r \in Seq(Seq(S)), NEW e \in Seq(S), r \in G PROVE Append(r, e) \in G
  <2>1. Append(r, e) \in Seq(Seq(S)) /\ FlattenSeq(r) \o e \in Seq(S)
    BY <1>2, AppendProperties, ConcatProperties
  <2> QED
    BY <2>1, FlattenAppend
<1> HIDE DEF G
<1>3. Seq(Seq(S)) \subseteq G
  BY <1>1, <1>2, AllSequences
<1> QED
  BY <1>3 DEF G

LEMMA FlattenGrows ==
    ASSUME NEW S, NEW s \in Seq(Seq(S)), NEW e \in Seq(S)
    PROVE  FlattenSeq(Append(s, e)) = FlattenSeq(s) \o e
<1>1. FlattenSeq(<< >>) = << >> /\ << >> \o e = e
  BY ConcatEmptySeq DEF FlattenSeq
<1> QED
  BY <1>1, FlattenAppend

-----------------------------------------------------------------------------
(* The two buffers of an upload request, for bodies of any length and      *)
(* content and buffers of any size.                                        *)

\* A search that finds something finds a place in the text.
LEMMA LeastIn ==
    ASSUME NEW S, S \subseteq Nat, S # {}
    PROVE  Least(S) \in S
<1> DEFINE R == OpToRel(<, Nat)
<1>1. IsWellFoundedOn(R, Nat)
  BY NatLessThanWellFounded
<1> HIDE DEF R
<1>2. PICK x \in S : \A y \in S : ~(<<y, x>> \in R)
  BY <1>1, WFMin
<1>3. \A y \in S : ~(y < x)
  BY <1>2 DEF R, OpToRel
<1>4. \A y \in S : x <= y
  BY <1>3
<1> QED
  BY <1>4 DEF Least

LEMMA Characters ==
    ASSUME body \in Bodies
    PROVE  /\ body \in Seq(STRING) /\ Len(body) \in Nat /\ DOMAIN body = 1..Len(body)
           /\ \A j \in 1..Len(body) : body[j] \in STRING /\ Meant(body[j]) \in STRING
<1>1. body \in Seq(STRING) /\ Len(body) \in Nat /\ DOMAIN body = 1..Len(body)
  BY BodyAssumption
<1>2. \A j \in 1..Len(body) : body[j] \in STRING
  BY <1>1
<1>3. \A c \in STRING : Meant(c) \in STRING
  BY BodyAssumption DEF Meant
<1> QED
  BY <1>1, <1>2, <1>3

LEMMA Appended ==
    ASSUME NEW s \in Seq(STRING), NEW c \in STRING
    PROVE  Append(s, c) \in Seq(STRING) /\ Len(Append(s, c)) = Len(s) + 1
  BY AppendProperties

LEMMA BodyInitType == BodyInit => BodyTypeOK
<1> SUFFICES ASSUME BodyInit PROVE BodyTypeOK
  OBVIOUS
<1>1. << >> \in Seq(STRING) /\ Len(<< >>) = 0
  BY EmptySeq
<1>2. 0 \in 0..Len(body) /\ 0 \in 0..(Len(body) + 1) /\ 0 < BodyCap /\ 0 < OutCap
  BY Characters, BodyAssumption DEF BodyInit
<1> QED
  BY <1>1, <1>2 DEF BodyInit, BodyTypeOK, Running

\* A handler that ends leaves both buffers alone.
LEMMA ReturnKeeps ==
    ASSUME BodyTypeOK, NEW r \in Running \cup BodyOutcome, Return(r)
    PROVE  BodyTypeOK'
  BY DEF BodyTypeOK, Return, Running, BodyOutcome

LEMMA ReadKeeps == BodyTypeOK /\ ReadBody => BodyTypeOK'
<1> SUFFICES ASSUME BodyTypeOK, ReadBody PROVE BodyTypeOK'
  OBVIOUS
<1>1. CASE TooLarge
  BY <1>1, ReturnKeeps DEF TooLarge, BodyOutcome
<1>2. CASE Receive
  <2>1. Len(body) \in Nat /\ Len(body) < BodyCap
    BY <1>2, Characters, BodyAssumption DEF Receive, BeyondCap, BodyTypeOK
  <2>2. received' \in 0..Len(body) /\ received' < BodyCap
    BY <1>2, <2>1, BodyAssumption DEF Receive, BodyTypeOK
  <2> QED
    BY <1>2, <2>2 DEF Receive, BodyTypeOK
<1>3. CASE ReceiveFails
  BY <1>3, ReturnKeeps DEF ReceiveFails, BodyOutcome
<1>4. CASE Received
  BY <1>4, ReturnKeeps DEF Received, Running
<1> QED
  BY <1>1, <1>2, <1>3, <1>4 DEF ReadBody

LEMMA PlainKeeps == BodyTypeOK /\ PlainBody => BodyTypeOK'
<1> SUFFICES ASSUME BodyTypeOK, PlainBody PROVE BodyTypeOK'
  OBVIOUS
<1>1. CASE Len(body) >= OutCap
  BY <1>1, ReturnKeeps DEF PlainBody, BodyOutcome
<1>2. CASE ~(Len(body) >= OutCap)
  <2>1. body \in Seq(STRING) /\ Len(body) < OutCap
    BY <1>2, Characters, BodyAssumption DEF BodyTypeOK
  <2> QED
    BY <1>2, <2>1 DEF PlainBody, BodyTypeOK, BodyOutcome
<1> QED
  BY <1>1, <1>2

LEMMA FindKeeps == BodyTypeOK /\ FindValue => BodyTypeOK'
<1> SUFFICES ASSUME BodyTypeOK, FindValue PROVE BodyTypeOK'
  OBVIOUS
<1>1. CASE Colons = {}
  BY <1>1, ReturnKeeps DEF FindValue, BodyOutcome
<1>2. CASE Colons # {}
  <2>1. Colons \subseteq 1..Len(body) /\ Len(body) \in Nat
    BY Characters DEF Colons, BodyTypeOK
  <2>2. Colons \subseteq Nat
    BY <2>1
  <2>3. Least(Colons) \in 1..Len(body)
    <3>1. Least(Colons) \in Colons
      BY <1>2, <2>2, LeastIn, Zenon
    <3> QED
      BY <2>1, <3>1
  <2>4. pos' \in 0..(Len(body) + 1)
    <3>1. PICK m \in 1..Len(body) : pos' = m + 1
      BY <1>2, <2>3, Zenon DEF FindValue
    <3> QED
      BY <2>1, <3>1
  <2> QED
    BY <1>2, <2>4 DEF FindValue, BodyTypeOK, Running
<1> QED
  BY <1>1, <1>2

\* One character of the text is passed; at most one is written.
LEMMA PassKeeps ==
    ASSUME BodyTypeOK, pos \in DOMAIN body, pos' = pos + 1,
           outcome' \in Running \cup BodyOutcome, escape' \in BOOLEAN,
           UNCHANGED <<body, received>>,
           out' \in Seq(STRING), Len(out') < OutCap
    PROVE  BodyTypeOK'
<1>1. pos' \in 0..(Len(body) + 1)
  BY Characters DEF BodyTypeOK
<1> QED
  BY <1>1 DEF BodyTypeOK

LEMMA StoreKeeps ==
    ASSUME BodyTypeOK, InText, NEW c \in STRING, out' = Append(out, c)
    PROVE  out' \in Seq(STRING) /\ Len(out') < OutCap
<1>1. Len(out) \in Nat /\ Len(out) + 1 < OutCap
  BY BodyAssumption DEF BodyTypeOK, InText
<1> QED
  BY <1>1, Appended, BodyAssumption DEF BodyTypeOK

LEMMA ScanKeeps ==
    BodyTypeOK /\ (AfterBackslash \/ StartEscape \/ CloseQuote \/ Copy \/ OutOfText) => BodyTypeOK'
<1> USE DEF Running, BodyOutcome
<1>1. ASSUME BodyTypeOK, AfterBackslash PROVE BodyTypeOK'
  <2>1. Meant(body[pos]) \in STRING
    BY <1>1, Characters DEF AfterBackslash, InText, BodyTypeOK
  <2>2. out' \in Seq(STRING) /\ Len(out') < OutCap
    BY <1>1, <2>1, StoreKeeps DEF AfterBackslash
  <2> QED
    BY <1>1, <2>2, PassKeeps DEF AfterBackslash, InText
<1>2. ASSUME BodyTypeOK, StartEscape PROVE BodyTypeOK'
  <2>1. out' \in Seq(STRING) /\ Len(out') < OutCap
    BY <1>2 DEF StartEscape, BodyTypeOK
  <2> QED
    BY <1>2, <2>1, PassKeeps DEF StartEscape, InText
<1>3. ASSUME BodyTypeOK, CloseQuote PROVE BodyTypeOK'
  BY <1>3, ReturnKeeps DEF CloseQuote
<1>4. ASSUME BodyTypeOK, Copy PROVE BodyTypeOK'
  <2>1. body[pos] \in STRING
    BY <1>4, Characters DEF Copy, InText, BodyTypeOK
  <2>2. out' \in Seq(STRING) /\ Len(out') < OutCap
    BY <1>4, <2>1, StoreKeeps DEF Copy
  <2> QED
    BY <1>4, <2>2, PassKeeps DEF Copy, InText, BodyTypeOK
<1>5. ASSUME BodyTypeOK, OutOfText PROVE BodyTypeOK'
  BY <1>5, ReturnKeeps DEF OutOfText
<1> QED
  BY <1>1, <1>2, <1>3, <1>4, <1>5

LEMMA BlanksKeeps == BodyTypeOK /\ (SkipBlank \/ OpenQuote) => BodyTypeOK'
<1> USE DEF Running, BodyOutcome
<1>1. ASSUME BodyTypeOK, SkipBlank PROVE BodyTypeOK'
  BY <1>1, PassKeeps DEF SkipBlank, BodyTypeOK
<1>2. ASSUME BodyTypeOK, OpenQuote PROVE BodyTypeOK'
  <2>1. CASE pos \in DOMAIN body /\ body[pos] = QuoteMark
    BY <1>2, <2>1, PassKeeps DEF OpenQuote, BodyTypeOK
  <2>2. CASE ~(pos \in DOMAIN body /\ body[pos] = QuoteMark)
    BY <1>2, <2>2, ReturnKeeps DEF OpenQuote
  <2> QED
    BY <2>1, <2>2
<1> QED
  BY <1>1, <1>2

LEMMA BodyStep == BodyTypeOK /\ [BodyNext]_bodyVars => BodyTypeOK'
<1>1. BodyTypeOK /\ UNCHANGED bodyVars => BodyTypeOK'
  BY DEF BodyTypeOK, bodyVars
<1> QED
  BY <1>1, ReadKeeps, PlainKeeps, FindKeeps, BlanksKeeps, ScanKeeps DEF BodyNext, Extract

\* No body, however long or however escaped, makes read_body or
\* extract_graph_json write past its buffer.
THEOREM BodyTypeCorrect == BodySpec => []BodyTypeOK
  BY BodyInitType, BodyStep, PTL DEF BodySpec

-----------------------------------------------------------------------------
(* The text that is taken out of a body, for texts of any length and       *)
(* content, any member before them and any number of blanks.               *)

\* Any string; the provers do not know that a literal is one.
Letter == STRING \cup {QuoteMark, Backslash, "a", "newline", "name", ":", ","}

Char == Letter \cup DOMAIN Escaped \cup {Blank, Key, "{", "}"}

LEMMA Letters ==
    /\ Letter \subseteq Char /\ DOMAIN Escaped \subseteq Char
    /\ QuoteMark \in Char /\ Backslash \in Char /\ Blank \in Char /\ Key \in Char
    /\ ":" \in Char /\ "{" \in Char /\ "}" \in Char
BY Zenon DEF Char, Letter

LEMMA ShortText ==
    ASSUME NEW S, NEW b \in S, NEW c \in S
    PROVE  /\ <<c>> \in Seq(S) /\ Len(<<c>>) = 1 /\ <<c>>[1] = c
           /\ <<b, c>> \in Seq(S) /\ Len(<<b, c>>) = 2 /\ <<b, c>>[1] = b /\ <<b, c>>[2] = c
OBVIOUS

LEMMA AppendedTo ==
    ASSUME NEW S, NEW s \in Seq(S), NEW c \in S
    PROVE  /\ Append(s, c) \in Seq(S) /\ Len(Append(s, c)) = Len(s) + 1
           /\ Append(s, c)[Len(s) + 1] = c /\ \A k \in 1..Len(s) : Append(s, c)[k] = s[k]
BY AppendProperties

LEMMA ConcatAppend ==
    ASSUME NEW S, NEW s \in Seq(S), NEW u \in Seq(S), NEW c \in S
    PROVE  s \o Append(u, c) = Append(s \o u, c)
OBVIOUS

\* Three pieces, and the last of them another one longer.
LEMMA Joined ==
    ASSUME NEW S, NEW s \in Seq(S), NEW u \in Seq(S), NEW v \in Seq(S)
    PROVE  (s \o u) \o v = s \o (u \o v)
BY ConcatAssociative

LEMMA Thirds ==
    ASSUME NEW S, NEW s \in Seq(S), NEW u \in Seq(S), NEW v \in Seq(S)
    PROVE  s \o (u \o v) = (s \o u) \o v
BY ConcatAssociative

\* A character is written as it is, or by a backslash and what stands for it.
LEMMA WrittenCharIs ==
    ASSUME NEW c \in Letter
    PROVE  /\ WrittenChar(c) \in Seq(Char)
           /\ \/ WrittenChar(c) = <<c>> /\ c \notin {QuoteMark, Backslash}
              \/ \E e \in Char : WrittenChar(c) = <<Backslash, e>> /\ Meant(e) = c
<1>1. CASE \E e \in DOMAIN Escaped : Escaped[e] = c
  <2> DEFINE e == CHOOSE x \in DOMAIN Escaped : Escaped[x] = c
  <2>1. e \in DOMAIN Escaped /\ Escaped[e] = c
    BY <1>1
  <2>2. WrittenChar(c) = <<Backslash, e>>
    BY <1>1 DEF WrittenChar
  <2> HIDE DEF e
  <2>3. e \in Char /\ Backslash \in Char
    BY <2>1, Letters, Zenon
  <2>4. Meant(e) = c
    BY <2>1 DEF Meant
  <2>5. <<Backslash, e>> \in Seq(Char)
    BY <2>3, ShortText
  <2> QED
    BY <2>2, <2>3, <2>4, <2>5
<1>2. CASE ~\E e \in DOMAIN Escaped : Escaped[e] = c
  <2>1. CASE c \in {QuoteMark, Backslash}
    <3>1. WrittenChar(c) = <<Backslash, c>>
      BY <1>2, <2>1 DEF WrittenChar
    <3>2. Meant(c) = c
      BY <2>1, BodyAssumption DEF Meant
    <3>3. c \in Char /\ Backslash \in Char
      BY Letters, Zenon
    <3>4. <<Backslash, c>> \in Seq(Char)
      BY <3>3, ShortText
    <3> QED
      BY <3>1, <3>2, <3>3, <3>4
  <2>2. CASE c \notin {QuoteMark, Backslash}
    <3>1. WrittenChar(c) = <<c>>
      BY <1>2, <2>2 DEF WrittenChar
    <3>2. c \in Char
      BY Letters, Zenon
    <3>3. <<c>> \in Seq(Char)
      BY <3>2, ShortText
    <3> QED
      BY <2>2, <3>1, <3>3
  <2> QED
    BY <2>1, <2>2
<1> QED
  BY <1>1, <1>2

Marks(s) == [k \in DOMAIN s |-> WrittenChar(s[k])]

LEMMA MarksIn ==
    ASSUME NEW s \in Seq(Letter)
    PROVE  Marks(s) \in Seq(Seq(Char)) /\ Len(Marks(s)) = Len(s)
<1>1. Len(s) \in Nat /\ DOMAIN s = 1..Len(s) /\ \A k \in 1..Len(s) : s[k] \in Letter
  BY LenProperties, ElementOfSeq
<1>2. \A k \in 1..Len(s) : WrittenChar(s[k]) \in Seq(Char)
  BY <1>1, WrittenCharIs
<1> QED
  BY <1>1, <1>2 DEF Marks

LEMMA MarksGrow ==
    ASSUME NEW s \in Seq(Letter), NEW c \in Letter
    PROVE  Marks(Append(s, c)) = Append(Marks(s), WrittenChar(c))
<1> DEFINE a == Append(s, c)
<1>1. Len(s) \in Nat /\ DOMAIN s = 1..Len(s)
  BY LenProperties
<1>2. a \in Seq(Letter) /\ Len(a) = Len(s) + 1 /\ a[Len(s) + 1] = c /\ \A k \in 1..Len(s) : a[k] = s[k]
  BY AppendedTo
<1>3. DOMAIN a = 1..(Len(s) + 1)
  BY <1>2, LenProperties
<1>4. Marks(s) \in Seq(Seq(Char)) /\ Marks(a) \in Seq(Seq(Char)) /\ WrittenChar(c) \in Seq(Char)
      /\ Len(Marks(s)) = Len(s) /\ Len(Marks(a)) = Len(s) + 1
  BY <1>2, MarksIn, WrittenCharIs
<1>5. Append(Marks(s), WrittenChar(c)) \in Seq(Seq(Char))
      /\ Len(Append(Marks(s), WrittenChar(c))) = Len(s) + 1
      /\ Append(Marks(s), WrittenChar(c))[Len(s) + 1] = WrittenChar(c)
      /\ \A k \in 1..Len(s) : Append(Marks(s), WrittenChar(c))[k] = Marks(s)[k]
  <2> DEFINE m == Marks(s)
             w == WrittenChar(c)
  <2> HIDE DEF m, w
  <2>1. m \in Seq(Seq(Char)) /\ w \in Seq(Char) /\ Len(m) = Len(s)
    BY <1>4 DEF m, w
  <2>2. /\ Append(m, w) \in Seq(Seq(Char)) /\ Len(Append(m, w)) = Len(m) + 1
        /\ Append(m, w)[Len(m) + 1] = w /\ \A k \in 1..Len(m) : Append(m, w)[k] = m[k]
    BY <2>1, AppendedTo
  <2> QED
    BY <2>1, <2>2, Zenon DEF m, w
<1> HIDE DEF a
<1>6. \A k \in 1..Len(s) : Marks(a)[k] = WrittenChar(a[k]) /\ Marks(s)[k] = WrittenChar(s[k])
  BY <1>1, <1>3 DEF Marks
<1>7. Marks(a)[Len(s) + 1] = WrittenChar(a[Len(s) + 1])
  BY <1>1, <1>3 DEF Marks
<1>8. \A k \in 1..(Len(s) + 1) : Marks(a)[k] = Append(Marks(s), WrittenChar(c))[k]
  <2>1. \A k \in 1..(Len(s) + 1) : k \in 1..Len(s) \/ k = Len(s) + 1
    BY <1>1
  <2> QED
    BY <1>2, <1>5, <1>6, <1>7, <2>1
<1> DEFINE m == Append(Marks(s), WrittenChar(c))
<1>9. Marks(a) = m
  <2>1. m \in Seq(Seq(Char)) /\ Len(m) = Len(s) + 1 /\ \A k \in 1..(Len(s) + 1) : Marks(a)[k] = m[k]
    BY <1>5, <1>8
  <2> HIDE DEF m
  <2> QED
    BY <1>4, <2>1, SeqEqual
<1> QED
  BY <1>9 DEF a

LEMMA WrittenGrows ==
    /\ WrittenText(<< >>) = << >>
    /\ \A s \in Seq(Letter) : WrittenText(s) \in Seq(Char)
    /\ \A s \in Seq(Letter), c \in Letter :
          WrittenText(Append(s, c)) = WrittenText(s) \o WrittenChar(c)
<1>1. \A s : WrittenText(s) = FlattenSeq(Marks(s))
  BY DEF WrittenText, Marks
<1>2. WrittenText(<< >>) = << >>
  <2>1. << >> \in Seq(Letter)
    BY EmptySeq
  <2>2. Marks(<< >>) \in Seq(Seq(Char)) /\ Len(Marks(<< >>)) = 0
    BY <2>1, MarksIn, EmptySeq
  <2>3. Marks(<< >>) = << >>
    BY <2>2, EmptySeq
  <2> QED
    BY <1>1, <2>3 DEF FlattenSeq
<1>3. ASSUME NEW s \in Seq(Letter) PROVE WrittenText(s) \in Seq(Char)
  BY <1>1, MarksIn, FlattenType
<1>4. ASSUME NEW s \in Seq(Letter), NEW c \in Letter
      PROVE  WrittenText(Append(s, c)) = WrittenText(s) \o WrittenChar(c)
  <2>1. Marks(s) \in Seq(Seq(Char)) /\ WrittenChar(c) \in Seq(Char)
    BY MarksIn, WrittenCharIs
  <2>2. FlattenSeq(Append(Marks(s), WrittenChar(c))) = FlattenSeq(Marks(s)) \o WrittenChar(c)
    BY <2>1, FlattenGrows
  <2> QED
    BY <1>1, <2>2, MarksGrow
<1> QED
  BY <1>2, <1>3, <1>4

LEMMA WrittenConcat ==
    ASSUME NEW s \in Seq(Letter), NEW u \in Seq(Letter)
    PROVE  WrittenText(s \o u) = WrittenText(s) \o WrittenText(u)
<1> DEFINE G == {v \in Seq(Letter) : WrittenText(s \o v) = WrittenText(s) \o WrittenText(v)}
<1>1. << >> \in G
  <2>1. << >> \in Seq(Letter) /\ s \o << >> = s /\ WrittenText(s) \in Seq(Char)
    BY EmptySeq, ConcatEmptySeq, WrittenGrows
  <2>2. WrittenText(s) \o << >> = WrittenText(s)
    BY <2>1, ConcatEmptySeq
  <2> QED
    BY <2>1, <2>2, WrittenGrows
<1>2. ASSUME NEW v \in Seq(Letter), NEW c \in Letter, v \in G PROVE Append(v, c) \in G
  <2>1. Append(v, c) \in Seq(Letter) /\ s \o v \in Seq(Letter)
    BY AppendProperties, ConcatProperties
  <2>2. s \o Append(v, c) = Append(s \o v, c)
    BY ConcatAppend
  <2>3. WrittenText(s) \in Seq(Char) /\ WrittenText(v) \in Seq(Char) /\ WrittenChar(c) \in Seq(Char)
    BY WrittenGrows, WrittenCharIs
  <2>4. WrittenText(s \o Append(v, c)) = (WrittenText(s) \o WrittenText(v)) \o WrittenChar(c)
    BY <1>2, <2>1, <2>2, WrittenGrows
  <2>5. (WrittenText(s) \o WrittenText(v)) \o WrittenChar(c)
          = WrittenText(s) \o (WrittenText(v) \o WrittenChar(c))
    BY <2>3, Joined
  <2> QED
    BY <2>1, <2>4, <2>5, WrittenGrows
<1> HIDE DEF G
<1>3. Seq(Letter) \subseteq G
  BY <1>1, <1>2, AllSequences
<1> QED
  BY <1>3 DEF G

-----------------------------------------------------------------------------
(* Where the parts of a body stand.                                        *)

Pre(b, bl) == <<"{">> \o b \o <<Key, ":">> \o bl \o <<QuoteMark>>

Ending == <<QuoteMark, "}">>

\* What may stand before the member: anything but its key.
NoKey == {b \in Seq(Letter) : \A k \in 1..Len(b) : b[k] # Key}

LEMMA ConcatAt ==
    ASSUME NEW S, NEW x \in Seq(S), NEW y \in Seq(S)
    PROVE  /\ x \o y \in Seq(S) /\ Len(x) \in Nat /\ Len(y) \in Nat /\ Len(x \o y) = Len(x) + Len(y)
           /\ \A k \in 1..Len(x) : (x \o y)[k] = x[k]
           /\ \A k \in 1..Len(y) : (x \o y)[Len(x) + k] = y[k]
<1>1. x \o y \in Seq(S) /\ Len(x) \in Nat /\ Len(y) \in Nat /\ Len(x \o y) = Len(x) + Len(y)
  BY ConcatProperties, LenProperties
<1>2. \A k \in 1..Len(x) : (x \o y)[k] = x[k]
  OBVIOUS
<1>3. \A k \in 1..Len(y) : (x \o y)[Len(x) + k] = y[k]
  OBVIOUS
<1> QED
  BY <1>1, <1>2, <1>3

LEMMA Widened ==
    ASSUME NEW s \in Seq(Letter)
    PROVE  s \in Seq(Char)
BY Letters, SeqMonotonic

LEMMA BlanksAre ==
    ASSUME NEW bl \in Seq({Blank})
    PROVE  bl \in Seq(Char) /\ \A k \in 1..Len(bl) : bl[k] = Blank
<1>1. {Blank} \subseteq Char
  BY Letters
<1> QED
  BY <1>1, SeqMonotonic, ElementOfSeq

\* Up to the key there is no other, right behind it the first colon, then blanks only.
LEMMA PreIs ==
    ASSUME NEW b \in NoKey, NEW bl \in Seq({Blank})
    PROVE  /\ Pre(b, bl) \in Seq(Char) /\ Len(b) \in Nat /\ Len(bl) \in Nat
           /\ Len(Pre(b, bl)) = Len(b) + Len(bl) + 4
           /\ \A k \in 1..(Len(b) + 1) : Pre(b, bl)[k] # Key
           /\ Pre(b, bl)[Len(b) + 2] = Key /\ Pre(b, bl)[Len(b) + 3] = ":"
           /\ \A k \in (Len(b) + 4)..(Len(b) + Len(bl) + 3) : Pre(b, bl)[k] = Blank
           /\ Pre(b, bl)[Len(b) + Len(bl) + 4] = QuoteMark
<1> DEFINE n == Len(b)
           m == Len(bl)
           o == <<"{">>
           c == <<Key, ":">>
           q == <<QuoteMark>>
           p1 == o \o b
           p2 == p1 \o c
           p3 == p2 \o bl
           p4 == p3 \o q
<1>1. b \in Seq(Char) /\ bl \in Seq(Char) /\ n \in Nat /\ m \in Nat
      /\ (\A k \in 1..n : b[k] # Key) /\ \A k \in 1..m : bl[k] = Blank
  BY Widened, BlanksAre, LenProperties DEF NoKey
<1>2. o \in Seq(Char) /\ Len(o) = 1 /\ o[1] = "{"
  BY Letters, ShortText
<1>3. c \in Seq(Char) /\ Len(c) = 2 /\ c[1] = Key /\ c[2] = ":"
  BY Letters, ShortText
<1>4. q \in Seq(Char) /\ Len(q) = 1 /\ q[1] = QuoteMark
  BY Letters, ShortText
<1> HIDE DEF o, c, q
<1>5. /\ p1 \in Seq(Char) /\ Len(p1) = n + 1
      /\ (\A k \in 1..1 : p1[k] = o[k]) /\ \A k \in 1..n : p1[1 + k] = b[k]
  <2>1. o \in Seq(Char) /\ b \in Seq(Char)
    BY <1>1, <1>2
  <2>2. /\ p1 \in Seq(Char) /\ Len(p1) = Len(o) + Len(b)
        /\ \A k \in 1..Len(o) : p1[k] = o[k]
        /\ \A k \in 1..Len(b) : p1[Len(o) + k] = b[k]
    BY <2>1, ConcatAt
  <2> HIDE DEF p1
  <2>3. Len(o) = 1 /\ n \in Nat
    BY <1>1, <1>2
  <2> QED
    BY <2>2, <2>3
<1> HIDE DEF p1
<1>6. /\ p2 \in Seq(Char) /\ Len(p2) = n + 3
      /\ (\A k \in 1..(n + 1) : p2[k] = p1[k]) /\ \A k \in 1..2 : p2[n + 1 + k] = c[k]
  <2>1. p1 \in Seq(Char) /\ c \in Seq(Char)
    BY <1>1, <1>3, <1>5
  <2>2. /\ p2 \in Seq(Char) /\ Len(p2) = Len(p1) + Len(c)
        /\ \A k \in 1..Len(p1) : p2[k] = p1[k]
        /\ \A k \in 1..Len(c) : p2[Len(p1) + k] = c[k]
    BY <2>1, ConcatAt
  <2> HIDE DEF p2
  <2> QED
    BY <1>1, <1>3, <1>5, <2>2
<1> HIDE DEF p2
<1>7. /\ p3 \in Seq(Char) /\ Len(p3) = n + 3 + m
      /\ (\A k \in 1..(n + 3) : p3[k] = p2[k]) /\ \A k \in 1..m : p3[n + 3 + k] = bl[k]
  <2>1. p2 \in Seq(Char) /\ bl \in Seq(Char)
    BY <1>1, <1>6
  <2>2. /\ p3 \in Seq(Char) /\ Len(p3) = Len(p2) + Len(bl)
        /\ \A k \in 1..Len(p2) : p3[k] = p2[k]
        /\ \A k \in 1..Len(bl) : p3[Len(p2) + k] = bl[k]
    BY <2>1, ConcatAt
  <2> HIDE DEF p3
  <2> QED
    BY <1>1, <1>6, <2>2
<1> HIDE DEF p3
<1>8. /\ p4 \in Seq(Char) /\ Len(p4) = n + 3 + m + 1
      /\ (\A k \in 1..(n + 3 + m) : p4[k] = p3[k]) /\ \A k \in 1..1 : p4[n + 3 + m + k] = q[k]
  <2>1. p3 \in Seq(Char) /\ q \in Seq(Char)
    BY <1>1, <1>4, <1>7
  <2>2. /\ p4 \in Seq(Char) /\ Len(p4) = Len(p3) + Len(q)
        /\ \A k \in 1..Len(p3) : p4[k] = p3[k]
        /\ \A k \in 1..Len(q) : p4[Len(p3) + k] = q[k]
    BY <2>1, ConcatAt
  <2> HIDE DEF p4
  <2> QED
    BY <1>1, <1>4, <1>7, <2>2
<1> HIDE DEF p4
<1>9. Pre(b, bl) = p4
  BY DEF Pre, p4, p3, p2, p1, o, c, q
<1>10. \A k \in 1..(n + 1) : p4[k] # Key
  <2>1. p1[1] # Key
    <3>1. p1[1] = o[1]
      BY <1>5
    <3> QED
      BY <1>2, <3>1 DEF Key
  <2>2. ASSUME NEW k \in 1..(n + 1), k # 1 PROVE p1[k] # Key
    <3>1. k - 1 \in 1..n /\ 1 + (k - 1) = k
      BY <1>1, <2>2
    <3> QED
      BY <1>1, <1>5, <3>1
  <2>3. \A k \in 1..(n + 1) : k \in 1..(n + 3) /\ k \in 1..(n + 3 + m)
    BY <1>1
  <2>4. \A k \in 1..(n + 1) : p1[k] # Key
    BY <2>1, <2>2
  <2>5. \A k \in 1..(n + 1) : p4[k] = p1[k]
    BY <1>6, <1>7, <1>8, <2>3
  <2> QED
    BY <2>4, <2>5, Zenon
<1>11. p4[n + 2] = Key /\ p4[n + 3] = ":"
  <2>1. n + 2 \in 1..(n + 3) /\ n + 3 \in 1..(n + 3) /\ n + 2 \in 1..(n + 3 + m) /\ n + 3 \in 1..(n + 3 + m)
        /\ n + 2 = n + 1 + 1 /\ n + 3 = n + 1 + 2 /\ 1 \in 1..2 /\ 2 \in 1..2
    BY <1>1
  <2>2. p2[n + 1 + 1] = c[1] /\ p2[n + 1 + 2] = c[2]
    BY <1>6, <2>1, Zenon
  <2> QED
    BY <1>3, <1>7, <1>8, <2>1, <2>2
<1>12. ASSUME NEW k \in (n + 4)..(n + m + 3) PROVE p4[k] = Blank
  <2>1. k - (n + 3) \in 1..m /\ n + 3 + (k - (n + 3)) = k /\ k \in 1..(n + 3 + m)
    BY <1>1
  <2> QED
    BY <1>1, <1>7, <1>8, <2>1
<1>13. p4[n + m + 4] = QuoteMark
  <2>1. n + m + 4 = n + 3 + m + 1 /\ 1 \in 1..1
    BY <1>1
  <2> QED
    BY <1>4, <1>8, <2>1
<1>14. Len(p4) = n + m + 4
  BY <1>1, <1>8
<1> QED
  BY <1>1, <1>8, <1>9, <1>10, <1>11, <1>12, <1>13, <1>14 DEF n, m

LEMMA EndingIs == Ending \in Seq(Char) /\ Len(Ending) = 2 /\ Ending[1] = QuoteMark
BY Letters, ShortText DEF Ending

\* The body around a place in the text.
LEMMA WrappedAt ==
    ASSUME NEW b \in NoKey, NEW bl \in Seq({Blank}), NEW a \in Seq(Letter), NEW r \in Seq(Letter)
    PROVE  Wrapped(a \o r, b, bl) = (Pre(b, bl) \o WrittenText(a)) \o (WrittenText(r) \o Ending)
<1> DEFINE P == Pre(b, bl)
           A == WrittenText(a)
           R == WrittenText(r)
           E == Ending
<1>1. P \in Seq(Char) /\ A \in Seq(Char) /\ R \in Seq(Char) /\ E \in Seq(Char)
  BY PreIs, WrittenGrows, EndingIs
<1>2. Wrapped(a \o r, b, bl) = (P \o (A \o R)) \o E
  <2>1. WrittenText(a \o r) = A \o R
    BY WrittenConcat
  <2> QED
    BY <2>1, Zenon DEF Wrapped, Pre, Ending
<1> HIDE DEF P, A, R, E
<1>3. P \o (A \o R) = (P \o A) \o R
  BY <1>1, Thirds
<1>4. ((P \o A) \o R) \o E = (P \o A) \o (R \o E)
  <2> DEFINE X == P \o A
  <2>1. X \in Seq(Char)
    BY <1>1, ConcatProperties
  <2> HIDE DEF X
  <2>2. R \in Seq(Char) /\ E \in Seq(Char)
    BY <1>1
  <2>3. (X \o R) \o E = X \o (R \o E)
    BY <2>1, <2>2, Joined
  <2> QED
    BY <2>3 DEF X
<1> QED
  BY <1>2, <1>3, <1>4 DEF P, A, R, E

\* The places of the body that belong to what comes before the text.
LEMMA WrappedStart ==
    ASSUME NEW b \in NoKey, NEW bl \in Seq({Blank}), NEW s \in Seq(Letter)
    PROVE  LET t == Wrapped(s, b, bl) IN
           /\ t \in Seq(Char) /\ Len(t) \in Nat /\ Len(Pre(b, bl)) < Len(t)
           /\ \A k \in 1..Len(Pre(b, bl)) : k \in 1..Len(t) /\ t[k] = Pre(b, bl)[k]
<1> DEFINE P == Pre(b, bl)
           R == WrittenText(s) \o Ending
           t == Wrapped(s, b, bl)
<1>1. P \in Seq(Char) /\ WrittenText(s) \in Seq(Char) /\ Ending \in Seq(Char) /\ Len(Ending) = 2
  BY PreIs, WrittenGrows, EndingIs
<1>2. t = P \o R
  <2>1. t = (P \o WrittenText(s)) \o Ending
    BY Zenon DEF Wrapped, Pre, Ending
  <2> HIDE DEF P
  <2> DEFINE w == WrittenText(s)
             e == Ending
  <2>2. P \in Seq(Char) /\ w \in Seq(Char) /\ e \in Seq(Char)
    BY <1>1
  <2> HIDE DEF w, e
  <2>3. (P \o w) \o e = P \o (w \o e)
    BY <2>2, Joined
  <2> QED
    BY <2>1, <2>3 DEF w, e
<1>3. R \in Seq(Char) /\ Len(R) \in Nat /\ Len(R) > 0
  <2>1. R \in Seq(Char) /\ Len(WrittenText(s)) \in Nat /\ Len(R) = Len(WrittenText(s)) + Len(Ending)
    BY <1>1, ConcatAt
  <2> HIDE DEF R
  <2> QED
    BY <1>1, <2>1
<1> HIDE DEF P, R, t
<1>4. /\ t \in Seq(Char) /\ Len(P) \in Nat /\ Len(t) = Len(P) + Len(R)
      /\ \A k \in 1..Len(P) : t[k] = P[k]
  BY <1>1, <1>2, <1>3, ConcatAt
<1>5. Len(t) \in Nat /\ Len(P) < Len(t) /\ \A k \in 1..Len(P) : k \in 1..Len(t)
  BY <1>3, <1>4
<1> QED
  BY <1>4, <1>5 DEF P, t

LEMMA OneWritten ==
    ASSUME NEW c \in Letter
    PROVE  WrittenText(<<c>>) = WrittenChar(c)
<1>1. << >> \in Seq(Letter) /\ Append(<< >>, c) = <<c>>
  BY EmptySeq
<1>2. WrittenText(Append(<< >>, c)) = WrittenText(<< >>) \o WrittenChar(c)
  BY <1>1, WrittenGrows
<1>3. << >> \o WrittenChar(c) = WrittenChar(c)
  BY WrittenCharIs, ConcatEmptySeq
<1> QED
  BY <1>1, <1>2, <1>3, WrittenGrows

\* After q places of the body t comes the character c, as it is or marked; so far
\* the text has taken m places, with c it takes n.
NextIs(t, q, m, n, c) ==
    /\ q \in Nat /\ m \in Nat /\ n \in Nat
    /\ q + 1 \in DOMAIN t
    /\ \/ n - m = 1 /\ t[q + 1] = c /\ c \notin {QuoteMark, Backslash}
       \/ /\ n - m = 2 /\ t[q + 1] = Backslash
          /\ q + 2 \in DOMAIN t /\ Meant(t[q + 2]) = c

\* The character that comes next, and the closing quote behind the last one.
LEMMA NextChar ==
    ASSUME NEW b \in NoKey, NEW bl \in Seq({Blank}), NEW a \in Seq(Letter), NEW c \in Letter,
           NEW r \in Seq(Letter)
    PROVE  NextIs(Wrapped(a \o (<<c>> \o r), b, bl), Len(Pre(b, bl)) + Len(WrittenText(a)),
                  Len(WrittenText(a)), Len(WrittenText(Append(a, c))), c)
<1> DEFINE P == Pre(b, bl)
           A == WrittenText(a)
           C == WrittenChar(c)
           T == WrittenText(r) \o Ending
           x == P \o A
           y == C \o T
           t == Wrapped(a \o (<<c>> \o r), b, bl)
           w == WrittenText(Append(a, c))
<1>1. P \in Seq(Char) /\ A \in Seq(Char) /\ C \in Seq(Char)
      /\ WrittenText(r) \in Seq(Char) /\ Ending \in Seq(Char)
  BY PreIs, WrittenGrows, WrittenCharIs, EndingIs
<1>2. T \in Seq(Char)
  BY <1>1, ConcatProperties
<1>3. t = x \o y
  <2>1. <<c>> \in Seq(Letter) /\ <<c>> \o r \in Seq(Letter)
    BY ConcatProperties
  <2>2. t = x \o (WrittenText(<<c>> \o r) \o Ending)
    BY <2>1, WrappedAt
  <2>3. WrittenText(<<c>> \o r) = WrittenText(<<c>>) \o WrittenText(r)
    BY <2>1, WrittenConcat
  <2>4. WrittenText(<<c>>) = C
    BY OneWritten
  <2>5. (C \o WrittenText(r)) \o Ending = C \o (WrittenText(r) \o Ending)
    <3> DEFINE R == WrittenText(r)
               E == Ending
    <3>1. C \in Seq(Char) /\ R \in Seq(Char) /\ E \in Seq(Char)
      BY <1>1
    <3> HIDE DEF C, R, E, P, A, T, x, y, t, w
    <3>2. (C \o R) \o E = C \o (R \o E)
      BY <3>1, Joined
    <3> QED
      BY <3>2 DEF R, E
  <2> HIDE DEF x
  <2> QED
    BY <2>2, <2>3, <2>4, <2>5
<1>4. w = A \o C
  BY WrittenGrows
<1> HIDE DEF P, A, C, T, t, w
<1>5. /\ x \in Seq(Char) /\ Len(P) \in Nat /\ Len(A) \in Nat /\ Len(x) = Len(P) + Len(A)
  BY <1>1, ConcatAt
<1>6. /\ y \in Seq(Char) /\ Len(C) \in Nat /\ Len(T) \in Nat /\ Len(y) = Len(C) + Len(T)
      /\ \A k \in 1..Len(C) : y[k] = C[k]
  BY <1>1, <1>2, ConcatAt
<1> HIDE DEF x, y
<1>7. /\ t \in Seq(Char) /\ Len(t) = Len(x) + Len(y) /\ DOMAIN t = 1..Len(t)
      /\ \A k \in 1..Len(y) : t[Len(x) + k] = y[k]
  <2>1. x \in Seq(Char) /\ y \in Seq(Char)
    BY <1>5, <1>6
  <2>2. /\ x \o y \in Seq(Char) /\ Len(x \o y) = Len(x) + Len(y)
        /\ \A k \in 1..Len(y) : (x \o y)[Len(x) + k] = y[k]
    BY <2>1, ConcatAt
  <2>3. /\ t \in Seq(Char) /\ Len(t) = Len(x) + Len(y)
        /\ \A k \in 1..Len(y) : t[Len(x) + k] = y[k]
    BY <1>3, <2>2, Zenon
  <2> QED
    BY <2>3, LenProperties
<1>8. Len(w) = Len(A) + Len(C)
  BY <1>1, <1>4, ConcatAt
<1>9. ASSUME NEW k \in 1..Len(C)
      PROVE  Len(P) + Len(A) + k \in DOMAIN t /\ t[Len(P) + Len(A) + k] = C[k]
  <2>1. k \in 1..Len(y)
    BY <1>6
  <2>2. Len(x) + k \in 1..Len(t)
    BY <1>5, <1>6, <1>7, <2>1
  <2> QED
    BY <1>5, <1>6, <1>7, <2>1, <2>2
<1>10. \/ Len(C) = 1 /\ C[1] = c /\ c \notin {QuoteMark, Backslash}
       \/ Len(C) = 2 /\ C[1] = Backslash /\ Meant(C[2]) = c
  <2>1. CASE WrittenChar(c) = <<c>> /\ c \notin {QuoteMark, Backslash}
    BY <2>1 DEF C
  <2>2. CASE \E e \in Char : WrittenChar(c) = <<Backslash, e>> /\ Meant(e) = c
    BY <2>2 DEF C
  <2> QED
    BY <2>1, <2>2, WrittenCharIs
<1>11. Len(P) + Len(A) \in Nat /\ Len(A) \in Nat /\ Len(w) \in Nat /\ Len(w) - Len(A) = Len(C)
  BY <1>5, <1>6, <1>8
<1>12. CASE Len(C) = 1 /\ C[1] = c /\ c \notin {QuoteMark, Backslash}
  <2>1. 1 \in 1..Len(C)
    BY <1>12
  <2>2. Len(P) + Len(A) + 1 \in DOMAIN t /\ t[Len(P) + Len(A) + 1] = c
    BY <1>9, <1>12, <2>1, Zenon
  <2>3. Len(w) - Len(A) = 1
    BY <1>11, <1>12
  <2> QED
    BY <1>11, <1>12, <2>2, <2>3, Zenon DEF NextIs, P, A, t, w
<1>13. CASE Len(C) = 2 /\ C[1] = Backslash /\ Meant(C[2]) = c
  <2>1. 1 \in 1..Len(C) /\ 2 \in 1..Len(C)
    BY <1>13
  <2>2. /\ Len(P) + Len(A) + 1 \in DOMAIN t /\ t[Len(P) + Len(A) + 1] = Backslash
        /\ Len(P) + Len(A) + 2 \in DOMAIN t /\ t[Len(P) + Len(A) + 2] = C[2]
    BY <1>9, <1>13, <2>1, Zenon
  <2>3. Len(w) - Len(A) = 2
    BY <1>11, <1>13
  <2> QED
    BY <1>11, <1>13, <2>2, <2>3, Zenon DEF NextIs, P, A, t, w
<1> QED
  BY <1>10, <1>12, <1>13

LEMMA LastChar ==
    ASSUME NEW b \in NoKey, NEW bl \in Seq({Blank}), NEW a \in Seq(Letter)
    PROVE  LET t == Wrapped(a, b, bl)
               q == Len(Pre(b, bl)) + Len(WrittenText(a))
           IN  q \in Nat /\ q + 1 \in DOMAIN t /\ t[q + 1] = QuoteMark
<1> DEFINE P == Pre(b, bl)
           A == WrittenText(a)
           x == P \o A
           t == Wrapped(a, b, bl)
<1>1. P \in Seq(Char) /\ A \in Seq(Char)
  BY PreIs, WrittenGrows
<1>2. Ending \in Seq(Char) /\ Len(Ending) = 2 /\ Ending[1] = QuoteMark
  BY EndingIs
<1>3. t = x \o Ending
  BY Zenon DEF Wrapped, Pre, Ending
<1> HIDE DEF P, A, t
<1>4. /\ x \in Seq(Char) /\ Len(P) \in Nat /\ Len(A) \in Nat /\ Len(x) = Len(P) + Len(A)
  BY <1>1, ConcatAt
<1> HIDE DEF x
<1>5. /\ t \in Seq(Char) /\ Len(t) = Len(x) + Len(Ending) /\ DOMAIN t = 1..Len(t)
      /\ \A k \in 1..Len(Ending) : t[Len(x) + k] = Ending[k]
  <2>1. x \in Seq(Char) /\ Ending \in Seq(Char)
    BY <1>2, <1>4
  <2>2. /\ x \o Ending \in Seq(Char) /\ Len(x \o Ending) = Len(x) + Len(Ending)
        /\ \A k \in 1..Len(Ending) : (x \o Ending)[Len(x) + k] = Ending[k]
    BY <2>1, ConcatAt
  <2>3. /\ t \in Seq(Char) /\ Len(t) = Len(x) + Len(Ending)
        /\ \A k \in 1..Len(Ending) : t[Len(x) + k] = Ending[k]
    BY <1>3, <2>2, Zenon
  <2> QED
    BY <2>3, LenProperties
<1>6. t[Len(x) + 1] = Ending[1]
  <2>1. 1 \in 1..Len(Ending)
    BY <1>2
  <2> QED
    BY <1>5, <2>1, Zenon
<1>7. Len(x) + 1 \in 1..Len(t)
  BY <1>2, <1>4, <1>5
<1>8. Len(P) + Len(A) \in Nat /\ Len(P) + Len(A) + 1 \in DOMAIN t /\ t[Len(P) + Len(A) + 1] = QuoteMark
  BY <1>2, <1>4, <1>5, <1>6, <1>7
<1> QED
  BY <1>8, Zenon DEF P, A, t

-----------------------------------------------------------------------------
(* How far the reading of such a body is.                                  *)

\* Outside the text nothing is written; inside it, the beginning of the text, and
\* what is left of it stands from pos on.  After a backslash pos is at what it means.
AtLetter(s, b, bl) ==
    \E r \in Seq(Letter) :
        s = out \o r /\ pos = Len(Pre(b, bl)) + Len(WrittenText(out)) + 1

AfterMark(s, b, bl) ==
    \E c \in Letter, r \in Seq(Letter) :
        /\ s = out \o (<<c>> \o r) /\ pos \in DOMAIN body /\ Meant(body[pos]) = c
        /\ pos = Len(Pre(b, bl)) + Len(WrittenText(Append(out, c)))

Reading(s, b, bl) ==
    /\ outcome \in {"receive", "find", "blanks"} => out = << >> /\ escape = FALSE
    /\ outcome = "blanks" => pos \in (Len(b) + 4)..Len(Pre(b, bl))
    /\ outcome = "scan" =>
          /\ out \in Seq(Letter)
          /\ escape \in BOOLEAN
          /\ IF escape THEN AfterMark(s, b, bl) ELSE AtLetter(s, b, bl)
    /\ outcome = "ok" => out = s
    /\ outcome = "failed" => Len(s) >= OutCap - 1

LEMMA LeastIs ==
    ASSUME NEW S, S \subseteq Nat, NEW m \in S, \A j \in S : m <= j
    PROVE  Least(S) = m
<1>1. Least(S) \in S
  BY LeastIn
<1>2. \A j \in S : Least(S) <= j
  BY DEF Least
<1>3. Least(S) <= m /\ m <= Least(S) /\ m \in Nat /\ Least(S) \in Nat
  BY <1>1, <1>2
<1> QED
  BY <1>3

LEMMA KeyFound ==
    ASSUME NEW b \in NoKey, NEW bl \in Seq({Blank}), NEW s \in Seq(Letter),
           body = Wrapped(s, b, bl)
    PROVE  HasKey /\ Colons # {} /\ Least(Colons) = Len(b) + 3
<1> DEFINE P == Pre(b, bl)
<1>1. /\ body \in Seq(Char) /\ Len(body) \in Nat /\ DOMAIN body = 1..Len(body)
      /\ \A k \in 1..Len(P) : k \in 1..Len(body) /\ body[k] = P[k]
  BY WrappedStart, LenProperties
<1>2. /\ Len(b) \in Nat /\ Len(bl) \in Nat /\ Len(P) = Len(b) + Len(bl) + 4
      /\ \A k \in 1..(Len(b) + 1) : P[k] # Key
      /\ P[Len(b) + 2] = Key /\ P[Len(b) + 3] = ":"
  BY PreIs
<1> HIDE DEF P
<1>3. /\ Len(b) + 2 \in 1..Len(P) /\ Len(b) + 3 \in 1..Len(P)
      /\ \A k \in 1..(Len(b) + 1) : k \in 1..Len(P)
  BY <1>2
<1>4. /\ Len(b) + 2 \in DOMAIN body /\ body[Len(b) + 2] = Key
      /\ Len(b) + 3 \in DOMAIN body /\ body[Len(b) + 3] = ":"
      /\ \A k \in 1..(Len(b) + 1) : body[k] # Key
  BY <1>1, <1>2, <1>3
<1>5. HasKey
  BY <1>4 DEF HasKey
<1>6. KeyAt = Len(b) + 2
  <2> DEFINE S == {k \in DOMAIN body : body[k] = Key}
  <2>1. S \subseteq Nat /\ Len(b) + 2 \in S
    BY <1>1, <1>4
  <2>2. ASSUME NEW k \in S PROVE Len(b) + 2 <= k
    <3>1. k \in DOMAIN body /\ body[k] = Key
      OBVIOUS
    <3>2. k \notin 1..(Len(b) + 1)
      BY <1>4, <3>1
    <3>3. k \in Nat /\ k >= 1
      BY <1>1, <3>1
    <3> QED
      BY <1>2, <3>2, <3>3
  <2> HIDE DEF S
  <2>3. Least(S) = Len(b) + 2
    BY <2>1, <2>2, LeastIs
  <2> QED
    BY <2>3 DEF S, KeyAt
<1>7. Colons \subseteq Nat /\ Len(b) + 3 \in Colons
  BY <1>1, <1>2, <1>4, <1>6 DEF Colons
<1>8. \A k \in Colons : Len(b) + 3 <= k
  BY <1>1, <1>2, <1>6 DEF Colons
<1>9. Least(Colons) = Len(b) + 3
  BY <1>7, <1>8, LeastIs
<1> QED
  BY <1>5, <1>7, <1>9

\* A text is refused when what has been written of it leaves no room in the buffer.
LEMMA TooLong ==
    ASSUME NEW s, NEW r \in Seq(Letter), out \in Seq(Letter), s = out \o r, ~(Len(out) < OutCap - 1)
    PROVE  Len(s) >= OutCap - 1
<1>1. Len(s) = Len(out) + Len(r) /\ Len(out) \in Nat /\ Len(r) \in Nat
  BY ConcatProperties, LenProperties
<1> QED
  BY <1>1, BodyAssumption

\* What stands at pos, inside the text or at its end.
LEMMA AtText ==
    ASSUME NEW b \in NoKey, NEW bl \in Seq({Blank}), NEW s \in Seq(Letter),
           body = Wrapped(s, b, bl), out \in Seq(Letter), AtLetter(s, b, bl)
    PROVE  /\ pos \in DOMAIN body
           /\ \/ s = out /\ body[pos] = QuoteMark
              \/ \E c \in Letter, r \in Seq(Letter) :
                    /\ s = out \o (<<c>> \o r)
                    /\ \/ /\ body[pos] = c /\ c \notin {QuoteMark, Backslash}
                          /\ pos = Len(Pre(b, bl)) + Len(WrittenText(Append(out, c)))
                       \/ /\ body[pos] = Backslash /\ pos + 1 \in DOMAIN body /\ Meant(body[pos + 1]) = c
                          /\ pos + 1 = Len(Pre(b, bl)) + Len(WrittenText(Append(out, c)))
<1> DEFINE q == Len(Pre(b, bl)) + Len(WrittenText(out))
<1>1. PICK r \in Seq(Letter) : s = out \o r /\ pos = q + 1
  BY Zenon DEF AtLetter
<1>2. CASE r = << >>
  <2>1. out \o << >> = out
    BY ConcatEmptySeq
  <2>2. s = out
    BY <1>1, <1>2, <2>1
  <2>3. body = Wrapped(out, b, bl)
    BY <2>2
  <2>4. q + 1 \in DOMAIN body /\ body[q + 1] = QuoteMark
    BY <2>3, LastChar
  <2> QED
    BY <1>1, <2>2, <2>4
<1>3. CASE r # << >>
  <2>1. Head(r) \in Letter /\ Tail(r) \in Seq(Letter) /\ r = <<Head(r)>> \o Tail(r)
    BY <1>3
  <2>2. PICK c \in Letter, u \in Seq(Letter) : r = <<c>> \o u
    BY <2>1
  <2> DEFINE t == Wrapped(out \o (<<c>> \o u), b, bl)
             n == Len(WrittenText(Append(out, c)))
  <2>3. s = out \o (<<c>> \o u) /\ body = t
    BY <1>1, <2>2
  <2>4. /\ q \in Nat /\ Len(WrittenText(out)) \in Nat /\ n \in Nat
        /\ q + 1 \in DOMAIN t
        /\ \/ n - Len(WrittenText(out)) = 1 /\ t[q + 1] = c /\ c \notin {QuoteMark, Backslash}
           \/ /\ n - Len(WrittenText(out)) = 2 /\ t[q + 1] = Backslash
              /\ q + 2 \in DOMAIN t /\ Meant(t[q + 2]) = c
    <3>1. NextIs(t, q, Len(WrittenText(out)), n, c)
      BY NextChar
    <3> QED
      BY <3>1, Zenon DEF NextIs
  <2> HIDE DEF t, n
  <2>5. Len(Pre(b, bl)) \in Nat
    BY PreIs
  <2>6. pos = q + 1 /\ pos + 1 = q + 2 /\ pos \in DOMAIN body
    BY <1>1, <2>3, <2>4
  <2>7. CASE n - Len(WrittenText(out)) = 1 /\ t[q + 1] = c /\ c \notin {QuoteMark, Backslash}
    <3>1. pos = Len(Pre(b, bl)) + n
      BY <1>1, <2>4, <2>5, <2>7
    <3>2. body[pos] = c
      BY <2>3, <2>6, <2>7
    <3> QED
      BY <2>3, <2>6, <2>7, <3>1, <3>2, Zenon DEF n
  <2>8. CASE /\ n - Len(WrittenText(out)) = 2 /\ t[q + 1] = Backslash
             /\ q + 2 \in DOMAIN t /\ Meant(t[q + 2]) = c
    <3>1. pos + 1 = Len(Pre(b, bl)) + n
      BY <1>1, <2>4, <2>5, <2>8
    <3>2. body[pos] = Backslash /\ pos + 1 \in DOMAIN body /\ Meant(body[pos + 1]) = c
      BY <2>3, <2>6, <2>8
    <3> QED
      BY <2>3, <2>6, <3>1, <3>2, Zenon DEF n
  <2> QED
    BY <2>4, <2>7, <2>8
<1> QED
  BY <1>2, <1>3

\* One more character of the text is written.
LEMMA Passed ==
    ASSUME NEW b, NEW bl, NEW s, NEW c \in Letter, NEW r \in Seq(Letter), out \in Seq(Letter),
           s = out \o (<<c>> \o r), out' = Append(out, c),
           pos' = Len(Pre(b, bl)) + Len(WrittenText(Append(out, c))) + 1
    PROVE  out' \in Seq(Letter) /\ AtLetter(s, b, bl)'
<1>1. Append(out, c) \in Seq(Letter) /\ <<c>> \in Seq(Letter)
  BY AppendProperties
<1>2. out \o (<<c>> \o r) = (out \o <<c>>) \o r
  BY <1>1, Thirds
<1>3. out \o <<c>> = Append(out, c)
  BY AppendIsConcat
<1>4. s = Append(out, c) \o r
  BY <1>2, <1>3
<1>5. AtLetter(s, b, bl)'
  BY <1>4, Zenon DEF AtLetter
<1> QED
  BY <1>1, <1>5

LEMMA ReceiveReading ==
    ASSUME NEW b, NEW bl, NEW s, Reading(s, b, bl), ReadBody
    PROVE  Reading(s, b, bl)'
BY DEF Reading, ReadBody, TooLarge, Receive, ReceiveFails, Received, Return

LEMMA FindReading ==
    ASSUME NEW b \in NoKey, NEW bl \in Seq({Blank}), NEW s \in Seq(Letter),
           body = Wrapped(s, b, bl), Reading(s, b, bl), PlainBody \/ FindValue
    PROVE  Reading(s, b, bl)'
<1>1. HasKey /\ Colons # {} /\ Least(Colons) = Len(b) + 3
  BY KeyFound
<1>2. outcome = "find" /\ outcome' = "blanks" /\ out' = out /\ escape' = escape
      /\ pos' = Len(b) + 3 + 1
  BY <1>1 DEF PlainBody, FindValue
<1>3. Len(b) \in Nat /\ Len(bl) \in Nat /\ Len(Pre(b, bl)) = Len(b) + Len(bl) + 4
  BY PreIs
<1>4. pos' \in (Len(b) + 4)..Len(Pre(b, bl))
  BY <1>2, <1>3
<1> QED
  BY <1>2, <1>4 DEF Reading

LEMMA BlankReading ==
    ASSUME NEW b \in NoKey, NEW bl \in Seq({Blank}), NEW s \in Seq(Letter),
           body = Wrapped(s, b, bl), Reading(s, b, bl), SkipBlank \/ OpenQuote
    PROVE  Reading(s, b, bl)'
<1> DEFINE P == Pre(b, bl)
<1>1. outcome = "blanks" /\ out = << >> /\ escape = FALSE /\ pos \in (Len(b) + 4)..Len(P)
      /\ out' = out /\ escape' = escape
  BY DEF Reading, SkipBlank, OpenQuote, Return
<1>2. /\ Len(b) \in Nat /\ Len(bl) \in Nat /\ Len(P) = Len(b) + Len(bl) + 4
      /\ \A k \in (Len(b) + 4)..(Len(b) + Len(bl) + 3) : P[k] = Blank
      /\ P[Len(b) + Len(bl) + 4] = QuoteMark
  BY PreIs
<1>3. /\ Len(body) \in Nat /\ DOMAIN body = 1..Len(body)
      /\ \A k \in 1..Len(P) : k \in 1..Len(body) /\ body[k] = P[k]
  BY WrappedStart, LenProperties
<1> HIDE DEF P
<1>4. pos \in 1..Len(P)
  BY <1>1, <1>2
<1>5. pos \in DOMAIN body /\ body[pos] = P[pos]
  BY <1>3, <1>4
<1>6. CASE pos = Len(P)
  <2>1. body[pos] = QuoteMark
    BY <1>2, <1>5, <1>6
  <2>2. body[pos] # Blank
    BY <2>1 DEF QuoteMark, Blank
  <2>3. outcome' = "scan" /\ pos' = Len(P) + 1
    BY <1>5, <1>6, <2>1, <2>2 DEF SkipBlank, OpenQuote
  <2>4. << >> \in Seq(Letter) /\ << >> \o s = s /\ Len(WrittenText(<< >>)) = 0
    BY EmptySeq, ConcatEmptySeq, WrittenGrows
  <2>5. Len(P) + 1 = Len(P) + 0 + 1
    BY <1>2
  <2>6. AtLetter(s, b, bl)'
    <3>1. s = out' \o s /\ pos' = Len(P) + Len(WrittenText(out')) + 1
      BY <1>1, <2>3, <2>4, <2>5
    <3> QED
      BY <3>1, Zenon DEF AtLetter, P
  <2> QED
    BY <1>1, <2>3, <2>4, <2>6 DEF Reading
<1>7. CASE pos # Len(P)
  <2>1. pos \in (Len(b) + 4)..(Len(b) + Len(bl) + 3)
    BY <1>1, <1>2, <1>7
  <2>2. body[pos] = Blank
    BY <1>2, <1>5, <2>1
  <2>3. outcome' = outcome /\ pos' = pos + 1
    BY <1>5, <2>2 DEF SkipBlank, OpenQuote
  <2>4. pos' \in (Len(b) + 4)..Len(P)
    BY <1>2, <2>1, <2>3
  <2> QED
    BY <1>1, <2>3, <2>4 DEF Reading, P
<1> QED
  BY <1>6, <1>7

LEMMA ScanReading ==
    ASSUME NEW b \in NoKey, NEW bl \in Seq({Blank}), NEW s \in Seq(Letter),
           body = Wrapped(s, b, bl), Reading(s, b, bl),
           AfterBackslash \/ StartEscape \/ CloseQuote \/ Copy \/ OutOfText
    PROVE  Reading(s, b, bl)'
<1>1. outcome = "scan" /\ out \in Seq(Letter) /\ escape \in BOOLEAN /\ body' = body
  BY DEF Reading, AfterBackslash, StartEscape, CloseQuote, Copy, OutOfText, InText, Return
<1>2. CASE escape = TRUE
  <2>1. PICK c \in Letter, r \in Seq(Letter) :
            /\ s = out \o (<<c>> \o r) /\ pos \in DOMAIN body /\ Meant(body[pos]) = c
            /\ pos = Len(Pre(b, bl)) + Len(WrittenText(Append(out, c)))
    BY <1>1, <1>2, Zenon DEF Reading, AfterMark
  <2>2. CASE AfterBackslash
    <3>1. out' = Append(out, c) /\ escape' = FALSE /\ pos' = pos + 1 /\ outcome' = outcome
      BY <2>1, <2>2 DEF AfterBackslash
    <3>2. out' \in Seq(Letter) /\ AtLetter(s, b, bl)'
      BY <1>1, <2>1, <3>1, Passed
    <3> QED
      BY <1>1, <3>1, <3>2 DEF Reading
  <2>3. CASE OutOfText
    <3>1. <<c>> \in Seq(Letter) /\ <<c>> \o r \in Seq(Letter)
      BY ConcatProperties
    <3>2. \E u \in Seq(Letter) : s = out \o u
      BY <2>1, <3>1, Zenon
    <3> QED
      BY <1>1, <2>1, <2>3, <3>2, TooLong DEF OutOfText, InText, Return, Reading
  <2> QED
    BY <1>2, <2>2, <2>3 DEF StartEscape, CloseQuote, Copy, PlainChar
<1>3. CASE escape = FALSE
  <2>1. AtLetter(s, b, bl)
    BY <1>1, <1>3 DEF Reading
  <2>2. /\ pos \in DOMAIN body
        /\ \/ s = out /\ body[pos] = QuoteMark
           \/ \E c \in Letter, r \in Seq(Letter) :
                 /\ s = out \o (<<c>> \o r)
                 /\ \/ /\ body[pos] = c /\ c \notin {QuoteMark, Backslash}
                       /\ pos = Len(Pre(b, bl)) + Len(WrittenText(Append(out, c)))
                    \/ /\ body[pos] = Backslash /\ pos + 1 \in DOMAIN body /\ Meant(body[pos + 1]) = c
                       /\ pos + 1 = Len(Pre(b, bl)) + Len(WrittenText(Append(out, c)))
    BY <1>1, <2>1, AtText
  <2>3. CASE StartEscape
    <3>1. body[pos] # QuoteMark /\ body[pos] \in {QuoteMark, Backslash}
      BY <2>3 DEF StartEscape, QuoteMark, Backslash
    <3>2. PICK c \in Letter, r \in Seq(Letter) :
                 /\ s = out \o (<<c>> \o r)
                 /\ pos + 1 \in DOMAIN body /\ Meant(body[pos + 1]) = c
                 /\ pos + 1 = Len(Pre(b, bl)) + Len(WrittenText(Append(out, c)))
      BY <2>2, <3>1, Zenon
    <3>3. out' = out /\ escape' = TRUE /\ pos' = pos + 1 /\ outcome' = outcome
      BY <2>3 DEF StartEscape
    <3>4. AfterMark(s, b, bl)'
      BY <1>1, <3>2, <3>3, Zenon DEF AfterMark
    <3> QED
      BY <1>1, <3>3, <3>4 DEF Reading
  <2>4. CASE CloseQuote
    <3>1. body[pos] # Backslash /\ body[pos] \in {QuoteMark, Backslash}
      BY <2>4 DEF CloseQuote, QuoteMark, Backslash
    <3>2. s = out
      BY <2>2, <3>1, Zenon
    <3> QED
      BY <2>4, <3>2 DEF CloseQuote, Return, Reading
  <2>5. CASE Copy
    <3>1. body[pos] \notin {QuoteMark, Backslash}
      BY <2>5 DEF Copy
    <3>2. PICK c \in Letter, r \in Seq(Letter) :
                 /\ s = out \o (<<c>> \o r) /\ body[pos] = c
                 /\ pos = Len(Pre(b, bl)) + Len(WrittenText(Append(out, c)))
      <4>1. body[pos] # QuoteMark /\ body[pos] # Backslash
        BY <3>1
      <4> QED
        BY <2>2, <4>1, Zenon
    <3>3. out' = Append(out, c) /\ escape' = FALSE /\ pos' = pos + 1 /\ outcome' = outcome
      BY <1>3, <2>5, <3>2 DEF Copy
    <3>4. out' \in Seq(Letter) /\ AtLetter(s, b, bl)'
      BY <1>1, <3>2, <3>3, Passed
    <3> QED
      BY <1>1, <3>3, <3>4 DEF Reading
  <2>6. CASE OutOfText
    <3>1. \E r \in Seq(Letter) : s = out \o r
      BY <2>1 DEF AtLetter
    <3> QED
      BY <1>1, <2>2, <2>6, <3>1, TooLong DEF OutOfText, InText, Return, Reading
  <2> QED
    BY <1>3, <2>3, <2>4, <2>5, <2>6 DEF AfterBackslash, PlainChar
<1> QED
  BY <1>1, <1>2, <1>3

\* Every body that holds a text as a member is read as far as it was.
ReadingAll ==
    \A s \in Seq(Letter), b \in NoKey, bl \in Seq({Blank}) :
        body = Wrapped(s, b, bl) => Reading(s, b, bl)

LEMMA InitReading == BodyInit => ReadingAll
BY DEF BodyInit, ReadingAll, Reading

LEMMA ReadingStep == ReadingAll /\ [BodyNext]_bodyVars => ReadingAll'
<1> SUFFICES ASSUME ReadingAll, [BodyNext]_bodyVars,
                    NEW s \in Seq(Letter), NEW b \in NoKey, NEW bl \in Seq({Blank}),
                    body' = Wrapped(s, b, bl)
             PROVE  Reading(s, b, bl)'
  BY DEF ReadingAll
<1>1. body' = body
  BY DEF BodyNext, ReadBody, Extract, bodyVars, TooLarge, Receive, ReceiveFails, Received,
         PlainBody, FindValue, SkipBlank, OpenQuote, AfterBackslash, StartEscape, CloseQuote, Copy,
         OutOfText, Return
<1>2. body = Wrapped(s, b, bl)
  BY <1>1
<1>3. Reading(s, b, bl)
  BY <1>2 DEF ReadingAll
<1>4. CASE ReadBody
  BY <1>3, <1>4, ReceiveReading
<1>5. CASE PlainBody \/ FindValue
  BY <1>2, <1>3, <1>5, FindReading
<1>6. CASE SkipBlank \/ OpenQuote
  BY <1>2, <1>3, <1>6, BlankReading
<1>7. CASE AfterBackslash \/ StartEscape \/ CloseQuote \/ Copy \/ OutOfText
  BY <1>2, <1>3, <1>7, ScanReading
<1>8. CASE UNCHANGED bodyVars
  BY <1>3, <1>8 DEF bodyVars, Reading, AtLetter, AfterMark
<1> QED
  BY <1>4, <1>5, <1>6, <1>7, <1>8 DEF BodyNext, Extract

\* What ExtractsTheGraph says of a few short texts, for every text, whatever members
\* stand before it and however many blanks.
ExtractsEveryGraph ==
    outcome \in {"ok", "failed"} =>
        \A s \in Seq(Letter), b \in NoKey, bl \in Seq({Blank}) : Extracts(s, b, bl)

LEMMA ReadingExtracts == ReadingAll => ExtractsEveryGraph
<1> SUFFICES ASSUME ReadingAll, outcome \in {"ok", "failed"},
                    NEW s \in Seq(Letter), NEW b \in NoKey, NEW bl \in Seq({Blank}),
                    body = Wrapped(s, b, bl)
             PROVE  IF outcome = "ok" THEN out = s ELSE Len(s) >= OutCap - 1
  BY DEF ExtractsEveryGraph, Extracts
<1>1. Reading(s, b, bl)
  BY DEF ReadingAll
<1> QED
  BY <1>1 DEF Reading

LEMMA FourLetters ==
    ASSUME NEW S, NEW v \in S, NEW x \in S, NEW y \in S, NEW z \in S
    PROVE  <<v, x, y, z>> \in Seq(S) /\ Len(<<v, x, y, z>>) = 4
OBVIOUS

\* The texts and members of the run are among them.
LEMMA RunTexts ==
    /\ GraphText \subseteq Seq(Letter)
    /\ Before \subseteq NoKey
    /\ Blanks \subseteq Seq({Blank})
<1>1. GraphText \subseteq Seq(Letter)
  <2> SUFFICES ASSUME NEW s \in GraphText PROVE s \in Seq(Letter)
    OBVIOUS
  <2>1. PICK k \in 0..3 : s \in [1..k -> {"a", QuoteMark, Backslash, "newline"}]
    BY DEF GraphText
  <2>2. {"a", QuoteMark, Backslash, "newline"} \subseteq Letter
    BY Zenon DEF Letter
  <2>3. s \in [1..k -> Letter]
    BY <2>1, <2>2
  <2> QED
    BY <2>3
<1>2. Before \subseteq NoKey
  <2> DEFINE b == <<"name", ":", "a", ",">>
  <2>1. << >> \in NoKey
    BY EmptySeq DEF NoKey
  <2>2. "name" \in Letter /\ ":" \in Letter /\ "a" \in Letter /\ "," \in Letter
    BY Zenon DEF Letter
  <2>3. b \in Seq(Letter) /\ Len(b) = 4
    BY <2>2, FourLetters
  <2>4. \A k \in 1..4 : k = 1 \/ k = 2 \/ k = 3 \/ k = 4
    OBVIOUS
  <2>5. b[1] # Key /\ b[2] # Key /\ b[3] # Key /\ b[4] # Key
    BY DEF Key
  <2>6. \A k \in 1..4 : b[k] # Key
    BY <2>4, <2>5, Zenon
  <2> HIDE DEF b
  <2>7. b \in NoKey
    BY <2>3, <2>6 DEF NoKey
  <2> QED
    BY <2>1, <2>7 DEF Before, b
<1>3. Blanks \subseteq Seq({Blank})
  BY EmptySeq DEF Blanks
<1> QED
  BY <1>1, <1>2, <1>3

LEMMA EveryGivesRun == ExtractsEveryGraph => ExtractsTheGraph
BY RunTexts DEF ExtractsEveryGraph, ExtractsTheGraph

\* What is taken out of a body is the text the page wrote into it, for texts of any
\* length and content; it is refused only if it does not fit (extract_graph_json).
THEOREM ExtractsEveryGraphAlways == BodySpec => []ExtractsEveryGraph
BY InitReading, ReadingStep, ReadingExtracts, PTL DEF BodySpec

THEOREM ExtractsTheGraphAlways == BodySpec => []ExtractsTheGraph
BY ExtractsEveryGraphAlways, EveryGivesRun, PTL

-----------------------------------------------------------------------------
(* The builder, for every text, every image size and every width of the    *)
(* fields: the reading never leaves the text, nor the writing the image.   *)

\* What a search returns is NULL or the first of the places it looks for.
LEMMA FirstOf ==
    ASSUME NEW S, S \subseteq Nat, S # {}
    PROVE  First(S) \in S /\ \A k \in S : First(S) <= k
<1> DEFINE R == OpToRel(<, Nat)
<1>1. IsWellFoundedOn(R, Nat)
  BY NatLessThanWellFounded
<1> HIDE DEF R
<1>2. PICK x \in S : \A y \in S : ~(<<y, x>> \in R)
  BY <1>1, WFMin
<1>3. \A y \in S : ~(y < x)
  BY <1>2 DEF R, OpToRel
<1>4. \A y \in S : x <= y
  BY <1>3
<1> QED
  BY <1>4 DEF First

LEMMA FirstIn ==
    ASSUME NEW S, S \subseteq Nat
    PROVE  First(S) \in S \cup {NULL}
BY FirstOf DEF First

LEMMA strchrType ==
    ASSUME NEW t \in Seq(STRING), NEW from, NEW c
    PROVE  strchr(t, from, c) \in 0..Len(t)
<1> DEFINE S == {k \in DOMAIN t : k >= from /\ t[k] = c}
<1>1. Len(t) \in Nat /\ S \subseteq 1..Len(t)
  OBVIOUS
<1>2. S \subseteq Nat
  BY <1>1
<1> HIDE DEF S
<1>3. First(S) \in S \cup {NULL}
  BY <1>2, FirstIn
<1>4. PICK m \in S \cup {NULL} : m = First(S)
  BY <1>3
<1>5. m \in 0..Len(t)
  BY <1>1 DEF NULL
<1> QED
  BY <1>4, <1>5, Zenon DEF strchr, S

-----------------------------------------------------------------------------
(* The node that is made of an object                                      *)

LEMMA IntType ==
    ASSUME NEW obj, NEW key, NEW default \in Int
    PROVE  json_get_int32(obj, key, default) \in Int
<1>1. \A token : strtol(token) \in Int
  BY BuilderAssumption DEF strtol
<1> QED
  BY <1>1 DEF json_get_int32

LEMMA WidthType ==
    ASSUME NEW v \in Int
    PROVE  /\ uint16(v) \in 0..(Width16 - 1) /\ uint32(v) \in 0..(Width32 - 1)
           /\ int16(v) \in -Width16..(Width16 - 1)
<1>1. Width16 \in Nat \ {0} /\ Width32 \in Nat \ {0}
  BY BuilderAssumption
<1>2. v % Width16 \in 0..(Width16 - 1) /\ v % Width32 \in 0..(Width32 - 1)
  BY <1>1
<1>3. Width16 \div 2 \in 0..Width16
  BY <1>1
<1>4. (v + Width16 \div 2) % Width16 \in 0..(Width16 - 1)
  BY <1>1, <1>3
<1>5. int16(v) \in -Width16..(Width16 - 1)
  BY <1>1, <1>3, <1>4 DEF int16
<1> QED
  BY <1>2, <1>5 DEF uint16, uint32

LEMMA NamesType ==
    ASSUME NEW s
    PROVE  parse_node_type(s) \in NodeType /\ parse_value_type(s) \in ValueType
<1> USE DEF NodeType, ExecutableType, ConstType, OutputType, TimerType, BinaryType, CounterType,
            ValueType
<1>1. \A name \in DOMAIN TypeNames : TypeNames[name] \in NodeType
  BY DEF TypeNames
<1>2. parse_node_type(s) \in NodeType
  BY <1>1 DEF parse_node_type, Named
<1>3. parse_value_type(s) \in ValueType
  BY DEF parse_value_type, Named
<1> QED
  BY <1>2, <1>3

LEMMA NodeFits ==
    ASSUME NEW obj
    PROVE  FieldsFit(parse_node(obj))
<1> DEFINE id == json_get_int32(obj, "id", 0)
           ms == json_get_int32(obj, "paramMs", 0)
           a  == json_get_int32(obj, "inA", 0)
           b  == json_get_int32(obj, "inB", 0)
           param == json_get_int32(obj, "paramInt", 0)
           type  == parse_node_type(json_get_string(obj, "type"))
           valueType == IF HasString(obj, "valueType")
                        THEN parse_value_type(json_get_string(obj, "valueType")) ELSE "BOOL"
           force == uint32(json_get_int32(obj, "flags", 0)) % 2 = 1
<1>1. id \in Int /\ ms \in Int /\ a \in Int /\ b \in Int /\ param \in Int
  BY IntType
<1>2. type \in NodeType /\ valueType \in ValueType /\ force \in BOOLEAN
  BY NamesType DEF ValueType
<1>3. parse_node(obj) =
        [id |-> uint16(id), type |-> type, valueType |-> valueType,
         inA |-> int16(a), inB |-> int16(b), paramInt |-> param, paramMs |-> uint32(ms),
         force_flag |-> force,
         out |-> FALSE, force_en |-> FALSE, force_bool |-> FALSE, force_left_ms |-> 0]
  BY Zenon DEF parse_node
<1> HIDE DEF id, ms, a, b, param, type, valueType, force
<1>4. /\ uint16(id) \in 0..(Width16 - 1) /\ uint32(ms) \in 0..(Width32 - 1)
      /\ int16(a) \in -Width16..(Width16 - 1) /\ int16(b) \in -Width16..(Width16 - 1)
  BY <1>1, WidthType
<1>5. Width16 \in Nat \ {0} /\ Width32 \in Nat \ {0}
  BY BuilderAssumption
<1>6. parse_node(obj) \in Node
  BY <1>1, <1>2, <1>3, <1>4, <1>5 DEF Node
<1> QED
  BY <1>3, <1>4, <1>5, <1>6 DEF FieldsFit

-----------------------------------------------------------------------------
(* The reading                                                             *)

LEMMA BuilderInitType == BuilderInit => BuilderTypeOK
<1> SUFFICES ASSUME BuilderInit PROVE BuilderTypeOK
  OBVIOUS
<1>1. << >> \in [{} -> Node]
  OBVIOUS
<1>2. 0..(0 - 1) = {}
  OBVIOUS
<1>3. IsGraph(image)
  BY <1>1, <1>2 DEF BuilderInit, IsGraph, EmptyGraph, NodeIndex
<1>4. image.nodeCount = 0 /\ 0 \in 0..GraphMaxNodes
  BY BuilderAssumption DEF BuilderInit, EmptyGraph
<1>5. \A k \in NodeIndex(image) : FieldsFit(image.nodes[k])
  BY <1>2, <1>4 DEF NodeIndex
<1>6. text \in Seq(STRING) /\ p \in 0..(Len(text) + 1)
  BY BuilderAssumption DEF BuilderInit
<1> QED
  BY <1>3, <1>4, <1>5, <1>6 DEF BuilderInit, BuilderTypeOK, BuilderOutcome

LEMMA FailKeeps ==
    ASSUME BuilderTypeOK, NEW error \in BuilderOutcome, Fail(error)
    PROVE  BuilderTypeOK'
  BY DEF BuilderTypeOK, Fail, FieldsFit, IsGraph, NodeIndex

LEMMA BeginKeeps == BuilderTypeOK /\ Begin => BuilderTypeOK'
<1> SUFFICES ASSUME BuilderTypeOK, Begin PROVE BuilderTypeOK'
  OBVIOUS
<1> DEFINE nodes == Quoted(text, "nodes")
           array == strchr(text, nodes, "[")
           cycle == uint32(json_get_int32(text, "cycleMs", DefaultCycle))
<1>1. text \in Seq(STRING) /\ Len(text) \in Nat
  BY DEF BuilderTypeOK
<1>2. array \in 0..Len(text)
  BY <1>1, strchrType
<1>3. cycle \in Nat
  BY IntType, WidthType, BuilderAssumption
<1>4. CASE nodes = NULL \/ array = NULL
  BY <1>4, FailKeeps DEF Begin, BuilderOutcome
<1>5. CASE ~(nodes = NULL \/ array = NULL)
  <2>1. result' = "loop" /\ p' = array + 1 /\ image' = [image EXCEPT !.cycleMs = cycle]
        /\ text' = text
    BY <1>5 DEF Begin
  <2> HIDE DEF array, cycle
  <2>2. IsGraph(image') /\ image'.nodeCount = image.nodeCount /\ image'.nodes = image.nodes
    BY <1>3, <2>1 DEF BuilderTypeOK, IsGraph, NodeIndex
  <2>3. p' \in 0..(Len(text) + 1)
    BY <1>1, <1>2, <2>1
  <2>4. \A k \in NodeIndex(image)' : FieldsFit(image'.nodes[k])
    BY <2>2 DEF BuilderTypeOK, NodeIndex
  <2> QED
    BY <2>1, <2>2, <2>3, <2>4 DEF BuilderTypeOK, BuilderOutcome
<1> QED
  BY <1>4, <1>5

LEMMA Replaced ==
    ASSUME NEW c, NEW k, NEW old, NEW count, NEW f, NEW g,
           g = [cycleMs |-> c, nodeCount |-> k, nodes |-> old]
    PROVE  [g EXCEPT !.nodeCount = count, !.nodes = f]
              = [cycleMs |-> c, nodeCount |-> count, nodes |-> f]
<1> DEFINE r == [g EXCEPT !.nodeCount = count]
<1>1. r = [cycleMs |-> c, nodeCount |-> count, nodes |-> old]
  OBVIOUS
<1> HIDE DEF r
<1>2. [r EXCEPT !.nodes = f] = [cycleMs |-> c, nodeCount |-> count, nodes |-> f]
  BY <1>1
<1>3. [g EXCEPT !.nodeCount = count, !.nodes = f] = [r EXCEPT !.nodes = f]
  BY Zenon DEF r
<1> QED
  BY <1>2, <1>3, Zenon

\* One more node in the image, which had a place for it.
LEMMA Extended ==
    ASSUME NEW g, IsGraph(g), \A k \in NodeIndex(g) : FieldsFit(g.nodes[k]),
           NEW n, FieldsFit(n),
           NEW h, h = [g EXCEPT !.nodeCount = @ + 1,
                          !.nodes = [k \in 0..g.nodeCount |-> IF k = g.nodeCount THEN n ELSE @[k]]]
    PROVE  /\ IsGraph(h) /\ h.nodeCount = g.nodeCount + 1
           /\ \A k \in NodeIndex(h) : FieldsFit(h.nodes[k])
<1> DEFINE f == [k \in 0..g.nodeCount |-> IF k = g.nodeCount THEN n ELSE g.nodes[k]]
<1>1. h = [g EXCEPT !.nodeCount = g.nodeCount + 1, !.nodes = f]
  BY Zenon DEF f
<1>2. h = [cycleMs |-> g.cycleMs, nodeCount |-> g.nodeCount + 1, nodes |-> f]
  <2>1. g = [cycleMs |-> g.cycleMs, nodeCount |-> g.nodeCount, nodes |-> g.nodes]
    BY Zenon DEF IsGraph
  <2> HIDE DEF f
  <2> QED
    BY <1>1, <2>1, Replaced, Zenon
<1>3. h.cycleMs = g.cycleMs /\ h.nodeCount = g.nodeCount + 1 /\ h.nodes = f
      /\ h = [cycleMs |-> h.cycleMs, nodeCount |-> h.nodeCount, nodes |-> h.nodes]
  BY <1>2, Zenon
<1>4. g.nodeCount \in Nat /\ g.cycleMs \in Nat
  BY DEF IsGraph
<1>5. NodeIndex(h) = 0..g.nodeCount
  BY <1>3, <1>4 DEF NodeIndex
<1>6. \A k \in 0..g.nodeCount : k = g.nodeCount \/ k \in NodeIndex(g)
  BY <1>4 DEF NodeIndex
<1>7. \A k \in 0..g.nodeCount : FieldsFit(f[k])
  BY <1>6
<1>8. \A k \in 0..g.nodeCount : f[k] \in Node
  BY <1>7 DEF FieldsFit
<1>9. f \in [0..g.nodeCount -> Node]
  BY <1>8
<1> HIDE DEF f
<1>10. IsGraph(h)
  <2>1. h.cycleMs \in Nat /\ h.nodeCount \in Nat
    BY <1>3, <1>4
  <2>2. h.nodes \in [NodeIndex(h) -> Node]
    BY <1>3, <1>5, <1>9, Zenon
  <2> QED
    BY <1>3, <2>1, <2>2, Zenon DEF IsGraph
<1>11. \A k \in NodeIndex(h) : FieldsFit(h.nodes[k])
  BY <1>3, <1>5, <1>7
<1> QED
  BY <1>3, <1>10, <1>11, Zenon

LEMMA NextNodeKeeps == BuilderTypeOK /\ NextNode => BuilderTypeOK'
<1> SUFFICES ASSUME BuilderTypeOK, NextNode PROVE BuilderTypeOK'
  OBVIOUS
<1> DEFINE begin == strchr(text, p, "{")
           found == strchr(text, begin, "}")
           close == IF found = NULL THEN Unclosed(begin) ELSE found
           obj   == Object(begin, close)
           grown == [image EXCEPT !.nodeCount = @ + 1,
                        !.nodes = [k \in 0..image.nodeCount |->
                            IF k = image.nodeCount THEN parse_node(obj) ELSE @[k]]]
<1>1. text \in Seq(STRING) /\ Len(text) \in Nat
  BY DEF BuilderTypeOK
<1>2. close \in 0..Len(text)
  <2>1. found \in 0..Len(text)
    BY <1>1, strchrType
  <2> QED
    BY <1>1, <2>1 DEF Unclosed, NULL
<1>3. CASE close = NULL
  BY <1>3, FailKeeps DEF NextNode, BuilderOutcome
<1>4. CASE close # NULL /\ Len(obj) > ObjectMax
  BY <1>4, FailKeeps DEF NextNode, BuilderOutcome
<1>5. CASE close # NULL /\ Len(obj) <= ObjectMax /\ NodeFails(obj)
  BY <1>5, FailKeeps DEF NextNode, BuilderOutcome
<1> DEFINE Others == close # NULL /\ ~(Len(obj) > ObjectMax)
                     /\ ~(Len(obj) <= ObjectMax /\ NodeFails(obj))
<1>6. CASE Others
  <2>1. image' = grown /\ p' = close + 1 /\ UNCHANGED <<text, result>>
    BY <1>6 DEF NextNode
  <2>2. FieldsFit(parse_node(obj))
    BY NodeFits
  <2>3. image.nodeCount < GraphMaxNodes
    BY DEF NextNode, Loop
  <2>4. /\ IsGraph(image') /\ image'.nodeCount = image.nodeCount + 1
        /\ \A k \in NodeIndex(image)' : FieldsFit(image'.nodes[k])
    <3> HIDE DEF obj
    <3>1. IsGraph(image) /\ \A k \in NodeIndex(image) : FieldsFit(image.nodes[k])
      BY DEF BuilderTypeOK
    <3>2. image' = grown
      BY <2>1
    <3> QED
      BY <2>2, <3>1, <3>2, Extended DEF NodeIndex
  <2> HIDE DEF close
  <2>5. p' \in 0..(Len(text) + 1)
    BY <1>1, <1>2, <2>1
  <2>6. image'.nodeCount \in 0..GraphMaxNodes
    BY <2>3, <2>4, BuilderAssumption DEF BuilderTypeOK
  <2> QED
    BY <2>1, <2>4, <2>5, <2>6 DEF BuilderTypeOK
<1> QED
  BY <1>3, <1>4, <1>5, <1>6

\* What strchr returns: the first place of the character, or NULL if there is none.
LEMMA strchrFinds ==
    ASSUME NEW t \in Seq(STRING), NEW from \in Nat, NEW c,
           NEW found, found = strchr(t, from, c)
    PROVE  \/ found = NULL /\ \A k \in 1..Len(t) : k >= from => t[k] # c
           \/ /\ found \in 1..Len(t) /\ found >= from /\ t[found] = c
              /\ \A k \in 1..Len(t) : k >= from /\ k < found => t[k] # c
<1> DEFINE S == {k \in DOMAIN t : k >= from /\ t[k] = c}
<1>1. Len(t) \in Nat /\ DOMAIN t = 1..Len(t) /\ S \subseteq Nat
  OBVIOUS
<1>2. found = First(S)
  BY DEF strchr
<1>3. CASE S = {}
  BY <1>1, <1>2, <1>3 DEF First
<1>4. CASE S # {}
  <2>1. First(S) \in S /\ \A k \in S : First(S) <= k
    BY <1>1, <1>4, FirstOf
  <2>2. found \in S /\ \A k \in S : found <= k
    BY <1>2, <2>1
  <2>3. found \in 1..Len(t) /\ found >= from /\ t[found] = c
    BY <1>1, <2>2
  <2>4. ASSUME NEW k \in 1..Len(t), k >= from, k < found
        PROVE  t[k] # c
    BY <1>1, <2>2, <2>3, <2>4
  <2> QED
    BY <2>3, <2>4
<1> QED
  BY <1>3, <1>4

\* Every object that the reading has passed had an end, and what has not been read
\* when it ends holds no object, or the image is full.
Array == strchr(text, Quoted(text, "nodes"), "[")

ClosedBefore(limit) ==
    \A k \in DOMAIN text : k > Array /\ k < limit /\ text[k] = "{" =>
        \E j \in DOMAIN text : j > k /\ text[j] = "}"

CutInv ==
    /\ BuilderTypeOK /\ text \in Texts
    /\ result = "loop" => p > 0 /\ ClosedBefore(p)
    /\ CutNodeRefused

LEMMA InitCutInv == BuilderInit => CutInv
<1>1. BuilderInit => result = "begin" /\ text \in Texts
  BY DEF BuilderInit
<1> QED
  BY <1>1, BuilderInitType DEF CutInv, CutNodeRefused

LEMMA BuilderStep == BuilderTypeOK /\ [BuilderNext]_builderVars => BuilderTypeOK'
<1>1. BuilderTypeOK /\ Done => BuilderTypeOK'
  BY DEF Done, BuilderTypeOK, BuilderOutcome, IsGraph, NodeIndex, FieldsFit
<1>2. BuilderTypeOK /\ UNCHANGED builderVars => BuilderTypeOK'
  BY DEF builderVars, BuilderTypeOK, IsGraph, NodeIndex, FieldsFit
<1> QED
  BY <1>1, <1>2, BeginKeeps, NextNodeKeeps DEF BuilderNext

LEMMA TextKept == [BuilderNext]_builderVars => text' = text
BY DEF BuilderNext, builderVars, Begin, NextNode, Done, Fail

\* A reading that has not ended well has nothing to show yet.
LEMMA NotDone ==
    ASSUME CutInv, [BuilderNext]_builderVars, result' # "ok", result' # "loop"
    PROVE  CutInv'
<1>1. BuilderTypeOK' /\ text' = text
  BY BuilderStep, TextKept DEF CutInv
<1> QED
  BY <1>1 DEF CutInv, CutNodeRefused

LEMMA BeginCut == CutInv /\ Begin => CutInv'
<1> SUFFICES ASSUME CutInv, Begin PROVE CutInv'
  OBVIOUS
<1> DEFINE nodes == Quoted(text, "nodes")
<1>1. BuilderTypeOK' /\ text' = text /\ [BuilderNext]_builderVars
  BY BuilderStep, TextKept DEF CutInv, BuilderNext
<1>2. text \in Seq(STRING) /\ Len(text) \in Nat /\ Array \in 0..Len(text)
  BY strchrType DEF CutInv, BuilderTypeOK, Array
<1>3. CASE nodes = NULL \/ Array = NULL
  <2>1. result' \in {"no nodes", "no array"}
    BY <1>3 DEF Begin, Fail, Array
  <2> QED
    BY <1>1, <2>1, NotDone
<1>4. CASE ~(nodes = NULL \/ Array = NULL)
  <2>1. result' = "loop" /\ p' = Array + 1
    BY <1>4 DEF Begin, Array
  <2>2. Array' = Array
    BY <1>1 DEF Array
  <2>3. p' > 0 /\ \A k \in DOMAIN text : ~(k > Array /\ k < p')
    BY <1>2, <2>1
  <2> QED
    BY <1>1, <2>1, <2>2, <2>3 DEF CutInv, CutNodeRefused, ClosedBefore
<1> QED
  BY <1>3, <1>4

LEMMA NextNodeCut == CutInv /\ NextNode => CutInv'
<1> SUFFICES ASSUME CutInv, NextNode PROVE CutInv'
  OBVIOUS
<1> DEFINE begin == strchr(text, p, "{")
           found == strchr(text, begin, "}")
           close == IF found = NULL THEN Unclosed(begin) ELSE found
           obj   == Object(begin, close)
<1>1. BuilderTypeOK' /\ text' = text /\ Array' = Array /\ [BuilderNext]_builderVars
  BY BuilderStep, TextKept DEF CutInv, BuilderNext, Array
<1>2. text \in Seq(STRING) /\ Len(text) \in Nat /\ DOMAIN text = 1..Len(text) /\ p \in Nat
  BY DEF CutInv, BuilderTypeOK
<1>3. begin # NULL /\ result = "loop"
  BY DEF NextNode
<1>4. begin \in 1..Len(text) /\ begin >= p /\ \A k \in DOMAIN text : k >= p /\ k < begin => text[k] # "{"
  BY <1>2, <1>3, strchrFinds
<1>5. found = NULL \/ (found \in 1..Len(text) /\ found >= begin /\ text[found] = "}")
  <2> HIDE DEF begin
  <2>1. begin \in 1..Len(text)
    BY <1>4
  <2>2. begin \in Nat
    BY <1>2, <2>1
  <2> QED
    BY <1>2, <2>2, strchrFinds
<1>6. CASE close = NULL \/ Len(obj) > ObjectMax \/ (Len(obj) <= ObjectMax /\ NodeFails(obj))
  <2>1. result' \in {"broken", "too large", "no node"}
    BY <1>6 DEF NextNode, Fail
  <2> QED
    BY <1>1, <2>1, NotDone
<1> DEFINE Others == ~(close = NULL \/ Len(obj) > ObjectMax \/ (Len(obj) <= ObjectMax /\ NodeFails(obj)))
<1>7. CASE Others
  <2>1. close # NULL /\ p' = close + 1 /\ result' = result
    BY <1>7 DEF NextNode
  <2>2. found \in 1..Len(text) /\ close = found /\ text[found] = "}"
    BY <1>5, <2>1 DEF Unclosed
  <2>3. p' = found + 1
    BY <2>1, <2>2
  <2> HIDE DEF begin, found, close, obj, Others
  <2>6. found \in 1..Len(text)
    BY <2>2
  <2>7. found \in Nat /\ \A k \in DOMAIN text : k \in Nat
    BY <1>2, <2>6
  <2>4. ASSUME NEW k \in DOMAIN text, k > Array, k < p', text[k] = "{"
        PROVE  \E j \in DOMAIN text : j > k /\ text[j] = "}"
    <3>1. CASE k < p
      BY <1>3, <2>4, <3>1 DEF CutInv, ClosedBefore
    <3>2. CASE ~(k < p)
      <4>1. k # found
        BY <2>2, <2>4
      <4>2. k \in Nat /\ k < p'
        BY <2>4, <2>7
      <4>3. k < found
        BY <2>3, <2>7, <4>1, <4>2
      <4> QED
        BY <1>2, <2>2, <2>6, <4>3
    <3> QED
      BY <3>1, <3>2
  <2>5. p' > 0
    BY <2>3, <2>7
  <2> QED
    BY <1>1, <1>3, <2>1, <2>4, <2>5 DEF CutInv, CutNodeRefused, ClosedBefore
<1> QED
  BY <1>6, <1>7

LEMMA DoneCut == CutInv /\ Done => CutInv'
<1> SUFFICES ASSUME CutInv, Done PROVE CutInv'
  OBVIOUS
<1>1. /\ BuilderTypeOK' /\ text' = text /\ p' = p /\ image' = image
      /\ result = "loop" /\ result' = "ok" /\ Array' = Array
  BY BuilderStep DEF CutInv, BuilderNext, Done, Array
<1>2. text \in Seq(STRING) /\ Len(text) \in Nat /\ DOMAIN text = 1..Len(text) /\ p \in 1..(Len(text) + 1)
  BY <1>1 DEF CutInv, BuilderTypeOK
<1>3. ASSUME image.nodeCount < GraphMaxNodes
      PROVE  \A k \in DOMAIN text : text[k] = "{" => k < p
  <2>1. CASE ~Loop
    <3>1. At(text, p) = End
      BY <1>3, <2>1 DEF Loop
    <3>2. \A k \in DOMAIN text : text[k] # End
      BY BuilderAssumption DEF CutInv
    <3>3. p \notin 1..Len(text)
      BY <1>2, <3>1, <3>2 DEF At
    <3>4. p = Len(text) + 1
      BY <1>2, <3>3
    <3>5. \A k \in 1..Len(text) : k < p
      BY <1>2, <3>4
    <3> QED
      BY <1>2, <3>5
  <2>2. CASE Loop
    <3>1. strchr(text, p, "{") = NULL
      BY <2>2 DEF Done
    <3>2. p \in Nat /\ NULL \notin 1..Len(text)
      BY <1>2 DEF NULL
    <3>3. \A k \in 1..Len(text) : k >= p => text[k] # "{"
      BY <1>2, <3>1, <3>2, strchrFinds
    <3>4. \A k \in 1..Len(text) : k >= p \/ k < p
      BY <1>2, <3>2
    <3> QED
      BY <1>2, <3>3, <3>4
  <2> QED
    BY <2>1, <2>2
<1>4. CutNodeRefused'
  <2>1. image.nodeCount < GraphMaxNodes =>
          \A k \in DOMAIN text : k > Array /\ text[k] = "{" =>
              \E j \in DOMAIN text : j > k /\ text[j] = "}"
    BY <1>1, <1>3 DEF CutInv, ClosedBefore
  <2> QED
    BY <1>1, <2>1 DEF CutNodeRefused, Array
<1> QED
  BY <1>1, <1>4 DEF CutInv

LEMMA CutStep == CutInv /\ [BuilderNext]_builderVars => CutInv'
<1>1. CutInv /\ UNCHANGED builderVars => CutInv'
  <2> SUFFICES ASSUME CutInv, UNCHANGED builderVars PROVE CutInv'
    OBVIOUS
  <2>1. BuilderTypeOK'
    BY BuilderStep DEF CutInv
  <2> QED
    BY <2>1 DEF CutInv, builderVars, ClosedBefore, Array, CutNodeRefused
<1> QED
  BY <1>1, BeginCut, NextNodeCut, DoneCut DEF BuilderNext

\* Whatever the text, the reading stays in it and the image within its places,
\* and every field is what its width can hold (plc_graph_builder_from_json).
THEOREM BuilderTypeCorrect == BuilderSpec => []BuilderTypeOK
  BY BuilderInitType, BuilderStep, PTL DEF BuilderSpec

\* No text of any length that ends inside a node is built, unless the image was
\* full before (plc_graph_builder_from_json).
THEOREM CutNodeRefusedAlways == BuilderSpec => []CutNodeRefused
<1>1. CutInv => CutNodeRefused
  BY DEF CutInv
<1> QED
  BY <1>1, InitCutInv, CutStep, PTL DEF BuilderSpec

-----------------------------------------------------------------------------
(* What the builder makes of a document, for any number of nodes and       *)
(* members, in any order, with any words that look like nothing else.      *)

\* Any string; the provers do not know that a literal is one.
Words == STRING \cup ReadKey \cup TextKey \cup
         {"n0", "n1", "n9", "m1", "DO", "NOT", "CTU", "GT", "INT", "CONST_BOOL", "valve", "}"}

Token == Words \cup {Quote, ":", ",", "{", "}", "[", "]", "cycleMs", "nodes"}

PlainMembers == {m \in Words \X Words : PlainMember(m)}

\* What a document of n pieces has before its last one.
LEMMA GrownBy ==
    ASSUME NEW S, NEW n \in Nat, NEW a \in Seq(S), NEW b \in Seq(S), NEW e \in S,
           Len(b) = n, Len(a) = n + 1, a[n + 1] = e, \A k \in 1..n : a[k] = b[k]
    PROVE  a = Append(b, e)
<1> DEFINE c == Append(b, e)
<1>1. /\ c \in Seq(S) /\ Len(c) = n + 1 /\ c[n + 1] = e /\ \A k \in 1..n : c[k] = b[k]
  BY AppendedTo
<1> HIDE DEF c
<1>2. \A k \in 1..(n + 1) : k \in 1..n \/ k = n + 1
  OBVIOUS
<1>3. \A k \in 1..(n + 1) : a[k] = c[k]
  BY <1>1, <1>2
<1>4. a = c
  BY <1>1, <1>3, SeqEqual
<1> QED
  BY <1>4 DEF c

LEMMA Tokens ==
    /\ Words \subseteq Token /\ ReadKey \subseteq Token
    /\ Quote \in Token /\ ":" \in Token /\ "," \in Token /\ "{" \in Token /\ "}" \in Token
    /\ "[" \in Token /\ "]" \in Token /\ "cycleMs" \in Token /\ "nodes" \in Token
BY Zenon DEF Token, Words

LEMMA TokensJoined ==
    \A s, u, v \in Seq(Token) : (s \o u) \o v = s \o (u \o v)
BY Joined

LEMMA TokensConcat ==
    ASSUME NEW x \in Seq(Token), NEW y \in Seq(Token)
    PROVE  /\ x \o y \in Seq(Token) /\ Len(x) \in Nat /\ Len(y) \in Nat /\ Len(x \o y) = Len(x) + Len(y)
           /\ \A k \in 1..Len(x) : (x \o y)[k] = x[k]
           /\ \A k \in 1..Len(y) : (x \o y)[Len(x) + k] = y[k]
BY ConcatAt

\* The pieces of a list with their commas.
Sep(k) == IF k = 1 THEN << >> ELSE <<",">>

Pieces(s) == [k \in DOMAIN s |-> Sep(k) \o s[k]]

LEMMA SepIn == \A k \in Nat : Sep(k) \in Seq(Token)
<1>1. << >> \in Seq(Token) /\ <<",">> \in Seq(Token)
  BY Tokens, ShortText, EmptySeq
<1> QED
  BY <1>1 DEF Sep

LEMMA PiecesIn ==
    ASSUME NEW s \in Seq(Seq(Token))
    PROVE  /\ Len(s) \in Nat /\ DOMAIN s = 1..Len(s)
           /\ Pieces(s) \in Seq(Seq(Token)) /\ Len(Pieces(s)) = Len(s)
           /\ \A k \in 1..Len(s) : Pieces(s)[k] = Sep(k) \o s[k]
<1>1. Len(s) \in Nat /\ DOMAIN s = 1..Len(s) /\ \A k \in 1..Len(s) : s[k] \in Seq(Token)
  BY LenProperties, ElementOfSeq
<1>2. \A k \in 1..Len(s) : k \in Nat
  OBVIOUS
<1>3. \A k \in 1..Len(s) : Sep(k) \o s[k] \in Seq(Token)
  BY <1>1, <1>2, SepIn, ConcatProperties
<1>4. \A k \in 1..Len(s) : Pieces(s)[k] = Sep(k) \o s[k]
  BY <1>1 DEF Pieces
<1>5. Pieces(s) \in Seq(Seq(Token)) /\ Len(Pieces(s)) = Len(s)
  BY <1>1, <1>3 DEF Pieces
<1> QED
  BY <1>1, <1>4, <1>5

\* A list with a piece more.
LEMMA ListedGrows ==
    ASSUME NEW s \in Seq(Seq(Token)), NEW e \in Seq(Token)
    PROVE  Listed(Append(s, e)) = Listed(s) \o (Sep(Len(s) + 1) \o e)
<1> DEFINE n == Len(s)
           a == Append(s, e)
           w == Sep(n + 1) \o e
<1>1. n \in Nat /\ a \in Seq(Seq(Token)) /\ Len(a) = n + 1 /\ a[n + 1] = e
      /\ \A k \in 1..n : a[k] = s[k]
  BY AppendedTo, LenProperties
<1>2. w \in Seq(Token)
  <2>1. Sep(n + 1) \in Seq(Token)
    BY <1>1, SepIn
  <2> QED
    BY <2>1, ConcatProperties
<1>3. /\ Pieces(s) \in Seq(Seq(Token)) /\ Len(Pieces(s)) = n
      /\ \A k \in 1..n : Pieces(s)[k] = Sep(k) \o s[k]
  BY PiecesIn
<1> HIDE DEF n, a
<1>4. /\ Pieces(a) \in Seq(Seq(Token)) /\ Len(Pieces(a)) = n + 1
      /\ \A k \in 1..(n + 1) : Pieces(a)[k] = Sep(k) \o a[k]
  BY <1>1, PiecesIn
<1>5. \A k \in 1..n : k \in 1..(n + 1)
  BY <1>1
<1>6. n + 1 \in 1..(n + 1)
  BY <1>1
<1>7. Pieces(a)[n + 1] = w
  BY <1>1, <1>4, <1>6, Zenon
<1>8. \A k \in 1..n : Pieces(a)[k] = Pieces(s)[k]
  BY <1>1, <1>3, <1>4, <1>5, Zenon
<1> HIDE DEF w
<1>9. Pieces(a) = Append(Pieces(s), w)
  <2> DEFINE T == Seq(Token)
             x == Pieces(a)
             y == Pieces(s)
  <2>1. x \in Seq(T) /\ y \in Seq(T) /\ w \in T /\ Len(x) = n + 1 /\ Len(y) = n /\ x[n + 1] = w
        /\ \A k \in 1..n : x[k] = y[k]
    BY <1>2, <1>3, <1>4, <1>7, <1>8
  <2> HIDE DEF x, y, T
  <2>2. x = Append(y, w)
    BY <1>1, <2>1, GrownBy
  <2> QED
    BY <2>2 DEF x, y
<1>10. FlattenSeq(Append(Pieces(s), w)) = FlattenSeq(Pieces(s)) \o w
  BY <1>2, <1>3, FlattenGrows
<1>11. \A r : Listed(r) = FlattenSeq(Pieces(r))
  BY DEF Listed, Pieces, Sep
<1> QED
  BY <1>9, <1>10, <1>11 DEF a, w, n

LEMMA ListedIn ==
    /\ Listed(<< >>) = << >>
    /\ \A s \in Seq(Seq(Token)) : Listed(s) \in Seq(Token)
<1>1. \A r : Listed(r) = FlattenSeq(Pieces(r))
  BY DEF Listed, Pieces, Sep
<1>2. ASSUME NEW s \in Seq(Seq(Token)) PROVE Listed(s) \in Seq(Token)
  BY <1>1, PiecesIn, FlattenType
<1>3. Listed(<< >>) = << >>
  <2>1. << >> \in Seq(Seq(Token))
    BY EmptySeq
  <2>2. Pieces(<< >>) \in Seq(Seq(Token)) /\ Len(Pieces(<< >>)) = 0
    BY <2>1, PiecesIn, EmptySeq
  <2>3. Pieces(<< >>) = << >>
    BY <2>2, EmptySeq
  <2> QED
    BY <1>1, <2>3 DEF FlattenSeq
<1> QED
  BY <1>2, <1>3

-----------------------------------------------------------------------------
(* The members of an object, and the searches for their keys.              *)

LEMMA PlacesIn ==
    ASSUME NEW ms \in Seq(PlainMembers), NEW key
    PROVE  /\ Len(ms) \in Nat /\ DOMAIN ms = 1..Len(ms)
           /\ Places(ms, key) \subseteq 1..Len(ms) /\ Places(ms, key) \subseteq Nat
BY LenProperties DEF Places

\* A member more: what was written stays, and a key that was not there is its own.
LEMMA WrittenMore ==
    ASSUME NEW ms \in Seq(PlainMembers), NEW m \in PlainMembers, NEW key,
           NEW more, more = Append(ms, m)
    PROVE  /\ Has(more, key) <=> Has(ms, key) \/ m[1] = key
           /\ Has(ms, key) => Written(more, key) = Written(ms, key)
           /\ ~Has(ms, key) /\ m[1] = key => Written(more, key) = m[2]
<1> DEFINE n == Len(ms)
           P == Places(ms, key)
           Q == Places(more, key)
<1>1. /\ n \in Nat /\ more \in Seq(PlainMembers) /\ Len(more) = n + 1 /\ more[n + 1] = m
      /\ \A k \in 1..n : more[k] = ms[k]
  BY AppendedTo, LenProperties
<1>2. DOMAIN ms = 1..n /\ DOMAIN more = 1..(n + 1)
  BY <1>1, LenProperties
<1>3. P \subseteq Nat /\ Q \subseteq Nat /\ P \subseteq 1..n
  BY <1>2 DEF Places
<1>4. \A k : k \in P <=> k \in 1..n /\ ms[k][1] = key
  BY <1>2 DEF Places
<1>5. \A k : k \in Q <=> k \in 1..(n + 1) /\ more[k][1] = key
  BY <1>2 DEF Places
<1>6. \A k : k \in 1..(n + 1) <=> k \in 1..n \/ k = n + 1
  BY <1>1
<1> HIDE DEF n, P, Q
<1>7. \A k : k \in Q <=> k \in P \/ (k = n + 1 /\ m[1] = key)
  <2>1. \A k : k \in 1..n => (k \in Q <=> k \in P)
    BY <1>1, <1>4, <1>5, <1>6, Zenon
  <2>2. n + 1 \in Q <=> m[1] = key
    BY <1>1, <1>5, <1>6, Zenon
  <2>3. \A k : k \in P => k \in 1..n
    BY <1>4
  <2>4. \A k : k \in Q => k \in 1..n \/ k = n + 1
    BY <1>5, <1>6, Zenon
  <2> QED
    BY <2>1, <2>2, <2>3, <2>4, Zenon
<1>8. Q # {} <=> P # {} \/ m[1] = key
  BY <1>7
<1>9. ASSUME P # {} PROVE Written(more, key) = Written(ms, key)
  <2>1. First(P) \in P /\ \A k \in P : First(P) <= k
    BY <1>3, <1>9, FirstOf
  <2>2. Q # {}
    BY <1>8, <1>9
  <2>3. First(Q) \in Q /\ \A k \in Q : First(Q) <= k
    BY <1>3, <2>2, FirstOf
  <2>4. First(Q) \in P
    <3>1. First(Q) <= First(P) /\ First(P) \in 1..n
      BY <1>3, <1>7, <2>1, <2>3
    <3>2. First(Q) \in Nat
      BY <1>3, <2>3
    <3>3. First(Q) # n + 1
      BY <1>1, <3>1, <3>2
    <3> QED
      BY <1>7, <2>3, <3>3
  <2>5. First(P) <= First(Q) /\ First(Q) <= First(P)
    BY <1>7, <2>1, <2>3, <2>4
  <2>6. First(P) \in Nat /\ First(Q) \in Nat
    BY <1>3, <2>1, <2>3
  <2>7. First(P) = First(Q)
    BY <2>5, <2>6
  <2>8. First(P) \in 1..n
    BY <1>3, <2>1
  <2>9. more[First(P)] = ms[First(P)]
    BY <1>1, <2>8 DEF n
  <2> QED
    BY <2>7, <2>9 DEF Written, P, Q
<1>10. ASSUME P = {}, m[1] = key PROVE Written(more, key) = m[2]
  <2>1. Q = {n + 1}
    BY <1>7, <1>10
  <2>2. First(Q) \in Q
    BY <1>3, <2>1, FirstOf
  <2>3. First(Q) = n + 1
    BY <2>1, <2>2
  <2> QED
    BY <1>1, <2>3 DEF Written, Q, n
<1> QED
  BY <1>8, <1>9, <1>10 DEF Has, P, Q

\* A quoted key stands at place k of a text.
KeyStarts(t, k, key) ==
    k + 2 <= Len(t) /\ t[k] = Quote /\ t[k + 1] = key /\ t[k + 2] = Quote

NoneBefore(t, n, key) == \A k \in 1..Len(t) : k < n => ~KeyStarts(t, k, key)

\* The member of the key, with its word, stands at place q.
Stands(t, q, key, w) ==
    /\ q \in Nat /\ q > 0 /\ q + 4 <= Len(t)
    /\ t[q] = Quote /\ t[q + 1] = key /\ t[q + 2] = Quote /\ t[q + 3] = ":"
    /\ IF key \in TextKey
       THEN q + 6 <= Len(t) /\ t[q + 4] = Quote /\ t[q + 5] = w /\ t[q + 6] = Quote
       ELSE t[q + 4] = w

\* A search in t for a key finds the first member of ms that has it, if one has.
FoundKey(t, ms, key) ==
    IF Has(ms, key) THEN \E q : Stands(t, q, key, Written(ms, key)) /\ NoneBefore(t, q, key)
    ELSE NoneBefore(t, Len(t) + 1, key)

Found(t, ms) == \A key \in ReadKey : FoundKey(t, ms, key)

\* Text that is only added to: what stands in it goes on to.
LEMMA StandsStill ==
    ASSUME NEW t \in Seq(Token), NEW u \in Seq(Token), Len(t) <= Len(u),
           \A k \in 1..Len(t) : u[k] = t[k],
           NEW q, NEW key, NEW w, Stands(t, q, key, w), NoneBefore(t, q, key)
    PROVE  Stands(u, q, key, w) /\ NoneBefore(u, q, key)
<1>1. Len(t) \in Nat /\ Len(u) \in Nat /\ q \in Nat /\ q > 0 /\ q + 4 <= Len(t)
  BY LenProperties DEF Stands
<1>2. /\ q \in 1..Len(t) /\ q + 1 \in 1..Len(t) /\ q + 2 \in 1..Len(t)
      /\ q + 3 \in 1..Len(t) /\ q + 4 \in 1..Len(t) /\ q + 4 <= Len(u)
  BY <1>1
<1>3. q + 6 <= Len(t) => q + 5 \in 1..Len(t) /\ q + 6 \in 1..Len(t) /\ q + 6 <= Len(u)
  BY <1>1
<1>4. Stands(u, q, key, w)
  BY <1>1, <1>2, <1>3 DEF Stands
<1>5. ASSUME NEW k \in 1..Len(u), k < q PROVE ~KeyStarts(u, k, key)
  <2>1. k \in 1..Len(t) /\ k + 1 \in 1..Len(t) /\ k + 2 \in 1..Len(t) /\ k + 2 <= Len(t)
    BY <1>1, <1>5
  <2>2. ~KeyStarts(t, k, key)
    BY <1>5, <2>1 DEF NoneBefore
  <2> QED
    BY <2>1, <2>2 DEF KeyStarts
<1> QED
  BY <1>4, <1>5 DEF NoneBefore

\* A comma, or a brace, makes no key.
LEMMA FoundMark ==
    ASSUME NEW t \in Seq(Token), NEW ms, Found(t, ms), NEW c \in Token, c # Quote
    PROVE  t \o <<c>> \in Seq(Token) /\ Found(t \o <<c>>, ms)
<1> DEFINE u == t \o <<c>>
           n == Len(t)
<1>0. <<c>> \in Seq(Token) /\ Len(<<c>>) = 1 /\ <<c>>[1] = c
  BY ShortText
<1>1. /\ u \in Seq(Token) /\ n \in Nat /\ Len(u) = n + 1 /\ \A k \in 1..n : u[k] = t[k]
  BY <1>0, ConcatAt
<1>2. u[n + 1] = c
  OBVIOUS
<1> HIDE DEF u
<1>3. ASSUME NEW key \in ReadKey, ~Has(ms, key) PROVE NoneBefore(u, Len(u) + 1, key)
  <2>1. NoneBefore(t, n + 1, key)
    BY <1>3 DEF Found, FoundKey
  <2>2. ASSUME NEW k \in 1..Len(u), KeyStarts(u, k, key) PROVE FALSE
    <3>1. k + 2 <= n + 1 /\ k \in Nat /\ u[k + 2] = Quote
      BY <1>1, <2>2 DEF KeyStarts
    <3>2. k + 2 # n + 1
      BY <1>2, <3>1
    <3>3. k + 2 <= n /\ k \in 1..n /\ k + 1 \in 1..n /\ k + 2 \in 1..n /\ k < n + 1
      BY <1>1, <3>1, <3>2
    <3>4. KeyStarts(t, k, key)
      BY <1>1, <2>2, <3>3 DEF KeyStarts
    <3> QED
      BY <2>1, <3>3, <3>4 DEF NoneBefore
  <2> QED
    BY <2>2 DEF NoneBefore
<1>4. ASSUME NEW key \in ReadKey, Has(ms, key) PROVE FoundKey(u, ms, key)
  <2>1. PICK q : Stands(t, q, key, Written(ms, key)) /\ NoneBefore(t, q, key)
    BY <1>4 DEF Found, FoundKey
  <2>2. Len(t) <= Len(u)
    BY <1>1
  <2>3. Stands(u, q, key, Written(ms, key)) /\ NoneBefore(u, q, key)
    BY <1>1, <2>1, <2>2, StandsStill
  <2> QED
    BY <1>4, <2>3 DEF FoundKey
<1> QED
  BY <1>1, <1>3, <1>4 DEF Found, FoundKey, u

LEMMA LongerText ==
    ASSUME NEW S, NEW a \in S, NEW b \in S, NEW c \in S, NEW d \in S
    PROVE  /\ <<a, b, c>> \in Seq(S) /\ Len(<<a, b, c>>) = 3
           /\ <<a, b, c>>[1] = a /\ <<a, b, c>>[2] = b /\ <<a, b, c>>[3] = c
           /\ <<a, b, c, d>> \in Seq(S) /\ Len(<<a, b, c, d>>) = 4
           /\ <<a, b, c, d>>[1] = a /\ <<a, b, c, d>>[2] = b
           /\ <<a, b, c, d>>[3] = c /\ <<a, b, c, d>>[4] = d
OBVIOUS

LEMMA MemberIs ==
    ASSUME NEW m \in PlainMembers, NEW x, x = MemberText(m)
    PROVE  /\ x \in Seq(Token) /\ Len(x) \in {5, 7}
           /\ x[1] = Quote /\ x[2] = m[1] /\ x[3] = Quote /\ x[4] = ":"
           /\ IF m[1] \in TextKey
              THEN Len(x) = 7 /\ x[5] = Quote /\ x[6] = m[2] /\ x[7] = Quote
              ELSE Len(x) = 5 /\ x[5] = m[2]
           /\ \A k \in 1..Len(x) : x[k] # "}"
<1>1. m[1] \in Token /\ m[2] \in Token /\ m[1] # "}" /\ m[2] # "}"
  BY Tokens DEF PlainMembers, PlainMember
<1> DEFINE a == <<Quote, m[1], Quote, ":">>
           b == IF m[1] \in TextKey THEN <<Quote, m[2], Quote>> ELSE <<m[2]>>
<1>2. a \in Seq(Token) /\ Len(a) = 4 /\ a[1] = Quote /\ a[2] = m[1] /\ a[3] = Quote /\ a[4] = ":"
  <2>1. Quote \in Token /\ ":" \in Token
    BY Tokens
  <2> QED
    BY <1>1, <2>1, LongerText
<1>3. b \in Seq(Token)
      /\ IF m[1] \in TextKey THEN Len(b) = 3 /\ b[1] = Quote /\ b[2] = m[2] /\ b[3] = Quote
         ELSE Len(b) = 1 /\ b[1] = m[2]
  <2>1. Quote \in Token
    BY Tokens
  <2>2. /\ <<Quote, m[2], Quote>> \in Seq(Token) /\ Len(<<Quote, m[2], Quote>>) = 3
        /\ <<Quote, m[2], Quote>>[1] = Quote /\ <<Quote, m[2], Quote>>[2] = m[2]
        /\ <<Quote, m[2], Quote>>[3] = Quote
    BY <1>1, <2>1, LongerText
  <2>3. <<m[2]>> \in Seq(Token) /\ Len(<<m[2]>>) = 1 /\ <<m[2]>>[1] = m[2]
    BY <1>1, ShortText
  <2> QED
    BY <2>2, <2>3
<1>4. x = a \o b
  BY Zenon DEF MemberText
<1> HIDE DEF a, b
<1>5. /\ x \in Seq(Token) /\ Len(x) = 4 + Len(b)
      /\ (\A k \in 1..4 : x[k] = a[k]) /\ \A k \in 1..Len(b) : x[4 + k] = b[k]
  <2>1. a \in Seq(Token) /\ b \in Seq(Token)
    BY <1>2, <1>3
  <2>2. /\ a \o b \in Seq(Token) /\ Len(a \o b) = Len(a) + Len(b)
        /\ \A k \in 1..Len(a) : (a \o b)[k] = a[k]
        /\ \A k \in 1..Len(b) : (a \o b)[Len(a) + k] = b[k]
    BY <2>1, ConcatAt
  <2> QED
    BY <1>2, <1>4, <2>2
<1>6. x[1] = a[1] /\ x[2] = a[2] /\ x[3] = a[3] /\ x[4] = a[4]
  BY <1>5
<1>7. CASE m[1] \in TextKey
  <2>1. x[5] = b[1] /\ x[6] = b[2] /\ x[7] = b[3] /\ Len(x) = 7
    <3>1. Len(b) = 3
      BY <1>3, <1>7
    <3> QED
      BY <1>5, <3>1
  <2>2. \A k \in 1..7 : k \in {1, 2, 3, 4, 5, 6, 7}
    OBVIOUS
  <2>3. \A k \in 1..7 : x[k] # "}"
    BY <1>1, <1>2, <1>3, <1>6, <1>7, <2>1, <2>2 DEF Quote
  <2> QED
    BY <1>2, <1>3, <1>5, <1>6, <1>7, <2>1, <2>3
<1>8. CASE m[1] \notin TextKey
  <2>1. x[5] = b[1] /\ Len(x) = 5
    <3>1. Len(b) = 1
      BY <1>3, <1>8
    <3> QED
      BY <1>5, <3>1
  <2>2. \A k \in 1..5 : k \in {1, 2, 3, 4, 5}
    OBVIOUS
  <2>3. \A k \in 1..5 : x[k] # "}"
    BY <1>1, <1>2, <1>3, <1>6, <1>8, <2>1, <2>2 DEF Quote
  <2> QED
    BY <1>2, <1>3, <1>5, <1>6, <1>8, <2>1, <2>3
<1> QED
  BY <1>7, <1>8

\* The text may go on with a member: it ends with what begins a member.
Opens(t) == Len(t) > 0 /\ t[Len(t)] \in {"{", ","}

\* A member with another key makes no match of this one.
LEMMA MemberHidesNone ==
    ASSUME NEW t \in Seq(Token), Opens(t), NEW m \in PlainMembers, NEW x, x = MemberText(m),
           NEW key \in ReadKey, NoneBefore(t, Len(t) + 1, key)
    PROVE  /\ NoneBefore(t \o x, Len(t) + 1, key)
           /\ m[1] # key => NoneBefore(t \o x, Len(t \o x) + 1, key)
           /\ m[1] = key => Stands(t \o x, Len(t) + 1, key, m[2])
<1> DEFINE u == t \o x
           n == Len(t)
<1>1. /\ x \in Seq(Token) /\ Len(x) \in {5, 7}
      /\ x[1] = Quote /\ x[2] = m[1] /\ x[3] = Quote /\ x[4] = ":"
      /\ IF m[1] \in TextKey
         THEN Len(x) = 7 /\ x[5] = Quote /\ x[6] = m[2] /\ x[7] = Quote
         ELSE Len(x) = 5 /\ x[5] = m[2]
  BY MemberIs
<1>2. /\ u \in Seq(Token) /\ n \in Nat /\ Len(u) = n + Len(x)
      /\ (\A k \in 1..n : u[k] = t[k]) /\ \A k \in 1..Len(x) : u[n + k] = x[k]
  BY <1>1, ConcatAt
<1> HIDE DEF u
<1>3. n > 0 /\ u[n] \in {"{", ","}
  <2>1. n > 0 /\ t[n] \in {"{", ","}
    BY DEF Opens
  <2>2. n \in 1..n
    <3>1. n \in Nat /\ n > 0
      BY <1>2, <2>1
    <3> HIDE DEF n
    <3> QED
      BY <3>1
  <2> QED
    BY <1>2, <2>1, <2>2
<1> HIDE DEF n
<1>4. u[n + 1] = Quote /\ u[n + 2] = m[1] /\ u[n + 3] = Quote /\ u[n + 4] = ":" /\ u[n + 5] = x[5]
  <2>1. 1 \in 1..Len(x) /\ 2 \in 1..Len(x) /\ 3 \in 1..Len(x) /\ 4 \in 1..Len(x) /\ 5 \in 1..Len(x)
    BY <1>1
  <2> QED
    BY <1>1, <1>2, <2>1, Zenon
<1>5. m[1] \in TextKey => Len(x) = 7 /\ u[n + 5] = Quote /\ u[n + 6] = m[2] /\ u[n + 7] = Quote
  <2>1. Len(x) = 7 => 6 \in 1..Len(x) /\ 7 \in 1..Len(x)
    OBVIOUS
  <2> QED
    BY <1>1, <1>2, <1>4, <2>1, Zenon
<1>6. m[1] \notin TextKey => Len(x) = 5 /\ u[n + 5] = m[2]
  BY <1>1, <1>4
<1>7. /\ m[1] # Quote /\ m[2] # Quote
      /\ m[1] \in TextKey => m[2] # key
      /\ key # "{" /\ key # "," /\ key # ":" /\ key # Quote
  BY DEF PlainMembers, PlainMember, ReadKey, Quote
<1>8. ASSUME NEW k \in 1..Len(u), k < n + 1 PROVE ~KeyStarts(u, k, key)
  <2>1. k \in Nat /\ k > 0
    OBVIOUS
  <2>2. CASE k = n
    BY <1>3, <2>2 DEF KeyStarts, Quote
  <2>3. CASE k + 1 = n
    BY <1>3, <1>7, <2>3 DEF KeyStarts
  <2>4. CASE k # n /\ k + 1 # n
    <3>1. k \in 1..n /\ k + 1 \in 1..n /\ k + 2 \in 1..n /\ k + 2 <= n /\ k < n + 1
      BY <1>2, <1>8, <2>1, <2>4
    <3>2. ~KeyStarts(t, k, key)
      BY <3>1 DEF NoneBefore, n
    <3> QED
      BY <1>2, <3>1, <3>2 DEF KeyStarts, n
  <2> QED
    BY <2>2, <2>3, <2>4
<1>9. NoneBefore(u, n + 1, key)
  BY <1>8 DEF NoneBefore
<1>10. ASSUME m[1] # key PROVE NoneBefore(u, Len(u) + 1, key)
  <2>1. ~KeyStarts(u, n + 1, key)
    <3>1. (n + 1) + 1 = n + 2
      BY <1>2
    <3> QED
      BY <1>4, <1>10, <3>1 DEF KeyStarts
  <2>2. ~KeyStarts(u, n + 2, key)
    BY <1>4, <1>7 DEF KeyStarts
  <2>3. ~KeyStarts(u, n + 3, key)
    <3>1. (n + 3) + 1 = n + 4
      BY <1>2
    <3> QED
      BY <1>4, <1>7, <3>1 DEF KeyStarts
  <2>4. ~KeyStarts(u, n + 4, key)
    BY <1>4 DEF KeyStarts, Quote
  <2>5. ASSUME NEW k \in 1..Len(u), k >= n + 5, KeyStarts(u, k, key) PROVE FALSE
    <3>1. k + 2 <= Len(u) /\ u[k] = Quote /\ u[k + 1] = key /\ k \in Nat
      BY <2>5 DEF KeyStarts
    <3>2. Len(x) = 7 /\ k = n + 5
      <4>1. Len(x) = 5 \/ Len(x) = 7
        BY <1>1
      <4>2. n \in Nat /\ Len(u) = n + Len(x) /\ k >= n + 5
        BY <1>2, <2>5
      <4>3. k + 2 <= Len(u) /\ k \in Nat
        BY <3>1
      <4> HIDE DEF n
      <4>4. Len(x) # 5
        <5>1. Len(x) = 5 => Len(u) = n + 5
          BY <4>2
        <5>2. ~(Len(u) = n + 5)
          BY <4>2, <4>3
        <5> QED
          BY <5>1, <5>2
      <4>5. Len(x) = 7
        BY <4>1, <4>4
      <4> QED
        <5>1. Len(u) = n + 7
          BY <4>2, <4>5
        <5> QED
          BY <4>2, <4>3, <4>5, <5>1
    <3>3. m[1] \in TextKey
      BY <1>6, <3>2
    <3>4. k + 1 = n + 6
      BY <1>2, <3>2
    <3> QED
      BY <1>5, <1>7, <3>1, <3>3, <3>4
  <2>6. \A k \in 1..Len(u) : k < n + 1 \/ k = n + 1 \/ k = n + 2 \/ k = n + 3 \/ k = n + 4 \/ k >= n + 5
    BY <1>2
  <2> QED
    BY <1>8, <2>1, <2>2, <2>3, <2>4, <2>5, <2>6, Zenon DEF NoneBefore
<1>11. ASSUME m[1] = key PROVE Stands(u, n + 1, key, m[2])
  <2> DEFINE q == n + 1
  <2>1. /\ q \in Nat /\ q > 0 /\ q + 1 = n + 2 /\ q + 2 = n + 3 /\ q + 3 = n + 4
        /\ q + 4 = n + 5 /\ q + 5 = n + 6 /\ q + 6 = n + 7 /\ q + 4 <= Len(u)
    BY <1>1, <1>2
  <2>2. Len(x) = 7 => q + 6 <= Len(u)
    BY <1>2
  <2> HIDE DEF q
  <2>3. u[q] = Quote
    BY <1>4 DEF q
  <2>4. Stands(u, q, key, m[2])
    BY <1>4, <1>5, <1>6, <1>11, <2>1, <2>2, <2>3 DEF Stands
  <2> QED
    BY <2>4 DEF q
<1> QED
  BY <1>9, <1>10, <1>11 DEF u, n

LEMMA FoundMember ==
    ASSUME NEW t \in Seq(Token), Opens(t), NEW ms \in Seq(PlainMembers), Found(t, ms),
           NEW m \in PlainMembers
    PROVE  t \o MemberText(m) \in Seq(Token) /\ Found(t \o MemberText(m), Append(ms, m))
<1> DEFINE x == MemberText(m)
           u == t \o x
           more == Append(ms, m)
<1>1. x \in Seq(Token)
  BY MemberIs
<1>2. /\ u \in Seq(Token) /\ Len(t) \in Nat /\ Len(x) \in Nat /\ Len(u) = Len(t) + Len(x)
      /\ \A k \in 1..Len(t) : u[k] = t[k]
  BY <1>1, ConcatAt
<1>3. ASSUME NEW key \in ReadKey PROVE FoundKey(u, more, key)
  <2>1. /\ Has(more, key) <=> Has(ms, key) \/ m[1] = key
        /\ Has(ms, key) => Written(more, key) = Written(ms, key)
        /\ ~Has(ms, key) /\ m[1] = key => Written(more, key) = m[2]
    BY WrittenMore
  <2>2. CASE Has(ms, key)
    <3>1. PICK q : Stands(t, q, key, Written(ms, key)) /\ NoneBefore(t, q, key)
      BY <2>2 DEF Found, FoundKey
    <3> HIDE DEF u, more
    <3>2. Len(t) <= Len(u)
      BY <1>2
    <3>3. Stands(u, q, key, Written(ms, key)) /\ NoneBefore(u, q, key)
      BY <1>2, <3>1, <3>2, StandsStill
    <3> QED
      BY <2>1, <2>2, <3>3 DEF FoundKey
  <2>3. CASE ~Has(ms, key)
    <3>1. NoneBefore(t, Len(t) + 1, key)
      BY <2>3 DEF Found, FoundKey
    <3>2. /\ NoneBefore(u, Len(t) + 1, key)
          /\ m[1] # key => NoneBefore(u, Len(u) + 1, key)
          /\ m[1] = key => Stands(u, Len(t) + 1, key, m[2])
      BY <3>1, MemberHidesNone
    <3> HIDE DEF u, more
    <3> QED
      BY <2>1, <2>3, <3>2 DEF FoundKey
  <2> QED
    BY <2>2, <2>3
<1> QED
  BY <1>2, <1>3 DEF Found

-----------------------------------------------------------------------------
(* An object                                                               *)

MemberTexts(ms) == [k \in DOMAIN ms |-> MemberText(ms[k])]

\* An object up to its closing brace.
Row(ms) == <<"{">> \o Listed(MemberTexts(ms))

LEMMA MemberTextsGrow ==
    /\ MemberTexts(<< >>) = << >>
    /\ \A ms \in Seq(PlainMembers) :
          MemberTexts(ms) \in Seq(Seq(Token)) /\ Len(MemberTexts(ms)) = Len(ms)
    /\ \A ms \in Seq(PlainMembers), m \in PlainMembers :
          MemberTexts(Append(ms, m)) = Append(MemberTexts(ms), MemberText(m))
<1>1. ASSUME NEW ms \in Seq(PlainMembers)
      PROVE  /\ MemberTexts(ms) \in Seq(Seq(Token)) /\ Len(MemberTexts(ms)) = Len(ms)
             /\ \A k \in 1..Len(ms) : MemberTexts(ms)[k] = MemberText(ms[k])
  <2>1. Len(ms) \in Nat /\ DOMAIN ms = 1..Len(ms) /\ \A k \in 1..Len(ms) : ms[k] \in PlainMembers
    BY LenProperties, ElementOfSeq
  <2>2. \A k \in 1..Len(ms) : MemberText(ms[k]) \in Seq(Token)
    BY <2>1, MemberIs
  <2>3. \A k \in 1..Len(ms) : MemberTexts(ms)[k] = MemberText(ms[k])
    BY <2>1 DEF MemberTexts
  <2>4. MemberTexts(ms) \in Seq(Seq(Token)) /\ Len(MemberTexts(ms)) = Len(ms)
    BY <2>1, <2>2 DEF MemberTexts
  <2> QED
    BY <2>3, <2>4
<1>2. MemberTexts(<< >>) = << >>
  <2>1. << >> \in Seq(PlainMembers) /\ Len(<< >>) = 0
    BY EmptySeq
  <2>2. MemberTexts(<< >>) \in Seq(Seq(Token)) /\ Len(MemberTexts(<< >>)) = 0
    BY <1>1, <2>1
  <2> QED
    BY <2>2, EmptySeq
<1>3. ASSUME NEW ms \in Seq(PlainMembers), NEW m \in PlainMembers
      PROVE  MemberTexts(Append(ms, m)) = Append(MemberTexts(ms), MemberText(m))
  <2> DEFINE n == Len(ms)
             more == Append(ms, m)
             a == MemberTexts(more)
             b == MemberTexts(ms)
             e == MemberText(m)
             T == Seq(Token)
  <2>1. /\ n \in Nat /\ more \in Seq(PlainMembers) /\ Len(more) = n + 1 /\ more[n + 1] = m
        /\ \A k \in 1..n : more[k] = ms[k]
    BY AppendedTo, LenProperties
  <2>2. b \in Seq(T) /\ Len(b) = n /\ \A k \in 1..n : b[k] = MemberText(ms[k])
    BY <1>1
  <2> HIDE DEF more
  <2>3. a \in Seq(T) /\ Len(a) = Len(more) /\ \A k \in 1..Len(more) : a[k] = MemberText(more[k])
    BY <1>1, <2>1
  <2>4. \A k \in 1..n : k \in 1..(n + 1)
    BY <2>1
  <2>5. n + 1 \in 1..(n + 1) /\ e \in T
    <3>1. n + 1 \in 1..(n + 1)
      BY <2>1
    <3>2. e \in T
      BY MemberIs
    <3> QED
      BY <3>1, <3>2
  <2>6. Len(a) = n + 1 /\ a[n + 1] = e
    BY <2>1, <2>3, <2>5, Zenon
  <2>7. \A k \in 1..n : a[k] = b[k]
    BY <2>1, <2>2, <2>3, <2>4, Zenon
  <2> HIDE DEF a, b, e, n, T
  <2>8. a = Append(b, e)
    BY <2>1, <2>2, <2>3, <2>5, <2>6, <2>7, GrownBy
  <2> QED
    BY <2>8 DEF a, b, e, more
<1> QED
  BY <1>1, <1>2, <1>3

NoEnd(t) == \A k \in 1..Len(t) : t[k] # "}"

LEMMA NoEndConcat ==
    ASSUME NEW t \in Seq(Token), NEW x \in Seq(Token), NoEnd(t), NoEnd(x)
    PROVE  t \o x \in Seq(Token) /\ NoEnd(t \o x)
<1> DEFINE u == t \o x
<1>1. /\ u \in Seq(Token) /\ Len(t) \in Nat /\ Len(x) \in Nat /\ Len(u) = Len(t) + Len(x)
      /\ (\A k \in 1..Len(t) : u[k] = t[k]) /\ \A k \in 1..Len(x) : u[Len(t) + k] = x[k]
  BY ConcatAt
<1> HIDE DEF u
<1>2. ASSUME NEW k \in 1..Len(u) PROVE u[k] # "}"
  <2>1. CASE k \in 1..Len(t)
    BY <1>1, <2>1 DEF NoEnd
  <2>2. CASE k \notin 1..Len(t)
    <3>1. k - Len(t) \in 1..Len(x) /\ Len(t) + (k - Len(t)) = k
      BY <1>1, <2>2
    <3>2. u[k] = x[k - Len(t)]
      BY <1>1, <3>1
    <3> QED
      BY <3>1, <3>2 DEF NoEnd
  <2> QED
    BY <2>1, <2>2
<1> QED
  BY <1>1, <1>2 DEF u, NoEnd

\* What an open object has: its keys found, its end not seen.
RowOK(ms) ==
    /\ Row(ms) \in Seq(Token) /\ Found(Row(ms), ms) /\ NoEnd(Row(ms))
    /\ Len(Row(ms)) > 0 /\ Row(ms)[1] = "{"
    /\ ms = << >> => Opens(Row(ms))

LEMMA RowGrows ==
    ASSUME NEW ms \in Seq(PlainMembers), NEW m \in PlainMembers
    PROVE  Row(Append(ms, m)) = (Row(ms) \o Sep(Len(ms) + 1)) \o MemberText(m)
<1> DEFINE s == MemberTexts(ms)
           e == MemberText(m)
           c == Sep(Len(ms) + 1)
           o == <<"{">>
           l == Listed(s)
<1>1. s \in Seq(Seq(Token)) /\ Len(s) = Len(ms) /\ Len(ms) \in Nat
  BY MemberTextsGrow, LenProperties
<1>2. e \in Seq(Token) /\ o \in Seq(Token)
  BY MemberIs, Tokens, ShortText
<1>3. c \in Seq(Token) /\ l \in Seq(Token)
  BY <1>1, SepIn, ListedIn
<1>4. Listed(Append(s, e)) = l \o (c \o e)
  BY <1>1, <1>2, ListedGrows
<1>5. Row(Append(ms, m)) = o \o (l \o (c \o e))
  <2>1. MemberTexts(Append(ms, m)) = Append(s, e)
    BY MemberTextsGrow
  <2> QED
    BY <1>4, <2>1, Zenon DEF Row
<1> HIDE DEF s, e, c, o, l
<1>6. l \o (c \o e) = (l \o c) \o e
  BY <1>2, <1>3, Thirds
<1> DEFINE lc == l \o c
<1>7. lc \in Seq(Token)
  BY <1>3, ConcatProperties
<1>8. o \o (lc \o e) = (o \o lc) \o e
  <2> HIDE DEF lc
  <2> QED
    BY <1>2, <1>7, Thirds
<1>9. o \o (l \o c) = (o \o l) \o c
  BY <1>2, <1>3, Thirds
<1> QED
  BY <1>5, <1>6, <1>8, <1>9 DEF Row, o, l, s, c, e

LEMMA EmptyRow == Row(<< >>) = <<"{">>
<1>1. <<"{">> \in Seq(Token)
  BY Tokens, ShortText
<1>2. Row(<< >>) = <<"{">> \o << >>
  BY MemberTextsGrow, ListedIn DEF Row
<1> QED
  BY <1>1, <1>2, ConcatEmptySeq

LEMMA SepIs ==
    /\ Sep(0 + 1) = << >>
    /\ \A n \in Nat : n # 0 => Sep(n + 1) = <<",">>
<1>1. 0 + 1 = 1 /\ \A n \in Nat : n # 0 => n + 1 # 1
  OBVIOUS
<1> QED
  BY <1>1, Zenon DEF Sep

LEMMA OneMark ==
    ASSUME NEW c \in Token
    PROVE  /\ <<c>> \in Seq(Token) /\ Len(<<c>>) = 1 /\ <<c>>[1] = c
           /\ c # "}" => NoEnd(<<c>>)
           /\ c \in {"{", ","} => Opens(<<c>>)
<1>1. <<c>> \in Seq(Token) /\ Len(<<c>>) = 1 /\ <<c>>[1] = c
  BY ShortText
<1> DEFINE t == <<c>>
<1>2. t \in Seq(Token) /\ Len(t) = 1 /\ t[1] = c /\ 1 > 0
  BY <1>1
<1> HIDE DEF t
<1>3. \A k \in 1..Len(t) : k = 1
  BY <1>2
<1>4. c # "}" => NoEnd(t)
  BY <1>2, <1>3, Zenon DEF NoEnd
<1>5. c \in {"{", ","} => Opens(t)
  BY <1>2, Zenon DEF Opens
<1> QED
  BY <1>2, <1>4, <1>5 DEF t

LEMMA OneMore ==
    ASSUME NEW t \in Seq(Token), NEW c \in Token
    PROVE  /\ t \o <<c>> \in Seq(Token) /\ Len(t) \in Nat /\ Len(t \o <<c>>) = Len(t) + 1
           /\ (t \o <<c>>)[Len(t) + 1] = c
           /\ \A k \in 1..Len(t) : (t \o <<c>>)[k] = t[k]
OBVIOUS

LEMMA RowStep ==
    ASSUME NEW ms \in Seq(PlainMembers), RowOK(ms), NEW m \in PlainMembers
    PROVE  RowOK(Append(ms, m))
<1> DEFINE t == Row(ms)
           c == Sep(Len(ms) + 1)
           u == t \o c
           x == MemberText(m)
           more == Append(ms, m)
<1>1. t \in Seq(Token) /\ Found(t, ms) /\ NoEnd(t) /\ Len(t) > 0 /\ t[1] = "{" /\ Len(t) \in Nat
  BY LenProperties DEF RowOK
<1>2. u \in Seq(Token) /\ Found(u, ms) /\ NoEnd(u) /\ Opens(u) /\ u[1] = "{"
  <2>1. CASE ms = << >>
    <3>1. Len(ms) = 0 /\ Opens(t)
      BY <2>1, EmptySeq DEF RowOK
    <3>2. c = << >>
      BY <3>1, SepIs
    <3> HIDE DEF t, c
    <3>3. u = t
      BY <1>1, <3>2, ConcatEmptySeq
    <3> QED
      BY <1>1, <3>1, <3>3
  <2>2. CASE ms # << >>
    <3>1. Len(ms) \in Nat /\ Len(ms) # 0
      BY <2>2, LenProperties, EmptySeq
    <3>2. c = <<",">>
      BY <3>1, SepIs
    <3> HIDE DEF c, t
    <3>3. "," \in Token /\ "," # Quote /\ "," # "}"
      BY Tokens DEF Quote
    <3>4. u \in Seq(Token) /\ Found(u, ms)
      BY <1>1, <3>2, <3>3, FoundMark
    <3>5. c \in Seq(Token) /\ NoEnd(c)
      BY <3>2, <3>3, OneMark
    <3>7. NoEnd(u)
      BY <1>1, <3>5, NoEndConcat
    <3>8. /\ Len(u) = Len(t) + 1 /\ u[Len(t) + 1] = ","
          /\ \A k \in 1..Len(t) : u[k] = t[k]
      <4>1. t \in Seq(Token) /\ "," \in Token
        BY <1>1, <3>3
      <4>2. /\ Len(t \o <<",">>) = Len(t) + 1 /\ (t \o <<",">>)[Len(t) + 1] = ","
            /\ \A k \in 1..Len(t) : (t \o <<",">>)[k] = t[k]
        BY <4>1, OneMore
      <4> QED
        BY <3>2, <4>2, Zenon
    <3> HIDE DEF u
    <3>6. 1 \in 1..Len(t) /\ Len(t) + 1 > 0
      <4>1. Len(t) \in Nat /\ Len(t) > 0
        BY <1>1
      <4> QED
        BY <4>1
    <3>9. u[Len(u)] = "," /\ Len(u) > 0 /\ u[1] = "{"
      BY <1>1, <3>6, <3>8, Zenon
    <3> QED
      BY <3>4, <3>7, <3>9 DEF Opens
  <2> QED
    BY <2>1, <2>2
<1>3. Row(more) = u \o x
  BY RowGrows
<1>4. x \in Seq(Token) /\ NoEnd(x) /\ Len(x) \in {5, 7}
  BY MemberIs DEF NoEnd
<1> HIDE DEF u
<1>5. u \o x \in Seq(Token) /\ Found(u \o x, more)
  BY <1>2, FoundMember
<1> HIDE DEF x
<1>6. NoEnd(u \o x)
  BY <1>2, <1>4, NoEndConcat
<1>7. Len(u \o x) = Len(u) + Len(x) /\ Len(u) \in Nat /\ \A k \in 1..Len(u) : (u \o x)[k] = u[k]
  <2>1. u \in Seq(Token) /\ x \in Seq(Token)
    BY <1>2, <1>4
  <2> QED
    BY <2>1, TokensConcat, Zenon
<1>8. Len(u) > 0
  BY <1>2 DEF Opens
<1>9. 1 \in 1..Len(u)
  BY <1>7, <1>8
<1>10. Len(u \o x) > 0 /\ (u \o x)[1] = "{"
  <2>1. Len(x) \in Nat
    BY <1>4, LenProperties
  <2>2. Len(u \o x) > 0
    BY <1>7, <1>8, <2>1
  <2> QED
    BY <1>2, <1>7, <1>9, <2>2, Zenon
<1>11. more # << >>
  BY AppendProperties
<1> QED
  BY <1>3, <1>5, <1>6, <1>10, <1>11 DEF RowOK

LEMMA RowHolds ==
    ASSUME NEW ms \in Seq(PlainMembers)
    PROVE  RowOK(ms)
<1> DEFINE G == {r \in Seq(PlainMembers) : RowOK(r)}
           t == <<"{">>
<1>1. << >> \in G
  <2>1. << >> \in Seq(PlainMembers) /\ Row(<< >>) = t /\ Len(<< >>) = 0
    BY EmptySeq, EmptyRow
  <2>2. t \in Seq(Token) /\ Len(t) = 1 /\ t[1] = "{" /\ NoEnd(t) /\ Opens(t)
    <3>1. "{" \in Token /\ "{" # "}"
      BY Tokens
    <3> QED
      BY <3>1, OneMark
  <2> HIDE DEF t
  <2>4. \A key : ~Has(<< >>, key)
    BY DEF Has, Places
  <2>5. \A k \in 1..Len(t) : ~(k + 2 <= Len(t))
    <3>1. Len(t) = 1
      BY <2>2
    <3> QED
      BY <3>1
  <2>6. Found(t, << >>)
    BY <2>4, <2>5 DEF Found, FoundKey, NoneBefore, KeyStarts
  <2>7. Len(t) > 0
    <3>1. Len(t) = 1
      BY <2>2
    <3> QED
      BY <3>1
  <2>8. RowOK(<< >>)
    BY <2>1, <2>2, <2>6, <2>7 DEF RowOK
  <2> QED
    BY <2>1, <2>8
<1>2. ASSUME NEW r \in Seq(PlainMembers), NEW m \in PlainMembers, r \in G PROVE Append(r, m) \in G
  <2>1. RowOK(r) /\ Append(r, m) \in Seq(PlainMembers)
    BY <1>2, AppendProperties
  <2> QED
    BY <2>1, RowStep
<1> HIDE DEF G
<1>3. Seq(PlainMembers) \subseteq G
  BY <1>1, <1>2, AllSequences
<1> QED
  BY <1>3 DEF G

\* A whole object: its keys are found in it, and its only end is its last token.
LEMMA BracedIs ==
    ASSUME NEW ms \in Seq(PlainMembers), NEW t, t = Braced(ms)
    PROVE  /\ t \in Seq(Token) /\ Found(t, ms)
           /\ Len(t) \in Nat /\ Len(t) > 1 /\ t[1] = "{" /\ t[Len(t)] = "}"
           /\ \A k \in 1..(Len(t) - 1) : t[k] # "}"
<1> DEFINE r == Row(ms)
           e == <<"}">>
<1>1. r \in Seq(Token) /\ Found(r, ms) /\ NoEnd(r) /\ Len(r) > 0 /\ r[1] = "{"
  BY RowHolds DEF RowOK
<1>2. t = r \o e
  BY Zenon DEF Braced, Row, MemberTexts
<1>3. "}" \in Token /\ "}" # Quote
  BY Tokens DEF Quote
<1>5. r \o e \in Seq(Token) /\ Found(r \o e, ms)
  <2> HIDE DEF r
  <2> QED
    BY <1>1, <1>3, FoundMark
<1> HIDE DEF r
<1>6. /\ Len(t) = Len(r) + 1 /\ Len(r) \in Nat /\ t[Len(r) + 1] = "}"
      /\ \A k \in 1..Len(r) : t[k] = r[k]
  <2>1. r \in Seq(Token) /\ "}" \in Token
    BY <1>1, <1>3
  <2>2. /\ Len(r \o <<"}">>) = Len(r) + 1 /\ Len(r) \in Nat /\ (r \o <<"}">>)[Len(r) + 1] = "}"
        /\ \A k \in 1..Len(r) : (r \o <<"}">>)[k] = r[k]
    BY <2>1, OneMore
  <2> QED
    BY <1>2, <2>2, Zenon
<1> HIDE DEF e
<1>7. Len(r) \in Nat /\ Len(r) > 0 /\ Len(t) = Len(r) + 1
  BY <1>1, <1>6
<1>8. 1 \in 1..Len(r) /\ Len(t) \in Nat /\ Len(t) > 1 /\ Len(t) - 1 = Len(r)
  BY <1>7
<1>9. t[1] = "{" /\ t[Len(t)] = "}"
  BY <1>1, <1>6, <1>8, Zenon
<1>10. \A k \in 1..Len(r) : t[k] # "}"
  BY <1>1, <1>6 DEF NoEnd
<1> QED
  BY <1>2, <1>5, <1>8, <1>9, <1>10

-----------------------------------------------------------------------------
(* What the searches return.                                               *)

LEMMA FirstIs ==
    ASSUME NEW S, S \subseteq Nat, NEW q \in S, \A k \in S : q <= k
    PROVE  First(S) = q
<1>1. First(S) \in S /\ \A k \in S : First(S) <= k
  BY FirstOf
<1>2. First(S) \in Nat /\ q \in Nat /\ First(S) <= q /\ q <= First(S)
  BY <1>1
<1> QED
  BY <1>2

LEMMA QuotedIs ==
    ASSUME NEW t \in Seq(Token), NEW key, key # End
    PROVE  /\ NoneBefore(t, Len(t) + 1, key) => Quoted(t, key) = NULL
           /\ \A q \in 1..Len(t) : KeyStarts(t, q, key) /\ NoneBefore(t, q, key) => Quoted(t, key) = q
<1> DEFINE S == {k \in DOMAIN t : t[k] = Quote /\ At(t, k + 1) = key /\ At(t, k + 2) = Quote}
           n == Len(t)
<1>1. n \in Nat /\ DOMAIN t = 1..n
  BY LenProperties
<1>2. S \subseteq Nat
  <2>1. S \subseteq DOMAIN t
    OBVIOUS
  <2> HIDE DEF S
  <2>2. 1..n \subseteq Nat
    OBVIOUS
  <2> QED
    BY <1>1, <2>1, <2>2
<1>3. \A k \in 1..n : At(t, k + 1) = key /\ At(t, k + 2) = Quote <=>
                      k + 2 <= n /\ t[k + 1] = key /\ t[k + 2] = Quote
  <2>1. Quote # End
    BY DEF Quote, End
  <2>2. \A k \in 1..n : /\ k + 2 \in DOMAIN t <=> k + 2 <= n
                        /\ k + 2 <= n => k + 1 \in DOMAIN t
    BY <1>1
  <2>3. \A k \in DOMAIN t : At(t, k) = t[k]
    BY DEF At
  <2>4. \A k : k \notin DOMAIN t => At(t, k) = End
    BY DEF At
  <2> QED
    BY <2>1, <2>2, <2>3, <2>4, Zenon
<1>4. \A k : k \in S <=> k \in 1..n /\ KeyStarts(t, k, key)
  BY <1>1, <1>3 DEF KeyStarts
<1>5. Quoted(t, key) = First(S)
  BY Zenon DEF Quoted
<1> HIDE DEF S
<1>6. ASSUME NoneBefore(t, n + 1, key) PROVE Quoted(t, key) = NULL
  <2>1. \A k \in 1..n : k < n + 1
    BY <1>1
  <2>2. S = {}
    BY <1>4, <1>6, <2>1 DEF NoneBefore
  <2> QED
    BY <1>5, <2>2 DEF First
<1>7. ASSUME NEW q \in 1..n, KeyStarts(t, q, key), NoneBefore(t, q, key) PROVE Quoted(t, key) = q
  <2>1. q \in S
    BY <1>4, <1>7
  <2>2. ASSUME NEW k \in S PROVE q <= k
    <3>1. k \in 1..n /\ KeyStarts(t, k, key)
      BY <1>4
    <3>2. ~(k < q)
      BY <1>7, <3>1 DEF NoneBefore
    <3> QED
      BY <3>1, <3>2
  <2> QED
    BY <1>2, <1>5, <2>1, <2>2, FirstIs
<1> QED
  BY <1>6, <1>7

LEMMA strchrIs ==
    ASSUME NEW t \in Seq(Token), NEW from \in Nat, NEW c, NEW q \in 1..Len(t),
           q >= from, t[q] = c, \A k \in 1..Len(t) : k >= from /\ k < q => t[k] # c
    PROVE  strchr(t, from, c) = q
<1> DEFINE S == {k \in DOMAIN t : k >= from /\ t[k] = c}
<1>1. Len(t) \in Nat /\ DOMAIN t = 1..Len(t)
  BY LenProperties
<1>2. S \subseteq Nat /\ q \in S
  BY <1>1
<1>3. ASSUME NEW k \in S PROVE q <= k
  <2>1. k \in 1..Len(t) /\ k >= from /\ t[k] = c
    BY <1>1
  <2>2. ~(k < q)
    BY <2>1
  <2> QED
    BY <2>1, <2>2
<1> HIDE DEF S
<1>4. First(S) = q
  BY <1>2, <1>3, FirstIs
<1> QED
  BY <1>4 DEF strchr, S

LEMMA strchrNone ==
    ASSUME NEW t \in Seq(Token), NEW from \in Nat, NEW c,
           \A k \in 1..Len(t) : k >= from => t[k] # c
    PROVE  strchr(t, from, c) = NULL
<1> DEFINE S == {k \in DOMAIN t : k >= from /\ t[k] = c}
<1>1. S = {}
  BY LenProperties
<1> QED
  BY <1>1 DEF strchr, First

LEMMA FindKeyIs ==
    ASSUME NEW t \in Seq(Token), NEW ms, Found(t, ms), NEW key \in ReadKey
    PROVE  /\ ~Has(ms, key) => json_find_key(t, key) = NULL
           /\ Has(ms, key) => \E q : Stands(t, q, key, Written(ms, key)) /\ json_find_key(t, key) = q + 4
<1>1. key # End /\ key # ":" /\ Len(t) \in Nat
  BY LenProperties DEF ReadKey, End
<1>2. CASE ~Has(ms, key)
  <2>1. NoneBefore(t, Len(t) + 1, key)
    BY <1>2 DEF Found, FoundKey
  <2>2. Quoted(t, key) = NULL
    BY <1>1, <2>1, QuotedIs
  <2> QED
    BY <1>2, <2>2 DEF json_find_key
<1>3. CASE Has(ms, key)
  <2>1. PICK q : Stands(t, q, key, Written(ms, key)) /\ NoneBefore(t, q, key)
    BY <1>3 DEF Found, FoundKey
  <2>2. /\ q \in Nat /\ q > 0 /\ q + 4 <= Len(t)
        /\ t[q] = Quote /\ t[q + 1] = key /\ t[q + 2] = Quote /\ t[q + 3] = ":"
    BY <2>1 DEF Stands
  <2>3. q \in 1..Len(t) /\ q + 3 \in 1..Len(t) /\ q + 2 <= Len(t) /\ q + 3 >= q
    BY <1>1, <2>2
  <2>4. Quoted(t, key) = q
    <3>1. KeyStarts(t, q, key)
      BY <2>2, <2>3 DEF KeyStarts
    <3> QED
      BY <1>1, <2>1, <2>3, <3>1, QuotedIs
  <2>5. \A k \in 1..Len(t) : k >= q /\ k < q + 3 => t[k] # ":"
    <3>1. \A k \in 1..Len(t) : k >= q /\ k < q + 3 => k = q \/ k = q + 1 \/ k = q + 2
      BY <2>2
    <3> QED
      BY <1>1, <2>2, <3>1, Zenon DEF Quote
  <2>6. strchr(t, q, ":") = q + 3
    BY <2>2, <2>3, <2>5, strchrIs
  <2>7. q # NULL /\ q + 3 # NULL /\ (q + 3) + 1 = q + 4
    BY <2>2 DEF NULL
  <2>8. json_find_key(t, key) = q + 4
    BY <2>4, <2>6, <2>7 DEF json_find_key
  <2> QED
    BY <1>3, <2>1, <2>8
<1> QED
  BY <1>2, <1>3

LEMMA NumberIs ==
    ASSUME NEW t \in Seq(Token), NEW ms, Found(t, ms), NEW key \in ReadKey, key \notin TextKey
    PROVE  json_get_int32(t, key, 0) = Number(ms, key)
<1>1. CASE ~Has(ms, key)
  <2>1. json_find_key(t, key) = NULL
    BY <1>1, FindKeyIs
  <2> QED
    BY <1>1, <2>1 DEF json_get_int32, Number
<1>2. CASE Has(ms, key)
  <2>1. PICK q : Stands(t, q, key, Written(ms, key)) /\ json_find_key(t, key) = q + 4
    BY <1>2, FindKeyIs
  <2>2. q \in Nat /\ q > 0 /\ q + 4 <= Len(t) /\ t[q + 4] = Written(ms, key)
    BY <2>1 DEF Stands
  <2>3. q + 4 \in DOMAIN t /\ q + 4 # NULL
    BY <2>2, LenProperties DEF NULL
  <2>4. At(t, q + 4) = Written(ms, key)
    BY <2>2, <2>3 DEF At
  <2> QED
    BY <1>2, <2>1, <2>3, <2>4 DEF json_get_int32, Number
<1> QED
  BY <1>1, <1>2

LEMMA SubSeqOne ==
    ASSUME NEW t \in Seq(Token), NEW k \in 1..Len(t)
    PROVE  SubSeq(t, k, k) = <<t[k]>>
<1> DEFINE a == SubSeq(t, k, k)
           b == <<t[k]>>
<1>1. k \in Nat /\ t[k] \in Token /\ (k - k) + 1 = 1 /\ (k + 1) - 1 = k
  BY ElementOfSeq
<1>2. b \in Seq(Token) /\ Len(b) = 1 /\ b[1] = t[k]
  BY <1>1, ShortText
<1>3. a \in Seq(Token) /\ Len(a) = 1 /\ a[1] = t[k]
  BY <1>1, SubSeqProperties
<1> HIDE DEF a, b
<1>4. \A j \in 1..1 : a[j] = b[j]
  BY <1>2, <1>3
<1>5. a = b
  BY <1>2, <1>3, <1>4, SeqEqual
<1> QED
  BY <1>5 DEF a, b

LEMMA StringIs ==
    ASSUME NEW t \in Seq(Token), NEW ms, Found(t, ms), NEW key \in ReadKey, key \in TextKey,
           Written(ms, key) # Quote
    PROVE  /\ HasString(t, key) <=> Has(ms, key)
           /\ Has(ms, key) => json_get_string(t, key) = <<Written(ms, key)>>
<1>1. CASE ~Has(ms, key)
  <2>1. json_find_key(t, key) = NULL
    BY <1>1, FindKeyIs
  <2> QED
    BY <1>1, <2>1 DEF HasString
<1>2. CASE Has(ms, key)
  <2>1. PICK q : Stands(t, q, key, Written(ms, key)) /\ json_find_key(t, key) = q + 4
    BY <1>2, FindKeyIs
  <2>2. /\ q \in Nat /\ q > 0 /\ q + 6 <= Len(t) /\ t[q + 4] = Quote
        /\ t[q + 5] = Written(ms, key) /\ t[q + 6] = Quote
    BY <2>1 DEF Stands
  <2>3. /\ q + 4 \in 1..Len(t) /\ q + 5 \in 1..Len(t) /\ q + 6 \in 1..Len(t) /\ q + 4 # NULL
        /\ (q + 4) + 1 = q + 5 /\ (q + 6) - 1 = q + 5 /\ q + 6 >= q + 5 /\ q + 5 \in Nat /\ q + 6 # NULL
    BY <2>2, LenProperties DEF NULL
  <2>4. At(t, q + 4) = Quote
    BY <2>2, <2>3, LenProperties DEF At
  <2>5. HasString(t, key)
    BY <2>1, <2>3, <2>4 DEF HasString
  <2>6. strchr(t, q + 5, Quote) = q + 6
    <3>1. \A k \in 1..Len(t) : k >= q + 5 /\ k < q + 6 => k = q + 5
      BY <2>2
    <3>2. \A k \in 1..Len(t) : k >= q + 5 /\ k < q + 6 => t[k] # Quote
      BY <2>2, <3>1, Zenon
    <3> QED
      BY <2>2, <2>3, <3>2, strchrIs
  <2>7. SubSeq(t, q + 5, q + 5) = <<t[q + 5]>>
    BY <2>3, SubSeqOne
  <2>8. json_get_string(t, key) = SubSeq(t, q + 5, q + 5)
    BY <2>1, <2>3, <2>6 DEF json_get_string
  <2> QED
    BY <1>2, <2>2, <2>5, <2>7, <2>8
<1> QED
  BY <1>1, <1>2

LEMMA NamedIs ==
    ASSUME NEW names, NEW w, NEW default
    PROVE  Named(names, <<w>>, default) = IF w \in DOMAIN names THEN names[w] ELSE default
<1>1. Len(<<w>>) = 1 /\ <<w>>[1] = w
  OBVIOUS
<1> QED
  BY <1>1 DEF Named

LEMMA WordIsPlain ==
    ASSUME NEW ms \in Seq(PlainMembers), NEW key, Has(ms, key)
    PROVE  Written(ms, key) # Quote
<1>1. Places(ms, key) \subseteq 1..Len(ms) /\ Places(ms, key) \subseteq Nat /\ Places(ms, key) # {}
  BY PlacesIn DEF Has
<1>2. First(Places(ms, key)) \in 1..Len(ms)
  BY <1>1, FirstOf
<1>3. ms[First(Places(ms, key))] \in PlainMembers
  BY <1>2, ElementOfSeq
<1> QED
  BY <1>3 DEF Written, PlainMembers, PlainMember

\* The node is refused without its two members, and is the one that is written.
LEMMA NodeIs ==
    ASSUME NEW ms \in Seq(PlainMembers), NEW t, t = Braced(ms)
    PROVE  /\ NodeFails(t) <=> ~(Has(ms, "id") /\ Has(ms, "type"))
           /\ ~NodeFails(t) => parse_node(t) = NodeMeaning(ms)
<1>1. t \in Seq(Token) /\ Found(t, ms)
  BY BracedIs
<1>2. /\ "id" \in ReadKey /\ "type" \in ReadKey /\ "valueType" \in ReadKey /\ "inA" \in ReadKey
      /\ "inB" \in ReadKey /\ "paramInt" \in ReadKey /\ "paramMs" \in ReadKey /\ "flags" \in ReadKey
      /\ "type" \in TextKey /\ "valueType" \in TextKey /\ "id" \notin TextKey /\ "inA" \notin TextKey
      /\ "inB" \notin TextKey /\ "paramInt" \notin TextKey /\ "paramMs" \notin TextKey
      /\ "flags" \notin TextKey
  BY DEF ReadKey, TextKey
<1>3. json_find_key(t, "id") # NULL <=> Has(ms, "id")
  <2>1. /\ ~Has(ms, "id") => json_find_key(t, "id") = NULL
        /\ Has(ms, "id") => \E q : Stands(t, q, "id", Written(ms, "id")) /\ json_find_key(t, "id") = q + 4
    BY <1>1, <1>2, FindKeyIs
  <2>2. ASSUME Has(ms, "id") PROVE json_find_key(t, "id") # NULL
    <3>1. PICK q : Stands(t, q, "id", Written(ms, "id")) /\ json_find_key(t, "id") = q + 4
      BY <2>1, <2>2
    <3>2. q \in Nat
      BY <3>1 DEF Stands
    <3> QED
      BY <3>1, <3>2 DEF NULL
  <2> QED
    BY <2>1, <2>2
<1>4. ASSUME NEW key \in {"type", "valueType"}
      PROVE  /\ HasString(t, key) <=> Has(ms, key)
             /\ Has(ms, key) => json_get_string(t, key) = <<Written(ms, key)>>
  <2>1. key \in ReadKey /\ key \in TextKey
    BY <1>2
  <2>2. CASE Has(ms, key)
    <3>1. Written(ms, key) # Quote
      BY <2>2, WordIsPlain
    <3> QED
      BY <1>1, <2>1, <3>1, StringIs
  <2>3. CASE ~Has(ms, key)
    <3>1. json_find_key(t, key) = NULL
      BY <1>1, <2>1, <2>3, FindKeyIs
    <3> QED
      BY <2>3, <3>1 DEF HasString
  <2> QED
    BY <2>2, <2>3
<1>5. NodeFails(t) <=> ~(Has(ms, "id") /\ Has(ms, "type"))
  BY <1>3, <1>4 DEF NodeFails
<1>6. ASSUME ~NodeFails(t) PROVE parse_node(t) = NodeMeaning(ms)
  <2>1. /\ json_get_int32(t, "id", 0) = Number(ms, "id")
        /\ json_get_int32(t, "inA", 0) = Number(ms, "inA")
        /\ json_get_int32(t, "inB", 0) = Number(ms, "inB")
        /\ json_get_int32(t, "paramInt", 0) = Number(ms, "paramInt")
        /\ json_get_int32(t, "paramMs", 0) = Number(ms, "paramMs")
        /\ json_get_int32(t, "flags", 0) = Number(ms, "flags")
    BY <1>1, <1>2, NumberIs
  <2>2. parse_node_type(json_get_string(t, "type")) = Word(ms, "type", TypeNames, "CONST_BOOL")
    <3>1. Has(ms, "type") /\ json_get_string(t, "type") = <<Written(ms, "type")>>
      BY <1>4, <1>5, <1>6
    <3>2. parse_node_type(<<Written(ms, "type")>>)
            = IF Written(ms, "type") \in DOMAIN TypeNames
              THEN TypeNames[Written(ms, "type")] ELSE "CONST_BOOL"
      <4> DEFINE w == Written(ms, "type")
      <4>1. Named(TypeNames, <<w>>, "CONST_BOOL") = IF w \in DOMAIN TypeNames THEN TypeNames[w] ELSE "CONST_BOOL"
        BY NamedIs
      <4>2. parse_node_type(<<w>>) = Named(TypeNames, <<w>>, "CONST_BOOL")
        BY Zenon DEF parse_node_type
      <4> QED
        BY <4>1, <4>2, Zenon
    <3> QED
      BY <3>1, <3>2, Zenon DEF Word
  <2> DEFINE v == IF HasString(t, "valueType")
                  THEN parse_value_type(json_get_string(t, "valueType")) ELSE "BOOL"
             names == [BOOL |-> "BOOL", INT |-> "INT", FLOAT |-> "FLOAT"]
  <2>3. v = Word(ms, "valueType", names, "BOOL")
    <3>1. CASE Has(ms, "valueType")
      <4>1. HasString(t, "valueType") /\ json_get_string(t, "valueType") = <<Written(ms, "valueType")>>
        BY <1>4, <3>1
      <4>2. parse_value_type(<<Written(ms, "valueType")>>)
              = IF Written(ms, "valueType") \in DOMAIN names
                THEN names[Written(ms, "valueType")] ELSE "BOOL"
        <5> DEFINE w == Written(ms, "valueType")
        <5>1. parse_value_type(<<w>>) = Named(names, <<w>>, "BOOL")
          BY Zenon DEF parse_value_type
        <5> HIDE DEF w, names
        <5>2. Named(names, <<w>>, "BOOL") = IF w \in DOMAIN names THEN names[w] ELSE "BOOL"
          BY NamedIs
        <5> QED
          BY <5>1, <5>2, Zenon DEF w
      <4> HIDE DEF names
      <4> QED
        BY <3>1, <4>1, <4>2, Zenon DEF Word
    <3>2. CASE ~Has(ms, "valueType")
      BY <1>4, <3>2 DEF Word
    <3> QED
      BY <3>1, <3>2
  <2>4. parse_node(t) =
        [id |-> uint16(json_get_int32(t, "id", 0)),
         type |-> parse_node_type(json_get_string(t, "type")), valueType |-> v,
         inA |-> int16(json_get_int32(t, "inA", 0)), inB |-> int16(json_get_int32(t, "inB", 0)),
         paramInt |-> json_get_int32(t, "paramInt", 0),
         paramMs |-> uint32(json_get_int32(t, "paramMs", 0)),
         force_flag |-> uint32(json_get_int32(t, "flags", 0)) % 2 = 1,
         out |-> FALSE, force_en |-> FALSE, force_bool |-> FALSE, force_left_ms |-> 0]
    BY Zenon DEF parse_node
  <2>5. NodeMeaning(ms) =
        [id |-> uint16(Number(ms, "id")),
         type |-> Word(ms, "type", TypeNames, "CONST_BOOL"),
         valueType |-> Word(ms, "valueType", names, "BOOL"),
         inA |-> int16(Number(ms, "inA")), inB |-> int16(Number(ms, "inB")),
         paramInt |-> Number(ms, "paramInt"), paramMs |-> uint32(Number(ms, "paramMs")),
         force_flag |-> uint32(Number(ms, "flags")) % 2 = 1,
         out |-> FALSE, force_en |-> FALSE, force_bool |-> FALSE, force_left_ms |-> 0]
    BY Zenon DEF NodeMeaning, uint16, uint32
  <2> HIDE DEF v, names
  <2> QED
    BY <2>1, <2>2, <2>3, <2>4, <2>5, Zenon
<1> QED
  BY <1>5, <1>6

-----------------------------------------------------------------------------
(* A document, and how far the reading has got in it.                      *)

PlainDocuments == [cycle : Words, nodes : Seq(Seq(PlainMembers)), after : {<< >>}]

NodeTexts(ns) == [k \in DOMAIN ns |-> Braced(ns[k])]

LEMMA NodeTextsGrow ==
    /\ NodeTexts(<< >>) = << >>
    /\ \A ns \in Seq(Seq(PlainMembers)) :
          NodeTexts(ns) \in Seq(Seq(Token)) /\ Len(NodeTexts(ns)) = Len(ns)
    /\ \A ns \in Seq(Seq(PlainMembers)), ms \in Seq(PlainMembers) :
          NodeTexts(Append(ns, ms)) = Append(NodeTexts(ns), Braced(ms))
<1> DEFINE P == Seq(PlainMembers)
           T == Seq(Token)
<1>0. \A ms \in P : Braced(ms) \in T
  BY BracedIs
<1>1. ASSUME NEW ns \in Seq(P)
      PROVE  /\ NodeTexts(ns) \in Seq(T) /\ Len(NodeTexts(ns)) = Len(ns)
             /\ \A k \in 1..Len(ns) : NodeTexts(ns)[k] = Braced(ns[k])
  <2> HIDE DEF P, T
  <2>1. Len(ns) \in Nat /\ DOMAIN ns = 1..Len(ns) /\ \A k \in 1..Len(ns) : ns[k] \in P
    BY LenProperties, ElementOfSeq
  <2>2. \A k \in 1..Len(ns) : Braced(ns[k]) \in T
    BY <1>0, <2>1
  <2>3. \A k \in 1..Len(ns) : NodeTexts(ns)[k] = Braced(ns[k])
    BY <2>1 DEF NodeTexts
  <2>4. NodeTexts(ns) \in Seq(T) /\ Len(NodeTexts(ns)) = Len(ns)
    BY <2>1, <2>2 DEF NodeTexts
  <2> QED
    BY <2>3, <2>4
<1>2. NodeTexts(<< >>) = << >>
  <2> HIDE DEF P, T
  <2>1. << >> \in Seq(P) /\ Len(<< >>) = 0
    BY EmptySeq
  <2>2. NodeTexts(<< >>) \in Seq(T) /\ Len(NodeTexts(<< >>)) = 0
    BY <1>1, <2>1
  <2> QED
    BY <2>2, EmptySeq
<1>3. ASSUME NEW ns \in Seq(P), NEW ms \in P
      PROVE  NodeTexts(Append(ns, ms)) = Append(NodeTexts(ns), Braced(ms))
  <2> DEFINE n == Len(ns)
             more == Append(ns, ms)
             a == NodeTexts(more)
             b == NodeTexts(ns)
             e == Braced(ms)
  <2> HIDE DEF P, T
  <2>1. /\ n \in Nat /\ more \in Seq(P) /\ Len(more) = n + 1 /\ more[n + 1] = ms
        /\ \A k \in 1..n : more[k] = ns[k]
    BY AppendedTo, LenProperties
  <2>2. b \in Seq(T) /\ Len(b) = n /\ \A k \in 1..n : b[k] = Braced(ns[k])
    BY <1>1
  <2> HIDE DEF more
  <2>3. a \in Seq(T) /\ Len(a) = Len(more) /\ \A k \in 1..Len(more) : a[k] = Braced(more[k])
    BY <1>1, <2>1
  <2>4. \A k \in 1..n : k \in 1..(n + 1)
    BY <2>1
  <2>5. n + 1 \in 1..(n + 1)
    BY <2>1
  <2>6. e \in T
    BY <1>0
  <2>7. Len(a) = n + 1 /\ a[n + 1] = e
    BY <2>1, <2>3, <2>5, Zenon
  <2>8. \A k \in 1..n : a[k] = b[k]
    BY <2>1, <2>2, <2>3, <2>4, Zenon
  <2> HIDE DEF a, b, e, n
  <2>9. a = Append(b, e)
    BY <2>1, <2>2, <2>3, <2>6, <2>7, <2>8, GrownBy
  <2> QED
    BY <2>9 DEF a, b, e, more
<1> QED
  BY <1>1, <1>2, <1>3

\* The text up to the nodes.
Opening(c) ==
    <<"{", Quote, "cycleMs", Quote, ":", c, ",", Quote, "nodes", Quote, ":", "[">>

\* The text with these nodes, up to the end of the last of them.
Upto(c, ns) == Opening(c) \o Listed(NodeTexts(ns))

Closing == <<"]", "}">>

LEMMA TwelveTokens ==
    ASSUME NEW S, NEW a \in S, NEW b \in S, NEW c \in S, NEW d \in S, NEW e \in S, NEW f \in S,
           NEW g \in S, NEW h \in S
    PROVE  <<a, b, c, b, d, e, f, b, g, b, d, h>> \in Seq(S)
OBVIOUS

\* Marks by name: the steps about numbers and positions are about no letters.
OpenMark  == "{"
CloseMark == "}"
CommaMark     == ","

LEMMA MarksDiffer ==
    /\ OpenMark # CommaMark /\ OpenMark # CloseMark /\ OpenMark # "]" /\ OpenMark # End
    /\ CommaMark # Quote /\ CommaMark # End /\ CommaMark # ":" /\ CommaMark # "[" /\ OpenMark # Quote
BY Zenon DEF OpenMark, CloseMark, CommaMark, Quote, End

LEMMA OpeningIs ==
    ASSUME NEW c \in Words, NEW o, o = Opening(c)
    PROVE  /\ o \in Seq(Token) /\ Len(o) = 12
           /\ o[1] = OpenMark /\ o[2] = Quote /\ o[3] = "cycleMs" /\ o[4] = Quote /\ o[5] = ":"
           /\ o[6] = c /\ o[7] = CommaMark /\ o[8] = Quote /\ o[9] = "nodes" /\ o[10] = Quote
           /\ o[11] = ":" /\ o[12] = "["
<1>1. /\ c \in Token /\ Quote \in Token /\ ":" \in Token /\ "," \in Token /\ "{" \in Token
      /\ "[" \in Token /\ "cycleMs" \in Token /\ "nodes" \in Token
  BY Tokens
<1>2. o \in Seq(Token)
  BY <1>1, TwelveTokens, Zenon DEF Opening
<1> QED
  BY <1>2 DEF Opening, OpenMark, CommaMark

LEMMA UptoType ==
    ASSUME NEW c \in Words, NEW ns \in Seq(Seq(PlainMembers))
    PROVE  Upto(c, ns) \in Seq(Token)
<1>1. Opening(c) \in Seq(Token) /\ Listed(NodeTexts(ns)) \in Seq(Token)
  BY OpeningIs, NodeTextsGrow, ListedIn
<1> QED
  BY <1>1, ConcatProperties DEF Upto

LEMMA UptoNone ==
    ASSUME NEW c \in Words
    PROVE  Upto(c, << >>) = Opening(c)
<1>1. Opening(c) \in Seq(Token) /\ Listed(NodeTexts(<< >>)) = << >>
  BY OpeningIs, NodeTextsGrow, ListedIn
<1> HIDE DEF Opening
<1> QED
  BY <1>1, ConcatEmptySeq DEF Upto

LEMMA UptoGrows ==
    ASSUME NEW c \in Words, NEW ns \in Seq(Seq(PlainMembers)), NEW ms \in Seq(PlainMembers)
    PROVE  /\ Sep(Len(ns) + 1) \o Braced(ms) \in Seq(Token)
           /\ Upto(c, Append(ns, ms)) = Upto(c, ns) \o (Sep(Len(ns) + 1) \o Braced(ms))
<1> DEFINE o == Opening(c)
           l == Listed(NodeTexts(ns))
           y == Sep(Len(ns) + 1) \o Braced(ms)
<1>1. o \in Seq(Token) /\ l \in Seq(Token)
  BY OpeningIs, NodeTextsGrow, ListedIn
<1>2. Len(ns) + 1 \in Nat /\ NodeTexts(ns) \in Seq(Seq(Token)) /\ Len(NodeTexts(ns)) = Len(ns)
  BY LenProperties, NodeTextsGrow
<1>3. Braced(ms) \in Seq(Token)
  BY BracedIs
<1>4. y \in Seq(Token)
  BY <1>2, <1>3, SepIn, ConcatProperties
<1>5. Listed(Append(NodeTexts(ns), Braced(ms))) = l \o y
  <2>1. Listed(Append(NodeTexts(ns), Braced(ms)))
          = Listed(NodeTexts(ns)) \o (Sep(Len(NodeTexts(ns)) + 1) \o Braced(ms))
    BY <1>2, <1>3, ListedGrows
  <2> QED
    BY <1>2, <2>1
<1>6. NodeTexts(Append(ns, ms)) = Append(NodeTexts(ns), Braced(ms))
  BY NodeTextsGrow
<1>7. Upto(c, Append(ns, ms)) = o \o (l \o y)
  BY <1>5, <1>6, Zenon DEF Upto
<1> HIDE DEF o, l, y
<1>8. o \o (l \o y) = (o \o l) \o y
  BY <1>1, <1>4, Thirds
<1> QED
  BY <1>4, <1>7, <1>8, Zenon DEF Upto, o, l, y

LEMMA TwoTokens ==
    ASSUME NEW S, NEW a \in S, NEW b \in S
    PROVE  <<a>> \o <<b>> = <<a, b>>
<1> DEFINE x == <<a>>
           y == <<b>>
           u == x \o y
           v == <<a, b>>
<1>1. x \in Seq(S) /\ y \in Seq(S) /\ Len(x) = 1 /\ Len(y) = 1 /\ x[1] = a /\ y[1] = b
  BY ShortText
<1>2. v \in Seq(S) /\ Len(v) = 2 /\ v[1] = a /\ v[2] = b
  BY ShortText
<1> HIDE DEF x, y, v
<1>3. /\ u \in Seq(S) /\ Len(u) = Len(x) + Len(y)
      /\ (\A k \in 1..Len(x) : u[k] = x[k]) /\ \A k \in 1..Len(y) : u[Len(x) + k] = y[k]
  BY <1>1, ConcatAt
<1> HIDE DEF u
<1>4. Len(u) = 2 /\ u[1] = a /\ u[2] = b
  BY <1>1, <1>3
<1>5. \A k \in 1..2 : u[k] = v[k]
  <2>1. \A k \in 1..2 : k = 1 \/ k = 2
    OBVIOUS
  <2> QED
    BY <1>2, <1>4, <2>1
<1>6. u = v
  BY <1>2, <1>3, <1>4, <1>5, SeqEqual
<1> QED
  BY <1>6 DEF u, x, y, v

LEMMA TextIs ==
    ASSUME NEW d \in PlainDocuments
    PROVE  Text(d) = Upto(d.cycle, d.nodes) \o Closing
<1>1. d.after = << >>
  BY DEF PlainDocuments
<1>2. (<<"]">> \o << >>) \o <<"}">> = Closing
  <2>1. <<"]">> \in Seq(Token)
    BY Tokens, ShortText
  <2>2. <<"]">> \o << >> = <<"]">>
    BY <2>1, ConcatEmptySeq
  <2>3. <<"]">> \o <<"}">> = <<"]", "}">>
    BY Tokens, TwoTokens
  <2> QED
    BY <2>2, <2>3 DEF Closing
<1> HIDE DEF Closing
<1>3. Text(d) = Upto(d.cycle, d.nodes) \o ((<<"]">> \o << >>) \o <<"}">>)
  BY <1>1, Zenon DEF Text, Upto, Opening, NodeTexts
<1> QED
  BY <1>2, <1>3

\* The first nodes of a list, and that the text goes on behind them.
Leading(ns, k) == SubSeq(ns, 1, k)

LEMMA LeadingIs ==
    ASSUME NEW S, NEW ns \in Seq(S), NEW k \in 0..Len(ns)
    PROVE  /\ Leading(ns, k) \in Seq(S) /\ Len(Leading(ns, k)) = k
           /\ \A j \in 1..k : Leading(ns, k)[j] = ns[j]
<1>1. k \in Nat /\ Len(ns) \in Nat /\ 1 \in Int /\ k \in Int /\ (k - 1) + 1 = k
  BY LenProperties
<1>2. \A j \in 1..k : j \in 1..Len(ns) /\ (1 + j) - 1 = j
  BY <1>1
<1>3. \A j \in 1..k : ns[j] \in S
  BY <1>2, ElementOfSeq
<1>4. /\ Leading(ns, k) \in Seq(S)
      /\ Len(Leading(ns, k)) = IF 1 <= k THEN (k - 1) + 1 ELSE 0
      /\ \A j \in 1..((k - 1) + 1) : Leading(ns, k)[j] = ns[(1 + j) - 1]
  BY <1>1, <1>3, SubSeqProperties DEF Leading
<1>5. Len(Leading(ns, k)) = k
  BY <1>1, <1>4
<1> QED
  BY <1>1, <1>2, <1>4, <1>5

LEMMA LeadingGrows ==
    ASSUME NEW S, NEW ns \in Seq(S), NEW k \in Nat, k < Len(ns)
    PROVE  ns[k + 1] \in S /\ Leading(ns, k + 1) = Append(Leading(ns, k), ns[k + 1])
<1> DEFINE a == Leading(ns, k + 1)
           b == Leading(ns, k)
<1>1. k \in 0..Len(ns) /\ k + 1 \in 0..Len(ns) /\ k + 1 \in 1..Len(ns) /\ k + 1 \in 1..(k + 1)
  BY LenProperties
<1>2. ns[k + 1] \in S
  BY <1>1, ElementOfSeq
<1>3. b \in Seq(S) /\ Len(b) = k /\ \A j \in 1..k : b[j] = ns[j]
  BY <1>1, LeadingIs
<1>4. a \in Seq(S) /\ Len(a) = k + 1 /\ \A j \in 1..(k + 1) : a[j] = ns[j]
  BY <1>1, LeadingIs
<1>5. \A j \in 1..k : j \in 1..(k + 1)
  OBVIOUS
<1> HIDE DEF a, b
<1>6. a[k + 1] = ns[k + 1] /\ \A j \in 1..k : a[j] = b[j]
  BY <1>1, <1>3, <1>4, <1>5
<1>7. a = Append(b, ns[k + 1])
  BY <1>2, <1>3, <1>4, <1>6, GrownBy
<1> QED
  BY <1>2, <1>7 DEF a, b

LEMMA LeadingAll ==
    ASSUME NEW S, NEW ns \in Seq(S)
    PROVE  Leading(ns, Len(ns)) = ns
BY SubSeqFull DEF Leading

LEMMA OneSign ==
    ASSUME NEW c \in Token
    PROVE  Len(<<c>>) = 1 /\ <<c>>[1] = c
OBVIOUS

LEMMA TextGoesOn ==
    ASSUME NEW c \in Words, NEW ns \in Seq(Seq(PlainMembers)), NEW k \in 0..Len(ns)
    PROVE  \E rest \in Seq(Token) : Upto(c, ns) = Upto(c, Leading(ns, k)) \o rest
<1> DEFINE P == Seq(PlainMembers)
           On(r) == \A j \in 0..Len(r) : \E rest \in Seq(Token) : Upto(c, r) = Upto(c, Leading(r, j)) \o rest
           G == {r \in Seq(P) : On(r)}
<1>1. \A r \in Seq(P) : Upto(c, r) \in Seq(Token) /\ Len(r) \in Nat /\ Leading(r, Len(r)) = r
  BY UptoType, LeadingAll, LenProperties
<1>2. << >> \in Seq(Token) /\ \A u \in Seq(Token) : u \o << >> = u
  BY EmptySeq, ConcatEmptySeq
<1>3. << >> \in G
  <2>1. << >> \in Seq(P) /\ Len(<< >>) = 0
    BY EmptySeq
  <2>2. \A j \in 0..0 : j = 0
    OBVIOUS
  <2>3. Upto(c, << >>) = Upto(c, Leading(<< >>, 0)) \o << >>
    BY <1>1, <1>2, <2>1
  <2> HIDE DEF P
  <2>4. On(<< >>)
    BY <1>2, <2>1, <2>2, <2>3
  <2> QED
    BY <2>1, <2>4
<1>4. ASSUME NEW r \in Seq(P), NEW ms \in P, r \in G PROVE Append(r, ms) \in G
  <2> DEFINE more == Append(r, ms)
             y == Sep(Len(r) + 1) \o Braced(ms)
  <2>1. y \in Seq(Token) /\ Upto(c, more) = Upto(c, r) \o y
    BY UptoGrows
  <2>2. /\ more \in Seq(P) /\ Len(more) = Len(r) + 1 /\ Len(r) \in Nat
        /\ \A j \in 1..Len(r) : more[j] = r[j]
    BY <1>1, AppendedTo
  <2> HIDE DEF P, more, y
  <2>3. ASSUME NEW j \in 0..Len(more)
        PROVE  \E rest \in Seq(Token) : Upto(c, more) = Upto(c, Leading(more, j)) \o rest
    <3>1. CASE j = Len(more)
      <4>1. Upto(c, more) = Upto(c, Leading(more, j)) \o << >>
        BY <1>1, <1>2, <2>2, <3>1
      <4> QED
        BY <1>2, <4>1
    <3>2. CASE j # Len(more)
      <4>1. j \in 0..Len(r) /\ j \in Nat
        BY <2>2, <3>2
      <4>2. Leading(more, j) = Leading(r, j)
        <5> DEFINE a == Leading(more, j)
                   b == Leading(r, j)
        <5>1. a \in Seq(P) /\ Len(a) = j /\ \A q \in 1..j : a[q] = more[q]
          BY <2>2, LeadingIs
        <5>2. b \in Seq(P) /\ Len(b) = j /\ \A q \in 1..j : b[q] = r[q]
          BY <4>1, LeadingIs
        <5>3. \A q \in 1..j : q \in 1..Len(r)
          BY <2>2, <4>1
        <5> HIDE DEF a, b
        <5>4. \A q \in 1..j : a[q] = b[q]
          BY <2>2, <5>1, <5>2, <5>3
        <5>5. a = b
          BY <4>1, <5>1, <5>2, <5>4, SeqEqual
        <5> QED
          BY <5>5 DEF a, b
      <4>3. PICK rest \in Seq(Token) : Upto(c, r) = Upto(c, Leading(r, j)) \o rest
        BY <1>4, <4>1
      <4>4. Leading(r, j) \in Seq(P)
        BY <4>1, LeadingIs
      <4> DEFINE u == Upto(c, Leading(r, j))
      <4>5. u \in Seq(Token)
        BY <1>1, <4>4
      <4>6. Upto(c, more) = (u \o rest) \o y
        BY <2>1, <4>3
      <4> HIDE DEF u
      <4>7. (u \o rest) \o y = u \o (rest \o y) /\ rest \o y \in Seq(Token)
        <5> HIDE DEF Upto
        <5>1. (u \o rest) \o y = u \o (rest \o y)
          BY <2>1, <4>3, <4>5, TokensJoined
        <5>2. rest \o y \in Seq(Token)
          BY <2>1, <4>3, ConcatProperties, Zenon
        <5> QED
          BY <5>1, <5>2
      <4> QED
        BY <4>2, <4>6, <4>7 DEF u
    <3> QED
      BY <3>1, <3>2
  <2> QED
    BY <2>2, <2>3 DEF more
<1> HIDE DEF G
<1>5. Seq(P) \subseteq G
  BY <1>3, <1>4, AllSequences
<1> QED
  BY <1>5 DEF G

\* Where the search for the nodes begins, and the cycle time that is read.
LEMMA OpeningRead ==
    ASSUME NEW c \in Words, NEW o, o = Opening(c), NEW t \in Seq(Token), Len(t) >= 12,
           \A k \in 1..12 : t[k] = o[k], NEW default
    PROVE  /\ Quoted(t, "nodes") = 8 /\ strchr(t, 8, "[") = 12
           /\ json_get_int32(t, "cycleMs", default) = strtol(c)
<1>1. /\ o \in Seq(Token) /\ Len(o) = 12
      /\ o[1] = OpenMark /\ o[2] = Quote /\ o[3] = "cycleMs" /\ o[4] = Quote /\ o[5] = ":"
      /\ o[6] = c /\ o[7] = CommaMark /\ o[8] = Quote /\ o[9] = "nodes" /\ o[10] = Quote
      /\ o[11] = ":" /\ o[12] = "["
  BY OpeningIs
<1>2. Len(t) \in Nat /\ Len(t) >= 12
  BY LenProperties
<1>3. /\ t[1] = OpenMark /\ t[2] = Quote /\ t[3] = "cycleMs" /\ t[4] = Quote /\ t[5] = ":"
      /\ t[6] = c /\ t[7] = CommaMark /\ t[8] = Quote /\ t[9] = "nodes" /\ t[10] = Quote
      /\ t[11] = ":" /\ t[12] = "["
  BY <1>1
<1>4. \A k \in 1..12 : k \in 1..Len(t)
  BY <1>2
<1>5. "nodes" # End /\ "cycleMs" # End
  BY DEF End
<1>6. Quoted(t, "nodes") = 8
  <2>1. KeyStarts(t, 8, "nodes")
    BY <1>2, <1>3 DEF KeyStarts
  <2>2. \A k \in 1..Len(t) : k < 8 => k = 1 \/ k = 2 \/ k = 3 \/ k = 4 \/ k = 5 \/ k = 6 \/ k = 7
    OBVIOUS
  <2>3. /\ ~KeyStarts(t, 1, "nodes") /\ ~KeyStarts(t, 2, "nodes") /\ ~KeyStarts(t, 3, "nodes")
        /\ ~KeyStarts(t, 4, "nodes") /\ ~KeyStarts(t, 5, "nodes") /\ ~KeyStarts(t, 6, "nodes")
        /\ ~KeyStarts(t, 7, "nodes")
    <3>1. ~KeyStarts(t, 1, "nodes")
      BY <1>3, MarksDiffer DEF KeyStarts
    <3>2. ~KeyStarts(t, 2, "nodes")
      BY <1>3 DEF KeyStarts
    <3>3. ~KeyStarts(t, 3, "nodes")
      BY <1>3 DEF KeyStarts, Quote
    <3>4. ~KeyStarts(t, 4, "nodes")
      BY <1>3 DEF KeyStarts
    <3>5. ~KeyStarts(t, 5, "nodes")
      BY <1>3 DEF KeyStarts, Quote
    <3>6. ~KeyStarts(t, 6, "nodes")
      <4>1. CommaMark # "nodes"
        BY Zenon DEF CommaMark
      <4> QED
        BY <1>3, <4>1 DEF KeyStarts
    <3>7. ~KeyStarts(t, 7, "nodes")
      BY <1>3, MarksDiffer DEF KeyStarts
    <3> QED
      BY <3>1, <3>2, <3>3, <3>4, <3>5, <3>6, <3>7
  <2>4. NoneBefore(t, 8, "nodes")
    BY <2>2, <2>3, Zenon DEF NoneBefore
  <2>5. 8 \in 1..Len(t)
    BY <1>4
  <2> QED
    BY <1>2, <1>5, <2>1, <2>4, <2>5, QuotedIs
<1>7. Quoted(t, "cycleMs") = 2
  <2>1. KeyStarts(t, 2, "cycleMs")
    BY <1>2, <1>3 DEF KeyStarts
  <2>2. \A k \in 1..Len(t) : k < 2 => k = 1
    OBVIOUS
  <2>3. ~KeyStarts(t, 1, "cycleMs")
    BY <1>3, MarksDiffer, Zenon DEF KeyStarts, Quote
  <2>4. NoneBefore(t, 2, "cycleMs")
    BY <2>2, <2>3, Zenon DEF NoneBefore
  <2>5. 2 \in 1..Len(t)
    BY <1>4
  <2> QED
    BY <1>2, <1>5, <2>1, <2>4, <2>5, QuotedIs
<1>8. strchr(t, 8, "[") = 12
  <2>1. \A k \in 1..Len(t) : k >= 8 /\ k < 12 => k = 8 \/ k = 9 \/ k = 10 \/ k = 11
    OBVIOUS
  <2>2. t[8] # "[" /\ t[9] # "[" /\ t[10] # "[" /\ t[11] # "["
    BY <1>3 DEF Quote
  <2>3. \A k \in 1..Len(t) : k >= 8 /\ k < 12 => t[k] # "["
    BY <2>1, <2>2, Zenon
  <2>4. 12 \in 1..Len(t) /\ 8 \in Nat /\ 12 >= 8
    BY <1>4
  <2> QED
    BY <1>2, <1>3, <2>3, <2>4, strchrIs
<1>9. strchr(t, 2, ":") = 5
  <2>1. \A k \in 1..Len(t) : k >= 2 /\ k < 5 => k = 2 \/ k = 3 \/ k = 4
    OBVIOUS
  <2>2. t[2] # ":" /\ t[3] # ":" /\ t[4] # ":"
    BY <1>3 DEF Quote
  <2>3. \A k \in 1..Len(t) : k >= 2 /\ k < 5 => t[k] # ":"
    BY <2>1, <2>2, Zenon
  <2>4. 5 \in 1..Len(t) /\ 2 \in Nat /\ 5 >= 2
    BY <1>4
  <2> QED
    BY <1>2, <1>3, <2>3, <2>4, strchrIs
<1>10. json_find_key(t, "cycleMs") = 6
  BY <1>7, <1>9 DEF json_find_key, NULL
<1>11. At(t, 6) = c
  <2>1. 6 \in DOMAIN t
    BY <1>2, <1>4, LenProperties
  <2> QED
    BY <1>3, <2>1 DEF At
<1> QED
  BY <1>6, <1>8, <1>10, <1>11 DEF json_get_int32, NULL

\* The next object is found behind the comma, up to its end.
ObjectAt(t, A, G, b) ==
    /\ A \in Nat /\ G \in {0, 1} /\ b \in Seq(Token)
    /\ Len(b) > 1 /\ b[1] = OpenMark /\ b[Len(b)] = CloseMark
    /\ \A k \in 1..(Len(b) - 1) : b[k] # CloseMark
    /\ Len(t) >= A + G + Len(b) /\ \A k \in 1..Len(b) : t[A + G + k] = b[k]
    /\ G = 1 => t[A + 1] = CommaMark

LEMMA NextObject ==
    ASSUME NEW t \in Seq(Token), NEW A, NEW G, NEW b, ObjectAt(t, A, G, b)
    PROVE  /\ strchr(t, A + 1, OpenMark) = A + G + 1
           /\ strchr(t, A + G + 1, CloseMark) = A + G + Len(b)
           /\ At(t, A + 1) # End /\ SubSeq(t, A + G + 1, A + G + Len(b)) = b
<1> DEFINE B == Len(b)
<1>1. /\ B \in Nat /\ G \in Nat /\ A \in Nat /\ b \in Seq(Token) /\ Len(t) \in Nat
      /\ (G = 0 \/ G = 1) /\ DOMAIN t = 1..Len(t)
      /\ B > 1 /\ b[1] = OpenMark /\ b[B] = CloseMark
      /\ \A k \in 1..(B - 1) : b[k] # CloseMark
      /\ Len(t) >= A + G + B /\ \A k \in 1..B : t[A + G + k] = b[k]
  BY LenProperties DEF ObjectAt
<1>2. G = 1 => t[A + 1] = CommaMark
  BY DEF ObjectAt
<1> HIDE DEF B
<1>3. \A k \in 1..B : A + G + k \in 1..Len(t)
  BY <1>1
<1> DEFINE one == A + 1
           first == A + G + 1
           last == A + G + B
<1>4. strchr(t, one, OpenMark) = first
  <2>1. t[first] = OpenMark /\ first \in 1..Len(t)
    <3>1. 1 \in 1..B
      BY <1>1
    <3> QED
      BY <1>1, <1>3, <3>1
  <2>2. one \in Nat /\ first >= one
    BY <1>1
  <2>3. \A k \in 1..Len(t) : k >= one /\ k < first => G = 1 /\ k = A + 1
    BY <1>1
  <2>4. \A k \in 1..Len(t) : k >= one /\ k < first => t[k] # OpenMark
    BY <1>2, <2>3, MarksDiffer
  <2> HIDE DEF one, first
  <2> QED
    BY <2>1, <2>2, <2>4, strchrIs
<1>5. strchr(t, first, CloseMark) = last
  <2>1. t[last] = CloseMark /\ last \in 1..Len(t)
    <3>1. B \in 1..B
      BY <1>1
    <3> QED
      BY <1>1, <1>3, <3>1
  <2>2. first \in Nat /\ last >= first
    BY <1>1
  <2>3. ASSUME NEW k \in 1..Len(t), k >= first, k < last PROVE t[k] # CloseMark
    <3> DEFINE h == k - (A + G)
    <3>1. h \in 1..B /\ h \in 1..(B - 1) /\ A + G + h = k
      BY <1>1, <2>3
    <3> HIDE DEF h
    <3> QED
      BY <1>1, <1>3, <3>1
  <2> HIDE DEF first, last
  <2> QED
    BY <2>1, <2>2, <2>3, strchrIs
<1>6. At(t, A + 1) # End
  <2>1. A + 1 \in 1..Len(t) /\ DOMAIN t = 1..Len(t)
    BY <1>1
  <2>2. CASE G = 1
    BY <1>2, <2>1, <2>2, MarksDiffer DEF At
  <2>3. CASE G = 0
    <3>1. 1 \in 1..B /\ A + G + 1 = A + 1
      BY <1>1, <2>3
    <3>2. t[A + 1] = OpenMark
      BY <1>1, <1>3, <3>1
    <3> QED
      BY <2>1, <3>2, MarksDiffer DEF At
  <2> QED
    BY <1>1, <2>2, <2>3
<1>7. SubSeq(t, A + G + 1, A + G + B) = b
  <2> DEFINE s == SubSeq(t, A + G + 1, A + G + B)
  <2>1. first \in Int /\ last \in Int /\ first <= last /\ (last - first) + 1 = B
        /\ \A k \in first..last : k \in 1..Len(t)
    BY <1>1
  <2>2. \A k \in first..last : t[k] \in Token
    BY <1>1, <2>1, ElementOfSeq
  <2>3. \A k \in 1..B : (first + k) - 1 = A + G + k
    BY <1>1
  <2> HIDE DEF first, last
  <2>4. /\ s \in Seq(Token)
        /\ Len(s) = IF first <= last THEN (last - first) + 1 ELSE 0
        /\ \A k \in 1..((last - first) + 1) : s[k] = t[(first + k) - 1]
    BY <2>1, <2>2, SubSeqProperties DEF first, last
  <2> HIDE DEF s
  <2>5. Len(s) = B /\ \A k \in 1..B : s[k] = b[k]
    <3>1. Len(s) = B /\ \A k \in 1..B : s[k] = t[(first + k) - 1]
      BY <2>1, <2>4
    <3>2. \A k \in 1..B : t[A + G + k] = b[k]
      BY <1>1
    <3> QED
      BY <2>3, <3>1, <3>2, Zenon
  <2>6. s = b
    BY <1>1, <2>4, <2>5, SeqEqual DEF B
  <2> QED
    BY <2>6 DEF s
<1> QED
  BY <1>4, <1>5, <1>6, <1>7 DEF B

\* Where the text of the first k nodes of a document ends.
Place(d, k) == Len(Upto(d.cycle, Leading(d.nodes, k)))

LEMMA OpeningLength ==
    \A c \in Words : Opening(c) \in Seq(Token) /\ Len(Opening(c)) = 12
<1> SUFFICES ASSUME NEW c \in Words, NEW o, o = Opening(c) PROVE o \in Seq(Token) /\ Len(o) = 12
  BY Zenon
<1> QED
  BY OpeningIs

LEMMA DocumentIs ==
    ASSUME NEW d \in PlainDocuments
    PROVE  d.cycle \in Words /\ d.nodes \in Seq(Seq(PlainMembers)) /\ Len(d.nodes) \in Nat
<1>1. d.cycle \in Words /\ d.nodes \in Seq(Seq(PlainMembers))
  BY DEF PlainDocuments
<1> QED
  BY <1>1, LenProperties

LEMMA ClosingIs == Closing \in Seq(Token) /\ Len(Closing) = 2 /\ Closing[1] = "]" /\ Closing[2] # OpenMark
<1>1. "]" \in Token /\ "}" \in Token
  BY Tokens
<1>2. CloseMark \in Token
  BY <1>1, Zenon DEF CloseMark
<1>3. Closing = <<"]", CloseMark>>
  BY Zenon DEF Closing, CloseMark
<1>4. <<"]", CloseMark>> \in Seq(Token)
  BY <1>1, <1>2, ShortText
<1> QED
  BY <1>3, <1>4, MarksDiffer

\* The text of a document is the text up to any of its nodes, and the rest.
LEMMA TextAt ==
    ASSUME NEW d \in PlainDocuments, NEW k \in 0..Len(d.nodes)
    PROVE  /\ Upto(d.cycle, Leading(d.nodes, k)) \in Seq(Token) /\ Text(d) \in Seq(Token)
           /\ \E rest \in Seq(Token) : Text(d) = Upto(d.cycle, Leading(d.nodes, k)) \o rest
<1> DEFINE a == Upto(d.cycle, Leading(d.nodes, k))
           u == Upto(d.cycle, d.nodes)
<1>1. d.cycle \in Words /\ d.nodes \in Seq(Seq(PlainMembers))
  BY DocumentIs
<1>2. Leading(d.nodes, k) \in Seq(Seq(PlainMembers))
  BY <1>1, LeadingIs
<1>3. a \in Seq(Token) /\ u \in Seq(Token)
  BY <1>1, <1>2, UptoType
<1>4. PICK more \in Seq(Token) : u = a \o more
  BY <1>1, TextGoesOn
<1>5. Text(d) = u \o Closing
  BY TextIs
<1> HIDE DEF a, u
<1>6. Closing \in Seq(Token)
  BY ClosingIs
<1>7. u \o Closing = a \o (more \o Closing) /\ more \o Closing \in Seq(Token) /\ u \o Closing \in Seq(Token)
  <2>1. (a \o more) \o Closing = a \o (more \o Closing)
    BY <1>3, <1>4, <1>6, TokensJoined
  <2>2. more \o Closing \in Seq(Token) /\ u \o Closing \in Seq(Token)
    BY <1>3, <1>4, <1>6, ConcatProperties
  <2> QED
    BY <1>4, <2>1, <2>2, Zenon
<1> QED
  BY <1>3, <1>5, <1>7, Zenon DEF a

\* Where the reading begins.
LEMMA StartOf ==
    ASSUME NEW d \in PlainDocuments, NEW default
    PROVE  /\ Quoted(Text(d), "nodes") = 8 /\ strchr(Text(d), 8, "[") = 12
           /\ json_get_int32(Text(d), "cycleMs", default) = strtol(d.cycle)
           /\ Place(d, 0) = 12
<1> DEFINE o == Opening(d.cycle)
           t == Text(d)
<1>1. d.cycle \in Words /\ d.nodes \in Seq(Seq(PlainMembers)) /\ 0 \in 0..Len(d.nodes)
  BY DocumentIs
<1>2. Leading(d.nodes, 0) = << >>
  <2>1. Leading(d.nodes, 0) \in Seq(Seq(PlainMembers)) /\ Len(Leading(d.nodes, 0)) = 0
    BY <1>1, LeadingIs
  <2> QED
    BY <2>1, EmptySeq
<1>3. Upto(d.cycle, Leading(d.nodes, 0)) = o
  BY <1>1, <1>2, UptoNone
<1>4. o \in Seq(Token) /\ Len(o) = 12
  BY <1>1, OpeningLength
<1>5. PICK rest \in Seq(Token) : t = o \o rest
  BY <1>1, <1>3, TextAt
<1>6. t \in Seq(Token)
  BY <1>1, TextAt
<1> HIDE DEF o, t
<1>7. Len(o \o rest) = Len(o) + Len(rest) /\ Len(rest) \in Nat /\ \A k \in 1..Len(o) : (o \o rest)[k] = o[k]
  BY <1>4, <1>5, TokensConcat, Zenon
<1>8. Len(t) >= 12 /\ \A k \in 1..12 : t[k] = o[k]
  <2>1. Len(t) = 12 + Len(rest) /\ Len(rest) \in Nat
    BY <1>4, <1>5, <1>7, Zenon
  <2>2. \A k \in 1..12 : t[k] = o[k]
    BY <1>4, <1>5, <1>7, Zenon
  <2> QED
    BY <2>1, <2>2
<1>9. /\ Quoted(t, "nodes") = 8 /\ strchr(t, 8, "[") = 12
      /\ json_get_int32(t, "cycleMs", default) = strtol(d.cycle)
  BY <1>1, <1>6, <1>8, OpeningRead DEF o
<1>10. Place(d, 0) = 12
  BY <1>3, <1>4 DEF Place
<1> QED
  BY <1>9, <1>10, Zenon DEF t

\* The next node of a document stands where the text of those before it ends.
LEMMA NodeAt ==
    ASSUME NEW d \in PlainDocuments, NEW k \in Nat, k < Len(d.nodes),
           NEW b, b = Braced(d.nodes[k + 1])
    PROVE  \E G : /\ ObjectAt(Text(d), Place(d, k), G, b)
                  /\ Place(d, k + 1) = Place(d, k) + G + Len(b)
<1> DEFINE a == Upto(d.cycle, Leading(d.nodes, k))
           e == Upto(d.cycle, Leading(d.nodes, k + 1))
           g == Sep(k + 1)
           y == g \o b
           t == Text(d)
           ms == d.nodes[k + 1]
<1>1. d.cycle \in Words /\ d.nodes \in Seq(Seq(PlainMembers)) /\ Len(d.nodes) \in Nat
  BY DocumentIs
<1>2. k \in 0..Len(d.nodes) /\ k + 1 \in 0..Len(d.nodes) /\ k + 1 \in Nat
  BY <1>1
<1>3. ms \in Seq(PlainMembers) /\ Leading(d.nodes, k + 1) = Append(Leading(d.nodes, k), ms)
  BY <1>1, LeadingGrows
<1>4. Leading(d.nodes, k) \in Seq(Seq(PlainMembers)) /\ Len(Leading(d.nodes, k)) = k
  BY <1>1, <1>2, LeadingIs
<1>5. e = a \o y
  <2>1. Upto(d.cycle, Append(Leading(d.nodes, k), ms))
          = Upto(d.cycle, Leading(d.nodes, k)) \o (Sep(Len(Leading(d.nodes, k)) + 1) \o Braced(ms))
    BY <1>1, <1>3, <1>4, UptoGrows
  <2> QED
    BY <1>3, <1>4, <2>1
<1>6. a \in Seq(Token) /\ t \in Seq(Token)
  BY <1>2, TextAt
<1>7. PICK rest \in Seq(Token) : t = e \o rest
  BY <1>2, TextAt
<1>8. /\ b \in Seq(Token) /\ Len(b) > 1 /\ b[1] = OpenMark /\ b[Len(b)] = CloseMark
      /\ \A j \in 1..(Len(b) - 1) : b[j] # CloseMark
  <2> HIDE DEF ms
  <2>1. b = Braced(ms)
    BY DEF ms
  <2> QED
    BY <1>3, <2>1, BracedIs, Zenon DEF OpenMark, CloseMark
<1>9. g \in Seq(Token) /\ (Len(g) = 0 \/ (Len(g) = 1 /\ g[1] = CommaMark))
  <2>1. g \in Seq(Token)
    BY <1>2, SepIn
  <2>2. g = << >> \/ g = <<CommaMark>>
    BY Zenon DEF Sep, CommaMark
  <2> HIDE DEF g
  <2>3. CommaMark \in Token
    BY Tokens, Zenon DEF CommaMark
  <2> QED
    BY <2>1, <2>2, <2>3, EmptySeq, OneSign
<1> DEFINE A == Len(a)
           G == Len(g)
           B == Len(b)
<1> HIDE DEF a, e, g, t, ms
<1>10. /\ y \in Seq(Token) /\ Len(y) = G + B /\ G \in Nat /\ B \in Nat
       /\ (\A j \in 1..G : y[j] = g[j]) /\ \A j \in 1..B : y[G + j] = b[j]
  BY <1>8, <1>9, TokensConcat, Zenon
<1> HIDE DEF y
<1>11. /\ e \in Seq(Token) /\ Len(e) = A + Len(y) /\ A \in Nat
       /\ \A j \in 1..Len(y) : e[A + j] = y[j]
  BY <1>5, <1>6, <1>10, TokensConcat, Zenon
<1>12. /\ Len(t) = Len(e) + Len(rest) /\ Len(rest) \in Nat
       /\ \A j \in 1..Len(e) : t[j] = e[j]
  BY <1>7, <1>11, TokensConcat, Zenon
<1> HIDE DEF A, G, B
<1>13. Len(e) = A + G + B /\ Len(t) >= A + G + B
  <2>1. Len(y) = G + B /\ Len(e) = A + Len(y) /\ Len(t) = Len(e) + Len(rest) /\ Len(rest) \in Nat
        /\ A \in Nat /\ G \in Nat /\ B \in Nat
    BY <1>10, <1>11, <1>12
  <2> QED
    BY <2>1
<1>14. ASSUME NEW j \in 1..B PROVE t[A + G + j] = b[j]
  <2>1. G + j \in 1..Len(y) /\ A + (G + j) \in 1..Len(e) /\ A + (G + j) = A + G + j
    BY <1>10, <1>11, <1>13
  <2>2. y[G + j] = b[j]
    BY <1>10
  <2>3. e[A + (G + j)] = y[G + j]
    BY <1>11, <2>1, Zenon
  <2>4. t[A + (G + j)] = e[A + (G + j)]
    BY <1>12, <2>1, Zenon
  <2> QED
    BY <2>1, <2>2, <2>3, <2>4, Zenon
<1>15. ASSUME G = 1 PROVE t[A + 1] = CommaMark
  <2>1. 1 \in 1..G /\ 1 \in 1..Len(y) /\ A + 1 \in 1..Len(e)
    BY <1>10, <1>11, <1>13, <1>15
  <2>2. y[1] = g[1] /\ e[A + 1] = y[1] /\ t[A + 1] = e[A + 1]
    BY <1>10, <1>11, <1>12, <2>1, Zenon
  <2>3. g[1] = CommaMark
    BY <1>9, <1>15 DEF G
  <2> QED
    BY <2>2, <2>3, Zenon
<1>16. ObjectAt(t, A, G, b)
  <2>1. A \in Nat /\ G \in {0, 1}
    BY <1>9, <1>11 DEF G
  <2>2. /\ b \in Seq(Token) /\ Len(b) > 1 /\ b[1] = OpenMark /\ b[Len(b)] = CloseMark
        /\ \A j \in 1..(Len(b) - 1) : b[j] # CloseMark
    BY <1>8
  <2>3. Len(t) >= A + G + Len(b) /\ \A j \in 1..Len(b) : t[A + G + j] = b[j]
    BY <1>13, <1>14, Zenon DEF B
  <2> QED
    BY <1>15, <2>1, <2>2, <2>3, Zenon DEF ObjectAt
<1>17. A = Place(d, k) /\ Len(e) = Place(d, k + 1)
  BY Zenon DEF A, a, e, Place
<1> QED
  BY <1>13, <1>16, <1>17, Zenon DEF B, t

\* Behind the last node no object follows.
LEMMA NoNodeAfter ==
    ASSUME NEW d \in PlainDocuments
    PROVE  strchr(Text(d), Place(d, Len(d.nodes)) + 1, OpenMark) = NULL
<1> DEFINE u == Upto(d.cycle, d.nodes)
           t == Text(d)
           from == Len(u) + 1
<1>1. d.cycle \in Words /\ d.nodes \in Seq(Seq(PlainMembers)) /\ Len(d.nodes) \in 0..Len(d.nodes)
  BY DocumentIs
<1>2. Leading(d.nodes, Len(d.nodes)) = d.nodes
  BY <1>1, LeadingAll
<1>3. u \in Seq(Token) /\ t = u \o Closing /\ Closing \in Seq(Token) /\ t \in Seq(Token)
  BY <1>1, UptoType, TextIs, TextAt, ClosingIs
<1>4. Place(d, Len(d.nodes)) + 1 = from
  BY <1>2 DEF Place
<1> HIDE DEF u, t
<1>5. /\ Len(u) \in Nat /\ Len(t) = Len(u) + 2
      /\ \A k \in 1..2 : t[Len(u) + k] = Closing[k]
  <2>1. /\ Len(u) \in Nat /\ Len(u \o Closing) = Len(u) + Len(Closing)
        /\ \A k \in 1..Len(Closing) : (u \o Closing)[Len(u) + k] = Closing[k]
    BY <1>3, TokensConcat, Zenon
  <2>2. Len(Closing) = 2
    BY ClosingIs
  <2> QED
    BY <1>3, <2>1, <2>2, Zenon
<1>6. t[Len(u) + 1] # OpenMark /\ t[Len(u) + 2] # OpenMark
  <2>1. 1 \in 1..2 /\ 2 \in 1..2
    OBVIOUS
  <2>2. t[Len(u) + 1] = Closing[1] /\ t[Len(u) + 2] = Closing[2]
    BY <1>5, <2>1, Zenon
  <2> QED
    BY <2>2, ClosingIs, MarksDiffer, Zenon
<1>7. \A k \in 1..Len(t) : k >= from => k = Len(u) + 1 \/ k = Len(u) + 2
  BY <1>5
<1>8. from \in Nat
  BY <1>5
<1> HIDE DEF from
<1>9. \A k \in 1..Len(t) : k >= from => t[k] # OpenMark
  BY <1>6, <1>7, Zenon
<1> QED
  BY <1>3, <1>4, <1>8, <1>9, strchrNone, Zenon DEF t

-----------------------------------------------------------------------------
(* How far the reading of a document has got: the nodes in the image are   *)
(* the first of the document, and it goes on behind the last of them.      *)

\* The nodes that the image has a place for.
Taken(d) == IF Len(d.nodes) < GraphMaxNodes THEN Len(d.nodes) ELSE GraphMaxNodes

ReadSoFar(d) ==
    /\ image.nodeCount \in 0..Taken(d)
    /\ p = Place(d, image.nodeCount) + 1
    /\ image.cycleMs = uint32(strtol(d.cycle))
    /\ \A k \in 0..(image.nodeCount - 1) :
          image.nodes[k] = NodeMeaning(d.nodes[k + 1]) /\ ReadableNode(d.nodes[k + 1])

DocInv(d) ==
    text = Text(d) =>
        /\ result = "begin" => image = EmptyGraph
        /\ result = "loop" => ReadSoFar(d)
        /\ BuiltFrom(d, Taken(d)) \/ result \in {"begin", "loop"}

LEMMA TakenIs ==
    ASSUME NEW d \in PlainDocuments
    PROVE  Taken(d) \in Nat /\ Taken(d) <= Len(d.nodes) /\ Taken(d) <= GraphMaxNodes
           /\ (Taken(d) = Len(d.nodes) \/ Taken(d) = GraphMaxNodes)
<1>1. Len(d.nodes) \in Nat /\ GraphMaxNodes \in Nat
  BY DocumentIs, BuilderAssumption
<1> QED
  BY <1>1 DEF Taken

LEMMA DocBegin ==
    ASSUME BuilderTypeOK, NEW d \in PlainDocuments, DocInv(d), Begin
    PROVE  DocInv(d)'
<1> SUFFICES ASSUME text' = Text(d) PROVE DocInv(d)'
  BY DEF DocInv
<1>1. text = Text(d) /\ result = "begin" /\ image = EmptyGraph
  BY DEF Begin, Fail, DocInv
<1>2. Quoted(text, "nodes") = 8 /\ strchr(text, 8, "[") = 12 /\ Place(d, 0) = 12
      /\ json_get_int32(text, "cycleMs", DefaultCycle) = strtol(d.cycle)
  BY <1>1, StartOf
<1>3. /\ result' = "loop" /\ p' = 13
      /\ image' = [image EXCEPT !.cycleMs = uint32(strtol(d.cycle))]
  <2>1. 8 # NULL /\ 12 # NULL /\ 12 + 1 = 13
    BY DEF NULL
  <2> QED
    BY <1>2, <2>1, Zenon DEF Begin
<1>4. image'.nodeCount = 0 /\ image'.cycleMs = uint32(strtol(d.cycle))
  BY <1>1, <1>3 DEF EmptyGraph
<1>5. 0 \in 0..Taken(d)
  BY TakenIs
<1>6. ReadSoFar(d)'
  <2>1. \A k \in 0..(0 - 1) : FALSE
    OBVIOUS
  <2>2. p' = Place(d, 0) + 1
    BY <1>2, <1>3
  <2> QED
    BY <1>4, <1>5, <2>1, <2>2 DEF ReadSoFar
<1> QED
  BY <1>3, <1>6 DEF DocInv

LEMMA DocNextNode ==
    ASSUME BuilderTypeOK, NEW d \in PlainDocuments, DocInv(d), NextNode
    PROVE  DocInv(d)'
<1> SUFFICES ASSUME text' = Text(d) PROVE DocInv(d)'
  BY DEF DocInv
<1> DEFINE n == image.nodeCount
           begin == strchr(text, p, "{")
           found == strchr(text, begin, "}")
           close == IF found = NULL THEN Unclosed(begin) ELSE found
           obj == Object(begin, close)
           ms == d.nodes[n + 1]
           b == Braced(ms)
           f == [k \in 0..n |-> IF k = n THEN parse_node(obj) ELSE image.nodes[k]]
<1>1. text = Text(d) /\ result = "loop" /\ ReadSoFar(d)
  BY DEF NextNode, Fail, DocInv
<1>2. n < GraphMaxNodes /\ begin # NULL
  BY DEF NextNode, Loop
<1>3. n \in 0..Taken(d) /\ p = Place(d, n) + 1
  BY <1>1 DEF ReadSoFar
<1>4. n \in Nat /\ n < Len(d.nodes) /\ n + 1 \in 1..Taken(d)
  <2>1. n # Len(d.nodes)
    <3>1. OpenMark = "{"
      BY Zenon DEF OpenMark
    <3> QED
      BY <1>1, <1>2, <1>3, <3>1, NoNodeAfter, Zenon
  <2> HIDE DEF n
  <2>2. Len(d.nodes) \in Nat /\ GraphMaxNodes \in Nat
    BY DocumentIs, BuilderAssumption
  <2> QED
    <3> DEFINE w == Taken(d)
               m == Len(d.nodes)
    <3>1. /\ w \in Nat /\ w <= m /\ w <= GraphMaxNodes /\ m \in Nat /\ (w = m \/ w = GraphMaxNodes)
          /\ n \in 0..w /\ n < GraphMaxNodes /\ n # m
      BY <1>2, <1>3, <2>1, <2>2, TakenIs
    <3> HIDE DEF w, m
    <3>2. n \in Nat /\ n < m /\ n + 1 \in 1..w
      BY <2>2, <3>1
    <3> QED
      BY <3>2 DEF w, m
<1>5. ms \in Seq(PlainMembers)
  <2>1. d.nodes \in Seq(Seq(PlainMembers)) /\ n + 1 \in 1..Len(d.nodes)
    BY <1>4, DocumentIs
  <2> QED
    BY <2>1, ElementOfSeq
<1>6. PICK G : ObjectAt(text, Place(d, n), G, b) /\ Place(d, n + 1) = Place(d, n) + G + Len(b)
  BY <1>1, <1>4, NodeAt
<1> DEFINE A == Place(d, n)
<1>7. A \in Nat /\ G \in Nat /\ Len(b) \in Nat /\ Len(b) > 1 /\ text \in Seq(Token)
  <2>1. text \in Seq(Token)
    BY <1>1, <1>4, TextAt
  <2>2. A \in Nat /\ G \in {0, 1} /\ b \in Seq(Token) /\ Len(b) > 1
    BY <1>6 DEF ObjectAt
  <2> QED
    BY <2>1, <2>2, LenProperties
<1>8. /\ strchr(text, A + 1, OpenMark) = A + G + 1
      /\ strchr(text, A + G + 1, CloseMark) = A + G + Len(b)
      /\ SubSeq(text, A + G + 1, A + G + Len(b)) = b
  BY <1>6, <1>7, NextObject
<1>9. begin = A + G + 1 /\ found = A + G + Len(b)
  <2>1. begin = A + G + 1
    BY <1>3, <1>8, Zenon DEF OpenMark
  <2> HIDE DEF begin
  <2> QED
    BY <1>8, <2>1, Zenon DEF CloseMark
<1> HIDE DEF begin, A
<1>10. found # NULL
  <2> HIDE DEF found
  <2> QED
    BY <1>7, <1>9 DEF NULL
<1>11. close = A + G + Len(b) /\ close # NULL
  BY <1>9, <1>10
<1>12. obj = b
  BY <1>8, <1>9, <1>11 DEF Object
<1>13. NodeFails(obj) <=> ~(Has(ms, "id") /\ Has(ms, "type"))
  BY <1>5, <1>12, NodeIs
<1>14. ~NodeFails(obj) => parse_node(obj) = NodeMeaning(ms)
  BY <1>5, <1>12, NodeIs
<1>15. CASE Len(obj) > ObjectMax \/ NodeFails(obj)
  <2>1. ~ReadableNode(ms)
    <3>1. CASE NodeFails(obj)
      BY <1>13, <3>1 DEF ReadableNode
    <3>2. CASE Len(obj) > ObjectMax
      <4>1. ObjectMax \in Nat /\ Len(b) > ObjectMax
        BY <1>12, <3>2, BuilderAssumption
      <4>2. ~(Len(b) <= ObjectMax)
        BY <1>7, <4>1
      <4> QED
        BY <4>2, Zenon DEF ReadableNode
    <3> QED
      BY <1>15, <3>1, <3>2
  <2>2. result' \in {"too large", "no node"}
    <3>1. Len(obj) \in Nat /\ ObjectMax \in Nat
      BY <1>7, <1>12, BuilderAssumption
    <3> HIDE DEF obj, close
    <3>2. Len(obj) > ObjectMax \/ Len(obj) <= ObjectMax
      BY <3>1
    <3> QED
      BY <1>11, <1>15, <3>2 DEF NextNode, Fail, obj, close, begin
  <2>3. ~(\A k \in 1..Taken(d) : ReadableNode(d.nodes[k]))
    BY <1>4, <2>1
  <2>4. BuiltFrom(d, Taken(d))'
    BY <2>2, <2>3 DEF BuiltFrom
  <2> QED
    BY <2>2, <2>4 DEF DocInv
<1>16. CASE ~(Len(obj) > ObjectMax \/ NodeFails(obj))
  <2>1. /\ p' = close + 1 /\ result' = "loop"
        /\ image' = [image EXCEPT !.nodeCount = @ + 1,
                        !.nodes = [k \in 0..image.nodeCount |->
                            IF k = image.nodeCount THEN parse_node(obj) ELSE @[k]]]
    BY <1>1, <1>11, <1>16 DEF NextNode, begin
  <2>2. ReadableNode(ms)
    <3>1. Len(b) <= ObjectMax
      <4>1. ~(Len(b) > ObjectMax) /\ ObjectMax \in Nat /\ Len(b) \in Nat
        BY <1>7, <1>12, <1>16, BuilderAssumption
      <4> HIDE DEF b
      <4> QED
        BY <4>1
    <3> QED
      BY <1>13, <1>16, <3>1 DEF ReadableNode
  <2>3. image'.nodeCount = n + 1 /\ image'.cycleMs = image.cycleMs /\ image'.nodes = f
    <3>1. image' = [image EXCEPT !.nodeCount = image.nodeCount + 1, !.nodes = f]
      BY <2>1, Zenon
    <3>2. image = [cycleMs |-> image.cycleMs, nodeCount |-> image.nodeCount, nodes |-> image.nodes]
      BY DEF BuilderTypeOK, IsGraph
    <3> HIDE DEF f
    <3>3. image' = [cycleMs |-> image.cycleMs, nodeCount |-> image.nodeCount + 1, nodes |-> f]
      BY <3>1, <3>2, Replaced, Zenon
    <3> QED
      BY <3>3
  <2>4. p' = Place(d, n + 1) + 1
    BY <1>6, <1>11, <2>1, Zenon DEF A
  <2>5. n + 1 \in 0..Taken(d) /\ (n + 1) - 1 = n
    BY <1>4, TakenIs
  <2>6. ASSUME NEW k \in 0..n
        PROVE  f[k] = NodeMeaning(d.nodes[k + 1]) /\ ReadableNode(d.nodes[k + 1])
    <3>1. CASE k = n
      BY <1>14, <1>16, <2>2, <3>1
    <3>2. CASE k # n
      <4>1. k \in 0..(n - 1)
        BY <1>4, <3>2
      <4>2. f[k] = image.nodes[k]
        BY <3>2
      <4> QED
        BY <1>1, <4>1, <4>2 DEF ReadSoFar
    <3> QED
      BY <3>1, <3>2
  <2>7. ReadSoFar(d)'
    <3>1. image'.cycleMs = uint32(strtol(d.cycle))
      BY <1>1, <2>3 DEF ReadSoFar
    <3> HIDE DEF f, n
    <3> QED
      BY <2>3, <2>4, <2>5, <2>6, <3>1 DEF ReadSoFar
  <2> QED
    BY <2>1, <2>7 DEF DocInv
<1> QED
  BY <1>15, <1>16

LEMMA DocDone ==
    ASSUME BuilderTypeOK, NEW d \in PlainDocuments, DocInv(d), Done
    PROVE  DocInv(d)'
<1> SUFFICES ASSUME text' = Text(d) PROVE DocInv(d)'
  BY DEF DocInv
<1> DEFINE n == image.nodeCount
<1>1. /\ text = Text(d) /\ result = "loop" /\ result' = "ok" /\ image' = image
      /\ ReadSoFar(d)
  BY DEF Done, DocInv
<1>2. n \in 0..Taken(d) /\ p = Place(d, n) + 1
  BY <1>1 DEF ReadSoFar
<1>3. n = Taken(d)
  <2> SUFFICES ASSUME n # Taken(d) PROVE FALSE
    OBVIOUS
  <2>1. n \in Nat /\ n < Len(d.nodes) /\ n < GraphMaxNodes
    <3> HIDE DEF n
    <3>1. Len(d.nodes) \in Nat /\ GraphMaxNodes \in Nat
      BY DocumentIs, BuilderAssumption
    <3> QED
      BY <1>2, <3>1, TakenIs
  <2> DEFINE b == Braced(d.nodes[n + 1])
             A == Place(d, n)
  <2>2. PICK G : ObjectAt(text, A, G, b)
    BY <1>1, <2>1, NodeAt
  <2>3. text \in Seq(Token)
    BY <1>1, <2>1, TextAt
  <2>4. A \in Nat /\ G \in Nat
    BY <2>2 DEF ObjectAt
  <2>5. strchr(text, A + 1, OpenMark) = A + G + 1 /\ At(text, A + 1) # End
    BY <2>2, <2>3, NextObject
  <2>6. A + G + 1 # NULL
    <3> HIDE DEF A
    <3> QED
      BY <2>4 DEF NULL
  <2>7. Loop /\ strchr(text, p, "{") # NULL
    BY <1>2, <2>1, <2>5, <2>6, Zenon DEF Loop, OpenMark
  <2> QED
    BY <2>7 DEF Done
<1>4. \A k \in 0..(Taken(d) - 1) :
          image.nodes[k] = NodeMeaning(d.nodes[k + 1]) /\ ReadableNode(d.nodes[k + 1])
  BY <1>1, <1>3 DEF ReadSoFar
<1>5. \A k \in 1..Taken(d) : ReadableNode(d.nodes[k])
  <2> TAKE k \in 1..Taken(d)
  <2>1. k - 1 \in 0..(Taken(d) - 1) /\ (k - 1) + 1 = k
    BY TakenIs
  <2> QED
    BY <1>4, <2>1
<1>6. image = Meaning(d, Taken(d))
  <2>1. /\ image = [cycleMs |-> image.cycleMs, nodeCount |-> n, nodes |-> image.nodes]
        /\ image.nodes \in [0..(Taken(d) - 1) -> Node]
    BY <1>3 DEF BuilderTypeOK, IsGraph, NodeIndex
  <2>2. image.nodes = [k \in 0..(Taken(d) - 1) |-> NodeMeaning(d.nodes[k + 1])]
    BY <1>4, <2>1
  <2>3. image.cycleMs = strtol(d.cycle) % Width32
    BY <1>1 DEF ReadSoFar, uint32
  <2> QED
    BY <1>3, <2>1, <2>2, <2>3, Zenon DEF Meaning
<1>7. BuiltFrom(d, Taken(d))'
  BY <1>1, <1>5, <1>6 DEF BuiltFrom
<1> QED
  BY <1>1, <1>7 DEF DocInv

DocsInv == BuilderTypeOK /\ \A d \in PlainDocuments : DocInv(d)

LEMMA InitDocs == BuilderInit => DocsInv
<1>1. BuilderInit => result = "begin" /\ image = EmptyGraph
  BY DEF BuilderInit
<1> QED
  BY <1>1, BuilderInitType DEF DocsInv, DocInv

LEMMA DocsStep == DocsInv /\ [BuilderNext]_builderVars => DocsInv'
<1> SUFFICES ASSUME DocsInv, [BuilderNext]_builderVars PROVE DocsInv'
  OBVIOUS
<1>1. BuilderTypeOK'
  BY BuilderStep DEF DocsInv
<1>2. ASSUME NEW d \in PlainDocuments PROVE DocInv(d)'
  <2>1. BuilderTypeOK /\ DocInv(d)
    BY DEF DocsInv
  <2>2. CASE UNCHANGED builderVars
    BY <2>1, <2>2 DEF builderVars, DocInv, ReadSoFar, BuiltFrom
  <2> QED
    BY <2>1, <2>2, DocBegin, DocNextNode, DocDone DEF BuilderNext
<1> QED
  BY <1>1, <1>2 DEF DocsInv

\* BuildsWhatIsWritten for every plain document there is.
BuildsEveryDocument ==
    result \notin {"begin", "loop"} => \A d \in PlainDocuments : Builds(d)

\* Every document of plain members, with nothing behind its nodes and with any number
\* of members in any order: with at most GraphMaxNodes nodes it is built into all the
\* nodes it lists, with more into exactly the first GraphMaxNodes, the rest being
\* dropped without an error; or it is refused because one of these cannot be read
\* (plc_graph_builder_from_json, parse_node).
THEOREM BuildsEveryDocumentAlways == BuilderSpec => []BuildsEveryDocument
<1>1. ASSUME DocsInv PROVE BuildsEveryDocument
  <2> SUFFICES ASSUME result \notin {"begin", "loop"}, NEW d \in PlainDocuments, text = Text(d)
               PROVE  /\ Fits(d) => BuiltFrom(d, Len(d.nodes))
                      /\ ~Fits(d) => BuiltFrom(d, GraphMaxNodes)
    BY DEF BuildsEveryDocument, Builds
  <2>1. BuiltFrom(d, Taken(d))
    BY <1>1 DEF DocsInv, DocInv
  <2>2. Len(d.nodes) \in Nat /\ GraphMaxNodes \in Nat
    BY DocumentIs, BuilderAssumption
  <2>3. /\ Fits(d) => Taken(d) = Len(d.nodes)
        /\ ~Fits(d) => Taken(d) = GraphMaxNodes
    BY <2>2 DEF Fits, Taken
  <2> QED
    BY <2>1, <2>3
<1> QED
  BY <1>1, InitDocs, DocsStep, PTL DEF BuilderSpec

LEMMA Narrowed ==
    ASSUME NEW S, NEW T, NEW s \in Seq(S), \A k \in DOMAIN s : s[k] \in T
    PROVE  s \in Seq(T)
OBVIOUS

LEMMA FewOf ==
    ASSUME NEW S, NEW a \in S, NEW b \in S, NEW c \in S, NEW d \in S, NEW e \in S
    PROVE  /\ <<a>> \in Seq(S) /\ <<a, b>> \in Seq(S) /\ <<a, b, c>> \in Seq(S)
           /\ <<a, b, c, d>> \in Seq(S) /\ <<a, b, c, d, e>> \in Seq(S)
OBVIOUS

LEMMA OneOf ==
    ASSUME NEW S, NEW a \in S
    PROVE  <<a>> \in Seq(S)
OBVIOUS

AnyMember == Words \X Words

LEMMA Pairs == \A u, w \in Words : <<u, w>> \in AnyMember
BY DEF AnyMember

\* The nodes of the documents of the run are sequences of members.
LEMMA OutputsAre ==
    /\ First0 \in Seq(AnyMember)
    /\ Outputs \subseteq Seq(AnyMember)
<1>1. /\ "id" \in Words /\ "type" \in Words /\ "valueType" \in Words /\ "name" \in Words
      /\ "inA" \in Words /\ "inB" \in Words /\ "paramMs" \in Words /\ "flags" \in Words
      /\ "n0" \in Words /\ "n1" \in Words /\ "n9" \in Words /\ "m1" \in Words
      /\ "DO" \in Words /\ "NOT" \in Words /\ "CTU" \in Words /\ "GT" \in Words
      /\ "INT" \in Words /\ "CONST_BOOL" \in Words /\ "valve" \in Words
  BY Zenon DEF Words, ReadKey, TextKey
<1>2. CloseMark \in Words
  BY Zenon DEF Words, CloseMark
<1>3. First0 \in Seq(AnyMember)
  <2>1. /\ <<"id", "n0">> \in AnyMember /\ <<"type", "CONST_BOOL">> \in AnyMember
        /\ <<"inA", "m1">> \in AnyMember /\ <<"inB", "m1">> \in AnyMember
    BY <1>1, Pairs, Zenon
  <2> QED
    BY <2>1, FewOf, Zenon DEF First0
<1>4. ASSUME NEW o \in Outputs PROVE o \in Seq(AnyMember)
  <2>1. CASE \E t \in {"DO", "NOT", "CTU"}, a \in {"n0", "n9"} :
                o = << <<"id", "n1">>, <<"type", t>>, <<"inA", a>> >>
    <3>1. PICK t \in {"DO", "NOT", "CTU"}, a \in {"n0", "n9"} :
                o = << <<"id", "n1">>, <<"type", t>>, <<"inA", a>> >>
      BY <2>1
    <3>2. t \in Words /\ a \in Words
      BY <1>1, <3>1, Zenon
    <3>3. <<"id", "n1">> \in AnyMember /\ <<"type", t>> \in AnyMember /\ <<"inA", a>> \in AnyMember
      BY <1>1, <3>2, Pairs, Zenon
    <3> QED
      BY <3>1, <3>3, FewOf, Zenon
  <2>2. CASE \E w \in {"valve", "inA", "}", "type"} :
                o = << <<"name", w>>, <<"type", "DO">>, <<"id", "n9">> >>
    <3>1. PICK w \in {"valve", "inA", CloseMark, "type"} :
                o = << <<"name", w>>, <<"type", "DO">>, <<"id", "n9">> >>
      BY <2>2, Zenon DEF CloseMark
    <3>2. w \in Words
      BY <1>1, <1>2, <3>1, Zenon
    <3>3. <<"name", w>> \in AnyMember /\ <<"type", "DO">> \in AnyMember /\ <<"id", "n9">> \in AnyMember
      BY <1>1, <3>2, Pairs, Zenon
    <3> QED
      BY <3>1, <3>3, FewOf, Zenon
  <2>3. /\ <<"id", "n1">> \in AnyMember /\ <<"id", "n9">> \in AnyMember /\ <<"type", "DO">> \in AnyMember
        /\ <<"type", "GT">> \in AnyMember /\ <<"paramMs", "m1">> \in AnyMember
        /\ <<"flags", "n9">> \in AnyMember /\ <<"valueType", "INT">> \in AnyMember
        /\ <<"name", "valve">> \in AnyMember /\ <<"inA", "n0">> \in AnyMember
        /\ <<"inB", "m1">> \in AnyMember
    BY <1>1, Pairs, Zenon
  <2>4. CASE o = << <<"id", "n1">>, <<"type", "DO">>, <<"paramMs", "m1">>, <<"flags", "n9">> >>
    BY <2>3, <2>4, FewOf, Zenon
  <2>5. CASE o = << <<"valueType", "INT">>, <<"id", "n9">>, <<"id", "n1">>, <<"type", "GT">> >>
    BY <2>3, <2>5, FewOf, Zenon
  <2>6. CASE o = << <<"name", "valve">>, <<"id", "n1">>, <<"type", "DO">>, <<"inA", "n0">>, <<"inB", "m1">> >>
    BY <2>3, <2>6, FewOf, Zenon
  <2>7. CASE o = << <<"type", "DO">> >>
    BY <2>3, <2>7, OneOf, Zenon
  <2>8. CASE o = << <<"id", "n1">> >>
    BY <2>3, <2>8, OneOf, Zenon
  <2> QED
    <3>1. o \in WiredOutputs \/ o \in NamedOutputs \/ o \in OtherOutputs
      BY DEF Outputs
    <3>2. CASE o \in WiredOutputs
      BY <2>1, <3>2 DEF WiredOutputs
    <3>3. CASE o \in NamedOutputs
      BY <2>2, <3>3, Zenon DEF NamedOutputs
    <3>4. CASE o \in OtherOutputs
      BY <2>4, <2>5, <2>6, <2>7, <2>8, <3>4, Zenon DEF OtherOutputs
    <3> QED
      BY <3>1, <3>2, <3>3, <3>4
<1> QED
  BY <1>3, <1>4

LEMMA PlainOnes ==
    ASSUME NEW d \in Documents, PlainDoc(d)
    PROVE  d \in PlainDocuments
<1> DEFINE M == Seq(AnyMember)
<1>1. PICK c \in {"n1", "m1"}, a \in After,
           ns \in {<< >>} \cup { <<First0, o>> : o \in Outputs } \cup { <<o, First0>> : o \in Outputs }
                  \cup { <<First0, o, First0>> : o \in Outputs } :
           d = [cycle |-> c, nodes |-> ns, after |-> a]
  BY DEF Documents
<1>2. d.cycle = c /\ d.nodes = ns /\ d.after = a
  BY <1>1
<1>3. c \in Words
  BY <1>1, Zenon DEF Words
<1>4. a = << >>
  BY <1>2 DEF PlainDoc
<1>5. ns \in Seq(M)
  <2>1. First0 \in M /\ \A o \in Outputs : o \in M
    BY OutputsAre
  <2> HIDE DEF M
  <2>2. CASE ns = << >>
    BY <2>2, EmptySeq
  <2>3. CASE \E o \in Outputs : ns = <<First0, o>>
    <3>1. PICK o \in Outputs : ns = <<First0, o>>
      BY <2>3
    <3> QED
      BY <2>1, <3>1, FewOf, Zenon
  <2>4. CASE \E o \in Outputs : ns = <<o, First0>>
    <3>1. PICK o \in Outputs : ns = <<o, First0>>
      BY <2>4
    <3> QED
      BY <2>1, <3>1, FewOf, Zenon
  <2>5. CASE \E o \in Outputs : ns = <<First0, o, First0>>
    <3>1. PICK o \in Outputs : ns = <<First0, o, First0>>
      BY <2>5
    <3> QED
      BY <2>1, <3>1, FewOf, Zenon
  <2> QED
    BY <1>1, <2>2, <2>3, <2>4, <2>5, Zenon
<1>6. ASSUME NEW k \in DOMAIN ns PROVE ns[k] \in Seq(PlainMembers)
  <2> DEFINE ms == ns[k]
  <2>1. ms \in M
    <3> HIDE DEF M
    <3>1. DOMAIN ns = 1..Len(ns)
      BY <1>5, LenProperties
    <3> QED
      BY <1>5, <1>6, <3>1, ElementOfSeq
  <2>2. \A j \in DOMAIN ms : PlainMember(ms[j])
    BY <1>2, <1>6 DEF PlainDoc
  <2> HIDE DEF ms
  <2>3. \A j \in DOMAIN ms : ms[j] \in AnyMember
    BY <2>1, LenProperties, ElementOfSeq
  <2>4. \A j \in DOMAIN ms : ms[j] \in PlainMembers
    BY <2>2, <2>3 DEF PlainMembers, AnyMember
  <2>5. ms \in Seq(PlainMembers)
    BY <2>1, <2>4, Narrowed
  <2> QED
    BY <2>5 DEF ms
<1>7. ns \in Seq(Seq(PlainMembers))
  <2> HIDE DEF M
  <2> QED
    BY <1>5, <1>6, Narrowed
<1> QED
  BY <1>1, <1>3, <1>4, <1>7, Zenon DEF PlainDocuments

\* The documents of the run among them: each plain one is built into the nodes it
\* lists, or refused because one of them cannot be read (plc_graph_builder_from_json).
THEOREM BuildsWhatIsWrittenAlways == BuilderSpec => []BuildsWhatIsWritten
<1>1. BuildsEveryDocument => BuildsWhatIsWritten
  BY PlainOnes DEF BuildsEveryDocument, BuildsWhatIsWritten
<1> QED
  BY <1>1, BuildsEveryDocumentAlways, PTL

-----------------------------------------------------------------------------
(* The status page for every buffer, every limit of a piece and every size *)
(* of the cache that PageAssumption allows.                                *)

USE PageAssumption

\* While nodes are written the buffer still has its reserve, and afterwards room
\* for the tail.
RoomLeft ==
    /\ phase \in {"head", "nodes"} => off <= Cap - Reserve
    /\ phase = "head" => off = 0
    /\ phase = "tail" => off + TailMax < Cap
    /\ PageFits

\* The loop has passed exactly the nodes it has shown, and stopped at the end or
\* when the buffer was nearly full.
InOrder ==
    /\ \A n \in valid : n \in shown <=> n < i
    /\ phase \in {"tail", "sent"} => i = CacheSize \/ NearlyFull

PageInv == PageTypeOK /\ RoomLeft /\ InOrder

LEMMA InitPageInv == PageInit => PageInv
  BY DEF PageInit, PageInv, PageTypeOK, RoomLeft, InOrder, PageFits, NearlyFull, Cached

LEMMA HeadKeeps == PageInv /\ PageHead => PageInv'
  BY DEF PageHead, Printed, PageInv, PageTypeOK, RoomLeft, InOrder, PageFits, NearlyFull, Cached

LEMMA SkipKeeps == PageInv /\ SkipNode => PageInv'
  BY DEF SkipNode, InLoop, PageInv, PageTypeOK, RoomLeft, InOrder, PageFits, NearlyFull, Cached

LEMMA WriteNodeKeeps == PageInv /\ WriteNode => PageInv'
<1> SUFFICES ASSUME PageInv, WriteNode PROVE PageInv'
  OBVIOUS
<1>1. PICK n \in 0..NodeMax : off' = off + Comma + n
  BY DEF WriteNode
<1>2. Comma \in 0..1
  BY DEF Comma
<1>3. off' \in Nat /\ off' + TailMax < Cap
  BY <1>1, <1>2 DEF WriteNode, PageInv, PageTypeOK, RoomLeft
<1>4. PageTypeOK'
  BY <1>3 DEF WriteNode, InLoop, PageInv, PageTypeOK, Cached
<1>5. RoomLeft'
  BY <1>3 DEF WriteNode, PageInv, RoomLeft, PageFits, NearlyFull, PageTypeOK
<1>6. InOrder'
  BY DEF WriteNode, PageInv, InOrder, PageTypeOK, NearlyFull, Cached
<1> QED
  BY <1>4, <1>5, <1>6 DEF PageInv

LEMMA EndKeeps == PageInv /\ NodesEnd => PageInv'
  BY DEF NodesEnd, InLoop, PageInv, PageTypeOK, RoomLeft, InOrder, PageFits, NearlyFull, Cached

LEMMA TailKeeps == PageInv /\ PageTail => PageInv'
  BY DEF PageTail, Printed, PageInv, PageTypeOK, RoomLeft, InOrder, PageFits, NearlyFull, Cached

LEMMA PageStep == PageInv /\ [PageNext]_pageVars => PageInv'
<1>1. PageInv /\ UNCHANGED pageVars => PageInv'
  BY DEF pageVars, PageInv, PageTypeOK, RoomLeft, InOrder, PageFits, NearlyFull
<1> QED
  BY <1>1, HeadKeeps, SkipKeeps, WriteNodeKeeps, EndKeeps, TailKeeps DEF PageNext

LEMMA PageInvAlways == PageSpec => []PageInv
  BY InitPageInv, PageStep, PTL DEF PageSpec

\* The loop stays inside the copy of the cache (api_status_handler).
THEOREM PageTypeCorrect == PageSpec => []PageTypeOK
<1>1. PageInv => PageTypeOK
  BY DEF PageInv
<1> QED
  BY <1>1, PageInvAlways, PTL

\* The page fits into its buffer whatever the pieces print, as long as a node and
\* the tail fit into the reserve (the 512 bytes of api_status_handler).
THEOREM PageFitsAlways == PageSpec => []PageFits
<1>1. PageInv => PageFits
  BY DEF PageInv, RoomLeft
<1> QED
  BY <1>1, PageInvAlways, PTL

LEMMA PageLeavesOut == PageInv => LeftOutWhenFull
<1> SUFFICES ASSUME PageInv PROVE LeftOutWhenFull
  OBVIOUS
<1>1. \A n \in shown, v \in valid : v < n => v \in shown
  BY DEF PageInv, InOrder, PageTypeOK, Cached
<1>2. ASSUME i = CacheSize PROVE shown = valid
  <2>1. \A n \in valid : n \in shown
    BY <1>2 DEF PageInv, InOrder, PageTypeOK, Cached
  <2> QED
    BY <2>1, Zenon DEF PageInv, PageTypeOK
<1> QED
  BY <1>1, <1>2 DEF PageInv, InOrder, LeftOutWhenFull

\* Only a full buffer leaves nodes out, and only the last ones.
THEOREM LeftOutWhenFullAlways == PageSpec => []LeftOutWhenFull
  BY PageLeavesOut, PageInvAlways, PTL

-----------------------------------------------------------------------------
(* The stored graph, for any set of texts, whatever write fails and        *)
(* whenever the gateway restarts.                                          *)

\* How far the files are with the text of the save that is under way.
InSave ==
    /\ pc \in {"openSha", "writeSha"} /\ ~short => json = doc
    /\ pc = "upload" /\ ~short => json = doc /\ sha = doc
    /\ pc \in {"build", "upload"} \cup Saving => told = "nothing"

\* Outside the part of a save that changes the files they agree, or torn tells
\* why they do not.
Agreed == pc \notin Saving \ {"openJson"} /\ ~torn => json = sha

\* Only what was built gets into the files and from there to the page.
OnlyBuilt ==
    /\ json \in built \cup {NoFile, Empty}
    /\ pc \in {"upload"} \cup Saving => doc \in built
    /\ pc = "readSha" => doc \in built \cup {NoFile, Empty}
    /\ ServedWasBuilt

StorageInv == StorageTypeOK /\ InSave /\ Agreed /\ OkMeansStored /\ StoredIsStaged /\ OnlyBuilt

USE StorageAssumption
USE DEF Content, Where, Saving, Between

LEMMA InitStorageInv == StorageInit => StorageInv
  BY DEF StorageInit, StorageInv, StorageTypeOK, InSave, Agreed, OkMeansStored, StoredIsStaged,
         OnlyBuilt, ServedWasBuilt

LEMMA StorageTypeKeeps == StorageTypeOK /\ StorageNext => StorageTypeOK'
<1> SUFFICES ASSUME StorageTypeOK, StorageNext PROVE StorageTypeOK'
  OBVIOUS
<1> USE DEF StorageTypeOK, files, controller, ghosts, Reply
<1>1. CASE Upload        BY <1>1 DEF Upload
<1>2. CASE Build         BY <1>2 DEF Build
<1>3. CASE OpenFails     BY <1>3 DEF OpenFails
<1>4. CASE OpenJson      BY <1>4 DEF OpenJson, Opened
<1>5. CASE OpenSha       BY <1>5 DEF OpenSha, Opened
<1>6. CASE WriteFails    BY <1>6 DEF WriteFails
<1>7. CASE WriteJson     BY <1>7 DEF WriteJson
<1>8. CASE WriteSha      BY <1>8 DEF WriteSha
<1>9. CASE UploadOk      BY <1>9 DEF UploadOk, AfterUpload
<1>10. CASE UploadFails  BY <1>10 DEF UploadFails, AfterUpload
<1>11. CASE Activate     BY <1>11 DEF Activate
<1>12. CASE Activated    BY <1>12 DEF Activated
<1>13. CASE GetActive    BY <1>13 DEF GetActive
<1>14. CASE NotFound     BY <1>14 DEF NotFound
<1>15. CASE ReadJson     BY <1>15 DEF ReadJson
<1>16. CASE ReadSha      BY <1>16 DEF ReadSha
<1>17. CASE Restart      BY <1>17 DEF Restart, AfterUpload
<1> QED
  BY <1>1, <1>2, <1>3, <1>4, <1>5, <1>6, <1>7, <1>8, <1>9, <1>10, <1>11, <1>12,
     <1>13, <1>14, <1>15, <1>16, <1>17 DEF StorageNext, UploadStep

\* The steps of a save, with what each leaves in the files.
LEMMA SaveKeeps ==
    ASSUME StorageInv, Build \/ OpenFails \/ OpenJson \/ OpenSha \/ WriteFails \/ WriteJson \/ WriteSha
    PROVE  InSave' /\ Agreed' /\ OkMeansStored' /\ StoredIsStaged' /\ OnlyBuilt'
<1> USE DEF StorageInv, StorageTypeOK, InSave, Agreed, OkMeansStored, StoredIsStaged, OnlyBuilt, ServedWasBuilt,
            files, controller, ghosts, Reply
<1>1. CASE Build       BY <1>1 DEF Build
<1>2. CASE OpenFails   BY <1>2 DEF OpenFails
<1>3. CASE OpenJson    BY <1>3 DEF OpenJson, Opened
<1>4. CASE OpenSha     BY <1>4 DEF OpenSha, Opened
<1>5. CASE WriteFails  BY <1>5 DEF WriteFails
<1>6. CASE WriteJson   BY <1>6 DEF WriteJson
<1>7. CASE WriteSha    BY <1>7 DEF WriteSha
<1> QED
  BY <1>1, <1>2, <1>3, <1>4, <1>5, <1>6, <1>7

\* The steps that leave the files, or lose them both.
LEMMA OthersKeep ==
    ASSUME StorageInv, Upload \/ UploadOk \/ UploadFails \/ Activate \/ Activated \/ GetActive
                \/ NotFound \/ ReadJson \/ ReadSha \/ Restart
    PROVE  InSave' /\ Agreed' /\ OkMeansStored' /\ StoredIsStaged' /\ OnlyBuilt'
<1> USE DEF StorageInv, StorageTypeOK, InSave, Agreed, OkMeansStored, StoredIsStaged, OnlyBuilt, ServedWasBuilt,
            files, controller, ghosts, Reply
<1>1. CASE Upload       BY <1>1 DEF Upload
<1>2. CASE UploadOk
  <2>1. PICK quiet \in BOOLEAN :
            /\ pc = "upload" /\ pc' = "idle" /\ told' = "ok" /\ doc' = NoFile /\ uploaded' = doc
            /\ (quiet => staged' = doc) /\ (apart' <=> short \/ ~quiet)
            /\ UNCHANGED <<json, sha, served, built, short, torn>>
    BY <1>2 DEF UploadOk
  <2>2. ~short => json = doc /\ sha = doc
    BY <2>1
  <2>3. OkMeansStored' /\ StoredIsStaged'
    BY <2>1, <2>2
  <2>4. InSave' /\ Agreed' /\ OnlyBuilt'
    BY <2>1
  <2> QED
    BY <2>3, <2>4
<1>3. CASE UploadFails  BY <1>3 DEF UploadFails, AfterUpload
<1>4. CASE Activate     BY <1>4 DEF Activate
<1>5. CASE Activated    BY <1>5 DEF Activated
<1>6. CASE GetActive    BY <1>6 DEF GetActive
<1>7. CASE NotFound     BY <1>7 DEF NotFound
<1>8. CASE ReadJson     BY <1>8 DEF ReadJson
<1>9. CASE ReadSha      BY <1>9 DEF ReadSha
<1>10. CASE Restart     BY <1>10 DEF Restart, AfterUpload
<1> QED
  BY <1>1, <1>2, <1>3, <1>4, <1>5, <1>6, <1>7, <1>8, <1>9, <1>10

LEMMA StorageStep == StorageInv /\ [StorageNext]_storageVars => StorageInv'
<1>1. StorageInv /\ StorageNext => StorageInv'
  BY StorageTypeKeeps, SaveKeeps, OthersKeep DEF StorageNext, UploadStep, StorageInv
<1>2. StorageInv /\ UNCHANGED storageVars => StorageInv'
  BY DEF storageVars, files, controller, ghosts, StorageInv, StorageTypeOK, InSave, Agreed, OkMeansStored,
         StoredIsStaged, OnlyBuilt, ServedWasBuilt
<1> QED
  BY <1>1, <1>2

LEMMA StorageInvAlways == StorageSpec => []StorageInv
  BY InitStorageInv, StorageStep, PTL DEF StorageSpec

\* The type invariant, and that nothing but what can be built is ever on its way
\* into the files.
THEOREM StorageTypeCorrect == StorageSpec => []StorageTypeOK
<1>1. StorageInv => StorageTypeOK
  BY DEF StorageInv
<1> QED
  BY <1>1, StorageInvAlways, PTL

\* Text and digest disagree only within a save and after one that was left half
\* done, and the next whole save mends it (plc_graph_storage_save).
THEOREM FilesAgreeAlways == StorageSpec => []FilesAgree
<1>1. StorageInv => FilesAgree
  BY DEF StorageInv, Agreed, FilesAgree
<1> QED
  BY <1>1, StorageInvAlways, PTL

\* An upload that was answered ok is in both files, if the disk took it
\* (api_graph_upload_handler).
THEOREM OkMeansStoredAlways == StorageSpec => []OkMeansStored
<1>1. StorageInv => OkMeansStored
  BY DEF StorageInv
<1> QED
  BY <1>1, StorageInvAlways, PTL

\* The stored text is the one the controller has, but for what failed, was left, or
\* was taken for ok on a late answer, until the next whole upload
\* (api_graph_upload_handler).
THEOREM StoredIsStagedAlways == StorageSpec => []StoredIsStaged
<1>1. StorageInv => StoredIsStaged
  BY DEF StorageInv
<1> QED
  BY <1>1, StorageInvAlways, PTL

\* Through any crashes /graph/active serves only texts that were built
\* (api_graph_active_handler).
THEOREM ServedWasBuiltAlways == StorageSpec => []ServedWasBuilt
<1>1. StorageInv => ServedWasBuilt
  BY DEF StorageInv, OnlyBuilt
<1> QED
  BY <1>1, StorageInvAlways, PTL
-----------------------------------------------------------------------------
(* The handlers together: whatever the HTTP task is asked for, it works on *)
(* the data of one of them and leaves that of the others alone.            *)

LEMMA HandlersRun == Spec => BodySpec /\ BuilderSpec /\ PageSpec /\ StorageSpec
<1>1. Init => BodyInit /\ BuilderInit /\ PageInit /\ StorageInit
  BY DEF Init
<1>2. [Next]_handlerVars => /\ [BodyNext]_bodyVars /\ [BuilderNext]_builderVars
                           /\ [PageNext]_pageVars /\ [StorageNext]_storageVars
  BY DEF Next, ReceiveBody, BuildImage, WritePage, KeepGraph, handlerVars
<1> QED
  BY <1>1, <1>2, PTL DEF Spec, BodySpec, BuilderSpec, PageSpec, StorageSpec

\* None of the handlers writes past its buffer, its image or its page, for requests,
\* files and limits of any size.
THEOREM HandlersTypeCorrect == Spec => []HandlersTypeOK
<1>1. BodyTypeOK /\ BuilderTypeOK /\ PageTypeOK /\ StorageTypeOK => HandlersTypeOK
  BY DEF HandlersTypeOK
<1> QED
  BY <1>1, HandlersRun, BodyTypeCorrect, BuilderTypeCorrect, PageTypeCorrect, StorageTypeCorrect, PTL

\* What is proved of a handler alone holds of the task that runs them all.
THEOREM HandlersSafe ==
    Spec => [](/\ ExtractsTheGraph /\ CutNodeRefused /\ BuildsWhatIsWritten
               /\ PageFits /\ LeftOutWhenFull /\ FilesAgree /\ OkMeansStored
               /\ StoredIsStaged)
  BY HandlersRun, ExtractsTheGraphAlways, CutNodeRefusedAlways, BuildsWhatIsWrittenAlways,
     PageFitsAlways, LeftOutWhenFullAlways, FilesAgreeAlways, OkMeansStoredAlways, StoredIsStagedAlways, PTL
=============================================================================
