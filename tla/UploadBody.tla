------------------------------ MODULE UploadBody ------------------------------
(***************************************************************************)
(* The body of an upload request: received in pieces into a static buffer  *)
(* (read_body), and the text of the graph taken out of it into another     *)
(* (extract_graph_json).  The text is the body itself, or a string member  *)
(* "graphJson" of it, written with escapes.                                *)
(*                                                                         *)
(* A body is a sequence of characters; the quoted key is one of them.      *)
(***************************************************************************)
EXTENDS Naturals, Sequences

CONSTANTS
    BodyCap, OutCap,   \* the sizes of the two buffers
    Bodies,            \* the bodies that may be sent
    Escaped            \* what a character means after a backslash, where not itself

Key == "graphJson"      \* with its quotes
QuoteMark == "quote"
Backslash == "backslash"
Blank == "blank"

ASSUME BodyAssumption ==
    /\ BodyCap \in Nat \ {0} /\ OutCap \in Nat \ {0}
    /\ \A b \in Bodies : b \in Seq(STRING)
    /\ Escaped \in [DOMAIN Escaped -> STRING]
    /\ QuoteMark \notin DOMAIN Escaped /\ Backslash \notin DOMAIN Escaped

VARIABLES body, received, pos, out, escape, outcome

bodyVars == <<body, received, pos, out, escape, outcome>>

Running == {"receive", "find", "blanks", "scan"}
BodyOutcome == {"ok", "413", "500", "failed"}

BodyInit ==
    /\ body \in Bodies
    /\ received = 0 /\ pos = 0 /\ out = << >> /\ escape = FALSE /\ outcome = "receive"

Return(r) == outcome' = r /\ UNCHANGED <<body, received, pos, out, escape>>

-----------------------------------------------------------------------------
(* read_body                                                               *)

\* Faulty variant: no room is kept for the NUL.
BeyondCapLate == Len(body) > BodyCap

BeyondCap == Len(body) >= BodyCap

TooLarge == outcome = "receive" /\ received = 0 /\ BeyondCap /\ Return("413")

Receive ==
    /\ outcome = "receive" /\ ~BeyondCap
    /\ \E n \in 1..(Len(body) - received) : received' = received + n
    /\ UNCHANGED <<body, pos, out, escape, outcome>>

\* The connection breaks or is silent for too long.
ReceiveFails == outcome = "receive" /\ ~BeyondCap /\ received < Len(body) /\ Return("500")

Received == outcome = "receive" /\ ~BeyondCap /\ received = Len(body) /\ Return("find")

-----------------------------------------------------------------------------
(* extract_graph_json                                                      *)

Least(S) == CHOOSE i \in S : \A j \in S : i <= j

KeyAt == Least({i \in DOMAIN body : body[i] = Key})
Colons == {i \in DOMAIN body : i > KeyAt /\ body[i] = ":"}

HasKey == Key \in {body[i] : i \in DOMAIN body}

PlainBody ==
    /\ outcome = "find" /\ ~HasKey
    /\ IF Len(body) >= OutCap THEN Return("failed")
       ELSE outcome' = "ok" /\ out' = body /\ UNCHANGED <<body, received, pos, escape>>

FindValue ==
    /\ outcome = "find" /\ HasKey
    /\ IF Colons = {} THEN Return("failed")
       ELSE /\ outcome' = "blanks" /\ pos' = Least(Colons) + 1
            /\ UNCHANGED <<body, received, out, escape>>

SkipBlank ==
    /\ outcome = "blanks" /\ pos \in DOMAIN body /\ body[pos] = Blank
    /\ pos' = pos + 1
    /\ UNCHANGED <<body, received, out, escape, outcome>>

OpenQuote ==
    /\ outcome = "blanks" /\ (pos \in DOMAIN body => body[pos] # Blank)
    /\ IF pos \in DOMAIN body /\ body[pos] = QuoteMark
       THEN outcome' = "scan" /\ pos' = pos + 1 /\ UNCHANGED <<body, received, out, escape>>
       ELSE Return("failed")

InText == outcome = "scan" /\ pos \in DOMAIN body /\ Len(out) < OutCap - 1

Meant(c) == IF c \in DOMAIN Escaped THEN Escaped[c] ELSE c

\* Faulty variant: a quote ends the string even after a backslash.
PlainCharAlways == TRUE

PlainChar == ~escape

AfterBackslash ==
    /\ InText /\ ~PlainChar
    /\ out' = Append(out, Meant(body[pos])) /\ escape' = FALSE /\ pos' = pos + 1
    /\ UNCHANGED <<body, received, outcome>>

StartEscape ==
    /\ InText /\ PlainChar /\ body[pos] = Backslash
    /\ escape' = TRUE /\ pos' = pos + 1
    /\ UNCHANGED <<body, received, out, outcome>>

CloseQuote == InText /\ PlainChar /\ body[pos] = QuoteMark /\ Return("ok")

Copy ==
    /\ InText /\ PlainChar /\ body[pos] \notin {Backslash, QuoteMark}
    /\ out' = Append(out, body[pos]) /\ pos' = pos + 1
    /\ UNCHANGED <<body, received, escape, outcome>>

OutOfText == outcome = "scan" /\ ~InText /\ Return("failed")

ReadBody == TooLarge \/ Receive \/ ReceiveFails \/ Received

Extract ==
    \/ PlainBody \/ FindValue \/ SkipBlank \/ OpenQuote
    \/ AfterBackslash \/ StartEscape \/ CloseQuote \/ Copy \/ OutOfText

BodyNext == ReadBody \/ Extract

BodySpec == BodyInit /\ [][BodyNext]_bodyVars

-----------------------------------------------------------------------------

\* Both buffers keep room for the NUL, whatever is sent.
BodyTypeOK ==
    /\ body \in Bodies
    /\ outcome \in Running \cup BodyOutcome
    /\ received \in 0..Len(body) /\ received < BodyCap
    /\ pos \in 0..(Len(body) + 1)
    /\ out \in Seq(STRING) /\ Len(out) < OutCap
    /\ escape \in BOOLEAN
=============================================================================
