----------------------------- MODULE MCUploadBody -----------------------------
(***************************************************************************)
(* Bodies for UploadBody: every short text, sent as it is, or as a string  *)
(* member, with the escapes it needs, alone or after another member, and a *)
(* few bodies that are no such thing.                                      *)
(***************************************************************************)
EXTENDS UploadBody, SequencesExt

EscapedDef == [n |-> "newline"]

GraphText == UNION {[1..k -> {"a", QuoteMark, Backslash, "newline"}] : k \in 0..3}

\* As JSON.stringify writes it: what has an escape by it, a quote and a backslash
\* after a backslash, the rest as it is.
WrittenChar(c) ==
    IF \E e \in DOMAIN Escaped : Escaped[e] = c
    THEN <<Backslash, CHOOSE e \in DOMAIN Escaped : Escaped[e] = c>>
    ELSE IF c \in {QuoteMark, Backslash} THEN <<Backslash, c>>
    ELSE <<c>>

WrittenText(s) == FlattenSeq([i \in DOMAIN s |-> WrittenChar(s[i])])

Wrapped(s, before, blanks) ==
    <<"{">> \o before \o <<Key, ":">> \o blanks \o <<QuoteMark>> \o WrittenText(s) \o <<QuoteMark, "}">>

Before == {<< >>, <<"name", ":", "a", ",">>}
Blanks == {<< >>, <<Blank>>}

Broken == { <<Key>>, <<Key, ":">>, <<Key, ":", "a">>, <<Key, ":", Blank, QuoteMark, "a">>,
            <<Key, ":", QuoteMark, "a", Backslash>> }

BodiesDef ==
    GraphText \cup Broken \cup
    { Wrapped(s, b, bl) : s \in GraphText, b \in Before, bl \in Blanks }

-----------------------------------------------------------------------------

\* What a body that holds s as a member is turned into, if into anything.
Extracts(s, before, blanks) ==
    body = Wrapped(s, before, blanks) =>
        IF outcome = "ok" THEN out = s ELSE Len(s) >= OutCap - 1

\* What is built, stored and uploaded is the text the page sent, escapes undone;
\* it is refused only if it, or the body, does not fit (extract_graph_json).
ExtractsTheGraph ==
    outcome \in {"ok", "failed"} =>
        \A s \in GraphText, b \in Before, bl \in Blanks : Extracts(s, b, bl)
=============================================================================
