----------------------------- MODULE GraphBuilder -----------------------------
(***************************************************************************)
(* plc_graph_builder_from_json: the gateway's reading of an uploaded text  *)
(* into the image of a graph that the controller takes over as it is.      *)
(*                                                                         *)
(* The reading searches the text: for a quoted key, then for the next      *)
(* colon, for brackets and braces, wherever they stand.  The text is a     *)
(* sequence of tokens: punctuation, quotes, and between them words and     *)
(* numbers; blanks are no tokens.  The 16 and 32 bit fields are cut to     *)
(* Width16 and Width32 values.  paramFloat is left out.                    *)
(***************************************************************************)
EXTENDS PlcGraph, Sequences

CONSTANTS
    GraphMaxNodes,     \* PLC_GRAPH_MAX_NODES
    ObjectMax,         \* what the copy of one object has room for, in tokens
    Width16, Width32,  \* 2^16 and 2^32
    Value,             \* the numbers among the tokens, with what strtol makes of them
    DefaultCycle,      \* 10 ms
    Texts              \* the texts that may be uploaded

Quote == "quote"
End   == "end"                   \* the terminating NUL
NULL  == 0

ASSUME BuilderAssumption ==
    /\ GraphMaxNodes \in Nat /\ ObjectMax \in Nat /\ DefaultCycle \in Nat
    /\ Width16 \in Nat \ {0} /\ Width32 \in Nat \ {0}
    /\ Value \in [DOMAIN Value -> Int]
    /\ \A t \in Texts : t \in Seq(STRING) /\ End \notin {t[i] : i \in DOMAIN t}

VARIABLES text, p, image, result

builderVars == <<text, p, image, result>>

BuilderOutcome == {"begin", "loop", "ok", "no nodes", "no array", "broken", "too large", "no node"}

-----------------------------------------------------------------------------
(* Searching                                                               *)

First(S) == IF S = {} THEN NULL ELSE CHOOSE i \in S : \A j \in S : i <= j

At(t, i) == IF i \in DOMAIN t THEN t[i] ELSE End

strchr(t, from, c) == First({i \in DOMAIN t : i >= from /\ t[i] = c})

\* strstr with the key in quotes: where a string with just this text begins.
Quoted(t, key) ==
    First({i \in DOMAIN t : t[i] = Quote /\ At(t, i + 1) = key /\ At(t, i + 2) = Quote})

\* Where the value begins, or NULL.
json_find_key(t, key) ==
    LET colon == strchr(t, Quoted(t, key), ":")
    IN  IF Quoted(t, key) = NULL \/ colon = NULL THEN NULL ELSE colon + 1

strtol(token) == IF token \in DOMAIN Value THEN Value[token] ELSE 0

json_get_int32(t, key, default) ==
    IF json_find_key(t, key) = NULL THEN default ELSE strtol(At(t, json_find_key(t, key)))

HasString(t, key) ==
    json_find_key(t, key) # NULL /\ At(t, json_find_key(t, key)) = Quote

json_get_string(t, key) ==
    LET from  == json_find_key(t, key) + 1
        close == strchr(t, from, Quote)
    IN  SubSeq(t, from, (IF close = NULL THEN Len(t) + 1 ELSE close) - 1)

-----------------------------------------------------------------------------
(* One node                                                                *)

TypeNames ==
    [DI |-> "DIGITAL_IN", DIGITAL_IN |-> "DIGITAL_IN",
     DO |-> "DIGITAL_OUT", DIGITAL_OUT |-> "DIGITAL_OUT",
     TON |-> "TON", TOFF |-> "TOFF", AND |-> "AND2", OR |-> "OR2", NOT |-> "NOT",
     GT |-> "COMPARE_GT", LT |-> "COMPARE_LT",
     CONST_BOOL |-> "CONST_BOOL", CONST_INT |-> "CONST_INT", CONST_FLOAT |-> "CONST_FLOAT"]

Named(names, s, default) ==
    IF Len(s) = 1 /\ s[1] \in DOMAIN names THEN names[s[1]] ELSE default

parse_node_type(s) == Named(TypeNames, s, "CONST_BOOL")

parse_value_type(s) == Named([BOOL |-> "BOOL", INT |-> "INT", FLOAT |-> "FLOAT"], s, "BOOL")

uint16(v) == v % Width16
int16(v)  == ((v + Width16 \div 2) % Width16) - Width16 \div 2
uint32(v) == v % Width32

NodeFails(obj) == json_find_key(obj, "id") = NULL \/ ~HasString(obj, "type")

\* What is not written stays 0.  BOOL is 0; the force flag is the lowest bit.
parse_node(obj) ==
    [id |-> uint16(json_get_int32(obj, "id", 0)),
     type |-> parse_node_type(json_get_string(obj, "type")),
     valueType |-> IF HasString(obj, "valueType")
                   THEN parse_value_type(json_get_string(obj, "valueType")) ELSE "BOOL",
     inA |-> int16(json_get_int32(obj, "inA", 0)),
     inB |-> int16(json_get_int32(obj, "inB", 0)),
     paramInt |-> json_get_int32(obj, "paramInt", 0),
     paramMs |-> uint32(json_get_int32(obj, "paramMs", 0)),
     force_flag |-> uint32(json_get_int32(obj, "flags", 0)) % 2 = 1,
     out |-> FALSE, force_en |-> FALSE, force_bool |-> FALSE, force_left_ms |-> 0]

-----------------------------------------------------------------------------
(* plc_graph_builder_from_json                                             *)

BuilderInit ==
    /\ text \in Texts
    /\ p = 0 /\ image = EmptyGraph /\ result = "begin"

Fail(error) == result' = error /\ UNCHANGED <<text, p, image>>

Begin ==
    LET nodes == Quoted(text, "nodes")
        array == strchr(text, nodes, "[")
    IN  /\ result = "begin"
        /\ IF nodes = NULL \/ array = NULL
           THEN Fail(IF nodes = NULL THEN "no nodes" ELSE "no array")
           ELSE /\ result' = "loop"
                /\ p' = array + 1
                /\ image' = [image EXCEPT
                       !.cycleMs = uint32(json_get_int32(text, "cycleMs", DefaultCycle))]
                /\ UNCHANGED text

\* Another object, if the text has one and the image a place for it.
Loop == At(text, p) # End /\ image.nodeCount < GraphMaxNodes

\* Faulty variant: the object is not cut off where it ends.
ObjectUncut(begin, close) == SubSeq(text, begin, Len(text))

Object(begin, close) == SubSeq(text, begin, close)

\* Faulty variant: an object without an end is passed over.
UnclosedSkipped(begin) == Len(text)

Unclosed(begin) == NULL

NextNode ==
    LET begin == strchr(text, p, "{")
        found == strchr(text, begin, "}")
        close == IF found = NULL THEN Unclosed(begin) ELSE found
        obj   == Object(begin, close)
    IN  /\ result = "loop" /\ Loop /\ begin # NULL
        /\ CASE close = NULL -> Fail("broken")
             [] close # NULL /\ Len(obj) > ObjectMax -> Fail("too large")
             [] close # NULL /\ Len(obj) <= ObjectMax /\ NodeFails(obj) -> Fail("no node")
             [] OTHER ->
                 /\ image' = [image EXCEPT !.nodeCount = @ + 1,
                        !.nodes = [i \in 0..image.nodeCount |->
                            IF i = image.nodeCount THEN parse_node(obj) ELSE @[i]]]
                 /\ p' = close + 1
                 /\ UNCHANGED <<text, result>>

Done ==
    /\ result = "loop"
    /\ ~Loop \/ strchr(text, p, "{") = NULL
    /\ result' = "ok"
    /\ UNCHANGED <<text, p, image>>

BuilderNext == Begin \/ NextNode \/ Done

BuilderSpec == BuilderInit /\ [][BuilderNext]_builderVars

-----------------------------------------------------------------------------

\* The field ranges of plc_node_bin_t.
FieldsFit(n) ==
    /\ n \in Node
    /\ n.id < Width16 /\ n.paramMs < Width32
    /\ n.inA \in -Width16..(Width16 - 1) /\ n.inB \in -Width16..(Width16 - 1)

\* Whatever the text, every write of the reading is inside the image.
BuilderTypeOK ==
    /\ text \in Seq(STRING) /\ p \in 0..(Len(text) + 1)
    /\ result \in BuilderOutcome
    /\ image.nodeCount \in 0..GraphMaxNodes
    /\ IsGraph(image)
    /\ \A i \in NodeIndex(image) : FieldsFit(image.nodes[i])
=============================================================================
