---------------------------- MODULE MCGraphBuilder ----------------------------
(***************************************************************************)
(* Documents for GraphBuilder, and what they mean.  A document is a        *)
(* sequence of nodes, a node a sequence of members, and what follows the   *)
(* array; a text is a document written out, whole or cut off.              *)
(***************************************************************************)
EXTENDS GraphBuilder, SequencesExt

HwDef    == [t \in NodeType |-> 1]
ValueDef == [m1 |-> -1, n0 |-> 0, n1 |-> 1, n9 |-> 9]

TextKey == {"type", "valueType", "name"}

MemberText(m) ==
    <<Quote, m[1], Quote, ":">> \o
    (IF m[1] \in TextKey THEN <<Quote, m[2], Quote>> ELSE <<m[2]>>)

\* With commas between them.
Listed(pieces) ==
    FlattenSeq([i \in DOMAIN pieces |-> (IF i = 1 THEN << >> ELSE <<",">>) \o pieces[i]])

Braced(members) ==
    <<"{">> \o Listed([i \in DOMAIN members |-> MemberText(members[i])]) \o <<"}">>

Text(d) ==
    <<"{", Quote, "cycleMs", Quote, ":", d.cycle, ",", Quote, "nodes", Quote, ":", "[">> \o
    Listed([i \in DOMAIN d.nodes |-> Braced(d.nodes[i])]) \o
    (<<"]">> \o (IF d.after = << >> THEN << >> ELSE <<",", Quote, "view", Quote, ":">> \o Braced(d.after))
     \o <<"}">>)

First0   == << <<"id", "n0">>, <<"type", "CONST_BOOL">>, <<"inA", "m1">>, <<"inB", "m1">> >>
\* Members in another order, with a name, with an input left out or too large.
WiredOutputs ==
    { << <<"id", "n1">>, <<"type", t>>, <<"inA", a>> >> :
          t \in {"DO", "NOT", "CTU"}, a \in {"n0", "n9"} }
NamedOutputs ==
    { << <<"name", w>>, <<"type", "DO">>, <<"id", "n9">> >> : w \in {"valve", "inA", "}", "type"} }
OtherOutputs ==
    { << <<"id", "n1">>, <<"type", "DO">>, <<"paramMs", "m1">>, <<"flags", "n9">> >>,
      << <<"valueType", "INT">>, <<"id", "n9">>, <<"id", "n1">>, <<"type", "GT">> >>,
      << <<"name", "valve">>, <<"id", "n1">>, <<"type", "DO">>, <<"inA", "n0">>, <<"inB", "m1">> >>,
      << <<"type", "DO">> >>, << <<"id", "n1">> >> }
Outputs == WiredOutputs \cup NamedOutputs \cup OtherOutputs

After == {<< >>, << <<"x", "n0">> >>, << <<"id", "n9">>, <<"type", "DI">> >>}

Documents ==
    { [cycle |-> c, nodes |-> ns, after |-> a] : c \in {"n1", "m1"}, a \in After,
      ns \in {<< >>} \cup { <<First0, o>> : o \in Outputs } \cup { <<o, First0>> : o \in Outputs }
             \cup { <<First0, o, First0>> : o \in Outputs } }

ReadKey == {"id", "type", "valueType", "inA", "inB", "paramInt", "paramMs", "flags"}

\* No string of the document looks like the end of another, of an object, or like a key.
PlainMember(m) ==
    /\ m[1] \notin {Quote, "}"} /\ m[2] \notin {Quote, "}"}
    /\ m[1] \in TextKey => m[2] \notin ReadKey

PlainDoc(d) ==
    /\ \A i \in DOMAIN d.nodes : \A k \in DOMAIN d.nodes[i] : PlainMember(d.nodes[i][k])
    /\ d.after = << >>

\* Cut in the middle of the last node, before the nodes and before the array.
CutTexts ==
    { SubSeq(Text(d), 1, k) : k \in {8, 11, 20, 35, 45},
                              d \in {e \in Documents : Len(Text(e)) > 45 /\ e.after = << >>} }

TextsDef == { Text(d) : d \in Documents } \cup CutTexts

-----------------------------------------------------------------------------

Places(members, key) == {i \in DOMAIN members : members[i][1] = key}

Has(members, key) == Places(members, key) # {}

\* Of members with the same key the first counts.
Written(members, key) == members[First(Places(members, key))][2]

\* What is not written is 0, which as an input is the first node.
Number(members, key) == IF Has(members, key) THEN strtol(Written(members, key)) ELSE 0

Word(members, key, words, default) ==
    IF Has(members, key) /\ Written(members, key) \in DOMAIN words
    THEN words[Written(members, key)] ELSE default

NodeMeaning(ms) ==
    [id |-> Number(ms, "id") % Width16,
     type |-> Word(ms, "type", TypeNames, "CONST_BOOL"),
     valueType |-> Word(ms, "valueType", [BOOL |-> "BOOL", INT |-> "INT", FLOAT |-> "FLOAT"], "BOOL"),
     inA |-> int16(Number(ms, "inA")), inB |-> int16(Number(ms, "inB")),
     paramInt |-> Number(ms, "paramInt"), paramMs |-> Number(ms, "paramMs") % Width32,
     force_flag |-> (Number(ms, "flags") % Width32) % 2 = 1,
     out |-> FALSE, force_en |-> FALSE, force_bool |-> FALSE, force_left_ms |-> 0]

\* The first n nodes of a document, and nothing else.
Meaning(d, n) ==
    [cycleMs |-> strtol(d.cycle) % Width32, nodeCount |-> n,
     nodes |-> [i \in 0..(n - 1) |-> NodeMeaning(d.nodes[i + 1])]]

ReadableNode(ms) == Has(ms, "id") /\ Has(ms, "type") /\ Len(Braced(ms)) <= ObjectMax

BuiltFrom(d, n) ==
    IF \A i \in 1..n : ReadableNode(d.nodes[i])
    THEN result = "ok" /\ image = Meaning(d, n) ELSE result # "ok"

Fits(d) == Len(d.nodes) <= GraphMaxNodes

Builds(d) ==
    text = Text(d) => /\ Fits(d) => BuiltFrom(d, Len(d.nodes))
                      /\ ~Fits(d) => BuiltFrom(d, GraphMaxNodes)

\* A document whose strings look like nothing else, and with no object behind its
\* nodes, is built or refused as follows.  If the image has room for its nodes, all
\* of them are built, each from its own members, whatever their order; a number
\* that is not written is 0, never that of a neighbour, and an unknown type is a
\* constant.  If it has more nodes, exactly the first GraphMaxNodes are built and
\* the rest is dropped without an error, whatever it is.  A node to be built that
\* cannot be read has the document refused (plc_graph_builder_from_json,
\* parse_node).
BuildsWhatIsWritten ==
    result \notin {"begin", "loop"} => \A d \in Documents : PlainDoc(d) => Builds(d)

\* A text that ends inside a node is refused, unless the image was full before: no
\* brace that opens behind the start of the array is left open
\* (plc_graph_builder_from_json).
CutNodeRefused ==
    LET array == strchr(text, Quoted(text, "nodes"), "[")
    IN  result = "ok" /\ image.nodeCount < GraphMaxNodes =>
            \A i \in DOMAIN text : i > array /\ text[i] = "{" =>
                \E j \in DOMAIN text : j > i /\ text[j] = "}"
=============================================================================
