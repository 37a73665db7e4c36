------------------------------ MODULE StatusPage ------------------------------
(***************************************************************************)
(* api_status_handler writes the status of the gateway and the valid nodes *)
(* of its copy of the cache into a buffer of Cap bytes, one snprintf after *)
(* the other, without looking at what fits.  A piece may have any length   *)
(* up to the longest its format can produce; the copy is the page of       *)
(* GatewayNodes.                                                           *)
(***************************************************************************)
EXTENDS Integers

CONSTANTS
    Cap,          \* sizeof(json), 8192
    Reserve,      \* what has to be left for another node, 512
    HeadMax,      \* everything up to the nodes, 1056 at most
    NodeMax,      \* a node, 300 at most
    TailMax,      \* what closes the page, 40
    CacheSize     \* PLC_GATEWAY_MAX_NODES

ASSUME PageAssumption ==
    /\ Cap \in Nat /\ Reserve \in Nat /\ CacheSize \in Nat
    /\ HeadMax \in Nat /\ NodeMax \in Nat /\ TailMax \in Nat
    /\ HeadMax <= Cap - Reserve
    /\ 1 + NodeMax + TailMax < Reserve

Cached == 0..(CacheSize - 1)

VARIABLES
    valid,     \* the valid nodes of the copy
    i, off,    \* the next node, and where it will be written
    shown,     \* the nodes written
    phase

pageVars == <<valid, i, off, shown, phase>>

PageInit ==
    /\ valid \in SUBSET Cached
    /\ i = 0 /\ off = 0 /\ shown = {} /\ phase = "head"

Printed(longest) == \E n \in 0..longest : off' = off + n

PageHead ==
    /\ phase = "head"
    /\ Printed(HeadMax) /\ phase' = "nodes"
    /\ UNCHANGED <<valid, i, shown>>

\* Faulty variant: only what the tail needs is kept free.
TightEnough == off > Cap - TailMax

NearlyFull == off > Cap - Reserve

Comma == IF shown = {} THEN 0 ELSE 1

InLoop == i < CacheSize

SkipNode ==
    /\ phase = "nodes" /\ InLoop /\ i \notin valid
    /\ i' = i + 1
    /\ UNCHANGED <<valid, off, shown, phase>>

WriteNode ==
    /\ phase = "nodes" /\ InLoop /\ i \in valid
    /\ \E n \in 0..NodeMax : off' = off + Comma + n
    /\ shown' = shown \cup {i} /\ i' = i + 1
    /\ phase' = (IF NearlyFull' THEN "tail" ELSE "nodes")
    /\ UNCHANGED valid

\* Faulty variant: the last place of the cache is forgotten.
NodesEndEarly ==
    /\ phase = "nodes" /\ i + 1 >= CacheSize
    /\ phase' = "tail"
    /\ UNCHANGED <<valid, i, off, shown>>

NodesEnd ==
    /\ phase = "nodes" /\ ~InLoop
    /\ phase' = "tail"
    /\ UNCHANGED <<valid, i, off, shown>>

PageTail ==
    /\ phase = "tail"
    /\ Printed(TailMax) /\ phase' = "sent"
    /\ UNCHANGED <<valid, i, shown>>

PageNext == PageHead \/ SkipNode \/ WriteNode \/ NodesEnd \/ PageTail

PageSpec == PageInit /\ [][PageNext]_pageVars

-----------------------------------------------------------------------------

\* The loop stays in the cache and shows only valid nodes.
PageTypeOK ==
    /\ valid \subseteq Cached /\ shown \subseteq valid
    /\ i \in 0..CacheSize /\ off \in Nat
    /\ phase \in {"head", "nodes", "tail", "sent"}

\* No piece is cut off and sizeof(json) - off never wraps: the page with its NUL
\* stays in the buffer, however long the numbers in it are.
PageFits == off < Cap

\* A node is left out only behind those shown, and only when the buffer had no
\* room for another: no valid node is missing from a page that is not full.
LeftOutWhenFull ==
    /\ \A n \in shown, v \in valid : v < n => v \in shown
    /\ phase \in {"tail", "sent"} /\ shown # valid => NearlyFull
=============================================================================
