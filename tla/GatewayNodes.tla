----------------------------- MODULE GatewayNodes -----------------------------
(***************************************************************************)
(* The node cache of the gateway (s_state.nodes of plc_gateway_state.c):   *)
(* the poll task stores snapshots of the controller's nodes, the HTTP task *)
(* the node it has just forced or released and, after a safe reset, a      *)
(* snapshot too; the status page copies the cache.  No lock protects it,   *)
(* and the two tasks run on two cores.                                     *)
(*                                                                         *)
(* The controller is external and may change for ever.  The state of its   *)
(* nodes is one of a few versions, which come again, so a cached field     *)
(* tells of which it is, and a node is its first and its last field,       *)
(* written one after the other.  An exchange over the link is one step, as *)
(* the mutex of the link makes it, and fails or brings the answer of that  *)
(* moment; the answers that come late are the business of PlcUartClient.   *)
(***************************************************************************)
EXTENDS Integers

CONSTANTS
    CacheSize,     \* PLC_GATEWAY_MAX_NODES
    ChunkNodes,    \* nodes in one snapshot reply; only chunk 0 is asked for
    MaxNodes,      \* nodes in the largest graph of the controller
    Versions       \* states of its nodes that are told apart

ASSUME NodesAssumption ==
    CacheSize \in Nat \ {0} /\ ChunkNodes \in Nat \ {0}
    /\ MaxNodes \in Nat \ {0} /\ Versions \in Nat \ {0}

Tasks  == {"poll", "http"}
Cached == 0..(CacheSize - 1)

Version == 0..(Versions - 1)
Zero    == -1                   \* a field after memset
Field   == Version \cup {Zero}
Node    == [valid : BOOLEAN, first : Field, last : Field]

NoNodes == [i \in Cached |-> [valid |-> FALSE, first |-> Zero, last |-> Zero]]

Where == {"idle", "command", "reset", "snapshot", "node",      \* an exchange
          "clear", "wipe", "first", "last",                    \* storing its answer
          "copyFirst", "copyLast", "shown"}                    \* the status page

\* Where a task reads or writes the node next[t].
Inside == {"clear", "wipe", "first", "last", "copyFirst", "copyLast"}

VARIABLES
    now, total,   \* the controller: the state of its nodes, the nodes of its graph
    nodes,        \* s_state.nodes
    pc,           \* where each task is
    at,           \* the state that the answer in its hand tells
    next, end,    \* the node it is at, and where it stops
    page,         \* what the status handler has copied
    overlap,      \* ghost: both tasks were writing that node at once
    disturbed     \* ghost: the poll was storing while the page was copied

vars == <<now, total, nodes, pc, at, next, end, page, overlap, disturbed>>
controller == <<now, total>>
ghosts     == <<overlap, disturbed>>

Init ==
    /\ now = 0 /\ total \in 1..MaxNodes
    /\ nodes = NoNodes /\ page = NoNodes
    /\ pc = [t \in Tasks |-> "idle"]
    /\ at = [t \in Tasks |-> 0]
    /\ next = [t \in Tasks |-> 0] /\ end = [t \in Tasks |-> 0]
    /\ overlap = [i \in Cached |-> FALSE] /\ disturbed = FALSE

\* Every access to the cache is within it, whatever index an answer names.
TypeOK ==
    /\ now \in Version /\ total \in 1..MaxNodes
    /\ nodes \in [Cached -> Node]
    /\ pc \in [Tasks -> Where] /\ pc["poll"] \notin {"command", "reset", "node"}
    /\ at \in [Tasks -> Version]
    /\ next \in [Tasks -> Nat] /\ end \in [Tasks -> Nat]
    /\ \A t \in Tasks : pc[t] \in Inside => next[t] \in Cached /\ end[t] <= CacheSize
    /\ page \in [Cached -> Node]
    /\ overlap \in [Cached -> BOOLEAN] /\ disturbed \in BOOLEAN

-----------------------------------------------------------------------------
(* The controller changes by itself: scans, forces that end, a new graph.  *)

Change ==
    /\ now' \in Version
    /\ total' \in 1..MaxNodes
    /\ UNCHANGED <<nodes, pc, at, next, end, page, ghosts>>

Perhaps == now' \in Version

-----------------------------------------------------------------------------
(* Jobs and their exchanges                                                *)

Goto(t, where) == pc' = [pc EXCEPT ![t] = where]

\* The answer and the counters live on the stack of the job.
Finish(t) ==
    /\ Goto(t, "idle")
    /\ at' = [at EXCEPT ![t] = 0]
    /\ next' = [next EXCEPT ![t] = 0]
    /\ end' = [end EXCEPT ![t] = 0]

\* plc_poll_task, once there is a status.
StartPoll ==
    /\ pc["poll"] = "idle"
    /\ Goto("poll", "snapshot")
    /\ UNCHANGED <<controller, nodes, at, next, end, page, ghosts>>

\* The page posts a force or a release of node i, or a safe reset.
StartForce(i) ==
    /\ pc["http"] = "idle"
    /\ Goto("http", "command")
    /\ next' = [next EXCEPT !["http"] = i]
    /\ UNCHANGED <<controller, nodes, at, end, page, ghosts>>

StartReset ==
    /\ pc["http"] = "idle"
    /\ Goto("http", "reset")
    /\ UNCHANGED <<controller, nodes, at, next, end, page, ghosts>>

\* Refused, or never acknowledged, whether or not it was carried out.
CommandFails ==
    /\ pc["http"] \in {"command", "reset"}
    /\ Finish("http")
    /\ Perhaps
    /\ UNCHANGED <<total, nodes, page, ghosts>>

CommandAcknowledged ==
    /\ \/ pc["http"] = "command" /\ next["http"] < total /\ Goto("http", "node")
       \/ pc["http"] = "reset" /\ Goto("http", "snapshot")
    /\ Perhaps
    /\ UNCHANGED <<total, nodes, at, next, end, page, ghosts>>

\* No reply, or one that says something else: nothing is stored.
AskFails(t) ==
    /\ pc[t] \in {"snapshot", "node"}
    /\ Finish(t)
    /\ UNCHANGED <<controller, nodes, page, ghosts>>

SmallerOf(a, b) == IF a < b THEN a ELSE b

\* The nodes of chunk 0 that there is room for.
SnapshotEnd == SmallerOf(total, SmallerOf(ChunkNodes, CacheSize))

AskSnapshot(t) ==
    /\ pc[t] = "snapshot"
    /\ Goto(t, "clear")
    /\ at' = [at EXCEPT ![t] = now]
    /\ next' = [next EXCEPT ![t] = 0]
    /\ end' = [end EXCEPT ![t] = SnapshotEnd]
    /\ disturbed' = (disturbed \/ (t = "poll" /\ pc["http"] \in {"copyFirst", "copyLast", "shown"}))
    /\ UNCHANGED <<controller, nodes, page, overlap>>

HasPlace(i) == i < CacheSize

\* The node just forced, if the cache has a place for it.
AskNode ==
    /\ pc["http"] = "node" /\ next["http"] < total
    /\ IF HasPlace(next["http"])
       THEN /\ Goto("http", "wipe")
            /\ at' = [at EXCEPT !["http"] = now]
            /\ end' = [end EXCEPT !["http"] = next["http"] + 1]
            /\ UNCHANGED next
       ELSE Finish("http")
    /\ UNCHANGED <<controller, nodes, page, ghosts>>

-----------------------------------------------------------------------------
(* Storing an answer                                                       *)

\* Faulty variant: a new snapshot leaves what is beyond its end.
ClearNothing(t) ==
    /\ pc[t] = "clear"
    /\ Goto(t, "wipe")
    /\ UNCHANGED <<controller, nodes, at, next, end, page, ghosts>>

\* One turn of the loop of plc_gateway_state_clear_nodes, which holds no lock.
Clear(t) ==
    /\ pc[t] = "clear"
    /\ nodes' = [nodes EXCEPT ![next[t]].valid = FALSE]
    /\ overlap' = [overlap EXCEPT ![next[t]] = FALSE]
    /\ IF next[t] + 1 < CacheSize
       THEN next' = [next EXCEPT ![t] = @ + 1] /\ UNCHANGED pc
       ELSE next' = [next EXCEPT ![t] = 0] /\ Goto(t, "wipe")
    /\ UNCHANGED <<controller, at, end, page, disturbed>>

InNode(t, i) == pc[t] \in {"first", "last"} /\ next[t] = i

\* Both tasks in one node from its memset on leave a mark on it, until a task
\* writes it alone.
Mark(t, kept) ==
    overlap' = [overlap EXCEPT ![next[t]] =
                    (kept /\ @) \/ \E u \in Tasks \ {t} : InNode(u, next[t])]

\* memset, then valid and what identifies the node.
Wipe(t) ==
    /\ pc[t] = "wipe"
    /\ nodes' = [nodes EXCEPT ![next[t]] = [valid |-> TRUE, first |-> Zero, last |-> Zero]]
    /\ Goto(t, "first")
    /\ Mark(t, FALSE)
    /\ UNCHANGED <<controller, at, next, end, page, disturbed>>

WriteFirst(t) ==
    /\ pc[t] = "first"
    /\ nodes' = [nodes EXCEPT ![next[t]].first = at[t]]
    /\ Goto(t, "last")
    /\ Mark(t, TRUE)
    /\ UNCHANGED <<controller, at, next, end, page, disturbed>>

\* Faulty variant: a field the snapshot has is not taken over.
FieldForgotten(t) == IF t = "poll" THEN Zero ELSE at[t]

FieldWritten(t) == at[t]

WriteLast(t) ==
    /\ pc[t] = "last"
    /\ nodes' = [nodes EXCEPT ![next[t]].last = FieldWritten(t)]
    /\ IF next[t] + 1 < end[t]
       THEN /\ Goto(t, "wipe")
            /\ next' = [next EXCEPT ![t] = @ + 1]
            /\ UNCHANGED <<at, end>>
       ELSE Finish(t)
    /\ Mark(t, TRUE)
    /\ UNCHANGED <<controller, page, disturbed>>

-----------------------------------------------------------------------------
(* The status page: plc_gateway_state_get copies the cache field by field, *)
(* the handler shows the valid nodes of its copy.                          *)

Storing(t) == pc[t] \in {"clear", "wipe", "first", "last"}

StartPage ==
    /\ pc["http"] = "idle"
    /\ Goto("http", "copyFirst")
    /\ next' = [next EXCEPT !["http"] = 0]
    /\ disturbed' = Storing("poll")
    /\ UNCHANGED <<controller, nodes, at, end, page, overlap>>

CopyFirst ==
    /\ pc["http"] = "copyFirst"
    /\ LET i == next["http"]
       IN  page' = [page EXCEPT ![i].valid = nodes[i].valid, ![i].first = nodes[i].first]
    /\ Goto("http", "copyLast")
    /\ UNCHANGED <<controller, nodes, at, next, end, ghosts>>

CopyLast ==
    /\ pc["http"] = "copyLast"
    /\ LET i == next["http"]
       IN  /\ page' = [page EXCEPT ![i].last = nodes[i].last]
           /\ next' = [next EXCEPT !["http"] = i + 1]
           /\ Goto("http", IF i + 1 < CacheSize THEN "copyFirst" ELSE "shown")
    /\ UNCHANGED <<controller, nodes, at, end, ghosts>>

PageSent ==
    /\ pc["http"] = "shown"
    /\ Finish("http")
    /\ page' = NoNodes /\ disturbed' = FALSE
    /\ UNCHANGED <<controller, nodes, overlap>>

-----------------------------------------------------------------------------

Store(t) == Clear(t) \/ Wipe(t) \/ WriteFirst(t) \/ WriteLast(t)

PollStep == AskFails("poll") \/ AskSnapshot("poll") \/ Store("poll")

HttpStep ==
    \/ CommandFails \/ CommandAcknowledged
    \/ AskFails("http") \/ AskSnapshot("http") \/ AskNode \/ Store("http")
    \/ CopyFirst \/ CopyLast \/ PageSent

HttpStart == StartReset \/ StartPage \/ \E i \in 0..(MaxNodes - 1) : StartForce(i)

Next == Change \/ StartPoll \/ PollStep \/ HttpStart \/ HttpStep

Spec == Init /\ [][Next]_vars

\* The poll task loops for ever, and both tasks are scheduled.
FairSpec ==
    Spec /\ WF_vars(StartPoll) /\ WF_vars(PollStep) /\ WF_vars(HttpStep)

-----------------------------------------------------------------------------

Whole(n) == n.first = n.last /\ n.first # Zero

\* A cached node is a state the controller was in: the fields of two answers end
\* up in one node only where both tasks wrote it at once, snapshot and read-back
\* (plc_gateway_state_update_nodes_from_snapshot, ..._update_node_from_node_rsp).
MixedOnlyByTwo ==
    \A i \in Cached :
        nodes[i].valid /\ ~overlap[i] /\ (\A t \in Tasks : ~InNode(t, i)) => Whole(nodes[i])

\* A page shows whole nodes, unless the poll was storing a snapshot while
\* api_status_handler copied the cache, or the cache was mixed already.
PageIsWhole ==
    pc["http"] = "shown" /\ ~disturbed =>
        \A i \in Cached : page[i].valid => Whole(page[i]) \/ overlap[i]

CacheAgrees ==
    \A i \in Cached :
        /\ i < SnapshotEnd => nodes[i] = [valid |-> TRUE, first |-> now, last |-> now]
        /\ nodes[i].valid => i < total

ControllerRests == <>[][UNCHANGED controller]_vars

\* Whatever went wrong in the cache, answers stored too late, nodes of two
\* answers, nodes of a graph that is gone, and however often the controller
\* changed before: if the controller comes to rest and the jobs of the page stop
\* storing, then as long as snapshots arrive the poll makes the cache agree with
\* the controller again and again.  While the controller goes on changing nothing
\* is promised: an answer is of the past when it is stored.
NodesRepaired ==
    ControllerRests /\ <>[]~Storing("http") /\ []<>(pc["poll"] = "clear") => []<>CacheAgrees
=============================================================================
