------------------------- MODULE GatewayNodes_proofs -------------------------
(***************************************************************************)
(* The node cache without a lock, for caches, replies and graphs of any    *)
(* size and a controller with any number of states.                        *)
(***************************************************************************)
EXTENDS GatewayNodes, TLAPS

\* What an answer may name is cut before it is stored.
Bounds ==
    \A t \in Tasks :
        /\ end[t] <= CacheSize
        /\ pc[t] = "shown" => next[t] = CacheSize

\* A task about to write the last field of a node finds its own first field
\* there, unless it was not alone.
OwnFirst ==
    \A t \in Tasks :
        pc[t] = "last" /\ nodes[next[t]].valid /\ ~overlap[next[t]] =>
            nodes[next[t]].first = at[t]

Copying == pc["http"] \in {"copyFirst", "copyLast", "shown"}

\* While nothing is stored the page is what the cache is, as far as it got.
CopyIsCache ==
    Copying /\ ~disturbed =>
        /\ ~Storing("poll")
        /\ \A i \in Cached : i < next["http"] => page[i] = nodes[i]
        /\ pc["http"] = "copyLast" =>
               /\ page[next["http"]].valid = nodes[next["http"]].valid
               /\ page[next["http"]].first = nodes[next["http"]].first

Inv == TypeOK /\ Bounds /\ OwnFirst /\ MixedOnlyByTwo /\ CopyIsCache

USE NodesAssumption
USE DEF Tasks, Where, Inside, Field, Zero, Version

LEMMA NoNodesType == NoNodes \in [Cached -> Node] /\ \A i \in Cached : ~NoNodes[i].valid
<1>1. [valid |-> FALSE, first |-> Zero, last |-> Zero] \in Node
  BY DEF Node
<1> QED
  BY <1>1 DEF NoNodes

LEMMA InitInv == Init => Inv
<1> SUFFICES ASSUME Init PROVE Inv
  OBVIOUS
<1>1. NoNodes \in [Cached -> Node] /\ \A i \in Cached : ~NoNodes[i].valid
  BY NoNodesType
<1>2. \A t \in Tasks : pc[t] = "idle" /\ at[t] = 0 /\ next[t] = 0 /\ end[t] = 0
  BY DEF Init
<1>3. pc \in [Tasks -> Where] /\ at \in [Tasks -> Version]
      /\ next \in [Tasks -> Nat] /\ end \in [Tasks -> Nat]
  BY DEF Init
<1>4. TypeOK
  BY <1>1, <1>2, <1>3 DEF Init, TypeOK
<1>5. Bounds
  BY <1>2 DEF Bounds
<1>6. OwnFirst /\ MixedOnlyByTwo /\ CopyIsCache
  BY <1>1 DEF Init, OwnFirst, MixedOnlyByTwo, CopyIsCache, Copying
<1> QED
  BY <1>4, <1>5, <1>6 DEF Inv

-----------------------------------------------------------------------------
(* Types and bounds                                                        *)

LEMMA SnapshotEndBound ==
    ASSUME total \in 1..MaxNodes
    PROVE  SnapshotEnd \in Nat /\ SnapshotEnd <= CacheSize
  BY DEF SnapshotEnd, SmallerOf

LEMMA FieldsStored ==
    ASSUME NEW c \in [Cached -> Node], NEW n \in Cached, NEW b \in BOOLEAN, NEW v \in Field
    PROVE  /\ [c EXCEPT ![n].first = v] \in [Cached -> Node]
           /\ [c EXCEPT ![n].last = v] \in [Cached -> Node]
           /\ [c EXCEPT ![n].valid = b, ![n].first = v] \in [Cached -> Node]
           /\ [c EXCEPT ![n].valid = b] \in [Cached -> Node]
<1>1. c[n] \in Node
  OBVIOUS
<1>2. [c[n] EXCEPT !.first = v] \in Node /\ [c[n] EXCEPT !.last = v] \in Node
  BY <1>1 DEF Node
<1>3. [[c[n] EXCEPT !.valid = b] EXCEPT !.first = v] \in Node
  BY <1>1 DEF Node
<1>4. [c[n] EXCEPT !.valid = b] \in Node
  BY <1>1 DEF Node
<1> QED
  BY <1>1, <1>2, <1>3, <1>4

LEMMA TypeKeeps == TypeOK /\ Bounds /\ Next => TypeOK' /\ Bounds'
<1> SUFFICES ASSUME TypeOK, Bounds, Next PROVE TypeOK' /\ Bounds'
  OBVIOUS
<1> USE DEF TypeOK, Bounds, controller, ghosts, Goto, Finish, Perhaps
<1>1. CASE Change
  BY <1>1 DEF Change
<1>2. CASE StartPoll
  BY <1>2 DEF StartPoll
<1>3. ASSUME NEW i \in 0..(MaxNodes - 1), StartForce(i) PROVE TypeOK' /\ Bounds'
  BY <1>3 DEF StartForce
<1>4. CASE StartReset
  BY <1>4 DEF StartReset
<1>5. CASE CommandFails
  BY <1>5 DEF CommandFails
<1>6. CASE CommandAcknowledged
  BY <1>6 DEF CommandAcknowledged
<1>7. ASSUME NEW t \in Tasks, AskFails(t) PROVE TypeOK' /\ Bounds'
  BY <1>7 DEF AskFails
<1>8. ASSUME NEW t \in Tasks, AskSnapshot(t) PROVE TypeOK' /\ Bounds'
  BY <1>8, SnapshotEndBound DEF AskSnapshot, Cached
<1>9. CASE AskNode
  <2>1. next["http"] \in Nat
    OBVIOUS
  <2>2. CASE HasPlace(next["http"])
    BY <1>9, <2>1, <2>2 DEF AskNode, HasPlace, Cached
  <2>3. CASE ~HasPlace(next["http"])
    BY <1>9, <2>3 DEF AskNode
  <2> QED
    BY <2>2, <2>3
<1>10. ASSUME NEW t \in Tasks, Clear(t) PROVE TypeOK' /\ Bounds'
  <2>1. 0 \in Cached /\ Zero \in Field /\ next[t] \in Cached
    BY <1>10 DEF Clear, Cached
  <2>2. nodes' \in [Cached -> Node]
    BY <1>10, <2>1, FieldsStored DEF Clear
  <2>3. overlap' \in [Cached -> BOOLEAN]
    BY <1>10, <2>1 DEF Clear
  <2>4. CASE next[t] + 1 < CacheSize
    <3>1. next[t] + 1 \in Cached
      BY <2>1, <2>4 DEF Cached
    <3>2. /\ next' = [next EXCEPT ![t] = next[t] + 1]
          /\ UNCHANGED <<controller, pc, at, end, page, disturbed>>
      BY <1>10, <2>4 DEF Clear
    <3>3. pc[t] = "clear"
      BY <1>10 DEF Clear
    <3>4. next' \in [Tasks -> Nat]
      BY <2>1, <3>2 DEF Cached
    <3>5. \A u \in Tasks : u # t => next'[u] = next[u]
      BY <3>2
    <3>6. next'[t] \in Cached
      BY <3>1, <3>2
    <3>7. \A u \in Tasks : pc'[u] \in Inside => next'[u] \in Cached /\ end'[u] <= CacheSize
      BY <3>2, <3>3, <3>5, <3>6
    <3>8. TypeOK'
      BY <2>2, <2>3, <3>2, <3>4, <3>7
    <3>9. Bounds'
      BY <3>2, <3>3, <3>5
    <3> QED
      BY <3>8, <3>9
  <2>5. CASE ~(next[t] + 1 < CacheSize)
    BY <1>10, <2>1, <2>2, <2>3, <2>5 DEF Clear
  <2> QED
    BY <2>4, <2>5
<1>11. ASSUME NEW t \in Tasks, Wipe(t) PROVE TypeOK' /\ Bounds'
  BY <1>11 DEF Wipe, Mark, Node
<1>12. ASSUME NEW t \in Tasks, WriteFirst(t) PROVE TypeOK' /\ Bounds'
  <2>1. next[t] \in Cached /\ at[t] \in Field
    BY <1>12 DEF WriteFirst
  <2>2. nodes' \in [Cached -> Node]
    BY <1>12, <2>1, FieldsStored DEF WriteFirst
  <2>3. overlap' \in [Cached -> BOOLEAN]
    BY <1>12, <2>1 DEF WriteFirst, Mark
  <2> QED
    BY <1>12, <2>2, <2>3 DEF WriteFirst
<1>13. ASSUME NEW t \in Tasks, WriteLast(t) PROVE TypeOK' /\ Bounds'
  <2>1. next[t] \in Cached /\ at[t] \in Field /\ end[t] <= CacheSize
    BY <1>13 DEF WriteLast
  <2>2. nodes' \in [Cached -> Node]
    BY <1>13, <2>1, FieldsStored DEF WriteLast, FieldWritten
  <2>3. overlap' \in [Cached -> BOOLEAN]
    BY <1>13, <2>1 DEF WriteLast, Mark
  <2>4. CASE next[t] + 1 < end[t]
    <3>1. next[t] + 1 \in Cached /\ next[t] + 1 \in Nat
      BY <2>1, <2>4 DEF Cached
    <3> QED
      BY <1>13, <2>1, <2>2, <2>3, <2>4, <3>1 DEF WriteLast
  <2>5. CASE ~(next[t] + 1 < end[t])
    BY <1>13, <2>2, <2>3, <2>5 DEF WriteLast
  <2> QED
    BY <2>4, <2>5
<1>14. CASE StartPage
  <2>1. 0 \in Cached
    BY DEF Cached
  <2>2. disturbed' \in BOOLEAN
    BY <1>14 DEF StartPage, Storing
  <2> QED
    BY <1>14, <2>1, <2>2 DEF StartPage
<1>15. CASE CopyFirst
  <2>1. next["http"] \in Cached
    BY <1>15 DEF CopyFirst
  <2>2. nodes[next["http"]].valid \in BOOLEAN /\ nodes[next["http"]].first \in Field
    BY <2>1 DEF Node
  <2>3. page' = [page EXCEPT ![next["http"]].valid = nodes[next["http"]].valid,
                             ![next["http"]].first = nodes[next["http"]].first]
    BY <1>15 DEF CopyFirst
  <2>4. page' \in [Cached -> Node]
    <3> DEFINE b == nodes[next["http"]].valid
               v == nodes[next["http"]].first
               n == next["http"]
    <3>1. page \in [Cached -> Node] /\ n \in Cached /\ b \in BOOLEAN /\ v \in Field
          /\ page' = [page EXCEPT ![n].valid = b, ![n].first = v]
      BY <2>1, <2>2, <2>3
    <3> HIDE DEF b, v, n
    <3> QED
      BY <3>1, FieldsStored
  <2> QED
    BY <1>15, <2>4 DEF CopyFirst
<1>16. CASE CopyLast
  <2>1. next["http"] \in Cached
    BY <1>16 DEF CopyLast
  <2>2. nodes[next["http"]].last \in Field
    BY <2>1 DEF Node
  <2>3. page' \in [Cached -> Node]
    BY <1>16, <2>1, <2>2, FieldsStored DEF CopyLast
  <2> QED
    BY <1>16, <2>1, <2>3 DEF CopyLast, Cached
<1>17. CASE PageSent
  <2>1. pc' = [pc EXCEPT !["http"] = "idle"] /\ at' = [at EXCEPT !["http"] = 0]
        /\ next' = [next EXCEPT !["http"] = 0] /\ end' = [end EXCEPT !["http"] = 0]
    BY <1>17 DEF PageSent
  <2>2. page' \in [Cached -> Node]
    BY <1>17, NoNodesType DEF PageSent
  <2>3. pc'["http"] = "idle" /\ pc'["poll"] = pc["poll"] /\ end'["http"] = 0
        /\ end'["poll"] = end["poll"] /\ next'["poll"] = next["poll"]
    BY <2>1
  <2>4. TypeOK'
    <3>1. pc' \in [Tasks -> Where] /\ at' \in [Tasks -> Version]
          /\ next' \in [Tasks -> Nat] /\ end' \in [Tasks -> Nat]
      BY <2>1
    <3>2. UNCHANGED <<now, total, nodes, overlap>> /\ disturbed' = FALSE
      BY <1>17 DEF PageSent
    <3> QED
      BY <2>1, <2>2, <2>3, <3>1, <3>2
  <2>5. Bounds'
    BY <2>3
  <2> QED
    BY <2>4, <2>5
<1> QED
  BY <1>1, <1>2, <1>3, <1>4, <1>5, <1>6, <1>7, <1>8, <1>9, <1>10, <1>11, <1>12, <1>13,
     <1>14, <1>15, <1>16, <1>17
  DEF Next, PollStep, HttpStep, HttpStart, Store
-----------------------------------------------------------------------------
(* Who is in a node                                                        *)

\* A step that stores nothing keeps what was stored.
LEMMA NothingStored ==
    ASSUME OwnFirst, MixedOnlyByTwo, UNCHANGED <<nodes, overlap>>,
           \A t \in Tasks :
               /\ pc[t] \in {"first", "last"} \/ pc'[t] \in {"first", "last"} =>
                      pc'[t] = pc[t] /\ next'[t] = next[t] /\ at'[t] = at[t]
    PROVE  OwnFirst' /\ MixedOnlyByTwo'
<1>1. \A t \in Tasks, i \in Cached : InNode(t, i)' <=> InNode(t, i)
  BY DEF InNode
<1>2. OwnFirst'
  BY DEF OwnFirst
<1>3. MixedOnlyByTwo'
  BY <1>1 DEF MixedOnlyByTwo, Whole
<1> QED
  BY <1>2, <1>3

LEMMA OthersStoreNothing ==
    ASSUME TypeOK, OwnFirst, MixedOnlyByTwo,
           Change \/ StartPoll \/ StartReset \/ (\E i \in 0..(MaxNodes - 1) : StartForce(i))
           \/ CommandFails \/ CommandAcknowledged \/ (\E t \in Tasks : AskFails(t))
           \/ (\E t \in Tasks : AskSnapshot(t)) \/ AskNode
           \/ StartPage \/ CopyFirst \/ CopyLast \/ PageSent
    PROVE  OwnFirst' /\ MixedOnlyByTwo'
<1> USE DEF TypeOK, controller, ghosts, Goto, Finish
<1>1. UNCHANGED <<nodes, overlap>>
  BY DEF Change, StartPoll, StartReset, StartForce, CommandFails, CommandAcknowledged,
         AskFails, AskSnapshot, AskNode, StartPage, CopyFirst, CopyLast, PageSent
<1> DEFINE Stays == \A t \in Tasks :
               /\ pc[t] \in {"first", "last"} \/ pc'[t] \in {"first", "last"} =>
                      pc'[t] = pc[t] /\ next'[t] = next[t] /\ at'[t] = at[t]
<1>2. Stays
  <2>1. CASE Change                     BY <2>1 DEF Change
  <2>2. CASE StartPoll                  BY <2>2 DEF StartPoll
  <2>3. CASE StartReset                 BY <2>3 DEF StartReset
  <2>4. ASSUME NEW i \in 0..(MaxNodes - 1), StartForce(i) PROVE Stays
    BY <2>4 DEF StartForce
  <2>5. CASE CommandFails               BY <2>5 DEF CommandFails
  <2>6. CASE CommandAcknowledged        BY <2>6 DEF CommandAcknowledged
  <2>7. ASSUME NEW t \in Tasks, AskFails(t) PROVE Stays
    BY <2>7 DEF AskFails
  <2>8. ASSUME NEW t \in Tasks, AskSnapshot(t) PROVE Stays
    BY <2>8 DEF AskSnapshot
  <2>9. CASE AskNode                    BY <2>9 DEF AskNode
  <2>10. CASE StartPage                 BY <2>10 DEF StartPage
  <2>11. CASE CopyFirst                 BY <2>11 DEF CopyFirst
  <2>12. CASE CopyLast                  BY <2>12 DEF CopyLast
  <2>13. CASE PageSent                  BY <2>13 DEF PageSent
  <2> QED
    BY <2>1, <2>2, <2>3, <2>4, <2>5, <2>6, <2>7, <2>8, <2>9, <2>10, <2>11, <2>12, <2>13
<1> QED
  BY <1>1, <1>2, NothingStored

LEMMA StoreKeeps ==
    ASSUME TypeOK, OwnFirst, MixedOnlyByTwo, NEW t \in Tasks, Store(t)
    PROVE  OwnFirst' /\ MixedOnlyByTwo'
<1> USE DEF controller, ghosts, Goto, Finish
<1> DEFINE n == next[t]
<1>1. CASE Clear(t)
  <2>1. n \in Cached
    BY <1>1 DEF Clear, TypeOK
  <2>2. ~nodes'[n].valid /\ \A i \in Cached \ {n} : nodes'[i] = nodes[i] /\ overlap'[i] = overlap[i]
    <3>1. nodes' = [nodes EXCEPT ![n].valid = FALSE] /\ overlap' = [overlap EXCEPT ![n] = FALSE]
      BY <1>1 DEF Clear
    <3>2. nodes[n] \in Node /\ nodes \in [Cached -> Node] /\ overlap \in [Cached -> BOOLEAN]
      BY <2>1 DEF TypeOK
    <3>3. ~nodes'[n].valid
      BY <2>1, <3>1, <3>2 DEF Node
    <3> HIDE DEF n
    <3> QED
      BY <2>1, <3>1, <3>2, <3>3
  <2>3. /\ pc'[t] \in {"clear", "wipe"} /\ at' = at
        /\ \A u \in Tasks \ {t} : pc'[u] = pc[u] /\ next'[u] = next[u]
    BY <1>1 DEF Clear, TypeOK
  <2>4. OwnFirst'
    <3> SUFFICES ASSUME NEW u \in Tasks, pc'[u] = "last", nodes'[next'[u]].valid, ~overlap'[next'[u]]
                 PROVE  nodes'[next'[u]].first = at'[u]
      BY DEF OwnFirst
    <3>1. u # t /\ pc[u] = "last" /\ next'[u] = next[u] /\ next[u] \in Cached
      BY <2>3 DEF TypeOK
    <3>2. next[u] # n
      BY <2>2, <3>1
    <3> QED
      BY <2>2, <2>3, <3>1, <3>2 DEF OwnFirst
  <2>5. \A u \in Tasks, i \in Cached : InNode(u, i) => InNode(u, i)'
    BY <1>1, <2>3 DEF Clear, InNode
  <2>6. MixedOnlyByTwo'
    BY <2>2, <2>5 DEF MixedOnlyByTwo, Whole
  <2> QED
    BY <2>4, <2>6
<1>2. CASE Wipe(t)
  <2>1. n \in Cached
    BY <1>2 DEF Wipe, TypeOK
  <2> QED
    BY <1>2, <2>1 DEF Wipe, Mark, InNode, OwnFirst, MixedOnlyByTwo, Whole, TypeOK
<1>3. CASE WriteFirst(t)
  <2>1. n \in Cached
    BY <1>3 DEF WriteFirst, TypeOK
  <2>2. nodes'[n].first = at[t] /\ (nodes'[n].valid <=> nodes[n].valid)
        /\ \A i \in Cached \ {n} : nodes'[i] = nodes[i] /\ (overlap'[i] <=> overlap[i])
    BY <1>3, <2>1 DEF WriteFirst, Mark, TypeOK, Node
  <2>3. pc' = [pc EXCEPT ![t] = "last"] /\ UNCHANGED <<at, next>>
    BY <1>3 DEF WriteFirst
  <2>4. ~overlap'[n] => ~overlap[n] /\ \A u \in Tasks \ {t} : ~InNode(u, n)
    BY <1>3, <2>1 DEF WriteFirst, Mark, TypeOK
  <2>5. OwnFirst'
    BY <2>1, <2>2, <2>3, <2>4 DEF OwnFirst, InNode, TypeOK
  <2>6. \A u \in Tasks, i \in Cached : InNode(u, i)' <=> InNode(u, i)
    BY <1>3, <2>3 DEF WriteFirst, InNode, TypeOK
  <2>7. InNode(t, n)
    BY <1>3 DEF WriteFirst, InNode
  <2>8. MixedOnlyByTwo'
    BY <2>1, <2>2, <2>6, <2>7 DEF MixedOnlyByTwo, Whole
  <2> QED
    BY <2>5, <2>8
<1>4. CASE WriteLast(t)
  <2>1. n \in Cached
    BY <1>4 DEF WriteLast, TypeOK
  <2> QED
    BY <1>4, <2>1 DEF WriteLast, FieldWritten, Mark, InNode, OwnFirst, MixedOnlyByTwo, Whole, TypeOK
<1> QED
  BY <1>1, <1>2, <1>3, <1>4 DEF Store
-----------------------------------------------------------------------------
(* The page                                                                *)

\* What the poll and the controller do while a page is copied.
LEMMA BesideTheCopy ==
    ASSUME TypeOK, CopyIsCache, Change \/ StartPoll \/ PollStep
    PROVE  CopyIsCache'
<1> USE DEF controller, ghosts, Goto, Finish, Copying, Storing
<1>1. CASE Change
  BY <1>1 DEF Change, CopyIsCache
<1>2. CASE StartPoll
  BY <1>2 DEF StartPoll, CopyIsCache, TypeOK
<1>3. CASE AskFails("poll")
  BY <1>3 DEF AskFails, CopyIsCache, TypeOK
<1>4. CASE AskSnapshot("poll")
  BY <1>4 DEF AskSnapshot, CopyIsCache, TypeOK
<1>5. CASE Store("poll")
  <2>1. Storing("poll") /\ disturbed' = disturbed /\ pc'["http"] = pc["http"]
    BY <1>5 DEF Store, Clear, Wipe, WriteFirst, WriteLast, TypeOK
  <2> QED
    BY <2>1 DEF CopyIsCache
<1> QED
  BY <1>1, <1>2, <1>3, <1>4, <1>5 DEF PollStep

\* What the page's own task does besides copying.
LEMMA BeforeTheCopy ==
    ASSUME TypeOK,
           StartReset \/ (\E i \in 0..(MaxNodes - 1) : StartForce(i)) \/ CommandFails
           \/ CommandAcknowledged \/ AskFails("http") \/ AskSnapshot("http") \/ AskNode
           \/ Store("http") \/ PageSent
    PROVE  CopyIsCache'
<1>1. pc'["http"] \notin {"copyFirst", "copyLast", "shown"}
  BY DEF TypeOK, Goto, Finish, StartReset, StartForce, CommandFails, CommandAcknowledged, AskFails,
         AskSnapshot, AskNode, Store, Clear, Wipe, WriteFirst, WriteLast, PageSent
<1> QED
  BY <1>1 DEF CopyIsCache, Copying

LEMMA CopyKeeps ==
    ASSUME TypeOK, CopyIsCache, StartPage \/ CopyFirst \/ CopyLast
    PROVE  CopyIsCache'
<1> USE DEF controller, ghosts, Goto, Storing, Copying
<1> DEFINE n == next["http"]
<1>1. CASE StartPage
  <2>1. next'["http"] = 0 /\ pc'["http"] = "copyFirst" /\ pc'["poll"] = pc["poll"]
        /\ (disturbed' <=> Storing("poll"))
    BY <1>1 DEF StartPage, TypeOK
  <2> QED
    BY <2>1 DEF CopyIsCache, Cached
<1>2. CASE CopyFirst
  <2>1. n \in Cached /\ page'[n].valid = nodes[n].valid /\ page'[n].first = nodes[n].first
        /\ \A i \in Cached \ {n} : page'[i] = page[i]
    BY <1>2 DEF CopyFirst, TypeOK, Node
  <2>2. UNCHANGED <<nodes, next, disturbed>> /\ pc' = [pc EXCEPT !["http"] = "copyLast"]
    BY <1>2 DEF CopyFirst
  <2> QED
    BY <1>2, <2>1, <2>2 DEF CopyFirst, CopyIsCache, TypeOK, Cached
<1>3. CASE CopyLast
  <2>1. n \in Cached /\ page'[n] = [page[n] EXCEPT !.last = nodes[n].last]
        /\ \A i \in Cached \ {n} : page'[i] = page[i]
    BY <1>3 DEF CopyLast, TypeOK
  <2>2. next'["http"] = n + 1 /\ pc'["http"] \in {"copyFirst", "shown"}
        /\ pc'["poll"] = pc["poll"] /\ UNCHANGED <<nodes, disturbed>>
    BY <1>3 DEF CopyLast, TypeOK
  <2>3. CASE disturbed
    BY <2>2, <2>3 DEF CopyIsCache
  <2>4. CASE ~disturbed
    <3>1. ~Storing("poll") /\ (\A i \in Cached : i < n => page[i] = nodes[i])
          /\ page[n].valid = nodes[n].valid /\ page[n].first = nodes[n].first
      BY <1>3, <2>4 DEF CopyLast, CopyIsCache
    <3>2. page'[n] = nodes[n]
      <4>1. page[n] \in Node /\ nodes[n] \in Node
        BY <2>1 DEF TypeOK
      <4> QED
        BY <2>1, <3>1, <4>1 DEF Node
    <3>3. \A i \in Cached : i < n + 1 => page'[i] = nodes[i]
      BY <2>1, <3>1, <3>2 DEF Cached
    <3> QED
      BY <2>2, <3>1, <3>3 DEF CopyIsCache
  <2> QED
    BY <2>3, <2>4
<1> QED
  BY <1>1, <1>2, <1>3

-----------------------------------------------------------------------------

LEMMA InvAlways == Spec => []Inv
<1>1. Inv /\ Next => Inv'
  <2> SUFFICES ASSUME Inv, Next PROVE Inv'
    OBVIOUS
  <2>1. TypeOK' /\ Bounds'
    BY TypeKeeps DEF Inv
  <2>2. OwnFirst' /\ MixedOnlyByTwo'
    BY OthersStoreNothing, StoreKeeps DEF Inv, Next, PollStep, HttpStep, HttpStart
  <2>3. CopyIsCache'
    BY BesideTheCopy, BeforeTheCopy, CopyKeeps DEF Inv, Next, HttpStep, HttpStart
  <2> QED
    BY <2>1, <2>2, <2>3 DEF Inv
<1>2. Inv /\ UNCHANGED vars => Inv'
  BY DEF vars, Inv, TypeOK, Bounds, OwnFirst, MixedOnlyByTwo, CopyIsCache, Copying, Storing,
         InNode, Whole
<1> QED
  BY InitInv, <1>1, <1>2, PTL DEF Spec

\* No access to the cache is out of bounds, whatever index or count a reply has.
THEOREM TypeCorrect == Spec => []TypeOK
<1>1. Inv => TypeOK
  BY DEF Inv
<1> QED
  BY <1>1, InvAlways, PTL

\* Without any lock, the fields of two answers meet in one node only if both
\* tasks were writing that node at once.
THEOREM MixedOnlyByTwoAlways == Spec => []MixedOnlyByTwo
<1>1. Inv => MixedOnlyByTwo
  BY DEF Inv
<1> QED
  BY <1>1, InvAlways, PTL

\* A page copied while the poll stores nothing shows whole nodes.
THEOREM PageIsWholeAlways == Spec => []PageIsWhole
<1>1. Inv => PageIsWhole
  <2> SUFFICES ASSUME Inv, pc["http"] = "shown", ~disturbed, NEW i \in Cached, page[i].valid
               PROVE  Whole(page[i]) \/ overlap[i]
    BY DEF PageIsWhole
  <2>1. ~Storing("poll") /\ page[i] = nodes[i]
    BY DEF Inv, CopyIsCache, Copying, Bounds, TypeOK, Cached
  <2>2. \A t \in Tasks : ~InNode(t, i)
    BY <2>1 DEF Storing, InNode
  <2> QED
    BY <2>1, <2>2 DEF Inv, MixedOnlyByTwo
<1> QED
  BY <1>1, InvAlways, PTL
=============================================================================
