# Verification of the ESP32-S3 web PLC

TLA+ models, TLC runs and TLAPS proofs for the two programs of this repository:

- **friendly_plc_core** (`src/third_party/friendly_plc_core`), the library that
  runs on the PLC controller: a graph of nodes is uploaded, validated, activated
  and executed once per cycle; a safety state machine decides whether outputs
  may be driven.
- **the gateway** (`src/main`), the ESP32-S3 firmware: it serves a web page and
  turns its requests into request/response exchanges with the controller over a
  UART, and polls the controller's status in the background.

The controller's own end of the UART protocol is not in the repository, so the
two halves are modelled separately; where the gateway needs a controller, it is
an external one that does what the gateway's code expects or refuses.

## The system

| Component | Source | State | Operations | Hard behaviour | Correct when |
|---|---|---|---|---|---|
| Safety state machine | `plc_safety.c` | BOOT/STOP/RUN/SAFE/FAULT, latch, three uint16 streaks, "safe outputs applied" flag, ring of fault records | init, report, enter safe/fault, request stop/run, ack, note error/ok | any order of calls; skipped hardware writes; wrap of streaks and ring | nothing energised outside RUN; a latched fault blocks RUN until acknowledged; escalation happens at the threshold; the ring reads as a log |
| Run-time | `plc_runtime.c`, `plc_nodes.c` | active and staging graph with validity flags, pending swap, `safeMode` | `plc_tick`, upload, activate, force, release, fault entry and reset | the scan interleaves with calls; faults in mid scan; hot swap; timed forces | only validated graphs run; forces are explicit and end; activation settles |
| Graph and validation | `plc_types.h`, `plc_validation.c` | – | `plc_validate_graph_ex` | boundary values | no graph is accepted that cannot be executed |
| Node functions | `nodes/*.c` | timers, counters, latches inside the node | one function per node type | time steps, edges, activations | a node shows what the history of its inputs says |
| Input filter | `plc_nodes.c` | a candidate, a stable value and a time per channel | refresh of the inputs | bouncing across the wrap of the clock | the value that stayed is shown |
| Event ring | `plc_event.c` | head, tail, count, slots | push, pop, clear | full and wrapped | it is a queue that loses its oldest |
| UART link | `plc_uart_client.c`, `plc_frame.c` | mutex, static buffers, driver's receive buffer | one request/response exchange | late, lost, damaged replies; timeouts; two tasks | the mutex is always given back; an answer belongs to its request; every request returns |
| Client | `plc_client.c` | `s_seq` | status, IO, nodes, force, release, reset, activate, upload | several exchanges per operation, one of which fails | success is reported only for what the controller has |
| Gateway cache | `plc_gateway_state.c` | `s_state`: status flags, nodes | update from replies, set connected, get | written by two tasks without a lock, copied by a page meanwhile | flags agree again after a poll; nodes are whole, and up to date again after a poll |
| HTTP API | `api_handlers.c` | static buffers of the one HTTP task | one handler per route | a page waits for several exchanges; buffers at their limits; free text | each request ends with a verdict; no buffer is left; what is uploaded is what was sent |
| Graph builder | `plc_graph_builder.c` | – | text to image | silent defaults, cut texts, keys found where they are not meant | the image is the written graph, or an error is given |
| Graph storage | `plc_graph_storage.c` | two files | save, load | full disk; a restart between two writes | text and digest agree; "ok" means stored |
| Web server, start-up | `web_server.c`, `main.c`, `wifi_ap.c` | routes, a file being sent | start, serve | requests while routes are still registered; failures and restarts | the API is reached once up; files are closed |
| Memory, metrics, snapshot, port, Wi-Fi settings, log | | | | | not modelled, see below |

How they interact: the HTTP server task and the poll task call the client, the
client calls the link, the link talks to the controller, and replies are written
into the cache that the status handler reads. An uploaded text is built into an
image, stored in the files and then sent. On the controller the scan calls the
node functions, which call the port; both the scan and the API call the safety
state machine, which forces the outputs to their safe values.

## Modules

```
the controller's library
  FaultLog   <-- implemented by -- PlcSafetyApi -- extends --> PlcSafety
                                                                  ^
                              MCPlcRuntime --> PlcRuntime --------+--> PlcGraph
  EventQueue <-- implemented by -- EventRing      (PlcGraph <-- GraphBuilder)
  MCPlcParts --> MCPlcNodes --> PlcNodes; InputFilter; EventRing

the gateway
  PlcLink    <-- implemented by -- PlcUartClient <-- MCPlcUartClient
     ^
     +-- instantiated by -- PlcGateway <-- MCPlcGateway
  GatewayNodes
  MCHttpHandlers --> MCUploadBody   --> UploadBody
                 --> MCGraphBuilder --> GraphBuilder
                 --> StatusPage, GraphStorage
  MCWebServer --> WebServer
```

Each of `PlcSafetyApi`, `PlcRuntime`, `PlcUartClient`, `PlcGateway`,
`GatewayNodes`, `WebServer` has its theorems in a module of its name with
`_proofs`. `HttpHandlers_proofs` and `PlcParts_proofs` prove about the modules
that `MCHttpHandlers` and `MCPlcParts` put together for TLC.

### The controller

**PlcSafety** has one operator per function of `plc_safety.c`, from the
controller's state before the call to the state after it, because these
functions call one another and are called in the middle of a scan. The state is
the deciding part of `g_plcSafety` and the image of the physical outputs, where
an output is only energised or not. **PlcSafetyApi** makes them actions, one per
public function, and adds the ring of fault records; **FaultLog** is what its
reader is promised: the last records, newest first. `StreakMod` stands for
65536, the range of the streaks. Callers may report any code, PLC_FAULT_NONE
too, which `plc_fault_report` drops; the ghost `named` remembers whether an error
of the present streak that was at or past the threshold had a code.

**PlcGraph** is the graph, the validation, the resets and the node functions
that the scan needs. Outputs with their forces, BOOL constants, AND, OR and NOT
compute what the code computes; every other node may deliver anything, which
makes what is shown of the scan hold whatever the program computes. Values are
kept as the BOOLEAN that `get_bool` reads.

**PlcRuntime** is `plc_tick` and the API of `plc_runtime.c`. A tick is cut where
it reads or writes what a call may change: safe check, time step, swap, state
check, inputs, pending commands, one step per node, bookkeeping. Each API
function is one action, except the upload, which copies the graph first and
validates it after. The ghost `commanded` holds, for each node of the active
graph, the value that `plc_force_output` last asked for there and that has not
ended since; what arrives in an uploaded graph is not in it. The constant `Preemptive` says how scan and calls are
scheduled. FALSE is the loop of the library's README: a tick is not interrupted
by a call nor a call by a tick. TRUE is the scan in a task of its own, which a
comment in the code names (`TaskPlcScan`), with calls between the steps of the
tick. The safety calls and the force calls stay whole even then, so races inside
them are not modelled, and TRUE is used to show what goes wrong and to prove
what holds in both.

**PlcNodes** has the nodes with a memory over time: TON, TOFF, TP, heartbeat and
the three counters, any input in any scan, any time step up to the clamp of
`plc_tick`, and activations that put any node in the place of another. A ghost
`history` records, from the inputs alone, how long an input has been on or off
and what was counted; the properties say that the node shows just that.
**InputFilter** is the debounce of one input channel against a clock that wraps,
with a ghost that knows which value was last read unchanged for long enough.
**EventRing** is `plc_event.c`, and **EventQueue** what it promises: a bounded
queue in which a push to a full one drops the oldest.

### The gateway

**PlcUartClient** is one exchange over the UART, task by task: waiting for the
mutex, flush and write, the two reads, the result. A frame is two pieces, the
length and the rest, and each may be damaged; requests and replies may be lost;
the controller may answer after the timeout. Sequence numbers are not in the
model because the code never compares them. Two ghosts make the question of
whose reply was read expressible: `stale` marks what belongs to an exchange
that has ended, `quiet` an exchange that began with nothing under way.
**PlcLink** is the same seen by a caller: one exchange at a time, that fails or
takes one whole reply, whichever request it answers. The run `uart_link` shows
that PlcUartClient implements it.

**PlcGateway** puts the poll task and the HTTP task on PlcLink. A job is the
sequence of requests that a handler makes, with the decision on each reply
(`Success`, `Decisive`). `connected` and `running` are written one after the
other, as in `plc_gateway_state_set_connected` and
`plc_gateway_state_update_from_status_web_v2`, so the two tasks' writes
interleave. Several images may be uploaded, one after the other, each upload
given up at any request. The controller stages an upload chunk by chunk: it
keeps whose chunks it has and how many, a chunk of another image makes what is
staged nobody's, and it refuses the end of an upload unless it has all of the
image that was announced, as the CRC of its bytes would not match. It may also
refuse any request. A reply with the right code is assumed to have the right
layout.

**GatewayNodes** is the node cache: chunks of a snapshot and single nodes that
are read back after a force or a release are stored field by field by two
tasks, while the HTTP task copies the cache for a page. The state of the
controller's nodes is one of a few versions, which may change and come back at
any time, so that a field tells of which version it is, and a node mixed of two
shows. The loop that marks all nodes invalid is a step per node, as it holds no
lock.

**UploadBody** receives a body in pieces and takes the graph out of it, which is
the body itself or an escaped string member. **GraphBuilder** is
`plc_graph_builder_from_json` over texts of tokens: the search for a quoted key
wherever it stands, the next colon, the braces, the defaults, the cut to 8, 16
or 32 bits, the bound of the image; it shares the node and the validation with
PlcGraph. **StatusPage** writes the page with a length per piece, any up to the
longest the format can produce. **GraphStorage** is an upload from its first step
to its answer, with the two files, writes that fail unnoticed, and a restart of
the gateway between any two steps. The controller goes on. It has staged the
graph if the upload was answered "ok" by answers that were all the ones to their
requests, which is what PlcGateway's `UploadDelivered` says; after an "ok" with a
late answer among them, after a failed upload and after a restart in the middle
it may have the graph, none, or the one from before. The ghost `uploaded` is the
text that was last told "ok", and `apart` says that something failed since the
files and the controller last went together. **WebServer** is `app_main` with
its failures, the poll task it starts, the routes in the order of their
registration, and the static files.

The definitions marked "Faulty variant" are not part of the specifications.
Each is what a definition would be with a plausible mistake in the code, and
serves to see that the property beside it in `PROJECT.json` notices.

## Runs

| Run | Module, configuration | What it shows | States |
|---|---|---|---|
| `safety_api` | PlcSafetyApi | in any order of calls: no way round the latch; the flag that lets hardware writes be skipped is honest; a streak that reached its FAULT threshold with a code keeps the latch; the latch is released only into a stopped machine with streaks at zero; the ring is a FaultLog | 315 937 |
| `runtime` | MCPlcRuntime, PlcRuntime.cfg | scans and calls in one loop: only validated graphs run, nothing energised outside RUN at any point of a scan, a force is one that was asked for on this graph, with the value asked for; forces neither change their kind nor outlast their time, activations settle | 132 729 |
| `uart_link` | MCPlcUartClient, PlcUartClient.cfg | the mutex is held exactly inside exchanges, a quiet exchange gets its own answer, every request returns, PlcLink is implemented | 108 901 |
| `gateway_upload` | MCPlcGateway, PlcGateway.cfg | "ok" for an upload means the controller has that image and all of it | 1 321 488 |
| `gateway_status` | MCPlcGateway, PlcGatewayStatus.cfg | an off-line-but-running cache is repaired by the poll; every job ends | 115 834 |
| `gateway_nodes` | GatewayNodes | nodes and pages are mixed of two answers only when two tasks were at them at once; once the controller rests the poll brings the cache up to date | 102 804 |
| `web_server` | MCWebServer, WebServer.cfg | an API call is never answered with a file, and once up by its own route; start-up gets there or goes on trying; files are closed | 20 404 |
| `http_handlers` | MCHttpHandlers, HttpHandlers.cfg | the text that is built is the one that was sent; the image is what was written; a text cut off in a node is refused; the page stays in its buffer and leaves nodes out only when nearly full; the two files agree; "ok" means that both hold the text it was said of; what is stored is what is staged unless something failed | 27 667 |
| `plc_parts` | MCPlcParts, PlcParts.cfg | timers and counters against their history and their times against the width of a time, the filter across the wrap of its clock, the event ring as an EventQueue | 156 267 |
| `find_activation`, `find_last_type`, `find_torn_swap` | MCPlcRuntime | the three findings below, each a counterexample | |

`http_handlers` and `plc_parts` each hold several small models that share no
state. A behaviour is about one of them, chosen at the start by `work` or
`part`, and the others rest in their initial state: an interleaving of them
would add states and no behaviour of any of them.

**Bounds.** `safety_api`: thresholds 2 and 3 with streaks modulo 5 reach every
escalation, the region above the threshold and the wrap; a ring of 3 slots with
5 reports fills, wraps and is overwritten past its start. `MaxSequence` bounds
the reports of one behaviour and nothing else. `runtime`: four graphs of one to
three nodes were chosen so that each way a scan can end occurs: the program of
`examples/safe_mode`, uploaded with leftovers in its run-time fields; an input
beyond the debounce filters, which turns the machine SAFE in mid scan; a node of
type NODE_MAX, which faults after an output was written; and an invalid graph.
Hold times and elapsed times are such that a force ends before, at and after a
scan. The calls that report protocol and watchdog errors are left to
`safety_api`. `uart_link`: two tasks, a short and a long reply, two messages on
the line and a receive buffer of two pieces, so that late replies of two
exchanges coexist and the buffer overflows. `gateway_upload`: two images and two
chunks suffice for a lost, a repeated, a misplaced and a foreign chunk; the
images are interchangeable (symmetry). Two messages on the line let the late
request of an upload that was given up meet one of the next. The other jobs are
left to `gateway_status`, which has no upload, the jobs of a single exchange and
the reset, which polls the status itself, with one message under way.
`gateway_nodes`: a cache of two nodes and a chunk of one, so that a snapshot
takes two chunks, and graphs of up to three nodes, so that one does not fit;
two versions of the controller's nodes, which come and go without end, tell what
is old from what is new, and both from what was never written. `web_server`: the
real list of routes, one URI of every kind, files of up to two pieces.
`http_handlers`: bodies around the sizes of both buffers (12 and 4), with a
quote, a backslash and one letter to stand for those with an escape; images of
two nodes and objects of 28 tokens, with 8 and 16 in place of 2^16 and 2^32, so that values are cut; a page of 17 bytes
with 7 in reserve, a head of up to 4, nodes of up to 4 and a tail of 1, which
keep the relation of the real 8192, 512, 1056, 300 and 40 that
`PageAssumption` states: the last node that is still written may use up
the reserve; three texts, two of which can be built. `plc_parts`: times of zero
to three milliseconds with steps of one and two, so that a time is hit and
passed over; times wrap at 8, with room for the longest delay and a step, and
heartbeats of 6 and 7 are at and beyond the last that has this room; counters
stop at 3; the filter's clock wraps at
16 with a debounce time of 5 and gaps of up to 8; a ring of 3 events.

**Fairness.** `runtime`: the scan is called for ever and an upload that has
begun ends; calls are not fair. Scan fairness is strong, because a call in the
loop of the library only delays the next tick. `uart_link`: a task that can go
on does; the scheduler runs it, and its timeouts expire, as
`plc_uart_read_exact` and `xSemaphoreTake` both have one. Nothing is assumed of
the controller, the line or the other task. `gateway_status` and
`gateway_nodes`: the same for the steps of jobs, and the poll task, an endless
loop, starts again. `web_server`: the start, the poll task and the HTTP task are
scheduled; nobody has to send a request, and nothing has to fail.

**Deadlock** is checked in every passing run but `http_handlers`, where the work
of a handler is over when it returns.

**What the properties are conditional on.** `QuietAnswerIsOwn` and
`UploadDelivered` speak of exchanges that began with nothing under way. After a
timeout a late reply can be read as the reply to the next request; that is a
behaviour of the model (an answer with `stale` TRUE) and of the code.
`EnergisedOnlyInRun` and `OnlyValidatedRuns` are for the one-loop scheduling;
the second is shown to fail with a scan task. `TimedForceEnds` excludes the
caller that forces again and again, and does not speak of SAFE or STOP, where
`plc_tick` returns before it counts a force down. `EscalationSticks` speaks of a streak of
protocol errors of which one at or past the threshold had a code: one that only
ever gave PLC_FAULT_NONE is counted and reported to nobody (`plc_safety.c:99`).
`NodesRepaired` supposes that snapshots go on arriving, that the page's jobs stop
storing, and that the controller comes to rest (`ControllerRests`): an answer of
a controller that goes on changing may be of the past whenever it is stored, and
without this premise TLC finds the property violated. `ApiReached` allows an API
call before the gateway is up to be told that there is no such route or method.
`FilesAgree` and `OkMeansStored` except a write that failed, which nothing in the
code notices (`fwrite` and `fclose` are not looked at), `FilesAgree` also what a
restart or a file that cannot be opened left. The stored and the staged graph
(`StoredIsStaged`) differ while an upload is under way, since a text is stored
before it is sent, and after one that failed, was interrupted by a restart or was
told "ok" on a late answer; that is a behaviour of the code, listed below. The
delays of `TimersKeepTime`, of 0 ms too, leave room for one more step below 2^32,
as the 600 s that the validation allows do. The period of a heartbeat is not
validated, and the properties say nothing of one shorter than the longest step or
within one step of 2^32: what is left of a period adds up, and wraps. `CtudCounts` is for clocks that are apart, since the node has
one memory for both. `BuildsWhatIsWritten` is for texts in
which no string looks like a key or a brace and no object stands behind the
nodes, since the builder searches the text without regard to strings and to the
end of the array. It says what the code makes of them: all nodes if the image has
room, else exactly the first hundred without an error; 0 for a number that is not
written. `CutNodeRefused` is about a text cut off inside a node; one that ends
between two nodes is built as far as it goes. `ExtractsTheGraph` is for
escapes of one letter, which `Escaped` lists: of `\uXXXX`, with which other
control characters are written, the default branch of `api_handlers.c:486` keeps
the `u` and the digits.

## Findings

1. `find_activation`: `plc_request_activate_graph` accepts and logs "will swap on
   next tick" in SAFE and FAULT, but `plc_tick` returns before the swap in these
   states. The pending swap takes place, with an implied run request, after
   somebody acknowledges.
2. `find_last_type`: the validation compares with `> PLC_NODE_MAX` and so accepts
   a node of type `PLC_NODE_MAX`, which no function executes. It is found out in
   mid scan by a FAULT.
3. `find_torn_swap`: with the scan in a task of its own and an activation
   pending, an upload that is copied over the staged graph can be swapped in
   before it is validated, since the validity flag still speaks of the graph
   before it.

Other behaviours that were met while modelling. The repository says nothing to
the contrary, so they are no findings, but a maintainer will want to know them:

- The builder gives an input that is not written the value 0, which is node 0,
  and drops the nodes beyond the hundredth (`plc_graph_builder.c:184`).
- `/graph/active` serves the graph that was stored last, which need not be the
  one that is active, nor one the controller ever had: it is stored before it is
  uploaded, a failed upload leaves it stored, and activation is a request of its
  own.
- The page `src/web/index.html:12` asks for `/api/ping`, which has no route.
- The handler of `/graph/active` has 16.5 kB of local arrays
  (`api_handlers.c:364`) on a task stack of 16 kB (`web_server.c:138`).
- TON with a time of 0 is on while its input is off.
- A heartbeat shorter than the time between two scans falls behind, and what is
  left of it adds up until it wraps; its period is not validated
  (`plc_node_misc.c:81`).
- Protocol errors noted with PLC_FAULT_NONE escalate to nothing, whatever the
  threshold (`plc_safety.c:99`).
- Indices from a body are cut to 16 bits without a check (`api_handlers.c:397`).
- `plc_runtime_is_faulted` reads `safeMode` (`plc_runtime.c:431`), which an
  acknowledgement does not clear.
- With a scan task, SAFE entered by another task in the middle of a scan is
  followed by what that scan still writes to its outputs.

## Proofs

Every proof supposes nothing but the named assumptions on the constants
(`ThresholdsAssumption`, `GraphAssumption`, `RuntimeAssumption`,
`LinkAssumption`, `NodesAssumption`, `WebAssumption` and so on), which TLC
evaluates for the instance of each run. The theorems hold for all values of the
constants; several type invariants (`TypeCorrect` of PlcSafetyApi,
`GatewayTypeCorrect`, `TypeCorrect` of GatewayNodes) appear in no run of their
own. Every invariant and every action property of the passing runs, and every
refinement, is stated by a theorem; what stays with TLC is liveness.

What a folded or filtered sequence contains is proved for sequences of any length
by the induction theorem of the naturals turned into facts about sets: a set of
numbers that has 0 and with each number the next has all of them (`AllNumbers`),
and a set of sequences that has the empty one and with each one every extension
by an element has all of them (`AllSequences`). The provers do not know that a
literal is a string, so the texts of the theorems are over `Letter` and `Words`,
all strings together with the literals that occur.

**PlcSafetyApi_proofs.** `Sound` says what holds of the machine between two
calls, and each function of `plc_safety.c` has a lemma that keeps it. From it
`TypeCorrect`, `EnergisedOnlyInRunAlways`, `LatchBlocksRunAlways`,
`AppliedFlagHonestAlways`, `EscalationSticksAlways` and
`LatchReleasedStoppedAlways`. `RingImplementsLog`: every step of the ring maps to
a step or a stutter of FaultLog, for a ring of any length; the invariant relates
the count to the sequence number, and the slots are followed one by one.

**PlcRuntime_proofs**, for all graphs, thresholds, hardware and time steps:

- `TypeCorrect`, in both modes. Each operator of PlcSafety and PlcGraph has a
  lemma that it maps a state, or a graph, to one; then one step per action.
- `LatchBlocksRunAlways`, in both modes. The property is inductive with the type
  invariant: lemmas per function of `plc_safety.c` (`ReportKeepsLatch`,
  `RequestsKeepLatch`, `NotesKeepLatch`), and the actions compose them.
- `ForceIsExplicitAlways` and `ForceKindStableAlways`, in both modes. What has to
  be shown is that resets drop every force, so that none comes with a graph or
  survives a swap, that counting down and executing nodes never add one or change
  its value, and that a countdown that reaches zero ends the force and
  so never leaves a time of zero, which would mean for ever.
- `OneLoopRunsValidated`, under `Preemptive = FALSE`. The property alone is not
  inductive: the swap copies the staging graph, so the invariant `ProgramInv`
  adds that a staged graph marked valid is valid unless its upload is half done
  (`StagingIsValid`), and that scan and upload exclude each other (`OneLoop`).
  Validity depends only on a node's configuration, so the steps of a scan
  preserve it (`SameConfig`, `NodeOpsKeepConfig`).
- `OneLoopEnergisedOnlyInRun`, under `Preemptive = FALSE`. The strengthening says
  that the applied flag is honest and down in RUN (`Dark`), and that a scan still
  at a node while the machine is not running stands at the first one
  (`Located`). It then rests on the validation: the first node of an accepted
  graph cannot be an output, since an output needs an earlier node to read
  (`FirstNodeIsNoOutput`). This is why the one node that the code executes after
  an input has turned the machine SAFE drives nothing.

**PlcParts_proofs**, each part against the history of its inputs:

- `TimersKeepTimeAlways` and `CtudCountsAlways`, for all time steps and widths,
  every delay that leaves room for one more step and every heartbeat that keeps
  up (`KeepsUp`). One invariant per node type relates its memory to the history
  (`TonInv`, `ToffInv`, `TpInv`, `HeartbeatInv`, `CtudInv`); an activation
  re-establishes what holds initially. `NodesTypeCorrect` follows from the same
  invariant (`TimesFit`): a time never passes its parameter and there is always
  room for one more step, so the sums in `plc_node_exec_ton` and, for those that
  keep up, in `plc_node_exec_heartbeat` do not wrap.
- `ShowsSettledAlways`: while a value is a candidate, the clock is ahead of
  `sinceMs` by the time it has been read (`Counting`), modulo the clock. A
  comparison of differences survives the wrap because debounce time and gap
  together fit in the clock (`FilterAssumption`).
- `RingImplementsQueue`: head is tail plus count, modulo the capacity, and the
  queue is what the slots hold from the tail on.
- `PartsTypeCorrect` and `PartsSafe` carry all of this over to the module that the
  run checks: a behaviour of PlcParts is one of each part (`PartsRun`), since a
  step of one leaves the variables of the others alone.

**PlcUartClient_proofs**, for any tasks, requests, replies and buffer sizes:

- `LinkTypeCorrect`: sequences of pieces stay such, and a success is a whole
  reply.
- `MutexIsInUseAlways`: inductive with the type invariant; every end of an
  exchange passes `Finish`.
- `QuietAnswerIsOwnAlways`: the strengthening `OnlyOwn` says that during an
  exchange that began quietly everything on the line is fresh. It uses the
  mutex, because nobody else may send in between, and the flush, because what
  had arrived before is dropped.
- `LinkImplementsPlcLink`: every step of the link, piece by piece, is a step or a
  stutter of PlcLink, which has whole messages. The mapping drops from the line
  and the buffer what is no start of a message (`SelectSeq`), so it has to be
  shown what filtering does to an appended, a removed and a lost piece. The
  invariant `FrameInv` says that replies leave the controller whole and undamaged,
  each length directly followed by its body; that a task which meets a good
  length finds the body of that reply, or a damaged one, right behind it; and
  that the body a task waits for fits what it asked. That a frame always fits
  the buffer needs `RxBound >= 2`, which the code has (a frame of at most 1028
  bytes, `plc_frame.h:10`, and a buffer of 2048, `plc_uart_client.h:13`).

**PlcGateway_proofs**: `UploadDeliveredAlways`, for any number of chunks and
images, any other jobs and a line of any length. The invariant `Inv` follows
the upload request by request (`Following`): as long as all its exchanges were
quiet, the controller has exactly the chunks acknowledged so far, plus at most
the one under way, and no other request of an upload is on the line that could
move it. The other parts say which task may be at which request.

**GatewayNodes_proofs**: `MixedOnlyByTwoAlways` (a task about to write the last
field of a node finds its own first field there unless it was not alone,
`OwnFirst`) and `PageIsWholeAlways` (an undisturbed page is the cache as far as
it got, `CopyIsCache`), for any sizes.

**HttpHandlers_proofs**, for requests, texts, files and limits of any size:

- `BodyTypeCorrect` and `BuilderTypeCorrect`: the body and the extracted text stay
  inside their buffers and the image inside its bounds, for any text. It needs
  that a search that finds something finds a place in the text (`FirstOf`).
- `ExtractsEveryGraphAlways`: what is taken out of a body is the text the page
  wrote into it, whatever its length and its characters, as long as those that need
  an escape have one of a letter, behind any members that
  are not the key and any blanks, or it did not fit. `Reading` says where the scan
  may stand: at the start of a written character with as much in the output as was
  written before it, or behind the mark of an escape. From a character to the next
  one is a lemma (`NextChar`), which rests on how the writing of a text grows with
  the text (`WrittenGrows`). `ExtractsTheGraphAlways` is the property of the run,
  whose texts are some of these (`RunTexts`).
- `CutNodeRefusedAlways`: in what has been passed, every brace has a later end
  (`ClosedBefore`). At the end nothing is left but text without a brace, unless
  the image was full; here the assumption that no text holds the token of its end
  is used.
- `BuildsEveryDocumentAlways`: a document of any number of nodes with any number of
  members, in any order, with any words that do not look like a key, a quote or a
  brace, and nothing that looks like an object behind them, is built into the nodes
  it lists if the image has room for them and else into the first of them, as many
  as there is room for; each from its own members; or it is refused because one of
  those cannot be read. Three facts about
  texts carry it: that the search for a key in the text of an object finds the
  first member with this key (`Found`, kept by each member that is added,
  `FoundMember`); that an object ends at its first closing brace (`BracedIs`); and
  that the next object stands where the text of the nodes before it ends
  (`NodeAt`). The invariant `DocInv` says that the image holds the first nodes of
  the document and the reading stands behind the last of them (`ReadSoFar`).
  `BuildsWhatIsWrittenAlways` is the property of the run (`PlainOnes`).
- `PageFitsAlways` and `LeftOutWhenFullAlways`: `RoomLeft` says that before a piece
  is written its longest form and the tail still fit.
- `FilesAgreeAlways`, `OkMeansStoredAlways`, `StoredIsStagedAlways` and
  `ServedWasBuiltAlways`: `InSave` and `Agreed` say how far a save has got and
  which of the files already has its text. What an "ok" of the link is worth is
  taken from PlcGateway, whose `UploadDelivered` is proved there.
- `HandlersTypeCorrect` and `HandlersSafe` carry all of this over to the task that
  runs the handlers (`HandlersRun`).

**WebServer_proofs**: `ApiReachedAlways` (the routes are registered in order and
all of them are when the gateway is up; the first one that matches exists and is
not the route of the files, whose pattern is not below `/api/`, so that even
before that no API call gets a file) and
`FilesClosedAlways`.

**Model-checked only.** Liveness, which the prover does not reach:
`ActivationSettles`, `TimedForceEnds`, `RequestReturns`, `StatusRepaired`,
`JobsEnd`, `NodesRepaired`, `ComesUp`.

## Not modelled, and why

- Numeric node functions (PID, filters, ramps, scaling): float arithmetic.
- Edges, latches and the other nodes of one assignment: a property of one would
  restate it.
- JSON wording, the layout of frames, CRC and SHA computations: a damaged frame
  is one that the CRC rejects, and a digest is the text it was computed from.
- The memory area (arrays with range checks), metrics, snapshot, logging and
  strings: they decide nothing.
- The STM32 port and the settings of the access point: calls into other systems.
- Races inside the calls of `plc_safety.c` and inside forcing, and the word-size
  tearing of a graph copy: the calls are single steps. The loop of the library's
  README has no such race; with a scan task nothing in the code prevents one.
- `mem_*` requests and the extended status: no handler makes them.
- The stack of a task, see the remark on `api_handlers.c:364` above.

## Plan

Done: the safety state machine, the run-time, the link, the gateway's jobs, its
caches, the handlers, builder, storage, web server and the parts of the library
with a memory, with the proofs above. What is left, in the order of use:

1. `PlcSafetyCalls`: the calls of `plc_safety.c` cut at their reads, two threads,
   to say which of the safety properties survive a scan task
   (`plc_safety.c:154`, `plc_runtime.c:194`).
2. GraphStorage, PlcGateway and GatewayNodes in one model, so that the stored,
   the staged, the active and the shown graph can be compared.
3. Reference definitions for the nodes with integer arithmetic (comparators,
   hysteresis) once their values are modelled.
