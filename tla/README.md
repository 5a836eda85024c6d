# Prism-HTTP: a formal model of connection handoff

Prism-HTTP lets a proxy hand the TCP connection of a client to a backend
*after* it has read the client's HTTP request. The backend answers the client
directly; a programmable switch steers the client's segments to whichever
server holds the connection. A backend hands the connection back when the
client sends its next request.

This directory holds TLA+ modules that model this system from its source, TLC
configurations that check them on small instances, and proofs for instances of
every size.

## The system

| Part | Source | State | Operations |
|---|---|---|---|
| switch | `switch/src/cpp/prism_switch.bpf.c` | rule table: client address and port -> owner, lock byte | ADD, DELETE, CHOWN, LOCK, UNLOCK requests (UDP); lookup of each TCP segment in both directions |
| switch client | `switch/src/cpp/prism_switch_client.cpp` | one UDP socket, buffer and 100 ms timer per request | queue a request, retry it, receive the reply and run the callback |
| HTTP server | `src/phttp_server.cpp`, `src/http.cpp`, `src/include/membuf.h` | `http_client_socket_t` per connection: parser state, request and response buffers, `imported` | accept, read, call the handler, answer, close |
| export | `src/phttp_hoproto_export2.cpp` | the chain of callbacks of one handoff | stop the flow, export, close, wait for the kernel, send |
| import | `src/phttp_hoproto_import2.cpp` | as above | call the handler, import, change the owner, answer; or forward |
| close | `src/phttp_hoproto_close2.cpp` | as above | close, wait for the kernel, delete the rule |
| TCP monitor | `src/uv_tcp_monitor.cpp` | an eventfd that the kernel writes when a socket is destroyed, a poll handle on it, a descriptor of `/dev/creme` | wait for it |
| handoff server | `src/phttp_handoff_server.cpp` | a buffer per connection between servers | cut the stream into messages |
| TCP and HTTP state | `src/tcp_export.cpp`, `src/http_export.cpp` | none | export and import with `TCP_REPAIR` |
| applications | `src/apps/*` | handlers, a LevelDB per backend of a store | answer, or ask for a handoff (status 600) |
| worker | `src/apps/*/common.h`, `src/apps/*/phttp_*.cpp` | an event loop with its handles, a flag for SIGINT | start, connect to the other servers, stop |

Every server is a single-threaded libuv event loop per worker; the parts of one
server interact by calls and callbacks. Servers talk to each other over one TCP
connection per pair (handoff messages) and to the switch over UDP. The client
and the server holding its connection talk TCP through the switch.

What is hard here:

- *Interleaving.* One handoff is a chain of six or more callbacks at two or
  three servers, with the client, its retransmissions and the switch running
  meanwhile. The TCP state must be in one place at any time, and segments must
  not reach a host that does not have it: its kernel would reset the client.
- *Unreliable configuration.* Requests and replies are UDP and are retried; LOCK
  and CHOWN toggle a byte, ADD fails when repeated.
- *Failure.* Nearly every unexpected result is an assertion, which ends the
  whole process with all its connections.
- *Lifetime.* A connection is up to three handles and four descriptors, which are
  closed in different callbacks; its memory is freed in the last of them. SIGINT
  closes all handles from outside this order.
- *Streams.* Two components rebuild messages from a byte stream that the kernel
  cuts as it likes, with pointer arithmetic.

`PROJECT.json` lists the hazards with the lines where they bite and the
properties that cover them.

## Modules

| Module | What it is |
|---|---|
| `PrismSwitch` | the switch's rule table and handlers, as operators on a table |
| `Handoff` | the protocol: switch, links, configuration traffic, servers, kernels' sockets, clients |
| `FlowOwner` | what the protocol promises: one holder or in transit, requests answered once and in order |
| `HandoffFraming` | the receiving end of the stream between two servers |
| `HttpRead` | the reading of one client's requests, and their way to another server |
| `WorkerLoop` | the event loop of one worker: handles, descriptors, memory, SIGINT |
| `Applications` | the three applications: proxies, backends, LevelDBs, the connections between servers |
| `TcpRepair` | export and import of one TCP connection, call by call |
| `MCHandoff`, `MCFraming`, `MCHttpRead`, `MCApplications` | small instances |
| `HandoffProofs`, `ConnectionProofs`, `RuleProofs` | theorems about `Handoff` and their proofs |
| `FramingProofs`, `HttpReadProofs`, `WorkerLoopProofs`, `ApplicationsProofs`, `TcpRepairProofs` | the same for the other modules |

Operators that start with a capital letter and the word *Mutant* in their comment
are wrong variants of the definition that follows them; each property is shown
to notice at least one of them.

### `Handoff`

| Variable | In the code |
|---|---|
| `prism` | the BPF map of that name |
| `net`, `pending` | requests on their way; the `psw_config_req` objects whose `on_recv` has not run |
| `link[s]` | the port of the switch to server `s`: segments and replies in order |
| `hcs[s][f]` | the `http_client_socket_t` of flow `f`: `phase` is the callback it waits for, `imported`, the request being handled (`req`), `res.handoff_data` (`dest`) |
| `sock[s][f]` | the kernel socket: its state, the last request received and the last response written |
| `wire` | `HTTPHandoffReq` messages written and not yet handled |
| `client[f]`, `abort[s]` | the client's TCP; the assertion that ended process `s` |

A libuv callback is one action and has its name: `after_configure_switch`,
`after_close`, `after_real_close`, `handoff_done` for export; `on_handoff_import`,
`on_handoff_forward`, `after_change_owner` for import; `on_read_*`,
`after_send_http_res` for reading and answering; `phttp_start_close`,
`after_close_local`, `after_close_imported`, `after_real_close_imported` for
closing; `retry_send`, `on_recv` and the three callbacks built on it for the
configuration client. `SwitchConfig` is the switch's reception of a request.
The client and the kernels (`ClientSegment`, `DeliverSegment`, `ServerSegment`,
`KernelDestroy` ...) are external and modelled by what the code relies on.

Requests of a connection are numbered; a request or a response is its number.
The TCP state that is exported is the last request received and the last
response written, which stand for the sequence numbers.

What the model assumes of the world:

- the link from the switch to a server keeps its order (one VALE port);
- a client sends its next request after the response to the last one, and does
  not reuse a port before everything of the old connection has drained
  (`Quiet` in `on_connection`; TIME_WAIT is much longer than the configuration
  traffic);
- clients connect to one server, `Front`;
- libuv runs the callback of a finished write before it polls for input, so
  `handoff_done` precedes the return of the same flow (`HandoffReady`);
- messages between servers may overtake each other (`wire` is a set): more
  behaviours than the TCP connections between servers allow;
- what a handler decides is the constant `Routes`: for requests read from the
  client and for requests handed over, the outcomes the application can produce.

Three constants choose the faults: `AbruptClose` (clients close or reset at any
time), `TimelyReplies` (replies are not lost and beat the retry timer; requests
may be lost in any case) and `VerifyCsum` (the host drops UDP datagrams whose
checksum is wrong, as those of a refused request).

### `HandoffFraming` and `HttpRead`

Bytes are offsets in the stream, a buffer is an interval of them, a pointer an
offset into the buffer. The kernel returns any number of bytes that fit.
In `HandoffFraming` the loop of `on_read` is one step per message; nothing else
touches the buffer in between. A message with missing bytes that is parsed all the
same leads to one of the two ways the process ends: the assertion, or, when what lies behind
the buffer parses, the message is handled and a `memmove` of negative length follows.

In `HttpRead` the parser is taken by its result: the length of the header, incomplete,
or an error for bytes that are no request. The difference of pointers is unsigned
(modulo `Wrap`), and arbitrary when `realloc` has moved the buffer since the pointer
was set. `SplitHeader` says whether a header may arrive in several reads. The client
does not pipeline, but may send bytes that belong to no request (`extra`).

How long a body is said to be is what `http.cpp` makes of the headers, and not what the client
meant. `http_request_find_header` compares as many bytes of two names as the shorter one has, so
of a name the model keeps its length and how many of its first bytes are those of
`Content-Length`, in this case. `strtoll` is called with base 0, so of a value the
model keeps its sign, its prefix, the number its digits make in each base and whether
that is the whole of it; base, limits, the conversion to `uint64_t` and the 0 for a number with
something behind it are in `Base`, `strtoll` and `http_request_determine_body_len`. So `content-length: 2` is
not found, `Content: 1` is, `0x3` is three bytes and `010` eight. `PlainLength` names the requests
for which none of this shows: `Content-Length` in this case, once, in decimal digits without a leading
zero, with the body's length and no other name that matches, or no body and no such header.
The properties say what holds for these, and for the others what the code takes them for:
a request whose length is found to be shorter is closed as if it were oversized, or its rest is taken for
the next request, and one found to be longer is never answered.

A handler answers or hands the request over. `http_request_import` is the other server's
side of `http_export.cpp`: the used part of the buffer is copied into a fresh one, and
every pointer becomes an offset and a pointer again. `membuf_grow` counts from what is
used, so that a request longer than a fresh buffer (`InitCap`) gets too small a one:
`phase` is then "overrun" and the model says nothing of what follows. `stale` remembers
that `realloc` has moved the buffer under a body. `LosesOnlyLarge` bounds both. Once the buffer
has moved, what is left in it may be parsed again, so `answered` may pass the number of requests sent.

### `WorkerLoop`

An iteration of the loop is `on_prepare`, any number of callbacks, and
`uv__run_closing_handles`, which runs the close callbacks of all handles closed so far.

| Variable | In the code |
|---|---|
| `handle` | the state of each libuv handle: those of a connection (`Tcp`, `Monitor`, `Udp` for a `psw_config_req` with its timer), of a peer (`Dest`, `ConnectTimer`, `HandoffClient`), of the worker |
| `stage[c]` | the callback that connection `c` waits for, as `phase` in `Handoff` |
| `fds[c]` | its open descriptors: the socket, the eventfd, `/dev/creme`, the UDP socket |
| `writing`, `forwarding` | unfinished `uv_write`s to clients, and of forwards to peers |
| `end` | the flag of `apps/kvs/common.h` and `apps/kvs-repl/common.h` |
| `abort` | the assertion that ended the process |
| `walked` | history: how SIGINT's walk found the worker: idle, busy, or with nothing but connections that wait for the kernel |

Libuv is modelled by what the code relies on: `uv_close` and `uv_poll_start` assert that the
handle is not closing; a write whose handle is closed calls back with an error; the loop
ends when no handle is left. The monitor uses `/dev/creme` (`TCP_MONITOR_USE_CREME`); without it
there is one descriptor less to leak. Handles closed together are finished in one step.

What the run makes visible: a worker that SIGINT finds with a client connected, with a
configuration request pending or with a handoff being written does not end in order (`Busy`). The
UDP handle is closed twice (`on_walk` lacks a `return`), the monitor of a client is
closed by the walk and again by `after_close`, or waited for when it is closed, and a
cancelled write fails an assertion. A connection that is exported or closed and waits for the kernel
to destroy its socket (`Waiting`) has only its monitor left for `on_walk` to close: the loop ends without an
error, and the exported state is never sent, or the rule never deleted. And a backend of
`kvs-repl` takes the structure of its next server from `malloc` and never sets the data pointer of the
handle in it (`Unset`), through which its `on_walk` calls unless it is null: such a walk may end in a wild
call (`abort` is "wild") even when the worker is idle. `StopsCleanlyIffIdle` says exactly when which of these happens.
`LeaksOnlyLocal` says which descriptors are never given back.

### `Applications` and `TcpRepair`

`Applications` takes a handoff as one message between two servers (what `Handoff` is about)
and models what the handlers do around it. `app` is one of

- `kvs-repl`: GETs go to the backends in turn, PUTs down a chain whose last member answers;
- `kvs`: every request goes to the backend that the hash of its path names;
- `bench`: objects are fetched from the backends in turn and nothing is stored.

A LevelDB is the sequence of PUTs and DELETEs it has executed, `chan` holds the connections
handed over on each TCP connection between workers, `rr` is the proxy's turn. `acked` and
`before` are history: the operations answered with 200 or 204, now and when a client sent its
request. A process stops by itself (`Stop`, at most `MaxStops`), in the assertion behind a
write that fails because the connection is not made yet (`try_connect`) or its peer is gone,
or because an object of `bench` does not fit the response buffer. `Late` names the connections
that are not made at the start; the others are.

Three things the model makes visible and no document of the repository rules out: with two
workers, two PUTs to one key may be stored in different orders along the chain, and the
replicas then differ for good (so `ReplicaOrder` speaks of one worker); a client may read a
new value at the head and then an older one at the tail; and with `kvs-repl` a DELETE never
reaches a backend: the proxy's handler ignores it and the response has status 0.

`TcpRepair` has one action per function that `tcp_export` and `tcp_import` try, and one per
label they leave by; `err2` frees the bytes of the send queue, which belong to the message, and the
allocator may stop the process (`export_err2`). In
`Handoff` a connection is exported when its request has been read and its last response
acknowledged by that request, so the queues are empty: the case of `EmptyQueuesSurvive`.
`tcp_queues` is about the others.

## Runs

| Run | Instance | Shows |
|---|---|---|
| `handoff_reliable` | 2 clients, 3 servers in a chain, 2 requests each | types, `NoOrphanSegment`, `LockedInTransit`, `RuleFollowsConnection`; deadlock is checked |
| `handoff_live` | 1 client, 3 servers in a chain, 4 requests, the last one malformed | `RequestAnswered`, `ConnectionReclaimed` |
| `handoff_faults` | 1 client, 3 servers, 2 requests, all faults; the two backends are symmetric | `OneHolder`, `CallbackFindsConnection`, `StateNeverRegresses`, refinement of `FlowOwner` |
| `handoff_crash` | 2 clients, 2 servers, abrupt clients, room for one rule | `OneHolder`, refinement, when one client's assertion takes the other client's connection along; `DiesOnlyOfClient` |
| `framing_cuts` | 3 messages, one larger than the buffer, cut in every way | `StreamInSync`, `NoWholeMessageLeft`, `EveryMessageHandled` |
| `applications` | each application with 2 backends, 2 workers, 3 clients, 4 requests, one connection made late, one process stopping, failing writes | `AckedEverywhere`, `ReplicaOrder`, `ReadsNotStale`, `Answered` |
| `http_reading` | 9 requests: the largest that never grows the buffer, one larger than it, then unusual lengths: a name that is the beginning of `Content-Length`, one in lower case, hexadecimal digits, a byte too many, octal digits | `HandlerSeesRequest`, `AbortsOnlyOversized`, `LosesOnlyLarge`, `EveryRequestAnswered` |
| `worker_loop` | 2 connections accepted, 1 imported, 2 at a time, 1 peer, descriptors for just these, SIGINT at any moment, both ways of handling it, the unset pointer of `kvs-repl` | `StopsCleanlyIffIdle`, `FreedIsQuiet`, `LeaksOnlyLocal`, `ExhaustedOnlyByLeaks`, `SignalEndsWorker`, `ConnectionFreed` |

Four runs end in a violation, and each is a place where the code does not do
what its comment or assertion says (`findings` in `PROJECT.json`):

| Run | The code |
|---|---|
| `chown_toggle` | a retried CHOWN locks the flow again |
| `framing_tail` | a message is parsed up to four bytes too early |
| `http_split_header` | a header that arrives in two reads makes a request look oversized |
| `tcp_queues` | the sequence numbers of a connection with queued bytes are restored too high by the queue's length |

Further assertions and comments that do not hold are part of the model and of the runs
above: `http_reading` has a request with `Content-Length: 010` before ten bytes closed as one that "may be
oversized body or pipelining" (`phttp_server.cpp:240`), which `AbortsOnlyOversized` allows for
such lengths only; a client's FIN or RST before the reply to ADD or LOCK ends the server (`after_configure_switch`,
`Die` with "export"), and so does one while its response is written (`phttp_start_close`, `Die`
with "write"); `DiesOnlyOfClient` says that nothing else does. A refused configuration request is
answered, with a wrong checksum, where the comment says it is dropped (`config_prepare_response`).

Bounds: `MaxReq` requests per connection (2 to 4: the first is handed over with
ADD, the second with LOCK, the third repeats that state, the fourth is malformed),
`MaxLink` packets per link when a segment joins it and twice that for replies. In
`handoff_faults` it is 1, so a link holds a segment and a reply behind it, or two
copies of a reply; deeper links are in `handoff_reliable` and `handoff_live`. Configuration requests in flight are bounded by those pending. Three servers
are the shortest chain with a forward; two clients show that a shared table,
link and process keep them apart. `handoff_faults` runs with one client because
flows share only the capacity of the table, the link and the process, and
all three are shared in `handoff_crash`, where there is room for one rule.

In `worker_loop`, `MaxFds` is what `MaxLive` connections need (four each), so that one leak is
enough to exhaust it; a third connection shows the leak of the first. `kvs` is not an instance of its
own: it handles SIGINT as `kvs-repl` does, and a `kvs-repl` backend whose pointer happens to be null is one of `kvs`.
In `http_reading` the requests that come before the unusual ones are announced the usual way and must all be
answered; the last, with octal digits, is handled without two of its bytes or closes the connection. In `applications`,
`Script` gives the methods each client may choose from; between them every branch of every
handler is taken, and two clients of one worker and one of another compete for a key.

CHECK_DEADLOCK is off where the system may stop: after a process died, after a
connection ended, or in an instance all of whose clients are stuck.

Fairness (`FairSpec`): event loops, kernels and links keep working (weak); a segment
that TCP retransmits and a request that the timer repeats get through a rule that is
unlocked, or a network that delivers, again and again (strong). Nothing is assumed of
the client's decisions, of losses or of resets. In `HandoffFraming`,
`HttpRead` and `Applications` the kernel delivers what was sent and the loop runs on. In
`WorkerLoop` the loop keeps turning and the kernel destroys closed sockets in the end (weak), and
a descriptor that is ready again and again, in the poll phases of the loop, gets its
callback (strong: a poll serves all that are ready). Nothing is assumed of clients, of
configuration replies or of SIGINT.

## Proofs

TLAPS checks the following without bounds: for every number of clients, servers, messages,
requests, connections and backends, and every choice of faults the constants allow.

### `Handoff`

- `TypeCorrect`: `Spec => []TypeOK`, for every routing. One lemma per group of actions.
- `OneHolderAlways`: `Spec => []OneHolder`. `OneHolder` covers every place the TCP state
  can be in, sockets and messages, which makes it inductive together
  with `TypeOK`: most steps make neither a socket nor a message (`Shrinks`); an accept
  finds nothing of the flow (`Quiet`), `after_real_close` removes the socket whose state it
  sends, import and forward remove the message they take.
- `CallbacksFindConnections`, `StatesNeverRegress` and the action property `DeathsAreExcused`.
  None of the three is inductive. `ConnInv` joins them by what the code keeps only in the
  order of its callbacks: which socket states go with which phase (`PhaseSocket`: a connection
  that waits for `uv_close` has a closed socket, one that waits for a reply an open one), where
  the numbers of a socket lie between what the client has seen and sent (`Numbers`), that a
  client has one request outstanding, that a message carries it (`MessagesFit`), and that a
  reply is on the link of the server that asked, and a FIN carries the last number
  (`PacketsFit`). With `OneHolder` a socket at one server then says that there is none
  at the others, which is why a late or repeated reply cannot find a connection
  of a later visit of the same flow: the number of the client's request tells them apart.
- `ProtocolImplementsFlowOwner`: `Spec => Owner!Spec`. Under `ConnInv` and `ConnInv'`
  every step is one of `FlowOwner`'s or leaves its variables alone. Most steps change neither
  the holder nor the counters. `after_configure_switch` is the step into transit and
  `on_handoff_import` the one out of it; `after_real_close`, which moves the state from the
  socket to the message, and `on_handoff_forward` stutter; a process that dies drops all it holds.
- `TransitIsLocked` and `RulesFollow`: `LockedInTransit` and `RuleFollowsConnection`, with two hypotheses.
  `TimelyReplies`: a request that is repeated after the switch has executed it is executed twice,
  and the second CHOWN locks the flow again (`chown_toggle` shows it). `VerifyCsum`: the switch's answer to a
  refused ADD is told from a success only by its checksum, so a host that does not check
  would export a connection whose rule does not exist. Everything else is arbitrary: resets, lost
  requests, a full table, processes that die. `RuleInv` adds to `ConnInv` that a flow has one
  configuration request at a time with one copy of it or of its reply under way (`OneCopy`);
  that the rule is what the request needs until the switch executes it, and what it leaves
  afterwards (`RuleFits`), which can be told from the reply on the link (`Done`); and that meanwhile
  no server serves, closes or exports the connection (`Waits`).
- `NoSegmentOrphaned`: `NoOrphanSegment`, and `ProcessesSurvive`: no process ends. A third hypothesis is
  `~AbruptClose`, as in `handoff_reliable`: after a reset, or a FIN while a request is being handed over, the
  export fails its assertion (such deaths happen in `handoff_crash`). `LifeInv` adds to `RuleInv` what a socket says of its client
  (`SocketLives`: while it is established or on its way the client lives, in CLOSE_WAIT the client
  has closed and has all its responses); that the switch sends the segments of a live
  client to a server with an open socket, or nowhere (`LifeFits`); that every request under way is
  waited for (`Calm`); and that no segment of a flow is behind the reply that stopped it
  (`LinkOrder`). The last is why the export may destroy the socket: when the reply is received the
  link holds nothing of the flow any more. That CHOWN sends the flow to a server with a socket
  follows from the order in import2: the socket is made before the request is sent.

### `HandoffFraming` and `HttpRead`

- `StreamStaysInSync`, `NoMessageStuck` and `FramingTypes`: `StreamInSync`, `NoWholeMessageLeft` and
  `TypeOK` for every sequence of messages and all buffer sizes. The inductive
  invariant adds that the cursor is between the buffer's beginning and end and the buffer within
  the stream (`InBuffer`).
- `HttpTypes`: `TypeOK` of `HttpRead`, with `BufferWasSent` (nothing is in the buffer that the client
  has not sent), without any hypothesis.
- `HandlersSeeRequests`, `OnlyLargeAreLost` and `OnlyOversizedAborted`, from `ReadInv`: as long as the
  buffer has not moved under a body it starts with the request that is not answered yet
  (`AtRequest`), in each phase with the parser's pointers where that phase needs them
  (`Orderly`), and with the length that `http_request_determine_body_len` finds (`BodyOf`), whatever
  the headers; otherwise it starts behind what was taken for a request and before its end (`Junk`),
  and when the connection is closed more was sent than that (`Blamed`). It moves only for a request that
  is `Large`. That a length announced the usual way is found as the client meant it is a lemma of its
  own (`PlainIsAnnounced`). Two hypotheses are part
  of the theorems. `~SplitHeader` is the instance of `http_reading`; with split headers the
  properties fail, as `http_split_header` shows. `ShortTails` says that what follows a body of the
  length found, if one is found, is shorter than the header. With more, `phttp_on_read`, called while the response is
  written, skips the length of a header, takes the rest for the body once more and may call the handler a second time. The requests of `http_reading` satisfy both.

### `WorkerLoop`

`WorkerTypes`, `StopsCleanly`, `FreedStaysQuiet`, `OnlyLocalLeaks` and `LeaksExhaust`, from one
inductive invariant, `WorkerInv`. `StageFits` says, for each stage of a connection, which of its
handles and descriptors are open and who may be writing: the order of the close callbacks,
stated once. `WalkClosesAll`, `BusyEnds` and `IdleIsQuiet` say what SIGINT's walk leaves behind:
after the walk of a busy worker something is left, in the same iteration, that must fail an
assertion; after any other walk nothing is, and a connection that was waiting for the kernel still
is when the loop ends. The bound on descriptors needs a count over
all connections, for which the proof takes the theorems on finite sets: without a
leak, the open descriptors are those of at most `MaxLive` connections, four each.

### `Applications`

`AppTypes`, `AcksAreEverywhere`, `ReplicasAgree` and `ReadsAreFresh`, from `AppInv`, for a chain of any
length. `MessagesFit`: a request on a link of the chain has been executed by the backends before
the link and by no other. `OneMessage`: a client waits in one place. `InOrder`: the requests on a link
are in the order in which the sender executed them, and behind those the receiver has. `ExecutedOnce`:
a backend executes a request once. An acknowledgement is sent by the last of the chain, so it
follows from `MessagesFit` at the last link that everyone has executed the operation. That the operation a GET
shows exists, the last one on its key, is the least-number principle (`LeastNumber`, from the
library's `NatLessThanWellFounded`).
These formulas are operators over the values of the variables, because a handler takes a
message, executes it and hands it over in one step, and the proof takes the three apart.

### `TcpRepair`

`EmptyQueuesSurvive`: `Spec => []EmptyQueuesContinue`, for all sequence numbers
modulo any `Wrap` (assumed positive and larger than a queue). The inductive invariant
(`CopiedSoFar`) says, for each step, what has been read and what has been set.

### Assumptions, and what is only model-checked

The proofs use the named assumptions of the modules: `SwitchAssumption`, `HandoffAssumption`,
`FramingAssumption` and `LayoutAssumption` (the messages follow each other without a gap, and their
offsets increase), `HttpReadAssumption`, `WorkerAssumption` and `ApplicationsAssumption`. TLC
evaluates each on the instances. Each inductive invariant was an
invariant of the module's runs before it was proved.

Every safety property of a passing run is a theorem. Only model-checked are the liveness properties:
`RequestAnswered` and `ConnectionReclaimed` of `Handoff`, `EveryMessageHandled`, `EveryRequestAnswered`,
`Answered`, `SignalEndsWorker` and `ConnectionFreed` (fairness and ENABLED are outside this
prover's reach).

## Not modelled

- TLS: handshake and export are calls of a vendored library, and the state is a blob.
- The vendored HTTP parser (taken by its result), profiling, the parsing of arguments and
  configuration files.
- The loader of the switch program and its kernel glue (`prism_switchd.cpp`,
  `vale_bpf_native.c`): input and output, and locking that is the kernel's.
- L2 learning in `vale_lookup`: it decides the port of a frame from its addresses and is
  independent of the rule table; `Handoff` takes a segment's destination instead.
- The first version of the protocol (`phttp_hoproto_{export,import,close,connect}.cpp`,
  `uv_psw_client.cpp`): not built.
- The sizes of values and responses in the stores, crashes of a machine (a stopped process
  keeps what it wrote), and the order in which libuv finishes handles closed together.
- A client that pipelines, or that reuses its port before the old connection has drained.
- In `Handoff`: the assertion behind `getpeername` (`phttp_server.cpp:405-407`), which a client that resets its
  connection before it is accepted makes fail, one more death of a client's making; and the error return of
  `phttp_start_handoff` (`phttp_server.cpp:267-271`), taken only when `uv_udp_send` finds no memory for a datagram.
- In `HttpRead`: header lines that continue the one before (a name of length 0, which matches any), more headers than
  `HTTP_HEADERS_MAX`, and bodies whose bytes would parse as a request of their own.
- The assertion of the `kvs` proxy that a path's hash picks one of the first five backends
  (`ApplicationsAssumption` has no more), and the DELETE of `kvs` that is written without `sync`.

## Plan

1. *Done.* Switch, handoff protocol, `FlowOwner`, framing, reading, TCP export and import; first
   theorems.
2. *Done.* `http_export.cpp` and `membuf_grow`; descriptors, handles and SIGINT (`WorkerLoop`); the
   three applications.
3. *Done.* Proofs: the invariants of `WorkerLoop`, `Applications`, `HttpRead` and `HandoffFraming`;
   `CallbackFindsConnection`, `StateNeverRegresses`, `DiesOnlyOfClient` and the refinement of `FlowOwner`.
4. *Done.* Proofs under `TimelyReplies`: `LockedInTransit`, `RuleFollowsConnection`, `NoOrphanSegment`.
5. Lemmas on `PrismSwitch` alone: which sequences of requests leave a rule as the protocol expects it
   when requests are repeated, that is, what `TimelyReplies` buys.
