----------------------------- MODULE WorkerLoop -----------------------------
(***************************************************************************)
(* The event loop of one worker: the libuv handles and the descriptors of  *)
(* its connections, from accept or import to the release of their memory,  *)
(* and what SIGINT does to them (apps/*/common.h, uv_tcp_monitor.cpp,      *)
(* phttp_hoproto_{export,import,close}2.cpp).                              *)
(*                                                                         *)
(* An iteration of the loop runs the prepare handle, then any number of    *)
(* callbacks, then the close callbacks of the handles closed so far.  A    *)
(* callback is one step.  What libuv does is external: uv_close releases   *)
(* the descriptor at once and the handle at the end of the iteration,      *)
(* cancels unfinished writes, and asserts, like uv_poll_start, that the    *)
(* handle is not closing or closed.                                        *)
(*                                                                         *)
(* Failures of the network are left to modules Handoff and Applications:   *)
(* here a write succeeds unless its handle is closed first.                *)
(***************************************************************************)
EXTENDS Integers, FiniteSets

CONSTANTS
  Accepted,  \* connections of clients to this worker, each used once
  Imported,  \* connections that are handed over to it
  Peers,     \* the servers it hands connections to and gets them from
  Unset,     \* peers whose data pointer is never set: the next server of a
             \* kvs-repl backend (start_connect_to_next_server)
  Apps,      \* "bench" walks the handles in on_sig, "kvs" and "kvs-repl"
             \* set a flag that on_prepare reads
  MaxLive,   \* bound: connections at a time
  MaxFds     \* descriptors for them (RLIMIT_NOFILE less the others)

Conns == Accepted \cup Imported

ASSUME WorkerAssumption ==
  /\ IsFiniteSet(Conns)
  /\ Accepted \cap Imported = {}
  /\ Peers # {}
  /\ Unset \subseteq Peers
  /\ Apps \subseteq {"bench", "kvs", "kvs-repl"}
  /\ MaxLive \in Nat
  /\ MaxFds \in Nat /\ MaxFds >= 4 * MaxLive

\* The handles of a connection (http_client_socket_t), of its configuration
\* request (psw_config_req: a UDP handle and a timer, always closed
\* together), of a peer and of the worker itself.
Tcp(c) == <<"tcp", c>>
Monitor(c) == <<"monitor", c>>
Udp(c) == <<"udp", c>>
Dest(p) == <<"dest", p>>
ConnectTimer(p) == <<"connect_timer", p>>
HandoffClient(p) == <<"hhcs", p>>
Server == <<"hss">>
HandoffServer == <<"hhss">>
Signal == <<"sig">>
Prepare == <<"prepare">>

OfConn(c) == {Tcp(c), Monitor(c), Udp(c)}

OfPeer(p) == {Dest(p), ConnectTimer(p), HandoffClient(p)}

OfWorker == {Server, HandoffServer, Signal, Prepare}

Handles == (UNION {OfConn(c) : c \in Conns})
             \cup (UNION {OfPeer(p) : p \in Peers}) \cup OfWorker

\* The callback a connection waits for.
Stages ==
  {"none",
   "read",         \* phttp_on_read
   "respond",      \* after_send_http_res
   "configure",    \* after_configure_switch, the reply to ADD or LOCK
   "chown",        \* after_change_owner
   "export",       \* after_close of the export
   "leave",        \* after_close or after_close_imported
   "wait_export",  \* after_real_close
   "send",         \* handoff_done
   "wait_close",   \* after_real_close_imported
   "reclaim",      \* after_close_tcp_monitor
   "free"}

VARIABLES
  app,         \* which application this is
  loop,        \* "prepare", "poll" or "done": uv_run has returned
  end,         \* the flag of on_sig
  handle,      \* [Handles -> "none", "open", "closing" or "closed"]
  stage,       \* [Conns -> Stages]
  dest,        \* [Conns -> res.handoff_data]
  writing,     \* connections with an unfinished response
  forwarding,  \* peers with an unfinished forward
  connected,   \* peers that try_connect has reached
  fds,         \* [Conns -> its open descriptors]
  signalled,   \* connections whose eventfd the kernel has written
  abort,       \* the assertion, or the "wild" call, that ended the process,
               \* or "none"
  walked       \* history: no walk of the handles yet, or what the first found

vars == <<app, loop, end, handle, stage, dest, writing, forwarding,
          connected, fds, signalled, abort, walked>>

Descriptors == {"sock", "evfd", "creme_fd", "udp"}

TypeOK ==
  /\ app \in Apps
  /\ loop \in {"prepare", "poll", "done"}
  /\ end \in BOOLEAN
  /\ handle \in [Handles -> {"none", "open", "closing", "closed"}]
  /\ stage \in [Conns -> Stages]
  /\ dest \in [Conns -> Peers]
  /\ writing \subseteq Conns
  /\ forwarding \subseteq Peers
  /\ connected \subseteq Peers
  /\ fds \in [Conns -> SUBSET Descriptors]
  /\ signalled \subseteq Conns
  /\ abort \in {"none", "uv_close", "uv_poll_start", "write", "EMFILE", "wild"}
  /\ walked \in {"no", "idle", "waiting", "busy"}

\* The handles that the applications start with: those of phttp_server_init,
\* phttp_handoff_server_init, start_connect for each peer and of the signal
\* handling.  The peers' connections to the handoff server are there.
BenchHandles == (UNION {OfPeer(p) : p \in Peers}) \cup (OfWorker \ {Prepare})

KvsHandles == (UNION {OfPeer(p) : p \in Peers}) \cup OfWorker

Init ==
  /\ app \in Apps
  /\ loop = "prepare"
  /\ end = FALSE
  /\ handle = [h \in Handles |->
                 IF h \in (IF app = "bench" THEN BenchHandles ELSE KvsHandles)
                 THEN "open" ELSE "none"]
  /\ stage = [c \in Conns |-> "none"]
  /\ dest = [c \in Conns |-> CHOOSE p \in Peers : TRUE]
  /\ writing = {} /\ forwarding = {} /\ connected = {}
  /\ fds = [c \in Conns |-> {}]
  /\ signalled = {}
  /\ abort = "none"
  /\ walked = "no"

-----------------------------------------------------------------------------
(* libuv and the kernel (external).                                        *)

\* A callback of the poll phase may run.
Polling == loop = "poll" /\ abort = "none"

Closing(h) == handle[h] \in {"closing", "closed"}

Open(S) == [h \in Handles |-> IF h \in S THEN "open" ELSE handle[h]]

Close(S) == [h \in Handles |-> IF h \in S THEN "closing" ELSE handle[h]]

\* The connection of c, its eventfd, /dev/creme and the socket of its
\* configuration request count.
Used == Cardinality(UNION {{c} \X fds[c] : c \in Conns})

Room == MaxFds - Used

\* Descriptors the connection still needs, or has.
Live == {c \in Conns : stage[c] \notin {"none", "free"} \/ "udp" \in fds[c]}

\* The kernel has destroyed a closed socket and writes its eventfd (left out
\* when nobody is going to read it).
KernelDestroy(c) ==
  /\ abort = "none" /\ loop # "done"
  /\ \/ stage[c] \in {"export", "wait_export", "wait_close"}
     \/ stage[c] = "leave" /\ c \in Imported
  /\ c \notin signalled
  /\ signalled' = signalled \cup {c}
  /\ UNCHANGED <<app, loop, end, handle, stage, dest, writing,
                 forwarding, connected, fds, abort, walked>>

Abort(reason) ==
  /\ abort' = reason
  /\ UNCHANGED <<app, loop, end, handle, stage, dest, writing,
                 forwarding, connected, fds, signalled, walked>>

-----------------------------------------------------------------------------
(* Connections to the peers.                                               *)

\* try_connect: until the peer listens it is called again every second.
try_connect(p) ==
  /\ Polling
  /\ handle[ConnectTimer(p)] = "open"
  /\ connected' = connected \cup {p}
  /\ handle' = Close({ConnectTimer(p)})
  /\ UNCHANGED <<app, loop, end, stage, dest, writing, forwarding,
                 fds, signalled, abort, walked>>

\* phttp_on_handoff for a request that this worker only passes on.
forward_proto_states(p) ==
  /\ Polling
  /\ p \in connected \ forwarding
  /\ handle[Dest(p)] = "open"
  /\ \E q \in Peers : handle[HandoffClient(q)] = "open"
  /\ forwarding' = forwarding \cup {p}
  /\ UNCHANGED <<app, loop, end, handle, stage, dest, writing,
                 connected, fds, signalled, abort, walked>>

forward_done(p) ==
  /\ Polling
  /\ p \in forwarding
  /\ handle[Dest(p)] = "open"
  /\ forwarding' = forwarding \ {p}
  /\ UNCHANGED <<app, loop, end, handle, stage, dest, writing,
                 connected, fds, signalled, abort, walked>>

-----------------------------------------------------------------------------
(* A connection begins.                                                    *)

\* uv_tcp_monitor_init: an eventfd and a descriptor of /dev/creme.
MonitorFds == {"evfd", "creme_fd"}

\* on_connection.  Without a descriptor for the socket libuv refuses the
\* connection itself; without those for the monitor an assertion fails.
on_connection(c) ==
  /\ Polling
  /\ handle[Server] = "open"
  /\ stage[c] = "none"
  /\ Cardinality(Live) < MaxLive
  /\ Room > 0
  /\ \/ /\ Room < 3
        /\ Abort("EMFILE")
     \/ /\ Room >= 3
        /\ handle' = Open({Tcp(c), Monitor(c)})
        /\ stage' = [stage EXCEPT ![c] = "read"]
        /\ fds' = [fds EXCEPT ![c] = {"sock"} \cup MonitorFds]
        /\ UNCHANGED <<app, loop, end, dest, writing, forwarding,
                       connected, signalled, abort, walked>>

\* phttp_on_handoff for a request that this worker answers: continue_import
\* and start_change_owner.
continue_import(c) ==
  /\ Polling
  /\ \E p \in Peers : handle[HandoffClient(p)] = "open"
  /\ stage[c] = "none"
  /\ Cardinality(Live) < MaxLive
  /\ \/ /\ Room < 4
        /\ Abort("EMFILE")
     \/ /\ Room >= 4
        /\ handle' = Open(OfConn(c))
        /\ stage' = [stage EXCEPT ![c] = "chown"]
        /\ fds' = [fds EXCEPT ![c] = {"sock", "udp"} \cup MonitorFds]
        /\ UNCHANGED <<app, loop, end, dest, writing, forwarding, connected,
                       signalled, abort, walked>>

-----------------------------------------------------------------------------
(* Its requests.                                                           *)

\* A read that was started in this iteration returns in a later one: the
\* configuration request that preceded it has been released by then.
MayRead(c) ==
  /\ Polling
  /\ handle[Tcp(c)] = "open"
  /\ handle[Udp(c)] # "closing"

\* The handler answers, phttp_send_http_res.
on_read_respond(c) ==
  /\ MayRead(c)
  /\ stage[c] = "read"
  /\ stage' = [stage EXCEPT ![c] = "respond"]
  /\ writing' = writing \cup {c}
  /\ UNCHANGED <<app, loop, end, handle, dest, forwarding,
                 connected, fds, signalled, abort, walked>>

after_send_http_res(c) ==
  /\ Polling
  /\ stage[c] = "respond"
  /\ handle[Tcp(c)] = "open"
  /\ stage' = [stage EXCEPT ![c] = "read"]
  /\ writing' = writing \ {c}
  /\ UNCHANGED <<app, loop, end, handle, dest, forwarding,
                 connected, fds, signalled, abort, walked>>

\* The handler returns 600, phttp_start_handoff: the connection goes to a
\* peer that is connected (module Applications has what happens when it is not).
phttp_start_handoff(c, p) ==
  /\ MayRead(c)
  /\ stage[c] = "read"
  /\ p \in connected
  /\ \/ /\ Room = 0
        /\ Abort("EMFILE")
     \/ /\ Room > 0
        /\ handle' = Open({Udp(c)})
        /\ stage' = [stage EXCEPT ![c] = "configure"]
        /\ dest' = [dest EXCEPT ![c] = p]
        /\ fds' = [fds EXCEPT ![c] = @ \cup {"udp"}]
        /\ UNCHANGED <<app, loop, end, writing, forwarding,
                       connected, signalled, abort, walked>>

\* on_recv: the callback of the request, then its handles are closed.
after_configure_switch(c) ==
  /\ Polling
  /\ stage[c] = "configure"
  /\ handle[Udp(c)] = "open"
  /\ handle' = Close({Tcp(c), Udp(c)})
  /\ stage' = [stage EXCEPT ![c] = "export"]
  /\ fds' = [fds EXCEPT ![c] = @ \ {"sock", "udp"}]
  /\ UNCHANGED <<app, loop, end, dest, writing, forwarding,
                 connected, signalled, abort, walked>>

after_change_owner(c) ==
  /\ Polling
  /\ stage[c] = "chown"
  /\ handle[Udp(c)] = "open"
  /\ handle' = Close({Udp(c)})
  /\ stage' = [stage EXCEPT ![c] = "respond"]
  /\ writing' = writing \cup {c}
  /\ fds' = [fds EXCEPT ![c] = @ \ {"udp"}]
  /\ UNCHANGED <<app, loop, end, dest, forwarding, connected,
                 signalled, abort, walked>>

\* on_recv for a DELETE, which has no callback.
delete_done(c) ==
  /\ Polling
  /\ stage[c] \in {"reclaim", "free"}
  /\ handle[Udp(c)] = "open"
  /\ handle' = Close({Udp(c)})
  /\ fds' = [fds EXCEPT ![c] = @ \ {"udp"}]
  /\ UNCHANGED <<app, loop, end, stage, dest, writing, forwarding,
                 connected, signalled, abort, walked>>

-----------------------------------------------------------------------------
(* Its end.                                                                *)

\* The client has closed or reset the connection, or sent nonsense:
\* phttp_start_close.
on_read_close(c) ==
  /\ MayRead(c)
  /\ stage[c] \in {"read", "respond"}
  /\ handle' = Close({Tcp(c)})
  /\ stage' = [stage EXCEPT ![c] = "leave"]
  /\ fds' = [fds EXCEPT ![c] = @ \ {"sock"}]
  /\ UNCHANGED <<app, loop, end, dest, writing, forwarding,
                 connected, signalled, abort, walked>>

\* Mutant: the descriptors stay open.
RealCloseKeepsFds(c) ==
  /\ stage[c] = "wait_close"
  /\ stage' = [stage EXCEPT ![c] = "reclaim"]
  /\ handle' = [Close({Monitor(c)}) EXCEPT ![Udp(c)] = "open"]
  /\ fds' = [fds EXCEPT ![c] = {"evfd", "udp"}]

\* A DELETE is queued and the monitor closed.
after_real_close_imported(c) ==
  /\ stage[c] = "wait_close"
  /\ stage' = [stage EXCEPT ![c] = "reclaim"]
  /\ handle' = [Close({Monitor(c)}) EXCEPT ![Udp(c)] = "open"]
  /\ fds' = [fds EXCEPT ![c] = {"udp"}]

\* The state is written to the peer.
after_real_close(c) ==
  /\ stage[c] = "wait_export"
  /\ stage' = [stage EXCEPT ![c] = "send"]
  /\ fds' = [fds EXCEPT ![c] = @ \ {"creme_fd"}]
  /\ UNCHANGED handle

\* uv_tcp_monitor_on_tcp_close calls what uv_tcp_monitor_wait_close saved.
uv_tcp_monitor_on_tcp_close(c) ==
  /\ Polling
  /\ handle[Monitor(c)] = "open"
  /\ c \in signalled
  /\ after_real_close(c) \/ after_real_close_imported(c)
  /\ UNCHANGED <<app, loop, end, dest, writing, forwarding,
                 connected, signalled, abort, walked>>

\* Mutant: the eventfd stays open.
HandoffKeepsEventfd(c) ==
  /\ Polling
  /\ stage[c] = "send"
  /\ handle[Dest(dest[c])] = "open"
  /\ handle' = Close({Monitor(c)})
  /\ stage' = [stage EXCEPT ![c] = "reclaim"]
  /\ UNCHANGED <<app, loop, end, dest, writing, forwarding,
                 connected, fds, signalled, abort, walked>>

handoff_done(c) ==
  /\ Polling
  /\ stage[c] = "send"
  /\ handle[Dest(dest[c])] = "open"
  /\ handle' = Close({Monitor(c)})
  /\ stage' = [stage EXCEPT ![c] = "reclaim"]
  /\ fds' = [fds EXCEPT ![c] = @ \ {"evfd"}]
  /\ UNCHANGED <<app, loop, end, dest, writing, forwarding,
                 connected, signalled, abort, walked>>

-----------------------------------------------------------------------------
(* The close callbacks, at the end of an iteration.                        *)

Finished == {h \in Handles : handle[h] = "closing"}

\* Mutant: only an export waits.
WaitsOnlyForExport(c) == Tcp(c) \in Finished /\ stage[c] = "export"

\* after_close and after_close_imported wait for the kernel:
\* uv_tcp_monitor_wait_close.
WaitsForKernel(c) ==
  Tcp(c) \in Finished /\ (stage[c] = "export" \/ c \in Imported)

\* after_close of a connection that was accepted here closes the monitor,
\* but not its descriptors.
ClosesMonitor(c) ==
  Tcp(c) \in Finished /\ stage[c] = "leave" /\ c \in Accepted

\* after_close_tcp_monitor: the http_client_socket_t is freed.
FreesConnection(c) == Monitor(c) \in Finished /\ stage[c] = "reclaim"

\* Mutants: the state of the connection is overwritten, or its memory freed,
\* as soon as the client's handle is closed.
StageOverwritten(c) == IF Tcp(c) \in Finished THEN "closed" ELSE stage[c]

FreedAtTcpClose(c) == IF Tcp(c) \in Finished THEN "free" ELSE stage[c]

StageAfterClose(c) ==
  CASE WaitsForKernel(c) /\ stage[c] = "export" -> "wait_export"
    [] WaitsForKernel(c) /\ stage[c] = "leave"  -> "wait_close"
    [] ClosesMonitor(c)                         -> "reclaim"
    [] FreesConnection(c)                       -> "free"
    [] OTHER                                    -> stage[c]

\* A write callback gets UV_ECANCELED and asserts that its status is 0.
CancelsWrite ==
  \/ \E c \in writing : Tcp(c) \in Finished
  \/ \E p \in forwarding : Dest(p) \in Finished
  \/ \E c \in Conns : stage[c] = "send" /\ Dest(dest[c]) \in Finished

uv__run_closing_handles ==
  /\ Polling
  /\ \/ CancelsWrite /\ Abort("write")
     \/ /\ \E c \in Conns : ClosesMonitor(c) /\ Closing(Monitor(c))
        /\ Abort("uv_close")
     \/ /\ \E c \in Conns : WaitsForKernel(c) /\ Closing(Monitor(c))
        /\ Abort("uv_poll_start")
     \/ /\ ~CancelsWrite
        /\ \A c \in Conns : ClosesMonitor(c) \/ WaitsForKernel(c) =>
                              ~Closing(Monitor(c))
        /\ stage' = [c \in Conns |-> StageAfterClose(c)]
        /\ handle' = [h \in Handles |->
                        IF h \in {Monitor(c) : c \in {d \in Conns : ClosesMonitor(d)}}
                        THEN "closing"
                        ELSE IF h \in Finished THEN "closed" ELSE handle[h]]
        /\ loop' = IF \A h \in Handles : handle'[h] \in {"none", "closed"}
                   THEN "done" ELSE "prepare"
        /\ UNCHANGED <<app, end, dest, writing, forwarding,
                       connected, fds, signalled, abort, walked>>

-----------------------------------------------------------------------------
(* SIGINT.                                                                 *)

\* Connections, requests and writes that on_walk cannot close in order.
Busy ==
  \/ forwarding # {}
  \/ \E c \in Conns : \/ handle[Tcp(c)] \in {"open", "closing"}
                      \/ handle[Udp(c)] = "open"
                      \/ stage[c] = "send"

\* A connection whose handle is closed but whose kernel socket is not known to
\* be: of it on_walk finds only the monitor.
Waiting == \E c \in Conns : stage[c] \in {"wait_export", "wait_close"}

\* Mutants: handles that are closing are closed again; connections without an
\* http_socket are left alone.
WalkClosesAgain(h) == handle[h] \in {"open", "closing"}

WalkSkipsPeers(h) == handle[h] = "open" /\ h \notin {Dest(p) : p \in Peers}

\* on_walk closes what is not closing yet.
on_walk(h) == handle[h] = "open"

\* Mutant: no peer's data is cleared.
CallsAnyPeer(closed) == \E p \in Peers : Dest(p) \in closed

\* on_walk takes the data of a TCP handle for an http_socket, if it is not
\* null.  That of an unset peer is whatever malloc found: null, or a wild call.
CallsUnset(closed) ==
  app = "kvs-repl" /\ \E p \in Unset : Dest(p) \in closed

\* uv_walk with on_walk for each handle.  A client's connection is closed by
\* phttp_start_close, a UDP handle is closed twice.
Walk ==
  LET closed == {h \in Handles : on_walk(h)}
  IN  /\ handle' = Close(closed)
      /\ stage' = [c \in Conns |-> IF Tcp(c) \in closed THEN "leave" ELSE stage[c]]
      /\ fds' = [c \in Conns |->
                   fds[c] \ ((IF Tcp(c) \in closed THEN {"sock"} ELSE {})
                             \cup (IF Udp(c) \in closed THEN {"udp"} ELSE {}))]
      /\ \/ abort' = IF \E c \in Conns : Udp(c) \in closed THEN "uv_close" ELSE abort
         \/ CallsUnset(closed) /\ abort' = "wild"
      /\ walked' = CASE walked # "no" -> walked
                     [] walked = "no" /\ Busy -> "busy"
                     [] walked = "no" /\ ~Busy /\ Waiting -> "waiting"
                     [] OTHER -> "idle"

\* bench: on_sig walks.
on_sig_walk ==
  /\ app = "bench"
  /\ Polling
  /\ handle[Signal] = "open"
  /\ Walk
  /\ UNCHANGED <<app, loop, end, dest, writing, forwarding,
                 connected, signalled>>

\* kvs and kvs-repl: on_sig sets the flag, which the threads of a backend share.
on_sig ==
  /\ app # "bench"
  /\ abort = "none" /\ loop # "done"
  /\ ~end
  /\ end' = TRUE
  /\ UNCHANGED <<app, loop, handle, stage, dest, writing,
                 forwarding, connected, fds, signalled, abort, walked>>

\* The beginning of an iteration; without a prepare handle nothing happens.
on_prepare ==
  /\ loop = "prepare" /\ abort = "none"
  /\ loop' = "poll"
  /\ \/ /\ end /\ handle[Prepare] = "open"
        /\ Walk
     \/ /\ ~end \/ handle[Prepare] # "open"
        /\ UNCHANGED <<handle, stage, fds, abort, walked>>
  /\ UNCHANGED <<app, end, dest, writing, forwarding, connected,
                 signalled>>

Next ==
  \/ \E p \in Peers :
       try_connect(p) \/ forward_proto_states(p) \/ forward_done(p)
  \/ \E c \in Accepted : on_connection(c)
  \/ \E c \in Imported : continue_import(c)
  \/ \E c \in Conns :
       \/ on_read_respond(c)
       \/ after_send_http_res(c)
       \/ \E p \in Peers : phttp_start_handoff(c, p)
       \/ after_configure_switch(c)
       \/ after_change_owner(c)
       \/ delete_done(c)
       \/ on_read_close(c)
       \/ uv_tcp_monitor_on_tcp_close(c)
       \/ handoff_done(c)
       \/ KernelDestroy(c)
  \/ uv__run_closing_handles
  \/ on_sig_walk
  \/ on_sig
  \/ on_prepare

Spec == Init /\ [][Next]_vars

\* The loop keeps turning, the kernel destroys closed sockets, and what is
\* ready gets its callback.
FairSpec ==
  /\ Spec
  /\ WF_vars(on_prepare)
  /\ WF_vars(uv__run_closing_handles)
  /\ \A c \in Conns :
       /\ WF_vars(KernelDestroy(c))
       /\ SF_vars(uv_tcp_monitor_on_tcp_close(c))
       /\ SF_vars(handoff_done(c))

-----------------------------------------------------------------------------
(* Properties.                                                             *)

\* SIGINT ends a worker in order, with every connection released, if and only
\* if no client is connected, no configuration request pending and no handoff
\* under way when the handles are walked.  A handoff, or the end of an
\* imported connection, that waits for the kernel then is lost in silence: the
\* loop ends, the state is never sent or the rule never deleted.  Anything
\* else is ended by an assertion of libuv or of a callback, and a kvs-repl
\* backend with a next server may not survive the walk even when it is idle.
StopsCleanlyIffIdle ==
  /\ loop = "done" =>
       \/ walked = "idle" /\ \A c \in Conns : stage[c] \in {"none", "free"}
       \/ walked = "waiting" /\ Waiting
  /\ walked \in {"idle", "waiting"} =>
       \/ abort = "none"
       \/ abort = "wild" /\ app = "kvs-repl" /\ Unset # {}
  /\ abort \in {"uv_close", "uv_poll_start"} => walked = "busy"

\* When the memory of a connection is freed nothing can still call back with
\* it: its handles are closed, its response written, its state sent, and the
\* only request of it that may be pending is the DELETE, which has no
\* callback.
FreedIsQuiet ==
  \A c \in Conns : stage[c] = "free" =>
    /\ handle[Tcp(c)] = "closed"
    /\ handle[Monitor(c)] = "closed"
    /\ c \notin writing
    /\ handle[Udp(c)] = "open" => c \in Imported

\* A connection that was imported, or whose kernel socket was waited for,
\* gives back every descriptor; one that is closed where it was accepted
\* keeps its eventfd and its descriptor of /dev/creme.
LeaksOnlyLocal ==
  \A c \in Conns : stage[c] = "free" =>
    fds[c] \in (IF c \in Imported THEN {{}, {"udp"}} ELSE {{}, MonitorFds})

\* The worker runs out of descriptors only because of those leaks: what its
\* connections need fits.
ExhaustedOnlyByLeaks ==
  abort = "EMFILE" => \E c \in Conns : stage[c] = "free" /\ MonitorFds \subseteq fds[c]

\* Once SIGINT was taken the worker ends, one way or the other.
SignalEndsWorker ==
  end \/ handle[Signal] = "closing" ~> loop = "done" \/ abort # "none"

\* A connection that is closed or handed over is freed, unless the worker
\* is told to stop.
ConnectionFreed ==
  \A c \in Conns :
    stage[c] \in {"export", "leave"} ~>
      stage[c] = "free" \/ walked # "no" \/ abort # "none"

=============================================================================
