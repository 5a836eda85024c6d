------------------------------ MODULE Handoff ------------------------------
(***************************************************************************)
(* The handoff protocol: how the proxy and the backends pass a client's    *)
(* TCP connection to each other, with the switch, the UDP configuration    *)
(* traffic and the client around them.                                     *)
(*                                                                         *)
(*   phttp_server.cpp            accepting, reading, answering             *)
(*   phttp_hoproto_export2.cpp   giving a connection away                  *)
(*   phttp_hoproto_import2.cpp   taking a connection over, forwarding      *)
(*   phttp_hoproto_close2.cpp    closing                                   *)
(*   uv_tcp_monitor.cpp          learning that a kernel socket is gone     *)
(*   prism_switch_client.cpp     configuration requests and their retries  *)
(*   prism_switch.bpf.c          the switch (module PrismSwitch)           *)
(*                                                                         *)
(* Every server is one libuv event loop: a callback is one action.  The    *)
(* requests of a client are numbered 1, 2, ... and a request or response   *)
(* is its number.  The kernel's TCP, the links and the client are external *)
(* and modelled from how the code uses them.                               *)
(***************************************************************************)
EXTENDS PrismSwitch, Sequences

CONSTANTS
  Answer,         \* handler outcome: an ordinary status, at most 500
  Routes,         \* [Servers -> [BOOLEAN -> sets of handler outcomes]]
  MaxReq,         \* bound: requests per connection
  MaxLink,        \* bound: packets on the link from the switch to a server
                  \* when a segment joins it (twice that for a reply)
  BadRequests,    \* numbers of requests the HTTP parser rejects
  AbruptClose,    \* clients may close or reset while awaiting a response
  TimelyReplies,  \* replies are not lost and beat the 100 ms retry timer
  VerifyCsum      \* the receiving host checks UDP checksums

ASSUME HandoffAssumption ==
  /\ Answer \notin Servers
  /\ Routes \in [Servers -> [BOOLEAN -> SUBSET (Servers \cup {Answer})]]
  /\ MaxReq \in Nat
  /\ MaxLink \in Nat
  /\ BadRequests \subseteq Nat
  /\ {AbruptClose, TimelyReplies, VerifyCsum} \subseteq BOOLEAN

VARIABLES
  prism,    \* the switch's rule table
  net,      \* configuration requests on their way to the switch
  pending,  \* configuration requests whose callback has not run (per server)
  link,     \* [Servers -> FIFO of packets from the switch]
  hcs,      \* [Servers -> [Flows -> http_client_socket_t]]
  sock,     \* [Servers -> [Flows -> kernel TCP socket]]
  wire,     \* handoff messages between servers
  client,   \* [Flows -> client side of the connection]
  abort     \* [Servers -> why its process died in an assertion, or "no"]

vars == <<prism, net, pending, link, hcs, sock, wire, client, abort>>

-----------------------------------------------------------------------------
(* Types.                                                                  *)

\* A configuration request.  Each has a UDP socket of its own, so its reply
\* cannot be taken for that of another one; the number of the client request
\* it is made for tells apart the requests of one server for one flow.
Requests == [srv: Servers, flow: Flows, type: RequestTypes, k: Nat]

Replies == [kind: {"reply"}, req: Requests, csum_ok: BOOLEAN]

Segments == [kind: {"data", "fin", "rst"}, flow: Flows, k: Nat]

\* phase is where the connection's chain of callbacks stands.
Phases == {"none",         \* no http_client_socket_t
           "open",         \* uv_read_start, waiting for data
           "responding",   \* as open, and the response is being written
           "configuring",  \* read stopped, waiting for the ADD or LOCK reply
           "exporting",    \* exported, uv_close called
           "monitoring",   \* waiting for the kernel to destroy the socket
           "sending",      \* the handoff message is being written
           "chowning",     \* imported, waiting for the CHOWN reply
           "closing",      \* uv_close called by phttp_start_close
           "closewait"}    \* as monitoring, for a connection being closed

HttpClientSockets ==
  [phase: Phases, imported: BOOLEAN, req: Nat, dest: Servers]

\* est: ESTABLISHED, cw: CLOSE_WAIT, rst: reset by the peer, fin: closed and
\* finishing the FIN exchange, zap: closed in repair mode, gone: destroyed and
\* the monitor's eventfd written.  rcv is the last request received, snd the
\* last response written; both travel in the exported TCP state.
SocketStates == {"none", "est", "cw", "rst", "fin", "zap", "gone"}

KernelSockets == [st: SocketStates, rcv: Nat, snd: Nat]

HandoffMessages == [dst: Servers, flow: Flows, req: Nat, rcv: Nat, snd: Nat]

Clients == [st: {"closed", "open", "fin"}, req: Nat, resp: Nat]

TypeOK ==
  /\ prism \in RuleTables
  /\ net \subseteq Requests
  /\ pending \subseteq Requests
  /\ link \in [Servers -> Seq(Replies \cup Segments)]
  /\ hcs \in [Servers -> [Flows -> HttpClientSockets]]
  /\ sock \in [Servers -> [Flows -> KernelSockets]]
  /\ wire \subseteq HandoffMessages
  /\ client \in [Flows -> Clients]
  /\ abort \in [Servers -> {"no", "export", "write", "handoff"}]

NoHcs == [phase |-> "none", imported |-> FALSE, req |-> 0, dest |-> Front]

NoSock == [st |-> "none", rcv |-> 0, snd |-> 0]

NoClient == [st |-> "closed", req |-> 0, resp |-> 0]

Init ==
  /\ prism = EmptyTable
  /\ net = {}
  /\ pending = {}
  /\ link = [s \in Servers |-> <<>>]
  /\ hcs = [s \in Servers |-> [f \in Flows |-> NoHcs]]
  /\ sock = [s \in Servers |-> [f \in Flows |-> NoSock]]
  /\ wire = {}
  /\ client = [f \in Flows |-> NoClient]
  /\ abort = [s \in Servers |-> "no"]

-----------------------------------------------------------------------------
(* Helpers.                                                                *)

Up(s) == abort[s] = "no"

\* A failed assertion ends the whole process: all its sockets, connections
\* and configuration requests are gone.
Die(s, why) ==
  /\ abort' = [abort EXCEPT ![s] = why]
  /\ hcs' = [hcs EXCEPT ![s] = [f \in Flows |-> NoHcs]]
  /\ sock' = [sock EXCEPT ![s] = [f \in Flows |-> NoSock]]
  /\ pending' = {r \in pending : r.srv # s}

SetPhase(s, f, ph) == hcs' = [hcs EXCEPT ![s][f] = [@ EXCEPT !.phase = ph]]

SetSocket(s, f, st) == sock' = [sock EXCEPT ![s][f] = [@ EXCEPT !.st = st]]

\* prism_switch_client_queue_task: a fresh UDP socket, the first copy of the
\* request, and the retry timer (the request stays in pending until on_recv).
prism_switch_client_queue_task(s, f, type, k) ==
  LET r == [srv |-> s, flow |-> f, type |-> type, k |-> k]
  IN  /\ pending' = pending \cup {r}
      /\ net' = net \cup {r}

Room(s, bound) == Len(link[s]) < bound

\* The switch forwards a segment of the client to the owner of the flow.
Forward(f, seg) ==
  LET s == prism_in_lookup(prism, f)
  IN  /\ ~Locked(prism, f)
      /\ Room(s, MaxLink)
      /\ link' = [link EXCEPT ![s] = Append(@, seg)]

HeadIs(s, kinds) == link[s] # <<>> /\ Head(link[s]).kind \in kinds

PopLink(s) == link' = [link EXCEPT ![s] = Tail(@)]

Later(j, k) == IF j > k THEN j ELSE k

\* Nothing of the flow's last connection is left anywhere.
Quiet(f) ==
  /\ f \notin DOMAIN prism
  /\ \A r \in net \cup pending : r.flow # f
  /\ \A s \in Servers :
       /\ hcs[s][f].phase = "none"
       /\ sock[s][f].st = "none"
       /\ \A i \in 1..Len(link[s]) :
            IF link[s][i].kind = "reply" THEN link[s][i].req.flow # f
                                         ELSE link[s][i].flow # f
  /\ \A m \in wire : m.flow # f

-----------------------------------------------------------------------------
(* The client, its TCP and the switch's data path (external).              *)

\* A client connects to Front, which accepts (on_connection).  It does not
\* reuse its port before everything of the earlier connection has drained:
\* the TIME_WAIT interval is far longer than the configuration traffic.
on_connection(f) ==
  /\ client[f].st = "closed"
  /\ Quiet(f)
  /\ Up(Front)
  /\ client' = [client EXCEPT ![f] = [NoClient EXCEPT !.st = "open"]]
  /\ sock' = [sock EXCEPT ![Front][f] = [NoSock EXCEPT !.st = "est"]]
  /\ hcs' = [hcs EXCEPT ![Front][f] = [NoHcs EXCEPT !.phase = "open"]]
  /\ UNCHANGED <<prism, net, pending, link, wire, abort>>

\* The next request, sent once the previous one is answered.
ClientRequest(f) ==
  /\ client[f].st = "open"
  /\ client[f].resp = client[f].req
  /\ client[f].req < MaxReq
  /\ client' = [client EXCEPT ![f].req = @ + 1]
  /\ UNCHANGED <<prism, net, pending, link, hcs, sock, wire, abort>>

ClientClose(f) ==
  /\ client[f].st = "open"
  /\ AbruptClose \/ client[f].resp = client[f].req
  /\ client' = [client EXCEPT ![f].st = "fin"]
  /\ UNCHANGED <<prism, net, pending, link, hcs, sock, wire, abort>>

\* A reset is sent once; a locked rule swallows it.
ClientReset(f) ==
  /\ AbruptClose
  /\ client[f].st \in {"open", "fin"}
  /\ client' = [client EXCEPT ![f].st = "closed"]
  /\ \/ Forward(f, [kind |-> "rst", flow |-> f, k |-> 0])
     \/ Locked(prism, f) /\ UNCHANGED link
  /\ UNCHANGED <<prism, net, pending, hcs, sock, wire, abort>>

\* The client's TCP sends its last request, or its FIN, as often as it likes.
\* While the rule is locked the switch drops it: a stuttering step.
ClientSegment(f) ==
  /\ client[f].st \in {"open", "fin"}
  /\ client[f].req > 0 \/ client[f].st = "fin"
  /\ Forward(f, [kind |-> IF client[f].st = "fin" THEN "fin" ELSE "data",
                 flow |-> f, k |-> client[f].req])
  /\ UNCHANGED <<prism, net, pending, hcs, sock, wire, client, abort>>

\* The host of server s receives a segment.  Without a socket its kernel
\* answers with a reset, which the switch drops while the rule is locked.
DeliverSegment(s) ==
  /\ HeadIs(s, {"data", "fin", "rst"})
  /\ LET seg == Head(link[s])
         f   == seg.flow
         live == sock[s][f].st \in {"est", "cw"}
     IN  \/ /\ live /\ seg.kind = "data"
            /\ sock' = [sock EXCEPT ![s][f] =
                          [@ EXCEPT !.rcv = Later(seg.k, sock[s][f].rcv)]]
            /\ UNCHANGED client
         \/ /\ live /\ seg.kind = "fin"
            /\ sock' = [sock EXCEPT ![s][f] =
                          [@ EXCEPT !.st = "cw", !.rcv = seg.k]]
            /\ client' = [client EXCEPT ![f].st = "closed"]
         \/ /\ live /\ seg.kind = "rst"
            /\ SetSocket(s, f, "rst")
            /\ UNCHANGED client
         \/ /\ ~live
            /\ client' = IF seg.kind # "rst" /\ prism_out_lookup(prism, s, f)
                         THEN [client EXCEPT ![f].st = "closed"]
                         ELSE client
            /\ UNCHANGED sock
  /\ PopLink(s)
  /\ UNCHANGED <<prism, net, pending, hcs, wire, abort>>

\* The kernel sends the written response until the client has it.  A host
\* whose client is gone answers with a reset.
ServerSegment(s, f) ==
  /\ sock[s][f].st \in {"est", "cw"}
  /\ sock[s][f].snd > client[f].resp
  /\ prism_out_lookup(prism, s, f)
  /\ IF client[f].st = "closed"
     THEN /\ Forward(f, [kind |-> "rst", flow |-> f, k |-> 0])
          /\ UNCHANGED client
     ELSE /\ client' = [client EXCEPT ![f].resp = sock[s][f].snd]
          /\ UNCHANGED link
  /\ UNCHANGED <<prism, net, pending, hcs, sock, wire, abort>>

\* The kernel destroys a closed socket and writes the eventfd of its monitor
\* (nobody polls the monitor of a connection that was accepted here and then
\* closed).  A socket closed normally has exchanged FINs with the client.
KernelDestroy(s, f) ==
  /\ sock[s][f].st \in {"zap", "fin"}
  /\ IF sock[s][f].st = "zap" \/ hcs[s][f].imported
     THEN SetSocket(s, f, "gone")
     ELSE sock' = [sock EXCEPT ![s][f] = NoSock]
  /\ client' = IF sock[s][f].st = "fin" /\ prism_out_lookup(prism, s, f)
               THEN [client EXCEPT ![f].st = "closed"]
               ELSE client
  /\ UNCHANGED <<prism, net, pending, link, hcs, wire, abort>>

-----------------------------------------------------------------------------
(* Configuration traffic: prism_switch_client.cpp and the switch.          *)

\* The switch handles a request and sends the reply out of the port it came
\* in by, behind the segments already forwarded to that server.
SwitchConfig(r) ==
  /\ r \in net
  /\ Room(r.srv, 2 * MaxLink)
  /\ LET result == configure_switch(prism, r)
     IN  /\ prism' = result.table
         /\ link' = [link EXCEPT ![r.srv] =
                       Append(@, config_prepare_response(r, result.error))]
  /\ net' = net \ {r}
  /\ UNCHANGED <<pending, hcs, sock, wire, client, abort>>

LoseRequest(r) ==
  /\ r \in net
  /\ net' = net \ {r}
  /\ UNCHANGED <<prism, pending, link, hcs, sock, wire, client, abort>>

LoseReply(s) ==
  /\ ~TimelyReplies
  /\ HeadIs(s, {"reply"})
  /\ PopLink(s)
  /\ UNCHANGED <<prism, net, pending, hcs, sock, wire, client, abort>>

\* Whether the kernel hands the reply to the UDP socket of its request.
Received(reply) ==
  /\ reply.csum_ok \/ ~VerifyCsum
  /\ reply.req \in pending

\* A reply is not received: its checksum is wrong or its socket is closed.
DropReply(s) ==
  /\ HeadIs(s, {"reply"})
  /\ ~Received(Head(link[s]))
  /\ PopLink(s)
  /\ UNCHANGED <<prism, net, pending, hcs, sock, wire, client, abort>>

\* Mutant: the timer is stopped as soon as the request is sent.
RetryNever(r) ==
  /\ r \in pending \cap net
  /\ UNCHANGED vars

\* The retry timer.  It repeats for as long as no reply is received.
retry_send(r) ==
  /\ r \in pending \ net
  /\ TimelyReplies =>
       \A i \in 1..Len(link[r.srv]) :
          link[r.srv][i].kind = "reply" => link[r.srv][i].req # r
  /\ net' = net \cup {r}
  /\ UNCHANGED <<prism, pending, link, hcs, sock, wire, client, abort>>

\* on_recv: the reply to a request of one of the types is received.  The
\* callback of the request is the rest of the action.
on_recv(s, types) ==
  /\ HeadIs(s, {"reply"})
  /\ Received(Head(link[s]))
  /\ Head(link[s]).req.type \in types
  /\ PopLink(s)

\* The reply to a DELETE, which has no callback.
after_delete(s) ==
  /\ on_recv(s, {"DELETE"})
  /\ pending' = pending \ {Head(link[s]).req}
  /\ UNCHANGED <<prism, net, hcs, sock, wire, client, abort>>

-----------------------------------------------------------------------------
(* Reading, answering and closing: phttp_server.cpp, phttp_hoproto_close2. *)

\* uv_close in phttp_start_close.  A response still being written is
\* cancelled, and its callback asserts that it was not.
phttp_start_close(s, f) ==
  IF hcs[s][f].phase = "responding"
  THEN Die(s, "write")
  ELSE /\ SetPhase(s, f, "closing")
       /\ SetSocket(s, f, "fin")
       /\ UNCHANGED <<pending, abort>>

\* End of file or a read error.
on_read_eof(s, f) ==
  /\ hcs[s][f].phase \in {"open", "responding"}
  /\ sock[s][f].st \in {"cw", "rst"}
  /\ sock[s][f].rcv = hcs[s][f].req
  /\ phttp_start_close(s, f)
  /\ UNCHANGED <<prism, net, link, wire, client>>

\* A whole request has been read (its parsing is module HttpRead).
Readable(s, f) ==
  /\ hcs[s][f].phase = "open"
  /\ sock[s][f].st \in {"est", "cw", "rst"}
  /\ sock[s][f].rcv > hcs[s][f].req

\* The parser rejects the request.
on_read_bad(s, f) ==
  /\ Readable(s, f)
  /\ sock[s][f].rcv \in BadRequests
  /\ phttp_start_close(s, f)
  /\ UNCHANGED <<prism, net, link, wire, client>>

\* The handler returns an ordinary status: the response is written.
on_read_answer(s, f) ==
  /\ Readable(s, f)
  /\ sock[s][f].rcv \notin BadRequests
  /\ Answer \in Routes[s][FALSE]
  /\ hcs' = [hcs EXCEPT ![s][f] =
               [@ EXCEPT !.req = sock[s][f].rcv, !.phase = "responding"]]
  /\ UNCHANGED <<prism, net, pending, link, sock, wire, client, abort>>

\* Mutant: uv_read_stop is forgotten.
HandoffKeepsReading(s, f, d) ==
  /\ Readable(s, f)
  /\ sock[s][f].rcv \notin BadRequests
  /\ d \in Routes[s][FALSE] \cap Servers
  /\ hcs' = [hcs EXCEPT ![s][f] = [@ EXCEPT !.req = sock[s][f].rcv, !.dest = d]]
  /\ prism_switch_client_queue_task(s, f,
       IF hcs[s][f].imported THEN "LOCK" ELSE "ADD", sock[s][f].rcv)
  /\ UNCHANGED <<prism, link, sock, wire, client, abort>>

\* The handler returns 600: phttp_start_handoff stops reading and asks the
\* switch to stop the flow, by a locked rule or by locking the one there is.
on_read_handoff(s, f, d) ==
  /\ Readable(s, f)
  /\ sock[s][f].rcv \notin BadRequests
  /\ d \in Routes[s][FALSE] \cap Servers
  /\ hcs' = [hcs EXCEPT ![s][f] =
               [@ EXCEPT !.req = sock[s][f].rcv, !.dest = d,
                         !.phase = "configuring"]]
  /\ prism_switch_client_queue_task(s, f,
       IF hcs[s][f].imported THEN "LOCK" ELSE "ADD", sock[s][f].rcv)
  /\ UNCHANGED <<prism, link, sock, wire, client, abort>>

\* The whole response is in the kernel, or the write failed on a reset
\* connection and the callback's assertion with it.
after_send_http_res(s, f) ==
  /\ hcs[s][f].phase = "responding"
  /\ IF sock[s][f].st = "rst"
     THEN Die(s, "write")
     ELSE /\ SetPhase(s, f, "open")
          /\ sock' = [sock EXCEPT ![s][f] = [@ EXCEPT !.snd = hcs[s][f].req]]
          /\ UNCHANGED <<pending, abort>>
  /\ UNCHANGED <<prism, net, link, wire, client>>

\* Close callbacks.  A connection accepted here is forgotten at once; for an
\* imported one the rule is deleted after the kernel has destroyed the socket.
after_close_local(s, f) ==
  /\ hcs[s][f].phase = "closing"
  /\ ~hcs[s][f].imported
  /\ hcs' = [hcs EXCEPT ![s][f] = NoHcs]
  /\ UNCHANGED <<prism, net, pending, link, sock, wire, client, abort>>

\* Mutant: the rule is deleted without waiting for the kernel.
DeleteAtClose(s, f) ==
  /\ hcs[s][f].phase = "closing"
  /\ hcs[s][f].imported
  /\ SetPhase(s, f, "closewait")
  /\ prism_switch_client_queue_task(s, f, "DELETE", hcs[s][f].req)
  /\ UNCHANGED <<prism, link, sock, wire, client, abort>>

after_close_imported(s, f) ==
  /\ hcs[s][f].phase = "closing"
  /\ hcs[s][f].imported
  /\ SetPhase(s, f, "closewait")
  /\ UNCHANGED <<prism, net, pending, link, sock, wire, client, abort>>

\* Mutant: the DELETE request is forgotten.
RealCloseKeepsRule(s, f) ==
  /\ hcs[s][f].phase = "closewait"
  /\ sock[s][f].st = "gone"
  /\ hcs' = [hcs EXCEPT ![s][f] = NoHcs]
  /\ sock' = [sock EXCEPT ![s][f] = NoSock]
  /\ UNCHANGED <<prism, net, pending, link, wire, client, abort>>

after_real_close_imported(s, f) ==
  /\ hcs[s][f].phase = "closewait"
  /\ sock[s][f].st = "gone"
  /\ hcs' = [hcs EXCEPT ![s][f] = NoHcs]
  /\ sock' = [sock EXCEPT ![s][f] = NoSock]
  /\ prism_switch_client_queue_task(s, f, "DELETE", hcs[s][f].req)
  /\ UNCHANGED <<prism, link, wire, client, abort>>

-----------------------------------------------------------------------------
(* Giving a connection away: phttp_hoproto_export2.cpp.                    *)

tcp_is_established(s, f) == sock[s][f].st = "est"

\* The flow is stopped: export the protocol states and close the socket,
\* which the export left in repair mode.  Only an ESTABLISHED socket can be
\* exported; for another one the assertion on the export fails.
after_configure_switch(s) ==
  /\ on_recv(s, {"ADD", "LOCK"})
  /\ LET r == Head(link[s]).req
     IN  IF tcp_is_established(s, r.flow)
         THEN /\ SetPhase(s, r.flow, "exporting")
              /\ SetSocket(s, r.flow, "zap")
              /\ pending' = pending \ {r}
              /\ UNCHANGED abort
         ELSE Die(s, "export")
  /\ UNCHANGED <<prism, net, wire, client>>

\* Mutant: the states are sent when libuv has closed its handle.
SendBeforeRealClose(s, f) ==
  /\ hcs[s][f].phase = "exporting"
  /\ wire' = wire \cup {[dst |-> hcs[s][f].dest, flow |-> f,
                         req |-> hcs[s][f].req,
                         rcv |-> sock[s][f].rcv, snd |-> sock[s][f].snd]}
  /\ SetPhase(s, f, "sending")
  /\ UNCHANGED <<prism, net, pending, link, sock, client, abort>>

after_close(s, f) ==
  /\ hcs[s][f].phase = "exporting"
  /\ SetPhase(s, f, "monitoring")
  /\ UNCHANGED <<prism, net, pending, link, sock, wire, client, abort>>

\* The kernel socket is gone: send the exported states to the destination.
after_real_close(s, f) ==
  /\ hcs[s][f].phase = "monitoring"
  /\ sock[s][f].st = "gone"
  /\ wire' = wire \cup {[dst |-> hcs[s][f].dest, flow |-> f,
                         req |-> hcs[s][f].req,
                         rcv |-> sock[s][f].rcv, snd |-> sock[s][f].snd]}
  /\ SetPhase(s, f, "sending")
  /\ sock' = [sock EXCEPT ![s][f] = NoSock]
  /\ UNCHANGED <<prism, net, pending, link, client, abort>>

handoff_done(s, f) ==
  /\ hcs[s][f].phase = "sending"
  /\ \/ /\ hcs' = [hcs EXCEPT ![s][f] = NoHcs]
        /\ UNCHANGED <<sock, pending, abort>>
     \/ ~Up(hcs[s][f].dest) /\ Die(s, "handoff")
  /\ UNCHANGED <<prism, net, link, wire, client>>

-----------------------------------------------------------------------------
(* Taking a connection over: phttp_hoproto_import2.cpp.  libuv runs the    *)
(* callback of a finished write before it polls for input again, so        *)
(* handoff_done has run when the same flow comes back.                     *)

HandoffReady(m) ==
  /\ m \in wire
  /\ Up(m.dst)
  /\ hcs[m.dst][m.flow].phase # "sending"

\* A socket that goes on where the exported one stopped (tcp_import).
continue_import(m) == [st |-> "est", rcv |-> m.rcv, snd |-> m.snd]

\* Ask the switch to send the flow here and to unlock it.
start_change_owner(s, f, k) == prism_switch_client_queue_task(s, f, "CHOWN", k)

\* Mutant: the sequence numbers of the send queue are not restored.
ImportFreshSendQueue(m) ==
  /\ HandoffReady(m)
  /\ Answer \in Routes[m.dst][TRUE]
  /\ wire' = wire \ {m}
  /\ sock' = [sock EXCEPT ![m.dst][m.flow] =
                [st |-> "est", rcv |-> m.rcv, snd |-> 0]]
  /\ hcs' = [hcs EXCEPT ![m.dst][m.flow] =
               [phase |-> "chowning", imported |-> TRUE,
                req |-> m.req, dest |-> Front]]
  /\ start_change_owner(m.dst, m.flow, m.req)
  /\ UNCHANGED <<prism, link, client, abort>>

\* Mutant: the message is not consumed from the buffer.
ImportKeepsMessage(m) ==
  /\ HandoffReady(m)
  /\ Answer \in Routes[m.dst][TRUE]
  /\ sock' = [sock EXCEPT ![m.dst][m.flow] = continue_import(m)]
  /\ hcs' = [hcs EXCEPT ![m.dst][m.flow] =
               [phase |-> "chowning", imported |-> TRUE,
                req |-> m.req, dest |-> Front]]
  /\ start_change_owner(m.dst, m.flow, m.req)
  /\ UNCHANGED <<prism, link, wire, client, abort>>

\* The handler answers: import the connection and change the flow's owner.
on_handoff_import(m) ==
  LET s == m.dst
      f == m.flow
  IN  /\ HandoffReady(m)
      /\ Answer \in Routes[s][TRUE]
      /\ wire' = wire \ {m}
      /\ sock' = [sock EXCEPT ![s][f] = continue_import(m)]
      /\ hcs' = [hcs EXCEPT ![s][f] =
                   [phase |-> "chowning", imported |-> TRUE,
                    req |-> m.req, dest |-> Front]]
      /\ start_change_owner(s, f, m.req)
      /\ UNCHANGED <<prism, link, client, abort>>

\* The handler returns 600 again: pass the states on as they are.  A write
\* to a server that died fails, and so does the assertion in forward_done.
on_handoff_forward(m, d) ==
  /\ HandoffReady(m)
  /\ d \in Routes[m.dst][TRUE] \cap Servers
  /\ \/ /\ wire' = (wire \ {m}) \cup {[m EXCEPT !.dst = d]}
        /\ UNCHANGED <<hcs, sock, pending, abort>>
     \/ /\ ~Up(d)
        /\ wire' = wire \ {m}
        /\ Die(m.dst, "handoff")
  /\ UNCHANGED <<prism, net, link, client>>

\* The flow comes here now: start reading and write the response.
after_change_owner(s) ==
  /\ on_recv(s, {"CHOWN"})
  /\ SetPhase(s, Head(link[s]).req.flow, "responding")
  /\ pending' = pending \ {Head(link[s]).req}
  /\ UNCHANGED <<prism, net, sock, wire, client, abort>>

-----------------------------------------------------------------------------
ClientStep(f) ==
  \/ on_connection(f)
  \/ ClientRequest(f)
  \/ ClientClose(f)
  \/ ClientReset(f)
  \/ ClientSegment(f)

\* The callbacks of libuv for one connection.
Callback(s, f) ==
  \/ on_read_eof(s, f)
  \/ on_read_bad(s, f)
  \/ on_read_answer(s, f)
  \/ \E d \in Servers : on_read_handoff(s, f, d)
  \/ after_send_http_res(s, f)
  \/ after_close_local(s, f)
  \/ after_close_imported(s, f)
  \/ after_real_close_imported(s, f)
  \/ after_close(s, f)
  \/ after_real_close(s, f)
  \/ handoff_done(s, f)

\* What the head of a link does when it reaches the host.
Arrival(s) ==
  \/ DeliverSegment(s)
  \/ DropReply(s)
  \/ after_delete(s)
  \/ after_configure_switch(s)
  \/ after_change_owner(s)

MessageStep(m) ==
  \/ on_handoff_import(m)
  \/ \E d \in Servers : on_handoff_forward(m, d)

Next ==
  \/ \E f \in Flows : ClientStep(f)
  \/ \E s \in Servers, f \in Flows :
       ServerSegment(s, f) \/ KernelDestroy(s, f) \/ Callback(s, f)
  \/ \E s \in Servers : Arrival(s) \/ LoseReply(s)
  \/ \E r \in net : SwitchConfig(r) \/ LoseRequest(r)
  \/ \E r \in pending : retry_send(r)
  \/ \E m \in wire : MessageStep(m)

Spec == Init /\ [][Next]_vars

(***************************************************************************)
(* Fairness.  Event loops, kernels and links keep working.  TCP repeats an *)
(* unacknowledged segment and the retry timer a request, so a segment gets *)
(* through a rule that is unlocked again and again, and a request through  *)
(* a network that loses some of its copies (strong fairness).  Nothing is  *)
(* assumed of the client's own decisions, of losses or of resets.          *)
(***************************************************************************)
Fairness ==
  /\ \A f \in Flows : SF_vars(ClientSegment(f))
  /\ \A f \in Flows : WF_vars(\E m \in wire : m.flow = f /\ MessageStep(m))
  /\ \A s \in Servers : WF_vars(Arrival(s))
  /\ \A s \in Servers, f \in Flows :
       /\ WF_vars(ServerSegment(s, f))
       /\ WF_vars(KernelDestroy(s, f))
       /\ WF_vars(Callback(s, f))
       /\ WF_vars(\E r \in pending : r.srv = s /\ r.flow = f /\ retry_send(r))
       /\ SF_vars(\E r \in net : r.srv = s /\ r.flow = f /\ SwitchConfig(r))

FairSpec == Spec /\ Fairness

-----------------------------------------------------------------------------
(* Properties.                                                             *)

\* The servers whose process can read from and write to the connection.
Holders(f) == {s \in Servers : sock[s][f].st \in {"est", "cw", "rst"}}

\* The connection's state is on its way from one server to another.
InTransit(f) ==
  \/ \E s \in Servers : hcs[s][f].phase \in {"exporting", "monitoring"}
  \/ \E m \in wire : m.flow = f

\* The connection's state is in one place at most: in one server's socket
\* (from accept or import until the kernel has destroyed it) or in one
\* handoff message.  This is what waiting for the real close before sending
\* the exported state is for (after_close, after_real_close).
OneHolder ==
  \A f \in Flows :
    /\ \A s, t \in Servers :
         sock[s][f].st # "none" /\ sock[t][f].st # "none" => s = t
    /\ \A m \in wire : m.flow = f =>
         /\ \A s \in Servers : sock[s][f].st = "none"
         /\ \A n \in wire : n.flow = f => n = m

\* A segment of a live client never reaches, and is never on its way to, a
\* host that has no socket for it: that host's kernel would reset the client.
\* Rests on the lock, on the order of the link and on when the owner changes.
NoOrphanSegment ==
  \A s \in Servers : \A i \in 1..Len(link[s]) :
    LET p == link[s][i]
    IN  p.kind \in {"data", "fin"} /\ client[p.flow].st # "closed" =>
          sock[s][p.flow].st \in {"est", "cw", "fin"}

\* From the export until the new owner's CHOWN the rule is locked, so that
\* no segment of the flow goes anywhere while no server holds its socket.
LockedInTransit ==
  \A f \in Flows :
    InTransit(f) => Locked(prism, f)

\* The server that serves or closes an imported connection owns an unlocked
\* rule; a closing one keeps it until the FIN exchange is over and the kernel
\* socket destroyed (after_real_close_imported).  A connection still at the
\* server that accepted it has no rule.
RuleFollowsConnection ==
  \A s \in Servers, f \in Flows :
    hcs[s][f].phase \in {"open", "responding", "closing", "closewait"} =>
      IF hcs[s][f].imported
      THEN f \in DOMAIN prism /\ prism[f] = [owner |-> s, locked |-> 0]
      ELSE f \notin DOMAIN prism

\* A configuration reply never finds the connection its callback was given
\* freed or in another phase: the callback dereferences it without a check.
CallbackFindsConnection ==
  \A r \in pending :
    LET c == hcs[r.srv][r.flow]
    IN  /\ r.type \in {"ADD", "LOCK"} =>
             c.phase = "configuring" /\ c.req = r.k
                /\ c.imported = (r.type = "LOCK")
        /\ r.type = "CHOWN" =>
             c.phase = "chowning" /\ c.req = r.k /\ c.imported

\* Wherever the TCP state is, in a socket or in a handoff message, it is no
\* older than what the client has seen and no newer than what it has sent:
\* importing stale sequence numbers would desynchronise the connection.
StateNeverRegresses ==
  \A f \in Flows : client[f].st # "closed" =>
    /\ \A s \in Servers : sock[s][f].st \notin {"none", "fin"} =>
         /\ client[f].resp <= sock[s][f].snd
         /\ sock[s][f].snd <= sock[s][f].rcv
         /\ sock[s][f].rcv <= client[f].req
    /\ \A m \in wire : m.flow = f =>
         client[f].resp <= m.snd /\ m.snd < m.rcv /\ m.rcv = client[f].req

\* The abstract view of the protocol: a connection is held by the
\* server with an open socket for it, and is in transit from the export on
\* until the import.
Owner == INSTANCE FlowOwner WITH
  holder  <- [f \in Flows |-> Holders(f)],
  transit <- [f \in Flows |-> InTransit(f)],
  req     <- [f \in Flows |-> client[f].req],
  resp    <- [f \in Flows |-> client[f].resp]

\* One server at a time holds a connection and answers its requests, once
\* each and in order, whatever happens to the configuration traffic, to the
\* clients and to the servers (export2, import2 and close2 together).
ImplementsFlowOwner == Owner!Spec

\* Every request that the parser accepts is answered, however many
\* configuration requests are lost.
RequestAnswered ==
  \A f \in Flows, k \in (1..MaxReq) \ BadRequests :
    client[f].st = "open" /\ client[f].req = k ~> client[f].resp = k

\* After the client has closed, the connection, the rule and the requests of
\* the flow all disappear (hs.close, after_real_close_imported).
ConnectionReclaimed ==
  \A f \in Flows : client[f].st = "fin" ~> Quiet(f)

\* "unlock the rule" (start_change_owner): once the reply to its CHOWN has
\* arrived, the flow of an imported connection is not locked until the
\* server itself starts the next handoff.
ChownUnlocks ==
  \A s \in Servers, f \in Flows :
    hcs[s][f].imported /\ hcs[s][f].phase \in {"open", "responding"} =>
      ~Locked(prism, f)

\* A server dies in an assertion only after a client has left it, by a FIN or
\* a reset that overtook the export or the response, or after another server
\* has died: nothing else, no lost or refused request and no full table, ends
\* a process (the assertions of export2.cpp, import2.cpp, after_send_http_res).
DiesOnlyOfClient ==
  [][\A s \in Servers : Up(s) /\ ~Up(s)' =>
       \/ \E f \in Flows : sock[s][f].st \in {"cw", "rst"}
       \/ \E t \in Servers : ~Up(t)]_vars

=============================================================================
