--------------------------- MODULE HandoffProofs ---------------------------
(***************************************************************************)
(* Proofs about Handoff for every set of flows and servers, every handler  *)
(* (Routes) and every behaviour of the network and of the clients.         *)
(***************************************************************************)
EXTENDS Handoff, TLAPS

-----------------------------------------------------------------------------
(* The switch.                                                             *)

\* An update with a rule keeps the table a table.
LEMMA UpdateTable ==
  ASSUME NEW T \in RuleTables, NEW f \in Flows, NEW v \in Rules
  PROVE  Update(T, f, v) \in RuleTables
<1>1. PICK D \in SUBSET Flows : T \in [D -> Rules]
  BY DEF RuleTables
<1>2. Update(T, f, v) \in [D \cup {f} -> Rules]
  BY <1>1 DEF Update
<1>3. D \cup {f} \in SUBSET Flows
  BY <1>1
<1> QED
  BY <1>2, <1>3 DEF RuleTables

\* So does a deletion.
LEMMA DeleteTable ==
  ASSUME NEW T \in RuleTables, NEW f \in Flows
  PROVE  Delete(T, f) \in RuleTables
<1>1. PICK D \in SUBSET Flows : T \in [D -> Rules]
  BY DEF RuleTables
<1>2. Delete(T, f) \in [D \ {f} -> Rules]
  BY <1>1 DEF Delete
<1>3. D \ {f} \in SUBSET Flows
  BY <1>1
<1> QED
  BY <1>2, <1>3 DEF RuleTables

\* A rule that is present is a rule.
LEMMA RuleType ==
  ASSUME NEW T \in RuleTables, NEW f \in DOMAIN T
  PROVE  T[f] \in Rules /\ Flip(T[f].locked) \in {0, 1}
BY DEF RuleTables, Rules, Flip

\* Every handler leaves a table (configure_switch).
LEMMA ConfigureTable ==
  ASSUME NEW T \in RuleTables, NEW r \in Requests
  PROVE  configure_switch(T, r).table \in RuleTables
<1> DEFINE f == r.flow
<1>0. f \in Flows /\ r.srv \in Servers /\ r.type \in RequestTypes
  BY DEF Requests
<1>1. config_handle_add_req(T, r).table \in RuleTables
  <2>1. [owner |-> r.srv, locked |-> 1] \in Rules
    BY <1>0 DEF Rules
  <2> QED
    BY <1>0, <2>1, UpdateTable DEF config_handle_add_req, Result
<1>2. config_handle_delete_req(T, r).table \in RuleTables
  BY <1>0, DeleteTable DEF config_handle_delete_req, Result
<1>3. config_handle_chown_req(T, r).table \in RuleTables
  <2>1. CASE f \in DOMAIN T
    <3>1. [owner |-> r.srv, locked |-> Flip(T[f].locked)] \in Rules
      BY <1>0, <2>1, RuleType DEF Rules
    <3> QED
      BY <1>0, <2>1, <3>1, UpdateTable DEF config_handle_chown_req, Result
  <2> QED
    BY <2>1 DEF config_handle_chown_req, Result
<1>4. /\ config_handle_lock_req(T, r).table \in RuleTables
      /\ config_handle_unlock_req(T, r).table \in RuleTables
  <2>1. CASE f \in DOMAIN T
    <3>1. [T[f] EXCEPT !.locked = Flip(@)] \in Rules
      BY <2>1, RuleType DEF Rules
    <3> QED
      BY <1>0, <2>1, <3>1, UpdateTable
      DEF config_handle_lock_req, config_handle_unlock_req, Result
  <2> QED
    BY <2>1 DEF config_handle_lock_req, config_handle_unlock_req, Result
<1> QED
  BY <1>0, <1>1, <1>2, <1>3, <1>4 DEF configure_switch, RequestTypes

-----------------------------------------------------------------------------
(* Type correctness.                                                       *)

\* The pieces the initial state and the handlers are built from.
LEMMA EmptyTypes ==
  /\ NoHcs \in HttpClientSockets
  /\ NoSock \in KernelSockets
  /\ NoClient \in Clients
BY SwitchAssumption
DEF NoHcs, NoSock, NoClient, HttpClientSockets, KernelSockets, Clients,
    Phases, SocketStates

\* The servers start without connections (phttp_server_init).
LEMMA TypeInit == Init => TypeOK
<1> SUFFICES ASSUME Init PROVE TypeOK
  OBVIOUS
<1>1. prism \in RuleTables
  <2>1. prism \in [{} -> Rules]
    BY DEF Init, EmptyTable
  <2> QED
    BY <2>1 DEF RuleTables
<1>2. link \in [Servers -> Seq(Replies \cup Segments)]
  BY DEF Init
<1> QED
  BY <1>1, <1>2, EmptyTypes DEF Init, TypeOK

\* Dying leaves well-typed variables (Die).
LEMMA TypeDie ==
  ASSUME TypeOK, NEW s \in Servers,
         NEW why \in {"export", "write", "handoff"}, Die(s, why)
  PROVE  /\ hcs' \in [Servers -> [Flows -> HttpClientSockets]]
         /\ sock' \in [Servers -> [Flows -> KernelSockets]]
         /\ pending' \subseteq Requests
         /\ abort' \in [Servers -> {"no", "export", "write", "handoff"}]
BY EmptyTypes DEF TypeOK, Die

\* Queueing a configuration request leaves well-typed variables.
LEMMA TypeQueue ==
  ASSUME TypeOK, NEW s \in Servers, NEW f \in Flows,
         NEW type \in RequestTypes, NEW k \in Nat,
         prism_switch_client_queue_task(s, f, type, k)
  PROVE  pending' \subseteq Requests /\ net' \subseteq Requests
BY DEF TypeOK, prism_switch_client_queue_task, Requests

\* So does a new value for one connection or one kernel socket.
LEMMA TypeHcs ==
  ASSUME TypeOK, NEW s \in Servers, NEW f \in Flows,
         NEW c \in HttpClientSockets, hcs' = [hcs EXCEPT ![s][f] = c]
  PROVE  hcs' \in [Servers -> [Flows -> HttpClientSockets]]
BY DEF TypeOK

\* A new value for one kernel socket leaves well-typed sockets.
LEMMA TypeSock ==
  ASSUME TypeOK, NEW s \in Servers, NEW f \in Flows,
         NEW c \in KernelSockets, sock' = [sock EXCEPT ![s][f] = c]
  PROVE  sock' \in [Servers -> [Flows -> KernelSockets]]
BY DEF TypeOK

\* A connection that changes its phase stays a connection.
LEMMA TypePhase ==
  ASSUME TypeOK, NEW s \in Servers, NEW f \in Flows, NEW ph \in Phases,
         SetPhase(s, f, ph)
  PROVE  hcs' \in [Servers -> [Flows -> HttpClientSockets]]
<1> DEFINE c == [hcs[s][f] EXCEPT !.phase = ph]
<1>1. hcs[s][f] \in HttpClientSockets
  BY DEF TypeOK
<1>2. c \in HttpClientSockets
  BY <1>1 DEF HttpClientSockets
<1> QED
  BY <1>2 DEF TypeOK, SetPhase

\* A kernel socket that changes its state stays a socket.
LEMMA TypeSocket ==
  ASSUME TypeOK, NEW s \in Servers, NEW f \in Flows, NEW st \in SocketStates,
         SetSocket(s, f, st)
  PROVE  sock' \in [Servers -> [Flows -> KernelSockets]]
<1> DEFINE c == [sock[s][f] EXCEPT !.st = st]
<1>1. sock[s][f] \in KernelSockets
  BY DEF TypeOK
<1>2. c \in KernelSockets
  BY <1>1 DEF KernelSockets
<1> QED
  BY <1>2 DEF TypeOK, SetSocket

\* So do the operations on a link.
LEMMA TypeForward ==
  ASSUME TypeOK, NEW f \in Flows, NEW seg \in Segments, Forward(f, seg)
  PROVE  link' \in [Servers -> Seq(Replies \cup Segments)]
<1>1. prism_in_lookup(prism, f) \in Servers
  BY SwitchAssumption DEF TypeOK, RuleTables, Rules, prism_in_lookup
<1> QED
  BY <1>1 DEF TypeOK, Forward

\* Taking the head off a link leaves well-typed links.
LEMMA TypePop ==
  ASSUME TypeOK, NEW s \in Servers, link[s] # <<>>, PopLink(s)
  PROVE  link' \in [Servers -> Seq(Replies \cup Segments)]
BY DEF TypeOK, PopLink

\* What is received is of the kind its tag says.
LEMMA HeadType ==
  ASSUME TypeOK, NEW s \in Servers
  PROVE  /\ HeadIs(s, {"reply"}) => Head(link[s]) \in Replies
         /\ HeadIs(s, {"data", "fin", "rst"}) => Head(link[s]) \in Segments
         /\ \A K : HeadIs(s, K) => link[s] # <<>>
BY DEF TypeOK, HeadIs, Replies, Segments

\* A client keeps being a client when its state becomes closed or fin.
LEMMA TypeClient ==
  ASSUME TypeOK, NEW f \in Flows, NEW st \in {"closed", "fin"},
         client' = [client EXCEPT ![f].st = st]
  PROVE  client' \in [Flows -> Clients]
<1> DEFINE c == [client[f] EXCEPT !.st = st]
<1>1. c \in Clients
  BY DEF TypeOK, Clients
<1> QED
  BY <1>1 DEF TypeOK

\* Records stay of their type when a field changes.
LEMMA ClientUpdates ==
  ASSUME NEW c \in Clients, NEW k \in Nat
  PROVE  /\ [c EXCEPT !.req = @ + 1] \in Clients
         /\ [c EXCEPT !.resp = k] \in Clients
BY DEF Clients

\* A socket that receives or sends stays a socket.
LEMMA SocketUpdates ==
  ASSUME NEW c \in KernelSockets, NEW k \in Nat
  PROVE  /\ [c EXCEPT !.rcv = Later(k, c.rcv)] \in KernelSockets
         /\ [c EXCEPT !.st = "cw", !.rcv = k] \in KernelSockets
         /\ [c EXCEPT !.snd = k] \in KernelSockets
<1>1. c.rcv \in Nat /\ c.snd \in Nat /\ c.st \in SocketStates
  BY DEF KernelSockets
<1>2. "cw" \in SocketStates
  BY DEF SocketStates
<1>3. Later(k, c.rcv) \in Nat
  BY <1>1 DEF Later
<1>4. [c EXCEPT !.rcv = Later(k, c.rcv)] \in KernelSockets
  BY <1>3 DEF KernelSockets
<1>5. [c EXCEPT !.st = "cw", !.rcv = k] \in KernelSockets
  BY <1>1, <1>2 DEF KernelSockets
<1>6. [c EXCEPT !.snd = k] \in KernelSockets
  BY <1>1 DEF KernelSockets
<1> QED
  BY <1>4, <1>5, <1>6

\* Every step of the client, of its TCP and of the kernels preserves types.
LEMMA TypeEnvironment ==
  ASSUME TypeOK, NEW f \in Flows, NEW s \in Servers,
         \/ ClientStep(f)
         \/ ServerSegment(s, f)
         \/ KernelDestroy(s, f)
         \/ DeliverSegment(s)
  PROVE  TypeOK'
<1> USE SwitchAssumption
<1>1. CASE on_connection(f)
  <2>1. /\ [NoClient EXCEPT !.st = "open"] \in Clients
        /\ [NoSock EXCEPT !.st = "est"] \in KernelSockets
        /\ [NoHcs EXCEPT !.phase = "open"] \in HttpClientSockets
    BY DEF NoClient, NoSock, NoHcs, Clients, KernelSockets, HttpClientSockets,
           Phases, SocketStates
  <2> QED
    BY <1>1, <2>1, TypeHcs, TypeSock DEF on_connection, TypeOK
<1>2. CASE ClientRequest(f)
  <2>1. [client[f] EXCEPT !.req = @ + 1] \in Clients
    BY ClientUpdates DEF TypeOK
  <2> QED
    BY <1>2, <2>1 DEF ClientRequest, TypeOK
<1>3. CASE ClientClose(f)
  BY <1>3, TypeClient DEF ClientClose, TypeOK
<1>4. CASE ClientReset(f)
  <2>1. [kind |-> "rst", flow |-> f, k |-> 0] \in Segments
    BY DEF Segments
  <2>2. link' \in [Servers -> Seq(Replies \cup Segments)]
    BY <1>4, <2>1, TypeForward DEF ClientReset, TypeOK
  <2>3. client' \in [Flows -> Clients]
    BY <1>4, TypeClient DEF ClientReset
  <2> QED
    BY <1>4, <2>2, <2>3 DEF ClientReset, TypeOK
<1>5. CASE ClientSegment(f)
  <2> DEFINE seg == [kind |-> IF client[f].st = "fin" THEN "fin" ELSE "data",
                     flow |-> f, k |-> client[f].req]
  <2>1. seg \in Segments
    BY DEF Segments, TypeOK, Clients
  <2>2. link' \in [Servers -> Seq(Replies \cup Segments)]
    BY <1>5, <2>1, TypeForward DEF ClientSegment
  <2> QED
    BY <1>5, <2>2 DEF ClientSegment, TypeOK
<1>6. CASE ServerSegment(s, f)
  <2>1. [kind |-> "rst", flow |-> f, k |-> 0] \in Segments
    BY DEF Segments
  <2>2. link' \in [Servers -> Seq(Replies \cup Segments)]
    BY <1>6, <2>1, TypeForward DEF ServerSegment, TypeOK
  <2>3. [client[f] EXCEPT !.resp = sock[s][f].snd] \in Clients
    <3>1. sock[s][f].snd \in Nat
      BY DEF TypeOK, KernelSockets
    <3> QED
      BY <3>1, ClientUpdates DEF TypeOK
  <2>4. client' \in [Flows -> Clients]
    BY <1>6, <2>3 DEF ServerSegment, TypeOK
  <2> QED
    BY <1>6, <2>2, <2>4 DEF ServerSegment, TypeOK
<1>7. CASE KernelDestroy(s, f)
  <2>1. sock' \in [Servers -> [Flows -> KernelSockets]]
    BY <1>7, TypeSocket, TypeSock, EmptyTypes DEF KernelDestroy, SocketStates
  <2>2. client' \in [Flows -> Clients]
    BY <1>7, TypeClient DEF KernelDestroy, TypeOK
  <2> QED
    BY <1>7, <2>1, <2>2 DEF KernelDestroy, TypeOK
<1>8. CASE DeliverSegment(s)
  <2> DEFINE seg == Head(link[s])
             g == seg.flow
  <2>1. seg \in Segments /\ link[s] # <<>>
    BY <1>8, HeadType DEF DeliverSegment
  <2>2. g \in Flows /\ seg.k \in Nat
    BY <2>1 DEF Segments
  <2>3. link' \in [Servers -> Seq(Replies \cup Segments)]
    BY <1>8, <2>1, TypePop DEF DeliverSegment
  <2>4. client' \in [Flows -> Clients]
    BY <1>8, <2>2, TypeClient DEF DeliverSegment, TypeOK
  <2>5. sock[s][g] \in KernelSockets
    BY <2>2 DEF TypeOK
  <2>6. sock' \in [Servers -> [Flows -> KernelSockets]]
    <3> DEFINE live == sock[s][g].st \in {"est", "cw"}
    <3>1. CASE live /\ seg.kind = "data"
      <4> DEFINE c == [sock[s][g] EXCEPT !.rcv = Later(seg.k, sock[s][g].rcv)]
      <4>1. c \in KernelSockets
        BY <2>2, <2>5, SocketUpdates
      <4>2. sock' = [sock EXCEPT ![s][g] = c]
        BY <1>8, <3>1 DEF DeliverSegment
      <4> QED
        BY <2>2, <4>1, <4>2, TypeSock
    <3>2. CASE live /\ seg.kind = "fin"
      <4> DEFINE c == [sock[s][g] EXCEPT !.st = "cw", !.rcv = seg.k]
      <4>1. c \in KernelSockets
        BY <2>2, <2>5, SocketUpdates
      <4>2. sock' = [sock EXCEPT ![s][g] = c]
        BY <1>8, <3>2 DEF DeliverSegment
      <4> QED
        BY <2>2, <4>1, <4>2, TypeSock
    <3>3. CASE live /\ seg.kind = "rst"
      BY <1>8, <2>2, <3>3, TypeSocket DEF DeliverSegment, SocketStates
    <3>4. CASE ~live
      BY <1>8, <3>4 DEF DeliverSegment, TypeOK
    <3> QED
      BY <2>1, <3>1, <3>2, <3>3, <3>4 DEF Segments
  <2> QED
    BY <1>8, <2>3, <2>4, <2>6 DEF DeliverSegment, TypeOK
<1> QED
  BY <1>1, <1>2, <1>3, <1>4, <1>5, <1>6, <1>7, <1>8 DEF ClientStep

\* A connection that takes up a request stays a connection.
LEMMA HcsUpdates ==
  ASSUME NEW c \in HttpClientSockets, NEW k \in Nat, NEW d \in Servers
  PROVE  /\ [c EXCEPT !.req = k, !.phase = "responding"] \in HttpClientSockets
         /\ [c EXCEPT !.req = k, !.dest = d, !.phase = "configuring"]
              \in HttpClientSockets
BY DEF HttpClientSockets, Phases

\* What the callbacks read has its type.
LEMMA FieldTypes ==
  ASSUME TypeOK, NEW s \in Servers, NEW f \in Flows
  PROVE  /\ hcs[s][f] \in HttpClientSockets
         /\ hcs[s][f].req \in Nat
         /\ hcs[s][f].dest \in Servers
         /\ sock[s][f] \in KernelSockets
         /\ sock[s][f].rcv \in Nat
         /\ sock[s][f].snd \in Nat
         /\ client[f].req \in Nat
         /\ client[f].resp \in Nat
<1>1. /\ hcs[s][f] \in HttpClientSockets
      /\ sock[s][f] \in KernelSockets
      /\ client[f] \in Clients
  BY DEF TypeOK
<1>2. hcs[s][f].req \in Nat /\ hcs[s][f].dest \in Servers
  BY <1>1 DEF HttpClientSockets
<1>3. sock[s][f].rcv \in Nat /\ sock[s][f].snd \in Nat
  BY <1>1 DEF KernelSockets
<1>4. client[f].req \in Nat /\ client[f].resp \in Nat
  BY <1>1 DEF Clients
<1> QED  BY <1>1, <1>2, <1>3, <1>4

\* Closing, or dying in the callback of a cancelled write, preserves types
\* (phttp_start_close).
LEMMA TypeStartClose ==
  ASSUME TypeOK, NEW s \in Servers, NEW f \in Flows, phttp_start_close(s, f)
  PROVE  /\ hcs' \in [Servers -> [Flows -> HttpClientSockets]]
         /\ sock' \in [Servers -> [Flows -> KernelSockets]]
         /\ pending' \subseteq Requests
         /\ abort' \in [Servers -> {"no", "export", "write", "handoff"}]
<1>1. CASE hcs[s][f].phase = "responding"
  BY <1>1, TypeDie DEF phttp_start_close
<1>2. CASE hcs[s][f].phase # "responding"
  <2>1. SetPhase(s, f, "closing") /\ SetSocket(s, f, "fin")
        /\ UNCHANGED <<pending, abort>>
    BY <1>2 DEF phttp_start_close
  <2>2. "closing" \in Phases /\ "fin" \in SocketStates
    BY DEF Phases, SocketStates
  <2> QED
    BY <2>1, <2>2, TypePhase, TypeSocket DEF TypeOK
<1> QED
  BY <1>1, <1>2

\* Every callback of a connection preserves types.
LEMMA TypeCallback ==
  ASSUME TypeOK, NEW s \in Servers, NEW f \in Flows, Callback(s, f)
  PROVE  TypeOK'
<1> USE FieldTypes, EmptyTypes
<1>0. /\ {"open", "sending", "closewait", "monitoring"} \subseteq Phases
      /\ {"ADD", "LOCK", "DELETE"} \subseteq RequestTypes
  BY DEF Phases, RequestTypes
<1>1. CASE on_read_eof(s, f)
  BY <1>1, TypeStartClose DEF on_read_eof, TypeOK
<1>2. CASE on_read_bad(s, f)
  BY <1>2, TypeStartClose DEF on_read_bad, TypeOK
<1>3. CASE on_read_answer(s, f)
  <2> DEFINE c == [hcs[s][f] EXCEPT !.req = sock[s][f].rcv,
                                    !.phase = "responding"]
  <2>1. c \in HttpClientSockets
    BY SwitchAssumption, HcsUpdates
  <2>2. hcs' = [hcs EXCEPT ![s][f] = c]
    BY <1>3 DEF on_read_answer
  <2>3. hcs' \in [Servers -> [Flows -> HttpClientSockets]]
    BY <2>1, <2>2, TypeHcs
  <2> QED
    BY <1>3, <2>3 DEF on_read_answer, TypeOK
<1>4. ASSUME NEW d \in Servers, on_read_handoff(s, f, d)
      PROVE  TypeOK'
  <2> DEFINE c == [hcs[s][f] EXCEPT !.req = sock[s][f].rcv, !.dest = d,
                                    !.phase = "configuring"]
             type == IF hcs[s][f].imported THEN "LOCK" ELSE "ADD"
  <2>1. c \in HttpClientSockets
    BY HcsUpdates
  <2>2. hcs' = [hcs EXCEPT ![s][f] = c]
    BY <1>4 DEF on_read_handoff
  <2>3. hcs' \in [Servers -> [Flows -> HttpClientSockets]]
    BY <2>1, <2>2, TypeHcs
  <2>4. type \in RequestTypes
    BY DEF RequestTypes
  <2>5. prism_switch_client_queue_task(s, f, type, sock[s][f].rcv)
    BY <1>4 DEF on_read_handoff
  <2>6. pending' \subseteq Requests /\ net' \subseteq Requests
    <3> HIDE DEF type
    <3> QED
      BY <2>4, <2>5, TypeQueue
  <2> QED
    BY <1>4, <2>3, <2>6 DEF on_read_handoff, TypeOK
<1>5. CASE after_send_http_res(s, f)
  <2> DEFINE c == [sock[s][f] EXCEPT !.snd = hcs[s][f].req]
  <2>1. CASE sock[s][f].st = "rst"
    BY <1>5, <2>1, TypeDie DEF after_send_http_res, TypeOK
  <2>2. CASE sock[s][f].st # "rst"
    <3>1. c \in KernelSockets
      BY SocketUpdates
    <3>2. sock' = [sock EXCEPT ![s][f] = c] /\ SetPhase(s, f, "open")
      BY <1>5, <2>2 DEF after_send_http_res
    <3>3. /\ sock' \in [Servers -> [Flows -> KernelSockets]]
          /\ hcs' \in [Servers -> [Flows -> HttpClientSockets]]
      BY <1>0, <3>1, <3>2, TypeSock, TypePhase
    <3> QED
      BY <1>5, <2>2, <3>3 DEF after_send_http_res, TypeOK
  <2> QED
    BY <2>1, <2>2
<1>6. CASE after_close_local(s, f)
  BY <1>6, TypeHcs DEF after_close_local, TypeOK
<1>7. CASE after_close_imported(s, f)
  BY <1>0, <1>7, TypePhase DEF after_close_imported, TypeOK
<1>8. CASE after_real_close_imported(s, f)
  <2>1. pending' \subseteq Requests /\ net' \subseteq Requests
    BY <1>0, <1>8, TypeQueue DEF after_real_close_imported
  <2> QED
    BY <1>8, <2>1, TypeHcs, TypeSock DEF after_real_close_imported, TypeOK
<1>9. CASE after_close(s, f)
  BY <1>0, <1>9, TypePhase DEF after_close, TypeOK
<1>10. CASE after_real_close(s, f)
  <2> DEFINE m == [dst |-> hcs[s][f].dest, flow |-> f, req |-> hcs[s][f].req,
                   rcv |-> sock[s][f].rcv, snd |-> sock[s][f].snd]
  <2>1. m \in HandoffMessages
    BY DEF HandoffMessages
  <2>2. wire' \subseteq HandoffMessages
    BY <1>10, <2>1 DEF after_real_close, TypeOK
  <2>3. /\ sock' \in [Servers -> [Flows -> KernelSockets]]
        /\ hcs' \in [Servers -> [Flows -> HttpClientSockets]]
    BY <1>0, <1>10, TypePhase, TypeSock DEF after_real_close
  <2> QED
    BY <1>10, <2>2, <2>3 DEF after_real_close, TypeOK
<1>11. CASE handoff_done(s, f)
  BY <1>11, TypeDie, TypeHcs DEF handoff_done, TypeOK
<1> QED
  BY <1>1, <1>2, <1>3, <1>4, <1>5, <1>6, <1>7, <1>8, <1>9, <1>10, <1>11
  DEF Callback

\* Every reply that arrives and every handoff message preserves types.
LEMMA TypeReply ==
  ASSUME TypeOK, NEW s \in Servers,
         \/ LoseReply(s) \/ DropReply(s) \/ after_delete(s)
         \/ after_configure_switch(s) \/ after_change_owner(s)
  PROVE  TypeOK'
<1> DEFINE r == Head(link[s]).req
           f == r.flow
<1>0. HeadIs(s, {"reply"}) /\ PopLink(s)
  BY DEF LoseReply, DropReply, after_delete, after_configure_switch,
         after_change_owner, on_recv
<1>1. Head(link[s]) \in Replies /\ link[s] # <<>>
  BY <1>0, HeadType
<1>2. r \in Requests /\ f \in Flows
  BY <1>1 DEF Replies, Requests
<1>3. link' \in [Servers -> Seq(Replies \cup Segments)]
  BY <1>0, <1>1, TypePop
<1>4. CASE LoseReply(s) \/ DropReply(s)
  BY <1>3, <1>4 DEF LoseReply, DropReply, TypeOK
<1>5. CASE after_delete(s)
  BY <1>3, <1>5 DEF after_delete, TypeOK
<1>6. CASE after_configure_switch(s)
  <2>1. CASE sock[s][f].st = "est"
    <3>1. "exporting" \in Phases /\ "zap" \in SocketStates
      BY DEF Phases, SocketStates
    <3>2. /\ SetPhase(s, f, "exporting") /\ SetSocket(s, f, "zap")
          /\ pending' = pending \ {r} /\ UNCHANGED abort
      BY <1>6, <2>1 DEF after_configure_switch, tcp_is_established
    <3>3. /\ sock' \in [Servers -> [Flows -> KernelSockets]]
          /\ hcs' \in [Servers -> [Flows -> HttpClientSockets]]
      BY <1>2, <3>1, <3>2, TypePhase, TypeSocket
    <3> QED
      BY <1>3, <1>6, <3>2, <3>3 DEF after_configure_switch, TypeOK
  <2>2. CASE sock[s][f].st # "est"
    <3>1. Die(s, "export")
      BY <1>6, <2>2 DEF after_configure_switch, tcp_is_established
    <3> QED
      BY <1>3, <1>6, <3>1, TypeDie DEF after_configure_switch, TypeOK
  <2> QED
    BY <2>1, <2>2
<1>7. CASE after_change_owner(s)
  <2>1. "responding" \in Phases
    BY DEF Phases
  <2>2. hcs' \in [Servers -> [Flows -> HttpClientSockets]]
    BY <1>2, <1>7, <2>1, TypePhase DEF after_change_owner
  <2> QED
    BY <1>3, <1>7, <2>2 DEF after_change_owner, TypeOK
<1> QED
  BY <1>4, <1>5, <1>6, <1>7

\* The switch, losses and the retry timer preserve types.
LEMMA TypeConfig ==
  ASSUME TypeOK, NEW r, SwitchConfig(r) \/ LoseRequest(r) \/ retry_send(r)
  PROVE  TypeOK'
<1>1. CASE SwitchConfig(r)
  <2>1. r \in Requests /\ r.srv \in Servers
    BY <1>1 DEF SwitchConfig, TypeOK, Requests
  <2> DEFINE reply == config_prepare_response(r, configure_switch(prism, r).error)
  <2>2. reply \in Replies
    BY <2>1 DEF config_prepare_response, Replies
  <2>3. prism' \in RuleTables
    BY <1>1, <2>1, ConfigureTable DEF SwitchConfig, TypeOK
  <2>4. link' = [link EXCEPT ![r.srv] = Append(@, reply)]
    BY <1>1 DEF SwitchConfig
  <2>5. link' \in [Servers -> Seq(Replies \cup Segments)]
    <3> HIDE DEF reply
    <3> QED
      BY <2>1, <2>2, <2>4 DEF TypeOK
  <2> QED
    BY <1>1, <2>3, <2>5 DEF SwitchConfig, TypeOK
<1>2. CASE LoseRequest(r)
  BY <1>2 DEF LoseRequest, TypeOK
<1>3. CASE retry_send(r)
  BY <1>3 DEF retry_send, TypeOK
<1> QED
  BY <1>1, <1>2, <1>3

\* Importing and forwarding preserve types (phttp_on_handoff).
LEMMA TypeMessage ==
  ASSUME TypeOK, NEW m \in wire, MessageStep(m)
  PROVE  TypeOK'
<1>0. /\ m \in HandoffMessages /\ m.dst \in Servers /\ m.flow \in Flows
      /\ m.req \in Nat /\ m.rcv \in Nat /\ m.snd \in Nat
  BY DEF TypeOK, HandoffMessages
<1>1. CASE on_handoff_import(m)
  <2> DEFINE k == [st |-> "est", rcv |-> m.rcv, snd |-> m.snd]
             c == [phase |-> "chowning", imported |-> TRUE,
                   req |-> m.req, dest |-> Front]
  <2>1. k \in KernelSockets /\ c \in HttpClientSockets
    BY <1>0, SwitchAssumption
    DEF KernelSockets, SocketStates, HttpClientSockets, Phases
  <2>2. /\ sock' = [sock EXCEPT ![m.dst][m.flow] = k]
        /\ hcs' = [hcs EXCEPT ![m.dst][m.flow] = c]
    BY <1>1 DEF on_handoff_import, continue_import
  <2>3. /\ sock' \in [Servers -> [Flows -> KernelSockets]]
        /\ hcs' \in [Servers -> [Flows -> HttpClientSockets]]
    BY <1>0, <2>1, <2>2, TypeSock, TypeHcs
  <2>4. "CHOWN" \in RequestTypes
    BY DEF RequestTypes
  <2>5. pending' \subseteq Requests /\ net' \subseteq Requests
    BY <1>0, <1>1, <2>4, TypeQueue DEF on_handoff_import, start_change_owner
  <2> QED
    BY <1>1, <2>3, <2>5 DEF on_handoff_import, TypeOK
<1>2. ASSUME NEW d \in Servers, on_handoff_forward(m, d)
      PROVE  TypeOK'
  <2>1. [m EXCEPT !.dst = d] \in HandoffMessages
    BY <1>0 DEF HandoffMessages
  <2>2. wire' \subseteq HandoffMessages
    BY <1>2, <2>1 DEF on_handoff_forward, TypeOK
  <2>3. \/ UNCHANGED <<hcs, sock, pending, abort>>
        \/ Die(m.dst, "handoff")
    BY <1>2 DEF on_handoff_forward
  <2>4. CASE UNCHANGED <<hcs, sock, pending, abort>>
    BY <1>2, <2>2, <2>4 DEF on_handoff_forward, TypeOK
  <2>5. CASE Die(m.dst, "handoff")
    BY <1>0, <1>2, <2>2, <2>5, TypeDie DEF on_handoff_forward, TypeOK
  <2> QED
    BY <2>3, <2>4, <2>5
<1> QED
  BY <1>1, <1>2 DEF MessageStep

\* Every step preserves types.
LEMMA TypeStep == TypeOK /\ [Next]_vars => TypeOK'
<1> SUFFICES ASSUME TypeOK, [Next]_vars PROVE TypeOK'
  OBVIOUS
<1>0. Front \in Servers
  BY SwitchAssumption
<1>1. ASSUME NEW f \in Flows, ClientStep(f) PROVE TypeOK'
  BY <1>0, <1>1, TypeEnvironment
<1>2. ASSUME NEW s \in Servers, NEW f \in Flows,
             ServerSegment(s, f) \/ KernelDestroy(s, f) \/ Callback(s, f)
      PROVE  TypeOK'
  BY <1>2, TypeEnvironment, TypeCallback
<1>3. ASSUME NEW s \in Servers, Arrival(s) \/ LoseReply(s) PROVE TypeOK'
  <2>1. CASE DeliverSegment(s)
    <3>1. Head(link[s]).flow \in Flows
      BY <2>1, HeadType DEF DeliverSegment, Segments
    <3> QED
      BY <2>1, <3>1, TypeEnvironment
  <2> QED
    BY <1>3, <2>1, TypeReply DEF Arrival
<1>4. ASSUME NEW r, SwitchConfig(r) \/ LoseRequest(r) \/ retry_send(r)
      PROVE  TypeOK'
  BY <1>4, TypeConfig
<1>5. ASSUME NEW m \in wire, MessageStep(m) PROVE TypeOK'
  BY <1>5, TypeMessage
<1>6. CASE UNCHANGED vars
  BY <1>6 DEF vars, TypeOK
<1> QED
  BY <1>1, <1>2, <1>3, <1>4, <1>5, <1>6 DEF Next

\* The variables of the servers, of the switch and of the network keep their
\* types, whatever is lost, repeated, delayed or reset.
THEOREM TypeCorrect == Spec => []TypeOK
<1>1. Init => TypeOK
  BY TypeInit
<1>2. TypeOK /\ [Next]_vars => TypeOK'
  BY TypeStep
<1> QED
  BY <1>1, <1>2, PTL DEF Spec

-----------------------------------------------------------------------------
(* One holder.  A connection's state leaves a place before it is in the    *)
(* next one, so the invariant is inductive together with the types: most   *)
(* steps make neither a socket nor a message (Shrinks), and the four that  *)
(* do take the state from where it was.                                    *)

Shrinks ==
  /\ \A s \in Servers, f \in Flows :
       sock'[s][f].st # "none" => sock[s][f].st # "none"
  /\ wire' \subseteq wire

\* No new socket and no new message: still one holder.
LEMMA ShrinkingKeepsOneHolder == OneHolder /\ Shrinks => OneHolder'
BY DEF OneHolder, Shrinks

\* The state changes of an existing socket make no new one.
LEMMA SocketShrinks ==
  ASSUME TypeOK, NEW s \in Servers, NEW f \in Flows, sock[s][f].st # "none",
         NEW c, sock' = [sock EXCEPT ![s][f] = c], UNCHANGED wire
  PROVE  Shrinks
BY DEF TypeOK, Shrinks

\* In particular SetSocket does not.
LEMMA SetSocketShrinks ==
  ASSUME TypeOK, NEW s \in Servers, NEW f \in Flows, sock[s][f].st # "none",
         NEW st, SetSocket(s, f, st), UNCHANGED wire
  PROVE  Shrinks
BY SocketShrinks DEF SetSocket

\* A process that dies takes its sockets with it (Die).
LEMMA DieShrinks ==
  ASSUME TypeOK, NEW s \in Servers, NEW why, Die(s, why), wire' \subseteq wire
  PROVE  Shrinks
<1>1. \A t \in Servers, f \in Flows :
        sock'[t][f] = IF t = s THEN NoSock ELSE sock[t][f]
  BY DEF TypeOK, Die
<1> QED
  BY <1>1 DEF Shrinks, NoSock

\* A callback makes no second holder: after_real_close puts the state on the
\* wire when the kernel socket is gone.
LEMMA OneHolderCallback ==
  ASSUME TypeOK, OneHolder, NEW s \in Servers, NEW f \in Flows, Callback(s, f)
  PROVE  OneHolder'
<1>1. CASE on_read_eof(s, f) \/ on_read_bad(s, f)
  <2>1. sock[s][f].st # "none" /\ phttp_start_close(s, f) /\ UNCHANGED wire
    BY <1>1 DEF on_read_eof, on_read_bad, Readable
  <2>2. Die(s, "write") \/ SetSocket(s, f, "fin")
    BY <2>1 DEF phttp_start_close
  <2> QED
    BY <2>1, <2>2, DieShrinks, SetSocketShrinks, ShrinkingKeepsOneHolder
<1>2. CASE \/ on_read_answer(s, f)
           \/ \E d \in Servers : on_read_handoff(s, f, d)
           \/ after_close_local(s, f)
           \/ after_close_imported(s, f)
           \/ after_close(s, f)
  <2>1. UNCHANGED <<sock, wire>>
    BY <1>2 DEF on_read_answer, on_read_handoff, after_close_local,
                after_close_imported, after_close
  <2> QED
    BY <2>1 DEF OneHolder
<1>3. CASE after_send_http_res(s, f)
  <2>1. CASE Die(s, "write")
    BY <1>3, <2>1, DieShrinks, ShrinkingKeepsOneHolder
    DEF after_send_http_res
  <2>2. CASE sock' = [sock EXCEPT ![s][f] = [@ EXCEPT !.snd = hcs[s][f].req]]
    <3>1. \A t \in Servers, g \in Flows : sock'[t][g].st = sock[t][g].st
      BY <2>2 DEF TypeOK, KernelSockets
    <3> QED
      BY <1>3, <3>1, ShrinkingKeepsOneHolder DEF after_send_http_res, Shrinks
  <2> QED
    BY <1>3, <2>1, <2>2 DEF after_send_http_res
<1>4. CASE after_real_close_imported(s, f)
  <2>1. sock[s][f].st # "none"
    BY <1>4 DEF after_real_close_imported
  <2> QED
    BY <1>4, <2>1, SocketShrinks, ShrinkingKeepsOneHolder
    DEF after_real_close_imported
<1>5. CASE after_real_close(s, f)
  <2> DEFINE m == [dst |-> hcs[s][f].dest, flow |-> f, req |-> hcs[s][f].req,
                   rcv |-> sock[s][f].rcv, snd |-> sock[s][f].snd]
  <2>1. /\ sock[s][f].st # "none"
        /\ sock' = [sock EXCEPT ![s][f] = NoSock]
        /\ wire' = wire \cup {m}
        /\ m.flow = f
    BY <1>5 DEF after_real_close
  <2>2. \A t \in Servers, g \in Flows :
          sock'[t][g] = IF t = s /\ g = f THEN NoSock ELSE sock[t][g]
    BY <2>1 DEF TypeOK
  <2>3. \A t \in Servers : sock'[t][f].st = "none"
    BY <2>1, <2>2 DEF OneHolder, NoSock
  <2>4. \A n \in wire : n.flow # f
    BY <2>1 DEF OneHolder
  <2> HIDE DEF m
  <2> QED
    BY <2>1, <2>2, <2>3, <2>4 DEF OneHolder, NoSock
<1>6. CASE handoff_done(s, f)
  <2>1. Die(s, "handoff") \/ UNCHANGED sock
    BY <1>6 DEF handoff_done
  <2>2. UNCHANGED wire
    BY <1>6 DEF handoff_done
  <2> QED
    BY <2>1, <2>2, DieShrinks, ShrinkingKeepsOneHolder DEF Shrinks
<1> QED
  BY <1>1, <1>2, <1>3, <1>4, <1>5, <1>6 DEF Callback

\* An import takes the message that it makes a socket of (phttp_on_handoff).
LEMMA OneHolderMessage ==
  ASSUME TypeOK, OneHolder, NEW m \in wire, MessageStep(m)
  PROVE  OneHolder'
<1>0. m.dst \in Servers /\ m.flow \in Flows
  BY DEF TypeOK, HandoffMessages
<1>1. CASE on_handoff_import(m)
  <2> DEFINE c == [st |-> "est", rcv |-> m.rcv, snd |-> m.snd]
  <2>1. /\ sock' = [sock EXCEPT ![m.dst][m.flow] = c]
        /\ wire' = wire \ {m}
    BY <1>1 DEF on_handoff_import, continue_import
  <2>2. \A t \in Servers, g \in Flows :
          sock'[t][g] = IF t = m.dst /\ g = m.flow THEN c ELSE sock[t][g]
    BY <1>0, <2>1 DEF TypeOK
  <2>3. \A t \in Servers : sock[t][m.flow].st = "none"
    BY <1>0 DEF OneHolder
  <2>4. \A n \in wire' : n.flow # m.flow
    BY <1>0, <2>1 DEF OneHolder
  <2> HIDE DEF c
  <2> QED
    BY <1>0, <2>1, <2>2, <2>3, <2>4 DEF OneHolder
<1>2. ASSUME NEW d \in Servers, on_handoff_forward(m, d)
      PROVE  OneHolder'
  <2>1. CASE Die(m.dst, "handoff") /\ wire' = wire \ {m}
    BY <1>0, <2>1, DieShrinks, ShrinkingKeepsOneHolder
  <2>2. CASE UNCHANGED sock /\ wire' = (wire \ {m}) \cup {[m EXCEPT !.dst = d]}
    <3>1. [m EXCEPT !.dst = d].flow = m.flow
      BY DEF TypeOK, HandoffMessages
    <3> QED
      BY <1>0, <2>2, <3>1 DEF OneHolder
  <2> QED
    BY <1>2, <2>1, <2>2 DEF on_handoff_forward
<1> QED
  BY <1>1, <1>2 DEF MessageStep

\* What arrives from the switch makes no second holder.
LEMMA OneHolderArrival ==
  ASSUME TypeOK, OneHolder, NEW s \in Servers, Arrival(s) \/ LoseReply(s)
  PROVE  OneHolder'
<1>1. CASE DeliverSegment(s)
  <2> DEFINE f == Head(link[s]).flow
  <2>1. f \in Flows
    BY <1>1, HeadType DEF DeliverSegment, Segments
  <2>2. UNCHANGED wire
    BY <1>1 DEF DeliverSegment
  <2>3. CASE sock[s][f].st \notin {"est", "cw"}
    BY <1>1, <2>2, <2>3, ShrinkingKeepsOneHolder DEF DeliverSegment, Shrinks
  <2>4. CASE sock[s][f].st \in {"est", "cw"}
    <3>1. PICK c : sock' = [sock EXCEPT ![s][f] = c]
      BY <1>1, <2>4 DEF DeliverSegment, SetSocket
    <3> HIDE DEF f
    <3> QED
      BY <2>1, <2>2, <2>4, <3>1, SocketShrinks, ShrinkingKeepsOneHolder
  <2> QED
    BY <2>3, <2>4
<1>2. CASE after_configure_switch(s)
  <2> DEFINE f == Head(link[s]).req.flow
  <2>1. f \in Flows
    BY <1>2, HeadType DEF after_configure_switch, on_recv, Replies, Requests
  <2>2. UNCHANGED wire
    BY <1>2 DEF after_configure_switch, tcp_is_established
  <2>3. \/ Die(s, "export")
        \/ sock[s][f].st = "est" /\ SetSocket(s, f, "zap")
    BY <1>2 DEF after_configure_switch, tcp_is_established
  <2> HIDE DEF f
  <2> QED
    BY <2>1, <2>2, <2>3, DieShrinks, SetSocketShrinks, ShrinkingKeepsOneHolder
<1>3. CASE LoseReply(s) \/ DropReply(s) \/ after_delete(s) \/ after_change_owner(s)
  BY <1>3 DEF LoseReply, DropReply, after_delete, after_change_owner, OneHolder
<1> QED
  BY <1>1, <1>2, <1>3 DEF Arrival

\* Every step keeps a connection in one place.
LEMMA OneHolderStep == TypeOK /\ OneHolder /\ [Next]_vars => OneHolder'
<1> SUFFICES ASSUME TypeOK, OneHolder, [Next]_vars PROVE OneHolder'
  OBVIOUS
<1>1. ASSUME NEW f \in Flows, ClientStep(f) PROVE OneHolder'
  <2>1. CASE on_connection(f)
    <3>1. /\ \A t \in Servers : sock[t][f].st = "none"
          /\ \A m \in wire : m.flow # f
          /\ UNCHANGED wire
      BY <2>1 DEF on_connection, Quiet
    <3> DEFINE c == [NoSock EXCEPT !.st = "est"]
    <3>2. \A t \in Servers, g \in Flows :
            sock'[t][g] = IF t = Front /\ g = f THEN c ELSE sock[t][g]
      BY <2>1, SwitchAssumption DEF on_connection, TypeOK
    <3> HIDE DEF c
    <3> QED
      BY <3>1, <3>2 DEF OneHolder
  <2>2. CASE \/ ClientRequest(f) \/ ClientClose(f)
             \/ ClientReset(f) \/ ClientSegment(f)
    BY <2>2 DEF ClientRequest, ClientClose, ClientReset, ClientSegment, OneHolder
  <2> QED
    BY <1>1, <2>1, <2>2 DEF ClientStep
<1>2. ASSUME NEW s \in Servers, NEW f \in Flows,
             ServerSegment(s, f) \/ KernelDestroy(s, f) \/ Callback(s, f)
      PROVE  OneHolder'
  <2>1. CASE ServerSegment(s, f)
    BY <2>1 DEF ServerSegment, OneHolder
  <2>2. CASE KernelDestroy(s, f)
    <3>1. sock[s][f].st # "none" /\ UNCHANGED wire
      BY <2>2 DEF KernelDestroy
    <3>2. SetSocket(s, f, "gone") \/ sock' = [sock EXCEPT ![s][f] = NoSock]
      BY <2>2 DEF KernelDestroy
    <3> QED
      BY <3>1, <3>2, SocketShrinks, SetSocketShrinks, ShrinkingKeepsOneHolder
  <2> QED
    BY <1>2, <2>1, <2>2, OneHolderCallback
<1>3. ASSUME NEW s \in Servers, Arrival(s) \/ LoseReply(s) PROVE OneHolder'
  BY <1>3, OneHolderArrival
<1>4. ASSUME NEW r, SwitchConfig(r) \/ LoseRequest(r) \/ retry_send(r)
      PROVE  OneHolder'
  BY <1>4 DEF SwitchConfig, LoseRequest, retry_send, OneHolder
<1>5. ASSUME NEW m \in wire, MessageStep(m) PROVE OneHolder'
  BY <1>5, OneHolderMessage
<1>6. CASE UNCHANGED vars
  BY <1>6 DEF vars, OneHolder
<1> QED
  BY <1>1, <1>2, <1>3, <1>4, <1>5, <1>6 DEF Next

\* The state of a connection is never in two places, for every number of
\* flows and servers, every handler, and whatever the network, the clients
\* and failing assertions do (after_configure_switch, after_real_close,
\* phttp_on_handoff, phttp_start_close).
THEOREM OneHolderAlways == Spec => []OneHolder
<1>1. Init => OneHolder
  <2> SUFFICES ASSUME Init PROVE OneHolder
    OBVIOUS
  <2>1. /\ \A s \in Servers, f \in Flows : sock[s][f].st = "none"
        /\ wire = {}
    BY DEF Init, NoSock
  <2> QED
    BY <2>1 DEF OneHolder
<1>2. TypeOK /\ OneHolder /\ [Next]_vars => OneHolder'
  BY OneHolderStep
<1> QED
  BY <1>1, <1>2, TypeCorrect, PTL DEF Spec

=============================================================================
