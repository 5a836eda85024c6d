------------------------- MODULE ConnectionProofs -------------------------
(***************************************************************************)
(* Proofs about the connections of Handoff, for every set of flows and     *)
(* servers, every handler and every behaviour of the network and of the    *)
(* clients: what a connection's callbacks find (CallbackFindsConnection),  *)
(* what its TCP state says (StateNeverRegresses), when a process dies      *)
(* (DiesOnlyOfClient) and what the protocol promises (ImplementsFlowOwner).*)
(***************************************************************************)
EXTENDS HandoffProofs

-----------------------------------------------------------------------------
(* The inductive invariant.                                                *)

\* The phases in which the connection's process may use its socket.
Serving == {"open", "responding", "configuring", "chowning"}

\* The phases in which the socket of an exported connection is closed.
Leaving == {"exporting", "monitoring"}

\* The phases in which a request has been read and is not answered.
Working == {"responding", "configuring", "chowning"} \cup Leaving

\* The kernel socket k fits the phase of the connection c.
PhaseSocket(c, k) ==
  /\ c.phase = "none" => ~c.imported /\ k.st \in {"none", "fin"}
  /\ c.phase \in Serving => k.st \in {"est", "cw", "rst"}
  /\ c.phase \in Leaving => k.st \in {"zap", "gone"}
  /\ c.phase = "sending" => k.st = "none"
  /\ c.phase = "closing" =>
       IF c.imported THEN k.st \in {"fin", "gone"} ELSE k.st \in {"fin", "none"}
  /\ c.phase = "closewait" => c.imported /\ k.st \in {"fin", "gone"}

\* The numbers of a socket lie between what the client cl has seen and what
\* it has sent; the connection is at the last request that was read.
Numbers(c, k, cl) ==
  /\ k.st # "none" =>
       cl.resp <= k.snd /\ k.snd <= k.rcv /\ k.rcv <= cl.req
  /\ c.phase = "open" => c.req = k.snd
  /\ c.phase \in Working => k.snd < c.req /\ c.req = k.rcv

Fits(c, k, cl) == PhaseSocket(c, k) /\ Numbers(c, k, cl)

ConnectionsFit ==
  \A s \in Servers, f \in Flows : Fits(hcs[s][f], sock[s][f], client[f])

\* A client has at most one request outstanding.
OneOutstanding ==
  \A f \in Flows :
    client[f].resp <= client[f].req /\ client[f].req <= client[f].resp + 1

\* A handoff message carries the outstanding request.
MessageFits(m, cl) ==
  cl.resp <= m.snd /\ m.snd < m.rcv /\ m.req = m.rcv /\ m.rcv <= cl.req

MessagesFit == \A m \in wire : MessageFits(m, client[m.flow])

Packets(s) == {link[s][i] : i \in 1..Len(link[s])}

\* A reply is on the link of the server that asked; a segment carries
\* nothing that its client has not sent, a FIN nothing but the last.
PacketFits(s, p) ==
  /\ p.kind = "reply" => p.req.srv = s
  /\ p.kind = "data" => p.k <= client[p.flow].req
  /\ p.kind = "fin" =>
       p.k = client[p.flow].req /\ client[p.flow].st # "open"

PacketsFit == \A s \in Servers : \A p \in Packets(s) : PacketFits(s, p)

\* Everything that the theorems below need of a state.
ConnInv ==
  /\ TypeOK
  /\ OneHolder
  /\ ConnectionsFit
  /\ OneOutstanding
  /\ MessagesFit
  /\ PacketsFit
  /\ CallbackFindsConnection

-----------------------------------------------------------------------------
(* What a step leaves alone.                                               *)

\* Only the connection f of server s and its socket may change.
OnlyAt(s, f) ==
  \A t \in Servers, g \in Flows :
    t # s \/ g # f => hcs'[t][g] = hcs[t][g] /\ sock'[t][g] = sock[t][g]

\* No request and no response is sent or received by a client.
CountersKept ==
  \A g \in Flows :
    client'[g].req = client[g].req /\ client'[g].resp = client[g].resp

\* One connection, or one socket, is given the value c.
PutHcs(s, f, c) == hcs' = [hcs EXCEPT ![s][f] = c]

PutSock(s, f, c) == sock' = [sock EXCEPT ![s][f] = c]

\* What changes when one connection is assigned to.
LEMMA HcsAssigned ==
  ASSUME TypeOK, NEW s \in Servers, NEW f \in Flows, NEW c, PutHcs(s, f, c)
  PROVE  /\ \A t \in Servers, g \in Flows :
              t # s \/ g # f => hcs'[t][g] = hcs[t][g]
         /\ hcs'[s][f] = c
BY DEF TypeOK, PutHcs

\* What changes when one socket is assigned to.
LEMMA SockAssigned ==
  ASSUME TypeOK, NEW s \in Servers, NEW f \in Flows, NEW c, PutSock(s, f, c)
  PROVE  /\ \A t \in Servers, g \in Flows :
              t # s \/ g # f => sock'[t][g] = sock[t][g]
         /\ sock'[s][f] = c
BY DEF TypeOK, PutSock

\* What changes with the phase of a connection (SetPhase).
LEMMA PhaseSet ==
  ASSUME TypeOK, NEW s \in Servers, NEW f \in Flows, NEW ph,
         SetPhase(s, f, ph)
  PROVE  /\ \A t \in Servers, g \in Flows :
              t # s \/ g # f => hcs'[t][g] = hcs[t][g]
         /\ hcs'[s][f].phase = ph
         /\ hcs'[s][f].imported = hcs[s][f].imported
         /\ hcs'[s][f].req = hcs[s][f].req
         /\ hcs'[s][f].dest = hcs[s][f].dest
<1>1. hcs[s][f] \in HttpClientSockets
  BY FieldTypes
<1> DEFINE c == [hcs[s][f] EXCEPT !.phase = ph]
<1>2. /\ c.phase = ph
      /\ c.imported = hcs[s][f].imported
      /\ c.req = hcs[s][f].req
      /\ c.dest = hcs[s][f].dest
  BY <1>1 DEF HttpClientSockets
<1>3. hcs' = [hcs EXCEPT ![s][f] = c]
  BY DEF SetPhase
<1> HIDE DEF c
<1>4. \A t \in Servers, g \in Flows :
        hcs'[t][g] = IF t = s /\ g = f THEN c ELSE hcs[t][g]
  BY <1>3 DEF TypeOK
<1> QED
  BY <1>2, <1>4

\* What changes with the state of a socket (SetSocket).
LEMMA SocketSet ==
  ASSUME TypeOK, NEW s \in Servers, NEW f \in Flows, NEW st,
         SetSocket(s, f, st)
  PROVE  /\ \A t \in Servers, g \in Flows :
              t # s \/ g # f => sock'[t][g] = sock[t][g]
         /\ sock'[s][f].st = st
         /\ sock'[s][f].rcv = sock[s][f].rcv
         /\ sock'[s][f].snd = sock[s][f].snd
<1>1. sock[s][f] \in KernelSockets
  BY FieldTypes
<1> DEFINE c == [sock[s][f] EXCEPT !.st = st]
<1>2. c.st = st /\ c.rcv = sock[s][f].rcv /\ c.snd = sock[s][f].snd
  BY <1>1 DEF KernelSockets
<1>3. sock' = [sock EXCEPT ![s][f] = c]
  BY DEF SetSocket
<1> HIDE DEF c
<1>4. \A t \in Servers, g \in Flows :
        sock'[t][g] = IF t = s /\ g = f THEN c ELSE sock[t][g]
  BY <1>3 DEF TypeOK
<1> QED
  BY <1>2, <1>4

\* What changes when a process dies (Die).
LEMMA Died ==
  ASSUME TypeOK, NEW s \in Servers, NEW why, Die(s, why)
  PROVE  /\ \A t \in Servers, g \in Flows :
              /\ hcs'[t][g] = IF t = s THEN NoHcs ELSE hcs[t][g]
              /\ sock'[t][g] = IF t = s THEN NoSock ELSE sock[t][g]
         /\ pending' = {r \in pending : r.srv # s}
BY DEF TypeOK, Die

\* What changes with the state of a client.
LEMMA ClientSet ==
  ASSUME TypeOK, NEW f \in Flows, NEW st,
         client' = [client EXCEPT ![f].st = st]
  PROVE  /\ CountersKept
         /\ \A g \in Flows :
              client'[g].st = IF g = f THEN st ELSE client[g].st
<1>1. \A g \in Flows : client[g] \in Clients
  BY DEF TypeOK
<1> DEFINE c == [client[f] EXCEPT !.st = st]
<1>2. c.st = st /\ c.req = client[f].req /\ c.resp = client[f].resp
  BY <1>1 DEF Clients
<1>3. client' = [client EXCEPT ![f] = c]
  OBVIOUS
<1>4. \A g \in Flows : client'[g] = IF g = f THEN c ELSE client[g]
  <2> HIDE DEF c
  <2> QED
    BY <1>3 DEF TypeOK
<1> HIDE DEF c
<1> QED
  BY <1>2, <1>4 DEF CountersKept

-----------------------------------------------------------------------------
(* Connections keep fitting their sockets and their clients.               *)

\* It is enough to look at the connection that changes.
LEMMA FitsFrame ==
  ASSUME ConnectionsFit, NEW s \in Servers, NEW f \in Flows,
         OnlyAt(s, f), CountersKept,
         Fits(hcs'[s][f], sock'[s][f], client'[f])
  PROVE  ConnectionsFit'
<1> SUFFICES ASSUME NEW t \in Servers, NEW g \in Flows
             PROVE  Fits(hcs'[t][g], sock'[t][g], client'[g])
  BY DEF ConnectionsFit
<1>1. CASE t = s /\ g = f
  BY <1>1
<1>2. CASE t # s \/ g # f
  <2>1. Fits(hcs[t][g], sock[t][g], client[g])
    BY DEF ConnectionsFit
  <2>2. hcs'[t][g] = hcs[t][g] /\ sock'[t][g] = sock[t][g]
    BY <1>2 DEF OnlyAt
  <2>3. client'[g].req = client[g].req /\ client'[g].resp = client[g].resp
    BY DEF CountersKept
  <2> QED
    BY <2>1, <2>2, <2>3 DEF Fits, Numbers
<1> QED
  BY <1>1, <1>2

\* A connection that is not there fits.
LEMMA NothingFits ==
  ASSUME NEW cl
  PROVE  Fits(NoHcs, NoSock, cl)
BY DEF Fits, PhaseSocket, Numbers, NoHcs, NoSock, Serving, Leaving, Working

\* A process that dies leaves nothing behind that would not fit (Die).
LEMMA FitsDie ==
  ASSUME TypeOK, ConnectionsFit, NEW s \in Servers, NEW why, Die(s, why),
         UNCHANGED client
  PROVE  ConnectionsFit'
<1>1. \A t \in Servers, g \in Flows :
        /\ hcs'[t][g] = IF t = s THEN NoHcs ELSE hcs[t][g]
        /\ sock'[t][g] = IF t = s THEN NoSock ELSE sock[t][g]
  BY Died
<1> QED
  BY <1>1, NothingFits DEF ConnectionsFit

\* What is known of the numbers of one connection.
LEMMA NumberTypes ==
  ASSUME TypeOK, NEW s \in Servers, NEW f \in Flows
  PROVE  /\ hcs[s][f].req \in Nat
         /\ sock[s][f].rcv \in Nat
         /\ sock[s][f].snd \in Nat
         /\ client[f].req \in Nat
         /\ client[f].resp \in Nat
         /\ hcs[s][f].imported \in BOOLEAN
<1>1. hcs[s][f].imported \in BOOLEAN
  BY FieldTypes DEF HttpClientSockets
<1> QED
  BY <1>1, FieldTypes

\* Closing keeps the fit (phttp_start_close).
LEMMA FitsStartClose ==
  ASSUME TypeOK, ConnectionsFit, NEW s \in Servers, NEW f \in Flows,
         phttp_start_close(s, f), UNCHANGED client,
         hcs[s][f].phase \in {"open", "responding"}
  PROVE  ConnectionsFit'
<1>1. CASE hcs[s][f].phase = "responding"
  BY <1>1, FitsDie DEF phttp_start_close
<1>2. CASE hcs[s][f].phase # "responding"
  <2>1. SetPhase(s, f, "closing") /\ SetSocket(s, f, "fin")
    BY <1>2 DEF phttp_start_close
  <2>2. OnlyAt(s, f)
    BY <2>1, PhaseSet, SocketSet DEF OnlyAt
  <2>3. Fits(hcs[s][f], sock[s][f], client[f])
    BY DEF ConnectionsFit
  <2>4. Fits(hcs'[s][f], sock'[s][f], client'[f])
    <3>1. /\ hcs'[s][f].phase = "closing"
          /\ hcs'[s][f].imported = hcs[s][f].imported
          /\ hcs'[s][f].req = hcs[s][f].req
      BY <2>1, PhaseSet
    <3>2. /\ sock'[s][f].st = "fin"
          /\ sock'[s][f].rcv = sock[s][f].rcv
          /\ sock'[s][f].snd = sock[s][f].snd
      BY <2>1, SocketSet
    <3> QED
      BY <1>2, <2>3, <3>1, <3>2
      DEF Fits, PhaseSocket, Numbers, Serving, Leaving, Working
  <2>5. CountersKept
    BY DEF CountersKept
  <2> QED
    BY <2>2, <2>4, <2>5, FitsFrame
<1> QED
  BY <1>1, <1>2

\* Every callback keeps the fit.
LEMMA FitsCallback ==
  ASSUME TypeOK, ConnectionsFit, NEW s \in Servers, NEW f \in Flows,
         Callback(s, f)
  PROVE  ConnectionsFit'
<1> DEFINE c == hcs[s][f]
           k == sock[s][f]
<1>0. /\ Fits(c, k, client[f]) /\ CountersKept /\ UNCHANGED client
      /\ c \in HttpClientSockets /\ k \in KernelSockets
  BY FieldTypes
  DEF ConnectionsFit, CountersKept, Callback, on_read_eof, on_read_bad,
      on_read_answer, on_read_handoff, after_send_http_res, after_close_local,
      after_close_imported, after_real_close_imported, after_close,
      after_real_close, handoff_done
<1>1. CASE on_read_eof(s, f) \/ on_read_bad(s, f)
  BY <1>1, FitsStartClose DEF on_read_eof, on_read_bad, Readable
<1>2. ASSUME NEW d, NEW ph \in {"responding", "configuring"},
             PutHcs(s, f, d),
             d.phase = ph, d.req = k.rcv, d.imported = c.imported,
             Readable(s, f), UNCHANGED sock
      PROVE  ConnectionsFit'
  <2>1. OnlyAt(s, f) /\ hcs'[s][f] = d
    BY <1>2, HcsAssigned DEF OnlyAt
  <2>2. Fits(hcs'[s][f], sock'[s][f], client'[f])
    BY <1>0, <1>2, <2>1, NumberTypes
    DEF Fits, PhaseSocket, Numbers, Serving, Leaving, Working, Readable
  <2> QED
    BY <1>0, <2>1, <2>2, FitsFrame
<1>3. CASE on_read_answer(s, f)
  <2> DEFINE d == [c EXCEPT !.req = k.rcv, !.phase = "responding"]
  <2>1. d.phase = "responding" /\ d.req = k.rcv /\ d.imported = c.imported
    BY <1>0 DEF HttpClientSockets
  <2>2. /\ PutHcs(s, f, d)
        /\ Readable(s, f) /\ UNCHANGED sock
    BY <1>3 DEF on_read_answer, PutHcs
  <2> HIDE DEF d
  <2> QED
    BY <1>2, <2>1, <2>2
<1>4. ASSUME NEW e \in Servers, on_read_handoff(s, f, e)
      PROVE  ConnectionsFit'
  <2> DEFINE d == [c EXCEPT !.req = k.rcv, !.dest = e, !.phase = "configuring"]
  <2>1. d.phase = "configuring" /\ d.req = k.rcv /\ d.imported = c.imported
    BY <1>0 DEF HttpClientSockets
  <2>2. /\ PutHcs(s, f, d)
        /\ Readable(s, f) /\ UNCHANGED sock
    BY <1>4 DEF on_read_handoff, PutHcs
  <2> HIDE DEF d
  <2> QED
    BY <1>2, <2>1, <2>2
<1>5. CASE after_send_http_res(s, f)
  <2>1. CASE k.st = "rst"
    BY <1>5, <2>1, FitsDie DEF after_send_http_res
  <2>2. CASE k.st # "rst"
    <3> DEFINE d == [k EXCEPT !.snd = c.req]
    <3>1. d.st = k.st /\ d.rcv = k.rcv /\ d.snd = c.req
      BY <1>0 DEF KernelSockets
    <3>2. SetPhase(s, f, "open") /\ PutSock(s, f, d)
      BY <1>5, <2>2 DEF after_send_http_res, PutSock
    <3> HIDE DEF d
    <3>3. OnlyAt(s, f) /\ sock'[s][f] = d
      BY <3>2, PhaseSet, SockAssigned DEF OnlyAt
    <3>4. hcs'[s][f].phase = "open" /\ hcs'[s][f].req = c.req
      BY <3>2, PhaseSet
    <3>5. c.phase = "responding"
      BY <1>5 DEF after_send_http_res
    <3>6. Fits(hcs'[s][f], sock'[s][f], client'[f])
      BY <1>0, <3>1, <3>3, <3>4, <3>5, NumberTypes
      DEF Fits, PhaseSocket, Numbers, Serving, Leaving, Working
    <3> QED
      BY <1>0, <3>3, <3>6, FitsFrame
  <2> QED
    BY <2>1, <2>2
<1>6. CASE after_close_local(s, f)
  <2>1. /\ c.phase = "closing" /\ ~c.imported
        /\ PutHcs(s, f, NoHcs) /\ UNCHANGED sock
    BY <1>6 DEF after_close_local, PutHcs
  <2>2. OnlyAt(s, f) /\ hcs'[s][f] = NoHcs
    BY <2>1, HcsAssigned, SockAssigned DEF OnlyAt
  <2>3. Fits(hcs'[s][f], sock'[s][f], client'[f])
    BY <1>0, <2>1, <2>2
    DEF Fits, PhaseSocket, Numbers, Serving, Leaving, Working, NoHcs
  <2> QED
    BY <1>0, <2>2, <2>3, FitsFrame
<1>7. CASE after_close_imported(s, f) \/ after_close(s, f)
  <2>1. PICK ph \in {"closewait", "monitoring"} :
          /\ SetPhase(s, f, ph) /\ UNCHANGED sock
          /\ ph = "closewait" => c.phase = "closing" /\ c.imported
          /\ ph = "monitoring" => c.phase = "exporting"
    BY <1>7 DEF after_close_imported, after_close
  <2>2. /\ OnlyAt(s, f) /\ hcs'[s][f].phase = ph
        /\ hcs'[s][f].imported = c.imported /\ hcs'[s][f].req = c.req
    BY <2>1, PhaseSet DEF OnlyAt
  <2>3. Fits(hcs'[s][f], sock'[s][f], client'[f])
    BY <1>0, <2>1, <2>2
    DEF Fits, PhaseSocket, Numbers, Serving, Leaving, Working
  <2> QED
    BY <1>0, <2>2, <2>3, FitsFrame
<1>8. CASE after_real_close_imported(s, f)
  <2>1. /\ PutHcs(s, f, NoHcs)
        /\ PutSock(s, f, NoSock)
    BY <1>8 DEF after_real_close_imported, PutHcs, PutSock
  <2>2. OnlyAt(s, f) /\ hcs'[s][f] = NoHcs /\ sock'[s][f] = NoSock
    BY <2>1, HcsAssigned, SockAssigned DEF OnlyAt
  <2> QED
    BY <1>0, <2>2, NothingFits, FitsFrame
<1>9. CASE after_real_close(s, f)
  <2>1. /\ SetPhase(s, f, "sending")
        /\ PutSock(s, f, NoSock)
    BY <1>9 DEF after_real_close, PutSock
  <2>2. /\ OnlyAt(s, f) /\ hcs'[s][f].phase = "sending"
        /\ sock'[s][f] = NoSock
    BY <2>1, PhaseSet, SockAssigned DEF OnlyAt
  <2>3. Fits(hcs'[s][f], sock'[s][f], client'[f])
    BY <2>2 DEF Fits, PhaseSocket, Numbers, Serving, Leaving, Working, NoSock
  <2> QED
    BY <1>0, <2>2, <2>3, FitsFrame
<1>10. CASE handoff_done(s, f)
  <2>1. CASE Die(s, "handoff")
    BY <1>0, <2>1, FitsDie
  <2>2. CASE PutHcs(s, f, NoHcs) /\ UNCHANGED sock
    <3>1. OnlyAt(s, f) /\ hcs'[s][f] = NoHcs
      BY <2>2, HcsAssigned, SockAssigned DEF OnlyAt
    <3>2. c.phase = "sending"
      BY <1>10 DEF handoff_done
    <3>3. Fits(hcs'[s][f], sock'[s][f], client'[f])
      BY <1>0, <2>2, <3>1, <3>2
      DEF Fits, PhaseSocket, Numbers, Serving, Leaving, Working, NoHcs
    <3> QED
      BY <1>0, <3>1, <3>3, FitsFrame
  <2> QED
    BY <1>10, <2>1, <2>2 DEF handoff_done, PutHcs
<1> QED
  BY <1>1, <1>3, <1>4, <1>5, <1>6, <1>7, <1>8, <1>9, <1>10 DEF Callback

\* What is at the head of a link is on the link.
LEMMA HeadOnLink ==
  ASSUME TypeOK, NEW s \in Servers, link[s] # <<>>
  PROVE  Head(link[s]) \in Packets(s)
<1>1. link[s] \in Seq(Replies \cup Segments)
  BY DEF TypeOK
<1>2. 1 \in 1..Len(link[s]) /\ Head(link[s]) = link[s][1]
  BY <1>1
<1> QED
  BY <1>2 DEF Packets

\* The reply that is received answers a request of this server (on_recv).
LEMMA ReplyReceived ==
  ASSUME TypeOK, PacketsFit, NEW s \in Servers, NEW types, on_recv(s, types)
  PROVE  /\ Head(link[s]).req \in pending
         /\ Head(link[s]).req \in Requests
         /\ Head(link[s]).req.flow \in Flows
         /\ Head(link[s]).req.srv = s
         /\ Head(link[s]).req.type \in types
<1>1. Head(link[s]) \in Replies /\ link[s] # <<>>
  BY HeadType DEF on_recv
<1>2. Head(link[s]) \in Packets(s)
  BY <1>1, HeadOnLink
<1>3. Head(link[s]).req \in Requests /\ Head(link[s]).kind = "reply"
  BY <1>1 DEF Replies
<1>4. Head(link[s]).req.flow \in Flows
  BY <1>3 DEF Requests
<1>5. Head(link[s]).req.srv = s
  BY <1>2, <1>3 DEF PacketsFit, PacketFits
<1> QED
  BY <1>3, <1>4, <1>5 DEF on_recv, Received

\* A segment that arrives carries what its client has sent.
LEMMA SegmentReceived ==
  ASSUME TypeOK, PacketsFit, NEW s \in Servers, DeliverSegment(s)
  PROVE  LET seg == Head(link[s])
         IN  /\ seg.flow \in Flows
             /\ seg.k \in Nat
             /\ seg.kind \in {"data", "fin", "rst"}
             /\ seg.kind = "data" => seg.k <= client[seg.flow].req
             /\ seg.kind = "fin" => seg.k = client[seg.flow].req
<1> DEFINE seg == Head(link[s])
<1>1. seg \in Segments /\ link[s] # <<>>
  BY HeadType DEF DeliverSegment
<1>2. seg \in Packets(s)
  BY <1>1, HeadOnLink
<1>3. PacketFits(s, seg)
  BY <1>2 DEF PacketsFit
<1> HIDE DEF seg
<1>4. /\ seg.flow \in Flows /\ seg.k \in Nat
      /\ seg.kind \in {"data", "fin", "rst"}
  BY <1>1 DEF Segments
<1>5. /\ seg.kind = "data" => seg.k <= client[seg.flow].req
      /\ seg.kind = "fin" => seg.k = client[seg.flow].req
  BY <1>3 DEF PacketFits
<1> USE DEF seg
<1> QED
  BY <1>4, <1>5

\* The steps of the client and the kernels keep the fit.
LEMMA FitsEnvironment ==
  ASSUME TypeOK, OneHolder, ConnectionsFit, OneOutstanding, PacketsFit,
         NEW s \in Servers, NEW f \in Flows,
         \/ ClientStep(f) \/ ServerSegment(s, f)
         \/ KernelDestroy(s, f) \/ DeliverSegment(s)
  PROVE  ConnectionsFit'
<1> DEFINE cl == client[f]
<1>0. \A t \in Servers : Fits(hcs[t][f], sock[t][f], cl)
  BY DEF ConnectionsFit
<1>1. CASE on_connection(f)
  <2>1. \A t \in Servers : sock[t][f].st = "none" /\ hcs[t][f].phase = "none"
    BY <1>1 DEF on_connection, Quiet
  <2> DEFINE d == [NoHcs EXCEPT !.phase = "open"]
             e == [NoSock EXCEPT !.st = "est"]
             n == [NoClient EXCEPT !.st = "open"]
  <2>2. PutHcs(Front, f, d) /\ PutSock(Front, f, e)
    BY <1>1 DEF on_connection, PutHcs, PutSock
  <2>3. Front \in Servers
    BY SwitchAssumption
  <2>4. \A g \in Flows : client'[g] = IF g = f THEN n ELSE client[g]
    BY <1>1 DEF on_connection, TypeOK
  <2>5. /\ d.phase = "open" /\ d.req = 0
        /\ e.st = "est" /\ e.rcv = 0 /\ e.snd = 0
        /\ n.req = 0 /\ n.resp = 0
    BY DEF NoHcs, NoSock, NoClient
  <2> HIDE DEF d, e, n
  <2>6. /\ hcs'[Front][f] = d /\ sock'[Front][f] = e
        /\ \A t \in Servers, g \in Flows : t # Front \/ g # f =>
             hcs'[t][g] = hcs[t][g] /\ sock'[t][g] = sock[t][g]
    BY <2>2, <2>3, HcsAssigned, SockAssigned
  <2>7. Fits(d, e, n)
    BY <2>5 DEF Fits, PhaseSocket, Numbers, Serving, Leaving, Working
  <2>8. \A t \in Servers : t # Front => Fits(hcs'[t][f], sock'[t][f], n)
    BY <1>0, <2>1, <2>6
    DEF Fits, PhaseSocket, Numbers, Serving, Leaving, Working
  <2> QED
    BY <2>4, <2>6, <2>7, <2>8 DEF ConnectionsFit
<1>2. CASE ClientRequest(f)
  <2> DEFINE n == [cl EXCEPT !.req = @ + 1]
  <2>1. \A g \in Flows : client'[g] = IF g = f THEN n ELSE client[g]
    BY <1>2 DEF ClientRequest, TypeOK
  <2>2. n.req = cl.req + 1 /\ n.resp = cl.resp /\ cl.resp = cl.req
    BY <1>2 DEF ClientRequest, TypeOK, Clients
  <2> HIDE DEF n
  <2>3. \A t \in Servers : Fits(hcs[t][f], sock[t][f], n)
    BY <1>0, <2>2, NumberTypes DEF Fits, Numbers
  <2>4. UNCHANGED <<hcs, sock>>
    BY <1>2 DEF ClientRequest
  <2> QED
    BY <2>1, <2>3, <2>4 DEF ConnectionsFit
<1>3. CASE ClientClose(f) \/ ClientReset(f) \/ ClientSegment(f)
  <2>1. CountersKept
    BY <1>3, ClientSet
    DEF ClientClose, ClientReset, ClientSegment, CountersKept
  <2>2. UNCHANGED <<hcs, sock>>
    BY <1>3 DEF ClientClose, ClientReset, ClientSegment
  <2>3. OnlyAt(s, f) /\ Fits(hcs'[s][f], sock'[s][f], client'[f])
    BY <1>0, <2>1, <2>2 DEF OnlyAt, CountersKept, Fits, Numbers
  <2> QED
    BY <2>1, <2>3, FitsFrame
<1>4. CASE ServerSegment(s, f)
  <2>1. UNCHANGED <<hcs, sock>>
    BY <1>4 DEF ServerSegment
  <2>2. CASE UNCHANGED client
    BY <2>1, <2>2 DEF ConnectionsFit
  <2>3. CASE client' = [client EXCEPT ![f].resp = sock[s][f].snd]
    <3> DEFINE n == [cl EXCEPT !.resp = sock[s][f].snd]
    <3>1. \A g \in Flows : client'[g] = IF g = f THEN n ELSE client[g]
      BY <2>3 DEF TypeOK
    <3>2. n.req = cl.req /\ n.resp = sock[s][f].snd
      BY DEF TypeOK, Clients
    <3> HIDE DEF n
    <3>3. Fits(hcs[s][f], sock[s][f], n)
      BY <1>0, <3>2, NumberTypes DEF Fits, Numbers
    <3>4. sock[s][f].st # "none"
      BY <1>4 DEF ServerSegment
    <3>5. \A t \in Servers : t # s => sock[t][f].st = "none"
      BY <3>4 DEF OneHolder
    <3>6. \A t \in Servers : Fits(hcs[t][f], sock[t][f], n)
      BY <1>0, <3>3, <3>5 DEF Fits, Numbers
    <3> QED
      BY <2>1, <3>1, <3>6 DEF ConnectionsFit
  <2> QED
    BY <1>4, <2>2, <2>3 DEF ServerSegment
<1>5. CASE KernelDestroy(s, f)
  <2>1. CountersKept
    BY <1>5, ClientSet DEF KernelDestroy, CountersKept
  <2>2. UNCHANGED hcs
    BY <1>5 DEF KernelDestroy
  <2>3. \/ sock[s][f].st = "zap" /\ SetSocket(s, f, "gone")
        \/ /\ sock[s][f].st = "fin" /\ hcs[s][f].imported
           /\ SetSocket(s, f, "gone")
        \/ /\ sock[s][f].st = "fin" /\ ~hcs[s][f].imported
           /\ PutSock(s, f, NoSock)
    BY <1>5 DEF KernelDestroy, PutSock
  <2>4. OnlyAt(s, f)
    BY <2>2, <2>3, SocketSet, SockAssigned DEF OnlyAt
  <2>5. Fits(hcs'[s][f], sock'[s][f], client'[f])
    <3>1. client'[f].req = cl.req /\ client'[f].resp = cl.resp
      BY <2>1 DEF CountersKept
    <3>2. CASE /\ SetSocket(s, f, "gone")
               /\ \/ sock[s][f].st = "zap"
                  \/ sock[s][f].st = "fin" /\ hcs[s][f].imported
      <4>1. /\ sock'[s][f].st = "gone" /\ sock'[s][f].rcv = sock[s][f].rcv
            /\ sock'[s][f].snd = sock[s][f].snd
        BY <3>2, SocketSet
      <4>2. hcs[s][f].phase \in Phases
        BY FieldTypes DEF HttpClientSockets
      <4> QED
        BY <1>0, <2>2, <3>1, <3>2, <4>1, <4>2
        DEF Fits, PhaseSocket, Numbers, Serving, Leaving, Working, Phases
    <3>3. CASE PutSock(s, f, NoSock) /\ sock[s][f].st = "fin"
               /\ ~hcs[s][f].imported
      <4>1. sock'[s][f] = NoSock
        BY <3>3, SockAssigned
      <4> QED
        BY <1>0, <2>2, <3>1, <3>3, <4>1
        DEF Fits, PhaseSocket, Numbers, Serving, Leaving, Working, NoSock
    <3> QED
      BY <2>3, <3>2, <3>3
  <2> QED
    BY <2>1, <2>4, <2>5, FitsFrame
<1>6. CASE DeliverSegment(s)
  <2> DEFINE seg == Head(link[s])
             g == seg.flow
             k == sock[s][g]
             live == k.st \in {"est", "cw"}
  <2>1. /\ g \in Flows /\ seg.k \in Nat
        /\ seg.kind \in {"data", "fin", "rst"}
        /\ seg.kind = "data" => seg.k <= client[g].req
        /\ seg.kind = "fin" => seg.k = client[g].req
    BY <1>6, SegmentReceived
  <2>2. k \in KernelSockets /\ Fits(hcs[s][g], k, client[g])
    BY <2>1, FieldTypes DEF ConnectionsFit
  <2>3. \/ UNCHANGED client
        \/ client' = [client EXCEPT ![g].st = "closed"]
    BY <1>6 DEF DeliverSegment
  <2>4. CountersKept
    <3> HIDE DEF g
    <3> QED
      BY <2>1, <2>3, ClientSet DEF CountersKept
  <2>5. UNCHANGED hcs
    BY <1>6 DEF DeliverSegment
  <2>6. CASE ~live
    <3>1. UNCHANGED sock
      BY <1>6, <2>6 DEF DeliverSegment
    <3> HIDE DEF g
    <3> QED
      BY <2>1, <2>2, <2>4, <2>5, <3>1 DEF ConnectionsFit, CountersKept, Fits, Numbers
  <2>7. CASE live
    <3>1. PICK e :
            /\ PutSock(s, g, e)
            /\ e.st \in {"est", "cw", "rst"} /\ e.snd = k.snd
            /\ \/ e.rcv = k.rcv
               \/ e.rcv = client[g].req
               \/ e.rcv = Later(seg.k, k.rcv) /\ seg.k <= client[g].req
      <4>1. CASE seg.kind = "data"
        <5> DEFINE e == [k EXCEPT !.rcv = Later(seg.k, k.rcv)]
        <5>1. e.st = k.st /\ e.snd = k.snd /\ e.rcv = Later(seg.k, k.rcv)
          BY <2>2 DEF KernelSockets
        <5>2. PutSock(s, g, e)
          BY <1>6, <2>7, <4>1 DEF DeliverSegment, PutSock
        <5> HIDE DEF e
        <5> QED
          BY <2>1, <2>7, <4>1, <5>1, <5>2
      <4>2. CASE seg.kind = "fin"
        <5> DEFINE e == [k EXCEPT !.st = "cw", !.rcv = seg.k]
        <5>1. e.st = "cw" /\ e.snd = k.snd /\ e.rcv = seg.k
          BY <2>2 DEF KernelSockets
        <5>2. PutSock(s, g, e)
          BY <1>6, <2>7, <4>2 DEF DeliverSegment, PutSock
        <5> HIDE DEF e
        <5> QED
          BY <2>1, <2>7, <4>2, <5>1, <5>2
      <4>3. CASE seg.kind = "rst"
        <5> DEFINE e == [k EXCEPT !.st = "rst"]
        <5>1. e.st = "rst" /\ e.snd = k.snd /\ e.rcv = k.rcv
          BY <2>2 DEF KernelSockets
        <5>2. PutSock(s, g, e)
          BY <1>6, <2>7, <4>3 DEF DeliverSegment, PutSock, SetSocket
        <5> HIDE DEF e
        <5> QED
          BY <2>1, <2>7, <4>3, <5>1, <5>2
      <4> QED
        BY <2>1, <4>1, <4>2, <4>3
    <3> HIDE DEF g
    <3>2. OnlyAt(s, g) /\ sock'[s][g] = e
      BY <2>1, <2>5, <3>1, SockAssigned DEF OnlyAt
    <3>3. client'[g].req = client[g].req /\ client'[g].resp = client[g].resp
      BY <2>1, <2>4 DEF CountersKept
    <3>4. /\ client[g].resp <= client[g].req
          /\ client[g].req <= client[g].resp + 1
      BY <2>1 DEF OneOutstanding
    <3>5. hcs[s][g].phase \in Serving \cup {"closing", "closewait", "none"}
            => hcs[s][g].phase \notin Leaving
      BY DEF Serving, Leaving
    <3>6. Fits(hcs'[s][g], sock'[s][g], client'[g])
      <4>1. PhaseSocket(hcs'[s][g], e)
        BY <2>2, <2>5, <2>7, <3>1 DEF Fits, PhaseSocket, Serving, Leaving
      <4>2. /\ hcs[s][g].req \in Nat /\ k.rcv \in Nat /\ k.snd \in Nat
            /\ client[g].req \in Nat /\ client[g].resp \in Nat
        BY <2>1, NumberTypes
      <4>3. k.snd <= k.rcv /\ client[g].resp <= k.snd /\ k.rcv <= client[g].req
        BY <2>2, <2>7 DEF Fits, Numbers
      <4>4. e.rcv \in Nat /\ k.rcv <= e.rcv /\ e.rcv <= client[g].req
        BY <2>1, <3>1, <4>2, <4>3 DEF Later
      <4>5. Numbers(hcs'[s][g], e, client'[g])
        <5>1. CASE hcs[s][g].phase \in Working
          <6>1. k.snd < k.rcv /\ hcs[s][g].req = k.rcv
            BY <2>2, <5>1 DEF Fits, Numbers
          <6>2. e.rcv = k.rcv
            BY <3>4, <4>2, <4>3, <4>4, <6>1
          <6> QED
            BY <2>2, <2>5, <3>1, <3>3, <4>2, <4>3, <6>1, <6>2 DEF Fits, Numbers
        <5>2. CASE hcs[s][g].phase \notin Working
          BY <2>2, <2>5, <3>1, <3>3, <4>2, <4>3, <4>4, <5>2
          DEF Fits, Numbers
        <5> QED
          BY <5>1, <5>2
      <4> QED
        BY <3>2, <4>1, <4>5 DEF Fits
    <3> QED
      BY <2>1, <2>4, <3>2, <3>6, FitsFrame
  <2> QED
    BY <2>6, <2>7
<1> QED
  BY <1>1, <1>2, <1>3, <1>4, <1>5, <1>6 DEF ClientStep

\* A reply that is received keeps the fit: its callback finds the connection
\* in the phase it expects (after_configure_switch, after_change_owner).
LEMMA FitsReply ==
  ASSUME TypeOK, ConnectionsFit, PacketsFit, CallbackFindsConnection,
         NEW s \in Servers,
         \/ LoseReply(s) \/ DropReply(s) \/ after_delete(s)
         \/ after_configure_switch(s) \/ after_change_owner(s)
  PROVE  ConnectionsFit'
<1> DEFINE r == Head(link[s]).req
           f == r.flow
<1>0. UNCHANGED client
  BY DEF LoseReply, DropReply, after_delete, after_configure_switch,
         after_change_owner
<1>1. CASE LoseReply(s) \/ DropReply(s) \/ after_delete(s)
  BY <1>1 DEF LoseReply, DropReply, after_delete, ConnectionsFit
<1>2. CASE after_configure_switch(s)
  <2>1. /\ r \in pending /\ f \in Flows /\ r.srv = s
        /\ r.type \in {"ADD", "LOCK"}
    BY <1>2, ReplyReceived DEF after_configure_switch
  <2>2. hcs[s][f].phase = "configuring"
    BY <2>1 DEF CallbackFindsConnection
  <2>3. CASE sock[s][f].st = "est"
    <3>1. SetPhase(s, f, "exporting") /\ SetSocket(s, f, "zap")
      BY <1>2, <2>3 DEF after_configure_switch, tcp_is_established
    <3> HIDE DEF f
    <3>2. /\ OnlyAt(s, f)
          /\ hcs'[s][f].phase = "exporting"
          /\ hcs'[s][f].req = hcs[s][f].req
          /\ sock'[s][f].st = "zap"
          /\ sock'[s][f].rcv = sock[s][f].rcv
          /\ sock'[s][f].snd = sock[s][f].snd
      BY <2>1, <3>1, PhaseSet, SocketSet DEF OnlyAt
    <3>3. Fits(hcs[s][f], sock[s][f], client[f])
      BY <2>1 DEF ConnectionsFit
    <3>4. Fits(hcs'[s][f], sock'[s][f], client'[f])
      BY <1>0, <2>2, <2>3, <3>2, <3>3
      DEF Fits, PhaseSocket, Numbers, Serving, Leaving, Working
    <3>5. CountersKept
      BY <1>0 DEF CountersKept
    <3> QED
      BY <2>1, <3>2, <3>4, <3>5, FitsFrame
  <2>4. CASE sock[s][f].st # "est"
    BY <1>0, <1>2, <2>4, FitsDie DEF after_configure_switch, tcp_is_established
  <2> QED
    BY <2>3, <2>4
<1>3. CASE after_change_owner(s)
  <2>1. r \in pending /\ f \in Flows /\ r.srv = s /\ r.type = "CHOWN"
    BY <1>3, ReplyReceived DEF after_change_owner
  <2>2. hcs[s][f].phase = "chowning"
    BY <2>1 DEF CallbackFindsConnection
  <2>3. SetPhase(s, f, "responding") /\ UNCHANGED sock
    BY <1>3 DEF after_change_owner
  <2> HIDE DEF f
  <2>4. /\ OnlyAt(s, f) /\ hcs'[s][f].phase = "responding"
        /\ hcs'[s][f].req = hcs[s][f].req
    BY <2>1, <2>3, PhaseSet DEF OnlyAt
  <2>5. Fits(hcs[s][f], sock[s][f], client[f])
    BY <2>1 DEF ConnectionsFit
  <2>6. Fits(hcs'[s][f], sock'[s][f], client'[f])
    BY <1>0, <2>2, <2>3, <2>4, <2>5
    DEF Fits, PhaseSocket, Numbers, Serving, Leaving, Working
  <2>7. CountersKept
    BY <1>0 DEF CountersKept
  <2> QED
    BY <2>1, <2>4, <2>6, <2>7, FitsFrame
<1> QED
  BY <1>1, <1>2, <1>3

\* An import makes a connection that fits the state in the message.
LEMMA FitsMessage ==
  ASSUME TypeOK, ConnectionsFit, MessagesFit, NEW m \in wire, MessageStep(m)
  PROVE  ConnectionsFit'
<1> DEFINE s == m.dst
           f == m.flow
<1>0. s \in Servers /\ f \in Flows /\ m.req \in Nat
      /\ m.rcv \in Nat /\ m.snd \in Nat
  BY DEF TypeOK, HandoffMessages
<1>1. CASE on_handoff_import(m)
  <2> DEFINE k == [st |-> "est", rcv |-> m.rcv, snd |-> m.snd]
             c == [phase |-> "chowning", imported |-> TRUE,
                   req |-> m.req, dest |-> Front]
  <2>1. PutSock(s, f, k) /\ PutHcs(s, f, c) /\ UNCHANGED client
    BY <1>1 DEF on_handoff_import, continue_import, PutSock, PutHcs
  <2>2. /\ k.st = "est" /\ k.rcv = m.rcv /\ k.snd = m.snd
        /\ c.phase = "chowning" /\ c.req = m.req
    OBVIOUS
  <2> HIDE DEF k, c
  <2>3. OnlyAt(s, f) /\ sock'[s][f] = k /\ hcs'[s][f] = c
    BY <1>0, <2>1, HcsAssigned, SockAssigned DEF OnlyAt
  <2>4. MessageFits(m, client[f])
    BY DEF MessagesFit
  <2>5. client[f].req \in Nat /\ client[f].resp \in Nat
    BY <1>0, NumberTypes
  <2>6. Fits(hcs'[s][f], sock'[s][f], client'[f])
    BY <1>0, <2>1, <2>2, <2>3, <2>4, <2>5
    DEF MessageFits, Fits, PhaseSocket, Numbers, Serving, Leaving, Working
  <2>7. CountersKept
    BY <2>1 DEF CountersKept
  <2> QED
    BY <1>0, <2>3, <2>6, <2>7, FitsFrame
<1>2. ASSUME NEW d \in Servers, on_handoff_forward(m, d)
      PROVE  ConnectionsFit'
  <2>1. UNCHANGED <<hcs, sock>> \/ Die(s, "handoff")
    BY <1>2 DEF on_handoff_forward
  <2>2. UNCHANGED client
    BY <1>2 DEF on_handoff_forward
  <2> QED
    BY <1>0, <2>1, <2>2, FitsDie DEF ConnectionsFit
<1> QED
  BY <1>1, <1>2 DEF MessageStep

-----------------------------------------------------------------------------
(* Clients, messages and packets.                                          *)

\* The steps in which a client sends a request or receives a response.
CounterStep ==
  \E f \in Flows : \/ on_connection(f)
                   \/ ClientRequest(f)
                   \/ \E s \in Servers : ServerSegment(s, f)

\* No other step does.
LEMMA CountersChange ==
  ASSUME TypeOK, [Next]_vars
  PROVE  CountersKept \/ CounterStep
<1>1. ASSUME NEW f \in Flows, ClientStep(f)
      PROVE  CountersKept \/ CounterStep
  BY <1>1, ClientSet
  DEF ClientStep, ClientClose, ClientReset, ClientSegment, CountersKept,
      CounterStep
<1>2. ASSUME NEW s \in Servers, NEW f \in Flows,
             ServerSegment(s, f) \/ KernelDestroy(s, f) \/ Callback(s, f)
      PROVE  CountersKept \/ CounterStep
  <2>1. CASE ServerSegment(s, f)
    BY <2>1 DEF CounterStep
  <2>2. CASE KernelDestroy(s, f)
    BY <2>2, ClientSet DEF KernelDestroy, CountersKept
  <2>3. CASE Callback(s, f)
    BY <2>3
    DEF CountersKept, Callback, on_read_eof, on_read_bad,
        on_read_answer, on_read_handoff, after_send_http_res,
        after_close_local, after_close_imported, after_real_close_imported,
        after_close, after_real_close, handoff_done
  <2> QED
    BY <1>2, <2>1, <2>2, <2>3
<1>3. ASSUME NEW s \in Servers, Arrival(s) \/ LoseReply(s)
      PROVE  CountersKept
  <2>1. CASE DeliverSegment(s)
    <3> DEFINE g == Head(link[s]).flow
    <3>1. g \in Flows
      BY <2>1, HeadType DEF DeliverSegment, Segments
    <3>2. \/ UNCHANGED client
          \/ client' = [client EXCEPT ![g].st = "closed"]
      BY <2>1 DEF DeliverSegment
    <3> HIDE DEF g
    <3> QED
      BY <3>1, <3>2, ClientSet DEF CountersKept
  <2> QED
    BY <1>3, <2>1
    DEF Arrival, LoseReply, DropReply, after_delete, after_configure_switch,
        after_change_owner, CountersKept
<1>4. ASSUME NEW r, SwitchConfig(r) \/ LoseRequest(r) \/ retry_send(r)
      PROVE  CountersKept
  BY <1>4 DEF SwitchConfig, LoseRequest, retry_send, CountersKept
<1>5. ASSUME NEW m \in wire, MessageStep(m)
      PROVE  CountersKept
  BY <1>5 DEF MessageStep, on_handoff_import, on_handoff_forward, CountersKept
<1>6. CASE UNCHANGED vars
  BY <1>6 DEF vars, CountersKept
<1> QED
  BY <1>1, <1>2, <1>3, <1>4, <1>5, <1>6 DEF Next

\* What the three steps do to the counters of the client f.
LEMMA ConnectionCounters ==
  ASSUME TypeOK, NEW f \in Flows, on_connection(f)
  PROVE  /\ \A g \in Flows : g # f => client'[g] = client[g]
         /\ client'[f].req = 0 /\ client'[f].resp = 0
BY DEF TypeOK, on_connection, NoClient

\* A request is sent when there is none outstanding.
LEMMA RequestCounters ==
  ASSUME TypeOK, NEW f \in Flows, ClientRequest(f)
  PROVE  /\ \A g \in Flows : g # f => client'[g] = client[g]
         /\ client[f].resp = client[f].req
         /\ client'[f].req = client[f].req + 1
         /\ client'[f].resp = client[f].resp
         /\ client'[f].st = client[f].st
<1> DEFINE n == [client[f] EXCEPT !.req = @ + 1]
<1>1. /\ n.req = client[f].req + 1
      /\ n.resp = client[f].resp
      /\ n.st = client[f].st
  BY DEF TypeOK, Clients
<1>2. \A g \in Flows : client'[g] = IF g = f THEN n ELSE client[g]
  BY DEF TypeOK, ClientRequest
<1> HIDE DEF n
<1> QED
  BY <1>1, <1>2 DEF ClientRequest

\* The response that is received is to the outstanding request.
LEMMA ResponseCounters ==
  ASSUME TypeOK, ConnectionsFit, OneOutstanding,
         NEW s \in Servers, NEW f \in Flows, ServerSegment(s, f)
  PROVE  \/ UNCHANGED client
         \/ /\ \A g \in Flows : g # f => client'[g] = client[g]
            /\ client'[f].req = client[f].req
            /\ client'[f].resp = client[f].req
            /\ client[f].resp < client[f].req
            /\ client'[f].st = client[f].st
            /\ UNCHANGED link
<1> DEFINE n == [client[f] EXCEPT !.resp = sock[s][f].snd]
<1>1. /\ n.req = client[f].req
      /\ n.resp = sock[s][f].snd
      /\ n.st = client[f].st
  BY DEF TypeOK, Clients
<1>2. CASE UNCHANGED client
  BY <1>2
<1>3. CASE client' = [client EXCEPT ![f].resp = sock[s][f].snd]
           /\ UNCHANGED link
  <2>1. \A g \in Flows : client'[g] = IF g = f THEN n ELSE client[g]
    BY <1>3 DEF TypeOK
  <2>2. Fits(hcs[s][f], sock[s][f], client[f])
    BY DEF ConnectionsFit
  <2>3. sock[s][f].snd > client[f].resp /\ sock[s][f].st \in {"est", "cw"}
    BY DEF ServerSegment
  <2>4. sock[s][f].snd = client[f].req /\ client[f].resp < client[f].req
    BY <2>2, <2>3, NumberTypes DEF Fits, Numbers, OneOutstanding
  <2> HIDE DEF n
  <2> QED
    BY <1>1, <1>3, <2>1, <2>4
<1> QED
  BY <1>2, <1>3 DEF ServerSegment

\* A client never has two requests outstanding.
LEMMA OutstandingStep ==
  ASSUME TypeOK, ConnectionsFit, OneOutstanding, [Next]_vars
  PROVE  OneOutstanding'
<1>0. \A f \in Flows : client[f].req \in Nat /\ client[f].resp \in Nat
  BY DEF TypeOK, Clients
<1>1. CASE CountersKept
  BY <1>1 DEF CountersKept, OneOutstanding
<1>2. ASSUME NEW f \in Flows, on_connection(f) PROVE OneOutstanding'
  BY <1>2, ConnectionCounters DEF OneOutstanding
<1>3. ASSUME NEW f \in Flows, ClientRequest(f) PROVE OneOutstanding'
  BY <1>0, <1>3, RequestCounters DEF OneOutstanding
<1>4. ASSUME NEW f \in Flows, NEW s \in Servers, ServerSegment(s, f)
      PROVE  OneOutstanding'
  BY <1>0, <1>4, ResponseCounters DEF OneOutstanding
<1> QED
  BY <1>1, <1>2, <1>3, <1>4, CountersChange DEF CounterStep

\* Where handoff messages come from (after_real_close, on_handoff_forward).
LEMMA WireChange ==
  ASSUME [Next]_vars
  PROVE  \/ wire' \subseteq wire
         \/ \E s \in Servers, f \in Flows : after_real_close(s, f)
         \/ \E m \in wire, d \in Servers : on_handoff_forward(m, d)
<1> DEFINE P == \/ wire' \subseteq wire
                \/ \E s \in Servers, f \in Flows : after_real_close(s, f)
                \/ \E m \in wire, d \in Servers : on_handoff_forward(m, d)
<1>1. ASSUME NEW f \in Flows, ClientStep(f) PROVE P
  BY <1>1 DEF ClientStep, on_connection, ClientRequest, ClientClose,
              ClientReset, ClientSegment
<1>2. ASSUME NEW s \in Servers, NEW f \in Flows,
             ServerSegment(s, f) \/ KernelDestroy(s, f) \/ Callback(s, f)
      PROVE  P
  <2>1. CASE after_real_close(s, f)
    BY <2>1
  <2>2. CASE ~after_real_close(s, f)
    BY <1>2, <2>2
    DEF ServerSegment, KernelDestroy, Callback, on_read_eof, on_read_bad,
        on_read_answer, on_read_handoff, after_send_http_res,
        after_close_local, after_close_imported, after_real_close_imported,
        after_close, handoff_done
  <2> QED
    BY <2>1, <2>2
<1>3. ASSUME NEW s \in Servers, Arrival(s) \/ LoseReply(s) PROVE P
  BY <1>3
  DEF Arrival, DeliverSegment, LoseReply, DropReply, after_delete,
      after_configure_switch, after_change_owner
<1>4. ASSUME NEW r, SwitchConfig(r) \/ LoseRequest(r) \/ retry_send(r) PROVE P
  BY <1>4 DEF SwitchConfig, LoseRequest, retry_send
<1>5. ASSUME NEW m \in wire, MessageStep(m) PROVE P
  BY <1>5 DEF MessageStep, on_handoff_import
<1>6. CASE UNCHANGED vars
  BY <1>6 DEF vars
<1> QED
  BY <1>1, <1>2, <1>3, <1>4, <1>5, <1>6 DEF Next

\* A handoff message keeps carrying the outstanding request.
LEMMA MessagesStep ==
  ASSUME TypeOK, OneHolder, ConnectionsFit, OneOutstanding, MessagesFit,
         [Next]_vars
  PROVE  MessagesFit'
<1>0. \A m \in wire :
        /\ m.flow \in Flows /\ m.req \in Nat /\ m.rcv \in Nat /\ m.snd \in Nat
        /\ client[m.flow].req \in Nat /\ client[m.flow].resp \in Nat
  BY DEF TypeOK, HandoffMessages, Clients
<1>1. CASE CountersKept
  <2>1. \A f \in Flows : client'[f].req = client[f].req
                         /\ client'[f].resp = client[f].resp
    BY <1>1 DEF CountersKept
  <2>2. CASE wire' \subseteq wire
    BY <1>0, <2>1, <2>2 DEF MessagesFit, MessageFits
  <2>3. ASSUME NEW s \in Servers, NEW f \in Flows, after_real_close(s, f)
        PROVE  MessagesFit'
    <3> DEFINE n == [dst |-> hcs[s][f].dest, flow |-> f, req |-> hcs[s][f].req,
                     rcv |-> sock[s][f].rcv, snd |-> sock[s][f].snd]
    <3>1. /\ wire' = wire \cup {n}
          /\ hcs[s][f].phase = "monitoring" /\ sock[s][f].st = "gone"
      BY <2>3 DEF after_real_close
    <3>2. /\ n.flow = f /\ n.req = hcs[s][f].req
          /\ n.rcv = sock[s][f].rcv /\ n.snd = sock[s][f].snd
      OBVIOUS
    <3> HIDE DEF n
    <3>3. Fits(hcs[s][f], sock[s][f], client[f])
      BY DEF ConnectionsFit
    <3>4. MessageFits(n, client'[f])
      BY <2>1, <3>1, <3>2, <3>3
      DEF Fits, Numbers, Working, Leaving, MessageFits
    <3>5. \A m \in wire : MessageFits(m, client'[m.flow])
      BY <1>0, <2>1 DEF MessagesFit, MessageFits
    <3> QED
      BY <3>1, <3>2, <3>4, <3>5 DEF MessagesFit
  <2>4. ASSUME NEW m \in wire, NEW d \in Servers, on_handoff_forward(m, d)
        PROVE  MessagesFit'
    <3> DEFINE n == [m EXCEPT !.dst = d]
    <3>1. wire' \subseteq wire \cup {n}
      BY <2>4 DEF on_handoff_forward
    <3>2. n.flow = m.flow /\ n.req = m.req /\ n.rcv = m.rcv /\ n.snd = m.snd
      BY DEF TypeOK, HandoffMessages
    <3> HIDE DEF n
    <3>3. \A o \in wire : MessageFits(o, client'[o.flow])
      BY <1>0, <2>1 DEF MessagesFit, MessageFits
    <3>4. MessageFits(n, client'[n.flow])
      BY <3>2, <3>3 DEF MessageFits
    <3> QED
      BY <3>1, <3>3, <3>4 DEF MessagesFit
  <2> QED
    BY <2>2, <2>3, <2>4, WireChange
<1>2. ASSUME NEW f \in Flows, on_connection(f) PROVE MessagesFit'
  <2>1. wire' = wire /\ \A m \in wire : m.flow # f
    BY <1>2 DEF on_connection, Quiet
  <2> QED
    BY <1>0, <1>2, <2>1, ConnectionCounters DEF MessagesFit
<1>3. ASSUME NEW f \in Flows, ClientRequest(f) PROVE MessagesFit'
  <2>1. wire' = wire
    BY <1>3 DEF ClientRequest
  <2> QED
    BY <1>0, <1>3, <2>1, RequestCounters DEF MessagesFit, MessageFits
<1>4. ASSUME NEW f \in Flows, NEW s \in Servers, ServerSegment(s, f)
      PROVE  MessagesFit'
  <2>1. wire' = wire /\ sock[s][f].st # "none"
    BY <1>4 DEF ServerSegment
  <2>2. \A m \in wire : m.flow # f
    BY <2>1 DEF OneHolder
  <2> QED
    BY <1>0, <1>4, <2>1, <2>2, ResponseCounters DEF MessagesFit
<1> QED
  BY <1>1, <1>2, <1>3, <1>4, CountersChange DEF CounterStep

\* A packet joins the link to server s.
Joins(s, p) == link' = [link EXCEPT ![s] = Append(@, p)]

\* What is on the links after that.
LEMMA PacketsJoin ==
  ASSUME TypeOK, NEW s \in Servers, NEW p, p \in Replies \cup Segments,
         Joins(s, p)
  PROVE  \A t \in Servers : \A q :
           q \in Packets(t)' => q \in Packets(t) \/ (t = s /\ q = p)
<1> SUFFICES ASSUME NEW t \in Servers, NEW q, q \in Packets(t)'
             PROVE  q \in Packets(t) \/ (t = s /\ q = p)
  OBVIOUS
<1>1. PICK i \in 1..Len(link'[t]) : q = link'[t][i]
  BY DEF Packets
<1>2. link[t] \in Seq(Replies \cup Segments)
  BY DEF TypeOK
<1>3. CASE t = s
  <2>1. link'[t] = Append(link[t], p)
    BY <1>3 DEF Joins, TypeOK
  <2>2. CASE i <= Len(link[t])
    <3>1. i \in 1..Len(link[t]) /\ q = link[t][i]
      BY <1>1, <1>2, <2>1, <2>2
    <3> QED
      BY <3>1 DEF Packets
  <2>3. CASE ~(i <= Len(link[t]))
    <3>1. i = Len(link[t]) + 1
      BY <1>1, <1>2, <2>1, <2>3
    <3> QED
      BY <1>1, <1>2, <1>3, <2>1, <3>1
  <2> QED
    BY <2>2, <2>3
<1>4. CASE t # s
  <2>1. link'[t] = link[t]
    BY <1>4 DEF Joins, TypeOK
  <2> QED
    BY <1>1, <2>1 DEF Packets
<1> QED
  BY <1>3, <1>4

\* What is on the links after a packet has arrived (PopLink).
LEMMA PacketsPop ==
  ASSUME TypeOK, NEW s \in Servers, link[s] # <<>>, PopLink(s)
  PROVE  \A t \in Servers : \A q : q \in Packets(t)' => q \in Packets(t)
<1> SUFFICES ASSUME NEW t \in Servers, NEW q, q \in Packets(t)'
             PROVE  q \in Packets(t)
  OBVIOUS
<1>1. PICK i \in 1..Len(link'[t]) : q = link'[t][i]
  BY DEF Packets
<1>2. link[t] \in Seq(Replies \cup Segments)
  BY DEF TypeOK
<1>3. CASE t = s
  <2>1. link'[t] = Tail(link[t])
    BY <1>3 DEF PopLink, TypeOK
  <2>2. Len(Tail(link[t])) = Len(link[t]) - 1 /\ Len(link[t]) \in Nat
    BY <1>2, <1>3
  <2>3. i + 1 \in 1..Len(link[t])
    BY <1>1, <2>1, <2>2
  <2>4. q = link[t][i + 1]
    BY <1>1, <1>2, <1>3, <2>1
  <2> QED
    BY <2>3, <2>4 DEF Packets
<1>4. CASE t # s
  <2>1. link'[t] = link[t]
    BY <1>4 DEF PopLink, TypeOK
  <2> QED
    BY <1>1, <2>1 DEF Packets
<1> QED
  BY <1>3, <1>4

\* What is on a link is a reply or a segment.
LEMMA PacketType ==
  ASSUME TypeOK, NEW s \in Servers, NEW p \in Packets(s)
  PROVE  /\ p \in Replies \cup Segments
         /\ p.kind # "reply" => p.flow \in Flows /\ p.k \in Nat
<1>1. PICK i \in 1..Len(link[s]) : p = link[s][i]
  BY DEF Packets
<1>2. link[s] \in Seq(Replies \cup Segments)
  BY DEF TypeOK
<1>3. p \in Replies \cup Segments
  BY <1>1, <1>2
<1> QED
  BY <1>3 DEF Replies, Segments

\* A client that is still there: it may have sent its next request, and it
\* does not open again.
GoesOn(g) ==
  \/ /\ client'[g].req = client[g].req
     /\ client'[g].st = "open" => client[g].st = "open"
  \/ client[g].st = "open" /\ client'[g].req = client[g].req + 1

\* Then what is on the links keeps fitting, and it is enough to look at what
\* joins them.
LEMMA PacketsFrame ==
  ASSUME TypeOK, PacketsFit, \A g \in Flows : GoesOn(g),
         \A t \in Servers : \A q :
           q \in Packets(t)' => q \in Packets(t) \/ PacketFits(t, q)'
  PROVE  PacketsFit'
<1> SUFFICES ASSUME NEW t \in Servers, NEW q \in Packets(t)
             PROVE  PacketFits(t, q)'
  BY DEF PacketsFit
<1>1. PacketFits(t, q)
  BY DEF PacketsFit
<1>2. q.kind # "reply" =>
        /\ q.flow \in Flows /\ q.k \in Nat
        /\ GoesOn(q.flow) /\ client[q.flow].req \in Nat
  BY PacketType DEF TypeOK, Clients
<1> QED
  BY <1>1, <1>2 DEF PacketFits, GoesOn

\* The link that the switch forwards a segment to.
LEMMA ForwardJoins ==
  ASSUME TypeOK, NEW f \in Flows, NEW seg, Forward(f, seg)
  PROVE  \E s \in Servers : Joins(s, seg)
<1>1. prism_in_lookup(prism, f) \in Servers
  BY SwitchAssumption DEF TypeOK, RuleTables, Rules, prism_in_lookup
<1> QED
  BY <1>1 DEF Forward, Joins

\* No step but a new connection reopens a client.
LEMMA ClientsGoOn ==
  ASSUME TypeOK, ConnectionsFit, OneOutstanding, [Next]_vars
  PROVE  \/ \A g \in Flows : GoesOn(g)
         \/ \E f \in Flows : on_connection(f)
<1> DEFINE P == \A g \in Flows : GoesOn(g)
<1>0. UNCHANGED client => P
  BY DEF GoesOn
<1>1. ASSUME NEW f \in Flows, NEW st \in {"closed", "fin"},
             client' = [client EXCEPT ![f].st = st]
      PROVE  P
  BY <1>1, ClientSet DEF GoesOn, CountersKept
<1>2. ASSUME NEW f \in Flows, ClientStep(f)
      PROVE  P \/ on_connection(f)
  <2>1. CASE ClientRequest(f)
    <3>1. client[f].st = "open"
      BY <2>1 DEF ClientRequest
    <3> QED
      BY <2>1, <3>1, RequestCounters DEF GoesOn
  <2>2. CASE ClientClose(f) \/ ClientReset(f) \/ ClientSegment(f)
    BY <1>0, <1>1, <2>2 DEF ClientClose, ClientReset, ClientSegment
  <2> QED
    BY <1>2, <2>1, <2>2 DEF ClientStep
<1>3. ASSUME NEW s \in Servers, NEW f \in Flows,
             ServerSegment(s, f) \/ KernelDestroy(s, f) \/ Callback(s, f)
      PROVE  P
  <2>1. CASE ServerSegment(s, f)
    BY <2>1, ResponseCounters DEF GoesOn
  <2>2. CASE KernelDestroy(s, f)
    BY <1>0, <1>1, <2>2 DEF KernelDestroy
  <2>3. CASE Callback(s, f)
    BY <1>0, <2>3
    DEF Callback, on_read_eof, on_read_bad,
        on_read_answer, on_read_handoff, after_send_http_res,
        after_close_local, after_close_imported, after_real_close_imported,
        after_close, after_real_close, handoff_done
  <2> QED
    BY <1>3, <2>1, <2>2, <2>3
<1>4. ASSUME NEW s \in Servers, Arrival(s) \/ LoseReply(s) PROVE P
  <2>1. CASE DeliverSegment(s)
    <3> DEFINE g == Head(link[s]).flow
    <3>1. g \in Flows
      BY <2>1, HeadType DEF DeliverSegment, Segments
    <3>2. \/ UNCHANGED client
          \/ client' = [client EXCEPT ![g].st = "closed"]
      BY <2>1 DEF DeliverSegment
    <3> HIDE DEF g, P
    <3> QED
      BY <1>0, <1>1, <3>1, <3>2
  <2> QED
    BY <1>0, <1>4, <2>1
    DEF Arrival, LoseReply, DropReply, after_delete, after_configure_switch,
        after_change_owner
<1>5. ASSUME NEW r, SwitchConfig(r) \/ LoseRequest(r) \/ retry_send(r)
      PROVE  P
  BY <1>0, <1>5 DEF SwitchConfig, LoseRequest, retry_send
<1>6. ASSUME NEW m \in wire, MessageStep(m) PROVE P
  BY <1>0, <1>6 DEF MessageStep, on_handoff_import, on_handoff_forward
<1>7. CASE UNCHANGED vars
  BY <1>0, <1>7 DEF vars
<1> QED
  BY <1>2, <1>3, <1>4, <1>5, <1>6, <1>7 DEF Next

\* What can join a link in a step.
LEMMA LinkChange ==
  ASSUME TypeOK, [Next]_vars
  PROVE  \A t \in Servers : \A q : q \in Packets(t)' =>
           q \in Packets(t) \/ (PacketFits(t, q) /\ UNCHANGED client)
             \/ q.kind = "rst"
<1> DEFINE P == \A t \in Servers : \A q : q \in Packets(t)' =>
                  q \in Packets(t) \/ (PacketFits(t, q) /\ UNCHANGED client)
                    \/ q.kind = "rst"
<1>0. UNCHANGED link => P
  BY DEF Packets
<1>1. ASSUME NEW s \in Servers, NEW p \in Replies \cup Segments,
             Joins(s, p), p.kind = "rst" \/ (PacketFits(s, p) /\ UNCHANGED client)
      PROVE  P
  BY <1>1, PacketsJoin
<1>2. ASSUME NEW f \in Flows, Forward(f, [kind |-> "rst", flow |-> f, k |-> 0])
      PROVE  P
  <2> DEFINE p == [kind |-> "rst", flow |-> f, k |-> 0]
  <2>1. p \in Segments /\ p.kind = "rst"
    BY DEF Segments
  <2> HIDE DEF p, P
  <2>2. PICK s \in Servers : Joins(s, p)
    BY <1>2, ForwardJoins DEF p
  <2> QED
    BY <1>1, <2>1, <2>2
<1>3. ASSUME NEW f \in Flows, ClientStep(f) PROVE P
  <2>1. CASE ClientSegment(f)
    <3> DEFINE p == [kind |-> IF client[f].st = "fin" THEN "fin" ELSE "data",
                     flow |-> f, k |-> client[f].req]
    <3>1. p \in Segments
      BY DEF Segments, TypeOK, Clients
    <3>2. \A t \in Servers : PacketFits(t, p)
      BY DEF PacketFits, TypeOK, Clients
    <3>3. Forward(f, p) /\ UNCHANGED client
      BY <2>1 DEF ClientSegment
    <3> HIDE DEF p, P
    <3>4. PICK s \in Servers : Joins(s, p)
      BY <3>3, ForwardJoins
    <3> QED
      BY <1>1, <3>1, <3>2, <3>3, <3>4
  <2> QED
    BY <1>0, <1>2, <1>3, <2>1
    DEF ClientStep, on_connection, ClientRequest, ClientClose, ClientReset
<1>4. ASSUME NEW s \in Servers, NEW f \in Flows,
             ServerSegment(s, f) \/ KernelDestroy(s, f) \/ Callback(s, f)
      PROVE  P
  BY <1>0, <1>2, <1>4
  DEF ServerSegment, KernelDestroy, Callback, on_read_eof, on_read_bad,
      on_read_answer, on_read_handoff, after_send_http_res,
      after_close_local, after_close_imported, after_real_close_imported,
      after_close, after_real_close, handoff_done
<1>5. ASSUME NEW s \in Servers, Arrival(s) \/ LoseReply(s) PROVE P
  <2>1. PopLink(s) /\ link[s] # <<>>
    BY <1>5, HeadType
    DEF Arrival, DeliverSegment, LoseReply, DropReply, after_delete,
        after_configure_switch, after_change_owner, on_recv
  <2> QED
    BY <2>1, PacketsPop
<1>6. ASSUME NEW r, SwitchConfig(r) \/ LoseRequest(r) \/ retry_send(r)
      PROVE  P
  <2>1. CASE SwitchConfig(r)
    <3>1. r \in Requests /\ r.srv \in Servers
      BY <2>1 DEF SwitchConfig, TypeOK, Requests
    <3> DEFINE p == config_prepare_response(r, configure_switch(prism, r).error)
    <3>2. p \in Replies /\ p.kind = "reply" /\ p.req = r
      BY <3>1 DEF config_prepare_response, Replies
    <3>3. Joins(r.srv, p) /\ UNCHANGED client
      BY <2>1 DEF SwitchConfig, Joins
    <3> HIDE DEF p, P
    <3>4. PacketFits(r.srv, p)
      BY <3>2 DEF PacketFits
    <3> QED
      BY <1>1, <3>1, <3>2, <3>3, <3>4
  <2> QED
    BY <1>0, <1>6, <2>1 DEF LoseRequest, retry_send
<1>7. ASSUME NEW m \in wire, MessageStep(m) PROVE P
  BY <1>0, <1>7 DEF MessageStep, on_handoff_import, on_handoff_forward
<1>8. CASE UNCHANGED vars
  BY <1>0, <1>8 DEF vars
<1> QED
  BY <1>3, <1>4, <1>5, <1>6, <1>7, <1>8 DEF Next

\* What is on the links keeps fitting.
LEMMA PacketsStep ==
  ASSUME TypeOK, ConnectionsFit, OneOutstanding, PacketsFit, [Next]_vars
  PROVE  PacketsFit'
<1>1. CASE \A g \in Flows : GoesOn(g)
  <2>1. \A t \in Servers : \A q : UNCHANGED client => PacketFits(t, q)' = PacketFits(t, q)
    BY DEF PacketFits
  <2>2. \A t \in Servers : \A q : q.kind = "rst" => PacketFits(t, q)'
    BY DEF PacketFits
  <2>3. \A t \in Servers : \A q :
          q \in Packets(t)' => q \in Packets(t) \/ PacketFits(t, q)'
    BY <2>1, <2>2, LinkChange
  <2> QED
    BY <1>1, <2>3, PacketsFrame
<1>2. ASSUME NEW f \in Flows, on_connection(f) PROVE PacketsFit'
  <2>1. /\ UNCHANGED link
        /\ \A t \in Servers : \A p \in Packets(t) :
             p.kind # "reply" => p.flow # f
    BY <1>2 DEF on_connection, Quiet, Packets
  <2>2. \A t \in Servers : Packets(t)' = Packets(t)
    BY <2>1 DEF Packets
  <2> SUFFICES ASSUME NEW t \in Servers, NEW p \in Packets(t)
               PROVE  PacketFits(t, p)'
    BY <2>2 DEF PacketsFit
  <2>3. PacketFits(t, p)
    BY DEF PacketsFit
  <2>4. p.kind # "reply" => p.flow # f /\ p.flow \in Flows
    BY <2>1, PacketType
  <2>5. p.kind # "reply" => client'[p.flow] = client[p.flow]
    BY <1>2, <2>4, ConnectionCounters
  <2> QED
    BY <2>3, <2>5 DEF PacketFits
<1> QED
  BY <1>1, <1>2, ClientsGoOn

-----------------------------------------------------------------------------
(* What the callbacks of configuration requests find.                      *)

\* A request whose callback uses the connection it is given.
Uses(r) == r.type \in {"ADD", "LOCK", "CHOWN"}

\* The connection c is as the callback of r expects it.
Expected(r, c) ==
  /\ r.type \in {"ADD", "LOCK"} =>
       c.phase = "configuring" /\ c.req = r.k /\ c.imported = (r.type = "LOCK")
  /\ r.type = "CHOWN" =>
       c.phase = "chowning" /\ c.req = r.k /\ c.imported

\* Only a connection that waits for a reply has a request that uses it.
LEMMA OneWaiting ==
  ASSUME CallbackFindsConnection, NEW r \in pending, Uses(r)
  PROVE  hcs[r.srv][r.flow].phase \in {"configuring", "chowning"}
BY DEF CallbackFindsConnection, Uses

\* It is enough to look at the connection that changes, and at the requests
\* that are new.
LEMMA ExpectedFrame ==
  ASSUME CallbackFindsConnection, TypeOK, TypeOK',
         NEW s \in Servers, NEW f \in Flows,
         \A t \in Servers, g \in Flows :
           t # s \/ g # f => hcs'[t][g] = hcs[t][g],
         \A r \in pending' :
           (r.srv = s /\ r.flow = f) \/ r \notin pending =>
             Expected(r, hcs'[r.srv][r.flow])
  PROVE  CallbackFindsConnection'
<1> SUFFICES ASSUME NEW r \in pending'
             PROVE  Expected(r, hcs'[r.srv][r.flow])
  BY DEF CallbackFindsConnection, Expected
<1>1. r.srv \in Servers /\ r.flow \in Flows
  BY DEF TypeOK, Requests
<1>2. CASE r \in pending /\ (r.srv # s \/ r.flow # f)
  <2>1. hcs'[r.srv][r.flow] = hcs[r.srv][r.flow]
    BY <1>1, <1>2
  <2>2. Expected(r, hcs[r.srv][r.flow])
    BY <1>2 DEF CallbackFindsConnection, Expected
  <2> QED
    BY <2>1, <2>2
<1> QED
  BY <1>2

\* A connection that waits for no reply may do anything.
LEMMA ExpectedIdle ==
  ASSUME CallbackFindsConnection, TypeOK, TypeOK',
         NEW s \in Servers, NEW f \in Flows,
         \A t \in Servers, g \in Flows :
           t # s \/ g # f => hcs'[t][g] = hcs[t][g],
         hcs[s][f].phase \notin {"configuring", "chowning"},
         \A r \in pending' :
           r \notin pending => Expected(r, hcs'[r.srv][r.flow])
  PROVE  CallbackFindsConnection'
<1>1. \A r \in pending : r.srv = s /\ r.flow = f => ~Uses(r)
  BY OneWaiting
<1>2. \A r, c : ~Uses(r) => Expected(r, c)
  BY DEF Uses, Expected
<1>3. \A r \in pending' :
        (r.srv = s /\ r.flow = f) \/ r \notin pending =>
          Expected(r, hcs'[r.srv][r.flow])
  BY <1>1, <1>2
<1> QED
  BY <1>3, ExpectedFrame

\* A process that dies takes its requests with it (Die).
LEMMA ExpectedDie ==
  ASSUME CallbackFindsConnection, TypeOK, NEW s \in Servers, NEW why,
         Die(s, why)
  PROVE  CallbackFindsConnection'
<1> SUFFICES ASSUME NEW r \in pending'
             PROVE  Expected(r, hcs'[r.srv][r.flow])
  BY DEF CallbackFindsConnection, Expected
<1>1. r \in pending /\ r.srv # s
  BY Died
<1>2. r.srv \in Servers /\ r.flow \in Flows
  BY <1>1 DEF TypeOK, Requests
<1>3. hcs'[r.srv][r.flow] = hcs[r.srv][r.flow]
  BY <1>1, <1>2, Died
<1>4. Expected(r, hcs[r.srv][r.flow])
  BY <1>1 DEF CallbackFindsConnection, Expected
<1> QED
  BY <1>3, <1>4

\* Closing needs no reply (phttp_start_close).
LEMMA ExpectedStartClose ==
  ASSUME CallbackFindsConnection, TypeOK, TypeOK',
         NEW s \in Servers, NEW f \in Flows, phttp_start_close(s, f),
         hcs[s][f].phase \in {"open", "responding"}
  PROVE  CallbackFindsConnection'
<1>1. CASE hcs[s][f].phase = "responding"
  BY <1>1, ExpectedDie DEF phttp_start_close
<1>2. CASE hcs[s][f].phase # "responding"
  <2>1. SetPhase(s, f, "closing") /\ pending' = pending
    BY <1>2 DEF phttp_start_close
  <2>2. \A t \in Servers, g \in Flows :
          t # s \/ g # f => hcs'[t][g] = hcs[t][g]
    BY <2>1, PhaseSet
  <2>3. hcs[s][f].phase \notin {"configuring", "chowning"}
    OBVIOUS
  <2> QED
    BY <2>1, <2>2, <2>3, ExpectedIdle
<1> QED
  BY <1>1, <1>2

\* No callback changes a connection under a request that uses it, and the
\* request it queues finds the connection as it leaves it.
LEMMA ExpectedCallback ==
  ASSUME CallbackFindsConnection, ConnectionsFit, TypeOK, TypeOK',
         NEW s \in Servers, NEW f \in Flows, Callback(s, f)
  PROVE  CallbackFindsConnection'
<1> DEFINE c == hcs[s][f]
           Rest == \A t \in Servers, g \in Flows :
                     t # s \/ g # f => hcs'[t][g] = hcs[t][g]
           idle == c.phase \notin {"configuring", "chowning"}
           New == \A r \in pending' :
                    r \notin pending => Expected(r, hcs'[r.srv][r.flow])
<1>0. Rest /\ idle /\ New => CallbackFindsConnection'
  BY ExpectedIdle
<1>1. CASE on_read_eof(s, f) \/ on_read_bad(s, f)
  BY <1>1, ExpectedStartClose DEF on_read_eof, on_read_bad, Readable
<1>2. CASE on_read_answer(s, f)
  <2> DEFINE d == [c EXCEPT !.req = sock[s][f].rcv, !.phase = "responding"]
  <2>1. PutHcs(s, f, d) /\ pending' = pending /\ c.phase = "open"
    BY <1>2 DEF on_read_answer, PutHcs, Readable
  <2> HIDE DEF d
  <2>2. Rest /\ idle /\ New
    BY <2>1, HcsAssigned
  <2> QED
    BY <1>0, <2>2
<1>3. ASSUME NEW e \in Servers, on_read_handoff(s, f, e)
      PROVE  CallbackFindsConnection'
  <2> DEFINE d == [c EXCEPT !.req = sock[s][f].rcv, !.dest = e,
                            !.phase = "configuring"]
             ty == IF c.imported THEN "LOCK" ELSE "ADD"
             q == [srv |-> s, flow |-> f, type |-> ty, k |-> sock[s][f].rcv]
  <2>1. /\ PutHcs(s, f, d) /\ pending' = pending \cup {q}
        /\ c.phase = "open"
    BY <1>3 DEF on_read_handoff, PutHcs, Readable,
                prism_switch_client_queue_task
  <2>2. /\ d.phase = "configuring" /\ d.req = sock[s][f].rcv
        /\ d.imported = c.imported
    BY FieldTypes DEF HttpClientSockets
  <2>3. /\ q.srv = s /\ q.flow = f /\ q.k = sock[s][f].rcv
        /\ q.type \in {"ADD", "LOCK"}
        /\ c.imported = (q.type = "LOCK")
    BY NumberTypes
  <2> HIDE DEF d, q
  <2>4. Rest /\ hcs'[s][f] = d
    BY <2>1, HcsAssigned
  <2>5. Expected(q, hcs'[q.srv][q.flow])
    BY <2>2, <2>3, <2>4 DEF Expected
  <2>6. idle /\ New
    BY <2>1, <2>5
  <2> QED
    BY <1>0, <2>4, <2>6
<1>4. CASE after_send_http_res(s, f)
  <2>1. CASE Die(s, "write")
    BY <2>1, ExpectedDie
  <2>2. CASE SetPhase(s, f, "open") /\ pending' = pending
    <3>1. Rest /\ idle /\ New
      BY <1>4, <2>2, PhaseSet DEF after_send_http_res
    <3> QED
      BY <1>0, <3>1
  <2> QED
    BY <1>4, <2>1, <2>2 DEF after_send_http_res
<1>5. CASE after_close_local(s, f) \/ (handoff_done(s, f) /\ UNCHANGED pending
                                        /\ PutHcs(s, f, NoHcs))
  <2>1. PutHcs(s, f, NoHcs) /\ pending' = pending /\ idle
    BY <1>5 DEF after_close_local, handoff_done, PutHcs
  <2>2. Rest /\ idle /\ New
    BY <2>1, HcsAssigned
  <2> QED
    BY <1>0, <2>2
<1>6. CASE after_close_imported(s, f) \/ after_close(s, f)
           \/ after_real_close(s, f)
  <2>1. PICK ph : SetPhase(s, f, ph) /\ pending' = pending /\ idle
    BY <1>6 DEF after_close_imported, after_close, after_real_close
  <2>2. Rest /\ idle /\ New
    BY <2>1, PhaseSet
  <2> QED
    BY <1>0, <2>2
<1>7. CASE after_real_close_imported(s, f)
  <2> DEFINE q == [srv |-> s, flow |-> f, type |-> "DELETE", k |-> c.req]
  <2>1. PutHcs(s, f, NoHcs) /\ pending' = pending \cup {q} /\ idle
    BY <1>7 DEF after_real_close_imported, PutHcs,
                prism_switch_client_queue_task
  <2>2. \A d : Expected(q, d)
    BY DEF Expected
  <2> HIDE DEF q
  <2>3. Rest /\ idle /\ New
    BY <2>1, <2>2, HcsAssigned
  <2> QED
    BY <1>0, <2>3
<1>8. CASE handoff_done(s, f) /\ Die(s, "handoff")
  BY <1>8, ExpectedDie
<1> QED
  BY <1>1, <1>2, <1>3, <1>4, <1>5, <1>6, <1>7, <1>8
  DEF Callback, handoff_done, PutHcs

\* A reply takes its request away, and no other one uses the connection.
LEMMA ExpectedReply ==
  ASSUME CallbackFindsConnection, PacketsFit, TypeOK, TypeOK',
         NEW s \in Servers,
         \/ LoseReply(s) \/ DropReply(s) \/ after_delete(s)
         \/ after_configure_switch(s) \/ after_change_owner(s)
  PROVE  CallbackFindsConnection'
<1> DEFINE r == Head(link[s]).req
           f == r.flow
<1>1. CASE LoseReply(s) \/ DropReply(s) \/ after_delete(s)
  BY <1>1 DEF LoseReply, DropReply, after_delete, CallbackFindsConnection
<1>2. ASSUME NEW types \in {{"ADD", "LOCK"}, {"CHOWN"}}, on_recv(s, types),
             NEW ph, SetPhase(s, f, ph), pending' = pending \ {r}
      PROVE  CallbackFindsConnection'
  <2>1. /\ r \in pending /\ r \in Requests /\ f \in Flows
        /\ r.srv = s /\ r.type \in types
    BY <1>2, ReplyReceived
  <2>2. SetPhase(s, f, ph)
    BY <1>2
  <2> HIDE DEF f
  <2>3. \A t \in Servers, g \in Flows :
          t # s \/ g # f => hcs'[t][g] = hcs[t][g]
    BY <2>1, <2>2, PhaseSet
  <2>4. ASSUME NEW q \in pending', q.srv = s, q.flow = f PROVE ~Uses(q)
    <3>1. q \in pending /\ q # r /\ q \in Requests
      BY <1>2, <2>4 DEF TypeOK
    <3>2. Expected(q, hcs[s][f]) /\ Expected(r, hcs[s][f])
      BY <2>1, <2>4, <3>1 DEF CallbackFindsConnection, Expected, f
    <3>3. CASE Uses(q)
      <4>1. q.k = r.k /\ q.type = r.type
        BY <2>1, <3>2, <3>3, <1>2 DEF Expected, Uses
      <4>2. q = r
        BY <2>1, <2>4, <3>1, <4>1 DEF Requests, f
      <4> QED
        BY <3>1, <4>2
    <3> QED
      BY <3>3
  <2>5. \A q, c : ~Uses(q) => Expected(q, c)
    BY DEF Uses, Expected
  <2>6. \A q \in pending' : (q.srv = s /\ q.flow = f) \/ q \notin pending =>
          Expected(q, hcs'[q.srv][q.flow])
    BY <1>2, <2>4, <2>5
  <2> QED
    BY <2>1, <2>3, <2>6, ExpectedFrame
<1>3. CASE after_configure_switch(s)
  <2>1. CASE Die(s, "export")
    BY <2>1, ExpectedDie
  <2>2. CASE SetPhase(s, f, "exporting") /\ pending' = pending \ {r}
    BY <1>2, <1>3, <2>2 DEF after_configure_switch
  <2> QED
    BY <1>3, <2>1, <2>2 DEF after_configure_switch
<1>4. CASE after_change_owner(s)
  BY <1>2, <1>4 DEF after_change_owner
<1> QED
  BY <1>1, <1>3, <1>4

\* The CHOWN of an import finds the connection that the import made.
LEMMA ExpectedMessage ==
  ASSUME CallbackFindsConnection, OneHolder, ConnectionsFit, TypeOK, TypeOK',
         NEW m \in wire, MessageStep(m)
  PROVE  CallbackFindsConnection'
<1> DEFINE s == m.dst
           f == m.flow
<1>0. s \in Servers /\ f \in Flows
  BY DEF TypeOK, HandoffMessages
<1>1. CASE on_handoff_import(m)
  <2> DEFINE c == [phase |-> "chowning", imported |-> TRUE,
                   req |-> m.req, dest |-> Front]
             q == [srv |-> s, flow |-> f, type |-> "CHOWN", k |-> m.req]
  <2>1. PutHcs(s, f, c) /\ pending' = pending \cup {q}
    BY <1>1 DEF on_handoff_import, PutHcs, start_change_owner,
                prism_switch_client_queue_task
  <2>2. sock[s][f].st = "none"
    BY <1>0 DEF OneHolder
  <2>3. hcs[s][f].phase \notin {"configuring", "chowning"}
    BY <1>0, <2>2 DEF ConnectionsFit, Fits, PhaseSocket, Serving
  <2>4. Expected(q, c) /\ q.srv = s /\ q.flow = f
    BY DEF Expected
  <2> HIDE DEF c, q
  <2>5. /\ hcs'[s][f] = c
        /\ \A t \in Servers, g \in Flows :
             t # s \/ g # f => hcs'[t][g] = hcs[t][g]
    BY <1>0, <2>1, HcsAssigned
  <2>6. \A r \in pending' :
          r \notin pending => Expected(r, hcs'[r.srv][r.flow])
    BY <2>1, <2>4, <2>5
  <2> QED
    BY <1>0, <2>3, <2>5, <2>6, ExpectedIdle
<1>2. ASSUME NEW d \in Servers, on_handoff_forward(m, d)
      PROVE  CallbackFindsConnection'
  <2>1. UNCHANGED <<hcs, pending>> \/ Die(s, "handoff")
    BY <1>2 DEF on_handoff_forward
  <2> QED
    BY <1>0, <2>1, ExpectedDie DEF CallbackFindsConnection
<1> QED
  BY <1>1, <1>2 DEF MessageStep

-----------------------------------------------------------------------------
(* The invariant.                                                          *)

\* The first state has no connections.
LEMMA ConnInit == Init => ConnInv
<1> SUFFICES ASSUME Init PROVE ConnInv
  OBVIOUS
<1>1. TypeOK
  BY TypeInit
<1>2. \A s \in Servers, f \in Flows : hcs[s][f] = NoHcs /\ sock[s][f] = NoSock
  BY DEF Init
<1>3. wire = {} /\ pending = {} /\ \A f \in Flows : client[f] = NoClient
  BY DEF Init
<1>4. OneHolder /\ MessagesFit /\ CallbackFindsConnection
  BY <1>2, <1>3 DEF OneHolder, MessagesFit, CallbackFindsConnection, NoSock
<1>5. ConnectionsFit
  BY <1>2, NothingFits DEF ConnectionsFit
<1>6. OneOutstanding
  BY <1>3 DEF OneOutstanding, NoClient
<1>7. PacketsFit
  BY DEF PacketsFit, Packets, Init
<1> QED
  BY <1>1, <1>4, <1>5, <1>6, <1>7 DEF ConnInv

\* Every step keeps connections, sockets and clients fitting.
LEMMA FitsStep ==
  ASSUME ConnInv, [Next]_vars
  PROVE  ConnectionsFit'
<1> USE DEF ConnInv
<1>0. Front \in Servers
  BY SwitchAssumption
<1>1. ASSUME NEW f \in Flows, ClientStep(f) PROVE ConnectionsFit'
  BY <1>0, <1>1, FitsEnvironment
<1>2. ASSUME NEW s \in Servers, NEW f \in Flows,
             ServerSegment(s, f) \/ KernelDestroy(s, f) \/ Callback(s, f)
      PROVE  ConnectionsFit'
  BY <1>2, FitsEnvironment, FitsCallback
<1>3. ASSUME NEW s \in Servers, Arrival(s) \/ LoseReply(s)
      PROVE  ConnectionsFit'
  <2>1. CASE DeliverSegment(s)
    <3>1. Head(link[s]).flow \in Flows
      BY <2>1, HeadType DEF DeliverSegment, Segments
    <3> QED
      BY <2>1, <3>1, FitsEnvironment
  <2> QED
    BY <1>3, <2>1, FitsReply DEF Arrival
<1>4. ASSUME NEW r, SwitchConfig(r) \/ LoseRequest(r) \/ retry_send(r)
      PROVE  ConnectionsFit'
  BY <1>4 DEF SwitchConfig, LoseRequest, retry_send, ConnectionsFit
<1>5. ASSUME NEW m \in wire, MessageStep(m) PROVE ConnectionsFit'
  BY <1>5, FitsMessage
<1>6. CASE UNCHANGED vars
  BY <1>6 DEF vars, ConnectionsFit
<1> QED
  BY <1>1, <1>2, <1>3, <1>4, <1>5, <1>6 DEF Next

\* Every step keeps the connections as the pending callbacks expect them.
LEMMA ExpectedStep ==
  ASSUME ConnInv, TypeOK', [Next]_vars
  PROVE  CallbackFindsConnection'
<1> USE DEF ConnInv
<1>1. ASSUME NEW f \in Flows, ClientStep(f) PROVE CallbackFindsConnection'
  <2>1. CASE on_connection(f)
    <3> DEFINE d == [NoHcs EXCEPT !.phase = "open"]
    <3>1. /\ PutHcs(Front, f, d) /\ pending' = pending
          /\ hcs[Front][f].phase = "none"
      BY <2>1, SwitchAssumption DEF on_connection, PutHcs, Quiet
    <3> HIDE DEF d
    <3>2. Front \in Servers
      BY SwitchAssumption
    <3>3. \A t \in Servers, g \in Flows :
            t # Front \/ g # f => hcs'[t][g] = hcs[t][g]
      BY <3>1, <3>2, HcsAssigned
    <3> QED
      BY <3>1, <3>2, <3>3, ExpectedIdle
  <2> QED
    BY <1>1, <2>1
    DEF ClientStep, ClientRequest, ClientClose, ClientReset, ClientSegment,
        CallbackFindsConnection
<1>2. ASSUME NEW s \in Servers, NEW f \in Flows,
             ServerSegment(s, f) \/ KernelDestroy(s, f) \/ Callback(s, f)
      PROVE  CallbackFindsConnection'
  <2>1. CASE ServerSegment(s, f) \/ KernelDestroy(s, f)
    BY <2>1 DEF ServerSegment, KernelDestroy, CallbackFindsConnection
  <2> QED
    BY <1>2, <2>1, ExpectedCallback
<1>3. ASSUME NEW s \in Servers, Arrival(s) \/ LoseReply(s)
      PROVE  CallbackFindsConnection'
  <2>1. CASE DeliverSegment(s)
    BY <2>1 DEF DeliverSegment, CallbackFindsConnection
  <2> QED
    BY <1>3, <2>1, ExpectedReply DEF Arrival
<1>4. ASSUME NEW r, SwitchConfig(r) \/ LoseRequest(r) \/ retry_send(r)
      PROVE  CallbackFindsConnection'
  BY <1>4 DEF SwitchConfig, LoseRequest, retry_send, CallbackFindsConnection
<1>5. ASSUME NEW m \in wire, MessageStep(m) PROVE CallbackFindsConnection'
  BY <1>5, ExpectedMessage
<1>6. CASE UNCHANGED vars
  BY <1>6 DEF vars, CallbackFindsConnection
<1> QED
  BY <1>1, <1>2, <1>3, <1>4, <1>5, <1>6 DEF Next

\* The invariant is inductive.
LEMMA ConnStep == ConnInv /\ [Next]_vars => ConnInv'
<1> SUFFICES ASSUME ConnInv, [Next]_vars PROVE ConnInv'
  OBVIOUS
<1>1. TypeOK'
  BY TypeStep DEF ConnInv
<1>2. OneHolder'
  BY OneHolderStep DEF ConnInv
<1>3. ConnectionsFit'
  BY FitsStep
<1>4. OneOutstanding' /\ MessagesFit' /\ PacketsFit'
  BY OutstandingStep, MessagesStep, PacketsStep DEF ConnInv
<1>5. CallbackFindsConnection'
  BY <1>1, ExpectedStep
<1> QED
  BY <1>1, <1>2, <1>3, <1>4, <1>5 DEF ConnInv

\* The invariant holds in every reachable state.
THEOREM ConnInvariant == Spec => []ConnInv
<1>1. Init => ConnInv
  BY ConnInit
<1>2. ConnInv /\ [Next]_vars => ConnInv'
  BY ConnStep
<1> QED
  BY <1>1, <1>2, PTL DEF Spec

\* The callback of a configuration request finds its connection alive and in
\* the phase that it expects, however late the reply is, whatever was lost
\* or repeated before it, and whatever the client and the other servers have
\* done since (after_configure_switch and after_change_owner dereference the
\* connection without a check).
THEOREM CallbacksFindConnections == Spec => []CallbackFindsConnection
<1>1. ConnInv => CallbackFindsConnection
  BY DEF ConnInv
<1> QED
  BY <1>1, ConnInvariant, PTL

\* The TCP state in a socket or in a handoff message is never older than
\* what the client has seen nor newer than what it has sent (tcp_export,
\* tcp_import, phttp_on_handoff).
THEOREM StatesNeverRegress == Spec => []StateNeverRegresses
<1>1. ConnInv => StateNeverRegresses
  <2> SUFFICES ASSUME ConnInv, NEW f \in Flows
               PROVE  /\ \A s \in Servers : sock[s][f].st # "none" =>
                           /\ client[f].resp <= sock[s][f].snd
                           /\ sock[s][f].snd <= sock[s][f].rcv
                           /\ sock[s][f].rcv <= client[f].req
                      /\ \A m \in wire : m.flow = f =>
                           /\ client[f].resp <= m.snd
                           /\ m.snd < m.rcv
                           /\ m.rcv = client[f].req
    BY DEF StateNeverRegresses
  <2>1. \A s \in Servers : Fits(hcs[s][f], sock[s][f], client[f])
    BY DEF ConnInv, ConnectionsFit
  <2>2. ASSUME NEW m \in wire, m.flow = f
        PROVE  /\ client[f].resp <= m.snd
               /\ m.snd < m.rcv
               /\ m.rcv = client[f].req
    <3>1. MessageFits(m, client[f])
      BY <2>2 DEF ConnInv, MessagesFit
    <3>2. /\ client[f].resp \in Nat /\ client[f].req \in Nat
          /\ m.snd \in Nat /\ m.rcv \in Nat
      BY DEF ConnInv, TypeOK, HandoffMessages, Clients
    <3>3. client[f].req <= client[f].resp + 1
      BY DEF ConnInv, OneOutstanding
    <3> QED
      BY <3>1, <3>2, <3>3 DEF MessageFits
  <2> QED
    BY <2>1, <2>2 DEF Fits, Numbers
<1> QED
  BY <1>1, ConnInvariant, PTL

-----------------------------------------------------------------------------
(* Dying processes.                                                        *)

\* The step of one server that ends in an assertion.
DeathExcused(s) ==
  \/ \E f \in Flows : sock[s][f].st \in {"cw", "rst"}
  \/ \E t \in Servers : ~Up(t)

\* A process that dies is the one that takes the step (Die).
LEMMA DeathOf ==
  ASSUME TypeOK, NEW s \in Servers, NEW why, Die(s, why), NEW t \in Servers,
         Up(t), ~Up(t)'
  PROVE  t = s
BY DEF TypeOK, Die, Up

\* A step in which a process dies is one whose assertion the client, or the
\* death of another server, makes fail.
LEMMA DeathStep ==
  ASSUME ConnInv, [Next]_vars, NEW t \in Servers, Up(t), ~Up(t)'
  PROVE  DeathExcused(t)
<1> USE DEF ConnInv
<1>0. UNCHANGED abort => FALSE
  BY DEF Up
<1>1. ASSUME NEW f \in Flows, ClientStep(f) PROVE FALSE
  BY <1>0, <1>1
  DEF ClientStep, on_connection, ClientRequest, ClientClose, ClientReset,
      ClientSegment
<1>2. ASSUME NEW s \in Servers, NEW f \in Flows,
             ServerSegment(s, f) \/ KernelDestroy(s, f) \/ Callback(s, f)
      PROVE  DeathExcused(t)
  <2>1. CASE on_read_eof(s, f)
    <3>1. sock[s][f].st \in {"cw", "rst"} /\ Die(s, "write")
      BY <1>0, <2>1 DEF on_read_eof, phttp_start_close
    <3>2. t = s
      BY <3>1, DeathOf
    <3> QED
      BY <3>1, <3>2 DEF DeathExcused
  <2>2. CASE on_read_bad(s, f)
    BY <1>0, <2>2 DEF on_read_bad, Readable, phttp_start_close
  <2>3. CASE after_send_http_res(s, f)
    <3>1. sock[s][f].st = "rst" /\ Die(s, "write")
      BY <1>0, <2>3 DEF after_send_http_res
    <3>2. t = s
      BY <3>1, DeathOf
    <3> QED
      BY <3>1, <3>2 DEF DeathExcused
  <2>4. CASE handoff_done(s, f)
    <3>1. ~Up(hcs[s][f].dest) /\ hcs[s][f].dest \in Servers
      BY <1>0, <2>4, FieldTypes DEF handoff_done
    <3> QED
      BY <3>1 DEF DeathExcused
  <2> QED
    BY <1>0, <1>2, <2>1, <2>2, <2>3, <2>4
    DEF ServerSegment, KernelDestroy, Callback, on_read_answer,
        on_read_handoff, after_close_local, after_close_imported,
        after_real_close_imported, after_close, after_real_close
<1>3. ASSUME NEW s \in Servers, Arrival(s) \/ LoseReply(s)
      PROVE  DeathExcused(t)
  <2>1. CASE after_configure_switch(s)
    <3> DEFINE r == Head(link[s]).req
               f == r.flow
    <3>1. sock[s][f].st # "est" /\ Die(s, "export")
      BY <1>0, <2>1 DEF after_configure_switch, tcp_is_established
    <3>2. /\ r \in pending /\ f \in Flows /\ r.srv = s
          /\ r.type \in {"ADD", "LOCK"}
      BY <2>1, ReplyReceived DEF after_configure_switch
    <3>3. hcs[s][f].phase = "configuring"
      BY <3>2 DEF CallbackFindsConnection
    <3>4. sock[s][f].st \in {"est", "cw", "rst"}
      BY <3>2, <3>3 DEF ConnectionsFit, Fits, PhaseSocket, Serving
    <3>5. t = s
      BY <3>1, DeathOf
    <3> QED
      BY <3>1, <3>2, <3>4, <3>5 DEF DeathExcused
  <2> QED
    BY <1>0, <1>3, <2>1
    DEF Arrival, DeliverSegment, LoseReply, DropReply, after_delete,
        after_change_owner
<1>4. ASSUME NEW r, SwitchConfig(r) \/ LoseRequest(r) \/ retry_send(r)
      PROVE  FALSE
  BY <1>0, <1>4 DEF SwitchConfig, LoseRequest, retry_send
<1>5. ASSUME NEW m \in wire, MessageStep(m) PROVE DeathExcused(t)
  BY <1>0, <1>5
  DEF MessageStep, on_handoff_import, on_handoff_forward, DeathExcused
<1>6. CASE UNCHANGED vars
  BY <1>0, <1>6 DEF vars
<1> QED
  BY <1>1, <1>2, <1>3, <1>4, <1>5, <1>6 DEF Next

\* A process ends in an assertion only after a client has left it or another
\* process has ended: no lost, repeated, refused or late configuration
\* request, no full rule table and no order of callbacks ends one.
THEOREM DeathsAreExcused == Spec => DiesOnlyOfClient
<1>1. ConnInv /\ [Next]_vars =>
        [\A s \in Servers : Up(s) /\ ~Up(s)' =>
           \/ \E f \in Flows : sock[s][f].st \in {"cw", "rst"}
           \/ \E t \in Servers : ~Up(t)]_vars
  BY DeathStep DEF DeathExcused
<1> QED
  BY <1>1, ConnInvariant, PTL DEF Spec, DiesOnlyOfClient

-----------------------------------------------------------------------------
(* The protocol implements FlowOwner.  Under the mapping of Handoff!Owner  *)
(* a connection is held by the server whose process can use its socket and *)
(* is in transit from the export to the import.                            *)

\* Who holds each connection does not change.
HoldersKept == \A g \in Flows : Holders(g)' = Holders(g)

\* Nor which connections are in transit.
TransitKept == \A g \in Flows : InTransit(g)' <=> InTransit(g)

\* The variables of FlowOwner that do not change with those of Handoff.
LEMMA MappedKept ==
  /\ HoldersKept =>
       [g \in Flows |-> Holders(g)]' = [g \in Flows |-> Holders(g)]
  /\ TransitKept =>
       [g \in Flows |-> InTransit(g)]' = [g \in Flows |-> InTransit(g)]
  /\ CountersKept =>
       /\ [g \in Flows |-> client[g].req]' = [g \in Flows |-> client[g].req]
       /\ [g \in Flows |-> client[g].resp]' = [g \in Flows |-> client[g].resp]
<1>1. HoldersKept =>
       [g \in Flows |-> Holders(g)]' = [g \in Flows |-> Holders(g)]
  BY DEF HoldersKept
<1>2. TransitKept =>
       [g \in Flows |-> InTransit(g)]' = [g \in Flows |-> InTransit(g)]
  <2>1. TransitKept => \A g \in Flows : InTransit(g)' = InTransit(g)
    BY DEF TransitKept, InTransit
  <2> QED
    BY <2>1
<1>3. CountersKept =>
       /\ [g \in Flows |-> client[g].req]' = [g \in Flows |-> client[g].req]
       /\ [g \in Flows |-> client[g].resp]' = [g \in Flows |-> client[g].resp]
  BY DEF CountersKept
<1> QED
  BY <1>1, <1>2, <1>3

\* Where nothing of that changes FlowOwner takes no step.
LEMMA OwnerStutters ==
  ASSUME HoldersKept, TransitKept, CountersKept
  PROVE  UNCHANGED Owner!vars
BY MappedKept DEF Owner!vars

\* Where connections only end, one or those of a process, it takes End.
LEMMA OwnerEnds ==
  ASSUME NEW F \in SUBSET Flows, CountersKept,
         \A g \in Flows : Holders(g)' = IF g \in F THEN {} ELSE Holders(g),
         \A g \in Flows : InTransit(g)' <=> InTransit(g) /\ g \notin F
  PROVE  Owner!Next
<1> DEFINE H == [g \in Flows |-> Holders(g)]
           T == [g \in Flows |-> InTransit(g)]
<1>1. H' = [g \in Flows |-> IF g \in F THEN {} ELSE H[g]]
  OBVIOUS
<1>2. T' = [g \in Flows |-> T[g] /\ g \notin F]
  <2>1. \A g \in Flows : InTransit(g)' = (InTransit(g) /\ g \notin F)
    BY DEF InTransit
  <2> QED
    BY <2>1
<1>3. Owner!End(F)
  BY <1>1, <1>2, MappedKept DEF Owner!End
<1> QED
  BY <1>3 DEF Owner!Next

\* Where a connection comes to be held by s, it takes Connect or Take.
LEMMA OwnerConnects ==
  ASSUME NEW f \in Flows, NEW s \in Servers, Holders(f) = {}, ~InTransit(f),
         \A g \in Flows : Holders(g)' = IF g = f THEN {s} ELSE Holders(g),
         TransitKept,
         \A g \in Flows : g # f => client'[g] = client[g],
         client'[f].req = 0, client'[f].resp = 0
  PROVE  Owner!Next
<1> DEFINE H == [g \in Flows |-> Holders(g)]
           T == [g \in Flows |-> InTransit(g)]
           Q == [g \in Flows |-> client[g].req]
           P == [g \in Flows |-> client[g].resp]
<1>1. H' = [H EXCEPT ![f] = {s}] /\ H[f] = {} /\ ~T[f]
  OBVIOUS
<1>2. Q' = [Q EXCEPT ![f] = 0] /\ P' = [P EXCEPT ![f] = 0]
  OBVIOUS
<1>3. Owner!Connect(f, s)
  BY <1>1, <1>2, MappedKept DEF Owner!Connect, Owner!Free
<1> QED
  BY <1>3 DEF Owner!Next

\* Likewise for a connection that is taken over.
LEMMA OwnerTakes ==
  ASSUME NEW f \in Flows, NEW s \in Servers, Holders(f) = {}, InTransit(f),
         \A g \in Flows : Holders(g)' = IF g = f THEN {s} ELSE Holders(g),
         \A g \in Flows : InTransit(g)' <=> InTransit(g) /\ g # f,
         CountersKept
  PROVE  Owner!Next
<1> DEFINE H == [g \in Flows |-> Holders(g)]
           T == [g \in Flows |-> InTransit(g)]
<1>1. H' = [H EXCEPT ![f] = {s}] /\ H[f] = {} /\ T[f]
  OBVIOUS
<1>2. T' = [T EXCEPT ![f] = FALSE]
  <2>1. \A g \in Flows : InTransit(g)' = (InTransit(g) /\ g # f)
    BY DEF InTransit
  <2>2. \A g \in Flows : InTransit(g) \in BOOLEAN
    BY DEF InTransit
  <2> QED
    BY <2>1, <2>2
<1>3. Owner!Take(f, s)
  BY <1>1, <1>2, MappedKept DEF Owner!Take
<1> QED
  BY <1>3 DEF Owner!Next

\* And for one that is given away.
LEMMA OwnerReleases ==
  ASSUME NEW f \in Flows, Holders(f) # {},
         \A g \in Flows : Holders(g)' = IF g = f THEN {} ELSE Holders(g),
         \A g \in Flows : InTransit(g)' <=> InTransit(g) \/ g = f,
         CountersKept
  PROVE  Owner!Next
<1> DEFINE H == [g \in Flows |-> Holders(g)]
           T == [g \in Flows |-> InTransit(g)]
<1>1. H' = [H EXCEPT ![f] = {}] /\ H[f] # {}
  OBVIOUS
<1>2. T' = [T EXCEPT ![f] = TRUE]
  <2>1. \A g \in Flows : InTransit(g)' = (InTransit(g) \/ g = f)
    BY DEF InTransit
  <2>2. \A g \in Flows : InTransit(g) \in BOOLEAN
    BY DEF InTransit
  <2> QED
    BY <2>1, <2>2
<1>3. Owner!Release(f)
  BY <1>1, <1>2, MappedKept DEF Owner!Release
<1> QED
  BY <1>3 DEF Owner!Next

\* A request that is sent, or a response that is received, is Ask or Reply.
LEMMA OwnerCounts ==
  ASSUME NEW f \in Flows, HoldersKept, TransitKept,
         \A g \in Flows : g # f => client'[g] = client[g],
         \/ /\ client[f].resp = client[f].req
            /\ client'[f].req = client[f].req + 1
            /\ client'[f].resp = client[f].resp
         \/ /\ Holders(f) # {}
            /\ client[f].resp < client[f].req
            /\ client'[f].req = client[f].req
            /\ client'[f].resp = client[f].req
  PROVE  Owner!Next
<1> DEFINE Q == [g \in Flows |-> client[g].req]
           P == [g \in Flows |-> client[g].resp]
<1>1. CASE /\ client[f].resp = client[f].req
           /\ client'[f].req = client[f].req + 1
           /\ client'[f].resp = client[f].resp
  <2>1. Q' = [Q EXCEPT ![f] = @ + 1] /\ P' = P /\ P[f] = Q[f]
    BY <1>1
  <2>2. Owner!Ask(f)
    BY <2>1, MappedKept DEF Owner!Ask
  <2> QED
    BY <2>2 DEF Owner!Next
<1>2. CASE /\ Holders(f) # {}
           /\ client[f].resp < client[f].req
           /\ client'[f].req = client[f].req
           /\ client'[f].resp = client[f].req
  <2>1. Q' = Q /\ P' = [P EXCEPT ![f] = Q[f]] /\ P[f] < Q[f]
    BY <1>2
  <2>2. Owner!Reply(f)
    BY <1>2, <2>1, MappedKept DEF Owner!Reply
  <2> QED
    BY <2>2 DEF Owner!Next
<1> QED
  BY <1>1, <1>2

\* A step that gives nobody a socket that it can use, takes none away, and
\* starts and ends no transit.
LEMMA NobodyMoves ==
  ASSUME \A t \in Servers, g \in Flows :
           sock'[t][g].st \in {"est", "cw", "rst"}
             <=> sock[t][g].st \in {"est", "cw", "rst"},
         \A t \in Servers, g \in Flows :
           hcs'[t][g].phase \in Leaving <=> hcs[t][g].phase \in Leaving,
         wire' = wire
  PROVE  HoldersKept /\ TransitKept
<1>1. HoldersKept
  BY DEF HoldersKept, Holders
<1>2. TransitKept
  BY DEF TransitKept, InTransit, Leaving
<1> QED
  BY <1>1, <1>2

\* The same for a step at one connection.
LEMMA NobodyMovesAt ==
  ASSUME NEW s \in Servers, NEW f \in Flows, OnlyAt(s, f), wire' = wire,
         sock'[s][f].st \in {"est", "cw", "rst"}
           <=> sock[s][f].st \in {"est", "cw", "rst"},
         hcs'[s][f].phase \in Leaving <=> hcs[s][f].phase \in Leaving
  PROVE  HoldersKept /\ TransitKept
<1>1. \A t \in Servers, g \in Flows :
        sock'[t][g].st \in {"est", "cw", "rst"}
          <=> sock[t][g].st \in {"est", "cw", "rst"}
  BY DEF OnlyAt
<1>2. \A t \in Servers, g \in Flows :
        hcs'[t][g].phase \in Leaving <=> hcs[t][g].phase \in Leaving
  BY DEF OnlyAt
<1> QED
  BY <1>1, <1>2, NobodyMoves

\* Where a server has a socket, the connection is at no other server and in
\* no message.
LEMMA HeldHere ==
  ASSUME ConnInv, NEW s \in Servers, NEW f \in Flows, sock[s][f].st # "none"
  PROVE  /\ \A t \in Servers : t # s =>
              sock[t][f].st = "none" /\ hcs[t][f].phase \notin Leaving
         /\ \A m \in wire : m.flow # f
<1>1. \A t \in Servers : t # s => sock[t][f].st = "none"
  BY DEF ConnInv, OneHolder
<1>2. \A t \in Servers : hcs[t][f].phase \in Leaving => sock[t][f].st # "none"
  BY DEF ConnInv, ConnectionsFit, Fits, PhaseSocket
<1>3. \A m \in wire : m.flow # f
  BY DEF ConnInv, OneHolder
<1> QED
  BY <1>1, <1>2, <1>3

\* The connections of a process that dies end, and so do those whose message
\* goes with it (Die).
LEMMA OwnerDies ==
  ASSUME ConnInv, NEW s \in Servers, NEW why, Die(s, why), CountersKept,
         wire' \subseteq wire
  PROVE  Owner!Next
<1> USE DEF ConnInv
<1> DEFINE L == {g \in Flows : \E m \in wire : m.flow = g /\ m \notin wire'}
           F == {g \in Flows : sock[s][g].st # "none"} \cup L
<1>1. \A t \in Servers, g \in Flows :
        /\ hcs'[t][g] = IF t = s THEN NoHcs ELSE hcs[t][g]
        /\ sock'[t][g] = IF t = s THEN NoSock ELSE sock[t][g]
  BY Died
<1>2. ASSUME NEW g \in Flows
      PROVE  /\ Holders(g)' = IF g \in F THEN {} ELSE Holders(g)
             /\ InTransit(g)' <=> InTransit(g) /\ g \notin F
  <2>0. /\ \A t \in Servers : t # s =>
             hcs'[t][g] = hcs[t][g] /\ sock'[t][g] = sock[t][g]
        /\ hcs'[s][g].phase = "none" /\ sock'[s][g].st = "none"
    BY <1>1 DEF NoHcs, NoSock
  <2>1. CASE sock[s][g].st # "none"
    <3>1. /\ \A t \in Servers : t # s =>
               sock[t][g].st = "none" /\ hcs[t][g].phase \notin Leaving
          /\ \A m \in wire : m.flow # g
      BY <2>1, HeldHere
    <3>2. Holders(g)' = {}
      BY <2>0, <3>1 DEF Holders
    <3>3. ~InTransit(g)'
      BY <2>0, <3>1 DEF InTransit, Leaving
    <3> QED
      BY <2>1, <3>2, <3>3
  <2>2. CASE sock[s][g].st = "none" /\ g \in L
    <3>1. PICK m \in wire : m.flow = g /\ m \notin wire'
      BY <2>2
    <3>2. /\ \A t \in Servers : sock[t][g].st = "none"
          /\ \A n \in wire : n.flow = g => n = m
      BY <3>1 DEF OneHolder
    <3>3. \A t \in Servers : hcs[t][g].phase \notin Leaving
      BY <3>2 DEF ConnectionsFit, Fits, PhaseSocket
    <3>4. Holders(g)' = {}
      BY <2>0, <3>2 DEF Holders
    <3>5. ~InTransit(g)'
      BY <2>0, <3>1, <3>2, <3>3 DEF InTransit, Leaving
    <3> QED
      BY <2>2, <3>4, <3>5
  <2>3. CASE sock[s][g].st = "none" /\ g \notin L
    <3>1. hcs[s][g].phase \notin Leaving
      BY <2>3 DEF ConnectionsFit, Fits, PhaseSocket
    <3>2. Holders(g)' = Holders(g)
      BY <2>0, <2>3 DEF Holders
    <3>3. InTransit(g)' <=> InTransit(g)
      BY <2>0, <2>3, <3>1 DEF InTransit, Leaving
    <3> QED
      BY <2>3, <3>2, <3>3
  <2> QED
    BY <2>1, <2>2, <2>3
<1>3. F \in SUBSET Flows
  OBVIOUS
<1> HIDE DEF F
<1> QED
  BY <1>2, <1>3, OwnerEnds

\* A callback is a step of FlowOwner or none.
LEMMA OwnerCallback ==
  ASSUME ConnInv, NEW s \in Servers, NEW f \in Flows, Callback(s, f)
  PROVE  Owner!Next \/ UNCHANGED Owner!vars
<1> USE DEF ConnInv
<1> DEFINE c == hcs[s][f]
           k == sock[s][f]
<1>0. CountersKept
  BY DEF CountersKept, Callback, on_read_eof, on_read_bad,
         on_read_answer, on_read_handoff, after_send_http_res,
         after_close_local, after_close_imported, after_real_close_imported,
         after_close, after_real_close, handoff_done
<1>1. CASE on_read_eof(s, f) \/ on_read_bad(s, f)
  <2>1. /\ phttp_start_close(s, f) /\ wire' = wire /\ k.st # "none"
        /\ c.phase \in {"open", "responding"}
    BY <1>1 DEF on_read_eof, on_read_bad, Readable
  <2>2. CASE c.phase = "responding"
    BY <1>0, <2>1, <2>2, OwnerDies DEF phttp_start_close
  <2>3. CASE c.phase # "responding"
    <3>1. SetPhase(s, f, "closing") /\ SetSocket(s, f, "fin")
      BY <2>1, <2>3 DEF phttp_start_close
    <3>2. OnlyAt(s, f) /\ hcs'[s][f].phase = "closing" /\ sock'[s][f].st = "fin"
      BY <3>1, PhaseSet, SocketSet DEF OnlyAt
    <3>3. /\ \A t \in Servers : t # s =>
               sock[t][f].st = "none" /\ hcs[t][f].phase \notin Leaving
          /\ \A m \in wire : m.flow # f
      BY <2>1, HeldHere
    <3>4. Holders(f)' = {} /\ ~InTransit(f)'
      BY <2>1, <3>2, <3>3 DEF Holders, InTransit, OnlyAt, Leaving
    <3>5. \A g \in Flows : g # f =>
            Holders(g)' = Holders(g) /\ (InTransit(g)' <=> InTransit(g))
      <4> SUFFICES ASSUME NEW g \in Flows, g # f
                   PROVE  /\ Holders(g)' = Holders(g)
                          /\ InTransit(g)' <=> InTransit(g)
        OBVIOUS
      <4>1. Holders(g)' = Holders(g)
        BY <3>2 DEF Holders, OnlyAt
      <4>2. InTransit(g)' <=> InTransit(g)
        BY <2>1, <3>2 DEF InTransit, OnlyAt
      <4> QED
        BY <4>1, <4>2
    <3> DEFINE F == {f}
    <3>6. /\ F \in SUBSET Flows
          /\ \A g \in Flows : Holders(g)' = IF g \in F THEN {} ELSE Holders(g)
          /\ \A g \in Flows : InTransit(g)' <=> InTransit(g) /\ g \notin F
      BY <3>4, <3>5
    <3> HIDE DEF F
    <3> QED
      BY <1>0, <3>6, OwnerEnds
  <2> QED
    BY <2>2, <2>3
<1>2. ASSUME NEW d, PutHcs(s, f, d), d.phase \notin Leaving,
             c.phase \notin Leaving, UNCHANGED <<sock, wire>>
      PROVE  UNCHANGED Owner!vars
  <2>1. OnlyAt(s, f) /\ hcs'[s][f] = d
    BY <1>2, HcsAssigned DEF OnlyAt
  <2>2. HoldersKept /\ TransitKept
    BY <1>2, <2>1, NobodyMovesAt
  <2> QED
    BY <1>0, <2>2, OwnerStutters
<1>3. ASSUME NEW ph, SetPhase(s, f, ph),
             ph \in Leaving <=> c.phase \in Leaving, UNCHANGED wire,
             \A t \in Servers, g \in Flows :
               t # s \/ g # f => sock'[t][g] = sock[t][g],
             sock'[s][f].st = k.st
      PROVE  UNCHANGED Owner!vars
  <2>1. OnlyAt(s, f) /\ hcs'[s][f].phase = ph
    BY <1>3, PhaseSet DEF OnlyAt
  <2>2. HoldersKept /\ TransitKept
    BY <1>3, <2>1, NobodyMovesAt
  <2> QED
    BY <1>0, <2>2, OwnerStutters
<1>4. CASE on_read_answer(s, f)
  <2> DEFINE d == [c EXCEPT !.req = k.rcv, !.phase = "responding"]
  <2>1. d.phase = "responding"
    BY FieldTypes DEF HttpClientSockets
  <2>2. PutHcs(s, f, d) /\ UNCHANGED <<sock, wire>> /\ c.phase = "open"
    BY <1>4 DEF on_read_answer, PutHcs, Readable
  <2> HIDE DEF d
  <2> QED
    BY <1>2, <2>1, <2>2 DEF Leaving
<1>5. ASSUME NEW e \in Servers, on_read_handoff(s, f, e)
      PROVE  UNCHANGED Owner!vars
  <2> DEFINE d == [c EXCEPT !.req = k.rcv, !.dest = e, !.phase = "configuring"]
  <2>1. d.phase = "configuring"
    BY FieldTypes DEF HttpClientSockets
  <2>2. PutHcs(s, f, d) /\ UNCHANGED <<sock, wire>> /\ c.phase = "open"
    BY <1>5 DEF on_read_handoff, PutHcs, Readable
  <2> HIDE DEF d
  <2> QED
    BY <1>2, <2>1, <2>2 DEF Leaving
<1>6. CASE after_send_http_res(s, f)
  <2>1. CASE k.st = "rst"
    BY <1>0, <1>6, <2>1, OwnerDies DEF after_send_http_res
  <2>2. CASE k.st # "rst"
    <3> DEFINE d == [k EXCEPT !.snd = c.req]
    <3>1. d.st = k.st
      BY FieldTypes DEF KernelSockets
    <3>2. /\ SetPhase(s, f, "open") /\ PutSock(s, f, d) /\ UNCHANGED wire
          /\ c.phase = "responding"
      BY <1>6, <2>2 DEF after_send_http_res, PutSock
    <3> HIDE DEF d
    <3>3. /\ sock'[s][f].st = k.st
          /\ \A t \in Servers, g \in Flows :
               t # s \/ g # f => sock'[t][g] = sock[t][g]
      BY <3>1, <3>2, SockAssigned
    <3> QED
      BY <1>3, <3>2, <3>3 DEF Leaving
  <2> QED
    BY <2>1, <2>2
<1>7. CASE after_close_local(s, f)
  <2>1. PutHcs(s, f, NoHcs) /\ UNCHANGED <<sock, wire>> /\ c.phase = "closing"
    BY <1>7 DEF after_close_local, PutHcs
  <2> QED
    BY <1>2, <2>1 DEF Leaving, NoHcs
<1>8. CASE after_close_imported(s, f) \/ after_close(s, f)
  <2>1. PICK ph : /\ SetPhase(s, f, ph) /\ UNCHANGED <<sock, wire>>
                  /\ ph \in Leaving <=> c.phase \in Leaving
    BY <1>8 DEF after_close_imported, after_close, Leaving
  <2> QED
    BY <1>3, <2>1
<1>9. CASE after_real_close_imported(s, f)
  <2>1. /\ PutHcs(s, f, NoHcs) /\ PutSock(s, f, NoSock) /\ UNCHANGED wire
        /\ c.phase = "closewait" /\ k.st = "gone"
    BY <1>9 DEF after_real_close_imported, PutHcs, PutSock
  <2>2. OnlyAt(s, f) /\ hcs'[s][f] = NoHcs /\ sock'[s][f] = NoSock
    BY <2>1, HcsAssigned, SockAssigned DEF OnlyAt
  <2>3. HoldersKept /\ TransitKept
    BY <2>1, <2>2, NobodyMovesAt DEF Leaving, NoHcs, NoSock
  <2> QED
    BY <1>0, <2>3, OwnerStutters
<1>10. CASE after_real_close(s, f)
  <2> DEFINE m == [dst |-> c.dest, flow |-> f, req |-> c.req,
                   rcv |-> k.rcv, snd |-> k.snd]
  <2>1. /\ SetPhase(s, f, "sending") /\ PutSock(s, f, NoSock)
        /\ wire' = wire \cup {m}
        /\ c.phase = "monitoring" /\ k.st = "gone" /\ m.flow = f
    BY <1>10 DEF after_real_close, PutSock
  <2> HIDE DEF m
  <2>2. /\ OnlyAt(s, f) /\ hcs'[s][f].phase = "sending"
        /\ sock'[s][f] = NoSock
    BY <2>1, PhaseSet, SockAssigned DEF OnlyAt
  <2>3. HoldersKept
    BY <2>1, <2>2 DEF HoldersKept, Holders, OnlyAt, NoSock
  <2>4. InTransit(f) /\ InTransit(f)'
    BY <2>1 DEF InTransit
  <2>5. \A g \in Flows : g # f => (InTransit(g)' <=> InTransit(g))
    BY <2>1, <2>2 DEF InTransit, OnlyAt
  <2>6. TransitKept
    BY <2>4, <2>5 DEF TransitKept
  <2> QED
    BY <1>0, <2>3, <2>6, OwnerStutters
<1>11. CASE handoff_done(s, f)
  <2>1. CASE Die(s, "handoff")
    BY <1>0, <1>11, <2>1, OwnerDies DEF handoff_done
  <2>2. CASE PutHcs(s, f, NoHcs) /\ UNCHANGED sock
    <3>1. UNCHANGED wire /\ c.phase = "sending"
      BY <1>11 DEF handoff_done
    <3> QED
      BY <1>2, <2>2, <3>1 DEF Leaving, NoHcs
  <2> QED
    BY <1>11, <2>1, <2>2 DEF handoff_done, PutHcs
<1> QED
  BY <1>1, <1>4, <1>5, <1>6, <1>7, <1>8, <1>9, <1>10, <1>11 DEF Callback

\* So is what arrives from the switch: an export is Release.
LEMMA OwnerArrival ==
  ASSUME ConnInv, NEW s \in Servers, Arrival(s) \/ LoseReply(s), CountersKept
  PROVE  Owner!Next \/ UNCHANGED Owner!vars
<1> USE DEF ConnInv
<1>1. CASE DeliverSegment(s)
  <2> DEFINE seg == Head(link[s])
             g == seg.flow
  <2>1. g \in Flows /\ seg.kind \in {"data", "fin", "rst"}
    BY <1>1, SegmentReceived
  <2>2. UNCHANGED <<hcs, wire>>
    BY <1>1 DEF DeliverSegment
  <2>3. /\ \A t \in Servers, h \in Flows :
             t # s \/ h # g => sock'[t][h] = sock[t][h]
        /\ sock'[s][g].st \in {"est", "cw", "rst"}
             <=> sock[s][g].st \in {"est", "cw", "rst"}
    <3>1. CASE sock[s][g].st \notin {"est", "cw"}
      BY <1>1, <3>1 DEF DeliverSegment
    <3>2. CASE sock[s][g].st \in {"est", "cw"}
      <4>1. PICK e : PutSock(s, g, e) /\ e.st \in {"est", "cw", "rst"}
        <5>1. CASE seg.kind = "data"
          <6> DEFINE e == [sock[s][g] EXCEPT !.rcv = Later(seg.k, sock[s][g].rcv)]
          <6>1. e.st = sock[s][g].st
            BY <2>1, FieldTypes DEF KernelSockets
          <6>2. PutSock(s, g, e)
            BY <1>1, <3>2, <5>1 DEF DeliverSegment, PutSock
          <6> HIDE DEF e
          <6> QED
            BY <3>2, <6>1, <6>2
        <5>2. CASE seg.kind = "fin"
          <6> DEFINE e == [sock[s][g] EXCEPT !.st = "cw", !.rcv = seg.k]
          <6>1. e.st = "cw"
            BY <2>1, FieldTypes DEF KernelSockets
          <6>2. PutSock(s, g, e)
            BY <1>1, <3>2, <5>2 DEF DeliverSegment, PutSock
          <6> HIDE DEF e
          <6> QED
            BY <6>1, <6>2
        <5>3. CASE seg.kind = "rst"
          <6> DEFINE e == [sock[s][g] EXCEPT !.st = "rst"]
          <6>1. e.st = "rst"
            BY <2>1, FieldTypes DEF KernelSockets
          <6>2. PutSock(s, g, e)
            BY <1>1, <3>2, <5>3 DEF DeliverSegment, PutSock, SetSocket
          <6> HIDE DEF e
          <6> QED
            BY <6>1, <6>2
        <5> QED
          BY <2>1, <5>1, <5>2, <5>3
      <4> HIDE DEF g
      <4> QED
        BY <2>1, <3>2, <4>1, SockAssigned
    <3> QED
      BY <3>1, <3>2
  <2> HIDE DEF g
  <2>4. OnlyAt(s, g)
    BY <2>2, <2>3 DEF OnlyAt
  <2>5. HoldersKept /\ TransitKept
    BY <2>1, <2>2, <2>3, <2>4, NobodyMovesAt
  <2> QED
    BY <2>5, OwnerStutters
<1>2. CASE LoseReply(s) \/ DropReply(s) \/ after_delete(s)
  <2>1. UNCHANGED <<hcs, sock, wire>>
    BY <1>2 DEF LoseReply, DropReply, after_delete
  <2>2. HoldersKept /\ TransitKept
    BY <2>1, NobodyMoves
  <2> QED
    BY <2>2, OwnerStutters
<1>3. CASE after_configure_switch(s)
  <2>0. Head(link[s]).req.flow \in Flows
    BY <1>3, ReplyReceived DEF after_configure_switch
  <2>1. PICK f \in Flows : f = Head(link[s]).req.flow
    BY <2>0
  <2>2. wire' = wire
    BY <1>3 DEF after_configure_switch
  <2>3. CASE sock[s][f].st # "est"
    BY <1>3, <2>1, <2>2, <2>3, OwnerDies DEF after_configure_switch, tcp_is_established
  <2>4. CASE sock[s][f].st = "est"
    <3>1. SetPhase(s, f, "exporting") /\ SetSocket(s, f, "zap")
      BY <1>3, <2>1, <2>4 DEF after_configure_switch, tcp_is_established
    <3>2. /\ OnlyAt(s, f) /\ hcs'[s][f].phase = "exporting"
          /\ sock'[s][f].st = "zap"
      BY <2>1, <3>1, PhaseSet, SocketSet DEF OnlyAt
    <3>3. \A t \in Servers : t # s => sock[t][f].st = "none"
      BY <2>1, <2>4, HeldHere
    <3>4. Holders(f)' = {} /\ Holders(f) # {} /\ InTransit(f)'
      BY <2>1, <2>4, <3>2, <3>3 DEF Holders, InTransit, OnlyAt
    <3>5. ASSUME NEW g \in Flows, g # f
          PROVE  Holders(g)' = Holders(g) /\ (InTransit(g)' <=> InTransit(g))
      <4>1. Holders(g)' = Holders(g)
        BY <3>2, <3>5 DEF Holders, OnlyAt
      <4>2. InTransit(g)' <=> InTransit(g)
        BY <2>2, <3>2, <3>5 DEF InTransit, OnlyAt
      <4> QED
        BY <4>1, <4>2
    <3>6. /\ \A g \in Flows : Holders(g)' = IF g = f THEN {} ELSE Holders(g)
          /\ \A g \in Flows : InTransit(g)' <=> InTransit(g) \/ g = f
      BY <3>4, <3>5
    <3> QED
      BY <2>1, <3>4, <3>6, OwnerReleases
  <2> QED
    BY <2>3, <2>4
<1>4. CASE after_change_owner(s)
  <2> DEFINE r == Head(link[s]).req
             f == r.flow
  <2>1. f \in Flows /\ r \in pending /\ r.srv = s /\ r.type = "CHOWN"
    BY <1>4, ReplyReceived DEF after_change_owner
  <2>2. SetPhase(s, f, "responding") /\ UNCHANGED <<sock, wire>>
    BY <1>4 DEF after_change_owner
  <2>3. hcs[s][f].phase = "chowning"
    BY <2>1 DEF CallbackFindsConnection
  <2> HIDE DEF f
  <2>4. OnlyAt(s, f) /\ hcs'[s][f].phase = "responding"
    BY <2>1, <2>2, PhaseSet DEF OnlyAt
  <2>5. HoldersKept /\ TransitKept
    BY <2>1, <2>2, <2>3, <2>4, NobodyMovesAt DEF Leaving
  <2> QED
    BY <2>5, OwnerStutters
<1> QED
  BY <1>1, <1>2, <1>3, <1>4 DEF Arrival

\* So is what a handoff message does: an import is Take.
LEMMA OwnerMessage ==
  ASSUME ConnInv, NEW m \in wire, MessageStep(m), CountersKept
  PROVE  Owner!Next \/ UNCHANGED Owner!vars
<1> USE DEF ConnInv
<1> DEFINE s == m.dst
           f == m.flow
<1>0. s \in Servers /\ f \in Flows
  BY DEF TypeOK, HandoffMessages
<1>1. /\ \A t \in Servers : sock[t][f].st = "none"
      /\ \A n \in wire : n.flow = f => n = m
  BY <1>0 DEF OneHolder
<1>2. \A t \in Servers : hcs[t][f].phase \notin Leaving
  BY <1>0, <1>1 DEF ConnectionsFit, Fits, PhaseSocket
<1>3. Holders(f) = {} /\ InTransit(f)
  BY <1>1 DEF Holders, InTransit
<1>4. CASE on_handoff_import(m)
  <2> DEFINE k == [st |-> "est", rcv |-> m.rcv, snd |-> m.snd]
             c == [phase |-> "chowning", imported |-> TRUE,
                   req |-> m.req, dest |-> Front]
  <2>1. PutSock(s, f, k) /\ PutHcs(s, f, c) /\ wire' = wire \ {m}
    BY <1>4 DEF on_handoff_import, continue_import, PutSock, PutHcs
  <2>2. k.st = "est" /\ c.phase = "chowning"
    OBVIOUS
  <2> HIDE DEF k, c
  <2>3. OnlyAt(s, f) /\ sock'[s][f] = k /\ hcs'[s][f] = c
    BY <1>0, <2>1, HcsAssigned, SockAssigned DEF OnlyAt
  <2>4. Holders(f)' = {s}
    BY <1>0, <1>1, <2>2, <2>3 DEF Holders, OnlyAt
  <2>5. ~InTransit(f)'
    BY <1>0, <1>1, <1>2, <2>1, <2>2, <2>3 DEF InTransit, OnlyAt, Leaving
  <2>6. ASSUME NEW g \in Flows, g # f
        PROVE  Holders(g)' = Holders(g) /\ (InTransit(g)' <=> InTransit(g))
    <3>1. Holders(g)' = Holders(g)
      BY <2>3, <2>6 DEF Holders, OnlyAt
    <3>2. InTransit(g)' <=> InTransit(g)
      BY <2>1, <2>3, <2>6 DEF InTransit, OnlyAt
    <3> QED
      BY <3>1, <3>2
  <2>7. /\ \A g \in Flows : Holders(g)' = IF g = f THEN {s} ELSE Holders(g)
        /\ \A g \in Flows : InTransit(g)' <=> InTransit(g) /\ g # f
    BY <2>4, <2>5, <2>6
  <2> QED
    BY <1>0, <1>3, <2>7, OwnerTakes
<1>5. ASSUME NEW d \in Servers, on_handoff_forward(m, d)
      PROVE  Owner!Next \/ UNCHANGED Owner!vars
  <2>1. CASE Die(s, "handoff") /\ wire' = wire \ {m}
    BY <1>0, <2>1, OwnerDies
  <2>2. CASE /\ UNCHANGED <<hcs, sock>>
             /\ wire' = (wire \ {m}) \cup {[m EXCEPT !.dst = d]}
    <3> DEFINE n == [m EXCEPT !.dst = d]
    <3>1. n.flow = f /\ wire' = (wire \ {m}) \cup {n}
      BY <2>2 DEF TypeOK, HandoffMessages
    <3> HIDE DEF n
    <3>2. HoldersKept
      <4>1. sock' = sock
        BY <2>2
      <4> QED
        BY <4>1 DEF HoldersKept, Holders
    <3>3. ASSUME NEW g \in Flows PROVE InTransit(g)' <=> InTransit(g)
      <4>1. (\E o \in wire' : o.flow = g) <=> (\E o \in wire : o.flow = g)
        BY <3>1
      <4> QED
        BY <2>2, <4>1 DEF InTransit
    <3>4. TransitKept
      BY <3>3 DEF TransitKept
    <3> QED
      BY <3>2, <3>4, OwnerStutters
  <2> QED
    BY <1>5, <2>1, <2>2 DEF on_handoff_forward
<1> QED
  BY <1>4, <1>5 DEF MessageStep

\* So is every other step.
LEMMA OwnerStep ==
  ASSUME ConnInv, [Next]_vars
  PROVE  [Owner!Next]_(Owner!vars)
<1> USE DEF ConnInv
<1> SUFFICES Owner!Next \/ UNCHANGED Owner!vars
  OBVIOUS
<1>0. ASSUME UNCHANGED <<hcs, sock, wire>> PROVE HoldersKept /\ TransitKept
  BY <1>0, NobodyMoves
<1>1. ASSUME NEW f \in Flows, on_connection(f) PROVE Owner!Next
  <2> DEFINE d == [NoHcs EXCEPT !.phase = "open"]
             k == [NoSock EXCEPT !.st = "est"]
  <2>1. /\ \A t \in Servers : sock[t][f].st = "none" /\ hcs[t][f].phase = "none"
        /\ \A m \in wire : m.flow # f
        /\ wire' = wire
    BY <1>1 DEF on_connection, Quiet
  <2>2. PutHcs(Front, f, d) /\ PutSock(Front, f, k) /\ Front \in Servers
    BY <1>1, SwitchAssumption DEF on_connection, PutHcs, PutSock
  <2>3. d.phase = "open" /\ k.st = "est"
    BY DEF NoHcs, NoSock
  <2> HIDE DEF d, k
  <2>4. OnlyAt(Front, f) /\ hcs'[Front][f] = d /\ sock'[Front][f] = k
    BY <2>2, HcsAssigned, SockAssigned DEF OnlyAt
  <2>5. Holders(f) = {} /\ ~InTransit(f)
    BY <2>1 DEF Holders, InTransit
  <2>6. \A g \in Flows : Holders(g)' = IF g = f THEN {Front} ELSE Holders(g)
    <3>1. Holders(f)' = {Front}
      BY <2>1, <2>2, <2>3, <2>4 DEF Holders, OnlyAt
    <3>2. \A g \in Flows : g # f => Holders(g)' = Holders(g)
      BY <2>4 DEF Holders, OnlyAt
    <3> QED
      BY <3>1, <3>2
  <2>7. TransitKept
    <3>1. ~InTransit(f)'
      BY <2>1, <2>3, <2>4 DEF InTransit, OnlyAt
    <3>2. \A g \in Flows : g # f => (InTransit(g)' <=> InTransit(g))
      BY <2>1, <2>4 DEF InTransit, OnlyAt
    <3> QED
      BY <2>5, <3>1, <3>2 DEF TransitKept
  <2>8. /\ \A g \in Flows : g # f => client'[g] = client[g]
        /\ client'[f].req = 0 /\ client'[f].resp = 0
    BY <1>1, ConnectionCounters
  <2> QED
    BY <2>2, <2>5, <2>6, <2>7, <2>8, OwnerConnects
<1>2. ASSUME NEW f \in Flows, ClientRequest(f) PROVE Owner!Next
  <2>1. HoldersKept /\ TransitKept
    BY <1>0, <1>2 DEF ClientRequest
  <2> QED
    BY <1>2, <2>1, RequestCounters, OwnerCounts
<1>3. ASSUME NEW f \in Flows, NEW s \in Servers, ServerSegment(s, f)
      PROVE  Owner!Next \/ UNCHANGED Owner!vars
  <2>1. HoldersKept /\ TransitKept
    BY <1>0, <1>3 DEF ServerSegment
  <2>2. Holders(f) # {}
    BY <1>3 DEF ServerSegment, Holders
  <2>3. CASE UNCHANGED client
    BY <2>1, <2>3, OwnerStutters DEF CountersKept
  <2> QED
    BY <1>3, <2>1, <2>2, <2>3, ResponseCounters, OwnerCounts
<1>4. CASE CountersKept /\ ~CounterStep
  <2>1. ASSUME NEW f \in Flows, ClientStep(f) PROVE UNCHANGED Owner!vars
    <3>1. UNCHANGED <<hcs, sock, wire>>
      BY <1>4, <2>1 DEF ClientStep, CounterStep, ClientClose, ClientReset,
                        ClientSegment
    <3> QED
      BY <1>0, <1>4, <3>1, OwnerStutters
  <2>2. ASSUME NEW s \in Servers, NEW f \in Flows, KernelDestroy(s, f)
        PROVE  UNCHANGED Owner!vars
    <3>1. /\ UNCHANGED <<hcs, wire>> /\ sock[s][f].st \in {"zap", "fin"}
          /\ SetSocket(s, f, "gone") \/ PutSock(s, f, NoSock)
      BY <2>2 DEF KernelDestroy, PutSock
    <3>2. OnlyAt(s, f) /\ sock'[s][f].st \in {"gone", "none"}
      BY <3>1, SocketSet, SockAssigned DEF OnlyAt, NoSock
    <3>3. HoldersKept /\ TransitKept
      BY <3>1, <3>2, NobodyMovesAt
    <3> QED
      BY <1>4, <3>3, OwnerStutters
  <2>3. ASSUME NEW r, SwitchConfig(r) \/ LoseRequest(r) \/ retry_send(r)
        PROVE  UNCHANGED Owner!vars
    <3>1. UNCHANGED <<hcs, sock, wire>>
      BY <2>3 DEF SwitchConfig, LoseRequest, retry_send
    <3> QED
      BY <1>0, <1>4, <3>1, OwnerStutters
  <2>4. CASE UNCHANGED vars
    BY <1>0, <1>4, <2>4, OwnerStutters DEF vars
  <2> QED
    BY <1>3, <1>4, <2>1, <2>2, <2>3, <2>4, OwnerCallback, OwnerArrival,
       OwnerMessage DEF Next
<1> QED
  BY <1>1, <1>2, <1>3, <1>4, CountersChange DEF CounterStep

\* The handoff protocol keeps the promise of FlowOwner: one server at a time
\* holds a connection, from accept or import to export or close, and answers
\* the outstanding request of its client, once each and in order, for every
\* number of clients and servers and whatever is lost, delayed, refused or
\* dies (export2, import2 and close2 together).
THEOREM ProtocolImplementsFlowOwner == Spec => ImplementsFlowOwner
<1>1. Init => Owner!Init
  <2> SUFFICES ASSUME Init PROVE Owner!Init
    OBVIOUS
  <2>1. \A f \in Flows : Holders(f) = {} /\ InTransit(f) = FALSE
    BY DEF Init, Holders, InTransit, NoHcs, NoSock
  <2>2. \A f \in Flows : client[f].req = 0 /\ client[f].resp = 0
    BY DEF Init, NoClient
  <2> QED
    BY <2>1, <2>2 DEF Owner!Init
<1>2. ConnInv /\ [Next]_vars => [Owner!Next]_(Owner!vars)
  BY OwnerStep
<1> QED
  BY <1>1, <1>2, ConnInvariant, PTL DEF Spec, ImplementsFlowOwner, Owner!Spec

=============================================================================
