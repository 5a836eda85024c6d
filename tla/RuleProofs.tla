----------------------------- MODULE RuleProofs -----------------------------
(***************************************************************************)
(* The switch's rules and the connections of Handoff, when replies beat    *)
(* the retry timer (TimelyReplies) and hosts check UDP checksums           *)
(* (VerifyCsum): a connection in transit is locked (LockedInTransit), the  *)
(* rule points at the server that serves the connection                    *)
(* (RuleFollowsConnection), and, if clients close only between requests,   *)
(* no segment goes to a host without a socket for it (NoOrphanSegment).    *)
(*                                                                         *)
(* The invariant follows one configuration request at a time: a flow has   *)
(* at most one, with at most one copy of it or of its reply under way, and *)
(* whether the switch has executed it can be told from that copy.          *)
(***************************************************************************)
EXTENDS ConnectionProofs

-----------------------------------------------------------------------------
(* The configuration requests of a flow.                                   *)

\* The reply to r is on the link to its server.
Answered(r) == \E p \in Packets(r.srv) : p.kind = "reply" /\ p.req = r

\* The switch has executed r: the reply has the right checksum.
Done(r) ==
  \E p \in Packets(r.srv) : p.kind = "reply" /\ p.req = r /\ p.csum_ok

\* The request is pending or a copy of it or its reply is under way.
Around(r) == r \in net \/ r \in pending \/ Answered(r)

\* The rule of flow f is that of server s, and is not locked.
Owned(s, f) == f \in DOMAIN prism /\ prism[f] = [owner |-> s, locked |-> 0]

Absent(f) == f \notin DOMAIN prism

\* The rule that r finds, until it is executed, or has left.
RuleFits(r) ==
  /\ r.type = "ADD" =>
       IF Done(r) THEN Locked(prism, r.flow) ELSE Absent(r.flow)
  /\ r.type = "LOCK" =>
       IF Done(r) THEN Locked(prism, r.flow) ELSE Owned(r.srv, r.flow)
  /\ r.type = "CHOWN" =>
       IF Done(r) THEN Owned(r.srv, r.flow) ELSE Locked(prism, r.flow)
  /\ r.type = "DELETE" =>
       IF Done(r) THEN Absent(r.flow) ELSE Owned(r.srv, r.flow)
  /\ r.type # "UNLOCK"

\* The phases of a connection that needs its rule, and of one that does not
\* look at it.
Settled == {"open", "responding", "closing", "closewait"}

Waiting == {"none", "sending", "configuring", "chowning"}

\* No server serves, closes or exports the connection, and no message has it.
Waits(f) ==
  /\ \A s \in Servers : hcs[s][f].phase \in Waiting
  /\ \A m \in wire : m.flow # f

\* RuleFollowsConnection for one connection; it is accepted only by Front.
Follows(s, f) ==
  hcs[s][f].phase \in Settled =>
    IF hcs[s][f].imported THEN Owned(s, f) ELSE Absent(f) /\ s = Front

\* A flow has one request, the rule is as the request finds or leaves it, and
\* meanwhile the connection waits for the reply.
FlowFits(f) ==
  /\ \A r, q \in Requests :
       r.flow = f /\ q.flow = f /\ Around(r) /\ Around(q) => r = q
  /\ \A r \in Requests :
       r.flow = f /\ Around(r) => RuleFits(r) /\ Waits(f)
  /\ InTransit(f) => Locked(prism, f)
  /\ \A s \in Servers : Follows(s, f)

\* There is one reply, and no request with a reply is sent.
OneCopy ==
  /\ \A r \in net : ~Answered(r)
  /\ \A s \in Servers : \A i, j \in 1..Len(link[s]) :
       /\ link[s][i].kind = "reply" /\ link[s][j].kind = "reply"
       /\ link[s][i].req = link[s][j].req
       => i = j

\* The inductive invariant.
RuleInv ==
  /\ ConnInv
  /\ OneCopy
  /\ \A f \in Flows : FlowFits(f)

-----------------------------------------------------------------------------
(* What is on the links.                                                   *)

\* The positions of a link after a packet has joined it.
LEMMA JoinedLink ==
  ASSUME TypeOK, NEW s \in Servers, NEW p \in Replies \cup Segments,
         Joins(s, p)
  PROVE  /\ \A t \in Servers : t # s => link'[t] = link[t]
         /\ Len(link[s]) \in Nat
         /\ Len(link'[s]) = Len(link[s]) + 1
         /\ \A i \in 1..Len(link[s]) : link'[s][i] = link[s][i]
         /\ link'[s][Len(link[s]) + 1] = p
<1>1. link[s] \in Seq(Replies \cup Segments)
  BY DEF TypeOK
<1>2. \A t \in Servers :
        link'[t] = IF t = s THEN Append(link[s], p) ELSE link[t]
  BY DEF Joins, TypeOK
<1> DEFINE l == link[s]
<1>3. /\ Len(l) \in Nat /\ Len(Append(l, p)) = Len(l) + 1
      /\ \A i \in 1..Len(l) : Append(l, p)[i] = l[i]
      /\ Append(l, p)[Len(l) + 1] = p
  <2> HIDE DEF l
  <2>1. l \in Seq(Replies \cup Segments)
    BY <1>1 DEF l
  <2> QED
    BY <2>1
<1>4. link'[s] = Append(l, p)
  BY <1>2
<1> QED
  BY <1>2, <1>3, <1>4

\* And after the head has been taken off (PopLink).
LEMMA PoppedLink ==
  ASSUME TypeOK, NEW s \in Servers, link[s] # <<>>, PopLink(s)
  PROVE  /\ \A t \in Servers : t # s => link'[t] = link[t]
         /\ Len(link[s]) \in Nat
         /\ Len(link'[s]) = Len(link[s]) - 1
         /\ \A i \in 1..Len(link'[s]) :
              i + 1 \in 1..Len(link[s]) /\ link'[s][i] = link[s][i + 1]
         /\ 1 \in 1..Len(link[s]) /\ Head(link[s]) = link[s][1]
<1>1. link[s] \in Seq(Replies \cup Segments)
  BY DEF TypeOK
<1>2. \A t \in Servers :
        link'[t] = IF t = s THEN Tail(link[s]) ELSE link[t]
  BY DEF PopLink, TypeOK
<1> DEFINE l == link[s]
<1>3. /\ Len(l) \in Nat /\ Len(Tail(l)) = Len(l) - 1
      /\ \A i \in 1..Len(Tail(l)) :
           i + 1 \in 1..Len(l) /\ Tail(l)[i] = l[i + 1]
      /\ 1 \in 1..Len(l) /\ Head(l) = l[1]
  <2> HIDE DEF l
  <2>1. l \in Seq(Replies \cup Segments) /\ l # <<>>
    BY <1>1 DEF l
  <2> QED
    BY <2>1
<1>4. link'[s] = Tail(l)
  BY <1>2
<1> QED
  BY <1>2, <1>3, <1>4

\* The packets after a packet has joined a link.
LEMMA JoinedPackets ==
  ASSUME TypeOK, NEW s \in Servers, NEW p \in Replies \cup Segments,
         Joins(s, p)
  PROVE  \A t \in Servers :
           Packets(t)' = IF t = s THEN Packets(s) \cup {p} ELSE Packets(t)
<1>1. \A t \in Servers : t # s => Packets(t)' = Packets(t)
  BY JoinedLink DEF Packets
<1>2. p \in Packets(s)'
  <2>1. Len(link[s]) + 1 \in 1..Len(link'[s])
    BY JoinedLink
  <2> QED
    BY <2>1, JoinedLink DEF Packets
<1>3. Packets(s) \subseteq Packets(s)'
  <2>1. \A i \in 1..Len(link[s]) : i \in 1..Len(link'[s])
    BY JoinedLink
  <2> QED
    BY <2>1, JoinedLink DEF Packets
<1>4. Packets(s)' \subseteq Packets(s) \cup {p}
  BY PacketsJoin
<1> QED
  BY <1>1, <1>2, <1>3, <1>4

\* The packets after the head has been taken off.
LEMMA PoppedPackets ==
  ASSUME TypeOK, NEW s \in Servers, link[s] # <<>>, PopLink(s)
  PROVE  /\ \A t \in Servers : t # s => Packets(t)' = Packets(t)
         /\ Packets(s)' \subseteq Packets(s)
         /\ Packets(s) = Packets(s)' \cup {Head(link[s])}
<1>1. \A t \in Servers : t # s => Packets(t)' = Packets(t)
  BY PoppedLink DEF Packets
<1>2. Packets(s)' \subseteq Packets(s) /\ Head(link[s]) \in Packets(s)
  BY PacketsPop, HeadOnLink
<1>3. ASSUME NEW i \in 1..Len(link[s]), i # 1
      PROVE  link[s][i] \in Packets(s)'
  <2>1. i - 1 \in 1..Len(link'[s]) /\ (i - 1) + 1 = i
    BY <1>3, PoppedLink
  <2>2. link'[s][i - 1] = link[s][i]
    BY <2>1, PoppedLink
  <2> QED
    BY <2>1, <2>2 DEF Packets
<1>4. Packets(s) \subseteq Packets(s)' \cup {Head(link[s])}
  BY <1>3, PoppedLink DEF Packets
<1> QED
  BY <1>1, <1>2, <1>4

\* A segment that joins a link answers nothing.
LEMMA SegmentJoins ==
  ASSUME TypeOK, NEW s \in Servers, NEW p \in Segments, Joins(s, p)
  PROVE  /\ \A r \in Requests : /\ Answered(r)' <=> Answered(r)
                                /\ Done(r)' <=> Done(r)
         /\ OneCopy /\ net' = net => OneCopy'
<1>1. p.kind # "reply" /\ p \in Replies \cup Segments
  BY DEF Segments
<1>2. \A r \in Requests : r.srv \in Servers
  BY DEF Requests
<1>3. \A t \in Servers : \A q : q.kind = "reply" =>
        (q \in Packets(t)' <=> q \in Packets(t))
  BY <1>1, JoinedPackets
<1>4. \A r \in Requests : /\ Answered(r)' <=> Answered(r)
                          /\ Done(r)' <=> Done(r)
  BY <1>2, <1>3 DEF Answered, Done
<1>5. ASSUME OneCopy, net' = net PROVE OneCopy'
  <2>1. \A r \in net' : ~Answered(r)'
    BY <1>4, <1>5 DEF OneCopy, TypeOK
  <2>2. ASSUME NEW t \in Servers, NEW i \in 1..Len(link'[t]),
               NEW j \in 1..Len(link'[t]),
               link'[t][i].kind = "reply", link'[t][j].kind = "reply",
               link'[t][i].req = link'[t][j].req
        PROVE  i = j
    <3>1. CASE t = s
      <4>1. i # Len(link[s]) + 1 /\ j # Len(link[s]) + 1
        BY <1>1, <2>2, <3>1, JoinedLink
      <4>2. i \in 1..Len(link[s]) /\ j \in 1..Len(link[s])
        BY <1>1, <3>1, <4>1, JoinedLink
      <4> QED
        BY <1>1, <1>5, <2>2, <3>1, <4>2, JoinedLink DEF OneCopy
    <3>2. CASE t # s
      BY <1>1, <1>5, <2>2, <3>2, JoinedLink DEF OneCopy
    <3> QED
      BY <3>1, <3>2
  <2> QED
    BY <2>1, <2>2 DEF OneCopy
<1> QED
  BY <1>4, <1>5

\* The reply to r joins the link of its server (SwitchConfig).
LEMMA ReplyJoins ==
  ASSUME TypeOK, OneCopy, NEW r \in net, NEW p \in Replies, p.req = r,
         Joins(r.srv, p), net' = net \ {r}
  PROVE  /\ \A q \in Requests :
              /\ Answered(q)' <=> Answered(q) \/ q = r
              /\ q # r => (Done(q)' <=> Done(q))
         /\ ~Done(r) /\ (Done(r)' <=> p.csum_ok)
         /\ OneCopy'
<1>1. p.kind = "reply" /\ p \in Replies \cup Segments
  BY DEF Replies
<1>2. r \in Requests /\ \A q \in Requests : q.srv \in Servers
  BY DEF TypeOK, Requests
<1>3. \A t \in Servers : \A q :
        q \in Packets(t)' <=> q \in Packets(t) \/ (t = r.srv /\ q = p)
  BY <1>1, <1>2, JoinedPackets
<1>4. ~Answered(r)
  BY DEF OneCopy
<1>5. \A q \in Requests : /\ Answered(q)' <=> Answered(q) \/ q = r
                          /\ q # r => (Done(q)' <=> Done(q))
  BY <1>1, <1>2, <1>3 DEF Answered, Done
<1>6. ~Done(r) /\ (Done(r)' <=> p.csum_ok)
  BY <1>1, <1>2, <1>3, <1>4 DEF Answered, Done
<1>7. \A q \in net' : ~Answered(q)'
  BY <1>5 DEF OneCopy, TypeOK
<1>8. ASSUME NEW t \in Servers, NEW i \in 1..Len(link'[t]),
             NEW j \in 1..Len(link'[t]),
             link'[t][i].kind = "reply", link'[t][j].kind = "reply",
             link'[t][i].req = link'[t][j].req
      PROVE  i = j
  <2>1. CASE t = r.srv
    <3> DEFINE n == Len(link[t])
    <3>0. /\ n \in Nat /\ Len(link'[t]) = n + 1
          /\ \A l \in 1..n : link'[t][l] = link[t][l]
          /\ link'[t][n + 1] = p
      BY <1>1, <1>2, <2>1, JoinedLink
    <3>1. \A l \in 1..n : link[t][l].kind = "reply" => link[t][l].req # r
      BY <1>4, <2>1 DEF Answered, Packets
    <3>2. i \in 1..n \/ i = n + 1
      BY <3>0
    <3>3. j \in 1..n \/ j = n + 1
      BY <3>0
    <3>4. CASE i \in 1..n /\ j \in 1..n
      BY <1>8, <3>0, <3>4 DEF OneCopy
    <3> HIDE DEF n
    <3>5. CASE ~(i \in 1..n /\ j \in 1..n)
      BY <1>8, <3>0, <3>1, <3>2, <3>3, <3>5
    <3> QED
      BY <3>4, <3>5
  <2>2. CASE t # r.srv
    BY <1>1, <1>2, <1>8, <2>2, JoinedLink DEF OneCopy
  <2> QED
    BY <2>1, <2>2
<1> QED
  BY <1>5, <1>6, <1>7, <1>8 DEF OneCopy

\* The head of a link is taken off: if it is a reply it was the only one.
LEMMA HeadLeaves ==
  ASSUME TypeOK, PacketsFit, OneCopy, NEW s \in Servers, link[s] # <<>>,
         PopLink(s), net' = net
  PROVE  /\ OneCopy'
         /\ \A r \in Requests :
              IF Head(link[s]).kind = "reply" /\ Head(link[s]).req = r
              THEN /\ Answered(r) /\ ~Answered(r)' /\ ~Done(r)'
                   /\ Done(r) <=> Head(link[s]).csum_ok
                   /\ r \notin net
              ELSE (Answered(r)' <=> Answered(r)) /\ (Done(r)' <=> Done(r))
<1> DEFINE h == Head(link[s])
<1>1. \A t \in Servers : t # s => Packets(t)' = Packets(t)
  BY PoppedPackets
<1>2. Packets(s)' \subseteq Packets(s) /\ Packets(s) = Packets(s)' \cup {h}
  BY PoppedPackets
<1>3. \A r \in Requests : r.srv \in Servers
  BY DEF Requests
<1>4. h \in Packets(s) /\ PacketFits(s, h)
  BY HeadOnLink DEF PacketsFit
<1>5. ASSUME NEW p \in Packets(s)', p.kind = "reply", h.kind = "reply"
      PROVE  p.req # h.req
  <2>1. PICK i \in 1..Len(link'[s]) : p = link'[s][i]
    BY DEF Packets
  <2>2. /\ i + 1 \in 1..Len(link[s]) /\ p = link[s][i + 1]
        /\ 1 \in 1..Len(link[s]) /\ h = link[s][1]
    BY <2>1, PoppedLink
  <2>3. i + 1 # 1
    BY <2>1
  <2> HIDE DEF h
  <2> QED
    BY <1>5, <2>2, <2>3 DEF OneCopy
<1> HIDE DEF h
<1>6. ASSUME NEW r \in Requests, h.kind = "reply", h.req = r
      PROVE  /\ Answered(r) /\ ~Answered(r)' /\ ~Done(r)'
             /\ Done(r) <=> h.csum_ok
             /\ r \notin net
  <2>1. r.srv = s
    BY <1>4, <1>6 DEF PacketFits
  <2>2. Answered(r)
    BY <1>4, <1>6, <2>1 DEF Answered
  <2>3. ~Answered(r)' /\ ~Done(r)'
    BY <1>5, <1>6, <2>1 DEF Answered, Done
  <2>4. Done(r) <=> h.csum_ok
    BY <1>2, <1>4, <1>5, <1>6, <2>1 DEF Done
  <2> QED
    BY <2>2, <2>3, <2>4 DEF OneCopy
<1>7. ASSUME NEW r \in Requests, ~(h.kind = "reply" /\ h.req = r)
      PROVE  (Answered(r)' <=> Answered(r)) /\ (Done(r)' <=> Done(r))
  <2>1. CASE r.srv = s
    BY <1>2, <1>7, <2>1 DEF Answered, Done
  <2>2. CASE r.srv # s
    BY <1>1, <1>3, <2>2 DEF Answered, Done
  <2> QED
    BY <2>1, <2>2
<1>8. \A r \in net' : ~Answered(r)'
  BY <1>6, <1>7 DEF OneCopy, TypeOK
<1>9. ASSUME NEW t \in Servers, NEW i \in 1..Len(link'[t]),
             NEW j \in 1..Len(link'[t]),
             link'[t][i].kind = "reply", link'[t][j].kind = "reply",
             link'[t][i].req = link'[t][j].req
      PROVE  i = j
  <2>1. CASE t = s
    <3>1. /\ i + 1 \in 1..Len(link[t]) /\ link'[t][i] = link[t][i + 1]
          /\ j + 1 \in 1..Len(link[t]) /\ link'[t][j] = link[t][j + 1]
      BY <2>1, PoppedLink
    <3>2. i + 1 = j + 1
      BY <1>9, <3>1 DEF OneCopy
    <3> QED
      BY <3>2
  <2>2. CASE t # s
    BY <1>9, <2>2, PoppedLink DEF OneCopy
  <2> QED
    BY <2>1, <2>2
<1>10. OneCopy'
  BY <1>8, <1>9 DEF OneCopy
<1> QED
  BY <1>6, <1>7, <1>10 DEF h

-----------------------------------------------------------------------------
(* A flow keeps fitting.                                                   *)

\* The rule of flow f does not change.
RuleKept(f) ==
  /\ f \in DOMAIN prism' <=> f \in DOMAIN prism
  /\ f \in DOMAIN prism => prism'[f] = prism[f]

\* There is no new request for f, and none is executed.
RequestsKept(f) ==
  \A r \in Requests :
    r.flow = f /\ Around(r)' => Around(r) /\ (Done(r)' <=> Done(r))

\* The connection ends at s, or goes on without the switch.
PhaseKept(s, f) ==
  \/ hcs'[s][f].phase \in {"none", "sending"}
  \/ /\ hcs'[s][f].imported = hcs[s][f].imported
     /\ \/ hcs'[s][f].phase = hcs[s][f].phase
        \/ {hcs[s][f].phase, hcs'[s][f].phase} \subseteq Settled
        \/ {hcs[s][f].phase, hcs'[s][f].phase} \subseteq Leaving

\* A message with the connection was one before, or has just left a server.
MessagesKept(f) == \A m \in wire' : m.flow = f => InTransit(f)

\* Nothing that matters to the rule of f happens.
FlowKept(f) ==
  /\ RuleKept(f)
  /\ RequestsKept(f)
  /\ \A s \in Servers : PhaseKept(s, f)
  /\ MessagesKept(f)

\* The formulas about a rule that does not change.
LEMMA RuleKeptFacts ==
  ASSUME NEW f, RuleKept(f)
  PROVE  /\ Locked(prism, f)' <=> Locked(prism, f)
         /\ Absent(f)' <=> Absent(f)
         /\ \A s : Owned(s, f)' <=> Owned(s, f)
BY DEF RuleKept, Locked, Absent, Owned

\* A flow whose request, connection and rule are kept fits.
LEMMA FlowFrame ==
  ASSUME NEW f \in Flows, FlowFits(f), FlowKept(f)
  PROVE  FlowFits(f)'
<1>1. /\ Locked(prism, f)' <=> Locked(prism, f)
      /\ Absent(f)' <=> Absent(f)
      /\ \A s : Owned(s, f)' <=> Owned(s, f)
  BY RuleKeptFacts DEF FlowKept
<1>2. \A r, q \in Requests :
        r.flow = f /\ q.flow = f /\ Around(r)' /\ Around(q)' => r = q
  BY DEF FlowFits, FlowKept, RequestsKept
<1>3. InTransit(f)' => InTransit(f)
  BY DEF FlowKept, MessagesKept, PhaseKept, InTransit, Settled, Leaving
<1>4. Waits(f) => ~InTransit(f)
  BY DEF Waits, InTransit, Waiting
<1>5. Waits(f) => Waits(f)'
  BY <1>4
  DEF FlowKept, MessagesKept, PhaseKept, Waits, Waiting, Settled, Leaving
<1>6. ASSUME NEW r \in Requests, r.flow = f, Around(r)'
      PROVE  RuleFits(r)' /\ Waits(f)'
  <2>1. Around(r) /\ (Done(r)' <=> Done(r))
    BY <1>6 DEF FlowKept, RequestsKept
  <2>2. RuleFits(r) /\ Waits(f)
    BY <1>6, <2>1 DEF FlowFits
  <2> QED
    BY <1>1, <1>5, <1>6, <2>1, <2>2 DEF RuleFits
<1>7. ASSUME NEW s \in Servers PROVE Follows(s, f)'
  <2>1. Follows(s, f) /\ PhaseKept(s, f)
    BY DEF FlowFits, FlowKept
  <2> QED
    BY <1>1, <2>1 DEF Follows, PhaseKept, Settled, Leaving
<1> QED
  BY <1>1, <1>2, <1>3, <1>6, <1>7 DEF FlowFits

\* No request of a flow is around while a server serves, closes or exports
\* the connection, or a message has it.
LEMMA NoneAround ==
  ASSUME NEW f, FlowFits(f), ~Waits(f)
  PROVE  \A r \in Requests : r.flow = f => ~Around(r)
BY DEF FlowFits

\* While s serves or closes the connection, nobody else has it.
LEMMA SettledAlone ==
  ASSUME TypeOK, NEW f \in Flows, FlowFits(f), NEW s \in Servers,
         hcs[s][f].phase \in Settled
  PROVE  /\ \A t \in Servers : t # s => hcs[t][f].phase \in Waiting
         /\ \A m \in wire : m.flow # f
         /\ \A r \in Requests : r.flow = f => ~Around(r)
<1>1. Follows(s, f)
  BY DEF FlowFits
<1>2. Owned(s, f) \/ (Absent(f) /\ s = Front)
  BY <1>1 DEF Follows
<1>3. ~InTransit(f)
  BY <1>2 DEF FlowFits, Owned, Absent, Locked
<1>4. ASSUME NEW t \in Servers, t # s PROVE hcs[t][f].phase \in Waiting
  <2>1. hcs[t][f].phase \notin Leaving
    BY <1>3 DEF InTransit, Leaving
  <2>2. hcs[t][f].phase \notin Settled
    <3>1. Follows(t, f)
      BY DEF FlowFits
    <3> QED
      BY <1>1, <1>2, <1>4, <3>1 DEF Follows, Owned, Absent
  <2>3. hcs[t][f].phase \in Phases
    BY FieldTypes DEF HttpClientSockets
  <2> QED
    BY <2>1, <2>2, <2>3 DEF Waiting, Settled, Leaving, Phases
<1>5. ~Waits(f)
  BY DEF Waits, Waiting, Settled
<1> QED
  BY <1>3, <1>4, <1>5, NoneAround DEF InTransit

\* A request is queued for a flow that has none.
LEMMA QueuedFits ==
  ASSUME TypeOK, OneCopy, NEW s \in Servers, NEW f \in Flows,
         NEW type \in RequestTypes, NEW k \in Nat,
         prism_switch_client_queue_task(s, f, type, k),
         \A r \in Requests : r.flow = f => ~Around(r),
         UNCHANGED <<prism, link>>, Waits(f)',
         \/ type = "ADD" /\ Absent(f)
         \/ type = "CHOWN" /\ Locked(prism, f)
         \/ type \in {"LOCK", "DELETE"} /\ Owned(s, f)
  PROVE  /\ FlowFits(f)' /\ OneCopy'
         /\ \A g \in Flows : g # f => RequestsKept(g)
<1> DEFINE n == [srv |-> s, flow |-> f, type |-> type, k |-> k]
<1>1. /\ n \in Requests /\ n.flow = f /\ n.srv = s /\ n.type = type
      /\ pending' = pending \cup {n} /\ net' = net \cup {n}
  BY DEF prism_switch_client_queue_task, Requests
<1> HIDE DEF n
<1>2. \A r : (Answered(r)' <=> Answered(r)) /\ (Done(r)' <=> Done(r))
  BY DEF Answered, Done, Packets
<1>3. \A r \in Requests : Around(r)' <=> Around(r) \/ r = n
  BY <1>1, <1>2 DEF Around
<1>4. ~Answered(n) /\ ~Done(n)'
  BY <1>1, <1>2 DEF Around, Answered, Done
<1>5. \A r \in Requests : r.flow = f /\ Around(r)' => r = n
  BY <1>3
<1>6. RuleFits(n)'
  BY <1>1, <1>4 DEF RuleFits, Absent, Locked, Owned
<1>7. ~InTransit(f)'
  BY DEF Waits, InTransit, Waiting
<1>8. \A t \in Servers : Follows(t, f)'
  BY DEF Waits, Follows, Waiting, Settled
<1>9. FlowFits(f)'
  BY <1>5, <1>6, <1>7, <1>8 DEF FlowFits
<1>10. OneCopy'
  BY <1>1, <1>2, <1>4 DEF OneCopy
<1>11. \A g \in Flows : g # f => RequestsKept(g)
  BY <1>1, <1>2, <1>3 DEF RequestsKept
<1> QED
  BY <1>9, <1>10, <1>11

\* A step that leaves the requests alone leaves those of every flow alone.
LEMMA TrafficKept ==
  ASSUME TypeOK, UNCHANGED <<net, link>>, pending' \subseteq pending
  PROVE  (\A f : RequestsKept(f)) /\ (OneCopy => OneCopy')
<1>1. \A r : (Answered(r)' <=> Answered(r)) /\ (Done(r)' <=> Done(r))
  BY DEF Answered, Done, Packets
<1> QED
  BY <1>1 DEF RequestsKept, Around, OneCopy

\* If every flow is kept, so is the invariant of the rules.
LEMMA AllKept ==
  ASSUME RuleInv, \A f \in Flows : FlowKept(f)
  PROVE  \A f \in Flows : FlowFits(f)'
BY FlowFrame DEF RuleInv

\* A rule table that does not change keeps every rule.
LEMMA TableKept ==
  ASSUME UNCHANGED prism
  PROVE  \A f : RuleKept(f)
BY DEF RuleKept

\* Nor do connections and messages that do not change.
LEMMA ConnectionsKept ==
  ASSUME UNCHANGED hcs
  PROVE  \A s, f : PhaseKept(s, f)
BY DEF PhaseKept

\* Fewer messages than before.
LEMMA WireKept ==
  ASSUME wire' \subseteq wire
  PROVE  \A f : MessagesKept(f)
BY DEF MessagesKept, InTransit

\* A process that dies leaves no connection (Die).
LEMMA DeathKept ==
  ASSUME TypeOK, NEW s \in Servers, NEW why, Die(s, why)
  PROVE  /\ \A t \in Servers, f \in Flows : PhaseKept(t, f)
         /\ pending' \subseteq pending
<1>1. \A t \in Servers, g \in Flows :
        hcs'[t][g] = IF t = s THEN NoHcs ELSE hcs[t][g]
  BY Died
<1> QED
  BY <1>1, Died DEF PhaseKept, NoHcs

-----------------------------------------------------------------------------
(* The steps.                                                              *)

\* What the steps below preserve, besides ConnInv.
FlowsFit == OneCopy /\ \A f \in Flows : FlowFits(f)

\* The first state has no rules and no requests.
LEMMA RulesInit == Init => FlowsFit
<1> SUFFICES ASSUME Init PROVE FlowsFit
  OBVIOUS
<1>1. \A s \in Servers : link[s] = <<>> /\ Packets(s) = {}
  BY DEF Init, Packets
<1>2. \A r \in Requests : ~Around(r)
  BY <1>1 DEF Around, Answered, Requests, Init
<1>3. \A s \in Servers, f \in Flows : hcs[s][f].phase = "none"
  BY DEF Init, NoHcs
<1>4. \A f \in Flows : FlowFits(f)
  BY <1>2, <1>3 DEF FlowFits, InTransit, Init, Follows, Settled
<1>5. OneCopy
  BY <1>1 DEF OneCopy, Init
<1> QED
  BY <1>4, <1>5 DEF FlowsFit

\* An accepted connection has no rule (on_connection).
LEMMA RulesConnection ==
  ASSUME RuleInv, NEW f \in Flows, on_connection(f)
  PROVE  FlowsFit'
<1> DEFINE d == [NoHcs EXCEPT !.phase = "open"]
<1>0. TypeOK /\ OneCopy /\ Front \in Servers
  BY SwitchAssumption DEF RuleInv, ConnInv
<1>1. d.phase = "open" /\ ~d.imported
  BY DEF NoHcs
<1>2. PutHcs(Front, f, d) /\ UNCHANGED <<prism, net, pending, link, wire>>
  BY DEF on_connection, PutHcs
<1> HIDE DEF d
<1>3. /\ hcs'[Front][f] = d
      /\ \A t \in Servers, g \in Flows :
           t # Front \/ g # f => hcs'[t][g] = hcs[t][g]
  BY <1>0, <1>2, HcsAssigned
<1>4. \A g : RequestsKept(g) /\ RuleKept(g) /\ MessagesKept(g)
  BY <1>0, <1>2, TrafficKept, TableKept, WireKept
<1>5. OneCopy'
  BY <1>0, <1>2, TrafficKept
<1>6. ASSUME NEW g \in Flows, g # f PROVE FlowFits(g)'
  <2>1. \A t \in Servers : PhaseKept(t, g)
    BY <1>3, <1>6 DEF PhaseKept
  <2> QED
    BY <1>4, <2>1, FlowFrame DEF FlowKept, RuleInv
<1>7. FlowFits(f)'
  <2>1. Quiet(f)
    BY DEF on_connection
  <2>2. \A r \in Requests : r.flow = f => ~Around(r)
    BY <2>1 DEF Quiet, Around, Answered, Packets, Requests
  <2>3. \A r \in Requests : r.flow = f => ~Around(r)'
    BY <1>4, <2>2 DEF RequestsKept
  <2>4. \A t \in Servers : t # Front => hcs'[t][f].phase = "none"
    BY <1>3, <2>1 DEF Quiet
  <2>5. ~InTransit(f)'
    BY <1>1, <1>2, <1>3, <2>1, <2>4 DEF InTransit, Quiet
  <2>6. Absent(f)'
    BY <1>2, <2>1 DEF Quiet, Absent
  <2>7. \A t \in Servers : Follows(t, f)'
    BY <1>1, <1>3, <2>4, <2>6 DEF Follows, Settled
  <2> QED
    BY <2>3, <2>5, <2>7 DEF FlowFits
<1> QED
  BY <1>5, <1>6, <1>7 DEF FlowsFit

\* The client, its segments and the kernels do not touch the rules.
LEMMA RulesOutside ==
  ASSUME RuleInv, NEW f \in Flows, NEW s \in Servers,
         \/ ClientRequest(f) \/ ClientClose(f) \/ ClientReset(f)
         \/ ClientSegment(f) \/ ServerSegment(s, f) \/ KernelDestroy(s, f)
  PROVE  FlowsFit'
<1>0. TypeOK /\ OneCopy
  BY DEF RuleInv, ConnInv
<1>1. UNCHANGED <<prism, net, pending, hcs, wire>>
  BY DEF ClientRequest, ClientClose, ClientReset, ClientSegment,
         ServerSegment, KernelDestroy
<1>2. (\A g : RequestsKept(g)) /\ OneCopy'
  <2>1. CASE UNCHANGED link
    BY <1>0, <1>1, <2>1, TrafficKept
  <2>2. ASSUME NEW seg \in Segments, Forward(f, seg)
        PROVE  (\A g : RequestsKept(g)) /\ OneCopy'
    <3>1. PICK t \in Servers : Joins(t, seg)
      BY <1>0, <2>2, ForwardJoins
    <3>2. /\ \A r \in Requests : /\ Answered(r)' <=> Answered(r)
                                 /\ Done(r)' <=> Done(r)
          /\ OneCopy'
      BY <1>0, <1>1, <3>1, SegmentJoins
    <3> QED
      BY <1>1, <3>2 DEF RequestsKept, Around
  <2>3. /\ [kind |-> "rst", flow |-> f, k |-> 0] \in Segments
        /\ [kind |-> IF client[f].st = "fin" THEN "fin" ELSE "data",
            flow |-> f, k |-> client[f].req] \in Segments
    BY <1>0 DEF TypeOK, Clients, Segments
  <2> QED
    BY <2>1, <2>2, <2>3
    DEF ClientRequest, ClientClose, ClientReset, ClientSegment,
        ServerSegment, KernelDestroy
<1>3. \A g \in Flows : FlowKept(g)
  BY <1>1, <1>2, TableKept, ConnectionsKept, WireKept DEF FlowKept
<1> QED
  BY <1>2, <1>3, AllKept DEF FlowsFit

\* A packet arrives that changes no connection: a segment, a reply that is
\* not received, or the reply to a DELETE.
LEMMA RulesArrival ==
  ASSUME RuleInv, VerifyCsum, NEW s \in Servers,
         DeliverSegment(s) \/ DropReply(s) \/ after_delete(s)
  PROVE  FlowsFit'
<1> DEFINE h == Head(link[s])
<1>0. TypeOK /\ OneCopy /\ PacketsFit
  BY DEF RuleInv, ConnInv
<1>1. /\ UNCHANGED <<prism, net, hcs, wire>> /\ pending' \subseteq pending
      /\ PopLink(s) /\ link[s] # <<>>
  BY DEF DeliverSegment, DropReply, after_delete, on_recv, HeadIs
<1>2. /\ OneCopy'
      /\ \A r \in Requests :
           IF h.kind = "reply" /\ h.req = r
           THEN /\ Answered(r) /\ ~Answered(r)' /\ ~Done(r)'
                /\ Done(r) <=> h.csum_ok
                /\ r \notin net
           ELSE (Answered(r)' <=> Answered(r)) /\ (Done(r)' <=> Done(r))
  BY <1>0, <1>1, HeadLeaves
<1>3. h.kind = "reply" => ~h.csum_ok \/ h.req \notin pending'
  BY DEF DeliverSegment, DropReply, after_delete, HeadIs, Received
<1> HIDE DEF h
<1>4. \A r \in Requests :
        Around(r)' => Around(r) /\ (Done(r)' <=> Done(r))
  BY <1>1, <1>2, <1>3 DEF Around
<1>5. \A g \in Flows : FlowKept(g)
  BY <1>1, <1>4, TableKept, ConnectionsKept, WireKept
  DEF FlowKept, RequestsKept
<1> QED
  BY <1>2, <1>5, AllKept DEF FlowsFit

\* A copy of a request is lost, or a lost one is sent again (retry_send).
LEMMA RulesCopies ==
  ASSUME RuleInv, TimelyReplies, NEW r,
         LoseRequest(r) \/ (r \in pending /\ retry_send(r))
  PROVE  FlowsFit'
<1>0. TypeOK /\ OneCopy
  BY DEF RuleInv, ConnInv
<1>1. UNCHANGED <<prism, pending, link, hcs, wire>>
  BY DEF LoseRequest, retry_send
<1>2. \A q : (Answered(q)' <=> Answered(q)) /\ (Done(q)' <=> Done(q))
  BY <1>1 DEF Answered, Done, Packets
<1>3. \A q : Around(q)' => Around(q)
  BY <1>1, <1>2 DEF Around, LoseRequest, retry_send
<1>4. \A q \in net' : ~Answered(q)
  BY <1>0 DEF OneCopy, LoseRequest, retry_send, Answered, Packets
<1>5. OneCopy'
  BY <1>0, <1>1, <1>2, <1>4 DEF OneCopy
<1>6. \A g \in Flows : FlowKept(g)
  BY <1>1, <1>2, <1>3, TableKept, ConnectionsKept, WireKept
  DEF FlowKept, RequestsKept
<1> QED
  BY <1>5, <1>6, AllKept DEF FlowsFit

\* What a handler of the switch does to a rule it finds as it should be
\* (configure_switch).
LEMMA HandlerResult ==
  ASSUME NEW T \in RuleTables, NEW r \in Requests, r.type # "UNLOCK"
  PROVE  LET f   == r.flow
             res == configure_switch(T, r)
         IN  /\ \A g : g # f =>
                  /\ g \in DOMAIN res.table <=> g \in DOMAIN T
                  /\ g \in DOMAIN T => res.table[g] = T[g]
             /\ r.type = "ADD" /\ f \notin DOMAIN T =>
                  IF res.error = "OK" THEN Locked(res.table, f)
                  ELSE f \notin DOMAIN res.table
             /\ r.type = "LOCK" /\ f \in DOMAIN T /\ T[f].locked = 0 =>
                  res.error = "OK" /\ Locked(res.table, f)
             /\ r.type = "CHOWN" /\ Locked(T, f) =>
                  /\ res.error = "OK" /\ f \in DOMAIN res.table
                  /\ res.table[f] = [owner |-> r.srv, locked |-> 0]
             /\ r.type = "DELETE" /\ f \in DOMAIN T =>
                  res.error = "OK" /\ f \notin DOMAIN res.table
<1> DEFINE f == r.flow
           res == configure_switch(T, r)
<1>1. CASE r.type = "ADD"
  <2> DEFINE v == [owner |-> r.srv, locked |-> 1]
  <2>1. res = config_handle_add_req(T, r)
    BY <1>1 DEF configure_switch
  <2>2. v.locked = 1
    OBVIOUS
  <2> HIDE DEF v
  <2>3. /\ \A g : g # f => /\ g \in DOMAIN Update(T, f, v) <=> g \in DOMAIN T
                           /\ g \in DOMAIN T => Update(T, f, v)[g] = T[g]
        /\ Locked(Update(T, f, v), f)
    BY <2>2 DEF Update, Locked
  <2>4. \/ res.table = T /\ res.error # "OK"
        \/ res.table = Update(T, f, v) /\ res.error = "OK"
    BY <2>1 DEF config_handle_add_req, Result, v
  <2> QED
    BY <1>1, <2>3, <2>4
<1>2. CASE r.type = "DELETE"
  BY <1>2 DEF configure_switch, config_handle_delete_req, Result, Delete
<1>3. CASE r.type = "CHOWN"
  <2> DEFINE v == [owner |-> r.srv, locked |-> Flip(T[f].locked)]
  <2>1. res = config_handle_chown_req(T, r)
    BY <1>3 DEF configure_switch
  <2>2. IF f \in DOMAIN T THEN res.table = Update(T, f, v) /\ res.error = "OK"
        ELSE res.table = T
    BY <2>1 DEF config_handle_chown_req, Result
  <2>3. Locked(T, f) => v = [owner |-> r.srv, locked |-> 0]
    BY DEF Locked, Flip
  <2> HIDE DEF v
  <2>4. /\ \A g : g # f => /\ g \in DOMAIN Update(T, f, v) <=> g \in DOMAIN T
                           /\ g \in DOMAIN T => Update(T, f, v)[g] = T[g]
        /\ f \in DOMAIN Update(T, f, v) /\ Update(T, f, v)[f] = v
    BY DEF Update
  <2> QED
    BY <1>3, <2>2, <2>3, <2>4 DEF Locked
<1>4. CASE r.type = "LOCK"
  <2> DEFINE v == [T[f] EXCEPT !.locked = Flip(@)]
  <2>1. res = config_handle_lock_req(T, r)
    BY <1>4 DEF configure_switch
  <2>2. IF f \in DOMAIN T THEN res.table = Update(T, f, v) /\ res.error = "OK"
        ELSE res.table = T
    BY <2>1 DEF config_handle_lock_req, Result
  <2>3. f \in DOMAIN T /\ T[f].locked = 0 => v.locked = 1
    BY RuleType DEF Rules, Flip
  <2> HIDE DEF v
  <2>4. /\ \A g : g # f => /\ g \in DOMAIN Update(T, f, v) <=> g \in DOMAIN T
                           /\ g \in DOMAIN T => Update(T, f, v)[g] = T[g]
        /\ f \in DOMAIN Update(T, f, v) /\ Update(T, f, v)[f] = v
    BY DEF Update
  <2> QED
    BY <1>4, <2>2, <2>3, <2>4 DEF Locked
<1> QED
  BY <1>1, <1>2, <1>3, <1>4 DEF Requests, RequestTypes

\* The switch executes or refuses a request (SwitchConfig).
LEMMA RulesSwitch ==
  ASSUME RuleInv, NEW r, SwitchConfig(r)
  PROVE  FlowsFit'
<1> DEFINE f == r.flow
           res == configure_switch(prism, r)
           p == config_prepare_response(r, res.error)
<1>0. TypeOK /\ OneCopy /\ r \in net /\ r \in Requests /\ f \in Flows
  BY DEF RuleInv, ConnInv, SwitchConfig, TypeOK, Requests
<1>1. /\ p \in Replies /\ p.req = r /\ p.csum_ok = (res.error = "OK")
      /\ Joins(r.srv, p) /\ net' = net \ {r}
      /\ prism' = res.table /\ UNCHANGED <<pending, hcs, wire>>
  BY <1>0 DEF SwitchConfig, Joins, config_prepare_response, Replies
<1>2. /\ \A q \in Requests : /\ Answered(q)' <=> Answered(q) \/ q = r
                             /\ q # r => (Done(q)' <=> Done(q))
      /\ ~Done(r) /\ (Done(r)' <=> res.error = "OK")
      /\ OneCopy'
  <2> HIDE DEF p, res
  <2>1. /\ \A q \in Requests : /\ Answered(q)' <=> Answered(q) \/ q = r
                               /\ q # r => (Done(q)' <=> Done(q))
        /\ ~Done(r) /\ (Done(r)' <=> p.csum_ok)
        /\ OneCopy'
    BY <1>0, <1>1, ReplyJoins
  <2> QED
    BY <1>1, <2>1
<1>3. Around(r) /\ \A q \in Requests : Around(q)' => Around(q)
  BY <1>0, <1>1, <1>2 DEF Around
<1>4. FlowFits(f) /\ RuleFits(r) /\ Waits(f)
  BY <1>0, <1>3 DEF RuleInv, FlowFits
<1>5. r.type # "UNLOCK" /\ prism \in RuleTables
  BY <1>0, <1>4 DEF RuleFits, TypeOK
<1>6. /\ \A g : g # f =>
           /\ g \in DOMAIN res.table <=> g \in DOMAIN prism
           /\ g \in DOMAIN prism => res.table[g] = prism[g]
      /\ r.type = "ADD" /\ f \notin DOMAIN prism =>
           IF res.error = "OK" THEN Locked(res.table, f)
           ELSE f \notin DOMAIN res.table
      /\ r.type = "LOCK" /\ f \in DOMAIN prism /\ prism[f].locked = 0 =>
           res.error = "OK" /\ Locked(res.table, f)
      /\ r.type = "CHOWN" /\ Locked(prism, f) =>
           /\ res.error = "OK" /\ f \in DOMAIN res.table
           /\ res.table[f] = [owner |-> r.srv, locked |-> 0]
      /\ r.type = "DELETE" /\ f \in DOMAIN prism =>
           res.error = "OK" /\ f \notin DOMAIN res.table
  BY <1>0, <1>5, HandlerResult
<1> HIDE DEF res, p
<1>7. Locked(prism, f)' <=> Locked(res.table, f)
  BY <1>1 DEF Locked
<1>8. RuleFits(r)'
  BY <1>1, <1>2, <1>4, <1>6, <1>7 DEF RuleFits, Absent, Owned
<1>9. FlowFits(f)'
  <2>1. Waits(f)'
    BY <1>1, <1>4 DEF Waits
  <2>2. ~InTransit(f)'
    BY <2>1 DEF Waits, InTransit, Waiting
  <2>3. \A t \in Servers : Follows(t, f)'
    BY <2>1 DEF Waits, Follows, Waiting, Settled
  <2>4. \A q \in Requests : q.flow = f /\ Around(q)' => q = r
    BY <1>0, <1>3, <1>4 DEF FlowFits
  <2> QED
    BY <1>8, <2>1, <2>2, <2>3, <2>4 DEF FlowFits
<1>10. ASSUME NEW g \in Flows, g # f PROVE FlowFits(g)'
  <2>1. RuleKept(g)
    BY <1>1, <1>6, <1>10 DEF RuleKept
  <2>2. RequestsKept(g)
    BY <1>2, <1>3, <1>10 DEF RequestsKept
  <2>3. FlowKept(g)
    BY <1>1, <2>1, <2>2, ConnectionsKept, WireKept DEF FlowKept
  <2> QED
    BY <2>3, FlowFrame DEF RuleInv
<1> QED
  BY <1>2, <1>9, <1>10 DEF FlowsFit

\* After a reply is received its flow has no request (on_recv).
LEMMA ReceivedLast ==
  ASSUME RuleInv, VerifyCsum, NEW s \in Servers, NEW types,
         on_recv(s, types), net' = net,
         NEW CONSTANT r, r = Head(link[s]).req,
         pending' \subseteq pending \ {r}
  PROVE  /\ RuleFits(r) /\ Done(r) /\ Waits(r.flow)
         /\ \A q \in Requests : q.flow = r.flow => ~Around(q)'
         /\ \A g \in Flows : g # r.flow => RequestsKept(g)
         /\ OneCopy'
<1> DEFINE h == Head(link[s])
           f == r.flow
<1>0. TypeOK /\ OneCopy /\ PacketsFit
  BY DEF RuleInv, ConnInv
<1>1. r \in Requests /\ f \in Flows /\ r \in pending
  BY <1>0, ReplyReceived
<1>2. PopLink(s) /\ link[s] # <<>> /\ h.kind = "reply" /\ h.csum_ok
  BY DEF on_recv, HeadIs, Received
<1>3. /\ OneCopy'
      /\ \A q \in Requests :
           IF h.kind = "reply" /\ h.req = q
           THEN /\ Answered(q) /\ ~Answered(q)' /\ ~Done(q)'
                /\ Done(q) <=> h.csum_ok
                /\ q \notin net
           ELSE (Answered(q)' <=> Answered(q)) /\ (Done(q)' <=> Done(q))
  BY <1>0, <1>2, HeadLeaves
<1>4. pending' \subseteq pending \ {r} /\ r = h.req
  OBVIOUS
<1> HIDE DEF h
<1>5. Around(r) /\ ~Around(r)' /\ Done(r)
  BY <1>1, <1>2, <1>3, <1>4 DEF Around
<1>6. \A q \in Requests : q # r =>
        (Around(q)' => Around(q)) /\ (Done(q)' <=> Done(q))
  BY <1>3, <1>4 DEF Around
<1>7. FlowFits(f)
  BY <1>1 DEF RuleInv
<1>8. \A q \in Requests : q.flow = f => ~Around(q)'
  BY <1>1, <1>5, <1>6, <1>7 DEF FlowFits
<1>9. \A g \in Flows : g # f => RequestsKept(g)
  BY <1>5, <1>6 DEF RequestsKept
<1>10. RuleFits(r) /\ Waits(f)
  BY <1>1, <1>5, <1>7 DEF FlowFits
<1> QED
  BY <1>3, <1>5, <1>7, <1>8, <1>9, <1>10 DEF h

\* The reply to a configuration request is received: the connection is
\* exported, or goes on being served by its new owner.
LEMMA RulesReply ==
  ASSUME RuleInv, VerifyCsum, NEW s \in Servers,
         after_configure_switch(s) \/ after_change_owner(s)
  PROVE  FlowsFit'
<1>0. TypeOK /\ OneCopy /\ PacketsFit /\ CallbackFindsConnection
  BY DEF RuleInv, ConnInv
<1>1. PICK r : r = Head(link[s]).req
  OBVIOUS
<1>2. PICK types : /\ on_recv(s, types)
                   /\ types \in {{"ADD", "LOCK"}, {"CHOWN"}}
                   /\ types = {"CHOWN"} <=> after_change_owner(s)
  BY DEF after_configure_switch, after_change_owner, on_recv
<1> DEFINE f == r.flow
<1>3. /\ r \in Requests /\ f \in Flows /\ r \in pending /\ r.srv = s
      /\ r.type \in types
  BY <1>0, <1>1, <1>2, ReplyReceived
<1>4. UNCHANGED <<prism, net, wire>>
  BY DEF after_configure_switch, after_change_owner
<1>5. CASE Die(s, "export")
  <2>1. /\ \A t \in Servers, g \in Flows : PhaseKept(t, g)
        /\ pending' \subseteq pending \ {r}
    BY <1>0, <1>3, <1>5, DeathKept, Died
  <2>2. /\ \A q \in Requests : q.flow = f => ~Around(q)'
        /\ \A g \in Flows : g # f => RequestsKept(g)
        /\ OneCopy'
    BY <1>1, <1>2, <1>4, <2>1, ReceivedLast
  <2>3. RequestsKept(f)
    BY <2>2 DEF RequestsKept
  <2>4. \A g \in Flows : FlowKept(g)
    BY <1>4, <2>1, <2>2, <2>3, TableKept, WireKept DEF FlowKept
  <2> QED
    BY <2>2, <2>4, AllKept DEF FlowsFit
<1>6. ASSUME NEW ph, SetPhase(s, f, ph), pending' = pending \ {r},
             \/ ph = "exporting" /\ r.type \in {"ADD", "LOCK"}
             \/ ph = "responding" /\ r.type = "CHOWN"
      PROVE  FlowsFit'
  <2>1. /\ RuleFits(r) /\ Done(r) /\ Waits(f)
        /\ \A q \in Requests : q.flow = f => ~Around(q)'
        /\ \A g \in Flows : g # f => RequestsKept(g)
        /\ OneCopy'
    BY <1>1, <1>2, <1>4, <1>6, ReceivedLast
  <2> HIDE DEF f
  <2>2. /\ \A t \in Servers, g \in Flows :
             t # s \/ g # f => hcs'[t][g] = hcs[t][g]
        /\ hcs'[s][f].phase = ph
        /\ hcs'[s][f].imported = hcs[s][f].imported
    BY <1>0, <1>3, <1>6, PhaseSet
  <2>3. ASSUME NEW g \in Flows, g # f PROVE FlowFits(g)'
    <3>1. \A t \in Servers : PhaseKept(t, g)
      BY <2>2, <2>3 DEF PhaseKept
    <3> QED
      BY <1>4, <2>1, <2>3, <3>1, FlowFrame, TableKept, WireKept
      DEF FlowKept, RuleInv
  <2>4. \A t \in Servers : t # s => hcs'[t][f].phase \in Waiting
    BY <1>3, <2>1, <2>2 DEF Waits
  <2>5. \A m \in wire' : m.flow # f
    BY <1>4, <2>1 DEF Waits
  <2>6. \A t \in Servers : t # s => Follows(t, f)'
    BY <2>4 DEF Follows, Waiting, Settled
  <2>7. FlowFits(f)'
    <3>1. CASE ph = "exporting"
      <4>1. Locked(prism, f)
        BY <1>6, <2>1, <3>1 DEF RuleFits, f
      <4>2. Locked(prism, f)' /\ Follows(s, f)'
        BY <1>4, <2>2, <3>1, <4>1 DEF Follows, Settled, Locked
      <4> QED
        BY <2>1, <2>6, <4>2 DEF FlowFits
    <3>2. CASE ph = "responding" /\ r.type = "CHOWN"
      <4>1. Owned(s, f)
        BY <1>3, <2>1, <3>2 DEF RuleFits, f
      <4>2. hcs[s][f].imported
        BY <1>0, <1>3, <3>2 DEF CallbackFindsConnection, f
      <4>3. Owned(s, f)' /\ Follows(s, f)'
        BY <1>4, <2>2, <4>1, <4>2 DEF Follows, Owned
      <4>4. ~InTransit(f)'
        BY <2>2, <2>4, <2>5, <3>2 DEF InTransit, Waiting
      <4> QED
        BY <2>1, <2>6, <4>3, <4>4 DEF FlowFits
    <3> QED
      BY <1>6, <3>1, <3>2
  <2> QED
    BY <2>1, <2>3, <2>7 DEF FlowsFit
<1>7. CASE after_configure_switch(s)
  <2>1. types = {"ADD", "LOCK"}
    <3>1. Head(link[s]).req.type \in {"ADD", "LOCK"}
      BY <1>7 DEF after_configure_switch, on_recv
    <3> QED
      BY <1>1, <1>2, <1>3, <3>1
  <2>2. \/ Die(s, "export")
        \/ SetPhase(s, f, "exporting") /\ pending' = pending \ {r}
    BY <1>1, <1>7 DEF after_configure_switch
  <2> QED
    BY <1>3, <1>5, <1>6, <2>1, <2>2
<1>8. CASE after_change_owner(s)
  <2>1. SetPhase(s, f, "responding") /\ pending' = pending \ {r}
    BY <1>1, <1>8 DEF after_change_owner
  <2> QED
    BY <1>2, <1>3, <1>6, <1>8, <2>1
<1> QED
  BY <1>7, <1>8

\* The callbacks of a connection (phttp_server.cpp, export2, close2).
LEMMA RulesCallback ==
  ASSUME RuleInv, NEW s \in Servers, NEW f \in Flows, Callback(s, f)
  PROVE  FlowsFit'
<1>0. TypeOK /\ OneCopy /\ FlowFits(f) /\ ConnectionsFit
  BY DEF RuleInv, ConnInv
<1>1. UNCHANGED <<prism, link>>
  BY DEF Callback, on_read_eof, on_read_bad, on_read_answer,
         on_read_handoff, after_send_http_res, after_close_local,
         after_close_imported, after_real_close_imported, after_close,
         after_real_close, handoff_done
<1>2. ASSUME UNCHANGED net, pending' \subseteq pending,
             \A t \in Servers, g \in Flows : PhaseKept(t, g),
             \A g \in Flows : MessagesKept(g)
      PROVE  FlowsFit'
  <2>1. (\A g : RequestsKept(g) /\ RuleKept(g)) /\ OneCopy'
    BY <1>0, <1>1, <1>2, TrafficKept, TableKept
  <2>2. \A g \in Flows : FlowKept(g)
    BY <1>2, <2>1 DEF FlowKept
  <2> QED
    BY <2>1, <2>2, AllKept DEF FlowsFit
<1>3. ASSUME UNCHANGED <<net, wire>>, NEW why, Die(s, why) PROVE FlowsFit'
  BY <1>0, <1>2, <1>3, DeathKept, WireKept
<1>4. ASSUME \A t \in Servers, g \in Flows :
               t # s \/ g # f => hcs'[t][g] = hcs[t][g]
      PROVE  \A t \in Servers, g \in Flows : t # s \/ g # f => PhaseKept(t, g)
  BY <1>4 DEF PhaseKept
<1>5. ASSUME NEW ph, SetPhase(s, f, ph), UNCHANGED <<net, pending, wire>>,
             \/ {hcs[s][f].phase, ph} \subseteq Settled
             \/ {hcs[s][f].phase, ph} \subseteq Leaving
      PROVE  FlowsFit'
  <2>1. PhaseKept(s, f)
    BY <1>0, <1>5, PhaseSet DEF PhaseKept
  <2>2. \A t \in Servers, g \in Flows : PhaseKept(t, g)
    BY <1>0, <1>4, <1>5, <2>1, PhaseSet
  <2> QED
    BY <1>2, <1>5, <2>2, WireKept
<1>6. ASSUME PutHcs(s, f, NoHcs), UNCHANGED <<net, pending, wire>>
      PROVE  FlowsFit'
  <2>1. PhaseKept(s, f)
    BY <1>0, <1>6, HcsAssigned DEF PhaseKept, NoHcs
  <2>2. \A t \in Servers, g \in Flows : PhaseKept(t, g)
    BY <1>0, <1>4, <1>6, <2>1, HcsAssigned
  <2> QED
    BY <1>2, <1>6, <2>2, WireKept
<1>7. ASSUME hcs[s][f].phase \in {"open", "responding"},
             phttp_start_close(s, f), UNCHANGED <<net, wire>>
      PROVE  FlowsFit'
  <2>1. {hcs[s][f].phase, "closing"} \subseteq Settled
    BY <1>7 DEF Settled
  <2> QED
    BY <1>3, <1>5, <1>7, <2>1 DEF phttp_start_close
<1>8. ASSUME NEW c, PutHcs(s, f, c), c.phase \in Waiting,
             hcs[s][f].phase \in Settled, UNCHANGED wire,
             NEW type \in RequestTypes, NEW k \in Nat,
             prism_switch_client_queue_task(s, f, type, k),
             \/ type = "ADD" /\ Absent(f)
             \/ type \in {"LOCK", "DELETE"} /\ Owned(s, f)
      PROVE  FlowsFit'
  <2>1. /\ hcs'[s][f] = c
        /\ \A t \in Servers, g \in Flows :
             t # s \/ g # f => hcs'[t][g] = hcs[t][g]
    BY <1>0, <1>8, HcsAssigned
  <2>2. /\ \A t \in Servers : t # s => hcs[t][f].phase \in Waiting
        /\ \A m \in wire : m.flow # f
        /\ \A r \in Requests : r.flow = f => ~Around(r)
    BY <1>0, <1>8, SettledAlone
  <2>3. Waits(f)'
    BY <1>8, <2>1, <2>2 DEF Waits
  <2>4. /\ FlowFits(f)' /\ OneCopy'
        /\ \A g \in Flows : g # f => RequestsKept(g)
    BY <1>0, <1>1, <1>8, <2>2, <2>3, QueuedFits
  <2>5. ASSUME NEW g \in Flows, g # f PROVE FlowFits(g)'
    <3>1. \A t \in Servers : PhaseKept(t, g)
      BY <1>4, <2>1, <2>5
    <3>2. FlowKept(g)
      BY <1>1, <1>8, <2>4, <2>5, <3>1, TableKept, WireKept DEF FlowKept
    <3> QED
      BY <3>2, FlowFrame DEF RuleInv
  <2> QED
    BY <2>4, <2>5 DEF FlowsFit
<1>9. CASE on_read_eof(s, f) \/ on_read_bad(s, f)
  BY <1>7, <1>9 DEF on_read_eof, on_read_bad, Readable
<1>10. CASE on_read_answer(s, f)
  <2> DEFINE c == [hcs[s][f] EXCEPT !.req = sock[s][f].rcv,
                                    !.phase = "responding"]
  <2>1. PutHcs(s, f, c) /\ UNCHANGED <<net, pending, wire>>
    BY <1>10 DEF on_read_answer, PutHcs
  <2>2. c.phase = "responding" /\ c.imported = hcs[s][f].imported
    BY <1>0, FieldTypes DEF HttpClientSockets
  <2>3. hcs[s][f].phase = "open"
    BY <1>10 DEF on_read_answer, Readable
  <2> HIDE DEF c
  <2>4. PhaseKept(s, f)
    BY <1>0, <2>1, <2>2, <2>3, HcsAssigned DEF PhaseKept, Settled
  <2>5. \A t \in Servers, g \in Flows : PhaseKept(t, g)
    BY <1>0, <1>4, <2>1, <2>4, HcsAssigned
  <2> QED
    BY <1>2, <2>1, <2>5, WireKept
<1>11. ASSUME NEW d \in Servers, on_read_handoff(s, f, d) PROVE FlowsFit'
  <2> DEFINE c == [hcs[s][f] EXCEPT !.req = sock[s][f].rcv, !.dest = d,
                                    !.phase = "configuring"]
             type == IF hcs[s][f].imported THEN "LOCK" ELSE "ADD"
  <2>1. /\ PutHcs(s, f, c) /\ UNCHANGED wire
        /\ prism_switch_client_queue_task(s, f, type, sock[s][f].rcv)
        /\ hcs[s][f].phase = "open"
    BY <1>11 DEF on_read_handoff, PutHcs, Readable
  <2>2. c.phase = "configuring"
    BY <1>0, FieldTypes DEF HttpClientSockets
  <2>3. IF hcs[s][f].imported THEN Owned(s, f) ELSE Absent(f)
    BY <1>0, <2>1 DEF FlowFits, Follows, Settled
  <2>4. /\ type \in RequestTypes /\ sock[s][f].rcv \in Nat
        /\ \/ type = "ADD" /\ Absent(f)
           \/ type \in {"LOCK", "DELETE"} /\ Owned(s, f)
    BY <1>0, <2>3, NumberTypes DEF RequestTypes
  <2> HIDE DEF c, type
  <2>5. c.phase \in Waiting /\ hcs[s][f].phase \in Settled
    BY <2>1, <2>2 DEF Waiting, Settled
  <2> QED
    BY <1>8, <2>1, <2>4, <2>5
<1>12. CASE after_send_http_res(s, f)
  <2>1. {hcs[s][f].phase, "open"} \subseteq Settled
    BY <1>12 DEF after_send_http_res, Settled
  <2> QED
    BY <1>3, <1>5, <1>12, <2>1 DEF after_send_http_res
<1>13. CASE after_close_local(s, f)
  BY <1>6, <1>13 DEF after_close_local, PutHcs
<1>14. CASE after_close_imported(s, f)
  <2>1. {hcs[s][f].phase, "closewait"} \subseteq Settled
    BY <1>14 DEF after_close_imported, Settled
  <2> QED
    BY <1>5, <1>14, <2>1 DEF after_close_imported
<1>15. CASE after_real_close_imported(s, f)
  <2>1. /\ PutHcs(s, f, NoHcs) /\ UNCHANGED wire
        /\ prism_switch_client_queue_task(s, f, "DELETE", hcs[s][f].req)
        /\ hcs[s][f].phase = "closewait"
    BY <1>15 DEF after_real_close_imported, PutHcs
  <2>2. hcs[s][f].imported
    BY <1>0, <2>1 DEF ConnectionsFit, Fits, PhaseSocket
  <2>3. Owned(s, f)
    BY <1>0, <2>1, <2>2 DEF FlowFits, Follows, Settled
  <2>4. /\ NoHcs.phase \in Waiting /\ hcs[s][f].phase \in Settled
        /\ "DELETE" \in RequestTypes /\ hcs[s][f].req \in Nat
    BY <1>0, <2>1, NumberTypes DEF NoHcs, Waiting, Settled, RequestTypes
  <2> QED
    BY <1>8, <2>1, <2>3, <2>4
<1>16. CASE after_close(s, f)
  <2>1. {hcs[s][f].phase, "monitoring"} \subseteq Leaving
    BY <1>16 DEF after_close, Leaving
  <2> QED
    BY <1>5, <1>16, <2>1 DEF after_close
<1>17. CASE after_real_close(s, f)
  <2>1. PhaseKept(s, f)
    BY <1>0, <1>17, PhaseSet DEF after_real_close, PhaseKept
  <2>2. \A t \in Servers, g \in Flows : PhaseKept(t, g)
    BY <1>0, <1>4, <1>17, <2>1, PhaseSet DEF after_real_close
  <2>3. InTransit(f)
    BY <1>17 DEF after_real_close, InTransit
  <2>4. \A m \in wire' : m \in wire \/ m.flow = f
    BY <1>17 DEF after_real_close
  <2>5. \A g \in Flows : MessagesKept(g)
    BY <2>3, <2>4 DEF MessagesKept, InTransit
  <2> QED
    BY <1>2, <1>17, <2>2, <2>5 DEF after_real_close
<1>18. CASE handoff_done(s, f)
  BY <1>3, <1>6, <1>18 DEF handoff_done, PutHcs
<1> QED
  BY <1>9, <1>10, <1>11, <1>12, <1>13, <1>14, <1>15, <1>16, <1>17, <1>18
  DEF Callback

\* A handoff message is taken over or forwarded (import2).
LEMMA RulesMessage ==
  ASSUME RuleInv, NEW m \in wire, MessageStep(m)
  PROVE  FlowsFit'
<1> DEFINE s == m.dst
           f == m.flow
<1>0. /\ TypeOK /\ OneCopy /\ OneHolder /\ ConnectionsFit
      /\ s \in Servers /\ f \in Flows /\ m.req \in Nat
  BY DEF RuleInv, ConnInv, TypeOK, HandoffMessages
<1>1. UNCHANGED <<prism, link>>
  BY DEF MessageStep, on_handoff_import, on_handoff_forward
<1>2. FlowFits(f) /\ InTransit(f)
  BY <1>0 DEF RuleInv, InTransit
<1>3. CASE on_handoff_import(m)
  <2> DEFINE c == [phase |-> "chowning", imported |-> TRUE,
                   req |-> m.req, dest |-> Front]
  <2>1. /\ PutHcs(s, f, c) /\ wire' = wire \ {m}
        /\ prism_switch_client_queue_task(s, f, "CHOWN", m.req)
    BY <1>3 DEF on_handoff_import, PutHcs, start_change_owner
  <2>2. c.phase = "chowning"
    OBVIOUS
  <2> HIDE DEF c
  <2>3. /\ hcs'[s][f] = c
        /\ \A t \in Servers, g \in Flows :
             t # s \/ g # f => hcs'[t][g] = hcs[t][g]
    BY <1>0, <2>1, HcsAssigned
  <2>4. Locked(prism, f) /\ \A r \in Requests : r.flow = f => ~Around(r)
    <3>1. ~Waits(f)
      BY DEF Waits
    <3> QED
      BY <1>2, <3>1, NoneAround DEF FlowFits
  <2>5. ASSUME NEW t \in Servers PROVE hcs[t][f].phase \in Waiting
    <3>0. Follows(t, f) /\ ~Absent(f) /\ ~Owned(t, f)
      <4>1. Follows(t, f)
        BY <1>2 DEF FlowFits
      <4> QED
        BY <2>4, <4>1 DEF Owned, Absent, Locked
    <3>1. hcs[t][f].phase \notin Settled
      BY <3>0 DEF Follows
    <3>2. sock[t][f].st = "none"
      BY <1>0 DEF OneHolder
    <3>3. hcs[t][f].phase \notin Leaving
      BY <1>0, <3>2 DEF ConnectionsFit, Fits, PhaseSocket
    <3>4. hcs[t][f].phase \in Phases
      BY <1>0, FieldTypes DEF HttpClientSockets
    <3> QED
      BY <3>1, <3>3, <3>4 DEF Waiting, Settled, Leaving, Phases
  <2>6. \A n \in wire' : n.flow # f
    BY <1>0, <2>1 DEF OneHolder
  <2>7. Waits(f)'
    BY <1>0, <2>2, <2>3, <2>5, <2>6 DEF Waits, Waiting
  <2>8. "CHOWN" \in RequestTypes
    BY DEF RequestTypes
  <2> HIDE DEF s, f
  <2>9. /\ FlowFits(f)' /\ OneCopy'
        /\ \A g \in Flows : g # f => RequestsKept(g)
    BY <1>0, <1>1, <2>1, <2>4, <2>7, <2>8, QueuedFits
  <2>10. ASSUME NEW g \in Flows, g # f PROVE FlowFits(g)'
    <3>1. \A t \in Servers : PhaseKept(t, g)
      BY <2>3, <2>10 DEF PhaseKept
    <3>2. wire' \subseteq wire
      BY <2>1
    <3>3. FlowKept(g)
      BY <1>1, <2>9, <2>10, <3>1, <3>2, TableKept, WireKept DEF FlowKept
    <3> QED
      BY <3>3, FlowFrame DEF RuleInv
  <2> QED
    BY <2>9, <2>10 DEF FlowsFit
<1>4. ASSUME NEW d \in Servers, on_handoff_forward(m, d) PROVE FlowsFit'
  <2>1. UNCHANGED net
    BY <1>4 DEF on_handoff_forward
  <2>2. UNCHANGED <<hcs, pending>> \/ Die(s, "handoff")
    BY <1>4 DEF on_handoff_forward
  <2>3. /\ \A t \in Servers, g \in Flows : PhaseKept(t, g)
        /\ pending' \subseteq pending
    BY <1>0, <2>2, DeathKept, ConnectionsKept
  <2>4. \A n \in wire' : n \in wire \/ n.flow = f
    <3>1. [m EXCEPT !.dst = d].flow = f
      BY <1>0 DEF TypeOK, HandoffMessages
    <3> QED
      BY <1>4, <3>1 DEF on_handoff_forward
  <2>5. \A g \in Flows : MessagesKept(g)
    BY <1>2, <2>4 DEF MessagesKept, InTransit
  <2>6. (\A g : RequestsKept(g) /\ RuleKept(g)) /\ OneCopy'
    BY <1>0, <1>1, <2>1, <2>3, TrafficKept, TableKept
  <2>7. \A g \in Flows : FlowKept(g)
    BY <2>3, <2>5, <2>6 DEF FlowKept
  <2> QED
    BY <2>6, <2>7, AllKept DEF FlowsFit
<1> QED
  BY <1>3, <1>4 DEF MessageStep

\* The invariant is inductive.
LEMMA RulesStep ==
  ASSUME TimelyReplies, VerifyCsum, RuleInv, [Next]_vars
  PROVE  RuleInv'
<1>0. ConnInv' /\ Front \in Servers
  BY ConnStep, SwitchAssumption DEF RuleInv
<1>1. ASSUME NEW f \in Flows, ClientStep(f) PROVE FlowsFit'
  BY <1>0, <1>1, RulesConnection, RulesOutside DEF ClientStep
<1>2. ASSUME NEW s \in Servers, NEW f \in Flows,
             ServerSegment(s, f) \/ KernelDestroy(s, f) \/ Callback(s, f)
      PROVE  FlowsFit'
  BY <1>2, RulesOutside, RulesCallback
<1>3. ASSUME NEW s \in Servers, Arrival(s) \/ LoseReply(s) PROVE FlowsFit'
  BY <1>3, RulesArrival, RulesReply DEF Arrival, LoseReply
<1>4. ASSUME NEW r, SwitchConfig(r) \/ LoseRequest(r) PROVE FlowsFit'
  BY <1>4, RulesSwitch, RulesCopies
<1>5. ASSUME NEW r \in pending, retry_send(r) PROVE FlowsFit'
  BY <1>5, RulesCopies
<1>6. ASSUME NEW m \in wire, MessageStep(m) PROVE FlowsFit'
  BY <1>6, RulesMessage
<1>7. ASSUME UNCHANGED vars PROVE FlowsFit'
  <2>1. /\ TypeOK /\ OneCopy
        /\ UNCHANGED <<prism, net, pending, link, hcs, wire>>
    BY <1>7 DEF RuleInv, ConnInv, vars
  <2>2. (\A f : RequestsKept(f)) /\ OneCopy'
    BY <2>1, TrafficKept
  <2>3. \A f \in Flows : FlowKept(f)
    BY <2>1, <2>2, TableKept, ConnectionsKept, WireKept DEF FlowKept
  <2>4. \A f \in Flows : FlowFits(f)'
    BY <2>3, AllKept
  <2> QED
    BY <2>2, <2>4 DEF FlowsFit
<1>8. FlowsFit'
  BY <1>1, <1>2, <1>3, <1>4, <1>5, <1>6, <1>7 DEF Next
<1> QED
  BY <1>0, <1>8 DEF RuleInv, FlowsFit

\* The rule, the request and the connection of every flow fit, in every
\* reachable state.
THEOREM RuleInvariant ==
  ASSUME TimelyReplies, VerifyCsum
  PROVE  Spec => []RuleInv
<1>1. Init => RuleInv
  BY ConnInit, RulesInit DEF RuleInv, FlowsFit
<1>2. RuleInv /\ [Next]_vars => RuleInv'
  BY RulesStep
<1> QED
  BY <1>1, <1>2, PTL DEF Spec

\* When replies beat the retry timer and hosts check UDP checksums: from the
\* export to the new owner's CHOWN the rule is locked, for every number of
\* clients and servers, with clients that reset, requests that are lost, a
\* full rule table and processes that die (after_configure_switch,
\* start_change_owner).
THEOREM TransitIsLocked ==
  ASSUME TimelyReplies, VerifyCsum
  PROVE  Spec => []LockedInTransit
<1>1. RuleInv => LockedInTransit
  BY DEF RuleInv, FlowFits, LockedInTransit
<1> QED
  BY <1>1, RuleInvariant, PTL

\* Under the same conditions the server that serves or closes an imported
\* connection owns an unlocked rule, and a connection still at the server
\* that accepted it has none (after_change_owner, after_real_close_imported).
THEOREM RulesFollow ==
  ASSUME TimelyReplies, VerifyCsum
  PROVE  Spec => []RuleFollowsConnection
<1>1. RuleInv => RuleFollowsConnection
  BY DEF RuleInv, FlowFits, Follows, Settled, Owned, Absent,
         RuleFollowsConnection
<1> QED
  BY <1>1, RuleInvariant, PTL

-----------------------------------------------------------------------------
(* Where the segments of a live client are.  When, besides, clients close  *)
(* only between requests (~AbruptClose), no process dies, and a connection *)
(* that has a client has a socket wherever the switch sends its segments.  *)

Alive(f) == client[f].st # "closed"

\* No process has died, no client resets, and every request is waited for.
Calm ==
  /\ \A s \in Servers : Up(s)
  /\ net \subseteq pending
  /\ \A s \in Servers : \A p \in Packets(s) :
       p.kind # "rst" /\ (p.kind = "reply" => p.req \in pending)

\* What the socket k of a connection c says of its client cl.
SocketLives(c, k, cl) ==
  /\ k.st # "rst"
  /\ k.st \in {"est", "zap"} => cl.st # "closed"
  /\ k.st = "cw" => cl.st = "closed" /\ cl.resp = cl.req
  /\ k.st = "gone" => (cl.st # "closed" <=> c.phase \in Leaving)

\* The sockets that can take a segment of their client.
Open == {"est", "fin"}

\* The client of a flow, its sockets, messages, requests and rule.
LifeFits(f) ==
  /\ client[f].st = "fin" => client[f].resp = client[f].req
  /\ \A s \in Servers : SocketLives(hcs[s][f], sock[s][f], client[f])
  /\ \A s \in Servers :
       sock[s][f].st = "fin" /\ hcs[s][f].phase = "none" =>
         s = Front /\ Absent(f)
  /\ \A m \in wire : m.flow = f => Alive(f)
  /\ \A r \in pending : r.flow = f /\ r.type = "DELETE" =>
       ~Alive(f) /\ \A s \in Servers : sock[s][f].st = "none"
  /\ Alive(f) /\ ~Locked(prism, f) =>
       sock[prism_in_lookup(prism, f)][f].st \in Open

\* Behind the reply that stops a flow no segment of the flow arrives.
Stops(p) == p.kind = "reply" /\ p.csum_ok /\ p.req.type \in {"ADD", "LOCK"}

LinkOrder ==
  \A s \in Servers : \A i, j \in 1..Len(link[s]) :
    i < j /\ Stops(link[s][i]) /\ link[s][j].kind # "reply" =>
      link[s][j].flow # link[s][i].req.flow

\* What the steps below preserve, besides RuleInv.
LivesFit ==
  /\ Calm
  /\ \A f \in Flows : LifeFits(f)
  /\ LinkOrder
  /\ NoOrphanSegment

LifeInv == RuleInv /\ LivesFit

-----------------------------------------------------------------------------
(* The links.                                                              *)

\* A packet on a link that a live client has sent meets a socket.
Met(s, p) ==
  p.kind # "reply" /\ Alive(p.flow) => sock[s][p.flow].st \in Open

\* NoOrphanSegment in terms of the packets.
LEMMA SegmentsMet ==
  ASSUME LifeInv
  PROVE  \A s \in Servers : \A p \in Packets(s) : Met(s, p)
<1> SUFFICES ASSUME NEW s \in Servers, NEW p \in Packets(s),
                    p.kind # "reply", Alive(p.flow)
             PROVE  sock[s][p.flow].st \in Open
  BY DEF Met
<1>1. TypeOK /\ Calm /\ NoOrphanSegment
  BY DEF LifeInv, LivesFit, RuleInv, ConnInv
<1>2. p \in Segments /\ p.flow \in Flows
  BY <1>1, PacketType DEF Replies
<1>3. p.kind \in {"data", "fin"}
  BY <1>1, <1>2 DEF Calm, Segments
<1>4. sock[s][p.flow].st \in {"est", "cw", "fin"}
  <2>1. PICK i \in 1..Len(link[s]) : p = link[s][i]
    BY DEF Packets
  <2> QED
    BY <1>1, <1>3, <2>1 DEF NoOrphanSegment, Alive
<1>5. SocketLives(hcs[s][p.flow], sock[s][p.flow], client[p.flow])
  BY <1>2 DEF LifeInv, LivesFit, LifeFits
<1> QED
  BY <1>4, <1>5 DEF SocketLives, Alive, Open

\* The segments of flow g that were on a link still meet a socket.
StillMet(g) ==
  Alive(g)' =>
    \/ /\ Alive(g)
       /\ \A s \in Servers : sock[s][g].st \in Open => sock'[s][g].st \in Open
    \/ \A s \in Servers : \A p \in Packets(s) :
         p \in Packets(s)' /\ p.kind # "reply" => p.flow # g

\* So it is enough to look at what joins a link.
LEMMA MetFrame ==
  ASSUME LifeInv, \A g \in Flows : StillMet(g),
         \A s \in Servers : \A p \in Packets(s)' :
           p \in Packets(s) \/ Met(s, p)'
  PROVE  NoOrphanSegment'
<1>0. TypeOK
  BY DEF LifeInv, RuleInv, ConnInv
<1>1. ASSUME NEW s \in Servers, NEW p \in Packets(s)' PROVE Met(s, p)'
  <2>1. CASE p \in Packets(s)
    <3>1. Met(s, p)
      BY <2>1, SegmentsMet
    <3>2. p.kind # "reply" => p.flow \in Flows
      BY <1>0, <2>1, PacketType
    <3> QED
      BY <2>1, <3>1, <3>2 DEF Met, StillMet
  <2> QED
    BY <2>1
<1> QED
  BY <1>1 DEF Met, Packets, NoOrphanSegment, Alive, Open

\* The order of a link that loses its head, and of one that does not change.
LEMMA OrderLeft ==
  ASSUME TypeOK, LinkOrder,
         \/ UNCHANGED link
         \/ \E s \in Servers : link[s] # <<>> /\ PopLink(s)
  PROVE  LinkOrder'
<1>1. CASE UNCHANGED link
  BY <1>1 DEF LinkOrder
<1>2. ASSUME NEW s \in Servers, link[s] # <<>>, PopLink(s) PROVE LinkOrder'
  <2> SUFFICES ASSUME NEW t \in Servers, NEW i \in 1..Len(link'[t]),
                      NEW j \in 1..Len(link'[t]), i < j,
                      Stops(link'[t][i]), link'[t][j].kind # "reply"
               PROVE  link'[t][j].flow # link'[t][i].req.flow
    BY DEF LinkOrder, Stops
  <2>1. CASE t # s
    <3>1. link'[t] = link[t]
      BY <1>2, <2>1, PoppedLink
    <3> QED
      BY <3>1 DEF LinkOrder
  <2>2. CASE t = s
    <3>1. /\ i + 1 \in 1..Len(link[t]) /\ link'[t][i] = link[t][i + 1]
          /\ j + 1 \in 1..Len(link[t]) /\ link'[t][j] = link[t][j + 1]
      BY <1>2, <2>2, PoppedLink
    <3>2. i + 1 < j + 1
      OBVIOUS
    <3> QED
      BY <3>1, <3>2 DEF LinkOrder
  <2> QED
    BY <2>1, <2>2
<1> QED
  BY <1>1, <1>2

\* A packet joins a link: a reply, or a segment of a flow that is not stopped.
LEMMA OrderJoined ==
  ASSUME LifeInv, NEW s \in Servers, NEW p \in Replies \cup Segments,
         Joins(s, p), p.kind # "reply" => ~Locked(prism, p.flow)
  PROVE  LinkOrder'
<1>0. TypeOK /\ LinkOrder /\ PacketsFit
  BY DEF LifeInv, RuleInv, ConnInv, LivesFit
<1> DEFINE n == Len(link[s])
<1>1. /\ \A t \in Servers : t # s => link'[t] = link[t]
      /\ n \in Nat /\ Len(link'[s]) = n + 1
      /\ \A i \in 1..n : link'[s][i] = link[s][i]
      /\ link'[s][n + 1] = p
  BY <1>0, JoinedLink
<1>2. ASSUME NEW i \in 1..n, Stops(link[s][i]), p.kind # "reply"
      PROVE  p.flow # link[s][i].req.flow
  <2> DEFINE q == link[s][i]
             r == q.req
  <2>1. q \in Packets(s)
    BY DEF Packets
  <2>2. q \in Replies
    BY <1>0, <1>2, <2>1, PacketType DEF Stops, Segments
  <2>3. r \in Requests /\ r.flow \in Flows /\ r.srv = s
    BY <1>0, <1>2, <2>1, <2>2
    DEF Replies, Requests, PacketsFit, PacketFits, Stops
  <2> HIDE DEF q
  <2>4. q.kind = "reply" /\ q.csum_ok /\ r.type \in {"ADD", "LOCK"}
    BY <1>2 DEF Stops, q
  <2>5. Around(r) /\ Done(r)
    BY <2>1, <2>3, <2>4 DEF Around, Answered, Done
  <2>6. RuleFits(r)
    BY <2>3, <2>5 DEF LifeInv, RuleInv, FlowFits
  <2>7. Locked(prism, r.flow)
    BY <2>4, <2>5, <2>6 DEF RuleFits
  <2> QED
    BY <1>2, <2>7 DEF q
<1> HIDE DEF n
<1> SUFFICES ASSUME NEW t \in Servers, NEW i \in 1..Len(link'[t]),
                    NEW j \in 1..Len(link'[t]), i < j,
                    Stops(link'[t][i]), link'[t][j].kind # "reply"
             PROVE  link'[t][j].flow # link'[t][i].req.flow
  BY DEF LinkOrder, Stops
<1>3. CASE t # s
  BY <1>0, <1>1, <1>3 DEF LinkOrder
<1>4. CASE t = s
  <2>1. i \in 1..n /\ (j \in 1..n \/ j = n + 1)
    BY <1>1, <1>4
  <2>2. CASE j = n + 1
    BY <1>1, <1>2, <1>4, <2>1, <2>2
  <2>3. CASE j \in 1..n
    BY <1>0, <1>1, <1>4, <2>1, <2>3 DEF LinkOrder, n
  <2> QED
    BY <2>1, <2>2, <2>3
<1> QED
  BY <1>3, <1>4

-----------------------------------------------------------------------------
(* What a step leaves alone.                                               *)

\* Nothing happens to flow g, or its message moves, or its request is done.
LifeKept(g) ==
  /\ client'[g].st = client[g].st
  /\ client'[g].req = client[g].req /\ client'[g].resp = client[g].resp
  /\ \A s \in Servers : hcs'[s][g] = hcs[s][g] /\ sock'[s][g] = sock[s][g]
  /\ RuleKept(g)
  /\ \A m \in wire' : m.flow = g => \E n \in wire : n.flow = g
  /\ \A r \in pending' : r.flow = g => r \in pending

\* Where a kept rule sends segments.
LEMMA LookupKept ==
  ASSUME NEW g, RuleKept(g)
  PROVE  prism_in_lookup(prism, g)' = prism_in_lookup(prism, g)
BY DEF RuleKept, prism_in_lookup

\* Where a rule sends segments is a server.
LEMMA LookupType ==
  ASSUME TypeOK, NEW g \in Flows
  PROVE  prism_in_lookup(prism, g) \in Servers
<1>1. prism \in RuleTables
  BY DEF TypeOK
<1> QED
  BY <1>1, RuleType, SwitchAssumption DEF prism_in_lookup, Rules

\* A flow to which nothing happens.
LEMMA LifeFrame ==
  ASSUME TypeOK, NEW g \in Flows, LifeFits(g), LifeKept(g)
  PROVE  LifeFits(g)'
<1>1. /\ Locked(prism, g)' <=> Locked(prism, g)
      /\ Absent(g)' <=> Absent(g)
      /\ prism_in_lookup(prism, g)' = prism_in_lookup(prism, g)
      /\ prism_in_lookup(prism, g) \in Servers
  BY RuleKeptFacts, LookupKept, LookupType DEF LifeKept
<1>2. Alive(g)' <=> Alive(g)
  BY DEF LifeKept, Alive
<1>3. \A s \in Servers : SocketLives(hcs'[s][g], sock'[s][g], client'[g])
  BY DEF LifeKept, LifeFits, SocketLives
<1>4. \A m \in wire' : m.flow = g => Alive(g)'
  BY <1>2 DEF LifeKept, LifeFits
<1>5. \A r \in pending' : r.flow = g /\ r.type = "DELETE" =>
        ~Alive(g)' /\ \A s \in Servers : sock'[s][g].st = "none"
  BY <1>2 DEF LifeKept, LifeFits
<1>6. Alive(g)' /\ ~Locked(prism, g)' =>
        sock'[prism_in_lookup(prism, g)'][g].st \in Open
  BY <1>1, <1>2 DEF LifeKept, LifeFits
<1>7. client'[g].st = "fin" => client'[g].resp = client'[g].req
  BY DEF LifeKept, LifeFits
<1>8. \A s \in Servers : sock'[s][g].st = "fin" /\ hcs'[s][g].phase = "none" =>
        s = Front /\ Absent(g)'
  BY <1>1 DEF LifeKept, LifeFits
<1> QED
  BY <1>3, <1>4, <1>5, <1>6, <1>7, <1>8 DEF LifeFits

\* One connection of one server changes.
LEMMA LifeHop ==
  ASSUME LifeInv, NEW s \in Servers, NEW f \in Flows, OnlyAt(s, f),
         UNCHANGED <<prism, client>>,
         SocketLives(hcs'[s][f], sock'[s][f], client[f]),
         sock'[s][f].st = "fin" /\ hcs'[s][f].phase = "none" =>
           s = Front /\ Absent(f),
         \A m \in wire' : m \in wire \/ (m.flow = f /\ Alive(f)),
         \A r \in pending' : r.flow # f => r \in pending,
         \A r \in pending' : r.flow = f /\ r.type = "DELETE" =>
           ~Alive(f) /\ \A t \in Servers : sock'[t][f].st = "none",
         Alive(f) /\ ~Locked(prism, f) /\ sock[s][f].st \in Open =>
           sock'[s][f].st \in Open
  PROVE  \A g \in Flows : LifeFits(g)'
<1>0. TypeOK /\ \A g \in Flows : LifeFits(g)
  BY DEF LifeInv, RuleInv, ConnInv, LivesFit
<1>1. ASSUME NEW g \in Flows, g # f PROVE LifeFits(g)'
  <2>1. LifeKept(g)
    BY <1>1, TableKept DEF LifeKept, OnlyAt
  <2> QED
    BY <1>0, <2>1, LifeFrame
<1>2. LifeFits(f)'
  <2>1. LifeFits(f)
    BY <1>0
  <2>2. /\ Locked(prism, f)' <=> Locked(prism, f)
        /\ Absent(f)' <=> Absent(f)
        /\ prism_in_lookup(prism, f)' = prism_in_lookup(prism, f)
        /\ prism_in_lookup(prism, f) \in Servers
        /\ Alive(f)' <=> Alive(f)
    BY <1>0, LookupType DEF Locked, Absent, Alive, prism_in_lookup
  <2>3. \A t \in Servers : SocketLives(hcs'[t][f], sock'[t][f], client'[f])
    BY <2>1 DEF OnlyAt, LifeFits
  <2>4. \A t \in Servers :
          sock'[t][f].st = "fin" /\ hcs'[t][f].phase = "none" =>
            t = Front /\ Absent(f)'
    BY <2>1, <2>2 DEF OnlyAt, LifeFits
  <2>5. \A m \in wire' : m.flow = f => Alive(f)'
    BY <2>1, <2>2 DEF LifeFits
  <2>6. Alive(f)' /\ ~Locked(prism, f)' =>
          sock'[prism_in_lookup(prism, f)'][f].st \in Open
    BY <2>1, <2>2 DEF OnlyAt, LifeFits
  <2>7. client'[f].st = "fin" => client'[f].resp = client'[f].req
    BY <2>1 DEF LifeFits
  <2> QED
    BY <2>2, <2>3, <2>4, <2>5, <2>6, <2>7 DEF LifeFits
<1> QED
  BY <1>1, <1>2

\* The same, without traffic on the links: a callback or a message.
LEMMA LifeLocal ==
  ASSUME LifeInv, NEW s \in Servers, NEW f \in Flows, OnlyAt(s, f),
         UNCHANGED <<prism, link, client, abort>>,
         SocketLives(hcs'[s][f], sock'[s][f], client[f]),
         sock'[s][f].st = "fin" /\ hcs'[s][f].phase = "none" =>
           s = Front /\ Absent(f),
         \A m \in wire' : m \in wire \/ (m.flow = f /\ Alive(f)),
         net' \subseteq pending', pending \subseteq pending',
         \A r \in pending' : r.flow # f => r \in pending,
         \A r \in pending' : r.flow = f /\ r.type = "DELETE" =>
           ~Alive(f) /\ \A t \in Servers : sock'[t][f].st = "none",
         Alive(f) /\ sock[s][f].st \in Open => sock'[s][f].st \in Open
  PROVE  LivesFit'
<1>0. TypeOK /\ Calm /\ LinkOrder
  BY DEF LifeInv, RuleInv, ConnInv, LivesFit
<1>1. \A g \in Flows : LifeFits(g)'
  BY LifeHop
<1>2. \A t \in Servers : Packets(t)' = Packets(t)
  BY DEF Packets
<1>3. Calm'
  BY <1>0, <1>2 DEF Calm, Up
<1>4. LinkOrder'
  BY <1>0, OrderLeft
<1>5. \A g \in Flows : StillMet(g)
  BY DEF StillMet, OnlyAt, Alive
<1>6. NoOrphanSegment'
  BY <1>2, <1>5, MetFrame
<1> QED
  BY <1>1, <1>3, <1>4, <1>6 DEF LivesFit

-----------------------------------------------------------------------------
(* What the invariant says of one connection.                              *)

\* While a request is being worked on the client waits: no FIN is received.
LEMMA WorkingSocket ==
  ASSUME LifeInv, NEW s \in Servers, NEW f \in Flows,
         hcs[s][f].phase \in {"responding", "configuring", "chowning"}
  PROVE  sock[s][f].st = "est"
<1>1. /\ Fits(hcs[s][f], sock[s][f], client[f]) /\ TypeOK
      /\ SocketLives(hcs[s][f], sock[s][f], client[f])
  BY DEF LifeInv, RuleInv, ConnInv, ConnectionsFit, LivesFit, LifeFits
<1>2. /\ sock[s][f].st \in {"est", "cw", "rst"}
      /\ sock[s][f].snd < sock[s][f].rcv
      /\ client[f].resp <= sock[s][f].snd /\ sock[s][f].rcv <= client[f].req
  BY <1>1, NumberTypes DEF Fits, PhaseSocket, Numbers, Serving, Working
<1>3. client[f].resp # client[f].req
  BY <1>1, <1>2, NumberTypes
<1> QED
  BY <1>1, <1>2, <1>3 DEF SocketLives

\* Which phases a socket goes with.
LEMMA SocketPhase ==
  ASSUME TypeOK, ConnectionsFit, NEW s \in Servers, NEW f \in Flows
  PROVE  /\ sock[s][f].st = "fin" =>
              hcs[s][f].phase \in {"none", "closing", "closewait"}
         /\ sock[s][f].st = "zap" => hcs[s][f].phase \in Leaving
         /\ sock[s][f].st = "gone" =>
              hcs[s][f].phase \in Leaving \cup {"closing", "closewait"}
<1>1. PhaseSocket(hcs[s][f], sock[s][f]) /\ hcs[s][f].phase \in Phases
  BY FieldTypes DEF ConnectionsFit, Fits, HttpClientSockets
<1> QED
  BY <1>1 DEF PhaseSocket, Phases, Serving, Leaving

\* A closed socket can finish the FIN exchange: the rule lets it through.
LEMMA FinPasses ==
  ASSUME LifeInv, NEW s \in Servers, NEW f \in Flows, sock[s][f].st = "fin"
  PROVE  prism_out_lookup(prism, s, f)
<1>1. /\ hcs[s][f].phase \in {"none", "closing", "closewait"}
      /\ Follows(s, f) /\ LifeFits(f)
  BY SocketPhase DEF LifeInv, RuleInv, ConnInv, LivesFit, FlowFits
<1> QED
  BY <1>1 DEF Follows, Settled, LifeFits, Owned, Absent, prism_out_lookup

-----------------------------------------------------------------------------
(* The steps.                                                              *)

\* The callbacks of a connection (phttp_server.cpp, export2, close2).
LEMMA LifeCallback ==
  ASSUME LifeInv, NEW s \in Servers, NEW f \in Flows, Callback(s, f)
  PROVE  LivesFit'
<1> DEFINE c == hcs[s][f]
           k == sock[s][f]
<1>0. /\ ConnInv /\ TypeOK /\ Calm
      /\ LifeFits(f) /\ FlowFits(f) /\ SocketLives(c, k, client[f])
      /\ PhaseSocket(c, k)
  BY DEF LifeInv, RuleInv, ConnInv, LivesFit, LifeFits, ConnectionsFit, Fits
<1>1. UNCHANGED <<prism, link, client>>
  BY DEF Callback, on_read_eof, on_read_bad, on_read_answer,
         on_read_handoff, after_send_http_res, after_close_local,
         after_close_imported, after_real_close_imported, after_close,
         after_real_close, handoff_done
<1>2. net \subseteq pending
  BY <1>0 DEF Calm
<1>3. ASSUME OnlyAt(s, f), UNCHANGED <<wire, abort>>, sock'[s][f].st = k.st,
             k.st = "gone" => (hcs'[s][f].phase \in Leaving <=>
                                 c.phase \in Leaving),
             k.st = "fin" /\ hcs'[s][f].phase = "none" =>
               s = Front /\ Absent(f),
             net' \subseteq pending', pending \subseteq pending',
             \A r \in pending' : r \in pending \/
               (r.flow = f /\ r.type # "DELETE")
      PROVE  LivesFit'
  <2>1. SocketLives(hcs'[s][f], sock'[s][f], client[f])
    BY <1>0, <1>3 DEF SocketLives
  <2>2. \A r \in pending' : r.flow = f /\ r.type = "DELETE" =>
          ~Alive(f) /\ \A t \in Servers : sock'[t][f].st = "none"
    BY <1>0, <1>3 DEF LifeFits, OnlyAt
  <2> QED
    BY <1>1, <1>3, <2>1, <2>2, LifeLocal
<1>4. ASSUME c.phase \in {"open", "responding"}, k.st \in {"est", "cw", "rst"},
             c.phase = "responding" => k.st # "est",
             phttp_start_close(s, f), UNCHANGED <<net, wire>>
      PROVE  LivesFit'
  <2>1. c.phase = "open"
    BY <1>4, WorkingSocket
  <2>2. /\ SetPhase(s, f, "closing") /\ SetSocket(s, f, "fin")
        /\ UNCHANGED <<pending, abort>>
    BY <1>4, <2>1 DEF phttp_start_close
  <2>3. OnlyAt(s, f) /\ sock'[s][f].st = "fin" /\ hcs'[s][f].phase = "closing"
    BY <1>0, <2>2, PhaseSet, SocketSet DEF OnlyAt
  <2>4. SocketLives(hcs'[s][f], sock'[s][f], client[f])
    BY <2>3 DEF SocketLives
  <2>5. \A r \in pending : r.flow = f => r.type # "DELETE"
    BY <1>0, <1>4 DEF LifeFits
  <2> QED
    BY <1>1, <1>2, <1>4, <2>2, <2>3, <2>4, <2>5, LifeLocal DEF Open
<1>5. CASE on_read_eof(s, f) \/ on_read_bad(s, f)
  BY <1>4, <1>5 DEF on_read_eof, on_read_bad, Readable
<1>6. CASE on_read_answer(s, f)
  <2> DEFINE d == [c EXCEPT !.req = k.rcv, !.phase = "responding"]
  <2>1. PutHcs(s, f, d) /\ UNCHANGED <<net, pending, sock, wire, abort>>
    BY <1>6 DEF on_read_answer, PutHcs
  <2>2. d.phase = "responding" /\ k.st \in {"est", "cw", "rst"}
    BY <1>0, <1>6, FieldTypes DEF HttpClientSockets, on_read_answer, Readable
  <2> HIDE DEF d
  <2>3. OnlyAt(s, f) /\ hcs'[s][f].phase = "responding"
    BY <1>0, <2>1, <2>2, HcsAssigned DEF OnlyAt
  <2> QED
    BY <1>2, <1>3, <2>1, <2>2, <2>3
<1>7. ASSUME NEW e \in Servers, on_read_handoff(s, f, e) PROVE LivesFit'
  <2> DEFINE d == [c EXCEPT !.req = k.rcv, !.dest = e, !.phase = "configuring"]
             n == [srv |-> s, flow |-> f,
                   type |-> IF c.imported THEN "LOCK" ELSE "ADD", k |-> k.rcv]
  <2>1. /\ PutHcs(s, f, d) /\ UNCHANGED <<sock, wire, abort>>
        /\ pending' = pending \cup {n} /\ net' = net \cup {n}
    BY <1>7 DEF on_read_handoff, PutHcs, prism_switch_client_queue_task
  <2>2. d.phase = "configuring" /\ k.st \in {"est", "cw", "rst"}
    BY <1>0, <1>7, FieldTypes DEF HttpClientSockets, on_read_handoff, Readable
  <2>3. n.flow = f /\ n.type # "DELETE"
    OBVIOUS
  <2> HIDE DEF d, n
  <2>4. OnlyAt(s, f) /\ hcs'[s][f].phase = "configuring"
    BY <1>0, <2>1, <2>2, HcsAssigned DEF OnlyAt
  <2> QED
    BY <1>2, <1>3, <2>1, <2>2, <2>3, <2>4
<1>8. CASE after_send_http_res(s, f)
  <2> DEFINE d == [k EXCEPT !.snd = c.req]
  <2>1. k.st = "est"
    BY <1>8, WorkingSocket DEF after_send_http_res
  <2>2. /\ SetPhase(s, f, "open") /\ PutSock(s, f, d)
        /\ UNCHANGED <<net, pending, wire, abort>>
    BY <1>8, <2>1 DEF after_send_http_res, PutSock
  <2>3. d.st = k.st
    BY <1>0, FieldTypes DEF KernelSockets
  <2> HIDE DEF d
  <2>4. OnlyAt(s, f) /\ sock'[s][f].st = k.st
    BY <1>0, <2>2, <2>3, PhaseSet, SockAssigned DEF OnlyAt
  <2> QED
    BY <1>2, <1>3, <2>1, <2>2, <2>4
<1>9. CASE after_close_local(s, f)
  <2>1. /\ c.phase = "closing" /\ ~c.imported
        /\ PutHcs(s, f, NoHcs) /\ UNCHANGED <<net, pending, sock, wire, abort>>
    BY <1>9 DEF after_close_local, PutHcs
  <2>2. OnlyAt(s, f) /\ sock'[s][f].st = k.st
    BY <1>0, <2>1, HcsAssigned DEF OnlyAt
  <2>3. k.st # "gone" /\ s = Front /\ Absent(f)
    BY <1>0, <2>1 DEF PhaseSocket, FlowFits, Follows, Settled
  <2> QED
    BY <1>2, <1>3, <2>1, <2>2, <2>3
<1>10. CASE after_close_imported(s, f) \/ after_close(s, f)
  <2>1. PICK ph \in {"closewait", "monitoring"} :
          /\ SetPhase(s, f, ph)
          /\ UNCHANGED <<net, pending, sock, wire, abort>>
          /\ ph = "closewait" => c.phase = "closing"
          /\ ph = "monitoring" => c.phase = "exporting"
    BY <1>10 DEF after_close_imported, after_close
  <2>2. /\ OnlyAt(s, f) /\ hcs'[s][f].phase = ph /\ sock'[s][f].st = k.st
        /\ ph \in Leaving <=> c.phase \in Leaving
    BY <1>0, <2>1, PhaseSet DEF OnlyAt, Leaving
  <2> QED
    BY <1>2, <1>3, <2>1, <2>2
<1>11. CASE after_real_close_imported(s, f)
  <2> DEFINE n == [srv |-> s, flow |-> f, type |-> "DELETE", k |-> c.req]
  <2>1. /\ PutHcs(s, f, NoHcs) /\ PutSock(s, f, NoSock)
        /\ UNCHANGED <<wire, abort>> /\ c.phase = "closewait" /\ k.st = "gone"
        /\ pending' = pending \cup {n} /\ net' = net \cup {n}
    BY <1>11
    DEF after_real_close_imported, PutHcs, PutSock,
        prism_switch_client_queue_task
  <2>2. n.flow = f
    OBVIOUS
  <2> HIDE DEF n
  <2>3. OnlyAt(s, f) /\ hcs'[s][f] = NoHcs /\ sock'[s][f] = NoSock
    BY <1>0, <2>1, HcsAssigned, SockAssigned DEF OnlyAt
  <2>4. ~Alive(f)
    BY <1>0, <2>1 DEF SocketLives, Alive, Leaving
  <2>5. \A t \in Servers : sock'[t][f].st = "none"
    BY <1>0, <2>1, <2>3, HeldHere DEF OnlyAt, NoSock
  <2>6. SocketLives(hcs'[s][f], sock'[s][f], client[f])
    BY <2>5 DEF SocketLives
  <2> QED
    BY <1>1, <1>2, <2>1, <2>2, <2>3, <2>4, <2>5, <2>6, LifeLocal
<1>12. CASE after_real_close(s, f)
  <2> DEFINE m == [dst |-> c.dest, flow |-> f, req |-> c.req,
                   rcv |-> k.rcv, snd |-> k.snd]
  <2>1. /\ SetPhase(s, f, "sending") /\ PutSock(s, f, NoSock)
        /\ UNCHANGED <<net, pending, abort>> /\ wire' = wire \cup {m}
        /\ c.phase = "monitoring" /\ k.st = "gone"
    BY <1>12 DEF after_real_close, PutSock
  <2>2. m.flow = f
    OBVIOUS
  <2> HIDE DEF m
  <2>3. OnlyAt(s, f) /\ sock'[s][f].st = "none"
    BY <1>0, <2>1, PhaseSet, SockAssigned DEF OnlyAt, NoSock
  <2>4. Alive(f)
    BY <1>0, <2>1 DEF SocketLives, Alive, Leaving
  <2>5. \A r \in pending : r.flow = f => r.type # "DELETE"
    BY <1>0, <2>1 DEF LifeFits
  <2>6. SocketLives(hcs'[s][f], sock'[s][f], client[f])
    BY <2>3 DEF SocketLives
  <2> QED
    BY <1>1, <1>2, <2>1, <2>2, <2>3, <2>4, <2>5, <2>6, LifeLocal DEF Open
<1>13. CASE handoff_done(s, f)
  <2>1. Up(c.dest) /\ c.phase = "sending"
    BY <1>0, <1>13, FieldTypes DEF Calm, handoff_done
  <2>2. PutHcs(s, f, NoHcs) /\ UNCHANGED <<net, pending, sock, wire, abort>>
    BY <1>13, <2>1 DEF handoff_done, PutHcs
  <2>3. OnlyAt(s, f) /\ k.st = "none" /\ sock'[s][f].st = k.st
    BY <1>0, <2>1, <2>2, HcsAssigned DEF OnlyAt, PhaseSocket
  <2> QED
    BY <1>2, <1>3, <2>2, <2>3
<1> QED
  BY <1>5, <1>6, <1>7, <1>8, <1>9, <1>10, <1>11, <1>12, <1>13 DEF Callback

\* A handoff message is taken over or forwarded (import2).
LEMMA LifeMessage ==
  ASSUME LifeInv, NEW m \in wire, MessageStep(m)
  PROVE  LivesFit'
<1> DEFINE s == m.dst
           f == m.flow
<1>0. /\ TypeOK /\ OneHolder /\ ConnectionsFit /\ Calm
      /\ s \in Servers /\ f \in Flows
  BY DEF LifeInv, RuleInv, ConnInv, LivesFit, TypeOK, HandoffMessages
<1>1. /\ LifeFits(f) /\ FlowFits(f) /\ Alive(f) /\ InTransit(f)
      /\ sock[s][f].st = "none"
  BY <1>0 DEF LifeInv, RuleInv, LivesFit, LifeFits, InTransit, OneHolder
<1>2. UNCHANGED <<prism, link, client>> /\ net \subseteq pending
  BY <1>0 DEF MessageStep, on_handoff_import, on_handoff_forward, Calm
<1>3. \A r \in pending : r.flow # f
  <2>1. ~Waits(f)
    BY DEF Waits
  <2> QED
    BY <1>0, <1>1, <2>1, NoneAround DEF Around, TypeOK
<1>4. CASE on_handoff_import(m)
  <2> DEFINE c == [phase |-> "chowning", imported |-> TRUE,
                   req |-> m.req, dest |-> Front]
             k == continue_import(m)
             n == [srv |-> s, flow |-> f, type |-> "CHOWN", k |-> m.req]
  <2>1. /\ PutHcs(s, f, c) /\ PutSock(s, f, k) /\ wire' = wire \ {m}
        /\ pending' = pending \cup {n} /\ net' = net \cup {n}
        /\ UNCHANGED abort
    BY <1>4 DEF on_handoff_import, PutHcs, PutSock, start_change_owner,
                prism_switch_client_queue_task
  <2>2. k.st = "est" /\ n.flow = f /\ n.type # "DELETE"
    BY DEF continue_import
  <2> HIDE DEF c, k, n
  <2>3. OnlyAt(s, f) /\ sock'[s][f].st = "est"
    BY <1>0, <2>1, <2>2, HcsAssigned, SockAssigned DEF OnlyAt
  <2>4. SocketLives(hcs'[s][f], sock'[s][f], client[f])
    BY <1>1, <2>3 DEF SocketLives, Alive
  <2> HIDE DEF s, f
  <2> QED
    BY <1>0, <1>2, <1>3, <2>1, <2>2, <2>3, <2>4, LifeLocal DEF Open
<1>5. ASSUME NEW d \in Servers, on_handoff_forward(m, d) PROVE LivesFit'
  <2>1. Up(d)
    BY <1>0 DEF Calm
  <2>2. /\ wire' = (wire \ {m}) \cup {[m EXCEPT !.dst = d]}
        /\ UNCHANGED <<net, hcs, sock, pending, abort>>
    BY <1>5, <2>1 DEF on_handoff_forward
  <2>3. [m EXCEPT !.dst = d].flow = f
    BY <1>0 DEF TypeOK, HandoffMessages
  <2>4. OnlyAt(s, f) /\ SocketLives(hcs'[s][f], sock'[s][f], client[f])
    BY <1>0, <1>1, <2>2 DEF OnlyAt, LifeFits
  <2>5. \A n \in wire' : n \in wire \/ (n.flow = f /\ Alive(f))
    BY <1>1, <2>2, <2>3
  <2> HIDE DEF s, f
  <2> QED
    BY <1>0, <1>1, <1>2, <1>3, <2>2, <2>4, <2>5, LifeLocal
<1> QED
  BY <1>4, <1>5 DEF MessageStep

\* A reply that is received was the only one to its request, and the others
\* are still waited for (on_recv).
LEMMA CalmReceived ==
  ASSUME LifeInv, NEW s \in Servers, NEW types, on_recv(s, types),
         UNCHANGED <<net, abort>>,
         NEW CONSTANT r, r = Head(link[s]).req, pending' = pending \ {r}
  PROVE  /\ Calm' /\ LinkOrder'
         /\ \A t \in Servers : Packets(t)' \subseteq Packets(t)
<1>0. TypeOK /\ PacketsFit /\ OneCopy /\ Calm /\ LinkOrder
  BY DEF LifeInv, RuleInv, ConnInv, LivesFit
<1>1. PopLink(s) /\ link[s] # <<>> /\ Head(link[s]).kind = "reply"
  BY DEF on_recv, HeadIs
<1>2. r \in Requests /\ r.srv = s
  BY <1>0, ReplyReceived
<1>3. ~Answered(r)' /\ r \notin net
  BY <1>0, <1>1, <1>2, HeadLeaves
<1>4. \A t \in Servers : Packets(t)' \subseteq Packets(t)
  BY <1>0, <1>1, PacketsPop
<1>5. ASSUME NEW t \in Servers, NEW p \in Packets(t)', p.kind = "reply"
      PROVE  p.req \in pending'
  <2>1. p \in Packets(t) /\ p.req \in pending /\ p.req.srv = t
    BY <1>0, <1>4, <1>5 DEF Calm, PacketsFit, PacketFits
  <2>2. p.req # r
    BY <1>2, <1>3, <1>5, <2>1 DEF Answered
  <2> QED
    BY <2>1, <2>2
<1>6. Calm'
  BY <1>0, <1>3, <1>4, <1>5 DEF Calm, Up
<1>7. LinkOrder'
  BY <1>0, <1>1, OrderLeft
<1> QED
  BY <1>4, <1>6, <1>7

\* The flow is stopped and its connection exported: nothing of it is left on
\* the link, as the reply came last (after_configure_switch).
LEMMA LifeExport ==
  ASSUME LifeInv, RuleInv', VerifyCsum, NEW s \in Servers,
         after_configure_switch(s)
  PROVE  LivesFit'
<1>1. PICK r : r = Head(link[s]).req
  OBVIOUS
<1> DEFINE f == r.flow
<1>2. on_recv(s, {"ADD", "LOCK"}) /\ UNCHANGED <<prism, net, wire, client>>
  BY DEF after_configure_switch
<1>3. /\ ConnInv /\ TypeOK /\ PacketsFit /\ CallbackFindsConnection
      /\ Calm /\ LinkOrder
  BY DEF LifeInv, RuleInv, ConnInv, LivesFit
<1>4. /\ r \in pending /\ r \in Requests /\ f \in Flows /\ r.srv = s
      /\ r.type \in {"ADD", "LOCK"}
  BY <1>1, <1>2, <1>3, ReplyReceived
<1>5. hcs[s][f].phase = "configuring" /\ sock[s][f].st = "est"
  <2>1. hcs[s][f].phase = "configuring"
    BY <1>3, <1>4 DEF CallbackFindsConnection
  <2> QED
    BY <1>4, <2>1, WorkingSocket
<1>6. /\ SetPhase(s, f, "exporting") /\ SetSocket(s, f, "zap")
      /\ pending' = pending \ {r} /\ UNCHANGED abort
  BY <1>1, <1>5 DEF after_configure_switch, tcp_is_established
<1>7. /\ Calm' /\ LinkOrder'
      /\ \A t \in Servers : Packets(t)' \subseteq Packets(t)
  BY <1>1, <1>2, <1>6, CalmReceived
<1>8. ASSUME NEW p \in Packets(s)', p.kind # "reply" PROVE p.flow # f
  <2>1. PopLink(s) /\ link[s] # <<>> /\ Stops(Head(link[s]))
    BY <1>1, <1>2, <1>4 DEF on_recv, HeadIs, Received, Stops
  <2>2. PICK i \in 1..Len(link'[s]) : p = link'[s][i]
    BY DEF Packets
  <2>3. /\ i + 1 \in 1..Len(link[s]) /\ p = link[s][i + 1]
        /\ 1 \in 1..Len(link[s]) /\ Head(link[s]) = link[s][1]
        /\ 1 < i + 1
    BY <1>3, <2>1, <2>2, PoppedLink
  <2> QED
    BY <1>1, <1>3, <1>8, <2>1, <2>3 DEF LinkOrder
<1> HIDE DEF f
<1>9. /\ OnlyAt(s, f) /\ sock'[s][f].st = "zap"
      /\ hcs'[s][f].phase = "exporting"
  BY <1>3, <1>4, <1>6, PhaseSet, SocketSet DEF OnlyAt
<1>10. Alive(f) /\ \A q \in pending : q.flow = f => q.type # "DELETE"
  BY <1>4, <1>5 DEF LifeInv, LivesFit, LifeFits, SocketLives, Alive
<1>11. Locked(prism, f)
  <2>1. Locked(prism, f)'
    BY <1>4, <1>9 DEF RuleInv, FlowFits, InTransit
  <2> QED
    BY <1>2, <2>1 DEF Locked
<1>12. SocketLives(hcs'[s][f], sock'[s][f], client[f])
  BY <1>9, <1>10 DEF SocketLives, Alive
<1>13. \A g \in Flows : LifeFits(g)'
  BY <1>2, <1>4, <1>6, <1>9, <1>10, <1>11, <1>12, LifeHop
<1>14. ASSUME NEW t \in Servers, NEW p \in Packets(t)', p.kind # "reply"
       PROVE  p.flow # f
  <2>1. CASE t # s
    <3>1. sock[t][f].st = "none"
      BY <1>3, <1>4, <1>5, <2>1, HeldHere
    <3>2. Met(t, p)
      BY <1>7, <1>14, SegmentsMet
    <3> QED
      BY <1>10, <1>14, <3>1, <3>2 DEF Met, Open
  <2> QED
    BY <1>8, <1>14, <2>1
<1>15. \A g \in Flows : StillMet(g)
  <2>1. StillMet(f)
    BY <1>14 DEF StillMet
  <2>2. ASSUME NEW g \in Flows, g # f PROVE StillMet(g)
    BY <1>2, <1>9, <2>2 DEF StillMet, OnlyAt, Alive
  <2> QED
    BY <2>1, <2>2
<1>16. NoOrphanSegment'
  BY <1>7, <1>15, MetFrame
<1> QED
  BY <1>7, <1>13, <1>16 DEF LivesFit

\* The other packets that arrive and are not segments: the reply to a CHOWN
\* or a DELETE, and one that is not received.
LEMMA LifeReply ==
  ASSUME LifeInv, NEW s \in Servers,
         after_change_owner(s) \/ after_delete(s) \/ DropReply(s)
  PROVE  LivesFit'
<1>0. /\ TypeOK /\ PacketsFit /\ CallbackFindsConnection /\ Calm /\ LinkOrder
      /\ \A g \in Flows : LifeFits(g)
  BY DEF LifeInv, RuleInv, ConnInv, LivesFit
<1>1. UNCHANGED <<prism, net, sock, wire, client, abort>>
  BY DEF after_change_owner, after_delete, DropReply
<1>2. \A g \in Flows : StillMet(g)
  BY <1>1 DEF StillMet, Alive
<1>3. ASSUME Calm', LinkOrder', \A g \in Flows : LifeFits(g)',
             \A t \in Servers : Packets(t)' \subseteq Packets(t)
      PROVE  LivesFit'
  <2>1. NoOrphanSegment'
    BY <1>2, <1>3, MetFrame
  <2> QED
    BY <1>3, <2>1 DEF LivesFit
<1>4. ASSUME UNCHANGED hcs, pending' \subseteq pending
      PROVE  \A g \in Flows : LifeFits(g)'
  <2>1. \A g \in Flows : LifeKept(g)
    BY <1>1, <1>4, TableKept DEF LifeKept
  <2> QED
    BY <1>0, <2>1, LifeFrame
<1>5. CASE DropReply(s)
  <2>1. /\ PopLink(s) /\ link[s] # <<>> /\ UNCHANGED <<hcs, pending>>
    BY <1>5 DEF DropReply, HeadIs
  <2>2. \A t \in Servers : Packets(t)' \subseteq Packets(t)
    BY <1>0, <2>1, PacketsPop
  <2>3. Calm'
    BY <1>0, <1>1, <2>1, <2>2 DEF Calm, Up
  <2>4. LinkOrder'
    BY <1>0, <2>1, OrderLeft
  <2> QED
    BY <1>3, <1>4, <2>1, <2>2, <2>3, <2>4
<1>6. PICK r : r = Head(link[s]).req
  OBVIOUS
<1>7. CASE after_delete(s)
  <2>1. /\ on_recv(s, {"DELETE"}) /\ pending' = pending \ {r}
        /\ UNCHANGED hcs
    BY <1>6, <1>7 DEF after_delete
  <2>2. /\ Calm' /\ LinkOrder'
        /\ \A t \in Servers : Packets(t)' \subseteq Packets(t)
    BY <1>1, <1>6, <2>1, CalmReceived
  <2> QED
    BY <1>3, <1>4, <2>1, <2>2
<1>8. CASE after_change_owner(s)
  <2> DEFINE f == r.flow
  <2>1. /\ on_recv(s, {"CHOWN"}) /\ pending' = pending \ {r}
        /\ SetPhase(s, f, "responding")
    BY <1>6, <1>8 DEF after_change_owner
  <2>2. /\ Calm' /\ LinkOrder'
        /\ \A t \in Servers : Packets(t)' \subseteq Packets(t)
    BY <1>1, <1>6, <2>1, CalmReceived
  <2>3. r \in pending /\ f \in Flows /\ r.srv = s /\ r.type = "CHOWN"
    BY <1>0, <1>6, <2>1, ReplyReceived
  <2>4. sock[s][f].st = "est"
    <3>1. hcs[s][f].phase = "chowning"
      BY <1>0, <2>3 DEF CallbackFindsConnection
    <3> QED
      BY <2>3, <3>1, WorkingSocket
  <2> HIDE DEF f
  <2>5. OnlyAt(s, f) /\ hcs'[s][f].phase = "responding"
    BY <1>0, <1>1, <2>1, <2>3, PhaseSet DEF OnlyAt
  <2>6. /\ SocketLives(hcs'[s][f], sock'[s][f], client[f])
        /\ \A q \in pending : q.flow = f => q.type # "DELETE"
    BY <1>0, <1>1, <2>3, <2>4 DEF LifeFits, SocketLives
  <2>7. \A g \in Flows : LifeFits(g)'
    BY <1>1, <2>1, <2>3, <2>4, <2>5, <2>6, LifeHop
  <2> QED
    BY <1>3, <2>2, <2>7
<1> QED
  BY <1>5, <1>7, <1>8

\* A step of the client or of a kernel: one flow changes, a packet may arrive.
LEMMA LifeOutside ==
  ASSUME LifeInv, NEW f \in Flows,
         UNCHANGED <<prism, net, pending, wire, abort>>,
         \A g \in Flows : g # f =>
           /\ client'[g] = client[g]
           /\ \A t \in Servers :
                hcs'[t][g] = hcs[t][g] /\ sock'[t][g] = sock[t][g],
         LifeFits(f)', StillMet(f),
         \/ UNCHANGED link
         \/ \E s \in Servers : link[s] # <<>> /\ PopLink(s)
  PROVE  LivesFit'
<1>0. TypeOK /\ Calm /\ LinkOrder /\ \A g \in Flows : LifeFits(g)
  BY DEF LifeInv, RuleInv, ConnInv, LivesFit
<1>1. ASSUME NEW g \in Flows, g # f PROVE LifeFits(g)' /\ StillMet(g)
  <2>1. LifeKept(g)
    BY <1>1, TableKept DEF LifeKept
  <2>2. StillMet(g)
    BY <1>1 DEF StillMet, Alive
  <2> QED
    BY <1>0, <2>1, <2>2, LifeFrame
<1>2. \A t \in Servers : Packets(t)' \subseteq Packets(t)
  BY <1>0, PacketsPop DEF Packets
<1>3. Calm'
  BY <1>0, <1>2 DEF Calm, Up
<1>4. LinkOrder'
  BY <1>0, OrderLeft
<1>5. NoOrphanSegment'
  BY <1>1, <1>2, MetFrame
<1> QED
  BY <1>1, <1>3, <1>4, <1>5 DEF LivesFit

\* The client of a connection that s holds is gone.
LEMMA ClientLeaves ==
  ASSUME LifeInv, NEW s \in Servers, NEW f \in Flows, sock[s][f].st # "none",
         OnlyAt(s, f), UNCHANGED <<prism, pending, wire>>,
         client'[f].st = "closed",
         SocketLives(hcs'[s][f], sock'[s][f], client'[f]),
         sock'[s][f].st = "fin" => sock[s][f].st = "fin",
         hcs'[s][f] = hcs[s][f]
  PROVE  LifeFits(f)' /\ StillMet(f)
<1>1. LifeFits(f) /\ ConnInv
  BY DEF LifeInv, LivesFit, RuleInv
<1>2. /\ \A t \in Servers : t # s =>
           sock'[t][f].st = "none" /\ hcs'[t][f] = hcs[t][f]
      /\ \A m \in wire' : m.flow # f
  BY <1>1, HeldHere DEF OnlyAt
<1>3. ~Alive(f)'
  BY DEF Alive
<1>4. \A t \in Servers : SocketLives(hcs'[t][f], sock'[t][f], client'[f])
  BY <1>2 DEF SocketLives
<1>5. \A r \in pending' : r.flow = f => r.type # "DELETE"
  BY <1>1 DEF LifeFits
<1>6. \A t \in Servers : sock'[t][f].st = "fin" /\ hcs'[t][f].phase = "none" =>
        t = Front /\ Absent(f)'
  BY <1>1, <1>2 DEF LifeFits, Absent
<1> QED
  BY <1>2, <1>3, <1>4, <1>5, <1>6 DEF LifeFits, StillMet

\* The client sends a request, reads a response or closes: it stays alive.
LEMMA ClientGoesOn ==
  ASSUME LifeInv, NEW f \in Flows,
         UNCHANGED <<prism, pending, hcs, sock, wire>>,
         Alive(f), Alive(f)',
         client'[f].st = "fin" => client'[f].resp = client'[f].req
  PROVE  LifeFits(f)' /\ StillMet(f)
<1>1. LifeFits(f)
  BY DEF LifeInv, LivesFit
<1>2. \A s \in Servers : SocketLives(hcs'[s][f], sock'[s][f], client'[f])
  BY <1>1 DEF LifeFits, SocketLives, Alive
<1>3. \A s \in Servers : sock'[s][f].st = "fin" /\ hcs'[s][f].phase = "none" =>
        s = Front /\ Absent(f)'
  BY <1>1 DEF LifeFits, Absent
<1>4. ~Locked(prism, f)' => sock'[prism_in_lookup(prism, f)'][f].st \in Open
  BY <1>1 DEF LifeFits, Locked, prism_in_lookup
<1> QED
  BY <1>1, <1>2, <1>3, <1>4 DEF LifeFits, StillMet

\* Front accepts a client (on_connection).
LEMMA LifeConnection ==
  ASSUME LifeInv, NEW f \in Flows, on_connection(f)
  PROVE  LivesFit'
<1> DEFINE c == [NoHcs EXCEPT !.phase = "open"]
           k == [NoSock EXCEPT !.st = "est"]
           n == [NoClient EXCEPT !.st = "open"]
<1>0. TypeOK /\ Front \in Servers
  BY SwitchAssumption DEF LifeInv, RuleInv, ConnInv
<1>1. /\ PutHcs(Front, f, c) /\ PutSock(Front, f, k)
      /\ client' = [client EXCEPT ![f] = n] /\ Quiet(f)
      /\ UNCHANGED <<prism, net, pending, link, wire, abort>>
  BY DEF on_connection, PutHcs, PutSock
<1>2. k.st = "est" /\ n.st = "open"
  BY DEF NoSock, NoClient
<1> HIDE DEF c, k, n
<1>3. /\ OnlyAt(Front, f) /\ sock'[Front][f] = k /\ client'[f] = n
      /\ \A g \in Flows : g # f => client'[g] = client[g]
  BY <1>0, <1>1, HcsAssigned, SockAssigned DEF OnlyAt, TypeOK
<1>4. \A t \in Servers : t # Front => sock'[t][f].st = "none"
  BY <1>1, <1>3 DEF OnlyAt, Quiet
<1>5. \A t \in Servers : SocketLives(hcs'[t][f], sock'[t][f], client'[f])
  BY <1>2, <1>3, <1>4 DEF SocketLives
<1>6. prism_in_lookup(prism, f)' = Front
  BY <1>1 DEF Quiet, prism_in_lookup
<1>7. LifeFits(f)'
  BY <1>1, <1>2, <1>3, <1>4, <1>5, <1>6 DEF LifeFits, Quiet, Open
<1>8. StillMet(f)
  BY <1>1 DEF StillMet, Quiet, Packets
<1> QED
  BY <1>0, <1>1, <1>3, <1>7, <1>8, LifeOutside DEF OnlyAt

\* The client's TCP sends a segment: the switch forwards it to a server that
\* has a socket for it (ClientSegment, prism_in_lookup).
LEMMA LifeSegment ==
  ASSUME LifeInv, NEW f \in Flows, ClientSegment(f)
  PROVE  LivesFit'
<1> DEFINE s == prism_in_lookup(prism, f)
           p == [kind |-> IF client[f].st = "fin" THEN "fin" ELSE "data",
                 flow |-> f, k |-> client[f].req]
<1>0. TypeOK /\ Calm /\ s \in Servers /\ \A g \in Flows : LifeFits(g)
  BY LookupType DEF LifeInv, RuleInv, ConnInv, LivesFit
<1>1. /\ Joins(s, p) /\ ~Locked(prism, f) /\ Alive(f)
      /\ UNCHANGED <<prism, net, pending, hcs, sock, wire, client, abort>>
  BY DEF ClientSegment, Forward, Joins, Alive
<1>2. /\ p \in Replies \cup Segments /\ p.flow = f
      /\ p.kind \in {"data", "fin"}
  BY <1>0 DEF TypeOK, Clients, Segments
<1>3. sock[s][f].st \in Open
  BY <1>0, <1>1 DEF LifeFits
<1> HIDE DEF s, p
<1>4. LinkOrder'
  BY <1>0, <1>1, <1>2, OrderJoined
<1>5. \A t \in Servers : \A q :
        q \in Packets(t)' => q \in Packets(t) \/ (t = s /\ q = p)
  BY <1>0, <1>1, <1>2, PacketsJoin
<1>6. Calm'
  BY <1>0, <1>1, <1>2, <1>5 DEF Calm, Up
<1>7. \A g \in Flows : LifeFits(g)' /\ StillMet(g)
  <2>1. \A g \in Flows : LifeKept(g) /\ StillMet(g)
    BY <1>1, TableKept DEF LifeKept, StillMet, Alive
  <2> QED
    BY <1>0, <2>1, LifeFrame
<1>8. NoOrphanSegment'
  <2>1. \A t \in Servers : \A q \in Packets(t)' :
          q \in Packets(t) \/ Met(t, q)'
    BY <1>1, <1>2, <1>3, <1>5 DEF Met
  <2> QED
    BY <1>7, <2>1, MetFrame
<1> QED
  BY <1>4, <1>6, <1>7, <1>8 DEF LivesFit

\* The other steps of the client, and the responses it receives.
LEMMA LifeClient ==
  ASSUME LifeInv, ~AbruptClose, NEW f \in Flows, NEW s \in Servers,
         \/ ClientRequest(f) \/ ClientClose(f) \/ ClientReset(f)
         \/ ServerSegment(s, f)
  PROVE  LivesFit'
<1>0. TypeOK /\ ConnectionsFit /\ LifeFits(f) /\ client[f] \in Clients
  BY DEF LifeInv, RuleInv, ConnInv, LivesFit, TypeOK
<1>1. ASSUME NEW c, client' = [client EXCEPT ![f] = c], Alive(f),
             c.st # "closed", c.st = "fin" => c.resp = c.req,
             UNCHANGED <<prism, net, pending, link, hcs, sock, wire, abort>>
      PROVE  LivesFit'
  <2>1. client'[f] = c /\ \A g \in Flows : g # f => client'[g] = client[g]
    BY <1>0, <1>1 DEF TypeOK
  <2>2. LifeFits(f)' /\ StillMet(f)
    BY <1>1, <2>1, ClientGoesOn DEF Alive
  <2> QED
    BY <1>1, <2>1, <2>2, LifeOutside
<1>2. CASE ClientRequest(f)
  <2> DEFINE c == [client[f] EXCEPT !.req = @ + 1]
  <2>1. c.st = "open" /\ Alive(f) /\ client' = [client EXCEPT ![f] = c]
    BY <1>0, <1>2 DEF ClientRequest, Clients, Alive
  <2> HIDE DEF c
  <2> QED
    BY <1>1, <1>2, <2>1 DEF ClientRequest
<1>3. CASE ClientClose(f)
  <2> DEFINE c == [client[f] EXCEPT !.st = "fin"]
  <2>1. /\ c.st = "fin" /\ c.resp = c.req /\ Alive(f)
        /\ client' = [client EXCEPT ![f] = c]
    BY <1>0, <1>3 DEF ClientClose, Clients, Alive
  <2> HIDE DEF c
  <2> QED
    BY <1>1, <1>3, <2>1 DEF ClientClose
<1>4. CASE ServerSegment(s, f)
  <2> DEFINE k == sock[s][f]
             c == [client[f] EXCEPT !.resp = k.snd]
  <2>1. /\ k.snd <= k.rcv /\ k.rcv <= client[f].req /\ client[f].resp < k.snd
        /\ k.snd \in Nat /\ k.rcv \in Nat
        /\ client[f].req \in Nat /\ client[f].resp \in Nat
    BY <1>0, <1>4, NumberTypes DEF ServerSegment, ConnectionsFit, Fits, Numbers
  <2>2. client[f].resp # client[f].req
    BY <2>1
  <2>3. Alive(f) /\ client[f].st # "fin"
    <3>1. k.st \in {"est", "cw"} /\ SocketLives(hcs[s][f], k, client[f])
      BY <1>0, <1>4 DEF ServerSegment, LifeFits
    <3> QED
      BY <1>0, <2>2, <3>1 DEF SocketLives, LifeFits, Alive
  <2>4. /\ c.st = client[f].st /\ client' = [client EXCEPT ![f] = c]
        /\ UNCHANGED link
    BY <1>0, <1>4, <2>3 DEF ServerSegment, Clients, Alive
  <2> HIDE DEF c
  <2> QED
    BY <1>1, <1>4, <2>3, <2>4 DEF ServerSegment, Alive
<1> QED
  BY <1>2, <1>3, <1>4 DEF ClientReset

\* The kernel destroys a closed socket (KernelDestroy).
LEMMA LifeDestroy ==
  ASSUME LifeInv, NEW s \in Servers, NEW f \in Flows, KernelDestroy(s, f)
  PROVE  LivesFit'
<1> DEFINE k == sock[s][f]
<1>0. /\ TypeOK /\ ConnectionsFit /\ Calm /\ LifeFits(f)
      /\ SocketLives(hcs[s][f], k, client[f])
  BY DEF LifeInv, RuleInv, ConnInv, LivesFit, LifeFits
<1>1. UNCHANGED <<prism, net, pending, link, hcs, wire, abort>>
  BY DEF KernelDestroy
<1>2. /\ OnlyAt(s, f)
      /\ \/ sock'[s][f].st = "gone"
         \/ sock'[s][f].st = "none" /\ k.st = "fin"
  <2>1. CASE SetSocket(s, f, "gone")
    BY <1>0, <1>1, <2>1, SocketSet DEF OnlyAt
  <2>2. CASE k.st = "fin" /\ PutSock(s, f, NoSock)
    BY <1>0, <1>1, <2>2, SockAssigned DEF OnlyAt, NoSock
  <2> QED
    BY <2>1, <2>2 DEF KernelDestroy, PutSock
<1>3. CASE k.st = "zap"
  <2>1. sock'[s][f].st = "gone" /\ UNCHANGED client
    BY <1>2, <1>3 DEF KernelDestroy
  <2>2. hcs'[s][f].phase \in Leaving /\ client[f].st # "closed"
    BY <1>0, <1>1, <1>3, SocketPhase DEF SocketLives
  <2>3. SocketLives(hcs'[s][f], sock'[s][f], client[f])
    BY <2>1, <2>2 DEF SocketLives
  <2>4. \A r \in pending : r.flow = f => r.type # "DELETE"
    BY <1>0, <1>3 DEF LifeFits
  <2>5. net' \subseteq pending'
    BY <1>0, <1>1 DEF Calm
  <2> QED
    BY <1>1, <1>2, <1>3, <2>1, <2>3, <2>4, <2>5, LifeLocal DEF Open
<1>4. CASE k.st = "fin"
  <2>1. client' = [client EXCEPT ![f].st = "closed"]
    BY <1>4, FinPasses DEF KernelDestroy
  <2>2. /\ client'[f].st = "closed"
        /\ \A g \in Flows : g # f => client'[g] = client[g]
    BY <1>0, <2>1, ClientSet DEF TypeOK
  <2>3. hcs'[s][f].phase \notin Leaving
    BY <1>0, <1>1, <1>4, SocketPhase DEF Leaving
  <2>4. SocketLives(hcs'[s][f], sock'[s][f], client'[f])
    BY <1>2, <2>2, <2>3 DEF SocketLives
  <2>5. LifeFits(f)' /\ StillMet(f)
    BY <1>1, <1>2, <1>4, <2>2, <2>4, ClientLeaves
  <2> QED
    BY <1>1, <1>2, <2>2, <2>5, LifeOutside DEF OnlyAt
<1> QED
  BY <1>3, <1>4 DEF KernelDestroy

\* A segment arrives: it finds the socket of a live client (DeliverSegment).
LEMMA LifeDeliver ==
  ASSUME LifeInv, NEW s \in Servers, DeliverSegment(s)
  PROVE  LivesFit'
<1>1. PICK p : p = Head(link[s])
  OBVIOUS
<1> DEFINE f == p.flow
           k == sock[s][f]
<1>0. TypeOK /\ PacketsFit /\ Calm /\ link[s] # <<>> /\ PopLink(s)
  BY DEF LifeInv, RuleInv, ConnInv, LivesFit, DeliverSegment, HeadIs
<1>2. /\ p \in Packets(s) /\ f \in Flows /\ p.k \in Nat
      /\ p.kind \in {"data", "fin"}
  BY <1>0, <1>1, HeadOnLink, SegmentReceived DEF Calm
<1>3. UNCHANGED <<prism, net, pending, hcs, wire, abort>>
  BY DEF DeliverSegment
<1>4. /\ LifeFits(f) /\ SocketLives(hcs[s][f], k, client[f])
      /\ k \in KernelSockets
  BY <1>0, <1>2, FieldTypes DEF LifeInv, LivesFit, LifeFits
<1>5. ASSUME NEW d, PutSock(s, f, d), UNCHANGED client, d.st = k.st
      PROVE  LivesFit'
  <2> HIDE DEF f
  <2>1. OnlyAt(s, f) /\ sock'[s][f].st = sock[s][f].st
    BY <1>0, <1>2, <1>3, <1>5, SockAssigned DEF OnlyAt
  <2>2. SocketLives(hcs'[s][f], sock'[s][f], client[f])
    BY <1>3, <1>4, <2>1 DEF SocketLives
  <2>3. /\ sock'[s][f].st = "fin" /\ hcs'[s][f].phase = "none" =>
             s = Front /\ Absent(f)
        /\ \A r \in pending : r.flow = f /\ r.type = "DELETE" =>
             ~Alive(f) /\ \A t \in Servers : sock'[t][f].st = "none"
    BY <1>2, <1>3, <1>4, <2>1 DEF LifeFits, OnlyAt
  <2>4. \A g \in Flows : LifeFits(g)'
    BY <1>2, <1>3, <1>5, <2>1, <2>2, <2>3, LifeHop
  <2>5. StillMet(f)
    BY <1>2, <1>5, <2>1 DEF StillMet, OnlyAt, Alive
  <2> QED
    BY <1>0, <1>2, <1>3, <1>5, <2>1, <2>4, <2>5, LifeOutside DEF OnlyAt
<1>6. ASSUME client' = [client EXCEPT ![f].st = "closed"], k.st # "none",
             OnlyAt(s, f),
             \/ sock'[s][f].st = "cw" /\ client[f].resp = client[f].req
             \/ sock'[s][f].st = "fin" /\ k.st = "fin"
      PROVE  LivesFit'
  <2> HIDE DEF f
  <2>1. /\ client'[f].st = "closed"
        /\ client'[f].resp = client[f].resp /\ client'[f].req = client[f].req
        /\ \A g \in Flows : g # f => client'[g] = client[g]
    BY <1>0, <1>2, <1>6, ClientSet DEF TypeOK, CountersKept
  <2>2. SocketLives(hcs'[s][f], sock'[s][f], client'[f])
    BY <1>6, <2>1 DEF SocketLives
  <2>3. LifeFits(f)' /\ StillMet(f)
    BY <1>2, <1>3, <1>6, <2>1, <2>2, ClientLeaves
  <2> QED
    BY <1>0, <1>2, <1>3, <1>6, <2>1, <2>3, LifeOutside DEF OnlyAt
<1>7. CASE k.st \in {"est", "cw"} /\ p.kind = "data"
  <2> DEFINE d == [k EXCEPT !.rcv = Later(p.k, k.rcv)]
  <2>1. PutSock(s, f, d) /\ UNCHANGED client
    BY <1>1, <1>7 DEF DeliverSegment, PutSock
  <2>2. d.st = k.st
    BY <1>4 DEF KernelSockets
  <2> HIDE DEF d
  <2> QED
    BY <1>5, <2>1, <2>2
<1>8. CASE k.st \in {"est", "cw"} /\ p.kind = "fin"
  <2> DEFINE d == [k EXCEPT !.st = "cw", !.rcv = p.k]
  <2>1. PutSock(s, f, d) /\ client' = [client EXCEPT ![f].st = "closed"]
    BY <1>1, <1>8 DEF DeliverSegment, PutSock
  <2>2. d.st = "cw"
    BY <1>4 DEF KernelSockets
  <2> HIDE DEF d
  <2>3. OnlyAt(s, f) /\ sock'[s][f].st = "cw"
    BY <1>0, <1>2, <1>3, <2>1, <2>2, SockAssigned DEF OnlyAt
  <2>4. client[f].resp = client[f].req
    <3>1. client[f].st # "open" /\ client[f] \in Clients
      BY <1>0, <1>2, <1>8 DEF PacketsFit, PacketFits, TypeOK
    <3>2. client[f].st = "fin" \/ client[f].st = "closed"
      BY <3>1 DEF Clients
    <3> QED
      BY <1>4, <1>8, <3>2 DEF LifeFits, SocketLives
  <2> QED
    BY <1>6, <1>8, <2>1, <2>3, <2>4
<1>9. CASE k.st \notin {"est", "cw"}
  <2>1. /\ UNCHANGED sock
        /\ \/ UNCHANGED client
           \/ client' = [client EXCEPT ![f].st = "closed"]
    BY <1>1, <1>9 DEF DeliverSegment
  <2>2. CASE Alive(f) /\ client' = [client EXCEPT ![f].st = "closed"]
    <3>1. k.st = "fin"
      BY <1>2, <1>9, <2>2, SegmentsMet DEF Met, Open
    <3>2. OnlyAt(s, f)
      BY <1>3, <2>1 DEF OnlyAt
    <3> QED
      BY <1>6, <2>1, <2>2, <3>1, <3>2
  <2>3. CASE UNCHANGED client
    <3>1. PutSock(s, f, k)
      BY <1>0, <1>2, <2>1 DEF PutSock, TypeOK
    <3> QED
      BY <1>5, <2>3, <3>1
  <2>4. CASE ~Alive(f) /\ client' = [client EXCEPT ![f].st = "closed"]
    <3>1. UNCHANGED client
      BY <1>0, <1>2, <2>4 DEF TypeOK, Clients, Alive
    <3> QED
      BY <2>3, <3>1
  <2> QED
    BY <2>1, <2>2, <2>3, <2>4
<1> QED
  BY <1>2, <1>7, <1>8, <1>9

\* Copies of requests are lost or sent again, or nothing happens.
LEMMA LifeCopies ==
  ASSUME LifeInv, net' \subseteq pending,
         UNCHANGED <<prism, pending, link, hcs, sock, wire, client, abort>>
  PROVE  LivesFit'
<1>0. TypeOK /\ Calm /\ LinkOrder /\ \A g \in Flows : LifeFits(g)
  BY DEF LifeInv, RuleInv, ConnInv, LivesFit
<1>1. \A t \in Servers : Packets(t)' = Packets(t)
  BY DEF Packets
<1>2. \A g \in Flows : LifeKept(g) /\ StillMet(g)
  BY TableKept DEF LifeKept, StillMet, Alive
<1>3. \A g \in Flows : LifeFits(g)'
  BY <1>0, <1>2, LifeFrame
<1>4. Calm'
  BY <1>0, <1>1 DEF Calm, Up
<1>5. LinkOrder' /\ NoOrphanSegment'
  BY <1>0, <1>1, <1>2, OrderLeft, MetFrame
<1> QED
  BY <1>3, <1>4, <1>5 DEF LivesFit

\* The switch executes or refuses a request: a flow that it lets through goes
\* to a server with a socket for it (SwitchConfig).
LEMMA LifeSwitch ==
  ASSUME LifeInv, RuleInv', NEW r \in net, SwitchConfig(r)
  PROVE  LivesFit'
<1> DEFINE f == r.flow
           res == configure_switch(prism, r)
           p == config_prepare_response(r, res.error)
<1>0. /\ TypeOK /\ OneCopy /\ OneHolder /\ CallbackFindsConnection /\ Calm
      /\ \A g \in Flows : LifeFits(g) /\ FlowFits(g)
  BY DEF LifeInv, RuleInv, ConnInv, LivesFit
<1>1. r \in Requests /\ f \in Flows /\ r.srv \in Servers /\ r \in pending
  BY <1>0 DEF TypeOK, Requests, Calm
<1>2. /\ p \in Replies /\ p.req = r /\ p.kind = "reply"
      /\ Joins(r.srv, p) /\ net' = net \ {r} /\ prism' = res.table
      /\ UNCHANGED <<pending, hcs, sock, wire, client, abort>>
  BY <1>1 DEF SwitchConfig, Joins, config_prepare_response, Replies
<1>3. RuleFits(r) /\ ~Done(r)
  BY <1>0, <1>1 DEF FlowFits, Around, OneCopy, Answered, Done
<1>4. RuleFits(r)'
  <2>1. Around(r)'
    BY <1>1, <1>2 DEF Around
  <2> QED
    BY <1>1, <2>1 DEF RuleInv, FlowFits
<1>5. \A g \in Flows : g # f => RuleKept(g)
  <2>1. r.type # "UNLOCK" /\ prism \in RuleTables
    BY <1>0, <1>3 DEF RuleFits, TypeOK
  <2>2. \A g : g # f => /\ g \in DOMAIN res.table <=> g \in DOMAIN prism
                        /\ g \in DOMAIN prism => res.table[g] = prism[g]
    BY <1>1, <2>1, HandlerResult
  <2> HIDE DEF res
  <2> QED
    BY <1>2, <2>2 DEF RuleKept
<1> HIDE DEF p, res
<1>6. r.type # "DELETE" => sock[r.srv][f].st = "est"
  <2>1. r.type \in {"ADD", "LOCK", "CHOWN", "DELETE"}
    BY <1>1, <1>3 DEF RuleFits, Requests, RequestTypes
  <2>2. r.type # "DELETE" =>
          hcs[r.srv][f].phase \in {"configuring", "chowning"}
    BY <1>0, <1>1, <2>1 DEF CallbackFindsConnection
  <2> QED
    BY <1>1, <2>2, WorkingSocket
<1>7. r.type = "DELETE" =>
        ~Alive(f) /\ \A t \in Servers : sock[t][f].st = "none"
  BY <1>0, <1>1 DEF LifeFits
<1>8. LifeFits(f)'
  <2>1. LifeFits(f)
    BY <1>0, <1>1
  <2>2. \A t \in Servers :
          ~(sock'[t][f].st = "fin" /\ hcs'[t][f].phase = "none")
    <3>1. \A t \in Servers : sock[t][f].st = "fin" => FALSE
      BY <1>0, <1>1, <1>6, <1>7 DEF OneHolder
    <3> QED
      BY <1>2, <3>1
  <2>3. Alive(f)' <=> Alive(f)
    BY <1>2 DEF Alive
  <2>4. ASSUME Alive(f), ~Locked(prism, f)'
        PROVE  sock[prism_in_lookup(prism, f)'][f].st \in Open
    <3>1. r.type # "DELETE" /\ sock[r.srv][f].st = "est"
      BY <1>6, <1>7, <2>4
    <3>2. Owned(r.srv, f)' \/ (Absent(f) /\ Absent(f)')
      BY <1>1, <1>3, <1>4, <2>4, <3>1
      DEF RuleFits, Requests, RequestTypes
    <3>3. CASE Owned(r.srv, f)'
      BY <3>1, <3>3 DEF Owned, prism_in_lookup, Open
    <3>4. CASE Absent(f) /\ Absent(f)'
      BY <2>1, <2>4, <3>4 DEF Absent, prism_in_lookup, Locked, LifeFits
    <3> QED
      BY <3>2, <3>3, <3>4
  <2>5. \A t \in Servers : SocketLives(hcs'[t][f], sock'[t][f], client'[f])
    BY <1>2, <2>1 DEF LifeFits
  <2>6. \A q \in pending' : q.flow = f /\ q.type = "DELETE" =>
          ~Alive(f)' /\ \A t \in Servers : sock'[t][f].st = "none"
    BY <1>2, <2>1, <2>3 DEF LifeFits
  <2> QED
    BY <1>2, <2>1, <2>2, <2>3, <2>4, <2>5, <2>6 DEF LifeFits
<1>9. ASSUME NEW g \in Flows, g # f PROVE LifeFits(g)'
  <2>1. LifeKept(g)
    BY <1>2, <1>5, <1>9 DEF LifeKept
  <2> QED
    BY <1>0, <2>1, LifeFrame
<1>10. \A t \in Servers : \A q :
         q \in Packets(t)' => q \in Packets(t) \/ (t = r.srv /\ q = p)
  BY <1>0, <1>1, <1>2, PacketsJoin
<1>11. Calm'
  BY <1>0, <1>1, <1>2, <1>10 DEF Calm, Up
<1>12. LinkOrder'
  BY <1>1, <1>2, OrderJoined
<1>13. NoOrphanSegment'
  <2>1. \A g \in Flows : StillMet(g)
    BY <1>2 DEF StillMet, Alive
  <2>2. \A t \in Servers : \A q \in Packets(t)' :
          q \in Packets(t) \/ Met(t, q)'
    BY <1>2, <1>10 DEF Met
  <2> QED
    BY <2>1, <2>2, MetFrame
<1> QED
  BY <1>8, <1>9, <1>11, <1>12, <1>13 DEF LivesFit

\* The first state has no client.
LEMMA LifeInit == Init => LivesFit
<1> SUFFICES ASSUME Init PROVE LivesFit
  OBVIOUS
<1>1. \A s \in Servers : link[s] = <<>> /\ Packets(s) = {}
  BY DEF Init, Packets
<1>2. /\ \A s \in Servers, f \in Flows : sock[s][f].st = "none"
      /\ \A f \in Flows : client[f].st = "closed"
  BY DEF Init, NoSock, NoClient
<1>3. \A f \in Flows : LifeFits(f)
  BY <1>2 DEF LifeFits, SocketLives, Alive, Init
<1>4. Calm
  BY <1>1 DEF Calm, Up, Init
<1>5. LinkOrder /\ NoOrphanSegment
  BY <1>1 DEF LinkOrder, NoOrphanSegment
<1> QED
  BY <1>3, <1>4, <1>5 DEF LivesFit

\* The invariant is inductive.
LEMMA LifeStep ==
  ASSUME TimelyReplies, VerifyCsum, ~AbruptClose, LifeInv, [Next]_vars
  PROVE  LifeInv'
<1>0. RuleInv' /\ Calm /\ Front \in Servers
  BY RulesStep, SwitchAssumption DEF LifeInv, LivesFit
<1>1. ASSUME NEW f \in Flows, ClientStep(f) PROVE LivesFit'
  BY <1>0, <1>1, LifeConnection, LifeSegment, LifeClient DEF ClientStep
<1>2. ASSUME NEW s \in Servers, NEW f \in Flows,
             ServerSegment(s, f) \/ KernelDestroy(s, f) \/ Callback(s, f)
      PROVE  LivesFit'
  BY <1>2, LifeClient, LifeDestroy, LifeCallback
<1>3. ASSUME NEW s \in Servers, Arrival(s) \/ LoseReply(s) PROVE LivesFit'
  BY <1>0, <1>3, LifeDeliver, LifeReply, LifeExport DEF Arrival, LoseReply
<1>4. ASSUME NEW r \in net, SwitchConfig(r) PROVE LivesFit'
  BY <1>0, <1>4, LifeSwitch
<1>5. ASSUME NEW r, LoseRequest(r) \/ (r \in pending /\ retry_send(r))
      PROVE  LivesFit'
  BY <1>0, <1>5, LifeCopies DEF LoseRequest, retry_send, Calm
<1>6. ASSUME NEW m \in wire, MessageStep(m) PROVE LivesFit'
  BY <1>6, LifeMessage
<1>7. ASSUME UNCHANGED vars PROVE LivesFit'
  BY <1>0, <1>7, LifeCopies DEF vars, Calm
<1>8. LivesFit'
  BY <1>1, <1>2, <1>3, <1>4, <1>5, <1>6, <1>7 DEF Next
<1> QED
  BY <1>0, <1>8 DEF LifeInv

\* The client, the sockets and the rule of every flow fit, and every segment
\* of a live client is met, in every reachable state.
THEOREM LifeInvariant ==
  ASSUME TimelyReplies, VerifyCsum, ~AbruptClose
  PROVE  Spec => []LifeInv
<1>1. Init => LifeInv
  BY ConnInit, RulesInit, LifeInit DEF LifeInv, RuleInv, FlowsFit
<1>2. LifeInv /\ [Next]_vars => LifeInv'
  BY LifeStep
<1> QED
  BY <1>1, <1>2, PTL DEF Spec

\* When replies beat the retry timer, hosts check UDP checksums and clients
\* close only between requests: a segment of a live client never reaches, and
\* is never on its way to, a host without a socket for it, for every number
\* of clients and servers (the lock of the export, the order of the link and
\* the CHOWN of the import together).
THEOREM NoSegmentOrphaned ==
  ASSUME TimelyReplies, VerifyCsum, ~AbruptClose
  PROVE  Spec => []NoOrphanSegment
<1>1. LifeInv => NoOrphanSegment
  BY DEF LifeInv, LivesFit
<1> QED
  BY <1>1, LifeInvariant, PTL

\* Under the same conditions no assertion of the handoff code ever fails, so
\* no process ends (after_configure_switch, after_send_http_res,
\* handoff_done, forward_done).
THEOREM ProcessesSurvive ==
  ASSUME TimelyReplies, VerifyCsum, ~AbruptClose
  PROVE  Spec => [](\A s \in Servers : Up(s))
<1>1. LifeInv => \A s \in Servers : Up(s)
  BY DEF LifeInv, LivesFit, Calm
<1> QED
  BY <1>1, LifeInvariant, PTL

=============================================================================
