-------------------------- MODULE WorkerLoopProofs --------------------------
(***************************************************************************)
(* The safety properties of module WorkerLoop, for any number of           *)
(* connections, peers and descriptors.                                     *)
(*                                                                         *)
(* The inductive invariant says for every stage of a connection which of   *)
(* its handles and descriptors are open, who may still be writing, and     *)
(* what the walk of the handles on SIGINT has left behind.                 *)
(***************************************************************************)
EXTENDS WorkerLoop, FiniteSetTheorems, TLAPS

\* The monitor is open until it is closed, by its owner or by on_walk.
MonitorFits(c) ==
  IF walked = "no" THEN handle[Monitor(c)] = "open" ELSE Closing(Monitor(c))

\* What a connection holds in each stage.
StageFits(c) ==
  /\ stage[c] = "none" =>
       /\ \A h \in OfConn(c) : handle[h] = "none"
       /\ fds[c] = {}
  /\ stage[c] \in {"read", "respond"} =>
       /\ handle[Tcp(c)] = "open"
       /\ handle[Udp(c)] # "open"
       /\ fds[c] = {"sock"} \cup MonitorFds
  /\ stage[c] \in {"configure", "chown"} =>
       /\ handle[Tcp(c)] = "open"
       /\ handle[Udp(c)] = "open"
       /\ fds[c] = {"sock", "udp"} \cup MonitorFds
  /\ stage[c] \in {"export", "leave"} =>
       /\ handle[Tcp(c)] = "closing"
       /\ handle[Udp(c)] # "open"
       /\ fds[c] = MonitorFds
  /\ stage[c] \in {"wait_export", "wait_close", "send"} =>
       /\ handle[Tcp(c)] = "closed"
       /\ handle[Udp(c)] # "open"
       /\ fds[c] = IF stage[c] = "send" THEN {"evfd"} ELSE MonitorFds
  /\ stage[c] = "wait_close" => c \in Imported
  /\ stage[c] \notin {"none", "reclaim", "free"} => MonitorFits(c)
  /\ stage[c] \in {"reclaim", "free"} =>
       /\ handle[Tcp(c)] = "closed"
       /\ handle[Monitor(c)] = IF stage[c] = "free" THEN "closed" ELSE "closing"
       /\ IF handle[Udp(c)] = "open" THEN c \in Imported /\ fds[c] = {"udp"}
          ELSE fds[c] = {} \/ (c \in Accepted /\ fds[c] = MonitorFds)
  /\ c \in writing => stage[c] \in {"respond", "leave"}

\* Until the walk the worker listens to signals and can write to its peers;
\* the walk leaves no handle open, and none is opened after it.
WalkClosesAll ==
  /\ walked = "no" =>
       /\ handle[Signal] = "open"
       /\ \A p \in Peers : handle[Dest(p)] = "open"
  /\ walked # "no" => \A h \in Handles : handle[h] # "open"

\* What on_walk closed out of order ends the process when the iteration ends,
\* at the latest.
BusyEnds ==
  walked = "busy" /\ abort = "none" =>
    /\ loop = "poll"
    /\ \A p \in Peers : handle[Dest(p)] = "closing"
    /\ \/ forwarding # {}
       \/ \E c \in Conns : stage[c] \in {"export", "leave", "send"}

\* After the walk of a worker that is not busy only what cannot fail is left,
\* and a connection that waits for the kernel exactly if one was waiting then.
IdleIsQuiet ==
  walked \in {"idle", "waiting"} =>
    /\ forwarding = {}
    /\ \A c \in Conns :
         stage[c] \in {"none", "wait_export", "wait_close", "reclaim", "free"}
    /\ walked = "waiting" <=> Waiting

\* The bound on the connections is kept.
LiveFits == Cardinality(Live) <= MaxLive

\* The inductive invariant.
WorkerInv ==
  /\ TypeOK
  /\ \A c \in Conns : StageFits(c)
  /\ WalkClosesAll
  /\ BusyEnds
  /\ IdleIsQuiet
  /\ LiveFits
  /\ StopsCleanlyIffIdle
  /\ ExhaustedOnlyByLeaks

-----------------------------------------------------------------------------
(* The handles.                                                            *)

\* Every handle of the worker has its own name.
LEMMA HandleNames ==
  ASSUME NEW c \in Conns, NEW p \in Peers
  PROVE  /\ Tcp(c) \in Handles /\ Monitor(c) \in Handles /\ Udp(c) \in Handles
         /\ Dest(p) \in Handles /\ ConnectTimer(p) \in Handles
         /\ HandoffClient(p) \in Handles
         /\ Server \in Handles /\ Signal \in Handles /\ Prepare \in Handles
         /\ \A d \in Conns : /\ Tcp(c) = Tcp(d) <=> c = d
                             /\ Monitor(c) = Monitor(d) <=> c = d
                             /\ Udp(c) = Udp(d) <=> c = d
                             /\ Tcp(c) # Monitor(d)
                             /\ Tcp(c) # Udp(d)
                             /\ Monitor(c) # Udp(d)
         /\ Dest(p) # Tcp(c) /\ Dest(p) # Monitor(c) /\ Dest(p) # Udp(c)
         /\ ConnectTimer(p) # Tcp(c) /\ ConnectTimer(p) # Monitor(c)
         /\ ConnectTimer(p) # Udp(c)
         /\ \A q \in Peers : Dest(q) # ConnectTimer(p)
         /\ Signal # Tcp(c) /\ Signal # Monitor(c) /\ Signal # Udp(c)
         /\ Signal # ConnectTimer(p)
  BY DEF Handles, OfConn, OfPeer, OfWorker, Tcp, Monitor, Udp, Dest, ConnectTimer,
         HandoffClient, Server, Signal, Prepare

\* uv_close and the init functions of libuv leave functions of the right type
\* and change only the handles they are called for.
LEMMA OpenClose ==
  ASSUME TypeOK, NEW S
  PROVE  /\ Open(S) \in [Handles -> {"none", "open", "closing", "closed"}]
         /\ Close(S) \in [Handles -> {"none", "open", "closing", "closed"}]
         /\ \A h \in Handles :
              /\ Open(S)[h] = IF h \in S THEN "open" ELSE handle[h]
              /\ Close(S)[h] = IF h \in S THEN "closing" ELSE handle[h]
  BY DEF TypeOK, Open, Close

\* As long as a handle is open the handles have not been walked.
LEMMA OpenNotWalked ==
  ASSUME WorkerInv, NEW h \in Handles, handle[h] = "open"
  PROVE  walked = "no"
  BY DEF WorkerInv, WalkClosesAll, TypeOK

-----------------------------------------------------------------------------
(* Steps that concern one connection, before the walk.                     *)

\* The other connections keep what they have.
Only(c) ==
  \A d \in Conns \ {c} :
    /\ \A h \in OfConn(d) : handle'[h] = handle[h]
    /\ stage'[d] = stage[d]
    /\ fds'[d] = fds[d]
    /\ d \in writing' <=> d \in writing

\* A connection that keeps what it has fits its stage as before.
LEMMA StageFrame ==
  ASSUME NEW d \in Conns, StageFits(d), walked' = walked,
         \A h \in OfConn(d) : handle'[h] = handle[h],
         stage'[d] = stage[d],
         fds'[d] = fds[d],
         d \in writing' <=> d \in writing
  PROVE  StageFits(d)'
<1>1. /\ handle'[Tcp(d)] = handle[Tcp(d)]
      /\ handle'[Monitor(d)] = handle[Monitor(d)]
      /\ handle'[Udp(d)] = handle[Udp(d)]
  BY DEF OfConn
<1>2. OfConn(d)' = OfConn(d) /\ Tcp(d)' = Tcp(d) /\ Monitor(d)' = Monitor(d)
        /\ Udp(d)' = Udp(d)
  BY DEF OfConn, Tcp, Monitor, Udp
<1> QED
  BY <1>1, <1>2 DEF StageFits, MonitorFits, Closing

\* A callback of connection c, before the walk.
LEMMA OrdinaryStep ==
  ASSUME WorkerInv, TypeOK', NEW c \in Conns, Polling, walked = "no",
         UNCHANGED <<loop, abort, walked>>,
         Only(c), StageFits(c)', LiveFits',
         handle'[Signal] = handle[Signal],
         \A p \in Peers : handle'[Dest(p)] = handle[Dest(p)]
  PROVE  WorkerInv'
<1>1. \A d \in Conns : StageFits(d)'
  <2> TAKE d \in Conns
  <2>1. CASE d = c
    BY <2>1
  <2>2. CASE d # c
    BY <2>2, StageFrame DEF WorkerInv, Only
  <2> QED
    BY <2>1, <2>2
<1>2. WalkClosesAll'
  <2>1. \A p \in Peers : Dest(p)' = Dest(p)
    BY DEF Dest
  <2> QED
    BY <2>1 DEF WalkClosesAll, WorkerInv, Signal
<1>3. BusyEnds' /\ IdleIsQuiet' /\ StopsCleanlyIffIdle' /\ ExhaustedOnlyByLeaks'
  BY DEF BusyEnds, IdleIsQuiet, StopsCleanlyIffIdle, ExhaustedOnlyByLeaks, Polling
<1> QED
  BY <1>1, <1>2, <1>3 DEF WorkerInv

\* Live connections are finitely many.
LEMMA LiveFinite ==
  /\ IsFiniteSet(Live)
  /\ Cardinality(Live) \in Nat
<1>1. Live \in SUBSET Conns
  BY DEF Live
<1> QED
  BY <1>1, WorkerAssumption, FS_Subset, FS_CardinalityType

\* A step after which no other connection is live keeps the bound.
LEMMA LiveFrame ==
  ASSUME WorkerInv, Live' \subseteq Live
  PROVE  LiveFits'
<1>1. Live' \in SUBSET Live
  OBVIOUS
<1>2. IsFiniteSet(Live') /\ Cardinality(Live') <= Cardinality(Live)
  BY <1>1, LiveFinite, FS_Subset
<1> QED
  BY <1>2, LiveFinite, FS_CardinalityType, WorkerAssumption DEF WorkerInv, LiveFits

\* A step of a connection that is live already keeps the bound.
LEMMA LiveStays ==
  ASSUME WorkerInv, NEW c \in Conns, Only(c), c \in Live
  PROVE  LiveFits'
<1>1. Live' \subseteq Live
  BY DEF Live, Only
<1> QED
  BY <1>1, LiveFrame

\* The handles of one connection change, and no others.
OnlyHandlesOf(c) ==
  /\ handle' \in [Handles -> {"none", "open", "closing", "closed"}]
  /\ \A d \in Conns \ {c} : \A h \in OfConn(d) : handle'[h] = handle[h]
  /\ handle'[Signal] = handle[Signal]
  /\ \A p \in Peers : handle'[Dest(p)] = handle[Dest(p)]

\* Opening or closing handles of a connection concerns no others.
LEMMA ConnHandles ==
  ASSUME TypeOK, NEW c \in Conns, NEW S, S \subseteq OfConn(c),
         handle' = Open(S) \/ handle' = Close(S)
  PROVE  OnlyHandlesOf(c)
<1>1. handle' \in [Handles -> {"none", "open", "closing", "closed"}]
  BY OpenClose
<1>2. \A h \in Handles : h \notin S => handle'[h] = handle[h]
  BY OpenClose
<1>3. PICK p \in Peers : TRUE
  BY WorkerAssumption
<1>4. Signal \in Handles /\ Signal \notin S
  BY <1>3, HandleNames DEF OfConn
<1>5. \A q \in Peers : Dest(q) \in Handles /\ Dest(q) \notin S
  BY HandleNames DEF OfConn
<1>6. \A d \in Conns \ {c} : \A h \in OfConn(d) : h \in Handles /\ h \notin S
  BY <1>3, HandleNames DEF OfConn
<1> QED
  BY <1>1, <1>2, <1>4, <1>5, <1>6 DEF OnlyHandlesOf

\* Leaving the handles alone concerns no connection at all.
LEMMA SameHandles ==
  ASSUME TypeOK, NEW c, UNCHANGED handle
  PROVE  OnlyHandlesOf(c)
  BY DEF TypeOK, OnlyHandlesOf

\* A callback that may read finds the connection's handle open.
LEMMA TcpOpen ==
  ASSUME WorkerInv, NEW c \in Conns, handle[Tcp(c)] = "open"
  PROVE  /\ walked = "no"
         /\ handle[Monitor(c)] = "open"
         /\ stage[c] \in {"read", "respond", "configure", "chown"}
         /\ c \in Live
<1>1. PICK p \in Peers : TRUE
  BY WorkerAssumption
<1>2. walked = "no"
  BY <1>1, HandleNames, OpenNotWalked
<1>3. stage[c] \in Stages
  BY DEF WorkerInv, TypeOK
<1>4. stage[c] # "none"
  BY DEF WorkerInv, StageFits, OfConn
<1>5. stage[c] \in {"read", "respond", "configure", "chown"}
  BY <1>3, <1>4 DEF WorkerInv, StageFits, Stages
<1> QED
  BY <1>2, <1>5 DEF WorkerInv, StageFits, MonitorFits, Live

\* Likewise for that of its configuration request.
LEMMA UdpOpen ==
  ASSUME WorkerInv, NEW c \in Conns, handle[Udp(c)] = "open"
  PROVE  walked = "no"
<1>1. PICK p \in Peers : TRUE
  BY WorkerAssumption
<1> QED
  BY <1>1, HandleNames, OpenNotWalked

\* The handler answers a request.
LEMMA RespondInv ==
  ASSUME WorkerInv, NEW c \in Conns, on_read_respond(c)
  PROVE  WorkerInv'
<1> USE DEF on_read_respond
<1>1. OnlyHandlesOf(c) /\ TypeOK
  BY SameHandles DEF WorkerInv
<1>2. walked = "no" /\ Polling /\ c \in Live
  BY TcpOpen DEF MayRead
<1>3. TypeOK'
  BY <1>1 DEF TypeOK, Stages
<1>4. stage'[c] = "respond" /\ Only(c)
  BY <1>1 DEF TypeOK, Only
<1>5. StageFits(c)'
  BY <1>4, TcpOpen DEF WorkerInv, StageFits, MonitorFits, MayRead, OfConn, Tcp, Monitor, Udp,
                       Closing
<1>6. LiveFits'
  BY <1>2, <1>4, LiveStays
<1> QED
  BY <1>1, <1>2, <1>3, <1>4, <1>5, <1>6, OrdinaryStep DEF OnlyHandlesOf

\* The response is written.
LEMMA SentInv ==
  ASSUME WorkerInv, NEW c \in Conns, after_send_http_res(c)
  PROVE  WorkerInv'
<1> USE DEF after_send_http_res
<1>1. OnlyHandlesOf(c) /\ TypeOK
  BY SameHandles DEF WorkerInv
<1>2. walked = "no" /\ Polling /\ c \in Live
  BY TcpOpen
<1>3. TypeOK'
  BY <1>1 DEF TypeOK, Stages
<1>4. stage'[c] = "read" /\ Only(c)
  BY <1>1 DEF TypeOK, Only
<1>5. StageFits(c)'
  BY <1>4, TcpOpen DEF WorkerInv, StageFits, MonitorFits, OfConn, Tcp, Monitor, Udp, Closing
<1>6. LiveFits'
  BY <1>2, <1>4, LiveStays
<1> QED
  BY <1>1, <1>2, <1>3, <1>4, <1>5, <1>6, OrdinaryStep DEF OnlyHandlesOf

\* The client closes the connection.
LEMMA CloseInv ==
  ASSUME WorkerInv, NEW c \in Conns, on_read_close(c)
  PROVE  WorkerInv'
<1> USE DEF on_read_close
<1>0. TypeOK
  BY DEF WorkerInv
<1>1. OnlyHandlesOf(c)
  BY <1>0, ConnHandles DEF OfConn
<1>2. walked = "no" /\ Polling /\ c \in Live /\ handle[Monitor(c)] = "open"
  BY TcpOpen DEF MayRead
<1>3. TypeOK'
  BY <1>0, <1>1 DEF TypeOK, Stages, OnlyHandlesOf
<1>4. stage'[c] = "leave" /\ Only(c) /\ fds'[c] = fds[c] \ {"sock"}
  BY <1>0, <1>1 DEF TypeOK, Only, OnlyHandlesOf
<1>5. /\ handle'[Tcp(c)] = "closing"
      /\ handle'[Monitor(c)] = "open"
      /\ handle'[Udp(c)] = handle[Udp(c)]
  <2>1. PICK p \in Peers : TRUE
    BY WorkerAssumption
  <2> QED
    BY <1>0, <1>2, <2>1, HandleNames, OpenClose
<1>6. StageFits(c)'
  BY <1>2, <1>4, <1>5 DEF WorkerInv, StageFits, MonitorFits, MonitorFds, OfConn, Tcp, Monitor, Udp,
                       Closing
<1>7. LiveFits'
  BY <1>2, <1>4, LiveStays
<1> QED
  BY <1>1, <1>2, <1>3, <1>4, <1>6, <1>7, OrdinaryStep DEF OnlyHandlesOf

\* The reply to ADD or LOCK: the connection is closed here, to be exported.
LEMMA ConfiguredInv ==
  ASSUME WorkerInv, NEW c \in Conns, after_configure_switch(c)
  PROVE  WorkerInv'
<1> USE DEF after_configure_switch
<1>0. TypeOK
  BY DEF WorkerInv
<1>1. OnlyHandlesOf(c)
  BY <1>0, ConnHandles DEF OfConn
<1>2. /\ walked = "no" /\ Polling /\ c \in Live
      /\ handle[Monitor(c)] = "open"
      /\ fds[c] = {"sock", "udp"} \cup MonitorFds
  BY UdpOpen DEF WorkerInv, StageFits, MonitorFits, Live
<1>3. TypeOK'
  BY <1>0, <1>1 DEF TypeOK, Stages, OnlyHandlesOf
<1>4. stage'[c] = "export" /\ Only(c) /\ fds'[c] = fds[c] \ {"sock", "udp"}
  BY <1>0, <1>1 DEF TypeOK, Only, OnlyHandlesOf
<1>5. /\ handle'[Tcp(c)] = "closing"
      /\ handle'[Monitor(c)] = "open"
      /\ handle'[Udp(c)] = "closing"
  <2>1. PICK p \in Peers : TRUE
    BY WorkerAssumption
  <2> QED
    BY <1>0, <1>2, <2>1, HandleNames, OpenClose
<1>6. StageFits(c)'
  BY <1>2, <1>4, <1>5 DEF WorkerInv, StageFits, MonitorFits, MonitorFds, OfConn, Tcp, Monitor, Udp,
                       Closing
<1>7. LiveFits'
  BY <1>2, <1>4, LiveStays
<1> QED
  BY <1>1, <1>2, <1>3, <1>4, <1>6, <1>7, OrdinaryStep DEF OnlyHandlesOf

\* The reply to CHOWN: the imported connection is answered.
LEMMA ChownedInv ==
  ASSUME WorkerInv, NEW c \in Conns, after_change_owner(c)
  PROVE  WorkerInv'
<1> USE DEF after_change_owner
<1>0. TypeOK
  BY DEF WorkerInv
<1>1. OnlyHandlesOf(c)
  BY <1>0, ConnHandles DEF OfConn
<1>2. /\ walked = "no" /\ Polling /\ c \in Live
      /\ handle[Tcp(c)] = "open"
      /\ handle[Monitor(c)] = "open"
      /\ fds[c] = {"sock", "udp"} \cup MonitorFds
  BY UdpOpen DEF WorkerInv, StageFits, MonitorFits, Live
<1>3. TypeOK'
  BY <1>0, <1>1 DEF TypeOK, Stages, OnlyHandlesOf
<1>4. stage'[c] = "respond" /\ Only(c) /\ fds'[c] = fds[c] \ {"udp"}
  BY <1>0, <1>1 DEF TypeOK, Only, OnlyHandlesOf
<1>5. /\ handle'[Tcp(c)] = "open"
      /\ handle'[Monitor(c)] = "open"
      /\ handle'[Udp(c)] = "closing"
  <2>1. PICK p \in Peers : TRUE
    BY WorkerAssumption
  <2> QED
    BY <1>0, <1>2, <2>1, HandleNames, OpenClose
<1>6. StageFits(c)'
  BY <1>2, <1>4, <1>5 DEF WorkerInv, StageFits, MonitorFits, MonitorFds, OfConn, Tcp, Monitor, Udp,
                       Closing
<1>7. LiveFits'
  BY <1>2, <1>4, LiveStays
<1> QED
  BY <1>1, <1>2, <1>3, <1>4, <1>6, <1>7, OrdinaryStep DEF OnlyHandlesOf

\* The reply to DELETE, which may come after the connection was freed.
LEMMA DeletedInv ==
  ASSUME WorkerInv, NEW c \in Conns, delete_done(c)
  PROVE  WorkerInv'
<1> USE DEF delete_done
<1>0. TypeOK
  BY DEF WorkerInv
<1>1. OnlyHandlesOf(c)
  BY <1>0, ConnHandles DEF OfConn
<1>2. /\ walked = "no" /\ Polling
      /\ fds[c] = {"udp"}
      /\ c \notin writing
  BY UdpOpen DEF WorkerInv, StageFits
<1>3. TypeOK'
  BY <1>0, <1>1 DEF TypeOK, OnlyHandlesOf
<1>4. stage'[c] = stage[c] /\ Only(c) /\ fds'[c] = {}
  BY <1>0, <1>1, <1>2 DEF TypeOK, Only, OnlyHandlesOf
<1>5. /\ handle'[Tcp(c)] = handle[Tcp(c)]
      /\ handle'[Monitor(c)] = handle[Monitor(c)]
      /\ handle'[Udp(c)] = "closing"
  <2>1. PICK p \in Peers : TRUE
    BY WorkerAssumption
  <2> QED
    BY <1>0, <2>1, HandleNames, OpenClose
<1>6. StageFits(c)'
  <2>1. StageFits(c) /\ stage'[c] \in {"reclaim", "free"}
    BY <1>4 DEF WorkerInv
  <2> QED
    BY <1>2, <1>4, <1>5, <2>1 DEF StageFits, Tcp, Monitor, Udp
<1>7. LiveFits'
  <2>1. c \in Live
    BY <1>2 DEF Live
  <2> QED
    BY <1>4, <2>1, LiveStays
<1> QED
  BY <1>1, <1>2, <1>3, <1>4, <1>6, <1>7, OrdinaryStep DEF OnlyHandlesOf

\* The state of a connection is written to the peer.
LEMMA HandedInv ==
  ASSUME WorkerInv, NEW c \in Conns, handoff_done(c)
  PROVE  WorkerInv'
<1> USE DEF handoff_done
<1>0. TypeOK
  BY DEF WorkerInv
<1>1. OnlyHandlesOf(c)
  BY <1>0, ConnHandles DEF OfConn
<1>2. walked = "no" /\ Polling /\ c \in Live
  BY <1>0, HandleNames, OpenNotWalked DEF TypeOK, Live
<1>3. TypeOK'
  BY <1>0, <1>1 DEF TypeOK, Stages, OnlyHandlesOf
<1>4. /\ stage'[c] = "reclaim" /\ Only(c)
      /\ fds'[c] = {} /\ c \notin writing'
  <2>1. fds[c] = {"evfd"} /\ c \notin writing
    BY DEF WorkerInv, StageFits
  <2> QED
    BY <1>0, <1>1, <2>1 DEF TypeOK, Only, OnlyHandlesOf
<1>5. /\ handle'[Tcp(c)] = "closed"
      /\ handle'[Monitor(c)] = "closing"
      /\ handle'[Udp(c)] # "open"
  <2>1. PICK p \in Peers : TRUE
    BY WorkerAssumption
  <2> QED
    BY <1>0, <2>1, HandleNames, OpenClose DEF WorkerInv, StageFits
<1>6. StageFits(c)'
  BY <1>4, <1>5 DEF StageFits, Tcp, Monitor, Udp
<1>7. LiveFits'
  BY <1>2, <1>4, LiveStays
<1> QED
  BY <1>1, <1>2, <1>3, <1>4, <1>6, <1>7, OrdinaryStep DEF OnlyHandlesOf

\* The kernel's socket is gone: the export goes on.
LEMMA RealCloseInv ==
  ASSUME WorkerInv, NEW c \in Conns, uv_tcp_monitor_on_tcp_close(c),
         after_real_close(c)
  PROVE  WorkerInv'
<1> USE DEF uv_tcp_monitor_on_tcp_close, after_real_close
<1>0. TypeOK
  BY DEF WorkerInv
<1>1. OnlyHandlesOf(c)
  BY <1>0, SameHandles
<1>p. PICK p \in Peers : TRUE
  BY WorkerAssumption
<1>2. walked = "no" /\ Polling /\ c \in Live
  BY <1>p, HandleNames, OpenNotWalked DEF Live
<1>3. TypeOK'
  BY <1>0 DEF TypeOK, Stages
<1>4. /\ stage'[c] = "send" /\ Only(c)
      /\ fds'[c] = {"evfd"}
  BY <1>0, <1>1 DEF TypeOK, Only, OnlyHandlesOf, WorkerInv, StageFits, MonitorFds
<1>5. /\ handle'[Tcp(c)] = "closed"
      /\ handle'[Monitor(c)] = "open"
      /\ handle'[Udp(c)] # "open"
      /\ c \notin writing'
  BY DEF WorkerInv, StageFits
<1>6. StageFits(c)'
  BY <1>2, <1>4, <1>5 DEF StageFits, MonitorFits, Tcp, Monitor, Udp
<1>7. LiveFits'
  BY <1>2, <1>4, LiveStays
<1> QED
  BY <1>1, <1>2, <1>3, <1>4, <1>6, <1>7, OrdinaryStep DEF OnlyHandlesOf

\* The kernel's socket is gone: the rule of an imported connection is deleted.
LEMMA RealCloseImportedInv ==
  ASSUME WorkerInv, NEW c \in Conns, uv_tcp_monitor_on_tcp_close(c),
         after_real_close_imported(c)
  PROVE  WorkerInv'
<1> USE DEF uv_tcp_monitor_on_tcp_close, after_real_close_imported
<1>0. TypeOK
  BY DEF WorkerInv
<1>p. PICK p \in Peers : TRUE
  BY WorkerAssumption
<1>h. /\ handle' \in [Handles -> {"none", "open", "closing", "closed"}]
      /\ \A h \in Handles :
           handle'[h] = IF h = Udp(c) THEN "open"
                        ELSE IF h = Monitor(c) THEN "closing" ELSE handle[h]
  BY <1>0, <1>p, OpenClose, HandleNames
<1>1. OnlyHandlesOf(c)
  <2>1. Signal \in Handles /\ Signal \notin OfConn(c)
    BY <1>p, HandleNames DEF OfConn
  <2>2. \A q \in Peers : Dest(q) \in Handles /\ Dest(q) \notin OfConn(c)
    BY HandleNames DEF OfConn
  <2>3. \A d \in Conns \ {c} : \A h \in OfConn(d) : h \in Handles /\ h \notin OfConn(c)
    BY <1>p, HandleNames DEF OfConn
  <2>4. Udp(c) \in OfConn(c) /\ Monitor(c) \in OfConn(c)
    BY DEF OfConn
  <2> QED
    BY <1>h, <2>1, <2>2, <2>3, <2>4, SMTT(30) DEF OnlyHandlesOf
<1>2. walked = "no" /\ Polling /\ c \in Live
  BY <1>p, HandleNames, OpenNotWalked DEF Live
<1>3. TypeOK'
  BY <1>0, <1>h DEF TypeOK, Stages, Descriptors
<1>4. /\ stage'[c] = "reclaim" /\ Only(c)
      /\ fds'[c] = {"udp"}
  BY <1>0, <1>1 DEF TypeOK, Only, OnlyHandlesOf
<1>5. /\ handle'[Tcp(c)] = "closed"
      /\ handle'[Monitor(c)] = "closing"
      /\ handle'[Udp(c)] = "open"
      /\ c \notin writing'
      /\ c \in Imported
  <2>1. handle[Tcp(c)] = "closed" /\ c \notin writing /\ c \in Imported
    BY DEF WorkerInv, StageFits
  <2>2. /\ Tcp(c) \in Handles /\ Monitor(c) \in Handles /\ Udp(c) \in Handles
        /\ Tcp(c) # Monitor(c) /\ Tcp(c) # Udp(c) /\ Monitor(c) # Udp(c)
    BY <1>p, HandleNames
  <2> QED
    BY <1>h, <2>1, <2>2
<1>6. StageFits(c)'
  BY <1>4, <1>5 DEF StageFits, Tcp, Monitor, Udp
<1>7. LiveFits'
  BY <1>2, <1>4, LiveStays
<1> QED
  BY <1>1, <1>2, <1>3, <1>4, <1>6, <1>7, OrdinaryStep DEF OnlyHandlesOf

-----------------------------------------------------------------------------
(* Descriptors.                                                            *)

\* A connection that was closed where it was accepted keeps two.
Leaks == \E c \in Conns : stage[c] = "free" /\ MonitorFds \subseteq fds[c]

\* Four of each connection.
LEMMA FourDescriptors ==
  IsFiniteSet(Descriptors) /\ Cardinality(Descriptors) = 4
<1> DEFINE D1 == {"sock"}  D2 == D1 \cup {"evfd"}  D3 == D2 \cup {"creme_fd"}
           D4 == D3 \cup {"udp"}
<1>1. IsFiniteSet(D1) /\ Cardinality(D1) = 1
  BY FS_Singleton
<1>2. "evfd" \notin D1 /\ "creme_fd" \notin D2 /\ "udp" \notin D3
  OBVIOUS
<1>0. Descriptors = D4
  BY DEF Descriptors
<1> HIDE DEF D1
<1>3. IsFiniteSet(D2) /\ Cardinality(D2) = 2
  BY <1>1, <1>2, FS_AddElement
<1> HIDE DEF D2
<1>4. IsFiniteSet(D3) /\ Cardinality(D3) = 3
  BY <1>2, <1>3, FS_AddElement
<1> HIDE DEF D3
<1>5. IsFiniteSet(D4) /\ Cardinality(D4) = 4
  BY <1>2, <1>4, FS_AddElement
<1> QED
  BY <1>0, <1>5

\* Unless there are leaks only live connections have descriptors.
LEMMA HeldByLive ==
  ASSUME WorkerInv, ~Leaks, NEW c \in Conns, fds[c] # {}
  PROVE  c \in Live
<1>1. CASE stage[c] = "none"
  BY <1>1 DEF WorkerInv, StageFits
<1>2. CASE stage[c] = "free"
  <2>1. fds[c] = {"udp"}
    BY <1>2 DEF WorkerInv, StageFits, Leaks
  <2> QED
    BY <2>1 DEF Live
<1>3. CASE stage[c] \notin {"none", "free"}
  BY <1>3 DEF Live
<1> QED
  BY <1>1, <1>2, <1>3

\* The descriptors in use are at most four of each live connection, and fewer
\* if one of them has no configuration request under way.
LEMMA UsedFits ==
  ASSUME WorkerInv, ~Leaks
  PROVE  /\ Used \in Nat
         /\ Used <= 4 * Cardinality(Live)
         /\ \A c \in Live : "udp" \notin fds[c] => Used < 4 * Cardinality(Live)
<1> DEFINE U == UNION {{c} \X fds[c] : c \in Conns}
           P == Live \X Descriptors
<1>1. IsFiniteSet(P) /\ Cardinality(P) = 4 * Cardinality(Live) /\ Cardinality(P) \in Nat
  <2>1. IsFiniteSet(P) /\ Cardinality(P) = Cardinality(Live) * Cardinality(Descriptors)
    BY LiveFinite, FourDescriptors, FS_Product
  <2> QED
    BY <2>1, LiveFinite, FourDescriptors
<1>2. U \subseteq P
  <2> SUFFICES ASSUME NEW c \in Conns, NEW u \in {c} \X fds[c] PROVE u \in P
    OBVIOUS
  <2>1. u = <<c, u[2]>> /\ u[2] \in fds[c]
    OBVIOUS
  <2>2. c \in Live
    BY <2>1, HeldByLive
  <2>3. fds[c] \subseteq Descriptors
    BY DEF WorkerInv, TypeOK
  <2> QED
    BY <2>1, <2>2, <2>3
<1>3. Used = Cardinality(U)
  BY DEF Used
<1>4. \A c \in Live : "udp" \notin fds[c] => U \subseteq P \ {<<c, "udp">>} /\ <<c, "udp">> \in P
  <2> SUFFICES ASSUME NEW c \in Live, "udp" \notin fds[c]
               PROVE  <<c, "udp">> \notin U /\ <<c, "udp">> \in P
    BY <1>2
  <2> QED
    BY DEF Descriptors
<1> HIDE DEF U, P
<1>5. IsFiniteSet(U) /\ Cardinality(U) <= Cardinality(P) /\ Cardinality(U) \in Nat
  BY <1>1, <1>2, FS_Subset, FS_CardinalityType
<1>6. ASSUME NEW c \in Live, "udp" \notin fds[c]
      PROVE  Cardinality(U) < Cardinality(P)
  <2> DEFINE Q == P \ {<<c, "udp">>}
  <2>1. IsFiniteSet(Q) /\ Cardinality(Q) = Cardinality(P) - 1
    BY <1>1, <1>4, <1>6, FS_RemoveElement
  <2>2. U \in SUBSET Q
    BY <1>4, <1>6
  <2> HIDE DEF Q
  <2>3. Cardinality(U) <= Cardinality(Q)
    BY <2>1, <2>2, FS_Subset
  <2> QED
    BY <1>1, <1>5, <2>1, <2>3
<1> QED
  BY <1>1, <1>3, <1>5, <1>6

\* An assertion fails: nothing else changes.
LEMMA AbortInv ==
  ASSUME WorkerInv, NEW r \in {"uv_close", "uv_poll_start", "write", "EMFILE"},
         Abort(r), StopsCleanlyIffIdle', ExhaustedOnlyByLeaks'
  PROVE  WorkerInv'
<1> USE DEF Abort
<1>1. TypeOK'
  BY DEF WorkerInv, TypeOK
<1>2. \A d \in Conns : StageFits(d)'
  BY StageFrame DEF WorkerInv
<1>3. WalkClosesAll' /\ IdleIsQuiet'
  BY DEF WorkerInv, WalkClosesAll, IdleIsQuiet, Waiting, Dest, Signal, Handles, OfConn,
         OfPeer, OfWorker
<1>4. BusyEnds'
  BY DEF BusyEnds
<1>5. LiveFits'
  BY DEF WorkerInv, LiveFits, Live
<1> QED
  BY <1>1, <1>2, <1>3, <1>4, <1>5 DEF WorkerInv

\* There is no descriptor left: only if some have leaked.
LEMMA ExhaustedInv ==
  ASSUME WorkerInv, Polling, walked = "no", Leaks, Abort("EMFILE")
  PROVE  WorkerInv'
<1>1. StopsCleanlyIffIdle'
  BY DEF StopsCleanlyIffIdle, Abort, Polling
<1>2. ExhaustedOnlyByLeaks'
  BY DEF ExhaustedOnlyByLeaks, Abort, Leaks, MonitorFds
<1> QED
  BY <1>1, <1>2, AbortInv

\* A connection joins the live ones.
LEMMA LiveJoins ==
  ASSUME WorkerInv, NEW c \in Conns, Only(c), Cardinality(Live) < MaxLive
  PROVE  LiveFits'
<1>1. Live' \in SUBSET (Live \cup {c})
  BY DEF Live, Only
<1>2. /\ IsFiniteSet(Live \cup {c})
      /\ Cardinality(Live \cup {c}) <= Cardinality(Live) + 1
      /\ Cardinality(Live \cup {c}) \in Nat
  <2>1. /\ IsFiniteSet(Live \cup {c})
        /\ Cardinality(Live \cup {c}) =
             IF c \in Live THEN Cardinality(Live) ELSE Cardinality(Live) + 1
    BY LiveFinite, FS_AddElement
  <2> QED
    BY <2>1, LiveFinite
<1>3. IsFiniteSet(Live') /\ Cardinality(Live') <= Cardinality(Live \cup {c})
  BY <1>1, <1>2, FS_Subset
<1>4. Cardinality(Live') \in Nat
  BY <1>3, FS_CardinalityType
<1> QED
  BY <1>2, <1>3, <1>4, LiveFinite, WorkerAssumption DEF LiveFits

-----------------------------------------------------------------------------
(* Connections begin, and are handed over.                                 *)

\* A client is accepted.
LEMMA AcceptInv ==
  ASSUME WorkerInv, NEW c \in Accepted, on_connection(c)
  PROVE  WorkerInv'
<1> USE DEF on_connection
<1>0. TypeOK /\ c \in Conns
  BY DEF WorkerInv, Conns
<1>p. PICK p \in Peers : TRUE
  BY WorkerAssumption
<1>2. walked = "no" /\ Polling
  BY <1>0, <1>p, HandleNames, OpenNotWalked
<1>3. CASE Room < 3 /\ Abort("EMFILE")
  <2>1. Leaks
    <3> SUFFICES ASSUME ~Leaks PROVE FALSE
      OBVIOUS
    <3>1. Used \in Nat /\ Used <= 4 * Cardinality(Live)
      BY UsedFits
    <3> QED
      BY <1>3, <3>1, LiveFinite, WorkerAssumption DEF Room
  <2> QED
    BY <1>2, <1>3, <2>1, ExhaustedInv
<1>4. CASE ~(Room < 3 /\ Abort("EMFILE"))
  <2>0. /\ handle' = Open({Tcp(c), Monitor(c)})
        /\ stage' = [stage EXCEPT ![c] = "read"]
        /\ fds' = [fds EXCEPT ![c] = {"sock"} \cup MonitorFds]
        /\ UNCHANGED <<app, loop, end, dest, writing, forwarding,
                       connected, signalled, abort, walked>>
    BY <1>4
  <2>1. OnlyHandlesOf(c)
    BY <1>0, <2>0, ConnHandles DEF OfConn
  <2>3. TypeOK'
    BY <1>0, <2>0, <2>1 DEF TypeOK, Stages, OnlyHandlesOf, Descriptors, MonitorFds
  <2>4. /\ stage'[c] = "read" /\ Only(c)
        /\ fds'[c] = {"sock"} \cup MonitorFds
    BY <1>0, <2>0, <2>1 DEF TypeOK, Only, OnlyHandlesOf
  <2>5. /\ handle'[Tcp(c)] = "open"
        /\ handle'[Monitor(c)] = "open"
        /\ handle'[Udp(c)] = handle[Udp(c)]
    BY <1>0, <2>0, <1>p, HandleNames, OpenClose
  <2>6. handle[Udp(c)] = "none" /\ c \notin writing
    BY <1>0 DEF WorkerInv, StageFits, OfConn
  <2>7. StageFits(c)'
    BY <1>2, <2>0, <2>4, <2>5, <2>6
    DEF StageFits, MonitorFits, MonitorFds, Tcp, Monitor, Udp
  <2>8. LiveFits'
    BY <1>0, <2>4, LiveJoins
  <2> QED
    BY <1>0, <1>2, <2>0, <2>1, <2>3, <2>4, <2>7, <2>8, OrdinaryStep DEF OnlyHandlesOf
<1> QED
  BY <1>3, <1>4

\* A connection is imported.
LEMMA ImportInv ==
  ASSUME WorkerInv, NEW c \in Imported, continue_import(c)
  PROVE  WorkerInv'
<1> USE DEF continue_import
<1>0. TypeOK /\ c \in Conns
  BY DEF WorkerInv, Conns
<1>p. PICK p \in Peers : handle[HandoffClient(p)] = "open"
  OBVIOUS
<1>2. walked = "no" /\ Polling
  BY <1>0, <1>p, HandleNames, OpenNotWalked
<1>3. CASE Room < 4 /\ Abort("EMFILE")
  <2>1. Leaks
    <3> SUFFICES ASSUME ~Leaks PROVE FALSE
      OBVIOUS
    <3>1. Used \in Nat /\ Used <= 4 * Cardinality(Live)
      BY UsedFits
    <3> QED
      BY <1>3, <3>1, LiveFinite, WorkerAssumption DEF Room
  <2> QED
    BY <1>2, <1>3, <2>1, ExhaustedInv
<1>4. CASE ~(Room < 4 /\ Abort("EMFILE"))
  <2>0. /\ handle' = Open(OfConn(c))
        /\ stage' = [stage EXCEPT ![c] = "chown"]
        /\ fds' = [fds EXCEPT ![c] = {"sock", "udp"} \cup MonitorFds]
        /\ UNCHANGED <<app, loop, end, dest, writing, forwarding, connected,
                       signalled, abort, walked>>
    BY <1>4
  <2>1. OnlyHandlesOf(c)
    BY <1>0, <2>0, ConnHandles
  <2>3. TypeOK'
    BY <1>0, <2>0, <2>1 DEF TypeOK, Stages, OnlyHandlesOf, Descriptors, MonitorFds
  <2>4. /\ stage'[c] = "chown" /\ Only(c)
        /\ fds'[c] = {"sock", "udp"} \cup MonitorFds
    BY <1>0, <2>0, <2>1 DEF TypeOK, Only, OnlyHandlesOf
  <2>5. /\ handle'[Tcp(c)] = "open"
        /\ handle'[Monitor(c)] = "open"
        /\ handle'[Udp(c)] = "open"
    BY <1>0, <2>0, <1>p, HandleNames, OpenClose DEF OfConn
  <2>6. c \notin writing
    BY <1>0 DEF WorkerInv, StageFits
  <2>7. StageFits(c)'
    BY <1>2, <2>0, <2>4, <2>5, <2>6
    DEF StageFits, MonitorFits, MonitorFds, Tcp, Monitor, Udp
  <2>8. LiveFits'
    BY <1>0, <2>4, LiveJoins
  <2> QED
    BY <1>0, <1>2, <2>0, <2>1, <2>3, <2>4, <2>7, <2>8, OrdinaryStep DEF OnlyHandlesOf
<1> QED
  BY <1>3, <1>4

\* The handler has the connection handed over: the switch is configured.
LEMMA StartHandoffInv ==
  ASSUME WorkerInv, NEW c \in Conns, NEW p \in Peers, phttp_start_handoff(c, p)
  PROVE  WorkerInv'
<1> USE DEF phttp_start_handoff
<1>0. TypeOK
  BY DEF WorkerInv
<1>2. /\ walked = "no" /\ Polling /\ c \in Live
      /\ handle[Tcp(c)] = "open"
      /\ handle[Monitor(c)] = "open"
  BY TcpOpen DEF MayRead
<1>i. /\ fds[c] = {"sock"} \cup MonitorFds
      /\ c \notin writing
  BY DEF WorkerInv, StageFits
<1>3. CASE Room = 0
  <2>1. Leaks
    <3> SUFFICES ASSUME ~Leaks PROVE FALSE
      OBVIOUS
    <3>1. "udp" \notin fds[c]
      BY <1>i DEF MonitorFds
    <3>2. Used \in Nat /\ Used < 4 * Cardinality(Live)
      BY <1>2, <3>1, UsedFits
    <3>3. Cardinality(Live) <= MaxLive
      BY DEF WorkerInv, LiveFits
    <3> QED
      BY <1>3, <3>2, <3>3, LiveFinite, WorkerAssumption DEF Room
  <2>2. Abort("EMFILE")
    BY <1>3 DEF Room
  <2> QED
    BY <1>2, <2>1, <2>2, ExhaustedInv
<1>4. CASE Room # 0
  <2>0. /\ handle' = Open({Udp(c)})
        /\ stage' = [stage EXCEPT ![c] = "configure"]
        /\ dest' = [dest EXCEPT ![c] = p]
        /\ fds' = [fds EXCEPT ![c] = @ \cup {"udp"}]
        /\ UNCHANGED <<app, loop, end, writing, forwarding,
                       connected, signalled, abort, walked>>
    BY <1>4
  <2>1. OnlyHandlesOf(c)
    BY <1>0, <2>0, ConnHandles DEF OfConn
  <2>3. TypeOK'
    BY <1>0, <2>0, <2>1 DEF TypeOK, Stages, OnlyHandlesOf, Descriptors
  <2>4. /\ stage'[c] = "configure" /\ Only(c)
        /\ fds'[c] = {"sock", "udp"} \cup MonitorFds
    BY <1>0, <1>i, <2>0, <2>1 DEF TypeOK, Only, OnlyHandlesOf
  <2>5. /\ handle'[Tcp(c)] = "open"
        /\ handle'[Monitor(c)] = "open"
        /\ handle'[Udp(c)] = "open"
    BY <1>0, <1>2, <2>0, HandleNames, OpenClose
  <2>7. StageFits(c)'
    BY <1>2, <1>i, <2>0, <2>4, <2>5
    DEF StageFits, MonitorFits, MonitorFds, Tcp, Monitor, Udp
  <2>8. LiveFits'
    BY <1>2, <2>4, LiveStays
  <2> QED
    BY <1>2, <2>0, <2>1, <2>3, <2>4, <2>7, <2>8, OrdinaryStep DEF OnlyHandlesOf
<1> QED
  BY <1>3, <1>4

-----------------------------------------------------------------------------
(* Steps that concern no connection.                                       *)

\* The connections keep what they have, and the handles were not walked.
LEMMA QuietStep ==
  ASSUME WorkerInv, TypeOK', UNCHANGED <<stage, fds, writing, walked>>,
         \A c \in Conns : \A h \in OfConn(c) : handle'[h] = handle[h],
         WalkClosesAll', BusyEnds', IdleIsQuiet', StopsCleanlyIffIdle',
         ExhaustedOnlyByLeaks'
  PROVE  WorkerInv'
<1>1. \A c \in Conns : StageFits(c)'
  BY StageFrame DEF WorkerInv
<1>2. LiveFits'
  BY DEF WorkerInv, LiveFits, Live
<1> QED
  BY <1>1, <1>2 DEF WorkerInv

\* A peer is reached.
LEMMA ConnectInv ==
  ASSUME WorkerInv, NEW p \in Peers, try_connect(p)
  PROVE  WorkerInv'
<1> USE DEF try_connect
<1>0. TypeOK
  BY DEF WorkerInv
<1>c. ConnectTimer(p) \in Handles /\ Signal \in Handles /\ Signal # ConnectTimer(p)
  BY DEF Handles, OfPeer, OfWorker, ConnectTimer, Signal
<1>d. \A q \in Peers : Dest(q) \in Handles /\ Dest(q) # ConnectTimer(p)
  BY DEF Handles, OfPeer, Dest, ConnectTimer
<1>1. walked = "no"
  BY <1>c, OpenNotWalked
<1>2. TypeOK'
  BY <1>0, OpenClose DEF TypeOK
<1>3. \A h \in Handles : h # ConnectTimer(p) => handle'[h] = handle[h]
  BY <1>0, OpenClose
<1>4. \A c \in Conns : \A h \in OfConn(c) : handle'[h] = handle[h]
  BY <1>3, HandleNames DEF OfConn
<1>5. WalkClosesAll'
  <2>1. handle'[Signal] = handle[Signal]
    BY <1>3, <1>c
  <2>2. \A q \in Peers : handle'[Dest(q)] = handle[Dest(q)]
    BY <1>3, <1>d
  <2> QED
    BY <1>1, <2>1, <2>2 DEF WorkerInv, WalkClosesAll, Signal, Dest
<1>6. BusyEnds' /\ IdleIsQuiet' /\ StopsCleanlyIffIdle' /\ ExhaustedOnlyByLeaks'
  BY <1>1 DEF BusyEnds, IdleIsQuiet, StopsCleanlyIffIdle, ExhaustedOnlyByLeaks, Polling
<1> QED
  BY <1>2, <1>4, <1>5, <1>6, QuietStep

\* A forward begins or ends.
LEMMA ForwardInv ==
  ASSUME WorkerInv, NEW p \in Peers, forward_proto_states(p) \/ forward_done(p)
  PROVE  WorkerInv'
<1> USE DEF forward_proto_states, forward_done
<1>1. walked = "no"
  <2>1. Dest(p) \in Handles
    BY DEF Handles, OfPeer
  <2> QED
    BY <2>1, OpenNotWalked
<1>2. TypeOK'
  BY DEF WorkerInv, TypeOK
<1>3. WalkClosesAll'
  BY DEF WorkerInv, WalkClosesAll, Signal, Dest, Handles, OfConn, OfPeer, OfWorker
<1>4. BusyEnds' /\ IdleIsQuiet' /\ StopsCleanlyIffIdle' /\ ExhaustedOnlyByLeaks'
  BY <1>1 DEF BusyEnds, IdleIsQuiet, StopsCleanlyIffIdle, ExhaustedOnlyByLeaks, Polling
<1>5. UNCHANGED <<handle, stage, fds, writing, walked>>
  OBVIOUS
<1> QED
  BY <1>2, <1>3, <1>4, <1>5, QuietStep

\* The kernel writes an eventfd, or the flag of on_sig is set.
LEMMA OutsideInv ==
  ASSUME WorkerInv, (\E c \in Conns : KernelDestroy(c)) \/ on_sig
  PROVE  WorkerInv'
<1> USE DEF KernelDestroy, on_sig
<1>1. UNCHANGED <<app, loop, handle, stage, dest, writing,
                  forwarding, connected, fds, abort, walked>>
  OBVIOUS
<1>2. TypeOK'
  BY DEF WorkerInv, TypeOK
<1>3. WalkClosesAll'
  BY <1>1 DEF WorkerInv, WalkClosesAll, Signal, Dest, Handles, OfConn, OfPeer, OfWorker
<1>4. BusyEnds' /\ IdleIsQuiet'
  BY <1>1 DEF WorkerInv, BusyEnds, IdleIsQuiet, Waiting, Dest
<1>5. StopsCleanlyIffIdle' /\ ExhaustedOnlyByLeaks'
  BY <1>1 DEF WorkerInv, StopsCleanlyIffIdle, Waiting, ExhaustedOnlyByLeaks, MonitorFds
<1> QED
  BY <1>1, <1>2, <1>3, <1>4, <1>5, QuietStep

-----------------------------------------------------------------------------
(* The walk.                                                               *)

\* What the walk does to one connection.
LEMMA WalkConn ==
  ASSUME WorkerInv, Walk, walked = "no", NEW c \in Conns
  PROVE  LET Shut(h) == IF handle[h] = "open" THEN "closing" ELSE handle[h]
         IN  /\ handle'[Tcp(c)] = Shut(Tcp(c))
             /\ handle'[Monitor(c)] = Shut(Monitor(c))
             /\ handle'[Udp(c)] = Shut(Udp(c))
             /\ stage'[c] = IF handle[Tcp(c)] = "open" THEN "leave" ELSE stage[c]
             /\ fds'[c] = fds[c] \ ((IF handle[Tcp(c)] = "open" THEN {"sock"} ELSE {})
                               \cup (IF handle[Udp(c)] = "open" THEN {"udp"} ELSE {}))
             /\ walked' # "no"
<1>0. TypeOK
  BY DEF WorkerInv
<1>1. PICK p \in Peers : TRUE
  BY WorkerAssumption
<1>2. Tcp(c) \in Handles /\ Monitor(c) \in Handles /\ Udp(c) \in Handles
  BY <1>1, HandleNames
<1> DEFINE closed == {h \in Handles : on_walk(h)}
<1>3. \A h \in Handles : h \in closed <=> handle[h] = "open"
  BY DEF on_walk
<1>4. /\ handle' = Close(closed)
      /\ stage' = [d \in Conns |-> IF Tcp(d) \in closed THEN "leave" ELSE stage[d]]
      /\ fds' = [d \in Conns |->
                   fds[d] \ ((IF Tcp(d) \in closed THEN {"sock"} ELSE {})
                             \cup (IF Udp(d) \in closed THEN {"udp"} ELSE {}))]
      /\ walked' # "no"
  BY DEF Walk
<1> HIDE DEF closed
<1>5. \A h \in Handles :
        handle'[h] = IF handle[h] = "open" THEN "closing" ELSE handle[h]
  BY <1>0, <1>3, <1>4, OpenClose
<1> QED
  BY <1>2, <1>3, <1>4, <1>5

\* Every connection fits its stage after the walk.
LEMMA WalkStageFits ==
  ASSUME WorkerInv, Walk, walked = "no", UNCHANGED writing, NEW c \in Conns
  PROVE  StageFits(c)'
<1>0. StageFits(c) /\ stage[c] \in Stages
  BY DEF WorkerInv, TypeOK
<1>1. CASE stage[c] = "none"
  <2>1. handle[Tcp(c)] = "none" /\ handle[Monitor(c)] = "none"
          /\ handle[Udp(c)] = "none" /\ fds[c] = {} /\ c \notin writing
    BY <1>0, <1>1 DEF StageFits, OfConn
  <2>2. handle'[Tcp(c)] = "none" /\ handle'[Monitor(c)] = "none"
          /\ handle'[Udp(c)] = "none" /\ fds'[c] = {} /\ stage'[c] = "none"
    BY <1>1, <2>1, WalkConn
  <2> QED
    BY <2>1, <2>2 DEF StageFits, OfConn, Tcp, Monitor, Udp
<1>2. CASE stage[c] \in {"read", "respond", "configure", "chown", "export", "leave"}
  <2>1. /\ handle[Monitor(c)] = "open"
        /\ handle[Tcp(c)] = IF stage[c] \in {"export", "leave"} THEN "closing" ELSE "open"
        /\ handle[Udp(c)] = "open" <=> stage[c] \in {"configure", "chown"}
        /\ fds[c] = MonitorFds
                      \cup (IF handle[Tcp(c)] = "open" THEN {"sock"} ELSE {})
                      \cup (IF handle[Udp(c)] = "open" THEN {"udp"} ELSE {})
        /\ c \in writing => stage[c] \in {"respond", "leave"}
    BY <1>0, <1>2 DEF StageFits, MonitorFits
  <2>2. /\ stage'[c] = IF stage[c] = "export" THEN "export" ELSE "leave"
        /\ handle'[Tcp(c)] = "closing"
        /\ handle'[Monitor(c)] = "closing"
        /\ handle'[Udp(c)] # "open"
        /\ walked' # "no"
    BY <1>2, <2>1, WalkConn
  <2>3. fds'[c] = MonitorFds
    BY <2>1, WalkConn DEF MonitorFds
  <2>4. c \in writing' => stage'[c] = "leave"
    BY <2>1, <2>2
  <2> QED
    BY <2>2, <2>3, <2>4 DEF StageFits, MonitorFits, Closing, MonitorFds, Tcp, Monitor, Udp
<1>3. CASE stage[c] \in {"wait_export", "wait_close", "send"}
  <2>1. /\ handle[Monitor(c)] = "open" /\ handle[Tcp(c)] = "closed"
        /\ handle[Udp(c)] # "open" /\ c \notin writing
        /\ fds[c] = IF stage[c] = "send" THEN {"evfd"} ELSE MonitorFds
        /\ stage[c] = "wait_close" => c \in Imported
    BY <1>0, <1>3 DEF StageFits, MonitorFits
  <2>2. /\ stage'[c] = stage[c] /\ fds'[c] = fds[c]
        /\ handle'[Tcp(c)] = "closed" /\ handle'[Monitor(c)] = "closing"
        /\ handle'[Udp(c)] # "open"
        /\ walked' # "no"
    BY <2>1, WalkConn
  <2> QED
    BY <1>3, <2>1, <2>2 DEF StageFits, MonitorFits, Closing, MonitorFds, Tcp, Monitor, Udp
<1>4. CASE stage[c] \in {"reclaim", "free"}
  <2>1. /\ handle[Tcp(c)] = "closed" /\ c \notin writing
        /\ handle[Monitor(c)] = IF stage[c] = "free" THEN "closed" ELSE "closing"
        /\ IF handle[Udp(c)] = "open" THEN c \in Imported /\ fds[c] = {"udp"}
           ELSE fds[c] = {} \/ (c \in Accepted /\ fds[c] = MonitorFds)
    BY <1>0, <1>4 DEF StageFits
  <2>2. /\ stage'[c] = stage[c]
        /\ handle'[Tcp(c)] = "closed" /\ handle'[Monitor(c)] = handle[Monitor(c)]
        /\ handle'[Udp(c)] # "open"
        /\ fds'[c] = {} \/ (c \in Accepted /\ fds'[c] = MonitorFds)
    BY <1>4, <2>1, WalkConn
  <2> QED
    BY <1>4, <2>1, <2>2 DEF StageFits, MonitorFds, Tcp, Monitor, Udp
<1> QED
  BY <1>0, <1>1, <1>2, <1>3, <1>4 DEF Stages

\* The walk of the handles, in either application.
LEMMA WalkInv ==
  ASSUME WorkerInv, Walk, walked = "no", abort = "none", loop' = "poll",
         UNCHANGED <<app, end, dest, writing, forwarding, connected, signalled>>
  PROVE  WorkerInv'
<1>0. TypeOK
  BY DEF WorkerInv
<1>p. PICK p \in Peers : TRUE
  BY WorkerAssumption
<1> DEFINE closed == {h \in Handles : on_walk(h)}
<1>c. \A h \in Handles : h \in closed <=> handle[h] = "open"
  BY DEF on_walk
<1>w. /\ handle' = Close(closed)
      /\ stage' = [c \in Conns |-> IF Tcp(c) \in closed THEN "leave" ELSE stage[c]]
      /\ fds' = [c \in Conns |->
                   fds[c] \ ((IF Tcp(c) \in closed THEN {"sock"} ELSE {})
                             \cup (IF Udp(c) \in closed THEN {"udp"} ELSE {}))]
      /\ \/ abort' = IF \E c \in Conns : Udp(c) \in closed THEN "uv_close" ELSE "none"
         \/ app = "kvs-repl" /\ Unset # {} /\ abort' = "wild"
      /\ walked' = IF Busy THEN "busy" ELSE IF Waiting THEN "waiting" ELSE "idle"
  BY DEF Walk, CallsUnset
<1> HIDE DEF closed
<1>1. TypeOK'
  BY <1>0, <1>w, OpenClose DEF TypeOK, Stages
<1>2. \A c \in Conns : StageFits(c)'
  BY WalkStageFits
<1>3. \A h \in Handles :
        handle'[h] = IF handle[h] = "open" THEN "closing" ELSE handle[h]
  BY <1>0, <1>c, <1>w, OpenClose
<1>4. WalkClosesAll'
  BY <1>3, <1>w DEF WalkClosesAll, Handles, OfConn, OfPeer, OfWorker
<1>5. abort' = "none" => \A c \in Conns : handle[Udp(c)] # "open"
  <2>1. \A c \in Conns : Udp(c) \in Handles
    BY <1>p, HandleNames
  <2> QED
    BY <1>c, <1>w, <2>1
<1>6. BusyEnds'
  <2> SUFFICES ASSUME Busy, abort' = "none"
               PROVE  /\ \A q \in Peers : handle'[Dest(q)] = "closing"
                      /\ \/ forwarding' # {}
                         \/ \E c \in Conns : stage'[c] \in {"export", "leave", "send"}
    BY <1>w DEF BusyEnds, Dest
  <2>1. \A q \in Peers : handle'[Dest(q)] = "closing"
    <3>1. \A q \in Peers : Dest(q) \in Handles /\ handle[Dest(q)] = "open"
      BY DEF WorkerInv, WalkClosesAll, Handles, OfPeer
    <3> QED
      BY <1>3, <3>1
  <2>2. ASSUME NEW c \in Conns,
               handle[Tcp(c)] \in {"open", "closing"} \/ stage[c] = "send"
        PROVE  stage'[c] \in {"export", "leave", "send"}
    <3>1. CASE handle[Tcp(c)] = "open"
      BY <3>1, WalkConn
    <3>2. CASE handle[Tcp(c)] # "open"
      <4>1. StageFits(c) /\ stage[c] \in Stages
        BY DEF WorkerInv, TypeOK
      <4>2. stage[c] \in {"export", "leave", "send"}
        BY <2>2, <3>2, <4>1 DEF StageFits, Stages, OfConn
      <4> QED
        BY <3>2, <4>2, WalkConn
    <3> QED
      BY <3>1, <3>2
  <2> QED
    BY <1>5, <2>1, <2>2 DEF Busy
<1>7. IdleIsQuiet'
  <2> SUFFICES ASSUME ~Busy
               PROVE  /\ forwarding' = {}
                      /\ \A c \in Conns :
                           stage'[c] \in {"none", "wait_export", "wait_close",
                                         "reclaim", "free"}
                      /\ Waiting' <=> Waiting
    BY <1>w DEF IdleIsQuiet
  <2>1. ASSUME NEW c \in Conns
        PROVE  /\ stage'[c] \in {"none", "wait_export", "wait_close", "reclaim", "free"}
               /\ stage'[c] = stage[c]
    <3>1. /\ StageFits(c) /\ stage[c] \in Stages
          /\ handle[Tcp(c)] \notin {"open", "closing"}
          /\ stage[c] # "send"
      BY DEF WorkerInv, TypeOK, Busy
    <3> QED
      BY <3>1, WalkConn DEF StageFits, Stages
  <2>2. Waiting' <=> Waiting
    BY <2>1 DEF Waiting
  <2> QED
    BY <2>1, <2>2 DEF Busy
<1>8. LiveFits'
  <2>1. Live' \subseteq Live
    <3> SUFFICES ASSUME NEW c \in Conns,
                        stage'[c] \notin {"none", "free"} \/ "udp" \in fds'[c]
                 PROVE  stage[c] \notin {"none", "free"} \/ "udp" \in fds[c]
      BY DEF Live
    <3>1. stage[c] \in {"none", "free"} => handle[Tcp(c)] # "open"
      BY DEF WorkerInv, StageFits, OfConn
    <3> QED
      BY <3>1, WalkConn
  <2> QED
    BY <2>1, LiveFrame
<1>9. StopsCleanlyIffIdle'
  <2>1. ~Busy => \/ abort' = "none"
                 \/ app' = "kvs-repl" /\ Unset # {} /\ abort' = "wild"
    <3>1. \A c \in Conns : Udp(c) \in Handles
      BY <1>p, HandleNames
    <3> QED
      BY <1>c, <1>w, <3>1 DEF Busy
  <2> QED
    BY <1>w, <2>1 DEF StopsCleanlyIffIdle
<1>10. ExhaustedOnlyByLeaks'
  BY <1>w DEF ExhaustedOnlyByLeaks
<1> QED
  BY <1>1, <1>2, <1>4, <1>6, <1>7, <1>8, <1>9, <1>10 DEF WorkerInv

\* bench: on_sig walks.
LEMMA SignalWalkInv ==
  ASSUME WorkerInv, on_sig_walk
  PROVE  WorkerInv'
<1> USE DEF on_sig_walk, Polling
<1>1. Signal \in Handles
  BY DEF Handles, OfWorker
<1>2. walked = "no"
  BY <1>1, OpenNotWalked
<1> QED
  BY <1>2, WalkInv

\* The beginning of an iteration.
LEMMA PrepareInv ==
  ASSUME WorkerInv, on_prepare
  PROVE  WorkerInv'
<1> USE DEF on_prepare
<1>1. CASE end /\ handle[Prepare] = "open" /\ Walk
  <2>1. Prepare \in Handles
    BY DEF Handles, OfWorker
  <2>2. walked = "no"
    BY <1>1, <2>1, OpenNotWalked
  <2> QED
    BY <1>1, <2>2, WalkInv
<1>2. CASE UNCHANGED <<handle, stage, fds, abort, walked>>
  <2>1. TypeOK'
    BY <1>2 DEF WorkerInv, TypeOK
  <2>2. WalkClosesAll'
    BY <1>2 DEF WorkerInv, WalkClosesAll, Signal, Dest, Handles, OfConn, OfPeer, OfWorker
  <2>3. BusyEnds'
    BY <1>2 DEF WorkerInv, BusyEnds
  <2>4. IdleIsQuiet' /\ StopsCleanlyIffIdle' /\ ExhaustedOnlyByLeaks'
    BY <1>2 DEF WorkerInv, IdleIsQuiet, StopsCleanlyIffIdle, Waiting,
       ExhaustedOnlyByLeaks
  <2> QED
    BY <1>2, <2>1, <2>2, <2>3, <2>4, QuietStep
<1> QED
  BY <1>1, <1>2

-----------------------------------------------------------------------------
(* The end of an iteration.                                                *)

\* A connection whose handle is being closed is about to leave or to be
\* exported.
LEMMA TcpClosing ==
  ASSUME WorkerInv, NEW c \in Conns, handle[Tcp(c)] = "closing"
  PROVE  /\ stage[c] \in {"export", "leave"}
         /\ MonitorFits(c)
<1>1. StageFits(c) /\ stage[c] \in Stages
  BY DEF WorkerInv, TypeOK
<1> QED
  BY <1>1 DEF StageFits, Stages, OfConn

\* The monitor of such a connection is closed already only after the walk of
\* a busy worker.
LEMMA ClosedTwice ==
  ASSUME WorkerInv, abort = "none", NEW c \in Conns,
         handle[Tcp(c)] = "closing", Closing(Monitor(c))
  PROVE  walked = "busy"
<1>1. stage[c] \in {"export", "leave"} /\ MonitorFits(c)
  BY TcpClosing
<1>2. walked # "no"
  BY <1>1 DEF MonitorFits, Closing
<1>3. walked \notin {"idle", "waiting"}
  BY <1>1 DEF WorkerInv, IdleIsQuiet
<1> QED
  BY <1>2, <1>3 DEF WorkerInv, TypeOK

\* An assertion fails in a callback of the end of an iteration.
LEMMA RunClosingAborts ==
  ASSUME WorkerInv, Polling,
         \/ CancelsWrite /\ Abort("write")
         \/ /\ \E c \in Conns : ClosesMonitor(c) /\ Closing(Monitor(c))
            /\ Abort("uv_close")
         \/ /\ \E c \in Conns : WaitsForKernel(c) /\ Closing(Monitor(c))
            /\ Abort("uv_poll_start")
  PROVE  WorkerInv'
<1>1. CASE CancelsWrite /\ Abort("write")
  <2>1. walked \notin {"idle", "waiting"}
    BY <1>1 DEF WorkerInv, TypeOK, StageFits, IdleIsQuiet, CancelsWrite
  <2>2. StopsCleanlyIffIdle'
    BY <1>1, <2>1 DEF StopsCleanlyIffIdle, Abort, Polling
  <2>3. ExhaustedOnlyByLeaks'
    BY <1>1 DEF ExhaustedOnlyByLeaks, Abort
  <2> QED
    BY <1>1, <2>2, <2>3, AbortInv
<1>2. ASSUME NEW c \in Conns, ClosesMonitor(c) \/ WaitsForKernel(c),
             Closing(Monitor(c)), NEW r \in {"uv_close", "uv_poll_start"}, Abort(r)
      PROVE  WorkerInv'
  <2>1. handle[Tcp(c)] = "closing"
    BY <1>2 DEF ClosesMonitor, WaitsForKernel, Finished
  <2>2. walked = "busy"
    BY <1>2, <2>1, ClosedTwice DEF Polling
  <2>3. StopsCleanlyIffIdle'
    BY <1>2, <2>2 DEF StopsCleanlyIffIdle, Abort, Polling
  <2>4. ExhaustedOnlyByLeaks'
    BY <1>2 DEF ExhaustedOnlyByLeaks, Abort
  <2> QED
    BY <1>2, <2>3, <2>4, AbortInv
<1> QED
  BY <1>1, <1>2

\* The close callbacks that run: nothing is asserted in vain.
RunsClosing ==
  /\ ~CancelsWrite
  /\ \A c \in Conns : ClosesMonitor(c) \/ WaitsForKernel(c) => ~Closing(Monitor(c))
  /\ stage' = [c \in Conns |-> StageAfterClose(c)]
  /\ handle' = [h \in Handles |->
                  IF h \in {Monitor(c) : c \in {d \in Conns : ClosesMonitor(d)}}
                  THEN "closing"
                  ELSE IF h \in Finished THEN "closed" ELSE handle[h]]
  /\ UNCHANGED <<app, end, dest, writing, forwarding, connected, fds, signalled,
                 abort, walked>>

\* What they do to the handles.
LEMMA ClosingHandles ==
  ASSUME WorkerInv, RunsClosing
  PROVE  /\ handle' \in [Handles -> {"none", "open", "closing", "closed"}]
         /\ \A h \in Handles : handle'[h] = "open" => handle[h] = "open"
         /\ handle[Signal] = "open" => handle'[Signal] = "open"
         /\ \A p \in Peers : handle[Dest(p)] = "open" => handle'[Dest(p)] = "open"
         /\ \A c \in Conns :
              LET Done(h) == IF handle[h] = "closing" THEN "closed" ELSE handle[h]
              IN  /\ handle'[Tcp(c)] = Done(Tcp(c))
                  /\ handle'[Udp(c)] = Done(Udp(c))
                  /\ handle'[Monitor(c)] = IF ClosesMonitor(c) THEN "closing"
                                           ELSE Done(Monitor(c))
<1>0. TypeOK
  BY DEF WorkerInv
<1>p. PICK p \in Peers : TRUE
  BY WorkerAssumption
<1> DEFINE M == {Monitor(c) : c \in {d \in Conns : ClosesMonitor(d)}}
<1>1. handle' = [h \in Handles |->
                  IF h \in M THEN "closing"
                  ELSE IF h \in Finished THEN "closed" ELSE handle[h]]
  BY DEF RunsClosing
<1>2. \A h \in Handles : h \in Finished <=> handle[h] = "closing"
  BY DEF Finished
<1>3. \A c \in Conns : /\ Tcp(c) \in Handles /\ Tcp(c) \notin M
                       /\ Udp(c) \in Handles /\ Udp(c) \notin M
                       /\ Monitor(c) \in Handles
                       /\ Monitor(c) \in M <=> ClosesMonitor(c)
  BY <1>p, HandleNames
<1>4. /\ Signal \in Handles /\ Signal \notin M
      /\ \A q \in Peers : Dest(q) \in Handles /\ Dest(q) \notin M
  <2>1. Signal \in Handles /\ \A q \in Peers : Dest(q) \in Handles
    BY DEF Handles, OfPeer, OfWorker
  <2>2. \A c \in Conns : Signal # Monitor(c) /\ \A q \in Peers : Dest(q) # Monitor(c)
    BY <1>p, HandleNames
  <2> QED
    BY <2>1, <2>2
<1> HIDE DEF M
<1>5. handle' \in [Handles -> {"none", "open", "closing", "closed"}]
  BY <1>0, <1>1 DEF TypeOK
<1>6. \A h \in Handles : handle'[h] = "open" => handle[h] = "open"
  BY <1>1
<1>7. /\ handle[Signal] = "open" => handle'[Signal] = "open"
      /\ \A q \in Peers : handle[Dest(q)] = "open" => handle'[Dest(q)] = "open"
  BY <1>1, <1>2, <1>4
<1> QED
  BY <1>1, <1>2, <1>3, <1>5, <1>6, <1>7

\* Every connection fits its stage at the end of the iteration.
LEMMA ClosingStageFits ==
  ASSUME WorkerInv, RunsClosing, NEW c \in Conns
  PROVE  /\ StageFits(c)'
         /\ stage'[c] \in Stages
         /\ stage[c] \in {"none", "free"} => stage'[c] = stage[c]
         /\ stage[c] \in {"wait_export", "wait_close", "reclaim"} =>
              stage'[c] \in {stage[c], "free"}
<1>0. StageFits(c) /\ stage[c] \in Stages
  BY DEF WorkerInv, TypeOK
<1>p. PICK p \in Peers : TRUE
  BY WorkerAssumption
<1>1. /\ Tcp(c) \in Finished <=> handle[Tcp(c)] = "closing"
      /\ Monitor(c) \in Finished <=> handle[Monitor(c)] = "closing"
  BY <1>p, HandleNames DEF Finished
<1>2. stage'[c] = StageAfterClose(c) /\ fds'[c] = fds[c] /\ walked' = walked
        /\ writing' = writing
  BY DEF RunsClosing
<1>3. CASE stage[c] = "none"
  <2>1. stage'[c] = "none" /\ ~ClosesMonitor(c)
    BY <1>2, <1>3 DEF StageAfterClose, WaitsForKernel, ClosesMonitor, FreesConnection
  <2>2. handle[Tcp(c)] = "none" /\ handle[Monitor(c)] = "none"
          /\ handle[Udp(c)] = "none" /\ fds[c] = {} /\ c \notin writing
    BY <1>0, <1>3 DEF StageFits, OfConn
  <2>3. handle'[Tcp(c)] = "none" /\ handle'[Monitor(c)] = "none"
          /\ handle'[Udp(c)] = "none"
    BY <2>1, <2>2, ClosingHandles
  <2>4. StageFits(c)'
    BY <1>2, <2>1, <2>2, <2>3 DEF StageFits, OfConn, Tcp, Monitor, Udp
  <2> QED
    BY <1>3, <2>1, <2>4 DEF Stages
<1>4. CASE stage[c] \in {"read", "respond", "configure", "chown",
                        "wait_export", "wait_close", "send"}
  <2>1. handle[Tcp(c)] # "closing"
    BY <1>0, <1>4 DEF StageFits
  <2>2. stage'[c] = stage[c] /\ ~ClosesMonitor(c)
    BY <1>1, <1>2, <1>4, <2>1
    DEF StageAfterClose, WaitsForKernel, ClosesMonitor, FreesConnection
  <2>3. /\ handle'[Tcp(c)] = handle[Tcp(c)]
        /\ handle'[Udp(c)] = "open" <=> handle[Udp(c)] = "open"
        /\ handle[Monitor(c)] = "open" => handle'[Monitor(c)] = "open"
        /\ Closing(Monitor(c)) => handle'[Monitor(c)] = "closed"
    BY <2>1, <2>2, ClosingHandles DEF Closing
  <2>4. StageFits(c)'
    BY <1>0, <1>2, <1>4, <2>2, <2>3
    DEF StageFits, MonitorFits, Closing, MonitorFds, Tcp, Monitor, Udp
  <2> QED
    BY <1>0, <1>4, <2>2, <2>4
<1>5. CASE stage[c] \in {"export", "leave"}
  <2>0. /\ handle[Tcp(c)] = "closing" /\ handle[Udp(c)] # "open"
        /\ MonitorFits(c) /\ fds[c] = MonitorFds
    BY <1>0, <1>5 DEF StageFits
  <2>1. c \notin writing
    BY <1>1, <2>0 DEF RunsClosing, CancelsWrite
  <2>2. c \in Accepted \/ c \in Imported
    BY DEF Conns
  <2>3. ClosesMonitor(c) \/ WaitsForKernel(c)
    BY <1>1, <1>5, <2>0, <2>2 DEF ClosesMonitor, WaitsForKernel
  <2>4. walked = "no" /\ handle[Monitor(c)] = "open"
    BY <2>0, <2>3 DEF RunsClosing, MonitorFits
  <2>5. handle'[Tcp(c)] = "closed" /\ handle'[Udp(c)] # "open"
    BY <2>0, ClosingHandles
  <2>6. CASE stage[c] = "export"
    <3>1. stage'[c] = "wait_export" /\ ~ClosesMonitor(c)
      BY <1>1, <1>2, <2>0, <2>6
      DEF StageAfterClose, WaitsForKernel, ClosesMonitor, FreesConnection
    <3>2. handle'[Monitor(c)] = "open"
      BY <2>4, <3>1, ClosingHandles
    <3>3. StageFits(c)'
      BY <1>2, <2>0, <2>1, <2>4, <2>5, <3>1, <3>2
      DEF StageFits, MonitorFits, MonitorFds, Tcp, Monitor, Udp
    <3> QED
      BY <2>6, <3>1, <3>3 DEF Stages
  <2>7. CASE stage[c] = "leave" /\ c \in Imported
    <3>0. c \notin Accepted
      BY <2>7, WorkerAssumption
    <3>1. stage'[c] = "wait_close" /\ ~ClosesMonitor(c)
      BY <1>1, <1>2, <2>0, <2>7, <3>0
      DEF StageAfterClose, WaitsForKernel, ClosesMonitor, FreesConnection
    <3>2. handle'[Monitor(c)] = "open"
      BY <2>4, <3>1, ClosingHandles
    <3>3. StageFits(c)'
      BY <1>2, <2>0, <2>1, <2>4, <2>5, <2>7, <3>1, <3>2
      DEF StageFits, MonitorFits, MonitorFds, Tcp, Monitor, Udp
    <3> QED
      BY <2>7, <3>1, <3>3 DEF Stages
  <2>8. CASE stage[c] = "leave" /\ c \in Accepted
    <3>0. c \notin Imported
      BY <2>8, WorkerAssumption
    <3>1. stage'[c] = "reclaim" /\ ClosesMonitor(c)
      BY <1>1, <1>2, <2>0, <2>8, <3>0
      DEF StageAfterClose, WaitsForKernel, ClosesMonitor, FreesConnection
    <3>2. handle'[Monitor(c)] = "closing"
      BY <3>1, ClosingHandles
    <3>3. StageFits(c)'
      BY <1>2, <2>0, <2>1, <2>5, <2>8, <3>1, <3>2
      DEF StageFits, MonitorFds, Tcp, Monitor, Udp
    <3> QED
      BY <2>8, <3>1, <3>3 DEF Stages
  <2> QED
    BY <1>5, <2>2, <2>6, <2>7, <2>8
<1>6. CASE stage[c] \in {"reclaim", "free"}
  <2>1. /\ handle[Tcp(c)] = "closed" /\ c \notin writing
        /\ handle[Monitor(c)] = IF stage[c] = "free" THEN "closed" ELSE "closing"
        /\ IF handle[Udp(c)] = "open" THEN c \in Imported /\ fds[c] = {"udp"}
           ELSE fds[c] = {} \/ (c \in Accepted /\ fds[c] = MonitorFds)
    BY <1>0, <1>6 DEF StageFits
  <2>2. stage'[c] = "free" /\ ~ClosesMonitor(c)
    BY <1>1, <1>2, <1>6, <2>1
    DEF StageAfterClose, WaitsForKernel, ClosesMonitor, FreesConnection
  <2>3. /\ handle'[Tcp(c)] = "closed"
        /\ handle'[Monitor(c)] = "closed"
        /\ handle'[Udp(c)] = "open" <=> handle[Udp(c)] = "open"
    BY <1>6, <2>1, <2>2, ClosingHandles
  <2>4. StageFits(c)'
    BY <1>2, <2>1, <2>2, <2>3 DEF StageFits, MonitorFds, Tcp, Monitor, Udp
  <2> QED
    BY <1>6, <2>2, <2>4 DEF Stages
<1> QED
  BY <1>0, <1>3, <1>4, <1>5, <1>6 DEF Stages

\* What was closed out of order ends the process now.
LEMMA BusyCannotClose ==
  ASSUME WorkerInv, Polling, RunsClosing
  PROVE  walked # "busy"
<1> SUFFICES ASSUME walked = "busy" PROVE FALSE
  OBVIOUS
<1>p. PICK p \in Peers : TRUE
  BY WorkerAssumption
<1>1. /\ \A q \in Peers : handle[Dest(q)] = "closing"
      /\ \/ forwarding # {}
         \/ \E c \in Conns : stage[c] \in {"export", "leave", "send"}
  BY DEF WorkerInv, BusyEnds, Polling
<1>2. \A q \in Peers : Dest(q) \in Finished
  BY <1>1 DEF Finished, Handles, OfPeer
<1>3. forwarding = {}
  BY <1>2 DEF RunsClosing, CancelsWrite, WorkerInv, TypeOK
<1>4. \A c \in Conns : stage[c] # "send"
  BY <1>2 DEF RunsClosing, CancelsWrite, WorkerInv, TypeOK
<1>5. PICK c \in Conns : stage[c] \in {"export", "leave"}
  BY <1>1, <1>3, <1>4
<1>6. handle[Tcp(c)] = "closing" /\ MonitorFits(c)
  BY <1>5 DEF WorkerInv, StageFits
<1>7. Tcp(c) \in Finished
  BY <1>6, <1>p, HandleNames DEF Finished
<1>8. ClosesMonitor(c) \/ WaitsForKernel(c)
  BY <1>5, <1>7 DEF ClosesMonitor, WaitsForKernel, Conns
<1> QED
  BY <1>6, <1>8 DEF RunsClosing, MonitorFits

\* The end of an iteration.
LEMMA RunClosingInv ==
  ASSUME WorkerInv, uv__run_closing_handles
  PROVE  WorkerInv'
<1>0. Polling
  BY DEF uv__run_closing_handles
<1>1. CASE ~RunsClosing
  BY <1>0, <1>1, RunClosingAborts DEF uv__run_closing_handles, RunsClosing
<1>2. CASE RunsClosing
  <2>1. loop' \in {"done", "prepare", "poll"}
    BY <1>0 DEF uv__run_closing_handles, Abort, Polling
  <2>2. TypeOK'
    <3>1. stage' \in [Conns -> Stages]
      BY <1>2, ClosingStageFits DEF RunsClosing
    <3> QED
      BY <1>2, <2>1, <3>1, ClosingHandles DEF RunsClosing, TypeOK, WorkerInv
  <2>3. \A c \in Conns : StageFits(c)'
    BY <1>2, ClosingStageFits
  <2>4. WalkClosesAll'
    BY <1>2, ClosingHandles
    DEF WorkerInv, WalkClosesAll, RunsClosing, Signal, Dest, Handles, OfConn, OfPeer, OfWorker
  <2>5. walked # "busy" /\ walked' = walked /\ abort' = "none"
    BY <1>0, <1>2, BusyCannotClose DEF RunsClosing, Polling
  <2>6. BusyEnds'
    BY <2>5 DEF BusyEnds
  <2>7. IdleIsQuiet'
    <3> SUFFICES ASSUME walked \in {"idle", "waiting"}
                 PROVE  /\ \A c \in Conns :
                             stage'[c] \in {"none", "wait_export", "wait_close",
                                           "reclaim", "free"}
                        /\ Waiting' <=> Waiting
      BY <1>2, <2>5 DEF IdleIsQuiet, RunsClosing, WorkerInv
    <3>1. ASSUME NEW c \in Conns
          PROVE  /\ stage[c] \in {"none", "wait_export", "wait_close", "reclaim", "free"}
                 /\ stage'[c] = IF FreesConnection(c) THEN "free" ELSE stage[c]
                 /\ FreesConnection(c) => stage[c] = "reclaim"
      <4>1. stage[c] \in {"none", "wait_export", "wait_close", "reclaim", "free"}
        BY DEF WorkerInv, IdleIsQuiet
      <4>2. handle[Tcp(c)] # "closing"
        BY <4>1, TcpClosing
      <4>3. ~WaitsForKernel(c) /\ ~ClosesMonitor(c)
        BY <4>2 DEF WaitsForKernel, ClosesMonitor, Finished
      <4> QED
        BY <1>2, <4>1, <4>3 DEF RunsClosing, StageAfterClose, FreesConnection
    <3>2. Waiting' <=> Waiting
      BY <3>1 DEF Waiting
    <3> QED
      BY <3>1, <3>2
  <2>8. LiveFits'
    <3>1. Live' \subseteq Live
      BY <1>2, ClosingStageFits DEF Live, RunsClosing
    <3> QED
      BY <3>1, LiveFrame
  <2>9. StopsCleanlyIffIdle'
    <3> SUFFICES ASSUME loop' = "done"
                 PROVE  \/ walked = "idle" /\ \A c \in Conns : stage'[c] \in {"none", "free"}
                        \/ walked = "waiting" /\ Waiting'
      BY <2>5 DEF StopsCleanlyIffIdle
    <3>1. \A h \in Handles : handle'[h] \in {"none", "closed"}
      BY <1>0, <1>2 DEF uv__run_closing_handles, Abort, Polling
    <3>2. Signal \in Handles
      BY DEF Handles, OfWorker
    <3>3. walked \in {"idle", "waiting"}
      <4>1. walked # "no"
        BY <1>2, <3>1, <3>2, ClosingHandles DEF WorkerInv, WalkClosesAll
      <4> QED
        BY <2>5, <4>1 DEF WorkerInv, TypeOK
    <3>4. CASE walked = "waiting"
      BY <2>5, <2>7, <3>4 DEF IdleIsQuiet
    <3>5. CASE walked = "idle"
      <4> SUFFICES ASSUME NEW c \in Conns
                   PROVE  stage'[c] \in {"none", "free"}
        BY <3>5
      <4>1. stage'[c] \in {"none", "reclaim", "free"}
        BY <2>5, <2>7, <3>5 DEF IdleIsQuiet, Waiting
      <4>2. stage'[c] # "reclaim"
        <5>1. PICK p \in Peers : TRUE
          BY WorkerAssumption
        <5>2. handle'[Monitor(c)] \in {"none", "closed"}
          BY <3>1, <5>1, HandleNames
        <5>3. stage'[c] = "reclaim" => handle'[Monitor(c)] = "closing"
          BY <2>3 DEF StageFits, Monitor
        <5> QED
          BY <5>2, <5>3
      <4> QED
        BY <4>1, <4>2
    <3> QED
      BY <3>3, <3>4, <3>5
  <2>10. ExhaustedOnlyByLeaks'
    BY <2>5 DEF ExhaustedOnlyByLeaks
  <2> QED
    BY <2>2, <2>3, <2>4, <2>6, <2>7, <2>8, <2>9, <2>10 DEF WorkerInv
<1> QED
  BY <1>1, <1>2

-----------------------------------------------------------------------------
(* The invariant, and what follows from it.                                *)

\* The worker starts without connections.
LEMMA WorkerInit == Init => WorkerInv
<1> SUFFICES ASSUME Init PROVE WorkerInv
  OBVIOUS
<1> USE DEF Init
<1>p. PICK p \in Peers : p = CHOOSE q \in Peers : TRUE
  BY WorkerAssumption
<1>1. TypeOK
  BY <1>p DEF TypeOK, Stages
<1> DEFINE O == IF app = "bench" THEN BenchHandles ELSE KvsHandles
<1>2. \A h \in Handles : handle[h] = IF h \in O THEN "open" ELSE "none"
  OBVIOUS
<1>3. Signal \in O /\ Signal \in Handles
  BY DEF KvsHandles, BenchHandles, OfWorker, Signal, Prepare, Handles
<1>4. \A q \in Peers : Dest(q) \in O /\ Dest(q) \in Handles
  BY DEF KvsHandles, BenchHandles, OfPeer, Handles
<1>5. \A c \in Conns : \A h \in OfConn(c) : h \notin O /\ h \in Handles
  BY DEF KvsHandles, BenchHandles, OfPeer, OfWorker, OfConn, Handles, Signal, Prepare,
         Server, HandoffServer, Tcp, Monitor, Udp, Dest, ConnectTimer, HandoffClient
<1> HIDE DEF O
<1>6. \A c \in Conns : StageFits(c)
  BY <1>2, <1>5 DEF StageFits
<1>7. WalkClosesAll
  BY <1>2, <1>3, <1>4 DEF WalkClosesAll
<1>8. LiveFits
  <2>1. Live = {}
    BY DEF Live
  <2> QED
    BY <2>1, FS_EmptySet, WorkerAssumption DEF LiveFits
<1>9. BusyEnds /\ IdleIsQuiet /\ StopsCleanlyIffIdle /\ ExhaustedOnlyByLeaks
  BY DEF BusyEnds, IdleIsQuiet, StopsCleanlyIffIdle, ExhaustedOnlyByLeaks
<1> QED
  BY <1>1, <1>6, <1>7, <1>8, <1>9 DEF WorkerInv

\* A stuttering step changes nothing.
LEMMA WorkerStutters == WorkerInv /\ UNCHANGED vars => WorkerInv'
<1> SUFFICES ASSUME WorkerInv, UNCHANGED vars PROVE WorkerInv'
  OBVIOUS
<1> USE DEF vars
<1>1. TypeOK'
  BY DEF WorkerInv, TypeOK
<1>2. WalkClosesAll'
  BY DEF WorkerInv, WalkClosesAll, Signal, Dest, Handles, OfConn, OfPeer, OfWorker
<1>3. BusyEnds' /\ IdleIsQuiet'
  BY DEF WorkerInv, BusyEnds, IdleIsQuiet, Waiting, Dest
<1>4. StopsCleanlyIffIdle' /\ ExhaustedOnlyByLeaks'
  BY DEF WorkerInv, StopsCleanlyIffIdle, Waiting, ExhaustedOnlyByLeaks, MonitorFds
<1> QED
  BY <1>1, <1>2, <1>3, <1>4, QuietStep

\* Every callback keeps the invariant.
LEMMA WorkerNext == WorkerInv /\ [Next]_vars => WorkerInv'
<1> SUFFICES ASSUME WorkerInv, [Next]_vars PROVE WorkerInv'
  OBVIOUS
<1>1. CASE UNCHANGED vars
  BY <1>1, WorkerStutters
<1>2. ASSUME NEW p \in Peers,
             try_connect(p) \/ forward_proto_states(p) \/ forward_done(p)
      PROVE  WorkerInv'
  BY <1>2, ConnectInv, ForwardInv
<1>3. CASE \E c \in Accepted : on_connection(c)
  BY <1>3, AcceptInv
<1>4. CASE \E c \in Imported : continue_import(c)
  BY <1>4, ImportInv
<1>5. ASSUME NEW c \in Conns,
             \/ on_read_respond(c) \/ after_send_http_res(c)
             \/ \E p \in Peers : phttp_start_handoff(c, p)
             \/ after_configure_switch(c) \/ after_change_owner(c)
             \/ delete_done(c) \/ on_read_close(c) \/ handoff_done(c)
      PROVE  WorkerInv'
  BY <1>5, RespondInv, SentInv, StartHandoffInv, ConfiguredInv, ChownedInv, DeletedInv,
     CloseInv, HandedInv
<1>6. ASSUME NEW c \in Conns, uv_tcp_monitor_on_tcp_close(c)
      PROVE  WorkerInv'
  <2>1. after_real_close(c) \/ after_real_close_imported(c)
    BY <1>6 DEF uv_tcp_monitor_on_tcp_close
  <2> QED
    BY <1>6, <2>1, RealCloseInv, RealCloseImportedInv
<1>7. CASE (\E c \in Conns : KernelDestroy(c)) \/ on_sig
  BY <1>7, OutsideInv
<1>8. CASE uv__run_closing_handles
  BY <1>8, RunClosingInv
<1>9. CASE on_sig_walk
  BY <1>9, SignalWalkInv
<1>10. CASE on_prepare
  BY <1>10, PrepareInv
<1> QED
  BY <1>1, <1>2, <1>3, <1>4, <1>5, <1>6, <1>7, <1>8, <1>9, <1>10 DEF Next

\* The state of a worker keeps its type.
THEOREM WorkerTypes == Spec => []TypeOK
<1>1. WorkerInv => TypeOK
  BY DEF WorkerInv
<1> QED
  BY <1>1, WorkerInit, WorkerNext, PTL DEF Spec

\* uv_run returns only after the walk of a worker that was not busy, with
\* every connection released if it was idle and with one lost if it was
\* waiting for the kernel; such a walk is followed by no failing assertion,
\* but for the unset pointer of kvs-repl, and libuv's assertions fail only
\* after the walk of a busy one.
THEOREM StopsCleanly == Spec => []StopsCleanlyIffIdle
<1>1. WorkerInv => StopsCleanlyIffIdle
  BY DEF WorkerInv
<1> QED
  BY <1>1, WorkerInit, WorkerNext, PTL DEF Spec

\* No callback can reach a connection that after_close_tcp_monitor has freed.
THEOREM FreedStaysQuiet == Spec => []FreedIsQuiet
<1>1. WorkerInv => FreedIsQuiet
  BY DEF WorkerInv, StageFits, FreedIsQuiet
<1> QED
  BY <1>1, WorkerInit, WorkerNext, PTL DEF Spec

\* Only connections closed where they were accepted leak descriptors, the two
\* of their monitor.
THEOREM OnlyLocalLeaks == Spec => []LeaksOnlyLocal
<1>1. WorkerInv => LeaksOnlyLocal
  <2> SUFFICES ASSUME WorkerInv, NEW c \in Conns, stage[c] = "free"
               PROVE  fds[c] \in (IF c \in Imported THEN {{}, {"udp"}}
                                 ELSE {{}, MonitorFds})
    BY DEF LeaksOnlyLocal
  <2>1. IF handle[Udp(c)] = "open" THEN c \in Imported /\ fds[c] = {"udp"}
        ELSE fds[c] = {} \/ (c \in Accepted /\ fds[c] = MonitorFds)
    BY DEF WorkerInv, StageFits
  <2> QED
    BY <2>1, WorkerAssumption
<1> QED
  BY <1>1, WorkerInit, WorkerNext, PTL DEF Spec

\* With four descriptors for each of the connections it serves at a time a
\* worker never fails for want of one, unless some have leaked.
THEOREM LeaksExhaust == Spec => []ExhaustedOnlyByLeaks
<1>1. WorkerInv => ExhaustedOnlyByLeaks
  BY DEF WorkerInv
<1> QED
  BY <1>1, WorkerInit, WorkerNext, PTL DEF Spec

=============================================================================
