------------------------- MODULE ApplicationsProofs -------------------------
(***************************************************************************)
(* The safety properties of module Applications, for any number of         *)
(* backends, workers, clients and requests: an acknowledged operation is   *)
(* stored wherever it may be asked for, replicas agree on the order of a   *)
(* worker's PUTs, and a GET is not answered with what was overwritten      *)
(* before it was sent.                                                     *)
(*                                                                         *)
(* The operators below are written over the values of the variables, q for *)
(* chan, cl for client and d for db, because a handler reads a message,    *)
(* executes, and hands over in one step: the proof takes these apart.      *)
(***************************************************************************)
EXTENDS Applications, WellFoundedInduction, TLAPS

Channels == [Conns -> Seq(Clients)]

ClientMaps == [Clients -> ClientStates]

Stores == [Chain -> Seq(Ops)]

Statuses == {0, 200, 204, 400, 404, 405, 500}

LinksOf(a) == IF a = "kvs-repl" THEN Conns
              ELSE {x \in Conns : x[1] = 0 \/ x[2] = 0}

HoldersOf(a, key) == IF a = "kvs" THEN {Shard(key)} ELSE Chain

\* The links of the chain.
ChainLinks == {x \in Conns : x[1] # 0 /\ x[2] # 0}

OpIn(cl, c) == [c |-> c, n |-> cl[c].n, key |-> cl[c].key,
                del |-> cl[c].method = "DELETE"]

\* Place, for the operations s of a backend.
PlaceIn(s, p) ==
  IF \E i \in 1..Len(s) : s[i] = p
  THEN CHOOSE i \in 1..Len(s) : s[i] = p
  ELSE 0

\* The request of client c is among the operations s.
Executed(s, c, n) == \E i \in 1..Len(s) : s[i].c = c /\ s[i].n = n

\* A message on connection x: a request to a backend that may execute it,
\* executed so far by the backends before x in the chain and no others.
MessageFits(a, x, c, cl, d) ==
  /\ x \in LinksOf(a)
  /\ cl[c].phase = "handed"
  /\ WorkerOf[c] = x[3]
  /\ x[1] = 0 =>
       /\ a = "kvs" => x[2] = Shard(cl[c].key)
       /\ a = "kvs-repl" => /\ cl[c].method \in {"GET", "PUT", "EMPTY"}
                            /\ cl[c].method = "PUT" => x[2] = 1
  /\ x \in ChainLinks =>
       /\ cl[c].method = "PUT"
       /\ \A b \in 1..x[1] : PlaceIn(d[b], OpIn(cl, c)) # 0
  /\ \A b \in Chain :
       Executed(d[b], c, cl[c].n) => x \in ChainLinks /\ b <= x[1]

MessagesFit(a, q, cl, d) ==
  \A x \in Conns : \A i \in 1..Len(q[x]) : MessageFits(a, x, q[x][i], cl, d)

\* A client waits in one place.
OneMessage(q) ==
  \A x, y \in Conns : \A i \in 1..Len(q[x]), j \in 1..Len(q[y]) :
    q[x][i] = q[y][j] => x = y /\ i = j

\* The messages on a link of the chain are in the order of the operations of
\* the backend that sent them, and behind those that have been received.
InOrder(q, cl, d) ==
  \A x \in ChainLinks : \A i \in 1..Len(q[x]) :
    /\ \A j \in 1..Len(q[x]) :
         i < j => PlaceIn(d[x[1]], OpIn(cl, q[x][i])) < PlaceIn(d[x[1]], OpIn(cl, q[x][j]))
    /\ \A k \in 1..Len(d[x[2]]) :
         WorkerOf[d[x[2]][k].c] = x[3] =>
           PlaceIn(d[x[1]], d[x[2]][k]) < PlaceIn(d[x[1]], OpIn(cl, q[x][i]))

ChannelsFit(a, q, cl, d) ==
  /\ MessagesFit(a, q, cl, d)
  /\ OneMessage(q)
  /\ InOrder(q, cl, d)

\* A backend executes a request once, and none before it was sent.
ExecutedOnce(cl, d) ==
  \A b \in Chain :
    /\ \A i, j \in 1..Len(d[b]) : d[b][i].c = d[b][j].c /\ d[b][i].n = d[b][j].n => i = j
    /\ \A i \in 1..Len(d[b]) :
         /\ d[b][i].n <= cl[d[b][i].c].n
         /\ cl[d[b][i].c].phase = "asked" => d[b][i].n # cl[d[b][i].c].n

AckedFit(a, d, ack) ==
  \A p \in ack : \A b \in HoldersOf(a, p.key) : PlaceIn(d[b], p) # 0

BeforeFits(cl, ack) == \A c \in Clients : cl[c].before \subseteq ack

\* What the last response of a client says of the store.
ReadFits(r, d) ==
  r.phase = "idle" /\ r.n > 0 /\ r.method = "GET" /\ r.status \in {200, 404} =>
    \A p \in r.before : p.key = r.key =>
      r.at \in Chain /\ PlaceIn(d[r.at], p) \in 1..PlaceIn(d[r.at], r.val)

ReadsFit(cl, d) == \A c \in Clients : ReadFits(cl[c], d)

OrderFits(a, d) ==
  a = "kvs-repl" =>
    \A b \in Chain \ {1} : \A i, j \in 1..Len(d[b]) :
      /\ PlaceIn(d[b - 1], d[b][i]) # 0
      /\ i < j /\ WorkerOf[d[b][i].c] = WorkerOf[d[b][j].c] =>
           PlaceIn(d[b - 1], d[b][i]) < PlaceIn(d[b - 1], d[b][j])

\* What holds of the stores and the clients.
StoresFit(a, cl, d, ack) ==
  /\ ExecutedOnce(cl, d)
  /\ AckedFit(a, d, ack)
  /\ BeforeFits(cl, ack)
  /\ ReadsFit(cl, d)
  /\ OrderFits(a, d)

\* The inductive invariant.
AppInv ==
  /\ TypeOK
  /\ ChannelsFit(app, chan, client, db)
  /\ StoresFit(app, client, db, acked)

-----------------------------------------------------------------------------
(* Servers, connections and shards.                                        *)

\* A connection joins the proxy and a backend, or neighbours of the chain.
LEMMA ConnFacts ==
  ASSUME NEW x \in Conns
  PROVE  /\ x[1] \in 0..N /\ x[2] \in 0..N /\ x[3] \in Workers
         /\ x = <<x[1], x[2], x[3]>>
         /\ x[1] # x[2]
         /\ x \in ChainLinks => x[1] \in Chain /\ x[2] \in Chain /\ x[2] = x[1] + 1
         /\ x \notin ChainLinks => x[1] = 0 \/ x[2] = 0
  BY ApplicationsAssumption DEF Conns, Servers, ChainLinks, Chain

\* The shard of a path is a backend.
LEMMA ShardIsBackend ==
  ASSUME NEW k \in Keys
  PROVE  Shard(k) \in Chain
<1>1. N \in Nat \ {0} /\ Hash[k] \in Nat
  BY ApplicationsAssumption
<1>2. Hash[k] % N \in 0..(N-1)
  BY <1>1
<1> QED
  BY <1>1, <1>2 DEF Shard, Chain

-----------------------------------------------------------------------------
(* The place of an operation.                                              *)

\* An operation has a place among those executed exactly if it is one of them.
LEMMA PlaceFacts ==
  ASSUME NEW s, Len(s) \in Nat, NEW p
  PROVE  /\ PlaceIn(s, p) \in 0..Len(s)
         /\ PlaceIn(s, p) # 0 => s[PlaceIn(s, p)] = p
         /\ \A i \in 1..Len(s) : s[i] = p => PlaceIn(s, p) # 0
<1>1. CASE \E i \in 1..Len(s) : s[i] = p
  <2> DEFINE k == CHOOSE i \in 1..Len(s) : s[i] = p
  <2>1. PlaceIn(s, p) = k
    BY <1>1 DEF PlaceIn
  <2>2. k \in 1..Len(s) /\ s[k] = p
    BY <1>1
  <2> HIDE DEF k
  <2> QED
    BY <2>1, <2>2
<1>2. CASE ~ \E i \in 1..Len(s) : s[i] = p
  BY <1>2 DEF PlaceIn
<1> QED
  BY <1>1, <1>2

\* No operation is there twice.
Distinct(s) == \A i, j \in 1..Len(s) : s[i] = s[j] => i = j

\* Then the place is the only one.
LEMMA OnlyPlace ==
  ASSUME NEW s, Len(s) \in Nat, Distinct(s), NEW i \in 1..Len(s)
  PROVE  PlaceIn(s, s[i]) = i
  BY PlaceFacts DEF Distinct

\* An operation that is appended is in the last place, and the others keep
\* theirs.
LEMMA PlaceAppended ==
  ASSUME NEW S, NEW s \in Seq(S), NEW e \in S, Distinct(s),
         \A i \in 1..Len(s) : s[i] # e
  PROVE  /\ Distinct(Append(s, e))
         /\ PlaceIn(Append(s, e), e) = Len(s) + 1
         /\ \A p : PlaceIn(s, p) # 0 => PlaceIn(Append(s, e), p) = PlaceIn(s, p)
<1> DEFINE t == Append(s, e)
<1>1. /\ Len(t) = Len(s) + 1 /\ Len(s) \in Nat
      /\ t[Len(s) + 1] = e
      /\ \A i \in 1..Len(s) : t[i] = s[i]
  OBVIOUS
<1> HIDE DEF t
<1>2. Distinct(t)
  BY <1>1 DEF Distinct
<1>3. PlaceIn(t, e) = Len(s) + 1
  BY <1>1, <1>2, OnlyPlace
<1>4. ASSUME NEW p, PlaceIn(s, p) # 0
      PROVE  PlaceIn(t, p) = PlaceIn(s, p)
  <2>1. PICK i \in 1..Len(s) : i = PlaceIn(s, p) /\ s[i] = p
    BY <1>1, <1>4, PlaceFacts
  <2>2. i \in 1..Len(t) /\ t[i] = p
    BY <1>1, <2>1
  <2> QED
    BY <1>1, <1>2, <2>1, <2>2, OnlyPlace
<1> QED
  BY <1>2, <1>3, <1>4 DEF t

-----------------------------------------------------------------------------
(* The steps a handler is made of.                                         *)

Popped(q, x) == [q EXCEPT ![x] = Tail(@)]

Added(q, x, c) == [q EXCEPT ![x] = Append(@, c)]

Stored(d, b, p) == [d EXCEPT ![b] = Append(@, p)]

\* Client c has no message in q.
Absent(q, c) == \A x \in Conns : \A i \in 1..Len(q[x]) : q[x][i] # c

\* Reading a message.
LEMMA PoppedAt ==
  ASSUME NEW q \in Channels, NEW x \in Conns, q[x] # <<>>
  PROVE  /\ Popped(q, x) \in Channels
         /\ Head(q[x]) = q[x][1] /\ Head(q[x]) \in Clients
         /\ Len(q[x]) \in Nat \ {0}
         /\ \A y \in Conns \ {x} : Popped(q, x)[y] = q[y]
         /\ Len(Popped(q, x)[x]) = Len(q[x]) - 1
         /\ \A i \in 1..Len(Popped(q, x)[x]) : Popped(q, x)[x][i] = q[x][i + 1]
<1>1. q[x] \in Seq(Clients)
  BY DEF Channels
<1>2. /\ Tail(q[x]) \in Seq(Clients) /\ Len(Tail(q[x])) = Len(q[x]) - 1
      /\ Head(q[x]) = q[x][1] /\ Head(q[x]) \in Clients
      /\ Len(q[x]) \in Nat \ {0}
      /\ \A i \in 1..Len(Tail(q[x])) : Tail(q[x])[i] = q[x][i + 1]
  BY <1>1
<1>3. /\ Popped(q, x) \in Channels
      /\ Popped(q, x)[x] = Tail(q[x])
      /\ \A y \in Conns \ {x} : Popped(q, x)[y] = q[y]
  BY <1>2 DEF Popped, Channels
<1> QED
  BY <1>2, <1>3

\* Writing a message.
LEMMA AddedAt ==
  ASSUME NEW q \in Channels, NEW x \in Conns, NEW c \in Clients
  PROVE  /\ Added(q, x, c) \in Channels
         /\ Len(q[x]) \in Nat
         /\ \A y \in Conns \ {x} : Added(q, x, c)[y] = q[y]
         /\ Len(Added(q, x, c)[x]) = Len(q[x]) + 1
         /\ Added(q, x, c)[x][Len(q[x]) + 1] = c
         /\ \A i \in 1..Len(q[x]) : Added(q, x, c)[x][i] = q[x][i]
<1>1. q[x] \in Seq(Clients)
  BY DEF Channels
<1>2. /\ Append(q[x], c) \in Seq(Clients) /\ Len(Append(q[x], c)) = Len(q[x]) + 1
      /\ Len(q[x]) \in Nat
      /\ Append(q[x], c)[Len(q[x]) + 1] = c
      /\ \A i \in 1..Len(q[x]) : Append(q[x], c)[i] = q[x][i]
  BY <1>1
<1>3. /\ Added(q, x, c) \in Channels
      /\ Added(q, x, c)[x] = Append(q[x], c)
      /\ \A y \in Conns \ {x} : Added(q, x, c)[y] = q[y]
  BY <1>2 DEF Added, Channels
<1> QED
  BY <1>2, <1>3

\* Executing an operation.
LEMMA StoredAt ==
  ASSUME NEW d \in Stores, NEW b \in Chain, NEW p \in Ops
  PROVE  /\ Stored(d, b, p) \in Stores
         /\ Len(d[b]) \in Nat
         /\ \A e \in Chain \ {b} : Stored(d, b, p)[e] = d[e]
         /\ Stored(d, b, p)[b] = Append(d[b], p)
         /\ Len(Stored(d, b, p)[b]) = Len(d[b]) + 1
         /\ Stored(d, b, p)[b][Len(d[b]) + 1] = p
         /\ \A i \in 1..Len(d[b]) : Stored(d, b, p)[b][i] = d[b][i]
<1>1. d[b] \in Seq(Ops)
  BY DEF Stores
<1>2. /\ Append(d[b], p) \in Seq(Ops) /\ Len(Append(d[b], p)) = Len(d[b]) + 1
      /\ Len(d[b]) \in Nat
      /\ Append(d[b], p)[Len(d[b]) + 1] = p
      /\ \A i \in 1..Len(d[b]) : Append(d[b], p)[i] = d[b][i]
  BY <1>1
<1>3. /\ Stored(d, b, p) \in Stores
      /\ Stored(d, b, p)[b] = Append(d[b], p)
      /\ \A e \in Chain \ {b} : Stored(d, b, p)[e] = d[e]
  BY <1>2 DEF Stored, Stores
<1> QED
  BY <1>2, <1>3

\* The invariants of the channels survive reading a message, and its client
\* has no other.
LEMMA PopFits ==
  ASSUME NEW a, NEW q \in Channels, NEW cl, NEW d, NEW x \in Conns, q[x] # <<>>,
         ChannelsFit(a, q, cl, d)
  PROVE  /\ ChannelsFit(a, Popped(q, x), cl, d)
         /\ Absent(Popped(q, x), Head(q[x]))
<1> DEFINE r == Popped(q, x)  Old(y, i) == IF y = x THEN i + 1 ELSE i
<1>1. \A y \in Conns : \A i \in 1..Len(r[y]) :
        /\ i \in Nat
        /\ Old(y, i) \in 1..Len(q[y])
        /\ r[y][i] = q[y][Old(y, i)]
  <2> SUFFICES ASSUME NEW y \in Conns, NEW i \in 1..Len(r[y])
               PROVE  /\ Old(y, i) \in 1..Len(q[y])
                      /\ r[y][i] = q[y][Old(y, i)]
    OBVIOUS
  <2>1. CASE y = x
    BY <2>1, PoppedAt
  <2>2. CASE y # x
    BY <2>2, PoppedAt
  <2> QED
    BY <2>1, <2>2
<1>2. /\ Head(q[x]) = q[x][1] /\ 1 \in 1..Len(q[x])
  BY PoppedAt
<1> HIDE DEF r
<1>3. MessagesFit(a, r, cl, d)
  BY <1>1 DEF ChannelsFit, MessagesFit
<1>4. OneMessage(r)
  <2> SUFFICES ASSUME NEW y \in Conns, NEW z \in Conns, NEW i \in 1..Len(r[y]),
                      NEW j \in 1..Len(r[z]), r[y][i] = r[z][j]
               PROVE  y = z /\ i = j
    BY DEF OneMessage
  <2>1. q[y][Old(y, i)] = q[z][Old(z, j)]
    BY <1>1
  <2>2. y = z /\ Old(y, i) = Old(z, j)
    <3> HIDE DEF Old
    <3> QED
      BY <1>1, <2>1 DEF ChannelsFit, OneMessage
  <2> QED
    BY <1>1, <2>2
<1>5. InOrder(r, cl, d)
  <2> SUFFICES ASSUME NEW y \in ChainLinks, NEW i \in 1..Len(r[y])
               PROVE  /\ \A j \in 1..Len(r[y]) : i < j =>
                           PlaceIn(d[y[1]], OpIn(cl, r[y][i]))
                             < PlaceIn(d[y[1]], OpIn(cl, r[y][j]))
                      /\ \A k \in 1..Len(d[y[2]]) :
                           WorkerOf[d[y[2]][k].c] = y[3] =>
                             PlaceIn(d[y[1]], d[y[2]][k])
                               < PlaceIn(d[y[1]], OpIn(cl, r[y][i]))
    BY DEF InOrder
  <2>1. y \in Conns
    BY DEF ChainLinks
  <2>2. \A j \in 1..Len(r[y]) : i < j => Old(y, i) < Old(y, j)
    BY <1>1, <2>1
  <2> HIDE DEF Old
  <2> QED
    BY <1>1, <2>1, <2>2, SMTT(30) DEF ChannelsFit, InOrder
<1>6. Absent(r, Head(q[x]))
  <2> SUFFICES ASSUME NEW y \in Conns, NEW i \in 1..Len(r[y])
               PROVE  r[y][i] # q[x][1]
    BY <1>2 DEF Absent
  <2>1. q[y][Old(y, i)] = q[x][1] => y = x /\ Old(y, i) = 1
    BY <1>1, <1>2 DEF ChannelsFit, OneMessage
  <2> QED
    BY <1>1, <2>1
<1> QED
  BY <1>3, <1>4, <1>5, <1>6 DEF ChannelsFit, r

\* What happens to a client without a message does not matter to them.
LEMMA ClientFits ==
  ASSUME NEW a, NEW q \in Channels, NEW cl, NEW d, NEW c \in Clients,
         ChannelsFit(a, q, cl, d), Absent(q, c),
         NEW cl2, \A e \in Clients \ {c} : cl2[e] = cl[e]
  PROVE  ChannelsFit(a, q, cl2, d)
<1>1. \A x \in Conns : \A i \in 1..Len(q[x]) :
        /\ cl2[q[x][i]] = cl[q[x][i]]
        /\ OpIn(cl2, q[x][i]) = OpIn(cl, q[x][i])
  <2> SUFFICES ASSUME NEW x \in Conns, NEW i \in 1..Len(q[x])
               PROVE  cl2[q[x][i]] = cl[q[x][i]]
    BY DEF OpIn
  <2>1. q[x][i] \in Clients \ {c}
    BY DEF Channels, Absent
  <2> QED
    BY <2>1
<1>2. MessagesFit(a, q, cl2, d)
  BY <1>1 DEF ChannelsFit, MessagesFit, MessageFits
<1>3. InOrder(q, cl2, d)
  BY <1>1 DEF ChannelsFit, InOrder, ChainLinks
<1> QED
  BY <1>2, <1>3 DEF ChannelsFit

\* The message of c goes behind those on a link of the chain.
Last(x, c, q, cl, d) ==
  x \in ChainLinks =>
    /\ \A i \in 1..Len(q[x]) :
         PlaceIn(d[x[1]], OpIn(cl, q[x][i])) < PlaceIn(d[x[1]], OpIn(cl, c))
    /\ \A k \in 1..Len(d[x[2]]) :
         WorkerOf[d[x[2]][k].c] = x[3] =>
           PlaceIn(d[x[1]], d[x[2]][k]) < PlaceIn(d[x[1]], OpIn(cl, c))

\* The invariants survive the message of a client that has no other.
LEMMA AddFits ==
  ASSUME NEW a, NEW q \in Channels, NEW cl, NEW d, NEW x \in Conns, NEW c \in Clients,
         ChannelsFit(a, q, cl, d), Absent(q, c),
         MessageFits(a, x, c, cl, d), Last(x, c, q, cl, d)
  PROVE  ChannelsFit(a, Added(q, x, c), cl, d)
<1> DEFINE r == Added(q, x, c)
<1>1. \A y \in Conns : \A i \in 1..Len(r[y]) :
        /\ i \in Nat
        /\ \/ i \in 1..Len(q[y]) /\ r[y][i] = q[y][i]
           \/ y = x /\ i = Len(q[x]) + 1 /\ r[y][i] = c
  <2> SUFFICES ASSUME NEW y \in Conns, NEW i \in 1..Len(r[y])
               PROVE  \/ i \in 1..Len(q[y]) /\ r[y][i] = q[y][i]
                      \/ y = x /\ i = Len(q[x]) + 1 /\ r[y][i] = c
    OBVIOUS
  <2>1. CASE y = x
    BY <2>1, AddedAt
  <2>2. CASE y # x
    BY <2>2, AddedAt
  <2> QED
    BY <2>1, <2>2
<1>2. Len(q[x]) \in Nat
  BY AddedAt
<1> HIDE DEF r
<1>3. MessagesFit(a, r, cl, d)
  BY <1>1 DEF ChannelsFit, MessagesFit
<1>4. OneMessage(r)
  <2> SUFFICES ASSUME NEW y \in Conns, NEW z \in Conns, NEW i \in 1..Len(r[y]),
                      NEW j \in 1..Len(r[z]), r[y][i] = r[z][j]
               PROVE  y = z /\ i = j
    BY DEF OneMessage
  <2>1. CASE i \in 1..Len(q[y]) /\ r[y][i] = q[y][i]
    <3>1. r[y][i] # c
      BY <2>1 DEF Absent
    <3>2. j \in 1..Len(q[z]) /\ r[z][j] = q[z][j]
      BY <1>1, <3>1
    <3>3. i \in 1..Len(q[y]) /\ j \in 1..Len(q[z]) /\ q[y][i] = q[z][j]
      BY <2>1, <3>2
    <3>4. OneMessage(q)
      BY DEF ChannelsFit
    <3> QED
      BY <3>3, <3>4 DEF OneMessage
  <2>2. CASE y = x /\ i = Len(q[x]) + 1 /\ r[y][i] = c
    <3>1. ~(j \in 1..Len(q[z]) /\ r[z][j] = q[z][j])
      BY <2>2 DEF Absent
    <3> QED
      BY <1>1, <2>2, <3>1
  <2> QED
    BY <1>1, <2>1, <2>2
<1>5. InOrder(r, cl, d)
  <2> SUFFICES ASSUME NEW y \in ChainLinks, NEW i \in 1..Len(r[y])
               PROVE  /\ \A j \in 1..Len(r[y]) : i < j =>
                           PlaceIn(d[y[1]], OpIn(cl, r[y][i]))
                             < PlaceIn(d[y[1]], OpIn(cl, r[y][j]))
                      /\ \A k \in 1..Len(d[y[2]]) :
                           WorkerOf[d[y[2]][k].c] = y[3] =>
                             PlaceIn(d[y[1]], d[y[2]][k])
                               < PlaceIn(d[y[1]], OpIn(cl, r[y][i]))
    BY DEF InOrder
  <2>1. y \in Conns
    BY DEF ChainLinks
  <2>2. CASE i \in 1..Len(q[y]) /\ r[y][i] = q[y][i]
    <3>1. ASSUME NEW j \in 1..Len(r[y]), i < j
          PROVE  PlaceIn(d[y[1]], OpIn(cl, r[y][i]))
                   < PlaceIn(d[y[1]], OpIn(cl, r[y][j]))
      <4>1. CASE j \in 1..Len(q[y]) /\ r[y][j] = q[y][j]
        BY <2>2, <3>1, <4>1 DEF ChannelsFit, InOrder
      <4>2. CASE y = x /\ r[y][j] = c
        BY <2>2, <4>2 DEF Last
      <4> QED
        BY <1>1, <2>1, <4>1, <4>2
    <3> QED
      BY <2>2, <3>1 DEF ChannelsFit, InOrder
  <2>3. CASE y = x /\ i = Len(q[x]) + 1 /\ r[y][i] = c
    <3>1. \A j \in 1..Len(r[y]) : ~(i < j)
      BY <1>1, <1>2, <2>1, <2>3
    <3> QED
      BY <2>3, <3>1 DEF Last
  <2> QED
    BY <1>1, <2>1, <2>2, <2>3
<1> QED
  BY <1>3, <1>4, <1>5 DEF ChannelsFit, r

\* Backend b has read the message of c: what the message said of the stores.
Received(a, q, cl, d, b, c) ==
  /\ Absent(q, c)
  /\ cl[c].phase = "handed"
  /\ \A e \in Chain : Executed(d[e], c, cl[c].n) => e < b
  /\ a = "kvs" => b = Shard(cl[c].key)
  /\ a = "kvs-repl" => cl[c].method \in {"GET", "PUT", "EMPTY"}
  /\ a = "kvs-repl" /\ cl[c].method = "PUT" =>
       /\ \A e \in 1..(b - 1) : PlaceIn(d[e], OpIn(cl, c)) # 0
       /\ b # 1 =>
            \A k \in 1..Len(d[b]) : WorkerOf[d[b][k].c] = WorkerOf[c] =>
              PlaceIn(d[b - 1], d[b][k]) < PlaceIn(d[b - 1], OpIn(cl, c))
       /\ \A x \in ChainLinks : x[2] = b /\ x[3] = WorkerOf[c] =>
            \A i \in 1..Len(q[x]) :
              PlaceIn(d[x[1]], OpIn(cl, c)) < PlaceIn(d[x[1]], OpIn(cl, q[x][i]))

\* phttp_on_handoff at a backend.
LEMMA PopReceived ==
  ASSUME NEW a, NEW q \in Channels, NEW cl, NEW d, NEW x \in Conns, q[x] # <<>>,
         ChannelsFit(a, q, cl, d), x[2] # 0
  PROVE  Received(a, Popped(q, x), cl, d, x[2], Head(q[x]))
<1> DEFINE c == q[x][1]  r == Popped(q, x)  b == x[2]
<1>0. /\ Head(q[x]) = c /\ c \in Clients /\ 1 \in 1..Len(q[x])
      /\ Len(q[x]) \in Nat \ {0}
  BY PoppedAt
<1>1. Absent(r, c)
  BY <1>0, PopFits
<1>2. MessageFits(a, x, c, cl, d)
  BY <1>0 DEF ChannelsFit, MessagesFit
<1>3. /\ x[1] \in 0..N /\ b \in 1..N /\ N \in Nat
      /\ x = <<x[1], b, x[3]>>
      /\ x \in ChainLinks => b = x[1] + 1
      /\ x \notin ChainLinks => x[1] = 0
  BY ConnFacts, ApplicationsAssumption
<1>4. cl[c].phase = "handed" /\ WorkerOf[c] = x[3]
  BY <1>2 DEF MessageFits
<1>5. \A e \in Chain : Executed(d[e], c, cl[c].n) => e < b
  BY <1>2, <1>3 DEF MessageFits, Chain
<1>6. a = "kvs" => b = Shard(cl[c].key)
  BY <1>2, <1>3 DEF MessageFits, LinksOf
<1>7. a = "kvs-repl" => cl[c].method \in {"GET", "PUT", "EMPTY"}
  BY <1>2, <1>3 DEF MessageFits
<1>8. ASSUME a = "kvs-repl", cl[c].method = "PUT"
      PROVE  /\ \A e \in 1..(b - 1) : PlaceIn(d[e], OpIn(cl, c)) # 0
             /\ b # 1 =>
                  \A k \in 1..Len(d[b]) : WorkerOf[d[b][k].c] = WorkerOf[c] =>
                    PlaceIn(d[b - 1], d[b][k]) < PlaceIn(d[b - 1], OpIn(cl, c))
             /\ \A y \in ChainLinks : y[2] = b /\ y[3] = WorkerOf[c] =>
                  \A i \in 1..Len(r[y]) :
                    PlaceIn(d[y[1]], OpIn(cl, c)) < PlaceIn(d[y[1]], OpIn(cl, r[y][i]))
  <2>1. CASE x \notin ChainLinks
    <3>1. b = 1
      BY <1>2, <1>3, <1>8, <2>1 DEF MessageFits
    <3>2. \A y \in ChainLinks : y[2] # b
      <4>1. \A y \in ChainLinks : y[2] = y[1] + 1 /\ y[1] \in Chain
        BY ConnFacts DEF ChainLinks
      <4> QED
        BY <3>1, <4>1 DEF Chain
    <3> QED
      BY <3>1, <3>2
  <2>2. CASE x \in ChainLinks
    <3>1. x[1] = b - 1
      BY <1>3, <2>2
    <3>2. \A e \in 1..(b - 1) : PlaceIn(d[e], OpIn(cl, c)) # 0
      BY <1>2, <2>2, <3>1 DEF MessageFits
    <3>3. \A k \in 1..Len(d[b]) : WorkerOf[d[b][k].c] = WorkerOf[c] =>
            PlaceIn(d[b - 1], d[b][k]) < PlaceIn(d[b - 1], OpIn(cl, c))
      BY <1>0, <1>4, <2>2, <3>1 DEF ChannelsFit, InOrder
    <3>4. ASSUME NEW y \in ChainLinks, y[2] = b, y[3] = WorkerOf[c],
                 NEW i \in 1..Len(r[y])
          PROVE  PlaceIn(d[y[1]], OpIn(cl, c)) < PlaceIn(d[y[1]], OpIn(cl, r[y][i]))
      <4>1. y \in Conns /\ y[2] = y[1] + 1 /\ y = <<y[1], y[2], y[3]>> /\ y[1] \in 0..N
        BY ConnFacts DEF ChainLinks
      <4>2. y = x
        BY <1>3, <1>4, <2>2, <3>1, <3>4, <4>1
      <4>3. r[x][i] = q[x][i + 1] /\ i + 1 \in 1..Len(q[x]) /\ 1 < i + 1
        BY <1>0, <4>2, PoppedAt
      <4> QED
        BY <1>0, <2>2, <4>2, <4>3 DEF ChannelsFit, InOrder
    <3> QED
      BY <3>2, <3>3, <3>4
  <2> QED
    BY <2>1, <2>2
<1> QED
  BY <1>0, <1>1, <1>4, <1>5, <1>6, <1>7, <1>8 DEF Received

\* The operations of a backend are distinct.
LEMMA StoreDistinct ==
  ASSUME NEW cl, NEW d \in Stores, ExecutedOnce(cl, d), NEW b \in Chain
  PROVE  Distinct(d[b])
  BY DEF ExecutedOnce, Distinct

\* The operation of a client's request.
LEMMA OpType ==
  ASSUME NEW cl \in ClientMaps, NEW c \in Clients
  PROVE  /\ OpIn(cl, c) \in Ops
         /\ OpIn(cl, c).c = c /\ OpIn(cl, c).n = cl[c].n
         /\ OpIn(cl, c).key = cl[c].key
         /\ cl[c].n \in Nat
  BY DEF ClientMaps, ClientStates, OpIn, Ops

\* A PUT or a DELETE that backend b has received is executed.
ToExecute(a, q, cl, d, b, c) ==
  /\ a \in {"kvs-repl", "kvs"}
  /\ a = "kvs-repl" => cl[c].method = "PUT"
  /\ Received(a, q, cl, d, b, c)

\* Operation p is new in backend b, and the others stay where they were.
Placed(d, d2, b, p) ==
  /\ PlaceIn(d2[b], p) = Len(d[b]) + 1
  /\ \A e \in Chain : \A r : PlaceIn(d[e], r) # 0 =>
       PlaceIn(d2[e], r) = PlaceIn(d[e], r)

\* So it is with the operation of a request.
LEMMA StorePlaces ==
  ASSUME NEW a, NEW q, NEW cl \in ClientMaps, NEW d \in Stores, NEW ack,
         NEW b \in Chain, NEW c \in Clients,
         StoresFit(a, cl, d, ack), Received(a, q, cl, d, b, c)
  PROVE  Placed(d, Stored(d, b, OpIn(cl, c)), b, OpIn(cl, c))
<1> DEFINE op == OpIn(cl, c)
<1>1. op \in Ops /\ op.c = c /\ op.n = cl[c].n
  BY OpType
<1>2. d[b] \in Seq(Ops) /\ Distinct(d[b])
  BY StoreDistinct DEF Stores, StoresFit
<1>3. \A i \in 1..Len(d[b]) : d[b][i] # op
  <2>1. ~Executed(d[b], c, cl[c].n)
    BY DEF Received, Chain
  <2> QED
    BY <1>1, <2>1 DEF Executed
<1> HIDE DEF op
<1>4. /\ PlaceIn(Append(d[b], op), op) = Len(d[b]) + 1
      /\ \A p : PlaceIn(d[b], p) # 0 => PlaceIn(Append(d[b], op), p) = PlaceIn(d[b], p)
  BY <1>1, <1>2, <1>3, PlaceAppended
<1>5. /\ Stored(d, b, op)[b] = Append(d[b], op)
      /\ \A e \in Chain \ {b} : Stored(d, b, op)[e] = d[e]
  BY <1>1, StoredAt
<1> QED
  BY <1>4, <1>5 DEF op, Placed

\* The channels after an operation was executed.
LEMMA StoreChannels ==
  ASSUME NEW a, NEW q \in Channels, NEW cl \in ClientMaps, NEW d \in Stores, NEW ack,
         NEW b \in Chain, NEW c \in Clients,
         ChannelsFit(a, q, cl, d), StoresFit(a, cl, d, ack),
         ToExecute(a, q, cl, d, b, c)
  PROVE  ChannelsFit(a, q, cl, Stored(d, b, OpIn(cl, c)))
<1> DEFINE op == OpIn(cl, c)  d2 == Stored(d, b, op)
<1>1. op \in Ops /\ op.c = c /\ op.n = cl[c].n
  BY OpType
<1>2. /\ d2 \in Stores
      /\ Len(d[b]) \in Nat
      /\ \A e \in Chain \ {b} : d2[e] = d[e]
      /\ Len(d2[b]) = Len(d[b]) + 1
      /\ d2[b][Len(d[b]) + 1] = op
      /\ \A i \in 1..Len(d[b]) : d2[b][i] = d[b][i]
  BY <1>1, StoredAt
<1>r. Received(a, q, cl, d, b, c)
  BY DEF ToExecute
<1>3. \A e \in Chain : \A p : PlaceIn(d[e], p) # 0 => PlaceIn(d2[e], p) = PlaceIn(d[e], p)
  <2>1. Placed(d, d2, b, op)
    BY <1>r, StorePlaces
  <2> QED
    BY <2>1 DEF Placed
<1> HIDE DEF op, d2
<1>4. ASSUME NEW x \in Conns, NEW i \in 1..Len(q[x])
      PROVE  MessageFits(a, x, q[x][i], cl, d2)
  <2> DEFINE m == q[x][i]
  <2>1. MessageFits(a, x, m, cl, d)
    BY DEF ChannelsFit, MessagesFit
  <2>2. m # c
    BY <1>r DEF Received, Absent
  <2> HIDE DEF m
  <2>3. ASSUME NEW e \in Chain, Executed(d2[e], m, cl[m].n)
        PROVE  Executed(d[e], m, cl[m].n)
    <3>1. CASE e # b
      BY <1>2, <2>3, <3>1
    <3>2. CASE e = b
      <4>1. PICK k \in 1..Len(d2[b]) : d2[b][k].c = m /\ d2[b][k].n = cl[m].n
        BY <2>3, <3>2 DEF Executed
      <4>2. k # Len(d[b]) + 1
        BY <1>1, <1>2, <2>2, <4>1
      <4>3. k \in 1..Len(d[b])
        BY <1>2, <4>1, <4>2
      <4> QED
        BY <1>2, <3>2, <4>1, <4>3 DEF Executed
    <3> QED
      BY <3>1, <3>2
  <2>4. ASSUME x \in ChainLinks, NEW e \in 1..x[1]
        PROVE  PlaceIn(d2[e], OpIn(cl, m)) # 0
    <3>1. e \in Chain
      <4>1. x[1] \in Chain
        BY <2>4, ConnFacts
      <4> QED
        BY <4>1, ApplicationsAssumption DEF Chain
    <3>2. PlaceIn(d[e], OpIn(cl, m)) # 0
      BY <2>1, <2>4 DEF MessageFits
    <3> QED
      BY <1>3, <3>1, <3>2
  <2> QED
    BY <2>1, <2>3, <2>4 DEF MessageFits, m
<1>5. InOrder(q, cl, d2)
  <2> SUFFICES ASSUME NEW x \in ChainLinks, NEW i \in 1..Len(q[x])
               PROVE  /\ \A j \in 1..Len(q[x]) : i < j =>
                           PlaceIn(d2[x[1]], OpIn(cl, q[x][i]))
                             < PlaceIn(d2[x[1]], OpIn(cl, q[x][j]))
                      /\ \A k \in 1..Len(d2[x[2]]) :
                           WorkerOf[d2[x[2]][k].c] = x[3] =>
                             PlaceIn(d2[x[1]], d2[x[2]][k])
                               < PlaceIn(d2[x[1]], OpIn(cl, q[x][i]))
    BY DEF InOrder
  <2>1. /\ x \in Conns /\ x[1] \in Chain /\ x[2] \in Chain /\ x[2] = x[1] + 1
        /\ x[1] \in 1..x[1] /\ x[1] \in Nat
    BY ConnFacts, ApplicationsAssumption DEF ChainLinks, Chain
  <2>2. \A j \in 1..Len(q[x]) :
          PlaceIn(d2[x[1]], OpIn(cl, q[x][j])) = PlaceIn(d[x[1]], OpIn(cl, q[x][j]))
    <3> TAKE j \in 1..Len(q[x])
    <3>1. PlaceIn(d[x[1]], OpIn(cl, q[x][j])) # 0
      BY <2>1 DEF ChannelsFit, MessagesFit, MessageFits
    <3> QED
      BY <1>3, <2>1, <3>1
  <2>3. a = "kvs-repl"
    <3>1. x \in LinksOf(a)
      BY <2>1 DEF ChannelsFit, MessagesFit, MessageFits
    <3> QED
      BY <3>1 DEF LinksOf, ChainLinks
  <2>4. ASSUME NEW k \in 1..Len(d[x[2]])
        PROVE  PlaceIn(d2[x[1]], d[x[2]][k]) = PlaceIn(d[x[1]], d[x[2]][k])
    <3>1. x[2] \in Chain \ {1} /\ x[1] = x[2] - 1
      BY <2>1 DEF Chain
    <3>2. PlaceIn(d[x[1]], d[x[2]][k]) # 0
      BY <2>3, <3>1 DEF StoresFit, OrderFits
    <3> QED
      BY <1>3, <2>1, <3>2
  <2>5. ASSUME NEW k \in 1..Len(d2[x[2]]), WorkerOf[d2[x[2]][k].c] = x[3]
        PROVE  PlaceIn(d2[x[1]], d2[x[2]][k]) < PlaceIn(d2[x[1]], OpIn(cl, q[x][i]))
    <3>1. CASE k \in 1..Len(d[x[2]]) /\ d2[x[2]][k] = d[x[2]][k]
      <4>1. PlaceIn(d[x[1]], d[x[2]][k]) < PlaceIn(d[x[1]], OpIn(cl, q[x][i]))
        BY <2>5, <3>1 DEF ChannelsFit, InOrder
      <4> QED
        BY <2>2, <2>4, <3>1, <4>1
    <3>2. CASE x[2] = b /\ d2[x[2]][k] = op
      <4>1. d2[x[1]] = d[x[1]]
        BY <1>2, <2>1, <3>2
      <4>2. cl[c].method = "PUT" /\ WorkerOf[c] = x[3]
        BY <1>1, <2>3, <2>5, <3>2 DEF ToExecute
      <4>3. PlaceIn(d[x[1]], op) < PlaceIn(d[x[1]], OpIn(cl, q[x][i]))
        BY <1>r, <2>3, <3>2, <4>2 DEF Received, op
      <4> QED
        BY <3>2, <4>1, <4>3
    <3>3. \/ k \in 1..Len(d[x[2]]) /\ d2[x[2]][k] = d[x[2]][k]
          \/ x[2] = b /\ d2[x[2]][k] = op
      <4>1. CASE x[2] # b
        BY <1>2, <2>1, <4>1
      <4>2. CASE x[2] = b
        BY <1>2, <4>2
      <4> QED
        BY <4>1, <4>2
    <3> QED
      BY <3>1, <3>2, <3>3
  <2> QED
    BY <2>2, <2>5 DEF ChannelsFit, InOrder
<1> QED
  BY <1>4, <1>5 DEF ChannelsFit, MessagesFit, d2, op

\* The stores after an operation was executed.
LEMMA StoreStores ==
  ASSUME NEW a, NEW q, NEW cl \in ClientMaps, NEW d \in Stores, NEW ack \in SUBSET Ops,
         NEW b \in Chain, NEW c \in Clients,
         StoresFit(a, cl, d, ack), ToExecute(a, q, cl, d, b, c)
  PROVE  StoresFit(a, cl, Stored(d, b, OpIn(cl, c)), ack)
<1> DEFINE op == OpIn(cl, c)  d2 == Stored(d, b, op)
<1>1. op \in Ops /\ op.c = c /\ op.n = cl[c].n /\ cl[c].n \in Nat
  BY OpType
<1>2. /\ d2 \in Stores
      /\ Len(d[b]) \in Nat
      /\ \A e \in Chain \ {b} : d2[e] = d[e]
      /\ Len(d2[b]) = Len(d[b]) + 1
      /\ d2[b][Len(d[b]) + 1] = op
      /\ \A i \in 1..Len(d[b]) : d2[b][i] = d[b][i]
  BY <1>1, StoredAt
<1>r. Received(a, q, cl, d, b, c)
  BY DEF ToExecute
<1>3. \A e \in Chain : \A p : PlaceIn(d[e], p) # 0 => PlaceIn(d2[e], p) = PlaceIn(d[e], p)
  <2>1. Placed(d, d2, b, op)
    BY <1>r, StorePlaces
  <2> QED
    BY <2>1 DEF Placed
<1> HIDE DEF op, d2
<1>k. \A k \in 1..Len(d2[b]) :
        \/ k \in 1..Len(d[b]) /\ d2[b][k] = d[b][k]
        \/ k = Len(d[b]) + 1 /\ d2[b][k] = op
  BY <1>2
<1>n. ~Executed(d[b], c, cl[c].n)
  BY <1>r DEF Received, Chain
<1>4. ExecutedOnce(cl, d2)
  <2> SUFFICES ASSUME NEW e \in Chain
               PROVE  /\ \A i, j \in 1..Len(d2[e]) :
                           d2[e][i].c = d2[e][j].c /\ d2[e][i].n = d2[e][j].n => i = j
                      /\ \A i \in 1..Len(d2[e]) :
                           /\ d2[e][i].n <= cl[d2[e][i].c].n
                           /\ cl[d2[e][i].c].phase = "asked" =>
                                d2[e][i].n # cl[d2[e][i].c].n
    BY DEF ExecutedOnce
  <2>0. ExecutedOnce(cl, d)
    BY DEF StoresFit
  <2>1. CASE e # b
    BY <1>2, <2>0, <2>1 DEF ExecutedOnce
  <2>2. CASE e = b
    <3>1. ASSUME NEW i \in 1..Len(d2[b])
          PROVE  /\ d2[b][i].n <= cl[d2[b][i].c].n
                 /\ cl[d2[b][i].c].phase = "asked" => d2[b][i].n # cl[d2[b][i].c].n
      <4>1. CASE i \in 1..Len(d[b]) /\ d2[b][i] = d[b][i]
        BY <2>0, <4>1 DEF ExecutedOnce
      <4>2. CASE d2[b][i] = op
        BY <1>1, <1>r, <4>2 DEF Received
      <4> QED
        BY <1>k, <4>1, <4>2
    <3>2. ASSUME NEW i \in 1..Len(d2[b]), NEW j \in 1..Len(d2[b]),
                 d2[b][i].c = d2[b][j].c, d2[b][i].n = d2[b][j].n
          PROVE  i = j
      <4>1. CASE i \in 1..Len(d[b]) /\ d2[b][i] = d[b][i]
        <5>1. d2[b][j] # op
          BY <1>1, <1>n, <3>2, <4>1 DEF Executed
        <5>2. j \in 1..Len(d[b]) /\ d2[b][j] = d[b][j]
          BY <1>k, <5>1
        <5> QED
          BY <2>0, <3>2, <4>1, <5>2 DEF ExecutedOnce
      <4>2. CASE i = Len(d[b]) + 1 /\ d2[b][i] = op
        <5>1. ~(j \in 1..Len(d[b]) /\ d2[b][j] = d[b][j])
          BY <1>1, <1>n, <3>2, <4>2 DEF Executed
        <5> QED
          BY <1>k, <4>2, <5>1
      <4> QED
        BY <1>k, <4>1, <4>2
    <3> QED
      BY <2>2, <3>1, <3>2
  <2> QED
    BY <2>1, <2>2
<1>5. AckedFit(a, d2, ack)
  <2> SUFFICES ASSUME NEW p \in ack, NEW e \in HoldersOf(a, p.key)
               PROVE  PlaceIn(d2[e], p) # 0
    BY DEF AckedFit
  <2>1. p.key \in Keys
    BY DEF Ops
  <2>2. e \in Chain
    BY <2>1, ShardIsBackend DEF HoldersOf
  <2> QED
    BY <1>3, <2>2 DEF StoresFit, AckedFit
<1>6. ReadsFit(cl, d2)
  <2> SUFFICES ASSUME NEW e \in Clients PROVE ReadFits(cl[e], d2)
    BY DEF ReadsFit
  <2>0. ReadFits(cl[e], d)
    BY DEF StoresFit, ReadsFit
  <2>1. ASSUME NEW p, cl[e].at \in Chain,
               PlaceIn(d[cl[e].at], p) \in 1..PlaceIn(d[cl[e].at], cl[e].val)
        PROVE  PlaceIn(d2[cl[e].at], p) \in 1..PlaceIn(d2[cl[e].at], cl[e].val)
    <3>1. d[cl[e].at] \in Seq(Ops)
      BY <2>1 DEF Stores
    <3>2. PlaceIn(d[cl[e].at], p) # 0 /\ PlaceIn(d[cl[e].at], cl[e].val) # 0
      BY <2>1, <3>1, PlaceFacts
    <3> QED
      BY <1>3, <2>1, <3>2
  <2> QED
    BY <2>0, <2>1 DEF ReadFits
<1>7. OrderFits(a, d2)
  <2> SUFFICES ASSUME a = "kvs-repl", NEW e \in Chain \ {1},
                      NEW i \in 1..Len(d2[e]), NEW j \in 1..Len(d2[e])
               PROVE  /\ PlaceIn(d2[e - 1], d2[e][i]) # 0
                      /\ i < j /\ WorkerOf[d2[e][i].c] = WorkerOf[d2[e][j].c] =>
                           PlaceIn(d2[e - 1], d2[e][i]) < PlaceIn(d2[e - 1], d2[e][j])
    BY DEF OrderFits
  <2>0. OrderFits(a, d) /\ e - 1 \in Chain /\ e \in Nat /\ e # 1
    BY ApplicationsAssumption DEF StoresFit, Chain
  <2>p. cl[c].method = "PUT"
    BY DEF ToExecute
  <2>1. \A k \in 1..Len(d[e]) :
          /\ PlaceIn(d[e - 1], d[e][k]) # 0
          /\ PlaceIn(d2[e - 1], d[e][k]) = PlaceIn(d[e - 1], d[e][k])
    BY <1>3, <2>0 DEF OrderFits
  <2>2. CASE e # b
    <3>1. d2[e] = d[e]
      BY <1>2, <2>2
    <3> QED
      BY <2>0, <2>1, <3>1 DEF OrderFits
  <2>3. CASE e = b
    <3>0. d2[b - 1] = d[b - 1] /\ b # 1 /\ b - 1 \in 1..(b - 1)
      BY <1>2, <2>0, <2>3 DEF Chain
    <3>1. /\ PlaceIn(d[b - 1], op) # 0
          /\ \A k \in 1..Len(d[b]) : WorkerOf[d[b][k].c] = WorkerOf[c] =>
               PlaceIn(d[b - 1], d[b][k]) < PlaceIn(d[b - 1], op)
      BY <1>r, <2>p, <3>0 DEF Received, op
    <3>2. PlaceIn(d2[b - 1], d2[b][i]) # 0
      BY <1>k, <2>1, <2>3, <3>0, <3>1
    <3>3. ASSUME i < j, WorkerOf[d2[b][i].c] = WorkerOf[d2[b][j].c]
          PROVE  PlaceIn(d2[b - 1], d2[b][i]) < PlaceIn(d2[b - 1], d2[b][j])
      <4>1. i \in 1..Len(d[b]) /\ d2[b][i] = d[b][i]
        BY <1>2, <1>k, <2>3, <3>3
      <4>2. CASE j \in 1..Len(d[b]) /\ d2[b][j] = d[b][j]
        BY <2>0, <2>3, <3>0, <3>3, <4>1, <4>2 DEF OrderFits
      <4>3. CASE d2[b][j] = op
        BY <1>1, <3>0, <3>1, <3>3, <4>1, <4>3
      <4> QED
        BY <1>k, <2>3, <4>2, <4>3
    <3> QED
      BY <2>3, <3>2, <3>3
  <2> QED
    BY <2>2, <2>3
<1> QED
  BY <1>4, <1>5, <1>6, <1>7 DEF StoresFit, d2, op

-----------------------------------------------------------------------------
(* GET.                                                                    *)

\* A set of numbers has a least one.
LEMMA LeastNumber ==
  ASSUME NEW T \in SUBSET Nat, T # {}
  PROVE  \E x \in T : \A y \in T : x <= y
<1> DEFINE R == OpToRel(<, Nat)
<1>1. IsWellFoundedOn(R, Nat)
  BY NatLessThanWellFounded
<1>2. \A x, y \in Nat : <<y, x>> \in R <=> y < x
  BY DEF OpToRel
<1> HIDE DEF R
<1>3. PICK x \in T : \A y \in T : ~ (<<y, x>> \in R)
  BY <1>1, WFMin
<1>4. \A y \in T : ~(y < x)
  BY <1>2, <1>3, Zenon
<1> QED
  BY <1>4

\* A set of places has a last one.
LEMMA LastPlace ==
  ASSUME NEW n \in Nat, NEW T \in SUBSET (1..n), T # {}
  PROVE  \E x \in T : \A y \in T : y <= x
<1> DEFINE U == {n - y : y \in T}
<1>1. U \in SUBSET Nat /\ U # {}
  <2>1. \A y \in T : n - y \in Nat
    OBVIOUS
  <2> QED
    BY <2>1
<1>2. PICK u \in U : \A v \in U : u <= v
  BY <1>1, LeastNumber
<1>3. PICK x \in T : u = n - x
  OBVIOUS
<1>4. \A y \in T : n - x <= n - y
  BY <1>2, <1>3
<1> QED
  BY <1>4

\* db->Get shows an operation on the key that is not older than any other.
LEMMA GetFits ==
  ASSUME TypeOK, NEW b \in Chain, Distinct(db[b]), NEW key
  PROVE  /\ Get(b, key) \in Ops \cup {NoOp}
         /\ \A p : p.key = key /\ PlaceIn(db[b], p) # 0 =>
              PlaceIn(db[b], p) \in 1..PlaceIn(db[b], Get(b, key))
<1> DEFINE s == db[b]  T == {i \in 1..Len(s) : s[i].key = key}
<1>1. s \in Seq(Ops) /\ Len(s) \in Nat
  BY DEF TypeOK
<1>2. ASSUME NEW p, p.key = key, PlaceIn(s, p) # 0
      PROVE  PlaceIn(s, p) \in T
  BY <1>1, <1>2, PlaceFacts
<1>3. CASE T = {}
  BY <1>2, <1>3 DEF Get
<1>4. CASE T # {}
  <2> DEFINE m == CHOOSE i \in T : \A j \in T : j <= i
  <2>1. \E x \in T : \A y \in T : y <= x
    BY <1>1, <1>4, LastPlace
  <2>2. m \in T /\ \A j \in T : j <= m
    BY <2>1
  <2>3. Get(b, key) = s[m]
    BY <1>4 DEF Get
  <2> HIDE DEF m
  <2>4. PlaceIn(s, s[m]) = m
    BY <1>1, <2>2, OnlyPlace
  <2>5. s[m] \in Ops
    BY <1>1, <2>2
  <2>6. ASSUME NEW p, p.key = key, PlaceIn(s, p) # 0
        PROVE  PlaceIn(s, p) \in 1..m
    BY <1>1, <1>2, <2>2, <2>6
  <2> QED
    BY <2>3, <2>4, <2>5, <2>6
<1> QED
  BY <1>3, <1>4

-----------------------------------------------------------------------------
(* Clients.                                                                *)

\* What a client is told concerns the stores only if it is a GET.
LEMMA ClientStores ==
  ASSUME NEW a, NEW cl \in ClientMaps, NEW d \in Stores, NEW ack, NEW c \in Clients,
         NEW cl2 \in ClientMaps,
         StoresFit(a, cl, d, ack),
         \A e \in Clients \ {c} : cl2[e] = cl[e],
         cl2[c].n = cl[c].n, cl2[c].phase # "asked",
         cl2[c].before = cl[c].before, ReadFits(cl2[c], d)
  PROVE  StoresFit(a, cl2, d, ack)
<1>1. ExecutedOnce(cl2, d)
  <2>1. ASSUME NEW b \in Chain, NEW i \in 1..Len(d[b])
        PROVE  /\ d[b][i].n <= cl2[d[b][i].c].n
               /\ cl2[d[b][i].c].phase = "asked" => d[b][i].n # cl2[d[b][i].c].n
    <3>1. d[b][i].c \in Clients
      <4>1. d[b] \in Seq(Ops)
        BY DEF Stores
      <4>2. d[b][i] \in Ops
        BY <2>1, <4>1
      <4> QED
        BY <4>2 DEF Ops
    <3>2. /\ d[b][i].n <= cl[d[b][i].c].n
          /\ cl[d[b][i].c].phase = "asked" => d[b][i].n # cl[d[b][i].c].n
      BY <2>1 DEF StoresFit, ExecutedOnce
    <3>3. CASE d[b][i].c = c
      BY <3>2, <3>3
    <3>4. CASE d[b][i].c # c
      BY <3>1, <3>2, <3>4
    <3> QED
      BY <3>3, <3>4
  <2> QED
    BY <2>1 DEF StoresFit, ExecutedOnce
<1>2. BeforeFits(cl2, ack)
  BY DEF StoresFit, BeforeFits
<1>3. ReadsFit(cl2, d)
  BY DEF StoresFit, ReadsFit
<1> QED
  BY <1>1, <1>2, <1>3 DEF StoresFit

\* An operation that all its holders have executed may be acknowledged.
LEMMA AckStores ==
  ASSUME NEW a, NEW cl, NEW d, NEW ack, NEW p, StoresFit(a, cl, d, ack),
         \A b \in HoldersOf(a, p.key) : PlaceIn(d[b], p) # 0
  PROVE  StoresFit(a, cl, d, ack \cup {p})
<1>1. AckedFit(a, d, ack \cup {p})
  BY DEF StoresFit, AckedFit
<1>2. BeforeFits(cl, ack \cup {p})
  BY DEF StoresFit, BeforeFits
<1> QED
  BY <1>1, <1>2 DEF StoresFit

-----------------------------------------------------------------------------
(* The request handlers.                                                   *)

\* The operators over values say the same as those of the model.
LEMMA SameMeaning ==
  /\ LinksOf(app) = Links
  /\ \A c : OpIn(client, c) = OpOf(c)
  /\ \A b, p : PlaceIn(db[b], p) = Place(b, p)
  /\ \A k : HoldersOf(app, k) = Holders(k)
  BY DEF LinksOf, Links, OpIn, OpOf, PlaceIn, Place, HoldersOf, Holders

\* The type invariant in these terms.
LEMMA TypeFacts ==
  ASSUME TypeOK
  PROVE  /\ chan \in Channels /\ client \in ClientMaps /\ db \in Stores
         /\ rr \in [Workers -> Chain] /\ acked \in SUBSET Ops
         /\ up \subseteq Links /\ dead \subseteq Processes
         /\ app \in {"kvs-repl", "kvs", "bench"}
  BY ApplicationsAssumption DEF TypeOK, Channels, ClientMaps, Stores

\* Only the record of client c changes.
OnlyClient(c) ==
  /\ client' \in ClientMaps
  /\ \A e \in Clients \ {c} : client'[e] = client[e]
  /\ client'[c].n = client[c].n
  /\ client'[c].method = client[c].method
  /\ client'[c].key = client[c].key
  /\ client'[c].before = client[c].before

\* What a handler must leave behind.
HandlerResult ==
  /\ chan' \in Channels /\ client' \in ClientMaps /\ db' \in Stores
  /\ rr' \in [Workers -> Chain] /\ acked' \in SUBSET Ops
  /\ dead' \subseteq Processes
  /\ ChannelsFit(app, chan', client', db')
  /\ StoresFit(app, client', db', acked')

\* A process of the application.
LEMMA ProcessType ==
  ASSUME NEW s \in Servers, NEW w \in Workers
  PROVE  Process(s, w) \in Processes
  BY DEF Processes

\* uv_write of an exported connection, in all its outcomes.
LEMMA HandOverFits ==
  ASSUME TypeOK, NEW read \in Channels, NEW d, NEW s \in Servers, NEW t \in Servers,
         NEW c \in Clients, ChannelsFit(app, read, client, d), Absent(read, c),
         HandOver(s, t, c, read),
         OnlyClient(c) /\ client'[c].phase = "handed"
           /\ <<s, t, WorkerOf[c]>> \in Links =>
             /\ MessageFits(app, <<s, t, WorkerOf[c]>>, c, client', d)
             /\ Last(<<s, t, WorkerOf[c]>>, c, read, client', d)
  PROVE  /\ OnlyClient(c) /\ client'[c].phase = "handed"
         /\ chan' \in Channels /\ dead' \subseteq Processes
         /\ ChannelsFit(app, chan', client', d)
<1> DEFINE x == <<s, t, WorkerOf[c]>>
<1>0. WorkerOf[c] \in Workers
  BY ApplicationsAssumption
<1>1. OnlyClient(c) /\ client'[c].phase = "handed"
  <2>1. client' = [client EXCEPT ![c].phase = "handed"] /\ client \in ClientMaps
    BY TypeFacts DEF HandOver
  <2> QED
    BY <2>1 DEF OnlyClient, ClientMaps, ClientStates
<1>2. ChannelsFit(app, read, client', d)
  <2>1. \A e \in Clients \ {c} : client'[e] = client[e]
    BY <1>1 DEF OnlyClient
  <2> QED
    BY <2>1, ClientFits
<1>3. dead' \subseteq Processes
  BY <1>0, TypeFacts, ProcessType DEF HandOver, Write
<1>4. \/ chan' = read
      \/ x \in up /\ chan' = Added(read, x, c)
  BY DEF HandOver, Write, Added
<1>5. CASE chan' = read
  BY <1>1, <1>2, <1>3, <1>5
<1>6. CASE x \in up /\ chan' = Added(read, x, c)
  <2>1. x \in Links /\ x \in Conns
    BY <1>6, TypeFacts DEF Links
  <2>2. chan' \in Channels
    BY <1>6, <2>1, AddedAt
  <2>3. ChannelsFit(app, Added(read, x, c), client', d)
    BY <1>1, <1>2, <2>1, AddFits
  <2> QED
    BY <1>1, <1>3, <1>6, <2>2, <2>3
<1> QED
  BY <1>4, <1>5, <1>6

\* The record of a client that was answered.
AnswerTo(f, s, status, val) ==
  [f EXCEPT !.at = s, !.phase = "idle", !.status = status, !.val = val]

\* It keeps the request.
LEMMA AnswerType ==
  ASSUME NEW f \in ClientStates, NEW s \in Servers,
         NEW status \in Statuses, NEW val \in Ops \cup {NoOp}
  PROVE  /\ AnswerTo(f, s, status, val) \in ClientStates
         /\ AnswerTo(f, s, status, val).phase = "idle"
         /\ AnswerTo(f, s, status, val).at = s
         /\ AnswerTo(f, s, status, val).status = status
         /\ AnswerTo(f, s, status, val).val = val
         /\ AnswerTo(f, s, status, val).n = f.n
         /\ AnswerTo(f, s, status, val).method = f.method
         /\ AnswerTo(f, s, status, val).key = f.key
         /\ AnswerTo(f, s, status, val).before = f.before
<1>1. [f EXCEPT !.at = s] \in ClientStates
  BY DEF ClientStates, Statuses
<1>2. ASSUME NEW g \in ClientStates PROVE [g EXCEPT !.phase = "idle"] \in ClientStates
  BY DEF ClientStates, Statuses
<1>3. ASSUME NEW g \in ClientStates PROVE [g EXCEPT !.status = status] \in ClientStates
  BY DEF ClientStates, Statuses
<1>4. ASSUME NEW g \in ClientStates PROVE [g EXCEPT !.val = val] \in ClientStates
  BY DEF ClientStates, Statuses
<1> DEFINE g1 == [f EXCEPT !.at = s]
           g2 == [g1 EXCEPT !.phase = "idle"]
           g3 == [g2 EXCEPT !.status = status]
           g4 == [g3 EXCEPT !.val = val]
<1>5. g4 \in ClientStates
  BY <1>1, <1>2, <1>3, <1>4
<1>6. AnswerTo(f, s, status, val) = g4
  BY DEF AnswerTo
<1>7. /\ g4.phase = "idle" /\ g4.at = s /\ g4.status = status /\ g4.val = val
      /\ g4.n = f.n /\ g4.method = f.method
      /\ g4.key = f.key /\ g4.before = f.before
  BY DEF ClientStates, Statuses
<1> HIDE DEF g4
<1> QED
  BY <1>5, <1>6, <1>7

\* A response.
LEMMA RespondFits ==
  ASSUME TypeOK, NEW read \in Channels, NEW d, NEW s \in Servers, NEW c \in Clients,
         ChannelsFit(app, read, client, d), Absent(read, c),
         NEW status \in Statuses, NEW val \in Ops \cup {NoOp},
         Respond(s, c, read, status, val)
  PROVE  /\ OnlyClient(c)
         /\ client'[c].phase = "idle" /\ client'[c].at = s
         /\ client'[c].status = status /\ client'[c].val = val
         /\ chan' \in Channels /\ dead' \subseteq Processes
         /\ ChannelsFit(app, chan', client', d)
<1>1. /\ OnlyClient(c)
      /\ client'[c].phase = "idle" /\ client'[c].at = s
      /\ client'[c].status = status /\ client'[c].val = val
  <2> DEFINE r == AnswerTo(client[c], s, status, val)
  <2>1. client' = [client EXCEPT ![c] = r]
    BY DEF Respond, AnswerTo
  <2>2. client \in ClientMaps /\ client[c] \in ClientStates
    BY TypeFacts DEF ClientMaps
  <2>3. /\ r \in ClientStates
        /\ r.phase = "idle" /\ r.at = s /\ r.status = status /\ r.val = val
        /\ r.n = client[c].n /\ r.method = client[c].method
        /\ r.key = client[c].key /\ r.before = client[c].before
    BY <2>2, AnswerType
  <2> HIDE DEF r
  <2> QED
    BY <2>1, <2>2, <2>3 DEF OnlyClient, ClientMaps
<1>2. ChannelsFit(app, read, client', d)
  <2>1. \A e \in Clients \ {c} : client'[e] = client[e]
    BY <1>1 DEF OnlyClient
  <2> QED
    BY <2>1, ClientFits
<1> QED
  BY <1>1, <1>2, TypeFacts DEF Respond

\* The stores fit after a handler changed its client's record.
LEMMA OnlyClientStores ==
  ASSUME TypeOK, NEW c \in Clients, NEW d \in Stores, NEW ack,
         StoresFit(app, client, d, ack), OnlyClient(c), client'[c].phase # "asked",
         ReadFits(client'[c], d)
  PROVE  StoresFit(app, client', d, ack)
  BY TypeFacts, ClientStores DEF OnlyClient

\* The request of c has not been executed by any backend.
Fresh(c) == \A b \in Chain : ~Executed(db[b], c, client[c].n)

\* A handler that only hands the connection over.
LEMMA PassOn ==
  ASSUME AppInv, NEW read \in Channels, NEW c \in Clients,
         ChannelsFit(app, read, client, db), Absent(read, c), Fresh(c),
         NEW s \in Servers, NEW t \in Servers, s = 0 \/ t = 0,
         HandOver(s, t, c, read), UNCHANGED <<db, acked>>,
         rr' \in [Workers -> Chain],
         s = 0 => /\ app = "kvs" => t = Shard(client[c].key)
                  /\ app = "kvs-repl" => /\ client[c].method \in {"GET", "PUT", "EMPTY"}
                                         /\ client[c].method = "PUT" => t = 1
  PROVE  HandlerResult
<1>0. TypeOK
  BY DEF AppInv
<1> DEFINE x == <<s, t, WorkerOf[c]>>
<1>1. x \notin ChainLinks /\ x[1] = s /\ x[2] = t /\ x[3] = WorkerOf[c]
  BY DEF ChainLinks
<1> HIDE DEF x
<1>2. ASSUME OnlyClient(c), client'[c].phase = "handed", x \in Links
      PROVE  MessageFits(app, x, c, client', db) /\ Last(x, c, read, client', db)
  <2>1. x \in LinksOf(app)
    BY <1>2, SameMeaning
  <2>2. /\ client'[c].n = client[c].n /\ client'[c].key = client[c].key
        /\ client'[c].method = client[c].method
    BY <1>2 DEF OnlyClient
  <2>3. MessageFits(app, x, c, client', db)
    BY <1>1, <1>2, <2>1, <2>2 DEF MessageFits, Fresh
  <2> QED
    BY <1>1, <2>3 DEF Last
<1>3. /\ OnlyClient(c) /\ client'[c].phase = "handed"
      /\ chan' \in Channels /\ dead' \subseteq Processes
      /\ ChannelsFit(app, chan', client', db)
  BY <1>0, <1>2, HandOverFits DEF x
<1>4. db \in Stores /\ acked \in SUBSET Ops /\ StoresFit(app, client, db, acked)
  BY <1>0, TypeFacts DEF AppInv
<1>5. StoresFit(app, client', db, acked)
  <2>1. ReadFits(client'[c], db)
    BY <1>3 DEF ReadFits
  <2> QED
    BY <1>0, <1>3, <1>4, <2>1, OnlyClientStores
<1> QED
  BY <1>3, <1>4, <1>5 DEF HandlerResult, OnlyClient

\* A handler that answers without an effect on the stores.
LEMMA JustAnswer ==
  ASSUME AppInv, NEW read \in Channels, NEW c \in Clients,
         ChannelsFit(app, read, client, db), Absent(read, c),
         NEW s \in Servers, NEW status \in Statuses,
         client[c].method # "GET" \/ status \notin {200, 404},
         Respond(s, c, read, status, NoOp), UNCHANGED <<db, acked>>,
         rr' \in [Workers -> Chain]
  PROVE  HandlerResult
<1>0. TypeOK
  BY DEF AppInv
<1>1. /\ OnlyClient(c)
      /\ client'[c].phase = "idle" /\ client'[c].status = status
      /\ chan' \in Channels /\ dead' \subseteq Processes
      /\ ChannelsFit(app, chan', client', db)
  BY <1>0, RespondFits
<1>2. db \in Stores /\ acked \in SUBSET Ops /\ StoresFit(app, client, db, acked)
  BY <1>0, TypeFacts DEF AppInv
<1>3. StoresFit(app, client', db, acked)
  <2>1. ReadFits(client'[c], db)
    BY <1>1 DEF ReadFits, OnlyClient
  <2> QED
    BY <1>0, <1>1, <1>2, <2>1, OnlyClientStores
<1> QED
  BY <1>1, <1>2, <1>3 DEF HandlerResult, OnlyClient

\* To the backend whose turn it is, a backend, and then it is another's turn.
LEMMA TurnType ==
  ASSUME AppInv, NEW c \in Clients, NEW read, HandOverInTurn(c, read)
  PROVE  /\ rr[WorkerOf[c]] \in Servers
         /\ HandOver(0, rr[WorkerOf[c]], c, read)
         /\ rr' \in [Workers -> Chain]
<1>1. WorkerOf[c] \in Workers /\ rr \in [Workers -> Chain] /\ N \in Nat \ {0}
  BY TypeFacts, ApplicationsAssumption DEF AppInv
<1>2. \A b \in Chain : NextInTurn(b) \in Chain /\ b \in Servers
  BY <1>1 DEF NextInTurn, Chain, Servers
<1> QED
  BY <1>1, <1>2 DEF HandOverInTurn

\* The handlers of the proxies.
LEMMA ProxyHandler ==
  ASSUME AppInv, NEW read \in Channels, NEW c \in Clients,
         ChannelsFit(app, read, client, db), Absent(read, c), Fresh(c),
         proxy_request_handler(c, read), UNCHANGED <<db, acked>>
  PROVE  HandlerResult
<1>0. /\ app \in {"kvs-repl", "kvs", "bench"} /\ rr \in [Workers -> Chain]
      /\ N \in Nat \ {0} /\ 0 \in Servers /\ 1 \in Servers
      /\ client[c].key \in Keys
  BY TypeFacts, ApplicationsAssumption
  DEF AppInv, Servers, ClientMaps, ClientStates
<1>1. CASE app = "kvs-repl"
  <2>0. kvs_repl_proxy_request_handler(c, read)
    BY <1>1 DEF proxy_request_handler
  <2>1. CASE client[c].method = "GET" /\ HandOverInTurn(c, read)
    BY <1>0, <1>1, <2>1, TurnType, PassOn
  <2>2. CASE client[c].method \in {"PUT", "EMPTY"} /\ HandOver(0, 1, c, read)
               /\ UNCHANGED rr
    BY <1>0, <1>1, <2>2, PassOn
  <2>3. CASE client[c].method \in {"DELETE", "POST"} /\ Respond(0, c, read, 0, NoOp)
               /\ UNCHANGED rr
    BY <1>0, <2>3, JustAnswer DEF Statuses
  <2> QED
    BY <2>0, <2>1, <2>2, <2>3 DEF kvs_repl_proxy_request_handler
<1>2. CASE app = "kvs"
  <2>0. HandOver(0, Shard(client[c].key), c, read) /\ UNCHANGED rr
    BY <1>2 DEF proxy_request_handler, kvs_proxy_request_handler
  <2>1. Shard(client[c].key) \in Servers
    BY <1>0, ShardIsBackend DEF Chain, Servers
  <2> QED
    BY <1>0, <1>2, <2>0, <2>1, PassOn
<1>3. CASE app = "bench"
  <2>0. bench_proxy_request_handler(c, read)
    BY <1>3 DEF proxy_request_handler
  <2>1. CASE client[c].method = "TEXT" /\ Respond(0, c, read, 500, NoOp) /\ UNCHANGED rr
    BY <1>0, <2>1, JustAnswer DEF Statuses
  <2>2. CASE HandOverInTurn(c, read)
    BY <1>0, <1>3, <2>2, TurnType, PassOn
  <2> QED
    BY <2>0, <2>1, <2>2 DEF bench_proxy_request_handler
<1> QED
  BY <1>0, <1>1, <1>2, <1>3

\* A backend has read the message of c and runs its handler.
AtBackend(b, c, read) ==
  /\ AppInv
  /\ read \in Channels
  /\ ChannelsFit(app, read, client, db)
  /\ Received(app, read, client, db, b, c)
  /\ UNCHANGED rr

\* A GET is answered with what the store has.
LEMMA GetAnswered ==
  ASSUME NEW b \in Chain, NEW c \in Clients, NEW read, AtBackend(b, c, read),
         app \in {"kvs-repl", "kvs"}, handle_get(b, c, read)
  PROVE  HandlerResult
<1>0. TypeOK /\ read \in Channels /\ ChannelsFit(app, read, client, db)
  BY DEF AtBackend, AppInv
<1>1. Absent(read, c) /\ Received(app, read, client, db, b, c) /\ AppInv
  BY DEF AtBackend, Received
<1>2. /\ rr' \in [Workers -> Chain] /\ b \in Servers
      /\ db \in Stores /\ acked \in SUBSET Ops
      /\ StoresFit(app, client, db, acked)
      /\ UNCHANGED <<db, acked>>
  BY <1>0, TypeFacts DEF AtBackend, handle_get, Chain, Servers, AppInv
<1> DEFINE val == Get(b, client[c].key)
<1>3. CASE Faults /\ Respond(b, c, read, 500, NoOp)
  <2>1. 500 \in Statuses /\ 500 \notin {200, 404}
    BY DEF Statuses
  <2> QED
    BY <1>0, <1>1, <1>2, <1>3, <2>1, JustAnswer
<1>4. CASE \E status \in {200, 404} : Respond(b, c, read, status, val)
  <2>0. PICK status \in {200, 404} : Respond(b, c, read, status, val)
    BY <1>4
  <2>1. Distinct(db[b])
    BY <1>2, StoreDistinct DEF StoresFit
  <2>2. /\ val \in Ops \cup {NoOp}
        /\ \A p : p.key = client[c].key /\ PlaceIn(db[b], p) # 0 =>
             PlaceIn(db[b], p) \in 1..PlaceIn(db[b], val)
    BY <1>0, <2>1, GetFits
  <2> HIDE DEF val
  <2>s. status \in Statuses
    BY DEF Statuses
  <2>3. /\ OnlyClient(c)
        /\ client'[c].phase = "idle" /\ client'[c].at = b
        /\ client'[c].val = val
        /\ chan' \in Channels /\ dead' \subseteq Processes
        /\ ChannelsFit(app, chan', client', db)
    BY <1>0, <1>1, <1>2, <2>0, <2>s, <2>2, RespondFits
  <2>4. ASSUME NEW p \in client[c].before, p.key = client[c].key
        PROVE  PlaceIn(db[b], p) # 0
    <3>1. p \in acked
      BY <1>2 DEF StoresFit, BeforeFits
    <3>2. b \in HoldersOf(app, p.key)
      BY <1>1, <2>4 DEF HoldersOf, Received
    <3> QED
      BY <1>2, <3>1, <3>2 DEF StoresFit, AckedFit
  <2>5. ReadFits(client'[c], db)
    BY <2>2, <2>3, <2>4 DEF ReadFits, OnlyClient
  <2>6. StoresFit(app, client', db, acked)
    BY <1>0, <1>2, <2>3, <2>5, OnlyClientStores
  <2> QED
    BY <1>2, <2>3, <2>6 DEF HandlerResult, OnlyClient
<1> QED
  BY <1>3, <1>4 DEF handle_get

\* The store executes the request.
LEMMA ExecuteFits ==
  ASSUME NEW b \in Chain, NEW c \in Clients, NEW read, AtBackend(b, c, read),
         app \in {"kvs-repl", "kvs"}, app = "kvs-repl" => client[c].method = "PUT",
         Execute(b, c)
  PROVE  /\ db' \in Stores /\ db' = Stored(db, b, OpIn(client, c))
         /\ ChannelsFit(app, read, client, db')
         /\ StoresFit(app, client, db', acked)
         /\ PlaceIn(db'[b], OpIn(client, c)) = Len(db[b]) + 1 /\ Len(db[b]) \in Nat
         /\ \A e \in Chain : \A p : PlaceIn(db[e], p) # 0 =>
              PlaceIn(db'[e], p) = PlaceIn(db[e], p)
<1>0. /\ TypeOK /\ read \in Channels /\ ChannelsFit(app, read, client, db)
      /\ Received(app, read, client, db, b, c)
      /\ StoresFit(app, client, db, acked)
  BY DEF AtBackend, AppInv
<1>1. db \in Stores /\ acked \in SUBSET Ops /\ client \in ClientMaps
  BY <1>0, TypeFacts
<1>2. ToExecute(app, read, client, db, b, c)
  BY <1>0 DEF ToExecute
<1>3. db' = Stored(db, b, OpIn(client, c))
  BY DEF Execute, Stored, OpIn, OpOf
<1>4. db' \in Stores /\ Len(db[b]) \in Nat
  BY <1>1, <1>3, StoredAt, OpType
<1>5. ChannelsFit(app, read, client, db')
  BY <1>0, <1>1, <1>2, <1>3, StoreChannels
<1>6. StoresFit(app, client, db', acked)
  BY <1>0, <1>1, <1>2, <1>3, StoreStores
<1>7. /\ PlaceIn(db'[b], OpIn(client, c)) = Len(db[b]) + 1
      /\ \A e \in Chain : \A p : PlaceIn(db[e], p) # 0 =>
           PlaceIn(db'[e], p) = PlaceIn(db[e], p)
  <2> DEFINE d2 == Stored(db, b, OpIn(client, c))
  <2>1. Placed(db, d2, b, OpIn(client, c))
    BY <1>0, <1>1, StorePlaces
  <2> HIDE DEF d2
  <2> QED
    BY <1>3, <2>1 DEF d2, Placed
<1> QED
  BY <1>3, <1>4, <1>5, <1>6, <1>7

\* A backend with a successor stores the value and hands the connection on.
LEMMA PutPassedOn ==
  ASSUME NEW b \in Chain, NEW c \in Clients, NEW read, AtBackend(b, c, read),
         client[c].method = "PUT", Execute(b, c), HasNext(b),
         HandOver(b, b + 1, c, read), UNCHANGED acked
  PROVE  HandlerResult
<1> DEFINE op == OpIn(client, c)  x == <<b, b + 1, WorkerOf[c]>>
<1>0. /\ TypeOK /\ read \in Channels /\ Received(app, read, client, db, b, c)
      /\ Absent(read, c) /\ app = "kvs-repl" /\ b < N
      /\ ChannelsFit(app, read, client, db) /\ StoresFit(app, client, db, acked)
  BY DEF AtBackend, AppInv, HasNext, Received
<1>1. /\ db' \in Stores /\ db' = Stored(db, b, op)
      /\ ChannelsFit(app, read, client, db')
      /\ StoresFit(app, client, db', acked)
      /\ PlaceIn(db'[b], op) = Len(db[b]) + 1 /\ Len(db[b]) \in Nat
      /\ \A e \in Chain : \A p : PlaceIn(db[e], p) # 0 =>
           PlaceIn(db'[e], p) = PlaceIn(db[e], p)
  BY <1>0, ExecuteFits
<1>2. /\ N \in Nat /\ b \in Nat /\ b >= 1 /\ b \in Servers /\ b + 1 \in Servers
      /\ b + 1 \in Chain /\ b + 1 # b /\ b + 1 # 1 /\ (b + 1) - 1 = b
  BY <1>0, ApplicationsAssumption DEF Chain, Servers
<1>3. rr' \in [Workers -> Chain] /\ acked \in SUBSET Ops /\ client \in ClientMaps
  BY <1>0, TypeFacts DEF AtBackend
<1>4. ASSUME OnlyClient(c), client'[c].phase = "handed", x \in Links
      PROVE  MessageFits(app, x, c, client', db') /\ Last(x, c, read, client', db')
  <2>1. x \in LinksOf(app) /\ x \in Conns /\ x \in ChainLinks
    BY <1>2, <1>4, SameMeaning DEF Links, ChainLinks
  <2>2. x[1] = b /\ x[2] = b + 1 /\ x[3] = WorkerOf[c]
    OBVIOUS
  <2>3. /\ client'[c].n = client[c].n /\ client'[c].key = client[c].key
        /\ client'[c].method = client[c].method
        /\ OpIn(client', c) = op
    BY <1>4 DEF OnlyClient, OpIn
  <2> HIDE DEF x, op
  <2>4. \A e \in 1..b : PlaceIn(db'[e], op) # 0
    <3>1. \A e \in 1..(b - 1) : PlaceIn(db[e], op) # 0
      BY <1>0 DEF Received, op
    <3>2. \A e \in 1..(b - 1) : e \in Chain
      BY <1>2, <1>0 DEF Chain
    <3>3. \A e \in 1..b : e = b \/ e \in 1..(b - 1)
      BY <1>2
    <3> QED
      BY <1>1, <1>2, <3>1, <3>2, <3>3
  <2>5. ASSUME NEW e \in Chain, Executed(db'[e], c, client'[c].n)
        PROVE  e <= b
    <3>1. CASE e = b
      BY <1>2, <3>1
    <3>2. CASE e # b
      <4>1. op \in Ops /\ db \in Stores
        BY <1>0, <1>3, TypeFacts, OpType DEF op
      <4>2. db'[e] = db[e]
        BY <1>1, <3>2, <4>1, StoredAt
      <4>3. e < b
        BY <1>0, <2>3, <2>5, <4>2 DEF Received
      <4> QED
        BY <1>2, <4>3 DEF Chain
    <3> QED
      BY <3>1, <3>2
  <2>6. MessageFits(app, x, c, client', db')
    BY <1>0, <1>2, <1>4, <2>1, <2>2, <2>3, <2>4, <2>5 DEF MessageFits
  <2>7. ASSUME NEW i \in 1..Len(read[x])
        PROVE  PlaceIn(db'[b], OpIn(client', read[x][i])) < PlaceIn(db'[b], op)
    <3> DEFINE m == read[x][i]
    <3>1. m \in Clients \ {c}
      BY <1>0, <2>1 DEF Channels, Absent
    <3>2. OpIn(client', m) = OpIn(client, m)
      BY <1>4, <3>1 DEF OnlyClient, OpIn
    <3>3. PlaceIn(db[b], OpIn(client, m)) # 0
      <4>1. MessageFits(app, x, m, client, db)
        BY <1>0, <2>1 DEF ChannelsFit, MessagesFit
      <4>2. b \in 1..x[1]
        BY <1>2, <2>2
      <4> QED
        BY <2>1, <4>1, <4>2 DEF MessageFits
    <3> HIDE DEF m
    <3>4. PlaceIn(db[b], OpIn(client, m)) \in 0..Len(db[b])
      BY <1>1, PlaceFacts
    <3> QED
      BY <1>1, <3>2, <3>3, <3>4 DEF m
  <2>8. ASSUME NEW k \in 1..Len(db'[b + 1])
        PROVE  PlaceIn(db'[b], db'[b + 1][k]) < PlaceIn(db'[b], op)
    <3>1. op \in Ops /\ db \in Stores
      BY <1>0, <1>3, TypeFacts, OpType DEF op
    <3>2. db'[b + 1] = db[b + 1]
      BY <1>1, <1>2, <3>1, StoredAt
    <3>3. PlaceIn(db[b], db[b + 1][k]) # 0
      BY <1>0, <1>2, <3>2 DEF StoresFit, OrderFits
    <3>4. PlaceIn(db[b], db[b + 1][k]) \in 0..Len(db[b])
      BY <1>1, PlaceFacts
    <3>5. PlaceIn(db'[b], db[b + 1][k]) = PlaceIn(db[b], db[b + 1][k])
      BY <1>1, <3>3
    <3> QED
      BY <1>1, <3>2, <3>4, <3>5
  <2>9. Last(x, c, read, client', db')
    BY <2>2, <2>3, <2>7, <2>8 DEF Last
  <2> QED
    BY <2>6, <2>9
<1>5. /\ OnlyClient(c) /\ client'[c].phase = "handed"
      /\ chan' \in Channels /\ dead' \subseteq Processes
      /\ ChannelsFit(app, chan', client', db')
  BY <1>0, <1>1, <1>2, <1>4, HandOverFits
<1>6. StoresFit(app, client', db', acked)
  <2>1. ReadFits(client'[c], db')
    BY <1>5 DEF ReadFits
  <2> QED
    BY <1>0, <1>1, <1>5, <2>1, OnlyClientStores
<1> QED
  BY <1>1, <1>3, <1>5, <1>6 DEF HandlerResult, OnlyClient

\* The last backend stores the value, or the only one of a shard executes the
\* operation, and answers.
LEMMA AnsweredLast ==
  ASSUME NEW b \in Chain, NEW c \in Clients, NEW read, AtBackend(b, c, read),
         app \in {"kvs-repl", "kvs"}, app = "kvs-repl" => client[c].method = "PUT",
         client[c].method # "GET",
         ~HasNext(b), Execute(b, c), NEW status \in Statuses,
         Acknowledge(b, c, read, status)
  PROVE  HandlerResult
<1> DEFINE op == OpIn(client, c)
<1>0. /\ TypeOK /\ read \in Channels /\ Received(app, read, client, db, b, c)
      /\ Absent(read, c) /\ AppInv
  BY DEF AtBackend, AppInv, Received
<1>1. /\ db' \in Stores
      /\ ChannelsFit(app, read, client, db')
      /\ StoresFit(app, client, db', acked)
      /\ PlaceIn(db'[b], op) = Len(db[b]) + 1 /\ Len(db[b]) \in Nat
      /\ \A e \in Chain : \A p : PlaceIn(db[e], p) # 0 =>
           PlaceIn(db'[e], p) = PlaceIn(db[e], p)
  BY ExecuteFits
<1>2. /\ rr' \in [Workers -> Chain] /\ acked \in SUBSET Ops
      /\ op \in Ops /\ op.key = client[c].key /\ b \in Servers
  BY <1>0, TypeFacts, OpType DEF AtBackend, Chain, Servers
<1>3. acked' = acked \cup {op} /\ Respond(b, c, read, status, NoOp)
  BY DEF Acknowledge, OpIn, OpOf
<1> HIDE DEF op
<1>4. \A e \in HoldersOf(app, op.key) : PlaceIn(db'[e], op) # 0
  <2>1. PlaceIn(db'[b], op) # 0
    BY <1>1
  <2>2. CASE app = "kvs"
    BY <1>0, <1>2, <2>1, <2>2 DEF HoldersOf, Received
  <2>3. CASE app = "kvs-repl"
    <3>1. N \in Nat /\ b = N
      BY <2>3, ApplicationsAssumption DEF HasNext, Chain
    <3>2. \A e \in 1..(b - 1) : PlaceIn(db[e], op) # 0
      BY <1>0, <2>3 DEF Received, op
    <3>3. \A e \in Chain : e = b \/ e \in 1..(b - 1)
      BY <3>1 DEF Chain
    <3>4. HoldersOf(app, op.key) = Chain
      BY <2>3 DEF HoldersOf
    <3> QED
      BY <1>1, <2>1, <3>2, <3>3, <3>4
  <2> QED
    BY <2>2, <2>3
<1>5. StoresFit(app, client, db', acked')
  BY <1>1, <1>3, <1>4, AckStores
<1>6. /\ OnlyClient(c) /\ client'[c].phase = "idle"
      /\ chan' \in Channels /\ dead' \subseteq Processes
      /\ ChannelsFit(app, chan', client', db')
  BY <1>0, <1>1, <1>2, <1>3, RespondFits
<1>7. StoresFit(app, client', db', acked')
  <2>1. ReadFits(client'[c], db')
    BY <1>6 DEF ReadFits, OnlyClient
  <2> QED
    BY <1>0, <1>1, <1>5, <1>6, <2>1, OnlyClientStores
<1> QED
  BY <1>1, <1>2, <1>3, <1>6, <1>7 DEF HandlerResult, OnlyClient

\* The handlers of the backends.
LEMMA BackendHandler ==
  ASSUME NEW b \in Chain, NEW c \in Clients, NEW read, AtBackend(b, c, read),
         backend_request_handler(b, c, read)
  PROVE  HandlerResult
<1>0. /\ AppInv /\ TypeOK /\ read \in Channels /\ Absent(read, c)
      /\ ChannelsFit(app, read, client, db)
      /\ Received(app, read, client, db, b, c)
  BY DEF AtBackend, AppInv, Received
<1>1. /\ rr' \in [Workers -> Chain] /\ b \in Servers
      /\ app \in {"kvs-repl", "kvs", "bench"}
  BY <1>0, TypeFacts DEF AtBackend, Chain, Servers
<1>2. ASSUME NEW status \in Statuses, Reject(b, c, read, status),
             client[c].method # "GET"
      PROVE  HandlerResult
  BY <1>0, <1>1, <1>2, JustAnswer DEF Reject
<1>3. {200, 204, 400, 405, 500} \subseteq Statuses
  BY DEF Statuses
<1>4. CASE app = "bench"
  <2>1. CASE client[c].method = "OBJECT" /\ Reject(b, c, read, 200)
    BY <1>2, <1>3, <2>1
  <2>2. CASE /\ chan' = read
             /\ dead' = dead \cup {Process(b, WorkerOf[c])}
             /\ UNCHANGED <<client, db, acked>>
    <3>1. Process(b, WorkerOf[c]) \in Processes
      BY <1>1, ProcessType, ApplicationsAssumption
    <3> QED
      BY <1>0, <1>1, <2>2, <3>1, TypeFacts DEF HandlerResult, AppInv
  <2> QED
    BY <1>4, <2>1, <2>2
    DEF backend_request_handler, bench_backend_request_handler
<1>5. CASE app \in {"kvs-repl", "kvs"}
  <2>0. \/ handle_get(b, c, read)
        \/ handle_put(b, c, read)
        \/ handle_other(b, c, read)
    BY <1>5 DEF backend_request_handler, kvs_backend_request_handler
  <2>1. CASE handle_get(b, c, read)
    BY <1>5, <2>1, GetAnswered
  <2>2. CASE handle_put(b, c, read)
    <3>1. CASE /\ client[c].method = "PUT" /\ Execute(b, c) /\ HasNext(b)
               /\ HandOver(b, b + 1, c, read) /\ UNCHANGED acked
      BY <3>1, PutPassedOn
    <3>2. CASE /\ client[c].method = "PUT" /\ Execute(b, c) /\ ~HasNext(b)
               /\ Acknowledge(b, c, read, 200)
      BY <1>3, <1>5, <3>2, AnsweredLast
    <3>3. CASE client[c].method = "PUT" /\ Reject(b, c, read, 500)
      BY <1>2, <1>3, <3>3
    <3>4. CASE client[c].method = "EMPTY" /\ Reject(b, c, read, 400)
      BY <1>2, <1>3, <3>4
    <3> QED
      BY <2>2, <3>1, <3>2, <3>3, <3>4 DEF handle_put
  <2>3. CASE handle_other(b, c, read)
    <3>0. client[c].method \in {"DELETE", "POST"}
      BY <2>3 DEF handle_other
    <3>1. app = "kvs" /\ ~HasNext(b)
      BY <1>0, <1>5, <3>0 DEF Received, HasNext
    <3>2. CASE Execute(b, c) /\ Acknowledge(b, c, read, 204)
      BY <1>3, <3>0, <3>1, <3>2, AnsweredLast
    <3>3. CASE Reject(b, c, read, 500)
      BY <1>2, <1>3, <3>0, <3>3
    <3>4. CASE Reject(b, c, read, 405)
      BY <1>2, <1>3, <3>0, <3>4
    <3> QED
      BY <2>3, <3>2, <3>3, <3>4 DEF handle_other
  <2> QED
    BY <2>0, <2>1, <2>2, <2>3
<1> QED
  BY <1>1, <1>4, <1>5

-----------------------------------------------------------------------------
(* The steps.                                                              *)

\* A handler's result is what the invariant asks for.
LEMMA ResultSuffices ==
  ASSUME AppInv, HandlerResult, UNCHANGED <<app, up>>
  PROVE  AppInv'
<1>1. Processes' = Processes /\ Links' = Links
  BY DEF Processes, Process, Links
<1>2. TypeOK'
  BY <1>1 DEF AppInv, TypeOK, HandlerResult, Channels, ClientMaps, Stores
<1> QED
  BY <1>2 DEF AppInv, HandlerResult

\* A client that is not waiting for a server's answer has no message.
LEMMA NotHanded ==
  ASSUME AppInv, NEW c \in Clients, client[c].phase # "handed"
  PROVE  Absent(chan, c)
  BY DEF AppInv, ChannelsFit, MessagesFit, MessageFits, Absent

\* A request that a server has not read has not been executed.
LEMMA AskedIsFresh ==
  ASSUME AppInv, NEW c \in Clients, client[c].phase = "asked"
  PROVE  Fresh(c)
  BY DEF AppInv, StoresFit, ExecutedOnce, Fresh, Executed

\* phttp_on_handoff.
LEMMA HandoffStep ==
  ASSUME AppInv, NEW x \in Conns, on_handoff(x)
  PROVE  AppInv'
<1> DEFINE c == Head(chan[x])  read == Popped(chan, x)
<1>0. /\ chan[x] # <<>> /\ UNCHANGED <<app, up>>
      /\ TypeOK /\ chan \in Channels
      /\ ChannelsFit(app, chan, client, db)
  BY TypeFacts DEF on_handoff, AppInv
<1>1. /\ read \in Channels /\ c \in Clients
      /\ ChannelsFit(app, read, client, db) /\ Absent(read, c)
      /\ c = chan[x][1] /\ 1 \in 1..Len(chan[x])
  <2>1. /\ read \in Channels /\ c \in Clients
        /\ c = chan[x][1] /\ Len(chan[x]) \in Nat \ {0}
    BY <1>0, PoppedAt
  <2>2. ChannelsFit(app, read, client, db) /\ Absent(read, c)
    BY <1>0, PopFits
  <2> QED
    BY <2>1, <2>2
<1>2. \/ x[2] = 0 /\ proxy_request_handler(c, read) /\ UNCHANGED <<db, acked>>
      \/ x[2] # 0 /\ backend_request_handler(x[2], c, read) /\ UNCHANGED rr
  BY DEF on_handoff, Popped
<1>r. x[2] # 0 => Received(app, read, client, db, x[2], c)
  BY <1>0, PopReceived
<1> HIDE DEF c, read
<1>3. CASE x[2] = 0 /\ proxy_request_handler(c, read) /\ UNCHANGED <<db, acked>>
  <2>1. MessageFits(app, x, c, client, db)
    BY <1>0, <1>1 DEF ChannelsFit, MessagesFit
  <2>2. Fresh(c)
    BY <1>3, <2>1 DEF MessageFits, Fresh, ChainLinks
  <2> QED
    BY <1>0, <1>1, <1>3, <2>2, ProxyHandler, ResultSuffices
<1>4. CASE x[2] # 0 /\ backend_request_handler(x[2], c, read) /\ UNCHANGED rr
  <2>1. x[2] \in Chain
    BY <1>4, ConnFacts, ApplicationsAssumption DEF Chain
  <2>2. AtBackend(x[2], c, read)
    BY <1>1, <1>4, <1>r DEF AtBackend
  <2> QED
    BY <1>0, <1>1, <1>4, <2>1, <2>2, BackendHandler, ResultSuffices
<1> QED
  BY <1>2, <1>3, <1>4

\* phttp_on_read at the proxy and at a backend.
LEMMA ReadStep ==
  ASSUME AppInv, NEW c \in Clients, proxy_on_read(c) \/ backend_on_read(c)
  PROVE  AppInv'
<1>1. /\ client[c].phase = "asked" /\ UNCHANGED <<app, up, db, acked>>
      /\ TypeOK /\ chan \in Channels /\ client \in ClientMaps
      /\ ChannelsFit(app, chan, client, db)
  BY TypeFacts DEF proxy_on_read, backend_on_read, AppInv
<1>2. Absent(chan, c) /\ Fresh(c)
  BY <1>1, NotHanded, AskedIsFresh
<1>3. CASE proxy_on_read(c)
  BY <1>1, <1>2, <1>3, ProxyHandler, ResultSuffices DEF proxy_on_read
<1>4. CASE backend_on_read(c)
  <2>1. /\ HandOver(client[c].at, 0, c, chan) /\ UNCHANGED rr
        /\ client[c].at # 0
    BY <1>4 DEF backend_on_read
  <2>2. client[c].at \in Servers /\ 0 \in Servers
    BY <1>1, ApplicationsAssumption DEF ClientMaps, ClientStates, Servers
  <2>3. rr' \in [Workers -> Chain]
    BY <1>1, <2>1, TypeFacts
  <2> QED
    BY <1>1, <1>2, <2>1, <2>2, <2>3, PassOn, ResultSuffices
<1> QED
  BY <1>3, <1>4

\* The record of a client that has sent a request.
RequestOf(f, method, key, before) ==
  [f EXCEPT !.phase = "asked", !.n = f.n + 1, !.method = method, !.key = key,
            !.before = before]

\* What it says.
LEMMA RequestType ==
  ASSUME NEW f \in ClientStates, NEW method \in Methods, NEW key \in Keys,
         NEW before \in SUBSET Ops
  PROVE  /\ RequestOf(f, method, key, before) \in ClientStates
         /\ RequestOf(f, method, key, before).phase = "asked"
         /\ RequestOf(f, method, key, before).n = f.n + 1
         /\ RequestOf(f, method, key, before).before = before
         /\ f.n \in Nat
<1> DEFINE g1 == [f EXCEPT !.phase = "asked"]
           g2 == [g1 EXCEPT !.n = f.n + 1]
           g3 == [g2 EXCEPT !.method = method]
           g4 == [g3 EXCEPT !.key = key]
           g5 == [g4 EXCEPT !.before = before]
<1>0. f.n \in Nat
  BY DEF ClientStates
<1>1. g1 \in ClientStates
  BY DEF ClientStates
<1>2. ASSUME NEW g \in ClientStates PROVE [g EXCEPT !.n = f.n + 1] \in ClientStates
  BY <1>0 DEF ClientStates
<1>3. ASSUME NEW g \in ClientStates PROVE [g EXCEPT !.method = method] \in ClientStates
  BY DEF ClientStates
<1>4. ASSUME NEW g \in ClientStates PROVE [g EXCEPT !.key = key] \in ClientStates
  BY DEF ClientStates
<1>5. ASSUME NEW g \in ClientStates PROVE [g EXCEPT !.before = before] \in ClientStates
  BY DEF ClientStates
<1>6. g5 \in ClientStates
  BY <1>1, <1>2, <1>3, <1>4, <1>5
<1>7. RequestOf(f, method, key, before) = g5
  BY DEF RequestOf, ClientStates
<1>8. g5.phase = "asked" /\ g5.n = f.n + 1 /\ g5.before = before
  BY DEF ClientStates
<1> HIDE DEF g5
<1> QED
  BY <1>0, <1>6, <1>7, <1>8

\* A client sends a request.
LEMMA SendStep ==
  ASSUME AppInv, NEW c \in Clients, NEW method \in Methods, NEW key \in Keys,
         ClientSend(c, method, key)
  PROVE  AppInv'
<1> DEFINE r == RequestOf(client[c], method, key, acked)
<1>0. /\ TypeOK /\ chan \in Channels /\ client \in ClientMaps /\ db \in Stores
      /\ acked \in SUBSET Ops /\ rr \in [Workers -> Chain]
      /\ dead \subseteq Processes
      /\ ChannelsFit(app, chan, client, db)
      /\ StoresFit(app, client, db, acked)
  BY TypeFacts DEF AppInv
<1>1. /\ client[c].phase = "idle" /\ UNCHANGED <<app, up, chan, db, rr, acked, dead>>
      /\ client' = [client EXCEPT ![c] = r]
  <2>1. client' = [client EXCEPT ![c] = r]
    BY DEF ClientSend, RequestOf
  <2> HIDE DEF r
  <2> QED
    BY <2>1 DEF ClientSend
<1>2. client[c] \in ClientStates
  BY <1>0 DEF ClientMaps
<1>3. /\ r \in ClientStates /\ r.phase = "asked" /\ r.n = client[c].n + 1
      /\ r.before = acked /\ client[c].n \in Nat
  BY <1>0, <1>2, RequestType
<1> HIDE DEF r
<1>4. /\ client' \in ClientMaps /\ client'[c] = r
      /\ \A e \in Clients \ {c} : client'[e] = client[e]
  BY <1>0, <1>1, <1>3 DEF ClientMaps
<1>5. ChannelsFit(app, chan, client', db)
  BY <1>0, <1>1, <1>4, NotHanded, ClientFits
<1>6. ExecutedOnce(client', db)
  <2>1. ASSUME NEW b \in Chain, NEW i \in 1..Len(db[b])
        PROVE  /\ db[b][i].n <= client'[db[b][i].c].n
               /\ client'[db[b][i].c].phase = "asked" =>
                    db[b][i].n # client'[db[b][i].c].n
    <3>1. db[b][i].c \in Clients /\ db[b][i].n \in Nat
      <4>1. db[b] \in Seq(Ops)
        BY <1>0 DEF Stores
      <4>2. db[b][i] \in Ops
        BY <2>1, <4>1
      <4> QED
        BY <4>2 DEF Ops
    <3>2. /\ db[b][i].n <= client[db[b][i].c].n
          /\ client[db[b][i].c].phase = "asked" =>
               db[b][i].n # client[db[b][i].c].n
      BY <1>0 DEF StoresFit, ExecutedOnce
    <3>3. CASE db[b][i].c = c
      BY <1>3, <1>4, <3>1, <3>2, <3>3
    <3>4. CASE db[b][i].c # c
      BY <1>4, <3>1, <3>2, <3>4
    <3> QED
      BY <3>3, <3>4
  <2> QED
    BY <1>0, <2>1 DEF StoresFit, ExecutedOnce
<1>7. BeforeFits(client', acked)
  BY <1>0, <1>3, <1>4 DEF StoresFit, BeforeFits
<1>8. ReadsFit(client', db)
  BY <1>0, <1>3, <1>4 DEF StoresFit, ReadsFit, ReadFits
<1>9. StoresFit(app, client', db, acked)
  BY <1>0, <1>6, <1>7, <1>8 DEF StoresFit
<1>10. HandlerResult
  BY <1>0, <1>1, <1>4, <1>5, <1>9 DEF HandlerResult
<1> QED
  BY <1>1, <1>10, ResultSuffices

\* At the start.
LEMMA StartFits ==
  ASSUME Init
  PROVE  AppInv
<1>0. N \in Nat \ {0} /\ 0 \in Servers /\ 1 \in Chain
  BY ApplicationsAssumption DEF Servers, Chain
<1>1. /\ \A x \in Conns : chan[x] = <<>> /\ Len(chan[x]) = 0
      /\ \A b \in Chain : db[b] = <<>> /\ Len(db[b]) = 0
  BY DEF Init
<1>2. ASSUME NEW c \in Clients
      PROVE  /\ client[c] \in ClientStates /\ client[c].n = 0
             /\ client[c].before = {}
  <2>1. PICK k \in Keys : client[c] =
          [at |-> 0, phase |-> "idle", n |-> 0, method |-> "GET", key |-> k,
           before |-> {}, status |-> 0, val |-> NoOp]
    BY <1>2 DEF Init
  <2> QED
    BY <1>0, <2>1 DEF ClientStates, Methods
<1>3. client \in ClientMaps
  BY <1>2 DEF Init, ClientMaps
<1>4. TypeOK
  BY <1>0, <1>3 DEF Init, TypeOK, ClientMaps
<1>5. ChannelsFit(app, chan, client, db)
  BY <1>1 DEF ChannelsFit, MessagesFit, OneMessage, InOrder, ChainLinks
<1>6. StoresFit(app, client, db, acked)
  <2>1. ExecutedOnce(client, db) /\ OrderFits(app, db)
    BY <1>1 DEF ExecutedOnce, OrderFits
  <2>2. AckedFit(app, db, acked)
    BY DEF AckedFit, Init
  <2>3. BeforeFits(client, acked) /\ ReadsFit(client, db)
    BY <1>2 DEF BeforeFits, ReadsFit, ReadFits
  <2> QED
    BY <2>1, <2>2, <2>3 DEF StoresFit
<1> QED
  BY <1>4, <1>5, <1>6 DEF AppInv

\* Every step keeps it.
LEMMA StepFits ==
  ASSUME AppInv, [Next]_vars
  PROVE  AppInv'
<1>1. CASE \E x \in Conns : on_handoff(x)
  BY <1>1, HandoffStep
<1>2. CASE \E c \in Clients : proxy_on_read(c) \/ backend_on_read(c)
  BY <1>2, ReadStep
<1>3. CASE \E c \in Clients, m \in Methods, k \in Keys : ClientSend(c, m, k)
  BY <1>3, SendStep
<1>4. CASE \E x \in Conns : try_connect(x)
  <2>1. /\ up' \subseteq Links
        /\ UNCHANGED <<app, chan, db, rr, client, acked, dead>>
    BY <1>4 DEF AppInv, TypeOK, try_connect
  <2>2. Processes' = Processes /\ Links' = Links
    BY <2>1 DEF Processes, Process, Links
  <2>3. TypeOK'
    BY <2>1, <2>2 DEF AppInv, TypeOK
  <2> QED
    BY <2>1, <2>3 DEF AppInv
<1>5. CASE \E p \in Processes : Stop(p)
  <2>1. /\ dead' \subseteq Processes
        /\ UNCHANGED <<app, up, chan, db, rr, client, acked>>
    BY <1>5 DEF AppInv, TypeOK, Stop
  <2>2. HandlerResult
    BY <2>1, TypeFacts DEF HandlerResult, AppInv
  <2> QED
    BY <2>1, <2>2, ResultSuffices
<1>6. CASE UNCHANGED vars
  <2>1. HandlerResult /\ UNCHANGED <<app, up>>
    BY <1>6, TypeFacts DEF HandlerResult, AppInv, vars
  <2> QED
    BY <2>1, ResultSuffices
<1> QED
  BY <1>1, <1>2, <1>3, <1>4, <1>5, <1>6 DEF Next

-----------------------------------------------------------------------------
(* The theorems.                                                           *)

\* The inductive invariant holds in every reachable state.
THEOREM AppInvariant == Spec => []AppInv
<1>1. Init => AppInv
  BY StartFits
<1>2. AppInv /\ [Next]_vars => AppInv'
  BY StepFits
<1> QED
  BY <1>1, <1>2, PTL DEF Spec

\* The variables keep their types: rr_factor of every proxy names a backend,
\* and an exported connection is only on its way between two servers that
\* start_connect joins.
THEOREM AppTypes == Spec => []TypeOK
<1>1. AppInv => TypeOK
  BY DEF AppInv
<1> QED
  BY <1>1, AppInvariant, PTL

\* With any number of backends, whatever stops and whichever writes fail: the
\* 200 for a PUT and the 204 for a DELETE are sent after every backend that
\* may be asked for the key has executed it.
THEOREM AcksAreEverywhere == Spec => []AckedEverywhere
<1>1. AppInv => AckedEverywhere
  BY SameMeaning DEF AppInv, StoresFit, AckedFit, AckedEverywhere
<1> QED
  BY <1>1, AppInvariant, PTL

\* handle_put stores and hands over in one callback, and neighbours of the
\* chain share one connection per worker: a backend has only what its
\* predecessor has, the PUTs of a worker in the same order.
THEOREM ReplicasAgree == Spec => []ReplicaOrder
<1>1. AppInv => ReplicaOrder
  BY SameMeaning DEF AppInv, StoresFit, OrderFits, ReplicaOrder
<1> QED
  BY <1>1, AppInvariant, PTL

\* The answer to a GET, from whichever backend the proxy's rr_factor picked,
\* is not older than an operation on the key that was acknowledged before the
\* GET was sent.
THEOREM ReadsAreFresh == Spec => []ReadsNotStale
<1>1. AppInv => ReadsNotStale
  BY SameMeaning DEF AppInv, StoresFit, ReadsFit, ReadFits, ReadsNotStale
<1> QED
  BY <1>1, AppInvariant, PTL

=============================================================================
