---------------------------- MODULE Applications ----------------------------
(***************************************************************************)
(* The applications of src/apps: where their request handlers send a       *)
(* connection and what they store.                                         *)
(*                                                                         *)
(* kvs-repl: a proxy hands a GET to the backends in turn and a PUT to the  *)
(* first of a chain; each stores the value and hands the connection on to  *)
(* the next, and the last answers.  kvs: the proxy hands every request to  *)
(* the backend that the hash of its path names.  bench: the proxy hands    *)
(* requests for objects to the backends in turn, and nothing is stored.    *)
(*                                                                         *)
(* Server 0 is the proxy, 1..N the backends.  The proxy is one process per *)
(* worker, a backend of a store one process with a thread per worker and   *)
(* one LevelDB, and one of bench again a process per worker.  Worker w     *)
(* talks to worker w of the others.  What module Handoff describes is one  *)
(* step here: an exported connection is a message on the TCP connection    *)
(* between two servers, and it is imported by the server whose handler     *)
(* answers.                                                                *)
(***************************************************************************)
EXTENDS Integers, Sequences, FiniteSets

CONSTANTS
  Programs,   \* which of the applications
  N,          \* backends: the proxy's list, and the chain of kvs-repl
  Workers,    \* workers of every server
  Clients,    \* connections of clients
  WorkerOf,   \* the worker whose proxy accepted each connection
  Keys,       \* paths
  Hash,       \* jenkins_hash of each
  Late,       \* connections between servers not yet made at the start
  Faults,     \* LevelDB may fail
  MaxStops,   \* bound: no process stops by itself when so many have stopped
  Script      \* bound: the methods to choose from for each of a client's
              \* requests, in order, with each application

\* EMPTY is a PUT without a body; POST stands for all methods that no handler
\* knows.  bench only looks at the path: an object that fits the response
\* buffer, one that does not, or no number.
Methods == {"GET", "PUT", "EMPTY", "DELETE", "POST", "OBJECT", "HUGE", "TEXT"}

Servers == 0..N

Chain == 1..N

\* The connections of start_connect: <<from, to, worker>>.
Conns == {x \in Servers \X Servers \X Workers :
            \/ x[1] = 0 /\ x[2] # 0
            \/ x[1] # 0 /\ x[2] = 0
            \/ x[1] # 0 /\ x[2] = x[1] + 1}

\* The proxy of kvs asserts that it has no more than five backends to choose
\* from.
ASSUME ApplicationsAssumption ==
  /\ Programs \subseteq {"kvs-repl", "kvs", "bench"}
  /\ N \in Nat \ {0}
  /\ "kvs" \in Programs => N <= 5
  /\ Hash \in [Keys -> Nat]
  /\ Workers \cap Servers = {}
  /\ WorkerOf \in [Clients -> Workers]
  /\ Late \subseteq Conns
  /\ Faults \in BOOLEAN
  /\ MaxStops \in Nat
  /\ Script \in [Programs -> [Clients -> Seq(SUBSET Methods)]]

VARIABLES
  app,     \* the application
  up,      \* connections between servers that are made
  chan,    \* [Conns -> handed over clients, in order]
  db,      \* [Chain -> the PUTs and DELETEs its LevelDB has executed]
  rr,      \* [Workers -> rr_factor of its proxy, the backend whose turn it is]
  client,  \* [Clients -> its connection, its request and the response]
  acked,   \* PUTs answered with 200 and DELETEs answered with 204
  dead     \* processes that have stopped

vars == <<app, up, chan, db, rr, client, acked, dead>>

\* A PUT or a DELETE, told apart by its client and number.
Ops == [c: Clients, n: Nat, key: Keys, del: BOOLEAN]

NoOp == [n |-> 0]

\* at: the server that has the connection when phase is "idle" or "asked".
\* status: that of the last response.  val: the operation whose effect a GET
\* has seen.  before: the operations that had been acknowledged when the
\* request was sent.
ClientStates ==
  [at: Servers, phase: {"idle", "asked", "handed"}, n: Nat,
   method: Methods, key: Keys, before: SUBSET Ops,
   status: {0, 200, 204, 400, 404, 405, 500}, val: Ops \cup {NoOp}]

\* The connections and the processes of the application.
Links == IF app = "kvs-repl" THEN Conns
         ELSE {x \in Conns : x[1] = 0 \/ x[2] = 0}

Process(s, w) == IF s = 0 \/ app = "bench" THEN <<s, w>> ELSE <<s>>

Processes == {Process(s, w) : s \in Servers, w \in Workers}

TypeOK ==
  /\ app \in Programs
  /\ up \subseteq Links
  /\ chan \in [Conns -> Seq(Clients)]
  /\ db \in [Chain -> Seq(Ops)]
  /\ rr \in [Workers -> Chain]
  /\ client \in [Clients -> ClientStates]
  /\ acked \subseteq Ops
  /\ dead \subseteq Processes

Init ==
  /\ app \in Programs
  /\ up = Links \ Late
  /\ chan = [x \in Conns |-> <<>>]
  /\ db = [b \in Chain |-> <<>>]
  /\ rr = [w \in Workers |-> 1]
  /\ client \in [Clients -> {[at |-> 0, phase |-> "idle", n |-> 0,
                              method |-> "GET", key |-> k, before |-> {},
                              status |-> 0, val |-> NoOp] : k \in Keys}]
  /\ acked = {}
  /\ dead = {}

-----------------------------------------------------------------------------
(* Processes and the connections between them.                             *)

Alive(s, w) == Process(s, w) \notin dead

\* try_connect: tried every second until the other server listens.
try_connect(x) ==
  /\ x \in Links \ up
  /\ Alive(x[1], x[3]) /\ Alive(x[2], x[3])
  /\ up' = up \cup {x}
  /\ UNCHANGED <<app, chan, db, rr, client, acked, dead>>

Stop(p) ==
  /\ Cardinality(dead) < MaxStops
  /\ p \in Processes \ dead
  /\ dead' = dead \cup {p}
  /\ UNCHANGED <<app, up, chan, db, rr, client, acked>>

\* What uv_write does to the connections, and to the writing process:
\* handoff_done, forward_done and their callers assert that it succeeds.
\* read is what chan is without the message that is being handled.
Write(s, t, c, read) ==
  LET w == WorkerOf[c]
      x == <<s, t, w>>
  IN  \/ /\ x \in up
         /\ Alive(t, w)
         /\ chan' = [read EXCEPT ![x] = Append(@, c)]
         /\ UNCHANGED dead
      \/ /\ x \notin up \/ ~Alive(t, w)
         /\ chan' = read
         /\ dead' = dead \cup {Process(s, w)}
      \/ /\ x \in up
         /\ ~Alive(t, w)           \* the peer's reset has not arrived yet
         /\ chan' = read
         /\ UNCHANGED dead

HandOver(s, t, c, read) ==
  /\ Write(s, t, c, read)
  /\ client' = [client EXCEPT ![c].phase = "handed"]

\* A response, after importing the connection if it was handed over.
Respond(s, c, read, status, val) ==
  /\ client' = [client EXCEPT ![c] =
                  [@ EXCEPT !.at = s, !.phase = "idle",
                            !.status = status, !.val = val]]
  /\ chan' = read
  /\ UNCHANGED dead

-----------------------------------------------------------------------------
(* The clients (external).                                                 *)

ClientSend(c, method, key) ==
  /\ client[c].phase = "idle"
  /\ client[c].n < Len(Script[app][c])
  /\ method \in Script[app][c][client[c].n + 1]
  /\ client' = [client EXCEPT ![c] =
                  [@ EXCEPT !.phase = "asked", !.n = client[c].n + 1,
                            !.method = method, !.key = key, !.before = acked]]
  /\ UNCHANGED <<app, up, chan, db, rr, acked, dead>>

-----------------------------------------------------------------------------
(* The request handlers of the proxies.                                    *)

\* Mutant: the comparison is off by one.
TurnTooFar(b) == IF b = N + 1 THEN 1 ELSE b + 1

\* The wrap around of rr_factor.
NextInTurn(b) == IF b = N THEN 1 ELSE b + 1

\* To the backend whose turn it is.
HandOverInTurn(c, read) ==
  LET w == WorkerOf[c]
  IN  /\ HandOver(0, rr[w], c, read)
      /\ rr' = [rr EXCEPT ![w] = NextInTurn(@)]

\* Mutant: PUTs take turns too.
ProxyBalancesPuts(c, read) ==
  \/ /\ client[c].method \in {"GET", "PUT", "EMPTY"}
     /\ HandOverInTurn(c, read)
  \/ /\ client[c].method \in {"DELETE", "POST"}
     /\ Respond(0, c, read, 0, NoOp)
     /\ UNCHANGED rr

\* kvs-repl.  For methods other than GET and PUT the response is left as it
\* was made, with status 0, and that is answered.
kvs_repl_proxy_request_handler(c, read) ==
  \/ /\ client[c].method = "GET"
     /\ HandOverInTurn(c, read)
  \/ /\ client[c].method \in {"PUT", "EMPTY"}
     /\ HandOver(0, 1, c, read)
     /\ UNCHANGED rr
  \/ /\ client[c].method \in {"DELETE", "POST"}
     /\ Respond(0, c, read, 0, NoOp)
     /\ UNCHANGED rr

\* kvs: all requests for a path go to one backend.
Shard(key) == 1 + (Hash[key] % N)

kvs_proxy_request_handler(c, read) ==
  /\ HandOver(0, Shard(client[c].key), c, read)
  /\ UNCHANGED rr

\* Mutant: the response to a path without a number is not sent.
BenchProxyForgets(c, read) ==
  \/ /\ client[c].method = "TEXT"
     /\ chan' = read
     /\ UNCHANGED <<rr, client, dead>>
  \/ /\ client[c].method # "TEXT"
     /\ HandOverInTurn(c, read)

bench_proxy_request_handler(c, read) ==
  \/ /\ client[c].method = "TEXT"
     /\ Respond(0, c, read, 500, NoOp)
     /\ UNCHANGED rr
  \/ /\ client[c].method # "TEXT"
     /\ HandOverInTurn(c, read)

proxy_request_handler(c, read) ==
  CASE app = "kvs-repl" -> kvs_repl_proxy_request_handler(c, read)
    [] app = "kvs"      -> kvs_proxy_request_handler(c, read)
    [] app = "bench"    -> bench_proxy_request_handler(c, read)

-----------------------------------------------------------------------------
(* Those of the backends, for a connection they were handed.               *)

OpOf(c) == [c |-> c, n |-> client[c].n, key |-> client[c].key,
            del |-> client[c].method = "DELETE"]

\* The last operation of a backend on the key, which db->Get shows.
Get(b, key) ==
  LET ops == {i \in 1..Len(db[b]) : db[b][i].key = key}
  IN  IF ops = {} THEN NoOp
      ELSE db[b][CHOOSE i \in ops : \A j \in ops : j <= i]

handle_get(b, c, read) ==
  /\ client[c].method = "GET"
  /\ LET val == Get(b, client[c].key)
     IN  \/ Respond(b, c, read,
                    IF val = NoOp THEN 404 ELSE IF val.del THEN 404 ELSE 200,
                    val)
         \/ Faults /\ Respond(b, c, read, 500, NoOp)
  /\ UNCHANGED <<db, acked>>

\* The store has executed the operation, and the client is told.
Acknowledge(b, c, read, status) ==
  /\ Respond(b, c, read, status, NoOp)
  /\ acked' = acked \cup {OpOf(c)}

Execute(b, c) == db' = [db EXCEPT ![b] = Append(@, OpOf(c))]

\* The request is answered without an effect.
Reject(b, c, read, status) ==
  /\ Respond(b, c, read, status, NoOp)
  /\ UNCHANGED <<db, acked>>

\* next_server, which only kvs-repl has.
HasNext(b) == app = "kvs-repl" /\ b < N

\* Mutant: the head of the chain answers.
PutAnsweredByHead(b, c, read) ==
  /\ client[c].method = "PUT"
  /\ Execute(b, c)
  /\ Acknowledge(b, c, read, 200)

\* Mutant: a failed write is passed on.
PutIgnoresFailure(b, c, read) ==
  /\ client[c].method = "PUT"
  /\ Execute(b, c) \/ (Faults /\ UNCHANGED db)
  /\ \/ HasNext(b) /\ HandOver(b, b + 1, c, read) /\ UNCHANGED acked
     \/ ~HasNext(b) /\ Acknowledge(b, c, read, 200)

handle_put(b, c, read) ==
  \/ /\ client[c].method = "PUT"
     /\ Execute(b, c)
     /\ \/ HasNext(b) /\ HandOver(b, b + 1, c, read) /\ UNCHANGED acked
        \/ ~HasNext(b) /\ Acknowledge(b, c, read, 200)
  \/ /\ client[c].method = "PUT"
     /\ Faults
     /\ Reject(b, c, read, 500)
  \/ /\ client[c].method = "EMPTY"
     /\ Reject(b, c, read, 400)

\* DELETE and methods that are not known.  With kvs-repl they do not come
\* here: the proxy answers them.
handle_other(b, c, read) ==
  \/ /\ client[c].method = "DELETE"
     /\ Execute(b, c)
     /\ Acknowledge(b, c, read, 204)
  \/ /\ client[c].method = "DELETE"
     /\ Faults
     /\ Reject(b, c, read, 500)
  \/ /\ client[c].method = "POST"
     /\ Reject(b, c, read, 405)

kvs_backend_request_handler(b, c, read) ==
  handle_get(b, c, read) \/ handle_put(b, c, read) \/ handle_other(b, c, read)

\* bench: membuf_consume fails for an object larger than the response buffer,
\* and an assertion ends the process.
bench_backend_request_handler(b, c, read) ==
  \/ /\ client[c].method = "OBJECT"
     /\ Reject(b, c, read, 200)
  \/ /\ client[c].method = "HUGE"
     /\ chan' = read
     /\ dead' = dead \cup {Process(b, WorkerOf[c])}
     /\ UNCHANGED <<client, db, acked>>

backend_request_handler(b, c, read) ==
  IF app = "bench" THEN bench_backend_request_handler(b, c, read)
                   ELSE kvs_backend_request_handler(b, c, read)

-----------------------------------------------------------------------------
(* Where the handlers are called.                                          *)

\* phttp_on_read at the proxy.
proxy_on_read(c) ==
  /\ client[c].phase = "asked"
  /\ client[c].at = 0
  /\ Alive(0, WorkerOf[c])
  /\ proxy_request_handler(c, chan)
  /\ UNCHANGED <<app, up, db, acked>>

\* phttp_on_read at a backend: what is not imported goes to the proxy.
backend_on_read(c) ==
  /\ client[c].phase = "asked"
  /\ client[c].at # 0
  /\ Alive(client[c].at, WorkerOf[c])
  /\ HandOver(client[c].at, 0, c, chan)
  /\ UNCHANGED <<app, up, db, rr, acked>>

\* phttp_on_handoff for the first message of a connection.
on_handoff(x) ==
  /\ chan[x] # <<>>
  /\ Alive(x[2], x[3])
  /\ LET c    == Head(chan[x])
         read == [chan EXCEPT ![x] = Tail(@)]
     IN  \/ /\ x[2] = 0
            /\ proxy_request_handler(c, read)
            /\ UNCHANGED <<db, acked>>
         \/ /\ x[2] # 0
            /\ backend_request_handler(x[2], c, read)
            /\ UNCHANGED rr
  /\ UNCHANGED <<app, up>>

Next ==
  \/ \E x \in Conns : try_connect(x) \/ on_handoff(x)
  \/ \E p \in Processes : Stop(p)
  \/ \E c \in Clients :
       \/ \E m \in Methods, k \in Keys : ClientSend(c, m, k)
       \/ proxy_on_read(c)
       \/ backend_on_read(c)

Spec == Init /\ [][Next]_vars

\* Event loops and the links between servers keep working.
FairSpec ==
  /\ Spec
  /\ \A x \in Conns : WF_vars(on_handoff(x))
  /\ \A c \in Clients : WF_vars(proxy_on_read(c)) /\ WF_vars(backend_on_read(c))

-----------------------------------------------------------------------------
(* Properties.                                                             *)

\* The place of an operation in what a backend has executed, 0 if it has not.
Place(b, p) ==
  IF \E i \in 1..Len(db[b]) : db[b][i] = p
  THEN CHOOSE i \in 1..Len(db[b]) : db[b][i] = p
  ELSE 0

\* The backends that may be asked for a key.
Holders(key) == IF app = "kvs" THEN {Shard(key)} ELSE Chain

\* A PUT or DELETE that was acknowledged has been executed by every backend
\* that may be asked for its key, also by those that have stopped since: with
\* kvs-repl the last of the chain answers after all the others.
AckedEverywhere ==
  \A p \in acked : \A b \in Holders(p.key) : Place(b, p) # 0

\* A backend of the chain stores what its predecessor has stored, and the
\* PUTs of one worker in the same order.  This rests on one connection per
\* worker between neighbours and on a handler that stores and hands over in
\* one callback.
ReplicaOrder ==
  app = "kvs-repl" =>
    \A b \in Chain \ {1} : \A i, j \in 1..Len(db[b]) :
      LET p == db[b][i]
          q == db[b][j]
      IN  /\ Place(b - 1, p) # 0
          /\ i < j /\ WorkerOf[p.c] = WorkerOf[q.c] =>
               Place(b - 1, p) < Place(b - 1, q)

\* Whichever backend answers a GET, with a value or with 404, the answer is
\* not older, in that backend's order, than any PUT or DELETE of the key that
\* was acknowledged before the GET was sent.
ReadsNotStale ==
  \A c \in Clients :
    client[c].phase = "idle" /\ client[c].n > 0 /\ client[c].method = "GET"
      /\ client[c].status \in {200, 404} =>
        \A p \in client[c].before : p.key = client[c].key =>
          Place(client[c].at, p) \in 1..Place(client[c].at, client[c].val)

\* A request is answered unless one of the processes that serve its worker
\* stops: those of another worker do no harm.
Answered ==
  \A c \in Clients : client[c].phase # "idle" ~>
    \/ client[c].phase = "idle"
    \/ \E s \in Servers : ~Alive(s, WorkerOf[c])

=============================================================================
