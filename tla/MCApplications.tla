--------------------------- MODULE MCApplications ---------------------------
(***************************************************************************)
(* A small instance of Applications: two workers, two clients of the first.*)
(***************************************************************************)
EXTENDS Applications

CONSTANTS w1, w2, c1, c2, c3

OneAlone == [c \in Clients |-> IF c = c3 THEN w2 ELSE w1]

\* The first client goes on where it was answered; the others only ask once.
ReplScript(c) ==
  CASE c = c1 -> <<{"PUT"}, {"GET", "PUT", "EMPTY", "DELETE"}>>
    [] c = c2 -> <<{"PUT", "GET"}>>
    [] c = c3 -> <<{"PUT", "DELETE"}>>

KvsScript(c) ==
  CASE c = c1 -> <<{"PUT"}, {"GET", "DELETE"}>>
    [] c = c2 -> <<{"DELETE", "EMPTY", "POST"}>>
    [] c = c3 -> <<{"PUT", "GET"}>>

BenchScript(c) ==
  CASE c = c1 -> <<{"OBJECT", "TEXT"}, {"OBJECT", "TEXT"}>>
    [] c = c2 -> <<{"OBJECT"}>>
    [] c = c3 -> <<{"OBJECT", "HUGE"}>>

Scripts ==
  [a \in Programs |-> [c \in Clients |->
     IF a = "kvs-repl" THEN ReplScript(c)
     ELSE IF a = "kvs" THEN KvsScript(c) ELSE BenchScript(c)]]

LastShard == [k \in Keys |-> 2 * N - 1]

\* The connection between the first two backends of the first worker.
SlowLink == {<<1, 2, w1>>}
=============================================================================
