----------------------------- MODULE MCHandoff -----------------------------
(***************************************************************************)
(* Small instances of Handoff.  The proxy hands a request to a backend     *)
(* or answers it itself (the 500 of the bench proxy); a backend hands a    *)
(* request it read from the client back to the proxy.                      *)
(***************************************************************************)
EXTENDS Handoff, TLC

CONSTANTS proxy, b1, b2, c1, c2

\* The backends of bench are interchangeable (used with safety properties).
BackendSymmetry == Permutations({b1, b2})

\* bench and kvs: every backend answers what is handed to it.
StarRoutes ==
  [s \in Servers |->
     IF s = proxy THEN [i \in BOOLEAN |-> Servers \ {proxy}]
                  ELSE (TRUE :> {Answer} @@ FALSE :> {proxy})]

\* bench with a bad path now and then: the proxy answers too.
BenchRoutes ==
  [s \in Servers |->
     IF s = proxy THEN [i \in BOOLEAN |-> {Answer} \cup (Servers \ {proxy})]
                  ELSE (TRUE :> {Answer} @@ FALSE :> {proxy})]

\* kvs-repl: b1 answers a GET and forwards a PUT along the chain to b2.
ChainRoutes ==
  [s \in Servers |->
     CASE s = proxy -> [i \in BOOLEAN |-> {b1, b2}]
       [] s = b1 -> (TRUE :> {Answer, b2} @@ FALSE :> {proxy})
       [] s = b2 -> (TRUE :> {Answer} @@ FALSE :> {proxy})]
=============================================================================
