----------------------------- MODULE FlowOwner -----------------------------
(***************************************************************************)
(* What the handoff protocol promises, without the switch, the sockets and *)
(* the messages: a connection is held by one server or is in transit; the  *)
(* requests of its client are answered in order, each once, and only by    *)
(* the server that holds the connection.                                   *)
(***************************************************************************)
EXTENDS Naturals

CONSTANTS Flows, Servers

VARIABLES
  holder,   \* [Flows -> sets of servers]: who can read and write it
  transit,  \* [Flows -> BOOLEAN]: its state is on the way between servers
  req,      \* [Flows -> Nat]: requests the client has sent
  resp      \* [Flows -> Nat]: responses the client has received

vars == <<holder, transit, req, resp>>

Init ==
  /\ holder = [f \in Flows |-> {}]
  /\ transit = [f \in Flows |-> FALSE]
  /\ req = [f \in Flows |-> 0]
  /\ resp = [f \in Flows |-> 0]

Free(f) == holder[f] = {} /\ ~transit[f]

Connect(f, s) ==
  /\ Free(f)
  /\ holder' = [holder EXCEPT ![f] = {s}]
  /\ req' = [req EXCEPT ![f] = 0]
  /\ resp' = [resp EXCEPT ![f] = 0]
  /\ UNCHANGED transit

Ask(f) ==
  /\ resp[f] = req[f]
  /\ req' = [req EXCEPT ![f] = @ + 1]
  /\ UNCHANGED <<holder, transit, resp>>

Reply(f) ==
  /\ holder[f] # {}
  /\ resp[f] < req[f]
  /\ resp' = [resp EXCEPT ![f] = req[f]]
  /\ UNCHANGED <<holder, transit, req>>

Release(f) ==
  /\ holder[f] # {}
  /\ holder' = [holder EXCEPT ![f] = {}]
  /\ transit' = [transit EXCEPT ![f] = TRUE]
  /\ UNCHANGED <<req, resp>>

Take(f, s) ==
  /\ transit[f]
  /\ holder[f] = {}
  /\ holder' = [holder EXCEPT ![f] = {s}]
  /\ transit' = [transit EXCEPT ![f] = FALSE]
  /\ UNCHANGED <<req, resp>>

\* Connections end, one that is closed or all those of a process that dies.
End(F) ==
  /\ holder' = [f \in Flows |-> IF f \in F THEN {} ELSE holder[f]]
  /\ transit' = [f \in Flows |-> transit[f] /\ f \notin F]
  /\ UNCHANGED <<req, resp>>

Next ==
  \/ \E f \in Flows, s \in Servers : Connect(f, s) \/ Take(f, s)
  \/ \E f \in Flows : Ask(f) \/ Reply(f) \/ Release(f)
  \/ \E F \in SUBSET Flows : End(F)

Spec == Init /\ [][Next]_vars

=============================================================================
