---------------------------- MODULE PrismSwitch ----------------------------
(***************************************************************************)
(* The programmable switch (switch/src/cpp/prism_switch.bpf.c): the rule   *)
(* table `prism', the handlers of the configuration requests and the two   *)
(* lookups that steer the TCP segments of a flow.                          *)
(*                                                                         *)
(* A flow is the client's address and port, the key of a rule.  A rule     *)
(* gives the server that owns the flow and a lock byte; its virtual        *)
(* address is left out because it is always that of Front, the only        *)
(* server that clients dial.  The table is a function whose domain is the  *)
(* set of keys present, as in a BPF hash map.                              *)
(***************************************************************************)
EXTENDS Naturals, FiniteSets

CONSTANTS
  Flows,         \* client endpoints, the keys of the rule table
  Servers,       \* the proxy and the backends
  Front,         \* the server that clients connect to (virtual address)
  RuleCapacity   \* size of the BPF hash map (2048 in the source)

ASSUME SwitchAssumption ==
  /\ Front \in Servers
  /\ IsFiniteSet(Flows)
  /\ RuleCapacity \in Nat \ {0}

RequestTypes == {"ADD", "DELETE", "CHOWN", "LOCK", "UNLOCK"}

Rules == [owner: Servers, locked: {0, 1}]

\* The values the table can take.
RuleTables == UNION {[D -> Rules] : D \in SUBSET Flows}

EmptyTable == [f \in {} |-> [owner |-> Front, locked |-> 0]]

-----------------------------------------------------------------------------
(* Map operations.  An update fails when it would add a key to a full map. *)

Update(prism, f, val) ==
  [g \in DOMAIN prism \cup {f} |-> IF g = f THEN val ELSE prism[g]]

Delete(prism, f) == [g \in DOMAIN prism \ {f} |-> prism[g]]

\* The result of a handler: the table it leaves and the error it returns.
Result(prism, error) == [table |-> prism, error |-> error]

-----------------------------------------------------------------------------
(* The handlers.  A request names the server that sent it, its flow and    *)
(* its type; ADD installs the sender as the owner of a locked rule, CHOWN  *)
(* makes the sender the owner and has its unlock byte set.                 *)

\* Mutant: the new rule is not locked.
AddUnlocked(prism, req) ==
  IF req.flow \in DOMAIN prism
  THEN Result(prism, "EEXIST")
  ELSE Result(Update(prism, req.flow, [owner |-> req.srv, locked |-> 0]), "OK")

config_handle_add_req(prism, req) ==
  IF req.flow \in DOMAIN prism
  THEN Result(prism, "EEXIST")
  ELSE IF Cardinality(DOMAIN prism) >= RuleCapacity
       THEN Result(prism, "E2BIG")
       ELSE Result(Update(prism, req.flow,
                          [owner |-> req.srv, locked |-> 1]), "OK")

config_handle_delete_req(prism, req) ==
  IF req.flow \in DOMAIN prism
  THEN Result(Delete(prism, req.flow), "OK")
  ELSE Result(prism, "ENOENT")

\* Mutant: the lock byte as a counter of lock requests.
CountLocks(locked) == locked + 1

\* new_val.locked == 1 ? 0 : 1, and the same the other way round for LOCK:
\* over {0, 1} all three assignments flip the byte.
Flip(locked) == 1 - locked

config_handle_chown_req(prism, req) ==
  IF req.flow \in DOMAIN prism
  THEN Result(Update(prism, req.flow,
                     [owner  |-> req.srv,
                      locked |-> Flip(prism[req.flow].locked)]), "OK")
  ELSE Result(prism, "ENOENT")

\* Mutant: bpf_map_update_elem is forgotten.
LockWithoutUpdate(prism, req) ==
  Result(prism, IF req.flow \in DOMAIN prism THEN "OK" ELSE "ENOENT")

config_handle_lock_req(prism, req) ==
  IF req.flow \in DOMAIN prism
  THEN Result(Update(prism, req.flow,
                     [prism[req.flow] EXCEPT !.locked = Flip(@)]), "OK")
  ELSE Result(prism, "ENOENT")

config_handle_unlock_req(prism, req) ==
  IF req.flow \in DOMAIN prism
  THEN Result(Update(prism, req.flow,
                     [prism[req.flow] EXCEPT !.locked = Flip(@)]), "OK")
  ELSE Result(prism, "ENOENT")

configure_switch(prism, req) ==
  CASE req.type = "ADD"    -> config_handle_add_req(prism, req)
    [] req.type = "DELETE" -> config_handle_delete_req(prism, req)
    [] req.type = "CHOWN"  -> config_handle_chown_req(prism, req)
    [] req.type = "LOCK"   -> config_handle_lock_req(prism, req)
    [] req.type = "UNLOCK" -> config_handle_unlock_req(prism, req)

(* The reply is the request turned round.  Its status field stays 0 even   *)
(* when the handler failed, but the UDP checksum is adjusted for the error *)
(* code, so it matches the bytes only when there was no error.             *)
config_prepare_response(req, error) ==
  [kind |-> "reply", req |-> req, csum_ok |-> (error = "OK")]

-----------------------------------------------------------------------------
(* The lookups.  A locked rule drops the segments of the flow both ways.   *)

Locked(prism, f) == f \in DOMAIN prism /\ prism[f].locked = 1

\* A segment of the client f, addressed to Front, goes to the owner.
prism_in_lookup(prism, f) ==
  IF f \in DOMAIN prism THEN prism[f].owner ELSE Front

\* Whether a segment that server s sends to f reaches f with the virtual
\* address as its source, the only source the client's TCP accepts.
prism_out_lookup(prism, s, f) ==
  IF f \in DOMAIN prism THEN prism[f].locked = 0 ELSE s = Front

=============================================================================
