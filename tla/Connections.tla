------------------------------ MODULE Connections ------------------------------
(***************************************************************************)
(* WebSocket connections of the gateway (openclaw/gateway/server.py).  Each *)
(* connection has one loop, `async for msg in ws', that awaits the handler *)
(* of a request before it reads the next one: while a handler waits, the   *)
(* connection is deaf, to its peer's later requests and to its own closing.*)
(* What was received before the socket closed is still handled after it.   *)
(*                                                                         *)
(* Nodes and Approvals extend this module with the handlers that wait and  *)
(* the clean-up that the end of a connection makes.                        *)
(***************************************************************************)
EXTENDS Naturals

CONSTANT NumConns  \* bound: connections, numbered as their `connect' succeeds

Conn == 1..NumConns
NoConn == 0

ASSUME NumConnsAssumption == NumConns \in Nat

VARIABLES
  stage,   \* "new" (nothing but `connect' is served), a role, or "gone"
  closed,  \* whether the socket is closed
  busy     \* whether a handler of the connection waits for something

connVars == <<stage, closed, busy>>
Roles == {"operator", "node"}

ConnTypeOK ==
  /\ stage \in [Conn -> {"new", "gone"} \union Roles]
  /\ closed \in [Conn -> BOOLEAN] /\ busy \in [Conn -> BOOLEAN]

ConnInit ==
  /\ stage = [c \in Conn |-> "new"]
  /\ closed = [c \in Conn |-> FALSE] /\ busy = [c \in Conn |-> FALSE]

(* The loop of c is free to take the next request. *)
Reads_Always(c) == stage[c] \in Roles
Reads(c) == stage[c] \in Roles /\ ~busy[c]

(* `connect' succeeds; it is the first request that is served. *)
Authenticate(c, role) ==
  /\ stage[c] = "new" /\ \A b \in Conn : b < c => stage[b] # "new"
  /\ stage' = [stage EXCEPT ![c] = role]
  /\ UNCHANGED <<closed, busy>>

(* The peer goes away, or the network does. *)
PeerCloses(c) ==
  /\ stage[c] \in Roles /\ ~closed[c] /\ closed' = [closed EXCEPT ![c] = TRUE]
  /\ UNCHANGED <<stage, busy>>

(* The loop of c begins, or ends, to wait in a handler. *)
Blocks(c) == Reads(c) /\ busy' = [busy EXCEPT ![c] = TRUE] /\ UNCHANGED <<stage, closed>>
Unblocks(c) == busy' = [busy EXCEPT ![c] = FALSE] /\ UNCHANGED <<stage, closed>>

(* The loop finds the socket closed; the `finally' of handle_websocket.    *)
LoopEnds(c) ==
  /\ Reads(c) /\ closed[c]
  /\ stage' = [stage EXCEPT ![c] = "gone"] /\ UNCHANGED <<closed, busy>>
=============================================================================
