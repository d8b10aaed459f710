-------------------------------- MODULE Nodes ---------------------------------
(***************************************************************************)
(* Nodes (devices that run commands for the gateway) and node.invoke:      *)
(* openclaw/gateway/node_registry.py, its handlers in handlers.py and the  *)
(* clean-up of a connection in server.py.                                  *)
(*                                                                         *)
(* The registry knows a node by its id and keeps one connection for it.  A *)
(* call is sent over the registered connection; only when that send has    *)
(* returned is its future registered and its timer started.  The node      *)
(* answers with a request of its own, node.invoke.result.                  *)
(***************************************************************************)
EXTENDS Connections

CONSTANTS
  Node, NoNode,
  Peers,     \* who may open the connections: a set of functions on Conn
  NumCalls   \* bound: calls, numbered as they are made

Call == 1..NumCalls

ASSUME ConstantsAssumption ==
  /\ NoNode \notin Node /\ NumCalls \in Nat
  /\ Peers \subseteq [Conn -> Node \union {NoNode}]

VARIABLES
  peer,        \* who opens each connection: a node, or NoNode for an operator
  registered,  \* NodeRegistry._nodes: the connection of each node's entry
  phase,       \* of a call: "none", "sending", "pending", "settled", "over"
  from, to,    \* the connection that calls and the node that is called
  over,        \* the connection the request is sent over
  received,    \* whether the node gets the request
  outcome,     \* what the future of a settled call holds
  latest,      \* history: the last connection that connected as the node
  crossed      \* history: the entry was removed between lookup and future

callVars == <<phase, from, to, over, received, outcome, crossed>>
regVars == <<registered, latest>>
vars == <<connVars, callVars, regVars, peer>>

Outcomes == {"none", "ok", "TIMEOUT", "DISCONNECTED"}

Init ==
  /\ ConnInit /\ peer \in Peers
  /\ registered = [n \in Node |-> NoConn] /\ latest = [n \in Node |-> NoConn]
  /\ phase = [i \in Call |-> "none"] /\ outcome = [i \in Call |-> "none"]
  /\ from = [i \in Call |-> NoConn] /\ over = [i \in Call |-> NoConn]
  /\ to = [i \in Call |-> NoNode]
  /\ received = [i \in Call |-> FALSE] /\ crossed = [i \in Call |-> FALSE]

Unanswered == {i \in Call : phase[i] \in {"sending", "pending", "settled"}}

-----------------------------------------------------------------------------
(* Connections. *)

ConnectOperator(c) ==
  peer[c] = NoNode /\ Authenticate(c, "operator") /\ UNCHANGED <<callVars, regVars>>

(* register_node: the entry is overwritten, whatever connection it held.   *)
Register(c, n) == registered' = [registered EXCEPT ![n] = c]
ConnectNode(c) ==
  /\ peer[c] \in Node /\ Authenticate(c, "node") /\ Register(c, peer[c])
  /\ latest' = [latest EXCEPT ![peer[c]] = c]
  /\ UNCHANGED callVars

Close(c) == PeerCloses(c) /\ UNCHANGED <<callVars, regVars>>

(* unregister_node: the entry goes by node id, and with it all that waits  *)
(* for the node.                                                           *)
Disconnected_LeavesPending(n) == {}
Disconnected(n) == {i \in Call : phase[i] = "pending" /\ to[i] = n}
Unregister(n) ==
  LET cut == IF registered[n] = NoConn THEN {} ELSE Disconnected(n) IN
  /\ registered' = [registered EXCEPT ![n] = NoConn]
  /\ phase' = [i \in Call |-> IF i \in cut THEN "settled" ELSE phase[i]]
  /\ outcome' = [i \in Call |-> IF i \in cut THEN "DISCONNECTED" ELSE outcome[i]]
  /\ crossed' = [i \in Call |-> crossed[i] \/ (phase[i] = "sending" /\ to[i] = n)]
  /\ UNCHANGED <<from, to, over, received, latest>>
CleanUp(c) ==
  /\ LoopEnds(c)
  /\ IF peer[c] = NoNode THEN UNCHANGED <<callVars, regVars>>
     ELSE Unregister(peer[c])

-----------------------------------------------------------------------------
(* Calls (handle_node_invoke and NodeRegistry.invoke). *)

MayBegin(i) == phase[i] = "none" /\ \A j \in Call : j < i => phase[j] # "none"

(* NOT_CONNECTED is answered at once. *)
NotConnected(i, c, n) ==
  /\ MayBegin(i) /\ Reads(c) /\ registered[n] = NoConn
  /\ phase' = [phase EXCEPT ![i] = "over"]
  /\ UNCHANGED <<connVars, regVars, from, to, over, received, outcome, crossed>>

(* send_event writes at once, unless the socket is closed, and then awaits *)
(* the transport.                                                          *)
Invoke(i, c, n) ==
  /\ MayBegin(i) /\ Blocks(c) /\ registered[n] # NoConn
  /\ from' = [from EXCEPT ![i] = c] /\ to' = [to EXCEPT ![i] = n]
  /\ phase' = [phase EXCEPT ![i] = "sending"]
  /\ over' = [over EXCEPT ![i] = registered[n]]
  /\ received' = [received EXCEPT ![i] = ~closed[registered[n]]]
  /\ UNCHANGED <<regVars, outcome, crossed>>

(* The handler answers its caller, and nothing of the call is kept. *)
Answer(i) ==
  /\ phase' = [phase EXCEPT ![i] = "over"] /\ Unblocks(from[i])
  /\ outcome' = [outcome EXCEPT ![i] = "none"]
  /\ from' = [from EXCEPT ![i] = NoConn] /\ to' = [to EXCEPT ![i] = NoNode]
  /\ over' = [over EXCEPT ![i] = NoConn]
  /\ received' = [received EXCEPT ![i] = FALSE]
  /\ crossed' = [crossed EXCEPT ![i] = FALSE]
  /\ UNCHANGED regVars

(* Any other error of the transport: UNAVAILABLE. *)
SendFails_DropsEntry(i) ==
  /\ phase[i] = "sending" /\ phase' = [phase EXCEPT ![i] = "over"] /\ Unblocks(from[i])
  /\ registered' = [registered EXCEPT ![to[i]] = NoConn]
  /\ UNCHANGED <<from, to, over, received, outcome, crossed, latest>>
SendFails(i) == phase[i] = "sending" /\ Answer(i)

(* The future is registered, and only now the timer starts. *)
SendReturns(i) ==
  /\ phase[i] = "sending" /\ phase' = [phase EXCEPT ![i] = "pending"]
  /\ UNCHANGED <<connVars, regVars, from, to, over, received, outcome, crossed>>

Settle(i, result) ==
  /\ phase[i] = "pending" /\ phase' = [phase EXCEPT ![i] = "settled"]
  /\ outcome' = [outcome EXCEPT ![i] = result]

(* node.invoke.result, over any connection of the node.  A second answer,  *)
(* one that is late, and one that overtakes the registration of the future *)
(* find nothing to settle.                                                 *)
Result_FromAnyNode(d, i) ==
  /\ Reads(d) /\ stage[d] = "node"
  /\ Settle(i, "ok")
  /\ UNCHANGED <<connVars, regVars, from, to, over, received, crossed>>
Result(d, i) ==
  /\ Reads(d) /\ received[i] /\ peer[d] = to[i]
  /\ Settle(i, "ok")
  /\ UNCHANGED <<connVars, regVars, from, to, over, received, crossed>>

Timeout_OnlyIfConnected(i) ==
  /\ Settle(i, "TIMEOUT") /\ registered[to[i]] # NoConn
  /\ UNCHANGED <<connVars, regVars, from, to, over, received, crossed>>
Timeout(i) ==
  /\ Settle(i, "TIMEOUT")
  /\ UNCHANGED <<connVars, regVars, from, to, over, received, crossed>>

(* The handler wakes up. *)
Return(i) == phase[i] = "settled" /\ Answer(i)

-----------------------------------------------------------------------------
ConnectionStep ==
  \E c \in Conn : ConnectOperator(c) \/ ConnectNode(c) \/ Close(c) \/ CleanUp(c)
CallStep ==
  \E i \in Call :
    \/ \E c \in Conn, n \in Node : NotConnected(i, c, n) \/ Invoke(i, c, n)
    \/ SendFails(i) \/ SendReturns(i) \/ Timeout(i) \/ Return(i)
    \/ \E d \in Conn : Result(d, i)
Next == (ConnectionStep \/ CallStep) /\ UNCHANGED peer

Spec == Init /\ [][Next]_vars

(* Timers fire, woken handlers go on, and loops notice closed sockets; no  *)
(* order among them is assumed.  A send to a peer that has stopped reading *)
(* blocks until its socket closes; a node need not answer, nor anybody     *)
(* close.                                                                  *)
CallGoesOn(i) ==
  Timeout(i) \/ Return(i) \/ (phase[i] = "sending" /\ closed[over[i]] /\ SendReturns(i))
GoesOn ==
  /\ (\E i \in Call : CallGoesOn(i)) \/ \E c \in Conn : CleanUp(c)
  /\ UNCHANGED peer
FairSpec == Spec /\ WF_vars(GoesOn)

-----------------------------------------------------------------------------
(* Type correctness. *)
TypeOK ==
  /\ ConnTypeOK /\ peer \in Peers
  /\ registered \in [Node -> Conn \union {NoConn}]
  /\ latest \in [Node -> Conn \union {NoConn}]
  /\ phase \in [Call -> {"none", "sending", "pending", "settled", "over"}]
  /\ from \in [Call -> Conn \union {NoConn}]
  /\ to \in [Call -> Node \union {NoNode}]
  /\ over \in [Call -> Conn \union {NoConn}]
  /\ received \in [Call -> BOOLEAN] /\ crossed \in [Call -> BOOLEAN]
  /\ outcome \in [Call -> Outcomes]
  /\ \A i \in Unanswered : from[i] \in Conn /\ to[i] \in Node /\ over[i] \in Conn

(* An entry of the registry is the node's latest connection, and that one  *)
(* has not been cleaned up: no call is sent over a superseded connection   *)
(* or one whose end the gateway has seen.                                  *)
RegistryIsCurrent ==
  \A n \in Node : registered[n] # NoConn =>
    registered[n] = latest[n] /\ stage[latest[n]] = "node"

(* A node whose latest connection is there is NOT_CONNECTED in one case    *)
(* only: another connection of the same node has ended, whose clean-up took*)
(* the entry of the newer one.                                             *)
LostOnlyToReconnect ==
  \A n \in Node :
    latest[n] # NoConn /\ registered[n] = NoConn /\ stage[latest[n]] = "node" =>
      \E d \in Conn \ {latest[n]} : peer[d] = n /\ stage[d] = "gone"

(* Who waits for a node waits for one the registry holds: its end will     *)
(* settle the call.  The exception is a call that was being sent when the  *)
(* entry went away, which nothing but its timer ends.                      *)
PendingHasNode ==
  \A i \in Call :
    phase[i] \in {"sending", "pending"} /\ ~crossed[i] => registered[to[i]] # NoConn

(* A connection is deaf exactly while a call made on it is unanswered:     *)
(* calls of one connection never overlap, and none leaves it deaf.         *)
BusyIsOneCall ==
  /\ \A i, j \in Unanswered : from[i] = from[j] => i = j
  /\ \A c \in Conn : busy[c] <=> \E i \in Unanswered : from[i] = c

(* What the parts of the state are to each other, kept by every step.      *)
PeersAreRoles == \A c \in Conn : stage[c] = "operator" => peer[c] = NoNode
LatestIsOwn ==
  \A n \in Node : latest[n] # NoConn => peer[latest[n]] = n /\ stage[latest[n]] # "new"
UnsettledIsEmpty ==
  \A i \in Call : phase[i] \in {"none", "sending", "pending"} => outcome[i] = "none"
IInv ==
  /\ TypeOK /\ RegistryIsCurrent /\ BusyIsOneCall
  /\ PeersAreRoles /\ LatestIsOwn /\ UnsettledIsEmpty

(* Of a result, a time-out and a disconnect, the first one settles a call; *)
(* its outcome stays until the caller has it.                              *)
SettledOnce ==
  [][\A i \in Call : phase[i] = "settled" =>
       phase'[i] = "over" \/ (phase'[i] = "settled" /\ outcome'[i] = outcome[i])]_vars

(* Nodes that wait for each other's answers get none: while each node of a *)
(* set can be heard only over connections that themselves wait for a node  *)
(* of the set, no call of the set ends with a result.  A node that invokes *)
(* itself is the smallest such set.                                        *)
Deadlocked(S) ==
  \A n \in S : \A d \in Conn : peer[d] = n /\ stage[d] = "node" =>
    \E i \in Call : from[i] = d /\ to[i] \in S /\ phase[i] = "pending"
CircleGetsNoResult ==
  [][\A S \in SUBSET Node : Deadlocked(S) =>
       \A i \in Call : to[i] \in S /\ phase[i] = "pending" => outcome'[i] # "ok"]_vars

(* Once its send is through, a call is answered; a send is through at      *)
(* the latest when the socket it goes over closes.                         *)
EveryCallAnswered ==
  \A i \in Call :
    phase[i] \in {"pending", "settled"} \/ (phase[i] = "sending" /\ closed[over[i]])
      ~> phase[i] = "over"
=============================================================================
