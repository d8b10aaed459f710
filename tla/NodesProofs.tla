------------------------------ MODULE NodesProofs ------------------------------
(***************************************************************************)
(* Proofs about Nodes, for any number of nodes, connections and calls.     *)
(***************************************************************************)
EXTENDS Nodes, TLAPS

(* The steps of a call that leave connections, entries and its parties as  *)
(* they are, and move it from one phase to another.                        *)
Moves(i, before, after) ==
  /\ phase[i] \in before /\ phase' = [phase EXCEPT ![i] = after]
  /\ UNCHANGED <<connVars, regVars, from, to, over, received, crossed, peer>>

LEMMA CallMoves ==
  ASSUME NEW i \in Call, UNCHANGED peer
  PROVE  /\ SendReturns(i) => Moves(i, {"sending"}, "pending") /\ outcome' = outcome
         /\ Timeout(i) => /\ Moves(i, {"pending"}, "settled")
                          /\ outcome' = [outcome EXCEPT ![i] = "TIMEOUT"]
         /\ \A d \in Conn : Result(d, i) =>
              /\ Moves(i, {"pending"}, "settled")
              /\ outcome' = [outcome EXCEPT ![i] = "ok"]
         /\ \A c \in Conn, n \in Node : NotConnected(i, c, n) =>
              Moves(i, {"none"}, "over") /\ outcome' = outcome
BY DEF SendReturns, Timeout, Result, Settle, NotConnected, MayBegin, Moves

(* What Next is made of, seen from what the proofs distinguish.            *)
LEMMA NextCases ==
  ASSUME [Next]_vars
  PROVE  /\ peer' = peer
         /\ \/ \E c \in Conn : ConnectOperator(c) \/ ConnectNode(c) \/ Close(c) \/ CleanUp(c)
            \/ \E i \in Call, c \in Conn, n \in Node : Invoke(i, c, n)
            \/ \E i \in Call : phase[i] \in {"sending", "settled"} /\ Answer(i)
            \/ \E i \in Call : Moves(i, {"sending"}, "pending") /\ outcome' = outcome
            \/ \E i \in Call : Moves(i, {"none"}, "over") /\ outcome' = outcome
            \/ \E i \in Call, o \in {"ok", "TIMEOUT"} :
                 /\ Moves(i, {"pending"}, "settled")
                 /\ outcome' = [outcome EXCEPT ![i] = o]
            \/ UNCHANGED vars
<1>1. CASE UNCHANGED vars
  BY <1>1 DEF vars
<1>2. CASE Next
  <2>1. UNCHANGED peer
    BY <1>2 DEF Next
  <2>2. CASE ConnectionStep
    BY <2>1, <2>2 DEF ConnectionStep
  <2>3. CASE CallStep
    BY <2>1, <2>3, CallMoves DEF CallStep, SendFails, Return
  <2> QED
    BY <1>2, <2>1, <2>2, <2>3 DEF Next
<1> QED
  BY <1>1, <1>2

LEMMA NoConnIsNone == NoConn \notin Conn /\ NoNode \notin Node
BY NumConnsAssumption, ConstantsAssumption DEF NoConn, Conn

-----------------------------------------------------------------------------
(* Types. *)

LEMMA InitTyped == Init => TypeOK
<1> SUFFICES ASSUME Init PROVE TypeOK
  OBVIOUS
<1>1. ConnTypeOK /\ peer \in Peers
  BY DEF Init, ConnInit, ConnTypeOK
<1>2. Unanswered = {}
  BY DEF Init, Unanswered
<1> QED
  BY <1>1, <1>2 DEF Init, TypeOK, Outcomes

LEMMA ConnectionTyped ==
  ASSUME TypeOK, peer' = peer, NEW c \in Conn,
         ConnectOperator(c) \/ ConnectNode(c) \/ Close(c) \/ CleanUp(c)
  PROVE  TypeOK'
<1>0. peer \in [Conn -> Node \union {NoNode}]
  BY ConstantsAssumption DEF TypeOK
<1>1. CASE ConnectOperator(c)
  <2>1. ConnTypeOK'
    BY <1>1 DEF ConnectOperator, Authenticate, TypeOK, ConnTypeOK, Roles
  <2> QED
    BY <1>1, <2>1 DEF ConnectOperator, callVars, regVars, TypeOK, Unanswered
<1>2. CASE ConnectNode(c)
  <2>1. ConnTypeOK'
    BY <1>2 DEF ConnectNode, Authenticate, TypeOK, ConnTypeOK, Roles
  <2>2. /\ registered' \in [Node -> Conn \union {NoConn}]
        /\ latest' \in [Node -> Conn \union {NoConn}]
    BY <1>2 DEF ConnectNode, Register, TypeOK
  <2> QED
    BY <1>2, <2>1, <2>2 DEF ConnectNode, callVars, TypeOK, Unanswered
<1>3. CASE Close(c)
  <2>1. ConnTypeOK'
    BY <1>3 DEF Close, PeerCloses, TypeOK, ConnTypeOK
  <2> QED
    BY <1>3, <2>1 DEF Close, callVars, regVars, TypeOK, Unanswered
<1>4. CASE CleanUp(c)
  <2>1. ConnTypeOK'
    BY <1>4 DEF CleanUp, LoopEnds, TypeOK, ConnTypeOK
  <2>2. CASE peer[c] = NoNode
    BY <1>4, <2>1, <2>2 DEF CleanUp, callVars, regVars, TypeOK, Unanswered
  <2>3. CASE peer[c] # NoNode
    <3>1. peer[c] \in Node /\ Unregister(peer[c])
      BY <1>0, <1>4, <2>3 DEF CleanUp
    <3>2. registered' \in [Node -> Conn \union {NoConn}]
      BY <3>1 DEF Unregister, TypeOK
    <3>3. phase' \in [Call -> {"none", "sending", "pending", "settled", "over"}]
      BY <3>1 DEF Unregister, TypeOK
    <3>4. outcome' \in [Call -> Outcomes]
      BY <3>1 DEF Unregister, TypeOK, Outcomes
    <3>5. crossed' \in [Call -> BOOLEAN]
      BY <3>1 DEF Unregister, TypeOK
    <3>6. Unanswered' = Unanswered
      BY <3>1 DEF Unregister, Disconnected, Unanswered, TypeOK
    <3>7. from' = from /\ to' = to /\ over' = over /\ received' = received /\ latest' = latest
      BY <3>1 DEF Unregister
    <3> QED
      BY <2>1, <3>2, <3>3, <3>4, <3>5, <3>6, <3>7 DEF TypeOK
  <2> QED
    BY <2>2, <2>3
<1> QED
  BY <1>1, <1>2, <1>3, <1>4

LEMMA InvokeTyped ==
  ASSUME TypeOK, peer' = peer, NEW i \in Call, NEW c \in Conn, NEW n \in Node, Invoke(i, c, n)
  PROVE  TypeOK'
<1>1. registered[n] \in Conn
  BY DEF Invoke, TypeOK
<1>2. ConnTypeOK'
  BY DEF Invoke, Blocks, TypeOK, ConnTypeOK
<1>3. /\ phase' \in [Call -> {"none", "sending", "pending", "settled", "over"}]
      /\ from' \in [Call -> Conn \union {NoConn}]
      /\ to' \in [Call -> Node \union {NoNode}]
      /\ over' \in [Call -> Conn \union {NoConn}]
  BY <1>1 DEF Invoke, TypeOK
<1>4. received' \in [Call -> BOOLEAN]
  BY <1>1 DEF Invoke, TypeOK, ConnTypeOK
<1>5. Unanswered' = Unanswered \union {i}
  BY DEF Invoke, Unanswered, TypeOK
<1>6. ASSUME NEW j \in Unanswered'
      PROVE  from'[j] \in Conn /\ to'[j] \in Node /\ over'[j] \in Conn
  <2>1. CASE j = i
    BY <1>1, <2>1 DEF Invoke, TypeOK
  <2>2. CASE j # i
    <3>1. j \in Unanswered /\ j \in Call
      BY <1>5, <1>6, <2>2 DEF Unanswered
    <3>2. from'[j] = from[j] /\ to'[j] = to[j] /\ over'[j] = over[j]
      BY <2>2, <3>1 DEF Invoke, TypeOK
    <3> QED
      BY <3>1, <3>2 DEF TypeOK
  <2> QED
    BY <2>1, <2>2
<1> QED
  BY <1>2, <1>3, <1>4, <1>6 DEF Invoke, TypeOK, regVars

LEMMA AnswerTyped ==
  ASSUME TypeOK, peer' = peer, NEW i \in Call, phase[i] \in {"sending", "settled"}, Answer(i)
  PROVE  TypeOK'
<1>1. from[i] \in Conn
  BY DEF TypeOK, Unanswered
<1>2. ConnTypeOK'
  BY <1>1 DEF Answer, Unblocks, TypeOK, ConnTypeOK
<1>3. /\ phase' \in [Call -> {"none", "sending", "pending", "settled", "over"}]
      /\ from' \in [Call -> Conn \union {NoConn}]
      /\ to' \in [Call -> Node \union {NoNode}]
      /\ over' \in [Call -> Conn \union {NoConn}]
      /\ outcome' \in [Call -> Outcomes]
  BY DEF Answer, TypeOK, Outcomes
<1>4. received' \in [Call -> BOOLEAN] /\ crossed' \in [Call -> BOOLEAN]
  BY DEF Answer, TypeOK
<1>5. ASSUME NEW j \in Unanswered'
      PROVE  from'[j] \in Conn /\ to'[j] \in Node /\ over'[j] \in Conn
  <2>1. j # i /\ j \in Unanswered /\ j \in Call
    BY <1>5 DEF Answer, Unanswered, TypeOK
  <2>2. from'[j] = from[j] /\ to'[j] = to[j] /\ over'[j] = over[j]
    BY <2>1 DEF Answer, TypeOK
  <2> QED
    BY <2>1, <2>2 DEF TypeOK
<1> QED
  BY <1>2, <1>3, <1>4, <1>5 DEF Answer, TypeOK, regVars

(* A call that moves between unanswered phases, or from none to over.      *)
LEMMA MovesUnanswered ==
  ASSUME TypeOK, NEW i \in Call, NEW before, NEW after, Moves(i, before, after),
         \/ before = {"sending"} /\ after = "pending"
         \/ before = {"pending"} /\ after = "settled"
         \/ before = {"none"} /\ after = "over"
  PROVE  /\ Unanswered' = Unanswered
         /\ phase' \in [Call -> {"none", "sending", "pending", "settled", "over"}]
BY DEF Moves, Unanswered, TypeOK

LEMMA TypeStep == ASSUME TypeOK, [Next]_vars PROVE TypeOK'
<1>0. peer' = peer
  BY NextCases
<1>1. CASE \E c \in Conn : ConnectOperator(c) \/ ConnectNode(c) \/ Close(c) \/ CleanUp(c)
  BY <1>0, <1>1, ConnectionTyped
<1>2. CASE \E i \in Call, c \in Conn, n \in Node : Invoke(i, c, n)
  BY <1>0, <1>2, InvokeTyped
<1>3. CASE \E i \in Call : phase[i] \in {"sending", "settled"} /\ Answer(i)
  BY <1>0, <1>3, AnswerTyped
<1>4. ASSUME NEW i \in Call, outcome' = outcome,
             Moves(i, {"sending"}, "pending") \/ Moves(i, {"none"}, "over")
      PROVE  TypeOK'
  <2>1. /\ Unanswered' = Unanswered
        /\ phase' \in [Call -> {"none", "sending", "pending", "settled", "over"}]
    BY <1>4, MovesUnanswered
  <2> QED
    BY <1>4, <2>1 DEF Moves, connVars, regVars, TypeOK, ConnTypeOK
<1>5. ASSUME NEW i \in Call, NEW o \in {"ok", "TIMEOUT"}, Moves(i, {"pending"}, "settled"),
             outcome' = [outcome EXCEPT ![i] = o]
      PROVE  TypeOK'
  <2>1. /\ Unanswered' = Unanswered
        /\ phase' \in [Call -> {"none", "sending", "pending", "settled", "over"}]
    BY <1>5, MovesUnanswered
  <2>2. outcome' \in [Call -> Outcomes]
    BY <1>5 DEF TypeOK, Outcomes
  <2> QED
    BY <1>5, <2>1, <2>2 DEF Moves, connVars, regVars, TypeOK, ConnTypeOK
<1>6. CASE UNCHANGED vars
  BY <1>6 DEF vars, connVars, regVars, callVars, TypeOK, ConnTypeOK, Unanswered
<1> QED
  BY <1>1, <1>2, <1>3, <1>4, <1>5, <1>6, NextCases

-----------------------------------------------------------------------------
(* Connections and the calls that keep them busy. *)

LEMMA BusyKept ==
  ASSUME BusyIsOneCall, Unanswered' = Unanswered, busy' = busy,
         \A j \in Unanswered : from'[j] = from[j]
  PROVE  BusyIsOneCall'
BY DEF BusyIsOneCall

LEMMA BusyInvoke ==
  ASSUME TypeOK, BusyIsOneCall, NEW i \in Call, NEW c \in Conn, NEW n \in Node, Invoke(i, c, n)
  PROVE  BusyIsOneCall'
<1>1. Unanswered' = Unanswered \union {i} /\ i \notin Unanswered
  BY DEF Invoke, MayBegin, Unanswered, TypeOK
<1>2. from'[i] = c /\ \A j \in Call \ {i} : from'[j] = from[j]
  BY DEF Invoke, TypeOK
<1>3. busy'[c] = TRUE /\ \A b \in Conn \ {c} : busy'[b] = busy[b]
  BY DEF Invoke, Blocks, TypeOK, ConnTypeOK
<1>4. \A j \in Unanswered : from[j] # c
  BY DEF Invoke, Blocks, Reads, BusyIsOneCall
<1>5. Unanswered \subseteq Call
  BY DEF Unanswered
<1>6. \A j, k \in Unanswered' : from'[j] = from'[k] => j = k
  BY <1>1, <1>2, <1>4, <1>5 DEF BusyIsOneCall
<1>7. ASSUME NEW b \in Conn PROVE busy'[b] <=> \E j \in Unanswered' : from'[j] = b
  <2>1. CASE b = c
    BY <1>1, <1>2, <1>3, <2>1
  <2>2. CASE b # c
    <3>1. busy[b] <=> \E j \in Unanswered : from[j] = b
      BY DEF BusyIsOneCall
    <3>2. (\E j \in Unanswered' : from'[j] = b) <=> \E j \in Unanswered : from[j] = b
      BY <1>1, <1>2, <1>5, <2>2
    <3> QED
      BY <1>3, <2>2, <3>1, <3>2
  <2> QED
    BY <2>1, <2>2
<1> QED
  BY <1>6, <1>7 DEF BusyIsOneCall

LEMMA BusyAnswer ==
  ASSUME TypeOK, BusyIsOneCall, NEW i \in Call, phase[i] \in {"sending", "settled"}, Answer(i)
  PROVE  BusyIsOneCall'
<1>1. i \in Unanswered /\ from[i] \in Conn /\ Unanswered \subseteq Call
  BY DEF Unanswered, TypeOK
<1>2. Unanswered' = Unanswered \ {i}
  BY DEF Answer, Unanswered, TypeOK
<1>3. \A j \in Call \ {i} : from'[j] = from[j]
  BY DEF Answer, TypeOK
<1>4. busy'[from[i]] = FALSE /\ \A b \in Conn \ {from[i]} : busy'[b] = busy[b]
  BY <1>1 DEF Answer, Unblocks, TypeOK, ConnTypeOK
<1>5. \A j \in Unanswered' : from[j] # from[i] /\ from'[j] = from[j]
  BY <1>1, <1>2, <1>3 DEF BusyIsOneCall
<1>6. \A j, k \in Unanswered' : from'[j] = from'[k] => j = k
  BY <1>2, <1>5 DEF BusyIsOneCall
<1>7. ASSUME NEW b \in Conn PROVE busy'[b] <=> \E j \in Unanswered' : from'[j] = b
  <2>1. CASE b = from[i]
    BY <1>4, <1>5, <2>1
  <2>2. CASE b # from[i]
    <3>1. busy[b] <=> \E j \in Unanswered : from[j] = b
      BY DEF BusyIsOneCall
    <3>2. (\E j \in Unanswered' : from'[j] = b) <=> \E j \in Unanswered : from[j] = b
      BY <1>2, <1>5, <2>2
    <3> QED
      BY <1>4, <2>2, <3>1, <3>2
  <2> QED
    BY <2>1, <2>2
<1> QED
  BY <1>6, <1>7 DEF BusyIsOneCall

LEMMA BusyStep == ASSUME TypeOK, BusyIsOneCall, [Next]_vars PROVE BusyIsOneCall'
<1>1. ASSUME NEW c \in Conn, ConnectOperator(c) \/ ConnectNode(c) \/ Close(c) \/ CleanUp(c)
      PROVE  BusyIsOneCall'
  <2>1. busy' = busy /\ from' = from
    BY <1>1 DEF ConnectOperator, ConnectNode, Authenticate, Close, PeerCloses, CleanUp,
                LoopEnds, Unregister, callVars
  <2>2. Unanswered' = Unanswered
    BY <1>1 DEF ConnectOperator, ConnectNode, Close, CleanUp, Unregister, Disconnected,
                callVars, Unanswered, TypeOK
  <2> QED
    BY <2>1, <2>2, BusyKept
<1>2. CASE \E i \in Call, c \in Conn, n \in Node : Invoke(i, c, n)
  BY <1>2, BusyInvoke
<1>3. CASE \E i \in Call : phase[i] \in {"sending", "settled"} /\ Answer(i)
  BY <1>3, BusyAnswer
<1>4. ASSUME NEW i \in Call,
             \/ Moves(i, {"sending"}, "pending") \/ Moves(i, {"none"}, "over")
             \/ Moves(i, {"pending"}, "settled")
      PROVE  BusyIsOneCall'
  BY <1>4, MovesUnanswered, BusyKept DEF Moves, connVars
<1>5. CASE UNCHANGED vars
  BY <1>5 DEF vars, connVars, callVars, BusyIsOneCall, Unanswered
<1> QED
  BY <1>1, <1>2, <1>3, <1>4, <1>5, NextCases

-----------------------------------------------------------------------------
(* The registry and the connections. *)

LEMMA RegistryKept ==
  ASSUME RegistryIsCurrent, LatestIsOwn, PeersAreRoles, peer' = peer, UNCHANGED <<stage, regVars>>
  PROVE  RegistryIsCurrent' /\ LatestIsOwn' /\ PeersAreRoles'
BY DEF RegistryIsCurrent, LatestIsOwn, PeersAreRoles, regVars

LEMMA RegistryStep ==
  ASSUME TypeOK, RegistryIsCurrent, LatestIsOwn, PeersAreRoles, [Next]_vars
  PROVE  RegistryIsCurrent' /\ LatestIsOwn' /\ PeersAreRoles'
<1>0. peer' = peer /\ peer \in [Conn -> Node \union {NoNode}]
  BY NextCases, ConstantsAssumption DEF TypeOK
<1>t. /\ \A n \in Node : latest[n] # NoConn => latest[n] \in Conn
      /\ stage \in [Conn -> {"new", "gone", "operator", "node"}]
  BY DEF TypeOK, ConnTypeOK, Roles
<1>1. ASSUME NEW c \in Conn, ConnectOperator(c)
      PROVE  RegistryIsCurrent' /\ LatestIsOwn' /\ PeersAreRoles'
  <2>1. /\ stage[c] = "new" /\ stage' = [stage EXCEPT ![c] = "operator"]
        /\ peer[c] = NoNode /\ UNCHANGED <<registered, latest>>
    BY <1>1 DEF ConnectOperator, Authenticate, regVars
  <2> QED
    BY <1>0, <1>t, <2>1 DEF RegistryIsCurrent, LatestIsOwn, PeersAreRoles
<1>2. ASSUME NEW c \in Conn, ConnectNode(c)
      PROVE  RegistryIsCurrent' /\ LatestIsOwn' /\ PeersAreRoles'
  <2> DEFINE m == peer[c]
  <2>1. /\ stage[c] = "new" /\ stage' = [stage EXCEPT ![c] = "node"] /\ m \in Node
        /\ registered' = [registered EXCEPT ![m] = c] /\ latest' = [latest EXCEPT ![m] = c]
    BY <1>2 DEF ConnectNode, Authenticate, Register
  <2>2. /\ stage'[c] = "node" /\ \A d \in Conn \ {c} : stage'[d] = stage[d]
        /\ registered'[m] = c /\ latest'[m] = c
        /\ \A n \in Node \ {m} : registered'[n] = registered[n] /\ latest'[n] = latest[n]
    BY <2>1 DEF TypeOK, ConnTypeOK
  <2>3. \A n \in Node \ {m} : latest[n] # NoConn => latest[n] # c
    BY <2>1 DEF LatestIsOwn
  <2>4. RegistryIsCurrent'
    BY <1>t, <2>2, <2>3 DEF RegistryIsCurrent
  <2>5. LatestIsOwn'
    BY <1>0, <1>t, <2>2, <2>3 DEF LatestIsOwn
  <2>6. PeersAreRoles'
    BY <1>0, <1>t, <2>2 DEF PeersAreRoles
  <2> QED
    BY <2>4, <2>5, <2>6
<1>3. ASSUME NEW c \in Conn, CleanUp(c)
      PROVE  RegistryIsCurrent' /\ LatestIsOwn' /\ PeersAreRoles'
  <2>1. /\ stage' = [stage EXCEPT ![c] = "gone"] /\ stage[c] \in {"operator", "node"}
        /\ latest' = latest
    BY <1>3 DEF CleanUp, LoopEnds, Reads, Roles, Unregister, regVars
  <2>2. LatestIsOwn' /\ PeersAreRoles'
    BY <1>0, <1>t, <2>1 DEF LatestIsOwn, PeersAreRoles
  <2>3. ASSUME NEW n \in Node, registered'[n] # NoConn
        PROVE  registered'[n] = latest'[n] /\ stage'[latest'[n]] = "node"
    <3>1. registered'[n] = registered[n] /\ peer[c] # n
      BY <1>0, <1>3, <2>3, NoConnIsNone DEF CleanUp, Unregister, regVars, TypeOK
    <3>2. registered[n] = latest[n] /\ stage[latest[n]] = "node" /\ latest[n] \in Conn
      BY <1>t, <2>3, <3>1 DEF RegistryIsCurrent
    <3>3. latest[n] # c
      BY <2>3, <3>1, <3>2 DEF LatestIsOwn
    <3> QED
      BY <1>t, <2>1, <3>1, <3>2, <3>3
  <2>4. RegistryIsCurrent'
    BY <2>3 DEF RegistryIsCurrent
  <2> QED
    BY <2>2, <2>4
<1>4. ASSUME UNCHANGED <<stage, regVars>>
      PROVE  RegistryIsCurrent' /\ LatestIsOwn' /\ PeersAreRoles'
  BY <1>0, <1>4, RegistryKept
<1>5. ASSUME NEW c \in Conn, Close(c) PROVE UNCHANGED <<stage, regVars>>
  BY <1>5 DEF Close, PeerCloses
<1>6. ASSUME NEW i \in Call, NEW c \in Conn, NEW n \in Node, Invoke(i, c, n)
      PROVE  UNCHANGED <<stage, regVars>>
  BY <1>6 DEF Invoke, Blocks
<1>7. ASSUME NEW i \in Call, Answer(i) PROVE UNCHANGED <<stage, regVars>>
  BY <1>7 DEF Answer, Unblocks
<1>8. ASSUME NEW i \in Call, NEW before, NEW after, Moves(i, before, after)
      PROVE  UNCHANGED <<stage, regVars>>
  BY <1>8 DEF Moves, connVars
<1>9. ASSUME UNCHANGED vars PROVE UNCHANGED <<stage, regVars>>
  BY <1>9 DEF vars, connVars, regVars
<1> QED
  BY <1>1, <1>2, <1>3, <1>4, <1>5, <1>6, <1>7, <1>8, <1>9, NextCases

-----------------------------------------------------------------------------
(* Futures. *)

LEMMA UnsettledStep == ASSUME TypeOK, UnsettledIsEmpty, [Next]_vars PROVE UnsettledIsEmpty'
<1>1. ASSUME NEW c \in Conn, ConnectOperator(c) \/ ConnectNode(c) \/ Close(c) \/ CleanUp(c)
      PROVE  UnsettledIsEmpty'
  BY <1>1 DEF ConnectOperator, ConnectNode, Close, CleanUp, Unregister, callVars,
              UnsettledIsEmpty, TypeOK
<1>2. ASSUME NEW i \in Call, NEW c \in Conn, NEW n \in Node, Invoke(i, c, n)
      PROVE  UnsettledIsEmpty'
  BY <1>2 DEF Invoke, MayBegin, UnsettledIsEmpty, TypeOK
<1>3. ASSUME NEW i \in Call, Answer(i) PROVE UnsettledIsEmpty'
  BY <1>3 DEF Answer, UnsettledIsEmpty, TypeOK
<1>4. ASSUME NEW i \in Call, outcome' = outcome,
             Moves(i, {"sending"}, "pending") \/ Moves(i, {"none"}, "over")
      PROVE  UnsettledIsEmpty'
  BY <1>4 DEF Moves, UnsettledIsEmpty, TypeOK
<1>5. ASSUME NEW i \in Call, NEW o \in {"ok", "TIMEOUT"}, Moves(i, {"pending"}, "settled"),
             outcome' = [outcome EXCEPT ![i] = o]
      PROVE  UnsettledIsEmpty'
  BY <1>5 DEF Moves, UnsettledIsEmpty, TypeOK
<1>6. CASE UNCHANGED vars
  BY <1>6 DEF vars, callVars, UnsettledIsEmpty
<1> QED
  BY <1>1, <1>2, <1>3, <1>4, <1>5, <1>6, NextCases

-----------------------------------------------------------------------------
(* Types, the registry, the connections that wait and the futures, in      *)
(* every reachable state.                                                  *)
THEOREM InvariantHolds == Spec => []IInv
<1>1. ASSUME Init PROVE IInv
  <2>1. TypeOK
    BY <1>1, InitTyped
  <2>2. Unanswered = {}
    BY <1>1 DEF Init, Unanswered
  <2>3. BusyIsOneCall
    BY <1>1, <2>2 DEF Init, ConnInit, BusyIsOneCall
  <2>4. RegistryIsCurrent /\ LatestIsOwn /\ PeersAreRoles /\ UnsettledIsEmpty
    BY <1>1 DEF Init, ConnInit, RegistryIsCurrent, LatestIsOwn, PeersAreRoles,
                UnsettledIsEmpty
  <2> QED
    BY <2>1, <2>3, <2>4 DEF IInv
<1>2. IInv /\ [Next]_vars => IInv'
  BY TypeStep, BusyStep, RegistryStep, UnsettledStep DEF IInv
<1> QED
  BY <1>1, <1>2, PTL DEF Spec

-----------------------------------------------------------------------------
LEMMA LostStep ==
  ASSUME IInv, LostOnlyToReconnect, [Next]_vars
  PROVE  LostOnlyToReconnect'
<1>0. /\ TypeOK /\ LatestIsOwn
      /\ peer' = peer /\ peer \in [Conn -> Node \union {NoNode}]
  BY NextCases, ConstantsAssumption DEF IInv, TypeOK
<1>t. /\ \A n \in Node : latest[n] # NoConn => latest[n] \in Conn
      /\ stage \in [Conn -> {"new", "gone", "operator", "node"}]
  BY <1>0 DEF TypeOK, ConnTypeOK, Roles
<1>1. ASSUME NEW c \in Conn, ConnectOperator(c) PROVE LostOnlyToReconnect'
  <2>1. /\ stage[c] = "new" /\ stage' = [stage EXCEPT ![c] = "operator"]
        /\ UNCHANGED <<registered, latest>>
    BY <1>1 DEF ConnectOperator, Authenticate, regVars
  <2> QED
    BY <1>0, <1>t, <2>1 DEF LostOnlyToReconnect
<1>2. ASSUME NEW c \in Conn, ConnectNode(c) PROVE LostOnlyToReconnect'
  <2> DEFINE m == peer[c]
  <2>1. /\ stage[c] = "new" /\ stage' = [stage EXCEPT ![c] = "node"] /\ m \in Node
        /\ registered' = [registered EXCEPT ![m] = c] /\ latest' = [latest EXCEPT ![m] = c]
    BY <1>2 DEF ConnectNode, Authenticate, Register
  <2>2. /\ registered'[m] = c
        /\ \A n \in Node \ {m} : registered'[n] = registered[n] /\ latest'[n] = latest[n]
    BY <1>0, <2>1 DEF TypeOK
  <2>3. /\ \A d \in Conn \ {c} : stage'[d] = stage[d]
        /\ \A d \in Conn : stage[d] = "gone" => stage'[d] = "gone"
    BY <1>t, <2>1
  <2>4. ASSUME NEW n \in Node, latest'[n] # NoConn, registered'[n] = NoConn,
               stage'[latest'[n]] = "node"
        PROVE  \E d \in Conn \ {latest'[n]} : peer[d] = n /\ stage'[d] = "gone"
    <3>1. n # m
      BY <2>2, <2>4, NoConnIsNone
    <3>2. latest'[n] = latest[n] /\ registered[n] = NoConn /\ latest[n] \in Conn
      BY <1>t, <2>2, <2>4, <3>1
    <3>3. latest[n] # c
      BY <1>0, <2>4, <3>1, <3>2 DEF LatestIsOwn
    <3>4. stage[latest[n]] = "node"
      BY <2>3, <2>4, <3>2, <3>3
    <3> QED
      BY <2>3, <2>4, <3>2, <3>4 DEF LostOnlyToReconnect
  <2> QED
    BY <1>0, <2>4 DEF LostOnlyToReconnect
<1>3. ASSUME NEW c \in Conn, CleanUp(c) PROVE LostOnlyToReconnect'
  <2>1. /\ stage' = [stage EXCEPT ![c] = "gone"] /\ latest' = latest
    BY <1>3 DEF CleanUp, LoopEnds, Unregister, regVars
  <2>2. stage'[c] = "gone" /\ \A d \in Conn \ {c} : stage'[d] = stage[d]
    BY <1>t, <2>1
  <2>3. ASSUME NEW n \in Node, latest[n] # NoConn, registered'[n] = NoConn,
               stage'[latest[n]] = "node"
        PROVE  \E d \in Conn \ {latest[n]} : peer[d] = n /\ stage'[d] = "gone"
    <3>1. latest[n] \in Conn /\ latest[n] # c /\ stage[latest[n]] = "node"
      BY <1>t, <2>2, <2>3
    <3>2. CASE peer[c] = n
      BY <2>2, <3>1, <3>2
    <3>3. CASE peer[c] # n
      <4>1. registered[n] = NoConn
        BY <1>0, <1>3, <2>3, <3>3 DEF CleanUp, Unregister, regVars, TypeOK
      <4> QED
        BY <2>2, <2>3, <3>1, <4>1 DEF LostOnlyToReconnect
    <3> QED
      BY <3>2, <3>3
  <2> QED
    BY <1>0, <2>1, <2>3 DEF LostOnlyToReconnect
<1>4. ASSUME UNCHANGED <<stage, regVars>> PROVE LostOnlyToReconnect'
  BY <1>0, <1>4 DEF regVars, LostOnlyToReconnect
<1>5. ASSUME NEW c \in Conn, Close(c) PROVE UNCHANGED <<stage, regVars>>
  BY <1>5 DEF Close, PeerCloses
<1>6. ASSUME NEW i \in Call, NEW c \in Conn, NEW n \in Node, Invoke(i, c, n)
      PROVE  UNCHANGED <<stage, regVars>>
  BY <1>6 DEF Invoke, Blocks
<1>7. ASSUME NEW i \in Call, Answer(i) PROVE UNCHANGED <<stage, regVars>>
  BY <1>7 DEF Answer, Unblocks
<1>8. ASSUME NEW i \in Call, NEW before, NEW after, Moves(i, before, after)
      PROVE  UNCHANGED <<stage, regVars>>
  BY <1>8 DEF Moves, connVars
<1>9. ASSUME UNCHANGED vars PROVE UNCHANGED <<stage, regVars>>
  BY <1>9 DEF vars, connVars, regVars
<1> QED
  BY <1>1, <1>2, <1>3, <1>4, <1>5, <1>6, <1>7, <1>8, <1>9, NextCases

(* A node whose latest connection is there is unknown only because of an   *)
(* another connection of its own, whatever nodes and operators do.         *)
THEOREM LostOnlyToReconnectHolds == Spec => []LostOnlyToReconnect
<1>1. Init => LostOnlyToReconnect
  BY DEF Init, LostOnlyToReconnect
<1>2. IInv /\ LostOnlyToReconnect /\ [Next]_vars => LostOnlyToReconnect'
  BY LostStep
<1> QED
  BY <1>1, <1>2, InvariantHolds, PTL DEF Spec

-----------------------------------------------------------------------------
LEMMA PendingStep ==
  ASSUME IInv, PendingHasNode, [Next]_vars
  PROVE  PendingHasNode'
<1>0. TypeOK
  BY DEF IInv
<1>1. ASSUME NEW c \in Conn, ConnectNode(c) PROVE PendingHasNode'
  <2>1. \A n \in Node : registered[n] # NoConn => registered'[n] # NoConn
    BY <1>0, <1>1, NoConnIsNone DEF ConnectNode, Register, TypeOK
  <2>2. UNCHANGED callVars
    BY <1>1 DEF ConnectNode
  <2>3. \A i \in Call : phase[i] \in {"sending", "pending"} => to[i] \in Node
    BY <1>0 DEF TypeOK, Unanswered
  <2> QED
    BY <2>1, <2>2, <2>3 DEF callVars, PendingHasNode
<1>2. ASSUME NEW c \in Conn, CleanUp(c) PROVE PendingHasNode'
  <2>1. CASE peer[c] = NoNode
    BY <1>2, <2>1 DEF CleanUp, callVars, regVars, PendingHasNode
  <2>2. CASE peer[c] # NoNode
    <3> DEFINE n == peer[c]
    <3>1. Unregister(n)
      BY <1>2, <2>2 DEF CleanUp
    <3>2. ASSUME NEW i \in Call, phase'[i] \in {"sending", "pending"}, ~crossed'[i]
          PROVE  registered'[to'[i]] # NoConn
      <4>1. phase[i] = phase'[i] /\ ~crossed[i] /\ to'[i] = to[i]
        BY <1>0, <3>1, <3>2 DEF Unregister, TypeOK
      <4>2. registered[to[i]] # NoConn /\ to[i] \in Node
        BY <1>0, <3>2, <4>1 DEF PendingHasNode, TypeOK, Unanswered
      <4>3. to[i] # n
        BY <1>0, <3>1, <3>2, <4>1, <4>2 DEF Unregister, Disconnected, TypeOK
      <4> QED
        BY <1>0, <3>1, <4>1, <4>2, <4>3 DEF Unregister, TypeOK
    <3> QED
      BY <3>2 DEF PendingHasNode
  <2> QED
    BY <2>1, <2>2
<1>3. ASSUME NEW c \in Conn, ConnectOperator(c) \/ Close(c) PROVE PendingHasNode'
  BY <1>3 DEF ConnectOperator, Close, callVars, regVars, PendingHasNode
<1>4. ASSUME NEW i \in Call, NEW c \in Conn, NEW n \in Node, Invoke(i, c, n)
      PROVE  PendingHasNode'
  <2>1. \A j \in Call \ {i} : phase'[j] = phase[j] /\ to'[j] = to[j]
    BY <1>0, <1>4 DEF Invoke, TypeOK
  <2>2. to'[i] = n /\ registered[n] # NoConn /\ crossed' = crossed /\ registered' = registered
    BY <1>0, <1>4 DEF Invoke, TypeOK, regVars
  <2> QED
    BY <2>1, <2>2 DEF PendingHasNode
<1>5. ASSUME NEW i \in Call, Answer(i) PROVE PendingHasNode'
  <2>1. \A j \in Call \ {i} : phase'[j] = phase[j] /\ to'[j] = to[j] /\ crossed'[j] = crossed[j]
    BY <1>0, <1>5 DEF Answer, TypeOK
  <2>2. phase'[i] = "over" /\ registered' = registered
    BY <1>0, <1>5 DEF Answer, TypeOK, regVars
  <2> QED
    BY <2>1, <2>2 DEF PendingHasNode
<1>6. ASSUME NEW i \in Call,
             \/ Moves(i, {"sending"}, "pending") \/ Moves(i, {"none"}, "over")
             \/ Moves(i, {"pending"}, "settled")
      PROVE  PendingHasNode'
  BY <1>0, <1>6 DEF Moves, regVars, PendingHasNode, TypeOK
<1>7. CASE UNCHANGED vars
  BY <1>7 DEF vars, callVars, regVars, PendingHasNode
<1> QED
  BY <1>1, <1>2, <1>3, <1>4, <1>5, <1>6, <1>7, NextCases

(* Who waits for a node waits for one the registry holds, unless the entry *)
(* went away between the lookup and the registration of the future.        *)
THEOREM PendingHasNodeHolds == Spec => []PendingHasNode
<1>1. Init => PendingHasNode
  BY DEF Init, PendingHasNode
<1>2. IInv /\ PendingHasNode /\ [Next]_vars => PendingHasNode'
  BY PendingStep
<1> QED
  BY <1>1, <1>2, InvariantHolds, PTL DEF Spec

-----------------------------------------------------------------------------
(* While every connection of every node of a set waits for a node of the   *)
(* set, no call of the set gets a result: the loop that would hear it does *)
(* not read.  Nodes that call each other only end by their time-outs.      *)
THEOREM CircleGetsNoResultHolds == Spec => CircleGetsNoResult
<1> DEFINE Silent == \A S \in SUBSET Node : Deadlocked(S) =>
              \A i \in Call : to[i] \in S /\ phase[i] = "pending" => outcome'[i] # "ok"
<1>1. ASSUME IInv, [Next]_vars PROVE Silent
  <2> SUFFICES ASSUME NEW S \in SUBSET Node, Deadlocked(S), NEW i \in Call,
                      to[i] \in S, phase[i] = "pending", outcome'[i] = "ok"
               PROVE  FALSE
    OBVIOUS
  <2>1. outcome[i] = "none" /\ TypeOK
    BY <1>1 DEF IInv, UnsettledIsEmpty
  <2>2. \E d \in Conn : Result(d, i)
    <3>1. CASE UNCHANGED vars
      BY <2>1, <3>1 DEF vars, callVars
    <3>2. CASE ConnectionStep
      BY <2>1, <3>2 DEF ConnectionStep, ConnectOperator, ConnectNode, Close, CleanUp,
                        Unregister, callVars
    <3>3. ASSUME NEW j \in Call, NEW c \in Conn, NEW n \in Node,
                 NotConnected(j, c, n) \/ Invoke(j, c, n)
          PROVE  FALSE
      BY <2>1, <3>3 DEF NotConnected, Invoke
    <3>4. ASSUME NEW j \in Call, SendFails(j) \/ SendReturns(j) \/ Timeout(j) \/ Return(j)
          PROVE  FALSE
      BY <2>1, <3>4 DEF SendFails, SendReturns, Timeout, Return, Answer, Settle, TypeOK
    <3>5. ASSUME NEW j \in Call, NEW d \in Conn, Result(d, j) PROVE j = i
      BY <2>1, <3>5 DEF Result, Settle, TypeOK
    <3> QED
      BY <1>1, <3>1, <3>2, <3>3, <3>4, <3>5 DEF Next, CallStep
  <2>3. PICK d \in Conn : Reads(d) /\ peer[d] = to[i]
    BY <2>2 DEF Result
  <2>4. stage[d] = "node"
    BY <1>1, <2>3, NoConnIsNone DEF Reads, Roles, IInv, PeersAreRoles
  <2>5. PICK j \in Call : from[j] = d /\ phase[j] = "pending"
    BY <2>3, <2>4 DEF Deadlocked
  <2>6. busy[d]
    BY <1>1, <2>5 DEF IInv, BusyIsOneCall, Unanswered
  <2> QED
    BY <2>3, <2>6 DEF Reads
<1> QED
  BY <1>1, InvariantHolds, PTL DEF Spec, CircleGetsNoResult

(* Of a result, a time-out and a disconnect, the first settles a call.     *)
THEOREM SettledOnceHolds == Spec => SettledOnce
<1> DEFINE Once == \A i \in Call : phase[i] = "settled" =>
              phase'[i] = "over" \/ (phase'[i] = "settled" /\ outcome'[i] = outcome[i])
<1>1. ASSUME IInv, [Next]_vars PROVE Once
  <2>0. TypeOK
    BY <1>1 DEF IInv
  <2>1. ASSUME NEW c \in Conn, ConnectOperator(c) \/ ConnectNode(c) \/ Close(c) \/ CleanUp(c)
        PROVE  Once
    BY <2>0, <2>1 DEF ConnectOperator, ConnectNode, Close, CleanUp, Unregister, Disconnected,
                      callVars, TypeOK
  <2>2. ASSUME NEW j \in Call, NEW c \in Conn, NEW n \in Node, Invoke(j, c, n) PROVE Once
    BY <2>0, <2>2 DEF Invoke, MayBegin, TypeOK
  <2>3. ASSUME NEW j \in Call, Answer(j) PROVE Once
    BY <2>0, <2>3 DEF Answer, TypeOK
  <2>4. ASSUME NEW j \in Call, outcome' = outcome,
               Moves(j, {"sending"}, "pending") \/ Moves(j, {"none"}, "over")
        PROVE  Once
    BY <2>0, <2>4 DEF Moves, TypeOK
  <2>5. ASSUME NEW j \in Call, NEW o \in {"ok", "TIMEOUT"}, Moves(j, {"pending"}, "settled"),
               outcome' = [outcome EXCEPT ![j] = o]
        PROVE  Once
    BY <2>0, <2>5 DEF Moves, TypeOK
  <2>6. CASE UNCHANGED vars
    BY <2>6 DEF vars, callVars
  <2> QED
    BY <1>1, <2>1, <2>2, <2>3, <2>4, <2>5, <2>6, NextCases
<1> QED
  BY <1>1, InvariantHolds, PTL DEF Spec, SettledOnce
=============================================================================
