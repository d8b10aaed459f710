------------------------------- MODULE MCNodes --------------------------------
(* Nodes for TLC: node n1 connects at least twice; the third connection is  *)
(* its own, another node's or an operator's, and comes at any place.       *)
EXTENDS Nodes, FiniteSets
CONSTANTS n1, n2
MCNode == {n1, n2}
MCPeers == {f \in [Conn -> {n1, n2, NoNode}] :
             Cardinality({c \in Conn : f[c] = n1}) >= 2}
=============================================================================
