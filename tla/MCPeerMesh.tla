----------------------------- MODULE MCPeerMesh -----------------------------
(* Two nodes that are each other's seeds; the first admits an inbound session  *)
(* only while it has none, and may dial anew beside a half-open session.  For  *)
(* the full table a third node is a seed of both, which have two places each,  *)
(* one of them reserved for a session they dial.                               *)
EXTENDS PeerMesh, TLC

CONSTANTS n1, n2, n3

MCRank     == n1 :> 1 @@ n2 :> 2
MCSeeds    == n1 :> {n2} @@ n2 :> {n1}
MCMaxPeers == n1 :> 2 @@ n2 :> 4
MCSlots    == n1 :> 2 @@ n2 :> 1

FullRank     == MCRank @@ n3 :> 3
FullSeeds    == n1 :> {n2, n3} @@ n2 :> {n1, n3} @@ n3 :> {}
FullMaxPeers == n1 :> 2 @@ n2 :> 2 @@ n3 :> 4
FullSlots    == [n \in Nodes |-> 1]
=============================================================================
