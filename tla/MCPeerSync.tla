------------------------------ MODULE MCPeerSync ------------------------------
(***************************************************************************)
(* One node and one peer on the tree                                       *)
(*                                                                         *)
(*      g0 --- c1 --- p2 --- p3                                            *)
(*                \                                                        *)
(*                 o2                                                      *)
(*                                                                         *)
(* where o2 is what the node itself may forge on c1.                       *)
(***************************************************************************)
EXTENDS PeerSync

MCBlocks == {"g0", "c1", "p2", "p3", "o2"}
MCOwn    == {"o2"}
MCStarts == {<<"c1", "c1">>, <<"o2", "p2">>}

MCParent == [b \in MCBlocks |->
               CASE b = "g0" -> "none"
                 [] b = "c1" -> "g0"
                 [] b \in {"p2", "o2"} -> "c1"
                 [] b = "p3" -> "p2"]

MCHeight == [b \in MCBlocks |->
               CASE b = "g0" -> 0
                 [] b = "c1" -> 1
                 [] b \in {"p2", "o2"} -> 2
                 [] b = "p3" -> 3]

MCAncestors == [b \in MCBlocks |->
                  {b} \cup CASE b = "g0" -> {}
                             [] b = "c1" -> {"g0"}
                             [] b \in {"p2", "o2"} -> {"g0", "c1"}
                             [] b = "p3" -> {"g0", "c1", "p2"}]
===============================================================================
