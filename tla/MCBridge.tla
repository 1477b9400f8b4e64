------------------------------ MODULE MCBridge ------------------------------
(* Two L1 transactions, both of which may lock; two replay keys name the second. *)
EXTENDS Bridge

CONSTANTS h1, h2, k1, k2

MCTxOf     == [k \in Keys |-> h2]
MCKeyOrder == [h \in Hashes |-> IF h = h1 THEN 1 ELSE 2]
=============================================================================
