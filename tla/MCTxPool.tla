----------------------------- MODULE MCTxPool -----------------------------
(* Two users: alice pays bob twice (t1, then t2), t3 competes with t1 for the first *)
(* nonce and leaves dust, bob pays alice with t4, which alice needs for t3 and t5;  *)
(* t5 names a gas of zero and an address that the wire refuses.                     *)
EXTENDS TxPool

CONSTANTS alice, bob, t1, t2, t3, t4, t5

MCFrom  == [t \in Txs |-> IF t = t4 THEN bob ELSE alice]
MCTo    == [t \in Txs |-> IF t = t4 THEN alice ELSE bob]
MCNonce == [t \in Txs |-> IF t = t2 THEN 1 ELSE 0]
MCValue == [t \in Txs |-> CASE t = t4 -> 2 [] t = t5 -> 4 [] OTHER -> 3]
MCPrice == [t \in Txs |-> CASE t = t1 -> 4 [] t = t2 -> 2 [] t = t3 -> 3 [] t = t4 -> 1 [] OTHER -> 5]
MCDust  == [t \in Txs |-> IF t = t3 THEN 1 ELSE 0]
MCFaulty == [f \in Fields |-> IF f = "address" THEN {t5} ELSE {}]
=============================================================================
