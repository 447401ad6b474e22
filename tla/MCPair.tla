------------------------------- MODULE MCPair -------------------------------
(* Pair.tla on a small instance: the pair and one trader. *)
EXTENDS Pair
CONSTANTS pair, trader

MCAccounts == {pair, trader}

MCInit ==
  /\ bal0 = [a \in MCAccounts |-> IF a = pair THEN 2 ELSE 4]
  /\ bal1 = [a \in MCAccounts |-> IF a = pair THEN 3 ELSE 3]
  /\ PairInit

MCSpec == MCInit /\ [][Next]_pairVars
=============================================================================
