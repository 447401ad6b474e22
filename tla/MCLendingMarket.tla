--------------------------- MODULE MCLendingMarket ---------------------------
(* LendingMarket.tla on a small instance: one borrower, the two contracts. *)
EXTENDS LendingMarket
CONSTANTS user, lender, pair

MCAccounts == {user, lender, pair}
MCUsers == {user}
MCAmounts == 0..2
MCRates == 0..8

MCInit ==
  /\ collateralBal = [a \in MCAccounts |-> IF a = user THEN 2 ELSE IF a = pair THEN 2 ELSE 0]
  /\ borrowBal = [a \in MCAccounts |-> IF a = user THEN 0 ELSE 2]
  /\ LendingInit /\ P!PairInit

MCSpec == MCInit /\ [][MarketNext]_marketVars
=============================================================================
