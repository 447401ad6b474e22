----------------------------- MODULE MCLending -----------------------------
(* Lending.tla on a small instance: two users, an amount scale of 2. *)
EXTENDS Lending
CONSTANTS alice, bob, lender

MCAccounts == {alice, bob, lender}
MCUsers == {alice, bob}
MCAmounts == 0..2
MCRates == {1, 3}

\* The users hold two units of collateral each, Lending four of the borrow
\* token; what is lent comes back by repayment or as a donation.
MCInit ==
  /\ collateralBal = [a \in MCAccounts |-> IF a = lender THEN 0 ELSE 2]
  /\ borrowBal = [a \in MCAccounts |-> IF a = lender THEN 4 ELSE 0]
  /\ LendingInit

MCSpec == MCInit /\ [][Next]_lendingVars
=============================================================================
