------------------------------ MODULE MCOracle ------------------------------
(* Oracle.tla on a small instance: two assets, a borrower and a lender who *)
(* also liquidates.                                                        *)
EXTENDS Oracle
CONSTANTS alice, bob, oracle

MCAccounts == {alice, bob, oracle}
MCUsers == {alice, bob}
MCAmounts == {1, 2}
MCPrices == {1, 2}
MCBaseRates == {1}

\* Alice holds asset 0 only, Bob asset 1 only.
MCInit ==
  /\ bal = [a \in Assets |-> [x \in MCAccounts |->
              IF <<a, x>> \in {<<0, alice>>, <<1, bob>>} THEN 2 ELSE 0]]
  /\ OracleInit

\* The roles are fixed: Alice borrows, Bob liquidates, and only Bob pays
\* anything into the contract without depositing it.
MCNext ==
  \/ \E rate \in BaseRates : AddAsset(rate)
  \/ \E a \in Assets, p \in Prices : PriceMoves(a, p)
  \/ \E u \in Users, a \in Assets, amount \in Amounts : Deposit(u, a, amount)
  \/ \E a \in Assets, amount \in Amounts : Borrow(alice, a, amount)
  \/ \E a, c \in Assets, amount \in Amounts : Liquidate(bob, alice, a, amount, c)
  \/ TokensMove(1) /\ bal'[1][alice] = bal[1][alice]
  \/ Tick

MCSpec == MCInit /\ [][MCNext]_oracleVars
=============================================================================
