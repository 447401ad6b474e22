--------------------------- MODULE LendingMarket ---------------------------
(***************************************************************************)
(* Lending and the Pair that prices its loans, on one pair of tokens:      *)
(* token0 of the pair is the collateral token and token1 the borrow token  *)
(* (src/script/Lending.s.sol:25-26).  Lending may be called from the       *)
(* callback of a swap, so its calls interleave with SwapBegin and SwapEnd, *)
(* and borrow reads whatever the reserves are at that moment.              *)
(***************************************************************************)
EXTENDS Lending

CONSTANTS PairAddr, Q112, MaxU112, TimeModulus, MaxTime

VARIABLES reserve0, reserve1, blockTimestampLast,
          price0CumulativeLast, price1CumulativeLast,
          unlocked, frame, now, integral0, integral1

P == INSTANCE Pair WITH bal0 <- collateralBal, bal1 <- borrowBal

pairState == <<reserve0, reserve1, blockTimestampLast,
               price0CumulativeLast, price1CumulativeLast,
               unlocked, frame, now, integral0, integral1>>
marketVars == <<lendingVars, pairState>>

ASSUME MarketAssumption ==
  /\ PairAddr \in Accounts \ (Users \cup {LendingAddr})
  /\ Q112 \in Nat \ {0}
  /\ MaxU112 \in Nat /\ TimeModulus \in Nat \ {0} /\ MaxTime \in Nat

MarketInit == Init /\ P!PairInit

\* A call of Lending: borrow takes the pair's price, through getExchangeRate,
\* and reverts while the pair has none.
LendingStep ==
  /\ \E u \in Users, amount \in Amounts :
       \/ AddCollateral(u, amount)
       \/ RemoveCollateral(u, amount)
       \/ P!HasSpotPrice /\ Borrow(u, amount, P!SpotPrice)
       \/ Repay(u, amount)
  /\ UNCHANGED pairState

PairStep == P!PairCall /\ UNCHANGED books

\* Variants with a bug: one of the contracts has approved a spender.
HoldersMoveLenders ==
  /\ collateralBal' \in LedgerSteps(collateralBal, Accounts \ {PairAddr})
  /\ borrowBal' \in LedgerSteps(borrowBal, Accounts \ {PairAddr})
  /\ UNCHANGED <<books, pairState>>
HoldersMovePairs ==
  /\ collateralBal' \in LedgerSteps(collateralBal, Accounts \ {LendingAddr})
  /\ borrowBal' \in LedgerSteps(borrowBal, Accounts \ {LendingAddr})
  /\ UNCHANGED <<books, pairState>>

\* Holders other than the two contracts pay each other, or the contracts.
HoldersMove ==
  /\ collateralBal' \in LedgerSteps(collateralBal, Accounts \ {LendingAddr, PairAddr})
  /\ borrowBal' \in LedgerSteps(borrowBal, Accounts \ {LendingAddr, PairAddr})
  /\ UNCHANGED <<books, pairState>>

MarketTick == P!Tick /\ UNCHANGED books

MarketNext == LendingStep \/ PairStep \/ HoldersMove \/ MarketTick

MarketSpec == MarketInit /\ [][MarketNext]_marketVars
-----------------------------------------------------------------------------
\* Seen by Lending the market is an environment that only moves tokens of
\* others: every step of it is a step of Lending or leaves its books alone,
\* also the calls made from inside a swap (src/src/Lending.sol:22-57, 262).
ImplementsLending == Spec

\* Seen by the pair, Lending and its users are holders like any other: the
\* market is a behaviour of the pair, so what is shown of the pair holds here.
ImplementsPair == P!Spec
=============================================================================
