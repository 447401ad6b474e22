------------------------------- MODULE Oracle -------------------------------
(***************************************************************************)
(* Contract Oracle of src/src/Oracle.sol: a money market over a list of    *)
(* assets.  Users deposit, borrow against the value of their deposits, and *)
(* liquidate each other when the value of the debts has overtaken it.      *)
(* Debts bear interest, which updateInterest adds when an account is next  *)
(* touched.  There is neither repayment nor withdrawal.                    *)
(*                                                                         *)
(* Mappings are kept by asset, then by user.  Every asset has a token of   *)
(* its own.  The price of an asset is what its oracle answers, 0 where     *)
(* none is set; it may change between any two calls.                       *)
(***************************************************************************)
EXTENDS Ledger, Sums, FiniteSets

CONSTANTS Accounts, Users, OracleAddr,
          Amounts, Prices, BaseRates,
          PRECISION,         \* 1e18
          MIN_HEALTH_FACTOR, \* 1.05e18
          BAD_DEBT_RATIO,    \* 110
          PERCENT,           \* 100
          BLOCKS_PER_YEAR,   \* 365 days / 15
          MaxTotal,          \* bound: the largest total of an asset (a uint256)
          MaxAssets,         \* bound: how many assets the owner lists
          MaxBlock           \* bound: the last block

Assets == 0..(MaxAssets - 1)

ASSUME OracleAssumption ==
  /\ Users \subseteq Accounts /\ IsFiniteSet(Users)
  /\ OracleAddr \in Accounts \ Users
  /\ Amounts \subseteq Nat /\ Prices \subseteq Nat /\ BaseRates \subseteq Nat
  /\ PRECISION \in Nat \ {0} /\ MIN_HEALTH_FACTOR \in Nat
  /\ BAD_DEBT_RATIO \in Nat /\ PERCENT \in Nat \ {0}
  /\ BLOCKS_PER_YEAR \in Nat \ {0}
  /\ MaxTotal \in Nat /\ MaxAssets \in Nat /\ MaxBlock \in Nat

VARIABLES bal,                  \* bal[a] is the ledger of the token of asset a
          assetCount, baseRate, totalDeposited, totalBorrowed,
          deposited, borrowed, lastInterestBlock,
          price,
          block,                \* block.number
          ceiling,              \* history: each debt compounded every block
          writtenOff            \* history: debt cancelled less payment for it

listing == <<assetCount, baseRate>>
deposits == <<totalDeposited, deposited>>
debts == <<totalBorrowed, borrowed, lastInterestBlock>>
history == <<ceiling, writtenOff>>
oracleVars == <<bal, listing, deposits, debts, price, block, history>>

Listed == 0..(assetCount - 1)
PerUser(v) == [a \in Assets |-> [u \in Users |-> v]]
PerAsset(v) == [a \in Assets |-> v]

OracleInit ==
  /\ assetCount = 0 /\ baseRate = PerAsset(0)
  /\ totalDeposited = PerAsset(0) /\ deposited = PerUser(0)
  /\ totalBorrowed = PerAsset(0) /\ borrowed = PerUser(0)
  /\ lastInterestBlock = PerUser(0)
  /\ price = PerAsset(0) /\ block = 1
  /\ ceiling = PerUser(0) /\ writtenOff = PerAsset(0)

\* Adding to one entry of a mapping by asset and user, or by asset.
Added(m, a, u, v) == [m EXCEPT ![a][u] = @ + v]
AddedTo(m, a, v) == [m EXCEPT ![a] = @ + v]

\* The interest of a debt since it was last updated: none within a block.
Interest(a, u) ==
  ((borrowed[a][u] * baseRate[a] * (block - lastInterestBlock[a][u]))
     \div BLOCKS_PER_YEAR) \div PRECISION

\* Variants with a bug: interest is left out of the total, and an account
\* without debt is not updated.
TotalWithoutInterest(u, as) == totalBorrowed
StampedIfInDebt(u, as) ==
  [a \in Assets |-> IF a \in as /\ borrowed[a][u] > 0
                    THEN [lastInterestBlock[a] EXCEPT ![u] = block]
                    ELSE lastInterestBlock[a]]

\* What updateInterest(u, a) for each a of as leaves of the three mappings.
Updated(u, as) ==
  [a \in Assets |-> IF a \in as THEN [borrowed[a] EXCEPT ![u] = @ + Interest(a, u)]
                    ELSE borrowed[a]]
TotalUpdated(u, as) ==
  [a \in Assets |-> totalBorrowed[a] + (IF a \in as THEN Interest(a, u) ELSE 0)]
Stamped(u, as) ==
  [a \in Assets |-> IF a \in as THEN [lastInterestBlock[a] EXCEPT ![u] = block]
                    ELSE lastInterestBlock[a]]

\* calculateHealthFactor, infinite for an account whose debt is worth nothing.
Value(m, u) == SumOver([a \in Listed |-> m[a][u] * price[a]], Listed)
HasDebt(b, u) == Value(b, u) # 0
HealthFactor(b, u) == (Value(deposited, u) * PRECISION) \div Value(b, u)

AddAsset(rate) ==
  /\ assetCount < MaxAssets
  /\ assetCount' = assetCount + 1
  /\ baseRate' = [baseRate EXCEPT ![assetCount] = rate]
  /\ UNCHANGED <<bal, deposits, debts, price, block, history>>

\* setPriceOracle, setPrice, or the pool behind a CurvePriceOracle.
PriceMoves(a, p) ==
  /\ price' = [price EXCEPT ![a] = p]
  /\ UNCHANGED <<bal, listing, deposits, debts, block, history>>

Deposit(u, a, amount) ==
  /\ a \in Listed /\ amount > 0
  /\ CanPay(bal[a], u, amount) /\ totalDeposited[a] + amount <= MaxTotal
  /\ bal' = [bal EXCEPT ![a] = Moved(@, u, OracleAddr, amount)]
  /\ borrowed' = Updated(u, {a})
  /\ totalBorrowed' = TotalUpdated(u, {a})
  /\ lastInterestBlock' = Stamped(u, {a})
  /\ deposited' = Added(deposited, a, u, amount)
  /\ totalDeposited' = AddedTo(totalDeposited, a, amount)
  /\ UNCHANGED <<listing, price, block, history>>

\* Variant with a bug: a loan is not added to the total of its asset.
BorrowOutsideTotal(u, a, amount) ==
  LET b == Added(Updated(u, {a}), a, u, amount) IN
  /\ a \in Listed /\ amount > 0
  /\ HasDebt(b, u) => HealthFactor(b, u) >= MIN_HEALTH_FACTOR
  /\ CanPay(bal[a], OracleAddr, amount) /\ totalBorrowed[a] + amount <= MaxTotal
  /\ bal' = [bal EXCEPT ![a] = Moved(@, OracleAddr, u, amount)]
  /\ borrowed' = b
  /\ totalBorrowed' = TotalUpdated(u, {a})
  /\ lastInterestBlock' = Stamped(u, {a})
  /\ ceiling' = Added(ceiling, a, u, amount)
  /\ UNCHANGED <<listing, deposits, price, block, writtenOff>>

\* The health of an account is taken with its new debt, whose interest has
\* been updated, and with its other debts as they were last written.
Borrow(u, a, amount) ==
  LET b == Added(Updated(u, {a}), a, u, amount) IN
  /\ a \in Listed /\ amount > 0
  /\ HasDebt(b, u) => HealthFactor(b, u) >= MIN_HEALTH_FACTOR
  /\ CanPay(bal[a], OracleAddr, amount) /\ totalBorrowed[a] + amount <= MaxTotal
  /\ bal' = [bal EXCEPT ![a] = Moved(@, OracleAddr, u, amount)]
  /\ borrowed' = b
  /\ totalBorrowed' = AddedTo(TotalUpdated(u, {a}), a, amount)
  /\ lastInterestBlock' = Stamped(u, {a})
  /\ ceiling' = Added(ceiling, a, u, amount)
  /\ UNCHANGED <<listing, deposits, price, block, writtenOff>>

Smaller(v, w) == IF v <= w THEN v ELSE w

\* Variant with a bug: the two prices are mixed up.
RealInverted(actual, a, c) == (actual * price[c]) \div price[a]

\* The collateral that a liquidation takes for the debt it cancels, and what
\* it pays for it: more than its worth when the borrower has no more.
Real(actual, a, c) == (actual * price[a]) \div price[c]
Seized(actual, a, c, held) == Smaller(Real(actual, a, c), held)
Payment(actual, a, c, held) ==
  LET worth == (Seized(actual, a, c, held) * price[c]) \div price[a]
  IN  IF Real(actual, a, c) > held THEN (worth * BAD_DEBT_RATIO) \div PERCENT ELSE worth

Liquidate(l, u, a, amount, c) ==
  LET b == Updated(u, {a, c})
      actual == Smaller(amount, b[a][u])
      seized == Seized(actual, a, c, deposited[c][u])
      payment == Payment(actual, a, c, deposited[c][u]) IN
  /\ {a, c} \subseteq Listed /\ amount > 0 /\ u # l /\ a # c
  /\ HasDebt(b, u) /\ HealthFactor(b, u) < PRECISION
  /\ price[a] # 0 /\ price[c] # 0
  /\ CanPay(bal[a], l, payment) /\ CanPay(bal[c], OracleAddr, seized)
  /\ bal' = [bal EXCEPT ![a] = Moved(@, l, OracleAddr, payment),
                        ![c] = Moved(@, OracleAddr, l, seized)]
  /\ borrowed' = Added(b, a, u, -actual)
  /\ totalBorrowed' = AddedTo(TotalUpdated(u, {a, c}), a, -actual)
  /\ lastInterestBlock' = Stamped(u, {a, c})
  /\ deposited' = Added(deposited, c, u, -seized)
  /\ totalDeposited' = AddedTo(totalDeposited, c, -seized)
  /\ ceiling' = Added(ceiling, a, u, -actual)
  /\ writtenOff' = AddedTo(writtenOff, a, actual - payment)
  /\ UNCHANGED <<listing, price, block>>

\* Payments by anyone but the contract.
TokensMove(a) ==
  /\ bal' \in {[bal EXCEPT ![a] = l] : l \in LedgerSteps(bal[a], Accounts \ {OracleAddr})}
  /\ UNCHANGED <<listing, deposits, debts, price, block, history>>

RoundedUp(n, d) == (n + d - 1) \div d

\* The next block.  The ceiling of a debt takes its interest, rounded up.
Tick ==
  /\ block < MaxBlock
  /\ block' = block + 1
  /\ ceiling' = [a \in Assets |-> [u \in Users |->
       ceiling[a][u] + RoundedUp(ceiling[a][u] * baseRate[a], BLOCKS_PER_YEAR * PRECISION)]]
  /\ UNCHANGED <<bal, listing, deposits, debts, price, writtenOff>>

Init == bal \in [Assets -> [Accounts -> Nat]] /\ OracleInit

Next ==
  \/ \E rate \in BaseRates : AddAsset(rate)
  \/ \E a \in Assets : (\E p \in Prices : PriceMoves(a, p)) \/ TokensMove(a)
  \/ \E u \in Users, a \in Assets, amount \in Amounts :
       \/ Deposit(u, a, amount)
       \/ Borrow(u, a, amount)
       \/ \E l \in Users, c \in Assets : Liquidate(l, u, a, amount, c)
  \/ Tick

Spec == Init /\ [][Next]_oracleVars
-----------------------------------------------------------------------------
OracleTypeOK ==
  /\ bal \in [Assets -> [Accounts -> Nat]]
  /\ assetCount \in 0..MaxAssets /\ baseRate \in [Assets -> Nat]
  /\ totalDeposited \in [Assets -> Nat] /\ totalBorrowed \in [Assets -> Nat]
  /\ deposited \in [Assets -> [Users -> Nat]]
  /\ borrowed \in [Assets -> [Users -> Nat]]
  /\ lastInterestBlock \in [Assets -> [Users -> 0..block]]
  /\ price \in [Assets -> Nat] /\ block \in Nat
  /\ ceiling \in [Assets -> [Users -> Nat]] /\ writtenOff \in [Assets -> Int]

\* The totals of an asset are the sums over its users, through interest that
\* is added to both and liquidations that touch two assets at once
\* (src/src/Oracle.sol:161-162, 177-178, 221-225 and 242-243).
TotalsMatch ==
  \A a \in Assets :
    /\ totalDeposited[a] = SumOver(deposited[a], Users)
    /\ totalBorrowed[a] = SumOver(borrowed[a], Users)

\* What depositors are owed in an asset is there in tokens or lent, but for
\* what liquidations cancelled without being paid for it (lines 207-225).
DepositsCovered ==
  \A a \in Assets :
    bal[a][OracleAddr] + totalBorrowed[a] + writtenOff[a] >= totalDeposited[a]

\* Interest is charged for no block twice and for no block before the loan,
\* whoever touches the account and when: no debt, with the interest that is
\* due on it, exceeds what it would be if it were compounded every block
\* (lines 171 and 230-245).
InterestBounded ==
  \A a \in Assets, u \in Users : borrowed[a][u] + Interest(a, u) <= ceiling[a][u]

\* A liquidation costs the depositors of the borrowed asset no more than the
\* rounding of two divisions, less than a unit of each asset in value, unless
\* the borrower is left with no collateral in the other (lines 207-216).
LossIsRoundingOrBadDebt ==
  [][\A a \in Assets :
       LET loss == writtenOff'[a] - writtenOff[a] IN
       loss > 0 =>
         \E c \in Assets \ {a}, u \in Users :
           /\ deposited'[c][u] = 0 \/ loss * price[a] < price[a] + price[c]
           /\ borrowed'[a][u] < borrowed[a][u] + Interest(a, u)]_oracleVars
=============================================================================
