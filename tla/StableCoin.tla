----------------------------- MODULE StableCoin -----------------------------
(***************************************************************************)
(* Contract Manager of src/src/StableCoin.sol with its ERC20Signal tokens: *)
(* users lock a collateral and owe MIM.  Collateral and debt of a position *)
(* are shares; what a share stands for is the signal of its token, which a *)
(* liquidation sets anew.  Shares are rounded up, values down.             *)
(*                                                                         *)
(* The price is constant, as fetchPrice has it.  MIM and collateral tokens *)
(* outside of the Manager can be paid to anyone, so they are only counted: *)
(* mim is all MIM there is, and a caller may have all of it.  The fee rate *)
(* is left out: it starts at 0 and only decays.                            *)
(***************************************************************************)
EXTENDS Sums, FiniteSets

CONSTANTS Users, Collaterals, NoCollateral,
          ONE, PRICE, MIN_CR, MIN_DEBT,
          Amounts,  \* what callers pass
          Backings, \* what the owner passes, as signal or as backing
          Supply,   \* the supply of each collateral token
          MaxShares, MaxMim \* bounds: the shares of a position, and all MIM

ASSUME StableAssumption ==
  /\ IsFiniteSet(Users) /\ IsFiniteSet(Collaterals) /\ NoCollateral \notin Collaterals
  /\ ONE \in Nat \ {0} /\ PRICE \in Nat /\ MIN_DEBT \in Nat \ {0}
  /\ MIN_CR \in Nat /\ ONE <= MIN_CR
  /\ Amounts \subseteq Nat \ {0} /\ Backings \subseteq Nat
  /\ Supply \in Nat /\ MaxShares \in Nat /\ MaxMim \in Nat

VARIABLES added,                     \* the keys of collateralData
          positionCollateral,
          debtShares, debtSignal,    \* protocolDebtToken of each collateral
          collShares, collSignal,    \* protocolCollateralToken
          held,                      \* the Manager's balances
          mim,
          loosened  \* history: collaterals with a signal once below ONE; the
                    \* debt signals of liquidations are not counted

debts == <<debtShares, debtSignal>>
colls == <<collShares, collSignal>>
stableVars == <<added, positionCollateral, debts, colls, held, mim, loosened>>

Init ==
  /\ added = {} /\ loosened = {} /\ mim = 0
  /\ positionCollateral = [u \in Users |-> NoCollateral]
  /\ debtShares = [t \in Collaterals |-> [u \in Users |-> 0]] /\ collShares = debtShares
  /\ debtSignal = [t \in Collaterals |-> ONE] /\ collSignal = debtSignal
  /\ held = [t \in Collaterals |-> 0]

RoundedUp(n, d) == (n + d - 1) \div d
Larger(x, y) == IF x <= y THEN y ELSE x

\* Variant with a bug: shares are rounded down.
SharesRoundedDown(amount, signal) == (amount * ONE) \div signal

SharesFor(amount, signal) == RoundedUp(amount * ONE, signal)
Value(shares, signal) == (shares * signal) \div ONE
Supplied(shares) == SumOver(shares, Users)

DebtOf(t, u) == Value(debtShares[t][u], debtSignal[t])
CollOf(t, u) == Value(collShares[t][u], collSignal[t])
TotalDebt(t) == Value(Supplied(debtShares[t]), debtSignal[t])

Health(collateral, debt) == (collateral * PRICE) \div debt
-----------------------------------------------------------------------------
\* manage: a change of collateral and of debt, negative to take out or repay.
Changed(shares, x, signal) ==
  IF x = 0 THEN shares
  ELSE IF x > 0 THEN shares + SharesFor(x, signal) ELSE shares - SharesFor(-x, signal)

\* Variant with a bug: a position is not closed.
PositionKept(t, u, debt) == [positionCollateral EXCEPT ![u] = t]

Positioned(t, u, debt) ==
  [positionCollateral EXCEPT ![u] =
     IF debt = 0 THEN NoCollateral ELSE IF DebtOf(t, u) = 0 THEN t ELSE @]

Valid(collateral, debt) ==
  IF debt = 0 THEN collateral = 0
  ELSE debt >= MIN_DEBT /\ Health(collateral, debt) >= MIN_CR

Settle(u, t, c, d) ==
  LET ds == Changed(debtShares[t][u], d, debtSignal[t])
      cs == Changed(collShares[t][u], c, collSignal[t])
      debt == Value(ds, debtSignal[t])
      collateral == Value(cs, collSignal[t]) IN
  /\ t \in added /\ positionCollateral[u] \in {NoCollateral, t}
  /\ d # 0 => debtSignal[t] > 0
  /\ c # 0 => collSignal[t] > 0
  /\ ds >= 0 /\ cs >= 0
  /\ d > 0 => ds <= MaxShares /\ mim + d <= MaxMim
  /\ c > 0 => cs <= MaxShares
  /\ mim + d >= 0 /\ held[t] + c \in 0..Supply
  /\ Valid(collateral, debt)
  /\ debtShares' = [debtShares EXCEPT ![t][u] = ds]
  /\ collShares' = [collShares EXCEPT ![t][u] = cs]
  /\ mim' = mim + d /\ held' = [held EXCEPT ![t] = @ + c]
  /\ positionCollateral' = Positioned(t, u, debt)
  /\ UNCHANGED <<added, debtSignal, collSignal, loosened>>

\* A repayment of all of the debt is RepayAll or refused.
Manage(u, t, c, d) ==
  /\ c # 0 \/ d # 0
  /\ d < 0 => -d # DebtOf(t, u)
  /\ Settle(u, t, c, d)

\* debtDelta is the debt or type(uint256).max, and collateralDelta 0.
RepayAll(u, t) == Settle(u, t, -CollOf(t, u), -DebtOf(t, u))
-----------------------------------------------------------------------------
NewSignal(backing, supply) ==
  IF backing = 0 /\ supply = 0 THEN ONE ELSE SharesFor(backing, supply)
MaySignal(backing, supply) == backing > 0 => supply > 0

\* Variant with a bug: what is left of the debt is read after the position is
\* closed, and the closed debt taken off again.
DebtLeftLate(t, u, burns) ==
  Larger(0, Value(Supplied([debtShares[t] EXCEPT ![u] = 0]), debtSignal[t])
              - (IF burns THEN DebtOf(t, u) ELSE 0))

DebtLeft(t, u, burns) == TotalDebt(t) - (IF burns THEN DebtOf(t, u) ELSE 0)

\* Variant with a bug: the collateral is counted before it is paid out.
BackingBefore(t, paid) == held[t]

Backing(t, paid) == held[t] - paid

\* Variant with a bug: the shares of collateral stay.
CollLeftKept(t, u) == collShares[t]

CollLeft(t, u) == [collShares[t] EXCEPT ![u] = 0]

MayPayOut(t, paid) == held[t] >= paid

\* The liquidator pays for the debt if the collateral is worth it; otherwise
\* the other positions take it over.
Burns(health) == health > ONE

Liquidate(u) ==
  LET t == positionCollateral[u]
      debt == DebtOf(t, u)
      burns == Burns(Health(CollOf(t, u), debt))
      ds == [debtShares[t] EXCEPT ![u] = 0]
      cs == CollLeft(t, u)
      left == DebtLeft(t, u, burns)
      backing == Backing(t, CollOf(t, u))
      signal == NewSignal(backing, Supplied(cs)) IN
  /\ t # NoCollateral
  /\ debt > 0 /\ Health(CollOf(t, u), debt) < MIN_CR
  /\ debt # TotalDebt(t)
  /\ burns => mim >= debt
  /\ MayPayOut(t, CollOf(t, u))
  /\ MaySignal(left, Supplied(ds)) /\ MaySignal(backing, Supplied(cs))
  /\ mim' = IF burns THEN mim - debt ELSE mim
  /\ held' = [held EXCEPT ![t] = @ - CollOf(t, u)]
  /\ positionCollateral' = [positionCollateral EXCEPT ![u] = NoCollateral]
  /\ debtShares' = [debtShares EXCEPT ![t] = ds]
  /\ collShares' = [collShares EXCEPT ![t] = cs]
  /\ debtSignal' = [debtSignal EXCEPT ![t] = NewSignal(left, Supplied(ds))]
  /\ collSignal' = [collSignal EXCEPT ![t] = signal]
  /\ loosened' = IF signal < ONE THEN loosened \cup {t} ELSE loosened
  /\ UNCHANGED added
-----------------------------------------------------------------------------
\* The owner.
AddCollateralToken(t, ofColl, ofDebt) ==
  /\ t \notin added /\ added' = added \cup {t}
  /\ collSignal' = [collSignal EXCEPT ![t] = ofColl]
  /\ debtSignal' = [debtSignal EXCEPT ![t] = ofDebt]
  /\ loosened' = IF ofColl < ONE \/ ofDebt < ONE THEN loosened \cup {t} ELSE loosened
  /\ UNCHANGED <<positionCollateral, debtShares, collShares, held, mim>>

UpdateDebtSignal(t, backing) ==
  LET signal == NewSignal(backing, Supplied(debtShares[t])) IN
  /\ t \in added /\ MaySignal(backing, Supplied(debtShares[t]))
  /\ debtSignal' = [debtSignal EXCEPT ![t] = signal]
  /\ loosened' = IF signal < ONE THEN loosened \cup {t} ELSE loosened
  /\ UNCHANGED <<added, positionCollateral, debtShares, colls, held, mim>>

UpdateCollSignal(t, backing) ==
  LET signal == NewSignal(backing, Supplied(collShares[t])) IN
  /\ t \in added /\ MaySignal(backing, Supplied(collShares[t]))
  /\ collSignal' = [collSignal EXCEPT ![t] = signal]
  /\ loosened' = IF signal < ONE THEN loosened \cup {t} ELSE loosened
  /\ UNCHANGED <<added, positionCollateral, collShares, debts, held, mim>>

\* Anyone may pay tokens to the Manager.
Donate(t) ==
  /\ held[t] < Supply /\ held' = [held EXCEPT ![t] = @ + 1]
  /\ UNCHANGED <<added, positionCollateral, debts, colls, mim, loosened>>

Deltas == {0} \cup Amounts \cup {-a : a \in Amounts}

Next ==
  \/ \E u \in Users :
       \/ Liquidate(u)
       \/ \E t \in Collaterals :
            RepayAll(u, t) \/ \E c, d \in Deltas : Manage(u, t, c, d)
  \/ \E t \in Collaterals :
       \/ Donate(t)
       \/ \E backing \in Backings : UpdateDebtSignal(t, backing) \/ UpdateCollSignal(t, backing)
       \/ \E ofColl, ofDebt \in Backings : AddCollateralToken(t, ofColl, ofDebt)

Spec == Init /\ [][Next]_stableVars
-----------------------------------------------------------------------------
StableTypeOK ==
  /\ added \subseteq Collaterals /\ loosened \subseteq Collaterals
  /\ positionCollateral \in [Users -> Collaterals \cup {NoCollateral}]
  /\ debtShares \in [Collaterals -> [Users -> Nat]] /\ debtSignal \in [Collaterals -> Nat]
  /\ collShares \in [Collaterals -> [Users -> Nat]] /\ collSignal \in [Collaterals -> Nat]
  /\ held \in [Collaterals -> Nat] /\ mim \in Nat

\* Whoever has a position owes something (src/src/StableCoin.sol:231-242 and
\* 362-374).
PositionsOwe ==
  \A u \in Users : LET t == positionCollateral[u] IN
    t # NoCollateral => debtShares[t][u] > 0

\* Whoever has no position in a collateral has no debt in it that nobody can
\* liquidate, and no collateral that is lost, down to the last share: the two
\* roundings, of shares up and of values down, leave no dust while no signal
\* has been below ONE (lines 107-127 and 208-242).
ClosedIsEmpty ==
  \A t \in Collaterals \ loosened, u \in Users :
    positionCollateral[u] # t => debtShares[t][u] = 0 /\ collShares[t][u] = 0

\* Liquidations bring no debt signal below ONE, however often the difference
\* of two rounded debts is divided anew (lines 115-119, 267-281 and 348-356).
DebtSignalAtPar == \A t \in Collaterals \ loosened : debtSignal[t] >= ONE

\* Positions and debts go together: none of the two is there without the other,
\* and no share of a debt has lost its worth.
PositionsMatchDebts == PositionsOwe /\ ClosedIsEmpty /\ DebtSignalAtPar

\* Whoever has the MIM can repay all of a debt and is never told that the
\* position is invalid (lines 217-237).
RepaymentNeverRefused ==
  \A u \in Users :
    LET t == positionCollateral[u] IN
    t # NoCollateral /\ mim >= DebtOf(t, u) /\ held[t] >= CollOf(t, u) => ENABLED RepayAll(u, t)

\* No repayment, loan or liquidation moves the debts away from the MIM there is
\* by more than a share's worth or, after a liquidation, the rounding of a signal
\* (lines 107-119, 225 and 272-281).
OwedBeyondMim == SumOver([t \in Collaterals |-> TotalDebt(t)], Collaterals) - mim
DebtFollowsMim ==
  [][\A t \in Collaterals : debtShares[t]' # debtShares[t] =>
       /\ OwedBeyondMim' >= OwedBeyondMim - RoundedUp(debtSignal[t], ONE)
       /\ OwedBeyondMim' <=
            OwedBeyondMim + RoundedUp(Larger(debtSignal[t], Supplied(debtShares[t])'), ONE)]_stableVars

\* No call promises more collateral than is held by more than it was promised
\* before and a share's worth, and a liquidation leaves no more than the
\* rounding of a signal (lines 107-119, 226 and 277-281).
PromisedBeyondHeld(t) == Value(Supplied(collShares[t]), collSignal[t]) - held[t]
PromisesBounded ==
  [][\A t \in Collaterals : collShares[t]' # collShares[t] =>
       PromisedBeyondHeld(t)' <= Larger(PromisedBeyondHeld(t) + RoundedUp(collSignal[t], ONE),
                              RoundedUp(Supplied(collShares[t])', ONE))]_stableVars
=============================================================================
