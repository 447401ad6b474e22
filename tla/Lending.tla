------------------------------ MODULE Lending ------------------------------
(***************************************************************************)
(* Contract Lending of src/src/Lending.sol: users lock collateral, borrow  *)
(* against it at the spot price of a pair, and get it back as they repay.  *)
(* The price is an input here (Rates); LendingMarket.tla supplies it from  *)
(* the pair.  Every action is one successful call: a call that reverts     *)
(* leaves no trace.  A loan of zero and a repayment of zero are legal.     *)
(***************************************************************************)
EXTENDS Ledger, Sums, FiniteSets

CONSTANTS Accounts,     \* every address that may hold tokens
          Users,        \* the callers of Lending
          LendingAddr,  \* address(this)
          ONE,          \* the price scale, 1e18 in the code
          Amounts,      \* the amounts a caller may pass
          Rates,        \* the prices getExchangeRate may return
          MaxDebt       \* bound: the largest debt of one user (a uint256)

ASSUME LendingAssumption ==
  /\ Users \subseteq Accounts /\ IsFiniteSet(Users)
  /\ LendingAddr \in Accounts \ Users
  /\ ONE \in Nat \ {0}
  /\ Amounts \subseteq Nat /\ Rates \subseteq Nat
  /\ MaxDebt \in Nat

VARIABLES collateralBal,        \* ledger of collateralToken
          borrowBal,            \* ledger of borrowToken
          usersCollateral, usersUsedCollateral, usersBorrowed

books == <<usersCollateral, usersUsedCollateral, usersBorrowed>>
lendingVars == <<collateralBal, borrowBal, books>>

LendingInit ==
  /\ usersCollateral = [u \in Users |-> 0]
  /\ usersUsedCollateral = [u \in Users |-> 0]
  /\ usersBorrowed = [u \in Users |-> 0]

AddCollateral(u, amount) ==
  /\ CanPay(collateralBal, u, amount)
  /\ collateralBal' = Moved(collateralBal, u, LendingAddr, amount)
  /\ usersCollateral' = [usersCollateral EXCEPT ![u] = @ + amount]
  /\ UNCHANGED <<borrowBal, usersUsedCollateral, usersBorrowed>>

\* Variant with a bug: the balance of the user is not checked.
RemoveCollateralUnchecked(u, amount) ==
  /\ usersBorrowed[u] = 0
  /\ CanPay(collateralBal, LendingAddr, amount)
  /\ collateralBal' = Moved(collateralBal, LendingAddr, u, amount)
  /\ usersCollateral' = [usersCollateral EXCEPT ![u] = @ - amount]
  /\ UNCHANGED <<borrowBal, usersUsedCollateral, usersBorrowed>>

RemoveCollateral(u, amount) ==
  /\ usersBorrowed[u] = 0
  /\ usersCollateral[u] >= amount
  /\ CanPay(collateralBal, LendingAddr, amount)
  /\ collateralBal' = Moved(collateralBal, LendingAddr, u, amount)
  /\ usersCollateral' = [usersCollateral EXCEPT ![u] = @ - amount]
  /\ UNCHANGED <<borrowBal, usersUsedCollateral, usersBorrowed>>

\* The collateral a loan takes, rounded down.
NeedCollateral(amount, rate) == (amount * rate) \div ONE

\* Variant with a bug: a second loan replaces the debt of the first.
BorrowOverwrites(u, amount, rate) ==
  LET need == NeedCollateral(amount, rate) IN
  /\ need <= usersCollateral[u] /\ amount <= MaxDebt
  /\ CanPay(borrowBal, LendingAddr, amount)
  /\ borrowBal' = Moved(borrowBal, LendingAddr, u, amount)
  /\ usersUsedCollateral' = [usersUsedCollateral EXCEPT ![u] = @ + need]
  /\ usersCollateral' = [usersCollateral EXCEPT ![u] = @ - need]
  /\ usersBorrowed' = [usersBorrowed EXCEPT ![u] = amount]
  /\ UNCHANGED collateralBal

Borrow(u, amount, rate) ==
  LET need == NeedCollateral(amount, rate) IN
  /\ need <= usersCollateral[u]
  /\ usersBorrowed[u] + amount <= MaxDebt
  /\ CanPay(borrowBal, LendingAddr, amount)
  /\ borrowBal' = Moved(borrowBal, LendingAddr, u, amount)
  /\ usersUsedCollateral' = [usersUsedCollateral EXCEPT ![u] = @ + need]
  /\ usersCollateral' = [usersCollateral EXCEPT ![u] = @ - need]
  /\ usersBorrowed' = [usersBorrowed EXCEPT ![u] = @ + amount]
  /\ UNCHANGED collateralBal

\* Variants with a bug: rounded up, and divided before the multiplication.
FreedRoundedUp(used, amount, borrowed) ==
  (used * amount + borrowed - 1) \div borrowed
FreedDividedFirst(used, amount, borrowed) == (used \div borrowed) * amount

\* The share of used collateral that part of a loan frees, rounded down.
Freed(used, amount, borrowed) == (used * amount) \div borrowed

\* Variant with a bug: what a repayment frees stays in used collateral.
RepayKeepsUsed(u, amount) ==
  LET freed == Freed(usersUsedCollateral[u], amount, usersBorrowed[u]) IN
  /\ usersBorrowed[u] # 0
  /\ amount <= usersBorrowed[u]
  /\ CanPay(borrowBal, u, amount)
  /\ borrowBal' = Moved(borrowBal, u, LendingAddr, amount)
  /\ usersCollateral' = [usersCollateral EXCEPT ![u] = @ + freed]
  /\ usersBorrowed' = [usersBorrowed EXCEPT ![u] = @ - amount]
  /\ UNCHANGED <<collateralBal, usersUsedCollateral>>

\* Repaying nothing of no loan divides by zero and reverts.
Repay(u, amount) ==
  LET freed == Freed(usersUsedCollateral[u], amount, usersBorrowed[u]) IN
  /\ usersBorrowed[u] # 0
  /\ amount <= usersBorrowed[u]
  /\ CanPay(borrowBal, u, amount)
  /\ borrowBal' = Moved(borrowBal, u, LendingAddr, amount)
  /\ usersUsedCollateral' = [usersUsedCollateral EXCEPT ![u] = @ - freed]
  /\ usersCollateral' = [usersCollateral EXCEPT ![u] = @ + freed]
  /\ usersBorrowed' = [usersBorrowed EXCEPT ![u] = @ - amount]
  /\ UNCHANGED collateralBal

\* Everything else that moves the two tokens.  Nobody but Lending pays out
\* of Lending's account, but anyone may pay into it.
TokensMove ==
  /\ collateralBal' \in LedgerSteps(collateralBal, Accounts \ {LendingAddr})
  /\ borrowBal' \in LedgerSteps(borrowBal, Accounts \ {LendingAddr})
  /\ UNCHANGED books

LendingCall(u, amount) ==
  \/ AddCollateral(u, amount)
  \/ RemoveCollateral(u, amount)
  \/ \E rate \in Rates : Borrow(u, amount, rate)
  \/ Repay(u, amount)

Init ==
  /\ collateralBal \in [Accounts -> Nat]
  /\ borrowBal \in [Accounts -> Nat]
  /\ LendingInit

Next == (\E u \in Users, amount \in Amounts : LendingCall(u, amount)) \/ TokensMove

Spec == Init /\ [][Next]_lendingVars
-----------------------------------------------------------------------------
LendingTypeOK ==
  /\ collateralBal \in [Accounts -> Nat]
  /\ borrowBal \in [Accounts -> Nat]
  /\ usersCollateral \in [Users -> Nat]
  /\ usersUsedCollateral \in [Users -> Nat]
  /\ usersBorrowed \in [Users -> Nat]

\* What Lending owes its users in collateral, free and used.
CollateralOwed ==
  SumOver(usersCollateral, Users) + SumOver(usersUsedCollateral, Users)

\* Lending can always give every user all of their collateral back: its
\* balance covers the free and the used collateral of all users, whatever
\* they deposit, borrow and repay (src/src/Lending.sol:22-53).
CollateralBacked == collateralBal[LendingAddr] >= CollateralOwed

\* A loan that is paid off frees all the collateral it used: no rounding of
\* the partial repayments is left behind to lock it (line 46).
DebtFreeIsUnlocked ==
  \A u \in Users : usersBorrowed[u] = 0 => usersUsedCollateral[u] = 0

\* Every unit of the borrow token that leaves Lending is somebody's debt: its
\* balance and the debts together never fall (lines 39, 42, 48 and 52).
LentOrHeld == borrowBal[LendingAddr] + SumOver(usersBorrowed, Users)
LoansAccountedFor == [][LentOrHeld' >= LentOrHeld]_lendingVars

\* The rounding of a repayment favours the lender: what is left of a loan is
\* covered at least as well, unit for unit, as before (line 46).
CoverKept(u) ==
  usersBorrowed'[u] < usersBorrowed[u] =>
    usersUsedCollateral'[u] * usersBorrowed[u]
      >= usersUsedCollateral[u] * usersBorrowed'[u]
RepayKeepsCover == [][\A u \in Users : CoverKept(u)]_lendingVars
=============================================================================
