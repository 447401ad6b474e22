------------------------ MODULE LendingMarket_proofs ------------------------
(***************************************************************************)
(* Proofs about Lending alone, for any finite set of users, any amounts    *)
(* and any prices, and about the market it forms with a Pair.  LInv is     *)
(* inductive; the solvency of the contract needs its typing (no debit      *)
(* underflows) and nothing of the other parts.                             *)
(*                                                                         *)
(* The market implements both of its parts: seen by Lending it is a legal  *)
(* environment, seen by Pair it is one.  What is shown here of Lending and *)
(* in Pools_proofs of Pair then holds of the two together, also when       *)
(* Lending is called from the callback of a swap.                          *)
(***************************************************************************)
EXTENDS LendingMarket, Ledger_proofs

LInv == LendingTypeOK /\ CollateralBacked /\ DebtFreeIsUnlocked

USE LendingAssumption

(* What a repayment frees is at most what the loan used, all of it when    *)
(* the loan is paid off, and never more than its share.                    *)
LEMMA FreedFacts ==
  ASSUME NEW used \in Nat, NEW borrowed \in Nat \ {0}, NEW amount \in 0..borrowed
  PROVE  /\ Freed(used, amount, borrowed) \in 0..used
         /\ amount = borrowed => Freed(used, amount, borrowed) = used
         /\ Freed(used, amount, borrowed) * borrowed <= used * amount
<1> DEFINE n == used * amount
           q == n \div borrowed
<1>1. n \in Nat /\ amount \in Nat /\ borrowed \in Nat
  OBVIOUS
<1>2. n <= used * borrowed
  <2>1. \A a, b, c \in Nat : a <= b => c * a <= c * b
    OBVIOUS
  <2> QED
    BY <1>1, <2>1
<1> HIDE DEF n
<1>3. q \in Nat /\ q * borrowed <= n /\ n < (q + 1) * borrowed
  BY <1>1
<1> HIDE DEF q
<1>4. q * borrowed <= used * borrowed
  BY <1>1, <1>2, <1>3
<1>5. \A a, c \in Nat : a * borrowed <= c * borrowed => a <= c
  <2> SUFFICES ASSUME NEW a \in Nat, NEW c \in Nat, a > c
               PROVE  a * borrowed > c * borrowed
    OBVIOUS
  <2>1. a * borrowed = c * borrowed + (a - c) * borrowed
    OBVIOUS
  <2>2. (a - c) * borrowed > 0
    OBVIOUS
  <2> QED
    BY <2>1, <2>2
<1>6. q <= used
  BY <1>3, <1>4, <1>5
<1>7. ASSUME amount = borrowed
      PROVE  q = used
  <2>1. n = used * borrowed
    BY <1>7 DEF n
  <2>2. used * borrowed < (q + 1) * borrowed
    BY <2>1, <1>3
  <2>3. ~ (q + 1 <= used)
    <3> SUFFICES ASSUME q + 1 <= used PROVE FALSE
      OBVIOUS
    <3>1. \A a, b \in Nat : a <= b => a * borrowed <= b * borrowed
      OBVIOUS
    <3>2. (q + 1) * borrowed <= used * borrowed
      BY <3>1, <1>3
    <3>3. used * borrowed \in Nat /\ (q + 1) * borrowed \in Nat
      BY <1>1, <1>3
    <3> QED
      BY <3>2, <3>3, <2>2
  <2> QED
    BY <2>3, <1>3, <1>6
<1> QED
  BY <1>1, <1>3, <1>6, <1>7 DEF Freed, n, q

LEMMA LendingInitInv == Init => LInv
<1> SUFFICES ASSUME Init PROVE LInv
  OBVIOUS
<1>1. LendingTypeOK
  BY DEF Init, LendingInit, LendingTypeOK
<1>2. /\ usersCollateral \in [Users -> Int] /\ usersUsedCollateral \in [Users -> Int]
      /\ \A u \in Users : usersCollateral[u] = 0 /\ usersUsedCollateral[u] = 0
  BY DEF Init, LendingInit
<1>3. CollateralBacked
  <2>1. SumOver(usersCollateral, Users) = 0 /\ SumOver(usersUsedCollateral, Users) = 0
    BY <1>2, SumZero
  <2>2. collateralBal[LendingAddr] \in Nat
    BY <1>1 DEF LendingTypeOK
  <2> QED
    BY <2>1, <2>2 DEF CollateralBacked, CollateralOwed
<1> QED
  BY <1>1, <1>2, <1>3 DEF LInv, DebtFreeIsUnlocked

(* The goal of each step: the invariant, and what LoansAccountedFor and    *)
(* RepayKeepsCover say of the step.                                        *)
StepGoal == LInv' /\ LentOrHeld' >= LentOrHeld /\ \A u \in Users : CoverKept(u)

(* An account's entry, before and after, as numbers.                       *)
LEMMA LentType ==
  ASSUME LendingTypeOK
  PROVE  /\ SumOver(usersBorrowed, Users) \in Nat
         /\ borrowBal[LendingAddr] \in Nat /\ collateralBal[LendingAddr] \in Nat
         /\ SumOver(usersCollateral, Users) \in Nat
         /\ SumOver(usersUsedCollateral, Users) \in Nat
BY SumType DEF LendingTypeOK

LEMMA AddCollateralStep ==
  ASSUME LInv, NEW u \in Users, NEW amount \in Nat, AddCollateral(u, amount)
  PROVE  StepGoal
<1>0. LendingTypeOK /\ u \in Accounts /\ u # LendingAddr
  BY DEF LInv
<1>1. /\ collateralBal' \in [Accounts -> Nat]
      /\ collateralBal'[LendingAddr] = collateralBal[LendingAddr] + amount
  BY <1>0, MovedFacts DEF LendingTypeOK, AddCollateral
<1> DEFINE v == usersCollateral[u] + amount
<1>2. /\ v \in Nat /\ usersCollateral' \in [Users -> Nat] /\ usersCollateral'[u] = v
      /\ SameBut(usersCollateral, usersCollateral', u, Users)
  BY <1>0 DEF LendingTypeOK, AddCollateral, SameBut
<1> HIDE DEF v
<1>3. SumOver(usersCollateral', Users)
        = SumOver(usersCollateral, Users) - usersCollateral[u] + v
  BY <1>0, <1>2, PointWrite DEF LendingTypeOK
<1>4. /\ UNCHANGED <<borrowBal, usersUsedCollateral, usersBorrowed>>
      /\ usersCollateral[u] \in Nat
  BY <1>0 DEF LendingTypeOK, AddCollateral
<1>5. LendingTypeOK'
  BY <1>0, <1>1, <1>2, <1>4 DEF LendingTypeOK
<1>6. CollateralBacked'
  BY <1>0, <1>1, <1>3, <1>4, LentType DEF LInv, CollateralBacked, CollateralOwed, v
<1>7. DebtFreeIsUnlocked'
  BY <1>4 DEF LInv, DebtFreeIsUnlocked
<1>8. LentOrHeld' >= LentOrHeld
  BY <1>0, <1>4, LentType DEF LentOrHeld
<1>9. \A w \in Users : CoverKept(w)
  BY <1>0, <1>4 DEF LendingTypeOK, CoverKept
<1> QED
  BY <1>5, <1>6, <1>7, <1>8, <1>9 DEF StepGoal, LInv

LEMMA RemoveCollateralStep ==
  ASSUME LInv, NEW u \in Users, NEW amount \in Nat, RemoveCollateral(u, amount)
  PROVE  StepGoal
<1>0. LendingTypeOK /\ u \in Accounts /\ u # LendingAddr
  BY DEF LInv
<1>1. /\ collateralBal' \in [Accounts -> Nat]
      /\ collateralBal'[LendingAddr] = collateralBal[LendingAddr] - amount
  BY <1>0, MovedFacts DEF LendingTypeOK, RemoveCollateral
<1> DEFINE v == usersCollateral[u] - amount
<1>2. /\ v \in Nat /\ usersCollateral' \in [Users -> Nat] /\ usersCollateral'[u] = v
      /\ SameBut(usersCollateral, usersCollateral', u, Users)
  BY <1>0 DEF LendingTypeOK, RemoveCollateral, SameBut
<1> HIDE DEF v
<1>3. SumOver(usersCollateral', Users)
        = SumOver(usersCollateral, Users) - usersCollateral[u] + v
  BY <1>0, <1>2, PointWrite DEF LendingTypeOK
<1>4. /\ UNCHANGED <<borrowBal, usersUsedCollateral, usersBorrowed>>
      /\ usersCollateral[u] \in Nat
  BY <1>0 DEF LendingTypeOK, RemoveCollateral
<1>5. LendingTypeOK'
  BY <1>0, <1>1, <1>2, <1>4 DEF LendingTypeOK
<1>6. CollateralBacked'
  BY <1>0, <1>1, <1>3, <1>4, LentType DEF LInv, CollateralBacked, CollateralOwed, v
<1>7. DebtFreeIsUnlocked'
  BY <1>4 DEF LInv, DebtFreeIsUnlocked
<1>8. LentOrHeld' >= LentOrHeld
  BY <1>0, <1>4, LentType DEF LentOrHeld
<1>9. \A w \in Users : CoverKept(w)
  BY <1>0, <1>4 DEF LendingTypeOK, CoverKept
<1> QED
  BY <1>5, <1>6, <1>7, <1>8, <1>9 DEF StepGoal, LInv

LEMMA BorrowStep ==
  ASSUME LInv, NEW u \in Users, NEW amount \in Nat, NEW rate \in Nat,
         Borrow(u, amount, rate)
  PROVE  StepGoal
<1> DEFINE need == NeedCollateral(amount, rate)
           c == usersCollateral[u] - need
           s == usersUsedCollateral[u] + need
           b == usersBorrowed[u] + amount
<1>0. LendingTypeOK /\ u \in Accounts /\ u # LendingAddr
  BY DEF LInv
<1>1. need \in Nat /\ (amount = 0 => need = 0)
  <2>1. amount * rate \in Nat /\ (amount = 0 => amount * rate = 0)
    OBVIOUS
  <2> QED
    BY <2>1 DEF NeedCollateral
<1>2. /\ need <= usersCollateral[u] /\ CanPay(borrowBal, LendingAddr, amount)
      /\ borrowBal' = Moved(borrowBal, LendingAddr, u, amount)
      /\ collateralBal' = collateralBal
  BY DEF Borrow
<1> HIDE DEF need
<1>3. /\ usersCollateral[u] \in Nat /\ usersUsedCollateral[u] \in Nat
      /\ usersBorrowed[u] \in Nat /\ c \in Nat /\ s \in Nat /\ b \in Nat
      /\ c + s = usersCollateral[u] + usersUsedCollateral[u]
  BY <1>0, <1>1, <1>2 DEF LendingTypeOK
<1>4. /\ borrowBal' \in [Accounts -> Nat]
      /\ borrowBal'[LendingAddr] = borrowBal[LendingAddr] - amount
  BY <1>0, <1>2, MovedFacts DEF LendingTypeOK
<1>5. b >= usersBorrowed[u] /\ (b = 0 => amount = 0 /\ usersBorrowed[u] = 0)
      /\ b - usersBorrowed[u] = amount
  BY <1>3
<1>6. s = 0 \/ need # 0 \/ usersUsedCollateral[u] # 0
  BY <1>1, <1>3
<1>7a. /\ usersCollateral' \in [Users -> Nat] /\ usersCollateral'[u] = c
       /\ SameBut(usersCollateral, usersCollateral', u, Users)
  BY <1>0, <1>3 DEF LendingTypeOK, Borrow, need, SameBut
<1>8a. /\ usersUsedCollateral' \in [Users -> Nat] /\ usersUsedCollateral'[u] = s
       /\ SameBut(usersUsedCollateral, usersUsedCollateral', u, Users)
  BY <1>0, <1>3 DEF LendingTypeOK, Borrow, need, SameBut
<1>9a. /\ usersBorrowed' \in [Users -> Nat] /\ usersBorrowed'[u] = b
       /\ SameBut(usersBorrowed, usersBorrowed', u, Users)
  BY <1>0, <1>3 DEF LendingTypeOK, Borrow, need, SameBut
<1> HIDE DEF c, s, b
<1>7. SumOver(usersCollateral', Users)
        = SumOver(usersCollateral, Users) - usersCollateral[u] + c
  BY <1>0, <1>7a, PointWrite DEF LendingTypeOK
<1>8. SumOver(usersUsedCollateral', Users)
        = SumOver(usersUsedCollateral, Users) - usersUsedCollateral[u] + s
  BY <1>0, <1>8a, PointWrite DEF LendingTypeOK
<1>9. SumOver(usersBorrowed', Users)
        = SumOver(usersBorrowed, Users) - usersBorrowed[u] + b
  BY <1>0, <1>9a, PointWrite DEF LendingTypeOK
<1>10. LendingTypeOK'
  BY <1>0, <1>2, <1>4, <1>7a, <1>8a, <1>9a DEF LendingTypeOK
<1>11. CollateralBacked'
  BY <1>0, <1>2, <1>3, <1>7, <1>8, LentType DEF LInv, CollateralBacked, CollateralOwed
<1>12. DebtFreeIsUnlocked'
  BY <1>1, <1>5, <1>6, <1>8a, <1>9a DEF LInv, DebtFreeIsUnlocked, SameBut
<1>13. LentOrHeld' >= LentOrHeld
  BY <1>0, <1>3, <1>4, <1>5, <1>9, LentType DEF LentOrHeld
<1>14. \A w \in Users : CoverKept(w)
  BY <1>0, <1>3, <1>5, <1>9a DEF LendingTypeOK, CoverKept, SameBut
<1> QED
  BY <1>10, <1>11, <1>12, <1>13, <1>14 DEF StepGoal, LInv

LEMMA RepayStep ==
  ASSUME LInv, NEW u \in Users, NEW amount \in Nat, Repay(u, amount)
  PROVE  StepGoal
<1> DEFINE freed == Freed(usersUsedCollateral[u], amount, usersBorrowed[u])
           c == usersCollateral[u] + freed
           s == usersUsedCollateral[u] - freed
           b == usersBorrowed[u] - amount
<1>0. LendingTypeOK /\ u \in Accounts /\ u # LendingAddr
  BY DEF LInv
<1>1. /\ usersCollateral[u] \in Nat /\ usersUsedCollateral[u] \in Nat
      /\ usersBorrowed[u] \in Nat \ {0} /\ amount \in 0..usersBorrowed[u]
  BY <1>0 DEF LendingTypeOK, Repay
<1>2. /\ CanPay(borrowBal, u, amount)
      /\ borrowBal' = Moved(borrowBal, u, LendingAddr, amount)
      /\ collateralBal' = collateralBal
  BY DEF Repay
<1>3. /\ freed \in 0..usersUsedCollateral[u]
      /\ amount = usersBorrowed[u] => freed = usersUsedCollateral[u]
      /\ freed * usersBorrowed[u] <= usersUsedCollateral[u] * amount
  BY <1>1, FreedFacts
<1>4. /\ borrowBal' \in [Accounts -> Nat]
      /\ borrowBal'[LendingAddr] = borrowBal[LendingAddr] + amount
  BY <1>0, <1>2, MovedFacts DEF LendingTypeOK
<1>7a. /\ usersCollateral' \in [Users -> Nat] /\ usersCollateral'[u] = c
       /\ SameBut(usersCollateral, usersCollateral', u, Users)
  BY <1>0, <1>3 DEF LendingTypeOK, Repay, SameBut
<1>8a. /\ usersUsedCollateral' \in [Users -> Nat] /\ usersUsedCollateral'[u] = s
       /\ SameBut(usersUsedCollateral, usersUsedCollateral', u, Users)
  BY <1>0, <1>3 DEF LendingTypeOK, Repay, SameBut
<1>9a. /\ usersBorrowed' \in [Users -> Nat] /\ usersBorrowed'[u] = b
       /\ SameBut(usersBorrowed, usersBorrowed', u, Users)
  BY <1>0, <1>1 DEF LendingTypeOK, Repay, SameBut
<1> HIDE DEF freed
<1>5. /\ c \in Nat /\ s \in Nat /\ b \in Nat /\ b + amount = usersBorrowed[u]
      /\ c + s = usersCollateral[u] + usersUsedCollateral[u]
      /\ b = 0 => s = 0
  BY <1>1, <1>3
<1>6. s * usersBorrowed[u] >= usersUsedCollateral[u] * b
  <2>1. \A used, fr, owed, am \in Nat :
          fr * owed <= used * am => (used - fr) * owed >= used * (owed - am)
    <3> SUFFICES ASSUME NEW used \in Nat, NEW fr \in Nat, NEW owed \in Nat, NEW am \in Nat,
                        fr * owed <= used * am
                 PROVE  (used - fr) * owed >= used * (owed - am)
      OBVIOUS
    <3>1. (used - fr) * owed = used * owed - fr * owed
      OBVIOUS
    <3>2. used * (owed - am) = used * owed - used * am
      OBVIOUS
    <3>3. used * owed \in Int /\ fr * owed \in Int /\ used * am \in Int
      OBVIOUS
    <3> QED
      BY <3>1, <3>2, <3>3
  <2> QED
    BY <1>1, <1>3, <2>1
<1> HIDE DEF c, s, b
<1>7. SumOver(usersCollateral', Users)
        = SumOver(usersCollateral, Users) - usersCollateral[u] + c
  BY <1>0, <1>7a, PointWrite DEF LendingTypeOK
<1>8. SumOver(usersUsedCollateral', Users)
        = SumOver(usersUsedCollateral, Users) - usersUsedCollateral[u] + s
  BY <1>0, <1>8a, PointWrite DEF LendingTypeOK
<1>9. SumOver(usersBorrowed', Users)
        = SumOver(usersBorrowed, Users) - usersBorrowed[u] + b
  BY <1>0, <1>9a, PointWrite DEF LendingTypeOK
<1>10. LendingTypeOK'
  BY <1>0, <1>2, <1>4, <1>7a, <1>8a, <1>9a DEF LendingTypeOK
<1>11. CollateralBacked'
  BY <1>0, <1>1, <1>2, <1>5, <1>7, <1>8, LentType DEF LInv, CollateralBacked, CollateralOwed
<1>12. DebtFreeIsUnlocked'
  BY <1>5, <1>8a, <1>9a DEF LInv, DebtFreeIsUnlocked, SameBut
<1>13. LentOrHeld' >= LentOrHeld
  BY <1>0, <1>1, <1>4, <1>5, <1>9, LentType DEF LentOrHeld
<1>14. \A w \in Users : CoverKept(w)
  <2> SUFFICES ASSUME NEW w \in Users PROVE CoverKept(w)
    OBVIOUS
  <2>1. CASE w = u
    BY <1>6, <1>8a, <1>9a, <2>1 DEF CoverKept
  <2>2. CASE w # u
    BY <1>0, <1>9a, <2>2 DEF LendingTypeOK, CoverKept, SameBut
  <2> QED
    BY <2>1, <2>2
<1> QED
  BY <1>10, <1>11, <1>12, <1>13, <1>14 DEF StepGoal, LInv

LEMMA TokensMoveStep ==
  ASSUME LInv, TokensMove
  PROVE  StepGoal
<1>0. LendingTypeOK
  BY DEF LInv
<1> DEFINE S == Accounts \ {LendingAddr}
<1>1. S \subseteq Accounts /\ LendingAddr \in Accounts \ S
  OBVIOUS
<1>2. /\ collateralBal' \in LedgerSteps(collateralBal, S)
      /\ borrowBal' \in LedgerSteps(borrowBal, S)
      /\ UNCHANGED <<usersCollateral, usersUsedCollateral, usersBorrowed>>
  BY DEF TokensMove, books
<1> HIDE DEF S
<1>3. /\ collateralBal' \in [Accounts -> Nat]
      /\ collateralBal'[LendingAddr] >= collateralBal[LendingAddr]
  BY <1>0, <1>1, <1>2, LedgerStepsFacts DEF LendingTypeOK
<1>4. /\ borrowBal' \in [Accounts -> Nat]
      /\ borrowBal'[LendingAddr] >= borrowBal[LendingAddr]
  BY <1>0, <1>1, <1>2, LedgerStepsFacts DEF LendingTypeOK
<1>5. LendingTypeOK'
  BY <1>0, <1>2, <1>3, <1>4 DEF LendingTypeOK
<1>6. CollateralBacked'
  BY <1>0, <1>2, <1>3, LentType DEF LInv, CollateralBacked, CollateralOwed, LendingTypeOK
<1>7. DebtFreeIsUnlocked'
  BY <1>2 DEF LInv, DebtFreeIsUnlocked
<1>8. LentOrHeld' >= LentOrHeld
  BY <1>0, <1>2, <1>4, LentType DEF LentOrHeld, LendingTypeOK
<1>9. \A w \in Users : CoverKept(w)
  BY <1>0, <1>2 DEF LendingTypeOK, CoverKept
<1> QED
  BY <1>5, <1>6, <1>7, <1>8, <1>9 DEF StepGoal, LInv

(* The invariant is inductive, and each step does what the two action      *)
(* properties say.                                                         *)
LEMMA LendingNextStep == LInv /\ [Next]_lendingVars => LInv' /\ (Next => StepGoal)
<1>1. ASSUME LInv, Next
      PROVE  StepGoal
  <2>1. CASE TokensMove
    BY <1>1, <2>1, TokensMoveStep
  <2>2. ASSUME NEW u \in Users, NEW amount \in Amounts, LendingCall(u, amount)
        PROVE  StepGoal
    <3>1. amount \in Nat /\ Rates \subseteq Nat
      OBVIOUS
    <3>2. CASE AddCollateral(u, amount)
      BY <1>1, <3>1, <3>2, AddCollateralStep
    <3>3. CASE RemoveCollateral(u, amount)
      BY <1>1, <3>1, <3>3, RemoveCollateralStep
    <3>4. ASSUME NEW rate \in Rates, Borrow(u, amount, rate)
          PROVE  StepGoal
      BY <1>1, <3>1, <3>4, BorrowStep
    <3>5. CASE Repay(u, amount)
      BY <1>1, <3>1, <3>5, RepayStep
    <3> QED
      BY <2>2, <3>2, <3>3, <3>4, <3>5 DEF LendingCall
  <2> QED
    BY <1>1, <2>1, <2>2 DEF Next
<1>2. ASSUME LInv, UNCHANGED lendingVars
      PROVE  LInv'
  BY <1>2 DEF LInv, LendingTypeOK, CollateralBacked, CollateralOwed,
              DebtFreeIsUnlocked, lendingVars, books
<1> QED
  BY <1>1, <1>2 DEF StepGoal

(* Lending's books and ledgers stay naturals: no checked subtraction of    *)
(* the contract underflows.                                                *)
THEOREM LendingTyped == Spec => []LendingTypeOK
<1>1. LInv => LendingTypeOK
  BY DEF LInv
<1> QED
  BY <1>1, LendingInitInv, LendingNextStep, PTL DEF Spec

(* Lending always holds the free and the used collateral of all its users  *)
(* (src/src/Lending.sol:22-53), whatever prices the pair reports.          *)
THEOREM LendingSolvent == Spec => []CollateralBacked
<1>1. LInv => CollateralBacked
  BY DEF LInv
<1> QED
  BY <1>1, LendingInitInv, LendingNextStep, PTL DEF Spec

(* A user without debt has no collateral locked away (line 46).            *)
THEOREM DebtFreeUnlocked == Spec => []DebtFreeIsUnlocked
<1>1. LInv => DebtFreeIsUnlocked
  BY DEF LInv
<1> QED
  BY <1>1, LendingInitInv, LendingNextStep, PTL DEF Spec

(* The borrow tokens Lending holds and those it is owed never fall         *)
(* together (lines 39, 42, 48 and 52).                                     *)
THEOREM LoansAccounted == Spec => LoansAccountedFor
<1>1. LInv /\ [Next]_lendingVars => [LentOrHeld' >= LentOrHeld]_lendingVars
  BY LendingNextStep DEF StepGoal
<1> QED
  BY <1>1, LendingInitInv, LendingNextStep, PTL DEF Spec, LoansAccountedFor

(* A partial repayment never leaves the rest of a loan less covered than   *)
(* the whole was: the rounding is in the lender's favour (line 46).        *)
THEOREM RepaymentKeepsCover == Spec => RepayKeepsCover
<1>1. LInv /\ [Next]_lendingVars => [\A u \in Users : CoverKept(u)]_lendingVars
  BY LendingNextStep DEF StepGoal
<1> QED
  BY <1>1, LendingInitInv, LendingNextStep, PTL DEF Spec, RepayKeepsCover
-----------------------------------------------------------------------------
USE MarketAssumption

MInv == LInv /\ reserve0 \in Nat /\ reserve1 \in Nat

MarketGoal ==
  /\ Next \/ UNCHANGED lendingVars
  /\ P!Next \/ UNCHANGED P!pairVars
  /\ reserve0' \in Nat /\ reserve1' \in Nat

LEMMA MarketMovedIsStep ==
  ASSUME MInv, NEW from \in Accounts, NEW to \in Accounts, NEW v \in Nat,
         NEW me \in Accounts, from # me
  PROVE  /\ CanPay(collateralBal, from, v) =>
              Moved(collateralBal, from, to, v) \in LedgerSteps(collateralBal, Accounts \ {me})
         /\ CanPay(borrowBal, from, v) =>
              Moved(borrowBal, from, to, v) \in LedgerSteps(borrowBal, Accounts \ {me})
<1> DEFINE S == Accounts \ {me}
<1>1. /\ S \subseteq Accounts /\ from \in S
      /\ collateralBal \in [Accounts -> Nat] /\ borrowBal \in [Accounts -> Nat]
  BY DEF MInv, LInv, LendingTypeOK
<1> HIDE DEF S
<1>2. CanPay(collateralBal, from, v) =>
        Moved(collateralBal, from, to, v) \in LedgerSteps(collateralBal, S)
  BY <1>1, MovedIsStep
<1>3. CanPay(borrowBal, from, v) =>
        Moved(borrowBal, from, to, v) \in LedgerSteps(borrowBal, S)
  BY <1>1, MovedIsStep
<1> QED
  BY <1>2, <1>3 DEF S

LEMMA StandStill ==
  ASSUME MInv, NEW S
  PROVE  collateralBal \in LedgerSteps(collateralBal, S) /\ borrowBal \in LedgerSteps(borrowBal, S)
BY DEF LedgerSteps

(* A call of Lending is one of its actions, and a payment for the pair.    *)
LEMMA LendingStepIsBoth ==
  ASSUME MInv, Rates = Nat, LendingStep
  PROVE  MarketGoal
<1>1. PICK u \in Users, amount \in Amounts :
        \/ AddCollateral(u, amount)
        \/ RemoveCollateral(u, amount)
        \/ P!HasSpotPrice /\ Borrow(u, amount, P!SpotPrice)
        \/ Repay(u, amount)
  BY DEF LendingStep
<1>2. /\ u \in Accounts /\ u # PairAddr /\ amount \in Nat
      /\ LendingAddr \in Accounts /\ LendingAddr # PairAddr /\ PairAddr \in Accounts
  OBVIOUS
<1>3. /\ UNCHANGED pairState /\ UNCHANGED <<P!slot, P!lock, P!clock>>
      /\ reserve0' \in Nat /\ reserve1' \in Nat
  BY DEF LendingStep, pairState, P!slot, P!lock, P!clock, MInv
<1>4. Next
  <2>1. P!HasSpotPrice => P!SpotPrice \in Rates
    <3>1. reserve1 * ONE \in Nat
      BY DEF MInv
    <3> DEFINE n == reserve1 * ONE
    <3> HIDE DEF n
    <3>2. n \in Nat /\ reserve0 \in Nat => (reserve0 # 0 => n \div reserve0 \in Nat)
      OBVIOUS
    <3> QED
      BY <3>1, <3>2 DEF P!HasSpotPrice, P!SpotPrice, MInv, n
  <2>2. LendingCall(u, amount)
    BY <1>1, <2>1 DEF LendingCall
  <2> QED
    BY <2>2 DEF Next
<1> DEFINE S == Accounts \ {PairAddr}
<1>5. /\ collateralBal' \in LedgerSteps(collateralBal, S)
      /\ borrowBal' \in LedgerSteps(borrowBal, S)
  <2>1. CASE AddCollateral(u, amount)
    BY <1>2, <2>1, MarketMovedIsStep, StandStill DEF AddCollateral
  <2>2. CASE RemoveCollateral(u, amount)
    BY <1>2, <2>2, MarketMovedIsStep, StandStill DEF RemoveCollateral
  <2>3. CASE Borrow(u, amount, P!SpotPrice)
    BY <1>2, <2>3, MarketMovedIsStep, StandStill DEF Borrow
  <2>4. CASE Repay(u, amount)
    BY <1>2, <2>4, MarketMovedIsStep, StandStill DEF Repay
  <2> QED
    BY <1>1, <2>1, <2>2, <2>3, <2>4
<1>6. P!Next
  BY <1>3, <1>5 DEF P!Next, P!TokensMove, P!LedgerSteps, LedgerSteps, P!Moved, Moved
<1> QED
  BY <1>3, <1>4, <1>6 DEF MarketGoal

(* A call of the pair is one of its actions, and a payment for Lending.    *)
LEMMA PairStepIsBoth ==
  ASSUME MInv, PairStep
  PROVE  MarketGoal
<1>0. /\ PairAddr \in Accounts /\ LendingAddr \in Accounts /\ PairAddr # LendingAddr
      /\ UNCHANGED books /\ P!PairCall
      /\ collateralBal \in [Accounts -> Nat] /\ borrowBal \in [Accounts -> Nat]
      /\ reserve0 \in Nat /\ reserve1 \in Nat
      /\ collateralBal[PairAddr] \in Nat /\ borrowBal[PairAddr] \in Nat
  BY DEF PairStep, MInv, LInv, LendingTypeOK
<1>1. P!Next
  BY <1>0 DEF P!Next
<1> DEFINE S == Accounts \ {LendingAddr}
           Goal == /\ collateralBal' \in LedgerSteps(collateralBal, S)
                   /\ borrowBal' \in LedgerSteps(borrowBal, S)
                   /\ reserve0' \in Nat /\ reserve1' \in Nat
<1>2. ASSUME NEW to \in Accounts, NEW v0 \in 0..reserve0, NEW v1 \in 0..reserve1,
             P!SwapBegin(v0, v1, to)
      PROVE  Goal
  <2>1. v0 \in Nat /\ v1 \in Nat
    BY <1>0
  <2>2. /\ CanPay(collateralBal, PairAddr, v0) /\ CanPay(borrowBal, PairAddr, v1)
        /\ collateralBal' = Moved(collateralBal, PairAddr, to, v0)
        /\ borrowBal' = Moved(borrowBal, PairAddr, to, v1)
        /\ UNCHANGED <<reserve0, reserve1>>
    BY <1>2 DEF P!SwapBegin, P!slot, P!CanPay, CanPay, P!Moved, Moved
  <2> QED
    BY <1>0, <2>1, <2>2, MarketMovedIsStep
<1>3. ASSUME NEW to \in Accounts, P!Skim(to)
      PROVE  Goal
  <2> DEFINE v0 == collateralBal[PairAddr] - reserve0
             v1 == borrowBal[PairAddr] - reserve1
  <2>1. v0 \in Nat /\ v1 \in Nat /\ CanPay(collateralBal, PairAddr, v0) /\ CanPay(borrowBal, PairAddr, v1)
    BY <1>0, <1>3 DEF P!Skim, CanPay
  <2>2. /\ collateralBal' = Moved(collateralBal, PairAddr, to, v0)
        /\ borrowBal' = Moved(borrowBal, PairAddr, to, v1)
        /\ UNCHANGED <<reserve0, reserve1>>
    BY <1>3 DEF P!Skim, P!slot, P!Moved, Moved
  <2> HIDE DEF v0, v1
  <2> QED
    BY <1>0, <2>1, <2>2, MarketMovedIsStep
<1>4. ASSUME P!SwapEnd \/ P!Sync
      PROVE  Goal
  <2>1. /\ UNCHANGED <<collateralBal, borrowBal>>
        /\ reserve0' = collateralBal[PairAddr] /\ reserve1' = borrowBal[PairAddr]
    BY <1>4 DEF P!SwapEnd, P!Sync, P!Update, P!ledgers
  <2> QED
    BY <1>0, <2>1, StandStill
<1>5. Goal
  BY <1>0, <1>2, <1>3, <1>4 DEF P!PairCall
<1>6. TokensMove
  BY <1>0, <1>5 DEF TokensMove
<1> QED
  BY <1>1, <1>5, <1>6 DEF MarketGoal, Next

LEMMA HoldersMoveIsBoth ==
  ASSUME MInv, HoldersMove
  PROVE  MarketGoal
<1> DEFINE T == Accounts \ {LendingAddr, PairAddr}
<1>1. ASSUME NEW bal, bal \in [Accounts -> Nat], NEW new \in LedgerSteps(bal, T)
      PROVE  /\ new \in LedgerSteps(bal, Accounts \ {LendingAddr})
             /\ new \in LedgerSteps(bal, Accounts \ {PairAddr})
  BY <1>1 DEF LedgerSteps
<1>2. /\ collateralBal' \in LedgerSteps(collateralBal, T)
      /\ borrowBal' \in LedgerSteps(borrowBal, T)
      /\ UNCHANGED <<books, pairState>> /\ UNCHANGED <<P!slot, P!lock, P!clock>>
      /\ reserve0' \in Nat /\ reserve1' \in Nat
      /\ collateralBal \in [Accounts -> Nat] /\ borrowBal \in [Accounts -> Nat]
  BY DEF HoldersMove, pairState, P!slot, P!lock, P!clock, MInv, LInv, LendingTypeOK
<1> HIDE DEF T
<1>3. TokensMove
  BY <1>1, <1>2 DEF TokensMove
<1>4. /\ collateralBal' \in LedgerSteps(collateralBal, Accounts \ {PairAddr})
      /\ borrowBal' \in LedgerSteps(borrowBal, Accounts \ {PairAddr})
  BY <1>1, <1>2
<1>5. P!TokensMove
  BY <1>2, <1>4 DEF P!TokensMove, P!LedgerSteps, LedgerSteps, P!Moved, Moved
<1> QED
  BY <1>2, <1>3, <1>5 DEF MarketGoal, Next, P!Next

LEMMA MarketNextStep ==
  ASSUME Rates = Nat
  PROVE  MInv /\ [MarketNext]_marketVars => MInv' /\ [Next]_lendingVars /\ [P!Next]_(P!pairVars)
<1>1. ASSUME MInv, MarketNext
      PROVE  MarketGoal
  <2>1. CASE MarketTick
    BY <1>1, <2>1 DEF MarketTick, P!Tick, P!ledgers, P!slot, MInv, MarketGoal, P!Next, lendingVars
  <2> QED
    BY <1>1, <2>1, LendingStepIsBoth, PairStepIsBoth, HoldersMoveIsBoth DEF MarketNext
<1>2. ASSUME MInv, UNCHANGED marketVars
      PROVE  MarketGoal
  BY <1>2 DEF marketVars, pairState, MInv, MarketGoal, P!pairVars, P!ledgers, P!slot,
              P!lock, P!clock, lendingVars
<1>3. ASSUME MInv, MarketGoal
      PROVE  MInv'
  BY <1>3, LendingNextStep DEF MInv, MarketGoal
<1> QED
  BY <1>1, <1>2, <1>3 DEF MarketGoal

LEMMA MarketInitInv == MarketInit => MInv /\ Init /\ P!Init
<1> SUFFICES ASSUME MarketInit PROVE MInv /\ Init /\ P!Init
  OBVIOUS
<1>1. Init /\ P!PairInit
  BY DEF MarketInit
<1>2. P!Init
  BY <1>1 DEF P!Init, Init
<1>3. reserve0 \in Nat /\ reserve1 \in Nat
  BY <1>1 DEF P!PairInit
<1> QED
  BY <1>1, <1>2, <1>3, LendingInitInv DEF MInv

(* Whatever happens in the pair, Lending sees only payments of others: the *)
(* market is a behaviour of Lending whose rates are the spot prices.       *)
THEOREM MarketImplementsLending ==
  ASSUME Rates = Nat
  PROVE  MarketSpec => ImplementsLending
BY MarketInitInv, MarketNextStep, PTL DEF MarketSpec, ImplementsLending, Spec

(* Lending and its users are ordinary holders to the pair: the market is a *)
(* behaviour of the pair.                                                  *)
THEOREM MarketImplementsPair ==
  ASSUME Rates = Nat
  PROVE  MarketSpec => ImplementsPair
BY MarketInitInv, MarketNextStep, PTL DEF MarketSpec, ImplementsPair, P!Spec

(* In the market, too, Lending holds all the collateral of its users.      *)
THEOREM MarketSolvent ==
  ASSUME Rates = Nat
  PROVE  MarketSpec => []CollateralBacked
BY MarketImplementsLending, LendingSolvent, PTL DEF ImplementsLending
=============================================================================
