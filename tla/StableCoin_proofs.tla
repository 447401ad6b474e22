--------------------------- MODULE StableCoin_proofs ---------------------------
(***************************************************************************)
(* Theorems about StableCoin: for any users, collaterals, price and bounds *)
(* positions and debts go together, and no call moves the debts away from  *)
(* the MIM there is, or the promises away from what is held, by more than  *)
(* the roundings of shares and signals.  A debt can always be repaid.      *)
(***************************************************************************)
EXTENDS StableCoin, Ledger_proofs

(* Division up.                                                            *)
LEMMA Up ==
  ASSUME NEW n \in Nat, NEW d \in Nat \ {0}
  PROVE  /\ RoundedUp(n, d) \in Nat
         /\ n <= RoundedUp(n, d) * d /\ RoundedUp(n, d) * d < n + d
<1>1. n + d - 1 \in Nat
  OBVIOUS
<1> QED
  BY <1>1, Down DEF RoundedUp

(* What shares are worth.                                                  *)
LEMMA ValueBounds ==
  ASSUME NEW shares \in Nat, NEW signal \in Nat
  PROVE  /\ shares * signal \in Nat /\ Value(shares, signal) \in Nat
         /\ Value(shares, signal) * ONE <= shares * signal
         /\ shares * signal < Value(shares, signal) * ONE + ONE
<1>1. shares * signal \in Nat
  OBVIOUS
<1> QED
  BY <1>1, Down, StableAssumption DEF Value

LEMMA SharesForBounds ==
  ASSUME NEW amount \in Nat, NEW signal \in Nat \ {0}
  PROVE  /\ SharesFor(amount, signal) \in Nat
         /\ amount * ONE <= SharesFor(amount, signal) * signal
         /\ SharesFor(amount, signal) * signal < amount * ONE + signal
<1>1. amount * ONE \in Nat
  BY StableAssumption
<1> QED
  BY <1>1, Up DEF SharesFor

(* At a signal of at least ONE no share is without worth.                  *)
LEMMA WorthAtPar ==
  ASSUME NEW shares \in Nat, NEW signal \in Nat, ONE <= signal
  PROVE  /\ shares <= Value(shares, signal)
         /\ Value(shares, signal) = 0 => shares = 0
<1> DEFINE v == Value(shares, signal)
<1>1. ONE \in Nat /\ signal \in Int
  BY StableAssumption
<1>2. v \in Nat /\ shares * signal < v * ONE + ONE
  BY ValueBounds
<1>3. shares * ONE <= shares * signal
  BY <1>1, ProductOrder
<1> HIDE DEF v
<1>4. v * ONE + ONE = (v + 1) * ONE
  BY <1>1, <1>2
<1>5. shares * ONE \in Int /\ shares * signal \in Int /\ (v + 1) * ONE \in Int
  BY <1>1, <1>2
<1>6. shares * ONE < (v + 1) * ONE
  BY <1>2, <1>3, <1>4, <1>5
<1>7. shares < v + 1
  BY <1>1, <1>2, <1>6, ProductCancel
<1> QED
  BY <1>2, <1>7 DEF v

(* The worth of a sum is at least the sum of the worths.                   *)
LEMMA ValueOfSum ==
  ASSUME NEW a \in Nat, NEW b \in Nat, NEW signal \in Nat
  PROVE  Value(a, signal) + Value(b, signal) <= Value(a + b, signal)
<1> DEFINE x == Value(a, signal)
           y == Value(b, signal)
           z == Value(a + b, signal)
<1>1. ONE \in Nat /\ a + b \in Nat
  BY StableAssumption
<1>2. /\ x \in Nat /\ y \in Nat /\ z \in Nat /\ a + b \in Nat
      /\ a * signal \in Nat /\ b * signal \in Nat /\ (a + b) * signal \in Nat
      /\ x * ONE <= a * signal /\ y * ONE <= b * signal /\ (a + b) * signal < z * ONE + ONE
  BY <1>1, ValueBounds
<1> HIDE DEF x, y, z
<1>3. (a + b) * signal = a * signal + b * signal
      /\ (x + y) * ONE = x * ONE + y * ONE /\ (z + 1) * ONE = z * ONE + ONE
  BY <1>1, <1>2
<1>4. x * ONE \in Int /\ y * ONE \in Int /\ z * ONE \in Int
  BY <1>1, <1>2
<1>5. (x + y) * ONE < (z + 1) * ONE
  BY <1>1, <1>2, <1>3, <1>4
<1>6. x + y < z + 1
  BY <1>1, <1>2, <1>5, ProductCancel
<1> QED
  BY <1>2, <1>6 DEF x, y, z

(* Shares issued for an amount add the amount to the worth of all shares,  *)
(* and at most a share's worth more.                                       *)
LEMMA IssueValue ==
  ASSUME NEW s \in Nat, NEW amount \in Nat, NEW signal \in Nat \ {0}
  PROVE  LET k == SharesFor(amount, signal) IN
         /\ Value(s, signal) + amount <= Value(s + k, signal)
         /\ Value(s + k, signal) <= Value(s, signal) + amount + RoundedUp(signal, ONE)
<1> DEFINE k == SharesFor(amount, signal)
           v == Value(s, signal)
           w == Value(s + k, signal)
           r == RoundedUp(signal, ONE)
<1>1. ONE \in Nat /\ ONE \in Nat \ {0} /\ signal \in Nat
  BY StableAssumption
<1>2. k \in Nat /\ amount * ONE <= k * signal /\ k * signal < amount * ONE + signal
  BY SharesForBounds
<1>3. s + k \in Nat
  BY <1>2
<1>4. /\ v \in Nat /\ w \in Nat /\ s * signal \in Nat /\ (s + k) * signal \in Nat
      /\ v * ONE <= s * signal /\ s * signal < v * ONE + ONE
      /\ w * ONE <= (s + k) * signal /\ (s + k) * signal < w * ONE + ONE
  BY <1>1, <1>3, ValueBounds
<1>5. r \in Nat /\ signal <= r * ONE
  BY <1>1, Up
<1> HIDE DEF k, v, w, r
<1>6. /\ (s + k) * signal = s * signal + k * signal /\ k * signal \in Int
      /\ (v + amount) * ONE = v * ONE + amount * ONE /\ (w + 1) * ONE = w * ONE + ONE
      /\ (v + amount + r + 1) * ONE = v * ONE + amount * ONE + r * ONE + ONE
      /\ v * ONE \in Int /\ w * ONE \in Int /\ amount * ONE \in Int /\ r * ONE \in Int
  BY <1>1, <1>2, <1>4, <1>5
<1>7. (v + amount) * ONE < (w + 1) * ONE /\ w * ONE < (v + amount + r + 1) * ONE
  BY <1>1, <1>2, <1>4, <1>5, <1>6
<1>8. v + amount < w + 1 /\ w < v + amount + r + 1
  BY <1>1, <1>4, <1>5, <1>7, ProductCancel
<1> QED
  BY <1>4, <1>5, <1>8 DEF k, v, w, r

(* A new signal makes all shares worth what backs them, and at most its    *)
(* own rounding more.                                                      *)
LEMMA NewSignalBounds ==
  ASSUME NEW backing \in Nat, NEW supply \in Nat, MaySignal(backing, supply)
  PROVE  LET signal == NewSignal(backing, supply) IN
         /\ signal \in Nat
         /\ backing <= Value(supply, signal)
         /\ Value(supply, signal) <= backing + RoundedUp(supply, ONE)
         /\ supply <= backing => ONE <= signal
<1> DEFINE signal == NewSignal(backing, supply)
           w == Value(supply, signal)
           r == RoundedUp(supply, ONE)
<1>1. ONE \in Nat /\ ONE \in Nat \ {0} /\ r \in Nat /\ supply <= r * ONE
  BY StableAssumption, Up
<1>2. CASE supply = 0
  <2>1. backing = 0 /\ signal = ONE
    BY <1>2 DEF MaySignal, NewSignal
  <2>2. w \in Nat /\ w * ONE <= supply * ONE
    BY <1>1, <2>1, ValueBounds
  <2>3. w * ONE < 1 * ONE
    BY <1>1, <1>2, <2>2
  <2>4. w < 1
    BY <1>1, <2>2, <2>3, ProductCancel
  <2> QED
    BY <1>1, <2>1, <2>2, <2>4
<1>3. CASE supply # 0
  <2>1. supply \in Nat \ {0} /\ signal = SharesFor(backing, supply)
    BY <1>3 DEF NewSignal
  <2>2. /\ signal \in Nat
        /\ backing * ONE <= signal * supply /\ signal * supply < backing * ONE + supply
    BY <2>1, SharesForBounds
  <2> HIDE DEF signal
  <2>3. w \in Nat /\ w * ONE <= supply * signal /\ supply * signal < w * ONE + ONE
    BY <2>2, ValueBounds
  <2> HIDE DEF w, r
  <2>4. /\ supply * signal = signal * supply /\ signal * supply \in Int
        /\ backing * ONE \in Int /\ w * ONE \in Int /\ r * ONE \in Int
        /\ (w + 1) * ONE = w * ONE + ONE
        /\ (backing + r) * ONE = backing * ONE + r * ONE
    BY <1>1, <2>2, <2>3
  <2>5. backing * ONE < (w + 1) * ONE /\ w * ONE < (backing + r) * ONE
    BY <1>1, <2>2, <2>3, <2>4
  <2>6. backing < w + 1 /\ w < backing + r
    BY <1>1, <2>3, <2>5, ProductCancel
  <2>7. ASSUME supply <= backing PROVE ONE <= signal
    <3>1. supply * ONE <= backing * ONE /\ supply * ONE = ONE * supply
      BY <1>1, <2>7, ProductOrder
    <3>2. (signal + 1) * supply = signal * supply + supply /\ ONE * supply \in Int
      BY <1>1, <2>2
    <3>3. ONE * supply < (signal + 1) * supply
      BY <2>1, <2>2, <2>4, <3>1, <3>2
    <3>4. ONE < signal + 1
      BY <1>1, <2>2, <3>3, ProductCancel
    <3> QED
      BY <1>1, <2>2, <3>4
  <2> QED
    BY <1>1, <2>2, <2>3, <2>6, <2>7 DEF w, r, signal
<1> QED
  BY <1>2, <1>3
-----------------------------------------------------------------------------
(* Every collateral that was never loosened has both signals at ONE or     *)
(* above; what is said of positions and debts needs it of both.            *)
SignalsAtPar ==
  \A t \in Collaterals \ loosened : debtSignal[t] >= ONE /\ collSignal[t] >= ONE

StableInv == StableTypeOK /\ PositionsOwe /\ ClosedIsEmpty /\ SignalsAtPar

LEMMA StableInitInv == Init => StableInv
<1> SUFFICES ASSUME Init PROVE StableInv
  OBVIOUS
<1>1. StableTypeOK
  BY StableAssumption DEF Init, StableTypeOK
<1>2. PositionsOwe /\ ClosedIsEmpty
  BY DEF Init, PositionsOwe, ClosedIsEmpty
<1>3. SignalsAtPar
  BY StableAssumption DEF Init, SignalsAtPar
<1> QED
  BY <1>1, <1>2, <1>3 DEF StableInv

(* Shares as manage changes them, and what all shares are worth then.      *)
LEMMA ChangedTyped ==
  ASSUME NEW shares \in Nat, NEW x \in Int, NEW signal \in Nat, x # 0 => signal > 0
  PROVE  Changed(shares, x, signal) \in Int
<1>1. CASE x = 0
  BY <1>1 DEF Changed
<1>2. CASE x > 0
  BY <1>2, SharesForBounds DEF Changed
<1>3. CASE x < 0
  BY <1>3, SharesForBounds DEF Changed
<1> QED
  BY <1>1, <1>2, <1>3

LEMMA ChangedValue ==
  ASSUME NEW s \in Nat, NEW own \in 0..s, NEW x \in Int, NEW signal \in Nat,
         x # 0 => signal > 0, Changed(own, x, signal) >= 0
  PROVE  LET v == Value(s, signal)
             w == Value(s - own + Changed(own, x, signal), signal)
             r == RoundedUp(signal, ONE) IN
         /\ v \in Nat /\ w \in Nat /\ r \in Nat
         /\ w >= v + x - r
         /\ w <= v + x + r
         /\ x <= 0 => w <= v + x
         /\ x >= 0 => w >= v + x
<1> DEFINE new == Changed(own, x, signal)
           v == Value(s, signal)
           w == Value(s - own + new, signal)
           r == RoundedUp(signal, ONE)
<1>1. new \in Int /\ own \in Nat /\ r \in Nat
  <2>1. own \in Nat /\ ONE \in Nat \ {0}
    BY StableAssumption
  <2>2. new \in Int
    BY <2>1, ChangedTyped
  <2>3. r \in Nat
    BY <2>1, Up
  <2> QED
    BY <2>1, <2>2, <2>3
<1>2. s - own + new \in Nat
  BY <1>1
<1>3. v \in Nat /\ w \in Nat
  BY <1>2, ValueBounds
<1>4. CASE x = 0
  <2>1. s - own + new = s
    BY <1>1, <1>4 DEF Changed
  <2>2. w = v
    BY <2>1
  <2> HIDE DEF v, w, r
  <2>3. w >= v + x - r /\ w <= v + x + r /\ w = v + x
    BY <1>1, <1>3, <1>4, <2>2
  <2> QED
    BY <1>1, <1>3, <2>3 DEF v, w, r
<1>5. CASE x > 0
  <2> DEFINE k == SharesFor(x, signal)
  <2>1. x \in Nat /\ signal \in Nat \ {0} /\ k \in Nat /\ new = own + k
    BY <1>5, SharesForBounds DEF Changed
  <2>2. s - own + new = s + k
    BY <1>1, <2>1
  <2>3. v + x <= w /\ w <= v + x + r
    BY <2>1, <2>2, IssueValue
  <2> HIDE DEF v, w, r
  <2>4. w >= v + x - r
    BY <1>1, <1>3, <2>1, <2>3
  <2> QED
    BY <1>1, <1>3, <1>5, <2>3, <2>4 DEF v, w, r
<1>6. CASE x < 0
  <2> DEFINE k == SharesFor(-x, signal)
             y == -x
             rest == s - own + new
  <2>1. y \in Nat /\ signal \in Nat \ {0} /\ k \in Nat /\ new = own - k
    BY <1>6, SharesForBounds DEF Changed
  <2>2. rest \in Nat /\ rest + k = s
    BY <1>1, <1>2, <2>1
  <2>3. w + y <= v /\ v <= w + y + r
    <3> HIDE DEF rest, y, r
    <3>1. Value(rest, signal) + y <= Value(rest + k, signal)
          /\ Value(rest + k, signal) <= Value(rest, signal) + y + r
      BY <2>1, <2>2, IssueValue DEF y, r
    <3> QED
      BY <3>1, <2>2 DEF rest
  <2> HIDE DEF v, w, r
  <2>4. w >= v + x - r /\ w <= v + x + r /\ w <= v + x
    BY <1>1, <1>3, <2>1, <2>3
  <2> QED
    BY <1>1, <1>3, <1>6, <2>4 DEF v, w, r
<1> QED
  BY <1>4, <1>5, <1>6

(* What one user has, and what all users of a collateral have together.    *)
LEMMA SuppliedTyped ==
  ASSUME NEW shares \in [Users -> Nat], NEW u \in Users
  PROVE  Supplied(shares) \in Nat /\ shares[u] \in 0..Supplied(shares)
<1>1. Supplied(shares) \in Nat
  BY SumType, StableAssumption DEF Supplied
<1>2. shares[u] <= Supplied(shares)
  BY SumBoundsPoint, StableAssumption DEF Supplied
<1> QED
  BY <1>1, <1>2

LEMMA SuppliedWith ==
  ASSUME NEW shares \in [Users -> Nat], NEW u \in Users, NEW n \in Nat
  PROVE  /\ [shares EXCEPT ![u] = n] \in [Users -> Nat]
         /\ Supplied([shares EXCEPT ![u] = n]) = Supplied(shares) - shares[u] + n
<1> DEFINE new == [shares EXCEPT ![u] = n]
<1>1. new \in [Users -> Nat] /\ SameBut(shares, new, u, Users) /\ new[u] = n
  BY DEF SameBut
<1> HIDE DEF new
<1>2. Supplied(new) = Supplied(shares) - shares[u] + new[u]
  BY <1>1, PointWrite, StableAssumption DEF Supplied
<1> QED
  BY <1>1, <1>2 DEF new

(* The state that a call of manage by u on t leaves.                       *)
LEMMA SettleFacts ==
  ASSUME StableInv, NEW u \in Users, NEW t \in Collaterals, NEW c \in Int, NEW d \in Int,
         Settle(u, t, c, d)
  PROVE  LET ds == Changed(debtShares[t][u], d, debtSignal[t])
             cs == Changed(collShares[t][u], c, collSignal[t]) IN
         /\ ds \in Nat /\ cs \in Nat
         /\ debtShares' = [debtShares EXCEPT ![t] = [debtShares[t] EXCEPT ![u] = ds]]
         /\ collShares' = [collShares EXCEPT ![t] = [collShares[t] EXCEPT ![u] = cs]]
         /\ debtShares' \in [Collaterals -> [Users -> Nat]]
         /\ collShares' \in [Collaterals -> [Users -> Nat]]
         /\ mim' = mim + d /\ mim' \in Nat
         /\ held' = [held EXCEPT ![t] = held[t] + c] /\ held' \in [Collaterals -> Nat]
<1> DEFINE ds == Changed(debtShares[t][u], d, debtSignal[t])
           cs == Changed(collShares[t][u], c, collSignal[t])
<1>1. /\ debtShares \in [Collaterals -> [Users -> Nat]] /\ debtSignal \in [Collaterals -> Nat]
      /\ collShares \in [Collaterals -> [Users -> Nat]] /\ collSignal \in [Collaterals -> Nat]
      /\ held \in [Collaterals -> Nat] /\ mim \in Nat
  BY DEF StableInv, StableTypeOK
<1>2. /\ debtShares[t][u] \in Nat /\ debtSignal[t] \in Nat
      /\ d # 0 => debtSignal[t] > 0
      /\ collShares[t][u] \in Nat /\ collSignal[t] \in Nat
      /\ c # 0 => collSignal[t] > 0
  BY <1>1 DEF Settle
<1>3. ds \in Int /\ cs \in Int
  <2>1. ds \in Int
    BY <1>2, ChangedTyped
  <2>2. cs \in Int
    BY <1>2, ChangedTyped
  <2> QED
    BY <2>1, <2>2
<1>4. ds >= 0 /\ cs >= 0
  BY DEF Settle
<1>5. /\ debtShares' = [debtShares EXCEPT ![t][u] = ds]
      /\ collShares' = [collShares EXCEPT ![t][u] = cs]
      /\ mim' = mim + d /\ held' = [held EXCEPT ![t] = @ + c]
      /\ mim + d >= 0 /\ held[t] + c \in 0..Supply
  BY DEF Settle
<1> HIDE DEF ds, cs
<1>6. ds \in Nat /\ cs \in Nat
  BY <1>3, <1>4
<1>7. /\ debtShares' = [debtShares EXCEPT ![t] = [debtShares[t] EXCEPT ![u] = ds]]
      /\ collShares' = [collShares EXCEPT ![t] = [collShares[t] EXCEPT ![u] = cs]]
  BY <1>1, <1>5
<1>8. /\ debtShares' \in [Collaterals -> [Users -> Nat]]
      /\ collShares' \in [Collaterals -> [Users -> Nat]]
  BY <1>1, <1>6, <1>7
<1>9. mim' \in Nat /\ held' = [held EXCEPT ![t] = held[t] + c] /\ held' \in [Collaterals -> Nat]
  BY <1>1, <1>5, StableAssumption
<1> QED
  BY <1>5, <1>6, <1>7, <1>8, <1>9 DEF ds, cs

(* A closed position leaves no share, and an open one has shares of debt.  *)
LEMMA SettleInv ==
  ASSUME StableInv, NEW u \in Users, NEW t \in Collaterals, NEW c \in Int, NEW d \in Int,
         Settle(u, t, c, d)
  PROVE  StableInv'
<1> DEFINE ds == Changed(debtShares[t][u], d, debtSignal[t])
           cs == Changed(collShares[t][u], c, collSignal[t])
           debt == Value(ds, debtSignal[t])
           collateral == Value(cs, collSignal[t])
<1>1. /\ ds \in Nat /\ cs \in Nat
      /\ debtShares' = [debtShares EXCEPT ![t] = [debtShares[t] EXCEPT ![u] = ds]]
      /\ collShares' = [collShares EXCEPT ![t] = [collShares[t] EXCEPT ![u] = cs]]
      /\ debtShares' \in [Collaterals -> [Users -> Nat]]
      /\ collShares' \in [Collaterals -> [Users -> Nat]]
      /\ mim' \in Nat /\ held' \in [Collaterals -> Nat]
  BY SettleFacts
<1>2. /\ t \in added /\ positionCollateral[u] \in {NoCollateral, t}
      /\ Valid(collateral, debt) /\ positionCollateral' = Positioned(t, u, debt)
      /\ UNCHANGED <<added, debtSignal, collSignal, loosened>>
  BY DEF Settle
<1> HIDE DEF ds, cs
<1>3. StableTypeOK /\ t # NoCollateral /\ NoCollateral \notin Collaterals
  BY StableAssumption DEF StableInv
<1>4. /\ positionCollateral' \in [Users -> Collaterals \cup {NoCollateral}]
      /\ \A x \in Users \ {u} : positionCollateral'[x] = positionCollateral[x]
      /\ positionCollateral'[u] = IF debt = 0 THEN NoCollateral
                                  ELSE IF DebtOf(t, u) = 0 THEN t ELSE positionCollateral[u]
  BY <1>2, <1>3 DEF Positioned, StableTypeOK
<1>5. StableTypeOK'
  BY <1>1, <1>2, <1>3, <1>4 DEF StableTypeOK
<1>6. /\ debtSignal[t] \in Nat /\ collSignal[t] \in Nat
      /\ debt \in Nat /\ collateral \in Nat
  <2>1. debtSignal[t] \in Nat /\ collSignal[t] \in Nat
    BY <1>3 DEF StableTypeOK
  <2> QED
    BY <1>1, <2>1, ValueBounds
<1>7. debt # 0 => ds > 0
  <2>1. ds = 0 => debt = 0
    <3> SUFFICES ASSUME ds = 0 PROVE debt = 0
      OBVIOUS
    <3>1. ONE \in Nat \ {0} /\ 0 * debtSignal[t] = 0
      BY <1>6, StableAssumption
    <3> QED
      BY <3>1 DEF Value
  <2> QED
    BY <1>1, <2>1
<1> HIDE DEF debt, collateral
<1>8. PositionsOwe'
  <2> SUFFICES ASSUME NEW x \in Users, positionCollateral'[x] # NoCollateral
               PROVE  debtShares'[positionCollateral'[x]][x] > 0
    BY DEF PositionsOwe
  <2>1. CASE x = u
    <3>1. debt # 0 /\ positionCollateral'[u] = t
      BY <1>2, <1>4, <2>1
    <3> QED
      BY <1>1, <1>3, <1>7, <2>1, <3>1 DEF StableTypeOK
  <2>2. CASE x # u
    <3>1. positionCollateral'[x] = positionCollateral[x] /\ positionCollateral[x] \in Collaterals
      BY <1>3, <1>4, <2>2 DEF StableTypeOK
    <3>2. debtShares[positionCollateral[x]][x] > 0
      BY <3>1 DEF StableInv, PositionsOwe
    <3> QED
      BY <1>1, <1>3, <2>2, <3>1, <3>2 DEF StableTypeOK
  <2> QED
    BY <2>1, <2>2
<1>9. ClosedIsEmpty'
  <2> SUFFICES ASSUME NEW s \in Collaterals \ loosened, NEW x \in Users,
                      positionCollateral'[x] # s
               PROVE  debtShares'[s][x] = 0 /\ collShares'[s][x] = 0
    BY <1>2 DEF ClosedIsEmpty
  <2>1. positionCollateral[x] # s => debtShares[s][x] = 0 /\ collShares[s][x] = 0
    BY DEF StableInv, ClosedIsEmpty
  <2>2. CASE x # u \/ s # t
    <3>1. debtShares'[s][x] = debtShares[s][x] /\ collShares'[s][x] = collShares[s][x]
      BY <1>1, <1>3, <2>2 DEF StableTypeOK
    <3>2. positionCollateral[x] # s
      BY <1>2, <1>3, <1>4, <2>2
    <3> QED
      BY <2>1, <3>1, <3>2
  <2>3. CASE x = u /\ s = t
    <3>1. debtSignal[t] >= ONE /\ collSignal[t] >= ONE /\ ONE \in Nat \ {0}
      BY <2>3, StableAssumption DEF StableInv, SignalsAtPar
    <3>2. debt = 0
      <4> SUFFICES ASSUME debt # 0 PROVE FALSE
        OBVIOUS
      <4>1. DebtOf(t, u) # 0 /\ positionCollateral[u] = NoCollateral
        BY <1>2, <1>4, <2>3
      <4>2. debtShares[t][u] = 0 /\ 0 * debtSignal[t] = 0
        BY <1>3, <1>6, <2>1, <2>3, <4>1
      <4> QED
        BY <3>1, <4>1, <4>2 DEF DebtOf, Value
    <3>3. collateral = 0
      BY <1>2, <3>2 DEF Valid
    <3>4. ds = 0 /\ cs = 0
      BY <1>1, <1>6, <3>1, <3>2, <3>3, WorthAtPar DEF debt, collateral
    <3> QED
      BY <1>1, <1>3, <2>3, <3>4 DEF StableTypeOK
  <2> QED
    BY <2>2, <2>3
<1>10. SignalsAtPar'
  BY <1>2 DEF SignalsAtPar, StableInv
<1> QED
  BY <1>5, <1>8, <1>9, <1>10 DEF StableInv

(* The state that a liquidation of u leaves, and what backs the shares of  *)
(* the others.                                                             *)
LEMMA LiquidateFacts ==
  ASSUME StableInv, NEW u \in Users, Liquidate(u)
  PROVE  LET t == positionCollateral[u]
             burns == Burns(Health(CollOf(t, u), DebtOf(t, u)))
             ds == [debtShares[t] EXCEPT ![u] = 0]
             cs == [collShares[t] EXCEPT ![u] = 0]
             left == TotalDebt(t) - (IF burns THEN DebtOf(t, u) ELSE 0)
             backing == held[t] - CollOf(t, u) IN
         /\ t \in Collaterals
         /\ debtShares' = [debtShares EXCEPT ![t] = ds]
         /\ collShares' = [collShares EXCEPT ![t] = cs]
         /\ ds \in [Users -> Nat] /\ cs \in [Users -> Nat]
         /\ Supplied(ds) \in Nat /\ Supplied(cs) \in Nat
         /\ DebtOf(t, u) \in Nat /\ TotalDebt(t) \in Nat
         /\ left \in Nat /\ backing \in Nat
         /\ MaySignal(left, Supplied(ds)) /\ MaySignal(backing, Supplied(cs))
         /\ debtSignal' = [debtSignal EXCEPT ![t] = NewSignal(left, Supplied(ds))]
         /\ collSignal' = [collSignal EXCEPT ![t] = NewSignal(backing, Supplied(cs))]
         /\ mim' = mim - (IF burns THEN DebtOf(t, u) ELSE 0) /\ mim' \in Nat
         /\ held' = [held EXCEPT ![t] = backing]
         /\ positionCollateral' = [positionCollateral EXCEPT ![u] = NoCollateral]
         /\ debtSignal[t] >= ONE => Supplied(ds) <= left
<1> DEFINE t == positionCollateral[u]
           burns == Burns(Health(CollOf(t, u), DebtOf(t, u)))
           ds == [debtShares[t] EXCEPT ![u] = 0]
           cs == [collShares[t] EXCEPT ![u] = 0]
           own == debtShares[t][u]
           left == TotalDebt(t) - (IF burns THEN DebtOf(t, u) ELSE 0)
           backing == held[t] - CollOf(t, u)
<1>1. t \in Collaterals
  BY DEF Liquidate, StableInv, StableTypeOK
<1>2. /\ debtShares[t] \in [Users -> Nat] /\ collShares[t] \in [Users -> Nat]
      /\ debtSignal[t] \in Nat /\ collSignal[t] \in Nat
      /\ held[t] \in Nat /\ mim \in Nat
      /\ held \in [Collaterals -> Nat]
  BY <1>1 DEF StableInv, StableTypeOK
<1>3. /\ debtShares' = [debtShares EXCEPT ![t] = ds]
      /\ collShares' = [collShares EXCEPT ![t] = cs]
      /\ MaySignal(left, Supplied(ds)) /\ MaySignal(backing, Supplied(cs))
      /\ debtSignal' = [debtSignal EXCEPT ![t] = NewSignal(left, Supplied(ds))]
      /\ collSignal' = [collSignal EXCEPT ![t] = NewSignal(backing, Supplied(cs))]
      /\ mim' = IF burns THEN mim - DebtOf(t, u) ELSE mim
      /\ burns => mim >= DebtOf(t, u)
      /\ held' = [held EXCEPT ![t] = @ - CollOf(t, u)]
      /\ held[t] >= CollOf(t, u)
      /\ positionCollateral' = [positionCollateral EXCEPT ![u] = NoCollateral]
  BY DEF Liquidate, DebtLeft, CollLeft, Backing, MayPayOut
<1>4. /\ ds \in [Users -> Nat] /\ cs \in [Users -> Nat]
      /\ Supplied(ds) \in Nat /\ Supplied(cs) \in Nat
      /\ Supplied(ds) = Supplied(debtShares[t]) - own
      /\ own \in Nat /\ collShares[t][u] \in Nat /\ Supplied(debtShares[t]) \in Nat
  <2>1. ds \in [Users -> Nat] /\ cs \in [Users -> Nat]
    BY <1>2
  <2>2. Supplied(ds) \in Nat /\ Supplied(cs) \in Nat /\ Supplied(debtShares[t]) \in Nat
    BY <1>2, <2>1, SuppliedTyped
  <2>3. own \in Nat /\ collShares[t][u] \in Nat
    BY <1>2
  <2>4. Supplied(ds) = Supplied(debtShares[t]) - own + 0
    BY <1>2, SuppliedWith
  <2>5. Supplied(ds) = Supplied(debtShares[t]) - own
    <3> HIDE DEF ds, own
    <3> QED
      BY <2>2, <2>3, <2>4
  <2> QED
    BY <2>1, <2>2, <2>3, <2>5
<1> HIDE DEF ds, cs
<1>5. /\ DebtOf(t, u) \in Nat /\ TotalDebt(t) \in Nat /\ CollOf(t, u) \in Nat
      /\ Value(Supplied(ds), debtSignal[t]) \in Nat
      /\ Value(Supplied(ds), debtSignal[t]) + DebtOf(t, u) <= TotalDebt(t)
  <2>1. DebtOf(t, u) \in Nat /\ TotalDebt(t) \in Nat /\ CollOf(t, u) \in Nat
        /\ Value(Supplied(ds), debtSignal[t]) \in Nat
    BY <1>2, <1>4, ValueBounds DEF DebtOf, TotalDebt, CollOf
  <2>2. Value(Supplied(ds), debtSignal[t]) + Value(own, debtSignal[t])
          <= Value(Supplied(ds) + own, debtSignal[t])
    BY <1>2, <1>4, ValueOfSum
  <2>3. Supplied(ds) + own = Supplied(debtShares[t])
    BY <1>4
  <2> QED
    BY <2>1, <2>2, <2>3 DEF DebtOf, TotalDebt
<1> HIDE DEF burns, own
<1>6. /\ left \in Nat /\ Value(Supplied(ds), debtSignal[t]) <= left
      /\ mim' = mim - (IF burns THEN DebtOf(t, u) ELSE 0) /\ mim' \in Nat
      /\ backing \in Nat
  <2> HIDE DEF t
  <2>1. CASE burns
    BY <1>2, <1>3, <1>5, <2>1
  <2>2. CASE ~burns
    BY <1>2, <1>3, <1>5, <2>2
  <2> QED
    BY <2>1, <2>2
<1>7. held' = [held EXCEPT ![t] = backing]
  BY <1>1, <1>2, <1>3
<1> HIDE DEF left, backing
<1>8. debtSignal[t] >= ONE => Supplied(ds) <= left
  <2> SUFFICES ASSUME ONE <= debtSignal[t] PROVE Supplied(ds) <= left
    BY <1>2, StableAssumption
  <2>1. Supplied(ds) <= Value(Supplied(ds), debtSignal[t])
    BY <1>2, <1>4, WorthAtPar
  <2> QED
    BY <1>4, <1>5, <1>6, <2>1
<1> QED
  BY <1>1, <1>3, <1>4, <1>5, <1>6, <1>7, <1>8 DEF ds, cs, burns, left, backing

LEMMA LiquidateInv ==
  ASSUME StableInv, NEW u \in Users, Liquidate(u)
  PROVE  StableInv'
<1> DEFINE t == positionCollateral[u]
           burns == Burns(Health(CollOf(t, u), DebtOf(t, u)))
           ds == [debtShares[t] EXCEPT ![u] = 0]
           cs == [collShares[t] EXCEPT ![u] = 0]
           left == TotalDebt(t) - (IF burns THEN DebtOf(t, u) ELSE 0)
           backing == held[t] - CollOf(t, u)
           dsig == NewSignal(left, Supplied(ds))
           csig == NewSignal(backing, Supplied(cs))
<1>1. /\ t \in Collaterals
      /\ debtShares' = [debtShares EXCEPT ![t] = ds]
      /\ collShares' = [collShares EXCEPT ![t] = cs]
      /\ ds \in [Users -> Nat] /\ cs \in [Users -> Nat]
      /\ Supplied(ds) \in Nat /\ Supplied(cs) \in Nat
      /\ left \in Nat /\ backing \in Nat
      /\ MaySignal(left, Supplied(ds)) /\ MaySignal(backing, Supplied(cs))
      /\ debtSignal' = [debtSignal EXCEPT ![t] = dsig]
      /\ collSignal' = [collSignal EXCEPT ![t] = csig]
      /\ mim' \in Nat /\ held' = [held EXCEPT ![t] = backing]
      /\ positionCollateral' = [positionCollateral EXCEPT ![u] = NoCollateral]
      /\ debtSignal[t] >= ONE => Supplied(ds) <= left
  BY LiquidateFacts
<1>2. loosened' = (IF csig < ONE THEN loosened \cup {t} ELSE loosened) /\ added' = added
  BY DEF Liquidate, Backing, CollLeft
<1>3. ds[u] = 0 /\ cs[u] = 0
      /\ (\A x \in Users \ {u} : ds[x] = debtShares[t][x] /\ cs[x] = collShares[t][x])
  BY <1>1 DEF StableInv, StableTypeOK
<1> HIDE DEF ds, cs, left, backing
<1>4. dsig \in Nat /\ csig \in Nat /\ (Supplied(ds) <= left => ONE <= dsig)
  BY <1>1, NewSignalBounds
<1> HIDE DEF dsig, csig
<1>5. StableTypeOK /\ NoCollateral \notin Collaterals /\ ONE \in Nat
  BY StableAssumption DEF StableInv
<1>6. StableTypeOK'
  BY <1>1, <1>2, <1>4, <1>5 DEF StableTypeOK
<1>7. t # NoCollateral /\ positionCollateral'[u] = NoCollateral
      /\ (\A x \in Users \ {u} : positionCollateral'[x] = positionCollateral[x])
  BY <1>1, <1>5 DEF StableTypeOK
<1>8. \A s \in Collaterals, x \in Users :
        /\ x # u \/ s # t => debtShares'[s][x] = debtShares[s][x]
                            /\ collShares'[s][x] = collShares[s][x]
        /\ x = u /\ s = t => debtShares'[s][x] = 0 /\ collShares'[s][x] = 0
  BY <1>1, <1>3, <1>5 DEF StableTypeOK
<1>9. PositionsOwe'
  <2> SUFFICES ASSUME NEW x \in Users, positionCollateral'[x] # NoCollateral
               PROVE  debtShares'[positionCollateral'[x]][x] > 0
    BY DEF PositionsOwe
  <2>1. x # u /\ positionCollateral'[x] = positionCollateral[x]
        /\ positionCollateral[x] \in Collaterals
    BY <1>5, <1>7 DEF StableTypeOK
  <2>2. debtShares[positionCollateral[x]][x] > 0
    BY <2>1 DEF StableInv, PositionsOwe
  <2> QED
    BY <1>8, <2>1, <2>2
<1>10. ClosedIsEmpty'
  <2> SUFFICES ASSUME NEW s \in Collaterals \ loosened', NEW x \in Users,
                      positionCollateral'[x] # s
               PROVE  debtShares'[s][x] = 0 /\ collShares'[s][x] = 0
    BY DEF ClosedIsEmpty
  <2>1. s \notin loosened
    BY <1>2
  <2>2. CASE x = u /\ s = t
    BY <1>8, <2>2
  <2>3. CASE x # u \/ s # t
    <3>1. positionCollateral[x] # s
      BY <1>7, <2>3
    <3> QED
      BY <1>8, <2>1, <2>3, <3>1 DEF StableInv, ClosedIsEmpty
  <2> QED
    BY <2>2, <2>3
<1>11. SignalsAtPar'
  <2> SUFFICES ASSUME NEW s \in Collaterals \ loosened'
               PROVE  debtSignal'[s] >= ONE /\ collSignal'[s] >= ONE
    BY DEF SignalsAtPar
  <2>1. s \notin loosened /\ (s = t => ~(csig < ONE))
    BY <1>2
  <2>2. debtSignal[s] >= ONE /\ collSignal[s] >= ONE
    BY <2>1 DEF StableInv, SignalsAtPar
  <2>3. CASE s = t
    BY <1>1, <1>4, <1>5, <2>1, <2>2, <2>3 DEF StableTypeOK
  <2>4. CASE s # t
    BY <1>1, <1>5, <2>2, <2>4 DEF StableTypeOK
  <2> QED
    BY <2>3, <2>4
<1> QED
  BY <1>6, <1>9, <1>10, <1>11 DEF StableInv

(* The owner's calls, and a payment to the Manager: shares stay, and a     *)
(* signal below ONE loosens its collateral.                                *)
LEMMA OwnerInv ==
  ASSUME StableInv, NEW t \in Collaterals, NEW d \in Nat, NEW c \in Nat,
         UNCHANGED <<positionCollateral, debtShares, collShares, held, mim>>,
         added' \in {added, added \cup {t}},
         debtSignal' \in {debtSignal, [debtSignal EXCEPT ![t] = d]},
         collSignal' \in {collSignal, [collSignal EXCEPT ![t] = c]},
         loosened' \in {loosened, loosened \cup {t}},
         t \notin loosened' => debtSignal'[t] >= ONE /\ collSignal'[t] >= ONE
  PROVE  StableInv'
<1>1. StableTypeOK'
  BY DEF StableInv, StableTypeOK
<1>2. PositionsOwe'
  BY DEF StableInv, PositionsOwe
<1>3. ClosedIsEmpty'
  BY DEF StableInv, ClosedIsEmpty
<1>4. SignalsAtPar'
  <2> SUFFICES ASSUME NEW s \in Collaterals \ loosened'
               PROVE  debtSignal'[s] >= ONE /\ collSignal'[s] >= ONE
    BY DEF SignalsAtPar
  <2>1. CASE s = t
    BY <2>1
  <2>2. CASE s # t
    <3>1. debtSignal'[s] = debtSignal[s] /\ collSignal'[s] = collSignal[s] /\ s \notin loosened
      BY <2>2 DEF StableInv, StableTypeOK
    <3> QED
      BY <3>1 DEF StableInv, SignalsAtPar
  <2> QED
    BY <2>1, <2>2
<1> QED
  BY <1>1, <1>2, <1>3, <1>4 DEF StableInv

LEMMA AddCollateralTokenInv ==
  ASSUME StableInv, NEW t \in Collaterals, NEW ofColl \in Backings, NEW ofDebt \in Backings,
         AddCollateralToken(t, ofColl, ofDebt)
  PROVE  StableInv'
<1>1. /\ ofColl \in Nat /\ ofDebt \in Nat /\ ONE \in Nat
      /\ debtSignal \in [Collaterals -> Nat] /\ collSignal \in [Collaterals -> Nat]
  BY StableAssumption DEF StableInv, StableTypeOK
<1>2. /\ UNCHANGED <<positionCollateral, debtShares, collShares, held, mim>>
      /\ added' = added \cup {t}
      /\ debtSignal' = [debtSignal EXCEPT ![t] = ofDebt]
      /\ collSignal' = [collSignal EXCEPT ![t] = ofColl]
      /\ loosened' = IF ofColl < ONE \/ ofDebt < ONE THEN loosened \cup {t} ELSE loosened
  BY DEF AddCollateralToken
<1>3. t \notin loosened' => debtSignal'[t] >= ONE /\ collSignal'[t] >= ONE
  BY <1>1, <1>2
<1> QED
  BY <1>1, <1>2, <1>3, OwnerInv

LEMMA UpdateSignalInv ==
  ASSUME StableInv, NEW t \in Collaterals, NEW backing \in Backings,
         UpdateDebtSignal(t, backing) \/ UpdateCollSignal(t, backing)
  PROVE  StableInv'
<1>1. /\ backing \in Nat /\ ONE \in Nat
      /\ debtSignal \in [Collaterals -> Nat] /\ collSignal \in [Collaterals -> Nat]
      /\ debtShares[t] \in [Users -> Nat] /\ collShares[t] \in [Users -> Nat]
  BY StableAssumption DEF StableInv, StableTypeOK
<1>2. Supplied(debtShares[t]) \in Nat /\ Supplied(collShares[t]) \in Nat
  BY <1>1, SumType, StableAssumption DEF Supplied
<1>3. t \notin loosened => debtSignal[t] >= ONE /\ collSignal[t] >= ONE
  BY DEF StableInv, SignalsAtPar
<1>4. CASE UpdateDebtSignal(t, backing)
  <2> DEFINE signal == NewSignal(backing, Supplied(debtShares[t]))
  <2>1. /\ UNCHANGED <<added, positionCollateral, debtShares, collShares, collSignal, held, mim>>
        /\ debtSignal' = [debtSignal EXCEPT ![t] = signal]
        /\ loosened' = IF signal < ONE THEN loosened \cup {t} ELSE loosened
        /\ MaySignal(backing, Supplied(debtShares[t]))
    BY <1>4 DEF UpdateDebtSignal, colls
  <2>2. signal \in Nat
    BY <1>1, <1>2, <2>1, NewSignalBounds
  <2> HIDE DEF signal
  <2>3. t \notin loosened' => debtSignal'[t] >= ONE /\ collSignal'[t] >= ONE
    BY <1>1, <1>3, <2>1, <2>2
  <2> QED
    BY <1>1, <2>1, <2>2, <2>3, OwnerInv
<1>5. CASE UpdateCollSignal(t, backing)
  <2> DEFINE signal == NewSignal(backing, Supplied(collShares[t]))
  <2>1. /\ UNCHANGED <<added, positionCollateral, debtShares, collShares, debtSignal, held, mim>>
        /\ collSignal' = [collSignal EXCEPT ![t] = signal]
        /\ loosened' = IF signal < ONE THEN loosened \cup {t} ELSE loosened
        /\ MaySignal(backing, Supplied(collShares[t]))
    BY <1>5 DEF UpdateCollSignal, debts
  <2>2. signal \in Nat
    BY <1>1, <1>2, <2>1, NewSignalBounds
  <2> HIDE DEF signal
  <2>3. t \notin loosened' => debtSignal'[t] >= ONE /\ collSignal'[t] >= ONE
    BY <1>1, <1>3, <2>1, <2>2
  <2> QED
    BY <1>1, <2>1, <2>2, <2>3, OwnerInv
<1> QED
  BY <1>4, <1>5

LEMMA DonateInv ==
  ASSUME StableInv, NEW t \in Collaterals, Donate(t)
  PROVE  StableInv'
<1>1. held' \in [Collaterals -> Nat]
  BY DEF Donate, StableInv, StableTypeOK
<1>2. UNCHANGED <<added, positionCollateral, debtShares, debtSignal, collShares, collSignal,
                  mim, loosened>>
  BY DEF Donate, debts, colls
<1> QED
  BY <1>1, <1>2 DEF StableInv, StableTypeOK, PositionsOwe, ClosedIsEmpty, SignalsAtPar

(* Every call of manage is a settlement of whole numbers.                  *)
LEMMA ManageSettles ==
  ASSUME StableInv, NEW u \in Users, NEW t \in Collaterals,
         RepayAll(u, t) \/ \E c, d \in Deltas : Manage(u, t, c, d)
  PROVE  \E c, d \in Int : Settle(u, t, c, d)
<1>1. CASE RepayAll(u, t)
  <2>1. DebtOf(t, u) \in Nat /\ CollOf(t, u) \in Nat
    BY ValueBounds DEF DebtOf, CollOf, StableInv, StableTypeOK
  <2>2. -CollOf(t, u) \in Int /\ -DebtOf(t, u) \in Int
    BY <2>1
  <2> QED
    BY <1>1, <2>2, Zenon DEF RepayAll
<1>2. ASSUME NEW c \in Deltas, NEW d \in Deltas, Manage(u, t, c, d)
      PROVE  \E x, y \in Int : Settle(u, t, x, y)
  <2>1. c \in Int /\ d \in Int
    BY StableAssumption DEF Deltas
  <2> QED
    BY <1>2, <2>1, Zenon DEF Manage
<1> QED
  BY <1>1, <1>2

LEMMA StableNextInv == StableInv /\ [Next]_stableVars => StableInv'
<1> SUFFICES ASSUME StableInv, [Next]_stableVars PROVE StableInv'
  OBVIOUS
<1>1. ASSUME NEW u \in Users, Liquidate(u) PROVE StableInv'
  BY <1>1, LiquidateInv
<1>2. ASSUME NEW u \in Users, NEW t \in Collaterals,
             RepayAll(u, t) \/ \E c, d \in Deltas : Manage(u, t, c, d)
      PROVE  StableInv'
  BY <1>2, ManageSettles, SettleInv
<1>3. ASSUME NEW t \in Collaterals, Donate(t) PROVE StableInv'
  BY <1>3, DonateInv
<1>4. ASSUME NEW t \in Collaterals, NEW backing \in Backings,
             UpdateDebtSignal(t, backing) \/ UpdateCollSignal(t, backing)
      PROVE  StableInv'
  BY <1>4, UpdateSignalInv
<1>5. ASSUME NEW t \in Collaterals, NEW ofColl \in Backings, NEW ofDebt \in Backings,
             AddCollateralToken(t, ofColl, ofDebt)
      PROVE  StableInv'
  BY <1>5, AddCollateralTokenInv
<1>6. CASE UNCHANGED stableVars
  BY <1>6 DEF stableVars, debts, colls, StableInv, StableTypeOK, PositionsOwe, ClosedIsEmpty,
              SignalsAtPar
<1> QED
  BY <1>1, <1>2, <1>3, <1>4, <1>5, <1>6 DEF Next

LEMMA StableInvariant == Spec => []StableInv
<1> QED
  BY StableInitInv, StableNextInv, PTL DEF Spec

(* No share, signal or balance goes below zero, and no signal is divided   *)
(* by a supply that is not there (src/src/StableCoin.sol:74-131).          *)
THEOREM StableTyped == Spec => []StableTypeOK
<1>1. StableInv => StableTypeOK
  BY DEF StableInv
<1> QED
  BY <1>1, StableInvariant, PTL

(* Whoever has a position owes shares of debt, and whoever has closed one  *)
(* has not a share of debt or collateral left, unless the owner or a       *)
(* liquidation has set a signal below ONE (lines 208-242 and 361-375).     *)
THEOREM PositionsAndDebtsMatch == Spec => []PositionsMatchDebts
<1>1. StableInv => PositionsMatchDebts
  BY DEF StableInv, PositionsMatchDebts, SignalsAtPar, DebtSignalAtPar
<1> QED
  BY <1>1, StableInvariant, PTL
-----------------------------------------------------------------------------
(* What all debts come to changes by what the debts in one collateral do.  *)
LEMMA TotalDebtTyped ==
  ASSUME StableTypeOK, NEW t \in Collaterals
  PROVE  TotalDebt(t) \in Nat /\ Supplied(debtShares[t]) \in Nat
<1>1. debtShares[t] \in [Users -> Nat] /\ debtSignal[t] \in Nat
  BY DEF StableTypeOK
<1>2. Supplied(debtShares[t]) \in Nat
  BY <1>1, SumType, StableAssumption DEF Supplied
<1> QED
  BY <1>1, <1>2, ValueBounds DEF TotalDebt

LEMMA OwedChanges ==
  ASSUME StableTypeOK, StableTypeOK', NEW t \in Collaterals,
         \A s \in Collaterals \ {t} : /\ debtShares'[s] = debtShares[s]
                                     /\ debtSignal'[s] = debtSignal[s]
  PROVE  /\ OwedBeyondMim \in Int /\ OwedBeyondMim' \in Int
         /\ OwedBeyondMim' - OwedBeyondMim = (TotalDebt(t)' - TotalDebt(t)) - (mim' - mim)
<1> DEFINE f == [s \in Collaterals |-> TotalDebt(s)]
           g == [s \in Collaterals |-> TotalDebt(s)']
<1>1. (\A s \in Collaterals : TotalDebt(s) \in Nat)
      /\ (\A s \in Collaterals : TotalDebt(s)' \in Nat)
  <2>1. \A s \in Collaterals : TotalDebt(s) \in Nat
    BY TotalDebtTyped
  <2>2. \A s \in Collaterals : TotalDebt(s)' \in Nat
    <3>1. ASSUME NEW s \in Collaterals PROVE TotalDebt(s)' \in Nat
      <4>1. debtShares'[s] \in [Users -> Nat] /\ debtSignal'[s] \in Nat
        BY DEF StableTypeOK
      <4>2. Supplied(debtShares'[s]) \in Nat
        BY <4>1, SumType, StableAssumption DEF Supplied
      <4>3. Value(Supplied(debtShares'[s]), debtSignal'[s]) \in Nat
        BY <4>1, <4>2, ValueBounds
      <4> QED
        BY <4>3 DEF TotalDebt
    <3> QED
      BY <3>1
  <2> QED
    BY <2>1, <2>2
<1>2. \A s \in Collaterals \ {t} : TotalDebt(s)' = TotalDebt(s)
  BY DEF TotalDebt
<1>3. f \in [Collaterals -> Int] /\ g \in [Collaterals -> Int]
      /\ f \in [Collaterals -> Nat] /\ g \in [Collaterals -> Nat]
      /\ f[t] = TotalDebt(t) /\ g[t] = TotalDebt(t)'
      /\ (\A s \in Collaterals \ {t} : g[s] = f[s])
  BY <1>1, <1>2
<1>4. OwedBeyondMim = SumOver(f, Collaterals) - mim
      /\ OwedBeyondMim' = SumOver(g, Collaterals) - mim'
  BY DEF OwedBeyondMim
<1> HIDE DEF f, g
<1>5. SumOver(g, Collaterals) = SumOver(f, Collaterals) - f[t] + g[t]
  BY <1>3, SumUpdate, StableAssumption
<1>6. SumOver(f, Collaterals) \in Int /\ SumOver(g, Collaterals) \in Int
  BY <1>3, SumType, StableAssumption
<1>7. mim \in Int /\ mim' \in Int /\ TotalDebt(t) \in Int /\ TotalDebt(t)' \in Int
  BY <1>1 DEF StableTypeOK
<1> QED
  BY <1>3, <1>4, <1>5, <1>6, <1>7

DebtMove(t) ==
  /\ OwedBeyondMim' >= OwedBeyondMim - RoundedUp(debtSignal[t], ONE)
  /\ OwedBeyondMim' <=
       OwedBeyondMim + RoundedUp(Larger(debtSignal[t], Supplied(debtShares'[t])), ONE)

LEMMA RoundedUpOrder ==
  ASSUME NEW a \in Nat, NEW b \in Nat, a <= b
  PROVE  RoundedUp(a, ONE) \in Nat /\ RoundedUp(b, ONE) \in Nat
         /\ RoundedUp(a, ONE) <= RoundedUp(b, ONE)
<1> DEFINE p == RoundedUp(a, ONE)
           q == RoundedUp(b, ONE)
<1>1. ONE \in Nat \ {0} /\ ONE \in Nat
  BY StableAssumption
<1>2. p \in Nat /\ p * ONE < a + ONE /\ q \in Nat /\ b <= q * ONE
  BY <1>1, Up
<1> HIDE DEF p, q
<1>3. (q + 1) * ONE = q * ONE + ONE /\ p * ONE \in Int /\ q * ONE \in Int
  BY <1>1, <1>2
<1>4. p * ONE < (q + 1) * ONE
  BY <1>1, <1>2, <1>3
<1>5. p < q + 1
  BY <1>1, <1>2, <1>4, ProductCancel
<1> QED
  BY <1>2, <1>5 DEF p, q

LEMMA LargerBounds ==
  ASSUME NEW a \in Nat, NEW b \in Nat
  PROVE  Larger(a, b) \in Nat /\ a <= Larger(a, b) /\ b <= Larger(a, b)
BY DEF Larger

(* A settlement writes the shares of u only.                               *)
Written(old, new, t, u) ==
  /\ new[t] \in [Users -> Nat] /\ SameBut(old[t], new[t], u, Users)
  /\ (\A s \in Collaterals \ {t} : new[s] = old[s])

LEMMA WrittenBy ==
  ASSUME NEW old \in [Collaterals -> [Users -> Nat]], NEW new, NEW t \in Collaterals,
         NEW u \in Users, NEW n \in Nat,
         new = [old EXCEPT ![t] = [old[t] EXCEPT ![u] = n]]
  PROVE  Written(old, new, t, u) /\ new[t][u] = n
<1>1. old[t] \in [Users -> Nat] /\ new[t] = [old[t] EXCEPT ![u] = n]
      /\ (\A s \in Collaterals \ {t} : new[s] = old[s])
  OBVIOUS
<1> QED
  BY <1>1 DEF Written, SameBut

LEMMA WrittenSupplied ==
  ASSUME NEW old \in [Collaterals -> [Users -> Nat]], NEW new, NEW t \in Collaterals,
         NEW u \in Users, Written(old, new, t, u)
  PROVE  /\ Supplied(old[t]) \in Nat /\ old[t][u] \in 0..Supplied(old[t])
         /\ Supplied(new[t]) = Supplied(old[t]) - old[t][u] + new[t][u]
         /\ Supplied(new[t]) \in Nat
<1> DEFINE a == old[t]
           b == new[t]
<1>1. a \in [Users -> Nat] /\ b \in [Users -> Nat] /\ SameBut(a, b, u, Users)
  BY DEF Written
<1> HIDE DEF a, b
<1>2. IsFiniteSet(Users)
  BY StableAssumption
<1>3. Supplied(b) = Supplied(a) - a[u] + b[u]
  BY <1>1, <1>2, PointWrite DEF Supplied
<1>4. Supplied(a) \in Nat /\ a[u] \in 0..Supplied(a) /\ Supplied(b) \in Nat
  BY <1>1, SuppliedTyped
<1> QED
  BY <1>3, <1>4 DEF a, b

(* What follows from the change of what is owed.                           *)
LEMMA MoveBounds ==
  ASSUME NEW o \in Int, NEW o1 \in Int, NEW x \in Int,
         NEW low \in Nat, NEW high \in Nat,
         o1 - o = x, -low <= x, x <= high
  PROVE  o1 >= o - low /\ o1 <= o + high
OBVIOUS

LEMMA SettleMovesDebt ==
  ASSUME StableInv, NEW u \in Users, NEW t \in Collaterals, NEW c \in Int, NEW d \in Int,
         Settle(u, t, c, d)
  PROVE  DebtMove(t)
<1> DEFINE own == debtShares[t][u]
           total == Supplied(debtShares[t])
           new == Supplied(debtShares'[t])
           ds == Changed(own, d, debtSignal[t])
           v == Value(total, debtSignal[t])
           w == Value(total - own + ds, debtSignal[t])
           r == RoundedUp(debtSignal[t], ONE)
           r1 == RoundedUp(Larger(debtSignal[t], new), ONE)
<1>1. StableTypeOK /\ StableTypeOK'
  BY SettleInv DEF StableInv
<1>2. /\ ds \in Nat /\ mim' = mim + d
      /\ debtShares' = [debtShares EXCEPT ![t] = [debtShares[t] EXCEPT ![u] = ds]]
  BY SettleFacts
<1>3. debtSignal' = debtSignal
  BY DEF Settle
<1>4. debtSignal[t] \in Nat /\ mim \in Nat
      /\ debtShares \in [Collaterals -> [Users -> Nat]]
  BY <1>1 DEF StableTypeOK
<1> HIDE DEF ds
<1>5. /\ total \in Nat /\ own \in 0..total
      /\ new = total - own + ds /\ new \in Nat
      /\ (\A s \in Collaterals \ {t} : debtShares'[s] = debtShares[s])
  <2>1. Written(debtShares, debtShares', t, u) /\ debtShares'[t][u] = ds
    BY <1>2, <1>4, WrittenBy
  <2>2. /\ total \in Nat /\ own \in 0..total
        /\ new = total - own + debtShares'[t][u] /\ new \in Nat
    BY <1>4, <2>1, WrittenSupplied
  <2> QED
    BY <2>1, <2>2 DEF Written
<1>6. /\ v \in Nat /\ w \in Nat /\ r \in Nat
      /\ w >= v + d - r /\ w <= v + d + r
  <2>1. d # 0 => debtSignal[t] > 0
    BY DEF Settle
  <2>2. Changed(own, d, debtSignal[t]) >= 0
    BY <1>2 DEF ds
  <2> QED
    BY <1>4, <1>5, <2>1, <2>2, ChangedValue DEF ds
<1>7. TotalDebt(t)' = w /\ TotalDebt(t) = v
  BY <1>3, <1>5 DEF TotalDebt, Supplied
<1>8. OwedBeyondMim \in Int /\ OwedBeyondMim' \in Int
      /\ OwedBeyondMim' - OwedBeyondMim = (TotalDebt(t)' - TotalDebt(t)) - (mim' - mim)
  <2>1. \A s \in Collaterals \ {t} : debtShares'[s] = debtShares[s]
                                    /\ debtSignal'[s] = debtSignal[s]
    BY <1>3, <1>5
  <2> QED
    BY <1>1, <2>1, OwedChanges
<1>9. r1 \in Nat /\ r <= r1
  <2>1. Larger(debtSignal[t], new) \in Nat /\ debtSignal[t] <= Larger(debtSignal[t], new)
    BY <1>4, <1>5, LargerBounds
  <2> QED
    BY <1>4, <2>1, RoundedUpOrder
<1>10. OwedBeyondMim' - OwedBeyondMim = (w - v) - d
  <2> HIDE DEF v, w
  <2> QED
    BY <1>2, <1>4, <1>7, <1>8
<1>11. OwedBeyondMim' >= OwedBeyondMim - r /\ OwedBeyondMim' <= OwedBeyondMim + r1
  <2> HIDE DEF v, w, r, r1
  <2>1. (w - v) - d \in Int /\ -r <= (w - v) - d /\ (w - v) - d <= r1
    BY <1>6, <1>9
  <2> QED
    BY <1>6, <1>8, <1>9, <1>10, <2>1, MoveBounds
<1> QED
  BY <1>11 DEF DebtMove

LEMMA LiquidateMovesDebt ==
  ASSUME StableInv, NEW u \in Users, NEW t, t = positionCollateral[u], Liquidate(u)
  PROVE  t \in Collaterals /\ DebtMove(t)
<1> DEFINE burnt == IF Burns(Health(CollOf(t, u), DebtOf(t, u))) THEN DebtOf(t, u) ELSE 0
           ds == [debtShares[t] EXCEPT ![u] = 0]
           left == TotalDebt(t) - burnt
           w == Value(Supplied(ds), NewSignal(left, Supplied(ds)))
           new == Supplied(debtShares'[t])
           r == RoundedUp(new, ONE)
           r0 == RoundedUp(debtSignal[t], ONE)
           r1 == RoundedUp(Larger(debtSignal[t], new), ONE)
<1>1. StableTypeOK /\ StableTypeOK'
  BY LiquidateInv DEF StableInv
<1>2. /\ t \in Collaterals
      /\ debtShares' = [debtShares EXCEPT ![t] = ds]
      /\ ds \in [Users -> Nat] /\ Supplied(ds) \in Nat
      /\ DebtOf(t, u) \in Nat /\ TotalDebt(t) \in Nat /\ left \in Nat
      /\ MaySignal(left, Supplied(ds))
      /\ debtSignal' = [debtSignal EXCEPT ![t] = NewSignal(left, Supplied(ds))]
      /\ mim' = mim - burnt
  BY LiquidateFacts
<1> HIDE DEF ds
<1>3. /\ debtShares \in [Collaterals -> [Users -> Nat]]
      /\ debtSignal \in [Collaterals -> Nat] /\ mim \in Nat
  BY <1>1 DEF StableTypeOK
<1>4. /\ debtShares'[t] = ds /\ debtSignal'[t] = NewSignal(left, Supplied(ds))
      /\ (\A s \in Collaterals \ {t} : debtShares'[s] = debtShares[s]
                                      /\ debtSignal'[s] = debtSignal[s])
  <2> HIDE DEF left
  <2> QED
    BY <1>2, <1>3
<1>5. new = Supplied(ds) /\ TotalDebt(t)' = w
  BY <1>4 DEF TotalDebt, Supplied
<1>6. left <= w /\ w <= left + r /\ w \in Nat
  <2> HIDE DEF left
  <2>1. NewSignal(left, Supplied(ds)) \in Nat /\ left <= w
        /\ w <= left + RoundedUp(Supplied(ds), ONE)
    BY <1>2, NewSignalBounds
  <2>2. w \in Nat
    BY <1>2, <2>1, ValueBounds
  <2> QED
    BY <1>5, <2>1, <2>2
<1>7. r0 \in Nat /\ r \in Nat /\ r1 \in Nat /\ r <= r1
  <2>1. new \in Nat /\ debtSignal[t] \in Nat
    BY <1>2, <1>3, <1>5
  <2>2. Larger(debtSignal[t], new) \in Nat /\ new <= Larger(debtSignal[t], new)
    BY <2>1, LargerBounds
  <2>3. r \in Nat /\ r1 \in Nat /\ r <= r1
    BY <2>1, <2>2, RoundedUpOrder
  <2>4. r0 \in Nat
    BY <2>1, RoundedUpOrder
  <2> QED
    BY <2>3, <2>4
<1>8. OwedBeyondMim \in Int /\ OwedBeyondMim' \in Int
      /\ OwedBeyondMim' - OwedBeyondMim = (TotalDebt(t)' - TotalDebt(t)) - (mim' - mim)
  BY <1>1, <1>2, <1>4, OwedChanges
<1>9. OwedBeyondMim' - OwedBeyondMim = w - left
  <2>1. burnt \in Nat
    BY <1>2
  <2> HIDE DEF w, burnt
  <2> QED
    BY <1>2, <1>3, <1>5, <1>6, <1>8, <2>1
<1>10. OwedBeyondMim' >= OwedBeyondMim - r0 /\ OwedBeyondMim' <= OwedBeyondMim + r1
  <2> HIDE DEF w, r, r0, r1, left
  <2>1. w - left \in Int /\ -r0 <= w - left /\ w - left <= r1
    BY <1>2, <1>6, <1>7
  <2> QED
    BY <1>7, <1>8, <1>9, <2>1, MoveBounds
<1> QED
  BY <1>2, <1>10 DEF DebtMove

(* What is promised of a collateral follows what is held of it.            *)
PromiseMove(t) ==
  PromisedBeyondHeld(t)' <= Larger(PromisedBeyondHeld(t) + RoundedUp(collSignal[t], ONE),
                                   RoundedUp(Supplied(collShares'[t]), ONE))

LEMMA LargerOfInts ==
  ASSUME NEW a \in Int, NEW b \in Int
  PROVE  a <= Larger(a, b) /\ b <= Larger(a, b) /\ Larger(a, b) \in Int
BY DEF Larger

LEMMA SettleMovesPromise ==
  ASSUME StableInv, NEW u \in Users, NEW t \in Collaterals, NEW c \in Int, NEW d \in Int,
         Settle(u, t, c, d)
  PROVE  PromiseMove(t)
<1> DEFINE own == collShares[t][u]
           total == Supplied(collShares[t])
           new == Supplied(collShares'[t])
           cs == Changed(own, c, collSignal[t])
           v == Value(total, collSignal[t])
           w == Value(total - own + cs, collSignal[t])
           r == RoundedUp(collSignal[t], ONE)
           r1 == RoundedUp(new, ONE)
<1>1. /\ cs \in Nat /\ held' = [held EXCEPT ![t] = held[t] + c]
      /\ collShares' = [collShares EXCEPT ![t] = [collShares[t] EXCEPT ![u] = cs]]
  BY SettleFacts
<1>2. collSignal' = collSignal
  BY DEF Settle
<1>3. /\ collSignal[t] \in Nat /\ held \in [Collaterals -> Nat] /\ held[t] \in Nat
      /\ collShares \in [Collaterals -> [Users -> Nat]]
  BY DEF StableInv, StableTypeOK
<1> HIDE DEF cs
<1>4. /\ total \in Nat /\ own \in 0..total
      /\ new = total - own + cs /\ new \in Nat
  <2>1. Written(collShares, collShares', t, u) /\ collShares'[t][u] = cs
    BY <1>1, <1>3, WrittenBy
  <2>2. /\ total \in Nat /\ own \in 0..total
        /\ new = total - own + collShares'[t][u] /\ new \in Nat
    BY <1>3, <2>1, WrittenSupplied
  <2> QED
    BY <2>1, <2>2
<1>5. /\ v \in Nat /\ w \in Nat /\ r \in Nat
      /\ w <= v + c + r
  <2>1. c # 0 => collSignal[t] > 0
    BY DEF Settle
  <2>2. Changed(own, c, collSignal[t]) >= 0
    BY <1>1 DEF cs
  <2> QED
    BY <1>3, <1>4, <2>1, <2>2, ChangedValue DEF cs
<1>6. PromisedBeyondHeld(t) = v - held[t]
  BY DEF PromisedBeyondHeld
<1>7. PromisedBeyondHeld(t)' = w - (held[t] + c)
  BY <1>1, <1>2, <1>3, <1>4 DEF PromisedBeyondHeld, Supplied
<1>8. r1 \in Nat
  BY <1>4, RoundedUpOrder
<1>9. PromisedBeyondHeld(t)' <= PromisedBeyondHeld(t) + r
      /\ PromisedBeyondHeld(t)' \in Int /\ PromisedBeyondHeld(t) + r \in Int
  <2> HIDE DEF v, w, r
  <2> QED
    BY <1>3, <1>5, <1>6, <1>7
<1>10. PromisedBeyondHeld(t) + r <= Larger(PromisedBeyondHeld(t) + r, r1)
       /\ Larger(PromisedBeyondHeld(t) + r, r1) \in Int
  <2> DEFINE p == PromisedBeyondHeld(t) + r
  <2>1. p \in Int /\ r1 \in Int
    BY <1>8, <1>9
  <2> HIDE DEF p, r1
  <2>2. p <= Larger(p, r1) /\ Larger(p, r1) \in Int
    BY <2>1, LargerOfInts
  <2> QED
    BY <2>2 DEF p
<1>11. PromisedBeyondHeld(t)' <= Larger(PromisedBeyondHeld(t) + r, r1)
  <2> HIDE DEF r, r1
  <2> QED
    BY <1>9, <1>10
<1> QED
  BY <1>11 DEF PromiseMove

LEMMA LiquidateMovesPromise ==
  ASSUME StableInv, NEW u \in Users, NEW t, t = positionCollateral[u], Liquidate(u)
  PROVE  t \in Collaterals /\ PromiseMove(t)
<1> DEFINE cs == [collShares[t] EXCEPT ![u] = 0]
           backing == held[t] - CollOf(t, u)
           signal == NewSignal(backing, Supplied(cs))
           w == Value(Supplied(cs), signal)
           new == Supplied(collShares'[t])
           r == RoundedUp(collSignal[t], ONE)
           r1 == RoundedUp(new, ONE)
<1>1. /\ t \in Collaterals
      /\ collShares' = [collShares EXCEPT ![t] = cs]
      /\ Supplied(cs) \in Nat /\ backing \in Nat
      /\ MaySignal(backing, Supplied(cs))
      /\ collSignal' = [collSignal EXCEPT ![t] = signal]
      /\ held' = [held EXCEPT ![t] = backing]
  BY LiquidateFacts
<1>2. /\ collShares \in [Collaterals -> [Users -> Nat]]
      /\ collSignal \in [Collaterals -> Nat] /\ held \in [Collaterals -> Nat]
  BY DEF StableInv, StableTypeOK
<1> HIDE DEF cs, backing
<1>3. collShares'[t] = cs /\ collSignal'[t] = signal /\ held'[t] = backing
  <2> HIDE DEF signal
  <2> QED
    BY <1>1, <1>2
<1>4. new = Supplied(cs) /\ new \in Nat
  BY <1>1, <1>3
<1>5. w <= backing + r1 /\ w \in Nat /\ r1 \in Nat
  <2>1. signal \in Nat /\ w <= backing + RoundedUp(Supplied(cs), ONE)
    BY <1>1, NewSignalBounds
  <2>2. w \in Nat
    BY <1>1, <2>1, ValueBounds
  <2>3. r1 \in Nat
    BY <1>4, RoundedUpOrder
  <2> QED
    BY <1>4, <2>1, <2>2, <2>3
<1>6. PromisedBeyondHeld(t)' = w - backing
  BY <1>3 DEF PromisedBeyondHeld, Supplied
<1>7. PromisedBeyondHeld(t) + r \in Int
  <2>1. Supplied(collShares[t]) \in Nat /\ collSignal[t] \in Nat /\ held[t] \in Nat
    <3>1. collShares[t] \in [Users -> Nat] /\ collSignal[t] \in Nat /\ held[t] \in Nat
      BY <1>1, <1>2
    <3> QED
      BY <3>1, SuppliedTyped
  <2>2. Value(Supplied(collShares[t]), collSignal[t]) \in Nat
    BY <2>1, ValueBounds
  <2>3. r \in Nat
    BY <2>1, RoundedUpOrder
  <2> HIDE DEF r
  <2> QED
    BY <2>1, <2>2, <2>3 DEF PromisedBeyondHeld
<1>8. r1 <= Larger(PromisedBeyondHeld(t) + r, r1)
      /\ Larger(PromisedBeyondHeld(t) + r, r1) \in Int
  <2> HIDE DEF r, r1
  <2> QED
    BY <1>5, <1>7, LargerOfInts
<1>9. PromisedBeyondHeld(t)' <= Larger(PromisedBeyondHeld(t) + r, r1)
  <2> HIDE DEF r, r1, w
  <2> QED
    BY <1>1, <1>5, <1>6, <1>8
<1> QED
  BY <1>1, <1>9 DEF PromiseMove

(* Shares change in a settlement or a liquidation of their collateral only. *)
LEMMA SharesMove ==
  ASSUME StableInv, Next, NEW t \in Collaterals
  PROVE  /\ (debtShares'[t] # debtShares[t] => DebtMove(t))
         /\ (collShares'[t] # collShares[t] => PromiseMove(t))
<1> DEFINE Goal == /\ (debtShares'[t] # debtShares[t] => DebtMove(t))
                   /\ (collShares'[t] # collShares[t] => PromiseMove(t))
<1>0. debtShares \in [Collaterals -> [Users -> Nat]]
      /\ collShares \in [Collaterals -> [Users -> Nat]]
  BY DEF StableInv, StableTypeOK
<1>1. ASSUME NEW u \in Users, NEW s \in Collaterals, NEW c \in Int, NEW d \in Int,
             Settle(u, s, c, d)
      PROVE  Goal
  <2>1. CASE s = t
    BY <1>1, <2>1, SettleMovesDebt, SettleMovesPromise
  <2>2. CASE s # t
    BY <1>0, <1>1, <2>2 DEF Settle
  <2> QED
    BY <2>1, <2>2
<1>2. ASSUME NEW u \in Users, Liquidate(u)
      PROVE  Goal
  <2>1. CASE positionCollateral[u] = t
    <3>1. DebtMove(t)
      BY <1>2, <2>1, LiquidateMovesDebt
    <3>2. PromiseMove(t)
      BY <1>2, <2>1, LiquidateMovesPromise
    <3> QED
      BY <3>1, <3>2
  <2>2. CASE positionCollateral[u] # t
    BY <1>0, <1>2, <2>2 DEF Liquidate
  <2> QED
    BY <2>1, <2>2
<1> HIDE DEF Goal
<1>3. ASSUME UNCHANGED <<debtShares, collShares>>
      PROVE  Goal
  BY <1>3 DEF Goal
<1>4. ASSUME NEW u \in Users, NEW s \in Collaterals,
             RepayAll(u, s) \/ \E c, d \in Deltas : Manage(u, s, c, d)
      PROVE  Goal
  BY <1>1, <1>4, ManageSettles
<1>5. ASSUME NEW s \in Collaterals, Donate(s)
      PROVE  Goal
  BY <1>3, <1>5 DEF Donate, debts, colls
<1>6. ASSUME NEW s \in Collaterals, NEW backing \in Backings,
             UpdateDebtSignal(s, backing) \/ UpdateCollSignal(s, backing)
      PROVE  Goal
  BY <1>3, <1>6 DEF UpdateDebtSignal, UpdateCollSignal, debts, colls
<1>7. ASSUME NEW s \in Collaterals, NEW ofColl \in Backings, NEW ofDebt \in Backings,
             AddCollateralToken(s, ofColl, ofDebt)
      PROVE  Goal
  BY <1>3, <1>7 DEF AddCollateralToken
<1>8. Goal
  BY <1>2, <1>4, <1>5, <1>6, <1>7 DEF Next
<1> QED
  BY <1>8 DEF Goal

(* What is owed and the MIM there is stay together: a loan, a repayment or *)
(* a liquidation moves the one away from the other by no more than the     *)
(* rounding of a share, or of a new signal.                                *)
THEOREM DebtFollows == Spec => DebtFollowsMim
<1> DEFINE A == \A t \in Collaterals : debtShares[t]' # debtShares[t] =>
                  /\ OwedBeyondMim' >= OwedBeyondMim - RoundedUp(debtSignal[t], ONE)
                  /\ OwedBeyondMim' <=
                       OwedBeyondMim
                         + RoundedUp(Larger(debtSignal[t], Supplied(debtShares[t])'), ONE)
<1>1. StableInv /\ Next => A
  <2> SUFFICES ASSUME StableInv, Next, NEW t \in Collaterals, debtShares'[t] # debtShares[t]
               PROVE  DebtMove(t)
    BY DEF DebtMove, Supplied
  <2> QED
    BY SharesMove
<1>2. StableInv /\ [Next]_stableVars => [A]_stableVars
  <2> HIDE DEF A
  <2> QED
    BY <1>1
<1> QED
  BY StableInvariant, <1>2, PTL DEF Spec, DebtFollowsMim

(* No call promises more of a collateral than was promised before by more  *)
(* than the rounding of a share; after a liquidation, the promise exceeds  *)
(* what is held by no more than the rounding of the new signal.            *)
THEOREM PromisesStayBounded == Spec => PromisesBounded
<1> DEFINE A == \A t \in Collaterals : collShares[t]' # collShares[t] =>
                  PromisedBeyondHeld(t)' <=
                    Larger(PromisedBeyondHeld(t) + RoundedUp(collSignal[t], ONE),
                           RoundedUp(Supplied(collShares[t])', ONE))
<1>1. StableInv /\ Next => A
  <2> SUFFICES ASSUME StableInv, Next, NEW t \in Collaterals, collShares'[t] # collShares[t]
               PROVE  PromiseMove(t)
    BY DEF PromiseMove, Supplied
  <2> QED
    BY SharesMove
<1>2. StableInv /\ [Next]_stableVars => [A]_stableVars
  <2> HIDE DEF A
  <2> QED
    BY <1>1
<1> QED
  BY StableInvariant, <1>2, PTL DEF Spec, PromisesBounded

\* Positions are in collaterals that were added, and the Manager holds no more
\* of a token than there is.
PositionsListed == \A u \in Users : positionCollateral[u] \in added \cup {NoCollateral}
HeldInSupply == \A t \in Collaterals : held[t] <= Supply
ListedInv == PositionsListed /\ HeldInSupply

LEMMA ListedNextInv ==
  ASSUME StableInv, ListedInv, [Next]_stableVars
  PROVE  ListedInv'
<1>1. /\ positionCollateral \in [Users -> Collaterals \cup {NoCollateral}]
      /\ held \in [Collaterals -> Nat] /\ Supply \in Nat
  BY StableAssumption DEF StableInv, StableTypeOK
<1>2. ASSUME added \subseteq added', positionCollateral' = positionCollateral, held' = held
      PROVE  ListedInv'
  BY <1>2 DEF ListedInv, PositionsListed, HeldInSupply
<1>3. ASSUME NEW u \in Users, Liquidate(u) PROVE ListedInv'
  <2> DEFINE t == positionCollateral[u]
             paid == CollOf(t, u)
  <2>1. /\ t # NoCollateral /\ held[t] >= paid /\ added' = added
        /\ positionCollateral' = [positionCollateral EXCEPT ![u] = NoCollateral]
        /\ held' = [held EXCEPT ![t] = @ - paid]
    BY <1>3 DEF Liquidate, MayPayOut
  <2>2. t \in Collaterals /\ paid \in Nat
    <3>1. t \in Collaterals
      BY <1>1, <2>1
    <3> QED
      BY <3>1, ValueBounds DEF CollOf, StableInv, StableTypeOK
  <2> HIDE DEF paid
  <2>3. PositionsListed'
    BY <1>1, <2>1 DEF ListedInv, PositionsListed
  <2>4. HeldInSupply'
    <3> HIDE DEF t
    <3> QED
      BY <1>1, <2>1, <2>2 DEF ListedInv, HeldInSupply
  <2> QED
    BY <2>3, <2>4 DEF ListedInv
<1>4. ASSUME NEW u \in Users, NEW t \in Collaterals,
             RepayAll(u, t) \/ \E c, d \in Deltas : Manage(u, t, c, d)
      PROVE  ListedInv'
  <2>1. PICK c \in Int, d \in Int : Settle(u, t, c, d)
    BY <1>4, ManageSettles
  <2> DEFINE debt == Value(Changed(debtShares[t][u], d, debtSignal[t]), debtSignal[t])
  <2>2. /\ t \in added /\ added' = added /\ held[t] + c \in 0..Supply
        /\ held' = [held EXCEPT ![t] = @ + c]
        /\ positionCollateral' = Positioned(t, u, debt)
    BY <2>1 DEF Settle
  <2> HIDE DEF debt
  <2>3. PositionsListed'
    BY <1>1, <2>2 DEF ListedInv, PositionsListed, Positioned
  <2>4. HeldInSupply'
    BY <1>1, <2>2 DEF ListedInv, HeldInSupply
  <2> QED
    BY <2>3, <2>4 DEF ListedInv
<1>5. ASSUME NEW t \in Collaterals, Donate(t) PROVE ListedInv'
  BY <1>1, <1>5 DEF Donate, ListedInv, PositionsListed, HeldInSupply
<1>6. ASSUME NEW t \in Collaterals, NEW backing \in Backings,
             UpdateDebtSignal(t, backing) \/ UpdateCollSignal(t, backing)
      PROVE  ListedInv'
  BY <1>2, <1>6 DEF UpdateDebtSignal, UpdateCollSignal
<1>7. ASSUME NEW t \in Collaterals, NEW ofColl \in Backings, NEW ofDebt \in Backings,
             AddCollateralToken(t, ofColl, ofDebt)
      PROVE  ListedInv'
  BY <1>2, <1>7 DEF AddCollateralToken
<1>8. CASE UNCHANGED stableVars
  BY <1>2, <1>8 DEF stableVars
<1> QED
  BY <1>3, <1>4, <1>5, <1>6, <1>7, <1>8 DEF Next

LEMMA ListedInvariant == Spec => []ListedInv
<1>1. Init => ListedInv
  BY StableAssumption DEF Init, ListedInv, PositionsListed, HeldInSupply
<1> QED
  BY <1>1, ListedNextInv, StableInvariant, PTL DEF Spec

\* What manage requires of the repayment of all of a debt, and what it does.
RepaymentAccepted(u, t) ==
  /\ t \in added /\ positionCollateral[u] \in {NoCollateral, t}
  /\ DebtOf(t, u) # 0 => debtSignal[t] > 0
  /\ CollOf(t, u) # 0 => collSignal[t] > 0
  /\ LET ds == Changed(debtShares[t][u], -DebtOf(t, u), debtSignal[t])
         cs == Changed(collShares[t][u], -CollOf(t, u), collSignal[t])
     IN  /\ ds >= 0 /\ cs >= 0
         /\ Valid(Value(cs, collSignal[t]), Value(ds, debtSignal[t]))
  /\ mim - DebtOf(t, u) >= 0 /\ held[t] - CollOf(t, u) \in 0..Supply

RepaymentMade(u, t) ==
  LET ds == Changed(debtShares[t][u], -DebtOf(t, u), debtSignal[t])
      cs == Changed(collShares[t][u], -CollOf(t, u), collSignal[t]) IN
  /\ debtShares' = [debtShares EXCEPT ![t][u] = ds]
  /\ collShares' = [collShares EXCEPT ![t][u] = cs]
  /\ mim' = mim - DebtOf(t, u) /\ held' = [held EXCEPT ![t] = @ - CollOf(t, u)]
  /\ positionCollateral' = Positioned(t, u, Value(ds, debtSignal[t]))
  /\ UNCHANGED <<added, debtSignal, collSignal, loosened>>

(* Nothing else is required: an accepted repayment is a call of manage.    *)
LEMMA RepaymentIs ==
  ASSUME StableInv, NEW u \in Users, NEW t \in Collaterals
  PROVE  RepayAll(u, t) <=> RepaymentAccepted(u, t) /\ RepaymentMade(u, t)
<1> DEFINE x == DebtOf(t, u)
           y == CollOf(t, u)
           ds == Changed(debtShares[t][u], -x, debtSignal[t])
           cs == Changed(collShares[t][u], -y, collSignal[t])
<1>1. x \in Nat /\ y \in Nat /\ mim \in Nat /\ held \in [Collaterals -> Nat]
  BY ValueBounds DEF StableInv, StableTypeOK, DebtOf, CollOf
<1> HIDE DEF x, y
<1>2. /\ ~(-x > 0) /\ ~(-y > 0) /\ (-x # 0 <=> x # 0) /\ (-y # 0 <=> y # 0)
      /\ mim + (-x) = mim - x /\ held[t] + (-y) = held[t] - y
  BY <1>1
<1>3. [held EXCEPT ![t] = @ + (-y)] = [held EXCEPT ![t] = @ - y]
  BY <1>2
<1>4. RepayAll(u, t) <=> Settle(u, t, -y, -x)
  BY DEF RepayAll, x, y
<1>5. RepaymentAccepted(u, t) /\ RepaymentMade(u, t) <=>
        /\ t \in added /\ positionCollateral[u] \in {NoCollateral, t}
        /\ x # 0 => debtSignal[t] > 0
        /\ y # 0 => collSignal[t] > 0
        /\ ds >= 0 /\ cs >= 0
        /\ Valid(Value(cs, collSignal[t]), Value(ds, debtSignal[t]))
        /\ mim - x >= 0 /\ held[t] - y \in 0..Supply
        /\ debtShares' = [debtShares EXCEPT ![t][u] = ds]
        /\ collShares' = [collShares EXCEPT ![t][u] = cs]
        /\ mim' = mim - x /\ held' = [held EXCEPT ![t] = @ - y]
        /\ positionCollateral' = Positioned(t, u, Value(ds, debtSignal[t]))
        /\ UNCHANGED <<added, debtSignal, collSignal, loosened>>
  BY DEF RepaymentAccepted, RepaymentMade, x, y
<1>6. Settle(u, t, -y, -x) <=>
        /\ t \in added /\ positionCollateral[u] \in {NoCollateral, t}
        /\ x # 0 => debtSignal[t] > 0
        /\ y # 0 => collSignal[t] > 0
        /\ ds >= 0 /\ cs >= 0
        /\ Valid(Value(cs, collSignal[t]), Value(ds, debtSignal[t]))
        /\ mim - x >= 0 /\ held[t] - y \in 0..Supply
        /\ debtShares' = [debtShares EXCEPT ![t][u] = ds]
        /\ collShares' = [collShares EXCEPT ![t][u] = cs]
        /\ mim' = mim - x /\ held' = [held EXCEPT ![t] = @ - y]
        /\ positionCollateral' = Positioned(t, u, Value(ds, debtSignal[t]))
        /\ UNCHANGED <<added, debtSignal, collSignal, loosened>>
  BY <1>2, <1>3 DEF Settle
<1> QED
  BY <1>4, <1>5, <1>6

(* Taking out all that shares are worth burns no more than them, and what  *)
(* is left of them is worth nothing.                                       *)
LEMMA AllTakenOut ==
  ASSUME NEW s \in Nat, NEW signal \in Nat
  PROVE  LET v == Value(s, signal)
             left == Changed(s, -v, signal)
         IN  /\ v \in Nat /\ (v # 0 => signal > 0)
             /\ left \in Nat /\ Value(left, signal) = 0
<1> DEFINE v == Value(s, signal)
           left == Changed(s, -v, signal)
           k == SharesFor(v, signal)
<1>0. ONE \in Nat \ {0}
  BY StableAssumption
<1>1. v \in Nat /\ v * ONE <= s * signal /\ s * signal < v * ONE + ONE /\ s * signal \in Nat
  BY ValueBounds
<1> HIDE DEF v
<1>2. left = IF v = 0 THEN s ELSE s - k
  <2>1. (-v = 0 <=> v = 0) /\ ~(-v > 0) /\ -(-v) = v
    BY <1>1
  <2> QED
    BY <2>1 DEF Changed
<1>3. ASSUME v # 0 PROVE signal > 0
  <2> SUFFICES ASSUME signal = 0 PROVE FALSE
    OBVIOUS
  <2>1. s * signal = 0
    OBVIOUS
  <2>2. v * ONE >= 1 * ONE
    BY <1>0, <1>1, <1>3, ProductOrder
  <2>3. v * ONE \in Nat
    BY <1>0, <1>1
  <2> QED
    BY <1>0, <1>1, <2>1, <2>2, <2>3
<1>4. ASSUME NEW n \in Nat, n * signal < ONE PROVE Value(n, signal) = 0
  <2> DEFINE w == Value(n, signal)
  <2>1. w \in Nat /\ w * ONE <= n * signal /\ n * signal \in Nat
    BY ValueBounds
  <2> HIDE DEF w
  <2>2. w * ONE < 1 * ONE
    <3>1. w * ONE \in Nat
      BY <1>0, <2>1
    <3> QED
      BY <1>0, <1>4, <2>1, <3>1
  <2>3. w < 1
    BY <1>0, <2>1, <2>2, ProductCancel
  <2> QED
    BY <2>1, <2>3 DEF w
<1>5. CASE v = 0
  <2>1. s * signal < ONE
    BY <1>0, <1>1, <1>5
  <2> QED
    BY <1>1, <1>2, <1>4, <1>5, <2>1 DEF v
<1>6. CASE v # 0
  <2>1. signal \in Nat \ {0}
    BY <1>3, <1>6
  <2>2. k \in Nat /\ v * ONE <= k * signal /\ k * signal < v * ONE + signal
    BY <1>1, <2>1, SharesForBounds
  <2> HIDE DEF k
  <2>3. k <= s
    <3>1. (s + 1) * signal = s * signal + signal /\ k * signal \in Int /\ v * ONE \in Int
      BY <1>0, <1>1, <2>2
    <3>2. k * signal < (s + 1) * signal
      BY <1>1, <2>1, <2>2, <3>1
    <3>3. k < s + 1
      BY <2>2, <3>2, ProductCancel
    <3> QED
      BY <2>2, <3>3
  <2>4. s - k \in Nat
    BY <2>2, <2>3
  <2>5. (s - k) * signal < ONE
    <3>1. (s - k) * signal = s * signal - k * signal /\ k * signal \in Int /\ v * ONE \in Int
      BY <1>0, <1>1, <2>2
    <3> QED
      BY <1>0, <1>1, <2>2, <3>1
  <2> QED
    BY <1>1, <1>2, <1>3, <1>4, <1>6, <2>4, <2>5 DEF v
<1> QED
  BY <1>5, <1>6

(* Whoever has the MIM can repay all of a debt: manage finds nothing to    *)
(* refuse, neither in the shares burned nor in the position that is left   *)
(* (src/src/StableCoin.sol:217-237).  What it requires is all that         *)
(* RepaymentNeverRefused asks for, as RepaymentIs says.                    *)
THEOREM RepaymentsAccepted ==
  Spec => [](\A u \in Users :
               LET t == positionCollateral[u] IN
               t # NoCollateral /\ mim >= DebtOf(t, u) /\ held[t] >= CollOf(t, u)
                 => RepaymentAccepted(u, t))
<1>1. ASSUME StableInv, ListedInv, NEW u \in Users, positionCollateral[u] # NoCollateral,
             mim >= DebtOf(positionCollateral[u], u),
             held[positionCollateral[u]] >= CollOf(positionCollateral[u], u)
      PROVE  RepaymentAccepted(u, positionCollateral[u])
  <2> DEFINE t == positionCollateral[u]
             x == DebtOf(t, u)
             y == CollOf(t, u)
             ds == Changed(debtShares[t][u], -x, debtSignal[t])
             cs == Changed(collShares[t][u], -y, collSignal[t])
  <2>1. t \in Collaterals /\ t \in added
    BY <1>1 DEF ListedInv, PositionsListed, StableInv, StableTypeOK
  <2> HIDE DEF t
  <2>2. /\ debtShares[t][u] \in Nat /\ debtSignal[t] \in Nat
        /\ collShares[t][u] \in Nat /\ collSignal[t] \in Nat
        /\ held[t] \in Nat /\ mim \in Nat /\ held[t] <= Supply /\ Supply \in Nat
    BY <1>1, <2>1, StableAssumption DEF ListedInv, HeldInSupply, StableInv, StableTypeOK
  <2>3. /\ x \in Nat /\ (x # 0 => debtSignal[t] > 0)
        /\ ds \in Nat /\ Value(ds, debtSignal[t]) = 0
    BY <2>2, AllTakenOut DEF DebtOf
  <2>4. /\ y \in Nat /\ (y # 0 => collSignal[t] > 0)
        /\ cs \in Nat /\ Value(cs, collSignal[t]) = 0
    BY <2>2, AllTakenOut DEF CollOf
  <2>5. mim >= x /\ held[t] >= y
    BY <1>1 DEF t
  <2> HIDE DEF x, y, ds, cs
  <2>6. Valid(Value(cs, collSignal[t]), Value(ds, debtSignal[t]))
    BY <2>3, <2>4 DEF Valid
  <2>7. mim - x >= 0 /\ held[t] - y \in 0..Supply /\ ds >= 0 /\ cs >= 0
    BY <2>2, <2>3, <2>4, <2>5
  <2>8. RepaymentAccepted(u, t)
    BY <2>1, <2>3, <2>4, <2>6, <2>7 DEF RepaymentAccepted, x, y, ds, cs, t
  <2> QED
    BY <2>8 DEF t
<1>2. StableInv /\ ListedInv =>
        \A u \in Users :
          LET t == positionCollateral[u] IN
          t # NoCollateral /\ mim >= DebtOf(t, u) /\ held[t] >= CollOf(t, u)
            => RepaymentAccepted(u, t)
  BY <1>1
<1> QED
  BY <1>2, StableInvariant, ListedInvariant, PTL
=============================================================================
