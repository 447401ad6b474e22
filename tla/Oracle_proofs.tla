---------------------------- MODULE Oracle_proofs ----------------------------
(***************************************************************************)
(* Proofs about Oracle.tla, for any users, prices, rates and any number of *)
(* assets.  OInv is the conjunction of the invariants of the run and       *)
(* UnlistedDebtFree, without which a new rate could raise a ceiling.  The  *)
(* three operations on an account share a shape, AccountStep: they change  *)
(* the entries of one user only, move every total with the entry it sums,  *)
(* and stamp what they have updated.  That shape preserves OInv, and every *)
(* operation is shown to have it.                                          *)
(***************************************************************************)
EXTENDS Oracle, Ledger_proofs

USE OracleAssumption DEF Assets

\* Nothing is borrowed of an asset before it has a rate.
UnlistedDebtFree == \A a \in Assets \ Listed, u \in Users : borrowed[a][u] = 0

OInv ==
  OracleTypeOK /\ TotalsMatch /\ DepositsCovered /\ InterestBounded /\ UnlistedDebtFree

(* Division, as the solver uses it.                                        *)
LEMMA DivFacts ==
  ASSUME NEW n \in Nat, NEW d \in Nat \ {0}
  PROVE  n \div d \in Nat /\ d * (n \div d) <= n /\ n < d * (n \div d) + d
<1> DEFINE q == n \div d
<1>1. q \in Nat /\ q * d <= n /\ n < (q + 1) * d
  OBVIOUS
<1> HIDE DEF q
<1>2. q * d = d * q /\ (q + 1) * d = d * q + d
  BY <1>1
<1> QED
  BY <1>1, <1>2 DEF q

LEMMA TimesMonotone ==
  ASSUME NEW a \in Nat, NEW b \in Nat, NEW c \in Nat, a <= b
  PROVE  c * a <= c * b /\ a * c <= b * c
OBVIOUS

(* A quotient below a bound, and a quotient above one.                     *)
LEMMA DivLess ==
  ASSUME NEW n \in Nat, NEW d \in Nat \ {0}, NEW k \in Nat, n < d * k
  PROVE  n \div d < k
<1> DEFINE q == n \div d
<1>1. q \in Nat /\ d * q <= n
  BY DivFacts
<1> HIDE DEF q
<1>2. SUFFICES ASSUME k <= q PROVE FALSE
  BY <1>1 DEF q
<1>3. d * k <= d * q
  BY <1>1, <1>2, TimesMonotone
<1>4. d * k \in Nat /\ d * q \in Nat
  BY <1>1
<1> QED
  BY <1>1, <1>3, <1>4

LEMMA RoundedUpFacts ==
  ASSUME NEW n \in Nat, NEW d \in Nat \ {0}
  PROVE  RoundedUp(n, d) \in Nat /\ n <= d * RoundedUp(n, d)
<1> DEFINE m == n + d - 1
           q == m \div d
<1>1. m \in Nat
  OBVIOUS
<1>2. q \in Nat /\ m < d * q + d
  BY <1>1, DivFacts
<1> HIDE DEF q
<1>3. d * q \in Nat
  BY <1>2
<1>4. n <= d * q
  BY <1>2, <1>3
<1> QED
  BY <1>2, <1>4 DEF q, RoundedUp

(* The interest of one more block is at most that block's, rounded up.     *)
LEMMA InterestOfOneMore ==
  ASSUME NEW x \in Nat, NEW y \in Nat, NEW Y \in Nat \ {0}, NEW P \in Nat \ {0},
         NEW c \in Nat, y <= (Y * P) * c
  PROVE  ((x + y) \div Y) \div P <= (x \div Y) \div P + c
<1> DEFINE x1 == x \div Y
           q == x1 \div P
           z == (x + y) \div Y
           k == q + c + 1
<1>1. x1 \in Nat /\ x < Y * x1 + Y
  BY DivFacts
<1>2. q \in Nat /\ x1 < P * q + P
  BY <1>1, DivFacts
<1>3. z \in Nat
  BY DivFacts
<1> HIDE DEF x1, q, z
<1>4. x < Y * (P * q + P)
  <2>1. x1 + 1 <= P * q + P /\ P * q + P \in Nat
    BY <1>1, <1>2
  <2>2. Y * (x1 + 1) <= Y * (P * q + P)
    BY <1>1, <2>1, TimesMonotone
  <2>3. Y * (x1 + 1) = Y * x1 + Y
    BY <1>1
  <2>4. Y * x1 \in Nat /\ Y * (P * q + P) \in Nat
    BY <1>1, <2>1
  <2> QED
    BY <1>1, <2>2, <2>3, <2>4
<1>5. x + y < Y * (P * k)
  <2>1. Y * (P * k) = Y * (P * q + P) + (Y * P) * c
    BY <1>2
  <2>2. Y * (P * q + P) \in Nat /\ (Y * P) * c \in Nat
    BY <1>2
  <2> QED
    BY <1>4, <2>1, <2>2
<1>6. k \in Nat /\ P * k \in Nat
  BY <1>2
<1> HIDE DEF k
<1>7. z < P * k
  BY <1>5, <1>6, DivLess DEF z
<1>8. z \div P < k
  BY <1>3, <1>6, <1>7, DivLess
<1>9. z \div P \in Nat
  BY <1>3, DivFacts
<1>10. z \div P <= q + c
  BY <1>2, <1>8, <1>9 DEF k
<1> QED
  BY <1>10 DEF z, q, x1

-----------------------------------------------------------------------------
LEMMA OracleNumbers ==
  ASSUME OracleTypeOK, NEW a \in Assets
  PROVE  /\ bal[a] \in [Accounts -> Nat] /\ bal[a][OracleAddr] \in Nat
         /\ deposited[a] \in [Users -> Nat] /\ borrowed[a] \in [Users -> Nat]
         /\ ceiling[a] \in [Users -> Nat] /\ lastInterestBlock[a] \in [Users -> 0..block]
         /\ totalDeposited[a] \in Nat /\ totalBorrowed[a] \in Nat /\ writtenOff[a] \in Int
         /\ price[a] \in Nat /\ baseRate[a] \in Nat
         /\ \A u \in Users : /\ borrowed[a][u] \in Nat /\ deposited[a][u] \in Nat
                             /\ ceiling[a][u] \in Nat /\ Interest(a, u) \in Nat
<1>1. /\ bal[a] \in [Accounts -> Nat] /\ bal[a][OracleAddr] \in Nat
      /\ deposited[a] \in [Users -> Nat] /\ borrowed[a] \in [Users -> Nat]
      /\ ceiling[a] \in [Users -> Nat] /\ lastInterestBlock[a] \in [Users -> 0..block]
      /\ totalDeposited[a] \in Nat /\ totalBorrowed[a] \in Nat /\ writtenOff[a] \in Int
      /\ price[a] \in Nat /\ baseRate[a] \in Nat
  BY DEF OracleTypeOK
<1>2. ASSUME NEW u \in Users
      PROVE  /\ borrowed[a][u] \in Nat /\ deposited[a][u] \in Nat
             /\ ceiling[a][u] \in Nat /\ Interest(a, u) \in Nat
  <2>1. /\ borrowed[a][u] \in Nat /\ deposited[a][u] \in Nat /\ ceiling[a][u] \in Nat
        /\ lastInterestBlock[a][u] \in 0..block /\ block \in Nat /\ baseRate[a] \in Nat
    BY <1>1 DEF OracleTypeOK
  <2>2. block - lastInterestBlock[a][u] \in Nat
    BY <2>1
  <2> DEFINE n == borrowed[a][u] * baseRate[a] * (block - lastInterestBlock[a][u])
  <2>3. n \in Nat
    BY <2>1, <2>2
  <2> HIDE DEF n
  <2>4. (n \div BLOCKS_PER_YEAR) \div PRECISION \in Nat
    BY <2>3, DivFacts
  <2> QED
    BY <2>1, <2>4 DEF Interest, n
<1> QED
  BY <1>1, <1>2

(* A stamped entry of user u bears no interest until the next block, and   *)
(* the debt moves with its ceiling; or the asset is not touched at all.    *)
Touched(a, u) ==
  \/ /\ lastInterestBlock'[a] \in [Users -> 0..block] /\ lastInterestBlock'[a][u] = block
     /\ SameBut(lastInterestBlock[a], lastInterestBlock'[a], u, Users)
     /\ SameBut(ceiling[a], ceiling'[a], u, Users)
     /\ ceiling'[a][u] - borrowed'[a][u]
          = ceiling[a][u] - (borrowed[a][u] + Interest(a, u))
  \/ /\ lastInterestBlock'[a] = lastInterestBlock[a]
     /\ ceiling'[a] = ceiling[a] /\ borrowed'[a] = borrowed[a]

Backing(a) == bal[a][OracleAddr] + totalBorrowed[a] + writtenOff[a] - totalDeposited[a]

AccountStep(u) ==
  /\ UNCHANGED <<listing, price, block>>
  /\ bal' \in [Assets -> [Accounts -> Nat]]
  /\ borrowed' \in [Assets -> [Users -> Nat]] /\ deposited' \in [Assets -> [Users -> Nat]]
  /\ totalBorrowed' \in [Assets -> Int] /\ totalDeposited' \in [Assets -> Int]
  /\ ceiling' \in [Assets -> [Users -> Int]] /\ writtenOff' \in [Assets -> Int]
  /\ lastInterestBlock' \in [Assets -> [Users -> 0..block]]
  /\ \A a \in Assets :
       /\ SameBut(borrowed[a], borrowed'[a], u, Users)
       /\ SameBut(deposited[a], deposited'[a], u, Users)
       /\ totalBorrowed'[a] - totalBorrowed[a] = borrowed'[a][u] - borrowed[a][u]
       /\ totalDeposited'[a] - totalDeposited[a] = deposited'[a][u] - deposited[a][u]
       /\ Touched(a, u)
       /\ Backing(a)' >= Backing(a)
       /\ a \notin Listed => borrowed'[a] = borrowed[a]

LEMMA AccountStepKeepsInv ==
  ASSUME OInv, NEW u \in Users, AccountStep(u)
  PROVE  OInv'
<1>0. /\ OracleTypeOK /\ TotalsMatch /\ DepositsCovered /\ InterestBounded
      /\ UnlistedDebtFree
  BY DEF OInv
<1>1. ASSUME NEW a \in Assets
      PROVE  /\ totalDeposited'[a] = SumOver(deposited'[a], Users)
             /\ totalBorrowed'[a] = SumOver(borrowed'[a], Users)
             /\ totalDeposited'[a] \in Nat /\ totalBorrowed'[a] \in Nat
  <2>1. /\ borrowed[a] \in [Users -> Nat] /\ borrowed'[a] \in [Users -> Nat]
        /\ deposited[a] \in [Users -> Nat] /\ deposited'[a] \in [Users -> Nat]
        /\ SameBut(borrowed[a], borrowed'[a], u, Users)
        /\ SameBut(deposited[a], deposited'[a], u, Users)
        /\ totalBorrowed'[a] \in Int /\ totalDeposited'[a] \in Int
        /\ totalBorrowed'[a] - totalBorrowed[a] = borrowed'[a][u] - borrowed[a][u]
        /\ totalDeposited'[a] - totalDeposited[a] = deposited'[a][u] - deposited[a][u]
    BY <1>0, OracleNumbers DEF AccountStep
  <2>2. /\ SumOver(borrowed'[a], Users) \in Nat /\ SumOver(borrowed[a], Users) \in Nat
        /\ SumOver(borrowed'[a], Users)
             = SumOver(borrowed[a], Users) - borrowed[a][u] + borrowed'[a][u]
    BY <2>1, PointWrite
  <2>3. /\ SumOver(deposited'[a], Users) \in Nat /\ SumOver(deposited[a], Users) \in Nat
        /\ SumOver(deposited'[a], Users)
             = SumOver(deposited[a], Users) - deposited[a][u] + deposited'[a][u]
    BY <2>1, PointWrite
  <2>4. /\ totalBorrowed[a] = SumOver(borrowed[a], Users)
        /\ totalDeposited[a] = SumOver(deposited[a], Users)
    BY <1>0 DEF TotalsMatch
  <2>5. /\ borrowed[a][u] \in Nat /\ borrowed'[a][u] \in Nat
        /\ deposited[a][u] \in Nat /\ deposited'[a][u] \in Nat
    BY <2>1
  <2> DEFINE sb == SumOver(borrowed[a], Users)
             tb == SumOver(borrowed'[a], Users)
             sd == SumOver(deposited[a], Users)
             td == SumOver(deposited'[a], Users)
  <2>6. sb \in Nat /\ tb \in Nat /\ tb = sb - borrowed[a][u] + borrowed'[a][u]
        /\ totalBorrowed[a] = sb
    BY <2>2, <2>4
  <2>7. sd \in Nat /\ td \in Nat /\ td = sd - deposited[a][u] + deposited'[a][u]
        /\ totalDeposited[a] = sd
    BY <2>3, <2>4
  <2> HIDE DEF sb, tb, sd, td
  <2>8. totalBorrowed'[a] = tb /\ totalDeposited'[a] = td
    BY <2>1, <2>5, <2>6, <2>7
  <2> QED
    BY <2>6, <2>7, <2>8 DEF tb, td
<1>2. ASSUME NEW a \in Assets, NEW w \in Users
      PROVE  (borrowed[a][w] + Interest(a, w))' <= ceiling'[a][w] /\ ceiling'[a][w] \in Nat
  <2>1. /\ borrowed[a][w] \in Nat /\ Interest(a, w) \in Nat /\ ceiling[a][w] \in Nat
        /\ borrowed[a][w] + Interest(a, w) <= ceiling[a][w]
        /\ borrowed'[a][w] \in Nat /\ ceiling'[a][w] \in Int
        /\ block' = block /\ baseRate' = baseRate /\ block \in Nat /\ baseRate[a] \in Nat
    <3>1. /\ borrowed[a][w] \in Nat /\ Interest(a, w) \in Nat /\ ceiling[a][w] \in Nat
          /\ block \in Nat /\ baseRate[a] \in Nat
      BY <1>0, OracleNumbers DEF OracleTypeOK
    <3>2. borrowed[a][w] + Interest(a, w) <= ceiling[a][w]
      BY <1>0 DEF InterestBounded
    <3>3. /\ borrowed'[a][w] \in Nat /\ ceiling'[a][w] \in Int
          /\ block' = block /\ baseRate' = baseRate
      BY DEF AccountStep, listing
    <3> QED
      BY <3>1, <3>2, <3>3
  <2>2. CASE w = u /\ lastInterestBlock'[a][u] = block
             /\ ceiling'[a][u] - borrowed'[a][u]
                  = ceiling[a][u] - (borrowed[a][u] + Interest(a, u))
    <3>1. Interest(a, w)' = ((borrowed'[a][w] * baseRate[a] * 0) \div BLOCKS_PER_YEAR)
                               \div PRECISION
      BY <2>1, <2>2 DEF Interest
    <3>2. borrowed'[a][w] * baseRate[a] * 0 = 0
      BY <2>1
    <3>3. (0 \div BLOCKS_PER_YEAR) = 0 /\ (0 \div PRECISION) = 0
      OBVIOUS
    <3>4. Interest(a, w)' = 0
      BY <3>1, <3>2, <3>3
    <3> QED
      BY <2>1, <2>2, <3>4
  <2>3. CASE /\ borrowed'[a][w] = borrowed[a][w] /\ ceiling'[a][w] = ceiling[a][w]
             /\ lastInterestBlock'[a][w] = lastInterestBlock[a][w]
    <3>1. Interest(a, w)' = Interest(a, w)
      BY <2>1, <2>3 DEF Interest
    <3> QED
      BY <2>1, <2>3, <3>1
  <2>4. Touched(a, u) /\ SameBut(borrowed[a], borrowed'[a], u, Users)
    BY DEF AccountStep
  <2> QED
    BY <2>2, <2>3, <2>4 DEF Touched, SameBut
<1>3. OracleTypeOK'
  <2>1. /\ ceiling' \in [Assets -> [Users -> Nat]]
        /\ totalDeposited' \in [Assets -> Nat] /\ totalBorrowed' \in [Assets -> Nat]
    BY <1>1, <1>2 DEF AccountStep
  <2> QED
    BY <1>0, <2>1 DEF AccountStep, OracleTypeOK, listing
<1>4. TotalsMatch'
  BY <1>1 DEF TotalsMatch
<1>5. InterestBounded'
  BY <1>2 DEF InterestBounded
<1>6. ASSUME NEW a \in Assets
      PROVE  (bal[a][OracleAddr] + totalBorrowed[a] + writtenOff[a] >= totalDeposited[a])'
  <2>1. /\ bal[a][OracleAddr] \in Nat /\ totalBorrowed[a] \in Nat /\ writtenOff[a] \in Int
        /\ totalDeposited[a] \in Nat
        /\ bal[a][OracleAddr] + totalBorrowed[a] + writtenOff[a] >= totalDeposited[a]
    BY <1>0, OracleNumbers DEF DepositsCovered
  <2>2. /\ bal'[a][OracleAddr] \in Nat /\ totalBorrowed'[a] \in Nat /\ writtenOff'[a] \in Int
        /\ totalDeposited'[a] \in Nat
    BY <1>3 DEF OracleTypeOK
  <2>3. Backing(a)' >= Backing(a)
    BY DEF AccountStep
  <2> QED
    BY <2>1, <2>2, <2>3 DEF Backing
<1>7. DepositsCovered'
  BY <1>6 DEF DepositsCovered
<1>8. UnlistedDebtFree'
  BY <1>0 DEF AccountStep, UnlistedDebtFree, Listed, listing
<1> QED
  BY <1>3, <1>4, <1>5, <1>7, <1>8 DEF OInv

-----------------------------------------------------------------------------
LEMMA OracleInitInv == Init => OInv
<1> SUFFICES ASSUME Init PROVE OInv
  OBVIOUS
<1>1. OracleTypeOK
  BY DEF Init, OracleInit, OracleTypeOK, PerUser, PerAsset
<1>2. ASSUME NEW a \in Assets
      PROVE  SumOver(deposited[a], Users) = 0 /\ SumOver(borrowed[a], Users) = 0
  <2>1. /\ deposited[a] \in [Users -> Int] /\ \A u \in Users : deposited[a][u] = 0
        /\ borrowed[a] \in [Users -> Int] /\ \A u \in Users : borrowed[a][u] = 0
    BY DEF Init, OracleInit, PerUser
  <2> QED
    BY <2>1, SumZero
<1>3. TotalsMatch
  BY <1>2 DEF Init, OracleInit, PerAsset, TotalsMatch
<1>4. DepositsCovered
  <2>1. \A a \in Assets : bal[a][OracleAddr] \in Nat
    BY <1>1, OracleNumbers
  <2> QED
    BY <2>1 DEF Init, OracleInit, PerAsset, DepositsCovered
<1>5. ASSUME NEW a \in Assets, NEW u \in Users
      PROVE  borrowed[a][u] + Interest(a, u) <= ceiling[a][u]
  <2>1. borrowed[a][u] = 0 /\ ceiling[a][u] = 0 /\ baseRate[a] = 0 /\ block = 1
        /\ lastInterestBlock[a][u] = 0
    BY DEF Init, OracleInit, PerUser, PerAsset
  <2>2. (0 \div BLOCKS_PER_YEAR) = 0 /\ (0 \div PRECISION) = 0 /\ 0 * 0 * (1 - 0) = 0
    OBVIOUS
  <2>3. Interest(a, u) = 0
    BY <2>1, <2>2 DEF Interest
  <2> QED
    BY <2>1, <2>3
<1>6. UnlistedDebtFree
  BY DEF Init, OracleInit, PerUser, UnlistedDebtFree
<1> QED
  BY <1>1, <1>3, <1>4, <1>5, <1>6 DEF OInv, InterestBounded

(* One entry of a mapping by asset and user is moved.                      *)
AddedAt(r, m, a, u, v) ==
  /\ r \in [Assets -> [Users -> Int]] /\ r[a][u] = m[a][u] + v
  /\ SameBut(m[a], r[a], u, Users)
  /\ \A x \in Assets : x # a => r[x] = m[x]

LEMMA AddedFacts ==
  ASSUME NEW m \in [Assets -> [Users -> Int]], NEW a \in Assets, NEW u \in Users,
         NEW v \in Int
  PROVE  AddedAt(Added(m, a, u, v), m, a, u, v)
<1> DEFINE r == Added(m, a, u, v)
<1>1. r = [m EXCEPT ![a] = [m[a] EXCEPT ![u] = m[a][u] + v]]
  BY DEF Added
<1>2. [m[a] EXCEPT ![u] = m[a][u] + v] \in [Users -> Int]
  OBVIOUS
<1> HIDE DEF r
<1>3. r \in [Assets -> [Users -> Int]] /\ r[a] = [m[a] EXCEPT ![u] = m[a][u] + v]
      /\ \A x \in Assets : x # a => r[x] = m[x]
  BY <1>1, <1>2
<1> QED
  BY <1>3 DEF AddedAt, SameBut, r

AddedToAt(r, m, a, v) ==
  /\ r \in [Assets -> Int] /\ r[a] = m[a] + v
  /\ \A x \in Assets : x # a => r[x] = m[x]

LEMMA AddedToFacts ==
  ASSUME NEW m \in [Assets -> Int], NEW a \in Assets, NEW v \in Int
  PROVE  AddedToAt(AddedTo(m, a, v), m, a, v)
BY DEF AddedTo, AddedToAt

(* What updateInterest leaves for user u and the assets as.                *)
Due(a, u, as) == IF a \in as THEN Interest(a, u) ELSE 0

UpdatedAt(b, t, s, x, u, as) ==
  /\ Due(x, u, as) \in Nat /\ s[x] \in [Users -> 0..block] /\ t[x] \in Nat
  /\ b[x][u] = borrowed[x][u] + Due(x, u, as)
  /\ t[x] = totalBorrowed[x] + Due(x, u, as)
  /\ SameBut(borrowed[x], b[x], u, Users)
  /\ SameBut(lastInterestBlock[x], s[x], u, Users)
  /\ x \in as => s[x][u] = block /\ Due(x, u, as) = Interest(x, u)
  /\ x \notin as => /\ s[x] = lastInterestBlock[x] /\ b[x] = borrowed[x]
                    /\ Due(x, u, as) = 0

UpdatedBy(b, t, s, u, as) ==
  /\ b \in [Assets -> [Users -> Nat]] /\ t \in [Assets -> Nat]
  /\ s \in [Assets -> [Users -> 0..block]]
  /\ \A x \in Assets : UpdatedAt(b, t, s, x, u, as)

LEMMA UpdateFacts ==
  ASSUME OracleTypeOK, NEW u \in Users, NEW as, NEW a \in Assets
  PROVE  /\ Updated(u, as) \in [Assets -> [Users -> Nat]]
         /\ TotalUpdated(u, as) \in [Assets -> Nat]
         /\ Stamped(u, as) \in [Assets -> [Users -> 0..block]]
         /\ UpdatedAt(Updated(u, as), TotalUpdated(u, as), Stamped(u, as), a, u, as)
<1>0. ASSUME NEW x \in Assets
      PROVE  /\ borrowed[x] \in [Users -> Nat] /\ Interest(x, u) \in Nat
             /\ lastInterestBlock[x] \in [Users -> 0..block] /\ block \in 0..block
             /\ totalBorrowed[x] \in Nat /\ Due(x, u, as) \in Nat
  <2>1. /\ borrowed[x] \in [Users -> Nat] /\ Interest(x, u) \in Nat
        /\ lastInterestBlock[x] \in [Users -> 0..block] /\ totalBorrowed[x] \in Nat
    BY OracleNumbers
  <2>2. block \in 0..block
    BY DEF OracleTypeOK
  <2> QED
    BY <2>1, <2>2 DEF Due
<1>1. ASSUME NEW x \in Assets
      PROVE  /\ [borrowed[x] EXCEPT ![u] = @ + Interest(x, u)] \in [Users -> Nat]
             /\ [lastInterestBlock[x] EXCEPT ![u] = block] \in [Users -> 0..block]
  <2>1. borrowed[x] \in [Users -> Nat] /\ borrowed[x][u] + Interest(x, u) \in Nat
    <3>1. borrowed[x] \in [Users -> Nat] /\ Interest(x, u) \in Nat
      BY <1>0
    <3>2. borrowed[x][u] \in Nat
      BY <3>1
    <3> QED
      BY <3>1, <3>2
  <2>2. lastInterestBlock[x] \in [Users -> 0..block] /\ block \in 0..block
    BY <1>0
  <2> DEFINE S == 0..block
             v == borrowed[x][u] + Interest(x, u)
  <2> HIDE DEF S, v
  <2>3. [borrowed[x] EXCEPT ![u] = v] \in [Users -> Nat]
    BY <2>1 DEF v
  <2>4. [lastInterestBlock[x] EXCEPT ![u] = block] \in [Users -> S]
    BY <2>2 DEF S
  <2> QED
    BY <2>3, <2>4 DEF S, v
<1>2. Updated(u, as) \in [Assets -> [Users -> Nat]]
  BY <1>0, <1>1 DEF Updated
<1>3. TotalUpdated(u, as) \in [Assets -> Nat]
  <2>1. TotalUpdated(u, as) = [x \in Assets |-> totalBorrowed[x] + Due(x, u, as)]
    BY DEF TotalUpdated, Due
  <2>2. ASSUME NEW x \in Assets PROVE totalBorrowed[x] + Due(x, u, as) \in Nat
    <3> DEFINE t == totalBorrowed[x]
               d == Due(x, u, as)
    <3>1. t \in Nat /\ d \in Nat
      BY <1>0
    <3> HIDE DEF t, d
    <3>2. t + d \in Nat
      BY <3>1
    <3> QED
      BY <3>2 DEF t, d
  <2> QED
    BY <2>1, <2>2
<1>4. Stamped(u, as) \in [Assets -> [Users -> 0..block]]
  BY <1>0, <1>1 DEF Stamped
<1>5. /\ Updated(u, as)[a][u] = borrowed[a][u] + Due(a, u, as)
      /\ SameBut(borrowed[a], Updated(u, as)[a], u, Users)
  <2>1. CASE a \in as
    <3>1. Updated(u, as)[a] = [borrowed[a] EXCEPT ![u] = borrowed[a][u] + Interest(a, u)]
      BY <2>1 DEF Updated
    <3> QED
      BY <1>0, <2>1, <3>1 DEF Due, SameBut
  <2>2. CASE a \notin as
    <3>1. Updated(u, as)[a] = borrowed[a] /\ borrowed[a][u] \in Nat
      BY <1>0, <2>2 DEF Updated
    <3> QED
      BY <2>2, <3>1 DEF Due, SameBut
  <2> QED
    BY <2>1, <2>2
<1>6. /\ TotalUpdated(u, as)[a] = totalBorrowed[a] + Due(a, u, as) /\ Due(a, u, as) \in Nat
  <2>1. TotalUpdated(u, as) = [x \in Assets |-> totalBorrowed[x] + Due(x, u, as)]
    BY DEF TotalUpdated, Due
  <2> QED
    BY <1>0, <2>1
<1>7. /\ SameBut(lastInterestBlock[a], Stamped(u, as)[a], u, Users)
      /\ a \in as => Stamped(u, as)[a][u] = block
      /\ a \notin as => /\ Stamped(u, as)[a] = lastInterestBlock[a]
                        /\ Updated(u, as)[a] = borrowed[a]
  BY <1>0 DEF Stamped, Updated, SameBut
<1>8. Stamped(u, as)[a] \in [Users -> 0..block] /\ TotalUpdated(u, as)[a] \in Nat
  BY <1>3, <1>4
<1>9. /\ a \in as => Due(a, u, as) = Interest(a, u)
      /\ a \notin as => Due(a, u, as) = 0
  BY DEF Due
<1> QED
  BY <1>2, <1>3, <1>4, <1>5, <1>6, <1>7, <1>8, <1>9 DEF UpdatedAt

LEMMA UpdateShape ==
  ASSUME OracleTypeOK, NEW u \in Users, NEW as, as \subseteq Assets, as # {}
  PROVE  UpdatedBy(Updated(u, as), TotalUpdated(u, as), Stamped(u, as), u, as)
BY UpdateFacts DEF UpdatedBy

(* A debt and its ceiling moved by the same amount after an update.        *)
MovedAlike(b, x, u, v) ==
  /\ borrowed'[x][u] = b[x][u] + v
  /\ SameBut(b[x], borrowed'[x], u, Users)
  /\ ceiling'[x][u] = ceiling[x][u] + v
  /\ SameBut(ceiling[x], ceiling'[x], u, Users)

LEMMA UpdateTouches ==
  ASSUME OracleTypeOK, NEW b, NEW t, NEW s, NEW u \in Users, NEW as, NEW x \in Assets,
         NEW v \in Int, UpdatedBy(b, t, s, u, as), lastInterestBlock'[x] = s[x],
         MovedAlike(b, x, u, v),
         x \notin as => borrowed'[x] = b[x] /\ ceiling'[x] = ceiling[x]
  PROVE  /\ Touched(x, u)
         /\ SameBut(borrowed[x], borrowed'[x], u, Users)
         /\ borrowed'[x][u] = borrowed[x][u] + Due(x, u, as) + v
<1>1. /\ borrowed[x][u] \in Nat /\ ceiling[x][u] \in Nat /\ Interest(x, u) \in Nat
  BY OracleNumbers
<1>2. /\ b[x][u] = borrowed[x][u] + Due(x, u, as)
      /\ SameBut(borrowed[x], b[x], u, Users)
      /\ s[x] \in [Users -> 0..block]
      /\ SameBut(lastInterestBlock[x], s[x], u, Users)
      /\ x \in as => s[x][u] = block /\ Due(x, u, as) = Interest(x, u)
      /\ x \notin as => s[x] = lastInterestBlock[x] /\ b[x] = borrowed[x]
  BY DEF UpdatedBy, UpdatedAt
<1>3. borrowed'[x][u] = borrowed[x][u] + Due(x, u, as) + v
  BY <1>2 DEF MovedAlike
<1>4. SameBut(borrowed[x], borrowed'[x], u, Users)
  BY <1>2 DEF MovedAlike, SameBut
<1>5. CASE x \in as
  <2> DEFINE d == borrowed[x][u]
             c == ceiling[x][u]
             i == Interest(x, u)
  <2>2. d \in Nat /\ c \in Nat /\ i \in Nat /\ borrowed'[x][u] = d + i + v
        /\ ceiling'[x][u] = c + v
    BY <1>1, <1>2, <1>3, <1>5 DEF MovedAlike
  <2> HIDE DEF d, c, i
  <2>3. ceiling'[x][u] - borrowed'[x][u] = c - (d + i)
    BY <2>2
  <2>4. Touched(x, u)
    BY <1>2, <1>5, <2>3 DEF Touched, MovedAlike, d, c, i
  <2> QED
    BY <1>3, <1>4, <2>4
<1>6. CASE x \notin as
  <2>1. Touched(x, u)
    BY <1>2, <1>6 DEF Touched
  <2> QED
    BY <1>3, <1>4, <2>1
<1> QED
  BY <1>5, <1>6

(* AddedAt keeps a mapping in Nat if the entry it moves stays in Nat.      *)
LEMMA AddedNatural ==
  ASSUME NEW m \in [Assets -> [Users -> Nat]], NEW r, NEW a \in Assets, NEW u \in Users,
         NEW v \in Int, AddedAt(r, m, a, u, v), m[a][u] + v >= 0
  PROVE  /\ r \in [Assets -> [Users -> Nat]]
         /\ \A x \in Assets : SameBut(m[x], r[x], u, Users)
<1>1. ASSUME NEW x \in Assets, NEW w \in Users
      PROVE  r[x][w] \in Nat
  <2>1. m[x][w] \in Nat /\ m[a][u] + v \in Nat
    BY DEF AddedAt
  <2> QED
    BY <2>1 DEF AddedAt, SameBut
<1>2. ASSUME NEW x \in Assets
      PROVE  SameBut(m[x], r[x], u, Users)
  BY DEF AddedAt, SameBut
<1>3. r \in [Assets -> [Users -> Nat]]
  BY <1>1 DEF AddedAt
<1> QED
  BY <1>2, <1>3

LEMMA DepositStep ==
  ASSUME OInv, NEW u \in Users, NEW a \in Assets, NEW amount \in Nat, Deposit(u, a, amount)
  PROVE  AccountStep(u)
<1> DEFINE as == {a}
           l == Moved(bal[a], u, OracleAddr, amount)
           b == Updated(u, as)
           t == TotalUpdated(u, as)
           s == Stamped(u, as)
<1>0. /\ OracleTypeOK /\ UNCHANGED <<listing, price, block, history>>
      /\ CanPay(bal[a], u, amount) /\ u \in Accounts /\ u # OracleAddr /\ OracleAddr \in Accounts
      /\ bal' = [bal EXCEPT ![a] = l]
      /\ borrowed' = b /\ totalBorrowed' = t /\ lastInterestBlock' = s
      /\ deposited' = Added(deposited, a, u, amount)
      /\ totalDeposited' = AddedTo(totalDeposited, a, amount) /\ a \in Listed
  BY DEF OInv, Deposit
<1>1. l \in [Accounts -> Nat] /\ l[OracleAddr] = bal[a][OracleAddr] + amount
  <2> DEFINE m == bal[a]
  <2>1. m \in [Accounts -> Nat] /\ CanPay(m, u, amount)
    BY <1>0, OracleNumbers
  <2> HIDE DEF m
  <2>2. /\ Moved(m, u, OracleAddr, amount) \in [Accounts -> Nat]
        /\ Moved(m, u, OracleAddr, amount)[OracleAddr] = m[OracleAddr] + amount
    BY <1>0, <2>1, MovedFacts
  <2> QED
    BY <2>2 DEF m
<1>a. UpdatedBy(b, t, s, u, as)
  BY <1>0, UpdateShape
<1> HIDE DEF l, b, t, s
<1>2. /\ bal' \in [Assets -> [Accounts -> Nat]] /\ bal'[a] = l
      /\ \A x \in Assets : x # a => bal'[x] = bal[x]
  BY <1>0, <1>1 DEF OracleTypeOK
<1>3. /\ deposited \in [Assets -> [Users -> Int]] /\ totalDeposited \in [Assets -> Int]
      /\ deposited \in [Assets -> [Users -> Nat]] /\ amount \in Int
      /\ deposited[a][u] + amount >= 0
  <2>1. deposited \in [Assets -> [Users -> Nat]] /\ deposited[a][u] \in Nat
    BY <1>0 DEF OracleTypeOK
  <2>2. deposited \in [Assets -> [Users -> Int]] /\ totalDeposited \in [Assets -> Int]
    <3>1. totalDeposited \in [Assets -> Nat]
      BY <1>0 DEF OracleTypeOK
    <3>2. totalDeposited \in [Assets -> Int]
      BY <3>1
    <3> QED
      BY <2>1, <3>2
  <2> QED
    BY <2>1, <2>2
<1>4. /\ AddedAt(deposited', deposited, a, u, amount)
      /\ AddedToAt(totalDeposited', totalDeposited, a, amount)
  BY <1>0, <1>3, AddedFacts, AddedToFacts
<1>5. /\ deposited' \in [Assets -> [Users -> Nat]]
      /\ \A x \in Assets : SameBut(deposited[x], deposited'[x], u, Users)
  BY <1>3, <1>4, AddedNatural
<1>6. /\ borrowed' \in [Assets -> [Users -> Nat]] /\ totalBorrowed' \in [Assets -> Int]
      /\ lastInterestBlock' \in [Assets -> [Users -> 0..block]]
  <2>1. /\ b \in [Assets -> [Users -> Nat]] /\ t \in [Assets -> Nat]
        /\ s \in [Assets -> [Users -> 0..block]]
    BY <1>a DEF UpdatedBy, UpdatedAt
  <2> QED
    BY <1>0, <2>1
<1>7. ASSUME NEW x \in Assets
      PROVE  /\ SameBut(borrowed[x], borrowed'[x], u, Users)
             /\ totalBorrowed'[x] - totalBorrowed[x] = borrowed'[x][u] - borrowed[x][u]
             /\ totalDeposited'[x] - totalDeposited[x] = deposited'[x][u] - deposited[x][u]
             /\ Touched(x, u)
             /\ Backing(x)' >= Backing(x)
  <2>0. /\ borrowed[x][u] \in Nat /\ totalBorrowed[x] \in Nat
        /\ deposited[x][u] \in Nat /\ totalDeposited[x] \in Nat /\ ceiling[x][u] \in Nat
        /\ bal[x][OracleAddr] \in Nat /\ writtenOff[x] \in Int
    BY <1>0, OracleNumbers
  <2>1. /\ Due(x, u, as) \in Nat /\ t[x] = totalBorrowed[x] + Due(x, u, as)
        /\ b[x][u] = borrowed[x][u] + Due(x, u, as)
    BY <1>a DEF UpdatedBy, UpdatedAt
  <2>2. MovedAlike(b, x, u, 0) /\ ceiling' = ceiling /\ writtenOff' = writtenOff
    BY <1>0, <2>0, <2>1 DEF MovedAlike, SameBut, history
  <2>3. Touched(x, u) /\ SameBut(borrowed[x], borrowed'[x], u, Users)
    BY <1>0, <1>a, <2>2, UpdateTouches
  <2>4. totalBorrowed'[x] - totalBorrowed[x] = borrowed'[x][u] - borrowed[x][u]
    BY <1>0, <2>0, <2>1
  <2>5. totalDeposited'[x] - totalDeposited[x] = deposited'[x][u] - deposited[x][u]
    <3>1. CASE x = a
      <4>1. /\ totalDeposited'[x] = totalDeposited[x] + amount
            /\ deposited'[x][u] = deposited[x][u] + amount
        BY <1>4, <3>1 DEF AddedAt, AddedToAt
      <4> QED
        BY <2>0, <4>1
    <3>2. CASE x # a
      <4>1. totalDeposited'[x] = totalDeposited[x] /\ deposited'[x] = deposited[x]
        BY <1>4, <3>2 DEF AddedAt, AddedToAt
      <4> QED
        BY <2>0, <4>1
    <3> QED
      BY <3>1, <3>2
  <2>6. Backing(x)' >= Backing(x)
    <3>1. CASE x = a
      <4>1. /\ bal'[x][OracleAddr] = bal[x][OracleAddr] + amount
            /\ totalDeposited'[x] = totalDeposited[x] + amount
            /\ totalBorrowed'[x] = totalBorrowed[x] + Due(x, u, as)
        BY <1>0, <1>1, <1>2, <1>4, <2>1, <3>1 DEF AddedToAt
      <4> QED
        BY <2>0, <2>1, <2>2, <4>1 DEF Backing
    <3>2. CASE x # a
      <4>1. /\ bal'[x] = bal[x] /\ totalDeposited'[x] = totalDeposited[x]
            /\ totalBorrowed'[x] = totalBorrowed[x] + Due(x, u, as)
        BY <1>0, <1>2, <1>4, <2>1, <3>2 DEF AddedToAt
      <4> QED
        BY <2>0, <2>1, <2>2, <4>1 DEF Backing
    <3> QED
      BY <3>1, <3>2
  <2> QED
    BY <2>3, <2>4, <2>5, <2>6
<1>8. ceiling' \in [Assets -> [Users -> Int]] /\ writtenOff' \in [Assets -> Int]
  BY <1>0 DEF OracleTypeOK, history
<1>9. ASSUME NEW x \in Assets, x \notin Listed PROVE borrowed'[x] = borrowed[x]
  <2>1. x \notin as
    BY <1>0, <1>9
  <2> QED
    BY <1>0, <1>a, <2>1 DEF UpdatedBy, UpdatedAt
<1> QED
  BY <1>0, <1>2, <1>4, <1>5, <1>6, <1>7, <1>8, <1>9 DEF AccountStep, AddedToAt

LEMMA BorrowStep ==
  ASSUME OInv, NEW u \in Users, NEW a \in Assets, NEW amount \in Nat, Borrow(u, a, amount)
  PROVE  AccountStep(u)
<1> DEFINE as == {a}
           l == Moved(bal[a], OracleAddr, u, amount)
           b == Updated(u, as)
           t == TotalUpdated(u, as)
           s == Stamped(u, as)
<1>0. /\ OracleTypeOK /\ UNCHANGED <<listing, deposits, price, block, writtenOff>>
      /\ CanPay(bal[a], OracleAddr, amount)
      /\ u \in Accounts /\ u # OracleAddr /\ OracleAddr \in Accounts
      /\ bal' = [bal EXCEPT ![a] = l]
      /\ borrowed' = Added(b, a, u, amount) /\ totalBorrowed' = AddedTo(t, a, amount)
      /\ lastInterestBlock' = s
      /\ ceiling' = Added(ceiling, a, u, amount) /\ a \in Listed
  BY DEF OInv, Borrow
<1>1. l \in [Accounts -> Nat] /\ l[OracleAddr] = bal[a][OracleAddr] - amount
  <2> DEFINE m == bal[a]
  <2>1. m \in [Accounts -> Nat] /\ CanPay(m, OracleAddr, amount)
    BY <1>0, OracleNumbers
  <2> HIDE DEF m
  <2>2. /\ Moved(m, OracleAddr, u, amount) \in [Accounts -> Nat]
        /\ Moved(m, OracleAddr, u, amount)[OracleAddr] = m[OracleAddr] - amount
    BY <1>0, <2>1, MovedFacts
  <2> QED
    BY <2>2 DEF m
<1>a. UpdatedBy(b, t, s, u, as)
  BY <1>0, UpdateShape
<1> HIDE DEF l, b, t, s
<1>2. /\ bal' \in [Assets -> [Accounts -> Nat]] /\ bal'[a] = l
      /\ \A x \in Assets : x # a => bal'[x] = bal[x]
  BY <1>0, <1>1 DEF OracleTypeOK
<1>3. /\ b \in [Assets -> [Users -> Nat]] /\ b \in [Assets -> [Users -> Int]]
      /\ t \in [Assets -> Int] /\ s \in [Assets -> [Users -> 0..block]]
      /\ ceiling \in [Assets -> [Users -> Int]] /\ amount \in Int
      /\ b[a][u] + amount >= 0
  <2>1. /\ b \in [Assets -> [Users -> Nat]] /\ t \in [Assets -> Nat]
        /\ s \in [Assets -> [Users -> 0..block]]
    BY <1>a DEF UpdatedBy
  <2>2. b \in [Assets -> [Users -> Int]] /\ t \in [Assets -> Int] /\ b[a][u] \in Nat
    BY <2>1
  <2>3. ceiling \in [Assets -> [Users -> Int]]
    BY <1>0 DEF OracleTypeOK
  <2> QED
    BY <2>1, <2>2, <2>3
<1>4. /\ AddedAt(borrowed', b, a, u, amount) /\ AddedToAt(totalBorrowed', t, a, amount)
      /\ AddedAt(ceiling', ceiling, a, u, amount)
  BY <1>0, <1>3, AddedFacts, AddedToFacts
<1>5. borrowed' \in [Assets -> [Users -> Nat]]
  BY <1>3, <1>4, AddedNatural
<1>6. /\ totalBorrowed' \in [Assets -> Int] /\ ceiling' \in [Assets -> [Users -> Int]]
      /\ lastInterestBlock' \in [Assets -> [Users -> 0..block]]
  BY <1>0, <1>3, <1>4 DEF AddedAt, AddedToAt
<1>7. /\ deposited' \in [Assets -> [Users -> Nat]] /\ deposited' = deposited
      /\ totalDeposited' \in [Assets -> Int] /\ totalDeposited' = totalDeposited
      /\ writtenOff' \in [Assets -> Int] /\ writtenOff' = writtenOff
  <2>1. deposited' = deposited /\ totalDeposited' = totalDeposited /\ writtenOff' = writtenOff
    BY <1>0 DEF deposits
  <2>2. /\ deposited \in [Assets -> [Users -> Nat]] /\ totalDeposited \in [Assets -> Int]
        /\ writtenOff \in [Assets -> Int]
    BY <1>0 DEF OracleTypeOK
  <2> QED
    BY <2>1, <2>2
<1>8. ASSUME NEW x \in Assets
      PROVE  /\ SameBut(borrowed[x], borrowed'[x], u, Users)
             /\ SameBut(deposited[x], deposited'[x], u, Users)
             /\ totalBorrowed'[x] - totalBorrowed[x] = borrowed'[x][u] - borrowed[x][u]
             /\ totalDeposited'[x] - totalDeposited[x] = deposited'[x][u] - deposited[x][u]
             /\ Touched(x, u)
             /\ Backing(x)' >= Backing(x)
  <2> DEFINE v == IF x = a THEN amount ELSE 0
  <2>0. /\ borrowed[x][u] \in Nat /\ totalBorrowed[x] \in Nat
        /\ deposited[x][u] \in Nat /\ totalDeposited[x] \in Nat /\ ceiling[x][u] \in Nat
        /\ bal[x][OracleAddr] \in Nat /\ writtenOff[x] \in Int
    BY <1>0, OracleNumbers
  <2>1. /\ Due(x, u, as) \in Nat /\ t[x] = totalBorrowed[x] + Due(x, u, as)
        /\ b[x][u] = borrowed[x][u] + Due(x, u, as)
    BY <1>a DEF UpdatedBy, UpdatedAt
  <2>2. /\ MovedAlike(b, x, u, v) /\ v \in Int
        /\ x \notin as => borrowed'[x] = b[x] /\ ceiling'[x] = ceiling[x]
        /\ totalBorrowed'[x] = t[x] + v
        /\ bal'[x][OracleAddr] = bal[x][OracleAddr] - v
    <3>1. CASE x = a
      <4>1. v = amount
        BY <3>1
      <4> HIDE DEF v
      <4> QED
        BY <1>1, <1>2, <1>4, <3>1, <4>1 DEF AddedAt, AddedToAt, MovedAlike
    <3>2. CASE x # a
      <4>1. /\ v = 0 /\ borrowed'[x] = b[x] /\ ceiling'[x] = ceiling[x]
            /\ totalBorrowed'[x] = t[x] /\ bal'[x] = bal[x]
        BY <1>2, <1>4, <3>2 DEF AddedAt, AddedToAt
      <4> HIDE DEF v
      <4> QED
        BY <2>0, <2>1, <4>1 DEF MovedAlike, SameBut
    <3> QED
      BY <3>1, <3>2
  <2> HIDE DEF v
  <2>3. /\ Touched(x, u) /\ SameBut(borrowed[x], borrowed'[x], u, Users)
        /\ borrowed'[x][u] = borrowed[x][u] + Due(x, u, as) + v
    BY <1>0, <1>a, <2>2, UpdateTouches
  <2>4. totalBorrowed'[x] - totalBorrowed[x] = borrowed'[x][u] - borrowed[x][u]
    BY <2>0, <2>1, <2>2, <2>3
  <2>5. /\ SameBut(deposited[x], deposited'[x], u, Users)
        /\ totalDeposited'[x] - totalDeposited[x] = deposited'[x][u] - deposited[x][u]
    BY <1>7, <2>0 DEF SameBut
  <2>6. Backing(x)' >= Backing(x)
    <3>1. /\ totalBorrowed'[x] = totalBorrowed[x] + Due(x, u, as) + v
          /\ totalDeposited'[x] = totalDeposited[x] /\ writtenOff'[x] = writtenOff[x]
          /\ bal'[x][OracleAddr] = bal[x][OracleAddr] - v
      BY <1>7, <2>1, <2>2
    <3> QED
      BY <2>0, <2>1, <2>2, <3>1 DEF Backing
  <2> QED
    BY <2>3, <2>4, <2>5, <2>6
<1>9. ASSUME NEW x \in Assets, x \notin Listed PROVE borrowed'[x] = borrowed[x]
  <2>1. x \notin as
    BY <1>0, <1>9
  <2>2. b[x] = borrowed[x]
    BY <1>a, <2>1 DEF UpdatedBy, UpdatedAt
  <2> QED
    BY <1>4, <2>1, <2>2 DEF AddedAt
<1> QED
  BY <1>0, <1>2, <1>5, <1>6, <1>7, <1>8, <1>9 DEF AccountStep

(* What a liquidation moves.                                               *)
LEMMA LiquidationAmounts ==
  ASSUME NEW pa \in Nat \ {0}, NEW pc \in Nat \ {0}, NEW a, NEW c, NEW held \in Nat,
         NEW amount \in Nat, NEW debt \in Nat, price[a] = pa, price[c] = pc
  PROVE  LET actual == Smaller(amount, debt)
         IN  /\ actual \in Nat /\ actual <= debt
             /\ Seized(actual, a, c, held) \in Nat /\ Seized(actual, a, c, held) <= held
             /\ Payment(actual, a, c, held) \in Nat
<1> DEFINE actual == Smaller(amount, debt)
           real == Real(actual, a, c)
           seized == Seized(actual, a, c, held)
           worth == (seized * pc) \div pa
<1>1. actual \in Nat /\ actual <= debt
  BY DEF Smaller
<1> HIDE DEF actual
<1>2. actual * pa \in Nat
  BY <1>1
<1>3. real \in Nat
  BY <1>2, DivFacts DEF Real
<1>4. seized = Smaller(real, held)
  BY DEF Seized
<1> HIDE DEF real, seized
<1>5. seized \in Nat /\ seized <= held
  BY <1>3, <1>4 DEF Smaller
<1>6. seized * pc \in Nat
  BY <1>5
<1>7. worth \in Nat
  BY <1>6, DivFacts
<1> HIDE DEF worth
<1>8. worth * BAD_DEBT_RATIO \in Nat
  BY <1>7
<1>9. (worth * BAD_DEBT_RATIO) \div PERCENT \in Nat
  BY <1>8, DivFacts
<1>10. Payment(actual, a, c, held)
         = IF Real(actual, a, c) > held THEN (worth * BAD_DEBT_RATIO) \div PERCENT ELSE worth
  BY DEF Payment, worth, seized
<1> QED
  BY <1>1, <1>5, <1>7, <1>9, <1>10 DEF actual, seized

LEMMA LiquidateStep ==
  ASSUME OInv, NEW l \in Users, NEW u \in Users, NEW a \in Assets, NEW c \in Assets,
         NEW amount \in Nat, Liquidate(l, u, a, amount, c)
  PROVE  AccountStep(u)
<1> DEFINE as == {a, c}
           b == Updated(u, as)
           t == TotalUpdated(u, as)
           s == Stamped(u, as)
           held == deposited[c][u]
           actual == Smaller(amount, b[a][u])
           seized == Seized(actual, a, c, held)
           payment == Payment(actual, a, c, held)
           la == Moved(bal[a], l, OracleAddr, payment)
           lc == Moved(bal[c], OracleAddr, l, seized)
<1>0. /\ OracleTypeOK /\ UNCHANGED <<listing, price, block>> /\ a # c
      /\ a \in Listed /\ c \in Listed
      /\ price[a] # 0 /\ price[c] # 0
      /\ CanPay(bal[a], l, payment) /\ CanPay(bal[c], OracleAddr, seized)
      /\ l \in Accounts /\ l # OracleAddr /\ OracleAddr \in Accounts
      /\ bal' = [bal EXCEPT ![a] = la, ![c] = lc]
      /\ borrowed' = Added(b, a, u, -actual) /\ totalBorrowed' = AddedTo(t, a, -actual)
      /\ lastInterestBlock' = s
      /\ deposited' = Added(deposited, c, u, -seized)
      /\ totalDeposited' = AddedTo(totalDeposited, c, -seized)
      /\ ceiling' = Added(ceiling, a, u, -actual)
      /\ writtenOff' = AddedTo(writtenOff, a, actual - payment)
  BY DEF OInv, Liquidate
<1>a. UpdatedBy(b, t, s, u, as)
  BY <1>0, UpdateShape
<1> HIDE DEF b, t, s
<1>b. /\ b \in [Assets -> [Users -> Nat]] /\ b \in [Assets -> [Users -> Int]]
      /\ t \in [Assets -> Int] /\ s \in [Assets -> [Users -> 0..block]]
      /\ b[a][u] \in Nat
  <2>1. /\ b \in [Assets -> [Users -> Nat]] /\ t \in [Assets -> Nat]
        /\ s \in [Assets -> [Users -> 0..block]]
    BY <1>a DEF UpdatedBy
  <2> QED
    BY <2>1
<1>c. /\ actual \in Nat /\ actual <= b[a][u] /\ seized \in Nat /\ seized <= held
      /\ payment \in Nat
  <2>1. held \in Nat /\ price[a] \in Nat \ {0} /\ price[c] \in Nat \ {0}
    BY <1>0, OracleNumbers
  <2> QED
    BY <1>b, <2>1, LiquidationAmounts
<1> HIDE DEF actual, seized, payment
<1>1. /\ la \in [Accounts -> Nat] /\ la[OracleAddr] = bal[a][OracleAddr] + payment
      /\ lc \in [Accounts -> Nat] /\ lc[OracleAddr] = bal[c][OracleAddr] - seized
  <2> DEFINE m == bal[a]
             n == bal[c]
  <2>1. /\ m \in [Accounts -> Nat] /\ CanPay(m, l, payment)
        /\ n \in [Accounts -> Nat] /\ CanPay(n, OracleAddr, seized)
    BY <1>0, OracleNumbers
  <2> HIDE DEF m, n
  <2>2. /\ Moved(m, l, OracleAddr, payment) \in [Accounts -> Nat]
        /\ Moved(m, l, OracleAddr, payment)[OracleAddr] = m[OracleAddr] + payment
    BY <1>0, <1>c, <2>1, MovedFacts
  <2>3. /\ Moved(n, OracleAddr, l, seized) \in [Accounts -> Nat]
        /\ Moved(n, OracleAddr, l, seized)[OracleAddr] = n[OracleAddr] - seized
    BY <1>0, <1>c, <2>1, MovedFacts
  <2> QED
    BY <2>2, <2>3 DEF m, n
<1> HIDE DEF la, lc
<1>2. /\ bal' \in [Assets -> [Accounts -> Nat]] /\ bal'[a] = la /\ bal'[c] = lc
      /\ \A x \in Assets : x \notin as => bal'[x] = bal[x]
  BY <1>0, <1>1 DEF OracleTypeOK
<1>3. /\ deposited \in [Assets -> [Users -> Int]] /\ totalDeposited \in [Assets -> Int]
      /\ deposited \in [Assets -> [Users -> Nat]] /\ writtenOff \in [Assets -> Int]
      /\ ceiling \in [Assets -> [Users -> Int]]
  <2>1. /\ deposited \in [Assets -> [Users -> Nat]] /\ totalDeposited \in [Assets -> Nat]
        /\ writtenOff \in [Assets -> Int] /\ ceiling \in [Assets -> [Users -> Nat]]
    BY <1>0 DEF OracleTypeOK
  <2>2. /\ deposited \in [Assets -> [Users -> Int]]
        /\ ceiling \in [Assets -> [Users -> Int]]
    BY <2>1
  <2>3. totalDeposited \in [Assets -> Int]
    BY <2>1
  <2> QED
    BY <2>1, <2>2, <2>3
<1>e. /\ -actual \in Int /\ -seized \in Int /\ actual - payment \in Int
      /\ b[a][u] + (-actual) >= 0 /\ held + (-seized) >= 0
  <2>1. held \in Nat
    BY <1>0, OracleNumbers
  <2> HIDE DEF held
  <2> QED
    BY <1>b, <1>c, <2>1
<1>4. /\ AddedAt(borrowed', b, a, u, -actual) /\ AddedToAt(totalBorrowed', t, a, -actual)
      /\ AddedAt(ceiling', ceiling, a, u, -actual)
      /\ AddedAt(deposited', deposited, c, u, -seized)
      /\ AddedToAt(totalDeposited', totalDeposited, c, -seized)
      /\ AddedToAt(writtenOff', writtenOff, a, actual - payment)
  BY <1>0, <1>b, <1>3, <1>e, AddedFacts, AddedToFacts
<1>5. borrowed' \in [Assets -> [Users -> Nat]]
  BY <1>b, <1>4, <1>e, AddedNatural
<1>6. /\ deposited' \in [Assets -> [Users -> Nat]]
      /\ \A x \in Assets : SameBut(deposited[x], deposited'[x], u, Users)
  BY <1>3, <1>4, <1>e, AddedNatural
<1>7. /\ totalBorrowed' \in [Assets -> Int] /\ ceiling' \in [Assets -> [Users -> Int]]
      /\ totalDeposited' \in [Assets -> Int] /\ writtenOff' \in [Assets -> Int]
      /\ lastInterestBlock' \in [Assets -> [Users -> 0..block]]
  BY <1>0, <1>b, <1>4 DEF AddedAt, AddedToAt
<1>8. ASSUME NEW x \in Assets
      PROVE  /\ SameBut(borrowed[x], borrowed'[x], u, Users)
             /\ totalBorrowed'[x] - totalBorrowed[x] = borrowed'[x][u] - borrowed[x][u]
             /\ totalDeposited'[x] - totalDeposited[x] = deposited'[x][u] - deposited[x][u]
             /\ Touched(x, u)
             /\ Backing(x)' >= Backing(x)
  <2> DEFINE v == IF x = a THEN -actual ELSE 0
             w == IF x = c THEN -seized ELSE 0
             p == IF x = a THEN payment ELSE 0
  <2>0. /\ borrowed[x][u] \in Nat /\ totalBorrowed[x] \in Nat
        /\ deposited[x][u] \in Nat /\ totalDeposited[x] \in Nat /\ ceiling[x][u] \in Nat
        /\ bal[x][OracleAddr] \in Nat /\ writtenOff[x] \in Int
    BY <1>0, OracleNumbers
  <2>1. /\ Due(x, u, as) \in Nat /\ t[x] = totalBorrowed[x] + Due(x, u, as)
        /\ b[x][u] = borrowed[x][u] + Due(x, u, as)
    BY <1>a DEF UpdatedBy, UpdatedAt
  <2>v. v \in Int /\ w \in Int /\ p \in Int
    BY <1>c, <1>e
  <2>2. /\ borrowed'[x][u] = b[x][u] + v /\ SameBut(b[x], borrowed'[x], u, Users)
        /\ ceiling'[x][u] = ceiling[x][u] + v /\ SameBut(ceiling[x], ceiling'[x], u, Users)
        /\ totalBorrowed'[x] = t[x] + v
        /\ x \notin as => borrowed'[x] = b[x] /\ ceiling'[x] = ceiling[x]
    <3>1. CASE x = a
      <4>1. v = -actual
        BY <3>1
      <4> HIDE DEF v
      <4> QED
        BY <1>4, <3>1, <4>1 DEF AddedAt, AddedToAt
    <3>2. CASE x # a
      <4>1. /\ v = 0 /\ borrowed'[x] = b[x] /\ ceiling'[x] = ceiling[x]
            /\ totalBorrowed'[x] = t[x]
        BY <1>4, <3>2 DEF AddedAt, AddedToAt
      <4> HIDE DEF v
      <4> QED
        BY <2>0, <2>1, <4>1 DEF SameBut
    <3> QED
      BY <3>1, <3>2
  <2>3. deposited'[x][u] = deposited[x][u] + w /\ totalDeposited'[x] = totalDeposited[x] + w
    <3>1. CASE x = c
      BY <1>4, <3>1 DEF AddedAt, AddedToAt
    <3>2. CASE x # c
      <4>1. w = 0 /\ deposited'[x] = deposited[x] /\ totalDeposited'[x] = totalDeposited[x]
        BY <1>4, <3>2 DEF AddedAt, AddedToAt
      <4> HIDE DEF w
      <4> QED
        BY <2>0, <4>1
    <3> QED
      BY <3>1, <3>2
  <2>4. /\ bal'[x][OracleAddr] = bal[x][OracleAddr] + w + p
        /\ writtenOff'[x] = writtenOff[x] - v - p
    <3>1. CASE x = a
      <4>1. /\ v = -actual /\ w = 0 /\ p = payment
            /\ bal'[x][OracleAddr] = bal[x][OracleAddr] + payment
            /\ writtenOff'[x] = writtenOff[x] + (actual - payment)
        BY <1>0, <1>1, <1>2, <1>4, <3>1 DEF AddedToAt
      <4> HIDE DEF v, w, p
      <4> QED
        BY <1>c, <2>0, <4>1
    <3>2. CASE x = c
      <4>1. /\ v = 0 /\ w = -seized /\ p = 0
            /\ bal'[x][OracleAddr] = bal[x][OracleAddr] - seized
            /\ writtenOff'[x] = writtenOff[x]
        BY <1>0, <1>1, <1>2, <1>4, <3>2 DEF AddedToAt
      <4> HIDE DEF v, w, p
      <4> QED
        BY <1>c, <2>0, <4>1
    <3>3. CASE x \notin as
      <4>1. v = 0 /\ w = 0 /\ p = 0 /\ bal'[x] = bal[x] /\ writtenOff'[x] = writtenOff[x]
        BY <1>2, <1>4, <3>3 DEF AddedToAt
      <4> HIDE DEF v, w, p
      <4> QED
        BY <2>0, <4>1
    <3> QED
      BY <3>1, <3>2, <3>3
  <2> HIDE DEF v, w, p
  <2>5. /\ Touched(x, u) /\ SameBut(borrowed[x], borrowed'[x], u, Users)
        /\ borrowed'[x][u] = borrowed[x][u] + Due(x, u, as) + v
    <3>1. MovedAlike(b, x, u, v)
      BY <2>2 DEF MovedAlike
    <3> QED
      BY <1>0, <1>a, <2>2, <2>v, <3>1, UpdateTouches
  <2>6. totalBorrowed'[x] - totalBorrowed[x] = borrowed'[x][u] - borrowed[x][u]
    BY <2>0, <2>1, <2>2, <2>5, <2>v
  <2>7. totalDeposited'[x] - totalDeposited[x] = deposited'[x][u] - deposited[x][u]
    BY <2>0, <2>3, <2>v
  <2>8. Backing(x)' >= Backing(x)
    <3>1. totalBorrowed'[x] = totalBorrowed[x] + Due(x, u, as) + v
      BY <2>1, <2>2
    <3> QED
      BY <2>0, <2>1, <2>3, <2>4, <2>v, <3>1 DEF Backing
  <2> QED
    BY <2>5, <2>6, <2>7, <2>8
<1>9. ASSUME NEW x \in Assets, x \notin Listed PROVE borrowed'[x] = borrowed[x]
  <2>1. x \notin as
    BY <1>0, <1>9
  <2>2. b[x] = borrowed[x]
    BY <1>a, <2>1 DEF UpdatedBy, UpdatedAt
  <2> QED
    BY <1>4, <2>1, <2>2 DEF AddedAt
<1> QED
  BY <1>0, <1>2, <1>5, <1>6, <1>7, <1>8, <1>9 DEF AccountStep

-----------------------------------------------------------------------------
LEMMA AddAssetKeepsInv ==
  ASSUME OInv, NEW rate \in BaseRates, AddAsset(rate)
  PROVE  OInv'
<1>0. /\ OracleTypeOK /\ TotalsMatch /\ DepositsCovered /\ InterestBounded
      /\ UnlistedDebtFree
      /\ UNCHANGED <<bal, deposits, debts, price, block, history>>
      /\ assetCount \in 0..MaxAssets /\ assetCount < MaxAssets
      /\ assetCount' = assetCount + 1 /\ baseRate' = [baseRate EXCEPT ![assetCount] = rate]
      /\ rate \in Nat /\ baseRate \in [Assets -> Nat]
  BY DEF OInv, AddAsset, OracleTypeOK
<1>1. assetCount \in Assets /\ assetCount' \in 0..MaxAssets
      /\ baseRate' \in [Assets -> Nat]
      /\ \A x \in Assets : x # assetCount => baseRate'[x] = baseRate[x]
  BY <1>0
<1>2. /\ bal' = bal /\ totalDeposited' = totalDeposited /\ deposited' = deposited
      /\ totalBorrowed' = totalBorrowed /\ borrowed' = borrowed
      /\ lastInterestBlock' = lastInterestBlock /\ price' = price /\ block' = block
      /\ ceiling' = ceiling /\ writtenOff' = writtenOff
  BY <1>0 DEF deposits, debts, history
<1>3. OracleTypeOK'
  BY <1>0, <1>1, <1>2 DEF OracleTypeOK
<1>4. TotalsMatch' /\ DepositsCovered'
  BY <1>0, <1>2 DEF TotalsMatch, DepositsCovered
<1>5. UnlistedDebtFree'
  BY <1>0, <1>1, <1>2 DEF UnlistedDebtFree, Listed
<1>6. ASSUME NEW a \in Assets, NEW u \in Users
      PROVE  (borrowed[a][u] + Interest(a, u) <= ceiling[a][u])'
  <2>1. borrowed[a][u] + Interest(a, u) <= ceiling[a][u]
    BY <1>0 DEF InterestBounded
  <2>2. CASE a # assetCount
    <3>1. Interest(a, u)' = Interest(a, u)
      BY <1>1, <1>2, <2>2 DEF Interest
    <3> QED
      BY <1>2, <2>1, <3>1
  <2>3. CASE a = assetCount
    <3>1. borrowed[a][u] = 0
      BY <1>0, <2>3 DEF UnlistedDebtFree, Listed
    <3>2. /\ ceiling[a][u] \in Nat /\ block - lastInterestBlock[a][u] \in Int
          /\ baseRate'[a] \in Nat
      <4>1. lastInterestBlock[a][u] \in 0..block /\ ceiling[a][u] \in Nat /\ block \in Nat
        <5>1. lastInterestBlock[a] \in [Users -> 0..block] /\ ceiling[a][u] \in Nat
          BY <1>0, OracleNumbers
        <5>2. block \in Nat
          BY <1>0 DEF OracleTypeOK
        <5> QED
          BY <5>1, <5>2
      <4> QED
        BY <1>1, <4>1
    <3>3. Interest(a, u)' = ((0 * baseRate'[a] * (block - lastInterestBlock[a][u]))
                               \div BLOCKS_PER_YEAR) \div PRECISION
      BY <1>2, <3>1 DEF Interest
    <3>4. 0 * baseRate'[a] * (block - lastInterestBlock[a][u]) = 0
      BY <3>2
    <3>5. (0 \div BLOCKS_PER_YEAR) = 0 /\ (0 \div PRECISION) = 0
      OBVIOUS
    <3>6. Interest(a, u)' = 0
      BY <3>3, <3>4, <3>5
    <3> QED
      BY <1>2, <3>1, <3>2, <3>6
  <2> QED
    BY <2>2, <2>3
<1> QED
  BY <1>3, <1>4, <1>5, <1>6 DEF OInv, InterestBounded

LEMMA PriceMovesKeepsInv ==
  ASSUME OInv, NEW a \in Assets, NEW p \in Prices, PriceMoves(a, p)
  PROVE  OInv'
<1>0. /\ OracleTypeOK /\ TotalsMatch /\ DepositsCovered /\ InterestBounded
      /\ UnlistedDebtFree
      /\ UNCHANGED <<bal, listing, deposits, debts, block, history>>
      /\ price' = [price EXCEPT ![a] = p] /\ p \in Nat
  BY DEF OInv, PriceMoves
<1>1. /\ bal' = bal /\ totalDeposited' = totalDeposited /\ deposited' = deposited
      /\ totalBorrowed' = totalBorrowed /\ borrowed' = borrowed
      /\ lastInterestBlock' = lastInterestBlock /\ block' = block
      /\ ceiling' = ceiling /\ writtenOff' = writtenOff
      /\ assetCount' = assetCount /\ baseRate' = baseRate
  BY <1>0 DEF deposits, debts, history, listing
<1>2. price' \in [Assets -> Nat]
  BY <1>0 DEF OracleTypeOK
<1>3. OracleTypeOK'
  BY <1>0, <1>1, <1>2 DEF OracleTypeOK
<1> QED
  BY <1>0, <1>1, <1>3
     DEF OInv, TotalsMatch, DepositsCovered, InterestBounded, UnlistedDebtFree, Listed, Interest

LEMMA TokensMoveKeepsInv ==
  ASSUME OInv, NEW a \in Assets, TokensMove(a)
  PROVE  OInv'
<1>0. /\ OracleTypeOK /\ TotalsMatch /\ DepositsCovered /\ InterestBounded
      /\ UnlistedDebtFree
      /\ UNCHANGED <<listing, deposits, debts, price, block, history>>
  BY DEF OInv, TokensMove
<1>1. /\ price' = price /\ totalDeposited' = totalDeposited /\ deposited' = deposited
      /\ totalBorrowed' = totalBorrowed /\ borrowed' = borrowed
      /\ lastInterestBlock' = lastInterestBlock /\ block' = block
      /\ ceiling' = ceiling /\ writtenOff' = writtenOff
      /\ assetCount' = assetCount /\ baseRate' = baseRate
  BY <1>0 DEF deposits, debts, history, listing
<1>2. PICK l \in LedgerSteps(bal[a], Accounts \ {OracleAddr}) : bal' = [bal EXCEPT ![a] = l]
  BY DEF TokensMove
<1>3. l \in [Accounts -> Nat] /\ l[OracleAddr] >= bal[a][OracleAddr]
  <2>1. bal[a] \in [Accounts -> Nat]
    BY <1>0, OracleNumbers
  <2> QED
    BY <1>2, <2>1, LedgerStepsFacts
<1>4. /\ bal' \in [Assets -> [Accounts -> Nat]] /\ bal'[a] = l
      /\ \A x \in Assets : x # a => bal'[x] = bal[x]
  BY <1>0, <1>2, <1>3 DEF OracleTypeOK
<1>5. OracleTypeOK'
  BY <1>0, <1>1, <1>4 DEF OracleTypeOK
<1>6. ASSUME NEW x \in Assets
      PROVE  bal'[x][OracleAddr] + totalBorrowed[x] + writtenOff[x] >= totalDeposited[x]
  <2>1. /\ bal[x][OracleAddr] \in Nat /\ totalBorrowed[x] \in Nat /\ writtenOff[x] \in Int
        /\ totalDeposited[x] \in Nat
        /\ bal[x][OracleAddr] + totalBorrowed[x] + writtenOff[x] >= totalDeposited[x]
    BY <1>0, OracleNumbers DEF DepositsCovered
  <2>2. bal'[x][OracleAddr] \in Nat /\ bal'[x][OracleAddr] >= bal[x][OracleAddr]
    <3>1. CASE x = a
      <4>1. l[OracleAddr] \in Nat
        BY <1>3
      <4> QED
        BY <1>3, <1>4, <3>1, <4>1
    <3>2. CASE x # a
      BY <1>4, <2>1, <3>2
    <3> QED
      BY <3>1, <3>2
  <2> QED
    BY <2>1, <2>2
<1>7. DepositsCovered'
  BY <1>1, <1>6 DEF DepositsCovered
<1> QED
  BY <1>0, <1>1, <1>5, <1>7
     DEF OInv, TotalsMatch, InterestBounded, UnlistedDebtFree, Listed, Interest

LEMMA TickKeepsInv ==
  ASSUME OInv, Tick
  PROVE  OInv'
<1>0. /\ OracleTypeOK /\ TotalsMatch /\ DepositsCovered /\ InterestBounded
      /\ UnlistedDebtFree
      /\ UNCHANGED <<bal, listing, deposits, debts, price, writtenOff>>
      /\ block \in Nat /\ block' = block + 1
  BY DEF OInv, Tick, OracleTypeOK
<1>1. /\ bal' = bal /\ totalDeposited' = totalDeposited /\ deposited' = deposited
      /\ totalBorrowed' = totalBorrowed /\ borrowed' = borrowed
      /\ lastInterestBlock' = lastInterestBlock /\ price' = price
      /\ writtenOff' = writtenOff
      /\ assetCount' = assetCount /\ baseRate' = baseRate
  BY <1>0 DEF deposits, debts, listing
<1> DEFINE Y == BLOCKS_PER_YEAR
           P == PRECISION
           R(a, u) == RoundedUp(ceiling[a][u] * baseRate[a], Y * P)
<1>2. Y * P \in Nat \ {0} /\ Y \in Nat \ {0} /\ P \in Nat \ {0}
  OBVIOUS
<1>3. ceiling' = [a \in Assets |-> [u \in Users |-> ceiling[a][u] + R(a, u)]]
  BY DEF Tick
<1>4. ASSUME NEW a \in Assets, NEW u \in Users
      PROVE  /\ R(a, u) \in Nat /\ ceiling[a][u] \in Nat
             /\ ceiling'[a][u] = ceiling[a][u] + R(a, u)
             /\ ceiling[a][u] * baseRate[a] <= (Y * P) * R(a, u)
  <2>1. ceiling[a][u] \in Nat /\ baseRate[a] \in Nat
    BY <1>0, OracleNumbers
  <2>2. ceiling[a][u] * baseRate[a] \in Nat
    BY <2>1
  <2> DEFINE n == ceiling[a][u] * baseRate[a]
             d == Y * P
  <2> HIDE DEF n, d
  <2>3. RoundedUp(n, d) \in Nat /\ n <= d * RoundedUp(n, d)
    BY <1>2, <2>2, RoundedUpFacts DEF n, d
  <2> QED
    BY <1>3, <2>1, <2>3 DEF n, d
<1> HIDE DEF R
<1>5. ASSUME NEW a \in Assets, NEW u \in Users
      PROVE  (borrowed[a][u] + Interest(a, u) <= ceiling[a][u])'
  <2> DEFINE e == borrowed[a][u]
             r == baseRate[a]
             k == block - lastInterestBlock[a][u]
             c == ceiling[a][u]
             i == Interest(a, u)
             j == Interest(a, u)'
             f == R(a, u)
  <2>1. e \in Nat /\ r \in Nat /\ c \in Nat /\ k \in Nat /\ i \in Nat /\ f \in Nat
    <3>1. /\ e \in Nat /\ r \in Nat /\ c \in Nat /\ i \in Nat
          /\ lastInterestBlock[a] \in [Users -> 0..block]
      BY <1>0, OracleNumbers
    <3>2. lastInterestBlock[a][u] \in 0..block
      BY <3>1
    <3> QED
      BY <1>0, <1>4, <3>1, <3>2
  <2>2. e + i <= c
    BY <1>0 DEF InterestBounded
  <2>3. c * r <= (Y * P) * f /\ ceiling'[a][u] = c + f /\ borrowed'[a][u] = e
    BY <1>1, <1>4
  <2>4. i = ((e * r * k) \div Y) \div P
    BY DEF Interest
  <2>5. j = ((e * r * (k + 1)) \div Y) \div P
    <3>1. block' - lastInterestBlock[a][u] = k + 1
      <4>1. lastInterestBlock[a][u] \in Int
        BY <1>0 DEF OracleTypeOK
      <4> QED
        BY <1>0, <4>1
    <3> QED
      BY <1>1, <3>1 DEF Interest
  <2> HIDE DEF e, r, k, c, i, j, f, Y, P
  <2>6. e * r * (k + 1) = e * r * k + e * r /\ e * r * k \in Nat /\ e * r \in Nat
    BY <2>1
  <2>7. e * r <= (Y * P) * f
    <3>1. e <= c
      BY <2>1, <2>2
    <3>2. e * r <= c * r
      BY <2>1, <3>1, TimesMonotone
    <3>3. c * r \in Nat /\ (Y * P) * f \in Nat
      BY <1>2, <2>1
    <3> QED
      BY <2>3, <2>6, <3>2, <3>3
  <2>8. j <= i + f
    <3> DEFINE x == e * r * k
               y == e * r
    <3>1. x \in Nat /\ y \in Nat /\ y <= (Y * P) * f
      BY <2>6, <2>7
    <3>2. j = ((x + y) \div Y) \div P /\ i = (x \div Y) \div P
      BY <2>4, <2>5, <2>6
    <3> HIDE DEF x, y
    <3>3. ((x + y) \div Y) \div P <= (x \div Y) \div P + f
      BY <1>2, <2>1, <3>1, InterestOfOneMore
    <3> QED
      BY <3>2, <3>3
  <2>9. j \in Nat
    <3>1. e * r * (k + 1) \in Nat
      BY <2>1
    <3>2. (e * r * (k + 1)) \div Y \in Nat
      BY <1>2, <3>1, DivFacts
    <3> QED
      BY <1>2, <2>5, <3>2, DivFacts
  <2>10. e + j <= c + f
    BY <2>1, <2>2, <2>8, <2>9
  <2> QED
    BY <2>3, <2>10 DEF e, j, c, f
<1>6. OracleTypeOK'
  <2>1. ceiling' \in [Assets -> [Users -> Nat]]
    <3>1. ASSUME NEW a \in Assets, NEW u \in Users PROVE ceiling[a][u] + R(a, u) \in Nat
      BY <1>4
    <3> QED
      BY <1>3, <3>1
  <2>2. lastInterestBlock' \in [Assets -> [Users -> 0..block']]
    <3>1. ASSUME NEW a \in Assets
          PROVE  lastInterestBlock[a] \in [Users -> 0..block']
      <4>1. lastInterestBlock[a] \in [Users -> 0..block]
        BY <1>0, OracleNumbers
      <4>2. 0..block \subseteq 0..block'
        BY <1>0
      <4> QED
        BY <4>1, <4>2
    <3>2. lastInterestBlock \in [Assets -> [Users -> 0..block]]
      BY <1>0 DEF OracleTypeOK
    <3> QED
      BY <1>1, <3>1, <3>2
  <2>3. block' \in Nat
    BY <1>0
  <2> QED
    BY <1>0, <1>1, <2>1, <2>2, <2>3 DEF OracleTypeOK
<1> QED
  BY <1>0, <1>1, <1>5, <1>6
     DEF OInv, TotalsMatch, DepositsCovered, InterestBounded, UnlistedDebtFree, Listed

-----------------------------------------------------------------------------
LEMMA OracleNextInv == OInv /\ [Next]_oracleVars => OInv'
<1> SUFFICES ASSUME OInv, [Next]_oracleVars PROVE OInv'
  OBVIOUS
<1>1. ASSUME NEW rate \in BaseRates, AddAsset(rate) PROVE OInv'
  BY <1>1, AddAssetKeepsInv
<1>2. ASSUME NEW a \in Assets, NEW p \in Prices, PriceMoves(a, p) PROVE OInv'
  BY <1>2, PriceMovesKeepsInv
<1>3. ASSUME NEW a \in Assets, TokensMove(a) PROVE OInv'
  BY <1>3, TokensMoveKeepsInv
<1>4. ASSUME NEW u \in Users, NEW a \in Assets, NEW amount \in Amounts,
             Deposit(u, a, amount)
      PROVE  OInv'
  <2>1. AccountStep(u)
    BY <1>4, DepositStep
  <2> QED
    BY <2>1, AccountStepKeepsInv
<1>5. ASSUME NEW u \in Users, NEW a \in Assets, NEW amount \in Amounts,
             Borrow(u, a, amount)
      PROVE  OInv'
  <2>1. AccountStep(u)
    BY <1>5, BorrowStep
  <2> QED
    BY <2>1, AccountStepKeepsInv
<1>6. ASSUME NEW u \in Users, NEW a \in Assets, NEW amount \in Amounts,
             NEW l \in Users, NEW c \in Assets, Liquidate(l, u, a, amount, c)
      PROVE  OInv'
  <2>1. AccountStep(u)
    BY <1>6, LiquidateStep
  <2> QED
    BY <2>1, AccountStepKeepsInv
<1>7. CASE Tick
  BY <1>7, TickKeepsInv
<1>8. CASE UNCHANGED oracleVars
  BY <1>8 DEF OInv, OracleTypeOK, TotalsMatch, DepositsCovered, InterestBounded,
              UnlistedDebtFree, Listed, Interest, oracleVars, listing, deposits, debts, history
<1> QED
  BY <1>1, <1>2, <1>3, <1>4, <1>5, <1>6, <1>7, <1>8 DEF Next

LEMMA OracleInvariant == Spec => []OInv
BY OracleInitInv, OracleNextInv, PTL DEF Spec

(* Type correctness: whatever the prices and rates, no total, deposit or   *)
(* debt of Oracle.sol goes negative, so none of its subtractions reverts.  *)
THEOREM OracleTyped == Spec => []OracleTypeOK
<1>1. OInv => OracleTypeOK
  BY DEF OInv
<1> QED
  BY <1>1, OracleInvariant, PTL

(* The totals that the contract keeps per asset are the sums of what it    *)
(* keeps per user, for any number of users and assets.                     *)
THEOREM OracleTotals == Spec => []TotalsMatch
<1>1. OInv => TotalsMatch
  BY DEF OInv
<1> QED
  BY <1>1, OracleInvariant, PTL

(* Deposits are there in tokens or lent, but for what liquidations wrote   *)
(* off, for any prices and any rounding.                                   *)
THEOREM OracleCovered == Spec => []DepositsCovered
<1>1. OInv => DepositsCovered
  BY DEF OInv
<1> QED
  BY <1>1, OracleInvariant, PTL

(* No debt outgrows what it would be compounded every block, for any rates *)
(* and any pattern of calls.                                               *)
THEOREM OracleInterest == Spec => []InterestBounded
<1>1. OInv => InterestBounded
  BY DEF OInv
<1> QED
  BY <1>1, OracleInvariant, PTL

-----------------------------------------------------------------------------
HIDE OracleAssumption DEF Assets

(* What a liquidation cancels beyond its payment: the rounding of two      *)
(* divisions, when the collateral is enough.                               *)
LEMMA LossOfRounding ==
  ASSUME NEW pa \in Nat \ {0}, NEW pc \in Nat \ {0}, NEW actual \in Nat
  PROVE  LET real == (actual * pa) \div pc
             worth == (real * pc) \div pa
         IN  worth \in Nat /\ (actual - worth) * pa < pa + pc
<1> DEFINE n == actual * pa
           real == n \div pc
           m == real * pc
           worth == m \div pa
<1>1. n \in Nat
  OBVIOUS
<1>2. real \in Nat /\ pc * real <= n /\ n < pc * real + pc
  BY <1>1, DivFacts
<1> HIDE DEF n, real
<1>3. m \in Nat /\ m = pc * real
  BY <1>2
<1> HIDE DEF m
<1>4. worth \in Nat /\ m < pa * worth + pa
  BY <1>3, DivFacts
<1> HIDE DEF worth
<1>5. (actual - worth) * pa = n - pa * worth /\ pa * worth \in Int
  BY <1>4 DEF n
<1>6. (actual - worth) * pa < pa + pc
  BY <1>1, <1>2, <1>3, <1>4, <1>5
<1> QED
  BY <1>4, <1>6 DEF worth, m, real, n

LEMMA LiquidationLoss ==
  ASSUME OInv, NEW l \in Users, NEW u \in Users, NEW a \in Assets, NEW c \in Assets,
         NEW amount \in Nat, Liquidate(l, u, a, amount, c), NEW x \in Assets,
         writtenOff'[x] - writtenOff[x] > 0
  PROVE  /\ x = a /\ a # c /\ borrowed'[a][u] < borrowed[a][u] + Interest(a, u)
         /\ \/ deposited'[c][u] = 0
            \/ (writtenOff'[a] - writtenOff[a]) * price[a] < price[a] + price[c]
<1> DEFINE as == {a, c}
           b == Updated(u, as)
           t == TotalUpdated(u, as)
           s == Stamped(u, as)
           held == deposited[c][u]
           actual == Smaller(amount, b[a][u])
           real == Real(actual, a, c)
           seized == Seized(actual, a, c, held)
           payment == Payment(actual, a, c, held)
           pa == price[a]
           pc == price[c]
<1>1. /\ OracleTypeOK /\ a # c /\ pa # 0 /\ pc # 0
      /\ borrowed' = Added(b, a, u, -actual)
      /\ deposited' = Added(deposited, c, u, -seized)
      /\ writtenOff' = AddedTo(writtenOff, a, actual - payment)
  BY DEF OInv, Liquidate
<1>2. b \in [Assets -> [Users -> Nat]] /\ b[a][u] = borrowed[a][u] + Interest(a, u)
  <2>1. UpdatedBy(b, t, s, u, as)
    BY <1>1, UpdateShape
  <2> QED
    BY <2>1 DEF UpdatedBy, UpdatedAt
<1>3. /\ held \in Nat /\ pa \in Nat \ {0} /\ pc \in Nat \ {0} /\ b[a][u] \in Nat
      /\ deposited \in [Assets -> [Users -> Int]] /\ writtenOff \in [Assets -> Int]
      /\ b \in [Assets -> [Users -> Int]]
  <2>1. held \in Nat /\ pa \in Nat \ {0} /\ pc \in Nat \ {0}
    BY <1>1, OracleNumbers
  <2>2. deposited \in [Assets -> [Users -> Int]] /\ writtenOff \in [Assets -> Int]
    BY <1>1 DEF OracleTypeOK
  <2> HIDE DEF b
  <2> QED
    BY <1>2, <2>1, <2>2
<1>4. /\ actual \in Nat /\ seized \in Nat /\ payment \in Nat
  BY <1>3, LiquidationAmounts
<1>5. ASSUME real <= held PROVE payment = (real * pc) \div pa /\ real = (actual * pa) \div pc
  <2>1. real = (actual * pa) \div pc /\ real \in Nat
    <3>1. actual * pa \in Nat
      BY <1>3, <1>4
    <3> QED
      BY <1>3, <3>1, DivFacts DEF Real
  <2>2. ~(real > held) /\ seized = real
    BY <1>3, <1>5, <2>1 DEF Seized, Smaller
  <2> QED
    BY <2>1, <2>2 DEF Payment
<1>6. ASSUME real > held PROVE seized = held
  <2>1. ~(real <= held)
    <3>1. real \in Nat
      <4>1. actual * pa \in Nat
        BY <1>3, <1>4
      <4> QED
        BY <1>3, <4>1, DivFacts DEF Real
    <3> QED
      BY <1>3, <1>6, <3>1
  <2> QED
    BY <2>1 DEF Seized, Smaller
<1>7. real \in Nat
  <2>1. actual * pa \in Nat
    BY <1>3, <1>4
  <2> QED
    BY <1>3, <2>1, DivFacts DEF Real
<1> HIDE DEF b, actual, real, seized, payment, held
<1>8. /\ borrowed'[a][u] = b[a][u] - actual
      /\ deposited'[c][u] = held - seized
  <2>1. AddedAt(Added(b, a, u, -actual), b, a, u, -actual)
    <3>1. -actual \in Int
      BY <1>4
    <3> QED
      BY <1>3, <3>1, AddedFacts
  <2>2. AddedAt(Added(deposited, c, u, -seized), deposited, c, u, -seized)
    BY <1>3, <1>4, AddedFacts
  <2> QED
    BY <1>1, <1>3, <1>4, <2>1, <2>2 DEF AddedAt, held
<1>9. /\ writtenOff'[a] = writtenOff[a] + (actual - payment)
      /\ \A y \in Assets : y # a => writtenOff'[y] = writtenOff[y]
  <2>1. AddedToAt(AddedTo(writtenOff, a, actual - payment), writtenOff, a, actual - payment)
    BY <1>3, <1>4, AddedToFacts
  <2> QED
    BY <1>1, <2>1 DEF AddedToAt
<1>10. x = a
  BY <1>3, <1>9
<1>11. writtenOff'[a] - writtenOff[a] = actual - payment /\ actual - payment > 0
  BY <1>3, <1>4, <1>9, <1>10
<1>12. borrowed'[a][u] < b[a][u]
  BY <1>3, <1>4, <1>8, <1>11
<1>13. CASE real > held
  <2>1. deposited'[c][u] = 0
    BY <1>3, <1>6, <1>8, <1>13
  <2> QED
    BY <1>1, <1>2, <1>10, <1>12, <2>1
<1>14. CASE real <= held
  <2>1. (actual - payment) * pa < pa + pc
    BY <1>3, <1>4, <1>5, <1>14, LossOfRounding
  <2> QED
    BY <1>1, <1>2, <1>10, <1>11, <1>12, <2>1
<1> QED
  BY <1>3, <1>7, <1>13, <1>14

(* A liquidation costs the depositors of the borrowed asset no more than   *)
(* the rounding of two divisions, less than a unit of each asset in value, *)
(* unless the borrower is left with no collateral in the other             *)
(* (src/src/Oracle.sol:207-216).                                           *)
THEOREM OracleLoss == Spec => LossIsRoundingOrBadDebt
<1> DEFINE Loss(a) == writtenOff'[a] - writtenOff[a]
           Excused(a) ==
             \E c \in Assets \ {a}, u \in Users :
               /\ deposited'[c][u] = 0 \/ Loss(a) * price[a] < price[a] + price[c]
               /\ borrowed'[a][u] < borrowed[a][u] + Interest(a, u)
<1>1. ASSUME OInv, [Next]_oracleVars
      PROVE  [\A a \in Assets : Loss(a) > 0 => Excused(a)]_oracleVars
  <2>1. ASSUME NEW l \in Users, NEW u \in Users, NEW a \in Assets, NEW c \in Assets,
               NEW amount \in Amounts, Liquidate(l, u, a, amount, c),
               NEW x \in Assets, Loss(x) > 0
        PROVE  Excused(x)
    <3>1. amount \in Nat
      BY OracleAssumption
    <3>2. /\ x = a /\ a # c /\ borrowed'[a][u] < borrowed[a][u] + Interest(a, u)
          /\ deposited'[c][u] = 0 \/ Loss(a) * price[a] < price[a] + price[c]
      BY <1>1, <2>1, <3>1, LiquidationLoss
    <3> QED
      BY <3>2
  <2>2. ASSUME writtenOff' = writtenOff, NEW x \in Assets, Loss(x) > 0
        PROVE  FALSE
    <3>1. writtenOff[x] \in Int
      BY <1>1 DEF OInv, OracleTypeOK
    <3> QED
      BY <2>2, <3>1
  <2>3. \/ writtenOff' = writtenOff
        \/ \E l \in Users, u \in Users, a \in Assets, c \in Assets, amount \in Amounts :
             Liquidate(l, u, a, amount, c)
    <3>1. CASE UNCHANGED oracleVars
      BY <3>1 DEF oracleVars, history
    <3>2. CASE \E rate \in BaseRates : AddAsset(rate)
      BY <3>2, Zenon DEF AddAsset, history
    <3>3. CASE \E a \in Assets : (\E p \in Prices : PriceMoves(a, p)) \/ TokensMove(a)
      BY <3>3, Zenon DEF PriceMoves, TokensMove, history
    <3>4. CASE \E u \in Users, a \in Assets, amount \in Amounts :
                 \/ Deposit(u, a, amount)
                 \/ Borrow(u, a, amount)
                 \/ \E l \in Users, c \in Assets : Liquidate(l, u, a, amount, c)
      <4>1. PICK u \in Users, a \in Assets, amount \in Amounts :
                 \/ Deposit(u, a, amount)
                 \/ Borrow(u, a, amount)
                 \/ \E l \in Users, c \in Assets : Liquidate(l, u, a, amount, c)
        BY <3>4
      <4>2. CASE Deposit(u, a, amount)
        BY <4>2, Zenon DEF Deposit, history
      <4>3. CASE Borrow(u, a, amount)
        BY <4>3, Zenon DEF Borrow
      <4>4. CASE \E l \in Users, c \in Assets : Liquidate(l, u, a, amount, c)
        BY <4>4, Zenon
      <4> QED
        BY <4>1, <4>2, <4>3, <4>4
    <3>5. CASE Tick
      BY <3>5 DEF Tick
    <3> QED
      BY <1>1, <3>1, <3>2, <3>3, <3>4, <3>5, Zenon DEF Next
  <2> HIDE DEF Loss, Excused
  <2> QED
    BY <2>1, <2>2, <2>3
<1> QED
  BY <1>1, OracleInvariant, PTL DEF Spec, LossIsRoundingOrBadDebt
=============================================================================
