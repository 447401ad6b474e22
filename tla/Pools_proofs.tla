---------------------------- MODULE Pools_proofs ----------------------------
(***************************************************************************)
(* Proofs about the two contracts that keep reserves for shares or swaps.  *)
(*                                                                         *)
(* First Yield.tla, for any ticks, scales and width of its arithmetic.     *)
(* YieldInv is inductive: beside the invariants of the runs it says that   *)
(* no fees are pending where there is no liquidity to earn them.           *)
(*                                                                         *)
(* Then Pair.tla, for any accounts, reserves and scales.  PInv is          *)
(* inductive: beside the invariants of the runs it says what the locals of *)
(* an open swap still know of the storage.                                 *)
(***************************************************************************)
EXTENDS Pair, Yield, Ledger_proofs

YieldTypeOK ==
  /\ held \in [Tokens -> Nat] /\ accrued \in [Tokens -> 0..(Modulus - 1)]
  /\ protocolFee \in 0..(FEE_UNIT - 1) /\ totalSupply \in Nat
  /\ base \in Ranges /\ tick \in MIN_TICK..MAX_TICK
  /\ liquidity \in [Ranges -> Nat]
  /\ owed \in [Ranges -> [Tokens -> Nat]] /\ pending \in [Ranges -> [Tokens -> Nat]]
  /\ overdrawn \in BOOLEAN

\* No fees are pending where there is no liquidity to earn them.
PendingIsEarned == liquidity[base] = 0 => pending[base] = Nothing

YieldInv == YieldTypeOK /\ NothingStranded /\ PendingIsEarned /\ FeesStayCovered

(* Arithmetic that wraps.                                                  *)
LEMMA Wrapped ==
  ASSUME NEW x \in Int
  PROVE  /\ x % Modulus \in 0..(Modulus - 1)
         /\ x >= 0 => x % Modulus <= x
         /\ x \in 0..(Modulus - 1) => x % Modulus = x
<1>1. Modulus \in Nat \ {0}
  BY YieldAssumption
<1> QED
  BY <1>1

(* A share of an amount.                                                   *)
LEMMA ShareOf ==
  ASSUME NEW n \in Nat, NEW k \in Nat, NEW d \in Nat \ {0}
  PROVE  /\ (n * k) \div d \in Nat /\ n * k \in Nat
         /\ k <= d => (n * k) \div d <= n
<1>1. n * k \in Nat
  OBVIOUS
<1> DEFINE m == n * k
           q == m \div d
<1>2. q \in Nat /\ q * d <= m /\ m < q * d + d
  BY <1>1, Down
<1> HIDE DEF q, m
<1>3. ASSUME k <= d PROVE q <= n
  <2>1. m <= n * d
    BY <1>3, ProductOrder DEF m
  <2>2. n * d < (n + 1) * d
    OBVIOUS
  <2>3. q * d < (n + 1) * d
    BY <1>1, <1>2, <2>1, <2>2 DEF m
  <2>4. q < n + 1
    BY <1>2, <2>3, ProductCancel
  <2> QED
    BY <1>2, <2>4
<1> QED
  BY <1>1, <1>2, <1>3 DEF q, m

LEMMA UpTyped ==
  ASSUME NEW n \in Nat, NEW d \in Nat \ {0}
  PROVE  /\ RoundedUp(n, d) \in Nat /\ n <= RoundedUp(n, d) * d
         /\ \A b \in Nat : n <= b * d => RoundedUp(n, d) <= b
<1> DEFINE q == RoundedUp(n, d)
<1>1. n + d - 1 \in Nat
  OBVIOUS
<1>2. q \in Nat /\ q * d <= n + d - 1 /\ n + d - 1 < q * d + d
  BY <1>1, Down DEF RoundedUp
<1> HIDE DEF q
<1>3. ASSUME NEW b \in Nat, n <= b * d PROVE q <= b
  <2>1. (b + 1) * d = b * d + d /\ b * d \in Nat /\ q * d \in Nat
    BY <1>2
  <2>2. q * d < (b + 1) * d
    BY <1>2, <1>3, <2>1
  <2>3. q < b + 1
    BY <1>2, <2>2, ProductCancel
  <2> QED
    BY <1>2, <2>3
<1> QED
  BY <1>2, <1>3 DEF q

(* What a position holds.                                                  *)
LEMMA WeightTyped ==
  ASSUME NEW r \in Ranges, NEW t \in Tokens, tick \in MIN_TICK..MAX_TICK
  PROVE  /\ Weight(r, t) \in Nat
         /\ r[1] < r[2] => Weight(r, 0) > 0 \/ Weight(r, 1) > 0
<1>1. r[1] \in Int /\ r[2] \in Int /\ r[1] <= r[2] /\ tick \in Int
  BY YieldAssumption DEF Ranges
<1> QED
  BY <1>1 DEF Weight, Larger, Smaller, Tokens

LEMMA ContentTyped ==
  ASSUME NEW r \in Ranges, NEW l \in Nat, NEW t \in Tokens, tick \in MIN_TICK..MAX_TICK
  PROVE  Content(r, l, t) \in Nat /\ Cost(r, l, t) \in Nat
<1>1. Weight(r, t) \in Nat /\ SCALE \in Nat \ {0}
  BY WeightTyped, YieldAssumption
<1>2. l * Weight(r, t) \in Nat
  BY <1>1
<1> QED
  BY <1>1, <1>2, Down, UpTyped DEF Content, Cost

(* The liquidity that a vault can mint costs it no more than it has.       *)
LEMMA Affordable ==
  ASSUME NEW r \in Ranges, r[1] < r[2], tick \in MIN_TICK..MAX_TICK, NEW b \in [Tokens -> Nat]
  PROVE  /\ LiquidityFor(r, b) \in Nat
         /\ \A t \in Tokens : Cost(r, LiquidityFor(r, b), t) <= b[t]
<1> DEFINE w(t) == Weight(r, t)
           Of(t) == (b[t] * SCALE) \div w(t)
           l == LiquidityFor(r, b)
<1>1. /\ \A t \in Tokens : w(t) \in Nat /\ b[t] \in Nat /\ b[t] * SCALE \in Nat
      /\ w(0) > 0 \/ w(1) > 0
      /\ SCALE \in Nat \ {0}
  BY WeightTyped, YieldAssumption DEF Tokens
<1>2. l = IF w(0) = 0 THEN Of(1) ELSE IF w(1) = 0 THEN Of(0) ELSE Smaller(Of(0), Of(1))
  BY DEF LiquidityFor
<1>3. ASSUME NEW t \in Tokens, w(t) > 0
      PROVE  Of(t) \in Nat /\ Of(t) * w(t) <= b[t] * SCALE
  BY <1>1, <1>3, Down
<1> HIDE DEF w, l, Of
<1>4. l \in Nat /\ \A t \in Tokens : w(t) > 0 => l <= Of(t)
  <2>1. 0 \in Tokens /\ 1 \in Tokens /\ \A t \in Tokens : t = 0 \/ t = 1
    BY DEF Tokens
  <2> QED
    BY <1>1, <1>2, <1>3, <2>1 DEF Smaller
<1>5. ASSUME NEW t \in Tokens PROVE l * w(t) <= b[t] * SCALE /\ l * w(t) \in Nat
  <2>1. w(t) \in Nat /\ b[t] * SCALE \in Nat
    BY <1>1
  <2>2. CASE w(t) = 0
    BY <1>4, <2>1, <2>2
  <2>3. CASE w(t) > 0
    <3>1. l <= Of(t) /\ Of(t) \in Nat /\ Of(t) * w(t) <= b[t] * SCALE
      BY <1>3, <1>4, <2>3
    <3>2. l * w(t) <= Of(t) * w(t)
      BY <1>4, <2>1, <3>1, ProductOrder
    <3>3. l * w(t) \in Nat /\ Of(t) * w(t) \in Nat
      BY <1>4, <2>1, <3>1
    <3> QED
      BY <2>1, <3>1, <3>2, <3>3
  <2> QED
    BY <2>1, <2>2, <2>3
<1>6. ASSUME NEW t \in Tokens PROVE RoundedUp(l * w(t), SCALE) <= b[t]
  BY <1>1, <1>5, UpTyped
<1> QED
  BY <1>4, <1>6 DEF Cost, w, l

(* The new range is one, and not empty.                                    *)
LEMMA TruncatedFacts ==
  ASSUME NEW x \in Int
  PROVE  /\ Truncated(x) \in Int
         /\ x >= 0 => Truncated(x) <= x /\ x < Truncated(x) + tickSpacing /\ Truncated(x) >= 0
         /\ x < 0 => Truncated(x) >= x /\ x > Truncated(x) - tickSpacing /\ Truncated(x) <= 0
<1>0. tickSpacing \in Nat \ {0}
  BY YieldAssumption
<1>1. CASE x >= 0
  <2>1. /\ x \div tickSpacing \in Nat /\ (x \div tickSpacing) * tickSpacing <= x
        /\ x < (x \div tickSpacing) * tickSpacing + tickSpacing
    BY <1>0, <1>1, Down
  <2>2. (x \div tickSpacing) * tickSpacing \in Nat
    BY <1>0, <2>1
  <2> QED
    BY <1>1, <2>1, <2>2 DEF Truncated
<1>2. CASE x < 0
  <2> DEFINE y == -x
             z == (y \div tickSpacing) * tickSpacing
  <2>1. y \in Nat /\ x = -y
    BY <1>2
  <2> HIDE DEF y
  <2>2. y \div tickSpacing \in Nat /\ z <= y /\ y < z + tickSpacing
    BY <1>0, <2>1, Down
  <2>3. z \in Nat
    BY <1>0, <2>2
  <2>4. Truncated(x) = -z
    BY <1>2 DEF Truncated, y, z
  <2> HIDE DEF z
  <2> QED
    BY <1>0, <1>2, <2>1, <2>2, <2>3, <2>4
<1> QED
  BY <1>1, <1>2

LEMMA NewRangeTyped ==
  ASSUME tick \in MIN_TICK..MAX_TICK
  PROVE  NewRange \in Ranges /\ NewRange[1] < NewRange[2]
<1> DEFINE w == WIDTH * tickSpacing
           lo == Truncated(tick - w)
           hi == Truncated(tick + w)
<1>1. /\ tickSpacing \in Nat \ {0} /\ WIDTH \in Nat \ {0} /\ MIN_TICK \in Int /\ MAX_TICK \in Int
      /\ MIN_TICK < 0 /\ 0 < MAX_TICK /\ tick \in Int /\ MIN_TICK <= tick /\ tick <= MAX_TICK
  BY YieldAssumption
<1>2. w \in Nat /\ w >= tickSpacing
  <2>1. 1 * tickSpacing <= WIDTH * tickSpacing
    BY <1>1, ProductOrder
  <2> QED
    BY <1>1, <2>1
<1> HIDE DEF w
<1>3. tick - w \in Int /\ tick + w \in Int
  BY <1>1, <1>2
<1>4. /\ lo \in Int /\ hi \in Int
      /\ tick - w >= 0 => lo <= tick - w /\ tick - w < lo + tickSpacing /\ lo >= 0
      /\ tick - w < 0 => lo >= tick - w /\ tick - w > lo - tickSpacing /\ lo <= 0
      /\ tick + w >= 0 => hi <= tick + w /\ tick + w < hi + tickSpacing /\ hi >= 0
      /\ tick + w < 0 => hi >= tick + w /\ tick + w > hi - tickSpacing /\ hi <= 0
  BY <1>3, TruncatedFacts
<1> HIDE DEF lo, hi
<1>5. lo < hi /\ lo < MAX_TICK /\ MIN_TICK < hi
  BY <1>1, <1>2, <1>4
<1>6. NewRange = <<Larger(lo, MIN_TICK), Smaller(hi, MAX_TICK)>>
  BY DEF NewRange, lo, hi, w
<1>7. /\ Larger(lo, MIN_TICK) \in MIN_TICK..MAX_TICK /\ Smaller(hi, MAX_TICK) \in MIN_TICK..MAX_TICK
      /\ Larger(lo, MIN_TICK) < Smaller(hi, MAX_TICK)
  BY <1>1, <1>4, <1>5 DEF Larger, Smaller
<1> QED
  BY <1>6, <1>7 DEF Ranges

LEMMA BalanceBounds ==
  ASSUME YieldTypeOK, NEW t \in Tokens
  PROVE  /\ Balance(t) \in 0..(Modulus - 1)
         /\ FeesCovered => Balance(t) <= held[t] - accrued[t]
         /\ FeesCovered /\ held[t] < Modulus => Balance(t) = held[t] - accrued[t]
<1>1. held[t] \in Nat /\ accrued[t] \in 0..(Modulus - 1) /\ Modulus \in Nat \ {0}
  BY YieldAssumption DEF YieldTypeOK
<1>2. FeesCovered => accrued[t] <= held[t]
  BY DEF FeesCovered
<1> DEFINE x == held[t] - accrued[t]
<1>3. x \in Int /\ Balance(t) = x % Modulus /\ (FeesCovered => x >= 0)
      /\ (held[t] < Modulus => x < Modulus)
  BY <1>1, <1>2 DEF Balance, Minus
<1> HIDE DEF x
<1>4. /\ x % Modulus \in 0..(Modulus - 1) /\ (x >= 0 => x % Modulus <= x)
      /\ (x \in 0..(Modulus - 1) => x % Modulus = x)
  BY <1>3, Wrapped
<1> QED
  BY <1>1, <1>3, <1>4 DEF x

(* The fees collected are divided between the protocol and the vault.      *)
LEMMA FeesDivided ==
  ASSUME YieldTypeOK, NEW r \in Ranges, NEW l \in Nat, NEW t \in Tokens
  PROVE  /\ Fees(r, l, t) \in Nat /\ ToProtocol(r, l, t) \in Nat /\ ToVault(r, l, t) \in Nat
         /\ ToVault(r, l, t) = Fees(r, l, t) - ToProtocol(r, l, t)
         /\ Collected(r, l, t) = Content(r, l, t) + Fees(r, l, t) /\ Content(r, l, t) \in Nat
<1>1. owed[r][t] \in Nat /\ pending[r][t] \in Nat
  BY DEF YieldTypeOK
<1>2. Fees(r, l, t) \in Nat
  BY <1>1 DEF Fees
<1>3. FEE_UNIT \in Nat \ {0} /\ protocolFee \in Nat /\ protocolFee <= FEE_UNIT
  BY YieldAssumption DEF YieldTypeOK
<1>4. ToProtocol(r, l, t) \in Nat /\ ToProtocol(r, l, t) <= Fees(r, l, t)
  BY <1>2, <1>3, ShareOf DEF ToProtocol
<1>5. Content(r, l, t) \in Nat
  BY ContentTyped DEF YieldTypeOK
<1> QED
  BY <1>2, <1>4, <1>5 DEF ToVault, Collected

(* What is left to the positions.                                          *)
LEMMA PoolAfter ==
  ASSUME YieldTypeOK, NEW r \in Ranges, NEW l \in Nat
  PROVE  /\ Emptied(owed, r) \in [Ranges -> [Tokens -> Nat]]
         /\ PendingAfter(r, l) \in [Ranges -> [Tokens -> Nat]]
         /\ Emptied(owed, r)[r] = Nothing
         /\ PendingAfter(r, l)[r] = IF l > 0 THEN Nothing ELSE pending[r]
         /\ \A s \in Ranges \ {r} :
              Emptied(owed, r)[s] = owed[s] /\ PendingAfter(r, l)[s] = pending[s]
<1>1. Nothing \in [Tokens -> Nat]
  BY DEF Nothing
<1> QED
  BY <1>1 DEF Emptied, PendingAfter, YieldTypeOK

LEMMA PokedTyped ==
  ASSUME YieldTypeOK
  PROVE  /\ Poked \in [Tokens -> Nat]
         /\ \A t \in Tokens : owed[base][t] <= Poked[t] /\ Poked[t] <= owed[base][t] + pending[base][t]
<1>1. \A t \in Tokens : owed[base][t] \in Nat /\ pending[base][t] \in Nat
  BY DEF YieldTypeOK
<1>2. owed[base] \in [Tokens -> Nat]
  BY DEF YieldTypeOK
<1> QED
  BY <1>1, <1>2 DEF Poked

LEMMA YieldInitInv == YieldInit => YieldInv
<1> SUFFICES ASSUME YieldInit PROVE YieldInv
  OBVIOUS
<1>1. <<0, 0>> \in Ranges
  BY YieldAssumption DEF Ranges
<1>2. Nothing \in [Tokens -> Nat] /\ Nothing \in [Tokens -> 0..(Modulus - 1)]
      /\ \A t \in Tokens : Nothing[t] = 0
  BY YieldAssumption DEF Nothing
<1>3. YieldTypeOK
  BY <1>1, <1>2, YieldAssumption DEF YieldInit, YieldTypeOK
<1>4. NothingStranded /\ PendingIsEarned
  BY <1>1 DEF YieldInit, NothingStranded, PendingIsEarned
<1>5. FeesStayCovered
  BY <1>2 DEF YieldInit, FeesStayCovered, FeesCovered
<1> QED
  BY <1>3, <1>4, <1>5 DEF YieldInv

(* An operation of the vault that looks only at its base range.            *)
LEMMA BaseOnly ==
  ASSUME YieldTypeOK, NothingStranded, base' = base,
         \A r \in Ranges \ {base} :
           liquidity'[r] = liquidity[r] /\ owed'[r] = owed[r] /\ pending'[r] = pending[r]
  PROVE  NothingStranded'
BY DEF NothingStranded

LEMMA PayInInv ==
  ASSUME YieldInv, NEW paid \in [Tokens -> Nat], NEW shares, PayIn(paid, shares)
  PROVE  YieldInv'
<1>1. /\ held' = [t \in Tokens |-> held[t] + paid[t]] /\ totalSupply' = totalSupply + shares
      /\ owed' = [owed EXCEPT ![base] = Poked] /\ pending' = PendingAfter(base, liquidity[base])
      /\ accrued' = accrued /\ protocolFee' = protocolFee /\ base' = base /\ tick' = tick
      /\ liquidity' = liquidity /\ overdrawn' = overdrawn /\ shares \in Nat
  BY DEF PayIn
<1>2. YieldTypeOK /\ base \in Ranges /\ liquidity[base] \in Nat
  BY DEF YieldInv, YieldTypeOK
<1>3. /\ PendingAfter(base, liquidity[base]) \in [Ranges -> [Tokens -> Nat]]
      /\ PendingAfter(base, liquidity[base])[base] = (IF liquidity[base] > 0 THEN Nothing ELSE pending[base])
      /\ \A s \in Ranges \ {base} : PendingAfter(base, liquidity[base])[s] = pending[s]
  BY <1>2, PoolAfter
<1>4. /\ owed' \in [Ranges -> [Tokens -> Nat]]
      /\ \A s \in Ranges \ {base} : owed'[s] = owed[s]
  BY <1>1, <1>2, PokedTyped DEF YieldTypeOK
<1>5. held' \in [Tokens -> Nat] /\ \A t \in Tokens : held'[t] = held[t] + paid[t] /\ held[t] \in Nat /\ paid[t] \in Nat
  <2>1. \A t \in Tokens : held[t] \in Nat /\ paid[t] \in Nat /\ held[t] + paid[t] \in Nat
    BY <1>2 DEF YieldTypeOK
  <2> QED
    BY <1>1, <2>1
<1>6. YieldTypeOK'
  BY <1>1, <1>2, <1>3, <1>4, <1>5 DEF YieldTypeOK
<1>7. NothingStranded'
  BY <1>1, <1>2, <1>3, <1>4, BaseOnly DEF YieldInv
<1>8. PendingIsEarned'
  BY <1>1, <1>2, <1>3 DEF YieldInv, PendingIsEarned
<1>9. FeesStayCovered'
  <2>1. \A t \in Tokens : accrued[t] \in Int
    BY <1>2 DEF YieldTypeOK
  <2> QED
    BY <1>1, <1>5, <2>1 DEF YieldInv, FeesStayCovered, FeesCovered
<1> QED
  BY <1>6, <1>7, <1>8, <1>9 DEF YieldInv

(* What a deposit pays is worth the shares it gets, at the worth of those  *)
(* there are.                                                              *)
LEMMA SharesPaid ==
  ASSUME NEW c \in Nat, NEW s \in Nat, NEW a \in Nat \ {0}, NEW b \in Nat \ {0},
         NEW m \in Nat, m <= c * s
  PROVE  LET k == (m \div a) \div b IN
         /\ k \in Nat
         /\ a * k <= RoundedUp(c, b) * s /\ b * k <= RoundedUp(c, a) * s
<1> DEFINE q == m \div a
           k == q \div b
           ub == RoundedUp(c, b)
           ua == RoundedUp(c, a)
<1>1. q \in Nat /\ q * a <= m
  BY Down
<1>2. k \in Nat /\ k * b <= q
  BY <1>1, Down
<1>3. ub \in Nat /\ c <= ub * b /\ ua \in Nat /\ c <= ua * a
  BY UpTyped
<1> HIDE DEF q, k, ub, ua
<1>4. (k * b) * a <= c * s
  <2>1. (k * b) * a <= q * a
    BY <1>1, <1>2, ProductOrder
  <2>2. (k * b) * a \in Int /\ q * a \in Int /\ c * s \in Int
    BY <1>1, <1>2
  <2> QED
    BY <1>1, <2>1, <2>2
<1>5. (a * k) * b <= (ub * s) * b
  <2>1. c * s <= (ub * b) * s
    BY <1>3, ProductOrder
  <2>2. (ub * b) * s = (ub * s) * b /\ (a * k) * b = (k * b) * a
    BY <1>2, <1>3
  <2>3. (ub * b) * s \in Int /\ c * s \in Int /\ (k * b) * a \in Int
    BY <1>2, <1>3
  <2> QED
    BY <1>4, <2>1, <2>2, <2>3
<1>6. (b * k) * a <= (ua * s) * a
  <2>1. c * s <= (ua * a) * s
    BY <1>3, ProductOrder
  <2>2. (ua * a) * s = (ua * s) * a /\ (b * k) * a = (k * b) * a
    BY <1>2, <1>3
  <2>3. (ua * a) * s \in Int /\ c * s \in Int /\ (k * b) * a \in Int
    BY <1>2, <1>3
  <2> QED
    BY <1>4, <2>1, <2>2, <2>3
<1>7. ASSUME NEW x \in Int, NEW y \in Int, NEW z \in Nat \ {0}, x * z <= y * z
      PROVE  x <= y
  <2> SUFFICES ASSUME y < x PROVE FALSE
    OBVIOUS
  <2>1. (y + 1) * z <= x * z /\ (y + 1) * z = y * z + z
    BY ProductOrder
  <2>2. y * z \in Int /\ x * z \in Int
    OBVIOUS
  <2> QED
    BY <1>7, <2>1, <2>2
<1>8. a * k \in Int /\ b * k \in Int /\ ub * s \in Int /\ ua * s \in Int
  BY <1>2, <1>3
<1> QED
  BY <1>2, <1>5, <1>6, <1>7, <1>8 DEF q, k, ub, ua

LEMMA TotalTyped ==
  ASSUME YieldTypeOK, NEW o \in [Tokens -> Nat], NEW t \in Tokens
  PROVE  TotalWith(o, t) \in 0..(Modulus - 1)
<1>1. Balance(t) \in Int /\ Content(base, liquidity[base], t) \in Nat
  BY BalanceBounds, ContentTyped DEF YieldTypeOK
<1>2. (o[t] * (FEE_UNIT - protocolFee)) \div FEE_UNIT \in Nat
  <2>1. FEE_UNIT - protocolFee \in Nat /\ FEE_UNIT \in Nat \ {0} /\ o[t] \in Nat
    BY YieldAssumption DEF YieldTypeOK
  <2> QED
    BY <2>1, ShareOf
<1> DEFINE x == Balance(t) + (Content(base, liquidity[base], t)
                     + (o[t] * (FEE_UNIT - protocolFee)) \div FEE_UNIT)
<1>3. x \in Int
  BY <1>1, <1>2
<1>4. TotalWith(o, t) = x % Modulus
  BY DEF TotalWith, Plus
<1> HIDE DEF x
<1> QED
  BY <1>3, <1>4, Wrapped

LEMMA DepositPays ==
  ASSUME YieldTypeOK, NEW want \in Pairs, Deposit(want)
  PROVE  \E paid \in [Tokens -> Nat], shares \in Nat :
           /\ PayIn(paid, shares)
           /\ totalSupply > 0 =>
                \A t \in Tokens : TotalWith(Poked, t) * shares <= paid[t] * totalSupply
<1> DEFINE total == [t \in Tokens |-> TotalWith(Poked, t)]
           cross == Smaller(Times(want[0], total[1]), Times(want[1], total[0]))
           Fair(paid, shares) ==
             totalSupply > 0 =>
                \A t \in Tokens : TotalWith(Poked, t) * shares <= paid[t] * totalSupply
<1>1. /\ want \in [Tokens -> Nat] /\ total \in [Tokens -> Nat] /\ totalSupply \in Nat
      /\ \A t \in Tokens : total[t] = TotalWith(Poked, t)
  <2>1. \A t \in Tokens : TotalWith(Poked, t) \in Nat
    BY PokedTyped, TotalTyped
  <2>2. want \in [Tokens -> Nat]
    BY YieldAssumption DEF Pairs
  <2> QED
    BY <2>1, <2>2 DEF YieldTypeOK
<1>2. 0 \in Tokens /\ 1 \in Tokens /\ \A t \in Tokens : t = 0 \/ t = 1
  BY DEF Tokens
<1>3. cross \in Nat
  <2>1. want[0] * total[1] \in Int /\ want[1] * total[0] \in Int
    BY <1>1, <1>2
  <2>2. Times(want[0], total[1]) \in Nat /\ Times(want[1], total[0]) \in Nat
    BY <2>1, Wrapped DEF Times
  <2> QED
    BY <2>2 DEF Smaller
<1>4. \/ totalSupply = 0 /\ PayIn(want, Larger(want[0], want[1]))
      \/ \E t \in Tokens :
           /\ totalSupply > 0 /\ total[t] = 0 /\ total[1 - t] > 0
           /\ PayIn([want EXCEPT ![t] = 0], (want[1 - t] * totalSupply) \div total[1 - t])
      \/ /\ totalSupply > 0 /\ total[0] > 0 /\ total[1] > 0 /\ cross > 0
         /\ PayIn(PaidFor(cross, total), (Times(cross, totalSupply) \div total[0]) \div total[1])
  BY DEF Deposit
<1> HIDE DEF total, cross
<1>5. ASSUME totalSupply = 0, PayIn(want, Larger(want[0], want[1]))
      PROVE  \E paid \in [Tokens -> Nat], shares \in Nat : PayIn(paid, shares) /\ Fair(paid, shares)
  <2>1. Larger(want[0], want[1]) \in Nat
    BY <1>1, <1>2 DEF Larger
  <2>2. Fair(want, Larger(want[0], want[1]))
    BY <1>5
  <2> QED
    BY <1>1, <1>5, <2>1, <2>2
<1>6. ASSUME NEW t \in Tokens, totalSupply > 0, total[t] = 0, total[1 - t] > 0,
             PayIn([want EXCEPT ![t] = 0], (want[1 - t] * totalSupply) \div total[1 - t])
      PROVE  \E paid \in [Tokens -> Nat], shares \in Nat : PayIn(paid, shares) /\ Fair(paid, shares)
  <2> DEFINE paid == [want EXCEPT ![t] = 0]
             shares == (want[1 - t] * totalSupply) \div total[1 - t]
  <2>1. /\ paid \in [Tokens -> Nat] /\ 1 - t \in Tokens /\ paid[t] = 0 /\ paid[1 - t] = want[1 - t]
        /\ \A s \in Tokens : s = t \/ s = 1 - t
    BY <1>1, <1>2
  <2>2. want[1 - t] * totalSupply \in Nat /\ total[1 - t] \in Nat \ {0}
    BY <1>1, <1>6, <2>1
  <2>3. shares \in Nat /\ shares * total[1 - t] <= want[1 - t] * totalSupply
    BY <2>2, Down
  <2> HIDE DEF paid, shares
  <2>4. total[1 - t] * shares <= paid[1 - t] * totalSupply
    BY <2>1, <2>2, <2>3
  <2>5. total[t] * shares <= paid[t] * totalSupply
    BY <1>1, <1>6, <2>1, <2>3
  <2>6. Fair(paid, shares)
    BY <1>1, <2>1, <2>4, <2>5
  <2>7. PayIn(paid, shares)
    BY <1>6 DEF paid, shares
  <2> QED
    BY <2>1, <2>3, <2>6, <2>7
<1>7. ASSUME totalSupply > 0, total[0] > 0, total[1] > 0, cross > 0,
             PayIn(PaidFor(cross, total), (Times(cross, totalSupply) \div total[0]) \div total[1])
      PROVE  \E paid \in [Tokens -> Nat], shares \in Nat : PayIn(paid, shares) /\ Fair(paid, shares)
  <2> DEFINE paid == PaidFor(cross, total)
             shares == (Times(cross, totalSupply) \div total[0]) \div total[1]
  <2>1. cross * totalSupply \in Nat
    BY <1>1, <1>3
  <2>2. Times(cross, totalSupply) \in Nat /\ Times(cross, totalSupply) <= cross * totalSupply
    BY <2>1, Wrapped DEF Times
  <2>3. total[0] \in Nat \ {0} /\ total[1] \in Nat \ {0}
    BY <1>1, <1>2, <1>7
  <2>4. /\ shares \in Nat
        /\ total[0] * shares <= RoundedUp(cross, total[1]) * totalSupply
        /\ total[1] * shares <= RoundedUp(cross, total[0]) * totalSupply
    BY <1>1, <1>3, <2>2, <2>3, SharesPaid
  <2>5. RoundedUp(cross, total[0]) \in Nat /\ RoundedUp(cross, total[1]) \in Nat
    BY <1>3, <2>3, UpTyped
  <2>6. paid \in [Tokens -> Nat] /\ paid[0] = RoundedUp(cross, total[1]) /\ paid[1] = RoundedUp(cross, total[0])
    <3>1. \A t \in Tokens : RoundedUp(cross, total[1 - t]) \in Nat
      BY <1>2, <2>5
    <3>2. 1 - 0 = 1 /\ 1 - 1 = 0
      OBVIOUS
    <3> QED
      BY <1>2, <3>1, <3>2 DEF PaidFor
  <2> HIDE DEF paid, shares
  <2>7. Fair(paid, shares)
    BY <1>1, <1>2, <2>4, <2>6
  <2>8. PayIn(paid, shares)
    BY <1>7 DEF paid, shares
  <2> QED
    BY <2>4, <2>6, <2>7, <2>8
<1> QED
  BY <1>4, <1>5, <1>6, <1>7

LEMMA DepositInv ==
  ASSUME YieldInv, NEW want \in Pairs, Deposit(want)
  PROVE  YieldInv'
BY DepositPays, PayInInv DEF YieldInv

(* A withdrawal of no more shares than it leaves takes no more of a token  *)
(* than the vault's part of it.                                            *)
LEMMA WithdrawPays ==
  ASSUME YieldTypeOK, FeesCovered, NEW shares \in Nat, NEW supply \in Nat \ {0}, shares <= supply,
         NEW l \in Nat, NEW t \in Tokens
  PROVE  LET unused == (Balance(t) * shares) \div supply
             out == IF l > 0 THEN Content(base, l, t) + (ToVault(base, l, t) * shares) \div supply ELSE 0
             in == IF l > 0 THEN Collected(base, l, t) ELSE 0
             due == IF l > 0 THEN ToProtocol(base, l, t) ELSE 0
         IN  Plus(accrued[t], due) <= (held[t] + in) - Plus(unused, out)
<1> DEFINE unused == (Balance(t) * shares) \div supply
           part == (ToVault(base, l, t) * shares) \div supply
           c == Content(base, l, t)
           v == ToVault(base, l, t)
           p == ToProtocol(base, l, t)
           got == Collected(base, l, t)
           out == IF l > 0 THEN c + part ELSE 0
           due == IF l > 0 THEN p ELSE 0
           in == IF l > 0 THEN got ELSE 0
<1>1. held[t] \in Nat /\ accrued[t] \in Nat /\ base \in Ranges
  BY DEF YieldTypeOK
<1>2. Balance(t) \in Nat /\ Balance(t) <= held[t] - accrued[t]
  BY BalanceBounds
<1>3. unused \in Nat /\ unused <= Balance(t)
  BY <1>2, ShareOf
<1>4. v \in Nat /\ p \in Nat /\ c \in Nat /\ got = c + v + p
  BY <1>1, FeesDivided
<1>5. part \in Nat /\ part <= v
  BY <1>4, ShareOf
<1> HIDE DEF unused, part, c, v, p, got
<1>6. /\ out \in Nat /\ due \in Nat /\ in \in Nat /\ unused + out \in Nat /\ accrued[t] + due \in Nat
      /\ accrued[t] + due <= (held[t] + in) - (unused + out)
  BY <1>1, <1>2, <1>3, <1>4, <1>5
<1> HIDE DEF out, due, in
<1>7. Plus(unused, out) <= unused + out /\ Plus(accrued[t], due) <= accrued[t] + due
      /\ Plus(unused, out) \in Nat /\ Plus(accrued[t], due) \in Nat
  BY <1>6, Wrapped DEF Plus
<1>8. Plus(accrued[t], due) <= (held[t] + in) - Plus(unused, out)
  BY <1>1, <1>6, <1>7
<1> QED
  BY <1>8 DEF unused, part, c, v, p, got, out, due, in

LEMMA WithdrawInv ==
  ASSUME YieldInv, NEW shares \in 1..totalSupply, Withdraw(shares)
  PROVE  YieldInv'
<1> DEFINE supply == totalSupply - shares
           l == (liquidity[base] * shares) \div supply
           unused(t) == (Balance(t) * shares) \div supply
           out(t) == IF l > 0 THEN Content(base, l, t) + (ToVault(base, l, t) * shares) \div supply
                     ELSE 0
           in(t) == IF l > 0 THEN Collected(base, l, t) ELSE 0
           due(t) == IF l > 0 THEN ToProtocol(base, l, t) ELSE 0
<1>1. YieldTypeOK /\ base \in Ranges /\ liquidity[base] \in Nat /\ totalSupply \in Nat
  BY DEF YieldInv, YieldTypeOK
<1>2. shares \in Nat /\ supply \in Nat \ {0} /\ supply > 0
  BY <1>1 DEF Withdraw
<1>3. l \in Nat /\ l <= liquidity[base]
  BY <1>1, <1>2, ShareOf DEF Withdraw
<1>4. /\ totalSupply' = supply
      /\ held' = [t \in Tokens |-> (held[t] + in(t)) - Plus(unused(t), out(t))]
      /\ \A t \in Tokens : Plus(unused(t), out(t)) <= held[t] + in(t)
      /\ liquidity' = [liquidity EXCEPT ![base] = @ - l]
      /\ owed' = (IF l > 0 THEN Emptied(owed, base) ELSE owed)
      /\ pending' = PendingAfter(base, l)
      /\ accrued' = [t \in Tokens |-> Plus(accrued[t], due(t))]
      /\ overdrawn' = (overdrawn \/ shares > supply)
      /\ protocolFee' = protocolFee /\ base' = base /\ tick' = tick
  BY DEF Withdraw, Affords
<1>5. ASSUME NEW t \in Tokens
      PROVE  /\ held[t] \in Nat /\ in(t) \in Nat /\ out(t) \in Nat /\ unused(t) \in Nat
             /\ due(t) \in Nat /\ accrued[t] \in Nat
             /\ Plus(unused(t), out(t)) \in Nat /\ Plus(accrued[t], due(t)) \in 0..(Modulus - 1)
  <2>1. held[t] \in Nat /\ accrued[t] \in Nat
    BY <1>1 DEF YieldTypeOK
  <2>2. Balance(t) \in Nat
    BY <1>1, BalanceBounds
  <2>3. unused(t) \in Nat
    BY <1>2, <2>2, ShareOf
  <2>4. /\ Content(base, l, t) \in Nat /\ ToVault(base, l, t) \in Nat /\ ToProtocol(base, l, t) \in Nat
        /\ Collected(base, l, t) \in Nat
    BY <1>1, <1>3, FeesDivided
  <2>5. (ToVault(base, l, t) * shares) \div supply \in Nat
    BY <1>2, <2>4, ShareOf
  <2>6. out(t) \in Nat /\ in(t) \in Nat /\ due(t) \in Nat
    BY <2>4, <2>5
  <2> HIDE DEF out, in, due, unused
  <2>7. unused(t) + out(t) \in Nat /\ accrued[t] + due(t) \in Nat
    BY <2>1, <2>3, <2>6
  <2>8. Plus(unused(t), out(t)) \in Nat /\ Plus(accrued[t], due(t)) \in 0..(Modulus - 1)
    BY <2>7, Wrapped DEF Plus
  <2> QED
    BY <2>1, <2>3, <2>6, <2>8
<1>6. /\ Emptied(owed, base) \in [Ranges -> [Tokens -> Nat]]
      /\ PendingAfter(base, l) \in [Ranges -> [Tokens -> Nat]]
      /\ PendingAfter(base, l)[base] = IF l > 0 THEN Nothing ELSE pending[base]
      /\ \A s \in Ranges \ {base} :
           Emptied(owed, base)[s] = owed[s] /\ PendingAfter(base, l)[s] = pending[s]
  BY <1>1, <1>3, PoolAfter
<1>7. ASSUME FeesCovered, shares <= supply, NEW t \in Tokens
      PROVE  Plus(accrued[t], due(t)) <= (held[t] + in(t)) - Plus(unused(t), out(t))
  BY <1>1, <1>2, <1>3, <1>7, WithdrawPays
<1>17. \A t \in Tokens :
         /\ accrued'[t] = Plus(accrued[t], due(t))
         /\ held'[t] = (held[t] + in(t)) - Plus(unused(t), out(t))
  BY <1>4
<1> HIDE DEF supply, l, unused, out, in, due
<1>8. held' \in [Tokens -> Nat] /\ accrued' \in [Tokens -> 0..(Modulus - 1)]
  BY <1>4, <1>5
<1>9. /\ liquidity' \in [Ranges -> Nat] /\ liquidity'[base] = liquidity[base] - l
      /\ \A s \in Ranges \ {base} : liquidity'[s] = liquidity[s]
  <2>1. liquidity \in [Ranges -> Nat] /\ liquidity[base] - l \in Nat
    BY <1>1, <1>3 DEF YieldTypeOK
  <2> QED
    BY <1>1, <1>4, <2>1
<1>10. owed' \in [Ranges -> [Tokens -> Nat]] /\ \A s \in Ranges \ {base} : owed'[s] = owed[s]
  BY <1>1, <1>4, <1>6 DEF YieldTypeOK
<1>11. YieldTypeOK'
  BY <1>1, <1>2, <1>4, <1>6, <1>8, <1>9, <1>10 DEF YieldTypeOK
<1>12. NothingStranded'
  BY <1>1, <1>4, <1>6, <1>9, <1>10, BaseOnly DEF YieldInv
<1>13. PendingIsEarned'
  <2>1. CASE l > 0
    BY <1>4, <1>6, <2>1 DEF PendingIsEarned
  <2>2. CASE l = 0
    BY <1>1, <1>4, <1>6, <1>9, <2>2 DEF PendingIsEarned, YieldInv
  <2> QED
    BY <1>3, <2>1, <2>2
<1>14. ASSUME ~overdrawn' PROVE FeesCovered'
  <2>1. ~overdrawn /\ ~(shares > supply)
    BY <1>4, <1>14, Zenon
  <2>2. FeesCovered
    BY <2>1, Zenon DEF YieldInv, FeesStayCovered
  <2>3. shares <= supply
    BY <1>2, <2>1
  <2>4. ASSUME NEW t \in Tokens PROVE accrued'[t] <= held'[t]
    BY <1>7, <1>17, <2>2, <2>3
  <2> QED
    BY <2>4 DEF FeesCovered
<1>15. FeesStayCovered'
  BY <1>14, Zenon DEF FeesStayCovered
<1> QED
  BY <1>11, <1>12, <1>13, <1>15 DEF YieldInv

LEMMA RebalanceInv ==
  ASSUME YieldInv, Rebalance
  PROVE  YieldInv'
<1> DEFINE l == liquidity[base]
           R == NewRange
           have(t) == held[t] + Collected(base, l, t)
           due(t) == Plus(accrued[t], ToProtocol(base, l, t))
           b == [t \in Tokens |-> Minus(have(t), due(t))]
           new == LiquidityFor(R, b)
<1>1. YieldTypeOK /\ base \in Ranges /\ l \in Nat /\ tick \in MIN_TICK..MAX_TICK
  BY DEF YieldInv, YieldTypeOK
<1>2. R \in Ranges /\ R[1] < R[2]
  BY <1>1, NewRangeTyped
<1>3. /\ held' = [t \in Tokens |-> have(t) - Cost(R, new, t)]
      /\ \A t \in Tokens : Cost(R, new, t) <= have(t)
      /\ accrued' = [t \in Tokens |-> due(t)]
      /\ liquidity' = [RetiredBase(base) EXCEPT ![R] = @ + new]
      /\ owed' = Emptied(owed, base) /\ pending' = PendingAfter(base, l) /\ base' = R
      /\ protocolFee' = protocolFee /\ totalSupply' = totalSupply /\ tick' = tick
      /\ overdrawn' = overdrawn
  <2> DEFINE have2 == [t \in Tokens |-> have(t)]
             due2 == [t \in Tokens |-> due(t)]
  <2>1. [t \in Tokens |-> Minus(have2[t], due2[t])] = b
    OBVIOUS
  <2> QED
    BY <2>1 DEF Rebalance, Affords
<1>4. ASSUME NEW t \in Tokens
      PROVE  /\ have(t) \in Nat /\ due(t) \in 0..(Modulus - 1) /\ b[t] \in Nat
             /\ FeesCovered => due(t) <= have(t) /\ b[t] <= have(t) - due(t)
  <2> DEFINE p == ToProtocol(base, l, t)
             c == Collected(base, l, t)
             h == have(t)
             d == due(t)
  <2>1. held[t] \in Nat /\ accrued[t] \in Nat /\ (FeesCovered => accrued[t] <= held[t])
    BY <1>1 DEF YieldTypeOK, FeesCovered
  <2>2. p \in Nat /\ c \in Nat /\ p <= c
    BY <1>1, FeesDivided
  <2> HIDE DEF p, c, l
  <2>3. h \in Nat /\ accrued[t] + p \in Nat
    BY <2>1, <2>2 DEF c
  <2>4. d \in 0..(Modulus - 1) /\ d <= accrued[t] + p
    BY <2>3, Wrapped DEF Plus, p
  <2>5. FeesCovered => d <= h
    BY <2>1, <2>2, <2>3, <2>4, YieldAssumption DEF c
  <2>6. b[t] = (h - d) % Modulus
    BY DEF Minus
  <2> HIDE DEF h, d
  <2>7. h - d \in Int
    BY <2>3, <2>4, YieldAssumption
  <2>8. (h - d) % Modulus \in Nat /\ (h - d >= 0 => (h - d) % Modulus <= h - d)
    BY <2>7, Wrapped
  <2>9. FeesCovered => h - d >= 0
    BY <2>3, <2>4, <2>5, YieldAssumption
  <2> QED
    BY <2>3, <2>4, <2>5, <2>6, <2>8, <2>9 DEF h, d
<1>5. b \in [Tokens -> Nat]
  BY <1>4
<1> HIDE DEF l, R, have, due, b
<1>6. new \in Nat /\ \A t \in Tokens : Cost(R, new, t) <= b[t] /\ Cost(R, new, t) \in Nat
  BY <1>1, <1>2, <1>5, Affordable, ContentTyped
<1> HIDE DEF new
<1>7. held' \in [Tokens -> Nat] /\ accrued' \in [Tokens -> 0..(Modulus - 1)]
  <2>1. \A t \in Tokens : have(t) - Cost(R, new, t) \in Nat
    BY <1>3, <1>4, <1>6
  <2> QED
    BY <1>3, <1>4, <2>1
<1>8. /\ Emptied(owed, base) \in [Ranges -> [Tokens -> Nat]]
      /\ PendingAfter(base, l) \in [Ranges -> [Tokens -> Nat]]
      /\ Emptied(owed, base)[base] = Nothing
      /\ PendingAfter(base, l)[base] = IF l > 0 THEN Nothing ELSE pending[base]
      /\ \A s \in Ranges \ {base} :
           Emptied(owed, base)[s] = owed[s] /\ PendingAfter(base, l)[s] = pending[s]
  BY <1>1, PoolAfter
<1>9. \A r \in Ranges : owed'[r] = Nothing /\ pending'[r] = Nothing
  <2>1. l = 0 => pending[base] = Nothing
    BY DEF YieldInv, PendingIsEarned, l
  <2>2. pending'[base] = Nothing
    BY <1>1, <1>3, <1>8, <2>1
  <2> QED
    BY <1>3, <1>8, <2>2 DEF YieldInv, NothingStranded
<1>10. /\ liquidity' \in [Ranges -> Nat]
       /\ \A r \in Ranges \ {R} : liquidity'[r] = 0
  <2>1. liquidity \in [Ranges -> Nat] /\ \A r \in Ranges \ {base} : liquidity[r] = 0
    BY <1>1 DEF YieldTypeOK, YieldInv, NothingStranded
  <2>2. RetiredBase(base) = [r \in Ranges |-> 0]
    BY <1>1, <2>1 DEF RetiredBase
  <2> QED
    BY <1>2, <1>3, <1>6, <2>2
<1>11. YieldTypeOK'
  BY <1>1, <1>2, <1>3, <1>7, <1>8, <1>10 DEF YieldTypeOK
<1>12. NothingStranded' /\ PendingIsEarned'
  BY <1>2, <1>3, <1>9, <1>10 DEF NothingStranded, PendingIsEarned, Nothing
<1>13. FeesStayCovered'
  <2>1. ASSUME FeesCovered PROVE FeesCovered'
    <3>1. ASSUME NEW t \in Tokens PROVE accrued'[t] <= held'[t]
      <4>1. /\ have(t) \in Nat /\ due(t) \in Nat /\ b[t] \in Nat /\ Cost(R, new, t) \in Nat
            /\ b[t] <= have(t) - due(t) /\ Cost(R, new, t) <= b[t]
        BY <1>4, <1>6, <2>1, YieldAssumption
      <4>2. accrued'[t] = due(t) /\ held'[t] = have(t) - Cost(R, new, t)
        BY <1>3
      <4> QED
        BY <4>1, <4>2
    <3> QED
      BY <3>1 DEF FeesCovered
  <2> QED
    BY <1>3, <2>1, Zenon DEF YieldInv, FeesStayCovered
<1> QED
  BY <1>11, <1>12, <1>13 DEF YieldInv

(* Tokens come in, or leave for the protocol, and the pool stays as it is. *)
LEMMA HeldInv ==
  ASSUME YieldInv, UNCHANGED poolVars, base' = base, tick' = tick, totalSupply' = totalSupply,
         protocolFee' \in 0..(FEE_UNIT - 1), overdrawn' \in BOOLEAN,
         held' \in [Tokens -> Nat], accrued' \in [Tokens -> 0..(Modulus - 1)], FeesStayCovered'
  PROVE  YieldInv'
<1>1. liquidity' = liquidity /\ owed' = owed /\ pending' = pending
  BY DEF poolVars
<1>2. YieldTypeOK'
  BY <1>1 DEF YieldInv, YieldTypeOK
<1>3. NothingStranded' /\ PendingIsEarned'
  BY <1>1 DEF YieldInv, NothingStranded, PendingIsEarned
<1> QED
  BY <1>2, <1>3 DEF YieldInv

LEMMA CollectProtocolInv ==
  ASSUME YieldInv, NEW amount \in Pairs, CollectProtocol(amount)
  PROVE  YieldInv'
<1>1. /\ accrued' = [t \in Tokens |-> Minus(accrued[t], amount[t])]
      /\ held' = [t \in Tokens |-> held[t] - amount[t]]
      /\ \A t \in Tokens : amount[t] <= held[t]
      /\ overdrawn' = (overdrawn \/ \E t \in Tokens : amount[t] > accrued[t])
      /\ UNCHANGED poolVars /\ base' = base /\ tick' = tick /\ totalSupply' = totalSupply
      /\ protocolFee' = protocolFee
  BY DEF CollectProtocol, Affords
<1>2. YieldTypeOK /\ FeesStayCovered /\ overdrawn \in BOOLEAN /\ protocolFee \in 0..(FEE_UNIT - 1)
  BY DEF YieldInv, YieldTypeOK
<1>3. ASSUME NEW t \in Tokens
      PROVE  /\ held[t] \in Nat /\ accrued[t] \in Nat /\ amount[t] \in Nat
             /\ Minus(accrued[t], amount[t]) \in 0..(Modulus - 1)
             /\ amount[t] <= accrued[t] => Minus(accrued[t], amount[t]) <= accrued[t] - amount[t]
  <2>1. held[t] \in Nat /\ accrued[t] \in Nat /\ amount[t] \in Nat
    <3>1. amount \in [Tokens -> Nat]
      BY YieldAssumption DEF Pairs
    <3>2. held[t] \in Nat /\ accrued[t] \in 0..(Modulus - 1)
      BY <1>2 DEF YieldTypeOK
    <3> QED
      BY <3>1, <3>2, YieldAssumption
  <2> DEFINE x == accrued[t] - amount[t]
  <2>2. x \in Int /\ (amount[t] <= accrued[t] => x >= 0)
    BY <2>1
  <2> HIDE DEF x
  <2>3. x % Modulus \in 0..(Modulus - 1) /\ (x >= 0 => x % Modulus <= x)
    BY <2>2, Wrapped
  <2> QED
    BY <2>1, <2>2, <2>3 DEF Minus, x
<1>4. held' \in [Tokens -> Nat] /\ accrued' \in [Tokens -> 0..(Modulus - 1)]
  BY <1>1, <1>3
<1>5. ASSUME ~overdrawn' PROVE FeesCovered'
  <2>1. ~overdrawn /\ \A t \in Tokens : ~(amount[t] > accrued[t])
    BY <1>1, <1>5, Zenon
  <2>2. FeesCovered
    BY <1>2, <2>1, Zenon DEF FeesStayCovered
  <2>3. ASSUME NEW t \in Tokens PROVE accrued'[t] <= held'[t]
    <3>1. accrued[t] <= held[t] /\ amount[t] <= accrued[t]
      BY <1>3, <2>1, <2>2 DEF FeesCovered
    <3>2. /\ accrued'[t] = Minus(accrued[t], amount[t]) /\ held'[t] = held[t] - amount[t]
          /\ Minus(accrued[t], amount[t]) \in Int
      BY <1>1, <1>3, YieldAssumption
    <3> QED
      BY <1>3, <3>1, <3>2
  <2> QED
    BY <2>3 DEF FeesCovered
<1>6. FeesStayCovered'
  BY <1>5, Zenon DEF FeesStayCovered
<1>7. overdrawn' \in BOOLEAN
  BY <1>1, Zenon
<1> QED
  BY <1>1, <1>2, <1>4, <1>6, <1>7, HeldInv

LEMMA DonateInv ==
  ASSUME YieldInv, NEW t \in Tokens, Donate(t)
  PROVE  YieldInv'
<1>1. /\ held' = [held EXCEPT ![t] = @ + 1] /\ accrued' = accrued /\ overdrawn' = overdrawn
      /\ UNCHANGED poolVars /\ base' = base /\ tick' = tick /\ totalSupply' = totalSupply
      /\ protocolFee' = protocolFee
  BY DEF Donate
<1>2. /\ YieldTypeOK /\ overdrawn \in BOOLEAN /\ protocolFee \in 0..(FEE_UNIT - 1)
      /\ accrued \in [Tokens -> 0..(Modulus - 1)]
  BY DEF YieldInv, YieldTypeOK
<1>3. /\ held' \in [Tokens -> Nat]
      /\ \A s \in Tokens : held'[s] >= held[s] /\ held[s] \in Nat /\ accrued[s] \in Nat
  BY <1>1, <1>2, YieldAssumption DEF YieldTypeOK
<1>4. FeesStayCovered'
  BY <1>1, <1>3 DEF YieldInv, FeesStayCovered, FeesCovered
<1> QED
  BY <1>1, <1>2, <1>3, <1>4, HeldInv

LEMMA SettersInv ==
  ASSUME YieldInv,
         \/ \E fee \in ProtocolFees : SetProtocolFee(fee)
         \/ \E cap \in SupplyCaps : SetMaxTotalSupply(cap)
         \/ UNCHANGED yieldVars
  PROVE  YieldInv'
<1>1. /\ held' = held /\ accrued' = accrued /\ overdrawn' = overdrawn
      /\ UNCHANGED poolVars /\ base' = base /\ tick' = tick /\ totalSupply' = totalSupply
      /\ protocolFee' = protocolFee \/ protocolFee' \in ProtocolFees
  BY DEF SetProtocolFee, SetMaxTotalSupply, yieldVars
<1>2. /\ YieldTypeOK /\ overdrawn \in BOOLEAN /\ protocolFee \in 0..(FEE_UNIT - 1)
      /\ held \in [Tokens -> Nat] /\ accrued \in [Tokens -> 0..(Modulus - 1)]
  BY DEF YieldInv, YieldTypeOK
<1>3. FeesStayCovered'
  BY <1>1 DEF YieldInv, FeesStayCovered, FeesCovered
<1> QED
  BY <1>1, <1>2, <1>3, HeldInv, YieldAssumption

LEMMA EmergencyBurnInv ==
  ASSUME YieldInv, NEW r \in Ranges, NEW l \in Amounts, EmergencyBurn(r, l)
  PROVE  YieldInv'
<1>1. /\ held' = [t \in Tokens |-> held[t] + Content(r, l, t) + owed[r][t] + pending[r][t]]
      /\ liquidity' = [liquidity EXCEPT ![r] = @ - l] /\ l <= liquidity[r] /\ liquidity[r] > 0
      /\ owed' = Emptied(owed, r) /\ pending' = Emptied(pending, r)
      /\ accrued' = accrued /\ overdrawn' = overdrawn /\ base' = base /\ tick' = tick
      /\ totalSupply' = totalSupply /\ protocolFee' = protocolFee
  BY DEF EmergencyBurn
<1>2. YieldTypeOK /\ l \in Nat
  BY YieldAssumption DEF YieldInv
<1>3. r = base
  BY <1>1, <1>2 DEF YieldInv, NothingStranded
<1>4. ASSUME NEW t \in Tokens
      PROVE  /\ held[t] \in Nat /\ held[t] + Content(r, l, t) + owed[r][t] + pending[r][t] \in Nat
             /\ held[t] <= held[t] + Content(r, l, t) + owed[r][t] + pending[r][t]
             /\ accrued[t] \in Nat
  <2>1. /\ held[t] \in Nat /\ Content(r, l, t) \in Nat /\ owed[r][t] \in Nat /\ pending[r][t] \in Nat
        /\ accrued[t] \in Nat
    BY <1>2, ContentTyped, YieldAssumption DEF YieldTypeOK
  <2> QED
    BY <2>1
<1>5. held' \in [Tokens -> Nat] /\ \A t \in Tokens : held'[t] >= held[t]
  BY <1>1, <1>4
<1>6. /\ liquidity' \in [Ranges -> Nat]
      /\ \A s \in Ranges \ {r} : liquidity'[s] = liquidity[s]
  <2>1. liquidity \in [Ranges -> Nat] /\ liquidity[r] - l \in Nat
    BY <1>1, <1>2 DEF YieldTypeOK
  <2> QED
    BY <1>1, <2>1
<1>7. /\ owed' \in [Ranges -> [Tokens -> Nat]] /\ pending' \in [Ranges -> [Tokens -> Nat]]
      /\ pending'[r] = Nothing
      /\ \A s \in Ranges \ {r} : owed'[s] = owed[s] /\ pending'[s] = pending[s]
  <2>1. Nothing \in [Tokens -> Nat]
    BY DEF Nothing
  <2> QED
    BY <1>1, <1>2, <2>1 DEF Emptied, YieldTypeOK
<1>8. YieldTypeOK'
  BY <1>1, <1>2, <1>5, <1>6, <1>7 DEF YieldTypeOK
<1>9. NothingStranded'
  BY <1>1, <1>2, <1>3, <1>6, <1>7, BaseOnly DEF YieldInv
<1>10. PendingIsEarned'
  BY <1>1, <1>3, <1>7 DEF PendingIsEarned
<1>11. FeesStayCovered'
  <2>1. ASSUME FeesCovered PROVE FeesCovered'
    BY <1>1, <1>4, <1>5, <2>1 DEF FeesCovered
  <2> QED
    BY <1>1, <2>1, Zenon DEF YieldInv, FeesStayCovered
<1> QED
  BY <1>8, <1>9, <1>10, <1>11 DEF YieldInv

LEMMA SwapInv ==
  ASSUME YieldInv, NEW to \in Ticks, NEW fees \in Earned, Swap(to, fees)
  PROVE  YieldInv'
<1>1. /\ tick' = to /\ held' = held /\ accrued' = accrued /\ protocolFee' = protocolFee
      /\ totalSupply' = totalSupply /\ base' = base /\ liquidity' = liquidity /\ owed' = owed
      /\ overdrawn' = overdrawn
      /\ \/ pending' = pending
         \/ /\ liquidity[base] > 0
            /\ pending' = [pending EXCEPT ![base] = [t \in Tokens |-> @[t] + fees[t]]]
  BY DEF Swap
<1>2. YieldTypeOK /\ to \in MIN_TICK..MAX_TICK
  BY YieldAssumption DEF YieldInv
<1>3. /\ pending' \in [Ranges -> [Tokens -> Nat]]
      /\ \A s \in Ranges \ {base} : pending'[s] = pending[s]
  <2>1. \A t \in Tokens : pending[base][t] + fees[t] \in Nat
    BY <1>2 DEF Earned, YieldTypeOK
  <2>2. [t \in Tokens |-> pending[base][t] + fees[t]] \in [Tokens -> Nat]
    BY <2>1
  <2> QED
    BY <1>1, <1>2, <2>2 DEF YieldTypeOK
<1>4. YieldTypeOK'
  BY <1>1, <1>2, <1>3 DEF YieldTypeOK
<1>5. NothingStranded'
  BY <1>1, <1>2, <1>3, BaseOnly DEF YieldInv
<1>6. PendingIsEarned'
  BY <1>1 DEF YieldInv, PendingIsEarned
<1>7. FeesStayCovered'
  BY <1>1 DEF YieldInv, FeesStayCovered, FeesCovered
<1> QED
  BY <1>4, <1>5, <1>6, <1>7 DEF YieldInv

LEMMA YieldNextInv == YieldInv /\ [YieldNext]_yieldVars => YieldInv'
BY DepositInv, WithdrawInv, RebalanceInv, CollectProtocolInv, SettersInv, EmergencyBurnInv,
   DonateInv, SwapInv DEF YieldNext

LEMMA YieldInvariant == YieldSpec => []YieldInv
BY YieldInitInv, YieldNextInv, PTL DEF YieldSpec

(* Nothing is left behind in the pool: all liquidity and all fees that the *)
(* vault has there are in the range that it looks at                       *)
(* (src/src/Yield.sol:234-246).                                            *)
THEOREM NothingGetsStranded == YieldSpec => []NothingStranded
BY YieldInvariant, PTL DEF YieldInv

(* The fees of the protocol are in the vault's hands, unless someone has   *)
(* withdrawn more shares than he left, or the governance has collected     *)
(* more than had accrued (lines 182-198, 234-246 and 405-414).             *)
THEOREM FeesRemainCovered == YieldSpec => []FeesStayCovered
BY YieldInvariant, PTL DEF YieldInv

(* Within the bound on its worth, what the vault has of a token is a plain *)
(* sum.                                                                    *)
LEMMA TotalIs ==
  ASSUME YieldTypeOK, FeesCovered, NEW o \in [Tokens -> Nat], NEW t \in Tokens,
         o[t] <= owed[base][t] + pending[base][t], Worth(t) < Modulus
  PROVE  LET part == (o[t] * (FEE_UNIT - protocolFee)) \div FEE_UNIT IN
         /\ part \in Nat /\ part <= o[t]
         /\ TotalWith(o, t) = held[t] - accrued[t] + Content(base, liquidity[base], t) + part
<1> DEFINE part == (o[t] * (FEE_UNIT - protocolFee)) \div FEE_UNIT
           c == Content(base, liquidity[base], t)
           x == Balance(t) + (c + part)
<1>1. part \in Nat /\ part <= o[t]
  <2>1. FEE_UNIT - protocolFee \in Nat /\ FEE_UNIT \in Nat \ {0} /\ FEE_UNIT - protocolFee <= FEE_UNIT
    BY YieldAssumption DEF YieldTypeOK
  <2> QED
    BY <2>1, ShareOf
<1>2. c \in Nat
  BY ContentTyped DEF YieldTypeOK
<1>3. /\ held[t] \in Nat /\ accrued[t] \in Nat /\ accrued[t] <= held[t]
      /\ owed[base][t] \in Nat /\ pending[base][t] \in Nat /\ o[t] \in Nat
      /\ Modulus \in Nat
  BY YieldAssumption DEF YieldTypeOK, FeesCovered
<1>4. held[t] + c + owed[base][t] + pending[base][t] < Modulus
  BY DEF Worth
<1> HIDE DEF part, c
<1>5. held[t] < Modulus
  BY <1>2, <1>3, <1>4
<1>6. Balance(t) = held[t] - accrued[t]
  BY <1>5, BalanceBounds
<1>7. x \in 0..(Modulus - 1) /\ x = held[t] - accrued[t] + c + part
  BY <1>1, <1>2, <1>3, <1>4, <1>6
<1>8. TotalWith(o, t) = x % Modulus
  BY DEF TotalWith, Plus, part, c
<1> HIDE DEF x
<1>9. TotalWith(o, t) = x
  BY <1>7, <1>8, Wrapped
<1> QED
  BY <1>1, <1>7, <1>9 DEF part, c

(* A part of more fees is more.                                            *)
LEMMA PartOrder ==
  ASSUME NEW a \in Nat, NEW b \in Nat, a <= b, NEW k \in Nat, NEW d \in Nat \ {0}
  PROVE  (a * k) \div d <= (b * k) \div d
<1> DEFINE m == a * k
           n == b * k
           p == m \div d
           q == n \div d
<1>1. m \in Nat /\ n \in Nat /\ m <= n
  BY ProductOrder
<1>2. p \in Nat /\ p * d <= m /\ q \in Nat /\ n < q * d + d
  BY <1>1, Down
<1> HIDE DEF p, q, m, n
<1>3. (q + 1) * d = q * d + d /\ p * d \in Int /\ q * d \in Int
  BY <1>2
<1>4. p * d < (q + 1) * d
  BY <1>1, <1>2, <1>3
<1>5. p < q + 1
  BY <1>2, <1>4, ProductCancel
<1> QED
  BY <1>2, <1>5 DEF p, q, m, n

LEMMA PayInTotal ==
  ASSUME YieldInv, YieldInv', FeesCovered, NEW paid \in [Tokens -> Nat], NEW shares \in Nat,
         PayIn(paid, shares), NEW t \in Tokens
  PROVE  /\ Total(t)' = TotalWith(Poked, t) + paid[t]
         /\ Total(t) \in Nat /\ TotalWith(Poked, t) \in Nat /\ Total(t) <= TotalWith(Poked, t)
<1>1. /\ held' = [s \in Tokens |-> held[s] + paid[s]] /\ totalSupply' = totalSupply + shares
      /\ owed' = [owed EXCEPT ![base] = Poked] /\ pending' = PendingAfter(base, liquidity[base])
      /\ accrued' = accrued /\ protocolFee' = protocolFee /\ base' = base /\ tick' = tick
      /\ liquidity' = liquidity /\ Worth(t) + paid[t] <= MaxTokens
  BY DEF PayIn
<1> DEFINE o == owed[base]
           c == Content(base, liquidity[base], t)
           part(u) == (u[t] * (FEE_UNIT - protocolFee)) \div FEE_UNIT
<1>2. /\ YieldTypeOK /\ o \in [Tokens -> Nat] /\ Poked \in [Tokens -> Nat]
      /\ o[t] <= Poked[t] /\ Poked[t] <= o[t] + pending[base][t]
      /\ o[t] <= o[t] + pending[base][t] /\ paid[t] \in Nat
      /\ held[t] \in Nat /\ accrued[t] \in Nat /\ pending[base][t] \in Nat /\ c \in Nat
  <2>1. YieldTypeOK /\ o \in [Tokens -> Nat] /\ pending[base] \in [Tokens -> Nat] /\ held[t] \in Nat
        /\ accrued[t] \in 0..(Modulus - 1)
    BY DEF YieldInv, YieldTypeOK
  <2>2. c \in Nat
    BY <2>1, ContentTyped DEF YieldTypeOK
  <2> QED
    BY <2>1, <2>2, PokedTyped, YieldAssumption
<1>3. /\ Worth(t) = held[t] + c + o[t] + pending[base][t]
      /\ Worth(t) <= MaxTokens /\ Worth(t) < Modulus
  <2>1. Worth(t) = held[t] + c + o[t] + pending[base][t]
    BY DEF Worth
  <2> HIDE DEF c, o
  <2>2. o[t] \in Nat
    BY <1>2
  <2> QED
    BY <1>1, <1>2, <2>1, <2>2, YieldAssumption
<1>4. /\ Total(t) = held[t] - accrued[t] + c + part(o) /\ part(o) \in Nat
      /\ TotalWith(Poked, t) = held[t] - accrued[t] + c + part(Poked) /\ part(Poked) \in Nat
      /\ part(Poked) <= Poked[t]
  BY <1>2, <1>3, TotalIs DEF Total
<1>5. part(o) <= part(Poked)
  <2>1. FEE_UNIT - protocolFee \in Nat /\ FEE_UNIT \in Nat \ {0} /\ o[t] \in Nat /\ Poked[t] \in Nat
    BY <1>2, YieldAssumption DEF YieldTypeOK
  <2> QED
    BY <1>2, <2>1, PartOrder
<1>6. /\ owed'[base] = Poked /\ held'[t] = held[t] + paid[t]
      /\ Content(base, liquidity[base], t)' = c
  <2>1. base \in Ranges
    BY <1>2 DEF YieldTypeOK
  <2> QED
    BY <1>1, <1>2, <2>1 DEF YieldTypeOK, Content, Weight
<1>7. accrued[t] <= held[t]
  BY DEF FeesCovered
<1>8. Total(t)' = (Minus(held[t] + paid[t], accrued[t]) + (c + part(Poked))) % Modulus
  BY <1>1, <1>6 DEF Total, TotalWith, Balance, Plus
<1> HIDE DEF part, c, o
<1> DEFINE y == held[t] + paid[t] - accrued[t]
           z == y + (c + part(Poked))
<1>9. /\ y \in 0..(Modulus - 1) /\ z \in 0..(Modulus - 1)
  <2>1. o[t] \in Nat /\ held[t] + c + o[t] + pending[base][t] + paid[t] <= MaxTokens
        /\ MaxTokens \in Nat /\ MaxTokens < Modulus /\ Modulus \in Nat /\ Poked[t] \in Nat
    BY <1>1, <1>2, <1>3, YieldAssumption
  <2> QED
    BY <1>2, <1>4, <1>7, <2>1
<1>10. Total(t)' = z
  <2>1. Minus(held[t] + paid[t], accrued[t]) = y % Modulus
    BY <1>2 DEF Minus
  <2> HIDE DEF y
  <2>2. y % Modulus = y
    BY <1>9, Wrapped
  <2>3. Total(t)' = z % Modulus
    BY <1>8, <2>1, <2>2
  <2> HIDE DEF z
  <2> QED
    BY <1>9, <2>3, Wrapped
<1>11. z = TotalWith(Poked, t) + paid[t]
  BY <1>2, <1>4
<1> QED
  BY <1>2, <1>4, <1>5, <1>7, <1>10, <1>11

(* Only a deposit makes shares.                                            *)
LEMMA OnlyDeposits ==
  ASSUME YieldInv, YieldNext, totalSupply' > totalSupply
  PROVE  \E want \in Pairs : Deposit(want)
<1>1. totalSupply \in Nat
  BY DEF YieldInv, YieldTypeOK
<1>2. ASSUME totalSupply' = totalSupply PROVE FALSE
  BY <1>1, <1>2
<1>3. CASE \E want \in Pairs : Deposit(want)
  BY <1>3
<1>4. CASE \E shares \in 1..totalSupply : Withdraw(shares)
  <2>1. PICK shares \in 1..totalSupply : Withdraw(shares)
    BY <1>4
  <2>2. totalSupply' = totalSupply - shares
    BY <2>1 DEF Withdraw
  <2> QED
    BY <1>1, <2>1, <2>2
<1>5. CASE Rebalance
  BY <1>2, <1>5, Zenon DEF Rebalance
<1>6. CASE \E amount \in Pairs : CollectProtocol(amount)
  BY <1>2, <1>6, Zenon DEF CollectProtocol
<1>7. CASE \E fee \in ProtocolFees : SetProtocolFee(fee)
  BY <1>2, <1>7, Zenon DEF SetProtocolFee
<1>8. CASE \E cap \in SupplyCaps : SetMaxTotalSupply(cap)
  BY <1>2, <1>8, Zenon DEF SetMaxTotalSupply
<1>9. CASE \E r \in Ranges, l \in Amounts : EmergencyBurn(r, l)
  BY <1>2, <1>9, Zenon DEF EmergencyBurn
<1>10. CASE \E t \in Tokens : Donate(t)
  BY <1>2, <1>10, Zenon DEF Donate
<1>11. CASE \E to \in Ticks, fees \in Earned : Swap(to, fees)
  BY <1>2, <1>11, Zenon DEF Swap
<1> QED
  BY <1>3, <1>4, <1>5, <1>6, <1>7, <1>8, <1>9, <1>10, <1>11, Zenon DEF YieldNext

(* No more than its worth is asked for a share: what S shares are worth, u *)
(* of w after the poke, grows by p at least in their proportion.           *)
LEMMA SharesKeepWorth ==
  ASSUME NEW u \in Nat, NEW w \in Nat, u <= w, NEW p \in Nat, NEW S \in Nat, NEW k \in Nat,
         w * k <= p * S
  PROVE  u * (S + k) <= (w + p) * S
<1>1. u * S <= w * S /\ u * k <= w * k
  BY ProductOrder
<1>2. u * (S + k) = u * S + u * k /\ (w + p) * S = w * S + p * S
  OBVIOUS
<1>3. /\ u * S \in Int /\ u * k \in Int /\ w * S \in Int /\ w * k \in Int /\ p * S \in Int
  OBVIOUS
<1> QED
  BY <1>1, <1>2, <1>3

LEMMA DepositKeepsWorth ==
  ASSUME YieldInv, YieldInv', FeesCovered, totalSupply > 0, NEW want \in Pairs, Deposit(want),
         NEW t \in Tokens
  PROVE  Total(t) * totalSupply' <= Total(t)' * totalSupply
<1>1. PICK paid \in [Tokens -> Nat], shares \in Nat :
        /\ PayIn(paid, shares)
        /\ totalSupply > 0 => \A s \in Tokens : TotalWith(Poked, s) * shares <= paid[s] * totalSupply
  BY DepositPays DEF YieldInv
<1>2. /\ Total(t)' = TotalWith(Poked, t) + paid[t]
      /\ Total(t) \in Nat /\ TotalWith(Poked, t) \in Nat /\ Total(t) <= TotalWith(Poked, t)
  BY <1>1, PayInTotal
<1>3. TotalWith(Poked, t) * shares <= paid[t] * totalSupply
  BY <1>1
<1>4. totalSupply' = totalSupply + shares /\ totalSupply \in Nat /\ paid[t] \in Nat
  BY <1>1 DEF PayIn, YieldInv, YieldTypeOK
<1> DEFINE u == Total(t)
           w == TotalWith(Poked, t)
           p == paid[t]
<1>5. u \in Nat /\ w \in Nat /\ u <= w /\ p \in Nat /\ w * shares <= p * totalSupply
  BY <1>2, <1>3, <1>4
<1> HIDE DEF u, w, p
<1>6. u * (totalSupply + shares) <= (w + p) * totalSupply
  BY <1>4, <1>5, SharesKeepWorth
<1> QED
  BY <1>2, <1>4, <1>6 DEF u, w, p

(* No deposit makes a share worth less of either token, whatever the       *)
(* rounding of amounts and shares and whatever fees the deposit pokes      *)
(* (src/src/Yield.sol:126-167).                                            *)
THEOREM DepositsNeverDilute == YieldSpec => DepositNeverDilutes
<1>1. ASSUME YieldInv, YieldInv', [YieldNext]_yieldVars
      PROVE  [FeesCovered /\ totalSupply > 0 /\ totalSupply' > totalSupply =>
                \A t \in Tokens : Total(t) * totalSupply' <= Total(t)' * totalSupply]_yieldVars
  <2>1. CASE UNCHANGED yieldVars
    BY <2>1
  <2>2. CASE YieldNext
    <3>1. ASSUME FeesCovered, totalSupply > 0, totalSupply' > totalSupply, NEW t \in Tokens
          PROVE  Total(t) * totalSupply' <= Total(t)' * totalSupply
      <4>1. PICK want \in Pairs : Deposit(want)
        BY <1>1, <2>2, <3>1, OnlyDeposits
      <4> QED
        BY <1>1, <3>1, <4>1, DepositKeepsWorth
    <3> QED
      BY <3>1
  <2> QED
    BY <1>1, <2>1, <2>2
<1> QED
  BY <1>1, YieldInvariant, PTL DEF YieldSpec, DepositNeverDilutes

(* The parts of a sum of fees that go to the protocol and to the shares,   *)
(* each rounded down, leave one unit at most; what a mint costs is one     *)
(* unit above what the position holds at most.                             *)
LEMMA PartsLeave ==
  ASSUME NEW n \in Nat, NEW d \in Nat \ {0}, NEW k \in 0..d
  PROVE  /\ (n * k) \div d \in Nat /\ (n * (d - k)) \div d \in Nat
         /\ n - (n * k) \div d - (n * (d - k)) \div d \in 0..1
<1> DEFINE a == n * k
           b == n * (d - k)
           p == a \div d
           q == b \div d
           m == n * d
<1>1. a \in Nat /\ b \in Nat /\ a + b = m
  OBVIOUS
<1>2. p \in Nat /\ p * d <= a /\ a < p * d + d /\ q \in Nat /\ q * d <= b /\ b < q * d + d
  BY <1>1, Down
<1> HIDE DEF a, b, p, q
<1>3. (p + q) * d = p * d + q * d /\ (p + q + 2) * d = p * d + d + (q * d + d)
      /\ (n + 1) * d = m + d /\ p * d \in Int /\ q * d \in Int /\ m \in Int
  BY <1>2
<1> HIDE DEF m
<1>4. (p + q) * d < (n + 1) * d
  BY <1>1, <1>2, <1>3
<1>5. p + q < n + 1
  BY <1>2, <1>4, ProductCancel
<1>6. n * d < (p + q + 2) * d
  BY <1>1, <1>2, <1>3 DEF m
<1>7. n < p + q + 2
  BY <1>2, <1>6, ProductCancel
<1> QED
  BY <1>2, <1>5, <1>7 DEF a, b, p, q

LEMMA MintLeaves ==
  ASSUME NEW r \in Ranges, NEW l \in Nat, NEW t \in Tokens, tick \in MIN_TICK..MAX_TICK
  PROVE  /\ Cost(r, l, t) \in Nat /\ Content(r, l, t) \in Nat
         /\ Cost(r, l, t) - Content(r, l, t) \in 0..1
<1> DEFINE n == l * Weight(r, t)
           q == n \div SCALE
           u == RoundedUp(n, SCALE)
<1>1. n \in Nat /\ SCALE \in Nat \ {0}
  BY WeightTyped, YieldAssumption
<1> HIDE DEF n
<1>2. q \in Nat /\ q * SCALE <= n /\ n < q * SCALE + SCALE
  BY <1>1, Down
<1>3. u \in Nat /\ n <= u * SCALE /\ \A b \in Nat : n <= b * SCALE => u <= b
  BY <1>1, UpTyped
<1> HIDE DEF q, u
<1>4. /\ (q + 1) * SCALE = q * SCALE + SCALE /\ (u + 1) * SCALE = u * SCALE + SCALE
      /\ q * SCALE \in Int /\ u * SCALE \in Int
  BY <1>1, <1>2, <1>3
<1>5. u <= q + 1
  BY <1>1, <1>2, <1>3, <1>4
<1>6. q * SCALE < (u + 1) * SCALE
  BY <1>1, <1>2, <1>3, <1>4
<1>7. q < u + 1
  BY <1>1, <1>2, <1>3, <1>6, ProductCancel
<1>8. Cost(r, l, t) = u /\ Content(r, l, t) = q
  BY DEF Cost, Content, u, q, n
<1> QED
  BY <1>2, <1>3, <1>5, <1>7, <1>8

(* So a rebalance leaves to the shares what they stood for, but for a      *)
(* unit: neither the fees set aside nor the balances wrap where the vault  *)
(* is worth less than the modulus.                                         *)
LEMMA RebalanceTotal ==
  ASSUME YieldInv, FeesCovered, Rebalance, NEW t \in Tokens, Worth(t) < Modulus
  PROVE  Total(t)' - TotalWith(Poked, t) \in -1..1
<1> DEFINE l == liquidity[base]
           R == NewRange
           f == Fees(base, l, t)
           p == ToProtocol(base, l, t)
           c == Content(base, l, t)
           part == (f * (FEE_UNIT - protocolFee)) \div FEE_UNIT
           have(s) == held[s] + Collected(base, l, s)
           due(s) == Plus(accrued[s], ToProtocol(base, l, s))
           b == [s \in Tokens |-> Minus(have(s), due(s))]
           new == LiquidityFor(R, b)
           u == Cost(R, new, t)
           q == Content(R, new, t)
<1>1. YieldTypeOK /\ base \in Ranges /\ l \in Nat /\ tick \in MIN_TICK..MAX_TICK
  BY DEF YieldInv, YieldTypeOK
<1>2. R \in Ranges /\ R[1] < R[2]
  BY <1>1, NewRangeTyped
<1>3. /\ held' = [s \in Tokens |-> have(s) - Cost(R, new, s)]
      /\ accrued' = [s \in Tokens |-> due(s)]
      /\ liquidity' = [RetiredBase(base) EXCEPT ![R] = @ + new]
      /\ owed' = Emptied(owed, base) /\ base' = R
      /\ protocolFee' = protocolFee /\ tick' = tick
  <2> DEFINE have2 == [s \in Tokens |-> have(s)]
             due2 == [s \in Tokens |-> due(s)]
  <2>1. [s \in Tokens |-> Minus(have2[s], due2[s])] = b
    OBVIOUS
  <2> QED
    BY <2>1 DEF Rebalance
<1>4. /\ held[t] \in Nat /\ accrued[t] \in Nat /\ accrued[t] <= held[t]
      /\ Modulus \in Nat /\ FEE_UNIT \in Nat \ {0} /\ protocolFee \in 0..FEE_UNIT
  BY <1>1, YieldAssumption DEF YieldTypeOK, FeesCovered
<1>5. /\ f \in Nat /\ p \in Nat /\ p <= f /\ c \in Nat
      /\ have(t) = held[t] + (c + f) /\ Poked[t] = f /\ held[t] + c + f < Modulus
  <2>1. f \in Nat /\ p \in Nat /\ f - p \in Nat /\ c \in Nat /\ Collected(base, l, t) = c + f
    BY <1>1, FeesDivided
  <2>2. owed[base][t] \in Nat /\ pending[base][t] \in Nat
    BY <1>1 DEF YieldTypeOK
  <2>3. f <= owed[base][t] + pending[base][t]
    BY <2>2 DEF Fees
  <2>4. Poked[t] = f
    BY <1>1, <2>2 DEF Poked, Fees
  <2>5. held[t] + c + owed[base][t] + pending[base][t] < Modulus
    BY DEF Worth
  <2> HIDE DEF f, p, c
  <2> QED
    BY <1>4, <2>1, <2>2, <2>3, <2>4, <2>5
<1>6. part \in Nat /\ (f - p) - part \in 0..1
  <2> HIDE DEF f
  <2>1. /\ (f * protocolFee) \div FEE_UNIT \in Nat /\ part \in Nat
        /\ f - (f * protocolFee) \div FEE_UNIT - part \in 0..1
    BY <1>4, <1>5, PartsLeave
  <2>2. p = (f * protocolFee) \div FEE_UNIT
    BY DEF ToProtocol, f
  <2> HIDE DEF p, part
  <2> QED
    BY <1>5, <2>1, <2>2
<1>7. TotalWith(Poked, t) = held[t] - accrued[t] + c + part
  <2>1. Poked \in [Tokens -> Nat] /\ Poked[t] <= owed[base][t] + pending[base][t]
    BY <1>1, PokedTyped
  <2> QED
    BY <1>1, <1>5, <2>1, TotalIs
<1> HIDE DEF f, p, c, part
<1>8. due(t) = accrued[t] + p /\ accrued[t] + p \in 0..(Modulus - 1)
  <2>1. accrued[t] + p \in 0..(Modulus - 1)
    BY <1>4, <1>5
  <2>2. (accrued[t] + p) % Modulus = accrued[t] + p
    BY <2>1, Wrapped
  <2> QED
    BY <2>1, <2>2 DEF Plus, p
<1>9. b \in [Tokens -> Nat] /\ b[t] = have(t) - due(t)
  <2>1. ASSUME NEW s \in Tokens PROVE b[s] \in Nat
    <3>1. held[s] \in Nat /\ accrued[s] \in Nat
      BY <1>1, YieldAssumption DEF YieldTypeOK
    <3>2. Collected(base, l, s) \in Nat /\ ToProtocol(base, l, s) \in Nat
      BY <1>1, FeesDivided
    <3>3. due(s) \in Int
      BY <3>1, <3>2, Wrapped DEF Plus
    <3>4. have(s) - due(s) \in Int
      <4> HIDE DEF due
      <4> QED
        BY <3>1, <3>2, <3>3
    <3> HIDE DEF have, due
    <3> QED
      BY <3>4, Wrapped DEF Minus
  <2>2. have(t) - due(t) \in 0..(Modulus - 1)
    <3> HIDE DEF have, due
    <3> QED
      BY <1>4, <1>5, <1>8
  <2>3. b[t] = (have(t) - due(t)) % Modulus
    BY DEF Minus
  <2> HIDE DEF have, due, b
  <2> QED
    BY <2>1, <2>2, <2>3, Wrapped DEF b
<1> HIDE DEF l, R, have, due, b
<1>10. new \in Nat /\ u <= b[t]
  BY <1>1, <1>2, <1>9, Affordable
<1>11. u \in Nat /\ q \in Nat /\ u - q \in 0..1
  <2> HIDE DEF new
  <2> QED
    BY <1>1, <1>2, <1>10, MintLeaves
<1>12. /\ held'[t] = have(t) - u /\ accrued'[t] = due(t)
       /\ owed'[R][t] = 0 /\ liquidity'[R] = new
  <2>1. liquidity \in [Ranges -> Nat] /\ \A r \in Ranges \ {base} : liquidity[r] = 0 /\ owed[r] = Nothing
    BY <1>1 DEF YieldTypeOK, YieldInv, NothingStranded
  <2>2. RetiredBase(base) = [r \in Ranges |-> 0]
    BY <1>1, <2>1 DEF RetiredBase
  <2>3. liquidity'[R] = 0 + new
    BY <1>2, <1>3, <2>2
  <2>4. Nothing[t] = 0
    BY DEF Nothing
  <2>5. Emptied(owed, base)[R] = Nothing
    BY <1>1, <1>2, <2>1, PoolAfter
  <2> HIDE DEF new
  <2> QED
    BY <1>3, <1>10, <2>3, <2>4, <2>5
<1> HIDE DEF new
<1>13. Total(t)' = ((((have(t) - u) - due(t)) % Modulus)
                      + (q + (0 * (FEE_UNIT - protocolFee)) \div FEE_UNIT)) % Modulus
  <2>1. Content(base, liquidity[base], t)' = q
    BY <1>3, <1>12 DEF Content, Weight
  <2> HIDE DEF q, u
  <2> QED
    BY <1>3, <1>12, <2>1 DEF Total, TotalWith, Balance, Plus, Minus
<1> HIDE DEF u, q
<1>14. (0 * (FEE_UNIT - protocolFee)) \div FEE_UNIT = 0
  <2>1. 0 * (FEE_UNIT - protocolFee) = 0
    BY <1>4
  <2>2. 0 \div FEE_UNIT = 0
    BY <1>4
  <2> QED
    BY <2>1, <2>2
<1> DEFINE x == (have(t) - u) - due(t)
<1>15. x \in 0..(Modulus - 1) /\ x + q \in 0..(Modulus - 1)
       /\ x = held[t] + (c + f) - u - (accrued[t] + p)
  BY <1>4, <1>5, <1>8, <1>9, <1>10, <1>11
<1>16. Total(t)' = x + q
  <2>1. Total(t)' = ((x % Modulus) + (q + 0)) % Modulus
    BY <1>13, <1>14
  <2> HIDE DEF x
  <2>2. x % Modulus = x
    BY <1>15, Wrapped
  <2>3. (x + q) % Modulus = x + q
    BY <1>15, Wrapped
  <2> QED
    BY <1>11, <2>1, <2>2, <2>3
<1> HIDE DEF x
<1> DEFINE total == Total(t)'
           poked == TotalWith(Poked, t)
<1>17. /\ total = held[t] + (c + f) - u - (accrued[t] + p) + q
       /\ poked = held[t] - accrued[t] + c + part
  BY <1>7, <1>15, <1>16
<1> HIDE DEF total, poked
<1>18. total - poked = ((f - p) - part) - (u - q)
  BY <1>4, <1>5, <1>6, <1>11, <1>17
<1>19. total - poked \in -1..1
  BY <1>4, <1>5, <1>6, <1>11, <1>18
<1> QED
  BY <1>19 DEF total, poked

(* A rebalance of a vault that is worth less than 2^256 of each token      *)
(* leaves to the shares what they stood for, poked fees included, but for  *)
(* one unit of each token (src/src/Yield.sol:221-246 and 249-294).         *)
THEOREM RebalancesKeepTotal == YieldSpec => RebalanceKeepsTotal
<1>1. ASSUME YieldInv
      PROVE  [FeesCovered /\ (\A t \in Tokens : Worth(t) < Modulus) /\ Rebalance =>
                \A t \in Tokens : Total(t)' - TotalWith(Poked, t) \in -1..1]_yieldVars
  BY <1>1, RebalanceTotal
<1> QED
  BY <1>1, YieldInvariant, PTL DEF YieldSpec, RebalanceKeepsTotal

-----------------------------------------------------------------------------
USE PairAssumption

\* What a swap pays out it has read in the reserves first.
FrameOK == frame.out0 <= frame.r0 /\ frame.out1 <= frame.r1

\* While a swap is open the reserves are those of its frame, unless a sync
\* has taken its turn, and then the accumulators are up to date.
FrameIsFresh ==
  ~unlocked /\ now < TimeModulus =>
    \/ reserve0 = frame.r0 /\ reserve1 = frame.r1
    \/ blockTimestampLast = now

PInv == PairTypeOK /\ ReservesBacked /\ FrameOK /\ FrameIsFresh /\ PricesIntegrated

ProductStep == SettledProduct \in Nat /\ SettledProduct' \in Nat
               /\ SettledProduct' >= SettledProduct

StepGoal == PInv' /\ ProductStep

LEMMA PriceType == \A r, per \in Nat : Price(r, per) \in Nat
<1> SUFFICES ASSUME NEW r \in Nat, NEW per \in Nat
             PROVE  Price(r, per) \in Nat
  OBVIOUS
<1>1. r * Q112 \in Nat
  OBVIOUS
<1> DEFINE n == r * Q112
<1> HIDE DEF n
<1>2. n \in Nat => (per # 0 => n \div per \in Nat)
  OBVIOUS
<1> QED
  BY <1>1, <1>2 DEF Price, n

(* The check of line 272, fee included, is stronger than the product's.    *)
LEMMA KImpliesProduct ==
  ASSUME NEW b0 \in Nat, NEW b1 \in Nat,
         NEW f \in [r0 : Nat, r1 : Nat, out0 : Nat, out1 : Nat],
         f.out0 <= f.r0, f.out1 <= f.r1, KHolds(b0, b1, f)
  PROVE  b0 * b1 >= f.r0 * f.r1
<1> DEFINE in0 == AmountIn(b0, f.r0, f.out0)
           in1 == AmountIn(b1, f.r1, f.out1)
           a0 == Adjusted(b0, in0)
           a1 == Adjusted(b1, in1)
<1>1. in0 \in 0..b0 /\ in1 \in 0..b1
  BY DEF AmountIn
<1>2. a0 * a1 >= f.r0 * f.r1 * (1000 * 1000)
  BY DEF KHolds
<1> HIDE DEF in0, in1
<1>3. a0 \in 0..(b0 * 1000) /\ a1 \in 0..(b1 * 1000)
  BY <1>1 DEF Adjusted
<1> HIDE DEF a0, a1
<1>4. a0 * a1 <= (b0 * 1000) * (b1 * 1000)
  <2>1. \A p, q, r, s \in Nat : p <= q /\ r <= s => p * r <= q * s
    <3> SUFFICES ASSUME NEW p \in Nat, NEW q \in Nat, NEW r \in Nat, NEW s \in Nat,
                        p <= q, r <= s
                 PROVE  p * r <= q * s
      OBVIOUS
    <3>1. p * r <= q * r
      OBVIOUS
    <3>2. q * r <= q * s
      OBVIOUS
    <3>3. p * r \in Int /\ q * r \in Int /\ q * s \in Int
      OBVIOUS
    <3> QED
      BY <3>1, <3>2, <3>3
  <2>2. a0 \in Nat /\ a1 \in Nat /\ b0 * 1000 \in Nat /\ b1 * 1000 \in Nat
    BY <1>3
  <2> QED
    BY <1>3, <2>1, <2>2
<1> DEFINE k == b0 * b1
           l == f.r0 * f.r1
<1>5. k \in Nat /\ l \in Nat /\ (b0 * 1000) * (b1 * 1000) = k * 1000000
      /\ f.r0 * f.r1 * (1000 * 1000) = l * 1000000 /\ a0 * a1 \in Int
  BY <1>3
<1> HIDE DEF k, l
<1>6. k * 1000000 >= l * 1000000
  BY <1>2, <1>4, <1>5
<1> QED
  BY <1>5, <1>6 DEF k, l

(* What _update does to the storage, given the balances and the reserves   *)
(* it accumulates the price of.                                            *)
LEMMA UpdateFacts ==
  ASSUME PairTypeOK, NEW b0 \in Nat, NEW b1 \in Nat, NEW r0 \in Nat, NEW r1 \in Nat,
         Update(b0, b1, r0, r1)
  PROVE  /\ reserve0' = b0 /\ reserve1' = b1
         /\ reserve0' \in 0..MaxU112 /\ reserve1' \in 0..MaxU112
         /\ blockTimestampLast' \in 0..(TimeModulus - 1)
         /\ price0CumulativeLast' \in Nat /\ price1CumulativeLast' \in Nat
         /\ now < TimeModulus =>
              /\ blockTimestampLast' = now
              /\ price0CumulativeLast'
                   = price0CumulativeLast + Price(r1, r0) * (now - blockTimestampLast)
              /\ price1CumulativeLast'
                   = price1CumulativeLast + Price(r0, r1) * (now - blockTimestampLast)
<1> DEFINE timestamp == now % TimeModulus
           elapsed == timestamp - blockTimestampLast
<1>1. now \in Nat /\ TimeModulus \in Nat \ {0} /\ blockTimestampLast \in Nat
  BY DEF PairTypeOK
<1>2. timestamp \in 0..(TimeModulus - 1) /\ (now < TimeModulus => timestamp = now)
  BY <1>1
<1>3. elapsed \in Nat /\ b0 <= MaxU112 /\ b1 <= MaxU112
  BY <1>1, <1>2 DEF Update
<1>4. Price(r1, r0) * elapsed \in Nat /\ Price(r0, r1) * elapsed \in Nat
  <2>1. Price(r1, r0) \in Nat /\ Price(r0, r1) \in Nat
    BY PriceType
  <2>2. \A a, b \in Nat : a * b \in Nat
    OBVIOUS
  <2> HIDE DEF elapsed
  <2> QED
    BY <1>3, <2>1, <2>2
<1>5. /\ price0CumulativeLast' = price0CumulativeLast + Price(r1, r0) * elapsed
      /\ price1CumulativeLast' = price1CumulativeLast + Price(r0, r1) * elapsed
      /\ reserve0' = b0 /\ reserve1' = b1 /\ blockTimestampLast' = timestamp
  BY DEF Update
<1>6. price0CumulativeLast \in Nat /\ price1CumulativeLast \in Nat
  BY DEF PairTypeOK
<1> HIDE DEF timestamp
<1> QED
  BY <1>2, <1>3, <1>4, <1>5, <1>6

(* After an update the integrals and the accumulators agree, provided they *)
(* did and the update took the price that stood since the last one.        *)
LEMMA UpdateIntegrates ==
  ASSUME PInv, NEW b0 \in Nat, NEW b1 \in Nat, NEW r0 \in Nat, NEW r1 \in Nat,
         Update(b0, b1, r0, r1), UNCHANGED clock,
         now < TimeModulus =>
           (r0 = reserve0 /\ r1 = reserve1) \/ blockTimestampLast = now
  PROVE  PricesIntegrated'
<1> SUFFICES ASSUME now' < TimeModulus
             PROVE  LET elapsed == now' - blockTimestampLast' IN
                    /\ integral0' = price0CumulativeLast' + Price(reserve1', reserve0') * elapsed
                    /\ integral1' = price1CumulativeLast' + Price(reserve0', reserve1') * elapsed
  BY DEF PricesIntegrated, Price
<1>0. PairTypeOK /\ PricesIntegrated
  BY DEF PInv
<1>1. now' = now /\ integral0' = integral0 /\ integral1' = integral1
  BY DEF clock
<1>2. /\ now < TimeModulus /\ now \in Nat /\ blockTimestampLast \in Nat
      /\ integral0 \in Nat /\ integral1 \in Nat
      /\ price0CumulativeLast \in Nat /\ price1CumulativeLast \in Nat
      /\ reserve0 \in Nat /\ reserve1 \in Nat
  BY <1>0, <1>1 DEF PairTypeOK
<1> DEFINE e == now - blockTimestampLast
           p == Price(reserve1, reserve0)
           q == Price(reserve0, reserve1)
           pr == Price(r1, r0)
           qr == Price(r0, r1)
<1>3. integral0 = price0CumulativeLast + p * e /\ integral1 = price1CumulativeLast + q * e
  BY <1>0, <1>2 DEF PricesIntegrated
<1>4. /\ blockTimestampLast' = now /\ reserve0' = b0 /\ reserve1' = b1
      /\ price0CumulativeLast' = price0CumulativeLast + pr * e
      /\ price1CumulativeLast' = price1CumulativeLast + qr * e
  BY <1>0, <1>2, UpdateFacts
<1>5. (pr = p /\ qr = q) \/ e = 0
  BY <1>2
<1>6. p \in Nat /\ q \in Nat /\ pr \in Nat /\ qr \in Nat /\ e \in Int
  <2>1. e \in Int
    BY <1>2
  <2> HIDE DEF e
  <2> QED
    BY <1>2, <2>1, PriceType
<1>7. Price(b1, b0) \in Nat /\ Price(b0, b1) \in Nat
  BY PriceType
<1> HIDE DEF e, p, q, pr, qr
<1>8. integral0 = price0CumulativeLast' /\ integral1 = price1CumulativeLast'
  BY <1>2, <1>3, <1>4, <1>5, <1>6
<1> QED
  BY <1>1, <1>2, <1>4, <1>7, <1>8

-----------------------------------------------------------------------------
LEMMA PairInitInv == Init => PInv /\ Product!Init
<1> SUFFICES ASSUME Init PROVE PInv /\ Product!Init
  OBVIOUS
<1>1. PairTypeOK
  BY DEF Init, PairInit, PairTypeOK, Idle
<1>2. ReservesBacked /\ FrameOK /\ FrameIsFresh
  BY DEF Init, PairInit, Idle, ReservesBacked, FrameOK, FrameIsFresh
<1>3. PricesIntegrated
  BY DEF Init, PairInit, PricesIntegrated, Price
<1>4. Product!Init
  BY DEF Init, PairInit, Product!Init, SettledProduct
<1> QED
  BY <1>1, <1>2, <1>3, <1>4 DEF PInv

(* The typing that every step starts from, as numbers.                     *)
LEMMA PairNumbers ==
  ASSUME PairTypeOK
  PROVE  /\ reserve0 \in Nat /\ reserve1 \in Nat
         /\ bal0[PairAddr] \in Nat /\ bal1[PairAddr] \in Nat
         /\ frame \in [r0 : Nat, r1 : Nat, out0 : Nat, out1 : Nat]
         /\ SettledProduct \in Nat
<1>1. /\ reserve0 \in Nat /\ reserve1 \in Nat
      /\ bal0[PairAddr] \in Nat /\ bal1[PairAddr] \in Nat
      /\ frame \in [r0 : Nat, r1 : Nat, out0 : Nat, out1 : Nat]
  BY DEF PairTypeOK
<1>2. reserve0 * reserve1 \in Nat /\ frame.r0 * frame.r1 \in Nat
  BY <1>1
<1> QED
  BY <1>1, <1>2 DEF SettledProduct

(* A step that leaves the storage, the lock and the clock alone and does   *)
(* not take the pair below its reserves.                                   *)
LEMMA OnlyTokens ==
  ASSUME PInv, UNCHANGED <<slot, lock, clock>>,
         bal0' \in [Accounts -> Nat], bal1' \in [Accounts -> Nat],
         unlocked => bal0'[PairAddr] >= reserve0 /\ bal1'[PairAddr] >= reserve1
  PROVE  StepGoal
<1>1. PairTypeOK /\ ReservesBacked /\ FrameOK /\ FrameIsFresh /\ PricesIntegrated
  BY DEF PInv
<1>2. /\ UNCHANGED <<reserve0, reserve1, blockTimestampLast>>
      /\ UNCHANGED <<price0CumulativeLast, price1CumulativeLast, unlocked, frame>>
      /\ UNCHANGED <<now, integral0, integral1>>
  BY DEF slot, lock, clock
<1>3. PairTypeOK'
  BY <1>1, <1>2 DEF PairTypeOK
<1>4. ReservesBacked' /\ FrameOK' /\ FrameIsFresh' /\ PricesIntegrated'
  BY <1>1, <1>2 DEF ReservesBacked, FrameOK, FrameIsFresh, PricesIntegrated, Price
<1>5. SettledProduct' = SettledProduct
  BY <1>2 DEF SettledProduct
<1> QED
  BY <1>1, <1>3, <1>4, <1>5, PairNumbers DEF StepGoal, ProductStep, PInv

LEMMA SwapBeginStep ==
  ASSUME PInv, NEW amount0Out \in Nat, NEW amount1Out \in Nat, NEW to \in Accounts,
         SwapBegin(amount0Out, amount1Out, to)
  PROVE  StepGoal
<1>0. PairTypeOK /\ ReservesBacked /\ PricesIntegrated
  BY DEF PInv
<1>1. bal0' \in [Accounts -> Nat] /\ bal1' \in [Accounts -> Nat]
  BY <1>0, MovedFacts DEF SwapBegin, PairTypeOK
<1>2. /\ UNCHANGED <<reserve0, reserve1, blockTimestampLast>>
      /\ UNCHANGED <<price0CumulativeLast, price1CumulativeLast>>
      /\ UNCHANGED <<now, integral0, integral1>>
      /\ unlocked /\ unlocked' = FALSE
      /\ frame' = [r0 |-> reserve0, r1 |-> reserve1,
                   out0 |-> amount0Out, out1 |-> amount1Out]
      /\ amount0Out < reserve0 /\ amount1Out < reserve1
  BY DEF SwapBegin, slot, clock
<1>3. PairTypeOK'
  BY <1>0, <1>1, <1>2 DEF PairTypeOK
<1>4. ReservesBacked' /\ FrameOK' /\ FrameIsFresh'
  BY <1>0, <1>2, PairNumbers DEF ReservesBacked, FrameOK, FrameIsFresh
<1>5. PricesIntegrated'
  BY <1>0, <1>2 DEF PricesIntegrated, Price
<1>6. SettledProduct' = SettledProduct
  BY <1>2 DEF SettledProduct
<1> QED
  BY <1>0, <1>3, <1>4, <1>5, <1>6, PairNumbers DEF StepGoal, ProductStep, PInv

LEMMA SwapEndStep ==
  ASSUME PInv, SwapEnd
  PROVE  StepGoal
<1> DEFINE b0 == bal0[PairAddr]
           b1 == bal1[PairAddr]
<1>0. PairTypeOK /\ FrameOK /\ FrameIsFresh
  BY DEF PInv
<1>1. /\ ~unlocked /\ KHolds(b0, b1, frame) /\ Update(b0, b1, frame.r0, frame.r1)
      /\ unlocked' = TRUE /\ frame' = Idle /\ UNCHANGED <<bal0, bal1>>
      /\ UNCHANGED clock /\ UNCHANGED <<now, integral0, integral1>>
  BY DEF SwapEnd, ledgers, clock
<1>2. /\ b0 \in Nat /\ b1 \in Nat
      /\ frame.r0 \in Nat /\ frame.r1 \in Nat
      /\ frame \in [r0 : Nat, r1 : Nat, out0 : Nat, out1 : Nat]
  BY <1>0, PairNumbers
<1> HIDE DEF b0, b1
<1>3. /\ reserve0' = b0 /\ reserve1' = b1
      /\ reserve0' \in 0..MaxU112 /\ reserve1' \in 0..MaxU112
      /\ blockTimestampLast' \in 0..(TimeModulus - 1)
      /\ price0CumulativeLast' \in Nat /\ price1CumulativeLast' \in Nat
  BY <1>0, <1>1, <1>2, UpdateFacts
<1>4. PairTypeOK'
  BY <1>0, <1>1, <1>3 DEF PairTypeOK, Idle
<1>5. ReservesBacked' /\ FrameOK' /\ FrameIsFresh'
  BY <1>1, <1>2, <1>3 DEF ReservesBacked, FrameOK, FrameIsFresh, Idle, b0, b1
<1>6. PricesIntegrated'
  BY <1>0, <1>1, <1>2, UpdateIntegrates DEF FrameIsFresh
<1>7. b0 * b1 >= frame.r0 * frame.r1
  BY <1>0, <1>1, <1>2, KImpliesProduct DEF FrameOK
<1>8. /\ SettledProduct = frame.r0 * frame.r1 /\ SettledProduct' = b0 * b1
      /\ b0 * b1 \in Nat /\ frame.r0 * frame.r1 \in Nat
  BY <1>1, <1>2, <1>3 DEF SettledProduct
<1> QED
  BY <1>4, <1>5, <1>6, <1>7, <1>8 DEF StepGoal, ProductStep, PInv

LEMMA SyncStep ==
  ASSUME PInv, Sync
  PROVE  StepGoal
<1> DEFINE b0 == bal0[PairAddr]
           b1 == bal1[PairAddr]
<1>0. PairTypeOK /\ ReservesBacked /\ FrameOK
  BY DEF PInv
<1>1. /\ Update(b0, b1, reserve0, reserve1)
      /\ UNCHANGED <<bal0, bal1, unlocked, frame>>
      /\ UNCHANGED clock /\ UNCHANGED <<now, integral0, integral1>>
  BY DEF Sync, ledgers, lock, clock
<1>2. /\ b0 \in Nat /\ b1 \in Nat /\ reserve0 \in Nat /\ reserve1 \in Nat
      /\ unlocked => b0 >= reserve0 /\ b1 >= reserve1
  BY <1>0, PairNumbers DEF ReservesBacked
<1>3. /\ reserve0' = b0 /\ reserve1' = b1
      /\ reserve0' \in 0..MaxU112 /\ reserve1' \in 0..MaxU112
      /\ blockTimestampLast' \in 0..(TimeModulus - 1)
      /\ price0CumulativeLast' \in Nat /\ price1CumulativeLast' \in Nat
      /\ now < TimeModulus => blockTimestampLast' = now
  BY <1>0, <1>1, <1>2, UpdateFacts
<1>4. PairTypeOK'
  BY <1>0, <1>1, <1>3 DEF PairTypeOK
<1>5. ReservesBacked' /\ FrameOK' /\ FrameIsFresh'
  BY <1>0, <1>1, <1>2, <1>3 DEF ReservesBacked, FrameOK, FrameIsFresh
<1> HIDE DEF b0, b1
<1>6. PricesIntegrated'
  BY <1>1, <1>2, UpdateIntegrates
<1>7. unlocked => b0 * b1 >= reserve0 * reserve1
  <2> SUFFICES ASSUME unlocked PROVE b0 * b1 >= reserve0 * reserve1
    OBVIOUS
  <2>1. b0 * b1 >= b0 * reserve1
    BY <1>2
  <2>2. b0 * reserve1 >= reserve0 * reserve1
    BY <1>2
  <2>3. b0 * b1 \in Int /\ b0 * reserve1 \in Int /\ reserve0 * reserve1 \in Int
    BY <1>2
  <2> QED
    BY <2>1, <2>2, <2>3
<1>8. b0 * b1 \in Nat
  BY <1>2
<1>9. SettledProduct \in Nat /\ SettledProduct' \in Nat /\ SettledProduct' >= SettledProduct
  BY <1>0, <1>1, <1>3, <1>7, <1>8, PairNumbers DEF SettledProduct
<1> QED
  BY <1>4, <1>5, <1>6, <1>9 DEF StepGoal, ProductStep, PInv

LEMMA SkimStep ==
  ASSUME PInv, NEW to \in Accounts, Skim(to)
  PROVE  StepGoal
<1> DEFINE v0 == bal0[PairAddr] - reserve0
           v1 == bal1[PairAddr] - reserve1
<1>0. PairTypeOK
  BY DEF PInv
<1>1. /\ bal0' = Moved(bal0, PairAddr, to, v0) /\ bal1' = Moved(bal1, PairAddr, to, v1)
      /\ UNCHANGED <<slot, lock, clock>>
      /\ bal0[PairAddr] >= reserve0 /\ bal1[PairAddr] >= reserve1
  BY DEF Skim
<1>2. /\ v0 \in Nat /\ v1 \in Nat
      /\ CanPay(bal0, PairAddr, v0) /\ CanPay(bal1, PairAddr, v1)
      /\ bal0[PairAddr] \in Nat /\ reserve0 \in Nat /\ bal0[PairAddr] - v0 = reserve0
      /\ bal1[PairAddr] \in Nat /\ reserve1 \in Nat /\ bal1[PairAddr] - v1 = reserve1
  BY <1>0, <1>1, PairNumbers DEF CanPay
<1> HIDE DEF v0, v1
<1>3. bal0' \in [Accounts -> Nat] /\ bal0'[PairAddr] >= reserve0
  <2>1. bal0' \in [Accounts -> Nat]
    BY <1>0, <1>1, <1>2, MovedFacts DEF PairTypeOK
  <2>2. /\ PairAddr # to => bal0'[PairAddr] = bal0[PairAddr] - v0
        /\ PairAddr = to => bal0'[to] = bal0[to]
    BY <1>0, <1>1, <1>2, MovedFacts DEF PairTypeOK
  <2> QED
    BY <1>1, <1>2, <2>1, <2>2
<1>4. bal1' \in [Accounts -> Nat] /\ bal1'[PairAddr] >= reserve1
  <2>1. bal1' \in [Accounts -> Nat]
    BY <1>0, <1>1, <1>2, MovedFacts DEF PairTypeOK
  <2>2. /\ PairAddr # to => bal1'[PairAddr] = bal1[PairAddr] - v1
        /\ PairAddr = to => bal1'[to] = bal1[to]
    BY <1>0, <1>1, <1>2, MovedFacts DEF PairTypeOK
  <2> QED
    BY <1>1, <1>2, <2>1, <2>2
<1> QED
  BY <1>1, <1>3, <1>4, OnlyTokens

LEMMA TokensMoveStep ==
  ASSUME PInv, TokensMove
  PROVE  StepGoal
<1> DEFINE S == Accounts \ {PairAddr}
<1>0. PairTypeOK /\ ReservesBacked /\ S \subseteq Accounts /\ PairAddr \in Accounts \ S
  BY DEF PInv
<1>1. /\ bal0' \in LedgerSteps(bal0, S) /\ bal1' \in LedgerSteps(bal1, S)
      /\ UNCHANGED <<slot, lock, clock>>
  BY DEF TokensMove
<1> HIDE DEF S
<1>2. bal0' \in [Accounts -> Nat] /\ bal0'[PairAddr] >= bal0[PairAddr]
  BY <1>0, <1>1, LedgerStepsFacts DEF PairTypeOK
<1>3. bal1' \in [Accounts -> Nat] /\ bal1'[PairAddr] >= bal1[PairAddr]
  BY <1>0, <1>1, LedgerStepsFacts DEF PairTypeOK
<1>4. /\ bal0[PairAddr] \in Nat /\ bal1[PairAddr] \in Nat
      /\ bal0'[PairAddr] \in Nat /\ bal1'[PairAddr] \in Nat
      /\ reserve0 \in Nat /\ reserve1 \in Nat
  BY <1>0, <1>2, <1>3, PairNumbers
<1>5. unlocked => bal0'[PairAddr] >= reserve0 /\ bal1'[PairAddr] >= reserve1
  BY <1>0, <1>2, <1>3, <1>4 DEF ReservesBacked
<1> QED
  BY <1>1, <1>2, <1>3, <1>5, OnlyTokens

LEMMA TickStep ==
  ASSUME PInv, Tick
  PROVE  StepGoal
<1>0. PairTypeOK /\ ReservesBacked /\ FrameOK /\ PricesIntegrated
  BY DEF PInv
<1>1. /\ UNCHANGED <<bal0, bal1, reserve0, reserve1, blockTimestampLast>>
      /\ UNCHANGED <<price0CumulativeLast, price1CumulativeLast, unlocked, frame>>
      /\ unlocked /\ now' = now + 1
      /\ integral0' = integral0 + Price(reserve1, reserve0)
      /\ integral1' = integral1 + Price(reserve0, reserve1)
  BY DEF Tick, ledgers, slot, lock
<1>2. Price(reserve1, reserve0) \in Nat /\ Price(reserve0, reserve1) \in Nat
  <2>1. reserve0 \in Nat /\ reserve1 \in Nat
    BY <1>0, PairNumbers
  <2> QED
    BY <2>1, PriceType
<1>3. PairTypeOK'
  BY <1>0, <1>1, <1>2 DEF PairTypeOK
<1>4. ReservesBacked' /\ FrameOK' /\ FrameIsFresh'
  BY <1>0, <1>1 DEF ReservesBacked, FrameOK, FrameIsFresh
<1>5. PricesIntegrated'
  <2> DEFINE p == Price(reserve1, reserve0)
             q == Price(reserve0, reserve1)
             e == now - blockTimestampLast
  <2>1. SUFFICES ASSUME now' < TimeModulus
                 PROVE  /\ integral0' = price0CumulativeLast + p * (e + 1)
                        /\ integral1' = price1CumulativeLast + q * (e + 1)
    <3>1. now' - blockTimestampLast' = e + 1
      BY <1>0, <1>1 DEF PairTypeOK
    <3>2. Price(reserve1, reserve0)' = p /\ Price(reserve0, reserve1)' = q
      BY <1>1 DEF Price
    <3> QED
      BY <1>1, <3>1, <3>2 DEF PricesIntegrated
  <2>2. now < TimeModulus /\ e \in Int
    BY <1>0, <1>1, <2>1 DEF PairTypeOK
  <2>3. integral0 = price0CumulativeLast + p * e /\ integral1 = price1CumulativeLast + q * e
    BY <1>0, <2>2 DEF PricesIntegrated
  <2>4. /\ integral0' = integral0 + p /\ integral1' = integral1 + q
        /\ p \in Nat /\ q \in Nat
        /\ price0CumulativeLast \in Nat /\ price1CumulativeLast \in Nat
    BY <1>0, <1>1, <1>2 DEF PairTypeOK
  <2> HIDE DEF p, q, e
  <2>5. p * (e + 1) = p * e + p /\ q * (e + 1) = q * e + q
        /\ p * e \in Int /\ q * e \in Int
    BY <2>2, <2>4
  <2> QED
    BY <2>3, <2>4, <2>5
<1>6. SettledProduct' = SettledProduct
  BY <1>1 DEF SettledProduct
<1> QED
  BY <1>0, <1>3, <1>4, <1>5, <1>6, PairNumbers DEF StepGoal, ProductStep, PInv

LEMMA PairNextStep == PInv /\ [Next]_pairVars => PInv' /\ [Product!Grow]_SettledProduct
<1>1. ASSUME PInv, Next
      PROVE  StepGoal
  <2>1. CASE TokensMove
    BY <1>1, <2>1, TokensMoveStep
  <2>2. CASE Tick
    BY <1>1, <2>2, TickStep
  <2>3. ASSUME NEW to \in Accounts, NEW amount0Out \in 0..reserve0,
               NEW amount1Out \in 0..reserve1, SwapBegin(amount0Out, amount1Out, to)
        PROVE  StepGoal
    <3>1. amount0Out \in Nat /\ amount1Out \in Nat
      BY <1>1 DEF PInv, PairTypeOK
    <3> QED
      BY <1>1, <2>3, <3>1, SwapBeginStep
  <2>4. CASE SwapEnd
    BY <1>1, <2>4, SwapEndStep
  <2>5. ASSUME NEW to \in Accounts, Skim(to)
        PROVE  StepGoal
    BY <1>1, <2>5, SkimStep
  <2>6. CASE Sync
    BY <1>1, <2>6, SyncStep
  <2> QED
    BY <1>1, <2>1, <2>2, <2>3, <2>4, <2>5, <2>6 DEF Next, PairCall
<1>2. ASSUME PInv, UNCHANGED pairVars
      PROVE  PInv' /\ SettledProduct' = SettledProduct
  BY <1>2 DEF PInv, PairTypeOK, ReservesBacked, FrameOK, FrameIsFresh, PricesIntegrated,
              Price, SettledProduct, pairVars, ledgers, slot, lock, clock
<1> QED
  BY <1>1, <1>2 DEF StepGoal, ProductStep, Product!Grow

-----------------------------------------------------------------------------
(* Reserves fit 112 bits and the ledgers stay naturals.                    *)
THEOREM PairTyped == Spec => []PairTypeOK
<1>1. PInv => PairTypeOK
  BY DEF PInv
<1> QED
  BY <1>1, PairInitInv, PairNextStep, PTL DEF Spec

(* Between transactions the pair holds its reserves, although skim and     *)
(* sync may run in the middle of a swap (src/src/Lending.sol:280-289).     *)
THEOREM PairBacked == Spec => []ReservesBacked
<1>1. PInv => ReservesBacked
  BY DEF PInv
<1> QED
  BY <1>1, PairInitInv, PairNextStep, PTL DEF Spec

(* Until the clock wraps the accumulators are the time integral of the     *)
(* prices, whatever swaps and syncs do inside a block (lines 163-176).     *)
THEOREM PairPricesIntegrated == Spec => []PricesIntegrated
<1>1. PInv => PricesIntegrated
  BY DEF PInv
<1> QED
  BY <1>1, PairInitInv, PairNextStep, PTL DEF Spec

(* The pair implements GrowingProduct: trades never lower the product of   *)
(* the reserves, whatever a callback does (line 272).                      *)
THEOREM PairImplementsGrowingProduct == Spec => ProductNeverFalls
BY PairInitInv, PairNextStep, PTL DEF Spec, ProductNeverFalls, Product!Spec
=============================================================================
