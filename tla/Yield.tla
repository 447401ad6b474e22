-------------------------------- MODULE Yield --------------------------------
(***************************************************************************)
(* Contract Yield of src/src/Yield.sol: a vault that keeps two tokens in   *)
(* one position of a Uniswap V3 pool, for shares, and moves the position   *)
(* when the price has left it.  Its arithmetic wraps (Solidity 0.7).       *)
(*                                                                         *)
(* The pool is modelled from how the vault uses it.  A position is an      *)
(* amount of liquidity on a range of ticks; what it holds of each token is *)
(* its liquidity times the part of the range on that token's side of the   *)
(* price, rounded up when it is minted and down when it is burned.  Fees   *)
(* of swaps are pending until burn pokes the position, then owed until     *)
(* collect pays them.                                                      *)
(*                                                                         *)
(* The tokens of others are not counted.  The shares of each holder are    *)
(* not either, only their total: they can be transferred at will.  The     *)
(* least amounts that callers ask for are 0.                               *)
(***************************************************************************)
EXTENDS Integers

CONSTANTS Ticks,             \* the ticks that the price of the pool visits
          tickSpacing,
          MOVE,              \* 5: how many spacings the price moves ...
          WIDTH,             \* 10: ... and how many a range reaches each way
          MIN_TICK, MAX_TICK, MAX_INT24,
          SCALE,             \* the pool's unit of liquidity
          FEE_UNIT,          \* 1e6
          Modulus,           \* 2^256
          Amounts, ProtocolFees, SupplyCaps,
          MaxTokens          \* bound: the worth of the vault in each token

Tokens == {0, 1}
Ranges == {r \in (MIN_TICK..MAX_TICK) \X (MIN_TICK..MAX_TICK) : r[1] <= r[2]}

ASSUME YieldAssumption ==
  /\ Ticks \subseteq MIN_TICK..MAX_TICK /\ Amounts \subseteq Nat /\ SupplyCaps \subseteq Nat
  /\ MIN_TICK \in Int /\ MAX_TICK \in Int /\ MIN_TICK < 0 /\ 0 < MAX_TICK
  /\ MAX_INT24 \in Nat /\ MAX_TICK <= MAX_INT24 /\ -MAX_INT24 <= MIN_TICK
  /\ tickSpacing \in Nat \ {0} /\ MOVE \in Nat \ {0} /\ WIDTH \in Nat \ {0}
  /\ SCALE \in Nat \ {0} /\ FEE_UNIT \in Nat \ {0} /\ Modulus \in Nat \ {0}
  /\ ProtocolFees \subseteq 0..(FEE_UNIT - 1) /\ MaxTokens \in 0..(Modulus - 1)

VARIABLES held,              \* the vault's balance of each token
          accrued,           \* accruedProtocolFees0 and 1
          protocolFee, maxTotalSupply, totalSupply,
          lastTick,
          base,              \* <<baseLower, baseUpper>>
          tick,              \* of pool.slot0()
          liquidity, owed, pending, \* of the vault's positions in the pool
          overdrawn          \* history: more was taken than there was for it

poolVars == <<liquidity, owed, pending>>
yieldVars == <<held, accrued, protocolFee, maxTotalSupply, totalSupply, lastTick, base, tick,
               poolVars, overdrawn>>

Nothing == [t \in Tokens |-> 0]

YieldInit ==
  /\ held = Nothing /\ accrued = Nothing /\ totalSupply = 0
  /\ protocolFee \in ProtocolFees /\ maxTotalSupply \in SupplyCaps
  /\ lastTick = MAX_INT24 /\ base = <<0, 0>> /\ tick \in Ticks
  /\ liquidity = [r \in Ranges |-> 0]
  /\ owed = [r \in Ranges |-> Nothing] /\ pending = [r \in Ranges |-> Nothing]
  /\ overdrawn = FALSE

Plus(x, y) == (x + y) % Modulus
Minus(x, y) == (x - y) % Modulus
Times(x, y) == (x * y) % Modulus
ToInt24(x) == ((x + MAX_INT24 + 1) % (2 * (MAX_INT24 + 1))) - (MAX_INT24 + 1)
Smaller(x, y) == IF x <= y THEN x ELSE y
Larger(x, y) == IF x <= y THEN y ELSE x
RoundedUp(n, d) == (n + d - 1) \div d

\* A token refuses a payment beyond the balance; its answer is not looked at.
Affords(h, amount) == amount <= h
-----------------------------------------------------------------------------
\* The pool.
Weight(r, t) ==
  LET c == Larger(r[1], Smaller(tick, r[2]))
  IN  IF t = 0 THEN r[2] - c ELSE c - r[1]
Content(r, l, t) == (l * Weight(r, t)) \div SCALE
Cost(r, l, t) == RoundedUp(l * Weight(r, t), SCALE)
LiquidityFor(r, b) ==
  LET Of(t) == (b[t] * SCALE) \div Weight(r, t)
  IN  IF Weight(r, 0) = 0 THEN Of(1)
      ELSE IF Weight(r, 1) = 0 THEN Of(0)
      ELSE Smaller(Of(0), Of(1))
Aligned(r) == r[1] < r[2] /\ (r[1] % tickSpacing = 0) /\ (r[2] % tickSpacing = 0)

\* pool.collect empties what is owed; pool.burn of a share also what is pending.
Emptied(q, r) == [q EXCEPT ![r] = Nothing]
PendingAfter(r, l) == IF l > 0 THEN Emptied(pending, r) ELSE pending

\* A swap at the pool, with the fees it leaves to the position in range.
Swap(to, fees) ==
  /\ tick' = to
  /\ LET earning == base[1] <= tick /\ tick < base[2] /\ liquidity[base] > 0
     IN  pending' = IF earning
                    THEN [pending EXCEPT ![base] = [t \in Tokens |-> @[t] + fees[t]]]
                    ELSE pending
  /\ UNCHANGED <<held, accrued, protocolFee, maxTotalSupply, totalSupply, lastTick, base,
                 liquidity, owed, overdrawn>>
-----------------------------------------------------------------------------
\* _burnAndCollect: what it collects beyond the liquidity, and how that is shared.
Fees(r, l, t) == owed[r][t] + (IF l > 0 THEN pending[r][t] ELSE 0)
ToProtocol(r, l, t) == (Fees(r, l, t) * protocolFee) \div FEE_UNIT
ToVault(r, l, t) == Fees(r, l, t) - ToProtocol(r, l, t)

\* Variant with a bug: only what was burned is collected, and its fees are left.
CollectedWithoutFees(r, l, t) == Content(r, l, t)

Collected(r, l, t) == Content(r, l, t) + Fees(r, l, t)

\* Variant with a bug: the fees of the protocol are shared out.
BalanceWithFees(t) == held[t]

\* getBalance0 and 1, and getTotalAmounts given what the position is owed.
Balance(t) == Minus(held[t], accrued[t])
TotalWith(o, t) ==
  Plus(Balance(t), Content(base, liquidity[base], t)
                     + (o[t] * (FEE_UNIT - protocolFee)) \div FEE_UNIT)
Total(t) == TotalWith(owed[base], t)

\* What the vault has of a token, for the bound on it.
Worth(t) ==
  held[t] + Content(base, liquidity[base], t) + owed[base][t] + pending[base][t]

\* _poke
Poked ==
  IF liquidity[base] > 0
  THEN [t \in Tokens |-> owed[base][t] + pending[base][t]] ELSE owed[base]

\* The end of deposit, once amounts and shares are known.
PayIn(paid, shares) ==
  /\ shares \in 1..(Modulus - 1) /\ totalSupply + shares <= maxTotalSupply
  /\ \A t \in Tokens : Worth(t) + paid[t] <= MaxTokens
  /\ held' = [t \in Tokens |-> held[t] + paid[t]]
  /\ totalSupply' = totalSupply + shares
  /\ owed' = [owed EXCEPT ![base] = Poked]
  /\ pending' = PendingAfter(base, liquidity[base])
  /\ UNCHANGED <<accrued, protocolFee, maxTotalSupply, lastTick, base, tick, liquidity, overdrawn>>

\* Variant with a bug: what the depositor pays is rounded down.
PaidRoundedDown(cross, total) == [t \in Tokens |-> cross \div total[1 - t]]

PaidFor(cross, total) == [t \in Tokens |-> RoundedUp(cross, total[1 - t])]

Deposit(want) ==
  LET total == [t \in Tokens |-> TotalWith(Poked, t)]
      cross == Smaller(Times(want[0], total[1]), Times(want[1], total[0])) IN
  /\ want # Nothing
  /\ \/ totalSupply = 0 /\ PayIn(want, Larger(want[0], want[1]))
     \/ \E t \in Tokens :
          /\ totalSupply > 0 /\ total[t] = 0 /\ total[1 - t] > 0
          /\ PayIn([want EXCEPT ![t] = 0], (want[1 - t] * totalSupply) \div total[1 - t])
     \/ /\ totalSupply > 0 /\ total[0] > 0 /\ total[1] > 0 /\ cross > 0
        /\ PayIn(PaidFor(cross, total), (Times(cross, totalSupply) \div total[0]) \div total[1])

\* The share of the withdrawal is taken of the supply that is left after it.
Withdraw(shares) ==
  LET supply == totalSupply - shares
      l == (liquidity[base] * shares) \div supply
      unused == [t \in Tokens |-> (Balance(t) * shares) \div supply]
      have == [t \in Tokens |-> held[t] + (IF l > 0 THEN Collected(base, l, t) ELSE 0)]
      amount == [t \in Tokens |->
                   Plus(unused[t], IF l > 0 THEN Content(base, l, t)
                                                   + (ToVault(base, l, t) * shares) \div supply
                                   ELSE 0)] IN
  /\ shares > 0 /\ supply > 0
  /\ \A t \in Tokens : unused[t] < Modulus
  /\ l <= liquidity[base]
  /\ \A t \in Tokens : Affords(have[t], amount[t])
  /\ totalSupply' = supply
  /\ held' = [t \in Tokens |-> have[t] - amount[t]]
  /\ liquidity' = [liquidity EXCEPT ![base] = @ - l]
  /\ owed' = IF l > 0 THEN Emptied(owed, base) ELSE owed
  /\ pending' = PendingAfter(base, l)
  /\ accrued' = [t \in Tokens |->
                   Plus(accrued[t], IF l > 0 THEN ToProtocol(base, l, t) ELSE 0)]
  /\ overdrawn' = (overdrawn \/ shares > supply)
  /\ UNCHANGED <<protocolFee, maxTotalSupply, lastTick, base, tick>>

\* x / tickSpacing * tickSpacing, division truncating toward zero.
Truncated(x) ==
  IF x >= 0 THEN (x \div tickSpacing) * tickSpacing ELSE -(((-x) \div tickSpacing) * tickSpacing)
NewRange ==
  <<Larger(Truncated(tick - WIDTH * tickSpacing), MIN_TICK),
    Smaller(Truncated(tick + WIDTH * tickSpacing), MAX_TICK)>>
PriceDiff == ToInt24(IF tick > lastTick THEN tick - lastTick ELSE lastTick - tick)

\* Variant with a bug: the new range is stored before the old one is taken out.
RetiredNewRange(r) == [liquidity EXCEPT ![NewRange] = 0]

RetiredBase(r) == [liquidity EXCEPT ![r] = 0]

Rebalance ==
  LET l == liquidity[base]
      have == [t \in Tokens |-> held[t] + Collected(base, l, t)]
      due == [t \in Tokens |-> Plus(accrued[t], ToProtocol(base, l, t))]
      new == LiquidityFor(NewRange, [t \in Tokens |-> Minus(have[t], due[t])]) IN
  /\ PriceDiff >= MOVE * tickSpacing
  /\ new > 0 => Aligned(NewRange)
  /\ \A t \in Tokens : Affords(have[t], Cost(NewRange, new, t))
  /\ held' = [t \in Tokens |-> have[t] - Cost(NewRange, new, t)]
  /\ accrued' = due
  /\ liquidity' = [RetiredBase(base) EXCEPT ![NewRange] = @ + new]
  /\ owed' = Emptied(owed, base)
  /\ pending' = PendingAfter(base, l)
  /\ lastTick' = tick /\ base' = NewRange
  /\ UNCHANGED <<protocolFee, maxTotalSupply, totalSupply, tick, overdrawn>>
-----------------------------------------------------------------------------
\* Governance.
CollectProtocol(amount) ==
  /\ \A t \in Tokens : Affords(held[t], amount[t])
  /\ accrued' = [t \in Tokens |-> Minus(accrued[t], amount[t])]
  /\ held' = [t \in Tokens |-> held[t] - amount[t]]
  /\ overdrawn' = (overdrawn \/ \E t \in Tokens : amount[t] > accrued[t])
  /\ UNCHANGED <<protocolFee, maxTotalSupply, totalSupply, lastTick, base, tick, poolVars>>

SetProtocolFee(fee) ==
  /\ fee < FEE_UNIT /\ protocolFee' = fee
  /\ UNCHANGED <<held, accrued, maxTotalSupply, totalSupply, lastTick, base, tick, poolVars, overdrawn>>

SetMaxTotalSupply(cap) ==
  /\ maxTotalSupply' = cap
  /\ UNCHANGED <<held, accrued, protocolFee, totalSupply, lastTick, base, tick, poolVars, overdrawn>>

\* What it collects is shared with no one: the fees in it go to the vault.
EmergencyBurn(r, l) ==
  /\ r[1] < r[2] /\ l <= liquidity[r] /\ liquidity[r] > 0
  /\ held' = [t \in Tokens |-> held[t] + Content(r, l, t) + owed[r][t] + pending[r][t]]
  /\ liquidity' = [liquidity EXCEPT ![r] = @ - l]
  /\ owed' = Emptied(owed, r) /\ pending' = Emptied(pending, r)
  /\ UNCHANGED <<accrued, protocolFee, maxTotalSupply, totalSupply, lastTick, base, tick, overdrawn>>

\* Anyone may send tokens to the vault.
Donate(t) ==
  /\ Worth(t) < MaxTokens /\ held' = [held EXCEPT ![t] = @ + 1]
  /\ UNCHANGED <<accrued, protocolFee, maxTotalSupply, totalSupply, lastTick, base, tick, poolVars, overdrawn>>

Pairs == [Tokens -> Amounts]
Earned == {fees \in [Tokens -> 0..1] : \A t \in Tokens : Worth(t) + fees[t] <= MaxTokens}

YieldNext ==
  \/ \E want \in Pairs : Deposit(want)
  \/ \E shares \in 1..totalSupply : Withdraw(shares)
  \/ Rebalance
  \/ \E amount \in Pairs : CollectProtocol(amount)
  \/ \E fee \in ProtocolFees : SetProtocolFee(fee)
  \/ \E cap \in SupplyCaps : SetMaxTotalSupply(cap)
  \/ \E r \in Ranges, l \in Amounts : EmergencyBurn(r, l)
  \/ \E t \in Tokens : Donate(t)
  \/ \E to \in Ticks, fees \in Earned : Swap(to, fees)

YieldSpec == YieldInit /\ [][YieldNext]_yieldVars
-----------------------------------------------------------------------------
\* Nothing is left behind in the pool: whatever the order of rebalances,
\* withdrawals and emergency burns, all liquidity and all fees that the vault
\* has there are in the range that it looks at (src/src/Yield.sol:234-246).
NothingStranded ==
  \A r \in Ranges \ {base} : liquidity[r] = 0 /\ owed[r] = Nothing /\ pending[r] = Nothing

\* The fees of the protocol are in the vault's hands and not in its position,
\* unless someone has withdrawn more shares than he left, or the governance
\* has collected more than had accrued (lines 182-198, 234-246 and 405-414).
FeesCovered == \A t \in Tokens : accrued[t] <= held[t]
FeesStayCovered == overdrawn \/ FeesCovered

\* No deposit makes a share worth less of either token, whatever the rounding
\* of amounts and shares and whatever fees the deposit pokes (lines 126-167).
DepositNeverDilutes ==
  [][FeesCovered /\ totalSupply > 0 /\ totalSupply' > totalSupply =>
       \A t \in Tokens : Total(t) * totalSupply' <= Total(t)' * totalSupply]_yieldVars

\* A rebalance takes out all of the position and its fees, sets the protocol's
\* part aside and places the rest anew.  It leaves to the shares of a vault
\* worth less than 2^256 what they stood for, poked fees included, but for one
\* unit of each token: the parts are rounded apart, and a mint rounds up what
\* a burn rounds down (lines 221-246 and 249-294).
RebalanceKeepsTotal ==
  [][FeesCovered /\ (\A t \in Tokens : Worth(t) < Modulus) /\ Rebalance =>
       \A t \in Tokens : Total(t)' - TotalWith(Poked, t) \in -1..1]_yieldVars
=============================================================================
