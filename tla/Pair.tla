-------------------------------- MODULE Pair --------------------------------
(***************************************************************************)
(* Contract Pair of src/src/Lending.sol: two reserves of two tokens, a     *)
(* swap that pays out first and calls the receiver back before it checks   *)
(* what came in, and price accumulators over the block time.               *)
(*                                                                         *)
(* A swap is two steps: SwapBegin up to the callback of line 262, SwapEnd  *)
(* after it.  Between them anyone may move tokens and call skim and sync,  *)
(* which do not take the lock; a swap without data is the case where       *)
(* nothing happens in between.  A swap that cannot reach SwapEnd reverts   *)
(* with all that its callback did.  No time passes inside a transaction.   *)
(*                                                                         *)
(* mint and burn are not actions: they never complete.  While totalSupply  *)
(* is 0 mint pays MINIMUM_LIQUIDITY to address(0) (line 211), which the    *)
(* ERC20 of OpenZeppelin rejects, and burn divides by totalSupply.         *)
(***************************************************************************)
EXTENDS Ledger

CONSTANTS Accounts, PairAddr,
          ONE,          \* the scale of getSpotPrice, 1e18
          Q112,         \* the scale of the accumulators, 2^112
          MaxU112,      \* type(uint112).max
          TimeModulus,  \* 2^32
          MaxTime       \* bound: the last block time

ASSUME PairAssumption ==
  /\ PairAddr \in Accounts
  /\ ONE \in Nat \ {0} /\ Q112 \in Nat \ {0}
  /\ MaxU112 \in Nat /\ TimeModulus \in Nat \ {0} /\ MaxTime \in Nat

VARIABLES bal0, bal1,            \* the ledgers of token0 and token1
          reserve0, reserve1, blockTimestampLast,
          price0CumulativeLast, price1CumulativeLast,
          unlocked,              \* the lock modifier
          frame,                 \* the locals of the swap in progress
          now,                   \* block.timestamp
          integral0, integral1   \* history: each price summed over time

ledgers == <<bal0, bal1>>
slot == <<reserve0, reserve1, blockTimestampLast,
          price0CumulativeLast, price1CumulativeLast>>
lock == <<unlocked, frame>>
clock == <<now, integral0, integral1>>
pairVars == <<ledgers, slot, lock, clock>>

Idle == [r0 |-> 0, r1 |-> 0, out0 |-> 0, out1 |-> 0]

PairInit ==
  /\ reserve0 = 0 /\ reserve1 = 0 /\ blockTimestampLast = 0
  /\ price0CumulativeLast = 0 /\ price1CumulativeLast = 0
  /\ unlocked = TRUE /\ frame = Idle
  /\ now = 0 /\ integral0 = 0 /\ integral1 = 0

\* Math.mulDiv(reserve1, 1e18, reserve0), which reverts on an empty reserve0.
HasSpotPrice == reserve0 # 0
SpotPrice == (reserve1 * ONE) \div reserve0

\* A price as the accumulators see it: none while a reserve is empty.
Price(r, per) == IF r = 0 \/ per = 0 THEN 0 ELSE (r * Q112) \div per

\* Variant with a bug: the accumulators take the new balances.
UpdateWithNewPrice(b0, b1, r0, r1) ==
  LET timestamp == now % TimeModulus
      timeElapsed == timestamp - blockTimestampLast IN
  /\ b0 <= MaxU112 /\ b1 <= MaxU112
  /\ timeElapsed >= 0
  /\ price0CumulativeLast' = price0CumulativeLast + Price(b1, b0) * timeElapsed
  /\ price1CumulativeLast' = price1CumulativeLast + Price(b0, b1) * timeElapsed
  /\ reserve0' = b0 /\ reserve1' = b1
  /\ blockTimestampLast' = timestamp

\* Variant with a bug: balances above 112 bits are not refused.
UpdateUnbounded(b0, b1, r0, r1) ==
  LET timestamp == now % TimeModulus
      timeElapsed == timestamp - blockTimestampLast IN
  /\ timeElapsed >= 0
  /\ price0CumulativeLast' = price0CumulativeLast + Price(r1, r0) * timeElapsed
  /\ price1CumulativeLast' = price1CumulativeLast + Price(r0, r1) * timeElapsed
  /\ reserve0' = b0 /\ reserve1' = b1
  /\ blockTimestampLast' = timestamp

\* _update: the subtraction of the times is checked, so it blocks every
\* update once the 32-bit clock has wrapped past the last one.
Update(b0, b1, r0, r1) ==
  LET timestamp == now % TimeModulus
      timeElapsed == timestamp - blockTimestampLast IN
  /\ b0 <= MaxU112 /\ b1 <= MaxU112
  /\ timeElapsed >= 0
  /\ price0CumulativeLast' = price0CumulativeLast + Price(r1, r0) * timeElapsed
  /\ price1CumulativeLast' = price1CumulativeLast + Price(r0, r1) * timeElapsed
  /\ reserve0' = b0 /\ reserve1' = b1
  /\ blockTimestampLast' = timestamp

SwapBegin(amount0Out, amount1Out, to) ==
  /\ unlocked
  /\ amount0Out > 0 \/ amount1Out > 0
  /\ amount0Out < reserve0 /\ amount1Out < reserve1
  /\ CanPay(bal0, PairAddr, amount0Out) /\ CanPay(bal1, PairAddr, amount1Out)
  /\ bal0' = Moved(bal0, PairAddr, to, amount0Out)
  /\ bal1' = Moved(bal1, PairAddr, to, amount1Out)
  /\ unlocked' = FALSE
  /\ frame' = [r0 |-> reserve0, r1 |-> reserve1,
               out0 |-> amount0Out, out1 |-> amount1Out]
  /\ UNCHANGED <<slot, clock>>

AmountIn(balance, reserve, out) ==
  IF balance > reserve - out THEN balance - (reserve - out) ELSE 0

\* The balance less the fee of 0.3% on what came in, in thousandths.
Adjusted(balance, in) == balance * 1000 - in * 3

\* Variant with a bug: the reserves are read again after the callback.
KHoldsAgainstStorage(b0, b1, f) ==
  LET in0 == AmountIn(b0, f.r0, f.out0)
      in1 == AmountIn(b1, f.r1, f.out1) IN
  /\ in0 > 0 \/ in1 > 0
  /\ Adjusted(b0, in0) * Adjusted(b1, in1) >= reserve0 * reserve1 * (1000 * 1000)

\* The check of the product, against the reserves read before the callback.
KHolds(b0, b1, f) ==
  LET in0 == AmountIn(b0, f.r0, f.out0)
      in1 == AmountIn(b1, f.r1, f.out1) IN
  /\ in0 > 0 \/ in1 > 0
  /\ Adjusted(b0, in0) * Adjusted(b1, in1) >= f.r0 * f.r1 * (1000 * 1000)

SwapEnd ==
  /\ ~unlocked
  /\ KHolds(bal0[PairAddr], bal1[PairAddr], frame)
  /\ Update(bal0[PairAddr], bal1[PairAddr], frame.r0, frame.r1)
  /\ unlocked' = TRUE /\ frame' = Idle
  /\ UNCHANGED <<ledgers, clock>>

\* Variant with a bug: the two reserves are mixed up.
SkimMixedUp(to) ==
  /\ bal0[PairAddr] >= reserve1 /\ bal1[PairAddr] >= reserve0
  /\ bal0' = Moved(bal0, PairAddr, to, bal0[PairAddr] - reserve1)
  /\ bal1' = Moved(bal1, PairAddr, to, bal1[PairAddr] - reserve0)
  /\ UNCHANGED <<slot, lock, clock>>

Skim(to) ==
  /\ bal0[PairAddr] >= reserve0 /\ bal1[PairAddr] >= reserve1
  /\ bal0' = Moved(bal0, PairAddr, to, bal0[PairAddr] - reserve0)
  /\ bal1' = Moved(bal1, PairAddr, to, bal1[PairAddr] - reserve1)
  /\ UNCHANGED <<slot, lock, clock>>

Sync ==
  /\ Update(bal0[PairAddr], bal1[PairAddr], reserve0, reserve1)
  /\ UNCHANGED <<ledgers, lock, clock>>

\* Everything else that moves the two tokens, inside a callback or not.
TokensMove ==
  /\ bal0' \in LedgerSteps(bal0, Accounts \ {PairAddr})
  /\ bal1' \in LedgerSteps(bal1, Accounts \ {PairAddr})
  /\ UNCHANGED <<slot, lock, clock>>

\* Block time advances between transactions.
Tick ==
  /\ unlocked /\ now < MaxTime
  /\ now' = now + 1
  /\ integral0' = integral0 + Price(reserve1, reserve0)
  /\ integral1' = integral1 + Price(reserve0, reserve1)
  /\ UNCHANGED <<ledgers, slot, lock>>

PairCall ==
  \/ \E to \in Accounts, amount0Out \in 0..reserve0, amount1Out \in 0..reserve1 :
       SwapBegin(amount0Out, amount1Out, to)
  \/ SwapEnd
  \/ \E to \in Accounts : Skim(to)
  \/ Sync

Init == bal0 \in [Accounts -> Nat] /\ bal1 \in [Accounts -> Nat] /\ PairInit
Next == PairCall \/ TokensMove \/ Tick
Spec == Init /\ [][Next]_pairVars
-----------------------------------------------------------------------------
PairTypeOK ==
  /\ bal0 \in [Accounts -> Nat] /\ bal1 \in [Accounts -> Nat]
  /\ reserve0 \in 0..MaxU112 /\ reserve1 \in 0..MaxU112
  /\ blockTimestampLast \in 0..(TimeModulus - 1)
  /\ price0CumulativeLast \in Nat /\ price1CumulativeLast \in Nat
  /\ unlocked \in BOOLEAN
  /\ frame \in [r0 : 0..MaxU112, r1 : 0..MaxU112, out0 : Nat, out1 : Nat]
  /\ now \in Nat /\ integral0 \in Nat /\ integral1 \in Nat

\* Outside a swap the pair holds what its reserves say, so that skim cannot
\* underflow and a trade can always be paid, although skim and sync run
\* without the lock in the middle of a swap (lines 116-122 and 280-289).
ReservesBacked ==
  unlocked => bal0[PairAddr] >= reserve0 /\ bal1[PairAddr] >= reserve1

\* The product a liquidity provider may count on: while a swap is open the
\* reserves may be forced to anything by sync, and what counts is the frame.
SettledProduct ==
  IF unlocked THEN reserve0 * reserve1 ELSE frame.r0 * frame.r1

\* The pair implements GrowingProduct: no sequence of swaps, callbacks, syncs
\* and skims lowers the settled product (line 272).
Product == INSTANCE GrowingProduct WITH product <- SettledProduct
ProductNeverFalls == Product!Spec

\* Until the 32-bit clock wraps the accumulators hold the price of the
\* reserves integrated over time: the reserves that stood at the end of a
\* block count for the time to the next, and what a swap or a sync does
\* within a block counts for nothing (lines 163-176).
PricesIntegrated ==
  now < TimeModulus =>
    LET elapsed == now - blockTimestampLast IN
    /\ integral0 = price0CumulativeLast + Price(reserve1, reserve0) * elapsed
    /\ integral1 = price1CumulativeLast + Price(reserve0, reserve1) * elapsed
=============================================================================
