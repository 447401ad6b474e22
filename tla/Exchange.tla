------------------------------ MODULE Exchange ------------------------------
(***************************************************************************)
(* Contract Exchange of src/src/Exchange.sol: pools of pairs of tokens and *)
(* a swap in which the client, called back by swap(), withdraws, pays in   *)
(* and trades in any order, while a position per token keeps what it is    *)
(* owed and unsettledTokens counts the tokens whose position is open.      *)
(*                                                                         *)
(* Every action is one successful call, or the part of swap() before or    *)
(* after its callback.  A new nonce finds a swap state nobody has written, *)
(* so SwapEnd resets swapState, and the nonce itself is left out.  A pool  *)
(* is kept by side: reserves[t][o] is what the pool of t and o holds of t, *)
(* which is how getReserves and setReserves address it in either order.    *)
(***************************************************************************)
EXTENDS Ledger, Sums, FiniteSets

CONSTANTS Tokens, Accounts, ExchangeAddr, Amounts,
          MaxInt   \* the largest int256 (the runs take a small one)

ASSUME ExchangeAssumption ==
  /\ IsFiniteSet(Tokens)
  /\ ExchangeAddr \in Accounts
  /\ Amounts \subseteq Nat
  /\ MaxInt \in Nat

VARIABLES bal,            \* bal[t] is the ledger of token t
          allowedTokens, reserves, swapState,
          orderly         \* history: see Orderly below

exchangeVars == <<bal, allowedTokens, reserves, swapState, orderly>>

Clients == Accounts \ {ExchangeAddr}
NotSaved == [initiated |-> FALSE, balance |-> 0]
FreshState == [hasBegun |-> FALSE, unsettledTokens |-> 0,
               positions |-> [t \in Tokens |-> 0],
               savedBalances |-> [t \in Tokens |-> NotSaved]]

ExchangeInit ==
  /\ allowedTokens = {}
  /\ reserves = [t \in Tokens |-> [o \in Tokens |-> 0]]
  /\ swapState = FreshState
  /\ orderly = TRUE

\* The largest uint256, and the unchecked conversion of one to an int256.
\* Negating the smallest int256 reverts.
MaxUint == 2 * MaxInt + 1
ToInt256(v) == IF v <= MaxInt THEN v ELSE v - (MaxUint + 1)
Negatable(v) == ToInt256(v) >= -MaxInt

\* What keeps the counter and the pools honest is up to the client: a move of
\* zero on a position of zero, which updatePosition takes for a settlement, a
\* move that no int256 holds, and adding liquidity of a token between
\* initiateTransfer and finalizeTransfer, which counts the payment twice, are
\* not orderly.
OrderlyMove(token, amount) ==
  /\ amount <= MaxInt
  /\ ~(amount = 0 /\ swapState.positions[token] = 0)
Measuring(token) == swapState.savedBalances[token].initiated
Orderly(isOrderly) == orderly' = (orderly /\ isOrderly)

\* Variant with a bug: the two sides of a pool are mixed up.
WithReservesOfOther(r, token, other, amount) == [r EXCEPT ![other][token] = amount]

\* setReserves of one side of a pool.
WithReserves(r, token, other, amount) == [r EXCEPT ![token][other] = amount]
GetLiquidity(r, left, right) == r[left][right] * r[right][left]

\* Variant with a bug: liquidityBefore is read after the reserves are written.
KeepsLiquidityReadLate(r, tokenIn, tokenOut) ==
  /\ GetLiquidity(reserves, tokenIn, tokenOut) > 0
  /\ GetLiquidity(r, tokenIn, tokenOut) <= MaxUint

\* Both products are computed by checked arithmetic.
KeepsLiquidity(r, tokenIn, tokenOut) ==
  /\ GetLiquidity(reserves, tokenIn, tokenOut) \in 1..MaxUint
  /\ GetLiquidity(r, tokenIn, tokenOut)
       \in GetLiquidity(reserves, tokenIn, tokenOut)..MaxUint

\* Variant with a bug: a new position is counted, a settled one is not.
PositionNeverSettled(s, token, amount) ==
  LET current == s.positions[token]
      new == current + amount IN
  [s EXCEPT !.positions = [@ EXCEPT ![token] = new],
            !.unsettledTokens = IF new # 0 /\ current = 0 THEN @ + 1 ELSE @]

\* Variant with a bug: the position is counted again by every move.
PositionAlwaysCounted(s, token, amount) ==
  LET current == s.positions[token]
      new == current + amount IN
  [s EXCEPT !.positions = [@ EXCEPT ![token] = new],
            !.unsettledTokens = IF new = 0 THEN @ - 1 ELSE @ + 1]

\* updatePosition: a position that becomes zero is settled, even one that was
\* zero before.  The subtraction is checked, see InRange.
UpdatePosition(s, token, amount) ==
  LET current == s.positions[token]
      new == current + amount IN
  [s EXCEPT !.positions = [@ EXCEPT ![token] = new],
            !.unsettledTokens = IF new = 0 THEN @ - 1
                                ELSE IF current = 0 THEN @ + 1 ELSE @]

\* Variant with a bug: unchecked arithmetic on the counter.
InRangeUnchecked(s) == \A t \in Tokens : s.positions[t] \in -(MaxInt + 1)..MaxInt

\* Checked arithmetic reverts a call that leaves the range of its integers.
InRange(s) ==
  /\ s.unsettledTokens >= 0
  /\ \A t \in Tokens : s.positions[t] \in -(MaxInt + 1)..MaxInt

AddToken(token) ==
  /\ allowedTokens' = allowedTokens \cup {token}
  /\ UNCHANGED <<bal, reserves, swapState, orderly>>

AddLiquidity(c, left, right, amountLeft, amountRight) ==
  /\ left # right /\ {left, right} \subseteq allowedTokens
  /\ CanPay(bal[left], c, amountLeft) /\ CanPay(bal[right], c, amountRight)
  /\ reserves[left][right] + amountLeft <= MaxUint
  /\ reserves[right][left] + amountRight <= MaxUint
  /\ bal' = [bal EXCEPT ![left] = Moved(@, c, ExchangeAddr, amountLeft),
                        ![right] = Moved(@, c, ExchangeAddr, amountRight)]
  /\ reserves' =
       WithReserves(WithReserves(reserves, left, right, reserves[left][right] + amountLeft),
                    right, left, reserves[right][left] + amountRight)
  /\ Orderly(~Measuring(left) /\ ~Measuring(right))
  /\ UNCHANGED <<allowedTokens, swapState>>

\* swap() up to the callback, and after it.
SwapBegin ==
  /\ ~swapState.hasBegun
  /\ swapState' = [swapState EXCEPT !.hasBegun = TRUE]
  /\ UNCHANGED <<bal, allowedTokens, reserves, orderly>>

SwapEnd ==
  /\ swapState.hasBegun
  /\ swapState.unsettledTokens = 0
  /\ swapState' = FreshState
  /\ UNCHANGED <<bal, allowedTokens, reserves, orderly>>

DuringSwap(token) == swapState.hasBegun /\ token \in allowedTokens

Withdraw(c, token, amount) ==
  LET s == UpdatePosition(swapState, token, -ToInt256(amount)) IN
  /\ DuringSwap(token)
  /\ CanPay(bal[token], ExchangeAddr, amount) /\ Negatable(amount)
  /\ InRange(s)
  /\ bal' = [bal EXCEPT ![token] = Moved(@, ExchangeAddr, c, amount)]
  /\ swapState' = s
  /\ Orderly(OrderlyMove(token, amount))
  /\ UNCHANGED <<allowedTokens, reserves>>

InitiateTransfer(token) ==
  /\ DuringSwap(token)
  /\ ~Measuring(token)
  /\ swapState' = [swapState EXCEPT !.savedBalances =
       [@ EXCEPT ![token] = [initiated |-> TRUE, balance |-> bal[token][ExchangeAddr]]]]
  /\ UNCHANGED <<bal, allowedTokens, reserves, orderly>>

FinalizeTransfer(token) ==
  LET saved == swapState.savedBalances[token]
      amount == bal[token][ExchangeAddr] - saved.balance
      closed == [swapState EXCEPT !.savedBalances =
                   [@ EXCEPT ![token] = [saved EXCEPT !.initiated = FALSE]]]
      s == UpdatePosition(closed, token, ToInt256(amount)) IN
  /\ DuringSwap(token)
  /\ Measuring(token)
  /\ amount >= 0
  /\ InRange(s)
  /\ swapState' = s
  /\ Orderly(OrderlyMove(token, amount))
  /\ UNCHANGED <<bal, allowedTokens, reserves>>

SwapTokens(tokenIn, tokenOut, amountIn, amountOut) ==
  LET newReservesIn == reserves[tokenIn][tokenOut] + amountIn
      newReservesOut == reserves[tokenOut][tokenIn] - amountOut
      r == WithReserves(WithReserves(reserves, tokenIn, tokenOut, newReservesIn),
                        tokenOut, tokenIn, newReservesOut)
      s1 == UpdatePosition(swapState, tokenIn, -ToInt256(amountIn))
      s2 == UpdatePosition(s1, tokenOut, ToInt256(amountOut)) IN
  /\ DuringSwap(tokenIn) /\ DuringSwap(tokenOut) /\ tokenIn # tokenOut
  /\ newReservesIn <= MaxUint /\ newReservesOut >= 0
  /\ Negatable(amountIn) /\ InRange(s1) /\ InRange(s2)
  /\ KeepsLiquidity(r, tokenIn, tokenOut)
  /\ reserves' = r
  /\ swapState' = s2
  /\ Orderly(OrderlyMove(tokenIn, amountIn) /\ OrderlyMove(tokenOut, amountOut))
  /\ UNCHANGED <<bal, allowedTokens>>

\* Token.transfer by anyone but the exchange, at any time.
Transfer(token) ==
  /\ bal' \in {[bal EXCEPT ![token] = l] : l \in LedgerSteps(bal[token], Clients)}
  /\ UNCHANGED <<allowedTokens, reserves, swapState, orderly>>

\* A call other than swap(): within a client's callback, or outside of a swap.
Call ==
  \/ \E t \in Tokens : AddToken(t) \/ InitiateTransfer(t) \/ FinalizeTransfer(t) \/ Transfer(t)
  \/ \E c \in Clients, t \in Tokens, v \in Amounts : Withdraw(c, t, v)
  \/ \E t, o \in Tokens, v, w \in Amounts :
       \/ SwapTokens(t, o, v, w)
       \/ \E c \in Clients : AddLiquidity(c, t, o, v, w)

Next == SwapBegin \/ SwapEnd \/ Call

Init == bal \in [Tokens -> [Accounts -> Nat]] /\ ExchangeInit
Spec == Init /\ [][Next]_exchangeVars
-----------------------------------------------------------------------------
ExchangeTypeOK ==
  /\ bal \in [Tokens -> [Accounts -> Nat]]
  /\ allowedTokens \subseteq Tokens
  /\ reserves \in [Tokens -> [Tokens -> Nat]]
  /\ swapState \in [hasBegun : BOOLEAN, unsettledTokens : Nat,
                    positions : [Tokens -> Int],
                    savedBalances : [Tokens -> [initiated : BOOLEAN, balance : Nat]]]
  /\ orderly \in BOOLEAN

OpenPositions == {t \in Tokens : swapState.positions[t] # 0}

\* Whatever the client does, the counter is never above the number of open
\* positions: a swap whose positions are all settled is never stuck on "not
\* settled" (src/src/Exchange.sol:139 and 143-155).
CounterNeverOvercounts == swapState.unsettledTokens <= Cardinality(OpenPositions)

\* For an orderly client the counter is exact, so that swap() ends only when
\* nothing is owed either way.
CounterExact ==
  orderly => swapState.unsettledTokens = Cardinality(OpenPositions)

\* The counter that swap() ends on is never too high, and for an orderly client
\* never too low (lines 137-155).
CounterCounts == CounterNeverOvercounts /\ CounterExact

\* What the exchange owes in a token: the reserves of all its pools, and the
\* position of the swap in progress (negative when the client owes).
Owed(token) == SumOver(reserves[token], Tokens) + swapState.positions[token]

\* With orderly clients every pool is backed by tokens: the exchange holds all
\* it owes at every moment of every swap, and what it measured at the start of
\* a transfer covers it too (lines 120-129 and 157-211).
PoolsBacked ==
  orderly =>
    \A t \in Tokens :
      /\ bal[t][ExchangeAddr] >= Owed(t)
      /\ Measuring(t) => swapState.savedBalances[t].balance >= Owed(t)

\* What the assertion "not settled" of line 139 says of every swap that ends:
\* no position is open.
EndedSwapIsSettled ==
  [][swapState.hasBegun /\ ~swapState'.hasBegun => OpenPositions = {}]_exchangeVars
=============================================================================
