---------------------------- MODULE ExchangeSwaps ----------------------------
(***************************************************************************)
(* The swap as a whole: what the exchange is left with when swap() is      *)
(* over, compared with what it held when the swap began.  The contract     *)
(* checks no such thing: it checks one price per swapTokens, and at the    *)
(* end one counter, and lets withdrawals, payments, trades and new         *)
(* liquidity come in any order in between.                                 *)
(*                                                                         *)
(* The module adds to Exchange.tla a history of the beginning of the swap  *)
(* in progress, which no action of the contract reads.                     *)
(***************************************************************************)
EXTENDS Exchange

VARIABLE begun            \* history: what was there when the swap began

swapsVars == <<exchangeVars, begun>>

NoReserves == [t \in Tokens |-> [o \in Tokens |-> 0]]
NotBegun == [held |-> [t \in Tokens |-> 0], reserves |-> NoReserves]
Held(t) == bal[t][ExchangeAddr]

NotedSwapBegin ==
  /\ SwapBegin
  /\ begun' = [held |-> [t \in Tokens |-> Held(t)], reserves |-> reserves]

NotedSwapEnd == SwapEnd /\ begun' = NotBegun

NotedCall == Call /\ UNCHANGED begun

SwapsNext == NotedSwapBegin \/ NotedSwapEnd \/ NotedCall

SwapsInit == Init /\ begun = NotBegun
SwapsSpec == SwapsInit /\ [][SwapsNext]_swapsVars
-----------------------------------------------------------------------------
\* No pool but that of t and o has traded or grown in this swap.
OnlyPool(t, o) ==
  \A a, b \in Tokens : {a, b} # {t, o} => reserves[a][b] = begun.reserves[a][b]
Gone(t) == begun.held[t] - Held(t)

\* A swap is paid for.  Whatever an orderly client withdraws, pays, trades and
\* adds, and in whatever order, a swap that leaves the exchange with less of one
\* token of a pool leaves it with more of the other, unless other pools have
\* traded too, at prices of their own (src/src/Exchange.sol:131-211).
SwapsArePaidFor ==
  [][orderly /\ swapState.hasBegun /\ ~swapState'.hasBegun =>
       \A t, o \in Tokens :
         t # o /\ OnlyPool(t, o) /\ Gone(t) > 0 => Gone(o) < 0]_swapsVars
=============================================================================
