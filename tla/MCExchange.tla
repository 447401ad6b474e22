----------------------------- MODULE MCExchange -----------------------------
(* Exchange.tla and ExchangeSwaps.tla on a small instance: two tokens, one *)
(* pool, one client.  Gold can be more than an int256 holds.               *)
EXTENDS ExchangeSwaps
CONSTANTS gold, iron, exchange, client

MCTokens == {gold, iron}
MCAccounts == {exchange, client}
MCAmounts == {0, 1, 2, 3}

\* As deployed: the client owns all tokens and builds the pool.
MCInit ==
  /\ bal = [t \in MCTokens |->
              [a \in MCAccounts |-> IF a = exchange THEN 0 ELSE IF t = gold THEN 3 ELSE 2]]
  /\ ExchangeInit
  /\ begun = NotBegun

MCSpec == MCInit /\ [][SwapsNext]_swapsVars

\* Only of an orderly client does a property look at the beginning of a swap,
\* and a client that has not been orderly never is again.
MCView == <<exchangeVars, IF orderly THEN begun ELSE NotBegun>>
=============================================================================
