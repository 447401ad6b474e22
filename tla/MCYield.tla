------------------------------- MODULE MCYield -------------------------------
(* Yield.tla on a small instance: the price visits three ticks, so that it *)
(* is below, in and above a range, and one of them is negative.            *)
EXTENDS Yield

MCMinTick == -2
MCTicks == {-1, 0, 1}
MCAmounts == {0, 1, 2}
MCProtocolFees == {0, 1}
MCSupplyCaps == {3}

\* The governance collects little more than has accrued.
MCBound == \A t \in Tokens : accrued[t] \in (0..3) \cup {Modulus - 1}
=============================================================================
