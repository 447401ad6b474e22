--------------------------- MODULE GrowingProduct ---------------------------
(***************************************************************************)
(* What a constant-product pool promises whoever provides its liquidity:   *)
(* the product of its two reserves never falls.  How reserves are stored,  *)
(* how a trade is spread over a callback, and who calls what is left open. *)
(***************************************************************************)
EXTENDS Integers
VARIABLE product

Init == product \in Nat
Grow == product' \in Nat /\ product' >= product
Spec == Init /\ [][Grow]_product
=============================================================================
