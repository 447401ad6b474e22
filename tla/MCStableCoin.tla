---------------------------- MODULE MCStableCoin ----------------------------
(* StableCoin.tla with two users and one collateral; the users are alike.  *)
EXTENDS StableCoin, TLC
CONSTANTS alice, bob, eth, none

MCUsers == {alice, bob}
MCCollaterals == {eth}
MCAmounts == 1..3
MCBackings == 1..3
MCSymmetry == Permutations(MCUsers)
=============================================================================
