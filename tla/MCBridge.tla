------------------------------ MODULE MCBridge ------------------------------
(* Bridge.tla and BridgeHooks.tla with one token whose senders have hooks, *)
(* enough of it and enough nonces for two hooks to wait while a third send *)
(* is measured.  The two bridges are alike.  One label is enough: labels   *)
(* tell apart messages of one nonce, of which MessagesInTurn says that     *)
(* there are none.                                                         *)
EXTENDS BridgeHooks, TLC
CONSTANTS b1, b2, flag, label

MCBridges == {b1, b2}
MCRemote(b) == IF b = b1 THEN b2 ELSE b1
MCTokens == {flag}
MCHooked == {flag}
MCAmounts == {1}
MCLabels == {label}
MCSymmetry == Permutations(MCBridges)
=============================================================================
