----------------------------- MODULE BridgeHooks -----------------------------
(***************************************************************************)
(* How much a token with hooks can be bridged for without cover.  ERC20Out *)
(* reads the balance of the bridge before the tokens move, and the hook of *)
(* their sender runs in between: what is paid to the bridge meanwhile is   *)
(* measured there once more by every hook that waits.  Bridge.tla notes in *)
(* reentered that this has happened; this module counts what it may cost,  *)
(* in a history that no action of the bridges reads.                       *)
(***************************************************************************)
EXTENDS Bridge

VARIABLE overcounted      \* history: per token, what hooks measured again

hooksVars == <<bridgeVars, overcounted>>

\* The calls that wait for a sender of t to bridge b.
HooksWaiting(b, t, waiting) ==
  Cardinality({i \in DOMAIN waiting :
                 /\ waiting[i].call = "send"
                 /\ waiting[i].bridge = b /\ waiting[i].token = t})

Overcounts(t, n) == overcounted' = [overcounted EXCEPT ![t] = @ + n]

\* What is locked is to be minted once, by its own call.
CountedLockOut(b, t, amount, labels) ==
  /\ LockOut(b, t, amount, labels)
  /\ Overcounts(t, amount * HooksWaiting(b, t, calls))

CountedHookOver(labels) ==
  LET f == Head(calls) IN
  /\ HookOver(labels)
  /\ Overcounts(f.token, f.amount * HooksWaiting(f.bridge, f.token, Tail(calls)))

\* What is donated is to be minted by nobody, and covers one of those who do.
CountedDonate(b, t) ==
  LET n == HooksWaiting(b, t, calls) IN
  /\ Donate(b, t)
  /\ Overcounts(t, IF n = 0 THEN 0 ELSE n - 1)

HooksNext ==
  \/ MessageOver /\ UNCHANGED overcounted
  \/ \E labels \in LabelLists : CountedHookOver(labels)
  \/ \E b \in Bridges :
       \/ RegisterRemoteBridge(b) /\ UNCHANGED overcounted
       \/ \E label \in Labels : EthOut(b, label) /\ UNCHANGED overcounted
       \/ \E t \in Tokens :
            \/ CountedDonate(b, t)
            \/ \E amount \in Amounts :
                 \/ SendersHook(b, t, amount) /\ UNCHANGED overcounted
                 \/ \E label \in Labels : BurnOut(b, t, amount, label) /\ UNCHANGED overcounted
                 \/ \E labels \in LabelLists : CountedLockOut(b, t, amount, labels)

HooksInit == Init /\ overcounted = [t \in Tokens |-> 0]
HooksSpec == HooksInit /\ [][HooksNext]_hooksVars
-----------------------------------------------------------------------------
\* However sends, hooks, burns and releases are nested, no more of a token is
\* bridged without cover than has been paid to a bridge from within hooks of its
\* senders to that bridge, once for each of the hooks (src/src/Bridge.sol:97-99).
\* It holds of every token, re-entered or not.
UncoveredBounded ==
  \A t \in Tokens :
    SumOver(bridged[t], Bridges) <= SumOver(held[t], Bridges) + overcounted[t]
=============================================================================
