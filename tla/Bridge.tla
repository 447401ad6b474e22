------------------------------- MODULE Bridge -------------------------------
(***************************************************************************)
(* Two instances of contract Bridge of src/src/Bridge.sol, each the remote *)
(* bridge of the other, and the BridgedERC20 tokens they create.  Both are *)
(* in one EVM: a message is a call to the other bridge.  ERC20Out locks a  *)
(* token and has a bridged token minted at the other side, or burns a      *)
(* bridged token and has the token released there.                         *)
(*                                                                         *)
(* Three calls give control to others before they have finished: the       *)
(* sender's hook of an ERC777 token (before the tokens move), the hook of  *)
(* its recipient and the recipient of ether.  A call that waits for such   *)
(* code is a frame of calls; the code may make any call.                   *)
(*                                                                         *)
(* The holders of tokens and of bridged tokens are one account each, as    *)
(* they can pay one another.  The contents of a message are a label.       *)
(***************************************************************************)
EXTENDS Sums, Sequences, FiniteSets

CONSTANTS Bridges, Remote(_),
          Tokens,        \* tokens that no bridge has created
          Hooked,        \* those of them that call their holders (ERC777)
          Amounts, Labels,
          Supply,        \* the supply of each token
          MaxCalls,      \* bound: how many calls wait at a time
          MaxNonce       \* bound: the largest nonce

ASSUME BridgeAssumption ==
  /\ \A b \in Bridges : Remote(b) \in Bridges \ {b} /\ Remote(Remote(b)) = b
  /\ IsFiniteSet(Bridges) /\ Hooked \subseteq Tokens /\ Amounts \subseteq Nat
  /\ Supply \in Nat /\ MaxCalls \in Nat /\ MaxNonce \in Nat

VARIABLES remoteBridge,   \* the bridges that know their remote bridge
          isTokenRegisteredAtRemote,
          localTokens,    \* per bridge, the tokens it has a bridged token for
          held,           \* held[t][b]: the tokens t of bridge b
          bridged,        \* bridged[t][b]: supply of the bridged token of t at b
          msgNonce, relayedMessages,
          relayedMessageSender, \* the bridges where it is set
          calls,          \* the calls that wait, the last one first
          reentered       \* history: tokens sent from a sender's hook for them

messages == <<msgNonce, relayedMessages, relayedMessageSender>>
bridgeVars == <<remoteBridge, isTokenRegisteredAtRemote, localTokens, held, bridged,
                messages, calls, reentered>>

Init ==
  /\ remoteBridge = {}
  /\ isTokenRegisteredAtRemote = [b \in Bridges |-> {}]
  /\ localTokens = [b \in Bridges |-> {}]
  /\ held = [t \in Tokens |-> [b \in Bridges |-> 0]]
  /\ bridged = [t \in Tokens |-> [b \in Bridges |-> 0]]
  /\ msgNonce = [b \in Bridges |-> 0] /\ relayedMessages = [b \in Bridges |-> {}]
  /\ relayedMessageSender = {}
  /\ calls = <<>> /\ reentered = {}

\* The holders can pay amount of t.
HoldersHave(t, amount) == SumOver(held[t], Bridges) + amount <= Supply

RegisterRemoteBridge(b) ==
  /\ remoteBridge' = remoteBridge \cup {b}
  /\ UNCHANGED <<isTokenRegisteredAtRemote, localTokens, held, bridged, messages, calls, reentered>>
-----------------------------------------------------------------------------
\* sendRemoteMessage.  A call of bridge b sends one message for each of labels,
\* in that order; all but the last are over at once.
Sent(b, labels) == {<<msgNonce[b] + i - 1, labels[i]>> : i \in DOMAIN labels}
MayMessage(b, labels) ==
  /\ {b, Remote(b)} \subseteq remoteBridge
  /\ Sent(b, labels) \cap relayedMessages[b] = {}
  /\ msgNonce[b] + Len(labels) <= MaxNonce

\* Variants with a bug: the nonce is not moved, and the sender not reset.
OverWithNonce(b, n) ==
  msgNonce' = msgNonce /\ relayedMessageSender' = relayedMessageSender \ {b}
OverWithSender(b, n) ==
  /\ msgNonce' = [msgNonce EXCEPT ![b] = @ + n]
  /\ relayedMessageSender' = relayedMessageSender

\* The messages are over, or the last of them waits for the code it called.
Over(b, n) ==
  /\ msgNonce' = [msgNonce EXCEPT ![b] = @ + n]
  /\ relayedMessageSender' = relayedMessageSender \ {b}
Waits(b, n, waiting) ==
  /\ msgNonce' = [msgNonce EXCEPT ![b] = @ + (n - 1)]
  /\ relayedMessageSender' = relayedMessageSender \cup {b}
  /\ Len(waiting) < MaxCalls
  /\ calls' = <<[call |-> "message", bridge |-> b]>> \o waiting

\* ERC20In at the remote bridge of b, which mints if it has a local token for
\* t and releases otherwise.  paid is held and minted is bridged before it.
In(b, t, amount, labels, paid, minted, waiting) ==
  LET r == Remote(b)
      n == Len(labels) IN
  /\ MayMessage(b, labels)
  /\ relayedMessages' = [relayedMessages EXCEPT ![b] = @ \cup Sent(b, labels)]
  /\ \/ /\ t \in localTokens'[r]
        /\ bridged' = [minted EXCEPT ![t][r] = @ + amount] /\ held' = paid
        /\ Over(b, n) /\ calls' = waiting
     \/ /\ t \notin localTokens'[r]
        /\ paid[t][r] >= amount
        /\ held' = [paid EXCEPT ![t][r] = @ - amount] /\ bridged' = minted
        /\ \/ t \in Hooked /\ Waits(b, n, waiting)
           \/ Over(b, n) /\ calls' = waiting

MessageOver ==
  /\ calls # <<>> /\ Head(calls).call = "message"
  /\ Over(Head(calls).bridge, 1)
  /\ calls' = Tail(calls)
  /\ UNCHANGED <<remoteBridge, isTokenRegisteredAtRemote, localTokens, held, bridged,
                 relayedMessages, reentered>>
-----------------------------------------------------------------------------
\* ethOut and receive: the ether goes through ethIn to its recipient.
EthOut(b, label) ==
  /\ MayMessage(b, <<label>>)
  /\ relayedMessages' = [relayedMessages EXCEPT ![b] = @ \cup Sent(b, <<label>>)]
  /\ Waits(b, 1, calls)
  /\ UNCHANGED <<remoteBridge, isTokenRegisteredAtRemote, localTokens, held, bridged, reentered>>

\* ERC20Out of a bridged token.
BurnOut(b, t, amount, label) ==
  /\ t \in localTokens[b] /\ bridged[t][b] >= amount
  /\ UNCHANGED <<remoteBridge, isTokenRegisteredAtRemote, localTokens, reentered>>
  /\ In(b, t, amount, <<label>>, held, [bridged EXCEPT ![t][b] = @ - amount], calls)

\* Variant with a bug: the whole balance is what the holder has sent.
WholeBalance(b, t, amount, before) == held[t][b] + amount

Received(b, t, amount, before) == held[t][b] + amount - before

\* The hook may have had more tokens released than the call now brings.
Measurable(b, t, amount, before) == Received(b, t, amount, before) >= 0

\* ERC20Register at the remote bridge.
Registered(b, t) ==
  /\ isTokenRegisteredAtRemote' = [isTokenRegisteredAtRemote EXCEPT ![b] = @ \cup {t}]
  /\ localTokens' = [localTokens EXCEPT ![Remote(b)] = @ \cup {t}]

\* A hook of a sender of t to bridge b is among the calls that wait.
Sending(b, t, waiting) ==
  \E i \in DOMAIN waiting :
    waiting[i].call = "send" /\ waiting[i].bridge = b /\ waiting[i].token = t

\* ERC20Out of another token from the moment it moves; before is the balance
\* read ahead of it.
Lock(b, t, amount, before, labels, waiting) ==
  /\ HoldersHave(t, amount) /\ Measurable(b, t, amount, before)
  /\ \/ /\ t \in isTokenRegisteredAtRemote[b] /\ Len(labels) = 1
        /\ UNCHANGED <<isTokenRegisteredAtRemote, localTokens>>
     \/ /\ t \notin isTokenRegisteredAtRemote[b] /\ Len(labels) = 2
        /\ Registered(b, t)
  /\ In(b, t, Received(b, t, amount, before), labels,
        [held EXCEPT ![t][b] = @ + amount], bridged, waiting)
  /\ reentered' = IF Sending(b, t, waiting) THEN reentered \cup {t} ELSE reentered
  /\ remoteBridge' = remoteBridge

\* Its sender has no hook, or none that does anything.
LockOut(b, t, amount, labels) == Lock(b, t, amount, held[t][b], labels, calls)

SendersHook(b, t, amount) ==
  LET sending == [call |-> "send", bridge |-> b, token |-> t, amount |-> amount,
                  before |-> held[t][b]]
  IN  /\ t \in Hooked /\ Len(calls) < MaxCalls
      /\ calls' = <<sending>> \o calls
      /\ UNCHANGED <<remoteBridge, isTokenRegisteredAtRemote, localTokens, held, bridged,
                     messages, reentered>>

HookOver(labels) ==
  LET f == Head(calls) IN
  /\ calls # <<>> /\ f.call = "send"
  /\ Lock(f.bridge, f.token, f.amount, f.before, labels, Tail(calls))

\* Anyone may pay tokens to a bridge.
Donate(b, t) ==
  /\ HoldersHave(t, 1) /\ held' = [held EXCEPT ![t][b] = @ + 1]
  /\ UNCHANGED <<remoteBridge, isTokenRegisteredAtRemote, localTokens, bridged, messages, calls, reentered>>

LabelLists == (Labels \X Labels) \cup {<<l>> : l \in Labels}

Next ==
  \/ MessageOver
  \/ \E labels \in LabelLists : HookOver(labels)
  \/ \E b \in Bridges :
       \/ RegisterRemoteBridge(b)
       \/ \E label \in Labels : EthOut(b, label)
       \/ \E t \in Tokens :
            \/ Donate(b, t)
            \/ \E amount \in Amounts :
                 \/ SendersHook(b, t, amount)
                 \/ \E label \in Labels : BurnOut(b, t, amount, label)
                 \/ \E labels \in LabelLists : LockOut(b, t, amount, labels)

Spec == Init /\ [][Next]_bridgeVars
-----------------------------------------------------------------------------
\* The bridges together hold a token for every bridged one, whichever side
\* locked it, unless a token was sent from the hook of a sender of it
\* (src/src/Bridge.sol:94-99 and 136-140).
Backed == \A t \in Tokens \ reentered : SumOver(bridged[t], Bridges) <= SumOver(held[t], Bridges)

\* A token that only one bridge locks can be had back there, by every holder
\* of its bridged token (lines 93-99 and 136-140).
Redeemable ==
  \A t \in Tokens \ reentered, b \in Bridges :
    t \notin localTokens[b] => bridged[t][Remote(b)] <= held[t][b]

\* Whatever is bridged can be had back, from one of the bridges if both lock
\* the token and from the only one that does otherwise.
HoldersCovered == Backed /\ Redeemable

\* No message is refused as relayed before unless it is sent while another of
\* its bridge is in the air: the nonces of the past are all below the next
\* one (lines 155-178).
InTheAir(b) == \E i \in DOMAIN calls : calls[i] = [call |-> "message", bridge |-> b]
NoncesFresh ==
  \A b \in Bridges : \A m \in relayedMessages[b] :
    m[1] < msgNonce[b] \/ (InTheAir(b) /\ m[1] = msgNonce[b])

\* A bridge vouches for messages only while it sends one (lines 49-57 and 169-174).
VouchesOnlyInTheAir == \A b \in relayedMessageSender : InTheAir(b)

\* However messages are nested, each finds its nonce unused and its bridge
\* vouching for nothing else.
MessagesInTurn == NoncesFresh /\ VouchesOnlyInTheAir
=============================================================================
