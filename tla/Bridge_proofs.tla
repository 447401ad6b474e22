--------------------------- MODULE Bridge_proofs ---------------------------
(***************************************************************************)
(* Theorems about the two bridges of Bridge.tla: messages are sent in      *)
(* turn, every bridged token can be had back, and hooks of senders that    *)
(* re-enter leave no more uncovered than BridgeHooks.tla counts.           *)
(*                                                                         *)
(* The last two are not inductive as they stand, for a call that waits has *)
(* read a balance that it will take for its own later.  What is: while no  *)
(* hook has re-entered, the bridged tokens are covered whichever of the    *)
(* balances, those read by the calls that wait or the one of now, is taken *)
(* for each bridge; and ever, with what the calls that wait are going to   *)
(* measure in excess added to them.                                        *)
(***************************************************************************)
EXTENDS BridgeHooks, Ledger_proofs, SequenceTheorems

(* The calls that wait, as a set of frames.                                *)
MessageFrame(b) == [call |-> "message", bridge |-> b]
MessageFrames == {MessageFrame(b) : b \in Bridges}
SendFrames ==
  [call : {"send"}, bridge : Bridges, token : Tokens, amount : Amounts, before : Nat]
CallFrames == MessageFrames \cup SendFrames
Frames(waiting) == {waiting[i] : i \in DOMAIN waiting}

(* The balances of t at b that some hook of a sender has still to use, and *)
(* the one of now.                                                         *)
Read(b, t, waiting) ==
  {f.before : f \in {g \in Frames(waiting) : g.call = "send" /\ g.bridge = b /\ g.token = t}}
Balances(t, paid, waiting) == [b \in Bridges |-> {paid[t][b]} \cup Read(b, t, waiting)]

(* minted[b] are the bridged tokens at b, known are the bridges that mint. *)
Covers(minted, balances) ==
  \A f \in [Bridges -> Nat] :
    (\A b \in Bridges : f[b] \in balances[b]) => SumOver(minted, Bridges) <= SumOver(f, Bridges)
Redeems(minted, balances, known) ==
  \A b \in Bridges : b \notin known => \A n \in balances[b] : minted[Remote(b)] <= n
Known(t, tokens) == {b \in Bridges : t \in tokens[b]}

BridgeTypeOK ==
  /\ isTokenRegisteredAtRemote \in [Bridges -> SUBSET Tokens]
  /\ localTokens \in [Bridges -> SUBSET Tokens]
  /\ held \in [Tokens -> [Bridges -> Nat]] /\ bridged \in [Tokens -> [Bridges -> Nat]]
  /\ msgNonce \in [Bridges -> Nat]
  /\ relayedMessages \in [Bridges -> SUBSET (Nat \X Labels)]
  /\ relayedMessageSender \subseteq Bridges
  /\ calls \in Seq(CallFrames)

TokenCovered(t) ==
  /\ Covers(bridged[t], Balances(t, held, calls))
  /\ Redeems(bridged[t], Balances(t, held, calls), Known(t, localTokens))

(* A token is registered at the remote bridge when it is noted as such:    *)
(* what is locked is minted there and never paid out of its own tokens.    *)
RegistrationsKept ==
  \A b \in Bridges : isTokenRegisteredAtRemote[b] \subseteq localTokens[Remote(b)]

BridgeInv ==
  /\ BridgeTypeOK /\ RegistrationsKept
  /\ NoncesFresh /\ VouchesOnlyInTheAir
  /\ (\A t \in Tokens \ reentered : TokenCovered(t))
-----------------------------------------------------------------------------
(* What a call adds to the calls that wait, and what its end takes off.    *)
LEMMA Pushed ==
  ASSUME NEW S, NEW s \in Seq(S), NEW x \in S
  PROVE  /\ <<x>> \o s \in Seq(S)
         /\ Frames(<<x>> \o s) = {x} \cup Frames(s)
<1> DEFINE new == <<x>> \o s
<1>1. /\ new \in Seq(S) /\ Len(new) = 1 + Len(s) /\ Len(s) \in Nat
      /\ DOMAIN s = 1..Len(s) /\ DOMAIN new = 1..(1 + Len(s))
      /\ (\A i \in 1..(1 + Len(s)) : new[i] = IF i <= 1 THEN x ELSE s[i - 1])
  OBVIOUS
<1> HIDE DEF new
<1>2. new[1] = x /\ 1 \in DOMAIN new
  BY <1>1
<1>3. \A i \in DOMAIN s : i + 1 \in DOMAIN new /\ new[i + 1] = s[i]
  BY <1>1
<1>4. \A i \in DOMAIN new : new[i] = x \/ (i - 1 \in DOMAIN s /\ new[i] = s[i - 1])
  BY <1>1
<1>5. Frames(new) = {x} \cup Frames(s)
  BY <1>2, <1>3, <1>4 DEF Frames
<1> QED
  BY <1>1, <1>5 DEF new

LEMMA Popped ==
  ASSUME NEW S, NEW s \in Seq(S), s # <<>>
  PROVE  /\ Head(s) \in S /\ Tail(s) \in Seq(S)
         /\ Frames(s) = {Head(s)} \cup Frames(Tail(s))
<1>1. /\ Head(s) \in S /\ Tail(s) \in Seq(S) /\ Len(Tail(s)) = Len(s) - 1
      /\ (\A i \in 1..Len(Tail(s)) : Tail(s)[i] = s[i + 1])
      /\ Head(s) = s[1] /\ Len(s) \in Nat /\ Len(s) >= 1
      /\ DOMAIN s = 1..Len(s) /\ DOMAIN Tail(s) = 1..Len(Tail(s))
  OBVIOUS
<1> DEFINE rest == Tail(s)
<1>2. \A i \in DOMAIN rest : i + 1 \in DOMAIN s /\ rest[i] = s[i + 1]
  BY <1>1
<1>3. \A i \in DOMAIN s : i = 1 \/ (i - 1 \in DOMAIN rest /\ rest[i - 1] = s[i])
  BY <1>1
<1>4. 1 \in DOMAIN s
  BY <1>1
<1> HIDE DEF rest
<1>5. Frames(s) = {s[1]} \cup Frames(rest)
  BY <1>2, <1>3, <1>4 DEF Frames
<1> QED
  BY <1>1, <1>5 DEF rest

LEMMA InTheAirIsFrame ==
  ASSUME NEW b
  PROVE  InTheAir(b) <=> MessageFrame(b) \in Frames(calls)
BY DEF InTheAir, Frames, MessageFrame

(* A balance that moves at one bridge, and the bridged tokens with it.     *)
LEMMA CoversMove ==
  ASSUME NEW m \in [Bridges -> Nat], NEW m1 \in [Bridges -> Nat],
         NEW bal, NEW bal1, NEW p \in Bridges, NEW k \in Int,
         SumOver(m1, Bridges) <= SumOver(m, Bridges) + k,
         \A c \in Bridges \ {p} : bal1[c] \subseteq bal[c],
         \A x \in bal1[p] : x \in Nat => \E y \in bal[p] : y \in Nat /\ y + k <= x,
         Covers(m, bal)
  PROVE  Covers(m1, bal1)
<1> SUFFICES ASSUME NEW f \in [Bridges -> Nat], \A b \in Bridges : f[b] \in bal1[b]
             PROVE  SumOver(m1, Bridges) <= SumOver(f, Bridges)
  BY DEF Covers
<1>1. PICK y \in bal[p] : y \in Nat /\ y + k <= f[p]
  OBVIOUS
<1> DEFINE g == [f EXCEPT ![p] = y]
<1>2. /\ g \in [Bridges -> Nat] /\ g[p] = y
      /\ (\A c \in Bridges \ {p} : g[c] = f[c])
      /\ (\A b \in Bridges : g[b] \in bal[b])
  BY <1>1
<1> HIDE DEF g
<1>3. IsFiniteSet(Bridges)
  BY BridgeAssumption
<1>4. f \in [Bridges -> Int] /\ g \in [Bridges -> Int]
  BY <1>2
<1>5. SumOver(g, Bridges) = SumOver(f, Bridges) - f[p] + g[p]
  BY <1>2, <1>3, <1>4, SumUpdate
<1>6. SumOver(m, Bridges) <= SumOver(g, Bridges)
  BY <1>2 DEF Covers
<1>7. /\ SumOver(m, Bridges) \in Nat /\ SumOver(m1, Bridges) \in Nat
      /\ SumOver(f, Bridges) \in Nat /\ SumOver(g, Bridges) \in Nat
  BY <1>2, <1>3, SumType
<1>8. f[p] \in Nat /\ g[p] \in Nat
  BY <1>2
<1> QED
  BY <1>1, <1>2, <1>5, <1>6, <1>7, <1>8

LEMMA RemoteFacts ==
  ASSUME NEW b \in Bridges
  PROVE  /\ Remote(b) \in Bridges /\ Remote(b) # b /\ Remote(Remote(b)) = b
         /\ (\A c \in Bridges : Remote(c) = Remote(b) => c = b)
         /\ (\A c \in Bridges : Remote(c) = b => c = Remote(b))
BY BridgeAssumption

(* A payment to a bridge, or balances that nobody waits for any more.      *)
LEMMA StaysCovered ==
  ASSUME NEW m \in [Bridges -> Nat], NEW bal, NEW bal1, NEW p \in Bridges, NEW known,
         \A c \in Bridges \ {p} : bal1[c] \subseteq bal[c],
         \A x \in bal1[p] : x \in Nat /\ \E y \in bal[p] : y \in Nat /\ y <= x,
         Covers(m, bal), Redeems(m, bal, known)
  PROVE  Covers(m, bal1) /\ Redeems(m, bal1, known)
<1>1. SumOver(m, Bridges) <= SumOver(m, Bridges) + 0
  <2>1. SumOver(m, Bridges) \in Nat
    BY SumType, BridgeAssumption
  <2> QED
    BY <2>1
<1>2. \A x \in bal1[p] : x \in Nat => \E y \in bal[p] : y \in Nat /\ y + 0 <= x
  OBVIOUS
<1>3. Covers(m, bal1)
  BY <1>1, <1>2, CoversMove
<1>4. ASSUME NEW c \in Bridges, c \notin known, NEW x \in bal1[c]
      PROVE  m[Remote(c)] <= x
  <2>1. CASE c # p
    BY <1>4, <2>1 DEF Redeems
  <2>2. CASE c = p
    <3>1. PICK y \in bal[p] : y \in Nat /\ y <= x
      BY <1>4, <2>2
    <3>2. m[Remote(p)] <= y
      BY <1>4, <2>2, <3>1 DEF Redeems
    <3>3. m[Remote(p)] \in Nat /\ x \in Nat
      BY <1>4, <2>2, RemoteFacts
    <3> QED
      BY <2>2, <3>1, <3>2, <3>3
  <2> QED
    BY <2>1, <2>2
<1> QED
  BY <1>3, <1>4 DEF Redeems

(* A token locked at b is minted at the other side, by what the balance of *)
(* b is now above the one that was read.                                   *)
LockMove(m, m1, bal, bal1, known, known1, b, before, now) ==
  /\ m \in [Bridges -> Nat] /\ m1 \in [Bridges -> Nat] /\ before \in Nat /\ now \in Nat
  /\ before \in bal[b] /\ bal1[b] = {now}
  /\ (\A c \in Bridges \ {b} : bal1[c] \subseteq bal[c])
  /\ m1[Remote(b)] = m[Remote(b)] + (now - before)
  /\ (\A c \in Bridges \ {Remote(b)} : m1[c] = m[c])
  /\ known \subseteq known1
  /\ Covers(m, bal) /\ Redeems(m, bal, known)

LEMMA LockCovered ==
  ASSUME NEW m, NEW m1, NEW bal, NEW bal1, NEW known, NEW known1, NEW b \in Bridges,
         NEW before, NEW now, LockMove(m, m1, bal, bal1, known, known1, b, before, now)
  PROVE  Covers(m1, bal1) /\ Redeems(m1, bal1, known1)
<1> USE DEF LockMove
<1> DEFINE r == Remote(b)
           k == now - before
<1>1. r \in Bridges /\ r # b /\ (\A c \in Bridges : Remote(c) \in Bridges /\ (Remote(c) = r => c = b))
  BY RemoteFacts
<1>2. m \in [Bridges -> Int] /\ m1 \in [Bridges -> Int] /\ m[r] \in Nat /\ m1[r] \in Nat
  BY <1>1
<1>3. m1[r] = m[r] + k /\ (\A c \in Bridges \ {r} : m1[c] = m[c]) /\ k \in Int /\ before + k = now
  OBVIOUS
<1> HIDE DEF r, k
<1>4. SumOver(m1, Bridges) = SumOver(m, Bridges) - m[r] + m1[r]
  BY <1>1, <1>2, <1>3, SumUpdate, BridgeAssumption
<1>5. SumOver(m, Bridges) \in Nat /\ SumOver(m1, Bridges) \in Nat
  BY SumType, BridgeAssumption
<1>6. SumOver(m1, Bridges) <= SumOver(m, Bridges) + k
  BY <1>2, <1>3, <1>4, <1>5
<1>7. \A x \in bal1[b] : x \in Nat => \E y \in bal[b] : y \in Nat /\ y + k <= x
  BY <1>3
<1>8. Covers(m1, bal1)
  BY <1>3, <1>6, <1>7, CoversMove
<1>9. ASSUME NEW c \in Bridges, c \notin known1, NEW x \in bal1[c]
      PROVE  m1[Remote(c)] <= x
  <2>1. CASE c = b
    <3>1. m[r] <= before
      BY <1>9, <2>1 DEF Redeems, r
    <3>2. m1[r] <= now
      BY <1>2, <1>3, <3>1
    <3> QED
      BY <2>1, <3>2 DEF r
  <2>2. CASE c # b
    <3>1. m1[Remote(c)] = m[Remote(c)]
      BY <1>1, <1>3, <2>2
    <3>2. x \in bal[c] /\ c \notin known
      BY <1>9, <2>2
    <3> QED
      BY <3>1, <3>2 DEF Redeems
  <2> QED
    BY <2>1, <2>2
<1> QED
  BY <1>8, <1>9 DEF Redeems

(* A bridged token burnt at b is minted at the other side,                 *)
MintMove(m, m1, bal, bal1, known, b, a) ==
  /\ m \in [Bridges -> Nat] /\ m1 \in [Bridges -> Nat] /\ a \in Nat
  /\ (\A c \in Bridges : bal1[c] \subseteq bal[c] \cap Nat)
  /\ b \in known /\ m1[b] = m[b] - a /\ m1[Remote(b)] = m[Remote(b)] + a
  /\ (\A c \in Bridges \ {b, Remote(b)} : m1[c] = m[c])
  /\ Covers(m, bal) /\ Redeems(m, bal, known)

LEMMA MintCovered ==
  ASSUME NEW m, NEW m1, NEW bal, NEW bal1, NEW known, NEW b \in Bridges, NEW a,
         MintMove(m, m1, bal, bal1, known, b, a)
  PROVE  Covers(m1, bal1) /\ Redeems(m1, bal1, known)
<1> USE DEF MintMove
<1> DEFINE r == Remote(b)
<1>1. /\ r \in Bridges /\ r # b /\ Remote(r) = b
      /\ (\A c \in Bridges : /\ Remote(c) \in Bridges
                             /\ (Remote(c) = r => c = b) /\ (Remote(c) = b => c = r))
  BY RemoteFacts
<1>2. m \in [Bridges -> Int] /\ m1 \in [Bridges -> Int]
      /\ m[r] \in Nat /\ m1[r] \in Nat /\ m[b] \in Nat /\ m1[b] \in Nat
  BY <1>1
<1>3. m1[r] = m[r] + a /\ m1[b] = m[b] - a /\ (\A c \in Bridges \ {b, r} : m1[c] = m[c])
  OBVIOUS
<1> HIDE DEF r
<1>4. m1[b] + m1[r] = m[b] + m[r]
  BY <1>2, <1>3
<1>5. SumOver(m1, Bridges) = SumOver(m, Bridges)
  BY <1>1, <1>2, <1>3, <1>4, SumTransfer, BridgeAssumption
<1>6. SumOver(m, Bridges) \in Nat
  BY SumType, BridgeAssumption
<1>7. SumOver(m1, Bridges) <= SumOver(m, Bridges) + 0
  BY <1>5, <1>6
<1>8. \A x \in bal1[b] : x \in Nat => \E y \in bal[b] : y \in Nat /\ y + 0 <= x
  OBVIOUS
<1>9. Covers(m1, bal1)
  <2> DEFINE k == 0
  <2>1. \A c \in Bridges \ {b} : bal1[c] \subseteq bal[c]
    OBVIOUS
  <2>2. k \in Int /\ SumOver(m1, Bridges) <= SumOver(m, Bridges) + k
        /\ \A x \in bal1[b] : x \in Nat => \E y \in bal[b] : y \in Nat /\ y + k <= x
    BY <1>7, <1>8
  <2> HIDE DEF k
  <2> QED
    BY <2>1, <2>2, CoversMove
<1>10. ASSUME NEW c \in Bridges, c \notin known, NEW x \in bal1[c]
       PROVE  m1[Remote(c)] <= x
  <2>1. m[Remote(c)] <= x /\ x \in Nat
    BY <1>10 DEF Redeems
  <2>2. CASE c = r
    BY <1>1, <1>2, <1>3, <2>1, <2>2
  <2>3. CASE c # r
    BY <1>1, <1>3, <1>10, <2>1, <2>3
  <2> QED
    BY <2>2, <2>3
<1> QED
  BY <1>9, <1>10 DEF Redeems

(* or the token is released there.                                         *)
ReleaseMove(m, m1, bal, bal1, known, b, a) ==
  /\ m \in [Bridges -> Nat] /\ m1 \in [Bridges -> Nat] /\ a \in Nat
  /\ (\A c \in Bridges \ {Remote(b)} : bal1[c] \subseteq bal[c] \cap Nat)
  /\ (\A x \in bal1[Remote(b)] :
        x \in Nat /\ (x \in bal[Remote(b)] \/ x + a \in bal[Remote(b)]))
  /\ b \in known /\ m1[b] = m[b] - a /\ (\A c \in Bridges \ {b} : m1[c] = m[c])
  /\ Covers(m, bal) /\ Redeems(m, bal, known)

LEMMA ReleaseCovered ==
  ASSUME NEW m, NEW m1, NEW bal, NEW bal1, NEW known, NEW b \in Bridges, NEW a,
         ReleaseMove(m, m1, bal, bal1, known, b, a)
  PROVE  Covers(m1, bal1) /\ Redeems(m1, bal1, known)
<1> USE DEF ReleaseMove
<1> DEFINE r == Remote(b)
           k == -a
<1>1. /\ r \in Bridges /\ r # b /\ Remote(r) = b
      /\ (\A c \in Bridges : Remote(c) \in Bridges /\ (Remote(c) = b => c = r))
  BY RemoteFacts
<1>2. m \in [Bridges -> Int] /\ m1 \in [Bridges -> Int] /\ m[b] \in Nat /\ m1[b] \in Nat /\ k \in Int
  BY <1>1
<1>3. m1[b] = m[b] + k /\ (\A c \in Bridges \ {r} : bal1[c] \subseteq bal[c])
      /\ (\A x \in bal1[r] : x \in Nat /\ (x \in bal[r] \/ x + a \in bal[r]))
  BY <1>2
<1>4. \A x \in Nat : x + a \in Nat /\ (x + a) + k <= x /\ x + k <= x
  OBVIOUS
<1> HIDE DEF r, k
<1>5. SumOver(m1, Bridges) = SumOver(m, Bridges) - m[b] + m1[b]
  BY <1>2, SumUpdate, BridgeAssumption
<1>6. SumOver(m, Bridges) \in Nat /\ SumOver(m1, Bridges) \in Nat
  BY SumType, BridgeAssumption
<1>7. SumOver(m1, Bridges) <= SumOver(m, Bridges) + k
  BY <1>2, <1>3, <1>5, <1>6
<1>8. \A x \in bal1[r] : x \in Nat => \E y \in bal[r] : y \in Nat /\ y + k <= x
  BY <1>3, <1>4
<1>9. Covers(m1, bal1)
  BY <1>1, <1>2, <1>3, <1>7, <1>8, CoversMove
<1>10. ASSUME NEW c \in Bridges, c \notin known, NEW x \in bal1[c]
       PROVE  m1[Remote(c)] <= x
  <2>1. CASE c = r
    <3>1. x \in Nat /\ (x \in bal[r] \/ x + a \in bal[r])
      BY <1>3, <1>10, <2>1
    <3>2. \A y \in bal[r] : m[b] <= y
      BY <1>1, <1>10, <2>1 DEF Redeems
    <3>3. m[b] <= x \/ m[b] <= x + a
      BY <3>1, <3>2
    <3>4. m1[b] <= x
      <4>1. m1[b] = m[b] - a
        OBVIOUS
      <4> QED
        BY <1>2, <3>1, <3>3, <4>1
    <3> QED
      BY <1>1, <2>1, <3>4
  <2>2. CASE c # r
    <3>1. m1[Remote(c)] = m[Remote(c)]
      BY <1>1, <2>2
    <3>2. x \in bal[c]
      BY <1>3, <1>10, <2>2
    <3> QED
      BY <1>10, <3>1, <3>2 DEF Redeems
  <2> QED
    BY <2>1, <2>2
<1> QED
  BY <1>9, <1>10 DEF Redeems
-----------------------------------------------------------------------------
(* A call that sends n messages leaves the calls in waiting, and perhaps   *)
(* one that waits for the last of them.                                    *)
EndsOrWaits(b, n, waiting) == (Over(b, n) /\ calls' = waiting) \/ Waits(b, n, waiting)

MessagesSent(b, labels, waiting) ==
  /\ MayMessage(b, labels)
  /\ relayedMessages' = [relayedMessages EXCEPT ![b] = @ \cup Sent(b, labels)]
  /\ EndsOrWaits(b, Len(labels), waiting)

LEMMA WaitingFrames ==
  ASSUME NEW b \in Bridges, NEW n, NEW waiting \in Seq(CallFrames), EndsOrWaits(b, n, waiting)
  PROVE  /\ calls' \in Seq(CallFrames)
         /\ Frames(waiting) \subseteq Frames(calls')
         /\ (\A c \in Bridges, t \in Tokens : Read(c, t, calls') = Read(c, t, waiting))
         /\ (Waits(b, n, waiting) => MessageFrame(b) \in Frames(calls'))
<1>1. CASE Over(b, n) /\ calls' = waiting
      /\ ~Waits(b, n, waiting)
  BY <1>1
<1>2. CASE Waits(b, n, waiting)
  <2>1. MessageFrame(b) \in CallFrames
    BY DEF CallFrames, MessageFrames
  <2>2. calls' = <<MessageFrame(b)>> \o waiting
    BY <1>2 DEF Waits, MessageFrame
  <2>3. calls' \in Seq(CallFrames) /\ Frames(calls') = {MessageFrame(b)} \cup Frames(waiting)
    BY <2>1, <2>2, Pushed
  <2>4. MessageFrame(b).call # "send"
    BY DEF MessageFrame
  <2>5. \A c \in Bridges, t \in Tokens : Read(c, t, calls') = Read(c, t, waiting)
    BY <2>3, <2>4 DEF Read
  <2> QED
    BY <2>3, <2>5
<1> QED
  BY <1>1, <1>2 DEF EndsOrWaits

(* The nonces that are used stay behind the next one.                      *)
LEMMA SentInTurn ==
  ASSUME BridgeTypeOK, NoncesFresh, VouchesOnlyInTheAir,
         NEW b \in Bridges, NEW labels \in Seq(Labels), Len(labels) >= 1,
         NEW waiting \in Seq(CallFrames),
         \A c \in Bridges : MessageFrame(c) \in Frames(calls) => MessageFrame(c) \in Frames(waiting),
         MessagesSent(b, labels, waiting)
  PROVE  /\ msgNonce' \in [Bridges -> Nat] /\ relayedMessageSender' \subseteq Bridges
         /\ relayedMessages' \in [Bridges -> SUBSET (Nat \X Labels)]
         /\ NoncesFresh' /\ VouchesOnlyInTheAir'
<1> DEFINE n == Len(labels)
<1>1. /\ n \in Nat /\ n >= 1 /\ DOMAIN labels = 1..n
      /\ msgNonce \in [Bridges -> Nat] /\ relayedMessageSender \subseteq Bridges
      /\ relayedMessages \in [Bridges -> SUBSET (Nat \X Labels)]
  BY DEF BridgeTypeOK
<1>2. /\ relayedMessages' = [relayedMessages EXCEPT ![b] = @ \cup Sent(b, labels)]
      /\ EndsOrWaits(b, n, waiting)
  BY DEF MessagesSent
<1>3. \A m \in Sent(b, labels) : /\ m \in Nat \X Labels
                                 /\ msgNonce[b] <= m[1] /\ m[1] <= msgNonce[b] + (n - 1)
  <2> SUFFICES ASSUME NEW i \in 1..n
               PROVE  LET m == <<msgNonce[b] + i - 1, labels[i]>> IN
                      /\ m \in Nat \X Labels
                      /\ msgNonce[b] <= m[1] /\ m[1] <= msgNonce[b] + (n - 1)
    BY <1>1 DEF Sent
  <2>1. labels[i] \in Labels
    BY <1>1
  <2>2. msgNonce[b] \in Nat
    BY <1>1
  <2>3. msgNonce[b] + i - 1 \in Nat /\ msgNonce[b] <= msgNonce[b] + i - 1
        /\ msgNonce[b] + i - 1 <= msgNonce[b] + (n - 1)
    BY <1>1, <2>2
  <2> QED
    BY <2>1, <2>3
<1>4. relayedMessages' \in [Bridges -> SUBSET (Nat \X Labels)]
  BY <1>1, <1>2, <1>3
<1>5. \A c \in Bridges : \A m \in relayedMessages'[c] :
        m[1] \in Nat /\ (m \in relayedMessages[c] \/ (c = b /\ m \in Sent(b, labels)))
  BY <1>1, <1>2, <1>4
<1>6. \A c \in Bridges : InTheAir(c) => InTheAir(c)'
  <2>1. Frames(waiting) \subseteq Frames(calls')
    BY <1>2, WaitingFrames
  <2> QED
    BY <2>1, InTheAirIsFrame DEF InTheAir, Frames, MessageFrame
<1> HIDE DEF n
<1>7. CASE Over(b, n)
  <2>1. msgNonce' = [msgNonce EXCEPT ![b] = msgNonce[b] + n]
        /\ relayedMessageSender' = relayedMessageSender \ {b}
    BY <1>7 DEF Over
  <2>2. msgNonce' \in [Bridges -> Nat] /\ relayedMessageSender' \subseteq Bridges
    BY <1>1, <2>1
  <2>3. VouchesOnlyInTheAir'
    BY <1>1, <1>6, <2>1 DEF VouchesOnlyInTheAir
  <2>4. ASSUME NEW c \in Bridges, NEW m \in relayedMessages'[c]
        PROVE  m[1] < msgNonce'[c] \/ (InTheAir(c)' /\ m[1] = msgNonce'[c])
    <3>1. m[1] \in Nat /\ msgNonce[c] \in Nat /\ msgNonce'[c] = IF c = b THEN msgNonce[c] + n ELSE msgNonce[c]
      BY <1>1, <1>5, <2>1, <2>4
    <3>2. CASE m \in relayedMessages[c]
      <4>1. m[1] < msgNonce[c] \/ (InTheAir(c) /\ m[1] = msgNonce[c])
        BY <3>2 DEF NoncesFresh
      <4> QED
        BY <1>1, <1>6, <3>1, <4>1
    <3>3. CASE c = b /\ m \in Sent(b, labels)
      BY <1>1, <1>3, <3>1, <3>3
    <3> QED
      BY <1>5, <2>4, <3>2, <3>3
  <2> QED
    BY <1>4, <2>2, <2>3, <2>4 DEF NoncesFresh
<1>8. CASE Waits(b, n, waiting)
  <2>1. msgNonce' = [msgNonce EXCEPT ![b] = msgNonce[b] + (n - 1)]
        /\ relayedMessageSender' = relayedMessageSender \cup {b}
    BY <1>8 DEF Waits
  <2>2. msgNonce' \in [Bridges -> Nat] /\ relayedMessageSender' \subseteq Bridges
    BY <1>1, <2>1
  <2>3. InTheAir(b)'
    <3>1. MessageFrame(b) \in Frames(calls')
      BY <1>2, <1>8, WaitingFrames
    <3> QED
      BY <3>1 DEF InTheAir, Frames, MessageFrame
  <2>4. VouchesOnlyInTheAir'
    BY <1>1, <1>6, <2>1, <2>3 DEF VouchesOnlyInTheAir
  <2>5. ASSUME NEW c \in Bridges, NEW m \in relayedMessages'[c]
        PROVE  m[1] < msgNonce'[c] \/ (InTheAir(c)' /\ m[1] = msgNonce'[c])
    <3>1. m[1] \in Nat /\ msgNonce[c] \in Nat /\ msgNonce'[c] = IF c = b THEN msgNonce[c] + (n - 1) ELSE msgNonce[c]
      BY <1>1, <1>5, <2>1, <2>5
    <3>2. CASE m \in relayedMessages[c]
      <4>1. m[1] < msgNonce[c] \/ (InTheAir(c) /\ m[1] = msgNonce[c])
        BY <3>2 DEF NoncesFresh
      <4> QED
        BY <1>1, <1>6, <3>1, <4>1
    <3>3. CASE c = b /\ m \in Sent(b, labels)
      <4>1. InTheAir(c)'
        BY <2>3, <3>3 DEF InTheAir
      <4>2. m[1] <= msgNonce[b] + (n - 1)
        BY <1>3, <3>3
      <4>3. msgNonce'[c] \in Nat /\ m[1] <= msgNonce'[c] /\ m[1] \in Nat
        BY <2>2, <3>1, <3>3, <4>2
      <4>4. m[1] < msgNonce'[c] \/ m[1] = msgNonce'[c]
        BY <4>3
      <4> QED
        BY <4>1, <4>4
    <3> QED
      BY <1>5, <2>5, <3>2, <3>3
  <2> QED
    BY <1>4, <2>2, <2>4, <2>5 DEF NoncesFresh
<1> QED
  BY <1>2, <1>7, <1>8 DEF EndsOrWaits
-----------------------------------------------------------------------------
(* What ERC20In does with the token.                                       *)
Minted(t, r, amount, paid, minted) ==
  /\ t \in localTokens'[r] /\ held' = paid
  /\ bridged' = [minted EXCEPT ![t] = [minted[t] EXCEPT ![r] = minted[t][r] + amount]]
ReleasedTo(t, r, amount, paid, minted) ==
  /\ t \notin localTokens'[r] /\ paid[t][r] >= amount /\ bridged' = minted
  /\ held' = [paid EXCEPT ![t] = [paid[t] EXCEPT ![r] = paid[t][r] - amount]]

LEMMA InMoves ==
  ASSUME NEW b \in Bridges, NEW t \in Tokens, NEW amount \in Nat, NEW labels,
         NEW paid \in [Tokens -> [Bridges -> Nat]], NEW minted \in [Tokens -> [Bridges -> Nat]],
         NEW waiting, In(b, t, amount, labels, paid, minted, waiting)
  PROVE  /\ MessagesSent(b, labels, waiting)
         /\ \/ Minted(t, Remote(b), amount, paid, minted)
            \/ ReleasedTo(t, Remote(b), amount, paid, minted)
         /\ held' \in [Tokens -> [Bridges -> Nat]] /\ bridged' \in [Tokens -> [Bridges -> Nat]]
<1> DEFINE r == Remote(b)
<1>1. r \in Bridges
  BY RemoteFacts
<1>2. MessagesSent(b, labels, waiting)
  BY DEF In, MessagesSent, EndsOrWaits
<1>3. \/ t \in localTokens'[r] /\ held' = paid /\ bridged' = [minted EXCEPT ![t][r] = @ + amount]
      \/ t \notin localTokens'[r] /\ paid[t][r] >= amount /\ bridged' = minted
         /\ held' = [paid EXCEPT ![t][r] = @ - amount]
  BY DEF In
<1> HIDE DEF r
<1>4. CASE t \in localTokens'[r] /\ held' = paid /\ bridged' = [minted EXCEPT ![t][r] = @ + amount]
  <2>1. Minted(t, r, amount, paid, minted)
    BY <1>1, <1>4 DEF Minted
  <2>2. minted[t] \in [Bridges -> Nat] /\ minted[t][r] + amount \in Nat
    BY <1>1
  <2>3. bridged' \in [Tokens -> [Bridges -> Nat]]
    BY <1>1, <2>1, <2>2 DEF Minted
  <2> QED
    BY <1>2, <1>4, <2>1, <2>3 DEF r
<1>5. CASE t \notin localTokens'[r] /\ paid[t][r] >= amount /\ bridged' = minted
           /\ held' = [paid EXCEPT ![t][r] = @ - amount]
  <2>1. ReleasedTo(t, r, amount, paid, minted)
    BY <1>1, <1>5 DEF ReleasedTo
  <2>2. paid[t] \in [Bridges -> Nat] /\ paid[t][r] - amount \in Nat
    BY <1>1, <1>5
  <2>3. held' \in [Tokens -> [Bridges -> Nat]]
    BY <1>1, <2>1, <2>2 DEF ReleasedTo
  <2> QED
    BY <1>2, <1>5, <2>1, <2>3 DEF r
<1> QED
  BY <1>3, <1>4, <1>5

(* Nothing moves of a token, and no balance more is read.                  *)
LEMMA TokenStays ==
  ASSUME NEW s \in Tokens, TokenCovered(s), bridged'[s] = bridged[s],
         \A c \in Bridges : /\ Balances(s, held', calls')[c] \subseteq Balances(s, held, calls)[c]
                            /\ localTokens[c] \subseteq localTokens'[c]
  PROVE  TokenCovered(s)'
<1> DEFINE bal == Balances(s, held, calls)
           bal1 == Balances(s, held', calls')
<1>1. \A c \in Bridges : bal1[c] \subseteq bal[c]
  OBVIOUS
<1>2. Covers(bridged[s], bal) /\ Redeems(bridged[s], bal, Known(s, localTokens))
  BY DEF TokenCovered
<1>3. \A c \in Bridges : c \notin Known(s, localTokens') => c \notin Known(s, localTokens)
  BY DEF Known
<1> HIDE DEF bal, bal1
<1>4. Covers(bridged'[s], bal1)
  BY <1>1, <1>2 DEF Covers
<1>5. Redeems(bridged'[s], bal1, Known(s, localTokens'))
  BY <1>1, <1>2, <1>3 DEF Redeems
<1> QED
  BY <1>4, <1>5 DEF TokenCovered, bal, bal1

LEMMA ReadTyped ==
  ASSUME NEW waiting \in Seq(CallFrames), NEW b, NEW t
  PROVE  Read(b, t, waiting) \subseteq Nat
<1> SUFFICES ASSUME NEW i \in DOMAIN waiting, waiting[i].call = "send"
             PROVE  waiting[i].before \in Nat
  BY DEF Read, Frames
<1>1. waiting[i] \in CallFrames
  OBVIOUS
<1>2. waiting[i] \notin MessageFrames
  BY DEF MessageFrames, MessageFrame
<1>3. waiting[i] \in SendFrames
  BY <1>1, <1>2 DEF CallFrames
<1> QED
  BY <1>3 DEF SendFrames

(* A token locked at b is registered at the remote bridge and minted there.*)
LEMMA LockRegisters ==
  ASSUME BridgeTypeOK, RegistrationsKept, NEW b \in Bridges, NEW t \in Tokens, NEW amount,
         NEW before, NEW labels, NEW waiting, Lock(b, t, amount, before, labels, waiting)
  PROVE  /\ localTokens' \in [Bridges -> SUBSET Tokens] /\ t \in localTokens'[Remote(b)]
         /\ isTokenRegisteredAtRemote' \in [Bridges -> SUBSET Tokens]
         /\ (\A c \in Bridges : localTokens[c] \subseteq localTokens'[c])
         /\ RegistrationsKept'
<1>1. /\ isTokenRegisteredAtRemote \in [Bridges -> SUBSET Tokens]
      /\ localTokens \in [Bridges -> SUBSET Tokens] /\ Remote(b) \in Bridges
      /\ (\A c \in Bridges : isTokenRegisteredAtRemote[c] \subseteq localTokens[Remote(c)])
  BY RemoteFacts DEF BridgeTypeOK, RegistrationsKept
<1>2. CASE /\ t \in isTokenRegisteredAtRemote[b]
           /\ UNCHANGED <<isTokenRegisteredAtRemote, localTokens>>
  BY <1>1, <1>2 DEF RegistrationsKept
<1>3. CASE Registered(b, t)
  <2>1. /\ isTokenRegisteredAtRemote' = [isTokenRegisteredAtRemote EXCEPT ![b] = @ \cup {t}]
        /\ localTokens' = [localTokens EXCEPT ![Remote(b)] = @ \cup {t}]
    BY <1>3 DEF Registered
  <2>2. /\ localTokens' \in [Bridges -> SUBSET Tokens] /\ t \in localTokens'[Remote(b)]
        /\ isTokenRegisteredAtRemote' \in [Bridges -> SUBSET Tokens]
        /\ (\A c \in Bridges : localTokens[c] \subseteq localTokens'[c])
    BY <1>1, <2>1
  <2>3. ASSUME NEW c \in Bridges
        PROVE  isTokenRegisteredAtRemote'[c] \subseteq localTokens'[Remote(c)]
    <3>1. Remote(c) \in Bridges /\ localTokens[Remote(c)] \subseteq localTokens'[Remote(c)]
      BY <2>2, RemoteFacts
    <3>2. CASE c = b
      BY <1>1, <2>1, <2>2, <3>1, <3>2
    <3>3. CASE c # b
      BY <1>1, <2>1, <3>1, <3>3
    <3> QED
      BY <3>2, <3>3
  <2> QED
    BY <2>2, <2>3 DEF RegistrationsKept
<1> QED
  BY <1>2, <1>3 DEF Lock

(* What moves when a token is locked at b.                                 *)
LEMMA LockMoves ==
  ASSUME BridgeTypeOK, RegistrationsKept, NEW b \in Bridges, NEW t \in Tokens,
         NEW amount \in Nat, NEW before \in Nat, NEW labels, NEW waiting \in Seq(CallFrames),
         Lock(b, t, amount, before, labels, waiting)
  PROVE  /\ held' \in [Tokens -> [Bridges -> Nat]] /\ bridged' \in [Tokens -> [Bridges -> Nat]]
         /\ MessagesSent(b, labels, waiting)
         /\ held[t][b] \in Nat /\ held'[t][b] = held[t][b] + amount
         /\ held[t][b] + amount - before \in Nat
         /\ (\A c \in Bridges \ {b} : held'[t][c] = held[t][c])
         /\ (\A s \in Tokens \ {t} : held'[s] = held[s] /\ bridged'[s] = bridged[s])
         /\ bridged'[t][Remote(b)] = bridged[t][Remote(b)] + (held[t][b] + amount - before)
         /\ (\A c \in Bridges \ {Remote(b)} : bridged'[t][c] = bridged[t][c])
<1> DEFINE r == Remote(b)
           now == held[t][b] + amount
           got == Received(b, t, amount, before)
           paid == [held EXCEPT ![t][b] = @ + amount]
<1>1. /\ held \in [Tokens -> [Bridges -> Nat]] /\ bridged \in [Tokens -> [Bridges -> Nat]]
  BY DEF BridgeTypeOK
<1>2. r \in Bridges /\ r # b /\ t \in localTokens'[r]
  BY RemoteFacts, LockRegisters
<1>3. held[t][b] \in Nat /\ now \in Nat /\ held[t] \in [Bridges -> Nat]
  BY <1>1
<1>4. got \in Nat /\ got = now - before
  BY <1>3 DEF Lock, Measurable, Received
<1>5. paid \in [Tokens -> [Bridges -> Nat]] /\ paid = [held EXCEPT ![t] = [held[t] EXCEPT ![b] = now]]
  BY <1>1, <1>3
<1>6. In(b, t, got, labels, paid, bridged, waiting)
  BY DEF Lock
<1> HIDE DEF got, paid, r
<1>7. /\ MessagesSent(b, labels, waiting)
      /\ Minted(t, r, got, paid, bridged) \/ ReleasedTo(t, r, got, paid, bridged)
      /\ held' \in [Tokens -> [Bridges -> Nat]] /\ bridged' \in [Tokens -> [Bridges -> Nat]]
  BY <1>1, <1>4, <1>5, <1>6, InMoves DEF r
<1>8. /\ held' = paid
      /\ bridged' = [bridged EXCEPT ![t] = [bridged[t] EXCEPT ![r] = bridged[t][r] + got]]
  BY <1>2, <1>7 DEF Minted, ReleasedTo
<1>9. /\ held'[t][b] = now /\ (\A c \in Bridges \ {b} : held'[t][c] = held[t][c])
      /\ (\A s \in Tokens \ {t} : held'[s] = held[s] /\ bridged'[s] = bridged[s])
      /\ bridged'[t][r] = bridged[t][r] + got
      /\ (\A c \in Bridges \ {r} : bridged'[t][c] = bridged[t][c])
  BY <1>1, <1>2, <1>3, <1>5, <1>8
<1> QED
  BY <1>3, <1>4, <1>7, <1>9 DEF r

(* A token locked at b stays covered, and so does every other.             *)
LEMMA LockTokens ==
  ASSUME BridgeTypeOK, RegistrationsKept, NEW b \in Bridges, NEW t \in Tokens, NEW amount \in Nat,
         NEW before \in Nat, NEW labels, NEW waiting \in Seq(CallFrames),
         Frames(waiting) \subseteq Frames(calls),
         before \in Balances(t, held, calls)[b],
         Lock(b, t, amount, before, labels, waiting),
         \A s \in Tokens \ reentered : TokenCovered(s)
  PROVE  \A s \in Tokens \ reentered' : TokenCovered(s)'
<1> DEFINE r == Remote(b)
           now == held[t][b] + amount
<1>1. held \in [Tokens -> [Bridges -> Nat]] /\ bridged \in [Tokens -> [Bridges -> Nat]]
  BY DEF BridgeTypeOK
<1>2. reentered' = IF Sending(b, t, waiting) THEN reentered \cup {t} ELSE reentered
  BY DEF Lock
<1>3. \A c \in Bridges : localTokens[c] \subseteq localTokens'[c]
  BY LockRegisters
<1>4. /\ MessagesSent(b, labels, waiting)
      /\ held' \in [Tokens -> [Bridges -> Nat]] /\ bridged' \in [Tokens -> [Bridges -> Nat]]
  BY LockMoves
<1>5. \A c \in Bridges, s \in Tokens : Read(c, s, calls') = Read(c, s, waiting)
  BY <1>4, WaitingFrames DEF MessagesSent
<1>6. \A c \in Bridges, s \in Tokens : Read(c, s, waiting) \subseteq Read(c, s, calls)
  BY DEF Read
<1>7. /\ held'[t][b] = now /\ (\A c \in Bridges \ {b} : held'[t][c] = held[t][c])
       /\ (\A s \in Tokens \ {t} : held'[s] = held[s] /\ bridged'[s] = bridged[s])
       /\ bridged'[t][r] = bridged[t][r] + (now - before) /\ now \in Nat
       /\ (\A c \in Bridges \ {r} : bridged'[t][c] = bridged[t][c])
  BY LockMoves
<1>8. ASSUME NEW s \in Tokens \ reentered', s # t
       PROVE  TokenCovered(s)'
  <2>1. TokenCovered(s)
    BY <1>2, <1>8
  <2>2. \A c \in Bridges : Balances(s, held', calls')[c] \subseteq Balances(s, held, calls)[c]
    BY <1>5, <1>6, <1>7, <1>8 DEF Balances
  <2> QED
    BY <1>3, <1>7, <1>8, <2>1, <2>2, TokenStays
<1>9. ASSUME t \notin reentered'
       PROVE  TokenCovered(t)'
  <2> DEFINE bal == Balances(t, held, calls)
             bal1 == Balances(t, held', calls')
  <2>1. /\ Covers(bridged[t], bal)
        /\ Redeems(bridged[t], bal, Known(t, localTokens))
    BY <1>2, <1>9 DEF TokenCovered
  <2>2. ~Sending(b, t, waiting)
    BY <1>2, <1>9
  <2>3. Read(b, t, waiting) = {}
    BY <2>2 DEF Read, Sending, Frames
  <2>4. bal1[b] = {now} /\ (\A c \in Bridges \ {b} : bal1[c] \subseteq bal[c])
    BY <1>5, <1>6, <1>7, <2>3 DEF Balances
  <2>5. Known(t, localTokens) \subseteq Known(t, localTokens')
    BY <1>3 DEF Known
  <2>6. bridged[t] \in [Bridges -> Nat] /\ bridged'[t] \in [Bridges -> Nat]
    BY <1>1, <1>4
  <2>7. before \in bal[b]
    OBVIOUS
  <2> HIDE DEF bal, bal1, now
  <2>8. bridged'[t][Remote(b)] = bridged[t][Remote(b)] + (now - before)
        /\ (\A c \in Bridges \ {Remote(b)} : bridged'[t][c] = bridged[t][c])
    BY <1>7 DEF r, now
  <2> DEFINE m == bridged[t]
             m1 == bridged'[t]
             known == Known(t, localTokens)
             known1 == Known(t, localTokens')
  <2>9. /\ m \in [Bridges -> Nat] /\ m1 \in [Bridges -> Nat] /\ known \subseteq known1
        /\ Covers(m, bal) /\ Redeems(m, bal, known)
        /\ m1[Remote(b)] = m[Remote(b)] + (now - before)
        /\ (\A c \in Bridges \ {Remote(b)} : m1[c] = m[c])
    BY <2>1, <2>5, <2>6, <2>8
  <2>10. now \in Nat
    BY <1>7 DEF now
  <2> HIDE DEF m, m1, known, known1
  <2>11. LockMove(m, m1, bal, bal1, known, known1, b, before, now)
    BY <2>4, <2>7, <2>9, <2>10 DEF LockMove
  <2>12. Covers(m1, bal1) /\ Redeems(m1, bal1, known1)
    BY <2>11, LockCovered
  <2> QED
    BY <2>12 DEF TokenCovered, bal1, m1, known1
<1> QED
  BY <1>8, <1>9

(* A bridged token burnt at b.                                             *)
LEMMA BurnTokens ==
  ASSUME BridgeTypeOK, NEW b \in Bridges, NEW t \in Tokens, NEW amount \in Nat, NEW label,
         BurnOut(b, t, amount, label),
         \A s \in Tokens \ reentered : TokenCovered(s)
  PROVE  /\ held' \in [Tokens -> [Bridges -> Nat]] /\ bridged' \in [Tokens -> [Bridges -> Nat]]
         /\ MessagesSent(b, <<label>>, calls)
         /\ (\A s \in Tokens \ reentered' : TokenCovered(s)')
<1> DEFINE r == Remote(b)
           minted == [bridged EXCEPT ![t][b] = @ - amount]
<1>1. /\ held \in [Tokens -> [Bridges -> Nat]] /\ bridged \in [Tokens -> [Bridges -> Nat]]
      /\ calls \in Seq(CallFrames)
  BY DEF BridgeTypeOK
<1>2. r \in Bridges /\ r # b
  BY RemoteFacts
<1>3. t \in localTokens[b] /\ bridged[t][b] >= amount /\ localTokens' = localTokens
      /\ reentered' = reentered /\ In(b, t, amount, <<label>>, held, minted, calls)
  BY DEF BurnOut
<1>4. bridged[t] \in [Bridges -> Nat] /\ bridged[t][b] - amount \in Nat
      /\ bridged[t][r] \in Nat /\ held[t][r] \in Nat
  BY <1>1, <1>2, <1>3
<1>5. /\ minted \in [Tokens -> [Bridges -> Nat]]
      /\ minted[t][b] = bridged[t][b] - amount
      /\ (\A c \in Bridges \ {b} : minted[t][c] = bridged[t][c])
      /\ (\A s \in Tokens \ {t} : minted[s] = bridged[s])
  BY <1>1, <1>4
<1> HIDE DEF r, minted
<1>6. /\ MessagesSent(b, <<label>>, calls)
      /\ Minted(t, r, amount, held, minted) \/ ReleasedTo(t, r, amount, held, minted)
      /\ held' \in [Tokens -> [Bridges -> Nat]] /\ bridged' \in [Tokens -> [Bridges -> Nat]]
  BY <1>1, <1>3, <1>5, InMoves DEF r
<1>7. \A c \in Bridges, s \in Tokens : Read(c, s, calls') = Read(c, s, calls)
                                       /\ Read(c, s, calls) \subseteq Nat
  BY <1>1, <1>6, WaitingFrames, ReadTyped DEF MessagesSent
<1>8. \A s \in Tokens \ {t} : held'[s] = held[s] /\ bridged'[s] = bridged[s]
  BY <1>1, <1>5, <1>6 DEF Minted, ReleasedTo
<1>9. ASSUME NEW s \in Tokens \ reentered', s # t
      PROVE  TokenCovered(s)'
  <2>1. \A c \in Bridges : Balances(s, held', calls')[c] \subseteq Balances(s, held, calls)[c]
    BY <1>7, <1>8, <1>9 DEF Balances
  <2> QED
    BY <1>3, <1>8, <1>9, <2>1, TokenStays
<1>10. ASSUME t \notin reentered'
       PROVE  TokenCovered(t)'
  <2> DEFINE bal == Balances(t, held, calls)
             bal1 == Balances(t, held', calls')
             m == bridged[t]
             m1 == bridged'[t]
             known == Known(t, localTokens)
  <2>1. Covers(m, bal) /\ Redeems(m, bal, known) /\ b \in known
        /\ known = Known(t, localTokens')
    BY <1>3, <1>10 DEF TokenCovered, Known
  <2>2. m \in [Bridges -> Nat] /\ m1 \in [Bridges -> Nat]
    BY <1>4, <1>6
  <2>3. \A c \in Bridges : bal1[c] = {held'[t][c]} \cup Read(c, t, calls)
                           /\ bal[c] = {held[t][c]} \cup Read(c, t, calls)
                           /\ held[t][c] \in Nat /\ held'[t][c] \in Nat
                           /\ Read(c, t, calls) \subseteq Nat
    BY <1>1, <1>6, <1>7 DEF Balances
  <2>4. Covers(m1, bal1) /\ Redeems(m1, bal1, known)
    <3>1. CASE Minted(t, r, amount, held, minted)
      <4>1. /\ m1[b] = m[b] - amount /\ m1[r] = m[r] + amount
            /\ (\A c \in Bridges \ {b, r} : m1[c] = m[c])
        BY <1>2, <1>5, <3>1 DEF Minted
      <4>2. \A c \in Bridges : bal1[c] \subseteq bal[c] \cap Nat
        BY <2>3, <3>1 DEF Minted
      <4> HIDE DEF bal, bal1, m, m1, known
      <4>3. MintMove(m, m1, bal, bal1, known, b, amount)
        BY <2>1, <2>2, <4>1, <4>2 DEF MintMove, r
      <4> QED
        BY <4>3, MintCovered
    <3>2. CASE ReleasedTo(t, r, amount, held, minted)
      <4>1. m1[b] = m[b] - amount /\ (\A c \in Bridges \ {b} : m1[c] = m[c])
        BY <1>5, <3>2 DEF ReleasedTo
      <4>2. held'[t][r] = held[t][r] - amount
            /\ (\A c \in Bridges \ {r} : held'[t][c] = held[t][c])
        BY <1>1, <1>2, <3>2 DEF ReleasedTo
      <4>3. held'[t][r] + amount = held[t][r]
        BY <1>1, <1>4, <4>2
      <4>4. \A c \in Bridges \ {r} : bal1[c] \subseteq bal[c] \cap Nat
        BY <2>3, <4>2
      <4>5. \A x \in bal1[r] : x \in Nat /\ (x \in bal[r] \/ x + amount \in bal[r])
        BY <1>2, <2>3, <4>3
      <4> HIDE DEF bal, bal1, m, m1, known
      <4>6. ReleaseMove(m, m1, bal, bal1, known, b, amount)
        BY <2>1, <2>2, <4>1, <4>4, <4>5 DEF ReleaseMove, r
      <4> QED
        BY <4>6, ReleaseCovered
    <3> QED
      BY <1>6, <3>1, <3>2
  <2> QED
    BY <2>1, <2>4 DEF TokenCovered
<1> QED
  BY <1>6, <1>9, <1>10

-----------------------------------------------------------------------------
LEMMA BridgeInitInv == Init => BridgeInv
<1> SUFFICES ASSUME Init PROVE BridgeInv
  OBVIOUS
<1>1. BridgeTypeOK /\ RegistrationsKept /\ NoncesFresh /\ VouchesOnlyInTheAir
  BY DEF Init, BridgeTypeOK, RegistrationsKept, NoncesFresh, VouchesOnlyInTheAir
<1>2. ASSUME NEW t \in Tokens PROVE TokenCovered(t)
  <2> DEFINE bal == Balances(t, held, calls)
             m == bridged[t]
             none == [b \in Bridges |-> 0]
  <2>1. m = none /\ held[t] = none /\ calls = <<>>
    BY DEF Init
  <2>2. \A b \in Bridges : bal[b] = {0} /\ m[b] = 0
    BY <2>1 DEF Balances, Read, Frames
  <2>3. m \in [Bridges -> Int]
    BY <2>1
  <2> HIDE DEF bal, m
  <2>4. SumOver(m, Bridges) = 0
    BY <2>2, <2>3, SumZero, BridgeAssumption
  <2>5. Covers(m, bal)
    <3> SUFFICES ASSUME NEW f \in [Bridges -> Nat] PROVE SumOver(m, Bridges) <= SumOver(f, Bridges)
      BY DEF Covers
    <3>1. SumOver(f, Bridges) \in Nat
      BY SumType, BridgeAssumption
    <3> QED
      BY <2>4, <3>1
  <2>6. \A known : Redeems(m, bal, known)
    BY <2>2, RemoteFacts DEF Redeems
  <2> QED
    BY <2>5, <2>6 DEF TokenCovered, bal, m
<1> QED
  BY <1>1, <1>2 DEF BridgeInv

(* A token is locked, with labels of one or two messages.                  *)
LEMMA LockInv ==
  ASSUME BridgeInv, NEW b \in Bridges, NEW t \in Tokens, NEW amount \in Nat,
         NEW before \in Nat, NEW labels \in Seq(Labels), Len(labels) >= 1,
         NEW waiting \in Seq(CallFrames),
         Frames(waiting) \subseteq Frames(calls),
         \A c \in Bridges : MessageFrame(c) \in Frames(calls) => MessageFrame(c) \in Frames(waiting),
         before \in Balances(t, held, calls)[b],
         Lock(b, t, amount, before, labels, waiting)
  PROVE  BridgeInv'
<1>1. /\ BridgeTypeOK /\ RegistrationsKept /\ NoncesFresh /\ VouchesOnlyInTheAir
      /\ (\A s \in Tokens \ reentered : TokenCovered(s))
  BY DEF BridgeInv
<1>2. /\ held' \in [Tokens -> [Bridges -> Nat]] /\ bridged' \in [Tokens -> [Bridges -> Nat]]
      /\ localTokens' \in [Bridges -> SUBSET Tokens]
      /\ isTokenRegisteredAtRemote' \in [Bridges -> SUBSET Tokens]
      /\ MessagesSent(b, labels, waiting)
      /\ (\A s \in Tokens \ reentered' : TokenCovered(s)')
  BY <1>1, LockRegisters, LockMoves, LockTokens
<1>3. /\ msgNonce' \in [Bridges -> Nat] /\ relayedMessageSender' \subseteq Bridges
      /\ relayedMessages' \in [Bridges -> SUBSET (Nat \X Labels)]
      /\ NoncesFresh' /\ VouchesOnlyInTheAir'
  BY <1>1, <1>2, SentInTurn
<1>4. calls' \in Seq(CallFrames)
  BY <1>2, WaitingFrames DEF MessagesSent
<1>5. RegistrationsKept'
  BY <1>1, LockRegisters
<1> QED
  BY <1>2, <1>3, <1>4, <1>5 DEF BridgeInv, BridgeTypeOK

LEMMA LabelListsTyped ==
  ASSUME NEW labels \in LabelLists
  PROVE  labels \in Seq(Labels) /\ Len(labels) >= 1
<1>1. CASE labels \in Labels \X Labels
  <2>1. PICK k \in Labels, l \in Labels : labels = <<k, l>>
    BY <1>1
  <2> QED
    BY <2>1
<1>2. ASSUME NEW l \in Labels, labels = <<l>>
      PROVE  labels \in Seq(Labels) /\ Len(labels) >= 1
  BY <1>2
<1> QED
  BY <1>1, <1>2 DEF LabelLists

LEMMA LockOutInv ==
  ASSUME BridgeInv, NEW b \in Bridges, NEW t \in Tokens, NEW amount \in Amounts,
         NEW labels \in LabelLists, LockOut(b, t, amount, labels)
  PROVE  BridgeInv'
<1>1. calls \in Seq(CallFrames) /\ held[t][b] \in Nat
  BY DEF BridgeInv, BridgeTypeOK
<1>2. amount \in Nat
  BY BridgeAssumption
<1>3. held[t][b] \in Balances(t, held, calls)[b]
  BY DEF Balances
<1>4. Lock(b, t, amount, held[t][b], labels, calls)
  BY DEF LockOut
<1> QED
  BY <1>1, <1>2, <1>3, <1>4, LabelListsTyped, LockInv

(* The call that waits has read one of the balances.                       *)
LEMMA HookOverInv ==
  ASSUME BridgeInv, NEW labels \in LabelLists, HookOver(labels)
  PROVE  BridgeInv'
<1> DEFINE f == Head(calls)
           waiting == Tail(calls)
<1>1. calls \in Seq(CallFrames) /\ calls # <<>> /\ f.call = "send"
      /\ Lock(f.bridge, f.token, f.amount, f.before, labels, waiting)
  BY DEF BridgeInv, BridgeTypeOK, HookOver
<1>2. f \in CallFrames /\ waiting \in Seq(CallFrames)
      /\ Frames(calls) = {f} \cup Frames(waiting)
  BY <1>1, Popped
<1> HIDE DEF f, waiting
<1>3. f \in SendFrames
  BY <1>1, <1>2 DEF CallFrames, MessageFrames, MessageFrame
<1>4. /\ f.bridge \in Bridges /\ f.token \in Tokens /\ f.amount \in Nat /\ f.before \in Nat
  BY <1>3, BridgeAssumption DEF SendFrames
<1>5. f.before \in Balances(f.token, held, calls)[f.bridge]
  BY <1>1, <1>2, <1>4 DEF Balances, Read
<1>6. \A c \in Bridges : MessageFrame(c) \in Frames(calls) => MessageFrame(c) \in Frames(waiting)
  <2>1. \A c \in Bridges : MessageFrame(c).call = "message"
    BY DEF MessageFrame
  <2> QED
    BY <1>1, <1>2, <2>1
<1>7. Frames(waiting) \subseteq Frames(calls)
  BY <1>2
<1> QED
  BY <1>1, <1>2, <1>4, <1>5, <1>6, <1>7, LabelListsTyped, LockInv

LEMMA BurnOutInv ==
  ASSUME BridgeInv, NEW b \in Bridges, NEW t \in Tokens, NEW amount \in Amounts,
         NEW label \in Labels, BurnOut(b, t, amount, label)
  PROVE  BridgeInv'
<1>1. /\ BridgeTypeOK /\ RegistrationsKept /\ NoncesFresh /\ VouchesOnlyInTheAir
      /\ (\A s \in Tokens \ reentered : TokenCovered(s)) /\ calls \in Seq(CallFrames)
  BY DEF BridgeInv, BridgeTypeOK
<1>2. amount \in Nat /\ <<label>> \in Seq(Labels) /\ Len(<<label>>) >= 1
  BY BridgeAssumption
<1>3. /\ held' \in [Tokens -> [Bridges -> Nat]] /\ bridged' \in [Tokens -> [Bridges -> Nat]]
      /\ MessagesSent(b, <<label>>, calls)
      /\ (\A s \in Tokens \ reentered' : TokenCovered(s)')
  BY <1>1, <1>2, BurnTokens
<1>4. /\ msgNonce' \in [Bridges -> Nat] /\ relayedMessageSender' \subseteq Bridges
      /\ relayedMessages' \in [Bridges -> SUBSET (Nat \X Labels)]
      /\ NoncesFresh' /\ VouchesOnlyInTheAir'
  BY <1>1, <1>2, <1>3, SentInTurn
<1>5. calls' \in Seq(CallFrames)
  BY <1>1, <1>3, WaitingFrames DEF MessagesSent
<1>6. localTokens' = localTokens /\ isTokenRegisteredAtRemote' = isTokenRegisteredAtRemote
  BY DEF BurnOut
<1> QED
  BY <1>1, <1>3, <1>4, <1>5, <1>6 DEF BridgeInv, BridgeTypeOK, RegistrationsKept

(* Steps that move no tokens and may only take balances off those read.    *)
LEMMA NoTokensMove ==
  ASSUME BridgeInv, UNCHANGED <<isTokenRegisteredAtRemote, localTokens, held, bridged, reentered>>,
         calls' \in Seq(CallFrames),
         \A c \in Bridges, s \in Tokens : Read(c, s, calls') \subseteq {held[s][c]} \cup Read(c, s, calls)
  PROVE  /\ RegistrationsKept'
         /\ (\A s \in Tokens \ reentered' : TokenCovered(s)')
<1>1. RegistrationsKept'
  BY DEF BridgeInv, RegistrationsKept
<1>2. ASSUME NEW s \in Tokens \ reentered' PROVE TokenCovered(s)'
  <2>1. \A c \in Bridges : Balances(s, held', calls')[c] \subseteq Balances(s, held, calls)[c]
    BY <1>2 DEF Balances
  <2>2. TokenCovered(s)
    BY <1>2 DEF BridgeInv
  <2> QED
    BY <1>2, <2>1, <2>2, TokenStays
<1> QED
  BY <1>1, <1>2

LEMMA EthOutInv ==
  ASSUME BridgeInv, NEW b \in Bridges, NEW label \in Labels, EthOut(b, label)
  PROVE  BridgeInv'
<1>1. BridgeTypeOK /\ NoncesFresh /\ VouchesOnlyInTheAir /\ calls \in Seq(CallFrames)
  BY DEF BridgeInv, BridgeTypeOK
<1>2. <<label>> \in Seq(Labels) /\ Len(<<label>>) = 1 /\ Len(<<label>>) >= 1
  OBVIOUS
<1>3. MessagesSent(b, <<label>>, calls)
      /\ UNCHANGED <<isTokenRegisteredAtRemote, localTokens, held, bridged, reentered>>
  BY <1>2 DEF EthOut, MessagesSent, EndsOrWaits
<1>4. /\ msgNonce' \in [Bridges -> Nat] /\ relayedMessageSender' \subseteq Bridges
      /\ relayedMessages' \in [Bridges -> SUBSET (Nat \X Labels)]
      /\ NoncesFresh' /\ VouchesOnlyInTheAir'
  BY <1>1, <1>2, <1>3, SentInTurn
<1>5. calls' \in Seq(CallFrames)
      /\ (\A c \in Bridges, s \in Tokens : Read(c, s, calls') = Read(c, s, calls))
  BY <1>1, <1>3, WaitingFrames DEF MessagesSent
<1>6. RegistrationsKept' /\ (\A s \in Tokens \ reentered' : TokenCovered(s)')
  BY <1>3, <1>5, NoTokensMove
<1> QED
  BY <1>1, <1>3, <1>4, <1>5, <1>6 DEF BridgeInv, BridgeTypeOK

LEMMA SendersHookInv ==
  ASSUME BridgeInv, NEW b \in Bridges, NEW t \in Tokens, NEW amount \in Amounts,
         SendersHook(b, t, amount)
  PROVE  BridgeInv'
<1> DEFINE f == [call |-> "send", bridge |-> b, token |-> t, amount |-> amount,
                 before |-> held[t][b]]
<1>1. BridgeTypeOK /\ NoncesFresh /\ VouchesOnlyInTheAir /\ calls \in Seq(CallFrames)
      /\ held[t][b] \in Nat
  BY DEF BridgeInv, BridgeTypeOK
<1>2. /\ calls' = <<f>> \o calls
      /\ UNCHANGED <<remoteBridge, isTokenRegisteredAtRemote, localTokens, held, bridged, messages,
                     reentered>>
  BY DEF SendersHook
<1>3. f \in CallFrames /\ f.bridge = b /\ f.token = t /\ f.before = held[t][b]
  BY <1>1 DEF CallFrames, SendFrames
<1> HIDE DEF f
<1>4. calls' \in Seq(CallFrames) /\ Frames(calls') = {f} \cup Frames(calls)
  BY <1>1, <1>2, <1>3, Pushed
<1>5. \A c \in Bridges, s \in Tokens : Read(c, s, calls') \subseteq {held[s][c]} \cup Read(c, s, calls)
  BY <1>3, <1>4 DEF Read
<1>6. RegistrationsKept' /\ (\A s \in Tokens \ reentered' : TokenCovered(s)')
  BY <1>2, <1>4, <1>5, NoTokensMove
<1>7. \A c \in Bridges : InTheAir(c) => InTheAir(c)'
  <2>1. \A c \in Bridges : InTheAir(c) => MessageFrame(c) \in Frames(calls)
    BY InTheAirIsFrame
  <2>2. \A c \in Bridges : MessageFrame(c) \in Frames(calls') => InTheAir(c)'
    BY DEF InTheAir, Frames, MessageFrame
  <2> QED
    BY <1>4, <2>1, <2>2
<1>8. NoncesFresh' /\ VouchesOnlyInTheAir'
  BY <1>1, <1>2, <1>7 DEF messages, NoncesFresh, VouchesOnlyInTheAir, BridgeTypeOK
<1> QED
  BY <1>1, <1>2, <1>4, <1>6, <1>8 DEF BridgeInv, BridgeTypeOK, messages

LEMMA MessageOverInv ==
  ASSUME BridgeInv, MessageOver
  PROVE  BridgeInv'
<1> DEFINE f == Head(calls)
           b == f.bridge
           waiting == Tail(calls)
<1>1. BridgeTypeOK /\ NoncesFresh /\ VouchesOnlyInTheAir /\ calls \in Seq(CallFrames)
  BY DEF BridgeInv, BridgeTypeOK
<1>2. /\ calls # <<>> /\ f.call = "message" /\ Over(b, 1) /\ calls' = waiting
      /\ UNCHANGED <<remoteBridge, isTokenRegisteredAtRemote, localTokens, held, bridged,
                     relayedMessages, reentered>>
  BY DEF MessageOver
<1>3. /\ f \in CallFrames /\ waiting \in Seq(CallFrames)
      /\ Frames(calls) = {f} \cup Frames(waiting)
  BY <1>1, <1>2, Popped
<1> HIDE DEF f, waiting
<1>4. PICK c \in Bridges : f = MessageFrame(c)
  BY <1>2, <1>3 DEF CallFrames, MessageFrames, SendFrames
<1>5. b = c /\ b \in Bridges /\ f = MessageFrame(b)
  BY <1>4 DEF MessageFrame
<1> HIDE DEF b
<1>6. \A d \in Bridges \ {b} : InTheAir(d) => InTheAir(d)'
  <2>1. \A d \in Bridges : InTheAir(d) => MessageFrame(d) \in Frames(calls)
    BY InTheAirIsFrame
  <2>2. \A d \in Bridges : MessageFrame(d) \in Frames(calls') => InTheAir(d)'
    BY DEF InTheAir, Frames, MessageFrame
  <2>3. \A d \in Bridges \ {b} : MessageFrame(d) # f
    BY <1>5 DEF MessageFrame
  <2> QED
    BY <1>2, <1>3, <2>1, <2>2, <2>3
<1>7. /\ msgNonce' = [msgNonce EXCEPT ![b] = @ + 1]
      /\ relayedMessageSender' = relayedMessageSender \ {b}
  BY <1>2 DEF Over
<1>8. msgNonce \in [Bridges -> Nat] /\ relayedMessages \in [Bridges -> SUBSET (Nat \X Labels)]
      /\ relayedMessageSender \subseteq Bridges
  BY <1>1 DEF BridgeTypeOK
<1>9. NoncesFresh'
  <2> SUFFICES ASSUME NEW d \in Bridges, NEW m \in relayedMessages[d]
               PROVE  m[1] < msgNonce'[d] \/ (InTheAir(d)' /\ m[1] = msgNonce'[d])
    BY <1>2 DEF NoncesFresh
  <2>1. m[1] < msgNonce[d] \/ (InTheAir(d) /\ m[1] = msgNonce[d])
    BY <1>1 DEF NoncesFresh
  <2>2. m[1] \in Nat /\ msgNonce[d] \in Nat
    BY <1>8
  <2>3. CASE d = b
    <3>1. msgNonce'[d] = msgNonce[d] + 1
      BY <1>5, <1>7, <1>8, <2>3
    <3>2. m[1] <= msgNonce[d]
      BY <2>1, <2>2
    <3> QED
      BY <2>2, <3>1, <3>2
  <2>4. CASE d # b
    BY <1>6, <1>7, <1>8, <2>1, <2>4
  <2> QED
    BY <2>3, <2>4
<1>10. VouchesOnlyInTheAir'
  BY <1>1, <1>6, <1>7, <1>8 DEF VouchesOnlyInTheAir
<1>11. \A d \in Bridges, s \in Tokens : Read(d, s, calls') \subseteq {held[s][d]} \cup Read(d, s, calls)
  BY <1>2, <1>3 DEF Read
<1>12. RegistrationsKept' /\ (\A s \in Tokens \ reentered' : TokenCovered(s)')
  BY <1>2, <1>3, <1>11, NoTokensMove
<1>13. msgNonce' \in [Bridges -> Nat] /\ relayedMessageSender' \subseteq Bridges
  BY <1>5, <1>7, <1>8
<1> QED
  BY <1>1, <1>2, <1>3, <1>9, <1>10, <1>12, <1>13 DEF BridgeInv, BridgeTypeOK

LEMMA DonateInv ==
  ASSUME BridgeInv, NEW b \in Bridges, NEW t \in Tokens, Donate(b, t)
  PROVE  BridgeInv'
<1>1. /\ BridgeTypeOK /\ held \in [Tokens -> [Bridges -> Nat]]
      /\ bridged \in [Tokens -> [Bridges -> Nat]] /\ calls \in Seq(CallFrames)
  BY DEF BridgeInv, BridgeTypeOK
<1>2. /\ held' = [held EXCEPT ![t] = [held[t] EXCEPT ![b] = held[t][b] + 1]]
      /\ UNCHANGED <<remoteBridge, isTokenRegisteredAtRemote, localTokens, bridged, messages, calls,
                     reentered>>
  BY <1>1 DEF Donate
<1>3. held[t][b] \in Nat /\ held' \in [Tokens -> [Bridges -> Nat]]
  BY <1>1, <1>2
<1>4. /\ held'[t][b] = held[t][b] + 1
      /\ (\A c \in Bridges \ {b} : held'[t][c] = held[t][c])
      /\ (\A s \in Tokens \ {t} : held'[s] = held[s])
  BY <1>1, <1>2
<1>5. ASSUME NEW s \in Tokens \ reentered', s # t
      PROVE  TokenCovered(s)'
  <2>1. \A c \in Bridges : Balances(s, held', calls')[c] \subseteq Balances(s, held, calls)[c]
    BY <1>2, <1>4, <1>5 DEF Balances
  <2>2. TokenCovered(s)
    BY <1>2, <1>5 DEF BridgeInv
  <2> QED
    BY <1>2, <1>5, <2>1, <2>2, TokenStays
<1>6. ASSUME t \notin reentered'
      PROVE  TokenCovered(t)'
  <2> DEFINE bal == Balances(t, held, calls)
             bal1 == Balances(t, held', calls')
             m == bridged[t]
             known == Known(t, localTokens)
  <2>1. Covers(m, bal) /\ Redeems(m, bal, known)
    BY <1>2, <1>6 DEF BridgeInv, TokenCovered
  <2>2. m \in [Bridges -> Nat]
    BY <1>1
  <2>3. \A c \in Bridges \ {b} : bal1[c] \subseteq bal[c]
    BY <1>2, <1>4 DEF Balances
  <2>4. bal1[b] = {held[t][b] + 1} \cup Read(b, t, calls)
        /\ bal[b] = {held[t][b]} \cup Read(b, t, calls) /\ Read(b, t, calls) \subseteq Nat
    BY <1>1, <1>2, <1>4, ReadTyped DEF Balances
  <2> HIDE DEF bal, bal1, m, known
  <2>5. \A x \in bal1[b] : x \in Nat /\ \E y \in bal[b] : y \in Nat /\ y <= x
    BY <1>3, <2>4
  <2>6. Covers(m, bal1) /\ Redeems(m, bal1, known)
    BY <2>1, <2>2, <2>3, <2>5, StaysCovered
  <2> QED
    BY <1>2, <2>6 DEF TokenCovered, bal1, m, known
<1>7. RegistrationsKept' /\ NoncesFresh' /\ VouchesOnlyInTheAir'
  BY <1>2 DEF BridgeInv, RegistrationsKept, NoncesFresh, VouchesOnlyInTheAir, InTheAir, messages
<1> QED
  BY <1>1, <1>2, <1>3, <1>5, <1>6, <1>7 DEF BridgeInv, BridgeTypeOK, messages

LEMMA BridgeNextInv == BridgeInv /\ [Next]_bridgeVars => BridgeInv'
<1> SUFFICES ASSUME BridgeInv, [Next]_bridgeVars PROVE BridgeInv'
  OBVIOUS
<1>1. CASE MessageOver
  BY <1>1, MessageOverInv
<1>2. ASSUME NEW labels \in LabelLists, HookOver(labels) PROVE BridgeInv'
  BY <1>2, HookOverInv
<1>3. ASSUME NEW b \in Bridges, NEW label \in Labels, EthOut(b, label) PROVE BridgeInv'
  BY <1>3, EthOutInv
<1>4. ASSUME NEW b \in Bridges, NEW t \in Tokens, Donate(b, t) PROVE BridgeInv'
  BY <1>4, DonateInv
<1>5. ASSUME NEW b \in Bridges, NEW t \in Tokens, NEW amount \in Amounts,
             SendersHook(b, t, amount)
      PROVE  BridgeInv'
  BY <1>5, SendersHookInv
<1>6. ASSUME NEW b \in Bridges, NEW t \in Tokens, NEW amount \in Amounts, NEW label \in Labels,
             BurnOut(b, t, amount, label)
      PROVE  BridgeInv'
  BY <1>6, BurnOutInv
<1>7. ASSUME NEW b \in Bridges, NEW t \in Tokens, NEW amount \in Amounts,
             NEW labels \in LabelLists, LockOut(b, t, amount, labels)
      PROVE  BridgeInv'
  BY <1>7, LockOutInv
<1>8. ASSUME UNCHANGED <<isTokenRegisteredAtRemote, localTokens, held, bridged, messages, calls,
                         reentered>>
      PROVE  BridgeInv'
  <2>1. RegistrationsKept' /\ NoncesFresh' /\ VouchesOnlyInTheAir' /\ BridgeTypeOK'
    BY <1>8 DEF BridgeInv, BridgeTypeOK, RegistrationsKept, NoncesFresh, VouchesOnlyInTheAir,
                InTheAir, messages
  <2>2. \A s \in Tokens \ reentered' : TokenCovered(s)'
    BY <1>8 DEF BridgeInv, TokenCovered, Balances, Known
  <2> QED
    BY <2>1, <2>2 DEF BridgeInv
<1>9. ASSUME NEW b \in Bridges, RegisterRemoteBridge(b) PROVE BridgeInv'
  BY <1>8, <1>9 DEF RegisterRemoteBridge
<1>10. CASE UNCHANGED bridgeVars
  BY <1>8, <1>10 DEF bridgeVars
<1> QED
  BY <1>1, <1>2, <1>3, <1>4, <1>5, <1>6, <1>7, <1>9, <1>10 DEF Next

LEMMA BridgeInvariant == Spec => []BridgeInv
BY BridgeInitInv, BridgeNextInv, PTL DEF Spec

(* Whatever is bridged can be had back: from the two bridges together, and *)
(* from a bridge alone where only it locks the token.                      *)
THEOREM EveryHolderCovered == Spec => []HoldersCovered
<1>1. BridgeInv => HoldersCovered
  <2> SUFFICES ASSUME BridgeInv, NEW t \in Tokens \ reentered
               PROVE  /\ SumOver(bridged[t], Bridges) <= SumOver(held[t], Bridges)
                      /\ (\A b \in Bridges : t \notin localTokens[b] => bridged[t][Remote(b)] <= held[t][b])
    BY DEF HoldersCovered, Backed, Redeemable
  <2>1. TokenCovered(t) /\ held[t] \in [Bridges -> Nat]
    BY DEF BridgeInv, BridgeTypeOK
  <2>2. \A b \in Bridges : held[t][b] \in Balances(t, held, calls)[b]
    BY DEF Balances
  <2> QED
    BY <2>1, <2>2 DEF TokenCovered, Covers, Redeems, Known
<1> QED
  BY <1>1, BridgeInvariant, PTL

(* Every message finds its nonce unused, and its bridge vouching for       *)
(* nothing else.                                                           *)
THEOREM EveryMessageInTurn == Spec => []MessagesInTurn
<1>1. BridgeInv => MessagesInTurn
  BY DEF BridgeInv, MessagesInTurn
<1> QED
  BY <1>1, BridgeInvariant, PTL
-----------------------------------------------------------------------------
(* What the hooks that wait will measure of other payments.  The calls are *)
(* numbered from the first one on, so that each keeps its number while     *)
(* others come and go after it.                                            *)
Depth == 1..MaxCalls
At(s, p) == s[Len(s) + 1 - p]
SendsAt(s, p, t) == p <= Len(s) /\ At(s, p).call = "send" /\ At(s, p).token = t
More(f, t, paid) == IF f.before < paid[t][f.bridge] THEN paid[t][f.bridge] - f.before ELSE 0
Excess(t, paid, s) == [p \in Depth |-> IF SendsAt(s, p, t) THEN More(At(s, p), t, paid) ELSE 0]

(* The bridged tokens and those still to be measured in excess are covered *)
(* by the tokens held and by what hooks have measured again.               *)
CoveredWithExcess(t) ==
  SumOver(bridged[t], Bridges) + SumOver(Excess(t, held, calls), Depth)
    <= SumOver(held[t], Bridges) + overcounted[t]

(* With the calls in waiting only, when d is still to be minted.           *)
CoveredWithout(t, waiting, d) ==
  SumOver(bridged[t], Bridges) + SumOver(Excess(t, held, waiting), Depth) + d
    <= SumOver(held[t], Bridges) + overcounted[t]

HooksInv ==
  /\ BridgeInv /\ Len(calls) <= MaxCalls /\ overcounted \in [Tokens -> Nat]
  /\ (\A t \in Tokens : CoveredWithExcess(t))

LEMMA AtPushed ==
  ASSUME NEW S, NEW s \in Seq(S), NEW x \in S
  PROVE  /\ Len(<<x>> \o s) = Len(s) + 1 /\ At(<<x>> \o s, Len(s) + 1) = x
         /\ (\A p \in 1..Len(s) : At(<<x>> \o s, p) = At(s, p))
<1> DEFINE new == <<x>> \o s
<1>1. /\ Len(new) = 1 + Len(s) /\ Len(s) \in Nat
      /\ (\A i \in 1..(1 + Len(s)) : new[i] = IF i <= 1 THEN x ELSE s[i - 1])
  OBVIOUS
<1> HIDE DEF new
<1>2. At(new, Len(s) + 1) = x
  BY <1>1 DEF At
<1>3. ASSUME NEW p \in 1..Len(s) PROVE At(new, p) = At(s, p)
  <2>1. Len(new) + 1 - p = Len(s) + 2 - p /\ Len(s) + 2 - p \in 1..(1 + Len(s))
        /\ ~(Len(s) + 2 - p <= 1) /\ (Len(s) + 2 - p) - 1 = Len(s) + 1 - p
    BY <1>1
  <2>2. new[Len(s) + 2 - p] = s[Len(s) + 1 - p]
    BY <1>1, <2>1
  <2> QED
    BY <2>1, <2>2 DEF At
<1> QED
  BY <1>1, <1>2, <1>3 DEF new

LEMMA AtPopped ==
  ASSUME NEW S, NEW s \in Seq(S), s # <<>>
  PROVE  /\ Len(s) \in Nat /\ Len(s) >= 1 /\ Len(Tail(s)) = Len(s) - 1
         /\ At(s, Len(s)) = Head(s)
         /\ (\A p \in 1..(Len(s) - 1) : At(Tail(s), p) = At(s, p))
<1>1. /\ Len(Tail(s)) = Len(s) - 1 /\ (\A i \in 1..Len(Tail(s)) : Tail(s)[i] = s[i + 1])
      /\ Head(s) = s[1] /\ Len(s) \in Nat /\ Len(s) >= 1
  OBVIOUS
<1> DEFINE rest == Tail(s)
<1> HIDE DEF rest
<1>2. At(s, Len(s)) = Head(s)
  BY <1>1 DEF At
<1>3. ASSUME NEW p \in 1..(Len(s) - 1) PROVE At(rest, p) = At(s, p)
  <2>1. Len(rest) + 1 - p = Len(s) - p /\ Len(s) - p \in 1..Len(rest)
        /\ (Len(s) - p) + 1 = Len(s) + 1 - p
    BY <1>1 DEF rest
  <2>2. rest[Len(s) - p] = s[Len(s) + 1 - p]
    BY <1>1, <2>1 DEF rest
  <2> QED
    BY <2>1, <2>2 DEF At
<1> QED
  BY <1>1, <1>2, <1>3 DEF rest

LEMMA DepthFinite == IsFiniteSet(Depth) /\ MaxCalls \in Nat
<1>1. MaxCalls \in Nat
  BY BridgeAssumption
<1> QED
  BY <1>1, FS_Interval DEF Depth

LEMMA AtTyped ==
  ASSUME NEW s \in Seq(CallFrames), NEW p \in Depth, NEW t, SendsAt(s, p, t)
  PROVE  /\ At(s, p).bridge \in Bridges /\ At(s, p).before \in Nat
         /\ p \in 1..Len(s) /\ Len(s) + 1 - p \in DOMAIN s
<1>1. p \in Nat /\ p >= 1 /\ p <= Len(s) /\ Len(s) \in Nat /\ DOMAIN s = 1..Len(s)
  BY DepthFinite DEF Depth, SendsAt
<1>2. Len(s) + 1 - p \in 1..Len(s)
  BY <1>1
<1>3. At(s, p) \in CallFrames
  BY <1>1, <1>2 DEF At
<1>4. At(s, p) \notin MessageFrames
  BY DEF SendsAt, MessageFrames, MessageFrame
<1>5. At(s, p) \in SendFrames
  BY <1>3, <1>4 DEF CallFrames
<1> QED
  BY <1>1, <1>2, <1>5 DEF SendFrames

LEMMA ExcessTyped ==
  ASSUME NEW s \in Seq(CallFrames), NEW t \in Tokens, NEW paid \in [Tokens -> [Bridges -> Nat]]
  PROVE  /\ Excess(t, paid, s) \in [Depth -> Nat]
         /\ SumOver(Excess(t, paid, s), Depth) \in Nat
<1>1. ASSUME NEW p \in Depth, SendsAt(s, p, t)
      PROVE  More(At(s, p), t, paid) \in Nat
  <2>1. At(s, p).before \in Nat /\ paid[t][At(s, p).bridge] \in Nat
    BY <1>1, AtTyped
  <2> QED
    BY <2>1 DEF More
<1>2. Excess(t, paid, s) \in [Depth -> Nat]
  BY <1>1 DEF Excess
<1> QED
  BY <1>2, DepthFinite, SumType

(* A call that measures nothing beyond its own adds nothing,               *)
LEMMA ExcessPushed ==
  ASSUME NEW s \in Seq(CallFrames), NEW x \in CallFrames, NEW t \in Tokens,
         NEW paid \in [Tokens -> [Bridges -> Nat]],
         x.call = "send" /\ x.token = t => x.before = paid[t][x.bridge] /\ x.before \in Nat
  PROVE  Excess(t, paid, <<x>> \o s) = Excess(t, paid, s)
<1> DEFINE new == <<x>> \o s
<1>1. /\ Len(new) = Len(s) + 1 /\ At(new, Len(s) + 1) = x /\ Len(s) \in Nat
      /\ (\A p \in 1..Len(s) : At(new, p) = At(s, p))
  BY AtPushed
<1> HIDE DEF new
<1>2. ASSUME NEW p \in Depth
      PROVE  (IF SendsAt(new, p, t) THEN More(At(new, p), t, paid) ELSE 0)
             = (IF SendsAt(s, p, t) THEN More(At(s, p), t, paid) ELSE 0)
  <2>0. p \in Nat /\ p >= 1
    BY DepthFinite DEF Depth
  <2>1. CASE p <= Len(s)
    <3>1. p \in 1..Len(s) /\ p <= Len(new)
      BY <1>1, <2>0, <2>1
    <3> QED
      BY <1>1, <2>1, <3>1 DEF SendsAt
  <2>2. CASE p = Len(s) + 1
    <3>1. ~SendsAt(s, p, t)
      BY <1>1, <2>2 DEF SendsAt
    <3>2. SendsAt(new, p, t) => More(At(new, p), t, paid) = 0
      BY <1>1, <2>2 DEF SendsAt, More
    <3> QED
      BY <3>1, <3>2
  <2>3. CASE p > Len(s) + 1
    BY <1>1, <2>0, <2>3 DEF SendsAt
  <2> QED
    BY <1>1, <2>0, <2>1, <2>2, <2>3
<1> QED
  BY <1>2 DEF Excess, new

(* and one that ends takes off what it has measured beyond its own.        *)
LEMMA ExcessPopped ==
  ASSUME NEW s \in Seq(CallFrames), s # <<>>, Len(s) <= MaxCalls, NEW t \in Tokens,
         NEW paid \in [Tokens -> [Bridges -> Nat]]
  PROVE  /\ SumOver(Excess(t, paid, Tail(s)), Depth) <= SumOver(Excess(t, paid, s), Depth)
         /\ Head(s).call = "send" /\ Head(s).token = t =>
              SumOver(Excess(t, paid, Tail(s)), Depth)
                + (paid[t][Head(s).bridge] - Head(s).before)
              <= SumOver(Excess(t, paid, s), Depth)
<1> DEFINE f == Head(s)
           rest == Tail(s)
           n == Len(s)
           e == Excess(t, paid, s)
           e1 == Excess(t, paid, rest)
<1>1. /\ n \in Nat /\ n >= 1 /\ Len(rest) = n - 1 /\ At(s, n) = f
      /\ (\A p \in 1..(n - 1) : At(rest, p) = At(s, p)) /\ rest \in Seq(CallFrames)
  BY AtPopped
<1>2. n \in Depth
  BY <1>1, DepthFinite DEF Depth
<1>3. /\ e \in [Depth -> Nat] /\ e1 \in [Depth -> Nat]
      /\ SumOver(e, Depth) \in Nat /\ SumOver(e1, Depth) \in Nat
  BY <1>1, ExcessTyped
<1>4. e1[n] = 0
  <2>1. ~SendsAt(rest, n, t)
    BY <1>1 DEF SendsAt
  <2> QED
    BY <1>2, <2>1 DEF Excess
<1>5. ASSUME NEW p \in Depth \ {n} PROVE e1[p] = e[p]
  <2>0. p \in Nat /\ p >= 1 /\ p # n /\ Len(s) = n
    BY DepthFinite DEF Depth
  <2>1. /\ e[p] = (IF SendsAt(s, p, t) THEN More(At(s, p), t, paid) ELSE 0)
        /\ e1[p] = (IF SendsAt(rest, p, t) THEN More(At(rest, p), t, paid) ELSE 0)
    BY DEF Excess
  <2>2. n \in Nat /\ Len(rest) = n - 1 /\ (\A q \in 1..(n - 1) : At(rest, q) = At(s, q))
    BY <1>1
  <2> HIDE DEF n, rest, e, e1
  <2>3. CASE p < n
    <3>1. p \in 1..(n - 1) /\ p <= n /\ p <= n - 1
      BY <2>0, <2>2, <2>3
    <3>2. At(rest, p) = At(s, p) /\ (SendsAt(rest, p, t) <=> SendsAt(s, p, t))
      BY <2>0, <2>2, <3>1 DEF SendsAt
    <3> QED
      BY <2>1, <3>2
  <2>4. CASE p > n
    <3>1. ~(p <= n) /\ ~(p <= n - 1)
      BY <2>0, <2>2, <2>4
    <3>2. ~SendsAt(rest, p, t) /\ ~SendsAt(s, p, t)
      BY <2>0, <2>2, <3>1 DEF SendsAt
    <3> QED
      BY <2>1, <3>2
  <2> QED
    BY <2>0, <2>2, <2>3, <2>4
<1>6. f.call = "send" /\ f.token = t =>
        /\ e[n] = More(f, t, paid) /\ f.before \in Nat /\ paid[t][f.bridge] \in Nat
  <2>1. f.call = "send" /\ f.token = t => SendsAt(s, n, t)
    BY <1>1 DEF SendsAt
  <2>2. SendsAt(s, n, t) => At(s, n).before \in Nat /\ At(s, n).bridge \in Bridges
    BY <1>2, AtTyped
  <2> QED
    BY <1>1, <1>2, <2>1, <2>2 DEF Excess
<1> HIDE DEF f, rest, n, e, e1
<1>7. SumOver(e1, Depth) = SumOver(e, Depth) - e[n] + e1[n]
  <2>1. e \in [Depth -> Int] /\ e1 \in [Depth -> Int]
    BY <1>3
  <2> QED
    BY <1>2, <1>5, <2>1, DepthFinite, SumUpdate
<1>8. e[n] \in Nat
  BY <1>2, <1>3
<1>9. SumOver(e1, Depth) <= SumOver(e, Depth)
  BY <1>3, <1>4, <1>7, <1>8
<1>10. ASSUME f.call = "send" /\ f.token = t
       PROVE  SumOver(e1, Depth) + (paid[t][f.bridge] - f.before) <= SumOver(e, Depth)
  <2>1. e[n] >= paid[t][f.bridge] - f.before /\ f.before \in Nat /\ paid[t][f.bridge] \in Nat
    BY <1>6, <1>10 DEF More
  <2> QED
    BY <1>3, <1>4, <1>7, <1>8, <2>1
<1> QED
  BY <1>9, <1>10 DEF f, rest, e, e1

(* What is paid to b is measured once more by every call that waits there. *)
LEMMA ExcessRaised ==
  ASSUME NEW s \in Seq(CallFrames), Len(s) <= MaxCalls, NEW t \in Tokens, NEW b \in Bridges,
         NEW paid \in [Tokens -> [Bridges -> Nat]], NEW paid1 \in [Tokens -> [Bridges -> Nat]],
         NEW k \in Nat, paid1[t][b] <= paid[t][b] + k,
         \A c \in Bridges \ {b} : paid1[t][c] <= paid[t][c]
  PROVE  /\ HooksWaiting(b, t, s) \in Nat
         /\ SumOver(Excess(t, paid1, s), Depth)
              <= SumOver(Excess(t, paid, s), Depth) + k * HooksWaiting(b, t, s)
<1> DEFINE Tops == {i \in DOMAIN s : s[i].call = "send" /\ s[i].bridge = b /\ s[i].token = t}
           Sends == {p \in Depth : SendsAt(s, p, t) /\ At(s, p).bridge = b}
           place == [p \in Sends |-> Len(s) + 1 - p]
<1>1. Sends \subseteq Depth /\ IsFiniteSet(Sends) /\ Cardinality(Sends) \in Nat
  <2>1. Sends \in SUBSET Depth
    OBVIOUS
  <2> HIDE DEF Sends
  <2> QED
    BY <2>1, DepthFinite, FS_Subset, FS_CardinalityType
<1>2. IsFiniteSet(Tops) /\ Cardinality(Tops) = Cardinality(Sends)
  <2>0. /\ Len(s) \in Nat /\ DOMAIN s = 1..Len(s) /\ MaxCalls \in Nat
    BY DepthFinite
  <2>1. ASSUME NEW i \in Tops PROVE \E p \in Sends : Len(s) + 1 - p = i
    <3>1. i \in 1..Len(s)
      BY <2>0
    <3>2. Len(s) + 1 - i \in Depth /\ Len(s) + 1 - i <= Len(s) /\ Len(s) + 1 - (Len(s) + 1 - i) = i
      BY <2>0, <3>1 DEF Depth
    <3>3. At(s, Len(s) + 1 - i) = s[i]
      BY <3>2 DEF At
    <3>4. Len(s) + 1 - i \in Sends
      BY <3>2, <3>3 DEF SendsAt
    <3> QED
      BY <3>2, <3>4
  <2>2. ASSUME NEW p \in Sends PROVE p \in Nat /\ Len(s) + 1 - p \in Tops
    <3>1. p \in Nat /\ Len(s) + 1 - p \in DOMAIN s
      BY AtTyped, DepthFinite DEF Depth
    <3>2. Len(s) + 1 - p \in Tops
      BY <3>1 DEF SendsAt, At
    <3> QED
      BY <3>1, <3>2
  <2> HIDE DEF Tops, Sends
  <2>3. \A p, q \in Sends : Len(s) + 1 - p = Len(s) + 1 - q => p = q
    BY <2>0, <2>2
  <2>4. place \in Bijection(Sends, Tops)
    BY <2>1, <2>2, <2>3 DEF Bijection, Injection, Surjection, IsInjective
  <2>5. ExistsBijection(Sends, Tops)
    BY <2>4 DEF ExistsBijection
  <2> QED
    BY <1>1, <2>5, FS_Bijection
<1>3. HooksWaiting(b, t, s) = Cardinality(Sends)
  BY <1>2 DEF HooksWaiting
<1>4. ASSUME NEW p \in Depth
      PROVE  Excess(t, paid1, s)[p] <= Excess(t, paid, s)[p] + (IF p \in Sends THEN k ELSE 0)
  <2>1. /\ Excess(t, paid1, s)[p] = (IF SendsAt(s, p, t) THEN More(At(s, p), t, paid1) ELSE 0)
        /\ Excess(t, paid, s)[p] = (IF SendsAt(s, p, t) THEN More(At(s, p), t, paid) ELSE 0)
    BY DEF Excess
  <2>2. CASE SendsAt(s, p, t)
    <3> DEFINE f == At(s, p)
    <3>1. f.bridge \in Bridges /\ f.before \in Nat
      BY <2>2, AtTyped
    <3>2. p \in Sends <=> f.bridge = b
      BY <2>2
    <3> HIDE DEF f, Sends
    <3>3. /\ paid[t][f.bridge] \in Nat /\ paid1[t][f.bridge] \in Nat
          /\ paid1[t][f.bridge] <= paid[t][f.bridge] + (IF p \in Sends THEN k ELSE 0)
      BY <3>1, <3>2
    <3>4. More(f, t, paid1) <= More(f, t, paid) + (IF p \in Sends THEN k ELSE 0)
      BY <3>1, <3>3 DEF More
    <3> QED
      BY <2>1, <2>2, <3>4 DEF f
  <2>3. CASE ~SendsAt(s, p, t)
    BY <2>1, <2>3
  <2> QED
    BY <2>2, <2>3
<1>5. Excess(t, paid, s) \in [Depth -> Int] /\ Excess(t, paid1, s) \in [Depth -> Int]
  BY ExcessTyped
<1> HIDE DEF Sends, Tops, place
<1>6. SumOver(Excess(t, paid1, s), Depth)
        <= SumOver(Excess(t, paid, s), Depth) + k * Cardinality(Sends)
  BY <1>1, <1>4, <1>5, DepthFinite, SumRaised
<1> QED
  BY <1>1, <1>3, <1>6

LEMMA ExcessOfWaiting ==
  ASSUME NEW b \in Bridges, NEW n, NEW waiting \in Seq(CallFrames), Len(waiting) <= MaxCalls,
         EndsOrWaits(b, n, waiting), NEW paid \in [Tokens -> [Bridges -> Nat]]
  PROVE  /\ Len(calls') <= MaxCalls
         /\ (\A t \in Tokens : Excess(t, paid, calls') = Excess(t, paid, waiting))
<1>1. CASE calls' = waiting
  BY <1>1
<1>2. CASE Waits(b, n, waiting)
  <2>1. Len(waiting) < MaxCalls /\ calls' = <<MessageFrame(b)>> \o waiting
    BY <1>2 DEF Waits, MessageFrame
  <2>2. MessageFrame(b) \in CallFrames /\ MessageFrame(b).call # "send"
    BY DEF CallFrames, MessageFrames, MessageFrame
  <2>3. Len(calls') = Len(waiting) + 1 /\ Len(waiting) \in Nat
    BY <2>1, <2>2, AtPushed
  <2>4. \A t \in Tokens : Excess(t, paid, calls') = Excess(t, paid, waiting)
    BY <2>1, <2>2, ExcessPushed
  <2>5. Len(calls') <= MaxCalls
    <3> DEFINE k == Len(waiting)
               l == Len(calls')
    <3>1. k < MaxCalls /\ l = k + 1 /\ k \in Nat /\ MaxCalls \in Nat
      BY <2>1, <2>3, DepthFinite
    <3> HIDE DEF k, l
    <3>2. l <= MaxCalls
      BY <3>1
    <3> QED
      BY <3>2 DEF l
  <2> QED
    BY <2>4, <2>5
<1> QED
  BY <1>1, <1>2 DEF EndsOrWaits

(* A token that does not move.                                             *)
LEMMA ExcessStays ==
  ASSUME NEW t, NEW s, NEW paid, NEW paid1, paid1[t] = paid[t]
  PROVE  Excess(t, paid1, s) = Excess(t, paid, s)
BY DEF Excess, More

LEMMA LockArithmetic ==
  ASSUME NEW h \in Nat, NEW h1 \in Nat, NEW m \in Nat, NEW m1 \in Nat, NEW e \in Nat, NEW e1 \in Nat,
         NEW k \in Nat, NEW o \in Nat, NEW paid \in Nat, NEW paid1 \in Nat, NEW has \in Nat, NEW has1 \in Nat,
         NEW before \in Nat, NEW amount \in Nat,
         h1 = h - paid + paid1, paid1 = paid + amount,
         m1 = m - has + has1, has1 = has + (paid + amount - before),
         e1 <= e + k, m + e + (paid - before) <= h + o
  PROVE  m1 + e1 <= h1 + (o + k)
OBVIOUS

(* What a lock does to the sums, as a relation of its parts.               *)
LockSums(H, H1, M, M1, b, r, amount, before, e, e1, o, k) ==
  /\ H \in [Bridges -> Nat] /\ H1 \in [Bridges -> Nat] /\ SameBut(H, H1, b, Bridges)
  /\ M \in [Bridges -> Nat] /\ M1 \in [Bridges -> Nat] /\ SameBut(M, M1, r, Bridges)
  /\ H1[b] = H[b] + amount /\ M1[r] = M[r] + (H[b] + amount - before)
  /\ amount \in Nat /\ before \in Nat /\ e \in Nat /\ e1 \in Nat /\ o \in Nat /\ k \in Nat
  /\ e1 <= e + k
  /\ SumOver(M, Bridges) + e + (H[b] - before) <= SumOver(H, Bridges) + o

LEMMA LockSumsCovered ==
  ASSUME NEW H, NEW H1, NEW M, NEW M1, NEW b \in Bridges, NEW r \in Bridges, NEW amount, NEW before,
         NEW e, NEW e1, NEW o, NEW k, LockSums(H, H1, M, M1, b, r, amount, before, e, e1, o, k)
  PROVE  SumOver(M1, Bridges) + e1 <= SumOver(H1, Bridges) + (o + k)
<1>1. /\ H \in [Bridges -> Nat] /\ H1 \in [Bridges -> Nat] /\ SameBut(H, H1, b, Bridges)
      /\ M \in [Bridges -> Nat] /\ M1 \in [Bridges -> Nat] /\ SameBut(M, M1, r, Bridges)
  BY DEF LockSums
<1>2. /\ SumOver(H, Bridges) \in Nat /\ SumOver(H1, Bridges) \in Nat
      /\ SumOver(H1, Bridges) = SumOver(H, Bridges) - H[b] + H1[b]
  BY <1>1, PointWrite, BridgeAssumption
<1>3. /\ SumOver(M, Bridges) \in Nat /\ SumOver(M1, Bridges) \in Nat
      /\ SumOver(M1, Bridges) = SumOver(M, Bridges) - M[r] + M1[r]
  BY <1>1, PointWrite, BridgeAssumption
<1>4. H[b] \in Nat /\ H1[b] \in Nat /\ M[r] \in Nat /\ M1[r] \in Nat
  BY <1>1
<1>5. /\ H1[b] = H[b] + amount /\ M1[r] = M[r] + (H[b] + amount - before)
      /\ amount \in Nat /\ before \in Nat /\ e \in Nat /\ e1 \in Nat /\ o \in Nat /\ k \in Nat
      /\ e1 <= e + k
      /\ SumOver(M, Bridges) + e + (H[b] - before) <= SumOver(H, Bridges) + o
  BY DEF LockSums
<1> QED
  BY <1>2, <1>3, <1>4, <1>5, LockArithmetic

LEMMA LockExcess ==
  ASSUME BridgeTypeOK, RegistrationsKept, overcounted \in [Tokens -> Nat],
         NEW b \in Bridges, NEW t \in Tokens, NEW amount \in Nat, NEW before \in Nat,
         NEW labels, NEW waiting \in Seq(CallFrames), Len(waiting) <= MaxCalls,
         Lock(b, t, amount, before, labels, waiting),
         Overcounts(t, amount * HooksWaiting(b, t, waiting)),
         \A s \in Tokens \ {t} : CoveredWithout(s, waiting, 0),
         CoveredWithout(t, waiting, held[t][b] - before)
  PROVE  /\ Len(calls') <= MaxCalls /\ overcounted' \in [Tokens -> Nat]
         /\ (\A s \in Tokens : CoveredWithExcess(s)')
<1> DEFINE n == HooksWaiting(b, t, waiting)
           r == Remote(b)
           e == SumOver(Excess(t, held, waiting), Depth)
           e1 == SumOver(Excess(t, held', waiting), Depth)
<1>1. /\ held \in [Tokens -> [Bridges -> Nat]] /\ bridged \in [Tokens -> [Bridges -> Nat]]
      /\ held' \in [Tokens -> [Bridges -> Nat]] /\ bridged' \in [Tokens -> [Bridges -> Nat]]
      /\ MessagesSent(b, labels, waiting)
      /\ held[t][b] \in Nat /\ held'[t][b] = held[t][b] + amount
      /\ (\A c \in Bridges \ {b} : held'[t][c] = held[t][c])
      /\ (\A s \in Tokens \ {t} : held'[s] = held[s] /\ bridged'[s] = bridged[s])
      /\ bridged'[t][r] = bridged[t][r] + (held[t][b] + amount - before)
      /\ (\A c \in Bridges \ {r} : bridged'[t][c] = bridged[t][c]) /\ r \in Bridges
  <2>1. held \in [Tokens -> [Bridges -> Nat]] /\ bridged \in [Tokens -> [Bridges -> Nat]]
    BY DEF BridgeTypeOK
  <2>2. r \in Bridges
    BY RemoteFacts
  <2>3. /\ held' \in [Tokens -> [Bridges -> Nat]] /\ bridged' \in [Tokens -> [Bridges -> Nat]]
        /\ MessagesSent(b, labels, waiting)
        /\ held[t][b] \in Nat /\ held'[t][b] = held[t][b] + amount
        /\ (\A c \in Bridges \ {b} : held'[t][c] = held[t][c])
        /\ (\A s \in Tokens \ {t} : held'[s] = held[s] /\ bridged'[s] = bridged[s])
        /\ bridged'[t][r] = bridged[t][r] + (held[t][b] + amount - before)
        /\ (\A c \in Bridges \ {r} : bridged'[t][c] = bridged[t][c])
    BY LockMoves
  <2> QED
    BY <2>1, <2>2, <2>3
<1>2. /\ Len(calls') <= MaxCalls
      /\ (\A s \in Tokens : Excess(s, held', calls') = Excess(s, held', waiting))
  BY <1>1, ExcessOfWaiting DEF MessagesSent
<1>3. n \in Nat /\ e1 <= e + amount * n
  <2>1. /\ held'[t][b] <= held[t][b] + amount
        /\ (\A c \in Bridges \ {b} : held'[t][c] <= held[t][c])
    <3>1. \A c \in Bridges : held[t][c] \in Nat
      BY <1>1
    <3> QED
      BY <1>1, <3>1
  <2> QED
    BY <1>1, <2>1, ExcessRaised
<1>4. amount * n \in Nat /\ e \in Nat /\ e1 \in Nat
  BY <1>1, <1>3, ExcessTyped
<1>5. overcounted' = [overcounted EXCEPT ![t] = @ + amount * n]
  BY DEF Overcounts
<1> DEFINE k == amount * n
<1>6. k \in Nat /\ e1 <= e + k /\ overcounted' = [overcounted EXCEPT ![t] = @ + k]
  BY <1>3, <1>4, <1>5
<1> HIDE DEF n, k, e, e1, r
<1>7. overcounted' \in [Tokens -> Nat] /\ overcounted'[t] = overcounted[t] + k
      /\ (\A s \in Tokens \ {t} : overcounted'[s] = overcounted[s])
  BY <1>6
<1>8. ASSUME NEW s \in Tokens \ {t} PROVE CoveredWithExcess(s)'
  <2>1. held'[s] = held[s] /\ bridged'[s] = bridged[s]
    BY <1>1
  <2>2. Excess(s, held', calls') = Excess(s, held, waiting)
    BY <1>2, <2>1, ExcessStays
  <2>3. SumOver(bridged[s], Bridges) \in Nat /\ SumOver(Excess(s, held, waiting), Depth) \in Nat
    BY <1>1, ExcessTyped, SumType, BridgeAssumption
  <2> DEFINE m == SumOver(bridged[s], Bridges)
             x == SumOver(Excess(s, held, waiting), Depth)
             h == SumOver(held[s], Bridges) + overcounted[s]
  <2>4. m + x + 0 <= h
    BY DEF CoveredWithout
  <2>5. m \in Nat /\ x \in Nat
    BY <2>3
  <2> HIDE DEF m, x, h
  <2>6. m + x <= h
    <3>1. m + x + 0 = m + x
      BY <2>5
    <3> QED
      BY <2>4, <3>1
  <2> QED
    BY <1>7, <2>1, <2>2, <2>6 DEF CoveredWithExcess, m, x, h
<1>9. CoveredWithExcess(t)'
  <2> DEFINE H == held[t]
             H1 == held'[t]
             M == bridged[t]
             M1 == bridged'[t]
             o == overcounted[t]
  <2>1. /\ H \in [Bridges -> Nat] /\ H1 \in [Bridges -> Nat]
        /\ M \in [Bridges -> Nat] /\ M1 \in [Bridges -> Nat] /\ o \in Nat
        /\ H1[b] = H[b] + amount /\ M1[r] = M[r] + (H[b] + amount - before)
    BY <1>1
  <2>2. SameBut(H, H1, b, Bridges) /\ SameBut(M, M1, r, Bridges)
    BY <1>1 DEF SameBut
  <2>3. SumOver(M, Bridges) + e + (H[b] - before) <= SumOver(H, Bridges) + o
    BY DEF e, CoveredWithout
  <2> HIDE DEF H, H1, M, M1, o
  <2>4. LockSums(H, H1, M, M1, b, r, amount, before, e, e1, o, k)
    BY <1>4, <1>6, <2>1, <2>2, <2>3 DEF LockSums
  <2>5. SumOver(M1, Bridges) + e1 <= SumOver(H1, Bridges) + (o + k)
    BY <1>1, <2>4, LockSumsCovered
  <2> QED
    BY <1>2, <1>7, <2>5 DEF CoveredWithExcess, H1, M1, o, e1
<1> QED
  BY <1>2, <1>7, <1>8, <1>9

(* A bridged token burnt, and minted or released at the other side.        *)
BurnSums(H, H1, M, M1, b, r, amount) ==
  /\ H \in [Bridges -> Nat] /\ H1 \in [Bridges -> Nat]
  /\ M \in [Bridges -> Nat] /\ M1 \in [Bridges -> Nat] /\ amount \in Nat /\ b # r
  /\ M1[b] = M[b] - amount
  /\ \/ /\ H1 = H /\ M1[r] = M[r] + amount
        /\ (\A c \in Bridges \ {b, r} : M1[c] = M[c])
     \/ /\ H1[r] = H[r] - amount /\ SameBut(H, H1, r, Bridges) /\ SameBut(M, M1, b, Bridges)

LEMMA BurnSumsCovered ==
  ASSUME NEW H, NEW H1, NEW M, NEW M1, NEW b \in Bridges, NEW r \in Bridges, NEW amount,
         BurnSums(H, H1, M, M1, b, r, amount), NEW e \in Nat, NEW e1 \in Nat, NEW o \in Nat, e1 <= e,
         SumOver(M, Bridges) + e <= SumOver(H, Bridges) + o
  PROVE  /\ SumOver(M1, Bridges) + e1 <= SumOver(H1, Bridges) + o
         /\ (\A c \in Bridges : H1[c] <= H[c])
<1>1. /\ H \in [Bridges -> Nat] /\ H1 \in [Bridges -> Nat]
      /\ M \in [Bridges -> Nat] /\ M1 \in [Bridges -> Nat] /\ amount \in Nat /\ b # r
      /\ M1[b] = M[b] - amount
  BY DEF BurnSums
<1> DEFINE h == SumOver(H, Bridges)
           h1 == SumOver(H1, Bridges)
           m == SumOver(M, Bridges)
           m1 == SumOver(M1, Bridges)
<1>2. h \in Nat /\ h1 \in Nat /\ m \in Nat /\ m1 \in Nat
  BY <1>1, SumType, BridgeAssumption
<1>3. m + e <= h + o
  OBVIOUS
<1>4. CASE /\ H1 = H /\ M1[r] = M[r] + amount
           /\ (\A c \in Bridges \ {b, r} : M1[c] = M[c])
  <2>1. M1 \in [Bridges -> Int] /\ M \in [Bridges -> Int]
    BY <1>1
  <2>2. M1[b] + M1[r] = M[b] + M[r]
    <3>1. M[b] \in Nat /\ M[r] \in Nat
      BY <1>1
    <3> QED
      BY <1>1, <1>4, <3>1
  <2>3. m1 = m /\ h1 = h
    BY <1>1, <1>4, <2>1, <2>2, SumTransfer, BridgeAssumption
  <2>4. \A c \in Bridges : H1[c] <= H[c]
    <3>1. \A c \in Bridges : H[c] \in Nat
      BY <1>1
    <3> QED
      BY <1>4, <3>1
  <2> HIDE DEF h, h1, m, m1
  <2>5. m1 + e1 <= h1 + o
    BY <1>2, <1>3, <2>3
  <2> QED
    BY <2>4, <2>5 DEF h1, m1
<1>5. CASE H1[r] = H[r] - amount /\ SameBut(H, H1, r, Bridges) /\ SameBut(M, M1, b, Bridges)
  <2>1. h1 = h - H[r] + H1[r]
    BY <1>1, <1>5, PointWrite, BridgeAssumption
  <2>2. m1 = m - M[b] + M1[b]
    BY <1>1, <1>5, PointWrite, BridgeAssumption
  <2>3. H[r] \in Nat /\ M[b] \in Nat
    BY <1>1
  <2>4. \A c \in Bridges : H1[c] <= H[c]
    <3>1. \A c \in Bridges : H[c] \in Nat /\ (c # r => H1[c] = H[c])
      BY <1>1, <1>5 DEF SameBut
    <3> QED
      BY <1>1, <1>5, <3>1
  <2> HIDE DEF h, h1, m, m1
  <2>5. h1 = h - amount /\ m1 = m - amount
    BY <1>1, <1>2, <1>5, <2>1, <2>2, <2>3
  <2>6. m1 + e1 <= h1 + o
    BY <1>1, <1>2, <1>3, <2>5
  <2> QED
    BY <2>4, <2>6 DEF h1, m1
<1> QED
  BY <1>4, <1>5 DEF BurnSums

LEMMA BurnMoves ==
  ASSUME BridgeTypeOK, NEW b \in Bridges, NEW t \in Tokens, NEW amount \in Nat, NEW label,
         BurnOut(b, t, amount, label)
  PROVE  /\ BurnSums(held[t], held'[t], bridged[t], bridged'[t], b, Remote(b), amount)
         /\ held' \in [Tokens -> [Bridges -> Nat]]
         /\ MessagesSent(b, <<label>>, calls)
         /\ (\A s \in Tokens \ {t} : held'[s] = held[s] /\ bridged'[s] = bridged[s])
<1> DEFINE r == Remote(b)
           minted == [bridged EXCEPT ![t][b] = @ - amount]
<1>1. held \in [Tokens -> [Bridges -> Nat]] /\ bridged \in [Tokens -> [Bridges -> Nat]]
  BY DEF BridgeTypeOK
<1>2. r \in Bridges /\ r # b
  BY RemoteFacts
<1>3. bridged[t][b] >= amount /\ In(b, t, amount, <<label>>, held, minted, calls)
  BY DEF BurnOut
<1>4. bridged[t] \in [Bridges -> Nat] /\ bridged[t][b] - amount \in Nat
  BY <1>1, <1>3
<1>5. /\ minted \in [Tokens -> [Bridges -> Nat]]
      /\ minted[t][b] = bridged[t][b] - amount
      /\ (\A c \in Bridges \ {b} : minted[t][c] = bridged[t][c])
      /\ (\A s \in Tokens \ {t} : minted[s] = bridged[s])
  BY <1>1, <1>4
<1> HIDE DEF r, minted
<1>6. /\ MessagesSent(b, <<label>>, calls)
      /\ Minted(t, r, amount, held, minted) \/ ReleasedTo(t, r, amount, held, minted)
      /\ held' \in [Tokens -> [Bridges -> Nat]] /\ bridged' \in [Tokens -> [Bridges -> Nat]]
  BY <1>1, <1>3, <1>5, InMoves DEF r
<1>7. \A s \in Tokens \ {t} : held'[s] = held[s] /\ bridged'[s] = bridged[s]
  BY <1>1, <1>5, <1>6 DEF Minted, ReleasedTo
<1>8. /\ held[t] \in [Bridges -> Nat] /\ held'[t] \in [Bridges -> Nat]
      /\ bridged[t] \in [Bridges -> Nat] /\ bridged'[t] \in [Bridges -> Nat]
  BY <1>1, <1>6
<1>9. CASE Minted(t, r, amount, held, minted)
  <2>1. /\ bridged'[t][b] = bridged[t][b] - amount /\ bridged'[t][r] = bridged[t][r] + amount
        /\ (\A c \in Bridges \ {b, r} : bridged'[t][c] = bridged[t][c]) /\ held' = held
    BY <1>2, <1>5, <1>9 DEF Minted
  <2> QED
    BY <1>2, <1>6, <1>7, <1>8, <2>1 DEF BurnSums, r
<1>10. CASE ReleasedTo(t, r, amount, held, minted)
  <2>1. /\ bridged'[t][b] = bridged[t][b] - amount
        /\ (\A c \in Bridges \ {b} : bridged'[t][c] = bridged[t][c])
    BY <1>5, <1>10 DEF ReleasedTo
  <2>2. /\ held'[t][r] = held[t][r] - amount
        /\ (\A c \in Bridges \ {r} : held'[t][c] = held[t][c])
    BY <1>1, <1>2, <1>10 DEF ReleasedTo
  <2>3. SameBut(held[t], held'[t], r, Bridges) /\ SameBut(bridged[t], bridged'[t], b, Bridges)
    BY <2>1, <2>2 DEF SameBut
  <2> QED
    BY <1>2, <1>6, <1>7, <1>8, <2>1, <2>2, <2>3 DEF BurnSums, r
<1> QED
  BY <1>6, <1>9, <1>10
-----------------------------------------------------------------------------
LEMMA CoveredWithAll ==
  ASSUME BridgeTypeOK, overcounted \in [Tokens -> Nat], NEW t \in Tokens,
         NEW waiting \in Seq(CallFrames), NEW d \in Int,
         CoveredWithExcess(t),
         SumOver(Excess(t, held, waiting), Depth) + d <= SumOver(Excess(t, held, calls), Depth)
  PROVE  CoveredWithout(t, waiting, d)
<1> DEFINE m == SumOver(bridged[t], Bridges)
           h == SumOver(held[t], Bridges)
           e == SumOver(Excess(t, held, calls), Depth)
           e1 == SumOver(Excess(t, held, waiting), Depth)
           o == overcounted[t]
<1>1. m \in Nat /\ h \in Nat /\ e \in Nat /\ e1 \in Nat /\ o \in Nat
  BY ExcessTyped, SumType, BridgeAssumption DEF BridgeTypeOK
<1>2. m + e <= h + o /\ e1 + d <= e
  BY DEF CoveredWithExcess
<1> HIDE DEF m, h, e, e1, o
<1>3. m + e1 + d <= h + o
  BY <1>1, <1>2
<1> QED
  BY <1>3 DEF CoveredWithout, m, h, e1, o

LEMMA CountedLockOutExcess ==
  ASSUME HooksInv, NEW b \in Bridges, NEW t \in Tokens, NEW amount \in Amounts,
         NEW labels \in LabelLists, CountedLockOut(b, t, amount, labels)
  PROVE  HooksInv'
<1>1. /\ BridgeInv /\ BridgeTypeOK /\ RegistrationsKept /\ overcounted \in [Tokens -> Nat]
      /\ calls \in Seq(CallFrames) /\ Len(calls) <= MaxCalls /\ held[t][b] \in Nat
      /\ (\A s \in Tokens : CoveredWithExcess(s))
  BY DEF HooksInv, BridgeInv, BridgeTypeOK
<1>2. /\ LockOut(b, t, amount, labels) /\ Lock(b, t, amount, held[t][b], labels, calls)
      /\ Overcounts(t, amount * HooksWaiting(b, t, calls)) /\ amount \in Nat
  BY BridgeAssumption DEF CountedLockOut, LockOut
<1>3. BridgeInv'
  BY <1>1, <1>2, LockOutInv
<1>4. \A s \in Tokens : CoveredWithout(s, calls, 0)
  <2> SUFFICES ASSUME NEW s \in Tokens PROVE CoveredWithout(s, calls, 0)
    OBVIOUS
  <2> DEFINE e == SumOver(Excess(s, held, calls), Depth)
  <2>1. e \in Nat
    BY <1>1, ExcessTyped DEF BridgeTypeOK
  <2> HIDE DEF e
  <2>2. e + 0 <= e
    BY <2>1
  <2> QED
    BY <1>1, <2>2, CoveredWithAll DEF e
<1>5. held[t][b] - held[t][b] = 0
  BY <1>1
<1>6. /\ Len(calls') <= MaxCalls /\ overcounted' \in [Tokens -> Nat]
      /\ (\A s \in Tokens : CoveredWithExcess(s)')
  BY <1>1, <1>2, <1>4, <1>5, LockExcess
<1> QED
  BY <1>3, <1>6 DEF HooksInv

LEMMA CountedHookOverExcess ==
  ASSUME HooksInv, NEW labels \in LabelLists, CountedHookOver(labels)
  PROVE  HooksInv'
<1> DEFINE f == Head(calls)
           waiting == Tail(calls)
<1>1. /\ BridgeInv /\ BridgeTypeOK /\ RegistrationsKept /\ overcounted \in [Tokens -> Nat]
      /\ calls \in Seq(CallFrames) /\ Len(calls) <= MaxCalls
      /\ held \in [Tokens -> [Bridges -> Nat]]
      /\ (\A s \in Tokens : CoveredWithExcess(s))
  BY DEF HooksInv, BridgeInv, BridgeTypeOK
<1>2. /\ HookOver(labels) /\ calls # <<>> /\ f.call = "send"
      /\ Lock(f.bridge, f.token, f.amount, f.before, labels, waiting)
      /\ Overcounts(f.token, f.amount * HooksWaiting(f.bridge, f.token, waiting))
  BY DEF CountedHookOver, HookOver
<1>3. BridgeInv'
  BY <1>1, <1>2, HookOverInv
<1>4. /\ f \in CallFrames /\ waiting \in Seq(CallFrames)
      /\ Len(calls) \in Nat /\ Len(waiting) = Len(calls) - 1
  BY <1>1, <1>2, Popped, AtPopped
<1>5. Len(waiting) <= MaxCalls
  <2> DEFINE k == Len(calls)
             l == Len(waiting)
  <2>1. k \in Nat /\ l = k - 1 /\ k <= MaxCalls /\ MaxCalls \in Nat
    BY <1>1, <1>4, DepthFinite
  <2> HIDE DEF k, l
  <2>2. l <= MaxCalls
    BY <2>1
  <2> QED
    BY <2>2 DEF l
<1>6. \A s \in Tokens :
        /\ SumOver(Excess(s, held, waiting), Depth) <= SumOver(Excess(s, held, calls), Depth)
        /\ f.token = s =>
             SumOver(Excess(s, held, waiting), Depth) + (held[s][f.bridge] - f.before)
               <= SumOver(Excess(s, held, calls), Depth)
  BY <1>1, <1>2, ExcessPopped
<1> HIDE DEF f, waiting
<1>7. f \in SendFrames
  BY <1>2, <1>4 DEF CallFrames, MessageFrames, MessageFrame
<1>8. f.bridge \in Bridges /\ f.token \in Tokens /\ f.amount \in Nat /\ f.before \in Nat
  BY <1>7, BridgeAssumption DEF SendFrames
<1>9. CoveredWithout(f.token, waiting, held[f.token][f.bridge] - f.before)
  <2>1. held[f.token][f.bridge] - f.before \in Int
    BY <1>1, <1>8
  <2> QED
    BY <1>1, <1>4, <1>6, <1>8, <2>1, CoveredWithAll
<1>10. ASSUME NEW s \in Tokens PROVE CoveredWithout(s, waiting, 0)
  <2> DEFINE e == SumOver(Excess(s, held, calls), Depth)
             e1 == SumOver(Excess(s, held, waiting), Depth)
  <2>1. e \in Nat /\ e1 \in Nat /\ e1 <= e
    BY <1>1, <1>4, <1>6, ExcessTyped
  <2> HIDE DEF e, e1
  <2>2. e1 + 0 <= e
    BY <2>1
  <2> QED
    BY <1>1, <1>4, <2>2, CoveredWithAll DEF e, e1
<1>11. /\ Len(calls') <= MaxCalls /\ overcounted' \in [Tokens -> Nat]
       /\ (\A s \in Tokens : CoveredWithExcess(s)')
  BY <1>1, <1>2, <1>4, <1>5, <1>8, <1>9, <1>10, LockExcess
<1> QED
  BY <1>3, <1>11 DEF HooksInv

LEMMA BurnOutExcess ==
  ASSUME HooksInv, NEW b \in Bridges, NEW t \in Tokens, NEW amount \in Amounts,
         NEW label \in Labels, BurnOut(b, t, amount, label), UNCHANGED overcounted
  PROVE  HooksInv'
<1>1. /\ BridgeInv /\ BridgeTypeOK /\ overcounted \in [Tokens -> Nat]
      /\ calls \in Seq(CallFrames) /\ Len(calls) <= MaxCalls
      /\ held \in [Tokens -> [Bridges -> Nat]] /\ bridged \in [Tokens -> [Bridges -> Nat]]
      /\ (\A s \in Tokens : CoveredWithExcess(s))
  BY DEF HooksInv, BridgeInv, BridgeTypeOK
<1>2. BridgeInv'
  BY <1>1, BurnOutInv
<1>3. amount \in Nat /\ Remote(b) \in Bridges
  BY BridgeAssumption, RemoteFacts
<1>4. /\ BurnSums(held[t], held'[t], bridged[t], bridged'[t], b, Remote(b), amount)
      /\ held' \in [Tokens -> [Bridges -> Nat]]
      /\ MessagesSent(b, <<label>>, calls)
      /\ (\A s \in Tokens \ {t} : held'[s] = held[s] /\ bridged'[s] = bridged[s])
  BY <1>1, <1>3, BurnMoves
<1>5. /\ Len(calls') <= MaxCalls
      /\ (\A s \in Tokens : Excess(s, held', calls') = Excess(s, held', calls))
  BY <1>1, <1>4, ExcessOfWaiting DEF MessagesSent
<1>6. ASSUME NEW s \in Tokens \ {t} PROVE CoveredWithExcess(s)'
  <2>1. held'[s] = held[s] /\ bridged'[s] = bridged[s]
    BY <1>4
  <2>2. Excess(s, held', calls') = Excess(s, held, calls)
    BY <1>5, <2>1, ExcessStays
  <2>3. CoveredWithExcess(s)
    BY <1>1
  <2> QED
    BY <2>1, <2>2, <2>3 DEF CoveredWithExcess
<1>7. CoveredWithExcess(t)'
  <2> DEFINE e == SumOver(Excess(t, held, calls), Depth)
             e1 == SumOver(Excess(t, held', calls), Depth)
             n == HooksWaiting(b, t, calls)
  <2>1. e \in Nat /\ e1 \in Nat
    BY <1>1, <1>4, ExcessTyped
  <2>2. \A c \in Bridges : held'[t][c] <= held[t][c]
    <3>1. SumOver(bridged[t], Bridges) + e <= SumOver(held[t], Bridges) + overcounted[t]
      BY <1>1 DEF CoveredWithExcess
    <3>2. e <= e /\ overcounted[t] \in Nat
      BY <1>1, <2>1
    <3> HIDE DEF e
    <3> QED
      BY <1>3, <1>4, <2>1, <3>1, <3>2, BurnSumsCovered
  <2>3. n \in Nat /\ e1 <= e + 0 * n
    <3>1. held'[t][b] <= held[t][b] + 0
      <4>1. held[t][b] \in Nat
        BY <1>1
      <4> QED
        BY <2>2, <4>1
    <3> QED
      BY <1>1, <1>4, <2>2, <3>1, ExcessRaised
  <2> HIDE DEF e, e1, n
  <2>4. e1 <= e
    BY <2>1, <2>3
  <2>5. SumOver(bridged[t], Bridges) + e <= SumOver(held[t], Bridges) + overcounted[t]
    BY <1>1 DEF CoveredWithExcess, e
  <2>6. SumOver(bridged'[t], Bridges) + e1 <= SumOver(held'[t], Bridges) + overcounted[t]
    BY <1>1, <1>3, <1>4, <2>1, <2>4, <2>5, BurnSumsCovered
  <2> QED
    BY <1>5, <2>6 DEF CoveredWithExcess, e1
<1> QED
  BY <1>1, <1>2, <1>5, <1>6, <1>7 DEF HooksInv

(* A donation covers one of those who measure it.                          *)
LEMMA CountedDonateExcess ==
  ASSUME HooksInv, NEW b \in Bridges, NEW t \in Tokens, CountedDonate(b, t)
  PROVE  HooksInv'
<1> DEFINE n == HooksWaiting(b, t, calls)
           k == IF n = 0 THEN 0 ELSE n - 1
           e == SumOver(Excess(t, held, calls), Depth)
           e1 == SumOver(Excess(t, held', calls), Depth)
<1>1. /\ BridgeInv /\ overcounted \in [Tokens -> Nat]
      /\ calls \in Seq(CallFrames) /\ Len(calls) <= MaxCalls
      /\ held \in [Tokens -> [Bridges -> Nat]] /\ bridged \in [Tokens -> [Bridges -> Nat]]
      /\ (\A s \in Tokens : CoveredWithExcess(s))
  BY DEF HooksInv, BridgeInv, BridgeTypeOK
<1>2. /\ Donate(b, t) /\ overcounted' = [overcounted EXCEPT ![t] = @ + k]
  BY DEF CountedDonate, Overcounts
<1>3. BridgeInv'
  BY <1>1, <1>2, DonateInv
<1>4. /\ held' = [held EXCEPT ![t] = [held[t] EXCEPT ![b] = held[t][b] + 1]]
      /\ bridged' = bridged /\ calls' = calls
  BY <1>1, <1>2 DEF Donate
<1>5. /\ held' \in [Tokens -> [Bridges -> Nat]] /\ held'[t][b] = held[t][b] + 1
      /\ (\A c \in Bridges \ {b} : held'[t][c] = held[t][c])
      /\ (\A s \in Tokens \ {t} : held'[s] = held[s])
      /\ (\A c \in Bridges : held[t][c] \in Nat)
  <2>1. held[t][b] + 1 \in Nat
    BY <1>1
  <2> QED
    BY <1>1, <1>4, <2>1
<1>6. n \in Nat /\ e1 <= e + 1 * n
  <2>1. held'[t][b] <= held[t][b] + 1 /\ (\A c \in Bridges \ {b} : held'[t][c] <= held[t][c])
    BY <1>5
  <2> QED
    BY <1>1, <1>5, <2>1, ExcessRaised
<1>7. e \in Nat /\ e1 \in Nat
  BY <1>1, <1>5, ExcessTyped
<1>8. k \in Nat /\ n <= k + 1
  BY <1>6
<1> HIDE DEF n, k, e, e1
<1>9. /\ overcounted' \in [Tokens -> Nat] /\ overcounted'[t] = overcounted[t] + k
      /\ (\A s \in Tokens \ {t} : overcounted'[s] = overcounted[s]) /\ overcounted[t] \in Nat
  BY <1>1, <1>2, <1>8
<1>10. ASSUME NEW s \in Tokens \ {t} PROVE CoveredWithExcess(s)'
  <2>1. Excess(s, held', calls') = Excess(s, held, calls)
    <3>1. held'[s] = held[s]
      BY <1>5
    <3>2. Excess(s, held', calls) = Excess(s, held, calls)
      BY <3>1, ExcessStays
    <3> QED
      BY <1>4, <3>2, Zenon
  <2>2. CoveredWithExcess(s)
    BY <1>1
  <2> QED
    BY <1>4, <1>5, <1>9, <2>1, <2>2 DEF CoveredWithExcess
<1>11. CoveredWithExcess(t)'
  <2> DEFINE h == SumOver(held[t], Bridges)
             h1 == SumOver(held'[t], Bridges)
             m == SumOver(bridged[t], Bridges)
             o == overcounted[t]
             H == held[t]
             H1 == held'[t]
  <2>1. H \in [Bridges -> Nat] /\ H1 \in [Bridges -> Nat] /\ SameBut(H, H1, b, Bridges)
    BY <1>1, <1>5 DEF SameBut
  <2>2. H[b] \in Nat /\ H1[b] = H[b] + 1
    BY <1>5
  <2> HIDE DEF H, H1
  <2>3. /\ SumOver(H, Bridges) \in Nat /\ SumOver(H1, Bridges) \in Nat
        /\ SumOver(H1, Bridges) = SumOver(H, Bridges) - H[b] + H1[b]
    BY <2>1, PointWrite, BridgeAssumption
  <2>4. SumOver(H1, Bridges) = SumOver(H, Bridges) + 1
    BY <2>2, <2>3
  <2>5. h1 = h + 1 /\ h \in Nat
    BY <2>3, <2>4 DEF H, H1
  <2>6. m \in Nat /\ m + e <= h + o /\ o \in Nat
    BY <1>1, <1>9, SumType, BridgeAssumption DEF CoveredWithExcess, e
  <2> HIDE DEF h, h1, m, o
  <2>7. m + e1 <= h1 + (o + k)
    BY <1>6, <1>7, <1>8, <2>5, <2>6
  <2> QED
    BY <1>4, <1>9, <2>7 DEF CoveredWithExcess, h1, m, o, e1
<1> QED
  BY <1>1, <1>3, <1>4, <1>9, <1>10, <1>11 DEF HooksInv

(* Steps that move no tokens and add no excess.                            *)
LEMMA NoExcessMoves ==
  ASSUME HooksInv, BridgeInv', UNCHANGED <<held, bridged, overcounted>>, Len(calls') <= MaxCalls,
         \A s \in Tokens : SumOver(Excess(s, held, calls'), Depth) <= SumOver(Excess(s, held, calls), Depth)
  PROVE  HooksInv'
<1>1. /\ overcounted \in [Tokens -> Nat] /\ calls' \in Seq(CallFrames) /\ calls \in Seq(CallFrames)
      /\ held \in [Tokens -> [Bridges -> Nat]] /\ bridged \in [Tokens -> [Bridges -> Nat]]
      /\ (\A s \in Tokens : CoveredWithExcess(s))
  BY DEF HooksInv, BridgeInv, BridgeTypeOK
<1>2. ASSUME NEW s \in Tokens PROVE CoveredWithExcess(s)'
  <2> DEFINE m == SumOver(bridged[s], Bridges)
             h == SumOver(held[s], Bridges)
             e == SumOver(Excess(s, held, calls), Depth)
             e1 == SumOver(Excess(s, held, calls'), Depth)
             o == overcounted[s]
  <2>1. m \in Nat /\ h \in Nat /\ e \in Nat /\ e1 \in Nat /\ o \in Nat
    BY <1>1, ExcessTyped, SumType, BridgeAssumption
  <2>2. m + e <= h + o /\ e1 <= e
    BY <1>1 DEF CoveredWithExcess
  <2> HIDE DEF m, h, e, e1, o
  <2>3. m + e1 <= h + o
    BY <2>1, <2>2
  <2> QED
    BY <2>3 DEF CoveredWithExcess, m, h, e1, o
<1> QED
  BY <1>1, <1>2 DEF HooksInv

LEMMA MessageOverExcess ==
  ASSUME HooksInv, MessageOver, UNCHANGED overcounted
  PROVE  HooksInv'
<1>1. /\ BridgeInv /\ calls \in Seq(CallFrames) /\ Len(calls) <= MaxCalls /\ calls # <<>>
      /\ held \in [Tokens -> [Bridges -> Nat]] /\ calls' = Tail(calls) /\ UNCHANGED <<held, bridged>>
  BY DEF HooksInv, BridgeInv, BridgeTypeOK, MessageOver
<1>2. BridgeInv'
  BY <1>1, MessageOverInv
<1>3. \A s \in Tokens :
        SumOver(Excess(s, held, Tail(calls)), Depth) <= SumOver(Excess(s, held, calls), Depth)
  BY <1>1, ExcessPopped
<1>4. Len(calls) \in Nat /\ Len(Tail(calls)) = Len(calls) - 1
  BY <1>1, AtPopped
<1>5. Len(calls') <= MaxCalls
  <2> DEFINE k == Len(calls)
             l == Len(calls')
  <2>1. k \in Nat /\ l = k - 1 /\ k <= MaxCalls /\ MaxCalls \in Nat
    BY <1>1, <1>4, DepthFinite
  <2> HIDE DEF k, l
  <2>2. l <= MaxCalls
    BY <2>1
  <2> QED
    BY <2>2 DEF l
<1> QED
  BY <1>1, <1>2, <1>3, <1>5, NoExcessMoves

(* A hook that begins has nothing to measure yet.                          *)
LEMMA SendersHookExcess ==
  ASSUME HooksInv, NEW b \in Bridges, NEW t \in Tokens, NEW amount \in Amounts,
         SendersHook(b, t, amount), UNCHANGED overcounted
  PROVE  HooksInv'
<1> DEFINE f == [call |-> "send", bridge |-> b, token |-> t, amount |-> amount,
                 before |-> held[t][b]]
<1>1. /\ BridgeInv /\ calls \in Seq(CallFrames) /\ held[t][b] \in Nat
      /\ held \in [Tokens -> [Bridges -> Nat]]
  BY DEF HooksInv, BridgeInv, BridgeTypeOK
<1>2. calls' = <<f>> \o calls /\ Len(calls) < MaxCalls /\ UNCHANGED <<held, bridged>>
  BY DEF SendersHook
<1>3. f \in CallFrames /\ f.bridge = b /\ f.token = t /\ f.before = held[t][b]
  BY <1>1 DEF CallFrames, SendFrames
<1> HIDE DEF f
<1>4. BridgeInv'
  BY <1>1, SendersHookInv
<1>5. \A s \in Tokens : Excess(s, held, calls') = Excess(s, held, calls)
  BY <1>1, <1>2, <1>3, ExcessPushed
<1>6. \A s \in Tokens :
        SumOver(Excess(s, held, calls'), Depth) <= SumOver(Excess(s, held, calls), Depth)
  <2>1. \A s \in Tokens : SumOver(Excess(s, held, calls), Depth) \in Nat
    BY <1>1, ExcessTyped
  <2> QED
    BY <1>5, <2>1
<1>7. Len(calls') = Len(calls) + 1 /\ Len(calls) \in Nat
  BY <1>1, <1>2, <1>3, AtPushed
<1>8. Len(calls') <= MaxCalls
  <2> DEFINE k == Len(calls)
             l == Len(calls')
  <2>1. k \in Nat /\ l = k + 1 /\ k < MaxCalls /\ MaxCalls \in Nat
    BY <1>2, <1>7, DepthFinite
  <2> HIDE DEF k, l
  <2>2. l <= MaxCalls
    BY <2>1
  <2> QED
    BY <2>2 DEF l
<1> QED
  BY <1>2, <1>4, <1>6, <1>8, NoExcessMoves

LEMMA EthOutExcess ==
  ASSUME HooksInv, NEW b \in Bridges, NEW label \in Labels, EthOut(b, label), UNCHANGED overcounted
  PROVE  HooksInv'
<1>1. /\ BridgeInv /\ calls \in Seq(CallFrames) /\ Len(calls) <= MaxCalls
      /\ held \in [Tokens -> [Bridges -> Nat]]
  BY DEF HooksInv, BridgeInv, BridgeTypeOK
<1>2. EndsOrWaits(b, 1, calls) /\ UNCHANGED <<held, bridged>>
  BY DEF EthOut, EndsOrWaits
<1>3. BridgeInv'
  BY <1>1, EthOutInv
<1>4. Len(calls') <= MaxCalls /\ (\A s \in Tokens : Excess(s, held, calls') = Excess(s, held, calls))
  BY <1>1, <1>2, ExcessOfWaiting
<1>5. \A s \in Tokens :
        SumOver(Excess(s, held, calls'), Depth) <= SumOver(Excess(s, held, calls), Depth)
  <2>1. \A s \in Tokens : SumOver(Excess(s, held, calls), Depth) \in Nat
    BY <1>1, ExcessTyped
  <2> QED
    BY <1>4, <2>1
<1> QED
  BY <1>2, <1>3, <1>4, <1>5, NoExcessMoves

LEMMA HooksInitInv == HooksInit => HooksInv
<1> SUFFICES ASSUME HooksInit PROVE HooksInv
  OBVIOUS
<1>1. BridgeInv /\ overcounted \in [Tokens -> Nat]
  BY BridgeInitInv DEF HooksInit
<1>2. calls = <<>> /\ Len(calls) = 0 /\ 0 <= MaxCalls
  BY DepthFinite DEF HooksInit, Init
<1>3. ASSUME NEW t \in Tokens PROVE CoveredWithExcess(t)
  <2> DEFINE e == Excess(t, held, calls)
             M == bridged[t]
  <2>1. calls \in Seq(CallFrames) /\ held \in [Tokens -> [Bridges -> Nat]]
        /\ M \in [Bridges -> Nat]
    BY <1>1 DEF BridgeInv, BridgeTypeOK
  <2>2. e \in [Depth -> Int]
    BY <2>1, ExcessTyped
  <2>3. \A p \in Depth : e[p] = 0
    <3>1. \A p \in Depth : p >= 1 /\ p \in Nat
      BY DepthFinite DEF Depth
    <3>2. \A p \in Depth : ~SendsAt(calls, p, t)
      BY <1>2, <3>1 DEF SendsAt
    <3> QED
      BY <3>2 DEF Excess
  <2>4. M \in [Bridges -> Int] /\ (\A b \in Bridges : M[b] = 0)
    BY <2>1 DEF HooksInit, Init
  <2>5. SumOver(held[t], Bridges) \in Nat /\ overcounted[t] \in Nat
    BY <1>1, <2>1, SumType, BridgeAssumption
  <2> HIDE DEF e, M
  <2>6. SumOver(e, Depth) = 0
    BY <2>2, <2>3, DepthFinite, SumZero
  <2>7. SumOver(M, Bridges) = 0
    BY <2>4, SumZero, BridgeAssumption
  <2> QED
    BY <2>5, <2>6, <2>7 DEF CoveredWithExcess, e, M
<1> QED
  BY <1>1, <1>2, <1>3 DEF HooksInv

LEMMA HooksNextInv == HooksInv /\ [HooksNext]_hooksVars => HooksInv'
<1> SUFFICES ASSUME HooksInv, [HooksNext]_hooksVars PROVE HooksInv'
  OBVIOUS
<1>1. CASE MessageOver /\ UNCHANGED overcounted
  BY <1>1, MessageOverExcess
<1>2. ASSUME NEW labels \in LabelLists, CountedHookOver(labels) PROVE HooksInv'
  BY <1>2, CountedHookOverExcess
<1>3. ASSUME NEW b \in Bridges, NEW label \in Labels, EthOut(b, label), UNCHANGED overcounted
      PROVE  HooksInv'
  BY <1>3, EthOutExcess
<1>4. ASSUME NEW b \in Bridges, NEW t \in Tokens, CountedDonate(b, t) PROVE HooksInv'
  BY <1>4, CountedDonateExcess
<1>5. ASSUME NEW b \in Bridges, NEW t \in Tokens, NEW amount \in Amounts,
             SendersHook(b, t, amount), UNCHANGED overcounted
      PROVE  HooksInv'
  BY <1>5, SendersHookExcess
<1>6. ASSUME NEW b \in Bridges, NEW t \in Tokens, NEW amount \in Amounts, NEW label \in Labels,
             BurnOut(b, t, amount, label), UNCHANGED overcounted
      PROVE  HooksInv'
  BY <1>6, BurnOutExcess
<1>7. ASSUME NEW b \in Bridges, NEW t \in Tokens, NEW amount \in Amounts,
             NEW labels \in LabelLists, CountedLockOut(b, t, amount, labels)
      PROVE  HooksInv'
  BY <1>7, CountedLockOutExcess
<1>8. ASSUME BridgeInv', UNCHANGED <<held, bridged, calls, overcounted>> PROVE HooksInv'
  <2>1. Len(calls) <= MaxCalls /\ (\A s \in Tokens : SumOver(Excess(s, held, calls), Depth) \in Nat)
    BY ExcessTyped DEF HooksInv, BridgeInv, BridgeTypeOK
  <2>2. \A s \in Tokens :
          SumOver(Excess(s, held, calls'), Depth) <= SumOver(Excess(s, held, calls), Depth)
    BY <1>8, <2>1
  <2> QED
    BY <1>8, <2>1, <2>2, NoExcessMoves
<1>9. BridgeInv
  BY DEF HooksInv
<1>10. ASSUME NEW b \in Bridges, RegisterRemoteBridge(b), UNCHANGED overcounted PROVE HooksInv'
  <2>1. Next
    BY <1>10 DEF Next
  <2>2. BridgeInv'
    BY <1>9, <2>1, BridgeNextInv
  <2>3. UNCHANGED <<held, bridged, calls, overcounted>>
    BY <1>10 DEF RegisterRemoteBridge
  <2> QED
    BY <1>8, <2>2, <2>3
<1>11. CASE UNCHANGED hooksVars
  <2>1. UNCHANGED bridgeVars /\ UNCHANGED <<held, bridged, calls, overcounted>>
    BY <1>11 DEF hooksVars, bridgeVars
  <2>2. BridgeInv'
    BY <1>9, <2>1, BridgeNextInv
  <2> QED
    BY <1>8, <2>1, <2>2
<1> QED
  BY <1>1, <1>2, <1>3, <1>4, <1>5, <1>6, <1>7, <1>10, <1>11 DEF HooksNext

(* Not even re-entered sends leave more uncovered than what was paid to a  *)
(* bridge while hooks for it waited, once for each of them.                *)
THEOREM UncoveredIsBounded == HooksSpec => []UncoveredBounded
<1>1. HooksInv => UncoveredBounded
  <2> SUFFICES ASSUME HooksInv, NEW t \in Tokens
               PROVE  SumOver(bridged[t], Bridges) <= SumOver(held[t], Bridges) + overcounted[t]
    BY DEF UncoveredBounded
  <2> DEFINE m == SumOver(bridged[t], Bridges)
             h == SumOver(held[t], Bridges)
             e == SumOver(Excess(t, held, calls), Depth)
             o == overcounted[t]
  <2>1. m \in Nat /\ h \in Nat /\ e \in Nat /\ o \in Nat
    BY ExcessTyped, SumType, BridgeAssumption DEF HooksInv, BridgeInv, BridgeTypeOK
  <2>2. m + e <= h + o
    BY DEF HooksInv, CoveredWithExcess
  <2> HIDE DEF m, h, e, o
  <2>3. m <= h + o
    BY <2>1, <2>2
  <2> QED
    BY <2>3 DEF m, h, o
<1> QED
  BY <1>1, HooksInitInv, HooksNextInv, PTL DEF HooksSpec
=============================================================================
