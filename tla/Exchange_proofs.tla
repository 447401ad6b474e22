--------------------------- MODULE Exchange_proofs ---------------------------
(***************************************************************************)
(* Proofs about Exchange.tla, for any finite set of tokens, any clients    *)
(* and amounts.  EInv is the conjunction of the invariants of the runs and *)
(* is inductive as it stands: the counter is needed to know that a swap    *)
(* that ends leaves no position behind, which is what keeps the pools      *)
(* backed from one swap to the next.  SInv adds what a swap in progress    *)
(* keeps of its beginning, for the theorem about the swap as a whole.      *)
(***************************************************************************)
EXTENDS ExchangeSwaps, Ledger_proofs

USE ExchangeAssumption

EInv == ExchangeTypeOK /\ CounterNeverOvercounts /\ CounterExact /\ PoolsBacked

Open(positions) == {t \in Tokens : positions[t] # 0}

SavedType == [Tokens -> [initiated : BOOLEAN, balance : Nat]]
StateType == [hasBegun : BOOLEAN, unsettledTokens : Nat,
              positions : [Tokens -> Int], savedBalances : SavedType]

(* How many positions are open after one of them is written.               *)
LEMMA OpenWrite ==
  ASSUME NEW p \in [Tokens -> Int], NEW q \in [Tokens -> Int], NEW t \in Tokens,
         SameBut(p, q, t, Tokens)
  PROVE  /\ Cardinality(Open(p)) \in Nat /\ Cardinality(Open(q)) \in Nat
         /\ p[t] = 0 /\ q[t] # 0 => Cardinality(Open(q)) = Cardinality(Open(p)) + 1
         /\ p[t] # 0 /\ q[t] = 0 => Cardinality(Open(q)) = Cardinality(Open(p)) - 1
         /\ (p[t] = 0 <=> q[t] = 0) => Cardinality(Open(q)) = Cardinality(Open(p))
<1>1. \A r : IsFiniteSet(Open(r)) /\ Cardinality(Open(r)) \in Nat
  BY FS_Subset, FS_CardinalityType DEF Open
<1>2. ASSUME p[t] = 0, q[t] # 0
      PROVE  Cardinality(Open(q)) = Cardinality(Open(p)) + 1
  <2>1. Open(q) = Open(p) \cup {t} /\ t \notin Open(p)
    BY <1>2 DEF Open, SameBut
  <2> QED
    BY <1>1, <2>1, FS_AddElement
<1>3. ASSUME p[t] # 0, q[t] = 0
      PROVE  Cardinality(Open(q)) = Cardinality(Open(p)) - 1
  <2>1. Open(q) = Open(p) \ {t} /\ t \in Open(p)
    BY <1>3 DEF Open, SameBut
  <2> QED
    BY <1>1, <2>1, FS_RemoveElement
<1>4. ASSUME p[t] = 0 <=> q[t] = 0
      PROVE  Cardinality(Open(q)) = Cardinality(Open(p))
  <2>1. Open(q) = Open(p)
    BY <1>4 DEF Open, SameBut
  <2> QED
    BY <2>1
<1> QED
  BY <1>1, <1>2, <1>3, <1>4

(* What updatePosition does to a swap state: the position and nothing else *)
(* of the state changes, the counter stays below the number of open        *)
(* positions, and stays exact unless a zero position is moved by zero.     *)
LEMMA UpdatePositionFacts ==
  ASSUME NEW s \in StateType, NEW token \in Tokens, NEW amount \in Int,
         NEW u, u = UpdatePosition(s, token, amount), u.unsettledTokens >= 0
  PROVE  /\ u \in StateType
         /\ u.hasBegun = s.hasBegun /\ u.savedBalances = s.savedBalances
         /\ u.positions[token] = s.positions[token] + amount
         /\ SameBut(s.positions, u.positions, token, Tokens)
         /\ s.unsettledTokens <= Cardinality(Open(s.positions)) =>
              u.unsettledTokens <= Cardinality(Open(u.positions))
         /\ s.unsettledTokens = Cardinality(Open(s.positions))
            /\ ~(amount = 0 /\ s.positions[token] = 0) =>
              u.unsettledTokens = Cardinality(Open(u.positions))
<1> DEFINE new == s.positions[token] + amount
<1>1. s.positions \in [Tokens -> Int] /\ s.unsettledTokens \in Nat /\ s.positions[token] \in Int
  BY DEF StateType
<1>2. /\ u.hasBegun = s.hasBegun /\ u.savedBalances = s.savedBalances
      /\ u.positions = [s.positions EXCEPT ![token] = new]
      /\ u.unsettledTokens = IF new = 0 THEN s.unsettledTokens - 1
                             ELSE IF s.positions[token] = 0 THEN s.unsettledTokens + 1
                             ELSE s.unsettledTokens
  BY DEF UpdatePosition, StateType
<1>3. /\ u.positions \in [Tokens -> Int] /\ u.positions[token] = new
      /\ SameBut(s.positions, u.positions, token, Tokens)
  BY <1>1, <1>2 DEF SameBut
<1>4. u.unsettledTokens \in Nat
  BY <1>1, <1>2
<1>5. u = [hasBegun |-> u.hasBegun, unsettledTokens |-> u.unsettledTokens,
           positions |-> u.positions, savedBalances |-> u.savedBalances]
  BY DEF UpdatePosition, StateType
<1>6. u \in StateType
  BY <1>2, <1>3, <1>4, <1>5 DEF StateType
<1> DEFINE p == s.positions
           q == u.positions
           m == s.unsettledTokens
           n == u.unsettledTokens
<1>7. /\ p \in [Tokens -> Int] /\ q \in [Tokens -> Int] /\ SameBut(p, q, token, Tokens)
      /\ m \in Nat /\ n \in Nat /\ p[token] \in Int /\ q[token] = p[token] + amount
      /\ n = IF q[token] = 0 THEN m - 1 ELSE IF p[token] = 0 THEN m + 1 ELSE m
  BY <1>1, <1>2, <1>3, <1>4
<1> HIDE DEF p, q, m, n
<1>8. /\ Cardinality(Open(p)) \in Nat /\ Cardinality(Open(q)) \in Nat
      /\ p[token] = 0 /\ q[token] # 0 => Cardinality(Open(q)) = Cardinality(Open(p)) + 1
      /\ p[token] # 0 /\ q[token] = 0 => Cardinality(Open(q)) = Cardinality(Open(p)) - 1
      /\ (p[token] = 0 <=> q[token] = 0) => Cardinality(Open(q)) = Cardinality(Open(p))
  BY <1>7, OpenWrite
<1> DEFINE cp == Cardinality(Open(p))
           cq == Cardinality(Open(q))
<1> HIDE DEF cp, cq
<1>9. /\ m <= cp => n <= cq
      /\ m = cp /\ ~(amount = 0 /\ p[token] = 0) => n = cq
  BY <1>7, <1>8 DEF cp, cq
<1> QED
  BY <1>2, <1>3, <1>6, <1>9 DEF p, q, m, n, cp, cq

-----------------------------------------------------------------------------
(* PoolsBacked, one token at a time, and with n to spare.                  *)
TokenBacked(t) ==
  /\ bal[t][ExchangeAddr] >= Owed(t)
  /\ Measuring(t) => swapState.savedBalances[t].balance >= Owed(t)

Spared(t, n) ==
  /\ bal[t][ExchangeAddr] - Owed(t) >= n
  /\ Measuring(t) => swapState.savedBalances[t].balance - Owed(t) >= n

(* What a call within a swap does for every token and every n: what an     *)
(* orderly client finds to spare is there when the call returns.           *)
SpareKept == orderly' => \A t \in Tokens, n \in Int : Spared(t, n) => Spared(t, n)'

LEMMA PoolsBackedByToken == PoolsBacked <=> (orderly => \A t \in Tokens : TokenBacked(t))
BY DEF PoolsBacked, TokenBacked

LEMMA TypedNumbers ==
  ASSUME ExchangeTypeOK
  PROVE  /\ swapState \in StateType
         /\ OpenPositions = Open(swapState.positions)
         /\ \A t \in Tokens :
              /\ bal[t] \in [Accounts -> Nat] /\ bal[t][ExchangeAddr] \in Nat
              /\ reserves[t] \in [Tokens -> Nat]
              /\ swapState.positions[t] \in Int
              /\ SumOver(reserves[t], Tokens) \in Nat
              /\ Owed(t) \in Int
              /\ swapState.savedBalances[t] \in [initiated : BOOLEAN, balance : Nat]
<1>1. /\ swapState \in StateType
      /\ \A t \in Tokens :
              /\ bal[t] \in [Accounts -> Nat] /\ bal[t][ExchangeAddr] \in Nat
              /\ reserves[t] \in [Tokens -> Nat]
              /\ swapState.positions[t] \in Int
              /\ swapState.savedBalances[t] \in [initiated : BOOLEAN, balance : Nat]
  BY DEF ExchangeTypeOK, StateType, SavedType
<1>2. OpenPositions = Open(swapState.positions)
  BY DEF OpenPositions, Open
<1>3. \A t \in Tokens : SumOver(reserves[t], Tokens) \in Nat
  BY <1>1, SumType
<1> QED
  BY <1>1, <1>2, <1>3 DEF Owed

LEMMA NothingSpared ==
  ASSUME ExchangeTypeOK, NEW t \in Tokens
  PROVE  TokenBacked(t) <=> Spared(t, 0)
<1>1. /\ bal[t][ExchangeAddr] \in Nat /\ Owed(t) \in Int
      /\ swapState.savedBalances[t].balance \in Nat
  BY TypedNumbers
<1> QED
  BY <1>1 DEF TokenBacked, Spared

(* A call that keeps what is to spare keeps the pools backed.              *)
LEMMA SpareKeptBacks ==
  ASSUME EInv, ExchangeTypeOK', orderly' => orderly, SpareKept
  PROVE  PoolsBacked'
<1>1. ASSUME orderly', NEW t \in Tokens
      PROVE  TokenBacked(t)'
  <2>1. Spared(t, 0)
    BY <1>1, NothingSpared, PoolsBackedByToken DEF EInv
  <2>2. Spared(t, 0)'
    BY <1>1, <2>1 DEF SpareKept
  <2>3. TokenBacked(t)' <=> Spared(t, 0)'
    BY NothingSpared, PTL
  <2> QED
    BY <2>2, <2>3
<1> QED
  BY <1>1 DEF PoolsBacked, TokenBacked

LEMMA ExchangeInitInv == Init => EInv
<1> SUFFICES ASSUME Init PROVE EInv
  OBVIOUS
<1>1. ExchangeTypeOK
  BY DEF Init, ExchangeInit, ExchangeTypeOK, FreshState, NotSaved
<1>2. swapState.unsettledTokens = 0 /\ OpenPositions = {} /\ Cardinality(OpenPositions) = 0
  BY FS_EmptySet DEF Init, ExchangeInit, FreshState, OpenPositions
<1>3. CounterNeverOvercounts /\ CounterExact
  BY <1>2 DEF CounterNeverOvercounts, CounterExact
<1>4. ASSUME NEW t \in Tokens
      PROVE  TokenBacked(t)
  <2>1. /\ reserves[t] \in [Tokens -> Int] /\ \A o \in Tokens : reserves[t][o] = 0
        /\ swapState.positions[t] = 0 /\ ~Measuring(t)
    BY DEF Init, ExchangeInit, FreshState, NotSaved, Measuring
  <2>2. SumOver(reserves[t], Tokens) = 0
    BY <2>1, SumZero
  <2> QED
    BY <1>1, <2>1, <2>2, TypedNumbers DEF TokenBacked, Owed
<1> QED
  BY <1>1, <1>3, <1>4, PoolsBackedByToken DEF EInv

(* A step that touches neither the positions nor the counter.              *)
LEMMA CounterUntouched ==
  ASSUME EInv, swapState'.positions = swapState.positions,
         swapState'.unsettledTokens = swapState.unsettledTokens, orderly' => orderly
  PROVE  CounterNeverOvercounts' /\ CounterExact'
BY DEF EInv, CounterNeverOvercounts, CounterExact, OpenPositions

LEMMA AddTokenStep ==
  ASSUME EInv, NEW token \in Tokens, AddToken(token)
  PROVE  EInv' /\ SpareKept
<1>1. UNCHANGED <<bal, reserves, swapState, orderly>>
  BY DEF AddToken
<1>2. SpareKept
  BY <1>1 DEF SpareKept, Spared, Owed, Measuring
<1>3. ExchangeTypeOK'
  BY DEF AddToken, ExchangeTypeOK, EInv
<1> QED
  BY <1>1, <1>2, <1>3 DEF EInv, CounterNeverOvercounts, CounterExact, OpenPositions, PoolsBacked,
                    Owed, Measuring

LEMMA SwapBeginStep ==
  ASSUME EInv, SwapBegin
  PROVE  EInv'
<1>0. ExchangeTypeOK /\ UNCHANGED <<bal, allowedTokens, reserves, orderly>>
  BY DEF EInv, SwapBegin
<1>1. /\ swapState'.positions = swapState.positions
      /\ swapState'.unsettledTokens = swapState.unsettledTokens
      /\ swapState'.savedBalances = swapState.savedBalances
      /\ swapState' \in StateType
  BY <1>0, TypedNumbers DEF SwapBegin, StateType
<1>2. ExchangeTypeOK'
  BY <1>0, <1>1 DEF ExchangeTypeOK, StateType, SavedType
<1> QED
  BY <1>0, <1>1, <1>2, CounterUntouched DEF EInv, PoolsBacked, Owed, Measuring

(* The end of a swap forgets its positions; an orderly client has none.    *)
LEMMA SwapEndStep ==
  ASSUME EInv, SwapEnd
  PROVE  EInv'
<1>0. /\ ExchangeTypeOK /\ UNCHANGED <<bal, allowedTokens, reserves, orderly>>
      /\ swapState' = FreshState /\ swapState.unsettledTokens = 0
  BY DEF EInv, SwapEnd
<1>1. ExchangeTypeOK'
  BY <1>0 DEF ExchangeTypeOK, FreshState, NotSaved
<1>2. swapState'.unsettledTokens = 0 /\ OpenPositions' = {} /\ Cardinality(OpenPositions') = 0
  BY <1>0, FS_EmptySet DEF FreshState, OpenPositions
<1>3. CounterNeverOvercounts' /\ CounterExact'
  BY <1>2 DEF CounterNeverOvercounts, CounterExact
<1>4. orderly => \A t \in Tokens : swapState.positions[t] = 0
  <2> SUFFICES ASSUME orderly PROVE OpenPositions = {}
    BY DEF OpenPositions
  <2>1. Cardinality(OpenPositions) = 0 /\ IsFiniteSet(OpenPositions)
    BY <1>0, FS_Subset DEF EInv, CounterExact, OpenPositions
  <2> QED
    BY <2>1, FS_EmptySet
<1>5. ASSUME orderly', NEW t \in Tokens
      PROVE  TokenBacked(t)'
  <2>1. Owed(t)' = Owed(t) /\ ~Measuring(t)'
    BY <1>0, <1>4, <1>5 DEF Owed, FreshState, NotSaved, Measuring
  <2> QED
    BY <1>0, <1>5, <2>1, PoolsBackedByToken DEF EInv, TokenBacked
<1>6. PoolsBacked'
  BY <1>5 DEF PoolsBacked, TokenBacked
<1> QED
  BY <1>1, <1>3, <1>6 DEF EInv

LEMMA TransferStep ==
  ASSUME EInv, NEW token \in Tokens, Transfer(token)
  PROVE  EInv' /\ SpareKept
<1>0. ExchangeTypeOK /\ UNCHANGED <<allowedTokens, reserves, swapState, orderly>>
      /\ Clients \subseteq Accounts /\ ExchangeAddr \in Accounts \ Clients
  BY DEF EInv, Transfer, Clients
<1>1. PICK l \in LedgerSteps(bal[token], Clients) : bal' = [bal EXCEPT ![token] = l]
  BY DEF Transfer
<1>2. l \in [Accounts -> Nat] /\ l[ExchangeAddr] >= bal[token][ExchangeAddr]
  BY <1>0, LedgerStepsFacts, TypedNumbers
<1>3. /\ bal' \in [Tokens -> [Accounts -> Nat]]
      /\ \A t \in Tokens : bal'[t][ExchangeAddr] >= bal[t][ExchangeAddr]
  BY <1>0, <1>1, <1>2, TypedNumbers DEF ExchangeTypeOK
<1>4. ExchangeTypeOK'
  BY <1>0, <1>3 DEF ExchangeTypeOK
<1>5. ASSUME NEW t \in Tokens, NEW n \in Int, Spared(t, n)
      PROVE  Spared(t, n)'
  <2>1. Owed(t)' = Owed(t) /\ Measuring(t)' = Measuring(t)
    BY <1>0 DEF Owed, Measuring
  <2>2. bal'[t][ExchangeAddr] \in Nat /\ bal[t][ExchangeAddr] \in Nat /\ Owed(t) \in Int
    BY <1>0, <1>3, TypedNumbers
  <2> QED
    BY <1>0, <1>3, <1>5, <2>1, <2>2 DEF Spared
<1>6. SpareKept
  BY <1>5 DEF SpareKept
<1> QED
  BY <1>0, <1>4, <1>6, CounterUntouched, SpareKeptBacks DEF EInv

LEMMA InitiateTransferStep ==
  ASSUME EInv, NEW token \in Tokens, InitiateTransfer(token)
  PROVE  EInv' /\ SpareKept
<1> DEFINE mark == [initiated |-> TRUE, balance |-> bal[token][ExchangeAddr]]
<1>0. ExchangeTypeOK /\ UNCHANGED <<bal, allowedTokens, reserves, orderly>>
  BY DEF EInv, InitiateTransfer
<1>1. mark \in [initiated : BOOLEAN, balance : Nat]
  BY <1>0, TypedNumbers
<1>2. swapState' = [swapState EXCEPT !.savedBalances = [@ EXCEPT ![token] = mark]]
  BY DEF InitiateTransfer
<1>3. mark.balance = bal[token][ExchangeAddr]
  OBVIOUS
<1> HIDE DEF mark
<1>4. /\ swapState'.positions = swapState.positions
      /\ swapState'.unsettledTokens = swapState.unsettledTokens
      /\ swapState'.savedBalances = [swapState.savedBalances EXCEPT ![token] = mark]
      /\ swapState'.savedBalances \in SavedType
      /\ swapState' \in StateType
  BY <1>0, <1>1, <1>2, TypedNumbers DEF StateType, SavedType
<1>5. ExchangeTypeOK'
  BY <1>0, <1>4 DEF ExchangeTypeOK, StateType, SavedType
<1>6. ASSUME orderly', NEW t \in Tokens, NEW n \in Int, Spared(t, n)
      PROVE  Spared(t, n)'
  <2>1. Owed(t)' = Owed(t) /\ bal' = bal
    BY <1>0, <1>4, <1>6, TypedNumbers DEF Owed
  <2>2. CASE t = token
    <3>1. swapState'.savedBalances[t].balance = bal[t][ExchangeAddr]
      BY <1>3, <1>4, <2>2 DEF SavedType
    <3> QED
      BY <1>6, <2>1, <3>1 DEF Spared
  <2>3. CASE t # token
    <3>1. swapState'.savedBalances[t] = swapState.savedBalances[t]
      BY <1>4, <2>3 DEF SavedType
    <3> QED
      BY <1>6, <2>1, <3>1 DEF Spared, Measuring
  <2> QED
    BY <2>2, <2>3
<1>7. SpareKept
  BY <1>6 DEF SpareKept
<1> QED
  BY <1>0, <1>4, <1>5, <1>7, CounterUntouched, SpareKeptBacks DEF EInv

(* What the two counter invariants need of a step that moves positions.    *)
LEMMA CounterMoved ==
  ASSUME EInv, swapState' \in StateType,
         swapState.unsettledTokens <= Cardinality(Open(swapState.positions)) =>
           swapState'.unsettledTokens <= Cardinality(Open(swapState'.positions)),
         orderly' => orderly /\
           (swapState.unsettledTokens = Cardinality(Open(swapState.positions)) =>
              swapState'.unsettledTokens = Cardinality(Open(swapState'.positions)))
  PROVE  CounterNeverOvercounts' /\ CounterExact'
<1>1. OpenPositions = Open(swapState.positions) /\ OpenPositions' = Open(swapState'.positions)
  BY DEF OpenPositions, Open
<1> QED
  BY <1>1 DEF EInv, CounterNeverOvercounts, CounterExact

(* An orderly move is converted exactly.                                   *)
LEMMA ConversionFacts ==
  ASSUME NEW token \in Tokens, NEW v \in Nat
  PROVE  /\ ToInt256(v) \in Int /\ -ToInt256(v) \in Int
         /\ OrderlyMove(token, v) =>
              /\ ToInt256(v) = v /\ -ToInt256(v) = -v
              /\ ~(ToInt256(v) = 0 /\ swapState.positions[token] = 0)
              /\ ~(-ToInt256(v) = 0 /\ swapState.positions[token] = 0)
<1>1. ToInt256(v) \in Int /\ (v <= MaxInt => ToInt256(v) = v)
  BY DEF ToInt256, MaxUint
<1>2. -ToInt256(v) \in Int /\ (-ToInt256(v) = 0 => ToInt256(v) = 0)
  BY <1>1
<1> QED
  BY <1>1, <1>2 DEF OrderlyMove

LEMMA WithdrawStep ==
  ASSUME EInv, NEW c \in Clients, NEW token \in Tokens, NEW amount \in Nat,
         Withdraw(c, token, amount)
  PROVE  EInv' /\ SpareKept
<1>0. /\ ExchangeTypeOK /\ UNCHANGED <<allowedTokens, reserves>>
      /\ c \in Accounts /\ c # ExchangeAddr /\ ExchangeAddr \in Accounts
      /\ CanPay(bal[token], ExchangeAddr, amount)
      /\ bal' = [bal EXCEPT ![token] = Moved(bal[token], ExchangeAddr, c, amount)]
  BY DEF EInv, Withdraw, Clients
<1> DEFINE moved == -ToInt256(amount)
<1>1. /\ swapState' = UpdatePosition(swapState, token, moved)
      /\ swapState'.unsettledTokens >= 0
  BY DEF Withdraw, InRange
<1>2. /\ moved \in Int
      /\ orderly' => /\ orderly /\ moved = -amount
                     /\ ~(moved = 0 /\ swapState.positions[token] = 0)
  <2>1. orderly' => orderly /\ OrderlyMove(token, amount)
    BY DEF Withdraw, Orderly
  <2> QED
    BY <2>1, ConversionFacts
<1> HIDE DEF moved
<1>3. /\ swapState' \in StateType /\ swapState'.savedBalances = swapState.savedBalances
      /\ swapState'.positions[token] = swapState.positions[token] + moved
      /\ SameBut(swapState.positions, swapState'.positions, token, Tokens)
      /\ swapState.unsettledTokens <= Cardinality(Open(swapState.positions)) =>
           swapState'.unsettledTokens <= Cardinality(Open(swapState'.positions))
      /\ swapState.unsettledTokens = Cardinality(Open(swapState.positions))
         /\ ~(moved = 0 /\ swapState.positions[token] = 0) =>
           swapState'.unsettledTokens = Cardinality(Open(swapState'.positions))
  BY <1>0, <1>1, <1>2, TypedNumbers, UpdatePositionFacts
<1>4. CounterNeverOvercounts' /\ CounterExact'
  BY <1>2, <1>3, CounterMoved
<1>5. LET l == Moved(bal[token], ExchangeAddr, c, amount)
      IN  l \in [Accounts -> Nat] /\ l[ExchangeAddr] = bal[token][ExchangeAddr] - amount
  BY <1>0, MovedFacts, TypedNumbers
<1>6. /\ bal' \in [Tokens -> [Accounts -> Nat]]
      /\ bal'[token][ExchangeAddr] = bal[token][ExchangeAddr] - amount
      /\ \A t \in Tokens : t # token => bal'[t] = bal[t]
  BY <1>0, <1>5 DEF ExchangeTypeOK
<1>7. ExchangeTypeOK'
  BY <1>0, <1>3, <1>6 DEF ExchangeTypeOK, StateType, SavedType, Withdraw, Orderly
<1>8. ASSUME orderly', NEW t \in Tokens, NEW n \in Int, Spared(t, n)
      PROVE  Spared(t, n)'
  <2>1. /\ Measuring(t)' = Measuring(t)
        /\ reserves' = reserves /\ swapState'.savedBalances[t] = swapState.savedBalances[t]
    BY <1>0, <1>2, <1>3, <1>8, TypedNumbers DEF Measuring
  <2>2. /\ bal[t][ExchangeAddr] \in Nat /\ Owed(t) \in Int /\ swapState.positions[t] \in Int
        /\ SumOver(reserves[t], Tokens) \in Nat /\ swapState.savedBalances[t].balance \in Nat
    BY <1>0, TypedNumbers
  <2>3. CASE t = token
    <3>1. Owed(t)' = Owed(t) - amount
      BY <1>2, <1>3, <1>8, <2>1, <2>2, <2>3 DEF Owed
    <3> QED
      BY <1>6, <1>8, <2>1, <2>2, <2>3, <3>1 DEF Spared
  <2>4. CASE t # token
    <3>1. Owed(t)' = Owed(t)
      BY <1>3, <2>1, <2>4 DEF Owed, SameBut
    <3> QED
      BY <1>6, <1>8, <2>1, <2>4, <3>1 DEF Spared
  <2> QED
    BY <2>3, <2>4
<1>9. SpareKept
  BY <1>8 DEF SpareKept
<1> QED
  BY <1>2, <1>4, <1>7, <1>9, SpareKeptBacks DEF EInv

LEMMA FinalizeTransferStep ==
  ASSUME EInv, NEW token \in Tokens, FinalizeTransfer(token)
  PROVE  EInv' /\ SpareKept
<1> DEFINE saved == swapState.savedBalances[token]
           amount == bal[token][ExchangeAddr] - saved.balance
           done == [saved EXCEPT !.initiated = FALSE]
           closed == [swapState EXCEPT !.savedBalances = [@ EXCEPT ![token] = done]]
           moved == ToInt256(amount)
<1>0. /\ ExchangeTypeOK /\ UNCHANGED <<bal, allowedTokens, reserves>> /\ Measuring(token)
      /\ swapState \in StateType /\ saved \in [initiated : BOOLEAN, balance : Nat]
      /\ bal[token][ExchangeAddr] \in Nat
  BY TypedNumbers DEF EInv, FinalizeTransfer
<1>1. /\ swapState' = UpdatePosition(closed, token, moved)
      /\ swapState'.unsettledTokens >= 0
  BY DEF FinalizeTransfer, InRange
<1>2. /\ moved \in Int
      /\ orderly' => /\ orderly /\ moved = amount
                     /\ ~(moved = 0 /\ swapState.positions[token] = 0)
  <2>1. orderly' => orderly /\ OrderlyMove(token, amount)
    BY DEF FinalizeTransfer, Orderly
  <2>2. amount >= 0 /\ amount \in Nat
    BY <1>0 DEF FinalizeTransfer
  <2> HIDE DEF amount
  <2> QED
    BY <2>1, <2>2, ConversionFacts
<1>3. done \in [initiated : BOOLEAN, balance : Nat] /\ ~done.initiated
  BY <1>0
<1>4. amount \in Int /\ amount + saved.balance = bal[token][ExchangeAddr]
      /\ saved.balance \in Nat
  BY <1>0
<1> HIDE DEF done, amount, moved
<1>5. /\ closed \in StateType /\ closed.positions = swapState.positions
      /\ closed.unsettledTokens = swapState.unsettledTokens
      /\ closed.savedBalances \in SavedType /\ closed.savedBalances[token] = done
      /\ \A t \in Tokens : t # token => closed.savedBalances[t] = swapState.savedBalances[t]
  BY <1>0, <1>3 DEF StateType, SavedType
<1> HIDE DEF closed
<1>6. /\ swapState' \in StateType /\ swapState'.savedBalances = closed.savedBalances
      /\ swapState'.positions[token] = swapState.positions[token] + moved
      /\ SameBut(swapState.positions, swapState'.positions, token, Tokens)
      /\ swapState.unsettledTokens <= Cardinality(Open(swapState.positions)) =>
           swapState'.unsettledTokens <= Cardinality(Open(swapState'.positions))
      /\ swapState.unsettledTokens = Cardinality(Open(swapState.positions))
         /\ ~(moved = 0 /\ swapState.positions[token] = 0) =>
           swapState'.unsettledTokens = Cardinality(Open(swapState'.positions))
  BY <1>1, <1>2, <1>4, <1>5, UpdatePositionFacts
<1>7. CounterNeverOvercounts' /\ CounterExact'
  BY <1>2, <1>6, CounterMoved
<1>8. ExchangeTypeOK'
  BY <1>0, <1>6 DEF ExchangeTypeOK, StateType, SavedType, FinalizeTransfer, Orderly
<1>9. ASSUME orderly', NEW t \in Tokens, NEW n \in Int, Spared(t, n)
      PROVE  Spared(t, n)'
  <2>1. reserves' = reserves /\ bal' = bal
    BY <1>0, <1>2, <1>9
  <2>2. /\ bal[t][ExchangeAddr] \in Nat /\ Owed(t) \in Int /\ swapState.positions[t] \in Int
        /\ SumOver(reserves[t], Tokens) \in Nat
    BY <1>0, TypedNumbers
  <2>3. CASE t = token
    <3>1. Owed(t)' = Owed(t) + amount
      BY <1>2, <1>9, <1>4, <1>6, <2>1, <2>2, <2>3 DEF Owed
    <3>2. saved.balance - Owed(t) >= n
      BY <1>0, <1>9, <2>3 DEF Spared
    <3>3. ~Measuring(t)'
      BY <1>3, <1>5, <1>6, <2>3 DEF Measuring
    <3> QED
      BY <1>4, <1>9, <2>1, <2>2, <2>3, <3>1, <3>2, <3>3 DEF Spared
  <2>4. CASE t # token
    <3>1. /\ Owed(t)' = Owed(t)
          /\ swapState'.savedBalances[t] = swapState.savedBalances[t]
      BY <1>5, <1>6, <2>1, <2>4 DEF Owed, SameBut
    <3> QED
      BY <1>9, <2>1, <2>4, <3>1 DEF Spared, Measuring
  <2> QED
    BY <2>3, <2>4
<1>10. SpareKept
  BY <1>9 DEF SpareKept
<1> QED
  BY <1>2, <1>7, <1>8, <1>10, SpareKeptBacks DEF EInv

(* One write of setReserves.                                               *)
WrittenIn(q, r, t, o, v) ==
  /\ q \in [Tokens -> [Tokens -> Nat]] /\ q[t][o] = v
  /\ \A a \in Tokens : a # t => q[a] = r[a]
  /\ \A b \in Tokens : b # o => q[t][b] = r[t][b]

LEMMA WrittenOnce ==
  ASSUME NEW r \in [Tokens -> [Tokens -> Nat]], NEW t \in Tokens, NEW o \in Tokens,
         NEW v \in Nat
  PROVE  WrittenIn(WithReserves(r, t, o, v), r, t, o, v)
BY DEF WithReserves, WrittenIn

(* The two writes of setReserves: two entries of two rows.                 *)
PoolWritten(r, t, o, v, w) ==
  /\ r \in [Tokens -> [Tokens -> Nat]]
  /\ r[t][o] = v /\ r[o][t] = w
  /\ SumOver(r[t], Tokens) = SumOver(reserves[t], Tokens) - reserves[t][o] + v
  /\ SumOver(r[o], Tokens) = SumOver(reserves[o], Tokens) - reserves[o][t] + w
  /\ \A a \in Tokens : a # t /\ a # o => r[a] = reserves[a]
  /\ \A a, b \in Tokens : <<a, b>> # <<t, o>> /\ <<a, b>> # <<o, t>>
       => r[a][b] = reserves[a][b]

LEMMA ReservesWritten ==
  ASSUME ExchangeTypeOK, NEW t \in Tokens, NEW o \in Tokens, t # o,
         NEW v \in Nat, NEW w \in Nat
  PROVE  PoolWritten(WithReserves(WithReserves(reserves, t, o, v), o, t, w), t, o, v, w)
<1> DEFINE q == WithReserves(reserves, t, o, v)
           r == WithReserves(q, o, t, w)
<1>0. reserves \in [Tokens -> [Tokens -> Nat]]
  BY DEF ExchangeTypeOK
<1>1. WrittenIn(q, reserves, t, o, v)
  BY <1>0, WrittenOnce
<1> HIDE DEF q
<1>2. q \in [Tokens -> [Tokens -> Nat]]
  BY <1>1 DEF WrittenIn
<1>3. WrittenIn(r, q, o, t, w)
  BY <1>2, WrittenOnce
<1> HIDE DEF r
<1>4. /\ r[t] \in [Tokens -> Nat] /\ r[o] \in [Tokens -> Nat]
      /\ reserves[t] \in [Tokens -> Nat] /\ reserves[o] \in [Tokens -> Nat]
      /\ SameBut(reserves[t], r[t], o, Tokens) /\ SameBut(reserves[o], r[o], t, Tokens)
  BY <1>0, <1>1, <1>3 DEF SameBut, WrittenIn
<1>5. SumOver(r[t], Tokens) = SumOver(reserves[t], Tokens) - reserves[t][o] + r[t][o]
  BY <1>4, PointWrite
<1>6. SumOver(r[o], Tokens) = SumOver(reserves[o], Tokens) - reserves[o][t] + r[o][t]
  BY <1>4, PointWrite
<1>7. \A a, b \in Tokens : <<a, b>> # <<t, o>> /\ <<a, b>> # <<o, t>>
              => r[a][b] = reserves[a][b]
  BY <1>0, <1>1, <1>3 DEF WrittenIn
<1> QED
  <2>1. r \in [Tokens -> [Tokens -> Nat]] /\ r[t][o] = v /\ r[o][t] = w
        /\ \A a \in Tokens : a # t /\ a # o => r[a] = reserves[a]
    BY <1>0, <1>1, <1>3 DEF WrittenIn
  <2> QED
    BY <2>1, <1>5, <1>6, <1>7 DEF q, r, PoolWritten

LEMMA AddLiquidityStep ==
  ASSUME EInv, NEW c \in Clients, NEW left \in Tokens, NEW right \in Tokens,
         NEW amountLeft \in Nat, NEW amountRight \in Nat,
         AddLiquidity(c, left, right, amountLeft, amountRight)
  PROVE  EInv' /\ SpareKept
<1> DEFINE v == reserves[left][right] + amountLeft
           w == reserves[right][left] + amountRight
           l0 == Moved(bal[left], c, ExchangeAddr, amountLeft)
           l1 == Moved(bal[right], c, ExchangeAddr, amountRight)
<1>0. /\ ExchangeTypeOK /\ UNCHANGED <<allowedTokens, swapState>> /\ left # right
      /\ c \in Accounts /\ c # ExchangeAddr /\ ExchangeAddr \in Accounts
      /\ CanPay(bal[left], c, amountLeft) /\ CanPay(bal[right], c, amountRight)
  BY DEF EInv, AddLiquidity, Clients
<1>1. /\ bal' = [bal EXCEPT ![left] = l0, ![right] = l1]
      /\ reserves' = WithReserves(WithReserves(reserves, left, right, v), right, left, w)
  BY <1>0 DEF AddLiquidity
<1>2. orderly' => orderly /\ ~Measuring(left) /\ ~Measuring(right)
  BY DEF AddLiquidity, Orderly
<1>3. v \in Nat /\ w \in Nat /\ reserves[left][right] \in Nat /\ reserves[right][left] \in Nat
      /\ v - reserves[left][right] = amountLeft /\ w - reserves[right][left] = amountRight
  BY <1>0 DEF ExchangeTypeOK
<1>4. l0 \in [Accounts -> Nat] /\ l0[ExchangeAddr] = bal[left][ExchangeAddr] + amountLeft
  <2> DEFINE b == bal[left]
  <2>1. b \in [Accounts -> Nat] /\ CanPay(b, c, amountLeft)
    BY <1>0, TypedNumbers
  <2> HIDE DEF b
  <2>2. LET l == Moved(b, c, ExchangeAddr, amountLeft)
        IN  l \in [Accounts -> Nat] /\ l[ExchangeAddr] = b[ExchangeAddr] + amountLeft
    BY <1>0, <2>1, MovedFacts
  <2> QED
    BY <2>2 DEF b
<1>5. l1 \in [Accounts -> Nat] /\ l1[ExchangeAddr] = bal[right][ExchangeAddr] + amountRight
  <2> DEFINE b == bal[right]
  <2>1. b \in [Accounts -> Nat] /\ CanPay(b, c, amountRight)
    BY <1>0, TypedNumbers
  <2> HIDE DEF b
  <2>2. LET l == Moved(b, c, ExchangeAddr, amountRight)
        IN  l \in [Accounts -> Nat] /\ l[ExchangeAddr] = b[ExchangeAddr] + amountRight
    BY <1>0, <2>1, MovedFacts
  <2> QED
    BY <2>2 DEF b
<1> HIDE DEF v, w, l0, l1
<1>6. /\ bal' \in [Tokens -> [Accounts -> Nat]] /\ bal'[left] = l0 /\ bal'[right] = l1
      /\ \A t \in Tokens : t # left /\ t # right => bal'[t] = bal[t]
  BY <1>0, <1>1, <1>4, <1>5 DEF ExchangeTypeOK
<1>7. /\ reserves' \in [Tokens -> [Tokens -> Nat]]
      /\ SumOver(reserves'[left], Tokens)
           = SumOver(reserves[left], Tokens) - reserves[left][right] + v
      /\ SumOver(reserves'[right], Tokens)
           = SumOver(reserves[right], Tokens) - reserves[right][left] + w
      /\ \A a \in Tokens : a # left /\ a # right => reserves'[a] = reserves[a]
  <2>1. PoolWritten(reserves', left, right, v, w)
    BY <1>0, <1>1, <1>3, ReservesWritten
  <2> QED
    BY <2>1 DEF PoolWritten
<1>8. ExchangeTypeOK'
  BY <1>0, <1>6, <1>7 DEF ExchangeTypeOK, AddLiquidity, Orderly
<1>9. ASSUME orderly', NEW t \in Tokens, NEW n \in Int, Spared(t, n)
      PROVE  Spared(t, n)'
  <2>1. swapState' = swapState /\ Measuring(t)' = Measuring(t)
    BY <1>0, <1>2, <1>9, TypedNumbers DEF Measuring
  <2>2. /\ bal[t][ExchangeAddr] \in Nat /\ Owed(t) \in Int /\ swapState.positions[t] \in Int
        /\ SumOver(reserves[t], Tokens) \in Nat
    BY <1>0, TypedNumbers
  <2>3. CASE t = left
    <3>1. Owed(t)' = Owed(t) + amountLeft
      BY <1>3, <1>7, <2>1, <2>2, <2>3 DEF Owed
    <3> QED
      BY <1>2, <1>4, <1>6, <1>9, <2>1, <2>2, <2>3, <3>1 DEF Spared
  <2>4. CASE t = right
    <3>1. Owed(t)' = Owed(t) + amountRight
      <4>1. SumOver(reserves'[t], Tokens) = SumOver(reserves[t], Tokens) - reserves[right][left] + w
        BY <1>7, <2>4
      <4> QED
        BY <1>3, <2>1, <2>2, <4>1 DEF Owed
    <3> QED
      BY <1>2, <1>5, <1>6, <1>9, <2>1, <2>2, <2>4, <3>1 DEF Spared
  <2>5. CASE t # left /\ t # right
    <3>1. Owed(t)' = Owed(t) /\ bal'[t] = bal[t]
      BY <1>6, <1>7, <2>1, <2>5 DEF Owed
    <3> QED
      BY <1>9, <2>1, <3>1 DEF Spared
  <2> QED
    BY <2>3, <2>4, <2>5
<1>10. SpareKept
  BY <1>9 DEF SpareKept
<1> QED
  BY <1>0, <1>2, <1>8, <1>10, CounterUntouched, SpareKeptBacks DEF EInv

(* What one move of a position does, as a relation of the two swap states. *)
PositionMoved(s, u, token, amount) ==
  /\ u \in StateType
  /\ u.hasBegun = s.hasBegun /\ u.savedBalances = s.savedBalances
  /\ u.positions[token] = s.positions[token] + amount
  /\ SameBut(s.positions, u.positions, token, Tokens)
  /\ s.unsettledTokens <= Cardinality(Open(s.positions)) =>
       u.unsettledTokens <= Cardinality(Open(u.positions))
  /\ s.unsettledTokens = Cardinality(Open(s.positions))
     /\ ~(amount = 0 /\ s.positions[token] = 0) =>
       u.unsettledTokens = Cardinality(Open(u.positions))

LEMMA UpdatePositionMoves ==
  ASSUME NEW s \in StateType, NEW token \in Tokens, NEW amount \in Int,
         UpdatePosition(s, token, amount).unsettledTokens >= 0
  PROVE  PositionMoved(s, UpdatePosition(s, token, amount), token, amount)
<1> DEFINE u == UpdatePosition(s, token, amount)
<1>1. u.unsettledTokens >= 0 /\ u = UpdatePosition(s, token, amount)
  OBVIOUS
<1> HIDE DEF u
<1>2. PositionMoved(s, u, token, amount)
  BY <1>1, UpdatePositionFacts DEF PositionMoved
<1> QED
  BY <1>1, <1>2

LEMMA SwapTokensStep ==
  ASSUME EInv, NEW tokenIn \in Tokens, NEW tokenOut \in Tokens,
         NEW amountIn \in Nat, NEW amountOut \in Nat,
         SwapTokens(tokenIn, tokenOut, amountIn, amountOut)
  PROVE  EInv' /\ SpareKept
<1> DEFINE v == reserves[tokenIn][tokenOut] + amountIn
           w == reserves[tokenOut][tokenIn] - amountOut
           paid == -ToInt256(amountIn)
           bought == ToInt256(amountOut)
           s1 == UpdatePosition(swapState, tokenIn, paid)
<1>0. /\ ExchangeTypeOK /\ swapState \in StateType /\ UNCHANGED <<bal, allowedTokens>>
      /\ tokenIn # tokenOut
  BY TypedNumbers DEF EInv, SwapTokens
<1>1. /\ reserves' = WithReserves(WithReserves(reserves, tokenIn, tokenOut, v),
                                  tokenOut, tokenIn, w)
      /\ w >= 0 /\ s1.unsettledTokens >= 0 /\ swapState'.unsettledTokens >= 0
      /\ swapState' = UpdatePosition(s1, tokenOut, bought)
  BY DEF SwapTokens, InRange
<1>2. /\ paid \in Int /\ bought \in Int
      /\ orderly' => /\ orderly /\ paid = -amountIn /\ bought = amountOut
                     /\ ~(paid = 0 /\ swapState.positions[tokenIn] = 0)
                     /\ ~(bought = 0 /\ swapState.positions[tokenOut] = 0)
  <2>1. orderly' => orderly /\ OrderlyMove(tokenIn, amountIn) /\ OrderlyMove(tokenOut, amountOut)
    BY DEF SwapTokens, Orderly
  <2> QED
    BY <2>1, ConversionFacts
<1>3. /\ v \in Nat /\ w \in Nat
      /\ v - reserves[tokenIn][tokenOut] = amountIn
      /\ w - reserves[tokenOut][tokenIn] = -amountOut
  BY <1>0, <1>1 DEF ExchangeTypeOK
<1>4. PositionMoved(swapState, s1, tokenIn, paid)
  <2>1. s1.unsettledTokens >= 0 /\ paid \in Int
    BY <1>1, <1>2
  <2> HIDE DEF paid
  <2> QED
    BY <1>0, <2>1, UpdatePositionMoves
<1> HIDE DEF v, w, s1, paid, bought
<1>5. PositionMoved(s1, swapState', tokenOut, bought)
  <2>1. s1 \in StateType
    BY <1>4 DEF PositionMoved
  <2> QED
    BY <1>1, <1>2, <2>1, UpdatePositionMoves
<1>6. s1.positions[tokenOut] = swapState.positions[tokenOut]
  BY <1>0, <1>4 DEF PositionMoved, SameBut
<1>7. /\ swapState' \in StateType /\ swapState'.savedBalances = swapState.savedBalances
      /\ swapState'.positions[tokenIn] = swapState.positions[tokenIn] + paid
      /\ swapState'.positions[tokenOut] = swapState.positions[tokenOut] + bought
      /\ \A t \in Tokens \ {tokenIn, tokenOut} :
           swapState'.positions[t] = swapState.positions[t]
  BY <1>0, <1>4, <1>5, <1>6 DEF PositionMoved, SameBut
<1>8. CounterNeverOvercounts' /\ CounterExact'
  BY <1>2, <1>4, <1>5, <1>6, CounterMoved DEF PositionMoved
<1>9. PoolWritten(reserves', tokenIn, tokenOut, v, w)
  BY <1>0, <1>1, <1>3, ReservesWritten
<1>10. /\ reserves' \in [Tokens -> [Tokens -> Nat]]
       /\ SumOver(reserves'[tokenIn], Tokens)
            = SumOver(reserves[tokenIn], Tokens) - reserves[tokenIn][tokenOut] + v
       /\ SumOver(reserves'[tokenOut], Tokens)
            = SumOver(reserves[tokenOut], Tokens) - reserves[tokenOut][tokenIn] + w
       /\ \A a \in Tokens : a # tokenIn /\ a # tokenOut => reserves'[a] = reserves[a]
       /\ reserves[tokenIn][tokenOut] \in Nat /\ reserves[tokenOut][tokenIn] \in Nat
  BY <1>0, <1>9 DEF PoolWritten, ExchangeTypeOK
<1>11. ExchangeTypeOK'
  BY <1>0, <1>7, <1>10 DEF ExchangeTypeOK, StateType, SavedType, SwapTokens, Orderly
<1>12. ASSUME orderly', NEW t \in Tokens
       PROVE  Owed(t)' = Owed(t)
  <2>2. swapState.positions[t] \in Int /\ SumOver(reserves[t], Tokens) \in Nat
    BY <1>0, TypedNumbers
  <2>3. CASE t = tokenIn
    <3>1. swapState'.positions[t] = swapState.positions[t] + paid
      BY <1>7, <2>3
    <3>2. SumOver(reserves'[t], Tokens) = SumOver(reserves[t], Tokens) - reserves[t][tokenOut] + v
      BY <1>10, <2>3
    <3>3. v \in Nat /\ reserves[t][tokenOut] \in Nat /\ v - reserves[t][tokenOut] = amountIn
      BY <1>3, <1>10, <2>3
    <3>4. paid = -amountIn
      BY <1>2, <1>12
    <3> DEFINE old == SumOver(reserves[t], Tokens)
               held == reserves[t][tokenOut]
    <3>5. old \in Nat /\ held \in Nat /\ swapState.positions[t] \in Int
      BY <2>2, <3>3
    <3>6. Owed(t)' = (old - held + v) + (swapState.positions[t] + paid)
      BY <3>1, <3>2 DEF Owed
    <3>7. v - held = amountIn
      BY <3>3
    <3>8. Owed(t) = old + swapState.positions[t]
      BY DEF Owed
    <3> HIDE DEF old, held
    <3> QED
      BY <3>3, <3>4, <3>5, <3>6, <3>7, <3>8
  <2>4. CASE t = tokenOut
    <3>1. swapState'.positions[t] = swapState.positions[t] + bought
      BY <1>7, <2>4
    <3>2. SumOver(reserves'[t], Tokens) = SumOver(reserves[t], Tokens) - reserves[t][tokenIn] + w
      BY <1>10, <2>4
    <3>3. w \in Nat /\ reserves[t][tokenIn] \in Nat /\ w - reserves[t][tokenIn] = -amountOut
      BY <1>3, <1>10, <2>4
    <3>4. bought = amountOut
      BY <1>2, <1>12
    <3> DEFINE old == SumOver(reserves[t], Tokens)
               held == reserves[t][tokenIn]
    <3>5. old \in Nat /\ held \in Nat /\ swapState.positions[t] \in Int
      BY <2>2, <3>3
    <3>6. Owed(t)' = (old - held + w) + (swapState.positions[t] + bought)
      BY <3>1, <3>2 DEF Owed
    <3>7. w - held = -amountOut
      BY <3>3
    <3>8. Owed(t) = old + swapState.positions[t]
      BY DEF Owed
    <3> HIDE DEF old, held
    <3> QED
      BY <3>3, <3>4, <3>5, <3>6, <3>7, <3>8
  <2>5. CASE t # tokenIn /\ t # tokenOut
    BY <1>7, <1>10, <2>5 DEF Owed
  <2> QED
    BY <2>3, <2>4, <2>5
<1>13. ASSUME orderly', NEW t \in Tokens, NEW n \in Int, Spared(t, n)
       PROVE  Spared(t, n)'
  <2>1. bal' = bal /\ swapState'.savedBalances = swapState.savedBalances
    BY <1>0, <1>2, <1>7, <1>13
  <2> QED
    BY <1>12, <1>13, <2>1 DEF Spared, Measuring
<1>14. SpareKept
  BY <1>13 DEF SpareKept
<1> QED
  BY <1>2, <1>8, <1>11, <1>14, SpareKeptBacks DEF EInv

-----------------------------------------------------------------------------
LEMMA CallStep == EInv /\ Call => EInv' /\ SpareKept
<1> SUFFICES ASSUME EInv, Call PROVE EInv' /\ SpareKept
  OBVIOUS
<1>0. \A v \in Amounts : v \in Nat
  BY DEF ExchangeAssumption
<1>1. ASSUME NEW t \in Tokens,
             AddToken(t) \/ InitiateTransfer(t) \/ FinalizeTransfer(t) \/ Transfer(t)
      PROVE  EInv' /\ SpareKept
  BY <1>1, AddTokenStep, InitiateTransferStep, FinalizeTransferStep, TransferStep
<1>2. ASSUME NEW c \in Clients, NEW t \in Tokens, NEW v \in Amounts, Withdraw(c, t, v)
      PROVE  EInv' /\ SpareKept
  BY <1>0, <1>2, WithdrawStep
<1>3. ASSUME NEW t \in Tokens, NEW o \in Tokens, NEW v \in Amounts, NEW w \in Amounts,
             SwapTokens(t, o, v, w)
      PROVE  EInv' /\ SpareKept
  BY <1>0, <1>3, SwapTokensStep
<1>4. ASSUME NEW t \in Tokens, NEW o \in Tokens, NEW v \in Amounts, NEW w \in Amounts,
             NEW c \in Clients, AddLiquidity(c, t, o, v, w)
      PROVE  EInv' /\ SpareKept
  BY <1>0, <1>4, AddLiquidityStep
<1> QED
  BY <1>1, <1>2, <1>3, <1>4 DEF Call

LEMMA ExchangeNextInv == EInv /\ [Next]_exchangeVars => EInv'
<1> SUFFICES ASSUME EInv, [Next]_exchangeVars PROVE EInv'
  OBVIOUS
<1>1. CASE Next
  BY <1>1, CallStep, SwapBeginStep, SwapEndStep DEF Next
<1>2. CASE UNCHANGED exchangeVars
  BY <1>2 DEF exchangeVars, EInv, ExchangeTypeOK, CounterNeverOvercounts, CounterExact,
              OpenPositions, PoolsBacked, Owed, Measuring
<1> QED
  BY <1>1, <1>2

LEMMA ExchangeInvariant == Spec => []EInv
<1> QED
  BY ExchangeInitInv, ExchangeNextInv, PTL DEF Spec

(* Every swap state, pool and ledger keeps its type: no reserve and no     *)
(* counter goes below zero, whatever the client calls inside its callback. *)
THEOREM ExchangeTyped == Spec => []ExchangeTypeOK
<1>1. EInv => ExchangeTypeOK
  BY DEF EInv
<1> QED
  BY <1>1, ExchangeInvariant, PTL

(* A swap is never stuck on "not settled" with all its positions settled.  *)
THEOREM CounterBounded == Spec => []CounterNeverOvercounts
<1>1. EInv => CounterNeverOvercounts
  BY DEF EInv
<1> QED
  BY <1>1, ExchangeInvariant, PTL

(* The counter of unsettled tokens is never above the number of open        *)
(* positions, and for orderly clients it is that number.                   *)
THEOREM CounterCountsOpenPositions == Spec => []CounterCounts
<1>1. EInv => CounterCounts
  BY DEF EInv, CounterCounts
<1> QED
  BY <1>1, ExchangeInvariant, PTL

(* With orderly clients the tokens of every pool are there, throughout the *)
(* callback of every swap.                                                 *)
THEOREM ExchangeSolvent == Spec => []PoolsBacked
<1>1. EInv => PoolsBacked
  BY DEF EInv
<1> QED
  BY <1>1, ExchangeInvariant, PTL

(* The mark of a swap in progress is set and cleared by swap() alone.      *)
LEMMA CallKeepsMark ==
  ASSUME EInv, Call
  PROVE  swapState'.hasBegun = swapState.hasBegun
<1>0. swapState \in StateType
  BY TypedNumbers DEF EInv
<1>1. \A s, token, amount : UpdatePosition(s, token, amount).hasBegun = s.hasBegun
  BY DEF UpdatePosition
<1>2. ASSUME NEW t \in Tokens,
             AddToken(t) \/ InitiateTransfer(t) \/ FinalizeTransfer(t) \/ Transfer(t)
      PROVE  swapState'.hasBegun = swapState.hasBegun
  <2>1. CASE AddToken(t) \/ Transfer(t)
    BY <2>1 DEF AddToken, Transfer
  <2>2. CASE InitiateTransfer(t)
    BY <1>0, <2>2 DEF InitiateTransfer, StateType
  <2>3. CASE FinalizeTransfer(t)
    BY <1>0, <1>1, <2>3 DEF FinalizeTransfer, StateType
  <2> QED
    BY <1>2, <2>1, <2>2, <2>3
<1>3. ASSUME NEW c \in Clients, NEW t \in Tokens, NEW v \in Amounts, Withdraw(c, t, v)
      PROVE  swapState'.hasBegun = swapState.hasBegun
  BY <1>1, <1>3 DEF Withdraw
<1>4. ASSUME NEW t \in Tokens, NEW o \in Tokens, NEW v \in Amounts, NEW w \in Amounts,
             \/ SwapTokens(t, o, v, w)
             \/ \E c \in Clients : AddLiquidity(c, t, o, v, w)
      PROVE  swapState'.hasBegun = swapState.hasBegun
  <2>1. CASE SwapTokens(t, o, v, w)
    BY <1>1, <2>1 DEF SwapTokens
  <2>2. CASE \E c \in Clients : AddLiquidity(c, t, o, v, w)
    BY <2>2 DEF AddLiquidity
  <2> QED
    BY <1>4, <2>1, <2>2
<1> QED
  BY <1>2, <1>3, <1>4 DEF Call

(* No call makes a client orderly again.                                   *)
LEMMA CallOrderly ==
  ASSUME Call, orderly'
  PROVE  orderly
<1>1. ASSUME NEW t \in Tokens,
             AddToken(t) \/ InitiateTransfer(t) \/ FinalizeTransfer(t) \/ Transfer(t)
      PROVE  orderly
  BY <1>1 DEF AddToken, InitiateTransfer, FinalizeTransfer, Transfer, Orderly
<1>2. ASSUME NEW c \in Clients, NEW t \in Tokens, NEW v \in Amounts, Withdraw(c, t, v)
      PROVE  orderly
  BY <1>2 DEF Withdraw, Orderly
<1>3. ASSUME NEW t \in Tokens, NEW o \in Tokens, NEW v \in Amounts, NEW w \in Amounts,
             \/ SwapTokens(t, o, v, w)
             \/ \E c \in Clients : AddLiquidity(c, t, o, v, w)
      PROVE  orderly
  BY <1>3 DEF SwapTokens, AddLiquidity, Orderly
<1> QED
  BY <1>1, <1>2, <1>3 DEF Call

(* Between swaps no position is open and no transfer is being measured.    *)
BetweenSwaps ==
  ~swapState.hasBegun => \A t \in Tokens : swapState.positions[t] = 0 /\ ~Measuring(t)

(* Between swaps no call moves a position or marks a balance.              *)
LEMMA IdleBetweenSwaps ==
  ASSUME EInv, Call, BetweenSwaps
  PROVE  BetweenSwaps'
<1>1. ASSUME NEW t \in Tokens,
             AddToken(t) \/ InitiateTransfer(t) \/ FinalizeTransfer(t) \/ Transfer(t)
      PROVE  swapState.hasBegun \/ swapState' = swapState
  BY <1>1 DEF AddToken, InitiateTransfer, FinalizeTransfer, Transfer, DuringSwap
<1>2. ASSUME NEW c \in Clients, NEW t \in Tokens, NEW v \in Amounts, Withdraw(c, t, v)
      PROVE  swapState.hasBegun
  BY <1>2 DEF Withdraw, DuringSwap
<1>3. ASSUME NEW t \in Tokens, NEW o \in Tokens, NEW v \in Amounts, NEW w \in Amounts,
             \/ SwapTokens(t, o, v, w)
             \/ \E c \in Clients : AddLiquidity(c, t, o, v, w)
      PROVE  swapState.hasBegun \/ swapState' = swapState
  BY <1>3 DEF SwapTokens, AddLiquidity, DuringSwap
<1>4. swapState.hasBegun \/ swapState' = swapState
  BY <1>1, <1>2, <1>3 DEF Call
<1> QED
  BY <1>4, CallKeepsMark DEF BetweenSwaps, Measuring

(* An orderly client has settled everything when its swap ends.            *)
LEMMA SettledAtEnd ==
  ASSUME EInv, SwapEnd, orderly
  PROVE  OpenPositions = {}
<1>1. swapState.unsettledTokens = 0
  BY DEF SwapEnd
<1>2. Cardinality(OpenPositions) = 0 /\ IsFiniteSet(OpenPositions)
  BY <1>1, FS_Subset DEF EInv, CounterExact, OpenPositions
<1> QED
  BY <1>2, FS_EmptySet

(* Where the settlement check of swap() is right: of a client that has been *)
(* orderly so far, a swap that ends leaves no position open, as the        *)
(* assertion of line 139 says of every client.                             *)
THEOREM OrderlySwapsSettle ==
  Spec => [][orderly /\ swapState.hasBegun /\ ~swapState'.hasBegun
               => OpenPositions = {}]_exchangeVars
<1>1. ASSUME EInv, [Next]_exchangeVars, orderly, swapState.hasBegun, ~swapState'.hasBegun
      PROVE  OpenPositions = {}
  <2>1. swapState' # swapState /\ ~Call
    BY <1>1, CallKeepsMark
  <2>2. SwapEnd
    BY <1>1, <2>1 DEF exchangeVars, Next, SwapBegin
  <2> QED
    BY <1>1, <2>2, SettledAtEnd
<1> QED
  BY <1>1, ExchangeInvariant, PTL DEF Spec

-----------------------------------------------------------------------------
LEMMA ProductGrows ==
  ASSUME NEW a \in Nat, NEW b \in Nat, NEW x \in Nat, NEW y \in Nat
  PROVE  (a + x) * (b + y) >= a * b
<1>1. (a + x) * (b + y) = a * b + a * y + x * b + x * y
  OBVIOUS
<1>2. a * b \in Nat /\ a * y \in Nat /\ x * b \in Nat /\ x * y \in Nat
  OBVIOUS
<1> QED
  BY <1>1, <1>2

(* How a pool may change from x and y to u and v: its product does not     *)
(* fall, and as long as there is none, neither reserve does.               *)
PoolKept(x, y, u, v) == u * v >= x * y /\ (u * v > 0 \/ (u >= x /\ v >= y))
PoolsKept(r, q) ==
  \A t, o \in Tokens : t # o => PoolKept(r[t][o], r[o][t], q[t][o], q[o][t])

LEMMA PoolKeptTwice ==
  ASSUME NEW a \in Nat, NEW b \in Nat, NEW x \in Nat, NEW y \in Nat,
         NEW u \in Nat, NEW v \in Nat, PoolKept(a, b, x, y), PoolKept(x, y, u, v)
  PROVE  PoolKept(a, b, u, v)
<1> DEFINE p == a * b
           q == x * y
           r == u * v
<1>1. /\ p \in Nat /\ q \in Nat /\ r \in Nat /\ q >= p /\ r >= q
      /\ q > 0 \/ (x >= a /\ y >= b)
      /\ r > 0 \/ (u >= x /\ v >= y)
  BY DEF PoolKept
<1> HIDE DEF p, q, r
<1>2. r >= p /\ (r > 0 \/ (u >= a /\ v >= b))
  BY <1>1
<1> QED
  BY <1>2 DEF PoolKept, p, r

(* What such a pool has less of in one token it has more of in the other.  *)
LEMMA PoolPaid ==
  ASSUME NEW x \in Nat, NEW y \in Nat, NEW u \in Nat, NEW v \in Nat,
         PoolKept(x, y, u, v), u < x
  PROVE  v > y
<1> SUFFICES ASSUME v <= y PROVE FALSE
  OBVIOUS
<1>1. u * v > 0 /\ u * v >= x * y
  BY DEF PoolKept
<1>2. v > 0 /\ y > 0
  BY <1>1
<1>3. u * v <= u * y
  BY ProductOrder
<1>4. PICK k \in Nat : x = u + k /\ k > 0
  <2>1. x - u \in Nat /\ x - u > 0 /\ x = u + (x - u)
    OBVIOUS
  <2> QED
    BY <2>1
<1>5. x * y = u * y + k * y
  BY <1>4
<1>6. k * y > 0 /\ u * y \in Nat /\ u * v \in Nat /\ k * y \in Nat /\ x * y \in Nat
  BY <1>2, <1>4
<1> QED
  BY <1>1, <1>3, <1>5, <1>6

LEMMA PoolUnchanged ==
  ASSUME NEW x \in Nat, NEW y \in Nat
  PROVE  PoolKept(x, y, x, y)
BY DEF PoolKept

(* Two reserves are written together, and that pool is kept.               *)
LEMMA PoolWrittenKeepsPools ==
  ASSUME ExchangeTypeOK, NEW t \in Tokens, NEW o \in Tokens, NEW v \in Nat, NEW w \in Nat,
         PoolWritten(reserves', t, o, v, w), PoolKept(reserves[t][o], reserves[o][t], v, w)
  PROVE  PoolsKept(reserves, reserves')
<1> SUFFICES ASSUME NEW a \in Tokens, NEW b \in Tokens, a # b
             PROVE  PoolKept(reserves[a][b], reserves[b][a], reserves'[a][b], reserves'[b][a])
  BY DEF PoolsKept
<1>0. \A x, y \in Tokens : reserves[x][y] \in Nat
  BY DEF ExchangeTypeOK
<1>1. CASE a = t /\ b = o
  BY <1>1 DEF PoolWritten
<1>2. CASE a = o /\ b = t
  <2>1. PoolKept(reserves[o][t], reserves[t][o], w, v)
    <3> DEFINE x == reserves[t][o]
               y == reserves[o][t]
    <3>1. x \in Nat /\ y \in Nat /\ PoolKept(x, y, v, w)
      BY <1>0
    <3> HIDE DEF x, y
    <3>2. x * y = y * x /\ v * w = w * v
      BY <3>1
    <3>3. PoolKept(y, x, w, v)
      BY <3>1, <3>2 DEF PoolKept
    <3> QED
      BY <3>3 DEF x, y
  <2> QED
    BY <1>2, <2>1 DEF PoolWritten
<1>3. CASE ~(a = t /\ b = o) /\ ~(a = o /\ b = t)
  <2>1. reserves'[a][b] = reserves[a][b] /\ reserves'[b][a] = reserves[b][a]
    BY <1>3 DEF PoolWritten
  <2> QED
    BY <1>0, <2>1, PoolUnchanged
<1> QED
  BY <1>1, <1>2, <1>3

LEMMA CallKeepsPools == EInv /\ Call => PoolsKept(reserves, reserves')
<1> SUFFICES ASSUME EInv, Call PROVE PoolsKept(reserves, reserves')
  OBVIOUS
<1>0. /\ ExchangeTypeOK /\ \A v \in Amounts : v \in Nat
      /\ \A t, o \in Tokens : reserves[t][o] \in Nat
  BY DEF ExchangeAssumption, EInv, ExchangeTypeOK
<1>1. ASSUME reserves' = reserves
      PROVE  PoolsKept(reserves, reserves')
  BY <1>0, <1>1, PoolUnchanged DEF PoolsKept
<1>2. ASSUME NEW t \in Tokens, NEW o \in Tokens, NEW x \in Amounts, NEW y \in Amounts,
             SwapTokens(t, o, x, y)
      PROVE  PoolsKept(reserves, reserves')
  <2> DEFINE v == reserves[t][o] + x
             w == reserves[o][t] - y
  <2>1. /\ reserves' = WithReserves(WithReserves(reserves, t, o, v), o, t, w)
        /\ w >= 0 /\ t # o
        /\ GetLiquidity(reserves, t, o) \in 1..MaxUint
        /\ GetLiquidity(reserves', t, o)
             \in GetLiquidity(reserves, t, o)..MaxUint
    BY <1>2 DEF SwapTokens, KeepsLiquidity
  <2>2. v \in Nat /\ w \in Nat
    <3>1. x \in Nat /\ y \in Nat /\ reserves[t][o] \in Nat /\ reserves[o][t] \in Nat
      BY <1>0
    <3>2. v \in Nat /\ w \in Int
      BY <3>1
    <3> QED
      BY <2>1, <3>2
  <2> HIDE DEF v, w
  <2>3. PoolWritten(reserves', t, o, v, w)
    BY <1>0, <2>1, <2>2, ReservesWritten
  <2>4. GetLiquidity(reserves', t, o) = v * w
    BY <2>3 DEF PoolWritten, GetLiquidity
  <2>5. /\ v * w \in GetLiquidity(reserves, t, o)..MaxUint
        /\ GetLiquidity(reserves, t, o) \in 1..MaxUint
    BY <2>1, <2>4
  <2>6. v * w \in Int /\ reserves[t][o] * reserves[o][t] \in Int
    BY <1>0, <2>2
  <2>7. v * w >= reserves[t][o] * reserves[o][t] /\ v * w > 0
    BY <2>5, <2>6 DEF GetLiquidity
  <2> QED
    BY <1>0, <2>2, <2>3, <2>7, PoolWrittenKeepsPools DEF PoolKept
<1>3. ASSUME NEW t \in Tokens, NEW o \in Tokens, NEW x \in Amounts, NEW y \in Amounts,
             NEW c \in Clients, AddLiquidity(c, t, o, x, y)
      PROVE  PoolsKept(reserves, reserves')
  <2> DEFINE v == reserves[t][o] + x
             w == reserves[o][t] + y
  <2>1. /\ reserves' = WithReserves(WithReserves(reserves, t, o, v), o, t, w)
        /\ t # o
    BY <1>3 DEF AddLiquidity
  <2>2. /\ v \in Nat /\ w \in Nat
        /\ v >= reserves[t][o] /\ w >= reserves[o][t]
        /\ v * w >= reserves[t][o] * reserves[o][t]
    <3> DEFINE a == reserves[t][o]
               b == reserves[o][t]
    <3>1. a \in Nat /\ b \in Nat /\ x \in Nat /\ y \in Nat
      BY <1>0
    <3> HIDE DEF a, b
    <3>2. (a + x) * (b + y) >= a * b
      BY <3>1, ProductGrows
    <3>3. a + x \in Nat /\ b + y \in Nat /\ a + x >= a /\ b + y >= b
      BY <3>1
    <3> QED
      BY <3>2, <3>3 DEF a, b
  <2> HIDE DEF v, w
  <2>3. PoolWritten(reserves', t, o, v, w)
    BY <1>0, <2>1, <2>2, ReservesWritten
  <2> QED
    BY <1>0, <2>2, <2>3, PoolWrittenKeepsPools DEF PoolKept
<1>4. ASSUME NEW t \in Tokens,
             AddToken(t) \/ InitiateTransfer(t) \/ FinalizeTransfer(t) \/ Transfer(t)
      PROVE  reserves' = reserves
  BY <1>4 DEF AddToken, InitiateTransfer, FinalizeTransfer, Transfer
<1>5. ASSUME NEW c \in Clients, NEW t \in Tokens, NEW v \in Amounts, Withdraw(c, t, v)
      PROVE  reserves' = reserves
  BY <1>5 DEF Withdraw
<1> QED
  BY <1>1, <1>2, <1>3, <1>4, <1>5 DEF Call

-----------------------------------------------------------------------------
(* Swaps are paid for.  The exchange notes nothing of what a client owes   *)
(* in all, so the proof follows what it can spare: its balance less what   *)
(* it owes falls by no call of an orderly client, at the end of the swap   *)
(* nothing but the reserves is owed, and no pool has less of one token     *)
(* without more of the other.                                              *)
BegunTypeOK ==
  /\ begun \in [held : [Tokens -> Nat], reserves : [Tokens -> [Tokens -> Nat]]]

Spare(t) == begun.held[t] - SumOver(begun.reserves[t], Tokens)

SinceBegun ==
  swapState.hasBegun =>
    /\ PoolsKept(begun.reserves, reserves)
    /\ orderly => \A t \in Tokens : Spared(t, Spare(t))

SInv == EInv /\ BegunTypeOK /\ BetweenSwaps /\ SinceBegun

LEMMA SpareType ==
  ASSUME BegunTypeOK, NEW t \in Tokens
  PROVE  Spare(t) \in Int
<1>1. begun.reserves[t] \in [Tokens -> Nat] /\ begun.held[t] \in Nat
  BY DEF BegunTypeOK
<1>2. SumOver(begun.reserves[t], Tokens) \in Nat
  BY <1>1, SumType
<1> QED
  BY <1>1, <1>2 DEF Spare

LEMMA SwapsInitInv == SwapsInit => SInv
<1> SUFFICES ASSUME SwapsInit PROVE SInv
  OBVIOUS
<1>1. EInv
  BY ExchangeInitInv DEF SwapsInit
<1>2. BegunTypeOK
  BY DEF SwapsInit, NotBegun, NoReserves, BegunTypeOK
<1>3. BetweenSwaps /\ SinceBegun
  BY DEF SwapsInit, Init, ExchangeInit, FreshState, NotSaved, BetweenSwaps, SinceBegun, Measuring
<1> QED
  BY <1>1, <1>2, <1>3 DEF SInv

LEMMA NotedSwapBeginStep ==
  ASSUME SInv, NotedSwapBegin
  PROVE  SInv'
<1>0. /\ EInv /\ ExchangeTypeOK /\ SwapBegin /\ ~swapState.hasBegun
      /\ UNCHANGED <<bal, reserves, orderly>>
      /\ swapState' = [swapState EXCEPT !.hasBegun = TRUE]
  BY DEF SInv, EInv, NotedSwapBegin, SwapBegin
<1>1. EInv'
  BY <1>0, SwapBeginStep
<1>2. begun'.held = [t \in Tokens |-> Held(t)] /\ begun'.reserves = reserves /\ BegunTypeOK'
  <2>1. /\ begun' = [held |-> [t \in Tokens |-> Held(t)], reserves |-> reserves]
        /\ [t \in Tokens |-> Held(t)] \in [Tokens -> Nat]
        /\ reserves \in [Tokens -> [Tokens -> Nat]]
    BY <1>0, TypedNumbers DEF NotedSwapBegin, Held, ExchangeTypeOK
  <2> QED
    BY <2>1 DEF BegunTypeOK
<1>3. /\ swapState'.hasBegun /\ swapState'.positions = swapState.positions
      /\ swapState'.savedBalances = swapState.savedBalances
  BY <1>0, TypedNumbers DEF StateType
<1>4. BetweenSwaps'
  BY <1>3 DEF BetweenSwaps
<1>5. PoolsKept(begun'.reserves, reserves')
  BY <1>0, <1>2, PoolUnchanged DEF PoolsKept, ExchangeTypeOK
<1>6. ASSUME NEW t \in Tokens
      PROVE  Spared(t, Spare(t))'
  <2>1. swapState.positions[t] = 0 /\ ~Measuring(t)
    BY <1>0 DEF SInv, BetweenSwaps
  <2>2. ~Measuring(t)' /\ Owed(t)' = SumOver(reserves[t], Tokens)
    <3>1. SumOver(reserves[t], Tokens) \in Nat
      BY <1>0, TypedNumbers
    <3> QED
      BY <1>0, <1>3, <2>1, <3>1 DEF Measuring, Owed
  <2>3. Spare(t)' = bal[t][ExchangeAddr] - SumOver(reserves[t], Tokens)
    BY <1>2 DEF Spare, Held
  <2>4. bal[t][ExchangeAddr] - SumOver(reserves[t], Tokens) \in Int
    BY <1>0, TypedNumbers
  <2> QED
    BY <1>0, <2>2, <2>3, <2>4 DEF Spared
<1>7. SinceBegun'
  BY <1>5, <1>6 DEF SinceBegun
<1> QED
  BY <1>1, <1>2, <1>4, <1>7 DEF SInv

LEMMA NotedSwapEndStep ==
  ASSUME SInv, NotedSwapEnd
  PROVE  SInv'
<1>1. EInv'
  BY SwapEndStep DEF SInv, NotedSwapEnd
<1>2. BegunTypeOK'
  BY DEF NotedSwapEnd, NotBegun, NoReserves, BegunTypeOK
<1>3. BetweenSwaps' /\ SinceBegun'
  BY DEF NotedSwapEnd, SwapEnd, FreshState, NotSaved, BetweenSwaps, SinceBegun, Measuring
<1> QED
  BY <1>1, <1>2, <1>3 DEF SInv

LEMMA NotedCallStep ==
  ASSUME SInv, NotedCall
  PROVE  SInv'
<1>0. /\ EInv /\ ExchangeTypeOK /\ Call /\ begun' = begun /\ BegunTypeOK
      /\ EInv' /\ SpareKept /\ ExchangeTypeOK'
      /\ swapState'.hasBegun = swapState.hasBegun
      /\ PoolsKept(reserves, reserves')
  BY CallStep, CallKeepsMark, CallKeepsPools DEF SInv, EInv, NotedCall
<1>1. BegunTypeOK'
  BY <1>0 DEF BegunTypeOK
<1>2. BetweenSwaps'
  BY <1>0, IdleBetweenSwaps DEF SInv
<1>3. ASSUME swapState'.hasBegun
      PROVE  PoolsKept(begun.reserves, reserves')
  <2>1. PoolsKept(begun.reserves, reserves)
    BY <1>0, <1>3 DEF SInv, SinceBegun
  <2>2. \A t, o \in Tokens : /\ begun.reserves[t][o] \in Nat
                             /\ reserves[t][o] \in Nat /\ reserves'[t][o] \in Nat
    BY <1>0 DEF BegunTypeOK, ExchangeTypeOK
  <2> QED
    BY <1>0, <2>1, <2>2, PoolKeptTwice DEF PoolsKept
<1>4. ASSUME swapState'.hasBegun, orderly', NEW t \in Tokens
      PROVE  Spared(t, Spare(t))'
  <2>1. orderly
    BY <1>0, <1>4, CallOrderly
  <2>2. Spared(t, Spare(t)) /\ Spare(t) \in Int /\ Spare(t)' = Spare(t)
    BY <1>0, <1>4, <2>1, SpareType DEF SInv, SinceBegun, Spare
  <2> DEFINE n == Spare(t)
  <2> HIDE DEF n
  <2> QED
    BY <1>0, <1>4, <2>2 DEF SpareKept
<1>5. SinceBegun'
  BY <1>0, <1>3, <1>4 DEF SinceBegun
<1> QED
  BY <1>0, <1>1, <1>2, <1>5 DEF SInv

LEMMA SwapsNextInv == SInv /\ [SwapsNext]_swapsVars => SInv'
<1> SUFFICES ASSUME SInv, [SwapsNext]_swapsVars PROVE SInv'
  OBVIOUS
<1>1. CASE SwapsNext
  BY <1>1, NotedSwapBeginStep, NotedSwapEndStep, NotedCallStep DEF SwapsNext
<1>2. CASE UNCHANGED swapsVars
  <2>1. UNCHANGED <<exchangeVars, begun>>
    BY <1>2 DEF swapsVars
  <2>2. EInv'
    BY <2>1, ExchangeNextInv DEF SInv
  <2> QED
    BY <2>1, <2>2 DEF exchangeVars, SInv, BegunTypeOK, BetweenSwaps, SinceBegun, Spared, Spare,
                      Owed, Measuring
<1> QED
  BY <1>1, <1>2

(* At the end of an orderly client's swap in one pool.                     *)
LEMMA PaidAtEnd ==
  ASSUME SInv, SwapEnd, orderly, NEW t \in Tokens, NEW o \in Tokens, t # o,
         OnlyPool(t, o), Gone(t) > 0
  PROVE  Gone(o) < 0
<1>0. /\ EInv /\ ExchangeTypeOK /\ BegunTypeOK /\ swapState.hasBegun
      /\ OpenPositions = {} /\ PoolsKept(begun.reserves, reserves)
      /\ \A a \in Tokens : Spared(a, Spare(a))
  BY SettledAtEnd DEF SInv, EInv, SinceBegun, SwapEnd
<1>1. ASSUME NEW a \in Tokens, NEW b \in Tokens, a # b, {a, b} = {t, o}
      PROVE  /\ Gone(a) \in Int /\ reserves[a][b] \in Nat /\ begun.reserves[a][b] \in Nat
             /\ Gone(a) <= begun.reserves[a][b] - reserves[a][b]
  <2> DEFINE r == reserves[a]
             s == begun.reserves[a]
  <2>1. /\ r \in [Tokens -> Nat] /\ s \in [Tokens -> Nat] /\ r[b] \in Nat /\ s[b] \in Nat
        /\ begun.held[a] \in Nat /\ bal[a][ExchangeAddr] \in Nat
        /\ SumOver(r, Tokens) \in Nat
    BY <1>0, TypedNumbers DEF BegunTypeOK
  <2>2. SameBut(s, r, b, Tokens)
    BY <1>1 DEF SameBut, OnlyPool
  <2>3. Owed(a) = SumOver(r, Tokens)
    <3>1. swapState.positions[a] = 0
      BY <1>0 DEF OpenPositions
    <3> QED
      BY <2>1, <3>1 DEF Owed
  <2>4. bal[a][ExchangeAddr] - Owed(a) >= begun.held[a] - SumOver(s, Tokens)
    BY <1>0 DEF Spared, Spare
  <2> HIDE DEF r, s
  <2>5. SumOver(r, Tokens) = SumOver(s, Tokens) - s[b] + r[b] /\ SumOver(s, Tokens) \in Nat
    BY <2>1, <2>2, PointWrite, SumType
  <2>6. Gone(a) \in Int /\ Gone(a) <= s[b] - r[b]
    BY <2>1, <2>3, <2>4, <2>5 DEF Gone, Held
  <2> QED
    BY <2>1, <2>6 DEF r, s
<1>2. /\ Gone(t) \in Int /\ Gone(t) <= begun.reserves[t][o] - reserves[t][o]
      /\ Gone(o) \in Int /\ Gone(o) <= begun.reserves[o][t] - reserves[o][t]
      /\ reserves[t][o] \in Nat /\ begun.reserves[t][o] \in Nat
      /\ reserves[o][t] \in Nat /\ begun.reserves[o][t] \in Nat
  BY <1>1
<1>3. reserves[t][o] < begun.reserves[t][o]
  BY <1>2
<1>4. reserves[o][t] > begun.reserves[o][t]
  BY <1>0, <1>2, <1>3, PoolPaid DEF PoolsKept
<1> QED
  BY <1>2, <1>4

(* Whatever an orderly client does in a swap, and in whatever order, it    *)
(* takes nothing of one token of a pool without leaving some of the other. *)
THEOREM EverySwapIsPaidFor == SwapsSpec => SwapsArePaidFor
<1>1. SInv /\ [SwapsNext]_swapsVars =>
        [orderly /\ swapState.hasBegun /\ ~swapState'.hasBegun =>
           \A t, o \in Tokens :
             t # o /\ OnlyPool(t, o) /\ Gone(t) > 0 => Gone(o) < 0]_swapsVars
  <2> SUFFICES ASSUME SInv, SwapsNext, orderly, swapState.hasBegun, ~swapState'.hasBegun,
                      NEW t \in Tokens, NEW o \in Tokens,
                      t # o, OnlyPool(t, o), Gone(t) > 0
               PROVE  Gone(o) < 0
    OBVIOUS
  <2>1. SwapEnd
    BY CallKeepsMark DEF SInv, SwapsNext, NotedSwapBegin, NotedSwapEnd, NotedCall, SwapBegin
  <2> QED
    BY <2>1, PaidAtEnd
<1> QED
  BY <1>1, SwapsInitInv, SwapsNextInv, PTL DEF SwapsSpec, SwapsArePaidFor
=============================================================================
