------------------------------ MODULE Checkpoints ------------------------------
(***************************************************************************)
(* Library Checkpoints, as scripts/generate/templates/Checkpoints.js of    *)
(* the vendored OpenZeppelin contracts writes it: the values of a quantity *)
(* over time, in an array sorted by key that is searched by bisection.     *)
(* The template makes two kinds of array.  A History has block numbers     *)
(* for keys, is only pushed to at the current block and only answers for   *)
(* blocks that are over; a Trace has the keys that its caller gives.       *)
(***************************************************************************)
EXTENDS Integers, Sequences, FiniteSetsExt

CONSTANTS MaxKey,    \* type(uint32).max, and type(uint96).max for a Trace160
          MaxValue,  \* type(uint224).max, and type(uint160).max
          Inputs,    \* the values and differences that callers push
          MaxBlock   \* bound: the last block

ASSUME CheckpointsAssumption ==
  MaxKey \in Nat /\ MaxValue \in Nat /\ Inputs \subseteq Nat /\ MaxBlock \in Nat

VARIABLES kind, checkpoints, blockNumber,
          written  \* history: for each key pushed at, the last value pushed

checkpointVars == <<kind, checkpoints, blockNumber, written>>

CheckpointsInit ==
  /\ kind \in {"History", "Trace"} /\ checkpoints = <<>> /\ blockNumber = 0
  /\ written = [k \in {} |-> 0]

\* SafeCast.toUint32 and toUint224 revert on what does not fit.
Fits(value, max) == value <= max
Average(a, b) == (a + b) \div 2
Sqrt(n) == CHOOSE r \in 0..n : r * r <= n /\ n < (r + 1) * (r + 1)
-----------------------------------------------------------------------------
Latest == IF checkpoints = <<>> THEN 0 ELSE checkpoints[Len(checkpoints)].value

\* latestCheckpoint, where there is one.
LastKey == checkpoints[Len(checkpoints)].key

\* Variant with a bug: a second push at a key makes a second checkpoint.
InsertAppends(key, value) ==
  /\ checkpoints # <<>> => LastKey <= key
  /\ checkpoints' = Append(checkpoints, [key |-> key, value |-> value])

Insert(key, value) ==
  \/ /\ checkpoints # <<>> => LastKey < key
     /\ checkpoints' = Append(checkpoints, [key |-> key, value |-> value])
  \/ /\ checkpoints # <<>> /\ LastKey = key
     /\ checkpoints' = [checkpoints EXCEPT ![Len(checkpoints)].value = value]

Record(key, value) ==
  /\ Insert(key, value)
  /\ written' = [k \in DOMAIN written \cup {key} |-> IF k = key THEN value ELSE written[k]]
  /\ UNCHANGED <<kind, blockNumber>>

\* push of a History, of a value or of an operation on the latest one.
Push(value) ==
  /\ kind = "History" /\ Fits(blockNumber, MaxKey) /\ Fits(value, MaxValue)
  /\ Record(blockNumber, value)
PushAdded(delta) == Push(Latest + delta)
PushSubtracted(delta) == delta <= Latest /\ Push(Latest - delta)

\* push of a Trace; the types of its arguments keep them in range.
PushAt(key, value) == kind = "Trace" /\ Fits(value, MaxValue) /\ Record(key, value)

Mine == blockNumber < MaxBlock /\ blockNumber' = blockNumber + 1
        /\ UNCHANGED <<kind, checkpoints, written>>
-----------------------------------------------------------------------------
\* The bisections.  A position p of the code is the place p + 1 of the sequence.
KeyAt(p) == checkpoints[p + 1].key

\* A search goes on in one half of the part that its two bounds enclose.
UpperBinaryLookup(key, low, high) ==
  LET search[part \in (0..high) \X (0..high)] ==
        LET l == part[1]  h == part[2]  mid == Average(l, h)
        IN  IF l >= h THEN h
            ELSE IF KeyAt(mid) > key THEN search[<<l, mid>>] ELSE search[<<mid + 1, h>>]
  IN  search[<<low, high>>]

LowerBinaryLookup(key, low, high) ==
  LET search[part \in (0..high) \X (0..high)] ==
        LET l == part[1]  h == part[2]  mid == Average(l, h)
        IN  IF l >= h THEN h
            ELSE IF KeyAt(mid) < key THEN search[<<mid + 1, h>>] ELSE search[<<l, mid>>]
  IN  search[<<low, high>>]

ValueBefore(p) == IF p = 0 THEN 0 ELSE checkpoints[p].value

UpperLookup(key) == ValueBefore(UpperBinaryLookup(key, 0, Len(checkpoints)))
LowerLookup(key) ==
  LET p == LowerBinaryLookup(key, 0, Len(checkpoints))
  IN  IF p = Len(checkpoints) THEN 0 ELSE checkpoints[p + 1].value

\* Variant with a bug: the current block is answered for.
AnswersNow(b) == kind = "History" /\ b <= blockNumber /\ Fits(b, MaxKey)

\* When getAtBlock and getAtProbablyRecentBlock do not revert.
Answers(b) == kind = "History" /\ b < blockNumber /\ Fits(b, MaxKey)

GetAtBlock(b) == ValueBefore(UpperBinaryLookup(b, 0, Len(checkpoints)))

\* Variant with a bug: the part before the middle ends one too early.
RecentPartShort(b) ==
  LET len == Len(checkpoints)
      mid == len - Sqrt(len)
  IN  IF len <= 5 THEN [low |-> 0, high |-> len]
      ELSE IF b < KeyAt(mid) THEN [low |-> 0, high |-> mid - 1]
      ELSE [low |-> mid + 1, high |-> len]

\* The part that getAtProbablyRecentBlock bisects: first or after the last
\* Sqrt(len) checkpoints.
RecentPart(b) ==
  LET len == Len(checkpoints)
      mid == len - Sqrt(len)
  IN  IF len <= 5 THEN [low |-> 0, high |-> len]
      ELSE IF b < KeyAt(mid) THEN [low |-> 0, high |-> mid]
      ELSE [low |-> mid + 1, high |-> len]
GetAtProbablyRecentBlock(b) ==
  ValueBefore(UpperBinaryLookup(b, RecentPart(b).low, RecentPart(b).high))
-----------------------------------------------------------------------------
CheckpointsNext ==
  \/ \E x \in Inputs : Push(x) \/ PushAdded(x) \/ PushSubtracted(x)
  \/ \E key \in 0..MaxKey, x \in Inputs : PushAt(key, x)
  \/ Mine

CheckpointsSpec == CheckpointsInit /\ [][CheckpointsNext]_checkpointVars
-----------------------------------------------------------------------------
\* There is one checkpoint for each key that was pushed at, in the order of
\* the keys, none of them in a block to come: what the bisections rely on
\* (scripts/generate/templates/Checkpoints.js:176-201).
CheckpointsOrdered ==
  /\ checkpoints \in Seq([key : 0..MaxKey, value : 0..MaxValue]) /\ blockNumber \in Nat
  /\ \A i, j \in DOMAIN checkpoints : i < j => checkpoints[i].key < checkpoints[j].key
  /\ {checkpoints[i].key : i \in DOMAIN checkpoints} = DOMAIN written
  /\ kind = "History" => \A k \in DOMAIN written : k <= blockNumber

\* What was last pushed up to a key, and first from a key on.
LastUpTo(k) ==
  LET earlier == {x \in DOMAIN written : x <= k}
  IN  IF earlier = {} THEN 0 ELSE written[Max(earlier)]
FirstFrom(k) ==
  LET later == {x \in DOMAIN written : x >= k}
  IN  IF later = {} THEN 0 ELSE written[Min(later)]

\* Every lookup, by either bisection and on either part of the array, finds
\* what was last pushed up to a key, or first from it on
\* (Checkpoints.js:51-108 and 209-247).
LookupsAgree ==
  /\ Latest = LastUpTo(MaxKey)
  /\ \A k \in 0..MaxKey : UpperLookup(k) = LastUpTo(k) /\ LowerLookup(k) = FirstFrom(k)
  /\ \A b \in 0..MaxBlock :
       Answers(b) => GetAtBlock(b) = LastUpTo(b) /\ GetAtProbablyRecentBlock(b) = LastUpTo(b)

\* An answer about a block, once it can be had, is the answer for good, and a
\* push to a Trace changes nothing before its last key: votes counted at a past
\* block cannot be changed (Checkpoints.js:72-79, 188-195).
PastIsFixed ==
  [][/\ \A b \in 0..MaxBlock : Answers(b) => Answers(b)' /\ GetAtBlock(b)' = GetAtBlock(b)
     /\ \A k \in 0..MaxKey : checkpoints # <<>> /\ k < LastKey => UpperLookup(k)' = UpperLookup(k)
    ]_checkpointVars
=============================================================================
