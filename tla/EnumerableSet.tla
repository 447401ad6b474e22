----------------------------- MODULE EnumerableSet -----------------------------
(***************************************************************************)
(* Library EnumerableSet, as its generator                                 *)
(* scripts/generate/templates/EnumerableSet.js of the vendored OpenZeppelin*)
(* contracts writes it: a set of words kept as an array and, for each      *)
(* word, its position in the array plus 1, or 0.  A set is a record, an    *)
(* operation returns the set that it leaves; the answer of add and remove  *)
(* is whether the word was new, and whether it was there.                  *)
(***************************************************************************)
EXTENDS Integers, Sequences

CONSTANTS WordSize,    \* 2^256: how many bytes32 and uint256 there are
          AddressSize  \* 2^160: how many addresses

ASSUME WordAssumption ==
  /\ WordSize \in Nat \ {0} /\ AddressSize \in Nat \ {0} /\ AddressSize <= WordSize

Words == 0..(WordSize - 1)

Size(type) == IF type = "address" THEN AddressSize ELSE WordSize
ToBytes32(type, value) == value % Size(type)
FromBytes32(type, word) == word % Size(type)
-----------------------------------------------------------------------------
\* The generic set of words.
NoWords == [values |-> <<>>, indexes |-> [w \in Words |-> 0]]

SetContains(set, w) == set.indexes[w] # 0
SetLength(set) == Len(set.values)
SetAt(set, index) == set.values[index + 1]
SetValues(set) == {set.values[i] : i \in 1..SetLength(set)}

SetAdd(set, w) ==
  IF SetContains(set, w) THEN set
  ELSE [values |-> Append(set.values, w),
        indexes |-> [set.indexes EXCEPT ![w] = Len(set.values) + 1]]

\* Variant with a bug: the index of the moved word is not updated.
SwappedStale(set, position) ==
  [set EXCEPT !.values = [@ EXCEPT ![position] = set.values[Len(set.values)]]]

\* Variant with a bug: the last word comes first, the first takes the position.
SwappedToFront(set, position) ==
  LET first == set.values[1]
      last == set.values[Len(set.values)]
  IN  IF position = Len(set.values) THEN set
      ELSE [values |-> [set.values EXCEPT ![position] = first, ![1] = last],
            indexes |-> [set.indexes EXCEPT ![first] = position, ![last] = 1]]

\* The last word takes the given position.
Swapped(set, position) ==
  LET last == set.values[Len(set.values)]
  IN  IF position = Len(set.values) THEN set
      ELSE [values |-> [set.values EXCEPT ![position] = last],
            indexes |-> [set.indexes EXCEPT ![last] = position]]

\* Swap and pop.
SetRemove(set, w) ==
  LET swapped == Swapped(set, set.indexes[w])
  IN  IF SetContains(set, w)
      THEN [values |-> SubSeq(swapped.values, 1, Len(swapped.values) - 1),
            indexes |-> [swapped.indexes EXCEPT ![w] = 0]]
      ELSE set
-----------------------------------------------------------------------------
\* The wrappers for a type.
TypedAdd(set, type, value) == SetAdd(set, ToBytes32(type, value))
TypedRemove(set, type, value) == SetRemove(set, ToBytes32(type, value))
TypedContains(set, type, value) == SetContains(set, ToBytes32(type, value))
TypedAt(set, type, index) == FromBytes32(type, SetAt(set, index))
TypedValues(set, type) == {FromBytes32(type, w) : w \in SetValues(set)}
-----------------------------------------------------------------------------
SetTypeOK(set) == set \in [values : Seq(Words), indexes : [Words -> Nat]]

\* The two halves of a set agree: the word at each position has that position
\* for its index, and an index that is not 0 is the position of its word
\* (scripts/generate/templates/EnumerableSet.js:61-67).
SetSound(set) ==
  /\ SetTypeOK(set)
  /\ \A i \in 1..Len(set.values) : set.indexes[set.values[i]] = i
  /\ \A w \in Words : set.indexes[w] # 0 =>
       set.indexes[w] \in 1..Len(set.values) /\ set.values[set.indexes[w]] = w
=============================================================================
