-------------------------- MODULE OpenZeppelin_proofs --------------------------
(***************************************************************************)
(* Theorems about the JavaScript of the vendored OpenZeppelin contracts:   *)
(* the libraries that its templates generate and its migrate-imports       *)
(* command.  For any sizes of words and addresses, any types and any keys  *)
(* and values, the three stores of EnumerableMap stay one map; for any     *)
(* sizes of keys and values, the array of Checkpoints is sorted and holds  *)
(* one checkpoint for each key pushed at, and its bisections find in it    *)
(* what was pushed; for any tree of files, any arguments and any number of *)
(* mishaps, migrate-imports loses nothing that it need not lose, a run     *)
(* that ends well has moved just what it says, and each step of a run      *)
(* brings it nearer to its end.                                            *)
(***************************************************************************)
EXTENDS EnumerableMap, Checkpoints, MigrateImports,
        FiniteSetTheorems, SequenceTheorems, WellFoundedInduction, TLAPS

(* A number below the modulus is its own remainder.                        *)
LEMMA SmallRemainder ==
  ASSUME NEW n \in Nat \ {0}, NEW k \in 0..(n - 1)
  PROVE  k % n = k
OBVIOUS

LEMMA RemainderBounded ==
  ASSUME NEW n \in Nat \ {0}, NEW k \in Nat
  PROVE  k % n \in 0..(n - 1)
OBVIOUS

LEMMA SizeBounded ==
  ASSUME NEW type
  PROVE  Size(type) \in Nat \ {0} /\ Size(type) <= WordSize
BY WordAssumption DEF Size

(* Converting to a word, and a word to a word.                             *)
LEMMA ToWord ==
  ASSUME NEW type, NEW value \in Nat
  PROVE  ToBytes32(type, value) \in Words
<1>1. value % Size(type) \in 0..(Size(type) - 1)
  BY SizeBounded, RemainderBounded
<1> QED
  BY <1>1, SizeBounded, WordAssumption DEF ToBytes32, Words

LEMMA WordOfWord ==
  ASSUME NEW w \in Words
  PROVE  ToBytes32("bytes32", w) = w /\ FromBytes32("bytes32", w) = w
BY SmallRemainder, WordAssumption DEF ToBytes32, FromBytes32, Size, Words

(* The conversions lose nothing of a value of the type.                    *)
LEMMA WordOfValue ==
  ASSUME NEW type, NEW value \in 0..(Size(type) - 1)
  PROVE  ToBytes32(type, value) = value /\ FromBytes32(type, value) = value
BY SmallRemainder, SizeBounded DEF ToBytes32, FromBytes32
-----------------------------------------------------------------------------
LEMMA EmptySound == SetSound(NoWords)
BY DEF SetSound, SetTypeOK, NoWords

(* add keeps a set sound, adds just the word and moves none.               *)
LEMMA AddSound ==
  ASSUME NEW set, SetSound(set), NEW w \in Words
  PROVE  /\ SetSound(SetAdd(set, w))
         /\ \A x \in Words : SetContains(SetAdd(set, w), x) <=> x = w \/ SetContains(set, x)
         /\ \A x \in Words : SetContains(set, x) => SetAdd(set, w).indexes[x] = set.indexes[x]
<1>1. CASE SetContains(set, w)
  BY <1>1 DEF SetAdd
<1>2. CASE ~SetContains(set, w)
  <2> DEFINE n == Len(set.values)
             after == SetAdd(set, w)
  <2>1. /\ set.values \in Seq(Words) /\ set.indexes \in [Words -> Nat] /\ n \in Nat
        /\ \A i \in 1..n : set.values[i] \in Words /\ set.indexes[set.values[i]] = i
        /\ \A x \in Words : set.indexes[x] # 0 =>
             set.indexes[x] \in 1..n /\ set.values[set.indexes[x]] = x
    BY DEF SetSound, SetTypeOK
  <2>2. after = [values |-> Append(set.values, w), indexes |-> [set.indexes EXCEPT ![w] = n + 1]]
    BY <1>2 DEF SetAdd
  <2>3. set.indexes[w] = 0
    BY <1>2 DEF SetContains
  <2>4. /\ after.values = Append(set.values, w)
        /\ after.values \in Seq(Words) /\ Len(after.values) = n + 1
        /\ \A i \in 1..n : after.values[i] = set.values[i]
        /\ after.values[n + 1] = w
    BY <2>1, <2>2
  <2>5. /\ after.indexes \in [Words -> Nat]
        /\ \A x \in Words : after.indexes[x] = IF x = w THEN n + 1 ELSE set.indexes[x]
    BY <2>1, <2>2
  <2>6. SetTypeOK(after)
    BY <2>2, <2>4, <2>5 DEF SetTypeOK
  <2> HIDE DEF after, n
  <2>7. \A i \in 1..(n + 1) : after.indexes[after.values[i]] = i
    <3> SUFFICES ASSUME NEW i \in 1..(n + 1) PROVE after.indexes[after.values[i]] = i
      OBVIOUS
    <3>1. CASE i = n + 1
      BY <3>1, <2>4, <2>5
    <3>2. CASE i \in 1..n
      <4>1. set.values[i] # w /\ after.values[i] = set.values[i]
        BY <3>2, <2>1, <2>3, <2>4
      <4> QED
        BY <4>1, <3>2, <2>1, <2>5
    <3> QED
      BY <3>1, <3>2, <2>1
  <2>8. \A x \in Words : after.indexes[x] # 0 =>
          after.indexes[x] \in 1..(n + 1) /\ after.values[after.indexes[x]] = x
    BY <2>1, <2>4, <2>5
  <2>9. \A x \in Words : after.indexes[x] # 0 <=> x = w \/ set.indexes[x] # 0
    BY <2>1, <2>5
  <2>10. \A x \in Words : set.indexes[x] # 0 => after.indexes[x] = set.indexes[x]
    BY <2>3, <2>5
  <2> QED
    BY <2>4, <2>6, <2>7, <2>8, <2>9, <2>10 DEF SetSound, SetContains, after
<1> QED
  BY <1>1, <1>2

(* remove keeps a set sound, removes just the word, and moves no other one *)
(* but the last, to the place of the removed one.                          *)
LEMMA RemoveSound ==
  ASSUME NEW set, SetSound(set), NEW w \in Words
  PROVE  /\ SetSound(SetRemove(set, w))
         /\ \A x \in Words : SetContains(SetRemove(set, w), x) <=> x # w /\ SetContains(set, x)
         /\ \A x \in Words : SetContains(SetRemove(set, w), x) =>
              \/ SetRemove(set, w).indexes[x] = set.indexes[x]
              \/ SetContains(set, w) /\ SetRemove(set, w).indexes[x] = set.indexes[w]
<1>1. CASE ~SetContains(set, w)
  BY <1>1 DEF SetRemove
<1>2. CASE SetContains(set, w)
  <2> DEFINE n == Len(set.values)
             p == set.indexes[w]
             last == set.values[n]
             swapped == Swapped(set, p)
             after == SetRemove(set, w)
  <2>1. /\ set.values \in Seq(Words) /\ set.indexes \in [Words -> Nat] /\ n \in Nat
        /\ \A i \in 1..n : set.values[i] \in Words /\ set.indexes[set.values[i]] = i
        /\ \A x \in Words : set.indexes[x] # 0 =>
             set.indexes[x] \in 1..n /\ set.values[set.indexes[x]] = x
    BY DEF SetSound, SetTypeOK
  <2>2. p \in 1..n /\ set.values[p] = w /\ p # 0
    BY <1>2, <2>1 DEF SetContains
  <2>3. n \in 1..n /\ last \in Words /\ set.indexes[last] = n /\ (p = n <=> last = w)
    BY <2>1, <2>2
  <2>4. after = [values |-> SubSeq(swapped.values, 1, Len(swapped.values) - 1),
                 indexes |-> [swapped.indexes EXCEPT ![w] = 0]]
    BY <1>2 DEF SetRemove
  <2>5. /\ swapped.values \in Seq(Words) /\ Len(swapped.values) = n
        /\ \A i \in 1..n : swapped.values[i] = IF i = p THEN last ELSE set.values[i]
        /\ swapped.indexes \in [Words -> Nat]
        /\ \A x \in Words : swapped.indexes[x] = IF x = last THEN p ELSE set.indexes[x]
    <3>1. CASE p = n
      <4>1. swapped = set
        BY <3>1 DEF Swapped
      <4> QED
        BY <4>1, <3>1, <2>1, <2>2, <2>3
    <3>2. CASE p # n
      <4>1. swapped = [values |-> [set.values EXCEPT ![p] = last],
                       indexes |-> [set.indexes EXCEPT ![last] = p]]
        BY <3>2 DEF Swapped
      <4> QED
        BY <4>1, <2>1, <2>2, <2>3
    <3> QED
      BY <3>1, <3>2
  <2> HIDE DEF swapped
  <2>6. /\ after.values \in Seq(Words) /\ Len(after.values) = n - 1
        /\ \A i \in 1..(n - 1) : after.values[i] = IF i = p THEN last ELSE set.values[i]
    BY <2>3, <2>4, <2>5
  <2>7. /\ after.indexes \in [Words -> Nat]
        /\ \A x \in Words :
             after.indexes[x] = IF x = w THEN 0 ELSE IF x = last THEN p ELSE set.indexes[x]
    BY <2>4, <2>5
  <2>8. SetTypeOK(after)
    BY <2>4, <2>6, <2>7 DEF SetTypeOK
  <2> HIDE DEF after, n, p, last
  <2>9. \A i \in 1..(n - 1) : after.indexes[after.values[i]] = i
    <3> SUFFICES ASSUME NEW i \in 1..(n - 1) PROVE after.indexes[after.values[i]] = i
      OBVIOUS
    <3>1. CASE i = p
      <4>1. p # n /\ last # w /\ after.values[i] = last
        BY <3>1, <2>2, <2>3, <2>6
      <4> QED
        BY <4>1, <3>1, <2>3, <2>7
    <3>2. CASE i # p
      <4>1. i \in 1..n /\ i # n
        BY <2>1
      <4>2. set.values[i] \in Words /\ set.indexes[set.values[i]] = i
        BY <4>1, <2>1
      <4>3. set.values[i] # w /\ set.values[i] # last
        BY <4>1, <4>2, <3>2, <2>3 DEF p
      <4>4. after.values[i] = set.values[i]
        BY <3>2, <2>6
      <4> QED
        BY <4>2, <4>3, <4>4, <2>7
    <3> QED
      BY <3>1, <3>2
  <2>10. \A x \in Words : after.indexes[x] # 0 =>
           after.indexes[x] \in 1..(n - 1) /\ after.values[after.indexes[x]] = x
    <3> SUFFICES ASSUME NEW x \in Words, after.indexes[x] # 0
                 PROVE  after.indexes[x] \in 1..(n - 1) /\ after.values[after.indexes[x]] = x
      OBVIOUS
    <3>1. CASE x = last
      BY <3>1, <2>2, <2>3, <2>6, <2>7
    <3>2. CASE x # last
      <4>1. x # w /\ after.indexes[x] = set.indexes[x] /\ set.indexes[x] # 0
        BY <3>2, <2>7
      <4>2. set.indexes[x] \in 1..n /\ set.values[set.indexes[x]] = x
        BY <4>1, <2>1
      <4>3. set.indexes[x] # n /\ set.indexes[x] # p
        BY <4>1, <4>2, <3>2, <2>2 DEF last
      <4> QED
        BY <4>1, <4>2, <4>3, <2>1, <2>6
    <3> QED
      BY <3>1, <3>2
  <2>11. \A x \in Words : after.indexes[x] # 0 <=> x # w /\ set.indexes[x] # 0
    BY <2>1, <2>2, <2>3, <2>7
  <2>12. \A x \in Words : after.indexes[x] # 0 =>
           after.indexes[x] = set.indexes[x] \/ after.indexes[x] = p
    BY <2>7
  <2> QED
    BY <1>2, <2>6, <2>8, <2>9, <2>10, <2>11, <2>12 DEF SetSound, SetContains, after, p
<1> QED
  BY <1>1, <1>2
-----------------------------------------------------------------------------
(* The inductive invariant: besides the map being sound, its keys are keys *)
(* that callers use, and what is due to the reader lies at his cursor or   *)
(* after it, until someone disturbs him.                                   *)
KeysUsed == \A w \in Words : MapContains(w) => w \in Keys
ReaderSound ==
  /\ cursor \in Nat /\ due \subseteq Keys /\ disturbed \in BOOLEAN
  /\ \A k \in due : MapContains(k) /\ (~disturbed => keys.indexes[k] > cursor)
MapInv == MapSound /\ KeysUsed /\ ReaderSound

LEMMA KeyIsWord ==
  ASSUME NEW k \in Keys
  PROVE  k \in Words /\ Word(k) = k /\ Key(k) = k
<1>1. k \in 0..(Size(KeyType) - 1)
  BY MapAssumption
<1> QED
  BY <1>1, WordOfValue, SizeBounded, WordAssumption DEF Word, Key, Words

LEMMA ContainsIs ==
  ASSUME NEW w \in Words
  PROVE  MapContains(w) <=> SetContains(keys, w)
BY WordOfWord DEF MapContains, TypedContains

LEMMA MapInitInv == Init => MapInv
<1> SUFFICES ASSUME Init PROVE MapInv
  OBVIOUS
<1>1. keys = NoWords /\ values = [w \in Words |-> 0] /\ cursor = 0 /\ due = {} /\ disturbed = FALSE
  BY DEF Init
<1>2. \A w \in Words : ~MapContains(w)
  BY <1>1, ContainsIs DEF SetContains, NoWords
<1>3. 0 \in Words
  BY WordAssumption DEF Words
<1>4. MapSound
  BY <1>1, <1>3, EmptySound DEF MapSound
<1> QED
  BY <1>1, <1>2, <1>4 DEF MapInv, KeysUsed, ReaderSound

LEMMA SetInv ==
  ASSUME MapInv, NEW k \in Keys, NEW v \in Values, Set(k, v)
  PROVE  MapInv'
<1>1. k \in Words /\ Word(k) = k
  BY KeyIsWord
<1>2. keys' = SetAdd(keys, k) /\ SetSound(keys)
  BY <1>1, WordOfWord DEF Set, MapSet, TypedAdd, MapInv, MapSound
<1>3. ToBytes32(ValueType, v) \in Words
  BY MapAssumption, SizeBounded, ToWord
<1>4. values' = [values EXCEPT ![k] = ToBytes32(ValueType, v)] /\ values \in [Words -> Words]
  BY <1>1 DEF Set, MapSet, MapInv, MapSound
<1>5. cursor' = cursor /\ due' = due /\ disturbed' = disturbed
  BY DEF Set, reader
<1>6. /\ SetSound(keys')
      /\ \A x \in Words : SetContains(keys', x) <=> x = k \/ SetContains(keys, x)
      /\ \A x \in Words : SetContains(keys, x) => keys'.indexes[x] = keys.indexes[x]
  BY <1>1, <1>2, AddSound
<1>7. \A x \in Words : MapContains(x)' <=> x = k \/ MapContains(x)
  BY <1>6, WordOfWord DEF MapContains, TypedContains
<1>8. MapSound'
  BY <1>1, <1>3, <1>4, <1>6, <1>7 DEF MapInv, MapSound
<1>9. KeysUsed'
  BY <1>7 DEF MapInv, KeysUsed
<1>10. ReaderSound'
  <2>1. \A x \in due : x \in Words /\ MapContains(x)
    BY KeyIsWord DEF MapInv, ReaderSound
  <2>2. \A x \in due : MapContains(x)' /\ keys'.indexes[x] = keys.indexes[x]
    BY <2>1, <1>6, <1>7, ContainsIs
  <2> QED
    BY <2>2, <1>5 DEF MapInv, ReaderSound
<1> QED
  BY <1>8, <1>9, <1>10 DEF MapInv

LEMMA RemoveInv ==
  ASSUME MapInv, NEW k \in Keys, RemoveKey(k)
  PROVE  MapInv'
<1>1. k \in Words /\ Word(k) = k
  BY KeyIsWord
<1>2. keys' = SetRemove(keys, k) /\ SetSound(keys)
  BY <1>1, WordOfWord DEF RemoveKey, MapRemove, TypedRemove, MapInv, MapSound
<1>3. 0 \in Words
  BY WordAssumption DEF Words
<1>4. values' = [values EXCEPT ![k] = 0] /\ values \in [Words -> Words]
  BY <1>1 DEF RemoveKey, MapRemove, MapInv, MapSound
<1>5. /\ cursor' = cursor /\ due' = due \ {k}
      /\ disturbed' = (disturbed \/ keys.indexes[k] \in 1..cursor)
  BY <1>1 DEF RemoveKey
<1>6. /\ SetSound(keys')
      /\ \A x \in Words : SetContains(keys', x) <=> x # k /\ SetContains(keys, x)
      /\ \A x \in Words : SetContains(keys', x) =>
           \/ keys'.indexes[x] = keys.indexes[x]
           \/ SetContains(keys, k) /\ keys'.indexes[x] = keys.indexes[k]
  BY <1>1, <1>2, RemoveSound
<1>7. \A x \in Words : MapContains(x)' <=> x # k /\ MapContains(x)
  BY <1>6, WordOfWord DEF MapContains, TypedContains
<1>8. MapSound'
  BY <1>1, <1>3, <1>4, <1>6, <1>7 DEF MapInv, MapSound
<1>9. KeysUsed'
  BY <1>7 DEF MapInv, KeysUsed
<1>10. ReaderSound'
  <2>1. \A x \in due' : x \in Words /\ x # k /\ MapContains(x) /\ MapContains(x)'
    BY <1>5, <1>7, KeyIsWord DEF MapInv, ReaderSound
  <2>2. ASSUME NEW x \in due', ~disturbed'
        PROVE  keys'.indexes[x] > cursor
    <3>1. keys.indexes[x] > cursor /\ cursor \in Nat /\ ~disturbed
      BY <2>2, <1>5 DEF MapInv, ReaderSound
    <3>2. keys.indexes[k] \in Nat /\ keys.indexes[k] \notin 1..cursor
      BY <2>2, <1>1, <1>2, <1>5 DEF SetSound, SetTypeOK
    <3>3. SetContains(keys, k) => keys.indexes[k] > cursor
      BY <3>1, <3>2 DEF SetContains
    <3>4. SetContains(keys', x)
      BY <2>1, WordOfWord DEF MapContains, TypedContains
    <3> QED
      BY <2>1, <3>1, <3>3, <3>4, <1>6
  <2>3. cursor' \in Nat /\ due' \subseteq Keys /\ disturbed' \in BOOLEAN
    BY <1>5 DEF MapInv, ReaderSound
  <2> QED
    BY <2>1, <2>2, <2>3, <1>5 DEF ReaderSound
<1> QED
  BY <1>8, <1>9, <1>10 DEF MapInv

LEMMA StartReadingInv ==
  ASSUME MapInv, StartReading
  PROVE  MapInv'
<1>1. keys' = keys /\ values' = values /\ cursor' = 0 /\ disturbed' = FALSE
  BY DEF StartReading, map
<1>2. due' = {Key(w) : w \in TypedValues(keys, "bytes32")}
  BY DEF StartReading
<1>3. SetSound(keys)
  BY DEF MapInv, MapSound
<1>4. ASSUME NEW w \in TypedValues(keys, "bytes32")
      PROVE  Key(w) \in Keys /\ MapContains(Key(w)) /\ keys.indexes[Key(w)] > 0
  <2>1. PICK i \in 1..Len(keys.values) : w = FromBytes32("bytes32", keys.values[i])
    BY DEF TypedValues, SetValues, SetLength
  <2>2. keys.values[i] \in Words /\ keys.indexes[keys.values[i]] = i
    BY <1>3 DEF SetSound, SetTypeOK
  <2>3. w \in Words /\ keys.indexes[w] = i /\ i > 0
    BY <2>1, <2>2, WordOfWord
  <2>4. MapContains(w)
    BY <2>3, ContainsIs DEF SetContains
  <2>5. Key(w) = w /\ w \in Keys
    BY <2>3, <2>4, KeyIsWord DEF MapInv, KeysUsed
  <2> QED
    BY <2>3, <2>4, <2>5
<1>5. MapSound' /\ KeysUsed' /\ \A x : MapContains(x)' <=> MapContains(x)
  BY <1>1 DEF MapInv, MapSound, KeysUsed, MapContains
<1>6. ReaderSound'
  BY <1>1, <1>2, <1>4, <1>5 DEF ReaderSound
<1> QED
  BY <1>5, <1>6 DEF MapInv

LEMMA ReadNextInv ==
  ASSUME MapInv, ReadNext
  PROVE  MapInv'
<1> DEFINE w == keys.values[cursor + 1]
<1>1. keys' = keys /\ values' = values /\ cursor' = cursor + 1 /\ disturbed' = disturbed
  BY DEF ReadNext, map
<1>2. cursor \in Nat /\ cursor + 1 \in 1..Len(keys.values)
  BY DEF ReadNext, MapLength, SetLength, MapInv, ReaderSound, MapSound, SetSound, SetTypeOK
<1>3. w \in Words /\ keys.indexes[w] = cursor + 1
  BY <1>2 DEF MapInv, MapSound, SetSound, SetTypeOK
<1>4. MapContains(w) /\ w \in Keys /\ Key(w) = w
  BY <1>2, <1>3, ContainsIs, KeyIsWord DEF SetContains, MapInv, KeysUsed
<1>5. due' = due \ {w}
  BY <1>3, <1>4, WordOfWord DEF ReadNext, MapAt, TypedAt, SetAt
<1>6. MapSound' /\ KeysUsed' /\ \A x : MapContains(x)' <=> MapContains(x)
  BY <1>1 DEF MapInv, MapSound, KeysUsed, MapContains
<1>7. ASSUME NEW x \in due', ~disturbed'
      PROVE  keys.indexes[x] > cursor + 1
  <2>1. x \in Words /\ x # w /\ keys.indexes[x] > cursor /\ MapContains(x)
    BY <1>1, <1>5, <1>7, KeyIsWord DEF MapInv, ReaderSound
  <2>2. keys.indexes[x] \in Nat /\ keys.values[keys.indexes[x]] = x
    BY <2>1, ContainsIs DEF SetContains, MapInv, MapSound, SetSound, SetTypeOK
  <2> QED
    BY <2>1, <2>2, <1>2
<1>8. ReaderSound'
  BY <1>1, <1>2, <1>5, <1>6, <1>7 DEF MapInv, ReaderSound
<1> QED
  BY <1>6, <1>8 DEF MapInv

LEMMA UnchangedInv ==
  ASSUME MapInv, UNCHANGED <<map, reader>>
  PROVE  MapInv'
BY DEF map, reader, MapInv, MapSound, KeysUsed, ReaderSound, MapContains

LEMMA MapNextInv == MapInv /\ [Next]_mapVars => MapInv'
<1> SUFFICES ASSUME MapInv, [Next]_mapVars PROVE MapInv'
  OBVIOUS
<1>1. ASSUME NEW k \in Keys, NEW v \in Values, Set(k, v) PROVE MapInv'
  BY <1>1, SetInv
<1>2. ASSUME NEW k \in Keys, RemoveKey(k) PROVE MapInv'
  BY <1>2, RemoveInv
<1>3. ASSUME NEW k \in Keys, ContainsKey(k) \/ TryGet(k) \/ Get(k) PROVE MapInv'
  <2>1. UNCHANGED <<map, reader>>
    BY <1>3 DEF ContainsKey, TryGet, Get, View
  <2> QED
    BY <2>1, UnchangedInv
<1>4. CASE Length
  BY <1>4, UnchangedInv DEF Length, View
<1>5. CASE StartReading
  BY <1>5, StartReadingInv
<1>6. CASE ReadNext
  BY <1>6, ReadNextInv
<1>7. CASE UNCHANGED mapVars
  BY <1>7, UnchangedInv DEF mapVars
<1> QED
  BY <1>1, <1>2, <1>3, <1>4, <1>5, <1>6, <1>7 DEF Next

LEMMA MapInvariant == Spec => []MapInv
<1> QED
  BY MapInitInv, MapNextInv, PTL DEF Spec

(* Whatever is set and removed, the array of keys, its index and the       *)
(* mapping of values are one map, and no removed key keeps a value.        *)
THEOREM MapStaysSound == Spec => []MapSound
<1>1. MapInv => MapSound
  BY DEF MapInv
<1> QED
  BY <1>1, MapInvariant, PTL

(* A reader who goes through the map index by index misses no key that     *)
(* stays, unless a key that he was past is removed.                        *)
THEOREM ReaderMissesNothing == Spec => []ReadingMissesNothing
<1>1. ASSUME MapInv PROVE ReadingMissesNothing
  <2> SUFFICES ASSUME cursor >= MapLength, ~disturbed, NEW k \in due PROVE FALSE
    BY DEF ReadingMissesNothing
  <2>1. k \in Words /\ MapContains(k) /\ keys.indexes[k] > cursor /\ cursor \in Nat
    BY <1>1, KeyIsWord DEF MapInv, ReaderSound
  <2>2. keys.indexes[k] \in 1..Len(keys.values) /\ Len(keys.values) \in Nat
    BY <1>1, <2>1, ContainsIs DEF SetContains, MapInv, MapSound, SetSound, SetTypeOK
  <2> QED
    BY <2>1, <2>2 DEF MapLength, SetLength
<1> QED
  BY <1>1, MapInvariant, PTL
-----------------------------------------------------------------------------
(* The refinement.                                                         *)
Entries == [k \in InMap |-> Value(values[Word(k)])]

LEMMA InMapIs == InMap = {k \in Keys : MapContains(k)}
BY KeyIsWord DEF InMap

LEMMA EntriesAt ==
  ASSUME NEW k \in InMap
  PROVE  Entries[k] = Value(values[k])
BY KeyIsWord DEF Entries, InMap

LEMMA ValueIsWord ==
  ASSUME NEW v \in Values
  PROVE  ToBytes32(ValueType, v) = v /\ Value(v) = v
BY WordOfValue, MapAssumption DEF Value

LEMMA ZeroIsZero == Value(0) = 0
<1>1. 0 \in 0..(Size(ValueType) - 1)
  BY SizeBounded
<1> QED
  BY <1>1, WordOfValue DEF Value

LEMMA InitRefines == Init => Abstract!Init
<1> SUFFICES ASSUME Init PROVE Abstract!Init
  OBVIOUS
<1>1. keys = NoWords /\ answer = [call |-> "none"]
  BY DEF Init
<1>2. \A w \in Words : ~MapContains(w)
  BY <1>1, ContainsIs DEF SetContains, NoWords
<1>3. InMap = {}
  BY <1>2, InMapIs, KeyIsWord
<1>4. [k \in InMap |-> Value(values[Word(k)])] = [k \in {} |-> 0]
  BY <1>3
<1> QED
  BY <1>1, <1>4 DEF Abstract!Init

LEMMA SetRefines ==
  ASSUME MapInv, NEW k \in Keys, NEW v \in Values, Set(k, v)
  PROVE  Abstract!Set(k, v)
<1>1. k \in Words /\ Word(k) = k
  BY KeyIsWord
<1>2. \A x \in Words : MapContains(x)' <=> x = k \/ MapContains(x)
  <2>1. keys' = SetAdd(keys, k) /\ SetSound(keys)
    BY <1>1, WordOfWord DEF Set, MapSet, TypedAdd, MapInv, MapSound
  <2>2. \A x \in Words : SetContains(keys', x) <=> x = k \/ SetContains(keys, x)
    BY <1>1, <2>1, AddSound
  <2> QED
    BY <2>2, WordOfWord DEF MapContains, TypedContains
<1>3. values' = [values EXCEPT ![k] = v] /\ values \in [Words -> Words]
  BY <1>1, ValueIsWord DEF Set, MapSet, MapInv, MapSound
<1>4. InMap' = InMap \cup {k}
  BY <1>2, KeyIsWord DEF InMap
<1>5. \A x \in InMap' : Value(values'[Word(x)]) = IF x = k THEN v ELSE Entries[x]
  <2> SUFFICES ASSUME NEW x \in InMap'
               PROVE  Value(values'[Word(x)]) = IF x = k THEN v ELSE Entries[x]
    OBVIOUS
  <2>1. x \in Words /\ Word(x) = x
    BY <1>4, KeyIsWord DEF InMap
  <2>2. CASE x = k
    BY <2>1, <2>2, <1>1, <1>3, ValueIsWord
  <2>3. CASE x # k
    <3>1. values'[x] = values[x] /\ x \in InMap
      BY <2>1, <2>3, <1>1, <1>3, <1>4
    <3> QED
      BY <3>1, <2>1, <2>3, EntriesAt
  <2> QED
    BY <2>2, <2>3
<1>6. Entries' = [x \in InMap \cup {k} |-> IF x = k THEN v ELSE Entries[x]]
  BY <1>4, <1>5 DEF Entries
<1>7. answer' = [call |-> "set", added |-> k \notin InMap]
  BY <1>1, InMapIs DEF Set
<1>8. DOMAIN Entries = InMap
  BY DEF Entries
<1> QED
  BY <1>6, <1>7, <1>8 DEF Abstract!Set, Entries

LEMMA RemoveRefines ==
  ASSUME MapInv, NEW k \in Keys, RemoveKey(k)
  PROVE  Abstract!Remove(k)
<1>1. k \in Words /\ Word(k) = k
  BY KeyIsWord
<1>2. \A x \in Words : MapContains(x)' <=> x # k /\ MapContains(x)
  <2>1. keys' = SetRemove(keys, k) /\ SetSound(keys)
    BY <1>1, WordOfWord DEF RemoveKey, MapRemove, TypedRemove, MapInv, MapSound
  <2>2. \A x \in Words : SetContains(keys', x) <=> x # k /\ SetContains(keys, x)
    BY <1>1, <2>1, RemoveSound
  <2> QED
    BY <2>2, WordOfWord DEF MapContains, TypedContains
<1>3. values' = [values EXCEPT ![k] = 0] /\ values \in [Words -> Words]
  BY <1>1 DEF RemoveKey, MapRemove, MapInv, MapSound
<1>4. InMap' = InMap \ {k}
  BY <1>2, KeyIsWord DEF InMap
<1>5. \A x \in InMap' : Value(values'[Word(x)]) = Entries[x]
  <2> SUFFICES ASSUME NEW x \in InMap' PROVE Value(values'[Word(x)]) = Entries[x]
    OBVIOUS
  <2>1. x \in Words /\ Word(x) = x /\ x # k /\ x \in InMap
    BY <1>4, KeyIsWord DEF InMap
  <2>2. values'[x] = values[x]
    BY <2>1, <1>1, <1>3
  <2> QED
    BY <2>1, <2>2, EntriesAt
<1>6. Entries' = [x \in InMap \ {k} |-> Entries[x]]
  BY <1>4, <1>5 DEF Entries
<1>7. answer' = [call |-> "remove", removed |-> k \in InMap]
  <2>1. MapContains(Word(k)) = (k \in InMap)
    BY DEF InMap, MapContains, TypedContains, SetContains
  <2> QED
    BY <2>1 DEF RemoveKey
<1>8. DOMAIN Entries = InMap
  BY DEF Entries
<1> QED
  BY <1>6, <1>7, <1>8 DEF Abstract!Remove, Entries

(* The array of keys holds each key of the map once.                       *)
LEMMA LengthCounts ==
  ASSUME MapInv
  PROVE  MapLength = Cardinality(InMap)
<1> DEFINE n == Len(keys.values)
<1>1. /\ n \in Nat /\ keys.values \in [1..n -> Words]
      /\ \A i \in 1..n : keys.indexes[keys.values[i]] = i
      /\ \A w \in Words : keys.indexes[w] # 0 =>
           keys.indexes[w] \in 1..n /\ keys.values[keys.indexes[w]] = w
  BY DEF MapInv, MapSound, SetSound, SetTypeOK
<1>2. \A i \in 1..n : keys.values[i] \in InMap
  <2> SUFFICES ASSUME NEW i \in 1..n PROVE keys.values[i] \in InMap
    OBVIOUS
  <2>1. keys.values[i] \in Words /\ keys.indexes[keys.values[i]] # 0
    BY <1>1
  <2>2. MapContains(keys.values[i])
    BY <2>1, ContainsIs DEF SetContains
  <2> QED
    BY <2>1, <2>2, InMapIs DEF MapInv, KeysUsed
<1>3. \A k \in InMap : keys.indexes[k] \in 1..n /\ keys.values[keys.indexes[k]] = k
  BY <1>1, InMapIs, KeyIsWord, ContainsIs DEF SetContains
<1> DEFINE f == keys.values
<1>4. f \in [1..n -> InMap]
  BY <1>1, <1>2
<1>5. IsInjective(f)
  BY <1>1, <1>4 DEF IsInjective
<1>6. f \in Bijection(1..n, InMap)
  BY <1>3, <1>4, <1>5 DEF Bijection, Injection, Surjection
<1>7. Cardinality(InMap) = n
  BY <1>1, <1>6, FS_CountingElements DEF ExistsBijection
<1> QED
  BY <1>7 DEF MapLength, SetLength

LEMMA SameEntries ==
  ASSUME UNCHANGED map
  PROVE  Entries' = Entries
BY DEF map, Entries, InMap, MapContains

LEMMA Contained ==
  ASSUME NEW k \in Keys
  PROVE  MapContains(Word(k)) = (k \in InMap)
BY DEF InMap, MapContains, TypedContains, SetContains

(* What the three ways of reading a key return.                            *)
LEMMA ReadKey ==
  ASSUME MapInv, NEW k \in Keys
  PROVE  /\ k \in InMap => MapHas(Word(k)) /\ Value(values[Word(k)]) = Entries[k]
         /\ k \notin InMap => ~MapHas(Word(k)) /\ values[Word(k)] = 0
         /\ MapTryGet(Word(k)) = [success |-> k \in InMap, value |-> values[Word(k)]]
<1>1. k \in Words /\ Word(k) = k
  BY KeyIsWord
<1>2. ~MapContains(k) => values[k] = 0
  BY <1>1 DEF MapInv, MapSound
<1>3. MapContains(k) = (k \in InMap)
  BY <1>1, Contained
<1>4. k \in InMap => Value(values[k]) = Entries[k]
  BY EntriesAt
<1>5. MapTryGet(k) = [success |-> k \in InMap, value |-> values[k]]
  <2>1. CASE values[k] = 0
    BY <2>1, <1>3 DEF MapTryGet
  <2>2. CASE values[k] # 0
    <3>1. (k \in InMap) = TRUE
      BY <2>2, <1>2, <1>3
    <3> QED
      BY <2>2, <3>1 DEF MapTryGet
  <2> QED
    BY <2>1, <2>2
<1> QED
  BY <1>1, <1>2, <1>3, <1>4, <1>5 DEF MapHas

LEMMA ViewRefines ==
  ASSUME UNCHANGED map, answer' \in Abstract!Answers
  PROVE  Abstract!Ask
BY SameEntries DEF Abstract!Ask, Entries

LEMMA DomainIs == DOMAIN Entries = InMap
BY DEF Entries

LEMMA LengthRefines ==
  ASSUME MapInv, Length
  PROVE  Abstract!Ask
<1>1. answer' = [call |-> "length", length |-> Cardinality(InMap)] /\ UNCHANGED map
  BY LengthCounts DEF Length, View
<1>2. Abstract!LengthAnswer = [call |-> "length", length |-> Cardinality(InMap)]
  <2>1. Cardinality(DOMAIN [k \in InMap |-> Value(values[Word(k)])]) = Cardinality(InMap)
    BY DomainIs, Zenon DEF Entries
  <2>2. Abstract!LengthAnswer =
          [call |-> "length", length |-> Cardinality(DOMAIN [k \in InMap |-> Value(values[Word(k)])])]
    BY DEF Abstract!LengthAnswer, Abstract!Cardinality, Cardinality
  <2> QED
    BY <2>1, <2>2
<1>3. Abstract!LengthAnswer \in Abstract!Answers
  BY DEF Abstract!Answers
<1>4. answer' \in Abstract!Answers
  BY <1>1, <1>2, <1>3, Zenon
<1> QED
  BY <1>1, <1>4, ViewRefines

LEMMA ContainsRefines ==
  ASSUME NEW k \in Keys, ContainsKey(k)
  PROVE  Abstract!Ask
<1>1. answer' = [call |-> "contains", key |-> k, found |-> k \in DOMAIN Entries] /\ UNCHANGED map
  BY Contained, DomainIs DEF ContainsKey, View
<1>2. answer' \in Abstract!Answers
  BY <1>1 DEF Abstract!Answers, Entries
<1> QED
  BY <1>1, <1>2, ViewRefines

LEMMA GetRefines ==
  ASSUME MapInv, NEW k \in Keys, Get(k)
  PROVE  Abstract!Ask
<1>1. UNCHANGED map
  BY DEF Get, View
<1>2. CASE k \in InMap
  <2>1. answer' = [call |-> "get", key |-> k, value |-> Entries[k]] /\ k \in DOMAIN Entries
    BY <1>2, ReadKey, DomainIs DEF Get, View
  <2>2. answer' \in Abstract!Answers
    BY <2>1 DEF Abstract!Answers, Entries
  <2> QED
    BY <1>1, <2>2, ViewRefines
<1>3. CASE k \notin InMap
  <2>1. answer' = [call |-> "get", key |-> k, reverted |-> TRUE] /\ k \in Keys \ DOMAIN Entries
    BY <1>3, ReadKey, DomainIs DEF Get, View
  <2>2. answer' \in Abstract!Answers
    BY <2>1 DEF Abstract!Answers, Entries
  <2> QED
    BY <1>1, <2>2, ViewRefines
<1> QED
  BY <1>2, <1>3

LEMMA TryGetRefines ==
  ASSUME MapInv, NEW k \in Keys, TryGet(k)
  PROVE  Abstract!Ask
<1>1. UNCHANGED map
  BY DEF TryGet, View
<1>2. answer' = [call |-> "tryGet", key |-> k, success |-> k \in InMap,
                 value |-> Value(values[Word(k)])]
  BY ReadKey DEF TryGet, View
<1>3. Value(values[Word(k)]) = IF k \in InMap THEN Entries[k] ELSE 0
  BY ReadKey, ZeroIsZero
<1>4. answer' = [call |-> "tryGet", key |-> k, success |-> k \in DOMAIN Entries,
                 value |-> IF k \in DOMAIN Entries THEN Entries[k] ELSE 0]
  BY <1>2, <1>3, DomainIs
<1>5. answer' \in Abstract!Answers
  BY <1>4 DEF Abstract!Answers, Entries
<1> QED
  BY <1>1, <1>5, ViewRefines

LEMMA AtRefines ==
  ASSUME MapInv, ReadNext
  PROVE  Abstract!Ask
<1> DEFINE w == keys.values[cursor + 1]
<1>1. cursor \in Nat /\ cursor + 1 \in 1..Len(keys.values)
  BY DEF ReadNext, MapLength, SetLength, MapInv, ReaderSound, MapSound, SetSound, SetTypeOK
<1>2. w \in Words /\ keys.indexes[w] = cursor + 1
  BY <1>1 DEF MapInv, MapSound, SetSound, SetTypeOK
<1>3. MapContains(w) /\ w \in Keys /\ Key(w) = w
  BY <1>1, <1>2, ContainsIs, KeyIsWord DEF SetContains, MapInv, KeysUsed
<1>4. w \in DOMAIN Entries /\ Entries[w] = Value(values[w])
  BY <1>3, InMapIs, DomainIs, EntriesAt
<1>5. answer' = [call |-> "at", key |-> w, value |-> Entries[w]] /\ UNCHANGED map
  BY <1>2, <1>3, <1>4, WordOfWord DEF ReadNext, MapAt, TypedAt, SetAt
<1>6. answer' \in Abstract!Answers
  BY <1>4, <1>5 DEF Abstract!Answers, Entries
<1> QED
  BY <1>5, <1>6, ViewRefines

LEMMA NextRefines ==
  ASSUME MapInv, [Next]_mapVars
  PROVE  [Abstract!Next]_<<[k \in InMap |-> Value(values[Word(k)])], answer>>
<1>1. ASSUME NEW k \in Keys, NEW v \in Values, Set(k, v) PROVE Abstract!Next
  BY <1>1, SetRefines DEF Abstract!Next
<1>2. ASSUME NEW k \in Keys, RemoveKey(k) PROVE Abstract!Next
  BY <1>2, RemoveRefines DEF Abstract!Next
<1>3. ASSUME NEW k \in Keys, ContainsKey(k) \/ TryGet(k) \/ Get(k) PROVE Abstract!Next
  BY <1>3, ContainsRefines, TryGetRefines, GetRefines DEF Abstract!Next
<1>4. CASE Length
  BY <1>4, LengthRefines DEF Abstract!Next
<1>5. CASE ReadNext
  BY <1>5, AtRefines DEF Abstract!Next
<1>6. ASSUME StartReading \/ UNCHANGED mapVars
      PROVE  UNCHANGED <<[k \in InMap |-> Value(values[Word(k)])], answer>>
  <2>1. UNCHANGED map /\ UNCHANGED answer
    BY <1>6 DEF StartReading, mapVars
  <2> QED
    BY <2>1, SameEntries DEF Entries
<1> QED
  BY <1>1, <1>2, <1>3, <1>4, <1>5, <1>6 DEF Next

(* An EnumerableMap answers every call as a finite function would.         *)
THEOREM MapImplementsFiniteMap == Spec => ImplementsFiniteMap
<1>1. MapInv /\ [Next]_mapVars =>
        [Abstract!Next]_<<[k \in InMap |-> Value(values[Word(k)])], answer>>
  BY NextRefines
<1> QED
  BY <1>1, InitRefines, MapInvariant, PTL DEF Spec, ImplementsFiniteMap, Abstract!Spec
-----------------------------------------------------------------------------
(* The invariant of the run with the two kinds and the history's domain.   *)
CheckpointsInv == kind \in {"History", "Trace"} /\ CheckpointsOrdered

LEMMA CheckpointsInitInv == CheckpointsInit => CheckpointsInv
BY CheckpointsAssumption DEF CheckpointsInit, CheckpointsInv, CheckpointsOrdered

(* What the invariant says of each place of the array and of each key.      *)
LEMMA PlacesTyped ==
  ASSUME CheckpointsOrdered
  PROVE  /\ Len(checkpoints) \in Nat /\ DOMAIN checkpoints = 1..Len(checkpoints)
         /\ checkpoints # <<>> => Len(checkpoints) \in 1..Len(checkpoints)
         /\ \A i \in 1..Len(checkpoints) :
              /\ checkpoints[i] \in [key : 0..MaxKey, value : 0..MaxValue]
              /\ checkpoints[i].key \in DOMAIN written
         /\ \A k \in DOMAIN written :
              k \in Nat /\ \E i \in 1..Len(checkpoints) : k = checkpoints[i].key
<1> DEFINE Entry == [key : 0..MaxKey, value : 0..MaxValue]
<1>1. checkpoints \in Seq(Entry)
  BY DEF CheckpointsOrdered
<1>2. /\ Len(checkpoints) \in Nat /\ DOMAIN checkpoints = 1..Len(checkpoints)
      /\ checkpoints # <<>> => Len(checkpoints) \in 1..Len(checkpoints)
      /\ \A i \in 1..Len(checkpoints) : checkpoints[i] \in Entry
  <2> HIDE DEF Entry
  <2> QED
    BY <1>1
<1>3. {checkpoints[i].key : i \in 1..Len(checkpoints)} = DOMAIN written
  BY <1>2 DEF CheckpointsOrdered
<1>4. /\ \A i \in 1..Len(checkpoints) : checkpoints[i].key \in DOMAIN written
      /\ \A k \in DOMAIN written : \E i \in 1..Len(checkpoints) : k = checkpoints[i].key
  BY <1>3, Zenon
<1>5. \A e \in Entry : e.key \in Nat
  OBVIOUS
<1>6. \A k \in DOMAIN written : k \in Nat
  BY <1>2, <1>4, <1>5, Zenon
<1> QED
  BY <1>2, <1>4, <1>6, Zenon

(* The latest value is a number that fits, and so is the last key.         *)
LEMMA LatestTyped ==
  ASSUME CheckpointsOrdered
  PROVE  /\ Latest \in 0..MaxValue
         /\ checkpoints # <<>> => LastKey \in 0..MaxKey /\ LastKey \in DOMAIN written
<1>1. CASE checkpoints = <<>>
  BY <1>1, CheckpointsAssumption DEF Latest
<1>2. CASE checkpoints # <<>>
  BY <1>2, PlacesTyped DEF Latest, LastKey
<1> QED
  BY <1>1, <1>2

(* In an ordered array no key is above the last one.                       *)
LEMMA LastIsLargest ==
  ASSUME CheckpointsOrdered, NEW i \in 1..Len(checkpoints)
  PROVE  checkpoints[i].key <= LastKey
<1>1. /\ Len(checkpoints) \in 1..Len(checkpoints) /\ i \in Nat /\ i <= Len(checkpoints)
      /\ checkpoints[i].key \in Nat /\ checkpoints[Len(checkpoints)].key \in Nat
  BY PlacesTyped
<1>2. CASE i = Len(checkpoints)
  BY <1>1, <1>2 DEF LastKey
<1>3. CASE i < Len(checkpoints)
  <2>1. checkpoints[i].key < checkpoints[Len(checkpoints)].key
    BY <1>1, <1>3, PlacesTyped DEF CheckpointsOrdered
  <2> QED
    BY <1>1, <2>1 DEF LastKey
<1> QED
  BY <1>1, <1>2, <1>3

(* An insertion keeps the order and adds the key at most once.             *)
LEMMA InsertOrdered ==
  ASSUME CheckpointsOrdered, NEW key \in 0..MaxKey, NEW value \in 0..MaxValue,
         Insert(key, value)
  PROVE  /\ checkpoints' \in Seq([key : 0..MaxKey, value : 0..MaxValue])
         /\ \A i, j \in DOMAIN checkpoints' :
              i < j => checkpoints'[i].key < checkpoints'[j].key
         /\ {checkpoints'[i].key : i \in DOMAIN checkpoints'} = DOMAIN written \cup {key}
<1> DEFINE Entry == [key : 0..MaxKey, value : 0..MaxValue]
           entry == [key |-> key, value |-> value]
           n == Len(checkpoints)
<1>0. checkpoints \in Seq(Entry) /\ n \in Nat /\ DOMAIN checkpoints = 1..n
  BY PlacesTyped DEF CheckpointsOrdered
<1>1. \A i, j \in 1..n : i < j => checkpoints[i].key < checkpoints[j].key
  BY <1>0 DEF CheckpointsOrdered
<1>2. /\ \A i \in 1..n : checkpoints[i] \in Entry /\ checkpoints[i].key \in DOMAIN written
      /\ \A k \in DOMAIN written : \E i \in 1..n : k = checkpoints[i].key
  BY PlacesTyped, Zenon
<1>3. ASSUME checkpoints # <<>> => LastKey < key, checkpoints' = Append(checkpoints, entry)
      PROVE  /\ checkpoints' \in Seq(Entry)
             /\ \A i, j \in DOMAIN checkpoints' :
                  i < j => checkpoints'[i].key < checkpoints'[j].key
             /\ {checkpoints'[i].key : i \in DOMAIN checkpoints'} = DOMAIN written \cup {key}
  <2>0. entry \in Entry /\ entry.key = key
    OBVIOUS
  <2>1. /\ checkpoints' \in Seq(Entry) /\ DOMAIN checkpoints' = 1..(n + 1)
        /\ checkpoints'[n + 1] = entry
        /\ \A i \in 1..n : checkpoints'[i] = checkpoints[i]
    <3> HIDE DEF Entry, entry
    <3> QED
      BY <1>0, <1>3, <2>0
  <2>2. \A i \in 1..n : checkpoints[i].key < key
    <3> SUFFICES ASSUME NEW i \in 1..n PROVE checkpoints[i].key < key
      OBVIOUS
    <3>1. checkpoints # <<>>
      BY <1>0
    <3>2. checkpoints[i].key \in Nat
      BY <1>2
    <3>3. LastKey \in Nat /\ LastKey < key /\ checkpoints[i].key <= LastKey
      BY <3>1, <1>3, LastIsLargest, LatestTyped
    <3> QED
      BY <3>2, <3>3
  <2>3. \A i, j \in 1..(n + 1) : i < j => checkpoints'[i].key < checkpoints'[j].key
    <3> SUFFICES ASSUME NEW i \in 1..(n + 1), NEW j \in 1..(n + 1), i < j
                 PROVE  checkpoints'[i].key < checkpoints'[j].key
      OBVIOUS
    <3>1. i \in 1..n /\ (j \in 1..n \/ j = n + 1)
      BY <1>0
    <3>2. checkpoints'[i].key = checkpoints[i].key
      BY <2>1, <3>1
    <3>3. CASE j \in 1..n
      <4>1. checkpoints'[j].key = checkpoints[j].key
        BY <2>1, <3>3
      <4> QED
        BY <1>1, <3>1, <3>2, <3>3, <4>1
    <3>4. CASE j = n + 1
      <4>1. checkpoints'[j].key = key
        BY <2>0, <2>1, <3>4
      <4> QED
        BY <2>2, <3>1, <3>2, <4>1
    <3> QED
      BY <3>1, <3>3, <3>4
  <2>4. {checkpoints'[i].key : i \in 1..(n + 1)} = DOMAIN written \cup {key}
    <3>1. \A i : i \in 1..(n + 1) <=> i \in 1..n \/ i = n + 1
      BY <1>0
    <3>2. checkpoints'[n + 1].key = key /\ \A i \in 1..n : checkpoints'[i].key = checkpoints[i].key
      BY <2>0, <2>1
    <3>3. ASSUME NEW i \in 1..(n + 1) PROVE checkpoints'[i].key \in DOMAIN written \cup {key}
      BY <3>1, <3>2, <1>2
    <3>4. ASSUME NEW k \in DOMAIN written \cup {key}
          PROVE  \E i \in 1..(n + 1) : k = checkpoints'[i].key
      <4>1. CASE k = key
        BY <4>1, <3>1, <3>2
      <4>2. CASE k \in DOMAIN written
        <5>1. PICK i \in 1..n : k = checkpoints[i].key
          BY <4>2, <1>2, Zenon
        <5>2. k = checkpoints'[i].key /\ i \in 1..(n + 1)
          BY <5>1, <3>1, <3>2, Zenon
        <5> QED
          BY <5>2
      <4> QED
        BY <4>1, <4>2
    <3> QED
      BY <3>3, <3>4
  <2> QED
    BY <2>1, <2>3, <2>4
<1>4. ASSUME checkpoints # <<>>, LastKey = key,
             checkpoints' = [checkpoints EXCEPT ![n].value = value]
      PROVE  /\ checkpoints' \in Seq(Entry)
             /\ \A i, j \in DOMAIN checkpoints' :
                  i < j => checkpoints'[i].key < checkpoints'[j].key
             /\ {checkpoints'[i].key : i \in DOMAIN checkpoints'} = DOMAIN written \cup {key}
  <2> DEFINE last == [checkpoints[n] EXCEPT !.value = value]
  <2>1. n \in 1..n /\ checkpoints[n] \in Entry
    BY <1>4, PlacesTyped
  <2>2. last \in Entry /\ last.key = checkpoints[n].key
    BY <2>1
  <2>3. checkpoints' = [checkpoints EXCEPT ![n] = last]
    BY <1>4
  <2>4. /\ checkpoints' \in Seq(Entry) /\ DOMAIN checkpoints' = 1..n
        /\ \A i \in 1..n : checkpoints'[i] = IF i = n THEN last ELSE checkpoints[i]
    <3> HIDE DEF Entry, last
    <3> QED
      BY <1>0, <2>1, <2>2, <2>3
  <2>5. \A i \in 1..n : checkpoints'[i].key = checkpoints[i].key
    <3> HIDE DEF last
    <3> QED
      BY <2>2, <2>4
  <2>6. key \in DOMAIN written
    BY <1>4, LatestTyped
  <2>7. {checkpoints'[i].key : i \in 1..n} = DOMAIN written \cup {key}
    <3>1. ASSUME NEW i \in 1..n PROVE checkpoints'[i].key \in DOMAIN written \cup {key}
      BY <2>5, <1>2
    <3>2. ASSUME NEW k \in DOMAIN written \cup {key}
          PROVE  \E i \in 1..n : k = checkpoints'[i].key
      BY <2>5, <2>6, <1>2
    <3> QED
      BY <3>1, <3>2
  <2> QED
    BY <1>1, <2>4, <2>5, <2>7
<1> QED
  BY <1>3, <1>4 DEF Insert

(* A push at a key, of a History not after the current block.              *)
LEMMA RecordInv ==
  ASSUME CheckpointsInv, NEW key \in 0..MaxKey, NEW value \in 0..MaxValue,
         Record(key, value), kind = "History" => key <= blockNumber
  PROVE  CheckpointsInv'
<1>1. /\ checkpoints' \in Seq([key : 0..MaxKey, value : 0..MaxValue])
      /\ \A i, j \in DOMAIN checkpoints' : i < j => checkpoints'[i].key < checkpoints'[j].key
      /\ {checkpoints'[i].key : i \in DOMAIN checkpoints'} = DOMAIN written \cup {key}
  BY InsertOrdered DEF CheckpointsInv, Record
<1>2. DOMAIN written' = DOMAIN written \cup {key}
      /\ kind' = kind /\ blockNumber' = blockNumber
  BY DEF Record
<1> QED
  BY <1>1, <1>2 DEF CheckpointsInv, CheckpointsOrdered

LEMMA PushInv ==
  ASSUME CheckpointsInv, NEW value \in Nat, Push(value)
  PROVE  CheckpointsInv'
<1>1. blockNumber \in 0..MaxKey /\ value \in 0..MaxValue
  BY CheckpointsAssumption DEF Push, Fits, CheckpointsInv, CheckpointsOrdered
<1> QED
  BY <1>1, RecordInv DEF Push

LEMMA MineInv ==
  ASSUME CheckpointsInv, Mine
  PROVE  CheckpointsInv'
<1>1. \A k \in DOMAIN written : k \in Nat
  BY PlacesTyped DEF CheckpointsInv
<1> QED
  BY <1>1 DEF Mine, CheckpointsInv, CheckpointsOrdered

LEMMA CheckpointsNextInv == CheckpointsInv /\ [CheckpointsNext]_checkpointVars => CheckpointsInv'
<1> SUFFICES ASSUME CheckpointsInv, [CheckpointsNext]_checkpointVars
             PROVE  CheckpointsInv'
  OBVIOUS
<1>0. Latest \in Nat
  BY LatestTyped, CheckpointsAssumption DEF CheckpointsInv
<1>1. ASSUME NEW x \in Inputs, Push(x) PROVE CheckpointsInv'
  BY <1>1, PushInv, CheckpointsAssumption
<1>2. ASSUME NEW x \in Inputs, PushAdded(x) PROVE CheckpointsInv'
  <2>1. Latest + x \in Nat
    BY <1>0, CheckpointsAssumption
  <2> QED
    BY <1>2, <2>1, PushInv DEF PushAdded
<1>3. ASSUME NEW x \in Inputs, PushSubtracted(x) PROVE CheckpointsInv'
  <2>1. Latest - x \in Nat
    BY <1>0, <1>3, CheckpointsAssumption DEF PushSubtracted
  <2> QED
    BY <1>3, <2>1, PushInv DEF PushSubtracted
<1>4. ASSUME NEW key \in 0..MaxKey, NEW x \in Inputs, PushAt(key, x) PROVE CheckpointsInv'
  <2>1. x \in 0..MaxValue
    BY <1>4, CheckpointsAssumption DEF PushAt, Fits
  <2> QED
    BY <1>4, <2>1, RecordInv DEF PushAt
<1>5. CASE Mine
  BY <1>5, MineInv
<1>6. CASE UNCHANGED checkpointVars
  BY <1>6 DEF checkpointVars, CheckpointsInv, CheckpointsOrdered
<1> QED
  BY <1>1, <1>2, <1>3, <1>4, <1>5, <1>6 DEF CheckpointsNext

(* There is always one checkpoint for each key pushed at, in the order of  *)
(* the keys and none in a block to come (Checkpoints.js:176-201).          *)
THEOREM CheckpointsStayOrdered == CheckpointsSpec => []CheckpointsOrdered
<1>1. CheckpointsInv => CheckpointsOrdered
  BY DEF CheckpointsInv
<1> QED
  BY <1>1, CheckpointsInitInv, CheckpointsNextInv, PTL DEF CheckpointsSpec
-----------------------------------------------------------------------------
(* Every set of numbers has a least one.                                   *)
LEMMA LeastNatural ==
  ASSUME NEW B, B \subseteq Nat, B # {}
  PROVE  \E m \in B : \A k \in B : ~ (k < m)
<1>1. PICK m \in B : \A k \in B : ~ (<<k, m>> \in OpToRel(<, Nat))
  BY NatLessThanWellFounded, WFMin
<1>2. \A k \in B : k < m => <<k, m>> \in OpToRel(<, Nat)
  BY DEF OpToRel
<1> QED
  BY <1>1, <1>2

(* One step of a bisection whose upper half begins in the set above, a     *)
(* function that takes such steps, what it should find, and when there is  *)
(* such a place: the set has with each position all that follow.           *)
Halving(s, above, part) ==
  LET mid == Average(part[1], part[2])
  IN  IF part[1] >= part[2] THEN part[2]
      ELSE IF mid \in above THEN s[<<part[1], mid>>] ELSE s[<<mid + 1, part[2]>>]
Bisects(s, above, n) == s = [part \in (0..n) \X (0..n) |-> Halving(s, above, part)]
Parts(above, l, h, p) ==
  /\ p \in l..h
  /\ \A i \in l..(p - 1) : i \notin above
  /\ \A i \in p..(h - 1) : i \in above
Upward(above, n) == \A i, j \in 0..(n - 1) : i <= j /\ i \in above => j \in above

LEMMA PartingExists ==
  ASSUME NEW n \in Nat, NEW above, Upward(above, n),
         NEW l \in 0..n, NEW h \in 0..n, l <= h
  PROVE  \E p : Parts(above, l, h, p)
<1> DEFINE B == {p \in l..h : p = h \/ p \in above}
<1>1. B \subseteq Nat /\ h \in B
  OBVIOUS
<1>2. PICK p \in B : \A k \in B : ~ (k < p)
  BY <1>1, LeastNatural
<1>3. p \in l..h /\ (p = h \/ p \in above) /\ p \in Nat
  BY <1>2
<1>4. ASSUME NEW i \in l..(p - 1) PROVE i \notin above
  <2>1. i \in l..h /\ i < p
    BY <1>3
  <2> QED
    BY <1>2, <2>1
<1>5. ASSUME NEW i \in p..(h - 1) PROVE i \in above
  <2>1. i \in 0..(n - 1) /\ p \in 0..(n - 1) /\ p <= i /\ p # h
    BY <1>3
  <2> QED
    BY <1>3, <2>1 DEF Upward
<1> QED
  BY <1>3, <1>4, <1>5 DEF Parts

LEMMA PartingUnique ==
  ASSUME NEW above, NEW l \in Nat, NEW h \in Nat, NEW p, NEW q,
         Parts(above, l, h, p), Parts(above, l, h, q)
  PROVE  p = q
<1>1. p \in l..h /\ q \in l..h
  BY DEF Parts
<1>2. CASE p < q
  <2>1. p \in l..(q - 1) /\ p \in p..(h - 1)
    BY <1>1, <1>2
  <2> QED
    BY <2>1 DEF Parts
<1>3. CASE q < p
  <2>1. q \in l..(p - 1) /\ q \in q..(h - 1)
    BY <1>1, <1>3
  <2> QED
    BY <2>1 DEF Parts
<1> QED
  BY <1>1, <1>2, <1>3

(* What parts the half of a part that a bisection takes parts the whole.   *)
LEMMA HalfParts ==
  ASSUME NEW n \in Nat, NEW above, Upward(above, n),
         NEW l \in 0..n, NEW h \in 0..n, l < h, NEW p
  PROVE  /\ Average(l, h) \in l..(h - 1) /\ Average(l, h) \in Nat
         /\ Average(l, h) \in above /\ Parts(above, l, Average(l, h), p) => Parts(above, l, h, p)
         /\ Average(l, h) \notin above /\ Parts(above, Average(l, h) + 1, h, p) => Parts(above, l, h, p)
<1> DEFINE mid == Average(l, h)
<1>1. mid \in l..(h - 1) /\ mid \in Nat
  BY DEF Average
<1> HIDE DEF mid
<1>2. ASSUME mid \in above, Parts(above, l, mid, p) PROVE Parts(above, l, h, p)
  <2>1. p \in l..mid /\ \A i \in l..(p - 1) : i \notin above
    BY <1>2 DEF Parts
  <2>2. ASSUME NEW i \in p..(h - 1) PROVE i \in above
    <3>1. CASE i < mid
      <4>1. i \in p..(mid - 1)
        BY <1>1, <2>1, <3>1
      <4> QED
        BY <1>2, <4>1 DEF Parts
    <3>2. CASE ~(i < mid)
      <4>1. mid \in 0..(n - 1) /\ i \in 0..(n - 1) /\ mid <= i
        BY <1>1, <2>1, <3>2
      <4> QED
        BY <1>2, <4>1 DEF Upward
    <3> QED
      BY <3>1, <3>2
  <2>3. p \in l..h
    BY <1>1, <2>1
  <2> QED
    BY <2>1, <2>2, <2>3 DEF Parts
<1>3. ASSUME mid \notin above, Parts(above, mid + 1, h, p) PROVE Parts(above, l, h, p)
  <2>1. p \in (mid + 1)..h /\ \A i \in p..(h - 1) : i \in above
    BY <1>3 DEF Parts
  <2>2. ASSUME NEW i \in l..(p - 1) PROVE i \notin above
    <3>1. CASE i <= mid
      <4>1. mid \in 0..(n - 1) /\ i \in 0..(n - 1)
        BY <1>1, <3>1
      <4> QED
        BY <1>3, <3>1, <4>1 DEF Upward
    <3>2. CASE ~(i <= mid)
      <4>1. i \in (mid + 1)..(p - 1)
        BY <1>1, <2>1, <3>2
      <4> QED
        BY <1>3, <4>1 DEF Parts
    <3> QED
      BY <3>1, <3>2
  <2>3. p \in l..h
    BY <1>1, <2>1
  <2> QED
    BY <2>1, <2>2, <2>3 DEF Parts
<1> QED
  BY <1>1, <1>2, <1>3 DEF mid

(* Bisecting is a function, so that the recursive definition has a value.  *)
LEMMA BisectionExists ==
  ASSUME NEW n \in Nat, NEW above, Upward(above, n)
  PROVE  \E s : Bisects(s, above, n)
<1> DEFINE place(part) == IF part[1] >= part[2] THEN part[2]
                          ELSE CHOOSE p : Parts(above, part[1], part[2], p)
           s == [part \in (0..n) \X (0..n) |-> place(part)]
<1>1. ASSUME NEW l \in 0..n, NEW h \in 0..n
      PROVE  /\ s[<<l, h>>] = IF l >= h THEN h ELSE CHOOSE p : Parts(above, l, h, p)
             /\ l <= h => Parts(above, l, h, s[<<l, h>>])
  <2>1. <<l, h>> \in (0..n) \X (0..n)
    OBVIOUS
  <2>2. s[<<l, h>>] = place(<<l, h>>)
    <3> HIDE DEF place
    <3> QED
      BY <2>1
  <2>3. s[<<l, h>>] = IF l >= h THEN h ELSE CHOOSE p : Parts(above, l, h, p)
    <3> HIDE DEF s
    <3> QED
      BY <2>2
  <2> HIDE DEF s
  <2>4. CASE l < h
    <3>1. s[<<l, h>>] = CHOOSE p : Parts(above, l, h, p)
      BY <2>3, <2>4
    <3> QED
      BY <2>4, <3>1, PartingExists
  <2>5. CASE l = h
    BY <2>3, <2>5 DEF Parts
  <2> QED
    BY <2>3, <2>4, <2>5
<1>2. ASSUME NEW part \in (0..n) \X (0..n)
      PROVE  place(part) = Halving(s, above, part)
  <2> DEFINE l == part[1]
             h == part[2]
  <2>1. l \in 0..n /\ h \in 0..n /\ part = <<l, h>>
    OBVIOUS
  <2>2. place(part) = s[<<l, h>>]
    <3> HIDE DEF place, l, h
    <3> QED
      BY <2>1
  <2> HIDE DEF s, place
  <2>3. CASE l >= h
    BY <1>1, <2>1, <2>2, <2>3 DEF Halving
  <2>4. CASE l < h
    <3>1. Parts(above, l, h, s[<<l, h>>])
      BY <1>1, <2>1, <2>4
    <3> DEFINE mid == Average(l, h)
    <3>2. mid \in l..(h - 1) /\ mid \in Nat
      BY <2>1, <2>4, HalfParts
    <3>3. mid \in 0..n /\ mid + 1 \in 0..n /\ l <= mid /\ mid + 1 <= h
      BY <2>1, <3>2
    <3>4. CASE mid \in above
      <4>1. Parts(above, l, mid, s[<<l, mid>>])
        BY <1>1, <2>1, <3>3
      <4>2. Parts(above, l, h, s[<<l, mid>>])
        BY <2>1, <2>4, <3>4, <4>1, HalfParts
      <4>3. s[<<l, h>>] = s[<<l, mid>>]
        BY <2>1, <3>1, <4>2, PartingUnique
      <4> QED
        BY <2>1, <2>2, <2>4, <3>4, <4>3 DEF Halving
    <3>5. CASE mid \notin above
      <4>1. Parts(above, mid + 1, h, s[<<mid + 1, h>>])
        BY <1>1, <2>1, <3>3
      <4>2. Parts(above, l, h, s[<<mid + 1, h>>])
        BY <2>1, <2>4, <3>5, <4>1, HalfParts
      <4>3. s[<<l, h>>] = s[<<mid + 1, h>>]
        BY <2>1, <3>1, <4>2, PartingUnique
      <4> QED
        BY <2>1, <2>2, <2>4, <3>5, <4>3 DEF Halving
    <3> QED
      BY <3>4, <3>5
  <2> QED
    BY <2>1, <2>3, <2>4
<1>3. s = [part \in (0..n) \X (0..n) |-> Halving(s, above, part)]
  <2> HIDE DEF place
  <2>1. [part \in (0..n) \X (0..n) |-> place(part)] = [part \in (0..n) \X (0..n) |-> Halving(s, above, part)]
    <3> HIDE DEF s
    <3> QED
      BY <1>2, Zenon
  <2> QED
    BY <2>1
<1> QED
  BY <1>3 DEF Bisects

LEMMA BisectionStep ==
  ASSUME NEW n, NEW above, NEW s, Bisects(s, above, n), NEW l \in 0..n, NEW h \in 0..n
  PROVE  s[<<l, h>>] = Halving(s, above, <<l, h>>)
<1>1. <<l, h>> \in (0..n) \X (0..n)
  OBVIOUS
<1> QED
  BY <1>1, Zenon DEF Bisects

(* A bisection finds where its part is parted.                             *)
LEMMA BisectionParts ==
  ASSUME NEW n \in Nat, NEW above, Upward(above, n), NEW s, Bisects(s, above, n),
         NEW l \in 0..n, NEW h \in 0..n, l <= h
  PROVE  Parts(above, l, h, s[<<l, h>>])
<1> DEFINE Right(a, b) == Parts(above, a, b, s[<<a, b>>])
           Wrong == {d \in Nat : \E a, b \in 0..n : a <= b /\ d = b - a /\ ~Right(a, b)}
<1>1. SUFFICES Wrong = {}
  <2>1. h - l \in Nat
    OBVIOUS
  <2> HIDE DEF Right
  <2>2. ~Right(l, h) => h - l \in Wrong
    BY <2>1
  <2> QED
    BY <1>1, <2>2 DEF Right
<1>2. SUFFICES ASSUME Wrong # {} PROVE FALSE
  OBVIOUS
<1> HIDE DEF Right
<1>3. PICK d \in Wrong : \A k \in Wrong : ~ (k < d)
  BY <1>2, LeastNatural
<1>4. PICK a \in 0..n, b \in 0..n : a <= b /\ d = b - a /\ ~Right(a, b)
  BY <1>3
<1>5. ASSUME NEW x \in 0..n, NEW y \in 0..n, x <= y, y - x < d
      PROVE  Right(x, y)
  <2>1. y - x \in Nat
    BY <1>5
  <2> QED
    BY <1>3, <1>5, <2>1
<1> HIDE DEF Wrong
<1>8. s[<<a, b>>] = Halving(s, above, <<a, b>>)
  BY <1>4, BisectionStep
<1>6. CASE a = b
  <2>1. s[<<a, b>>] = b
    BY <1>4, <1>6, <1>8 DEF Halving
  <2> QED
    BY <1>4, <1>6, <2>1 DEF Right, Parts
<1>7. CASE a < b
  <2> DEFINE mid == Average(a, b)
  <2>1. mid \in a..(b - 1) /\ mid \in Nat
    BY <1>7, HalfParts
  <2>2. mid \in 0..n /\ mid + 1 \in 0..n /\ a <= mid /\ mid + 1 <= b /\ mid - a < d /\ b - (mid + 1) < d
    <3> HIDE DEF mid
    <3> QED
      BY <1>4, <2>1
  <2>3. CASE mid \in above
    <3>1. s[<<a, b>>] = s[<<a, mid>>]
      BY <1>4, <1>7, <1>8, <2>3 DEF Halving
    <3>2. Parts(above, a, mid, s[<<a, mid>>])
      BY <1>5, <2>2 DEF Right
    <3>3. Parts(above, a, b, s[<<a, b>>])
      BY <1>7, <2>3, <3>1, <3>2, HalfParts
    <3> QED
      BY <1>4, <3>3 DEF Right
  <2>4. CASE mid \notin above
    <3>1. s[<<a, b>>] = s[<<mid + 1, b>>]
      BY <1>4, <1>7, <1>8, <2>4 DEF Halving
    <3>2. Parts(above, mid + 1, b, s[<<mid + 1, b>>])
      BY <1>5, <2>2 DEF Right
    <3>3. Parts(above, a, b, s[<<a, b>>])
      BY <1>7, <2>4, <3>1, <3>2, HalfParts
    <3> QED
      BY <1>4, <3>3 DEF Right
  <2> QED
    BY <2>3, <2>4
<1> QED
  BY <1>4, <1>6, <1>7

(* A checkpoint holds what was last pushed at its key.                     *)
Stored == \A i \in DOMAIN checkpoints : written[checkpoints[i].key] = checkpoints[i].value

(* The positions of an array's first n checkpoints whose keys are above a  *)
(* key, or not below it.                                                   *)
KeysAbove(key, n) == {p \in 0..(n - 1) : KeyAt(p) > key}
KeysFrom(key, n) == {p \in 0..(n - 1) : ~ (KeyAt(p) < key)}

LEMMA KeysSorted ==
  ASSUME CheckpointsOrdered
  PROVE  /\ \A p \in 0..(Len(checkpoints) - 1) : KeyAt(p) \in 0..MaxKey /\ KeyAt(p) \in Nat
         /\ \A p, q \in 0..(Len(checkpoints) - 1) : p < q => KeyAt(p) < KeyAt(q)
<1> DEFINE n == Len(checkpoints)
<1>1. n \in Nat /\ DOMAIN checkpoints = 1..n
      /\ \A i \in 1..n : checkpoints[i] \in [key : 0..MaxKey, value : 0..MaxValue]
  BY PlacesTyped
<1>2. \A i, j \in 1..n : i < j => checkpoints[i].key < checkpoints[j].key
  BY <1>1 DEF CheckpointsOrdered
<1> HIDE DEF n
<1>3. ASSUME NEW p \in 0..(n - 1) PROVE p + 1 \in 1..n /\ KeyAt(p) \in 0..MaxKey
  BY <1>1 DEF KeyAt
<1>4. ASSUME NEW p \in 0..(n - 1), NEW q \in 0..(n - 1), p < q PROVE KeyAt(p) < KeyAt(q)
  BY <1>2, <1>3, <1>4 DEF KeyAt
<1>5. \A x \in 0..MaxKey : x \in Nat
  BY CheckpointsAssumption
<1> QED
  BY <1>3, <1>4, <1>5 DEF n

(* The keys are sorted, so that both sets go on to the end.                *)
LEMMA KeysUpward ==
  ASSUME CheckpointsOrdered, NEW key \in Int, NEW n \in 0..Len(checkpoints)
  PROVE  Upward(KeysAbove(key, n), n) /\ Upward(KeysFrom(key, n), n)
<1>0. Len(checkpoints) \in Nat
  BY PlacesTyped
<1>1. \A i \in 0..(n - 1) : i \in 0..(Len(checkpoints) - 1)
  BY <1>0
<1>2. ASSUME NEW i \in 0..(n - 1), NEW j \in 0..(n - 1), i <= j
      PROVE  KeyAt(i) \in Nat /\ KeyAt(j) \in Nat /\ KeyAt(i) <= KeyAt(j)
  <2>1. KeyAt(i) \in Nat /\ KeyAt(j) \in Nat
    BY <1>1, KeysSorted
  <2>2. CASE i = j
    BY <2>1, <2>2
  <2>3. CASE i < j
    <3>1. KeyAt(i) < KeyAt(j)
      BY <1>1, <2>3, KeysSorted
    <3> QED
      BY <2>1, <3>1
  <2> QED
    BY <1>0, <1>2, <2>2, <2>3
<1> QED
  BY <1>2 DEF Upward, KeysAbove, KeysFrom

(* The bisections of the library are bisections.                           *)
LEMMA UpperBinaryLookupParts ==
  ASSUME CheckpointsOrdered, NEW key \in Int, NEW high \in 0..Len(checkpoints), NEW low \in 0..high
  PROVE  Parts(KeysAbove(key, high), low, high, UpperBinaryLookup(key, low, high))
<1> DEFINE above == KeysAbove(key, high)
           half(s, part) == LET l == part[1]  h == part[2]  mid == Average(l, h)
                            IN  IF l >= h THEN h
                                ELSE IF KeyAt(mid) > key THEN s[<<l, mid>>] ELSE s[<<mid + 1, h>>]
           Searches(s) == s = [part \in (0..high) \X (0..high) |->
                            LET l == part[1]  h == part[2]  mid == Average(l, h)
                            IN  IF l >= h THEN h
                                ELSE IF KeyAt(mid) > key THEN s[<<l, mid>>] ELSE s[<<mid + 1, h>>]]
<1>0. high \in Nat /\ low \in 0..high /\ high \in 0..high /\ low <= high
  BY PlacesTyped
<1>1. UpperBinaryLookup(key, low, high) = (CHOOSE s : Searches(s))[<<low, high>>]
  BY DEF UpperBinaryLookup
<1>2. ASSUME NEW s, NEW part \in (0..high) \X (0..high)
      PROVE  half(s, part) = Halving(s, above, part)
  <2>1. /\ part[1] \in 0..high /\ part[2] \in 0..high
        /\ part[1] < part[2] => Average(part[1], part[2]) \in 0..(high - 1)
    BY <1>0 DEF Average
  <2> QED
    BY <2>1 DEF Halving, KeysAbove
<1>3. ASSUME NEW s PROVE Searches(s) <=> Bisects(s, above, high)
  <2>1. Searches(s) <=> s = [part \in (0..high) \X (0..high) |-> half(s, part)]
    BY Zenon
  <2> HIDE DEF half, Searches, above
  <2>2. [part \in (0..high) \X (0..high) |-> half(s, part)]
          = [part \in (0..high) \X (0..high) |-> Halving(s, above, part)]
    BY <1>2, Zenon
  <2> QED
    BY <2>1, <2>2 DEF Bisects
<1> HIDE DEF Searches
<1>4. Upward(above, high)
  BY KeysUpward
<1> HIDE DEF above
<1>5. Bisects(CHOOSE s : Searches(s), above, high)
  BY <1>0, <1>3, <1>4, BisectionExists
<1>6. Parts(above, low, high, (CHOOSE s : Searches(s))[<<low, high>>])
  BY <1>0, <1>4, <1>5, BisectionParts
<1> QED
  BY <1>1, <1>6 DEF above

LEMMA LowerBinaryLookupParts ==
  ASSUME CheckpointsOrdered, NEW key \in Int, NEW high \in 0..Len(checkpoints), NEW low \in 0..high
  PROVE  Parts(KeysFrom(key, high), low, high, LowerBinaryLookup(key, low, high))
<1> DEFINE from == KeysFrom(key, high)
           half(s, part) == LET l == part[1]  h == part[2]  mid == Average(l, h)
                            IN  IF l >= h THEN h
                                ELSE IF KeyAt(mid) < key THEN s[<<mid + 1, h>>] ELSE s[<<l, mid>>]
           Searches(s) == s = [part \in (0..high) \X (0..high) |->
                            LET l == part[1]  h == part[2]  mid == Average(l, h)
                            IN  IF l >= h THEN h
                                ELSE IF KeyAt(mid) < key THEN s[<<mid + 1, h>>] ELSE s[<<l, mid>>]]
<1>0. high \in Nat /\ low \in 0..high /\ high \in 0..high /\ low <= high
  BY PlacesTyped
<1>1. LowerBinaryLookup(key, low, high) = (CHOOSE s : Searches(s))[<<low, high>>]
  BY DEF LowerBinaryLookup
<1>2. ASSUME NEW s, NEW part \in (0..high) \X (0..high)
      PROVE  half(s, part) = Halving(s, from, part)
  <2>1. /\ part[1] \in 0..high /\ part[2] \in 0..high
        /\ part[1] < part[2] => Average(part[1], part[2]) \in 0..(high - 1)
    BY <1>0 DEF Average
  <2> QED
    BY <2>1 DEF Halving, KeysFrom
<1>3. ASSUME NEW s PROVE Searches(s) <=> Bisects(s, from, high)
  <2>1. Searches(s) <=> s = [part \in (0..high) \X (0..high) |-> half(s, part)]
    BY Zenon
  <2> HIDE DEF half, Searches, from
  <2>2. [part \in (0..high) \X (0..high) |-> half(s, part)]
          = [part \in (0..high) \X (0..high) |-> Halving(s, from, part)]
    BY <1>2, Zenon
  <2> QED
    BY <2>1, <2>2 DEF Bisects
<1> HIDE DEF Searches
<1>4. Upward(from, high)
  BY KeysUpward
<1> HIDE DEF from
<1>5. Bisects(CHOOSE s : Searches(s), from, high)
  BY <1>0, <1>3, <1>4, BisectionExists
<1>6. Parts(from, low, high, (CHOOSE s : Searches(s))[<<low, high>>])
  BY <1>0, <1>4, <1>5, BisectionParts
<1> QED
  BY <1>1, <1>6 DEF from

(* What stands before the place where the keys pass a key was the last to  *)
(* be pushed up to it, and what stands at the place is the first from it.  *)
LEMMA ValueBeforeIsLast ==
  ASSUME CheckpointsOrdered, Stored, NEW key \in Int, NEW p,
         Parts(KeysAbove(key, Len(checkpoints)), 0, Len(checkpoints), p)
  PROVE  ValueBefore(p) = LastUpTo(key)
<1> DEFINE n == Len(checkpoints)
           earlier == {x \in DOMAIN written : x <= key}
<1>1. /\ n \in Nat /\ DOMAIN checkpoints = 1..n
      /\ \A i \in 1..n : checkpoints[i].key \in DOMAIN written
      /\ \A k \in DOMAIN written : k \in Nat /\ \E i \in 1..n : k = checkpoints[i].key
  BY PlacesTyped
<1>2. /\ \A i \in 0..(n - 1) : KeyAt(i) \in Nat
      /\ \A i, j \in 0..(n - 1) : i < j => KeyAt(i) < KeyAt(j)
  BY KeysSorted
<1> HIDE DEF n
<1>3. p \in 0..n /\ p \in Nat
  BY <1>1 DEF Parts, n
<1>4. ASSUME NEW i \in 1..n
      PROVE  /\ checkpoints[i].key = KeyAt(i - 1) /\ i - 1 \in 0..(n - 1)
             /\ checkpoints[i].key \in Nat
             /\ checkpoints[i].key <= key <=> i <= p
  <2>1. checkpoints[i].key = KeyAt(i - 1) /\ i - 1 \in 0..(n - 1)
    BY <1>1 DEF KeyAt
  <2>2. KeyAt(i - 1) \in Nat
    BY <1>2, <2>1
  <2>3. CASE i <= p
    <3>1. i - 1 \in 0..(p - 1)
      BY <1>3, <2>1, <2>3
    <3>2. i - 1 \notin KeysAbove(key, n)
      BY <3>1 DEF Parts, n
    <3> QED
      BY <2>1, <2>2, <2>3, <3>2 DEF KeysAbove
  <2>4. CASE ~ (i <= p)
    <3>1. i - 1 \in p..(n - 1)
      BY <1>3, <2>1, <2>4
    <3>2. i - 1 \in KeysAbove(key, n)
      BY <3>1 DEF Parts, n
    <3>3. KeyAt(i - 1) > key
      BY <3>2 DEF KeysAbove
    <3> QED
      BY <2>1, <2>2, <2>4, <3>3
  <2> QED
    BY <2>1, <2>2, <2>3, <2>4
<1>5. CASE p = 0
  <2>1. ASSUME NEW x \in earlier PROVE FALSE
    <3>1. PICK i \in 1..n : x = checkpoints[i].key
      BY <1>1
    <3>2. i <= p
      BY <1>4, <3>1
    <3> QED
      BY <1>1, <1>5, <3>1, <3>2
  <2>2. earlier = {}
    BY <2>1
  <2> QED
    BY <1>5, <2>2 DEF ValueBefore, LastUpTo
<1>6. CASE p # 0
  <2> DEFINE k == checkpoints[p].key
  <2>1. p \in 1..n
    BY <1>3, <1>6
  <2>2. k \in earlier /\ k \in Nat
    <3>1. k \in DOMAIN written
      BY <1>1, <2>1
    <3>2. k <= key /\ k \in Nat
      BY <1>3, <1>4, <2>1
    <3> QED
      BY <3>1, <3>2
  <2>3. ASSUME NEW x \in earlier PROVE x <= k /\ x \in Nat
    <3>1. PICK i \in 1..n : x = checkpoints[i].key
      BY <1>1
    <3>2. i <= p
      BY <1>4, <3>1
    <3>3. i - 1 < p - 1 => KeyAt(i - 1) < KeyAt(p - 1)
      BY <1>2, <1>4, <2>1, <3>1
    <3>4. i = p => x = k
      BY <3>1
    <3>5. x = KeyAt(i - 1) /\ k = KeyAt(p - 1) /\ x \in Nat
      BY <1>1, <1>4, <2>1, <3>1
    <3> HIDE DEF k
    <3> QED
      BY <1>3, <2>2, <3>1, <3>2, <3>3, <3>4, <3>5
  <2> HIDE DEF k, earlier
  <2>4. Max(earlier) = k
    <3>1. \A x \in earlier : (\A y \in earlier : x >= y) <=> x = k
      BY <2>2, <2>3
    <3>2. Max(earlier) \in earlier /\ \A y \in earlier : Max(earlier) >= y
      <4>1. \E x \in earlier : \A y \in earlier : x >= y
        BY <2>2, <3>1
      <4> QED
        BY <4>1, Zenon DEF Max
    <3> QED
      BY <3>1, <3>2
  <2>5. LastUpTo(key) = written[k]
    BY <2>2, <2>4 DEF LastUpTo, earlier
  <2>6. ValueBefore(p) = checkpoints[p].value /\ written[k] = checkpoints[p].value
    BY <1>1, <1>6, <2>1 DEF ValueBefore, Stored, k
  <2> QED
    BY <2>5, <2>6
<1> QED
  BY <1>5, <1>6

LEMMA ValueAtIsFirst ==
  ASSUME CheckpointsOrdered, Stored, NEW key \in Int, NEW p,
         Parts(KeysFrom(key, Len(checkpoints)), 0, Len(checkpoints), p)
  PROVE  (IF p = Len(checkpoints) THEN 0 ELSE checkpoints[p + 1].value) = FirstFrom(key)
<1> DEFINE n == Len(checkpoints)
           later == {x \in DOMAIN written : x >= key}
<1>1. /\ n \in Nat /\ DOMAIN checkpoints = 1..n
      /\ \A i \in 1..n : checkpoints[i].key \in DOMAIN written
      /\ \A k \in DOMAIN written : k \in Nat /\ \E i \in 1..n : k = checkpoints[i].key
  BY PlacesTyped
<1>2. /\ \A i \in 0..(n - 1) : KeyAt(i) \in Nat
      /\ \A i, j \in 0..(n - 1) : i < j => KeyAt(i) < KeyAt(j)
  BY KeysSorted
<1> HIDE DEF n
<1>3. p \in 0..n /\ p \in Nat
  BY <1>1 DEF Parts, n
<1>4. ASSUME NEW i \in 1..n
      PROVE  /\ checkpoints[i].key = KeyAt(i - 1) /\ i - 1 \in 0..(n - 1)
             /\ checkpoints[i].key \in Nat
             /\ checkpoints[i].key >= key <=> i > p
  <2>1. checkpoints[i].key = KeyAt(i - 1) /\ i - 1 \in 0..(n - 1)
    BY <1>1 DEF KeyAt
  <2>2. KeyAt(i - 1) \in Nat
    BY <1>2, <2>1
  <2>3. CASE ~ (i > p)
    <3>1. i - 1 \in 0..(p - 1)
      BY <1>3, <2>1, <2>3
    <3>2. i - 1 \notin KeysFrom(key, n)
      BY <3>1 DEF Parts, n
    <3> QED
      BY <2>1, <2>2, <2>3, <3>2 DEF KeysFrom
  <2>4. CASE i > p
    <3>1. i - 1 \in p..(n - 1)
      BY <1>3, <2>1, <2>4
    <3>2. i - 1 \in KeysFrom(key, n)
      BY <3>1 DEF Parts, n
    <3>3. ~ (KeyAt(i - 1) < key)
      BY <3>2 DEF KeysFrom
    <3> QED
      BY <2>1, <2>2, <2>4, <3>3
  <2> QED
    BY <2>1, <2>2, <2>3, <2>4
<1>5. CASE p = n
  <2>1. ASSUME NEW x \in later PROVE FALSE
    <3>1. PICK i \in 1..n : x = checkpoints[i].key
      BY <1>1
    <3>2. i > p
      BY <1>4, <3>1
    <3> QED
      BY <1>1, <1>5, <3>1, <3>2
  <2>2. later = {}
    BY <2>1
  <2> QED
    BY <1>5, <2>2 DEF FirstFrom, n
<1>6. CASE p # n
  <2> DEFINE k == checkpoints[p + 1].key
  <2>1. p + 1 \in 1..n /\ p + 1 > p
    BY <1>1, <1>3, <1>6
  <2>2. k \in later /\ k \in Nat
    <3>1. k \in DOMAIN written
      BY <1>1, <2>1
    <3>2. k >= key /\ k \in Nat
      BY <1>3, <1>4, <2>1
    <3> QED
      BY <3>1, <3>2
  <2>3. ASSUME NEW x \in later PROVE x >= k /\ x \in Nat
    <3>1. PICK i \in 1..n : x = checkpoints[i].key
      BY <1>1
    <3>2. i > p
      BY <1>4, <3>1
    <3>3. x = KeyAt(i - 1) /\ x \in Nat
      BY <1>4, <3>1
    <3>4. k = KeyAt(p) /\ p \in 0..(n - 1)
      BY <1>1, <1>3, <1>6 DEF KeyAt
    <3>5. p < i - 1 => KeyAt(p) < KeyAt(i - 1)
      BY <1>2, <1>4, <3>1, <3>4
    <3>6. i = p + 1 => x = k
      BY <3>1
    <3> HIDE DEF k
    <3> QED
      BY <1>3, <2>2, <3>1, <3>2, <3>3, <3>4, <3>5, <3>6
  <2> HIDE DEF k, later
  <2>4. Min(later) = k
    <3>1. \A x \in later : (\A y \in later : x <= y) <=> x = k
      BY <2>2, <2>3
    <3>2. Min(later) \in later /\ \A y \in later : Min(later) <= y
      <4>1. \E x \in later : \A y \in later : x <= y
        BY <2>2, <3>1
      <4> QED
        BY <4>1, Zenon DEF Min
    <3> QED
      BY <3>1, <3>2
  <2>5. FirstFrom(key) = written[k]
    BY <2>2, <2>4 DEF FirstFrom, later
  <2>6. written[k] = checkpoints[p + 1].value
    BY <1>1, <2>1 DEF Stored, k
  <2> QED
    BY <1>6, <2>5, <2>6 DEF n
<1> QED
  BY <1>5, <1>6

(* The part that getAtProbablyRecentBlock takes is the one with the place. *)
LEMMA SqrtTyped ==
  ASSUME NEW n \in Nat, n > 5
  PROVE  Sqrt(n) \in 1..n
<1> DEFINE B == {r \in Nat : n < (r + 1) * (r + 1)}
<1>1. n \in B
  <2>1. n < (n + 1) * (n + 1)
    BY SMT
  <2> QED
    BY <2>1
<1>2. PICK r \in B : \A k \in B : ~ (k < r)
  BY <1>1, LeastNatural
<1>3. r \in 0..n /\ n < (r + 1) * (r + 1)
  BY <1>1, <1>2
<1>4. r * r <= n
  <2>1. r # 0
    BY <1>3
  <2>2. r - 1 \in Nat /\ r - 1 < r /\ (r - 1) + 1 = r
    BY <1>3, <2>1
  <2>3. ~ (n < r * r)
    BY <1>2, <2>2
  <2>4. r * r \in Int
    BY <1>3
  <2> QED
    BY <2>3, <2>4
<1>5. Sqrt(n) \in 0..n /\ n < (Sqrt(n) + 1) * (Sqrt(n) + 1)
  BY <1>3, <1>4, Zenon DEF Sqrt
<1>6. Sqrt(n) # 0
  BY <1>5
<1> QED
  BY <1>5, <1>6

LEMMA RecentPartParts ==
  ASSUME CheckpointsOrdered, NEW b \in Nat, NEW p,
         Parts(KeysAbove(b, RecentPart(b).high), RecentPart(b).low, RecentPart(b).high, p)
  PROVE  Parts(KeysAbove(b, Len(checkpoints)), 0, Len(checkpoints), p)
<1> DEFINE n == Len(checkpoints)
           mid == n - Sqrt(n)
<1>1. /\ n \in Nat
      /\ \A i \in 0..(n - 1) : KeyAt(i) \in Nat
      /\ \A i, j \in 0..(n - 1) : i < j => KeyAt(i) < KeyAt(j)
  BY PlacesTyped, KeysSorted
<1>2. RecentPart(b) = IF n <= 5 THEN [low |-> 0, high |-> n]
                      ELSE IF b < KeyAt(mid) THEN [low |-> 0, high |-> mid]
                      ELSE [low |-> mid + 1, high |-> n]
  BY DEF RecentPart
<1>3. n > 5 => mid \in 0..(n - 1)
  BY <1>1, SqrtTyped
<1> HIDE DEF n, mid
<1>4. CASE n <= 5
  BY <1>2, <1>4 DEF n
<1>5. CASE n > 5 /\ b < KeyAt(mid)
  <2>1. RecentPart(b).low = 0 /\ RecentPart(b).high = mid
    BY <1>1, <1>2, <1>5
  <2>2. p \in 0..mid /\ \A i \in 0..(p - 1) : i \notin KeysAbove(b, mid)
    BY <2>1 DEF Parts
  <2>3. ASSUME NEW i \in 0..(p - 1) PROVE i \notin KeysAbove(b, n)
    <3>1. i \in 0..(mid - 1) /\ i \in 0..(n - 1)
      BY <1>1, <1>3, <1>5, <2>2
    <3> QED
      BY <2>2, <3>1 DEF KeysAbove
  <2>4. ASSUME NEW i \in p..(n - 1) PROVE i \in KeysAbove(b, n)
    <3>1. i \in 0..(n - 1)
      BY <1>1, <1>3, <1>5, <2>2
    <3>2. CASE i < mid
      <4>1. i \in p..(mid - 1)
        BY <1>3, <1>5, <2>2, <3>1, <3>2
      <4>2. i \in KeysAbove(b, mid)
        BY <2>1, <4>1 DEF Parts
      <4> QED
        BY <3>1, <4>2 DEF KeysAbove
    <3>3. CASE ~ (i < mid)
      <4>1. KeyAt(i) \in Nat /\ KeyAt(mid) \in Nat /\ (i = mid \/ mid < i)
        BY <1>1, <1>3, <1>5, <3>1, <3>3
      <4>2. mid < i => KeyAt(mid) < KeyAt(i)
        BY <1>1, <1>3, <1>5, <3>1
      <4> QED
        BY <1>5, <3>1, <4>1, <4>2 DEF KeysAbove
    <3> QED
      BY <3>2, <3>3
  <2>5. p \in 0..n
    BY <1>1, <1>3, <1>5, <2>2
  <2> QED
    BY <2>3, <2>4, <2>5 DEF Parts, n
<1>6. CASE n > 5 /\ ~ (b < KeyAt(mid))
  <2>1. RecentPart(b).low = mid + 1 /\ RecentPart(b).high = n
    BY <1>1, <1>2, <1>6
  <2>2. p \in (mid + 1)..n /\ \A i \in p..(n - 1) : i \in KeysAbove(b, n)
    BY <2>1 DEF Parts
  <2>3. ASSUME NEW i \in 0..(p - 1) PROVE i \notin KeysAbove(b, n)
    <3>1. i \in 0..(n - 1)
      BY <1>1, <1>3, <1>6, <2>2
    <3>2. CASE i > mid
      <4>1. i \in (mid + 1)..(p - 1)
        BY <1>3, <1>6, <2>2, <3>1, <3>2
      <4> QED
        BY <2>1, <4>1 DEF Parts
    <3>3. CASE ~ (i > mid)
      <4>1. KeyAt(i) \in Nat /\ KeyAt(mid) \in Nat /\ (i = mid \/ i < mid)
        BY <1>1, <1>3, <1>6, <3>1, <3>3
      <4>2. i < mid => KeyAt(i) < KeyAt(mid)
        BY <1>1, <1>3, <1>6, <3>1
      <4> QED
        BY <1>6, <3>1, <4>1, <4>2 DEF KeysAbove
    <3> QED
      BY <3>2, <3>3
  <2>4. p \in 0..n
    BY <1>1, <1>3, <1>6, <2>2
  <2> QED
    BY <2>2, <2>3, <2>4 DEF Parts, n
<1> QED
  BY <1>1, <1>4, <1>5, <1>6

(* A sorted array whose entries are stored answers every lookup right.     *)
LEMMA LookupsRight ==
  ASSUME CheckpointsOrdered, Stored
  PROVE  /\ Latest = LastUpTo(MaxKey)
         /\ \A k \in Nat : UpperLookup(k) = LastUpTo(k) /\ LowerLookup(k) = FirstFrom(k)
         /\ \A b \in Nat : GetAtBlock(b) = LastUpTo(b) /\ GetAtProbablyRecentBlock(b) = LastUpTo(b)
<1> DEFINE n == Len(checkpoints)
<1>0. n \in Nat /\ n \in 0..n /\ 0 \in 0..n
  BY PlacesTyped
<1>1. Latest = LastUpTo(MaxKey)
  <2>1. \A i \in 0..(n - 1) : KeyAt(i) \in 0..MaxKey
    BY KeysSorted
  <2>2. Parts(KeysAbove(MaxKey, n), 0, n, n)
    BY <1>0, <2>1, CheckpointsAssumption DEF Parts, KeysAbove
  <2>3. ValueBefore(n) = LastUpTo(MaxKey)
    BY <2>2, ValueBeforeIsLast, CheckpointsAssumption
  <2>4. checkpoints = <<>> <=> n = 0
    BY DEF CheckpointsOrdered
  <2> QED
    BY <2>3, <2>4 DEF ValueBefore, Latest
<1>2. ASSUME NEW k \in Nat
      PROVE  ValueBefore(UpperBinaryLookup(k, 0, n)) = LastUpTo(k)
  <2>1. Parts(KeysAbove(k, n), 0, n, UpperBinaryLookup(k, 0, n))
    BY <1>0, UpperBinaryLookupParts
  <2> QED
    BY <2>1, ValueBeforeIsLast
<1>3. ASSUME NEW k \in Nat PROVE LowerLookup(k) = FirstFrom(k)
  <2>1. Parts(KeysFrom(k, n), 0, n, LowerBinaryLookup(k, 0, n))
    BY <1>0, LowerBinaryLookupParts
  <2> QED
    BY <2>1, ValueAtIsFirst DEF LowerLookup
<1>4. ASSUME NEW b \in Nat PROVE GetAtProbablyRecentBlock(b) = LastUpTo(b)
  <2> DEFINE low == RecentPart(b).low
             high == RecentPart(b).high
             p == UpperBinaryLookup(b, low, high)
  <2>1. n > 5 => n - Sqrt(n) \in 0..(n - 1)
    BY <1>0, SqrtTyped
  <2>2. high \in 0..n /\ low \in 0..high
    BY <1>0, <2>1 DEF RecentPart
  <2>3. Parts(KeysAbove(b, high), low, high, p)
    BY <2>2, UpperBinaryLookupParts
  <2>4. Parts(KeysAbove(b, n), 0, n, p)
    BY <2>3, RecentPartParts
  <2>5. ValueBefore(p) = LastUpTo(b)
    BY <2>4, ValueBeforeIsLast
  <2> QED
    BY <2>5 DEF GetAtProbablyRecentBlock
<1> QED
  BY <1>1, <1>2, <1>3, <1>4 DEF UpperLookup, GetAtBlock

(* A push stores its value and leaves what other keys store.               *)
LEMMA RecordStored ==
  ASSUME CheckpointsOrdered, Stored, NEW key \in 0..MaxKey, NEW value, Record(key, value)
  PROVE  Stored'
<1> DEFINE n == Len(checkpoints)
           entry == [key |-> key, value |-> value]
<1>1. /\ n \in Nat /\ DOMAIN checkpoints = 1..n /\ checkpoints \in Seq([key : 0..MaxKey, value : 0..MaxValue])
      /\ \A i \in 1..n : /\ checkpoints[i].key \in DOMAIN written
                         /\ checkpoints[i].key \in Nat /\ checkpoints[i].key <= LastKey
      /\ checkpoints # <<>> => n \in 1..n /\ LastKey = checkpoints[n].key
  BY PlacesTyped, LastIsLargest DEF CheckpointsOrdered, LastKey
<1>2. written' = [k \in DOMAIN written \cup {key} |-> IF k = key THEN value ELSE written[k]]
  BY DEF Record
<1>3. /\ written'[key] = value
      /\ \A k \in DOMAIN written : k # key => written'[k] = written[k]
  BY <1>2
<1>4. \A i \in 1..n : checkpoints[i].key # key => written'[checkpoints[i].key] = checkpoints[i].value
  BY <1>1, <1>3 DEF Stored
<1> HIDE DEF n, entry
<1>5. CASE (checkpoints # <<>> => LastKey < key) /\ checkpoints' = Append(checkpoints, entry)
  <2>1. /\ DOMAIN checkpoints' = 1..(n + 1) /\ checkpoints'[n + 1] = entry
        /\ \A i \in 1..n : checkpoints'[i] = checkpoints[i]
    BY <1>1, <1>5 DEF n
  <2>2. \A i \in 1..n : checkpoints[i].key # key
    <3> SUFFICES ASSUME NEW i \in 1..n PROVE checkpoints[i].key # key
      OBVIOUS
    <3>1. checkpoints # <<>>
      BY <1>1 DEF n
    <3>2. LastKey < key /\ LastKey \in Nat
      BY <1>1, <1>5, <3>1
    <3> QED
      BY <1>1, <3>2
  <2>3. ASSUME NEW i \in 1..(n + 1) PROVE written'[checkpoints'[i].key] = checkpoints'[i].value
    <3>1. CASE i = n + 1
      BY <1>3, <2>1, <3>1 DEF entry
    <3>2. CASE i \in 1..n
      BY <1>4, <2>1, <2>2, <3>2
    <3> QED
      BY <1>1, <3>1, <3>2
  <2> QED
    BY <2>1, <2>3 DEF Stored
<1>6. CASE checkpoints # <<>> /\ LastKey = key /\ checkpoints' = [checkpoints EXCEPT ![n].value = value]
  <2> DEFINE last == [checkpoints[n] EXCEPT !.value = value]
  <2>1. last.key = key /\ last.value = value
    <3>1. checkpoints[n] \in [key : 0..MaxKey, value : 0..MaxValue]
      BY <1>1, <1>6, PlacesTyped DEF n
    <3> QED
      BY <1>1, <1>6, <3>1
  <2>2. checkpoints' = [checkpoints EXCEPT ![n] = last]
    BY <1>6
  <2> HIDE DEF last
  <2>3. DOMAIN checkpoints' = 1..n /\ \A i \in 1..n : checkpoints'[i] = IF i = n THEN last ELSE checkpoints[i]
    BY <1>1, <2>2
  <2>4. \A i \in 1..n : i # n => checkpoints[i].key # key
    <3> SUFFICES ASSUME NEW i \in 1..n, i # n PROVE checkpoints[i].key # key
      OBVIOUS
    <3>1. i < n /\ n \in 1..n
      BY <1>1, <1>6
    <3>2. checkpoints[i].key < checkpoints[n].key
      BY <1>1, <3>1 DEF CheckpointsOrdered
    <3> QED
      BY <1>1, <1>6, <3>2
  <2>5. ASSUME NEW i \in 1..n PROVE written'[checkpoints'[i].key] = checkpoints'[i].value
    <3>1. CASE i = n
      BY <1>3, <2>1, <2>3, <3>1
    <3>2. CASE i # n
      BY <1>4, <2>3, <2>4, <3>2
    <3> QED
      BY <3>1, <3>2
  <2> QED
    BY <2>3, <2>5 DEF Stored
<1> QED
  BY <1>5, <1>6 DEF Record, Insert, entry, n

(* A push changes no answer about keys below its own.                      *)
LEMMA LargestExists ==
  ASSUME NEW E, E \subseteq Nat, E # {}, NEW k \in Nat, \A x \in E : x <= k
  PROVE  \E m \in E : \A x \in E : m >= x
<1> DEFINE B == {m \in Nat : \A x \in E : x <= m}
<1>1. PICK m \in B : \A y \in B : ~ (y < m)
  BY LeastNatural
<1>2. m \in E
  <2> SUFFICES ASSUME m \notin E PROVE FALSE
    OBVIOUS
  <2>1. \A x \in E : x < m /\ x <= m - 1
    BY <1>1
  <2>2. m - 1 \in Nat
    <3>1. PICK x \in E : TRUE
      OBVIOUS
    <3> QED
      BY <1>1, <2>1, <3>1
  <2>3. m - 1 \in B /\ m - 1 < m
    BY <2>1, <2>2
  <2> QED
    BY <1>1, <2>3
<1> QED
  BY <1>1, <1>2

LEMMA PastKept ==
  ASSUME CheckpointsOrdered, NEW key \in 0..MaxKey, NEW value, Record(key, value),
         NEW k \in Nat, k < key
  PROVE  LastUpTo(k)' = LastUpTo(k)
<1> DEFINE earlier == {x \in DOMAIN written : x <= k}
<1>1. \A x \in DOMAIN written : x \in Nat
  BY PlacesTyped
<1>2. /\ DOMAIN written' = DOMAIN written \cup {key}
      /\ \A x \in DOMAIN written : x # key => written'[x] = written[x]
  BY DEF Record
<1>3. {x \in DOMAIN written' : x <= k} = earlier
  BY <1>2
<1>4. CASE earlier = {}
  BY <1>3, <1>4 DEF LastUpTo
<1>5. CASE earlier # {}
  <2>1. Max(earlier) \in earlier
    <3>1. earlier \subseteq Nat /\ \A x \in earlier : x <= k
      BY <1>1
    <3> HIDE DEF earlier
    <3>2. \E m \in earlier : \A x \in earlier : m >= x
      BY <1>5, <3>1, LargestExists
    <3> QED
      BY <3>2, Zenon DEF Max
  <2>2. written'[Max(earlier)] = written[Max(earlier)]
    BY <1>2, <2>1
  <2> QED
    BY <1>3, <1>5, <2>2 DEF LastUpTo
<1> QED
  BY <1>4, <1>5

LookupsInv == CheckpointsInv /\ Stored

LEMMA LookupsInitInv == CheckpointsInit => LookupsInv
<1>1. CheckpointsInit => Stored
  BY DEF CheckpointsInit, Stored
<1> QED
  BY <1>1, CheckpointsInitInv DEF LookupsInv

(* Every step is a push at a key, which is the block's in a History, or    *)
(* leaves the array alone.                                                 *)
LEMMA StepIsPush ==
  ASSUME CheckpointsInv, [CheckpointsNext]_checkpointVars
  PROVE  \/ \E key \in 0..MaxKey, value \in Nat :
              Record(key, value) /\ (kind = "History" => key = blockNumber)
         \/ /\ UNCHANGED <<checkpoints, written, kind>>
            /\ blockNumber' \in {blockNumber, blockNumber + 1}
<1>0. Latest \in Nat /\ blockNumber \in Nat
  BY LatestTyped, CheckpointsAssumption DEF CheckpointsInv, CheckpointsOrdered
<1>1. ASSUME NEW v \in Nat, Push(v)
      PROVE  \E key \in 0..MaxKey, value \in Nat :
               Record(key, value) /\ (kind = "History" => key = blockNumber)
  <2>1. blockNumber \in 0..MaxKey
    BY <1>0, <1>1, CheckpointsAssumption DEF Push, Fits
  <2> QED
    BY <1>1, <2>1 DEF Push
<1>2. ASSUME NEW x \in Inputs, Push(x) \/ PushAdded(x) \/ PushSubtracted(x)
      PROVE  \E v \in Nat : Push(v)
  <2>1. x \in Nat /\ Latest + x \in Nat /\ (x <= Latest => Latest - x \in Nat)
    BY <1>0, CheckpointsAssumption
  <2> QED
    BY <1>2, <2>1 DEF PushAdded, PushSubtracted
<1>3. ASSUME NEW key \in 0..MaxKey, NEW x \in Inputs, PushAt(key, x)
      PROVE  x \in Nat /\ Record(key, x) /\ (kind = "History" => key = blockNumber)
  BY <1>3, CheckpointsAssumption DEF PushAt
<1>4. ASSUME Mine \/ UNCHANGED checkpointVars
      PROVE  UNCHANGED <<checkpoints, written, kind>> /\ blockNumber' \in {blockNumber, blockNumber + 1}
  BY <1>4 DEF Mine, checkpointVars
<1> QED
  BY <1>1, <1>2, <1>3, <1>4, Zenon DEF CheckpointsNext

LEMMA LookupsNextInv == LookupsInv /\ [CheckpointsNext]_checkpointVars => LookupsInv'
<1> SUFFICES ASSUME LookupsInv, [CheckpointsNext]_checkpointVars PROVE Stored'
  BY CheckpointsNextInv DEF LookupsInv
<1>1. ASSUME NEW key \in 0..MaxKey, NEW value \in Nat, Record(key, value) PROVE Stored'
  BY <1>1, RecordStored DEF LookupsInv, CheckpointsInv
<1>2. ASSUME UNCHANGED <<checkpoints, written, kind>> PROVE Stored'
  BY <1>2 DEF LookupsInv, Stored
<1> QED
  BY <1>1, <1>2, StepIsPush DEF LookupsInv

LEMMA LookupsInvariant == CheckpointsSpec => []LookupsInv
BY LookupsInitInv, LookupsNextInv, PTL DEF CheckpointsSpec

LEMMA LookupsFollow ==
  LookupsInv => LookupsAgree /\ \A k \in Nat : GetAtBlock(k) = LastUpTo(k) /\ UpperLookup(k) = LastUpTo(k)
BY LookupsRight, CheckpointsAssumption DEF LookupsInv, CheckpointsInv, LookupsAgree

(* Every lookup, by either bisection and on either part of the array, finds *)
(* what was last pushed up to a key, or first from it on.                  *)
THEOREM LookupsAlwaysAgree == CheckpointsSpec => []LookupsAgree
BY LookupsInvariant, LookupsFollow, PTL

(* What is answered about a block that is over stays the answer, and a push *)
(* to a Trace leaves what is below its last key.                           *)
LEMMA PastStep ==
  ASSUME LookupsInv, [CheckpointsNext]_checkpointVars,
         \A k \in Nat : GetAtBlock(k)' = LastUpTo(k)' /\ UpperLookup(k)' = LastUpTo(k)'
  PROVE  /\ \A b \in 0..MaxBlock : Answers(b) => Answers(b)' /\ GetAtBlock(b)' = GetAtBlock(b)
         /\ \A k \in 0..MaxKey : checkpoints # <<>> /\ k < LastKey => UpperLookup(k)' = UpperLookup(k)
<1>0. /\ \A k \in Nat : GetAtBlock(k) = LastUpTo(k) /\ UpperLookup(k) = LastUpTo(k)
      /\ blockNumber \in Nat /\ \A b \in 0..MaxBlock : b \in Nat
      /\ \A k \in 0..MaxKey : k \in Nat
  BY LookupsFollow, CheckpointsAssumption DEF LookupsInv, CheckpointsInv, CheckpointsOrdered
<1>1. ASSUME NEW key \in 0..MaxKey, NEW value \in Nat, Record(key, value), kind = "History" => key = blockNumber,
             NEW k \in Nat, k < key
      PROVE  LastUpTo(k)' = LastUpTo(k)
  BY <1>1, PastKept DEF LookupsInv, CheckpointsInv
<1>2. CASE \E key \in 0..MaxKey, value \in Nat :
             Record(key, value) /\ (kind = "History" => key = blockNumber)
  <2>1. PICK key \in 0..MaxKey, value \in Nat :
             Record(key, value) /\ (kind = "History" => key = blockNumber)
    BY <1>2
  <2>2. UNCHANGED <<kind, blockNumber>> /\ key \in Nat
    BY <2>1 DEF Record
  <2>3. ASSUME NEW b \in 0..MaxBlock, Answers(b)
        PROVE  Answers(b)' /\ GetAtBlock(b)' = GetAtBlock(b)
    <3>1. b < key /\ b \in Nat
      BY <1>0, <2>1, <2>3 DEF Answers
    <3>2. LastUpTo(b)' = LastUpTo(b)
      BY <1>1, <2>1, <3>1
    <3> QED
      BY <1>0, <2>2, <2>3, <3>1, <3>2 DEF Answers
  <2>4. ASSUME NEW k \in 0..MaxKey, checkpoints # <<>>, k < LastKey
        PROVE  UpperLookup(k)' = UpperLookup(k)
    <3>1. LastKey \in Nat /\ LastKey <= key
      <4>1. LastKey \in Nat
        BY <1>0, <2>4, LatestTyped DEF LookupsInv, CheckpointsInv
      <4> QED
        BY <2>1, <2>4, <4>1 DEF Record, Insert
    <3>2. k < key /\ k \in Nat
      BY <1>0, <2>2, <2>4, <3>1
    <3>3. LastUpTo(k)' = LastUpTo(k)
      BY <1>1, <2>1, <3>2
    <3> QED
      BY <1>0, <3>2, <3>3
  <2> QED
    BY <2>3, <2>4
<1>3. CASE /\ UNCHANGED <<checkpoints, written, kind>>
           /\ blockNumber' \in {blockNumber, blockNumber + 1}
  <2>1. \A k : LastUpTo(k)' = LastUpTo(k)
    BY <1>3 DEF LastUpTo
  <2>2. \A b \in 0..MaxBlock : Answers(b) => Answers(b)'
    BY <1>0, <1>3 DEF Answers
  <2> QED
    BY <1>0, <2>1, <2>2
<1> QED
  BY <1>2, <1>3, StepIsPush DEF LookupsInv

(* Votes counted at a block that is over are counted for good: no call     *)
(* changes an answer once it can be had (Checkpoints.js:72-79, 188-195).   *)
THEOREM PastStaysFixed == CheckpointsSpec => PastIsFixed
<1> DEFINE Right == \A k \in Nat : GetAtBlock(k) = LastUpTo(k) /\ UpperLookup(k) = LastUpTo(k)
<1>1. LookupsInv => Right
  BY LookupsFollow
<1>2. ASSUME LookupsInv, [CheckpointsNext]_checkpointVars, Right'
      PROVE  [/\ \A b \in 0..MaxBlock : Answers(b) => Answers(b)' /\ GetAtBlock(b)' = GetAtBlock(b)
              /\ \A k \in 0..MaxKey : checkpoints # <<>> /\ k < LastKey => UpperLookup(k)' = UpperLookup(k)
             ]_checkpointVars
  BY <1>2, PastStep
<1> HIDE DEF Right
<1> QED
  BY <1>1, <1>2, LookupsInvariant, PTL DEF CheckpointsSpec, PastIsFixed
-----------------------------------------------------------------------------
(* migrate-imports.  What files mention, before and after runs, and what   *)
(* has become of a mention or of a file: each path is as it was or as it   *)
(* is called now.                                                          *)
\* The names in a path; the provers do not know a literal for a string.
Segments == STRING \cup {"contracts"}
Names == Mentions \cup {newPath(path) : path \in OldPaths}
Became(new, old) == new = old \/ (old \in OldPaths /\ new = newPath(old))
Faithful(new, old) ==
  Len(new) = Len(old) /\ \A i \in 1..Len(new) : Became(new[i], old[i])

MigrateTypeOK ==
  /\ pc \in {"idle", "listing", "updating", "writing", "truncated", "done", "failed"}
  /\ DOMAIN files \subseteq DOMAIN Contents /\ \A f \in DOMAIN files : files[f] \in Seq(Names)
  /\ DOMAIN original = DOMAIN Contents /\ \A f \in DOMAIN original : original[f] \in Seq(Names)
  /\ \A f \in DOMAIN before : before[f] \in Seq(Names)
  /\ args \in Seq(Seq(Segments)) /\ queue \in Seq(Seq(Segments)) /\ buffer \in Seq(Names)
  /\ found \in Seq(DOMAIN Contents) /\ updatedFiles \in Seq(DOMAIN Contents)
  /\ \A i \in DOMAIN found : Last(found[i]) \in SolNames
  /\ pc \in {"writing", "truncated"} => found # <<>>

(* Neither the files nor the buffer mention anything else, but for what a  *)
(* killed process has truncated and what was saved in the middle.          *)
FilesKept ==
  /\ \A f \in DOMAIN files \ (torn \cup raced) :
       (pc = "truncated" /\ f = file) \/ Faithful(files[f], original[f])
  /\ pc \in {"writing", "truncated"} /\ file \notin torn \cup raced =>
       Faithful(buffer, original[file])

LEMMA UpdateTyped ==
  ASSUME NEW c \in Seq(Names)
  PROVE  /\ updateImportPaths(c) \in Seq(Names)
         /\ Len(updateImportPaths(c)) = Len(c)
         /\ DOMAIN updateImportPaths(c) = 1..Len(c)
         /\ \A i \in 1..Len(c) :
              updateImportPaths(c)[i] = IF c[i] \in OldPaths /\ \A j \in 1..(i - 1) : c[j] # c[i]
                                        THEN newPath(c[i]) ELSE c[i]
<1> DEFINE u == updateImportPaths(c)
           n == Len(c)
<1>1. n \in Nat /\ DOMAIN c = 1..n /\ \A i \in 1..n : c[i] \in Names
  BY LenProperties, ElementOfSeq
<1> HIDE DEF n
<1>2. /\ u = [i \in 1..n |-> u[i]]
      /\ \A i \in 1..n : u[i] = IF c[i] \in OldPaths /\ \A j \in 1..(i - 1) : c[j] # c[i]
                                THEN newPath(c[i]) ELSE c[i]
  BY <1>1, Zenon DEF updateImportPaths
<1> HIDE DEF u
<1>3. \A i \in 1..n : u[i] \in Names
  BY <1>1, <1>2 DEF Names
<1>4. u \in [1..n -> Names]
  BY <1>2, <1>3
<1>5. u \in Seq(Names) /\ Len(u) = n
  BY <1>1, <1>4
<1> QED
  BY <1>2, <1>5 DEF n, u

(* An update keeps a file faithful: what has become of a path is not an    *)
(* old path any more.                                                      *)
LEMMA UpdateFaithful ==
  ASSUME NEW c \in Seq(Names), NEW o \in Seq(Names), Faithful(c, o)
  PROVE  Faithful(updateImportPaths(c), o)
<1>1. Len(updateImportPaths(c)) = Len(c) /\ Len(c) \in Nat
  BY UpdateTyped, LenProperties
<1>2. ASSUME NEW i \in 1..Len(c) PROVE Became(updateImportPaths(c)[i], o[i])
  <2>1. Became(c[i], o[i])
    BY DEF Faithful
  <2>2. updateImportPaths(c)[i] = c[i] \/ (c[i] \in OldPaths /\ updateImportPaths(c)[i] = newPath(c[i]))
    BY UpdateTyped
  <2> QED
    BY <2>1, <2>2, MovedOnce DEF Became
<1> QED
  BY <1>1, <1>2 DEF Faithful

(* What became of an old path is what the table has for it.                *)
LEMMA BecameMayBecome ==
  ASSUME NEW new, NEW old, Became(new, old)
  PROVE  MayBecome(new, old)
<1>1. ASSUME old \in OldPaths, new = newPath(old)
      PROVE  \E update \in ToSet(pathUpdates) :
               \/ old = Plain(update.old) /\ new = Plain(update.new)
               \/ old = getUpgradeablePath(update.old) /\ new = getUpgradeablePath(update.new)
  <2> DEFINE update == UpdateOf(old)
  <2>1. \E u \in ToSet(pathUpdates) : old \in {Plain(u.old), getUpgradeablePath(u.old)}
    BY <1>1 DEF OldPaths
  <2>2. update \in ToSet(pathUpdates) /\ old \in {Plain(update.old), getUpgradeablePath(update.old)}
    BY <2>1, Zenon DEF UpdateOf
  <2> HIDE DEF update
  <2>3. new = IF old.package = "contracts" THEN Plain(update.new) ELSE getUpgradeablePath(update.new)
    BY <1>1 DEF newPath, update
  <2>4. CASE old = Plain(update.old)
    <3>1. old.package = "contracts"
      BY <2>4 DEF Plain
    <3> QED
      BY <2>2, <2>3, <2>4, <3>1
  <2>5. CASE old = getUpgradeablePath(update.old)
    <3>1. old.package # "contracts"
      BY <2>5 DEF getUpgradeablePath
    <3> QED
      BY <2>2, <2>3, <2>5, <3>1
  <2> QED
    BY <2>2, <2>4, <2>5
<1> QED
  BY <1>1 DEF Became, MayBecome

LEMMA SelfFaithful ==
  ASSUME NEW c
  PROVE  Faithful(c, c)
BY DEF Faithful, Became

LEMMA MigrateInitTyped == MigrateInit => MigrateTypeOK /\ FilesKept
<1> SUFFICES ASSUME MigrateInit PROVE MigrateTypeOK /\ FilesKept
  OBVIOUS
<1>1. DOMAIN files = DOMAIN Contents /\ \A f \in DOMAIN files : files[f] \in Contents[f]
  BY DEF MigrateInit
<1>2. \A f \in DOMAIN Contents : Contents[f] \subseteq Seq(Mentions)
  BY MigrateAssumption
<1>3. \A f \in DOMAIN files : files[f] \in Seq(Names)
  <2> SUFFICES ASSUME NEW f \in DOMAIN files PROVE files[f] \in Seq(Names)
    OBVIOUS
  <2>1. files[f] \in Seq(Mentions)
    BY <1>1, <1>2
  <2>2. Mentions \subseteq Names
    BY DEF Names
  <2> QED
    BY <2>1, <2>2, SeqMonotonic
<1>4. MigrateTypeOK
  BY <1>1, <1>3, EmptySeq DEF MigrateInit, MigrateTypeOK
<1>5. FilesKept
  BY SelfFaithful DEF MigrateInit, FilesKept
<1> QED
  BY <1>4, <1>5

LEMMA SegmentsTyped ==
  /\ DOMAIN Contents \subseteq Seq(Segments) /\ Directories \subseteq Seq(Segments)
  /\ Arguments \subseteq Seq(Seq(Segments))
<1>1. \A s \in Seq(STRING) : s \in Seq(Segments)
  BY SeqMonotonic DEF Segments
<1>2. \A s \in Seq(Seq(STRING)) : s \in Seq(Seq(Segments))
  BY <1>1, SeqMonotonic
<1> QED
  BY <1>1, <1>2, MigrateAssumption

LEMMA TypedFacts ==
  ASSUME MigrateTypeOK
  PROVE  /\ found # <<>> => /\ file \in DOMAIN Contents /\ file \in DOMAIN original
                            /\ original[file] \in Seq(Names) /\ Tail(found) \in Seq(DOMAIN Contents)
                            /\ \A i \in DOMAIN Tail(found) : Last(Tail(found)[i]) \in SolNames
         /\ \A f \in DOMAIN files : f \in DOMAIN Contents /\ f \in Seq(Segments)
<1>1. found \in Seq(DOMAIN Contents)
  BY DEF MigrateTypeOK
<1>2. ASSUME found # <<>>
      PROVE  /\ file \in DOMAIN Contents /\ Tail(found) \in Seq(DOMAIN Contents)
             /\ \A i \in DOMAIN Tail(found) : i + 1 \in DOMAIN found /\ Tail(found)[i] = found[i + 1]
  BY <1>1, <1>2, HeadTailProperties, LenProperties DEF file
<1> QED
  BY <1>2, SegmentsTyped DEF MigrateTypeOK

LEMMA StartTyped ==
  ASSUME MigrateTypeOK, FilesKept, NEW arguments \in Arguments, Start(arguments)
  PROVE  MigrateTypeOK' /\ FilesKept'
<1>1. args' \in Seq(Seq(Segments)) /\ queue' = args'
  <2>1. arguments \in Seq(Seq(Segments))
    BY SegmentsTyped
  <2>2. <<"contracts">> \in Seq(Segments)
    <3>1. "contracts" \in Segments
      BY DEF Segments
    <3> HIDE DEF Segments
    <3> QED
      BY <3>1
  <2>3. <<<<"contracts">>>> \in Seq(Seq(Segments))
    BY <2>2
  <2> QED
    BY <2>1, <2>3 DEF Start
<1>2. /\ found' = <<>> /\ updatedFiles' = <<>> /\ buffer' = <<>> /\ pc' = "listing"
      /\ before' = files /\ files' = files /\ original' = original
      /\ torn' = torn /\ raced' = raced
  BY DEF Start, disk
<1>3. MigrateTypeOK'
  BY <1>1, <1>2, EmptySeq DEF MigrateTypeOK
<1>4. FilesKept'
  BY <1>2 DEF FilesKept, Start
<1> QED
  BY <1>3, <1>4

LEMMA FailTyped ==
  ASSUME MigrateTypeOK, FilesKept, Fail, pc # "truncated"
  PROVE  MigrateTypeOK' /\ FilesKept'
<1>1. /\ pc' = "failed" /\ files' = files /\ args' = args /\ queue' = queue /\ found' = found
      /\ buffer' = buffer /\ updatedFiles' = updatedFiles /\ original' = original
      /\ before' = before /\ torn' = torn /\ raced' = raced
  BY DEF Fail, disk, history
<1>2. MigrateTypeOK'
  BY <1>1 DEF MigrateTypeOK
<1>3. FilesKept'
  BY <1>1 DEF FilesKept
<1> QED
  BY <1>2, <1>3

LEMMA ReaddirSeqs ==
  ASSUME NEW path, NEW names \in SetToSeqs(readdir(path)), MigrateTypeOK
  PROVE  /\ readdir(path) \subseteq Seq(Segments) /\ IsFiniteSet(readdir(path))
         /\ names \in Seq(Seq(Segments)) /\ Len(names) = Cardinality(readdir(path))
         /\ DOMAIN names = 1..Len(names) /\ Len(names) \in Nat
         /\ \A i \in 1..Len(names) : names[i] \in readdir(path)
         /\ \A i, j \in 1..Len(names) : i # j => names[i] # names[j]
<1> DEFINE S == readdir(path)
           n == Cardinality(S)
<1>1. S \subseteq Seq(Segments) /\ S \subseteq DOMAIN Contents \cup Directories
  BY SegmentsTyped DEF readdir, MigrateTypeOK
<1>2. IsFiniteSet(S)
  BY <1>1, FS_Union, FS_Subset, MigrateAssumption
<1>3. n \in Nat
  BY <1>2, FS_CardinalityType
<1>4. names \in [1..n -> S] /\ \A i, j \in 1..n : i # j => names[i] # names[j]
  BY DEF SetToSeqs
<1> HIDE DEF n, S
<1>5. names \in Seq(S) /\ Len(names) = n
  BY <1>3, <1>4
<1>6. names \in Seq(Seq(Segments))
  BY <1>1, <1>5, SeqMonotonic
<1> QED
  BY <1>1, <1>2, <1>3, <1>4, <1>5, <1>6 DEF n, S

LEMMA ListNextTyped ==
  ASSUME MigrateTypeOK, FilesKept, ListNext
  PROVE  MigrateTypeOK' /\ FilesKept'
<1> DEFINE top == Head(queue)
<1>1. /\ queue \in Seq(Seq(Segments)) /\ queue # <<>> /\ pc = "listing"
      /\ top \in Seq(Segments) /\ Tail(queue) \in Seq(Seq(Segments)) /\ found \in Seq(DOMAIN Contents)
  BY HeadTailProperties DEF ListNext, MigrateTypeOK
<1> HIDE DEF top
<1>2. CASE Fail
  BY <1>1, <1>2, FailTyped
<1>3. ASSUME UNCHANGED <<disk, pc, args, buffer, updatedFiles, history>>, queue' \in Seq(Seq(Segments)),
             \/ found' = found
             \/ isFile(top) /\ Last(top) \in SolNames /\ found' = Append(found, top)
      PROVE  MigrateTypeOK' /\ FilesKept'
  <2>1. /\ pc' = pc /\ files' = files /\ args' = args
        /\ buffer' = buffer /\ updatedFiles' = updatedFiles /\ original' = original
        /\ before' = before /\ torn' = torn /\ raced' = raced
    BY <1>3 DEF disk, history
  <2>2. found' \in Seq(DOMAIN Contents) /\ \A i \in DOMAIN found' : Last(found'[i]) \in SolNames
    <3>1. CASE found' = found
      BY <3>1 DEF MigrateTypeOK
    <3>2. CASE isFile(top) /\ Last(top) \in SolNames /\ found' = Append(found, top)
      <4>1. top \in DOMAIN Contents
        BY <3>2 DEF isFile, MigrateTypeOK
      <4>2. /\ found' \in Seq(DOMAIN Contents) /\ DOMAIN found' = 1..(Len(found) + 1)
            /\ DOMAIN found = 1..Len(found) /\ Len(found) \in Nat
            /\ \A i \in 1..(Len(found) + 1) : found'[i] = IF i = Len(found) + 1 THEN top ELSE found[i]
        BY <1>1, <3>2, <4>1
      <4>3. ASSUME NEW i \in DOMAIN found' PROVE Last(found'[i]) \in SolNames
        <5>1. CASE i = Len(found) + 1
          BY <3>2, <4>2, <5>1
        <5>2. CASE i # Len(found) + 1
          <6>1. i \in DOMAIN found /\ found'[i] = found[i]
            BY <4>2, <5>2
          <6> QED
            BY <6>1 DEF MigrateTypeOK
        <5> QED
          BY <5>1, <5>2
      <4> QED
        BY <4>2, <4>3
    <3> QED
      BY <1>3, <3>1, <3>2
  <2>3. MigrateTypeOK'
    BY <1>1, <1>3, <2>1, <2>2 DEF MigrateTypeOK
  <2>4. FilesKept'
    BY <1>1, <2>1 DEF FilesKept
  <2> QED
    BY <2>3, <2>4
<1>4. CASE /\ isFile(top) /\ queue' = Tail(queue)
           /\ found' = IF Last(top) \in SolNames THEN Append(found, top) ELSE found
           /\ UNCHANGED <<disk, pc, args, buffer, updatedFiles, history>>
  BY <1>1, <1>3, <1>4
<1>5. CASE /\ \E names \in SetToSeqs(readdir(top)) : queue' = Tail(queue) \o names
           /\ UNCHANGED <<disk, pc, args, found, buffer, updatedFiles, history>>
  <2>1. PICK names \in SetToSeqs(readdir(top)) : queue' = Tail(queue) \o names
    BY <1>5
  <2>2. names \in Seq(Seq(Segments))
    BY ReaddirSeqs
  <2>3. queue' \in Seq(Seq(Segments))
    BY <1>1, <2>1, <2>2, ConcatProperties
  <2> QED
    BY <1>3, <1>5, <2>3
<1> QED
  BY <1>2, <1>4, <1>5 DEF ListNext, top

LEMMA EndListTyped ==
  ASSUME MigrateTypeOK, FilesKept, EndList \/ Report
  PROVE  MigrateTypeOK' /\ FilesKept'
<1>1. /\ pc # "truncated" /\ pc' \in {"updating", "done"} /\ files' = files /\ args' = args
      /\ queue' = queue /\ found' = found
      /\ buffer' = buffer /\ updatedFiles' = updatedFiles /\ original' = original
      /\ before' = before /\ torn' = torn /\ raced' = raced
  BY DEF EndList, Report, disk, history
<1>2. MigrateTypeOK'
  BY <1>1 DEF MigrateTypeOK
<1>3. FilesKept'
  BY <1>1 DEF FilesKept
<1> QED
  BY <1>2, <1>3

LEMMA ReadFileTyped ==
  ASSUME MigrateTypeOK, FilesKept, ReadFile
  PROVE  MigrateTypeOK' /\ FilesKept'
<1>0. pc = "updating" /\ found # <<>>
  BY DEF ReadFile
<1>1. CASE ~ isFile(file)
  BY <1>0, <1>1, FailTyped DEF ReadFile
<1>2. CASE isFile(file)
  <2>1. /\ files' = files /\ args' = args /\ queue' = queue /\ updatedFiles' = updatedFiles
        /\ original' = original /\ before' = before /\ torn' = torn /\ raced' = raced
        /\ buffer' = updateImportPaths(files[file])
        /\ \/ pc' = "writing" /\ found' = found
           \/ pc' = "updating" /\ found' = Tail(found)
    BY <1>0, <1>2 DEF ReadFile, disk, history
  <2>2. file \in DOMAIN files /\ files[file] \in Seq(Names) /\ original[file] \in Seq(Names)
    BY <1>0, <1>2, TypedFacts DEF isFile, MigrateTypeOK
  <2>3. buffer' \in Seq(Names)
    BY <2>1, <2>2, UpdateTyped
  <2>4. MigrateTypeOK'
    BY <1>0, <2>1, <2>3, TypedFacts DEF MigrateTypeOK
  <2>5. file \notin torn \cup raced => Faithful(buffer', original[file])
    BY <1>0, <2>1, <2>2, UpdateFaithful DEF FilesKept
  <2>6. pc' = "writing" => file' = file
    BY <1>0, <2>1 DEF file
  <2>7. FilesKept'
    BY <1>0, <2>1, <2>5, <2>6 DEF FilesKept
  <2> QED
    BY <2>4, <2>7
<1> QED
  BY <1>1, <1>2

LEMMA TruncateTyped ==
  ASSUME MigrateTypeOK, FilesKept, Truncate
  PROVE  MigrateTypeOK' /\ FilesKept'
<1>1. /\ pc = "writing" /\ pc' = "truncated" /\ args' = args /\ queue' = queue
      /\ found' = found /\ file' = file /\ buffer' = buffer /\ updatedFiles' = updatedFiles
      /\ original' = original /\ before' = before /\ torn' = torn /\ raced' = raced
      /\ DOMAIN files' = DOMAIN files \cup {file}
      /\ \A f \in DOMAIN files' : files'[f] = IF f = file THEN <<>> ELSE files[f]
  BY DEF Truncate, history, file
<1>2. file \in DOMAIN Contents /\ found # <<>>
  BY <1>1, TypedFacts DEF MigrateTypeOK
<1>3. \A f \in DOMAIN files' : files'[f] \in Seq(Names)
  BY <1>1, EmptySeq DEF MigrateTypeOK
<1>4. MigrateTypeOK'
  BY <1>1, <1>2, <1>3 DEF MigrateTypeOK
<1>5. FilesKept'
  BY <1>1 DEF FilesKept
<1> QED
  BY <1>4, <1>5

LEMMA WriteFileTyped ==
  ASSUME MigrateTypeOK, FilesKept, WriteFile
  PROVE  MigrateTypeOK' /\ FilesKept'
<1>1. /\ pc = "truncated" /\ pc' = "updating" /\ args' = args /\ queue' = queue
      /\ found' = Tail(found) /\ buffer' = buffer /\ updatedFiles' = Append(updatedFiles, file)
      /\ original' = original /\ before' = before /\ torn' = torn /\ raced' = raced
      /\ DOMAIN files' = DOMAIN files
      /\ \A f \in DOMAIN files' : files'[f] = IF f = file THEN buffer ELSE files[f]
  BY DEF WriteFile, history
<1>2. file \in DOMAIN Contents /\ found # <<>>
  BY <1>1, TypedFacts DEF MigrateTypeOK
<1>3. \A f \in DOMAIN files' : files'[f] \in Seq(Names)
  BY <1>1 DEF MigrateTypeOK
<1>4. updatedFiles' \in Seq(DOMAIN Contents)
  BY <1>1, <1>2 DEF MigrateTypeOK
<1>5. MigrateTypeOK'
  BY <1>1, <1>2, <1>3, <1>4, TypedFacts DEF MigrateTypeOK
<1>6. FilesKept'
  BY <1>1 DEF FilesKept
<1> QED
  BY <1>5, <1>6

LEMMA SaveTyped ==
  ASSUME MigrateTypeOK, FilesKept, NEW f, NEW draft \in Drafts, Save(f, draft)
  PROVE  MigrateTypeOK' /\ FilesKept'
<1>1. /\ f \in DOMAIN files /\ pc' = pc /\ args' = args /\ queue' = queue /\ found' = found
      /\ buffer' = buffer /\ updatedFiles' = updatedFiles /\ file' = file /\ before' = before
      /\ torn' = torn \ {f} /\ raced' = (raced \ {f}) \cup ({f} \cap inHand)
      /\ DOMAIN files' = DOMAIN files
      /\ \A g \in DOMAIN files' : files'[g] = IF g = f THEN draft ELSE files[g]
      /\ DOMAIN original' = DOMAIN original
      /\ \A g \in DOMAIN original' : original'[g] = IF g = f THEN draft ELSE original[g]
  BY DEF Save, process, file
<1>2. draft \in Seq(Names)
  <2>1. draft \in Seq(Mentions)
    BY MigrateAssumption
  <2> QED
    BY <2>1, SeqMonotonic DEF Names
<1>3. /\ \A g \in DOMAIN files' : files'[g] \in Seq(Names)
      /\ \A g \in DOMAIN original' : original'[g] \in Seq(Names)
  BY <1>1, <1>2 DEF MigrateTypeOK
<1>4. MigrateTypeOK'
  BY <1>1, <1>3 DEF MigrateTypeOK
<1>5. ASSUME NEW g \in DOMAIN files', g \notin torn', g \notin raced'
      PROVE  (pc' = "truncated" /\ g = file') \/ Faithful(files'[g], original'[g])
  <2>1. CASE g = f
    <3>1. files'[g] = draft /\ original'[g] = draft
      BY <1>1, <2>1 DEF MigrateTypeOK
    <3> QED
      BY <3>1, SelfFaithful
  <2>2. CASE g # f
    <3>1. g \notin torn /\ g \notin raced /\ g \in DOMAIN files
      BY <1>1, <1>5, <2>2
    <3>2. files'[g] = files[g] /\ original'[g] = original[g]
      BY <1>1, <2>2 DEF MigrateTypeOK
    <3> QED
      BY <1>1, <3>1, <3>2 DEF FilesKept
  <2> QED
    BY <2>1, <2>2
<1>6. ASSUME pc' \in {"writing", "truncated"}, file' \notin torn', file' \notin raced'
      PROVE  Faithful(buffer', original'[file'])
  <2>1. inHand = {file}
    BY <1>1, <1>6 DEF inHand
  <2>2. file # f /\ file \notin torn /\ file \notin raced
    BY <1>1, <1>6, <2>1
  <2>3. file \in DOMAIN original
    BY <1>1, <1>6, TypedFacts DEF MigrateTypeOK
  <2> QED
    BY <1>1, <1>6, <2>2, <2>3 DEF FilesKept
<1>7. FilesKept'
  BY <1>5, <1>6 DEF FilesKept
<1> QED
  BY <1>4, <1>7

LEMMA DeleteTyped ==
  ASSUME MigrateTypeOK, FilesKept, NEW f, Delete(f)
  PROVE  MigrateTypeOK' /\ FilesKept'
<1>1. /\ pc' = pc /\ args' = args /\ queue' = queue /\ found' = found
      /\ buffer' = buffer /\ updatedFiles' = updatedFiles /\ file' = file /\ before' = before
      /\ torn' = torn /\ raced' = raced /\ original' = original
      /\ DOMAIN files' = DOMAIN files \ {f}
      /\ \A g \in DOMAIN files' : files'[g] = files[g]
  BY DEF Delete, process, file
<1>2. MigrateTypeOK'
  BY <1>1 DEF MigrateTypeOK
<1>3. FilesKept'
  BY <1>1 DEF FilesKept
<1> QED
  BY <1>2, <1>3

LEMMA KillTyped ==
  ASSUME MigrateTypeOK, FilesKept, Kill
  PROVE  MigrateTypeOK' /\ FilesKept'
<1>1. /\ pc' = "idle" /\ args' = args /\ queue' = queue /\ found' = found /\ files' = files
      /\ buffer' = buffer /\ updatedFiles' = updatedFiles /\ before' = before
      /\ raced' = raced /\ original' = original
      /\ torn' = torn \cup (IF pc = "truncated" THEN {file} ELSE {})
  BY DEF Kill, disk
<1>2. MigrateTypeOK'
  BY <1>1 DEF MigrateTypeOK
<1>3. FilesKept'
  BY <1>1 DEF FilesKept
<1> QED
  BY <1>2, <1>3

LEMMA MigrateNextTyped ==
  MigrateTypeOK /\ FilesKept /\ [MigrateNext]_vars => MigrateTypeOK' /\ FilesKept'
<1> SUFFICES ASSUME MigrateTypeOK, FilesKept, [MigrateNext]_vars
             PROVE  MigrateTypeOK' /\ FilesKept'
  OBVIOUS
<1>1. CASE UNCHANGED vars
  <2>1. MigrateTypeOK'
    BY <1>1 DEF vars, disk, process, history, MigrateTypeOK
  <2>2. FilesKept'
    BY <1>1 DEF vars, disk, process, history, FilesKept, file
  <2> QED
    BY <2>1, <2>2
<1>2. CASE Step
  BY <1>2, ListNextTyped, EndListTyped, ReadFileTyped, TruncateTyped, WriteFileTyped DEF Step
<1> QED
  BY <1>1, <1>2, StartTyped, SaveTyped, DeleteTyped, KillTyped DEF MigrateNext

LEMMA FilesStayKept == MigrateSpec => [](MigrateTypeOK /\ FilesKept)
BY MigrateInitTyped, MigrateNextTyped, PTL DEF MigrateSpec

(* Whatever runs, fails and is killed, every file but the one in hand      *)
(* mentions what its user last saved in it, each path as it was or as it   *)
(* is called now (scripts/migrate-imports.js:133-142).                     *)
THEOREM ImportsStayKept == MigrateSpec => []ImportsKept
<1>1. ASSUME MigrateTypeOK, FilesKept PROVE ImportsKept
  <2> SUFFICES ASSUME NEW f \in DOMAIN files \ (torn \cup raced \cup inHand)
               PROVE  /\ Len(files[f]) = Len(original[f])
                      /\ \A i \in DOMAIN files[f] : MayBecome(files[f][i], original[f][i])
    BY DEF ImportsKept
  <2>1. Faithful(files[f], original[f])
    BY <1>1 DEF FilesKept, inHand
  <2>2. DOMAIN files[f] = 1..Len(files[f])
    BY <1>1, LenProperties DEF MigrateTypeOK
  <2> QED
    BY <2>1, <2>2, BecameMayBecome DEF Faithful
<1> QED
  BY <1>1, FilesStayKept, PTL

(* Where a sequence meets a set, and how many times.                       *)
Hits(q, G) == {i \in DOMAIN q : q[i] \in G}

LEMMA HitsCounted ==
  ASSUME NEW S, NEW q \in Seq(S), NEW G
  PROVE  IsFiniteSet(Hits(q, G)) /\ Cardinality(Hits(q, G)) \in Nat
<1>1. DOMAIN q = 1..Len(q) /\ Len(q) \in Nat
  BY LenProperties
<1>2. IsFiniteSet(1..Len(q)) /\ Hits(q, G) \in SUBSET (1..Len(q))
  BY <1>1, FS_Interval DEF Hits
<1> QED
  BY <1>2, FS_Subset, FS_CardinalityType

LEMMA NoHits ==
  ASSUME NEW G
  PROVE  Hits(<<>>, G) = {} /\ Cardinality(Hits(<<>>, G)) = 0
<1>1. Hits(<<>>, G) = {}
  BY DEF Hits
<1> QED
  BY <1>1, FS_EmptySet

LEMMA HitsTail ==
  ASSUME NEW S, NEW q \in Seq(S), q # <<>>, NEW G
  PROVE  Cardinality(Hits(q, G)) =
           Cardinality(Hits(Tail(q), G)) + (IF Head(q) \in G THEN 1 ELSE 0)
<1> DEFINE n == Len(q)
           A == Hits(Tail(q), G)
           B == Hits(q, G) \ {1}
           next == [i \in A |-> i + 1]
<1>1. /\ n \in Nat /\ DOMAIN q = 1..n /\ n >= 1 /\ Head(q) = q[1] /\ Tail(q) \in Seq(S)
      /\ DOMAIN Tail(q) = 1..(n - 1) /\ \A i \in 1..(n - 1) : Tail(q)[i] = q[i + 1]
  BY LenProperties, HeadTailProperties, EmptySeq
<1>2. \A i \in A : i \in Int /\ i + 1 \in B
  BY <1>1 DEF Hits
<1>3. ASSUME NEW j \in B PROVE \E i \in A : j = i + 1
  <2>1. j \in 2..n /\ q[j] \in G
    BY <1>1 DEF Hits
  <2>2. j - 1 \in A /\ j = (j - 1) + 1
    BY <1>1, <2>1 DEF Hits
  <2> QED
    BY <2>2
<1> HIDE DEF A, B
<1>4. ExistsBijection(A, B)
  <2>1. next \in [A -> B]
    BY <1>2
  <2>2. next \in Bijection(A, B)
    BY <1>2, <1>3, <2>1 DEF Bijection, Injection, Surjection, IsInjective
  <2> QED
    BY <2>2 DEF ExistsBijection
<1>5. IsFiniteSet(A) /\ Cardinality(A) \in Nat /\ IsFiniteSet(Hits(q, G)) /\ Cardinality(Hits(q, G)) \in Nat
  BY <1>1, HitsCounted DEF A
<1>6. Cardinality(B) = Cardinality(A)
  BY <1>4, <1>5, FS_Bijection
<1>7. Cardinality(B) = IF 1 \in Hits(q, G) THEN Cardinality(Hits(q, G)) - 1 ELSE Cardinality(Hits(q, G))
  BY <1>5, FS_RemoveElement DEF B
<1>8. 1 \in Hits(q, G) <=> Head(q) \in G
  BY <1>1 DEF Hits
<1> QED
  BY <1>5, <1>6, <1>7, <1>8 DEF A

LEMMA HitsConcat ==
  ASSUME NEW S, NEW q \in Seq(S), NEW r \in Seq(S), NEW G
  PROVE  Cardinality(Hits(q \o r, G)) = Cardinality(Hits(q, G)) + Cardinality(Hits(r, G))
<1> DEFINE n == Len(q)
           m == Len(r)
           A == Hits(r, G)
           B == {i \in Hits(q \o r, G) : i > n}
           shift == [i \in A |-> n + i]
<1>1. /\ n \in Nat /\ m \in Nat /\ DOMAIN q = 1..n /\ DOMAIN r = 1..m /\ q \o r \in Seq(S)
      /\ DOMAIN (q \o r) = 1..(n + m)
      /\ \A i \in 1..(n + m) : (q \o r)[i] = IF i <= n THEN q[i] ELSE r[i - n]
  BY LenProperties, ConcatProperties
<1> HIDE DEF n, m
<1>2. ASSUME NEW i \in A PROVE i \in Int /\ n + i \in B
  <2>1. i \in 1..m /\ r[i] \in G /\ n + i \in 1..(n + m) /\ ~ (n + i <= n) /\ (n + i) - n = i
    BY <1>1 DEF Hits
  <2> QED
    BY <1>1, <2>1 DEF Hits
<1>3. ASSUME NEW j \in B PROVE \E i \in A : j = n + i
  <2>1. j \in 1..(n + m) /\ j > n /\ (q \o r)[j] \in G
    BY <1>1 DEF Hits
  <2>2. j - n \in 1..m /\ r[j - n] \in G /\ j = n + (j - n)
    BY <1>1, <2>1
  <2> QED
    BY <1>1, <2>2 DEF Hits
<1>4. Hits(q \o r, G) = Hits(q, G) \cup B /\ Hits(q, G) \cap B = {}
  <2>1. ASSUME NEW i PROVE i \in Hits(q, G) <=> i \in Hits(q \o r, G) /\ ~ (i > n)
    BY <1>1 DEF Hits
  <2> QED
    BY <2>1
<1> HIDE DEF A, B
<1>5. ExistsBijection(A, B)
  <2>1. shift \in [A -> B]
    BY <1>2
  <2>2. shift \in Bijection(A, B)
    BY <1>1, <1>2, <1>3, <2>1 DEF Bijection, Injection, Surjection, IsInjective
  <2> QED
    BY <2>2 DEF ExistsBijection
<1>6. IsFiniteSet(A) /\ Cardinality(A) \in Nat /\ IsFiniteSet(Hits(q, G)) /\ Cardinality(Hits(q, G)) \in Nat
  BY HitsCounted DEF A
<1>7. IsFiniteSet(B) /\ Cardinality(B) = Cardinality(A)
  BY <1>5, <1>6, FS_Bijection
<1>8. Cardinality(Hits(q \o r, G)) = Cardinality(Hits(q, G)) + Cardinality(B) - Cardinality({})
  BY <1>4, <1>6, <1>7, FS_Union
<1> QED
  BY <1>6, <1>7, <1>8, FS_EmptySet DEF A

LEMMA HitsAppend ==
  ASSUME NEW S, NEW q \in Seq(S), NEW x \in S, NEW G
  PROVE  Cardinality(Hits(Append(q, x), G)) = Cardinality(Hits(q, G)) + (IF x \in G THEN 1 ELSE 0)
<1>1. <<x>> \in Seq(S) /\ Append(q, x) = q \o <<x>> /\ DOMAIN <<x>> = {1} /\ <<x>>[1] = x
  OBVIOUS
<1>2. Cardinality(Hits(Append(q, x), G)) = Cardinality(Hits(q, G)) + Cardinality(Hits(<<x>>, G))
  BY <1>1, HitsConcat
<1>3. Hits(<<x>>, G) = IF x \in G THEN {1} ELSE {}
  BY <1>1 DEF Hits
<1>4. Cardinality(Hits(<<x>>, G)) = IF x \in G THEN 1 ELSE 0
  BY <1>3, FS_Singleton, FS_EmptySet
<1> QED
  BY <1>2, <1>4

(* A replacement takes away one mention of each old path.                  *)
LEMMA UpdateHits ==
  ASSUME NEW c \in Seq(Names), NEW path \in OldPaths
  PROVE  Cardinality(Hits(updateImportPaths(c), {path})) =
           IF Hits(c, {path}) = {} THEN 0 ELSE Cardinality(Hits(c, {path})) - 1
<1> DEFINE u == updateImportPaths(c)
           n == Len(c)
           H == Hits(c, {path})
<1>1. /\ n \in Nat /\ DOMAIN c = 1..n /\ DOMAIN u = 1..n
      /\ \A i \in 1..n : u[i] = IF c[i] \in OldPaths /\ \A j \in 1..(i - 1) : c[j] # c[i]
                                THEN newPath(c[i]) ELSE c[i]
  BY UpdateTyped, LenProperties
<1> HIDE DEF u, n
<1>2. \A i : i \in H <=> i \in 1..n /\ c[i] = path
  BY <1>1 DEF Hits
<1>3. \A i : i \in Hits(u, {path}) <=> i \in 1..n /\ u[i] = path
  BY <1>1 DEF Hits
<1>4. ASSUME NEW i \in 1..n
      PROVE  u[i] = path <=> c[i] = path /\ \E j \in 1..(i - 1) : c[j] = path
  <2>1. c[i] \in OldPaths => newPath(c[i]) # path
    BY MovedOnce
  <2> QED
    BY <1>1, <2>1
<1>5. CASE H = {}
  <2>1. Hits(u, {path}) = {}
    BY <1>2, <1>3, <1>4, <1>5
  <2> QED
    BY <1>5, <2>1, FS_EmptySet DEF u
<1>6. CASE H # {}
  <2> HIDE DEF H
  <2>1. H \subseteq Nat
    <3>1. \A i \in 1..n : i \in Nat
      BY <1>1
    <3> QED
      BY <1>2, <3>1
  <2>2. PICK first \in H : \A k \in H : ~ (k < first)
    BY <1>6, <2>1, LeastNatural
  <2>3. ASSUME NEW i \in H PROVE (\E j \in 1..(i - 1) : c[j] = path) <=> i # first
    <3>1. i \in Nat /\ i \in 1..n /\ first \in Nat /\ first \in 1..n /\ ~ (i < first)
      BY <1>2, <2>1, <2>2
    <3>2. CASE i = first
      <4>1. ASSUME NEW j \in 1..(i - 1), c[j] = path PROVE FALSE
        <5>1. j \in 1..n /\ j < first
          BY <1>1, <3>1, <3>2
        <5> QED
          BY <1>2, <2>2, <4>1, <5>1
      <4> QED
        BY <3>2, <4>1
    <3>3. CASE i # first
      <4>1. first \in 1..(i - 1) /\ c[first] = path
        BY <1>2, <2>2, <3>1, <3>3
      <4> QED
        BY <3>3, <4>1
    <3> QED
      BY <3>2, <3>3
  <2>4. Hits(u, {path}) = H \ {first}
    BY <1>2, <1>3, <1>4, <2>3
  <2>5. IsFiniteSet(H) /\ Cardinality(H) \in Nat
    BY HitsCounted DEF H
  <2> QED
    BY <1>6, <2>2, <2>4, <2>5, FS_RemoveElement DEF u, H
<1> QED
  BY <1>5, <1>6

LEMMA UpdateIdle ==
  ASSUME NEW c \in Seq(Names)
  PROVE  updateImportPaths(c) = c <=> \A path \in OldPaths : Hits(c, {path}) = {}
<1> DEFINE u == updateImportPaths(c)
           n == Len(c)
<1>1. /\ n \in Nat /\ DOMAIN c = 1..n /\ u \in Seq(Names) /\ Len(u) = n
      /\ \A i \in 1..n : u[i] = IF c[i] \in OldPaths /\ \A j \in 1..(i - 1) : c[j] # c[i]
                                THEN newPath(c[i]) ELSE c[i]
  BY UpdateTyped, LenProperties
<1>2. ASSUME \A path \in OldPaths : Hits(c, {path}) = {} PROVE u = c
  <2>1. \A i \in 1..n : c[i] \notin OldPaths
    BY <1>1, <1>2 DEF Hits
  <2>2. \A i \in 1..n : u[i] = c[i]
    BY <1>1, <2>1, Zenon
  <2> HIDE DEF u
  <2> QED
    BY <1>1, <2>2, SeqEqual
<1>3. ASSUME NEW path \in OldPaths, Hits(c, {path}) # {}, u = c PROVE FALSE
  <2>1. Cardinality(Hits(c, {path})) \in Nat /\ IsFiniteSet(Hits(c, {path}))
    BY HitsCounted
  <2>2. Cardinality(Hits(c, {path})) = Cardinality(Hits(c, {path})) - 1
    BY <1>3, UpdateHits
  <2> QED
    BY <2>1, <2>2
<1> QED
  BY <1>2, <1>3

(* The paths that lead to a file, how often the queue leads to it and the  *)
(* list names it, and how often the run has passed it.                     *)
PrefixesOf(f) == {p \in Seq(Segments) : IsPrefix(p, f)}
Leading(f) == Cardinality(Hits(queue, PrefixesOf(f)))
Owed(f) == Cardinality(Hits(found, {f}))
Passed(f) == Times(f) - Owed(f)
Untouched == DOMAIN files \ touched

\* After d updates of a file whose content was b.
Reached(c, b, d) ==
  \A path \in OldPaths :
    Count(c, path) = IF Count(b, path) <= d THEN 0 ELSE Count(b, path) - d

UpToDate(f) ==
  /\ Passed(f) \in Nat /\ Reached(files[f], before[f], Passed(f))
  /\ Passed(f) = 0 => files[f] = before[f]
  /\ f \in ToSet(updatedFiles) <=> files[f] # before[f]

FoundThere == \A i \in DOMAIN found : found[i] \in DOMAIN files \cup touched

ListsAll ==
  pc = "listing" =>
    /\ updatedFiles = <<>>
    /\ \A f \in Untouched :
         files[f] = before[f] /\ (Last(f) \in SolNames => Times(f) = Leading(f) + Owed(f))

UpdatesAll ==
  /\ pc \in {"updating", "writing", "truncated"} => queue = <<>>
  /\ pc \in {"updating", "writing", "done"} => \A f \in Untouched : UpToDate(f)
  /\ pc = "done" => found = <<>>
  /\ pc = "writing" /\ file \in Untouched =>
       buffer = updateImportPaths(files[file]) /\ buffer # files[file]
  /\ pc = "truncated" =>
       /\ \A f \in Untouched \ {file} : UpToDate(f)
       /\ file \in Untouched =>
            /\ Passed(file) \in Nat /\ Reached(buffer, before[file], Passed(file) + 1)
            /\ buffer # before[file]

FailsEarly == pc = "failed" /\ queue # <<>> => \A f \in Untouched : files[f] = before[f]

RunInv ==
  /\ Untouched \subseteq DOMAIN before /\ FoundThere
  /\ ListsAll /\ UpdatesAll /\ FailsEarly

LEMMA CountIsHits ==
  ASSUME NEW c, NEW path
  PROVE  Count(c, path) = Cardinality(Hits(c, {path}))
<1>1. {i \in DOMAIN c : c[i] = path} = Hits(c, {path})
  BY DEF Hits
<1> QED
  BY <1>1 DEF Count

LEMMA CountTyped ==
  ASSUME NEW c \in Seq(Names), NEW path
  PROVE  Count(c, path) \in Nat
BY CountIsHits, HitsCounted

LEMMA PrefixHits ==
  ASSUME NEW q \in Seq(Seq(Segments)), NEW f
  PROVE  {i \in DOMAIN q : IsPrefix(q[i], f)} = Hits(q, PrefixesOf(f))
<1>1. \A i \in DOMAIN q : q[i] \in Seq(Segments)
  BY LenProperties, ElementOfSeq
<1> QED
  BY <1>1 DEF Hits, PrefixesOf

LEMMA TimesIsHits ==
  ASSUME MigrateTypeOK, NEW f
  PROVE  /\ Times(f) = IF Last(f) \in SolNames THEN Cardinality(Hits(args, PrefixesOf(f))) ELSE 0
         /\ Times(f) \in Nat /\ Owed(f) \in Nat /\ Leading(f) \in Nat
<1>1. args \in Seq(Seq(Segments)) /\ queue \in Seq(Seq(Segments)) /\ found \in Seq(DOMAIN Contents)
  BY DEF MigrateTypeOK
<1>2. {i \in DOMAIN args : IsPrefix(args[i], f)} = Hits(args, PrefixesOf(f))
  BY <1>1, PrefixHits
<1>3. /\ Cardinality(Hits(args, PrefixesOf(f))) \in Nat /\ Cardinality(Hits(queue, PrefixesOf(f))) \in Nat
      /\ Cardinality(Hits(found, {f})) \in Nat
  BY <1>1, HitsCounted
<1> QED
  BY <1>2, <1>3 DEF Times, Owed, Leading

(* An update takes a file one further.                                     *)
LEMMA ReachedNext ==
  ASSUME NEW c \in Seq(Names), NEW b \in Seq(Names), NEW d \in Nat, Reached(c, b, d)
  PROVE  /\ Reached(updateImportPaths(c), b, d + 1)
         /\ updateImportPaths(c) # c => updateImportPaths(c) # b
<1> DEFINE u == updateImportPaths(c)
<1>1. ASSUME NEW path \in OldPaths
      PROVE  /\ Count(c, path) \in Nat /\ Count(b, path) \in Nat
             /\ Count(c, path) = IF Count(b, path) <= d THEN 0 ELSE Count(b, path) - d
             /\ Count(u, path) = IF Count(c, path) = 0 THEN 0 ELSE Count(c, path) - 1
             /\ Hits(c, {path}) = {} <=> Count(c, path) = 0
  <2>1. IsFiniteSet(Hits(c, {path})) /\ (Hits(c, {path}) = {} <=> Count(c, path) = 0)
    BY HitsCounted, CountIsHits, FS_EmptySet
  <2>2. Count(u, path) = IF Hits(c, {path}) = {} THEN 0 ELSE Count(c, path) - 1
    BY CountIsHits, UpdateHits
  <2> QED
    BY <2>1, <2>2, CountTyped DEF Reached
<1>2. Reached(u, b, d + 1)
  <2> HIDE DEF u
  <2> SUFFICES ASSUME NEW path \in OldPaths
               PROVE  Count(u, path) = IF Count(b, path) <= d + 1 THEN 0 ELSE Count(b, path) - (d + 1)
    BY DEF Reached
  <2> DEFINE nc == Count(c, path)
             nb == Count(b, path)
             nu == Count(u, path)
  <2>1. /\ nc \in Nat /\ nb \in Nat /\ nc = (IF nb <= d THEN 0 ELSE nb - d)
        /\ nu = IF nc = 0 THEN 0 ELSE nc - 1
    BY <1>1
  <2> HIDE DEF nc, nb, nu
  <2>2. nu = IF nb <= d + 1 THEN 0 ELSE nb - (d + 1)
    <3>1. CASE nb <= d
      BY <2>1, <3>1
    <3>2. CASE ~ (nb <= d)
      BY <2>1, <3>2
    <3> QED
      BY <3>1, <3>2
  <2> QED
    BY <2>2 DEF nb, nu
<1>3. ASSUME u # c PROVE u # b
  <2>1. PICK path \in OldPaths : Hits(c, {path}) # {}
    BY <1>3, UpdateIdle
  <2> HIDE DEF u
  <2>2. Count(u, path) < Count(b, path) /\ Count(u, path) \in Nat /\ Count(b, path) \in Nat
    BY <1>1, <2>1
  <2> QED
    BY <2>2
<1> QED
  BY <1>2, <1>3

LEMMA ReachedNone ==
  ASSUME NEW b \in Seq(Names)
  PROVE  Reached(b, b, 0)
<1>1. \A path \in OldPaths : Count(b, path) \in Nat
  BY CountTyped
<1> QED
  BY <1>1 DEF Reached

(* The tree: what leads to a file is a directory that holds the next path  *)
(* which leads to it, and no other.                                        *)
LEMMA PrefixIs ==
  ASSUME NEW f \in Seq(Segments), NEW p \in Seq(Segments)
  PROVE  /\ IsPrefix(p, f) <=> /\ Len(p) <= Len(f) /\ \A i \in 1..Len(p) : p[i] = f[i]
         /\ IsPrefix(p, f) /\ Len(p) = Len(f) => p = f
<1> DEFINE n == Len(p)
           sp == SubSeq(p, 1, n)
           sf == SubSeq(f, 1, n)
<1>1. n \in Nat /\ Len(f) \in Nat
  BY LenProperties
<1>2. ASSUME n <= Len(f)
      PROVE  sp = sf <=> \A i \in 1..n : p[i] = f[i]
  <2>1. sp = p
    BY SubSeqFull
  <2>2. \A i \in 1..n : f[i] \in Segments
    BY <1>1, <1>2, ElementOfSeq
  <2>3. /\ sf \in Seq(Segments) /\ Len(sf) = n /\ \A i \in 1..n : sf[i] = f[i]
    <3> HIDE DEF n
    <3>1. /\ SubSeq(f, 1, n) \in Seq(Segments)
          /\ Len(SubSeq(f, 1, n)) = IF 1 <= n THEN n - 1 + 1 ELSE 0
          /\ \A i \in 1..(n - 1 + 1) : SubSeq(f, 1, n)[i] = f[1 + i - 1]
      BY <1>1, <2>2, SubSeqProperties
    <3> QED
      BY <1>1, <3>1
  <2> HIDE DEF sp, sf
  <2>4. (\A i \in 1..n : p[i] = f[i]) => p = sf
    BY <2>3, SeqEqual
  <2> QED
    BY <2>1, <2>3, <2>4
<1>3. ASSUME n = Len(f), \A i \in 1..n : p[i] = f[i] PROVE p = f
  BY <1>3, SeqEqual
<1> QED
  BY <1>1, <1>2, <1>3 DEF IsPrefix

LEMMA FilePrefix ==
  ASSUME MigrateTypeOK, NEW f \in DOMAIN files, NEW top \in DOMAIN files
  PROVE  top \in PrefixesOf(f) <=> top = f
<1>1. f \in DOMAIN Contents /\ top \in DOMAIN Contents /\ f \in Seq(Segments) /\ top \in Seq(Segments)
  BY TypedFacts
<1>2. Len(f) \in Nat /\ Len(top) \in Nat /\ top # <<>> /\ Len(top) # 0
  BY <1>1, LenProperties, EmptySeq, MigrateAssumption
<1>3. ASSUME IsPrefix(top, f), top # f PROVE FALSE
  <2>1. Len(top) \in 1..(Len(f) - 1)
    BY <1>1, <1>2, <1>3, PrefixIs
  <2>2. SubSeq(f, 1, Len(top)) \in Directories
    BY <1>1, <2>1, MigrateAssumption
  <2>3. SubSeq(f, 1, Len(top)) = top
    BY <1>1, <1>3, SubSeqFull DEF IsPrefix
  <2> QED
    BY <1>1, <2>2, <2>3, MigrateAssumption
<1>4. IsPrefix(f, f)
  BY <1>1, <1>2, PrefixIs
<1> QED
  BY <1>1, <1>3, <1>4 DEF PrefixesOf

LEMMA ChildBelow ==
  ASSUME NEW f \in Seq(Segments), NEW top \in Seq(Segments), NEW p \in readdir(top), p \in PrefixesOf(f)
  PROVE  /\ p \in Seq(Segments) /\ Len(p) = Len(top) + 1 /\ Len(p) <= Len(f)
         /\ \A i \in 1..Len(p) : p[i] = f[i]
         /\ \A i \in 1..Len(top) : top[i] = p[i]
<1>1. p \in Seq(Segments) /\ IsPrefix(p, f) /\ p # <<>> /\ Front(p) = top /\ Len(top) \in Nat
  BY LenProperties DEF PrefixesOf, readdir
<1>2. Len(p) \in Nat /\ Len(p) # 0 /\ \A i \in 1..Len(p) : p[i] \in Segments
  BY <1>1, LenProperties, EmptySeq, ElementOfSeq
<1>3. /\ Len(top) = IF 1 <= Len(p) - 1 THEN (Len(p) - 1) - 1 + 1 ELSE 0
      /\ \A i \in 1..((Len(p) - 1) - 1 + 1) : top[i] = p[1 + i - 1]
  <2>1. \A i \in 1..(Len(p) - 1) : p[i] \in Segments
    BY <1>2
  <2> QED
    BY <1>1, <1>2, <2>1, SubSeqProperties DEF Front
<1>4. Len(p) = Len(top) + 1
  <2> DEFINE n == Len(p)
             m == Len(top)
  <2>1. n \in Nat /\ n # 0 /\ m = IF 1 <= n - 1 THEN (n - 1) - 1 + 1 ELSE 0
    BY <1>2, <1>3
  <2> HIDE DEF n, m
  <2>2. n = m + 1
    BY <2>1
  <2> QED
    BY <2>2 DEF n, m
<1>5. \A i \in 1..Len(top) : top[i] = p[i]
  <2> SUFFICES ASSUME NEW i \in 1..Len(top) PROVE top[i] = p[i]
    OBVIOUS
  <2>1. i \in 1..((Len(p) - 1) - 1 + 1) /\ 1 + i - 1 = i
    BY <1>1, <1>2, <1>4
  <2> QED
    BY <1>3, <2>1
<1>6. Len(p) <= Len(f) /\ \A i \in 1..Len(p) : p[i] = f[i]
  BY <1>1, PrefixIs
<1> QED
  BY <1>1, <1>4, <1>5, <1>6

LEMMA ChildPrefix ==
  ASSUME MigrateTypeOK, NEW f \in DOMAIN files, NEW top \in Directories
  PROVE  /\ \A p \in readdir(top) : p \in PrefixesOf(f) => top \in PrefixesOf(f)
         /\ \A p, q \in readdir(top) : p \in PrefixesOf(f) /\ q \in PrefixesOf(f) => p = q
         /\ top \in PrefixesOf(f) => \E p \in readdir(top) : p \in PrefixesOf(f)
<1>1. f \in DOMAIN Contents /\ f \in Seq(Segments) /\ top \in Seq(Segments) /\ f # top
  BY TypedFacts, SegmentsTyped, MigrateAssumption
<1>2. Len(f) \in Nat /\ Len(top) \in Nat
  BY <1>1, LenProperties
<1>3. ASSUME NEW p \in readdir(top), p \in PrefixesOf(f)
      PROVE  /\ p \in Seq(Segments) /\ Len(p) = Len(top) + 1 /\ Len(p) <= Len(f)
             /\ \A i \in 1..Len(p) : p[i] = f[i]
             /\ \A i \in 1..Len(top) : top[i] = p[i]
  BY <1>1, <1>3, ChildBelow
<1>4. ASSUME NEW p \in readdir(top), p \in PrefixesOf(f) PROVE top \in PrefixesOf(f)
  <2>1. /\ Len(p) = Len(top) + 1 /\ Len(p) <= Len(f) /\ \A i \in 1..Len(p) : p[i] = f[i]
        /\ \A i \in 1..Len(top) : top[i] = p[i]
    BY <1>3, <1>4
  <2>2. Len(top) <= Len(f) /\ \A i \in 1..Len(top) : top[i] = f[i]
    BY <1>2, <2>1
  <2> QED
    BY <1>1, <2>2, PrefixIs DEF PrefixesOf
<1>5. ASSUME NEW p \in readdir(top), NEW q \in readdir(top), p \in PrefixesOf(f), q \in PrefixesOf(f)
      PROVE  p = q
  <2>1. /\ p \in Seq(Segments) /\ q \in Seq(Segments) /\ Len(p) = Len(q)
        /\ \A i \in 1..Len(p) : p[i] = q[i]
    BY <1>3, <1>5
  <2> QED
    BY <2>1, SeqEqual
<1>6. ASSUME top \in PrefixesOf(f) PROVE \E p \in readdir(top) : p \in PrefixesOf(f)
  <2> DEFINE n == Len(top) + 1
             p == SubSeq(f, 1, n)
  <2>1. IsPrefix(top, f)
    BY <1>6 DEF PrefixesOf
  <2>2. n \in Nat /\ n >= 1 /\ n <= Len(f)
    BY <1>1, <1>2, <2>1, PrefixIs
  <2> HIDE DEF n
  <2>3. p \in Seq(Segments) /\ Len(p) = n /\ \A i \in 1..n : p[i] = f[i]
    <3>1. \A i \in 1..n : f[i] \in Segments
      BY <1>1, <1>2, <2>2, ElementOfSeq
    <3>2. /\ SubSeq(f, 1, n) \in Seq(Segments)
          /\ Len(SubSeq(f, 1, n)) = IF 1 <= n THEN n - 1 + 1 ELSE 0
          /\ \A i \in 1..(n - 1 + 1) : SubSeq(f, 1, n)[i] = f[1 + i - 1]
      BY <2>2, <3>1, SubSeqProperties
    <3> QED
      BY <2>2, <3>2
  <2>4. p \in DOMAIN files \cup Directories
    <3>1. CASE n = Len(f)
      <4>1. p = f
        BY <1>1, <3>1, SubSeqFull
      <4> QED
        BY <4>1
    <3>2. CASE n # Len(f)
      <4>1. n \in 1..(Len(f) - 1)
        BY <1>2, <2>2, <3>2
      <4> QED
        BY <1>1, <4>1, MigrateAssumption
    <3> QED
      BY <3>1, <3>2
  <2> HIDE DEF p
  <2>5. p \in PrefixesOf(f)
    BY <1>1, <2>2, <2>3, PrefixIs DEF PrefixesOf
  <2>6. p # <<>>
    BY <2>2, <2>3, EmptySeq
  <2>7. Front(p) = top
    <3>1. \A i \in 1..(n - 1) : p[i] \in Segments
      BY <2>2, <2>3, ElementOfSeq
    <3>2. /\ SubSeq(p, 1, n - 1) \in Seq(Segments)
          /\ Len(SubSeq(p, 1, n - 1)) = IF 1 <= n - 1 THEN (n - 1) - 1 + 1 ELSE 0
          /\ \A i \in 1..((n - 1) - 1 + 1) : SubSeq(p, 1, n - 1)[i] = p[1 + i - 1]
      BY <2>2, <3>1, SubSeqProperties
    <3>3. Len(top) = n - 1 /\ \A i \in 1..(n - 1) : top[i] = f[i]
      BY <1>1, <1>2, <2>1, PrefixIs DEF n
    <3>4. /\ Len(SubSeq(p, 1, n - 1)) = Len(top)
          /\ \A i \in 1..Len(SubSeq(p, 1, n - 1)) : SubSeq(p, 1, n - 1)[i] = top[i]
      BY <2>2, <2>3, <3>2, <3>3
    <3>5. SubSeq(p, 1, n - 1) = top
      BY <1>1, <3>2, <3>4, SeqEqual
    <3> QED
      BY <2>3, <3>5 DEF Front
  <2> QED
    BY <2>4, <2>5, <2>6, <2>7 DEF readdir
<1> QED
  BY <1>4, <1>5, <1>6

(* So what a directory adds to the queue leads to a file as often as the   *)
(* directory did.                                                          *)
LEMMA ChildrenLead ==
  ASSUME MigrateTypeOK, NEW f \in DOMAIN files, NEW top \in Directories,
         NEW names \in SetToSeqs(readdir(top))
  PROVE  Cardinality(Hits(names, PrefixesOf(f))) = IF top \in PrefixesOf(f) THEN 1 ELSE 0
<1> DEFINE S == readdir(top)
           n == Len(names)
           G == PrefixesOf(f)
<1>1. /\ IsFiniteSet(S) /\ names \in Seq(Seq(Segments)) /\ n = Cardinality(S)
      /\ DOMAIN names = 1..n /\ n \in Nat
      /\ \A i \in 1..n : names[i] \in S
      /\ \A i, j \in 1..n : i # j => names[i] # names[j]
  BY ReaddirSeqs
<1>2. /\ \A p \in S : p \in G => top \in G
      /\ \A p, q \in S : p \in G /\ q \in G => p = q
      /\ top \in G => \E p \in S : p \in G
  BY ChildPrefix
<1> HIDE DEF S, n, G
<1>3. CASE top \notin G
  <2>1. Hits(names, G) = {}
    BY <1>1, <1>2, <1>3 DEF Hits
  <2> QED
    BY <1>3, <2>1, FS_EmptySet DEF G
<1>4. CASE top \in G
  <2>1. PICK p \in S : p \in G
    BY <1>2, <1>4
  <2>2. \E i \in 1..n : names[i] = p
    <3>1. names \in [1..n -> S]
      BY <1>1, LenProperties DEF n
    <3>2. names \in Injection(1..n, S)
      BY <1>1, <3>1 DEF Injection, IsInjective
    <3>3. Cardinality(1..n) = n
      BY <1>1, FS_Interval
    <3>4. names \in Surjection(1..n, S)
      BY <1>1, <3>2, <3>3, FS_Injection
    <3> QED
      BY <2>1, <3>4 DEF Surjection
  <2>3. PICK i \in 1..n : names[i] = p
    BY <2>2
  <2>4. Hits(names, G) = {i}
    BY <1>1, <1>2, <2>1, <2>3 DEF Hits
  <2> QED
    BY <1>4, <2>4, FS_Singleton DEF G
<1> QED
  BY <1>3, <1>4 DEF G

LEMMA ReportedAppend ==
  ASSUME NEW S, NEW s \in Seq(S), NEW x \in S
  PROVE  \A y : y \in ToSet(Append(s, x)) <=> y \in ToSet(s) \/ y = x
<1>1. /\ Len(s) \in Nat /\ DOMAIN s = 1..Len(s) /\ DOMAIN Append(s, x) = 1..(Len(s) + 1)
      /\ \A i \in 1..(Len(s) + 1) : Append(s, x)[i] = IF i = Len(s) + 1 THEN x ELSE s[i]
  OBVIOUS
<1>2. ASSUME NEW i \in DOMAIN s PROVE i \in DOMAIN Append(s, x) /\ Append(s, x)[i] = s[i]
  BY <1>1
<1>3. ASSUME NEW i \in DOMAIN Append(s, x)
      PROVE  Append(s, x)[i] = x \/ (i \in DOMAIN s /\ Append(s, x)[i] = s[i])
  BY <1>1
<1>4. \E i \in DOMAIN Append(s, x) : Append(s, x)[i] = x
  <2>1. Len(s) + 1 \in DOMAIN Append(s, x) /\ Append(s, x)[Len(s) + 1] = x
    BY <1>1
  <2> QED
    BY <2>1
<1> QED
  BY <1>2, <1>3, <1>4 DEF ToSet

(* Each action of a run, and of those around it.                           *)
LEMMA StartRuns ==
  ASSUME MigrateTypeOK, MigrateTypeOK', NEW arguments \in Arguments, Start(arguments)
  PROVE  RunInv'
<1>1. /\ found' = <<>> /\ updatedFiles' = <<>> /\ pc' = "listing" /\ queue' = args'
      /\ before' = files /\ files' = files /\ touched' = {} /\ Untouched' = DOMAIN files
  BY DEF Start, disk, Untouched
<1>2. ASSUME NEW f, Last(f) \in SolNames PROVE Times(f)' = Leading(f)' + Owed(f)'
  <2>1. args' \in Seq(Seq(Segments))
    BY DEF MigrateTypeOK
  <2>2. Times(f)' = Cardinality(Hits(args', PrefixesOf(f)))
    BY <1>2, <2>1, PrefixHits DEF Times
  <2>3. Leading(f)' = Cardinality(Hits(args', PrefixesOf(f))) /\ Leading(f)' \in Nat
    BY <1>1, <2>1, HitsCounted DEF Leading
  <2>4. Owed(f)' = 0
    BY <1>1, NoHits DEF Owed
  <2> QED
    BY <2>2, <2>3, <2>4
<1> QED
  BY <1>1, <1>2 DEF RunInv, FoundThere, ListsAll, UpdatesAll, FailsEarly

LEMMA FailRuns ==
  ASSUME RunInv, Fail, pc = "listing" \/ queue = <<>>
  PROVE  RunInv'
<1>1. /\ pc' = "failed" /\ files' = files /\ queue' = queue /\ found' = found
      /\ before' = before /\ touched' = touched /\ Untouched' = Untouched
  BY DEF Fail, disk, history, Untouched
<1>2. FailsEarly'
  BY <1>1 DEF RunInv, ListsAll, FailsEarly
<1>3. FoundThere' /\ (Untouched \subseteq DOMAIN before)'
  BY <1>1 DEF RunInv, FoundThere
<1> QED
  BY <1>1, <1>2, <1>3 DEF RunInv, ListsAll, UpdatesAll

LEMMA ListNextRuns ==
  ASSUME MigrateTypeOK, RunInv, ListNext
  PROVE  RunInv'
<1> DEFINE top == Head(queue)
<1>1. /\ queue \in Seq(Seq(Segments)) /\ queue # <<>> /\ pc = "listing"
      /\ top \in Seq(Segments) /\ Tail(queue) \in Seq(Seq(Segments)) /\ found \in Seq(DOMAIN Contents)
  BY HeadTailProperties DEF ListNext, MigrateTypeOK
<1>2. ASSUME NEW f
      PROVE  /\ Leading(f) = Cardinality(Hits(Tail(queue), PrefixesOf(f)))
                               + (IF top \in PrefixesOf(f) THEN 1 ELSE 0)
             /\ Cardinality(Hits(Tail(queue), PrefixesOf(f))) \in Nat /\ Owed(f) \in Nat
  BY <1>1, HitsTail, HitsCounted DEF Leading, Owed
<1> HIDE DEF top
<1>3. CASE Fail
  BY <1>1, <1>3, FailRuns
<1>4. ASSUME UNCHANGED <<disk, pc, args, buffer, updatedFiles, history>>, FoundThere',
             \A f \in DOMAIN files :
                Last(f) \in SolNames => Leading(f)' + Owed(f)' = Leading(f) + Owed(f)
      PROVE  RunInv'
  <2>1. /\ pc' = "listing" /\ files' = files /\ updatedFiles' = updatedFiles /\ args' = args
        /\ before' = before /\ touched' = touched /\ Untouched' = Untouched
    BY <1>1, <1>4 DEF disk, history, Untouched
  <2>2. \A f : Times(f)' = Times(f)
    BY <2>1 DEF Times
  <2>3. ListsAll'
    <3>1. \A f \in Untouched : f \in DOMAIN files
      BY DEF Untouched
    <3> QED
      BY <1>1, <1>4, <2>1, <2>2, <3>1 DEF RunInv, ListsAll
  <2> QED
    BY <1>4, <2>1, <2>3 DEF RunInv, UpdatesAll, FailsEarly
<1>5. CASE /\ isFile(top) /\ queue' = Tail(queue)
           /\ found' = IF Last(top) \in SolNames THEN Append(found, top) ELSE found
           /\ UNCHANGED <<disk, pc, args, buffer, updatedFiles, history>>
  <2>1. top \in DOMAIN files /\ top \in DOMAIN Contents
    BY <1>5, TypedFacts DEF isFile
  <2>2. ASSUME NEW f \in DOMAIN files, Last(f) \in SolNames
        PROVE  Leading(f)' + Owed(f)' = Leading(f) + Owed(f)
    <3>1. Leading(f)' = Cardinality(Hits(Tail(queue), PrefixesOf(f)))
      BY <1>5 DEF Leading
    <3>2. Owed(f)' = Owed(f) + (IF top \in PrefixesOf(f) THEN 1 ELSE 0)
      <4>1. top \in PrefixesOf(f) <=> top = f
        BY <2>1, FilePrefix
      <4>2. CASE Last(top) \in SolNames
        <5>1. found' = Append(found, top)
          BY <1>5, <4>2
        <5>2. Owed(f)' = Owed(f) + (IF top \in {f} THEN 1 ELSE 0)
          BY <1>1, <2>1, <5>1, HitsAppend DEF Owed
        <5> QED
          BY <4>1, <5>2
      <4>3. CASE Last(top) \notin SolNames
        <5>1. found' = found /\ top # f
          BY <1>5, <2>2, <4>3
        <5>2. Owed(f)' = Owed(f)
          BY <5>1 DEF Owed
        <5> QED
          BY <1>2, <4>1, <5>1, <5>2
      <4> QED
        BY <4>2, <4>3
    <3> QED
      BY <1>2, <3>1, <3>2
  <2>3. FoundThere'
    <3>1. files' = files /\ touched' = touched
      BY <1>5 DEF disk, history
    <3>2. CASE found' = found
      BY <3>1, <3>2 DEF RunInv, FoundThere
    <3>3. CASE found' = Append(found, top)
      <4>1. /\ DOMAIN found' = 1..(Len(found) + 1) /\ DOMAIN found = 1..Len(found) /\ Len(found) \in Nat
            /\ \A i \in 1..(Len(found) + 1) : found'[i] = IF i = Len(found) + 1 THEN top ELSE found[i]
        BY <1>1, <2>1, <3>3
      <4>2. ASSUME NEW i \in DOMAIN found' PROVE found'[i] = top \/ (i \in DOMAIN found /\ found'[i] = found[i])
        BY <4>1
      <4> QED
        BY <2>1, <3>1, <4>2 DEF RunInv, FoundThere
    <3> QED
      BY <1>5, <3>2, <3>3
  <2> QED
    BY <1>4, <1>5, <2>2, <2>3
<1>6. CASE /\ isDirectory(top)
           /\ \E names \in SetToSeqs(readdir(top)) : queue' = Tail(queue) \o names
           /\ UNCHANGED <<disk, pc, args, found, buffer, updatedFiles, history>>
  <2>1. PICK names \in SetToSeqs(readdir(top)) : queue' = Tail(queue) \o names
    BY <1>6
  <2>2. names \in Seq(Seq(Segments))
    BY ReaddirSeqs
  <2>3. top \in Directories
    BY <1>6 DEF isDirectory
  <2>4. ASSUME NEW f \in DOMAIN files
        PROVE  Leading(f)' + Owed(f)' = Leading(f) + Owed(f)
    <3>1. Leading(f)' = Cardinality(Hits(Tail(queue) \o names, PrefixesOf(f)))
      BY <2>1 DEF Leading
    <3>2. Leading(f)' = Cardinality(Hits(Tail(queue), PrefixesOf(f)))
                          + Cardinality(Hits(names, PrefixesOf(f)))
      BY <1>1, <2>2, <3>1, HitsConcat
    <3>3. Cardinality(Hits(names, PrefixesOf(f))) = IF top \in PrefixesOf(f) THEN 1 ELSE 0
      BY <2>3, ChildrenLead
    <3>4. Owed(f)' = Owed(f)
      BY <1>6 DEF Owed
    <3> QED
      BY <1>2, <3>2, <3>3, <3>4
  <2>5. FoundThere'
    BY <1>6 DEF RunInv, FoundThere, disk, history
  <2> QED
    BY <1>4, <1>6, <2>4, <2>5
<1> QED
  BY <1>3, <1>5, <1>6 DEF ListNext, top

LEMMA EndListRuns ==
  ASSUME MigrateTypeOK, RunInv, EndList
  PROVE  RunInv'
<1>1. /\ pc = "listing" /\ pc' = "updating" /\ queue = <<>> /\ queue' = queue /\ files' = files
      /\ args' = args /\ found' = found /\ updatedFiles' = updatedFiles /\ before' = before
      /\ touched' = touched /\ Untouched' = Untouched
  BY DEF EndList, disk, history, Untouched
<1>2. ASSUME NEW f \in Untouched PROVE UpToDate(f)'
  <2>1. /\ f \in DOMAIN files /\ files[f] = before[f] /\ updatedFiles = <<>>
        /\ (Last(f) \in SolNames => Times(f) = Leading(f) + Owed(f))
    BY <1>1, <1>2 DEF RunInv, ListsAll, Untouched
  <2>2. files[f] \in Seq(Names)
    BY <2>1 DEF MigrateTypeOK
  <2>3. Times(f) = Owed(f) /\ Owed(f) \in Nat
    <3>1. Leading(f) = 0
      BY <1>1, NoHits DEF Leading
    <3>2. Owed(f) \in Nat
      BY TimesIsHits
    <3>3. CASE Last(f) \in SolNames
      BY <2>1, <3>1, <3>2, <3>3
    <3>4. CASE Last(f) \notin SolNames
      <4>1. \A i \in DOMAIN found : found[i] # f
        BY <3>4 DEF MigrateTypeOK
      <4>2. Hits(found, {f}) = {}
        BY <4>1 DEF Hits
      <4> QED
        BY <3>4, <4>2, FS_EmptySet DEF Owed, Times
    <3> QED
      BY <3>2, <3>3, <3>4
  <2>4. Passed(f)' = 0
    <3>1. Times(f)' = Times(f) /\ Owed(f)' = Owed(f)
      BY <1>1 DEF Times, Owed
    <3> QED
      BY <2>3, <3>1 DEF Passed
  <2>5. Reached(files[f], files[f], 0)
    BY <2>2, ReachedNone
  <2>6. ~ (f \in ToSet(updatedFiles))
    BY <2>1 DEF ToSet
  <2> QED
    BY <1>1, <2>1, <2>4, <2>5, <2>6 DEF UpToDate
<1>3. UpdatesAll'
  BY <1>1, <1>2 DEF UpdatesAll
<1>4. FoundThere' /\ (Untouched \subseteq DOMAIN before)'
  BY <1>1 DEF RunInv, FoundThere
<1> QED
  BY <1>1, <1>3, <1>4 DEF RunInv, ListsAll, FailsEarly

LEMMA UpToDateKept ==
  ASSUME NEW f, UpToDate(f), Passed(f)' = Passed(f), files'[f] = files[f], before' = before,
         f \in ToSet(updatedFiles)' <=> f \in ToSet(updatedFiles)
  PROVE  UpToDate(f)'
BY DEF UpToDate

LEMMA ReportRuns ==
  ASSUME RunInv, Report
  PROVE  RunInv'
<1>1. /\ pc = "updating" /\ pc' = "done" /\ found = <<>> /\ queue' = queue /\ files' = files
      /\ args' = args /\ found' = found /\ updatedFiles' = updatedFiles /\ before' = before
      /\ touched' = touched /\ Untouched' = Untouched
  BY DEF Report, disk, history, Untouched
<1>2. ASSUME NEW f \in Untouched PROVE UpToDate(f)'
  <2>1. Passed(f)' = Passed(f)
    BY <1>1 DEF Passed, Times, Owed
  <2> QED
    BY <1>1, <1>2, <2>1, UpToDateKept DEF RunInv, UpdatesAll
<1>3. UpdatesAll'
  BY <1>1, <1>2 DEF UpdatesAll
<1>4. FoundThere' /\ (Untouched \subseteq DOMAIN before)'
  BY <1>1 DEF RunInv, FoundThere
<1> QED
  BY <1>1, <1>3, <1>4 DEF RunInv, ListsAll, FailsEarly

(* The head of the list is passed when the list moves on.                  *)
LEMMA PassedNext ==
  ASSUME MigrateTypeOK, found # <<>>, found' = Tail(found), args' = args
  PROVE  /\ \A f : Passed(f)' = Passed(f) + (IF f = file THEN 1 ELSE 0)
         /\ \A f : Passed(f) \in Int
         /\ \A i \in DOMAIN found' : i + 1 \in DOMAIN found /\ found'[i] = found[i + 1]
<1>1. /\ found \in Seq(DOMAIN Contents) /\ file = Head(found)
      /\ \A i \in DOMAIN Tail(found) : i + 1 \in DOMAIN found /\ Tail(found)[i] = found[i + 1]
  BY HeadTailProperties, LenProperties DEF MigrateTypeOK, file
<1>2. ASSUME NEW f
      PROVE  Passed(f)' = Passed(f) + (IF f = file THEN 1 ELSE 0) /\ Passed(f) \in Int
  <2>1. Times(f)' = Times(f) /\ Times(f) \in Nat /\ Owed(f) \in Nat
    BY TimesIsHits DEF Times
  <2>2. Owed(f)' = Cardinality(Hits(Tail(found), {f})) /\ Owed(f)' \in Nat
    BY <1>1, HitsCounted, HeadTailProperties DEF Owed
  <2>3. Owed(f) = Cardinality(Hits(Tail(found), {f})) + (IF Head(found) \in {f} THEN 1 ELSE 0)
    BY <1>1, HitsTail DEF Owed
  <2>4. Owed(f) = Owed(f)' + (IF f = file THEN 1 ELSE 0)
    BY <1>1, <2>2, <2>3
  <2> QED
    BY <2>1, <2>2, <2>4 DEF Passed
<1> QED
  BY <1>1, <1>2

LEMMA ReadFileRuns ==
  ASSUME MigrateTypeOK, RunInv, ReadFile
  PROVE  RunInv'
<1>1. pc = "updating" /\ found # <<>> /\ queue = <<>> /\ \A f \in Untouched : UpToDate(f)
  BY DEF ReadFile, RunInv, UpdatesAll
<1>2. CASE ~ isFile(file)
  BY <1>1, <1>2, FailRuns DEF ReadFile
<1>3. CASE isFile(file)
  <2>1. /\ files' = files /\ args' = args /\ queue' = queue /\ updatedFiles' = updatedFiles
        /\ before' = before /\ touched' = touched /\ Untouched' = Untouched
        /\ buffer' = updateImportPaths(files[file])
        /\ \/ pc' = "writing" /\ found' = found /\ buffer' # files[file]
           \/ pc' = "updating" /\ found' = Tail(found) /\ buffer' = files[file]
    BY <1>1, <1>3 DEF ReadFile, disk, history, Untouched
  <2>2. file \in DOMAIN files /\ files[file] \in Seq(Names)
    BY <1>3 DEF isFile, MigrateTypeOK
  <2>3. (Untouched \subseteq DOMAIN before)'
    BY <2>1 DEF RunInv
  <2>4. CASE pc' = "writing"
    <3>1. found' = found /\ file' = file /\ buffer' # files[file]
      BY <2>1, <2>4 DEF file
    <3>2. \A f : Passed(f)' = Passed(f)
      BY <2>1, <3>1 DEF Passed, Times, Owed
    <3>3. \A f \in Untouched : UpToDate(f)'
      BY <1>1, <2>1, <3>2, UpToDateKept
    <3>4. UpdatesAll'
      BY <1>1, <2>1, <2>4, <3>1, <3>3 DEF UpdatesAll
    <3>5. FoundThere'
      BY <2>1, <3>1 DEF RunInv, FoundThere
    <3> QED
      BY <2>3, <2>4, <3>4, <3>5 DEF RunInv, ListsAll, FailsEarly
  <2>5. CASE pc' = "updating"
    <3>1. found' = Tail(found) /\ updateImportPaths(files[file]) = files[file]
      BY <2>1, <2>5
    <3>2. /\ \A f : Passed(f)' = Passed(f) + (IF f = file THEN 1 ELSE 0)
          /\ \A f : Passed(f) \in Int
          /\ \A i \in DOMAIN found' : i + 1 \in DOMAIN found /\ found'[i] = found[i + 1]
      BY <1>1, <2>1, <3>1, PassedNext
    <3>3. ASSUME NEW f \in Untouched PROVE UpToDate(f)'
      <4>1. CASE f # file
        <5>1. Passed(f)' = Passed(f)
          BY <3>2, <4>1
        <5> QED
          BY <1>1, <2>1, <3>3, <5>1, UpToDateKept
      <4>2. CASE f = file
        <5>1. UpToDate(f) /\ Passed(f) \in Nat /\ Passed(f)' = Passed(f) + 1
          BY <1>1, <3>2, <3>3, <4>2 DEF UpToDate
        <5>2. f \in DOMAIN before
          BY <3>3 DEF RunInv
        <5>3. before[f] \in Seq(Names)
          BY <5>2 DEF MigrateTypeOK
        <5>4. Reached(files[f], before[f], Passed(f) + 1)
          BY <2>2, <3>1, <4>2, <5>1, <5>3, ReachedNext DEF UpToDate
        <5>5. Passed(f)' \in Nat /\ Passed(f)' # 0
          BY <5>1
        <5> QED
          BY <2>1, <5>1, <5>4, <5>5 DEF UpToDate
      <4> QED
        BY <4>1, <4>2
    <3>4. UpdatesAll'
      BY <1>1, <2>1, <2>5, <3>3 DEF UpdatesAll
    <3>5. FoundThere'
      BY <2>1, <3>2 DEF RunInv, FoundThere
    <3> QED
      BY <2>3, <2>5, <3>4, <3>5 DEF RunInv, ListsAll, FailsEarly
  <2> QED
    BY <2>1, <2>4, <2>5
<1> QED
  BY <1>2, <1>3

LEMMA TruncateRuns ==
  ASSUME MigrateTypeOK, RunInv, Truncate
  PROVE  RunInv'
<1>1. /\ pc = "writing" /\ pc' = "truncated" /\ args' = args /\ queue' = queue /\ queue = <<>>
      /\ found' = found /\ file' = file /\ buffer' = buffer /\ updatedFiles' = updatedFiles
      /\ before' = before /\ touched' = touched
      /\ DOMAIN files' = DOMAIN files \cup {file}
      /\ \A f \in DOMAIN files' : files'[f] = IF f = file THEN <<>> ELSE files[f]
      /\ found # <<>>
  BY DEF Truncate, history, file, RunInv, UpdatesAll, MigrateTypeOK
<1>2. file \in DOMAIN files \cup touched
  <2>1. file = found[1] /\ 1 \in DOMAIN found
    BY <1>1, HeadTailProperties, LenProperties, EmptySeq DEF file, MigrateTypeOK
  <2> QED
    BY <2>1 DEF RunInv, FoundThere
<1>3. Untouched' = Untouched
  BY <1>1, <1>2 DEF Untouched
<1>4. \A f : Passed(f)' = Passed(f)
  BY <1>1 DEF Passed, Times, Owed
<1>5. ASSUME NEW f \in Untouched, f # file PROVE UpToDate(f)'
  <2>1. files'[f] = files[f] /\ UpToDate(f)
    BY <1>1, <1>5 DEF RunInv, UpdatesAll, Untouched
  <2> QED
    BY <1>1, <1>4, <2>1, UpToDateKept
<1>6. ASSUME file \in Untouched
      PROVE  /\ Passed(file) \in Nat /\ Reached(buffer, before[file], Passed(file) + 1)
             /\ buffer # before[file]
  <2>1. /\ UpToDate(file) /\ buffer = updateImportPaths(files[file]) /\ buffer # files[file]
        /\ file \in DOMAIN files /\ file \in DOMAIN before
    BY <1>1, <1>6 DEF RunInv, UpdatesAll, Untouched
  <2>2. files[file] \in Seq(Names) /\ before[file] \in Seq(Names)
    BY <2>1 DEF MigrateTypeOK
  <2>3. Passed(file) \in Nat /\ Reached(files[file], before[file], Passed(file))
    BY <2>1 DEF UpToDate
  <2> QED
    BY <2>1, <2>2, <2>3, ReachedNext
<1>7. ASSUME file' \in Untouched'
      PROVE  /\ Passed(file)' \in Nat /\ Reached(buffer', before'[file'], Passed(file)' + 1)
             /\ buffer' # before'[file']
  <2>1. Passed(file)' = Passed(file)
    BY <1>1 DEF Passed, Times, Owed
  <2> QED
    BY <1>1, <1>3, <1>6, <1>7, <2>1
<1>8. UpdatesAll'
  BY <1>1, <1>3, <1>5, <1>7 DEF UpdatesAll
<1>9. FoundThere' /\ (Untouched \subseteq DOMAIN before)'
  BY <1>1, <1>3 DEF RunInv, FoundThere
<1> QED
  BY <1>1, <1>8, <1>9 DEF RunInv, ListsAll, FailsEarly

LEMMA WriteFileRuns ==
  ASSUME MigrateTypeOK, RunInv, WriteFile
  PROVE  RunInv'
<1>1. /\ pc = "truncated" /\ pc' = "updating" /\ args' = args /\ queue' = queue /\ queue = <<>>
      /\ found' = Tail(found) /\ buffer' = buffer /\ updatedFiles' = Append(updatedFiles, file)
      /\ before' = before /\ touched' = touched /\ found # <<>>
      /\ DOMAIN files' = DOMAIN files /\ Untouched' = Untouched
      /\ \A f \in DOMAIN files' : files'[f] = IF f = file THEN buffer ELSE files[f]
  BY DEF WriteFile, history, RunInv, UpdatesAll, MigrateTypeOK, Untouched
<1>2. /\ \A f : Passed(f)' = Passed(f) + (IF f = file THEN 1 ELSE 0)
      /\ \A f : Passed(f) \in Int
      /\ \A i \in DOMAIN found' : i + 1 \in DOMAIN found /\ found'[i] = found[i + 1]
  BY <1>1, PassedNext
<1>3. \A f : f \in ToSet(updatedFiles)' <=> f \in ToSet(updatedFiles) \/ f = file
  BY <1>1, TypedFacts, ReportedAppend DEF MigrateTypeOK
<1>4. ASSUME NEW f \in Untouched PROVE UpToDate(f)'
  <2>1. CASE f # file
    <3>1. /\ Passed(f)' = Passed(f) /\ files'[f] = files[f] /\ UpToDate(f)
          /\ (f \in ToSet(updatedFiles)' <=> f \in ToSet(updatedFiles))
      BY <1>1, <1>2, <1>3, <1>4, <2>1 DEF RunInv, UpdatesAll, Untouched
    <3> QED
      BY <1>1, <3>1, UpToDateKept
  <2>2. CASE f = file
    <3>1. /\ Passed(f) \in Nat /\ Reached(buffer, before[f], Passed(f) + 1) /\ buffer # before[f]
          /\ f \in DOMAIN files
      BY <1>1, <1>4, <2>2 DEF RunInv, UpdatesAll, Untouched
    <3>2. Passed(f)' = Passed(f) + 1 /\ files'[f] = buffer /\ f \in ToSet(updatedFiles)'
      BY <1>1, <1>2, <1>3, <2>2, <3>1
    <3>3. Passed(f)' \in Nat /\ Passed(f)' # 0
      BY <3>1, <3>2
    <3> QED
      BY <1>1, <3>1, <3>2, <3>3 DEF UpToDate
  <2> QED
    BY <2>1, <2>2
<1>5. UpdatesAll'
  BY <1>1, <1>4 DEF UpdatesAll
<1>6. FoundThere' /\ (Untouched \subseteq DOMAIN before)'
  BY <1>1, <1>2 DEF RunInv, FoundThere
<1> QED
  BY <1>1, <1>5, <1>6 DEF RunInv, ListsAll, FailsEarly

(* What others do to files takes them out of what a run is held to.        *)
LEMMA OthersRun ==
  ASSUME RunInv, UNCHANGED process, before' = before, Untouched' \subseteq Untouched,
         \A f \in DOMAIN files \cup touched : f \in DOMAIN files' \cup touched',
         \A f \in Untouched' : files'[f] = files[f]
  PROVE  RunInv'
<1>1. /\ pc' = pc /\ args' = args /\ queue' = queue /\ found' = found
      /\ buffer' = buffer /\ updatedFiles' = updatedFiles /\ file' = file
  BY DEF process, file
<1>2. \A f : Times(f)' = Times(f) /\ Owed(f)' = Owed(f) /\ Leading(f)' = Leading(f)
  BY <1>1 DEF Times, Owed, Leading
<1>3. \A f : Passed(f)' = Passed(f)
  BY <1>2 DEF Passed
<1>4. ASSUME NEW f \in Untouched', UpToDate(f) PROVE UpToDate(f)'
  BY <1>1, <1>3, <1>4, UpToDateKept
<1>5. ListsAll'
  BY <1>1, <1>2 DEF RunInv, ListsAll
<1>6. UpdatesAll'
  <2>1. pc' \in {"updating", "writing", "done"} => \A f \in Untouched' : UpToDate(f)'
    BY <1>1, <1>4 DEF RunInv, UpdatesAll
  <2>2. pc' = "writing" /\ file' \in Untouched' =>
          buffer' = updateImportPaths(files'[file']) /\ buffer' # files'[file']
    <3>1. ASSUME pc' = "writing", file' \in Untouched'
          PROVE  /\ buffer' = updateImportPaths(files[file]) /\ buffer' # files[file]
                 /\ files'[file'] = files[file]
      BY <1>1, <3>1 DEF RunInv, UpdatesAll
    <3> QED
      BY <3>1
  <2>3. pc' = "truncated" => \A f \in Untouched' \ {file'} : UpToDate(f)'
    BY <1>1, <1>4 DEF RunInv, UpdatesAll
  <2>4. pc' = "truncated" /\ file' \in Untouched' =>
          /\ Passed(file)' \in Nat /\ Reached(buffer', before'[file'], Passed(file)' + 1)
          /\ buffer' # before'[file']
    <3>1. Passed(file)' = Passed(file)
      BY <1>1 DEF Passed, Times, Owed
    <3> QED
      BY <1>1, <3>1 DEF RunInv, UpdatesAll
  <2> QED
    BY <1>1, <2>1, <2>2, <2>3, <2>4 DEF RunInv, UpdatesAll
<1>7. FailsEarly'
  BY <1>1 DEF RunInv, FailsEarly
<1>8. FoundThere'
  BY <1>1 DEF RunInv, FoundThere
<1> QED
  BY <1>5, <1>6, <1>7, <1>8 DEF RunInv

LEMMA SaveRuns ==
  ASSUME RunInv, NEW f, NEW draft, Save(f, draft)
  PROVE  RunInv'
<1>1. /\ UNCHANGED process /\ before' = before /\ touched' = touched \cup {f}
      /\ DOMAIN files' = DOMAIN files /\ \A g \in DOMAIN files : g # f => files'[g] = files[g]
  BY DEF Save
<1>2. Untouched' = Untouched \ {f}
  BY <1>1 DEF Untouched
<1>3. \A g \in Untouched' : files'[g] = files[g]
  BY <1>1, <1>2 DEF Untouched
<1> QED
  BY <1>1, <1>2, <1>3, OthersRun

LEMMA DeleteRuns ==
  ASSUME RunInv, NEW f, Delete(f)
  PROVE  RunInv'
<1>1. /\ UNCHANGED process /\ before' = before /\ touched' = touched \cup {f}
      /\ DOMAIN files' = DOMAIN files \ {f} /\ \A g \in DOMAIN files' : files'[g] = files[g]
  BY DEF Delete
<1>2. Untouched' = Untouched \ {f}
  BY <1>1 DEF Untouched
<1>3. \A g \in Untouched' : files'[g] = files[g]
  BY <1>1 DEF Untouched
<1> QED
  BY <1>1, <1>2, <1>3, OthersRun

LEMMA KillRuns ==
  ASSUME RunInv, Kill
  PROVE  RunInv'
<1>1. /\ pc' = "idle" /\ found' = found /\ files' = files /\ before' = before /\ touched' = touched
  BY DEF Kill, disk
<1>2. Untouched' = Untouched
  BY <1>1 DEF Untouched
<1> QED
  BY <1>1, <1>2 DEF RunInv, FoundThere, ListsAll, UpdatesAll, FailsEarly

LEMMA RunsInit == MigrateInit => RunInv
BY DEF MigrateInit, RunInv, Untouched, FoundThere, ListsAll, UpdatesAll, FailsEarly

LEMMA RunsNext ==
  MigrateTypeOK /\ MigrateTypeOK' /\ RunInv /\ [MigrateNext]_vars => RunInv'
<1> SUFFICES ASSUME MigrateTypeOK, MigrateTypeOK', RunInv, [MigrateNext]_vars PROVE RunInv'
  OBVIOUS
<1>1. CASE UNCHANGED vars
  <2>1. UNCHANGED process /\ files' = files /\ before' = before /\ touched' = touched
    BY <1>1 DEF vars, disk, history
  <2> QED
    BY <2>1, OthersRun DEF Untouched
<1>2. CASE Step
  BY <1>2, ListNextRuns, EndListRuns, ReadFileRuns, TruncateRuns, WriteFileRuns, ReportRuns DEF Step
<1> QED
  BY <1>1, <1>2, StartRuns, SaveRuns, DeleteRuns, KillRuns DEF MigrateNext

LEMMA RunsStay == MigrateSpec => [](MigrateTypeOK /\ RunInv)
<1>1. MigrateSpec => []MigrateTypeOK
  BY FilesStayKept, PTL
<1> QED
  BY <1>1, RunsInit, RunsNext, PTL DEF MigrateSpec

(* A run that ends well has moved, in every file below its arguments that  *)
(* nobody else changed, as many mentions of each old path as the arguments *)
(* lead to the file, and has changed and reported no other; one that       *)
(* misses a path while it lists has changed none                           *)
(* (scripts/migrate-imports.js:92-157).                                    *)
THEOREM RunsMoveEach == MigrateSpec => []RunMovesEach
<1>1. ASSUME MigrateTypeOK, RunInv PROVE RunMovesEach
  <2> SUFFICES ASSUME NEW f \in DOMAIN files \ touched
               PROVE  /\ pc = "done" =>
                           /\ \A path \in OldPaths : LET n == Count(before[f], path) IN
                                Count(files[f], path) = IF n <= Times(f) THEN 0 ELSE n - Times(f)
                           /\ Times(f) = 0 => files[f] = before[f]
                           /\ f \in ToSet(updatedFiles) <=> files[f] # before[f]
                      /\ pc = "failed" /\ queue # <<>> => files[f] = before[f]
    BY DEF RunMovesEach
  <2>1. f \in Untouched
    BY DEF Untouched
  <2>2. ASSUME pc = "done"
        PROVE  /\ Reached(files[f], before[f], Times(f))
               /\ Times(f) = 0 => files[f] = before[f]
               /\ f \in ToSet(updatedFiles) <=> files[f] # before[f]
    <3>1. UpToDate(f) /\ found = <<>>
      BY <1>1, <2>1, <2>2 DEF RunInv, UpdatesAll
    <3>2. Owed(f) = 0
      BY <3>1, NoHits DEF Owed
    <3>3. Passed(f) = Times(f)
      BY <1>1, <3>2, TimesIsHits DEF Passed
    <3> QED
      BY <3>1, <3>3 DEF UpToDate
  <2> QED
    BY <1>1, <2>1, <2>2 DEF RunInv, FailsEarly, Reached
<1> QED
  BY <1>1, RunsStay, PTL
-----------------------------------------------------------------------------
(* A run comes to an end.  What is ahead of it is finite, and each path    *)
(* that it looks at is behind it afterwards: what a directory holds leads  *)
(* to no path that the directory did not lead to, no two of it lead to the *)
(* same one, and none leads to the directory.                              *)
LEMMA AheadCounted ==
  ASSUME MigrateTypeOK
  PROVE  IsFiniteSet(Ahead) /\ Cardinality(Ahead) \in Nat
<1>1. queue \in Seq(Seq(Segments))
  BY DEF MigrateTypeOK
<1>2. DOMAIN queue = 1..Len(queue) /\ Len(queue) \in Nat
  BY <1>1, LenProperties
<1>3. IsFiniteSet(DOMAIN queue) /\ IsFiniteSet(Paths)
  <2>1. IsFiniteSet(DOMAIN queue)
    BY <1>2, FS_Interval
  <2>2. IsFiniteSet(Paths)
    BY FS_Union, MigrateAssumption DEF Paths
  <2> QED
    BY <2>1, <2>2
<1>4. IsFiniteSet((DOMAIN queue) \X Paths)
  BY <1>3, FS_Product
<1>5. Ahead \in SUBSET ((DOMAIN queue) \X Paths)
  BY DEF Ahead
<1> QED
  BY <1>4, <1>5, FS_Subset, FS_CardinalityType

LEMMA AheadIs ==
  ASSUME MigrateTypeOK, NEW i, NEW p
  PROVE  <<i, p>> \in Ahead <=> i \in 1..Len(queue) /\ p \in Paths /\ queue[i] \in PrefixesOf(p)
<1>1. queue \in Seq(Seq(Segments))
  BY DEF MigrateTypeOK
<1>2. DOMAIN queue = 1..Len(queue) /\ \A j \in 1..Len(queue) : queue[j] \in Seq(Segments)
  BY <1>1, LenProperties, ElementOfSeq
<1>3. <<i, p>> \in Ahead <=> i \in DOMAIN queue /\ p \in Paths /\ IsPrefix(queue[i], p)
  BY Zenon DEF Ahead
<1> QED
  BY <1>2, <1>3 DEF PrefixesOf

LEMMA LookedAt ==
  ASSUME MigrateTypeOK, MigrateTypeOK', queue # <<>>, Head(queue) \in Paths,
         NEW names \in Seq(Seq(Segments)), queue' = Tail(queue) \o names,
         \A i \in 1..Len(names) : names[i] \in readdir(Head(queue)),
         \A i, j \in 1..Len(names) : i # j => names[i] # names[j]
  PROVE  Cardinality(Ahead') <= Cardinality(Ahead) - 1
<1> DEFINE top == Head(queue)
           n == Len(queue)
           From(v) == IF v[1] <= n - 1 THEN <<v[1] + 1, v[2]>> ELSE <<1, v[2]>>
           from == [v \in Ahead' |-> From(v)]
           Rest == Ahead \ {<<1, top>>}
<1>1. /\ queue \in Seq(Seq(Segments)) /\ queue' \in Seq(Seq(Segments)) /\ n \in Nat /\ n >= 1
      /\ top = queue[1] /\ top \in Seq(Segments) /\ Tail(queue) \in Seq(Seq(Segments))
      /\ Len(Tail(queue)) = n - 1 /\ \A i \in 1..(n - 1) : Tail(queue)[i] = queue[i + 1]
  BY LenProperties, HeadTailProperties, EmptySeq, ElementOfSeq DEF MigrateTypeOK
<1>2. /\ Len(names) \in Nat /\ Len(queue') = (n - 1) + Len(names)
      /\ \A i \in 1..Len(queue') : queue'[i] = IF i <= n - 1 THEN queue[i + 1] ELSE names[i - (n - 1)]
  <2> HIDE DEF n
  <2>1. /\ Len(names) \in Nat /\ Len(Tail(queue) \o names) = Len(Tail(queue)) + Len(names)
        /\ \A i \in 1..(Len(Tail(queue)) + Len(names)) :
             (Tail(queue) \o names)[i] = IF i <= Len(Tail(queue)) THEN Tail(queue)[i]
                                         ELSE names[i - Len(Tail(queue))]
    BY <1>1, LenProperties, ConcatProperties
  <2> QED
    BY <1>1, <2>1
<1>3. \A p \in Paths : p \in Seq(Segments)
  BY SegmentsTyped DEF Paths
<1> HIDE DEF n, top
<1>4. \A i, p : <<i, p>> \in Ahead' <=> i \in 1..Len(queue') /\ p \in Paths /\ queue'[i] \in PrefixesOf(p)
  <2>1. queue' \in Seq(Seq(Segments))
    BY <1>1
  <2>2. DOMAIN queue' = 1..Len(queue') /\ \A j \in 1..Len(queue') : queue'[j] \in Seq(Segments)
    BY <2>1, LenProperties, ElementOfSeq
  <2>3. \A i, p : <<i, p>> \in Ahead' <=> i \in DOMAIN queue' /\ p \in Paths /\ IsPrefix(queue'[i], p)
    BY Zenon DEF Ahead, Paths
  <2> QED
    BY <2>2, <2>3 DEF PrefixesOf
<1>5. \A v \in Ahead' : v = <<v[1], v[2]>>
  BY DEF Ahead
<1>6. ASSUME NEW i \in 1..Len(queue'), NEW p \in Paths, queue'[i] \in PrefixesOf(p), ~ (i <= n - 1)
      PROVE  /\ top \in PrefixesOf(p) /\ p # top
             /\ i - (n - 1) \in 1..Len(names) /\ queue'[i] = names[i - (n - 1)]
             /\ Len(queue'[i]) = Len(top) + 1 /\ \A k \in 1..Len(queue'[i]) : queue'[i][k] = p[k]
  <2>1. i - (n - 1) \in 1..Len(names) /\ queue'[i] = names[i - (n - 1)]
    BY <1>1, <1>2, <1>6
  <2>2. queue'[i] \in readdir(top)
    BY <2>1 DEF top
  <2>3. /\ Len(queue'[i]) = Len(top) + 1 /\ Len(queue'[i]) <= Len(p)
        /\ \A k \in 1..Len(queue'[i]) : queue'[i][k] = p[k]
        /\ \A k \in 1..Len(top) : top[k] = queue'[i][k]
    BY <1>1, <1>3, <1>6, <2>2, ChildBelow
  <2>4. Len(top) \in Nat /\ Len(p) \in Nat
    BY <1>1, <1>3, LenProperties
  <2>5. Len(top) <= Len(p) /\ \A k \in 1..Len(top) : top[k] = p[k]
    <3>1. Len(top) <= Len(p)
      BY <2>3, <2>4
    <3>2. ASSUME NEW k \in 1..Len(top) PROVE top[k] = p[k]
      <4>1. k \in 1..Len(queue'[i])
        BY <2>3, <2>4
      <4> QED
        BY <2>3, <4>1
    <3> QED
      BY <3>1, <3>2
  <2>6. top \in PrefixesOf(p)
    BY <1>1, <1>3, <2>5, PrefixIs DEF PrefixesOf
  <2>7. p # top
    BY <2>3, <2>4
  <2> QED
    BY <2>1, <2>3, <2>6, <2>7
<1>7. ASSUME NEW v \in Ahead' PROVE From(v) \in Rest
  <2>1. v[1] \in 1..Len(queue') /\ v[2] \in Paths /\ queue'[v[1]] \in PrefixesOf(v[2])
    BY <1>4, <1>5
  <2>2. CASE v[1] <= n - 1
    <3>1. v[1] + 1 \in 1..n /\ queue[v[1] + 1] \in PrefixesOf(v[2]) /\ v[1] + 1 # 1
      BY <1>1, <1>2, <2>1, <2>2
    <3>2. <<v[1] + 1, v[2]>> \in Ahead
      BY <2>1, <3>1, AheadIs DEF n
    <3> QED
      BY <2>2, <3>1, <3>2
  <2>3. CASE ~ (v[1] <= n - 1)
    <3>1. top \in PrefixesOf(v[2]) /\ v[2] # top
      BY <1>6, <2>1, <2>3
    <3>2. <<1, v[2]>> \in Ahead
      BY <1>1, <2>1, <3>1, AheadIs DEF n
    <3> QED
      BY <2>3, <3>1, <3>2
  <2> QED
    BY <2>2, <2>3
<1>8. ASSUME NEW v \in Ahead', NEW w \in Ahead', From(v) = From(w) PROVE v = w
  <2>1. /\ v[1] \in 1..Len(queue') /\ v[2] \in Paths /\ queue'[v[1]] \in PrefixesOf(v[2])
        /\ w[1] \in 1..Len(queue') /\ w[2] \in Paths /\ queue'[w[1]] \in PrefixesOf(w[2])
    BY <1>4, <1>5
  <2>2. v[2] = w[2]
    BY <1>8
  <2>3. v[1] \in Int /\ w[1] \in Int /\ v[1] >= 1 /\ w[1] >= 1
    BY <2>1
  <2>4. CASE v[1] <= n - 1 \/ w[1] <= n - 1
    <3>1. /\ From(v)[1] = IF v[1] <= n - 1 THEN v[1] + 1 ELSE 1
          /\ From(w)[1] = IF w[1] <= n - 1 THEN w[1] + 1 ELSE 1
      OBVIOUS
    <3>2. (IF v[1] <= n - 1 THEN v[1] + 1 ELSE 1) = IF w[1] <= n - 1 THEN w[1] + 1 ELSE 1
      BY <1>8, <3>1
    <3>3. v[1] = w[1]
      BY <1>1, <2>3, <2>4, <3>2
    <3> QED
      BY <1>5, <2>2, <3>3
  <2>5. CASE ~ (v[1] <= n - 1) /\ ~ (w[1] <= n - 1)
    <3>1. /\ v[1] - (n - 1) \in 1..Len(names) /\ queue'[v[1]] = names[v[1] - (n - 1)]
          /\ Len(queue'[v[1]]) = Len(top) + 1
          /\ \A k \in 1..Len(queue'[v[1]]) : queue'[v[1]][k] = v[2][k]
      BY <1>6, <2>1, <2>5
    <3>2. /\ w[1] - (n - 1) \in 1..Len(names) /\ queue'[w[1]] = names[w[1] - (n - 1)]
          /\ Len(queue'[w[1]]) = Len(top) + 1
          /\ \A k \in 1..Len(queue'[w[1]]) : queue'[w[1]][k] = w[2][k]
      BY <1>6, <2>1, <2>5
    <3>3. Len(queue'[v[1]]) = Len(queue'[w[1]])
      BY <3>1, <3>2
    <3>4. ASSUME NEW k \in 1..Len(queue'[v[1]]) PROVE queue'[v[1]][k] = queue'[w[1]][k]
      <4>1. queue'[v[1]][k] = v[2][k]
        BY <3>1
      <4>2. queue'[w[1]][k] = w[2][k]
        BY <3>2, <3>3
      <4> QED
        BY <2>2, <4>1, <4>2
    <3>5. queue'[v[1]] \in Seq(Segments) /\ queue'[w[1]] \in Seq(Segments)
      BY <1>1, <2>1, ElementOfSeq
    <3>6. queue'[v[1]] = queue'[w[1]]
      BY <3>3, <3>4, <3>5, SeqEqual
    <3>7. v[1] - (n - 1) = w[1] - (n - 1)
      <4> DEFINE i == v[1] - (n - 1)
                 j == w[1] - (n - 1)
      <4>1. i \in 1..Len(names) /\ j \in 1..Len(names) /\ names[i] = names[j]
        BY <3>1, <3>2, <3>6
      <4> HIDE DEF i, j
      <4>2. i = j
        BY <4>1
      <4> QED
        BY <4>2 DEF i, j
    <3>8. v[1] = w[1]
      BY <1>1, <2>3, <3>7
    <3> QED
      BY <1>5, <2>2, <3>8
  <2> QED
    BY <2>4, <2>5
<1>9. from \in Injection(Ahead', Rest)
  <2> HIDE DEF From, Rest
  <2>1. from \in [Ahead' -> Rest]
    BY <1>7
  <2> QED
    BY <1>8, <2>1 DEF Injection, IsInjective
<1>10. IsFiniteSet(Ahead) /\ Cardinality(Ahead) \in Nat
  BY AheadCounted
<1>11. <<1, top>> \in Ahead
  <2>1. Len(top) \in Nat
    BY <1>1, LenProperties
  <2>2. top \in PrefixesOf(top)
    BY <1>1, <2>1, PrefixIs DEF PrefixesOf
  <2>3. queue[1] = top /\ 1 \in 1..Len(queue)
    BY <1>1 DEF n
  <2> QED
    BY <2>2, <2>3, AheadIs DEF top
<1>12. IsFiniteSet(Rest) /\ Cardinality(Rest) = Cardinality(Ahead) - 1
  BY <1>10, <1>11, FS_RemoveElement
<1> HIDE DEF from, Rest
<1>13. Cardinality(Ahead') <= Cardinality(Rest)
  BY <1>9, <1>12, FS_Injection
<1> QED
  BY <1>12, <1>13

LEMMA StepsCounted ==
  ASSUME MigrateTypeOK
  PROVE  /\ StepsLeft \in Nat /\ Len(found) \in Nat /\ Cardinality(Ahead) \in Nat
         /\ pc = "listing" => StepsLeft = 4 * Cardinality(Ahead) + 3 * Len(found) + 2
         /\ pc = "updating" => StepsLeft = 3 * Len(found) + 1
         /\ pc = "writing" => StepsLeft = 3 * Len(found) /\ Len(found) >= 1
         /\ pc = "truncated" => StepsLeft = 3 * Len(found) - 1 /\ Len(found) >= 1
         /\ pc \in {"idle", "done", "failed"} => StepsLeft = 0
<1>1. found \in Seq(DOMAIN Contents)
  BY DEF MigrateTypeOK
<1>2. Len(found) \in Nat /\ (pc \in {"writing", "truncated"} => Len(found) >= 1)
  <2>1. Len(found) \in Nat /\ (found # <<>> => Len(found) # 0)
    BY <1>1, LenProperties, EmptySeq
  <2> QED
    BY <2>1 DEF MigrateTypeOK
<1>3. Cardinality(Ahead) \in Nat
  BY AheadCounted
<1>4. pc \in {"idle", "listing", "updating", "writing", "truncated", "done", "failed"}
  BY DEF MigrateTypeOK
<1>5. /\ pc = "listing" => StepsLeft = 4 * Cardinality(Ahead) + 3 * Len(found) + 2
      /\ pc = "updating" => StepsLeft = 3 * Len(found) + 1
      /\ pc = "writing" => StepsLeft = 3 * Len(found)
      /\ pc = "truncated" => StepsLeft = 3 * Len(found) - 1
      /\ pc \in {"idle", "done", "failed"} => StepsLeft = 0
  BY DEF StepsLeft
<1> QED
  BY <1>2, <1>3, <1>4, <1>5

LEMMA StepsCountedNext ==
  (MigrateTypeOK => /\ StepsLeft \in Nat /\ Len(found) \in Nat /\ Cardinality(Ahead) \in Nat
                    /\ pc = "listing" => StepsLeft = 4 * Cardinality(Ahead) + 3 * Len(found) + 2
                    /\ pc = "failed" => StepsLeft = 0)'
<1>1. MigrateTypeOK => /\ StepsLeft \in Nat /\ Len(found) \in Nat /\ Cardinality(Ahead) \in Nat
                       /\ pc = "listing" => StepsLeft = 4 * Cardinality(Ahead) + 3 * Len(found) + 2
                       /\ pc = "failed" => StepsLeft = 0
  BY StepsCounted
<1> QED
  BY <1>1, PTL

LEMMA TailShorter ==
  ASSUME MigrateTypeOK, found # <<>>
  PROVE  Len(Tail(found)) = Len(found) - 1 /\ Len(found) \in Nat /\ Len(found) >= 1
<1>1. found \in Seq(DOMAIN Contents)
  BY DEF MigrateTypeOK
<1> QED
  BY <1>1, LenProperties, HeadTailProperties, EmptySeq

LEMMA ListNextNearer ==
  ASSUME MigrateTypeOK, MigrateTypeOK', ListNext
  PROVE  StepsLeft' < StepsLeft
<1> DEFINE top == Head(queue)
<1>1. /\ queue \in Seq(Seq(Segments)) /\ queue # <<>> /\ pc = "listing"
      /\ Tail(queue) \in Seq(Seq(Segments)) /\ found \in Seq(DOMAIN Contents)
  BY HeadTailProperties DEF ListNext, MigrateTypeOK
<1>2. /\ StepsLeft = 4 * Cardinality(Ahead) + 3 * Len(found) + 2
      /\ Len(found) \in Nat /\ Cardinality(Ahead) \in Nat
  BY <1>1, StepsCounted
<1>3. /\ Len(found') \in Nat /\ Cardinality(Ahead') \in Nat
      /\ pc' = "listing" => StepsLeft' = 4 * Cardinality(Ahead') + 3 * Len(found') + 2
      /\ pc' = "failed" => StepsLeft' = 0
  BY StepsCountedNext
<1> HIDE DEF top
<1>4. CASE Fail
  BY <1>2, <1>3, <1>4 DEF Fail
<1>5. CASE /\ isFile(top) /\ queue' = Tail(queue)
           /\ found' = IF Last(top) \in SolNames THEN Append(found, top) ELSE found
           /\ UNCHANGED <<disk, pc, args, buffer, updatedFiles, history>>
  <2>1. top \in DOMAIN Contents
    BY <1>5, TypedFacts DEF isFile
  <2>2. Len(found') <= Len(found) + 1
    <3>1. Len(Append(found, top)) = Len(found) + 1
      BY <1>1, <2>1
    <3> QED
      BY <1>2, <1>5, <3>1
  <2>3. <<>> \in Seq(Seq(Segments)) /\ 1..Len(<<>>) = {} /\ queue' = Tail(queue) \o <<>>
    BY <1>1, <1>5, ConcatEmptySeq, EmptySeq
  <2>4. Cardinality(Ahead') <= Cardinality(Ahead) - 1
    <3>1. Head(queue) \in Paths
      BY <2>1 DEF Paths, top
    <3> QED
      BY <1>1, <2>3, <3>1, LookedAt, Zenon
  <2>5. pc' = "listing"
    BY <1>1, <1>5
  <2> QED
    BY <1>2, <1>3, <2>2, <2>4, <2>5
<1>6. CASE /\ isDirectory(top)
           /\ \E names \in SetToSeqs(readdir(top)) : queue' = Tail(queue) \o names
           /\ UNCHANGED <<disk, pc, args, found, buffer, updatedFiles, history>>
  <2>1. PICK names \in SetToSeqs(readdir(top)) : queue' = Tail(queue) \o names
    BY <1>6
  <2>2. /\ names \in Seq(Seq(Segments))
        /\ \A i \in 1..Len(names) : names[i] \in readdir(Head(queue))
        /\ \A i, j \in 1..Len(names) : i # j => names[i] # names[j]
    BY ReaddirSeqs DEF top
  <2>3. Cardinality(Ahead') <= Cardinality(Ahead) - 1
    <3>1. Head(queue) \in Paths
      BY <1>6 DEF Paths, top, isDirectory
    <3> QED
      BY <1>1, <2>1, <2>2, <3>1, LookedAt
  <2>4. pc' = "listing" /\ found' = found
    BY <1>1, <1>6
  <2> QED
    BY <1>2, <1>3, <2>3, <2>4
<1> QED
  BY <1>4, <1>5, <1>6 DEF ListNext, top

LEMMA StepNearer ==
  ASSUME MigrateTypeOK, MigrateTypeOK', Step
  PROVE  StepsLeft' < StepsLeft
<1>1. /\ StepsLeft \in Nat /\ Len(found) \in Nat /\ Cardinality(Ahead) \in Nat
      /\ pc = "listing" => StepsLeft = 4 * Cardinality(Ahead) + 3 * Len(found) + 2
      /\ pc = "updating" => StepsLeft = 3 * Len(found) + 1
      /\ pc = "writing" => StepsLeft = 3 * Len(found) /\ Len(found) >= 1
      /\ pc = "truncated" => StepsLeft = 3 * Len(found) - 1 /\ Len(found) >= 1
  BY StepsCounted
<1>2. /\ pc' = "updating" => StepsLeft' = 3 * Len(found') + 1
      /\ pc' = "writing" => StepsLeft' = 3 * Len(found')
      /\ pc' = "truncated" => StepsLeft' = 3 * Len(found') - 1
      /\ pc' \in {"done", "failed"} => StepsLeft' = 0
  BY DEF StepsLeft
<1>3. CASE EndList
  <2>1. pc = "listing" /\ pc' = "updating" /\ found' = found
    BY <1>3 DEF EndList
  <2> QED
    BY <1>1, <1>2, <2>1
<1>4. CASE ReadFile
  <2>1. pc = "updating" /\ found # <<>>
    BY <1>4 DEF ReadFile
  <2>2. Len(Tail(found)) = Len(found) - 1 /\ Len(found) >= 1
    BY <2>1, TailShorter
  <2>3. CASE Fail
    BY <1>1, <1>2, <2>1, <2>2, <2>3 DEF Fail
  <2>4. CASE pc' = "writing" /\ found' = found
    BY <1>1, <1>2, <2>1, <2>2, <2>4
  <2>5. CASE pc' = pc /\ found' = Tail(found)
    BY <1>1, <1>2, <2>1, <2>2, <2>5
  <2> QED
    BY <1>4, <2>3, <2>4, <2>5 DEF ReadFile
<1>5. CASE Truncate
  <2>1. pc = "writing" /\ pc' = "truncated" /\ found' = found
    BY <1>5 DEF Truncate
  <2> QED
    BY <1>1, <1>2, <2>1
<1>6. CASE WriteFile
  <2>1. pc = "truncated" /\ pc' = "updating" /\ found' = Tail(found) /\ found # <<>>
    BY <1>6 DEF WriteFile, MigrateTypeOK
  <2>2. Len(Tail(found)) = Len(found) - 1 /\ Len(found) >= 1
    BY <2>1, TailShorter
  <2> QED
    BY <1>1, <1>2, <2>1, <2>2
<1>7. CASE Report
  <2>1. pc = "updating" /\ pc' = "done"
    BY <1>7 DEF Report
  <2> QED
    BY <1>1, <1>2, <2>1
<1> QED
  BY <1>3, <1>4, <1>5, <1>6, <1>7, ListNextNearer DEF Step

(* Nothing else that happens to a run takes it away from its end.          *)
LEMMA NoStepFarther ==
  ASSUME MigrateTypeOK, MigrateTypeOK', MigrateNext, pc \notin {"idle", "done", "failed"}
  PROVE  StepsLeft' <= StepsLeft
<1>1. StepsLeft \in Nat
  BY StepsCounted
<1>2. CASE Step
  <2>1. StepsLeft' < StepsLeft
    BY <1>2, StepNearer
  <2>2. StepsLeft' \in Nat
    BY StepsCountedNext
  <2> QED
    BY <1>1, <2>1, <2>2
<1>3. CASE Kill
  <2>1. pc' = "idle"
    BY <1>3 DEF Kill
  <2>2. StepsLeft' = 0
    BY <2>1 DEF StepsLeft
  <2> QED
    BY <1>1, <2>2
<1>4. ASSUME UNCHANGED process PROVE StepsLeft' <= StepsLeft
  <2>1. pc' = pc /\ queue' = queue /\ found' = found
    BY <1>4 DEF process
  <2>2. Ahead' = Ahead
    BY <2>1 DEF Ahead, Paths
  <2>3. StepsLeft' = StepsLeft
    BY <2>1, <2>2 DEF StepsLeft
  <2> QED
    BY <1>1, <2>3
<1>5. ASSUME NEW arguments, Start(arguments) PROVE FALSE
  BY <1>5 DEF Start
<1>6. ASSUME NEW f, NEW draft, Save(f, draft) PROVE UNCHANGED process
  BY <1>6 DEF Save
<1>7. ASSUME NEW f, Delete(f) PROVE UNCHANGED process
  BY <1>7 DEF Delete
<1> QED
  BY <1>2, <1>3, <1>4, <1>5, <1>6, <1>7 DEF MigrateNext

(* The guards of the steps: a run that has not ended always has one to     *)
(* take, as what a directory holds can be put in an order.                 *)
CanStep ==
  \/ pc = "listing" /\ queue = <<>>
  \/ /\ pc = "listing" /\ queue # <<>>
     /\ isDirectory(Head(queue)) => SetToSeqs(readdir(Head(queue))) # {}
  \/ pc = "updating"
  \/ pc \in {"writing", "truncated"} /\ found # <<>>

LEMMA OrderExists ==
  ASSUME NEW S, IsFiniteSet(S)
  PROVE  SetToSeqs(S) # {}
<1>1. PICK s : s \in Bijection(1..Cardinality(S), S)
  BY FS_CardinalityType DEF ExistsBijection
<1>2. s \in [1..Cardinality(S) -> S] /\ \A i, j \in 1..Cardinality(S) : i # j => s[i] # s[j]
  BY <1>1 DEF Bijection, Injection, IsInjective
<1>3. s \in SetToSeqs(S)
  BY <1>2, Zenon DEF SetToSeqs
<1> QED
  BY <1>3

(* Every step of a run brings it nearer to its end, by a natural number    *)
(* that nothing else in its way raises, and until it has ended there is a  *)
(* step to take (scripts/migrate-imports.js:112-142).                      *)
THEOREM RunsComeNearer ==
  MigrateSpec => /\ [](StepsLeft \in Nat /\ (pc \notin {"idle", "done", "failed"} => CanStep))
                 /\ RunComesNearer
<1>1. ASSUME MigrateTypeOK PROVE StepsLeft \in Nat /\ (pc \notin {"idle", "done", "failed"} => CanStep)
  <2>1. readdir(Head(queue)) \in SUBSET Paths
    BY <1>1 DEF readdir, Paths, MigrateTypeOK
  <2>2. IsFiniteSet(readdir(Head(queue)))
    BY <2>1, FS_Union, FS_Subset, MigrateAssumption DEF Paths
  <2> QED
    BY <1>1, <2>2, OrderExists, StepsCounted DEF CanStep, MigrateTypeOK
<1>2. ASSUME MigrateTypeOK, MigrateTypeOK', [MigrateNext]_vars
      PROVE  [/\ Step => StepsLeft' < StepsLeft
              /\ pc \notin {"idle", "done", "failed"} => StepsLeft' <= StepsLeft]_vars
  BY <1>2, StepNearer, NoStepFarther
<1>3. MigrateSpec => []MigrateTypeOK
  BY FilesStayKept, PTL
<1> QED
  BY <1>1, <1>2, <1>3, PTL DEF MigrateSpec, RunComesNearer
=============================================================================
