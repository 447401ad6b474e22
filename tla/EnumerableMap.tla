----------------------------- MODULE EnumerableMap -----------------------------
(***************************************************************************)
(* Library EnumerableMap, as scripts/generate/templates/EnumerableMap.js   *)
(* of the vendored OpenZeppelin contracts writes it, behind a contract     *)
(* that holds one map and passes every call on (EnumerableMapMock.js).     *)
(* The map is an EnumerableSet of keys and a mapping of values, in which   *)
(* a key that is not in the set has the value 0.                           *)
(*                                                                         *)
(* A reader goes through the map with one call of at per transaction; the  *)
(* other calls come between.  AccessControlEnumerable.sol:32-35 warns its  *)
(* callers of just that.                                                   *)
(***************************************************************************)
EXTENDS EnumerableSet

CONSTANTS KeyType, ValueType,   \* "bytes32", "uint256" or "address"
          Keys, Values          \* the keys and values that callers use

ASSUME MapAssumption ==
  /\ Keys \subseteq 0..(Size(KeyType) - 1)
  /\ Values \subseteq 0..(Size(ValueType) - 1)

VARIABLES keys, values,  \* _keys and _values of _map
          answer,        \* history: the last call with what it returned
          cursor,        \* the next index the reader asks for
          due,           \* history: keys in the map since the reader started that
                         \* he was not given yet
          disturbed      \* history: a key the reader was past was removed since

map == <<keys, values>>
reader == <<cursor, due, disturbed>>
mapVars == <<map, answer, reader>>

Init ==
  /\ keys = NoWords /\ values = [w \in Words |-> 0]
  /\ answer = [call |-> "none"]
  /\ cursor = 0 /\ due = {} /\ disturbed = FALSE
-----------------------------------------------------------------------------
\* The map of words to words.
MapContains(w) == TypedContains(keys, "bytes32", w)
MapLength == SetLength(keys)
MapAt(index) ==
  LET w == TypedAt(keys, "bytes32", index) IN [key |-> w, value |-> values[w]]

\* Variant with a bug: a value of 0 is taken for a missing key.
MapTryGetNonZero(w) == [success |-> values[w] # 0, value |-> values[w]]

MapTryGet(w) ==
  IF values[w] = 0 THEN [success |-> MapContains(w), value |-> 0]
  ELSE [success |-> TRUE, value |-> values[w]]

MapHas(w) == values[w] # 0 \/ MapContains(w)

MapSet(w, v) ==
  /\ values' = [values EXCEPT ![w] = v]
  /\ keys' = TypedAdd(keys, "bytes32", w)

MapRemove(w) ==
  /\ values' = [values EXCEPT ![w] = 0]
  /\ keys' = TypedRemove(keys, "bytes32", w)
-----------------------------------------------------------------------------
\* The calls, through the wrappers for the types of key and value.
Word(k) == ToBytes32(KeyType, k)
Key(w) == FromBytes32(KeyType, w)
Value(w) == FromBytes32(ValueType, w)

Set(k, v) ==
  /\ MapSet(Word(k), ToBytes32(ValueType, v))
  /\ answer' = [call |-> "set", added |-> ~MapContains(Word(k))]
  /\ UNCHANGED reader

RemoveKey(k) ==
  /\ MapRemove(Word(k))
  /\ answer' = [call |-> "remove", removed |-> MapContains(Word(k))]
  /\ due' = due \ {k}
  /\ disturbed' = (disturbed \/ keys.indexes[Word(k)] \in 1..cursor)
  /\ UNCHANGED cursor

View(returned) == answer' = returned /\ UNCHANGED <<map, reader>>

Length == View([call |-> "length", length |-> MapLength])
ContainsKey(k) == View([call |-> "contains", key |-> k, found |-> MapContains(Word(k))])
TryGet(k) ==
  LET got == MapTryGet(Word(k))
  IN  View([call |-> "tryGet", key |-> k, success |-> got.success, value |-> Value(got.value)])
Get(k) ==
  View(IF MapHas(Word(k)) THEN [call |-> "get", key |-> k, value |-> Value(values[Word(k)])]
       ELSE [call |-> "get", key |-> k, reverted |-> TRUE])

\* The reader starts, and asks for the entry at its cursor.
StartReading ==
  /\ cursor' = 0 /\ disturbed' = FALSE
  /\ due' = {Key(w) : w \in TypedValues(keys, "bytes32")}
  /\ UNCHANGED <<map, answer>>

ReadNext ==
  LET entry == MapAt(cursor) IN
  /\ cursor < MapLength
  /\ answer' = [call |-> "at", key |-> Key(entry.key), value |-> Value(entry.value)]
  /\ cursor' = cursor + 1 /\ due' = due \ {Key(entry.key)}
  /\ UNCHANGED <<map, disturbed>>

Next ==
  \/ \E k \in Keys :
       \/ \E v \in Values : Set(k, v)
       \/ RemoveKey(k)
       \/ ContainsKey(k) \/ TryGet(k) \/ Get(k)
  \/ Length
  \/ StartReading \/ ReadNext

Spec == Init /\ [][Next]_mapVars
-----------------------------------------------------------------------------
InMap == {k \in Keys : MapContains(Word(k))}

\* The array of keys, its index and the values stay one map, whatever is
\* added and removed: the index finds each key where it is, and a key that is
\* gone has left no value for the next reader of it
\* (scripts/generate/templates/EnumerableSet.js:93-125, EnumerableMap.js:82-99).
MapSound ==
  /\ SetSound(keys)
  /\ values \in [Words -> Words]
  /\ \A w \in Words : ~MapContains(w) => values[w] = 0

\* Every call answers as a function from the keys to their values would, also
\* where a value is 0, which the map uses for "none"
\* (EnumerableMap.js:134-154).
Abstract == INSTANCE FiniteMap
  WITH Zero <- 0, entries <- [k \in InMap |-> Value(values[Word(k)])]
ImplementsFiniteMap == Abstract!Spec

\* A reader who has reached the end has been given every key that was in the
\* map all the time, whatever was added or removed meanwhile, unless a key he
\* was already past was removed (EnumerableSet.js:93-125, 141-153).
ReadingMissesNothing ==
  cursor >= MapLength /\ ~disturbed => due = {}
=============================================================================
