------------------------------- MODULE FiniteMap -------------------------------
(***************************************************************************)
(* What EnumerableMap promises its callers, whatever it keeps: a function  *)
(* from finitely many keys, and the answer of each call.  A call that      *)
(* reverts is answered by "reverted".                                      *)
(***************************************************************************)
EXTENDS Naturals, FiniteSets

CONSTANTS Keys, Values, Zero
VARIABLES entries, answer

Init == entries = [k \in {} |-> Zero] /\ answer = [call |-> "none"]

Set(k, v) ==
  /\ entries' = [x \in DOMAIN entries \cup {k} |-> IF x = k THEN v ELSE entries[x]]
  /\ answer' = [call |-> "set", added |-> k \notin DOMAIN entries]

Remove(k) ==
  /\ entries' = [x \in DOMAIN entries \ {k} |-> entries[x]]
  /\ answer' = [call |-> "remove", removed |-> k \in DOMAIN entries]

LengthAnswer == [call |-> "length", length |-> Cardinality(DOMAIN entries)]
Answers ==
  {LengthAnswer}
  \cup {[call |-> "contains", key |-> k, found |-> k \in DOMAIN entries] : k \in Keys}
  \cup {[call |-> "at", key |-> k, value |-> entries[k]] : k \in DOMAIN entries}
  \cup {[call |-> "get", key |-> k, value |-> entries[k]] : k \in DOMAIN entries}
  \cup {[call |-> "get", key |-> k, reverted |-> TRUE] : k \in Keys \ DOMAIN entries}
  \cup {[call |-> "tryGet", key |-> k, success |-> k \in DOMAIN entries,
         value |-> IF k \in DOMAIN entries THEN entries[k] ELSE Zero] : k \in Keys}

Ask == answer' \in Answers /\ UNCHANGED entries

Next ==
  \/ \E k \in Keys, v \in Values : Set(k, v)
  \/ \E k \in Keys : Remove(k)
  \/ Ask

Spec == Init /\ [][Next]_<<entries, answer>>
=============================================================================
