------------------------------- MODULE KeyMap -------------------------------
(***************************************************************************)
(* What the id map promises the order book: a map from keys to values that *)
(* refuses to overwrite and to grow past its capacity.                     *)
(***************************************************************************)
EXTENDS Integers, FiniteSets

CONSTANTS Keys, Values, Capacity, NoValue

VARIABLES
  map,      \* the value of each key, NoValue for a key that is absent
  answer    \* what the last call returned

Present == {k \in Keys : map[k] # NoValue}

Init == map = [k \in Keys |-> NoValue] /\ answer = TRUE

Insert(k, v) ==
  LET fits == k \notin Present /\ Cardinality(Present) < Capacity
  IN answer' = fits /\ map' = IF fits THEN [map EXCEPT ![k] = v] ELSE map

Erase(k) == answer' = (k \in Present) /\ map' = [map EXCEPT ![k] = NoValue]

Clear == answer' = TRUE /\ map' = [k \in Keys |-> NoValue]

Next ==
  \/ \E k \in Keys, v \in Values : Insert(k, v)
  \/ \E k \in Keys : Erase(k)
  \/ Clear

Spec == Init /\ [][Next]_<<map, answer>>
=============================================================================
