----------------------------- MODULE Dictionary -----------------------------
(***************************************************************************)
(* What structures/internal/lookup.c promises: a finite map.  An insertion *)
(* of a key that is in the map changes nothing.                            *)
(***************************************************************************)
CONSTANTS Keys, Values, None

VARIABLES
  map,     \* the value of every key in the map, None for the others
  result   \* what the last operation returned

mapVars == <<map, result>>

Init == map = [k \in Keys |-> None] /\ result = None

\* A new key, and a key that is there already.
Add(k) ==
  /\ result' = None
  /\ map[k] = None
  /\ map'[k] \in Values
  /\ map' = [map EXCEPT ![k] = map'[k]]

Keep(k) == result' = None /\ map[k] # None /\ UNCHANGED map

Retrieve(k) == result' = map[k] /\ UNCHANGED map

Remove(k) == result' = map[k] /\ map' = [map EXCEPT ![k] = None]

Next ==
  \E k \in Keys : Keep(k) \/ Add(k) \/ Retrieve(k) \/ Remove(k)

Spec == Init /\ [][Next]_mapVars
=============================================================================
