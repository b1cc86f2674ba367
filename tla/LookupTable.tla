---------------------------- MODULE LookupTable -----------------------------
(***************************************************************************)
(* The hash table of structures/internal/lookup.c, which the cache uses to *)
(* find entries by path and the priority queue to find heap indices.  The  *)
(* keys whose hashes are equal modulo the capacity are in one linked list, *)
(* a sequence of pairs <<le_key, le_data>> here.                           *)
(*                                                                         *)
(* Every operation holds the mutex of its table and is a single step.      *)
(***************************************************************************)
EXTENDS Integers, Sequences, FiniteSetsExt

CONSTANTS
  Keys,      \* the keys, equal if l_equal says so
  Values,    \* what is stored
  Hash,      \* l_hash; the sum of the characters: many keys share one
  Capacity,  \* the number of lists, 4096
  None       \* NULL

VARIABLES
  entries,  \* l_entries
  size,     \* l_size
  result    \* what the last operation returned

vars == <<entries, size, result>>

Lists == 0 .. Capacity - 1

Init ==
  /\ entries = [b \in Lists |-> <<>>]
  /\ size = 0
  /\ result = None

\* A negative hash becomes a large unsigned number: for a capacity that is a
\* power of two its remainder is the mathematical one.
List(k) == Hash[k] % Capacity

\* The walk along the list: where the key is first found, 0 if it is not.
Find(k) ==
  LET list == entries[List(k)]
      found == {i \in 1 .. Len(list) : list[i][1] = k}
  IN  IF found = {} THEN 0 ELSE Min(found)

\* Mutant: the walk of an insertion does not compare the keys.
NeverFound(k) == FALSE

Contains(k) == Find(k) # 0

\* insert_internal_lookup: at the end of the list, if the key is not in it.
Insert(k, v) ==
  /\ IF Contains(k)
     THEN UNCHANGED <<entries, size>>
     ELSE /\ entries' = [entries EXCEPT ![List(k)] = Append(@, <<k, v>>)]
          /\ size' = size + 1
  /\ result' = None

\* retreive_internal_lookup.
Retrieve(k) ==
  /\ result' = IF Find(k) = 0 THEN None ELSE entries[List(k)][Find(k)][2]
  /\ UNCHANGED <<entries, size>>

\* Mutant: the list begins after the removed element wherever that is.
RestAfter(list, i) == SubSeq(list, i + 1, Len(list))

\* The element is unlinked: its predecessor, or the table, points to its
\* successor.
Unlinked(list, i) == SubSeq(list, 1, i - 1) \o SubSeq(list, i + 1, Len(list))

\* remove_internal_lookup.
Remove(k) ==
  IF Find(k) = 0
  THEN result' = None /\ UNCHANGED <<entries, size>>
  ELSE /\ result' = entries[List(k)][Find(k)][2]
       /\ entries' = [entries EXCEPT ![List(k)] = Unlinked(@, Find(k))]
       /\ size' = size - 1

Next ==
  \E k \in Keys : Retrieve(k) \/ Remove(k) \/ \E v \in Values : Insert(k, v)

Spec == Init /\ [][Next]_vars

-----------------------------------------------------------------------------
(* Properties.                                                             *)

\* The lists hold pairs of keys and values; no key is in a list twice or in
\* another list than its own; l_size is the number of elements.
TypeOK ==
  /\ entries \in [Lists -> Seq(Keys \X Values)]
  /\ \A b \in Lists : \A i, j \in 1 .. Len(entries[b]) :
       /\ List(entries[b][i][1]) = b
       /\ entries[b][i][1] = entries[b][j][1] => i = j
  /\ size = Cardinality({k \in Keys : Find(k) # 0})
  /\ result \in Values \cup {None}

\* The table is a map: keys whose lists are the same do not disturb each other,
\* in whatever order they are inserted and removed.
Abstract ==
  INSTANCE Dictionary WITH
    map <- [k \in Keys |-> LET i == Find(k) IN
                            IF i = 0 THEN None ELSE entries[List(k)][i][2]]
Implements == Abstract!Spec
=============================================================================
