------------------------------ MODULE Priority ------------------------------
(***************************************************************************)
(* The priority queue of the cache: a binary heap                          *)
(* (structures/internal/heap.c) of scores and entries, and a table that    *)
(* knows where in the heap each entry is (structures/internal/priority.c), *)
(* kept right by a callback of every swap.  The scores are the times of    *)
(* the last use: any numbers, as the clock may be set back.                *)
(*                                                                         *)
(* Every operation holds p_mutex, so nobody sees the heap in the middle of *)
(* one; upheap and downheap go step by step here, one step for each turn,  *)
(* because it is the loops that must be right.                             *)
(***************************************************************************)
EXTENDS Integers, FiniteSets

CONSTANTS
  Items,     \* the cache entries (equal if their ce_source are)
  MaxScore,  \* bound: scores are 0 .. MaxScore
  Capacity,  \* the number of elements the array has room for, 4096
  Modulus,   \* the number of values of an int
  None       \* NULL

Scores == 0 .. MaxScore
Positions == 0 .. Capacity - 1

\* What *index is before anything has been assigned to it.
Unset == 0 - 1

ASSUME PriorityAssumption ==
  /\ MaxScore \in Nat /\ Capacity \in Nat \ {0}
  /\ Modulus \in Nat /\ 2 * MaxScore < Modulus
  /\ None \notin Items /\ None \notin Int

VARIABLES
  data, score,  \* h_entries, as two arrays: he_data and he_score
  size,         \* h_size
  index,        \* p_lookup: where each item is in the heap, None if it is not
  pc,           \* "idle", in "up"heap or in "down"heap; or the array was left
  at,           \* the index upheap or downheap is at
  item,         \* whose index the operation assigns at its end; None: a removal
  returned      \* what the last removal returned

heap == <<data, score, size>>
vars == <<heap, index, pc, at, item, returned>>

Init ==
  /\ data = [i \in Positions |-> None]
  /\ score = [i \in Positions |-> 0]
  /\ size = 0
  /\ index = [d \in Items |-> None]
  /\ pc = "idle" /\ at = 0 /\ item = None
  /\ returned = None

-----------------------------------------------------------------------------
(* Helpers of heap.c.                                                      *)

\* Mutant: the comparison says which is larger, not the difference's sign.
CompareUnsigned(a, b) == (a - b) % Modulus

\* compare_min_internal_priority: the unsigned difference, cut to an int.
Compare(a, b) ==
  LET d == (a - b) % Modulus IN IF 2 * d < Modulus THEN d ELSE d - Modulus

Parent(i) == (i - 1) \div 2
Left(i) == 2 * i + 1
Right(i) == 2 * i + 2

\* The child downheap compares second, and the index it goes on with.
Smaller(i, j) == IF j < size /\ Compare(score[j], score[i]) < 0 THEN j ELSE i

\* Mutant: the right child is not looked at.
MinimumOfLeft(i) == Smaller(i, Left(i))

Minimum(i) == Smaller(Smaller(i, Left(i)), Right(i))

Exchange(f, i, j) == [f EXCEPT ![i] = f[j], ![j] = f[i]]

\* Mutant: only the first element's index is brought up to date.
ListenFirst(i, j) == index' = [index EXCEPT ![data'[i]] = i]

\* The callback h_listen, for both elements.
Listen(i, j) == index' = [index EXCEPT ![data'[i]] = i, ![data'[j]] = j]

Swap(i, j) ==
  /\ data' = Exchange(data, i, j)
  /\ score' = Exchange(score, i, j)
  /\ Listen(i, j)

-----------------------------------------------------------------------------
(* The operations of priority.c, up to where the loops begin.              *)

\* insert_internal_priority of an item that is not in the table.
InsertNew(d, s) ==
  /\ pc = "idle"
  /\ index[d] = None
  /\ size < Capacity
  /\ data' = [data EXCEPT ![size] = d]
  /\ score' = [score EXCEPT ![size] = s]
  /\ size' = size + 1
  /\ index' = [index EXCEPT ![d] = Unset]
  /\ pc' = "up" /\ at' = size /\ item' = d
  /\ UNCHANGED returned

\* There is no test of h_capacity: the element is written behind the array.
InsertBeyond(d) ==
  /\ pc = "idle"
  /\ index[d] = None
  /\ size = Capacity
  /\ pc' = "overflow"
  /\ UNCHANGED <<heap, index, at, item, returned>>

\* update_internal_priority, and insert_internal_priority of an item that is in
\* the table.
Update(d, s) ==
  /\ pc = "idle"
  /\ index[d] # None
  /\ at' = index[d]
  /\ pc' = IF index[d] = 0 \/ Compare(score[index[d]], s) < 0 THEN "down" ELSE "up"
  /\ score' = [score EXCEPT ![index[d]] = s]
  /\ item' = d
  /\ UNCHANGED <<data, size, index, returned>>

Last == size - 1

\* remove_internal_priority: the root changes places with the last element.
Remove ==
  /\ pc = "idle"
  /\ size > 0
  /\ returned' = data[0]
  /\ size' = size - 1
  /\ Swap(0, Last)
  /\ pc' = "down" /\ at' = 0
  /\ UNCHANGED item

\* remove_internal_heap does not look whether there is an element.
RemoveNone ==
  /\ pc = "idle"
  /\ size = 0
  /\ pc' = "underflow"
  /\ UNCHANGED <<heap, index, at, item, returned>>

-----------------------------------------------------------------------------
(* The loops.                                                              *)

\* The parent is larger: the element goes up.
AboveIsLarger == at # 0 /\ Compare(score[Parent(at)], score[at]) > 0

Up ==
  /\ pc = "up"
  /\ AboveIsLarger
  /\ Swap(at, Parent(at))
  /\ at' = Parent(at)
  /\ UNCHANGED <<size, pc, item, returned>>

Down ==
  /\ pc = "down"
  /\ Minimum(at) # at
  /\ Swap(at, Minimum(at))
  /\ at' = Minimum(at)
  /\ UNCHANGED <<size, pc, item, returned>>

\* The operation ends: an insertion or update assigns *index, a removal frees
\* the element and takes the item out of the table.
Finish ==
  /\ \/ pc = "up" /\ ~AboveIsLarger
     \/ pc = "down" /\ Minimum(at) = at
  /\ IF item # None
     THEN /\ index' = [index EXCEPT ![item] = at]
          /\ UNCHANGED <<data, score>>
     ELSE /\ index' = [index EXCEPT ![returned] = None]
          /\ data' = [data EXCEPT ![size] = None]
          /\ score' = [score EXCEPT ![size] = 0]
  /\ pc' = "idle" /\ at' = 0 /\ item' = None
  /\ UNCHANGED <<size, returned>>

-----------------------------------------------------------------------------
Next ==
  \/ \E d \in Items : \/ InsertBeyond(d)
                      \/ \E s \in Scores : InsertNew(d, s) \/ Update(d, s)
  \/ Remove \/ RemoveNone
  \/ Up \/ Down \/ Finish

Spec == Init /\ [][Next]_vars

-----------------------------------------------------------------------------
(* Properties.                                                             *)

\* Every variable holds a value of its type, and the first h_size elements of
\* the array are elements.
TypeOK ==
  /\ data \in [Positions -> Items \cup {None}]
  /\ \A i \in Positions : i < size => data[i] # None
  /\ score \in [Positions -> Scores]
  /\ size \in 0 .. Capacity
  /\ index \in [Items -> Positions \cup {None, Unset}]
  /\ pc \in {"idle", "up", "down", "overflow", "underflow"}
  /\ at \in Positions
  /\ item \in Items \cup {None}
  /\ returned \in Items \cup {None}

\* Between operations no element is smaller than its parent.
HeapOrder ==
  pc = "idle" => \A i \in 1 .. size - 1 : score[Parent(i)] <= score[i]

\* Between operations the table knows where every item is: no update goes to
\* another item's score.
IndexRight ==
  pc = "idle" =>
    \A d \in Items :
      IF \E i \in 0 .. size - 1 : data[i] = d
      THEN index[d] \in 0 .. size - 1 /\ data[index[d]] = d
      ELSE index[d] = None

\* The score of every item in the heap.
ScoreOf ==
  [d \in Items |->
     IF \E i \in 0 .. size - 1 : data[i] = d
     THEN score[CHOOSE i \in 0 .. size - 1 : data[i] = d]
     ELSE None]

\* The heap implements the table of scores: every operation takes effect at its
\* beginning, and what is removed is an item of least score.
Abstract == INSTANCE LeastScore WITH score <- ScoreOf
Implements == Abstract!Spec
=============================================================================
