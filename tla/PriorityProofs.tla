--------------------------- MODULE PriorityProofs ---------------------------
(***************************************************************************)
(* Proofs about PriorityTable, for any number of items, capacity, range of *)
(* scores and hash function: the heap and its indices, that it hands out   *)
(* items of least score, and that the chained table is a map and holds     *)
(* exactly the items of the heap.                                          *)
(***************************************************************************)
EXTENDS PriorityTable, SequenceTheorems, FiniteSetTheorems, WellFoundedInduction, TLAPS

-----------------------------------------------------------------------------
(* The invariants of the loops.                                            *)

Sifting == pc \in {"up", "down"}

\* The elements of the array: the one a removal frees at its end comes after the
\* first h_size.
Held == IF Sifting /\ item = None THEN size + 1 ELSE size

\* Every element has an item of its own and every item of the table an element.
\* The listener keeps all indices right but that of the item an insertion or an
\* update is about, which is at the index the loop is at.
PlaceInv ==
  /\ Held <= Capacity
  /\ ~Sifting => item = None
  /\ \A i \in Positions : data[i] # None <=> i < Held
  /\ \A i, j \in 0 .. Held - 1 : data[i] = data[j] => i = j
  /\ \A d \in Items : index[d] # None => \E i \in 0 .. Held - 1 : data[i] = d
  /\ \A i \in 0 .. Held - 1 :
       index[data[i]] = i \/ (Sifting /\ data[i] = item /\ index[data[i]] # None)
  /\ Sifting =>
       IF item # None
       THEN at < size /\ data[at] = item
       ELSE /\ pc = "down" /\ data[size] = returned
            /\ at < size \/ at = 0

\* The element at `at` may be smaller than its parent while it goes up, or larger
\* than its children while it goes down; it would leave a heap behind.
OrderInv ==
  /\ \A i \in 1 .. size - 1 :
       \/ score[Parent(i)] <= score[i]
       \/ pc = "up" /\ i = at
       \/ pc = "down" /\ Parent(i) = at
  /\ Sifting /\ at # 0 =>
       \A i \in 1 .. size - 1 : Parent(i) = at => score[Parent(at)] <= score[i]

HeapInv == TypeOK /\ PlaceInv /\ OrderInv

-----------------------------------------------------------------------------
(* Arithmetic of the array.                                                *)

\* The comparison is that of the scores: their difference fits in an int.
LEMMA CompareIsOrder ==
  ASSUME NEW a \in Scores, NEW b \in Scores
  PROVE  Compare(a, b) = a - b
<1>1. a \in 0 .. MaxScore /\ b \in 0 .. MaxScore /\ MaxScore \in Nat
      /\ Modulus \in Nat /\ 2 * MaxScore < Modulus
  BY PriorityAssumption DEF Scores
<1>2. CASE b <= a
  <2>1. a - b \in 0 .. Modulus - 1 /\ 2 * (a - b) < Modulus
    BY <1>1, <1>2
  <2>2. (a - b) % Modulus = a - b
    BY <1>1, <2>1
  <2>3. QED
    BY <1>1, <2>1, <2>2 DEF Compare
<1>3. CASE a < b
  <2> DEFINE d == a - b + Modulus
  <2>1. d \in 0 .. Modulus - 1 /\ ~(2 * d < Modulus)
    BY <1>1, <1>3
  <2>2. (a - b) % Modulus = d
    BY <1>1, <1>3, <2>1
  <2>3. QED
    BY <1>1, <2>1, <2>2 DEF Compare
<1>4. QED
  BY <1>1, <1>2, <1>3

\* The parent comes before its children, which are the left and the right one.
LEMMA ParentChild ==
  ASSUME NEW i \in Nat
  PROVE  /\ i # 0 => /\ Parent(i) \in Nat /\ Parent(i) < i
                     /\ i = Left(Parent(i)) \/ i = Right(Parent(i))
         /\ Parent(Left(i)) = i /\ Parent(Right(i)) = i
         /\ Left(i) \in Nat /\ Right(i) \in Nat /\ i < Left(i) /\ i < Right(i)
BY DEF Parent, Left, Right

\* downheap goes on with a child that is smaller than the element and not larger
\* than the other, or stays where no child is smaller.
LEMMA MinimumIsLeast ==
  ASSUME TypeOK, NEW i \in Positions
  PROVE  /\ Minimum(i) # i =>
              /\ Minimum(i) \in 1 .. size - 1
              /\ Parent(Minimum(i)) = i
              /\ score[Minimum(i)] < score[i]
         /\ \A j \in 1 .. size - 1 :
              Parent(j) = i => score[Minimum(i)] <= score[j]
<1>1. /\ size \in Nat /\ size <= Capacity /\ Capacity \in Nat /\ i \in Nat
      /\ Positions = 0 .. Capacity - 1
      /\ \A j \in Positions : score[j] \in Scores /\ score[j] \in Nat
  BY PriorityAssumption DEF TypeOK, Positions, Scores
<1>2. \A j, k \in Positions : Compare(score[j], score[k]) < 0 <=> score[j] < score[k]
  BY <1>1, CompareIsOrder
<1>3. ASSUME NEW k \in Positions, NEW j \in Nat
      PROVE  Smaller(k, j) = IF j < size /\ score[j] < score[k] THEN j ELSE k
  <2>1. CASE j < size
    BY <1>1, <1>2, <2>1 DEF Smaller
  <2>2. CASE ~(j < size)
    BY <2>2 DEF Smaller
  <2> QED
    BY <2>1, <2>2
<1>4. /\ Left(i) \in Nat /\ Right(i) \in Nat /\ i < Left(i) /\ i < Right(i)
      /\ Parent(Left(i)) = i /\ Parent(Right(i)) = i
      /\ \A j \in 1 .. size - 1 : Parent(j) = i => j = Left(i) \/ j = Right(i)
  <2>1. ASSUME NEW j \in 1 .. size - 1, Parent(j) = i PROVE j = Left(i) \/ j = Right(i)
    <3>1. j \in Nat /\ j # 0
      BY <1>1
    <3> QED
      BY <3>1, <2>1, ParentChild
  <2> QED
    BY <1>1, <2>1, ParentChild
<1> DEFINE m == Smaller(i, Left(i))
<1>5. m = IF Left(i) < size /\ score[Left(i)] < score[i] THEN Left(i) ELSE i
  BY <1>3, <1>4
<1>6. m \in Positions
  BY <1>1, <1>4, <1>5
<1>7. Minimum(i) = IF Right(i) < size /\ score[Right(i)] < score[m] THEN Right(i) ELSE m
  BY <1>3, <1>4, <1>6 DEF Minimum
<1>8. /\ Left(i) < size => Left(i) \in Positions /\ Left(i) \in 1 .. size - 1
      /\ Right(i) < size => Right(i) \in Positions /\ Right(i) \in 1 .. size - 1
  BY <1>1, <1>4
<1> HIDE DEF m
<1>9. ASSUME Minimum(i) # i
      PROVE  Minimum(i) \in 1 .. size - 1 /\ Parent(Minimum(i)) = i /\ score[Minimum(i)] < score[i]
  BY <1>1, <1>4, <1>5, <1>6, <1>7, <1>8, <1>9
<1>10. ASSUME NEW j \in 1 .. size - 1, Parent(j) = i PROVE score[Minimum(i)] <= score[j]
  <2>1. j \in Positions /\ j < size /\ (j = Left(i) \/ j = Right(i))
    BY <1>1, <1>4, <1>10
  <2>2. score[m] <= score[i] /\ (Left(i) < size => score[m] <= score[Left(i)])
    BY <1>1, <1>4, <1>5, <1>8
  <2>3. score[Minimum(i)] <= score[m] /\ (Right(i) < size => score[Minimum(i)] <= score[Right(i)])
    BY <1>1, <1>4, <1>6, <1>7, <1>8
  <2>4. score[Minimum(i)] \in Nat /\ score[m] \in Nat /\ score[j] \in Nat
    BY <1>1, <1>6, <1>7, <1>8, <2>1
  <2> QED
    BY <2>1, <2>2, <2>3, <2>4
<1>11. QED
  BY <1>9, <1>10
-----------------------------------------------------------------------------
(* Swaps.                                                                  *)

\* The first n positions hold an item each, all different, and the table has
\* exactly those items.
Placed(n) ==
  /\ \A i \in Positions : data[i] # None <=> i < n
  /\ \A i, j \in 0 .. n - 1 : data[i] = data[j] => i = j
  /\ \A d \in Items : index[d] # None <=> \E i \in 0 .. n - 1 : data[i] = d

LEMMA PlaceInvPlaces ==
  ASSUME TypeOK, PlaceInv
  PROVE  Held \in 0 .. Capacity /\ Placed(Held)
<1>1. size \in Nat /\ Capacity \in Nat /\ Held \in 0 .. Capacity
  BY PriorityAssumption DEF TypeOK, PlaceInv, Held
<1>2. ASSUME NEW i \in 0 .. Held - 1 PROVE index[data[i]] # None
  <2>1. index[data[i]] = i \/ index[data[i]] # None
    BY <1>2 DEF PlaceInv
  <2>2. i \in Int /\ None \notin Int
    BY <1>1, <1>2, PriorityAssumption
  <2> QED
    BY <2>1, <2>2
<1>3. QED
  BY <1>1, <1>2 DEF PlaceInv, Placed

\* A swap leaves the items where others of them were, and the listener is told
\* where both went.
LEMMA SwapPlaces ==
  ASSUME TypeOK, NEW n \in 0 .. Capacity, Placed(n),
         NEW i \in 0 .. n - 1, NEW j \in 0 .. n - 1, Swap(i, j)
  PROVE  /\ i \in Positions /\ j \in Positions
         /\ data' \in [Positions -> Items \cup {None}]
         /\ score' \in [Positions -> Scores]
         /\ index' \in [Items -> Positions \cup {None, Unset}]
         /\ Placed(n)'
         /\ \A k \in 0 .. n - 1 :
              index'[data'[k]] = IF k = i \/ k = j THEN k ELSE index[data[k]]
         /\ \A d \in Items : index'[d] # None <=> index[d] # None
         /\ data'[i] = data[j] /\ data'[j] = data[i]
         /\ score'[i] = score[j] /\ score'[j] = score[i]
         /\ \A k \in Positions : k # i /\ k # j =>
              data'[k] = data[k] /\ score'[k] = score[k]
<1>1. /\ i \in Positions /\ j \in Positions /\ Capacity \in Nat
      /\ Positions = 0 .. Capacity - 1
      /\ \A k \in 0 .. n - 1 : k \in Positions /\ k # None /\ data[k] \in Items
  BY PriorityAssumption DEF TypeOK, Positions, Placed
<1>2. /\ data \in [Positions -> Items \cup {None}] /\ score \in [Positions -> Scores]
      /\ index \in [Items -> Positions \cup {None, Unset}]
      /\ data' = [data EXCEPT ![i] = data[j], ![j] = data[i]]
      /\ score' = [score EXCEPT ![i] = score[j], ![j] = score[i]]
      /\ index' = [index EXCEPT ![data'[i]] = i, ![data'[j]] = j]
  BY DEF Swap, Exchange, Listen, TypeOK
<1>3. /\ data'[i] = data[j] /\ data'[j] = data[i]
      /\ score'[i] = score[j] /\ score'[j] = score[i]
      /\ \A k \in Positions : k # i /\ k # j =>
           data'[k] = data[k] /\ score'[k] = score[k]
      /\ data' \in [Positions -> Items \cup {None}]
      /\ score' \in [Positions -> Scores]
  BY <1>1, <1>2
<1>4. /\ data'[i] \in Items /\ data'[j] \in Items
      /\ index' \in [Items -> Positions \cup {None, Unset}]
      /\ \A d \in Items : index'[d] = IF d = data[i] THEN j
                                      ELSE IF d = data[j] THEN i ELSE index[d]
  BY <1>1, <1>2, <1>3
<1>5. \A k, l \in 0 .. n - 1 : data'[k] = data'[l] => k = l
  BY <1>1, <1>3 DEF Placed
<1>6. ASSUME NEW k \in Positions PROVE data'[k] # None <=> k < n
  <2>1. i < n /\ j < n /\ n \in Int /\ k \in Int
    BY <1>1
  <2> QED
    BY <1>1, <1>3, <2>1 DEF Placed
<1>7. ASSUME NEW d \in Items
      PROVE  (\E k \in 0 .. n - 1 : data'[k] = d) <=> \E k \in 0 .. n - 1 : data[k] = d
  <2>1. ASSUME NEW k \in 0 .. n - 1 PROVE \E l \in 0 .. n - 1 : data'[l] = data[k]
    <3>1. CASE k = i
      BY <1>3, <3>1
    <3>2. CASE k = j
      BY <1>3, <3>2
    <3>3. CASE k # i /\ k # j
      BY <1>1, <1>3, <3>3
    <3> QED
      BY <3>1, <3>2, <3>3
  <2>2. ASSUME NEW k \in 0 .. n - 1 PROVE \E l \in 0 .. n - 1 : data'[k] = data[l]
    <3>1. CASE k = i
      BY <1>3, <3>1
    <3>2. CASE k = j
      BY <1>3, <3>2
    <3>3. CASE k # i /\ k # j
      BY <1>1, <1>3, <3>3
    <3> QED
      BY <3>1, <3>2, <3>3
  <2> QED
    BY <2>1, <2>2
<1>8. ASSUME NEW d \in Items PROVE index'[d] # None <=> index[d] # None
  <2>1. data[i] \in Items /\ data[j] \in Items /\ i # None /\ j # None
    BY <1>1
  <2>2. index[data[i]] # None /\ index[data[j]] # None
    BY <2>1 DEF Placed
  <2> QED
    BY <1>4, <2>1, <2>2
<1>9. Placed(n)'
  BY <1>5, <1>6, <1>7, <1>8 DEF Placed
<1>10. ASSUME NEW k \in 0 .. n - 1
       PROVE  index'[data'[k]] = IF k = i \/ k = j THEN k ELSE index[data[k]]
  <2>1. k \in Positions /\ data[k] \in Items
    BY <1>1
  <2>2. data'[k] \in Items
    BY <1>3, <1>4, <2>1
  <2>3. CASE k # i /\ k # j
    <3>1. data[k] # data[i] /\ data[k] # data[j] /\ data'[k] = data[k]
      BY <1>3, <2>1, <2>3 DEF Placed
    <3> QED
      BY <1>4, <2>1, <2>3, <3>1
  <2>4. CASE k = j
    BY <1>3, <1>4, <2>2, <2>4
  <2>5. CASE k = i /\ k # j
    <3>1. data'[k] = data[j] /\ data[j] # data[i]
      BY <1>3, <2>5 DEF Placed
    <3> QED
      BY <1>4, <2>2, <2>5, <3>1
  <2> QED
    BY <2>3, <2>4, <2>5
<1>11. QED
  BY <1>1, <1>3, <1>4, <1>8, <1>9, <1>10
-----------------------------------------------------------------------------
(* The invariant.                                                          *)

LEMMA HeapInit == Init => HeapInv
<1> SUFFICES ASSUME Init PROVE HeapInv
  OBVIOUS
<1>1. Capacity \in Nat \ {0} /\ MaxScore \in Nat /\ None \notin Items
  BY PriorityAssumption
<1>2. TypeOK
  BY <1>1 DEF Init, TypeOK, Positions, Scores
<1>3. PlaceInv
  BY <1>1 DEF Init, PlaceInv, Held, Sifting, Positions
<1>4. OrderInv
  BY <1>1 DEF Init, OrderInv, Sifting
<1>5. QED
  BY <1>2, <1>3, <1>4 DEF HeapInv

\* What the invariant says of an item the table holds between operations.
LEMMA AtRest ==
  ASSUME HeapInv, pc \notin {"up", "down"}
  PROVE  /\ Held = size /\ Placed(size)
         /\ \A i \in 0 .. size - 1 : index[data[i]] = i
         /\ \A d \in Items : index[d] # None =>
              index[d] \in 0 .. size - 1 /\ data[index[d]] = d
         /\ \A i \in 1 .. size - 1 : score[Parent(i)] <= score[i]
<1>1. Held = size /\ ~Sifting
  BY DEF Held, Sifting
<1>2. Placed(size)
  BY <1>1, PlaceInvPlaces DEF HeapInv
<1>3. \A i \in 0 .. size - 1 : index[data[i]] = i
  BY <1>1 DEF HeapInv, PlaceInv
<1>4. \A i \in 1 .. size - 1 : score[Parent(i)] <= score[i]
  BY DEF HeapInv, OrderInv
<1>5. \A d \in Items : index[d] # None =>
        index[d] \in 0 .. size - 1 /\ data[index[d]] = d
  BY <1>2, <1>3 DEF Placed
<1>6. QED
  BY <1>1, <1>2, <1>3, <1>4, <1>5

LEMMA InsertKeeps ==
  ASSUME HeapInv, NEW d \in Items, NEW s \in Scores, InsertNew(d, s)
  PROVE  HeapInv'
<1>1. /\ Capacity \in Nat \ {0} /\ None \notin Items /\ None \notin Int
      /\ Positions = 0 .. Capacity - 1 /\ size \in Positions
  BY PriorityAssumption DEF Positions, HeapInv, TypeOK, InsertNew
<1>2. /\ TypeOK /\ pc = "idle" /\ index[d] = None
      /\ data' = [data EXCEPT ![size] = d]
      /\ score' = [score EXCEPT ![size] = s]
      /\ size' = size + 1
      /\ index' = [index EXCEPT ![d] = Unset]
      /\ pc' = "up" /\ at' = size /\ item' = d /\ returned' = returned
  BY DEF InsertNew, HeapInv
<1>3. TypeOK'
  BY <1>1, <1>2 DEF TypeOK
<1>4. /\ Placed(size) /\ Held' = size + 1 /\ Sifting'
      /\ \A i \in 0 .. size - 1 : index[data[i]] = i
      /\ \A i \in 1 .. size - 1 : score[Parent(i)] <= score[i]
  BY <1>1, <1>2, AtRest DEF Held, Sifting
<1>5. /\ data'[size] = d /\ score'[size] = s
      /\ \A i \in Positions : i # size => data'[i] = data[i] /\ score'[i] = score[i]
      /\ \A e \in Items : index'[e] = IF e = d THEN Unset ELSE index[e]
  BY <1>1, <1>2 DEF TypeOK
<1>6. \A i \in 0 .. size - 1 : i \in Positions /\ data[i] \in Items /\ data[i] # d
  BY <1>1, <1>2, <1>4 DEF Placed, TypeOK
<1>7. PlaceInv'
  <2>1. \A i \in Positions : data'[i] # None <=> i < size + 1
    BY <1>1, <1>4, <1>5 DEF Placed
  <2>2. \A i, j \in 0 .. size : data'[i] = data'[j] => i = j
    BY <1>1, <1>4, <1>5, <1>6 DEF Placed
  <2>3. ASSUME NEW e \in Items, index'[e] # None PROVE \E i \in 0 .. size : data'[i] = e
    <3>1. CASE e = d
      BY <1>1, <1>5, <3>1
    <3>2. CASE e # d
      <4>1. PICK i \in 0 .. size - 1 : data[i] = e
        BY <1>4, <1>5, <2>3, <3>2 DEF Placed
      <4> QED
        BY <1>1, <1>5, <1>6, <4>1
    <3> QED
      BY <3>1, <3>2
  <2>4. ASSUME NEW i \in 0 .. size
        PROVE  index'[data'[i]] = i \/ (data'[i] = item' /\ index'[data'[i]] # None)
    <3>1. CASE i = size
      <4>1. index'[d] = Unset /\ Unset # None
        BY <1>1, <1>5 DEF Unset
      <4> QED
        BY <1>2, <1>5, <3>1, <4>1
    <3>2. CASE i # size
      <4>1. i \in 0 .. size - 1
        BY <1>1, <3>2
      <4> QED
        BY <1>4, <1>5, <1>6, <3>2, <4>1
    <3> QED
      BY <3>1, <3>2
  <2>5. size + 1 <= Capacity /\ at' < size' /\ data'[at'] = item' /\ item' # None
    BY <1>1, <1>2, <1>5
  <2>6. 0 .. Held' - 1 = 0 .. size
    BY <1>1, <1>4
  <2> QED
    BY <1>2, <1>4, <2>1, <2>2, <2>3, <2>4, <2>5, <2>6 DEF PlaceInv
<1>8. OrderInv'
  <2>1. ASSUME NEW i \in 1 .. size PROVE score'[Parent(i)] <= score'[i] \/ i = at'
    <3>1. CASE i = size
      BY <1>2, <3>1
    <3>2. CASE i # size
      <4>1. i \in 1 .. size - 1 /\ i \in Nat /\ i # 0 /\ i \in Positions
        BY <1>1, <3>2
      <4>2. Parent(i) \in Nat /\ Parent(i) < i
        BY <4>1, ParentChild
      <4>3. Parent(i) \in Positions /\ Parent(i) # size
        BY <1>1, <4>1, <4>2
      <4> QED
        BY <1>4, <1>5, <3>2, <4>1, <4>3
    <3> QED
      BY <3>1, <3>2
  <2>2. ASSUME NEW i \in 1 .. size PROVE Parent(i) # size
    <3>1. i \in Nat /\ i # 0 /\ i <= size
      BY <1>1
    <3>2. Parent(i) \in Nat /\ Parent(i) < i
      BY <3>1, ParentChild
    <3> QED
      BY <1>1, <3>1, <3>2
  <2>3. 1 .. size' - 1 = 1 .. size
    BY <1>1, <1>2
  <2> QED
    BY <1>2, <2>1, <2>2, <2>3 DEF OrderInv
<1>9. QED
  BY <1>3, <1>7, <1>8 DEF HeapInv

LEMMA UpdateKeeps ==
  ASSUME HeapInv, NEW d \in Items, NEW s \in Scores, Update(d, s)
  PROVE  HeapInv'
<1> DEFINE i == index[d]
<1>1. /\ Capacity \in Nat \ {0} /\ None \notin Items /\ None \notin Int
      /\ Positions = 0 .. Capacity - 1 /\ size \in 0 .. Capacity
      /\ \A j \in Positions : score[j] \in Nat
  BY PriorityAssumption DEF Positions, HeapInv, TypeOK, Scores
<1>2. /\ TypeOK /\ PlaceInv /\ pc = "idle" /\ i # None
      /\ score' = [score EXCEPT ![i] = s]
      /\ pc' = IF i = 0 \/ Compare(score[i], s) < 0 THEN "down" ELSE "up"
      /\ at' = i /\ item' = d
      /\ data' = data /\ size' = size /\ index' = index /\ returned' = returned
  BY DEF Update, HeapInv
<1>3. /\ i \in 0 .. size - 1 /\ data[i] = d /\ Held = size
      /\ \A j \in 1 .. size - 1 : score[Parent(j)] <= score[j]
  BY <1>2, AtRest
<1>4. i \in Positions /\ i \in Nat /\ i < size /\ d # None /\ s \in Nat
  BY <1>1, <1>3 DEF Scores
<1> HIDE DEF i
<1>5. TypeOK'
  BY <1>2, <1>4 DEF TypeOK
<1>6. Held' = size /\ Sifting' /\ ~Sifting
  BY <1>2, <1>4 DEF Held, Sifting
<1>7. PlaceInv'
  BY <1>2, <1>3, <1>4, <1>6 DEF PlaceInv
<1>8. \A j \in Positions : score'[j] = IF j = i THEN s ELSE score[j]
  BY <1>2, <1>4 DEF TypeOK
<1>9. pc' = IF i = 0 \/ score[i] < s THEN "down" ELSE "up"
  <2>1. Compare(score[i], s) = score[i] - s /\ score[i] \in Nat
    BY <1>1, <1>2, <1>4, CompareIsOrder DEF TypeOK
  <2> QED
    BY <1>2, <1>4, <2>1
<1>10. OrderInv'
  <2>1. ASSUME NEW j \in 1 .. size - 1
        PROVE  /\ j \in Positions /\ Parent(j) \in Positions /\ Parent(j) # j
               /\ score[Parent(j)] <= score[j]
    <3>1. j \in Nat /\ j # 0 /\ j < size /\ j \in Positions
      BY <1>1
    <3>2. Parent(j) \in Nat /\ Parent(j) < j
      BY <3>1, ParentChild
    <3> QED
      BY <1>1, <1>3, <3>1, <3>2
  <2>2. ASSUME NEW j \in 1 .. size - 1
        PROVE  \/ score'[Parent(j)] <= score'[j]
               \/ pc' = "up" /\ j = i
               \/ pc' = "down" /\ Parent(j) = i
    <3>1. CASE j # i /\ Parent(j) # i
      BY <1>8, <2>1, <3>1
    <3>2. CASE j = i
      <4>1. score'[Parent(j)] = score[Parent(j)] /\ score'[j] = s
        BY <1>8, <2>1, <3>2
      <4> QED
        BY <1>1, <1>4, <1>9, <2>1, <3>2, <4>1
    <3>3. CASE Parent(j) = i
      <4>1. score'[Parent(j)] = s /\ score'[j] = score[j]
        BY <1>8, <2>1, <3>3
      <4> QED
        BY <1>1, <1>4, <1>9, <2>1, <3>3, <4>1
    <3> QED
      BY <3>1, <3>2, <3>3
  <2>3. ASSUME i # 0, NEW j \in 1 .. size - 1, Parent(j) = i
        PROVE  score'[Parent(i)] <= score'[j]
    <3>1. i \in 1 .. size - 1
      BY <1>1, <1>3, <1>4, <2>3
    <3>2. /\ Parent(i) \in Positions /\ Parent(i) # i /\ score[Parent(i)] <= score[i]
          /\ j \in Positions /\ j # i /\ score[i] <= score[j]
      BY <2>1, <2>3, <3>1
    <3>3. score'[Parent(i)] = score[Parent(i)] /\ score'[j] = score[j]
      BY <1>8, <3>2
    <3> QED
      BY <1>1, <1>4, <3>2, <3>3
  <2> QED
    BY <1>2, <2>2, <2>3 DEF OrderInv
<1>11. QED
  BY <1>5, <1>7, <1>10 DEF HeapInv

LEMMA RemoveKeeps ==
  ASSUME HeapInv, Remove
  PROVE  HeapInv'
<1>1. /\ Capacity \in Nat \ {0} /\ None \notin Items /\ None \notin Int
      /\ Positions = 0 .. Capacity - 1 /\ size \in 1 .. Capacity
      /\ 0 \in 0 .. size - 1 /\ Last \in 0 .. size - 1 /\ Last = size - 1
  BY PriorityAssumption DEF Positions, HeapInv, TypeOK, Remove, Last
<1>2. /\ TypeOK /\ PlaceInv /\ pc = "idle" /\ Swap(0, Last)
      /\ returned' = data[0] /\ size' = size - 1
      /\ pc' = "down" /\ at' = 0 /\ item' = item /\ item = None
  BY DEF Remove, HeapInv, PlaceInv, Sifting
<1>3. /\ Placed(size) /\ Held = size /\ size \in 0 .. Capacity
      /\ \A i \in 0 .. size - 1 : index[data[i]] = i
      /\ \A i \in 1 .. size - 1 : score[Parent(i)] <= score[i]
  BY <1>1, <1>2, AtRest
<1>4. /\ data' \in [Positions -> Items \cup {None}]
      /\ score' \in [Positions -> Scores]
      /\ index' \in [Items -> Positions \cup {None, Unset}]
      /\ data'[Last] = data[0]
      /\ \A k \in 0 .. size - 1 :
           index'[data'[k]] = IF k = 0 \/ k = Last THEN k ELSE index[data[k]]
      /\ \A k \in Positions : k # 0 /\ k # Last =>
           data'[k] = data[k] /\ score'[k] = score[k]
  BY <1>1, <1>2, <1>3, SwapPlaces
<1>5. PICK n \in 0 .. Capacity : n = size
  BY <1>3
<1>6. Placed(n)'
  BY <1>1, <1>2, <1>3, <1>5, SwapPlaces
<1>7. /\ \A i \in Positions : data'[i] # None <=> i < size
      /\ \A i, j \in 0 .. size - 1 : data'[i] = data'[j] => i = j
      /\ \A d \in Items : index'[d] # None => \E i \in 0 .. size - 1 : data'[i] = d
  BY <1>5, <1>6 DEF Placed
<1>8. /\ Sifting' /\ Held' = size
      /\ \A k \in 0 .. size - 1 : index'[data'[k]] = k
  BY <1>1, <1>2, <1>3, <1>4 DEF Sifting, Held
<1>9. TypeOK'
  <2>1. data[0] \in Items \cup {None} /\ 0 \in Positions
    BY <1>1, <1>2 DEF TypeOK
  <2>2. size' \in 0 .. Capacity /\ \A i \in Positions : i < size' => data'[i] # None
    BY <1>1, <1>2, <1>7
  <2> QED
    BY <1>2, <1>4, <2>1, <2>2 DEF TypeOK
<1>10. PlaceInv'
  <2>1. /\ size' + 1 = size /\ data'[size'] = returned' /\ at' = 0 /\ pc' = "down"
        /\ item' = None /\ size <= Capacity
    BY <1>1, <1>2, <1>4
  <2> QED
    BY <1>7, <1>8, <2>1 DEF PlaceInv
<1>11. OrderInv'
  <2>1. ASSUME NEW i \in 1 .. size' - 1, Parent(i) # 0
        PROVE  score'[Parent(i)] <= score'[i]
    <3>1. i \in Nat /\ i # 0 /\ i < Last /\ i \in 1 .. size - 1 /\ i \in Positions
      BY <1>1, <1>2, <2>1
    <3>2. Parent(i) \in Nat /\ Parent(i) < i
      BY <3>1, ParentChild
    <3>3. Parent(i) \in Positions /\ Parent(i) # Last /\ i # Last
      BY <1>1, <3>1, <3>2
    <3>4. score'[Parent(i)] = score[Parent(i)] /\ score'[i] = score[i]
      BY <1>4, <2>1, <3>1, <3>3
    <3> QED
      BY <1>3, <3>1, <3>4
  <2> QED
    BY <1>2, <2>1 DEF OrderInv
<1>12. QED
  BY <1>9, <1>10, <1>11 DEF HeapInv

LEMMA UpKeeps ==
  ASSUME HeapInv, Up
  PROVE  HeapInv'
<1> DEFINE p == Parent(at)
<1>1. /\ Capacity \in Nat \ {0} /\ None \notin Items /\ None \notin Int
      /\ Positions = 0 .. Capacity - 1 /\ size \in 0 .. Capacity
      /\ \A j \in Positions : score[j] \in Scores /\ score[j] \in Nat
  BY PriorityAssumption DEF Positions, HeapInv, TypeOK, Scores
<1>2. /\ TypeOK /\ PlaceInv /\ OrderInv /\ pc = "up" /\ Swap(at, p) /\ at # 0
      /\ Compare(score[p], score[at]) > 0
      /\ at' = p /\ size' = size /\ pc' = pc /\ item' = item /\ returned' = returned
  BY DEF Up, AboveIsLarger, HeapInv
<1>3. /\ item # None /\ Held = size /\ at < size /\ data[at] = item
      /\ Sifting /\ Sifting' /\ Held' = size
  BY <1>2 DEF PlaceInv, Sifting, Held
<1>4. Placed(size)
  BY <1>2, <1>3, PlaceInvPlaces
<1>5. /\ at \in 1 .. size - 1 /\ at \in Nat
      /\ p \in Nat /\ p < at /\ p \in 0 .. size - 1 /\ at \in 0 .. size - 1
  <2>1. at \in Nat /\ at \in 1 .. size - 1
    BY <1>1, <1>2, <1>3 DEF TypeOK
  <2>2. p \in Nat /\ p < at
    BY <1>2, <2>1, ParentChild
  <2> QED
    BY <1>1, <2>1, <2>2
<1> HIDE DEF p
<1>6. /\ at \in Positions /\ p \in Positions
      /\ data' \in [Positions -> Items \cup {None}]
      /\ score' \in [Positions -> Scores]
      /\ index' \in [Items -> Positions \cup {None, Unset}]
      /\ data'[p] = data[at]
      /\ score'[at] = score[p] /\ score'[p] = score[at]
      /\ \A k \in 0 .. size - 1 :
           index'[data'[k]] = IF k = at \/ k = p THEN k ELSE index[data[k]]
      /\ \A k \in Positions : k # at /\ k # p =>
           data'[k] = data[k] /\ score'[k] = score[k]
  BY <1>1, <1>2, <1>4, <1>5, SwapPlaces
<1>7. PICK n \in 0 .. Capacity : n = size
  BY <1>1
<1>8. Placed(n)'
  BY <1>1, <1>2, <1>4, <1>5, <1>7, SwapPlaces
<1>9. /\ \A i \in Positions : data'[i] # None <=> i < size
      /\ \A i, j \in 0 .. size - 1 : data'[i] = data'[j] => i = j
      /\ \A d \in Items : index'[d] # None => \E i \in 0 .. size - 1 : data'[i] = d
  BY <1>7, <1>8 DEF Placed
<1>10. TypeOK'
  BY <1>2, <1>6, <1>9 DEF TypeOK
<1>11. ASSUME NEW k \in 0 .. size - 1
       PROVE  index'[data'[k]] = k \/ (data'[k] = item /\ index'[data'[k]] # None)
  <2>1. CASE k = at \/ k = p
    BY <1>6, <2>1
  <2>2. CASE k # at /\ k # p
    <3>1. index'[data'[k]] = index[data[k]] /\ data'[k] = data[k]
      BY <1>1, <1>6, <2>2
    <3> QED
      BY <1>2, <1>3, <3>1 DEF PlaceInv
  <2> QED
    BY <2>1, <2>2
<1>12. PlaceInv'
  <2>1. at' < size' /\ data'[at'] = item' /\ item' # None /\ Held' <= Capacity
    BY <1>1, <1>2, <1>3, <1>5, <1>6
  <2> QED
    BY <1>2, <1>3, <1>9, <1>11, <2>1 DEF PlaceInv
<1>13. score[at] < score[p]
  <2>1. Compare(score[p], score[at]) = score[p] - score[at]
    BY <1>1, <1>6, CompareIsOrder
  <2> QED
    BY <1>1, <1>2, <1>6, <2>1
<1>14. ASSUME NEW i \in 1 .. size - 1
       PROVE  /\ i \in Positions /\ Parent(i) \in Positions /\ Parent(i) # i
              /\ i # at => score[Parent(i)] <= score[i]
              /\ Parent(i) = at => score[p] <= score[i]
  <2>1. i \in Nat /\ i # 0 /\ i < size /\ i \in Positions
    BY <1>1
  <2>2. Parent(i) \in Nat /\ Parent(i) < i
    BY <2>1, ParentChild
  <2>3. i # at => score[Parent(i)] <= score[i]
    BY <1>2 DEF OrderInv
  <2>4. Parent(i) = at => score[p] <= score[i]
    BY <1>2, <1>3 DEF OrderInv, p
  <2> QED
    BY <1>1, <2>1, <2>2, <2>3, <2>4
<1>15. OrderInv'
  <2>1. ASSUME NEW i \in 1 .. size - 1, i # p
        PROVE  score'[Parent(i)] <= score'[i]
    <3>1. CASE i = at
      <4>1. score'[i] = score[p] /\ score'[Parent(i)] = score[at]
        BY <1>6, <3>1 DEF p
      <4> QED
        BY <1>1, <1>6, <1>13, <4>1
    <3>2. CASE i # at /\ Parent(i) = at
      <4>1. score'[i] = score[i] /\ score'[Parent(i)] = score[p]
        BY <1>6, <1>14, <2>1, <3>2
      <4> QED
        BY <1>14, <3>2, <4>1
    <3>3. CASE i # at /\ Parent(i) = p
      <4>1. score'[i] = score[i] /\ score'[Parent(i)] = score[at] /\ score[p] <= score[i]
        BY <1>6, <1>14, <2>1, <3>3
      <4> QED
        BY <1>1, <1>6, <1>13, <1>14, <4>1
    <3>4. CASE i # at /\ Parent(i) # at /\ Parent(i) # p
      <4>1. score'[i] = score[i] /\ score'[Parent(i)] = score[Parent(i)]
        BY <1>6, <1>14, <2>1, <3>4
      <4> QED
        BY <1>14, <3>4, <4>1
    <3> QED
      BY <3>1, <3>2, <3>3, <3>4
  <2>2. ASSUME p # 0, NEW i \in 1 .. size - 1, Parent(i) = p
        PROVE  score'[Parent(p)] <= score'[i]
    <3>1. p \in 1 .. size - 1 /\ p # at
      BY <1>1, <1>5, <2>2
    <3>2. /\ Parent(p) \in Positions /\ Parent(p) # p /\ Parent(p) < p
          /\ score[Parent(p)] <= score[p]
      BY <1>5, <1>14, <2>2, <3>1, ParentChild
    <3>3. score'[Parent(p)] = score[Parent(p)]
      BY <1>1, <1>5, <1>6, <3>2
    <3>4. score[p] <= score'[i]
      <4>1. CASE i = at
        BY <1>1, <1>6, <4>1
      <4>2. CASE i # at
        <5>1. i # p /\ score[p] <= score[i]
          BY <1>14, <2>2, <4>2
        <5> QED
          BY <1>6, <1>14, <4>2, <5>1
      <4> QED
        BY <4>1, <4>2
    <3>5. score'[i] \in Nat
      BY <1>6, <1>14, PriorityAssumption DEF Scores
    <3> QED
      BY <1>1, <1>6, <3>2, <3>3, <3>4, <3>5
  <2> QED
    BY <1>2, <2>1, <2>2 DEF OrderInv
<1>16. QED
  BY <1>10, <1>12, <1>15 DEF HeapInv

LEMMA DownKeeps ==
  ASSUME HeapInv, Down
  PROVE  HeapInv'
<1> DEFINE m == Minimum(at)
<1>1. /\ Capacity \in Nat \ {0} /\ None \notin Items /\ None \notin Int
      /\ Positions = 0 .. Capacity - 1 /\ size \in 0 .. Capacity
      /\ \A j \in Positions : score[j] \in Scores /\ score[j] \in Nat
  BY PriorityAssumption DEF Positions, HeapInv, TypeOK, Scores
<1>2. /\ TypeOK /\ PlaceInv /\ OrderInv /\ pc = "down" /\ Swap(at, m) /\ m # at
      /\ at' = m /\ size' = size /\ pc' = pc /\ item' = item /\ returned' = returned
      /\ at \in Positions
  BY DEF Down, HeapInv, TypeOK
<1>3. /\ m \in 1 .. size - 1 /\ Parent(m) = at /\ score[m] < score[at]
      /\ \A j \in 1 .. size - 1 : Parent(j) = at => score[m] <= score[j]
  BY <1>2, MinimumIsLeast
<1>4. /\ Sifting /\ Sifting' /\ Held' = Held
      /\ Held = IF item = None THEN size + 1 ELSE size
      /\ Held \in 0 .. Capacity /\ Placed(Held)
  BY <1>2, PlaceInvPlaces DEF Sifting, Held
<1> HIDE DEF m
<1>5. /\ at \in Nat /\ m \in Nat /\ at < m /\ m < size
      /\ at \in 0 .. Held - 1 /\ m \in 0 .. Held - 1
  <2>1. m \in Nat /\ m # 0 /\ m < size
    BY <1>1, <1>3
  <2>2. Parent(m) \in Nat /\ Parent(m) < m
    BY <2>1, ParentChild
  <2> QED
    BY <1>1, <1>3, <1>4, <2>1, <2>2
<1>6. /\ m \in Positions
      /\ data' \in [Positions -> Items \cup {None}]
      /\ score' \in [Positions -> Scores]
      /\ index' \in [Items -> Positions \cup {None, Unset}]
      /\ data'[m] = data[at]
      /\ score'[at] = score[m] /\ score'[m] = score[at]
      /\ \A k \in 0 .. Held - 1 :
           index'[data'[k]] = IF k = at \/ k = m THEN k ELSE index[data[k]]
      /\ \A k \in Positions : k # at /\ k # m =>
           data'[k] = data[k] /\ score'[k] = score[k]
  BY <1>2, <1>4, <1>5, SwapPlaces
<1>7. PICK n \in 0 .. Capacity : n = Held
  BY <1>4
<1>8. Placed(n)'
  BY <1>2, <1>4, <1>5, <1>7, SwapPlaces
<1>9. /\ \A i \in Positions : data'[i] # None <=> i < Held
      /\ \A i, j \in 0 .. Held - 1 : data'[i] = data'[j] => i = j
      /\ \A d \in Items : index'[d] # None => \E i \in 0 .. Held - 1 : data'[i] = d
  BY <1>7, <1>8 DEF Placed
<1>10. TypeOK'
  <2>1. \A i \in Positions : i < size => i < Held
    BY <1>1, <1>4
  <2> QED
    BY <1>2, <1>6, <1>9, <2>1 DEF TypeOK
<1>11. ASSUME NEW k \in 0 .. Held - 1
       PROVE  index'[data'[k]] = k \/ (data'[k] = item /\ index'[data'[k]] # None)
  <2>1. CASE k = at \/ k = m
    BY <1>6, <2>1
  <2>2. CASE k # at /\ k # m
    <3>1. index'[data'[k]] = index[data[k]] /\ data'[k] = data[k]
      BY <1>1, <1>4, <1>6, <2>2
    <3> QED
      BY <1>2, <1>4, <3>1 DEF PlaceInv
  <2> QED
    BY <2>1, <2>2
<1>12. PlaceInv'
  <2>1. IF item' # None
        THEN at' < size' /\ data'[at'] = item'
        ELSE /\ pc' = "down" /\ data'[size'] = returned'
             /\ at' < size' \/ at' = 0
    <3>1. CASE item # None
      <4>1. data[at] = item
        BY <1>2, <1>4, <3>1 DEF PlaceInv
      <4> QED
        BY <1>2, <1>5, <1>6, <3>1, <4>1
    <3>2. CASE item = None
      <4>1. data[size] = returned
        BY <1>2, <1>4, <3>2 DEF PlaceInv
      <4>2. size \in Positions /\ size # at /\ size # m
        BY <1>1, <1>4, <1>5, <3>2
      <4>3. data'[size] = returned
        BY <1>6, <4>1, <4>2
      <4> QED
        BY <1>2, <1>5, <3>2, <4>3
    <3> QED
      BY <3>1, <3>2
  <2>2. Held' <= Capacity
    BY <1>1, <1>4
  <2> QED
    BY <1>2, <1>4, <1>9, <1>11, <2>1, <2>2 DEF PlaceInv
<1>14. ASSUME NEW i \in 1 .. size - 1
       PROVE  /\ i \in Positions /\ Parent(i) \in Positions /\ Parent(i) # i
              /\ Parent(i) # at => score[Parent(i)] <= score[i]
              /\ Parent(i) = at /\ at # 0 => score[Parent(at)] <= score[i]
  <2>1. i \in Nat /\ i # 0 /\ i < size /\ i \in Positions
    BY <1>1
  <2>2. Parent(i) \in Nat /\ Parent(i) < i
    BY <2>1, ParentChild
  <2>3. Parent(i) # at => score[Parent(i)] <= score[i]
    BY <1>2 DEF OrderInv
  <2>4. Parent(i) = at /\ at # 0 => score[Parent(at)] <= score[i]
    BY <1>2, <1>4 DEF OrderInv
  <2> QED
    BY <1>1, <2>1, <2>2, <2>3, <2>4
<1>15. OrderInv'
  <2>1. ASSUME NEW i \in 1 .. size - 1, Parent(i) # m
        PROVE  score'[Parent(i)] <= score'[i]
    <3>1. CASE i = m
      <4>1. score'[i] = score[at] /\ score'[Parent(i)] = score[m]
        BY <1>3, <1>6, <3>1
      <4> QED
        BY <1>1, <1>2, <1>3, <1>6, <4>1
    <3>2. CASE i # m /\ Parent(i) = at
      <4>1. score'[i] = score[i] /\ score'[Parent(i)] = score[m]
        BY <1>6, <1>14, <3>2
      <4> QED
        BY <1>3, <3>2, <4>1
    <3>3. CASE i = at
      <4>1. /\ score'[i] = score[m] /\ score'[Parent(i)] = score[Parent(at)]
            /\ at # 0 /\ score[Parent(at)] <= score[m]
        BY <1>1, <1>3, <1>6, <1>14, <2>1, <3>3
      <4> QED
        BY <4>1
    <3>4. CASE i # m /\ Parent(i) # at /\ i # at
      <4>1. score'[i] = score[i] /\ score'[Parent(i)] = score[Parent(i)]
        BY <1>6, <1>14, <2>1, <3>4
      <4> QED
        BY <1>14, <3>4, <4>1
    <3> QED
      BY <3>1, <3>2, <3>3, <3>4
  <2>2. ASSUME NEW i \in 1 .. size - 1, Parent(i) = m
        PROVE  score'[Parent(m)] <= score'[i]
    <3>1. i \in Nat /\ i # 0
      BY <1>1
    <3>2. m < i
      BY <2>2, <3>1, ParentChild
    <3>3. /\ score'[i] = score[i] /\ score'[Parent(m)] = score[m]
          /\ score[m] <= score[i]
      BY <1>3, <1>5, <1>6, <1>14, <2>2, <3>1, <3>2
    <3> QED
      BY <3>3
  <2> QED
    BY <1>2, <2>1, <2>2 DEF OrderInv
<1>16. QED
  BY <1>10, <1>12, <1>15 DEF HeapInv

LEMMA FinishKeeps ==
  ASSUME HeapInv, Finish
  PROVE  HeapInv'
<1>1. /\ Capacity \in Nat \ {0} /\ None \notin Items /\ None \notin Int
      /\ Positions = 0 .. Capacity - 1 /\ size \in 0 .. Capacity /\ 0 \in Positions
      /\ MaxScore \in Nat /\ at \in Positions
      /\ \A j \in Positions : score[j] \in Scores /\ score[j] \in Nat
  BY PriorityAssumption DEF Positions, HeapInv, TypeOK, Scores
<1>2. /\ TypeOK /\ PlaceInv /\ OrderInv /\ pc \in {"up", "down"}
      /\ pc' = "idle" /\ at' = 0 /\ item' = None /\ size' = size /\ returned' = returned
      /\ Sifting /\ ~Sifting' /\ Held' = size
  BY DEF Finish, HeapInv, Sifting, Held
<1>3. ASSUME NEW i \in 1 .. size - 1 PROVE score[Parent(i)] <= score[i]
  <2>0. /\ i \in Nat /\ i # 0 /\ i \in Positions
        /\ Parent(i) \in Nat /\ Parent(i) < i
    <3>1. i \in Nat /\ i # 0 /\ i \in Positions
      BY <1>1
    <3> QED
      BY <3>1, ParentChild
  <2>1. CASE pc = "up" /\ i = at
    <3>1. ~(Compare(score[Parent(at)], score[at]) > 0)
      BY <1>1, <2>1 DEF Finish, AboveIsLarger
    <3>2. Parent(at) \in Positions
      BY <1>1, <2>0, <2>1
    <3>3. Compare(score[Parent(at)], score[at]) = score[Parent(at)] - score[at]
      BY <1>1, <3>2, CompareIsOrder
    <3> QED
      BY <1>1, <2>1, <3>1, <3>2, <3>3
  <2>2. CASE pc = "down" /\ Parent(i) = at
    <3>1. Minimum(at) = at
      BY <2>2 DEF Finish
    <3> QED
      BY <1>1, <1>2, <2>2, <3>1, MinimumIsLeast
  <2>3. CASE ~(pc = "up" /\ i = at) /\ ~(pc = "down" /\ Parent(i) = at)
    BY <1>2, <2>3 DEF OrderInv
  <2> QED
    BY <2>1, <2>2, <2>3
<1>4. CASE item # None
  <2>1. /\ index' = [index EXCEPT ![item] = at] /\ data' = data /\ score' = score
        /\ Held = size /\ at < size /\ data[at] = item /\ item \in Items
    BY <1>2, <1>4 DEF Finish, Held, PlaceInv, TypeOK
  <2>2. TypeOK'
    BY <1>1, <1>2, <2>1 DEF TypeOK
  <2>3. \A d \in Items : index'[d] = IF d = item THEN at ELSE index[d]
    BY <1>2, <2>1 DEF TypeOK
  <2>4. /\ Placed(size) /\ at \in 0 .. size - 1
    BY <1>1, <1>2, <2>1, PlaceInvPlaces
  <2>5. ASSUME NEW i \in 0 .. size - 1 PROVE index'[data[i]] = i
    <3>1. data[i] \in Items
      BY <1>1, <1>2 DEF TypeOK
    <3>2. CASE data[i] = item
      BY <2>1, <2>3, <2>4, <3>2 DEF Placed
    <3>3. CASE data[i] # item
      <4>1. index[data[i]] = i
        BY <1>2, <2>1, <3>3 DEF PlaceInv
      <4> QED
        BY <2>3, <3>1, <3>3, <4>1
    <3> QED
      BY <3>2, <3>3
  <2>6. ASSUME NEW d \in Items, index'[d] # None PROVE \E i \in 0 .. size - 1 : data[i] = d
    <3>1. CASE d = item
      BY <2>1, <2>4, <3>1
    <3>2. CASE d # item
      BY <2>3, <2>4, <2>6, <3>2 DEF Placed
    <3> QED
      BY <3>1, <3>2
  <2>7. PlaceInv'
    BY <1>1, <1>2, <2>1, <2>4, <2>5, <2>6 DEF PlaceInv, Placed
  <2>8. OrderInv'
    BY <1>2, <1>3, <2>1 DEF OrderInv
  <2> QED
    BY <2>2, <2>7, <2>8 DEF HeapInv
<1>5. CASE item = None
  <2>1. /\ index' = [index EXCEPT ![returned] = None]
        /\ data' = [data EXCEPT ![size] = None]
        /\ score' = [score EXCEPT ![size] = 0]
        /\ Held = size + 1 /\ data[size] = returned /\ Held \in 0 .. Capacity /\ Placed(Held)
    BY <1>2, <1>5, PlaceInvPlaces DEF Finish, Held, PlaceInv
  <2>2. PICK n \in 0 .. Capacity : n = Held
    BY <2>1
  <2>3. /\ size \in Positions /\ size \in 0 .. size /\ 0 .. Held - 1 = 0 .. size
        /\ 0 \in Scores
    BY <1>1, <2>1 DEF Scores
  <2>4. returned \in Items
    BY <1>1, <1>2, <2>1, <2>3 DEF Placed, TypeOK
  <2>5. /\ data'[size] = None
        /\ \A i \in Positions : i # size => data'[i] = data[i] /\ score'[i] = score[i]
        /\ \A d \in Items : index'[d] = IF d = returned THEN None ELSE index[d]
    BY <1>2, <2>1, <2>3, <2>4 DEF TypeOK
  <2>6. \A i \in Positions : data'[i] # None <=> i < size
    BY <1>1, <2>1, <2>3, <2>5 DEF Placed
  <2>7. TypeOK'
    BY <1>1, <1>2, <2>1, <2>3, <2>4, <2>6 DEF TypeOK
  <2>8. ASSUME NEW i \in 0 .. size - 1
        PROVE  /\ i \in Positions /\ i \in 0 .. size /\ i # size
               /\ data'[i] = data[i] /\ data[i] # returned /\ data[i] \in Items
    <3>1. i \in Positions /\ i \in 0 .. size /\ i # size
      BY <1>1
    <3>2. data[i] # data[size] /\ data[i] \in Items
      BY <1>1, <1>2, <2>1, <2>3, <3>1 DEF Placed, TypeOK
    <3> QED
      BY <2>1, <2>5, <3>1, <3>2
  <2>9. ASSUME NEW i \in 0 .. size - 1 PROVE index'[data'[i]] = i
    <3>1. index[data[i]] = i
      <4>1. i \in 0 .. Held - 1 /\ data[i] # item
        BY <1>1, <1>5, <2>3, <2>8
      <4> QED
        BY <1>2, <4>1 DEF PlaceInv
    <3> QED
      BY <2>5, <2>8, <3>1
  <2>10. ASSUME NEW d \in Items, index'[d] # None
         PROVE  \E i \in 0 .. size - 1 : data'[i] = d
    <3>1. d # returned /\ index[d] # None
      BY <2>5, <2>10
    <3>2. PICK i \in 0 .. size : data[i] = d
      BY <2>1, <2>3, <3>1 DEF Placed
    <3>3. i \in 0 .. size - 1
      BY <1>1, <2>1, <3>1, <3>2
    <3> QED
      BY <2>8, <3>2, <3>3
  <2>11. \A i, j \in 0 .. size - 1 : data'[i] = data'[j] => i = j
    BY <2>1, <2>3, <2>8 DEF Placed
  <2>12. PlaceInv'
    BY <1>1, <1>2, <2>6, <2>9, <2>10, <2>11 DEF PlaceInv
  <2>13. OrderInv'
    <3>1. ASSUME NEW i \in 1 .. size - 1 PROVE score'[Parent(i)] <= score'[i]
      <4>1. i \in Nat /\ i # 0 /\ i < size /\ i \in Positions
        BY <1>1
      <4>2. Parent(i) \in Nat /\ Parent(i) < i
        BY <4>1, ParentChild
      <4>3. Parent(i) \in Positions /\ Parent(i) # size /\ i # size
        BY <1>1, <4>1, <4>2
      <4>4. score'[i] = score[i] /\ score'[Parent(i)] = score[Parent(i)]
        BY <2>5, <4>1, <4>3
      <4> QED
        BY <1>3, <4>4
    <3> QED
      BY <1>2, <3>1 DEF OrderInv
  <2> QED
    BY <2>7, <2>12, <2>13 DEF HeapInv
<1>6. QED
  BY <1>4, <1>5

LEMMA HeapStep ==
  ASSUME HeapInv, [Next]_vars
  PROVE  HeapInv'
<1>1. CASE UNCHANGED vars
  BY <1>1 DEF vars, heap, HeapInv, TypeOK, PlaceInv, OrderInv, Held, Sifting, Parent
<1>2. ASSUME pc = "idle", pc' \in {"overflow", "underflow"},
             UNCHANGED <<heap, index, at, item, returned>>
      PROVE  HeapInv'
  BY <1>2 DEF heap, HeapInv, TypeOK, PlaceInv, OrderInv, Held, Sifting, Parent
<1>3. ASSUME NEW d \in Items, InsertBeyond(d) PROVE HeapInv'
  BY <1>2, <1>3 DEF InsertBeyond
<1>4. ASSUME RemoveNone PROVE HeapInv'
  BY <1>2, <1>4 DEF RemoveNone
<1>5. QED
  BY <1>1, <1>3, <1>4, InsertKeeps, UpdateKeeps, RemoveKeeps, UpKeeps, DownKeeps,
     FinishKeeps DEF Next

THEOREM HeapInvariant == Spec => []HeapInv
<1> QED
  BY HeapInit, HeapStep, PTL DEF Spec

\* heap.c, upheap and downheap: between operations no element is smaller than its
\* parent, so the victim of an eviction is at the root.
THEOREM HeapOrdered == Spec => []HeapOrder
<1>1. HeapInv => HeapOrder
  BY AtRest DEF HeapOrder
<1> QED
  BY <1>1, HeapInvariant, PTL

\* priority.c, listen_internal_priority and the assignments of *index: between
\* operations the index of every item is where the item is.
THEOREM IndicesRight == Spec => []IndexRight
<1>1. ASSUME HeapInv PROVE IndexRight
  <2> SUFFICES ASSUME pc = "idle", NEW d \in Items
               PROVE  IF \E i \in 0 .. size - 1 : data[i] = d
                      THEN index[d] \in 0 .. size - 1 /\ data[index[d]] = d
                      ELSE index[d] = None
    BY DEF IndexRight
  <2> QED
    BY <1>1, AtRest DEF Placed
<1> QED
  BY <1>1, HeapInvariant, PTL
-----------------------------------------------------------------------------
(* The heap implements LeastScore.                                         *)

\* The root is least: a position that is less than it has a parent that is, too.
LEMMA RootIsLeast ==
  ASSUME HeapInv, pc = "idle"
  PROVE  \A i \in 0 .. size - 1 : score[0] <= score[i]
<1> DEFINE Less == {i \in Nat : i < size /\ score[i] < score[0]}
<1>1. /\ size \in Nat /\ size <= Capacity /\ Capacity \in Nat \ {0}
      /\ Positions = 0 .. Capacity - 1
      /\ \A j \in Positions : score[j] \in Nat
  BY PriorityAssumption DEF HeapInv, TypeOK, Scores, Positions
<1>2. \A i \in 1 .. size - 1 : score[Parent(i)] <= score[i]
  BY AtRest
<1>3. Less \subseteq Nat /\ \A i \in Less : i < size /\ score[i] < score[0]
  OBVIOUS
<1>4. \A i \in Nat : i < size /\ score[i] < score[0] => i \in Less
  OBVIOUS
<1>5. Less = {}
  <2> HIDE DEF Less
  <2> SUFFICES ASSUME Less # {} PROVE FALSE
    OBVIOUS
  <2>1. PICK i \in Less : \A j \in Less : ~(<<j, i>> \in OpToRel(<, Nat))
    BY <1>3, NatLessThanWellFounded, WFMin, Zenon
  <2>2. \A j \in Less : ~(j < i)
    BY <1>3, <2>1, Zenon DEF OpToRel
  <2>3. i \in 1 .. size - 1 /\ i \in Nat /\ i # 0
    BY <1>1, <1>3
  <2>4. Parent(i) \in Nat /\ Parent(i) < i
    BY <2>3, ParentChild
  <2>5. Parent(i) < size /\ score[Parent(i)] < score[0]
    <3>1. /\ score[Parent(i)] \in Nat /\ score[i] \in Nat /\ score[0] \in Nat
      BY <1>1, <2>3, <2>4
    <3>2. score[Parent(i)] <= score[i] /\ score[i] < score[0]
      BY <1>2, <1>3, <2>3
    <3> QED
      BY <1>1, <2>3, <2>4, <3>1, <3>2
  <2>6. Parent(i) \in Less
    BY <1>4, <2>4, <2>5
  <2> QED
    BY <2>2, <2>4, <2>6
<1>6. QED
  <2> HIDE DEF Less
  <2> SUFFICES ASSUME NEW i \in 0 .. size - 1 PROVE score[0] <= score[i]
    OBVIOUS
  <2>1. i \in Nat /\ i < size /\ i \in Positions /\ 0 \in Positions
    BY <1>1
  <2>2. ~(score[i] < score[0])
    BY <1>4, <1>5, <2>1
  <2> QED
    BY <1>1, <2>1, <2>2

\* ScoreOf is the score of the element an item has, None if it has none.
ScoreIs ==
  /\ ScoreOf \in [Items -> Scores \cup {None}]
  /\ \A i \in 0 .. size - 1 :
       data[i] \in Items /\ score[i] \in Scores /\ ScoreOf[data[i]] = score[i]
  /\ \A d \in Items : (\A i \in 0 .. size - 1 : data[i] # d) => ScoreOf[d] = None

LEMMA ScoreIsSo == HeapInv => ScoreIs
<1> SUFFICES ASSUME HeapInv PROVE ScoreIs
  OBVIOUS
<1>1. /\ size \in Nat /\ size <= Capacity /\ Positions = 0 .. Capacity - 1
      /\ Capacity \in Nat
      /\ data \in [Positions -> Items \cup {None}] /\ score \in [Positions -> Scores]
      /\ \A i \in Positions : i < size => data[i] # None
      /\ Held >= size
  BY PriorityAssumption DEF HeapInv, TypeOK, Positions, Held
<1>2. \A i, j \in 0 .. size - 1 : data[i] = data[j] => i = j
  <2>1. \A i \in 0 .. size - 1 : i \in 0 .. Held - 1
    BY <1>1 DEF Held
  <2> QED
    BY <2>1 DEF HeapInv, PlaceInv
<1>3. ASSUME NEW i \in 0 .. size - 1
      PROVE  data[i] \in Items /\ score[i] \in Scores
  <2>1. i \in Positions /\ i < size
    BY <1>1
  <2> QED
    BY <1>1, <2>1
<1>4. ASSUME NEW i \in 0 .. size - 1
      PROVE  ScoreOf[data[i]] = score[i]
  <2>1. (CHOOSE j \in 0 .. size - 1 : data[j] = data[i]) = i
    BY <1>2
  <2>2. data[i] \in Items /\ \E j \in 0 .. size - 1 : data[j] = data[i]
    BY <1>3
  <2> QED
    BY <2>1, <2>2 DEF ScoreOf
<1>5. ASSUME NEW d \in Items, \A i \in 0 .. size - 1 : data[i] # d
      PROVE  ScoreOf[d] = None
  BY <1>5 DEF ScoreOf
<1>6. ASSUME NEW d \in Items PROVE ScoreOf[d] \in Scores \cup {None}
  BY <1>3, <1>4, <1>5
<1>7. ScoreOf \in [Items -> Scores \cup {None}]
  BY <1>6 DEF ScoreOf
<1>8. QED
  BY <1>3, <1>4, <1>5, <1>7 DEF ScoreIs

LEMMA ScoreKept ==
  ASSUME ScoreIs, ScoreIs', NEW e \in Items,
         \A k \in 0 .. size - 1 : data[k] = e =>
           \E l \in 0 .. size' - 1 : data'[l] = e /\ score'[l] = score[k],
         \A l \in 0 .. size' - 1 : data'[l] = e => \E k \in 0 .. size - 1 : data[k] = e
  PROVE  ScoreOf'[e] = ScoreOf[e]
<1>1. CASE \E k \in 0 .. size - 1 : data[k] = e
  <2>1. PICK k \in 0 .. size - 1 : data[k] = e
    BY <1>1
  <2>2. PICK l \in 0 .. size' - 1 : data'[l] = e /\ score'[l] = score[k]
    BY <2>1
  <2>3. ScoreOf[e] = score[k]
    BY <2>1 DEF ScoreIs
  <2>4. ScoreOf'[e] = score'[l]
    BY <2>2 DEF ScoreIs
  <2> QED
    BY <2>2, <2>3, <2>4
<1>2. CASE ~ \E k \in 0 .. size - 1 : data[k] = e
  <2>1. \A l \in 0 .. size' - 1 : data'[l] # e
    BY <1>2
  <2>2. ScoreOf'[e] = None
    BY <2>1 DEF ScoreIs
  <2>3. ScoreOf[e] = None
    BY <1>2 DEF ScoreIs
  <2> QED
    BY <2>2, <2>3
<1>3. QED
  BY <1>1, <1>2

\* A swap of two elements changes no score.
LEMMA SwapScores ==
  ASSUME HeapInv, ScoreIs, ScoreIs',
         NEW i \in 0 .. size - 1, NEW j \in 0 .. size - 1, Swap(i, j), size' = size
  PROVE  ScoreOf' = ScoreOf
<1>1. /\ size \in Nat /\ size <= Held /\ Held \in 0 .. Capacity /\ Placed(Held)
      /\ i \in 0 .. Held - 1 /\ j \in 0 .. Held - 1 /\ Capacity \in Nat
      /\ Positions = 0 .. Capacity - 1
  <2>1. size \in Nat /\ Capacity \in Nat /\ Held \in 0 .. Capacity /\ Placed(Held)
    BY PriorityAssumption, PlaceInvPlaces DEF HeapInv, TypeOK
  <2>2. Held = size \/ Held = size + 1
    BY DEF Held
  <2> QED
    BY <2>1, <2>2 DEF Positions
<1>2. /\ data'[i] = data[j] /\ data'[j] = data[i]
      /\ score'[i] = score[j] /\ score'[j] = score[i]
      /\ \A k \in Positions : k # i /\ k # j =>
           data'[k] = data[k] /\ score'[k] = score[k]
  BY <1>1, SwapPlaces DEF HeapInv
<1>3. \A k \in 0 .. size - 1 : k \in Positions
  BY <1>1
<1>4. ASSUME NEW e \in Items PROVE ScoreOf'[e] = ScoreOf[e]
  <2>1. ASSUME NEW k \in 0 .. size - 1, data[k] = e
        PROVE  \E l \in 0 .. size' - 1 : data'[l] = e /\ score'[l] = score[k]
    <3>1. CASE k = i
      BY <1>2, <2>1, <3>1
    <3>2. CASE k = j
      BY <1>2, <2>1, <3>2
    <3>3. CASE k # i /\ k # j
      BY <1>2, <1>3, <2>1, <3>3
    <3> QED
      BY <3>1, <3>2, <3>3
  <2>2. ASSUME NEW l \in 0 .. size' - 1, data'[l] = e
        PROVE  \E k \in 0 .. size - 1 : data[k] = e
    <3>1. CASE l = i
      BY <1>2, <2>2, <3>1
    <3>2. CASE l = j
      BY <1>2, <2>2, <3>2
    <3>3. CASE l # i /\ l # j
      BY <1>2, <1>3, <2>2, <3>3
    <3> QED
      BY <3>1, <3>2, <3>3
  <2> QED
    BY <2>1, <2>2, ScoreKept
<1>5. QED
  BY <1>4 DEF ScoreIs

\* One item gets a score, the others keep theirs.
LEMMA SetScore ==
  ASSUME ScoreIs, ScoreIs', NEW d \in Items, returned' = returned,
         ScoreOf'[d] # None,
         \A e \in Items : e # d => ScoreOf'[e] = ScoreOf[e]
  PROVE  Abstract!Set(d)
<1>1. /\ ScoreOf \in [Items -> Scores \cup {None}]
      /\ ScoreOf' \in [Items -> Scores \cup {None}]
  BY DEF ScoreIs
<1>2. ScoreOf'[d] \in 0 .. MaxScore
  BY <1>1 DEF Scores
<1>3. ScoreOf' = [ScoreOf EXCEPT ![d] = ScoreOf'[d]]
  BY <1>1
<1>4. QED
  BY <1>2, <1>3 DEF Abstract!Set

LEMMA InsertSets ==
  ASSUME HeapInv, ScoreIs, ScoreIs', NEW d \in Items, NEW s \in Scores, InsertNew(d, s)
  PROVE  Abstract!Set(d)
<1>1. /\ size \in 0 .. Capacity - 1 /\ Capacity \in Nat /\ size' = size + 1
      /\ Positions = 0 .. Capacity - 1 /\ size \in Positions
      /\ data' = [data EXCEPT ![size] = d]
      /\ score' = [score EXCEPT ![size] = s] /\ returned' = returned
      /\ data \in [Positions -> Items \cup {None}] /\ score \in [Positions -> Scores]
  BY PriorityAssumption DEF InsertNew, HeapInv, TypeOK, Positions
<1>2. /\ data'[size] = d /\ size \in 0 .. size' - 1
      /\ \A k \in 0 .. size - 1 : /\ k \in 0 .. size' - 1
                               /\ data'[k] = data[k] /\ score'[k] = score[k]
      /\ \A k \in 0 .. size' - 1 : k = size \/ k \in 0 .. size - 1
  BY <1>1
<1>3. ScoreOf'[d] \in Scores
  BY <1>2 DEF ScoreIs
<1>4. ASSUME NEW e \in Items, e # d PROVE ScoreOf'[e] = ScoreOf[e]
  <2>1. \A k \in 0 .. size - 1 : data[k] = e =>
          \E l \in 0 .. size' - 1 : data'[l] = e /\ score'[l] = score[k]
    BY <1>2
  <2>2. \A l \in 0 .. size' - 1 : data'[l] = e => \E k \in 0 .. size - 1 : data[k] = e
    BY <1>2, <1>4
  <2> QED
    BY <2>1, <2>2, ScoreKept
<1>5. ScoreOf'[d] # None
  BY <1>3, PriorityAssumption DEF Scores
<1>6. QED
  BY <1>1, <1>4, <1>5, SetScore

LEMMA UpdateSets ==
  ASSUME HeapInv, ScoreIs, ScoreIs', NEW d \in Items, NEW s \in Scores, Update(d, s)
  PROVE  Abstract!Set(d)
<1>1. /\ index[d] \in 0 .. size - 1 /\ data[index[d]] = d
      /\ Placed(size) /\ size \in 0 .. Capacity /\ Capacity \in Nat
      /\ Positions = 0 .. Capacity - 1
      /\ score' = [score EXCEPT ![index[d]] = s] /\ data' = data /\ size' = size
      /\ score \in [Positions -> Scores] /\ returned' = returned
  BY PriorityAssumption, AtRest DEF Update, HeapInv, TypeOK, Positions
<1>2. \A k \in 0 .. size - 1 : k # index[d] => score'[k] = score[k]
  BY <1>1
<1>3. ScoreOf'[d] \in Scores
  BY <1>1 DEF ScoreIs
<1>4. ASSUME NEW e \in Items, e # d PROVE ScoreOf'[e] = ScoreOf[e]
  <2>1. \A k \in 0 .. size - 1 : data[k] = e =>
          \E l \in 0 .. size' - 1 : data'[l] = e /\ score'[l] = score[k]
    BY <1>1, <1>2, <1>4
  <2>2. \A l \in 0 .. size' - 1 : data'[l] = e => \E k \in 0 .. size - 1 : data[k] = e
    BY <1>1
  <2> QED
    BY <2>1, <2>2, ScoreKept
<1>5. ScoreOf'[d] # None
  BY <1>3, PriorityAssumption DEF Scores
<1>6. QED
  BY <1>1, <1>4, <1>5, SetScore

LEMMA RemoveTakesLeast ==
  ASSUME HeapInv, ScoreIs, ScoreIs', Remove
  PROVE  \E d \in Items : Abstract!TakeLeast(d)
<1>1. /\ size \in 1 .. Capacity /\ Capacity \in Nat /\ Positions = 0 .. Capacity - 1
      /\ Placed(size) /\ 0 \in 0 .. size - 1 /\ Last \in 0 .. size - 1 /\ Last = size - 1
      /\ size' = size - 1 /\ returned' = data[0] /\ Swap(0, Last)
      /\ pc = "idle" /\ TypeOK /\ size \in 0 .. Capacity
  BY PriorityAssumption, AtRest DEF Remove, HeapInv, TypeOK, Positions, Last
<1>2. /\ data'[0] = data[Last] /\ data'[Last] = data[0]
      /\ score'[0] = score[Last] /\ score'[Last] = score[0]
      /\ \A k \in Positions : k # 0 /\ k # Last =>
           data'[k] = data[k] /\ score'[k] = score[k]
  BY <1>1, SwapPlaces
<1>3. PICK d \in Items : d = data[0]
  BY <1>1 DEF ScoreIs
<1>4. /\ ScoreOf \in [Items -> Scores \cup {None}]
      /\ ScoreOf' \in [Items -> Scores \cup {None}]
      /\ None \notin Scores /\ \A s \in Scores : s \in Int
  BY PriorityAssumption DEF ScoreIs, Scores
<1>5. ScoreOf[d] = score[0] /\ ScoreOf[d] \in Scores
  BY <1>1, <1>3 DEF ScoreIs
<1>6. ASSUME NEW e \in Items, ScoreOf[e] # None PROVE ScoreOf[d] <= ScoreOf[e]
  <2>1. PICK k \in 0 .. size - 1 : data[k] = e
    BY <1>6 DEF ScoreIs
  <2>2. ScoreOf[e] = score[k]
    BY <2>1 DEF ScoreIs
  <2> QED
    BY <1>1, <1>5, <2>1, <2>2, RootIsLeast
<1>7. \A k \in 0 .. size - 1 : k # 0 => data[k] # d
  BY <1>1, <1>3 DEF Placed
<1>8. \A k \in 0 .. size' - 1 :
        k \in 0 .. size - 1 /\ k \in Positions /\ k # Last
  BY <1>1
<1>9. \A k \in 0 .. size - 1 : k = Last \/ k \in 0 .. size' - 1
  BY <1>1
<1>10. ScoreOf'[d] = None
  <2>1. \A k \in 0 .. size' - 1 : data'[k] # d
    BY <1>1, <1>2, <1>7, <1>8
  <2> QED
    BY <2>1 DEF ScoreIs
<1>11. ASSUME NEW e \in Items, e # d PROVE ScoreOf'[e] = ScoreOf[e]
  <2>1. ASSUME NEW k \in 0 .. size - 1, data[k] = e
        PROVE  \E l \in 0 .. size' - 1 : data'[l] = e /\ score'[l] = score[k]
    <3>1. k # 0 /\ k \in Positions
      BY <1>1, <1>3, <1>11, <2>1
    <3>2. CASE k = Last
      BY <1>1, <1>2, <2>1, <3>1, <3>2
    <3>3. CASE k # Last
      BY <1>2, <1>9, <2>1, <3>1, <3>3
    <3> QED
      BY <3>2, <3>3
  <2>2. ASSUME NEW l \in 0 .. size' - 1, data'[l] = e
        PROVE  \E k \in 0 .. size - 1 : data[k] = e
    BY <1>1, <1>2, <1>8, <2>2
  <2> QED
    BY <2>1, <2>2, ScoreKept
<1>12. ScoreOf' = [ScoreOf EXCEPT ![d] = None]
  BY <1>4, <1>10, <1>11
<1>13. Abstract!TakeLeast(d)
  BY <1>1, <1>3, <1>4, <1>5, <1>6, <1>12 DEF Abstract!TakeLeast, Abstract!Present
<1>14. QED
  BY <1>13

LEMMA FinishSetsNothing ==
  ASSUME HeapInv, ScoreIs, ScoreIs', Finish
  PROVE  ScoreOf' = ScoreOf /\ returned' = returned
<1>1. /\ size \in Nat /\ size' = size /\ returned' = returned
      /\ size <= Capacity /\ Capacity \in Nat /\ Positions = 0 .. Capacity - 1
      /\ data \in [Positions -> Items \cup {None}] /\ score \in [Positions -> Scores]
      /\ \/ UNCHANGED <<data, score>>
         \/ data' = [data EXCEPT ![size] = None] /\ score' = [score EXCEPT ![size] = 0]
  BY PriorityAssumption DEF Finish, HeapInv, TypeOK, Positions
<1>2. \A k \in 0 .. size - 1 : data'[k] = data[k] /\ score'[k] = score[k]
  BY <1>1
<1>3. \A e \in Items : ScoreOf'[e] = ScoreOf[e]
  BY <1>1, <1>2, ScoreKept
<1>4. QED
  BY <1>1, <1>3 DEF ScoreIs

LEMMA HeapRefines ==
  ASSUME HeapInv, ScoreIs, ScoreIs', [Next]_vars
  PROVE  [Abstract!Next]_(Abstract!scoreVars)
<1>1. CASE UNCHANGED vars
  BY <1>1 DEF vars, heap, ScoreOf, Abstract!scoreVars
<1>2. ASSUME NEW d \in Items, InsertBeyond(d) PROVE UNCHANGED <<ScoreOf, returned>>
  BY <1>2 DEF InsertBeyond, heap, ScoreOf
<1>3. ASSUME RemoveNone PROVE UNCHANGED <<ScoreOf, returned>>
  BY <1>3 DEF RemoveNone, heap, ScoreOf
<1>4. size \in Nat /\ at \in Nat
  BY PriorityAssumption DEF HeapInv, TypeOK, Positions
<1>5. ASSUME Up PROVE UNCHANGED <<ScoreOf, returned>>
  <2>1. /\ at # 0 /\ at < size /\ Swap(at, Parent(at)) /\ size' = size /\ returned' = returned
    BY <1>5 DEF Up, AboveIsLarger, HeapInv, PlaceInv, Sifting
  <2>2. Parent(at) \in Nat /\ Parent(at) < at
    BY <1>4, <2>1, ParentChild
  <2>3. at \in 0 .. size - 1 /\ Parent(at) \in 0 .. size - 1
    BY <1>4, <2>1, <2>2
  <2> QED
    BY <2>1, <2>3, SwapScores
<1>6. ASSUME Down PROVE UNCHANGED <<ScoreOf, returned>>
  <2>1. /\ Minimum(at) # at /\ Swap(at, Minimum(at)) /\ size' = size /\ returned' = returned
        /\ at \in Positions /\ TypeOK
    BY <1>6 DEF Down, HeapInv, TypeOK
  <2>2. Minimum(at) \in 1 .. size - 1 /\ Parent(Minimum(at)) = at
    BY <2>1, MinimumIsLeast
  <2>3. Minimum(at) \in Nat /\ Minimum(at) # 0
    BY <1>4, <2>2
  <2>4. at < Minimum(at)
    BY <2>2, <2>3, ParentChild
  <2>5. at \in 0 .. size - 1 /\ Minimum(at) \in 0 .. size - 1
    BY <1>4, <2>2, <2>4
  <2> QED
    BY <2>1, <2>5, SwapScores
<1>7. ASSUME UNCHANGED <<ScoreOf, returned>> PROVE UNCHANGED Abstract!scoreVars
  BY <1>7 DEF Abstract!scoreVars
<1>8. ASSUME Next PROVE Abstract!Next \/ UNCHANGED <<ScoreOf, returned>>
  BY <1>2, <1>3, <1>5, <1>6, <1>8, InsertSets, UpdateSets, RemoveTakesLeast,
     FinishSetsNothing DEF Next, Abstract!Next
<1>9. QED
  BY <1>1, <1>7, <1>8

\* priority.c: the heap is a table of scores, and remove_internal_priority hands
\* out an item of least score, whatever the order of the calls and however the
\* clock jumps.
THEOREM HeapImplementsLeastScore == Spec => Implements
<1>1. Init => Abstract!Init
  <2> SUFFICES ASSUME Init PROVE Abstract!Init
    OBVIOUS
  <2>1. size = 0 /\ returned = None /\ 0 .. size - 1 = {}
    BY DEF Init
  <2>2. ScoreOf = [d \in Items |-> None]
    BY <2>1 DEF ScoreOf
  <2> QED
    BY <2>1, <2>2 DEF Abstract!Init
<1>2. QED
  BY <1>1, HeapInvariant, ScoreIsSo, HeapRefines, PTL
     DEF Spec, Implements, Abstract!Spec
-----------------------------------------------------------------------------
(* The chained table.                                                      *)

Chain(k) == entries[Table!List(k)]

\* The structural part of the table's type invariant.
Chained ==
  /\ entries \in [Table!Lists -> Seq(Items \X Items)]
  /\ \A b \in Table!Lists : \A i, j \in 1 .. Len(entries[b]) :
       /\ Table!List(entries[b][i][1]) = b
       /\ entries[b][i][1] = entries[b][j][1] => i = j

KeysFound == {k \in Items : Table!Find(k) # 0}

TableInv ==
  /\ Chained
  /\ IsFiniteSet(KeysFound)
  /\ tableSize = Cardinality(KeysFound)
  /\ found \in Items \cup {None}

\* The walk finds a key where it is, and nothing where it is not.
FindsKeys ==
  \A k \in Items :
    /\ \A i \in 1 .. Len(Chain(k)) : Chain(k)[i][1] = k => Table!Find(k) = i
    /\ (\A i \in 1 .. Len(Chain(k)) : Chain(k)[i][1] # k) => Table!Find(k) = 0
    /\ Table!Find(k) # 0 => /\ Table!Find(k) \in 1 .. Len(Chain(k))
                            /\ Chain(k)[Table!Find(k)][1] = k

LEMMA ListOfKey == \A k \in Items : Table!List(k) \in Table!Lists
<1> SUFFICES ASSUME NEW k \in Items PROVE Table!List(k) \in Table!Lists
  OBVIOUS
<1>1. Hash[k] \in Int /\ Buckets \in Nat \ {0}
  BY TableAssumption
<1>2. Hash[k] % Buckets \in 0 .. Buckets - 1
  BY <1>1
<1>3. QED
  BY <1>2 DEF Table!List, Table!Lists

LEMMA FindIs == Chained => FindsKeys
<1> SUFFICES ASSUME Chained, NEW k \in Items
             PROVE  /\ \A i \in 1 .. Len(Chain(k)) : Chain(k)[i][1] = k => Table!Find(k) = i
                    /\ (\A i \in 1 .. Len(Chain(k)) : Chain(k)[i][1] # k) => Table!Find(k) = 0
                    /\ Table!Find(k) # 0 => /\ Table!Find(k) \in 1 .. Len(Chain(k))
                                            /\ Chain(k)[Table!Find(k)][1] = k
  BY DEF FindsKeys
<1> DEFINE S == {i \in 1 .. Len(Chain(k)) : Chain(k)[i][1] = k}
<1>1. /\ Chain(k) \in Seq(Items \X Items)
      /\ \A i, j \in 1 .. Len(Chain(k)) : Chain(k)[i][1] = Chain(k)[j][1] => i = j
  BY ListOfKey DEF Chain, Chained
<1>2. Table!Find(k) = IF S = {} THEN 0 ELSE Table!Min(S)
  BY DEF Table!Find, Chain
<1>3. ASSUME NEW i \in 1 .. Len(Chain(k)), Chain(k)[i][1] = k PROVE Table!Find(k) = i
  <2>1. S = {i} /\ i \in Int
    BY <1>1, <1>3
  <2>2. Table!Min(S) = i
    BY <2>1 DEF Table!Min
  <2> QED
    BY <1>2, <2>1, <2>2
<1>4. ASSUME \A i \in 1 .. Len(Chain(k)) : Chain(k)[i][1] # k PROVE Table!Find(k) = 0
  BY <1>2, <1>4
<1>5. QED
  BY <1>3, <1>4

\* A list without its i-th element.
LEMMA UnlinkedIs ==
  ASSUME NEW S, NEW list \in Seq(S), NEW i \in 1 .. Len(list)
  PROVE  /\ Table!Unlinked(list, i) \in Seq(S)
         /\ Len(Table!Unlinked(list, i)) = Len(list) - 1
         /\ \A j \in 1 .. Len(list) - 1 :
              Table!Unlinked(list, i)[j] = IF j < i THEN list[j] ELSE list[j + 1]
<1> DEFINE front == SubSeq(list, 1, i - 1)
           rest == SubSeq(list, i + 1, Len(list))
<1>1. Len(list) \in Nat /\ i \in Int /\ \A j \in 1 .. Len(list) : list[j] \in S
  OBVIOUS
<1>2. /\ front \in Seq(S) /\ Len(front) = i - 1
      /\ \A j \in 1 .. i - 1 : front[j] = list[j]
  <2>1. \A j \in 1 .. i - 1 : list[j] \in S
    BY <1>1
  <2>2. /\ front \in Seq(S) /\ Len(front) = IF 1 <= i - 1 THEN (i - 1) - 1 + 1 ELSE 0
        /\ \A j \in 1 .. (i - 1) - 1 + 1 : front[j] = list[1 + j - 1]
    BY <1>1, <2>1, SubSeqProperties
  <2> QED
    BY <1>1, <2>2
<1>3. /\ rest \in Seq(S) /\ Len(rest) = Len(list) - i
      /\ \A j \in 1 .. Len(list) - i : rest[j] = list[i + j]
  <2>1. \A j \in i + 1 .. Len(list) : list[j] \in S
    BY <1>1
  <2>2. /\ rest \in Seq(S)
        /\ Len(rest) = IF i + 1 <= Len(list) THEN Len(list) - (i + 1) + 1 ELSE 0
        /\ \A j \in 1 .. Len(list) - (i + 1) + 1 : rest[j] = list[(i + 1) + j - 1]
    BY <1>1, <2>1, SubSeqProperties
  <2> QED
    BY <1>1, <2>2
<1> HIDE DEF front, rest
<1>4. /\ front \o rest \in Seq(S)
      /\ Len(front \o rest) = Len(front) + Len(rest)
      /\ \A j \in 1 .. Len(front) + Len(rest) : (front \o rest)[j] =
           IF j <= Len(front) THEN front[j] ELSE rest[j - Len(front)]
  BY <1>2, <1>3, ConcatProperties
<1>5. Table!Unlinked(list, i) = front \o rest
  BY DEF Table!Unlinked, front, rest
<1>6. ASSUME NEW j \in 1 .. Len(list) - 1
      PROVE  (front \o rest)[j] = IF j < i THEN list[j] ELSE list[j + 1]
  <2>1. j \in 1 .. Len(front) + Len(rest)
    BY <1>1, <1>2, <1>3
  <2>2. (front \o rest)[j] = IF j <= Len(front) THEN front[j] ELSE rest[j - Len(front)]
    BY <1>4, <2>1
  <2>3. CASE j < i
    <3>1. j <= Len(front) /\ j \in 1 .. i - 1
      BY <1>1, <1>2, <2>3
    <3> QED
      BY <1>2, <2>2, <2>3, <3>1
  <2>4. CASE ~(j < i)
    <3>1. ~(j <= Len(front)) /\ j - Len(front) = j - (i - 1)
          /\ j - (i - 1) \in 1 .. Len(list) - i /\ i + (j - (i - 1)) = j + 1
      BY <1>1, <1>2, <2>4
    <3> QED
      BY <1>3, <2>2, <2>4, <3>1
  <2> QED
    BY <2>3, <2>4
<1>7. Len(front \o rest) = Len(list) - 1
  BY <1>1, <1>2, <1>3, <1>4
<1>8. QED
  BY <1>4, <1>5, <1>6, <1>7

\* What the table maps a key to.
MapOf ==
  [k \in Items |-> LET i == Table!Find(k) IN IF i = 0 THEN None ELSE entries[Table!List(k)][i][2]]

\* A new key goes to the end of its list.
LEMMA InsertChains ==
  ASSUME TableInv, NEW k \in Items, NEW v \in Items, Table!Find(k) = 0, Table!Insert(k, v)
  PROVE  /\ TableInv'
         /\ KeysFound' = KeysFound \cup {k}
         /\ MapOf' = [MapOf EXCEPT ![k] = v]
<1> DEFINE b == Table!List(k)
           list == entries[b]
           e == <<k, v>>
<1>1. /\ Chained /\ FindsKeys /\ IsFiniteSet(KeysFound)
      /\ tableSize = Cardinality(KeysFound)
  BY FindIs DEF TableInv
<1>2. /\ entries' = [entries EXCEPT ![b] = Append(list, e)]
      /\ tableSize' = tableSize + 1 /\ found' = None
  BY DEF Table!Insert, Table!Contains
<1>3. /\ b \in Table!Lists /\ list \in Seq(Items \X Items) /\ e \in Items \X Items
      /\ entries \in [Table!Lists -> Seq(Items \X Items)] /\ e[1] = k /\ e[2] = v
  BY <1>1, ListOfKey DEF Chained
<1> DEFINE n == Len(list)
           new == Append(list, e)
<1>4. /\ n \in Nat /\ new \in Seq(Items \X Items) /\ Len(new) = n + 1
      /\ \A i \in 1 .. n : new[i] = list[i]
      /\ new[n + 1] = e
  BY <1>3, AppendProperties
<1>5. /\ entries' \in [Table!Lists -> Seq(Items \X Items)] /\ entries'[b] = new
      /\ \A c \in Table!Lists : c # b => entries'[c] = entries[c]
  BY <1>2, <1>3, <1>4
<1>6. \A i \in 1 .. n : list[i][1] # k
  <2>1. ASSUME NEW i \in 1 .. n, list[i][1] = k PROVE FALSE
    <3>1. Table!Find(k) = i
      BY <1>1, <2>1 DEF FindsKeys, Chain
    <3> QED
      BY <1>4, <2>1, <3>1
  <2> QED
    BY <2>1
<1>7. \A i \in 1 .. n + 1 : i = n + 1 \/ i \in 1 .. n
  BY <1>4
<1> HIDE DEF b, list, e, n, new
<1>8. ASSUME NEW c \in Table!Lists,
             NEW i \in 1 .. Len(entries'[c]), NEW j \in 1 .. Len(entries'[c])
      PROVE  /\ Table!List(entries'[c][i][1]) = c
             /\ entries'[c][i][1] = entries'[c][j][1] => i = j
  <2>1. CASE c # b
    BY <1>1, <1>5, <2>1 DEF Chained
  <2>2. CASE c = b
    <3>1. /\ \A l \in 1 .. n : Table!List(list[l][1]) = b
          /\ \A l, m \in 1 .. n : list[l][1] = list[m][1] => l = m
      BY <1>1, <1>3 DEF Chained, list, n
    <3>2. i \in 1 .. n + 1 /\ j \in 1 .. n + 1 /\ Table!List(k) = b
      BY <1>4, <1>5, <2>2 DEF b
    <3>3. Table!List(new[i][1]) = b
      BY <1>3, <1>4, <1>7, <3>1, <3>2
    <3>4. new[i][1] = new[j][1] => i = j
      <4>1. \A l \in 1 .. n : new[l][1] = list[l][1] /\ new[l][1] # new[n + 1][1]
        BY <1>3, <1>4, <1>6
      <4> QED
        BY <1>7, <3>1, <3>2, <4>1
    <3> QED
      BY <1>5, <2>2, <3>3, <3>4
  <2> QED
    BY <2>1, <2>2
<1>9. Chained'
  BY <1>5, <1>8 DEF Chained, Table!List, Table!Lists
<1>10. FindsKeys'
  <2>1. Chained' => FindsKeys'
    BY FindIs, PTL
  <2> QED
    BY <1>9, <2>1
<1>11. Table!Find(k)' = n + 1 /\ Chain(k)' = new
  <2>1. Chain(k)' = new
    BY <1>5 DEF Chain, b, Table!List
  <2>2. n + 1 \in 1 .. Len(new) /\ new[n + 1][1] = k
    BY <1>3, <1>4
  <2> QED
    BY <1>10, <2>1, <2>2 DEF FindsKeys
<1>12. ASSUME NEW d \in Items, d # k
       PROVE  /\ Table!Find(d)' = Table!Find(d)
              /\ Table!Find(d) # 0 => Chain(d)'[Table!Find(d)] = Chain(d)[Table!Find(d)]
  <2>1. Table!List(d) \in Table!Lists /\ Table!List(d)' = Table!List(d)
    BY ListOfKey DEF Table!List
  <2>2. /\ Chain(d) \in Seq(Items \X Items)
        /\ \A i \in 1 .. Len(Chain(d)) :
             i \in 1 .. Len(Chain(d)') /\ Chain(d)'[i] = Chain(d)[i]
        /\ \A i \in 1 .. Len(Chain(d)') :
             Chain(d)'[i][1] = d => i \in 1 .. Len(Chain(d))
    <3>1. CASE Table!List(d) # b
      BY <1>3, <1>5, <2>1, <3>1 DEF Chain
    <3>2. CASE Table!List(d) = b
      <4>1. Chain(d) = list /\ Chain(d)' = new
        BY <1>5, <2>1, <3>2 DEF Chain, list
      <4> QED
        BY <1>3, <1>4, <1>7, <1>12, <4>1 DEF n
    <3> QED
      BY <3>1, <3>2
  <2>3. CASE \E i \in 1 .. Len(Chain(d)) : Chain(d)[i][1] = d
    <3>1. PICK i \in 1 .. Len(Chain(d)) : Chain(d)[i][1] = d
      BY <2>3
    <3>2. Table!Find(d) = i
      BY <1>1, <3>1 DEF FindsKeys
    <3>3. Table!Find(d)' = i
      BY <1>10, <2>2, <3>1 DEF FindsKeys
    <3> QED
      BY <2>2, <3>2, <3>3
  <2>4. CASE \A i \in 1 .. Len(Chain(d)) : Chain(d)[i][1] # d
    <3>1. Table!Find(d) = 0
      BY <1>1, <2>4 DEF FindsKeys
    <3>2. \A i \in 1 .. Len(Chain(d)') : Chain(d)'[i][1] # d
      BY <2>2, <2>4
    <3>3. Table!Find(d)' = 0
      BY <1>10, <3>2 DEF FindsKeys
    <3> QED
      BY <3>1, <3>3
  <2> QED
    BY <2>3, <2>4
<1>13. n + 1 # 0
  BY <1>4
<1>14. KeysFound' = KeysFound \cup {k} /\ k \notin KeysFound
  BY <1>11, <1>12, <1>13 DEF KeysFound
<1>15. TableInv'
  <2>1. IsFiniteSet(KeysFound \cup {k})
        /\ Cardinality(KeysFound \cup {k}) = Cardinality(KeysFound) + 1
    BY <1>1, <1>14, FS_AddElement
  <2> QED
    BY <1>1, <1>2, <1>9, <1>14, <2>1 DEF TableInv
<1>16. MapOf' = [MapOf EXCEPT ![k] = v]
  <2>1. MapOf'[k] = v
    BY <1>3, <1>4, <1>11, <1>13 DEF MapOf, Chain
  <2>2. ASSUME NEW d \in Items, d # k PROVE MapOf'[d] = MapOf[d]
    BY <1>12, <2>2 DEF MapOf, Chain
  <2>3. /\ MapOf' = [d \in Items |-> MapOf'[d]]
        /\ [MapOf EXCEPT ![k] = v] = [d \in Items |-> IF d = k THEN v ELSE MapOf[d]]
    BY DEF MapOf
  <2> QED
    BY <2>1, <2>2, <2>3
<1>17. QED
  BY <1>14, <1>15, <1>16

\* An element that is unlinked leaves the others findable, whatever its place in
\* the list.
LEMMA RemoveUnchains ==
  ASSUME TableInv, NEW k \in Items, Table!Find(k) # 0, Table!Remove(k)
  PROVE  /\ TableInv'
         /\ KeysFound' = KeysFound \ {k}
         /\ found' = MapOf[k]
         /\ MapOf' = [MapOf EXCEPT ![k] = None]
<1> DEFINE b == Table!List(k)
           list == entries[b]
           p == Table!Find(k)
           n == Len(list)
           new == Table!Unlinked(list, p)
<1>1. /\ Chained /\ FindsKeys /\ IsFiniteSet(KeysFound)
      /\ tableSize = Cardinality(KeysFound)
  BY FindIs DEF TableInv
<1>2. /\ entries' = [entries EXCEPT ![b] = new]
      /\ tableSize' = tableSize - 1 /\ found' = list[p][2]
  BY DEF Table!Remove
<1>3. /\ b \in Table!Lists /\ list \in Seq(Items \X Items)
      /\ entries \in [Table!Lists -> Seq(Items \X Items)]
      /\ p \in 1 .. n /\ list[p][1] = k /\ n \in Nat
  BY <1>1, ListOfKey DEF Chained, FindsKeys, Chain
<1>4. /\ new \in Seq(Items \X Items) /\ Len(new) = n - 1
      /\ \A j \in 1 .. n - 1 : new[j] = IF j < p THEN list[j] ELSE list[j + 1]
  BY <1>3, UnlinkedIs
<1>5. /\ entries' \in [Table!Lists -> Seq(Items \X Items)] /\ entries'[b] = new
      /\ \A c \in Table!Lists : c # b => entries'[c] = entries[c]
  BY <1>2, <1>3, <1>4
<1> HIDE DEF b, list, n, p, new
<1>6. /\ \A l \in 1 .. n : Table!List(list[l][1]) = b
      /\ \A l, m \in 1 .. n : list[l][1] = list[m][1] => l = m
  BY <1>1, <1>3 DEF Chained, list, n
\* Where an element of the new list was.
<1> DEFINE Was(j) == IF j < p THEN j ELSE j + 1
<1>7. \A j \in 1 .. n - 1 : Was(j) \in 1 .. n /\ Was(j) # p /\ new[j] = list[Was(j)]
  BY <1>3, <1>4
<1>8. \A i, j \in 1 .. n - 1 : Was(i) = Was(j) => i = j
  BY <1>3
<1>9. ASSUME NEW l \in 1 .. n, l # p PROVE \E j \in 1 .. n - 1 : Was(j) = l
  <2>1. CASE l < p
    <3>1. l \in 1 .. n - 1 /\ Was(l) = l
      BY <1>3, <2>1
    <3> QED
      BY <3>1
  <2>2. CASE ~(l < p)
    <3>1. l - 1 \in 1 .. n - 1 /\ Was(l - 1) = l
      BY <1>3, <1>9, <2>2
    <3> QED
      BY <3>1
  <2> QED
    BY <2>1, <2>2
<1> HIDE DEF Was
<1>10. ASSUME NEW c \in Table!Lists,
              NEW i \in 1 .. Len(entries'[c]), NEW j \in 1 .. Len(entries'[c])
       PROVE  /\ Table!List(entries'[c][i][1]) = c
              /\ entries'[c][i][1] = entries'[c][j][1] => i = j
  <2>1. CASE c # b
    BY <1>1, <1>5, <2>1 DEF Chained
  <2>2. CASE c = b
    <3>1. i \in 1 .. n - 1 /\ j \in 1 .. n - 1
      BY <1>4, <1>5, <2>2
    <3>2. new[i][1] = new[j][1] => i = j
      BY <1>6, <1>7, <1>8, <3>1
    <3>3. Table!List(new[i][1]) = b
      BY <1>6, <1>7, <3>1
    <3> QED
      BY <1>5, <2>2, <3>2, <3>3
  <2> QED
    BY <2>1, <2>2
<1>11. Chained'
  BY <1>5, <1>10 DEF Chained, Table!List, Table!Lists
<1>12. FindsKeys'
  <2>1. Chained' => FindsKeys'
    BY FindIs, PTL
  <2> QED
    BY <1>11, <2>1
<1>13. Table!Find(k)' = 0
  <2>1. Chain(k)' = new
    BY <1>5 DEF Chain, b, Table!List
  <2>2. ASSUME NEW i \in 1 .. Len(new), new[i][1] = k PROVE FALSE
    <3>1. i \in 1 .. n - 1
      BY <1>4
    <3> QED
      BY <1>3, <1>6, <1>7, <2>2, <3>1
  <2> QED
    BY <1>12, <2>1, <2>2 DEF FindsKeys
<1>14. ASSUME NEW d \in Items, d # k
       PROVE  /\ Table!Find(d)' # 0 <=> Table!Find(d) # 0
              /\ Table!Find(d) # 0 =>
                   Chain(d)'[Table!Find(d)'] = Chain(d)[Table!Find(d)]
  <2>1. Table!List(d) \in Table!Lists /\ Table!List(d)' = Table!List(d)
    BY ListOfKey DEF Table!List
  <2>2. CASE Table!List(d) # b
    <3>1. Chain(d)' = Chain(d)
      BY <1>5, <2>1, <2>2 DEF Chain
    <3>2. Table!Find(d)' = Table!Find(d)
      BY <2>1, <3>1 DEF Table!Find, Chain
    <3> QED
      BY <3>1, <3>2
  <2>3. CASE Table!List(d) = b
    <3>1. Chain(d) = list /\ Chain(d)' = new
      BY <1>5, <2>1, <2>3 DEF Chain, list
    <3>2. CASE \E l \in 1 .. n : list[l][1] = d
      <4>1. PICK l \in 1 .. n : list[l][1] = d
        BY <3>2
      <4>2. PICK j \in 1 .. n - 1 : Was(j) = l
        BY <1>3, <1>9, <1>14, <4>1
      <4>3. new[j] = list[l] /\ j \in 1 .. Len(new) /\ new[j][1] = d
        BY <1>4, <1>7, <4>1, <4>2
      <4>4. Table!Find(d) = l
        BY <1>1, <3>1, <4>1 DEF FindsKeys, n
      <4>5. Table!Find(d)' = j
        BY <1>12, <3>1, <4>3 DEF FindsKeys
      <4>6. l # 0 /\ j # 0
        BY <1>3
      <4> QED
        BY <3>1, <4>3, <4>4, <4>5, <4>6
    <3>3. CASE \A l \in 1 .. n : list[l][1] # d
      <4>1. Table!Find(d) = 0
        BY <1>1, <3>1, <3>3 DEF FindsKeys, n
      <4>2. \A j \in 1 .. Len(new) : new[j][1] # d
        BY <1>4, <1>7, <3>3
      <4>3. Table!Find(d)' = 0
        BY <1>12, <3>1, <4>2 DEF FindsKeys
      <4> QED
        BY <4>1, <4>3
    <3> QED
      BY <3>2, <3>3
  <2> QED
    BY <2>2, <2>3
<1>15. KeysFound' = KeysFound \ {k} /\ k \in KeysFound
  BY <1>13, <1>14 DEF KeysFound
<1>16. list[p] \in Items \X Items /\ MapOf[k] = list[p][2]
  BY <1>3 DEF MapOf, list, p, b, n
<1>17. TableInv'
  <2>1. IsFiniteSet(KeysFound \ {k})
        /\ Cardinality(KeysFound \ {k}) = Cardinality(KeysFound) - 1
    BY <1>1, <1>15, FS_RemoveElement
  <2>2. found' \in Items
    BY <1>2, <1>16
  <2> QED
    BY <1>1, <1>2, <1>11, <1>15, <2>1, <2>2 DEF TableInv
<1>18. MapOf' = [MapOf EXCEPT ![k] = None]
  <2>1. MapOf'[k] = None
    BY <1>13 DEF MapOf
  <2>2. ASSUME NEW d \in Items, d # k PROVE MapOf'[d] = MapOf[d]
    BY <1>14, <2>2 DEF MapOf, Chain
  <2>3. /\ MapOf' = [d \in Items |-> MapOf'[d]]
        /\ [MapOf EXCEPT ![k] = None] = [d \in Items |-> IF d = k THEN None ELSE MapOf[d]]
    BY DEF MapOf
  <2> QED
    BY <2>1, <2>2, <2>3
<1>19. QED
  BY <1>2, <1>15, <1>16, <1>17, <1>18

LEMMA MapsToItems ==
  ASSUME TableInv, NEW k \in Items
  PROVE  /\ Table!Find(k) # 0 => MapOf[k] \in Items
         /\ Table!Find(k) = 0 => MapOf[k] = None
<1>1. Chained /\ FindsKeys
  BY FindIs DEF TableInv
<1>2. Chain(k) \in Seq(Items \X Items)
  BY <1>1, ListOfKey DEF Chained, Chain
<1>3. ASSUME Table!Find(k) # 0 PROVE MapOf[k] \in Items
  <2>1. Table!Find(k) \in 1 .. Len(Chain(k))
    BY <1>1, <1>3 DEF FindsKeys
  <2>2. Chain(k)[Table!Find(k)] \in Items \X Items
    BY <1>2, <2>1
  <2>3. MapOf[k] = Chain(k)[Table!Find(k)][2]
    BY <1>3 DEF MapOf, Chain
  <2> QED
    BY <2>2, <2>3
<1>4. QED
  BY <1>3 DEF MapOf

LEMMA SameLists ==
  ASSUME TableInv, UNCHANGED <<entries, tableSize>>, found' \in Items \cup {None}
  PROVE  TableInv' /\ KeysFound' = KeysFound /\ MapOf' = MapOf
<1>1. KeysFound' = KeysFound /\ MapOf' = MapOf
  BY DEF KeysFound, MapOf, Table!Find, Table!List
<1>2. Chained'
  BY DEF TableInv, Chained, Table!List
<1>3. QED
  BY <1>1, <1>2 DEF TableInv

\* What each call of the table does to it and to the map it stands for.
LEMMA CallInsert ==
  ASSUME TableInv, NEW k \in Items, Table!Insert(k, k)
  PROVE  /\ TableInv'
         /\ KeysFound' = KeysFound \cup {k}
         /\ Table!Abstract!Next
<1>1. CASE Table!Find(k) = 0
  <2>1. TableInv' /\ KeysFound' = KeysFound \cup {k} /\ MapOf' = [MapOf EXCEPT ![k] = k]
    BY <1>1, InsertChains
  <2>2. MapOf[k] = None /\ MapOf \in [Items -> {MapOf[d] : d \in Items}] /\ found' = None
    BY <1>1, MapsToItems DEF MapOf, Table!Insert
  <2>3. MapOf'[k] = k
    BY <2>1, <2>2
  <2>4. Table!Abstract!Add(k)
    BY <2>1, <2>2, <2>3 DEF Table!Abstract!Add, MapOf
  <2> QED
    BY <2>1, <2>4 DEF Table!Abstract!Next
<1>2. CASE Table!Find(k) # 0
  <2>1. UNCHANGED <<entries, tableSize>> /\ found' = None
    BY <1>2 DEF Table!Insert, Table!Contains
  <2>2. TableInv' /\ KeysFound' = KeysFound /\ MapOf' = MapOf
    BY <2>1, SameLists
  <2>3. k \in KeysFound /\ MapOf[k] # None
    BY <1>2, MapsToItems, PriorityAssumption DEF KeysFound
  <2>4. Table!Abstract!Keep(k)
    BY <2>1, <2>2, <2>3 DEF Table!Abstract!Keep, MapOf
  <2> QED
    BY <2>2, <2>3, <2>4 DEF Table!Abstract!Next
<1>3. QED
  BY <1>1, <1>2

LEMMA CallRetrieve ==
  ASSUME TableInv, NEW k \in Items, Table!Retrieve(k)
  PROVE  /\ TableInv'
         /\ KeysFound' = KeysFound
         /\ Table!Abstract!Next
<1>1. UNCHANGED <<entries, tableSize>> /\ found' = MapOf[k]
  BY DEF Table!Retrieve, MapOf
<1>2. TableInv' /\ KeysFound' = KeysFound /\ MapOf' = MapOf
  BY <1>1, SameLists, MapsToItems
<1>3. Table!Abstract!Retrieve(k)
  BY <1>1, <1>2 DEF Table!Abstract!Retrieve, MapOf
<1>4. QED
  BY <1>2, <1>3 DEF Table!Abstract!Next

LEMMA CallRemove ==
  ASSUME TableInv, NEW k \in Items, Table!Remove(k)
  PROVE  /\ TableInv'
         /\ KeysFound' = KeysFound \ {k}
         /\ Table!Abstract!Next
<1>1. CASE Table!Find(k) = 0
  <2>1. UNCHANGED <<entries, tableSize>> /\ found' = None
    BY <1>1 DEF Table!Remove
  <2>2. TableInv' /\ KeysFound' = KeysFound /\ MapOf' = MapOf
    BY <2>1, SameLists
  <2>3. k \notin KeysFound /\ MapOf[k] = None
    BY <1>1, MapsToItems DEF KeysFound
  <2>4. Table!Abstract!Retrieve(k)
    BY <2>1, <2>2, <2>3 DEF Table!Abstract!Retrieve, MapOf
  <2> QED
    BY <2>2, <2>3, <2>4 DEF Table!Abstract!Next
<1>2. CASE Table!Find(k) # 0
  <2>1. /\ TableInv' /\ KeysFound' = KeysFound \ {k}
        /\ found' = MapOf[k] /\ MapOf' = [MapOf EXCEPT ![k] = None]
    BY <1>2, RemoveUnchains
  <2>2. Table!Abstract!Remove(k)
    BY <2>1 DEF Table!Abstract!Remove, MapOf
  <2> QED
    BY <2>1, <2>2 DEF Table!Abstract!Next
<1>3. QED
  BY <1>1, <1>2
-----------------------------------------------------------------------------
(* Heap and table together.                                                *)

\* Every step of the composition is a step of the heap: all theorems above hold
\* of it.
THEOREM TableUsesHeap == TableSpec => Spec
<1>1. TableInit => Init
  BY DEF TableInit
<1>2. TableNext => Next
  BY DEF TableNext, InsertFirst, InsertAgain, UpdateFound, RemoveRoot, Sift, FinishBoth, Next
<1>3. [TableNext]_<<vars, table>> => [Next]_vars
  BY <1>2
<1> QED
  BY <1>1, <1>3, PTL DEF TableSpec, Spec

Indexed == {d \in Items : index[d] # None}

\* The table holds the items of the heap.
Listed == pc # "overflow" => KeysFound = Indexed

LEMMA TableStart == TableInit => TableInv /\ Listed
<1> SUFFICES ASSUME TableInit PROVE TableInv /\ Listed
  OBVIOUS
<1>1. /\ entries = [b \in Table!Lists |-> <<>>] /\ tableSize = 0 /\ found = None
      /\ index = [d \in Items |-> None]
  BY DEF TableInit, Table!Init, Init
<1>2. Chained
  BY <1>1 DEF Chained
<1>3. \A k \in Items : Chain(k) = <<>>
  BY <1>1, ListOfKey DEF Chain
<1>4. FindsKeys
  BY <1>2, FindIs
<1>5. KeysFound = {}
  BY <1>3, <1>4 DEF FindsKeys, KeysFound
<1>6. IsFiniteSet({}) /\ Cardinality({}) = 0
  BY FS_EmptySet
<1>7. QED
  BY <1>1, <1>2, <1>5, <1>6 DEF TableInv, Listed, Indexed

\* Which items the table must hold after a step of the heap.
LEMMA SwapIndexes ==
  ASSUME HeapInv, NEW i \in 0 .. size - 1, NEW j \in 0 .. size - 1, Swap(i, j)
  PROVE  Indexed' = Indexed /\ data[i] \in Items
<1>1. /\ size \in Nat /\ size <= Held /\ Held \in 0 .. Capacity /\ Placed(Held)
      /\ Capacity \in Nat
  <2>1. size \in Nat /\ Capacity \in Nat /\ Held \in 0 .. Capacity /\ Placed(Held)
    BY PriorityAssumption, PlaceInvPlaces DEF HeapInv, TypeOK
  <2>2. Held = size \/ Held = size + 1
    BY DEF Held
  <2> QED
    BY <2>1, <2>2
<1>2. i \in 0 .. Held - 1 /\ j \in 0 .. Held - 1
  BY <1>1
<1>3. \A d \in Items : index'[d] # None <=> index[d] # None
  BY <1>1, <1>2, SwapPlaces DEF HeapInv
<1>4. data[i] \in Items
  <2>1. i \in Positions /\ i < size
    BY <1>1 DEF Positions
  <2> QED
    BY <2>1 DEF HeapInv, TypeOK
<1>5. QED
  BY <1>3, <1>4 DEF Indexed

LEMMA SiftIndexes ==
  ASSUME HeapInv, Up \/ Down
  PROVE  Indexed' = Indexed /\ data[at] \in Items
<1>1. size \in Nat /\ at \in Nat
  BY PriorityAssumption DEF HeapInv, TypeOK, Positions
<1>2. CASE Up
  <2>1. at # 0 /\ at < size /\ Swap(at, Parent(at))
    BY <1>2 DEF Up, AboveIsLarger, HeapInv, PlaceInv, Sifting
  <2>2. Parent(at) \in Nat /\ Parent(at) < at
    BY <1>1, <2>1, ParentChild
  <2>3. at \in 0 .. size - 1 /\ Parent(at) \in 0 .. size - 1
    BY <1>1, <2>1, <2>2
  <2> QED
    BY <2>1, <2>3, SwapIndexes
<1>3. CASE Down
  <2>1. Minimum(at) # at /\ Swap(at, Minimum(at)) /\ at \in Positions /\ TypeOK
    BY <1>3 DEF Down, HeapInv, TypeOK
  <2>2. Minimum(at) \in 1 .. size - 1 /\ Parent(Minimum(at)) = at
    BY <2>1, MinimumIsLeast
  <2>3. Minimum(at) \in Nat /\ Minimum(at) # 0
    BY <1>1, <2>2
  <2>4. at < Minimum(at)
    BY <2>2, <2>3, ParentChild
  <2>5. at \in 0 .. size - 1 /\ Minimum(at) \in 0 .. size - 1
    BY <1>1, <2>2, <2>4
  <2> QED
    BY <2>1, <2>5, SwapIndexes
<1>4. QED
  BY <1>2, <1>3

LEMMA InsertIndexes ==
  ASSUME HeapInv, NEW d \in Items, NEW s \in Scores, InsertNew(d, s)
  PROVE  Indexed' = Indexed \cup {d}
<1>1. index' = [index EXCEPT ![d] = Unset] /\ index \in [Items -> Positions \cup {None, Unset}]
  BY DEF InsertNew, HeapInv, TypeOK
<1>2. Unset # None
  BY PriorityAssumption DEF Unset
<1>3. QED
  BY <1>1, <1>2 DEF Indexed

LEMMA FinishIndexes ==
  ASSUME HeapInv, Finish
  PROVE  IF item = None
         THEN returned \in Items /\ Indexed' = Indexed \ {returned}
         ELSE Indexed' = Indexed
<1>1. /\ index \in [Items -> Positions \cup {None, Unset}] /\ Sifting /\ size \in Nat
      /\ Capacity \in Nat /\ at \in Nat /\ item \in Items \cup {None}
      /\ Held \in 0 .. Capacity /\ Placed(Held) /\ None \notin Int /\ None \notin Items
  BY PriorityAssumption, PlaceInvPlaces DEF Finish, HeapInv, TypeOK, Sifting, Positions
<1>2. CASE item = None
  <2>1. /\ index' = [index EXCEPT ![returned] = None]
        /\ data[size] = returned /\ Held = size + 1
    BY <1>1, <1>2 DEF Finish, HeapInv, PlaceInv, Held
  <2>2. size \in Positions /\ size < Held
    BY <1>1, <2>1 DEF Positions
  <2>3. returned \in Items
    BY <2>1, <2>2, <1>1 DEF Placed, HeapInv, TypeOK
  <2> QED
    BY <1>1, <1>2, <2>1, <2>3 DEF Indexed
<1>3. CASE item # None
  <2>1. /\ index' = [index EXCEPT ![item] = at]
        /\ data[at] = item /\ Held = size /\ at < size /\ item \in Items
    BY <1>1, <1>3 DEF Finish, HeapInv, PlaceInv, Held
  <2>2. at \in 0 .. Held - 1
    BY <1>1, <2>1
  <2>3. index[item] # None /\ at # None
    BY <1>1, <2>1, <2>2 DEF Placed
  <2> QED
    BY <1>1, <1>3, <2>1, <2>3 DEF Indexed
<1>4. QED
  BY <1>2, <1>3

LEMMA TableStep ==
  ASSUME HeapInv, TableInv, Listed, [TableNext]_<<vars, table>>
  PROVE  TableInv' /\ Listed' /\ [Table!Abstract!Next]_(Table!Abstract!mapVars)
<1> DEFINE Goal == TableInv' /\ Listed' /\ [Table!Abstract!Next]_(Table!Abstract!mapVars)
<1>1. ASSUME UNCHANGED table, Indexed' = Indexed, pc # "overflow" \/ pc' = "overflow"
      PROVE  Goal
  <2>1. UNCHANGED <<entries, tableSize>> /\ found' = found /\ found \in Items \cup {None}
    BY <1>1 DEF table, TableInv
  <2>2. TableInv' /\ KeysFound' = KeysFound /\ MapOf' = MapOf
    BY <2>1, SameLists
  <2>3. UNCHANGED Table!Abstract!mapVars
    BY <2>1, <2>2 DEF Table!Abstract!mapVars, MapOf
  <2> QED
    BY <1>1, <2>2, <2>3 DEF Listed
<1>2. ASSUME UNCHANGED <<vars, table>> PROVE Goal
  BY <1>1, <1>2 DEF vars, Indexed
<1>3. ASSUME NEW d \in Items, NEW s \in Scores, InsertFirst(d, s) PROVE Goal
  <2>1. /\ TableInv' /\ KeysFound' = KeysFound \cup {d} /\ Table!Abstract!Next
        /\ InsertNew(d, s) \/ InsertBeyond(d)
    BY <1>3, CallInsert DEF InsertFirst
  <2>2. CASE InsertNew(d, s)
    <3>1. Indexed' = Indexed \cup {d} /\ pc = "idle"
      BY <2>2, InsertIndexes DEF InsertNew
    <3> QED
      BY <2>1, <3>1 DEF Listed
  <2>3. CASE InsertBeyond(d)
    BY <2>1, <2>3 DEF InsertBeyond, Listed
  <2> QED
    BY <2>1, <2>2, <2>3
<1>4. ASSUME NEW d \in Items, NEW s \in Scores, Update(d, s)
      PROVE  Indexed' = Indexed /\ pc = "idle"
  BY <1>4 DEF Update, Indexed
<1>5. ASSUME NEW d \in Items, NEW s \in Scores, InsertAgain(d, s) PROVE Goal
  <2>1. /\ TableInv' /\ KeysFound' = KeysFound \cup {d} /\ Table!Abstract!Next
        /\ d \in KeysFound /\ Update(d, s)
    BY <1>5, CallInsert DEF InsertAgain, KeysFound
  <2> QED
    BY <1>4, <2>1 DEF Listed
<1>6. ASSUME NEW d \in Items, NEW s \in Scores, UpdateFound(d, s) PROVE Goal
  <2>1. /\ TableInv' /\ KeysFound' = KeysFound /\ Table!Abstract!Next /\ Update(d, s)
    BY <1>6, CallRetrieve DEF UpdateFound
  <2> QED
    BY <1>4, <2>1 DEF Listed
<1>7. ASSUME RemoveRoot PROVE Goal
  <2>1. Remove /\ Table!Retrieve(data[0])
    BY <1>7 DEF RemoveRoot
  <2>2. 0 \in 0 .. size - 1 /\ Last \in 0 .. size - 1
    BY <2>1 DEF Remove, HeapInv, TypeOK, Last
  <2>3. Indexed' = Indexed /\ data[0] \in Items /\ pc = "idle"
    BY <2>1, <2>2, SwapIndexes DEF Remove
  <2>4. TableInv' /\ KeysFound' = KeysFound /\ Table!Abstract!Next
    BY <2>1, <2>3, CallRetrieve
  <2> QED
    BY <2>3, <2>4 DEF Listed
<1>8. ASSUME RemoveNone, UNCHANGED table PROVE Goal
  <2>1. Indexed' = Indexed /\ pc = "idle"
    BY <1>8 DEF RemoveNone, Indexed
  <2> QED
    BY <1>1, <1>8, <2>1
<1>9. ASSUME Sift PROVE Goal
  <2>1. Indexed' = Indexed /\ data[at] \in Items /\ pc # "overflow"
    BY <1>9, SiftIndexes DEF Sift, Up, Down
  <2>2. TableInv' /\ KeysFound' = KeysFound /\ Table!Abstract!Next
    BY <1>9, <2>1, CallRetrieve DEF Sift
  <2> QED
    BY <2>1, <2>2 DEF Listed
<1>10. ASSUME FinishBoth PROVE Goal
  <2>1. Finish /\ pc # "overflow"
    BY <1>10 DEF FinishBoth, Finish
  <2>2. CASE item = None
    <3>1. returned \in Items /\ Indexed' = Indexed \ {returned}
      BY <2>1, <2>2, FinishIndexes
    <3>2. TableInv' /\ KeysFound' = KeysFound \ {returned} /\ Table!Abstract!Next
      BY <1>10, <2>2, <3>1, CallRemove DEF FinishBoth
    <3> QED
      BY <2>1, <3>1, <3>2 DEF Listed
  <2>3. CASE item # None
    <3>1. Indexed' = Indexed /\ UNCHANGED table
      BY <1>10, <2>1, <2>3, FinishIndexes DEF FinishBoth
    <3> QED
      BY <1>1, <2>1, <3>1
  <2> QED
    BY <2>2, <2>3
<1> HIDE DEF Goal
<1>11. Goal
  BY <1>2, <1>3, <1>5, <1>6, <1>7, <1>8, <1>9, <1>10 DEF TableNext
<1>12. QED
  BY <1>11 DEF Goal

LEMMA TableInvariant == TableSpec => [](HeapInv /\ TableInv /\ Listed)
<1>1. TableSpec => []HeapInv
  BY TableUsesHeap, HeapInvariant, PTL
<1>2. HeapInv /\ TableInv /\ Listed /\ [TableNext]_<<vars, table>> => TableInv' /\ Listed'
  BY TableStep
<1> QED
  BY <1>1, <1>2, TableStart, PTL DEF TableSpec

\* priority.c: the table holds exactly the items of the heap, so the listener of
\* a swap finds a cell for both items, and both are well formed.
THEOREM TableAgreesWithHeap == TableSpec => []TableAgrees
<1>1. ASSUME HeapInv, TableInv, Listed PROVE TableAgrees
  <2>1. Table!TypeOK
    <3>1. Table!Cardinality(KeysFound) = Cardinality(KeysFound)
      BY DEF Cardinality, Table!Cardinality
    <3> QED
      BY <1>1, <3>1 DEF TableInv, Chained, KeysFound, Table!TypeOK
  <2>2. ASSUME pc # "overflow", NEW d \in Items
        PROVE  Table!Find(d) # 0 <=> \E i \in Positions : data[i] = d
    <3>1. Table!Find(d) # 0 <=> index[d] # None
      BY <1>1, <2>2 DEF Listed, KeysFound, Indexed
    <3>2. Placed(Held) /\ Held \in 0 .. Capacity /\ Capacity \in Nat
      BY <1>1, PlaceInvPlaces, PriorityAssumption DEF HeapInv
    <3>3. (\E i \in Positions : data[i] = d) <=> \E i \in 0 .. Held - 1 : data[i] = d
      <4>1. ASSUME NEW i \in Positions, data[i] = d PROVE i \in 0 .. Held - 1
        <5>1. data[i] # None
          BY <4>1, PriorityAssumption
        <5>2. i < Held /\ i \in Nat
          BY <3>2, <5>1 DEF Placed, Positions
        <5> QED
          BY <3>2, <5>2
      <4>2. \A i \in 0 .. Held - 1 : i \in Positions
        BY <3>2 DEF Positions
      <4> QED
        BY <4>1, <4>2
    <3> QED
      BY <3>1, <3>2, <3>3 DEF Placed
  <2> QED
    BY <1>1, <2>1, <2>2 DEF TableAgrees, HeapInv
<1> QED
  BY <1>1, TableInvariant, PTL

\* lookup.c: the chained table is a map, whatever the hash function, the number
\* of lists and the order of insertions and removals.
THEOREM TableImplementsMap == TableSpec => TableIsMap
<1>1. TableInit => Table!Abstract!Init
  <2> SUFFICES ASSUME TableInit PROVE Table!Abstract!Init
    OBVIOUS
  <2>1. TableInv /\ Listed /\ index = [d \in Items |-> None] /\ pc = "idle" /\ found = None
    BY TableStart DEF TableInit, Init, Table!Init
  <2>2. KeysFound = {}
    BY <2>1 DEF Listed, Indexed
  <2>3. MapOf = [k \in Items |-> None]
    BY <2>2 DEF MapOf, KeysFound
  <2> QED
    BY <2>1, <2>3 DEF Table!Abstract!Init, MapOf
<1>2. HeapInv /\ TableInv /\ Listed /\ [TableNext]_<<vars, table>>
        => [Table!Abstract!Next]_(Table!Abstract!mapVars)
  BY TableStep
<1>3. QED
  BY <1>1, <1>2, TableInvariant, PTL
     DEF TableSpec, TableIsMap, Table!Implements, Table!Abstract!Spec

\* The properties of the heap hold of the composition.
COROLLARY PriorityQueueCorrect ==
  TableSpec => [](HeapOrder /\ IndexRight) /\ Implements
BY TableUsesHeap, HeapOrdered, IndicesRight, HeapImplementsLeastScore, PTL
=============================================================================
