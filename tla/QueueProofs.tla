----------------------------- MODULE QueueProofs ----------------------------
(***************************************************************************)
(* Proofs about Queue, for any capacity and any number of producers: the   *)
(* type invariant, the agreement of the three counts, and that the ring    *)
(* implements the bounded FIFO.                                            *)
(*                                                                         *)
(* Arithmetic modulo the capacity is confined to the first two lemmas.     *)
(***************************************************************************)
EXTENDS Queue, SequenceTheorems, TLAPS

\* At most one producer is between its store and its unlock, the counts agree,
\* and there is an element at every position the ring says is occupied.
Occupied == \A i \in 1 .. size : Nth(i) \in Items

IInv == TypeOK /\ MutexOwner /\ CountsAgree /\ Occupied

-----------------------------------------------------------------------------
(* Positions of the ring.                                                  *)

\* The position that is j after f, for j up to the capacity.
LEMMA Position ==
  ASSUME NEW f \in Positions, NEW j \in 0 .. Capacity
  PROVE  (f + j) % Capacity = IF f + j < Capacity THEN f + j ELSE f + j - Capacity
<1>1. Capacity \in Nat \ {0}
  BY QueueAssumption
<1>2. CASE f + j < Capacity
  BY <1>1, <1>2, SMT DEF Positions
<1>3. CASE ~(f + j < Capacity)
  BY <1>1, <1>3, SMT DEF Positions
<1>4. QED
  BY <1>2, <1>3

\* Positions stay on the ring, and two that are less than the capacity apart
\* differ.
LEMMA PositionsDiffer ==
  ASSUME NEW f \in Positions, NEW i \in 0 .. Capacity - 1, NEW j \in 0 .. Capacity - 1
  PROVE  /\ (f + i) % Capacity \in Positions
         /\ i # j => (f + i) % Capacity # (f + j) % Capacity
<1>1. Capacity \in Nat \ {0} /\ i \in 0 .. Capacity /\ j \in 0 .. Capacity
  BY QueueAssumption
<1>2. (f + i) % Capacity = IF f + i < Capacity THEN f + i ELSE f + i - Capacity
  BY <1>1, Position
<1>3. (f + j) % Capacity = IF f + j < Capacity THEN f + j ELSE f + j - Capacity
  BY <1>1, Position
<1>4. QED
  BY <1>1, <1>2, <1>3, SMT DEF Positions

\* The position after the j-th one is the next one, counted from either end.
LEMMA AfterPosition ==
  ASSUME NEW f \in Positions, NEW j \in 0 .. Capacity - 1
  PROVE  /\ After(f) \in Positions
         /\ After((f + j) % Capacity) = (f + (j + 1)) % Capacity
         /\ (After(f) + j) % Capacity = (f + (j + 1)) % Capacity
<1>1. /\ Capacity \in Nat \ {0}
      /\ 1 \in 0 .. Capacity /\ j \in 0 .. Capacity /\ j + 1 \in 0 .. Capacity
      /\ 0 \in 0 .. Capacity - 1
  BY QueueAssumption
<1>2. (f + j) % Capacity \in Positions
  BY <1>1, PositionsDiffer
<1>3. (f + j) % Capacity = IF f + j < Capacity THEN f + j ELSE f + j - Capacity
  BY <1>1, Position
<1>4. (f + (j + 1)) % Capacity
        = IF f + (j + 1) < Capacity THEN f + (j + 1) ELSE f + (j + 1) - Capacity
  BY <1>1, Position
<1>5. After(f) = IF f + 1 < Capacity THEN f + 1 ELSE f + 1 - Capacity
  BY <1>1, Position DEF After
<1>6. After(f) \in Positions
  BY <1>1, <1>5, SMT DEF Positions
<1>7. (After(f) + j) % Capacity
        = IF After(f) + j < Capacity THEN After(f) + j ELSE After(f) + j - Capacity
  BY <1>1, <1>6, Position
<1>8. After((f + j) % Capacity)
        = IF ((f + j) % Capacity) + 1 < Capacity
          THEN ((f + j) % Capacity) + 1 ELSE ((f + j) % Capacity) + 1 - Capacity
  BY <1>1, <1>2, Position DEF After
<1>9. After((f + j) % Capacity) = (f + (j + 1)) % Capacity
  BY <1>1, <1>2, <1>3, <1>4, <1>8, SMT DEF Positions
<1>10. (After(f) + j) % Capacity = (f + (j + 1)) % Capacity
  BY <1>1, <1>4, <1>5, <1>7, SMT DEF Positions
<1>11. QED
  BY <1>6, <1>9, <1>10
-----------------------------------------------------------------------------
(* The invariant.                                                          *)

LEMMA QueueInit == Init => IInv
<1> SUFFICES ASSUME Init PROVE IInv
  OBVIOUS
<1>1. Capacity \in Nat \ {0} /\ 0 \in Positions /\ 0 \in 0 .. Capacity
  BY QueueAssumption DEF Positions
<1>2. TypeOK
  BY <1>1, QueueAssumption DEF Init, TypeOK
<1>3. MutexOwner
  BY QueueAssumption DEF Init, MutexOwner
<1>4. (0 + 0) % Capacity = 0
  BY <1>1, Position, SMT
<1>5. CountsAgree
  BY <1>4 DEF Init, CountsAgree, Unposted, Posting, Claimed
<1>6. Occupied
  BY DEF Init, Occupied
<1>7. QED
  BY <1>2, <1>3, <1>5, <1>6 DEF IInv

\* What the invariant says at the steps that hold the mutex or take it.
LEMMA WhoPosts ==
  ASSUME IInv
  PROVE  /\ mutex = None => ~Posting /\ Unposted = 0
         /\ \A p \in Producers : pc[p] = "post" =>
              /\ Posting /\ Unposted = 1
              /\ \A q \in Producers \ {p} : pc[q] = "idle"
<1>1. \A p \in Producers : p # None
  BY QueueAssumption
<1>2. \A p \in Producers : mutex = p <=> pc[p] # "idle"
  BY DEF IInv, MutexOwner
<1>3. mutex = None => ~Posting
  BY <1>1, <1>2 DEF Posting
<1>4. \A p \in Producers : pc[p] = "post" =>
        Posting /\ \A q \in Producers \ {p} : pc[q] = "idle"
  BY <1>2 DEF Posting
<1>5. QED
  BY <1>3, <1>4 DEF Unposted

\* An element is stored behind the others, at a position none of them is at.
LEMMA StoreRing ==
  ASSUME IInv, NEW p \in Producers, NEW x \in Items, Store(p, x)
  PROVE  /\ data' \in [Positions -> Items \cup {None}]
         /\ back' \in Positions /\ size' \in 1 .. Capacity
         /\ back' = (front' + size') % Capacity
         /\ \A i \in 1 .. size : Nth(i)' = Nth(i)
         /\ Nth(size)' = x
<1>1. /\ Capacity \in Nat \ {0} /\ size \in 0 .. Capacity - 1
      /\ front \in Positions /\ back \in Positions
      /\ data \in [Positions -> Items \cup {None}]
      /\ back = (front + size) % Capacity
  BY QueueAssumption, SMT DEF IInv, TypeOK, CountsAgree, Store, HasRoom
<1>2. /\ data' = [data EXCEPT ![back] = x]
      /\ back' = After(back) /\ size' = size + 1 /\ front' = front
  BY DEF Store
<1>3. back' = (front' + size') % Capacity
  BY <1>1, <1>2, AfterPosition
<1>4. back' \in Positions
  BY <1>1, <1>2, AfterPosition
<1>5. ASSUME NEW i \in 1 .. size PROVE Nth(i)' = Nth(i)
  <2>1. i - 1 \in 0 .. Capacity - 1 /\ i - 1 # size /\ front + i - 1 = front + (i - 1)
    BY <1>1, SMT DEF Positions
  <2>2. (front + (i - 1)) % Capacity # back
    BY <1>1, <2>1, PositionsDiffer
  <2>3. (front + (i - 1)) % Capacity \in Positions
    BY <1>1, <2>1, PositionsDiffer
  <2>4. data'[(front + (i - 1)) % Capacity] = data[(front + (i - 1)) % Capacity]
    BY <1>1, <1>2, <2>2, <2>3
  <2>5. QED
    BY <1>2, <2>1, <2>4 DEF Nth
<1>6. Nth(size)' = x
  <2>1. front + (size + 1) - 1 = front + size
    BY <1>1, SMT DEF Positions
  <2>2. data'[back] = x
    BY <1>1, <1>2
  <2>3. QED
    BY <1>1, <1>2, <2>1, <2>2 DEF Nth
<1>7. data' \in [Positions -> Items \cup {None}] /\ size' \in 1 .. Capacity
  BY <1>1, <1>2, SMT
<1>8. QED
  BY <1>3, <1>4, <1>5, <1>6, <1>7

\* The oldest element goes, and every other one moves up by one.
LEMMA TakeRing ==
  ASSUME IInv, TakeFront
  PROVE  /\ size \in 1 .. Capacity /\ size' = size - 1
         /\ front' \in Positions
         /\ back = (front' + size') % Capacity
         /\ item' = Nth(1) /\ Nth(1) \in Items
         /\ \A i \in 1 .. size' : Nth(i)' = Nth(i + 1)
<1>1. /\ Capacity \in Nat \ {0} /\ size \in 0 .. Capacity /\ empty \in Nat
      /\ front \in Positions
      /\ Claimed = 1 /\ size = empty + Unposted + Claimed
      /\ back = (front + size) % Capacity
  BY QueueAssumption DEF IInv, TypeOK, CountsAgree, TakeFront, Claimed
<1>2. Unposted \in {0, 1}
  BY DEF Unposted
<1>3. size \in 1 .. Capacity /\ size - 1 \in 0 .. Capacity - 1 /\ (size - 1) + 1 = size
  BY <1>1, <1>2, SMT
<1>4. /\ item' = data[front] /\ front' = After(front) /\ size' = size - 1
      /\ data' = data
  BY DEF TakeFront
<1>5. front' \in Positions /\ back = (front' + size') % Capacity
  BY <1>1, <1>3, <1>4, AfterPosition
<1>6. item' = Nth(1)
  <2>1. front + 1 - 1 = front + 0 /\ 0 \in 0 .. Capacity /\ front + 0 < Capacity /\ front + 0 = front
    BY <1>1, SMT DEF Positions
  <2>2. (front + 0) % Capacity = front
    BY <1>1, <2>1, Position
  <2>3. QED
    BY <1>4, <2>1, <2>2 DEF Nth
<1>7. Nth(1) \in Items
  BY <1>3, SMT DEF IInv, Occupied
<1>8. ASSUME NEW i \in 1 .. size' PROVE Nth(i)' = Nth(i + 1)
  <2>1. /\ i - 1 \in 0 .. Capacity - 1 /\ (i - 1) + 1 = i
        /\ front + (i + 1) - 1 = front + i /\ After(front) + i - 1 = After(front) + (i - 1)
    <3>1. After(front) \in Int /\ front \in Int
      BY <1>1, <1>4, <1>5, SMT DEF Positions
    <3>2. QED
      BY <1>1, <1>3, <1>4, <3>1, SMT
  <2>2. (After(front) + (i - 1)) % Capacity = (front + ((i - 1) + 1)) % Capacity
    BY <1>1, <2>1, AfterPosition
  <2>3. QED
    BY <1>4, <2>1, <2>2 DEF Nth
<1>9. QED
  BY <1>3, <1>4, <1>5, <1>6, <1>7, <1>8
-----------------------------------------------------------------------------

LEMMA EnqueueStep ==
  ASSUME IInv, NEW p \in Producers, Enqueue(p)
  PROVE  IInv'
<1>0. /\ TypeOK /\ MutexOwner /\ CountsAgree /\ Occupied
      /\ \A q \in Producers : q # None
      /\ pc[p] \in {"idle", "post", "unlock"}
  BY QueueAssumption DEF IInv, TypeOK
<1>1. ASSUME NEW x \in Items, Store(p, x) PROVE IInv'
  <2>1. /\ mutex' = p /\ pc[p] = "idle" /\ mutex = None
        /\ pc' = [pc EXCEPT ![p] = "post"]
        /\ UNCHANGED <<front, empty, dpc, item, lost>>
    BY <1>1 DEF Store
  <2>2. /\ data' \in [Positions -> Items \cup {None}]
        /\ back' \in Positions /\ size' \in 1 .. Capacity
        /\ back' = (front' + size') % Capacity
        /\ \A i \in 1 .. size : Nth(i)' = Nth(i)
        /\ Nth(size)' = x
    BY <1>1, StoreRing
  <2>3. TypeOK'
    BY <1>0, <2>1, <2>2, QueueAssumption, SMT DEF TypeOK
  <2>4. MutexOwner'
    BY <1>0, <2>1 DEF TypeOK, MutexOwner
  <2>5. Unposted = 0 /\ Unposted' = 1 /\ Claimed' = Claimed
    <3>1. pc'[p] = "post"
      BY <1>0, <2>1 DEF TypeOK
    <3>2. QED
      BY <2>1, <3>1, WhoPosts DEF Unposted, Posting, Claimed
  <2>6. CountsAgree'
    <3>1. size' = size + 1
      BY <1>1 DEF Store
    <3>2. Claimed \in {0, 1} /\ empty \in Nat
      BY <1>0 DEF Claimed, TypeOK
    <3>3. size' = empty' + Unposted' + Claimed'
      BY <1>0, <2>1, <2>5, <3>1, <3>2, SMT DEF CountsAgree
    <3>4. QED
      BY <2>2, <3>3 DEF CountsAgree
  <2>7. Occupied'
    <3>1. size' = size + 1 /\ size \in 0 .. Capacity
      BY <1>0, <1>1 DEF Store, TypeOK
    <3>2. ASSUME NEW i \in 1 .. size' PROVE Nth(i)' \in Items
      <4>1. CASE i \in 1 .. size
        BY <1>0, <2>2, <4>1 DEF Occupied
      <4>2. CASE i \notin 1 .. size
        <5>1. i = size'
          BY <3>1, <4>2, QueueAssumption, SMT
        <5>2. QED
          BY <2>2, <5>1
      <4>3. QED
        BY <4>1, <4>2
    <3>3. QED
      BY <3>2 DEF Occupied
  <2>8. QED
    BY <2>3, <2>4, <2>6, <2>7 DEF IInv
<1>2. ASSUME NEW x \in Items, Overflow(p, x) PROVE IInv'
  <2>1. UNCHANGED <<data, front, back, size, empty, mutex, pc, dpc, item>> /\ lost' = lost \cup {x}
    BY <1>2 DEF Overflow, ring
  <2>2. TypeOK'
    BY <1>0, <2>1 DEF TypeOK
  <2>3. MutexOwner' /\ CountsAgree' /\ Occupied'
    BY <1>0, <2>1
       DEF MutexOwner, CountsAgree, Occupied, Nth, Unposted, Posting, Claimed
  <2>4. QED
    BY <2>2, <2>3 DEF IInv
<1>3. CASE Post(p)
  <2>1. /\ pc[p] = "post" /\ pc' = [pc EXCEPT ![p] = "unlock"] /\ empty' = empty + 1
        /\ UNCHANGED <<data, front, back, size, mutex, dpc, item, lost>>
    BY <1>3 DEF Post, SemPost, ring
  <2>2. TypeOK'
    BY <1>0, <2>1, SMT DEF TypeOK
  <2>3. MutexOwner'
    BY <1>0, <2>1 DEF TypeOK, MutexOwner
  <2>4. Unposted = 1 /\ Unposted' = 0 /\ Claimed' = Claimed
    <3>1. Unposted = 1 /\ \A q \in Producers \ {p} : pc[q] = "idle"
      BY <2>1, WhoPosts
    <3>2. \A q \in Producers : pc'[q] # "post"
      BY <1>0, <2>1, <3>1 DEF TypeOK
    <3>3. QED
      BY <2>1, <3>1, <3>2 DEF Unposted, Posting, Claimed
  <2>5. CountsAgree'
    <3>1. Claimed \in {0, 1} /\ empty \in Nat
      BY <1>0 DEF Claimed, TypeOK
    <3>2. size' = empty' + Unposted' + Claimed'
      BY <1>0, <2>1, <2>4, <3>1, SMT DEF CountsAgree
    <3>3. QED
      BY <1>0, <2>1, <3>2 DEF CountsAgree
  <2>6. Occupied'
    BY <1>0, <2>1 DEF Occupied, Nth
  <2>7. QED
    BY <2>2, <2>3, <2>5, <2>6 DEF IInv
<1>4. CASE Unlock(p)
  <2>1. /\ pc[p] = "unlock" /\ pc' = [pc EXCEPT ![p] = "idle"] /\ mutex' = None
        /\ UNCHANGED <<data, front, back, size, empty, dpc, item, lost>>
    BY <1>4 DEF Unlock, ring
  <2>2. TypeOK'
    BY <1>0, <2>1 DEF TypeOK
  <2>3. mutex = p
    BY <1>0, <2>1 DEF MutexOwner
  <2>4. MutexOwner'
    BY <1>0, <2>1, <2>3 DEF TypeOK, MutexOwner
  <2>5. Posting' <=> Posting
    BY <1>0, <2>1 DEF TypeOK, Posting
  <2>6. CountsAgree' /\ Occupied'
    BY <1>0, <2>1, <2>5 DEF CountsAgree, Occupied, Nth, Unposted, Claimed
  <2>7. QED
    BY <2>2, <2>4, <2>6 DEF IInv
<1>5. QED
  BY <1>1, <1>2, <1>3, <1>4 DEF Enqueue

LEMMA DequeueStep ==
  ASSUME IInv, Dequeue
  PROVE  IInv'
<1>0. /\ TypeOK /\ MutexOwner /\ CountsAgree /\ Occupied
      /\ empty \in Nat
  BY DEF IInv, TypeOK
<1>1. CASE NothingThere
  <2>1. item' = None /\ UNCHANGED <<data, front, back, size, empty, mutex, pc, dpc, lost>>
    BY <1>1 DEF NothingThere, ring
  <2>2. TypeOK'
    BY <1>0, <2>1 DEF TypeOK
  <2>3. MutexOwner' /\ CountsAgree' /\ Occupied'
    BY <1>0, <2>1
       DEF MutexOwner, CountsAgree, Occupied, Nth, Unposted, Posting, Claimed
  <2>4. QED
    BY <2>2, <2>3 DEF IInv
<1>2. CASE TryWait
  <2>1. /\ dpc = "idle" /\ dpc' = "take" /\ empty > 0 /\ empty' = empty - 1
        /\ UNCHANGED <<data, front, back, size, mutex, pc, item, lost>>
    BY <1>2 DEF TryWait, ring
  <2>2. TypeOK'
    BY <1>0, <2>1, SMT DEF TypeOK
  <2>3. MutexOwner' /\ Occupied'
    BY <1>0, <2>1 DEF MutexOwner, Occupied, Nth
  <2>4. CountsAgree'
    <3>1. Claimed = 0 /\ Claimed' = 1 /\ Unposted' = Unposted /\ Unposted \in {0, 1}
      BY <2>1 DEF Claimed, Unposted, Posting
    <3>2. size' = empty' + Unposted' + Claimed'
      BY <1>0, <2>1, <3>1, SMT DEF CountsAgree
    <3>3. QED
      BY <1>0, <2>1, <3>2 DEF CountsAgree
  <2>5. QED
    BY <2>2, <2>3, <2>4 DEF IInv
<1>3. CASE TakeFront
  <2>1. /\ dpc = "take" /\ dpc' = "idle" /\ UNCHANGED <<data, back, empty, mutex, pc, lost>>
    BY <1>3 DEF TakeFront
  <2>2. /\ size \in 1 .. Capacity /\ size' = size - 1
        /\ front' \in Positions
        /\ back = (front' + size') % Capacity
        /\ item' = Nth(1) /\ Nth(1) \in Items
        /\ \A i \in 1 .. size' : Nth(i)' = Nth(i + 1)
    BY <1>3, TakeRing
  <2>3. size' \in 0 .. Capacity /\ \A i \in 1 .. size' : i + 1 \in 1 .. size
    BY <2>2, QueueAssumption, SMT
  <2>4. TypeOK'
    BY <1>0, <2>1, <2>2, <2>3 DEF TypeOK
  <2>5. MutexOwner'
    BY <1>0, <2>1 DEF MutexOwner
  <2>6. CountsAgree'
    <3>1. Claimed = 1 /\ Claimed' = 0 /\ Unposted' = Unposted /\ Unposted \in {0, 1}
      BY <2>1 DEF Claimed, Unposted, Posting
    <3>2. size' = empty' + Unposted' + Claimed'
      BY <1>0, <2>1, <2>2, <3>1, SMT DEF CountsAgree
    <3>3. QED
      BY <2>1, <2>2, <3>2 DEF CountsAgree
  <2>7. Occupied'
    BY <1>0, <2>2, <2>3 DEF Occupied
  <2>8. QED
    BY <2>4, <2>5, <2>6, <2>7 DEF IInv
<1>4. QED
  BY <1>1, <1>2, <1>3 DEF Dequeue

LEMMA QueueStep == IInv /\ [Next]_vars => IInv'
<1> SUFFICES ASSUME IInv, [Next]_vars PROVE IInv'
  OBVIOUS
<1>1. ASSUME NEW p \in Producers, Enqueue(p) PROVE IInv'
  BY <1>1, EnqueueStep
<1>2. CASE Dequeue
  BY <1>2, DequeueStep
<1>3. CASE UNCHANGED vars
  <2>1. UNCHANGED <<data, front, back, size, empty, mutex, pc, dpc, item, lost>>
    BY <1>3 DEF vars, ring
  <2>2. QED
    BY <2>1 DEF IInv, TypeOK, MutexOwner, CountsAgree, Occupied, Nth, Unposted,
                Posting, Claimed
<1>4. QED
  BY <1>1, <1>2, <1>3 DEF Next

\* The invariant holds in every state of queue.c.
THEOREM QueueInvariant == Spec => []IInv
<1>1. Init => IInv
  BY QueueInit
<1>2. IInv /\ [Next]_vars => IInv'
  BY QueueStep
<1>3. QED
  BY <1>1, <1>2, PTL DEF Spec

\* Every variable of the queue always holds a value of its type: above all, the
\* size never exceeds the ring and the semaphore never goes below zero.
THEOREM QueueTypeCorrect == Spec => []TypeOK
<1>1. IInv => TypeOK
  BY DEF IInv
<1>2. QED
  BY <1>1, QueueInvariant, PTL

\* The indices, the size and the semaphore agree whatever enqueue and dequeue
\* do in between: sem_trywait without the mutex is sound.
THEOREM QueueCountsAgree == Spec => []CountsAgree
<1>1. IInv => CountsAgree
  BY DEF IInv
<1>2. QED
  BY <1>1, QueueInvariant, PTL
-----------------------------------------------------------------------------
(* The refinement.                                                         *)

\* A sequence is the function that has its elements.
LEMMA SequenceIs ==
  ASSUME NEW n \in Nat, NEW s \in Seq(Items), Len(s) = n,
         NEW t \in [1 .. n -> Items], \A i \in 1 .. n : s[i] = t[i]
  PROVE  s = t
<1>1. s \in [1 .. n -> Items]
  BY LenProperties
<1>2. QED
  BY <1>1

\* What the elements on the queue are, before and after a step that changes
\* them in a known way.
LEMMA ContentsAre ==
  ASSUME IInv
  PROVE  /\ size - Unposted \in Nat
         /\ Contents \in Seq(Items)
         /\ Len(Contents) = size - Unposted
         /\ \A i \in 1 .. size - Unposted : Contents[i] = Nth(i)
<1>1. /\ size \in Nat /\ empty \in Nat /\ Unposted \in {0, 1} /\ Claimed \in {0, 1}
      /\ size = empty + Unposted + Claimed
  BY QueueAssumption, SMT DEF IInv, TypeOK, CountsAgree, Unposted, Claimed
<1>2. size - Unposted \in Nat /\ \A i \in 1 .. size - Unposted : i \in 1 .. size
  BY <1>1, SMT
<1>3. \A i \in 1 .. size - Unposted : Nth(i) \in Items
  BY <1>2 DEF IInv, Occupied
<1>4. Contents \in [1 .. size - Unposted -> Items]
  BY <1>3 DEF Contents
<1>5. Contents \in Seq(Items) /\ Len(Contents) = size - Unposted
  BY <1>2, <1>4
<1>6. QED
  BY <1>2, <1>5 DEF Contents

\* A step that leaves the ring alone and the posted elements the same.
LEMMA ContentsSame ==
  ASSUME UNCHANGED <<data, front, size>>, Unposted' = Unposted
  PROVE  Contents' = Contents
BY DEF Contents, Nth

LEMMA EnqueueRefines ==
  ASSUME IInv, IInv', NEW p \in Producers, Enqueue(p)
  PROVE  [Abstract!Next]_(Abstract!fifoVars)
<1>1. ASSUME NEW x \in Items, Store(p, x) PROVE UNCHANGED <<Contents, item, lost>>
  <2>1. mutex = None /\ pc[p] = "idle" /\ pc' = [pc EXCEPT ![p] = "post"] /\ size' = size + 1
    BY <1>1 DEF Store
  <2>2. Unposted = 0
    BY <2>1, WhoPosts
  <2>3. pc'[p] = "post"
    BY <2>1 DEF IInv, TypeOK
  <2>4. Unposted' = 1
    BY <2>3 DEF Unposted, Posting
  <2>5. size \in 0 .. Capacity
    BY DEF IInv, TypeOK
  <2>6. size' - Unposted' = size - Unposted /\ size - Unposted = size
    BY <2>1, <2>2, <2>4, <2>5, QueueAssumption, SMT
  <2>7. \A i \in 1 .. size : Nth(i)' = Nth(i)
    BY <1>1, StoreRing
  <2>8. Contents' = Contents
    BY <2>6, <2>7 DEF Contents
  <2>9. QED
    BY <1>1, <2>8 DEF Store
<1>2. ASSUME NEW x \in Items, Overflow(p, x) PROVE Abstract!Drop(x)
  <2>1. mutex = None /\ ~(size < Capacity) /\ lost' = lost \cup {x}
        /\ UNCHANGED <<data, front, size, pc, item>>
    BY <1>2 DEF Overflow, HasRoom, ring
  <2>2. Unposted = 0 /\ Unposted' = Unposted
    BY <2>1, WhoPosts DEF Unposted, Posting
  <2>3. size \in 0 .. Capacity
    BY DEF IInv, TypeOK
  <2>4. size - Unposted = Capacity
    BY <2>1, <2>2, <2>3, QueueAssumption, SMT
  <2>5. Len(Contents) = Capacity
    BY <2>4, ContentsAre
  <2>6. Contents' = Contents
    BY <2>1, <2>2, ContentsSame
  <2>7. QED
    BY <2>1, <2>5, <2>6 DEF Abstract!Drop
<1>3. CASE Post(p)
  <2>1. /\ pc[p] = "post" /\ pc' = [pc EXCEPT ![p] = "unlock"]
        /\ UNCHANGED <<data, front, size, item, lost>>
    BY <1>3 DEF Post, ring
  <2>2. Unposted = 1 /\ \A q \in Producers \ {p} : pc[q] = "idle"
    BY <2>1, WhoPosts
  <2>3. \A q \in Producers : pc'[q] # "post"
    BY <2>1, <2>2 DEF IInv, TypeOK
  <2>4. Unposted' = 0
    BY <2>3 DEF Unposted, Posting
  <2>5. size \in 0 .. Capacity
    BY DEF IInv, TypeOK
  <2>6. /\ size \in 1 .. Capacity /\ size - Unposted = size - 1 /\ size' - Unposted' = size
        /\ (size - 1) + 1 = size
    <3>1. size - Unposted \in Nat
      BY ContentsAre
    <3>2. QED
      BY <2>1, <2>2, <2>4, <2>5, <3>1, QueueAssumption, SMT
  <2>7. Nth(size) \in Items
    BY <2>6 DEF IInv, Occupied
  <2>8. /\ Contents \in Seq(Items) /\ Len(Contents) = size - 1
        /\ \A i \in 1 .. size - 1 : Contents[i] = Nth(i)
    BY <2>6, ContentsAre
  <2>9. Contents' = [i \in 1 .. size |-> Nth(i)]
    BY <2>1, <2>6 DEF Contents, Nth
  <2>10. Contents' = Append(Contents, Nth(size))
    <3>1. /\ Append(Contents, Nth(size)) \in Seq(Items)
          /\ Len(Append(Contents, Nth(size))) = size
      BY <2>6, <2>7, <2>8, SMT
    <3>2. \A i \in 1 .. size : Append(Contents, Nth(size))[i] = Nth(i)
      BY <2>6, <2>7, <2>8, SMT
    <3>3. [i \in 1 .. size |-> Nth(i)] \in [1 .. size -> Items] /\ size \in Nat
      BY <2>5 DEF IInv, Occupied
    <3>4. Append(Contents, Nth(size)) = [i \in 1 .. size |-> Nth(i)]
      BY <3>1, <3>2, <3>3, SequenceIs
    <3>5. QED
      BY <2>9, <3>4
  <2>11. Len(Contents) < Capacity
    BY <2>6, <2>8, QueueAssumption, SMT
  <2>12. Abstract!Put(Nth(size))
    BY <2>1, <2>10, <2>11 DEF Abstract!Put
  <2>13. QED
    BY <2>7, <2>12 DEF Abstract!Next
<1>4. CASE Unlock(p)
  <2>1. /\ pc[p] = "unlock" /\ pc' = [pc EXCEPT ![p] = "idle"]
        /\ UNCHANGED <<data, front, size, item, lost>>
    BY <1>4 DEF Unlock, ring
  <2>2. Unposted' = Unposted
    BY <2>1 DEF IInv, TypeOK, Unposted, Posting
  <2>3. QED
    BY <2>1, <2>2, ContentsSame DEF Abstract!fifoVars
<1>5. QED
  BY <1>1, <1>2, <1>3, <1>4 DEF Enqueue, Abstract!Next, Abstract!fifoVars

LEMMA DequeueRefines ==
  ASSUME IInv, IInv', Dequeue
  PROVE  [Abstract!Next]_(Abstract!fifoVars)
<1>1. CASE NothingThere
  <2>1. /\ dpc = "idle" /\ empty = 0 /\ item' = None
        /\ UNCHANGED <<data, front, size, pc, lost>>
    BY <1>1 DEF NothingThere, ring
  <2>2. Claimed = 0 /\ Unposted' = Unposted /\ Unposted \in {0, 1}
    BY <2>1 DEF Claimed, Unposted, Posting
  <2>3. size - Unposted = 0
    BY <2>1, <2>2, SMT DEF IInv, CountsAgree
  <2>4. Contents = <<>>
    BY <2>3, ContentsAre
  <2>5. Contents' = Contents
    BY <2>1, <2>2, ContentsSame
  <2>6. Abstract!Empty
    BY <2>1, <2>4, <2>5 DEF Abstract!Empty
  <2>7. QED
    BY <2>6 DEF Abstract!Next
<1>2. CASE TryWait
  <2>1. UNCHANGED <<data, front, size, pc, item, lost>>
    BY <1>2 DEF TryWait, ring
  <2>2. Unposted' = Unposted
    BY <2>1 DEF Unposted, Posting
  <2>3. QED
    BY <2>1, <2>2, ContentsSame DEF Abstract!fifoVars
<1>3. CASE TakeFront
  <2>1. mutex = None /\ UNCHANGED <<pc, lost>>
    BY <1>3 DEF TakeFront
  <2>2. /\ size \in 1 .. Capacity /\ size' = size - 1
        /\ item' = Nth(1)
        /\ \A i \in 1 .. size' : Nth(i)' = Nth(i + 1)
    BY <1>3, TakeRing
  <2>3. Unposted = 0 /\ Unposted' = 0
    BY <2>1, WhoPosts DEF Unposted, Posting
  <2>4. size - Unposted = size /\ size' - Unposted' = size - 1 /\ size >= 1 /\ size \in Nat
    BY <2>2, <2>3, QueueAssumption, SMT
  <2>5. /\ Contents \in Seq(Items) /\ Len(Contents) = size
        /\ \A i \in 1 .. size : Contents[i] = Nth(i)
    BY <2>4, ContentsAre
  <2>6. Contents # <<>> /\ Head(Contents) = Nth(1)
    BY <2>4, <2>5, SMT
  <2>7. Contents' = [i \in 1 .. size - 1 |-> Nth(i + 1)]
    BY <2>2, <2>4 DEF Contents
  <2>8. Tail(Contents) = [i \in 1 .. size - 1 |-> Nth(i + 1)]
    <3>1. /\ Tail(Contents) \in Seq(Items) /\ Len(Tail(Contents)) = size - 1
          /\ \A i \in 1 .. size - 1 : Tail(Contents)[i] = Contents[i + 1]
      BY <2>4, <2>5, <2>6, SMT
    <3>2. \A i \in 1 .. size - 1 : Contents[i + 1] = Nth(i + 1)
      BY <2>4, <2>5, SMT
    <3>3. size - 1 \in Nat /\ \A i \in 1 .. size - 1 : i + 1 \in 1 .. size
      BY <2>4, SMT
    <3>4. [i \in 1 .. size - 1 |-> Nth(i + 1)] \in [1 .. size - 1 -> Items]
      BY <3>3 DEF IInv, Occupied
    <3>5. QED
      BY <3>1, <3>2, <3>3, <3>4, SequenceIs
  <2>9. Abstract!Take
    BY <2>1, <2>2, <2>6, <2>7, <2>8 DEF Abstract!Take
  <2>10. QED
    BY <2>9 DEF Abstract!Next
<1>4. QED
  BY <1>1, <1>2, <1>3 DEF Dequeue

\* queue.c implements the bounded FIFO: for every capacity and every number of
\* threads, an enqueue takes effect when it posts the semaphore, a dequeue when
\* it takes the element, and an overflow when the full ring is seen.
THEOREM RingImplementsFifo == Spec => Implements
<1>1. Init => Abstract!Init
  <2> SUFFICES ASSUME Init PROVE Abstract!Init
    OBVIOUS
  <2>1. IInv
    BY QueueInit
  <2>2. size - Unposted = 0
    <3>1. size = 0 /\ ~Posting
      BY DEF Init, Posting
    <3>2. Unposted = 0
      BY <3>1, Zenon DEF Unposted
    <3>3. QED
      BY <3>1, <3>2, SMT
  <2>3. Contents = <<>>
    BY <2>1, <2>2, ContentsAre
  <2>4. QED
    BY <2>3 DEF Init, Abstract!Init
<1>2. IInv /\ IInv' /\ [Next]_vars => [Abstract!Next]_(Abstract!fifoVars)
  <2> SUFFICES ASSUME IInv, IInv', [Next]_vars
               PROVE  [Abstract!Next]_(Abstract!fifoVars)
    OBVIOUS
  <2>1. ASSUME NEW p \in Producers, Enqueue(p) PROVE [Abstract!Next]_(Abstract!fifoVars)
    BY <2>1, EnqueueRefines
  <2>2. CASE Dequeue
    BY <2>2, DequeueRefines
  <2>3. CASE UNCHANGED vars
    <3>1. UNCHANGED <<data, front, size, pc, item, lost>>
      BY <2>3 DEF vars, ring
    <3>2. QED
      BY <3>1, ContentsSame DEF Unposted, Posting, Abstract!fifoVars
  <2>4. QED
    BY <2>1, <2>2, <2>3 DEF Next
<1>3. QED
  BY <1>1, <1>2, QueueInvariant, PTL DEF Spec, Implements, Abstract!Spec
=============================================================================
