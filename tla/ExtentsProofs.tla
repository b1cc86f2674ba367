---------------------------- MODULE ExtentsProofs ---------------------------
(***************************************************************************)
(* Proofs about Extents, for files of any size and lists of any length:    *)
(* the type invariant, the order of the list, and that the list implements *)
(* the set of dirty bytes.                                                 *)
(***************************************************************************)
EXTENDS Extents, TLAPS

\* The intervals i and j are in order, with a gap between them.
Apart(i, j) == list[i][2] < list[j][1]

\* No interval ends more than one before it begins.
Proper == \A i \in 1 .. Len(list) : list[i][1] <= list[i][2] + 1

\* Any two intervals are apart, except that the one that is being merged may
\* reach into those behind it, none of which begins before it.
Order ==
  \A i, j \in 1 .. Len(list) :
    i < j => IF pc = "absorb" /\ i = at THEN list[i][1] <= list[j][1] ELSE Apart(i, j)

\* The first loop has gone past intervals that end below the new one.
Passed ==
  pc = "scan" =>
    /\ new[1] <= new[2] + 1
    /\ \A i \in 1 .. Len(list) : i < at => list[i][2] < new[1]

IInv == TypeOK /\ Proper /\ Order /\ Passed

-----------------------------------------------------------------------------
(* The ends of the intervals, as numbers.                                  *)

LEMMA Ends ==
  ASSUME TypeOK
  PROVE  /\ Len(list) \in Nat
         /\ \A i \in 1 .. Len(list) :
              /\ list[i] \in Intervals
              /\ list[i][1] \in Nat /\ list[i][2] \in Nat
              /\ list[i][1] <= MaxOffset /\ list[i][2] <= MaxOffset
         /\ pc # "idle" =>
              /\ new \in Intervals
              /\ new[1] \in Nat /\ new[2] \in Nat
              /\ new[1] <= MaxOffset /\ new[2] <= MaxOffset
              /\ at \in 1 .. Len(list) + 1
<1>1. list \in Seq(Intervals) /\ Len(list) \in Nat
  BY DEF TypeOK
<1>2. \A e \in Intervals : /\ e[1] \in Nat /\ e[2] \in Nat
                           /\ e[1] <= MaxOffset /\ e[2] <= MaxOffset
  BY ExtentsAssumption DEF Intervals, Offsets
<1>3. \A i \in 1 .. Len(list) : list[i] \in Intervals
  BY <1>1
<1>4. pc # "idle" => new \in Intervals /\ at \in 1 .. Len(list) + 1
  BY DEF TypeOK
<1>5. QED
  BY <1>1, <1>2, <1>3, <1>4

\* An interval that is the hull of two is an interval.
LEMMA Hull ==
  ASSUME NEW d \in Intervals, NEW e \in Intervals
  PROVE  /\ <<Min2(d[1], e[1]), Max2(d[2], e[2])>> \in Intervals
         /\ <<d[1], Max2(d[2], e[2])>> \in Intervals
<1>1. d[1] \in Offsets /\ d[2] \in Offsets /\ e[1] \in Offsets /\ e[2] \in Offsets
  BY DEF Intervals
<1>2. Min2(d[1], e[1]) \in Offsets /\ Max2(d[2], e[2]) \in Offsets
  BY <1>1, Zenon DEF Min2, Max2
<1>3. QED
  BY <1>1, <1>2 DEF Intervals

-----------------------------------------------------------------------------
(* What the steps do to the list.                                          *)

LEMMA MergeList ==
  ASSUME TypeOK, Merge
  PROVE  /\ at \in 1 .. Len(list) /\ pc' = "absorb" /\ at' = at
         /\ new[1] <= list[at][2] /\ list[at][1] <= new[2]
         /\ list' \in Seq(Intervals) /\ Len(list') = Len(list)
         /\ \A i \in 1 .. Len(list) : i # at => list'[i] = list[i]
         /\ list'[at][1] = Min2(list[at][1], new[1])
         /\ list'[at][2] = Max2(list[at][2], new[2])
<1>1. /\ at <= Len(list) /\ list[at][1] <= new[2]
      /\ ~(list[at][2] < new[1])
      /\ pc = "scan" /\ pc' = "absorb" /\ at' = at
      /\ list' = [list EXCEPT ![at] = <<Min2(@[1], new[1]), Max2(@[2], new[2])>>]
  BY DEF Merge, Passes, Meets
<1>2. /\ at \in 1 .. Len(list) + 1 /\ new \in Intervals /\ Len(list) \in Nat
      /\ new[1] \in Nat /\ new[2] \in Nat
  BY <1>1, Ends
<1>3. at \in 1 .. Len(list)
  BY <1>1, <1>2, SMT
<1>4. list[at] \in Intervals /\ list[at][1] \in Nat /\ list[at][2] \in Nat
  BY <1>3, Ends
<1>5. new[1] <= list[at][2]
  BY <1>1, <1>2, <1>4, SMT
<1>6. <<Min2(list[at][1], new[1]), Max2(list[at][2], new[2])>> \in Intervals
  BY <1>2, <1>4, Hull
<1>7. list \in Seq(Intervals)
  BY DEF TypeOK
<1>8. list' = [list EXCEPT ![at] = <<Min2(list[at][1], new[1]), Max2(list[at][2], new[2])>>]
  BY <1>1
<1>9. /\ list' \in Seq(Intervals) /\ Len(list') = Len(list)
      /\ \A i \in 1 .. Len(list) : i # at => list'[i] = list[i]
      /\ list'[at] = <<Min2(list[at][1], new[1]), Max2(list[at][2], new[2])>>
  BY <1>3, <1>6, <1>7, <1>8
<1>10. QED
  BY <1>1, <1>3, <1>5, <1>9

LEMMA InsertList ==
  ASSUME TypeOK, Insert
  PROVE  /\ at \in 1 .. Len(list) + 1 /\ pc' = "idle" /\ at' = 1 /\ new' = None
         /\ at <= Len(list) => new[2] < list[at][1]
         /\ list' \in Seq(Intervals) /\ Len(list') = Len(list) + 1
         /\ \A i \in 1 .. Len(list) + 1 :
              list'[i] = IF i < at THEN list[i] ELSE IF i = at THEN new ELSE list[i - 1]
<1>1. /\ pc = "scan" /\ ~Meets
      /\ pc' = "idle" /\ at' = 1 /\ new' = None
      /\ list' = [i \in 1 .. Len(list) + 1 |->
                    IF i < at THEN list[i] ELSE IF i = at THEN new ELSE list[i - 1]]
  BY DEF Insert
<1>2. /\ at \in 1 .. Len(list) + 1 /\ new \in Intervals /\ Len(list) \in Nat
      /\ new[1] \in Nat /\ new[2] \in Nat
  BY <1>1, Ends
<1>3. at <= Len(list) => new[2] < list[at][1]
  <2> SUFFICES ASSUME at <= Len(list) PROVE new[2] < list[at][1]
    OBVIOUS
  <2>1. at \in 1 .. Len(list)
    BY <1>2, SMT
  <2>2. list[at][1] \in Nat
    BY <2>1, Ends
  <2>3. ~(list[at][1] <= new[2])
    BY <1>1 DEF Meets
  <2>4. QED
    BY <1>2, <2>2, <2>3, SMT
<1>4. ASSUME NEW i \in 1 .. Len(list) + 1
      PROVE  (IF i < at THEN list[i] ELSE IF i = at THEN new ELSE list[i - 1]) \in Intervals
  <2>1. CASE i < at
    <3>1. i \in 1 .. Len(list)
      BY <1>2, <2>1, SMT
    <3>2. QED
      BY <2>1, <3>1, Ends
  <2>2. CASE i = at
    BY <1>2, <2>2, SMT
  <2>3. CASE ~(i < at) /\ i # at
    <3>1. i - 1 \in 1 .. Len(list)
      BY <1>2, <2>3, SMT
    <3>2. list[i - 1] \in Intervals
      BY <3>1, Ends
    <3>3. QED
      BY <2>3, <3>2
  <2>4. QED
    BY <2>1, <2>2, <2>3
<1>5. list' \in [1 .. Len(list) + 1 -> Intervals] /\ Len(list) + 1 \in Nat
  BY <1>1, <1>2, <1>4
<1>6. list' \in Seq(Intervals) /\ Len(list') = Len(list) + 1
  BY <1>5
<1>7. QED
  BY <1>1, <1>2, <1>3, <1>6

LEMMA AbsorbList ==
  ASSUME TypeOK, Absorb
  PROVE  /\ at \in 1 .. Len(list) - 1 /\ pc = "absorb" /\ pc' = "absorb" /\ at' = at
         /\ list[at + 1][1] <= list[at][2]
         /\ list' \in Seq(Intervals) /\ Len(list') = Len(list) - 1
         /\ \A i \in 1 .. Len(list) - 1 :
              i # at => list'[i] = IF i < at THEN list[i] ELSE list[i + 1]
         /\ list'[at][1] = list[at][1]
         /\ list'[at][2] = Max2(list[at][2], list[at + 1][2])
<1>1. /\ pc = "absorb" /\ pc' = "absorb" /\ at' = at
      /\ at < Len(list) /\ list[at + 1][1] <= list[at][2]
      /\ list' = [i \in 1 .. Len(list) - 1 |->
                    IF i < at THEN list[i]
                    ELSE IF i = at THEN <<list[at][1], Max2(list[at][2], list[at + 1][2])>>
                    ELSE list[i + 1]]
  BY DEF Absorb, Touches, Stays, EndOfBoth
<1>2. at \in 1 .. Len(list) + 1 /\ Len(list) \in Nat
  BY <1>1, Ends
<1>3. /\ at \in 1 .. Len(list) - 1 /\ at \in 1 .. Len(list) /\ at + 1 \in 1 .. Len(list)
      /\ Len(list) - 1 \in Nat
      /\ \A i \in 1 .. Len(list) - 1 : i \in 1 .. Len(list) /\ i + 1 \in 1 .. Len(list)
  BY <1>1, <1>2, SMT
<1>4. \A i \in 1 .. Len(list) : list[i] \in Intervals
  BY Ends
<1>5. <<list[at][1], Max2(list[at][2], list[at + 1][2])>> \in Intervals
  BY <1>3, <1>4, Hull
<1>6. ASSUME NEW i \in 1 .. Len(list) - 1
      PROVE  (IF i < at THEN list[i]
              ELSE IF i = at THEN <<list[at][1], Max2(list[at][2], list[at + 1][2])>>
              ELSE list[i + 1]) \in Intervals
  BY <1>3, <1>4, <1>5
<1>7. list' \in [1 .. Len(list) - 1 -> Intervals]
  BY <1>1, <1>6
<1>8. list' \in Seq(Intervals) /\ Len(list') = Len(list) - 1
  BY <1>3, <1>7
<1>9. list'[at] = <<list[at][1], Max2(list[at][2], list[at + 1][2])>>
  BY <1>1, <1>2, <1>3, SMT
<1>10. \A i \in 1 .. Len(list) - 1 :
         i # at => list'[i] = IF i < at THEN list[i] ELSE list[i + 1]
  BY <1>1
<1>11. /\ list'[at][1] = list[at][1]
       /\ list'[at][2] = Max2(list[at][2], list[at + 1][2])
  BY <1>9
<1>12. QED
  BY <1>1, <1>3, <1>8, <1>10, <1>11

LEMMA PopList ==
  ASSUME TypeOK, Pop
  PROVE  /\ 1 \in 1 .. Len(list) /\ popped' = list[1]
         /\ list' \in Seq(Intervals) /\ Len(list') = Len(list) - 1
         /\ \A i \in 1 .. Len(list) - 1 : list'[i] = list[i + 1]
<1>1. list \in Seq(Intervals) /\ list # <<>> /\ popped' = Head(list) /\ list' = Tail(list)
  BY DEF TypeOK, Pop
<1>2. QED
  BY <1>1, SMT
-----------------------------------------------------------------------------
(* The invariant.                                                          *)

LEMMA ExtentsInit == Init => IInv
BY ExtentsAssumption
   DEF Init, IInv, TypeOK, Proper, Order, Passed, Apart, Intervals, Offsets

\* What the invariant says about two intervals of the list, as numbers.
LEMMA Numbers ==
  ASSUME IInv
  PROVE  /\ Len(list) \in Nat
         /\ \A i \in 1 .. Len(list) :
              list[i][1] \in Nat /\ list[i][2] \in Nat /\ list[i][1] <= list[i][2] + 1
         /\ \A i, j \in 1 .. Len(list) : i < j =>
              /\ pc # "absorb" => list[i][2] < list[j][1]
              /\ i # at => list[i][2] < list[j][1]
              /\ pc = "absorb" /\ i = at => list[i][1] <= list[j][1]
         /\ pc # "idle" => new[1] \in Nat /\ new[2] \in Nat
<1>1. TypeOK /\ Proper /\ Order
  BY DEF IInv
<1>2. /\ Len(list) \in Nat
      /\ \A i \in 1 .. Len(list) : list[i][1] \in Nat /\ list[i][2] \in Nat
      /\ pc # "idle" => new[1] \in Nat /\ new[2] \in Nat
  BY <1>1, Ends
<1>3. QED
  BY <1>1, <1>2 DEF Proper, Order, Apart

LEMMA ScanStep == ASSUME IInv, Scan PROVE IInv'
<1>1. /\ pc = "scan" /\ at <= Len(list) /\ list[at][2] < new[1] /\ at' = at + 1
      /\ UNCHANGED <<list, pc, new, popped>>
  BY DEF Scan, Passes
<1>2. TypeOK /\ Proper /\ Order /\ Passed
  BY DEF IInv
<1>3. /\ at \in 1 .. Len(list) + 1 /\ Len(list) \in Nat
  BY <1>1, <1>2, Ends
<1>4. at + 1 \in 1 .. Len(list) + 1
  BY <1>1, <1>3, SMT
<1>5. TypeOK'
  BY <1>1, <1>2, <1>4 DEF TypeOK
<1>6. Proper' /\ Order'
  BY <1>1, <1>2 DEF Proper, Order, Apart
<1>7. ASSUME NEW i \in 1 .. Len(list), i < at + 1 PROVE list[i][2] < new[1]
  <2>1. i < at \/ i = at
    BY <1>3, <1>7, SMT
  <2>2. QED
    BY <1>1, <1>2, <2>1 DEF Passed
<1>8. Passed'
  BY <1>1, <1>2, <1>7 DEF Passed
<1>9. QED
  BY <1>5, <1>6, <1>8 DEF IInv

LEMMA MergeStep == ASSUME IInv, Merge PROVE IInv'
<1>1. TypeOK /\ pc = "scan" /\ UNCHANGED <<new, popped>>
  BY DEF IInv, Merge
<1>2. /\ at \in 1 .. Len(list) /\ pc' = "absorb" /\ at' = at
      /\ list' \in Seq(Intervals) /\ Len(list') = Len(list)
      /\ \A i \in 1 .. Len(list) : i # at => list'[i] = list[i]
      /\ list'[at][1] = Min2(list[at][1], new[1])
      /\ list'[at][2] = Max2(list[at][2], new[2])
  BY <1>1, MergeList
<1>3. /\ Len(list) \in Nat
      /\ \A i \in 1 .. Len(list) :
           list[i][1] \in Nat /\ list[i][2] \in Nat /\ list[i][1] <= list[i][2] + 1
      /\ \A i, j \in 1 .. Len(list) : i < j => list[i][2] < list[j][1]
      /\ new[1] \in Nat /\ new[2] \in Nat
  BY <1>1, Numbers
<1>4. new[1] <= new[2] + 1 /\ \A i \in 1 .. Len(list) : i < at => list[i][2] < new[1]
  BY <1>1 DEF IInv, Passed
<1>5. TypeOK'
  BY <1>1, <1>2, <1>3, SMT DEF TypeOK
<1>6. list'[at][1] <= list'[at][2] + 1
  BY <1>2, <1>3, <1>4, SMT DEF Min2, Max2
<1>7. Proper'
  BY <1>2, <1>3, <1>6 DEF Proper
<1>8. ASSUME NEW i \in 1 .. Len(list), NEW j \in 1 .. Len(list), i < j
      PROVE  IF i = at THEN list'[i][1] <= list'[j][1] ELSE list'[i][2] < list'[j][1]
  <2>1. CASE i = at
    <3>1. list'[j] = list[j] /\ list[at][1] <= list[j][1]
      <4>1. j # at
        BY <1>2, <1>8, <2>1, SMT
      <4>2. list[at][2] < list[j][1]
        BY <1>3, <1>8, <2>1
      <4>3. QED
        BY <1>2, <1>3, <4>1, <4>2, SMT
    <3>2. Min2(list[at][1], new[1]) <= list[j][1]
      <4>1. /\ list[at][1] \in Nat /\ new[1] \in Nat /\ list[j][1] \in Nat
            /\ list[at][1] <= list[j][1]
        BY <1>2, <1>3, <3>1
      <4>2. QED
        BY <4>1, SMT DEF Min2
    <3>3. QED
      BY <1>2, <2>1, <3>1, <3>2
  <2>2. CASE i # at /\ j = at
    <3>1. list'[i] = list[i] /\ list[i][2] < list[at][1] /\ list[i][2] < new[1]
      BY <1>2, <1>3, <1>4, <1>8, <2>2
    <3>2. list[i][2] < Min2(list[at][1], new[1])
      BY <3>1, Zenon DEF Min2
    <3>3. QED
      BY <1>2, <2>2, <3>1, <3>2
  <2>3. CASE i # at /\ j # at
    BY <1>2, <1>3, <1>8, <2>3
  <2>4. QED
    BY <2>1, <2>2, <2>3
<1>9. Order'
  BY <1>2, <1>8 DEF Order, Apart
<1>10. Passed'
  BY <1>2 DEF Passed
<1>11. QED
  BY <1>5, <1>7, <1>9, <1>10 DEF IInv

LEMMA InsertStep == ASSUME IInv, Insert PROVE IInv'
<1>1. TypeOK /\ pc = "scan" /\ popped' = popped
  BY DEF IInv, Insert
<1>2. /\ at \in 1 .. Len(list) + 1 /\ pc' = "idle" /\ at' = 1 /\ new' = None
      /\ at <= Len(list) => new[2] < list[at][1]
      /\ list' \in Seq(Intervals) /\ Len(list') = Len(list) + 1
      /\ \A i \in 1 .. Len(list) + 1 :
           list'[i] = IF i < at THEN list[i] ELSE IF i = at THEN new ELSE list[i - 1]
  BY <1>1, InsertList
<1>3. /\ Len(list) \in Nat
      /\ \A i \in 1 .. Len(list) :
           list[i][1] \in Nat /\ list[i][2] \in Nat /\ list[i][1] <= list[i][2] + 1
      /\ \A i, j \in 1 .. Len(list) : i < j => list[i][2] < list[j][1]
      /\ new[1] \in Nat /\ new[2] \in Nat
  BY <1>1, Numbers
<1>4. new[1] <= new[2] + 1 /\ \A i \in 1 .. Len(list) : i < at => list[i][2] < new[1]
  BY <1>1 DEF IInv, Passed
<1>5. TypeOK'
  BY <1>1, <1>2, <1>3, SMT DEF TypeOK
<1>6. ASSUME NEW i \in 1 .. Len(list) + 1
      PROVE  /\ i < at => i \in 1 .. Len(list) /\ list'[i] = list[i]
             /\ i = at => list'[i] = new
             /\ i > at => /\ i - 1 \in 1 .. Len(list) /\ list'[i] = list[i - 1]
                          /\ i - 1 >= at
  BY <1>2, <1>3, SMT
<1>7. Proper'
  <2>1. ASSUME NEW i \in 1 .. Len(list) + 1 PROVE list'[i][1] <= list'[i][2] + 1
    <3>1. i < at \/ i = at \/ i > at
      BY <1>2, <1>3, SMT
    <3>2. QED
      BY <1>3, <1>4, <1>6, <3>1
  <2>2. QED
    BY <1>2, <2>1 DEF Proper
<1>8. ASSUME NEW j \in 1 .. Len(list), j >= at PROVE new[2] < list[j][1]
  <2>1. at \in 1 .. Len(list) /\ (j = at \/ at < j)
    BY <1>2, <1>3, <1>8, SMT
  <2>2. new[2] < list[at][1]
    BY <1>2, <2>1
  <2>3. CASE at < j
    <3>1. list[at][1] <= list[at][2] + 1 /\ list[at][2] < list[j][1]
      BY <1>3, <2>1, <2>3
    <3>2. QED
      BY <1>3, <2>1, <2>2, <3>1, SMT
  <2>4. QED
    BY <2>1, <2>2, <2>3
<1>9. ASSUME NEW i \in 1 .. Len(list) + 1, NEW j \in 1 .. Len(list) + 1, i < j
      PROVE  list'[i][2] < list'[j][1]
  <2>1. CASE i < at /\ j < at
    BY <1>3, <1>6, <1>9, <2>1
  <2>2. CASE i < at /\ j = at
    BY <1>4, <1>6, <2>2
  <2>3. CASE i < at /\ j > at
    <3>1. i < j - 1
      BY <1>2, <1>3, <2>3, SMT
    <3>2. QED
      BY <1>3, <1>6, <2>3, <3>1
  <2>4. CASE i = at /\ j > at
    BY <1>6, <1>8, <2>4
  <2>5. CASE i > at /\ j > at
    <3>1. i - 1 < j - 1
      BY <1>9, SMT
    <3>2. QED
      BY <1>3, <1>6, <2>5, <3>1
  <2>6. (i < at \/ i = at \/ i > at) /\ (j < at \/ j = at \/ j > at)
        /\ (i >= at => j > at)
    BY <1>2, <1>3, <1>9, SMT
  <2>7. i = at \/ i > at => i >= at
    BY <1>2, <1>3, SMT
  <2>8. QED
    BY <2>1, <2>2, <2>3, <2>4, <2>5, <2>6, <2>7, Zenon
<1>10. Order'
  BY <1>2, <1>9 DEF Order, Apart
<1>11. Passed'
  BY <1>2 DEF Passed
<1>12. QED
  BY <1>5, <1>7, <1>10, <1>11 DEF IInv

LEMMA AbsorbStep == ASSUME IInv, Absorb PROVE IInv'
<1>1. TypeOK /\ UNCHANGED <<new, popped>>
  BY DEF IInv, Absorb
<1>2. /\ at \in 1 .. Len(list) - 1 /\ pc = "absorb" /\ pc' = "absorb" /\ at' = at
      /\ list' \in Seq(Intervals) /\ Len(list') = Len(list) - 1
      /\ \A i \in 1 .. Len(list) - 1 :
           i # at => list'[i] = IF i < at THEN list[i] ELSE list[i + 1]
      /\ list'[at][1] = list[at][1]
      /\ list'[at][2] = Max2(list[at][2], list[at + 1][2])
  BY <1>1, AbsorbList
<1>3. /\ Len(list) \in Nat
      /\ \A i \in 1 .. Len(list) :
           list[i][1] \in Nat /\ list[i][2] \in Nat /\ list[i][1] <= list[i][2] + 1
      /\ \A i, j \in 1 .. Len(list) : i < j =>
           /\ i # at => list[i][2] < list[j][1]
           /\ i = at => list[i][1] <= list[j][1]
  BY <1>2, Numbers
<1>4. new \in Intervals
  BY <1>1, <1>2, Ends
<1>5. TypeOK'
  BY <1>1, <1>2, <1>3, <1>4, SMT DEF TypeOK
<1>6. ASSUME NEW i \in 1 .. Len(list) - 1
      PROVE  /\ i \in 1 .. Len(list) /\ i + 1 \in 1 .. Len(list)
             /\ i < at => list'[i] = list[i]
             /\ i > at => list'[i] = list[i + 1]
  BY <1>2, <1>3, SMT
<1>7. at \in 1 .. Len(list) /\ at + 1 \in 1 .. Len(list)
  BY <1>2, <1>6
<1>8. list'[at][1] <= list'[at][2] + 1
  BY <1>2, <1>3, <1>7, SMT DEF Max2
<1>9. Proper'
  <2>1. ASSUME NEW i \in 1 .. Len(list) - 1 PROVE list'[i][1] <= list'[i][2] + 1
    <3>1. i < at \/ i = at \/ i > at
      BY <1>2, <1>3, SMT
    <3>2. QED
      BY <1>3, <1>6, <1>8, <3>1
  <2>2. QED
    BY <1>2, <2>1 DEF Proper
<1>10. ASSUME NEW i \in 1 .. Len(list) - 1, NEW j \in 1 .. Len(list) - 1, i < j
       PROVE  IF i = at THEN list'[i][1] <= list'[j][1] ELSE list'[i][2] < list'[j][1]
  <2>1. CASE i < at /\ j < at
    <3>1. i # at
      BY <1>2, <1>3, <2>1, SMT
    <3>2. QED
      BY <1>3, <1>6, <1>10, <2>1, <3>1
  <2>2. CASE i < at /\ j = at
    <3>1. i # at
      BY <1>2, <1>3, <2>2, SMT
    <3>2. QED
      BY <1>2, <1>3, <1>6, <1>10, <2>2, <3>1
  <2>3. CASE i < at /\ j > at
    <3>1. i # at /\ i < j + 1
      BY <1>2, <1>3, <2>3, SMT
    <3>2. QED
      BY <1>3, <1>6, <2>3, <3>1
  <2>4. CASE i = at /\ j > at
    <3>1. at < j + 1
      BY <1>2, <1>3, <2>4, SMT
    <3>2. QED
      BY <1>2, <1>3, <1>6, <1>7, <2>4, <3>1
  <2>5. CASE i > at /\ j > at
    <3>1. i # at /\ i + 1 # at /\ i + 1 < j + 1
      BY <1>2, <1>3, <1>10, <2>5, SMT
    <3>2. QED
      BY <1>3, <1>6, <2>5, <3>1
  <2>6. (i < at \/ i = at \/ i > at) /\ (j < at \/ j = at \/ j > at)
        /\ (i = at \/ i > at => j > at)
    BY <1>2, <1>3, <1>10, SMT
  <2>7. QED
    BY <2>1, <2>2, <2>3, <2>4, <2>5, <2>6, Zenon
<1>11. Order'
  BY <1>2, <1>10 DEF Order, Apart
<1>12. Passed'
  BY <1>2 DEF Passed
<1>13. QED
  BY <1>5, <1>9, <1>11, <1>12 DEF IInv

LEMMA AbsorbDoneStep == ASSUME IInv, AbsorbDone PROVE IInv'
<1>1. /\ TypeOK /\ Proper /\ pc = "absorb" /\ ~Touches
      /\ pc' = "idle" /\ new' = None /\ at' = 1
      /\ UNCHANGED <<list, popped>>
  BY DEF IInv, AbsorbDone
<1>2. /\ Len(list) \in Nat
      /\ \A i \in 1 .. Len(list) :
           list[i][1] \in Nat /\ list[i][2] \in Nat /\ list[i][1] <= list[i][2] + 1
      /\ \A i, j \in 1 .. Len(list) : i < j /\ i # at => list[i][2] < list[j][1]
  BY Numbers
<1>3. at \in 1 .. Len(list) + 1
  BY <1>1, Ends
<1>4. TypeOK'
  BY <1>1, <1>2, SMT DEF TypeOK
<1>5. ASSUME NEW j \in 1 .. Len(list), at < j, at \in 1 .. Len(list)
      PROVE  list[at][2] < list[j][1]
  <2>1. at + 1 \in 1 .. Len(list) /\ at < Len(list) /\ at + 1 # at
        /\ (j = at + 1 \/ at + 1 < j)
    BY <1>2, <1>5, SMT
  <2>2. ~(list[at + 1][1] <= list[at][2])
    BY <1>1, <2>1 DEF Touches
  <2>3. list[at][2] < list[at + 1][1] /\ list[at + 1][1] <= list[at + 1][2] + 1
    BY <1>2, <1>5, <2>1, <2>2, SMT
  <2>4. CASE at + 1 < j
    <3>1. list[at + 1][2] < list[j][1]
      BY <1>2, <1>5, <2>1, <2>4
    <3>2. QED
      BY <1>2, <1>5, <2>1, <2>3, <3>1, SMT
  <2>5. QED
    BY <2>1, <2>3, <2>4
<1>6. \A i, j \in 1 .. Len(list) : i < j => list[i][2] < list[j][1]
  BY <1>2, <1>5
<1>7. Proper' /\ Order' /\ Passed'
  BY <1>1, <1>6 DEF Proper, Order, Apart, Passed
<1>8. QED
  BY <1>4, <1>7 DEF IInv

LEMMA PushBeginStep ==
  ASSUME IInv, NEW lower \in Offsets, NEW upper \in Offsets, lower <= upper + 1,
         PushBegin(lower, upper)
  PROVE  IInv'
<1>1. /\ pc = "idle" /\ pc' = "scan" /\ new' = <<lower, upper>> /\ at' = 1
      /\ UNCHANGED <<list, popped>>
  BY DEF PushBegin
<1>2. TypeOK /\ Proper /\ Order
  BY DEF IInv
<1>3. Len(list) \in Nat /\ 1 \in 1 .. Len(list) + 1
  BY <1>2, Ends, SMT
<1>4. TypeOK'
  BY <1>1, <1>2, <1>3 DEF TypeOK, Intervals
<1>5. Proper' /\ Order'
  BY <1>1, <1>2 DEF Proper, Order, Apart
<1>6. \A i \in 1 .. Len(list) : ~(i < 1)
  BY <1>3, SMT
<1>7. Passed'
  BY <1>1, <1>6 DEF Passed
<1>8. QED
  BY <1>4, <1>5, <1>7 DEF IInv

LEMMA PopStep == ASSUME IInv, Pop PROVE IInv'
<1>1. TypeOK /\ pc = "idle" /\ UNCHANGED <<pc, new, at>>
  BY DEF IInv, Pop
<1>2. /\ 1 \in 1 .. Len(list) /\ popped' = list[1]
      /\ list' \in Seq(Intervals) /\ Len(list') = Len(list) - 1
      /\ \A i \in 1 .. Len(list) - 1 : list'[i] = list[i + 1]
  BY <1>1, PopList
<1>3. /\ Len(list) \in Nat
      /\ \A i \in 1 .. Len(list) :
           list[i][1] \in Nat /\ list[i][2] \in Nat /\ list[i][1] <= list[i][2] + 1
      /\ \A i, j \in 1 .. Len(list) : i < j => list[i][2] < list[j][1]
      /\ \A i \in 1 .. Len(list) : list[i] \in Intervals
  BY <1>1, Numbers, Ends
<1>4. TypeOK'
  BY <1>1, <1>2, <1>3 DEF TypeOK
<1>5. \A i \in 1 .. Len(list) - 1 : i + 1 \in 1 .. Len(list)
  BY <1>3, SMT
<1>6. \A i, j \in 1 .. Len(list) - 1 : i < j => i + 1 < j + 1
  BY <1>3, SMT
<1>7. Proper'
  BY <1>2, <1>3, <1>5 DEF Proper
<1>8. \A i, j \in 1 .. Len(list) - 1 : i < j => list'[i][2] < list'[j][1]
  BY <1>2, <1>3, <1>5, <1>6
<1>9. Order' /\ Passed'
  BY <1>1, <1>2, <1>8 DEF Order, Apart, Passed
<1>10. QED
  BY <1>4, <1>7, <1>9 DEF IInv

LEMMA ExtentsStep == IInv /\ [Next]_vars => IInv'
<1> SUFFICES ASSUME IInv, [Next]_vars PROVE IInv'
  OBVIOUS
<1>1. ASSUME NEW lower \in Offsets, NEW upper \in Offsets, lower <= upper + 1,
             PushBegin(lower, upper)
      PROVE  IInv'
  BY <1>1, PushBeginStep
<1>2. CASE Scan
  BY <1>2, ScanStep
<1>3. CASE Merge
  BY <1>3, MergeStep
<1>4. CASE Insert
  BY <1>4, InsertStep
<1>5. CASE Absorb
  BY <1>5, AbsorbStep
<1>6. CASE AbsorbDone
  BY <1>6, AbsorbDoneStep
<1>7. CASE Pop
  BY <1>7, PopStep
<1>8. CASE PopNone \/ UNCHANGED vars
  <2>1. UNCHANGED <<list, pc, new, at>> /\ popped' \in {popped, None}
    BY <1>8 DEF PopNone, vars
  <2>2. QED
    BY <2>1 DEF IInv, TypeOK, Proper, Order, Passed, Apart
<1>9. QED
  BY <1>1, <1>2, <1>3, <1>4, <1>5, <1>6, <1>7, <1>8 DEF Next

\* The invariant holds in every state of the list.
THEOREM ExtentsInvariant == Spec => []IInv
<1>1. Init => IInv
  BY ExtentsInit
<1>2. IInv /\ [Next]_vars => IInv'
  BY ExtentsStep
<1>3. QED
  BY <1>1, <1>2, PTL DEF Spec

\* The list always holds intervals of the file, and `current` never leaves it:
\* no loop of push follows a NULL pointer.
THEOREM ExtentsTypeCorrect == Spec => []TypeOK
<1>1. IInv => TypeOK
  BY DEF IInv
<1>2. QED
  BY <1>1, ExtentsInvariant, PTL

\* Between pushes the intervals are sorted, and there is a gap between any two:
\* the write-back copies no byte twice, and makes one copy for every run.
SortedWithGaps ==
  /\ \A i \in 1 .. Len(list) : list[i][1] <= list[i][2] + 1
  /\ pc = "idle" => \A i \in 1 .. Len(list) - 1 : list[i][2] < list[i + 1][1]

\* Between pushes the list is sorted, with a gap between any two intervals, for
\* any sequence of pushes and pops.
THEOREM ExtentsSorted == Spec => []SortedWithGaps
<1>1. IInv => SortedWithGaps
  <2> SUFFICES ASSUME IInv PROVE SortedWithGaps
    OBVIOUS
  <2>1. /\ Len(list) \in Nat /\ Proper
        /\ pc = "idle" => \A i, j \in 1 .. Len(list) : i < j => list[i][2] < list[j][1]
    BY Numbers DEF IInv
  <2>2. \A i \in 1 .. Len(list) - 1 :
          i \in 1 .. Len(list) /\ i + 1 \in 1 .. Len(list) /\ i < i + 1
    BY <2>1, SMT
  <2>3. QED
    BY <2>1, <2>2 DEF SortedWithGaps, Proper
<1>2. QED
  BY <1>1, ExtentsInvariant, PTL
-----------------------------------------------------------------------------
(* The refinement.                                                         *)

\* Which bytes the intervals of a list cover.
LEMMA BytesOf ==
  ASSUME NEW s \in Seq(Intervals)
  PROVE  \A b : b \in UNION {s[i][1] .. s[i][2] - 1 : i \in 1 .. Len(s)}
                  <=> b \in Int /\ \E i \in 1 .. Len(s) : s[i][1] <= b /\ b < s[i][2]
<1>1. ASSUME NEW i \in 1 .. Len(s), NEW b
      PROVE  b \in s[i][1] .. s[i][2] - 1 <=> b \in Int /\ s[i][1] <= b /\ b < s[i][2]
  <2>1. s[i] \in Intervals
    OBVIOUS
  <2>2. s[i][1] \in Nat /\ s[i][2] \in Nat
    BY <2>1, ExtentsAssumption DEF Intervals, Offsets
  <2>3. QED
    BY <2>2, SMT
<1>2. QED
  BY <1>1

\* The bytes before and after a step.
LEMMA InCovered ==
  ASSUME IInv, IInv'
  PROVE  /\ \A b : b \in Covered <=>
              b \in Int /\ \E i \in 1 .. Len(list) : list[i][1] <= b /\ b < list[i][2]
         /\ \A b : b \in Covered' <=>
              b \in Int /\ \E i \in 1 .. Len(list') : list'[i][1] <= b /\ b < list'[i][2]
<1>1. list \in Seq(Intervals) /\ list' \in Seq(Intervals)
  BY DEF IInv, TypeOK
<1>2. QED
  BY <1>1, BytesOf DEF Covered

LEMMA MergeRefines ==
  ASSUME IInv, IInv', Merge
  PROVE  Covered' = Covered \cup (new[1] .. new[2] - 1)
<1>1. /\ at \in 1 .. Len(list)
      /\ new[1] <= list[at][2] /\ list[at][1] <= new[2]
      /\ Len(list') = Len(list)
      /\ \A i \in 1 .. Len(list) : i # at => list'[i] = list[i]
      /\ list'[at][1] = Min2(list[at][1], new[1])
      /\ list'[at][2] = Max2(list[at][2], new[2])
  BY MergeList DEF IInv
<1>2. pc = "scan" /\ new[1] <= new[2] + 1
  BY DEF Merge, IInv, Passed
<1>3. /\ new[1] \in Nat /\ new[2] \in Nat /\ list[at][1] \in Nat /\ list[at][2] \in Nat
      /\ list[at][1] <= list[at][2] + 1
  BY <1>1, <1>2, Numbers
<1>4. ASSUME NEW b \in Int
      PROVE  list'[at][1] <= b /\ b < list'[at][2] <=>
               \/ list[at][1] <= b /\ b < list[at][2]
               \/ new[1] <= b /\ b < new[2]
  <2>1. new[1] <= list[at][2] /\ list[at][1] <= new[2] /\ new[1] <= new[2] + 1
    BY <1>1, <1>2
  <2>2. /\ Min2(list[at][1], new[1]) <= b <=> list[at][1] <= b \/ new[1] <= b
        /\ b < Max2(list[at][2], new[2]) <=> b < list[at][2] \/ b < new[2]
    BY <1>3, SMT DEF Min2, Max2
  <2>3. (list[at][1] <= b \/ new[1] <= b) /\ (b < list[at][2] \/ b < new[2]) <=>
          \/ list[at][1] <= b /\ b < list[at][2]
          \/ new[1] <= b /\ b < new[2]
    BY <1>3, <2>1, SMT
  <2>4. list'[at][1] = Min2(list[at][1], new[1]) /\ list'[at][2] = Max2(list[at][2], new[2])
    BY <1>1
  <2>5. QED
    BY <2>2, <2>3, <2>4, Zenon
<1>5. ASSUME NEW b \in Int
      PROVE  (\E i \in 1 .. Len(list) : list'[i][1] <= b /\ b < list'[i][2]) <=>
               \/ \E i \in 1 .. Len(list) : list[i][1] <= b /\ b < list[i][2]
               \/ new[1] <= b /\ b < new[2]
  BY <1>1, <1>4
<1>6. \A b : b \in new[1] .. new[2] - 1 <=> b \in Int /\ new[1] <= b /\ b < new[2]
  BY <1>3, SMT
<1>7. \A b : b \in Covered' <=> b \in Covered \/ b \in new[1] .. new[2] - 1
  BY <1>1, <1>5, <1>6, InCovered
<1>8. QED
  BY <1>7

LEMMA InsertRefines ==
  ASSUME IInv, IInv', Insert
  PROVE  Covered' = Covered \cup (new[1] .. new[2] - 1)
<1>1. /\ at \in 1 .. Len(list) + 1 /\ Len(list') = Len(list) + 1
      /\ \A i \in 1 .. Len(list) + 1 :
           list'[i] = IF i < at THEN list[i] ELSE IF i = at THEN new ELSE list[i - 1]
  BY InsertList DEF IInv
<1>2. pc = "scan"
  BY DEF Insert
<1>3. Len(list) \in Nat /\ new[1] \in Nat /\ new[2] \in Nat
  BY <1>2, Numbers
<1>4. ASSUME NEW i \in 1 .. Len(list) + 1
      PROVE  \/ i \in 1 .. Len(list) /\ list'[i] = list[i]
             \/ list'[i] = new
             \/ i - 1 \in 1 .. Len(list) /\ list'[i] = list[i - 1]
  BY <1>1, <1>3, SMT
<1>5. ASSUME NEW i \in 1 .. Len(list)
      PROVE  \E j \in 1 .. Len(list) + 1 : list'[j] = list[i]
  <2>1. CASE i < at
    <3>1. i \in 1 .. Len(list) + 1 /\ list'[i] = list[i]
      BY <1>1, <1>3, <2>1, SMT
    <3>2. QED
      BY <3>1
  <2>2. CASE ~(i < at)
    <3>1. /\ i + 1 \in 1 .. Len(list) + 1 /\ ~(i + 1 < at) /\ i + 1 # at
          /\ (i + 1) - 1 = i
      BY <1>1, <1>3, <2>2, SMT
    <3>2. list'[i + 1] = list[i]
      BY <1>1, <3>1
    <3>3. QED
      BY <3>1, <3>2
  <2>3. QED
    BY <2>1, <2>2
<1>6. list'[at] = new
  BY <1>1, <1>3, SMT
<1>7. ASSUME NEW b \in Int
      PROVE  (\E i \in 1 .. Len(list') : list'[i][1] <= b /\ b < list'[i][2]) <=>
               \/ \E i \in 1 .. Len(list) : list[i][1] <= b /\ b < list[i][2]
               \/ new[1] <= b /\ b < new[2]
  BY <1>1, <1>4, <1>5, <1>6, Zenon
<1>8. \A b : b \in new[1] .. new[2] - 1 <=> b \in Int /\ new[1] <= b /\ b < new[2]
  BY <1>3, SMT
<1>9. \A b : b \in Covered' <=> b \in Covered \/ b \in new[1] .. new[2] - 1
  BY <1>7, <1>8, InCovered
<1>10. QED
  BY <1>9

LEMMA AbsorbRefines ==
  ASSUME IInv, IInv', Absorb
  PROVE  Covered' = Covered
<1>1. /\ at \in 1 .. Len(list) - 1 /\ pc = "absorb"
      /\ list[at + 1][1] <= list[at][2]
      /\ Len(list') = Len(list) - 1
      /\ \A i \in 1 .. Len(list) - 1 :
           i # at => list'[i] = IF i < at THEN list[i] ELSE list[i + 1]
      /\ list'[at][1] = list[at][1]
      /\ list'[at][2] = Max2(list[at][2], list[at + 1][2])
  BY AbsorbList DEF IInv
<1>2. Len(list) \in Nat
  BY Numbers
<1>3. at \in 1 .. Len(list) /\ at + 1 \in 1 .. Len(list) /\ at < at + 1
  BY <1>1, <1>2, SMT
<1>4. /\ list[at][1] \in Nat /\ list[at][2] \in Nat
      /\ list[at + 1][1] \in Nat /\ list[at + 1][2] \in Nat
      /\ list[at][1] <= list[at + 1][1] /\ list[at + 1][1] <= list[at + 1][2] + 1
      /\ list[at][1] <= list[at][2] + 1
  BY <1>1, <1>3, Numbers
<1>5. ASSUME NEW b \in Int
      PROVE  list'[at][1] <= b /\ b < list'[at][2] <=>
               \/ list[at][1] <= b /\ b < list[at][2]
               \/ list[at + 1][1] <= b /\ b < list[at + 1][2]
  <2>1. list[at][1] <= b /\ b < Max2(list[at][2], list[at + 1][2]) <=>
          \/ list[at][1] <= b /\ b < list[at][2]
          \/ list[at + 1][1] <= b /\ b < list[at + 1][2]
    <3>1. list[at + 1][1] <= list[at][2]
      BY <1>1
    <3>2. QED
      BY <1>4, <3>1, SMT DEF Max2
  <2>2. list'[at][1] = list[at][1] /\ list'[at][2] = Max2(list[at][2], list[at + 1][2])
    BY <1>1
  <2>3. QED
    BY <2>1, <2>2, Zenon
<1>6. ASSUME NEW i \in 1 .. Len(list) - 1, i # at
      PROVE  \E j \in 1 .. Len(list) : list'[i] = list[j]
  <2>1. i \in 1 .. Len(list) /\ i + 1 \in 1 .. Len(list)
    BY <1>2, SMT
  <2>2. list'[i] = list[i] \/ list'[i] = list[i + 1]
    BY <1>1, <1>6
  <2>3. QED
    BY <2>1, <2>2
<1>7. ASSUME NEW i \in 1 .. Len(list), i # at, i # at + 1
      PROVE  \E j \in 1 .. Len(list) - 1 : j # at /\ list'[j] = list[i]
  <2>1. CASE i < at
    <3>1. i \in 1 .. Len(list) - 1
      BY <1>1, <1>2, <2>1, SMT
    <3>2. QED
      BY <1>1, <1>7, <2>1, <3>1
  <2>2. CASE ~(i < at)
    <3>1. i - 1 \in 1 .. Len(list) - 1 /\ ~(i - 1 < at) /\ i - 1 # at /\ (i - 1) + 1 = i
      BY <1>1, <1>2, <1>7, <2>2, SMT
    <3>2. list'[i - 1] = list[i]
      BY <1>1, <3>1
    <3>3. QED
      BY <3>1, <3>2
  <2>3. QED
    BY <2>1, <2>2
<1>8. ASSUME NEW b \in Int
      PROVE  (\E i \in 1 .. Len(list') : list'[i][1] <= b /\ b < list'[i][2]) <=>
               \E i \in 1 .. Len(list) : list[i][1] <= b /\ b < list[i][2]
  <2>1. ASSUME NEW i \in 1 .. Len(list'), list'[i][1] <= b, b < list'[i][2]
        PROVE  \E j \in 1 .. Len(list) : list[j][1] <= b /\ b < list[j][2]
    BY <1>1, <1>3, <1>5, <1>6, <2>1
  <2>2. ASSUME NEW i \in 1 .. Len(list), list[i][1] <= b, b < list[i][2]
        PROVE  \E j \in 1 .. Len(list') : list'[j][1] <= b /\ b < list'[j][2]
    BY <1>1, <1>3, <1>5, <1>7, <2>2
  <2>3. QED
    BY <2>1, <2>2
<1>9. \A b : b \in Covered' <=> b \in Covered
  BY <1>8, InCovered
<1>10. QED
  BY <1>9

\* The first interval is the lowest maximal run of the bytes, unless it is empty.
LEMMA FirstRun ==
  ASSUME IInv, IInv', pc = "idle", 1 \in 1 .. Len(list), list[1][1] < list[1][2]
  PROVE  Abstract!LowestRun(Covered) = list[1][1] .. list[1][2] - 1
<1>1. /\ Len(list) \in Nat
      /\ \A i \in 1 .. Len(list) :
           list[i][1] \in Nat /\ list[i][2] \in Nat /\ list[i][1] <= list[i][2] + 1
      /\ \A i, j \in 1 .. Len(list) : i < j => list[i][2] < list[j][1]
  BY Numbers
<1>2. \A b : b \in Covered <=>
        b \in Int /\ \E i \in 1 .. Len(list) : list[i][1] <= b /\ b < list[i][2]
  BY InCovered
<1>3. ASSUME NEW i \in 1 .. Len(list), i # 1 PROVE list[1][2] < list[i][1]
  <2>1. 1 < i
    BY <1>1, <1>3, SMT
  <2>2. QED
    BY <1>1, <2>1
<1>4. list[1][1] \in Covered
  BY <1>1, <1>2
<1>5. ASSUME NEW b \in Covered PROVE list[1][1] <= b /\ b # list[1][2] /\ b \in Int
  <2>1. PICK i \in 1 .. Len(list) : b \in Int /\ list[i][1] <= b /\ b < list[i][2]
    BY <1>2
  <2>2. CASE i = 1
    BY <1>1, <2>1, <2>2, SMT
  <2>3. CASE i # 1
    <3>1. list[1][2] < list[i][1] /\ list[1][1] <= list[1][2] + 1
      BY <1>1, <1>3, <2>3
    <3>2. QED
      BY <1>1, <2>1, <3>1, SMT
  <2>4. QED
    BY <2>2, <2>3
<1>6. Abstract!First(Covered) = list[1][1]
  <2>1. \A m \in Covered : (\A b \in Covered : m <= b) => m = list[1][1]
    BY <1>1, <1>4, <1>5, SMT
  <2>2. \A b \in Covered : list[1][1] <= b
    BY <1>5
  <2>3. QED
    BY <1>4, <2>1, <2>2, Zenon DEF Abstract!First
<1>7. ASSUME NEW b
      PROVE  b \in Abstract!LowestRun(Covered) <=> b \in list[1][1] .. list[1][2] - 1
  <2>1. b \in Abstract!LowestRun(Covered) <=>
          b \in Covered /\ \A c \in list[1][1] .. b : c \in Covered
    BY <1>6 DEF Abstract!LowestRun
  <2>2. ASSUME b \in Covered, \A c \in list[1][1] .. b : c \in Covered
        PROVE  b \in list[1][1] .. list[1][2] - 1
    <3>1. b \in Int /\ list[1][1] <= b
      BY <1>5, <2>2
    <3>2. CASE list[1][2] <= b
      <4>1. list[1][2] \in list[1][1] .. b
        BY <1>1, <3>1, <3>2, SMT
      <4>2. QED
        BY <1>5, <2>2, <4>1
    <3>3. CASE ~(list[1][2] <= b)
      BY <1>1, <3>1, <3>3, SMT
    <3>4. QED
      BY <3>2, <3>3
  <2>3. ASSUME NEW c \in list[1][1] .. list[1][2] - 1 PROVE c \in Covered
    <3>1. c \in Int /\ list[1][1] <= c /\ c < list[1][2]
      BY <1>1, SMT
    <3>2. QED
      BY <1>2, <3>1
  <2>4. ASSUME b \in list[1][1] .. list[1][2] - 1, NEW c \in list[1][1] .. b
        PROVE  c \in list[1][1] .. list[1][2] - 1
    BY <1>1, <2>4, SMT
  <2>5. QED
    BY <2>1, <2>2, <2>3, <2>4
<1>8. QED
  BY <1>7

\* A pop takes the bytes of the first interval, and leaves a gap behind them.
LEMMA PopTakes ==
  ASSUME IInv, IInv', Pop
  PROVE  /\ 1 \in 1 .. Len(list) /\ popped' = list[1] /\ popped' \in Intervals
         /\ popped'[1] \in Nat /\ popped'[2] \in Nat /\ popped'[1] <= popped'[2] + 1
         /\ popped'[1] .. popped'[2] - 1 \subseteq Covered
         /\ Covered' = Covered \ (popped'[1] .. popped'[2] - 1)
         /\ \A b \in Covered' : b \in Nat /\ popped'[2] < b
<1>1. /\ 1 \in 1 .. Len(list) /\ popped' = list[1] /\ Len(list') = Len(list) - 1
      /\ \A i \in 1 .. Len(list) - 1 : list'[i] = list[i + 1]
  BY PopList DEF IInv
<1>2. pc = "idle"
  BY DEF Pop
<1>3. /\ Len(list) \in Nat
      /\ \A i \in 1 .. Len(list) :
           list[i][1] \in Nat /\ list[i][2] \in Nat /\ list[i][1] <= list[i][2] + 1
      /\ \A i, j \in 1 .. Len(list) : i < j => list[i][2] < list[j][1]
  BY <1>2, Numbers
<1>4. list[1] \in Intervals
  BY <1>1, Ends DEF IInv
<1>5. ASSUME NEW i \in 1 .. Len(list), i # 1
      PROVE  list[1][2] < list[i][1] /\ i - 1 \in 1 .. Len(list) - 1 /\ list'[i - 1] = list[i]
  <2>1. 1 < i /\ i - 1 \in 1 .. Len(list) - 1 /\ (i - 1) + 1 = i
    BY <1>3, <1>5, SMT
  <2>2. QED
    BY <1>1, <1>3, <2>1
<1>6. ASSUME NEW i \in 1 .. Len(list) - 1
      PROVE  i + 1 \in 1 .. Len(list) /\ i + 1 # 1 /\ list'[i] = list[i + 1]
  BY <1>1, <1>3, SMT
<1>7. ASSUME NEW b
      PROVE  b \in Covered' <=> b \in Covered /\ b \notin list[1][1] .. list[1][2] - 1
  <2>1. ASSUME b \in Covered'
        PROVE  b \in Covered /\ b \notin list[1][1] .. list[1][2] - 1
    <3>1. PICK i \in 1 .. Len(list) - 1 :
            b \in Int /\ list'[i][1] <= b /\ b < list'[i][2]
      BY <1>1, <2>1, InCovered
    <3>2. /\ i + 1 \in 1 .. Len(list) /\ list[1][2] < list[i + 1][1]
          /\ list[i + 1][1] <= b /\ b < list[i + 1][2]
      BY <1>5, <1>6, <3>1
    <3>3. b \notin list[1][1] .. list[1][2] - 1
      BY <1>1, <1>3, <3>1, <3>2, SMT
    <3>4. b \in Covered
      BY <3>1, <3>2, InCovered
    <3>5. QED
      BY <3>3, <3>4
  <2>2. ASSUME b \in Covered, b \notin list[1][1] .. list[1][2] - 1
        PROVE  b \in Covered'
    <3>1. PICK i \in 1 .. Len(list) : b \in Int /\ list[i][1] <= b /\ b < list[i][2]
      BY <2>2, InCovered
    <3>2. i # 1
      BY <1>1, <1>3, <2>2, <3>1, SMT
    <3>3. /\ i - 1 \in 1 .. Len(list')
          /\ list'[i - 1][1] <= b /\ b < list'[i - 1][2]
      BY <1>1, <1>5, <3>1, <3>2
    <3>4. QED
      BY <3>1, <3>3, InCovered
  <2>3. QED
    BY <2>1, <2>2
<1>8. ASSUME NEW b \in list[1][1] .. list[1][2] - 1 PROVE b \in Covered
  <2>1. b \in Int /\ list[1][1] <= b /\ b < list[1][2]
    BY <1>1, <1>3, SMT
  <2>2. QED
    BY <1>1, <2>1, InCovered
<1>9. ASSUME NEW b \in Covered' PROVE b \in Nat /\ list[1][2] < b
  <2>1. PICK i \in 1 .. Len(list) - 1 :
          b \in Int /\ list'[i][1] <= b /\ b < list'[i][2]
    BY <1>1, <1>9, InCovered
  <2>2. /\ i + 1 \in 1 .. Len(list) /\ list[1][2] < list[i + 1][1]
        /\ list[i + 1][1] <= b
    BY <1>5, <1>6, <2>1
  <2>3. QED
    BY <1>1, <1>3, <2>1, <2>2, SMT
<1>10. QED
  BY <1>1, <1>3, <1>4, <1>7, <1>8, <1>9

\* A pop hands out the lowest maximal run, or no bytes.
LEMMA PopRefines ==
  ASSUME IInv, IInv', Pop
  PROVE  Abstract!TakeRun \/ Abstract!TakeNothing
<1>1. /\ 1 \in 1 .. Len(list) /\ popped' = list[1] /\ list[1] \in Intervals
      /\ list[1][1] \in Nat /\ list[1][2] \in Nat /\ list[1][1] <= list[1][2] + 1
      /\ list[1][1] .. list[1][2] - 1 \subseteq Covered
      /\ Covered' = Covered \ (list[1][1] .. list[1][2] - 1)
  BY PopTakes
<1>2. pc = "idle"
  BY DEF Pop
<1>3. CASE list[1][1] < list[1][2]
  <2>1. Abstract!LowestRun(Covered) = list[1][1] .. list[1][2] - 1
    BY <1>1, <1>2, <1>3, FirstRun
  <2>2. Covered' = Covered \ Abstract!LowestRun(Covered)
    BY <1>1, <2>1
  <2>3. list[1][1] \in Covered
    BY <1>1, <1>3
  <2>4. Abstract!TakeRun
    BY <1>1, <2>1, <2>2, <2>3
       DEF Abstract!TakeRun, Abstract!Bytes, Abstract!Offsets, Intervals, Offsets
  <2>5. QED
    BY <2>4
<1>4. CASE ~(list[1][1] < list[1][2])
  <2>1. /\ list[1][2] = list[1][1] \/ list[1][2] = list[1][1] - 1
        /\ list[1][1] .. list[1][2] - 1 = {}
    BY <1>1, <1>4, SMT
  <2>2. Covered' = Covered
    BY <1>1, <2>1
  <2>3. list[1] \in Abstract!NoBytes
    BY <1>1, <2>1 DEF Abstract!NoBytes, Abstract!Offsets, Intervals, Offsets
  <2>4. Abstract!TakeNothing
    BY <1>1, <2>2, <2>3 DEF Abstract!TakeNothing
  <2>5. QED
    BY <2>4
<1>5. QED
  BY <1>3, <1>4

\* The list implements the set of dirty bytes, for files of any size: a push
\* takes effect when it merges or inserts, a pop hands out a maximal run.
THEOREM ListImplementsDirtyBytes == Spec => Implements
<1>1. Init => Abstract!Init
  BY DEF Init, Covered, Abstract!Init
<1>2. IInv /\ IInv' /\ [Next]_vars => [Abstract!Next]_(Abstract!dirtyVars)
  <2> SUFFICES ASSUME IInv, IInv', [Next]_vars
               PROVE  [Abstract!Next]_(Abstract!dirtyVars)
    OBVIOUS
  <2>1. ASSUME Merge \/ Insert PROVE Abstract!Next
    <3>1. /\ pc = "scan" /\ popped' = popped
          /\ Covered' = Covered \cup (new[1] .. new[2] - 1)
      BY <2>1, MergeRefines, InsertRefines DEF Merge, Insert
    <3>2. new \in Intervals /\ new[1] <= new[2] + 1
      BY <3>1 DEF IInv, TypeOK, Passed
    <3>3. new[1] \in Abstract!Offsets /\ new[2] \in Abstract!Offsets
      BY <3>2 DEF Intervals, Offsets, Abstract!Offsets
    <3>4. Abstract!Add(new[1], new[2])
      BY <3>1 DEF Abstract!Add, Abstract!Bytes
    <3>5. QED
      BY <3>2, <3>3, <3>4 DEF Abstract!Next
  <2>2. CASE Absorb
    BY <2>2, AbsorbRefines DEF Absorb, Abstract!dirtyVars
  <2>3. CASE Pop
    BY <2>3, PopRefines DEF Abstract!Next
  <2>4. CASE PopNone
    <3>1. list = <<>> /\ popped' = None /\ list' = list
      BY <2>4 DEF PopNone
    <3>2. Covered = {} /\ Covered' = Covered
      BY <3>1 DEF Covered
    <3>3. Abstract!TakeNothing
      BY <3>1, <3>2 DEF Abstract!TakeNothing
    <3>4. QED
      BY <3>3 DEF Abstract!Next
  <2>5. ASSUME UNCHANGED <<list, popped>> PROVE UNCHANGED Abstract!dirtyVars
    BY <2>5 DEF Covered, Abstract!dirtyVars
  <2>6. CASE Scan \/ AbsorbDone \/ UNCHANGED vars
    BY <2>5, <2>6 DEF Scan, AbsorbDone, vars
  <2>7. ASSUME NEW lower \in Offsets, NEW upper \in Offsets, PushBegin(lower, upper)
        PROVE  UNCHANGED Abstract!dirtyVars
    BY <2>5, <2>7 DEF PushBegin
  <2>8. QED
    BY <2>1, <2>2, <2>3, <2>4, <2>6, <2>7 DEF Next
<1>3. QED
  BY <1>1, <1>2, ExtentsInvariant, PTL DEF Spec, Implements, Abstract!Spec
=============================================================================
