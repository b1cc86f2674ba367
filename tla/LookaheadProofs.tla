--------------------------- MODULE LookaheadProofs --------------------------
(***************************************************************************)
(* Proofs about Lookahead, for every directory, strategy and capacity:     *)
(* types, the precedence of advice, that a window is never dropped, that a *)
(* miss requests its own file, that Acl's view of the requests is right,   *)
(* which files share a copy, and that the files of a window are inserted   *)
(* in natural order.                                                       *)
(***************************************************************************)
EXTENDS LookaheadFiles, SequenceTheorems, FiniteSetTheorems, WellFoundedInduction, TLAPS

\* The low queue is known to be empty before a miss is looked at, and what is
\* being put on it fits, if no batch is longer than a queue.
Room ==
  /\ pc = "prefetch" => low = <<>>
  /\ (\A f \in Files : Len(Batch(f)) <= Capacity) =>
       /\ pc = "window" => Len(low) + Len(batch) <= Capacity
       /\ LowNeverDrops

\* The high queue was empty when the thread came to the low one.
Precedence ==
  /\ AdviceGoesFirst
  /\ pc = "low" => overtaken = 0

\* The search and the batch are about the same order.
SearchesWhatItTakes == ~(Sorts /\ Windowed)

\* Whatever is on a queue, or on its way, was requested.
Requested ==
  /\ ToSet(high) \cup ToSet(low) \cup ToSet(batch) \subseteq requested
  /\ \A f \in ToSet(prefetch) : ToSet(Batch(f)) \subseteq requested
  /\ pc = "insert" => value \in requested

IInv ==
  /\ TypeOK /\ Room /\ Precedence /\ Requested
  /\ SearchesWhatItTakes => MissRequestsItself

-----------------------------------------------------------------------------
(* Sequences and their elements.                                           *)

LEMMA Appended ==
  ASSUME NEW s \in Seq(Files), NEW e \in Files
  PROVE  /\ Append(s, e) \in Seq(Files)
         /\ Len(Append(s, e)) = Len(s) + 1
         /\ ToSet(Append(s, e)) = ToSet(s) \cup {e}
<1>1. /\ Append(s, e) \in Seq(Files) /\ Len(Append(s, e)) = Len(s) + 1 /\ Len(s) \in Nat
      /\ \A i \in 1 .. Len(s) : Append(s, e)[i] = s[i]
      /\ Append(s, e)[Len(s) + 1] = e
  BY SMT
<1>2. \A i : i \in 1 .. Len(s) + 1 <=> i \in 1 .. Len(s) \/ i = Len(s) + 1
  BY <1>1, SMT
<1>3. DOMAIN s = 1 .. Len(s) /\ DOMAIN Append(s, e) = 1 .. Len(s) + 1
  BY <1>1, LenProperties
<1>4. QED
  BY <1>1, <1>2, <1>3, Zenon DEF ToSet

LEMMA Taken ==
  ASSUME NEW s \in Seq(Files), s # <<>>
  PROVE  /\ Head(s) \in Files /\ Tail(s) \in Seq(Files)
         /\ Len(Tail(s)) = Len(s) - 1 /\ Len(s) \in Nat \ {0}
         /\ ToSet(s) = {Head(s)} \cup ToSet(Tail(s))
<1>1. /\ Tail(s) \in Seq(Files) /\ Len(Tail(s)) = Len(s) - 1 /\ Len(s) \in Nat \ {0}
      /\ \A i \in 1 .. Len(s) - 1 : Tail(s)[i] = s[i + 1]
      /\ Head(s) = s[1] /\ 1 \in 1 .. Len(s) /\ s[1] \in Files
  BY SMT
<1>2. /\ \A i \in 1 .. Len(s) - 1 : i + 1 \in 1 .. Len(s)
      /\ \A i \in 1 .. Len(s) : i = 1 \/ (i - 1 \in 1 .. Len(s) - 1 /\ (i - 1) + 1 = i)
  BY <1>1, SMT
<1>3. DOMAIN s = 1 .. Len(s) /\ DOMAIN Tail(s) = 1 .. Len(s) - 1
  BY <1>1, LenProperties
<1>4. ASSUME NEW i \in 1 .. Len(s) PROVE s[i] \in {Head(s)} \cup ToSet(Tail(s))
  <2>1. CASE i = 1
    BY <1>1, <2>1
  <2>2. CASE i # 1
    <3>1. i - 1 \in 1 .. Len(s) - 1 /\ (i - 1) + 1 = i
      BY <1>2, <2>2
    <3>2. Tail(s)[i - 1] = s[i]
      BY <1>1, <3>1
    <3>3. QED
      BY <1>3, <3>1, <3>2 DEF ToSet
  <2>3. QED
    BY <2>1, <2>2
<1>5. ASSUME NEW i \in 1 .. Len(s) - 1 PROVE Tail(s)[i] \in ToSet(s)
  BY <1>1, <1>2, <1>3 DEF ToSet
<1>6. Head(s) \in ToSet(s)
  BY <1>1, <1>3 DEF ToSet
<1>7. ToSet(s) = {s[i] : i \in 1 .. Len(s)} /\ ToSet(Tail(s)) = {Tail(s)[i] : i \in 1 .. Len(s) - 1}
  BY <1>3 DEF ToSet
<1>8. ToSet(s) \subseteq {Head(s)} \cup ToSet(Tail(s))
  BY <1>4, <1>7
<1>9. {Head(s)} \cup ToSet(Tail(s)) \subseteq ToSet(s)
  BY <1>5, <1>6, <1>7
<1>10. QED
  BY <1>1, <1>8, <1>9

LEMMA ElementsAreFiles ==
  ASSUME NEW s \in Seq(Files)
  PROVE  ToSet(s) \subseteq Files
<1>1. DOMAIN s = 1 .. Len(s) /\ \A i \in 1 .. Len(s) : s[i] \in Files
  BY LenProperties, SMT
<1>2. QED
  BY <1>1 DEF ToSet

LEMMA EmptyHasNone == ToSet(<<>>) = {} /\ <<>> \in Seq(Files) /\ Len(<<>>) = 0
<1>1. \A i : i \notin DOMAIN <<>>
  BY SMT
<1>2. QED
  BY <1>1 DEF ToSet

-----------------------------------------------------------------------------
(* The strategies.                                                         *)

\* The lesser of two numbers.
LEMMA MinOfTwo ==
  ASSUME NEW a \in Int, NEW b \in Int
  PROVE  Min({a, b}) \in {a, b} /\ Min({a, b}) <= a /\ Min({a, b}) <= b
<1>1. \E x \in {a, b} : \A y \in {a, b} : x <= y
  BY SMT
<1>2. Min({a, b}) \in {a, b} /\ \A y \in {a, b} : Min({a, b}) <= y
  BY <1>1 DEF Min
<1>3. QED
  BY <1>2

\* The search ends at the file or behind the end.
LEMMA SearchEnds ==
  ASSUME NEW s \in Seq(Files), NEW f \in Files
  PROVE  /\ Search(s, f) \in 1 .. Len(s) + 1
         /\ f \in ToSet(s) => Search(s, f) \in 1 .. Len(s) /\ s[Search(s, f)] = f
<1>1. DOMAIN s = 1 .. Len(s) /\ Len(s) \in Nat
  BY LenProperties
<1>2. CASE f \in ToSet(s)
  <2>1. \E i \in 1 .. Len(s) : s[i] = f
    BY <1>1, <1>2 DEF ToSet
  <2>2. Search(s, f) \in 1 .. Len(s) /\ s[Search(s, f)] = f
    BY <1>1, <1>2, <2>1 DEF Search
  <2>3. QED
    BY <1>1, <2>2, SMT
<1>3. CASE f \notin ToSet(s)
  BY <1>1, <1>3, SMT DEF Search
<1>4. QED
  BY <1>2, <1>3

\* A batch is a sequence of files of the directory.
LEMMA BatchOfDirectory ==
  ASSUME NEW f \in Files
  PROVE  /\ Batch(f) \in Seq(Files)
         /\ Windowed => Len(Batch(f)) <= WindowSize
         /\ Len(Batch(f)) <= Len(Listing)
<1> DEFINE order == IF Sorts THEN Sorted ELSE Listing
           first == Search(Listing, f)
           last  == Min({first + WindowSize - 1, Len(order)})
<1>1. /\ order \in Seq(Files) /\ Len(order) = Len(Listing) /\ Len(order) \in Nat
      /\ Listing \in Seq(Files) /\ WindowSize \in Nat \ {0}
  BY LookaheadAssumption, LenProperties
<1>2. first \in 1 .. Len(order) + 1
  BY <1>1, SearchEnds
<1>3. first + WindowSize - 1 \in Int /\ Len(order) \in Int
  BY <1>1, <1>2, SMT
<1>4. last \in Int /\ last <= first + WindowSize - 1 /\ last <= Len(order)
  <2> HIDE DEF order, first
  <2>1. /\ last \in {first + WindowSize - 1, Len(order)}
        /\ last <= first + WindowSize - 1 /\ last <= Len(order)
    BY <1>3, MinOfTwo
  <2>2. QED
    BY <1>3, <2>1
<1>5. CASE Windowed
  <2> HIDE DEF order, first, last
  <2>1. SubSeq(order, first, last) \in Seq(Files)
    BY <1>1, <1>2, <1>4, SMT
  <2>2. Len(SubSeq(order, first, last)) = IF first <= last THEN last - first + 1 ELSE 0
    BY <1>1, <1>2, <1>4, SMT
  <2>3. Len(SubSeq(order, first, last)) <= WindowSize /\ Len(SubSeq(order, first, last)) <= Len(order)
    BY <1>1, <1>2, <1>4, <2>2, SMT
  <2>4. Batch(f) = SubSeq(order, first, last)
    BY <1>5 DEF Batch, order, first, last
  <2>5. QED
    BY <1>1, <2>1, <2>3, <2>4
<1>6. CASE ~Windowed
  <2>1. Batch(f) = order
    BY <1>6 DEF Batch
  <2>2. Len(order) <= Len(Listing)
    BY <1>1, SMT
  <2>3. QED
    BY <1>1, <1>6, <2>1, <2>2
<1>7. QED
  BY <1>5, <1>6

\* A listed file is in its own batch, unless the listing is sorted after the
\* search.
LEMMA BatchHasFile ==
  ASSUME NEW f \in Files, f \in ToSet(Listing), SearchesWhatItTakes
  PROVE  f \in ToSet(Batch(f))
<1>1. /\ Listing \in Seq(Files) /\ Len(Listing) \in Nat /\ WindowSize \in Nat \ {0}
      /\ ToSet(Sorted) = ToSet(Listing)
  BY LookaheadAssumption, LenProperties
<1>2. CASE Windowed
  <2> DEFINE first == Search(Listing, f)
             last  == Min({first + WindowSize - 1, Len(Listing)})
  <2>1. first \in 1 .. Len(Listing) /\ Listing[first] = f
    BY <1>1, SearchEnds
  <2>2. /\ first + WindowSize - 1 \in Int /\ Len(Listing) \in Int
        /\ first <= first + WindowSize - 1
    BY <1>1, <2>1, SMT
  <2>3. last \in {first + WindowSize - 1, Len(Listing)} /\ last <= Len(Listing)
    <3> HIDE DEF first
    <3>1. QED
      BY <2>2, MinOfTwo
  <2>4. last \in Int /\ first <= last
    BY <1>1, <2>1, <2>2, <2>3, SMT
  <2>5. Batch(f) = SubSeq(Listing, first, last)
    BY <1>2 DEF Batch, SearchesWhatItTakes
  <2> HIDE DEF first, last
  <2>6. /\ SubSeq(Listing, first, last) \in Seq(Files)
        /\ Len(SubSeq(Listing, first, last)) = last - first + 1
        /\ SubSeq(Listing, first, last)[1] = Listing[first]
    BY <1>1, <2>1, <2>3, <2>4, SMT
  <2>7. 1 \in DOMAIN SubSeq(Listing, first, last)
    <3>1. 1 \in 1 .. last - first + 1
      BY <2>1, <2>4, SMT
    <3>2. QED
      BY <2>6, <3>1, LenProperties
  <2>8. QED
    BY <2>1, <2>5, <2>6, <2>7 DEF ToSet
<1>3. CASE ~Windowed
  BY <1>1, <1>3 DEF Batch
<1>4. QED
  BY <1>2, <1>3

-----------------------------------------------------------------------------
(* The calls.                                                              *)

LEMMA InitHolds == Init => IInv
<1> SUFFICES ASSUME Init PROVE IInv
  OBVIOUS
<1>1. Len(high) <= Capacity /\ Len(low) <= Capacity /\ Len(prefetch) <= Capacity
  BY EmptyHasNone, LookaheadAssumption, SMT DEF Init
<1>2. TypeOK
  <2>1. overtaken \in Nat
    BY SMT DEF Init
  <2>2. QED
    BY <1>1, <2>1, EmptyHasNone DEF TypeOK, Init
<1>3. Room
  BY DEF Room, LowNeverDrops, Init
<1>4. Precedence
  BY SMT DEF Precedence, AdviceGoesFirst, Init
<1>5. Requested
  BY EmptyHasNone DEF Requested, Init
<1>6. QED
  BY <1>2, <1>3, <1>4, <1>5 DEF IInv, MissRequestsItself, Init

\* An element added to a queue that has room, or dropped.
LEMMA Added ==
  ASSUME NEW q \in Seq(Files), Len(q) <= Capacity, NEW e \in Files, NEW r,
         r = IF Fits(q) THEN Append(q, e) ELSE q
  PROVE  r \in Seq(Files) /\ Len(r) <= Capacity /\ ToSet(r) \subseteq ToSet(q) \cup {e}
<1>1. CASE Fits(q)
  <2>1. Len(q) + 1 <= Capacity
    BY <1>1, LookaheadAssumption, LenProperties, SMT DEF Fits
  <2>2. r = Append(q, e)
    BY <1>1
  <2>3. QED
    BY <2>1, <2>2, Appended
<1>2. QED
  BY <1>1

LEMMA AdviseKeeps ==
  ASSUME IInv, NEW f \in Files, Advise(f)
  PROVE  IInv'
<1> USE DEF Advise, thread
<1>1. high' \in Seq(Files) /\ Len(high') <= Capacity /\ ToSet(high') \subseteq ToSet(high) \cup {f}
  BY Added DEF IInv, TypeOK
<1>2. TypeOK'
  BY <1>1 DEF IInv, TypeOK
<1>3. Room'
  BY DEF IInv, Room, LowNeverDrops
<1>4. Precedence'
  BY DEF IInv, Precedence, AdviceGoesFirst
<1>5. Requested'
  BY <1>1 DEF IInv, Requested
<1>6. QED
  BY <1>2, <1>3, <1>4, <1>5 DEF IInv, MissRequestsItself

LEMMA MissKeeps ==
  ASSUME IInv, NEW f \in Files, Miss(f)
  PROVE  IInv'
<1> USE DEF Miss, thread
<1>1. /\ prefetch' \in Seq(Files) /\ Len(prefetch') <= Capacity
      /\ ToSet(prefetch') \subseteq ToSet(prefetch) \cup {f}
  BY Added DEF IInv, TypeOK
<1>2. ToSet(Batch(f)) \subseteq Files
  BY BatchOfDirectory, ElementsAreFiles
<1>3. TypeOK'
  BY <1>1, <1>2 DEF IInv, TypeOK
<1>4. Room'
  BY DEF IInv, Room, LowNeverDrops
<1>5. Precedence'
  BY DEF IInv, Precedence, AdviceGoesFirst
<1>6. Requested'
  BY <1>1 DEF IInv, Requested
<1>7. QED
  BY <1>3, <1>4, <1>5, <1>6 DEF IInv, MissRequestsItself

-----------------------------------------------------------------------------
(* The thread.                                                             *)

LEMMA DequeueHighKeeps ==
  ASSUME IInv, DequeueHigh
  PROVE  IInv'
<1> USE DEF DequeueHigh, AfterHigh
<1>1. TypeOK'
  <2>1. 0 \in Nat
    OBVIOUS
  <2>2. CASE high # <<>>
    <3>1. Len(Tail(high)) <= Capacity
      BY <2>2, Taken, LookaheadAssumption, SMT DEF IInv, TypeOK
    <3>2. Head(high) \in Files /\ Tail(high) \in Seq(Files)
      BY <2>2, Taken DEF IInv, TypeOK
    <3>3. Head(high) # None
      BY <3>2, LookaheadAssumption
    <3>4. QED
      BY <2>1, <2>2, <3>1, <3>2, <3>3 DEF IInv, TypeOK
  <2>3. CASE high = <<>>
    BY <2>1, <2>3 DEF IInv, TypeOK
  <2>4. QED
    BY <2>2, <2>3
<1>2. Room'
  BY DEF IInv, Room, LowNeverDrops
<1>3. Precedence'
  BY SMT DEF Precedence, AdviceGoesFirst
<1>4. Requested'
  <2>1. CASE high # <<>>
    <3>1. Head(high) \in ToSet(high) /\ ToSet(Tail(high)) \subseteq ToSet(high)
      BY <2>1, Taken DEF IInv, TypeOK
    <3>2. QED
      BY <2>1, <3>1 DEF IInv, Requested
  <2>2. CASE high = <<>>
    BY <2>2 DEF IInv, Requested
  <2>3. QED
    BY <2>1, <2>2
<1>5. QED
  BY <1>1, <1>2, <1>3, <1>4 DEF IInv, MissRequestsItself

LEMMA DequeueLowKeeps ==
  ASSUME IInv, DequeueLow
  PROVE  IInv'
<1> USE DEF DequeueLow
<1>1. overtaken = 0
  BY DEF IInv, Precedence
<1>2. overtaken' \in Nat /\ overtaken' <= 1
  BY <1>1, SMT
<1>3. TypeOK'
  <2>1. CASE low # <<>>
    <3>1. Len(Tail(low)) <= Capacity
      BY <2>1, Taken, LookaheadAssumption, SMT DEF IInv, TypeOK
    <3>2. Head(low) \in Files /\ Tail(low) \in Seq(Files)
      BY <2>1, Taken DEF IInv, TypeOK
    <3>3. Head(low) # None
      BY <3>2, LookaheadAssumption
    <3>4. QED
      BY <1>2, <2>1, <3>1, <3>2, <3>3 DEF IInv, TypeOK
  <2>2. CASE low = <<>>
    BY <1>2, <2>2 DEF IInv, TypeOK
  <2>3. QED
    BY <2>1, <2>2
<1>4. Room'
  BY DEF IInv, Room, LowNeverDrops
<1>5. Precedence'
  BY <1>2 DEF Precedence, AdviceGoesFirst
<1>6. Requested'
  <2>1. CASE low # <<>>
    <3>1. Head(low) \in ToSet(low) /\ ToSet(Tail(low)) \subseteq ToSet(low)
      BY <2>1, Taken DEF IInv, TypeOK
    <3>2. QED
      BY <2>1, <3>1 DEF IInv, Requested
  <2>2. CASE low = <<>>
    BY <2>2 DEF IInv, Requested
  <2>3. QED
    BY <2>1, <2>2
<1>7. QED
  BY <1>3, <1>4, <1>5, <1>6 DEF IInv, MissRequestsItself

LEMMA DequeuePrefetchKeeps ==
  ASSUME IInv, DequeuePrefetch
  PROVE  IInv'
<1> USE DEF DequeuePrefetch, history, Restart
<1>1. CASE prefetch # <<>>
  <2> DEFINE f == Head(prefetch)
  <2>1. /\ f \in Files /\ Tail(prefetch) \in Seq(Files)
        /\ f \in ToSet(prefetch) /\ ToSet(Tail(prefetch)) \subseteq ToSet(prefetch)
    BY <1>1, Taken DEF IInv, TypeOK
  <2>2. Len(Tail(prefetch)) <= Capacity
    BY <1>1, Taken, LookaheadAssumption, SMT DEF IInv, TypeOK
  <2>3. Batch(f) \in Seq(Files)
    BY <2>1, BatchOfDirectory
  <2>4. TypeOK'
    <3>1. f # None
      BY <2>1, LookaheadAssumption
    <3>2. QED
      BY <1>1, <2>1, <2>2, <2>3, <3>1 DEF IInv, TypeOK
  <2>5. Room'
    <3>1. low = <<>> /\ low' = <<>> /\ batch' = Batch(f) /\ pc' = "window"
      BY <1>1 DEF IInv, Room
    <3>2. Len(Batch(f)) <= Capacity => Len(low') + Len(batch') <= Capacity
      BY <2>3, <3>1, LenProperties, SMT
    <3>3. QED
      BY <2>1, <3>1, <3>2 DEF IInv, Room, LowNeverDrops
  <2>6. Precedence'
    BY <1>1 DEF IInv, Precedence, AdviceGoesFirst
  <2>7. Requested'
    BY <1>1, <2>1 DEF IInv, Requested
  <2>8. SearchesWhatItTakes => MissRequestsItself'
    BY <1>1, <2>1, BatchHasFile DEF MissRequestsItself
  <2>9. QED
    BY <2>4, <2>5, <2>6, <2>7, <2>8 DEF IInv, SearchesWhatItTakes
<1>2. CASE prefetch = <<>>
  BY <1>2 DEF IInv, TypeOK, Room, LowNeverDrops, Precedence, AdviceGoesFirst, Requested,
              MissRequestsItself, SearchesWhatItTakes
<1>3. QED
  BY <1>1, <1>2

LEMMA InsertKeeps ==
  ASSUME IInv, Insert
  PROVE  IInv'
BY DEF Insert, queues, history, Restart, IInv, TypeOK, Room, LowNeverDrops, Precedence,
       AdviceGoesFirst, Requested, MissRequestsItself, SearchesWhatItTakes

LEMMA WindowDoneKeeps ==
  ASSUME IInv, WindowDone
  PROVE  IInv'
BY DEF WindowDone, queues, history, Restart, IInv, TypeOK, Room, LowNeverDrops, Precedence,
       AdviceGoesFirst, Requested, MissRequestsItself, SearchesWhatItTakes

LEMMA EnqueueLowKeeps ==
  ASSUME IInv, EnqueueLow
  PROVE  IInv'
<1> USE DEF EnqueueLow, PathOfEntry
<1> DEFINE e == Head(batch)
<1>1. /\ e \in Files /\ Tail(batch) \in Seq(Files)
      /\ Len(Tail(batch)) = Len(batch) - 1 /\ Len(batch) \in Nat \ {0}
      /\ ToSet(batch) = {e} \cup ToSet(Tail(batch))
  BY Taken DEF IInv, TypeOK
<1>2. /\ low' = IF Fits(low) THEN Append(low, e) ELSE low
      /\ dropped' = IF Fits(low) THEN dropped ELSE dropped \cup {e}
  OBVIOUS
<1>3. low' \in Seq(Files) /\ Len(low') <= Capacity /\ ToSet(low') \subseteq ToSet(low) \cup {e}
  BY <1>1, <1>2, Added DEF IInv, TypeOK
<1>4. TypeOK'
  BY <1>1, <1>2, <1>3 DEF IInv, TypeOK
<1>5. Room'
  <2>1. ASSUME \A f \in Files : Len(Batch(f)) <= Capacity
        PROVE  Len(low') + Len(batch') <= Capacity /\ LowNeverDrops'
    <3>1. Len(low) + Len(batch) <= Capacity /\ LowNeverDrops
      BY <2>1 DEF IInv, Room
    <3>2. Len(low) \in Nat
      BY LenProperties DEF IInv, TypeOK
    <3>3. Fits(low)
      BY <1>1, <3>1, <3>2, LookaheadAssumption, SMT DEF Fits
    <3>4. Len(low') = Len(low) + 1 /\ Len(batch') = Len(batch) - 1
      BY <1>1, <1>2, <3>3, Appended DEF IInv, TypeOK
    <3>5. Len(low') + Len(batch') <= Capacity
      BY <1>1, <3>1, <3>2, <3>4, SMT
    <3>6. QED
      BY <1>2, <3>1, <3>3, <3>5 DEF LowNeverDrops
  <2>2. QED
    BY <2>1 DEF Room
<1>6. Precedence'
  BY DEF IInv, Precedence, AdviceGoesFirst
<1>7. Requested'
  BY <1>1, <1>3 DEF IInv, Requested
<1>8. ToSet(batch) \cup ToSet(low) \cup dropped
        = ToSet(batch') \cup ToSet(low') \cup dropped'
  <2>1. CASE Fits(low)
    BY <1>1, <1>2, <2>1, Appended DEF IInv, TypeOK
  <2>2. CASE ~Fits(low)
    BY <1>1, <1>2, <2>2
  <2>3. QED
    BY <2>1, <2>2
<1>9. SearchesWhatItTakes => MissRequestsItself'
  BY <1>8 DEF IInv, MissRequestsItself
<1>10. QED
  BY <1>4, <1>5, <1>6, <1>7, <1>9 DEF IInv, SearchesWhatItTakes

-----------------------------------------------------------------------------
(* The theorems.                                                           *)

LEMMA StepKeeps == IInv /\ [Next]_vars => IInv'
<1> SUFFICES ASSUME IInv, [Next]_vars PROVE IInv'
  OBVIOUS
<1>1. CASE Calls
  BY <1>1, AdviseKeeps, MissKeeps DEF Calls
<1>2. CASE Thread
  BY <1>2, DequeueHighKeeps, DequeueLowKeeps, DequeuePrefetchKeeps, InsertKeeps,
     EnqueueLowKeeps, WindowDoneKeeps DEF Thread
<1>3. CASE UNCHANGED vars
  BY <1>3 DEF vars, queues, thread, history, IInv, TypeOK, Room, LowNeverDrops, Precedence,
              AdviceGoesFirst, Requested, MissRequestsItself, SearchesWhatItTakes
<1>4. QED
  BY <1>1, <1>2, <1>3 DEF Next

\* The inductive invariant of the queues and the thread.
THEOREM LookaheadInvariant == Spec => []IInv
BY InitHolds, StepKeeps, PTL DEF Spec

\* Every variable always holds a value of its type, no queue is longer than its
\* capacity, and the thread never works on a file it does not have.
THEOREM LookaheadTypeCorrect == Spec => []TypeOK
<1>1. IInv => TypeOK
  BY DEF IInv
<1>2. QED
  BY <1>1, LookaheadInvariant, PTL

\* The thread looks at the high queue before every file of the low one, so an
\* advised file is overtaken at most once, whatever the other threads do.
THEOREM AdviceFirst == Spec => []AdviceGoesFirst
<1>1. IInv => AdviceGoesFirst
  BY DEF IInv, Precedence
<1>2. QED
  BY <1>1, LookaheadInvariant, PTL

\* enqueue never drops a file of a window: with psdl and prdl five files go to
\* a queue that was found empty.
THEOREM WindowFits ==
  ASSUME Windowed, WindowSize <= Capacity
  PROVE  Spec => []LowNeverDrops
<1>1. \A f \in Files : Len(Batch(f)) <= Capacity
  <2> TAKE f \in Files
  <2>1. Len(Batch(f)) \in Nat /\ Len(Batch(f)) <= WindowSize
    BY BatchOfDirectory, LenProperties
  <2>2. QED
    BY <2>1, LookaheadAssumption, SMT
<1>2. IInv => LowNeverDrops
  BY <1>1 DEF IInv, Room
<1>3. QED
  BY <1>2, LookaheadInvariant, PTL

\* With fsdl and frdl the same holds of a directory that fits on the queue.
THEOREM DirectoryFits ==
  ASSUME Len(Listing) <= Capacity
  PROVE  Spec => []LowNeverDrops
<1>1. \A f \in Files : Len(Batch(f)) <= Capacity
  <2> TAKE f \in Files
  <2>1. Len(Batch(f)) \in Nat /\ Len(Batch(f)) <= Len(Listing) /\ Len(Listing) \in Nat
    BY BatchOfDirectory, LenProperties, LookaheadAssumption
  <2>2. QED
    BY <2>1, LookaheadAssumption, SMT
<1>2. IInv => LowNeverDrops
  BY <1>1 DEF IInv, Room
<1>3. QED
  BY <1>2, LookaheadInvariant, PTL

\* Every strategy but psdl requests the file that missed: psdl alone searches
\* another order than the one it takes the window from.
THEOREM MissIsRequested ==
  ASSUME SearchesWhatItTakes
  PROVE  Spec => []MissRequestsItself
<1>1. IInv => MissRequestsItself
  BY DEF IInv
<1>2. QED
  BY <1>1, LookaheadInvariant, PTL

LEMMA InitRefines == Init => Abstract!Init
BY DEF Init, Abstract!Init

LEMMA StepRefines == IInv /\ [Next]_vars => [Abstract!Next]_(Abstract!requestVars)
<1> SUFFICES ASSUME IInv, [Next]_vars PROVE [Abstract!Next]_(Abstract!requestVars)
  OBVIOUS
<1> USE DEF Abstract!requestVars
<1>1. CASE Calls
  <2>1. ASSUME NEW f \in Files, Advise(f) PROVE Abstract!Advise(f)
    BY <2>1 DEF Advise, thread, Abstract!Advise
  <2>2. ASSUME NEW f \in Files, Miss(f) PROVE Abstract!Miss(f)
    BY <2>2 DEF Miss, thread, Abstract!Miss
  <2>3. QED
    BY <1>1, <2>1, <2>2 DEF Calls, Abstract!Next
<1>2. CASE Insert
  <2>1. value \in Files /\ value \in requested
    BY <1>2, LookaheadAssumption DEF Insert, IInv, TypeOK, Requested
  <2>2. Abstract!Insert(value)
    BY <1>2, <2>1 DEF Insert, history, Abstract!Insert
  <2>3. QED
    BY <2>1, <2>2 DEF Abstract!Next
<1>3. CASE Thread /\ ~Insert
  BY <1>3 DEF Thread, DequeueHigh, DequeueLow, DequeuePrefetch, EnqueueLow, WindowDone, history
<1>4. CASE UNCHANGED vars
  BY <1>4 DEF vars, thread, history
<1>5. QED
  BY <1>1, <1>2, <1>3, <1>4 DEF Next

\* Only files that were advised, or that belong to the window of a file that
\* missed, are ever inserted: what Acl assumes of the lookahead thread.
THEOREM LookaheadServesRequests == Spec => Implements
BY LookaheadInvariant, InitRefines, StepRefines, PTL DEF Spec, Implements, Abstract!Spec

-----------------------------------------------------------------------------
(* The names of copies.                                                    *)

LEMMA SameSeq ==
  ASSUME NEW s \in Seq(Nat), NEW t \in Seq(Nat), Len(s) = Len(t),
         \A i \in 1 .. Len(s) : s[i] = t[i]
  PROVE  s = t
<1>1. /\ s \in [1 .. Len(s) -> Nat] /\ t \in [1 .. Len(t) -> Nat]
  BY LenProperties
<1>2. QED
  BY <1>1

\* What follows a prefix, and that both together give the path.
LEMMA RestIs ==
  ASSUME NEW s \in Seq(Nat), NEW path \in Seq(Nat), IsPrefix(s, path)
  PROVE  LET rest == SubSeq(path, Len(s) + 1, Len(path)) IN
         /\ rest \in Seq(Nat) /\ Len(rest) = Len(path) - Len(s)
         /\ Len(s) <= Len(path)
         /\ \A i \in 1 .. Len(rest) : rest[i] = path[Len(s) + i]
         /\ \A i \in 1 .. Len(s) : path[i] = s[i]
<1> DEFINE n == Len(s)
           m == Len(path)
           rest == SubSeq(path, n + 1, m)
<1>1. n \in Nat /\ m \in Nat /\ n <= m /\ SubSeq(s, 1, n) = SubSeq(path, 1, n)
  BY LenProperties DEF IsPrefix
<1>2. \A i \in 1 .. m : path[i] \in Nat
  BY ElementOfSeq
<1>3. \A i \in 1 .. n : s[i] \in Nat
  BY ElementOfSeq
<1> HIDE DEF n, m
<1>4. /\ \A i \in n + 1 .. m : path[i] \in Nat
      /\ \A i \in 1 .. n : path[i] \in Nat
      /\ n + 1 \in Int /\ m \in Int /\ n \in Int /\ 1 \in Int
  BY <1>1, <1>2
<1>5. /\ rest \in Seq(Nat)
      /\ Len(rest) = IF n + 1 <= m THEN m - (n + 1) + 1 ELSE 0
      /\ \A i \in 1 .. m - (n + 1) + 1 : rest[i] = path[n + 1 + i - 1]
  BY <1>4, SubSeqProperties
<1>6. Len(rest) = m - n /\ m - (n + 1) + 1 = m - n
  BY <1>1, <1>5
<1>7. \A i \in 1 .. m - n : n + 1 + i - 1 = n + i
  BY <1>1
<1>8. \A i \in 1 .. Len(rest) : rest[i] = path[n + i]
  BY <1>5, <1>6, <1>7
<1>9. /\ \A i \in 1 .. n - 1 + 1 : SubSeq(path, 1, n)[i] = path[1 + i - 1]
      /\ \A i \in 1 .. n - 1 + 1 : SubSeq(s, 1, n)[i] = s[1 + i - 1]
  BY <1>3, <1>4, SubSeqProperties
<1>10. n - 1 + 1 = n /\ \A i \in 1 .. n : 1 + i - 1 = i
  BY <1>1
<1>11. \A i \in 1 .. n : path[i] = s[i]
  BY <1>1, <1>9, <1>10
<1>12. QED
  BY <1>1, <1>5, <1>6, <1>8, <1>11 DEF n, m

LEMMA FlatIs ==
  ASSUME NEW rest \in Seq(Nat)
  PROVE  /\ Flat(rest) \in Seq(Nat) /\ Len(Flat(rest)) = Len(rest)
         /\ \A i \in 1 .. Len(rest) :
              Flat(rest)[i] = IF i > 1 /\ rest[i] = Slash THEN Underscore ELSE rest[i]
<1>1. DOMAIN rest = 1 .. Len(rest) /\ Len(rest) \in Nat
  BY LenProperties
<1>2. \A i \in 1 .. Len(rest) : rest[i] \in Nat
  BY ElementOfSeq
<1>3. Underscore \in Nat
  BY DEF Underscore
<1>4. Flat(rest) \in [1 .. Len(rest) -> Nat]
  BY <1>1, <1>2, <1>3 DEF Flat
<1>5. Flat(rest) \in Seq(Nat)
  BY <1>1, <1>4, SeqDef
<1>6. Len(Flat(rest)) = Len(rest)
  BY <1>1, <1>4, <1>5, LenProperties
<1>7. QED
  BY <1>1, <1>5, <1>6 DEF Flat

\* Names without an underscore are told apart.
LEMMA FlatTells ==
  ASSUME NEW r \in Seq(Nat), NEW t \in Seq(Nat), Flat(r) = Flat(t),
         \A i \in 1 .. Len(r) : r[i] # Underscore,
         \A i \in 1 .. Len(t) : t[i] # Underscore
  PROVE  r = t
<1>1. Len(r) = Len(t)
  BY FlatIs
<1>2. ASSUME NEW i \in 1 .. Len(r) PROVE r[i] = t[i]
  <2>1. /\ Flat(r)[i] = IF i > 1 /\ r[i] = Slash THEN Underscore ELSE r[i]
        /\ Flat(t)[i] = IF i > 1 /\ t[i] = Slash THEN Underscore ELSE t[i]
    BY <1>1, FlatIs
  <2>2. r[i] # Underscore /\ t[i] # Underscore
    BY <1>1
  <2> QED
    BY <2>1, <2>2
<1>3. QED
  BY <1>1, <1>2, SameSeq

\* Characters are numbers, and a path is no NULL.
Characters ==
  /\ SourcePath \in Seq(Nat) /\ CachePath \in Seq(Nat) /\ Cwd \in Seq(Nat)
  /\ Spellings \subseteq Seq(Nat)
  /\ None \notin Seq(Nat)

\* A path below SOURCE_PATH from the root.
Below(path) ==
  /\ path \in Seq(Nat)
  /\ IsPrefix(SourcePath, path) /\ Len(SourcePath) < Len(path)
  /\ path[1] = Slash /\ path[Len(SourcePath) + 1] = Slash

Rest(path) == SubSeq(path, Len(SourcePath) + 1, Len(path))

\* No underscore in what follows SOURCE_PATH.
Plain(path) == \A i \in Len(SourcePath) + 1 .. Len(path) : path[i] # Underscore

LEMMA FullPath ==
  ASSUME Characters, NEW input \in Seq(Nat)
  PROVE  /\ get_full_path(input) \in Seq(Nat)
         /\ Len(input) > 0 /\ input[1] = Slash => get_full_path(input) = input
<1>1. <<Slash>> \in Seq(Nat) /\ Cwd \in Seq(Nat)
  BY DEF Characters, Slash
<1>2. Cwd \o <<Slash>> \in Seq(Nat)
  BY <1>1, ConcatProperties
<1>3. In(Cwd, input) \in Seq(Nat)
  BY <1>1, <1>2, ConcatProperties DEF In
<1>4. ASSUME Len(input) > 0, input[1] = Slash PROVE get_full_path(input) = input
  <2>1. input # <<>> /\ Head(input) = Slash
    BY <1>4
  <2> QED
    BY <2>1 DEF get_full_path
<1>5. QED
  BY <1>3, <1>4 DEF get_full_path

\* Two paths that share a copy are the same, or one has an underscore.
LEMMA CopyTells ==
  ASSUME Characters, NEW f \in Seq(Nat), NEW p \in Seq(Nat),
         Below(f), Plain(f), get_cache_path(p) = get_cache_path(f)
  PROVE  get_full_path(p) = f \/ Underscore \in ToSet(get_full_path(p))
<1> DEFINE q == get_full_path(p)
<1>1. q \in Seq(Nat) /\ get_full_path(f) = f /\ Len(f) \in Nat /\ Len(f) > 0
      /\ SourcePath \in Seq(Nat) /\ CachePath \in Seq(Nat) /\ Len(SourcePath) \in Nat
  <2>1. Len(f) \in Nat /\ Len(SourcePath) \in Nat /\ SourcePath \in Seq(Nat) /\ CachePath \in Seq(Nat)
    BY LenProperties DEF Characters
  <2>2. Len(f) > 0 /\ f[1] = Slash
    BY <2>1 DEF Below
  <2> QED
    BY <2>1, <2>2, FullPath
<1>2. get_cache_path(f) = CachePath \o Flat(Rest(f)) /\ IsPrefix(SourcePath, f)
  BY <1>1 DEF get_cache_path, Below, Rest
<1>3. Rest(f) \in Seq(Nat)
  BY <1>1, <1>2, RestIs DEF Rest
<1>4. CachePath \o Flat(Rest(f)) \in Seq(Nat)
  BY <1>1, <1>3, FlatIs, ConcatProperties
<1>5. IsPrefix(SourcePath, q) /\ get_cache_path(p) = CachePath \o Flat(Rest(q))
  BY <1>2, <1>4 DEF get_cache_path, Rest, Characters
<1> HIDE DEF q
<1>6. Rest(q) \in Seq(Nat)
  BY <1>1, <1>5, RestIs DEF Rest
<1>7. Flat(Rest(q)) = Flat(Rest(f))
  <2>1. Flat(Rest(q)) \in Seq(Nat) /\ Flat(Rest(f)) \in Seq(Nat)
    BY <1>3, <1>6, FlatIs
  <2> QED
    BY <1>1, <1>2, <1>5, <2>1, ConcatSimplifications
<1>8. SUFFICES ASSUME Underscore \notin ToSet(q) PROVE q = f
  BY DEF q
<1> DEFINE n == Len(SourcePath)
<1>9. /\ n \in Nat /\ n <= Len(q) /\ n <= Len(f) /\ Len(q) \in Nat
      /\ Len(Rest(q)) = Len(q) - n /\ Len(Rest(f)) = Len(f) - n
      /\ \A i \in 1 .. Len(Rest(q)) : Rest(q)[i] = q[n + i]
      /\ \A i \in 1 .. Len(Rest(f)) : Rest(f)[i] = f[n + i]
      /\ \A i \in 1 .. n : q[i] = SourcePath[i] /\ f[i] = SourcePath[i]
  BY <1>1, <1>2, <1>5, RestIs, LenProperties DEF Rest
<1>10. \A i \in 1 .. Len(q) : q[i] # Underscore
  <2>1. DOMAIN q = 1 .. Len(q)
    BY <1>1, LenProperties
  <2> QED
    BY <1>8, <2>1 DEF ToSet
<1>11. \A i \in n + 1 .. Len(f) : f[i] # Underscore
  BY DEF Plain
<1> HIDE DEF n
<1>12. \A i \in 1 .. Len(Rest(q)) : Rest(q)[i] # Underscore
  <2>1. \A i \in 1 .. Len(Rest(q)) : n + i \in 1 .. Len(q)
    BY <1>9
  <2> QED
    BY <1>9, <1>10, <2>1
<1>13. \A i \in 1 .. Len(Rest(f)) : Rest(f)[i] # Underscore
  <2>1. \A i \in 1 .. Len(Rest(f)) : n + i \in n + 1 .. Len(f)
    BY <1>1, <1>9
  <2> QED
    BY <1>9, <1>11, <2>1
<1>14. Rest(q) = Rest(f)
  BY <1>3, <1>6, <1>7, <1>12, <1>13, FlatTells
<1>15. Len(q) = Len(f)
  BY <1>1, <1>9, <1>14
<1>16. ASSUME NEW i \in 1 .. Len(q) PROVE q[i] = f[i]
  <2>1. CASE i <= n
    <3>1. i \in 1 .. n
      BY <1>9, <2>1
    <3> QED
      BY <1>9, <3>1
  <2>2. CASE ~(i <= n)
    <3>1. /\ i - n \in 1 .. Len(Rest(q)) /\ n + (i - n) = i
          /\ i - n \in 1 .. Len(Rest(f))
      BY <1>9, <1>15, <2>2
    <3>2. q[i] = Rest(q)[i - n] /\ f[i] = Rest(f)[i - n]
      BY <1>9, <3>1
    <3> QED
      BY <1>14, <3>2
  <2> QED
    BY <2>1, <2>2
<1>17. QED
  BY <1>1, <1>15, <1>16, SameSeq

\* A copy lies in CACHE_PATH itself.
LEMMA CopyLies ==
  ASSUME Characters, NEW f \in Seq(Nat), Below(f)
  PROVE  get_parent_path(get_cache_path(f)) = CachePath
<1> DEFINE r == Flat(Rest(f))
           c == CachePath \o r
           k == Len(CachePath)
           I == {i \in 1 .. Len(c) : c[i] = Slash}
<1>1. /\ Len(f) \in Nat /\ Len(f) > 0 /\ f[1] = Slash /\ IsPrefix(SourcePath, f)
      /\ SourcePath \in Seq(Nat) /\ CachePath \in Seq(Nat) /\ Len(SourcePath) \in Nat
      /\ k \in Nat /\ Len(SourcePath) < Len(f) /\ f[Len(SourcePath) + 1] = Slash
  <2>1. Len(f) \in Nat /\ Len(SourcePath) \in Nat /\ SourcePath \in Seq(Nat)
        /\ CachePath \in Seq(Nat) /\ k \in Nat
    BY LenProperties DEF Characters
  <2> QED
    BY <2>1 DEF Below
<1>2. get_cache_path(f) = c
  BY <1>1, FullPath DEF get_cache_path, Rest
<1>3. /\ Rest(f) \in Seq(Nat) /\ Len(Rest(f)) = Len(f) - Len(SourcePath)
      /\ \A i \in 1 .. Len(Rest(f)) : Rest(f)[i] = f[Len(SourcePath) + i]
  BY <1>1, RestIs DEF Rest
<1>4. /\ r \in Seq(Nat) /\ Len(r) \in Nat /\ Len(r) >= 1 /\ Len(r) = Len(Rest(f))
      /\ \A i \in 1 .. Len(r) :
           r[i] = IF i > 1 /\ Rest(f)[i] = Slash THEN Underscore ELSE Rest(f)[i]
  <2>1. /\ r \in Seq(Nat) /\ Len(r) = Len(Rest(f))
        /\ \A i \in 1 .. Len(Rest(f)) :
             r[i] = IF i > 1 /\ Rest(f)[i] = Slash THEN Underscore ELSE Rest(f)[i]
    BY <1>3, FlatIs
  <2> HIDE DEF r
  <2>2. Len(Rest(f)) \in Nat /\ Len(Rest(f)) >= 1
    BY <1>1, <1>3
  <2> QED
    BY <2>1, <2>2
<1>5. r[1] = Slash
  BY <1>1, <1>3, <1>4
<1>6. \A i \in 1 .. Len(r) : i > 1 => r[i] # Slash
  BY <1>4 DEF Slash, Underscore
<1> HIDE DEF r
<1>7. /\ c \in Seq(Nat) /\ Len(c) = k + Len(r)
      /\ \A i \in 1 .. k + Len(r) : c[i] = IF i <= k THEN CachePath[i] ELSE r[i - k]
  <2>1. CachePath \in Seq(Nat) /\ r \in Seq(Nat)
    BY <1>1, <1>4
  <2> QED
    BY <2>1, ConcatProperties
<1> HIDE DEF c, k
<1>8. k + 1 \in 1 .. Len(c) /\ c[k + 1] = Slash
  <2>1. k + 1 \in 1 .. Len(c) /\ ~(k + 1 <= k) /\ (k + 1) - k = 1
    BY <1>1, <1>4, <1>7
  <2> QED
    BY <1>5, <1>7, <2>1
<1>9. ASSUME NEW i \in I PROVE k + 1 >= i
  <2>1. /\ i \in 1 .. k + Len(r) /\ c[i] = Slash
        /\ k \in Nat /\ Len(r) \in Nat
    <3>1. i \in 1 .. k + Len(r) /\ c[i] = Slash
      BY <1>7
    <3>2. k \in Nat /\ Len(r) \in Nat
      BY <1>1, <1>4
    <3> QED
      BY <3>1, <3>2
  <2>2. SUFFICES ASSUME i > k + 1 PROVE FALSE
    BY <2>1
  <2>3. /\ ~(i <= k) /\ i - k \in 1 .. Len(r) /\ i - k > 1
    BY <2>1, <2>2
  <2> QED
    BY <1>6, <1>7, <2>1, <2>3
<1>10. k + 1 \in I
  BY <1>8
<1>11. I \subseteq Int
  OBVIOUS
<1> HIDE DEF I
<1>12. Max(I) = k + 1
  <2>1. \A x \in I : (\A y \in I : x >= y) => x = k + 1
    BY <1>1, <1>9, <1>10, <1>11
  <2>2. \E x \in I : \A y \in I : x >= y
    BY <1>9, <1>10
  <2> QED
    BY <2>1, <2>2 DEF Max
<1>13. SelectLastInSeq(c, LAMBDA ch : ch = Slash) = k + 1
  BY <1>10, <1>12 DEF SelectLastInSeq, I
<1>14. Slash \in ToSet(c)
  BY <1>7, <1>8, LenProperties DEF ToSet
<1>15. get_parent_path(c) = SubSeq(c, 1, (k + 1) - 1)
  BY <1>13, <1>14 DEF get_parent_path
<1>16. (k + 1) - 1 = k
  BY <1>1
<1>17. /\ SubSeq(c, 1, k) \in Seq(Nat) /\ Len(SubSeq(c, 1, k)) = k
       /\ \A i \in 1 .. k : SubSeq(c, 1, k)[i] = c[i]
  <2>1. \A i \in 1 .. k : c[i] \in Nat /\ i \in 1 .. k + Len(r) /\ i <= k /\ 1 + i - 1 = i
    <3>1. \A i \in 1 .. k : i \in 1 .. k + Len(r) /\ i <= k /\ 1 + i - 1 = i
      BY <1>1, <1>4
    <3> QED
      BY <1>7, <3>1, ElementOfSeq
  <2>2. k - 1 + 1 = k /\ k \in Int /\ 1 \in Int /\ (k = 0 \/ 1 <= k)
    BY <1>1
  <2>3. /\ SubSeq(c, 1, k) \in Seq(Nat)
        /\ Len(SubSeq(c, 1, k)) = IF 1 <= k THEN k - 1 + 1 ELSE 0
        /\ \A i \in 1 .. k - 1 + 1 : SubSeq(c, 1, k)[i] = c[1 + i - 1]
    BY <2>1, <2>2, SubSeqProperties
  <2> QED
    BY <2>1, <2>2, <2>3
<1>18. \A i \in 1 .. k : SubSeq(c, 1, k)[i] = CachePath[i]
  <2>1. \A i \in 1 .. k : i \in 1 .. k + Len(r) /\ i <= k
    BY <1>1, <1>4
  <2> QED
    BY <1>7, <1>17, <2>1
<1>19. SubSeq(c, 1, k) = CachePath
  BY <1>1, <1>17, <1>18, SameSeq DEF k
<1>20. QED
  BY <1>2, <1>15, <1>16, <1>19

\* path.c, get_cache_path: whatever is inserted has a copy in CACHE_PATH that it
\* shares with no other path, or with one that an underscore is part of, however
\* the application spells it.
THEOREM CopiesOfTheirOwn ==
  ASSUME Characters, Files = FilesOfFolder, \A f \in Files : Below(f) /\ Plain(f)
  PROVE  Spec => []CopiesSideBySide
<1>1. ASSUME NEW f \in Files PROVE f \in OwnCopies
  <2>1. f \in Seq(Nat) /\ Below(f) /\ Plain(f)
    BY DEF Below
  <2>2. \A p \in Spellings : p \in Seq(Nat)
    BY DEF Characters
  <2> QED
    BY <2>1, <2>2, CopyTells, CopyLies DEF OwnCopies
<1>2. IInv => CopiesSideBySide
  BY <1>1 DEF IInv, TypeOK, CopiesSideBySide
<1>3. QED
  BY <1>2, LookaheadInvariant, PTL
-----------------------------------------------------------------------------
(* Recursion over data: a function defined by recursion exists if the       *)
(* recursion comes to an end, which a least counterexample shows.          *)

\* Every nonempty set of numbers has a least element.
LEMMA LeastNumber ==
  ASSUME NEW S, S \subseteq Nat, S # {}
  PROVE  \E m \in S : \A k \in S : m <= k
<1>1. PICK m \in S : \A k \in S : ~(<<k, m>> \in OpToRel(<, Nat))
  BY NatLessThanWellFounded, WFMin, Zenon
<1>2. \A k \in S : ~(k < m)
  BY <1>1, Zenon DEF OpToRel
<1>3. QED
  BY <1>2

\* What F makes of a function on D at a point rests on its values at points of lower
\* rank, and the ranks are bounded.
RestsBelow(F, D, V, rank, bound) ==
  /\ V # {} /\ F \in [[D -> V] -> [D -> V]]
  /\ bound \in Nat /\ rank \in [D -> 0..bound]
  /\ \A g, h \in [D -> V] : \A p \in D :
       (\A q \in D : rank[q] < rank[p] => g[q] = h[q]) => F[g][p] = F[h][p]

\* Such a recursion defines a function.
LEMMA Recursion ==
  ASSUME NEW D, NEW V, NEW F, NEW rank, NEW bound, RestsBelow(F, D, V, rank, bound)
  PROVE  \E f \in [D -> V] : F[f] = f
<1> DEFINE Right(g, n) == \A p \in D : rank[p] < n => F[g][p] = g[p]
           Wrong == {n \in Nat : ~\E g \in [D -> V] : Right(g, n)}
<1>0. /\ V # {} /\ F \in [[D -> V] -> [D -> V]]
      /\ bound \in Nat /\ rank \in [D -> 0..bound]
  BY DEF RestsBelow
<1>1. Wrong = {}
  <2> SUFFICES ASSUME Wrong # {} PROVE FALSE
    OBVIOUS
  <2>1. PICK n \in Wrong : \A m \in Wrong : n <= m
    <3> HIDE DEF Wrong
    <3>1. Wrong \subseteq Nat
      BY DEF Wrong
    <3>2. QED
      BY <3>1, LeastNumber
  <2>2. n # 0
    <3>1. PICK v \in V : TRUE
      BY <1>0
    <3>2. [p \in D |-> v] \in [D -> V] /\ Right([p \in D |-> v], 0)
      BY <1>0
    <3>3. QED
      BY <3>2
  <2>3. n - 1 \in Nat /\ n - 1 \notin Wrong
    BY <2>1, <2>2
  <2>4. PICK g \in [D -> V] : Right(g, n - 1)
    BY <2>3
  <2>5. F[g] \in [D -> V]
    BY <1>0
  <2>6. ASSUME NEW p \in D, rank[p] < n PROVE F[F[g]][p] = F[g][p]
    <3>1. \A q \in D : rank[q] < rank[p] => F[g][q] = g[q]
      BY <1>0, <2>1, <2>4, <2>6
    <3>2. QED
      BY <2>5, <3>1 DEF RestsBelow
  <2>7. Right(F[g], n)
    BY <2>6
  <2>8. QED
    BY <2>1, <2>5, <2>7
<1>2. PICK g \in [D -> V] : Right(g, bound + 1)
  <2>1. bound + 1 \in Nat
    BY <1>0
  <2>2. QED
    BY <1>1, <2>1
<1>3. F[g] \in [D -> V] /\ \A p \in D : F[g][p] = g[p]
  BY <1>0, <1>2
<1>4. F[g] = g
  BY <1>0, <1>3
<1>5. QED
  BY <1>4

-----------------------------------------------------------------------------
(* Paths, character by character.                                          *)

\* The strings of C, and of this order.
Strings == Seq(Nat \ {0})
Ends(s) == 1..(Len(s) + 1)

LEMMA Character ==
  ASSUME NEW s \in Strings, NEW i \in Ends(s)
  PROVE  /\ CharAt(s, i) \in Nat
         /\ CharAt(s, i) = 0 <=> i = Len(s) + 1
         /\ i # Len(s) + 1 => i \in DOMAIN s /\ CharAt(s, i) = s[i] /\ i \in 1..Len(s)
         /\ i = Len(s) + 1 => i \notin DOMAIN s
         /\ Len(s) \in Nat /\ DOMAIN s = 1..Len(s)
BY LenProperties, ElementOfSeq DEF Strings, Ends, CharAt

\* strtol stops behind the digits.
LEMMA NumberEnds ==
  ASSUME NEW s \in Strings, NEW i \in Ends(s)
  PROVE  LET e == EndOfNumber(s, i) IN
         /\ e \in i..(Len(s) + 1)
         /\ CharAt(s, e) \notin Digits
         /\ \A k \in i..(e - 1) : s[k] \in Digits
         /\ CharAt(s, i) \in Digits => e > i
<1> DEFINE S == {k \in i..(Len(s) + 1) : CharAt(s, k) \notin Digits}
<1>1. Len(s) \in Nat /\ i \in 1..(Len(s) + 1)
  BY Character DEF Ends
<1>2. Len(s) + 1 \in S
  <2>1. Len(s) + 1 \in Ends(s)
    BY <1>1 DEF Ends
  <2>2. CharAt(s, Len(s) + 1) = 0
    BY <2>1, Character
  <2>3. QED
    BY <1>1, <2>2 DEF Digits, Zero
<1>3. PICK e \in S : \A k \in S : e <= k
  <2>1. S \subseteq Nat /\ S # {}
    BY <1>1, <1>2
  <2> HIDE DEF S
  <2>2. QED
    BY <2>1, LeastNumber
<1>4. \A k \in i..(e - 1) : s[k] \in Digits
  <2> SUFFICES ASSUME NEW k \in i..(e - 1) PROVE s[k] \in Digits
    OBVIOUS
  <2>1. k \in i..(Len(s) + 1) /\ k \notin S /\ k \in Ends(s) /\ k # Len(s) + 1
    BY <1>1, <1>3 DEF Ends
  <2>2. CharAt(s, k) \in Digits
    BY <2>1
  <2>3. QED
    BY <2>1, <2>2, Character
<1>5. \E x \in i..(Len(s) + 1) :
        CharAt(s, x) \notin Digits /\ \A k \in i..(x - 1) : s[k] \in Digits
  BY <1>3, <1>4
<1>6. /\ EndOfNumber(s, i) \in i..(Len(s) + 1)
      /\ CharAt(s, EndOfNumber(s, i)) \notin Digits
      /\ \A k \in i..(EndOfNumber(s, i) - 1) : s[k] \in Digits
  BY <1>5 DEF EndOfNumber
<1>7. QED
  BY <1>1, <1>6

LEMMA NumberIsInt ==
  ASSUME LongMax \in Int, NEW s \in Strings, NEW i \in Ends(s)
  PROVE  Number(s, i) \in Int
<1> DEFINE E == EndOfNumber(s, i)
           D == i..E
           F == [g \in [D -> Int] |->
                  [e \in D |-> IF e = i THEN 0
                               ELSE Min({LongMax, 10 * g[e - 1] + (s[e - 1] - Zero)})]]
<1>1. E \in Nat /\ i \in Nat /\ i <= E /\ E <= Len(s) + 1 /\ i >= 1
  BY NumberEnds, Character DEF Ends
<1> HIDE DEF E
<1>2. \A k \in i..(E - 1) : s[k] \in Int
  BY NumberEnds DEF Digits, Zero, E
<1>3. ASSUME NEW x \in Int, NEW y \in Int PROVE Min({x, y}) \in Int
  <2>1. \E m \in {x, y} : \A k \in {x, y} : m =< k
    BY x <= y \/ y <= x
  <2>2. QED
    BY <2>1 DEF Min
<1>4. ASSUME NEW e \in D, e # i, NEW v \in Int
      PROVE  e - 1 \in D /\ Min({LongMax, 10 * v + (s[e - 1] - Zero)}) \in Int
  <2>1. e - 1 \in D /\ e - 1 \in i..(E - 1)
    BY <1>1, <1>4
  <2>2. 10 * v + (s[e - 1] - Zero) \in Int
    BY <1>2, <2>1 DEF Zero
  <2>3. QED
    BY <1>3, <2>1, <2>2
<1>5. F \in [[D -> Int] -> [D -> Int]]
  <2> SUFFICES ASSUME NEW g \in [D -> Int], NEW e \in D
               PROVE  (IF e = i THEN 0
                       ELSE Min({LongMax, 10 * g[e - 1] + (s[e - 1] - Zero)})) \in Int
    OBVIOUS
  <2>1. CASE e = i
    BY <2>1
  <2>2. CASE e # i
    <3>1. e - 1 \in D
      BY <1>1, <2>2
    <3>2. g[e - 1] \in Int
      BY <3>1
    <3>3. QED
      BY <1>4, <2>2, <3>2
  <2>3. QED
    BY <2>1, <2>2
<1>6. \E f \in [D -> Int] : F[f] = f
  <2> DEFINE rank == [e \in D |-> e - i]
  <2>1. rank \in [D -> 0..E] /\ E \in Nat
    BY <1>1
  <2>2. ASSUME NEW g \in [D -> Int], NEW h \in [D -> Int], NEW e \in D,
               \A q \in D : rank[q] < rank[e] => g[q] = h[q]
        PROVE  F[g][e] = F[h][e]
    <3>1. CASE e = i
      BY <3>1
    <3>2. CASE e # i
      <4>1. g[e - 1] = h[e - 1]
        BY <1>1, <1>4, <2>2, <3>2
      <4>2. QED
        BY <3>2, <4>1
    <3>3. QED
      BY <3>1, <3>2
  <2> HIDE DEF F, rank, D
  <2>3. RestsBelow(F, D, Int, rank, E)
    BY <1>5, <2>1, <2>2 DEF RestsBelow
  <2>4. QED
    BY <2>3, Recursion
<1> DEFINE Is(f) == f = [e \in D |-> IF e = i THEN 0
                            ELSE Min({LongMax, 10 * f[e - 1] + (s[e - 1] - Zero)})]
           upTo == CHOOSE f : Is(f)
<1>7. Is(upTo)
  <2>1. \E f : Is(f)
    BY <1>6
  <2> HIDE DEF Is
  <2>2. QED
    BY <2>1
<1>8. Number(s, i) = upTo[E]
  BY DEF Number, E
<1> DEFINE Wrong == {n \in Nat : n \in D /\ upTo[n] \notin Int}
<1>9. Wrong = {}
  <2> SUFFICES ASSUME Wrong # {} PROVE FALSE
    OBVIOUS
  <2> HIDE DEF upTo
  <2>1. PICK n \in Wrong : \A m \in Wrong : n <= m
    <3>1. Wrong \subseteq Nat
      OBVIOUS
    <3> HIDE DEF Wrong
    <3>2. QED
      BY <3>1, LeastNumber
  <2>2. n \in D /\ n # i
    BY <1>7, <2>1
  <2>3. n - 1 \in D /\ n - 1 \notin Wrong /\ n - 1 \in Nat
    BY <1>1, <2>1, <2>2
  <2>4. upTo[n - 1] \in Int
    BY <2>3
  <2>5. upTo[n] = Min({LongMax, 10 * upTo[n - 1] + (s[n - 1] - Zero)})
    BY <1>7, <2>2
  <2>6. QED
    BY <1>4, <2>1, <2>2, <2>4, <2>5
<1>10. E \in D /\ E \in Nat
  BY <1>1
<1>11. QED
  <2> HIDE DEF upTo
  <2>1. QED
    BY <1>8, <1>9, <1>10

-----------------------------------------------------------------------------
(* Tokens.                                                                 *)

\* Where a token begins, or the path ends.
Stops(s) == Begins(s) \cup {Len(s) + 1}

\* Where the next one does.
After(s, i) == IF s[i] \in Digits THEN EndOfNumber(s, i) ELSE i + 1

LEMMA StopsAreEnds ==
  ASSUME NEW s \in Strings
  PROVE  /\ Stops(s) \subseteq Ends(s) /\ Len(s) + 1 \in Stops(s)
         /\ 1 \in Stops(s) /\ Len(s) \in Nat
         /\ Begins(s) = Stops(s) \ {Len(s) + 1}
         /\ \A i \in Stops(s) : i \in Nat /\ i <= Len(s) + 1
<1>1. Len(s) \in Nat /\ DOMAIN s = 1..Len(s)
  BY LenProperties DEF Strings
<1>2. Begins(s) \subseteq 1..Len(s)
  BY <1>1 DEF Begins
<1>3. Len(s) # 0 => 1 \in Begins(s)
  BY <1>1 DEF Begins
<1>4. QED
  BY <1>1, <1>2, <1>3 DEF Stops, Ends

\* The order of two tokens is the order of their characters, if these differ; that of
\* two numbers is the order of their values.
LEMMA TokenValues ==
  ASSUME LongMax \in Int, NEW s \in Strings, NEW i \in Ends(s)
  PROVE  /\ i = Len(s) + 1 => Token(s, i) = <<0, 0>>
         /\ i # Len(s) + 1 /\ CharAt(s, i) \in Digits => Token(s, i) = <<Zero, Number(s, i)>>
         /\ i # Len(s) + 1 /\ CharAt(s, i) \notin Digits => Token(s, i) = <<CharAt(s, i), 0>>
         /\ Token(s, i) \in Nat \X Int
<1>1. i = Len(s) + 1 => Token(s, i) = <<0, 0>>
  BY Character DEF Token
<1>2. i # Len(s) + 1 /\ CharAt(s, i) \in Digits => Token(s, i) = <<Zero, Number(s, i)>>
  BY Character DEF Token
<1>3. i # Len(s) + 1 /\ CharAt(s, i) \notin Digits => Token(s, i) = <<CharAt(s, i), 0>>
  BY Character DEF Token
<1>4. CharAt(s, i) \in Nat /\ Number(s, i) \in Int /\ Zero \in Nat
  BY Character, NumberIsInt DEF Zero
<1>5. QED
  BY <1>1, <1>2, <1>3, <1>4

Tokens == Nat \X Int

LEMMA LessIsOrder ==
  ASSUME NEW t \in Tokens, NEW u \in Tokens
  PROVE  /\ t = u \/ Less(t, u) \/ Less(u, t)
         /\ ~(Less(t, u) /\ Less(u, t)) /\ ~Less(t, t)
         /\ \A v \in Tokens : Less(t, u) /\ Less(u, v) => Less(t, v)
BY DEF Less, Tokens

\* A number is a token, and so is any other character.
LEMMA NextToken ==
  ASSUME NEW s \in Strings, NEW i \in Begins(s)
  PROVE  /\ After(s, i) \in Stops(s) /\ After(s, i) > i
         /\ Before(s, After(s, i)) = Before(s, i) \cup {i}
         /\ i \notin Before(s, i)
<1> DEFINE e == After(s, i)
<1>1. /\ Len(s) \in Nat /\ DOMAIN s = 1..Len(s) /\ i \in 1..Len(s) /\ i \in Ends(s)
      /\ CharAt(s, i) = s[i]
  <2>1. i \in Stops(s) /\ i # Len(s) + 1
    BY StopsAreEnds
  <2>2. i \in Ends(s)
    BY <2>1, StopsAreEnds
  <2>3. QED
    BY <2>1, <2>2, Character
<1>2. /\ e \in (i + 1)..(Len(s) + 1)
      /\ e # Len(s) + 1 => ~(s[e] \in Digits /\ s[e - 1] \in Digits)
      /\ \A k \in (i + 1)..(e - 1) : s[k] \in Digits /\ s[k - 1] \in Digits
  <2>1. CASE s[i] \in Digits
    <3>1. e = EndOfNumber(s, i)
      BY <2>1 DEF After
    <3>2. /\ e \in i..(Len(s) + 1) /\ e > i
          /\ CharAt(s, e) \notin Digits
          /\ \A k \in i..(e - 1) : s[k] \in Digits
      BY <1>1, <2>1, <3>1, NumberEnds
    <3>3. e # Len(s) + 1 => s[e] \notin Digits
      BY <1>1, <3>2 DEF CharAt
    <3> HIDE DEF e
    <3>4. QED
      BY <1>1, <3>2, <3>3
  <2>2. CASE s[i] \notin Digits
    <3>1. e = i + 1
      BY <2>2 DEF After
    <3>2. QED
      BY <1>1, <2>2, <3>1
  <2>3. QED
    BY <2>1, <2>2
<1> HIDE DEF e
<1>3. e \in Stops(s)
  BY <1>1, <1>2 DEF Stops, Begins
<1>4. ASSUME NEW k \in Begins(s) PROVE k < e <=> k < i \/ k = i
  <2>1. k \in 1..Len(s) /\ (k > 1 => ~(s[k] \in Digits /\ s[k - 1] \in Digits))
    BY <1>1 DEF Begins
  <2>2. k \notin (i + 1)..(e - 1)
    BY <1>1, <1>2, <2>1
  <2>3. QED
    BY <1>1, <1>2, <2>1, <2>2
<1>5. Before(s, e) = Before(s, i) \cup {i}
  BY <1>4 DEF Before
<1>6. i \notin Before(s, i)
  BY <1>1 DEF Before
<1>7. QED
  BY <1>1, <1>2, <1>3, <1>5, <1>6 DEF e

-----------------------------------------------------------------------------
(* The recursion of compare_path.                                          *)

\* One turn of the loop, for a function from positions to results.
Turn(a, b, from, p) ==
  LET i == p[1]            j == p[2]
      c == CharAt(a, i)    d == CharAt(b, j) IN
  IF c = 0 \/ d = 0 THEN c - d
  ELSE IF BothDigits(c, d)
  THEN IF Number(a, i) # Number(b, j) THEN Number(a, i) - Number(b, j)
       ELSE from[<<EndOfNumber(a, i), EndOfNumber(b, j)>>]
  ELSE IF c # d THEN c - d ELSE from[<<i + 1, j + 1>>]

LEMMA ComparedUnfolds ==
  ASSUME LongMax \in Int, NEW a \in Strings, NEW b \in Strings
  PROVE  \A p \in Ends(a) \X Ends(b) : Compared(a, b)[p] = Turn(a, b, Compared(a, b), p)
<1> DEFINE D == Ends(a) \X Ends(b)
           F == [g \in [D -> Int] |-> [p \in D |-> Turn(a, b, g, p)]]
           rank == [p \in D |-> ((Len(a) + 1) - p[1]) + ((Len(b) + 1) - p[2])]
           bound == Len(a) + Len(b)
<1>1. Len(a) \in Nat /\ Len(b) \in Nat
  BY LenProperties DEF Strings
<1>2. ASSUME NEW p \in D
      PROVE  LET i == p[1]  j == p[2]  c == CharAt(a, i)  d == CharAt(b, j) IN
             /\ i \in Ends(a) /\ j \in Ends(b) /\ c \in Nat /\ d \in Nat
             /\ Number(a, i) \in Int /\ Number(b, j) \in Int
             /\ c # 0 /\ d # 0 =>
                  /\ <<i + 1, j + 1>> \in D /\ rank[<<i + 1, j + 1>>] < rank[p]
                  /\ BothDigits(c, d) =>
                       /\ <<EndOfNumber(a, i), EndOfNumber(b, j)>> \in D
                       /\ rank[<<EndOfNumber(a, i), EndOfNumber(b, j)>>] < rank[p]
  <2>1. /\ p[1] \in Ends(a) /\ p[2] \in Ends(b)
        /\ CharAt(a, p[1]) \in Nat /\ CharAt(b, p[2]) \in Nat
        /\ Number(a, p[1]) \in Int /\ Number(b, p[2]) \in Int
    BY Character, NumberIsInt
  <2>2. ASSUME CharAt(a, p[1]) # 0, CharAt(b, p[2]) # 0
        PROVE  p[1] \in 1..Len(a) /\ p[2] \in 1..Len(b)
    BY <2>1, <2>2, Character DEF Ends
  <2>3. ASSUME NEW x \in (p[1] + 1)..(Len(a) + 1), NEW y \in (p[2] + 1)..(Len(b) + 1)
        PROVE  <<x, y>> \in D /\ rank[<<x, y>>] < rank[p]
    <3>1. <<x, y>> \in D
      BY <1>1, <2>1 DEF Ends
    <3>2. rank[<<x, y>>] = ((Len(a) + 1) - x) + ((Len(b) + 1) - y)
      BY <3>1
    <3>3. rank[p] = ((Len(a) + 1) - p[1]) + ((Len(b) + 1) - p[2])
      OBVIOUS
    <3>4. p[1] \in Nat /\ p[2] \in Nat
      BY <2>1 DEF Ends
    <3>5. x \in Int /\ y \in Int /\ p[1] < x /\ p[2] < y
      BY <1>1, <3>4
    <3> HIDE DEF rank, D
    <3>6. \A k, l, u, v \in Int :
            u < x /\ v < y => (k - x) + (l - y) < (k - u) + (l - v)
      BY <3>5
    <3>7. QED
      BY <1>1, <3>1, <3>2, <3>3, <3>4, <3>5, <3>6
  <2>4. ASSUME CharAt(a, p[1]) # 0, CharAt(b, p[2]) # 0
        PROVE  p[1] + 1 \in (p[1] + 1)..(Len(a) + 1) /\ p[2] + 1 \in (p[2] + 1)..(Len(b) + 1)
    BY <1>1, <2>2, <2>4
  <2>5. ASSUME BothDigits(CharAt(a, p[1]), CharAt(b, p[2]))
        PROVE  /\ EndOfNumber(a, p[1]) \in (p[1] + 1)..(Len(a) + 1)
               /\ EndOfNumber(b, p[2]) \in (p[2] + 1)..(Len(b) + 1)
    <3>1. CharAt(a, p[1]) \in Digits /\ CharAt(b, p[2]) \in Digits
      BY <2>5 DEF BothDigits
    <3>2. /\ EndOfNumber(a, p[1]) \in p[1]..(Len(a) + 1) /\ EndOfNumber(a, p[1]) > p[1]
          /\ EndOfNumber(b, p[2]) \in p[2]..(Len(b) + 1) /\ EndOfNumber(b, p[2]) > p[2]
      BY <2>1, <3>1, NumberEnds
    <3>3. QED
      BY <1>1, <2>1, <3>2 DEF Ends
  <2> HIDE DEF D, rank
  <2>6. QED
    BY <2>1, <2>3, <2>4, <2>5
<1> HIDE DEF rank
<1>3. F \in [[D -> Int] -> [D -> Int]]
  <2> SUFFICES ASSUME NEW g \in [D -> Int], NEW p \in D PROVE Turn(a, b, g, p) \in Int
    OBVIOUS
  <2> HIDE DEF D
  <2>1. QED
    BY <1>2 DEF Turn
<1>4. ASSUME NEW g \in [D -> Int], NEW h \in [D -> Int], NEW p \in D,
             \A q \in D : rank[q] < rank[p] => g[q] = h[q]
      PROVE  F[g][p] = F[h][p]
  <2>1. F[g][p] = Turn(a, b, g, p) /\ F[h][p] = Turn(a, b, h, p)
    OBVIOUS
  <2> HIDE DEF D, F
  <2>2. QED
    BY <1>2, <1>4, <2>1 DEF Turn
<1>5. rank \in [D -> 0..bound] /\ bound \in Nat
  BY <1>1 DEF rank, Ends
<1>6. RestsBelow(F, D, Int, rank, bound)
  <2> HIDE DEF F, D, bound
  <2>1. QED
    BY <1>3, <1>4, <1>5 DEF RestsBelow
<1>7. \E f \in [D -> Int] : F[f] = f
  <2> HIDE DEF F, D, bound
  <2>1. QED
    BY <1>6, Recursion
<1>8. \E f : f = [p \in D |-> Turn(a, b, f, p)]
  BY <1>7
<1>9. Compared(a, b) = CHOOSE f : f = [p \in D |-> Turn(a, b, f, p)]
  BY DEF Compared, Turn, Ends
<1>10. QED
  BY <1>8, <1>9

\* What a turn makes of the tokens at two positions.
LEMMA TokensCompared ==
  ASSUME LongMax \in Int, NEW a \in Strings, NEW b \in Strings,
         NEW i \in Stops(a), NEW j \in Stops(b)
  PROVE  LET from == Compared(a, b) IN
         /\ Less(Token(a, i), Token(b, j)) => from[<<i, j>>] \in Int /\ from[<<i, j>>] < 0
         /\ Less(Token(b, j), Token(a, i)) => from[<<i, j>>] \in Int /\ from[<<i, j>>] > 0
         /\ Token(a, i) = Token(b, j) =>
              \/ i = Len(a) + 1 /\ j = Len(b) + 1 /\ from[<<i, j>>] = 0
              \/ /\ i \in Begins(a) /\ j \in Begins(b)
                 /\ from[<<i, j>>] = from[<<After(a, i), After(b, j)>>]
<1> DEFINE c == CharAt(a, i)
           d == CharAt(b, j)
           from == Compared(a, b)
<1>1. i \in Ends(a) /\ j \in Ends(b)
  BY StopsAreEnds
<1>2. from[<<i, j>>] = Turn(a, b, from, <<i, j>>)
  BY <1>1, ComparedUnfolds
<1>3. /\ c \in Nat /\ d \in Nat
      /\ c = 0 <=> i = Len(a) + 1
      /\ d = 0 <=> j = Len(b) + 1
      /\ c # 0 => i \in Begins(a) /\ a[i] = c
      /\ d # 0 => j \in Begins(b) /\ b[j] = d
  BY <1>1, Character, StopsAreEnds
<1>4. /\ c = 0 => Token(a, i) = <<0, 0>>
      /\ d = 0 => Token(b, j) = <<0, 0>>
      /\ c # 0 => Token(a, i) = IF c \in Digits THEN <<Zero, Number(a, i)>> ELSE <<c, 0>>
      /\ d # 0 => Token(b, j) = IF d \in Digits THEN <<Zero, Number(b, j)>> ELSE <<d, 0>>
      /\ Number(a, i) \in Int /\ Number(b, j) \in Int
  BY <1>1, <1>3, TokenValues, NumberIsInt
<1>5. c # 0 /\ d # 0 =>
        After(a, i) = (IF c \in Digits THEN EndOfNumber(a, i) ELSE i + 1)
        /\ After(b, j) = (IF d \in Digits THEN EndOfNumber(b, j) ELSE j + 1)
  BY <1>3 DEF After
<1>6. from[<<i, j>>] =
        IF c = 0 \/ d = 0 THEN c - d
        ELSE IF c \in Digits /\ d \in Digits
        THEN IF Number(a, i) # Number(b, j) THEN Number(a, i) - Number(b, j)
             ELSE from[<<After(a, i), After(b, j)>>]
        ELSE IF c # d THEN c - d ELSE from[<<After(a, i), After(b, j)>>]
  BY <1>2, <1>5 DEF Turn, BothDigits
<1> HIDE DEF c, d, from
<1>7. CASE c = 0 \/ d = 0
  <2>1. from[<<i, j>>] = c - d
    BY <1>6, <1>7
  <2>2. QED
    BY <1>3, <1>4, <1>7, <2>1 DEF Less, Zero, from
<1>8. CASE c # 0 /\ d # 0 /\ c \in Digits /\ d \in Digits
  BY <1>3, <1>4, <1>6, <1>8 DEF Less, Zero, from
<1>9. CASE c # 0 /\ d # 0 /\ ~(c \in Digits /\ d \in Digits)
  BY <1>3, <1>4, <1>6, <1>9 DEF Less, Digits, Zero, from
<1>10. QED
  BY <1>7, <1>8, <1>9

-----------------------------------------------------------------------------
(* The natural order.                                                      *)

LEMMA BeforeGrows ==
  ASSUME NEW s \in Strings, NEW i \in Stops(s)
  PROVE  /\ IsFiniteSet(Before(s, i)) /\ Cardinality(Before(s, i)) \in Nat
         /\ \A k \in Stops(s) :
              i < k => Cardinality(Before(s, i)) < Cardinality(Before(s, k))
<1>1. ASSUME NEW k \in Stops(s)
      PROVE  IsFiniteSet(Before(s, k)) /\ Cardinality(Before(s, k)) \in Nat
  <2>1. Before(s, k) \subseteq 1..(Len(s) + 1)
    BY StopsAreEnds DEF Before, Ends
  <2>2. IsFiniteSet(1..(Len(s) + 1))
    BY FS_Interval, StopsAreEnds
  <2>3. IsFiniteSet(Before(s, k))
    BY <2>1, <2>2, FS_Subset
  <2>4. QED
    BY <2>3, FS_CardinalityType
<1>2. ASSUME NEW k \in Stops(s), i < k
      PROVE  Cardinality(Before(s, i)) < Cardinality(Before(s, k))
  <2>1. i \in Before(s, k) /\ i \notin Before(s, i)
    BY <1>2, StopsAreEnds DEF Before
  <2>2. Before(s, i) \subseteq Before(s, k)
    <3>1. Begins(s) \subseteq Nat /\ i \in Nat /\ k \in Nat
      BY StopsAreEnds
    <3>2. QED
      BY <1>2, <3>1 DEF Before
  <2>3. QED
    BY <1>1, <2>1, <2>2, FS_Subset
<1>3. QED
  BY <1>1, <1>2

LEMMA SidesInStep ==
  ASSUME NEW a \in Strings, NEW b \in Strings, NEW p \in Sides(a, b), NEW q \in Sides(a, b)
  PROVE  /\ p[1] \in Stops(a) /\ p[2] \in Stops(b) /\ p = <<p[1], p[2]>>
         /\ p[1] \in Nat /\ p[2] \in Nat
         /\ Cardinality(Before(a, p[1])) = Cardinality(Before(b, p[2]))
         /\ q[1] < p[1] <=> q[2] < p[2]
         /\ q[1] = p[1] <=> q[2] = p[2]
<1>1. ASSUME NEW r \in Sides(a, b)
      PROVE  /\ r[1] \in Stops(a) /\ r[2] \in Stops(b) /\ r = <<r[1], r[2]>>
             /\ Cardinality(Before(a, r[1])) = Cardinality(Before(b, r[2]))
             /\ r[1] \in Nat /\ r[2] \in Nat
  BY StopsAreEnds DEF Sides, Stops
<1> DEFINE A(k) == Cardinality(Before(a, k))
           B(k) == Cardinality(Before(b, k))
<1>2. /\ A(p[1]) \in Nat /\ A(q[1]) \in Nat
      /\ p[1] < q[1] => A(p[1]) < A(q[1])
      /\ q[1] < p[1] => A(q[1]) < A(p[1])
  BY <1>1, BeforeGrows
<1>3. /\ p[2] < q[2] => B(p[2]) < B(q[2])
      /\ q[2] < p[2] => B(q[2]) < B(p[2])
  BY <1>1, BeforeGrows
<1>4. A(p[1]) = B(p[2]) /\ A(q[1]) = B(q[2])
  BY <1>1
<1> HIDE DEF A, B
<1>5. /\ q[1] < p[1] <=> q[2] < p[2]
      /\ q[1] = p[1] <=> q[2] = p[2]
  BY <1>1, <1>2, <1>3, <1>4
<1>6. QED
  BY <1>1, <1>5

\* Up to here, the tokens of both paths are the same.
AlikeBefore(a, b, p) ==
  /\ p \in Sides(a, b)
  /\ \A q \in Sides(a, b) : q[1] < p[1] => Token(a, q[1]) = Token(b, q[2])

LEMMA AlikeSwapped ==
  ASSUME NEW a \in Strings, NEW b \in Strings, NEW p, AlikeBefore(a, b, p)
  PROVE  AlikeBefore(b, a, <<p[2], p[1]>>)
<1>1. \A q : q \in Sides(b, a) => <<q[2], q[1]>> \in Sides(a, b)
  BY DEF Sides
<1>2. p \in Sides(a, b) /\ <<p[2], p[1]>> \in Sides(b, a)
  BY DEF Sides, AlikeBefore
<1>3. ASSUME NEW q \in Sides(b, a), q[1] < p[2]
      PROVE  Token(b, q[1]) = Token(a, q[2])
  <2>1. <<q[2], q[1]>> \in Sides(a, b)
    BY <1>1
  <2>2. q[2] < p[1]
    BY <1>2, <1>3, <2>1, SidesInStep
  <2>3. QED
    BY <2>1, <2>2 DEF AlikeBefore
<1>4. QED
  BY <1>2, <1>3 DEF AlikeBefore

\* Paths differ first at one place only.
LEMMA OneDifference ==
  ASSUME NEW a \in Strings, NEW b \in Strings,
         NEW p, AlikeBefore(a, b, p), NEW q, AlikeBefore(a, b, q),
         Token(a, q[1]) # Token(b, q[2])
  PROVE  p = q \/ (p[1] < q[1] /\ Token(a, p[1]) = Token(b, p[2]))
<1>1. p \in Sides(a, b) /\ q \in Sides(a, b)
  BY DEF AlikeBefore
<1>2. /\ p[1] \in Nat /\ q[1] \in Nat /\ p = <<p[1], p[2]>> /\ q = <<q[1], q[2]>>
      /\ q[1] = p[1] <=> q[2] = p[2]
  BY <1>1, SidesInStep
<1>3. ~(q[1] < p[1])
  BY <1>1 DEF AlikeBefore
<1>4. p[1] < q[1] => Token(a, p[1]) = Token(b, p[2])
  BY <1>1 DEF AlikeBefore
<1>5. QED
  BY <1>2, <1>3, <1>4

LEMMA DifferenceDecides ==
  ASSUME LongMax \in Int, NEW a \in Strings, NEW b \in Strings,
         NEW p, AlikeBefore(a, b, p), Less(Token(a, p[1]), Token(b, p[2]))
  PROVE  Precedes(a, b) /\ ~Precedes(b, a)
<1>1. p \in Sides(a, b) /\ p[1] \in Stops(a) /\ p[2] \in Stops(b)
  BY SidesInStep DEF AlikeBefore
<1>2. Token(a, p[1]) \in Tokens /\ Token(b, p[2]) \in Tokens
  BY <1>1, TokenValues, StopsAreEnds DEF Tokens
<1>3. Precedes(a, b)
  BY DEF Precedes, AlikeBefore
<1>4. ASSUME Precedes(b, a) PROVE FALSE
  <2>1. PICK r \in Sides(b, a) : AlikeBefore(b, a, r) /\ Less(Token(b, r[1]), Token(a, r[2]))
    BY <1>4 DEF Precedes, AlikeBefore
  <2>2. AlikeBefore(a, b, <<r[2], r[1]>>)
    BY <2>1, AlikeSwapped
  <2>3. Token(a, p[1]) # Token(b, p[2]) /\ ~Less(Token(b, p[2]), Token(a, p[1]))
    BY <1>2, LessIsOrder
  <2>4. Token(b, r[1]) # Token(a, r[2])
    <3>1. r[1] \in Stops(b)
      BY SidesInStep
    <3>2. Token(b, r[1]) \in Tokens
      BY <3>1, TokenValues, StopsAreEnds DEF Tokens
    <3>3. QED
      BY <2>1, <3>2, LessIsOrder
  <2>5. p = <<r[2], r[1]>>
    BY <2>2, <2>3, <2>4, OneDifference
  <2>6. QED
    BY <2>1, <2>3, <2>5
<1>5. QED
  BY <1>3, <1>4

LEMMA EndsDecide ==
  ASSUME LongMax \in Int, NEW a \in Strings, NEW b \in Strings,
         AlikeBefore(a, b, <<Len(a) + 1, Len(b) + 1>>)
  PROVE  ~Precedes(a, b)
<1> DEFINE p == <<Len(a) + 1, Len(b) + 1>>
<1> SUFFICES ASSUME Precedes(a, b) PROVE FALSE
  OBVIOUS
<1>1. PICK r \in Sides(a, b) : AlikeBefore(a, b, r) /\ Less(Token(a, r[1]), Token(b, r[2]))
  BY DEF Precedes, AlikeBefore
<1>2. r[1] \in Stops(a) /\ r[1] <= Len(a) + 1 /\ r[1] \in Nat /\ Len(a) \in Nat
  BY SidesInStep, StopsAreEnds
<1>3. Token(a, r[1]) # Token(b, r[2])
  <2>1. Token(a, r[1]) \in Tokens
    BY <1>2, TokenValues, StopsAreEnds DEF Tokens
  <2>2. QED
    BY <1>1, <2>1, LessIsOrder
<1>4. p = r
  BY <1>1, <1>2, <1>3, OneDifference
<1>5. Token(a, p[1]) = Token(b, p[2])
  BY TokenValues, StopsAreEnds
<1>6. QED
  BY <1>3, <1>4, <1>5

LEMMA AlikeFurther ==
  ASSUME NEW a \in Strings, NEW b \in Strings, NEW p, AlikeBefore(a, b, p),
         p[1] \in Begins(a), p[2] \in Begins(b), Token(a, p[1]) = Token(b, p[2])
  PROVE  AlikeBefore(a, b, <<After(a, p[1]), After(b, p[2])>>)
<1> DEFINE i == After(a, p[1])
           j == After(b, p[2])
<1>1. /\ i \in Stops(a) /\ Before(a, i) = Before(a, p[1]) \cup {p[1]}
      /\ p[1] \notin Before(a, p[1])
      /\ j \in Stops(b) /\ Before(b, j) = Before(b, p[2]) \cup {p[2]}
      /\ p[2] \notin Before(b, p[2])
  BY NextToken
<1>2. p \in Sides(a, b) /\ p[1] \in Stops(a) /\ p[2] \in Stops(b)
      /\ Cardinality(Before(a, p[1])) = Cardinality(Before(b, p[2]))
  BY SidesInStep DEF AlikeBefore
<1>3. Cardinality(Before(a, i)) = Cardinality(Before(b, j))
  <2>a. IsFiniteSet(Before(a, p[1])) /\ IsFiniteSet(Before(b, p[2]))
    BY <1>2, BeforeGrows
  <2> HIDE DEF i, j
  <2>1. Cardinality(Before(a, i)) = Cardinality(Before(a, p[1])) + 1
    BY <1>1, <2>a, FS_AddElement
  <2>2. Cardinality(Before(b, j)) = Cardinality(Before(b, p[2])) + 1
    BY <1>1, <2>a, FS_AddElement
  <2>3. QED
    BY <1>2, <2>1, <2>2
<1>4. <<i, j>> \in Sides(a, b)
  BY <1>1, <1>3 DEF Sides, Stops
<1>5. ASSUME NEW q \in Sides(a, b), q[1] < i PROVE Token(a, q[1]) = Token(b, q[2])
  <2>1. q[1] \in Stops(a) /\ q[1] \in Nat
    BY SidesInStep
  <2>2. q[1] \in Begins(a)
    BY <1>1, <1>5, <2>1, StopsAreEnds
  <2>3. q[1] < p[1] \/ q[1] = p[1]
    BY <1>1, <1>5, <2>2 DEF Before
  <2>4. q[1] = p[1] => q[2] = p[2]
    BY <1>2, SidesInStep
  <2>5. QED
    BY <2>3, <2>4 DEF AlikeBefore
<1>6. QED
  BY <1>4, <1>5 DEF AlikeBefore

\* From where the paths are alike, the recursion finds the first difference.
LEMMA FindsDifference ==
  ASSUME LongMax \in Int, NEW a \in Strings, NEW b \in Strings
  PROVE  \A p : AlikeBefore(a, b, p) =>
           /\ Compared(a, b)[p] < 0 <=> Precedes(a, b)
           /\ Compared(a, b)[p] > 0 <=> Precedes(b, a)
<1> DEFINE from == Compared(a, b)
           Right(p) == /\ from[p] < 0 <=> Precedes(a, b)
                       /\ from[p] > 0 <=> Precedes(b, a)
           Wrong == {n \in Nat : \E p : /\ AlikeBefore(a, b, p)
                                        /\ n = Len(a) + 1 - p[1] /\ ~Right(p)}
<1>1. ASSUME NEW p, AlikeBefore(a, b, p)
      PROVE  /\ p[1] \in Stops(a) /\ p[2] \in Stops(b) /\ p = <<p[1], p[2]>>
             /\ Len(a) \in Nat /\ Len(a) + 1 - p[1] \in Nat /\ p[1] \in Nat
  BY <1>1, SidesInStep, StopsAreEnds DEF AlikeBefore
<1>2. ASSUME Wrong # {} PROVE FALSE
  <2>1. PICK n \in Wrong : \A m \in Wrong : n <= m
    <3> HIDE DEF Wrong
    <3>1. Wrong \subseteq Nat
      BY DEF Wrong
    <3>2. QED
      BY <1>2, <3>1, LeastNumber
  <2>2. PICK p : AlikeBefore(a, b, p) /\ n = Len(a) + 1 - p[1] /\ ~Right(p)
    BY <2>1
  <2>3. p[1] \in Stops(a) /\ p[2] \in Stops(b) /\ p = <<p[1], p[2]>>
    BY <1>1, <2>2
  <2>4. Token(a, p[1]) \in Tokens /\ Token(b, p[2]) \in Tokens
    BY <2>3, TokenValues, StopsAreEnds DEF Tokens
  <2>5. AlikeBefore(b, a, <<p[2], p[1]>>)
    BY <2>2, AlikeSwapped
  <2>6. CASE Less(Token(a, p[1]), Token(b, p[2]))
    <3>1. from[p] \in Int /\ from[p] < 0
      <4> HIDE DEF from, Right, Wrong
      <4>1. from[<<p[1], p[2]>>] \in Int /\ from[<<p[1], p[2]>>] < 0
        BY <2>3, <2>6, TokensCompared DEF from
      <4>2. QED
        BY <2>3, <4>1
    <3>2. Precedes(a, b) /\ ~Precedes(b, a)
      BY <2>2, <2>6, DifferenceDecides
    <3>3. ~(from[p] > 0)
      BY <3>1
    <3>4. QED
      BY <2>2, <3>1, <3>2, <3>3
  <2>7. CASE Less(Token(b, p[2]), Token(a, p[1]))
    <3>1. from[p] \in Int /\ from[p] > 0
      <4> HIDE DEF from, Right, Wrong
      <4>1. from[<<p[1], p[2]>>] \in Int /\ from[<<p[1], p[2]>>] > 0
        BY <2>3, <2>7, TokensCompared DEF from
      <4>2. QED
        BY <2>3, <4>1
    <3>2. Precedes(b, a) /\ ~Precedes(a, b)
      BY <2>5, <2>7, DifferenceDecides
    <3>3. QED
      BY <2>2, <3>1, <3>2
  <2>8. CASE Token(a, p[1]) = Token(b, p[2])
    <3>1. CASE p[1] = Len(a) + 1 /\ p[2] = Len(b) + 1 /\ from[p] = 0
      <4>1. ~Precedes(a, b)
        BY <2>2, <2>3, <3>1, EndsDecide
      <4>2. ~Precedes(b, a)
        BY <2>5, <3>1, EndsDecide
      <4>3. QED
        BY <2>2, <3>1, <4>1, <4>2
    <3>2. CASE /\ p[1] \in Begins(a) /\ p[2] \in Begins(b)
               /\ from[p] = from[<<After(a, p[1]), After(b, p[2])>>]
      <4> DEFINE q == <<After(a, p[1]), After(b, p[2])>>
      <4>1. AlikeBefore(a, b, q)
        BY <2>2, <2>8, <3>2, AlikeFurther
      <4>2. q[1] > p[1]
        BY <3>2, NextToken
      <4>3. ~Right(q)
        BY <2>2, <3>2
      <4> HIDE DEF q, from
      <4>4. Len(a) + 1 - q[1] \in Wrong
        BY <1>1, <4>1, <4>3
      <4>5. /\ Len(a) \in Nat /\ p[1] \in Nat /\ q[1] \in Nat
        BY <1>1, <2>2, <4>1
      <4>6. n <= Len(a) + 1 - q[1]
        BY <2>1, <4>4
      <4>7. QED
        BY <2>2, <4>2, <4>5, <4>6
    <3>3. QED
      BY <2>3, <2>8, <3>1, <3>2, TokensCompared
  <2>9. QED
    BY <2>4, <2>6, <2>7, <2>8, LessIsOrder
<1>3. QED
  BY <1>1, <1>2

\* path.c, compare_path: for paths of any length, and whatever LONG_MAX is, the
\* comparison is the natural order, in both directions.
THEOREM ComparesNaturally ==
  ASSUME LongMax \in Int, NEW a \in Strings, NEW b \in Strings
  PROVE  NaturallyCompared(a, b)
<1>1. <<1, 1>> \in Sides(a, b)
  <2>1. 1 \in Stops(a) /\ 1 \in Stops(b)
    BY StopsAreEnds
  <2>2. ASSUME NEW s \in Strings PROVE Before(s, 1) = {}
    <3>1. \A k \in Begins(s) : k \in Nat /\ k >= 1
      BY StopsAreEnds DEF Ends
    <3>2. QED
      BY <3>1 DEF Before
  <2>3. QED
    BY <2>1, <2>2 DEF Sides, Stops
<1>2. AlikeBefore(a, b, <<1, 1>>)
  <2>1. ASSUME NEW q \in Sides(a, b), q[1] < 1 PROVE FALSE
    BY <2>1, SidesInStep, StopsAreEnds DEF Ends
  <2>2. QED
    BY <1>1, <2>1 DEF AlikeBefore
<1>3. QED
  BY <1>2, FindsDifference DEF NaturallyCompared, compare_path

LEMMA ComparedIsInt ==
  ASSUME LongMax \in Int, NEW a \in Strings, NEW b \in Strings
  PROVE  \A i \in Stops(a), j \in Stops(b) : Compared(a, b)[<<i, j>>] \in Int
<1> DEFINE from == Compared(a, b)
           Wrong == {n \in Nat : \E i \in Stops(a), j \in Stops(b) :
                                   n = Len(a) + 1 - i /\ from[<<i, j>>] \notin Int}
<1>1. ASSUME Wrong # {} PROVE FALSE
  <2>1. PICK n \in Wrong : \A m \in Wrong : n <= m
    <3> HIDE DEF Wrong
    <3>1. Wrong \subseteq Nat
      BY DEF Wrong
    <3>2. QED
      BY <1>1, <3>1, LeastNumber
  <2>2. PICK i \in Stops(a), j \in Stops(b) : n = Len(a) + 1 - i /\ from[<<i, j>>] \notin Int
    BY <2>1
  <2>3. Token(a, i) \in Tokens /\ Token(b, j) \in Tokens
    BY TokenValues, StopsAreEnds DEF Tokens
  <2>4. /\ i \in Begins(a) /\ j \in Begins(b)
        /\ from[<<i, j>>] = from[<<After(a, i), After(b, j)>>]
    BY <2>2, <2>3, TokensCompared, LessIsOrder
  <2>5. After(a, i) \in Stops(a) /\ After(b, j) \in Stops(b) /\ After(a, i) > i
    BY <2>4, NextToken
  <2>6. /\ Len(a) + 1 - After(a, i) \in Nat /\ Len(a) \in Nat /\ i \in Nat
        /\ After(a, i) \in Nat
    BY <2>5, StopsAreEnds
  <2>7. Len(a) + 1 - After(a, i) \in Wrong
    BY <2>2, <2>4, <2>5, <2>6
  <2>8. n <= Len(a) + 1 - After(a, i)
    BY <2>1, <2>7
  <2>9. QED
    BY <2>2, <2>5, <2>6, <2>8
<1>2. \A i \in Stops(a) : Len(a) + 1 - i \in Nat
  BY StopsAreEnds
<1>3. QED
  BY <1>1, <1>2

LEMMA SignsOfTokens ==
  ASSUME LongMax \in Int, NEW a \in Strings, NEW b \in Strings,
         NEW i \in Stops(a), NEW j \in Stops(b)
  PROVE  /\ Compared(a, b)[<<i, j>>] <= 0 => ~Less(Token(b, j), Token(a, i))
         /\ ~(Compared(a, b)[<<i, j>>] <= 0) => ~Less(Token(a, i), Token(b, j))
<1>1. /\ Less(Token(a, i), Token(b, j)) => Compared(a, b)[<<i, j>>] < 0
      /\ Less(Token(b, j), Token(a, i)) => Compared(a, b)[<<i, j>>] > 0
  BY TokensCompared
<1>2. Compared(a, b)[<<i, j>>] \in Int
  BY ComparedIsInt
<1>3. QED
  BY <1>1, <1>2

LEMMA SameTokens ==
  ASSUME LongMax \in Int, NEW a \in Strings, NEW b \in Strings,
         NEW i \in Stops(a), NEW j \in Stops(b), Token(a, i) = Token(b, j)
  PROVE  \/ i = Len(a) + 1 /\ j = Len(b) + 1 /\ Compared(a, b)[<<i, j>>] = 0
         \/ /\ i \in Begins(a) /\ j \in Begins(b)
            /\ Compared(a, b)[<<i, j>>] = Compared(a, b)[<<After(a, i), After(b, j)>>]
BY TokensCompared

LEMMA ComparedTransits ==
  ASSUME LongMax \in Int, NEW a \in Strings, NEW b \in Strings, NEW c \in Strings
  PROVE  \A i \in Stops(a), j \in Stops(b), k \in Stops(c) :
           Compared(a, b)[<<i, j>>] <= 0 /\ Compared(b, c)[<<j, k>>] <= 0
             => Compared(a, c)[<<i, k>>] <= 0
<1> DEFINE Fails(i, j, k) == /\ Compared(a, b)[<<i, j>>] <= 0
                             /\ Compared(b, c)[<<j, k>>] <= 0
                             /\ ~(Compared(a, c)[<<i, k>>] <= 0)
           Wrong == {n \in Nat : \E i \in Stops(a), j \in Stops(b), k \in Stops(c) :
                                   n = Len(a) + 1 - i /\ Fails(i, j, k)}
<1>1. ASSUME Wrong # {} PROVE FALSE
  <2>1. PICK n \in Wrong : \A m \in Wrong : n <= m
    <3> HIDE DEF Wrong
    <3>1. Wrong \subseteq Nat
      BY DEF Wrong
    <3>2. QED
      BY <1>1, <3>1, LeastNumber
  <2>2. PICK i \in Stops(a), j \in Stops(b), k \in Stops(c) :
          n = Len(a) + 1 - i /\ Fails(i, j, k)
    BY <2>1
  <2>3. Token(a, i) \in Tokens /\ Token(b, j) \in Tokens /\ Token(c, k) \in Tokens
    BY TokenValues, StopsAreEnds DEF Tokens
  <2>4. /\ Compared(a, b)[<<i, j>>] <= 0 /\ Compared(b, c)[<<j, k>>] <= 0
        /\ ~(Compared(a, c)[<<i, k>>] <= 0)
    BY <2>2
  <2>5. ~Less(Token(b, j), Token(a, i))
    BY <2>4, SignsOfTokens
  <2>6. ~Less(Token(c, k), Token(b, j))
    BY <2>4, SignsOfTokens
  <2>7. ~Less(Token(a, i), Token(c, k))
    BY <2>4, SignsOfTokens
  <2>8. Token(a, i) = Token(b, j) /\ Token(b, j) = Token(c, k)
    BY <2>3, <2>5, <2>6, <2>7, LessIsOrder
  <2>9. /\ i \in Begins(a) /\ j \in Begins(b) /\ k \in Begins(c)
        /\ Compared(a, b)[<<i, j>>] = Compared(a, b)[<<After(a, i), After(b, j)>>]
        /\ Compared(b, c)[<<j, k>>] = Compared(b, c)[<<After(b, j), After(c, k)>>]
        /\ Compared(a, c)[<<i, k>>] = Compared(a, c)[<<After(a, i), After(c, k)>>]
    <3>1. i \in Begins(a) /\ k \in Begins(c)
          /\ Compared(a, c)[<<i, k>>] = Compared(a, c)[<<After(a, i), After(c, k)>>]
      BY <2>4, <2>8, SameTokens
    <3>2. i # Len(a) + 1 /\ k # Len(c) + 1
      BY <3>1, StopsAreEnds
    <3>3. Compared(a, b)[<<i, j>>] = Compared(a, b)[<<After(a, i), After(b, j)>>]
          /\ j \in Begins(b)
      BY <2>8, <3>2, SameTokens
    <3>4. Compared(b, c)[<<j, k>>] = Compared(b, c)[<<After(b, j), After(c, k)>>]
      BY <2>8, <3>2, SameTokens
    <3>5. QED
      BY <3>1, <3>3, <3>4
  <2>10. /\ After(a, i) \in Stops(a) /\ After(b, j) \in Stops(b) /\ After(c, k) \in Stops(c)
         /\ After(a, i) > i
    BY <2>9, NextToken
  <2>11. Fails(After(a, i), After(b, j), After(c, k))
    BY <2>4, <2>9
  <2>12. /\ Len(a) + 1 - After(a, i) \in Nat /\ Len(a) \in Nat /\ i \in Nat
         /\ After(a, i) \in Nat
    BY <2>10, StopsAreEnds
  <2>13. Len(a) + 1 - After(a, i) \in Wrong
    <3> HIDE DEF Fails
    <3>1. QED
      BY <2>10, <2>11, <2>12
  <2>14. n <= Len(a) + 1 - After(a, i)
    BY <2>1, <2>13
  <2>15. QED
    BY <2>2, <2>10, <2>12, <2>14
<1>2. \A i \in Stops(a) : Len(a) + 1 - i \in Nat
  BY StopsAreEnds
<1>3. QED
  BY <1>1, <1>2

\* process_psdl and process_fsdl hand compare_path to qsort, whose result is undefined
\* unless the comparison is total and consistent: it is, for paths of any length, with any
\* zeros in front of their numbers, and with numbers beyond LONG_MAX.
THEOREM ComparisonSuitsQsort ==
  ASSUME LongMax \in Int, NEW a \in Strings, NEW b \in Strings, NEW c \in Strings
  PROVE  /\ compare_path(a, b) \in Int
         /\ compare_path(a, b) < 0 <=> compare_path(b, a) > 0
         /\ compare_path(a, b) <= 0 /\ compare_path(b, c) <= 0 => compare_path(a, c) <= 0
<1>1. 1 \in Stops(a) /\ 1 \in Stops(b) /\ 1 \in Stops(c)
  BY StopsAreEnds
<1>2. compare_path(a, b) \in Int
  BY <1>1, ComparedIsInt DEF compare_path
<1>3. compare_path(a, b) < 0 <=> compare_path(b, a) > 0
  BY ComparesNaturally DEF NaturallyCompared
<1>4. compare_path(a, b) <= 0 /\ compare_path(b, c) <= 0 => compare_path(a, c) <= 0
  BY <1>1, ComparedTransits DEF compare_path
<1>5. QED
  BY <1>2, <1>3, <1>4

-----------------------------------------------------------------------------
(* The order of the low queue.                                             *)

\* Two files as they may follow each other in what qsort returns.
MayFollow(a, b) == compare_path(a, b) <= 0

InOrder(s) == \A i, j \in DOMAIN s : i < j => MayFollow(s[i], s[j])

\* The low queue holds the front of a piece of the sorted listing, the batch its rest.
OnePiece ==
  Sorts => /\ InOrder(low) /\ InOrder(batch)
           /\ \A f \in ToSet(low), g \in ToSet(batch) : MayFollow(f, g)

LEMMA InOrderTaken ==
  ASSUME NEW s \in Seq(Files), s # <<>>, InOrder(s)
  PROVE  InOrder(Tail(s)) /\ \A g \in ToSet(Tail(s)) : MayFollow(Head(s), g)
<1>1. /\ Len(s) \in Nat \ {0} /\ Head(s) = s[1]
      /\ DOMAIN s = 1 .. Len(s) /\ DOMAIN Tail(s) = 1 .. Len(s) - 1
      /\ \A i \in 1 .. Len(s) - 1 : Tail(s)[i] = s[i + 1]
  BY SMT
<1>2. \A i \in 1 .. Len(s) - 1 : i + 1 \in 1 .. Len(s) /\ 1 < i + 1
  BY <1>1, SMT
<1>3. ASSUME NEW i \in DOMAIN Tail(s), NEW j \in DOMAIN Tail(s), i < j
      PROVE  MayFollow(Tail(s)[i], Tail(s)[j])
  <2>1. i + 1 \in DOMAIN s /\ j + 1 \in DOMAIN s /\ i + 1 < j + 1
    BY <1>1, <1>2, <1>3, SMT
  <2>2. MayFollow(s[i + 1], s[j + 1])
    BY <2>1 DEF InOrder
  <2>3. QED
    BY <1>1, <2>2
<1>4. ASSUME NEW i \in DOMAIN Tail(s) PROVE MayFollow(Head(s), Tail(s)[i])
  <2>1. 1 \in DOMAIN s /\ i + 1 \in DOMAIN s /\ 1 < i + 1
    BY <1>1, <1>2, SMT
  <2>2. MayFollow(s[1], s[i + 1])
    BY <2>1 DEF InOrder
  <2>3. QED
    BY <1>1, <2>2
<1>5. QED
  BY <1>3, <1>4 DEF InOrder, ToSet

LEMMA InOrderAppended ==
  ASSUME NEW s \in Seq(Files), NEW e \in Files, InOrder(s),
         \A f \in ToSet(s) : MayFollow(f, e)
  PROVE  InOrder(Append(s, e))
<1>1. /\ Len(s) \in Nat /\ DOMAIN s = 1 .. Len(s) /\ DOMAIN Append(s, e) = 1 .. Len(s) + 1
      /\ \A i \in 1 .. Len(s) : Append(s, e)[i] = s[i]
      /\ Append(s, e)[Len(s) + 1] = e
  BY SMT
<1>2. ASSUME NEW i \in DOMAIN Append(s, e), NEW j \in DOMAIN Append(s, e), i < j
      PROVE  MayFollow(Append(s, e)[i], Append(s, e)[j])
  <2>1. i \in 1 .. Len(s) /\ (j \in 1 .. Len(s) \/ j = Len(s) + 1)
    BY <1>1, <1>2, SMT
  <2>2. CASE j \in 1 .. Len(s)
    BY <1>1, <1>2, <2>1, <2>2 DEF InOrder
  <2>3. CASE j = Len(s) + 1
    BY <1>1, <2>1, <2>3 DEF ToSet
  <2>4. QED
    BY <2>1, <2>2, <2>3
<1>3. QED
  BY <1>2 DEF InOrder

\* A strategy that sorts takes a piece of what qsort returned.
LEMMA BatchInOrder ==
  ASSUME NEW f \in Files, Sorts
  PROVE  InOrder(Batch(f))
<1>1. Sorted \in Seq(Files) /\ Len(Sorted) \in Nat /\ DOMAIN Sorted = 1 .. Len(Sorted)
  BY LookaheadAssumption, LenProperties
<1>2. InOrder(Sorted)
  BY SortedAssumption DEF InOrder, MayFollow
<1>3. CASE Windowed
  <2> DEFINE first == Search(Listing, f)
             last  == Min({first + WindowSize - 1, Len(Sorted)})
  <2>1. /\ Listing \in Seq(Files) /\ Len(Listing) = Len(Sorted)
        /\ WindowSize \in Nat \ {0}
    BY LookaheadAssumption
  <2>2. first \in 1 .. Len(Sorted) + 1
    BY <2>1, SearchEnds
  <2>3. first + WindowSize - 1 \in Int /\ Len(Sorted) \in Int
    BY <1>1, <2>1, <2>2, SMT
  <2>4. last \in Int /\ last <= Len(Sorted)
    <3> HIDE DEF first
    <3>1. last \in {first + WindowSize - 1, Len(Sorted)} /\ last <= Len(Sorted)
      BY <2>3, MinOfTwo
    <3>2. QED
      BY <2>3, <3>1
  <2>5. Batch(f) = SubSeq(Sorted, first, last)
    BY <1>3 DEF Batch
  <2> HIDE DEF first, last
  <2>6. /\ DOMAIN SubSeq(Sorted, first, last) = 1 .. last - first + 1
        /\ \A i \in 1 .. last - first + 1 :
             SubSeq(Sorted, first, last)[i] = Sorted[first + i - 1]
    <3>1. first \in Int /\ \A i \in first .. last : i \in 1 .. Len(Sorted)
      BY <1>1, <2>2, <2>4, SMT
    <3>2. \A i \in first .. last : Sorted[i] \in Files
      BY <1>1, <3>1, SMT
    <3>3. QED
      BY <2>4, <3>1, <3>2, SubSeqProperties
  <2>7. ASSUME NEW i \in 1 .. last - first + 1, NEW j \in 1 .. last - first + 1, i < j
        PROVE  MayFollow(Sorted[first + i - 1], Sorted[first + j - 1])
    <3>1. /\ first + i - 1 \in DOMAIN Sorted /\ first + j - 1 \in DOMAIN Sorted
          /\ first + i - 1 < first + j - 1
      BY <1>1, <2>2, <2>4, <2>7, SMT
    <3>2. QED
      BY <1>2, <3>1 DEF InOrder
  <2>8. QED
    BY <2>5, <2>6, <2>7 DEF InOrder
<1>4. CASE ~Windowed
  BY <1>2, <1>4 DEF Batch
<1>5. QED
  BY <1>3, <1>4

LEMMA InitInOrder == Init => OnePiece
<1>1. \A i : i \notin DOMAIN <<>>
  BY SMT
<1>2. QED
  BY <1>1 DEF Init, OnePiece, InOrder, ToSet

LEMMA StepInOrder == IInv /\ OnePiece /\ [Next]_vars => OnePiece'
<1> SUFFICES ASSUME IInv, OnePiece, [Next]_vars, Sorts PROVE OnePiece'
  BY DEF OnePiece
<1>1. low \in Seq(Files) /\ batch \in Seq(Files)
  BY DEF IInv, TypeOK
<1>2. /\ InOrder(low) /\ InOrder(batch)
      /\ \A f \in ToSet(low), g \in ToSet(batch) : MayFollow(f, g)
  BY DEF OnePiece
<1>3. CASE UNCHANGED <<low, batch>>
  BY <1>3 DEF OnePiece
<1>4. CASE DequeueLow
  <2>1. CASE low # <<>>
    <3>1. low' = Tail(low) /\ batch' = batch
      BY <1>4, <2>1 DEF DequeueLow
    <3>2. InOrder(low') /\ ToSet(low') \subseteq ToSet(low)
      BY <1>1, <1>2, <2>1, <3>1, Taken, InOrderTaken
    <3>3. QED
      BY <1>2, <3>1, <3>2 DEF OnePiece
  <2>2. CASE low = <<>>
    BY <1>3, <1>4, <2>2 DEF DequeueLow
  <2>3. QED
    BY <2>1, <2>2
<1>5. CASE DequeuePrefetch
  <2>1. CASE prefetch # <<>>
    <3>1. low' = <<>> /\ batch' = Batch(Head(prefetch))
      BY <1>5, <2>1 DEF DequeuePrefetch, IInv, Room
    <3>2. Head(prefetch) \in Files
      BY <2>1, Taken DEF IInv, TypeOK
    <3>3. InOrder(batch')
      BY <3>1, <3>2, BatchInOrder
    <3>4. InOrder(low') /\ ToSet(low') = {}
      BY <1>5, <2>1, <3>1, <1>2, EmptyHasNone DEF DequeuePrefetch
    <3>5. QED
      BY <3>3, <3>4 DEF OnePiece
  <2>2. CASE prefetch = <<>>
    BY <1>3, <1>5, <2>2 DEF DequeuePrefetch
  <2>3. QED
    BY <2>1, <2>2
<1>6. CASE EnqueueLow
  <2>1. batch # <<>> /\ batch' = Tail(batch)
    BY <1>6 DEF EnqueueLow
  <2>2. /\ Head(batch) \in Files /\ ToSet(batch) = {Head(batch)} \cup ToSet(batch')
        /\ InOrder(batch') /\ \A g \in ToSet(batch') : MayFollow(Head(batch), g)
    BY <1>1, <1>2, <2>1, Taken, InOrderTaken
  <2>3. CASE Fits(low)
    <3>1. low' = Append(low, Head(batch))
      BY <1>6, <2>3 DEF EnqueueLow, PathOfEntry
    <3>2. ToSet(low') = ToSet(low) \cup {Head(batch)}
      BY <1>1, <2>2, <3>1, Appended
    <3>3. InOrder(low')
      BY <1>1, <1>2, <2>2, <3>1, InOrderAppended
    <3>4. QED
      BY <1>2, <2>2, <3>2, <3>3 DEF OnePiece
  <2>4. CASE ~Fits(low)
    <3>1. low' = low
      BY <1>6, <2>4 DEF EnqueueLow
    <3>2. QED
      BY <1>2, <2>2, <3>1 DEF OnePiece
  <2>5. QED
    BY <2>3, <2>4
<1>7. CASE Calls \/ DequeueHigh \/ Insert \/ WindowDone \/ UNCHANGED vars
  BY <1>3, <1>7 DEF Calls, Advise, Miss, DequeueHigh, Insert, WindowDone, vars, queues, thread
<1>8. QED
  BY <1>4, <1>5, <1>6, <1>7 DEF Next, Thread

\* process_psdl, process_fsdl: with a strategy that sorts, the files of a window come off
\* the low queue as a reader of the directory looks for them, a number by its value,
\* whatever the directory holds and however the application's calls come between; windows
\* do not mix, since a miss is looked at only when the queue was found empty.
THEOREM NaturallyOrdered ==
  ASSUME LongMax \in Int, FilesOfFolder \subseteq Strings
  PROVE  Spec => []NaturalOrder
<1>1. IInv /\ OnePiece => NaturalOrder
  <2> SUFFICES ASSUME IInv, OnePiece, Sorts,
                      NEW i \in DOMAIN Upcoming, NEW j \in DOMAIN Upcoming, i < j,
                      <<Upcoming[i], Upcoming[j]>> \in Misplaced
               PROVE  FALSE
    BY DEF NaturalOrder
  <2>1. low \in Seq(Files) /\ batch \in Seq(Files)
    BY DEF IInv, TypeOK
  <2>2. MayFollow(Upcoming[i], Upcoming[j])
    <3>1. /\ Len(low) \in Nat /\ Len(batch) \in Nat
          /\ DOMAIN low = 1 .. Len(low) /\ DOMAIN batch = 1 .. Len(batch)
          /\ DOMAIN Upcoming = 1 .. Len(low) + Len(batch)
          /\ \A k \in 1 .. Len(low) + Len(batch) :
               Upcoming[k] = IF k <= Len(low) THEN low[k] ELSE batch[k - Len(low)]
      BY <2>1, SMT DEF Upcoming
    <3>2. CASE j <= Len(low)
      <4>1. i \in DOMAIN low /\ j \in DOMAIN low /\ i <= Len(low)
        BY <3>1, <3>2, SMT
      <4>2. QED
        BY <3>1, <3>2, <4>1 DEF OnePiece, InOrder
    <3>3. CASE i <= Len(low) /\ ~(j <= Len(low))
      <4>1. i \in DOMAIN low /\ j - Len(low) \in DOMAIN batch
        BY <3>1, <3>3, SMT
      <4>2. Upcoming[i] \in ToSet(low) /\ Upcoming[j] \in ToSet(batch)
        BY <3>1, <3>3, <4>1 DEF ToSet
      <4>3. QED
        BY <4>2 DEF OnePiece
    <3>4. CASE ~(i <= Len(low))
      <4>1. /\ i - Len(low) \in DOMAIN batch /\ j - Len(low) \in DOMAIN batch
            /\ i - Len(low) < j - Len(low) /\ ~(j <= Len(low))
        BY <3>1, <3>4, SMT
      <4>2. QED
        BY <3>1, <3>4, <4>1 DEF OnePiece, InOrder
    <3>5. QED
      BY <3>2, <3>3, <3>4
  <2>3. /\ Upcoming[i] \in Strings /\ Upcoming[j] \in Strings
        /\ Precedes(Upcoming[j], Upcoming[i])
    BY DEF Misplaced
  <2>4. compare_path(Upcoming[i], Upcoming[j]) > 0
    BY <2>3, ComparesNaturally DEF NaturallyCompared
  <2>5. compare_path(Upcoming[i], Upcoming[j]) \in Int
    BY <2>3, ComparisonSuitsQsort
  <2>6. QED
    BY <2>2, <2>4, <2>5 DEF MayFollow
<1>2. Spec => []OnePiece
  BY InitInOrder, StepInOrder, LookaheadInvariant, PTL DEF Spec
<1>3. QED
  BY <1>1, <1>2, LookaheadInvariant, PTL
=============================================================================
