--------------------------- MODULE WriteBackProofs --------------------------
(***************************************************************************)
(* Proofs about WriteBack, for files and blocks of any size: writes and    *)
(* flushes drive the extent list as Extents allows, so that what is proved *)
(* there holds here, and a flush loses ends of intervals and nothing else. *)
(***************************************************************************)
EXTENDS WriteBack, ExtentsProofs

\* No byte of the interval in hand is left behind position p of it.
NothingFrom(p) == behind \cap (p .. job.end - 1) = {}

\* Before every turn the loop has copied whole blocks, or all there is.
WholeBlocks ==
  job # None =>
    \/ \E k \in Nat : job.total = k * BlockSize
    \/ NothingFrom(job.start + job.total)

FlushInv == IInv /\ FlushTypeOK /\ WholeBlocks

-----------------------------------------------------------------------------
(* The list.                                                               *)

\* What PushStep, CopyStep and the writes do to the list.
LEMMA ListStep ==
  ASSUME FlushNext
  PROVE  [Next]_vars
<1>1. ASSUME NEW lower \in Offsets, NEW upper \in Offsets, lower <= upper, Write(lower, upper)
      PROVE  Next
  <2>1. lower <= upper + 1
    BY <1>1, ExtentsAssumption DEF Offsets
  <2>2. QED
    BY <1>1, <2>1 DEF Write, Next
<1>2. ASSUME NEW lower \in Offsets, WriteFails(lower) PROVE Next
  <2>1. lower - 1 \in Offsets /\ lower <= (lower - 1) + 1
    BY <1>2, ExtentsAssumption DEF Offsets, WriteFails
  <2>2. PushBegin(lower, lower - 1)
    BY <1>2 DEF WriteFails
  <2>3. QED
    BY <2>1, <2>2 DEF Next
<1>3. CASE PushStep
  BY <1>3 DEF PushStep, Next
<1>4. CASE PopInterval \/ EndFlush
  BY <1>4 DEF PopInterval, EndFlush, Next
<1>5. CASE Truncate \/ BeginFlush \/ CopyBlock \/ ReadNothing \/ ReadRefused \/ CopyFails \/ Exited
  BY <1>5 DEF Truncate, BeginFlush, CopyBlock, ReadNothing, ReadRefused, CopyFails, Exit,
              Exited, allVars
<1>6. QED
  BY <1>1, <1>2, <1>3, <1>4, <1>5 DEF FlushNext, WriteStep, CopyStep

\* A cached file uses its list as Extents says: whatever is proved of every
\* behaviour of Extents holds of the list in acl_write, acl_sync and acl_close.
THEOREM FlushUsesList == FlushSpec => Spec
<1>1. FlushInit => Init
  BY DEF FlushInit
<1>2. [FlushNext]_allVars => [Next]_vars
  <2>1. UNCHANGED allVars => UNCHANGED vars
    BY DEF allVars
  <2>2. QED
    BY <2>1, ListStep
<1>3. QED
  BY <1>1, <1>2, PTL DEF FlushSpec, Spec

\* Between pushes the list of a file that is written and flushed is sorted, with a
\* gap between any two intervals.
THEOREM FlushKeepsSorted == FlushSpec => []SortedWithGaps
BY FlushUsesList, ExtentsSorted, PTL

\* The list of a file that is written and flushed is the set of dirty bytes.
THEOREM FlushImplementsDirtyBytes == FlushSpec => Implements
BY FlushUsesList, ListImplementsDirtyBytes, PTL

-----------------------------------------------------------------------------
(* The flush.                                                              *)

\* The numbers of the interval in hand, and of what one turn of the loop reads.
LEMMA JobNumbers ==
  ASSUME FlushTypeOK, job # None
  PROVE  /\ job \in Jobs
         /\ job.start \in Nat /\ job.end \in Nat /\ job.total \in Nat /\ length \in Nat
         /\ BlockSize \in Nat /\ BlockSize > 0
         /\ Request \in Int /\ Available \in Nat /\ BytesRead \in Int
         /\ Request <= job.end - job.start - job.total /\ Request <= BlockSize
         /\ Request = job.end - job.start - job.total \/ Request = BlockSize
         /\ job.start + job.total + Available = length \/ Available = 0
         /\ length > job.start + job.total => Available = length - job.start - job.total
         /\ BytesRead <= Request /\ BytesRead <= Available
         /\ BytesRead = Request \/ BytesRead = Available
<1>1. job \in Jobs /\ length \in Offsets
  BY DEF FlushTypeOK
<1>2. /\ job.start \in Nat /\ job.end \in Nat /\ job.total \in Nat /\ length \in Nat
      /\ BlockSize \in Nat /\ BlockSize > 0
  BY <1>1, ExtentsAssumption, WriteBackAssumption DEF Jobs, Offsets
<1>3. /\ Request \in Int
      /\ Request <= job.end - job.start - job.total /\ Request <= BlockSize
      /\ Request = job.end - job.start - job.total \/ Request = BlockSize
  BY <1>2 DEF Request, Min2
<1>4. /\ Available \in Nat
      /\ job.start + job.total + Available = length \/ Available = 0
      /\ length > job.start + job.total => Available = length - job.start - job.total
  BY <1>2 DEF Available
<1>5. /\ BytesRead \in Int /\ BytesRead <= Request /\ BytesRead <= Available
      /\ BytesRead = Request \/ BytesRead = Available
  BY <1>3, <1>4 DEF BytesRead, Min2
<1>6. QED
  BY <1>1, <1>2, <1>3, <1>4, <1>5

\* What a turn that copies a block leaves of the interval.
LEMMA BlockCopied ==
  ASSUME FlushTypeOK, CopyBlock
  PROVE  /\ job # None /\ BytesRead > 0
         /\ behind' = behind \ (job.start + job.total .. job.start + job.total + BytesRead - 1)
         /\ UNCHANGED <<vars, length, flushing, status>>
         /\ GoesOn(job.total + BytesRead) =>
              /\ job' \in Jobs
              /\ job'.start = job.start /\ job'.end = job.end
              /\ job'.total = job.total + BytesRead
         /\ ~GoesOn(job.total + BytesRead) => job' = None
<1>1. /\ job # None /\ BytesRead > 0
      /\ behind' = behind \ (job.start + job.total .. job.start + job.total + BytesRead - 1)
      /\ UNCHANGED <<vars, length, flushing, status>>
      /\ ~GoesOn(job.total + BytesRead) => job' = None
      /\ GoesOn(job.total + BytesRead) => job' = [job EXCEPT !.total = @ + BytesRead]
  BY DEF CopyBlock
<1>2. job.total + BytesRead \in Offsets
  <2>1. job.total + BytesRead <= length /\ job.total + BytesRead \in Nat
    BY <1>1, JobNumbers
  <2>2. length \in Offsets
    BY DEF FlushTypeOK
  <2>3. QED
    BY <2>1, <2>2, ExtentsAssumption DEF Offsets
<1>3. ASSUME GoesOn(job.total + BytesRead)
      PROVE  /\ job' \in Jobs
             /\ job'.start = job.start /\ job'.end = job.end
             /\ job'.total = job.total + BytesRead
  <2>1. job \in Jobs
    BY <1>1, JobNumbers
  <2>2. job' = [job EXCEPT !.total = job.total + BytesRead]
    BY <1>1, <1>3
  <2>3. QED
    BY <1>2, <2>1, <2>2 DEF Jobs
<1>4. QED
  BY <1>1, <1>3

\* A turn that is not the last has copied a whole block, or all there is.
LEMMA StaysWhole ==
  ASSUME FlushTypeOK, WholeBlocks, CopyBlock, NEW next \in Nat,
         next = job.total + BytesRead
  PROVE  \/ \E k \in Nat : next = k * BlockSize
         \/ behind' \cap (job.start + next .. job.end - 1) = {}
<1>1. /\ job # None /\ BytesRead > 0
      /\ behind' = behind \ (job.start + job.total .. job.start + job.total + BytesRead - 1)
  BY BlockCopied
<1>2. behind \subseteq 0 .. length - 1
  BY DEF FlushTypeOK
<1>3. CASE BytesRead # BlockSize
  <2>1. ASSUME NEW b \in behind, b \in job.start + next .. job.end - 1 PROVE FALSE
    <3>1. b \in Nat /\ b < length
      BY <1>2, JobNumbers, <1>1
    <3>2. BytesRead = Available \/ BytesRead = job.end - job.start - job.total
      BY <1>1, <1>3, JobNumbers
    <3>3. job.start + next >= length \/ job.start + next >= job.end
      BY <1>1, <3>2, JobNumbers
    <3>4. QED
      BY <1>1, <2>1, <3>1, <3>3, JobNumbers
  <2>2. QED
    BY <1>1, <2>1
<1>4. CASE BytesRead = BlockSize /\ \E k \in Nat : job.total = k * BlockSize
  <2>1. PICK k \in Nat : job.total = k * BlockSize
    BY <1>4
  <2>2. next = (k + 1) * BlockSize
    BY <1>1, <1>4, <2>1, JobNumbers
  <2>3. QED
    BY <2>2
<1>5. CASE NothingFrom(job.start + job.total)
  <2>1. job.start + next .. job.end - 1 \subseteq job.start + job.total .. job.end - 1
    BY <1>1, JobNumbers
  <2>2. QED
    BY <1>1, <1>5, <2>1 DEF NothingFrom
<1>6. QED
  BY <1>1, <1>3, <1>4, <1>5 DEF WholeBlocks

\* The bytes of a file.
LEMMA Below == ASSUME NEW n \in Nat, NEW b \in Nat, b < n PROVE b \in 0 .. n - 1
OBVIOUS

\* The invariant holds at first ...
LEMMA FlushInitOK == FlushInit => FlushInv
<1> SUFFICES ASSUME FlushInit PROVE FlushInv
  OBVIOUS
<1>1. IInv
  BY ExtentsInit DEF FlushInit
<1>2. TypeOK
  BY <1>1 DEF IInv
<1>3. FlushTypeOK /\ WholeBlocks
  BY <1>2 DEF FlushInit, Init, FlushTypeOK, WholeBlocks
<1>4. QED
  BY <1>1, <1>3 DEF FlushInv

\* ... and is preserved by the writes, which find no flush under way, ...
LEMMA WritesOK ==
  ASSUME FlushInv, IInv', WriteStep \/ PushStep
  PROVE  FlushInv'
<1>1. FlushTypeOK /\ WholeBlocks /\ TypeOK'
  BY DEF FlushInv, IInv
<1>2. ~flushing /\ job = None /\ UNCHANGED <<flushing, job, status>>
  <2>1. CASE WriteStep
    BY <1>1, <2>1 DEF WriteStep, Write, WriteFails, flushVars, FlushTypeOK
  <2>2. CASE PushStep
    BY <1>1, <2>2 DEF PushStep, Scan, Merge, Insert, Absorb, AbsorbDone, flushVars, FlushTypeOK
  <2>3. QED
    BY <2>1, <2>2
<1>3. length' \in Offsets /\ behind' \subseteq 0 .. length' - 1
  <2>1. length \in Offsets /\ behind \subseteq 0 .. length - 1
    BY <1>1 DEF FlushTypeOK
  <2>2. CASE UNCHANGED flushVars
    BY <2>1, <2>2 DEF flushVars
  <2>3. ASSUME NEW lower \in Offsets, NEW upper \in Offsets, lower <= upper, Write(lower, upper)
        PROVE  length' \in Offsets /\ behind' \subseteq 0 .. length' - 1
    <3>1. /\ behind' = behind \cup lower .. upper - 1
          /\ length' = IF upper > lower THEN Max2(length, upper) ELSE length
      BY <2>3 DEF Write
    <3>2. length \in Nat /\ lower \in Nat /\ upper \in Nat
      BY <2>1, ExtentsAssumption DEF Offsets
    <3>3. length' \in Offsets /\ length' \in Nat /\ length <= length'
      BY <2>1, <3>1, <3>2 DEF Max2, Offsets
    <3>4. upper > lower => upper <= length'
      BY <3>1, <3>2 DEF Max2
    <3>5. ASSUME NEW b \in lower .. upper - 1 PROVE b \in 0 .. length' - 1
      <4>1. b \in Nat /\ b <= upper - 1 /\ lower <= b
        BY <3>2
      <4>2. b < upper /\ lower < upper /\ b < length'
        BY <4>1, <3>2, <3>3, <3>4
      <4>3. QED
        BY <4>1, <4>2, <3>3, Below
    <3>6. ASSUME NEW b \in behind PROVE b \in 0 .. length' - 1
      <4>1. b \in Nat /\ b < length
        BY <2>1, <3>2
      <4>2. b < length'
        BY <4>1, <3>2, <3>3
      <4>3. QED
        BY <4>1, <4>2, <3>3, Below
    <3>7. QED
      BY <3>1, <3>3, <3>5, <3>6
  <2>4. QED
    BY <2>2, <2>3 DEF WriteStep, WriteFails, PushStep
<1>4. QED
  BY <1>1, <1>2, <1>3 DEF FlushInv, FlushTypeOK, WholeBlocks

\* ... and by the flush.
LEMMA FlushOK ==
  ASSUME FlushInv, IInv', BeginFlush \/ CopyStep
  PROVE  FlushInv'
<1>1. FlushTypeOK /\ WholeBlocks /\ TypeOK'
  BY DEF FlushInv, IInv
<1>2. CASE BeginFlush \/ EndFlush
  <2>1. /\ pc' = "idle" /\ job' = None /\ flushing' \in BOOLEAN
        /\ UNCHANGED <<length, behind, status>>
    BY <1>1, <1>2 DEF BeginFlush, EndFlush, EntryFree, PopNone, FlushTypeOK, vars
  <2>2. QED
    BY <1>1, <2>1 DEF FlushInv, FlushTypeOK, WholeBlocks
<1>3. CASE PopInterval
  <2>1. /\ flushing' /\ flushing' = flushing /\ pc' = "idle"
        /\ UNCHANGED <<length, behind, status>>
        /\ job' = [start |-> popped'[1], end |-> popped'[2], total |-> 0]
    BY <1>3 DEF PopInterval, Pop
  <2>2. popped' \in Intervals
    <3>1. Pop /\ TypeOK
      BY <1>1, <1>3 DEF PopInterval, FlushTypeOK
    <3>2. 1 \in 1 .. Len(list) /\ popped' = list[1] /\ list \in Seq(Intervals)
      BY <3>1, PopList DEF TypeOK
    <3>3. QED
      BY <3>2
  <2>3. 0 \in Offsets
    BY ExtentsAssumption DEF Offsets
  <2>4. job' \in Jobs /\ job'.total = 0
    BY <2>1, <2>2, <2>3 DEF Jobs, Intervals
  <2>5. job'.total = 0 * BlockSize
    BY <2>4, WriteBackAssumption
  <2>6. WholeBlocks'
    BY <2>5 DEF WholeBlocks
  <2>7. QED
    BY <1>1, <2>1, <2>4, <2>6 DEF FlushInv, FlushTypeOK
<1>4. CASE CopyBlock
  <2>1. /\ UNCHANGED <<vars, length, flushing, status>> /\ behind' \subseteq behind
        /\ job' \in Jobs \cup {None} /\ job # None
    BY <1>1, <1>4, BlockCopied
  <2>2. FlushTypeOK'
    BY <1>1, <2>1 DEF FlushTypeOK, vars
  <2>3. CASE GoesOn(job.total + BytesRead)
    <3>1. /\ job'.start = job.start /\ job'.end = job.end
          /\ job'.total = job.total + BytesRead /\ job'.total \in Nat
      BY <1>1, <1>4, <2>3, BlockCopied, JobNumbers
    <3>2. \/ \E k \in Nat : job'.total = k * BlockSize
          \/ behind' \cap (job.start + job'.total .. job.end - 1) = {}
      BY <1>1, <1>4, <3>1, StaysWhole
    <3>3. QED
      BY <2>2, <3>1, <3>2 DEF FlushInv, WholeBlocks, NothingFrom
  <2>4. CASE ~GoesOn(job.total + BytesRead)
    BY <1>1, <1>4, <2>2, <2>4, BlockCopied DEF FlushInv, WholeBlocks
  <2>5. QED
    BY <2>3, <2>4
<1>5. CASE ReadNothing
  BY <1>1, <1>5 DEF ReadNothing, Break, FlushInv, FlushTypeOK, WholeBlocks, vars
<1>6. CASE ReadRefused
  BY <1>1, <1>6 DEF ReadRefused, Exit, FlushInv, FlushTypeOK, WholeBlocks, NothingFrom, vars
<1>7. QED
  BY <1>2, <1>3, <1>4, <1>5, <1>6 DEF CopyStep

LEMMA FlushStepOK == FlushInv /\ [FlushNext]_allVars => FlushInv'
<1> SUFFICES ASSUME FlushInv, [FlushNext]_allVars PROVE FlushInv'
  OBVIOUS
<1>1. FlushTypeOK /\ WholeBlocks /\ IInv
  BY DEF FlushInv
<1>2. IInv'
  <2>1. [Next]_vars
    BY ListStep DEF allVars
  <2>2. QED
    BY <1>1, <2>1, ExtentsStep
<1>3. TypeOK'
  BY <1>2 DEF IInv
<1>4. CASE WriteStep \/ PushStep
  BY <1>2, <1>4, WritesOK
<1>5. CASE BeginFlush \/ CopyStep
  BY <1>2, <1>5, FlushOK
<1>6. CASE Truncate
  <2>1. length' = 0 /\ behind' = {} /\ UNCHANGED <<vars, flushing, job, status>>
    BY <1>6 DEF Truncate
  <2>2. length' \in Offsets
    BY <2>1, ExtentsAssumption DEF Offsets
  <2>3. job # None => NothingFrom(job.start + job.total)'
    BY <2>1 DEF NothingFrom
  <2>4. QED
    BY <1>1, <1>2, <1>3, <2>1, <2>2, <2>3 DEF FlushInv, FlushTypeOK, WholeBlocks, vars
<1>7. CASE CopyFails
  BY <1>1, <1>2, <1>3, <1>7
  DEF CopyFails, Exit, FlushInv, FlushTypeOK, WholeBlocks, NothingFrom, vars
<1>8. CASE UNCHANGED allVars
  BY <1>1, <1>2, <1>3, <1>8
  DEF allVars, flushVars, FlushInv, FlushTypeOK, WholeBlocks, NothingFrom, vars
<1>9. QED
  BY <1>4, <1>5, <1>6, <1>7, <1>8 DEF FlushNext, Exited

THEOREM FlushInvariant == FlushSpec => []FlushInv
BY FlushInitOK, FlushStepOK, PTL DEF FlushSpec

\* What a flush works on is an interval of the file, the source lacks nothing
\* beyond the end of the copy, and a flush never meets a push.
THEOREM FlushTypeCorrect == FlushSpec => []FlushTypeOK
<1>1. FlushInv => FlushTypeOK
  BY DEF FlushInv
<1>2. QED
  BY <1>1, FlushInvariant, PTL

-----------------------------------------------------------------------------
(* What is lost.                                                           *)

\* The end of the interval in hand that a copy need not reach.
TailInHand == {b \in job.start .. job.end - 1 : b >= CopiesUpTo(job.start, BlockSize)}

\* What the list covers goes into the hands of the copy with a pop; a push adds to it.
LEMMA CoveredKept ==
  ASSUME IInv, IInv', NEW b \in Covered
  PROVE  /\ Scan \/ Merge \/ Insert \/ Absorb \/ AbsorbDone => b \in Covered'
         /\ Pop => b \in Covered' \cup (popped'[1] .. popped'[2] - 1)
<1>1. CASE Scan \/ AbsorbDone
  BY <1>1 DEF Scan, AbsorbDone, Covered
<1>2. CASE Merge \/ Insert \/ Absorb
  BY <1>2, MergeRefines, InsertRefines, AbsorbRefines
<1>3. ASSUME Pop PROVE b \in Covered' \cup (popped'[1] .. popped'[2] - 1)
  <2>1. /\ Len(list) \in Nat /\ Len(list') = Len(list) - 1 /\ popped' = list[1]
        /\ \A i \in 1 .. Len(list) - 1 : list'[i] = list[i + 1]
    BY <1>3, PopList, Ends DEF IInv
  <2>2. PICK i \in 1 .. Len(list) : b \in list[i][1] .. list[i][2] - 1
    BY DEF Covered
  <2>3. CASE i = 1
    BY <2>1, <2>2, <2>3
  <2>4. CASE i # 1
    <3>1. i - 1 \in 1 .. Len(list') /\ list'[i - 1] = list[i]
      BY <2>1, <2>2, <2>4
    <3>2. b \in list'[i - 1][1] .. list'[i - 1][2] - 1
      BY <2>2, <3>1
    <3>3. QED
      BY <3>1, <3>2 DEF Covered
  <2>5. QED
    BY <2>3, <2>4
<1>4. QED
  BY <1>1, <1>2, <1>3

\* A push hands its interval to the list when it changes it.
LEMMA PushedKept ==
  ASSUME IInv, IInv', PushStep, NEW b \in Pushing
  PROVE  b \in Covered' \cup Pushing'
<1>1. pc = "scan" /\ b \in new[1] .. new[2] - 1
  BY DEF Pushing
<1>2. CASE Scan
  BY <1>1, <1>2 DEF Scan, Pushing
<1>3. CASE Merge \/ Insert
  BY <1>1, <1>3, MergeRefines, InsertRefines
<1>4. QED
  BY <1>1, <1>2, <1>3 DEF PushStep, Absorb, AbsorbDone

\* Whole blocks that reach `start` bytes reach as far as CopiesUpTo.
LEMMA BlocksReach ==
  ASSUME NEW start \in Nat, NEW size \in Nat, size > 0, NEW k \in Nat, k > 0,
         k * size >= start
  PROVE  start + k * size >= CopiesUpTo(start, size)
<1>1. CASE start <= size
  <2>1. CopiesUpTo(start, size) = start + size
    BY <1>1 DEF CopiesUpTo
  <2>2. (k - 1) * size >= 0
    OBVIOUS
  <2>3. k * size >= size
    BY <2>2
  <2>4. QED
    BY <2>1, <2>3
<1>2. CASE start > size
  <2> DEFINE q == (start + size - 1) \div size
  <2>1. q \in Int /\ q * size <= start + size - 1
    BY <1>2
  <2>2. CopiesUpTo(start, size) = start + size * q
    BY <1>2 DEF CopiesUpTo
  <2> HIDE DEF q
  <2>3. ASSUME k < q PROVE FALSE
    <3>1. (q - 1 - k) * size >= 0
      BY <2>1, <2>3
    <3>2. (q - 1 - k) * size = q * size - size - k * size
      BY <2>1
    <3>3. QED
      BY <2>1, <3>1, <3>2
  <2>4. (k - q) * size >= 0
    BY <2>1, <2>3
  <2>5. (k - q) * size = k * size - size * q
    BY <2>1
  <2>6. QED
    BY <2>1, <2>2, <2>4, <2>5
<1>3. QED
  BY <1>1, <1>2

\* The writes lose nothing: what is written is pushed.
LEMMA WritesLoseNothing ==
  ASSUME FlushInv, IInv', WriteStep \/ PushStep
  PROVE  Lost' \subseteq Lost
<1>1. IInv /\ FlushTypeOK
  BY DEF FlushInv
<1>2. SUFFICES ASSUME NEW b \in behind', b \notin Lost
               PROVE  b \in Covered' \cup Pushing' \cup Copying'
  BY DEF Lost
<1>3. ASSUME NEW lower \in Offsets, NEW upper \in Offsets, Write(lower, upper)
      PROVE  b \in Covered' \cup Pushing' \cup Copying'
  <2>1. /\ behind' = behind \cup lower .. upper - 1 /\ UNCHANGED <<list, job>>
        /\ pc = "idle" /\ pc' = "scan" /\ new' = <<lower, upper>>
    BY <1>3 DEF Write, PushBegin
  <2>2. Pushing = {} /\ Covered' = Covered /\ Copying' = Copying
        /\ Pushing' = lower .. upper - 1
    BY <2>1 DEF Pushing, Covered, Copying
  <2>3. QED
    BY <1>2, <2>1, <2>2 DEF Lost
<1>4. ASSUME NEW lower \in Offsets, WriteFails(lower)
      PROVE  b \in Covered' \cup Pushing' \cup Copying'
  <2>1. UNCHANGED <<list, job, behind>> /\ pc = "idle"
    BY <1>4 DEF WriteFails, PushBegin, flushVars
  <2>2. Pushing = {} /\ Covered' = Covered /\ Copying' = Copying
    BY <2>1 DEF Pushing, Covered, Copying
  <2>3. QED
    BY <1>2, <2>1, <2>2 DEF Lost
<1>5. CASE PushStep
  <2>1. UNCHANGED <<job, behind>>
    BY <1>5 DEF PushStep, flushVars
  <2>2. b \in Covered \cup Pushing \cup Copying /\ Copying' = Copying
    BY <1>2, <2>1 DEF Lost, Copying
  <2>3. b \in Covered => b \in Covered'
    BY <1>1, <1>5, CoveredKept DEF PushStep
  <2>4. b \in Pushing => b \in Covered' \cup Pushing'
    BY <1>1, <1>5, PushedKept
  <2>5. QED
    BY <2>2, <2>3, <2>4
<1>6. QED
  BY <1>3, <1>4, <1>5 DEF WriteStep

\* A pop hands an interval over to the copy, from its first to its last byte.
LEMMA PopLosesNothing ==
  ASSUME FlushInv, IInv', PopInterval
  PROVE  Lost' \subseteq Lost
<1>1. /\ IInv /\ Pop /\ job = None /\ pc = "idle" /\ pc' = "idle" /\ behind' = behind
      /\ job' = [start |-> popped'[1], end |-> popped'[2], total |-> 0]
  BY DEF FlushInv, PopInterval, Pop
<1>2. popped' \in Intervals
  <2>1. TypeOK
    BY <1>1 DEF IInv
  <2>2. 1 \in 1 .. Len(list) /\ popped' = list[1] /\ list \in Seq(Intervals)
    BY <1>1, <2>1, PopList DEF TypeOK
  <2>3. QED
    BY <2>2
<1>3. popped'[1] \in Nat /\ popped'[2] \in Nat /\ 0 \in Offsets
  BY <1>2, ExtentsAssumption DEF Intervals, Offsets
<1>4. job' \in Jobs
  BY <1>1, <1>2, <1>3 DEF Jobs, Intervals
<1>5. job' # None
  BY <1>4, WriteBackAssumption
<1>6. job'.start + job'.total = popped'[1] /\ job'.end = popped'[2]
  BY <1>1, <1>3
<1>7. Copying' = popped'[1] .. popped'[2] - 1
  BY <1>5, <1>6 DEF Copying
<1>8. Pushing = {} /\ Pushing' = {} /\ Copying = {}
  BY <1>1 DEF Pushing, Copying
<1>9. \A b \in Covered : b \in Covered' \cup Copying'
  BY <1>1, <1>7, CoveredKept
<1>10. QED
  BY <1>1, <1>8, <1>9 DEF Lost

\* A turn of the loop loses nothing, unless it is the last: then the bytes behind
\* as many whole blocks as are needed to reach `start` bytes.
LEMMA CopyLosesTail ==
  ASSUME FlushInv, CopyBlock
  PROVE  Lost' \subseteq Lost \cup (IF job' = None THEN TailInHand ELSE {})
<1>1. FlushTypeOK /\ WholeBlocks
  BY DEF FlushInv
<1>2. /\ job # None /\ BytesRead > 0 /\ UNCHANGED <<list, pc, new>>
      /\ behind' = behind \ (job.start + job.total .. job.start + job.total + BytesRead - 1)
  BY <1>1, BlockCopied DEF vars
<1>3. Covered' = Covered /\ Pushing' = Pushing
  BY <1>2 DEF Covered, Pushing
<1>4. SUFFICES ASSUME NEW b \in behind', b \in Copying, b \notin Copying'
               PROVE  job' = None /\ b \in TailInHand
  BY <1>2, <1>3 DEF Lost
<1>5. /\ b \in Nat /\ b >= job.start + job.total + BytesRead /\ b < job.end
      /\ b \in job.start .. job.end - 1
  <2>1. b \in job.start + job.total .. job.end - 1
    BY <1>2, <1>4 DEF Copying
  <2>2. b \notin job.start + job.total .. job.start + job.total + BytesRead - 1
    BY <1>2, <1>4
  <2>3. QED
    BY <1>1, <1>2, <2>1, <2>2, JobNumbers
<1>6. ~GoesOn(job.total + BytesRead)
  <2> SUFFICES ASSUME GoesOn(job.total + BytesRead) PROVE FALSE
    OBVIOUS
  <2>1. /\ job' \in Jobs /\ job'.start = job.start /\ job'.end = job.end
        /\ job'.total = job.total + BytesRead
    BY <1>1, BlockCopied
  <2>2. job' # None
    BY <2>1, WriteBackAssumption
  <2>3. job'.start + job'.total = job.start + job.total + BytesRead
    BY <1>1, <1>2, <2>1, JobNumbers
  <2>4. Copying' = job.start + job.total + BytesRead .. job.end - 1
    BY <2>1, <2>2, <2>3 DEF Copying
  <2>5. QED
    BY <1>1, <1>2, <1>4, <1>5, <2>4, JobNumbers
<1>7. job' = None /\ job.total + BytesRead >= job.start /\ job.total + BytesRead \in Nat
  <2>1. job' = None /\ ~(job.total + BytesRead < job.start)
    BY <1>1, <1>6, BlockCopied DEF GoesOn
  <2>2. QED
    BY <1>1, <1>2, <2>1, JobNumbers
<1>8. ~(behind' \cap (job.start + (job.total + BytesRead) .. job.end - 1) = {})
  <2>1. b \in job.start + (job.total + BytesRead) .. job.end - 1
    BY <1>1, <1>2, <1>5, JobNumbers
  <2>2. QED
    BY <1>4, <2>1
<1>9. PICK k \in Nat : job.total + BytesRead = k * BlockSize
  BY <1>1, <1>7, <1>8, StaysWhole
<1>10. k > 0
  <2>1. job.total + BytesRead > 0
    BY <1>1, <1>2, JobNumbers
  <2>2. k # 0
    BY <1>1, <1>2, <1>9, <2>1, JobNumbers
  <2>3. QED
    BY <2>2
<1>11. job.start + k * BlockSize >= CopiesUpTo(job.start, BlockSize)
  BY <1>1, <1>2, <1>7, <1>9, <1>10, BlocksReach, JobNumbers
<1>12. b >= job.start + k * BlockSize
  BY <1>1, <1>2, <1>5, <1>9, JobNumbers
<1>13. CopiesUpTo(job.start, BlockSize) \in Int
  BY <1>1, <1>2, JobNumbers DEF CopiesUpTo
<1>14. b >= CopiesUpTo(job.start, BlockSize)
  <2>1. job.start + k * BlockSize \in Int
    BY <1>1, <1>2, JobNumbers
  <2>2. QED
    BY <1>5, <1>11, <1>12, <1>13, <2>1
<1>15. QED
  BY <1>5, <1>7, <1>14 DEF TailInHand

\* A read that returns nothing ends the loop where there is nothing left to copy.
LEMMA EndLosesNothing ==
  ASSUME FlushInv, ReadNothing
  PROVE  Lost' \subseteq Lost
<1>1. FlushTypeOK /\ job # None /\ BytesRead = 0 /\ UNCHANGED <<list, pc, new, behind>>
  BY DEF FlushInv, ReadNothing, vars
<1>2. Covered' = Covered /\ Pushing' = Pushing
  BY <1>1 DEF Covered, Pushing
<1>3. ASSUME NEW b \in behind, b \in Copying PROVE FALSE
  <2>1. b \in job.start + job.total .. job.end - 1 /\ b \in 0 .. length - 1
    BY <1>1, <1>3 DEF Copying, FlushTypeOK
  <2>2. QED
    BY <1>1, <2>1, JobNumbers
<1>4. QED
  BY <1>1, <1>2, <1>3 DEF Lost

\* No byte that was written is forgotten, whatever writes fail and wherever a
\* truncation comes, but for the ends of intervals longer than their offset.
THEOREM FlushLosesOnlyTails == FlushSpec => LosesOnlyTails
<1>1. ASSUME FlushInv, FlushInv', FlushNext
      PROVE  Lost' \subseteq Lost \cup (IF job # None /\ job' = None THEN TailInHand ELSE {})
  <2>1. IInv'
    BY <1>1 DEF FlushInv
  <2>2. CASE WriteStep \/ PushStep
    BY <1>1, <2>1, <2>2, WritesLoseNothing
  <2>3. CASE PopInterval
    BY <1>1, <2>1, <2>3, PopLosesNothing
  <2>4. CASE CopyBlock
    BY <1>1, <2>4, CopyLosesTail DEF CopyBlock
  <2>5. CASE ReadNothing
    BY <1>1, <2>5, EndLosesNothing
  <2>6. CASE Truncate
    BY <2>6 DEF Truncate, Lost
  <2>7. CASE BeginFlush \/ EndFlush \/ ReadRefused \/ CopyFails \/ Exited
    <3>1. UNCHANGED <<list, pc, new, job, behind>>
      BY <2>7 DEF BeginFlush, EndFlush, PopNone, ReadRefused, CopyFails, Exit, Exited,
                  allVars, vars, flushVars
    <3>2. QED
      BY <3>1 DEF Lost, Covered, Pushing, Copying
  <2>8. QED
    BY <1>1, <2>2, <2>3, <2>4, <2>5, <2>6, <2>7 DEF FlushNext, CopyStep
<1>2. FlushInv /\ FlushInv' /\ [FlushNext]_allVars =>
        [Lost' \subseteq Lost \cup
           (IF job # None /\ job' = None THEN TailInHand ELSE {})]_allVars
  BY <1>1
<1>3. QED
  BY <1>2, FlushInvariant, PTL DEF FlushSpec, LosesOnlyTails, TailInHand
-----------------------------------------------------------------------------
(* What is copied.                                                         *)

\* The interval in hand lies before all that is listed; before every turn of the
\* loop another one is due, and whole blocks have been copied, or all there is.
HandInv ==
  job # None =>
    /\ job.total = 0 \/ job.total < job.start
    /\ \/ \E k \in Nat : job.total = k * BlockSize
       \/ job.start + job.total >= job.end
       \/ job.start + job.total >= length
    /\ \A b \in Covered : job.end < b

\* What is copied of the run R that begins at start.
OfRun(R, start, n, size) == {b \in R : b < n /\ b < CopiesUpTo(start, size)}

\* R is the interval from lower up to upper of the bytes S, T the rest of them, and
\* there is a gap between.
IsFirstRun(S, R, T, lower, upper) ==
  /\ R = lower .. upper - 1 /\ R \subseteq S /\ T = S \ R
  /\ \A b \in T : b \in Nat /\ upper < b

\* What CopiedBack makes of a list is what it makes of the first run and of the rest.
LEMMA RunTaken ==
  ASSUME NEW S, NEW R, NEW T, NEW n \in Nat, NEW size \in Nat,
         NEW lower \in Nat, NEW upper \in Nat, IsFirstRun(S, R, T, lower, upper)
  PROVE  CopiedBack(S, n, size) = OfRun(R, lower, n, size) \cup CopiedBack(T, n, size)
<1> USE DEF IsFirstRun
<1>1. \A b \in R : b \in Nat /\ lower <= b /\ b < upper
  BY SMT
<1>2. \A b \in S : b \in Nat
  BY <1>1
<1>3. ASSUME NEW b \in S, NEW start \in S,
             start - 1 \notin S, start <= b, start .. b \subseteq S
      PROVE  /\ b \in R => start = lower
             /\ b \notin R => start \in S \ R /\ start - 1 \notin S \ R
                              /\ start .. b \subseteq S \ R
  <2>1. b \in Nat /\ start \in Nat
    BY <1>2
  <2>2. CASE b \in R
    <3>1. start \in R
      BY <1>1, <1>3, <2>1, <2>2
    <3>2. ASSUME start # lower PROVE FALSE
      <4>1. lower <= start - 1 /\ start - 1 \in Nat /\ start - 1 < upper
        BY <1>1, <2>1, <3>1, <3>2
      <4>2. start - 1 \in R
        BY <4>1
      <4>3. QED
        BY <1>3, <4>2
    <3>3. QED
      BY <2>2, <3>2
  <2>3. CASE b \notin R
    <3>1. upper < b /\ upper \notin S
      <4>1. upper \notin R
        BY <1>1
      <4>2. QED
        BY <2>3, <4>1
    <3>2. upper < start
      <4>1. upper \notin start .. b
        BY <1>3, <3>1
      <4>2. QED
        BY <2>1, <3>1, <4>1
    <3>3. \A c \in start .. b : c \notin R
      BY <1>1, <2>1, <3>2
    <3>4. start \in start .. b
      BY <1>3, <2>1
    <3>5. QED
      BY <1>3, <2>3, <3>3, <3>4
  <2>4. QED
    BY <2>2, <2>3
<1>4. ASSUME NEW b \in CopiedBack(S, n, size)
      PROVE  \/ b \in R /\ b < n /\ b < CopiesUpTo(lower, size)
             \/ b \in CopiedBack(S \ R, n, size)
  <2>1. b \in S /\ b < n
    BY DEF CopiedBack
  <2>2. PICK start \in S : /\ start - 1 \notin S /\ start <= b /\ start .. b \subseteq S
                           /\ b < CopiesUpTo(start, size)
    BY DEF CopiedBack
  <2>3. QED
    BY <1>3, <2>1, <2>2 DEF CopiedBack
<1>5. ASSUME NEW b \in R, b < n, b < CopiesUpTo(lower, size)
      PROVE  b \in CopiedBack(S, n, size)
  <2>1. lower \in R /\ lower <= b /\ lower .. b \subseteq R
    BY <1>1
  <2>2. lower - 1 \notin S
    BY <1>1, <1>2
  <2>3. QED
    BY <1>5, <2>1, <2>2 DEF CopiedBack
<1>6. ASSUME NEW b \in CopiedBack(S \ R, n, size)
      PROVE  b \in CopiedBack(S, n, size)
  <2>1. b \in S \ R /\ b < n
    BY DEF CopiedBack
  <2>2. PICK start \in S \ R :
          /\ start - 1 \notin S \ R /\ start <= b /\ start .. b \subseteq S \ R
          /\ b < CopiesUpTo(start, size)
    BY DEF CopiedBack
  <2>3. start - 1 \notin R
    <3>1. start \in Nat /\ upper < start
      BY <2>2
    <3>2. ~(start - 1 < upper)
      BY <3>1
    <3>3. QED
      BY <1>1, <3>2
  <2>4. QED
    BY <2>1, <2>2, <2>3 DEF CopiedBack
<1>7. QED
  BY <1>4, <1>5, <1>6 DEF OfRun

\* One more block than has not reached `start` bytes goes no further than CopiesUpTo.
LEMMA BlocksWithin ==
  ASSUME NEW start \in Nat, NEW size \in Nat, size > 0, NEW k \in Nat,
         k = 0 \/ k * size < start
  PROVE  start + k * size + size <= CopiesUpTo(start, size)
<1>1. CASE start <= size
  <2>1. CopiesUpTo(start, size) = start + size
    BY <1>1 DEF CopiesUpTo
  <2>2. ASSUME k # 0 PROVE FALSE
    <3>1. (k - 1) * size >= 0
      BY <2>2
    <3>2. (k - 1) * size = k * size - size
      OBVIOUS
    <3>3. k * size \in Nat
      OBVIOUS
    <3>4. QED
      BY <1>1, <2>2, <3>1, <3>2, <3>3
  <2>3. k * size = 0
    BY <2>2
  <2>4. QED
    BY <2>1, <2>3
<1>2. CASE start > size
  <2> DEFINE q == (start + size - 1) \div size
  <2>1. q \in Int /\ start + size - 1 < q * size + size
    BY <1>2
  <2>2. CopiesUpTo(start, size) = start + size * q
    BY <1>2 DEF CopiesUpTo
  <2> HIDE DEF q
  <2>3. k * size \in Nat /\ k * size < q * size
    <3>1. k * size \in Nat /\ k * size < start
      BY <1>2
    <3>2. q * size \in Int
      BY <2>1
    <3>3. QED
      BY <2>1, <3>1, <3>2
  <2>4. ASSUME k >= q PROVE FALSE
    <3>1. (k - q) * size >= 0
      BY <2>1, <2>4
    <3>2. (k - q) * size = k * size - q * size
      BY <2>1
    <3>3. q * size \in Int
      BY <2>1
    <3>4. QED
      BY <2>3, <3>1, <3>2, <3>3
  <2>5. (q - 1 - k) * size >= 0
    BY <2>1, <2>4
  <2>6. (q - 1 - k) * size = size * q - size - k * size
    BY <2>1
  <2>7. size * q \in Int
    BY <2>1
  <2>8. QED
    BY <2>2, <2>3, <2>5, <2>6, <2>7
<1>3. QED
  BY <1>1, <1>2

\* How far a turn that copies something gets.
LEMMA BlockReaches ==
  ASSUME FlushTypeOK, HandInv, CopyBlock, NEW next, next = job.total + BytesRead
  PROVE  /\ next \in Nat /\ CopiesUpTo(job.start, BlockSize) \in Int
         /\ job.start + next <= job.end /\ job.start + next <= length
         /\ job.start + next <= CopiesUpTo(job.start, BlockSize)
         /\ \/ \E k \in Nat : next = k * BlockSize
            \/ job.start + next >= job.end
            \/ job.start + next >= length
         /\ next >= job.start =>
              \/ job.start + next >= job.end
              \/ job.start + next >= length
              \/ job.start + next >= CopiesUpTo(job.start, BlockSize)
<1>1. job # None /\ BytesRead > 0
  BY BlockCopied
<1>2. /\ job.start \in Nat /\ job.end \in Nat /\ job.total \in Nat /\ length \in Nat
      /\ BlockSize \in Nat /\ BlockSize > 0 /\ Request \in Int /\ Available \in Nat
      /\ BytesRead \in Int
      /\ Request <= job.end - job.start - job.total /\ Request <= BlockSize
      /\ Request = job.end - job.start - job.total \/ Request = BlockSize
      /\ job.start + job.total + Available = length \/ Available = 0
      /\ BytesRead <= Request /\ BytesRead <= Available
      /\ BytesRead = Request \/ BytesRead = Available
  BY <1>1, JobNumbers
<1>3. CopiesUpTo(job.start, BlockSize) \in Int
  BY <1>2 DEF CopiesUpTo
<1>4. next \in Nat /\ job.start + next <= job.end /\ job.start + next <= length
  BY <1>1, <1>2
<1>5. PICK k \in Nat : job.total = k * BlockSize
  BY <1>1, <1>2 DEF HandInv
<1>6. job.start + next <= CopiesUpTo(job.start, BlockSize)
  <2>1. k = 0 \/ k * BlockSize < job.start
    <3>1. k # 0 => k * BlockSize # 0
      BY <1>2
    <3>2. QED
      BY <1>1, <1>5, <3>1 DEF HandInv
  <2>2. job.start + k * BlockSize + BlockSize <= CopiesUpTo(job.start, BlockSize)
    BY <1>2, <2>1, BlocksWithin
  <2>3. QED
    BY <1>2, <1>3, <1>5, <2>2
<1>7. CASE BytesRead = BlockSize
  <2>1. k + 1 \in Nat /\ k + 1 > 0 /\ next = (k + 1) * BlockSize
    BY <1>2, <1>5, <1>7
  <2>2. next >= job.start => job.start + next >= CopiesUpTo(job.start, BlockSize)
    BY <1>2, <2>1, BlocksReach
  <2>3. QED
    BY <1>3, <1>4, <1>6, <2>1, <2>2
<1>8. CASE BytesRead # BlockSize
  <2>1. job.start + next >= job.end \/ job.start + next >= length
    BY <1>1, <1>2, <1>8
  <2>2. QED
    BY <1>3, <1>4, <1>6, <2>1
<1>9. QED
  BY <1>7, <1>8

-----------------------------------------------------------------------------
(* The invariant of the interval in hand.                                  *)

LEMMA HandInit == FlushInit => HandInv
BY DEF FlushInit, HandInv

LEMMA HandStep ==
  ASSUME FlushInv, FlushInv', HandInv, [FlushNext]_allVars
  PROVE  HandInv'
<1>1. FlushTypeOK /\ IInv /\ IInv'
  BY DEF FlushInv
<1>2. CASE WriteStep \/ PushStep \/ BeginFlush
  <2>1. ~flushing /\ job' = job
    BY <1>1, <1>2 DEF WriteStep, PushStep, BeginFlush, Write, WriteFails, EntryFree, Scan,
       Merge, Insert, Absorb, AbsorbDone, flushVars, FlushTypeOK
  <2>2. QED
    BY <1>1, <2>1 DEF FlushTypeOK, HandInv
<1>3. CASE EndFlush \/ ReadNothing
  BY <1>3 DEF EndFlush, ReadNothing, Break, HandInv
<1>4. CASE PopInterval
  <2>1. Pop /\ job' = [start |-> popped'[1], end |-> popped'[2], total |-> 0]
    BY <1>4 DEF PopInterval
  <2>2. \A b \in Covered' : popped'[2] < b
    BY <1>1, <2>1, PopTakes
  <2>3. job'.total = 0 /\ job'.end = popped'[2] /\ 0 = 0 * BlockSize
    BY <2>1, WriteBackAssumption
  <2>4. QED
    BY <2>2, <2>3 DEF HandInv
<1>5. CASE CopyBlock
  <2>1. /\ GoesOn(job.total + BytesRead) =>
              /\ job'.start = job.start /\ job'.end = job.end
              /\ job'.total = job.total + BytesRead
        /\ ~GoesOn(job.total + BytesRead) => job' = None
        /\ job # None /\ length' = length /\ Covered' = Covered
    BY <1>1, <1>5, BlockCopied DEF Covered, vars
  <2>2. CASE GoesOn(job.total + BytesRead)
    <3>1. \/ \E k \in Nat : job'.total = k * BlockSize
          \/ job'.start + job'.total >= job'.end
          \/ job'.start + job'.total >= length'
      BY <1>1, <1>5, <2>1, <2>2, BlockReaches
    <3>2. QED
      BY <2>1, <2>2, <3>1 DEF HandInv, GoesOn
  <2>3. QED
    BY <2>1, <2>2 DEF HandInv
<1>6. CASE Truncate
  <2>1. length' = 0 /\ job' = job /\ Covered' = Covered
    BY <1>6 DEF Truncate, vars, Covered
  <2>2. job # None => job.start \in Nat /\ job.total \in Nat
    BY <1>1, JobNumbers
  <2>3. job # None => job.start + job.total >= 0
    BY <2>2
  <2>4. QED
    BY <2>1, <2>3 DEF HandInv
<1>7. CASE ReadRefused \/ CopyFails \/ Exited \/ UNCHANGED allVars
  <2>1. job' = job /\ length' = length /\ list' = list
    BY <1>7 DEF ReadRefused, CopyFails, Exit, Exited, allVars, flushVars, vars
  <2>2. QED
    BY <2>1 DEF HandInv, Covered
<1>8. QED
  BY <1>2, <1>3, <1>4, <1>5, <1>6, <1>7 DEF FlushNext, CopyStep

LEMMA HandInvariant == FlushSpec => []HandInv
BY HandInit, HandStep, FlushInvariant, PTL DEF FlushSpec

-----------------------------------------------------------------------------
(* The refinement.                                                         *)

\* The refinement mapping: what is listed when no flush is under way, and what the
\* flush under way has yet to copy.
ListedNow == IF flushing THEN {} ELSE Covered \cup Pushing
DueNow == IF flushing THEN Due ELSE {}

\* A push changes what is listed when its write is made, and never again.
LEMMA PushesStutter ==
  ASSUME IInv, IInv', PushStep
  PROVE  Covered' \cup Pushing' = Covered \cup Pushing
<1>1. CASE Scan
  BY <1>1 DEF Scan, Covered, Pushing
<1>2. CASE Merge \/ Insert
  <2>1. Covered' = Covered \cup (new[1] .. new[2] - 1)
    BY <1>2, MergeRefines, InsertRefines
  <2>2. Pushing = new[1] .. new[2] - 1 /\ Pushing' = {}
    BY <1>2 DEF Merge, Insert, Pushing
  <2>3. QED
    BY <2>1, <2>2
<1>3. CASE Absorb
  <2>1. Pushing = {} /\ Pushing' = {}
    BY <1>3 DEF Absorb, Pushing
  <2>2. QED
    BY <1>3, <2>1, AbsorbRefines
<1>4. CASE AbsorbDone
  BY <1>4 DEF AbsorbDone, Covered, Pushing
<1>5. QED
  BY <1>1, <1>2, <1>3, <1>4 DEF PushStep

LEMMA CoveredIsNat == ASSUME IInv, IInv' PROVE \A b \in Covered : b \in Nat
<1>1. TypeOK
  BY DEF IInv
<1>2. SUFFICES ASSUME NEW b \in Covered PROVE b \in Nat
  OBVIOUS
<1>3. PICK i \in 1 .. Len(list) : b \in Int /\ list[i][1] <= b
  BY InCovered
<1>4. QED
  BY <1>1, <1>3, Ends

\* Writes and pushes.
LEMMA WritesAsPromised ==
  ASSUME FlushInv, FlushInv', WriteStep \/ PushStep
  PROVE  [Back!Next]_(Back!copyVars)
<1>1. FlushTypeOK /\ IInv /\ IInv'
  BY DEF FlushInv
<1>2. ~flushing /\ ~flushing'
  BY <1>1 DEF WriteStep, Write, WriteFails, PushStep, Scan, Merge, Insert, Absorb,
     AbsorbDone, flushVars, FlushTypeOK
<1>3. ListedNow = Covered \cup Pushing /\ ListedNow' = Covered' \cup Pushing'
  BY <1>2 DEF ListedNow
<1>4. DueNow = {} /\ DueNow' = {}
  BY <1>2 DEF DueNow
<1>5. ASSUME NEW lower \in Offsets, NEW upper \in Offsets, lower <= upper,
             Write(lower, upper)
      PROVE  Back!Next
  <2>1. /\ behind' = behind \cup lower .. upper - 1 /\ list' = list
        /\ pc = "idle" /\ pc' = "scan" /\ new' = <<lower, upper>>
        /\ flushing' = flushing
        /\ length' = IF upper > lower THEN Max2(length, upper) ELSE length
    BY <1>5 DEF Write, PushBegin
  <2>2. ListedNow' = ListedNow \cup lower .. upper - 1
    BY <1>3, <2>1 DEF Covered, Pushing
  <2>3. length' = IF upper > lower /\ upper > length THEN upper ELSE length
    <3>1. length \in Nat /\ upper \in Nat
      BY <1>1, ExtentsAssumption DEF FlushTypeOK, Offsets
    <3>2. QED
      BY <2>1, <3>1 DEF Max2
  <2>4. Back!Write(lower, upper)
    BY <1>2, <1>4, <2>1, <2>2, <2>3 DEF Back!Write, ListedNow, DueNow
  <2>5. QED
    BY <1>5, <2>4 DEF Back!Next, Back!Offsets, Offsets
<1>6. ASSUME NEW lower \in Offsets, WriteFails(lower)
      PROVE  UNCHANGED Back!copyVars
  <2>1. /\ list' = list /\ pc = "idle" /\ pc' = "scan" /\ new' = <<lower, lower - 1>>
        /\ UNCHANGED flushVars
    BY <1>6 DEF WriteFails, PushBegin
  <2>2. lower .. lower - 1 - 1 = {}
    BY ExtentsAssumption DEF Offsets
  <2>3. ListedNow' = ListedNow
    BY <1>3, <2>1, <2>2 DEF Covered, Pushing
  <2>4. QED
    BY <1>4, <2>1, <2>3 DEF Back!copyVars, flushVars, ListedNow, DueNow
<1>7. CASE PushStep
  <2>1. ListedNow' = ListedNow
    BY <1>1, <1>3, <1>7, PushesStutter
  <2>2. UNCHANGED flushVars
    BY <1>7 DEF PushStep
  <2>3. QED
    BY <1>4, <2>1, <2>2 DEF Back!copyVars, flushVars, ListedNow, DueNow
<1>8. QED
  BY <1>5, <1>6, <1>7 DEF WriteStep

\* A flush begins with all that CopiedBack makes of the list ...
LEMMA BeginsAsPromised ==
  ASSUME FlushInv, FlushInv', BeginFlush
  PROVE  Back!Begin
<1>1. /\ ~flushing /\ flushing' = TRUE /\ pc = "idle" /\ job' = job /\ list' = list
      /\ length' = length /\ behind' = behind
  BY DEF BeginFlush, EntryFree, vars
<1>2. job = None
  BY <1>1 DEF FlushInv, FlushTypeOK
<1>3. ListedNow = Covered /\ ListedNow' = {}
  BY <1>1 DEF ListedNow, Pushing
<1>4. DueNow' = CopiedBack(Covered, length, BlockSize)
  BY <1>1, <1>2 DEF DueNow, Due, DueInHand, Covered
<1>5. QED
  BY <1>1, <1>3, <1>4 DEF Back!Begin, Back!CopiedBack, CopiedBack,
     Back!CopiesUpTo, CopiesUpTo, ListedNow, DueNow

\* ... which a pop leaves as it is, ...
LEMMA PopsAsPromised ==
  ASSUME FlushInv, FlushInv', PopInterval
  PROVE  Due' = Due
<1>1. FlushTypeOK /\ IInv /\ IInv' /\ FlushTypeOK'
  BY DEF FlushInv
<1>2. /\ job = None /\ Pop /\ length' = length
      /\ job' = [start |-> popped'[1], end |-> popped'[2], total |-> 0]
  BY DEF PopInterval
<1>3. PICK lower \in Nat, upper \in Nat, R \in SUBSET Covered :
        /\ lower = popped'[1] /\ upper = popped'[2] /\ R = lower .. upper - 1
        /\ Covered' = Covered \ R
        /\ \A b \in Covered' : b \in Nat /\ upper < b
  BY <1>1, <1>2, PopTakes
<1>4. length \in Nat /\ BlockSize \in Nat
  BY <1>1, ExtentsAssumption, WriteBackAssumption DEF FlushTypeOK, Offsets
<1>5. CopiedBack(Covered, length, BlockSize) =
        OfRun(R, lower, length, BlockSize) \cup CopiedBack(Covered', length, BlockSize)
  <2>1. IsFirstRun(Covered, R, Covered', lower, upper)
    BY <1>3 DEF IsFirstRun
  <2>2. QED
    BY ONLY <1>4, <2>1, RunTaken
<1>6. job' # None
  <2>1. 0 \in Offsets /\ popped' \in Intervals
    BY <1>1, <1>2, ExtentsAssumption, PopTakes DEF Offsets
  <2>2. job' \in Jobs
    BY <1>2, <2>1 DEF Jobs, Intervals
  <2>3. QED
    BY <2>2, WriteBackAssumption
<1>7. /\ job'.start = lower /\ job'.end = upper /\ job'.total = 0
      /\ job'.start + job'.total = lower
  BY <1>2, <1>3
<1>8. DueInHand' = OfRun(R, lower, length, BlockSize)
  BY <1>2, <1>3, <1>6, <1>7 DEF DueInHand, Copying, OfRun
<1>9. DueInHand = {}
  BY <1>2 DEF DueInHand
<1>10. QED
  BY <1>2, <1>3, <1>5, <1>8, <1>9 DEF Due

\* ... of which a turn of the loop takes what it copies, ...
LEMMA TurnsAsPromised ==
  ASSUME FlushInv, HandInv, CopyBlock
  PROVE  Due' \subseteq Due /\ behind' = behind \ (Due \ Due')
<1> DEFINE from == job.start + job.total
           next == job.total + BytesRead
           P == from .. from + BytesRead - 1
<1>1. FlushTypeOK
  BY DEF FlushInv
<1>2. /\ job # None /\ BytesRead > 0 /\ length' = length /\ Covered' = Covered
      /\ behind' = behind \ P
      /\ GoesOn(next) => /\ job' \in Jobs /\ job'.start = job.start /\ job'.end = job.end
                         /\ job'.total = next
      /\ ~GoesOn(next) => job' = None
  BY <1>1, BlockCopied DEF Covered, vars
<1>3. /\ job.start \in Nat /\ job.end \in Nat /\ job.total \in Nat /\ length \in Nat
      /\ BytesRead \in Int /\ from \in Nat
  BY <1>1, <1>2, JobNumbers
<1>4. /\ next \in Nat /\ CopiesUpTo(job.start, BlockSize) \in Int
      /\ job.start + next <= job.end /\ job.start + next <= length
      /\ job.start + next <= CopiesUpTo(job.start, BlockSize)
      /\ next >= job.start =>
              \/ job.start + next >= job.end
              \/ job.start + next >= length
              \/ job.start + next >= CopiesUpTo(job.start, BlockSize)
  BY <1>1, BlockReaches
<1>5. job.start + next = from + BytesRead
  BY <1>3
<1>6. DueInHand = {b \in from .. job.end - 1 :
                     b < length /\ b < CopiesUpTo(job.start, BlockSize)}
  BY <1>2 DEF DueInHand, Copying
<1>7. DueInHand' = DueInHand \ P
  <2>1. CASE GoesOn(next)
    <3>1. job' # None
      BY <1>2, <2>1, WriteBackAssumption
    <3>2. DueInHand' = {b \in job.start + next .. job.end - 1 :
                          b < length /\ b < CopiesUpTo(job.start, BlockSize)}
      BY <1>2, <2>1, <3>1 DEF DueInHand, Copying
    <3>3. job.start + next .. job.end - 1 = (from .. job.end - 1) \ P
      BY <1>2, <1>3, <1>4, <1>5
    <3>4. QED
      BY <1>6, <3>2, <3>3
  <2>2. CASE ~GoesOn(next)
    <3>1. DueInHand' = {}
      BY <1>2, <2>2 DEF DueInHand
    <3>2. next >= job.start
      BY <1>3, <1>4, <2>2 DEF GoesOn
    <3>3. ASSUME NEW b \in DueInHand PROVE b \in P
      <4>1. /\ b \in Int /\ from <= b /\ b < job.end /\ b < length
            /\ b < CopiesUpTo(job.start, BlockSize)
        BY <1>3, <1>6
      <4>2. b < from + BytesRead
        BY <1>3, <1>4, <1>5, <3>2, <4>1
      <4>3. QED
        BY <1>3, <4>1, <4>2
    <3>4. QED
      BY <3>1, <3>3
  <2>3. QED
    BY <2>1, <2>2
<1>8. ASSUME NEW b \in P PROVE b \in DueInHand /\ b \notin CopiedBack(Covered, length, BlockSize)
  <2>1. b \in Int /\ from <= b /\ b < from + BytesRead
    BY <1>3
  <2>2. b < job.end /\ b < length /\ b < CopiesUpTo(job.start, BlockSize)
    BY <1>3, <1>4, <1>5, <2>1
  <2>3. b \notin Covered
    BY <1>2, <1>3, <2>1, <2>2 DEF HandInv
  <2>4. QED
    BY <1>3, <1>6, <2>1, <2>2, <2>3 DEF CopiedBack
<1> HIDE DEF P, from, next
<1>9. Due' = Due \ P /\ P \subseteq Due
  BY <1>2, <1>7, <1>8 DEF Due
<1>10. QED
  BY <1>2, <1>9

\* ... and nothing of which is left of an interval when the loop ends at a read of
\* no bytes.
LEMMA EndsAsPromised ==
  ASSUME FlushInv, ReadNothing
  PROVE  Due' = Due /\ behind' = behind
<1>1. /\ FlushTypeOK /\ job # None /\ Request >= 0 /\ BytesRead = 0 /\ job' = None
      /\ UNCHANGED <<list, length, behind>>
  BY DEF FlushInv, ReadNothing, Break, vars
<1>2. ASSUME NEW b \in DueInHand PROVE FALSE
  <2>1. b \in job.start + job.total .. job.end - 1 /\ b < length
    BY <1>1, <1>2 DEF DueInHand, Copying
  <2>2. QED
    BY <1>1, <2>1, JobNumbers
<1>3. DueInHand = {} /\ DueInHand' = {}
  BY <1>1, <1>2 DEF DueInHand
<1>4. QED
  BY <1>1, <1>3 DEF Due, Covered

\* A truncation leaves nothing to copy.
LEMMA TruncatesAsPromised ==
  ASSUME FlushInv, FlushInv', Truncate
  PROVE  Back!Truncate
<1>1. /\ length' = 0 /\ behind' = {} /\ UNCHANGED <<list, pc, new, flushing, job>>
      /\ FlushTypeOK /\ IInv /\ IInv'
  BY DEF Truncate, vars, FlushInv
<1>2. ListedNow' = ListedNow
  BY <1>1 DEF ListedNow, Covered, Pushing
<1>3. DueInHand' = {}
  <2>1. ASSUME NEW b \in DueInHand' PROVE FALSE
    <3>1. job # None /\ b \in job.start + job.total .. job.end - 1 /\ b < 0
      BY <1>1, <2>1 DEF DueInHand, Copying
    <3>2. QED
      BY <1>1, <3>1, JobNumbers
  <2>2. QED
    BY <2>1
<1>4. CopiedBack(Covered, 0, BlockSize) = {}
  <2>1. \A b \in Covered : ~(b < 0)
    BY <1>1, CoveredIsNat
  <2>2. QED
    BY <2>1 DEF CopiedBack
<1>5. DueNow' = {}
  BY <1>1, <1>3, <1>4 DEF DueNow, Due, Covered
<1>6. QED
  BY <1>1, <1>2, <1>5 DEF Back!Truncate, ListedNow, DueNow

\* For files, blocks and lists of any size, and wherever a truncation comes: a flush
\* copies what CopiedBack makes of the list it begins with, no less and nothing else.
THEOREM FlushCopiesAsPromised == FlushSpec => CopiesAsPromised
<1>1. FlushInit => Back!Init
  BY DEF FlushInit, Init, Back!Init, Back!Offsets, Offsets, Covered, Pushing
<1>2. ASSUME FlushInv, FlushInv', HandInv, [FlushNext]_allVars
      PROVE  [Back!Next]_(Back!copyVars)
  <2>1. CASE WriteStep \/ PushStep
    BY <1>2, <2>1, WritesAsPromised
  <2>2. CASE BeginFlush
    BY <1>2, <2>2, BeginsAsPromised DEF Back!Next
  <2>3. CASE PopInterval
    <3>1. flushing /\ UNCHANGED <<flushing, length, behind>>
      BY <2>3 DEF PopInterval
    <3>2. Due' = Due
      BY <1>2, <2>3, PopsAsPromised
    <3>3. QED
      BY <3>1, <3>2 DEF Back!copyVars
  <2>4. CASE CopyBlock
    <3>1. flushing /\ UNCHANGED <<flushing, length>>
      BY <1>2, <2>4 DEF CopyBlock, FlushInv, FlushTypeOK
    <3>2. Due' \subseteq Due /\ behind' = behind \ (Due \ Due')
      BY <1>2, <2>4, TurnsAsPromised
    <3>3. Back!Copy
      BY <3>1, <3>2 DEF Back!Copy
    <3>4. QED
      BY <3>3 DEF Back!Next
  <2>5. CASE ReadNothing
    <3>1. flushing /\ UNCHANGED <<flushing, length>>
      BY <1>2, <2>5 DEF ReadNothing, FlushInv, FlushTypeOK
    <3>2. Due' = Due /\ behind' = behind
      BY <1>2, <2>5, EndsAsPromised
    <3>3. QED
      BY <3>1, <3>2 DEF Back!copyVars
  <2>6. CASE EndFlush
    <3>1. /\ flushing /\ flushing' = FALSE /\ job = None /\ list = <<>> /\ list' = <<>>
          /\ pc' = "idle" /\ UNCHANGED <<length, behind>>
      BY <2>6 DEF EndFlush, PopNone
    <3>2. Covered = {} /\ Covered' = {} /\ Pushing' = {}
      BY <3>1 DEF Covered, Pushing
    <3>3. Due = {}
      BY <3>1, <3>2 DEF Due, DueInHand, CopiedBack
    <3>4. Back!End
      BY <3>1, <3>2, <3>3 DEF Back!End
    <3>5. QED
      BY <3>4 DEF Back!Next
  <2>7. CASE Truncate
    BY <1>2, <2>7, TruncatesAsPromised DEF Back!Next
  <2>8. CASE ReadRefused \/ CopyFails \/ Exited \/ UNCHANGED allVars
    <3>1. UNCHANGED <<list, pc, new, length, behind, flushing, job>>
      BY <2>8 DEF ReadRefused, CopyFails, Exit, Exited, allVars, flushVars, vars
    <3>2. UNCHANGED <<Covered, Pushing, Due>>
      BY <3>1 DEF Covered, Pushing, Due, DueInHand, Copying
    <3>3. QED
      BY <3>1, <3>2 DEF Back!copyVars
  <2>9. QED
    BY <1>2, <2>1, <2>2, <2>3, <2>4, <2>5, <2>6, <2>7, <2>8 DEF FlushNext, CopyStep
<1>3. QED
  BY <1>1, <1>2, FlushInvariant, HandInvariant, PTL DEF FlushSpec, CopiesAsPromised, Back!Spec
-----------------------------------------------------------------------------
(* Blocks and bytes.                                                       *)

\* How far an interval is copied that begins and ends with a block.
LEMMA WholeBlocksUpTo ==
  ASSUME NEW lower \in Nat, NEW size \in Nat, size > 0
  PROVE  CopiesUpTo(lower * size, size) =
           IF lower = 0 THEN size ELSE 2 * lower * size
<1>1. CASE lower \in {0, 1}
  BY <1>1 DEF CopiesUpTo
<1>2. CASE lower \notin {0, 1}
  <2>1. lower * size \in Nat /\ lower * size > size
    <3>1. (lower - 1) * size > 0 /\ lower * size \in Nat
      BY <1>2
    <3>2. (lower - 1) * size = lower * size - size
      OBVIOUS
    <3>3. QED
      BY <3>1, <3>2
  <2>2. (lower * size + size - 1) \div size = lower
    <3> DEFINE q == (lower * size + size - 1) \div size
    <3>1. /\ q \in Int /\ q * size <= lower * size + size - 1
          /\ lower * size + size - 1 < q * size + size
      BY <2>1
    <3> HIDE DEF q
    <3>2. ASSUME q > lower PROVE FALSE
      <4>1. (q - lower - 1) * size >= 0
        BY <3>1, <3>2
      <4>2. (q - lower - 1) * size = q * size - lower * size - size
        BY <3>1
      <4>3. q * size \in Int
        BY <3>1
      <4>4. QED
        BY <2>1, <3>1, <4>1, <4>2, <4>3
    <3>3. ASSUME q < lower PROVE FALSE
      <4>1. (lower - q - 1) * size >= 0
        BY <3>1, <3>3
      <4>2. (lower - q - 1) * size = lower * size - q * size - size
        BY <3>1
      <4>3. q * size \in Int
        BY <3>1
      <4>4. QED
        BY <2>1, <3>1, <4>1, <4>2, <4>3
    <3>4. QED
      BY <3>1, <3>2, <3>3 DEF q
  <2>3. CopiesUpTo(lower * size, size) = lower * size + size * lower
    BY <2>1, <2>2 DEF CopiesUpTo
  <2>4. QED
    BY <1>2, <2>3
<1>3. QED
  BY <1>1, <1>2

\* What Acl says of a file in blocks is what WriteBack and Layer say of its bytes:
\* the bytes of the blocks CopiedByInterval names are copied, and no others of the interval.
THEOREM BlocksStandForBytes ==
  ASSUME NEW lower \in Nat, NEW upper \in Nat, NEW b \in lower .. upper - 1,
         NEW size \in Nat, size > 0
  PROVE  /\ b \in CopiedByInterval(lower .. upper - 1) =>
              (b + 1) * size <= CopiesUpTo(lower * size, size)
         /\ b \notin CopiedByInterval(lower .. upper - 1) =>
              b * size >= CopiesUpTo(lower * size, size)
<1>1. b \in Nat /\ lower <= b /\ b < upper
  OBVIOUS
<1>2. First(lower .. upper - 1) = lower
  <2>1. lower \in lower .. upper - 1 /\ \A c \in lower .. upper - 1 : lower <= c
    BY <1>1
  <2>2. \A m \in lower .. upper - 1 : (\A c \in lower .. upper - 1 : m <= c) => m = lower
    BY <2>1
  <2>3. QED
    BY <2>1, <2>2 DEF First
<1>3. b \in CopiedByInterval(lower .. upper - 1) <=> b = lower \/ b < 2 * lower
  BY <1>2 DEF CopiedByInterval
<1> DEFINE c == CopiesUpTo(lower * size, size)
           e == (b + 1) * size
           z == b * size
           w == 2 * lower * size
<1>4. e \in Int /\ z \in Int /\ w \in Int /\ c = IF lower = 0 THEN size ELSE w
  <2>1. c = IF lower = 0 THEN size ELSE w
    BY WholeBlocksUpTo
  <2>2. e \in Int /\ z \in Int /\ w \in Int
    BY <1>1
  <2>3. QED
    BY <2>1, <2>2
<1>5. (b = lower \/ b < 2 * lower) => e <= c
  <2>1. lower = 0 /\ b = 0 => e = size
    OBVIOUS
  <2>2. ASSUME lower # 0, b = lower \/ b < 2 * lower PROVE e <= w
    <3>1. (2 * lower - (b + 1)) * size >= 0
      BY <1>1, <2>2
    <3>2. (2 * lower - (b + 1)) * size = w - e
      BY <1>1
    <3> HIDE DEF e, w
    <3>3. QED
      BY <1>4, <3>1, <3>2
  <2> HIDE DEF c, e, w
  <2>3. QED
    BY <1>1, <1>4, <2>1, <2>2
<1>6. ~(b = lower \/ b < 2 * lower) => z >= c
  <2>1. ASSUME lower = 0, b # 0 PROVE z >= size
    <3>1. (b - 1) * size >= 0
      BY <1>1, <2>1
    <3>2. (b - 1) * size = z - size
      BY <1>1
    <3> HIDE DEF z
    <3>3. QED
      BY <1>4, <3>1, <3>2
  <2>2. ASSUME b >= 2 * lower PROVE z >= w
    <3>1. (b - 2 * lower) * size >= 0
      BY <1>1, <2>2
    <3>2. (b - 2 * lower) * size = z - w
      BY <1>1
    <3> HIDE DEF z, w
    <3>3. QED
      BY <1>4, <3>1, <3>2
  <2> HIDE DEF c, z, w
  <2>3. QED
    BY <1>1, <1>4, <2>1, <2>2
<1>7. (b \in CopiedByInterval(lower .. upper - 1) => e <= c)
      /\ (b \notin CopiedByInterval(lower .. upper - 1) => z >= c)
  <2> HIDE DEF c, e, z
  <2>1. QED
    BY <1>3, <1>5, <1>6
<1>8. QED
  BY ONLY <1>7
=============================================================================
