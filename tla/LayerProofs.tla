---------------------------- MODULE LayerProofs -----------------------------
(***************************************************************************)
(* Proofs about Layer, for any number of files and descriptors, and files  *)
(* and blocks of any size: a program cannot tell the layer from the        *)
(* kernel, and the extent list knows all that the source lacks, with the   *)
(* exceptions that Transparent and ListStaysComplete name.                 *)
(***************************************************************************)
EXTENDS Layer, SequenceTheorems, WellFoundedInduction, TLAPS

\* A copy, and an open descriptor, is of a file that exists; a slot has an entry
\* exactly as long as its file has a copy that is attached, and a descriptor only
\* with the entry.
SlotInv ==
  /\ \A f \in Files : Copied(f) => src[f] # None
  /\ \A fd \in Fds : opened[fd] # None => src[opened[fd].file] # None
  /\ attaching # None => Copied(attaching)
  /\ \A fd \in Fds : slot[fd] # None =>
       /\ slot[fd].desc => slot[fd].entry
       /\ slot[fd].entry => Copied(slot[fd].path)
       /\ Copied(slot[fd].path) /\ attaching # slot[fd].path => slot[fd].entry

LayerInv == TypeOK /\ SlotInv

-----------------------------------------------------------------------------
(* Contents of files.                                                      *)

LEMMA ContentsAre ==
  ASSUME NEW n \in 0 .. MaxLen, NEW c \in [1 .. n -> Kernel!Bytes]
  PROVE  c \in Contents /\ Len(c) = n /\ c # None
<1>1. MaxLen \in Nat /\ n \in Nat
  BY LayerAssumption
<1>2. c \in Contents
  BY DEF Contents
<1>3. c \in Seq(Kernel!Bytes)
  BY <1>1, SeqDef
<1>4. Len(c) = n
  BY <1>1, <1>3, LenProperties
<1>5. QED
  BY <1>2, <1>4, NoneAssumption

LEMMA ContentsHave ==
  ASSUME NEW c \in Contents
  PROVE  /\ Len(c) \in 0 .. MaxLen /\ Len(c) \in Nat
         /\ c \in [1 .. Len(c) -> Kernel!Bytes]
<1>1. PICK n \in 0 .. MaxLen : c \in [1 .. n -> Kernel!Bytes]
  BY DEF Contents
<1>2. Len(c) = n
  BY <1>1, ContentsAre
<1>3. QED
  BY <1>1, <1>2, LayerAssumption

LEMMA SameContents ==
  ASSUME NEW c \in Contents, NEW d \in Contents, Len(c) = Len(d),
         \A i \in 1 .. Len(c) : c[i] = d[i]
  PROVE  c = d
<1>1. c \in [1 .. Len(c) -> Kernel!Bytes] /\ d \in [1 .. Len(c) -> Kernel!Bytes]
  BY ContentsHave
<1>2. QED
  BY <1>1

LEMMA Empty == <<>> \in Contents /\ Len(<<>>) = 0 /\ <<>> # None
<1>1. <<>> \in [1 .. 0 -> Kernel!Bytes]
  OBVIOUS
<1>2. 0 \in 0 .. MaxLen
  BY LayerAssumption
<1>3. QED
  BY <1>1, <1>2, ContentsAre

\* One byte written.
LEMMA PutIs ==
  ASSUME NEW c \in Contents, NEW at \in 0 .. MaxLen, at < MaxLen, NEW v \in Values
  PROVE  /\ Kernel!Put(c, at, v) \in Contents
         /\ Kernel!Put(c, at, v) # None
         /\ Len(Kernel!Put(c, at, v)) = IF Len(c) <= at THEN at + 1 ELSE Len(c)
         /\ \A i \in 1 .. Len(Kernel!Put(c, at, v)) :
              Kernel!Put(c, at, v)[i] =
                IF i = at + 1 THEN v ELSE IF i <= Len(c) THEN c[i] ELSE Kernel!Zero
<1> DEFINE n == IF Len(c) <= at THEN at + 1 ELSE Len(c)
           p == [i \in 1 .. n |-> IF i = at + 1 THEN v
                                  ELSE IF i <= Len(c) THEN c[i] ELSE Kernel!Zero]
<1>1. /\ MaxLen \in Nat /\ Len(c) \in 0 .. MaxLen
      /\ c \in [1 .. Len(c) -> Kernel!Bytes] /\ v \in Kernel!Bytes /\ Kernel!Zero \in Kernel!Bytes
  BY LayerAssumption, ContentsHave DEF Kernel!Bytes
<1>2. n \in 0 .. MaxLen
  BY <1>1
<1>3. \A i \in 1 .. n : i <= Len(c) => i \in 1 .. Len(c)
  BY <1>1
<1>4. p \in [1 .. n -> Kernel!Bytes]
  BY <1>1, <1>3
<1>5. Kernel!Put(c, at, v) = p
  BY DEF Kernel!Put
<1>6. p \in Contents /\ Len(p) = n /\ p # None
  BY <1>2, <1>4, ContentsAre
<1>7. QED
  BY <1>5, <1>6

\* A set of positions has a greatest one.
LEMMA Greatest ==
  ASSUME NEW P \in SUBSET (0 .. MaxLen), P # {}
  PROVE  \E b \in P : \A a \in P : a <= b
<1> DEFINE D == {d \in 0 .. MaxLen : MaxLen - d \in P}
<1>1. MaxLen \in Nat
  BY LayerAssumption
<1>2. \A b \in P : MaxLen - b \in D
  BY <1>1
<1>3. D \subseteq Nat /\ \A d \in D : MaxLen - d \in P
  BY <1>1
<1> HIDE DEF D
<1>4. D # {}
  BY <1>2
<1>5. PICK d \in D : \A e \in D : ~(<<e, d>> \in OpToRel(<, Nat))
  BY <1>3, <1>4, NatLessThanWellFounded, WFMin, Zenon
<1>6. \A e \in D : ~(e < d)
  BY <1>3, <1>5, Zenon DEF OpToRel
<1>7. ASSUME NEW a \in P PROVE a <= MaxLen - d
  <2>1. ~(MaxLen - a < d) /\ d \in Nat /\ a \in Nat
    BY <1>1, <1>2, <1>3, <1>6
  <2> QED
    BY <1>1, <2>1
<1>8. QED
  BY <1>3, <1>7

\* When `c` is equal to `d` once the bytes at the positions in P are written over.
Covers(c, d, P) ==
  /\ Len(c) <= Len(d)
  /\ Len(c) = Len(d) \/ Len(d) - 1 \in P
  /\ \A i \in 1 .. Len(d) :
       i - 1 \in P \/ d[i] = IF i <= Len(c) THEN c[i] ELSE Kernel!Zero

LEMMA OverlaidIs ==
  ASSUME NEW c \in Contents, NEW d \in Contents,
         NEW P \in SUBSET (0 .. Len(d) - 1)
  PROVE  /\ Overlaid(c, d, P) \in Contents
         /\ Overlaid(c, d, P) # None
         /\ Overlaid(c, d, P) = d <=> Covers(c, d, P)
<1> DEFINE end == IF P = {} THEN 0 ELSE 1 + CHOOSE b \in P : \A a \in P : a <= b
           n == IF Len(c) < end THEN end ELSE Len(c)
           o == [i \in 1 .. n |-> IF i - 1 \in P THEN d[i]
                                  ELSE IF i <= Len(c) THEN c[i] ELSE Kernel!Zero]
<1>0. /\ c \in [1 .. Len(c) -> Kernel!Bytes] /\ d \in [1 .. Len(d) -> Kernel!Bytes]
      /\ Kernel!Zero \in Kernel!Bytes
  BY ContentsHave DEF Kernel!Bytes
<1>1. /\ MaxLen \in Nat /\ Len(c) \in Nat /\ Len(d) \in Nat
      /\ Len(c) <= MaxLen /\ Len(d) <= MaxLen
  BY LayerAssumption, ContentsHave
<1>2. /\ end \in Nat
      /\ P = {} => end = 0
      /\ P # {} => end - 1 \in P
      /\ \A a \in P : a < end /\ a \in Nat /\ a < Len(d)
      /\ end <= Len(d)
  <2>1. CASE P = {}
    BY <1>1, <2>1
  <2>2. CASE P # {}
    <3>1. P \in SUBSET (0 .. MaxLen)
      BY <1>1
    <3>2. \E b \in P : \A a \in P : a <= b
      BY <2>2, <3>1, Greatest
    <3> DEFINE top == CHOOSE b \in P : \A a \in P : a <= b
    <3>3. top \in P /\ \A a \in P : a <= top
      BY <3>2
    <3>4. end = 1 + top
      BY <2>2
    <3> HIDE DEF top
    <3>5. \A a \in P : a \in Nat /\ a < Len(d)
      BY <1>1
    <3>6. top \in Nat /\ end \in Nat /\ end - 1 = top
      BY <3>3, <3>4, <3>5
    <3>7. \A a \in P : a < end
      BY <3>3, <3>4, <3>5, <3>6
    <3>8. end <= Len(d)
      BY <1>1, <3>3, <3>4, <3>5, <3>6
    <3> QED
      BY <2>2, <3>3, <3>5, <3>6, <3>7, <3>8
  <2> QED
    BY <2>1, <2>2
<1>3. Overlaid(c, d, P) = o
  BY DEF Overlaid
<1> HIDE DEF end
<1>4. /\ n \in 0 .. MaxLen /\ n \in Nat /\ Len(c) \in Nat /\ Len(d) \in Nat
      /\ Len(c) < end => n = end
      /\ ~(Len(c) < end) => n = Len(c)
  BY <1>1, <1>2
<1> HIDE DEF n
<1>10. Len(d) \notin P /\ (end = 0 \/ end - 1 \in P)
  BY <1>1, <1>2
<1>5. o \in [1 .. n -> Kernel!Bytes]
  <2>1. ASSUME NEW i \in 1 .. n
        PROVE  /\ i - 1 \in P => i \in 1 .. Len(d)
               /\ i <= Len(c) => i \in 1 .. Len(c)
    BY <1>1, <1>2, <1>4
  <2> QED
    BY <1>0, <2>1
<1>6. o \in Contents /\ Len(o) = n /\ o # None
  BY <1>4, <1>5, ContentsAre
<1>7. ASSUME o = d PROVE Covers(c, d, P)
  <2>1. n = Len(d)
    BY <1>6, <1>7
  <2>2. Len(c) <= Len(d) /\ (Len(c) = Len(d) \/ Len(d) - 1 \in P)
    <3>1. CASE Len(c) < end
      <4>1. end = Len(d) /\ P # {}
        BY <1>1, <1>2, <1>4, <2>1, <3>1
      <4> QED
        BY <1>1, <1>2, <3>1, <4>1
    <3>2. CASE ~(Len(c) < end)
      BY <1>1, <1>4, <2>1, <3>2
    <3> QED
      BY <3>1, <3>2
  <2>3. ASSUME NEW i \in 1 .. Len(d), i - 1 \notin P
        PROVE  d[i] = IF i <= Len(c) THEN c[i] ELSE Kernel!Zero
    <3>1. o[i] = IF i <= Len(c) THEN c[i] ELSE Kernel!Zero
      BY <2>1, <2>3
    <3> QED
      BY <1>7, <3>1
  <2> QED
    BY <2>2, <2>3 DEF Covers
<1>8. ASSUME Covers(c, d, P) PROVE o = d
  <2>1. n = Len(d)
    <3>1. CASE Len(c) < end
      <4>1. Len(c) < Len(d)
        BY <1>1, <1>2, <1>4, <3>1
      <4>2. Len(d) - 1 < end
        BY <1>1, <1>2, <1>8, <4>1 DEF Covers
      <4> QED
        BY <1>1, <1>2, <1>4, <3>1, <4>2
    <3>2. CASE ~(Len(c) < end)
      <4>1. Len(c) = Len(d)
        BY <1>1, <1>2, <1>8, <3>2 DEF Covers
      <4> QED
        BY <1>4, <3>2, <4>1
    <3> QED
      BY <3>1, <3>2
  <2>2. \A i \in 1 .. n : o[i] = d[i]
    BY <1>8, <2>1 DEF Covers
  <2> QED
    BY <1>6, <2>1, <2>2, SameContents
<1>9. QED
  BY <1>3, <1>6, <1>7, <1>8
-----------------------------------------------------------------------------
(* Types, and which slots have an entry.                                   *)

Results == Kernel!Bytes \cup {"eof", "ok", "failed"}

LEMMA LayerInit == Init => LayerInv
<1> SUFFICES ASSUME Init PROVE LayerInv
  OBVIOUS
<1>1. /\ src \in [Files -> {None, <<Kernel!Zero>>}]
      /\ opened = [fd \in Fds |-> None] /\ result = "ok"
      /\ slot = [fd \in Fds |-> None] /\ copy = [f \in Files |-> None]
      /\ dirty = [f \in Files |-> {}] /\ attaching = None /\ status = "running"
  BY DEF Init, Kernel!Init
<1>2. <<Kernel!Zero>> \in Contents
  <2>1. 1 \in 0 .. MaxLen
    BY LayerAssumption
  <2>2. <<Kernel!Zero>> \in [1 .. 1 -> Kernel!Bytes]
    BY DEF Kernel!Bytes
  <2> QED
    BY <2>1, <2>2 DEF Contents
<1>3. TypeOK
  BY <1>1, <1>2 DEF TypeOK
<1>4. SlotInv
  BY <1>1 DEF SlotInv, Copied
<1>5. QED
  BY <1>3, <1>4 DEF LayerInv

\* What the types say of one file and one descriptor.
LEMMA TypesOf ==
  ASSUME LayerInv
  PROVE  /\ \A f \in Files : src[f] # None => src[f] \in Contents
         /\ \A f \in Files : Copied(f) =>
              copy[f] \in Contents /\ src[f] # None /\ src[f] \in Contents
         /\ \A fd \in Fds : opened[fd] # None =>
              /\ opened[fd] \in Kernel!Descriptors
              /\ opened[fd].file \in Files /\ opened[fd].offset \in 0 .. MaxLen
              /\ src[opened[fd].file] # None /\ src[opened[fd].file] \in Contents
         /\ \A fd \in Fds : slot[fd] # None => slot[fd] \in Slots /\ slot[fd].path \in Files
         /\ \A fd \in Fds : Cached(fd) =>
              /\ slot[fd] # None /\ slot[fd] \in Slots
              /\ Path(fd) \in Files /\ Copied(Path(fd))
         /\ Kernel!Offsets = 0 .. MaxLen /\ MaxLen \in Nat
BY LayerAssumption
   DEF LayerInv, TypeOK, SlotInv, Copied, Cached, Path, Slots, Kernel!Descriptors, Kernel!Offsets

\* Steps that change nothing but offsets, open descriptors and the result.
LEMMA DescriptorStep ==
  ASSUME LayerInv, UNCHANGED <<src, slot, copies, attaching, status>>,
         opened' \in [Fds -> Kernel!Descriptors \cup {None}],
         result' \in Results,
         \A fd \in Fds : opened'[fd] # None =>
           opened[fd] # None /\ opened'[fd].file = opened[fd].file
  PROVE  LayerInv'
<1>1. TypeOK'
  BY DEF LayerInv, TypeOK, copies, Results
<1>2. SlotInv'
  BY DEF LayerInv, SlotInv, copies, Copied
<1>3. QED
  BY <1>1, <1>2 DEF LayerInv

LEMMA MoveIs ==
  ASSUME LayerInv, NEW d \in Fds, opened[d] # None, NEW n \in 0 .. MaxLen, Kernel!MoveTo(d, n)
  PROVE  /\ opened' \in [Fds -> Kernel!Descriptors \cup {None}]
         /\ \A fd \in Fds : opened'[fd] # None =>
              opened[fd] # None /\ opened'[fd].file = opened[fd].file
<1>1. /\ opened \in [Fds -> Kernel!Descriptors \cup {None}]
      /\ opened[d] \in [file : Files, offset : 0 .. MaxLen, appends : BOOLEAN]
      /\ Kernel!Descriptors = [file : Files, offset : 0 .. MaxLen, appends : BOOLEAN]
      /\ opened' = [opened EXCEPT ![d] = [opened[d] EXCEPT !.offset = n]]
  BY TypesOf DEF Kernel!MoveTo, LayerInv, TypeOK, Kernel!Descriptors, Kernel!Offsets
<1>2. /\ [opened[d] EXCEPT !.offset = n] \in Kernel!Descriptors
      /\ [opened[d] EXCEPT !.offset = n].file = opened[d].file
  BY <1>1
<1>3. QED
  BY <1>1, <1>2

LEMMA ByteIs ==
  ASSUME NEW c \in Contents, NEW at \in 0 .. MaxLen
  PROVE  /\ Kernel!ByteAt(c, at) \in Results
         /\ Kernel!ByteAt(c, at) # "eof" => at + 1 \in 0 .. MaxLen
<1>1. /\ MaxLen \in Nat /\ Len(c) \in Nat /\ Len(c) <= MaxLen
      /\ c \in [1 .. Len(c) -> Kernel!Bytes]
  BY LayerAssumption, ContentsHave
<1>2. CASE at < Len(c)
  <2>1. at + 1 \in 1 .. Len(c) /\ at + 1 \in 0 .. MaxLen
    BY <1>1, <1>2
  <2> QED
    BY <1>1, <1>2, <2>1 DEF Kernel!ByteAt, Results
<1>3. CASE ~(at < Len(c))
  BY <1>3 DEF Kernel!ByteAt, Results
<1>4. QED
  BY <1>2, <1>3

LEMMA ExitKeeps ==
  ASSUME LayerInv, Exit \/ UNCHANGED vars
  PROVE  LayerInv'
BY DEF Exit, vars, kernel, copies, LayerInv, TypeOK, SlotInv, Copied

\* The calls that leave the files alone.
LEMMA AccessKeeps ==
  ASSUME LayerInv, NEW fd \in Fds,
         \/ ReadDirect(fd) \/ FailDirect(fd) \/ ReadCopy(fd) \/ AccessFails(fd)
         \/ SyncDirect(fd) \/ CloseDirect(fd) \/ OpenFails
         \/ SeekEnd(fd) \/ \E offset \in Kernel!Offsets : Seek(fd, offset)
  PROVE  LayerInv'
<1>1. opened \in [Fds -> Kernel!Descriptors \cup {None}]
  BY DEF LayerInv, TypeOK
<1>2. "ok" \in Results /\ "failed" \in Results
  BY DEF Results
<1>3. ASSUME UNCHANGED <<src, slot, copies, attaching, status>>, opened[fd] # None,
             NEW n \in 0 .. MaxLen, Kernel!MoveTo(fd, n), result' \in Results
      PROVE  LayerInv'
  BY <1>3, MoveIs, DescriptorStep
<1>4. ASSUME UNCHANGED <<src, slot, copies, attaching, status>>,
             UNCHANGED opened, result' \in Results
      PROVE  LayerInv'
  BY <1>1, <1>4, DescriptorStep
<1>5. CASE ReadDirect(fd)
  <2> DEFINE at == opened[fd].offset
             byte == Kernel!ByteAt(src[opened[fd].file], at)
  <2>1. /\ opened[fd] # None /\ result' = byte
        /\ Kernel!MoveTo(fd, IF byte = "eof" THEN at ELSE at + 1)
        /\ UNCHANGED <<src, slot, copies, attaching, status>>
    BY <1>5 DEF ReadDirect, Kernel!Read
  <2>2. src[opened[fd].file] \in Contents /\ at \in 0 .. MaxLen
    BY <2>1, TypesOf
  <2>3. byte \in Results /\ (byte # "eof" => at + 1 \in 0 .. MaxLen)
    BY <2>2, ByteIs
  <2>4. (IF byte = "eof" THEN at ELSE at + 1) \in 0 .. MaxLen
    BY <2>2, <2>3
  <2> QED
    BY <1>3, <2>1, <2>3, <2>4
<1>6. CASE FailDirect(fd) \/ OpenFails
  BY <1>2, <1>4, <1>6 DEF FailDirect, OpenFails, Kernel!Fail
<1>7. CASE ReadCopy(fd)
  <2> DEFINE at == Offset(fd)
             byte == Kernel!ByteAt(copy[Path(fd)], at)
  <2>1. /\ opened[fd] # None /\ Cached(fd) /\ result' = byte
        /\ Kernel!MoveTo(fd, at + (IF byte = "eof" THEN 0 ELSE 1))
        /\ UNCHANGED <<src, slot, copies, attaching, status>>
    BY <1>7 DEF ReadCopy, UsesCopy, Advance
  <2>2. copy[Path(fd)] \in Contents /\ at \in 0 .. MaxLen
    BY <2>1, TypesOf DEF Offset
  <2>3. byte \in Results /\ (byte # "eof" => at + 1 \in 0 .. MaxLen)
    BY <2>2, ByteIs
  <2>4. at + (IF byte = "eof" THEN 0 ELSE 1) \in 0 .. MaxLen
    BY <2>2, <2>3
  <2> QED
    BY <1>3, <2>1, <2>3, <2>4
<1>8. CASE AccessFails(fd)
  <2>1. /\ opened[fd] # None /\ Offset(fd) > 0 /\ result' = "failed"
        /\ Kernel!MoveTo(fd, Offset(fd) + -1)
        /\ UNCHANGED <<src, slot, copies, attaching, status>>
    BY <1>8 DEF AccessFails, UsesCopy, CanRecede, Advance
  <2>2. Offset(fd) \in 0 .. MaxLen /\ MaxLen \in Nat
    BY <2>1, TypesOf DEF Offset
  <2>3. Offset(fd) + -1 \in 0 .. MaxLen
    BY <2>1, <2>2
  <2> QED
    BY <1>2, <1>3, <2>1, <2>3
<1>9. CASE SyncDirect(fd)
  BY <1>2, <1>4, <1>9 DEF SyncDirect, Kernel!Sync
<1>10. CASE CloseDirect(fd)
  <2>1. /\ opened' = [opened EXCEPT ![fd] = None] /\ result' = "ok"
        /\ UNCHANGED <<src, slot, copies, attaching, status>>
    BY <1>10 DEF CloseDirect, Kernel!Close
  <2>2. opened' \in [Fds -> Kernel!Descriptors \cup {None}]
    BY <1>1, <2>1
  <2>3. \A e \in Fds : opened'[e] # None => opened[e] # None /\ opened'[e] = opened[e]
    BY <1>1, <2>1
  <2> QED
    BY <1>2, <2>1, <2>2, <2>3, DescriptorStep
<1>11. ASSUME NEW n \in 0 .. MaxLen, Kernel!Seek(fd, n),
              UNCHANGED <<slot, copies, attaching, status>>
       PROVE  LayerInv'
  BY <1>2, <1>3, <1>11 DEF Kernel!Seek
<1>12. CASE SeekEnd(fd)
  <2>1. src[opened[fd].file] \in Contents
    BY <1>12, TypesOf DEF SeekEnd, Kernel!SeekEnd
  <2>2. Len(src[opened[fd].file]) \in 0 .. MaxLen
    BY <2>1, ContentsHave
  <2> QED
    BY <1>11, <1>12, <2>2 DEF SeekEnd, Kernel!SeekEnd
<1>13. ASSUME NEW offset \in Kernel!Offsets, Seek(fd, offset) PROVE LayerInv'
  BY <1>11, <1>13, TypesOf DEF Seek
<1>14. QED
  BY <1>5, <1>6, <1>7, <1>8, <1>9, <1>10, <1>12, <1>13

\* What the steps that change files do to them.
LEMMA OpenIs ==
  ASSUME LayerInv, NEW fd \in Fds, NEW f \in Files, NEW mode \in Kernel!Modes,
         Kernel!Open(fd, f, mode)
  PROVE  /\ src' \in [Files -> Contents \cup {None}]
         /\ opened' \in [Fds -> Kernel!Descriptors \cup {None}]
         /\ result' = "ok" /\ opened[fd] = None
         /\ opened' = [opened EXCEPT ![fd] = [file |-> f, offset |-> 0,
                                              appends |-> mode = "append"]]
         /\ src'[f] = IF mode \in {"create", "truncate"} THEN <<>> ELSE src[f]
         /\ src'[f] # None
         /\ \A g \in Files : g # f => src'[g] = src[g]
         /\ mode = "create" <=> src[f] = None
         /\ \A e \in Fds : opened'[e] # None => src'[opened'[e].file] # None
<1>1. /\ src \in [Files -> Contents \cup {None}]
      /\ opened \in [Fds -> Kernel!Descriptors \cup {None}]
      /\ result' = "ok" /\ opened[fd] = None
      /\ mode = "create" <=> src[f] = None
      /\ opened' = [opened EXCEPT ![fd] = [file |-> f, offset |-> 0,
                                           appends |-> mode = "append"]]
      /\ src' = [src EXCEPT ![f] = IF mode \in {"create", "truncate"} THEN <<>> ELSE src[f]]
  BY DEF Kernel!Open, LayerInv, TypeOK
<1>2. [file |-> f, offset |-> 0, appends |-> mode = "append"] \in Kernel!Descriptors
  BY LayerAssumption DEF Kernel!Descriptors, Kernel!Offsets
<1>3. opened' \in [Fds -> Kernel!Descriptors \cup {None}]
  BY <1>1, <1>2
<1>4. /\ src' \in [Files -> Contents \cup {None}]
      /\ src'[f] = IF mode \in {"create", "truncate"} THEN <<>> ELSE src[f]
      /\ src'[f] # None
      /\ \A g \in Files : g # f => src'[g] = src[g]
  BY <1>1, Empty
<1>5. ASSUME NEW e \in Fds, opened'[e] # None PROVE src'[opened'[e].file] # None
  <2>1. CASE e = fd
    BY <1>1, <1>4, <2>1
  <2>2. CASE e # fd
    <3>1. opened'[e] = opened[e] /\ opened[e] # None
      BY <1>1, <1>5, <2>2
    <3>2. opened[e].file \in Files /\ src[opened[e].file] # None
      BY <3>1, TypesOf
    <3> QED
      BY <1>4, <3>1, <3>2
  <2> QED
    BY <2>1, <2>2
<1>6. QED
  BY <1>1, <1>3, <1>4, <1>5

LEMMA WriteIs ==
  ASSUME LayerInv, NEW fd \in Fds, NEW v \in Values, Kernel!Write(fd, v)
  PROVE  LET f  == opened[fd].file
             at == Kernel!WriteOffset(src[f], opened[fd].appends, opened[fd].offset)
         IN  /\ opened[fd] # None /\ f \in Files /\ at \in 0 .. MaxLen /\ at < MaxLen
             /\ src' \in [Files -> Contents \cup {None}]
             /\ src' = [src EXCEPT ![f] = Kernel!Put(src[f], at, v)]
             /\ src'[f] # None
             /\ \A g \in Files : g # f => src'[g] = src[g]
             /\ Kernel!MoveTo(fd, at + 1) /\ at + 1 \in 0 .. MaxLen /\ result' = "ok"
<1> DEFINE f  == opened[fd].file
           at == Kernel!WriteOffset(src[f], opened[fd].appends, opened[fd].offset)
<1>1. /\ opened[fd] # None /\ at < MaxLen /\ Kernel!MoveTo(fd, at + 1) /\ result' = "ok"
      /\ src' = [src EXCEPT ![f] = Kernel!Put(src[f], at, v)]
      /\ src \in [Files -> Contents \cup {None}]
  BY DEF Kernel!Write, LayerInv, TypeOK
<1>2. /\ f \in Files /\ opened[fd].offset \in 0 .. MaxLen /\ src[f] \in Contents
      /\ MaxLen \in Nat
  BY <1>1, TypesOf
<1>3. at \in 0 .. MaxLen
  BY <1>2, ContentsHave DEF Kernel!WriteOffset
<1> HIDE DEF f, at
<1>4. Kernel!Put(src[f], at, v) \in Contents /\ Kernel!Put(src[f], at, v) # None
  BY <1>1, <1>2, <1>3, PutIs
<1>5. /\ src' \in [Files -> Contents \cup {None}]
      /\ src'[f] # None
      /\ \A g \in Files : g # f => src'[g] = src[g]
  BY <1>1, <1>2, <1>4
<1>6. at + 1 \in 0 .. MaxLen
  BY <1>1, <1>2, <1>3
<1>7. QED
  BY <1>1, <1>2, <1>3, <1>5, <1>6 DEF f, at

LEMMA WriteCopyIs ==
  ASSUME LayerInv, NEW fd \in Fds, NEW v \in Values, WriteCopy(fd, v)
  PROVE  LET f  == Path(fd)
             at == Kernel!WriteOffset(copy[f], slot[fd].flags = "append", Offset(fd))
         IN  /\ opened[fd] # None /\ f \in Files /\ Copied(f)
             /\ at \in 0 .. MaxLen /\ at < MaxLen
             /\ Offset(fd) \in 0 .. MaxLen /\ Offset(fd) + 1 \in 0 .. MaxLen
             /\ copy' \in [Files -> Contents \cup {None}]
             /\ copy'[f] = Kernel!Put(copy[f], at, v) /\ copy'[f] # None
             /\ \A g \in Files : g # f => copy'[g] = copy[g] /\ dirty'[g] = dirty[g]
             /\ dirty' \in [Files -> SUBSET Kernel!Offsets]
             /\ dirty'[f] = dirty[f] \cup {Offset(fd)}
             /\ Kernel!MoveTo(fd, Offset(fd) + 1) /\ result' = "ok"
             /\ UNCHANGED <<src, slot, attaching, status>>
<1> DEFINE f  == Path(fd)
           at == Kernel!WriteOffset(copy[f], slot[fd].flags = "append", Offset(fd))
<1>1. /\ opened[fd] # None /\ Cached(fd) /\ at < MaxLen /\ Offset(fd) < MaxLen
      /\ copy' = [copy EXCEPT ![f] = Kernel!Put(copy[f], at, v)]
      /\ dirty' = [dirty EXCEPT ![f] = dirty[f] \cup {Offset(fd)}]
      /\ Kernel!MoveTo(fd, Offset(fd) + 1) /\ result' = "ok"
      /\ UNCHANGED <<src, slot, attaching, status>>
      /\ copy \in [Files -> Contents \cup {None}]
      /\ dirty \in [Files -> SUBSET Kernel!Offsets]
  BY DEF WriteCopy, UsesCopy, Record, Advance, LayerInv, TypeOK
<1>2. /\ f \in Files /\ Copied(f) /\ copy[f] \in Contents /\ MaxLen \in Nat
      /\ Offset(fd) \in 0 .. MaxLen /\ Kernel!Offsets = 0 .. MaxLen
  BY <1>1, TypesOf DEF Offset
<1>3. at \in 0 .. MaxLen
  BY <1>2, ContentsHave DEF Kernel!WriteOffset
<1> HIDE DEF f, at
<1>4. Kernel!Put(copy[f], at, v) \in Contents /\ Kernel!Put(copy[f], at, v) # None
  BY <1>1, <1>2, <1>3, PutIs
<1>5. /\ copy' \in [Files -> Contents \cup {None}]
      /\ copy'[f] = Kernel!Put(copy[f], at, v) /\ copy'[f] # None
      /\ \A g \in Files : g # f => copy'[g] = copy[g]
  BY <1>1, <1>2, <1>4
<1>6. /\ dirty' \in [Files -> SUBSET Kernel!Offsets]
      /\ dirty'[f] = dirty[f] \cup {Offset(fd)}
      /\ \A g \in Files : g # f => dirty'[g] = dirty[g]
  BY <1>1, <1>2
<1>7. Offset(fd) + 1 \in 0 .. MaxLen
  BY <1>1, <1>2
<1>8. QED
  BY <1>1, <1>2, <1>3, <1>5, <1>6, <1>7 DEF f, at

LEMMA FlushIs ==
  ASSUME LayerInv, NEW f \in Files, Copied(f), Flush(f)
  PROVE  /\ Flushed(f) \in SUBSET (0 .. Len(copy[f]) - 1)
         /\ src' \in [Files -> Contents \cup {None}]
         /\ src'[f] = Overlaid(src[f], copy[f], Flushed(f))
         /\ \A g \in Files : src[g] # None => src'[g] # None
         /\ \A g \in Files : g # f => src'[g] = src[g] /\ dirty'[g] = dirty[g]
         /\ dirty' \in [Files -> SUBSET Kernel!Offsets]
         /\ dirty'[f] = {}
<1>1. /\ src \in [Files -> Contents \cup {None}]
      /\ dirty \in [Files -> SUBSET Kernel!Offsets]
      /\ src' = [src EXCEPT ![f] = Overlaid(src[f], copy[f], Flushed(f))]
      /\ dirty' = [dirty EXCEPT ![f] = {}]
  BY DEF Flush, CopyRuns, LayerInv, TypeOK
<1>2. copy[f] \in Contents /\ src[f] \in Contents /\ Kernel!Offsets = 0 .. MaxLen
  BY TypesOf
<1>3. Flushed(f) \in SUBSET (0 .. Len(copy[f]) - 1)
  <2>1. ASSUME NEW b \in Flushed(f) PROVE b \in 0 .. Len(copy[f]) - 1
    <3>1. b \in dirty[f] /\ b < Len(copy[f])
      BY DEF Flushed, CopiedBack
    <3>2. b \in 0 .. MaxLen /\ Len(copy[f]) \in Nat /\ MaxLen \in Nat
      BY <1>1, <1>2, <3>1, ContentsHave, LayerAssumption
    <3> QED
      BY <3>1, <3>2
  <2> QED
    BY <2>1
<1>4. Overlaid(src[f], copy[f], Flushed(f)) \in Contents
      /\ Overlaid(src[f], copy[f], Flushed(f)) # None
  BY <1>2, <1>3, OverlaidIs
<1>5. QED
  BY <1>1, <1>3, <1>4

\* Steps that give no file a copy and take none away, and leave the slots alone.
LEMMA FilesStep ==
  ASSUME LayerInv,
         src' \in [Files -> Contents \cup {None}],
         copy' \in [Files -> Contents \cup {None}],
         dirty' \in [Files -> SUBSET Kernel!Offsets],
         opened' \in [Fds -> Kernel!Descriptors \cup {None}],
         result' \in Results,
         \A f \in Files : src[f] # None => src'[f] # None,
         \A f \in Files : copy'[f] = None <=> copy[f] = None,
         \A fd \in Fds : opened'[fd] # None => src'[opened'[fd].file] # None,
         UNCHANGED <<slot, attaching, status>>
  PROVE  LayerInv'
<1>1. TypeOK'
  BY DEF LayerInv, TypeOK, Results
<1>2. /\ \A g \in Files : copy'[g] = None <=> copy[g] = None
      /\ attaching \in Files \cup {None}
      /\ \A fd \in Fds : slot[fd] # None => slot[fd].path \in Files
  BY TypesOf DEF Copied, LayerInv, TypeOK
<1>3. SlotInv'
  <2>1. \A f \in Files : copy'[f] # None => src'[f] # None
    BY <1>2 DEF LayerInv, SlotInv, Copied
  <2>2. attaching' # None => copy'[attaching'] # None
    BY <1>2 DEF LayerInv, SlotInv, Copied
  <2>3. \A fd \in Fds : slot'[fd] # None =>
          /\ slot'[fd].desc => slot'[fd].entry
          /\ slot'[fd].entry => copy'[slot'[fd].path] # None
          /\ copy'[slot'[fd].path] # None /\ attaching' # slot'[fd].path => slot'[fd].entry
    BY <1>2 DEF LayerInv, SlotInv, Copied
  <2> QED
    BY <2>1, <2>2, <2>3 DEF SlotInv, Copied
<1>4. QED
  BY <1>1, <1>3 DEF LayerInv

\* The slot that acl_open fills, whether the copy can be opened or not.
LEMMA OpenKeeps ==
  ASSUME LayerInv, NEW fd \in Fds, NEW f \in Files, NEW mode \in Kernel!Modes,
         Open(fd, f, mode) \/ OpenCopyFails(fd, f, mode) \/ OpenForeign(fd, f, mode)
  PROVE  LayerInv'
<1>1. /\ Kernel!Open(fd, f, mode) /\ UNCHANGED <<dirty, attaching, status>>
      /\ copy \in [Files -> Contents \cup {None}]
      /\ dirty \in [Files -> SUBSET Kernel!Offsets]
      /\ slot \in [Fds -> Slots \cup {None}]
  BY DEF Open, OpenCopyFails, OpenForeign, copies, LayerInv, TypeOK
<1>2. /\ src' \in [Files -> Contents \cup {None}]
      /\ opened' \in [Fds -> Kernel!Descriptors \cup {None}]
      /\ result' = "ok" /\ src'[f] # None
      /\ \A g \in Files : g # f => src'[g] = src[g]
      /\ \A e \in Fds : opened'[e] # None => src'[opened'[e].file] # None
  BY <1>1, OpenIs
<1>3. /\ result' \in Results
      /\ \A g \in Files : src[g] # None => src'[g] # None
  BY <1>2 DEF Results
<1>4. CASE OpenForeign(fd, f, mode)
  <2>1. UNCHANGED <<slot, copy>>
    BY <1>4 DEF OpenForeign, copies
  <2> QED
    BY <1>1, <1>2, <1>3, <2>1, FilesStep
<1>5. ASSUME NEW entry \in BOOLEAN, NEW desc \in BOOLEAN,
             desc => entry, entry <=> Copied(f),
             copy' \in [Files -> Contents \cup {None}],
             \A g \in Files : copy'[g] = None <=> copy[g] = None,
             slot' = [slot EXCEPT ![fd] = [path |-> f, flags |-> mode,
                                           entry |-> entry, desc |-> desc]]
      PROVE  LayerInv'
  <2> DEFINE new == [path |-> f, flags |-> mode, entry |-> entry, desc |-> desc]
  <2>1. /\ new \in Slots /\ new.path = f /\ new.entry = entry /\ new.desc = desc
        /\ slot'[fd] = new /\ \A e \in Fds : e # fd => slot'[e] = slot[e]
        /\ slot' \in [Fds -> Slots \cup {None}]
    BY <1>1, <1>5 DEF Slots
  <2> HIDE DEF new
  <2>2. TypeOK'
    BY <1>1, <1>2, <1>3, <1>5, <2>1 DEF LayerInv, TypeOK, Results
  <2>3. /\ \A g \in Files : copy'[g] = None <=> copy[g] = None
        /\ attaching \in Files \cup {None}
        /\ \A e \in Fds : slot[e] # None => slot[e].path \in Files
    BY <1>5, TypesOf DEF Copied, LayerInv, TypeOK
  <2>4. \A g \in Files : copy'[g] # None => src'[g] # None
    BY <1>3, <2>3 DEF LayerInv, SlotInv, Copied
  <2>5. attaching' # None => copy'[attaching'] # None
    BY <1>1, <2>3 DEF LayerInv, SlotInv, Copied
  <2>6. ASSUME NEW e \in Fds, slot'[e] # None
        PROVE  /\ slot'[e].desc => slot'[e].entry
               /\ slot'[e].entry => copy'[slot'[e].path] # None
               /\ copy'[slot'[e].path] # None /\ attaching' # slot'[e].path => slot'[e].entry
    <3>1. CASE e = fd
      BY <1>5, <2>1, <2>3, <3>1 DEF Copied
    <3>2. CASE e # fd
      BY <1>1, <2>1, <2>3, <2>6, <3>2 DEF LayerInv, SlotInv, Copied
    <3> QED
      BY <3>1, <3>2
  <2>7. SlotInv'
    BY <1>2, <2>4, <2>5, <2>6 DEF SlotInv, Copied
  <2> QED
    BY <2>2, <2>7 DEF LayerInv
<1>6. CASE Open(fd, f, mode)
  <2>1. /\ Copied(f) \in BOOLEAN
        /\ slot' = [slot EXCEPT ![fd] = [path |-> f, flags |-> mode,
                                         entry |-> Copied(f), desc |-> Copied(f)]]
        /\ copy' = [copy EXCEPT ![f] = IF Copied(f) /\ mode = "truncate" THEN <<>> ELSE copy[f]]
    BY <1>6 DEF Open, Copied
  <2>2. /\ copy' \in [Files -> Contents \cup {None}]
        /\ \A g \in Files : copy'[g] = None <=> copy[g] = None
    BY <1>1, <2>1, Empty DEF Copied
  <2> QED
    BY <1>5, <2>1, <2>2
<1>7. CASE OpenCopyFails(fd, f, mode)
  BY <1>1, <1>5, <1>7 DEF OpenCopyFails, copies
<1>8. QED
  BY <1>1, <1>4, <1>6, <1>7

LEMMA WriteKeeps ==
  ASSUME LayerInv, NEW fd \in Fds, NEW v \in Values, WriteDirect(fd, v) \/ WriteCopy(fd, v)
  PROVE  LayerInv'
<1>1. /\ src \in [Files -> Contents \cup {None}]
      /\ copy \in [Files -> Contents \cup {None}]
      /\ dirty \in [Files -> SUBSET Kernel!Offsets]
      /\ "ok" \in Results
  BY DEF LayerInv, TypeOK, Results
<1>2. CASE WriteDirect(fd, v)
  <2> DEFINE f  == opened[fd].file
             at == Kernel!WriteOffset(src[f], opened[fd].appends, opened[fd].offset)
  <2>1. Kernel!Write(fd, v) /\ UNCHANGED <<slot, copy, dirty, attaching, status>>
    BY <1>2 DEF WriteDirect, copies
  <2>2. /\ opened[fd] # None /\ f \in Files
        /\ src' \in [Files -> Contents \cup {None}]
        /\ src'[f] # None
        /\ \A g \in Files : g # f => src'[g] = src[g]
        /\ Kernel!MoveTo(fd, at + 1) /\ at + 1 \in 0 .. MaxLen /\ result' = "ok"
    BY <2>1, WriteIs
  <2> HIDE DEF f, at
  <2>3. /\ opened' \in [Fds -> Kernel!Descriptors \cup {None}]
        /\ \A e \in Fds : opened'[e] # None =>
             opened[e] # None /\ opened'[e].file = opened[e].file
    BY <2>2, MoveIs
  <2>4. \A g \in Files : src[g] # None => src'[g] # None
    BY <2>2
  <2>5. \A e \in Fds : opened'[e] # None => src'[opened'[e].file] # None
    BY <2>3, <2>4, TypesOf
  <2> QED
    BY <1>1, <2>1, <2>2, <2>3, <2>4, <2>5, FilesStep
<1>3. CASE WriteCopy(fd, v)
  <2>1. /\ opened[fd] # None /\ Path(fd) \in Files /\ Copied(Path(fd))
        /\ Offset(fd) + 1 \in 0 .. MaxLen
        /\ copy' \in [Files -> Contents \cup {None}]
        /\ copy'[Path(fd)] # None
        /\ \A g \in Files : g # Path(fd) => copy'[g] = copy[g]
        /\ dirty' \in [Files -> SUBSET Kernel!Offsets]
        /\ Kernel!MoveTo(fd, Offset(fd) + 1) /\ result' = "ok"
        /\ UNCHANGED <<src, slot, attaching, status>>
    BY <1>3, WriteCopyIs
  <2>2. /\ opened' \in [Fds -> Kernel!Descriptors \cup {None}]
        /\ \A e \in Fds : opened'[e] # None =>
             opened[e] # None /\ opened'[e].file = opened[e].file
    BY <2>1, MoveIs
  <2>3. \A g \in Files : copy'[g] = None <=> copy[g] = None
    BY <2>1 DEF Copied
  <2>4. \A e \in Fds : opened'[e] # None => src'[opened'[e].file] # None
    BY <2>1, <2>2, TypesOf
  <2> QED
    BY <1>1, <2>1, <2>2, <2>3, <2>4, FilesStep
<1>4. QED
  BY <1>2, <1>3

LEMMA FlushKeeps ==
  ASSUME LayerInv, NEW fd \in Fds, SyncCopy(fd) \/ CloseCopy(fd)
  PROVE  LayerInv'
<1>1. /\ Cached(fd) /\ Flush(Path(fd)) /\ result' = "ok" /\ UNCHANGED <<copy, attaching, status>>
      /\ copy \in [Files -> Contents \cup {None}]
      /\ opened \in [Fds -> Kernel!Descriptors \cup {None}]
      /\ slot \in [Fds -> Slots \cup {None}]
      /\ "ok" \in Results
  BY DEF SyncCopy, CloseCopy, LayerInv, TypeOK, Results
<1>2. Path(fd) \in Files /\ Copied(Path(fd))
  BY <1>1, TypesOf
<1>3. /\ src' \in [Files -> Contents \cup {None}]
      /\ \A g \in Files : src[g] # None => src'[g] # None
      /\ dirty' \in [Files -> SUBSET Kernel!Offsets]
  BY <1>1, <1>2, FlushIs
<1>4. CASE SyncCopy(fd)
  <2>1. UNCHANGED <<opened, slot>>
    BY <1>4 DEF SyncCopy
  <2>2. \A e \in Fds : opened'[e] # None => src'[opened'[e].file] # None
    BY <1>3, <2>1, TypesOf
  <2> QED
    BY <1>1, <1>3, <2>1, <2>2, FilesStep
<1>5. CASE CloseCopy(fd)
  <2>1. /\ slot' = [slot EXCEPT ![fd] = None]
        /\ opened' = [opened EXCEPT ![fd] = None]
    BY <1>5 DEF CloseCopy
  <2>2. /\ slot' \in [Fds -> Slots \cup {None}]
        /\ opened' \in [Fds -> Kernel!Descriptors \cup {None}]
        /\ \A e \in Fds : opened'[e] # None => opened'[e] = opened[e]
        /\ \A e \in Fds : slot'[e] # None => slot'[e] = slot[e]
    BY <1>1, <2>1
  <2>3. TypeOK'
    BY <1>1, <1>3, <2>2 DEF LayerInv, TypeOK, Results
  <2>4. \A e \in Fds : opened'[e] # None => src'[opened'[e].file] # None
    BY <1>3, <2>2, TypesOf
  <2>5. \A g \in Files : copy'[g] # None => src'[g] # None
    BY <1>1, <1>3, TypesOf DEF Copied
  <2>6. SlotInv'
    BY <1>1, <2>2, <2>4, <2>5 DEF LayerInv, SlotInv, Copied
  <2> QED
    BY <2>3, <2>6 DEF LayerInv
<1>6. QED
  BY <1>4, <1>5

\* The steps of the lookahead thread.
LEMMA InsertAsKeeps ==
  ASSUME LayerInv, NEW f \in Files, NEW c \in Contents, InsertAs(f, c)
  PROVE  LayerInv'
<1>0. c # None
  BY NoneAssumption
<1>1. /\ attaching = None /\ copy[f] = None /\ src[f] # None
      /\ copy' = [copy EXCEPT ![f] = c]
      /\ dirty' = [dirty EXCEPT ![f] = {}]
      /\ attaching' = f
      /\ UNCHANGED <<src, opened, result, slot, status>>
      /\ src \in [Files -> Contents \cup {None}]
      /\ copy \in [Files -> Contents \cup {None}]
      /\ dirty \in [Files -> SUBSET Kernel!Offsets]
  BY DEF InsertAs, Copied, kernel, LayerInv, TypeOK
<1>2. /\ copy' \in [Files -> Contents \cup {None}]
      /\ dirty' \in [Files -> SUBSET Kernel!Offsets]
      /\ copy'[f] # None /\ \A g \in Files : g # f => copy'[g] = copy[g]
  BY <1>0, <1>1
<1>3. TypeOK'
  BY <1>1, <1>2 DEF LayerInv, TypeOK
<1>4. /\ \A g \in Files : Copied(g) => copy'[g] # None
      /\ \A g \in Files : copy'[g] # None /\ g # f => Copied(g)
      /\ copy'[f] # None /\ f # None
  BY <1>1, <1>2, LayerAssumption DEF Copied
<1>5. \A g \in Files : copy'[g] # None => src'[g] # None
  BY <1>1, <1>4 DEF LayerInv, SlotInv, Copied
<1>6. ASSUME NEW fd \in Fds, slot'[fd] # None
      PROVE  /\ slot'[fd].desc => slot'[fd].entry
             /\ slot'[fd].entry => copy'[slot'[fd].path] # None
             /\ copy'[slot'[fd].path] # None /\ attaching' # slot'[fd].path => slot'[fd].entry
  <2>1. slot[fd] # None /\ slot[fd].path \in Files /\ slot'[fd] = slot[fd]
    BY <1>1, <1>6, TypesOf
  <2>2. /\ slot[fd].desc => slot[fd].entry
        /\ slot[fd].entry => Copied(slot[fd].path)
        /\ Copied(slot[fd].path) /\ attaching # slot[fd].path => slot[fd].entry
    BY <2>1 DEF LayerInv, SlotInv, Copied
  <2>3. attaching # slot[fd].path
    BY <1>1, <2>1, LayerAssumption
  <2> QED
    BY <1>1, <1>4, <2>1, <2>2, <2>3
<1>7. SlotInv'
  BY <1>1, <1>4, <1>5, <1>6 DEF LayerInv, SlotInv, Copied
<1>8. QED
  BY <1>3, <1>7 DEF LayerInv

\* The bytes that are in the copy: all of the source, or those before a read error.
LEMMA InsertKeeps ==
  ASSUME LayerInv, NEW f \in Files, Insert(f) \/ InsertCutShort(f)
  PROVE  LayerInv'
<1>1. src[f] # None
  BY DEF Insert, InsertCutShort, InsertAs
<1>2. src[f] \in Contents
  BY <1>1 DEF LayerInv, TypeOK
<1>3. PICK k \in 0 .. MaxLen : src[f] \in [1 .. k -> Kernel!Bytes]
  BY <1>2 DEF Contents
<1>4. ASSUME NEW n \in 0 .. Len(src[f]) - 1 PROVE SubSeq(src[f], 1, n) \in Contents
  <2>1. Len(src[f]) = k /\ k \in Nat /\ k <= MaxLen
    BY <1>3, LayerAssumption
  <2>2. SubSeq(src[f], 1, n) = [i \in 1 .. n |-> src[f][i]]
    BY <1>3, <2>1, LayerAssumption
  <2>3. /\ n \in 0 .. MaxLen
        /\ [i \in 1 .. n |-> src[f][i]] \in [1 .. n -> Kernel!Bytes]
    BY <1>3, <2>1, LayerAssumption
  <2> QED
    BY <2>2, <2>3 DEF Contents
<1>5. QED
  BY <1>2, <1>4, InsertAsKeeps DEF Insert, InsertCutShort

LEMMA AttachIs ==
  ASSUME LayerInv, Attach
  PROVE  /\ attaching \in Files /\ Copied(attaching) /\ attaching' = None
         /\ copy' \in [Files -> Contents \cup {None}]
         /\ \A g \in Files : copy'[g] = None <=> copy[g] = None
         /\ slot' \in [Fds -> Slots \cup {None}]
         /\ \A fd \in Fds :
              \/ fd \notin Waiting(attaching) /\ slot'[fd] = slot[fd]
              \/ /\ fd \in Waiting(attaching)
                 /\ slot'[fd].entry /\ slot'[fd].path = attaching
         /\ UNCHANGED <<src, opened, result, dirty, status>>
<1>1. /\ attaching \in Files /\ Copied(attaching) /\ attaching' = None
      /\ slot \in [Fds -> Slots \cup {None}]
      /\ copy \in [Files -> Contents \cup {None}]
      /\ UNCHANGED <<src, opened, result, dirty, status>>
  BY DEF Attach, kernel, LayerInv, TypeOK, SlotInv
<1>2. PICK unable \in SUBSET Waiting(attaching) :
       /\ slot' = [fd \in Fds |->
                     IF fd \in Waiting(attaching)
                     THEN [slot[fd] EXCEPT !.entry = TRUE, !.desc = fd \notin unable]
                     ELSE slot[fd]]
       /\ copy' = [copy EXCEPT ![attaching] =
                     IF \E fd \in Waiting(attaching) \ unable : slot[fd].flags = "truncate"
                     THEN <<>> ELSE copy[attaching]]
  BY DEF Attach
<1>3. /\ copy' \in [Files -> Contents \cup {None}]
      /\ \A g \in Files : copy'[g] = None <=> copy[g] = None
  BY <1>1, <1>2, Empty DEF Copied
<1>4. ASSUME NEW fd \in Waiting(attaching)
      PROVE  /\ [slot[fd] EXCEPT !.entry = TRUE, !.desc = fd \notin unable] \in Slots
             /\ [slot[fd] EXCEPT !.entry = TRUE, !.desc = fd \notin unable].entry
             /\ [slot[fd] EXCEPT !.entry = TRUE, !.desc = fd \notin unable].path = attaching
  <2>1. fd \in Fds /\ slot[fd] # None /\ slot[fd].path = attaching /\ slot[fd] \in Slots
    BY <1>1 DEF Waiting
  <2> QED
    BY <2>1 DEF Slots
<1>5. QED
  BY <1>1, <1>2, <1>3, <1>4

LEMMA AttachKeeps ==
  ASSUME LayerInv, Attach
  PROVE  LayerInv'
<1>1. /\ attaching \in Files /\ copy[attaching] # None /\ attaching' = None
      /\ copy' \in [Files -> Contents \cup {None}]
      /\ \A g \in Files : copy'[g] = None <=> copy[g] = None
      /\ slot' \in [Fds -> Slots \cup {None}]
      /\ \A fd \in Fds :
           \/ fd \notin Waiting(attaching) /\ slot'[fd] = slot[fd]
           \/ /\ fd \in Waiting(attaching)
              /\ slot'[fd].entry /\ slot'[fd].path = attaching
      /\ UNCHANGED <<src, opened, result, dirty, status>>
  BY AttachIs DEF Copied
<1>2. TypeOK'
  BY <1>1 DEF LayerInv, TypeOK
<1>3. \A g \in Files : copy'[g] # None => src'[g] # None
  BY <1>1 DEF LayerInv, SlotInv, Copied
<1>4. ASSUME NEW fd \in Fds, slot'[fd] # None
      PROVE  /\ slot'[fd].desc => slot'[fd].entry
             /\ slot'[fd].entry => copy'[slot'[fd].path] # None
             /\ copy'[slot'[fd].path] # None /\ attaching' # slot'[fd].path => slot'[fd].entry
  <2>1. CASE fd \in Waiting(attaching)
    BY <1>1, <2>1
  <2>2. CASE fd \notin Waiting(attaching)
    <3>1. slot'[fd] = slot[fd] /\ slot[fd] # None /\ slot[fd].path \in Files
      BY <1>1, <1>4, <2>2, TypesOf
    <3>2. /\ slot[fd].desc => slot[fd].entry
          /\ slot[fd].entry => copy[slot[fd].path] # None
          /\ copy[slot[fd].path] # None /\ attaching # slot[fd].path => slot[fd].entry
      BY <3>1 DEF LayerInv, SlotInv, Copied
    <3>3. attaching = slot[fd].path => slot[fd].entry
      BY <2>2, <3>1, <3>2 DEF Waiting
    <3> QED
      BY <1>1, <3>1, <3>2, <3>3
  <2> QED
    BY <2>1, <2>2
<1>5. SlotInv'
  BY <1>1, <1>3, <1>4 DEF LayerInv, SlotInv, Copied
<1>6. QED
  BY <1>2, <1>5 DEF LayerInv

LEMMA EvictKeeps ==
  ASSUME LayerInv, NEW f \in Files, Evict(f)
  PROVE  LayerInv'
<1> DEFINE detached(fd) == [slot[fd] EXCEPT !.entry = FALSE, !.desc = FALSE]
<1>1. /\ attaching = None /\ attaching' = None
      /\ copy' = [copy EXCEPT ![f] = None]
      /\ dirty' = [dirty EXCEPT ![f] = {}]
      /\ slot' = [fd \in Fds |-> IF Cached(fd) /\ Path(fd) = f THEN detached(fd) ELSE slot[fd]]
      /\ UNCHANGED <<src, opened, result, status>>
      /\ copy \in [Files -> Contents \cup {None}]
      /\ dirty \in [Files -> SUBSET Kernel!Offsets]
      /\ slot \in [Fds -> Slots \cup {None}]
  BY DEF Evict, kernel, LayerInv, TypeOK
<1>2. ASSUME NEW fd \in Fds, Cached(fd), Path(fd) = f
      PROVE  /\ detached(fd) \in Slots /\ detached(fd).path = f
             /\ ~detached(fd).entry /\ ~detached(fd).desc
  <2>1. slot[fd] \in Slots /\ slot[fd].path = f
    BY <1>1, <1>2, TypesOf DEF Path
  <2> QED
    BY <2>1 DEF Slots
<1> HIDE DEF detached
<1>3. /\ copy' \in [Files -> Contents \cup {None}]
      /\ dirty' \in [Files -> SUBSET Kernel!Offsets]
      /\ slot' \in [Fds -> Slots \cup {None}]
      /\ copy'[f] = None /\ \A g \in Files : g # f => copy'[g] = copy[g]
  BY <1>1, <1>2
<1>4. TypeOK'
  BY <1>1, <1>3 DEF LayerInv, TypeOK
<1>5. \A g \in Files : copy'[g] # None => src'[g] # None
  BY <1>1, <1>3 DEF LayerInv, SlotInv, Copied
<1>6. ASSUME NEW fd \in Fds, slot'[fd] # None
      PROVE  /\ slot'[fd].desc => slot'[fd].entry
             /\ slot'[fd].entry => copy'[slot'[fd].path] # None
             /\ copy'[slot'[fd].path] # None /\ attaching' # slot'[fd].path => slot'[fd].entry
  <2>1. CASE Cached(fd) /\ Path(fd) = f
    BY <1>1, <1>2, <1>3, <2>1
  <2>2. CASE ~(Cached(fd) /\ Path(fd) = f)
    <3>1. slot'[fd] = slot[fd] /\ slot[fd] # None /\ slot[fd].path \in Files
      BY <1>1, <1>6, <2>2, TypesOf
    <3>2. /\ slot[fd].desc => slot[fd].entry
          /\ slot[fd].entry => copy[slot[fd].path] # None
          /\ copy[slot[fd].path] # None /\ attaching # slot[fd].path => slot[fd].entry
      BY <3>1 DEF LayerInv, SlotInv, Copied
    <3>3. slot[fd].path = f => ~slot[fd].entry
      BY <2>2, <3>1 DEF Cached, Path
    <3> QED
      BY <1>1, <1>3, <3>1, <3>2, <3>3
  <2> QED
    BY <2>1, <2>2
<1>7. SlotInv'
  BY <1>1, <1>5, <1>6 DEF LayerInv, SlotInv, Copied
<1>8. QED
  BY <1>4, <1>7 DEF LayerInv

LEMMA LayerStep == LayerInv /\ [Next]_vars => LayerInv'
<1> SUFFICES ASSUME LayerInv, [Next]_vars PROVE LayerInv'
  OBVIOUS
<1>1. CASE OpenStep
  <2>1. ASSUME OpenFails PROVE LayerInv'
    BY <2>1, DescriptorStep DEF OpenFails, Kernel!Fail, LayerInv, TypeOK, Results
  <2> QED
    BY <1>1, <2>1, OpenKeeps DEF OpenStep
<1>2. CASE AccessStep
  BY <1>2, AccessKeeps, WriteKeeps, ExitKeeps DEF AccessStep, NoDescriptor, FailsAtStart
<1>3. CASE FlushStep
  BY <1>3, AccessKeeps, FlushKeeps, ExitKeeps DEF FlushStep, FlushExits
<1>4. CASE CacheStep
  BY <1>4, AttachKeeps, InsertKeeps, EvictKeeps DEF CacheStep
<1>5. CASE Exited \/ UNCHANGED vars
  BY <1>5, ExitKeeps DEF Exited
<1>6. QED
  BY <1>1, <1>2, <1>3, <1>4, <1>5 DEF Next

LEMMA LayerInvariant == Spec => []LayerInv
<1>1. QED
  BY LayerInit, LayerStep, PTL DEF Spec

(***************************************************************************)
(* The calls and the lookahead thread keep the variables of acl.c in their *)
(* types: no offset leaves a file's range, no slot or copy is half set.    *)
(***************************************************************************)
THEOREM LayerTypeCorrect == Spec => []TypeOK
<1>1. LayerInv => TypeOK
  BY DEF LayerInv
<1>2. QED
  BY <1>1, LayerInvariant, PTL

-----------------------------------------------------------------------------
(* The extent list and the source.                                         *)

\* ListComplete, without the bytes that a flush would leave: see OverlaidIs.
Complete(f) ==
  Copied(f) => Covers(src[f], copy[f], {b \in dirty[f] : b < Len(copy[f])})

LEMMA ListIs == LayerInv => \A f \in Files : ListComplete(f) <=> Complete(f)
<1> SUFFICES ASSUME LayerInv, NEW f \in Files PROVE ListComplete(f) <=> Complete(f)
  OBVIOUS
<1> DEFINE P == {b \in dirty[f] : b < Len(copy[f])}
<1>1. CASE Copied(f)
  <2>1. src[f] \in Contents /\ copy[f] \in Contents /\ Kernel!Offsets = 0 .. MaxLen
    BY <1>1, TypesOf
  <2>2. dirty[f] \subseteq 0 .. MaxLen /\ Len(copy[f]) \in Nat /\ MaxLen \in Nat
    BY <2>1, ContentsHave, LayerAssumption DEF LayerInv, TypeOK
  <2>3. P \in SUBSET (0 .. Len(copy[f]) - 1)
    BY <2>2
  <2> HIDE DEF P
  <2>4. Overlaid(src[f], copy[f], P) = copy[f] <=> Covers(src[f], copy[f], P)
    BY <2>1, <2>3, OverlaidIs
  <2> QED
    BY <1>1, <2>4 DEF P, ListComplete, Complete
<1>2. CASE ~Copied(f)
  BY <1>2 DEF ListComplete, Complete
<1>3. QED
  BY <1>1, <1>2

\* A step leaves every list that was complete complete.
Keeps == \A f \in Files : ListComplete(f) => ListComplete(f)'

\* It is enough to look at the one file that a step changes.
LEMMA KeepsAll ==
  ASSUME LayerInv, LayerInv', NEW g \in Files,
         \A f \in Files : f # g =>
           src'[f] = src[f] /\ copy'[f] = copy[f] /\ dirty'[f] = dirty[f],
         copy'[g] # None /\ Complete(g) =>
           Covers(src'[g], copy'[g], {b \in dirty'[g] : b < Len(copy'[g])})
  PROVE  Keeps
<1>1. \A f \in Files : ListComplete(f) => Complete(f)
  BY ListIs
<1>2. (LayerInv => \A f \in Files : ListComplete(f) <=> Complete(f))'
  BY ListIs, PTL
<1>3. \A f \in Files : Complete(f)' => ListComplete(f)'
  BY <1>2
<1>4. ASSUME NEW f \in Files, Complete(f) PROVE Complete(f)'
  BY <1>4 DEF Complete, Copied
<1>5. QED
  BY <1>1, <1>3, <1>4 DEF Keeps

\* A step that leaves the file as it is.
LEMMA SameFile ==
  ASSUME NEW f \in Files,
         src'[f] = src[f], copy'[f] = copy[f], dirty'[f] = dirty[f]
  PROVE  copy'[f] # None /\ Complete(f) =>
           Covers(src'[f], copy'[f], {b \in dirty'[f] : b < Len(copy'[f])})
BY DEF Complete, Copied

LEMMA SameFiles ==
  ASSUME LayerInv, LayerInv', UNCHANGED <<src, copies>>
  PROVE  Keeps
<1>1. UNCHANGED <<copy, dirty>>
  BY DEF copies
<1>2. CASE Files = {}
  BY <1>2 DEF Keeps
<1>3. ASSUME NEW g \in Files PROVE Keeps
  BY <1>1, SameFile, KeepsAll
<1>4. QED
  BY <1>2, <1>3

\* Source and copy have the same bytes.
LEMMA CoversSame ==
  ASSUME NEW c \in Contents, NEW P
  PROVE  Covers(c, c, P)
<1>1. Len(c) \in Nat
  BY ContentsHave
<1>2. QED
  BY <1>1 DEF Covers

\* A byte written to the copy and recorded.
LEMMA CoversPut ==
  ASSUME NEW c \in Contents, NEW d \in Contents, NEW D \in SUBSET (0 .. MaxLen),
         NEW at \in 0 .. MaxLen, at < MaxLen, NEW v \in Values,
         Covers(c, d, {b \in D : b < Len(d)})
  PROVE  Covers(c, Kernel!Put(d, at, v),
                {b \in D \cup {at} : b < Len(Kernel!Put(d, at, v))})
<1> DEFINE e == Kernel!Put(d, at, v)
           P == {b \in D : b < Len(d)}
           Q == {b \in D \cup {at} : b < Len(e)}
<1>1. /\ e \in Contents /\ Len(e) = IF Len(d) <= at THEN at + 1 ELSE Len(d)
      /\ \A i \in 1 .. Len(e) :
           e[i] = IF i = at + 1 THEN v ELSE IF i <= Len(d) THEN d[i] ELSE Kernel!Zero
  BY PutIs
<1>2. /\ Len(c) \in Nat /\ Len(d) \in Nat /\ MaxLen \in Nat /\ at \in Nat /\ D \subseteq Nat
  BY ContentsHave, LayerAssumption
<1> HIDE DEF e
<1>3. Len(e) \in Nat /\ Len(d) <= Len(e) /\ at < Len(e)
  BY <1>1, <1>2
<1>4. at \in Q /\ P \subseteq Q
  <2>1. at \in Q
    BY <1>3
  <2>2. ASSUME NEW b \in P PROVE b \in Q
    <3>1. b \in D /\ b < Len(d) /\ b \in Nat
      BY <1>2
    <3>2. b < Len(e)
      BY <1>2, <1>3, <3>1
    <3> QED
      BY <3>1, <3>2
  <2> QED
    BY <2>1, <2>2
<1>5. /\ Len(c) <= Len(d)
      /\ Len(c) = Len(d) \/ Len(d) - 1 \in P
      /\ \A i \in 1 .. Len(d) : i - 1 \in P \/ d[i] = IF i <= Len(c) THEN c[i] ELSE Kernel!Zero
  BY DEF Covers
<1> HIDE DEF P, Q
<1>6. Len(c) <= Len(e)
  BY <1>2, <1>3, <1>5
<1>7. Len(c) = Len(e) \/ Len(e) - 1 \in Q
  <2>1. CASE Len(d) <= at
    <3>1. Len(e) - 1 = at
      BY <1>1, <1>2, <2>1
    <3> QED
      BY <1>4, <3>1
  <2>2. CASE ~(Len(d) <= at)
    <3>1. Len(e) = Len(d)
      BY <1>1, <2>2
    <3> QED
      BY <1>4, <1>5, <3>1
  <2> QED
    BY <2>1, <2>2
<1>8. ASSUME NEW i \in 1 .. Len(e)
      PROVE  i - 1 \in Q \/ e[i] = IF i <= Len(c) THEN c[i] ELSE Kernel!Zero
  <2>1. CASE i = at + 1
    <3>1. i - 1 = at
      BY <1>2, <2>1
    <3> QED
      BY <1>4, <3>1
  <2>2. CASE i # at + 1 /\ i <= Len(d)
    <3>1. i \in 1 .. Len(d)
      BY <1>2, <1>3, <2>2
    <3>2. e[i] = d[i]
      BY <1>1, <2>2
    <3> QED
      BY <1>4, <1>5, <3>1, <3>2
  <2>3. CASE i # at + 1 /\ ~(i <= Len(d))
    <3>1. e[i] = Kernel!Zero
      BY <1>1, <2>3
    <3>2. ~(i <= Len(c))
      BY <1>2, <1>3, <1>5, <2>3
    <3> QED
      BY <3>1, <3>2
  <2> QED
    BY <2>1, <2>2, <2>3
<1>9. Covers(c, e, Q)
  BY <1>6, <1>7, <1>8 DEF Covers
<1>10. QED
  BY <1>9 DEF e, Q

\* The exceptions of ListStaysComplete that a descriptor accounts for.
Spoils(fd) ==
  \/ PastCopy(fd) \/ LeftSlot(fd) \/ Appends(fd) \/ CutShort(fd)
  \/ \E f \in Files : TruncatesSource(fd, f)

LEMMA OpenComplete ==
  ASSUME LayerInv, LayerInv', NEW fd \in Fds, NEW f \in Files, NEW mode \in Kernel!Modes,
         Open(fd, f, mode) \/ OpenCopyFails(fd, f, mode) \/ OpenForeign(fd, f, mode)
  PROVE  Keeps \/ Spoils(fd)
<1>1. /\ Kernel!Open(fd, f, mode) /\ UNCHANGED dirty
      /\ copy \in [Files -> Contents \cup {None}]
  BY DEF Open, OpenCopyFails, OpenForeign, copies, LayerInv, TypeOK
<1>2. /\ src'[f] = IF mode \in {"create", "truncate"} THEN <<>> ELSE src[f]
      /\ \A g \in Files : g # f => src'[g] = src[g]
      /\ mode = "create" <=> src[f] = None
  BY <1>1, OpenIs
<1>3. /\ \A g \in Files : g # f => copy'[g] = copy[g]
      /\ copy'[f] = copy[f] \/ Open(fd, f, mode)
      /\ Open(fd, f, mode) =>
           copy'[f] = IF Copied(f) /\ mode = "truncate" THEN <<>> ELSE copy[f]
  BY <1>1 DEF Open, OpenCopyFails, OpenForeign, copies
<1>4. \A g \in Files : g # f =>
        src'[g] = src[g] /\ copy'[g] = copy[g] /\ dirty'[g] = dirty[g]
  BY <1>1, <1>2, <1>3
<1>5. CASE ~Copied(f)
  <2>1. copy'[f] = None
    BY <1>3, <1>5 DEF Copied
  <2> QED
    BY <1>4, <2>1, KeepsAll
<1>6. CASE Copied(f) /\ mode # "truncate"
  <2>1. src'[f] = src[f] /\ copy'[f] = copy[f] /\ dirty'[f] = dirty[f]
    BY <1>1, <1>2, <1>3, <1>6, TypesOf
  <2> QED
    BY <1>4, <2>1, SameFile, KeepsAll
<1>7. CASE Copied(f) /\ mode = "truncate" /\ Open(fd, f, mode)
  <2>1. src'[f] = <<>> /\ copy'[f] = <<>>
    BY <1>2, <1>3, <1>7
  <2>2. Covers(src'[f], copy'[f], {b \in dirty'[f] : b < Len(copy'[f])})
    BY <2>1, Empty, CoversSame
  <2> QED
    BY <1>4, <2>2, KeepsAll
<1>8. CASE Copied(f) /\ mode = "truncate" /\ ~Open(fd, f, mode)
  BY <1>8 DEF TruncatesSource, Spoils
<1>9. QED
  BY <1>5, <1>6, <1>7, <1>8

LEMMA WriteDirectComplete ==
  ASSUME LayerInv, LayerInv', NEW fd \in Fds, NEW v \in Values, WriteDirect(fd, v)
  PROVE  Keeps \/ Spoils(fd)
<1> DEFINE f == opened[fd].file
<1>1. /\ Kernel!Write(fd, v) /\ ~Cached(fd) /\ UNCHANGED <<copy, dirty, slot, attaching>>
  BY DEF WriteDirect, copies
<1>2. /\ opened[fd] # None /\ f \in Files
      /\ \A g \in Files : g # f => src'[g] = src[g]
  BY <1>1, WriteIs
<1>3. CASE ~Copied(f)
  <2>1. copy'[f] = None
    BY <1>1, <1>3 DEF Copied
  <2> QED
    BY <1>1, <1>2, <2>1, KeepsAll
<1>4. CASE Copied(f)
  <2>1. ASSUME OwnSlot(fd) PROVE attaching = f
    <3>1. slot[fd] # None /\ slot[fd].path = f /\ ~slot[fd].entry
      BY <1>1, <2>1 DEF OwnSlot, Cached
    <3> QED
      BY <1>4, <3>1 DEF LayerInv, SlotInv
  <2>2. PastCopy(fd)
    BY <1>2, <1>4, <2>1 DEF PastCopy
  <2> QED
    BY <2>2 DEF Spoils
<1>5. QED
  BY <1>3, <1>4

LEMMA WriteCopyComplete ==
  ASSUME LayerInv, LayerInv', NEW fd \in Fds, NEW v \in Values, WriteCopy(fd, v)
  PROVE  Keeps \/ Spoils(fd)
<1> DEFINE f  == Path(fd)
           at == Kernel!WriteOffset(copy[f], slot[fd].flags = "append", Offset(fd))
<1>1. /\ UsesCopy(fd)
      /\ opened[fd] # None /\ f \in Files /\ Copied(f)
      /\ at \in 0 .. MaxLen /\ at < MaxLen
      /\ copy'[f] = Kernel!Put(copy[f], at, v)
      /\ \A g \in Files : g # f => copy'[g] = copy[g] /\ dirty'[g] = dirty[g]
      /\ dirty'[f] = dirty[f] \cup {Offset(fd)}
      /\ UNCHANGED src
  BY WriteCopyIs DEF WriteCopy
<1>2. CASE slot[fd].flags = "append" /\ Offset(fd) # Len(copy[f])
  BY <1>1, <1>2 DEF Appends, Spoils
<1>3. CASE ~(slot[fd].flags = "append" /\ Offset(fd) # Len(copy[f]))
  <2>1. at = Offset(fd)
    BY <1>3 DEF Kernel!WriteOffset
  <2>2. /\ src[f] \in Contents /\ copy[f] \in Contents
        /\ dirty[f] \in SUBSET (0 .. MaxLen)
    BY <1>1, TypesOf DEF LayerInv, TypeOK
  <2> HIDE DEF at, f
  <2>3. ASSUME Complete(f)
        PROVE  Covers(src'[f], copy'[f], {b \in dirty'[f] : b < Len(copy'[f])})
    <3>1. Covers(src[f], copy[f], {b \in dirty[f] : b < Len(copy[f])})
      BY <1>1, <2>3 DEF Complete
    <3> DEFINE c == src[f]
               d == copy[f]
               D == dirty[f]
    <3>2. c \in Contents /\ d \in Contents /\ D \in SUBSET (0 .. MaxLen)
          /\ Covers(c, d, {b \in D : b < Len(d)})
      BY <2>2, <3>1
    <3>3. at \in 0 .. MaxLen /\ at < MaxLen
      BY <1>1
    <3> HIDE DEF c, d, D
    <3>4. Covers(c, Kernel!Put(d, at, v),
                 {b \in D \cup {at} : b < Len(Kernel!Put(d, at, v))})
      BY <3>2, <3>3, CoversPut
    <3> QED
      BY <1>1, <2>1, <3>4 DEF c, d, D
  <2> QED
    BY <1>1, <2>3, KeepsAll
<1>4. QED
  BY <1>2, <1>3

LEMMA FlushComplete ==
  ASSUME LayerInv, LayerInv', NEW fd \in Fds, SyncCopy(fd) \/ CloseCopy(fd)
  PROVE  Keeps \/ Spoils(fd)
<1> DEFINE f == Path(fd)
           D == {b \in dirty[f] : b < Len(copy[f])}
<1>1. Cached(fd) /\ Flush(f) /\ UNCHANGED copy
  BY DEF SyncCopy, CloseCopy
<1>2. f \in Files /\ Copied(f) /\ copy[f] \in Contents
  BY <1>1, TypesOf
<1>3. /\ src'[f] = Overlaid(src[f], copy[f], Flushed(f))
      /\ \A g \in Files : g # f => src'[g] = src[g] /\ dirty'[g] = dirty[g]
  BY <1>1, <1>2, FlushIs
<1>4. CASE \E b \in dirty[f] \ Flushed(f) : b < Len(copy[f])
  BY <1>4 DEF CutShort, Spoils
<1>5. CASE ~\E b \in dirty[f] \ Flushed(f) : b < Len(copy[f])
  <2>1. Flushed(f) = D
    BY <1>5 DEF Flushed, CopiedBack
  <2>2. ASSUME Complete(f)
        PROVE  Covers(src'[f], copy'[f], {b \in dirty'[f] : b < Len(copy'[f])})
    <3>1. Overlaid(src[f], copy[f], D) = copy[f]
      BY <1>2, <2>2, ListIs DEF ListComplete
    <3>2. src'[f] = copy[f] /\ copy'[f] = copy[f]
      BY <1>1, <1>3, <2>1, <3>1
    <3> QED
      BY <1>2, <3>2, CoversSame
  <2> QED
    BY <1>1, <1>2, <1>3, <2>2, KeepsAll
<1>6. QED
  BY <1>4, <1>5

LEMMA CacheComplete ==
  ASSUME LayerInv, LayerInv', CacheStep
  PROVE  Keeps \/ TruncatesLate \/ \E f \in Files : InsertCutShort(f)
<1>1. ASSUME NEW f \in Files, Insert(f) PROVE Keeps
  <2>1. /\ src[f] # None /\ copy' = [copy EXCEPT ![f] = src[f]]
        /\ dirty' = [dirty EXCEPT ![f] = {}] /\ UNCHANGED src
        /\ copy \in [Files -> Contents \cup {None}]
        /\ dirty \in [Files -> SUBSET Kernel!Offsets]
    BY <1>1 DEF Insert, InsertAs, kernel, LayerInv, TypeOK
  <2>2. src[f] \in Contents
    BY <2>1, TypesOf
  <2>3. src'[f] = src[f] /\ copy'[f] = src[f]
    BY <2>1
  <2>4. Covers(src'[f], copy'[f], {b \in dirty'[f] : b < Len(copy'[f])})
    BY <2>2, <2>3, CoversSame
  <2> QED
    BY <2>1, <2>4, KeepsAll
<1>2. ASSUME NEW f \in Files, Evict(f) PROVE Keeps
  <2>1. /\ copy' = [copy EXCEPT ![f] = None]
        /\ dirty' = [dirty EXCEPT ![f] = {}] /\ UNCHANGED src
        /\ copy \in [Files -> Contents \cup {None}]
        /\ dirty \in [Files -> SUBSET Kernel!Offsets]
    BY <1>2 DEF Evict, kernel, LayerInv, TypeOK
  <2> QED
    BY <2>1, KeepsAll
<1>3. ASSUME Attach PROVE Keeps \/ TruncatesLate
  <2>1. attaching # None /\ UNCHANGED <<src, dirty>>
    BY <1>3 DEF Attach, kernel
  <2>2. CASE copy' = copy
    BY <2>1, <2>2, SameFiles DEF copies
  <2>3. CASE copy' # copy
    BY <1>3, <2>1, <2>3 DEF TruncatesLate
  <2> QED
    BY <2>2, <2>3
<1>4. QED
  BY <1>1, <1>2, <1>3 DEF CacheStep

LEMMA CompleteStep ==
  LayerInv /\ LayerInv' /\ [Next]_vars =>
    \/ Keeps \/ TruncatesLate \/ \E f \in Files : InsertCutShort(f)
    \/ \E fd \in Fds : Spoils(fd)
<1> SUFFICES ASSUME LayerInv, LayerInv', [Next]_vars
             PROVE  \/ Keeps \/ TruncatesLate \/ \E f \in Files : InsertCutShort(f)
                    \/ \E fd \in Fds : Spoils(fd)
  OBVIOUS
<1>1. CASE OpenStep
  BY <1>1, OpenComplete, SameFiles DEF OpenStep, OpenFails, Kernel!Fail
<1>2. CASE AccessStep
  <2>1. PICK fd \in Fds :
          \/ ReadDirect(fd) \/ FailDirect(fd)
          \/ NoDescriptor(fd) \/ ReadCopy(fd) \/ AccessFails(fd) \/ FailsAtStart(fd)
          \/ \E v \in Values : WriteDirect(fd, v) \/ WriteCopy(fd, v)
          \/ SeekEnd(fd) \/ \E offset \in Kernel!Offsets : Seek(fd, offset)
    BY <1>2 DEF AccessStep
  <2>2. CASE ReadDirect(fd) \/ FailDirect(fd) \/ NoDescriptor(fd) \/ FailsAtStart(fd)
    BY <2>2, SameFiles
       DEF ReadDirect, Kernel!Read, FailDirect, Kernel!Fail, NoDescriptor, FailsAtStart,
           Exit, kernel
  <2>3. CASE ReadCopy(fd) \/ AccessFails(fd)
    BY <2>3, SameFiles DEF ReadCopy, AccessFails
  <2>4. CASE \E v \in Values : WriteDirect(fd, v) \/ WriteCopy(fd, v)
    BY <2>4, WriteDirectComplete, WriteCopyComplete
  <2>5. CASE SeekEnd(fd) \/ \E offset \in Kernel!Offsets : Seek(fd, offset)
    BY <2>5, SameFiles DEF SeekEnd, Seek, Kernel!SeekEnd, Kernel!Seek
  <2> QED
    BY <2>1, <2>2, <2>3, <2>4, <2>5
<1>3. CASE FlushStep
  BY <1>3, FlushComplete, SameFiles
     DEF FlushStep, SyncDirect, CloseDirect, FlushExits, Exit, kernel, Kernel!Sync, Kernel!Close
<1>4. CASE CacheStep
  BY <1>4, CacheComplete
<1>5. CASE Exited \/ UNCHANGED vars
  BY <1>5, SameFiles DEF Exited, vars, kernel
<1>6. QED
  BY <1>1, <1>2, <1>3, <1>4, <1>5 DEF Next

(***************************************************************************)
(* acl_write records what the source lacks: after any step, the bytes on   *)
(* the list written over the source give the copy if they did before,      *)
(* except for the steps that ListStaysComplete names.                      *)
(***************************************************************************)
THEOREM ListsStayComplete == Spec => ListStaysComplete
<1>1. LayerInv /\ LayerInv' /\ [Next]_vars =>
        [\/ \A f \in Files : ListComplete(f) => ListComplete(f)'
         \/ \E fd \in Fds :
              \/ PastCopy(fd) \/ LeftSlot(fd) \/ Appends(fd) \/ CutShort(fd)
              \/ \E f \in Files : TruncatesSource(fd, f)
         \/ \E f \in Files : InsertCutShort(f)
         \/ TruncatesLate]_vars
  BY CompleteStep DEF Keeps, Spoils
<1>2. QED
  BY <1>1, LayerInvariant, PTL DEF Spec, ListStaysComplete

-----------------------------------------------------------------------------
(* The layer and the kernel.                                               *)

LEMMA VisibleIs ==
  /\ \A f \in Files : Visible[f] = IF copy[f] # None THEN copy[f] ELSE src[f]
  /\ \A f \in Files : Visible'[f] = IF copy'[f] # None THEN copy'[f] ELSE src'[f]
  /\ Visible = [f \in Files |-> Visible[f]]
  /\ Visible' = [f \in Files |-> Visible'[f]]
BY DEF Visible, Copied

\* A step that changes what is visible of one file, or of none.
LEMMA VisibleChange ==
  ASSUME NEW f \in Files, NEW c,
         \A g \in Files : g # f => src'[g] = src[g] /\ copy'[g] = copy[g],
         c = IF copy'[f] # None THEN copy'[f] ELSE src'[f]
  PROVE  Visible' = [Visible EXCEPT ![f] = c]
<1>1. Visible'[f] = c
  BY VisibleIs
<1>2. \A g \in Files : g # f => Visible'[g] = Visible[g]
  BY VisibleIs
<1>3. QED
  BY <1>1, <1>2, VisibleIs

LEMMA VisibleSame ==
  ASSUME \A f \in Files :
           (IF copy'[f] # None THEN copy'[f] ELSE src'[f])
             = IF copy[f] # None THEN copy[f] ELSE src[f]
  PROVE  Visible' = Visible
<1>1. \A f \in Files : Visible'[f] = Visible[f]
  BY VisibleIs
<1>2. QED
  BY <1>1, VisibleIs

LEMMA VisibleKept ==
  ASSUME UNCHANGED <<src, copies>>
  PROVE  Visible' = Visible
BY VisibleSame DEF copies

\* The two instances of PosixFiles speak of the same bytes and offsets.
LEMMA SameOperators ==
  /\ \A c, at, v : Abstract!Put(c, at, v) = Kernel!Put(c, at, v)
  /\ \A c, at : Abstract!ByteAt(c, at) = Kernel!ByteAt(c, at)
  /\ \A c, appends, at : Abstract!WriteOffset(c, appends, at) = Kernel!WriteOffset(c, appends, at)
  /\ Abstract!Offsets = Kernel!Offsets /\ Abstract!Modes = Kernel!Modes
BY DEF Abstract!Put, Kernel!Put, Abstract!Zero, Kernel!Zero, Abstract!ByteAt, Kernel!ByteAt,
       Abstract!WriteOffset, Kernel!WriteOffset, Abstract!Offsets, Kernel!Offsets,
       Abstract!Modes, Kernel!Modes

LEMMA SameMove ==
  ASSUME NEW fd \in Fds, NEW n, Kernel!MoveTo(fd, n)
  PROVE  Abstract!MoveTo(fd, n)
BY DEF Kernel!MoveTo, Abstract!MoveTo

\* The layer starts as the kernel does: no file has a copy.
LEMMA VisibleInit == Init => Abstract!Init
<1> SUFFICES ASSUME Init PROVE Abstract!Init
  OBVIOUS
<1>1. /\ src \in [Files -> {None, <<Kernel!Zero>>}]
      /\ opened = [fd \in Fds |-> None] /\ result = "ok"
      /\ copy = [f \in Files |-> None]
  BY DEF Init, Kernel!Init
<1>2. Visible \in [Files -> {None, <<Kernel!Zero>>}]
  BY <1>1 DEF Visible, Copied
<1>3. QED
  BY <1>1, <1>2 DEF Abstract!Init, Abstract!Zero, Kernel!Zero

\* The exceptions of Transparent that a descriptor accounts for.
Betrays(fd) ==
  \/ PastCopy(fd) \/ LeftSlot(fd) \/ Appends(fd) \/ SeeksShort(fd)
  \/ AccessFails(fd)
  \/ \E f \in Files : TruncatesSource(fd, f)

LEMMA OpenVisible ==
  ASSUME LayerInv, NEW fd \in Fds, NEW f \in Files, NEW mode \in Kernel!Modes,
         Open(fd, f, mode) \/ OpenCopyFails(fd, f, mode) \/ OpenForeign(fd, f, mode)
  PROVE  Abstract!Next \/ Betrays(fd)
<1>1. /\ Kernel!Open(fd, f, mode)
      /\ copy \in [Files -> Contents \cup {None}]
  BY DEF Open, OpenCopyFails, OpenForeign, LayerInv, TypeOK
<1>2. /\ src'[f] = IF mode \in {"create", "truncate"} THEN <<>> ELSE src[f]
      /\ \A g \in Files : g # f => src'[g] = src[g]
      /\ mode = "create" <=> src[f] = None
      /\ opened[fd] = None /\ result' = "ok"
      /\ opened' = [opened EXCEPT ![fd] = [file |-> f, offset |-> 0, appends |-> mode = "append"]]
  BY <1>1, OpenIs
<1>3. /\ \A g \in Files : g # f => copy'[g] = copy[g]
      /\ copy'[f] = copy[f] \/ Open(fd, f, mode)
      /\ Open(fd, f, mode) =>
           copy'[f] = IF Copied(f) /\ mode = "truncate" THEN <<>> ELSE copy[f]
  BY <1>1 DEF Open, OpenCopyFails, OpenForeign, copies
<1>4. CASE Copied(f) /\ mode = "truncate" /\ ~Open(fd, f, mode)
  BY <1>4 DEF TruncatesSource, Betrays
<1>5. CASE ~(Copied(f) /\ mode = "truncate" /\ ~Open(fd, f, mode))
  <2> DEFINE c == IF mode \in {"create", "truncate"} THEN <<>> ELSE Visible[f]
  <2>1. Visible[f] = None <=> src[f] = None
    BY VisibleIs, TypesOf DEF Copied
  <2>2. c = IF copy'[f] # None THEN copy'[f] ELSE src'[f]
    <3>1. CASE ~Copied(f)
      <4>1. copy'[f] = None /\ Visible[f] = src[f]
        BY <1>3, <3>1, VisibleIs DEF Copied
      <4> QED
        BY <1>2, <4>1
    <3>2. CASE Copied(f)
      <4>1. mode # "create" /\ Visible[f] = copy[f] /\ copy[f] # None
        BY <1>2, <3>2, TypesOf, VisibleIs DEF Copied
      <4>2. copy'[f] = IF mode = "truncate" THEN <<>> ELSE copy[f]
        BY <1>3, <1>5, <3>2
      <4> QED
        BY <4>1, <4>2, Empty
    <3> QED
      BY <3>1, <3>2
  <2>3. Visible' = [Visible EXCEPT ![f] = c]
    BY <1>2, <1>3, <2>2, VisibleChange
  <2>4. Abstract!Open(fd, f, mode)
    BY <1>2, <2>1, <2>3 DEF Abstract!Open
  <2> QED
    BY <2>4, SameOperators DEF Abstract!Next
<1>6. QED
  BY <1>4, <1>5

LEMMA FailVisible ==
  ASSUME Kernel!Fail, UNCHANGED copies
  PROVE  Abstract!Next
BY VisibleKept DEF Kernel!Fail, Abstract!Fail, Abstract!Next

\* A call goes to the source of a file that has a copy.
LEMMA DirectIs ==
  ASSUME LayerInv, NEW fd \in Fds, opened[fd] # None, Copied(opened[fd].file),
         ReadDirect(fd) \/ \E v \in Values : WriteDirect(fd, v)
  PROVE  PastCopy(fd)
<1>1. ~Cached(fd)
  BY DEF ReadDirect, WriteDirect
<1>2. ASSUME OwnSlot(fd) PROVE attaching = opened[fd].file
  <2>1. slot[fd] # None /\ slot[fd].path = opened[fd].file /\ ~slot[fd].entry
    BY <1>1, <1>2 DEF OwnSlot, Cached
  <2> QED
    BY <2>1 DEF LayerInv, SlotInv
<1>3. QED
  BY <1>2 DEF PastCopy

LEMMA ReadVisible ==
  ASSUME LayerInv, NEW fd \in Fds, ReadDirect(fd) \/ ReadCopy(fd)
  PROVE  Abstract!Next \/ Betrays(fd)
<1> DEFINE f  == opened[fd].file
           at == opened[fd].offset
           byte == Abstract!ByteAt(Visible[f], at)
<1>1. /\ opened[fd] # None /\ UNCHANGED <<src, copies>>
      /\ f \in Files /\ at \in 0 .. MaxLen
  <2>1. opened[fd] # None /\ UNCHANGED <<src, copies>>
    BY DEF ReadDirect, Kernel!Read, ReadCopy, UsesCopy
  <2> QED
    BY <2>1, TypesOf
<1>2. Visible' = Visible
  BY <1>1, VisibleKept
<1>3. ASSUME result' = byte, Kernel!MoveTo(fd, IF byte = "eof" THEN at ELSE at + 1)
      PROVE  Abstract!Next
  <2>1. Abstract!MoveTo(fd, IF byte = "eof" THEN at ELSE at + 1)
    BY <1>3, SameMove
  <2>2. Abstract!Read(fd)
    BY <1>1, <1>2, <1>3, <2>1 DEF Abstract!Read
  <2> QED
    BY <2>2 DEF Abstract!Next
<1>4. CASE ReadDirect(fd)
  <2>1. CASE Copied(f)
    BY <1>1, <1>4, <2>1, DirectIs DEF Betrays
  <2>2. CASE ~Copied(f)
    <3>1. Visible[f] = src[f]
      BY <1>1, <2>2, VisibleIs DEF Copied
    <3>2. byte = Kernel!ByteAt(src[f], at)
      BY <3>1, SameOperators
    <3>3. result' = byte /\ Kernel!MoveTo(fd, IF byte = "eof" THEN at ELSE at + 1)
      BY <1>4, <3>2 DEF ReadDirect, Kernel!Read
    <3> QED
      BY <1>3, <3>3
  <2> QED
    BY <2>1, <2>2
<1>5. CASE ReadCopy(fd)
  <2>1. CASE ~OwnSlot(fd)
    BY <1>5, <2>1 DEF LeftSlot, Accesses, ReadCopy, Betrays
  <2>2. CASE OwnSlot(fd)
    <3>1. Path(fd) = f /\ Copied(f)
      BY <1>5, <2>2, TypesOf DEF OwnSlot, Path, ReadCopy, UsesCopy
    <3>2. Visible[f] = copy[Path(fd)]
      BY <1>1, <3>1, VisibleIs DEF Copied
    <3>3. byte = Kernel!ByteAt(copy[Path(fd)], at)
      BY <3>2, SameOperators
    <3>4. result' = byte /\ Kernel!MoveTo(fd, at + (IF byte = "eof" THEN 0 ELSE 1))
      BY <1>5, <3>3 DEF ReadCopy, Advance, Offset
    <3> HIDE DEF byte
    <3>5. at + (IF byte = "eof" THEN 0 ELSE 1) = IF byte = "eof" THEN at ELSE at + 1
      BY <1>1
    <3>6. Kernel!MoveTo(fd, IF byte = "eof" THEN at ELSE at + 1)
      BY <3>4, <3>5
    <3> QED
      BY <1>3, <3>4, <3>6
  <2> QED
    BY <2>1, <2>2
<1>6. QED
  BY <1>4, <1>5

LEMMA WriteVisible ==
  ASSUME LayerInv, NEW fd \in Fds, NEW v \in Values, WriteDirect(fd, v) \/ WriteCopy(fd, v)
  PROVE  Abstract!Next \/ Betrays(fd)
<1> DEFINE f  == opened[fd].file
           at == Abstract!WriteOffset(Visible[f], opened[fd].appends, opened[fd].offset)
<1>1. /\ opened[fd] # None /\ f \in Files /\ opened[fd].offset \in 0 .. MaxLen
      /\ result' = "ok"
  <2>1. opened[fd] # None /\ result' = "ok"
    BY DEF WriteDirect, Kernel!Write, WriteCopy, UsesCopy
  <2> QED
    BY <2>1, TypesOf
<1>2. ASSUME at < MaxLen, Kernel!MoveTo(fd, at + 1),
             Visible' = [Visible EXCEPT ![f] = Kernel!Put(Visible[f], at, v)]
      PROVE  Abstract!Next
  <2>1. Abstract!MoveTo(fd, at + 1)
    BY <1>2, SameMove
  <2>2. Visible' = [Visible EXCEPT ![f] = Abstract!Put(Visible[f], at, v)]
    BY <1>2, SameOperators
  <2>3. Abstract!Write(fd, v)
    BY <1>1, <1>2, <2>1, <2>2 DEF Abstract!Write
  <2> QED
    BY <2>3 DEF Abstract!Next
<1>3. CASE WriteDirect(fd, v)
  <2>1. CASE Copied(f)
    BY <1>1, <1>3, <2>1, DirectIs DEF Betrays
  <2>2. CASE ~Copied(f)
    <3> DEFINE on == Kernel!WriteOffset(src[f], opened[fd].appends, opened[fd].offset)
    <3>1. /\ on < MaxLen /\ Kernel!MoveTo(fd, on + 1)
          /\ src' = [src EXCEPT ![f] = Kernel!Put(src[f], on, v)]
          /\ \A g \in Files : g # f => src'[g] = src[g]
          /\ copy' = copy /\ src \in [Files -> Contents \cup {None}]
      BY <1>3, WriteIs DEF WriteDirect, copies, LayerInv, TypeOK
    <3>2. Visible[f] = src[f] /\ copy'[f] = None
      BY <1>1, <2>2, <3>1, VisibleIs DEF Copied
    <3>3. at = on
      BY <3>2, SameOperators
    <3> HIDE DEF on, at, f
    <3>4. src'[f] = Kernel!Put(Visible[f], at, v)
      BY <1>1, <3>1, <3>2, <3>3
    <3>5. Visible' = [Visible EXCEPT ![f] = Kernel!Put(Visible[f], at, v)]
      BY <1>1, <3>1, <3>2, <3>4, VisibleChange
    <3> QED
      BY <1>2, <3>1, <3>3, <3>5
  <2> QED
    BY <2>1, <2>2
<1>4. CASE WriteCopy(fd, v)
  <2> DEFINE on == Kernel!WriteOffset(copy[Path(fd)], slot[fd].flags = "append", Offset(fd))
  <2>1. UsesCopy(fd)
    BY <1>4 DEF WriteCopy
  <2>2. CASE ~OwnSlot(fd)
    BY <1>4, <2>1, <2>2 DEF LeftSlot, Accesses, Betrays
  <2>3. CASE slot[fd].flags = "append" /\ Offset(fd) # Len(copy[Path(fd)])
    BY <1>4, <2>1, <2>3 DEF Appends, Betrays
  <2>4. CASE OwnSlot(fd) /\ ~(slot[fd].flags = "append" /\ Offset(fd) # Len(copy[Path(fd)]))
    <3>1. /\ on < MaxLen
          /\ copy'[Path(fd)] = Kernel!Put(copy[Path(fd)], on, v) /\ copy'[Path(fd)] # None
          /\ \A g \in Files : g # Path(fd) => copy'[g] = copy[g]
          /\ Kernel!MoveTo(fd, Offset(fd) + 1) /\ UNCHANGED src /\ Copied(Path(fd))
      BY <1>4, WriteCopyIs
    <3>2. Path(fd) = f /\ (slot[fd].flags = "append") = opened[fd].appends
      BY <2>4 DEF OwnSlot, Path
    <3>3. Visible[f] = copy[Path(fd)]
      BY <1>1, <3>1, <3>2, VisibleIs DEF Copied
    <3>4. on = Offset(fd)
      BY <2>4 DEF Kernel!WriteOffset
    <3>5. at = on
      BY <3>2, <3>3, SameOperators DEF Offset
    <3> HIDE DEF on, at, f
    <3>6. Visible' = [Visible EXCEPT ![f] = Kernel!Put(Visible[f], at, v)]
      <4>1. /\ \A g \in Files : g # f => src'[g] = src[g] /\ copy'[g] = copy[g]
            /\ Kernel!Put(Visible[f], at, v) = IF copy'[f] # None THEN copy'[f] ELSE src'[f]
        BY <3>1, <3>2, <3>3, <3>5
      <4> QED
        BY <1>1, <4>1, VisibleChange
    <3> QED
      BY <1>2, <3>1, <3>4, <3>5, <3>6
  <2> QED
    BY <2>2, <2>3, <2>4
<1>5. QED
  BY <1>3, <1>4

LEMMA FlushVisible ==
  ASSUME LayerInv, NEW fd \in Fds,
         SyncDirect(fd) \/ SyncCopy(fd) \/ CloseDirect(fd) \/ CloseCopy(fd)
  PROVE  Abstract!Next
<1>1. Visible' = Visible
  <2>1. CASE SyncDirect(fd) \/ CloseDirect(fd)
    BY <2>1, VisibleKept DEF SyncDirect, CloseDirect, Kernel!Sync, Kernel!Close
  <2>2. CASE SyncCopy(fd) \/ CloseCopy(fd)
    <3>1. Cached(fd) /\ Flush(Path(fd)) /\ UNCHANGED copy
      BY <2>2 DEF SyncCopy, CloseCopy
    <3>2. Path(fd) \in Files /\ copy[Path(fd)] # None
      BY <3>1, TypesOf DEF Copied
    <3>3. \A g \in Files : g # Path(fd) => src'[g] = src[g]
      BY <3>1, <3>2, FlushIs DEF Copied
    <3> QED
      BY <3>1, <3>2, <3>3, VisibleSame
  <2> QED
    BY <2>1, <2>2
<1>2. CASE SyncDirect(fd) \/ SyncCopy(fd)
  <2>1. Abstract!Sync(fd)
    BY <1>1, <1>2 DEF SyncDirect, Kernel!Sync, SyncCopy, Abstract!Sync
  <2> QED
    BY <2>1 DEF Abstract!Next
<1>3. CASE CloseDirect(fd) \/ CloseCopy(fd)
  <2>1. Abstract!Close(fd)
    BY <1>1, <1>3 DEF CloseDirect, Kernel!Close, CloseCopy, Abstract!Close
  <2> QED
    BY <2>1 DEF Abstract!Next
<1>4. QED
  BY <1>2, <1>3

LEMMA SeekVisible ==
  ASSUME LayerInv, NEW fd \in Fds,
         SeekEnd(fd) \/ \E offset \in Kernel!Offsets : Seek(fd, offset)
  PROVE  Abstract!Next \/ Betrays(fd)
<1>1. ASSUME NEW offset, Kernel!Seek(fd, offset), UNCHANGED copies
      PROVE  Abstract!Seek(fd, offset)
  <2>1. opened[fd] # None /\ result' = "ok" /\ Abstract!MoveTo(fd, offset) /\ Visible' = Visible
    BY <1>1, SameMove, VisibleKept DEF Kernel!Seek
  <2> QED
    BY <2>1 DEF Abstract!Seek
<1>2. ASSUME NEW offset \in Kernel!Offsets, Seek(fd, offset) PROVE Abstract!Next
  BY <1>1, <1>2, SameOperators DEF Seek, Abstract!Next
<1>3. CASE SeekEnd(fd)
  <2>1. /\ opened[fd] # None /\ UNCHANGED copies
        /\ Kernel!Seek(fd, Len(src[opened[fd].file]))
    BY <1>3 DEF SeekEnd, Kernel!SeekEnd
  <2>2. CASE Len(Visible[opened[fd].file]) # Len(src[opened[fd].file])
    BY <1>3, <2>1, <2>2 DEF SeeksShort, Betrays
  <2>3. CASE Len(Visible[opened[fd].file]) = Len(src[opened[fd].file])
    <3>1. Abstract!SeekEnd(fd)
      BY <1>1, <2>1, <2>3 DEF Abstract!SeekEnd
    <3> QED
      BY <3>1 DEF Abstract!Next
  <2> QED
    BY <2>2, <2>3
<1>4. QED
  BY <1>2, <1>3

LEMMA CacheVisible ==
  ASSUME LayerInv, CacheStep
  PROVE  \/ UNCHANGED Abstract!fileVars \/ TruncatesLate
         \/ \E f \in Files : InsertCutShort(f) \/ LosesWrites(f)
<1>1. UNCHANGED <<src, opened, result>>
  BY DEF CacheStep, Attach, Insert, InsertCutShort, InsertAs, Evict, kernel
<1>2. ASSUME Visible' = Visible PROVE UNCHANGED Abstract!fileVars
  BY <1>1, <1>2 DEF Abstract!fileVars
<1>3. ASSUME NEW f \in Files, Insert(f) PROVE Visible' = Visible
  <2>1. /\ copy[f] = None /\ src[f] # None /\ copy' = [copy EXCEPT ![f] = src[f]]
        /\ copy \in [Files -> Contents \cup {None}]
    BY <1>3 DEF Insert, InsertAs, Copied, LayerInv, TypeOK
  <2> QED
    BY <1>1, <2>1, VisibleSame
<1>4. ASSUME NEW f \in Files, Evict(f) PROVE Visible' = Visible \/ LosesWrites(f)
  <2>1. /\ copy[f] # None /\ copy' = [copy EXCEPT ![f] = None]
        /\ copy \in [Files -> Contents \cup {None}]
    BY <1>4 DEF Evict, Copied, LayerInv, TypeOK
  <2>2. CASE copy[f] = src[f]
    BY <1>1, <2>1, <2>2, VisibleSame
  <2>3. CASE copy[f] # src[f]
    BY <1>4, <2>3 DEF LosesWrites
  <2> QED
    BY <2>2, <2>3
<1>5. ASSUME Attach PROVE Visible' = Visible \/ TruncatesLate
  <2>1. attaching # None
    BY <1>5 DEF Attach
  <2> QED
    BY <1>1, <1>5, <2>1, VisibleSame DEF TruncatesLate
<1>6. QED
  BY <1>2, <1>3, <1>4, <1>5 DEF CacheStep

LEMMA TransparentStep ==
  LayerInv /\ [Next]_vars =>
    \/ Abstract!Next \/ UNCHANGED Abstract!fileVars
    \/ TruncatesLate \/ \E fd \in Fds : Betrays(fd)
    \/ \E f \in Files : InsertCutShort(f) \/ LosesWrites(f)
<1> SUFFICES ASSUME LayerInv, [Next]_vars
             PROVE  \/ Abstract!Next \/ UNCHANGED Abstract!fileVars
                    \/ TruncatesLate \/ \E fd \in Fds : Betrays(fd)
                    \/ \E f \in Files : InsertCutShort(f) \/ LosesWrites(f)
  OBVIOUS
<1>1. ASSUME UNCHANGED <<kernel, copies>> PROVE UNCHANGED Abstract!fileVars
  BY <1>1, VisibleKept DEF kernel, Abstract!fileVars
<1>2. CASE OpenStep
  BY <1>2, OpenVisible, FailVisible DEF OpenStep, OpenFails
<1>3. CASE AccessStep
  <2>1. PICK fd \in Fds :
          \/ ReadDirect(fd) \/ FailDirect(fd)
          \/ NoDescriptor(fd) \/ ReadCopy(fd) \/ AccessFails(fd) \/ FailsAtStart(fd)
          \/ \E v \in Values : WriteDirect(fd, v) \/ WriteCopy(fd, v)
          \/ SeekEnd(fd) \/ \E offset \in Kernel!Offsets : Seek(fd, offset)
    BY <1>3 DEF AccessStep
  <2>2. CASE ReadDirect(fd) \/ ReadCopy(fd)
    BY <2>2, ReadVisible
  <2>3. CASE FailDirect(fd)
    BY <2>3, FailVisible DEF FailDirect
  <2>4. CASE NoDescriptor(fd) \/ FailsAtStart(fd)
    BY <1>1, <2>4 DEF NoDescriptor, FailsAtStart, Exit
  <2>5. CASE AccessFails(fd)
    BY <2>5 DEF Betrays
  <2>6. CASE \E v \in Values : WriteDirect(fd, v) \/ WriteCopy(fd, v)
    BY <2>6, WriteVisible
  <2>7. CASE SeekEnd(fd) \/ \E offset \in Kernel!Offsets : Seek(fd, offset)
    BY <2>7, SeekVisible
  <2> QED
    BY <2>1, <2>2, <2>3, <2>4, <2>5, <2>6, <2>7
<1>4. CASE FlushStep
  BY <1>1, <1>4, FlushVisible DEF FlushStep, FlushExits, Exit
<1>5. CASE CacheStep
  BY <1>5, CacheVisible
<1>6. CASE Exited \/ UNCHANGED vars
  BY <1>1, <1>6 DEF Exited, vars
<1>7. QED
  BY <1>2, <1>3, <1>4, <1>5, <1>6 DEF Next

(***************************************************************************)
(* A program cannot tell acl.c from the kernel, however copies come and go *)
(* between its calls, but for the steps that Transparent names: a step of  *)
(* the layer is one call of PosixFiles on what is visible, or none (and it *)
(* starts as PosixFiles does: VisibleInit).                                *)
(***************************************************************************)
THEOREM LayerTransparent == Spec => Transparent
<1>1. LayerInv /\ [Next]_vars =>
        [\/ Abstract!Next
         \/ \E fd \in Fds :
              \/ PastCopy(fd) \/ LeftSlot(fd) \/ Appends(fd) \/ SeeksShort(fd)
              \/ AccessFails(fd)
              \/ \E f \in Files : TruncatesSource(fd, f)
         \/ TruncatesLate
         \/ \E f \in Files : InsertCutShort(f) \/ LosesWrites(f)]_(Abstract!fileVars)
  BY TransparentStep DEF Betrays
<1>2. QED
  BY <1>1, LayerInvariant, PTL DEF Spec, Transparent
=============================================================================
