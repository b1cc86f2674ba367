--------------------------- MODULE AclCacheProofs ---------------------------
(***************************************************************************)
(* Proofs about the cache, the table and the copies of Acl for every value *)
(* of the constants, from the invariant of AclProofs.                      *)
(***************************************************************************)
EXTENDS AclProofs, FiniteSetTheorems

-----------------------------------------------------------------------------
(* The invariants that rest on CoreInv.                                    *)

\* c_size is the sum of ce_size over the entries of the priority queue: `total`
\* gives the sum over every part of the queue.
IsTotal(total, S) ==
  /\ total[{}] = 0
  /\ \A R \in SUBSET S : \A e \in R : total[R] = ceSize[e] + total[R \ {e}]

SizeInv ==
  /\ IsFiniteSet(priority)
  /\ cSize <= Capacity
  /\ \E total \in [SUBSET priority -> Nat] :
       IsTotal(total, priority) /\ cSize = total[priority]

\* The slots inserted_cache has yet to come to, and those acl_close gives up.
Pending(fd) == lpc \in {"create", "copy"} \/ (lpc = "attach" /\ lscan <= fd)
Closing(t, fd) ==
  pc[t] \in {"flush", "pop"} /\ call[t].op = "close" /\ Slot(t) = fd

\* What a slot points to at every point of an insertion or an eviction: the entry
\* the cache holds for its path, or the victim, or not yet the new entry.
TableInv ==
  /\ lpc \notin {"detach", "detach_entry", "attach"} => lscan = 0
  /\ \A fd \in Fds :
       /\ meEntry[fd] = None => meDesc[fd] = None
       /\ mePath[fd] = None => meEntry[fd] = None
       /\ mePath[fd] # None /\ fd \notin staleOpen =>
            \/ meEntry[fd] = lookup[mePath[fd]]
            \/ HasVictim /\ meEntry[fd] = lentry /\ ceSource[lentry] = mePath[fd]
            \/ Pending(fd) /\ mePath[fd] = lpath /\ meEntry[fd] = None

\* No two files have their copies under one name: get_cache_path makes the name
\* by replacing every '/' by '_', so it is true of files whose paths do not differ
\* in a '/' and a '_' only (Paths!CopiesSideBySide).
DistinctCopies == \A f, g \in Files : CachePath[f] = CachePath[g] => f = g

\* A file in the cache has a copy as soon as copy_file has created it, and a slot
\* that has the current entry has a descriptor, except while it is repaired.
RepairInv ==
  /\ \A f \in Files : lookup[f] # None =>
       link[CachePath[f]] # None \/ (lpc = "create" /\ lpath = f)
  /\ \A fd \in Fds :
       /\ meEntry[fd] # None /\ meDesc[fd] = None
       /\ mePath[fd] # None /\ meEntry[fd] = lookup[mePath[fd]]
       => \/ \E t \in Threads : Closing(t, fd)
          \/ Pending(fd) /\ lentry = meEntry[fd]

\* The names of copies, and which copies are complete.
Copying(i) == lpc = "copy" /\ i = link[CachePath[lpath]]

CopyInv ==
  /\ \A f \in Files : link[CachePath[f]] # None =>
       /\ \E e \in live : ceSource[e] = f
       /\ ~(lpc = "create" /\ lpath = f)
       /\ ~(lpc = "free" /\ ceSource[lentry] = f)
       /\ Complete(link[CachePath[f]]) \/ Copying(link[CachePath[f]])
  /\ \A f, g \in Files :
       link[CachePath[f]] # None /\ link[CachePath[f]] = link[CachePath[g]]
         => f = g
  /\ lpc = "copy" => link[CachePath[lpath]] # None
  /\ \A fd \in Fds : meDesc[fd] # None =>
       \/ Complete(meDesc[fd])
       \/ Copying(meDesc[fd]) /\ meEntry[fd] = lentry

\* The application only reads: then every file has its first contents for good,
\* no extent is ever listed, and a copy holds those contents, nothing yet, or no more
\* of them.
ReadOnly == "write" \notin Ops

FirstValues(i, f) ==
  \A b \in BlockSet : data[i][b] \in {<<f, 0>>, None, Absent}

ReadInv ==
  /\ \A e \in Entries : ceExtents[e] = {}
  /\ \A t \in Threads : call[t].op # "write"
  /\ \A f \in Files : \A b \in BlockSet : src[f][b] = <<f, 0>>
  /\ \A f \in Files : \A b \in BlockSet : latest[f][b] = 0
  /\ \A f \in Files :
       link[CachePath[f]] # None => FirstValues(link[CachePath[f]], f)
  /\ \A fd \in Fds : meDesc[fd] # None /\ fd \notin staleOpen =>
       FirstValues(meDesc[fd], mePath[fd])

\* Every descriptor comes from acl_open: then the slot of an open descriptor is
\* of the file it is open on, once acl_open has filled it and until acl_close has
\* emptied it.
OwnOpens == "open_foreign" \notin Ops

FileInv ==
  \A fd \in Fds : fdFile[fd] # None =>
    \/ mePath[fd] = fdFile[fd]
    \/ \E t \in Threads : Slot(t) = fd /\ pc[t] \in {"retrieve", "map", "close"}

\* The cache has room for the files of any set together: nothing is ever evicted.
IsFileTotal(total) ==
  /\ total[{}] = 0
  /\ \A R \in SUBSET Files : \A f \in R : total[R] = Size[f] + total[R \ {f}]

FileTotals == {total \in [SUBSET Files -> 0 .. Capacity] : IsFileTotal(total)}
RoomForAll == FileTotals # {}

Cached == {f \in Files : lookup[f] # None}

RoomInv ==
  /\ ~HasVictim
  /\ \A total \in FileTotals : cSize = total[Cached]

\* Then a slot that has an entry has the current one for good, and open the copy.
StayInv ==
  /\ \A fd \in Fds :
       /\ meEntry[fd] # None =>
            mePath[fd] # None /\ meEntry[fd] = lookup[mePath[fd]]
       /\ meDesc[fd] # None => meDesc[fd] = link[CachePath[mePath[fd]]]
  /\ \A t \in Threads : pc[t] = "map" /\ call[t].entry # None =>
       call[t].entry = lookup[fdFile[Slot(t)]]

\* copy_file_interval copies every interval as a whole: true of blocks that are
\* no neighbours, or far enough from the start of the file.
WholeIntervals ==
  \A S \in SUBSET BlockSet :
    S # {} => CopiedByInterval(LowestRun(S)) = LowestRun(S)

\* A file is open once at a time, and a descriptor is used by one call at a time.
UsedAlone ==
  /\ \A fd, gd \in Fds : fdFile[fd] # None /\ fdFile[fd] = fdFile[gd] => fd = gd
  /\ \A t, u \in Threads :
       pc[t] # "idle" /\ pc[u] # "idle" /\ Slot(t) = Slot(u) => t = u

\* Where the writes are: what is listed for write-back is the last write, and in
\* the copy; the last write of everything else is in the source.  Something is listed
\* only while the file is open on a descriptor that has the entry, with no call that
\* goes past the copy.
Older(f, b) == {f} \X (0 .. latest[f][b])
Listed(f) == IF lookup[f] = None THEN {} ELSE ceExtents[lookup[f]]
PastCopy(t) == pc[t] \in {"retrieve", "map", "request", "direct", "close"}

WrittenTo(f, b) ==
  /\ latest[f][b] <= version
  /\ src[f][b] \in Older(f, b)
  /\ link[CachePath[f]] # None =>
       data[link[CachePath[f]]][b] \in Older(f, b) \cup {None, Absent}
  /\ b \notin Listed(f) => src[f][b] = <<f, latest[f][b]>>
  /\ b \in Listed(f) => /\ link[CachePath[f]] # None
                        /\ data[link[CachePath[f]]][b] = <<f, latest[f][b]>>

InUse(f) ==
  /\ ~(lpc \in {"create", "copy"} /\ lpath = f)
  /\ \E fd \in Fds : fdFile[fd] = f /\ meEntry[fd] = lookup[f]
  /\ \A t \in Threads : PastCopy(t) => fdFile[Slot(t)] # f

WriteInv ==
  \A f \in Files : /\ \A b \in BlockSet : WrittenTo(f, b)
                   /\ Listed(f) # {} => InUse(f)

-----------------------------------------------------------------------------
(* c_size is the sum of the sizes of what c_priority holds.                *)

\* MapThenSumSet over a finite set is that sum: a smallest part where the two
\* differ is not empty, and loses an element.
LEMMA SumIsTotal ==
  ASSUME NEW S, IsFiniteSet(S), S \subseteq Entries, ceSize \in [Entries -> Nat],
         NEW total \in [SUBSET S -> Nat], IsTotal(total, S)
  PROVE  MapThenSumSet(LAMBDA e : ceSize[e], S) = total[S]
  <1> DEFINE body(g) == [R \in SUBSET S |->
               IF R = {} THEN 0
               ELSE ceSize[CHOOSE x \in R : TRUE] + g[R \ {CHOOSE x \in R : TRUE}]]
             iter == CHOOSE g : g = body(g)
             Differ == {n \in Nat : \E R \in SUBSET S :
                          Cardinality(R) = n /\ iter[R] # total[R]}
  <1>1. MapThenSumSet(LAMBDA e : ceSize[e], S) = iter[S]
    BY DEF MapThenSumSet, MapThenFoldSet
  <1>2. total = body(total)
    BY DEF IsTotal
  <1>3. iter = body(iter)
    BY <1>2
  <1> HIDE DEF iter
  <1>4. iter[{}] = 0
    BY <1>3
  <1>5. ASSUME NEW R \in SUBSET S, R # {}
        PROVE  \E e \in R : iter[R] = ceSize[e] + iter[R \ {e}]
    BY <1>3, <1>5
  <1>6. \A R \in SUBSET S : IsFiniteSet(R) /\ Cardinality(R) \in Nat
    BY FS_Subset, FS_CardinalityType
  <1>7. Differ = {}
    <2> SUFFICES ASSUME Differ # {} PROVE FALSE
      OBVIOUS
    <2>1. PICK n \in Differ : \A m \in Differ : ~ (<<m, n>> \in OpToRel(<, Nat))
      <3>1. Differ \subseteq Nat
        OBVIOUS
      <3> HIDE DEF Differ
      <3> QED
        BY <3>1, NatLessThanWellFounded, WFMin
    <2>2. \A m \in Differ : m \in Nat /\ ~ (m < n)
      BY <2>1, Zenon DEF OpToRel
    <2>3. n \in Nat /\ \E R \in SUBSET S : Cardinality(R) = n /\ iter[R] # total[R]
      OBVIOUS
    <2>4. PICK R \in SUBSET S : Cardinality(R) = n /\ iter[R] # total[R]
      BY <2>3
    <2>5. R # {}
      BY <2>4, <1>4 DEF IsTotal
    <2>6. PICK e \in R : iter[R] = ceSize[e] + iter[R \ {e}]
      BY <1>5, <2>5
    <2>7. R \ {e} \in SUBSET S /\ Cardinality(R \ {e}) = n - 1
      BY <1>6, <2>4, <2>6, FS_RemoveElement
    <2>8. n - 1 \in Nat /\ n - 1 < n
      BY <1>6, <2>3, <2>7
    <2>9. n - 1 \notin Differ
      <3> HIDE DEF Differ
      <3> QED
        BY <2>2, <2>8
    <2>10. iter[R \ {e}] = total[R \ {e}]
      BY <2>7, <2>8, <2>9
    <2> QED
      BY <2>4, <2>6, <2>10 DEF IsTotal
  <1> QED
    BY <1>1, <1>6, <1>7

\* Initially the queue is empty, and so is the sum.
LEMMA SizeInit == Init => SizeInv
  <1> SUFFICES ASSUME Init PROVE SizeInv
    OBVIOUS
  <1> DEFINE total == [R \in SUBSET {} |-> 0]
  <1>1. priority = {} /\ cSize = 0 /\ cSize <= Capacity
    BY AclAssumption DEF Init
  <1>2. total \in [SUBSET priority -> Nat] /\ IsTotal(total, priority)
    BY <1>1 DEF IsTotal
  <1>3. total[priority] = 0
    BY <1>1
  <1> HIDE DEF total
  <1> QED
    BY <1>1, <1>2, <1>3, FS_EmptySet DEF SizeInv

\* A step that neither changes the queue nor the size of what it holds.
LEMMA SizeSame ==
  ASSUME SizeInv, UNCHANGED <<priority, cSize>>,
         \A e \in priority : ceSize'[e] = ceSize[e]
  PROVE  SizeInv'
  <1>1. PICK total \in [SUBSET priority -> Nat] :
          IsTotal(total, priority) /\ cSize = total[priority]
    BY DEF SizeInv
  <1>2. IsTotal(total, priority)'
    BY <1>1 DEF IsTotal
  <1> QED
    BY <1>1, <1>2 DEF SizeInv

\* An eviction gives up what the victim counted for ...
LEMMA SizeEvict ==
  ASSUME CoreInv, SizeInv, NEW v \in Entries, EvictVictim(v)
  PROVE  SizeInv'
  <1>1. PICK total \in [SUBSET priority -> Nat] :
          IsTotal(total, priority) /\ cSize = total[priority]
    BY DEF SizeInv
  <1>2. /\ v \in priority /\ priority' = priority \ {v}
        /\ cSize' = cSize - ceSize[v] /\ ceSize' = ceSize
    BY DEF EvictVictim, GivesSpaceBack, entries
  <1>3. ceSize[v] \in Nat /\ Capacity \in Nat
    BY AclAssumption DEF CoreInv, TypeOK
  <1>a. PICK rest : rest = [R \in SUBSET (priority \ {v}) |-> total[R]]
    OBVIOUS
  <1>4. total[priority] = ceSize[v] + total[priority \ {v}]
    BY <1>1, <1>2 DEF IsTotal
  <1>5. rest \in [SUBSET priority' -> Nat] /\ rest[priority'] = total[priority \ {v}]
    BY <1>1, <1>2, <1>a
  <1>6. IsTotal(rest, priority)'
    BY <1>1, <1>2, <1>a DEF IsTotal
  <1>7. total[priority \ {v}] \in Nat
    BY <1>1
  <1>8. cSize' = rest[priority'] /\ cSize' <= cSize
    BY <1>1, <1>2, <1>3, <1>4, <1>5, <1>7
  <1>9. IsFiniteSet(priority') /\ cSize' <= Capacity
    <2>1. cSize \in Int /\ cSize' \in Int
      BY <1>2, <1>3 DEF CoreInv, TypeOK
    <2> QED
      BY <1>2, <1>3, <1>8, <2>1, FS_RemoveElement DEF SizeInv
  <1> QED
    BY <1>5, <1>6, <1>8, <1>9 DEF SizeInv

\* ... and an insertion adds what fits.
LEMMA SizeInsert ==
  ASSUME CoreInv, SizeInv, NEW e \in Entries, InsertEntry(e)
  PROVE  SizeInv'
  <1>1. PICK total \in [SUBSET priority -> Nat] :
          IsTotal(total, priority) /\ cSize = total[priority]
    BY DEF SizeInv
  <1> DEFINE n == Size[lpath]
  <1>2. n \in Nat
    BY AclAssumption DEF CoreInv, EntryInv, InsertEntry
  <1>3. /\ priority' = priority \cup {e} /\ e \notin priority
        /\ ceSize' = [ceSize EXCEPT ![e] = n] /\ ceSize \in [Entries -> Nat]
        /\ cSize' = cSize + n /\ cSize + n <= Capacity
    BY DEF InsertEntry, Fits, CoreInv, TypeOK, EntryInv
  <1> HIDE DEF n
  <1>a. PICK more : more = [R \in SUBSET (priority \cup {e}) |->
                              IF e \in R THEN n + total[R \ {e}] ELSE total[R]]
    OBVIOUS
  <1>4. more \in [SUBSET priority' -> Nat]
    <2>1. ASSUME NEW R \in SUBSET (priority \cup {e})
          PROVE  more[R] \in Nat
      <3>1. CASE e \in R
        <4>1. R \ {e} \in SUBSET priority
          OBVIOUS
        <4> QED
          BY <1>1, <1>2, <1>a, <3>1, <4>1
      <3>2. CASE e \notin R
        BY <1>1, <1>a, <3>2
      <3> QED
        BY <3>1, <3>2
    <2> QED
      BY <1>3, <1>a, <2>1
  <1>5. IsTotal(more, priority)'
    <2>1. more[{}] = 0
      BY <1>1, <1>a DEF IsTotal
    <2>2. ASSUME NEW R \in SUBSET (priority \cup {e}), NEW x \in R
          PROVE  more[R] = ceSize'[x] + more[R \ {x}]
      <3>1. CASE e \notin R
        BY <1>1, <1>3, <1>a, <3>1 DEF IsTotal, CoreInv, TypeOK
      <3>2. CASE x = e
        BY <1>1, <1>3, <1>a, <3>2 DEF IsTotal, CoreInv, TypeOK
      <3>3. CASE e \in R /\ x # e
        <4>1. /\ R \ {e} \in SUBSET priority /\ x \in R \ {e}
              /\ (R \ {x}) \ {e} = (R \ {e}) \ {x} /\ e \in R \ {x}
              /\ R \ {x} \in SUBSET (priority \cup {e})
          BY <3>3
        <4>2. total[R \ {e}] = ceSize[x] + total[(R \ {e}) \ {x}]
          BY <1>1, <4>1 DEF IsTotal
        <4>3. more[R] = n + total[R \ {e}]
          BY <1>a, <3>3
        <4>4. more[R \ {x}] = n + total[(R \ {e}) \ {x}]
          BY <1>a, <4>1
        <4>5. x \in Entries /\ ceSize'[x] = ceSize[x] /\ ceSize[x] \in Nat
          BY <1>3, <3>3, <4>1 DEF CoreInv, TypeOK
        <4>6. total[(R \ {e}) \ {x}] \in Nat
          BY <1>1, <4>1
        <4> QED
          BY <1>2, <4>2, <4>3, <4>4, <4>5, <4>6
      <3> QED
        BY <3>1, <3>2, <3>3
    <2> QED
      BY <1>3, <2>1, <2>2 DEF IsTotal
  <1>6. more[priority'] = cSize'
    <2>1. (priority \cup {e}) \ {e} = priority
      BY <1>3
    <2>2. more[priority \cup {e}] = n + total[priority]
      BY <1>a, <2>1
    <2>3. cSize \in Nat
      BY <1>1
    <2> QED
      BY <1>1, <1>2, <1>3, <2>2, <2>3
  <1>7. IsFiniteSet(priority')
    BY <1>3, FS_AddElement DEF SizeInv
  <1> QED
    BY <1>3, <1>4, <1>5, <1>6, <1>7 DEF SizeInv

\* Every step keeps the sum.
LEMMA SizeStep == CoreInv /\ SizeInv /\ [Next]_vars => SizeInv'
  <1> SUFFICES ASSUME CoreInv, SizeInv, [Next]_vars PROVE SizeInv'
    OBVIOUS
  <1>1. ASSUME UNCHANGED <<priority, cSize, ceSize>> PROVE SizeInv'
    BY <1>1, SizeSame
  <1>2. ASSUME NEW t \in Threads, ThreadStep(t) PROVE SizeInv'
    BY <1>2, <1>1 DEF ThreadStep, entries, cache
  <1>3. CASE LookaheadStep
    <2>1. CASE FreeEntry
      <3>1. lentry \notin priority
        BY <2>1 DEF FreeEntry, CoreInv, EntryInv, HasVictim, Evicting
      <3> QED
        BY <2>1, <3>1, SizeSame DEF FreeEntry, cache, CoreInv, TypeOK
    <2>2. CASE DetachSkip \/ DetachLock \/ DetachEntry \/ Unlink
      BY <2>2, <1>1 DEF DetachSkip, DetachLock, DetachEntry, Unlink, entries, cache
    <2>3. ASSUME NEW f \in Files, InsertBegin(f) PROVE SizeInv'
      BY <2>3, <1>1 DEF InsertBegin, entries
    <2>4. ASSUME NEW i \in Inodes, CopyCreate(i) PROVE SizeInv'
      BY <2>4, <1>1 DEF CopyCreate, entries, cache
    <2>5. CASE CopyBlock \/ CopyDone \/ CopyCut \/ Attach
      BY <2>5, <1>1 DEF CopyBlock, CopyDone, CopyCut, Attach, entries, cache
    <2>6. ASSUME NEW why, Stop(why) PROVE SizeInv'
      BY <2>6, <1>1 DEF Stop, entries, cache
    <2> QED
      BY <1>3, <2>1, <2>2, <2>3, <2>4, <2>5, <2>6, SizeEvict, SizeInsert,
         LookaheadActions, Zenon
  <1>4. CASE UNCHANGED vars
    BY <1>4, <1>1 DEF vars, entries, cache
  <1> QED
    BY <1>2, <1>3, <1>4 DEF Next, Ended

LEMMA SizeInvariant == Spec => []SizeInv
  BY CoreInvariant, SizeInit, SizeStep, PTL DEF Spec

\* The lookup table, the priority queue and c_size agree at every point, within
\* an insertion or an eviction too: all three are adapted under c_mutex together.
THEOREM CacheAgrees == Spec => []CacheConsistent
  <1>1. ASSUME CoreInv, SizeInv PROVE CacheConsistent
    <2> USE <1>1
    <2>1. priority = {e \in live : \E f \in Files : lookup[f] = e}
      <3>1. ASSUME NEW e \in priority PROVE e \in live /\ \E f \in Files : lookup[f] = e
        BY DEF CoreInv, EntryInv
      <3>2. ASSUME NEW e \in live, NEW f \in Files, lookup[f] = e PROVE e \in priority
        <4>1. ceSource[e] = f /\ e # None
          BY <3>2, AclAssumption DEF CoreInv, EntryInv, TypeOK
        <4> QED
          BY <3>2, <4>1 DEF CoreInv, EntryInv
      <3> QED
        BY <3>1, <3>2
    <2>2. cSize = MapThenSumSet(LAMBDA e : ceSize[e], priority)
      <3>1. PICK total \in [SUBSET priority -> Nat] :
              IsTotal(total, priority) /\ cSize = total[priority]
        BY DEF SizeInv
      <3>2. IsFiniteSet(priority) /\ priority \subseteq Entries
            /\ ceSize \in [Entries -> Nat]
        BY DEF SizeInv, CoreInv, TypeOK
      <3> QED
        BY <3>1, <3>2, SumIsTotal
    <2> QED
      BY <2>1, <2>2 DEF CacheConsistent, SizeInv, CoreInv, EntryInv
  <1> QED
    BY <1>1, CoreInvariant, SizeInvariant, PTL

\* A step ends the process at an empty heap only in the loop of insert_cache.
LEMMA EmptyStep ==
  CoreInv /\ SizeInv /\ OnlyOversizeEmpties /\ [Next]_vars => OnlyOversizeEmpties'
  <1> SUFFICES ASSUME CoreInv, SizeInv, OnlyOversizeEmpties, [Next]_vars
               PROVE  OnlyOversizeEmpties'
    OBVIOUS
  <1>1. CASE UNCHANGED vars
    BY <1>1 DEF OnlyOversizeEmpties, vars, cache, ahead
  <1>2. CASE EvictEmpty
    <2>1. lpath \in Files /\ ~Fits /\ priority = {} /\ UNCHANGED <<lpath, cSize>>
      BY <1>2 DEF EvictEmpty, Stop, cache, ahead, CoreInv, EntryInv
    <2>2. cSize = 0
      BY <2>1 DEF SizeInv, IsTotal
    <2>3. Size[lpath] \in Nat /\ Capacity \in Nat
      BY <2>1, AclAssumption
    <2>4. Size[lpath] > Capacity
      BY <2>1, <2>2, <2>3 DEF Fits
    <2> QED
      BY <2>1, <2>2, <2>4 DEF OnlyOversizeEmpties
  <1>3. ASSUME status = "running",
               status' \in {status, "exited", "use_after_free"}
        PROVE  OnlyOversizeEmpties'
    BY <1>3 DEF OnlyOversizeEmpties
  <1>4. ASSUME status = "running", NEW t \in Threads, ThreadStep(t)
        PROVE  OnlyOversizeEmpties'
    <2>1. CASE OpenStep(t) \/ BeginStep(t) \/ SlotStep(t) \/ AdviseStep(t)
      BY <1>3, <1>4, <2>1 DEF OpenStep, BeginStep, SlotStep, AdviseStep, OpenSource,
         OpenForeign, RetrieveCache, OpenMap, OpenMapFreed, Stop, Begin, LockSlot,
         Request, Advise
    <2>2. CASE AccessStep(t) \/ FlushStep(t)
      BY <1>3, <1>4, <2>2 DEF AccessStep, FlushStep, ReadDirect, WriteDirect,
         DanglingMapping, NoDescriptor, ReadCached, WriteCached, FlushLock,
         FlushExtent, FlushFails, FlushDone, CloseSource, Stop
    <2> QED
      BY <1>4, <2>1, <2>2 DEF ThreadStep
  <1>5. ASSUME status = "running", LookaheadStep PROVE OnlyOversizeEmpties'
    <2>1. CASE InsertStep
      BY <1>3, <1>5, <2>1 DEF InsertStep, InsertBegin, InsertEntry, CopyCreate,
         CopyBlock, InsertFails, CopyDone, CopyCut, Attach, Stop
    <2>2. CASE EvictStep
      BY <1>2, <1>3, <1>5, <2>2 DEF EvictStep, EvictVictim, DetachSkip, DetachLock,
         DetachEntry, Unlink, UnlinkFails, FreeEntry, FreeInUse, Stop
    <2> QED
      BY <1>5, <2>1, <2>2 DEF LookaheadStep
  <1> QED
    BY <1>1, <1>4, <1>5 DEF Next, Ended

\* insert_cache finds the queue empty for a file larger than the whole cache only.
THEOREM OversizeOnly == Spec => []OnlyOversizeEmpties
  <1>1. Init => OnlyOversizeEmpties
    BY DEF Init, OnlyOversizeEmpties
  <1> QED
    BY <1>1, CoreInvariant, SizeInvariant, EmptyStep, PTL DEF Spec

-----------------------------------------------------------------------------
(* What the slots of the table point to.                                   *)

\* What a step of a thread does to the table: nothing, or it fills the slot of the
\* descriptor it opened, closes the one me_descriptor of the descriptor it closes,
\* or empties that slot.
KeepsTable == UNCHANGED <<mePath, meEntry, meDesc, staleOpen>>

ClosesDesc(t) ==
  /\ call[t].op = "close" /\ pc[t] = "lock" /\ mapMutex[Slot(t)] = None
  /\ pc' = [pc EXCEPT ![t] = "flush"] /\ call' = call
  /\ meDesc' = [meDesc EXCEPT ![Slot(t)] = None]
  /\ UNCHANGED <<mePath, meEntry, staleOpen>>

EmptiesSlot(t) ==
  /\ call[t].op = "close" /\ pc[t] = "pop"
  /\ pc' = [pc EXCEPT ![t] = "close"] /\ call' = call
  /\ mePath' = [mePath EXCEPT ![Slot(t)] = None]
  /\ meEntry' = [meEntry EXCEPT ![Slot(t)] = None]
  /\ meDesc' = [meDesc EXCEPT ![Slot(t)] = None]
  /\ staleOpen' = staleOpen \ {Slot(t)}

LEMMA TableSteps ==
  ASSUME CoreInv, NEW t \in Threads, ThreadStep(t)
  PROVE  \/ KeepsTable \/ OpenMap(t) \/ ClosesDesc(t) \/ EmptiesSlot(t)
  <1> DEFINE Goal == \/ KeepsTable \/ OpenMap(t) \/ ClosesDesc(t) \/ EmptiesSlot(t)
  <1> SUFFICES Goal
    OBVIOUS
  <1>1. ASSUME NEW f \in Files,
               OpenSource(t, f) \/ OpenForeign(t, f) \/ Advise(t, f)
        PROVE  KeepsTable
    BY <1>1 DEF OpenSource, OpenForeign, Advise, slots, history, KeepsTable
  <1>2. ASSUME NEW op, NEW d, NEW b, Begin(t, op, d, b) PROVE KeepsTable
    BY <1>2 DEF Begin, slots, history, KeepsTable
  <1>3. ASSUME \/ RetrieveCache(t) \/ Request(t) \/ FlushLock(t) \/ FlushExtent(t)
               \/ CloseSource(t) \/ ReadDirect(t) \/ WriteDirect(t)
               \/ ReadCached(t) \/ WriteCached(t)
        PROVE  KeepsTable
    BY <1>3 DEF RetrieveCache, Request, FlushLock, FlushExtent, CloseSource,
       ReadDirect, WriteDirect, ReadCached, WriteCached, slots, history, KeepsTable
  <1>4. CASE LockSlot(t)
    <2>1. Slot(t) \in Fds /\ meDesc \in [Fds -> Inodes \cup {None}]
      BY CallSlot DEF CoreInv, TypeOK
    <2>2. CASE Entry(t) # None /\ call[t].op = "close"
      <3>1. ClosesDesc(t)
        BY <1>4, <2>2 DEF LockSlot, ClosesDesc, Goto, history
      <3> QED
        BY <3>1
    <2>3. CASE ~(Entry(t) # None /\ call[t].op = "close")
      <3>1. meDesc' = meDesc
        BY <1>4, <2>1, <2>3 DEF LockSlot
      <3>2. UNCHANGED <<mePath, meEntry, staleOpen>>
        BY <1>4 DEF LockSlot, history
      <3> QED
        BY <3>1, <3>2 DEF KeepsTable
    <2> QED
      BY <2>2, <2>3
  <1>5. CASE FlushDone(t)
    <2>1. CASE call[t].op = "close"
      BY <1>5, <2>1 DEF FlushDone, EmptiesSlot, Goto
    <2>2. CASE call[t].op # "close"
      BY <1>5, <2>2 DEF FlushDone, KeepsTable
    <2> QED
      BY <2>1, <2>2
  <1>6. ASSUME NEW why, Stop(why) PROVE KeepsTable
    BY <1>6 DEF Stop, slots, history, KeepsTable
  <1> HIDE DEF KeepsTable, ClosesDesc, EmptiesSlot
  <1>7. KeepsTable => Goal
    OBVIOUS
  <1>8. OpenMap(t) => Goal
    OBVIOUS
  <1> HIDE DEF Goal
  <1> QED
    BY <1>1, <1>2, <1>3, <1>4, <1>5, <1>6, <1>7, <1>8, ThreadActions, Zenon

LEMMA TableInit == Init => TableInv
  BY AclAssumption DEF Init, TableInv

\* The steps of a thread keep TableInv.
LEMMA TableKeptByThread ==
  ASSUME CoreInv, TableInv, NEW t \in Threads, ThreadStep(t)
  PROVE  TableInv'
  <1>1. UNCHANGED <<live, ceSource, lookup, lpc, lpath, lentry, lscan>>
    BY DEF ThreadStep, entries, cache, ahead
  <1>2. Slot(t) \in Fds
    BY CallSlot
  <1>3. /\ mePath \in [Fds -> Files \cup {None}]
        /\ meEntry \in [Fds -> Entries \cup {None}]
        /\ meDesc \in [Fds -> Inodes \cup {None}]
    BY DEF CoreInv, TypeOK
  <1>4. CASE KeepsTable
    BY <1>1, <1>4 DEF KeepsTable, TableInv, HasVictim, Pending
  <1>5. CASE OpenMap(t)
    <2> DEFINE fd == Slot(t)
               e == call[t].entry
    <2>1. /\ mePath' = [mePath EXCEPT ![fd] = fdFile[fd]]
          /\ meEntry' = [meEntry EXCEPT ![fd] = e]
          /\ meDesc' = [meDesc EXCEPT ![fd] =
               IF e = None THEN None ELSE link[CachePath[ceSource[e]]]]
          /\ staleOpen' = IF e = lookup[fdFile[fd]] THEN staleOpen \ {fd}
                                                    ELSE staleOpen \cup {fd}
      BY <1>5 DEF OpenMap
    <2>2. fdFile[fd] # None
      BY <1>5, AclAssumption, CallSlot DEF OpenMap
    <2> HIDE DEF fd, e
    <2>3. fd \in Fds
      BY <1>2 DEF fd
    <2>4. ASSUME NEW d \in Fds, d # fd
          PROVE  /\ mePath'[d] = mePath[d] /\ meEntry'[d] = meEntry[d]
                 /\ meDesc'[d] = meDesc[d]
                 /\ d \in staleOpen' <=> d \in staleOpen
      BY <2>1, <2>4, <1>3
    <2>5. /\ mePath'[fd] = fdFile[fd] /\ meEntry'[fd] = e
          /\ e = None => meDesc'[fd] = None
          /\ fd \notin staleOpen' => e = lookup[fdFile[fd]]
      BY <2>1, <2>3, <1>3
    <2> QED
      BY <1>1, <2>2, <2>4, <2>5 DEF TableInv, HasVictim, Pending
  <1>6. CASE ClosesDesc(t)
    BY <1>1, <1>2, <1>3, <1>6 DEF ClosesDesc, TableInv, HasVictim, Pending
  <1>7. CASE EmptiesSlot(t)
    BY <1>1, <1>2, <1>3, <1>7 DEF EmptiesSlot, TableInv, HasVictim, Pending
  <1> QED
    BY <1>4, <1>5, <1>6, <1>7, TableSteps

\* The steps of the lookahead thread keep TableInv: the victim leaves the slots one
\* by one, and the new entry comes to them one by one.
LEMMA TableKeptByLookahead ==
  ASSUME CoreInv, TableInv, LookaheadStep
  PROVE  TableInv'
  <1> DEFINE Goal == TableInv'
  <1>a. /\ mePath' = mePath
        /\ mePath \in [Fds -> Files \cup {None}]
        /\ meEntry \in [Fds -> Entries \cup {None}]
        /\ meDesc \in [Fds -> Inodes \cup {None}]
        /\ lookup \in [Files -> Entries \cup {None}] /\ lscan \in Fds
        /\ ceSource \in [Entries -> Files \cup {None}] /\ live \subseteq Entries
    BY DEF CoreInv, TypeOK, LookaheadStep
  <1>b. EntryInv /\ DangleInv
    BY DEF CoreInv
  <1>c. None \notin Files \cup Entries
    BY AclAssumption
  <1>d. MaxFd \in Nat /\ \A fd \in Fds : fd \in Int /\ 0 <= fd /\ fd <= MaxFd
    BY AclAssumption DEF Fds
  <1> SUFFICES Goal
    OBVIOUS
  <1> USE DEF TableInv, HasVictim, Evicting, Pending, LGoto
  <1>1. ASSUME NEW v \in Entries, EvictVictim(v) PROVE Goal
    <2>1. /\ lookup' = [lookup EXCEPT ![ceSource[v]] = None]
          /\ lpc = "evict" /\ lpc' = "detach" /\ lentry' = v
          /\ UNCHANGED <<meEntry, meDesc, staleOpen, ceSource>>
      BY <1>1 DEF EvictVictim, LeavesLookup, entries, slots
    <2>2. v # None /\ v \in live /\ ceSource[v] \in Files /\ lookup[ceSource[v]] = v
      BY <1>1, <1>b, <1>c DEF EvictVictim, EntryInv
    <2>3. \A f \in Files : f # ceSource[v] => lookup'[f] = lookup[f]
      BY <2>1, <1>a
    <2>4. ASSUME NEW fd \in Fds, mePath[fd] # None, fd \notin staleOpen
          PROVE  \/ meEntry[fd] = lookup'[mePath[fd]]
                 \/ meEntry[fd] = v /\ ceSource[v] = mePath[fd]
      BY <1>a, <2>1, <2>2, <2>3, <2>4
    <2> QED
      BY <1>a, <2>1, <2>4
  <1>2. CASE DetachSkip
    BY <1>2, <1>a DEF DetachSkip, NextSlot, entries, cache, slots
  <1>3. CASE DetachLock
    BY <1>3, <1>a DEF DetachLock, entries, cache
  <1>4. CASE DetachEntry
    <2>1. /\ lpc = "detach_entry" /\ meEntry' = [meEntry EXCEPT ![lscan] = None]
          /\ staleOpen' = IF lookup[mePath[lscan]] = None THEN staleOpen \ {lscan}
                                                          ELSE staleOpen
          /\ lpc' \in {"detach", "unlink"} /\ (lpc' = "unlink" => lscan' = 0)
          /\ UNCHANGED <<meDesc, ceSource, lookup, lentry>>
      BY <1>4 DEF DetachEntry, entries, cache
    <2>2. /\ meEntry[lscan] = lentry /\ meDesc[lscan] = None /\ lentry \in live
          /\ lookup[ceSource[lentry]] = None
      BY <1>b, <2>1 DEF EntryInv
    <2>3. lscan \notin staleOpen' /\ mePath[lscan] # None => lookup[mePath[lscan]] = None
      BY <1>a, <1>b, <1>c, <2>1, <2>2 DEF EntryInv
    <2>4. ASSUME NEW fd \in Fds, fd # lscan
          PROVE  /\ meEntry'[fd] = meEntry[fd]
                 /\ fd \in staleOpen' <=> fd \in staleOpen
      BY <2>1, <2>4, <1>a
    <2>5. meEntry'[lscan] = None
      BY <2>1, <1>a
    <2> QED
      BY <1>a, <2>1, <2>2, <2>3, <2>4, <2>5
  <1>5. CASE Unlink
    BY <1>5, <1>a DEF Unlink, entries, cache, slots
  <1>6. CASE FreeEntry
    <2>1. \A fd \in Fds : fd \notin staleOpen => meEntry[fd] # lentry
      BY <1>6, <1>b, <1>c, <1>a DEF FreeEntry, EntryInv, DangleInv
    <2> QED
      BY <1>6, <1>a, <2>1 DEF FreeEntry, cache, slots
  <1>7. ASSUME NEW f \in Files, InsertBegin(f) PROVE Goal
    BY <1>7, <1>a DEF InsertBegin, entries, slots
  <1>8. ASSUME NEW e \in Entries, InsertEntry(e) PROVE Goal
    <2>1. /\ lpc = "evict" /\ lpc' = "create" /\ lookup' = [lookup EXCEPT ![lpath] = e]
          /\ lpath \in Files /\ lookup[lpath] = None
          /\ UNCHANGED <<meEntry, meDesc, staleOpen, lpath, lscan>>
      BY <1>8, <1>b DEF InsertEntry, slots, EntryInv
    <2>2. ASSUME NEW fd \in Fds, mePath[fd] # None, fd \notin staleOpen
          PROVE  \/ meEntry[fd] = lookup'[mePath[fd]]
                 \/ mePath[fd] = lpath /\ meEntry[fd] = None
      BY <1>a, <2>1, <2>2
    <2> QED
      BY <1>a, <2>1, <2>2
  <1>9. ASSUME NEW i \in Inodes, CopyCreate(i) PROVE Goal
    BY <1>9, <1>a DEF CopyCreate, entries, cache, slots
  <1>10. CASE CopyBlock
    BY <1>10, <1>a DEF CopyBlock, entries, cache, slots, ahead
  <1>11. CASE CopyDone \/ CopyCut
    <2>1. lscan = 0 /\ \A fd \in Fds : lscan <= fd
      BY <1>11, <1>d DEF CopyDone, CopyCut
    <2> QED
      BY <1>11, <1>a, <2>1 DEF CopyDone, CopyCut, entries, cache, slots
  <1>12. CASE Attach
    <2>1. /\ lpc = "attach" /\ lookup[lpath] = lentry /\ lpath \in Files
          /\ lentry \in live /\ UNCHANGED <<lookup, ceSource>>
      BY <1>12, <1>b DEF Attach, EntryInv, entries, cache
    <2>2. ASSUME NEW fd \in Fds, fd # lscan
          PROVE  /\ meEntry'[fd] = meEntry[fd] /\ meDesc'[fd] = meDesc[fd]
                 /\ fd \in staleOpen' <=> fd \in staleOpen
      BY <1>12, <1>a, <2>2 DEF Attach
    <2>3. CASE NeedsDescriptor(lscan)
      <3>1. mePath[lscan] = lpath /\ meEntry'[lscan] = lentry
        BY <1>12, <1>a, <2>3 DEF Attach, NeedsDescriptor
      <3>2. /\ mePath'[lscan] # None /\ meEntry'[lscan] # None
            /\ meEntry'[lscan] = lookup'[mePath'[lscan]]
        BY <1>a, <1>c, <2>1, <3>1
      <3> QED
        <4>1. ASSUME NEW fd \in Fds, fd # lscan, lscan <= fd
              PROVE  lpc' = "attach" /\ lscan' <= fd /\ lpath' = lpath
          BY <1>12, <1>a, <4>1, SlotAbove DEF Attach
        <4>2. lpc' \in {"attach", "idle"} /\ (lpc' = "idle" => lscan' = 0)
          BY <1>12 DEF Attach
        <4> QED
          BY <1>a, <2>1, <2>2, <3>2, <4>1, <4>2
    <2>4. CASE ~NeedsDescriptor(lscan)
      <3>1. UNCHANGED <<meEntry, meDesc, staleOpen>>
        BY <1>12, <2>4 DEF Attach
      <3>2. mePath[lscan] # None /\ lscan \notin staleOpen
              => meEntry[lscan] = lookup[mePath[lscan]]
        BY <1>a, <2>1, <2>4 DEF NeedsDescriptor
      <3>3. ASSUME NEW fd \in Fds, fd # lscan, lscan <= fd
            PROVE  lpc' = "attach" /\ lscan' <= fd /\ lpath' = lpath
        BY <1>12, <1>a, <3>3, SlotAbove DEF Attach
      <3>4. lpc' \in {"attach", "idle"} /\ (lpc' = "idle" => lscan' = 0)
        BY <1>12 DEF Attach
      <3> QED
        BY <1>a, <2>1, <3>1, <3>2, <3>3, <3>4
    <2> QED
      BY <2>3, <2>4
  <1>13. ASSUME NEW why, Stop(why) PROVE Goal
    BY <1>13, <1>a DEF Stop, slots, entries, cache, ahead, history
  <1> HIDE DEF Goal, TableInv
  <1> QED
    BY <1>1, <1>2, <1>3, <1>4, <1>5, <1>6, <1>7, <1>8, <1>9, <1>10, <1>11,
       <1>12, <1>13, LookaheadActions, Zenon

LEMMA TableStep == CoreInv /\ TableInv /\ [Next]_vars => TableInv'
  <1>1. CoreInv /\ TableInv /\ UNCHANGED vars => TableInv'
    BY DEF vars, files, slots, entries, cache, ahead, history, TableInv, HasVictim,
           Pending
  <1> QED
    BY <1>1, TableKeptByThread, TableKeptByLookahead DEF Next, Ended

LEMMA TableInvariant == Spec => []TableInv
  BY CoreInvariant, TableInit, TableStep, PTL DEF Spec

\* Between two insertions every slot of a file points to the entry the cache holds
\* for the file, or to none if it holds none, unless acl_open filled the slot with a
\* result that was outdated.
THEOREM MappingsTrackCache == Spec => []MappingTracksCache
  <1>1. TableInv => MappingTracksCache
    BY DEF TableInv, MappingTracksCache, HasVictim, Evicting, Pending
  <1> QED
    BY <1>1, TableInvariant, PTL

-----------------------------------------------------------------------------
(* The descriptors of the slots.                                           *)

\* A call that closes a descriptor goes on closing it until the slot is empty.
LEMMA ClosingKept ==
  ASSUME CoreInv, NEW t \in Threads, ThreadStep(t), NEW fd \in Fds,
         NEW u \in Threads, Closing(u, fd)
  PROVE  Closing(u, fd)' \/ EmptiesSlot(t)
  <1> DEFINE Goal == Closing(u, fd)' \/ EmptiesSlot(t)
  <1> SUFFICES ASSUME u = t PROVE Goal
    BY OtherCalls DEF Closing, Slot
  <1>0. /\ pc[t] \in {"flush", "pop"} /\ call[t].op = "close" /\ Slot(t) = fd
        /\ pc \in [Threads -> Points]
    BY DEF Closing, CoreInv, TypeOK
  <1>1. ASSUME NEW f \in Files,
               OpenSource(t, f) \/ OpenForeign(t, f) \/ Advise(t, f)
        PROVE  Goal
    BY <1>0, <1>1 DEF OpenSource, OpenForeign, Advise
  <1>2. ASSUME NEW op, NEW d, NEW b, Begin(t, op, d, b) PROVE Goal
    BY <1>0, <1>2 DEF Begin
  <1>3. ASSUME \/ RetrieveCache(t) \/ OpenMap(t) \/ LockSlot(t) \/ Request(t)
               \/ CloseSource(t) \/ ReadDirect(t) \/ WriteDirect(t)
               \/ ReadCached(t) \/ WriteCached(t)
        PROVE  Goal
    BY <1>0, <1>3 DEF RetrieveCache, OpenMap, LockSlot, Request, CloseSource,
       ReadDirect, WriteDirect, ReadCached, WriteCached
  <1>4. CASE FlushLock(t) \/ FlushExtent(t)
    BY <1>0, <1>4 DEF FlushLock, FlushExtent, Goto, app, Closing, Slot
  <1>5. CASE FlushDone(t)
    BY <1>0, <1>5 DEF FlushDone, EmptiesSlot, Goto
  <1>6. ASSUME NEW why, Stop(why) PROVE Goal
    BY <1>0, <1>6 DEF Stop, app, Closing, Slot
  <1> HIDE DEF Goal
  <1> QED
    BY <1>1, <1>2, <1>3, <1>4, <1>5, <1>6, ThreadActions, Zenon

LEMMA RepairInit == Init => RepairInv
  BY DEF Init, RepairInv

\* The steps of a thread keep RepairInv: acl_open fails to open the cache file only
\* while the lookahead thread has yet to create it.
LEMMA RepairKeptByThread ==
  ASSUME CoreInv, RepairInv, NEW t \in Threads, ThreadStep(t)
  PROVE  RepairInv'
  <1>1. UNCHANGED <<link, live, ceSource, lookup, lpc, lpath, lentry, lscan>>
    BY DEF ThreadStep, entries, cache, ahead
  <1>2. Slot(t) \in Fds
    BY CallSlot
  <1>3. /\ mePath \in [Fds -> Files \cup {None}]
        /\ meEntry \in [Fds -> Entries \cup {None}]
        /\ meDesc \in [Fds -> Inodes \cup {None}]
        /\ pc \in [Threads -> Points]
    BY DEF CoreInv, TypeOK
  <1>4. \A fd \in Fds : Pending(fd)' <=> Pending(fd)
    BY <1>1 DEF Pending
  <1> DEFINE Kept(fd) == /\ mePath'[fd] = mePath[fd] /\ meEntry'[fd] = meEntry[fd]
                         /\ meDesc'[fd] = meDesc[fd]
                         /\ \A u \in Threads : Closing(u, fd) => Closing(u, fd)'
             Broken(fd) == /\ meEntry[fd] # None /\ meDesc[fd] = None
                           /\ mePath[fd] # None /\ meEntry[fd] = lookup[mePath[fd]]
             Fine(fd) == \/ \E u \in Threads : Closing(u, fd)
                         \/ Pending(fd) /\ lentry = meEntry[fd]
  <1>5. ASSUME NEW fd \in Fds, Kept(fd), Broken(fd)' PROVE Fine(fd)'
    <2>1. Broken(fd)
      BY <1>1, <1>5
    <2>2. Fine(fd)
      BY <2>1 DEF RepairInv
    <2>3. CASE \E u \in Threads : Closing(u, fd)
      BY <1>5, <2>3
    <2>4. CASE Pending(fd) /\ lentry = meEntry[fd]
      BY <1>1, <1>4, <1>5, <2>4
    <2> QED
      BY <2>2, <2>3, <2>4
  <1>6. ASSUME NEW fd \in Fds, fd # Slot(t) \/ KeepsTable PROVE Kept(fd)
    <2>1. /\ mePath'[fd] = mePath[fd] /\ meEntry'[fd] = meEntry[fd]
          /\ meDesc'[fd] = meDesc[fd]
      BY <1>2, <1>3, <1>6, TableSteps DEF KeepsTable, OpenMap, ClosesDesc, EmptiesSlot
    <2>2. ASSUME NEW u \in Threads, Closing(u, fd) PROVE Closing(u, fd)'
      <3>1. CASE EmptiesSlot(t)
        <4>1. pc[t] = "pop" /\ pc'[t] = "close"
              /\ meEntry[Slot(t)] # None /\ meEntry'[Slot(t)] = None
          BY <3>1, <1>2, <1>3 DEF EmptiesSlot, CoreInv, CallInv, CallOk, Entry
        <4>2. u # t
          BY <1>6, <2>2, <4>1 DEF KeepsTable, Closing
        <4> QED
          BY <2>2, <4>2, OtherCalls DEF Closing, Slot
      <3> QED
        BY <2>2, <3>1, ClosingKept
    <2> QED
      BY <2>1, <2>2
  <1>a. PICK fd \in Fds : fd = Slot(t)
    BY <1>2
  <1>7. ASSUME OpenMap(t), Broken(fd)' PROVE Fine(fd)'
    <2> DEFINE e == call[t].entry
               f == fdFile[fd]
    <2>1. /\ meEntry'[fd] = e /\ mePath'[fd] = f
          /\ meDesc'[fd] = IF e = None THEN None ELSE link[CachePath[ceSource[e]]]
      BY <1>3, <1>7, <1>a DEF OpenMap
    <2>2. f \in Files
      BY <1>7, <1>a, CallSlot DEF OpenMap
    <2>3. e # None /\ e = lookup[f] /\ link[CachePath[ceSource[e]]] = None
      BY <1>1, <1>7, <2>1
    <2>4. ceSource[e] = f
      BY <2>2, <2>3 DEF CoreInv, EntryInv
    <2>5. lpc = "create" /\ lpath = f /\ lentry = e
      BY <2>2, <2>3, <2>4 DEF RepairInv, CoreInv, EntryInv
    <2>6. Pending(fd)' /\ lentry' = meEntry'[fd]
      BY <1>1, <2>1, <2>5 DEF Pending
    <2> QED
      BY <2>6
  <1>8. ASSUME ClosesDesc(t) PROVE Fine(fd)'
    <2>1. Closing(t, fd)'
      BY <1>3, <1>8, <1>a DEF ClosesDesc, Closing, Slot
    <2> QED
      BY <2>1
  <1>9. ASSUME EmptiesSlot(t) PROVE ~Broken(fd)'
    BY <1>3, <1>9, <1>a DEF EmptiesSlot
  <1>10. ASSUME NEW d \in Fds, Broken(d)' PROVE Fine(d)'
    <2>1. CASE d # fd \/ KeepsTable
      BY <1>5, <1>6, <1>10, <1>a, <2>1
    <2>2. CASE d = fd /\ ~KeepsTable
      BY <1>7, <1>8, <1>9, <1>10, <2>2, TableSteps
    <2> QED
      BY <2>1, <2>2
  <1>11. \A f \in Files : lookup'[f] # None =>
           link'[CachePath[f]] # None \/ (lpc' = "create" /\ lpath' = f)
    BY <1>1 DEF RepairInv
  <1> QED
    BY <1>10, <1>11 DEF RepairInv

\* The steps of the lookahead thread keep RepairInv: inserted_cache repairs the
\* slots that were filled while there was no cache file.
LEMMA RepairKeptByLookahead ==
  ASSUME DistinctCopies, CoreInv, TableInv, RepairInv, LookaheadStep
  PROVE  RepairInv'
  <1> DEFINE Links == \A f \in Files : lookup[f] # None =>
               link[CachePath[f]] # None \/ (lpc = "create" /\ lpath = f)
             Broken(fd) == /\ meEntry[fd] # None /\ meDesc[fd] = None
                           /\ mePath[fd] # None /\ meEntry[fd] = lookup[mePath[fd]]
             Fine(fd) == \/ \E u \in Threads : Closing(u, fd)
                         \/ Pending(fd) /\ lentry = meEntry[fd]
             Slots == \A fd \in Fds : Broken(fd) => Fine(fd)
             Goal == Links' /\ Slots'
  <1>a. Links /\ Slots /\ EntryInv /\ LockInv
    BY DEF RepairInv, CoreInv
  <1>b. /\ mePath' = mePath /\ pc' = pc /\ call' = call
        /\ mePath \in [Fds -> Files \cup {None}]
        /\ meEntry \in [Fds -> Entries \cup {None}]
        /\ meDesc \in [Fds -> Inodes \cup {None}]
        /\ lookup \in [Files -> Entries \cup {None}] /\ lscan \in Fds
        /\ link \in [CachePaths -> Inodes \cup {None}]
        /\ ceSource \in [Entries -> Files \cup {None}] /\ live \subseteq Entries
    BY DEF CoreInv, TypeOK, LookaheadStep, app
  <1>c. None \notin Files \cup Entries \cup Inodes
    BY AclAssumption
  <1>d. \A f, g \in Files : CachePath[f] \in CachePaths /\
                            (CachePath[f] = CachePath[g] => f = g)
    BY DEF DistinctCopies, CachePaths
  <1>e. \A u \in Threads, fd \in Fds : Closing(u, fd)' <=> Closing(u, fd)
    BY <1>b DEF Closing, Slot
  <1>f. ASSUME UNCHANGED <<link, lookup, meEntry, meDesc>>,
               lpc \in {"create"} => lpc' = lpc /\ lpath' = lpath,
               lpc \in {"create", "copy", "attach"} =>
                 lentry' = lentry /\ \A fd \in Fds : Pending(fd) => Pending(fd)'
        PROVE  Goal
    <2>1. Links'
      BY <1>a, <1>f
    <2>2. Slots'
      <3>1. \A fd \in Fds : Broken(fd)' <=> Broken(fd)
        BY <1>b, <1>f
      <3>2. \A fd \in Fds : Fine(fd) => Fine(fd)'
        BY <1>e, <1>f DEF Pending
      <3> QED
        BY <1>a, <3>1, <3>2
    <2> QED
      BY <2>1, <2>2
  <1> SUFFICES Goal
    BY DEF RepairInv
  <1> USE DEF LGoto
  <1>1. ASSUME NEW v \in Entries, EvictVictim(v) PROVE Goal
    <2>1. /\ lookup' = [lookup EXCEPT ![ceSource[v]] = None] /\ lpc = "evict"
          /\ UNCHANGED <<link, meEntry, meDesc>>
      BY <1>1 DEF EvictVictim, LeavesLookup, slots
    <2>2. \A f \in Files : lookup'[f] = None \/ lookup'[f] = lookup[f]
      BY <1>b, <2>1
    <2>3. Links'
      BY <1>a, <2>1, <2>2
    <2>4. \A fd \in Fds : Broken(fd)' => Broken(fd)
      BY <1>b, <2>1, <2>2
    <2>5. \A fd \in Fds : Fine(fd) => Fine(fd)'
      BY <1>e, <2>1 DEF Pending
    <2> QED
      BY <1>a, <2>3, <2>4, <2>5
  <1>2. CASE DetachSkip
    BY <1>2, <1>f DEF DetachSkip, cache, slots
  <1>3. CASE DetachLock
    <2>1. /\ lpc = "detach" /\ meEntry[lscan] = lentry
          /\ meDesc' = [meDesc EXCEPT ![lscan] = None]
          /\ UNCHANGED <<link, lookup, meEntry, lscan>>
      BY <1>3 DEF DetachLock, PointsToVictim, cache
    <2>2. lentry \in live /\ lookup[ceSource[lentry]] = None
      BY <1>a, <2>1 DEF EntryInv, HasVictim, Evicting
    <2>3. ~Broken(lscan)'
      BY <1>a, <1>b, <1>c, <2>1, <2>2 DEF EntryInv
    <2>4. \A fd \in Fds : Broken(fd)' => Broken(fd)
      BY <1>b, <2>1, <2>3
    <2>5. \A fd \in Fds : Fine(fd) => Fine(fd)'
      BY <1>e, <2>1 DEF Pending
    <2> QED
      BY <1>a, <2>1, <2>4, <2>5
  <1>4. CASE DetachEntry
    <2>1. /\ lpc = "detach_entry" /\ meEntry' = [meEntry EXCEPT ![lscan] = None]
          /\ UNCHANGED <<link, lookup, meDesc>>
      BY <1>4 DEF DetachEntry, cache
    <2>2. \A fd \in Fds : Broken(fd)' => Broken(fd) /\ meEntry'[fd] = meEntry[fd]
      BY <1>b, <2>1
    <2>3. \A fd \in Fds : Broken(fd) => \E u \in Threads : Closing(u, fd)
      BY <1>a, <2>1 DEF Pending
    <2> QED
      BY <1>a, <1>e, <2>1, <2>2, <2>3
  <1>5. CASE Unlink
    <2>1. /\ lpc = "unlink" /\ UNCHANGED <<lookup, meEntry, meDesc>>
          /\ link' = [link EXCEPT ![CachePath[ceSource[lentry]]] = None]
      BY <1>5 DEF Unlink, cache, slots
    <2>2. ceSource[lentry] \in Files /\ lookup[ceSource[lentry]] = None
      BY <1>a, <2>1 DEF EntryInv, HasVictim, Evicting
    <2>3. \A f \in Files : f # ceSource[lentry] =>
                             link'[CachePath[f]] = link[CachePath[f]]
      BY <1>b, <1>d, <2>1, <2>2
    <2>4. Links'
      BY <1>a, <2>1, <2>2, <2>3
    <2>5. \A fd \in Fds : Broken(fd)' => Broken(fd)
      BY <1>b, <2>1
    <2>6. \A fd \in Fds : Fine(fd) => Fine(fd)'
      BY <1>e, <2>1 DEF Pending
    <2> QED
      BY <1>a, <2>4, <2>5, <2>6
  <1>6. CASE FreeEntry
    BY <1>6, <1>f DEF FreeEntry, cache, slots
  <1>7. ASSUME NEW f \in Files, InsertBegin(f) PROVE Goal
    BY <1>7, <1>f DEF InsertBegin, slots
  <1>8. ASSUME NEW e \in Entries, InsertEntry(e) PROVE Goal
    <2>1. /\ lpc = "evict" /\ lpc' = "create" /\ lookup' = [lookup EXCEPT ![lpath] = e]
          /\ lpath \in Files /\ lentry' = e /\ lpath' = lpath
          /\ UNCHANGED <<link, meEntry, meDesc>>
      BY <1>8, <1>a DEF InsertEntry, slots, EntryInv
    <2>2. \A f \in Files : lookup'[f] = IF f = lpath THEN e ELSE lookup[f]
      BY <1>b, <2>1
    <2>3. Links'
      BY <1>a, <2>1, <2>2
    <2>4. ASSUME NEW fd \in Fds, Broken(fd)' PROVE Fine(fd)'
      <3>1. CASE mePath[fd] = lpath
        BY <1>b, <2>1, <2>2, <2>4, <3>1 DEF Pending
      <3>2. CASE mePath[fd] # lpath
        <4>1. Broken(fd)
          BY <1>b, <2>1, <2>2, <2>4, <3>2
        <4>2. \E u \in Threads : Closing(u, fd)
          BY <1>a, <2>1, <4>1 DEF Pending
        <4> QED
          BY <1>e, <4>2
      <3> QED
        BY <3>1, <3>2
    <2> QED
      BY <2>3, <2>4
  <1>9. ASSUME NEW i \in Inodes, CopyCreate(i) PROVE Goal
    <2>1. /\ lpc = "create" /\ lpc' = "copy" /\ link' = [link EXCEPT ![CachePath[lpath]] = i]
          /\ lpath \in Files
          /\ UNCHANGED <<lookup, meEntry, meDesc, lentry, lpath>>
      BY <1>9, <1>a DEF CopyCreate, slots, cache, EntryInv
    <2>2. \A f \in Files : link'[CachePath[f]] =
                             IF f = lpath THEN i ELSE link[CachePath[f]]
      BY <1>b, <1>d, <2>1
    <2>3. Links'
      BY <1>a, <1>c, <2>1, <2>2
    <2>4. \A fd \in Fds : Broken(fd)' => Broken(fd)
      BY <1>b, <2>1
    <2>5. \A fd \in Fds : Fine(fd) => Fine(fd)'
      BY <1>e, <2>1 DEF Pending
    <2> QED
      BY <1>a, <2>3, <2>4, <2>5
  <1>10. CASE CopyBlock
    BY <1>10, <1>f DEF CopyBlock, cache, slots, ahead, Pending
  <1>11. CASE CopyDone \/ CopyCut
    <2>1. lscan = 0 /\ \A fd \in Fds : lscan <= fd
      BY <1>11, AclAssumption DEF CopyDone, CopyCut, TableInv, Fds
    <2> QED
      BY <1>11, <1>f, <2>1 DEF CopyDone, CopyCut, cache, slots, Pending
  <1>12. CASE Attach
    <2>1. /\ lpc = "attach" /\ lookup[lpath] = lentry /\ lpath \in Files
          /\ lentry \in live /\ UNCHANGED <<link, lookup>> /\ ceSource[lentry] = lpath
      BY <1>12, <1>a, <1>b, <1>c DEF Attach, EntryInv, cache
    <2>2. link[CachePath[lpath]] # None
      BY <1>a, <1>b, <1>c, <2>1
    <2>3. ASSUME NEW fd \in Fds, fd # lscan
          PROVE  meEntry'[fd] = meEntry[fd] /\ meDesc'[fd] = meDesc[fd]
      BY <1>12, <1>b, <2>3 DEF Attach
    <2>4. ASSUME NEW fd \in Fds, fd # lscan, lscan <= fd
          PROVE  lpc' = "attach" /\ lscan' <= fd /\ lentry' = lentry
      BY <1>12, <1>b, <2>4, SlotAbove DEF Attach
    <2>5. CASE NeedsDescriptor(lscan)
      <3>1. meDesc'[lscan] # None
        BY <1>12, <1>b, <2>2, <2>5 DEF Attach
      <3> QED
        BY <1>a, <1>b, <1>e, <2>1, <2>3, <2>4, <3>1 DEF Pending
    <2>6. CASE ~NeedsDescriptor(lscan)
      <3>1. UNCHANGED <<meEntry, meDesc>>
        BY <1>12, <2>6 DEF Attach
      <3>2. Broken(lscan) => \E u \in Threads : Closing(u, lscan)
        BY <1>a, <1>b, <1>c, <2>1, <2>6 DEF NeedsDescriptor, EntryInv
      <3> QED
        BY <1>a, <1>b, <1>e, <2>1, <2>4, <3>1, <3>2 DEF Pending
    <2> QED
      BY <2>5, <2>6
  <1>13. ASSUME NEW why, Stop(why) PROVE Goal
    BY <1>13, <1>f DEF Stop, slots, files, cache, ahead, Pending
  <1> HIDE DEF Goal
  <1> QED
    BY <1>1, <1>2, <1>3, <1>4, <1>5, <1>6, <1>7, <1>8, <1>9, <1>10, <1>11,
       <1>12, <1>13, LookaheadActions, Zenon

LEMMA RepairStep ==
  ASSUME DistinctCopies
  PROVE  CoreInv /\ TableInv /\ RepairInv /\ [Next]_vars => RepairInv'
  <1>1. RepairInv /\ UNCHANGED vars => RepairInv'
    BY DEF vars, files, slots, cache, app, ahead, RepairInv, Pending, Closing, Slot
  <1> QED
    BY <1>1, RepairKeptByThread, RepairKeptByLookahead DEF Next, Ended

\* A slot of a file in the cache has a descriptor, unless inserted_cache has yet to
\* come to it or acl_close is giving it up: no call that finds its slot mapped to the
\* current entry is left with me_descriptor -1 for good.
THEOREM DescriptorsRepaired ==
  ASSUME DistinctCopies
  PROVE  Spec => []DescriptorRepaired
  <1>1. RepairInv => DescriptorRepaired
    BY DEF RepairInv, DescriptorRepaired, Closing, Pending
  <1>2. CoreInv /\ TableInv /\ RepairInv /\ [Next]_vars => RepairInv'
    BY RepairStep
  <1> QED
    BY <1>1, <1>2, CoreInvariant, TableInvariant, RepairInit, PTL DEF Spec

-----------------------------------------------------------------------------
(* The copies.                                                             *)

LEMMA CopyInit == Init => CopyInv
  <1>1. \A f \in Files : CachePath[f] \in CachePaths
    BY DEF CachePaths
  <1> QED
    BY <1>1 DEF Init, CopyInv

\* A thread changes the contents of a copy by a write only.
LEMMA DataSteps ==
  ASSUME CoreInv, NEW t \in Threads, ThreadStep(t)
  PROVE  data' = data \/ WriteCached(t)
  <1>1. ASSUME NEW f \in Files,
               OpenSource(t, f) \/ OpenForeign(t, f) \/ Advise(t, f)
        PROVE  data' = data
    BY <1>1 DEF OpenSource, OpenForeign, Advise, copies
  <1>2. ASSUME NEW op, NEW d, NEW b, Begin(t, op, d, b) PROVE data' = data
    BY <1>2 DEF Begin, copies
  <1>3. ASSUME \/ RetrieveCache(t) \/ OpenMap(t) \/ LockSlot(t) \/ Request(t)
               \/ FlushLock(t) \/ FlushExtent(t) \/ FlushDone(t) \/ CloseSource(t)
               \/ ReadDirect(t) \/ WriteDirect(t) \/ ReadCached(t)
        PROVE  data' = data
    BY <1>3 DEF RetrieveCache, OpenMap, LockSlot, Request, FlushLock, FlushExtent,
       FlushDone, CloseSource, ReadDirect, WriteDirect, ReadCached, copies
  <1>4. ASSUME NEW why, Stop(why) PROVE data' = data
    BY <1>4 DEF Stop, copies
  <1> QED
    BY <1>1, <1>2, <1>3, <1>4, ThreadActions, Zenon

\* A copy that is complete stays complete, whatever a thread writes to it.
LEMMA CompleteThread ==
  ASSUME CoreInv, NEW t \in Threads, ThreadStep(t), NEW i \in Inodes, Complete(i)
  PROVE  Complete(i)'
  <1>1. CASE data' = data
    BY <1>1 DEF Complete
  <1>2. CASE WriteCached(t)
    <2>1. \A v : <<fdFile[Slot(t)], version + 1>> # None
      BY <1>2, CallSlot, AclAssumption DEF WriteCached, CoreInv, TypeOK, Values
    <2>2. data \in [Inodes -> Contents]
      BY DEF CoreInv, TypeOK
    <2>3. ASSUME NEW b \in BlockSet
          PROVE  data'[i][b] \in {data[i][b], <<fdFile[Slot(t)], version + 1>>}
      BY <1>2, <2>2, <2>3 DEF WriteCached, Contents
    <2> QED
      BY <2>1, <2>3 DEF Complete
  <1> QED
    BY <1>1, <1>2, DataSteps

\* The steps of a thread keep CopyInv: the file that acl_open opens is complete, or
\* it is being copied and the slot gets its entry.
LEMMA CopyKeptByThread ==
  ASSUME CoreInv, CopyInv, NEW t \in Threads, ThreadStep(t)
  PROVE  CopyInv'
  <1>1. UNCHANGED <<link, live, ceSource, lookup, lpc, lpath, lentry, lscan>>
    BY DEF ThreadStep, entries, cache, ahead
  <1>2. \A i : Copying(i)' <=> Copying(i)
    BY <1>1 DEF Copying
  <1>3. PICK fd \in Fds : fd = Slot(t)
    BY CallSlot
  <1>4. /\ mePath \in [Fds -> Files \cup {None}]
        /\ meEntry \in [Fds -> Entries \cup {None}]
        /\ meDesc \in [Fds -> Inodes \cup {None}]
        /\ link \in [CachePaths -> Inodes \cup {None}]
        /\ \A f \in Files : CachePath[f] \in CachePaths
    BY DEF CoreInv, TypeOK, CachePaths
  <1> DEFINE Fine(d) == meDesc[d] # None =>
               \/ Complete(meDesc[d])
               \/ Copying(meDesc[d]) /\ meEntry[d] = lentry
  <1>5. ASSUME NEW d \in Fds, meDesc'[d] = meDesc[d], meEntry'[d] = meEntry[d]
        PROVE  Fine(d)'
    <2>1. meDesc[d] # None => meDesc[d] \in Inodes
      BY <1>4
    <2>2. Fine(d)
      BY DEF CopyInv
    <2> QED
      BY <1>1, <1>2, <1>5, <2>1, <2>2, CompleteThread
  <1>6. ASSUME NEW d \in Fds, d # fd \/ KeepsTable PROVE Fine(d)'
    <2>1. meDesc'[d] = meDesc[d] /\ meEntry'[d] = meEntry[d]
      BY <1>3, <1>4, <1>6, TableSteps DEF KeepsTable, OpenMap, ClosesDesc, EmptiesSlot
    <2> QED
      BY <2>1, <1>5
  <1>7. ASSUME ClosesDesc(t) \/ EmptiesSlot(t) PROVE Fine(fd)'
    BY <1>3, <1>4, <1>7 DEF ClosesDesc, EmptiesSlot
  <1>8. ASSUME OpenMap(t), meDesc'[fd] # None PROVE Fine(fd)'
    <2> DEFINE e == call[t].entry
               f == ceSource[e]
               i == link[CachePath[f]]
    <2>1. e # None /\ e \in live /\ meEntry'[fd] = e /\ meDesc'[fd] = i
      BY <1>3, <1>4, <1>8 DEF OpenMap
    <2>2. f \in Files /\ i # None /\ i \in Inodes
      BY <1>4, <1>8, <2>1 DEF CoreInv, EntryInv
    <2>3. CASE Complete(i)
      BY <2>1, <2>2, <2>3, CompleteThread
    <2>4. CASE Copying(i)
      <3>1. lpc = "copy" /\ lpath \in Files /\ i = link[CachePath[lpath]]
        BY <2>4 DEF Copying, CoreInv, EntryInv
      <3>2. lpath = f
        BY <2>2, <3>1 DEF CopyInv
      <3>3. e = lentry
        BY <2>1, <3>1, <3>2 DEF CoreInv, EntryInv, HasVictim, Evicting
      <3> QED
        BY <1>1, <1>2, <2>1, <2>4, <3>3
    <2> QED
      BY <2>2, <2>3, <2>4 DEF CopyInv
  <1>9. \A d \in Fds : Fine(d)'
    <2>1. ASSUME NEW d \in Fds PROVE Fine(d)'
      <3>1. CASE d # fd \/ KeepsTable
        BY <1>6, <3>1
      <3>2. CASE d = fd /\ ~KeepsTable
        BY <1>7, <1>8, <3>2, TableSteps
      <3> QED
        BY <3>1, <3>2
    <2> QED
      BY <2>1
  <1>10. ASSUME NEW f \in Files, link[CachePath[f]] # None
         PROVE  Complete(link[CachePath[f]])' \/ Copying(link[CachePath[f]])'
    <2>1. link[CachePath[f]] \in Inodes
      BY <1>4, <1>10
    <2>2. CASE Complete(link[CachePath[f]])
      BY <1>1, <2>1, <2>2, CompleteThread DEF Complete
    <2>3. CASE Copying(link[CachePath[f]])
      BY <1>1, <2>3 DEF Copying
    <2> QED
      BY <1>10, <2>2, <2>3 DEF CopyInv
  <1> QED
    BY <1>1, <1>9, <1>10 DEF CopyInv

\* The steps of the lookahead thread keep CopyInv: a file is copied to an inode that
\* nothing else names or has open, and its name is unlinked before its entry is freed.
LEMMA CopyKeptByLookahead ==
  ASSUME DistinctCopies, CoreInv, CopyInv, LookaheadStep
  PROVE  CopyInv'
  <1> DEFINE Named(f) == link[CachePath[f]] # None =>
               /\ \E e \in live : ceSource[e] = f
               /\ ~(lpc = "create" /\ lpath = f)
               /\ ~(lpc = "free" /\ ceSource[lentry] = f)
               /\ Complete(link[CachePath[f]]) \/ Copying(link[CachePath[f]])
             Apart == \A f, g \in Files :
               link[CachePath[f]] # None /\ link[CachePath[f]] = link[CachePath[g]]
                 => f = g
             Linked == lpc = "copy" => link[CachePath[lpath]] # None
             Fine(fd) == meDesc[fd] # None =>
               \/ Complete(meDesc[fd])
               \/ Copying(meDesc[fd]) /\ meEntry[fd] = lentry
             Goal == (\A f \in Files : Named(f)') /\ Apart' /\ Linked'
                     /\ \A fd \in Fds : Fine(fd)'
  <1>a. /\ \A f \in Files : Named(f)
        /\ Apart /\ Linked /\ \A fd \in Fds : Fine(fd)
    BY DEF CopyInv
  <1>b. /\ meEntry \in [Fds -> Entries \cup {None}]
        /\ meDesc \in [Fds -> Inodes \cup {None}]
        /\ data \in [Inodes -> Contents] /\ lscan \in Fds
        /\ link \in [CachePaths -> Inodes \cup {None}]
        /\ ceSource \in [Entries -> Files \cup {None}] /\ live \subseteq Entries
        /\ EntryInv
    BY DEF CoreInv, TypeOK
  <1>c. None \notin Files \cup Entries \cup Inodes
    BY AclAssumption
  <1>d. \A f, g \in Files : CachePath[f] \in CachePaths /\
                            (CachePath[f] = CachePath[g] => f = g)
    BY DEF DistinctCopies, CachePaths
  <1>e. data' = data => \A i : Complete(i)' <=> Complete(i)
    BY DEF Complete
  <1> SUFFICES Goal
    BY DEF CopyInv
  <1> USE DEF LGoto
  \* A step that neither creates, nor unlinks, nor fills a copy.
  <1>f. ASSUME UNCHANGED <<link, data>>, lpc # "copy", lpc' # "copy",
               \A f \in Files : link[CachePath[f]] # None =>
                 /\ (\E e \in live : ceSource[e] = f)'
                 /\ ~(lpc' = "create" /\ lpath' = f)
                 /\ ~(lpc' = "free" /\ ceSource'[lentry'] = f),
               \A fd \in Fds : \/ meDesc'[fd] \in {meDesc[fd], None}
                               \/ /\ lpath \in Files
                                  /\ meDesc'[fd] = link[CachePath[lpath]]
        PROVE  Goal
    <2>1. \A f \in Files : Named(f)'
      BY <1>a, <1>e, <1>f DEF Copying
    <2>2. Apart' /\ Linked'
      BY <1>a, <1>f
    <2>3. \A fd \in Fds : Fine(fd)'
      BY <1>a, <1>e, <1>f DEF Copying
    <2> QED
      BY <2>1, <2>2, <2>3
  <1>g. ASSUME UNCHANGED <<link, data, live, ceSource>>, lpc # "copy",
               lpc' \notin {"copy", "create", "free"},
               \A fd \in Fds : meDesc'[fd] \in {meDesc[fd], None}
        PROVE  Goal
    BY <1>a, <1>f, <1>g
  <1>1. ASSUME NEW v \in Entries, EvictVictim(v) PROVE Goal
    BY <1>1, <1>g DEF EvictVictim, slots, copies, entries
  <1>2. CASE DetachSkip
    BY <1>2, <1>g DEF DetachSkip, NextSlot, slots, copies, entries
  <1>3. CASE DetachLock
    <2>1. \A fd \in Fds : meDesc'[fd] \in {meDesc[fd], None}
      BY <1>3, <1>b DEF DetachLock
    <2> QED
      BY <1>3, <1>g, <2>1 DEF DetachLock, copies, entries
  <1>4. CASE DetachEntry
    BY <1>4, <1>g DEF DetachEntry, copies, entries
  <1>5. CASE Unlink
    <2>1. /\ lpc = "unlink" /\ lpc' = "free"
          /\ UNCHANGED <<meEntry, meDesc, data, live, ceSource, lentry>>
          /\ link' = [link EXCEPT ![CachePath[ceSource[lentry]]] = None]
      BY <1>5 DEF Unlink, slots, copies, entries
    <2>2. ceSource[lentry] \in Files
      BY <1>b, <2>1 DEF EntryInv
    <2>3. \A f \in Files : link'[CachePath[f]] =
            IF f = ceSource[lentry] THEN None ELSE link[CachePath[f]]
      BY <1>b, <1>d, <2>1, <2>2
    <2>4. \A f \in Files : Named(f)'
      BY <1>a, <1>e, <2>1, <2>3 DEF Copying
    <2>5. Apart' /\ Linked'
      BY <1>a, <2>1, <2>3
    <2>6. \A fd \in Fds : Fine(fd)'
      BY <1>a, <1>e, <2>1 DEF Copying
    <2> QED
      BY <2>4, <2>5, <2>6
  <1>6. CASE FreeEntry
    <2>1. /\ lpc = "free" /\ lpc' = "evict" /\ live' = live \ {lentry}
          /\ ceSource' = [ceSource EXCEPT ![lentry] = None]
          /\ UNCHANGED <<link, data, meDesc>>
      BY <1>6 DEF FreeEntry, slots
    <2>2. ASSUME NEW f \in Files, link[CachePath[f]] # None
          PROVE  (\E e \in live : ceSource[e] = f)'
      <3>1. PICK e \in live : ceSource[e] = f /\ e # lentry
        BY <1>a, <2>1, <2>2
      <3> QED
        BY <1>b, <2>1, <3>1
    <2> QED
      BY <1>f, <2>1, <2>2
  <1>7. ASSUME NEW f \in Files, InsertBegin(f) PROVE Goal
    BY <1>7, <1>g DEF InsertBegin, slots, copies, entries
  <1>8. ASSUME NEW e \in Entries, InsertEntry(e) PROVE Goal
    <2>1. /\ lpc = "evict" /\ lpc' = "create" /\ e \notin live /\ lpath' = lpath
          /\ live' = live \cup {e} /\ ceSource' = [ceSource EXCEPT ![e] = lpath]
          /\ UNCHANGED <<link, data, meDesc>>
      BY <1>8 DEF InsertEntry, slots
    <2>2. lpath \in Files /\ lookup[lpath] = None
      BY <1>b, <2>1 DEF EntryInv, Evicting
    <2>3. link[CachePath[lpath]] = None
      <3>1. ASSUME NEW d \in live, ceSource[d] = lpath PROVE FALSE
        BY <1>b, <1>c, <2>1, <2>2, <3>1 DEF EntryInv, HasVictim, Evicting
      <3> QED
        BY <1>a, <2>2, <3>1
    <2>4. ASSUME NEW f \in Files, link[CachePath[f]] # None
          PROVE  (\E d \in live : ceSource[d] = f)'
      <3>1. PICK d \in live : ceSource[d] = f
        BY <1>a, <2>4
      <3>2. d \in live' /\ ceSource'[d] = f
        BY <1>b, <2>1, <3>1
      <3> QED
        BY <3>2
    <2> QED
      BY <1>f, <2>1, <2>3, <2>4
  <1>9. ASSUME NEW i \in Inodes, CopyCreate(i) PROVE Goal
    <2>1. /\ lpc = "create" /\ lpc' = "copy" /\ lpath \in Files
          /\ link' = [link EXCEPT ![CachePath[lpath]] = i]
          /\ data' = [data EXCEPT ![i] = Blank]
          /\ UNCHANGED <<meEntry, meDesc, live, ceSource, lentry, lpath>>
      BY <1>9, <1>b DEF CopyCreate, slots, entries, EntryInv
    <2>2. link[CachePath[lpath]] = None
      BY <1>a, <2>1
    <2>3. /\ \A f \in Files : link[CachePath[f]] # i
          /\ \A fd \in Fds : meDesc[fd] # i
      BY <1>9, <1>d, <2>2, <2>1 DEF CopyCreate, CachePaths
    <2>4. \A f \in Files : link'[CachePath[f]] =
            IF f = lpath THEN i ELSE link[CachePath[f]]
      BY <1>b, <1>d, <2>1
    <2>5. \A j \in Inodes : j # i => (Complete(j)' <=> Complete(j))
      BY <1>b, <2>1 DEF Complete
    <2>6. Copying(i)'
      BY <2>1, <2>4 DEF Copying
    <2>7. lentry \in live /\ ceSource[lentry] = lpath
      BY <1>b, <1>c, <2>1 DEF EntryInv
    <2>8. \A f \in Files : Named(f)'
      <3>1. \A f \in Files : f # lpath => link[CachePath[f]] \in Inodes \cup {None}
        BY <1>b, <1>d
      <3>2. ASSUME NEW f \in Files, f # lpath PROVE Named(f)'
        BY <1>a, <2>1, <2>3, <2>4, <2>5, <3>1, <3>2 DEF Copying
      <3>3. ASSUME NEW f \in Files, f = lpath PROVE Named(f)'
        BY <2>1, <2>4, <2>6, <2>7, <3>3
      <3> QED
        BY <3>2, <3>3
    <2>9. Apart' /\ Linked'
      BY <1>a, <1>c, <2>1, <2>3, <2>4
    <2>10. \A fd \in Fds : Fine(fd)'
      BY <1>a, <1>b, <2>1, <2>3, <2>5 DEF Copying
    <2> QED
      BY <2>8, <2>9, <2>10
  <1>10. CASE CopyBlock
    <2> DEFINE i == link[CachePath[lpath]]
    <2>1. /\ lpc = "copy" /\ data' = [data EXCEPT ![i][First(Missing)] =
                                       src[lpath][First(Missing)]]
          /\ UNCHANGED <<link, meEntry, meDesc, live, ceSource, lpc, lentry, lpath>>
      BY <1>10 DEF CopyBlock, slots, entries, ahead
    <2>2. \A j \in Inodes : j # i => (Complete(j)' <=> Complete(j))
      BY <1>b, <2>1 DEF Complete
    <2>3. \A j : Copying(j)' <=> Copying(j)
      BY <2>1 DEF Copying
    <2>4. Copying(i)
      BY <2>1 DEF Copying
    <2>5. ~Complete(i)
      BY <1>10 DEF CopyBlock, Missing, Complete
    <2> HIDE DEF i
    <2>6. \A j \in Inodes : Complete(j) => Complete(j)'
      BY <2>2, <2>5
    <2>7. \A f \in Files : link[CachePath[f]] # None => link[CachePath[f]] \in Inodes
      BY <1>b, <1>d
    <2>8. \A f \in Files : Named(f)'
      <3>1. ASSUME NEW f \in Files, link[CachePath[f]] # None
            PROVE  (Complete(link[CachePath[f]]) \/ Copying(link[CachePath[f]]))'
        <4>1. PICK j : j = link[CachePath[f]]
          OBVIOUS
        <4>2. Complete(j)' \/ Copying(j)'
          BY <1>a, <2>3, <2>6, <2>7, <3>1, <4>1
        <4> QED
          BY <2>1, <4>1, <4>2
      <3> QED
        BY <1>a, <2>1, <3>1
    <2>9. Apart' /\ Linked'
      BY <1>a, <2>1
    <2>10. ASSUME NEW fd \in Fds PROVE Fine(fd)'
      <3>1. PICK j : j = meDesc[fd]
        OBVIOUS
      <3>2. j # None => j \in Inodes
        BY <1>b, <3>1
      <3>3. j # None => Complete(j) \/ (Copying(j) /\ meEntry[fd] = lentry)
        BY <1>a, <3>1
      <3>4. j # None => Complete(j)' \/ (Copying(j)' /\ meEntry[fd] = lentry)
        BY <2>3, <2>6, <3>2, <3>3
      <3> QED
        BY <2>1, <3>1, <3>4
    <2> QED
      BY <2>8, <2>9, <2>10
  <1>11. CASE CopyDone
    <2>1. /\ lpc = "copy" /\ lpc' = "attach" /\ Missing = {}
          /\ UNCHANGED <<link, data, meEntry, meDesc, live, ceSource, lentry, lpath>>
      BY <1>11 DEF CopyDone, slots, entries
    <2>2. \A j : Copying(j) => Complete(j)
      BY <2>1 DEF Copying, Missing, Complete
    <2>3. \A f \in Files : Named(f)'
      BY <1>a, <1>e, <2>1, <2>2
    <2>4. Apart' /\ Linked' /\ \A fd \in Fds : Fine(fd)'
      BY <1>a, <1>e, <2>1, <2>2
    <2> QED
      BY <2>3, <2>4
  <1>12. CASE Attach
    <2>1. /\ lpc = "attach" /\ lpc' \in {"attach", "idle"} /\ lpath \in Files
          /\ UNCHANGED <<link, data, live, ceSource>>
      BY <1>12, <1>b DEF Attach, copies, entries, EntryInv
    <2>2. \A fd \in Fds : meDesc'[fd] \in {meDesc[fd], link[CachePath[lpath]]}
      BY <1>12, <1>b DEF Attach
    <2> QED
      BY <1>a, <1>f, <2>1, <2>2
  <1>13. ASSUME NEW why, Stop(why) PROVE Goal
    <2>1. UNCHANGED <<link, data, meEntry, meDesc, live, ceSource, lpc, lentry, lpath>>
      BY <1>13 DEF Stop, files, slots, copies, entries, ahead
    <2> QED
      BY <1>a, <1>e, <2>1 DEF Copying
  <1>14. CASE CopyCut
    <2>0. PICK i : i = link[CachePath[lpath]]
      OBVIOUS
    <2>1. /\ lpc = "copy" /\ lpc' = "attach"
          /\ UNCHANGED <<link, meEntry, meDesc, live, ceSource, lentry, lpath>>
          /\ data' = [data EXCEPT ![i] =
                        [b \in BlockSet |-> IF b \in Missing THEN Absent
                                                              ELSE data[i][b]]]
      BY <1>14, <2>0 DEF CopyCut, slots, entries
    <2>2. i \in Inodes
      BY <1>a, <1>b, <1>d, <2>0, <2>1 DEF EntryInv
    <2>3. Complete(i)'
      <3>1. Absent # None
        BY AclAssumption
      <3>2. ASSUME NEW b \in BlockSet PROVE data'[i][b] # None
        <4>1. data'[i][b] = IF b \in Missing THEN Absent ELSE data[i][b]
          BY <1>b, <2>1, <2>2
        <4>2. b \notin Missing => data[i][b] # None
          BY <2>0 DEF Missing
        <4> QED
          BY <3>1, <4>1, <4>2
      <3> QED
        BY <3>2 DEF Complete
    <2>4. \A j \in Inodes : Complete(j) \/ Copying(j) => Complete(j)'
      <3>1. ASSUME NEW j \in Inodes, j # i
            PROVE  (Complete(j)' <=> Complete(j)) /\ ~Copying(j)
        BY <1>b, <2>0, <2>1, <3>1 DEF Complete, Copying
      <3> QED
        BY <2>3, <3>1
    <2>5. \A f \in Files : link[CachePath[f]] # None => link[CachePath[f]] \in Inodes
      BY <1>b, <1>d
    <2>6. \A f \in Files : Named(f)'
      <3>1. ASSUME NEW f \in Files, link[CachePath[f]] # None
            PROVE  Complete(link[CachePath[f]])'
        <4>1. PICK j : j = link[CachePath[f]]
          OBVIOUS
        <4>2. Complete(j)'
          BY <1>a, <2>4, <2>5, <3>1, <4>1
        <4> QED
          BY <2>1, <4>1, <4>2
      <3> QED
        BY <1>a, <2>1, <3>1
    <2>7. Apart' /\ Linked'
      BY <1>a, <2>1
    <2>8. ASSUME NEW fd \in Fds PROVE Fine(fd)'
      <3>1. PICK j : j = meDesc[fd]
        OBVIOUS
      <3>2. j # None => j \in Inodes
        BY <1>b, <3>1
      <3>3. j # None => Complete(j)'
        BY <1>a, <2>4, <3>1, <3>2
      <3> QED
        BY <2>1, <3>1, <3>3
    <2> QED
      BY <2>6, <2>7, <2>8
  <1> HIDE DEF Goal
  <1> QED
    BY <1>1, <1>2, <1>3, <1>4, <1>5, <1>6, <1>7, <1>8, <1>9, <1>10, <1>11,
       <1>12, <1>13, <1>14, LookaheadActions, Zenon

LEMMA CopyStep ==
  ASSUME DistinctCopies
  PROVE  CoreInv /\ CopyInv /\ [Next]_vars => CopyInv'
  <1>1. CopyInv /\ UNCHANGED vars => CopyInv'
    BY DEF vars, files, slots, copies, entries, ahead, CopyInv, Copying, Complete
  <1> QED
    BY <1>1, CopyKeptByThread, CopyKeptByLookahead DEF Next, Ended

LEMMA CopyInvariant ==
  ASSUME DistinctCopies
  PROVE  Spec => []CopyInv
  <1>1. CoreInv /\ CopyInv /\ [Next]_vars => CopyInv'
    BY CopyStep
  <1> QED
    BY <1>1, CoreInvariant, CopyInit, PTL DEF Spec

\* What a slot has open is as copy_data left it once ce_mutex of the slot's entry
\* can be taken: no call works on a copy that copy_file has still to write to.
THEOREM CopiesHidden ==
  ASSUME DistinctCopies
  PROVE  Spec => []CopyHidden
  <1>1. ASSUME CoreInv, CopyInv PROVE CopyHidden
    <2> SUFFICES ASSUME NEW fd \in Fds, meEntry[fd] \in live, meDesc[fd] # None,
                        ceMutex[meEntry[fd]] # Lookahead
                 PROVE  Complete(meDesc[fd])
      BY DEF CopyHidden
    <2>1. meEntry[fd] \in Entries
      BY <1>1 DEF CoreInv, TypeOK
    <2> QED
      BY <1>1, <2>1 DEF CopyInv, Copying, CoreInv, LockInv
  <1>2. Spec => []CopyInv
    BY CopyInvariant
  <1> QED
    BY <1>1, <1>2, CoreInvariant, PTL

-----------------------------------------------------------------------------
(* An application that only reads.                                         *)

LEMMA ReadInit == Init => ReadInv
  <1>1. \A f \in Files : CachePath[f] \in CachePaths
    BY DEF CachePaths
  <1> QED
    BY <1>1 DEF Init, ReadInv, NoCall, Call

\* A thread that writes nothing changes neither a file, nor a copy, nor an extent.
LEMMA ReadSteps ==
  ASSUME ReadOnly, CoreInv, ReadInv, NEW t \in Threads, ThreadStep(t)
  PROVE  UNCHANGED <<src, data, ceExtents, latest>> /\ call'[t].op # "write"
  <1> DEFINE Goal == UNCHANGED <<src, data, ceExtents, latest>> /\ call'[t].op # "write"
  <1> SUFFICES Goal
    OBVIOUS
  <1>0. /\ call[t].op # "write" /\ \A e \in Entries : ceExtents[e] = {}
        /\ call \in [Threads -> Calls] /\ NoCall.op # "write"
    BY DEF ReadInv, CoreInv, TypeOK, NoCall, Call
  <1>1. ASSUME NEW f \in Files,
               OpenSource(t, f) \/ OpenForeign(t, f) \/ Advise(t, f)
        PROVE  Goal
    BY <1>0, <1>1 DEF OpenSource, OpenForeign, Advise, copies, history, app, Call
  <1>2. ASSUME NEW op, NEW d, NEW b, Begin(t, op, d, b) PROVE Goal
    BY <1>0, <1>2 DEF Begin, copies, history, Call, ReadOnly
  <1>3. CASE RetrieveCache(t) \/ Request(t) \/ CloseSource(t)
    BY <1>0, <1>3 DEF RetrieveCache, Request, CloseSource, Return, copies, history,
       Call
  <1>4. CASE OpenMap(t) \/ LockSlot(t)
    BY <1>0, <1>4 DEF OpenMap, LockSlot, Return, copies, history
  <1>5. CASE ReadDirect(t) \/ WriteDirect(t) \/ ReadCached(t) \/ WriteCached(t)
    BY <1>0, <1>5 DEF ReadDirect, WriteDirect, ReadCached, WriteCached, Return,
       copies, history
  <1>6. CASE FlushLock(t) \/ FlushDone(t)
    BY <1>0, <1>6 DEF FlushLock, FlushDone, Return, history
  <1>7. CASE FlushExtent(t)
    <2>1. Entry(t) \in Entries
      BY <1>7, CallSlot DEF FlushExtent, CoreInv, CallInv, CallOk
    <2> QED
      BY <1>0, <1>7, <2>1 DEF FlushExtent
  <1>8. ASSUME NEW why, Stop(why) PROVE Goal
    BY <1>0, <1>8 DEF Stop, files, copies, history, app
  <1> HIDE DEF Goal
  <1> QED
    BY <1>1, <1>2, <1>3, <1>4, <1>5, <1>6, <1>7, <1>8, ThreadActions, Zenon

\* The steps of a thread keep ReadInv.
LEMMA ReadKeptByThread ==
  ASSUME ReadOnly, CoreInv, ReadInv, NEW t \in Threads, ThreadStep(t)
  PROVE  ReadInv'
  <1>1. UNCHANGED <<src, data, ceExtents, latest, link, lookup, ceSource>>
    BY ReadSteps DEF ThreadStep, entries, cache
  <1>2. \A u \in Threads : call'[u].op # "write"
    BY ReadSteps, OtherCalls DEF ReadInv
  <1>3. PICK fd \in Fds : fd = Slot(t)
    BY CallSlot
  <1>4. /\ mePath \in [Fds -> Files \cup {None}]
        /\ meEntry \in [Fds -> Entries \cup {None}]
        /\ meDesc \in [Fds -> Inodes \cup {None}]
    BY DEF CoreInv, TypeOK
  <1>5. \A i, f : FirstValues(i, f)' <=> FirstValues(i, f)
    BY <1>1 DEF FirstValues
  <1> DEFINE Fine(d) == meDesc[d] # None /\ d \notin staleOpen =>
                          FirstValues(meDesc[d], mePath[d])
  <1>6. ASSUME NEW d \in Fds, d # fd \/ KeepsTable PROVE Fine(d)'
    <2>1. /\ meDesc'[d] = meDesc[d] /\ mePath'[d] = mePath[d]
          /\ d \in staleOpen' <=> d \in staleOpen
      BY <1>3, <1>4, <1>6, TableSteps DEF KeepsTable, OpenMap, ClosesDesc, EmptiesSlot
    <2> QED
      BY <1>5, <2>1 DEF ReadInv
  <1>7. ASSUME ClosesDesc(t) \/ EmptiesSlot(t) PROVE Fine(fd)'
    BY <1>3, <1>4, <1>7 DEF ClosesDesc, EmptiesSlot
  <1>8. ASSUME OpenMap(t), meDesc'[fd] # None, fd \notin staleOpen' PROVE Fine(fd)'
    <2> DEFINE e == call[t].entry
               f == fdFile[fd]
    <2>1. /\ e # None /\ e = lookup[f] /\ mePath'[fd] = f
          /\ meDesc'[fd] = link[CachePath[ceSource[e]]]
      BY <1>3, <1>4, <1>8 DEF OpenMap
    <2>2. f \in Files
      BY <1>3, <1>8, CallSlot DEF OpenMap
    <2>3. ceSource[e] = f
      BY <2>1, <2>2 DEF CoreInv, EntryInv
    <2> QED
      BY <1>5, <1>8, <2>1, <2>2, <2>3 DEF ReadInv
  <1>9. ASSUME NEW d \in Fds PROVE Fine(d)'
    <2>1. CASE d # fd \/ KeepsTable
      BY <1>6, <2>1
    <2>2. CASE d = fd /\ ~KeepsTable
      BY <1>7, <1>8, <2>2, TableSteps
    <2> QED
      BY <2>1, <2>2
  <1> QED
    BY <1>1, <1>2, <1>5, <1>9 DEF ReadInv

\* The steps of the lookahead thread keep ReadInv: a block of a file is copied to
\* that file's copy, which only slots of the file have open.
LEMMA ReadKeptByLookahead ==
  ASSUME DistinctCopies, CoreInv, TableInv, CopyInv, ReadInv, LookaheadStep
  PROVE  ReadInv'
  <1> DEFINE Extents == \A e \in Entries : ceExtents[e] = {}
             Copies == \A f \in Files :
               link[CachePath[f]] # None => FirstValues(link[CachePath[f]], f)
             Fine(fd) == meDesc[fd] # None /\ fd \notin staleOpen =>
                           FirstValues(meDesc[fd], mePath[fd])
             Goal == Extents' /\ Copies' /\ \A fd \in Fds : Fine(fd)'
  <1>a. Extents /\ Copies /\ \A fd \in Fds : Fine(fd)
    BY DEF ReadInv
  <1>b. /\ UNCHANGED <<src, mePath, latest, call>>
        /\ mePath \in [Fds -> Files \cup {None}]
        /\ meEntry \in [Fds -> Entries \cup {None}]
        /\ meDesc \in [Fds -> Inodes \cup {None}]
        /\ data \in [Inodes -> Contents] /\ lscan \in Fds
        /\ link \in [CachePaths -> Inodes \cup {None}]
        /\ ceExtents \in [Entries -> SUBSET BlockSet]
        /\ EntryInv
    BY DEF CoreInv, TypeOK, LookaheadStep, app
  <1>c. None \notin Files \cup Entries \cup Inodes
    BY AclAssumption
  <1>d. \A f, g \in Files : CachePath[f] \in CachePaths /\
                            (CachePath[f] = CachePath[g] => f = g)
    BY DEF DistinctCopies, CachePaths
  <1> SUFFICES Goal
    BY <1>b DEF ReadInv
  <1>e. data' = data => \A i, f : FirstValues(i, f)' <=> FirstValues(i, f)
    BY DEF FirstValues
  <1>f. ASSUME UNCHANGED <<link, data>>,
               UNCHANGED ceExtents \/ \E e : NoExtents(e),
               \A fd \in Fds :
                 \/ meDesc'[fd] = None
                 \/ /\ meDesc'[fd] = meDesc[fd]
                    /\ meDesc[fd] # None /\ fd \in staleOpen => fd \in staleOpen'
        PROVE  Goal
    <2>1. Extents'
      BY <1>a, <1>b, <1>f DEF NoExtents
    <2>2. Copies'
      BY <1>a, <1>e, <1>f
    <2>3. \A fd \in Fds : Fine(fd)'
      BY <1>a, <1>b, <1>e, <1>f
    <2> QED
      BY <2>1, <2>2, <2>3
  <1>1. ASSUME NEW v \in Entries, EvictVictim(v) PROVE Goal
    BY <1>1, <1>f DEF EvictVictim, slots, copies
  <1>2. CASE DetachSkip
    BY <1>2, <1>f DEF DetachSkip, slots, copies
  <1>3. CASE DetachLock
    <2>1. \A fd \in Fds : meDesc'[fd] \in {meDesc[fd], None}
      BY <1>3, <1>b DEF DetachLock
    <2> QED
      BY <1>3, <1>f, <2>1 DEF DetachLock, copies
  <1>4. CASE DetachEntry
    <2>1. meDesc[lscan] = None
      BY <1>4, <1>b DEF DetachEntry, EntryInv
    <2> QED
      BY <1>4, <1>f, <2>1 DEF DetachEntry, copies
  <1>5. CASE Unlink
    <2>1. /\ link' = [link EXCEPT ![CachePath[ceSource[lentry]]] = None]
          /\ UNCHANGED <<data, ceExtents, meDesc, staleOpen>>
      BY <1>5 DEF Unlink, slots, copies
    <2>2. \A f \in Files : link'[CachePath[f]] \in {None, link[CachePath[f]]}
      BY <1>b, <1>d, <2>1
    <2>3. Copies'
      BY <1>a, <1>e, <2>1, <2>2
    <2>4. \A fd \in Fds : Fine(fd)'
      BY <1>a, <1>b, <1>e, <2>1
    <2> QED
      BY <1>a, <2>1, <2>3, <2>4
  <1>6. CASE FreeEntry
    BY <1>6, <1>f DEF FreeEntry, slots
  <1>7. ASSUME NEW f \in Files, InsertBegin(f) PROVE Goal
    BY <1>7, <1>f DEF InsertBegin, slots, copies
  <1>8. ASSUME NEW e \in Entries, InsertEntry(e) PROVE Goal
    BY <1>8, <1>f DEF InsertEntry, slots
  <1>9. ASSUME NEW i \in Inodes, CopyCreate(i) PROVE Goal
    <2>1. /\ lpc = "create" /\ lpath \in Files
          /\ link' = [link EXCEPT ![CachePath[lpath]] = i]
          /\ data' = [data EXCEPT ![i] = Blank]
          /\ UNCHANGED <<meDesc, ceExtents, staleOpen>>
      BY <1>9, <1>b DEF CopyCreate, slots, EntryInv
    <2>2. link[CachePath[lpath]] = None
      BY <2>1 DEF CopyInv
    <2>3. /\ \A f \in Files : link[CachePath[f]] # i
          /\ \A fd \in Fds : meDesc[fd] # i
      BY <1>9, <1>d, <2>1, <2>2 DEF CopyCreate, CachePaths
    <2>4. \A f \in Files : link'[CachePath[f]] =
            IF f = lpath THEN i ELSE link[CachePath[f]]
      BY <1>b, <1>d, <2>1
    <2>5. \A j \in Inodes : j # i =>
            \A f : FirstValues(j, f)' <=> FirstValues(j, f)
      BY <1>b, <2>1 DEF FirstValues
    <2>6. \A f : FirstValues(i, f)'
      BY <1>b, <2>1 DEF FirstValues, Blank
    <2>7. \A f \in Files : link[CachePath[f]] # None => link[CachePath[f]] \in Inodes
      BY <1>b, <1>d
    <2>8. Copies'
      BY <1>a, <2>3, <2>4, <2>5, <2>6, <2>7
    <2>9. \A fd \in Fds : Fine(fd)'
      BY <1>a, <1>b, <2>1, <2>3, <2>5
    <2> QED
      BY <1>a, <2>1, <2>8, <2>9
  <1>10. CASE CopyBlock
    <2>1. PICK i : i = link[CachePath[lpath]]
      OBVIOUS
    <2>2. PICK b : b = First(Missing)
      OBVIOUS
    <2>a. PICK p : p = lpath
      OBVIOUS
    <2>3. /\ lpc = "copy" /\ Missing # {} /\ lpath \in Files /\ i # None
          /\ data' = [data EXCEPT ![i][b] = src[lpath][b]]
          /\ UNCHANGED <<link, meDesc, ceExtents, staleOpen>>
      BY <1>10, <1>b, <2>1, <2>2 DEF CopyBlock, slots, EntryInv, CopyInv
    <2>4. b \in BlockSet /\ i \in Inodes
      BY <1>b, <1>d, <2>1, <2>2, <2>3, FirstBlock, AclAssumption DEF Missing
    <2>5. src[lpath][b] = <<p, 0>>
      BY <2>a, <2>3, <2>4 DEF ReadInv
    <2>6. \A j \in Inodes : j # i =>
            \A f : FirstValues(j, f)' <=> FirstValues(j, f)
      BY <1>b, <2>3 DEF FirstValues
    <2>7. FirstValues(i, p) => FirstValues(i, p)'
      <3>1. \A c \in BlockSet : data'[i][c] \in {data[i][c], <<p, 0>>}
        BY <1>b, <2>3, <2>4, <2>5 DEF Contents
      <3> QED
        BY <3>1 DEF FirstValues
    <2>8. ASSUME NEW f \in Files, link[CachePath[f]] # None
          PROVE  FirstValues(link[CachePath[f]], f)'
      <3>1. PICK j : j = link[CachePath[f]]
        OBVIOUS
      <3>2. j \in Inodes /\ FirstValues(j, f)
        BY <1>a, <1>b, <1>d, <2>8, <3>1
      <3>3. j = i => f = p
        BY <2>1, <2>a, <2>3, <2>8, <3>1 DEF CopyInv
      <3>4. FirstValues(j, f)'
        BY <2>6, <2>7, <3>2, <3>3
      <3> QED
        BY <2>3, <3>1, <3>4
    <2>9. ASSUME NEW fd \in Fds, meDesc[fd] # None, fd \notin staleOpen
          PROVE  FirstValues(meDesc[fd], mePath[fd])'
      <3>1. PICK j : j = meDesc[fd]
        OBVIOUS
      <3>2. PICK f : f = mePath[fd]
        OBVIOUS
      <3>3. j \in Inodes /\ FirstValues(j, f)
        BY <1>a, <1>b, <2>9, <3>1, <3>2
      <3>4. ASSUME j = i PROVE f = p
        <4>1. ~Complete(i)
          BY <2>1, <2>3 DEF Missing, Complete
        <4>2. meEntry[fd] = lentry
          BY <2>9, <3>1, <3>4, <4>1 DEF CopyInv
        <4>3. lentry # None /\ lookup[lpath] = lentry /\ ceSource[lentry] = lpath
          BY <1>b, <1>c, <2>3 DEF EntryInv, CoreInv, TypeOK
        <4>4. mePath[fd] # None /\ lookup[mePath[fd]] = lentry
          BY <2>3, <2>9, <4>2, <4>3 DEF TableInv, HasVictim, Evicting
        <4> QED
          BY <1>b, <2>a, <3>2, <4>3, <4>4 DEF EntryInv
      <3>5. FirstValues(j, f)'
        BY <2>6, <2>7, <3>3, <3>4
      <3> QED
        BY <1>b, <2>3, <3>1, <3>2, <3>5
    <2>10. Copies' /\ \A fd \in Fds : Fine(fd)'
      BY <1>b, <2>3, <2>8, <2>9
    <2> QED
      BY <1>a, <2>3, <2>10
  <1>11. CASE CopyDone
    BY <1>11, <1>f DEF CopyDone, slots
  <1>14. CASE CopyCut
    <2>0. PICK i : i = link[CachePath[lpath]]
      OBVIOUS
    <2>1. /\ UNCHANGED <<link, meDesc, staleOpen, ceExtents>>
          /\ data' = [data EXCEPT ![i] =
                        [b \in BlockSet |-> IF b \in Missing THEN Absent
                                                              ELSE data[i][b]]]
      BY <1>14, <2>0 DEF CopyCut, slots
    <2>2. ASSUME NEW j \in Inodes, NEW f, FirstValues(j, f) PROVE FirstValues(j, f)'
      <3>1. ASSUME NEW b \in BlockSet PROVE data'[j][b] \in {data[j][b], Absent}
        BY <1>b, <2>1
      <3> QED
        BY <2>2, <3>1 DEF FirstValues
    <2>3. ASSUME NEW f \in Files, link[CachePath[f]] # None
          PROVE  FirstValues(link[CachePath[f]], f)'
      <3>1. PICK j : j = link[CachePath[f]]
        OBVIOUS
      <3>2. j \in Inodes /\ FirstValues(j, f)
        BY <1>a, <1>b, <2>3, <3>1 DEF CachePaths
      <3>3. FirstValues(j, f)'
        BY <2>2, <3>2
      <3> QED
        BY <2>1, <3>1, <3>3
    <2>4. ASSUME NEW fd \in Fds, meDesc[fd] # None, fd \notin staleOpen
          PROVE  FirstValues(meDesc[fd], mePath[fd])'
      <3>1. PICK j, f : j = meDesc[fd] /\ f = mePath[fd]
        OBVIOUS
      <3>2. j \in Inodes /\ FirstValues(j, f)
        BY <1>a, <1>b, <2>4, <3>1
      <3>3. FirstValues(j, f)'
        BY <2>2, <3>2
      <3> QED
        BY <1>b, <2>1, <3>1, <3>3
    <2>5. Copies' /\ \A fd \in Fds : Fine(fd)'
      BY <1>b, <2>1, <2>3, <2>4
    <2> QED
      BY <1>a, <2>1, <2>5
  <1>12. CASE Attach
    <2>1. /\ UNCHANGED <<link, data, ceExtents>> /\ lpath \in Files
      BY <1>12, <1>b DEF Attach, copies, EntryInv
    <2>2. \A fd \in Fds : fd # lscan => /\ meDesc'[fd] = meDesc[fd]
                                        /\ fd \in staleOpen' <=> fd \in staleOpen
      BY <1>12, <1>b DEF Attach
    <2>3. PICK d \in Fds : d = lscan
      BY <1>b
    <2>4. Fine(d)'
      <3>1. CASE NeedsDescriptor(lscan)
        <4>1. mePath[d] = lpath /\ meDesc'[d] = link[CachePath[lpath]]
          BY <1>12, <1>b, <2>3, <3>1 DEF Attach, NeedsDescriptor
        <4> QED
          BY <1>a, <1>b, <1>e, <2>1, <4>1
      <3>2. CASE ~NeedsDescriptor(lscan)
        BY <1>12, <1>a, <1>b, <1>e, <2>1, <3>2 DEF Attach
      <3> QED
        BY <3>1, <3>2
    <2>5. ASSUME NEW fd \in Fds PROVE Fine(fd)'
      <3>1. CASE fd = d
        BY <2>4, <3>1
      <3>2. CASE fd # d
        <4>1. /\ meDesc'[fd] = meDesc[fd] /\ mePath'[fd] = mePath[fd]
              /\ fd \in staleOpen' <=> fd \in staleOpen
          BY <1>b, <2>2, <2>3, <3>2
        <4>2. Fine(fd)
          BY <1>a
        <4> QED
          BY <1>e, <2>1, <4>1, <4>2
      <3> QED
        BY <3>1, <3>2
    <2>6. Copies'
      BY <1>a, <1>e, <2>1
    <2> QED
      BY <1>a, <2>1, <2>5, <2>6
  <1>13. ASSUME NEW why, Stop(why) PROVE Goal
    BY <1>13, <1>f DEF Stop, files, slots, copies, history
  <1> HIDE DEF Goal
  <1> QED
    BY <1>1, <1>2, <1>3, <1>4, <1>5, <1>6, <1>7, <1>8, <1>9, <1>10, <1>11,
       <1>12, <1>13, <1>14, LookaheadActions, Zenon

LEMMA ReadStep ==
  ASSUME DistinctCopies, ReadOnly
  PROVE  CoreInv /\ TableInv /\ CopyInv /\ ReadInv /\ [Next]_vars => ReadInv'
  <1>1. ReadInv /\ UNCHANGED vars => ReadInv'
    BY DEF vars, files, slots, copies, app, history, ReadInv, FirstValues
  <1> QED
    BY <1>1, ReadKeptByThread, ReadKeptByLookahead DEF Next, Ended

LEMMA ReadInvariant ==
  ASSUME DistinctCopies, ReadOnly
  PROVE  Spec => []ReadInv
  <1>1. CoreInv /\ TableInv /\ CopyInv /\ ReadInv /\ [Next]_vars => ReadInv'
    BY ReadStep
  <1>2. Spec => []CopyInv
    BY CopyInvariant
  <1> QED
    BY <1>1, <1>2, CoreInvariant, TableInvariant, ReadInit, PTL DEF Spec

\* While the application only reads, a slot has open the copy of the file it was
\* opened for, unless acl_open filled it from an entry that was no longer current.
THEOREM CopiesOfOwnFiles ==
  ASSUME DistinctCopies, ReadOnly
  PROVE  Spec => []CopyOfOwnFile
  <1>1. ASSUME TypeOK, TableInv, ReadInv PROVE CopyOfOwnFile
    <2> SUFFICES ASSUME NEW fd \in Fds, meDesc[fd] # None, fd \notin staleOpen,
                        NEW b \in BlockSet
                 PROVE  data[meDesc[fd]][b]
                          \in ({mePath[fd]} \X Nat) \cup {None, Absent}
      BY DEF CopyOfOwnFile
    <2>1. data[meDesc[fd]][b] \in {<<mePath[fd], 0>>, None, Absent}
      BY <1>1 DEF ReadInv, FirstValues
    <2> QED
      BY <2>1
  <1>2. Spec => []ReadInv
    BY ReadInvariant
  <1> QED
    BY <1>1, <1>2, TypeCorrect, TableInvariant, PTL

LEMMA FileInit == Init => FileInv
  BY DEF Init, FileInv

\* The steps of a thread keep FileInv.
LEMMA FileKeptByThread ==
  ASSUME OwnOpens, CoreInv, FileInv, NEW t \in Threads, ThreadStep(t)
  PROVE  FileInv'
  <1>1. PICK fd \in Fds : fd = Slot(t)
    BY CallSlot
  <1>2. /\ mePath \in [Fds -> Files \cup {None}]
        /\ fdFile \in [Fds -> Files \cup {None}]
        /\ pc \in [Threads -> Points] /\ call \in [Threads -> Calls]
    BY DEF CoreInv, TypeOK
  <1> DEFINE Using(u, d) == Slot(u) = d /\ pc[u] \in {"retrieve", "map", "close"}
             Fine(d) == fdFile[d] # None =>
                          mePath[d] = fdFile[d] \/ \E u \in Threads : Using(u, d)
  <1>3. ASSUME NEW d \in Fds, mePath'[d] = mePath[d], fdFile'[d] = fdFile[d],
               Using(t, d) => Using(t, d)'
        PROVE  Fine(d)'
    <2>1. \A u \in Threads : Using(u, d) => Using(u, d)'
      BY <1>3, OtherCalls DEF Slot
    <2> QED
      BY <1>3, <2>1 DEF FileInv
  <1>4. ASSUME UNCHANGED <<mePath, fdFile>>, pc[t] \notin {"retrieve", "map", "close"}
        PROVE  FileInv'
    <2>1. \A d \in Fds : Fine(d)'
      BY <1>3, <1>4
    <2> QED
      BY <2>1 DEF FileInv
  <1>5. ASSUME UNCHANGED <<mePath, fdFile>>, Slot(t)' = Slot(t),
               (pc[t] = "retrieve" /\ pc'[t] = "map") \/ pc'[t] = pc[t]
        PROVE  FileInv'
    <2>1. \A d \in Fds : Fine(d)'
      BY <1>3, <1>5
    <2> QED
      BY <2>1 DEF FileInv
  <1>6. ASSUME NEW f \in Files, OpenSource(t, f) PROVE FileInv'
    <2>1. PICK n \in Fds : /\ fdFile' = [fdFile EXCEPT ![n] = f]
                           /\ call' = [call EXCEPT ![t] = Call("open", n, None, None)]
      BY <1>6 DEF OpenSource
    <2>a. pc[t] = "idle" /\ pc'[t] = "retrieve" /\ mePath' = mePath
      BY <1>2, <1>6 DEF OpenSource, Goto, slots
    <2>b. Slot(t)' = n
      BY <1>2, <2>1 DEF Slot, Call
    <2>2. Fine(n)'
      BY <2>a, <2>b
    <2>3. ASSUME NEW d \in Fds, d # n PROVE Fine(d)'
      BY <1>2, <1>3, <2>1, <2>a, <2>3
    <2> QED
      BY <2>2, <2>3 DEF FileInv
  <1>7. ASSUME NEW f \in Files, OpenForeign(t, f) \/ Advise(t, f) PROVE FileInv'
    BY <1>5, <1>7 DEF OpenForeign, Advise, OwnOpens, slots, app, Slot
  <1>8. ASSUME NEW op, NEW d, NEW b, Begin(t, op, d, b) PROVE FileInv'
    BY <1>4, <1>8 DEF Begin, slots
  <1>9. CASE RetrieveCache(t)
    BY <1>2, <1>5, <1>9 DEF RetrieveCache, slots, Goto, Call, Slot
  <1>10. CASE OpenMap(t)
    <2>1. /\ mePath' = [mePath EXCEPT ![fd] = fdFile[fd]] /\ fdFile' = fdFile
      BY <1>1, <1>10 DEF OpenMap
    <2>2. Fine(fd)'
      BY <1>2, <2>1
    <2>3. ASSUME NEW d \in Fds, d # fd PROVE Fine(d)'
      BY <1>1, <1>2, <1>3, <2>1, <2>3
    <2> QED
      BY <2>2, <2>3 DEF FileInv
  <1>11. CASE LockSlot(t) \/ Request(t)
    BY <1>4, <1>11 DEF LockSlot, Request, slots
  <1>12. CASE ReadDirect(t) \/ WriteDirect(t) \/ ReadCached(t) \/ WriteCached(t)
    BY <1>4, <1>12 DEF ReadDirect, WriteDirect, ReadCached, WriteCached, slots
  <1>13. CASE FlushLock(t) \/ FlushExtent(t)
    BY <1>4, <1>13 DEF FlushLock, FlushExtent, slots
  <1>14. CASE FlushDone(t)
    <2>1. CASE call[t].op = "close"
      <3>1. /\ mePath' = [mePath EXCEPT ![fd] = None] /\ fdFile' = fdFile
            /\ pc[t] = "pop" /\ pc'[t] = "close" /\ Slot(t)' = fd
        BY <1>1, <1>2, <1>14, <2>1 DEF FlushDone, Goto, Slot
      <3>2. Using(t, fd)'
        BY <3>1
      <3>3. ASSUME NEW d \in Fds, d # fd PROVE Fine(d)'
        BY <1>1, <1>2, <1>3, <3>1, <3>3
      <3> QED
        BY <3>2, <3>3 DEF FileInv
    <2>2. CASE call[t].op # "close"
      BY <1>4, <1>14, <2>2 DEF FlushDone
    <2> QED
      BY <2>1, <2>2
  <1>15. CASE CloseSource(t)
    <2>1. /\ fdFile' = [fdFile EXCEPT ![fd] = None] /\ mePath' = mePath
      BY <1>1, <1>15 DEF CloseSource, slots
    <2>2. ASSUME NEW d \in Fds, d # fd PROVE Fine(d)'
      BY <1>1, <1>2, <1>3, <2>1, <2>2
    <2> QED
      BY <1>2, <2>1, <2>2 DEF FileInv
  <1>16. ASSUME NEW why, Stop(why) PROVE FileInv'
    BY <1>5, <1>16 DEF Stop, slots, app, Slot
  <1> QED
    BY <1>6, <1>7, <1>8, <1>9, <1>10, <1>11, <1>12, <1>13, <1>14, <1>15, <1>16,
       ThreadActions, Zenon

LEMMA FileInvariant ==
  ASSUME OwnOpens
  PROVE  Spec => []FileInv
  <1>1. CoreInv /\ FileInv /\ [Next]_vars => FileInv'
    <2>1. FileInv /\ UNCHANGED <<mePath, fdFile, app>> => FileInv'
      BY DEF FileInv, app, Slot
    <2>2. UNCHANGED vars => UNCHANGED <<mePath, fdFile, app>>
      BY DEF vars, slots
    <2>3. LookaheadStep => UNCHANGED <<mePath, fdFile, app>>
      BY DEF LookaheadStep
    <2> QED
      BY <2>1, <2>2, <2>3, FileKeptByThread DEF Next, Ended
  <1> QED
    BY <1>1, CoreInvariant, FileInit, PTL DEF Spec

\* The call of a thread that is a read ends when the read is made.
LEMMA ReadEnds ==
  ASSUME CoreInv, [Next]_vars, NEW t \in Threads,
         call[t].op = "read", call'[t].op = "none"
  PROVE  ReadDirect(t) \/ ReadCached(t)
  <1> DEFINE Goal == ReadDirect(t) \/ ReadCached(t)
  <1>0. call \in [Threads -> Calls] /\ CallOk(t)
    BY DEF CoreInv, TypeOK, CallInv
  <1>1. ASSUME NEW u \in Threads, ThreadStep(u) PROVE ThreadStep(t)
    <2>1. u = t
      BY <1>1, OtherCalls
    <2> QED
      BY <1>1, <2>1
  <1>2. ThreadStep(t)
    <2>1. call' # call
      BY <1>0
    <2>2. ~ UNCHANGED vars /\ ~ LookaheadStep
      BY <2>1 DEF vars, LookaheadStep, app
    <2> QED
      BY <1>1, <2>2 DEF Next, Ended
  <1>3. ASSUME NEW f \in Files,
               OpenSource(t, f) \/ OpenForeign(t, f) \/ Advise(t, f)
        PROVE  Goal
    BY <1>0, <1>3 DEF OpenSource, OpenForeign, Advise, app, CallOk
  <1>4. ASSUME NEW op, NEW d, NEW b, Begin(t, op, d, b) PROVE Goal
    BY <1>0, <1>4 DEF Begin, CallOk
  <1>5. CASE RetrieveCache(t) \/ OpenMap(t) \/ LockSlot(t) \/ Request(t)
    BY <1>0, <1>5 DEF RetrieveCache, OpenMap, LockSlot, Request, CallOk
  <1>6. CASE WriteDirect(t) \/ WriteCached(t) \/ FlushLock(t) \/ FlushExtent(t)
             \/ FlushDone(t) \/ CloseSource(t)
    BY <1>0, <1>6 DEF WriteDirect, WriteCached, FlushLock, FlushExtent, FlushDone,
       CloseSource, app, CallOk
  <1>7. ASSUME NEW why, Stop(why) PROVE Goal
    BY <1>0, <1>7 DEF Stop, app
  <1> QED
    BY <1>2, <1>3, <1>4, <1>5, <1>6, <1>7, ThreadActions, Zenon

\* Whatever the cache does meanwhile, an application that only reads reads from each
\* file what the file holds: never another file's block, nor a block of a copy that
\* is not there yet; only from a copy that a read error cut short it may read nothing.
THEOREM ReadersReadLatest ==
  ASSUME DistinctCopies, ReadOnly, OwnOpens
  PROVE  Spec => ReadsLatest
  <1>1. ASSUME CoreInv, TableInv, CopyInv, ReadInv, FileInv, [Next]_vars,
               NEW t \in Threads, ReadReturns(t)
        PROVE  LET f == fdFile[Slot(t)]
                   b == call[t].block
               IN  buffer'[t] = <<f, latest[f][b]>> \/ FindsCopyCut(t)
    <2> DEFINE fd == Slot(t)
               f == fdFile[fd]
               b == call[t].block
    <2>0. /\ call[t].op = "read" /\ call'[t].op = "none"
          /\ Slot(t) \notin staleOpen
      BY <1>1 DEF ReadReturns
    <2>1. /\ fd \in Fds /\ buffer \in [Threads -> BlockData]
          /\ meEntry \in [Fds -> Entries \cup {None}]
      BY <1>1, <2>0, CallSlot DEF CoreInv, TypeOK
    <2>2. pc[t] # "idle" /\ f \in Files /\ b \in BlockSet
      BY <1>1, <2>0, CallSlot DEF CoreInv, CallInv, CallOk
    <2>3. src[f][b] = <<f, 0>> /\ latest[f][b] = 0
      BY <1>1, <2>2 DEF ReadInv
    <2>4. CASE ReadDirect(t)
      BY <2>1, <2>3, <2>4 DEF ReadDirect
    <2>5. CASE ReadCached(t)
      <3>1. /\ pc[t] = "cached" /\ meDesc[fd] # None
            /\ Entry(t) \in live /\ ceMutex[Entry(t)] = None
            /\ buffer'[t] = data[meDesc[fd]][b]
        BY <2>1, <2>5 DEF ReadCached, EntryMutexFree
      <3>2. mePath[fd] = f
        <4>1. ASSUME NEW u \in Threads, Slot(u) = fd
              PROVE  pc[u] \notin {"retrieve", "map", "close"}
          <5>1. CASE u = t
            BY <3>1, <5>1
          <5>2. CASE u # t
            BY <1>1, <2>0, <2>2, <4>1, <5>2
               DEF CoreInv, CallInv, CallOk, UseInv, Overlap
          <5> QED
            BY <5>1, <5>2
        <4>2. f # None
          BY <2>2, AclAssumption
        <4> QED
          BY <1>1, <2>1, <4>1, <4>2 DEF FileInv
      <3>3. Complete(meDesc[fd])
        <4>1. Lookahead # None
          BY AclAssumption DEF Procs
        <4> QED
          <5>1. CASE Complete(meDesc[fd])
            BY <5>1
          <5>2. CASE lpc = "copy" /\ meEntry[fd] = lentry
            <6>1. lentry \in Entries /\ ceMutex[lentry] = Lookahead
              BY <1>1, <5>2 DEF CoreInv, TypeOK, LockInv, EntryInv
            <6> QED
              BY <3>1, <4>1, <5>2, <6>1 DEF Entry
          <5> QED
            BY <1>1, <2>1, <3>1, <5>1, <5>2 DEF CopyInv, Copying
      <3>4. data[meDesc[fd]][b] \in {<<f, 0>>, None, Absent}
        BY <1>1, <2>0, <2>1, <2>2, <3>1, <3>2 DEF ReadInv, FirstValues
      <3>5. data[meDesc[fd]][b] = Absent => FindsCopyCut(t)
        <4>1. meEntry[fd] # None
          BY <1>1, <3>1, AclAssumption DEF Entry, CoreInv, TypeOK
        <4> QED
          BY <2>3, <3>1, <4>1 DEF FindsCopyCut
      <3> QED
        BY <2>2, <2>3, <3>1, <3>3, <3>4, <3>5 DEF Complete
    <2> QED
      BY <1>1, <2>0, <2>4, <2>5, ReadEnds
  <1>2. CoreInv /\ TableInv /\ CopyInv /\ ReadInv /\ FileInv /\ [Next]_vars =>
          [\A t \in Threads :
             ReadReturns(t) =>
               LET f == fdFile[Slot(t)]
                   b == call[t].block
               IN  buffer'[t] = <<f, latest[f][b]>> \/ FindsCopyCut(t)]_vars
    BY <1>1
  <1>3. (Spec => []CopyInv) /\ (Spec => []ReadInv) /\ (Spec => []FileInv)
    BY CopyInvariant, ReadInvariant, FileInvariant
  <1> QED
    BY <1>2, <1>3, CoreInvariant, TableInvariant, PTL DEF Spec, ReadsLatest

-----------------------------------------------------------------------------
(* An application that writes, while nothing is evicted.                   *)

LEMMA RoomInit == Init => RoomInv
  <1> SUFFICES ASSUME Init PROVE RoomInv
    OBVIOUS
  <1>1. Cached = {} /\ cSize = 0 /\ ~HasVictim
    BY DEF Init, Cached, HasVictim, Evicting
  <1>2. ASSUME NEW total \in FileTotals PROVE cSize = total[Cached]
    <2>1. total[{}] = 0
      BY DEF FileTotals, IsFileTotal
    <2> QED
      BY <1>1, <2>1
  <1> QED
    BY <1>1, <1>2 DEF RoomInv

\* There is room for the file that insert_cache works on.
LEMMA AlwaysFits ==
  ASSUME RoomForAll, CoreInv, RoomInv, lpc = "evict"
  PROVE  Fits
  <1>1. PICK total : total \in FileTotals
    BY DEF RoomForAll
  <1> DEFINE R == Cached \cup {lpath}
  <1>2. lpath \in Files /\ lookup[lpath] = None
    BY DEF CoreInv, EntryInv, Evicting
  <1>3. R \in SUBSET Files /\ lpath \in R /\ R \ {lpath} = Cached
    BY <1>2 DEF Cached
  <1>4. /\ total[R] \in 0 .. Capacity
        /\ total[R] = Size[lpath] + total[Cached]
    BY <1>1, <1>3 DEF FileTotals, IsFileTotal
  <1>5. cSize = total[Cached] /\ total[Cached] \in 0 .. Capacity
    BY <1>1, <1>3 DEF RoomInv, FileTotals
  <1>6. Size[lpath] \in Nat /\ Capacity \in Nat
    BY <1>2, AclAssumption
  <1> HIDE DEF R
  <1> QED
    BY <1>4, <1>5, <1>6 DEF Fits

\* What the lookahead thread still does then: it has no victim.
LEMMA OnlyInserts ==
  ASSUME RoomForAll, CoreInv, RoomInv, LookaheadStep
  PROVE  \/ \E f \in Files : InsertBegin(f)
         \/ \E e \in Entries : InsertEntry(e)
         \/ \E i \in Inodes : CopyCreate(i)
         \/ CopyBlock \/ CopyDone \/ CopyCut \/ Attach
         \/ \E why \in {"exited", "use_after_free", "empty_heap"} : Stop(why)
  <1>1. lpc \notin {"detach", "detach_entry", "unlink", "free"}
    BY DEF RoomInv, HasVictim, Evicting
  <1>2. ~(DetachSkip \/ DetachLock \/ DetachEntry \/ Unlink \/ FreeEntry)
    BY <1>1 DEF DetachSkip, DetachLock, DetachEntry, Unlink, FreeEntry
  <1>3. ASSUME NEW v \in Entries PROVE ~EvictVictim(v)
    BY AlwaysFits DEF EvictVictim
  <1> QED
    BY <1>2, <1>3, LookaheadActions, Zenon

LEMMA RoomStep ==
  ASSUME RoomForAll
  PROVE  CoreInv /\ RoomInv /\ [Next]_vars => RoomInv'
  <1> SUFFICES ASSUME CoreInv, RoomInv, [Next]_vars PROVE RoomInv'
    OBVIOUS
  <1>1. ASSUME UNCHANGED <<lookup, cSize>>, lpc' \notin Evicting \ {"evict"}
        PROVE  RoomInv'
    BY <1>1 DEF RoomInv, HasVictim, Cached
  <1>2. ASSUME UNCHANGED <<lookup, cSize, lpc>> PROVE RoomInv'
    BY <1>2, <1>1 DEF RoomInv, HasVictim
  <1>3. CASE LookaheadStep
    <2>1. ASSUME NEW f \in Files, InsertBegin(f) PROVE RoomInv'
      BY <1>1, <2>1 DEF InsertBegin, LGoto
    <2>2. ASSUME NEW e \in Entries, InsertEntry(e) PROVE RoomInv'
      <3>1. /\ lookup' = [lookup EXCEPT ![lpath] = e]
            /\ lookup \in [Files -> Entries \cup {None}]
            /\ cSize' = cSize + Size[lpath] /\ lpc' = "create"
            /\ lpath \in Files /\ lookup[lpath] = None /\ e # None
        BY <2>2, AclAssumption
           DEF InsertEntry, LGoto, CoreInv, TypeOK, EntryInv, Evicting
      <3>2. /\ Cached' = Cached \cup {lpath}
            /\ Cached' \in SUBSET Files /\ lpath \in Cached'
            /\ Cached' \ {lpath} = Cached
        BY <3>1 DEF Cached
      <3>3. ASSUME NEW total \in FileTotals PROVE cSize' = total[Cached']
        <4>1. total[Cached'] = Size[lpath] + total[Cached]
          BY <3>2, <3>3 DEF FileTotals, IsFileTotal
        <4>2. cSize = total[Cached]
          BY <3>3 DEF RoomInv
        <4>3. cSize \in Int /\ Size[lpath] \in Nat
          BY <3>1, AclAssumption DEF CoreInv, TypeOK
        <4> QED
          BY <3>1, <4>1, <4>2, <4>3
      <3>4. ~HasVictim'
        BY <3>1 DEF HasVictim, Evicting
      <3>5. FileTotals' = FileTotals
        BY DEF FileTotals, IsFileTotal
      <3> QED
        BY <3>3, <3>4, <3>5 DEF RoomInv
    <2>3. ASSUME NEW i \in Inodes, CopyCreate(i) PROVE RoomInv'
      BY <1>1, <2>3 DEF CopyCreate, LGoto, cache, Evicting
    <2>4. CASE CopyBlock
      BY <1>2, <2>4 DEF CopyBlock, cache, ahead
    <2>5. CASE CopyDone \/ CopyCut
      BY <1>1, <2>5 DEF CopyDone, CopyCut, LGoto, cache, Evicting
    <2>6. CASE Attach
      BY <1>1, <2>6 DEF Attach, LGoto, cache, Evicting
    <2>7. ASSUME NEW why, Stop(why) PROVE RoomInv'
      BY <1>2, <2>7 DEF Stop, cache, ahead
    <2> QED
      BY <1>3, <2>1, <2>2, <2>3, <2>4, <2>5, <2>6, <2>7, OnlyInserts, Zenon
  <1>4. ASSUME NEW t \in Threads, ThreadStep(t) PROVE RoomInv'
    BY <1>2, <1>4 DEF ThreadStep, cache, ahead
  <1>5. ASSUME UNCHANGED vars PROVE RoomInv'
    BY <1>2, <1>5 DEF vars, cache, ahead
  <1> QED
    BY <1>3, <1>4, <1>5 DEF Next, Ended

LEMMA RoomInvariant ==
  ASSUME RoomForAll
  PROVE  Spec => []RoomInv
  <1>1. CoreInv /\ RoomInv /\ [Next]_vars => RoomInv'
    BY RoomStep
  <1> QED
    BY <1>1, CoreInvariant, RoomInit, PTL DEF Spec

LEMMA StayInit == Init => StayInv
  BY DEF Init, StayInv

\* A call is between retrieve_cache and the filling of the slot once retrieve_cache
\* has returned, and nothing else it does is in between.
LEMMA MapSteps ==
  ASSUME CoreInv, NEW t \in Threads, ThreadStep(t), pc'[t] = "map"
  PROVE  \/ RetrieveCache(t)
         \/ pc[t] = "map" /\ call'[t] = call[t] /\ fdFile' = fdFile
  <1> DEFINE Goal == \/ RetrieveCache(t)
                     \/ pc[t] = "map" /\ call'[t] = call[t] /\ fdFile' = fdFile
  <1> SUFFICES Goal
    OBVIOUS
  <1>0. pc \in [Threads -> Points]
    BY DEF CoreInv, TypeOK
  <1>1. ASSUME NEW f \in Files,
               OpenSource(t, f) \/ OpenForeign(t, f) \/ Advise(t, f)
        PROVE  Goal
    BY <1>0, <1>1 DEF OpenSource, OpenForeign, Advise, Goto, app
  <1>2. ASSUME NEW op, NEW d, NEW b, Begin(t, op, d, b) PROVE Goal
    BY <1>0, <1>2 DEF Begin, Goto
  <1>3. CASE RetrieveCache(t) \/ OpenMap(t) \/ LockSlot(t) \/ Request(t)
    BY <1>0, <1>3 DEF OpenMap, LockSlot, Request, Goto, Return
  <1>4. CASE ReadDirect(t) \/ WriteDirect(t) \/ ReadCached(t) \/ WriteCached(t)
    BY <1>0, <1>4 DEF ReadDirect, WriteDirect, ReadCached, WriteCached, Goto, Return
  <1>5. CASE FlushLock(t) \/ FlushExtent(t) \/ FlushDone(t) \/ CloseSource(t)
    BY <1>0, <1>5 DEF FlushLock, FlushExtent, FlushDone, CloseSource, Goto, Return, app
  <1>6. ASSUME NEW why, Stop(why) PROVE Goal
    BY <1>6 DEF Stop, app
  <1> HIDE DEF Goal
  <1> QED
    BY <1>1, <1>2, <1>3, <1>4, <1>5, <1>6, ThreadActions, Zenon

\* A thread fills a slot with the current entry of the file it opened.
LEMMA StayKeptByThread ==
  ASSUME CoreInv, TableInv, StayInv, NEW t \in Threads, ThreadStep(t)
  PROVE  StayInv'
  <1> DEFINE SlotOk(d) ==
               /\ meEntry[d] # None =>
                    mePath[d] # None /\ meEntry[d] = lookup[mePath[d]]
               /\ meDesc[d] # None => meDesc[d] = link[CachePath[mePath[d]]]
             CallFits(u) == pc[u] = "map" /\ call[u].entry # None =>
                              call[u].entry = lookup[fdFile[Slot(u)]]
  <1>1. UNCHANGED <<link, lookup, ceSource>>
    BY DEF ThreadStep, entries, cache
  <1>2. PICK fd \in Fds : fd = Slot(t)
    BY CallSlot
  <1>3. /\ mePath \in [Fds -> Files \cup {None}]
        /\ meEntry \in [Fds -> Entries \cup {None}]
        /\ meDesc \in [Fds -> Inodes \cup {None}]
        /\ fdFile \in [Fds -> Files \cup {None}]
        /\ pc \in [Threads -> Points] /\ call \in [Threads -> Calls]
    BY DEF CoreInv, TypeOK
  <1>4. \A d \in Fds : SlotOk(d)
    BY DEF StayInv
  <1>5. ASSUME NEW d \in Fds PROVE SlotOk(d)'
    <2>1. CASE KeepsTable \/ (d # fd /\ ~KeepsTable)
      <3>1. /\ meEntry'[d] = meEntry[d] /\ meDesc'[d] = meDesc[d]
            /\ mePath'[d] = mePath[d]
        BY <1>2, <1>3, <2>1, TableSteps DEF KeepsTable, OpenMap, ClosesDesc, EmptiesSlot
      <3> QED
        BY <1>1, <1>4, <3>1
    <2>2. CASE d = fd /\ (ClosesDesc(t) \/ EmptiesSlot(t))
      BY <1>1, <1>2, <1>3, <1>4, <2>2 DEF ClosesDesc, EmptiesSlot
    <2>3. CASE d = fd /\ OpenMap(t)
      <3> DEFINE e == call[t].entry
                 f == fdFile[fd]
      <3>1. /\ pc[t] = "map" /\ mePath'[fd] = f /\ meEntry'[fd] = e
            /\ meDesc'[fd] = IF e = None THEN None ELSE link[CachePath[ceSource[e]]]
        BY <1>2, <1>3, <2>3 DEF OpenMap
      <3>2. f \in Files /\ f # None
        BY <1>2, <3>1, CallSlot, AclAssumption
      <3>3. e # None => e = lookup[f] /\ ceSource[e] = f
        BY <1>2, <3>1, <3>2 DEF StayInv, CoreInv, EntryInv
      <3> QED
        BY <1>1, <2>3, <3>1, <3>2, <3>3
    <2> QED
      BY <2>1, <2>2, <2>3, TableSteps
  <1>6. ASSUME NEW u \in Threads, u # t PROVE CallFits(u)'
    <2>1. /\ pc'[u] = pc[u] /\ call'[u] = call[u] /\ Slot(u)' = Slot(u)
          /\ CallFits(u)
      BY <1>6, OtherCalls DEF Slot, StayInv
    <2>2. ASSUME pc[u] = "map" PROVE fdFile'[Slot(u)] = fdFile[Slot(u)]
      <3>1. Slot(u) \in Fds /\ fdFile[Slot(u)] # None /\ call[u].op = "open"
        BY <2>2, CallSlot, AclAssumption DEF CoreInv, CallInv, CallOk
      <3>2. Slot(u) # Slot(t) \/ call[t].op \notin {"open", "close"}
        BY <1>6, <3>1 DEF CoreInv, UseInv, Overlap
      <3> QED
        BY <3>1, <3>2, TableThread
    <2> QED
      BY <1>1, <2>1, <2>2
  <1>7. CallFits(t)'
    <2>2. CASE RetrieveCache(t)
      BY <1>1, <1>2, <1>3, <2>2 DEF RetrieveCache, Slot, Call
    <2>3. CASE ~RetrieveCache(t)
      BY <1>1, <2>3, MapSteps DEF StayInv, Slot
    <2> QED
      BY <2>2, <2>3
  <1> QED
    BY <1>5, <1>6, <1>7 DEF StayInv

\* The lookahead thread makes the entry of a file, and the file's copy, while no slot
\* has either; inserted_cache gives both to the file's slots.
LEMMA StayKeptByLookahead ==
  ASSUME RoomForAll, DistinctCopies, CoreInv, RoomInv, TableInv, CopyInv, StayInv,
         LookaheadStep
  PROVE  StayInv'
  <1> DEFINE SlotOk(d) ==
               /\ meEntry[d] # None =>
                    mePath[d] # None /\ meEntry[d] = lookup[mePath[d]]
               /\ meDesc[d] # None => meDesc[d] = link[CachePath[mePath[d]]]
             CallFits(u) == pc[u] = "map" /\ call[u].entry # None =>
                              call[u].entry = lookup[fdFile[Slot(u)]]
             Goal == (\A d \in Fds : SlotOk(d)') /\ \A u \in Threads : CallFits(u)'
  <1>a. UNCHANGED <<fdFile, mePath, pc, call>> /\ \A u : Slot(u)' = Slot(u)
    BY DEF LookaheadStep, app, Slot
  <1>b. /\ mePath \in [Fds -> Files \cup {None}]
        /\ meEntry \in [Fds -> Entries \cup {None}]
        /\ meDesc \in [Fds -> Inodes \cup {None}]
        /\ link \in [CachePaths -> Inodes \cup {None}]
        /\ lookup \in [Files -> Entries \cup {None}] /\ lscan \in Fds
    BY DEF CoreInv, TypeOK
  <1>c. (\A d \in Fds : SlotOk(d)) /\ \A u \in Threads : CallFits(u)
    BY DEF StayInv
  <1>d. ASSUME NEW d \in Fds, meEntry[d] # None \/ meDesc[d] # None
        PROVE  mePath[d] \in Files /\ lookup[mePath[d]] # None
    BY <1>b, <1>c, <1>d DEF TableInv
  <1>e. \A u \in Threads : pc[u] = "map" => fdFile[Slot(u)] \in Files
    BY CallSlot
  <1> SUFFICES Goal
    BY DEF StayInv
  <1>f. ASSUME UNCHANGED <<link, meEntry, meDesc, lookup>> PROVE Goal
    BY <1>a, <1>c, <1>f
  <1>1. ASSUME NEW f \in Files, InsertBegin(f) PROVE Goal
    BY <1>1, <1>f DEF InsertBegin, slots
  <1>2. ASSUME NEW e \in Entries, InsertEntry(e) PROVE Goal
    <2>1. /\ lookup' = [lookup EXCEPT ![lpath] = e] /\ lookup[lpath] = None
          /\ UNCHANGED <<link, meEntry, meDesc>>
      BY <1>2 DEF InsertEntry, slots, CoreInv, EntryInv, Evicting
    <2>2. \A g \in Files : lookup[g] # None => lookup'[g] = lookup[g]
      BY <1>b, <2>1
    <2>3. \A d \in Fds : SlotOk(d)'
      BY <1>a, <1>c, <1>d, <2>1, <2>2
    <2>4. \A u \in Threads : CallFits(u)'
      BY <1>a, <1>c, <1>e, <2>2
    <2> QED
      BY <2>3, <2>4
  <1>3. ASSUME NEW i \in Inodes, CopyCreate(i) PROVE Goal
    <2>1. /\ lpc = "create" /\ lpath \in Files
          /\ link' = [link EXCEPT ![CachePath[lpath]] = i]
          /\ UNCHANGED <<meEntry, meDesc, lookup>>
      BY <1>3 DEF CopyCreate, slots, cache, CoreInv, EntryInv
    <2>2. link[CachePath[lpath]] = None
      BY <2>1 DEF CopyInv
    <2>3. \A g \in Files : link[CachePath[g]] # None =>
                             link'[CachePath[g]] = link[CachePath[g]]
      BY <1>b, <2>1, <2>2 DEF CachePaths
    <2>4. \A d \in Fds : SlotOk(d)'
      BY <1>a, <1>c, <1>d, <2>1, <2>3
    <2>5. \A u \in Threads : CallFits(u)'
      BY <1>a, <1>c, <2>1
    <2> QED
      BY <2>4, <2>5
  <1>4. CASE CopyBlock
    BY <1>4, <1>f DEF CopyBlock, slots, cache
  <1>5. CASE CopyDone \/ CopyCut
    BY <1>5, <1>f DEF CopyDone, CopyCut, slots, cache
  <1>6. CASE Attach
    <2>1. /\ lpath \in Files /\ lookup[lpath] = lentry
          /\ UNCHANGED <<link, lookup>>
      BY <1>6 DEF Attach, cache, CoreInv, EntryInv
    <2>2. ASSUME NEW d \in Fds PROVE SlotOk(d)'
      <3>1. CASE d = lscan /\ NeedsDescriptor(lscan)
        <4>1. /\ mePath[d] = lpath /\ meEntry'[d] = lentry
              /\ meDesc'[d] = link[CachePath[lpath]]
          BY <1>6, <1>b, <3>1 DEF Attach, NeedsDescriptor
        <4> QED
          BY <1>a, <2>1, <4>1, AclAssumption
      <3>2. CASE ~(d = lscan /\ NeedsDescriptor(lscan))
        <4>1. meEntry'[d] = meEntry[d] /\ meDesc'[d] = meDesc[d]
          BY <1>6, <1>b, <3>2 DEF Attach
        <4> QED
          BY <1>a, <1>c, <2>1, <4>1
      <3> QED
        BY <3>1, <3>2
    <2>3. \A u \in Threads : CallFits(u)'
      BY <1>a, <1>c, <2>1
    <2> QED
      BY <2>2, <2>3
  <1>7. ASSUME NEW why, Stop(why) PROVE Goal
    BY <1>7, <1>f DEF Stop, files, slots, cache
  <1> HIDE DEF Goal
  <1> QED
    BY <1>1, <1>2, <1>3, <1>4, <1>5, <1>6, <1>7, OnlyInserts, Zenon

LEMMA StayInvariant ==
  ASSUME RoomForAll, DistinctCopies
  PROVE  Spec => []StayInv
  <1>1. CoreInv /\ RoomInv /\ TableInv /\ CopyInv /\ StayInv /\ [Next]_vars
          => StayInv'
    <2>1. StayInv /\ UNCHANGED <<link, fdFile, mePath, meEntry, meDesc, lookup, app>>
            => StayInv'
      BY DEF StayInv, app, Slot
    <2>2. UNCHANGED vars =>
            UNCHANGED <<link, fdFile, mePath, meEntry, meDesc, lookup, app>>
      BY DEF vars, files, slots, cache
    <2> QED
      BY <2>1, <2>2, StayKeptByThread, StayKeptByLookahead DEF Next, Ended
  <1>2. (Spec => []RoomInv) /\ (Spec => []CopyInv)
    BY RoomInvariant, CopyInvariant
  <1> QED
    BY <1>1, <1>2, CoreInvariant, TableInvariant, StayInit, PTL DEF Spec

LEMMA WriteInit == Init => WriteInv
  <1> SUFFICES ASSUME Init PROVE WriteInv
    OBVIOUS
  <1>1. ASSUME NEW f \in Files
        PROVE  /\ Listed(f) = {} /\ link[CachePath[f]] = None
               /\ \A b \in BlockSet : src[f][b] = <<f, 0>> /\ latest[f][b] = 0
    BY DEF Init, Listed, CachePaths
  <1>2. version = 0
    BY DEF Init
  <1>3. ASSUME NEW f \in Files, NEW b \in BlockSet PROVE WrittenTo(f, b)
    <2>1. <<f, 0>> \in Older(f, b) /\ src[f][b] = <<f, 0>> /\ latest[f][b] = 0
      BY <1>1 DEF Older
    <2> QED
      BY <1>1, <1>2, <2>1 DEF WrittenTo
  <1> QED
    BY <1>1, <1>3 DEF WriteInv

\* A call that works on a copy works on the copy of the file its descriptor is of.
LEMMA OwnCopy ==
  ASSUME CoreInv, FileInv, StayInv, NEW t \in Threads,
         pc[t] \in {"cached", "flush", "pop"}
  PROVE  LET fd == Slot(t)
             f  == fdFile[fd]
         IN  /\ f \in Files /\ fd \in Fds /\ mePath[fd] = f
             /\ Entry(t) \in Entries /\ lookup[f] = Entry(t) /\ ceSource[Entry(t)] = f
             /\ meDesc[fd] # None => meDesc[fd] = link[CachePath[f]]
  <1>1. PICK fd \in Fds : fd = Slot(t)
    BY CallSlot
  <1>2. fdFile[fd] \in Files /\ fdFile[fd] # None
    BY <1>1, CallSlot, AclAssumption
  <1>3. ASSUME NEW u \in Threads, Slot(u) = fd
        PROVE  pc[u] \notin {"retrieve", "map", "close"}
    <2>1. CASE u = t
      BY <2>1
    <2>2. CASE u # t
      BY <1>1, <1>3, <2>2 DEF CoreInv, CallInv, CallOk, UseInv, Overlap
    <2> QED
      BY <2>1, <2>2
  <1>4. mePath[fd] = fdFile[fd]
    BY <1>2, <1>3 DEF FileInv
  <1>5. Entry(t) # None /\ Entry(t) = meEntry[fd] /\ Entry(t) \in Entries
    BY <1>1, CallSlot DEF CoreInv, CallInv, CallOk, Entry
  <1>6. lookup[fdFile[fd]] = Entry(t)
    BY <1>4, <1>5 DEF StayInv
  <1>7. ceSource[Entry(t)] = fdFile[fd]
    BY <1>2, <1>5, <1>6 DEF CoreInv, EntryInv
  <1> QED
    BY <1>1, <1>2, <1>4, <1>5, <1>6, <1>7 DEF StayInv

\* A file of which something is listed stays in use if its descriptor and that
\* descriptor's entry stay, and the step takes its call past no copy of it.
LEMMA InUseKept ==
  ASSUME CoreInv, NEW t \in Threads, ThreadStep(t), NEW f \in Files, InUse(f),
         \A fd \in Fds : fdFile[fd] = f => fdFile'[fd] = f,
         \A fd \in Fds : fdFile[fd] = f /\ meEntry[fd] = lookup[f]
                           => meEntry'[fd] = lookup[f],
         \A fd \in Fds : fdFile'[fd] = f => fdFile[fd] \in {f, None},
         (PastCopy(t) => fdFile[Slot(t)] # f)'
  PROVE  InUse(f)'
  <1>1. UNCHANGED <<lookup, lpc, lpath>>
    BY DEF ThreadStep, cache, ahead
  <1>2. ASSUME NEW u \in Threads, u # t, PastCopy(u)'
        PROVE  (fdFile[Slot(u)])' # f
    <2>1. PastCopy(u) /\ pc[u] # "idle" /\ Slot(u)' = Slot(u)
      BY <1>2, OtherCalls DEF PastCopy, Slot
    <2>2. Slot(u) \in Fds /\ fdFile[Slot(u)] # None
      BY <2>1, CallSlot, AclAssumption
    <2>3. fdFile[Slot(u)] # f
      BY <2>1 DEF InUse
    <2> QED
      BY <2>1, <2>2, <2>3
  <1>3. \E fd \in Fds : fdFile'[fd] = f /\ meEntry'[fd] = lookup'[f]
    BY <1>1 DEF InUse
  <1>4. \A u \in Threads : (PastCopy(u) => fdFile[Slot(u)] # f)'
    BY <1>2
  <1> QED
    BY <1>1, <1>3, <1>4 DEF InUse

\* The steps of a thread that change neither a file, nor a copy, nor an extent.
LEMMA SteadyKeepsUse ==
  ASSUME OwnOpens, CoreInv, FileInv, StayInv, UsedAlone, UsedAlone',
         NEW t \in Threads, ThreadStep(t), ~WriteDirect(t), ~WriteCached(t),
         ~FlushExtent(t), NEW f \in Files, Listed(f) # {}, InUse(f)
  PROVE  InUse(f)'
  <1>1. PICK fd \in Fds : fd = Slot(t)
    BY CallSlot
  <1>2. /\ meEntry \in [Fds -> Entries \cup {None}]
        /\ fdFile \in [Fds -> Files \cup {None}]
        /\ pc \in [Threads -> Points] /\ call \in [Threads -> Calls]
        /\ f # None /\ lookup[f] # None
    BY AclAssumption DEF CoreInv, TypeOK, Listed
  <1>3. PastCopy(t) => fdFile[fd] # f
    BY <1>1 DEF InUse
  <1>4. ASSUME UNCHANGED <<fdFile, meEntry>>, Slot(t)' = Slot(t),
               PastCopy(t)' => PastCopy(t) \/ fdFile[fd] # f
        PROVE  InUse(f)'
    BY <1>1, <1>3, <1>4, InUseKept
  <1>5. ASSUME UNCHANGED <<fdFile, meEntry>>, ~PastCopy(t)' PROVE InUse(f)'
    BY <1>5, InUseKept
  <1>6. ASSUME NEW g \in Files, OpenSource(t, g) PROVE InUse(f)'
    <2>1. PICK n \in Fds : /\ fdFile[n] = None
                           /\ fdFile' = [fdFile EXCEPT ![n] = g]
                           /\ call' = [call EXCEPT ![t] = Call("open", n, None, None)]
      BY <1>6 DEF OpenSource
    <2>2. PICK d \in Fds : fdFile[d] = f
      BY DEF InUse
    <2>3. g # f
      <3>1. d # n /\ fdFile'[d] = f /\ fdFile'[n] = g
        BY <1>2, <2>1, <2>2
      <3> QED
        BY <1>2, <3>1 DEF UsedAlone
    <2>4. Slot(t)' = n /\ fdFile'[n] = g
      BY <1>2, <2>1 DEF Slot, Call
    <2>5. meEntry' = meEntry
      BY <1>6 DEF OpenSource, slots
    <2> QED
      BY <1>2, <2>1, <2>3, <2>4, <2>5, InUseKept
  <1>7. ASSUME NEW g \in Files, OpenForeign(t, g) \/ Advise(t, g) PROVE InUse(f)'
    BY <1>4, <1>7 DEF OpenForeign, Advise, OwnOpens, slots, app, Slot, PastCopy
  <1>8. ASSUME NEW op, NEW d, NEW b, Begin(t, op, d, b) PROVE InUse(f)'
    BY <1>2, <1>5, <1>8 DEF Begin, slots, Goto, PastCopy
  <1>9. CASE RetrieveCache(t)
    BY <1>1, <1>2, <1>4, <1>9 DEF RetrieveCache, slots, Goto, Call, Slot, PastCopy
  <1>10. CASE OpenMap(t)
    <2>1. /\ meEntry' = [meEntry EXCEPT ![fd] = call[t].entry]
          /\ fdFile' = fdFile /\ pc'[t] = "idle" /\ PastCopy(t)
      BY <1>1, <1>2, <1>10 DEF OpenMap, Return, Goto, PastCopy
    <2> QED
      BY <1>2, <1>3, <2>1, InUseKept DEF PastCopy
  <1>11. CASE LockSlot(t)
    <2>1. UNCHANGED <<fdFile, meEntry>>
      BY <1>11 DEF LockSlot
    <2>2. CASE Entry(t) # None \/ call[t].op = "sync"
      BY <1>2, <1>5, <1>11, <2>1, <2>2 DEF LockSlot, Return, Goto, PastCopy
    <2>3. CASE Entry(t) = None /\ call[t].op # "sync"
      <3>1. fdFile[fd] # f
        BY <1>1, <1>2, <2>3 DEF InUse, UsedAlone, Entry
      <3>2. call' = call
        BY <1>11, <2>3 DEF LockSlot
      <3> QED
        BY <1>4, <2>1, <3>1, <3>2 DEF Slot
    <2> QED
      BY <2>2, <2>3
  <1>12. CASE Request(t)
    BY <1>4, <1>12 DEF Request, slots, Slot, PastCopy
  <1>13. CASE ReadDirect(t) \/ ReadCached(t)
    BY <1>2, <1>5, <1>13 DEF ReadDirect, ReadCached, slots, Return, Goto, PastCopy
  <1>14. CASE FlushLock(t)
    BY <1>2, <1>5, <1>14 DEF FlushLock, slots, Goto, PastCopy
  <1>15. CASE FlushDone(t)
    <2>1. fdFile' = fdFile /\ pc[t] = "pop" /\ ceExtents[Entry(t)] = {}
      BY <1>15 DEF FlushDone, NothingToPop
    <2>2. CASE call[t].op = "sync"
      BY <1>2, <1>5, <1>15, <2>1, <2>2 DEF FlushDone, Return, Goto, PastCopy
    <2>3. CASE call[t].op # "sync"
      <3>1. /\ meEntry' = [meEntry EXCEPT ![fd] = None] /\ call' = call
        BY <1>1, <1>15, <2>3 DEF FlushDone
      <3>2. fdFile[fd] # f
        BY <1>1, <1>2, <2>1, OwnCopy DEF Listed
      <3> QED
        BY <1>1, <1>2, <2>1, <3>1, <3>2, InUseKept DEF Slot
    <2> QED
      BY <2>2, <2>3
  <1>16. CASE CloseSource(t)
    <2>1. /\ fdFile' = [fdFile EXCEPT ![fd] = None] /\ meEntry' = meEntry
          /\ pc'[t] = "idle" /\ PastCopy(t)
      BY <1>1, <1>2, <1>16 DEF CloseSource, slots, Return, Goto, PastCopy
    <2> QED
      BY <1>2, <1>3, <2>1, InUseKept DEF PastCopy
  <1>17. ASSUME NEW why, Stop(why) PROVE InUse(f)'
    BY <1>4, <1>17 DEF Stop, slots, app, Slot, PastCopy
  <1> QED
    BY <1>6, <1>7, <1>8, <1>9, <1>10, <1>11, <1>12, <1>13, <1>14, <1>15, <1>16,
       <1>17, ThreadActions, Zenon

LEMMA SteadyValues ==
  ASSUME CoreInv, NEW t \in Threads, ThreadStep(t), ~WriteDirect(t), ~WriteCached(t),
         ~FlushExtent(t)
  PROVE  UNCHANGED <<src, data, ceExtents, latest, version>>
  <1> DEFINE Goal == UNCHANGED <<src, data, ceExtents, latest, version>>
  <1> SUFFICES Goal
    OBVIOUS
  <1>1. ASSUME NEW f \in Files,
               OpenSource(t, f) \/ OpenForeign(t, f) \/ Advise(t, f)
        PROVE  Goal
    BY <1>1 DEF OpenSource, OpenForeign, Advise, copies, history
  <1>2. ASSUME NEW op, NEW d, NEW b, Begin(t, op, d, b) PROVE Goal
    BY <1>2 DEF Begin, copies, history
  <1>3. CASE RetrieveCache(t) \/ OpenMap(t) \/ LockSlot(t) \/ Request(t)
    BY <1>3 DEF RetrieveCache, OpenMap, LockSlot, Request, copies, history
  <1>4. CASE ReadDirect(t) \/ ReadCached(t)
    BY <1>4 DEF ReadDirect, ReadCached, copies, history
  <1>5. CASE FlushLock(t) \/ FlushDone(t) \/ CloseSource(t)
    BY <1>5 DEF FlushLock, FlushDone, CloseSource, copies, history
  <1>6. ASSUME NEW why, Stop(why) PROVE Goal
    BY <1>6 DEF Stop, files, copies, history
  <1> HIDE DEF Goal
  <1> QED
    BY <1>1, <1>2, <1>3, <1>4, <1>5, <1>6, ThreadActions, Zenon

\* A write that goes to the source: nothing of its file is listed.
LEMMA WriteDirectKeeps ==
  ASSUME CoreInv, WriteInv, NEW t \in Threads, ThreadStep(t), WriteDirect(t)
  PROVE  WriteInv'
  <1> DEFINE g == fdFile[Slot(t)]
             c == call[t].block
  <1>1. /\ src' = [src EXCEPT ![g][c] = <<g, version + 1>>]
        /\ latest' = [latest EXCEPT ![g][c] = version + 1]
        /\ version' = version + 1 /\ pc[t] = "direct" /\ pc'[t] = "idle"
        /\ UNCHANGED <<fdFile, meEntry, data, ceExtents, link, lookup>>
    BY DEF WriteDirect, Written, Return, Goto, slots, copies, ThreadStep, cache,
           CoreInv, TypeOK
  <1>2. /\ g \in Files /\ c \in BlockSet /\ version \in Nat
        /\ src \in [Files -> Contents] /\ latest \in [Files -> [BlockSet -> Nat]]
    BY <1>1, CallSlot DEF CoreInv, TypeOK, CallInv, CallOk, WriteDirect
  <1>3. \A f \in Files : Listed(f)' = Listed(f)
    BY <1>1 DEF Listed
  <1>4. Listed(g) = {}
    BY <1>1, <1>2 DEF WriteInv, InUse, PastCopy
  <1>5. ASSUME NEW f \in Files, NEW b \in BlockSet PROVE WrittenTo(f, b)'
    <2>1. WrittenTo(f, b)
      BY DEF WriteInv
    <2>2. CASE f = g /\ b = c
      <3>1. /\ src'[f][b] = <<f, version + 1>> /\ latest'[f][b] = version + 1
            /\ latest[f][b] \in Nat
        BY <1>1, <1>2, <2>2 DEF Contents
      <3>2. Older(f, b) \subseteq Older(f, b)' /\ <<f, version + 1>> \in Older(f, b)'
        BY <1>2, <2>1, <3>1 DEF Older, WrittenTo
      <3>3. b \notin Listed(f)'
        BY <1>3, <1>4, <2>2
      <3>4. link'[CachePath[f]] # None =>
              data'[link'[CachePath[f]]][b] \in Older(f, b)' \cup {None, Absent}
        BY <1>1, <2>1, <3>2 DEF WrittenTo
      <3>5. version' = version + 1 /\ version \in Nat
        BY <1>1, <1>2
      <3>6. latest'[f][b] <= version'
        BY <3>1, <3>5
      <3>7. src'[f][b] \in Older(f, b)'
        BY <3>1, <3>2
      <3> QED
        BY <3>1, <3>3, <3>4, <3>6, <3>7 DEF WrittenTo
    <2>3. CASE ~(f = g /\ b = c)
      <3>1. /\ src'[f][b] = src[f][b] /\ latest'[f][b] = latest[f][b]
            /\ latest[f][b] \in Nat
        BY <1>1, <1>2, <2>3 DEF Contents
      <3>2. Older(f, b)' = Older(f, b) /\ latest'[f][b] <= version'
        BY <1>1, <1>2, <2>1, <3>1 DEF Older, WrittenTo
      <3> QED
        BY <1>1, <1>3, <2>1, <3>1, <3>2 DEF WrittenTo
    <2> QED
      BY <2>2, <2>3
  <1>6. ASSUME NEW f \in Files, Listed(f) # {} PROVE InUse(f)'
    <2>1. InUse(f)
      BY <1>6 DEF WriteInv
    <2>2. ~PastCopy(t)'
      BY <1>1 DEF PastCopy
    <2> QED
      BY <1>1, <2>1, <2>2, InUseKept
  <1> QED
    BY <1>3, <1>5, <1>6 DEF WriteInv

\* A write to a copy: the block is listed, and its file is in use.
LEMMA WriteCachedKeeps ==
  ASSUME CoreInv, CopyInv, FileInv, StayInv, UsedAlone, WriteInv,
         NEW t \in Threads, ThreadStep(t), WriteCached(t)
  PROVE  WriteInv'
  <1>0. PICK fd, g, c, e, i : /\ fd = Slot(t) /\ g = fdFile[Slot(t)]
                              /\ c = call[t].block /\ e = Entry(t)
                              /\ i = link[CachePath[fdFile[Slot(t)]]]
    OBVIOUS
  <1>1. /\ pc[t] = "cached" /\ pc'[t] = "idle" /\ ceMutex[e] = None
        /\ g \in Files /\ fd \in Fds /\ e \in Entries /\ e # None
        /\ lookup[g] = e /\ ceSource[e] = g /\ meEntry[fd] = e /\ fdFile[fd] = g
        /\ meDesc[fd] = i /\ i # None /\ i = link[CachePath[g]]
    BY <1>0, OwnCopy, AclAssumption
       DEF WriteCached, EntryMutexFree, Return, Goto, CoreInv, TypeOK, Entry
  <1>2. /\ data' = [data EXCEPT ![i][c] = <<g, version + 1>>]
        /\ ceExtents' = [ceExtents EXCEPT ![e] = @ \cup {c}]
        /\ latest' = [latest EXCEPT ![g][c] = version + 1]
        /\ version' = version + 1
        /\ UNCHANGED <<src, fdFile, meEntry, link, lookup, lpc, lpath>>
    BY <1>0, <1>1
       DEF WriteCached, MarkDirty, Written, ThreadStep, cache, ahead
  <1>3. /\ c \in BlockSet /\ version \in Nat /\ i \in Inodes
        /\ data \in [Inodes -> Contents] /\ latest \in [Files -> [BlockSet -> Nat]]
        /\ ceExtents \in [Entries -> SUBSET BlockSet]
        /\ lookup \in [Files -> Entries \cup {None}]
    BY <1>0, <1>1 DEF CoreInv, TypeOK, CallInv, CallOk, WriteCached
  <1>4. /\ Listed(g)' = Listed(g) \cup {c}
        /\ \A f \in Files : f # g => Listed(f)' = Listed(f)
    <2>1. \A f \in Files : f # g => lookup[f] # e
      BY <1>1 DEF CoreInv, EntryInv
    <2> QED
      BY <1>1, <1>2, <1>3, <2>1 DEF Listed
  <1>5. ASSUME NEW f \in Files, NEW b \in BlockSet PROVE WrittenTo(f, b)'
    <2>1. WrittenTo(f, b)
      BY DEF WriteInv
    <2>2. CASE f = g /\ b = c
      <3>1. /\ data'[i][b] = <<f, version + 1>> /\ latest'[f][b] = version + 1
            /\ latest[f][b] \in Nat
        BY <1>2, <1>3, <2>2 DEF Contents
      <3>2. Older(f, b) \subseteq Older(f, b)' /\ <<f, version + 1>> \in Older(f, b)'
        BY <1>3, <2>1, <3>1 DEF Older, WrittenTo
      <3>3. b \in Listed(f)'
        BY <1>4, <2>2
      <3>4. link'[CachePath[f]] = i
        BY <1>1, <1>2, <2>2
      <3>5. src'[f][b] \in Older(f, b)'
        BY <1>2, <2>1, <3>2 DEF WrittenTo
      <3>6. latest'[f][b] <= version'
        BY <1>2, <1>3, <3>1
      <3> QED
        BY <1>1, <3>1, <3>2, <3>3, <3>4, <3>5, <3>6 DEF WrittenTo
    <2>3. CASE ~(f = g /\ b = c)
      <3>1. latest'[f][b] = latest[f][b] /\ latest[f][b] \in Nat
        BY <1>2, <1>3, <2>3
      <3>2. Older(f, b)' = Older(f, b) /\ latest'[f][b] <= version'
        BY <1>2, <1>3, <2>1, <3>1 DEF Older, WrittenTo
      <3>3. f # g => link[CachePath[f]] # i
        BY <1>1 DEF CopyInv
      <3>4. link[CachePath[f]] # None => link[CachePath[f]] \in Inodes
        BY DEF CoreInv, TypeOK, CachePaths
      <3>5. link[CachePath[f]] # None =>
              data'[link[CachePath[f]]][b] = data[link[CachePath[f]]][b]
        <4>1. ASSUME link[CachePath[f]] = i, b = c PROVE FALSE
          BY <2>3, <3>3, <4>1
        <4>2. ASSUME NEW j \in Inodes, j # i \/ b # c PROVE data'[j][b] = data[j][b]
          BY <1>2, <1>3, <4>2 DEF Contents
        <4> QED
          BY <3>4, <4>1, <4>2
      <3>6. b \in Listed(f)' <=> b \in Listed(f)
        BY <1>4, <2>3
      <3> QED
        BY <1>2, <2>1, <3>1, <3>2, <3>5, <3>6 DEF WrittenTo
    <2> QED
      BY <2>2, <2>3
  <1>6. ASSUME NEW f \in Files, f # g, Listed(f) # {} PROVE InUse(f)'
    <2>1. InUse(f)
      BY <1>6 DEF WriteInv
    <2>2. ~PastCopy(t)'
      BY <1>1 DEF PastCopy
    <2> QED
      BY <1>2, <2>1, <2>2, InUseKept
  <1>7. InUse(g)
    <2>1. ~(lpc \in {"create", "copy"} /\ lpath = g)
      <3>1. Lookahead # None
        BY AclAssumption DEF Procs
      <3> QED
        BY <1>1, <3>1 DEF CoreInv, LockInv, EntryInv
    <2>2. ASSUME NEW u \in Threads, PastCopy(u), fdFile[Slot(u)] = g PROVE FALSE
      <3>1. pc[u] # "idle" /\ Slot(u) \in Fds /\ g # None
        BY <1>1, <2>2, CallSlot, AclAssumption DEF PastCopy
      <3>2. Slot(u) = fd
        BY <1>1, <2>2, <3>1 DEF UsedAlone
      <3>3. u = t
        BY <1>0, <1>1, <3>1, <3>2 DEF UsedAlone
      <3> QED
        BY <1>1, <2>2, <3>3 DEF PastCopy
    <2> QED
      BY <1>1, <2>1, <2>2 DEF InUse
  <1>8. InUse(g)'
    <2>1. ~PastCopy(t)'
      BY <1>1 DEF PastCopy
    <2> QED
      BY <1>1, <1>2, <1>7, <2>1, InUseKept
  <1> QED
    BY <1>4, <1>5, <1>6, <1>8 DEF WriteInv

\* Where the last write is, a read finds it.
LEMMA LatestIsData ==
  ASSUME TypeOK, NEW f \in Files, NEW b \in BlockSet, NEW i,
         data[i][b] = <<f, latest[f][b]>>
  PROVE  HasData(i, b)
  <1>1. latest[f][b] \in Nat /\ b \in Nat
    BY AclAssumption DEF TypeOK
  <1>2. data[i][b] # Absent
    BY <1>1, AclAssumption DEF Values
  <1> QED
    BY <1>1, <1>2 DEF HasData

\* The write-back of an interval: it is copied as a whole, and what is listed is the
\* last write.
LEMMA FlushKeeps ==
  ASSUME WholeIntervals, CoreInv, FileInv, StayInv, WriteInv,
         NEW t \in Threads, ThreadStep(t), FlushExtent(t)
  PROVE  WriteInv'
  <1>0. PICK g, e, run : /\ g = fdFile[Slot(t)] /\ e = Entry(t)
                         /\ run = LowestRun(ceExtents[Entry(t)])
    OBVIOUS
  <1>1. /\ g \in Files /\ e \in Entries /\ lookup[g] = e /\ ceSource[e] = g
        /\ e # None
    BY <1>0, OwnCopy, AclAssumption DEF FlushExtent
  <1>2. /\ ceExtents' = [ceExtents EXCEPT ![e] = @ \ run]
        /\ src' = [src EXCEPT ![g] =
             [b \in BlockSet |->
                IF b \in CopiedByInterval(run) /\ HasData(link[CachePath[g]], b)
                THEN data[link[CachePath[g]]][b] ELSE @[b]]]
        /\ UNCHANGED <<data, fdFile, meEntry, link, lookup, latest, version, pc, call>>
    BY <1>0, <1>1 DEF FlushExtent, slots, app, history, ThreadStep, cache
  <1>3. /\ src \in [Files -> Contents]
        /\ ceExtents \in [Entries -> SUBSET BlockSet]
        /\ lookup \in [Files -> Entries \cup {None}]
    BY DEF CoreInv, TypeOK
  <1>4. CopiedByInterval(run) = run /\ run \subseteq ceExtents[e]
    <2>1. ceExtents[e] # {} /\ ceExtents[e] \in SUBSET BlockSet
      BY <1>0, <1>1, <1>3 DEF FlushExtent
    <2> QED
      BY <1>0, <2>1 DEF WholeIntervals, LowestRun
  <1>5. /\ Listed(g) = ceExtents[e] /\ Listed(g)' = Listed(g) \ run
        /\ \A f \in Files : f # g => Listed(f)' = Listed(f)
    <2>1. \A f \in Files : f # g => lookup[f] # e
      BY <1>1 DEF CoreInv, EntryInv
    <2> QED
      BY <1>1, <1>2, <1>3, <2>1 DEF Listed
  <1>6. ASSUME NEW f \in Files, NEW b \in BlockSet PROVE WrittenTo(f, b)'
    <2>1. WrittenTo(f, b) /\ Older(f, b)' = Older(f, b)
      BY <1>2 DEF WriteInv, Older
    <2>2. CASE f = g /\ b \in run
      <3>1. b \in Listed(f) /\ b \notin Listed(f)'
        BY <1>4, <1>5, <2>2
      <3>2. src'[f][b] = data[link[CachePath[f]]][b]
        <4>1. HasData(link[CachePath[g]], b)
          BY <2>1, <2>2, <3>1, LatestIsData DEF CoreInv, WrittenTo
        <4> QED
          BY <1>2, <1>3, <1>4, <2>2, <4>1
      <3>3. src'[f][b] = <<f, latest[f][b]>>
        BY <2>1, <3>1, <3>2 DEF WrittenTo
      <3>4. src'[f][b] \in Older(f, b)
        <4>1. latest[f][b] \in Nat
          BY DEF CoreInv, TypeOK
        <4> QED
          BY <3>3, <4>1 DEF Older
      <3> QED
        BY <1>2, <2>1, <3>1, <3>3, <3>4 DEF WrittenTo
    <2>3. CASE ~(f = g /\ b \in run)
      <3>1. src'[f][b] = src[f][b]
        BY <1>2, <1>3, <1>4, <2>3
      <3>2. b \in Listed(f)' <=> b \in Listed(f)
        BY <1>5, <2>3
      <3> QED
        BY <1>2, <2>1, <3>1, <3>2 DEF WrittenTo
    <2> QED
      BY <2>2, <2>3
  <1>7. ASSUME NEW f \in Files, Listed(f)' # {} PROVE InUse(f)'
    <2>1. Listed(f) # {} /\ InUse(f)
      BY <1>5, <1>7 DEF WriteInv
    <2>2. PastCopy(t)' => (fdFile[Slot(t)])' # f
      BY <1>2, <2>1 DEF InUse, PastCopy, Slot
    <2> QED
      BY <1>2, <2>1, <2>2, InUseKept
  <1> QED
    BY <1>6, <1>7 DEF WriteInv

\* The steps of a thread keep WriteInv.
LEMMA WriteKeptByThread ==
  ASSUME OwnOpens, WholeIntervals, CoreInv, CopyInv, FileInv, StayInv,
         UsedAlone, UsedAlone', WriteInv, NEW t \in Threads, ThreadStep(t)
  PROVE  WriteInv'
  <1>1. CASE WriteDirect(t) \/ WriteCached(t) \/ FlushExtent(t)
    BY <1>1, WriteDirectKeeps, WriteCachedKeeps, FlushKeeps
  <1>2. CASE ~WriteDirect(t) /\ ~WriteCached(t) /\ ~FlushExtent(t)
    <2>1. UNCHANGED <<src, data, ceExtents, latest, version, link, lookup>>
      BY <1>2, SteadyValues DEF ThreadStep, cache
    <2>2. \A f \in Files : Listed(f)' = Listed(f)
      BY <2>1 DEF Listed
    <2>3. ASSUME NEW f \in Files, NEW b \in BlockSet PROVE WrittenTo(f, b)'
      BY <2>1, <2>2 DEF WriteInv, WrittenTo, Older
    <2>4. ASSUME NEW f \in Files, Listed(f) # {} PROVE InUse(f)'
      BY <1>2, <2>4, SteadyKeepsUse DEF WriteInv
    <2> QED
      BY <2>2, <2>3, <2>4 DEF WriteInv
  <1> QED
    BY <1>1, <1>2

\* The steps of the lookahead thread keep WriteInv: it works on the copy of a file of
\* which nothing is listed.
LEMMA WriteKeptByLookahead ==
  ASSUME RoomForAll, DistinctCopies, CoreInv, RoomInv, TableInv, CopyInv, StayInv,
         WriteInv, LookaheadStep
  PROVE  WriteInv'
  <1>a. /\ UNCHANGED <<src, fdFile, mePath, pc, call, latest, version>>
        /\ \A u : (Slot(u)' = Slot(u)) /\ (PastCopy(u)' <=> PastCopy(u))
    BY DEF LookaheadStep, app, Slot, PastCopy
  <1>b. /\ meEntry \in [Fds -> Entries \cup {None}]
        /\ data \in [Inodes -> Contents] /\ src \in [Files -> Contents]
        /\ link \in [CachePaths -> Inodes \cup {None}]
        /\ lookup \in [Files -> Entries \cup {None}] /\ lscan \in Fds
        /\ ceExtents \in [Entries -> SUBSET BlockSet]
    BY DEF CoreInv, TypeOK
  <1>c. \A f \in Files : CachePath[f] \in CachePaths
    BY DEF CachePaths
  <1>d. \A f, b : Older(f, b)' = Older(f, b)
    BY <1>a DEF Older
  \* A step that leaves the contents, the lists and the slots alone.
  <1>e. ASSUME NEW f \in Files, Listed(f)' = Listed(f),
               link'[CachePath[f]] = link[CachePath[f]],
               link[CachePath[f]] # None =>
                 data'[link[CachePath[f]]] = data[link[CachePath[f]]]
        PROVE  \A b \in BlockSet : WrittenTo(f, b)'
    <2>1. ASSUME NEW b \in BlockSet PROVE WrittenTo(f, b)'
      <3>1. WrittenTo(f, b)
        BY DEF WriteInv
      <3> QED
        BY <1>a, <1>d, <1>e, <3>1 DEF WrittenTo
    <2> QED
      BY <2>1
  <1>f. ASSUME NEW f \in Files, Listed(f) # {}, lookup'[f] = lookup[f],
               \A fd \in Fds : fdFile[fd] = f /\ meEntry[fd] = lookup[f]
                                 => meEntry'[fd] = lookup[f],
               lpc' \in {"create", "copy"} =>
                 lpath' # f \/ (lpc \in {"create", "copy"} /\ lpath' = lpath)
        PROVE  InUse(f)'
    <2>1. InUse(f)
      BY <1>f DEF WriteInv
    <2> QED
      BY <1>a, <1>f, <2>1 DEF InUse
  <1>g. ASSUME UNCHANGED <<link, data, ceExtents, lookup, meEntry>>,
               lpc' \in {"create", "copy"} =>
                 lpc \in {"create", "copy"} /\ lpath' = lpath
        PROVE  WriteInv'
    <2>1. \A f \in Files : Listed(f)' = Listed(f)
      BY <1>g DEF Listed
    <2>2. \A f \in Files, b \in BlockSet : WrittenTo(f, b)'
      BY <1>e, <1>g, <2>1
    <2>3. \A f \in Files : Listed(f) # {} => InUse(f)'
      BY <1>f, <1>g
    <2> QED
      BY <2>1, <2>2, <2>3 DEF WriteInv
  <1>1. ASSUME NEW f \in Files, InsertBegin(f) PROVE WriteInv'
    BY <1>1, <1>g DEF InsertBegin, slots, copies, LGoto
  <1>2. ASSUME NEW e \in Entries, InsertEntry(e) PROVE WriteInv'
    <2>1. /\ lookup' = [lookup EXCEPT ![lpath] = e] /\ lookup[lpath] = None
          /\ ceExtents' = [ceExtents EXCEPT ![e] = {}] /\ e \notin live
          /\ lpath \in Files /\ lpath' = lpath
          /\ UNCHANGED <<link, data, meEntry>>
      BY <1>2 DEF InsertEntry, NoExtents, slots, CoreInv, EntryInv, Evicting
    <2>2. ASSUME NEW f \in Files PROVE Listed(f)' = Listed(f)
      <3>1. lookup[f] # e
        BY <2>1, AclAssumption DEF CoreInv, EntryInv
      <3> QED
        BY <1>b, <2>1, <3>1 DEF Listed
    <2>3. \A f \in Files, b \in BlockSet : WrittenTo(f, b)'
      BY <1>e, <2>1, <2>2
    <2>4. ASSUME NEW f \in Files, Listed(f) # {} PROVE InUse(f)'
      <3>1. lookup[f] # None
        BY <2>4 DEF Listed
      <3> QED
        BY <1>b, <1>f, <2>1, <2>4, <3>1
    <2> QED
      BY <2>2, <2>3, <2>4 DEF WriteInv
  <1>3. ASSUME NEW i \in Inodes, CopyCreate(i) PROVE WriteInv'
    <2>0. PICK g : g = lpath
      OBVIOUS
    <2>1. /\ lpc = "create" /\ g \in Files /\ lpath' = lpath
          /\ link' = [link EXCEPT ![CachePath[g]] = i]
          /\ data' = [data EXCEPT ![i] = Blank]
          /\ UNCHANGED <<ceExtents, lookup, meEntry>>
      BY <1>3, <2>0 DEF CopyCreate, slots, cache, CoreInv, EntryInv
    <2>2. link[CachePath[g]] = None
      BY <2>0, <2>1 DEF CopyInv
    <2>3. \A f \in Files : link[CachePath[f]] # i
      BY <1>3, <1>c, <2>0, <2>1, <2>2 DEF CopyCreate
    <2>4. \A f \in Files : Listed(f)' = Listed(f)
      BY <2>1 DEF Listed
    <2>5. ASSUME NEW f \in Files, f # g, NEW b \in BlockSet
          PROVE  WrittenTo(f, b)'
      <3>1. link'[CachePath[f]] = link[CachePath[f]]
        BY <1>b, <1>c, <2>1, <2>5 DEF DistinctCopies
      <3>2. link[CachePath[f]] # None =>
              data'[link[CachePath[f]]] = data[link[CachePath[f]]]
        BY <1>b, <1>c, <2>1, <2>3
      <3> QED
        BY <1>e, <2>4, <3>1, <3>2
    <2>6. ASSUME NEW b \in BlockSet PROVE WrittenTo(g, b)'
      <3>1. WrittenTo(g, b)
        BY <2>1 DEF WriteInv
      <3>2. b \notin Listed(g)'
        BY <2>2, <2>4, <2>1, <3>1 DEF WrittenTo
      <3>3. link'[CachePath[g]] = i /\ data'[i][b] = None
        BY <1>b, <1>c, <2>1 DEF Blank
      <3> QED
        BY <1>a, <1>d, <2>1, <2>4, <3>1, <3>2, <3>3 DEF WrittenTo
    <2>7. ASSUME NEW f \in Files, Listed(f) # {} PROVE InUse(f)'
      BY <1>f, <2>1, <2>7
    <2>8. ASSUME NEW f \in Files, NEW b \in BlockSet PROVE WrittenTo(f, b)'
      <3>1. CASE f = g
        BY <2>6, <3>1
      <3>2. CASE f # g
        BY <2>5, <3>2
      <3> QED
        BY <3>1, <3>2
    <2> QED
      BY <2>4, <2>7, <2>8 DEF WriteInv
  <1>4. CASE CopyBlock
    <2>0. PICK g, i, c : /\ g = lpath /\ i = link[CachePath[lpath]]
                         /\ c = First(Missing)
      OBVIOUS
    <2>1. /\ lpc = "copy" /\ Missing # {} /\ g \in Files
          /\ i = link[CachePath[g]] /\ i # None
          /\ data' = [data EXCEPT ![i][c] = src[g][c]]
          /\ UNCHANGED <<link, ceExtents, lookup, meEntry, lpc, lpath>>
      BY <1>4, <2>0
         DEF CopyBlock, slots, cache, ahead, CoreInv, EntryInv, CopyInv
    <2>2. i \in Inodes /\ c \in BlockSet
      BY <1>b, <1>c, <2>0, <2>1, FirstBlock, AclAssumption DEF Missing
    <2>3. \A f \in Files : Listed(f)' = Listed(f)
      BY <2>1 DEF Listed
    <2>4. \A f \in Files : f # g => link[CachePath[f]] # i
      BY <2>1 DEF CopyInv
    <2>5. ASSUME NEW f \in Files, f # g, NEW b \in BlockSet PROVE WrittenTo(f, b)'
      <3>1. link[CachePath[f]] # None =>
              data'[link[CachePath[f]]] = data[link[CachePath[f]]]
        BY <1>b, <1>c, <2>1, <2>4, <2>5
      <3> QED
        BY <1>e, <2>1, <2>3, <3>1
    <2>6. Listed(g) = {}
      BY <2>0, <2>1 DEF WriteInv, InUse
    <2>7. ASSUME NEW b \in BlockSet PROVE WrittenTo(g, b)'
      <3>1. WrittenTo(g, b) /\ b \notin Listed(g)'
        BY <2>1, <2>3, <2>6 DEF WriteInv
      <3>2. data'[i][b] \in {data[i][b], src[g][b]}
        BY <1>b, <2>1, <2>2 DEF Contents
      <3> QED
        BY <1>a, <1>d, <2>1, <2>3, <3>1, <3>2 DEF WrittenTo
    <2>8. ASSUME NEW f \in Files, NEW b \in BlockSet PROVE WrittenTo(f, b)'
      <3>1. CASE f = g
        BY <2>7, <3>1
      <3>2. CASE f # g
        BY <2>5, <3>2
      <3> QED
        BY <3>1, <3>2
    <2>9. ASSUME NEW f \in Files, Listed(f) # {} PROVE InUse(f)'
      BY <1>f, <2>1, <2>9
    <2> QED
      BY <2>3, <2>8, <2>9 DEF WriteInv
  <1>5. CASE CopyDone
    BY <1>5, <1>g DEF CopyDone, slots, cache, LGoto
  <1>8. CASE CopyCut
    <2>0. PICK g, i : g = lpath /\ i = link[CachePath[lpath]]
      OBVIOUS
    <2>1. /\ lpc = "copy" /\ lpc' = "attach" /\ g \in Files
          /\ i = link[CachePath[g]] /\ i # None
          /\ data' = [data EXCEPT ![i] =
                        [b \in BlockSet |-> IF b \in Missing THEN Absent
                                                              ELSE data[i][b]]]
          /\ UNCHANGED <<link, ceExtents, lookup, meEntry, lpath>>
      BY <1>8, <2>0
         DEF CopyCut, LGoto, slots, cache, CoreInv, EntryInv, CopyInv
    <2>2. i \in Inodes
      BY <1>b, <1>c, <2>1
    <2>3. \A f \in Files : Listed(f)' = Listed(f)
      BY <2>1 DEF Listed
    <2>4. \A f \in Files : f # g => link[CachePath[f]] # i
      BY <2>1 DEF CopyInv
    <2>5. ASSUME NEW f \in Files, f # g, NEW b \in BlockSet PROVE WrittenTo(f, b)'
      <3>1. link[CachePath[f]] # None =>
              data'[link[CachePath[f]]] = data[link[CachePath[f]]]
        BY <1>b, <1>c, <2>1, <2>4, <2>5
      <3> QED
        BY <1>e, <2>1, <2>3, <3>1
    <2>6. Listed(g) = {}
      BY <2>0, <2>1 DEF WriteInv, InUse
    <2>7. ASSUME NEW b \in BlockSet PROVE WrittenTo(g, b)'
      <3>1. WrittenTo(g, b) /\ b \notin Listed(g)'
        BY <2>1, <2>3, <2>6 DEF WriteInv
      <3>2. data'[i][b] \in {data[i][b], Absent}
        BY <1>b, <2>1, <2>2
      <3> QED
        BY <1>a, <1>d, <2>1, <2>3, <3>1, <3>2 DEF WrittenTo
    <2>8. ASSUME NEW f \in Files, NEW b \in BlockSet PROVE WrittenTo(f, b)'
      <3>1. CASE f = g
        BY <2>7, <3>1
      <3>2. CASE f # g
        BY <2>5, <3>2
      <3> QED
        BY <3>1, <3>2
    <2>9. ASSUME NEW f \in Files, Listed(f) # {} PROVE InUse(f)'
      BY <1>f, <2>1, <2>9
    <2> QED
      BY <2>3, <2>8, <2>9 DEF WriteInv
  <1>6. CASE Attach
    <2>1. /\ lpath \in Files /\ lookup[lpath] = lentry /\ lpc = "attach"
          /\ UNCHANGED <<link, data, ceExtents, lookup>> /\ lpc' \in {"attach", "idle"}
      BY <1>6 DEF Attach, LGoto, cache, copies, CoreInv, EntryInv
    <2>2. \A f \in Files : Listed(f)' = Listed(f)
      BY <2>1 DEF Listed
    <2>3. \A f \in Files, b \in BlockSet : WrittenTo(f, b)'
      BY <1>e, <2>1, <2>2
    <2>4. ASSUME NEW f \in Files, Listed(f) # {} PROVE InUse(f)'
      <3>1. ASSUME NEW fd \in Fds, meEntry[fd] = lookup[f]
            PROVE  meEntry'[fd] = lookup[f]
        <4>1. CASE fd = lscan /\ NeedsDescriptor(lscan)
          <5>1. mePath[fd] = lpath /\ meEntry'[fd] = lentry
            BY <1>6, <1>b, <4>1 DEF Attach, NeedsDescriptor
          <5>2. lookup[f] # None
            BY <2>4 DEF Listed
          <5> QED
            BY <2>1, <3>1, <5>1, <5>2 DEF StayInv
        <4>2. CASE ~(fd = lscan /\ NeedsDescriptor(lscan))
          BY <1>6, <1>b, <3>1, <4>2 DEF Attach
        <4> QED
          BY <4>1, <4>2
      <3> QED
        BY <1>f, <2>1, <2>4, <3>1
    <2> QED
      BY <2>2, <2>3, <2>4 DEF WriteInv
  <1>7. ASSUME NEW why, Stop(why) PROVE WriteInv'
    BY <1>7, <1>g DEF Stop, files, slots, copies, cache, ahead
  <1> QED
    BY <1>1, <1>2, <1>3, <1>4, <1>5, <1>6, <1>7, <1>8, OnlyInserts, Zenon

LEMMA WriteInvariant ==
  ASSUME RoomForAll, DistinctCopies, WholeIntervals, OwnOpens
  PROVE  Spec /\ []UsedAlone => []WriteInv
  <1>1. /\ CoreInv /\ RoomInv /\ TableInv /\ CopyInv /\ FileInv /\ StayInv
        /\ UsedAlone /\ UsedAlone' /\ WriteInv /\ [Next]_vars
        => WriteInv'
    <2>1. /\ WriteInv
          /\ UNCHANGED <<src, link, data, fdFile, meEntry, ceExtents, lookup, lpc,
                         lpath, pc, call, version, latest>>
          => WriteInv'
      BY DEF WriteInv, WrittenTo, InUse, Older, Listed, PastCopy, Slot
    <2>2. UNCHANGED vars =>
            UNCHANGED <<src, link, data, fdFile, meEntry, ceExtents, lookup, lpc,
                        lpath, pc, call, version, latest>>
      BY DEF vars, files, slots, copies, cache, app, ahead, history
    <2> QED
      BY <2>1, <2>2, WriteKeptByThread, WriteKeptByLookahead DEF Next, Ended
  <1>2. /\ Spec => []RoomInv
        /\ Spec => []CopyInv
        /\ Spec => []FileInv
        /\ Spec => []StayInv
    BY RoomInvariant, CopyInvariant, FileInvariant, StayInvariant
  <1> QED
    BY <1>1, <1>2, CoreInvariant, TableInvariant, WriteInit, PTL DEF Spec

\* While nothing is evicted, every interval is copied as a whole and each file is used
\* by one call at a time, no write is lost: the last value written to a block is in
\* the source, or in the copy and listed for write-back.
THEOREM WritesSurvive ==
  ASSUME RoomForAll, DistinctCopies, WholeIntervals, OwnOpens
  PROVE  Spec /\ []UsedAlone => []LatestSurvives
  <1>1. ASSUME WriteInv PROVE LatestSurvives
    <2>1. ASSUME NEW f \in Files, NEW b \in BlockSet, b \in Listed(f)
          PROVE  /\ CopyOf(f) # None /\ data[CopyOf(f)][b] = <<f, latest[f][b]>>
                 /\ b \in ceExtents[lookup[f]]
      BY <1>1, <2>1 DEF WriteInv, WrittenTo, Listed, CopyOf
    <2>2. ASSUME NEW f \in Files, NEW b \in BlockSet, b \notin Listed(f)
          PROVE  src[f][b] = <<f, latest[f][b]>>
      BY <1>1, <2>2 DEF WriteInv, WrittenTo
    <2> QED
      BY <2>1, <2>2 DEF LatestSurvives
  <1>2. Spec /\ []UsedAlone => []WriteInv
    BY WriteInvariant
  <1> QED
    BY <1>1, <1>2, PTL

\* The write-back ends when nothing is listed any more.
LEMMA PopEnds ==
  ASSUME CoreInv, [Next]_vars, NEW t \in Threads, pc[t] = "pop", pc'[t] # "pop"
  PROVE  FlushDone(t)
  <1> DEFINE Goal == FlushDone(t)
  <1>0. pc \in [Threads -> Points]
    BY DEF CoreInv, TypeOK
  <1>1. ASSUME NEW u \in Threads, ThreadStep(u) PROVE ThreadStep(t)
    <2>1. u = t
      BY <1>1, OtherCalls
    <2> QED
      BY <1>1, <2>1
  <1>2. ThreadStep(t)
    <2>1. pc' # pc
      OBVIOUS
    <2>2. ~ UNCHANGED vars /\ ~ LookaheadStep
      BY <2>1 DEF vars, LookaheadStep, app
    <2> QED
      BY <1>1, <2>2 DEF Next, Ended
  <1>3. ASSUME NEW f \in Files,
               OpenSource(t, f) \/ OpenForeign(t, f) \/ Advise(t, f)
        PROVE  Goal
    BY <1>3 DEF OpenSource, OpenForeign, Advise
  <1>4. ASSUME NEW op, NEW d, NEW b, Begin(t, op, d, b) PROVE Goal
    BY <1>4 DEF Begin
  <1>5. CASE RetrieveCache(t) \/ OpenMap(t) \/ LockSlot(t) \/ Request(t)
    BY <1>5 DEF RetrieveCache, OpenMap, LockSlot, Request
  <1>6. CASE \/ ReadDirect(t) \/ WriteDirect(t) \/ ReadCached(t) \/ WriteCached(t)
             \/ FlushLock(t) \/ CloseSource(t)
    BY <1>6 DEF ReadDirect, WriteDirect, ReadCached, WriteCached, FlushLock,
       CloseSource
  <1>7. CASE FlushExtent(t)
    BY <1>7 DEF FlushExtent, app
  <1>8. ASSUME NEW why, Stop(why) PROVE Goal
    BY <1>8 DEF Stop, app
  <1> HIDE DEF Goal
  <1>9. Goal \/ FlushDone(t)
    BY <1>2, <1>3, <1>4, <1>5, <1>6, <1>7, <1>8, ThreadActions, Zenon
  <1> QED
    BY <1>9 DEF Goal

\* Under the same conditions, when acl_sync or acl_close is done the source holds
\* the last write to every block of the file.
THEOREM FlushesAreDurable ==
  ASSUME RoomForAll, DistinctCopies, WholeIntervals, OwnOpens
  PROVE  Spec /\ []UsedAlone => FlushIsDurable
  <1>1. ASSUME CoreInv, FileInv, StayInv, WriteInv, [Next]_vars,
               NEW t \in Threads, pc[t] = "pop", pc'[t] # "pop", NEW b \in BlockSet
        PROVE  src[fdFile[Slot(t)]][b][2] = latest[fdFile[Slot(t)]][b]
    <2>1. PICK f : f = fdFile[Slot(t)]
      OBVIOUS
    <2>2. FlushDone(t)
      BY <1>1, PopEnds
    <2>3. f \in Files /\ Listed(f) = {}
      BY <1>1, <2>1, <2>2, OwnCopy DEF FlushDone, NothingToPop, Listed
    <2>4. src[f][b] = <<f, latest[f][b]>>
      BY <1>1, <2>3 DEF WriteInv, WrittenTo
    <2> QED
      BY <2>1, <2>4
  <1>2. CoreInv /\ FileInv /\ StayInv /\ WriteInv /\ [Next]_vars =>
          [\A t \in Threads :
             (pc[t] = "pop" /\ pc'[t] # "pop") =>
               \A b \in BlockSet :
                 src[fdFile[Slot(t)]][b][2] = latest[fdFile[Slot(t)]][b]]_vars
    BY <1>1
  <1>3. /\ Spec /\ []UsedAlone => []WriteInv
        /\ Spec => []FileInv
        /\ Spec => []StayInv
    BY WriteInvariant, FileInvariant, StayInvariant
  <1> QED
    BY <1>2, <1>3, CoreInvariant, PTL DEF Spec, FlushIsDurable

\* Under the same conditions the source never goes back to an older value: a flush
\* writes back the last one.
THEOREM SourcesNeverRegress ==
  ASSUME RoomForAll, DistinctCopies, WholeIntervals, OwnOpens
  PROVE  Spec /\ []UsedAlone => SourceNeverRegresses
  <1>1. ASSUME CoreInv, FileInv, StayInv, WriteInv, NEW t \in Threads, ThreadStep(t),
               NEW f \in Files, NEW b \in BlockSet
        PROVE  \/ src'[f][b] = src[f][b]
               \/ src'[f][b] = <<f, version + 1>>
               \/ src'[f][b] = <<f, latest[f][b]>>
    <2>0. /\ src \in [Files -> Contents] /\ ceExtents \in [Entries -> SUBSET BlockSet]
      BY <1>1 DEF CoreInv, TypeOK
    <2>1. CASE WriteDirect(t)
      <3>1. PICK g, c : /\ g = fdFile[Slot(t)] /\ c = call[t].block
        OBVIOUS
      <3>2. src' = [src EXCEPT ![g][c] = <<g, version + 1>>]
        BY <2>1, <3>1 DEF WriteDirect
      <3> QED
        BY <2>0, <3>2 DEF Contents
    <2>2. CASE WriteCached(t)
      BY <2>2 DEF WriteCached
    <2>3. CASE FlushExtent(t)
      <3>1. PICK g, e, run : /\ g = fdFile[Slot(t)] /\ e = Entry(t)
                             /\ run = LowestRun(ceExtents[Entry(t)])
        OBVIOUS
      <3>2. g \in Files /\ e \in Entries /\ lookup[g] = e /\ ceSource[e] = g /\ e # None
        BY <1>1, <2>3, <3>1, OwnCopy, AclAssumption DEF FlushExtent
      <3>3. src' = [src EXCEPT ![g] =
             [d \in BlockSet |->
                IF d \in CopiedByInterval(run) /\ HasData(link[CachePath[g]], d)
                THEN data[link[CachePath[g]]][d] ELSE @[d]]]
        BY <2>3, <3>1, <3>2 DEF FlushExtent
      <3>4. CopiedByInterval(run) \subseteq Listed(g)
        BY <3>1, <3>2 DEF CopiedByInterval, LowestRun, Listed
      <3>5. CASE f = g /\ b \in CopiedByInterval(run)
        <4>1. src'[f][b] \in {data[link[CachePath[f]]][b], src[f][b]}
          BY <2>0, <3>3, <3>5
        <4> QED
          BY <1>1, <3>4, <3>5, <4>1 DEF WriteInv, WrittenTo
      <3>6. CASE ~(f = g /\ b \in CopiedByInterval(run))
        BY <2>0, <3>3, <3>6
      <3> QED
        BY <3>5, <3>6
    <2>4. CASE ~WriteDirect(t) /\ ~WriteCached(t) /\ ~FlushExtent(t)
      BY <1>1, <2>4, SteadyValues
    <2> QED
      BY <2>1, <2>2, <2>3, <2>4
  <1>2. ASSUME CoreInv, FileInv, StayInv, WriteInv, [Next]_vars,
               NEW f \in Files, NEW b \in BlockSet
        PROVE  src[f][b][2] <= src'[f][b][2]
    <2>1. \/ src'[f][b] = src[f][b]
          \/ src'[f][b] = <<f, version + 1>>
          \/ src'[f][b] = <<f, latest[f][b]>>
      <3>1. LookaheadStep \/ UNCHANGED vars => src' = src
        BY DEF LookaheadStep, vars, files
      <3> QED
        BY <1>1, <1>2, <3>1 DEF Next, Ended
    <2>2. /\ latest[f][b] \in Nat /\ version \in Nat /\ latest[f][b] <= version
          /\ src[f][b] \in Older(f, b)
      BY <1>2 DEF CoreInv, TypeOK, WriteInv, WrittenTo
    <2>3. PICK n \in 0 .. latest[f][b] : src[f][b] = <<f, n>>
      BY <2>2 DEF Older
    <2> QED
      BY <2>1, <2>2, <2>3
  <1>3. CoreInv /\ FileInv /\ StayInv /\ WriteInv /\ [Next]_vars =>
          [\A f \in Files, b \in BlockSet : src[f][b][2] <= src'[f][b][2]]_vars
    BY <1>2
  <1>4. /\ Spec /\ []UsedAlone => []WriteInv
        /\ Spec => []FileInv
        /\ Spec => []StayInv
    BY WriteInvariant, FileInvariant, StayInvariant
  <1> QED
    BY <1>3, <1>4, CoreInvariant, PTL DEF Spec, SourceNeverRegresses

\* Under the same conditions a read returns the last value written to the block, or an
\* older one of that file from a copy that was made before the last write reached the
\* source, or nothing from one that a read error cut short.
THEOREM ReadsAreOfOwnFile ==
  ASSUME RoomForAll, DistinctCopies, WholeIntervals, OwnOpens
  PROVE  Spec /\ []UsedAlone => ReadsLatestOrSourceIsNewer
  <1>1. ASSUME CoreInv, CopyInv, FileInv, StayInv, WriteInv, [Next]_vars,
               NEW t \in Threads, ReadReturns(t)
        PROVE  LET f == fdFile[Slot(t)]
                   b == call[t].block
               IN  \/ buffer'[t] = <<f, latest[f][b]>>
                   \/ /\ buffer'[t] \in {f} \X (0 .. latest[f][b])
                      /\ src[f][b] = <<f, latest[f][b]>>
                   \/ FindsCopyCut(t)
    <2>0. PICK f, b : f = fdFile[Slot(t)] /\ b = call[t].block
      OBVIOUS
    <2>a. call[t].op = "read" /\ call'[t].op = "none"
      BY <1>1 DEF ReadReturns
    <2>1. /\ pc[t] # "idle" /\ Slot(t) \in Fds /\ f \in Files /\ b \in BlockSet
          /\ buffer \in [Threads -> BlockData]
      BY <1>1, <2>0, <2>a, CallSlot DEF CoreInv, TypeOK, CallInv, CallOk
    <2>2. WrittenTo(f, b)
      BY <1>1, <2>1 DEF WriteInv
    <2>3. CASE ReadDirect(t)
      <3>1. buffer'[t] = src[f][b] /\ pc[t] = "direct"
        BY <2>0, <2>1, <2>3 DEF ReadDirect
      <3>2. b \notin Listed(f)
        BY <1>1, <2>0, <2>1, <3>1 DEF WriteInv, InUse, PastCopy
      <3> QED
        BY <2>0, <2>2, <3>1, <3>2 DEF WrittenTo
    <2>4. CASE ReadCached(t)
      <3>1. PICK i : i = meDesc[Slot(t)]
        OBVIOUS
      <3>2. /\ pc[t] = "cached" /\ i # None
            /\ Entry(t) \in live /\ ceMutex[Entry(t)] = None
            /\ buffer'[t] = data[i][b]
        BY <2>0, <2>1, <2>4, <3>1 DEF ReadCached, EntryMutexFree
      <3>3. i = link[CachePath[f]] /\ Entry(t) \in Entries
        BY <1>1, <2>0, <3>1, <3>2, OwnCopy
      <3>4. Complete(i)
        <4>1. CASE lpc = "copy" /\ meEntry[Slot(t)] = lentry
          <5>1. ceMutex[Entry(t)] = Lookahead
            BY <1>1, <3>3, <4>1 DEF CoreInv, LockInv, Entry
          <5>2. Lookahead # None
            BY AclAssumption DEF Procs
          <5> QED
            BY <3>2, <5>1, <5>2
        <4> QED
          BY <1>1, <2>1, <3>1, <3>2, <4>1 DEF CopyInv, Copying
      <3>5. data[i][b] \in Older(f, b) \cup {Absent}
        BY <2>1, <2>2, <3>2, <3>3, <3>4 DEF WrittenTo, Complete
      <3>6. CASE data[i][b] = Absent
        <4>1. data[i][b] # <<f, latest[f][b]>>
          <5>1. latest[f][b] \in Nat
            BY <1>1, <2>1 DEF CoreInv, TypeOK
          <5> QED
            BY <2>1, <3>6, <5>1, AclAssumption DEF Values
        <4>2. src[f][b] = <<f, latest[f][b]>>
          BY <2>2, <3>3, <4>1 DEF WrittenTo
        <4>3. meEntry[Slot(t)] # None
          BY <3>3, AclAssumption DEF Entry
        <4> QED
          BY <2>0, <3>1, <3>2, <3>6, <4>2, <4>3 DEF FindsCopyCut
      <3>7. CASE data[i][b] \in Older(f, b)
        BY <2>0, <2>2, <3>2, <3>3, <3>7 DEF WrittenTo, Older
      <3> QED
        BY <3>5, <3>6, <3>7
    <2> QED
      BY <1>1, <2>a, <2>3, <2>4, ReadEnds
  <1>2. CoreInv /\ CopyInv /\ FileInv /\ StayInv /\ WriteInv /\ [Next]_vars =>
          [\A t \in Threads :
             ReadReturns(t) =>
               LET f == fdFile[Slot(t)]
                   b == call[t].block
               IN  \/ buffer'[t] = <<f, latest[f][b]>>
                   \/ /\ buffer'[t] \in {f} \X (0 .. latest[f][b])
                      /\ src[f][b] = <<f, latest[f][b]>>
                   \/ FindsCopyCut(t)]_vars
    BY <1>1
  <1>3. /\ Spec /\ []UsedAlone => []WriteInv
        /\ Spec => []CopyInv
        /\ Spec => []FileInv
        /\ Spec => []StayInv
    BY WriteInvariant, CopyInvariant, FileInvariant, StayInvariant
  <1> QED
    BY <1>2, <1>3, CoreInvariant, PTL DEF Spec, ReadsLatestOrSourceIsNewer

\* Under the same conditions a slot has open the copy of its own file, whatever is
\* written.
THEOREM WrittenCopiesOfOwnFiles ==
  ASSUME RoomForAll, DistinctCopies, WholeIntervals, OwnOpens
  PROVE  Spec /\ []UsedAlone => []CopyOfOwnFile
  <1>1. ASSUME CoreInv, TableInv, StayInv, WriteInv PROVE CopyOfOwnFile
    <2> SUFFICES ASSUME NEW fd \in Fds, meDesc[fd] # None, NEW b \in BlockSet
                 PROVE  data[meDesc[fd]][b]
                          \in ({mePath[fd]} \X Nat) \cup {None, Absent}
      BY DEF CopyOfOwnFile
    <2>1. PICK f : f = mePath[fd]
      OBVIOUS
    <2>2. f \in Files /\ meDesc[fd] = link[CachePath[f]]
      BY <1>1, <2>1 DEF CoreInv, TypeOK, TableInv, StayInv
    <2>3. data[meDesc[fd]][b] \in Older(f, b) \cup {None, Absent}
      BY <1>1, <2>2 DEF WriteInv, WrittenTo
    <2>4. latest[f][b] \in Nat
      BY <1>1, <2>2 DEF CoreInv, TypeOK
    <2> QED
      BY <2>1, <2>3, <2>4 DEF Older
  <1>2. /\ Spec /\ []UsedAlone => []WriteInv
        /\ Spec => []StayInv
    BY WriteInvariant, StayInvariant
  <1> QED
    BY <1>1, <1>2, CoreInvariant, TableInvariant, PTL
=============================================================================
