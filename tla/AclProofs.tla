----------------------------- MODULE AclProofs ------------------------------
(***************************************************************************)
(* Proofs about Acl for every value of its constants.  CoreInv is the      *)
(* inductive invariant; each of its parts has a lemma which says that a    *)
(* step from a state with CoreInv preserves it.                            *)
(***************************************************************************)
EXTENDS AclProperties, WellFoundedInduction, TLAPS

-----------------------------------------------------------------------------
(* The inductive invariant.                                                *)

\* Where the lookahead thread holds c_mutex, and where it has a victim.
Evicting == {"evict", "detach", "detach_entry", "unlink", "free"}
HasVictim == lpc \in Evicting \ {"evict"}

\* What the locals of a call hold at each point of the call.
CallOk(t) ==
  /\ pc[t] = "idle" <=> call[t].op = "none"
  /\ pc[t] # "idle" => fdFile[Slot(t)] # None
  /\ pc[t] \in {"retrieve", "map"} => call[t].op = "open"
  /\ pc[t] = "lock" => call[t].op \in {"read", "write", "sync", "close"}
  /\ pc[t] \in {"request", "direct", "cached"} => call[t].op \in {"read", "write"}
  /\ pc[t] \in {"flush", "pop"} => call[t].op \in {"sync", "close"}
  /\ pc[t] = "close" => call[t].op = "close"
  /\ call[t].op \in {"read", "write"} => call[t].block \in BlockSet
  /\ pc[t] = "request" => mePath[Slot(t)] # None
  /\ pc[t] \in {"cached", "flush", "pop"} => Entry(t) # None

CallInv == \A t \in Threads : CallOk(t)

\* A descriptor that is being opened or closed is used by one call only.
Overlap(t, u) ==
  t # u /\ call[t].op # "none" /\ call[u].op # "none" /\ Slot(t) = Slot(u)

UseInv ==
  \A t, u \in Threads :
    Overlap(t, u) => call[t].op \in {"read", "write", "sync"}

\* Who holds which mutex, and where.
HoldsSlot(t, fd) == pc[t] \in {"cached", "flush", "pop"} /\ Slot(t) = fd
HoldsEntry(t, e) == pc[t] = "pop" /\ Entry(t) = e

LockInv ==
  /\ cMutex = Lookahead <=> lpc \in Evicting
  /\ \A fd \in Fds :
       /\ mapMutex[fd] = Lookahead <=> lpc = "detach_entry" /\ lscan = fd
       /\ \A t \in Threads : mapMutex[fd] = t <=> HoldsSlot(t, fd)
  /\ \A e \in Entries :
       /\ ceMutex[e] = Lookahead <=> lpc \in {"create", "copy"} /\ lentry = e
       /\ \A t \in Threads : ceMutex[e] = t <=> HoldsEntry(t, e)
       /\ ceMutex[e] # None => e \in live

\* The entries, and what the lookahead thread works on.
EntryInv ==
  /\ \A e \in live : /\ ceSource[e] \in Files
                     /\ lookup[ceSource[e]] = e \/ (HasVictim /\ e = lentry)
  /\ \A f \in Files : lookup[f] # None
       => lookup[f] \in live /\ ceSource[lookup[f]] = f
  /\ priority = {e \in live : ~(HasVictim /\ e = lentry)}
  /\ lpc # "idle" => lpath \in Files
  /\ lpc \in Evicting => lookup[lpath] = None
  /\ lpc \in {"idle", "evict"} => lentry = None
  /\ lpc \notin {"idle", "evict"} => lentry \in live
  /\ HasVictim => lookup[ceSource[lentry]] = None
  /\ lpc \in {"create", "copy", "attach"} => lookup[lpath] = lentry
  /\ lpc = "detach_entry" => meEntry[lscan] = lentry /\ meDesc[lscan] = None

\* Only slots that acl_open filled with an outdated result point to an entry
\* that was freed, or to the victim behind the scan of removed_cache.
DangleInv ==
  \A fd \in Fds : meEntry[fd] # None /\ fd \notin staleOpen =>
    /\ meEntry[fd] \in live
    /\ HasVictim /\ meEntry[fd] = lentry
         => lpc \in {"detach", "detach_entry"} /\ lscan <= fd

CoreInv == TypeOK /\ CallInv /\ UseInv /\ LockInv /\ EntryInv /\ DangleInv

-----------------------------------------------------------------------------
(* The proofs.                                                             *)

\* A block of a file's contents.
LEMMA BlockOfContents ==
  ASSUME NEW S, NEW F \in [S -> Contents], NEW x \in S, NEW b \in BlockSet
  PROVE  F[x][b] \in BlockData
  BY DEF Contents

\* A nonempty set of blocks has a first block.
LEMMA FirstBlock ==
  ASSUME NEW S \in SUBSET Nat, S # {}
  PROVE  First(S) \in S /\ \A b \in S : First(S) <= b
  <1>1. PICK x \in S : \A y \in S : ~ (<<y, x>> \in OpToRel(<, Nat))
    BY NatLessThanWellFounded, WFMin
  <1>2. \A y \in S : ~ (y < x)
    BY <1>1, Zenon DEF OpToRel
  <1>3. \A y \in S : x <= y
    BY <1>2
  <1> QED
    BY <1>3 DEF First

\* The initial states satisfy the invariant.
LEMMA CoreInit == Init => CoreInv
  <1> SUFFICES ASSUME Init PROVE CoreInv
    OBVIOUS
  <1> USE AclAssumption DEF Init
  <1>1. TypeOK
    BY DEF TypeOK, Contents, BlockData, Values, Points, Blank, Calls, Call, NoCall, Fds
  <1>2. CallInv /\ UseInv
    BY DEF CallInv, CallOk, UseInv, Overlap, NoCall, Call
  <1>3. LockInv
    BY DEF LockInv, HoldsSlot, HoldsEntry, Evicting, Procs
  <1>4. EntryInv /\ DangleInv
    BY DEF EntryInv, DangleInv, HasVictim, Evicting
  <1> QED
    BY <1>1, <1>2, <1>3, <1>4 DEF CoreInv

\* A call works on a slot of the table, whose descriptor is open.
LEMMA CallSlot ==
  ASSUME CoreInv, NEW t \in Threads
  PROVE  /\ call[t] \in Calls /\ Slot(t) \in Fds
         /\ Entry(t) \in Entries \cup {None}
         /\ pc[t] # "idle" => fdFile[Slot(t)] \in Files
  <1>1. call[t] \in Calls /\ Slot(t) \in Fds
    BY DEF CoreInv, TypeOK, Calls, Slot
  <1>2. pc[t] # "idle" => fdFile[Slot(t)] # None
    BY DEF CoreInv, CallInv, CallOk
  <1> QED
    BY <1>1, <1>2 DEF CoreInv, TypeOK, Entry

\* Opening a file preserves the types.
LEMMA TypeOpen ==
  ASSUME CoreInv, NEW t \in Threads, OpenStep(t),
         UNCHANGED <<link, entries, cache, ahead>>
  PROVE  TypeOK'
  <1> USE AclAssumption DEF CoreInv, Points, entries, cache, ahead
  <1>1. ASSUME NEW f \in Files, OpenSource(t, f) PROVE TypeOK'
    BY <1>1 DEF TypeOK, OpenSource, Goto, slots, copies, history, Calls, Call,
       AllOps, BlockData
  <1>2. ASSUME NEW f \in Files, OpenForeign(t, f) PROVE TypeOK'
    BY <1>2 DEF TypeOK, OpenForeign, slots, copies, history, app
  <1>3. CASE RetrieveCache(t)
    <2>1. lookup[fdFile[Slot(t)]] \in Entries \cup {None}
      BY <1>3, CallSlot DEF TypeOK, RetrieveCache
    <2>2. call' \in [Threads -> Calls]
      BY <1>3, <2>1, CallSlot DEF TypeOK, RetrieveCache, Calls, Call, AllOps
    <2> QED
      BY <1>3, <2>2 DEF TypeOK, RetrieveCache, Goto, slots, copies, history
  <1>4. CASE OpenMap(t)
    <2>1. Slot(t) \in Fds /\ fdFile[Slot(t)] \in Files
      BY <1>4, CallSlot DEF TypeOK, OpenMap
    <2>2. call[t].entry \in Entries \cup {None}
      BY CallSlot DEF TypeOK, Calls
    <2>3. call[t].entry # None => link[CachePath[ceSource[call[t].entry]]]
                                    \in Inodes \cup {None}
      BY <1>4 DEF TypeOK, OpenMap, EntryInv, CachePaths
    <2>4. call' \in [Threads -> Calls] /\ pc' \in [Threads -> Points]
      BY <1>4, CallSlot DEF TypeOK, OpenMap, Return, Goto, Call, NoCall, Calls,
         Fds,
                            Points
    <2> QED
      BY <1>4, <2>1, <2>2, <2>3, <2>4 DEF TypeOK, OpenMap, copies
  <1>5. CASE OpenMapFreed(t)
    BY <1>5 DEF TypeOK, OpenMapFreed, Stop, files, slots, copies, history, app
  <1> QED
    BY <1>1, <1>2, <1>3, <1>4, <1>5 DEF OpenStep

\* Beginning a call, and looking at its slot, preserve the types.
LEMMA TypeBegin ==
  ASSUME CoreInv, NEW t \in Threads,
         BeginStep(t) \/ SlotStep(t) \/ AdviseStep(t),
         UNCHANGED <<link, entries, cache, ahead>>
  PROVE  TypeOK'
  <1> USE AclAssumption DEF CoreInv, Points, entries, cache, ahead
  <1>1. ASSUME NEW op \in AllOps, NEW fd \in Fds,
               NEW b \in BlockSet \cup {None}, Begin(t, op, fd, b)
        PROVE  TypeOK'
    BY <1>1 DEF TypeOK, Begin, Goto, Call, Calls, slots, copies, history,
                BlockData
  <1>2. CASE LockSlot(t)
    <2>1. pc' \in [Threads -> Points]
      <3>1. PICK l \in Points : Goto(t, l)
        BY <1>2 DEF LockSlot, Return
      <3> QED
        BY <3>1 DEF TypeOK, Goto
    <2>2. call' \in [Threads -> Calls] /\ mapMutex' \in [Fds -> Procs \cup {None}]
      <3>1. call' = call \/ call' = [call EXCEPT ![t] = NoCall]
        BY <1>2 DEF LockSlot, Return
      <3>2. NoCall \in Calls
        BY DEF NoCall, Call, Calls, Fds
      <3>3. \/ mapMutex' = mapMutex
            \/ mapMutex' = [mapMutex EXCEPT ![Slot(t)] = t]
        BY <1>2 DEF LockSlot
      <3>4. call' \in [Threads -> Calls]
        <4>1. call \in [Threads -> Calls]
          BY DEF TypeOK
        <4> QED
          BY <3>1, <3>2, <4>1
      <3>5. mapMutex' \in [Fds -> Procs \cup {None}]
        BY <3>3 DEF TypeOK, Procs
      <3> QED
        BY <3>4, <3>5
    <2>3. meDesc' \in [Fds -> Inodes \cup {None}]
      <3>1. \/ meDesc' = [meDesc EXCEPT ![Slot(t)] = None]
            \/ meDesc' = [meDesc EXCEPT ![Slot(t)] = meDesc[Slot(t)]]
            \/ meDesc' = meDesc
        BY <1>2 DEF LockSlot
      <3> QED
        BY <3>1 DEF TypeOK
    <2> QED
      BY <1>2, <2>1, <2>2, <2>3 DEF TypeOK, LockSlot, copies, history
  <1>3. CASE Request(t)
    <2>1. Window[mePath[Slot(t)]] \subseteq Files
      BY <1>3, CallSlot DEF TypeOK, Request, CallInv, CallOk
    <2> QED
      BY <1>3, <2>1 DEF TypeOK, Request, Goto, slots, copies, history
  <1>4. ASSUME NEW f \in Files, Advise(t, f) PROVE TypeOK'
    BY <1>4 DEF TypeOK, Advise, slots, copies, app, history
  <1>5. CASE BeginStep(t)
    <2>1. PICK op \in AllOps, fd \in Fds, b \in BlockSet \cup {None} :
            Begin(t, op, fd, b)
      <3>1. PICK fd \in Fds :
              \/ \E op \in {"read", "write"}, b \in BlockSet :
                   Begin(t, op, fd, b)
              \/ \E op \in {"sync", "close"} : Begin(t, op, fd, None)
        BY <1>5 DEF BeginStep
      <3>2. {"read", "write"} \cup {"sync", "close"} \subseteq AllOps
        BY DEF AllOps
      <3> QED
        BY <3>1, <3>2, Zenon
    <2> QED
      BY <2>1, <1>1
  <1> QED
    BY <1>2, <1>3, <1>4, <1>5 DEF SlotStep, AdviseStep

\* The calls on the two files preserve the types.
LEMMA TypeAccess ==
  ASSUME CoreInv, NEW t \in Threads, AccessStep(t),
         UNCHANGED <<link, entries, cache, ahead>>
  PROVE  TypeOK'
  <1> USE AclAssumption DEF CoreInv, Points, entries, cache, ahead
  <1> DEFINE fd == Slot(t)
             b == call[t].block
  <1>1. fd \in Fds
    BY CallSlot DEF TypeOK
  <1>2. Return(t) => /\ pc' \in [Threads -> Points]
                     /\ call' \in [Threads -> Calls]
    BY DEF TypeOK, Return, Goto, NoCall, Call, Calls, Fds
  <1>3. ASSUME pc[t] \in {"direct", "cached"}
        PROVE  fdFile[fd] \in Files /\ b \in BlockSet
    BY <1>3, CallSlot DEF TypeOK, CallInv, CallOk
  <1>4. CASE ReadDirect(t)
    <2>1. fdFile[fd] \in Files /\ b \in BlockSet
      BY <1>4, <1>3 DEF ReadDirect
    <2>2. src[fdFile[fd]][b] \in BlockData
      <3>1. src \in [Files -> Contents]
        BY DEF TypeOK
      <3> QED
        BY <2>1, <3>1, BlockOfContents
    <2>3. buffer' \in [Threads -> BlockData]
      BY <1>4, <2>2 DEF TypeOK, ReadDirect
    <2> HIDE DEF fd, b
    <2> QED
      BY <1>4, <1>2, <2>3 DEF TypeOK, ReadDirect, slots, copies, history
  <1>5. ASSUME NEW f \in Files, b \in BlockSet, Written(t, f)
        PROVE  /\ version' \in Nat /\ latest' \in [Files -> [BlockSet -> Nat]]
               /\ <<f, version + 1>> \in BlockData
    BY <1>5 DEF TypeOK, Written, BlockData, Values
  <1>6. CASE WriteDirect(t)
    <2>1. Written(t, fdFile[fd]) /\ fdFile[fd] \in Files /\ b \in BlockSet
      BY <1>6, <1>3 DEF TypeOK, WriteDirect
    <2>2. src' \in [Files -> Contents]
      BY <1>6, <2>1, <1>5 DEF TypeOK, WriteDirect, Contents
    <2> QED
      BY <1>6, <1>2, <1>5, <2>1, <2>2 DEF TypeOK, WriteDirect, slots, copies
  <1>7. CASE DanglingMapping(t) \/ NoDescriptor(t)
    BY <1>7 DEF TypeOK, DanglingMapping, NoDescriptor, Stop, files, slots,
       copies,
                app, history
  <1>8. UnlockSlot(fd) => mapMutex' \in [Fds -> Procs \cup {None}]
    BY DEF TypeOK, UnlockSlot
  <1>9. CASE ReadCached(t)
    <2>1. b \in BlockSet /\ meDesc[fd] \in Inodes
      BY <1>9, <1>1, <1>3 DEF TypeOK, ReadCached
    <2>2. data[meDesc[fd]][b] \in BlockData
      <3>1. data \in [Inodes -> Contents]
        BY DEF TypeOK
      <3> QED
        BY <2>1, <3>1, BlockOfContents
    <2>3. buffer' \in [Threads -> BlockData]
      BY <1>9, <2>2 DEF TypeOK, ReadCached
    <2> QED
      BY <1>9, <1>2, <1>8, <2>3 DEF TypeOK, ReadCached, copies, history
  <1>10. CASE WriteCached(t)
    <2>1. Written(t, fdFile[fd]) /\ fdFile[fd] \in Files /\ b \in BlockSet
      BY <1>10, <1>3 DEF TypeOK, WriteCached
    <2>2. data' \in [Inodes -> Contents]
      BY <1>10, <2>1, <1>5 DEF TypeOK, WriteCached, Contents
    <2>3. ceExtents' \in [Entries -> SUBSET BlockSet]
      BY <1>10, <2>1 DEF TypeOK, WriteCached, MarkDirty
    <2> QED
      BY <1>10, <1>2, <1>5, <1>8, <2>1, <2>2, <2>3 DEF TypeOK, WriteCached
  <1> QED
    BY <1>4, <1>6, <1>7, <1>9, <1>10 DEF AccessStep

\* The write-back preserves the types.
LEMMA TypeFlush ==
  ASSUME CoreInv, NEW t \in Threads, FlushStep(t),
         UNCHANGED <<link, entries, cache, ahead>>
  PROVE  TypeOK'
  <1> USE AclAssumption DEF CoreInv, Points, entries, cache, ahead
  <1>1. Slot(t) \in Fds
    BY CallSlot DEF TypeOK
  <1>2. Return(t) => /\ pc' \in [Threads -> Points]
                     /\ call' \in [Threads -> Calls]
    BY DEF TypeOK, Return, Goto, NoCall, Call, Calls, Fds
  <1>3. CASE FlushLock(t)
    BY <1>3 DEF TypeOK, FlushLock, Goto, Procs, slots, history
  <1>4. CASE FlushExtent(t)
    <2> DEFINE e == Entry(t)
    <2>1. e \in live /\ ceSource[e] \in Files
      <3>1. e \in Entries
        BY <1>4, CallSlot DEF TypeOK, FlushExtent, CallInv, CallOk
      <3>2. ceMutex[e] = t
        BY <1>4, <3>1 DEF TypeOK, FlushExtent, LockInv, HoldsEntry
      <3> QED
        BY <3>1, <3>2 DEF TypeOK, LockInv, EntryInv, Procs
    <2>2. link[CachePath[ceSource[e]]] \in Inodes
      BY <1>4, <2>1 DEF TypeOK, FlushExtent, CachePaths
    <2>3. src' \in [Files -> Contents]
      BY <1>4, <2>1, <2>2 DEF TypeOK, FlushExtent, Contents
    <2>4. ceExtents' \in [Entries -> SUBSET BlockSet]
      BY <1>4, <2>1 DEF TypeOK, FlushExtent
    <2> QED
      BY <1>4, <2>3, <2>4 DEF TypeOK, FlushExtent, slots, app, history
  <1>5. CASE FlushFails(t)
    BY <1>5 DEF TypeOK, FlushFails, Stop, files, slots, copies, app, history
  <1>6. CASE FlushDone(t)
    <2>1. /\ ceMutex' \in [Entries -> Procs \cup {None}]
          /\ mapMutex' \in [Fds -> Procs \cup {None}]
      BY <1>6 DEF TypeOK, FlushDone, UnlockSlot
    <2>2. /\ mePath' \in [Fds -> Files \cup {None}]
          /\ meEntry' \in [Fds -> Entries \cup {None}]
          /\ meDesc' \in [Fds -> Inodes \cup {None}]
          /\ staleOpen' \subseteq Fds
      <3>1. CASE call[t].op = "sync"
        BY <1>6, <3>1 DEF TypeOK, FlushDone
      <3>2. CASE call[t].op = "close"
        <4>1. /\ mePath' = [mePath EXCEPT ![Slot(t)] = None]
              /\ meEntry' = [meEntry EXCEPT ![Slot(t)] = None]
              /\ meDesc' = [meDesc EXCEPT ![Slot(t)] = None]
              /\ staleOpen' = staleOpen \ {Slot(t)}
          BY <1>6, <3>2 DEF FlushDone
        <4> QED
          BY <4>1 DEF TypeOK
      <3> QED
        BY <1>6, <3>1, <3>2 DEF FlushDone
    <2>3. pc' \in [Threads -> Points] /\ call' \in [Threads -> Calls]
      BY <1>6, <1>2 DEF TypeOK, FlushDone, Goto
    <2> QED
      BY <1>6, <2>1, <2>2, <2>3 DEF TypeOK, FlushDone
  <1>7. CASE CloseSource(t)
    BY <1>7, <1>2 DEF TypeOK, CloseSource, slots, copies, history
  <1> QED
    BY <1>3, <1>4, <1>5, <1>6, <1>7 DEF FlushStep

\* Evicting an entry preserves the types.
LEMMA TypeEvict ==
  ASSUME CoreInv, EvictStep,
         UNCHANGED <<src, fdFile, mePath, requested, app, version, latest>>
  PROVE  TypeOK'
  <1> USE AclAssumption DEF CoreInv, Points, app
  <1>1. \A x \in Fds : x # MaxFd => x + 1 \in Fds
    BY DEF Fds
  <1>2. 0 \in Fds /\ Lookahead \in Procs
    BY DEF Fds, Procs
  <1>3. ASSUME NEW v \in Entries, EvictVictim(v) PROVE TypeOK'
    <2>1. lookup' \in [Files -> Entries \cup {None}] /\ priority' \subseteq Entries
      BY <1>3 DEF TypeOK, EvictVictim, LeavesLookup
    <2>2. cSize' \in Int
      BY <1>3 DEF TypeOK, EvictVictim, GivesSpaceBack
    <2> QED
      BY <1>3, <1>2, <2>1, <2>2 DEF TypeOK, EvictVictim, LGoto, slots, copies,
                                    entries
  <1>4. CASE EvictEmpty \/ UnlinkFails \/ FreeInUse
    BY <1>4 DEF TypeOK, EvictEmpty, UnlinkFails, FreeInUse, Stop, files, slots,
                copies, entries, cache, ahead, history
  <1>5. CASE DetachSkip
    BY <1>5, <1>1, <1>2 DEF TypeOK, DetachSkip, NextSlot, LGoto, slots, copies,
                            entries, cache
  <1>6. CASE DetachLock
    BY <1>6, <1>2 DEF TypeOK, DetachLock, LGoto, copies, entries, cache
  <1>7. CASE DetachEntry
    <2>1. /\ lscan' \in Fds /\ lpc' \in {"unlink", "detach"}
      BY <1>7, <1>1, <1>2 DEF TypeOK, DetachEntry, LGoto
    <2>2. /\ meEntry' \in [Fds -> Entries \cup {None}]
          /\ mapMutex' \in [Fds -> Procs \cup {None}]
          /\ staleOpen' \subseteq Fds
      BY <1>7 DEF TypeOK, DetachEntry, UnlockSlot
    <2> QED
      BY <1>7, <2>1, <2>2 DEF TypeOK, DetachEntry, copies, entries, cache
  <1>8. CASE Unlink
    BY <1>8 DEF TypeOK, Unlink, LGoto, slots, copies, entries, cache
  <1>9. CASE FreeEntry
    BY <1>9 DEF TypeOK, FreeEntry, NoExtents, LGoto, slots, cache
  <1> QED
    BY <1>3, <1>4, <1>5, <1>6, <1>7, <1>8, <1>9 DEF EvictStep

\* Inserting an entry preserves the types.
LEMMA TypeInsert ==
  ASSUME CoreInv, InsertStep,
         UNCHANGED <<src, fdFile, mePath, requested, app, version, latest>>
  PROVE  TypeOK'
  <1> USE AclAssumption DEF CoreInv, Points, app
  <1>1. \A x \in Fds : x # MaxFd => x + 1 \in Fds
    BY DEF Fds
  <1>2. 0 \in Fds /\ Lookahead \in Procs
    BY DEF Fds, Procs
  <1>3. ASSUME NEW f \in Files, InsertBegin(f) PROVE TypeOK'
    BY <1>3 DEF TypeOK, InsertBegin, LGoto, slots, copies, entries
  <1>4. ASSUME NEW e \in Entries, InsertEntry(e) PROVE TypeOK'
    <2>1. lpath \in Files /\ Size[lpath] \in Nat
      BY <1>4 DEF TypeOK, InsertEntry, EntryInv
    <2> QED
      BY <1>4, <1>2, <2>1 DEF TypeOK, InsertEntry, NoExtents, LockNew, LGoto,
                              slots
  <1>5. ASSUME NEW i \in Inodes, CopyCreate(i) PROVE TypeOK'
    <2>1. Blank \in Contents
      BY DEF Blank, Contents, BlockData
    <2> QED
      BY <1>5, <2>1 DEF TypeOK, CopyCreate, LGoto, slots, entries, cache
  <1>6. CASE CopyBlock
    <2> DEFINE i == link[CachePath[lpath]]
               b == First(Missing)
    <2>1. data' = [data EXCEPT ![i][b] = src[lpath][b]] /\ lpath \in Files
      BY <1>6 DEF TypeOK, CopyBlock, EntryInv
    <2>2. b \in BlockSet
      BY <1>6, FirstBlock DEF CopyBlock, Missing
    <2>3. data' \in [Inodes -> Contents]
      <3>1. src[lpath][b] \in BlockData
        BY <2>1, <2>2, BlockOfContents DEF TypeOK
      <3> HIDE DEF i, b
      <3> QED
        BY <2>1, <2>2, <3>1 DEF TypeOK, Contents
    <2> QED
      BY <1>6, <2>3 DEF TypeOK, CopyBlock, slots, entries, cache, ahead
  <1>7. CASE InsertFails
    BY <1>7 DEF TypeOK, InsertFails, Stop, files, slots, copies, entries,
                cache, ahead, history
  <1>8. CASE CopyDone \/ CopyCut
    <2>1. data' \in [Inodes -> Contents]
      <3>1. CASE CopyDone
        BY <3>1 DEF TypeOK, CopyDone
      <3>2. CASE CopyCut
        <4> DEFINE i == link[CachePath[lpath]]
                   cut == [b \in BlockSet |-> IF b \in Missing THEN Absent
                                                               ELSE data[i][b]]
        <4>1. data' = [data EXCEPT ![i] = cut]
          BY <3>2 DEF CopyCut
        <4>2. i \in Inodes => cut \in Contents
          BY DEF TypeOK, Contents, BlockData
        <4> HIDE DEF i, cut
        <4> QED
          BY <4>1, <4>2 DEF TypeOK
      <3> QED
        BY <1>8, <3>1, <3>2
    <2> QED
      BY <1>8, <2>1 DEF TypeOK, CopyDone, CopyCut, UnlockNew, LGoto, slots,
                        entries, cache
  <1>9. CASE Attach
    <2>1. /\ lscan' \in Fds /\ lpc' \in {"idle", "attach"}
          /\ lentry' \in Entries \cup {None} /\ lpath' \in Files \cup {None}
      BY <1>9, <1>1, <1>2 DEF TypeOK, Attach, LGoto
    <2>2. link[CachePath[lpath]] \in Inodes \cup {None}
      BY <1>9 DEF TypeOK, Attach, EntryInv, CachePaths
    <2>3. /\ meEntry' \in [Fds -> Entries \cup {None}]
          /\ staleOpen' \subseteq Fds
      <3>1. \/ UNCHANGED <<meEntry, staleOpen>>
            \/ /\ meEntry' = [meEntry EXCEPT ![lscan] = lentry]
               /\ staleOpen' = staleOpen \ {lscan}
        BY <1>9 DEF Attach
      <3> QED
        BY <3>1 DEF TypeOK
    <2>4. meDesc' \in [Fds -> Inodes \cup {None}]
      <3>1. \/ meDesc' = meDesc
            \/ meDesc' = [meDesc EXCEPT ![lscan] = link[CachePath[lpath]]]
        BY <1>9 DEF Attach
      <3> QED
        BY <2>2, <3>1 DEF TypeOK
    <2> QED
      BY <1>9, <2>1, <2>3, <2>4 DEF TypeOK, Attach, copies, entries, cache
  <1> QED
    BY <1>3, <1>4, <1>5, <1>6, <1>7, <1>8, <1>9 DEF InsertStep

\* A step of a process is one of its actions (those that end the process are
\* grouped).
LEMMA ThreadActions ==
  ASSUME NEW t \in Threads, ThreadStep(t)
  PROVE  \/ \E f \in Files : OpenSource(t, f) \/ OpenForeign(t, f) \/ Advise(t, f)
         \/ \E op \in {"read", "write"}, fd \in Fds, b \in BlockSet :
              Begin(t, op, fd, b)
         \/ \E op \in {"sync", "close"}, fd \in Fds : Begin(t, op, fd, None)
         \/ RetrieveCache(t) \/ OpenMap(t) \/ LockSlot(t) \/ Request(t)
         \/ ReadDirect(t) \/ WriteDirect(t) \/ ReadCached(t) \/ WriteCached(t)
         \/ FlushLock(t) \/ FlushExtent(t) \/ FlushDone(t) \/ CloseSource(t)
         \/ \E why \in {"exited", "use_after_free"} : Stop(why)
  BY DEF ThreadStep, OpenStep, BeginStep, SlotStep, AccessStep, FlushStep,
         AdviseStep, OpenMapFreed, DanglingMapping, NoDescriptor, FlushFails

LEMMA LookaheadActions ==
  ASSUME LookaheadStep
  PROVE  \/ \E v \in Entries : EvictVictim(v)
         \/ DetachSkip \/ DetachLock \/ DetachEntry \/ Unlink \/ FreeEntry
         \/ \E f \in Files : InsertBegin(f)
         \/ \E e \in Entries : InsertEntry(e)
         \/ \E i \in Inodes : CopyCreate(i)
         \/ CopyBlock \/ CopyDone \/ CopyCut \/ Attach
         \/ \E why \in {"exited", "use_after_free", "empty_heap"} : Stop(why)
  BY DEF LookaheadStep, EvictStep, InsertStep, EvictEmpty, UnlinkFails,
         FreeInUse, InsertFails

\* A step of one thread leaves the calls of the others where they are.
LEMMA OtherCalls ==
  ASSUME CoreInv, NEW t \in Threads, ThreadStep(t), NEW u \in Threads, u # t
  PROVE  pc'[u] = pc[u] /\ call'[u] = call[u]
  <1>1. pc \in [Threads -> Points] /\ call \in [Threads -> Calls]
    BY DEF CoreInv, TypeOK
  <1> USE <1>1 DEF Goto, Return
  <1>2. ASSUME NEW f \in Files,
               OpenSource(t, f) \/ OpenForeign(t, f) \/ Advise(t, f)
        PROVE  pc'[u] = pc[u] /\ call'[u] = call[u]
    BY <1>2 DEF OpenSource, OpenForeign, Advise, app
  <1>3. ASSUME NEW op, NEW fd, NEW b, Begin(t, op, fd, b)
        PROVE  pc'[u] = pc[u] /\ call'[u] = call[u]
    BY <1>3 DEF Begin
  <1>4. CASE RetrieveCache(t) \/ OpenMap(t) \/ LockSlot(t) \/ Request(t)
    BY <1>4 DEF RetrieveCache, OpenMap, LockSlot, Request
  <1>5. CASE ReadDirect(t) \/ WriteDirect(t) \/ ReadCached(t) \/ WriteCached(t)
    BY <1>5 DEF ReadDirect, WriteDirect, ReadCached, WriteCached
  <1>6. CASE FlushLock(t) \/ FlushExtent(t) \/ FlushDone(t) \/ CloseSource(t)
    BY <1>6 DEF FlushLock, FlushExtent, FlushDone, CloseSource, app
  <1>7. ASSUME NEW why, Stop(why) PROVE pc'[u] = pc[u] /\ call'[u] = call[u]
    BY <1>7 DEF Stop, app
  <1> QED
    BY <1>2, <1>3, <1>4, <1>5, <1>6, <1>7, ThreadActions, Zenon

\* A step of a thread changes slots and descriptors in use only if its call
\* opens or closes that descriptor.
LEMMA TableThread ==
  ASSUME CoreInv, NEW t \in Threads, ThreadStep(t), NEW fd \in Fds,
         fd # Slot(t) \/ call[t].op \notin {"open", "close"}
  PROVE  /\ mePath'[fd] = mePath[fd] /\ meEntry'[fd] = meEntry[fd]
         /\ fdFile[fd] # None => fdFile'[fd] = fdFile[fd]
  <1> DEFINE P == /\ mePath'[fd] = mePath[fd] /\ meEntry'[fd] = meEntry[fd]
                  /\ fdFile[fd] # None => fdFile'[fd] = fdFile[fd]
  <1> USE DEF CoreInv, TypeOK, slots
  <1>1. ASSUME NEW f \in Files, OpenSource(t, f) \/ OpenForeign(t, f) \/ Advise(t, f)
        PROVE  P
    BY <1>1 DEF OpenSource, OpenForeign, Advise
  <1>2. ASSUME NEW op, NEW d, NEW b, Begin(t, op, d, b) PROVE P
    BY <1>2 DEF Begin
  <1>3. CASE RetrieveCache(t) \/ LockSlot(t) \/ Request(t)
    BY <1>3 DEF RetrieveCache, LockSlot, Request
  <1>4. CASE OpenMap(t) \/ CloseSource(t)
    BY <1>4, CallSlot DEF OpenMap, CloseSource, CallInv, CallOk
  <1>5. CASE ReadDirect(t) \/ WriteDirect(t) \/ ReadCached(t) \/ WriteCached(t)
    BY <1>5 DEF ReadDirect, WriteDirect, ReadCached, WriteCached
  <1>6. CASE FlushLock(t) \/ FlushExtent(t) \/ FlushDone(t)
    BY <1>6, CallSlot DEF FlushLock, FlushExtent, FlushDone
  <1>7. ASSUME NEW why, Stop(why) PROVE P
    BY <1>7 DEF Stop
  <1> QED
    BY <1>1, <1>2, <1>3, <1>4, <1>5, <1>6, <1>7, ThreadActions, Zenon

\* A step of a thread keeps what is known of the other calls ...
LEMMA OtherCallOk ==
  ASSUME CoreInv, NEW t \in Threads, ThreadStep(t), NEW u \in Threads, u # t
  PROVE  CallOk(u)'
  <1>1. pc'[u] = pc[u] /\ call'[u] = call[u] /\ Slot(u) \in Fds
    BY OtherCalls, CallSlot
  <1>2. CASE pc[u] = "idle"
    BY <1>1, <1>2 DEF CallOk, CoreInv, CallInv
  <1>3. CASE pc[u] # "idle"
    <2>1. Slot(u) # Slot(t) \/ call[t].op \notin {"open", "close"}
      BY <1>3 DEF CoreInv, CallInv, CallOk, UseInv, Overlap
    <2>2. /\ mePath'[Slot(u)] = mePath[Slot(u)]
          /\ meEntry'[Slot(u)] = meEntry[Slot(u)]
          /\ fdFile[Slot(u)] # None => fdFile'[Slot(u)] = fdFile[Slot(u)]
      BY <1>1, <2>1, TableThread
    <2> QED
      BY <1>1, <2>2 DEF CallOk, CoreInv, CallInv, Slot, Entry
  <1> QED
    BY <1>2, <1>3

\* ... and of its own.
LEMMA OwnCallOk ==
  ASSUME CoreInv, NEW t \in Threads, ThreadStep(t)
  PROVE  CallOk(t)'
  <1>1. CallOk(t) /\ Slot(t) \in Fds /\ call[t] \in Calls
    BY CallSlot DEF CoreInv, CallInv
  <1> USE AclAssumption, <1>1
          DEF CoreInv, TypeOK, CallOk, Goto, Return, Slot, Entry, Call, NoCall, slots
  <1>2. ASSUME NEW f \in Files, OpenSource(t, f) PROVE CallOk(t)'
    BY <1>2 DEF OpenSource
  <1>3. ASSUME NEW f \in Files, OpenForeign(t, f) \/ Advise(t, f)
        PROVE  CallOk(t)'
    BY <1>3 DEF OpenForeign, Advise, app
  <1>4. ASSUME NEW op \in {"read", "write"}, NEW fd \in Fds,
               NEW b \in BlockSet, Begin(t, op, fd, b)
        PROVE  CallOk(t)'
    BY <1>4 DEF Begin
  <1>5. ASSUME NEW op \in {"sync", "close"}, NEW fd \in Fds,
               Begin(t, op, fd, None)
        PROVE  CallOk(t)'
    BY <1>5 DEF Begin
  <1>6. CASE RetrieveCache(t)
    BY <1>6 DEF RetrieveCache
  <1>7. CASE OpenMap(t)
    BY <1>7 DEF OpenMap
  <1>8. CASE LockSlot(t)
    BY <1>8 DEF LockSlot
  <1>9. CASE Request(t)
    BY <1>9 DEF Request
  <1>10. CASE ReadDirect(t) \/ WriteDirect(t)
    BY <1>10 DEF ReadDirect, WriteDirect
  <1>11. CASE ReadCached(t) \/ WriteCached(t)
    BY <1>11 DEF ReadCached, WriteCached
  <1>12. CASE FlushLock(t)
    BY <1>12 DEF FlushLock
  <1>13. CASE FlushExtent(t)
    <2>1. UNCHANGED <<fdFile, mePath, meEntry, pc, call>>
      BY <1>13 DEF FlushExtent, app
    <2> QED
      BY <2>1
  <1>14. CASE FlushDone(t) \/ CloseSource(t)
    BY <1>14 DEF FlushDone, CloseSource
  <1>15. ASSUME NEW why, Stop(why) PROVE CallOk(t)'
    BY <1>15 DEF Stop, app
  <1> HIDE <1>1 DEF CallOk, CoreInv, TypeOK
  <1> QED
    BY <1>2, <1>3, <1>4, <1>5, <1>6, <1>7, <1>8, <1>9, <1>10, <1>11, <1>12,
       <1>13, <1>14, <1>15, ThreadActions, Zenon

\* A call that comes to overlap with another one has just begun, and respects
\* MayUse; a step that goes on with a call only keeps it or ends it.
LEMMA UseThread ==
  ASSUME CoreInv, NEW t \in Threads, ThreadStep(t)
  PROVE  UseInv'
  <1> DEFINE Keeps == \/ call'[t].op = "none"
                      \/ call'[t].op = call[t].op /\ call'[t].fd = call[t].fd
  <1> USE DEF CoreInv, TypeOK
  <1>1. CASE Keeps
    <2> SUFFICES ASSUME NEW u \in Threads, NEW v \in Threads, Overlap(u, v)'
                 PROVE  (call[u].op \in {"read", "write", "sync"})'
      BY DEF UseInv
    <2>1. Overlap(u, v) /\ call'[u].op = call[u].op
      BY <1>1, OtherCalls DEF Overlap, Slot
    <2> QED
      BY <2>1 DEF UseInv
  <1>2. ASSUME NEW f \in Files, OpenSource(t, f) PROVE UseInv'
    <2>1. \A u \in Threads : ~Overlap(u, t)' /\ ~Overlap(t, u)'
      <3> SUFFICES ASSUME NEW u \in Threads, u # t, call[u].op # "none"
                   PROVE  call'[t].fd # call[u].fd
        BY OtherCalls DEF Overlap, Slot
      <3>1. fdFile[call[u].fd] # None
        BY DEF CallInv, CallOk, Slot
      <3> QED
        BY <1>2, <3>1 DEF OpenSource, Call
    <2>2. ASSUME NEW u \in Threads, NEW v \in Threads, u # t, v # t,
                 Overlap(u, v)'
          PROVE  (call[u].op \in {"read", "write", "sync"})'
      <3>1. call'[u] = call[u] /\ call'[v] = call[v]
        BY <2>2, OtherCalls
      <3> QED
        BY <2>2, <3>1 DEF UseInv, Overlap, Slot
    <2> QED
      BY <2>1, <2>2 DEF UseInv
  <1>3. ASSUME NEW op \in {"read", "write", "sync", "close"}, NEW fd \in Fds,
               NEW b, Begin(t, op, fd, b)
        PROVE  UseInv'
    <2>1. call'[t].op = op /\ call'[t].fd = fd /\ MayUse(t, op, fd)
      BY <1>3 DEF Begin, Call
    <2>2. \A u \in Threads : Overlap(u, t)' \/ Overlap(t, u)'
            => op # "close" /\ call[u].op \in {"read", "write", "sync"}
      BY <2>1, OtherCalls DEF Overlap, MayUse, Slot
    <2> QED
      BY <2>1, <2>2, OtherCalls DEF UseInv, Overlap, Slot
  <1>4. ASSUME NEW f \in Files, OpenForeign(t, f) \/ Advise(t, f) PROVE Keeps
    BY <1>4 DEF OpenForeign, Advise, app
  <1>5. ASSUME RetrieveCache(t) PROVE Keeps
    BY <1>5 DEF RetrieveCache, Call, CallInv, CallOk, Slot
  <1>6. ASSUME OpenMap(t) \/ LockSlot(t) \/ Request(t) PROVE Keeps
    BY <1>6 DEF OpenMap, LockSlot, Request, Return, NoCall, Call
  <1>7. ASSUME \/ ReadDirect(t) \/ WriteDirect(t)
               \/ ReadCached(t) \/ WriteCached(t)
        PROVE  Keeps
    BY <1>7 DEF ReadDirect, WriteDirect, ReadCached, WriteCached, Return,
                NoCall, Call
  <1>8. ASSUME \/ FlushLock(t) \/ FlushExtent(t)
               \/ FlushDone(t) \/ CloseSource(t)
        PROVE  Keeps
    BY <1>8 DEF FlushLock, FlushExtent, FlushDone, CloseSource, Return,
                NoCall, Call, app
  <1>9. ASSUME NEW why, Stop(why) PROVE Keeps
    BY <1>9 DEF Stop, app
  <1> QED
    BY <1>1, <1>2, <1>3, <1>4, <1>5, <1>6, <1>7, <1>8, <1>9, ThreadActions,
       Zenon

\* What another thread holds it goes on holding, and nothing more.
LEMMA OtherHolds ==
  ASSUME CoreInv, NEW t \in Threads, ThreadStep(t), NEW u \in Threads, u # t
  PROVE  /\ \A fd : HoldsSlot(u, fd)' <=> HoldsSlot(u, fd)
         /\ \A e : HoldsEntry(u, e)' <=> HoldsEntry(u, e)
  <1>1. pc'[u] = pc[u] /\ call'[u] = call[u] /\ Slot(u) \in Fds
    BY OtherCalls, CallSlot
  <1>2. pc[u] = "pop" => Entry(u)' = Entry(u)
    <2> SUFFICES ASSUME pc[u] = "pop" PROVE Entry(u)' = Entry(u)
      OBVIOUS
    <2>1. Slot(u) # Slot(t) \/ call[t].op \notin {"open", "close"}
      BY DEF CoreInv, CallInv, CallOk, UseInv, Overlap
    <2> QED
      BY <1>1, <2>1, TableThread DEF Entry, Slot
  <1> QED
    BY <1>1, <1>2 DEF HoldsSlot, HoldsEntry, Slot

\* A thread's step keeps LockInv if the mutexes change as the points of the
\* thread say.
LEMMA LockThreadFrom ==
  ASSUME CoreInv, NEW t \in Threads, ThreadStep(t),
         \A fd \in Fds :
           \/ mapMutex'[fd] = mapMutex[fd] /\ (HoldsSlot(t, fd)' <=> HoldsSlot(t, fd))
           \/ mapMutex[fd] = None /\ mapMutex'[fd] = t /\ HoldsSlot(t, fd)'
           \/ mapMutex[fd] = t /\ mapMutex'[fd] = None /\ ~HoldsSlot(t, fd)',
         \A e \in Entries :
           \/ ceMutex'[e] = ceMutex[e] /\ (HoldsEntry(t, e)' <=> HoldsEntry(t, e))
           \/ /\ ceMutex[e] = None /\ ceMutex'[e] = t /\ HoldsEntry(t, e)'
              /\ e \in live
           \/ ceMutex[e] = t /\ ceMutex'[e] = None /\ ~HoldsEntry(t, e)'
  PROVE  LockInv'
  <1>1. t # Lookahead /\ t # None /\ Lookahead # None
    BY AclAssumption DEF Procs
  <1>2. UNCHANGED <<cMutex, lpc, lscan, lentry, live>>
    BY DEF ThreadStep, entries, cache, ahead
  <1>3. None \notin Threads
    BY AclAssumption DEF Procs
  <1>4. ASSUME NEW fd \in Fds
        PROVE  /\ (mapMutex[fd] = Lookahead <=> lpc = "detach_entry" /\ lscan = fd)'
               /\ \A u \in Threads : (mapMutex[fd] = u <=> HoldsSlot(u, fd))'
    <2>1. mapMutex'[fd] = Lookahead <=> mapMutex[fd] = Lookahead
      BY <1>1
    <2>2. ASSUME NEW u \in Threads, u # t
          PROVE  (mapMutex[fd] = u <=> HoldsSlot(u, fd))'
      BY <2>2, <1>3, OtherHolds DEF CoreInv, LockInv
    <2>3. (mapMutex[fd] = t <=> HoldsSlot(t, fd))'
      BY <1>1 DEF CoreInv, LockInv
    <2> QED
      BY <1>2, <2>1, <2>2, <2>3 DEF CoreInv, LockInv
  <1>5. ASSUME NEW e \in Entries
        PROVE  /\ (ceMutex[e] = Lookahead <=> lpc \in {"create", "copy"} /\ lentry = e)'
               /\ \A u \in Threads : (ceMutex[e] = u <=> HoldsEntry(u, e))'
               /\ (ceMutex[e] # None => e \in live)'
    <2>1. ceMutex'[e] = Lookahead <=> ceMutex[e] = Lookahead
      BY <1>1
    <2>2. ASSUME NEW u \in Threads, u # t
          PROVE  (ceMutex[e] = u <=> HoldsEntry(u, e))'
      BY <2>2, <1>3, OtherHolds DEF CoreInv, LockInv
    <2>3. (ceMutex[e] = t <=> HoldsEntry(t, e))'
      BY <1>1 DEF CoreInv, LockInv
    <2> QED
      BY <1>2, <2>1, <2>2, <2>3 DEF CoreInv, LockInv
  <1> QED
    BY <1>2, <1>4, <1>5 DEF CoreInv, LockInv

\* Every step of a thread keeps LockInv.
LEMMA LockThread ==
  ASSUME CoreInv, NEW t \in Threads, ThreadStep(t)
  PROVE  LockInv'
  <1> DEFINE SL == \A fd \in Fds :
               \/ mapMutex'[fd] = mapMutex[fd]
                  /\ (HoldsSlot(t, fd)' <=> HoldsSlot(t, fd))
               \/ mapMutex[fd] = None /\ mapMutex'[fd] = t /\ HoldsSlot(t, fd)'
               \/ mapMutex[fd] = t /\ mapMutex'[fd] = None /\ ~HoldsSlot(t, fd)'
             EL == \A e \in Entries :
               \/ ceMutex'[e] = ceMutex[e]
                  /\ (HoldsEntry(t, e)' <=> HoldsEntry(t, e))
               \/ /\ ceMutex[e] = None /\ ceMutex'[e] = t /\ HoldsEntry(t, e)'
                  /\ e \in live
               \/ ceMutex[e] = t /\ ceMutex'[e] = None /\ ~HoldsEntry(t, e)'
  <1> SUFFICES SL /\ EL
    BY LockThreadFrom
  <1> DEFINE Holds(l) == l \in {"cached", "flush", "pop"}
  <1>a. ASSUME UNCHANGED <<mapMutex, ceMutex>>, ~Holds(pc[t]), ~Holds(pc'[t])
        PROVE  SL /\ EL
    BY <1>a DEF HoldsSlot, HoldsEntry
  <1>b. ASSUME UNCHANGED <<mapMutex, ceMutex, pc, call, meEntry>>
        PROVE  SL /\ EL
    BY <1>b DEF HoldsSlot, HoldsEntry, Slot, Entry
  <1>c. Slot(t) \in Fds /\ pc \in [Threads -> Points]
    BY CallSlot DEF CoreInv, TypeOK
  <1>1. ASSUME NEW f \in Files, OpenSource(t, f) PROVE SL /\ EL
    BY <1>1, <1>a, <1>c DEF OpenSource, slots, copies, Goto
  <1>2. ASSUME NEW f \in Files, OpenForeign(t, f) \/ Advise(t, f)
        PROVE  SL /\ EL
    BY <1>2, <1>b DEF OpenForeign, Advise, app, slots, copies
  <1>3. ASSUME NEW op, NEW fd, NEW b, Begin(t, op, fd, b) PROVE SL /\ EL
    BY <1>3, <1>a, <1>c DEF Begin, slots, copies, Goto
  <1>4. CASE RetrieveCache(t) \/ Request(t)
    BY <1>4, <1>a, <1>c DEF RetrieveCache, Request, slots, copies, Goto
  <1>5. CASE OpenMap(t)
    BY <1>5, <1>a, <1>c DEF OpenMap, copies, Goto, Return
  <1>6. CASE LockSlot(t)
    <2>1. pc[t] = "lock" /\ ceMutex' = ceMutex /\ mapMutex[Slot(t)] = None
      BY <1>6 DEF LockSlot, copies
    <2>2. CASE Entry(t) # None
      <3>1. /\ mapMutex' = [mapMutex EXCEPT ![Slot(t)] = t]
            /\ pc'[t] \in {"cached", "flush"} /\ call' = call
        BY <1>6, <1>c, <2>2 DEF LockSlot, Goto
      <3> QED
        BY <2>1, <3>1, <1>c DEF HoldsSlot, HoldsEntry, Slot, CoreInv, TypeOK
    <2>3. CASE Entry(t) = None
      <3>1. mapMutex' = mapMutex /\ ~Holds(pc'[t])
        BY <1>6, <1>c, <2>3 DEF LockSlot, Goto, Return
      <3> QED
        BY <2>1, <3>1, <1>a
    <2> QED
      BY <2>2, <2>3
  <1>7. CASE ReadDirect(t) \/ WriteDirect(t)
    BY <1>7, <1>a, <1>c DEF ReadDirect, WriteDirect, slots, copies, Goto, Return
  <1>8. CASE ReadCached(t) \/ WriteCached(t)
    <2>1. pc[t] = "cached" /\ mapMutex[Slot(t)] = t
      BY <1>8, <1>c DEF ReadCached, WriteCached, CoreInv, LockInv, HoldsSlot
    <2>2. /\ mapMutex' = [mapMutex EXCEPT ![Slot(t)] = None]
          /\ pc'[t] = "idle" /\ ceMutex' = ceMutex
      BY <1>8, <1>c DEF ReadCached, WriteCached, UnlockSlot, Return, Goto, copies
    <2> QED
      BY <2>1, <2>2, <1>c DEF HoldsSlot, HoldsEntry, CoreInv, TypeOK
  <1>9. CASE FlushLock(t)
    <2>1. /\ pc[t] = "flush" /\ pc'[t] = "pop"
          /\ Entry(t) \in live /\ ceMutex[Entry(t)] = None
          /\ ceMutex' = [ceMutex EXCEPT ![Entry(t)] = t]
          /\ UNCHANGED <<mapMutex, call, meEntry>>
      BY <1>9, <1>c DEF FlushLock, EntryMutexFree, Goto, slots
    <2>2. Slot(t)' = Slot(t) /\ Entry(t)' = Entry(t)
      BY <2>1 DEF Slot, Entry
    <2>3. SL
      BY <2>1, <2>2 DEF HoldsSlot
    <2>4. EL
      BY <2>1, <2>2 DEF HoldsEntry, CoreInv, TypeOK
    <2> QED
      BY <2>3, <2>4
  <1>10. CASE FlushExtent(t)
    BY <1>10, <1>b DEF FlushExtent, app, slots
  <1>11. CASE FlushDone(t)
    <2>1. pc[t] = "pop" /\ mapMutex[Slot(t)] = t
      BY <1>11, <1>c DEF FlushDone, CoreInv, LockInv, HoldsSlot
    <2>2. \A e \in Entries : ceMutex[e] = t <=> Entry(t) = e
      BY <1>11 DEF FlushDone, CoreInv, LockInv, HoldsEntry
    <2>3. /\ mapMutex' = [mapMutex EXCEPT ![Slot(t)] = None]
          /\ ceMutex' = [ceMutex EXCEPT ![Entry(t)] = None]
          /\ ~Holds(pc'[t])
      BY <1>11, <1>c DEF FlushDone, UnlockSlot, Return, Goto
    <2>4. SL
      BY <2>1, <2>3, <1>c DEF HoldsSlot, CoreInv, TypeOK
    <2>5. EL
      BY <2>1, <2>2, <2>3 DEF HoldsEntry, CoreInv, TypeOK
    <2> QED
      BY <2>4, <2>5
  <1>12. CASE CloseSource(t)
    BY <1>12, <1>a, <1>c DEF CloseSource, slots, copies, Goto, Return
  <1>13. ASSUME NEW why, Stop(why) PROVE SL /\ EL
    BY <1>13, <1>b DEF Stop, app, slots, copies
  <1> HIDE DEF SL, EL
  <1> QED
    BY <1>1, <1>2, <1>3, <1>4, <1>5, <1>6, <1>7, <1>8, <1>9, <1>10, <1>11,
       <1>12, <1>13, ThreadActions, Zenon

\* The lookahead thread leaves alone the slots whose mutex a thread holds.
LEMMA SlotSafe ==
  ASSUME CoreInv, LookaheadStep, NEW fd \in Fds, NEW t \in Threads,
         mapMutex[fd] = t
  PROVE  meEntry'[fd] = meEntry[fd] /\ meDesc'[fd] = meDesc[fd]
  <1>1. t # Lookahead /\ t # None
    BY AclAssumption DEF Procs
  <1>2. CASE DetachLock \/ DetachEntry \/ Attach
    BY <1>1, <1>2 DEF CoreInv, LockInv, TypeOK, DetachLock, DetachEntry, Attach
  <1>3. CASE DetachSkip \/ Unlink \/ FreeEntry \/ CopyBlock \/ CopyDone \/ CopyCut
    BY <1>3 DEF DetachSkip, Unlink, FreeEntry, CopyBlock, CopyDone, CopyCut, slots
  <1>4. ASSUME NEW x, EvictVictim(x) \/ InsertBegin(x) \/ InsertEntry(x)
                      \/ CopyCreate(x) \/ Stop(x)
        PROVE  meEntry'[fd] = meEntry[fd] /\ meDesc'[fd] = meDesc[fd]
    BY <1>4 DEF EvictVictim, InsertBegin, InsertEntry, CopyCreate, Stop, slots
  <1> QED
    BY <1>2, <1>3, <1>4, LookaheadActions, Zenon

\* A step of the lookahead thread keeps what is known of the calls.
LEMMA CallLookahead ==
  ASSUME CoreInv, LookaheadStep
  PROVE  CallInv' /\ UseInv'
  <1>1. UNCHANGED <<fdFile, mePath, pc, call>>
    BY DEF LookaheadStep, app
  <1>2. UseInv'
    BY <1>1 DEF CoreInv, UseInv, Overlap, Slot
  <1>3. ASSUME NEW t \in Threads PROVE CallOk(t)'
    <2>1. pc[t] \in {"cached", "flush", "pop"} => Entry(t)' = Entry(t)
      <3> SUFFICES ASSUME pc[t] \in {"cached", "flush", "pop"}
                   PROVE  Entry(t)' = Entry(t)
        OBVIOUS
      <3>1. Slot(t) \in Fds /\ mapMutex[Slot(t)] = t
        BY CallSlot DEF CoreInv, LockInv, HoldsSlot
      <3> QED
        BY <1>1, <3>1, SlotSafe DEF Entry, Slot
    <2> QED
      BY <1>1, <2>1 DEF CoreInv, CallInv, CallOk, Slot
  <1> QED
    BY <1>2, <1>3 DEF CallInv

\* The threads hold after a step of the lookahead thread what they held before.
LEMMA LookaheadHolds ==
  ASSUME CoreInv, LookaheadStep, NEW t \in Threads
  PROVE  /\ \A fd \in Fds : HoldsSlot(t, fd)' <=> HoldsSlot(t, fd)
         /\ \A e \in Entries : HoldsEntry(t, e)' <=> HoldsEntry(t, e)
  <1>1. UNCHANGED <<pc, call>>
    BY DEF LookaheadStep, app
  <1>2. pc[t] = "pop" => Entry(t)' = Entry(t)
    <2> SUFFICES ASSUME pc[t] = "pop" PROVE Entry(t)' = Entry(t)
      OBVIOUS
    <2>1. Slot(t) \in Fds /\ mapMutex[Slot(t)] = t
      BY CallSlot DEF CoreInv, LockInv, HoldsSlot
    <2> QED
      BY <1>1, <2>1, SlotSafe DEF Entry, Slot
  <1> QED
    BY <1>1, <1>2 DEF HoldsSlot, HoldsEntry, Slot

\* A step of the lookahead thread keeps LockInv if its own mutexes change as
\* its points say and it takes none that a thread holds.
LEMMA LockLookaheadFrom ==
  ASSUME CoreInv, LookaheadStep,
         (cMutex = Lookahead <=> lpc \in Evicting)',
         \A fd \in Fds :
           /\ (mapMutex[fd] = Lookahead <=> lpc = "detach_entry" /\ lscan = fd)'
           /\ \/ mapMutex'[fd] = mapMutex[fd]
              \/ {mapMutex[fd], mapMutex'[fd]} \subseteq {Lookahead, None},
         \A e \in Entries :
           /\ (ceMutex[e] = Lookahead
                 <=> lpc \in {"create", "copy"} /\ lentry = e)'
           /\ \/ ceMutex'[e] = ceMutex[e]
              \/ {ceMutex[e], ceMutex'[e]} \subseteq {Lookahead, None}
           /\ (ceMutex[e] # None => e \in live)'
  PROVE  LockInv'
  <1>1. \A t \in Threads : t # Lookahead /\ t # None
    BY AclAssumption DEF Procs
  <1>2. ASSUME NEW fd \in Fds, NEW t \in Threads
        PROVE  (mapMutex[fd] = t <=> HoldsSlot(t, fd))'
    <2>1. mapMutex'[fd] = t <=> mapMutex[fd] = t
      BY <1>1
    <2> QED
      BY <2>1, LookaheadHolds DEF CoreInv, LockInv
  <1>3. ASSUME NEW e \in Entries, NEW t \in Threads
        PROVE  (ceMutex[e] = t <=> HoldsEntry(t, e))'
    <2>1. ceMutex'[e] = t <=> ceMutex[e] = t
      BY <1>1
    <2> QED
      BY <2>1, LookaheadHolds DEF CoreInv, LockInv
  <1> QED
    BY <1>2, <1>3 DEF LockInv

\* Every step of the lookahead thread keeps LockInv.
LEMMA LockLookahead ==
  ASSUME CoreInv, LookaheadStep
  PROVE  LockInv'
  <1> DEFINE CL == (cMutex = Lookahead <=> lpc \in Evicting)'
             SL == \A fd \in Fds :
               /\ (mapMutex[fd] = Lookahead
                     <=> lpc = "detach_entry" /\ lscan = fd)'
               /\ \/ mapMutex'[fd] = mapMutex[fd]
                  \/ {mapMutex[fd], mapMutex'[fd]} \subseteq {Lookahead, None}
             EL == \A e \in Entries :
               /\ (ceMutex[e] = Lookahead
                     <=> lpc \in {"create", "copy"} /\ lentry = e)'
               /\ \/ ceMutex'[e] = ceMutex[e]
                  \/ {ceMutex[e], ceMutex'[e]} \subseteq {Lookahead, None}
               /\ (ceMutex[e] # None => e \in live)'
             Goal == CL /\ SL /\ EL
  <1>0. Lookahead # None
    BY AclAssumption DEF Procs
  <1> SUFFICES Goal
    BY LockLookaheadFrom
  <1>a. SUFFICES ASSUME TypeOK, LockInv, EntryInv PROVE Goal
    BY DEF CoreInv
  <1> USE <1>0 DEF TypeOK, LockInv, Evicting, LGoto
  <1>1. ASSUME NEW v \in Entries, EvictVictim(v) PROVE Goal
    BY <1>1, <1>a DEF EvictVictim, slots, copies, entries
  <1>2. CASE DetachSkip
    BY <1>2, <1>a DEF DetachSkip, NextSlot, slots, copies, entries, cache
  <1>3. CASE DetachLock
    <2>1. CL /\ EL
      BY <1>3, <1>a DEF DetachLock, copies, entries, cache
    <2>2. SL
      BY <1>3, <1>a DEF DetachLock
    <2> QED
      BY <2>1, <2>2
  <1>4. CASE DetachEntry
    <2>1. CL /\ EL
      BY <1>4, <1>a DEF DetachEntry, copies, entries, cache
    <2>2. SL
      BY <1>4, <1>a DEF DetachEntry, UnlockSlot
    <2> QED
      BY <2>1, <2>2
  <1>5. CASE Unlink
    BY <1>5, <1>a DEF Unlink, slots, copies, entries, cache
  <1>6. CASE FreeEntry
    BY <1>6, <1>a DEF FreeEntry, NoExtents, slots, cache
  <1>7. ASSUME NEW f \in Files, InsertBegin(f) PROVE Goal
    BY <1>7, <1>a DEF InsertBegin, slots, copies, entries
  <1>8. ASSUME NEW e \in Entries, InsertEntry(e) PROVE Goal
    <2>1. CL /\ SL
      BY <1>8, <1>a DEF InsertEntry, slots
    <2>2. EL
      BY <1>8, <1>a DEF InsertEntry, LockNew
    <2> QED
      BY <2>1, <2>2
  <1>9. ASSUME NEW i \in Inodes, CopyCreate(i) PROVE Goal
    BY <1>9, <1>a DEF CopyCreate, slots, entries, cache
  <1>10. CASE CopyBlock
    BY <1>10, <1>a DEF CopyBlock, slots, entries, cache, ahead
  <1>11. CASE CopyDone \/ CopyCut
    BY <1>11, <1>a DEF CopyDone, CopyCut, UnlockNew, slots, entries, cache
  <1>12. CASE Attach
    BY <1>12, <1>a DEF Attach, copies, entries, cache
  <1>13. ASSUME NEW why, Stop(why) PROVE Goal
    BY <1>13, <1>a DEF Stop, slots, copies, entries, cache, ahead
  <1> HIDE <1>0 DEF Goal, TypeOK, LockInv
  <1> QED
    BY <1>1, <1>2, <1>3, <1>4, <1>5, <1>6, <1>7, <1>8, <1>9, <1>10, <1>11,
       <1>12, <1>13, LookaheadActions, Zenon

\* A thread leaves alone the slot whose mutex the lookahead thread holds.
LEMMA SlotSafeThread ==
  ASSUME CoreInv, NEW t \in Threads, ThreadStep(t), NEW fd \in Fds,
         mapMutex[fd] = Lookahead
  PROVE  meEntry'[fd] = meEntry[fd] /\ meDesc'[fd] = meDesc[fd]
  <1> DEFINE Goal == meEntry'[fd] = meEntry[fd] /\ meDesc'[fd] = meDesc[fd]
  <1> SUFFICES Goal
    OBVIOUS
  <1>0. t # Lookahead /\ Lookahead # None
    BY AclAssumption DEF Procs
  <1>a. mapMutex[Slot(t)] \in {t, None} => fd # Slot(t)
    BY <1>0
  <1>b. meEntry \in [Fds -> Entries \cup {None}]
          /\ meDesc \in [Fds -> Inodes \cup {None}]
    BY DEF CoreInv, TypeOK
  <1>1. ASSUME NEW f \in Files,
               OpenSource(t, f) \/ OpenForeign(t, f) \/ Advise(t, f)
        PROVE  Goal
    BY <1>1 DEF OpenSource, OpenForeign, Advise, slots
  <1>2. ASSUME NEW op, NEW d, NEW b, Begin(t, op, d, b) PROVE Goal
    BY <1>2 DEF Begin, slots
  <1>3. CASE RetrieveCache(t) \/ Request(t) \/ FlushLock(t) \/ FlushExtent(t)
             \/ CloseSource(t) \/ ReadDirect(t) \/ WriteDirect(t)
    BY <1>3 DEF RetrieveCache, Request, FlushLock, FlushExtent, CloseSource,
                ReadDirect, WriteDirect, slots
  <1>4. CASE ReadCached(t) \/ WriteCached(t)
    BY <1>4 DEF ReadCached, WriteCached
  <1>5. CASE OpenMap(t)
    BY <1>5, <1>a, <1>b DEF OpenMap
  <1>6. CASE LockSlot(t)
    BY <1>6, <1>a, <1>b DEF LockSlot
  <1>7. CASE FlushDone(t)
    <2>1. mapMutex[Slot(t)] = t
      BY <1>7, CallSlot DEF FlushDone, CoreInv, LockInv, HoldsSlot
    <2> QED
      BY <1>7, <2>1, <1>a, <1>b DEF FlushDone
  <1>8. ASSUME NEW why, Stop(why) PROVE Goal
    BY <1>8 DEF Stop, slots
  <1> HIDE DEF Goal
  <1> QED
    BY <1>1, <1>2, <1>3, <1>4, <1>5, <1>6, <1>7, <1>8, ThreadActions, Zenon

\* The steps of a thread keep what is known of the entries ...
LEMMA EntryThread ==
  ASSUME CoreInv, NEW t \in Threads, ThreadStep(t)
  PROVE  EntryInv'
  <1>1. UNCHANGED <<live, ceSource, lookup, priority, lpc, lpath, lentry, lscan>>
    BY DEF ThreadStep, entries, cache, ahead
  <1>2. lpc = "detach_entry" => /\ meEntry'[lscan] = meEntry[lscan]
                                /\ meDesc'[lscan] = meDesc[lscan]
    BY SlotSafeThread DEF CoreInv, LockInv, TypeOK
  <1> QED
    BY <1>1, <1>2 DEF CoreInv, EntryInv, HasVictim

\* ... and of what the slots point to.
LEMMA DangleThread ==
  ASSUME CoreInv, NEW t \in Threads, ThreadStep(t)
  PROVE  DangleInv'
  <1> DEFINE Same == UNCHANGED <<meEntry, staleOpen>>
  <1>1. UNCHANGED <<live, lpc, lentry, lscan>>
    BY DEF ThreadStep, entries, ahead
  <1>2. ASSUME Same PROVE DangleInv'
    BY <1>1, <1>2 DEF CoreInv, DangleInv, HasVictim
  <1>3. ASSUME NEW f \in Files,
               OpenSource(t, f) \/ OpenForeign(t, f) \/ Advise(t, f)
        PROVE  Same
    BY <1>3 DEF OpenSource, OpenForeign, Advise, slots, history
  <1>4. ASSUME NEW op, NEW d, NEW b, Begin(t, op, d, b)
        PROVE  Same
    BY <1>4 DEF Begin, slots, history
  <1>5. ASSUME \/ RetrieveCache(t) \/ Request(t) \/ FlushLock(t)
               \/ FlushExtent(t) \/ CloseSource(t) \/ LockSlot(t)
               \/ ReadDirect(t) \/ WriteDirect(t)
               \/ ReadCached(t) \/ WriteCached(t)
        PROVE  Same
    BY <1>5 DEF RetrieveCache, Request, FlushLock, FlushExtent, CloseSource,
                LockSlot, ReadDirect, WriteDirect, ReadCached, WriteCached,
                slots, history
  <1>6. CASE OpenMap(t)
    <2> DEFINE e == call[t].entry
               f == fdFile[Slot(t)]
    <2>1. /\ meEntry' = [meEntry EXCEPT ![Slot(t)] = e]
          /\ staleOpen' = IF e = lookup[f] THEN staleOpen \ {Slot(t)}
                                           ELSE staleOpen \cup {Slot(t)}
      BY <1>6 DEF OpenMap
    <2>2. f \in Files
      BY <1>6, CallSlot DEF OpenMap
    <2>3. e = lookup[f] /\ e # None => e \in live /\ ~(HasVictim /\ e = lentry)
      BY <2>2 DEF CoreInv, EntryInv
    <2> HIDE DEF e, f
    <2> QED
      BY <2>1, <2>3, <1>1 DEF CoreInv, TypeOK, DangleInv, HasVictim
  <1>7. CASE FlushDone(t)
    <2>1. \A fd \in Fds : \/ meEntry'[fd] = None
                          \/ /\ meEntry'[fd] = meEntry[fd]
                             /\ fd \in staleOpen => fd \in staleOpen'
      BY <1>7 DEF FlushDone, CoreInv, TypeOK
    <2> QED
      BY <1>1, <2>1 DEF CoreInv, DangleInv, HasVictim
  <1>8. ASSUME NEW why, Stop(why) PROVE Same
    BY <1>8 DEF Stop, slots, history
  <1> HIDE DEF Same
  <1> QED
    <2>1. Same \/ OpenMap(t) \/ FlushDone(t)
      BY <1>3, <1>4, <1>5, <1>8, ThreadActions, Zenon
    <2> QED
      BY <2>1, <1>2, <1>6, <1>7, Zenon

\* A slot above another one is not the last but at or above its successor.
LEMMA SlotAbove ==
  ASSUME NEW a \in Fds, NEW b \in Fds, a # b, a <= b
  PROVE  a # MaxFd /\ a + 1 <= b
  BY AclAssumption DEF Fds

\* The steps of the lookahead thread keep what is known of the entries and of
\* what the slots point to.
LEMMA EntryLookahead ==
  ASSUME CoreInv, LookaheadStep
  PROVE  EntryInv' /\ DangleInv'
  <1> DEFINE Goal == EntryInv' /\ DangleInv'
  <1>a. TypeOK /\ LockInv /\ EntryInv /\ DangleInv /\ mePath' = mePath
    BY DEF CoreInv, LookaheadStep
  <1>b. None \notin Files \cup Entries
    BY AclAssumption
  <1>c. MaxFd \in Nat /\ \A fd \in Fds : fd \in Int /\ 0 <= fd /\ fd <= MaxFd
    BY AclAssumption DEF Fds
  <1> SUFFICES Goal
    OBVIOUS
  <1> USE <1>b DEF TypeOK, EntryInv, DangleInv, HasVictim, Evicting, LGoto
  <1>1. ASSUME NEW v \in Entries, EvictVictim(v) PROVE Goal
    <2>1. v \in live /\ ceSource[v] \in Files /\ lookup[ceSource[v]] = v
      BY <1>1, <1>a DEF EvictVictim
    <2>2. lookup' = [lookup EXCEPT ![ceSource[v]] = None]
      BY <1>1 DEF EvictVictim, LeavesLookup
    <2>3. EntryInv'
      BY <1>1, <1>a, <2>1, <2>2 DEF EvictVictim, entries
    <2>4. DangleInv'
      BY <1>1, <1>a, <1>c DEF EvictVictim, entries, slots
    <2> QED
      BY <2>3, <2>4
  <1>2. CASE DetachSkip
    <2>1. EntryInv'
      BY <1>2, <1>a DEF DetachSkip, NextSlot, entries, cache, slots
    <2>2. /\ lpc = "detach" /\ meEntry[lscan] # lentry
          /\ UNCHANGED <<live, lentry, meEntry, staleOpen>>
          /\ IF lscan = MaxFd THEN lpc' = "unlink"
                              ELSE lpc' = "detach" /\ lscan' = lscan + 1
      BY <1>2 DEF DetachSkip, NextSlot, entries, slots, PointsToVictim
    <2>3. ASSUME NEW fd \in Fds, fd # lscan, lscan <= fd
          PROVE  lpc' = "detach" /\ lscan' <= fd
      BY <2>2, <2>3, <1>a, SlotAbove
    <2>4. DangleInv'
      BY <2>2, <2>3, <1>a
    <2> QED
      BY <2>1, <2>4
  <1>3. CASE DetachLock
    <2>1. EntryInv'
      BY <1>3, <1>a DEF DetachLock, entries, cache, PointsToVictim
    <2>2. DangleInv'
      BY <1>3, <1>a DEF DetachLock, entries
    <2> QED
      BY <2>1, <2>2
  <1>4. CASE DetachEntry
    <2>1. EntryInv'
      BY <1>4, <1>a DEF DetachEntry, entries, cache
    <2>2. lpc = "detach_entry" /\ meEntry' = [meEntry EXCEPT ![lscan] = None]
          /\ UNCHANGED <<live, lentry>>
      BY <1>4 DEF DetachEntry, entries
    <2>3. \A fd \in Fds : fd # lscan /\ fd \in staleOpen => fd \in staleOpen'
      BY <1>4 DEF DetachEntry
    <2>4. IF lscan = MaxFd THEN lpc' = "unlink"
                           ELSE lpc' = "detach" /\ lscan' = lscan + 1
      BY <1>4 DEF DetachEntry
    <2>5. ASSUME NEW fd \in Fds, fd # lscan, lscan <= fd
          PROVE  lpc' = "detach" /\ lscan' <= fd
      BY <2>4, <2>5, <1>a, SlotAbove
    <2>6. DangleInv'
      BY <2>2, <2>3, <2>5, <1>a
    <2> QED
      BY <2>1, <2>6
  <1>5. CASE Unlink
    BY <1>5, <1>a DEF Unlink, entries, cache, slots
  <1>6. CASE FreeEntry
    <2>1. EntryInv'
      BY <1>6, <1>a DEF FreeEntry, cache
    <2>2. DangleInv'
      BY <1>6, <1>a DEF FreeEntry, slots
    <2> QED
      BY <2>1, <2>2
  <1>7. ASSUME NEW f \in Files, InsertBegin(f) PROVE Goal
    BY <1>7, <1>a DEF InsertBegin, entries, slots
  <1>8. ASSUME NEW e \in Entries, InsertEntry(e) PROVE Goal
    <2>1. EntryInv'
      BY <1>8, <1>a DEF InsertEntry
    <2>2. DangleInv'
      BY <1>8, <1>a DEF InsertEntry, slots
    <2> QED
      BY <2>1, <2>2
  <1>9. ASSUME NEW i \in Inodes, CopyCreate(i) PROVE Goal
    BY <1>9, <1>a DEF CopyCreate, entries, cache, slots
  <1>10. CASE CopyBlock
    BY <1>10, <1>a DEF CopyBlock, entries, cache, slots, ahead
  <1>11. CASE CopyDone \/ CopyCut
    BY <1>11, <1>a DEF CopyDone, CopyCut, entries, cache, slots
  <1>12. CASE Attach
    <2>1. EntryInv'
      BY <1>12, <1>a DEF Attach, entries, cache
    <2>2. \A fd \in Fds :
            \/ meEntry'[fd] = lentry
            \/ /\ meEntry'[fd] = meEntry[fd]
               /\ fd \in staleOpen => fd \in staleOpen'
      BY <1>12, <1>a DEF Attach
    <2>3. lpc = "attach" /\ lpc' \in {"attach", "idle"} /\ UNCHANGED live
      BY <1>12 DEF Attach, entries
    <2>4. DangleInv'
      BY <1>a, <2>2, <2>3
    <2> QED
      BY <2>1, <2>4
  <1>13. ASSUME NEW why, Stop(why) PROVE Goal
    BY <1>13, <1>a DEF Stop, slots, entries, cache, ahead, history
  <1> HIDE <1>b DEF Goal, TypeOK
  <1> QED
    BY <1>1, <1>2, <1>3, <1>4, <1>5, <1>6, <1>7, <1>8, <1>9, <1>10, <1>11,
       <1>12, <1>13, LookaheadActions, Zenon

\* The invariant is inductive.
LEMMA CoreStep == CoreInv /\ [Next]_vars => CoreInv'
  <1>1. ASSUME CoreInv, NEW t \in Threads, ThreadStep(t) PROVE CoreInv'
    <2>1. TypeOK'
      BY <1>1, TypeOpen, TypeBegin, TypeAccess, TypeFlush DEF ThreadStep
    <2>2. CallInv'
      BY <1>1, OwnCallOk, OtherCallOk DEF CallInv
    <2> QED
      BY <1>1, <2>1, <2>2, UseThread, LockThread, EntryThread, DangleThread
         DEF CoreInv
  <1>2. ASSUME CoreInv, LookaheadStep PROVE CoreInv'
    <2>1. TypeOK'
      BY <1>2, TypeEvict, TypeInsert DEF LookaheadStep
    <2> QED
      BY <1>2, <2>1, CallLookahead, LockLookahead, EntryLookahead DEF CoreInv
  <1>3. ASSUME CoreInv, UNCHANGED vars PROVE CoreInv'
    <2> USE <1>3 DEF CoreInv, vars, files, slots, copies, entries, cache, app,
                     ahead, history
    <2>1. TypeOK'
      BY DEF TypeOK
    <2>2. CallInv' /\ UseInv'
      BY DEF CallInv, CallOk, UseInv, Overlap, Slot, Entry
    <2>3. LockInv'
      BY DEF LockInv, HoldsSlot, HoldsEntry, Slot, Entry
    <2>4. EntryInv' /\ DangleInv'
      BY DEF EntryInv, DangleInv, HasVictim
    <2> QED
      BY <2>1, <2>2, <2>3, <2>4
  <1> QED
    BY <1>1, <1>2, <1>3 DEF Next, Ended

\* CoreInv holds in every reachable state.
THEOREM CoreInvariant == Spec => []CoreInv
  BY CoreInit, CoreStep, PTL DEF Spec

\* Type correctness: every variable holds a value of its type; in particular
\* no scan leaves the table, and no descriptor or entry is used that is not one.
THEOREM TypeCorrect == Spec => []TypeOK
  <1>1. CoreInv => TypeOK
    BY DEF CoreInv
  <1> QED
    BY <1>1, CoreInvariant, PTL

\* The mutexes are taken in one order by every process: c_mutex, a mapping
\* mutex, an entry's mutex.
THEOREM MutexOrder == Spec => []LockOrder
  <1>1. ASSUME CoreInv, NEW p \in Procs, NEW r \in HeldRanks(p)
        PROVE  r < NextRank(p)
    <2>1. CASE p = Lookahead
      <3>1. /\ r = 1 => lpc \in Evicting
            /\ r = 2 => lpc = "detach_entry"
            /\ r = 3 => lpc \in {"create", "copy"}
        BY <1>1, <2>1 DEF HeldRanks, CoreInv, LockInv
      <3> QED
        BY <3>1, <2>1, <1>1 DEF NextRank, HeldRanks, Evicting, CoreInv, TypeOK
    <2>2. CASE p # Lookahead
      <3>1. p \in Threads /\ p # None
        BY <2>2, AclAssumption DEF Procs
      <3>2. /\ r # 1
            /\ r = 2 => pc[p] \in {"cached", "flush", "pop"}
            /\ r = 3 => pc[p] = "pop"
        BY <1>1, <2>2, <3>1
           DEF HeldRanks, CoreInv, TypeOK, LockInv, HoldsSlot, HoldsEntry
      <3> QED
        BY <3>2, <2>2, <1>1 DEF NextRank, HeldRanks
    <2> QED
      BY <2>1, <2>2
  <1>2. CoreInv => LockOrder
    BY <1>1 DEF LockOrder
  <1> QED
    BY <1>2, CoreInvariant, PTL

\* removed_cache leaves no pointer to the entry that remove_cache frees, except
\* where acl_open stored an outdated result of its lookup.
THEOREM DanglingOnlyAfterStaleOpen == Spec => []OnlyStaleOpenDangles
  <1>1. CoreInv => OnlyStaleOpenDangles
    BY DEF CoreInv, DangleInv, OnlyStaleOpenDangles
  <1> QED
    BY <1>1, CoreInvariant, PTL
=============================================================================
