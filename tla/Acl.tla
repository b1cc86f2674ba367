-------------------------------- MODULE Acl ---------------------------------
(***************************************************************************)
(* The intercepted file calls (acl.c), the table of open descriptors       *)
(* (memory.c) and the file cache (cache.c), run by application threads and *)
(* by the one lookahead thread that fills and evicts the cache.            *)
(*                                                                         *)
(* A step is what a thread does between two points at which another thread *)
(* can see or change what it works on: the taking of a mutex, a system     *)
(* call on a file another thread uses, one slot of a scan of the table.    *)
(*                                                                         *)
(* The process stops at exit(EXIT_FAILURE) and at undefined behaviour:     *)
(* `status` says which, and nothing is claimed of what comes after.        *)
(***************************************************************************)
EXTENDS Blocks, FiniteSets

CONSTANTS
  Threads,     \* application threads
  Lookahead,   \* the thread started by acl_init, which runs handle_lookahead
  Files,       \* regular files below SOURCE_PATH
  MaxFd,       \* the table has the slots 0 .. MaxFd (1024 slots in the code)
  Entries,     \* the addresses malloc returns for a cache_entry_t
  Inodes,      \* the inodes the file system below CACHE_PATH has
  BlockSet,    \* the blocks of a file
  Size,        \* st_size of each file, in the unit of Capacity
  Capacity,    \* CACHE_SIZE
  CachePath,   \* get_cache_path: the name of a file's copy below CACHE_PATH
  Window,      \* the files a strategy enqueues when a file missed the cache
  Ops,         \* the calls the application makes: a subset of AllOps
  MaxWrites,   \* bound: how many writes the application makes
  None,        \* NULL, -1, "no such file"
  Absent       \* no data: behind the end of a copy that was cut short

AllOps == {"open", "open_foreign", "read", "write", "sync", "close", "advise"}
Fds == 0 .. MaxFd
CachePaths == {CachePath[f] : f \in Files}
Procs == Threads \cup {Lookahead}

\* The contents of a block: which file it was written for, and which write.
Values == Files \X Nat

ASSUME AclAssumption ==
  /\ MaxFd \in Nat /\ Capacity \in Nat /\ MaxWrites \in Nat
  /\ BlockSet \subseteq Nat
  /\ Size \in [Files -> Nat]
  /\ Window \in [Files -> SUBSET Files]
  /\ DOMAIN CachePath = Files
  /\ Ops \subseteq AllOps
  /\ Lookahead \notin Threads
  /\ None \notin Procs \cup Files \cup Entries \cup Inodes
  /\ None \notin BlockSet \cup Values
  /\ Absent # None /\ Absent \notin Values

VARIABLES
  status,     \* "running", or why the process stopped
  src,        \* contents of the files below SOURCE_PATH
  link,       \* which inode a path below CACHE_PATH names, or None
  data,       \* contents of an inode below CACHE_PATH
  fdFile,     \* the file a descriptor of the application is open on, or None
  mePath,     \* me_path of m_mapping_entries[fd]; None if the slot is NULL
  meEntry,    \* me_entry
  meDesc,     \* the inode me_descriptor is open on; None for -1
  mapMutex,   \* owner of m_mapping_mutex[fd]
  live,       \* the entries that are allocated
  ceSource,   \* ce_source of an entry
  ceSize,     \* ce_size
  ceExtents,  \* the blocks ce_extents covers
  ceMutex,    \* owner of ce_mutex
  lookup,     \* c_lookup: the entry of a path, or None
  priority,   \* c_priority: the entries it holds
  cSize,      \* c_size
  cMutex,     \* owner of c_mutex
  requested,  \* the paths that were put on a queue of the lookahead thread
  pc, call,   \* where a thread is, and the locals of the call it makes
  buffer,     \* what the last read of a thread returned
  lpc,        \* where the lookahead thread is
  lpath,      \* the path insert_cache works on
  lentry,     \* the entry it works on: the victim, then the new entry
  lscan,      \* the slot inserted_cache or removed_cache is at
  version,    \* history: the number of writes made so far
  latest,     \* history: the last write made to a block of a file
  staleOpen   \* history: slots filled with a lookup result that was outdated

files   == <<src, link>>
slots   == <<mePath, meEntry, meDesc, mapMutex>>
copies  == <<data, ceExtents, ceMutex>>
entries == <<live, ceSource, ceSize>>
cache   == <<lookup, priority, cSize, cMutex>>
app     == <<pc, call, buffer>>
ahead   == <<lpc, lpath, lentry, lscan>>
history == <<version, latest, staleOpen>>
vars == <<status, files, fdFile, slots, copies, entries, cache, requested, app,
          ahead, history>>

Blank == [b \in BlockSet |-> None]
Call(op, fd, b, e) == [op |-> op, fd |-> fd, block |-> b, entry |-> e]
NoCall == Call("none", 0, None, None)
Calls == [op : AllOps \cup {"none"}, fd : Fds,
          block : BlockSet \cup {None}, entry : Entries \cup {None}]

Init ==
  /\ status = "running"
  /\ src = [f \in Files |-> [b \in BlockSet |-> <<f, 0>>]]
  /\ link = [p \in CachePaths |-> None]
  /\ data = [i \in Inodes |-> Blank]
  /\ fdFile = [fd \in Fds |-> None]
  /\ mePath = [fd \in Fds |-> None]
  /\ meEntry = [fd \in Fds |-> None]
  /\ meDesc = [fd \in Fds |-> None]
  /\ mapMutex = [fd \in Fds |-> None]
  /\ live = {}
  /\ ceSource = [e \in Entries |-> None]
  /\ ceSize = [e \in Entries |-> 0]
  /\ ceExtents = [e \in Entries |-> {}]
  /\ ceMutex = [e \in Entries |-> None]
  /\ lookup = [f \in Files |-> None]
  /\ priority = {}
  /\ cSize = 0
  /\ cMutex = None
  /\ requested = {}
  /\ pc = [t \in Threads |-> "idle"]
  /\ call = [t \in Threads |-> NoCall]
  /\ buffer = [t \in Threads |-> None]
  /\ lpc = "idle" /\ lpath = None /\ lentry = None /\ lscan = 0
  /\ version = 0
  /\ latest = [f \in Files |-> [b \in BlockSet |-> 0]]
  /\ staleOpen = {}

-----------------------------------------------------------------------------
(* Helpers of the application threads.                                     *)

Goto(t, l) == pc' = [pc EXCEPT ![t] = l]

\* The call returns to the application.
Return(t) == Goto(t, "idle") /\ call' = [call EXCEPT ![t] = NoCall]

\* exit(EXIT_FAILURE), or undefined behaviour: the process ends here.
Stop(why) ==
  /\ status' = why
  /\ UNCHANGED <<files, fdFile, slots, copies, entries, cache, requested, app,
                 ahead, history>>

\* Mutant: the slot's mutex is not given back.
ForgetSlot(fd) == UNCHANGED mapMutex

\* pthread_mutex_unlock of m_mapping_mutex[fd].
UnlockSlot(fd) == mapMutex' = [mapMutex EXCEPT ![fd] = None]

\* The slot a thread's call is about, and the entry its mapping points to.
Slot(t) == call[t].fd
Entry(t) == meEntry[Slot(t)]

(***************************************************************************)
(* A thread uses a descriptor once open has returned it, and closes one    *)
(* only when no other call is using it: what POSIX asks of a program.      *)
(***************************************************************************)
MayUse(t, op, fd) ==
  \A u \in Threads \ {t} :
    call[u].op # "none" /\ call[u].fd = fd =>
      op # "close" /\ call[u].op \in {"read", "write", "sync"}

-----------------------------------------------------------------------------
(* acl_open.                                                               *)

\* The kernel opens the source file and returns a descriptor that is free.
OpenSource(t, f) ==
  /\ "open" \in Ops
  /\ pc[t] = "idle"
  /\ \E fd \in Fds :
       /\ fdFile[fd] = None
       /\ fdFile' = [fdFile EXCEPT ![fd] = f]
       /\ call' = [call EXCEPT ![t] = Call("open", fd, None, None)]
  /\ Goto(t, "retrieve")
  /\ buffer' = [buffer EXCEPT ![t] = None]
  /\ UNCHANGED <<status, src, slots, copies, requested, history>>

\* retrieve_cache: the whole function runs under c_mutex.
RetrieveCache(t) ==
  /\ pc[t] = "retrieve"
  /\ cMutex = None
  /\ call' = [call EXCEPT ![t] =
               Call("open", Slot(t), None, lookup[fdFile[Slot(t)]])]
  /\ Goto(t, "map")
  /\ UNCHANGED <<status, src, fdFile, slots, copies, requested, buffer,
                 history>>

(***************************************************************************)
(* Fill the slot of the new descriptor with what retrieve_cache returned   *)
(* and, if that is an entry, open the entry's file.  The open fails, and   *)
(* leaves me_descriptor at -1, while the cache file does not exist.        *)
(***************************************************************************)
OpenMap(t) ==
  LET fd == Slot(t)
      e  == call[t].entry
  IN
  /\ pc[t] = "map"
  /\ mapMutex[fd] = None
  /\ e # None => e \in live
  /\ mePath' = [mePath EXCEPT ![fd] = fdFile[fd]]
  /\ meEntry' = [meEntry EXCEPT ![fd] = e]
  /\ meDesc' = [meDesc EXCEPT ![fd] =
                  IF e = None THEN None ELSE link[CachePath[ceSource[e]]]]
  /\ staleOpen' = IF e = lookup[fdFile[fd]] THEN staleOpen \ {fd}
                                            ELSE staleOpen \cup {fd}
  /\ Return(t)
  /\ UNCHANGED <<status, src, fdFile, mapMutex, copies, requested, buffer,
                 version, latest>>

\* The entry was freed after retrieve_cache returned it, and its memory is not
\* in use again: entry->ce_cache is read from freed memory.
OpenMapFreed(t) ==
  /\ pc[t] = "map"
  /\ mapMutex[Slot(t)] = None
  /\ call[t].entry # None /\ call[t].entry \notin live
  /\ Stop("use_after_free")

(***************************************************************************)
(* A descriptor the application gets from a call the library does not      *)
(* intercept (openat, creat, dup): its slot stays as the last close of     *)
(* that descriptor number left it.                                         *)
(***************************************************************************)
OpenForeign(t, f) ==
  /\ "open_foreign" \in Ops
  /\ pc[t] = "idle"
  /\ \E fd \in Fds :
       /\ fdFile[fd] = None
       /\ fdFile' = [fdFile EXCEPT ![fd] = f]
  /\ UNCHANGED <<status, src, slots, copies, requested, app, history>>

-----------------------------------------------------------------------------
(* acl_read, acl_write, acl_sync, acl_close: the common beginning.         *)

Begin(t, op, fd, b) ==
  /\ op \in Ops
  /\ pc[t] = "idle"
  /\ fdFile[fd] # None
  /\ MayUse(t, op, fd)
  /\ op = "write" => version < MaxWrites
  /\ call' = [call EXCEPT ![t] = Call(op, fd, b, None)]
  /\ Goto(t, "lock")
  /\ buffer' = [buffer EXCEPT ![t] = None]
  /\ UNCHANGED <<status, src, fdFile, slots, copies, requested, history>>

(***************************************************************************)
(* The slot's mutex is taken.  If the slot has an entry the mutex is kept, *)
(* and acl_close closes me_descriptor at once.  If it has none the mutex   *)
(* is given back: a read or a write goes to the source file, directly if   *)
(* the slot is NULL; acl_sync returns; acl_close leaves the slot as it is. *)
(***************************************************************************)
LockSlot(t) ==
  LET fd == Slot(t)
      op == call[t].op
  IN
  /\ pc[t] = "lock" /\ mapMutex[fd] = None
  /\ \/ /\ Entry(t) # None
        /\ mapMutex' = [mapMutex EXCEPT ![fd] = t]
        /\ meDesc' = [meDesc EXCEPT ![fd] = IF op = "close" THEN None ELSE @]
        /\ Goto(t, IF op \in {"read", "write"} THEN "cached" ELSE "flush")
        /\ UNCHANGED call
     \/ /\ Entry(t) = None
        /\ \/ /\ op \in {"read", "write"}
              /\ Goto(t, IF mePath[fd] = None THEN "direct" ELSE "request")
              /\ UNCHANGED call
           \/ op = "sync" /\ Return(t)
           \/ op = "close" /\ Goto(t, "close") /\ UNCHANGED call
        /\ UNCHANGED <<mapMutex, meDesc>>
  /\ UNCHANGED <<status, src, fdFile, mePath, meEntry, copies, requested,
                 buffer, history>>

\* The file is not in the cache: its path goes to m_queue_prefetch.
Request(t) ==
  /\ pc[t] = "request"
  /\ requested' = requested \cup Window[mePath[Slot(t)]]
  /\ Goto(t, "direct")
  /\ UNCHANGED <<status, src, fdFile, slots, copies, call, buffer, history>>

-----------------------------------------------------------------------------
(* The system call on the source file, made without any mutex.             *)

Written(t, f) ==
  /\ version' = version + 1
  /\ latest' = [latest EXCEPT ![f][call[t].block] = version + 1]

ReadDirect(t) ==
  /\ pc[t] = "direct" /\ call[t].op = "read"
  /\ buffer' = [buffer EXCEPT ![t] = src[fdFile[Slot(t)]][call[t].block]]
  /\ Return(t)
  /\ UNCHANGED <<status, src, fdFile, slots, copies, requested, history>>

WriteDirect(t) ==
  LET f == fdFile[Slot(t)] IN
  /\ pc[t] = "direct" /\ call[t].op = "write"
  /\ src' = [src EXCEPT ![f][call[t].block] = <<f, version + 1>>]
  /\ Written(t, f)
  /\ Return(t)
  /\ UNCHANGED <<status, fdFile, slots, copies, requested, buffer, staleOpen>>

-----------------------------------------------------------------------------
(* The call on the cached copy, made under the slot's mutex and ce_mutex.  *)

\* Locking me_entry->ce_mutex.
EntryMutexFree(t) == Entry(t) \in live /\ ceMutex[Entry(t)] = None

\* A mapping may point to an entry that was freed.
DanglingMapping(t) ==
  /\ pc[t] \in {"cached", "flush"}
  /\ Entry(t) \notin live
  /\ Stop("use_after_free")

\* lseek on me_descriptor fails if it is -1.
NoDescriptor(t) ==
  /\ pc[t] = "cached"
  /\ EntryMutexFree(t)
  /\ meDesc[Slot(t)] = None
  /\ Stop("exited")

ReadCached(t) ==
  LET fd == Slot(t) IN
  /\ pc[t] = "cached" /\ call[t].op = "read"
  /\ EntryMutexFree(t)
  /\ meDesc[fd] # None
  /\ buffer' = [buffer EXCEPT ![t] = data[meDesc[fd]][call[t].block]]
  /\ UnlockSlot(fd)
  /\ Return(t)
  /\ UNCHANGED <<status, src, fdFile, mePath, meEntry, meDesc, copies,
                 requested, history>>

\* push_extent of the bytes that were written.
MarkDirty(e, b) == ceExtents' = [ceExtents EXCEPT ![e] = @ \cup {b}]

WriteCached(t) ==
  LET fd == Slot(t) IN
  /\ pc[t] = "cached" /\ call[t].op = "write"
  /\ EntryMutexFree(t)
  /\ meDesc[fd] # None
  /\ data' = [data EXCEPT ![meDesc[fd]][call[t].block] =
                           <<fdFile[fd], version + 1>>]
  /\ MarkDirty(Entry(t), call[t].block)
  /\ Written(t, fdFile[fd])
  /\ UnlockSlot(fd)
  /\ Return(t)
  /\ UNCHANGED <<status, src, fdFile, mePath, meEntry, meDesc, ceMutex,
                 requested, buffer, staleOpen>>

-----------------------------------------------------------------------------
(* The write-back of acl_sync and acl_close.                               *)

FlushLock(t) ==
  /\ pc[t] = "flush"
  /\ EntryMutexFree(t)
  /\ ceMutex' = [ceMutex EXCEPT ![Entry(t)] = t]
  /\ Goto(t, "pop")
  /\ UNCHANGED <<status, src, fdFile, slots, data, ceExtents, requested, call,
                 buffer, history>>

\* sys_read finds something: not behind the end of a copy that was cut short, but
\* before a later write to that copy it finds a hole (Absent).
HasData(i, b) == \E c \in BlockSet : b <= c /\ data[i][c] # Absent

\* pop_extent, then copy_file_interval from the cache file to the source.
FlushExtent(t) ==
  LET e   == Entry(t)
      run == LowestRun(ceExtents[e])
      ino == link[CachePath[ceSource[e]]]
  IN
  /\ pc[t] = "pop"
  /\ ceExtents[e] # {}
  /\ ino # None
  /\ ceExtents' = [ceExtents EXCEPT ![e] = @ \ run]
  /\ src' = [src EXCEPT ![ceSource[e]] =
               [b \in BlockSet |->
                  IF b \in CopiedByInterval(run) /\ HasData(ino, b)
                  THEN data[ino][b] ELSE @[b]]]
  /\ UNCHANGED <<status, fdFile, slots, data, ceMutex, requested, app,
                 history>>

\* copy_file_interval exits if a system call fails: it cannot open a cache
\* file that was unlinked, and any of its calls may fail for other reasons.
FlushFails(t) ==
  /\ pc[t] = "pop"
  /\ ceExtents[Entry(t)] # {}
  /\ Stop("exited")

\* Mutant: one interval is written back, not every one.
PoppedOnce(e) == Cardinality(ceExtents[e]) < Cardinality(BlockSet)

\* pop_extent returns -1.
NothingToPop(e) == ceExtents[e] = {}

\* The list is empty: acl_sync keeps the slot, acl_close frees it.
FlushDone(t) ==
  LET fd == Slot(t) IN
  /\ pc[t] = "pop"
  /\ NothingToPop(Entry(t))
  /\ ceMutex' = [ceMutex EXCEPT ![Entry(t)] = None]
  /\ UnlockSlot(fd)
  /\ \/ /\ call[t].op = "sync"
        /\ Return(t)
        /\ UNCHANGED <<mePath, meEntry, meDesc, staleOpen>>
     \/ /\ call[t].op = "close"
        /\ mePath' = [mePath EXCEPT ![fd] = None]
        /\ meEntry' = [meEntry EXCEPT ![fd] = None]
        /\ meDesc' = [meDesc EXCEPT ![fd] = None]
        /\ staleOpen' = staleOpen \ {fd}
        /\ Goto(t, "close")
        /\ UNCHANGED call
  /\ UNCHANGED <<status, src, fdFile, data, ceExtents, requested, buffer,
                 version, latest>>

\* sys_close: the kernel may hand the number out again.
CloseSource(t) ==
  /\ pc[t] = "close"
  /\ fdFile' = [fdFile EXCEPT ![Slot(t)] = None]
  /\ Return(t)
  /\ UNCHANGED <<status, src, slots, copies, requested, buffer, history>>

-----------------------------------------------------------------------------
\* acl_advise: the path goes to m_queue_high.
Advise(t, f) ==
  /\ "advise" \in Ops
  /\ pc[t] = "idle"
  /\ requested' = requested \cup {f}
  /\ UNCHANGED <<status, src, fdFile, slots, copies, app, history>>

-----------------------------------------------------------------------------
(* insert_cache, run by the lookahead thread for a path of a queue.        *)

LGoto(l) == lpc' = l

\* A path that is in the cache already is dropped, and no callback is made.

InsertBegin(f) ==
  /\ lpc = "idle"
  /\ f \in requested
  /\ cMutex = None
  /\ lookup[f] = None
  /\ cMutex' = Lookahead
  /\ lpath' = f
  /\ LGoto("evict")
  /\ UNCHANGED <<status, link, slots, copies, entries, lookup, priority, cSize,
                 lentry, lscan, staleOpen>>

Fits == cSize + Size[lpath] <= Capacity

\* Mutant: a victim can still be looked up.
StaysInLookup(v) == UNCHANGED lookup

\* Mutant: c_size is not adapted.
KeepsSpace(v) == UNCHANGED cSize

\* remove_lookup, and the adapted c_size.
LeavesLookup(v) == lookup' = [lookup EXCEPT ![ceSource[v]] = None]
GivesSpaceBack(v) == cSize' = cSize - ceSize[v]

(***************************************************************************)
(* remove_cache, first part.  c_priority hands out an entry of least       *)
(* score, the score being the time of last use in whole seconds; any entry *)
(* may be the one, which leaves out none of the orders time can produce.   *)
(***************************************************************************)
EvictVictim(v) ==
  /\ lpc = "evict" /\ ~Fits
  /\ v \in priority
  /\ priority' = priority \ {v}
  /\ LeavesLookup(v)
  /\ GivesSpaceBack(v)
  /\ lentry' = v /\ lscan' = 0
  /\ LGoto("detach")
  /\ UNCHANGED <<status, link, slots, copies, entries, cMutex, lpath,
                 staleOpen>>

\* The loop removes entries until the file fits; with none left it takes an
\* element of an empty heap.
EvictEmpty ==
  /\ lpc = "evict" /\ ~Fits
  /\ priority = {}
  /\ Stop("empty_heap")

\* Mutant: the scan goes one slot too far.
ScanPastEnd(after) ==
  IF lscan > MaxFd THEN lscan' = 0 /\ LGoto(after)
                   ELSE lscan' = lscan + 1 /\ UNCHANGED lpc

\* The next slot of a scan of the table.
NextSlot(after) ==
  IF lscan = MaxFd THEN lscan' = 0 /\ LGoto(after)
                   ELSE lscan' = lscan + 1 /\ UNCHANGED lpc

PointsToVictim(fd) == meEntry[fd] = lentry

\* removed_cache, a slot that does not point to the victim.
DetachSkip ==
  /\ lpc = "detach"
  /\ mapMutex[lscan] = None
  /\ ~PointsToVictim(lscan)
  /\ NextSlot("unlink")
  /\ UNCHANGED <<status, link, slots, copies, entries, cache, lpath, lentry,
                 staleOpen>>

\* removed_cache, a slot that does: its descriptor is closed ...
DetachLock ==
  /\ lpc = "detach"
  /\ mapMutex[lscan] = None
  /\ PointsToVictim(lscan)
  /\ mapMutex' = [mapMutex EXCEPT ![lscan] = Lookahead]
  /\ meDesc' = [meDesc EXCEPT ![lscan] = None]
  /\ LGoto("detach_entry")
  /\ UNCHANGED <<status, link, meEntry, copies, entries, cache, lpath, lentry,
                 lscan, staleOpen>>

(***************************************************************************)
(* ... and the entry is taken from the slot.  The write-back in between is *)
(* guarded by me_lower and me_upper, which acl_open sets to -1 and nothing *)
(* ever changes: it is never made.                                         *)
(***************************************************************************)
DetachEntry ==
  /\ lpc = "detach_entry"
  /\ ceMutex[lentry] = None
  /\ meEntry' = [meEntry EXCEPT ![lscan] = None]
  /\ UnlockSlot(lscan)
  /\ staleOpen' = IF lookup[mePath[lscan]] = None THEN staleOpen \ {lscan}
                                                  ELSE staleOpen
  /\ IF lscan = MaxFd THEN lscan' = 0 /\ LGoto("unlink")
                      ELSE lscan' = lscan + 1 /\ LGoto("detach")
  /\ UNCHANGED <<status, link, meDesc, copies, entries, cache, lpath, lentry>>

\* remove_cache, second part: unlink under ce_mutex ...
Unlink ==
  /\ lpc = "unlink"
  /\ ceMutex[lentry] = None
  /\ link[CachePath[ceSource[lentry]]] # None
  /\ link' = [link EXCEPT ![CachePath[ceSource[lentry]]] = None]
  /\ LGoto("free")
  /\ UNCHANGED <<status, slots, copies, entries, cache, lpath, lentry, lscan,
                 staleOpen>>

\* ... or exit if that fails: the file is gone, or for any other reason.
UnlinkFails ==
  /\ lpc = "unlink"
  /\ ceMutex[lentry] = None
  /\ Stop("exited")

\* Mutant: an entry begins with the whole file listed.
AllExtents(e) == ceExtents' = [ceExtents EXCEPT ![e] = BlockSet]

\* init_extent and free_extent: what the list still holds is dropped.
NoExtents(e) == ceExtents' = [ceExtents EXCEPT ![e] = {}]

\* ... then free_extent and free.
FreeEntry ==
  /\ lpc = "free"
  /\ ceMutex[lentry] = None
  /\ live' = live \ {lentry}
  /\ ceSource' = [ceSource EXCEPT ![lentry] = None]
  /\ ceSize' = [ceSize EXCEPT ![lentry] = 0]
  /\ NoExtents(lentry)
  /\ lentry' = None
  /\ LGoto("evict")
  /\ UNCHANGED <<status, link, slots, data, ceMutex, cache, lpath, lscan,
                 staleOpen>>

\* A call that came to the entry through a stale mapping has locked it since.
FreeInUse ==
  /\ lpc = "free"
  /\ ceMutex[lentry] # None
  /\ Stop("use_after_free")

-----------------------------------------------------------------------------
(* insert_cache, second part.                                              *)

\* Mutant: the copy is made without ce_mutex.
UnlockedNew(e) == UNCHANGED ceMutex

\* The new entry's mutex is initialised and taken.
LockNew(e) == ceMutex' = [ceMutex EXCEPT ![e] = Lookahead]

\* malloc may return the address of an entry that was freed before.
InsertEntry(e) ==
  /\ lpc = "evict" /\ Fits
  /\ e \notin live
  /\ live' = live \cup {e}
  /\ ceSource' = [ceSource EXCEPT ![e] = lpath]
  /\ ceSize' = [ceSize EXCEPT ![e] = Size[lpath]]
  /\ NoExtents(e)
  /\ LockNew(e)
  /\ lookup' = [lookup EXCEPT ![lpath] = e]
  /\ priority' = priority \cup {e}
  /\ cSize' = cSize + Size[lpath]
  /\ cMutex' = None
  /\ lentry' = e
  /\ LGoto("create")
  /\ UNCHANGED <<status, link, slots, data, lpath, lscan, staleOpen>>

\* copy_file, under ce_mutex: create the cache file, or truncate it ...
CopyCreate(i) ==
  LET p == CachePath[lpath] IN
  /\ lpc = "create"
  /\ IF link[p] # None THEN i = link[p]
     ELSE i \notin {link[q] : q \in CachePaths} \cup {meDesc[fd] : fd \in Fds}
  /\ link' = [link EXCEPT ![p] = i]
  /\ data' = [data EXCEPT ![i] = Blank]
  /\ LGoto("copy")
  /\ UNCHANGED <<status, slots, ceExtents, ceMutex, entries, cache, lpath,
                 lentry, lscan, staleOpen>>

\* The blocks of the new cache file that copy_data has not written yet.
Missing == {b \in BlockSet : data[link[CachePath[lpath]]][b] = None}

\* ... copy the blocks in order, each read from the source as it is now ...
CopyBlock ==
  /\ lpc = "copy"
  /\ Missing # {}
  /\ LET b == First(Missing) IN
     data' = [data EXCEPT ![link[CachePath[lpath]]][b] = src[lpath][b]]
  /\ UNCHANGED <<status, link, slots, ceExtents, ceMutex, entries, cache,
                 ahead, staleOpen>>

\* The stat of a path, or a call of copy_file but for the one below, fails: exit.
InsertFails ==
  /\ lpc \in {"create", "copy"} \/ (lpc = "idle" /\ requested # {})
  /\ Stop("exited")

\* Mutant: ce_mutex is kept for the callback.
KeepNewLocked == UNCHANGED ceMutex

\* ... and give ce_mutex back, before the callback is made.
UnlockNew == ceMutex' = [ceMutex EXCEPT ![lentry] = None]

CopyDone ==
  /\ lpc = "copy"
  /\ Missing = {}
  /\ UnlockNew
  /\ LGoto("attach")
  /\ UNCHANGED <<status, link, slots, data, ceExtents, entries, cache, lpath,
                 lentry, lscan, staleOpen>>

(***************************************************************************)
(* sys_read fails while the source is copied: copy_data ends as it does at *)
(* the end of the file, and the copy is given to the slots without what    *)
(* was not read.                                                           *)
(***************************************************************************)
CopyCut ==
  /\ lpc = "copy"
  /\ Missing # {}
  /\ data' = [data EXCEPT ![link[CachePath[lpath]]] =
                [b \in BlockSet |-> IF b \in Missing THEN Absent ELSE @[b]]]
  /\ UnlockNew
  /\ LGoto("attach")
  /\ UNCHANGED <<status, link, slots, ceExtents, entries, cache, lpath, lentry,
                 lscan, staleOpen>>

(***************************************************************************)
(* inserted_cache: a slot of that path without a descriptor gets the entry *)
(* and a descriptor on the cache file.                                     *)
(***************************************************************************)
\* Mutants: only slots that had the entry; every slot without a descriptor.
HadEntry(fd) == mePath[fd] = lpath /\ meEntry[fd] # None /\ meDesc[fd] = None
HadNoEntry(fd) == mePath[fd] = lpath /\ meEntry[fd] = None
AnyPath(fd) == mePath[fd] # None /\ meDesc[fd] = None

NeedsDescriptor(fd) == mePath[fd] = lpath /\ meDesc[fd] = None

Attach ==
  /\ lpc = "attach"
  /\ mapMutex[lscan] = None
  /\ IF NeedsDescriptor(lscan)
     THEN /\ meEntry' = [meEntry EXCEPT ![lscan] = lentry]
          /\ meDesc' = [meDesc EXCEPT ![lscan] = link[CachePath[lpath]]]
          /\ staleOpen' = staleOpen \ {lscan}
     ELSE UNCHANGED <<meEntry, meDesc, staleOpen>>
  /\ IF lscan = MaxFd
     THEN lscan' = 0 /\ LGoto("idle") /\ lentry' = None /\ lpath' = None
     ELSE lscan' = lscan + 1 /\ UNCHANGED <<lpc, lentry, lpath>>
  /\ UNCHANGED <<status, link, mapMutex, copies, entries, cache>>

-----------------------------------------------------------------------------
OpenStep(t) ==
  \/ \E f \in Files : OpenSource(t, f) \/ OpenForeign(t, f)
  \/ RetrieveCache(t) \/ OpenMap(t) \/ OpenMapFreed(t)

BeginStep(t) ==
  \E fd \in Fds :
    \/ \E op \in {"read", "write"}, b \in BlockSet : Begin(t, op, fd, b)
    \/ \E op \in {"sync", "close"} : Begin(t, op, fd, None)

SlotStep(t) == LockSlot(t) \/ Request(t)

AccessStep(t) ==
  \/ ReadDirect(t) \/ WriteDirect(t)
  \/ DanglingMapping(t) \/ NoDescriptor(t) \/ ReadCached(t) \/ WriteCached(t)

FlushStep(t) ==
  \/ FlushLock(t) \/ FlushExtent(t) \/ FlushFails(t) \/ FlushDone(t)
  \/ CloseSource(t)

AdviseStep(t) == \E f \in Files : Advise(t, f)

\* What no call of an application thread changes.
ThreadStep(t) ==
  /\ \/ OpenStep(t) \/ BeginStep(t) \/ SlotStep(t) \/ AccessStep(t)
     \/ FlushStep(t) \/ AdviseStep(t)
  /\ UNCHANGED <<link, entries, cache, ahead>>

EvictStep ==
  \/ \E v \in Entries : EvictVictim(v)
  \/ EvictEmpty \/ DetachSkip \/ DetachLock \/ DetachEntry
  \/ Unlink \/ UnlinkFails \/ FreeEntry \/ FreeInUse

InsertStep ==
  \/ \E f \in Files : InsertBegin(f)
  \/ \E e \in Entries : InsertEntry(e)
  \/ \E i \in Inodes : CopyCreate(i)
  \/ CopyBlock \/ CopyCut \/ InsertFails \/ CopyDone \/ Attach

\* What insert_cache and the callbacks never change.
LookaheadStep ==
  /\ EvictStep \/ InsertStep
  /\ UNCHANGED <<src, fdFile, mePath, requested, app, version, latest>>

\* The process has ended.
Ended == status # "running" /\ UNCHANGED vars

Next ==
  \/ /\ status = "running"
     /\ \/ \E t \in Threads : ThreadStep(t)
        \/ LookaheadStep
  \/ Ended

Spec == Init /\ [][Next]_vars

(***************************************************************************)
(* A thread that is in a call goes on with it, and handle_lookahead polls  *)
(* its queues without end.  An application need not make any call, and no  *)
(* system call has to fail that may fail.                                  *)
(***************************************************************************)
CallGoesOn(t) ==
  status = "running" /\ pc[t] # "idle" /\ ThreadStep(t) /\ ~FlushFails(t)
LookaheadGoesOn ==
  /\ status = "running"
  /\ LookaheadStep /\ ~(UnlinkFails \/ InsertFails \/ CopyCut)

Fairness ==
  /\ \A t \in Threads : WF_vars(CallGoesOn(t))
  /\ WF_vars(LookaheadGoesOn)

FairSpec == Spec /\ Fairness
=============================================================================
