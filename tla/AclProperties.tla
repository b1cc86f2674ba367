--------------------------- MODULE AclProperties ----------------------------
(***************************************************************************)
(* What is claimed of the module Acl.  The MC modules check these on small *)
(* instances; AclProofs and AclCacheProofs prove them for every instance.  *)
(***************************************************************************)
EXTENDS Acl, FiniteSetsExt

-----------------------------------------------------------------------------
(* Types.                                                                  *)

\* A block, as a read finds it: a value, None where the copy is not made yet, or
\* Absent where its making was given up.
BlockData == Values \cup {None, Absent}

\* A file's contents.
Contents == [BlockSet -> BlockData]

\* The points of a call.
Points == {"idle", "retrieve", "map", "lock", "request", "direct", "cached",
           "flush", "pop", "close"}

\* Every variable holds a value of its type: descriptors, entries and paths
\* are what the structures of memory.h and cache.h declare them to be.
TypeOK ==
  /\ status \in {"running", "exited", "use_after_free", "empty_heap"}
  /\ src \in [Files -> Contents]
  /\ link \in [CachePaths -> Inodes \cup {None}]
  /\ data \in [Inodes -> Contents]
  /\ fdFile \in [Fds -> Files \cup {None}]
  /\ mePath \in [Fds -> Files \cup {None}]
  /\ meEntry \in [Fds -> Entries \cup {None}]
  /\ meDesc \in [Fds -> Inodes \cup {None}]
  /\ mapMutex \in [Fds -> Procs \cup {None}]
  /\ live \subseteq Entries
  /\ ceSource \in [Entries -> Files \cup {None}]
  /\ ceSize \in [Entries -> Nat]
  /\ ceExtents \in [Entries -> SUBSET BlockSet]
  /\ ceMutex \in [Entries -> Procs \cup {None}]
  /\ lookup \in [Files -> Entries \cup {None}]
  /\ priority \subseteq Entries
  /\ cSize \in Int
  /\ cMutex \in {Lookahead, None}
  /\ requested \subseteq Files
  /\ pc \in [Threads -> Points]
  /\ call \in [Threads -> Calls]
  /\ buffer \in [Threads -> BlockData]
  /\ lpc \in {"idle", "evict", "detach", "detach_entry", "unlink", "free",
              "create", "copy", "attach"}
  /\ lpath \in Files \cup {None}
  /\ lentry \in Entries \cup {None}
  /\ lscan \in Fds
  /\ version \in Nat
  /\ latest \in [Files -> [BlockSet -> Nat]]
  /\ staleOpen \subseteq Fds

-----------------------------------------------------------------------------
(* Mutexes.                                                                *)

\* The rank of a mutex: c_mutex 1, m_mapping_mutex 2, ce_mutex 3.  A process
\* whose next step takes no mutex is beyond them all, and one that must hold
\* none (between calls, in a call on the source file) is before them.
NextRank(p) ==
  IF p = Lookahead
  THEN CASE lpc = "idle" -> 1
         [] lpc \in {"detach", "attach"} -> 2
         [] lpc \in {"detach_entry", "unlink"} -> 3
         [] OTHER -> 4
  ELSE CASE pc[p] \in {"idle", "retrieve", "request", "direct", "close"} -> 1
         [] pc[p] \in {"map", "lock"} -> 2
         [] pc[p] \in {"cached", "flush"} -> 3
         [] OTHER -> 4

\* The ranks of the mutexes a process holds.
HeldRanks(p) ==
  {r \in 1 .. 3 : \/ r = 1 /\ cMutex = p
                  \/ r = 2 /\ \E fd \in Fds : mapMutex[fd] = p
                  \/ r = 3 /\ \E e \in Entries : ceMutex[e] = p}

\* The mutexes are taken in the order c_mutex, m_mapping_mutex, ce_mutex, and
\* one of a kind at a time: no cycle of processes waiting for each other can
\* form, in spite of the callbacks inserted_cache and removed_cache.
LockOrder == \A p \in Procs : \A r \in HeldRanks(p) : r < NextRank(p)

-----------------------------------------------------------------------------
(* The table of descriptors and the cache.                                 *)

\* While the lookahead thread is not inserting or evicting, a slot points to
\* the entry that the cache holds for its path, or to none if it holds none;
\* only a slot that acl_open filled with a lookup result which was no longer
\* current may differ.
MappingTracksCache ==
  lpc = "idle" /\ status = "running" =>
    \A fd \in Fds : mePath[fd] # None /\ fd \notin staleOpen
                      => meEntry[fd] = lookup[mePath[fd]]

\* A slot points to a freed entry only if acl_open put the pointer there after
\* the entry had left the cache: removed_cache finds every other one.
OnlyStaleOpenDangles ==
  \A fd \in Fds : meEntry[fd] # None /\ meEntry[fd] \notin live
                    => fd \in staleOpen

\* A slot whose entry is in the cache lacks a descriptor only while the
\* lookahead thread still has that entry to copy and to attach, or while
\* acl_close is giving the slot up.
DescriptorRepaired ==
  \A fd \in Fds :
    /\ meEntry[fd] # None /\ meDesc[fd] = None
    /\ mePath[fd] # None /\ meEntry[fd] = lookup[mePath[fd]]
    /\ \A t \in Threads : call[t].op = "close" => Slot(t) # fd
    => /\ lentry = meEntry[fd]
       /\ \/ lpc \in {"create", "copy"}
          \/ lpc = "attach" /\ lscan <= fd

\* No block is to be copied any more.
Complete(i) == \A b \in BlockSet : data[i][b] # None

\* No call can reach a copy that is still being made: while ce_mutex of a live
\* entry is not held by the copying thread, the file that a slot of the entry
\* has open is what copy_data has left there: every block of the source, or those
\* before a read error (CopyCut).
CopyHidden ==
  \A fd \in Fds :
    /\ meEntry[fd] \in live /\ meDesc[fd] # None
    /\ ceMutex[meEntry[fd]] # Lookahead
    => Complete(meDesc[fd])

\* A slot has open the copy of the file it was opened for: the values in it
\* were written for that file and for no other.  (A slot that acl_open filled
\* from a freed entry may get the copy of the file that entry is now used for.)
CopyOfOwnFile ==
  \A fd \in Fds :
    meDesc[fd] # None /\ fd \notin staleOpen =>
      \A b \in BlockSet :
        data[meDesc[fd]][b] \in ({mePath[fd]} \X Nat) \cup {None, Absent}

\* The lookup table, the priority queue and the size agree: both structures
\* hold the same entries, each under the path it was made for, and c_size is
\* the sum of their sizes, within the capacity.
CacheConsistent ==
  /\ priority = {e \in live : \E f \in Files : lookup[f] = e}
  /\ \A f \in Files : lookup[f] # None => ceSource[lookup[f]] = f
  /\ cSize = MapThenSumSet(LAMBDA e : ceSize[e], priority)
  /\ cSize <= Capacity

\* The loop of insert_cache, "remove entries until size is small enough to insert
\* entry", finds the queue empty for a file only that is larger than the cache.
OnlyOversizeEmpties ==
  status = "empty_heap" => Size[lpath] > Capacity /\ cSize = 0

-----------------------------------------------------------------------------
(* Contents.                                                               *)

\* The inode of a file's cached copy.
CopyOf(f) == IF lookup[f] = None THEN None ELSE link[CachePath[f]]

\* The last value written to a block is in the source, or it is in the cached
\* copy with the block listed for write-back: no acknowledged write is lost.
LatestSurvives ==
  status = "running" =>
    \A f \in Files, b \in BlockSet :
      \/ src[f][b] = <<f, latest[f][b]>>
      \/ /\ CopyOf(f) # None
         /\ data[CopyOf(f)][b] = <<f, latest[f][b]>>
         /\ b \in ceExtents[lookup[f]]

\* The thread's call is a read that returns, and its slot was not filled from
\* a freed entry.
ReadReturns(t) ==
  call[t].op = "read" /\ call'[t].op = "none" /\ Slot(t) \notin staleOpen

\* A read finds no data, as the copy its slot has open was cut short by a read
\* error (CopyCut).  Nothing is lost: the source has the last value.
FindsCopyCut(t) ==
  LET fd == Slot(t)
      b  == call[t].block
  IN  /\ meEntry[fd] # None /\ data[meDesc[fd]][b] = Absent
      /\ buffer'[t] = Absent
      /\ src[fdFile[fd]][b] = <<fdFile[fd], latest[fdFile[fd]][b]>>

\* A read returns the last value written to the block, through whichever of
\* the two files it goes, unless acl_open filled its slot from a freed entry, or
\* the copy was cut short by a read error and the block is behind its end.
ReadsLatest ==
  [][\A t \in Threads :
       ReadReturns(t) =>
         LET f == fdFile[Slot(t)]
             b == call[t].block
         IN  buffer'[t] = <<f, latest[f][b]>> \/ FindsCopyCut(t)]_vars

\* A write that missed reaches the source after the file was copied, and the copy
\* lacks it (acl_write gives the slot's mutex back first).  A read returns the last
\* value all the same, or an older one of that file, or nothing where the copy was
\* cut short, while the source has the last: what a read does not show was not lost.
ReadsLatestOrSourceIsNewer ==
  [][\A t \in Threads :
       ReadReturns(t) =>
         LET f == fdFile[Slot(t)]
             b == call[t].block
         IN  \/ buffer'[t] = <<f, latest[f][b]>>
             \/ /\ buffer'[t] \in {f} \X (0 .. latest[f][b])
                /\ src[f][b] = <<f, latest[f][b]>>
             \/ FindsCopyCut(t)]_vars

\* The source never goes back to an older value of a block: a flush does not
\* overwrite what was written to the source after the copy was made.
SourceNeverRegresses ==
  [][\A f \in Files, b \in BlockSet : src[f][b][2] <= src'[f][b][2]]_vars

\* When acl_sync or acl_close of a descriptor is done, the source holds
\* whatever was last written to the file.
FlushIsDurable ==
  [][\A t \in Threads :
       (pc[t] = "pop" /\ pc'[t] # "pop") =>
         \A b \in BlockSet :
           src[fdFile[Slot(t)]][b][2] = latest[fdFile[Slot(t)]][b]]_vars
-----------------------------------------------------------------------------
(* Progress.                                                               *)

\* Every call returns, unless the process ends: no thread waits forever for a
\* mutex, whatever the lookahead thread inserts and evicts.  A mutex is not fair,
\* so the lookahead thread must not insert files without end; it does not while
\* a call waits, as every insertion takes a path off a queue.
CallsReturn ==
  <>[][\A f \in Files : ~InsertBegin(f)]_vars =>
    \A t \in Threads : pc[t] # "idle" ~> (pc[t] = "idle" \/ status # "running")

\* A path that was put on a queue is in the cache some time later, even if another
\* file has to be evicted from every slot first, once the application does not
\* keep taking the slots' mutexes, unless the process ends.
RequestedIsCached ==
  <>[](\A t \in Threads : pc[t] = "idle") =>
    \A f \in Files :
      f \in requested ~> (lookup[f] # None \/ status # "running")

-----------------------------------------------------------------------------
(* What comments of the source say, and the code does not do.              *)

\* memory.c, removed_cache: "if file in cache has been modified write changes
\* to disk".  When the callback is done no change is left to be written.
EvictedIsClean == lpc = "unlink" => ceExtents[lentry] = {}
=============================================================================
