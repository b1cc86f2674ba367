# Specifications of the adaptable caching layer

The library interposes on `open`, `read`, `write`, `fsync` and `close`.  Files
below `SOURCE_PATH` (a slow network mount) are copied, whole, to `CACHE_PATH`
by a background thread; later calls on their descriptors are served from the
copy, and what was written to the copy is written back on `fsync` and `close`.
This directory holds a TLA+ model of that code, the instances TLC checks, and
proofs checked by TLAPS.  Line numbers below are of files under `src/library`.

## 1. The system

| part | state | operations | used by |
|---|---|---|---|
| intercepted calls, `acl.c` | `global_memory` | `acl_open`, `acl_read`, `acl_write`, `acl_sync`, `acl_close`, `acl_advise`, `acl_init` | application threads, through `intercept.c` |
| table of descriptors, `memory.c` | 1024 slots `m_mapping_entries[fd]`, each NULL or (`me_path`, `me_entry`, `me_descriptor`, flags), and 1024 mutexes | callbacks `inserted_cache`, `removed_cache`; `init_memory` | calls; the cache, as callbacks |
| file cache, `cache.c` | `c_lookup`, `c_priority`, `c_size`, `c_mutex`; per entry `ce_source`, `ce_cache`, `ce_size`, `ce_extents`, `ce_mutex` | `insert_cache`, `retrieve_cache`, `remove_cache` | `acl_open` (retrieve), lookahead thread (insert, which removes) |
| file copies, `utils/file.c` | one static buffer | `copy_file` (into the cache), `copy_file_interval` (back to the source) | `insert_cache`; `acl_sync`, `acl_close` |
| extent list, `structures/extent.c`, `structures/internal/extent.c` | sorted linked list of intervals | push, pop, free | `acl_write`, the flushes |
| bounded queue, `structures/queue.c` | ring buffer, mutex, two semaphores | `enqueue`, `dequeue` | calls enqueue, lookahead thread dequeues |
| lookahead thread, `strategies/*.c` | three queues: high, low, prefetch | `handle_*`: poll the queues, insert or list a directory | started by `acl_init` |
| priority queue, `structures/priority.c`, `structures/heap.c` and their internals | binary heap of (time, entry); hash table from entry to heap index | insert, update, remove the least | `cache.c` |
| lookup table, `structures/lookup.c` and its internal | chained hash table | insert, retrieve, remove | `cache.c`, priority queue |
| paths and directories, `utils/path.c`, `utils/directory.c` | none | full path, cache path, parent, natural order; list of regular files | calls, cache, strategies |

How they interact.  An application thread takes the mutex of its descriptor's
slot, then, if the slot has an entry, the mutex of the entry; it makes the
system call on the cached copy under both.  If the slot has no entry it gives
the mutex back, puts the path on a queue, and makes the call on the source
file.  The lookahead thread takes paths from the queues; `insert_cache` makes
room (`remove_cache`, whose callback scans the table under `c_mutex`), publishes
an entry, copies the file under the entry's mutex, and makes the callback that
scans the table and gives the entry to the slots of that path.

What is hard.  Three kinds of mutexes taken by two kinds of threads and by
callbacks; entries published before they are complete and freed while lookup
results are still in use; scans of the table during opens and closes; two
copies of the same data with a write-back that can stop half way; the list of
changed intervals as the only record of what is not yet written back.
`PROJECT.json` lists the hazards, each at its line.

What makes each part correct:

* calls: a read returns the last value written, a write is not lost, `fsync`
  and `close` make writes durable, every call returns;
* table: a slot points to the entry the cache holds for its path, has a
  descriptor on that file's copy and no other, and points to no freed memory;
* cache: lookup table, priority queue and size agree; no copy is seen before
  its copying has ended; room is made before a file is inserted;
* copies and extents: what is taken off the list is written, and nothing newer
  is overwritten;
* queue: FIFO, bounded, nothing lost but what comes to a full queue;
* priority queue: hands out an entry of least time; every index is right;
* lookahead: what was requested gets cached.

## 2. Modules

| module | what it holds |
|---|---|
| `Blocks` | sets of file blocks: the intervals of an extent list and what `copy_file_interval` copies of one |
| `Acl` | calls, table, cache and copies, with every interleaving of application threads and the lookahead thread |
| `AclProperties` | the type invariant and the properties of `Acl` |
| `MCAcl` | the values of the constants for TLC |
| `AclProofs` | the inductive invariant of `Acl`; types, mutexes and the lifetime of entries, proved |
| `AclCacheProofs` | cache, table and copies of `Acl`: what they agree on at every point, proved |
| `Fifo` | abstract: a bounded FIFO that never blocks |
| `Queue`, `QueueProofs` | `structures/queue.c`: ring, mutex and semaphore; it implements `Fifo`, with proofs |
| `DirtyBytes` | abstract: the set of bytes not yet written back, handed out in maximal runs |
| `CopyBack` | abstract: a flush copies what `CopiedBack` (module `Blocks`) makes of the bytes listed when it begins |
| `WriteBack`, `WriteBackProofs` | the writes to one copy, the list (`Extents`), and the flushes: `copy_file_interval` turn by turn of its loop; implements `CopyBack`; what a flush copies and loses, with proofs |
| `PosixFiles` | abstract: what the kernel promises a program of `open`, `read`, `write`, `lseek`, `fsync`, `close` |
| `Layer`, `MCLayer`, `LayerProofs` | the calls of `acl.c` with offsets, open flags, results and failures, one call a step, against `PosixFiles`, with proofs |
| `Extents`, `ExtentsProofs` | `structures/internal/extent.c`: the list, both loops of push step by step; it implements `DirtyBytes`, with proofs |
| `LeastScore` | abstract: a table of scores that hands out an item of least score |
| `Priority` | `structures/internal/heap.c` and the calls of `priority.c`: the heap, its loops, and the indices kept by the listener; implements `LeastScore` |
| `Dictionary` | abstract: a map |
| `LookupTable` | `structures/internal/lookup.c`: the chained hash table; implements `Dictionary` |
| `PriorityTable`, `MCPriority`, `PriorityProofs` | the composition in `priority.c`: `Priority` with a `LookupTable` that finds the cells of the indices; proofs about all three |
| `Requests` | abstract: only requested files are inserted; this is what `Acl` assumes of the queues and strategies |
| `Lookahead`, `LookaheadProofs` | `strategies/*.c`: the three queues, the polling thread and the four strategies; implements `Requests`, with proofs, and about the names of copies and the order of windows |
| `Paths` | `utils/path.c` and `utils/directory.c`: full path, copy's path, parent, listing, natural order |
| `LookaheadFiles`, `MCLookahead` | `Lookahead` over a directory that `Paths` lists and sorts, and a small one for TLC |

### How Acl corresponds to the code

A step is what a thread does up to the next point where another thread can see
or change what it works on: taking a mutex, a system call on a file that others
use, one slot of a scan.  Critical sections that nobody can look into are one
step (`retrieve_cache` under `c_mutex`; a cached read under both mutexes; the
bookkeeping of `insert_cache` between the last eviction and the release of
`c_mutex`).

| code | actions |
|---|---|
| `acl_open` | `OpenSource` (line 68), `RetrieveCache` (74), `OpenMap` or `OpenMapFreed` (76-98) |
| `acl_read`, `acl_write` | `Begin`, `LockSlot`, then `Request` and `ReadDirect`/`WriteDirect`, or `ReadCached`/`WriteCached` |
| `acl_sync`, `acl_close` | `Begin`, `LockSlot`, `FlushLock`, `FlushExtent` per interval, `FlushDone`, `CloseSource` |
| `acl_advise` | `Advise` |
| `insert_cache` | `InsertBegin`, evictions, `InsertEntry`, `CopyCreate`, `CopyBlock` per block, `CopyDone` or `CopyCut`, `Attach` per slot |
| `copy_data`: a read of the source that fails | `CopyCut`: the loop ends, and the copy is attached as it is (`utils/file.c:86`, `cache.c:122-126`) |
| `remove_cache`, `removed_cache` | `EvictVictim`, `DetachSkip` or `DetachLock` and `DetachEntry` per slot, `Unlink`, `FreeEntry` |
| `inserted_cache` | `Attach` |
| any other failed system call, a use of freed memory, an empty heap | `Stop`, through `NoDescriptor`, `FlushFails`, `UnlinkFails`, `InsertFails`, `OpenMapFreed`, `DanglingMapping`, `FreeInUse`, `EvictEmpty` |

Choices a reader should know:

* The process stops at `exit` and at undefined behaviour; `status` tells which.
  Properties speak of the states before.
* `Entries` are addresses: `malloc` may return the address of an entry that was
  freed, so an outdated pointer may come to mean another file's entry.
* `Inodes` are the files below `CACHE_PATH`; an unlinked one lives on in the
  descriptors that are open on it.
* A block holds <<file, number of the write>>, None while it is not copied, or Absent
  behind the end of a copy that was cut short, where a read finds the end of the file
  (or a hole, once something is written further on).  `version`, `latest` and
  `staleOpen` are history variables, read by properties only (`version` also
  bounds the number of writes).
* `MayUse` is what POSIX asks of a program: no use of a descriptor before `open`
  has returned it or while it is being closed.
* `Window` stands for the strategies: any map from a file that missed to the
  files enqueued for it.  `requested` holds every path ever put on a queue: the
  lookahead thread may take them in any order, any number of times.
* `CachePath` is a constant because `get_cache_path` (module `Paths`) maps `/` to `_`
  (`utils/path.c:45`): two files may share a copy.  The instances use different
  paths; `TypeOK`, `LockOrder` and `OnlyStaleOpenDangles` are proved for any.
* A block stands for `BLOCK_SIZE` bytes, so the interval of an extent list is a
  maximal run of blocks, and `CopiedByInterval` is the closed form of the loop
  `do ... while (bytes_total < start)`.

### How the structures fit under Acl

`Acl` uses each structure by what it promises, and a module of its own shows
that the code keeps the promise:

| `Acl` has | which is | implemented by |
|---|---|---|
| `requested`, `Window` | the files put on a queue, in any order | `Lookahead` (`Requests`), on queues as in `Queue` (`Fifo`) |
| the dirty blocks of an entry, `LowestRun` | bytes not written back | `Extents` (`DirtyBytes`) |
| `CopiedByInterval` | what a flush copies of an interval | `WriteBack` (`CopyBack`), in bytes: `BlocksStandForBytes` |
| a flush as one step, `Flushed` (so in `Layer`) | what a flush copies of a list | `WriteBack` (`CopyBack`), turn by turn |
| `CachePath` | the name of a copy | `get_cache_path` of `Paths` |
| a call that reads or writes "a block" of a descriptor | a call at the offset | `Layer` (`PosixFiles`) |
| the set of entries in the priority queue, any of which may be the victim | a table of scores | `Priority` (`LeastScore`) |
| the lookup function from paths to entries | a map | `LookupTable` (`Dictionary`) |

* `Queue`.  `enqueue` is `Store` (mutex, element, size), `Post` (semaphore),
  `Unlock`, or `Overflow`; `dequeue` is `TryWait` before the mutex and `TakeFront`
  under it, or `NothingThere`.  There is one consumer, the lookahead thread.  An
  enqueue takes effect when it posts, a dequeue when it takes the element; the
  mutex is unfair.  The semaphore `full` is initialised and never used.
* `Extents`.  Callers hold both `ce_mutex` and `e_mutex`, so interleaving is not
  the question; the two loops are.  `Scan` is a turn of the first, `Absorb` of the
  second; in the refinement a push takes effect where `Merge` or `Insert` puts
  the interval into the list, while the list may still overlap.  A write that
  failed pushes the interval from its offset to one below (`acl.c:213-218`).  The
  pushes are those of `WriteBack`: alone, `Extents` has no run, as failed pushes
  make its list as long as one likes.
* `WriteBack`.  `ce_mutex` is held over a write and its push and over a whole flush
  (`EntryFree`), so pushes and flushes alternate.  `PopInterval` takes an interval
  off the list, each `CopyBlock` is one turn of `do ... while (bytes_total < start)`
  (`GoesOn`), `ReadNothing` its `break`; an interval of a failed write asks
  `sys_read` for -1 bytes, which ends the process (`ReadRefused`).  `Truncate` is
  `acl_open` with `O_TRUNC`: it takes no mutex of the entry and may come between any
  two steps; that it empties first the source and then the copy is one step here.
  `behind` is a history variable: what was written to the copy and not to the source.
  In the refinement of `CopyBack` a flush takes what is due where `BeginFlush` is, and
  what is due shrinks as the copy goes on; a truncation in between empties it.
* `Layer`.  What `Acl` leaves out: the offset of the source descriptor, which every
  cached call gives to the descriptor of the copy and moves afterwards (`Advance`); the
  flags of `open`, used again when the copy is opened (`memory.c:27`); results of -1.
  What `Acl` has and `Layer` leaves out: a call is one step, and so is an insertion up
  to its callback, the callback, and an eviction.  `Kernel` is an instance of
  `PosixFiles` for the source files, `Abstract` another for what the program sees:
  the copy where there is one, else the source.  A file opened read-only is a file
  whose writes fail.  `Insert` copies all of the source, `InsertCutShort` the blocks
  before a read error (`file.c:86`).  The intervals of failed writes are left to `WriteBack`.
  `Seek` and `SeekEnd` are not intercepted and go to the source.
* `Priority`.  `InsertNew`, `Update`, `Remove` are the calls up to their sift loop,
  `Up` and `Down` one turn, `Finish` the assignment of `*index` or the removal from
  the table.  `Compare` is the unsigned difference cut to an int.
  `update_internal_heap` is modelled for both directions, as the clock may be set
  back.
  A heap that is full is written to behind its array, of an empty one an element
  is read that was never set (`heap.c:92`, `heap.c:105`): `InsertBeyond` and `RemoveNone`, after which the
  model stops.  The first is possible (4096 entries, and 25 MB hold more files
  than that), the second when a file is larger than the cache (`OnlyOversizeEmpties`).
* `LookupTable`.  Chains are sequences of pairs; a call holds the mutex of what the
  table belongs to from beginning to end and is one step.
* `PriorityTable`.  Each call of `priority.c` is a step of `Priority` joined with the
  calls of the table it makes: the look-ups of the listener, the insertion, the
  removal at the end.  `TableAgrees` says that the listener never gets NULL.
* `Lookahead`.  Two constants distinguish the strategies: `Sorts` (fsdl, psdl) and
  `Windowed` (psdl, prdl); `constants.h` selects psdl.  The queues are those of
  `Fifo`; `overtaken`, `requested` and `dropped` are history.  Where the file that
  missed is not listed (a listing made after it was removed) the search ends
  behind the last entry and the window is empty, as in the code.
* `Paths`.  A path is a sequence of character codes, since `/`, `_` and digits decide
  everything here.  `compare_path` is a recursive function over two positions
  (`Compared`); `Number` stops at `LongMax` as `strtol` does.  `list_files` leaves out what `lstat`
  says is no regular file; what is gone by then is listed (`directory.c:39`).
* `LookaheadFiles`.  The reference for the order, `Precedes`, knows no recursion: two
  paths are compared where they first differ among the tokens that have equally many
  before them.  `Listing` and `Sorted` of `Lookahead` are what `list_files` and
  `qsort` with `compare_path` make of the entries of a directory.  (Where two names
  compare equal, as 1 and 01, `qsort` may return either order; the directory of the
  run has no such names.)  `Upcoming` is what is still to come of a window, on the low
  queue and not yet on it; `Misplaced` are the pairs of files in the wrong order.

## 3. Runs

| run | question | instance |
|---|---|---|
| `reader` | do slots, cache and contents stay in step while files come and go? `MappingTracksCache`, `DescriptorRepaired`, `CopyOfOwnFile`, `ReadsLatest`; does the eviction loop make room? `OnlyOversizeEmpties` | one thread, two slots, room for one of two files, a third larger than the cache, two addresses |
| `threads` | is the order of mutexes kept, who may hold a dangling pointer, can an unfinished copy be reached, do lookup, priority queue and size agree? `LockOrder`, `OnlyStaleOpenDangles`, `CopyHidden`, `CacheConsistent` | two threads on one slot, files of sizes 1, 1 and 2, capacity 2, two addresses |
| `writer` | is a write ever lost, is a flush durable, does the source ever go back? `LatestSurvives`, `FlushIsDurable`, `SourceNeverRegresses`, `ReadsLatestOrSourceIsNewer` | one thread, one slot, two files of blocks 0 and 2, three writes, nothing evicted |
| `progress` | does every call return, does a request get cached? `CallsReturn`, `RequestedIsCached` | one thread and slot, two files, room for one, one address; fairness, no symmetry |
| `eviction_loses_write` | violated: "if file in cache has been modified write changes to disk" (`memory.c:50`) | one write, room for one file |
| `merged_extent` | violated: a flush writes every change back | blocks 0 and 1, neighbours |
| `queue` | do ring, size and semaphore agree at every point, in FIFO order, and is everything handed out? `CountsAgree`, `Implements`, `Drained` | two producers, ring of three |
| `writeback` | is the list the set of dirty bytes, and what does a flush make of it? `Implements`, `FlushTypeOK`, `CopiesAsPromised`, `LosesOnlyTails`, `FlushEnds` | offsets up to 6, blocks of two bytes, up to three intervals, empty ones and those of failed writes included |
| `layer` | can a program tell the layer from the kernel, and does the list know all that the source lacks? `Transparent`, `ListStaysComplete` | one file of up to two bytes, two descriptors, the four modes of `open`, blocks of one byte |
| `heap` | is the victim always of least score, every index right, and the hash table a map? `HeapOrder`, `IndexRight`, `TableAgrees`, `Implements`, `TableIsMap` | `PriorityTable`: five items, room for four (three levels), scores 0 to 2, all items in one chain (other chains are never touched) |
| `window` | does advice go first, is no window dropped, is everything served and nothing else inserted? `AdviceGoesFirst`, `LowNeverDrops`, `AdviceServed`, `MissServed`, `Implements`; are windows inserted in natural order, each file with a copy of its own? `NaturalOrder`, `CopiesSideBySide` | psdl, which is built, window and queues of two, a directory of three files (10, 2 and 1, of which 2 is gone when it is looked at) and a directory that is not listed; compared with some 430 other spellings |
| `sorted_window` | violated: "search for current entry sequentially" (`psdl.c:25`) | psdl, three files, window of two |

Bounds.  A slot more than the thread uses at once lets a scan pass between an
open and its slot; two addresses let memory be recycled while an old pointer is
kept (in `threads` as many as files fit, so that an insertion after an eviction takes an
address again); room for one of two files makes every insertion an eviction, so in
`progress`, where the callbacks of both have to get through; a file as large as the
cache evicts both of the others; three writes
are one direct, one cached, one after a flush.  Blocks 0 and 2 are no
neighbours, so every interval is one block and the loop of
`copy_file_interval` copies it whole; blocks 0 and 1 are neighbours, and show
where it does not.  Addresses, inodes, threads, files of one size and the
items of one chain are interchangeable, and in `layer` the descriptors, hence the symmetry sets (none where liveness is checked).

Where the properties end, which is as much a result as where they hold:

* `ReadsLatest` is checked for readers.  With writers it fails: a write that
  missed the cache is made after its slot's mutex is given back (`acl.c:178-184`),
  so the file may be copied and attached in between, and the copy stays stale.
  `ReadsLatestOrSourceIsNewer` says how far this goes: a read that does not show the
  last value shows an older one of that file, and the last one is in the source.
* A read error while a file is copied ends the loop of `copy_data` as the end of the
  file does (`file.c:86`), and the truncated copy is handed to the slots.  `ReadsLatest`
  and `ReadsLatestOrSourceIsNewer` allow a read from such a copy to find nothing
  (`FindsCopyCut`), while the source has the last value; no write is lost by it
  (`LatestSurvives`, `FlushIsDurable`).  What `CopyHidden` promises is therefore that no
  copy is reached before `copy_data` is done with it, not that it is whole.
* `OnlyOversizeEmpties`: the loop of `insert_cache` "remove entries until size is small
  enough to insert entry" (`cache.c:96`) takes an element of an empty heap for a
  file larger than the cache (`cache.c:97`), and for no other.
* `LosesOnlyTails` is what a flush promises: nothing, for the part of an interval
  behind `CopiesUpTo`, which depends on where the interval starts (`file.c:69`;
  `merged_extent` is the same against `fsync`).  All else that was written is on the
  list, in the hands of a push or a copy, or in the source, whatever intervals
  failed writes put on the list and wherever a truncation comes.
* `Transparent` names every step a program can tell from a kernel's: calls on a
  descriptor that was opened by other means or before the callback, while there is a
  copy (`PastCopy`); calls through a slot that `acl_close` left for the next
  descriptor of that number (`LeftSlot`, `acl.c:233`); `O_APPEND` (`Appends`,
  `acl.c:214`); `SEEK_END` on a file that has grown in the copy (`SeeksShort`); the
  offset after a failed call (`AccessFails`, `acl.c:150`, `acl.c:208`); `O_TRUNC`
  that reaches one of the two files, or reaches the copy again later
  (`TruncatesSource`, `TruncatesLate`, `memory.c:27`); the eviction of a copy that is
  not written back (`LosesWrites`); and a copy that is cut short by a read error of the
  source (`InsertCutShort`, `file.c:86`).  There is no other step of the model
  (`LayerTransparent`); section 5 says what the model does not have.
* `CopiesSideBySide` holds for names without an underscore: `/s/d/1` and `/s/d_1` share
  a copy (`path.c:45`).
* `LatestSurvives` and `FlushIsDurable` are checked for one descriptor and no
  eviction, and proved for any number of them as long as each file is open once and
  used by one call at a time (section 4).  With eviction unflushed writes are lost
  (`eviction_loses_write`).
* `CopyOfOwnFile` and `ReadsLatest` leave out slots in `staleOpen`: `acl_open`
  may fill a slot from an entry that was freed, and recycled, after its lookup
  (`acl.c:74`, `acl.c:93`).

Fairness.  Weak fairness of every call that has begun (the scheduler runs every
thread) and of the lookahead thread, whose loop polls without end
(`strategies/psdl.c:55`), but of none of their steps that are failures of the
environment (`FlushFails`, `UnlinkFails`, `InsertFails`, `CopyCut`): these may happen and
need not, so nothing is served by an exit that fairness forces.  A mutex is not fair:
under weak fairness a slot's mutex may be taken by the application every time the
lookahead thread wants it, so `RequestedIsCached` assumes the application is quiet from
some time on, and `Drained` that the producers leave the queue's mutex alone; and the
other way round, so `CallsReturn` assumes that insertions end at some time.  In the code
each takes a path off a queue, so they end once the threads wait or stop missing;
`requested` of `Acl`, from which a path may be taken any number of times, only grows.
The calls and evictions that are on their way when the insertions end must get through
with no such help.  `MissServed` assumes quiet, too, for another reason: as long as
files are advised the thread never looks at the misses.  `AdviceServed` needs no such
assumption.
In `writeback` the steps of a flush are weakly fair: the thread that flushes holds
`ce_mutex` and waits for nobody.

## 4. Proofs

`AclProofs` proves, for every number of threads, files, slots, entries, blocks
and every `Capacity`, `Window` and `CachePath` allowed by `AclAssumption`:

* `TypeCorrect`: `Spec => []TypeOK`;
* `MutexOrder`: `Spec => []LockOrder`;
* `DanglingOnlyAfterStaleOpen`: `Spec => []OnlyStaleOpenDangles`;

All follow from `CoreInvariant`, `Spec => []CoreInv`.  None of the properties
is inductive.  `CoreInv` adds to the types:

* `CallInv`: what the locals of a call hold at each of its points (a thread that
  flushes has an entry, an open descriptor is in use);
* `UseInv`: a call that opens or closes a descriptor is alone on it;
* `LockInv`: exactly who holds each mutex at which point, and that only live
  entries are locked;
* `EntryInv`: how live entries, lookup table and priority queue are related, and
  that a victim is in none of them;
* `DangleInv`: which slots may point to the victim, given how far
  `removed_cache` has scanned.

There is one lemma per part and kind of process, with one step per action;
`ThreadActions` and `LookaheadActions` list the actions, `LockThreadFrom` and
`LockLookaheadFrom` reduce the mutexes to what the stepping process itself
does, `SlotSafe` and `SlotSafeThread` say that a slot whose mutex is held is left
alone by the others.

`AclCacheProofs` builds on `CoreInvariant`.  Without hypotheses:

* `CacheAgrees`: `Spec => []CacheConsistent`;
* `OversizeOnly`: `Spec => []OnlyOversizeEmpties`;
* `MappingsTrackCache`: `Spec => []MappingTracksCache`.

If no two files have their copies under one name (`DistinctCopies`; where it is not
so, see `CopiesSideBySide`, the code truncates one file's copy when it copies the other):

* `DescriptorsRepaired`: `Spec => []DescriptorRepaired`;
* `CopiesHidden`: `Spec => []CopyHidden`, a copy is reached only when `copy_data` is done
  with it, at the end of the source or at a read error.

If the application only reads, besides (`ReadOnly`):

* `CopiesOfOwnFiles`: `Spec => []CopyOfOwnFile`;
* `ReadersReadLatest`: `Spec => ReadsLatest`, if it opens its files through the library
  (`OwnOpens`): a descriptor from elsewhere finds the slot that the last `acl_close`
  of its number left.  Where a read error has cut the copy short, the read finds nothing
  and the source has the last value: that is part of the property (`FindsCopyCut`).

If it writes, five theorems have the same hypotheses, which name what the losses
that section 3 reports come from.  No two files share a copy (`DistinctCopies`).
The cache has room for all files together (`RoomForAll`), so that nothing is evicted:
an eviction loses what is unflushed (`eviction_loses_write`).  Every interval is copied
as a whole (`WholeIntervals`): the end of a merged one may be dropped
(`merged_extent`).  Every descriptor comes from `acl_open` (`OwnOpens`).  And a file is
open once at a time, and each descriptor used by one call at a time
(`[]UsedAlone`), whatever the number of threads, files and descriptors: `acl_write` on a
descriptor without a mapping goes to the source while another descriptor of that file,
or a call on its way to the mapping, has unflushed writes in the copy, which a later
flush puts on top.  TLC finds `LatestSurvives` violated where `UsedAlone` is left out.
The instance of the run `writer` satisfies all of them.

* `WritesSurvive`: `Spec /\ []UsedAlone => []LatestSurvives`;
* `FlushesAreDurable`: `Spec /\ []UsedAlone => FlushIsDurable`;
* `SourcesNeverRegress`: `Spec /\ []UsedAlone => SourceNeverRegresses`;
* `ReadsAreOfOwnFile`: `Spec /\ []UsedAlone => ReadsLatestOrSourceIsNewer`;
* `WrittenCopiesOfOwnFiles`: `Spec /\ []UsedAlone => []CopyOfOwnFile`.

The invariant `WriteInv` says where the last write to a block is: if the block is listed,
in the copy; if not, in the source; and everything else is an older value of the same
file.  Something is listed only while the file is open on a descriptor that has the
entry, and no call goes past the copy (`InUse`): without that a direct write could
not be told from one that a flush will overwrite.  It rests on `RoomInv` (the cache's
size is the total of the files in it, so the loop that evicts is never entered) and
`StayInv` (a slot that has an entry has the current one for good).

The other invariants: `SizeInv` says that `c_size` is the sum over the
priority queue (as a function on its subsets, since a sum by recursion cannot be
reasoned about: `SumIsTotal` identifies the two); `TableInv` what a slot points to at
every point of an insertion or an eviction, given how far the callbacks have scanned;
`RepairInv` who is on the way to a slot whose `me_descriptor` is -1; `CopyInv` which names
lead to complete copies; `ReadInv` and `FileInv` what copies hold and which file a slot is of.

`QueueProofs`, for every number of producers, every set of items and every
capacity:

* `RingImplementsFifo`: `Spec => Implements`; with `QueueTypeCorrect` and
  `QueueCountsAgree`, `Spec => []CountsAgree`.

The invariant adds to the counts that the mutex is held exactly by a producer
in the middle of `enqueue` (so at most one element is stored and not posted) and
that the positions from `front` on hold elements; the refinement needs that a
position is not written before it was taken, which is `size <= Capacity` and
arithmetic modulo the capacity, stated as lemmas.

`ExtentsProofs`, for files of every size:

* `ListImplementsDirtyBytes`: `Spec => Implements`, with `ExtentsTypeCorrect` and
  `ExtentsSorted`, `Spec => []SortedWithGaps`.

The invariant says how the list looks inside the loops: everything before `at`
ends below the new interval; in the second loop only the gap after `at` may be
missing.  That a pop hands out a maximal run follows from the gaps.

`WriteBackProofs`, for files and blocks of every size and lists of every length:

* `FlushUsesList`: `FlushSpec => Spec`, every step of `WriteBack` is a step of
  `Extents` or leaves the list alone, so `FlushKeepsSorted` and
  `FlushImplementsDirtyBytes` follow from the theorems above;
* `FlushTypeCorrect`: `FlushSpec => []FlushTypeOK`;
* `FlushLosesOnlyTails`: `FlushSpec => LosesOnlyTails`;
* `FlushCopiesAsPromised`: `FlushSpec => CopiesAsPromised`: from its first turn to its
  last a flush copies what `CopiedBack` makes of the bytes listed when it began, which
  is how `Layer` defines `Flushed`, whatever truncations come in between;
* `BlocksStandForBytes`: where intervals begin and end with blocks, `CopiedByInterval`,
  the closed form of `Acl`, names exactly the blocks whose bytes are copied.

`LosesOnlyTails` needs that before each turn of the loop either whole blocks have been
copied, or nothing is left of the interval (`WholeBlocks`): a short read means the end
of the interval or of the file, beyond which nothing is dirty (`FlushTypeOK`).  That so
many whole blocks reach as far as `CopiesUpTo` is arithmetic (`BlocksReach`).
`CopiesAsPromised` rests on the gaps of the list, too: a maximal run of what is listed is one
interval of it (`OfRun`), so that a pop takes a run and leaves what is due of the others
(`RunTaken`); and of the interval in hand nothing is due behind the last turn (`HandInv`).

`LookaheadProofs`, for every directory, strategy, window and capacity:

* `LookaheadServesRequests`: `Spec => Implements`, the assumption of `Acl`;
* `AdviceFirst`: `Spec => []AdviceGoesFirst`;
* `WindowFits`, `DirectoryFits`: `Spec => []LowNeverDrops`, if a window (with psdl
  and prdl), or the directory, is not longer than a queue;
* `MissIsRequested`: `Spec => []MissRequestsItself` for every strategy but psdl,
  which is exactly where the run `sorted_window` fails.  (`window` has psdl, so that this
  theorem is what is known of the other three.)

The invariant adds that the low queue is known to be empty when a miss is looked
at (nobody but the thread fills it), so that what remains of a batch always has
room, and that whatever is on a queue was requested.

* `CopiesOfTheirOwn`: `Spec => []CopiesSideBySide`, if the files lie below
  `SOURCE_PATH` and no underscore follows it in their names.  The replacement of slashes
  is injective on such names (`FlatTells`); this is what makes `DistinctCopies` true.
* `ComparesNaturally`: on any two C strings `compare_path` is the natural order (`Precedes`),
  in both directions, whatever `LONG_MAX` is;
* `ComparisonSuitsQsort`: it is total, antisymmetric and transitive, without which
  the result of `qsort` is undefined;
* `NaturallyOrdered`: `Spec => []NaturalOrder`, if the names of files are C strings and
  `qsort` sorts (`SortedAssumption`): with psdl and fsdl the files of a window are
  inserted in natural order.  The invariant `OnePiece` says that low queue and batch
  together are one piece of the sorted listing, or what is left of it; windows do
  not mix, because the queue is empty when a miss is looked at.

`compare_path` recurs over the characters of both paths.  That there is a function with
this recursion is the lemma `Recursion`: functions that are right up to some rank can be
improved by one, and a least rank without one would contradict that.  Everything else
about it is shown by a least counterexample, too (`LeastNumber`): from two positions with
equal tokens before them the comparison finds the first difference (`FindsDifference`),
which is one only (`OneDifference`).

`PriorityProofs`, for any number of items, capacity, and hash function:

* `HeapOrdered`, `IndicesRight`: `Spec => []HeapOrder`, `Spec => []IndexRight`;
* `HeapImplementsLeastScore`: `Spec => Implements`, a table of scores of which a least one
  is handed out;
* `TableUsesHeap`: `TableSpec => Spec`, so that all of this holds of the composition
  (`PriorityQueueCorrect`);
* `TableAgreesWithHeap`: `TableSpec => []TableAgrees`;
* `TableImplementsMap`: `TableSpec => TableIsMap`.

The invariant follows the loops: one element may be out of order with its parent, or with
its children, and it would leave a heap behind (`OrderInv`); the index of the item the
operation is about is outdated until the end of the loop (`PlaceInv`).  That the root is
least is an argument by the least position that is smaller, whose parent is smaller, too.

`LayerProofs`, for any number of files and descriptors, files and blocks of any size:

* `LayerTypeCorrect`: `Spec => []TypeOK`;
* `ListsStayComplete`: `Spec => ListStaysComplete`;
* `LayerTransparent`: `Spec => Transparent`: one step per call of `acl.c` is shown to
  be the same call of `PosixFiles` on what is visible, or one of the exceptions; those
  of the lookahead thread change nothing that is visible, but for theirs (evictions of
  unflushed copies, copies cut short).

`SlotInv` says which slots have an entry.  It is what makes `PastCopy` exact: a
descriptor of the library's own whose file has a copy goes past it only until the copy is
attached.  `Covers` says without reference to the sequence `Overlaid` when the bytes
of the list, written over the source, give the copy; `OverlaidIs` is the equivalence.

The invariants that only proofs need are in the modules of the proofs.  Each (`SizeInv` to
`FileInv`, `PlaceInv` and `OrderInv`, `SlotInv`) was checked by TLC on the
instance of a run before it was proved; `RoomInv`, `StayInv` and `UsedAlone =>
WriteInv` on the instance of `writer` with one file, two threads and two descriptors,
and with two files, one thread and two descriptors.

Only model-checked:

* liveness (`CallsReturn`, `RequestedIsCached`, `Drained`, `AdviceServed`,
  `MissServed`, `FlushEnds`), which is out of the prover's reach;
* that `qsort` sorts: it is libc's, and `SortSeq` of the standard module `TLC` here.
  `NaturallyOrdered` rests on it as an assumption about the constant
  (`SortedAssumption`), which TLC evaluates on the listing of the runs.

## 5. Not modelled

What `free_*` functions do at the end of a process: none is ever called but
`free_extent`.  The descriptors `copy_file_interval` leaves open
(`utils/file.c:25-31`).  Growth of a file after it was cached (`ce_size` is never
updated).  The race of two first calls in `acl_init` (`acl.c:44`): every model
starts initialised, and nothing in the code says what is promised before.
A directory that cannot be opened: `list_files` gives `readdir` the NULL that `opendir`
returned (`directory.c:18-22`).  Descriptors outside of the table (`acl.c:76`), which are undefined behaviour at once.
Links, `.` and `..`: a file has one name in `Acl` and `Layer`.  Calls of more than one
byte in `Layer` (and so short reads), and overlapping calls there: those are in `Acl`.
The end of the process, which leaves unflushed writes in the copies only.  Of the
interposition wrappers the variadic arguments and the types of the results
(`intercept.c:38`), and `dlsym`.  `structures/heap.c` and
`structures/internal/queue.c` are not used by anything; the programs in `examples`
time reads and writes.

## 6. Plan

In the order of what matters most to the system:

Done: `Blocks`, `Acl` and its properties; the queue, the extent list, the heap, the
hash table and the lookahead thread, each against its abstract specification; the
write-back byte by byte, and in closed form; the calls against what a kernel promises; paths and
listings; and the proofs of section 4.  The lists of `Acl`, `Layer` and `WriteBack` are shown to tell one story
(`FlushCopiesAsPromised`, `BlocksStandForBytes`), and nothing of the plan is left but what
section 5 gives up.
