------------------------------- MODULE Layer --------------------------------
(***************************************************************************)
(* The intercepted calls (acl.c) as one program sees them: offsets, open   *)
(* flags, results and failures, which Acl leaves out.  A call is one step, *)
(* and so are the copying of a file, the callbacks and the eviction of a   *)
(* file by the lookahead thread: what happens when they overlap is the     *)
(* subject of Acl.                                                         *)
(*                                                                         *)
(* The layer itself calls the kernel: on the source files, which Kernel    *)
(* describes, and on the copies.  It is transparent as far as the program  *)
(* on top of it cannot tell it from the kernel (Abstract).                 *)
(***************************************************************************)
EXTENDS Blocks, Sequences

CONSTANTS
  Files,   \* regular files below SOURCE_PATH
  Fds,     \* the numbers of descriptors
  Values,  \* what a byte may hold
  MaxLen,  \* bound: the length of a file, and the largest offset
  BlockSize,  \* BLOCK_SIZE
  None     \* NULL, -1, "no such file"

ASSUME LayerAssumption ==
  MaxLen \in Nat \ {0} /\ BlockSize \in Nat \ {0} /\ None \notin Files \cup Fds \cup Values

VARIABLES
  src,        \* the bytes of a file below SOURCE_PATH
  opened,     \* the descriptors the program holds, all open on source files
  result,     \* what the last call returned
  slot,       \* m_mapping_entries[fd]
  copy,       \* the bytes of a file's copy below CACHE_PATH, or None
  dirty,      \* the bytes the extent list of the copy covers
  attaching,  \* the file whose callback inserted_cache is due, or None
  status      \* "running", or "exited"

kernel == <<src, opened, result>>
copies == <<copy, dirty>>
vars == <<kernel, slot, copies, attaching, status>>

Kernel == INSTANCE PosixFiles WITH content <- src

Contents == UNION {[1 .. n -> Kernel!Bytes] : n \in 0 .. MaxLen}

\* NULL is not the contents of a file.
ASSUME NoneAssumption == None \notin Contents

(***************************************************************************)
(* A slot: me_path, me_flags, and whether me_entry and me_descriptor are   *)
(* set (to the entry of me_path, and to a descriptor on its copy).         *)
(***************************************************************************)
Slots == [path : Files, flags : Kernel!Modes, entry : BOOLEAN, desc : BOOLEAN]

Init ==
  /\ Kernel!Init
  /\ slot = [fd \in Fds |-> None]
  /\ copy = [f \in Files |-> None]
  /\ dirty = [f \in Files |-> {}]
  /\ attaching = None
  /\ status = "running"

Copied(f) == copy[f] # None

\* The slot has an entry: the call goes to the copy.
Cached(fd) == slot[fd] # None /\ slot[fd].entry

\* exit(EXIT_FAILURE).
Exit ==
  /\ status' = "exited"
  /\ UNCHANGED <<kernel, slot, copies, attaching>>

-----------------------------------------------------------------------------
(* acl_open.                                                               *)

(***************************************************************************)
(* The source file is opened; if the cache holds the file the copy is      *)
(* opened with the same flags, so that O_TRUNC empties both.               *)
(***************************************************************************)
Open(fd, f, mode) ==
  /\ Kernel!Open(fd, f, mode)
  /\ slot' = [slot EXCEPT ![fd] = [path |-> f, flags |-> mode,
                                   entry |-> Copied(f), desc |-> Copied(f)]]
  /\ copy' = [copy EXCEPT ![f] = IF Copied(f) /\ mode = "truncate" THEN <<>> ELSE @]
  /\ UNCHANGED <<dirty, attaching, status>>

(***************************************************************************)
(* The copy cannot be opened: me_entry is set and me_descriptor is -1.     *)
(***************************************************************************)
OpenCopyFails(fd, f, mode) ==
  /\ Copied(f)
  /\ Kernel!Open(fd, f, mode)
  /\ slot' = [slot EXCEPT ![fd] = [path |-> f, flags |-> mode,
                                   entry |-> TRUE, desc |-> FALSE]]
  /\ UNCHANGED <<copies, attaching, status>>

(***************************************************************************)
(* A descriptor from a call the library does not intercept (openat, creat, *)
(* dup): the slot stays as the last close of that number left it.          *)
(***************************************************************************)
OpenForeign(fd, f, mode) ==
  /\ Kernel!Open(fd, f, mode)
  /\ UNCHANGED <<slot, copies, attaching, status>>

\* sys_open fails: acl_open returns before it touches the table.
OpenFails == Kernel!Fail /\ UNCHANGED <<slot, copies, attaching, status>>

-----------------------------------------------------------------------------
(* acl_read and acl_write without an entry: the call goes to the source.   *)

ReadDirect(fd) ==
  /\ ~Cached(fd)
  /\ Kernel!Read(fd)
  /\ UNCHANGED <<slot, copies, attaching, status>>

\* Nothing tells the copy, if there is one, of the write.
WriteDirect(fd, v) ==
  /\ ~Cached(fd)
  /\ Kernel!Write(fd, v)
  /\ UNCHANGED <<slot, copies, attaching, status>>

FailDirect(fd) ==
  /\ opened[fd] # None /\ ~Cached(fd)
  /\ Kernel!Fail
  /\ UNCHANGED <<slot, copies, attaching, status>>

-----------------------------------------------------------------------------
(* acl_read and acl_write with an entry.                                   *)

\* The file whose copy the slot has, and the offset of the source descriptor,
\* which is given to the descriptor of the copy.
Path(fd) == slot[fd].path
Offset(fd) == opened[fd].offset

UsesCopy(fd) == opened[fd] # None /\ Cached(fd) /\ slot[fd].desc

\* lseek on me_descriptor fails if it is -1.
NoDescriptor(fd) ==
  /\ opened[fd] # None /\ Cached(fd) /\ ~slot[fd].desc
  /\ Exit

\* Mutant: the offset of the source descriptor is left alone.
KeepOffset(fd, n) == UNCHANGED opened

\* lseek(fd, result, SEEK_CUR).
Advance(fd, n) == Kernel!MoveTo(fd, Offset(fd) + n)

ReadCopy(fd) ==
  /\ UsesCopy(fd)
  /\ result' = Kernel!ByteAt(copy[Path(fd)], Offset(fd))
  /\ Advance(fd, IF result' = "eof" THEN 0 ELSE 1)
  /\ UNCHANGED <<src, slot, copies, attaching, status>>

\* Mutant: the write is not recorded.
ForgetWrite(f, lower) == UNCHANGED dirty

\* push_extent of the range that starts at the offset before the write.
Record(f, lower) == dirty' = [dirty EXCEPT ![f] = @ \cup {lower}]

(***************************************************************************)
(* The kernel writes at the offset, or at the end of the copy if it was    *)
(* opened with O_APPEND; the range that is recorded, and the new offset of *)
(* the source descriptor, count from the offset all the same.              *)
(***************************************************************************)
WriteCopy(fd, v) ==
  LET f  == Path(fd)
      at == Kernel!WriteOffset(copy[f], slot[fd].flags = "append", Offset(fd))
  IN
  /\ UsesCopy(fd)
  /\ at < MaxLen /\ Offset(fd) < MaxLen
  /\ copy' = [copy EXCEPT ![f] = Kernel!Put(@, at, v)]
  /\ Record(f, Offset(fd))
  /\ Advance(fd, 1)
  /\ result' = "ok"
  /\ UNCHANGED <<src, slot, attaching, status>>

\* Mutant: the kernel lets an offset become negative.
AnyOffset(fd) == TRUE

\* lseek(fd, -1, SEEK_CUR) succeeds.
CanRecede(fd) == Offset(fd) > 0

(***************************************************************************)
(* sys_read or sys_write returns -1, which is added to the offset of the   *)
(* source descriptor.  Of a write, the interval from the offset to one     *)
(* below it goes on the list and covers no bytes: see FlushExits.          *)
(***************************************************************************)
AccessFails(fd) ==
  /\ UsesCopy(fd)
  /\ CanRecede(fd)
  /\ Advance(fd, -1)
  /\ result' = "failed"
  /\ UNCHANGED <<src, slot, copies, attaching, status>>

\* lseek does not move an offset below 0: the process ends.
FailsAtStart(fd) ==
  /\ UsesCopy(fd)
  /\ ~CanRecede(fd)
  /\ Exit

-----------------------------------------------------------------------------
(* acl_sync and acl_close.                                                 *)

\* The bytes that copy_file_interval copies of the intervals of the list.
Flushed(f) == CopiedBack(dirty[f], Len(copy[f]), BlockSize)

\* The bytes c of a file after those at the positions in P were written from d.
Overlaid(c, d, P) ==
  LET end == IF P = {} THEN 0 ELSE 1 + CHOOSE b \in P : \A a \in P : a <= b
  IN  [i \in 1 .. IF Len(c) < end THEN end ELSE Len(c) |->
         IF i - 1 \in P THEN d[i] ELSE IF i <= Len(c) THEN c[i] ELSE Kernel!Zero]

CopyRuns(f) == src' = [src EXCEPT ![f] = Overlaid(@, copy[f], Flushed(f))]

\* The loop of pop_extent and copy_file_interval.
Flush(f) ==
  /\ CopyRuns(f)
  /\ dirty' = [dirty EXCEPT ![f] = {}]

SyncDirect(fd) ==
  /\ ~Cached(fd)
  /\ Kernel!Sync(fd)
  /\ UNCHANGED <<slot, copies, attaching, status>>

SyncCopy(fd) ==
  /\ opened[fd] # None /\ Cached(fd)
  /\ Flush(Path(fd))
  /\ result' = "ok"
  /\ UNCHANGED <<opened, slot, copy, attaching, status>>

\* The slot of a descriptor without an entry stays as it is.
CloseDirect(fd) ==
  /\ ~Cached(fd)
  /\ Kernel!Close(fd)
  /\ UNCHANGED <<slot, copies, attaching, status>>

CloseCopy(fd) ==
  /\ opened[fd] # None /\ Cached(fd)
  /\ Flush(Path(fd))
  /\ slot' = [slot EXCEPT ![fd] = None]
  /\ opened' = [opened EXCEPT ![fd] = None]
  /\ result' = "ok"
  /\ UNCHANGED <<copy, attaching, status>>

(***************************************************************************)
(* A call in copy_file_interval fails, as sys_read does for an interval of *)
(* -1 bytes.  Such intervals are not part of `dirty`: any list may hold    *)
(* one.  (WriteBack has the list itself, and how far the copies came.)     *)
(***************************************************************************)
FlushExits(fd) == opened[fd] # None /\ Cached(fd) /\ Exit

-----------------------------------------------------------------------------
(* lseek is not intercepted: it works on the source descriptor.            *)

Seek(fd, offset) ==
  /\ Kernel!Seek(fd, offset)
  /\ UNCHANGED <<slot, copies, attaching, status>>

SeekEnd(fd) ==
  /\ Kernel!SeekEnd(fd)
  /\ UNCHANGED <<slot, copies, attaching, status>>

-----------------------------------------------------------------------------
(* The lookahead thread.  Any file may be requested, and any may have to   *)
(* make room for another.                                                  *)

\* insert_cache up to the callback, with the bytes c in the copy.
InsertAs(f, c) ==
  /\ attaching = None
  /\ ~Copied(f) /\ src[f] # None
  /\ copy' = [copy EXCEPT ![f] = c]
  /\ dirty' = [dirty EXCEPT ![f] = {}]
  /\ attaching' = f
  /\ UNCHANGED <<kernel, slot, status>>

Insert(f) == InsertAs(f, src[f])

(***************************************************************************)
(* sys_read of the source fails: copy_data ends as it does at the end of   *)
(* the file, and the copy is attached with the blocks read until then.     *)
(***************************************************************************)
InsertCutShort(f) ==
  /\ src[f] # None
  /\ \E n \in 0 .. Len(src[f]) - 1 :
       n % BlockSize = 0 /\ InsertAs(f, SubSeq(src[f], 1, n))

Waiting(f) == {fd \in Fds : slot[fd] # None /\ slot[fd].path = f /\ ~slot[fd].desc}

(***************************************************************************)
(* inserted_cache opens the copy for every slot of the path without a      *)
(* descriptor, with the flags of the slot: O_TRUNC empties the copy, and   *)
(* O_CREAT | O_EXCL fails, as the copy exists.                             *)
(***************************************************************************)
Attach ==
  /\ attaching # None
  /\ \E unable \in SUBSET Waiting(attaching) :
       /\ {fd \in Waiting(attaching) : slot[fd].flags = "create"} \subseteq unable
       /\ slot' = [fd \in Fds |->
                     IF fd \in Waiting(attaching)
                     THEN [slot[fd] EXCEPT !.entry = TRUE, !.desc = fd \notin unable]
                     ELSE slot[fd]]
       /\ copy' = [copy EXCEPT ![attaching] =
                     IF \E fd \in Waiting(attaching) \ unable : slot[fd].flags = "truncate"
                     THEN <<>> ELSE @]
  /\ attaching' = None
  /\ UNCHANGED <<kernel, dirty, status>>

\* remove_cache and removed_cache: what is on the list is dropped.
Evict(f) ==
  /\ attaching = None
  /\ Copied(f)
  /\ copy' = [copy EXCEPT ![f] = None]
  /\ dirty' = [dirty EXCEPT ![f] = {}]
  /\ slot' = [fd \in Fds |-> IF Cached(fd) /\ Path(fd) = f
                             THEN [slot[fd] EXCEPT !.entry = FALSE, !.desc = FALSE]
                             ELSE slot[fd]]
  /\ UNCHANGED <<kernel, attaching, status>>

-----------------------------------------------------------------------------
OpenStep ==
  \/ \E fd \in Fds, f \in Files, mode \in Kernel!Modes :
       Open(fd, f, mode) \/ OpenCopyFails(fd, f, mode) \/ OpenForeign(fd, f, mode)
  \/ OpenFails

AccessStep ==
  \E fd \in Fds :
    \/ ReadDirect(fd) \/ FailDirect(fd)
    \/ NoDescriptor(fd) \/ ReadCopy(fd) \/ AccessFails(fd)
    \/ FailsAtStart(fd)
    \/ \E v \in Values : WriteDirect(fd, v) \/ WriteCopy(fd, v)
    \/ SeekEnd(fd) \/ \E offset \in Kernel!Offsets : Seek(fd, offset)

FlushStep ==
  \E fd \in Fds :
    \/ SyncDirect(fd) \/ SyncCopy(fd) \/ CloseDirect(fd) \/ CloseCopy(fd)
    \/ FlushExits(fd)

CacheStep ==
  Attach \/ \E f \in Files : Insert(f) \/ InsertCutShort(f) \/ Evict(f)

Exited == status = "exited" /\ UNCHANGED vars

Next ==
  \/ status = "running" /\ (OpenStep \/ AccessStep \/ FlushStep \/ CacheStep)
  \/ Exited

Spec == Init /\ [][Next]_vars

-----------------------------------------------------------------------------
(* Properties.                                                             *)

\* Every variable holds a value of its type.
TypeOK ==
  /\ src \in [Files -> Contents \cup {None}]
  /\ copy \in [Files -> Contents \cup {None}]
  /\ opened \in [Fds -> Kernel!Descriptors \cup {None}]
  /\ result \in Kernel!Bytes \cup {"eof", "ok", "failed"}
  /\ slot \in [Fds -> Slots \cup {None}]
  /\ dirty \in [Files -> SUBSET Kernel!Offsets]
  /\ attaching \in Files \cup {None}
  /\ status \in {"running", "exited"}

(***************************************************************************)
(* While a file has a copy, the calls that go through the library see the  *)
(* copy.  A program cannot tell the layer from the kernel (Abstract) as    *)
(* long as this is what every call sees and changes.                       *)
(***************************************************************************)
Visible == [f \in Files |-> IF Copied(f) THEN copy[f] ELSE src[f]]

Abstract == INSTANCE PosixFiles WITH content <- Visible

\* The slot was filled for this descriptor, or might as well have been.
OwnSlot(fd) ==
  /\ slot[fd] # None
  /\ slot[fd].path = opened[fd].file /\ (slot[fd].flags = "append") = opened[fd].appends

\* A call that goes to the source of a file that has a copy, although the library
\* has opened the descriptor only until the copy is attached.
PastCopy(fd) ==
  /\ opened[fd] # None /\ Copied(opened[fd].file)
  /\ ~OwnSlot(fd) \/ attaching = opened[fd].file
  /\ ReadDirect(fd) \/ \E v \in Values : WriteDirect(fd, v)

Accesses(fd) == ReadCopy(fd) \/ \E v \in Values : WriteCopy(fd, v)

\* A call through a slot that was filled for an earlier descriptor.
LeftSlot(fd) ==
  /\ UsesCopy(fd) /\ ~OwnSlot(fd)
  /\ Accesses(fd)

\* A write with O_APPEND that does not begin at the end: the offset goes on from
\* where it was.
Appends(fd) ==
  /\ UsesCopy(fd) /\ slot[fd].flags = "append" /\ Offset(fd) # Len(copy[Path(fd)])
  /\ \E v \in Values : WriteCopy(fd, v)

\* lseek counts from the end of the source, which lacks what the copy has gained.
SeeksShort(fd) ==
  /\ opened[fd] # None
  /\ Len(Visible[opened[fd].file]) # Len(src[opened[fd].file])
  /\ SeekEnd(fd)

\* O_TRUNC is given again when the copy is opened, or reaches the source only.
TruncatesLate == attaching # None /\ Attach /\ copy' # copy
TruncatesSource(fd, f) ==
  /\ Copied(f)
  /\ OpenForeign(fd, f, "truncate") \/ OpenCopyFails(fd, f, "truncate")

LosesWrites(f) == Evict(f) /\ copy[f] # src[f]

(***************************************************************************)
(* Every step is, for the program, one of the calls the kernel promises    *)
(* (or none), with the exceptions named here and no other: acl_open,       *)
(* acl_read, acl_write, acl_sync, acl_close and the unintercepted lseek,   *)
(* while files are copied, attached and evicted between any two of them.   *)
(***************************************************************************)
Transparent ==
  [][\/ Abstract!Next
     \/ \E fd \in Fds :
          \/ PastCopy(fd) \/ LeftSlot(fd) \/ Appends(fd) \/ SeeksShort(fd)
          \/ AccessFails(fd)
          \/ \E f \in Files : TruncatesSource(fd, f)
     \/ TruncatesLate
     \/ \E f \in Files : InsertCutShort(f) \/ LosesWrites(f)
    ]_(Abstract!fileVars)

\* The list knows all that the source lacks: with the bytes it covers written
\* over, the source is equal to the copy.
ListComplete(f) ==
  Copied(f) => Overlaid(src[f], copy[f], {b \in dirty[f] : b < Len(copy[f])}) = copy[f]

\* A flush that leaves out the end of an interval, see CopiesUpTo.
CutShort(fd) ==
  /\ SyncCopy(fd) \/ CloseCopy(fd)
  /\ \E b \in dirty[Path(fd)] \ Flushed(Path(fd)) : b < Len(copy[Path(fd)])

(***************************************************************************)
(* The list stays complete, with whatever descriptors, offsets and         *)
(* truncations the program writes: the only steps after which a flush no   *)
(* longer makes source and copy equal are calls past the copy or through a *)
(* slot that was left, appended writes, truncations of one of the two      *)
(* files, and copies and flushes that are cut short.                       *)
(***************************************************************************)
ListStaysComplete ==
  [][\/ \A f \in Files : ListComplete(f) => ListComplete(f)'
     \/ \E fd \in Fds :
          \/ PastCopy(fd) \/ LeftSlot(fd) \/ Appends(fd) \/ CutShort(fd)
          \/ \E f \in Files : TruncatesSource(fd, f)
     \/ \E f \in Files : InsertCutShort(f)
     \/ TruncatesLate]_vars
=============================================================================
