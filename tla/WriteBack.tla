----------------------------- MODULE WriteBack ------------------------------
(***************************************************************************)
(* A cached file from acl_write to its source: the writes push intervals   *)
(* on the extent list (Extents), and a flush, the loop of acl_sync and of  *)
(* acl_close, pops them one by one and copies each with copy_file_interval *)
(* (utils/file.c), one step for each turn of its loop.                     *)
(*                                                                         *)
(* ce_mutex is held over a write and its push, and over a whole flush.     *)
(***************************************************************************)
EXTENDS Extents, Blocks

CONSTANTS
  BlockSize,    \* BLOCK_SIZE
  MaxIntervals  \* bound: the length of the list when a write is made

VARIABLES
  length,    \* the size of the copy
  behind,    \* the bytes written to the copy and not yet to the source
  flushing,  \* is a flush under way?
  job,       \* start, end and bytes_total of copy_file_interval, or None
  status     \* "running", or "exited"

flushVars == <<length, behind, flushing, job, status>>
allVars == <<vars, flushVars>>

Jobs == [start : Offsets, end : Offsets, total : Offsets]

ASSUME WriteBackAssumption ==
  BlockSize \in Nat \ {0} /\ MaxIntervals \in Nat /\ None \notin Jobs

FlushInit ==
  /\ Init
  /\ length \in Offsets
  /\ behind = {}
  /\ flushing = FALSE
  /\ job = None
  /\ status = "running"

-----------------------------------------------------------------------------
(* The writes, and the truncation of the source and the copy by acl_open.  *)

\* sys_write on the copy; a result of 0 changes nothing.
Write(lower, upper) ==
  /\ ~flushing
  /\ Len(list) <= MaxIntervals
  /\ PushBegin(lower, upper)
  /\ behind' = behind \cup lower .. upper - 1
  /\ length' = IF upper > lower THEN Max2(length, upper) ELSE length
  /\ UNCHANGED <<flushing, job, status>>

\* The write returns -1, which is pushed all the same.  At offset 0 acl_write
\* exits before the push, at lseek.
WriteFails(lower) ==
  /\ ~flushing
  /\ Len(list) <= MaxIntervals
  /\ lower > 0
  /\ PushBegin(lower, lower - 1)
  /\ UNCHANGED flushVars

PushStep ==
  /\ Scan \/ Merge \/ Insert \/ Absorb \/ AbsorbDone
  /\ UNCHANGED flushVars

\* Mutant: a flush does not wait for the push of another call.
NoFlush == ~flushing

\* Nobody holds ce_mutex.
EntryFree == ~flushing /\ pc = "idle"

\* acl_open takes no mutex of the entry: this may happen in the middle of a push
\* or of a flush.  The list is left as it is.
Truncate ==
  /\ length' = 0 /\ behind' = {}
  /\ UNCHANGED <<vars, flushing, job, status>>

-----------------------------------------------------------------------------
(* The flush.                                                              *)

BeginFlush ==
  /\ EntryFree
  /\ flushing' = TRUE
  /\ UNCHANGED <<vars, length, behind, job, status>>

PopInterval ==
  /\ flushing /\ job = None
  /\ Pop
  /\ job' = [start |-> popped'[1], end |-> popped'[2], total |-> 0]
  /\ UNCHANGED <<length, behind, flushing, status>>

EndFlush ==
  /\ flushing /\ job = None
  /\ PopNone
  /\ flushing' = FALSE
  /\ UNCHANGED <<length, behind, job, status>>

\* min(size - bytes_total, BLOCK_SIZE), which is below 0 for the interval of a
\* failed write.
Request == Min2(job.end - job.start - job.total, BlockSize)

\* The bytes that sys_read returns.
Available == IF length > job.start + job.total THEN length - job.start - job.total ELSE 0
BytesRead == Min2(Request, Available)

\* Mutant: the loop is left after the first block.
OneBlock(total) == FALSE

\* The condition of do ... while.
GoesOn(total) == total < job.start

CopyBlock ==
  /\ job # None /\ Request >= 0 /\ BytesRead > 0
  /\ behind' = behind \ (job.start + job.total .. job.start + job.total + BytesRead - 1)
  /\ job' = IF GoesOn(job.total + BytesRead)
            THEN [job EXCEPT !.total = @ + BytesRead] ELSE None
  /\ UNCHANGED <<vars, length, flushing, status>>

\* Mutant: a read that returns 0 does not end the loop.
Retry == job

\* if (bytes_read == 0) break.
Break == None

ReadNothing ==
  /\ job # None /\ Request >= 0 /\ BytesRead = 0
  /\ job' = Break
  /\ UNCHANGED <<vars, length, behind, flushing, status>>

Exit ==
  /\ status' = "exited"
  /\ UNCHANGED <<vars, length, behind, flushing, job>>

\* sys_read is asked for -1 bytes.
ReadRefused == job # None /\ Request < 0 /\ Exit

\* Any of the calls may fail.
CopyFails == job # None /\ Exit

-----------------------------------------------------------------------------
CopyStep == PopInterval \/ CopyBlock \/ ReadNothing \/ ReadRefused \/ EndFlush

WriteStep ==
  \/ \E lower, upper \in Offsets : lower <= upper /\ Write(lower, upper)
  \/ \E lower \in Offsets : WriteFails(lower)

Exited == status = "exited" /\ UNCHANGED allVars

FlushNext ==
  \/ status = "running" /\ (WriteStep \/ PushStep \/ Truncate \/ BeginFlush \/ CopyStep
                          \/ CopyFails)
  \/ Exited

(***************************************************************************)
(* The thread that flushes holds the mutexes it needs: nothing but the     *)
(* scheduler can keep it from its next step.                               *)
(***************************************************************************)
FlushSpec == FlushInit /\ [][FlushNext]_allVars /\ WF_allVars(status = "running" /\ CopyStep)

-----------------------------------------------------------------------------
(* Properties.                                                             *)

\* The variables of the list and of the flush hold values of their types, the
\* source never lacks bytes beyond the end of the copy, and there is an interval in
\* hand only during a flush, which never meets a push.
FlushTypeOK ==
  /\ TypeOK
  /\ length \in Offsets
  /\ behind \subseteq 0 .. length - 1
  /\ flushing \in BOOLEAN
  /\ job \in Jobs \cup {None}
  /\ status \in {"running", "exited"}
  /\ job # None => flushing
  /\ flushing => pc = "idle"

\* The bytes of the interval being pushed, and of the one being copied.
Pushing == IF pc = "scan" THEN new[1] .. new[2] - 1 ELSE {}
Copying == IF job = None THEN {} ELSE job.start + job.total .. job.end - 1

\* The bytes the source will never get: nothing knows of them any more.
Lost == behind \ (Covered \cup Pushing \cup Copying)

\* No byte that was written is forgotten by the list, the pop or the copy, but
\* for the end of an interval longer than its offset in the file: when the copy
\* of an interval ends, the bytes after the last whole block that is needed to
\* reach `start` bytes are lost, and no others.
LosesOnlyTails ==
  [][Lost' \subseteq Lost \cup
       (IF job # None /\ job' = None
        THEN {b \in job.start .. job.end - 1 : b >= CopiesUpTo(job.start, BlockSize)}
        ELSE {})]_allVars

\* What the loop will yet copy of the interval in hand, and of those on the list.
DueInHand ==
  IF job = None THEN {}
  ELSE {b \in Copying : b < length /\ b < CopiesUpTo(job.start, BlockSize)}
Due == DueInHand \cup CopiedBack(Covered, length, BlockSize)

\* Turn by turn and interval by interval, a flush copies what CopiedBack makes of
\* the bytes listed when it began: the closed form that Layer uses.  Truncations come
\* in between, and the process may end.
Back == INSTANCE CopyBack
          WITH dirty <- IF flushing THEN {} ELSE Covered \cup Pushing,
               due <- IF flushing THEN Due ELSE {}
CopiesAsPromised == Back!Spec

\* A flush comes to an end, or the process does: every list is finite, and the
\* loop of copy_file_interval makes progress or is left, although what it tests
\* has nothing to do with the size of the interval.
FlushEnds == flushing ~> (~flushing \/ status = "exited")
=============================================================================
