----------------------------- MODULE PosixFiles -----------------------------
(***************************************************************************)
(* What the kernel promises of open, read, write, lseek, fsync and close   *)
(* on regular files, for one caller: the files, an offset per descriptor,  *)
(* and what the last call returned.  A program that runs on top of the     *)
(* caching layer expects the same.  A file is a sequence of bytes, and a   *)
(* call reads or writes one of them.                                       *)
(***************************************************************************)
EXTENDS Integers, Sequences

CONSTANTS
  Files,   \* the paths
  Fds,     \* the numbers of descriptors
  Values,  \* what a byte may hold
  MaxLen,  \* bound: the length of a file, and the largest offset
  None     \* a path that does not exist, a number that is not in use

VARIABLES
  content,  \* the bytes of a file
  opened,   \* per number: the open file, its offset and whether it appends
  result    \* what the last call returned

fileVars == <<content, opened, result>>

\* An access mode alone, with O_APPEND, with O_TRUNC, and with O_CREAT | O_EXCL.
\* A call that the access mode forbids is a call that fails.
Modes == {"plain", "append", "truncate", "create"}
Offsets == 0 .. MaxLen
Zero == "zero"                   \* a byte of a hole
Bytes == Values \cup {Zero}
Descriptors == [file : Files, offset : Offsets, appends : BOOLEAN]

Init ==
  /\ content \in [Files -> {None, <<Zero>>}]
  /\ opened = [fd \in Fds |-> None]
  /\ result = "ok"

\* The bytes c with v written at an offset: what lies between is a hole.
Put(c, offset, v) ==
  [i \in 1 .. IF Len(c) <= offset THEN offset + 1 ELSE Len(c) |->
     IF i = offset + 1 THEN v ELSE IF i <= Len(c) THEN c[i] ELSE Zero]

ByteAt(c, offset) == IF offset < Len(c) THEN c[offset + 1] ELSE "eof"

MoveTo(fd, offset) == opened' = [opened EXCEPT ![fd].offset = offset]

Open(fd, f, mode) ==
  /\ opened[fd] = None
  /\ (mode = "create") <=> (content[f] = None)
  /\ opened' = [opened EXCEPT ![fd] = [file |-> f, offset |-> 0,
                                       appends |-> mode = "append"]]
  /\ result' = "ok"
  /\ content' = [content EXCEPT ![f] =
                   IF mode \in {"create", "truncate"} THEN <<>> ELSE @]

Read(fd) ==
  /\ opened[fd] # None
  /\ LET at == opened[fd].offset
         byte == ByteAt(content[opened[fd].file], at)
     IN  /\ result' = byte
         /\ MoveTo(fd, IF byte = "eof" THEN at ELSE at + 1)
  /\ UNCHANGED content

\* Where a write on a descriptor goes, in a file of bytes c.
WriteOffset(c, appends, offset) == IF appends THEN Len(c) ELSE offset

Write(fd, v) ==
  /\ opened[fd] # None
  /\ result' = "ok"
  /\ LET f  == opened[fd].file
         at == WriteOffset(content[f], opened[fd].appends, opened[fd].offset)
     IN  /\ at < MaxLen
         /\ MoveTo(fd, at + 1)
         /\ content' = [content EXCEPT ![f] = Put(@, at, v)]

Seek(fd, offset) ==
  /\ opened[fd] # None
  /\ result' = "ok"
  /\ MoveTo(fd, offset)
  /\ UNCHANGED content

SeekEnd(fd) == opened[fd] # None /\ Seek(fd, Len(content[opened[fd].file]))

Sync(fd) == opened[fd] # None /\ result' = "ok" /\ UNCHANGED <<opened, content>>

Close(fd) ==
  /\ opened[fd] # None
  /\ result' = "ok"
  /\ opened' = [opened EXCEPT ![fd] = None]
  /\ UNCHANGED content

\* Any call may fail, and has then done nothing.
Fail == result' = "failed" /\ UNCHANGED <<opened, content>>

Next ==
  \/ \E fd \in Fds :
       \/ \E f \in Files, mode \in Modes : Open(fd, f, mode)
       \/ Read(fd) \/ \E v \in Values : Write(fd, v)
       \/ \E offset \in Offsets : Seek(fd, offset)
       \/ SeekEnd(fd) \/ Sync(fd) \/ Close(fd)
  \/ Fail

Spec == Init /\ [][Next]_fileVars
=============================================================================
