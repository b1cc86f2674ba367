------------------------------- MODULE Blocks -------------------------------
(***************************************************************************)
(* Sets of file blocks.  One block stands for BLOCK_SIZE bytes of a file   *)
(* (utils/file.c), so an extent list (structures/internal/extent.c) is the *)
(* set of the blocks it covers: the list keeps its intervals disjoint and  *)
(* merges the ones that touch, so a maximal run of consecutive blocks of   *)
(* the set is exactly one interval of the list.                            *)
(***************************************************************************)
EXTENDS Integers

\* The least element of a nonempty set of blocks.
First(S) == CHOOSE m \in S : \A b \in S : m <= b

\* The interval pop_extent takes off the list: the one that starts lowest.
LowestRun(S) == {b \in S : \A c \in First(S) .. b : c \in S}

\* Mutant of CopiedByInterval: a `while` loop instead of do ... while.
CopiedByWhile(run) == {b \in run : b < 2 * First(run)}

(***************************************************************************)
(* What copy_file_interval copies of the interval `run`.  Its loop reads   *)
(* and writes one block, then goes on "while (bytes_total < start)": it    *)
(* compares the bytes copied so far with the START of the interval, not    *)
(* with its size, so it stops after one block or after `start` blocks,     *)
(* whichever is later, or when the interval is exhausted.                  *)
(***************************************************************************)
CopiedByInterval(run) ==
  LET start == First(run) IN {b \in run : b = start \/ b < 2 * start}

\* The same in bytes: the end of the last block of the given size that the loop
\* copies, if the interval and the file do not end before it.
CopiesUpTo(start, size) ==
  start + size * (IF start <= size THEN 1 ELSE (start + size - 1) \div size)

\* What a flush copies of the bytes S of a list: of each run, which is an interval
\* of the list, the bytes up to there, as far as the copy goes.
CopiedBack(S, length, size) ==
  {b \in S : /\ b < length
             /\ \E start \in S : /\ start - 1 \notin S
                                /\ start <= b /\ start .. b \subseteq S
                                /\ b < CopiesUpTo(start, size)}
=============================================================================
