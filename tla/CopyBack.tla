------------------------------ MODULE CopyBack ------------------------------
(***************************************************************************)
(* What the writes to a copy and the flushes promise of the source: a      *)
(* flush copies the bytes that CopiedBack makes of the bytes that are      *)
(* listed when it begins, and no others, however many turns it takes.      *)
(***************************************************************************)
EXTENDS Blocks

CONSTANTS
  MaxOffset,  \* bound: the size of the file
  BlockSize   \* BLOCK_SIZE

Offsets == 0 .. MaxOffset

VARIABLES
  length,    \* the size of the copy
  dirty,     \* the bytes that are listed
  behind,    \* the bytes written to the copy and not yet to the source
  flushing,  \* is a flush under way?
  due        \* what it has yet to copy

copyVars == <<length, dirty, behind, flushing, due>>

Init ==
  /\ length \in Offsets
  /\ dirty = {} /\ behind = {}
  /\ flushing = FALSE /\ due = {}

Write(lower, upper) ==
  /\ ~flushing
  /\ dirty' = dirty \cup lower .. upper - 1
  /\ behind' = behind \cup lower .. upper - 1
  /\ length' = IF upper > lower /\ upper > length THEN upper ELSE length
  /\ UNCHANGED <<flushing, due>>

\* Nothing is left to copy; what is listed stays listed.
Truncate ==
  /\ length' = 0 /\ behind' = {} /\ due' = {}
  /\ UNCHANGED <<dirty, flushing>>

Begin ==
  /\ ~flushing /\ flushing' = TRUE
  /\ due' = CopiedBack(dirty, length, BlockSize)
  /\ dirty' = {}
  /\ UNCHANGED <<length, behind>>

Copy ==
  /\ flushing
  /\ due' \subseteq due
  /\ behind' = behind \ (due \ due')
  /\ UNCHANGED <<length, dirty, flushing>>

End ==
  /\ flushing /\ flushing' = FALSE
  /\ due = {}
  /\ UNCHANGED <<length, dirty, behind, due>>

Next ==
  \/ \E lower, upper \in Offsets : lower <= upper /\ Write(lower, upper)
  \/ Truncate \/ Begin \/ Copy \/ End

Spec == Init /\ [][Next]_copyVars
=============================================================================
