----------------------------- MODULE DirtyBytes -----------------------------
(***************************************************************************)
(* What an extent list promises: it is the set of the bytes that were      *)
(* written and not yet written back.  pop hands them out one maximal run   *)
(* at a time, lowest first, and says -1 only when there are none.          *)
(***************************************************************************)
EXTENDS Blocks

CONSTANTS
  MaxOffset,  \* bound: the size of the file
  None        \* the result -1

Offsets == 0 .. MaxOffset

VARIABLES
  dirty,   \* the bytes
  popped   \* the interval the last pop returned, or None

dirtyVars == <<dirty, popped>>

\* The bytes of the interval from lower up to, not including, upper.
Bytes(lower, upper) == lower .. upper - 1

Init == dirty = {} /\ popped = None

Add(lower, upper) ==
  /\ dirty' = dirty \cup Bytes(lower, upper)
  /\ UNCHANGED popped

TakeRun ==
  /\ dirty # {}
  /\ dirty' = dirty \ LowestRun(dirty)
  /\ popped' \in Offsets \X Offsets
  /\ Bytes(popped'[1], popped'[2]) = LowestRun(dirty)

\* An interval without bytes, or of -1 bytes, may be handed out, too: a write of
\* no bytes, and one that failed.
NoBytes == {e \in Offsets \X Offsets : e[2] \in {e[1], e[1] - 1}}

TakeNothing ==
  /\ popped' \in NoBytes \cup (IF dirty = {} THEN {None} ELSE {})
  /\ UNCHANGED dirty

Next ==
  \/ \E lower, upper \in Offsets : lower <= upper + 1 /\ Add(lower, upper)
  \/ TakeRun \/ TakeNothing

Spec == Init /\ [][Next]_dirtyVars
=============================================================================
