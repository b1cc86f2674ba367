------------------------------ MODULE Extents -------------------------------
(***************************************************************************)
(* The extent list of a cached file (structures/internal/extent.c): the    *)
(* intervals that were written, in a linked list sorted by offset.  The    *)
(* list is a sequence of pairs <<ee_lower, ee_upper>>; ee_upper is the     *)
(* offset after the last byte.                                             *)
(*                                                                         *)
(* Every caller holds ce_mutex and e_mutex, so nobody sees the list in the *)
(* middle of a push; push goes step by step here, one step for each turn   *)
(* of its two loops, because it is the loops that must be right.           *)
(***************************************************************************)
EXTENDS Integers, Sequences

CONSTANTS
  MaxOffset,  \* bound: the size of the file
  None        \* the result -1; no interval

ASSUME ExtentsAssumption == MaxOffset \in Nat

Offsets == 0 .. MaxOffset

Intervals == Offsets \X Offsets

VARIABLES
  list,    \* the linked list
  pc,      \* where push is: "idle", in its first loop or in its second loop
  new,     \* the interval that is pushed, or None
  at,      \* the position of `current` in the list
  popped   \* the interval the last pop returned, or None

vars == <<list, pc, new, at, popped>>

Init == list = <<>> /\ pc = "idle" /\ new = None /\ at = 1 /\ popped = None

Min2(a, b) == IF a < b THEN a ELSE b
Max2(a, b) == IF a > b THEN a ELSE b

-----------------------------------------------------------------------------
(* push_internal_extent.                                                   *)

\* acl_write pushes the offset of the write and the offset plus its result,
\* which may be 0, and is -1 for a write that failed.
PushBegin(lower, upper) ==
  /\ pc = "idle"
  /\ pc' = "scan"
  /\ new' = <<lower, upper>>
  /\ at' = 1
  /\ UNCHANGED <<list, popped>>

\* The first loop goes past the intervals that end below the new one.
Passes == at <= Len(list) /\ list[at][2] < new[1]

Scan ==
  /\ pc = "scan"
  /\ Passes
  /\ at' = at + 1
  /\ UNCHANGED <<list, pc, new, popped>>

\* Mutant: an interval that begins where the new one ends is not merged.
MeetsOverlapping == at <= Len(list) /\ list[at][1] < new[2]

\* The interval where the loop stopped begins early enough to be merged.
Meets == at <= Len(list) /\ list[at][1] <= new[2]

Merge ==
  /\ pc = "scan" /\ ~Passes
  /\ Meets
  /\ list' = [list EXCEPT ![at] = <<Min2(@[1], new[1]), Max2(@[2], new[2])>>]
  /\ pc' = "absorb"
  /\ UNCHANGED <<new, at, popped>>

Insert ==
  /\ pc = "scan" /\ ~Passes
  /\ ~Meets
  /\ list' = [i \in 1 .. Len(list) + 1 |->
                IF i < at THEN list[i] ELSE IF i = at THEN new ELSE list[i - 1]]
  /\ pc' = "idle" /\ new' = None /\ at' = 1
  /\ UNCHANGED popped

\* The interval after the merged one begins at or below its end.
Touches == at < Len(list) /\ list[at + 1][1] <= list[at][2]

\* Mutant: the merged interval ends where the absorbed one does.
EndOfNext(e, next) == next[2]

\* ee_upper after the absorption of the next interval.
EndOfBoth(e, next) == Max2(e[2], next[2])

Stays == at

Absorb ==
  /\ pc = "absorb"
  /\ Touches
  /\ list' = [i \in 1 .. Len(list) - 1 |->
                IF i < at THEN list[i]
                ELSE IF i = at THEN <<list[at][1], EndOfBoth(list[at], list[at + 1])>>
                ELSE list[i + 1]]
  /\ at' = Stays
  /\ UNCHANGED <<pc, new, popped>>

AbsorbDone ==
  /\ pc = "absorb"
  /\ ~Touches
  /\ pc' = "idle" /\ new' = None /\ at' = 1
  /\ UNCHANGED <<list, popped>>

-----------------------------------------------------------------------------
(* pop_internal_extent.                                                    *)

Pop ==
  /\ pc = "idle"
  /\ list # <<>>
  /\ popped' = Head(list)
  /\ list' = Tail(list)
  /\ UNCHANGED <<pc, new, at>>

PopNone ==
  /\ pc = "idle"
  /\ list = <<>>
  /\ popped' = None
  /\ UNCHANGED <<list, pc, new, at>>

-----------------------------------------------------------------------------
Next ==
  \/ \E lower, upper \in Offsets : lower <= upper + 1 /\ PushBegin(lower, upper)
  \/ Scan \/ Merge \/ Insert \/ Absorb \/ AbsorbDone
  \/ Pop \/ PopNone

Spec == Init /\ [][Next]_vars

-----------------------------------------------------------------------------
(* Properties.                                                             *)

\* The list holds intervals of the file, and `current` stays on it.
TypeOK ==
  /\ list \in Seq(Intervals)
  /\ pc \in {"idle", "scan", "absorb"}
  /\ IF pc = "idle" THEN new = None /\ at = 1
     ELSE new \in Intervals /\ at \in 1 .. Len(list) + 1
  /\ pc = "absorb" => at <= Len(list)
  /\ popped \in Intervals \cup {None}

\* The bytes the list covers.
Covered == UNION {list[i][1] .. list[i][2] - 1 : i \in 1 .. Len(list)}

\* The list implements the set of dirty bytes: a push adds its bytes and no
\* others, a pop returns the lowest maximal run, and -1 only if nothing is left.
Abstract == INSTANCE DirtyBytes WITH dirty <- Covered
Implements == Abstract!Spec
=============================================================================
