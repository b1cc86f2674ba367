----------------------------- MODULE LeastScore -----------------------------
(***************************************************************************)
(* What structures/internal/priority.c promises: a table of scores that    *)
(* hands out an item of least score and forgets it.                        *)
(***************************************************************************)
EXTENDS Integers

CONSTANTS
  Items,     \* what is in the table: the cache entries
  MaxScore,  \* bound: scores are 0 .. MaxScore
  None       \* no score; nothing returned

VARIABLES
  score,    \* the score of every item in the table, None for the others
  returned  \* what the last removal returned

scoreVars == <<score, returned>>

Present == {d \in Items : score[d] # None}

Init == score = [d \in Items |-> None] /\ returned = None

\* insert_priority, and update_priority of an item that is in the table.
Set(d) ==
  /\ UNCHANGED returned
  /\ score'[d] \in 0 .. MaxScore
  /\ score' = [score EXCEPT ![d] = score'[d]]

\* remove_priority.
TakeLeast(d) ==
  /\ returned' = d
  /\ d \in Present
  /\ \A e \in Present : score[d] <= score[e]
  /\ score' = [score EXCEPT ![d] = None]

Next ==
  \E d \in Items : TakeLeast(d) \/ Set(d)

Spec == Init /\ [][Next]_scoreVars
=============================================================================
