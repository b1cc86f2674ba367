----------------------------- MODULE MCPriority -----------------------------
(***************************************************************************)
(* PriorityTable for TLC: the items are interchangeable, so all of them    *)
(* are in one list of the table.                                           *)
(***************************************************************************)
EXTENDS PriorityTable, TLC

OneList == [d \in Items |-> 0 - 1]

ItemSymmetry == Permutations(Items)
=============================================================================
