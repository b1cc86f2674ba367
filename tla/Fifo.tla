-------------------------------- MODULE Fifo --------------------------------
(***************************************************************************)
(* What structures/queue.c promises: a bounded first-in first-out queue    *)
(* that never blocks.  An element that comes to a full queue is lost, and  *)
(* an empty queue hands out NULL.                                          *)
(***************************************************************************)
EXTENDS Integers, Sequences

CONSTANTS
  Items,     \* the pointers that are put on the queue
  Capacity,  \* how many it holds
  None       \* NULL

VARIABLES
  fifo,   \* the elements on the queue, oldest first
  item,   \* what the last dequeue returned
  lost    \* the elements that were dropped

fifoVars == <<fifo, item, lost>>

Init == fifo = <<>> /\ item = None /\ lost = {}

Put(x) ==
  /\ Len(fifo) < Capacity
  /\ fifo' = Append(fifo, x)
  /\ UNCHANGED <<item, lost>>

Drop(x) ==
  /\ Len(fifo) = Capacity
  /\ lost' = lost \cup {x}
  /\ UNCHANGED <<fifo, item>>

Take ==
  /\ fifo # <<>>
  /\ item' = Head(fifo)
  /\ fifo' = Tail(fifo)
  /\ UNCHANGED lost

Empty ==
  /\ fifo = <<>>
  /\ item' = None
  /\ UNCHANGED <<fifo, lost>>

Next == (\E x \in Items : Put(x) \/ Drop(x)) \/ Take \/ Empty

Spec == Init /\ [][Next]_fifoVars
=============================================================================
