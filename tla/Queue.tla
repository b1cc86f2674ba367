-------------------------------- MODULE Queue -------------------------------
(***************************************************************************)
(* structures/queue.c: a ring buffer under a mutex, with a semaphore that  *)
(* counts the elements.  The application threads enqueue, the lookahead    *)
(* thread alone dequeues.  (The second semaphore, `full`, is initialised   *)
(* and never used.)                                                        *)
(*                                                                         *)
(* dequeue waits on the semaphore before it takes the mutex, and enqueue   *)
(* posts it while it still holds the mutex: the semaphore, the size and    *)
(* the contents of the ring change at different times.                     *)
(***************************************************************************)
EXTENDS Integers, Sequences, FiniteSets

CONSTANTS
  Producers,  \* the threads that enqueue
  Items,      \* the pointers they put on the queue
  Capacity,   \* 4096 in the code
  None        \* NULL, and the contents of memory that was not written yet

Positions == 0 .. Capacity - 1

ASSUME QueueAssumption ==
  /\ Capacity \in Nat \ {0}
  /\ None \notin Items /\ None \notin Producers

VARIABLES
  data,         \* the ring
  front, back,  \* where the oldest element is, where the next one goes
  size,         \* how many elements there are
  empty,        \* the semaphore
  mutex,        \* its owner
  pc,           \* where each producer is in enqueue
  dpc,          \* where the lookahead thread is in dequeue
  item,         \* what the last dequeue returned
  lost          \* history: the elements that were dropped

ring == <<data, front, back, size>>
vars == <<ring, empty, mutex, pc, dpc, item, lost>>

Init ==
  /\ data = [i \in Positions |-> None]
  /\ front = 0 /\ back = 0 /\ size = 0
  /\ empty = 0
  /\ mutex = None
  /\ pc = [p \in Producers |-> "idle"]
  /\ dpc = "idle"
  /\ item = None
  /\ lost = {}

-----------------------------------------------------------------------------
(* enqueue.                                                                *)

\* Mutant: the index is not wrapped around at the end of the ring.
Unwrapped(i) == IF i < Capacity - 1 THEN i + 1 ELSE i

After(i) == (i + 1) % Capacity

\* Mutant: one element more than the ring has room for.
HasRoomPlusOne == size <= Capacity

HasRoom == size < Capacity

\* The mutex is taken and the element stored.
Store(p, x) ==
  /\ pc[p] = "idle"
  /\ mutex = None
  /\ HasRoom
  /\ mutex' = p
  /\ data' = [data EXCEPT ![back] = x]
  /\ back' = After(back)
  /\ size' = size + 1
  /\ pc' = [pc EXCEPT ![p] = "post"]
  /\ UNCHANGED <<front, empty, dpc, item, lost>>

\* The ring is full: the element is dropped.
Overflow(p, x) ==
  /\ pc[p] = "idle"
  /\ mutex = None
  /\ ~HasRoom
  /\ lost' = lost \cup {x}
  /\ UNCHANGED <<ring, empty, mutex, pc, dpc, item>>

\* Mutant: the semaphore is posted only for the first element.
PostIfFirst == empty' = IF size = 1 THEN empty + 1 ELSE empty

SemPost == empty' = empty + 1

\* sem_post, still under the mutex.
Post(p) ==
  /\ pc[p] = "post"
  /\ SemPost
  /\ pc' = [pc EXCEPT ![p] = "unlock"]
  /\ UNCHANGED <<ring, mutex, dpc, item, lost>>

Unlock(p) ==
  /\ pc[p] = "unlock"
  /\ mutex' = None
  /\ pc' = [pc EXCEPT ![p] = "idle"]
  /\ UNCHANGED <<ring, empty, dpc, item, lost>>

-----------------------------------------------------------------------------
(* dequeue.                                                                *)

\* sem_trywait finds the semaphore at zero: the call returns NULL.
NothingThere ==
  /\ dpc = "idle"
  /\ empty = 0
  /\ item' = None
  /\ UNCHANGED <<ring, empty, mutex, pc, dpc, lost>>

\* sem_trywait takes a token, before the mutex is taken ...
TryWait ==
  /\ dpc = "idle"
  /\ empty > 0
  /\ empty' = empty - 1
  /\ dpc' = "take"
  /\ UNCHANGED <<ring, mutex, pc, item, lost>>

\* ... under which the oldest element is taken off the ring.
TakeFront ==
  /\ dpc = "take"
  /\ mutex = None
  /\ item' = data[front]
  /\ front' = After(front)
  /\ size' = size - 1
  /\ dpc' = "idle"
  /\ UNCHANGED <<data, back, empty, mutex, pc, lost>>

-----------------------------------------------------------------------------
Enqueue(p) ==
  (\E x \in Items : Store(p, x) \/ Overflow(p, x)) \/ Post(p) \/ Unlock(p)

Dequeue == NothingThere \/ TryWait \/ TakeFront

Next == (\E p \in Producers : Enqueue(p)) \/ Dequeue

Spec == Init /\ [][Next]_vars

\* A producer that is in enqueue goes on; the lookahead thread polls.
FairSpec ==
  /\ Spec
  /\ \A p \in Producers : WF_vars(Post(p) \/ Unlock(p))
  /\ WF_vars(Dequeue)

-----------------------------------------------------------------------------
(* Properties.                                                             *)

\* Every variable holds a value of its type.
TypeOK ==
  /\ data \in [Positions -> Items \cup {None}]
  /\ front \in Positions /\ back \in Positions
  /\ size \in 0 .. Capacity
  /\ empty \in Nat
  /\ mutex \in Producers \cup {None}
  /\ pc \in [Producers -> {"idle", "post", "unlock"}]
  /\ dpc \in {"idle", "take"}
  /\ item \in Items \cup {None}
  /\ lost \subseteq Items

\* An element that is stored but not posted yet, a token that was taken but
\* whose element was not.
Posting == \E p \in Producers : pc[p] = "post"
Unposted == IF Posting THEN 1 ELSE 0
Claimed == IF dpc = "take" THEN 1 ELSE 0

\* The mutex is held exactly by the producer that is in the middle of enqueue.
MutexOwner == \A p \in Producers : mutex = p <=> pc[p] # "idle"

\* The three counts of elements agree at every point of both functions: the
\* indices of the ring, the size and the semaphore.
CountsAgree ==
  /\ size = empty + Unposted + Claimed
  /\ back = (front + size) % Capacity

\* The i-th element of the ring, oldest first.
Nth(i) == data[(front + i - 1) % Capacity]

\* The queue of Fifo: the elements that have been posted.
Contents == [i \in 1 .. size - Unposted |-> Nth(i)]

\* The ring implements the bounded queue: an enqueue takes effect when it posts
\* the semaphore, a dequeue when it takes the element.
Abstract == INSTANCE Fifo WITH fifo <- Contents
Implements == Abstract!Spec

\* What is on the queue is handed out, once the producers leave the mutex alone
\* (which an unfair mutex does not guarantee): no token of the semaphore is lost.
Drained ==
  <>[](mutex = None) =>
    \A x \in Items :
      (\E i \in 1 .. size - Unposted : Nth(i) = x) ~> item = x
=============================================================================
