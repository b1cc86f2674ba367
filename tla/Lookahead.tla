----------------------------- MODULE Lookahead ------------------------------
(***************************************************************************)
(* The lookahead thread (strategies/*.c) and its three queues.  A file     *)
(* that is advised goes to the high queue, a file that misses to the       *)
(* prefetch queue.  The thread inserts what is on the high queue, else     *)
(* what is on the low queue; when it found both empty it takes a file that *)
(* missed and puts files of its directory on the low queue.                *)
(*                                                                         *)
(* The four strategies differ in two bits: whether the listing is sorted,  *)
(* and whether all of it is taken or a window.  The calls of other threads *)
(* come between any two steps.  A queue is the one of Fifo.                *)
(***************************************************************************)
EXTENDS Integers, Sequences, SequencesExt

CONSTANTS
  Files,       \* the paths
  Listing,     \* the files of the directory in the order of readdir
  Sorted,      \* the same in natural order
  Sorts,       \* the strategy: fsdl and psdl sort, frdl and prdl do not;
  Windowed,    \* psdl and prdl take a window, fsdl and frdl all
  WindowSize,  \* 5
  Capacity,    \* of each queue, 4096
  None

ASSUME LookaheadAssumption ==
  /\ Listing \in Seq(Files) /\ Sorted \in Seq(Files)
  /\ ToSet(Listing) = ToSet(Sorted) /\ Len(Listing) = Len(Sorted)
  /\ Sorts \in BOOLEAN /\ Windowed \in BOOLEAN
  /\ WindowSize \in Nat \ {0} /\ Capacity \in Nat \ {0}
  /\ None \notin Files

VARIABLES
  high, low, prefetch,  \* the queues
  pc,                   \* which queue the thread looks at next, or what it does
  value,                \* the path it took
  batch,                \* what is still to be put on the low queue
  inserted,             \* the path of the last insert_cache
  requested,            \* history: what was advised or is in a window of a miss
  overtaken,            \* history: files taken off the low queue, while the high
                        \* one was not empty, since it was last looked at
  dropped               \* history: files that did not fit on the low queue

queues == <<high, low, prefetch>>
thread == <<pc, value, batch, inserted>>
history == <<requested, overtaken, dropped>>
vars == <<queues, thread, history>>

Init ==
  /\ high = <<>> /\ low = <<>> /\ prefetch = <<>>
  /\ pc = "high" /\ value = None /\ batch = <<>> /\ inserted = None
  /\ requested = {} /\ overtaken = 0 /\ dropped = {}

-----------------------------------------------------------------------------
(* The strategies.                                                         *)

\* The sequential search: the position of the file, or behind the end.
Search(order, f) ==
  IF f \in ToSet(order) THEN CHOOSE i \in DOMAIN order : order[i] = f
  ELSE Len(order) + 1

\* process_psdl searches the listing before it sorts it.
Batch(f) ==
  LET order == IF Sorts THEN Sorted ELSE Listing IN
  IF Windowed
  THEN LET first == Search(Listing, f) IN
       SubSeq(order, first, Min({first + WindowSize - 1, Len(order)}))
  ELSE order

Fits(queue) == Len(queue) < Capacity

-----------------------------------------------------------------------------
(* The calls of the application.                                           *)

\* acl_advise.  An element that does not fit is dropped.
Advise(f) ==
  /\ high' = IF Fits(high) THEN Append(high, f) ELSE high
  /\ requested' = requested \cup {f}
  /\ UNCHANGED <<low, prefetch, thread, overtaken, dropped>>

\* acl_read and acl_write of a file that is not cached.
Miss(f) ==
  /\ prefetch' = IF Fits(prefetch) THEN Append(prefetch, f) ELSE prefetch
  /\ requested' = requested \cup ToSet(Batch(f))
  /\ UNCHANGED <<high, low, thread, overtaken, dropped>>

-----------------------------------------------------------------------------
(* The thread.                                                             *)

\* Mutant: the queue of the misses is looked at before the low one.
MissesBeforeLow == "prefetch"

\* The queue the thread looks at when the high one is empty.
AfterHigh == "low"

\* Mutant: after an insertion the thread goes on with the low queue.
LowFirst == "low"

\* Where the loop begins again (continue).
Restart == "high"

DequeueHigh ==
  /\ pc = "high"
  /\ IF high # <<>>
     THEN value' = Head(high) /\ high' = Tail(high) /\ pc' = "insert"
     ELSE pc' = AfterHigh /\ UNCHANGED <<value, high>>
  /\ overtaken' = 0
  /\ UNCHANGED <<low, prefetch, batch, inserted, requested, dropped>>

DequeueLow ==
  /\ pc = "low"
  /\ IF low # <<>>
     THEN /\ value' = Head(low) /\ low' = Tail(low) /\ pc' = "insert"
          /\ overtaken' = IF high = <<>> THEN 0 ELSE overtaken + 1
     ELSE pc' = "prefetch" /\ UNCHANGED <<value, low, overtaken>>
  /\ UNCHANGED <<high, prefetch, batch, inserted, requested, dropped>>

DequeuePrefetch ==
  /\ pc = "prefetch"
  /\ IF prefetch # <<>>
     THEN /\ value' = Head(prefetch) /\ prefetch' = Tail(prefetch)
          /\ batch' = Batch(Head(prefetch))
          /\ pc' = "window"
     ELSE pc' = Restart /\ UNCHANGED <<value, prefetch, batch>>
  /\ UNCHANGED <<high, low, inserted, history>>

\* insert_cache (module Acl).
Insert ==
  /\ pc = "insert"
  /\ inserted' = value
  /\ value' = None
  /\ pc' = Restart
  /\ UNCHANGED <<queues, batch, history>>

\* Mutant: the entries are copied from the beginning of the listing.
FirstOfListing == Head(Listing)

\* The path that is copied and enqueued.
PathOfEntry == Head(batch)

\* One turn of the loop of process_*.
EnqueueLow ==
  /\ pc = "window" /\ batch # <<>>
  /\ IF Fits(low)
     THEN low' = Append(low, PathOfEntry) /\ UNCHANGED dropped
     ELSE dropped' = dropped \cup {PathOfEntry} /\ UNCHANGED low
  /\ batch' = Tail(batch)
  /\ UNCHANGED <<high, prefetch, pc, value, inserted, requested, overtaken>>

WindowDone ==
  /\ pc = "window" /\ batch = <<>>
  /\ value' = None
  /\ pc' = Restart
  /\ UNCHANGED <<queues, batch, inserted, history>>

-----------------------------------------------------------------------------
Calls == \E f \in Files : Advise(f) \/ Miss(f)

Thread ==
  \/ DequeueHigh \/ DequeueLow \/ DequeuePrefetch
  \/ Insert \/ EnqueueLow \/ WindowDone

Next == Calls \/ Thread

Spec == Init /\ [][Next]_vars

\* The thread polls its queues without end.
FairSpec == Spec /\ WF_vars(Thread)

-----------------------------------------------------------------------------
(* Properties.                                                             *)

\* Every variable holds a value of its type.
TypeOK ==
  /\ \A q \in {high, low, prefetch} : q \in Seq(Files) /\ Len(q) <= Capacity
  /\ pc \in {"high", "low", "prefetch", "insert", "window"}
  /\ value \in Files \cup {None}
  /\ pc \in {"insert", "window"} => value # None
  /\ batch \in Seq(Files)
  /\ inserted \in Files \cup {None}
  /\ requested \subseteq Files /\ dropped \subseteq Files
  /\ overtaken \in Nat

\* A file that is on the low queue goes before an advised one at most once: if
\* the advice comes when the thread has just found the high queue empty.
AdviceGoesFirst == overtaken <= 1

\* With a window that fits on the low queue nothing is ever dropped from it: the
\* thread alone fills it, and takes a miss only when it found it empty.
LowNeverDrops == dropped = {}

\* A file that missed is one of those that are requested for it.
MissRequestsItself ==
  pc = "window" /\ value \in ToSet(Listing) =>
    value \in ToSet(batch) \cup ToSet(low) \cup dropped

\* An advised file is inserted, whatever the other threads do.
AdviceServed == \A f \in Files : f \in ToSet(high) ~> inserted = f

\* The window of a miss is inserted, once the application is quiet: as long as
\* files are advised the thread does not look at the misses.
MissServed ==
  <>[][~Calls]_vars =>
    \A f \in Files : \A g \in ToSet(Batch(f)) : f \in ToSet(prefetch) ~> inserted = g

\* Queues and strategies implement the requests as Acl sees them.
Abstract == INSTANCE Requests WITH Window <- [f \in Files |-> ToSet(Batch(f))]
Implements == Abstract!Spec
=============================================================================
