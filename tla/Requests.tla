------------------------------ MODULE Requests ------------------------------
(***************************************************************************)
(* What the queues and the lookahead thread promise to the cache: only     *)
(* files that were advised, or that belong to the window of a file that    *)
(* missed, are inserted, in any order.  This is how Acl sees them.         *)
(***************************************************************************)
CONSTANTS
  Files,   \* the paths
  Window,  \* the files that are to be cached when a file misses
  None     \* nothing inserted yet

VARIABLES
  requested,  \* the files that may be inserted
  inserted    \* the file of the last insert_cache

requestVars == <<requested, inserted>>

Init == requested = {} /\ inserted = None

Miss(f) == requested' = requested \cup Window[f] /\ UNCHANGED inserted

Advise(f) == requested' = requested \cup {f} /\ UNCHANGED inserted

Insert(f) == f \in requested /\ inserted' = f /\ UNCHANGED requested

Next == \E f \in Files : Miss(f) \/ Advise(f) \/ Insert(f)

Spec == Init /\ [][Next]_requestVars
=============================================================================
