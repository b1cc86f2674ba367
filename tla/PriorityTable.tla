---------------------------- MODULE PriorityTable ----------------------------
(***************************************************************************)
(* structures/internal/priority.c as it is put together: the heap of       *)
(* Priority, and the hash table of LookupTable that maps every item to the *)
(* cell with its heap index.  `index` of Priority is what is in the cells. *)
(***************************************************************************)
EXTENDS Priority

CONSTANTS
  Hash,   \* of the items: the sum of the characters of the path
  Buckets   \* the number of lists of the table

ASSUME TableAssumption == Hash \in [Items -> Int] /\ Buckets \in Nat \ {0}

VARIABLES
  entries,    \* the lists; the cell of an item is named by the item
  tableSize,  \* l_size
  found       \* what the last call of the table returned

Table == INSTANCE LookupTable WITH
  Keys <- Items, Values <- Items, Capacity <- Buckets, size <- tableSize, result <- found

table == <<entries, tableSize, found>>

TableInit == Init /\ Table!Init

\* insert_internal_priority of an item the table does not hold.
InsertFirst(d, s) ==
  /\ Table!Find(d) = 0
  /\ InsertNew(d, s) \/ InsertBeyond(d)
  /\ Table!Insert(d, d)

\* The same of an item it holds; the insertion that follows changes nothing.
InsertAgain(d, s) ==
  /\ Table!Find(d) # 0
  /\ Update(d, s)
  /\ Table!Insert(d, d)

\* update_internal_priority of an item the table holds; of another it does nothing.
UpdateFound(d, s) ==
  /\ Table!Find(d) # 0
  /\ Update(d, s)
  /\ Table!Retrieve(d)

\* The listener looks up both items of a swap, last the one that was at the root
\* or at the index.
RemoveRoot == Remove /\ Table!Retrieve(data[0])
Sift == (Up \/ Down) /\ Table!Retrieve(data[at])

\* The end of an operation; a removal takes the item out of the table.
FinishBoth ==
  /\ Finish
  /\ IF item = None THEN Table!Remove(returned) ELSE UNCHANGED table

TableNext ==
  \/ \E d \in Items, s \in Scores :
       InsertFirst(d, s) \/ InsertAgain(d, s) \/ UpdateFound(d, s)
  \/ RemoveRoot \/ (RemoveNone /\ UNCHANGED table)
  \/ Sift \/ FinishBoth

TableSpec == TableInit /\ [][TableNext]_<<vars, table>>

-----------------------------------------------------------------------------
(* Properties.                                                             *)

\* Heap and table are well formed, and the table holds exactly the items of the
\* heap: the listener of a swap finds a cell for both items.
TableAgrees ==
  /\ TypeOK
  /\ Table!TypeOK
  /\ pc # "overflow" =>
       \A d \in Items : Table!Find(d) # 0 <=> \E i \in Positions : data[i] = d

\* The hash table is a map, whatever the order of the lists.
TableIsMap == Table!Implements
=============================================================================
