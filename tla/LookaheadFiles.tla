--------------------------- MODULE LookaheadFiles ---------------------------
(***************************************************************************)
(* The lookahead thread over the files of a directory: the listing and its *)
(* order come from the functions of utils/ (module Paths).  The cfg gives  *)
(* Listing and Sorted of Lookahead the values defined here.                *)
(***************************************************************************)
EXTENDS Lookahead

CONSTANTS
  SourcePath, CachePath, Cwd, LongMax,  \* those of Paths
  Folder,     \* the directory of the files
  Entries,    \* what it holds, as readdir returns it: [name, kind]
  Spellings   \* what the application may call a file

INSTANCE Paths

\* list_files(parent_path, ...)
ListingOfFolder == list_files(Folder, Entries)

\* qsort(..., compare_path)
SortedFolder ==
  SortSeq(ListingOfFolder, LAMBDA a, b : compare_path(a, b) < 0)

\* The files of the directory, and of the paths only these are called.
FilesOfFolder ==
  {In(Folder, Entries[i].name) : i \in {k \in DOMAIN Entries : Entries[k].kind # "directory"}}

-----------------------------------------------------------------------------
(* The natural order, as a reader would define it.                         *)

\* Where a token of a path begins: a number, or a character that is no digit.
Begins(path) ==
  {i \in DOMAIN path : i > 1 => ~(path[i] \in Digits /\ path[i - 1] \in Digits)}

\* The tokens before a position.
Before(path, i) == {k \in Begins(path) : k < i}

\* All numbers come where the digits are among the codes; the end comes first.
Token(path, i) ==
  IF i \notin DOMAIN path THEN <<0, 0>>
  ELSE IF path[i] \in Digits THEN <<Zero, Number(path, i)>>
  ELSE <<path[i], 0>>

Less(t, u) == t[1] < u[1] \/ (t[1] = u[1] /\ t[2] < u[2])

\* The positions of tokens that have equally many before them, the ends included.
Sides(a, b) ==
  {p \in (Begins(a) \cup {Len(a) + 1}) \X (Begins(b) \cup {Len(b) + 1}) :
     Cardinality(Before(a, p[1])) = Cardinality(Before(b, p[2]))}

\* The lexicographic order of the tokens.
Precedes(a, b) ==
  \E p \in Sides(a, b) :
    /\ Less(Token(a, p[1]), Token(b, p[2]))
    /\ \A q \in Sides(a, b) : q[1] < p[1] => Token(a, q[1]) = Token(b, q[2])

NaturallyCompared(f, g) ==
  /\ compare_path(f, g) < 0 <=> Precedes(f, g)
  /\ compare_path(f, g) > 0 <=> Precedes(g, f)

\* What is assumed of qsort: no element is greater than a later one.
ASSUME SortedAssumption ==
  \A i, j \in DOMAIN Sorted : i < j => compare_path(Sorted[i], Sorted[j]) <= 0

-----------------------------------------------------------------------------
(* Properties.                                                             *)

\* What is still to be inserted of the window the thread took, in this order.
Upcoming == low \o batch

\* Two files, of which a reader of the directory looks for the second one first.
Misplaced == {p \in FilesOfFolder \X FilesOfFolder : Precedes(p[2], p[1])}

\* With a strategy that sorts, the files come off the low queue in natural order:
\* the thread fills that queue with one piece of the sorted listing at a time, and
\* looks at the next miss only when the piece before is inserted.
NaturalOrder ==
  Sorts => \A i, j \in DOMAIN Upcoming :
             i < j => <<Upcoming[i], Upcoming[j]>> \notin Misplaced

\* The files whose copies lie in CACHE_PATH itself, and that share a copy with
\* another path only when an underscore is part of that path.
OwnCopies ==
  {f \in FilesOfFolder :
     /\ get_parent_path(get_cache_path(f)) = CachePath
     /\ \A p \in Spellings :
          get_cache_path(p) = get_cache_path(f) =>
            get_full_path(p) = f \/ Underscore \in ToSet(get_full_path(p))}

\* What is inserted gets a copy of its own (insert_cache): two spellings of a
\* file share it, two files do not, as long as no name holds an underscore.
CopiesSideBySide == inserted # None => inserted \in OwnCopies
=============================================================================
