------------------------------- MODULE Paths --------------------------------
(***************************************************************************)
(* The strings of utils/path.c and utils/directory.c.  A path is the       *)
(* sequence of its character codes: which two paths are told apart, and    *)
(* which comes first, is a matter of single characters here.               *)
(***************************************************************************)
EXTENDS Integers, Sequences, SequencesExt

CONSTANTS
  SourcePath,  \* SOURCE_PATH
  CachePath,   \* CACHE_PATH
  Cwd,         \* the working directory of the process
  LongMax,     \* LONG_MAX, where strtol stops
  None         \* NULL

Slash == 47
Underscore == 95
Zero == 48
Digits == Zero..57

\* The path of a name in a directory.
In(directory, name) == directory \o <<Slash>> \o name

\* The spelling of a path from the root; nothing else is normalised.
get_full_path(input) ==
  IF input # <<>> /\ Head(input) = Slash THEN input ELSE In(Cwd, input)

-----------------------------------------------------------------------------
(* The copy of a file.                                                     *)

\* Mutant: the copy has the last name of the path only.
LastName(rest) ==
  SubSeq(rest, Max({1} \cup {i \in DOMAIN rest : rest[i] = Slash}), Len(rest))

\* The name of a copy: behind its first character every slash is an underscore.
Flat(rest) ==
  [i \in DOMAIN rest |-> IF i > 1 /\ rest[i] = Slash THEN Underscore ELSE rest[i]]

\* A path that does not begin with SOURCE_PATH has no copy.
get_cache_path(input) ==
  LET path == get_full_path(input) IN
  IF IsPrefix(SourcePath, path)
  THEN CachePath \o Flat(SubSeq(path, Len(SourcePath) + 1, Len(path)))
  ELSE None

-----------------------------------------------------------------------------
(* The directory of a file.                                                *)

\* What is before the last slash.
get_parent_path(input) ==
  IF Slash \in ToSet(input)
  THEN SubSeq(input, 1, SelectLastInSeq(input, LAMBDA ch : ch = Slash) - 1)
  ELSE input

\* lstat follows no link.  An entry that is gone when it is looked at stays.
Listed(entry) == entry.kind \in {"regular", "gone"}

\* The paths of what readdir returns, in its order; the directory is one that opendir
\* opens.
list_files(directory, entries) ==
  LET add(files, entry) ==
        IF Listed(entry) THEN Append(files, In(directory, entry.name)) ELSE files
  IN FoldLeft(add, <<>>, entries)

-----------------------------------------------------------------------------
(* The natural order.                                                      *)

\* The character at a position; the terminating 0 behind the last one.
CharAt(s, i) == IF i \in DOMAIN s THEN s[i] ELSE 0

\* The first position, from i, that holds no digit: where strtol stops.
EndOfNumber(s, i) ==
  CHOOSE e \in i..(Len(s) + 1) :
    CharAt(s, e) \notin Digits /\ \A k \in i..(e - 1) : s[k] \in Digits

\* strtol
Number(s, i) ==
  LET upTo[e \in i..EndOfNumber(s, i)] ==
        IF e = i THEN 0 ELSE Min({LongMax, 10 * upTo[e - 1] + (s[e - 1] - Zero)})
  IN upTo[EndOfNumber(s, i)]

\* Mutant: digits are compared like all other characters.
NoDigits(c, d) == FALSE

BothDigits(c, d) == c \in Digits /\ d \in Digits

\* What the loop returns from a position in either path.
Compared(a, b) ==
  LET from[p \in (1..(Len(a) + 1)) \X (1..(Len(b) + 1))] ==
        LET i == p[1]            j == p[2]
            c == CharAt(a, i)    d == CharAt(b, j) IN
        IF c = 0 \/ d = 0 THEN c - d
        ELSE IF BothDigits(c, d)
        THEN IF Number(a, i) # Number(b, j) THEN Number(a, i) - Number(b, j)
             ELSE from[<<EndOfNumber(a, i), EndOfNumber(b, j)>>]
        ELSE IF c # d THEN c - d ELSE from[<<i + 1, j + 1>>]
  IN from

\* Negative, zero or positive, as qsort wants it: numbers are compared by value,
\* other characters by code.
compare_path(a, b) == Compared(a, b)[<<1, 1>>]
=============================================================================
