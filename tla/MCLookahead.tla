---------------------------- MODULE MCLookahead -----------------------------
(***************************************************************************)
(* The files of a directory for TLC.  SOURCE_PATH is /s, CACHE_PATH is /c; *)
(* /s/d lists the files 10 and 1, the directory 3 and 2, which is deleted  *)
(* before stat looks at it.  A spelling is /s and up to four characters,   *)
(* or a relative path below /s/d.                                          *)
(***************************************************************************)
EXTENDS LookaheadFiles

\* c, d and s.
Source == <<47, 115>>
Cache == <<47, 99>>
Directory == <<47, 115, 47, 100>>

InFolder ==
  << [name |-> <<49, 48>>, kind |-> "regular"],
     [name |-> <<51>>, kind |-> "directory"],
     [name |-> <<50>>, kind |-> "gone"],
     [name |-> <<49>>, kind |-> "regular"] >>

\* Words over /, 1, _ and d, and words over 0, 1, 2 and d.
Called ==
  {Source \o w : w \in UNION {[1..n -> {47, 49, 95, 100}] : n \in 0..4}}
    \cup {In(Directory, w) : w \in UNION {[1..n -> {48, 49, 50, 100}] : n \in 1..3}}
    \cup UNION {[1..n -> {49, 100}] : n \in 1..2}

\* Constants of Lookahead that TLC is to compute once.
MCFiles == FilesOfFolder
MCListing == ListingOfFolder
MCSorted == SortedFolder
=============================================================================
