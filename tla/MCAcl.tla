------------------------------- MODULE MCAcl --------------------------------
(***************************************************************************)
(* Small instances of Acl.  Each cfg binds the constants of the model to   *)
(* the definitions below.                                                  *)
(***************************************************************************)
EXTENDS AclProperties, TLC

CONSTANTS t1, t2, L, f1, f2, f3, f4, e1, e2, e3, i1, i2, i3

\* Capacity counts files ...
UnitSize == [f \in Files |-> 1]

\* ... or there are two files of which the cache holds both, one that needs
\* the whole cache, and one that is larger than the cache.
RisingSize == [f \in Files |-> CASE f = f3 -> 2 [] f = f4 -> 3 [] OTHER -> 1]

\* Every file has a copy of its own.
OwnPath == [f \in Files |-> f]

\* A strategy that enqueues the file that missed, and one that enqueues the
\* whole directory.
SelfWindow == [f \in Files |-> {f}]
AllWindow == [f \in Files |-> Files]

ReadCalls == {"open", "read", "close"}
SharedCalls == {"open", "open_foreign", "read", "close"}
WriteCalls == {"open", "read", "write", "sync", "close"}
ProgressCalls == {"open", "read", "write", "sync", "close", "advise"}

\* Addresses, inodes and threads are interchangeable, and so are the two files
\* of one size.
EntrySymmetry == Permutations(Entries) \cup Permutations(Inodes)
SizeSymmetry == EntrySymmetry \cup Permutations({f1, f2})
ThreadSymmetry == SizeSymmetry \cup Permutations(Threads)
=============================================================================
