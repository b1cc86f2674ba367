------------------------------ MODULE MCLayer -------------------------------
(***************************************************************************)
(* The instance of Layer that TLC checks.                                  *)
(***************************************************************************)
EXTENDS Layer, TLC

\* The numbers of descriptors are alike.
Symmetry == Permutations(Fds)
=============================================================================
