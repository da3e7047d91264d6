------------------------------- MODULE MCFiles -------------------------------
(***************************************************************************)
(* Open files are checked with processes, names and open files that are    *)
(* interchangeable.                                                        *)
(***************************************************************************)
EXTENDS Files, TLC

CONSTANTS p1, p2, a1, a2, i1, i2, f1, f2, f3

Symmetry ==
  Permutations(Procs) \cup Permutations(Names) \cup Permutations(Inodes)
    \cup Permutations(Flips)
=============================================================================
