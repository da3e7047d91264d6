------------------------------ MODULE MCMemory -------------------------------
(***************************************************************************)
(* The memory is checked with processes and names that are interchangeable.*)
(***************************************************************************)
EXTENDS Memory, TLC

CONSTANTS p1, p2, p3, k1, k2

Symmetry == Permutations({p1, p2, p3}) \cup Permutations({k1, k2})
=============================================================================
