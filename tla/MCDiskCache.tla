----------------------------- MODULE MCDiskCache ------------------------------
(***************************************************************************)
(* The instance the disk cache is checked with: block 0 is saved from a    *)
(* copy, the others through pointers, and the cache holds two of them.     *)
(***************************************************************************)
EXTENDS DiskCache

CONSTANTS h1, h2, v1, v2

Pointers == Permutations({h1, h2}) \cup Permutations({v1, v2})

(* A count that malloc left behind acts as a lock that is never given back,*)
(* of which the instance has one.                                          *)
MCFresh == [usage : {0}, dirty : BOOLEAN]

(* The hypothesis of the first theorems of StorageProofs holds here.       *)
ASSUME MCFewLocks == FewLocks
=============================================================================
