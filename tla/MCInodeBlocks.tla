---------------------------- MODULE MCInodeBlocks ----------------------------
(***************************************************************************)
(* A file of up to MAX_BLOCKS_FILE = 13 blocks, with one direct block and  *)
(* index blocks of three numbers, of which the block of double indirection *)
(* comes to use two.  Four blocks more can be lost in failures.            *)
(***************************************************************************)
EXTENDS InodeBlocks
=============================================================================
