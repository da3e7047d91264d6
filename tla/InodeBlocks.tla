----------------------------- MODULE InodeBlocks -----------------------------
(***************************************************************************)
(* The blocks of a file (fs/inode.c): the inode has the numbers of D data  *)
(* blocks, of a block with N numbers of data blocks, and of a block with N *)
(* numbers of such blocks; i_blocks counts all these blocks, and all that  *)
(* is known of the shape of the tree is computed from it.                  *)
(*                                                                         *)
(* One file grows and is emptied on a disk that it shares: other files may *)
(* leave it any number of blocks, none among them, at any moment.  The     *)
(* first free block is the one allocated; block 0 is never free, its       *)
(* number means none.                                                      *)
(***************************************************************************)
EXTENDS FiniteSetsExt, Integers, Sequences

CONSTANTS
  D,            (* L_DIRECT: 12                                            *)
  N,            (* numbers in a block: 512                                 *)
  LastBlock     (* bound: the data blocks of the disk are 1 .. LastBlock   *)

ASSUME BlocksAssumption ==
  D \in Nat \ {0} /\ N \in Nat \ {0, 1} /\ LastBlock \in Nat

VARIABLES
  inode,        (* i_blocks, and the array i_block                         *)
  content,      (* the numbers in a block, when it is read as an index     *)
  taken,        (* the bitmap, without the blocks of other files           *)
  added         (* history: the data blocks the file got, in order         *)

blockVars == <<inode, content, taken, added>>

Blocks  == 1 .. LastBlock
Entries == 0 .. N - 1
Zeroes  == [e \in Entries |-> 0]

(* The constants of inode.h: 525, 526 and 262668.                          *)
L_ONE_INDIRECT        == D + 1 + N
BASIC_DOUBLE_INDIRECT == D + N + 2
MAX_BLOCKS_FILE       == D + N + N * N

EmptyInode == [blocks |-> 0, block |-> [i \in 0 .. D + 1 |-> 0]]

BlocksInit ==
  /\ inode = EmptyInode
  /\ content = [b \in Blocks |-> Zeroes]
  /\ taken = {}
  /\ added = <<>>

-----------------------------------------------------------------------------
(* The file as a record F: what adding a block changes, in several steps.  *)
(* room: the blocks that the other files leave.                            *)
File(room) == [blocks |-> inode.blocks, block |-> inode.block,
               content |-> content, taken |-> taken, room |-> room]
Now == File(0)

(* get_data_block: 0 if the disk is full.  It fills the block with zeroes: *)
(* so what a free block holds makes no difference, and is not kept.        *)
NextFree(F) ==
  IF F.room = 0 \/ Blocks \subseteq F.taken THEN 0 ELSE Min(Blocks \ F.taken)

Take(F, b) ==
  [F EXCEPT !.taken = @ \cup {b}, !.content[b] = Zeroes, !.room = @ - 1]

Indirect(F) == F.block[D]
Double(F)   == F.block[D + 1]

(* The entries of the double block in use: those before the first 0.       *)
InUse(F) ==
  CHOOSE k \in 0 .. N :
    /\ \A e \in 0 .. k - 1 : F.content[Double(F)][e] # 0
    /\ k < N => F.content[Double(F)][k] = 0

(* Adding blk in each of the three parts, once the part has its index      *)
(* block.                                                                  *)
PutDirect(F, blk) ==
  [F EXCEPT !.block[F.blocks] = blk, !.blocks = @ + 1]

(* An error: the index block itself is not counted.                        *)
PutTooFar(F, blk) ==
  [F EXCEPT !.content[Indirect(F)][(F.blocks - D) % N] = blk, !.blocks = @ + 1]
PutIndirect(F, blk) ==
  [F EXCEPT !.content[Indirect(F)][(F.blocks - (D + 1)) % N] = blk,
            !.blocks = @ + 1]

CanUse(F) == (F.blocks - BASIC_DOUBLE_INDIRECT - InUse(F)) % N

PutDouble(F, blk, can) ==
  [F EXCEPT !.content[F.content[Double(F)][InUse(F) - 1]][can] = blk,
            !.blocks = @ + 1]

(* The index blocks, when the file has none for the next block.  F itself  *)
(* if the disk is full.                                                    *)
WithIndirect(F) ==
  LET b == NextFree(F) IN
  IF F.blocks # D \/ b = 0 THEN F
  ELSE [Take(F, b) EXCEPT !.block[D] = b, !.blocks = @ + 1]

WithDouble(F) ==
  LET b == NextFree(F) IN
  IF F.blocks # L_ONE_INDIRECT \/ b = 0 THEN F
  ELSE [Take(F, b) EXCEPT !.block[D + 1] = b, !.blocks = @ + 1]

WithIndirectOfDouble(F) ==
  LET b == NextFree(F) IN
  IF CanUse(F) # 0 \/ InUse(F) = N \/ b = 0 THEN F
  ELSE [Take(F, b) EXCEPT !.content[Double(F)][InUse(F)] = b, !.blocks = @ + 1]

(* add_data_block_inode, after it has taken blk: the result and whether it *)
(* is a success.  After a failure blk and the index blocks stay taken.     *)
Success(F) == [file |-> F, ok |-> TRUE]
Failure(F) == [file |-> F, ok |-> FALSE]

Added(F, blk) ==
  IF F.blocks < D THEN Success(PutDirect(F, blk))
  ELSE IF F.blocks < L_ONE_INDIRECT
  THEN LET G == WithIndirect(F) IN
       IF G.blocks = D THEN Failure(G) ELSE Success(PutIndirect(G, blk))
  ELSE LET G == WithDouble(F)
           H == WithIndirectOfDouble(G)
       IN IF G.blocks = L_ONE_INDIRECT \/ (CanUse(G) = 0 /\ H = G) THEN Failure(G)
          ELSE Success(PutDouble(H, blk, CanUse(G)))

-----------------------------------------------------------------------------
(* get_actual_blocks: the data blocks of the file.                         *)
ActualBlocks(F) ==
  IF F.blocks <= D THEN F.blocks
  ELSE IF F.blocks <= L_ONE_INDIRECT THEN F.blocks - 1
  ELSE F.blocks - InUse(F) - 2

(* get_inode_relative_block: the data block at the position r.             *)
Relative(F, r) ==
  IF r < D THEN F.block[r]
  ELSE IF r < N + D THEN F.content[Indirect(F)][r - D]
  ELSE LET d == r - (N + D) IN F.content[F.content[Double(F)][d \div N]][d % N]

(* free_inode_data: the blocks it frees, for each part of the file, and    *)
(* how many it has freed.  An error: the block of numbers is counted with  *)
(* the numbers.                                                            *)
DirectOf(F) == {F.block[i] : i \in 0 .. Min({F.blocks, D}) - 1}

OneMore(F) == IF F.blocks >= L_ONE_INDIRECT THEN N ELSE F.blocks - D
InIndirect(F) == IF F.blocks >= L_ONE_INDIRECT THEN N ELSE F.blocks - D - 1

IndirectOf(F) ==
  IF F.blocks <= D THEN {}
  ELSE {Indirect(F)} \cup {F.content[Indirect(F)][e] : e \in 0 .. InIndirect(F) - 1}

IndexesOf(F) == {F.content[Double(F)][k] : k \in 0 .. InUse(F) - 1}

DoubleOf(F) ==
  IF F.blocks <= L_ONE_INDIRECT THEN {}
  ELSE {Double(F)} \cup IndexesOf(F)
         \cup ((UNION {{F.content[b][e] : e \in Entries} : b \in IndexesOf(F)}) \ {0})

FreedBlocks(F) == DirectOf(F) \cup IndirectOf(F) \cup DoubleOf(F)

Freed(F) ==
  Cardinality(DirectOf(F)) + Cardinality(IndirectOf(F)) + Cardinality(DoubleOf(F))

-----------------------------------------------------------------------------
(* write adds blocks one by one to the file.  It takes three at most.      *)
AddDataBlock(room) ==
  LET F   == File(room)
      blk == NextFree(F)
      A   == Added(Take(F, blk), blk)
  IN /\ inode.blocks # MAX_BLOCKS_FILE /\ blk # 0
     /\ inode' = [blocks |-> A.file.blocks, block |-> A.file.block]
     /\ content' = A.file.content
     /\ taken' = A.file.taken
     /\ added' = IF A.ok THEN Append(added, blk) ELSE added

(* open with O_TRUNC, or the last unlink.  The inode keeps its blocks if   *)
(* their number is not i_blocks, or one of them is 0.                      *)
FreeInodeData ==
  LET freed == FreedBlocks(Now) IN
  /\ inode.blocks > 0
  /\ taken' = taken \ freed
  /\ content' = [b \in Blocks |-> IF b \in freed THEN Zeroes ELSE content[b]]
  /\ IF Freed(Now) = inode.blocks /\ 0 \notin freed
     THEN inode' = EmptyInode /\ added' = <<>>
     ELSE UNCHANGED <<inode, added>>

BlocksNext ==
  \/ \E room \in 0 .. 3 : AddDataBlock(room)
  \/ FreeInodeData

BlocksSpec == BlocksInit /\ [][BlocksNext]_blockVars

-----------------------------------------------------------------------------
(* Properties.                                                             *)

(* The data block read at a position of the file is the one that was added *)
(* at that position, across the borders of the three parts, and there are  *)
(* as many as get_actual_blocks says, also after additions that failed     *)
(* half-way because the disk was full.                                     *)
BlocksInOrder ==
  /\ ActualBlocks(Now) = Len(added)
  /\ \A r \in 1 .. Len(added) : Relative(Now, r - 1) = added[r]

(* Emptying the file frees as many blocks as i_blocks says, none twice:    *)
(* all its data blocks, and none that is free already.                     *)
(* It never stops at "freed_blocks != disk_blks" (inode.c:432).            *)
FreesItsOwn ==
  /\ Freed(Now) = inode.blocks
  /\ Cardinality(FreedBlocks(Now)) = inode.blocks
  /\ \A r \in 1 .. Len(added) : added[r] \in FreedBlocks(Now)
  /\ FreedBlocks(Now) \subseteq taken
=============================================================================
