------------------------------ MODULE DiskCache -------------------------------
(***************************************************************************)
(* The cache of disk blocks (fs/disk_buffer.c) and the code of fs/ that    *)
(* uses it: inode.c, ext2.c and fs_api.c hold pointers into its blocks     *)
(* from disk_read_block(b, LOCK) to unlock_cache or save_fs_block, and     *)
(* hold several of them at a time, each fetching its own.                  *)
(*                                                                         *)
(* A block's contents are one value; "mixed" is a disk block of which only *)
(* the first sectors were written, "garbage" what malloc left in a buffer  *)
(* that the disk did not fill.  cache is global_cache_buf, its head first, *)
(* and its length is nb_elements_cache.  written is what the file system   *)
(* has last put in each block: the code does not keep it.                  *)
(***************************************************************************)
EXTENDS Integers, Sequences, SequencesExt, FiniteSets, TLC

CONSTANTS
  PartBlocks,       (* get_partition_size, in blocks                       *)
  Copied,           (* blocks saved from a copy: superblock_loc and so on  *)
  Values,           (* contents of a block                                 *)
  MAX_CACHE_SIZE,
  UsageBits,        (* the width of usage                                  *)
  Fresh,            (* what malloc can leave in usage and dirty            *)
  Holders, NoBlock, (* the pointers into the cache the code can hold       *)
  MaxLeaks,         (* bound: locks never given back                       *)
  MaxFaults         (* bound: mallocs of the disk driver that fail         *)

(* Block PartBlocks is the first of the next partition: see Served.        *)
Blocks == 0 .. PartBlocks

Uses == {"reading", "changed"}

ASSUME CacheAssumption ==
  /\ PartBlocks \in Nat /\ Copied \subseteq Blocks
  /\ MAX_CACHE_SIZE \in Nat \ {0}
  /\ UsageBits \in Nat \ {0}
  /\ Fresh \subseteq [usage : 0 .. 2 ^ UsageBits - 1, dirty : BOOLEAN]
  /\ IsFiniteSet(Holders) /\ NoBlock \notin [blk : Blocks, use : Uses]
  /\ MaxLeaks \in Nat /\ MaxFaults \in Nat
  /\ {"mixed", "garbage"} \cap Values = {}

(* No element that malloc returns looks locked so often that the locks the *)
(* code can take at a time would wrap its usage.                           *)
FewLocks ==
  \A x \in Fresh : x.usage + Cardinality(Holders) + MaxLeaks + 1 < 2 ^ UsageBits

VARIABLES disk, cache, hold, written, leaks, faults, unread

cacheVars == <<disk, cache, hold, written, leaks, faults, unread>>

Elements == [blk : Blocks, data : Values \cup {"garbage"}, dirty : BOOLEAN,
             usage : 0 .. 2 ^ UsageBits - 1]

CacheTypeOK ==
  /\ disk \in [Blocks -> Values \cup {"mixed", "garbage"}]
  /\ cache \in Seq(Elements)
  /\ hold \in [Holders -> [blk : Blocks, use : Uses] \cup {NoBlock}]
  /\ written \in [Blocks -> Values]
  /\ leaks \in 0 .. MaxLeaks /\ faults \in 0 .. MaxFaults
  /\ unread \subseteq Blocks

CacheInit ==
  /\ disk \in [Blocks -> Values] /\ written = disk
  /\ cache = << >>
  /\ hold = [h \in Holders |-> NoBlock]
  /\ leaks = 0 /\ faults = 0 /\ unread = {}

(* look_up_c_elt: where the block is in the cache, or 0.                   *)
LookUp(c, b) == IF \E i \in DOMAIN c : c[i].blk = b
                THEN CHOOSE i \in DOMAIN c : c[i].blk = b
                ELSE 0

Cached(b) == LookUp(cache, b) # 0

Update(c, b, Op(_)) == [i \in DOMAIN c |-> IF c[i].blk = b THEN Op(c[i]) ELSE c[i]]

(* usage is unsigned: both wrap.  unlock_cache and unlock_using_address    *)
(* look at it first, write_block does not.                                 *)
(* An error: a locked block that is not marked as changed.                 *)
SetNothing(e) == e

Lock(e)    == [e EXCEPT !.usage = (@ + 1) % 2 ^ UsageBits]
Release(e) == [e EXCEPT !.usage = (@ - 1) % 2 ^ UsageBits]
Unlock(e)  == IF e.usage > 0 THEN Release(e) ELSE e

SetDirty(e) == [e EXCEPT !.dirty = TRUE]
SyncElt(e)  == [e EXCEPT !.dirty = FALSE]

(* What sync_elt leaves of a block on disk when the write of a sector      *)
(* fails: the sectors before it are written.                               *)
HalfWritten(b) == {disk[b], "mixed"}

-----------------------------------------------------------------------------
(* Two errors: locks are ignored; nothing is written back.                 *)
EvictedLocked(s) == 1 .. s - 1
WrittenBackNone(s) == {}

(* The places K, from the first to the last: the one way to number them so.*)
InOrder(K) ==
  {f \in [1 .. Cardinality(K) -> K] :
     /\ \A i, j \in DOMAIN f : i < j => f[i] < f[j]
     /\ \A k \in K : \E i \in DOMAIN f : f[i] = k}

(* free_cache_list, up to the element at place s whose write fails, or     *)
(* past the last one.  What was evicted before stays evicted.              *)
Stops == {Len(cache) + 1} \cup
         {i \in DOMAIN cache : cache[i].usage = 0 /\ cache[i].dirty /\ faults < MaxFaults}

Evicted(s) == {i \in 1 .. s - 1 : cache[i].usage = 0}

WrittenBack(s) == {cache[i].blk : i \in {j \in Evicted(s) : cache[j].dirty}}

Failed(s) == {cache[i].blk : i \in {s} \cap DOMAIN cache}

Left(s) == [Failed(s) -> UNION {HalfWritten(b) : b \in Failed(s)}]

After(s, kept, left) ==
  [cache  |-> [i \in DOMAIN kept |-> cache[kept[i]]],
   disk   |-> [b \in Blocks |-> IF b \in Failed(s) THEN left[b]
                                ELSE IF b \in WrittenBack(s)
                                THEN cache[LookUp(cache, b)].data
                                ELSE disk[b]],
   faults |-> faults + Cardinality(Failed(s))]

FreeCacheListTo(s) ==
  {After(s, kept, left) : kept \in InOrder(DOMAIN cache \ Evicted(s)), left \in Left(s)}

FreeCacheList == UNION {FreeCacheListTo(s) : s \in Stops}

Here == [cache |-> cache, disk |-> disk, faults |-> faults]

(* The error of a limit that is passed by one.                             *)
MakeRoomLate == IF Len(cache) > MAX_CACHE_SIZE THEN FreeCacheList ELSE {Here}

(* check_if_cache_is_full tests for equality.                              *)
MakeRoom == IF Len(cache) = MAX_CACHE_SIZE THEN FreeCacheList ELSE {Here}

(* The bound of fetch_block is exceeded only past the next block.          *)
Served(b) == b <= PartBlocks

(* fetch_block finds no memory for the element, or the block out of range, *)
(* or the driver has no memory and nothing is read, or it reads the block. *)
(* dirty and usage are what malloc left there.                             *)
NewElement(b, r, how, x) ==
  [blk |-> b, dirty |-> x.dirty, usage |-> x.usage,
   data |-> IF how = "read" THEN r.disk[b] ELSE "garbage"]

Fetched(b, r, how, x) ==
  [how    |-> how,
   disk   |-> r.disk,
   cache  |-> IF how = "none" THEN r.cache ELSE <<NewElement(b, r, how, x)>> \o r.cache,
   faults |-> IF how = "read" \/ ~ Served(b) THEN r.faults ELSE r.faults + 1]

Fetch(b) ==
  LET Hows == IF Served(b) THEN {"none", "unread", "read"} ELSE {"none"}
  IN {f \in {Fetched(b, r, how, x) : r \in MakeRoom, how \in Hows, x \in Fresh} :
        f.faults <= MaxFaults}

(* The element of the block, fetched when it is not in the cache.          *)
Get(b) ==
  IF Cached(b)
  THEN {[how |-> "cached", cache |-> cache, disk |-> disk, faults |-> faults]}
  ELSE Fetch(b)

(* What getting block b left, apart from the cache.                        *)
Got(b, f) == unread' = IF f.how = "unread" THEN unread \cup {b} ELSE unread

(* The end of write_block: write-through, which may fail.  No caller asks  *)
(* for write-back.                                                         *)
WriteThrough(b, c, d, n) ==
  \/ /\ cache' = Update(c, b, SyncElt)
     /\ disk' = [d EXCEPT ![b] = c[LookUp(c, b)].data]
     /\ faults' = n
  \/ /\ n < MaxFaults
     /\ cache' = Update(c, b, SetDirty)
     /\ \E x \in {d[b], "mixed"} : disk' = [d EXCEPT ![b] = x]
     /\ faults' = n + 1

-----------------------------------------------------------------------------
(* disk_read_block(b, LOCK), by code that reads the block, or changes it   *)
(* and saves it (inode.c).                                                 *)
Read(h, b) ==
  /\ hold[h] = NoBlock /\ b \notin Copied
  /\ \E f \in Get(b) :
       /\ Got(b, f)
       /\ disk' = f.disk /\ faults' = f.faults
       /\ cache' = Update(f.cache, b, Lock)
       /\ hold' = IF f.how = "none" THEN hold
                  ELSE [hold EXCEPT ![h] = [blk |-> b, use |-> "reading"]]
  /\ UNCHANGED <<written, leaks>>

(* A turn of the loop of write (fs_api.c): get_inode_relative_block locks  *)
(* the block and sets it dirty, write fills it and unlocks it by address.  *)
Write(b, v) ==
  /\ b \notin Copied
  /\ \E f \in Get(b) :
       /\ Got(b, f)
       /\ disk' = f.disk /\ faults' = f.faults
       /\ cache' = Update(f.cache, b,
                     LAMBDA e : Unlock([SetDirty(Lock(e)) EXCEPT !.data = v]))
       /\ written' = IF f.how = "none" THEN written ELSE [written EXCEPT ![b] = v]
  /\ UNCHANGED <<hold, leaks>>

(* The holder writes through its pointer.                                  *)
Change(h, v) ==
  /\ hold[h] # NoBlock
  /\ cache' = Update(cache, hold[h].blk, LAMBDA e : [e EXCEPT !.data = v])
  /\ written' = [written EXCEPT ![hold[h].blk] = v]
  /\ hold' = [hold EXCEPT ![h].use = "changed"]
  /\ UNCHANGED <<disk, leaks, faults, unread>>

(* save_fs_block of the block held, with its own data.                     *)
SaveHeld(h) ==
  /\ hold[h] # NoBlock /\ hold[h].use = "changed"
  /\ WriteThrough(hold[h].blk, Update(cache, hold[h].blk, Release), disk, faults)
  /\ hold' = [hold EXCEPT ![h] = NoBlock]
  /\ UNCHANGED <<written, leaks, unread>>

(* unlock_cache or unlock_using_address of a block that was only read.     *)
GiveBack(h) ==
  /\ hold[h] # NoBlock /\ hold[h].use = "reading"
  /\ cache' = Update(cache, hold[h].blk, Unlock)
  /\ hold' = [hold EXCEPT ![h] = NoBlock]
  /\ UNCHANGED <<disk, written, leaks, faults, unread>>

(* look_for_inode_dir returns what it found without unlocking the block.   *)
Leak(h) ==
  /\ hold[h] # NoBlock /\ hold[h].use = "reading"
  /\ leaks < MaxLeaks /\ leaks' = leaks + 1
  /\ hold' = [hold EXCEPT ![h] = NoBlock]
  /\ UNCHANGED <<disk, cache, written, faults, unread>>

(* save_super_block, save_blk_desc_table: the block is saved from a copy   *)
(* and unlocked, though nobody locked it.  When it cannot be fetched       *)
(* write_block reports success.                                            *)
SaveCopy(b, v) ==
  /\ b \in Copied
  /\ \E f \in Get(b) :
       /\ Got(b, f)
       /\ IF f.how = "none"
          THEN cache' = f.cache /\ disk' = f.disk /\ faults' = f.faults /\ UNCHANGED written
          ELSE /\ WriteThrough(b, Update(f.cache, b, LAMBDA e : Release([e EXCEPT !.data = v])),
                               f.disk, f.faults)
               /\ written' = [written EXCEPT ![b] = v]
  /\ UNCHANGED <<hold, leaks>>

(* config_super_block, load_and_print_superblock: read, copied, unlocked,  *)
(* or left locked when there is no memory for the copy.                    *)
Peek(b) ==
  /\ b \in Copied
  /\ \E f \in Get(b) :
       /\ Got(b, f)
       /\ disk' = f.disk
       /\ \/ cache' = Update(f.cache, b, LAMBDA e : Unlock(Lock(e))) /\ faults' = f.faults
          \/ /\ f.how # "none" /\ f.faults < MaxFaults
             /\ cache' = Update(f.cache, b, Lock) /\ faults' = f.faults + 1
  /\ UNCHANGED <<hold, written, leaks>>

(* Between two system calls nobody holds a block: sync_all and the system  *)
(* call for free_cache_list are calls of their own.                        *)
NobodyHolds == \A h \in Holders : hold[h] = NoBlock

(* sync: every dirty block, also after one has failed.                     *)
Sync ==
  /\ NobodyHolds
  /\ \E failed \in SUBSET {e.blk : e \in {x \in ToSet(cache) : x.dirty}} :
       /\ faults' = faults + Cardinality(failed) /\ faults' <= MaxFaults
       /\ cache' = [i \in DOMAIN cache |-> IF cache[i].blk \in failed THEN cache[i]
                                           ELSE SyncElt(cache[i])]
       /\ \E left \in [failed -> UNION {HalfWritten(b) : b \in failed}] :
            disk' = [b \in Blocks |->
                       IF b \in failed THEN left[b]
                       ELSE IF Cached(b) /\ cache[LookUp(cache, b)].dirty
                       THEN cache[LookUp(cache, b)].data ELSE disk[b]]
  /\ UNCHANGED <<hold, written, leaks, unread>>

FreeAll ==
  /\ NobodyHolds
  /\ \E r \in FreeCacheList : cache' = r.cache /\ disk' = r.disk /\ faults' = r.faults
  /\ UNCHANGED <<hold, written, leaks, unread>>

CacheNext ==
  \/ \E h \in Holders, b \in 0 .. PartBlocks + 1 : Read(h, b)
  \/ \E b \in Blocks, v \in Values : Write(b, v)
  \/ \E h \in Holders, v \in Values : Change(h, v)
  \/ \E h \in Holders : SaveHeld(h) \/ GiveBack(h) \/ Leak(h)
  \/ \E b \in Blocks : Peek(b) \/ \E v \in Values : SaveCopy(b, v)
  \/ Sync
  \/ FreeAll

CacheSpec == CacheInit /\ [][CacheNext]_cacheVars

-----------------------------------------------------------------------------
(* Whatever was evicted, saved, half written or fetched again in between,  *)
(* a block reads as what the file system last put there, unless the driver *)
(* once failed to read it (disk_buffer.c, fetch_block and free_cache_list).*)
(* No block is twice in the cache.                                         *)
ReadsSeeWrites ==
  /\ CacheTypeOK
  /\ \A i, j \in DOMAIN cache : cache[i].blk = cache[j].blk => i = j
  /\ \A b \in Blocks \ unread :
       written[b] = IF Cached(b) THEN cache[LookUp(cache, b)].data ELSE disk[b]

(* A clean block of the cache is on the disk, whole, except while the code *)
(* that will save it is changing it: a crash loses nothing that sync has   *)
(* reported written (sync_elt, write_block).                               *)
CleanMeansSaved ==
  \A e \in ToSet(cache) :
    \/ e.dirty \/ e.blk \in unread
    \/ \E h \in Holders : hold[h] # NoBlock /\ hold[h] = [blk |-> e.blk, use |-> "changed"]
    \/ disk[e.blk] = e.data

(* The block under a pointer that the code still holds is never evicted,   *)
(* however many blocks are fetched in the meantime, and it is counted once *)
(* for each of them (read_block_c, free_cache_list).                       *)
HeldStaysCached ==
  \A b \in Blocks :
    LET pointers == Cardinality({h \in Holders : hold[h] # NoBlock /\ hold[h].blk = b})
    IN pointers > 0 => Cached(b) /\ cache[LookUp(cache, b)].usage >= pointers

(* The cache grows past its limit only when each of its blocks is locked,  *)
(* or the write of a block to evict failed (check_if_cache_is_full).       *)
OverflowsOnlyLocked ==
  [][Len(cache) = MAX_CACHE_SIZE /\ Len(cache') > MAX_CACHE_SIZE
       => (\A e \in ToSet(cache) : e.usage # 0) \/ faults' > faults]_cacheVars
=============================================================================
