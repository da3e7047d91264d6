--------------------------- MODULE StorageProofs ----------------------------
(***************************************************************************)
(* What is kept of the storage the processes share: in the first part the  *)
(* cache of disk blocks, in the second the physical frames and the pages   *)
(* shared by name.  The parts rest on nothing of each other.               *)
(***************************************************************************)
EXTENDS DiskCache, Memory, FiniteSetTheorems, FunctionTheorems, TLAPS

(***************************************************************************)
(* What the cache of disk blocks keeps, for a partition, a cache and a     *)
(* number of pointers of any size, and whatever malloc leaves in usage and *)
(* dirty, as long as no count of locks comes close to its width: FewLocks. *)
(* Without it a lock taken on a new element whose usage malloc left at     *)
(* 2 ^ UsageBits - 1 makes it an unused one (disk_buffer.c, read_block_c). *)
(*                                                                         *)
(* CacheInv is the inductive invariant, stated of a cache c, a disk d,     *)
(* pointers h, contents w, unread blocks u and a number of leaks l, so     *)
(* that it can be said of the state in the middle of a call, after         *)
(* free_cache_list has made room and before the new block is locked.       *)
(***************************************************************************)
(* The pointers into block b, and whether one of them has changed it.      *)
PointersTo(h, b) == {p \in Holders : h[p] # NoBlock /\ h[p].blk = b}

ChangedIn(h, b) ==
  \E p \in Holders : h[p] # NoBlock /\ h[p] = [blk |-> b, use |-> "changed"]

In(c, b) == \E i \in DOMAIN c : c[i].blk = b

Typed(c, d, h, w, u, l) ==
  /\ c \in Seq(Elements)
  /\ d \in [Blocks -> Values \cup {"mixed", "garbage"}]
  /\ h \in [Holders -> [blk : Blocks, use : Uses] \cup {NoBlock}]
  /\ w \in [Blocks -> Values]
  /\ u \subseteq Blocks
  /\ l \in 0 .. MaxLeaks

(* No block is twice in the cache, ...                                     *)
Once(c) == \A i, j \in DOMAIN c : c[i].blk = c[j].blk => i = j

(* ... it has the last contents there, or on the disk, ...                 *)
Latest(c, d, w, u) ==
  /\ \A i \in DOMAIN c : c[i].blk \notin u => w[c[i].blk] = c[i].data
  /\ \A b \in Blocks \ u : ~ In(c, b) => w[b] = d[b]

(* ... it is on the disk unless it is dirty or about to be saved, ...      *)
Saved(c, d, h, u) ==
  \A i \in DOMAIN c :
    c[i].dirty \/ c[i].blk \in u \/ ChangedIn(h, c[i].blk) \/ d[c[i].blk] = c[i].data

(* ... and when it is half written there, it is dirty, so that it will be  *)
(* written again before it can be evicted and read back.                   *)
Whole(c, d) ==
  \A b \in Blocks : d[b] = "mixed" => \E i \in DOMAIN c : c[i].blk = b /\ c[i].dirty

(* A block's usage counts its p pointers, and beyond them at most what     *)
(* malloc left and the l locks that were leaked.                           *)
UsageFits(n, p, l) == n >= p /\ \E x \in Fresh : n <= x.usage + p + l

(* Blocks saved from a copy are outside: they are unlocked though nobody   *)
(* locked them, their usage wraps, and no pointer is ever kept to them.    *)
Locked(c, h, l) ==
  /\ \A p \in Holders : h[p] # NoBlock => h[p].blk \notin Copied /\ In(c, h[p].blk)
  /\ \A i \in DOMAIN c :
       c[i].blk \notin Copied =>
         UsageFits(c[i].usage, Cardinality(PointersTo(h, c[i].blk)), l)

Coherent(c, d, h, w, u, l) ==
  /\ Typed(c, d, h, w, u, l)
  /\ Once(c)
  /\ Latest(c, d, w, u)
  /\ Saved(c, d, h, u)
  /\ Whole(c, d)
  /\ Locked(c, h, l)

CacheInv ==
  /\ Coherent(cache, disk, hold, written, unread, leaks)
  /\ faults \in 0 .. MaxFaults

-----------------------------------------------------------------------------
LEMMA UsageType == 2 ^ UsageBits \in Nat \ {0}
<1> DEFINE bits == 1 .. UsageBits
<1>1. IsFiniteSet(bits) /\ Cardinality(bits) = UsageBits
  BY FS_Interval, CacheAssumption
<1>2. IsFiniteSet(SUBSET bits) /\ Cardinality(SUBSET bits) = 2 ^ UsageBits
  BY <1>1, FS_SUBSET
<1>3. SUBSET bits # {}
  OBVIOUS
<1> QED BY <1>2, <1>3, FS_CardinalityType, FS_EmptySet

LEMMA FirstNumbers ==
  ASSUME NEW n \in Nat
  PROVE  IsFiniteSet(1 .. n) /\ Cardinality(1 .. n) = n
BY FS_Interval

LEMMA ElementType ==
  ASSUME NEW c \in Seq(Elements), NEW i \in DOMAIN c
  PROVE  /\ c[i] \in Elements /\ c[i].blk \in Blocks /\ c[i].dirty \in BOOLEAN
         /\ c[i].usage \in Nat /\ c[i].usage < 2 ^ UsageBits
         /\ c[i].data \in Values \cup {"garbage"}
<1>1. c[i] \in Elements
  OBVIOUS
<1> QED BY <1>1, UsageType DEF Elements

LEMMA PointersFinite ==
  ASSUME NEW h, NEW b
  PROVE  /\ IsFiniteSet(PointersTo(h, b))
         /\ Cardinality(PointersTo(h, b)) \in Nat
         /\ Cardinality(PointersTo(h, b)) <= Cardinality(Holders)
         /\ Cardinality(PointersTo(h, b)) = 0 <=> PointersTo(h, b) = {}
<1>1. PointersTo(h, b) \in SUBSET Holders
  BY DEF PointersTo
<1>2. /\ IsFiniteSet(PointersTo(h, b))
      /\ Cardinality(PointersTo(h, b)) <= Cardinality(Holders)
  BY <1>1, FS_Subset, CacheAssumption
<1> QED BY <1>2, FS_CardinalityType, FS_EmptySet

LEMMA LookUpFinds ==
  ASSUME NEW c, DOMAIN c \subseteq Nat \ {0}, Once(c), NEW b
  PROVE  /\ LookUp(c, b) # 0 <=> In(c, b)
         /\ \A i \in DOMAIN c : c[i].blk = b => LookUp(c, b) = i
         /\ In(c, b) => LookUp(c, b) \in DOMAIN c /\ c[LookUp(c, b)].blk = b
<1>1. CASE In(c, b)
  <2>1. PICK i \in DOMAIN c : c[i].blk = b
    BY <1>1 DEF In
  <2>2. LookUp(c, b) = CHOOSE j \in DOMAIN c : c[j].blk = b
    BY <2>1 DEF LookUp
  <2>3. LookUp(c, b) \in DOMAIN c /\ c[LookUp(c, b)].blk = b
    BY <2>1, <2>2
  <2> QED BY <1>1, <2>1, <2>3 DEF Once
<1>2. CASE ~ In(c, b)
  BY <1>2 DEF In, LookUp
<1> QED BY <1>1, <1>2

(* The elements of block b are changed, and nothing else is.               *)
LEMMA OneBlockChanges ==
  ASSUME NEW c, NEW d, NEW h, NEW w, NEW u, NEW l, Coherent(c, d, h, w, u, l),
         NEW b \in Blocks, NEW c2, NEW d2, NEW h2, NEW w2, NEW l2,
         Typed(c2, d2, h2, w2, u, l2), l <= l2,
         DOMAIN c2 = DOMAIN c,
         \A i \in DOMAIN c : c2[i].blk = c[i].blk /\ (c[i].blk # b => c2[i] = c[i]),
         \A x \in Blocks \ {b} : d2[x] = d[x] /\ w2[x] = w[x],
         \A p \in Holders : h2[p] # NoBlock /\ h2[p].blk # b <=> h[p] # NoBlock /\ h[p].blk # b,
         \A p \in Holders : h[p] # NoBlock /\ h[p].blk # b => h2[p] = h[p],
         (\E p \in Holders : h2[p] # NoBlock /\ h2[p].blk = b) => b \notin Copied /\ In(c, b),
         In(c, b) \/ (d2[b] = d[b] /\ w2[b] = w[b]),
         \A i \in DOMAIN c : c[i].blk = b =>
           /\ b \in u \/ w2[b] = c2[i].data
           /\ d2[b] = "mixed" => c2[i].dirty
           /\ c2[i].dirty \/ b \in u \/ ChangedIn(h2, b) \/ d2[b] = c2[i].data
           /\ b \notin Copied =>
                UsageFits(c2[i].usage, Cardinality(PointersTo(h2, b)), l2)
  PROVE  Coherent(c2, d2, h2, w2, u, l2)
<1> USE DEF In
<1>1. Once(c2)
  BY DEF Once, Coherent
<1>2. \A x : In(c2, x) <=> In(c, x)
  OBVIOUS
<1>3. Latest(c2, d2, w2, u)
  <2>1. ASSUME NEW i \in DOMAIN c2, c2[i].blk \notin u
        PROVE  w2[c2[i].blk] = c2[i].data
    <3>1. c2[i].blk \in Blocks
      BY ElementType DEF Typed
    <3> QED BY <3>1, <2>1 DEF Coherent, Latest
  <2>2. ASSUME NEW x \in Blocks \ u, ~ In(c2, x)
        PROVE  w2[x] = d2[x]
    BY <1>2, <2>2 DEF Coherent, Latest
  <2> QED BY <2>1, <2>2 DEF Latest
<1>4. Saved(c2, d2, h2, u)
  <2> SUFFICES ASSUME NEW i \in DOMAIN c2
               PROVE  \/ c2[i].dirty \/ c2[i].blk \in u
                      \/ ChangedIn(h2, c2[i].blk) \/ d2[c2[i].blk] = c2[i].data
    BY DEF Saved
  <2>1. c2[i].blk \in Blocks
    BY ElementType DEF Typed
  <2>2. CASE c[i].blk = b
    BY <2>2
  <2>3. CASE c[i].blk # b
    <3>1. ChangedIn(h, c[i].blk) => ChangedIn(h2, c[i].blk)
      BY <2>3 DEF ChangedIn
    <3> QED BY <2>1, <2>3, <3>1 DEF Coherent, Saved
  <2> QED BY <2>2, <2>3
<1>5. Locked(c2, h2, l2)
  <2>1. ASSUME NEW p \in Holders, h2[p] # NoBlock
        PROVE  h2[p].blk \notin Copied /\ In(c2, h2[p].blk)
    BY <1>2, <2>1 DEF Coherent, Locked
  <2>2. ASSUME NEW i \in DOMAIN c2, c2[i].blk \notin Copied
        PROVE  UsageFits(c2[i].usage, Cardinality(PointersTo(h2, c2[i].blk)), l2)
    <3>1. CASE c[i].blk = b
      BY <2>2, <3>1
    <3>2. CASE c[i].blk # b
      <4>1. PointersTo(h2, c[i].blk) = PointersTo(h, c[i].blk)
        BY <3>2 DEF PointersTo
      <4>2. UsageFits(c[i].usage, Cardinality(PointersTo(h, c[i].blk)), l)
        BY <2>2 DEF Coherent, Locked
      <4>3. l \in Int /\ l2 \in Int /\ \A x \in Fresh : x.usage \in Int
        BY CacheAssumption, UsageType DEF Coherent, Typed
      <4>4. Cardinality(PointersTo(h, c[i].blk)) \in Nat /\ c[i].usage \in Int
        BY PointersFinite, ElementType DEF Coherent, Typed
      <4> QED BY <3>2, <4>1, <4>2, <4>3, <4>4 DEF UsageFits
    <3> QED BY <3>1, <3>2
  <2> QED BY <2>1, <2>2 DEF Locked
<1>6. Whole(c2, d2)
  <2> SUFFICES ASSUME NEW x \in Blocks, d2[x] = "mixed"
               PROVE  \E i \in DOMAIN c2 : c2[i].blk = x /\ c2[i].dirty
    BY DEF Whole
  <2>1. CASE x # b
    <3>1. PICK i \in DOMAIN c : c[i].blk = x /\ c[i].dirty
      BY <2>1 DEF Coherent, Whole
    <3> QED BY <2>1, <3>1
  <2>2. CASE x = b
    <3>1. In(c, b)
      <4>1. CASE ~ In(c, b)
        <5>1. d[b] = "mixed"
          BY <2>2, <4>1
        <5> QED BY <5>1 DEF Coherent, Whole
      <4> QED BY <4>1
    <3> QED BY <2>2, <3>1
  <2> QED BY <2>1, <2>2
<1> QED BY <1>1, <1>3, <1>4, <1>5, <1>6 DEF Coherent

-----------------------------------------------------------------------------
(* free_cache_list.                                                        *)
LEMMA UnusedIsNotHeld ==
  ASSUME CacheInv, NEW i \in DOMAIN cache, cache[i].usage = 0
  PROVE  /\ \A p \in Holders : hold[p] # NoBlock => hold[p].blk # cache[i].blk
         /\ cache[i].dirty \/ cache[i].blk \in unread
            \/ disk[cache[i].blk] = cache[i].data
<1>1. ASSUME NEW p \in Holders, hold[p] # NoBlock, hold[p].blk = cache[i].blk
      PROVE  FALSE
  <2>1. cache[i].blk \notin Copied
    BY <1>1 DEF CacheInv, Coherent, Locked
  <2>2. 0 >= Cardinality(PointersTo(hold, cache[i].blk))
    BY <2>1 DEF CacheInv, Coherent, Locked, UsageFits
  <2>3. PointersTo(hold, cache[i].blk) # {}
    BY <1>1 DEF PointersTo
  <2> QED BY <2>2, <2>3, PointersFinite
<1>2. ~ ChangedIn(hold, cache[i].blk)
  BY <1>1 DEF ChangedIn
<1> QED BY <1>1, <1>2 DEF CacheInv, Coherent, Saved

LEMMA EvictsOnlyUnused ==
  ASSUME CacheInv, NEW s \in Stops,
         NEW kept \in InOrder(DOMAIN cache \ Evicted(s))
  PROVE  LET c == [i \in DOMAIN kept |-> cache[kept[i]]]
         IN  /\ c \in Seq(Elements)
             /\ DOMAIN c = DOMAIN kept
             /\ DOMAIN kept = 1 .. Cardinality(DOMAIN cache \ Evicted(s))
             /\ \A i \in DOMAIN c : kept[i] \in DOMAIN cache \ Evicted(s)
             /\ \A k \in DOMAIN cache \ Evicted(s) : \E i \in DOMAIN kept : kept[i] = k
             /\ Once(c)
             /\ Len(c) = Cardinality(DOMAIN cache \ Evicted(s))
<1> DEFINE K == DOMAIN cache \ Evicted(s)
           c == [i \in DOMAIN kept |-> cache[kept[i]]]
<1>1. cache \in Seq(Elements) /\ DOMAIN cache = 1 .. Len(cache) /\ Len(cache) \in Nat
  BY DEF CacheInv, Coherent, Typed
<1>2. IsFiniteSet(1 .. Len(cache)) /\ K \in SUBSET (1 .. Len(cache))
  BY <1>1, FS_Interval
<1>3. Cardinality(K) \in Nat
  BY <1>2, FS_Subset, FS_CardinalityType
<1>4. /\ kept \in [1 .. Cardinality(K) -> K]
      /\ \A i, j \in DOMAIN kept : i < j => kept[i] < kept[j]
      /\ \A k \in K : \E i \in DOMAIN kept : kept[i] = k
  BY DEF InOrder
<1>5. \A i \in DOMAIN kept :
        kept[i] \in DOMAIN cache /\ c[i] = cache[kept[i]] /\ cache[kept[i]] \in Elements
  <2>1. \A i \in DOMAIN cache : cache[i] \in Elements
    BY <1>1
  <2> QED BY <2>1, <1>4
<1>6. c \in Seq(Elements) /\ Len(c) = Cardinality(K)
  <2>1. DOMAIN kept = 1 .. Cardinality(K)
    BY <1>4
  <2> HIDE DEF K
  <2>2. c \in [1 .. Cardinality(K) -> Elements]
    BY <2>1, <1>5
  <2> QED BY <2>2, <1>3
<1>7. Once(c)
  <2> SUFFICES ASSUME NEW i \in DOMAIN c, NEW j \in DOMAIN c, c[i].blk = c[j].blk
               PROVE  i = j
    BY DEF Once
  <2>1. kept[i] = kept[j]
    BY <1>5 DEF CacheInv, Coherent, Once
  <2>2. i \in DOMAIN kept /\ j \in DOMAIN kept
    OBVIOUS
  <2>3. kept[i] \in Int /\ kept[j] \in Int
    BY <2>2, <1>1, <1>5
  <2> HIDE DEF K
  <2>4. i \in Int /\ j \in Int
    BY <2>2, <1>3, <1>4
  <2> QED BY <2>1, <2>2, <2>3, <2>4, <1>4
<1> QED BY <1>4, <1>6, <1>7

LEMMA FreeCacheListKeeps ==
  ASSUME CacheInv, NEW r \in FreeCacheList
  PROVE  /\ Coherent(r.cache, r.disk, hold, written, unread, leaks)
         /\ r.faults \in 0 .. MaxFaults /\ r.faults >= faults
         /\ \A b : In(r.cache, b) => In(cache, b)
         /\ \/ r.faults > faults
            \/ \A e \in ToSet(cache) : e.usage # 0
            \/ Len(r.cache) < Len(cache)
<1>1. PICK s \in Stops : r \in FreeCacheListTo(s)
  BY DEF FreeCacheList
<1> DEFINE failed == Failed(s)
           K == DOMAIN cache \ Evicted(s)
<1>2. PICK kept \in InOrder(K), left \in Left(s) : r = After(s, kept, left)
  BY <1>1 DEF FreeCacheListTo
<1> DEFINE c == r.cache
<1>20. /\ r.cache = [i \in DOMAIN kept |-> cache[kept[i]]]
       /\ r.disk = [b \in Blocks |-> IF b \in failed THEN left[b]
                                     ELSE IF b \in WrittenBack(s)
                                     THEN cache[LookUp(cache, b)].data
                                     ELSE disk[b]]
       /\ r.faults = faults + Cardinality(failed)
       /\ left \in [failed -> UNION {HalfWritten(b) : b \in failed}]
  BY <1>2 DEF After, Left
<1>3. /\ cache \in Seq(Elements) /\ DOMAIN cache = 1 .. Len(cache) /\ Len(cache) \in Nat
      /\ Once(cache)
      /\ faults \in 0 .. MaxFaults /\ MaxFaults \in Nat
  BY CacheAssumption DEF CacheInv, Coherent, Typed
<1>4. /\ c \in Seq(Elements) /\ DOMAIN c = DOMAIN kept
      /\ \A i \in DOMAIN c : kept[i] \in K /\ c[i] = cache[kept[i]]
      /\ \A k \in K : \E i \in DOMAIN c : kept[i] = k
      /\ Once(c) /\ Len(c) = Cardinality(K)
  <2>1. r.cache = [i \in DOMAIN kept |-> cache[kept[i]]]
    BY <1>20
  <2> HIDE DEF failed
  <2> QED BY <2>1, EvictsOnlyUnused
<1>5. \A i \in Evicted(s) : i \in DOMAIN cache /\ cache[i].usage = 0 /\ i # s
  <2>1. s \in 1 .. Len(cache) + 1
    BY <1>3 DEF Stops
  <2> QED BY <2>1, <1>3 DEF Evicted
<1>6. s \in DOMAIN cache => s \in K /\ cache[s].dirty /\ faults < MaxFaults
  BY <1>3, <1>5 DEF Stops
<1>7. \A i \in DOMAIN cache : /\ cache[i].blk \in failed <=> i = s
                              /\ cache[i].blk \in WrittenBack(s) <=> i \in Evicted(s) /\ cache[i].dirty
                              /\ LookUp(cache, cache[i].blk) = i
  <2>1. \A i \in DOMAIN cache : LookUp(cache, cache[i].blk) = i
    BY <1>3, LookUpFinds
  <2>2. \A i \in DOMAIN cache : cache[i].blk \in failed <=> i = s
    BY <1>3, Zenon DEF Failed, Once
  <2>3. \A i \in DOMAIN cache :
          cache[i].blk \in WrittenBack(s) <=> i \in Evicted(s) /\ cache[i].dirty
    BY <1>3, <1>5, Zenon DEF WrittenBack, Once
  <2> QED BY <2>1, <2>2, <2>3
<1>8. \A b : ~ In(cache, b) => b \notin failed /\ b \notin WrittenBack(s)
  BY <1>5 DEF In, WrittenBack, Failed
<1>9. \A b : In(c, b) <=> \E k \in K : cache[k].blk = b
  BY <1>4 DEF In
<1>10. r.disk \in [Blocks -> Values \cup {"mixed", "garbage"}]
  <2>1. disk \in [Blocks -> Values \cup {"mixed", "garbage"}]
    BY DEF CacheInv, Coherent, Typed
  <2>2. \A b \in failed : b \in Blocks
    BY <1>3, ElementType DEF Failed
  <2>3. \A b \in failed : left[b] \in Values \cup {"mixed", "garbage"}
    <3> SUFFICES ASSUME NEW b \in failed
                 PROVE  left[b] \in Values \cup {"mixed", "garbage"}
      OBVIOUS
    <3>1. PICK x \in failed : left[b] \in HalfWritten(x)
      BY <1>20
    <3> QED BY <3>1, <2>1, <2>2 DEF HalfWritten
  <2>4. \A b \in WrittenBack(s) : cache[LookUp(cache, b)].data \in Values \cup {"mixed", "garbage"}
    BY <1>3, <1>5, <1>7, ElementType DEF WrittenBack
  <2> QED BY <1>20, <2>1, <2>3, <2>4
<1>11. Typed(c, r.disk, hold, written, unread, leaks)
  BY <1>4, <1>10 DEF CacheInv, Coherent, Typed
<1>12. Latest(c, r.disk, written, unread)
  <2>1. ASSUME NEW i \in DOMAIN c, c[i].blk \notin unread
        PROVE  written[c[i].blk] = c[i].data
    BY <1>4, <2>1 DEF CacheInv, Coherent, Latest
  <2>2. ASSUME NEW b \in Blocks \ unread, ~ In(c, b)
        PROVE  written[b] = r.disk[b]
    <3>1. CASE ~ In(cache, b)
      BY <3>1, <1>20, <1>8 DEF CacheInv, Coherent, Latest
    <3>2. CASE In(cache, b)
      <4>1. PICK i \in DOMAIN cache : cache[i].blk = b
        BY <3>2 DEF In
      <4>2. i \in Evicted(s)
        BY <4>1, <2>2, <1>9
      <4>3. written[b] = cache[i].data
        BY <4>1 DEF CacheInv, Coherent, Latest
      <4>4. cache[i].dirty \/ disk[b] = cache[i].data
        BY <4>1, <4>2, <1>5, UnusedIsNotHeld
      <4> QED BY <4>1, <4>2, <4>3, <4>4, <1>20, <1>5, <1>7
    <3> QED BY <3>1, <3>2
  <2> QED BY <2>1, <2>2 DEF Latest
<1>13. Saved(c, r.disk, hold, unread)
  <2> SUFFICES ASSUME NEW i \in DOMAIN c
               PROVE  \/ c[i].dirty \/ c[i].blk \in unread \/ ChangedIn(hold, c[i].blk)
                      \/ r.disk[c[i].blk] = c[i].data
    BY DEF Saved
  <2>1. kept[i] \in K /\ c[i] = cache[kept[i]] /\ c[i].blk \in Blocks
    BY <1>4, <1>3, ElementType
  <2>2. CASE kept[i] = s
    BY <2>1, <2>2, <1>6
  <2>3. CASE kept[i] # s
    <3>1. r.disk[c[i].blk] = disk[c[i].blk]
      BY <2>1, <2>3, <1>20, <1>7
    <3> QED BY <2>1, <3>1 DEF CacheInv, Coherent, Saved
  <2> QED BY <2>2, <2>3
<1>19. Whole(c, r.disk)
  <2> SUFFICES ASSUME NEW b \in Blocks, r.disk[b] = "mixed"
               PROVE  \E i \in DOMAIN c : c[i].blk = b /\ c[i].dirty
    BY DEF Whole
  <2>1. CASE b \in failed
    <3>1. s \in DOMAIN cache /\ b = cache[s].blk
      BY <2>1 DEF Failed
    <3> QED BY <3>1, <1>4, <1>6
  <2>2. CASE b \in WrittenBack(s)
    <3>1. PICK i \in Evicted(s) : b = cache[i].blk /\ i \in DOMAIN cache /\ i # s
      BY <2>2, <1>5 DEF WrittenBack
    <3>2. r.disk[b] = cache[i].data
      BY <2>2, <3>1, <1>20, <1>7
    <3>3. cache[i].data \in Values \cup {"garbage"}
      BY <3>1, <1>3, ElementType
    <3> QED BY <3>2, <3>3, CacheAssumption
  <2>3. CASE b \notin failed /\ b \notin WrittenBack(s)
    <3>1. disk[b] = "mixed"
      BY <2>3, <1>20
    <3>2. PICK i \in DOMAIN cache : cache[i].blk = b /\ cache[i].dirty
      BY <3>1 DEF CacheInv, Coherent, Whole
    <3>3. i \in K
      BY <2>3, <3>2, <1>7
    <3> QED BY <3>2, <3>3, <1>4
  <2> QED BY <2>1, <2>2, <2>3
<1>14. Locked(c, hold, leaks)
  <2>1. ASSUME NEW p \in Holders, hold[p] # NoBlock
        PROVE  hold[p].blk \notin Copied /\ In(c, hold[p].blk)
    <3>1. hold[p].blk \notin Copied /\ In(cache, hold[p].blk)
      BY <2>1 DEF CacheInv, Coherent, Locked
    <3>2. PICK i \in DOMAIN cache : cache[i].blk = hold[p].blk
      BY <3>1 DEF In
    <3>3. i \notin Evicted(s)
      BY <2>1, <3>2, <1>5, UnusedIsNotHeld
    <3> QED BY <3>1, <3>2, <3>3, <1>9
  <2>2. ASSUME NEW i \in DOMAIN c, c[i].blk \notin Copied
        PROVE  UsageFits(c[i].usage, Cardinality(PointersTo(hold, c[i].blk)), leaks)
    BY <2>2, <1>4 DEF CacheInv, Coherent, Locked
  <2> QED BY <2>1, <2>2 DEF Locked
<1>15. /\ Cardinality(failed) \in {0, 1}
       /\ Cardinality(failed) = 1 <=> s \in DOMAIN cache
  <2>1. CASE s \in DOMAIN cache
    <3>1. failed = {cache[s].blk}
      BY <2>1 DEF Failed
    <3> QED BY <2>1, <3>1, FS_Singleton
  <2>2. CASE s \notin DOMAIN cache
    <3>1. failed = {}
      BY <2>2 DEF Failed
    <3> QED BY <2>2, <3>1, FS_EmptySet
  <2> QED BY <2>1, <2>2
<1>16. r.faults \in 0 .. MaxFaults /\ r.faults >= faults
  BY <1>20, <1>3, <1>6, <1>15
<1>17. \/ r.faults > faults
       \/ \A e \in ToSet(cache) : e.usage # 0
       \/ Len(c) < Len(cache)
  <2> SUFFICES ASSUME s \notin DOMAIN cache, NEW e \in ToSet(cache), e.usage = 0
               PROVE  Len(c) < Len(cache)
    BY <1>20, <1>3, <1>15
  <2>1. PICK i \in DOMAIN cache : cache[i] = e
    BY DEF ToSet
  <2>2. s = Len(cache) + 1
    BY <1>3 DEF Stops
  <2>3. i \in Evicted(s)
    BY <2>1, <2>2, <1>3 DEF Evicted
  <2>4. K \in SUBSET (1 .. Len(cache)) /\ K # 1 .. Len(cache)
    BY <2>1, <2>3, <1>3
  <2> DEFINE all == 1 .. Len(cache)
  <2>5. IsFiniteSet(all) /\ Cardinality(all) = Len(cache)
    BY <1>3, FirstNumbers
  <2>6. IsFiniteSet(K) /\ Cardinality(K) <= Len(cache) /\ Cardinality(K) # Len(cache)
    <3>1. K \in SUBSET all /\ K # all
      BY <2>4
    <3> HIDE DEF all, failed, K, c
    <3> QED BY <3>1, <2>5, FS_Subset
  <2>7. Cardinality(K) \in Nat
    BY <2>6, FS_CardinalityType
  <2> QED BY <2>6, <2>7, <1>3, <1>4
<1>18. \A b : In(c, b) => In(cache, b)
  BY <1>9 DEF In
<1> QED BY <1>4, <1>11, <1>12, <1>13, <1>14, <1>16, <1>17, <1>18, <1>19 DEF Coherent

-----------------------------------------------------------------------------
(* fetch_block and read_block_c.                                           *)
LEMMA NewElementKeeps ==
  ASSUME NEW c, NEW d, NEW h, NEW w, NEW u, NEW l, Coherent(c, d, h, w, u, l),
         NEW b \in Blocks, ~ In(c, b), NEW e \in Elements, e.blk = b,
         \E x \in Fresh : e.usage = x.usage,
         NEW u2, (u2 = u /\ e.data = d[b]) \/ u2 = u \cup {b}
  PROVE  LET c2 == <<e>> \o c
         IN  Coherent(c2, d, h, w, u2, l) /\ In(c2, b) /\ Len(c2) = Len(c) + 1
<1> DEFINE c2 == <<e>> \o c
<1>1. /\ c \in Seq(Elements) /\ c2 \in Seq(Elements)
      /\ Len(c) \in Nat /\ DOMAIN c = 1 .. Len(c)
      /\ Len(c2) = Len(c) + 1 /\ DOMAIN c2 = 1 .. Len(c) + 1
      /\ c2[1] = e /\ \A i \in DOMAIN c : i + 1 \in DOMAIN c2 /\ c2[i + 1] = c[i]
      /\ \A i \in DOMAIN c2 : i = 1 \/ (i - 1 \in DOMAIN c /\ c2[i] = c[i - 1])
  <2>1. c \in Seq(Elements)
    BY DEF Coherent, Typed
  <2>2. Len(c) \in Nat /\ DOMAIN c = 1 .. Len(c)
    BY <2>1
  <2>3. c2 \in Seq(Elements) /\ Len(c2) = Len(c) + 1 /\ DOMAIN c2 = 1 .. Len(c) + 1
    BY <2>1
  <2>4. c2[1] = e /\ \A i \in DOMAIN c2 : i # 1 => c2[i] = c[i - 1]
    BY <2>1
  <2> HIDE DEF c2
  <2> QED BY <2>1, <2>2, <2>3, <2>4
<1> HIDE DEF c2
<1>2. \A i \in DOMAIN c2 : (c2[i] = e /\ i = 1) \/ \E j \in DOMAIN c : c2[i] = c[j] /\ i = j + 1
  BY <1>1
<1>3. \A j \in DOMAIN c : c[j].blk # b
  BY DEF In
<1>4. \A x : In(c2, x) <=> x = b \/ In(c, x)
  <2>1. \A x : In(c2, x) => x = b \/ In(c, x)
    BY <1>2 DEF In
  <2>2. 1 \in DOMAIN c2
    BY <1>1
  <2>3. \A x : x = b \/ In(c, x) => In(c2, x)
    BY <1>1, <2>2 DEF In
  <2> QED BY <2>1, <2>3
<1>5. Typed(c2, d, h, w, u2, l)
  BY <1>1 DEF Coherent, Typed
<1>6. Once(c2)
  BY <1>2, <1>3 DEF Coherent, Once
<1>7. Latest(c2, d, w, u2)
  <2>1. ASSUME NEW i \in DOMAIN c2, c2[i].blk \notin u2
        PROVE  w[c2[i].blk] = c2[i].data
    BY <1>2, <2>1 DEF Coherent, Latest
  <2>2. ASSUME NEW x \in Blocks \ u2, ~ In(c2, x)
        PROVE  w[x] = d[x]
    BY <1>4, <2>2 DEF Coherent, Latest
  <2> QED BY <2>1, <2>2 DEF Latest
<1>8. Saved(c2, d, h, u2)
  <2> SUFFICES ASSUME NEW i \in DOMAIN c2
               PROVE  \/ c2[i].dirty \/ c2[i].blk \in u2 \/ ChangedIn(h, c2[i].blk)
                      \/ d[c2[i].blk] = c2[i].data
    BY DEF Saved
  <2> QED BY <1>2 DEF Coherent, Saved
<1>9. Whole(c2, d)
  <2> SUFFICES ASSUME NEW x \in Blocks, d[x] = "mixed"
               PROVE  \E i \in DOMAIN c2 : c2[i].blk = x /\ c2[i].dirty
    BY DEF Whole
  <2>1. PICK i \in DOMAIN c : c[i].blk = x /\ c[i].dirty
    BY DEF Coherent, Whole
  <2> QED BY <2>1, <1>1
<1>10. Locked(c2, h, l)
  <2>1. ASSUME NEW p \in Holders, h[p] # NoBlock
        PROVE  h[p].blk \notin Copied /\ In(c2, h[p].blk)
    BY <1>4, <2>1 DEF Coherent, Locked
  <2>2. ASSUME NEW i \in DOMAIN c2, c2[i].blk \notin Copied
        PROVE  UsageFits(c2[i].usage, Cardinality(PointersTo(h, c2[i].blk)), l)
    <3>1. CASE c2[i] = e
      <4>1. PointersTo(h, b) = {}
        BY DEF PointersTo, Coherent, Locked
      <4>2. Cardinality(PointersTo(h, b)) = 0
        BY <4>1, FS_EmptySet
      <4>3. PICK x \in Fresh : e.usage = x.usage
        OBVIOUS
      <4>4. x.usage \in Nat /\ l \in Nat
        BY CacheAssumption, UsageType DEF Coherent, Typed
      <4> QED BY <3>1, <4>2, <4>3, <4>4 DEF UsageFits
    <3>2. CASE \E j \in DOMAIN c : c2[i] = c[j]
      BY <3>2, <2>2 DEF Coherent, Locked
    <3> QED BY <1>2, <3>1, <3>2
  <2> QED BY <2>1, <2>2 DEF Locked
<1>11. In(c2, b)
  BY <1>4
<1> QED BY <1>1, <1>5, <1>6, <1>7, <1>8, <1>9, <1>10, <1>11 DEF Coherent, c2

GotBlock(b, f, u) ==
  /\ Coherent(f.cache, f.disk, hold, written, u, leaks)
  /\ f.faults \in 0 .. MaxFaults
  /\ IF f.how = "none" THEN u = unread /\ ~ In(f.cache, b) ELSE b \in Blocks /\ In(f.cache, b)

LEMMA GetKeeps ==
  ASSUME CacheInv, NEW b \in 0 .. PartBlocks + 1, NEW f \in Get(b), NEW u,
         u = IF f.how = "unread" THEN unread \cup {b} ELSE unread
  PROVE  /\ GotBlock(b, f, u)
         /\ Len(cache) = MAX_CACHE_SIZE /\ Len(f.cache) > MAX_CACHE_SIZE
              => (\A e \in ToSet(cache) : e.usage # 0) \/ f.faults > faults
<1>6. cache \in Seq(Elements) /\ DOMAIN cache \subseteq Nat \ {0} /\ Once(cache)
  BY DEF CacheInv, Coherent, Typed
<1>1. /\ Len(cache) \in Nat /\ faults \in 0 .. MaxFaults /\ MaxFaults \in Nat
      /\ MAX_CACHE_SIZE \in Nat /\ PartBlocks \in Nat
  BY <1>6, CacheAssumption DEF CacheInv
<1>2. Cached(b) <=> In(cache, b)
  BY <1>6, LookUpFinds DEF Cached
<1> DEFINE allUsed == \A e \in ToSet(cache) : e.usage # 0
<1> HIDE DEF allUsed
<1> SUFFICES /\ GotBlock(b, f, u)
             /\ Len(cache) = MAX_CACHE_SIZE /\ Len(f.cache) > MAX_CACHE_SIZE
                  => allUsed \/ f.faults > faults
  BY DEF allUsed
<1>5. Coherent(cache, disk, hold, written, unread, leaks)
  BY DEF CacheInv
<1>3. CASE Cached(b)
  <2>1. f = [how |-> "cached", cache |-> cache, disk |-> disk, faults |-> faults]
    BY <1>3 DEF Get
  <2>2. b \in Blocks
    BY <1>2, <1>3, <1>6, ElementType DEF In
  <2>3. f.how = "cached" /\ f.cache = cache /\ f.disk = disk /\ f.faults = faults
    BY <2>1
  <2>4. u = unread
    BY <2>3
  <2>5. In(f.cache, b)
    BY <1>2, <1>3, <2>3
  <2>6. Coherent(f.cache, f.disk, hold, written, u, leaks)
    BY <1>5, <2>3, <2>4
  <2>7. GotBlock(b, f, u)
    BY <1>1, <2>2, <2>3, <2>5, <2>6 DEF GotBlock
  <2>8. ~ (Len(cache) = MAX_CACHE_SIZE /\ Len(f.cache) > MAX_CACHE_SIZE)
    BY <1>1, <2>3
  <2> QED BY <2>7, <2>8
<1>4. CASE ~ Cached(b)
  <2>1. PICK r \in MakeRoom, how \in {"none", "unread", "read"}, x \in Fresh :
          /\ f = Fetched(b, r, how, x)
          /\ how # "none" => Served(b)
          /\ f.faults <= MaxFaults
    BY <1>4 DEF Get, Fetch
  <2>2. /\ Coherent(r.cache, r.disk, hold, written, unread, leaks)
        /\ r.faults \in 0 .. MaxFaults /\ r.faults >= faults
        /\ ~ In(r.cache, b)
        /\ Len(cache) = MAX_CACHE_SIZE =>
              \/ r.faults > faults
              \/ allUsed
              \/ Len(r.cache) < Len(cache)
    <3>1. CASE Len(cache) = MAX_CACHE_SIZE
      <4>1. r \in FreeCacheList
        BY <3>1 DEF MakeRoom
      <4> QED BY <1>2, <1>4, <4>1, FreeCacheListKeeps DEF allUsed
    <3>2. CASE Len(cache) # MAX_CACHE_SIZE
      <4>1. r = [cache |-> cache, disk |-> disk, faults |-> faults]
        BY <3>2 DEF MakeRoom, Here
      <4>2. r.cache = cache /\ r.disk = disk /\ r.faults = faults
        BY <4>1
      <4> QED BY <1>1, <1>2, <1>4, <1>5, <3>2, <4>2
    <3> QED BY <3>1, <3>2
  <2>3. f.how = how /\ f.disk = r.disk
    BY <2>1 DEF Fetched
  <2>4. f.faults \in 0 .. MaxFaults /\ f.faults >= r.faults
    <3>1. f.faults = IF how = "read" \/ ~ Served(b) THEN r.faults ELSE r.faults + 1
      BY <2>1 DEF Fetched
    <3>2. f.faults <= MaxFaults
      BY <2>1
    <3>3. r.faults \in 0 .. MaxFaults
      BY <2>2
    <3> QED BY <3>1, <3>2, <3>3, <1>1
  <2>5. CASE how = "none"
    <3>1. f.cache = r.cache
      BY <2>1, <2>5 DEF Fetched
    <3>2. u = unread
      BY <2>3, <2>5
    <3>3. GotBlock(b, f, u)
      BY <2>2, <2>3, <2>4, <2>5, <3>1, <3>2 DEF GotBlock
    <3>4. Len(r.cache) \in Nat
      BY <2>2 DEF Coherent, Typed
    <3>5. r.faults > faults => f.faults > faults
      BY <1>1, <2>2, <2>4
    <3> QED BY <2>2, <3>1, <3>3, <3>4, <3>5, <1>1
  <2>6. CASE how # "none"
    <3> DEFINE e == NewElement(b, r, how, x)
    <3>1. f.cache = <<e>> \o r.cache
      BY <2>1, <2>6 DEF Fetched
    <3>2. b \in Blocks
      BY <2>1, <2>6, <1>1 DEF Served, Blocks
    <3>3. /\ e.blk = b /\ e.usage = x.usage /\ e.dirty = x.dirty
          /\ e.data = IF how = "read" THEN r.disk[b] ELSE "garbage"
          /\ e = [blk |-> b, dirty |-> e.dirty, usage |-> e.usage, data |-> e.data]
      BY DEF NewElement
    <3>4. r.disk[b] \in Values \cup {"garbage"}
      <4>1. r.disk[b] \in Values \cup {"mixed", "garbage"}
        BY <2>2, <3>2 DEF Coherent, Typed
      <4>2. r.disk[b] # "mixed"
        BY <2>2, <3>2 DEF Coherent, Whole, In
      <4> QED BY <4>1, <4>2
    <3>5. e \in Elements
      <4> HIDE DEF e
      <4>1. x \in [usage : 0 .. 2 ^ UsageBits - 1, dirty : BOOLEAN]
        BY CacheAssumption
      <4> QED BY <3>2, <3>3, <3>4, <4>1 DEF Elements
    <3>6. (u = unread /\ e.data = r.disk[b]) \/ u = unread \cup {b}
      BY <2>3, <2>6, <3>3
    <3> HIDE DEF e
    <3>7. /\ Coherent(f.cache, r.disk, hold, written, u, leaks)
          /\ In(f.cache, b) /\ Len(f.cache) = Len(r.cache) + 1
      <4>1. \E y \in Fresh : e.usage = y.usage
        BY <3>3
      <4>2. ~ In(r.cache, b) /\ e.blk = b
        BY <2>2, <3>3
      <4>3. Coherent(r.cache, r.disk, hold, written, unread, leaks)
        BY <2>2
      <4>4. LET c2 == <<e>> \o r.cache
            IN  /\ Coherent(c2, r.disk, hold, written, u, leaks)
                /\ In(c2, b) /\ Len(c2) = Len(r.cache) + 1
        BY <3>2, <3>5, <3>6, <4>1, <4>2, <4>3, NewElementKeeps
      <4> QED BY <3>1, <4>4
    <3>8. Len(r.cache) \in Nat
      BY <2>2 DEF Coherent, Typed
    <3>9. GotBlock(b, f, u)
      BY <2>3, <2>4, <2>6, <3>2, <3>7 DEF GotBlock
    <3>10. r.faults > faults => f.faults > faults
      BY <1>1, <2>2, <2>4
    <3> QED BY <1>1, <2>2, <3>7, <3>8, <3>9, <3>10
  <2> QED BY <2>5, <2>6
<1> QED BY <1>3, <1>4

-----------------------------------------------------------------------------
(* What the calls do to one element.                                       *)
LEMMA SmallRemainder ==
  ASSUME NEW m \in Nat \ {0}, NEW n \in 0 .. m - 1
  PROVE  n % m = n
OBVIOUS

LEMMA RemainderType ==
  ASSUME NEW m \in Nat \ {0}, NEW n \in Int
  PROVE  n % m \in 0 .. m - 1
OBVIOUS

SameButUsage(e, x) ==
  /\ x \in Elements
  /\ x.blk = e.blk /\ x.data = e.data /\ x.dirty = e.dirty

LEMMA UsageSet ==
  ASSUME NEW e \in Elements, NEW n \in 0 .. 2 ^ UsageBits - 1
  PROVE  SameButUsage(e, [e EXCEPT !.usage = n]) /\ [e EXCEPT !.usage = n].usage = n
BY DEF SameButUsage, Elements

LEMMA LockFacts ==
  ASSUME NEW e \in Elements
  PROVE  /\ SameButUsage(e, Lock(e))
         /\ e.usage + 1 < 2 ^ UsageBits => Lock(e).usage = e.usage + 1
<1>1. e.usage \in Nat /\ e.usage + 1 \in Int
  BY UsageType DEF Elements
<1>2. (e.usage + 1) % 2 ^ UsageBits \in 0 .. 2 ^ UsageBits - 1
  BY <1>1, UsageType, RemainderType
<1>3. e.usage + 1 < 2 ^ UsageBits => (e.usage + 1) % 2 ^ UsageBits = e.usage + 1
  BY <1>1, UsageType, SmallRemainder
<1> QED BY <1>2, <1>3, UsageSet DEF Lock

LEMMA ReleaseFacts ==
  ASSUME NEW e \in Elements
  PROVE  /\ SameButUsage(e, Release(e))
         /\ e.usage > 0 => Release(e).usage = e.usage - 1
<1>1. e.usage \in Nat /\ e.usage < 2 ^ UsageBits /\ e.usage - 1 \in Int
  BY UsageType DEF Elements
<1>2. (e.usage - 1) % 2 ^ UsageBits \in 0 .. 2 ^ UsageBits - 1
  BY <1>1, UsageType, RemainderType
<1>3. e.usage > 0 => (e.usage - 1) % 2 ^ UsageBits = e.usage - 1
  BY <1>1, UsageType, SmallRemainder
<1> QED BY <1>2, <1>3, UsageSet DEF Release

LEMMA UnlockFacts ==
  ASSUME NEW e \in Elements
  PROVE  /\ SameButUsage(e, Unlock(e))
         /\ e.usage > 0 => Unlock(e).usage = e.usage - 1
BY ReleaseFacts DEF Unlock, SameButUsage

LEMMA DataFacts ==
  ASSUME NEW e \in Elements, NEW v \in Values
  PROVE  LET x == [e EXCEPT !.data = v]
         IN  /\ x \in Elements /\ x.blk = e.blk /\ x.data = v
             /\ x.dirty = e.dirty /\ x.usage = e.usage
BY DEF Elements

LEMMA DirtyFacts ==
  ASSUME NEW e \in Elements, NEW x, x = SetDirty(e) \/ x = SyncElt(e)
  PROVE  /\ x \in Elements /\ x.blk = e.blk /\ x.data = e.data /\ x.usage = e.usage
         /\ x = SetDirty(e) => x.dirty
         /\ x = SyncElt(e) => ~ x.dirty
BY DEF Elements, SetDirty, SyncElt

(* A usage within its limits can be counted up once more.                  *)
LEMMA UsageBounded ==
  ASSUME FewLocks, NEW h, NEW b, NEW l \in 0 .. MaxLeaks, NEW n \in Nat,
         UsageFits(n, Cardinality(PointersTo(h, b)), l)
  PROVE  n + 1 < 2 ^ UsageBits
<1>1. PICK x \in Fresh : n <= x.usage + Cardinality(PointersTo(h, b)) + l
  BY DEF UsageFits
<1>2. x.usage + Cardinality(Holders) + MaxLeaks + 1 < 2 ^ UsageBits
  BY DEF FewLocks
<1>3. /\ x.usage \in Nat /\ MaxLeaks \in Nat /\ l \in Nat /\ l <= MaxLeaks
      /\ Cardinality(Holders) \in Nat
  BY CacheAssumption, UsageType, FS_CardinalityType
<1> QED BY <1>1, <1>2, <1>3, UsageType, PointersFinite

(* A list whose elements of block b are replaced by elements of block b.   *)
OnlyBlock(c, b, c2) ==
  /\ c2 \in Seq(Elements) /\ DOMAIN c2 = DOMAIN c
  /\ \A i \in DOMAIN c : c2[i].blk = c[i].blk /\ (c[i].blk # b => c2[i] = c[i])

Replaced(c, b, g) == [i \in DOMAIN c |-> IF c[i].blk = b THEN g[i] ELSE c[i]]

LEMMA OnlyBlockIs ==
  ASSUME NEW c \in Seq(Elements), NEW b, NEW g,
         \A i \in DOMAIN c : c[i].blk = b => g[i] \in Elements /\ g[i].blk = b
  PROVE  /\ OnlyBlock(c, b, Replaced(c, b, g))
         /\ \A i \in DOMAIN c : c[i].blk = b => Replaced(c, b, g)[i] = g[i]
         /\ ~ In(c, b) => Replaced(c, b, g) = c
         /\ Len(Replaced(c, b, g)) = Len(c)
<1> DEFINE c2 == Replaced(c, b, g)
<1>5. c2 = [i \in DOMAIN c |-> IF c[i].blk = b THEN g[i] ELSE c[i]]
  BY DEF Replaced
<1> HIDE DEF c2
<1>1. \A i \in DOMAIN c : c2[i] \in Elements
  BY <1>5
<1>2. Len(c) \in Nat /\ DOMAIN c = 1 .. Len(c)
  OBVIOUS
<1>3. c2 \in Seq(Elements) /\ DOMAIN c2 = DOMAIN c /\ Len(c2) = Len(c)
  BY <1>1, <1>2, <1>5
<1>4. ~ In(c, b) => c2 = c
  BY <1>2, <1>3, <1>5 DEF In
<1> QED BY <1>3, <1>4, <1>5 DEF OnlyBlock, c2

-----------------------------------------------------------------------------
(* What the invariant says of an element.                                  *)
LEMMA ElementFacts ==
  ASSUME NEW c, NEW d, NEW h, NEW w, NEW u, NEW l, Coherent(c, d, h, w, u, l),
         NEW i \in DOMAIN c, NEW b, c[i].blk = b
  PROVE  /\ c[i] \in Elements /\ c[i].usage \in Nat
         /\ c \in Seq(Elements) /\ DOMAIN c \subseteq Nat \ {0} /\ Once(c)
         /\ LookUp(c, b) = i
         /\ b \in u \/ w[b] = c[i].data
         /\ d[b] = "mixed" => c[i].dirty
         /\ c[i].dirty \/ b \in u \/ ChangedIn(h, b) \/ d[b] = c[i].data
         /\ b \notin Copied => UsageFits(c[i].usage, Cardinality(PointersTo(h, b)), l)
<1>1. c \in Seq(Elements) /\ DOMAIN c \subseteq Nat \ {0} /\ Once(c)
  BY DEF Coherent, Typed
<1>2. LookUp(c, b) = i
  BY <1>1, LookUpFinds
<1>3. d[b] = "mixed" => c[i].dirty
  BY <1>1, ElementType DEF Coherent, Whole, Once
<1> QED BY <1>1, <1>2, <1>3, ElementType DEF Coherent, Latest, Saved, Locked

(* Read: one more pointer to the block, and one more lock.                 *)
LEMMA ReadKeeps ==
  ASSUME CacheInv, FewLocks, NEW h \in Holders, NEW b \in 0 .. PartBlocks + 1, Read(h, b)
  PROVE  CacheInv'
<1>1. PICK f \in Get(b) :
        /\ Got(b, f)
        /\ disk' = f.disk /\ faults' = f.faults
        /\ cache' = Update(f.cache, b, Lock)
        /\ hold' = IF f.how = "none" THEN hold
                   ELSE [hold EXCEPT ![h] = [blk |-> b, use |-> "reading"]]
  BY DEF Read
<1>2. GotBlock(b, f, unread')
  BY <1>1, GetKeeps DEF Got
<1> DEFINE c == f.cache
           g == [i \in DOMAIN c |-> Lock(c[i])]
<1>3. c \in Seq(Elements) /\ Coherent(c, f.disk, hold, written, unread', leaks)
  BY <1>2 DEF GotBlock, Coherent, Typed
<1>4. \A i \in DOMAIN c : c[i] \in Elements
  BY <1>3
<1>5. cache' = Replaced(c, b, g)
  BY <1>1 DEF Update, Replaced
<1>6. \A i \in DOMAIN c : g[i] = Lock(c[i]) /\ SameButUsage(c[i], g[i])
  BY <1>4, LockFacts
<1> HIDE DEF g, c
<1>7. /\ OnlyBlock(c, b, cache')
      /\ \A i \in DOMAIN c : c[i].blk = b => cache'[i] = g[i]
      /\ ~ In(c, b) => cache' = c
  BY <1>3, <1>5, <1>6, OnlyBlockIs DEF SameButUsage
<1>8. faults' \in 0 .. MaxFaults /\ written' = written /\ leaks' = leaks /\ disk' = f.disk
      /\ hold[h] = NoBlock /\ b \notin Copied
  BY <1>1, <1>2 DEF GotBlock, Read
<1>9. Coherent(cache', disk', hold', written', unread', leaks')
  <2>1. CASE f.how = "none"
    BY <2>1, <1>1, <1>2, <1>3, <1>7, <1>8 DEF GotBlock, c
  <2>2. CASE f.how # "none"
    <3>1. b \in Blocks /\ In(c, b)
      BY <2>2, <1>2 DEF GotBlock, c
    <3>2. /\ hold' = [hold EXCEPT ![h] = [blk |-> b, use |-> "reading"]]
          /\ [blk |-> b, use |-> "reading"] \in [blk : Blocks, use : Uses]
          /\ [blk |-> b, use |-> "reading"] # NoBlock
          /\ hold \in [Holders -> [blk : Blocks, use : Uses] \cup {NoBlock}]
      <4>1. [blk |-> b, use |-> "reading"] \in [blk : Blocks, use : Uses]
        BY <3>1 DEF Uses
      <4> QED BY <2>2, <1>1, <4>1, CacheAssumption DEF CacheInv, Coherent, Typed
    <3>3. /\ hold' \in [Holders -> [blk : Blocks, use : Uses] \cup {NoBlock}]
          /\ hold'[h] # NoBlock /\ hold'[h].blk = b
          /\ \A p \in Holders \ {h} : hold'[p] = hold[p]
      BY <3>2
    <3>4. Typed(cache', disk', hold', written', unread', leaks')
      BY <1>3, <1>7, <1>8, <3>3 DEF Coherent, Typed, OnlyBlock
    <3>5. Cardinality(PointersTo(hold', b)) = Cardinality(PointersTo(hold, b)) + 1
      <4>1. PointersTo(hold', b) = PointersTo(hold, b) \cup {h} /\ h \notin PointersTo(hold, b)
        BY <1>8, <3>3 DEF PointersTo
      <4> QED BY <4>1, PointersFinite, FS_AddElement
    <3>6. ASSUME NEW i \in DOMAIN c, c[i].blk = b
          PROVE  /\ b \in unread' \/ written'[b] = cache'[i].data
                 /\ disk'[b] = "mixed" => cache'[i].dirty
                 /\ \/ cache'[i].dirty \/ b \in unread' \/ ChangedIn(hold', b)
                    \/ disk'[b] = cache'[i].data
                 /\ UsageFits(cache'[i].usage, Cardinality(PointersTo(hold', b)), leaks')
      <4>1. /\ c[i].usage \in Nat /\ c[i] \in Elements
            /\ b \in unread' \/ written[b] = c[i].data
            /\ f.disk[b] = "mixed" => c[i].dirty
            /\ c[i].dirty \/ b \in unread' \/ ChangedIn(hold, b) \/ f.disk[b] = c[i].data
            /\ UsageFits(c[i].usage, Cardinality(PointersTo(hold, b)), leaks)
        BY <1>3, <1>8, <3>6, ElementFacts
      <4>2. cache'[i].data = c[i].data /\ cache'[i].dirty = c[i].dirty
        BY <1>6, <1>7, <3>6 DEF SameButUsage
      <4>3. ChangedIn(hold, b) => ChangedIn(hold', b)
        BY <1>8, <3>3 DEF ChangedIn
      <4>4. cache'[i].usage = c[i].usage + 1
        <5>1. leaks \in 0 .. MaxLeaks
          BY DEF CacheInv, Coherent, Typed
        <5> QED BY <1>6, <1>7, <3>6, <4>1, <5>1, UsageBounded, LockFacts
      <4>5. UsageFits(cache'[i].usage, Cardinality(PointersTo(hold', b)), leaks')
        <5>1. PICK x \in Fresh : c[i].usage <= x.usage + Cardinality(PointersTo(hold, b)) + leaks
          BY <4>1 DEF UsageFits
        <5>2. x.usage \in Nat /\ leaks \in Nat /\ Cardinality(PointersTo(hold, b)) \in Nat
          BY CacheAssumption, UsageType, PointersFinite DEF CacheInv, Coherent, Typed
        <5> QED BY <1>8, <3>5, <4>1, <4>4, <5>1, <5>2 DEF UsageFits
      <4> QED BY <1>8, <4>1, <4>2, <4>3, <4>5
    <3>7. leaks <= leaks'
      BY <1>8, CacheAssumption DEF CacheInv, Coherent, Typed
    <3> QED BY <1>3, <1>7, <1>8, <3>1, <3>3, <3>4, <3>6, <3>7, OneBlockChanges DEF OnlyBlock
  <2> QED BY <2>1, <2>2
<1> QED BY <1>8, <1>9 DEF CacheInv

(* Write: locked, changed and unlocked again.                              *)
LEMMA WrittenFacts ==
  ASSUME NEW e \in Elements, NEW v \in Values, NEW x,
         x = Unlock([SetDirty(Lock(e)) EXCEPT !.data = v])
  PROVE  /\ x \in Elements /\ x.blk = e.blk /\ x.data = v /\ x.dirty
         /\ e.usage + 1 < 2 ^ UsageBits => x.usage = e.usage
<1>1. /\ Lock(e) \in Elements /\ Lock(e).blk = e.blk
      /\ e.usage + 1 < 2 ^ UsageBits => Lock(e).usage = e.usage + 1
  BY LockFacts DEF SameButUsage
<1> DEFINE y == SetDirty(Lock(e))
           z == [y EXCEPT !.data = v]
<1>2. y \in Elements /\ y.blk = e.blk /\ y.dirty /\ y.usage = Lock(e).usage
  BY <1>1, DirtyFacts
<1> HIDE DEF y
<1>3. z \in Elements /\ z.blk = e.blk /\ z.data = v /\ z.dirty /\ z.usage = Lock(e).usage
  BY <1>2, DataFacts
<1>4. x = Unlock(z)
  BY DEF y
<1> HIDE DEF z
<1>5. /\ x \in Elements /\ x.blk = e.blk /\ x.data = v /\ x.dirty
      /\ z.usage > 0 => x.usage = z.usage - 1
  BY <1>3, <1>4, UnlockFacts DEF SameButUsage
<1>6. e.usage \in Nat
  BY UsageType DEF Elements
<1> QED BY <1>1, <1>3, <1>5, <1>6

LEMMA WriteKeeps ==
  ASSUME CacheInv, FewLocks, NEW b \in Blocks, NEW v \in Values, Write(b, v)
  PROVE  CacheInv'
<1>1. PICK f \in Get(b) :
        /\ Got(b, f)
        /\ disk' = f.disk /\ faults' = f.faults
        /\ cache' = Update(f.cache, b,
                      LAMBDA e : Unlock([SetDirty(Lock(e)) EXCEPT !.data = v]))
        /\ written' = IF f.how = "none" THEN written ELSE [written EXCEPT ![b] = v]
  BY DEF Write
<1>2. GotBlock(b, f, unread')
  <2>1. b \in 0 .. PartBlocks + 1
    BY CacheAssumption DEF Blocks
  <2> QED BY <2>1, <1>1, GetKeeps DEF Got
<1> DEFINE c == f.cache
           g == [i \in DOMAIN c |-> Unlock([SetDirty(Lock(c[i])) EXCEPT !.data = v])]
<1>3. c \in Seq(Elements) /\ Coherent(c, f.disk, hold, written, unread', leaks)
  BY <1>2 DEF GotBlock, Coherent, Typed
<1>5. cache' = Replaced(c, b, g)
  BY <1>1 DEF Update, Replaced
<1>6. \A i \in DOMAIN c :
        /\ c[i] \in Elements /\ g[i] \in Elements /\ g[i].blk = c[i].blk
        /\ g[i].data = v /\ g[i].dirty
        /\ c[i].usage + 1 < 2 ^ UsageBits => g[i].usage = c[i].usage
  BY <1>3, WrittenFacts
<1> HIDE DEF g, c
<1>7. /\ OnlyBlock(c, b, cache')
      /\ \A i \in DOMAIN c : c[i].blk = b => cache'[i] = g[i]
      /\ ~ In(c, b) => cache' = c
  BY <1>3, <1>5, <1>6, OnlyBlockIs
<1>8. faults' \in 0 .. MaxFaults /\ hold' = hold /\ leaks' = leaks /\ disk' = f.disk
      /\ b \notin Copied /\ leaks \in 0 .. MaxLeaks
  BY <1>1, <1>2 DEF GotBlock, Write, CacheInv, Coherent, Typed
<1>9. Coherent(cache', disk', hold', written', unread', leaks')
  <2>1. CASE f.how = "none"
    BY <2>1, <1>1, <1>2, <1>3, <1>7, <1>8 DEF GotBlock, c
  <2>2. CASE f.how # "none"
    <3>1. In(c, b)
      BY <2>2, <1>2 DEF GotBlock, c
    <3>2. /\ written' \in [Blocks -> Values] /\ written'[b] = v
          /\ \A x \in Blocks \ {b} : written'[x] = written[x]
      BY <2>2, <1>1 DEF CacheInv, Coherent, Typed
    <3>3. Typed(cache', disk', hold', written', unread', leaks')
      BY <1>3, <1>7, <1>8, <3>2 DEF Coherent, Typed, OnlyBlock
    <3>4. ASSUME NEW i \in DOMAIN c, c[i].blk = b
          PROVE  /\ b \in unread' \/ written'[b] = cache'[i].data
                 /\ disk'[b] = "mixed" => cache'[i].dirty
                 /\ \/ cache'[i].dirty \/ b \in unread' \/ ChangedIn(hold', b)
                    \/ disk'[b] = cache'[i].data
                 /\ UsageFits(cache'[i].usage, Cardinality(PointersTo(hold', b)), leaks')
      <4>1. c[i].usage \in Nat /\ UsageFits(c[i].usage, Cardinality(PointersTo(hold, b)), leaks)
        BY <1>3, <1>8, <3>4, ElementFacts
      <4>2. cache'[i].usage = c[i].usage
        BY <1>6, <1>7, <1>8, <3>4, <4>1, UsageBounded
      <4> QED BY <1>6, <1>7, <1>8, <3>2, <3>4, <4>1, <4>2
    <3>5. leaks <= leaks'
      BY <1>8, CacheAssumption
    <3>6. \A p \in Holders : hold[p] # NoBlock /\ hold[p].blk = b => In(c, b)
      BY <3>1
    <3> QED BY <1>3, <1>7, <1>8, <3>1, <3>2, <3>3, <3>4, <3>5, <3>6, OneBlockChanges
            DEF OnlyBlock
  <2> QED BY <2>1, <2>2
<1> QED BY <1>8, <1>9 DEF CacheInv

(* One pointer fewer.                                                      *)
LEMMA PointerDropped ==
  ASSUME NEW h \in Holders, hold \in [Holders -> [blk : Blocks, use : Uses] \cup {NoBlock}],
         hold[h] # NoBlock, hold' = [hold EXCEPT ![h] = NoBlock]
  PROVE  /\ hold' \in [Holders -> [blk : Blocks, use : Uses] \cup {NoBlock}]
         /\ hold'[h] = NoBlock /\ \A p \in Holders \ {h} : hold'[p] = hold[p]
         /\ hold[h].blk \in Blocks
         /\ Cardinality(PointersTo(hold, hold[h].blk)) \in Nat
         /\ Cardinality(PointersTo(hold', hold[h].blk)) \in Nat
         /\ Cardinality(PointersTo(hold, hold[h].blk))
              = Cardinality(PointersTo(hold', hold[h].blk)) + 1
<1> DEFINE b == hold[h].blk
<1>1. /\ hold'[h] = NoBlock /\ \A p \in Holders \ {h} : hold'[p] = hold[p]
      /\ hold' \in [Holders -> [blk : Blocks, use : Uses] \cup {NoBlock}]
      /\ b \in Blocks
  OBVIOUS
<1>2. PointersTo(hold, b) = PointersTo(hold', b) \cup {h} /\ h \notin PointersTo(hold', b)
  BY <1>1 DEF PointersTo
<1> HIDE DEF b
<1>3. Cardinality(PointersTo(hold, b)) = Cardinality(PointersTo(hold', b)) + 1
  BY <1>2, PointersFinite, FS_AddElement
<1> QED BY <1>1, <1>3, PointersFinite DEF b

(* Change: the holder writes through its pointer.                          *)
LEMMA ChangeKeeps ==
  ASSUME CacheInv, NEW h \in Holders, NEW v \in Values, Change(h, v)
  PROVE  CacheInv'
<1> DEFINE b == hold[h].blk
           g == [i \in DOMAIN cache |-> [cache[i] EXCEPT !.data = v]]
<1>1. /\ cache \in Seq(Elements) /\ Coherent(cache, disk, hold, written, unread, leaks)
      /\ hold \in [Holders -> [blk : Blocks, use : Uses] \cup {NoBlock}]
      /\ written \in [Blocks -> Values] /\ leaks \in Nat
  BY CacheAssumption DEF CacheInv, Coherent, Typed
<1>2. hold[h] # NoBlock /\ b \in Blocks /\ b \notin Copied /\ In(cache, b)
  BY <1>1 DEF Change, Coherent, Locked
<1>3. cache' = Replaced(cache, b, g)
  BY DEF Change, Update, Replaced
<1>4. \A i \in DOMAIN cache :
        /\ cache[i] \in Elements /\ g[i] \in Elements /\ g[i].blk = cache[i].blk
        /\ g[i].data = v /\ g[i].usage = cache[i].usage /\ g[i].dirty = cache[i].dirty
  <2> SUFFICES ASSUME NEW i \in DOMAIN cache
               PROVE  /\ cache[i] \in Elements /\ g[i] \in Elements /\ g[i].blk = cache[i].blk
                      /\ g[i].data = v /\ g[i].usage = cache[i].usage
                      /\ g[i].dirty = cache[i].dirty
    OBVIOUS
  <2>1. cache[i] \in Elements /\ g[i] = [cache[i] EXCEPT !.data = v]
    BY <1>1
  <2> QED BY <2>1, DataFacts
<1> HIDE DEF g
<1>5. /\ OnlyBlock(cache, b, cache')
      /\ \A i \in DOMAIN cache : cache[i].blk = b => cache'[i] = g[i]
  BY <1>1, <1>3, <1>4, OnlyBlockIs
<1>6. /\ disk' = disk /\ leaks' = leaks /\ unread' = unread /\ faults' = faults
      /\ hold' = [hold EXCEPT ![h].use = "changed"]
      /\ written' = [written EXCEPT ![b] = v]
  BY DEF Change
<1>7. /\ hold'[h] = [blk |-> b, use |-> "changed"] /\ hold'[h] # NoBlock
      /\ \A p \in Holders \ {h} : hold'[p] = hold[p]
      /\ hold' \in [Holders -> [blk : Blocks, use : Uses] \cup {NoBlock}]
  <2>1. hold[h] \in [blk : Blocks, use : Uses]
    BY <1>1, <1>2
  <2>2. hold'[h] = [hold[h] EXCEPT !.use = "changed"]
    BY <1>1, <1>6
  <2>3. hold'[h] = [blk |-> b, use |-> "changed"] /\ hold'[h] \in [blk : Blocks, use : Uses]
    BY <2>1, <2>2 DEF Uses
  <2> QED BY <1>1, <1>6, <2>3, CacheAssumption
<1> HIDE DEF b
<1>8. PointersTo(hold', b) = PointersTo(hold, b)
  BY <1>2, <1>7 DEF PointersTo, b
<1>9. ChangedIn(hold', b)
  BY <1>7 DEF ChangedIn
<1>10. /\ written' \in [Blocks -> Values] /\ written'[b] = v
       /\ \A x \in Blocks \ {b} : written'[x] = written[x]
  BY <1>1, <1>2, <1>6
<1>11. Typed(cache', disk, hold', written', unread, leaks)
  BY <1>1, <1>5, <1>7, <1>10 DEF Coherent, Typed, OnlyBlock
<1>12. ASSUME NEW i \in DOMAIN cache, cache[i].blk = b
       PROVE  /\ b \in unread \/ written'[b] = cache'[i].data
              /\ disk[b] = "mixed" => cache'[i].dirty
              /\ UsageFits(cache'[i].usage, Cardinality(PointersTo(hold', b)), leaks)
  <2>1. /\ disk[b] = "mixed" => cache[i].dirty
        /\ UsageFits(cache[i].usage, Cardinality(PointersTo(hold, b)), leaks)
    BY <1>1, <1>2, <1>12, ElementFacts
  <2> QED BY <2>1, <1>4, <1>5, <1>6, <1>8, <1>10, <1>12
<1>13. \A p \in Holders : /\ hold'[p] # NoBlock /\ hold'[p].blk # b
                             <=> hold[p] # NoBlock /\ hold[p].blk # b
                          /\ hold[p] # NoBlock /\ hold[p].blk # b => hold'[p] = hold[p]
  BY <1>7 DEF b
<1>14. leaks <= leaks
  BY <1>1
<1>15. Coherent(cache', disk, hold', written', unread, leaks)
  BY <1>1, <1>2, <1>5, <1>9, <1>10, <1>11, <1>12, <1>13, <1>14, OneBlockChanges
     DEF OnlyBlock
<1> QED BY <1>6, <1>15 DEF CacheInv
(* write_block's write-through.                                            *)
LEMMA WriteThroughFacts ==
  ASSUME NEW c \in Seq(Elements), Once(c), NEW b \in Blocks, In(c, b),
         NEW d \in [Blocks -> Values \cup {"mixed", "garbage"}],
         NEW n \in 0 .. MaxFaults, NEW g,
         \A i \in DOMAIN c : c[i].blk = b => g[i] \in Elements /\ g[i].blk = b,
         NEW c1, c1 = Replaced(c, b, g), WriteThrough(b, c1, d, n)
  PROVE  /\ OnlyBlock(c, b, cache')
         /\ disk' \in [Blocks -> Values \cup {"mixed", "garbage"}]
         /\ \A x \in Blocks \ {b} : disk'[x] = d[x]
         /\ faults' \in 0 .. MaxFaults
         /\ \A i \in DOMAIN c : c[i].blk = b =>
              /\ cache'[i].data = g[i].data /\ cache'[i].usage = g[i].usage
              /\ cache'[i].dirty \/ disk'[b] = g[i].data
              /\ disk'[b] = "mixed" => cache'[i].dirty
<1>1. OnlyBlock(c, b, c1) /\ \A i \in DOMAIN c : c[i].blk = b => c1[i] = g[i]
  BY OnlyBlockIs
<1>2. c1 \in Seq(Elements) /\ DOMAIN c1 = DOMAIN c /\ DOMAIN c1 \subseteq Nat \ {0} /\ Once(c1)
  <2>1. DOMAIN c \subseteq Nat \ {0}
    OBVIOUS
  <2> QED BY <1>1, <2>1 DEF OnlyBlock, Once
<1>3. \A i \in DOMAIN c : c1[i] \in Elements /\ c1[i].blk = c[i].blk
  BY <1>1, <1>2 DEF OnlyBlock
<1>4. \A i \in DOMAIN c : c[i].blk = b => LookUp(c1, b) = i
  BY <1>2, <1>3, LookUpFinds
<1>5. ASSUME NEW G, \A i \in DOMAIN c1 : c1[i].blk = b => G[i] \in Elements /\ G[i].blk = b,
             cache' = Replaced(c1, b, G)
      PROVE  OnlyBlock(c, b, cache') /\ \A i \in DOMAIN c : c[i].blk = b => cache'[i] = G[i]
  <2>1. OnlyBlock(c1, b, cache') /\ \A i \in DOMAIN c1 : c1[i].blk = b => cache'[i] = G[i]
    BY <1>2, <1>5, OnlyBlockIs
  <2> QED BY <1>1, <1>2, <1>3, <2>1 DEF OnlyBlock
<1>6. PICK i \in DOMAIN c : c[i].blk = b
  BY DEF In
<1>7. \A j \in DOMAIN c : c[j].blk = b => j = i
  BY <1>6 DEF Once
<1>8. CASE /\ cache' = Update(c1, b, SyncElt)
           /\ disk' = [d EXCEPT ![b] = c1[LookUp(c1, b)].data]
           /\ faults' = n
  <2> DEFINE G == [j \in DOMAIN c1 |-> SyncElt(c1[j])]
  <2>1. cache' = Replaced(c1, b, G)
    BY <1>8 DEF Update, Replaced
  <2>2. \A j \in DOMAIN c1 : /\ G[j] \in Elements /\ G[j].blk = c1[j].blk
                             /\ G[j].data = c1[j].data /\ G[j].usage = c1[j].usage
    BY <1>2, <1>3, DirtyFacts
  <2> HIDE DEF G
  <2>3. OnlyBlock(c, b, cache') /\ cache'[i] = G[i]
    BY <1>5, <1>6, <2>1, <2>2
  <2>4. disk' = [d EXCEPT ![b] = g[i].data] /\ g[i].data \in Values \cup {"garbage"}
    <3>1. g[i] \in Elements /\ c1[i] = g[i] /\ LookUp(c1, b) = i
      BY <1>1, <1>4, <1>6
    <3> QED BY <1>8, <3>1 DEF Elements
  <2>5. disk'[b] # "mixed"
    BY <2>4, CacheAssumption
  <2> QED BY <1>1, <1>2, <1>6, <1>7, <1>8, <2>2, <2>3, <2>4, <2>5
<1>9. CASE /\ n < MaxFaults
           /\ cache' = Update(c1, b, SetDirty)
           /\ \E x \in {d[b], "mixed"} : disk' = [d EXCEPT ![b] = x]
           /\ faults' = n + 1
  <2> DEFINE G == [j \in DOMAIN c1 |-> SetDirty(c1[j])]
  <2>1. cache' = Replaced(c1, b, G)
    BY <1>9 DEF Update, Replaced
  <2>2. \A j \in DOMAIN c1 : /\ G[j] \in Elements /\ G[j].blk = c1[j].blk
                             /\ G[j].data = c1[j].data /\ G[j].usage = c1[j].usage
                             /\ G[j].dirty
    BY <1>2, <1>3, DirtyFacts
  <2> HIDE DEF G
  <2>3. OnlyBlock(c, b, cache') /\ cache'[i] = G[i]
    BY <1>5, <1>6, <2>1, <2>2
  <2>4. /\ disk' \in [Blocks -> Values \cup {"mixed", "garbage"}]
        /\ \A x \in Blocks \ {b} : disk'[x] = d[x]
    BY <1>9
  <2>5. faults' \in 0 .. MaxFaults
    BY <1>9, CacheAssumption
  <2> QED BY <1>1, <1>2, <1>6, <1>7, <2>2, <2>3, <2>4, <2>5
<1> QED BY <1>8, <1>9 DEF WriteThrough

(* SaveHeld: the block is written through, the pointer given up.           *)
LEMMA SaveHeldKeeps ==
  ASSUME CacheInv, NEW h \in Holders, SaveHeld(h)
  PROVE  CacheInv'
<1> DEFINE b == hold[h].blk
           g == [i \in DOMAIN cache |-> Release(cache[i])]
<1>1. /\ cache \in Seq(Elements) /\ Coherent(cache, disk, hold, written, unread, leaks)
      /\ hold \in [Holders -> [blk : Blocks, use : Uses] \cup {NoBlock}]
      /\ disk \in [Blocks -> Values \cup {"mixed", "garbage"}]
      /\ leaks \in 0 .. MaxLeaks /\ leaks \in Nat /\ faults \in 0 .. MaxFaults /\ Once(cache)
  BY CacheAssumption DEF CacheInv, Coherent, Typed
<1>2. hold[h] # NoBlock /\ b \in Blocks /\ b \notin Copied /\ In(cache, b)
  BY <1>1 DEF SaveHeld, Coherent, Locked
<1>3. Update(cache, b, Release) = Replaced(cache, b, g)
  BY DEF Update, Replaced
<1>4. \A i \in DOMAIN cache :
        /\ cache[i] \in Elements /\ SameButUsage(cache[i], g[i])
        /\ cache[i].usage > 0 => g[i].usage = cache[i].usage - 1
  BY <1>1, ReleaseFacts
<1> HIDE DEF g
<1>5. /\ leaks' = leaks /\ unread' = unread /\ written' = written
      /\ hold' = [hold EXCEPT ![h] = NoBlock]
      /\ WriteThrough(b, Replaced(cache, b, g), disk, faults)
  BY <1>3 DEF SaveHeld
<1>6. /\ hold' \in [Holders -> [blk : Blocks, use : Uses] \cup {NoBlock}]
      /\ hold'[h] = NoBlock /\ \A p \in Holders \ {h} : hold'[p] = hold[p]
      /\ Cardinality(PointersTo(hold, b)) \in Nat
      /\ Cardinality(PointersTo(hold', b)) \in Nat
      /\ Cardinality(PointersTo(hold, b)) = Cardinality(PointersTo(hold', b)) + 1
  BY <1>1, <1>2, <1>5, PointerDropped
<1>7. \A p \in Holders : /\ hold'[p] # NoBlock /\ hold'[p].blk # b
                            <=> hold[p] # NoBlock /\ hold[p].blk # b
                         /\ hold[p] # NoBlock /\ hold[p].blk # b => hold'[p] = hold[p]
  BY <1>6
<1> HIDE DEF b
<1>8. /\ OnlyBlock(cache, b, cache')
      /\ disk' \in [Blocks -> Values \cup {"mixed", "garbage"}]
      /\ \A x \in Blocks \ {b} : disk'[x] = disk[x]
      /\ faults' \in 0 .. MaxFaults
      /\ \A i \in DOMAIN cache : cache[i].blk = b =>
           /\ cache'[i].data = g[i].data /\ cache'[i].usage = g[i].usage
           /\ cache'[i].dirty \/ disk'[b] = g[i].data
           /\ disk'[b] = "mixed" => cache'[i].dirty
  <2>1. \A i \in DOMAIN cache : cache[i].blk = b => g[i] \in Elements /\ g[i].blk = b
    BY <1>4 DEF SameButUsage
  <2> QED BY <1>1, <1>2, <1>5, <2>1, WriteThroughFacts
<1>9. Typed(cache', disk', hold', written, unread, leaks)
  BY <1>1, <1>6, <1>8 DEF Coherent, Typed, OnlyBlock
<1>10. ASSUME NEW i \in DOMAIN cache, cache[i].blk = b
       PROVE  /\ b \in unread \/ written[b] = cache'[i].data
              /\ disk'[b] = "mixed" => cache'[i].dirty
              /\ cache'[i].dirty \/ disk'[b] = cache'[i].data
              /\ UsageFits(cache'[i].usage, Cardinality(PointersTo(hold', b)), leaks)
  <2>1. /\ b \in unread \/ written[b] = cache[i].data
        /\ UsageFits(cache[i].usage, Cardinality(PointersTo(hold, b)), leaks)
        /\ cache[i].usage \in Nat
    BY <1>1, <1>2, <1>10, ElementFacts
  <2>2. g[i].data = cache[i].data /\ cache[i].usage > 0 => g[i].usage = cache[i].usage - 1
    BY <1>4, <1>10 DEF SameButUsage
  <2>3. UsageFits(cache'[i].usage, Cardinality(PointersTo(hold', b)), leaks)
    <3>1. PICK x \in Fresh : cache[i].usage <= x.usage + Cardinality(PointersTo(hold, b)) + leaks
      BY <2>1 DEF UsageFits
    <3>2. x.usage \in Nat
      BY CacheAssumption, UsageType
    <3>3. cache[i].usage >= Cardinality(PointersTo(hold, b))
      BY <2>1 DEF UsageFits
    <3>4. cache'[i].usage = cache[i].usage - 1
      BY <1>4, <1>6, <1>8, <1>10, <2>1, <3>3
    <3> QED BY <1>1, <1>6, <2>1, <3>1, <3>2, <3>3, <3>4 DEF UsageFits
  <2> QED BY <1>4, <1>8, <1>10, <2>1, <2>3 DEF SameButUsage
<1>11. leaks <= leaks
  BY <1>1
<1>12. Coherent(cache', disk', hold', written, unread, leaks)
  BY <1>1, <1>2, <1>7, <1>8, <1>9, <1>10, <1>11, OneBlockChanges DEF OnlyBlock
<1> QED BY <1>5, <1>8, <1>12 DEF CacheInv
(* GiveBack: a pointer that was only read through is given up.             *)
LEMMA GiveBackKeeps ==
  ASSUME CacheInv, NEW h \in Holders, GiveBack(h)
  PROVE  CacheInv'
<1> DEFINE b == hold[h].blk
           g == [i \in DOMAIN cache |-> Unlock(cache[i])]
<1>1. /\ cache \in Seq(Elements) /\ Coherent(cache, disk, hold, written, unread, leaks)
      /\ hold \in [Holders -> [blk : Blocks, use : Uses] \cup {NoBlock}]
      /\ leaks \in Nat
  BY CacheAssumption DEF CacheInv, Coherent, Typed
<1>2. /\ hold[h] # NoBlock /\ hold[h].use = "reading"
      /\ b \in Blocks /\ b \notin Copied /\ In(cache, b)
  BY <1>1 DEF GiveBack, Coherent, Locked
<1>3. cache' = Replaced(cache, b, g)
  BY DEF GiveBack, Update, Replaced
<1>4. \A i \in DOMAIN cache :
        /\ cache[i] \in Elements /\ SameButUsage(cache[i], g[i])
        /\ cache[i].usage > 0 => g[i].usage = cache[i].usage - 1
  BY <1>1, UnlockFacts
<1> HIDE DEF g
<1>5. /\ OnlyBlock(cache, b, cache')
      /\ \A i \in DOMAIN cache : cache[i].blk = b => cache'[i] = g[i]
  BY <1>1, <1>3, <1>4, OnlyBlockIs DEF SameButUsage
<1>6. /\ leaks' = leaks /\ unread' = unread /\ written' = written
      /\ disk' = disk /\ faults' = faults
      /\ hold' = [hold EXCEPT ![h] = NoBlock]
  BY DEF GiveBack
<1>7. /\ hold' \in [Holders -> [blk : Blocks, use : Uses] \cup {NoBlock}]
      /\ hold'[h] = NoBlock /\ \A p \in Holders \ {h} : hold'[p] = hold[p]
      /\ Cardinality(PointersTo(hold, b)) \in Nat
      /\ Cardinality(PointersTo(hold', b)) \in Nat
      /\ Cardinality(PointersTo(hold, b)) = Cardinality(PointersTo(hold', b)) + 1
  BY <1>1, <1>2, <1>6, PointerDropped
<1>8. /\ \A p \in Holders : /\ hold'[p] # NoBlock /\ hold'[p].blk # b
                               <=> hold[p] # NoBlock /\ hold[p].blk # b
                            /\ hold[p] # NoBlock /\ hold[p].blk # b => hold'[p] = hold[p]
  BY <1>7
<1>9. ChangedIn(hold, b) => ChangedIn(hold', b)
  <2> SUFFICES ASSUME NEW p \in Holders, hold[p] # NoBlock,
                      hold[p] = [blk |-> b, use |-> "changed"]
               PROVE  ChangedIn(hold', b)
    BY DEF ChangedIn
  <2>1. p # h
    BY <1>2
  <2> QED BY <2>1, <1>7 DEF ChangedIn
<1> HIDE DEF b
<1>10. Typed(cache', disk, hold', written, unread, leaks)
  BY <1>1, <1>5, <1>7 DEF Coherent, Typed, OnlyBlock
<1>11. ASSUME NEW i \in DOMAIN cache, cache[i].blk = b
       PROVE  /\ b \in unread \/ written[b] = cache'[i].data
              /\ disk[b] = "mixed" => cache'[i].dirty
              /\ \/ cache'[i].dirty \/ b \in unread \/ ChangedIn(hold', b)
                 \/ disk[b] = cache'[i].data
              /\ UsageFits(cache'[i].usage, Cardinality(PointersTo(hold', b)), leaks)
  <2>1. /\ b \in unread \/ written[b] = cache[i].data
        /\ disk[b] = "mixed" => cache[i].dirty
        /\ cache[i].dirty \/ b \in unread \/ ChangedIn(hold, b) \/ disk[b] = cache[i].data
        /\ UsageFits(cache[i].usage, Cardinality(PointersTo(hold, b)), leaks)
        /\ cache[i].usage \in Nat
    BY <1>1, <1>2, <1>11, ElementFacts
  <2>2. cache'[i].data = cache[i].data /\ cache'[i].dirty = cache[i].dirty
    BY <1>4, <1>5, <1>11 DEF SameButUsage
  <2>3. UsageFits(cache'[i].usage, Cardinality(PointersTo(hold', b)), leaks)
    <3>1. PICK x \in Fresh : cache[i].usage <= x.usage + Cardinality(PointersTo(hold, b)) + leaks
      BY <2>1 DEF UsageFits
    <3>2. x.usage \in Nat
      BY CacheAssumption, UsageType
    <3>3. cache[i].usage >= Cardinality(PointersTo(hold, b))
      BY <2>1 DEF UsageFits
    <3>4. cache'[i].usage = cache[i].usage - 1
      BY <1>4, <1>5, <1>7, <1>11, <2>1, <3>3
    <3> QED BY <1>1, <1>7, <2>1, <3>1, <3>2, <3>3, <3>4 DEF UsageFits
  <2> QED BY <1>9, <2>1, <2>2, <2>3
<1>12. leaks <= leaks
  BY <1>1
<1>13. Coherent(cache', disk, hold', written, unread, leaks)
  BY <1>1, <1>2, <1>5, <1>8, <1>10, <1>11, <1>12, OneBlockChanges DEF OnlyBlock
<1> QED BY <1>6, <1>13 DEF CacheInv

(* Leak: the pointer is given up, its lock is not.                         *)
LEMMA LeakKeeps ==
  ASSUME CacheInv, NEW h \in Holders, Leak(h)
  PROVE  CacheInv'
<1> DEFINE b == hold[h].blk
<1>1. /\ cache \in Seq(Elements) /\ Coherent(cache, disk, hold, written, unread, leaks)
      /\ hold \in [Holders -> [blk : Blocks, use : Uses] \cup {NoBlock}]
      /\ leaks \in 0 .. MaxLeaks /\ leaks \in Nat /\ MaxLeaks \in Nat
  BY CacheAssumption DEF CacheInv, Coherent, Typed
<1>2. /\ hold[h] # NoBlock /\ hold[h].use = "reading"
      /\ b \in Blocks /\ b \notin Copied /\ In(cache, b)
  BY <1>1 DEF Leak, Coherent, Locked
<1>3. /\ leaks' = leaks + 1 /\ leaks' \in 0 .. MaxLeaks
      /\ cache' = cache /\ unread' = unread /\ written' = written
      /\ disk' = disk /\ faults' = faults
      /\ hold' = [hold EXCEPT ![h] = NoBlock]
  BY <1>1 DEF Leak
<1>4. /\ hold' \in [Holders -> [blk : Blocks, use : Uses] \cup {NoBlock}]
      /\ hold'[h] = NoBlock /\ \A p \in Holders \ {h} : hold'[p] = hold[p]
      /\ Cardinality(PointersTo(hold, b)) \in Nat
      /\ Cardinality(PointersTo(hold', b)) \in Nat
      /\ Cardinality(PointersTo(hold, b)) = Cardinality(PointersTo(hold', b)) + 1
  BY <1>1, <1>2, <1>3, PointerDropped
<1>5. /\ \A p \in Holders : /\ hold'[p] # NoBlock /\ hold'[p].blk # b
                               <=> hold[p] # NoBlock /\ hold[p].blk # b
                            /\ hold[p] # NoBlock /\ hold[p].blk # b => hold'[p] = hold[p]
  BY <1>4
<1>6. ChangedIn(hold, b) => ChangedIn(hold', b)
  <2> SUFFICES ASSUME NEW p \in Holders, hold[p] # NoBlock,
                      hold[p] = [blk |-> b, use |-> "changed"]
               PROVE  ChangedIn(hold', b)
    BY DEF ChangedIn
  <2>1. p # h
    BY <1>2
  <2> QED BY <2>1, <1>4 DEF ChangedIn
<1> HIDE DEF b
<1>7. Typed(cache, disk, hold', written, unread, leaks')
  BY <1>1, <1>3, <1>4 DEF Coherent, Typed
<1>8. ASSUME NEW i \in DOMAIN cache, cache[i].blk = b
      PROVE  /\ b \in unread \/ written[b] = cache[i].data
             /\ disk[b] = "mixed" => cache[i].dirty
             /\ \/ cache[i].dirty \/ b \in unread \/ ChangedIn(hold', b)
                \/ disk[b] = cache[i].data
             /\ UsageFits(cache[i].usage, Cardinality(PointersTo(hold', b)), leaks')
  <2>1. /\ b \in unread \/ written[b] = cache[i].data
        /\ disk[b] = "mixed" => cache[i].dirty
        /\ cache[i].dirty \/ b \in unread \/ ChangedIn(hold, b) \/ disk[b] = cache[i].data
        /\ UsageFits(cache[i].usage, Cardinality(PointersTo(hold, b)), leaks)
        /\ cache[i].usage \in Nat
    BY <1>1, <1>2, <1>8, ElementFacts
  <2>2. PICK x \in Fresh : cache[i].usage <= x.usage + Cardinality(PointersTo(hold, b)) + leaks
    BY <2>1 DEF UsageFits
  <2>3. x.usage \in Nat
    BY CacheAssumption, UsageType
  <2>4. cache[i].usage >= Cardinality(PointersTo(hold, b))
    BY <2>1 DEF UsageFits
  <2>5. UsageFits(cache[i].usage, Cardinality(PointersTo(hold', b)), leaks')
    <3>1. leaks \in Nat /\ leaks' = leaks + 1
      BY <1>1, <1>3
    <3>2. /\ Cardinality(PointersTo(hold', b)) \in Nat
          /\ Cardinality(PointersTo(hold, b)) = Cardinality(PointersTo(hold', b)) + 1
      BY <1>4
    <3>3. cache[i].usage \in Nat
      BY <2>1
    <3>4. cache[i].usage <= x.usage + Cardinality(PointersTo(hold', b)) + leaks'
      BY <2>2, <2>3, <3>1, <3>2, <3>3
    <3>5. cache[i].usage >= Cardinality(PointersTo(hold', b))
      BY <2>4, <3>2, <3>3
    <3> QED BY <3>4, <3>5 DEF UsageFits
  <2> QED BY <1>6, <2>1, <2>5
<1>9. leaks <= leaks'
  BY <1>1, <1>3
<1>10. Coherent(cache, disk, hold', written, unread, leaks')
  BY <1>1, <1>2, <1>5, <1>7, <1>8, <1>9, OneBlockChanges
<1> QED BY <1>3, <1>10 DEF CacheInv

(* SaveCopy: the superblock and the descriptor table have no pointers.     *)
LEMMA SaveCopyKeeps ==
  ASSUME CacheInv, NEW b \in Blocks, NEW v \in Values, SaveCopy(b, v)
  PROVE  CacheInv'
<1>1. PICK f \in Get(b) :
        /\ Got(b, f)
        /\ IF f.how = "none"
           THEN cache' = f.cache /\ disk' = f.disk /\ faults' = f.faults /\ UNCHANGED written
           ELSE /\ WriteThrough(b, Update(f.cache, b, LAMBDA e : Release([e EXCEPT !.data = v])),
                                f.disk, f.faults)
                /\ written' = [written EXCEPT ![b] = v]
  BY DEF SaveCopy
<1>2. GotBlock(b, f, unread')
  <2>1. b \in 0 .. PartBlocks + 1
    BY CacheAssumption DEF Blocks
  <2> QED BY <2>1, <1>1, GetKeeps DEF Got
<1>3. b \in Copied /\ hold' = hold /\ leaks' = leaks
  BY DEF SaveCopy
<1>4. CASE f.how = "none"
  BY <1>1, <1>2, <1>3, <1>4 DEF GotBlock, CacheInv
<1>5. CASE f.how # "none"
  <2> DEFINE c == f.cache
             g == [i \in DOMAIN c |-> Release([c[i] EXCEPT !.data = v])]
  <2>1. /\ c \in Seq(Elements) /\ Once(c) /\ In(c, b)
        /\ Coherent(c, f.disk, hold, written, unread', leaks)
        /\ f.disk \in [Blocks -> Values \cup {"mixed", "garbage"}]
        /\ f.faults \in 0 .. MaxFaults /\ leaks \in Nat
    BY <1>2, <1>5, CacheAssumption DEF GotBlock, Coherent, Typed
  <2>2. WriteThrough(b, Replaced(c, b, g), f.disk, f.faults)
    BY <1>1, <1>5 DEF Update, Replaced
  <2>3. \A i \in DOMAIN c : g[i] \in Elements /\ g[i].blk = c[i].blk /\ g[i].data = v
    <3> SUFFICES ASSUME NEW i \in DOMAIN c
                 PROVE  g[i] \in Elements /\ g[i].blk = c[i].blk /\ g[i].data = v
      OBVIOUS
    <3> DEFINE y == [c[i] EXCEPT !.data = v]
    <3>1. y \in Elements /\ y.blk = c[i].blk /\ y.data = v
      BY <2>1, DataFacts
    <3>2. g[i] = Release(y)
      OBVIOUS
    <3> HIDE DEF y, g, c
    <3> QED BY <3>1, <3>2, ReleaseFacts DEF SameButUsage
  <2> HIDE DEF g, c
  <2>4. /\ OnlyBlock(c, b, cache')
        /\ disk' \in [Blocks -> Values \cup {"mixed", "garbage"}]
        /\ \A x \in Blocks \ {b} : disk'[x] = f.disk[x]
        /\ faults' \in 0 .. MaxFaults
        /\ \A i \in DOMAIN c : c[i].blk = b =>
             /\ cache'[i].data = v
             /\ cache'[i].dirty \/ disk'[b] = v
             /\ disk'[b] = "mixed" => cache'[i].dirty
    BY <2>1, <2>2, <2>3, WriteThroughFacts
  <2>5. /\ written' \in [Blocks -> Values] /\ written'[b] = v
        /\ \A x \in Blocks \ {b} : written'[x] = written[x]
    BY <1>1, <1>5 DEF CacheInv, Coherent, Typed
  <2>6. Typed(cache', disk', hold, written', unread', leaks)
    BY <2>1, <2>4, <2>5 DEF Coherent, Typed, OnlyBlock
  <2>7. \A p \in Holders : hold[p] # NoBlock => hold[p].blk # b
    BY <1>3 DEF CacheInv, Coherent, Locked
  <2>8. leaks <= leaks
    BY <2>1
  <2>9. Coherent(cache', disk', hold, written', unread', leaks)
    BY <1>3, <2>1, <2>4, <2>5, <2>6, <2>7, <2>8, OneBlockChanges DEF OnlyBlock
  <2> QED BY <1>3, <2>4, <2>9 DEF CacheInv
<1> QED BY <1>4, <1>5
(* Peek: the block is only copied.                                         *)
LEMMA PeekKeeps ==
  ASSUME CacheInv, NEW b \in Blocks, Peek(b)
  PROVE  CacheInv'
<1>1. PICK f \in Get(b) :
        /\ Got(b, f)
        /\ disk' = f.disk
        /\ \/ cache' = Update(f.cache, b, LAMBDA e : Unlock(Lock(e))) /\ faults' = f.faults
           \/ /\ f.how # "none" /\ f.faults < MaxFaults
              /\ cache' = Update(f.cache, b, Lock) /\ faults' = f.faults + 1
  BY DEF Peek
<1>2. GotBlock(b, f, unread')
  <2>1. b \in 0 .. PartBlocks + 1
    BY CacheAssumption DEF Blocks
  <2> QED BY <2>1, <1>1, GetKeeps DEF Got
<1>3. /\ b \in Copied /\ hold' = hold /\ leaks' = leaks /\ written' = written /\ disk' = f.disk
      /\ leaks \in Nat
  BY <1>1, CacheAssumption DEF Peek, CacheInv, Coherent, Typed
<1> DEFINE c == f.cache
           g1 == [i \in DOMAIN c |-> Unlock(Lock(c[i]))]
           g2 == [i \in DOMAIN c |-> Lock(c[i])]
<1>4. c \in Seq(Elements) /\ Coherent(c, f.disk, hold, written, unread', leaks)
  BY <1>2 DEF GotBlock, Coherent, Typed
<1>5. \A i \in DOMAIN c : SameButUsage(c[i], g1[i]) /\ SameButUsage(c[i], g2[i])
  <2> SUFFICES ASSUME NEW i \in DOMAIN c
               PROVE  SameButUsage(c[i], g1[i]) /\ SameButUsage(c[i], g2[i])
    OBVIOUS
  <2>1. SameButUsage(c[i], Lock(c[i]))
    BY <1>4, LockFacts
  <2>2. SameButUsage(Lock(c[i]), Unlock(Lock(c[i])))
    BY <2>1, UnlockFacts DEF SameButUsage
  <2> QED BY <2>1, <2>2 DEF SameButUsage
<1>6. PICK g \in {g1, g2} : cache' = Replaced(c, b, g)
  BY <1>1 DEF Update, Replaced
<1>7. \A i \in DOMAIN c : SameButUsage(c[i], g[i])
  BY <1>5
<1> HIDE DEF g1, g2, c
<1>8. /\ OnlyBlock(c, b, cache')
      /\ \A i \in DOMAIN c : c[i].blk = b => cache'[i] = g[i]
      /\ ~ In(c, b) => cache' = c
  BY <1>4, <1>6, <1>7, OnlyBlockIs DEF SameButUsage
<1>9. faults' \in 0 .. MaxFaults
  BY <1>1, <1>2, CacheAssumption DEF GotBlock
<1>10. Coherent(cache', f.disk, hold, written, unread', leaks)
  <2>1. CASE ~ In(c, b)
    BY <2>1, <1>4, <1>8
  <2>2. CASE In(c, b)
    <3>1. Typed(cache', f.disk, hold, written, unread', leaks)
      BY <1>4, <1>8 DEF Coherent, Typed, OnlyBlock
    <3>2. ASSUME NEW i \in DOMAIN c, c[i].blk = b
          PROVE  /\ b \in unread' \/ written[b] = cache'[i].data
                 /\ f.disk[b] = "mixed" => cache'[i].dirty
                 /\ \/ cache'[i].dirty \/ b \in unread' \/ ChangedIn(hold, b)
                    \/ f.disk[b] = cache'[i].data
      <4>1. /\ b \in unread' \/ written[b] = c[i].data
            /\ f.disk[b] = "mixed" => c[i].dirty
            /\ c[i].dirty \/ b \in unread' \/ ChangedIn(hold, b) \/ f.disk[b] = c[i].data
        BY <1>4, <3>2, ElementFacts
      <4> QED BY <4>1, <1>7, <1>8, <3>2 DEF SameButUsage
    <3>3. \A p \in Holders : hold[p] # NoBlock => hold[p].blk # b
      BY <1>3 DEF CacheInv, Coherent, Locked
    <3>4. leaks <= leaks
      BY <1>3
    <3> QED BY <1>3, <1>4, <1>8, <2>2, <3>1, <3>2, <3>3, <3>4, OneBlockChanges DEF OnlyBlock
  <2> QED BY <2>1, <2>2
<1> QED BY <1>3, <1>9, <1>10 DEF CacheInv

(* sync and free_cache_list, when nobody holds a block.                    *)
LEMMA SyncKeeps ==
  ASSUME CacheInv, Sync
  PROVE  CacheInv'
<1> DEFINE dirty == {e.blk : e \in {x \in ToSet(cache) : x.dirty}}
<1>30. PICK failed \in SUBSET dirty :
        /\ faults' = faults + Cardinality(failed) /\ faults' <= MaxFaults
        /\ cache' = [i \in DOMAIN cache |-> IF cache[i].blk \in failed THEN cache[i]
                                            ELSE SyncElt(cache[i])]
        /\ \E left \in [failed -> UNION {HalfWritten(b) : b \in failed}] :
             disk' = [b \in Blocks |->
                        IF b \in failed THEN left[b]
                        ELSE IF Cached(b) /\ cache[LookUp(cache, b)].dirty
                        THEN cache[LookUp(cache, b)].data ELSE disk[b]]
  BY DEF Sync
<1>31. PICK left \in [failed -> UNION {HalfWritten(b) : b \in failed}] :
        disk' = [b \in Blocks |->
                   IF b \in failed THEN left[b]
                   ELSE IF Cached(b) /\ cache[LookUp(cache, b)].dirty
                   THEN cache[LookUp(cache, b)].data ELSE disk[b]]
  BY <1>30
<1>2. /\ cache \in Seq(Elements) /\ DOMAIN cache = 1 .. Len(cache) /\ Len(cache) \in Nat
      /\ DOMAIN cache \subseteq Nat \ {0} /\ Once(cache)
  BY DEF CacheInv, Coherent, Typed
<1>3. /\ Coherent(cache, disk, hold, written, unread, leaks)
      /\ disk \in [Blocks -> Values \cup {"mixed", "garbage"}]
      /\ faults \in 0 .. MaxFaults /\ MaxFaults \in Nat
  BY CacheAssumption DEF CacheInv, Coherent, Typed
<1>4. /\ hold' = hold /\ written' = written /\ leaks' = leaks /\ unread' = unread
      /\ \A b : ~ ChangedIn(hold, b)
  BY DEF Sync, NobodyHolds, ChangedIn
<1>5. \A i \in DOMAIN cache : /\ cache[i] \in Elements /\ cache[i].blk \in Blocks
                              /\ LookUp(cache, cache[i].blk) = i
  BY <1>2, ElementType, LookUpFinds
<1>6. \A i \in DOMAIN cache :
        cache[i].blk \in dirty => cache[i].dirty
  <2> SUFFICES ASSUME NEW i \in DOMAIN cache, cache[i].blk \in dirty
               PROVE  cache[i].dirty
    OBVIOUS
  <2>1. PICK e \in ToSet(cache) : e.dirty /\ e.blk = cache[i].blk
    OBVIOUS
  <2>2. PICK j \in DOMAIN cache : cache[j] = e
    BY DEF ToSet
  <2> QED BY <1>2, <2>1, <2>2 DEF Once
<1>7. \A b \in dirty : b \in Blocks /\ \E i \in DOMAIN cache : cache[i].blk = b
  BY <1>5 DEF ToSet
<1> HIDE DEF dirty
<1>8. \A i \in DOMAIN cache :
        /\ cache'[i] \in Elements /\ cache'[i].blk = cache[i].blk
        /\ cache'[i].data = cache[i].data /\ cache'[i].usage = cache[i].usage
        /\ IF cache[i].blk \in failed
           THEN cache'[i].dirty
           ELSE /\ ~ cache'[i].dirty
                /\ disk'[cache[i].blk] = IF cache[i].dirty THEN cache[i].data
                                         ELSE disk[cache[i].blk]
  <2> SUFFICES ASSUME NEW i \in DOMAIN cache
               PROVE  /\ cache'[i] \in Elements /\ cache'[i].blk = cache[i].blk
                      /\ cache'[i].data = cache[i].data /\ cache'[i].usage = cache[i].usage
                      /\ IF cache[i].blk \in failed
                         THEN cache'[i].dirty
                         ELSE /\ ~ cache'[i].dirty
                              /\ disk'[cache[i].blk] = IF cache[i].dirty THEN cache[i].data
                                                       ELSE disk[cache[i].blk]
    OBVIOUS
  <2>1. CASE cache[i].blk \in failed
    <3>1. cache'[i] = cache[i] /\ cache[i].dirty
      BY <1>30, <1>31, <1>6, <2>1
    <3> QED BY <1>5, <2>1, <3>1
  <2>2. CASE cache[i].blk \notin failed
    <3>1. cache'[i] = SyncElt(cache[i])
      BY <1>30, <1>31, <2>2
    <3>2. i # 0
      BY <1>2
    <3>3. disk'[cache[i].blk] = IF cache[i].dirty THEN cache[i].data ELSE disk[cache[i].blk]
      BY <1>30, <1>31, <1>5, <2>2, <3>2 DEF Cached
    <3> QED BY <1>5, <2>2, <3>1, <3>3, DirtyFacts
  <2> QED BY <2>1, <2>2
<1>9. DOMAIN cache' = DOMAIN cache /\ cache' \in Seq(Elements)
  <2>1. DOMAIN cache' = DOMAIN cache
    BY <1>30
  <2>2. cache' = [i \in 1 .. Len(cache) |-> cache'[i]]
    BY <1>30, <1>31, <1>2
  <2> QED BY <1>2, <1>8, <2>1, <2>2
<1>10. \A b : In(cache', b) <=> In(cache, b)
  BY <1>8, <1>9 DEF In
<1>11. disk' \in [Blocks -> Values \cup {"mixed", "garbage"}]
  <2>1. ASSUME NEW b \in failed
        PROVE  left[b] \in Values \cup {"mixed", "garbage"}
    <3>1. PICK x \in failed : left[b] \in HalfWritten(x)
      OBVIOUS
    <3> QED BY <1>3, <1>7, <3>1 DEF HalfWritten
  <2>2. ASSUME NEW b \in Blocks, Cached(b)
        PROVE  cache[LookUp(cache, b)].data \in Values \cup {"mixed", "garbage"}
    BY <1>2, <2>2, LookUpFinds, ElementType DEF Cached
  <2> QED BY <1>30, <1>31, <1>3, <2>1, <2>2
<1>12. ASSUME NEW b \in Blocks, ~ In(cache, b)
       PROVE  disk'[b] = disk[b]
  <2>1. b \notin failed
    BY <1>7, <1>12 DEF In
  <2>2. ~ Cached(b)
    BY <1>2, <1>12, LookUpFinds DEF Cached
  <2> QED BY <1>30, <1>31, <2>1, <2>2
<1>13. faults' \in 0 .. MaxFaults
  <2>1. IsFiniteSet(Blocks)
    BY FS_Interval, CacheAssumption DEF Blocks
  <2>2. failed \subseteq Blocks
    BY <1>7
  <2>4. Cardinality(failed) \in Nat
    BY <2>1, <2>2, FS_Subset, FS_CardinalityType
  <2> QED BY <1>30, <1>3, <2>4
<1>14. Typed(cache', disk', hold, written, unread, leaks)
  BY <1>3, <1>9, <1>11 DEF Coherent, Typed
<1>15. Once(cache')
  BY <1>2, <1>8, <1>9 DEF Once
<1>16. Latest(cache', disk', written, unread)
  BY <1>3, <1>8, <1>9, <1>10, <1>12 DEF Coherent, Latest
<1>17. Saved(cache', disk', hold, unread)
  <2> SUFFICES ASSUME NEW i \in DOMAIN cache, cache[i].blk \notin failed,
                      cache[i].blk \notin unread
               PROVE  disk'[cache[i].blk] = cache[i].data
    BY <1>8, <1>9 DEF Saved
  <2>1. cache[i].dirty \/ disk[cache[i].blk] = cache[i].data
    BY <1>3, <1>4 DEF Coherent, Saved
  <2> QED BY <1>8, <2>1
<1>18. Whole(cache', disk')
  <2> SUFFICES ASSUME NEW b \in Blocks, disk'[b] = "mixed"
               PROVE  \E i \in DOMAIN cache' : cache'[i].blk = b /\ cache'[i].dirty
    BY DEF Whole
  <2>1. CASE ~ In(cache, b)
    BY <1>3, <1>12, <2>1 DEF Coherent, Whole, In
  <2>2. CASE In(cache, b)
    <3>1. PICK i \in DOMAIN cache : cache[i].blk = b
      BY <2>2 DEF In
    <3>2. cache[i].data # "mixed"
      <4>1. cache[i].data \in Values \cup {"garbage"}
        BY <1>2, ElementType
      <4> QED BY <4>1, CacheAssumption
    <3>3. CASE b \in failed
      BY <1>8, <1>9, <3>1, <3>3
    <3>4. CASE b \notin failed
      <4>1. ~ cache[i].dirty /\ disk[b] = "mixed"
        BY <1>8, <3>1, <3>2, <3>4
      <4>2. PICK j \in DOMAIN cache : cache[j].blk = b /\ cache[j].dirty
        BY <1>3, <4>1 DEF Coherent, Whole
      <4> QED BY <1>2, <3>1, <4>1, <4>2 DEF Once
    <3> QED BY <3>3, <3>4
  <2> QED BY <2>1, <2>2
<1>19. Locked(cache', hold, leaks)
  BY <1>3, <1>8, <1>9, <1>10 DEF Coherent, Locked
<1>20. Coherent(cache', disk', hold, written, unread, leaks)
  BY <1>14, <1>15, <1>16, <1>17, <1>18, <1>19 DEF Coherent
<1> QED BY <1>4, <1>13, <1>20 DEF CacheInv

LEMMA FreeAllKeeps ==
  ASSUME CacheInv, FreeAll
  PROVE  CacheInv'
<1>1. PICK r \in FreeCacheList : cache' = r.cache /\ disk' = r.disk /\ faults' = r.faults
  BY DEF FreeAll
<1>2. Coherent(r.cache, r.disk, hold, written, unread, leaks) /\ r.faults \in 0 .. MaxFaults
  BY <1>1, FreeCacheListKeeps
<1> QED BY <1>1, <1>2 DEF FreeAll, CacheInv

-----------------------------------------------------------------------------
(* The cache starts empty, and every action keeps it coherent.             *)
LEMMA CacheInvInit == CacheInit => CacheInv
<1> SUFFICES ASSUME CacheInit
             PROVE  CacheInv
  OBVIOUS
<1>1. /\ cache = << >> /\ DOMAIN cache = {} /\ cache \in Seq(Elements)
      /\ unread = {} /\ leaks = 0 /\ faults = 0 /\ written = disk
      /\ disk \in [Blocks -> Values]
      /\ hold = [h \in Holders |-> NoBlock]
      /\ leaks \in 0 .. MaxLeaks /\ faults \in 0 .. MaxFaults
  BY CacheAssumption DEF CacheInit
<1>2. Typed(cache, disk, hold, written, unread, leaks)
  BY <1>1 DEF Typed
<1>3. \A b \in Blocks : disk[b] # "mixed"
  BY <1>1, CacheAssumption
<1>4. Coherent(cache, disk, hold, written, unread, leaks)
  BY <1>1, <1>2, <1>3 DEF Coherent, Once, Latest, Saved, Whole, Locked
<1> QED BY <1>1, <1>4 DEF CacheInv

LEMMA CacheInvStep == FewLocks /\ CacheInv /\ [CacheNext]_cacheVars => CacheInv'
<1> SUFFICES ASSUME FewLocks, CacheInv, [CacheNext]_cacheVars
             PROVE  CacheInv'
  OBVIOUS
<1>1. CASE UNCHANGED cacheVars
  BY <1>1 DEF cacheVars, CacheInv
<1>2. CASE \E h \in Holders, b \in 0 .. PartBlocks + 1 : Read(h, b)
  BY <1>2, ReadKeeps
<1>3. CASE \E b \in Blocks, v \in Values : Write(b, v)
  BY <1>3, WriteKeeps
<1>4. CASE \E h \in Holders, v \in Values : Change(h, v)
  BY <1>4, ChangeKeeps
<1>5. CASE \E h \in Holders : SaveHeld(h) \/ GiveBack(h) \/ Leak(h)
  BY <1>5, SaveHeldKeeps, GiveBackKeeps, LeakKeeps
<1>6. CASE \E b \in Blocks : Peek(b) \/ \E v \in Values : SaveCopy(b, v)
  BY <1>6, PeekKeeps, SaveCopyKeeps
<1>7. CASE Sync
  BY <1>7, SyncKeeps
<1>8. CASE FreeAll
  BY <1>8, FreeAllKeeps
<1> QED BY <1>1, <1>2, <1>3, <1>4, <1>5, <1>6, <1>7, <1>8 DEF CacheNext

(* Every reachable state satisfies the inductive invariant.                *)
THEOREM CacheInvHolds == FewLocks => (CacheSpec => []CacheInv)
<1> SUFFICES ASSUME FewLocks
             PROVE  CacheSpec => []CacheInv
  OBVIOUS
<1>1. CacheInv /\ [CacheNext]_cacheVars => CacheInv'
  BY CacheInvStep
<1> QED BY <1>1, CacheInvInit, PTL DEF CacheSpec

(* A block reads as what was last put there, whatever was evicted, failed  *)
(* or fetched again since, and is never twice in the cache (fetch_block,   *)
(* free_cache_list, write_block).                                          *)
THEOREM ReadsSeeWritesHolds == FewLocks => (CacheSpec => []ReadsSeeWrites)
<1>1. CacheInv => ReadsSeeWrites
  <2> SUFFICES ASSUME CacheInv
               PROVE  ReadsSeeWrites
    OBVIOUS
  <2>1. /\ cache \in Seq(Elements) /\ DOMAIN cache \subseteq Nat \ {0} /\ Once(cache)
        /\ Latest(cache, disk, written, unread)
    BY DEF CacheInv, Coherent, Typed
  <2>2. CacheTypeOK
    BY DEF CacheTypeOK, CacheInv, Coherent, Typed
  <2>3. ASSUME NEW b \in Blocks \ unread
        PROVE  written[b] = IF Cached(b) THEN cache[LookUp(cache, b)].data ELSE disk[b]
    <3>1. /\ Cached(b) <=> In(cache, b)
          /\ Cached(b) => LookUp(cache, b) \in DOMAIN cache /\ cache[LookUp(cache, b)].blk = b
      BY <2>1, LookUpFinds DEF Cached
    <3> QED BY <2>1, <3>1 DEF Latest
  <2> QED BY <2>1, <2>2, <2>3 DEF ReadsSeeWrites, Once
<1> QED BY <1>1, CacheInvHolds, PTL

(* A clean block of the cache is on the disk, whole, unless its holder is  *)
(* changing it (sync_elt, write_block).                                    *)
THEOREM CleanMeansSavedHolds == FewLocks => (CacheSpec => []CleanMeansSaved)
<1>1. CacheInv => CleanMeansSaved
  BY DEF CacheInv, Coherent, Saved, ChangedIn, CleanMeansSaved, ToSet
<1> QED BY <1>1, CacheInvHolds, PTL

(* The block under a pointer that is still held is not evicted, and is     *)
(* locked once for each pointer (read_block_c, free_cache_list).           *)
THEOREM HeldStaysCachedHolds == FewLocks => (CacheSpec => []HeldStaysCached)
<1>1. CacheInv => HeldStaysCached
  <2> SUFFICES ASSUME CacheInv, NEW b \in Blocks, Cardinality(PointersTo(hold, b)) > 0
               PROVE  /\ Cached(b)
                      /\ cache[LookUp(cache, b)].usage >= Cardinality(PointersTo(hold, b))
    BY DEF HeldStaysCached, PointersTo
  <2>1. PICK p \in Holders : hold[p] # NoBlock /\ hold[p].blk = b
    <3>1. PointersTo(hold, b) # {}
      BY PointersFinite
    <3> QED BY <3>1 DEF PointersTo
  <2>2. /\ b \notin Copied /\ In(cache, b)
        /\ Coherent(cache, disk, hold, written, unread, leaks)
    BY <2>1 DEF CacheInv, Coherent, Locked
  <2>3. PICK i \in DOMAIN cache : cache[i].blk = b
    BY <2>2 DEF In
  <2>4. /\ LookUp(cache, b) = i /\ i # 0
        /\ UsageFits(cache[i].usage, Cardinality(PointersTo(hold, b)), leaks)
    BY <2>2, <2>3, ElementFacts
  <2> QED BY <2>4 DEF Cached, UsageFits
<1> QED BY <1>1, CacheInvHolds, PTL

(* A step that gets block b leaves as many elements as getting it did.     *)
LEMMA GetOverflows ==
  ASSUME CacheInv, CacheInv', NEW b \in 0 .. PartBlocks + 1, NEW f \in Get(b), Got(b, f),
         DOMAIN cache' = DOMAIN f.cache, faults' = f.faults \/ faults' = f.faults + 1,
         Len(cache) = MAX_CACHE_SIZE, Len(cache') > MAX_CACHE_SIZE
  PROVE  (\A e \in ToSet(cache) : e.usage # 0) \/ faults' > faults
<1>1. /\ GotBlock(b, f, unread')
      /\ Len(cache) = MAX_CACHE_SIZE /\ Len(f.cache) > MAX_CACHE_SIZE
           => (\A e \in ToSet(cache) : e.usage # 0) \/ f.faults > faults
  BY GetKeeps DEF Got
<1>2. f.cache \in Seq(Elements) /\ cache' \in Seq(Elements)
  BY <1>1 DEF GotBlock, CacheInv, Coherent, Typed
<1>3. Len(cache') = Len(f.cache)
  BY <1>2
<1>4. f.faults \in Nat /\ faults \in Nat
  BY <1>1, CacheAssumption DEF GotBlock, CacheInv
<1> QED BY <1>1, <1>3, <1>4

(* The cache grows past its limit only when each block in it is locked or  *)
(* the write of one to evict failed (check_if_cache_is_full).              *)
THEOREM OverflowsOnlyLockedHolds == FewLocks => (CacheSpec => OverflowsOnlyLocked)
<1> DEFINE Room == Len(cache) = MAX_CACHE_SIZE /\ Len(cache') > MAX_CACHE_SIZE
                     => (\A e \in ToSet(cache) : e.usage # 0) \/ faults' > faults
<1>1. ASSUME FewLocks, CacheInv, [CacheNext]_cacheVars
      PROVE  [Room]_cacheVars
  <2> SUFFICES ASSUME CacheNext, Len(cache) = MAX_CACHE_SIZE, Len(cache') > MAX_CACHE_SIZE
               PROVE  (\A e \in ToSet(cache) : e.usage # 0) \/ faults' > faults
    BY <1>1
  <2>1. CacheInv'
    BY <1>1, CacheInvStep
  <2>2. /\ cache \in Seq(Elements) /\ cache' \in Seq(Elements)
        /\ Len(cache) \in Nat /\ Len(cache') \in Nat
    BY <1>1, <2>1 DEF CacheInv, Coherent, Typed
  <2>3. DOMAIN cache' # DOMAIN cache
    BY <2>2
  <2>4. \A b \in Blocks : b \in 0 .. PartBlocks + 1
    BY CacheAssumption DEF Blocks
  <2>5. ASSUME NEW h \in Holders, NEW b \in 0 .. PartBlocks + 1, Read(h, b)
        PROVE  (\A e \in ToSet(cache) : e.usage # 0) \/ faults' > faults
    <3>1. PICK f \in Get(b) : /\ Got(b, f) /\ faults' = f.faults
                              /\ cache' = Update(f.cache, b, Lock)
      BY <2>5 DEF Read
    <3>2. DOMAIN cache' = DOMAIN f.cache
      BY <3>1 DEF Update
    <3> QED BY <1>1, <2>1, <3>1, <3>2, GetOverflows
  <2>6. ASSUME NEW b \in Blocks, NEW v \in Values, Write(b, v)
        PROVE  (\A e \in ToSet(cache) : e.usage # 0) \/ faults' > faults
    <3>1. PICK f \in Get(b) :
            /\ Got(b, f) /\ faults' = f.faults
            /\ cache' = Update(f.cache, b,
                          LAMBDA e : Unlock([SetDirty(Lock(e)) EXCEPT !.data = v]))
      BY <2>6 DEF Write
    <3>2. DOMAIN cache' = DOMAIN f.cache
      BY <3>1 DEF Update
    <3> QED BY <1>1, <2>1, <2>4, <3>1, <3>2, GetOverflows
  <2>7. ASSUME NEW b \in Blocks, Peek(b)
        PROVE  (\A e \in ToSet(cache) : e.usage # 0) \/ faults' > faults
    <3>1. PICK f \in Get(b) :
            /\ Got(b, f)
            /\ \/ cache' = Update(f.cache, b, LAMBDA e : Unlock(Lock(e))) /\ faults' = f.faults
               \/ cache' = Update(f.cache, b, Lock) /\ faults' = f.faults + 1
      BY <2>7 DEF Peek
    <3>2. DOMAIN cache' = DOMAIN f.cache
      BY <3>1 DEF Update
    <3> QED BY <1>1, <2>1, <2>4, <3>1, <3>2, GetOverflows
  <2>8. ASSUME NEW b \in Blocks, NEW v \in Values, SaveCopy(b, v)
        PROVE  (\A e \in ToSet(cache) : e.usage # 0) \/ faults' > faults
    <3>1. PICK f \in Get(b) :
            /\ Got(b, f)
            /\ IF f.how = "none" THEN cache' = f.cache /\ faults' = f.faults
               ELSE WriteThrough(b, Update(f.cache, b, LAMBDA e : Release([e EXCEPT !.data = v])),
                                 f.disk, f.faults)
      BY <2>8 DEF SaveCopy
    <3>2. DOMAIN cache' = DOMAIN f.cache /\ (faults' = f.faults \/ faults' = f.faults + 1)
      BY <3>1 DEF WriteThrough, Update
    <3> QED BY <1>1, <2>1, <2>4, <3>1, <3>2, GetOverflows
  <2>9. ASSUME NEW h \in Holders,
               \/ \E v \in Values : Change(h, v)
               \/ SaveHeld(h) \/ GiveBack(h) \/ Leak(h)
        PROVE  FALSE
    BY <2>3, <2>9 DEF Change, SaveHeld, GiveBack, Leak, WriteThrough, Update
  <2>10. ~ Sync
    BY <2>3 DEF Sync
  <2>11. CASE FreeAll
    <3>1. PICK r \in FreeCacheList : cache' = r.cache /\ faults' = r.faults
      BY <2>11 DEF FreeAll
    <3>2. \/ faults' > faults
          \/ \A e \in ToSet(cache) : e.usage # 0
          \/ Len(cache') < Len(cache)
      BY <1>1, <3>1, FreeCacheListKeeps
    <3> QED BY <2>2, <3>2
  <2> QED BY <2>5, <2>6, <2>7, <2>8, <2>9, <2>10, <2>11 DEF CacheNext
<1> SUFFICES ASSUME FewLocks
             PROVE  CacheSpec => OverflowsOnlyLocked
  OBVIOUS
<1>2. CacheInv /\ [CacheNext]_cacheVars => [Room]_cacheVars
  BY <1>1
<1>3. CacheSpec => []CacheInv
  BY CacheInvHolds
<1> QED BY <1>2, <1>3, PTL DEF CacheSpec, OverflowsOnlyLocked

-----------------------------------------------------------------------------
(***************************************************************************)
(* What is kept of the frames and the shared pages, for any finite sets of *)
(* processes and names, and any number of frames.                          *)
(*                                                                         *)
(* MemInv is the inductive invariant.  To what the runs check it adds what *)
(* holds of one process, Fits, stated of the values of its variables so    *)
(* that it can be said of those it gets; all the steps but a failed one    *)
(* change the memory of one process, and pages.  StepKeeps says once what  *)
(* is left to show of such a step.  Sums over processes are cardinalities  *)
(* of sets of pairs, which change where the process is changed.            *)
(***************************************************************************)
(* The elements of a list s that map page k, and in all lists sh.          *)
MapsOf(s, k) == {i \in DOMAIN s : s[i].linked /\ s[i].name = k}

AllMaps(sh, k) == {u \in Procs \X Slots : u[2] \in MapsOf(sh[u[1]], k)}

OwnedOf(o) == {u \in Procs \X (1 .. TotalFrames) : u[2] <= o[u[1]]}

Backed(pg) == {k \in Names : pg[k].backed}
Tables(tb) == {p \in Procs : tb[p]}

PageType == [exists : BOOLEAN, backed : BOOLEAN, usage : Nat]

(* What holds of the list s of a process, the holes h and the number n of  *)
(* entries its table has used: as in SlotsApart.                           *)
MappedIn(s) == {i \in DOMAIN s : s[i].linked}
SlotsIn(s) == {s[i].slot : i \in MappedIn(s)}

Apart(s, h, n) ==
  /\ \A i, j \in MappedIn(s) : s[i].slot = s[j].slot => i = j
  /\ IsInjective(h)
  /\ SlotsIn(s) \cap Range(h) = {}
  /\ SlotsIn(s) \cup Range(h) = 1 .. n

(* What holds of one process: it has a table if it has used entries of it, *)
(* nothing if there is no process, and a root of its page tables if it     *)
(* runs.                                                                   *)
Fits(st, o, tb, n, h, s) ==
  /\ st \in {"none", "alive", "broken"} /\ o \in 0 .. TotalFrames /\ tb \in BOOLEAN
  /\ n \in 0 .. MaxShared /\ h \in Seq(Slots)
  /\ s \in Seq(SharedElements) /\ Len(s) <= MaxShared
  /\ Apart(s, h, n)
  /\ st = "none" => o = 0 /\ ~ tb /\ s = <<>>
  /\ st = "alive" => o # 0
  /\ ~ tb => n = 0

MemInv ==
  /\ FramesConserved
  /\ MappingsAreCounted
  /\ \A p \in Procs : Fits(status[p], own[p], table[p], nslots[p], holes[p], shared[p])
  /\ \A k \in Names : pages[k].backed => pages[k].exists

-----------------------------------------------------------------------------
LEMMA Sizes ==
  /\ TotalFrames \in Nat /\ TotalFrames # 0 /\ FramesPerProcess \in Nat
  /\ FramesPerProcess # 0 /\ MaxShared \in Nat /\ MaxUsage \in Nat /\ MaxOwn \in Nat
  /\ IsFiniteSet(Procs) /\ IsFiniteSet(Names)
  /\ IsFiniteSet(Slots) /\ IsFiniteSet(1 .. TotalFrames)
BY MemoryAssumption, FS_Interval DEF Slots

(* A set of pairs, counted by their first component.                       *)
PartAt(U, T, p) == {t \in T : <<p, t>> \in U}
PartsElsewhere(U, p) == {u \in U : u[1] # p}

LEMMA CountPairs ==
  ASSUME NEW T, IsFiniteSet(T), NEW U \in SUBSET (Procs \X T), NEW p \in Procs
  PROVE  /\ IsFiniteSet(U)
         /\ Cardinality(PartAt(U, T, p)) \in Nat
         /\ Cardinality(PartsElsewhere(U, p)) \in Nat
         /\ Cardinality(U) = Cardinality(PartsElsewhere(U, p)) + Cardinality(PartAt(U, T, p))
<1> DEFINE part == {t \in T : <<p, t>> \in U}
           rest == {u \in U : u[1] # p}
           here == {u \in U : u[1] = p}
           f == [t \in part |-> <<p, t>>]
<1>1. IsFiniteSet(Procs \X T)
  BY FS_Product, Sizes
<1>2. IsFiniteSet(U) /\ IsFiniteSet(part) /\ IsFiniteSet(rest) /\ IsFiniteSet(here)
  <2>1. part \in SUBSET T /\ rest \in SUBSET U /\ here \in SUBSET U
    OBVIOUS
  <2>2. IsFiniteSet(U)
    BY <1>1, FS_Subset
  <2> HIDE DEF part, rest, here
  <2> QED BY <2>1, <2>2, FS_Subset
<1>3. f \in Bijection(part, here)
  <2>1. f \in [part -> here]
    OBVIOUS
  <2>2. \A a, b \in part : f[a] = f[b] => a = b
    OBVIOUS
  <2>3. ASSUME NEW u \in here PROVE \E t \in part : f[t] = u
    <3>1. u \in Procs \X T /\ u[1] = p
      OBVIOUS
    <3>2. u[2] \in T /\ u = <<p, u[2]>>
      BY <3>1
    <3> QED BY <3>2
  <2> HIDE DEF f
  <2> QED BY <2>1, <2>2, <2>3 DEF Bijection, Injection, Surjection, IsInjective
<1>4. Cardinality(here) = Cardinality(part)
  <2> HIDE DEF part, here, f
  <2> QED BY <1>2, <1>3, FS_Bijection DEF ExistsBijection
<1>5. rest = U \ here /\ U \cap here = here
  OBVIOUS
<1>6. Cardinality(rest) = Cardinality(U) - Cardinality(here)
  <2> HIDE DEF here, rest
  <2>1. Cardinality(U \ here) = Cardinality(U) - Cardinality(U \cap here)
    BY <1>2, FS_Difference
  <2> QED BY <1>5, <2>1
<1>7. Cardinality(part) \in Nat /\ Cardinality(rest) \in Nat /\ Cardinality(U) \in Nat
  <2> HIDE DEF part, rest
  <2> QED BY <1>2, FS_CardinalityType
<1> HIDE DEF part, rest, here
<1>8. Cardinality(U) = Cardinality(rest) + Cardinality(part)
  BY <1>4, <1>6, <1>7
<1> QED BY <1>2, <1>7, <1>8 DEF part, rest, PartAt, PartsElsewhere

LEMMA OwnedChanges ==
  ASSUME NEW o \in [Procs -> 0 .. TotalFrames], NEW o2 \in [Procs -> 0 .. TotalFrames],
         NEW p \in Procs, \A q \in Procs \ {p} : o2[q] = o[q]
  PROVE  /\ Cardinality(OwnedOf(o)) \in Nat /\ Cardinality(OwnedOf(o2)) \in Nat
         /\ Cardinality(OwnedOf(o2)) = Cardinality(OwnedOf(o)) - o[p] + o2[p]
         /\ o[p] <= Cardinality(OwnedOf(o))
<1> DEFINE T == 1 .. TotalFrames
           part(x) == PartAt(OwnedOf(x), T, p)
           rest(x) == PartsElsewhere(OwnedOf(x), p)
<1>1. OwnedOf(o) \in SUBSET (Procs \X T) /\ OwnedOf(o2) \in SUBSET (Procs \X T)
  BY DEF OwnedOf
<1>2. ASSUME NEW x \in {o, o2}
      PROVE  /\ Cardinality(OwnedOf(x)) = Cardinality(rest(x)) + Cardinality(part(x))
             /\ Cardinality(rest(x)) \in Nat /\ Cardinality(part(x)) = x[p]
  <2>1. x \in [Procs -> 0 .. TotalFrames]
    OBVIOUS
  <2>2. OwnedOf(x) \in SUBSET (Procs \X T) /\ IsFiniteSet(T)
    BY <1>1, Sizes
  <2>3. /\ Cardinality(OwnedOf(x)) = Cardinality(rest(x)) + Cardinality(part(x))
        /\ Cardinality(rest(x)) \in Nat
    <3> HIDE DEF T
    <3> QED BY <2>2, CountPairs
  <2>4. part(x) = 1 .. x[p]
    <3>1. x[p] \in 0 .. TotalFrames /\ TotalFrames \in Nat
      BY <2>1, Sizes
    <3>2. \A t \in T : <<p, t>> \in Procs \X T /\ (<<p, t>> \in OwnedOf(x) <=> t <= x[p])
      BY DEF OwnedOf
    <3> QED BY <3>1, <3>2 DEF PartAt
  <2>5. Cardinality(1 .. x[p]) = x[p]
    <3>1. x[p] \in Nat
      BY <2>1, Sizes
    <3> QED BY <3>1, FirstNumbers
  <2> QED BY <2>3, <2>4, <2>5
<1>3. rest(o) = rest(o2)
  BY DEF OwnedOf, PartsElsewhere
<1>4. o[p] \in Nat /\ o2[p] \in Nat
  BY Sizes
<1> HIDE DEF rest, part
<1> QED BY <1>2, <1>3, <1>4

LEMMA CountMaps ==
  ASSUME NEW sh, NEW p \in Procs, NEW k, DOMAIN sh[p] \subseteq Slots
  PROVE  /\ Cardinality(AllMaps(sh, k)) = Cardinality(PartsElsewhere(AllMaps(sh, k), p))
                                            + Cardinality(MapsOf(sh[p], k))
         /\ Cardinality(PartsElsewhere(AllMaps(sh, k), p)) \in Nat
         /\ Cardinality(MapsOf(sh[p], k)) \in Nat
         /\ Cardinality(AllMaps(sh, k)) = 0 <=> AllMaps(sh, k) = {}
<1>1. AllMaps(sh, k) \in SUBSET (Procs \X Slots) /\ IsFiniteSet(Slots)
  BY Sizes DEF AllMaps
<1>2. /\ Cardinality(AllMaps(sh, k)) = Cardinality(PartsElsewhere(AllMaps(sh, k), p))
                                         + Cardinality(PartAt(AllMaps(sh, k), Slots, p))
      /\ Cardinality(PartsElsewhere(AllMaps(sh, k), p)) \in Nat
      /\ Cardinality(PartAt(AllMaps(sh, k), Slots, p)) \in Nat
      /\ IsFiniteSet(AllMaps(sh, k))
  BY <1>1, CountPairs
<1>3. PartAt(AllMaps(sh, k), Slots, p) = MapsOf(sh[p], k)
  <2>1. \A t \in Slots : /\ <<p, t>> \in Procs \X Slots
                         /\ <<p, t>> \in AllMaps(sh, k) <=> t \in MapsOf(sh[p], k)
    BY DEF AllMaps
  <2>2. MapsOf(sh[p], k) \subseteq Slots
    BY DEF MapsOf
  <2> QED BY <2>1, <2>2 DEF PartAt
<1>4. Cardinality(AllMaps(sh, k)) = 0 <=> AllMaps(sh, k) = {}
  BY <1>2, FS_EmptySet
<1> QED BY <1>2, <1>3, <1>4

LEMMA MembersChange ==
  ASSUME NEW S, IsFiniteSet(S), NEW A \in SUBSET S, NEW B \in SUBSET S, NEW x \in S,
         \A y \in S \ {x} : y \in A <=> y \in B
  PROVE  /\ Cardinality(A) \in Nat /\ Cardinality(B) \in Nat
         /\ Cardinality(B) = Cardinality(A) - One(x \in A) + One(x \in B)
         /\ One(x \in A) <= Cardinality(A)
<1>1. IsFiniteSet(A) /\ IsFiniteSet(B)
  BY FS_Subset
<1>2. Cardinality(A) \in Nat /\ Cardinality(B) \in Nat
  BY <1>1, FS_CardinalityType
<1>3. A \ {x} = B \ {x}
  OBVIOUS
<1>4. /\ Cardinality(A \ {x}) = IF x \in A THEN Cardinality(A) - 1 ELSE Cardinality(A)
      /\ Cardinality(B \ {x}) = IF x \in B THEN Cardinality(B) - 1 ELSE Cardinality(B)
  BY <1>1, FS_RemoveElement
<1>5. Cardinality(A) = 0 <=> A = {}
  BY <1>1, FS_EmptySet
<1>6. CASE x \in A /\ x \in B
  BY <1>2, <1>3, <1>4, <1>5, <1>6 DEF One
<1>7. CASE x \in A /\ x \notin B
  BY <1>2, <1>3, <1>4, <1>5, <1>7 DEF One
<1>8. CASE x \notin A /\ x \in B
  <2>1. One(x \in A) = 0 /\ One(x \in B) = 1
    BY <1>8 DEF One
  <2>2. Cardinality(B) - 1 = Cardinality(A)
    <3>1. Cardinality(A \ {x}) = Cardinality(A)
      BY <1>4, <1>8
    <3>2. Cardinality(B \ {x}) = Cardinality(B) - 1
      BY <1>4, <1>8
    <3> QED BY <1>3, <3>1, <3>2
  <2> QED BY <1>2, <2>1, <2>2
<1>9. CASE x \notin A /\ x \notin B
  BY <1>2, <1>3, <1>4, <1>5, <1>9 DEF One
<1> QED BY <1>6, <1>7, <1>8, <1>9

LEMMA GetFramesFacts ==
  ASSUME free \in 1 .. TotalFrames, NEW n \in Nat
  PROVE  /\ GetFrames(n) = IF n <= free - 1 THEN n ELSE free - 1
         /\ GetFrames(n) \in 0 .. free - 1
         /\ GetFrames(n) <= n
<1>1. TotalFrames \in Nat /\ free \in Nat /\ free - 1 \in Nat
  BY Sizes
<1>2. CASE n <= free - 1
  <2>1. n \in {n, free - 1} /\ \A y \in {n, free - 1} : n <= y
    BY <1>1, <1>2
  <2>2. \A m \in {n, free - 1} : (\A y \in {n, free - 1} : m <= y) => m = n
    BY <1>1, <1>2
  <2>3. GetFrames(n) = n
    BY <2>1, <2>2 DEF GetFrames, Min
  <2> QED BY <1>1, <1>2, <2>3
<1>3. CASE ~ (n <= free - 1)
  <2>1. free - 1 \in {n, free - 1} /\ \A y \in {n, free - 1} : free - 1 <= y
    BY <1>1, <1>3
  <2>2. \A m \in {n, free - 1} : (\A y \in {n, free - 1} : m <= y) => m = free - 1
    BY <1>1, <1>3
  <2>3. GetFrames(n) = free - 1
    BY <2>1, <2>2 DEF GetFrames, Min
  <2> QED BY <1>1, <1>3, <2>3
<1> QED BY <1>2, <1>3

LEMMA SameDefinitions ==
  /\ \A k : Mappings(k) = AllMaps(shared, k)
  /\ Owned = OwnedOf(own)
  /\ {k \in Names : pages[k].backed} = Backed(pages)
  /\ {p \in Procs : table[p]} = Tables(table)
BY DEF Mappings, AllMaps, MapsOf, Owned, OwnedOf, Backed, Tables

LEMMA MemTyped ==
  ASSUME MemInv
  PROVE  /\ free \in 1 .. TotalFrames /\ free \in Nat
         /\ mem_usage \in Nat /\ mem_usage = TotalFrames - free
         /\ status \in [Procs -> {"none", "alive", "broken"}]
         /\ own \in [Procs -> 0 .. TotalFrames]
         /\ table \in [Procs -> BOOLEAN]
         /\ nslots \in [Procs -> 0 .. MaxShared]
         /\ holes \in [Procs -> Seq(Slots)]
         /\ shared \in [Procs -> Seq(SharedElements)]
         /\ pages \in [Names -> PageType]
         /\ halt \in {"no", "use_after_free"}
BY Sizes DEF MemInv, FramesConserved, MemTypeOK, PageType

LEMMA FitsSlots ==
  ASSUME NEW st, NEW o, NEW tb, NEW n, NEW h, NEW s, Fits(st, o, tb, n, h, s)
  PROVE  DOMAIN s \subseteq Slots
<1>1. s \in Seq(SharedElements) /\ Len(s) <= MaxShared
  BY DEF Fits
<1>2. DOMAIN s = 1 .. Len(s) /\ Len(s) \in Nat /\ MaxShared \in Nat
  BY <1>1, Sizes
<1> QED BY <1>1, <1>2 DEF Slots

(* What is left to show of a step that changes process p only: that its    *)
(* new state fits it, and that the frames and the mappings are counted.    *)
Changes(p, st, o, tb, n, h, s) ==
  /\ status' = [status EXCEPT ![p] = st]
  /\ own' = [own EXCEPT ![p] = o]
  /\ table' = [table EXCEPT ![p] = tb]
  /\ nslots' = [nslots EXCEPT ![p] = n]
  /\ holes' = [holes EXCEPT ![p] = h]
  /\ shared' = [shared EXCEPT ![p] = s]

MapsAfter(p, s, k) ==
  Cardinality(Mappings(k)) - Cardinality(MapsOf(shared[p], k)) + Cardinality(MapsOf(s, k))

LEMMA StepKeeps ==
  ASSUME MemInv, NEW p \in Procs, NEW st, NEW o, NEW tb, NEW n, NEW h, NEW s,
         Fits(st, o, tb, n, h, s), Changes(p, st, o, tb, n, h, s),
         pages' \in [Names -> PageType],
         \A k \in Names : pages'[k].backed => pages'[k].exists,
         \A k \in Names : /\ MapsAfter(p, s, k) <= pages'[k].usage
                          /\ MapsAfter(p, s, k) # 0 => pages'[k].exists,
         NEW taken \in Int, NEW gone \in Int, Frees(taken, gone),
         taken - gone = o - own[p] + One(tb) - One(table[p])
                          + Cardinality(Backed(pages')) - Cardinality(Backed(pages)),
         free - taken + gone >= 1,
         halt' \in {"no", "use_after_free"}
  PROVE  MemInv'
<1>1. \A q \in Procs :
        Fits(status'[q], own'[q], table'[q], nslots'[q], holes'[q], shared'[q])
  <2> SUFFICES ASSUME NEW q \in Procs
               PROVE  Fits(status'[q], own'[q], table'[q], nslots'[q], holes'[q], shared'[q])
    OBVIOUS
  <2>1. CASE q = p
    <3>1. /\ status'[p] = st /\ own'[p] = o /\ table'[p] = tb
          /\ nslots'[p] = n /\ holes'[p] = h /\ shared'[p] = s
      BY MemTyped DEF Changes
    <3> QED BY <2>1, <3>1
  <2>2. CASE q # p
    <3>1. /\ status'[q] = status[q] /\ own'[q] = own[q] /\ table'[q] = table[q]
          /\ nslots'[q] = nslots[q] /\ holes'[q] = holes[q] /\ shared'[q] = shared[q]
      BY <2>2, MemTyped DEF Changes
    <3>2. Fits(status[q], own[q], table[q], nslots[q], holes[q], shared[q])
      BY DEF MemInv
    <3> QED BY <3>1, <3>2
  <2> QED BY <2>1, <2>2
<1>2. /\ status' \in [Procs -> {"none", "alive", "broken"}]
      /\ own' \in [Procs -> 0 .. TotalFrames]
      /\ table' \in [Procs -> BOOLEAN]
      /\ nslots' \in [Procs -> 0 .. MaxShared]
      /\ holes' \in [Procs -> Seq(Slots)]
      /\ shared' \in [Procs -> Seq(SharedElements)]
      /\ \A q \in Procs : Len(shared'[q]) <= MaxShared
  <2>1. /\ status' = [q \in Procs |-> status'[q]] /\ own' = [q \in Procs |-> own'[q]]
        /\ table' = [q \in Procs |-> table'[q]] /\ nslots' = [q \in Procs |-> nslots'[q]]
        /\ holes' = [q \in Procs |-> holes'[q]] /\ shared' = [q \in Procs |-> shared'[q]]
    BY MemTyped DEF Changes
  <2> QED BY <1>1, <2>1 DEF Fits
<1>10. \A k \in Names : Mappings(k)' = AllMaps(shared', k)
  BY DEF Mappings, AllMaps, MapsOf
<1>3. \A k \in Names : Cardinality(Mappings(k))' = MapsAfter(p, s, k)
                       /\ (Mappings(k)' # {} => MapsAfter(p, s, k) # 0)
  <2> SUFFICES ASSUME NEW k \in Names
               PROVE  /\ Cardinality(AllMaps(shared', k)) = MapsAfter(p, s, k)
                      /\ AllMaps(shared', k) # {} => MapsAfter(p, s, k) # 0
    BY <1>10
  <2>1. shared'[p] = s /\ \A q \in Procs \ {p} : shared'[q] = shared[q]
    BY MemTyped DEF Changes
  <2>2. DOMAIN shared[p] \subseteq Slots /\ DOMAIN s \subseteq Slots
    <3>1. Fits(status[p], own[p], table[p], nslots[p], holes[p], shared[p])
      BY DEF MemInv
    <3> QED BY <3>1, FitsSlots
  <2>3. DOMAIN shared'[p] \subseteq Slots
    BY <2>1, <2>2
  <2>4. PartsElsewhere(AllMaps(shared', k), p) = PartsElsewhere(AllMaps(shared, k), p)
    BY <2>1 DEF AllMaps, PartsElsewhere
  <2>5. /\ Cardinality(AllMaps(shared, k))
             = Cardinality(PartsElsewhere(AllMaps(shared, k), p)) + Cardinality(MapsOf(shared[p], k))
        /\ Cardinality(PartsElsewhere(AllMaps(shared, k), p)) \in Nat
        /\ Cardinality(MapsOf(shared[p], k)) \in Nat
    BY <2>2, CountMaps
  <2>6. /\ Cardinality(AllMaps(shared', k))
             = Cardinality(PartsElsewhere(AllMaps(shared', k), p)) + Cardinality(MapsOf(shared'[p], k))
        /\ Cardinality(MapsOf(shared'[p], k)) \in Nat
        /\ Cardinality(AllMaps(shared', k)) = 0 <=> AllMaps(shared', k) = {}
    BY <2>3, CountMaps
  <2>7. Mappings(k) = AllMaps(shared, k)
    BY SameDefinitions
  <2> QED BY <2>1, <2>4, <2>5, <2>6, <2>7 DEF MapsAfter
<1>4. MappingsAreCounted'
  BY <1>3 DEF MappingsAreCounted
<1>5. /\ Cardinality(OwnedOf(own)) \in Nat /\ Cardinality(OwnedOf(own')) \in Nat
      /\ Cardinality(OwnedOf(own')) = Cardinality(OwnedOf(own)) - own[p] + o
  <2>1. own'[p] = o /\ \A q \in Procs \ {p} : own'[q] = own[q]
    BY MemTyped DEF Changes
  <2> QED BY <1>2, <2>1, MemTyped, OwnedChanges
<1>6. /\ Cardinality(Tables(table)) \in Nat /\ Cardinality(Tables(table')) \in Nat
      /\ Cardinality(Tables(table')) = Cardinality(Tables(table)) - One(table[p]) + One(tb)
  <2>1. table'[p] = tb /\ \A q \in Procs \ {p} : table'[q] = table[q]
    BY MemTyped DEF Changes
  <2> DEFINE A == Tables(table)
             B == Tables(table')
  <2>2. /\ A \in SUBSET Procs /\ B \in SUBSET Procs
        /\ \A q \in Procs \ {p} : q \in A <=> q \in B
        /\ p \in A <=> table[p]
        /\ p \in B <=> tb
    BY <2>1 DEF Tables
  <2> HIDE DEF A, B
  <2>3. /\ Cardinality(A) \in Nat /\ Cardinality(B) \in Nat
        /\ Cardinality(B) = Cardinality(A) - One(p \in A) + One(p \in B)
    BY <2>2, MembersChange, Sizes
  <2>4. One(p \in A) = One(table[p]) /\ One(p \in B) = One(tb)
    BY <2>2 DEF One
  <2> QED BY <2>3, <2>4 DEF A, B
<1>7. Cardinality(Backed(pages)) \in Nat /\ Cardinality(Backed(pages')) \in Nat
  <2>1. Backed(pages) \in SUBSET Names /\ Backed(pages') \in SUBSET Names
    BY DEF Backed
  <2> QED BY <2>1, Sizes, FS_Subset, FS_CardinalityType
<1>8. /\ mem_usage' = TotalFrames - free'
      /\ mem_usage' = Cardinality(OwnedOf(own')) + Cardinality(Tables(table'))
                        + Cardinality(Backed(pages'))
      /\ free' \in 1 .. TotalFrames /\ mem_usage' \in 0 .. TotalFrames
  <2>1. mem_usage = Cardinality(OwnedOf(own)) + Cardinality(Tables(table))
                      + Cardinality(Backed(pages))
    BY SameDefinitions DEF MemInv, FramesConserved
  <2>2. free' = free - taken + gone /\ mem_usage' = mem_usage + taken - gone
    BY DEF Frees
  <2>3. One(tb) \in Int /\ One(table[p]) \in Int /\ o \in Int /\ own[p] \in Int
    BY Sizes, MemTyped DEF One, Fits
  <2>4. TotalFrames \in Nat /\ free \in Nat /\ mem_usage = TotalFrames - free
    BY Sizes, MemTyped
  <2>5. mem_usage' = Cardinality(OwnedOf(own')) + Cardinality(Tables(table'))
                        + Cardinality(Backed(pages'))
    BY <1>5, <1>6, <1>7, <2>1, <2>2, <2>3, <2>4
  <2>6. mem_usage' \in Nat
    BY <1>5, <1>6, <1>7, <2>5
  <2> QED BY <2>2, <2>4, <2>5, <2>6
<1>9. FramesConserved'
  <2>1. MemTypeOK'
    BY <1>2, <1>8 DEF MemTypeOK, PageType
  <2>2. mem_usage' = Cardinality(Owned') + Cardinality({q \in Procs : table'[q]})
                       + Cardinality({k \in Names : pages'[k].backed})
    BY <1>8 DEF Owned, OwnedOf, Backed, Tables
  <2> QED BY <1>8, <2>1, <2>2 DEF FramesConserved
<1> QED BY <1>1, <1>4, <1>9 DEF MemInv

LEMMA MappingCounts ==
  ASSUME MemInv, NEW p \in Procs, NEW k \in Names
  PROVE  /\ Cardinality(MapsOf(shared[p], k)) \in Nat
         /\ Cardinality(Mappings(k)) \in Nat
         /\ Cardinality(MapsOf(shared[p], k)) <= Cardinality(Mappings(k))
         /\ Cardinality(Mappings(k)) <= pages[k].usage
         /\ Cardinality(Mappings(k)) # 0 => pages[k].exists
         /\ pages[k] \in PageType /\ pages[k].usage \in Nat
<1>1. DOMAIN shared[p] \subseteq Slots
  BY FitsSlots DEF MemInv
<1>2. /\ Cardinality(AllMaps(shared, k))
           = Cardinality(PartsElsewhere(AllMaps(shared, k), p)) + Cardinality(MapsOf(shared[p], k))
      /\ Cardinality(PartsElsewhere(AllMaps(shared, k), p)) \in Nat
      /\ Cardinality(MapsOf(shared[p], k)) \in Nat
      /\ Cardinality(AllMaps(shared, k)) = 0 <=> AllMaps(shared, k) = {}
  BY <1>1, CountMaps
<1>3. Mappings(k) = AllMaps(shared, k)
  BY SameDefinitions
<1>4. pages[k] \in PageType /\ pages[k].usage \in Nat
  BY MemTyped DEF PageType
<1>5. /\ Cardinality(Mappings(k)) <= pages[k].usage
      /\ Mappings(k) # {} => pages[k].exists
  BY DEF MemInv, MappingsAreCounted
<1> QED BY <1>2, <1>3, <1>4, <1>5

-----------------------------------------------------------------------------
(* Lists.                                                                  *)
LEMMA MapsFinite ==
  ASSUME NEW s \in Seq(SharedElements), NEW k
  PROVE  /\ IsFiniteSet(MapsOf(s, k)) /\ Cardinality(MapsOf(s, k)) \in Nat
         /\ IsFiniteSet(MappedIn(s)) /\ Cardinality(MappedIn(s)) <= Len(s)
<1>1. IsFiniteSet(1 .. Len(s)) /\ Cardinality(1 .. Len(s)) = Len(s)
  BY FirstNumbers
<1>2. MapsOf(s, k) \in SUBSET (1 .. Len(s)) /\ MappedIn(s) \in SUBSET (1 .. Len(s))
  BY DEF MapsOf, MappedIn
<1> QED BY <1>1, <1>2, FS_Subset, FS_CardinalityType

LEMMA NothingMapped == \A k : Cardinality(MapsOf(<<>>, k)) = 0
<1> SUFFICES ASSUME NEW k PROVE Cardinality(MapsOf(<<>>, k)) = 0
  OBVIOUS
<1>1. MapsOf(<<>>, k) = {}
  BY DEF MapsOf
<1> QED BY <1>1, FS_EmptySet

LEMMA AppendMaps ==
  ASSUME NEW s \in Seq(SharedElements), NEW e \in SharedElements, NEW k
  PROVE  Cardinality(MapsOf(Append(s, e), k))
           = Cardinality(MapsOf(s, k)) + One(e.linked /\ e.name = k)
<1> DEFINE n == Len(s) + 1
           A == MapsOf(s, k)
<1>1. /\ n \in Nat /\ DOMAIN s = 1 .. Len(s) /\ DOMAIN Append(s, e) = 1 .. n
      /\ \A i \in DOMAIN s : Append(s, e)[i] = s[i]
      /\ Append(s, e)[n] = e
  OBVIOUS
<1>2. n \notin A
  BY <1>1 DEF MapsOf
<1>3. IsFiniteSet(A) /\ Cardinality(A) \in Nat
  BY MapsFinite
<1>4. CASE e.linked /\ e.name = k
  <2>1. MapsOf(Append(s, e), k) = A \cup {n}
    BY <1>1, <1>4 DEF MapsOf
  <2>2. Cardinality(A \cup {n}) = Cardinality(A) + 1
    <3> HIDE DEF A, n
    <3> QED BY <1>2, <1>3, FS_AddElement
  <2> QED BY <1>4, <2>1, <2>2 DEF One
<1>5. CASE ~ (e.linked /\ e.name = k)
  <2>1. MapsOf(Append(s, e), k) = A
    BY <1>1, <1>5 DEF MapsOf
  <2> QED BY <1>3, <1>5, <2>1 DEF One
<1> QED BY <1>4, <1>5

LEMMA SecondHalf ==
  ASSUME NEW S, NEW a \in Seq(S), NEW b \in Seq(S),
         NEW j \in Len(a) + 1 .. Len(a) + Len(b)
  PROVE  (a \o b)[j] = b[j - Len(a)]
OBVIOUS

LEMMA EmptyDomain ==
  ASSUME NEW S, NEW h \in Seq(S), DOMAIN h = {}
  PROVE  h = <<>>
<1>1. Len(h) = 0
  <2>1. DOMAIN h = 1 .. Len(h) /\ Len(h) \in Nat
    OBVIOUS
  <2>2. 1 \notin 1 .. Len(h)
    BY <2>1
  <2> QED BY <2>1, <2>2
<1> QED BY <1>1

(* What is left after the element at i is removed, and where it was.       *)
LEMMA RemoveAtFacts ==
  ASSUME NEW S, NEW s \in Seq(S), NEW i \in DOMAIN s
  PROVE  LET was(j) == IF j < i THEN j ELSE j + 1 IN
         /\ RemoveAt(s, i) \in Seq(S) /\ Len(RemoveAt(s, i)) = Len(s) - 1
         /\ DOMAIN RemoveAt(s, i) = 1 .. Len(s) - 1
         /\ \A j \in 1 .. Len(s) - 1 : was(j) \in DOMAIN s /\ RemoveAt(s, i)[j] = s[was(j)]
<1>1. i \in 1 .. Len(s) /\ Len(s) \in Nat
  OBVIOUS
<1> DEFINE a == SubSeq(s, 1, i - 1)
           b == SubSeq(s, i + 1, Len(s))
<1>2. a \in Seq(S) /\ Len(a) = i - 1 /\ \A j \in 1 .. i - 1 : a[j] = s[j]
  BY <1>1
<1>3. b \in Seq(S) /\ Len(b) = Len(s) - i /\ \A j \in 1 .. Len(s) - i : b[j] = s[i + j]
  BY <1>1
<1>4. RemoveAt(s, i) = a \o b
  BY DEF RemoveAt
<1> HIDE DEF a, b
<1>5. /\ a \o b \in Seq(S) /\ Len(a \o b) = Len(s) - 1 /\ DOMAIN (a \o b) = 1 .. Len(s) - 1
  BY <1>1, <1>2, <1>3
<1>6. ASSUME NEW j \in 1 .. Len(s) - 1
      PROVE  LET w == IF j < i THEN j ELSE j + 1 IN w \in DOMAIN s /\ (a \o b)[j] = s[w]
  <2>1. CASE j < i
    <3>1. j \in 1 .. i - 1 /\ j \in DOMAIN s
      BY <1>1, <2>1
    <3>2. (a \o b)[j] = a[j]
      BY <1>2, <1>3, <3>1
    <3> QED BY <1>2, <2>1, <3>1, <3>2
  <2>2. CASE ~ (j < i)
    <3>0. j \in Len(a) + 1 .. Len(a) + Len(b) /\ j \in Int
      BY <1>1, <1>2, <1>3, <2>2
    <3>1. (a \o b)[j] = b[j - (i - 1)]
      <4>1. (a \o b)[j] = b[j - Len(a)]
        BY <1>2, <1>3, <3>0, SecondHalf
      <4>2. Len(a) = i - 1
        BY <1>2
      <4> QED BY <4>1, <4>2
    <3>2. j - (i - 1) \in 1 .. Len(s) - i /\ i + (j - (i - 1)) = j + 1
      BY <1>1, <2>2
    <3>3. b[j - (i - 1)] = s[j + 1]
      <4> DEFINE x == j - (i - 1)
      <4>1. x \in 1 .. Len(s) - i /\ i + x = j + 1
        BY <3>2
      <4> HIDE DEF x
      <4>2. b[x] = s[j + 1]
        BY <1>3, <4>1
      <4> QED BY <4>2 DEF x
    <3>4. j + 1 \in DOMAIN s
      BY <1>1, <3>0
    <3> QED BY <2>2, <3>1, <3>3, <3>4
  <2> QED BY <2>1, <2>2
<1> QED BY <1>4, <1>5, <1>6

LEMMA RemoveMaps ==
  ASSUME NEW s \in Seq(SharedElements), NEW i \in DOMAIN s, s[i].linked, NEW k
  PROVE  Cardinality(MapsOf(RemoveAt(s, i), k)) = Cardinality(MapsOf(s, k)) - One(s[i].name = k)
<1> DEFINE r == RemoveAt(s, i)
           A == MapsOf(s, k) \ {i}
           B == MapsOf(r, k)
           was == [j \in B |-> IF j < i THEN j ELSE j + 1]
<1>1. /\ DOMAIN r = 1 .. Len(s) - 1 /\ DOMAIN s = 1 .. Len(s) /\ Len(s) \in Nat /\ i \in Nat
      /\ r \in Seq(SharedElements)
      /\ \A j \in 1 .. Len(s) - 1 : /\ j < i => r[j] = s[j]
                                    /\ ~ (j < i) => r[j] = s[j + 1]
  <2>1. r \in Seq(SharedElements)
    BY RemoveAtFacts
  <2>2. DOMAIN r = 1 .. Len(s) - 1
    BY RemoveAtFacts
  <2>3. \A j \in 1 .. Len(s) - 1 : r[j] = s[IF j < i THEN j ELSE j + 1]
    BY RemoveAtFacts
  <2> QED BY <2>1, <2>2, <2>3
<1>2. was \in Bijection(B, A)
  <2>1. \A j \in B : was[j] \in A
    BY <1>1 DEF MapsOf
  <2>2. \A j, m \in B : was[j] = was[m] => j = m
    BY <1>1 DEF MapsOf
  <2>3. ASSUME NEW m \in A PROVE \E j \in B : was[j] = m
    <3>0. m \in 1 .. Len(s) /\ m # i /\ s[m].linked /\ s[m].name = k
      BY <1>1 DEF MapsOf
    <3>1. CASE m < i
      <4>1. m \in 1 .. Len(s) - 1 /\ r[m] = s[m]
        BY <1>1, <3>0, <3>1
      <4>2. m \in B
        BY <1>1, <3>0, <4>1 DEF MapsOf
      <4> QED BY <3>1, <4>2
    <3>2. CASE m > i
      <4>1. m - 1 \in 1 .. Len(s) - 1 /\ r[m - 1] = s[m] /\ ~ (m - 1 < i)
        BY <1>1, <3>0, <3>2
      <4>2. m - 1 \in B
        BY <1>1, <3>0, <4>1 DEF MapsOf
      <4> QED BY <3>0, <4>1, <4>2
    <3> QED BY <1>1, <3>0, <3>1, <3>2
  <2>4. was \in [B -> A]
    BY <2>1
  <2> HIDE DEF was, A, B
  <2> QED BY <2>2, <2>3, <2>4 DEF Bijection, Injection, Surjection, IsInjective
<1>3. IsFiniteSet(B) /\ IsFiniteSet(MapsOf(s, k)) /\ Cardinality(MapsOf(s, k)) \in Nat
  BY <1>1, MapsFinite
<1>4. Cardinality(B) = Cardinality(A)
  <2> HIDE DEF was, A, B
  <2> QED BY <1>2, <1>3, FS_Bijection DEF ExistsBijection
<1>5. Cardinality(A) = IF i \in MapsOf(s, k) THEN Cardinality(MapsOf(s, k)) - 1
                       ELSE Cardinality(MapsOf(s, k))
  BY <1>3, FS_RemoveElement
<1>6. i \in MapsOf(s, k) <=> s[i].name = k
  BY DEF MapsOf
<1> HIDE DEF A, B, r
<1>7. Cardinality(B) = Cardinality(MapsOf(s, k)) - One(s[i].name = k)
  BY <1>3, <1>4, <1>5, <1>6 DEF One
<1> QED BY <1>7 DEF B, r

LEMMA ApartUnlinked ==
  ASSUME NEW s \in Seq(SharedElements), NEW e \in SharedElements, ~ e.linked,
         NEW h, NEW n, Apart(s, h, n)
  PROVE  Apart(Append(s, e), h, n)
<1> DEFINE s2 == Append(s, e)
<1>1. /\ DOMAIN s2 = 1 .. Len(s) + 1 /\ DOMAIN s = 1 .. Len(s) /\ Len(s) \in Nat
      /\ \A i \in DOMAIN s : s2[i] = s[i]
      /\ s2[Len(s) + 1] = e
  OBVIOUS
<1> HIDE DEF s2
<1>2. MappedIn(s2) = MappedIn(s)
  BY <1>1 DEF MappedIn
<1>3. \A i \in MappedIn(s) : s2[i] = s[i]
  BY <1>1 DEF MappedIn
<1>4. SlotsIn(s2) = SlotsIn(s)
  BY <1>2, <1>3 DEF SlotsIn
<1> QED BY <1>2, <1>3, <1>4 DEF Apart, s2

LEMMA AppendLinked ==
  ASSUME NEW s \in Seq(SharedElements), NEW e \in SharedElements, e.linked,
         \A i, j \in MappedIn(s) : s[i].slot = s[j].slot => i = j,
         e.slot \notin SlotsIn(s)
  PROVE  /\ \A i, j \in MappedIn(Append(s, e)) :
              Append(s, e)[i].slot = Append(s, e)[j].slot => i = j
         /\ SlotsIn(Append(s, e)) = SlotsIn(s) \cup {e.slot}
<1> DEFINE s2 == Append(s, e)
           m == Len(s) + 1
<1>1. /\ DOMAIN s2 = 1 .. m /\ DOMAIN s = 1 .. Len(s) /\ Len(s) \in Nat
      /\ \A i \in DOMAIN s : s2[i] = s[i]
      /\ s2[m] = e /\ m \notin DOMAIN s
  OBVIOUS
<1>2. DOMAIN s2 = DOMAIN s \cup {m}
  BY <1>1
<1> HIDE DEF s2, m
<1>3. MappedIn(s2) = MappedIn(s) \cup {m} /\ MappedIn(s) \subseteq DOMAIN s
  BY <1>1, <1>2 DEF MappedIn
<1>4. \A i \in MappedIn(s) : s2[i] = s[i] /\ s2[i].slot \in SlotsIn(s)
  BY <1>1, <1>3 DEF SlotsIn
<1>5. SlotsIn(s2) = SlotsIn(s) \cup {e.slot}
  BY <1>1, <1>3, <1>4 DEF SlotsIn
<1>6. \A i, j \in MappedIn(s2) : s2[i].slot = s2[j].slot => i = j
  BY <1>1, <1>3, <1>4
<1> QED BY <1>5, <1>6 DEF s2

LEMMA ApartInHole ==
  ASSUME NEW s \in Seq(SharedElements), NEW e \in SharedElements, e.linked,
         NEW h \in Seq(Slots), h # <<>>, NEW n, Apart(s, h, n), e.slot = Head(h)
  PROVE  Apart(Append(s, e), Tail(h), n)
<1>1. /\ DOMAIN h = 1 .. Len(h) /\ Len(h) \in Nat /\ 1 \in DOMAIN h /\ Head(h) = h[1]
      /\ DOMAIN Tail(h) = 1 .. Len(h) - 1
      /\ \A i \in 1 .. Len(h) - 1 : Tail(h)[i] = h[i + 1] /\ i + 1 \in DOMAIN h
  OBVIOUS
<1>2. IsInjective(h) /\ SlotsIn(s) \cap Range(h) = {} /\ SlotsIn(s) \cup Range(h) = 1 .. n
  BY DEF Apart
<1>3. e.slot \in Range(h)
  BY <1>1 DEF Range
<1>4. /\ \A i, j \in MappedIn(Append(s, e)) :
           Append(s, e)[i].slot = Append(s, e)[j].slot => i = j
      /\ SlotsIn(Append(s, e)) = SlotsIn(s) \cup {e.slot}
  BY <1>2, <1>3, AppendLinked DEF Apart
<1>5. IsInjective(Tail(h))
  BY <1>1, <1>2 DEF IsInjective
<1>6. Range(h) = {e.slot} \cup Range(Tail(h))
  <2>1. ASSUME NEW x \in Range(h), x # e.slot PROVE x \in Range(Tail(h))
    <3>1. PICK i \in DOMAIN h : h[i] = x
      BY DEF Range
    <3>2. i # 1
      BY <1>1, <2>1, <3>1
    <3>3. i - 1 \in 1 .. Len(h) - 1 /\ Tail(h)[i - 1] = x
      BY <1>1, <3>1, <3>2
    <3> QED BY <1>1, <3>3 DEF Range
  <2>2. ASSUME NEW x \in Range(Tail(h)) PROVE x \in Range(h)
    BY <1>1 DEF Range
  <2> QED BY <1>3, <2>1, <2>2
<1>7. e.slot \notin Range(Tail(h))
  <2> SUFFICES ASSUME NEW i \in 1 .. Len(h) - 1, Tail(h)[i] = h[1] PROVE FALSE
    BY <1>1 DEF Range
  <2>1. h[i + 1] = h[1] /\ i + 1 \in DOMAIN h /\ i + 1 # 1
    BY <1>1
  <2>2. 1 \in DOMAIN h /\ IsInjective(h)
    BY <1>1, <1>2
  <2>3. i + 1 = 1
    <3>1. \A a, b \in DOMAIN h : h[a] = h[b] => a = b
      BY <2>2 DEF IsInjective
    <3> QED BY <2>1, <2>2, <3>1
  <2> QED BY <2>1, <2>3
<1> DEFINE s2 == Append(s, e)
           t == Tail(h)
<1>8. \A i, j \in MappedIn(s2) : s2[i].slot = s2[j].slot => i = j
  BY <1>4
<1>9. SlotsIn(s2) \cap Range(t) = {} /\ SlotsIn(s2) \cup Range(t) = 1 .. n
  BY <1>2, <1>4, <1>6, <1>7
<1> HIDE DEF s2, t
<1>10. IsInjective(t)
  BY <1>5 DEF t
<1>11. Apart(s2, t, n)
  BY <1>8, <1>9, <1>10 DEF Apart
<1> QED BY <1>11 DEF s2, t

LEMMA ApartAtEnd ==
  ASSUME NEW s \in Seq(SharedElements), NEW e \in SharedElements, e.linked,
         NEW n \in Nat, Apart(s, <<>>, n), e.slot = n + 1
  PROVE  Apart(Append(s, e), <<>>, n + 1)
<1>1. Range(<<>>) = {}
  BY DEF Range
<1>2. SlotsIn(s) = 1 .. n
  BY <1>1 DEF Apart
<1>3. /\ \A i, j \in MappedIn(Append(s, e)) :
           Append(s, e)[i].slot = Append(s, e)[j].slot => i = j
      /\ SlotsIn(Append(s, e)) = SlotsIn(s) \cup {e.slot}
  <2>1. e.slot \notin SlotsIn(s)
    BY <1>2
  <2> QED BY <2>1, AppendLinked DEF Apart
<1>4. SlotsIn(Append(s, e)) = 1 .. n + 1
  BY <1>2, <1>3
<1>5. IsInjective(<<>>)
  BY DEF IsInjective
<1> QED BY <1>1, <1>3, <1>4, <1>5 DEF Apart

(* There is room in the table of a process that has room in its list.      *)
LEMMA TableHasRoom ==
  ASSUME NEW s \in Seq(SharedElements), NEW n \in Nat, Apart(s, <<>>, n)
  PROVE  n <= Len(s)
<1> DEFINE M == MappedIn(s)
           f == [i \in M |-> s[i].slot]
<1>1. SlotsIn(s) = 1 .. n
  <2>1. Range(<<>>) = {}
    BY DEF Range
  <2> QED BY <2>1 DEF Apart
<1>2. f \in Surjection(M, 1 .. n)
  <2>1. \A i \in M : f[i] \in 1 .. n
    BY <1>1 DEF SlotsIn
  <2>2. \A x \in 1 .. n : \E i \in M : f[i] = x
    BY <1>1 DEF SlotsIn
  <2>3. f \in [M -> 1 .. n]
    BY <2>1
  <2> HIDE DEF f, M
  <2> QED BY <2>2, <2>3 DEF Surjection
<1>3. IsFiniteSet(M) /\ Cardinality(M) <= Len(s)
  BY MapsFinite
<1>4. Cardinality(1 .. n) <= Cardinality(M)
  <2> HIDE DEF f, M
  <2> QED BY <1>2, <1>3, FS_Surjection
<1>5. Cardinality(1 .. n) = n
  BY FirstNumbers
<1>6. Cardinality(M) \in Nat
  BY <1>3, FS_CardinalityType
<1> QED BY <1>3, <1>4, <1>5, <1>6

LEMMA ApartRemoved ==
  ASSUME NEW s \in Seq(SharedElements), NEW i \in DOMAIN s, s[i].linked,
         NEW h \in Seq(Slots), NEW n \in 0 .. MaxShared, Apart(s, h, n)
  PROVE  /\ Apart(RemoveAt(s, i), <<s[i].slot>> \o h, n)
         /\ <<s[i].slot>> \o h \in Seq(Slots)
<1> DEFINE r == RemoveAt(s, i)
           x == s[i].slot
           g == <<x>> \o h
           was(j) == IF j < i THEN j ELSE j + 1
<1>1. /\ DOMAIN r = 1 .. Len(s) - 1 /\ DOMAIN s = 1 .. Len(s) /\ Len(s) \in Nat /\ i \in Nat
      /\ \A j \in 1 .. Len(s) - 1 : was(j) \in DOMAIN s /\ r[j] = s[was(j)]
  BY RemoveAtFacts
<1>2. /\ IsInjective(h) /\ SlotsIn(s) \cap Range(h) = {} /\ SlotsIn(s) \cup Range(h) = 1 .. n
      /\ \A a, b \in MappedIn(s) : s[a].slot = s[b].slot => a = b
  BY DEF Apart
<1>3. i \in MappedIn(s) /\ x \in SlotsIn(s) /\ x \notin Range(h) /\ x \in 1 .. n
  <2>1. i \in MappedIn(s)
    BY DEF MappedIn
  <2>2. x \in SlotsIn(s)
    BY <2>1 DEF SlotsIn
  <2> QED BY <1>2, <2>1, <2>2
<1>4. x \in Slots /\ g \in Seq(Slots)
  <2>1. x \in Slots
    BY <1>3, Sizes DEF Slots
  <2> HIDE DEF x
  <2> QED BY <2>1
<1>5. /\ DOMAIN h = 1 .. Len(h) /\ Len(h) \in Nat /\ DOMAIN g = 1 .. Len(h) + 1
      /\ g[1] = x /\ \A j \in 2 .. Len(h) + 1 : g[j] = h[j - 1] /\ j - 1 \in DOMAIN h
      /\ \A j \in 1 .. Len(h) : g[j + 1] = h[j] /\ j + 1 \in DOMAIN g
  <2> HIDE DEF x
  <2> QED BY <1>4
<1>6. \A j \in DOMAIN r : /\ j \in MappedIn(r) <=> was(j) \in MappedIn(s)
                          /\ was(j) # i /\ r[j].slot = s[was(j)].slot
  BY <1>1 DEF MappedIn
<1>7. \A m \in DOMAIN s : m # i => \E j \in DOMAIN r : was(j) = m
  <2> SUFFICES ASSUME NEW m \in DOMAIN s, m # i PROVE \E j \in DOMAIN r : was(j) = m
    OBVIOUS
  <2>1. CASE m < i
    <3>1. m \in DOMAIN r /\ was(m) = m
      BY <1>1, <2>1
    <3> QED BY <3>1
  <2>2. CASE m > i
    <3>1. m - 1 \in DOMAIN r /\ was(m - 1) = m
      BY <1>1, <2>2
    <3> QED BY <3>1
  <2> QED BY <1>1, <2>1, <2>2
<1>8. \A j, m \in DOMAIN r : was(j) = was(m) => j = m
  BY <1>1
<1> HIDE DEF r, was
<1>9. \A a, b \in MappedIn(r) : r[a].slot = r[b].slot => a = b
  <2>1. MappedIn(r) \subseteq DOMAIN r
    BY DEF MappedIn
  <2> QED BY <1>2, <1>6, <1>8, <2>1
<1>10. SlotsIn(r) = SlotsIn(s) \ {x}
  <2>1. ASSUME NEW y \in SlotsIn(r) PROVE y \in SlotsIn(s) \ {x}
    <3>1. PICK j \in MappedIn(r) : y = r[j].slot
      BY DEF SlotsIn
    <3>2. j \in DOMAIN r
      BY DEF MappedIn
    <3>3. was(j) \in MappedIn(s) /\ was(j) # i /\ y = s[was(j)].slot
      BY <1>6, <3>1, <3>2
    <3> QED BY <1>2, <1>3, <3>3 DEF SlotsIn
  <2>2. ASSUME NEW y \in SlotsIn(s), y # x PROVE y \in SlotsIn(r)
    <3>1. PICK m \in MappedIn(s) : y = s[m].slot
      BY DEF SlotsIn
    <3>2. m \in DOMAIN s /\ m # i
      BY <2>2, <3>1 DEF MappedIn
    <3>3. PICK j \in DOMAIN r : was(j) = m
      BY <1>7, <3>2
    <3>4. j \in MappedIn(r) /\ y = r[j].slot
      BY <1>6, <3>1, <3>3
    <3> QED BY <3>4 DEF SlotsIn
  <2> QED BY <2>1, <2>2
<1> HIDE DEF x, g
<1>11. Range(g) = Range(h) \cup {x}
  <2>1. ASSUME NEW y \in Range(g) PROVE y \in Range(h) \cup {x}
    <3>1. PICK j \in DOMAIN g : g[j] = y
      BY DEF Range
    <3>2. CASE j = 1
      BY <1>5, <3>1, <3>2
    <3>3. CASE j # 1
      <4>1. j \in 2 .. Len(h) + 1
        BY <1>5, <3>3
      <4>2. g[j] = h[j - 1] /\ j - 1 \in DOMAIN h
        BY <1>5, <4>1
      <4> QED BY <3>1, <4>2 DEF Range
    <3> QED BY <3>2, <3>3
  <2>2. x \in Range(g)
    <3>1. 1 \in DOMAIN g
      BY <1>5
    <3> QED BY <1>5, <3>1 DEF Range
  <2>3. ASSUME NEW y \in Range(h) PROVE y \in Range(g)
    <3>1. PICK j \in DOMAIN h : h[j] = y
      BY DEF Range
    <3>2. j \in 1 .. Len(h)
      BY <1>5
    <3> QED BY <1>5, <3>1, <3>2 DEF Range
  <2> QED BY <2>1, <2>2, <2>3
<1>12. IsInjective(g)
  <2> SUFFICES ASSUME NEW a \in DOMAIN g, NEW b \in DOMAIN g, g[a] = g[b] PROVE a = b
    BY DEF IsInjective
  <2>1. \A j \in DOMAIN g : j # 1 => j \in 2 .. Len(h) + 1
    BY <1>5
  <2>2. \A j \in DOMAIN g : j # 1 => g[j] \in Range(h)
    BY <1>5, <2>1 DEF Range
  <2>3. CASE a = 1
    BY <1>3, <1>5, <2>2, <2>3
  <2>4. CASE b = 1
    BY <1>3, <1>5, <2>2, <2>4
  <2>5. CASE a # 1 /\ b # 1
    <3>1. h[a - 1] = h[b - 1] /\ a - 1 \in DOMAIN h /\ b - 1 \in DOMAIN h
      BY <1>5, <2>1, <2>5
    <3>2. a - 1 = b - 1
      BY <1>2, <3>1 DEF IsInjective
    <3> QED BY <1>5, <2>1, <2>5, <3>2
  <2> QED BY <2>3, <2>4, <2>5
<1>13. Apart(r, g, n)
  BY <1>2, <1>3, <1>9, <1>10, <1>11, <1>12 DEF Apart
<1> QED BY <1>4, <1>13 DEF r, g, x

-----------------------------------------------------------------------------
(* The pages after some of the elements of p are released.                 *)
LEMMA PagesAfterFacts ==
  ASSUME MemInv, NEW p \in Procs, NEW places,
         places \subseteq DOMAIN shared[p], \A i \in places : shared[p][i].linked
  PROVE  /\ PagesAfter(p, places) \in [Names -> PageType]
         /\ \A k \in Names : PagesAfter(p, places)[k].backed => PagesAfter(p, places)[k].exists
         /\ \A k \in Names :
              /\ Users(p, places, k) \in Nat
              /\ Users(p, places, k) <= Cardinality(MapsOf(shared[p], k))
              /\ \A m \in Int : m <= Cardinality(Mappings(k)) - Users(p, places, k) /\ m >= 0 =>
                   /\ m <= PagesAfter(p, places)[k].usage
                   /\ m # 0 => PagesAfter(p, places)[k].exists
         /\ Cardinality(Backed(PagesAfter(p, places)))
              = Cardinality(Backed(pages)) - FramesGone(p, places)
         /\ Cardinality(Backed(pages)) \in Nat /\ FramesGone(p, places) \in Nat
<1> DEFINE pg == PagesAfter(p, places)
<1>1. \A k \in Names : pages[k] \in PageType /\ pages[k].usage \in Nat
  BY MemTyped DEF PageType
<1>2. \A k \in Names : /\ Users(p, places, k) \in Nat
                       /\ Users(p, places, k) <= Cardinality(MapsOf(shared[p], k))
  <2> SUFFICES ASSUME NEW k \in Names
               PROVE  /\ Users(p, places, k) \in Nat
                      /\ Users(p, places, k) <= Cardinality(MapsOf(shared[p], k))
    OBVIOUS
  <2>1. {i \in places : shared[p][i].name = k} \in SUBSET MapsOf(shared[p], k)
    BY DEF MapsOf
  <2>2. IsFiniteSet(MapsOf(shared[p], k))
    BY MapsFinite, MemTyped
  <2> QED BY <2>1, <2>2, FS_Subset, FS_CardinalityType DEF Users
<1>3. \A k \in Names : pg[k] = IF Gone(p, places, k) THEN NoPage
                               ELSE [pages[k] EXCEPT !.usage = @ - Users(p, places, k)]
  BY DEF PagesAfter
<1>4. \A k \in Names : Users(p, places, k) <= pages[k].usage
  BY <1>1, <1>2, MappingCounts
<1>5. \A k \in Names :
        /\ Gone(p, places, k) => pg[k] = NoPage
        /\ ~ Gone(p, places, k) =>
             /\ pg[k].usage = pages[k].usage - Users(p, places, k)
             /\ pg[k].exists = pages[k].exists /\ pg[k].backed = pages[k].backed
        /\ pg[k] \in PageType
  <2> SUFFICES ASSUME NEW k \in Names
               PROVE  /\ Gone(p, places, k) => pg[k] = NoPage
                      /\ ~ Gone(p, places, k) =>
                           /\ pg[k].usage = pages[k].usage - Users(p, places, k)
                           /\ pg[k].exists = pages[k].exists /\ pg[k].backed = pages[k].backed
                      /\ pg[k] \in PageType
    OBVIOUS
  <2> DEFINE n == pages[k].usage - Users(p, places, k)
  <2>1. n \in Nat
    BY <1>1, <1>2, <1>4
  <2>2. pg[k] = IF Gone(p, places, k) THEN NoPage ELSE [pages[k] EXCEPT !.usage = n]
    BY <1>3
  <2> HIDE DEF n, pg
  <2>3. [pages[k] EXCEPT !.usage = n] \in PageType /\ NoPage \in PageType
    BY <1>1, <2>1 DEF PageType, NoPage
  <2>4. /\ [pages[k] EXCEPT !.usage = n].usage = n
        /\ [pages[k] EXCEPT !.usage = n].exists = pages[k].exists
        /\ [pages[k] EXCEPT !.usage = n].backed = pages[k].backed
    BY <1>1 DEF PageType
  <2> QED BY <2>2, <2>3, <2>4 DEF n
<1>6. pg \in [Names -> PageType]
  BY <1>5 DEF PagesAfter
<1>7. \A k \in Names : pg[k].backed => pg[k].exists
  BY <1>5 DEF MemInv, NoPage
<1>8. ASSUME NEW k \in Names, NEW m \in Int, m >= 0,
             m <= Cardinality(Mappings(k)) - Users(p, places, k)
      PROVE  m <= pg[k].usage /\ (m # 0 => pg[k].exists)
  <2>0. /\ Cardinality(Mappings(k)) \in Nat /\ Cardinality(Mappings(k)) <= pages[k].usage
        /\ Cardinality(Mappings(k)) # 0 => pages[k].exists
    BY MappingCounts
  <2>1. CASE Gone(p, places, k)
    <3>1. pages[k].usage = Users(p, places, k) /\ pg[k] = NoPage
      BY <1>5, <2>1 DEF Gone
    <3>2. m = 0
      BY <1>1, <1>2, <1>8, <2>0, <3>1
    <3> QED BY <3>1, <3>2 DEF NoPage
  <2>2. CASE ~ Gone(p, places, k)
    BY <1>1, <1>2, <1>5, <1>8, <2>0, <2>2
  <2> QED BY <2>1, <2>2
<1>9. /\ Cardinality(Backed(pg)) = Cardinality(Backed(pages)) - FramesGone(p, places)
      /\ Cardinality(Backed(pages)) \in Nat /\ FramesGone(p, places) \in Nat
  <2> DEFINE A == Backed(pages)
             G == {k \in Names : Gone(p, places, k) /\ pages[k].backed}
  <2>1. Backed(pg) = A \ G /\ A \cap G = G
    BY <1>5 DEF Backed, NoPage
  <2>2. IsFiniteSet(A) /\ IsFiniteSet(G)
    <3>1. A \in SUBSET Names /\ G \in SUBSET Names
      BY DEF Backed
    <3> HIDE DEF A, G
    <3> QED BY <3>1, Sizes, FS_Subset
  <2>3. FramesGone(p, places) = Cardinality(G)
    BY DEF FramesGone
  <2> HIDE DEF A, G, pg
  <2>4. Cardinality(A \ G) = Cardinality(A) - Cardinality(A \cap G)
    BY <2>2, FS_Difference
  <2>5. Cardinality(A) \in Nat /\ Cardinality(G) \in Nat
    BY <2>2, FS_CardinalityType
  <2> QED BY <2>1, <2>3, <2>4, <2>5 DEF A
<1> QED BY <1>2, <1>6, <1>7, <1>8, <1>9

LEMMA OnePageChanges ==
  ASSUME MemInv, NEW k \in Names, NEW page \in PageType, page.backed => page.exists
  PROVE  LET pg == [pages EXCEPT ![k] = page] IN
         /\ pg \in [Names -> PageType] /\ pg[k] = page
         /\ \A j \in Names \ {k} : pg[j] = pages[j]
         /\ \A j \in Names : pg[j].backed => pg[j].exists
         /\ Cardinality(Backed(pages)) \in Nat
         /\ Cardinality(Backed(pg))
              = Cardinality(Backed(pages)) - One(pages[k].backed) + One(page.backed)
<1> DEFINE pg == [pages EXCEPT ![k] = page]
<1>1. /\ pg \in [Names -> PageType] /\ pg[k] = page
      /\ \A j \in Names \ {k} : pg[j] = pages[j]
  BY MemTyped
<1>2. \A j \in Names : pg[j].backed => pg[j].exists
  BY <1>1 DEF MemInv
<1> HIDE DEF pg
<1> DEFINE A == Backed(pages)
           B == Backed(pg)
<1>3. /\ A \in SUBSET Names /\ B \in SUBSET Names /\ \A j \in Names \ {k} : j \in A <=> j \in B
      /\ k \in A <=> pages[k].backed
      /\ k \in B <=> page.backed
  BY <1>1 DEF Backed
<1> HIDE DEF A, B
<1>4. Cardinality(A) \in Nat /\ Cardinality(B) = Cardinality(A) - One(k \in A) + One(k \in B)
  BY <1>3, Sizes, MembersChange
<1>5. One(k \in A) = One(pages[k].backed) /\ One(k \in B) = One(page.backed)
  BY <1>3 DEF One
<1> QED BY <1>1, <1>2, <1>4, <1>5 DEF pg, A, B

LEMMA FitsFacts ==
  ASSUME MemInv, NEW p \in Procs
  PROVE  /\ Fits(status[p], own[p], table[p], nslots[p], holes[p], shared[p])
         /\ own[p] \in Nat /\ own[p] <= TotalFrames
         /\ own[p] + One(table[p]) <= mem_usage
         /\ own[p] + One(table[p]) + Cardinality(Backed(pages)) <= mem_usage
         /\ shared[p] \in Seq(SharedElements) /\ DOMAIN shared[p] = 1 .. Len(shared[p])
         /\ Len(shared[p]) \in Nat /\ Len(shared[p]) <= MaxShared
         /\ holes[p] \in Seq(Slots) /\ table[p] \in BOOLEAN
         /\ nslots[p] \in 0 .. MaxShared /\ nslots[p] \in Nat
<1>1. Fits(status[p], own[p], table[p], nslots[p], holes[p], shared[p])
  BY DEF MemInv
<1>2. mem_usage = Cardinality(OwnedOf(own)) + Cardinality(Tables(table))
                    + Cardinality(Backed(pages))
  BY SameDefinitions DEF MemInv, FramesConserved
<1>3. own[p] <= Cardinality(OwnedOf(own)) /\ Cardinality(OwnedOf(own)) \in Nat
  BY OwnedChanges, MemTyped
<1>4. One(table[p]) <= Cardinality(Tables(table)) /\ Cardinality(Tables(table)) \in Nat
  <2> DEFINE A == Tables(table)
  <2>1. A \in SUBSET Procs /\ (p \in A <=> table[p])
    BY DEF Tables
  <2> HIDE DEF A
  <2>2. One(p \in A) <= Cardinality(A) /\ Cardinality(A) \in Nat
    BY <2>1, Sizes, MembersChange
  <2>3. One(p \in A) = One(table[p])
    BY <2>1 DEF One
  <2> QED BY <2>2, <2>3 DEF A
<1>5. Cardinality(Backed(pages)) \in Nat
  <2>1. Backed(pages) \in SUBSET Names
    BY DEF Backed
  <2> QED BY <2>1, Sizes, FS_Subset, FS_CardinalityType
<1>6. own[p] \in Nat /\ own[p] <= TotalFrames /\ One(table[p]) \in Nat
  BY Sizes, MemTyped DEF One
<1>7. /\ own[p] + One(table[p]) <= mem_usage
      /\ own[p] + One(table[p]) + Cardinality(Backed(pages)) <= mem_usage
  BY <1>2, <1>3, <1>4, <1>5, <1>6
<1> QED BY <1>1, <1>6, <1>7, Sizes DEF Fits

LEMMA NothingToMap == Apart(<<>>, <<>>, 0)
<1>1. MappedIn(<<>>) = {} /\ SlotsIn(<<>>) = {}
  BY DEF MappedIn, SlotsIn
<1>2. Range(<<>>) = {} /\ IsInjective(<<>>)
  BY DEF Range, IsInjective
<1> QED BY <1>1, <1>2 DEF Apart

(* The lists that stay leave the counts as they are.                       *)
LEMMA ListStays ==
  ASSUME MemInv, NEW p \in Procs, NEW s, \A k \in Names : MapsOf(s, k) = MapsOf(shared[p], k)
  PROVE  \A k \in Names : /\ MapsAfter(p, s, k) <= pages[k].usage
                          /\ MapsAfter(p, s, k) # 0 => pages[k].exists
BY MappingCounts DEF MapsAfter

-----------------------------------------------------------------------------
LEMMA InitKeeps == MemInit => MemInv
<1> SUFFICES ASSUME MemInit PROVE MemInv
  OBVIOUS
<1> USE DEF MemInit
<1>1. \A p \in Procs : Fits(status[p], own[p], table[p], nslots[p], holes[p], shared[p])
  <2>1. <<>> \in Seq(Slots) /\ <<>> \in Seq(SharedElements) /\ Len(<<>>) = 0
    OBVIOUS
  <2> QED BY <2>1, Sizes, NothingToMap DEF Fits
<1>2. pages \in [Names -> PageType] /\ \A k \in Names : ~ pages[k].backed /\ pages[k].usage = 0
  BY DEF NoPage, PageType
<1>3. Owned = {} /\ {p \in Procs : table[p]} = {} /\ {k \in Names : pages[k].backed} = {}
  <2>1. Owned = {}
    <3>1. ASSUME NEW u \in Procs \X (1 .. TotalFrames), u[2] <= own[u[1]] PROVE FALSE
      <4>1. u[1] \in Procs /\ u[2] \in 1 .. TotalFrames /\ own[u[1]] = 0 /\ u[2] <= own[u[1]]
        BY <3>1
      <4> HIDE DEF MemInit
      <4>2. u[2] \in Int /\ u[2] >= 1
        BY <4>1, Sizes
      <4> QED BY <4>1, <4>2
    <3> QED BY <3>1 DEF Owned
  <2> QED BY <1>2, <2>1
<1>4. MappingsAreCounted
  <2> SUFFICES ASSUME NEW k \in Names
               PROVE  /\ Cardinality(Mappings(k)) <= pages[k].usage
                      /\ Mappings(k) # {} => pages[k].exists
    BY DEF MappingsAreCounted
  <2>1. Mappings(k) = {}
    <3>1. ASSUME NEW u \in Procs \X Slots PROVE DOMAIN shared[u[1]] = {}
      <4>1. u[1] \in Procs
        BY <3>1
      <4> QED BY <4>1
    <3> QED BY <3>1 DEF Mappings
  <2> QED BY <1>2, <2>1, FS_EmptySet
<1>5. MemTypeOK
  <2>1. <<>> \in Seq(Slots) /\ <<>> \in Seq(SharedElements) /\ Len(<<>>) = 0
    OBVIOUS
  <2> QED BY <1>2, <2>1, Sizes DEF MemTypeOK, PageType
<1>6. FramesConserved
  <2>1. Cardinality({}) = 0
    BY FS_EmptySet
  <2>2. mem_usage = 0 /\ free = TotalFrames /\ TotalFrames \in Nat
    BY Sizes
  <2>3. /\ Cardinality(Owned) = 0 /\ Cardinality({p \in Procs : table[p]}) = 0
        /\ Cardinality({k \in Names : pages[k].backed}) = 0
    <3> HIDE DEF MemInit
    <3> QED BY <1>3, <2>1
  <2> HIDE DEF MemInit
  <2> QED BY <1>5, <2>2, <2>3 DEF FramesConserved
<1> QED BY <1>1, <1>2, <1>4, <1>6 DEF MemInv

LEMMA StartKeeps ==
  ASSUME MemInv, NEW p \in Procs, Start(p)
  PROVE  MemInv'
<1> DEFINE got == GetFrames(FramesPerProcess)
           st  == IF got = FramesPerProcess THEN "alive" ELSE "broken"
<1>1. /\ status[p] = "none" /\ Frees(got, 0)
      /\ status' = [status EXCEPT ![p] = st] /\ own' = [own EXCEPT ![p] = got]
      /\ UNCHANGED <<table, nslots, holes, shared, pages, halt>>
  BY DEF Start
<1>2. got \in 0 .. free - 1 /\ free \in 1 .. TotalFrames /\ TotalFrames \in Nat
  BY Sizes, MemTyped, GetFramesFacts
<1>3. Fits(status[p], own[p], table[p], nslots[p], holes[p], shared[p])
  BY FitsFacts
<1>4. own[p] = 0
  BY <1>1, <1>3 DEF Fits
<1>5. Fits(st, got, table[p], nslots[p], holes[p], shared[p])
  BY <1>2, <1>3, Sizes DEF Fits
<1>6. Changes(p, st, got, table[p], nslots[p], holes[p], shared[p])
  BY <1>1, MemTyped DEF Changes
<1>7. /\ got - 0 = got - own[p] + One(table[p]) - One(table[p])
                     + Cardinality(Backed(pages')) - Cardinality(Backed(pages))
      /\ got \in Int /\ free - got + 0 >= 1
  <2>1. One(table[p]) \in Int /\ Cardinality(Backed(pages)) \in Int
    <3>1. Backed(pages) \in SUBSET Names
      BY DEF Backed
    <3> QED BY <3>1, Sizes, FS_Subset, FS_CardinalityType DEF One
  <2>2. pages' = pages
    BY <1>1
  <2> HIDE DEF got
  <2> QED BY <1>2, <1>4, <2>1, <2>2
<1>8. /\ pages' = pages /\ pages \in [Names -> PageType] /\ halt' \in {"no", "use_after_free"}
      /\ \A k \in Names : pages[k].backed => pages[k].exists
  BY <1>1, MemTyped DEF MemInv
<1>9. \A k \in Names : /\ MapsAfter(p, shared[p], k) <= pages[k].usage
                       /\ MapsAfter(p, shared[p], k) # 0 => pages[k].exists
  BY ListStays
<1> HIDE DEF got, st
<1> QED BY <1>1, <1>5, <1>6, <1>7, <1>8, <1>9, StepKeeps

LEMMA GrowKeeps ==
  ASSUME MemInv, NEW p \in Procs, Grow(p)
  PROVE  MemInv'
<1> DEFINE got == GetFrames(1)
           o   == own[p] + got
<1>1. /\ status[p] = "alive" /\ Frees(got, 0) /\ own' = [own EXCEPT ![p] = o]
      /\ UNCHANGED <<status, table, nslots, holes, shared, pages, halt>>
  BY DEF Grow, Running
<1>2. got \in 0 .. free - 1 /\ free \in 1 .. TotalFrames /\ TotalFrames \in Nat
  BY Sizes, MemTyped, GetFramesFacts
<1>3. /\ Fits(status[p], own[p], table[p], nslots[p], holes[p], shared[p])
      /\ own[p] \in Nat /\ own[p] + One(table[p]) <= mem_usage /\ mem_usage = TotalFrames - free
      /\ One(table[p]) \in 0 .. 1
  BY FitsFacts, MemTyped DEF One
<1>4. own[p] # 0 /\ o \in 0 .. TotalFrames /\ o # 0
  <2> HIDE DEF got
  <2>1. own[p] # 0
    BY <1>1, <1>3 DEF Fits
  <2> QED BY <1>2, <1>3, <2>1
<1>5. Fits(status[p], o, table[p], nslots[p], holes[p], shared[p])
  <2> HIDE DEF o
  <2> QED BY <1>1, <1>3, <1>4 DEF Fits
<1>6. Changes(p, status[p], o, table[p], nslots[p], holes[p], shared[p])
  BY <1>1, MemTyped DEF Changes
<1>7. /\ got - 0 = o - own[p] + One(table[p]) - One(table[p])
                     + Cardinality(Backed(pages')) - Cardinality(Backed(pages))
      /\ got \in Int /\ free - got + 0 >= 1
  <2>1. Cardinality(Backed(pages)) \in Int
    <3>1. Backed(pages) \in SUBSET Names
      BY DEF Backed
    <3> QED BY <3>1, Sizes, FS_Subset, FS_CardinalityType
  <2>2. pages' = pages
    BY <1>1
  <2> HIDE DEF got
  <2> QED BY <1>2, <1>3, <2>1, <2>2
<1>8. /\ pages' = pages /\ pages \in [Names -> PageType] /\ halt' \in {"no", "use_after_free"}
      /\ \A k \in Names : pages[k].backed => pages[k].exists
  BY <1>1, MemTyped DEF MemInv
<1>9. \A k \in Names : /\ MapsAfter(p, shared[p], k) <= pages[k].usage
                       /\ MapsAfter(p, shared[p], k) # 0 => pages[k].exists
  BY ListStays
<1> HIDE DEF got, o
<1> QED BY <1>1, <1>5, <1>6, <1>7, <1>8, <1>9, StepKeeps

(* A step that changes the list of p, but none of what it maps, or nothing *)
(* but halt.                                                               *)
LEMMA OnlyListKeeps ==
  ASSUME MemInv, NEW p \in Procs, NEW s \in Seq(SharedElements),
         shared' = [shared EXCEPT ![p] = s],
         DOMAIN s = DOMAIN shared[p],
         \A i \in DOMAIN s : /\ s[i].linked = shared[p][i].linked
                             /\ s[i].name = shared[p][i].name
                             /\ s[i].slot = shared[p][i].slot,
         UNCHANGED <<frameVars, status, own, table, nslots, holes, pages>>,
         halt' \in {"no", "use_after_free"}
  PROVE  MemInv'
<1>1. MappedIn(s) = MappedIn(shared[p])
  BY DEF MappedIn
<1>2. SlotsIn(s) = SlotsIn(shared[p])
  BY <1>1 DEF SlotsIn, MappedIn
<1>3. \A k \in Names : MapsOf(s, k) = MapsOf(shared[p], k)
  BY DEF MapsOf
<1>4. Fits(status[p], own[p], table[p], nslots[p], holes[p], shared[p])
  BY FitsFacts
<1>5. Len(s) = Len(shared[p]) /\ (shared[p] = <<>> => s = <<>>)
  BY FitsFacts
<1>6. Apart(s, holes[p], nslots[p])
  <2>1. Apart(shared[p], holes[p], nslots[p])
    BY <1>4 DEF Fits
  <2> QED BY <1>1, <1>2, <2>1 DEF Apart, MappedIn
<1>7. Fits(status[p], own[p], table[p], nslots[p], holes[p], s)
  BY <1>4, <1>5, <1>6 DEF Fits
<1>8. Changes(p, status[p], own[p], table[p], nslots[p], holes[p], s)
  BY MemTyped DEF Changes
<1>9. 0 - 0 = own[p] - own[p] + One(table[p]) - One(table[p])
                + Cardinality(Backed(pages')) - Cardinality(Backed(pages))
  <2>1. Cardinality(Backed(pages)) \in Int
    <3>1. Backed(pages) \in SUBSET Names
      BY DEF Backed
    <3> QED BY <3>1, Sizes, FS_Subset, FS_CardinalityType
  <2> QED BY <2>1, FitsFacts DEF One
<1>10. Frees(0, 0) /\ free - 0 + 0 >= 1
  BY Sizes, MemTyped DEF Frees, frameVars
<1>11. /\ pages' = pages /\ pages \in [Names -> PageType]
       /\ \A k \in Names : pages[k].backed => pages[k].exists
  BY MemTyped DEF MemInv
<1>12. \A k \in Names : /\ MapsAfter(p, s, k) <= pages[k].usage
                        /\ MapsAfter(p, s, k) # 0 => pages[k].exists
  BY <1>3, ListStays
<1> QED BY <1>7, <1>8, <1>9, <1>10, <1>11, <1>12, StepKeeps

LEMMA UseAfterFreeKeeps ==
  ASSUME MemInv, NEW p \in Procs, UseAfterFree
  PROVE  MemInv'
<1>1. shared' = [shared EXCEPT ![p] = shared[p]] /\ shared[p] \in Seq(SharedElements)
  BY MemTyped DEF UseAfterFree, procVars
<1>2. /\ UNCHANGED <<frameVars, status, own, table, nslots, holes, pages>>
      /\ halt' \in {"no", "use_after_free"}
  BY DEF UseAfterFree, procVars
<1> QED BY <1>1, <1>2, OnlyListKeeps

LEMMA ScribbleKeeps ==
  ASSUME MemInv, NEW p \in Procs, NEW i, Scribble(p, i)
  PROVE  MemInv'
<1> DEFINE s0 == shared[p]
           e  == [s0[i] EXCEPT !.intact = ~ @]
           s  == [s0 EXCEPT ![i] = e]
<1>1. /\ i \in DOMAIN s0 /\ shared' = [shared EXCEPT ![p] = s]
      /\ UNCHANGED <<frameVars, status, own, table, nslots, holes, pages, halt>>
  BY MemTyped DEF Scribble
<1>2. s0 \in Seq(SharedElements) /\ s0[i] \in SharedElements
  BY <1>1, FitsFacts
<1>3. /\ e \in SharedElements
      /\ e.linked = s0[i].linked /\ e.name = s0[i].name /\ e.slot = s0[i].slot
  BY <1>2 DEF SharedElements
<1> HIDE DEF e, s0
<1>4. s \in Seq(SharedElements) /\ DOMAIN s = DOMAIN s0
  BY <1>1, <1>2, <1>3
<1>5. \A j \in DOMAIN s : /\ s[j].linked = s0[j].linked
                          /\ s[j].name = s0[j].name
                          /\ s[j].slot = s0[j].slot
  BY <1>1, <1>2, <1>3
<1> HIDE DEF s
<1>6. halt' \in {"no", "use_after_free"}
  BY <1>1, MemTyped
<1>7. /\ shared' = [shared EXCEPT ![p] = s]
      /\ UNCHANGED <<frameVars, status, own, table, nslots, holes, pages>>
  BY <1>1
<1> QED BY <1>4, <1>5, <1>6, <1>7, OnlyListKeeps DEF s0

-----------------------------------------------------------------------------
LEMMA NoTableNoHoles ==
  ASSUME MemInv, NEW p \in Procs, ~ table[p]
  PROVE  holes[p] = <<>>
<1>1. Fits(status[p], own[p], table[p], nslots[p], holes[p], shared[p])
  BY FitsFacts
<1>2. nslots[p] = 0
  BY <1>1 DEF Fits
<1>3. Range(holes[p]) = {}
  <2>1. SlotsIn(shared[p]) \cup Range(holes[p]) = 1 .. 0
    BY <1>1, <1>2 DEF Fits, Apart
  <2> QED BY <2>1
<1>4. DOMAIN holes[p] = {} /\ holes[p] \in Seq(Slots)
  <2>1. holes[p] \in Seq(Slots)
    BY <1>1 DEF Fits
  <2> QED BY <1>3, <2>1 DEF Range
<1> QED BY <1>4, EmptyDomain

(* link_shared_page_to_process, for a page that exists and has taken as    *)
(* many frames as it has got since.                                        *)
LEMMA LinkKeeps ==
  ASSUME MemInv, NEW p \in Procs, NEW k \in Names, NEW page \in PageType, page.exists,
         NEW user \in BOOLEAN, NEW taken \in Nat, taken <= free - 1,
         taken = One(page.backed) - One(pages[k].backed),
         Cardinality(Mappings(k)) <= page.usage,
         Running(p), HasRoom(p), Link(p, k, page, user, taken),
         UNCHANGED <<status, own, halt>>
  PROVE  MemInv'
<1> DEFINE newTable == holes[p] = <<>> /\ ~ table[p]
           linked   == newTable => GetFrames(taken + 1) = taken + 1
           slot     == CASE ~ linked -> 0
                         [] linked /\ holes[p] # <<>> -> Head(holes[p])
                         [] linked /\ holes[p] = <<>> -> nslots[p] + 1
           e  == [name |-> k, slot |-> slot, linked |-> linked, user |-> user, intact |-> user]
           s  == Append(shared[p], e)
           tb == table[p] \/ linked
           h  == IF holes[p] # <<>> THEN FillHole(holes[p]) ELSE holes[p]
           n  == IF linked /\ holes[p] = <<>> THEN nslots[p] + 1 ELSE nslots[p]
           pagek == IF linked THEN Counted(page) ELSE page
           pg == [pages EXCEPT ![k] = pagek]
           table1 == One(newTable /\ linked)
<1>1. /\ shared' = [shared EXCEPT ![p] = s] /\ table' = [table EXCEPT ![p] = tb]
      /\ holes' = IF holes[p] # <<>> THEN [holes EXCEPT ![p] = FillHole(@)] ELSE holes
      /\ nslots' = IF linked /\ holes[p] = <<>> THEN [nslots EXCEPT ![p] = @ + 1] ELSE nslots
      /\ pages' = pg
      /\ Frees(taken + table1, 0)
      /\ UNCHANGED <<status, own, halt>>
  BY Zenon DEF Link
<1>2. /\ Fits(status[p], own[p], table[p], nslots[p], holes[p], shared[p])
      /\ shared[p] \in Seq(SharedElements) /\ holes[p] \in Seq(Slots) /\ table[p] \in BOOLEAN
      /\ nslots[p] \in Nat /\ nslots[p] <= MaxShared /\ Len(shared[p]) < MaxShared
      /\ MaxShared \in Nat /\ status[p] = "alive"
  BY FitsFacts, Sizes DEF HasRoom, Running
<1>3. Apart(shared[p], holes[p], nslots[p]) /\ (~ table[p] => nslots[p] = 0)
  BY <1>2 DEF Fits
<1>4. linked \in BOOLEAN /\ newTable \in BOOLEAN /\ tb \in BOOLEAN
  BY <1>2
<1>5. ~ table[p] => holes[p] = <<>>
  BY NoTableNoHoles
<1>6. Changes(p, status[p], own[p], tb, n, h, s)
  <2>1. holes' = [holes EXCEPT ![p] = h]
    BY <1>1, MemTyped
  <2>2. nslots' = [nslots EXCEPT ![p] = n]
    BY <1>1, MemTyped
  <2>3. status' = [status EXCEPT ![p] = status[p]] /\ own' = [own EXCEPT ![p] = own[p]]
    BY <1>1, MemTyped
  <2>4. shared' = [shared EXCEPT ![p] = s] /\ table' = [table EXCEPT ![p] = tb]
    BY <1>1
  <2> HIDE DEF s, tb, n, h
  <2> QED BY <2>1, <2>2, <2>3, <2>4 DEF Changes
<1>7. /\ linked /\ holes[p] = <<>> => slot = nslots[p] + 1 /\ n = nslots[p] + 1 /\ h = <<>>
      /\ linked /\ holes[p] # <<>> =>
           slot = Head(holes[p]) /\ n = nslots[p] /\ h = Tail(holes[p])
      /\ ~ linked => slot = 0 /\ n = nslots[p] /\ h = <<>> /\ holes[p] = <<>> /\ ~ tb
  BY <1>5 DEF FillHole
<1>8. linked /\ holes[p] = <<>> => nslots[p] + 1 <= MaxShared
  <2>1. holes[p] = <<>> => nslots[p] <= Len(shared[p])
    BY <1>2, <1>3, TableHasRoom
  <2> HIDE DEF linked
  <2> QED BY <1>2, <2>1
<1>9. slot \in {0} \cup Slots
  <2>1. CASE linked /\ holes[p] # <<>>
    BY <1>2, <1>7, <2>1
  <2>2. CASE linked /\ holes[p] = <<>>
    <3> HIDE DEF slot, linked
    <3>1. slot \in 1 .. MaxShared
      BY <1>2, <1>7, <1>8, <2>2
    <3> QED BY <3>1 DEF Slots
  <2>3. CASE ~ linked
    BY <1>7, <2>3
  <2> QED BY <2>1, <2>2, <2>3
<1>10. /\ e \in SharedElements /\ e.linked = linked /\ e.name = k /\ e.slot = slot
  <2> HIDE DEF linked, slot
  <2> QED BY <1>4, <1>9 DEF SharedElements
<1>11. s \in Seq(SharedElements) /\ Len(s) = Len(shared[p]) + 1
  <2> HIDE DEF e
  <2> QED BY <1>2, <1>10
<1>12. Apart(s, h, n) /\ n \in 0 .. MaxShared /\ h \in Seq(Slots)
  <2> HIDE DEF e, linked, slot, n, h
  <2>1. CASE linked /\ holes[p] # <<>>
    <3>1. Apart(Append(shared[p], e), Tail(holes[p]), nslots[p])
      BY <1>2, <1>3, <1>7, <1>10, <2>1, ApartInHole
    <3>2. Tail(holes[p]) \in Seq(Slots)
      BY <1>2, <2>1
    <3>3. h = Tail(holes[p]) /\ n = nslots[p]
      BY <1>7, <2>1
    <3>4. n \in 0 .. MaxShared
      BY <1>2, <3>3
    <3> QED BY <3>1, <3>2, <3>3, <3>4
  <2>2. CASE linked /\ holes[p] = <<>>
    <3>1. Apart(Append(shared[p], e), <<>>, nslots[p] + 1)
      BY <1>2, <1>3, <1>7, <1>10, <2>2, ApartAtEnd
    <3> QED BY <1>2, <1>7, <1>8, <2>2, <3>1
  <2>3. CASE ~ linked
    <3>1. Apart(Append(shared[p], e), holes[p], nslots[p])
      BY <1>2, <1>3, <1>10, <2>3, ApartUnlinked
    <3> QED BY <1>2, <1>7, <2>3, <3>1
  <2> QED BY <2>1, <2>2, <2>3
<1>13. ~ tb => n = 0
  BY <1>3, <1>7
<1>14. Fits(status[p], own[p], tb, n, h, s)
  <2>1. Len(s) <= MaxShared
    <3> HIDE DEF s
    <3> QED BY <1>2, <1>11
  <2> HIDE DEF s, h, n, tb
  <2> QED BY <1>2, <1>4, <1>11, <1>12, <1>13, <2>1 DEF Fits
<1>15. pagek \in PageType /\ (pagek.backed => pagek.exists) /\ pagek.exists
       /\ pagek.backed = page.backed /\ pagek.usage = page.usage + One(linked)
  BY DEF Counted, PageType, One
<1>16. /\ pg \in [Names -> PageType] /\ pg[k] = pagek
       /\ \A j \in Names \ {k} : pg[j] = pages[j]
       /\ \A j \in Names : pg[j].backed => pg[j].exists
       /\ Cardinality(Backed(pages)) \in Nat
       /\ Cardinality(Backed(pg))
            = Cardinality(Backed(pages)) - One(pages[k].backed) + One(page.backed)
  <2> HIDE DEF pagek
  <2> QED BY <1>15, OnePageChanges
<1>17. \A j \in Names : /\ MapsAfter(p, s, j) <= pg[j].usage
                        /\ MapsAfter(p, s, j) # 0 => pg[j].exists
  <2> SUFFICES ASSUME NEW j \in Names
               PROVE  /\ MapsAfter(p, s, j) <= pg[j].usage
                      /\ MapsAfter(p, s, j) # 0 => pg[j].exists
    OBVIOUS
  <2>1. Cardinality(MapsOf(s, j)) = Cardinality(MapsOf(shared[p], j)) + One(linked /\ k = j)
    <3>1. Cardinality(MapsOf(s, j))
            = Cardinality(MapsOf(shared[p], j)) + One(e.linked /\ e.name = j)
      <4> HIDE DEF e
      <4> QED BY <1>2, <1>10, AppendMaps
    <3> HIDE DEF e, linked, s
    <3> QED BY <1>10, <3>1
  <2>2. /\ Cardinality(MapsOf(shared[p], j)) \in Nat /\ Cardinality(Mappings(j)) \in Nat
        /\ Cardinality(Mappings(j)) <= pages[j].usage /\ pages[j].usage \in Nat
        /\ Cardinality(Mappings(j)) # 0 => pages[j].exists
    BY MappingCounts
  <2>3. One(linked /\ k = j) \in 0 .. 1 /\ One(linked) \in 0 .. 1
    BY DEF One
  <2>4. MapsAfter(p, s, j) = Cardinality(Mappings(j)) + One(linked /\ k = j)
    <3> HIDE DEF s, linked
    <3> QED BY <2>1, <2>2, <2>3 DEF MapsAfter
  <2>5. CASE j = k
    <3>1. One(linked /\ k = j) = One(linked) /\ page.usage \in Nat
      BY <1>4, <2>5 DEF One, PageType
    <3> HIDE DEF s, linked, pagek, pg
    <3> QED BY <1>15, <1>16, <2>2, <2>3, <2>4, <2>5, <3>1
  <2>6. CASE j # k
    <3>1. One(linked /\ k = j) = 0
      BY <2>6 DEF One
    <3> HIDE DEF s, linked, pagek, pg
    <3> QED BY <1>16, <2>2, <2>4, <2>6, <3>1
  <2> QED BY <2>5, <2>6
<1>18. table1 = One(tb) - One(table[p]) /\ One(tb) \in Int /\ One(table[p]) \in Int
  <2>1. newTable <=> ~ table[p]
    BY <1>5
  <2> HIDE DEF linked, newTable
  <2> QED BY <1>2, <1>4, <2>1 DEF One
<1>19. /\ (taken + table1) - 0 = own[p] - own[p] + One(tb) - One(table[p])
                                   + Cardinality(Backed(pg)) - Cardinality(Backed(pages))
       /\ taken + table1 \in Int
  <2>1. own[p] \in Int /\ One(page.backed) \in Int /\ One(pages[k].backed) \in Int
    BY FitsFacts DEF One
  <2> DEFINE o1 == own[p]
             b1 == One(page.backed)
             b0 == One(pages[k].backed)
             t1 == One(tb)
             t0 == One(table[p])
             c1 == Cardinality(Backed(pg))
             c0 == Cardinality(Backed(pages))
  <2>2. /\ o1 \in Int /\ b1 \in Int /\ b0 \in Int /\ t1 \in Int /\ t0 \in Int /\ c0 \in Int
        /\ table1 = t1 - t0 /\ c1 = c0 - b0 + b1 /\ taken = b1 - b0
    BY <1>16, <1>18, <2>1
  <2> HIDE DEF table1, tb, pg, o1, b1, b0, t1, t0, c1, c0
  <2>3. taken + table1 = t1 - t0 + c1 - c0 /\ taken + table1 \in Int
    BY <2>2
  <2>4. (taken + table1) - 0 = o1 - o1 + t1 - t0 + c1 - c0
    <3> DEFINE x == taken + table1
    <3>1. x \in Int /\ x = t1 - t0 + c1 - c0
      BY <2>3
    <3>2. c1 \in Int
      BY <2>2
    <3> HIDE DEF x
    <3>3. x - 0 = o1 - o1 + t1 - t0 + c1 - c0
      BY <2>2, <3>1, <3>2
    <3> QED BY <3>3 DEF x
  <2> QED BY <2>3, <2>4 DEF o1, t1, t0, c1, c0
<1>20. free - (taken + table1) + 0 >= 1
  <2>1. free \in 1 .. TotalFrames /\ TotalFrames \in Nat /\ taken + 1 \in Nat
    BY MemTyped, Sizes
  <2>2. CASE newTable /\ linked
    <3>1. GetFrames(taken + 1) = taken + 1 /\ table1 = 1
      BY <2>2 DEF One
    <3>2. taken + 1 <= free - 1
      BY <2>1, <3>1, GetFramesFacts
    <3> HIDE DEF table1
    <3> QED BY <2>1, <3>1, <3>2
  <2>3. CASE ~ (newTable /\ linked)
    <3>1. table1 = 0
      BY <2>3 DEF One
    <3> HIDE DEF table1
    <3> QED BY <2>1, <3>1
  <2> QED BY <2>2, <2>3
<1>21. halt' \in {"no", "use_after_free"}
  BY <1>1, MemTyped
<1> HIDE DEF s, h, n, tb, pg, table1
<1> QED BY <1>1, <1>6, <1>14, <1>16, <1>17, <1>19, <1>20, <1>21, StepKeeps

LEMMA ShmCreateKeeps ==
  ASSUME MemInv, NEW p \in Procs, NEW k \in Names, ShmCreate(p, k)
  PROVE  MemInv'
<1> DEFINE page == [exists |-> TRUE, backed |-> GetFrames(1) = 1, usage |-> 0]
<1>1. /\ Running(p) /\ HasRoom(p) /\ ~ pages[k].exists
      /\ Link(p, k, page, FALSE, GetFrames(1))
      /\ UNCHANGED <<status, own, halt>>
  BY DEF ShmCreate
<1>2. page \in PageType /\ page.exists /\ page.usage = 0
  BY DEF PageType
<1>3. free \in 1 .. TotalFrames /\ TotalFrames \in Nat
  BY MemTyped, Sizes
<1>4. /\ GetFrames(1) \in Nat /\ GetFrames(1) <= free - 1 /\ GetFrames(1) <= 1
  BY <1>3, GetFramesFacts
<1>5. ~ pages[k].backed
  BY <1>1 DEF MemInv
<1>6. GetFrames(1) = One(page.backed) - One(pages[k].backed)
  <2>1. page.backed <=> GetFrames(1) = 1
    OBVIOUS
  <2>2. One(pages[k].backed) = 0
    BY <1>5 DEF One
  <2>3. One(page.backed) = IF GetFrames(1) = 1 THEN 1 ELSE 0
    BY <2>1 DEF One
  <2> HIDE DEF page
  <2> QED BY <1>4, <2>2, <2>3
<1>7. Cardinality(Mappings(k)) <= page.usage
  BY <1>1, <1>2, MappingCounts
<1> HIDE DEF page
<1> QED BY <1>1, <1>2, <1>4, <1>6, <1>7, LinkKeeps

LEMMA ShmAcquireKeeps ==
  ASSUME MemInv, NEW p \in Procs, NEW k \in Names, ShmAcquire(p, k)
  PROVE  MemInv'
<1>1. /\ Running(p) /\ HasRoom(p) /\ pages[k].exists
      /\ Link(p, k, pages[k], TRUE, 0)
      /\ UNCHANGED <<status, own, halt>>
  BY DEF ShmAcquire
<1>2. pages[k] \in PageType /\ Cardinality(Mappings(k)) <= pages[k].usage
  BY MappingCounts
<1>3. 0 <= free - 1 /\ 0 = One(pages[k].backed) - One(pages[k].backed)
  BY MemTyped, Sizes DEF One
<1> DEFINE page == pages[k]
           taken == 0
<1>4. /\ Link(p, k, page, TRUE, taken) /\ page \in PageType /\ page.exists
      /\ Cardinality(Mappings(k)) <= page.usage
      /\ taken \in Nat /\ taken <= free - 1
      /\ taken = One(page.backed) - One(pages[k].backed)
  BY <1>1, <1>2, <1>3
<1> HIDE DEF page, taken
<1> QED BY <1>1, <1>4, LinkKeeps

-----------------------------------------------------------------------------
LEMMA ShmReleaseKeeps ==
  ASSUME MemInv, NEW p \in Procs, NEW k \in Names, ShmRelease(p, k)
  PROVE  MemInv'
<1>1. PICK i \in Finds(p, k, Intact(p)) :
        /\ shared' = [shared EXCEPT ![p] = RemoveAt(@, i)]
        /\ holes' = [holes EXCEPT ![p] = <<shared[p][i].slot>> \o @]
        /\ pages' = PagesAfter(p, {i})
        /\ Frees(0, FramesGone(p, {i}))
  BY DEF ShmRelease
<1>2. i \in DOMAIN shared[p] /\ shared[p][i].linked /\ shared[p][i].name = k
  BY DEF Finds
<1>3. Running(p) /\ UNCHANGED <<status, own, table, nslots, halt>>
  BY DEF ShmRelease
<1> DEFINE s == RemoveAt(shared[p], i)
           h == <<shared[p][i].slot>> \o holes[p]
           gone == FramesGone(p, {i})
<1>4. /\ Fits(status[p], own[p], table[p], nslots[p], holes[p], shared[p])
      /\ shared[p] \in Seq(SharedElements) /\ holes[p] \in Seq(Slots)
      /\ nslots[p] \in 0 .. MaxShared /\ Len(shared[p]) \in Nat /\ Len(shared[p]) <= MaxShared
      /\ status[p] = "alive" /\ own[p] \in Nat
  BY <1>3, FitsFacts DEF Running
<1>5. Apart(s, h, nslots[p]) /\ h \in Seq(Slots)
  <2>1. Apart(shared[p], holes[p], nslots[p])
    BY <1>4 DEF Fits
  <2> QED BY <1>2, <1>4, <2>1, ApartRemoved
<1>6. s \in Seq(SharedElements) /\ Len(s) <= MaxShared
  <2>1. s \in Seq(SharedElements) /\ Len(s) = Len(shared[p]) - 1
    BY <1>2, <1>4, RemoveAtFacts
  <2> HIDE DEF s
  <2> QED BY <1>4, <2>1, Sizes
<1>7. Changes(p, status[p], own[p], table[p], nslots[p], h, s)
  BY <1>1, <1>3, MemTyped DEF Changes
<1> HIDE DEF s, h
<1>8. Fits(status[p], own[p], table[p], nslots[p], h, s)
  BY <1>4, <1>5, <1>6 DEF Fits
<1>9. {i} \subseteq DOMAIN shared[p] /\ \A j \in {i} : shared[p][j].linked
  BY <1>2
<1> DEFINE pg == PagesAfter(p, {i})
<1>10. /\ pg \in [Names -> PageType]
       /\ \A j \in Names : pg[j].backed => pg[j].exists
       /\ Cardinality(Backed(pg)) = Cardinality(Backed(pages)) - gone
       /\ Cardinality(Backed(pages)) \in Nat /\ gone \in Nat
  BY <1>9, PagesAfterFacts
<1>11. \A j \in Names : /\ MapsAfter(p, s, j) <= pg[j].usage
                        /\ MapsAfter(p, s, j) # 0 => pg[j].exists
  <2> SUFFICES ASSUME NEW j \in Names
               PROVE  /\ MapsAfter(p, s, j) <= pg[j].usage
                      /\ MapsAfter(p, s, j) # 0 => pg[j].exists
    OBVIOUS
  <2>1. \A m \in Int : m <= Cardinality(Mappings(j)) - Users(p, {i}, j) /\ m >= 0 =>
                   /\ m <= pg[j].usage
                   /\ m # 0 => pg[j].exists
    BY <1>9, PagesAfterFacts
  <2>2. Users(p, {i}, j) = One(k = j)
    <3>1. CASE k = j
      <4>1. {x \in {i} : shared[p][x].name = j} = {i}
        BY <1>2, <3>1
      <4> QED BY <3>1, <4>1, FS_Singleton DEF Users, One
    <3>2. CASE k # j
      <4>1. {x \in {i} : shared[p][x].name = j} = {}
        BY <1>2, <3>2
      <4> QED BY <3>2, <4>1, FS_EmptySet DEF Users, One
    <3> QED BY <3>1, <3>2
  <2>3. Cardinality(MapsOf(s, j)) = Cardinality(MapsOf(shared[p], j)) - One(k = j)
    BY <1>2, <1>4, RemoveMaps DEF s
  <2>4. /\ Cardinality(MapsOf(shared[p], j)) \in Nat /\ Cardinality(Mappings(j)) \in Nat
        /\ Cardinality(MapsOf(shared[p], j)) <= Cardinality(Mappings(j))
    BY MappingCounts
  <2>5. Cardinality(MapsOf(s, j)) \in Nat /\ One(k = j) \in Nat
    BY <1>6, MapsFinite DEF One
  <2>6. /\ MapsAfter(p, s, j) = Cardinality(Mappings(j)) - Users(p, {i}, j)
        /\ MapsAfter(p, s, j) \in Nat
    BY <2>2, <2>3, <2>4, <2>5 DEF MapsAfter
  <2> QED BY <2>1, <2>6
<1>12. /\ 0 - gone = own[p] - own[p] + One(table[p]) - One(table[p])
                       + Cardinality(Backed(pg)) - Cardinality(Backed(pages))
       /\ free - 0 + gone >= 1
  <2>1. One(table[p]) \in Int /\ free \in Nat /\ free >= 1
    BY MemTyped, Sizes DEF One
  <2> HIDE DEF gone, pg
  <2> QED BY <1>4, <1>10, <2>1
<1>13. pages' = pg /\ Frees(0, gone) /\ halt' \in {"no", "use_after_free"}
  BY <1>1, <1>3, MemTyped
<1> HIDE DEF gone, pg
<1> QED BY <1>7, <1>8, <1>10, <1>11, <1>12, <1>13, StepKeeps

(* A process gives up all it has, and the pages of some of its elements.   *)
LEMMA ClearKeeps ==
  ASSUME MemInv, NEW p \in Procs, NEW places,
         places \subseteq DOMAIN shared[p], \A i \in places : shared[p][i].linked,
         NEW st \in {"none", "alive"}, NEW o \in 0 .. TotalFrames,
         st = "none" => o = 0, st = "alive" => o # 0,
         status' = [status EXCEPT ![p] = st], own' = [own EXCEPT ![p] = o],
         NothingShared(p), pages' = PagesAfter(p, places),
         NEW taken \in Nat, NEW gone \in Nat, Frees(taken, gone),
         taken - gone = o - AllOf(p) - FramesGone(p, places),
         free - taken + gone >= 1,
         halt' \in {"no", "use_after_free"}
  PROVE  MemInv'
<1>1. Changes(p, st, o, FALSE, 0, <<>>, <<>>)
  BY DEF Changes, NothingShared
<1>2. Fits(st, o, FALSE, 0, <<>>, <<>>)
  <2>1. <<>> \in Seq(Slots) /\ <<>> \in Seq(SharedElements) /\ Len(<<>>) = 0
    OBVIOUS
  <2> QED BY <2>1, Sizes, NothingToMap DEF Fits
<1> DEFINE pg == PagesAfter(p, places)
<1>3. /\ pg \in [Names -> PageType]
      /\ \A j \in Names : pg[j].backed => pg[j].exists
      /\ Cardinality(Backed(pg)) = Cardinality(Backed(pages)) - FramesGone(p, places)
      /\ Cardinality(Backed(pages)) \in Nat /\ FramesGone(p, places) \in Nat
  BY PagesAfterFacts
<1>4. \A j \in Names : /\ MapsAfter(p, <<>>, j) <= pg[j].usage
                       /\ MapsAfter(p, <<>>, j) # 0 => pg[j].exists
  <2> SUFFICES ASSUME NEW j \in Names
               PROVE  /\ MapsAfter(p, <<>>, j) <= pg[j].usage
                      /\ MapsAfter(p, <<>>, j) # 0 => pg[j].exists
    OBVIOUS
  <2>1. /\ \A m \in Int : m <= Cardinality(Mappings(j)) - Users(p, places, j) /\ m >= 0 =>
                   /\ m <= pg[j].usage
                   /\ m # 0 => pg[j].exists
        /\ Users(p, places, j) \in Nat
        /\ Users(p, places, j) <= Cardinality(MapsOf(shared[p], j))
    BY PagesAfterFacts
  <2>2. /\ Cardinality(MapsOf(shared[p], j)) \in Nat /\ Cardinality(Mappings(j)) \in Nat
        /\ Cardinality(MapsOf(shared[p], j)) <= Cardinality(Mappings(j))
    BY MappingCounts
  <2>3. MapsAfter(p, <<>>, j) = Cardinality(Mappings(j)) - Cardinality(MapsOf(shared[p], j))
    BY <2>2, NothingMapped DEF MapsAfter
  <2> HIDE DEF pg
  <2>4. MapsAfter(p, <<>>, j) \in Int /\ MapsAfter(p, <<>>, j) >= 0
        /\ MapsAfter(p, <<>>, j) <= Cardinality(Mappings(j)) - Users(p, places, j)
    BY <2>1, <2>2, <2>3
  <2> QED BY <2>1, <2>4
<1>5. taken - gone = o - own[p] + One(FALSE) - One(table[p])
                       + Cardinality(Backed(pg)) - Cardinality(Backed(pages))
  <2> DEFINE none == One(FALSE)
             tbl == One(table[p])
             bp == Cardinality(Backed(pages))
             bpg == Cardinality(Backed(pg))
  <2>1. own[p] \in Nat /\ tbl \in Nat /\ none = 0 /\ o \in Int
        /\ AllOf(p) = own[p] + tbl
    BY FitsFacts, Sizes DEF One, AllOf
  <2>2. bpg = bp - FramesGone(p, places) /\ bp \in Nat /\ FramesGone(p, places) \in Nat
    BY <1>3
  <2>3. taken - gone = o - AllOf(p) - FramesGone(p, places) /\ taken \in Int /\ gone \in Int
    OBVIOUS
  <2> HIDE DEF pg, none, tbl, bp, bpg
  <2>4. taken - gone = o - own[p] + none - tbl + bpg - bp
    BY <2>1, <2>2, <2>3
  <2> QED BY <2>4 DEF none, tbl, bp, bpg
<1>6. pages' = pg /\ taken \in Int /\ gone \in Int
  OBVIOUS
<1> HIDE DEF pg
<1> QED BY <1>1, <1>2, <1>3, <1>4, <1>5, <1>6, StepKeeps

LEMMA ReleasedAreLinked ==
  ASSUME NEW p, NEW readable
  PROVE  /\ Released(p, readable) \subseteq DOMAIN shared[p]
         /\ \A i \in Released(p, readable) : shared[p][i].linked
BY DEF Released, Finds

LEMMA EndKeeps ==
  ASSUME MemInv, NEW p \in Procs, End(p)
  PROVE  MemInv'
<1>1. PICK readable \in SUBSET {i \in DOMAIN shared[p] : shared[p][i].user} :
        \/ WalkBreaks(p, readable) /\ UseAfterFree
        \/ /\ WalkEnds(p, readable)
           /\ pages' = PagesAfter(p, Released(p, readable))
           /\ Frees(0, AllOf(p) + FramesGone(p, Released(p, readable)))
           /\ status' = [status EXCEPT ![p] = "none"]
           /\ own' = [own EXCEPT ![p] = 0]
           /\ NothingShared(p)
           /\ UNCHANGED halt
  BY DEF End
<1>2. CASE UseAfterFree
  BY <1>2, UseAfterFreeKeeps
<1>3. CASE ~ UseAfterFree
  <2> DEFINE places == Released(p, readable)
             gone == AllOf(p) + FramesGone(p, places)
             taken == 0
             o == 0
             st == "none"
  <2>1. places \subseteq DOMAIN shared[p] /\ \A i \in places : shared[p][i].linked
    BY ReleasedAreLinked
  <2>2. /\ pages' = PagesAfter(p, places) /\ Frees(taken, gone)
        /\ status' = [status EXCEPT ![p] = st] /\ own' = [own EXCEPT ![p] = o]
        /\ NothingShared(p) /\ halt' \in {"no", "use_after_free"}
    BY <1>1, <1>3, MemTyped
  <2> HIDE DEF places
  <2>3. AllOf(p) \in Nat /\ FramesGone(p, places) \in Nat
    <3>1. AllOf(p) \in Nat
      BY FitsFacts DEF AllOf, One
    <3> QED BY <3>1, <2>1, PagesAfterFacts
  <2>4. gone \in Nat /\ free - taken + gone >= 1
        /\ taken - gone = o - AllOf(p) - FramesGone(p, places)
    BY <2>3, MemTyped, Sizes
  <2>5. /\ o \in 0 .. TotalFrames /\ taken \in Nat /\ st \in {"none", "alive"}
        /\ (st = "none" => o = 0) /\ (st = "alive" => o # 0)
    BY Sizes
  <2> HIDE DEF gone, taken, o, st
  <2> QED BY <2>1, <2>2, <2>4, <2>5, ClearKeeps
<1> QED BY <1>2, <1>3

LEMMA ExecveKeeps ==
  ASSUME MemInv, NEW p \in Procs, Execve(p)
  PROVE  MemInv'
<1> DEFINE places == Released(p, Intact(p))
           lost == FramesGone(p, places)
           freed == AllOf(p) - 1 + lost
           fits  == FramesPerProcess <= free - 1 + freed
<1>1. /\ Running(p)
      /\ \/ UseAfterFree
         \/ /\ fits
            /\ pages' = PagesAfter(p, places)
            /\ own' = [own EXCEPT ![p] = FramesPerProcess]
            /\ Frees(FramesPerProcess, freed + 1)
            /\ NothingShared(p)
            /\ UNCHANGED <<status, halt>>
  BY DEF Execve
<1>2. CASE UseAfterFree
  BY <1>2, UseAfterFreeKeeps
<1>3. CASE ~ UseAfterFree
  <2> DEFINE gone == freed + 1
             st == "alive"
  <2>1. places \subseteq DOMAIN shared[p] /\ \A i \in places : shared[p][i].linked
    BY ReleasedAreLinked
  <2>2. /\ pages' = PagesAfter(p, places) /\ Frees(FramesPerProcess, gone)
        /\ own' = [own EXCEPT ![p] = FramesPerProcess]
        /\ status' = [status EXCEPT ![p] = st]
        /\ NothingShared(p) /\ halt' \in {"no", "use_after_free"} /\ fits
    BY <1>1, <1>3, MemTyped DEF Running
  <2> HIDE DEF places
  <2>3. /\ AllOf(p) \in Nat /\ lost \in Nat
        /\ AllOf(p) + lost <= mem_usage
    <3>1. /\ AllOf(p) \in Nat /\ own[p] \in Nat /\ AllOf(p) = own[p] + One(table[p])
          /\ AllOf(p) + Cardinality(Backed(pages)) <= mem_usage
      BY FitsFacts DEF AllOf, One
    <3>2. /\ lost \in Nat /\ Cardinality(Backed(pages)) \in Nat
          /\ Cardinality(Backed(PagesAfter(p, places))) = Cardinality(Backed(pages)) - lost
      BY <2>1, PagesAfterFacts
    <3>3. Cardinality(Backed(PagesAfter(p, places))) \in Nat
      <4>1. Backed(PagesAfter(p, places)) \in SUBSET Names
        BY DEF Backed
      <4> QED BY <4>1, Sizes, FS_Subset, FS_CardinalityType
    <3> HIDE DEF lost
    <3> QED BY <3>1, <3>2, <3>3, MemTyped
  <2>4. gone \in Nat /\ free - FramesPerProcess + gone >= 1
        /\ FramesPerProcess - gone = FramesPerProcess - AllOf(p) - lost
    <3>1. free \in Nat /\ FramesPerProcess \in Nat /\ FramesPerProcess <= free - 1 + freed
      BY <2>2, MemTyped, Sizes
    <3> HIDE DEF lost
    <3>2. gone = AllOf(p) + lost /\ freed = gone - 1 /\ gone \in Nat
      BY <2>3
    <3> HIDE DEF gone, freed
    <3> QED BY <2>3, <3>1, <3>2
  <2>5. /\ FramesPerProcess \in 0 .. TotalFrames /\ FramesPerProcess # 0
        /\ st \in {"none", "alive"} /\ st # "none" /\ FramesPerProcess \in Nat
    BY <2>2, <2>3, MemTyped, Sizes
  <2> HIDE DEF gone, st
  <2> QED BY <2>1, <2>2, <2>4, <2>5, ClearKeeps
<1> QED BY <1>2, <1>3

-----------------------------------------------------------------------------
(* fork.  The list of the child, from the names of the pages it inherits.  *)
Children(names, links) ==
  [i \in DOMAIN names |->
     [name |-> names[i], slot |-> IF links THEN i ELSE 0, linked |-> links,
      user |-> FALSE, intact |-> FALSE]]

LEMMA ChildList ==
  ASSUME NEW m \in Nat, m <= MaxShared, NEW names \in [1 .. m -> Names],
         NEW links \in BOOLEAN
  PROVE  LET s == Children(names, links)
             n == IF links THEN m ELSE 0
         IN  /\ s \in Seq(SharedElements) /\ Len(s) = m
             /\ Apart(s, <<>>, n)
             /\ ~ links => \A k : MapsOf(s, k) = {}
             /\ links => \A k : MapsOf(s, k) = {i \in 1 .. m : names[i] = k}
<1> DEFINE s == Children(names, links)
           n == IF links THEN m ELSE 0
<1>1. /\ DOMAIN s = 1 .. m
      /\ \A i \in 1 .. m : /\ s[i] \in SharedElements /\ s[i].name = names[i]
                           /\ s[i].linked = links /\ (links => s[i].slot = i)
  <2>1. \A i \in 1 .. m : i \in Slots
    BY Sizes DEF Slots
  <2>2. s = [i \in 1 .. m |->
               [name |-> names[i], slot |-> IF links THEN i ELSE 0, linked |-> links,
                user |-> FALSE, intact |-> FALSE]]
    BY DEF Children
  <2> HIDE DEF s
  <2> QED BY <2>1, <2>2 DEF SharedElements
<1>2. s \in Seq(SharedElements) /\ Len(s) = m
  <2>1. s = [i \in 1 .. m |-> s[i]]
    BY DEF Children
  <2> HIDE DEF s
  <2>2. s \in [1 .. m -> SharedElements]
    BY <1>1, <2>1
  <2> QED BY <2>2
<1> HIDE DEF s
<1>3. Range(<<>>) = {} /\ IsInjective(<<>>)
  BY DEF Range, IsInjective
<1>4. CASE links
  <2>1. MappedIn(s) = 1 .. m
    BY <1>1, <1>4 DEF MappedIn
  <2>2. SlotsIn(s) = 1 .. m
    <3>1. \A i \in MappedIn(s) : s[i].slot = i
      BY <1>1, <1>4, <2>1
    <3> QED BY <2>1, <3>1 DEF SlotsIn
  <2>3. Apart(s, <<>>, n)
    <3>1. n = m
      BY <1>4
    <3>2. \A i, j \in MappedIn(s) : s[i].slot = s[j].slot => i = j
      <4>1. \A i \in 1 .. m : s[i].slot = i
        BY <1>1, <1>4
      <4> QED BY <2>1, <4>1
    <3> HIDE DEF n
    <3> QED BY <1>3, <2>2, <3>1, <3>2 DEF Apart
  <2>4. \A k : MapsOf(s, k) = {i \in 1 .. m : names[i] = k}
    BY <1>1, <1>4 DEF MapsOf
  <2> QED BY <1>2, <1>4, <2>3, <2>4 DEF s
<1>5. CASE ~ links
  <2>1. MappedIn(s) = {}
    BY <1>1, <1>5 DEF MappedIn
  <2>2. SlotsIn(s) = {}
    BY <2>1 DEF SlotsIn
  <2>3. Apart(s, <<>>, n)
    BY <1>3, <1>5, <2>1, <2>2 DEF Apart
  <2>4. \A k : MapsOf(s, k) = {}
    BY <1>1, <1>5 DEF MapsOf
  <2> QED BY <1>2, <1>5, <2>3, <2>4 DEF s
<1> QED BY <1>4, <1>5

(* The names, when they can be linked, are all different.                  *)
NamesAt(p, places) == [i \in DOMAIN places |-> shared[p][places[i]].name]

LEMMA InheritedNames ==
  ASSUME MemInv, NEW p \in Procs, NEW links \in BOOLEAN, NEW K,
         K \subseteq Inherited(p, links), NEW places \in Ascending(K)
  PROVE  /\ Cardinality(K) \in Nat /\ Cardinality(K) <= MaxShared
         /\ NamesAt(p, places) \in [1 .. Cardinality(K) -> Names]
         /\ \A i \in 1 .. Cardinality(K) : pages[NamesAt(p, places)[i]].exists
         /\ links => \A i, j \in 1 .. Cardinality(K) :
                        NamesAt(p, places)[i] = NamesAt(p, places)[j] => i = j
<1> DEFINE names == NamesAt(p, places)
           m == Cardinality(K)
           sh == shared[p]
<1>1. /\ sh \in Seq(SharedElements) /\ DOMAIN sh = 1 .. Len(sh)
      /\ Len(sh) \in Nat /\ Len(sh) <= MaxShared
  BY FitsFacts
<1>2. m \in Nat /\ m <= MaxShared
  <2>1. IsFiniteSet(1 .. Len(sh)) /\ Cardinality(1 .. Len(sh)) = Len(sh)
    BY <1>1, FirstNumbers
  <2>2. K \in SUBSET (1 .. Len(sh))
    BY <1>1 DEF Inherited
  <2> HIDE DEF sh
  <2>3. IsFiniteSet(K) /\ Cardinality(K) <= Len(sh)
    BY <2>1, <2>2, FS_Subset
  <2>4. Cardinality(K) \in Nat
    BY <2>3, FS_CardinalityType
  <2> QED BY <1>1, <2>3, <2>4, Sizes
<1>3. /\ places \in [1 .. m -> K]
      /\ \A i, j \in DOMAIN places : i < j => places[i] < places[j]
  BY DEF Ascending
<1>4. \A x \in K : /\ x \in 1 .. Len(sh) /\ sh[x].name \in Names /\ pages[sh[x].name].exists
                   /\ links => \A j \in 1 .. x - 1 : sh[j].name # sh[x].name
  <2>1. \A x \in K : /\ x \in DOMAIN sh /\ pages[sh[x].name].exists
                     /\ links => \A j \in 1 .. x - 1 : sh[j].name # sh[x].name
    BY DEF Inherited
  <2> HIDE DEF sh
  <2>2. \A x \in DOMAIN sh : sh[x] \in SharedElements
    BY <1>1
  <2>3. \A x \in DOMAIN sh : sh[x].name \in Names
    BY <2>2 DEF SharedElements
  <2> QED BY <1>1, <2>1, <2>3
<1> HIDE DEF m, sh
<1>5. DOMAIN places = 1 .. m /\ \A i \in 1 .. m : places[i] \in K
  BY <1>3
<1>6. names = [i \in 1 .. m |-> sh[places[i]].name]
  BY <1>5 DEF sh, NamesAt
<1> HIDE DEF names
<1>7. \A i \in 1 .. m : names[i] = sh[places[i]].name /\ places[i] \in K
  BY <1>5, <1>6
<1>8. names \in [1 .. m -> Names] /\ \A i \in 1 .. m : pages[names[i]].exists
  BY <1>4, <1>6, <1>7
<1>9. ASSUME links, NEW i \in 1 .. m, NEW j \in 1 .. m, names[i] = names[j], i < j
      PROVE  FALSE
  <2>1. places[i] < places[j] /\ places[i] \in 1 .. Len(sh) /\ places[j] \in 1 .. Len(sh)
    BY <1>3, <1>4, <1>5, <1>9
  <2>2. places[i] \in 1 .. places[j] - 1
    BY <1>1, <2>1
  <2>3. sh[places[i]].name # sh[places[j]].name
    BY <1>4, <1>7, <1>9, <2>2
  <2> QED BY <1>7, <1>9, <2>3
<1>10. links => \A i, j \in 1 .. m : names[i] = names[j] => i = j
  <2> SUFFICES ASSUME links, NEW i \in 1 .. m, NEW j \in 1 .. m, names[i] = names[j], i # j
               PROVE  FALSE
    OBVIOUS
  <2>1. i < j \/ j < i
    BY <1>2
  <2> QED BY <1>9, <2>1
<1> QED BY <1>2, <1>8, <1>10 DEF names, m

LEMMA ForkKeeps ==
  ASSUME MemInv, NEW p \in Procs, NEW c \in Procs, Fork(p, c)
  PROVE  MemInv'
<1> DEFINE private == own[p] - 1
           got     == GetFrames(private)
           copied  == got = private
           links   == /\ copied /\ GetFrames(private + 1) = private + 1
                      /\ Inherited(p, TRUE) # {}
           before  == got + One(links)
           runs    == copied /\ GetFrames(before + 1) = before + 1
           K       == IF copied THEN Inherited(p, links) ELSE {}
           st      == IF runs THEN "alive" ELSE "broken"
           o       == got + One(runs)
           taken   == before + One(runs)
<1>1. /\ Running(p) /\ status[c] = "none"
      /\ status' = [status EXCEPT ![c] = st]
      /\ own' = [own EXCEPT ![c] = o]
      /\ Frees(taken, 0)
      /\ \E places \in Ascending(K) : Inherit(p, c, links, places)
      /\ UNCHANGED halt
  BY Zenon DEF Fork
<1>2. PICK places \in Ascending(K) : Inherit(p, c, links, places)
  BY <1>1
<1> DEFINE names == NamesAt(p, places)
           m == Cardinality(K)
           s == Children(names, links)
           n == IF links THEN Len(names) ELSE 0
           pg == [k \in Names |->
                    IF links /\ k \in Range(names) THEN Counted(pages[k]) ELSE pages[k]]
<1>3. /\ shared' = [shared EXCEPT ![c] = s] /\ table' = [table EXCEPT ![c] = links]
      /\ nslots' = [nslots EXCEPT ![c] = n] /\ pages' = pg /\ UNCHANGED holes
  BY <1>2, Zenon DEF Inherit, Children, NamesAt
<1>4. copied \in BOOLEAN /\ links \in BOOLEAN /\ runs \in BOOLEAN
  OBVIOUS
<1>5. /\ m \in Nat /\ m <= MaxShared /\ names \in [1 .. m -> Names]
      /\ \A i \in 1 .. m : pages[names[i]].exists
      /\ links => \A i, j \in 1 .. m : names[i] = names[j] => i = j
  <2>1. K \subseteq Inherited(p, links)
    OBVIOUS
  <2> HIDE DEF K, links
  <2> QED BY <1>4, <2>1, InheritedNames
<1> HIDE DEF names, m, K
<1>6. Len(names) = m /\ DOMAIN names = 1 .. m
  BY <1>5
<1>7. /\ s \in Seq(SharedElements) /\ Len(s) = m /\ Apart(s, <<>>, n)
      /\ ~ links => \A k : MapsOf(s, k) = {}
      /\ links => \A k : MapsOf(s, k) = {i \in 1 .. m : names[i] = k}
  <2> HIDE DEF links
  <2> QED BY <1>4, <1>5, <1>6, ChildList
<1>8. free \in 1 .. TotalFrames /\ TotalFrames \in Nat /\ free \in Nat
  BY MemTyped, Sizes
<1>9. private \in Nat /\ private + 1 \in Nat
  <2>1. own[p] \in Nat /\ own[p] # 0
    BY <1>1, FitsFacts DEF Fits, Running
  <2> QED BY <2>1
<1>10. /\ got \in 0 .. free - 1
       /\ links => got = private /\ private + 1 <= free - 1
       /\ One(links) \in 0 .. 1 /\ One(runs) \in 0 .. 1
       /\ (links => One(links) = 1) /\ (~ links => One(links) = 0)
       /\ (runs => One(runs) = 1) /\ (~ runs => One(runs) = 0)
  <2>1. got \in 0 .. free - 1
    BY <1>8, <1>9, GetFramesFacts
  <2>2. links => got = private /\ private + 1 <= free - 1
    <3>1. links => got = private /\ GetFrames(private + 1) = private + 1
      OBVIOUS
    <3>2. GetFrames(private + 1) \in 0 .. free - 1
      BY <1>8, <1>9, GetFramesFacts
    <3> HIDE DEF links, private, got
    <3> QED BY <1>8, <1>9, <3>1, <3>2
  <2> HIDE DEF links, runs
  <2> QED BY <2>1, <2>2 DEF One
<1>11. before \in Nat /\ before <= free - 1
  <2> HIDE DEF got, links, private
  <2> QED BY <1>8, <1>9, <1>10
<1>12. runs => before + 1 <= free - 1
  <2>1. GetFrames(before + 1) \in 0 .. free - 1
    <3> HIDE DEF before
    <3> QED BY <1>8, <1>11, GetFramesFacts
  <2> HIDE DEF before
  <2> QED BY <1>8, <1>11, <2>1
<1>13. taken \in Nat /\ free - taken + 0 >= 1
  <2> HIDE DEF before, runs
  <2> QED BY <1>8, <1>10, <1>11, <1>12
<1>14. o \in 0 .. TotalFrames /\ (runs => o # 0)
  <2>1. o <= taken
    <3> HIDE DEF got, links, runs
    <3> QED BY <1>8, <1>10
  <2> HIDE DEF taken, got, runs
  <2> QED BY <1>8, <1>10, <1>13, <2>1
<1>15. /\ own[c] = 0 /\ ~ table[c] /\ holes[c] = <<>> /\ shared[c] = <<>>
  <2>1. Fits(status[c], own[c], table[c], nslots[c], holes[c], shared[c])
    BY FitsFacts
  <2>2. own[c] = 0 /\ ~ table[c] /\ shared[c] = <<>>
    BY <1>1, <2>1 DEF Fits
  <2> QED BY <2>2, NoTableNoHoles
<1>16. Changes(c, st, o, links, n, <<>>, s)
  <2>1. holes' = [holes EXCEPT ![c] = <<>>]
    BY <1>3, <1>15, MemTyped
  <2> HIDE DEF st, o, links, n, s
  <2> QED BY <1>1, <1>3, <2>1 DEF Changes
<1>17. Fits(st, o, links, n, <<>>, s)
  <2>1. st \in {"alive", "broken"} /\ (st = "alive" => o # 0)
    BY <1>14
  <2>2. n \in 0 .. MaxShared /\ (~ links => n = 0)
    <3> HIDE DEF links
    <3> QED BY <1>5, <1>6, Sizes
  <2>3. <<>> \in Seq(Slots)
    OBVIOUS
  <2> HIDE DEF st, o, links, n, s
  <2> QED BY <1>4, <1>5, <1>7, <1>14, <2>1, <2>2, <2>3 DEF Fits
<1>18. \A k \in Names : /\ pages[k] \in PageType /\ pages[k].usage \in Nat
                        /\ pages[k].backed => pages[k].exists
                        /\ k \in Range(names) => pages[k].exists
  <2>1. \A k \in Names : pages[k] \in PageType /\ (pages[k].backed => pages[k].exists)
    BY MemTyped DEF MemInv
  <2>2. \A k \in Names : pages[k].usage \in Nat
    BY <2>1 DEF PageType
  <2> QED BY <1>5, <1>6, <2>1, <2>2 DEF Range
<1>19. \A k \in Names :
         /\ pg[k] \in PageType /\ pg[k].backed = pages[k].backed
         /\ pg[k].exists = pages[k].exists
         /\ pg[k].usage = pages[k].usage + One(links /\ k \in Range(names))
  <2> SUFFICES ASSUME NEW k \in Names
               PROVE  /\ pg[k] \in PageType /\ pg[k].backed = pages[k].backed
                      /\ pg[k].exists = pages[k].exists
                      /\ pg[k].usage = pages[k].usage + One(links /\ k \in Range(names))
    OBVIOUS
  <2>1. pages[k] \in PageType /\ pages[k].usage \in Nat
    BY <1>18
  <2> HIDE DEF links
  <2>2. CASE links /\ k \in Range(names)
    <3>1. pg[k] = Counted(pages[k]) /\ One(links /\ k \in Range(names)) = 1
      BY <2>2 DEF One
    <3> HIDE DEF pg
    <3> QED BY <2>1, <3>1 DEF Counted, PageType
  <2>3. CASE ~ (links /\ k \in Range(names))
    <3>1. pg[k] = pages[k] /\ One(links /\ k \in Range(names)) = 0
      BY <2>3 DEF One
    <3> HIDE DEF pg
    <3> QED BY <2>1, <3>1
  <2> QED BY <2>2, <2>3
<1>20. /\ pg \in [Names -> PageType]
       /\ \A k \in Names : pg[k].backed => pg[k].exists
       /\ Backed(pg) = Backed(pages)
  <2>1. pg = [k \in Names |-> pg[k]]
    OBVIOUS
  <2> HIDE DEF pg
  <2>2. pg \in [Names -> PageType]
    BY <1>19, <2>1
  <2> QED BY <1>18, <1>19, <2>2 DEF Backed
<1>21. \A k \in Names : /\ MapsAfter(c, s, k) <= pg[k].usage
                        /\ MapsAfter(c, s, k) # 0 => pg[k].exists
  <2> SUFFICES ASSUME NEW k \in Names
               PROVE  /\ MapsAfter(c, s, k) <= pg[k].usage
                      /\ MapsAfter(c, s, k) # 0 => pg[k].exists
    OBVIOUS
  <2> DEFINE b == One(links /\ k \in Range(names))
  <2>1. Cardinality(MapsOf(s, k)) = b
    <3>1. CASE links /\ k \in Range(names)
      <4>1. PICK i \in 1 .. m : names[i] = k
        BY <1>6, <3>1 DEF Range
      <4>2. MapsOf(s, k) = {j \in 1 .. m : names[j] = k}
        BY <1>7, <3>1
      <4>3. MapsOf(s, k) = {i}
        BY <1>5, <3>1, <4>1, <4>2
      <4> HIDE DEF s
      <4> QED BY <3>1, <4>3, FS_Singleton DEF One
    <3>2. CASE ~ (links /\ k \in Range(names))
      <4>1. MapsOf(s, k) = {}
        BY <1>6, <1>7, <3>2 DEF Range
      <4> HIDE DEF s, links
      <4> QED BY <3>2, <4>1, FS_EmptySet DEF One
    <3> QED BY <3>1, <3>2
  <2>2. /\ Cardinality(Mappings(k)) \in Nat /\ Cardinality(Mappings(k)) <= pages[k].usage
        /\ Cardinality(Mappings(k)) # 0 => pages[k].exists
        /\ pages[k].usage \in Nat
    BY MappingCounts
  <2>3. Cardinality(MapsOf(shared[c], k)) = 0
    BY <1>15, NothingMapped
  <2>4. b \in 0 .. 1 /\ (b # 0 => k \in Range(names))
    <3>1. CASE links /\ k \in Range(names)
      <4>1. b = 1
        BY <3>1 DEF One
      <4> HIDE DEF b, links
      <4> QED BY <3>1, <4>1
    <3>2. CASE ~ (links /\ k \in Range(names))
      <4>1. b = 0
        BY <3>2 DEF One
      <4> HIDE DEF b
      <4> QED BY <4>1
    <3> QED BY <3>1, <3>2
  <2> HIDE DEF s, b, pg, links
  <2>5. MapsAfter(c, s, k) = Cardinality(Mappings(k)) + b
    BY <2>1, <2>2, <2>3, <2>4 DEF MapsAfter
  <2>6. pg[k].usage = pages[k].usage + b /\ pg[k].exists = pages[k].exists
        /\ (k \in Range(names) => pages[k].exists)
    BY <1>18, <1>19 DEF b
  <2> QED BY <2>2, <2>4, <2>5, <2>6
<1>22. taken - 0 = o - own[c] + One(links) - One(table[c])
                     + Cardinality(Backed(pg)) - Cardinality(Backed(pages))
  <2> DEFINE bp == Cardinality(Backed(pages))
  <2>1. One(table[c]) = 0 /\ bp \in Nat
    <3>1. Backed(pages) \in SUBSET Names
      BY DEF Backed
    <3>2. bp \in Nat
      BY <3>1, Sizes, FS_Subset, FS_CardinalityType
    <3> QED BY <1>15, <3>2 DEF One
  <2>2. Cardinality(Backed(pg)) = bp
    BY <1>20
  <2> HIDE DEF bp, got, links, runs, pg
  <2>3. taken - 0 = o - own[c] + One(links) - One(table[c]) + bp - bp
    BY <1>8, <1>10, <1>15, <2>1
  <2> QED BY <2>2, <2>3 DEF bp
<1>23. pages' = pg /\ halt' \in {"no", "use_after_free"} /\ taken \in Int
  <2>1. halt' = halt /\ halt \in {"no", "use_after_free"}
    BY <1>1, MemTyped
  <2>2. pages' = pg
    BY <1>3
  <2> HIDE DEF pg, taken
  <2> QED BY <1>13, <2>1, <2>2
<1> HIDE DEF st, o, links, n, s, pg, taken
<1> QED BY <1>1, <1>13, <1>16, <1>17, <1>20, <1>21, <1>22, <1>23, StepKeeps

-----------------------------------------------------------------------------
LEMMA NextKeeps ==
  ASSUME MemInv, [MemNext]_memVars
  PROVE  MemInv'
<1>1. CASE UNCHANGED memVars
  <2>1. /\ UNCHANGED <<free, mem_usage, status, own, table, nslots, holes, shared, pages, halt>>
    BY <1>1 DEF memVars, frameVars, procVars
  <2> QED BY <2>1 DEF MemInv, FramesConserved, MemTypeOK, MappingsAreCounted, Mappings, Owned
<1>2. ASSUME NEW p \in Procs, Start(p) \/ Grow(p) \/ End(p) \/ Execve(p)
      PROVE  MemInv'
  BY <1>2, StartKeeps, GrowKeeps, EndKeeps, ExecveKeeps
<1>3. ASSUME NEW p \in Procs, NEW c \in Procs, Fork(p, c)
      PROVE  MemInv'
  BY <1>3, ForkKeeps
<1>4. ASSUME NEW p \in Procs, NEW k \in Names,
             ShmCreate(p, k) \/ ShmAcquire(p, k) \/ ShmRelease(p, k)
      PROVE  MemInv'
  BY <1>4, ShmCreateKeeps, ShmAcquireKeeps, ShmReleaseKeeps
<1>5. ASSUME NEW p \in Procs, NEW i \in Slots, Scribble(p, i)
      PROVE  MemInv'
  BY <1>5, ScribbleKeeps
<1> QED BY <1>1, <1>2, <1>3, <1>4, <1>5 DEF MemNext

(* MemInv holds in every reachable state: what the theorems below rest on. *)
THEOREM MemInvHolds == MemSpec => []MemInv
<1>1. MemInit => MemInv
  BY InitKeeps
<1>2. MemInv /\ [MemNext]_memVars => MemInv'
  BY NextKeeps
<1> QED BY <1>1, <1>2, PTL DEF MemSpec

(* Whatever the order of starts, forks, execs, ends and releases, and      *)
(* whichever allocation fails half-way (frame_dist.c, process_memory.c),   *)
(* no frame is lost or freed twice, for every number of processes, of      *)
(* names and of frames.                                                    *)
THEOREM FramesConservedHolds == MemSpec => []FramesConserved
<1>1. MemInv => FramesConserved
  BY DEF MemInv
<1> QED BY <1>1, MemInvHolds, PTL

(* The usage of a shared page (memory_api.c) counts every mapping of it,   *)
(* so that none is freed while a process maps it.                          *)
THEOREM MappingsAreCountedHolds == MemSpec => []MappingsAreCounted
<1>1. MemInv => MappingsAreCounted
  BY DEF MemInv
<1> QED BY <1>1, MemInvHolds, PTL

(* link_shared_page_to_process never gives a process an address at which   *)
(* it has another shared page, nor loses one.                              *)
THEOREM SlotsApartHolds == MemSpec => []SlotsApart
<1>1. MemInv => SlotsApart
  <2>1. ASSUME MemInv, NEW p \in Procs
        PROVE  Apart(shared[p], holes[p], nslots[p])
    BY <2>1 DEF MemInv, Fits
  <2>2. \A p : Mapped(p) = MappedIn(shared[p]) /\ SlotsUsed(p) = SlotsIn(shared[p])
    BY DEF Mapped, MappedIn, SlotsUsed, SlotsIn
  <2> QED BY <2>1, <2>2 DEF SlotsApart, Apart
<1> QED BY <1>1, MemInvHolds, PTL
=============================================================================
