--------------------------- MODULE FileSystemProofs ---------------------------
(***************************************************************************)
(* Two parts of the file system, which share no state: the open files with *)
(* the names and inodes (Files), for all sets of processes, names, inodes  *)
(* and open files and any number of descriptors, and the blocks of one     *)
(* file (InodeBlocks), for any number of direct blocks, any number of      *)
(* entries in an index block (12 and 512 in the code) and any disk.        *)
(*                                                                         *)
(* Files: the invariants as theorems, and that a file all have open is not *)
(* deleted.  The inductive invariant FilesInv is the type with three       *)
(* counts that are never too low: the links of an inode for its names, its *)
(* usage for the open files on it, the usage of an open file for its       *)
(* descriptors.  They need each other: an inode whose names are all gone   *)
(* is freed, which must make the open files on it stale, and a stale one   *)
(* is exempt.  The calls on names change a record of state parts, F; the   *)
(* lemmas follow one through unlink, link and rename.                      *)
(*                                                                         *)
(* InodeBlocks: BlocksInOrder and FreesItsOwn as theorems.  The inductive  *)
(* invariant BlocksInv says that the index blocks in use are different     *)
(* from each other and from the data blocks, where each data block is, and *)
(* that the rest of the double part is zero.  It is said of a file F that  *)
(* is a parameter (Tree), as adding one data block changes the file in     *)
(* several steps.                                                          *)
(***************************************************************************)
EXTENDS Files, InodeBlocks, FiniteSetTheorems, FunctionTheorems, TLAPS

-----------------------------------------------------------------------------
(* The open files.                                                         *)
Parts ==
  [dir : [Names -> Inodes \cup {NoInode}], links : [Inodes -> Int],
   usage : [Inodes -> Int], files : [Flips -> OpenFiles]]

NamesOf(F, n) == {b \in Names : F.dir[b] = n}
OpenOn(F, n)  == {f \in Flips : F.files[f].ino = n /\ ~ F.files[f].stale}

LinksEnough(F) == \A n \in Inodes : F.links[n] >= Cardinality(NamesOf(F, n))

UsageEnough(F) ==
  \A n \in Inodes :
     /\ F.usage[n] >= Cardinality(OpenOn(F, n))
     /\ OpenOn(F, n) # {} => F.links[n] > 0

Sound(F) == F \in Parts /\ LinksEnough(F) /\ UsageEnough(F)

(* What a call by the process p may do to the open files, from the ones    *)
(* there are: those of others may become stale, its own may not.           *)
Spares(p, F) ==
  \A f \in Flips :
     /\ F.files[f].ino = files[f].ino
     /\ F.files[f].usage = files[f].usage
     /\ files[f].stale => F.files[f].stale
     /\ F.files[f].stale => files[f].stale \/ f \notin OpenBy(p)

-----------------------------------------------------------------------------
(* Finite sets.                                                            *)
LEMMA FinitePartsOf ==
  ASSUME NEW S, IsFiniteSet(S), NEW T, T \subseteq S
  PROVE  /\ IsFiniteSet(T)
         /\ Cardinality(T) \in Nat
         /\ Cardinality(T) = 0 <=> T = {}
         /\ Cardinality(T) <= Cardinality(S)
<1>1. IsFiniteSet(T) /\ Cardinality(T) <= Cardinality(S)
  BY FS_Subset, T \in SUBSET S
<1> QED BY <1>1, FS_CardinalityType, FS_EmptySet

LEMMA OneElementMore ==
  ASSUME NEW S, IsFiniteSet(S), NEW x
  PROVE  /\ IsFiniteSet(S \cup {x})
         /\ Cardinality(S) \in Nat /\ Cardinality(S \cup {x}) \in Nat
         /\ Cardinality(S \cup {x}) <= Cardinality(S) + 1
<1>1. /\ IsFiniteSet(S \cup {x})
      /\ Cardinality(S \cup {x}) =
           IF x \in S THEN Cardinality(S) ELSE Cardinality(S) + 1
  BY FS_AddElement
<1>2. Cardinality(S) \in Nat /\ Cardinality(S \cup {x}) \in Nat
  BY <1>1, FS_CardinalityType
<1> QED BY <1>1, <1>2

LEMMA CountsSet ==
  ASSUME NEW g \in [Inodes -> Int], NEW n, NEW i \in Int
  PROVE  [g EXCEPT ![n] = i] \in [Inodes -> Int]
OBVIOUS

LEMMA EntriesSet ==
  ASSUME NEW g \in [Names -> Inodes \cup {NoInode}], NEW a,
         NEW n \in Inodes \cup {NoInode}
  PROVE  [g EXCEPT ![a] = n] \in [Names -> Inodes \cup {NoInode}]
OBVIOUS

LEMMA NamesFinite ==
  ASSUME NEW F, NEW n
  PROVE  IsFiniteSet(NamesOf(F, n)) /\ Cardinality(NamesOf(F, n)) \in Nat
<1>1. IsFiniteSet(Names) /\ NamesOf(F, n) \subseteq Names
  BY FilesAssumption DEF NamesOf
<1> QED BY <1>1, FinitePartsOf

LEMMA OpenOnFinite ==
  ASSUME NEW F, NEW n
  PROVE  /\ IsFiniteSet(OpenOn(F, n)) /\ Cardinality(OpenOn(F, n)) \in Nat
         /\ Cardinality(OpenOn(F, n)) = 0 <=> OpenOn(F, n) = {}
<1>1. IsFiniteSet(Flips) /\ OpenOn(F, n) \subseteq Flips
  BY FilesAssumption DEF OpenOn
<1> QED BY <1>1, FinitePartsOf

-----------------------------------------------------------------------------
(* The parts of the state after an unlink that removes the entry.          *)
Removes(F, G, a, n) ==
  /\ G.dir = [F.dir EXCEPT ![a] = NoInode]
  /\ G.links = [F.links EXCEPT ![n] = @ - 1]
  /\ \/ /\ F.links[n] # 1
        /\ G.usage = F.usage /\ G.files = F.files
     \/ /\ F.links[n] = 1
        /\ G.usage = [F.usage EXCEPT ![n] = 0]
        /\ G.files = [f \in Flips |->
             [F.files[f] EXCEPT !.stale = @ \/ F.files[f].ino = n]]

LEMMA UnlinkForms ==
  ASSUME NEW p \in Procs, NEW F \in Parts, NEW a \in Names
  PROVE  /\ UnlinkIn(p, F, a) # F =>
              /\ F.dir[a] \in Inodes /\ ~ UsedBy(p, F.dir[a])
              /\ Removes(F, UnlinkIn(p, F, a), a, F.dir[a])
              /\ UnlinkIn(p, F, a) \in Parts
         /\ F.dir[a] \in Inodes /\ ~ UsedBy(p, F.dir[a]) =>
              UnlinkIn(p, F, a).dir = [F.dir EXCEPT ![a] = NoInode]
<1> DEFINE n == F.dir[a]
           G == [F EXCEPT !.dir[a] = NoInode]
<1> F.dir \in [Names -> Inodes \cup {NoInode}]
  BY DEF Parts
<1>1. n \in Inodes \cup {NoInode}
  BY DEF Parts
<1>2. CASE n = NoInode \/ UsedBy(p, n)
  BY <1>2, FilesAssumption DEF UnlinkIn
<1>3. CASE n \in Inodes /\ ~ UsedBy(p, n)
  <2>1. UnlinkIn(p, F, a) = FreeInode(G, n)
    BY <1>3, FilesAssumption DEF UnlinkIn
  <2>2. /\ G \in Parts
        /\ G.dir = [F.dir EXCEPT ![a] = NoInode]
        /\ G.links = F.links /\ G.usage = F.usage /\ G.files = F.files
    BY DEF Parts
  <2> HIDE DEF G
  <2>3. CASE F.links[n] # 1
    <3>1. FreeInode(G, n) = [G EXCEPT !.links[n] = @ - 1]
      BY <2>2, <2>3 DEF FreeInode, LastLink
    <3>2. /\ FreeInode(G, n) \in Parts
          /\ FreeInode(G, n).dir = G.dir
          /\ FreeInode(G, n).links = [G.links EXCEPT ![n] = @ - 1]
          /\ FreeInode(G, n).usage = G.usage
          /\ FreeInode(G, n).files = G.files
      BY <3>1, <2>2, <1>3 DEF Parts
    <3> QED BY <1>3, <2>1, <2>2, <2>3, <3>2 DEF Removes
  <2>4. CASE F.links[n] = 1
    <3> DEFINE fs == [f \in Flips |->
                 [F.files[f] EXCEPT !.stale = @ \/ F.files[f].ino = n]]
               us == [F.usage EXCEPT ![n] = 0]
               ls == [F.links EXCEPT ![n] = 0]
    <3>1. FreeInode(G, n) = [G EXCEPT !.links = ls, !.usage = us, !.files = fs]
      BY <2>2, <2>4 DEF FreeInode, LastLink, Parts
    <3> F.usage \in [Inodes -> Int] /\ F.links \in [Inodes -> Int]
      BY DEF Parts
    <3>2. fs \in [Flips -> OpenFiles]
      BY DEF Parts, OpenFiles
    <3>3. us \in [Inodes -> Int] /\ ls \in [Inodes -> Int]
      BY CountsSet
    <3>4. ls = [F.links EXCEPT ![n] = @ - 1]
      BY <2>4, <1>3
    <3> HIDE DEF fs, us, ls
    <3>5. /\ FreeInode(G, n) \in Parts
          /\ FreeInode(G, n).dir = G.dir
          /\ FreeInode(G, n).links = ls
          /\ FreeInode(G, n).usage = us
          /\ FreeInode(G, n).files = fs
      BY <3>1, <3>2, <3>3, <2>2 DEF Parts
    <3> QED BY <1>3, <2>1, <2>2, <2>4, <3>4, <3>5 DEF Removes, fs, us
  <2> QED BY <2>3, <2>4
<1> QED BY <1>1, <1>2, <1>3

-----------------------------------------------------------------------------
(* unlink keeps the counts and spares the files of its caller.             *)
LEMMA RemoveKeepsLinks ==
  ASSUME NEW F \in Parts, NEW G \in Parts, LinksEnough(F),
         NEW a \in Names, F.dir[a] \in Inodes, Removes(F, G, a, F.dir[a])
  PROVE  LinksEnough(G)
<1> DEFINE n == F.dir[a]
<1> SUFFICES ASSUME NEW m \in Inodes
             PROVE  G.links[m] >= Cardinality(NamesOf(G, m))
  BY DEF LinksEnough
<1> F.dir \in [Names -> Inodes \cup {NoInode}] /\ F.links \in [Inodes -> Int]
  BY DEF Parts
<1>1. F.links[m] >= Cardinality(NamesOf(F, m))
  BY DEF LinksEnough
<1>2. Cardinality(NamesOf(F, m)) \in Nat
  BY NamesFinite
<1>3. CASE m # n
  <2>1. G.links[m] = F.links[m]
    BY <1>3 DEF Removes
  <2>2. NamesOf(G, m) = NamesOf(F, m)
    BY <1>3, FilesAssumption DEF Removes, NamesOf
  <2> QED BY <2>1, <2>2, <1>1
<1>4. CASE m = n
  <2>1. G.links[m] = F.links[m] - 1
    BY <1>4 DEF Removes
  <2>2. NamesOf(G, m) = NamesOf(F, m) \ {a} /\ a \in NamesOf(F, m)
    BY <1>4, FilesAssumption DEF Removes, NamesOf
  <2>3. Cardinality(NamesOf(G, m)) = Cardinality(NamesOf(F, m)) - 1
    BY <2>2, NamesFinite, FS_RemoveElement
  <2> QED BY <2>1, <2>3, <1>1, <1>2
<1> QED BY <1>3, <1>4

LEMMA RemoveKeepsUsage ==
  ASSUME NEW F \in Parts, NEW G \in Parts, UsageEnough(F),
         NEW a \in Names, F.dir[a] \in Inodes, Removes(F, G, a, F.dir[a])
  PROVE  UsageEnough(G)
<1> DEFINE n == F.dir[a]
<1> SUFFICES ASSUME NEW m \in Inodes
             PROVE  /\ G.usage[m] >= Cardinality(OpenOn(G, m))
                    /\ OpenOn(G, m) # {} => G.links[m] > 0
  BY DEF UsageEnough
<1> /\ F.links \in [Inodes -> Int] /\ F.usage \in [Inodes -> Int]
    /\ F.files \in [Flips -> OpenFiles]
  BY DEF Parts
<1>1. /\ F.usage[m] >= Cardinality(OpenOn(F, m))
      /\ OpenOn(F, m) # {} => F.links[m] > 0
  BY DEF UsageEnough
<1>2. CASE F.links[n] # 1
  <2>1. G.usage = F.usage /\ OpenOn(G, m) = OpenOn(F, m)
    BY <1>2 DEF Removes, OpenOn
  <2>2. G.links[m] = IF m = n THEN F.links[m] - 1 ELSE F.links[m]
    BY DEF Removes
  <2> QED BY <1>1, <1>2, <2>1, <2>2
<1>3. CASE F.links[n] = 1
  <2>1. \A f \in Flips : /\ G.files[f].ino = F.files[f].ino
                         /\ G.files[f].stale <=>
                              F.files[f].stale \/ F.files[f].ino = n
    <3> TAKE f \in Flips
    <3>1. G.files[f] = [F.files[f] EXCEPT !.stale = @ \/ F.files[f].ino = n]
      BY <1>3 DEF Removes
    <3>2. F.files[f] \in OpenFiles
      OBVIOUS
    <3> QED BY <3>1, <3>2 DEF OpenFiles
  <2>2. CASE m = n
    <3>1. OpenOn(G, m) = {}
      BY <2>1, <2>2 DEF OpenOn
    <3>2. G.usage[m] = 0
      BY <1>3, <2>2 DEF Removes
    <3> QED BY <3>1, <3>2, FS_EmptySet
  <2>3. CASE m # n
    <3>1. OpenOn(G, m) = OpenOn(F, m)
      BY <2>1, <2>3 DEF OpenOn
    <3>2. G.usage[m] = F.usage[m] /\ G.links[m] = F.links[m]
      BY <1>3, <2>3 DEF Removes
    <3> QED BY <3>1, <3>2, <1>1
  <2> QED BY <2>2, <2>3
<1> QED BY <1>2, <1>3

LEMMA UnlinkSound ==
  ASSUME NEW p \in Procs, NEW F, Sound(F), Spares(p, F), NEW a \in Names
  PROVE  Sound(UnlinkIn(p, F, a)) /\ Spares(p, UnlinkIn(p, F, a))
<1> DEFINE G == UnlinkIn(p, F, a)
           n == F.dir[a]
<1> F \in Parts
  BY DEF Sound
<1>1. CASE G = F
  BY <1>1
<1>2. CASE G # F
  <2>1. /\ n \in Inodes /\ ~ UsedBy(p, n)
        /\ Removes(F, G, a, n) /\ G \in Parts
    BY <1>2, UnlinkForms
  <2> HIDE DEF G
  <2>2. Sound(G)
    BY <2>1, RemoveKeepsLinks, RemoveKeepsUsage DEF Sound
  <2>3. Spares(p, G)
    <3> SUFFICES ASSUME NEW f \in Flips
                 PROVE  /\ G.files[f].ino = files[f].ino
                        /\ G.files[f].usage = files[f].usage
                        /\ files[f].stale => G.files[f].stale
                        /\ G.files[f].stale => files[f].stale \/ f \notin OpenBy(p)
      BY DEF Spares
    <3>1. /\ F.files[f].ino = files[f].ino
          /\ F.files[f].usage = files[f].usage
          /\ files[f].stale => F.files[f].stale
          /\ F.files[f].stale => files[f].stale \/ f \notin OpenBy(p)
      BY DEF Spares
    <3>2. CASE G.files = F.files
      BY <3>1, <3>2
    <3>3. CASE G.files # F.files
      <4>1. G.files[f] = [F.files[f] EXCEPT !.stale = @ \/ F.files[f].ino = n]
        BY <2>1, <3>3 DEF Removes
      <4>2. F.files[f] \in OpenFiles
        BY DEF Parts
      <4>3. /\ G.files[f].ino = F.files[f].ino
            /\ G.files[f].usage = F.files[f].usage
            /\ G.files[f].stale <=> F.files[f].stale \/ F.files[f].ino = n
        BY <4>1, <4>2 DEF OpenFiles
      <4>4. F.files[f].ino = n => f \notin OpenBy(p)
        BY <2>1, <3>1 DEF UsedBy
      <4> QED BY <3>1, <4>3, <4>4
    <3> QED BY <3>2, <3>3
  <2> QED BY <2>2, <2>3 DEF G
<1> QED BY <1>1, <1>2

-----------------------------------------------------------------------------
(* link and rename.                                                        *)
Links(F, G, a, b, room) ==
  /\ G.links = [F.links EXCEPT ![F.dir[a]] = @ + 1]
  /\ G.dir = [F.dir EXCEPT ![b] = IF room THEN F.dir[a] ELSE NoInode]
  /\ G.usage = F.usage /\ G.files = F.files

LEMMA LinkForms ==
  ASSUME NEW F \in Parts, NEW a \in Names, NEW b \in Names, NEW room \in BOOLEAN,
         F.dir[a] \in Inodes, F.dir[b] = NoInode
  PROVE  LinkIn(F, a, b, room) \in Parts /\ Links(F, LinkIn(F, a, b, room), a, b, room)
<1> DEFINE n == F.dir[a]
           ls == [F.links EXCEPT ![n] = F.links[n] + 1]
           ds == [F.dir EXCEPT ![b] = IF room THEN n ELSE NoInode]
<1>1. LinkIn(F, a, b, room) = [F EXCEPT !.links = ls, !.dir = ds]
  BY DEF LinkIn, Parts
<1> F.dir \in [Names -> Inodes \cup {NoInode}] /\ F.links \in [Inodes -> Int]
  BY DEF Parts
<1>2. ls \in [Inodes -> Int]
  <2>1. F.links[n] \in Int
    OBVIOUS
  <2>2. F.links[n] + 1 \in Int
    BY <2>1
  <2> QED BY <2>2, CountsSet
<1>3. ds \in [Names -> Inodes \cup {NoInode}]
  <2>1. (IF room THEN n ELSE NoInode) \in Inodes \cup {NoInode}
    OBVIOUS
  <2> QED BY <2>1, EntriesSet
<1> DEFINE G == LinkIn(F, a, b, room)
<1> HIDE DEF ls, ds
<1>4. G \in Parts /\ G.links = ls /\ G.dir = ds /\ G.usage = F.usage /\ G.files = F.files
  BY <1>1, <1>2, <1>3 DEF Parts
<1> HIDE DEF G
<1>5. G \in Parts /\ Links(F, G, a, b, room)
  BY <1>4 DEF ls, ds, Links
<1> QED BY <1>5 DEF G

LEMMA LinkSound ==
  ASSUME NEW p \in Procs, NEW F, Sound(F), Spares(p, F),
         NEW a \in Names, NEW b \in Names, NEW room \in BOOLEAN, F.dir[a] \in Inodes
  PROVE  Sound(LinkIn(F, a, b, room)) /\ Spares(p, LinkIn(F, a, b, room))
<1> DEFINE G == LinkIn(F, a, b, room)
           n == F.dir[a]
<1> F \in Parts
  BY DEF Sound
<1>1. CASE F.dir[b] # NoInode
  BY <1>1 DEF LinkIn
<1>2. CASE F.dir[b] = NoInode
  <2>1. /\ G \in Parts
        /\ G.links = [F.links EXCEPT ![n] = @ + 1]
        /\ G.dir = [F.dir EXCEPT ![b] = IF room THEN n ELSE NoInode]
        /\ G.usage = F.usage /\ G.files = F.files
    BY <1>2, LinkForms DEF Links
  <2> HIDE DEF G
  <2> F.dir \in [Names -> Inodes \cup {NoInode}] /\ F.links \in [Inodes -> Int]
    BY DEF Parts
  <2>2. LinksEnough(G)
    <3> SUFFICES ASSUME NEW m \in Inodes
                 PROVE  G.links[m] >= Cardinality(NamesOf(G, m))
      BY DEF LinksEnough
    <3>1. F.links[m] >= Cardinality(NamesOf(F, m))
      BY DEF LinksEnough, Sound
    <3>2. /\ Cardinality(NamesOf(F, m)) \in Nat
          /\ Cardinality(NamesOf(F, m) \cup {b}) <= Cardinality(NamesOf(F, m)) + 1
      BY NamesFinite, OneElementMore
    <3>3. \/ NamesOf(G, m) = NamesOf(F, m)
          \/ m = n /\ NamesOf(G, m) = NamesOf(F, m) \cup {b}
      BY <2>1, <1>2, FilesAssumption DEF NamesOf
    <3>4. G.links[m] = IF m = n THEN F.links[m] + 1 ELSE F.links[m]
      BY <2>1
    <3>5. F.links[m] \in Int
      OBVIOUS
    <3>6. CASE m # n
      BY <3>1, <3>3, <3>4, <3>6
    <3>7. CASE m = n
      <4>1. G.links[m] = F.links[m] + 1
        BY <3>4, <3>7
      <4>2. \/ Cardinality(NamesOf(G, m)) = Cardinality(NamesOf(F, m))
            \/ Cardinality(NamesOf(G, m)) = Cardinality(NamesOf(F, m) \cup {b})
        BY <3>3, Zenon
      <4>3. Cardinality(NamesOf(F, m) \cup {b}) \in Nat
        BY NamesFinite, OneElementMore
      <4> DEFINE x == Cardinality(NamesOf(G, m))
                 y == Cardinality(NamesOf(F, m))
                 z == Cardinality(NamesOf(F, m) \cup {b})
      <4> HIDE DEF x, y, z
      <4>4. F.links[m] + 1 >= x
        BY <4>2, <4>3, <3>1, <3>2, <3>5 DEF x, y, z
      <4> QED BY <4>1, <4>4 DEF x
    <3> QED BY <3>6, <3>7
  <2>3. UsageEnough(G)
    <3> SUFFICES ASSUME NEW m \in Inodes
                 PROVE  /\ G.usage[m] >= Cardinality(OpenOn(G, m))
                        /\ OpenOn(G, m) # {} => G.links[m] > 0
      BY DEF UsageEnough
    <3>1. /\ F.usage[m] >= Cardinality(OpenOn(F, m))
          /\ OpenOn(F, m) # {} => F.links[m] > 0
      BY DEF UsageEnough, Sound
    <3>2. G.usage[m] = F.usage[m] /\ OpenOn(G, m) = OpenOn(F, m)
      BY <2>1 DEF OpenOn
    <3>3. G.links[m] = IF m = n THEN F.links[m] + 1 ELSE F.links[m]
      BY <2>1
    <3> QED BY <3>1, <3>2, <3>3
  <2>4. Spares(p, G)
    BY <2>1 DEF Spares
  <2> QED BY <2>1, <2>2, <2>3, <2>4 DEF Sound, G
<1> QED BY <1>1, <1>2

LEMMA UnlinkOthers ==
  ASSUME NEW p \in Procs, NEW F \in Parts, NEW a \in Names, NEW b \in Names, a # b
  PROVE  /\ UnlinkIn(p, F, a) \in Parts
         /\ UnlinkIn(p, F, a).dir[b] = F.dir[b]
<1>1. CASE UnlinkIn(p, F, a) = F
  BY <1>1
<1>2. CASE UnlinkIn(p, F, a) # F
  <2> DEFINE G == UnlinkIn(p, F, a)
  <2>1. G \in Parts /\ G.dir = [F.dir EXCEPT ![a] = NoInode]
    <3>1. G \in Parts /\ Removes(F, G, a, F.dir[a])
      BY <1>2, UnlinkForms
    <3> QED BY <3>1 DEF Removes
  <2> HIDE DEF G
  <2>2. G.dir[b] = F.dir[b]
    BY <2>1 DEF Parts
  <2> QED BY <2>1, <2>2 DEF G
<1> QED BY <1>1, <1>2

LEMMA RoomMadeForms ==
  ASSUME NEW p \in Procs, NEW F \in Parts, NEW a \in Names, NEW b \in Names,
         a # b, F.dir[a] \in Inodes
  PROVE  /\ RoomMade(p, F, a, b) \in Parts
         /\ RoomMade(p, F, a, b).dir[a] = F.dir[a]
BY UnlinkOthers DEF RoomMade

LEMMA RenameSound ==
  ASSUME NEW p \in Procs, NEW F, Sound(F), Spares(p, F),
         NEW a \in Names, NEW b \in Names, NEW room \in BOOLEAN, F.dir[a] \in Inodes
  PROVE  /\ Sound(RenameIn(p, F, a, b, room))
         /\ Spares(p, RenameIn(p, F, a, b, room))
<1> DEFINE G == RoomMade(p, F, a, b)
           H == LinkIn(G, a, b, room)
<1>1. Sound(G) /\ Spares(p, G)
  BY UnlinkSound DEF RoomMade
<1>2. CASE a = b
  BY <1>1, <1>2 DEF RenameIn
<1>3. CASE a # b
  <2>1. G.dir[a] \in Inodes
    BY <1>3, RoomMadeForms DEF Sound
  <2> HIDE DEF G
  <2>2. Sound(H) /\ Spares(p, H)
    BY <1>1, <2>1, LinkSound
  <2> HIDE DEF H
  <2>3. Sound(UnlinkIn(p, H, a)) /\ Spares(p, UnlinkIn(p, H, a))
    BY <2>2, UnlinkSound
  <2>4. RenameIn(p, F, a, b, room) \in {H, UnlinkIn(p, H, a)}
    BY <1>3 DEF RenameIn, LinkFirst, G, H
  <2> QED BY <2>2, <2>3, <2>4
<1> QED BY <1>2, <1>3

(* After a rename the file has one of the two names: the old one if the    *)
(* new one could not be unlinked or the directory has no room.             *)
LEMMA RenameKeeps ==
  ASSUME NEW p \in Procs, NEW F \in Parts, NEW a \in Names, NEW b \in Names,
         NEW room \in BOOLEAN, a # b, F.dir[a] \in Inodes
  PROVE  \E c \in Names : RenameIn(p, F, a, b, room).dir[c] = F.dir[a]
<1> DEFINE G == RoomMade(p, F, a, b)
           H == LinkIn(G, a, b, room)
<1>1. G \in Parts /\ G.dir[a] = F.dir[a]
  BY RoomMadeForms
<1>2. RenameIn(p, F, a, b, room) =
        IF G.dir[b] = NoInode /\ room THEN UnlinkIn(p, H, a) ELSE H
  BY DEF RenameIn, LinkFirst
<1> HIDE DEF G
<1> G.dir \in [Names -> Inodes \cup {NoInode}]
  BY <1>1 DEF Parts
<1>3. CASE G.dir[b] # NoInode
  <2>1. H = G
    BY <1>3 DEF LinkIn
  <2> QED BY <1>1, <1>2, <1>3, <2>1
<1>4. CASE G.dir[b] = NoInode
  <2>0. G \in Parts /\ G.dir[a] \in Inodes
    BY <1>1
  <2>1. H \in Parts /\ Links(G, H, a, b, room)
    BY <2>0, <1>4, LinkForms
  <2> HIDE DEF H
  <2>2. H.dir \in [Names -> Inodes \cup {NoInode}]
    BY <2>1 DEF Parts
  <2>3. CASE ~ room
    <3>1. H.dir[a] = F.dir[a] /\ RenameIn(p, F, a, b, room) = H
      BY <1>1, <1>2, <2>1, <2>3 DEF Links
    <3> QED BY <3>1
  <2>4. CASE room
    <3>1. H.dir[b] = F.dir[a] /\ RenameIn(p, F, a, b, room) = UnlinkIn(p, H, a)
      BY <1>1, <1>2, <1>4, <2>1, <2>4 DEF Links
    <3> QED BY <3>1, <2>1, UnlinkOthers
  <2> QED BY <2>3, <2>4
<1> QED BY <1>3, <1>4

-----------------------------------------------------------------------------
(* What the calls on descriptors do to the parts of the state.             *)

(* Only the usage of open files changes.                                   *)
Recounts(F, G) ==
  /\ G.dir = F.dir /\ G.links = F.links /\ G.usage = F.usage
  /\ \A f \in Flips : /\ G.files[f].ino = F.files[f].ino
                      /\ G.files[f].stale = F.files[f].stale

(* The open file f, which is not stale, goes.                              *)
Puts(F, G, f) ==
  /\ G.dir = F.dir /\ G.links = F.links
  /\ G.usage = [F.usage EXCEPT ![F.files[f].ino] = @ - 1]
  /\ G.files = [F.files EXCEPT ![f] = NoFile]

(* The open file f becomes one on the inode n.                             *)
Gets(F, G, f, n) ==
  /\ G.dir = F.dir /\ G.links = F.links
  /\ G.usage = [F.usage EXCEPT ![n] = @ + 1]
  /\ G.files = [F.files EXCEPT ![f] = [usage |-> 1, ino |-> n, stale |-> FALSE]]

LEMMA NamesKeepLinks ==
  ASSUME NEW F, NEW G, LinksEnough(F), G.dir = F.dir, G.links = F.links
  PROVE  LinksEnough(G)
BY DEF LinksEnough, NamesOf

LEMMA RecountSound ==
  ASSUME NEW F, NEW G \in Parts, Sound(F), Recounts(F, G)
  PROVE  Sound(G)
<1>1. \A m \in Inodes : OpenOn(G, m) = OpenOn(F, m)
  BY DEF OpenOn, Recounts
<1>2. UsageEnough(G)
  BY <1>1 DEF UsageEnough, Sound, Recounts
<1>3. LinksEnough(G)
  BY NamesKeepLinks DEF Sound, Recounts
<1> QED BY <1>2, <1>3 DEF Sound

LEMMA PutSound ==
  ASSUME NEW F, NEW G \in Parts, Sound(F), NEW f \in Flips,
         ~ F.files[f].stale, Puts(F, G, f)
  PROVE  Sound(G)
<1> DEFINE n == F.files[f].ino
<1>0. F \in Parts /\ F.usage \in [Inodes -> Int] /\ F.files \in [Flips -> OpenFiles]
  BY DEF Sound, Parts
<1>1. UsageEnough(G)
  <2> SUFFICES ASSUME NEW m \in Inodes
               PROVE  /\ G.usage[m] >= Cardinality(OpenOn(G, m))
                      /\ OpenOn(G, m) # {} => G.links[m] > 0
    BY DEF UsageEnough
  <2>1. /\ F.usage[m] >= Cardinality(OpenOn(F, m))
        /\ OpenOn(F, m) # {} => F.links[m] > 0
    BY DEF UsageEnough, Sound
  <2>2. OpenOn(G, m) = OpenOn(F, m) \ {f}
    BY <1>0, FilesAssumption DEF OpenOn, Puts, NoFile
  <2>3. /\ IsFiniteSet(OpenOn(F, m)) /\ Cardinality(OpenOn(F, m)) \in Nat
    BY OpenOnFinite
  <2>4. f \in OpenOn(F, m) <=> m = n
    BY DEF OpenOn
  <2>5. Cardinality(OpenOn(G, m)) =
          IF m = n THEN Cardinality(OpenOn(F, m)) - 1 ELSE Cardinality(OpenOn(F, m))
    BY <2>2, <2>3, <2>4, FS_RemoveElement
  <2>6. G.usage[m] = IF m = n THEN F.usage[m] - 1 ELSE F.usage[m]
    BY <1>0 DEF Puts
  <2>7. G.links[m] = F.links[m] /\ F.usage[m] \in Int
    BY <1>0 DEF Puts
  <2>8. G.usage[m] >= Cardinality(OpenOn(G, m))
    BY <2>1, <2>3, <2>5, <2>6, <2>7
  <2> QED BY <2>1, <2>2, <2>7, <2>8
<1>2. LinksEnough(G)
  BY NamesKeepLinks DEF Sound, Puts
<1> QED BY <1>1, <1>2 DEF Sound

LEMMA GetKeepsUsage ==
  ASSUME NEW F \in Parts, NEW G, UsageEnough(F), NEW f \in Flips, NEW n \in Inodes,
         G.usage = [F.usage EXCEPT ![n] = @ + 1],
         G.files = [F.files EXCEPT ![f] = [usage |-> 1, ino |-> n, stale |-> FALSE]],
         F.files[f] = NoFile, G.links[n] > 0,
         \A m \in Inodes : m # n => G.links[m] = F.links[m]
  PROVE  UsageEnough(G)
<1>0. F.usage \in [Inodes -> Int] /\ F.files \in [Flips -> OpenFiles]
  BY DEF Parts
<1> SUFFICES ASSUME NEW m \in Inodes
             PROVE  /\ G.usage[m] >= Cardinality(OpenOn(G, m))
                    /\ OpenOn(G, m) # {} => G.links[m] > 0
  BY DEF UsageEnough
<1>1. /\ F.usage[m] >= Cardinality(OpenOn(F, m))
      /\ OpenOn(F, m) # {} => F.links[m] > 0
  BY DEF UsageEnough
<1>2. OpenOn(G, m) = IF m = n THEN OpenOn(F, m) \cup {f} ELSE OpenOn(F, m)
  BY <1>0, FilesAssumption DEF OpenOn, NoFile
<1>3. IsFiniteSet(OpenOn(F, m)) /\ Cardinality(OpenOn(F, m)) \in Nat
  BY OpenOnFinite
<1>4. f \notin OpenOn(F, m)
  BY FilesAssumption DEF OpenOn, NoFile
<1>5. CASE m = n
  <2>1. Cardinality(OpenOn(G, m)) = Cardinality(OpenOn(F, m)) + 1
    BY <1>2, <1>3, <1>4, <1>5, FS_AddElement
  <2>2. G.usage[m] = F.usage[m] + 1 /\ F.usage[m] \in Int
    BY <1>0, <1>5
  <2> QED BY <1>1, <1>3, <1>5, <2>1, <2>2
<1>6. CASE m # n
  <2>1. OpenOn(G, m) = OpenOn(F, m) /\ G.usage[m] = F.usage[m]
    BY <1>0, <1>2, <1>6
  <2> QED BY <1>1, <1>6, <2>1
<1> QED BY <1>5, <1>6

LEMMA GetSound ==
  ASSUME NEW F, NEW G \in Parts, Sound(F), NEW f \in Flips, NEW n \in Inodes,
         F.files[f] = NoFile, Gets(F, G, f, n), NEW a \in Names, F.dir[a] = n
  PROVE  Sound(G)
<1>1. F \in Parts /\ LinksEnough(F) /\ UsageEnough(F)
  BY DEF Sound
<1>2. F.links[n] > 0
  <2>1. /\ Cardinality(NamesOf(F, n)) \in Nat /\ NamesOf(F, n) # {}
        /\ IsFiniteSet(NamesOf(F, n))
    BY NamesFinite DEF NamesOf
  <2>2. Cardinality(NamesOf(F, n)) # 0
    BY <2>1, FS_EmptySet
  <2>3. F.links[n] >= Cardinality(NamesOf(F, n)) /\ F.links[n] \in Int
    BY <1>1 DEF LinksEnough, Parts
  <2> QED BY <2>1, <2>2, <2>3
<1>3. UsageEnough(G)
  BY <1>1, <1>2, GetKeepsUsage DEF Gets
<1>4. LinksEnough(G)
  BY <1>1, NamesKeepLinks DEF Gets
<1> QED BY <1>3, <1>4 DEF Sound

(* A new file has an inode that was free, so nothing was on it.            *)
LEMMA CreateSound ==
  ASSUME NEW F, NEW G \in Parts, Sound(F), NEW f \in Flips, NEW n \in Inodes,
         F.files[f] = NoFile, NEW a \in Names, F.dir[a] = NoInode, F.links[n] = 0,
         G.dir = [F.dir EXCEPT ![a] = n],
         G.links = [F.links EXCEPT ![n] = 1],
         G.usage = [F.usage EXCEPT ![n] = 1],
         G.files = [F.files EXCEPT ![f] = [usage |-> 1, ino |-> n, stale |-> FALSE]]
  PROVE  Sound(G)
<1>0. /\ F \in Parts /\ F.dir \in [Names -> Inodes \cup {NoInode}]
      /\ F.links \in [Inodes -> Int] /\ F.usage \in [Inodes -> Int]
      /\ F.files \in [Flips -> OpenFiles]
  BY DEF Sound, Parts
<1>1. \A m \in Inodes : F.links[m] >= Cardinality(NamesOf(F, m))
  BY DEF Sound, LinksEnough
<1>2. UsageEnough(F)
  BY DEF Sound
<1>3. LinksEnough(G)
  <2> SUFFICES ASSUME NEW m \in Inodes
               PROVE  G.links[m] >= Cardinality(NamesOf(G, m))
    BY DEF LinksEnough
  <2>1. CASE m # n
    <3>1. G.links[m] = F.links[m]
      BY <1>0, <2>1
    <3>2. NamesOf(G, m) = NamesOf(F, m)
      BY <1>0, <2>1, FilesAssumption DEF NamesOf
    <3> QED BY <1>1, <3>1, <3>2
  <2>2. CASE m = n
    <3>1. NamesOf(F, n) = {}
      <4>1. Cardinality(NamesOf(F, n)) \in Nat /\ IsFiniteSet(NamesOf(F, n))
        BY NamesFinite
      <4>2. Cardinality(NamesOf(F, n)) = 0
        BY <4>1, <1>1
      <4> QED BY <4>1, <4>2, FS_EmptySet
    <3>2. NamesOf(G, n) = {a}
      BY <1>0, <3>1 DEF NamesOf
    <3>3. Cardinality(NamesOf(G, n)) = 1
      BY <3>2, FS_Singleton
    <3>4. G.links[n] = 1
      BY <1>0
    <3> QED BY <2>2, <3>3, <3>4
  <2> QED BY <2>1, <2>2
<1>4. UsageEnough(G)
  <2> SUFFICES ASSUME NEW m \in Inodes
               PROVE  /\ G.usage[m] >= Cardinality(OpenOn(G, m))
                      /\ OpenOn(G, m) # {} => G.links[m] > 0
    BY DEF UsageEnough
  <2>0. /\ F.usage[m] >= Cardinality(OpenOn(F, m))
        /\ OpenOn(F, m) # {} => F.links[m] > 0
    BY <1>2 DEF UsageEnough
  <2>1. CASE m # n
    <3>1. G.links[m] = F.links[m] /\ G.usage[m] = F.usage[m]
      BY <1>0, <2>1
    <3>2. OpenOn(G, m) = OpenOn(F, m)
      BY <1>0, <2>1, FilesAssumption DEF OpenOn, NoFile
    <3> QED BY <2>0, <3>1, <3>2
  <2>2. CASE m = n
    <3>1. OpenOn(F, n) = {}
      BY <2>0, <2>2
    <3>2. OpenOn(G, n) = {f}
      BY <1>0, <3>1 DEF OpenOn
    <3>3. Cardinality(OpenOn(G, n)) = 1
      BY <3>2, FS_Singleton
    <3>4. G.links[n] = 1 /\ G.usage[n] = 1
      BY <1>0
    <3> QED BY <2>2, <3>3, <3>4
  <2> QED BY <2>1, <2>2
<1> QED BY <1>3, <1>4 DEF Sound

-----------------------------------------------------------------------------
(* Descriptors.  The count of an open file is enough for the set of its    *)
(* holders, H.                                                             *)
EnoughFor(file, H) ==
  H # {} => file # NoFile /\ (file.stale \/ file.usage >= Cardinality(H))

Descriptors == Procs \X (-1 .. MaxFd - 1)

LEMMA HoldersFinite ==
  ASSUME NEW H, H \subseteq Descriptors
  PROVE  /\ IsFiniteSet(H) /\ Cardinality(H) \in Nat
         /\ Cardinality(H) = 0 <=> H = {}
<1>1. IsFiniteSet(Procs) /\ IsFiniteSet(-1 .. MaxFd - 1)
  BY FilesAssumption, FS_Interval
<1>2. IsFiniteSet(Descriptors)
  BY <1>1, FS_Product DEF Descriptors
<1> QED BY <1>2, FinitePartsOf

LEMMA FewerHolders ==
  ASSUME NEW file, NEW H, H \subseteq Descriptors, NEW K, K \subseteq H,
         file.usage \in Int, EnoughFor(file, H)
  PROVE  EnoughFor(file, K)
<1>1. Cardinality(K) <= Cardinality(H)
  BY HoldersFinite, FinitePartsOf
<1>2. Cardinality(K) \in Nat /\ Cardinality(H) \in Nat
  BY HoldersFinite
<1> QED BY <1>1, <1>2 DEF EnoughFor

(* One holder more and one more counted.                                   *)
LEMMA OneHolderMore ==
  ASSUME NEW file \in OpenFiles, NEW H, H \subseteq Descriptors, NEW h, NEW K,
         K \subseteq H \cup {h}, h \in Descriptors, EnoughFor(file, H), H # {}
  PROVE  EnoughFor([file EXCEPT !.usage = @ + 1], K)
<1>1. IsFiniteSet(H) /\ Cardinality(H) \in Nat /\ Cardinality(H) # 0
  BY HoldersFinite
<1>2. Cardinality(H \cup {h}) <= Cardinality(H) + 1 /\ IsFiniteSet(H \cup {h})
  BY <1>1, OneElementMore
<1>3. Cardinality(K) <= Cardinality(H \cup {h}) /\ Cardinality(K) \in Nat
  BY <1>2, FinitePartsOf
<1>4. Cardinality(H \cup {h}) \in Nat
  BY <1>2, FS_CardinalityType
<1>5. Cardinality(K) <= Cardinality(H) + 1
  BY <1>1, <1>2, <1>3, <1>4
<1> DEFINE x == Cardinality(K)
           y == Cardinality(H)
<1>6. x \in Nat /\ y \in Nat /\ y # 0 /\ x <= y + 1
  BY <1>1, <1>3, <1>5
<1>7. file # NoFile /\ (file.stale \/ file.usage >= y)
  BY DEF EnoughFor
<1> HIDE DEF x, y
<1>8. /\ [file EXCEPT !.usage = @ + 1] # NoFile
      /\ file.stale \/ file.usage + 1 >= x
  BY <1>6, <1>7 DEF OpenFiles, NoFile
<1> QED BY <1>8 DEF EnoughFor, OpenFiles, x

TablesOK ==
  /\ fds \in [Procs -> [Fds -> Flips \cup {NoFlip}]]
  /\ bitmap = [p \in Procs |-> {d \in Fds : fds[p][d] # NoFlip}]
  /\ unnumbered \in [Procs -> SUBSET Flips]

LEMMA HoldersAre ==
  ASSUME NEW g, NEW p \in Procs, NEW d \in -1 .. MaxFd - 1
  PROVE  /\ Holders(g) \subseteq Descriptors
         /\ <<p, d>> \in Holders(g) <=>
              IF d = -1 THEN g \in unnumbered[p] ELSE fds[p][d] = g
BY DEF Holders, DescsOf, Descriptors

LEMMA HoldersAreNext ==
  ASSUME NEW g, NEW p \in Procs, NEW d \in -1 .. MaxFd - 1
  PROVE  /\ Holders(g)' \subseteq Descriptors
         /\ <<p, d>> \in Holders(g)' <=>
              IF d = -1 THEN g \in unnumbered'[p] ELSE fds'[p][d] = g
BY DEF Holders, DescsOf, Descriptors

LEMMA DescriptorHolds ==
  ASSUME NEW p \in Procs, NEW d \in Fds
  PROVE  /\ <<p, d>> \in Descriptors
         /\ \A g \in Flips : <<p, d>> \in Holders(g) <=> fds[p][d] = g
<1>1. d \in -1 .. MaxFd - 1 /\ d # -1
  BY FilesAssumption DEF Fds
<1> QED BY <1>1, HoldersAre DEF Descriptors

(* A descriptor set to the open file f, or to none.                        *)
LEMMA SetDescriptor ==
  ASSUME TablesOK, NEW p \in Procs, NEW d \in Fds, NEW f \in Flips \cup {NoFlip},
         fds' = [fds EXCEPT ![p][d] = f], UNCHANGED unnumbered,
         bitmap' = [bitmap EXCEPT ![p] = IF f = NoFlip THEN @ \ {d} ELSE @ \cup {d}]
  PROVE  /\ TablesOK'
         /\ \A g \in Flips : Holders(g)' =
              IF g = f THEN Holders(g) \cup {<<p, d>>} ELSE Holders(g) \ {<<p, d>>}
<1>0. Fds \subseteq -1 .. MaxFd - 1 /\ d # -1
  BY FilesAssumption DEF Fds
<1>1. fds' \in [Procs -> [Fds -> Flips \cup {NoFlip}]]
  BY DEF TablesOK
<1>2. \A q \in Procs, e \in Fds :
         fds'[q][e] = IF q = p /\ e = d THEN f ELSE fds[q][e]
  BY DEF TablesOK
<1>3. bitmap' = [q \in Procs |-> {e \in Fds : fds'[q][e] # NoFlip}]
  <2>1. bitmap' \in [Procs -> SUBSET Fds]
    BY DEF TablesOK
  <2>2. ASSUME NEW q \in Procs
        PROVE  bitmap'[q] = {e \in Fds : fds'[q][e] # NoFlip}
    <3>1. bitmap[q] = {e \in Fds : fds[q][e] # NoFlip}
      BY DEF TablesOK
    <3>2. bitmap'[q] = IF q # p THEN bitmap[q]
                       ELSE IF f = NoFlip THEN bitmap[q] \ {d} ELSE bitmap[q] \cup {d}
      BY DEF TablesOK
    <3> QED BY <1>2, <3>1, <3>2
  <2> QED BY <2>1, <2>2
<1>4. TablesOK'
  BY <1>1, <1>3 DEF TablesOK
<1>5. ASSUME NEW g \in Flips
      PROVE  Holders(g)' =
               IF g = f THEN Holders(g) \cup {<<p, d>>} ELSE Holders(g) \ {<<p, d>>}
  <2>1. ASSUME NEW q \in Procs, NEW e \in -1 .. MaxFd - 1
        PROVE  <<q, e>> \in Holders(g)' <=>
                 IF q = p /\ e = d THEN g = f ELSE <<q, e>> \in Holders(g)
    <3>1. CASE e = -1
      BY <1>0, <3>1, HoldersAre, HoldersAreNext
    <3>2. CASE e # -1
      <4>1. e \in Fds
        BY <3>2, FilesAssumption DEF Fds
      <4> QED BY <1>2, <3>2, <4>1, HoldersAre, HoldersAreNext
    <3> QED BY <3>1, <3>2
  <2>2. Holders(g) \subseteq Descriptors /\ Holders(g)' \subseteq Descriptors
    BY HoldersAre, HoldersAreNext DEF Holders, Descriptors
  <2>3. <<p, d>> \in Descriptors
    BY <1>0 DEF Descriptors
  <2> QED BY <2>1, <2>2, <2>3 DEF Descriptors
<1> QED BY <1>4, <1>5

LEMMA PlaceForms ==
  ASSUME TablesOK, NEW p \in Procs, NEW f \in Flips, Place(p, f)
  PROVE  /\ TablesOK'
         /\ \E h \in Descriptors : Holders(f)' = Holders(f) \cup {h}
         /\ \A g \in Flips : g # f => Holders(g)' \subseteq Holders(g)
<1>0. Fds \subseteq -1 .. MaxFd - 1 /\ f # NoFlip
  BY FilesAssumption DEF Fds
<1>1. CASE \E d \in Fds \ bitmap[p] :
             /\ fds' = [fds EXCEPT ![p][d] = f]
             /\ bitmap' = [bitmap EXCEPT ![p] = @ \cup {d}]
             /\ UNCHANGED unnumbered
  <2>1. PICK d \in Fds :
             /\ fds' = [fds EXCEPT ![p][d] = f]
             /\ bitmap' = [bitmap EXCEPT ![p] = @ \cup {d}]
             /\ UNCHANGED unnumbered
    BY <1>1
  <2>2. bitmap' = [bitmap EXCEPT ![p] = IF f = NoFlip THEN @ \ {d} ELSE @ \cup {d}]
    BY <1>0, <2>1
  <2>3. /\ TablesOK'
        /\ \A g \in Flips : Holders(g)' =
              IF g = f THEN Holders(g) \cup {<<p, d>>} ELSE Holders(g) \ {<<p, d>>}
    BY <2>1, <2>2, SetDescriptor
  <2>4. <<p, d>> \in Descriptors
    BY <1>0 DEF Descriptors
  <2> QED BY <2>3, <2>4
<1>2. CASE /\ unnumbered' = [unnumbered EXCEPT ![p] = @ \cup {f}]
           /\ UNCHANGED <<bitmap, fds>>
  <2>1. TablesOK'
    BY <1>2 DEF TablesOK
  <2>2. ASSUME NEW g \in Flips
        PROVE  Holders(g)' = IF g = f THEN Holders(g) \cup {<<p, -1>>} ELSE Holders(g)
    <3>1. -1 \in -1 .. MaxFd - 1
      BY FilesAssumption
    <3>2. ASSUME NEW q \in Procs, NEW e \in -1 .. MaxFd - 1
          PROVE  <<q, e>> \in Holders(g)' <=>
                   (g = f /\ q = p /\ e = -1) \/ <<q, e>> \in Holders(g)
      <4>1. unnumbered'[q] = IF q = p THEN unnumbered[q] \cup {f} ELSE unnumbered[q]
        BY <1>2 DEF TablesOK
      <4>2. /\ <<q, e>> \in Holders(g) <=>
                 IF e = -1 THEN g \in unnumbered[q] ELSE fds[q][e] = g
            /\ <<q, e>> \in Holders(g)' <=>
                 IF e = -1 THEN g \in unnumbered'[q] ELSE fds'[q][e] = g
        BY HoldersAre, HoldersAreNext
      <4>3. CASE e = -1
        BY <4>1, <4>2, <4>3
      <4>4. CASE e # -1
        BY <1>2, <4>2, <4>4
      <4> QED BY <4>3, <4>4
    <3>3. Holders(g) \subseteq Descriptors /\ Holders(g)' \subseteq Descriptors
      BY DEF Holders, Descriptors
    <3>4. <<p, -1>> \in Descriptors
      BY <3>1 DEF Descriptors
    <3> QED BY <3>2, <3>3, <3>4 DEF Descriptors
  <2>3. <<p, -1>> \in Descriptors
    BY FilesAssumption DEF Descriptors
  <2> QED BY <2>1, <2>2, <2>3
<1> QED BY <1>1, <1>2 DEF Place

-----------------------------------------------------------------------------
(* The inductive invariant, and how it is shown of the next state.         *)
EnoughCounted == \A f \in Flips : EnoughFor(files[f], Holders(f))

FilesInv == FilesTypeOK /\ Sound(Current) /\ EnoughCounted

(* KeptForItsUsers says of a step that an open file that becomes stale is  *)
(* not one that every process has.                                         *)
Kept ==
  \A f \in Flips : files'[f].stale =>
     files[f].stale \/ \E p \in live : f \notin OpenBy(p)

LEMMA CountedIff == DescriptorsCounted <=> FilesTypeOK /\ EnoughCounted
BY DEF DescriptorsCounted, EnoughCounted, EnoughFor

LEMMA CurrentParts ==
  ASSUME FilesTypeOK
  PROVE  /\ Current \in Parts /\ TablesOK
         /\ Current.dir = dir /\ Current.links = links
         /\ Current.usage = usage /\ Current.files = files
BY DEF FilesTypeOK, Current, Parts, TablesOK

LEMMA NextParts ==
  ASSUME live' \in SUBSET Procs, TablesOK', halt' \in {"no", "use_after_free"},
         NEW G, Sound(G), dir' = G.dir, links' = G.links, usage' = G.usage,
         files' = G.files
  PROVE  FilesTypeOK' /\ Sound(Current)'
<1>1. G \in Parts
  BY DEF Sound
<1>2. Current' = G
  BY <1>1 DEF Current, Parts
<1>3. FilesTypeOK'
  BY <1>1 DEF FilesTypeOK, TablesOK, Parts
<1> QED BY <1>2, <1>3

LEMMA SameHolders ==
  ASSUME UNCHANGED <<fds, unnumbered>>
  PROVE  \A f \in Flips : Holders(f)' = Holders(f)
BY DEF Holders, DescsOf

-----------------------------------------------------------------------------
(* The steps.                                                              *)
LEMMA StutterKeeps ==
  ASSUME FilesInv, UNCHANGED <<fds, bitmap, unnumbered, files, usage, links, dir>>,
         live' \in SUBSET Procs, halt' \in {"no", "use_after_free"}
  PROVE  FilesInv' /\ Kept
<1>1. FilesTypeOK /\ Sound(Current)
  BY DEF FilesInv
<1>2. TablesOK'
  BY <1>1 DEF TablesOK, FilesTypeOK
<1>3. FilesTypeOK' /\ Sound(Current)'
  BY <1>1, <1>2, CurrentParts, NextParts
<1>4. EnoughCounted'
  BY SameHolders DEF EnoughCounted, FilesInv
<1> QED BY <1>3, <1>4 DEF FilesInv, Kept

(* A call on names, by its effect on the parts of the state.               *)
LEMMA NamesStep ==
  ASSUME FilesInv, NEW p \in live, NEW G, Sound(G), Spares(p, G), Becomes(G),
         UNCHANGED <<live, bitmap, fds, unnumbered, halt>>
  PROVE  FilesInv' /\ Kept
<1>1. FilesTypeOK /\ EnoughCounted /\ p \in Procs
  BY DEF FilesInv, FilesTypeOK
<1>2. FilesTypeOK' /\ Sound(Current)'
  <2>1. TablesOK' /\ live' \in SUBSET Procs /\ halt' \in {"no", "use_after_free"}
    BY <1>1 DEF FilesTypeOK, TablesOK
  <2>2. dir' = G.dir /\ links' = G.links /\ usage' = G.usage /\ files' = G.files
    BY DEF Becomes
  <2> QED BY <2>1, <2>2, NextParts
<1>3. \A f \in Flips : /\ files'[f].ino = files[f].ino
                       /\ files'[f].usage = files[f].usage
                       /\ files[f].stale => files'[f].stale
                       /\ files'[f].stale => files[f].stale \/ f \notin OpenBy(p)
  BY DEF Becomes, Spares
<1>4. EnoughCounted'
  <2> SUFFICES ASSUME NEW f \in Flips
               PROVE  EnoughFor(files'[f], Holders(f)')
    BY DEF EnoughCounted
  <2>1. EnoughFor(files[f], Holders(f)) /\ Holders(f)' = Holders(f)
    BY <1>1, SameHolders DEF EnoughCounted
  <2>2. files[f] \in OpenFiles /\ files'[f] \in OpenFiles
    BY <1>1, <1>2 DEF FilesTypeOK
  <2>3. /\ files'[f].ino = files[f].ino /\ files'[f].usage = files[f].usage
        /\ files[f].stale => files'[f].stale
    BY <1>3
  <2>4. CASE files'[f].stale
    <3>1. files'[f] # NoFile
      BY <2>4 DEF NoFile
    <3> QED BY <2>4, <3>1 DEF EnoughFor
  <2>5. CASE ~ files'[f].stale
    <3>1. files'[f] = files[f]
      BY <2>2, <2>3, <2>5 DEF OpenFiles
    <3> QED BY <2>1, <3>1
  <2> QED BY <2>4, <2>5
<1>5. Kept
  <2> SUFFICES ASSUME NEW f \in Flips, files'[f].stale
               PROVE  files[f].stale \/ \E q \in live : f \notin OpenBy(q)
    BY DEF Kept
  <2> QED BY <1>3
<1> QED BY <1>2, <1>4, <1>5 DEF FilesInv

LEMMA NamesSteps ==
  ASSUME FilesInv, NEW p \in Procs, NEW a \in Names, NEW b \in Names,
         Unlink(p, a) \/ Link(p, a, b) \/ Rename(p, a, b)
  PROVE  FilesInv' /\ Kept
<1>1. /\ FilesTypeOK /\ Sound(Current) /\ p \in live
      /\ UNCHANGED <<live, bitmap, fds, unnumbered, halt>>
      /\ dir[a] \in Inodes
  BY DEF FilesInv, FilesTypeOK, Unlink, Link, Rename, Running, tables
<1>2. Current.dir = dir /\ Current.files = files
  BY DEF Current
<1>3. Spares(p, Current)
  BY <1>2 DEF Spares
<1>4. CASE Unlink(p, a)
  <2>1. Becomes(UnlinkIn(p, Current, a))
    BY <1>4 DEF Unlink
  <2> QED BY <1>1, <1>3, <2>1, UnlinkSound, NamesStep
<1>5. CASE Link(p, a, b)
  <2>1. PICK room \in BOOLEAN : Becomes(LinkIn(Current, a, b, room))
    BY <1>5 DEF Link
  <2>2. /\ Sound(LinkIn(Current, a, b, room))
        /\ Spares(p, LinkIn(Current, a, b, room))
    BY <1>1, <1>2, <1>3, LinkSound
  <2> QED BY <1>1, <2>1, <2>2, NamesStep
<1>6. CASE Rename(p, a, b)
  <2>1. PICK room \in BOOLEAN : Becomes(RenameIn(p, Current, a, b, room))
    BY <1>6 DEF Rename
  <2>2. /\ Sound(RenameIn(p, Current, a, b, room))
        /\ Spares(p, RenameIn(p, Current, a, b, room))
    BY <1>1, <1>2, <1>3, RenameSound
  <2> QED BY <1>1, <2>1, <2>2, NamesStep
<1> QED BY <1>4, <1>5, <1>6

LEMMA AddForms ==
  ASSUME FilesInv, NEW p \in Procs, NEW n \in Inodes, AddFile(p, n)
  PROVE  /\ TablesOK' /\ EnoughCounted' /\ Kept
         /\ \E f \in Flips :
              /\ files[f] = NoFile
              /\ files' = [files EXCEPT
                             ![f] = [usage |-> 1, ino |-> n, stale |-> FALSE]]
<1> DEFINE New == [usage |-> 1, ino |-> n, stale |-> FALSE]
<1>1. FilesTypeOK /\ EnoughCounted /\ TablesOK
  BY CurrentParts DEF FilesInv
<1>2. PICK f \in Flips : /\ files[f] = NoFile /\ Place(p, f)
                         /\ files' = [files EXCEPT ![f] = New]
  BY DEF AddFile
<1>3. /\ TablesOK'
      /\ \E h \in Descriptors : Holders(f)' = Holders(f) \cup {h}
      /\ \A g \in Flips : g # f => Holders(g)' \subseteq Holders(g)
  BY <1>1, <1>2, PlaceForms
<1>4. files \in [Flips -> OpenFiles]
  BY <1>1 DEF FilesTypeOK
<1>5. EnoughCounted'
  <2> SUFFICES ASSUME NEW g \in Flips
               PROVE  EnoughFor(files'[g], Holders(g)')
    BY DEF EnoughCounted
  <2>1. EnoughFor(files[g], Holders(g))
    BY <1>1 DEF EnoughCounted
  <2>2. CASE g = f
    <3>1. Holders(f) = {}
      BY <1>2, <2>1, <2>2 DEF EnoughFor
    <3>2. PICK h : Holders(f)' = {h}
      BY <1>3, <3>1
    <3>3. Cardinality(Holders(f)') = 1
      BY <3>2, FS_Singleton
    <3>4. files'[f] = New
      BY <1>2, <1>4
    <3> QED BY <2>2, <3>3, <3>4 DEF EnoughFor, NoFile
  <2>3. CASE g # f
    <3>1. files'[g] = files[g] /\ files[g].usage \in Int
      BY <1>2, <1>4, <2>3 DEF OpenFiles
    <3>2. Holders(g) \subseteq Descriptors /\ Holders(g)' \subseteq Holders(g)
      BY <1>3, <2>3 DEF Holders, Descriptors
    <3> QED BY <2>1, <3>1, <3>2, FewerHolders
  <2> QED BY <2>2, <2>3
<1>6. Kept
  <2> SUFFICES ASSUME NEW g \in Flips, files'[g].stale
               PROVE  files[g].stale
    BY DEF Kept
  <2>1. g # f
    BY <1>2, <1>4
  <2>2. files'[g] = files[g]
    BY <1>2, <1>4, <2>1
  <2> QED BY <2>2
<1> QED BY <1>2, <1>3, <1>5, <1>6

LEMMA OpenSteps ==
  ASSUME FilesInv, NEW p \in Procs, NEW a \in Names, OpenOld(p, a) \/ OpenNew(p, a)
  PROVE  FilesInv' /\ Kept
<1>1. /\ FilesTypeOK /\ Sound(Current) /\ Current \in Parts
      /\ Current.dir = dir /\ Current.links = links
      /\ Current.usage = usage /\ Current.files = files
  BY CurrentParts DEF FilesInv
<1>2. live' \in SUBSET Procs /\ halt' \in {"no", "use_after_free"}
  BY <1>1 DEF FilesTypeOK, OpenOld, OpenNew
<1>3. CASE OpenOld(p, a)
  <2> DEFINE n == dir[a]
  <2>1. n \in Inodes /\ AddFile(p, n)
    BY <1>1, <1>3 DEF OpenOld, FilesTypeOK
  <2>2. /\ TablesOK' /\ EnoughCounted' /\ Kept
        /\ \E f \in Flips :
              /\ files[f] = NoFile
              /\ files' = [files EXCEPT
                             ![f] = [usage |-> 1, ino |-> n, stale |-> FALSE]]
    BY <2>1, AddForms
  <2>3. PICK f \in Flips :
              /\ files[f] = NoFile
              /\ files' = [files EXCEPT
                             ![f] = [usage |-> 1, ino |-> n, stale |-> FALSE]]
    BY <2>2
  <2>4. /\ usage' = [usage EXCEPT ![n] = @ + 1]
        /\ dir' = dir /\ links' = links
    BY <1>3 DEF OpenOld, disk
  <2> DEFINE G == [dir |-> dir', links |-> links', usage |-> usage', files |-> files']
  <2>5. usage' \in [Inodes -> Int]
    BY <1>1, <2>1, <2>4 DEF FilesTypeOK
  <2>6. files' \in [Flips -> OpenFiles]
    BY <1>1, <2>1, <2>3 DEF FilesTypeOK, OpenFiles
  <2>7. G \in Parts
    BY <1>1, <2>4, <2>5, <2>6 DEF FilesTypeOK, Parts
  <2>8. Gets(Current, G, f, n)
    BY <1>1, <2>3, <2>4 DEF Gets
  <2>9. /\ G.dir = dir' /\ G.links = links'
        /\ G.usage = usage' /\ G.files = files'
    OBVIOUS
  <2> HIDE DEF G
  <2>10. Sound(G)
    BY <1>1, <2>1, <2>3, <2>7, <2>8, GetSound
  <2> QED BY <1>2, <2>2, <2>9, <2>10, NextParts DEF FilesInv
<1>4. CASE OpenNew(p, a)
  <2>1. PICK n \in Inodes :
              /\ links[n] = 0
              /\ links' = [links EXCEPT ![n] = 1]
              /\ usage' = [usage EXCEPT ![n] = 1]
              /\ dir' = [dir EXCEPT ![a] = n]
              /\ AddFile(p, n)
    BY <1>4 DEF OpenNew
  <2>2. /\ TablesOK' /\ EnoughCounted' /\ Kept
        /\ \E f \in Flips :
              /\ files[f] = NoFile
              /\ files' = [files EXCEPT
                             ![f] = [usage |-> 1, ino |-> n, stale |-> FALSE]]
    BY <2>1, AddForms
  <2>3. PICK f \in Flips :
              /\ files[f] = NoFile
              /\ files' = [files EXCEPT
                             ![f] = [usage |-> 1, ino |-> n, stale |-> FALSE]]
    BY <2>2
  <2> DEFINE G == [dir |-> dir', links |-> links', usage |-> usage', files |-> files']
  <2>4. usage' \in [Inodes -> Int] /\ links' \in [Inodes -> Int]
    BY <1>1, <2>1 DEF FilesTypeOK
  <2>5. dir' \in [Names -> Inodes \cup {NoInode}]
    BY <1>1, <2>1 DEF FilesTypeOK
  <2>6. files' \in [Flips -> OpenFiles]
    BY <1>1, <2>3 DEF FilesTypeOK, OpenFiles
  <2>7. G \in Parts
    BY <2>4, <2>5, <2>6 DEF Parts
  <2>8. /\ G.dir = dir' /\ G.links = links'
        /\ G.usage = usage' /\ G.files = files'
    OBVIOUS
  <2>9. dir[a] = NoInode
    BY <1>4 DEF OpenNew
  <2> HIDE DEF G
  <2>10. Sound(G)
    <3>1. /\ Current.files[f] = NoFile /\ Current.dir[a] = NoInode
          /\ Current.links[n] = 0
          /\ G.dir = [Current.dir EXCEPT ![a] = n]
          /\ G.links = [Current.links EXCEPT ![n] = 1]
          /\ G.usage = [Current.usage EXCEPT ![n] = 1]
          /\ G.files = [Current.files EXCEPT
                          ![f] = [usage |-> 1, ino |-> n, stale |-> FALSE]]
      BY <1>1, <2>1, <2>3, <2>8, <2>9
    <3> QED BY <1>1, <2>7, <3>1, CreateSound
  <2> QED BY <1>2, <2>2, <2>8, <2>10, NextParts DEF FilesInv
<1> QED BY <1>3, <1>4

-----------------------------------------------------------------------------
(* close and dup.                                                          *)
LastUse(f) == files[f].usage = 1 /\ ~ files[f].stale

LEMMA AfterForms ==
  ASSUME FilesTypeOK, NEW f \in Flips
  PROVE  /\ FilesAfter(f) \in [Flips -> OpenFiles]
         /\ \A g \in Flips : g # f => FilesAfter(f)[g] = files[g]
         /\ LastUse(f) => FilesAfter(f) = [files EXCEPT ![f] = NoFile]
         /\ ~ LastUse(f) => FilesAfter(f)[f] = [files[f] EXCEPT !.usage = @ - 1]
<1>1. files \in [Flips -> OpenFiles]
  BY DEF FilesTypeOK
<1>2. NoFile \in OpenFiles /\ [files[f] EXCEPT !.usage = @ - 1] \in OpenFiles
  BY <1>1 DEF OpenFiles, NoFile
<1> QED BY <1>1, <1>2 DEF FilesAfter, LastUse

(* The parts of the state when an open file has been counted down.         *)
After(f) == [dir |-> dir, links |-> links, usage |-> UsageAfter(f), files |-> FilesAfter(f)]

LEMMA AfterSound ==
  ASSUME FilesTypeOK, Sound(Current), NEW f \in Flips
  PROVE  Sound(After(f))
<1>1. /\ Current \in Parts
      /\ Current.dir = dir /\ Current.links = links
      /\ Current.usage = usage /\ Current.files = files
  BY CurrentParts
<1>2. /\ After(f).dir = dir /\ After(f).links = links
      /\ After(f).usage = UsageAfter(f) /\ After(f).files = FilesAfter(f)
  BY DEF After
<1>3. UsageAfter(f) \in [Inodes -> Int]
  <2> DEFINE n == files[f].ino
  <2>1. usage \in [Inodes -> Int]
    BY DEF FilesTypeOK
  <2>2. CASE n \in Inodes
    <3>1. usage[n] - 1 \in Int
      BY <2>1, <2>2
    <3>2. [usage EXCEPT ![n] = usage[n] - 1] \in [Inodes -> Int]
      BY <2>1, <3>1, CountsSet
    <3> QED BY <2>1, <3>2 DEF UsageAfter
  <2>3. CASE n \notin Inodes
    <3>1. [usage EXCEPT ![n] = usage[n] - 1] = usage
      BY <2>1, <2>3
    <3> QED BY <2>1, <3>1 DEF UsageAfter
  <2> QED BY <2>2, <2>3
<1>4. After(f) \in Parts
  BY <1>3, AfterForms DEF After, Parts, FilesTypeOK
<1>5. CASE LastUse(f)
  <2>1. UsageAfter(f) = [usage EXCEPT ![files[f].ino] = @ - 1]
    BY <1>5 DEF UsageAfter, LastUse
  <2>2. FilesAfter(f) = [files EXCEPT ![f] = NoFile]
    BY <1>5, AfterForms
  <2>3. Puts(Current, After(f), f) /\ ~ Current.files[f].stale
    BY <1>1, <1>2, <1>5, <2>1, <2>2 DEF Puts, LastUse
  <2> QED BY <1>4, <2>3, PutSound
<1>6. CASE ~ LastUse(f)
  <2>1. UsageAfter(f) = usage
    BY <1>6 DEF UsageAfter, LastUse
  <2>2. ASSUME NEW g \in Flips
        PROVE  /\ FilesAfter(f)[g].ino = files[g].ino
               /\ FilesAfter(f)[g].stale = files[g].stale
    <3>1. CASE g = f
      <4>1. FilesAfter(f)[f] = [files[f] EXCEPT !.usage = @ - 1]
        BY <1>6, AfterForms
      <4>2. files[f] \in OpenFiles
        BY DEF FilesTypeOK
      <4> QED BY <3>1, <4>1, <4>2 DEF OpenFiles
    <3>2. CASE g # f
      BY <3>2, AfterForms
    <3> QED BY <3>1, <3>2
  <2>3. Recounts(Current, After(f))
    BY <1>1, <1>2, <2>1, <2>2 DEF Recounts
  <2> QED BY <1>4, <2>3, RecountSound
<1> QED BY <1>5, <1>6

(* The count is enough after the holder h has closed its descriptor, and   *)
(* after a close that fails.                                               *)
LEMMA AfterEnough ==
  ASSUME FilesTypeOK, NEW f \in Flips, NEW H, H \subseteq Descriptors,
         EnoughFor(files[f], H)
  PROVE  /\ \A h \in H : EnoughFor(FilesAfter(f)[f], H \ {h})
         /\ Fails(f) => EnoughFor(FilesAfter(f)[f], H)
<1>1. files[f] \in OpenFiles
  BY DEF FilesTypeOK
<1>2. CASE files[f].stale
  <2>1. FilesAfter(f)[f] = [files[f] EXCEPT !.usage = @ - 1]
    BY <1>2, AfterForms DEF LastUse
  <2>2. FilesAfter(f)[f].stale /\ FilesAfter(f)[f] # NoFile
    BY <1>1, <1>2, <2>1 DEF OpenFiles, NoFile
  <2> QED BY <2>2 DEF EnoughFor
<1>3. CASE ~ files[f].stale
  <2> SUFFICES ASSUME NEW h \in H
               PROVE  EnoughFor(FilesAfter(f)[f], H \ {h})
    BY <1>3 DEF Fails
  <2>1. /\ IsFiniteSet(H) /\ Cardinality(H) \in Nat
        /\ Cardinality(H \ {h}) = Cardinality(H) - 1
    BY HoldersFinite, FS_RemoveElement
  <2>2. files[f].usage >= Cardinality(H) /\ files[f].usage \in Int
    BY <1>1, <1>3 DEF EnoughFor, OpenFiles
  <2>3. /\ Cardinality(H \ {h}) \in Nat
        /\ Cardinality(H \ {h}) = 0 <=> H \ {h} = {}
    BY HoldersFinite
  <2>4. CASE files[f].usage = 1
    <3>1. H \ {h} = {}
      BY <2>1, <2>2, <2>3, <2>4
    <3> QED BY <3>1 DEF EnoughFor
  <2>5. CASE files[f].usage # 1
    <3>1. FilesAfter(f)[f] = [files[f] EXCEPT !.usage = @ - 1]
      BY <2>5, AfterForms DEF LastUse
    <3>2. FilesAfter(f)[f].usage = files[f].usage - 1
      BY <1>1, <3>1 DEF OpenFiles
    <3>3. FilesAfter(f)[f].usage >= Cardinality(H \ {h})
      BY <2>1, <2>2, <3>2
    <3>4. H \ {h} # {} => FilesAfter(f)[f].usage # 0
      BY <2>2, <2>3, <3>2, <3>3
    <3> QED BY <3>3, <3>4 DEF EnoughFor, NoFile
  <2> QED BY <2>4, <2>5
<1> QED BY <1>2, <1>3

LEMMA AfterStale ==
  ASSUME FilesTypeOK, NEW f \in Flips, NEW g \in Flips, FilesAfter(f)[g].stale
  PROVE  files[g].stale
<1>1. files[f] \in OpenFiles /\ files[g] \in OpenFiles
  BY DEF FilesTypeOK
<1>2. CASE g # f
  BY <1>2, AfterForms
<1>3. CASE g = f
  <2>1. ~ LastUse(f)
    <3> SUFFICES ASSUME LastUse(f)
                 PROVE  FALSE
      OBVIOUS
    <3>1. FilesAfter(f)[f] = NoFile
      BY AfterForms DEF FilesTypeOK
    <3> QED BY <1>3, <3>1 DEF NoFile
  <2>2. FilesAfter(f)[f] = [files[f] EXCEPT !.usage = @ - 1]
    BY <2>1, AfterForms
  <2> QED BY <1>1, <1>3, <2>2 DEF OpenFiles
<1> QED BY <1>2, <1>3

(* What holds of every step that keeps the names and processes.            *)
LEMMA DescriptorStep ==
  ASSUME FilesInv, UNCHANGED <<live, links, dir, halt>>, TablesOK',
         NEW G, Sound(G), G.dir = dir, G.links = links,
         usage' = G.usage, files' = G.files, EnoughCounted',
         \A g \in Flips : files'[g].stale => files[g].stale
  PROVE  FilesInv' /\ Kept
<1>1. live' \in SUBSET Procs /\ halt' \in {"no", "use_after_free"}
  BY DEF FilesInv, FilesTypeOK
<1>2. FilesTypeOK' /\ Sound(Current)'
  <2>1. dir' = G.dir /\ links' = G.links
    OBVIOUS
  <2> QED BY <1>1, <2>1, NextParts
<1>3. Kept
  BY DEF Kept
<1> QED BY <1>2, <1>3 DEF FilesInv

(* A close that fails, in close and in dup2.                               *)
LEMMA FailedCloseStep ==
  ASSUME FilesInv, NEW f \in Flips, Fails(f), files' = FilesAfter(f),
         UNCHANGED <<live, bitmap, fds, unnumbered, usage, links, dir, halt>>
  PROVE  FilesInv' /\ Kept
<1>1. FilesTypeOK /\ Sound(Current) /\ EnoughCounted /\ TablesOK
  BY CurrentParts DEF FilesInv
<1>2. UsageAfter(f) = usage
  BY DEF UsageAfter, Fails
<1>3. /\ Sound(After(f)) /\ After(f).dir = dir /\ After(f).links = links
      /\ After(f).usage = usage /\ After(f).files = FilesAfter(f)
  BY <1>1, <1>2, AfterSound DEF After
<1>4. TablesOK'
  BY <1>1 DEF TablesOK
<1>5. EnoughCounted'
  <2> SUFFICES ASSUME NEW g \in Flips
               PROVE  EnoughFor(files'[g], Holders(g)')
    BY DEF EnoughCounted
  <2>1. EnoughFor(files[g], Holders(g)) /\ Holders(g) \subseteq Descriptors
    BY <1>1 DEF EnoughCounted, Holders, Descriptors
  <2>2. Holders(g)' = Holders(g)
    BY SameHolders
  <2>3. CASE g # f
    BY <1>1, <2>1, <2>2, <2>3, AfterForms
  <2>4. CASE g = f
    BY <1>1, <2>1, <2>2, <2>4, AfterEnough
  <2> QED BY <2>3, <2>4
<1>6. \A g \in Flips : files'[g].stale => files[g].stale
  BY <1>1, AfterStale
<1> QED BY <1>3, <1>4, <1>5, <1>6, DescriptorStep

LEMMA CloseStep ==
  ASSUME FilesInv, NEW p \in Procs, NEW d \in Fds, Close(p, d)
  PROVE  FilesInv' /\ Kept
<1> DEFINE f == fds[p][d]
<1>1. FilesTypeOK /\ Sound(Current) /\ EnoughCounted /\ TablesOK
  BY CurrentParts DEF FilesInv
<1>2. /\ f \in Flips /\ files' = FilesAfter(f) /\ usage' = UsageAfter(f)
      /\ UNCHANGED <<live, links, dir, halt, unnumbered>>
  BY <1>1 DEF Close, disk, TablesOK
<1>3. /\ Sound(After(f)) /\ After(f).dir = dir /\ After(f).links = links
      /\ After(f).usage = UsageAfter(f) /\ After(f).files = FilesAfter(f)
  BY <1>1, <1>2, AfterSound DEF After
<1>4. \A g \in Flips : files'[g].stale => files[g].stale
  BY <1>1, <1>2, AfterStale
<1>5. \A g \in Flips : EnoughFor(files[g], Holders(g)) /\ Holders(g) \subseteq Descriptors
  BY <1>1 DEF EnoughCounted, Holders, Descriptors
<1>6. \A g \in Flips : g # f => files'[g] = files[g]
  BY <1>1, <1>2, AfterForms
<1>7. CASE Fails(f)
  <2>1. UNCHANGED <<fds, bitmap>> /\ UsageAfter(f) = usage
    BY <1>7 DEF Close, UsageAfter, Fails
  <2> QED BY <1>2, <1>7, <2>1, FailedCloseStep
<1>8. CASE ~ Fails(f)
  <2>1. /\ fds' = [fds EXCEPT ![p][d] = NoFlip]
        /\ bitmap' = [bitmap EXCEPT ![p] = @ \ {d}]
    BY <1>8 DEF Close
  <2>2. bitmap' = [bitmap EXCEPT
                     ![p] = IF NoFlip = NoFlip THEN @ \ {d} ELSE @ \cup {d}]
    BY <2>1
  <2>3. /\ TablesOK'
        /\ \A g \in Flips : Holders(g)' =
              IF g = NoFlip THEN Holders(g) \cup {<<p, d>>} ELSE Holders(g) \ {<<p, d>>}
    BY <1>1, <1>2, <2>1, <2>2, SetDescriptor
  <2>4. \A g \in Flips : Holders(g)' = Holders(g) \ {<<p, d>>}
    BY <2>3, FilesAssumption
  <2>5. \A g \in Flips : <<p, d>> \in Holders(g) <=> g = f
    BY DescriptorHolds
  <2>6. EnoughCounted'
    <3> SUFFICES ASSUME NEW g \in Flips
                 PROVE  EnoughFor(files'[g], Holders(g)')
      BY DEF EnoughCounted
    <3>1. CASE g # f
      <4>1. Holders(g)' = Holders(g)
        BY <2>4, <2>5, <3>1
      <4> QED BY <1>5, <1>6, <3>1, <4>1
    <3>2. CASE g = f
      <4>1. <<p, d>> \in Holders(f)
        BY <1>2, <2>5
      <4>2. EnoughFor(FilesAfter(f)[f], Holders(f) \ {<<p, d>>})
        BY <1>1, <1>2, <1>5, <4>1, AfterEnough
      <4> QED BY <1>2, <2>4, <3>2, <4>2
    <3> QED BY <3>1, <3>2
  <2> QED BY <1>2, <1>3, <1>4, <2>3, <2>6, DescriptorStep
<1> QED BY <1>7, <1>8

(* One user more of an open file, in any files fs.                         *)
LEMMA CountedForms ==
  ASSUME NEW fs \in [Flips -> OpenFiles], NEW f \in Flips
  PROVE  /\ Counted(fs, f, 1) \in [Flips -> OpenFiles]
         /\ Counted(fs, f, 1)[f] = [fs[f] EXCEPT !.usage = @ + 1]
         /\ \A g \in Flips : g # f => Counted(fs, f, 1)[g] = fs[g]
         /\ \A g \in Flips : /\ Counted(fs, f, 1)[g].ino = fs[g].ino
                             /\ Counted(fs, f, 1)[g].stale = fs[g].stale
<1> DEFINE u == fs[f].usage + 1
<1>1. Counted(fs, f, 1) = [fs EXCEPT ![f] = [fs[f] EXCEPT !.usage = fs[f].usage + 1]]
  BY DEF Counted
<1>2. [fs[f] EXCEPT !.usage = fs[f].usage + 1] \in OpenFiles
  BY DEF OpenFiles
<1>3. /\ [fs[f] EXCEPT !.usage = fs[f].usage + 1].ino = fs[f].ino
      /\ [fs[f] EXCEPT !.usage = fs[f].usage + 1].stale = fs[f].stale
  BY DEF OpenFiles
<1> QED BY <1>1, <1>2, <1>3

LEMMA CountedSound ==
  ASSUME NEW F, Sound(F), NEW f \in Flips, NEW G,
         G = [F EXCEPT !.files = Counted(F.files, f, 1)]
  PROVE  Sound(G)
<1>1. F \in Parts /\ F.files \in [Flips -> OpenFiles]
  BY DEF Sound, Parts
<1>2. G \in Parts /\ G.dir = F.dir /\ G.links = F.links
      /\ G.usage = F.usage /\ G.files = Counted(F.files, f, 1)
  BY <1>1, CountedForms DEF Parts
<1>3. Recounts(F, G)
  <2>1. ASSUME NEW g \in Flips
        PROVE  /\ G.files[g].ino = F.files[g].ino
               /\ G.files[g].stale = F.files[g].stale
    <3>1. /\ Counted(F.files, f, 1)[g].ino = F.files[g].ino
          /\ Counted(F.files, f, 1)[g].stale = F.files[g].stale
      <4> DEFINE fs == F.files
      <4>1. fs \in [Flips -> OpenFiles]
        BY <1>1
      <4> HIDE DEF fs
      <4>2. \A h \in Flips : /\ Counted(fs, f, 1)[h].ino = fs[h].ino
                             /\ Counted(fs, f, 1)[h].stale = fs[h].stale
        BY ONLY <4>1, f \in Flips, CountedForms
      <4> QED BY <4>2 DEF fs
    <3> QED BY <1>2, <3>1
  <2> QED BY <1>2, <2>1 DEF Recounts
<1> QED BY <1>2, <1>3, RecountSound

(* A new descriptor h of the open file f, which has one already.           *)
LEMMA CountStep ==
  ASSUME FilesInv, NEW f \in Flips, NEW h \in Descriptors, Holders(f) # {}, TablesOK',
         Holders(f)' \subseteq Holders(f) \cup {h},
         \A g \in Flips : g # f => Holders(g)' \subseteq Holders(g),
         files' = Counted(files, f, 1), UNCHANGED <<live, usage, links, dir, halt>>
  PROVE  FilesInv' /\ Kept
<1> DEFINE G == [Current EXCEPT !.files = Counted(Current.files, f, 1)]
<1>1. /\ FilesTypeOK /\ Sound(Current) /\ EnoughCounted
      /\ Current.dir = dir /\ Current.links = links
      /\ Current.usage = usage /\ Current.files = files
  BY CurrentParts DEF FilesInv
<1>2. files \in [Flips -> OpenFiles]
  BY <1>1 DEF FilesTypeOK
<1>3. Sound(G)
  BY <1>1, CountedSound
<1>4. G.dir = dir /\ G.links = links /\ G.usage = usage /\ G.files = files'
  BY <1>1 DEF Current
<1> HIDE DEF G
<1>5. /\ files'[f] = [files[f] EXCEPT !.usage = @ + 1]
      /\ \A g \in Flips : g # f => files'[g] = files[g]
  BY <1>2 DEF Counted
<1>6. EnoughCounted'
  <2> SUFFICES ASSUME NEW g \in Flips
               PROVE  EnoughFor(files'[g], Holders(g)')
    BY DEF EnoughCounted
  <2>1. EnoughFor(files[g], Holders(g)) /\ Holders(g) \subseteq Descriptors
    BY <1>1 DEF EnoughCounted, Holders, Descriptors
  <2>2. files[g] \in OpenFiles /\ files[g].usage \in Int
    BY <1>2 DEF OpenFiles
  <2>3. CASE g = f
    <3>1. EnoughFor([files[g] EXCEPT !.usage = @ + 1], Holders(g)')
      BY <2>1, <2>2, <2>3, OneHolderMore
    <3>2. files'[g] = [files[g] EXCEPT !.usage = @ + 1]
      BY <1>5, <2>3
    <3> QED BY <3>1, <3>2, Zenon
  <2>4. CASE g # f
    <3>1. EnoughFor(files[g], Holders(g)')
      BY <2>1, <2>2, <2>4, FewerHolders
    <3> QED BY <1>5, <2>4, <3>1
  <2> QED BY <2>3, <2>4
<1>7. ASSUME NEW g \in Flips, files'[g].stale
      PROVE  files[g].stale
  <2>1. CASE g = f
    BY <1>2, <1>5, <1>7, <2>1 DEF OpenFiles
  <2>2. CASE g # f
    BY <1>5, <1>7, <2>2
  <2> QED BY <2>1, <2>2
<1> QED BY <1>3, <1>4, <1>6, <1>7, DescriptorStep

LEMMA DupStep ==
  ASSUME FilesInv, NEW p \in Procs, NEW d \in Fds, Dup(p, d)
  PROVE  FilesInv' /\ Kept
<1>1. TablesOK
  BY CurrentParts DEF FilesInv
<1>2. PICK f \in Flips : /\ f = fds[p][d] /\ Place(p, f)
                         /\ files' = Counted(files, f, 1)
  BY <1>1 DEF Dup, TablesOK
<1>3. UNCHANGED <<live, usage, links, dir, halt>>
  BY DEF Dup, disk
<1>4. /\ TablesOK'
      /\ \E h \in Descriptors : Holders(f)' = Holders(f) \cup {h}
      /\ \A g \in Flips : g # f => Holders(g)' \subseteq Holders(g)
  BY <1>1, <1>2, PlaceForms
<1>5. Holders(f) # {}
  BY <1>2, DescriptorHolds
<1> QED BY <1>2, <1>3, <1>4, <1>5, CountStep

(* dup2 to a descriptor that is free.                                      *)
LEMMA Dup2FreeStep ==
  ASSUME FilesInv, NEW p \in Procs, NEW d \in Fds, NEW e \in Fds,
         NEW f \in Flips, f = fds[p][d],
         files' = Counted(files, f, 1), fds' = [fds EXCEPT ![p][e] = f],
         bitmap' = [bitmap EXCEPT ![p] = @ \cup {e}],
         UNCHANGED <<live, unnumbered, usage, links, dir, halt>>
  PROVE  FilesInv' /\ Kept
<1>1. TablesOK /\ f # NoFlip
  BY CurrentParts, FilesAssumption DEF FilesInv
<1>2. /\ bitmap' = [bitmap EXCEPT ![p] = IF f = NoFlip THEN @ \ {e} ELSE @ \cup {e}]
      /\ f \in Flips \cup {NoFlip} /\ UNCHANGED unnumbered
      /\ fds' = [fds EXCEPT ![p][e] = f]
  BY <1>1
<1>3. /\ TablesOK'
      /\ \A g \in Flips : Holders(g)' =
            IF g = f THEN Holders(g) \cup {<<p, e>>} ELSE Holders(g) \ {<<p, e>>}
  <2>1. TablesOK /\ p \in Procs /\ e \in Fds
    BY <1>1
  <2> QED BY ONLY <1>2, <2>1, SetDescriptor
<1>4. /\ Holders(f)' \subseteq Holders(f) \cup {<<p, e>>}
      /\ \A g \in Flips : g # f => Holders(g)' \subseteq Holders(g)
  BY <1>3
<1>5. Holders(f) # {} /\ <<p, e>> \in Descriptors
  BY DescriptorHolds
<1> QED BY <1>3, <1>4, <1>5, CountStep

(* dup2 onto a descriptor of the open file g, which it closes.             *)
LEMMA Dup2CloseStep ==
  ASSUME FilesInv, NEW p \in Procs, NEW d \in Fds, NEW e \in Fds,
         NEW f \in Flips, f = fds[p][d], NEW g \in Flips, g = fds[p][e],
         FilesAfter(g)[f] # NoFile,
         files' = Counted(FilesAfter(g), f, 1), usage' = UsageAfter(g),
         fds' = [fds EXCEPT ![p][e] = f],
         UNCHANGED <<live, bitmap, unnumbered, links, dir, halt>>
  PROVE  FilesInv' /\ Kept
<1> DEFINE fs == FilesAfter(g)
           G == [After(g) EXCEPT !.files = Counted(fs, f, 1)]
           h == <<p, e>>
<1>1. FilesTypeOK /\ Sound(Current) /\ EnoughCounted /\ TablesOK /\ f # NoFlip
  BY CurrentParts, FilesAssumption DEF FilesInv
<1>2. /\ files \in [Flips -> OpenFiles] /\ fs \in [Flips -> OpenFiles]
      /\ \A x \in Flips : x # g => fs[x] = files[x]
  BY <1>1, AfterForms DEF FilesTypeOK
<1>3. Sound(After(g)) /\ After(g).files = fs
  BY <1>1, AfterSound DEF After
<1>4. Sound(G)
  BY <1>3, CountedSound
<1>5. G.dir = dir /\ G.links = links /\ G.usage = usage' /\ G.files = files'
  BY DEF After
<1>6. \A x \in Flips : fs[x].stale => files[x].stale
  BY <1>1, AfterStale
<1>7. ASSUME NEW x \in Flips
      PROVE  /\ EnoughFor(files[x], Holders(x)) /\ Holders(x) \subseteq Descriptors
             /\ EnoughFor(fs[x], Holders(x) \ {h})
  <2>1. EnoughFor(files[x], Holders(x)) /\ Holders(x) \subseteq Descriptors
    BY <1>1 DEF EnoughCounted, Holders, Descriptors
  <2>2. CASE x = g
    <3>1. h \in Holders(x)
      BY <2>2, DescriptorHolds
    <3>2. EnoughFor(fs[g], Holders(g) \ {h})
      BY <1>1, <2>1, <2>2, <3>1, AfterEnough
    <3> QED BY <2>1, <2>2, <3>2
  <2>3. CASE x # g
    <3>1. Holders(x) \ {h} = Holders(x)
      BY <2>3, DescriptorHolds
    <3> QED BY <1>2, <2>1, <2>3, <3>1
  <2> QED BY <2>2, <2>3
<1>8. /\ files'[f] = [fs[f] EXCEPT !.usage = @ + 1]
      /\ \A x \in Flips : x # f => files'[x] = fs[x]
  BY <1>2 DEF Counted
<1> HIDE DEF G, fs
<1>9. bitmap' = [bitmap EXCEPT ![p] = IF f = NoFlip THEN @ \ {e} ELSE @ \cup {e}]
  <2>1. e \in bitmap[p]
    BY <1>1, FilesAssumption DEF TablesOK
  <2> QED BY <1>1, <2>1 DEF TablesOK
<1>10. /\ TablesOK'
       /\ \A x \in Flips : Holders(x)' =
             IF x = f THEN Holders(x) \cup {h} ELSE Holders(x) \ {h}
  BY <1>1, <1>9, SetDescriptor
<1>11. EnoughCounted'
  <2> SUFFICES ASSUME NEW x \in Flips
               PROVE  EnoughFor(files'[x], Holders(x)')
    BY DEF EnoughCounted
  <2>1. CASE x # f
    BY <1>7, <1>8, <1>10, <2>1
  <2>2. CASE x = f /\ d # e
    <3>1. <<p, d>> \in Holders(f) \ {h} /\ h \in Descriptors
      BY <2>2, DescriptorHolds
    <3>2. fs[f] \in OpenFiles /\ Holders(f) \ {h} \subseteq Descriptors
      BY <1>2, <1>7
    <3>3. Holders(f)' \subseteq (Holders(f) \ {h}) \cup {h}
      BY <1>10
    <3>4. EnoughFor([fs[f] EXCEPT !.usage = @ + 1], Holders(f)')
      <4>1. EnoughFor(fs[f], Holders(f) \ {h}) /\ Holders(f) \ {h} # {}
        BY <1>7, <3>1
      <4> HIDE DEF h
      <4> QED BY <3>1, <3>2, <3>3, <4>1, OneHolderMore
    <3> QED BY <1>8, <2>2, <3>4
  <2>3. CASE x = f /\ d = e
    <3>1. f = g
      BY <2>3
    <3>2. ~ LastUse(f)
      <4> SUFFICES ASSUME LastUse(f)
                   PROVE  FALSE
        OBVIOUS
      <4>1. fs[f] = NoFile
        BY <1>1, <1>2, <3>1, AfterForms DEF fs
      <4> QED BY <4>1 DEF fs
    <3>3. fs[f] = [files[f] EXCEPT !.usage = @ - 1]
      BY <1>1, <3>1, <3>2, AfterForms DEF fs
    <3>4. files'[f] = files[f]
      <4>1. files[f] \in OpenFiles
        BY <1>2
      <4>2. /\ fs[f] \in OpenFiles /\ fs[f].usage = files[f].usage - 1
            /\ fs[f].ino = files[f].ino /\ fs[f].stale = files[f].stale
        BY <1>2, <3>3, <4>1 DEF OpenFiles
      <4>3. /\ files'[f] \in OpenFiles /\ files'[f].usage = fs[f].usage + 1
            /\ files'[f].ino = fs[f].ino /\ files'[f].stale = fs[f].stale
        BY <1>8, <4>2 DEF OpenFiles
      <4>4. files'[f].usage = files[f].usage
        BY <4>1, <4>2, <4>3 DEF OpenFiles
      <4> QED BY <4>1, <4>2, <4>3, <4>4 DEF OpenFiles
    <3>5. Holders(f)' = Holders(f)
      BY <1>10, <3>1, DescriptorHolds
    <3> QED BY <1>7, <2>3, <3>4, <3>5
  <2> QED BY <2>1, <2>2, <2>3
<1>12. ASSUME NEW x \in Flips, files'[x].stale
       PROVE  files[x].stale
  <2>1. fs[x].stale
    <3>1. CASE x = f
      BY <1>2, <1>8, <1>12, <3>1 DEF OpenFiles
    <3>2. CASE x # f
      BY <1>8, <1>12, <3>2
    <3> QED BY <3>1, <3>2
  <2> QED BY <1>6, <2>1
<1> QED BY <1>4, <1>5, <1>10, <1>11, <1>12, DescriptorStep

LEMMA Dup2Step ==
  ASSUME FilesInv, NEW p \in Procs, NEW d \in Fds, NEW e \in Fds, Dup2(p, d, e)
  PROVE  FilesInv' /\ Kept
<1> DEFINE f == fds[p][d]
           g == fds[p][e]
<1>1. f \in Flips /\ g \in Flips \cup {NoFlip}
  BY CurrentParts DEF FilesInv, TablesOK, Dup2
<1>2. CASE /\ files' = Counted(files, f, 1)
           /\ fds' = [fds EXCEPT ![p][e] = f]
           /\ bitmap' = [bitmap EXCEPT ![p] = @ \cup {e}]
           /\ UNCHANGED <<live, unnumbered, usage, disk, halt>>
  BY <1>1, <1>2, Dup2FreeStep DEF disk
<1>3. CASE /\ g # NoFlip /\ Fails(g) /\ files' = FilesAfter(g)
           /\ UNCHANGED <<live, tables, usage, disk, halt>>
  BY <1>1, <1>3, FailedCloseStep DEF disk, tables
<1>4. CASE g # NoFlip /\ UseAfterFree
  BY <1>4, StutterKeeps DEF UseAfterFree, disk, tables, FilesInv, FilesTypeOK
<1>5. CASE /\ g # NoFlip /\ FilesAfter(g)[f] # NoFile
           /\ files' = Counted(FilesAfter(g), f, 1)
           /\ usage' = UsageAfter(g)
           /\ fds' = [fds EXCEPT ![p][e] = f]
           /\ UNCHANGED <<live, bitmap, unnumbered, disk, halt>>
  BY <1>1, <1>5, Dup2CloseStep DEF disk
<1> QED BY <1>2, <1>3, <1>4, <1>5 DEF Dup2

-----------------------------------------------------------------------------
(* fork and exit.                                                          *)
LEMMA ForkHolders ==
  ASSUME TablesOK, NEW p \in Procs, NEW c \in Procs, NEW g \in Flips,
         fds' = [fds EXCEPT ![c] = fds[p]],
         unnumbered' = [unnumbered EXCEPT ![c] = unnumbered[p]]
  PROVE  /\ Holders(g)' \subseteq Holders(g) \cup ({c} \X DescsOf(p, g))
         /\ Holders(g)' # {} => Holders(g) # {}
         /\ DescsOf(p, g) \subseteq -1 .. MaxFd - 1
<1>1. ASSUME NEW q \in Procs, NEW e \in -1 .. MaxFd - 1, <<q, e>> \in Holders(g)'
      PROVE  /\ q # c => <<q, e>> \in Holders(g)
             /\ q = c => e \in DescsOf(p, g) /\ <<p, e>> \in Holders(g)
  <2>1. IF e = -1 THEN g \in unnumbered'[q] ELSE fds'[q][e] = g
    BY <1>1, HoldersAreNext
  <2>2. CASE q # c
    <3>1. fds'[q] = fds[q] /\ unnumbered'[q] = unnumbered[q]
      BY <2>2 DEF TablesOK
    <3> QED BY <2>1, <2>2, <3>1, HoldersAre
  <2>3. CASE q = c
    <3>1. fds'[q] = fds[p] /\ unnumbered'[q] = unnumbered[p]
      BY <2>3 DEF TablesOK
    <3>2. IF e = -1 THEN g \in unnumbered[p] ELSE fds[p][e] = g
      BY <2>1, <3>1
    <3> QED BY <2>3, <3>2, HoldersAre DEF DescsOf
  <2> QED BY <2>2, <2>3
<1>2. Holders(g)' \subseteq Descriptors
  BY DEF Holders, Descriptors
<1>3. Holders(g)' \subseteq Holders(g) \cup ({c} \X DescsOf(p, g))
  <2> SUFFICES ASSUME NEW h \in Holders(g)'
               PROVE  h \in Holders(g) \cup ({c} \X DescsOf(p, g))
    OBVIOUS
  <2>1. PICK q \in Procs, e \in -1 .. MaxFd - 1 : h = <<q, e>>
    BY <1>2 DEF Descriptors
  <2>2. CASE q # c
    BY <1>1, <2>1, <2>2
  <2>3. CASE q = c
    <3>1. e \in DescsOf(p, g)
      BY <1>1, <2>1, <2>3
    <3> QED BY <2>1, <2>3, <3>1
  <2> QED BY <2>2, <2>3
<1>4. Holders(g)' # {} => Holders(g) # {}
  <2> SUFFICES ASSUME NEW h \in Holders(g)'
               PROVE  Holders(g) # {}
    OBVIOUS
  <2>1. PICK q \in Procs, e \in -1 .. MaxFd - 1 : h = <<q, e>>
    BY <1>2 DEF Descriptors
  <2> QED BY <1>1, <2>1
<1>5. DescsOf(p, g) \subseteq -1 .. MaxFd - 1
  BY DEF DescsOf
<1> QED BY <1>3, <1>4, <1>5

LEMMA ForkStep ==
  ASSUME FilesInv, NEW p \in Procs, NEW c \in Procs, Fork(p, c)
  PROVE  FilesInv' /\ Kept
<1> DEFINE n(g) == Cardinality(DescsOf(p, g))
           G == [Current EXCEPT !.files = files']
<1>1. /\ FilesTypeOK /\ Sound(Current) /\ Current \in Parts /\ EnoughCounted /\ TablesOK
      /\ Current.dir = dir /\ Current.links = links
      /\ Current.usage = usage /\ Current.files = files
  BY CurrentParts DEF FilesInv
<1>2. /\ fds' = [fds EXCEPT ![c] = fds[p]]
      /\ unnumbered' = [unnumbered EXCEPT ![c] = unnumbered[p]]
      /\ bitmap' = [bitmap EXCEPT ![c] = bitmap[p]]
      /\ live' = live \cup {c}
      /\ UNCHANGED <<usage, links, dir, halt>>
  BY DEF Fork, disk
<1>3. files \in [Flips -> OpenFiles]
  BY <1>1 DEF FilesTypeOK
<1>4. ASSUME NEW g \in Flips
      PROVE  IsFiniteSet(DescsOf(p, g)) /\ n(g) \in Nat
  <2>1. IsFiniteSet(-1 .. MaxFd - 1) /\ DescsOf(p, g) \subseteq -1 .. MaxFd - 1
    BY FS_Interval, FilesAssumption DEF DescsOf
  <2> QED BY <2>1, FinitePartsOf
<1>5. ASSUME NEW g \in Flips
      PROVE  /\ files'[g] \in OpenFiles
             /\ files'[g].usage = files[g].usage + n(g)
             /\ files'[g].ino = files[g].ino /\ files'[g].stale = files[g].stale
  <2>1. files'[g] = Counted(files, g, n(g))[g]
    BY DEF Fork
  <2>2. files'[g] = [files[g] EXCEPT !.usage = @ + n(g)]
    BY <1>3, <2>1 DEF Counted
  <2>3. files[g] \in OpenFiles /\ n(g) \in Int
    BY <1>3, <1>4
  <2> HIDE DEF n
  <2> QED BY <2>2, <2>3 DEF OpenFiles
<1>6. files' \in [Flips -> OpenFiles]
  <2>1. files' = [g \in Flips |-> files'[g]]
    BY DEF Fork
  <2> QED BY <1>5, <2>1
<1>7. G.dir = dir' /\ G.links = links' /\ G.usage = usage' /\ G.files = files'
  BY <1>1, <1>2 DEF Current
<1>8. Sound(G)
  <2>1. G \in Parts
    BY <1>1, <1>6 DEF Parts
  <2>2. Recounts(Current, G)
    BY <1>1, <1>2, <1>5, <1>7 DEF Recounts
  <2> QED BY <1>1, <2>1, <2>2, RecountSound
<1> HIDE DEF G
<1>9. TablesOK'
  BY <1>1, <1>2 DEF TablesOK
<1>10. FilesTypeOK' /\ Sound(Current)'
  <2>1. live' \in SUBSET Procs /\ halt' \in {"no", "use_after_free"}
    BY <1>1, <1>2 DEF FilesTypeOK
  <2> QED BY <1>7, <1>8, <1>9, <2>1, NextParts
<1>11. EnoughCounted'
  <2> SUFFICES ASSUME NEW g \in Flips, Holders(g)' # {}
               PROVE  /\ files'[g] # NoFile
                      /\ files'[g].stale \/ files'[g].usage >= Cardinality(Holders(g)')
    BY DEF EnoughCounted, EnoughFor
  <2> DEFINE H == Holders(g)
             K == Holders(g)'
             C == {c} \X DescsOf(p, g)
  <2>1. K \subseteq H \cup C /\ H # {}
    BY <1>1, <1>2, ForkHolders
  <2>2. files[g] # NoFile /\ (files[g].stale \/ files[g].usage >= Cardinality(H))
    BY <1>1, <2>1 DEF EnoughCounted, EnoughFor
  <2>3. /\ IsFiniteSet(H) /\ Cardinality(H) \in Nat /\ Cardinality(H) # 0
        /\ Cardinality(K) \in Nat
    BY <2>1, HoldersFinite DEF Holders, Descriptors
  <2>4. IsFiniteSet(C) /\ Cardinality(C) = n(g)
    <3>1. IsFiniteSet({c}) /\ Cardinality({c}) = 1
      BY FS_Singleton
    <3>2. IsFiniteSet(C) /\ Cardinality(C) = Cardinality({c}) * n(g)
      BY <1>4, <3>1, FS_Product
    <3> QED BY <1>4, <3>1, <3>2
  <2>5. IsFiniteSet(H \cup C) /\ Cardinality(H \cup C) <= Cardinality(H) + n(g)
    <3>1. /\ IsFiniteSet(H \cup C)
          /\ Cardinality(H \cup C) = Cardinality(H) + Cardinality(C) - Cardinality(H \cap C)
      BY <2>3, <2>4, FS_Union
    <3>2. Cardinality(H \cap C) \in Nat
      BY <2>3, FinitePartsOf
    <3> QED BY <1>4, <2>3, <2>4, <3>1, <3>2
  <2>6. Cardinality(K) <= Cardinality(H \cup C) /\ Cardinality(H \cup C) \in Nat
    BY <2>1, <2>5, FinitePartsOf, FS_CardinalityType
  <2>7. Cardinality(K) <= Cardinality(H) + n(g)
    BY <1>4, <2>3, <2>5, <2>6
  <2>8. files[g].usage \in Int
    BY <1>3 DEF OpenFiles
  <2>9. CASE files[g].stale
    BY <1>5, <2>9 DEF NoFile
  <2>10. CASE ~ files[g].stale
    <3>1. files'[g].usage >= Cardinality(K) /\ files'[g].usage # 0
      BY <1>4, <1>5, <2>2, <2>3, <2>7, <2>8, <2>10
    <3> QED BY <3>1 DEF NoFile
  <2> QED BY <2>9, <2>10
<1>12. Kept
  BY <1>5 DEF Kept
<1> QED BY <1>10, <1>11, <1>12 DEF FilesInv

LEMMA ExitStep ==
  ASSUME FilesInv, NEW p \in Procs, Exit(p)
  PROVE  FilesInv' /\ Kept
<1>1. /\ FilesTypeOK /\ Sound(Current) /\ EnoughCounted /\ TablesOK
      /\ Current.dir = dir /\ Current.links = links
      /\ Current.usage = usage /\ Current.files = files
  BY CurrentParts DEF FilesInv
<1>2. /\ fds' = [fds EXCEPT ![p] = [d \in Fds |-> NoFlip]]
      /\ bitmap' = [bitmap EXCEPT ![p] = {}]
      /\ unnumbered' = [unnumbered EXCEPT ![p] = {}]
      /\ live' = live \ {p}
      /\ UNCHANGED <<files, usage, links, dir, halt>>
  BY DEF Exit, disk
<1>3. TablesOK'
  <2>1. fds' \in [Procs -> [Fds -> Flips \cup {NoFlip}]]
    BY <1>1, <1>2 DEF TablesOK
  <2>2. unnumbered' \in [Procs -> SUBSET Flips]
    BY <1>1, <1>2 DEF TablesOK
  <2>3. bitmap' = [q \in Procs |-> {d \in Fds : fds'[q][d] # NoFlip}]
    BY <1>1, <1>2 DEF TablesOK
  <2> QED BY <2>1, <2>2, <2>3 DEF TablesOK
<1>4. FilesTypeOK' /\ Sound(Current)'
  <2>1. live' \in SUBSET Procs /\ halt' \in {"no", "use_after_free"}
    BY <1>1, <1>2 DEF FilesTypeOK
  <2> QED BY <1>1, <1>2, <1>3, <2>1, NextParts
<1>5. ASSUME NEW g \in Flips
      PROVE  Holders(g)' \subseteq Holders(g)
  <2>1. ASSUME NEW q \in Procs, NEW e \in -1 .. MaxFd - 1, <<q, e>> \in Holders(g)'
        PROVE  <<q, e>> \in Holders(g)
    <3>1. IF e = -1 THEN g \in unnumbered'[q] ELSE fds'[q][e] = g
      BY <2>1, HoldersAreNext
    <3>2. CASE q # p
      <4>1. fds'[q] = fds[q] /\ unnumbered'[q] = unnumbered[q]
        BY <1>1, <1>2, <3>2 DEF TablesOK
      <4> QED BY <3>1, <4>1, HoldersAre
    <3>3. CASE q = p
      <4>1. unnumbered'[q] = {} /\ \A d \in Fds : fds'[q][d] = NoFlip
        BY <1>1, <1>2, <3>3 DEF TablesOK
      <4>2. e # -1 => e \in Fds
        BY FilesAssumption DEF Fds
      <4> QED BY <3>1, <4>1, <4>2, FilesAssumption
    <3> QED BY <3>2, <3>3
  <2>2. Holders(g)' \subseteq Descriptors
    BY DEF Holders, Descriptors
  <2> QED BY <2>1, <2>2 DEF Descriptors
<1>6. EnoughCounted'
  <2> SUFFICES ASSUME NEW g \in Flips
               PROVE  EnoughFor(files[g], Holders(g)')
    BY <1>2 DEF EnoughCounted
  <2>1. EnoughFor(files[g], Holders(g)) /\ Holders(g) \subseteq Descriptors
    BY <1>1 DEF EnoughCounted, Holders, Descriptors
  <2>2. files[g].usage \in Int
    BY <1>1 DEF FilesTypeOK, OpenFiles
  <2> QED BY <1>5, <2>1, <2>2, FewerHolders
<1>7. Kept
  BY <1>2 DEF Kept
<1> QED BY <1>4, <1>6, <1>7 DEF FilesInv

-----------------------------------------------------------------------------
(* The invariant holds initially, and of every step.                       *)
LEMMA InitSound == FilesInit => FilesInv
<1> SUFFICES ASSUME FilesInit
             PROVE  FilesInv
  OBVIOUS
<1>1. FilesTypeOK
  BY FilesAssumption DEF FilesInit, FilesTypeOK, OpenFiles, NoFile
<1>2. /\ Current \in Parts
      /\ Current.dir = dir /\ Current.links = links
      /\ Current.usage = usage /\ Current.files = files
  BY <1>1, CurrentParts
<1>3. \A n \in Inodes : NamesOf(Current, n) = {} /\ OpenOn(Current, n) = {}
  BY <1>2, FilesAssumption DEF FilesInit, NamesOf, OpenOn, NoFile
<1>4. \A n \in Inodes : links[n] = 0 /\ usage[n] = 0
  BY DEF FilesInit
<1>5. LinksEnough(Current) /\ UsageEnough(Current)
  BY <1>2, <1>3, <1>4, FS_EmptySet DEF LinksEnough, UsageEnough
<1>6. EnoughCounted
  <2> SUFFICES ASSUME NEW f \in Flips, NEW h \in Holders(f)
               PROVE  FALSE
    BY DEF EnoughCounted, EnoughFor
  <2>1. PICK p \in Procs, d \in -1 .. MaxFd - 1 : h = <<p, d>>
    BY DEF Holders
  <2>2. IF d = -1 THEN f \in unnumbered[p] ELSE fds[p][d] = f
    BY <2>1, HoldersAre
  <2>3. d # -1 => d \in Fds
    BY FilesAssumption DEF Fds
  <2> QED BY <2>2, <2>3, FilesAssumption DEF FilesInit
<1> QED BY <1>1, <1>2, <1>5, <1>6 DEF FilesInv, Sound

LEMMA StepSound == FilesInv /\ [FilesNext]_fsVars => FilesInv' /\ Kept
<1> SUFFICES ASSUME FilesInv, [FilesNext]_fsVars
             PROVE  FilesInv' /\ Kept
  OBVIOUS
<1>0. live \in SUBSET Procs /\ halt \in {"no", "use_after_free"}
  BY DEF FilesInv, FilesTypeOK
<1>1. CASE UNCHANGED fsVars
  BY <1>0, <1>1, StutterKeeps DEF fsVars, tables, disk
<1>2. ASSUME NEW p \in Procs, Start(p)
      PROVE  FilesInv' /\ Kept
  BY <1>0, <1>2, StutterKeeps DEF Start, tables, disk
<1>3. ASSUME NEW p \in Procs, Exit(p)
      PROVE  FilesInv' /\ Kept
  BY <1>3, ExitStep
<1>4. ASSUME NEW p \in Procs, NEW c \in Procs, Fork(p, c)
      PROVE  FilesInv' /\ Kept
  BY <1>4, ForkStep
<1>5. ASSUME NEW p \in Procs, NEW a \in Names, OpenOld(p, a) \/ OpenNew(p, a)
      PROVE  FilesInv' /\ Kept
  BY <1>5, OpenSteps
<1>6. ASSUME NEW p \in Procs, NEW a \in Names, NEW b \in Names,
             Unlink(p, a) \/ Link(p, a, b) \/ Rename(p, a, b)
      PROVE  FilesInv' /\ Kept
  BY <1>6, NamesSteps
<1>7. ASSUME NEW p \in Procs, NEW d \in Fds, Close(p, d)
      PROVE  FilesInv' /\ Kept
  BY <1>7, CloseStep
<1>8. ASSUME NEW p \in Procs, NEW d \in Fds, Touch(p, d)
      PROVE  FilesInv' /\ Kept
  BY <1>0, <1>8, StutterKeeps DEF Touch, UseAfterFree, tables, disk
<1>9. ASSUME NEW p \in Procs, NEW d \in Fds, Dup(p, d)
      PROVE  FilesInv' /\ Kept
  BY <1>9, DupStep
<1>10. ASSUME NEW p \in Procs, NEW d \in Fds, NEW e \in Fds, Dup2(p, d, e)
       PROVE  FilesInv' /\ Kept
  BY <1>10, Dup2Step
<1> QED
  BY <1>1, <1>2, <1>3, <1>4, <1>5, <1>6, <1>7, <1>8, <1>9, <1>10 DEF FilesNext

LEMMA FilesInvHolds == FilesSpec => []FilesInv /\ [][Kept]_fsVars
<1>1. FilesInit => FilesInv
  BY InitSound
<1>2. FilesInv /\ [FilesNext]_fsVars => FilesInv'
  BY StepSound
<1>3. FilesInv /\ [FilesNext]_fsVars => [Kept]_fsVars
  BY StepSound
<1> QED BY <1>1, <1>2, <1>3, PTL DEF FilesSpec

-----------------------------------------------------------------------------
(* The theorems.                                                           *)

(* Type correctness of the open files, and no order of dup, dup2, fork,    *)
(* close and exit leaves an open file with fewer users counted than it has *)
(* descriptors (remove_fd_list, dup_open_file, copy_proc_fds).             *)
THEOREM DescriptorsCountedHolds == FilesSpec => []DescriptorsCounted
<1>1. FilesInv => DescriptorsCounted
  BY CountedIff DEF FilesInv
<1> QED BY <1>1, FilesInvHolds, PTL

(* The inode of an open file that is not stale is neither freed on the     *)
(* disk (free_inode) nor dropped from the list of inodes (put_inode).      *)
THEOREM InodesOutlive == FilesSpec => []InodesOutliveTheirFiles
<1>1. ASSUME FilesInv
      PROVE  InodesOutliveTheirFiles
  <2>1. /\ UsageEnough(Current)
        /\ Current.links = links /\ Current.usage = usage /\ Current.files = files
    BY <1>1, CurrentParts DEF FilesInv, Sound
  <2> QED BY <2>1 DEF InodesOutliveTheirFiles, UsageEnough, OpenOn
<1> QED BY <1>1, FilesInvHolds, PTL

(* No order of open, link, unlink and rename, some of them failing for     *)
(* want of room, leaves an inode fewer links than it has names.            *)
THEOREM NamesAreFilesHolds == FilesSpec => []NamesAreFiles
<1>1. ASSUME FilesInv
      PROVE  NamesAreFiles
  <2>1. LinksEnough(Current) /\ FilesTypeOK
        /\ Current.links = links /\ Current.dir = dir
    BY <1>1, CurrentParts DEF FilesInv, Sound
  <2>2. \A a \in Names : dir[a] # NoInode => dir[a] \in Inodes
    BY <2>1 DEF FilesTypeOK
  <2> QED BY <2>1, <2>2 DEF NamesAreFiles, LinksEnough, NamesOf
<1> QED BY <1>1, FilesInvHolds, PTL

(* rename to another name leaves the file one of the two names, even when  *)
(* it fails half-way.                                                      *)
THEOREM RenameKeepsTheFileHolds == FilesSpec => []RenameKeepsTheFile
<1>1. ASSUME FilesInv
      PROVE  RenameKeepsTheFile
  <2> SUFFICES ASSUME NEW p \in live, NEW a \in Names, NEW b \in Names,
                      NEW room \in BOOLEAN, a # b, dir[a] # NoInode
               PROVE  \E c \in Names :
                         RenameIn(p, Current, a, b, room).dir[c] = dir[a]
    BY DEF RenameKeepsTheFile
  <2>1. FilesTypeOK /\ Current \in Parts /\ Current.dir = dir
    BY <1>1, CurrentParts DEF FilesInv
  <2>2. p \in Procs /\ dir[a] \in Inodes
    BY <2>1 DEF FilesTypeOK
  <2> QED BY <2>1, <2>2, RenameKeeps
<1> QED BY <1>1, FilesInvHolds, PTL

(* A file that every process has open is never deleted: "File is being     *)
(* used, cannot delete" (check_if_inode_is_being_used).                    *)
THEOREM KeptForItsUsersHolds == FilesSpec => KeptForItsUsers
<1>1. [Kept]_fsVars =>
        [\A f \in Flips : (\A p \in live : f \in OpenBy(p)) /\ ~ files[f].stale
           => ~ files'[f].stale]_fsVars
  BY DEF Kept
<1> QED BY <1>1, FilesInvHolds, PTL DEF KeptForItsUsers
-----------------------------------------------------------------------------
(* A non-empty set of naturals has a least element.  It stands in for      *)
(* induction: the strict subset ordering on the intervals 0 .. x is well   *)
(* founded.                                                                *)
LEMMA LeastOf ==
  ASSUME NEW T \in SUBSET Nat, T # {}
  PROVE  Min(T) \in T /\ \A y \in T : Min(T) <= y
<1> DEFINE F == {0 .. x : x \in T}
<1>1. F \subseteq FiniteSubsetsOf(Nat)
  <2> SUFFICES ASSUME NEW x \in T  PROVE 0 .. x \in FiniteSubsetsOf(Nat)
    OBVIOUS
  <2> QED BY FS_Interval DEF FiniteSubsetsOf
<1>2. F # {}
  OBVIOUS
<1>3. PICK X \in F : \A Y \in F : <<Y, X>> \notin StrictSubsetOrdering(Nat)
  <2>1. IsWellFoundedOn(StrictSubsetOrdering(Nat), FiniteSubsetsOf(Nat))
    BY FS_StrictSubsetOrderingWellFounded
  <2> HIDE DEF F
  <2> QED BY <1>1, <1>2, <2>1, WFMin, Zenon
<1>4. PICK x \in T : X = 0 .. x
  OBVIOUS
<1>5. ASSUME NEW y \in T, y < x PROVE FALSE
  <2>1. 0 .. y \in F /\ <<0 .. y, 0 .. x>> \in StrictSubsetOrdering(Nat)
    BY <1>5 DEF StrictSubsetOrdering
  <2> QED BY <1>3, <1>4, <2>1
<1>6. \E z \in T : \A y \in T : z <= y
  BY <1>5
<1> QED BY <1>6 DEF Min

(* The data block q of the double part is at Col(q) of the index block     *)
(* Row(q).                                                                 *)
Row(q) == q \div N
Col(q) == q % N

LEMMA RowColFacts ==
  ASSUME NEW q \in Nat
  PROVE  /\ Row(q) \in Nat /\ Col(q) \in Entries
         /\ q = N * Row(q) + Col(q)
BY BlocksAssumption, SMTT(30) DEF Row, Col, Entries

LEMMA RowNat == \A q \in Nat : Row(q) \in Nat /\ Col(q) \in Entries
BY RowColFacts

LEMMA RowColUnique ==
  ASSUME NEW j \in Nat, NEW e \in Entries, NEW i \in Nat, NEW f \in Entries,
         N * j + e = N * i + f
  PROVE  j = i /\ e = f
<1>1. N \in Nat \ {0}
  BY BlocksAssumption
<1>2. ASSUME NEW x \in Nat, NEW y \in Nat, x < y PROVE N * y >= N * x + N
  <2>1. PICK z \in Nat : y = x + 1 + z
    BY <1>2
  <2>2. N * y = N * x + N + N * z /\ N * z \in Nat /\ N * x \in Nat
    BY <1>1, <2>1
  <2> QED BY <1>1, <2>2
<1>3. N * j \in Nat /\ N * i \in Nat /\ e \in 0 .. N - 1 /\ f \in 0 .. N - 1
  BY <1>1 DEF Entries
<1>4. ~ j < i
  BY <1>1, <1>2, <1>3
<1>5. ~ i < j
  BY <1>1, <1>2, <1>3
<1> QED BY <1>3, <1>4, <1>5

LEMMA PlaceOfData ==
  ASSUME NEW j \in Nat, NEW e \in Entries
  PROVE  \E q \in Nat : Row(q) = j /\ Col(q) = e
<1>1. N * j + e \in Nat
  BY BlocksAssumption DEF Entries
<1> QED BY <1>1, RowColFacts, RowColUnique

LEMMA NextPlace ==
  ASSUME NEW q \in Nat
  PROVE  /\ Col(q + 1) = 0 => Row(q + 1) = Row(q) + 1
         /\ Col(q + 1) # 0 => Row(q + 1) = Row(q)
<1>1. /\ N \in Nat \ {0} /\ Row(q) \in Nat /\ Col(q) \in 0 .. N - 1
      /\ q = N * Row(q) + Col(q)
  BY BlocksAssumption, RowColFacts DEF Entries
<1>2. Row(q + 1) \in Nat /\ Col(q + 1) \in Entries /\ q + 1 = N * Row(q + 1) + Col(q + 1)
  BY RowColFacts
<1>3. CASE Col(q) = N - 1
  <2>1. N * (Row(q) + 1) = N * Row(q) + N
    BY <1>1
  <2>2. q + 1 = N * (Row(q) + 1) + 0 /\ Row(q) + 1 \in Nat /\ 0 \in Entries
    BY <1>1, <1>3, <2>1 DEF Entries
  <2> QED BY <1>2, <2>2, RowColUnique
<1>4. CASE Col(q) # N - 1
  <2>1. Col(q) + 1 \in Entries /\ Col(q) + 1 # 0 /\ q + 1 = N * Row(q) + (Col(q) + 1)
    BY <1>1, <1>4 DEF Entries
  <2> DEFINE e == Col(q) + 1
  <2>2. e \in Entries /\ N * Row(q) + e = N * Row(q + 1) + Col(q + 1)
    BY <1>2, <2>1
  <2> HIDE DEF e
  <2>3. Row(q) = Row(q + 1) /\ e = Col(q + 1)
    <3> DEFINE j == Row(q)
               i == Row(q + 1)
               f == Col(q + 1)
    <3>1. j \in Nat /\ i \in Nat /\ f \in Entries /\ e \in Entries /\ N * j + e = N * i + f
      BY <1>1, <1>2, <2>2
    <3> HIDE DEF j, i, f
    <3>2. j = i /\ e = f
      BY <3>1, RowColUnique
    <3> QED BY <3>2 DEF j, i, f
  <2> QED BY <2>1, <2>3 DEF e
<1> QED BY <1>3, <1>4

LEMMA RowsAscend ==
  ASSUME NEW q \in Nat, NEW r \in Nat, q <= r
  PROVE  Row(q) <= Row(r)
<1>1. /\ N \in Nat \ {0} /\ Row(q) \in Nat /\ Col(q) \in 0 .. N - 1
      /\ q = N * Row(q) + Col(q)
      /\ Row(r) \in Nat /\ Col(r) \in 0 .. N - 1 /\ r = N * Row(r) + Col(r)
  BY BlocksAssumption, RowColFacts DEF Entries
<1> SUFFICES ASSUME Row(r) < Row(q) PROVE FALSE
  BY <1>1
<1>2. PICK z \in Nat : Row(q) = Row(r) + 1 + z
  BY <1>1
<1>3. N * Row(q) = N * Row(r) + N + N * z /\ N * z \in Nat /\ N * Row(r) \in Nat
  BY <1>1, <1>2
<1> QED BY <1>1, <1>3

-----------------------------------------------------------------------------
(* A file F with the data blocks a, in order, and k rows of the double part*)
(* in use.                                                                 *)
FileType(F) ==
  /\ F.blocks \in Nat
  /\ F.block \in [0 .. D + 1 -> 0 .. LastBlock]
  /\ F.content \in [Blocks -> [Entries -> 0 .. LastBlock]]
  /\ F.taken \in SUBSET Blocks
  /\ F.room \in Int

Single(F) == F.blocks > D
Twice(F)  == F.blocks > L_ONE_INDIRECT

IndexOfRow(F, j) == F.content[Double(F)][j]

(* How many data blocks are in the double part.                            *)
Beyond(n) == n - (D + N)

SizesFit(F, n, k) ==
  /\ ~ Single(F) => n = F.blocks
  /\ Single(F) /\ ~ Twice(F) => n = F.blocks - 1
  /\ Twice(F) => n = F.blocks - 2 - k /\ n >= D + N
  /\ ~ Twice(F) => k = 0

(* The index blocks are not given away, and are no data blocks.            *)
IsIndex(F, k, b) ==
  \/ Single(F) /\ b = Indirect(F)
  \/ Twice(F) /\ b = Double(F)
  \/ \E j \in 0 .. k - 1 : b = IndexOfRow(F, j)

IndexesApart(F, a, k) ==
  /\ \A b : IsIndex(F, k, b) => b \in F.taken /\ \A i \in 1 .. Len(a) : b # a[i]
  /\ Twice(F) => Indirect(F) # Double(F)
  /\ \A j \in 0 .. k - 1 :
        /\ IndexOfRow(F, j) \notin {Indirect(F), Double(F)}
        /\ \A i \in 0 .. k - 1 : i # j => IndexOfRow(F, i) # IndexOfRow(F, j)

DataApart(F, a) ==
  /\ \A i \in 1 .. Len(a) : a[i] \in F.taken
  /\ \A i, j \in 1 .. Len(a) : a[i] = a[j] => i = j

(* Where the data blocks are.                                              *)
DataFound(F, a) ==
  \A i \in 1 .. Len(a) :
     /\ i <= D => F.block[i - 1] = a[i]
     /\ D < i /\ i <= D + N => F.content[Indirect(F)][i - 1 - D] = a[i]
     /\ i > D + N =>
          LET q == Beyond(i - 1) IN F.content[IndexOfRow(F, Row(q))][Col(q)] = a[i]

(* The rows of the double part: those in use hold the data, and zeroes.    *)
RowsFit(F, n, k) ==
  /\ k \in 0 .. N
  /\ Twice(F) => \A j \in Entries : j >= k => IndexOfRow(F, j) = 0
  /\ \A q \in Nat : q < Beyond(n) => Row(q) < k
  /\ \A q \in Nat : q >= Beyond(n) /\ Row(q) < k => F.content[IndexOfRow(F, Row(q))][Col(q)] = 0

Tree(F, a, k) ==
  /\ FileType(F)
  /\ a \in Seq(Blocks)
  /\ SizesFit(F, Len(a), k)
  /\ IndexesApart(F, a, k)
  /\ DataApart(F, a)
  /\ DataFound(F, a)
  /\ RowsFit(F, Len(a), k)

(* Between two calls no row is empty.                                      *)
NoRowEmpty(n, k) == k > 0 => Beyond(n) > 0 /\ Row(Beyond(n) - 1) = k - 1

BlocksInv == \E k \in 0 .. N : Tree(Now, added, k) /\ NoRowEmpty(Len(added), k)

(* A block that is taken and not used yet.                                 *)
Spare(F, a, k, b) ==
  /\ b \in F.taken /\ F.content[b] = Zeroes
  /\ ~ IsIndex(F, k, b)
  /\ \A i \in 1 .. Len(a) : b # a[i]

-----------------------------------------------------------------------------
(* What the operators on files return.                                     *)
LEMMA Sizes ==
  /\ D \in Nat \ {0} /\ N \in Nat \ {0, 1} /\ LastBlock \in Nat
  /\ L_ONE_INDIRECT = D + 1 + N /\ BASIC_DOUBLE_INDIRECT = D + N + 2
  /\ 0 \notin Blocks /\ Blocks \subseteq 0 .. LastBlock /\ Blocks \subseteq Nat
  /\ Entries = 0 .. N - 1 /\ 0 \in 0 .. LastBlock
BY BlocksAssumption DEF L_ONE_INDIRECT, BASIC_DOUBLE_INDIRECT, Blocks, Entries

LEMMA NextFreeFits ==
  ASSUME NEW F, FileType(F), NextFree(F) # 0
  PROVE  NextFree(F) \in Blocks \ F.taken
<1>1. NextFree(F) = Min(Blocks \ F.taken) /\ Blocks \ F.taken # {}
  BY DEF NextFree
<1>2. Blocks \ F.taken \in SUBSET Nat
  BY Sizes
<1> QED BY <1>1, <1>2, LeastOf

LEMMA TakeFacts ==
  ASSUME NEW F, FileType(F), NEW b \in Blocks
  PROVE  /\ FileType(Take(F, b))
         /\ Take(F, b).blocks = F.blocks /\ Take(F, b).block = F.block
         /\ Take(F, b).taken = F.taken \cup {b}
         /\ Take(F, b).content[b] = Zeroes
         /\ \A c \in Blocks \ {b} : Take(F, b).content[c] = F.content[c]
<1>1. Zeroes \in [Entries -> 0 .. LastBlock]
  BY Sizes DEF Zeroes
<1>2. /\ Take(F, b).blocks = F.blocks /\ Take(F, b).block = F.block
      /\ Take(F, b).taken = F.taken \cup {b} /\ Take(F, b).room = F.room - 1
      /\ Take(F, b).content = [F.content EXCEPT ![b] = Zeroes]
  BY DEF Take, FileType
<1> QED BY <1>1, <1>2 DEF FileType

PutAt(F, x, e, v) == [F EXCEPT !.content[x][e] = v, !.blocks = @ + 1]

WasPut(F, G, x, e, v) ==
  /\ FileType(G)
  /\ G.blocks = F.blocks + 1 /\ G.block = F.block /\ G.taken = F.taken
  /\ G.content[x][e] = v
  /\ \A y \in Blocks : y # x => G.content[y] = F.content[y]
  /\ \A f \in Entries : f # e => G.content[x][f] = F.content[x][f]

LEMMA PutFacts ==
  ASSUME NEW F, FileType(F), NEW x \in Blocks, NEW e \in Entries, NEW v \in Blocks,
         NEW G, G = PutAt(F, x, e, v)
  PROVE  WasPut(F, G, x, e, v)
<1>1. v \in 0 .. LastBlock
  BY Sizes
<1>2. /\ G.blocks = F.blocks + 1 /\ G.block = F.block
      /\ G.taken = F.taken /\ G.room = F.room
      /\ G.content = [F.content EXCEPT ![x][e] = v]
  BY DEF FileType, PutAt
<1>3. F.content \in [Blocks -> [Entries -> 0 .. LastBlock]]
  BY DEF FileType
<1>4. G.content \in [Blocks -> [Entries -> 0 .. LastBlock]]
  BY <1>1, <1>2, <1>3
<1>5. G.content[x] = [F.content[x] EXCEPT ![e] = v]
  BY <1>2, <1>3
<1>6. \A y \in Blocks : y # x => G.content[y] = F.content[y]
  BY <1>2, <1>3
<1>7. F.content[x] \in [Entries -> 0 .. LastBlock]
  BY <1>3
<1>8. G.content[x][e] = v /\ \A f \in Entries : f # e => G.content[x][f] = F.content[x][f]
  BY <1>5, <1>7
<1>9. FileType(G)
  BY <1>2, <1>4 DEF FileType
<1> QED BY <1>2, <1>6, <1>8, <1>9 DEF WasPut

(* The index blocks of a file are blocks of the disk.                      *)
LEMMA IndexFacts ==
  ASSUME NEW F, NEW a, NEW k, Tree(F, a, k)
  PROVE  /\ \A b : IsIndex(F, k, b) => b \in Blocks
         /\ Single(F) => Indirect(F) \in Blocks
         /\ Twice(F) => Single(F) /\ Double(F) \in Blocks
         /\ \A j \in 0 .. k - 1 : Twice(F) /\ j \in Entries /\ IndexOfRow(F, j) \in Blocks
<1>1. \A b : IsIndex(F, k, b) => b \in Blocks
  BY DEF Tree, IndexesApart, FileType
<1>2. k \in 0 .. N /\ (~ Twice(F) => k = 0)
  BY DEF Tree, RowsFit, SizesFit
<1>3. Twice(F) => Single(F)
  BY Sizes DEF Twice, Single, Tree, FileType
<1>4. \A j \in 0 .. k - 1 : Twice(F) /\ j \in Entries
  BY <1>2, Sizes
<1> QED BY <1>1, <1>3, <1>4 DEF IsIndex

LEMMA InUseIs ==
  ASSUME NEW F, NEW a, NEW k, Tree(F, a, k), Twice(F)
  PROVE  InUse(F) = k
<1> DEFINE P(n) == /\ \A e \in 0 .. n - 1 : F.content[Double(F)][e] # 0
                   /\ n < N => F.content[Double(F)][n] = 0
<1>1. k \in 0 .. N /\ N \in Nat
  BY Sizes DEF Tree, RowsFit
<1>2. \A e \in 0 .. k - 1 : F.content[Double(F)][e] # 0
  BY IndexFacts, Sizes DEF IndexOfRow
<1>3. \A e \in Entries : e >= k => F.content[Double(F)][e] = 0
  BY DEF Tree, RowsFit, IndexOfRow
<1>4. P(k)
  BY <1>1, <1>2, <1>3, Sizes
<1>5. ASSUME NEW n \in 0 .. N, P(n) PROVE n = k
  <2>1. CASE n < k
    <3>1. n \in 0 .. k - 1 /\ n < N
      BY <1>1, <2>1
    <3> QED BY <1>2, <1>5, <3>1
  <2>2. CASE k < n
    <3>1. k \in 0 .. n - 1 /\ k \in Entries
      BY <1>1, <2>2, Sizes
    <3> QED BY <1>1, <1>3, <1>5, <3>1
  <2> QED BY <1>1, <2>1, <2>2
<1>6. InUse(F) = CHOOSE n \in 0 .. N : P(n)
  BY DEF InUse
<1> HIDE DEF P
<1> QED BY <1>1, <1>4, <1>5, <1>6

(* What a file is said to be depends on these parts only.                  *)
LEMMA SameFile ==
  ASSUME NEW F, NEW G, NEW a, NEW k, Tree(F, a, k), G.room \in Int,
         G.blocks = F.blocks, G.block = F.block, G.content = F.content, G.taken = F.taken
  PROVE  Tree(G, a, k)
<1>1. /\ Single(G) = Single(F) /\ Twice(G) = Twice(F)
      /\ Indirect(G) = Indirect(F) /\ Double(G) = Double(F)
  BY DEF Single, Twice, Indirect, Double
<1>2. \A j : IndexOfRow(G, j) = IndexOfRow(F, j)
  BY <1>1 DEF IndexOfRow
<1>3. \A b : IsIndex(G, k, b) <=> IsIndex(F, k, b)
  BY <1>1, <1>2 DEF IsIndex
<1> QED BY <1>1, <1>2, <1>3
        DEF Tree, FileType, SizesFit, IndexesApart, DataApart, DataFound, RowsFit

-----------------------------------------------------------------------------
(* Taking a block disturbs nothing.                                        *)
LEMMA TakeKeeps ==
  ASSUME NEW F, NEW a, NEW k, Tree(F, a, k), NEW b \in Blocks \ F.taken
  PROVE  /\ Tree(Take(F, b), a, k)
         /\ Spare(Take(F, b), a, k, b)
         /\ \A c \in Blocks : Spare(F, a, k, c) => Spare(Take(F, b), a, k, c)
<1> DEFINE G == Take(F, b)
<1>1. /\ FileType(F) /\ FileType(G) /\ G.blocks = F.blocks /\ G.block = F.block
      /\ G.taken = F.taken \cup {b} /\ G.content[b] = Zeroes
      /\ \A c \in Blocks \ {b} : G.content[c] = F.content[c]
  BY TakeFacts DEF Tree
<1> HIDE DEF G
<1>2. /\ Single(G) = Single(F) /\ Twice(G) = Twice(F)
      /\ Indirect(G) = Indirect(F) /\ Double(G) = Double(F)
  BY <1>1 DEF Single, Twice, Indirect, Double
<1>3. \A c : IsIndex(F, k, c) => c \in Blocks \ {b} /\ c \in F.taken
  BY <1>1 DEF Tree, IndexesApart, FileType
<1>4. Twice(F) => \A j : IndexOfRow(G, j) = IndexOfRow(F, j)
  BY <1>1, <1>2, <1>3 DEF IndexOfRow, IsIndex
<1>5. \A j \in 0 .. k - 1 : Twice(F) /\ IndexOfRow(G, j) = IndexOfRow(F, j)
  BY <1>4, IndexFacts
<1>6. \A c : IsIndex(G, k, c) <=> IsIndex(F, k, c)
  BY <1>2, <1>5 DEF IsIndex
<1>7. \A c : IsIndex(F, k, c) => G.content[c] = F.content[c]
  BY <1>1, <1>3
<1>8. a \in Seq(Blocks) /\ SizesFit(G, Len(a), k) /\ DataApart(G, a)
  BY <1>1, <1>2 DEF Tree, SizesFit, DataApart
<1>9. IndexesApart(G, a, k)
  BY <1>1, <1>2, <1>5, <1>6 DEF Tree, IndexesApart
<1>10. ASSUME NEW q \in Nat, Row(q) < k
       PROVE  G.content[IndexOfRow(G, Row(q))] = F.content[IndexOfRow(F, Row(q))]
  <2>1. Row(q) \in 0 .. k - 1
    BY <1>10, RowColFacts DEF Tree, RowsFit
  <2> QED BY <1>5, <1>7, <2>1 DEF IsIndex
<1>11. RowsFit(G, Len(a), k)
  <2>1. RowsFit(F, Len(a), k)
    BY DEF Tree
  <2>2. Twice(G) => \A j \in Entries : j >= k => IndexOfRow(G, j) = 0
    BY <1>2, <1>4, <2>1 DEF RowsFit
  <2> QED BY <1>10, <2>1, <2>2 DEF RowsFit
<1>12. DataFound(G, a)
  <2> SUFFICES ASSUME NEW i \in 1 .. Len(a)
               PROVE  /\ i <= D => G.block[i - 1] = a[i]
                      /\ D < i /\ i <= D + N => G.content[Indirect(G)][i - 1 - D] = a[i]
                      /\ i > D + N =>
                           LET q == Beyond(i - 1) IN
                           G.content[IndexOfRow(G, Row(q))][Col(q)] = a[i]
    BY DEF DataFound
  <2>1. /\ i <= D => F.block[i - 1] = a[i]
        /\ D < i /\ i <= D + N => F.content[Indirect(F)][i - 1 - D] = a[i]
        /\ i > D + N =>
             LET q == Beyond(i - 1) IN F.content[IndexOfRow(F, Row(q))][Col(q)] = a[i]
    BY DEF Tree, DataFound
  <2>2. D < i => Single(F)
    <3>1. Len(a) \in Nat /\ F.blocks \in Nat /\ i <= Len(a)
      BY <1>1 DEF Tree, FileType
    <3> QED BY <3>1, Sizes DEF Tree, SizesFit, Single
  <2>3. D < i => G.content[Indirect(G)] = F.content[Indirect(F)]
    BY <1>2, <1>7, <2>2 DEF IsIndex
  <2>4. i > D + N => Beyond(i - 1) \in Nat /\ Row(Beyond(i - 1)) < k
    <3> SUFFICES ASSUME i > D + N PROVE Beyond(i - 1) \in Nat /\ Row(Beyond(i - 1)) < k
      OBVIOUS
    <3>1. Beyond(i - 1) \in Nat /\ Beyond(i - 1) < Beyond(Len(a))
      <4>1. Len(a) \in Nat
        BY DEF Tree
      <4> QED BY <4>1, Sizes DEF Beyond
    <3> QED BY <3>1 DEF Tree, RowsFit
  <2> QED BY <1>1, <1>10, <2>1, <2>3, <2>4
<1>13. Tree(G, a, k)
  BY <1>1, <1>8, <1>9, <1>11, <1>12 DEF Tree
<1>14. Spare(G, a, k, b)
  BY <1>1, <1>3, <1>6 DEF Spare, Tree, DataApart
<1>15. \A c \in Blocks : Spare(F, a, k, c) => Spare(G, a, k, c)
  BY <1>1, <1>6 DEF Spare
<1> QED BY <1>13, <1>14, <1>15 DEF G

(* A new block for numbers, in each of its three roles.                    *)
PointAt(F, i, b) == [F EXCEPT !.block[i] = b, !.blocks = @ + 1]

WasPointed(F, G, i, b) ==
  /\ FileType(G)
  /\ G.blocks = F.blocks + 1 /\ G.taken = F.taken /\ G.content = F.content
  /\ G.block[i] = b
  /\ \A j \in 0 .. D + 1 : j # i => G.block[j] = F.block[j]

LEMMA PointFacts ==
  ASSUME NEW F, FileType(F), NEW i \in 0 .. D + 1, NEW b \in Blocks,
         NEW G, G = PointAt(F, i, b)
  PROVE  WasPointed(F, G, i, b)
<1>1. b \in 0 .. LastBlock
  BY Sizes
<1>2. /\ G.blocks = F.blocks + 1 /\ G.taken = F.taken /\ G.content = F.content
      /\ G.room = F.room /\ G.block = [F.block EXCEPT ![i] = b]
  BY DEF PointAt, FileType
<1> DEFINE S == 0 .. D + 1
           V == 0 .. LastBlock
<1>3. F.block \in [S -> V] /\ i \in S /\ b \in V
  BY <1>1 DEF FileType
<1> HIDE DEF S, V
<1>4. G.block \in [S -> V] /\ G.block[i] = b /\ \A j \in S : j # i => G.block[j] = F.block[j]
  BY <1>2, <1>3
<1>5. G.block \in [0 .. D + 1 -> 0 .. LastBlock]
  BY <1>4 DEF S, V
<1>6. FileType(G)
  BY <1>2, <1>5 DEF FileType
<1>7. G.block[i] = b /\ \A j \in 0 .. D + 1 : j # i => G.block[j] = F.block[j]
  BY <1>4 DEF S
<1> QED BY <1>2, <1>6, <1>7 DEF WasPointed

LEMMA IndirectKeeps ==
  ASSUME NEW F, NEW a, Tree(F, a, 0), F.blocks = D, NEW b \in Blocks, Spare(F, a, 0, b),
         NEW G, G = PointAt(F, D, b)
  PROVE  /\ Tree(G, a, 0) /\ G.blocks = D + 1
         /\ \A c \in Blocks : Spare(F, a, 0, c) /\ c # b => Spare(G, a, 0, c)
<1>1. /\ FileType(F) /\ D \in Nat \ {0} /\ D \in 0 .. D + 1
      /\ a \in Seq(Blocks) /\ Len(a) = D /\ b \in 0 .. LastBlock
      /\ ~ Single(F) /\ ~ Twice(F)
  BY Sizes DEF Tree, SizesFit, Single, Twice
<1>2. /\ FileType(G) /\ G.blocks = D + 1 /\ G.taken = F.taken /\ G.content = F.content
      /\ G.block[D] = b
      /\ \A i \in 0 .. D + 1 : i # D => G.block[i] = F.block[i]
  <2>1. FileType(F) /\ D \in 0 .. D + 1 /\ b \in Blocks /\ G = PointAt(F, D, b)
    BY <1>1
  <2>2. WasPointed(F, G, D, b)
    BY ONLY <2>1, PointFacts
  <2> QED BY <2>2 DEF WasPointed
<1>3. \A i \in 0 .. D - 1 : G.block[i] = F.block[i]
  BY <1>1, <1>2
<1>4. FileType(G)
  BY <1>2
<1>5. Single(G) /\ ~ Twice(G) /\ Indirect(G) = b
  BY <1>1, <1>2, <1>3, Sizes DEF Single, Twice, Indirect
<1>6. \A c : IsIndex(G, 0, c) <=> c = b
  BY <1>5 DEF IsIndex
<1>7. SizesFit(G, Len(a), 0) /\ DataApart(G, a)
  BY <1>1, <1>2, <1>5 DEF SizesFit, Tree, DataApart
<1>8. IndexesApart(G, a, 0)
  BY <1>2, <1>5, <1>6 DEF IndexesApart, Spare
<1>9. DataFound(G, a)
  <2> SUFFICES ASSUME NEW i \in 1 .. Len(a) PROVE i <= D /\ ~ i > D + N /\ G.block[i - 1] = a[i]
    BY <1>1, Sizes DEF DataFound
  <2>1. i <= D /\ i - 1 \in 0 .. D - 1 /\ ~ i > D + N
    BY <1>1, Sizes
  <2>2. F.block[i - 1] = a[i]
    BY <2>1 DEF Tree, DataFound
  <2> QED BY <1>3, <2>1, <2>2
<1>10. RowsFit(G, Len(a), 0)
  BY <1>5, RowColFacts DEF Tree, RowsFit
<1> QED BY <1>1, <1>2, <1>4, <1>5, <1>6, <1>7, <1>8, <1>9, <1>10 DEF Tree, Spare, IsIndex

LEMMA DoubleKeeps ==
  ASSUME NEW F, NEW a, Tree(F, a, 0), F.blocks = L_ONE_INDIRECT, NEW b \in Blocks,
         Spare(F, a, 0, b), NEW G, G = PointAt(F, D + 1, b)
  PROVE  /\ Tree(G, a, 0) /\ Twice(G) /\ G.blocks = L_ONE_INDIRECT + 1
         /\ NoRowEmpty(Len(a), 0)
         /\ \A c \in Blocks : Spare(F, a, 0, c) /\ c # b => Spare(G, a, 0, c)
<1>1. /\ FileType(F) /\ D \in Nat \ {0} /\ N \in Nat \ {0} /\ D + 1 \in 0 .. D + 1
      /\ a \in Seq(Blocks) /\ Len(a) = D + N /\ b \in 0 .. LastBlock
      /\ Single(F) /\ ~ Twice(F)
  BY Sizes DEF Tree, SizesFit, Single, Twice
<1>2. /\ FileType(G) /\ G.blocks = L_ONE_INDIRECT + 1 /\ G.taken = F.taken
      /\ G.content = F.content /\ G.block[D + 1] = b
      /\ \A i \in 0 .. D + 1 : i # D + 1 => G.block[i] = F.block[i]
  <2> DEFINE j == D + 1
  <2>1. FileType(F) /\ j \in 0 .. D + 1 /\ G = PointAt(F, j, b)
    BY <1>1
  <2> HIDE DEF j
  <2>2. WasPointed(F, G, j, b)
    BY <2>1, PointFacts
  <2> QED BY <2>2 DEF j, WasPointed
<1>3. \A i \in 0 .. D : G.block[i] = F.block[i]
  BY <1>1, <1>2
<1>4. FileType(G)
  BY <1>2
<1>5. Single(G) /\ Twice(G) /\ Indirect(G) = Indirect(F) /\ Double(G) = b
  <2>1. D \in 0 .. D /\ G.blocks > D /\ G.blocks > L_ONE_INDIRECT
    BY <1>1, <1>2, Sizes
  <2> QED BY <1>2, <1>3, <2>1 DEF Single, Twice, Indirect, Double
<1>6. \A c : IsIndex(G, 0, c) <=> IsIndex(F, 0, c) \/ c = b
  BY <1>1, <1>5 DEF IsIndex
<1>7. SizesFit(G, Len(a), 0) /\ DataApart(G, a)
  BY <1>1, <1>2, <1>5, Sizes DEF SizesFit, Tree, DataApart
<1>8. IndexesApart(G, a, 0)
  <2>1. Indirect(G) # Double(G)
    BY <1>1, <1>5 DEF Spare, IsIndex
  <2> QED BY <1>2, <1>6, <2>1 DEF Tree, IndexesApart, Spare
<1>9. DataFound(G, a)
  <2> SUFFICES ASSUME NEW i \in 1 .. Len(a)
               PROVE  /\ i <= D => G.block[i - 1] = a[i]
                      /\ D < i => G.content[Indirect(G)][i - 1 - D] = a[i]
                      /\ ~ i > D + N
    BY <1>1 DEF DataFound
  <2>1. i <= D + N /\ (i <= D => i - 1 \in 0 .. D)
    BY <1>1
  <2> QED BY <1>1, <1>2, <1>3, <1>5, <2>1 DEF Tree, DataFound
<1>10. RowsFit(G, Len(a), 0)
  <2>1. \A j \in Entries : IndexOfRow(G, j) = 0
    BY <1>2, <1>5 DEF Spare, IndexOfRow, Zeroes
  <2> QED BY <2>1, RowColFacts DEF Tree, RowsFit
<1> QED BY <1>1, <1>2, <1>4, <1>5, <1>6, <1>7, <1>8, <1>9, <1>10 DEF Tree, Spare, NoRowEmpty

LEMMA RowKeeps ==
  ASSUME NEW F, NEW a, NEW k, Tree(F, a, k), Twice(F), k < N, NEW b \in Blocks,
         Spare(F, a, k, b),
         NEW G, G = PutAt(F, Double(F), k, b)
  PROVE  /\ Tree(G, a, k + 1) /\ Twice(G)
         /\ \A c \in Blocks : Spare(F, a, k, c) /\ c # b => Spare(G, a, k + 1, c)
<1>1. /\ FileType(F) /\ Double(F) \in Blocks /\ k \in Entries /\ k \in Nat /\ k \in 0 .. N
      /\ a \in Seq(Blocks) /\ Len(a) \in Nat /\ Single(F) /\ N \in Nat
  <2>1. FileType(F) /\ a \in Seq(Blocks) /\ k \in 0 .. N
    BY DEF Tree, RowsFit
  <2>2. Double(F) \in Blocks /\ Single(F)
    BY IndexFacts
  <2> QED BY <2>1, <2>2, Sizes
<1>2. /\ FileType(G) /\ G.blocks = F.blocks + 1 /\ G.block = F.block /\ G.taken = F.taken
      /\ G.content[Double(F)][k] = b
      /\ \A y \in Blocks : y # Double(F) => G.content[y] = F.content[y]
      /\ \A f \in Entries : f # k => G.content[Double(F)][f] = F.content[Double(F)][f]
  <2>1. WasPut(F, G, Double(F), k, b)
    BY <1>1, PutFacts
  <2> QED BY <2>1 DEF WasPut
<1>3. Single(G) /\ Twice(G) /\ Indirect(G) = Indirect(F) /\ Double(G) = Double(F)
  <2>1. F.blocks \in Nat /\ F.blocks > D /\ F.blocks > L_ONE_INDIRECT
    BY <1>1 DEF FileType, Single, Twice
  <2>2. G.blocks > D /\ G.blocks > L_ONE_INDIRECT
    BY <1>2, <2>1, Sizes
  <2> QED BY <1>2, <2>2 DEF Single, Twice, Indirect, Double
<1>4. /\ IndexOfRow(G, k) = b
      /\ \A j \in Entries : j # k => IndexOfRow(G, j) = IndexOfRow(F, j)
  BY <1>1, <1>2, <1>3 DEF IndexOfRow
<1>5. /\ \A j \in 0 .. k - 1 : j \in Entries /\ j # k /\ j \in 0 .. (k + 1) - 1
      /\ k \in 0 .. (k + 1) - 1
      /\ \A j \in 0 .. (k + 1) - 1 : j = k \/ j \in 0 .. k - 1
  BY <1>1, IndexFacts
<1>6. \A c : IsIndex(G, k + 1, c) <=> IsIndex(F, k, c) \/ c = b
  <2> SUFFICES ASSUME NEW c
               PROVE  (\E j \in 0 .. (k + 1) - 1 : c = IndexOfRow(G, j))
                        <=> (\E j \in 0 .. k - 1 : c = IndexOfRow(F, j)) \/ c = b
    BY <1>1, <1>3 DEF IsIndex
  <2> QED BY <1>4, <1>5
<1>7. SizesFit(G, Len(a), k + 1) /\ DataApart(G, a)
  BY <1>1, <1>2, <1>3 DEF SizesFit, Tree, DataApart, FileType
<1>8. IndexesApart(G, a, k + 1)
  <2>1. \A c : IsIndex(G, k + 1, c) => c \in G.taken /\ \A i \in 1 .. Len(a) : c # a[i]
    BY <1>2, <1>6 DEF Tree, IndexesApart, Spare
  <2>2. Indirect(G) # Double(G) /\ b \notin {Indirect(F), Double(F)}
    BY <1>1, <1>3 DEF Tree, IndexesApart, Spare, IsIndex
  <2>3. \A j \in 0 .. k - 1 :
           /\ IndexOfRow(F, j) \notin {Indirect(F), Double(F)} /\ b # IndexOfRow(F, j)
           /\ \A i \in 0 .. k - 1 : i # j => IndexOfRow(F, i) # IndexOfRow(F, j)
    BY DEF Tree, IndexesApart, Spare, IsIndex
  <2>4. ASSUME NEW j \in 0 .. (k + 1) - 1
        PROVE  /\ IndexOfRow(G, j) \notin {Indirect(G), Double(G)}
               /\ \A i \in 0 .. (k + 1) - 1 : i # j => IndexOfRow(G, i) # IndexOfRow(G, j)
    BY <1>3, <1>4, <1>5, <2>2, <2>3
  <2> QED BY <2>1, <2>2, <2>4 DEF IndexesApart
<1>9. ASSUME NEW y \in Blocks, y # Double(F), NEW f \in Entries
      PROVE  G.content[y][f] = F.content[y][f]
  BY <1>2, <1>9
<1>10. ASSUME NEW q \in Nat, Row(q) < k
       PROVE  /\ IndexOfRow(G, Row(q)) = IndexOfRow(F, Row(q))
              /\ G.content[IndexOfRow(G, Row(q))][Col(q)] = F.content[IndexOfRow(F, Row(q))][Col(q)]
  <2>1. Row(q) \in 0 .. k - 1 /\ Col(q) \in Entries
    BY <1>1, <1>10, RowColFacts
  <2>2. IndexOfRow(F, Row(q)) \in Blocks /\ IndexOfRow(F, Row(q)) # Double(F)
    BY <2>1, IndexFacts DEF Tree, IndexesApart
  <2> QED BY <1>4, <1>5, <1>9, <2>1, <2>2
<1>11. RowsFit(G, Len(a), k + 1)
  <2>1. RowsFit(F, Len(a), k)
    BY DEF Tree
  <2>2. k + 1 \in 0 .. N
    BY <1>1
  <2>3. ASSUME NEW j \in Entries, j >= k + 1 PROVE IndexOfRow(G, j) = 0
    <3>1. j >= k /\ j # k
      BY <1>1, <2>3, Sizes
    <3> QED BY <1>4, <2>1, <3>1 DEF RowsFit
  <2>4. \A q \in Nat : q < Beyond(Len(a)) => Row(q) < k + 1
    BY <1>1, <2>1, RowColFacts DEF RowsFit
  <2>5. ASSUME NEW q \in Nat, q >= Beyond(Len(a)), Row(q) < k + 1
        PROVE  G.content[IndexOfRow(G, Row(q))][Col(q)] = 0
    <3>1. Row(q) \in Nat /\ Col(q) \in Entries
      BY RowColFacts
    <3>2. CASE Row(q) < k
      BY <1>10, <2>1, <2>5, <3>2 DEF RowsFit
    <3>3. CASE Row(q) = k
      <4>1. b # Double(F) /\ F.content[b][Col(q)] = 0
        BY <3>1 DEF Spare, IsIndex, Zeroes
      <4> QED BY <1>4, <1>9, <3>1, <3>3, <4>1
    <3> QED BY <1>1, <2>5, <3>1, <3>2, <3>3
  <2> QED BY <2>2, <2>3, <2>4, <2>5 DEF RowsFit
<1>12. DataFound(G, a)
  <2> SUFFICES ASSUME NEW i \in 1 .. Len(a)
               PROVE  /\ i <= D => G.block[i - 1] = a[i]
                      /\ D < i /\ i <= D + N => G.content[Indirect(G)][i - 1 - D] = a[i]
                      /\ i > D + N =>
                           LET q == Beyond(i - 1) IN
                           G.content[IndexOfRow(G, Row(q))][Col(q)] = a[i]
    BY DEF DataFound
  <2>1. /\ i <= D => F.block[i - 1] = a[i]
        /\ D < i /\ i <= D + N => F.content[Indirect(F)][i - 1 - D] = a[i]
        /\ i > D + N =>
             LET q == Beyond(i - 1) IN F.content[IndexOfRow(F, Row(q))][Col(q)] = a[i]
    BY DEF Tree, DataFound
  <2>2. D < i /\ i <= D + N => i - 1 - D \in Entries
    BY <1>1, Sizes
  <2>3. Indirect(F) \in Blocks /\ Indirect(F) # Double(F)
    BY <1>1, IndexFacts DEF Tree, IndexesApart
  <2>4. i > D + N => Beyond(i - 1) \in Nat /\ Row(Beyond(i - 1)) < k
    <3> SUFFICES ASSUME i > D + N PROVE Beyond(i - 1) \in Nat /\ Row(Beyond(i - 1)) < k
      OBVIOUS
    <3>1. Beyond(i - 1) \in Nat /\ Beyond(i - 1) < Beyond(Len(a))
      <4>1. Len(a) \in Nat
        BY <1>1
      <4> QED BY <4>1, Sizes DEF Beyond
    <3> QED BY <3>1 DEF Tree, RowsFit
  <2> QED BY <1>2, <1>3, <1>9, <1>10, <2>1, <2>2, <2>3, <2>4
<1>13. Tree(G, a, k + 1)
  BY <1>1, <1>2, <1>7, <1>8, <1>11, <1>12 DEF Tree
<1>14. ASSUME NEW c \in Blocks, Spare(F, a, k, c), c # b PROVE Spare(G, a, k + 1, c)
  <2>1. c # Double(F) /\ F.content[c] = Zeroes
    BY <1>14 DEF Spare, IsIndex
  <2>2. G.content[c] \in [Entries -> 0 .. LastBlock] /\ Zeroes \in [Entries -> {0}]
    BY <1>2 DEF FileType, Zeroes
  <2>3. \A f \in Entries : G.content[c][f] = Zeroes[f]
    BY <1>9, <2>1
  <2>4. G.content[c] = Zeroes
    BY <2>2, <2>3
  <2> QED BY <1>2, <1>6, <1>14, <2>4 DEF Spare
<1> QED BY <1>3, <1>13, <1>14

-----------------------------------------------------------------------------
(* One data block more, blk, whichever part it is put in.                  *)
LEMMA AppendIs ==
  ASSUME NEW a \in Seq(Blocks), NEW blk \in Blocks
  PROVE  /\ Append(a, blk) \in Seq(Blocks) /\ Len(a) \in Nat
         /\ Len(Append(a, blk)) = Len(a) + 1
         /\ \A i \in 1 .. Len(a) : Append(a, blk)[i] = a[i]
         /\ Append(a, blk)[Len(a) + 1] = blk
         /\ \A i \in 1 .. Len(a) + 1 : i \in 1 .. Len(a) \/ i = Len(a) + 1
OBVIOUS

LEMMA AppendKeeps ==
  ASSUME NEW F, NEW a, NEW k, Tree(F, a, k), NEW blk \in Blocks, Spare(F, a, k, blk),
         NEW G, FileType(G), G.blocks = F.blocks + 1, G.taken = F.taken,
         Single(G) <=> Single(F), Twice(G) <=> Twice(F),
         Indirect(G) = Indirect(F), Double(G) = Double(F),
         Twice(F) => \A j \in Entries : IndexOfRow(G, j) = IndexOfRow(F, j),
         DataFound(G, Append(a, blk)), RowsFit(G, Len(a) + 1, k)
  PROVE  Tree(G, Append(a, blk), k)
<1> DEFINE b == Append(a, blk)
<1>1. /\ b \in Seq(Blocks) /\ Len(a) \in Nat /\ Len(b) = Len(a) + 1
      /\ \A i \in 1 .. Len(a) : b[i] = a[i]
      /\ b[Len(a) + 1] = blk
      /\ \A i \in 1 .. Len(a) + 1 : i \in 1 .. Len(a) \/ i = Len(a) + 1
  BY AppendIs DEF Tree
<1> HIDE DEF b
<1>2. \A j \in 0 .. k - 1 : IndexOfRow(G, j) = IndexOfRow(F, j)
  BY IndexFacts
<1>3. \A c : IsIndex(G, k, c) <=> IsIndex(F, k, c)
  BY <1>2 DEF IsIndex
<1>4. SizesFit(G, Len(b), k)
  <2>1. F.blocks \in Nat /\ k \in 0 .. N /\ SizesFit(F, Len(a), k)
    BY DEF Tree, FileType, RowsFit
  <2>2. /\ ~ Single(F) => Len(b) = G.blocks
        /\ Single(F) /\ ~ Twice(F) => Len(b) = G.blocks - 1
        /\ Twice(F) => Len(b) = G.blocks - 2 - k /\ Len(b) >= D + N
    <3>1. /\ ~ Single(F) => Len(a) = F.blocks
          /\ Single(F) /\ ~ Twice(F) => Len(a) = F.blocks - 1
          /\ Twice(F) => Len(a) = F.blocks - 2 - k /\ Len(a) >= D + N
      BY <2>1 DEF SizesFit
    <3> DEFINE n == Len(a)
               m == Len(b)
               f == F.blocks
               g == G.blocks
    <3>2. /\ k \in Int /\ D + N \in Nat /\ n \in Nat /\ m = n + 1
          /\ f \in Nat /\ g = f + 1
      BY <1>1, <2>1, Sizes
    <3> HIDE DEF n, m, f, g
    <3>3. /\ n = f => m = g
          /\ n = f - 1 => m = g - 1
          /\ n = f - 2 - k => m = g - 2 - k
          /\ n >= D + N => m >= D + N
      BY <3>2, Sizes
    <3> QED BY <3>1, <3>3 DEF n, m, f, g
  <2> QED BY <2>1, <2>2 DEF SizesFit
<1>5. IndexesApart(G, b, k)
  <2>1. \A c : IsIndex(F, k, c) => \A i \in 1 .. Len(b) : c # b[i]
    BY <1>1 DEF Tree, IndexesApart, Spare
  <2> QED BY <1>2, <1>3, <2>1 DEF Tree, IndexesApart
<1>6. DataApart(G, b)
  BY <1>1 DEF Tree, DataApart, Spare
<1> QED BY <1>1, <1>4, <1>5, <1>6 DEF Tree, b

LEMMA PutDirectKeeps ==
  ASSUME NEW F, NEW a, NEW k, Tree(F, a, k), F.blocks < D, NEW blk \in Blocks, Spare(F, a, k, blk)
  PROVE  Tree(PutDirect(F, blk), Append(a, blk), k)
<1> DEFINE G == PutDirect(F, blk)
           b == Append(a, blk)
           n == Len(a)
<1>1. /\ FileType(F) /\ D \in Nat \ {0} /\ N \in Nat /\ blk \in 0 .. LastBlock
      /\ n = F.blocks /\ n \in Nat /\ n < D /\ k = 0 /\ n \in 0 .. D + 1
      /\ ~ Single(F) /\ ~ Twice(F)
  <2>1. FileType(F) /\ F.blocks \in Nat /\ SizesFit(F, n, k)
    BY DEF Tree, FileType
  <2>2. ~ Single(F) /\ ~ Twice(F)
    BY <2>1, Sizes DEF Single, Twice
  <2>3. n = F.blocks /\ k = 0
    BY <2>1, <2>2 DEF SizesFit
  <2> HIDE DEF n
  <2> QED BY <2>1, <2>2, <2>3, Sizes
<1>2. /\ G.blocks = F.blocks + 1 /\ G.taken = F.taken /\ G.content = F.content
      /\ G.room = F.room /\ G.block = [F.block EXCEPT ![F.blocks] = blk]
  BY DEF PutDirect, Tree, FileType
<1> HIDE DEF G
<1>3. /\ G.block \in [0 .. D + 1 -> 0 .. LastBlock] /\ G.block[n] = blk
      /\ \A i \in 0 .. D + 1 : i # n => G.block[i] = F.block[i]
  BY <1>1, <1>2 DEF FileType
<1>4. FileType(G)
  BY <1>1, <1>2, <1>3 DEF FileType
<1>5. /\ ~ Single(G) /\ ~ Twice(G) /\ Indirect(G) = Indirect(F) /\ Double(G) = Double(F)
  <2>1. D \in 0 .. D + 1 /\ D + 1 \in 0 .. D + 1 /\ D # n /\ D + 1 # n
    BY <1>1
  <2>2. ~ G.blocks > D /\ ~ G.blocks > L_ONE_INDIRECT
    BY <1>1, <1>2, Sizes
  <2> QED BY <1>3, <2>1, <2>2 DEF Single, Twice, Indirect, Double
<1>6. DataFound(G, b)
  <2>1. /\ Len(b) = n + 1 /\ \A i \in 1 .. n : b[i] = a[i]
        /\ b[n + 1] = blk
        /\ \A i \in 1 .. n + 1 : i \in 1 .. n \/ i = n + 1
    BY AppendIs DEF Tree
  <2> HIDE DEF b
  <2> SUFFICES ASSUME NEW i \in 1 .. n + 1
               PROVE  i <= D /\ ~ i > D + N /\ G.block[i - 1] = b[i]
    BY <2>1, <1>1 DEF DataFound
  <2>2. i <= D /\ ~ i > D + N /\ i - 1 \in 0 .. D + 1
    BY <1>1
  <2>3. CASE i = n + 1
    <3>1. i - 1 = n
      BY <1>1, <2>3
    <3> QED BY <1>3, <2>1, <2>2, <2>3, <3>1
  <2>4. CASE i \in 1 .. n
    <3>1. i - 1 # n
      BY <1>1, <2>4
    <3>2. F.block[i - 1] = a[i]
      BY <2>2, <2>4 DEF Tree, DataFound
    <3> QED BY <1>3, <2>1, <2>2, <2>4, <3>1, <3>2
  <2> QED BY <2>1, <2>3, <2>4
<1>7. RowsFit(G, n + 1, k)
  <2>1. Beyond(n + 1) \in Int /\ Beyond(n + 1) <= 0
    BY <1>1 DEF Beyond
  <2>2. ASSUME NEW q \in Nat PROVE ~ q < Beyond(n + 1) /\ ~ Row(q) < k
    <3> DEFINE m == Beyond(n + 1)
               y == Row(q)
    <3>1. m \in Int /\ m <= 0 /\ y \in Nat /\ k = 0
      BY <1>1, <2>1, RowNat
    <3> HIDE DEF m, y
    <3>2. ~ q < m /\ ~ y < k
      BY <3>1
    <3> QED BY <3>2 DEF m, y
  <2> QED BY <1>1, <1>5, <2>2, Sizes DEF RowsFit
<1> HIDE DEF b, n
<1>8. Tree(G, b, k)
  BY <1>1, <1>2, <1>4, <1>5, <1>6, <1>7, AppendKeeps DEF b, n
<1> QED BY <1>8 DEF G, b

LEMMA PutIndirectKeeps ==
  ASSUME NEW F, NEW a, NEW k, Tree(F, a, k), D < F.blocks, F.blocks < L_ONE_INDIRECT,
         NEW blk \in Blocks, Spare(F, a, k, blk)
  PROVE  Tree(PutIndirect(F, blk), Append(a, blk), k)
<1> DEFINE G == PutIndirect(F, blk)
           b == Append(a, blk)
           n == Len(a)
           x == Indirect(F)
           e == n - D
<1>1. /\ FileType(F) /\ D \in Nat \ {0} /\ N \in Nat \ {0} /\ F.blocks \in Nat
      /\ n = F.blocks - 1 /\ n \in Nat /\ k = 0 /\ e \in Entries /\ e \in 0 .. N - 1
      /\ Single(F) /\ ~ Twice(F)
  <2>1. FileType(F) /\ F.blocks \in Nat /\ n \in Nat /\ SizesFit(F, n, k)
    BY DEF Tree, FileType
  <2>2. Single(F) /\ ~ Twice(F)
    BY <2>1, Sizes DEF Single, Twice
  <2>3. n = F.blocks - 1 /\ k = 0
    BY <2>1, <2>2 DEF SizesFit
  <2> QED BY <2>1, <2>2, <2>3, Sizes
<1>2. x \in Blocks
  BY <1>1, IndexFacts
<1>3. (F.blocks - (D + 1)) % N = e
  <2>1. F.blocks - (D + 1) = e
    BY <1>1
  <2> HIDE DEF e
  <2>2. e \in Nat /\ N * 0 + e = e
    BY <1>1
  <2>3. Row(e) \in Nat /\ Col(e) \in Entries /\ N * 0 + e = N * Row(e) + Col(e)
    BY <2>2, RowColFacts
  <2>4. Col(e) = e
    BY <1>1, <2>3, RowColUnique
  <2> QED BY <2>1, <2>4 DEF Col
<1>4. G = PutAt(F, x, e, blk)
  BY <1>3 DEF PutIndirect, PutAt
<1> HIDE DEF G, x, e
<1>5. /\ FileType(G) /\ G.blocks = F.blocks + 1 /\ G.block = F.block /\ G.taken = F.taken
      /\ G.content[x][e] = blk
      /\ \A y \in Blocks : y # x => G.content[y] = F.content[y]
      /\ \A f \in Entries : f # e => G.content[x][f] = F.content[x][f]
  <2>1. FileType(F) /\ x \in Blocks /\ e \in Entries /\ blk \in Blocks /\ G = PutAt(F, x, e, blk)
    BY <1>1, <1>2, <1>4
  <2>2. WasPut(F, G, x, e, blk)
    BY ONLY <2>1, PutFacts
  <2> QED BY <2>2 DEF WasPut
<1>6. /\ Single(G) /\ ~ Twice(G) /\ Indirect(G) = x /\ Double(G) = Double(F)
  <2>1. G.blocks > D /\ ~ G.blocks > L_ONE_INDIRECT
    BY <1>1, <1>5, Sizes
  <2> QED BY <1>5, <2>1 DEF Single, Twice, Indirect, Double, x
<1>7. DataFound(G, b)
  <2>1. /\ Len(b) = n + 1 /\ \A i \in 1 .. n : b[i] = a[i]
        /\ b[n + 1] = blk
        /\ \A i \in 1 .. n + 1 : i \in 1 .. n \/ i = n + 1
    BY AppendIs DEF Tree
  <2> HIDE DEF b
  <2> SUFFICES ASSUME NEW i \in 1 .. n + 1
               PROVE  /\ i <= D => G.block[i - 1] = b[i]
                      /\ D < i => G.content[x][i - 1 - D] = b[i]
                      /\ ~ i > D + N
    BY <2>1, <1>6 DEF DataFound
  <2>2. ~ i > D + N
    BY <1>1, Sizes DEF e
  <2>3. CASE i = n + 1
    <3>1. i - 1 - D = e /\ ~ i <= D
      BY <1>1, <2>3 DEF e
    <3> QED BY <1>5, <2>1, <2>2, <2>3, <3>1
  <2>4. CASE i \in 1 .. n
    <3>1. D < i => i - 1 - D \in Entries /\ i - 1 - D # e
      BY <1>1, <2>4, Sizes DEF e
    <3>2. /\ i <= D => F.block[i - 1] = a[i]
          /\ D < i /\ i <= D + N => F.content[x][i - 1 - D] = a[i]
      BY <2>4 DEF Tree, DataFound, x
    <3>3. i <= D + N
      BY <1>1, <2>2
    <3> QED BY <1>5, <2>1, <2>2, <2>4, <3>1, <3>2, <3>3
  <2> QED BY <2>1, <2>3, <2>4
<1>8. RowsFit(G, n + 1, k)
  <2>1. Beyond(n + 1) \in Int /\ Beyond(n + 1) <= 0
    BY <1>1 DEF Beyond, e
  <2>2. ASSUME NEW q \in Nat PROVE ~ q < Beyond(n + 1) /\ ~ Row(q) < k
    <3> DEFINE m == Beyond(n + 1)
               y == Row(q)
    <3>1. m \in Int /\ m <= 0 /\ y \in Nat /\ k = 0
      BY <1>1, <2>1, RowNat
    <3> HIDE DEF m, y
    <3>2. ~ q < m /\ ~ y < k
      BY <3>1
    <3> QED BY <3>2 DEF m, y
  <2> QED BY <1>1, <1>6, <2>2, Sizes DEF RowsFit
<1> HIDE DEF b, n
<1>9. Tree(G, b, k)
  BY <1>1, <1>5, <1>6, <1>7, <1>8, AppendKeeps DEF b, n, x
<1> QED BY <1>9 DEF G, b

LEMMA PutDoubleKeeps ==
  ASSUME NEW F, NEW a, NEW k, Tree(F, a, k), Twice(F), k > 0, Row(Beyond(Len(a))) = k - 1,
         NEW blk \in Blocks, Spare(F, a, k, blk)
  PROVE  /\ Tree(PutDouble(F, blk, Col(Beyond(Len(a)))), Append(a, blk), k)
         /\ NoRowEmpty(Len(a) + 1, k)
<1> DEFINE n == Len(a)
           d == Beyond(n)
           e == Col(d)
           x == IndexOfRow(F, k - 1)
           b == Append(a, blk)
           G == PutDouble(F, blk, e)
<1>1. /\ FileType(F) /\ D \in Nat \ {0} /\ N \in Nat \ {0} /\ F.blocks \in Nat
      /\ n \in Nat /\ d \in Nat /\ d = n - (D + N) /\ Single(F)
      /\ k \in 0 .. N /\ k - 1 \in 0 .. k - 1 /\ k \in Nat /\ e \in Entries
      /\ Beyond(n + 1) = d + 1
  <2>1. FileType(F) /\ F.blocks \in Nat /\ n \in Nat /\ SizesFit(F, n, k) /\ k \in 0 .. N
    BY DEF Tree, FileType, RowsFit
  <2>2. n >= D + N
    BY <2>1 DEF SizesFit
  <2>3. d \in Nat /\ d = n - (D + N) /\ Beyond(n + 1) = d + 1
    BY <2>1, <2>2, Sizes DEF Beyond
  <2>4. k - 1 \in 0 .. k - 1 /\ k \in Nat
    BY <2>1, Sizes
  <2> HIDE DEF n, d
  <2>5. e \in Entries
    BY <2>3, RowNat
  <2> QED BY <2>1, <2>3, <2>4, <2>5, Sizes, IndexFacts
<1>2. /\ x \in Blocks /\ x # Double(F) /\ x # Indirect(F) /\ Double(F) \in Blocks
      /\ Indirect(F) \in Blocks
  BY <1>1, IndexFacts DEF Tree, IndexesApart
<1>3. G = PutAt(F, x, e, blk)
  BY InUseIs DEF PutDouble, PutAt, IndexOfRow
<1>4. Row(d) = k - 1
  OBVIOUS
<1> HIDE DEF G, x, e, d
<1>5. /\ FileType(G) /\ G.blocks = F.blocks + 1 /\ G.block = F.block /\ G.taken = F.taken
      /\ G.content[x][e] = blk
      /\ \A y \in Blocks : y # x => G.content[y] = F.content[y]
      /\ \A f \in Entries : f # e => G.content[x][f] = F.content[x][f]
  <2>1. FileType(F) /\ x \in Blocks /\ e \in Entries /\ blk \in Blocks /\ G = PutAt(F, x, e, blk)
    BY <1>1, <1>2, <1>3
  <2>2. WasPut(F, G, x, e, blk)
    BY ONLY <2>1, PutFacts
  <2> QED BY <2>2 DEF WasPut
<1>6. /\ Single(G) /\ Twice(G) /\ Indirect(G) = Indirect(F) /\ Double(G) = Double(F)
  <2>1. F.blocks > D /\ F.blocks > L_ONE_INDIRECT
    BY <1>1 DEF Single, Twice
  <2>2. G.blocks > D /\ G.blocks > L_ONE_INDIRECT
    BY <1>1, <1>5, <2>1, Sizes
  <2> QED BY <1>5, <2>2 DEF Single, Twice, Indirect, Double
<1>7. \A j \in Entries : IndexOfRow(G, j) = IndexOfRow(F, j)
  BY <1>2, <1>5, <1>6 DEF IndexOfRow
(* The other places of the double part keep what they hold.                *)
<1>8. ASSUME NEW q \in Nat, Row(q) < k, q # d
      PROVE  G.content[IndexOfRow(G, Row(q))][Col(q)] = F.content[IndexOfRow(F, Row(q))][Col(q)]
  <2>1. Row(q) \in 0 .. k - 1 /\ Row(q) \in Entries /\ Col(q) \in Entries
    <3> DEFINE y == Row(q)
    <3>1. y \in Nat /\ y < k /\ k \in 0 .. N /\ N \in Nat /\ Col(q) \in Entries
      BY <1>1, <1>8, RowNat
    <3> HIDE DEF y
    <3>2. y \in 0 .. k - 1 /\ y \in Entries
      BY <3>1, Sizes
    <3> QED BY <3>1, <3>2 DEF y
  <2>2. IndexOfRow(G, Row(q)) = IndexOfRow(F, Row(q)) /\ IndexOfRow(F, Row(q)) \in Blocks
    BY <1>7, <2>1, IndexFacts
  <2>3. CASE Row(q) # k - 1
    <3>1. IndexOfRow(F, Row(q)) # x
      BY <1>1, <2>1, <2>3 DEF Tree, IndexesApart, x
    <3> QED BY <1>5, <2>2, <3>1
  <2>4. CASE Row(q) = k - 1
    <3>1. Col(q) # e
      <4> SUFFICES ASSUME Col(q) = Col(d) PROVE FALSE
        BY DEF e
      <4>1. q = N * Row(q) + Col(q) /\ d = N * Row(d) + Col(d)
        BY <1>1, RowColFacts
      <4> QED BY <1>4, <1>8, <2>4, <4>1
    <3> QED BY <1>5, <2>1, <2>2, <2>4, <3>1 DEF x
  <2> QED BY <2>3, <2>4
<1>9. G.content[IndexOfRow(G, Row(d))][Col(d)] = blk
  <2>1. IndexOfRow(G, Row(d)) = x
    BY <1>1, <1>4, <1>7, IndexFacts DEF x
  <2> QED BY <1>5, <2>1 DEF e
<1>10. RowsFit(G, n + 1, k)
  <2>1. RowsFit(F, n, k)
    BY DEF Tree
  <2>2. \A j \in Entries : j >= k => IndexOfRow(G, j) = 0
    BY <1>7, <2>1 DEF RowsFit
  <2>3. ASSUME NEW q \in Nat, q < d + 1 PROVE Row(q) < k
    <3>1. CASE q = d
      BY <1>1, <1>4, <3>1
    <3>2. CASE q < d
      BY <2>1, <3>2 DEF RowsFit, d
    <3> QED BY <1>1, <2>3, <3>1, <3>2
  <2>4. ASSUME NEW q \in Nat, q >= d + 1, Row(q) < k
        PROVE  G.content[IndexOfRow(G, Row(q))][Col(q)] = 0
    <3>1. q # d /\ q >= d
      BY <1>1, <2>4
    <3> QED BY <1>8, <2>1, <2>4, <3>1 DEF RowsFit, d
  <2> QED BY <1>1, <2>1, <2>2, <2>3, <2>4 DEF RowsFit
<1>11. DataFound(G, b)
  <2>1. /\ Len(b) = n + 1 /\ \A i \in 1 .. n : b[i] = a[i]
        /\ b[n + 1] = blk
        /\ \A i \in 1 .. n + 1 : i \in 1 .. n \/ i = n + 1
    BY AppendIs DEF Tree
  <2> HIDE DEF b
  <2> SUFFICES ASSUME NEW i \in 1 .. n + 1
               PROVE  /\ i <= D => G.block[i - 1] = b[i]
                      /\ D < i /\ i <= D + N => G.content[Indirect(G)][i - 1 - D] = b[i]
                      /\ i > D + N =>
                           LET q == Beyond(i - 1) IN
                           G.content[IndexOfRow(G, Row(q))][Col(q)] = b[i]
    BY <2>1 DEF DataFound
  <2>2. CASE i = n + 1
    <3>1. ~ i <= D + N /\ ~ i <= D /\ Beyond(i - 1) = d
      BY <1>1, <2>2 DEF d
    <3> QED BY <1>9, <2>1, <2>2, <3>1
  <2>3. CASE i \in 1 .. n
    <3>1. /\ i <= D => F.block[i - 1] = a[i]
          /\ D < i /\ i <= D + N => F.content[Indirect(F)][i - 1 - D] = a[i]
          /\ i > D + N =>
               LET q == Beyond(i - 1) IN F.content[IndexOfRow(F, Row(q))][Col(q)] = a[i]
      BY <2>3 DEF Tree, DataFound
    <3>2. i > D + N => Beyond(i - 1) \in Nat /\ Beyond(i - 1) # d /\ Row(Beyond(i - 1)) < k
      <4> SUFFICES ASSUME i > D + N
                   PROVE  Beyond(i - 1) \in Nat /\ Beyond(i - 1) # d /\ Row(Beyond(i - 1)) < k
        OBVIOUS
      <4>1. Beyond(i - 1) \in Nat /\ Beyond(i - 1) < d
        <5>1. n \in Nat /\ i \in Nat /\ i <= n
          BY <1>1, <2>3
        <5> HIDE DEF n
        <5> QED BY <1>1, <5>1 DEF Beyond
      <4>2. \A q \in Nat : q < d => Row(q) < k
        BY DEF Tree, RowsFit, d
      <4> QED BY <1>1, <4>1, <4>2
    <3>3. b[i] = a[i]
      BY <2>1, <2>3
    <3> QED BY <1>2, <1>5, <1>6, <1>8, <3>1, <3>2, <3>3
  <2> QED BY <2>2, <2>3
<1> HIDE DEF b, n
<1>12. Tree(G, b, k)
  BY <1>1, <1>5, <1>6, <1>7, <1>10, <1>11, AppendKeeps DEF b, n
<1>13. NoRowEmpty(n + 1, k)
  BY <1>1, <1>4 DEF NoRowEmpty
<1> QED BY <1>12, <1>13 DEF G, b, e, d, n

-----------------------------------------------------------------------------
(* Adding a data block: the block goes where the shape of the tree,        *)
(* computed from i_blocks, says.                                           *)
LEMMA FirstPlace == Row(0) = 0 /\ Col(0) = 0
<1>1. N * 0 + 0 = 0 /\ 0 \in Entries
  BY Sizes
<1>2. Row(0) \in Nat /\ Col(0) \in Entries /\ N * 0 + 0 = N * Row(0) + Col(0)
  BY <1>1, RowColFacts
<1> QED BY <1>1, <1>2, RowColUnique

LEMMA WhereNext ==
  ASSUME NEW F, NEW a, NEW k, Tree(F, a, k), Twice(F), NoRowEmpty(Len(a), k)
  PROVE  LET d == Beyond(Len(a)) IN
         /\ CanUse(F) = Col(d)
         /\ Col(d) = 0 => Row(d) = k
         /\ Col(d) # 0 => k > 0 /\ Row(d) = k - 1
<1> DEFINE n == Len(a)
           d == Beyond(n)
<1>1. /\ F.blocks \in Nat /\ n \in Nat /\ k \in Nat /\ n = F.blocks - 2 - k /\ n >= D + N
      /\ D \in Nat /\ N \in Nat
  BY Sizes DEF Tree, FileType, SizesFit, RowsFit
<1>2. d \in Nat /\ F.blocks - (D + N + 2) - k = d
  BY <1>1 DEF Beyond
<1>3. CanUse(F) = Col(d)
  BY <1>2, InUseIs, Sizes DEF CanUse, Col
<1>4. \A q \in Nat : q < d => Row(q) < k
  BY DEF Tree, RowsFit
<1>5. k > 0 => d > 0 /\ Row(d - 1) = k - 1
  BY DEF NoRowEmpty
<1> HIDE DEF d
<1>6. CASE d = 0
  BY <1>1, <1>5, <1>6, FirstPlace, <1>3 DEF d
<1>7. CASE d > 0
  <2>1. d - 1 \in Nat /\ (d - 1) + 1 = d
    BY <1>2, <1>7
  <2>2. Row(d - 1) \in Nat /\ Row(d - 1) < k
    <3>1. d - 1 < d
      BY <1>2
    <3> QED BY <1>4, <2>1, <3>1, RowNat
  <2>3. k > 0 /\ Row(d - 1) = k - 1
    <3> DEFINE y == Row(d - 1)
    <3>1. y \in Nat /\ y < k
      BY <2>2
    <3> HIDE DEF y
    <3>2. k > 0
      BY <1>1, <3>1
    <3> QED BY <1>5, <3>2 DEF y
  <2>4. /\ Col(d) = 0 => Row(d) = Row(d - 1) + 1
        /\ Col(d) # 0 => Row(d) = Row(d - 1)
    BY <2>1, NextPlace
  <2> QED BY <1>1, <1>3, <2>3, <2>4 DEF d
<1> QED BY <1>2, <1>6, <1>7

LEMMA AddToDouble ==
  ASSUME NEW F, NEW a, NEW k, Tree(F, a, k), Twice(F), NoRowEmpty(Len(a), k),
         NEW blk \in Blocks, Spare(F, a, k, blk),
         NEW H, H = WithIndirectOfDouble(F), ~ (CanUse(F) = 0 /\ H = F)
  PROVE  \E m \in 0 .. N : /\ Tree(PutDouble(H, blk, CanUse(F)), Append(a, blk), m)
                           /\ NoRowEmpty(Len(a) + 1, m)
<1> DEFINE d == Beyond(Len(a))
<1>1. /\ CanUse(F) = Col(d)
      /\ Col(d) = 0 => Row(d) = k
      /\ Col(d) # 0 => k > 0 /\ Row(d) = k - 1
  BY WhereNext
<1>2. k \in 0 .. N /\ k \in Nat /\ FileType(F) /\ Double(F) \in Blocks /\ N \in Nat
  BY IndexFacts, Sizes DEF Tree, RowsFit
<1>3. CASE Col(d) # 0
  <2>1. H = F
    BY <1>1, <1>3 DEF WithIndirectOfDouble
  <2> QED BY <1>1, <1>2, <1>3, <2>1, PutDoubleKeeps
<1>4. CASE Col(d) = 0
  <2> DEFINE b == NextFree(F)
             G == Take(F, b)
  <2>1. b # 0 /\ k # N /\ H = [G EXCEPT !.content[Double(F)][k] = b, !.blocks = @ + 1]
    BY <1>1, <1>4, InUseIs DEF WithIndirectOfDouble
  <2>2. b \in Blocks \ F.taken
    BY <1>2, <2>1, NextFreeFits
  <2>3. G.blocks = F.blocks /\ G.block = F.block
    BY <1>2, <2>2, TakeFacts
  <2>4. Tree(G, a, k) /\ Spare(G, a, k, b) /\ Spare(G, a, k, blk)
    BY <2>2, TakeKeeps
  <2> HIDE DEF G, b
  <2>5. Double(G) = Double(F) /\ Twice(G)
    BY <2>3 DEF Double, Twice
  <2>6. H = PutAt(G, Double(G), k, b) /\ k < N /\ blk # b
    BY <1>2, <2>1, <2>2, <2>5 DEF PutAt, Spare
  <2>7. Tree(H, a, k + 1) /\ Twice(H) /\ Spare(H, a, k + 1, blk)
    BY <2>2, <2>4, <2>5, <2>6, RowKeeps
  <2>8. k + 1 \in 0 .. N /\ k + 1 > 0 /\ Row(d) = (k + 1) - 1
    BY <1>1, <1>2, <1>4, <2>6
  <2>9. /\ Tree(PutDouble(H, blk, Col(d)), Append(a, blk), k + 1)
        /\ NoRowEmpty(Len(a) + 1, k + 1)
    BY <2>7, <2>8, PutDoubleKeeps
  <2> QED BY <1>1, <2>8, <2>9
<1> QED BY <1>3, <1>4

LEMMA WithIndirectKeeps ==
  ASSUME NEW F, NEW a, NEW k, Tree(F, a, k), D <= F.blocks, F.blocks < L_ONE_INDIRECT,
         NEW blk \in Blocks, Spare(F, a, k, blk),
         NEW G, G = WithIndirect(F), G.blocks # D
  PROVE  Tree(G, a, k) /\ Spare(G, a, k, blk) /\ D < G.blocks /\ G.blocks < L_ONE_INDIRECT
<1>1. FileType(F) /\ F.blocks \in Nat /\ D \in Nat /\ N \in Nat \ {0} /\ L_ONE_INDIRECT = D + 1 + N
  BY Sizes DEF Tree, FileType
<1>2. CASE F.blocks # D
  <2>1. G = F
    BY <1>2 DEF WithIndirect
  <2> QED BY <1>1, <1>2, <2>1
<1>3. CASE F.blocks = D
  <2> DEFINE b == NextFree(F)
             T == Take(F, b)
  <2>1. b # 0 /\ G = PointAt(T, D, b)
    BY <1>3 DEF WithIndirect, PointAt
  <2>2. b \in Blocks \ F.taken
    BY <1>1, <2>1, NextFreeFits
  <2>3. T.blocks = D
    BY <1>1, <1>3, <2>2, TakeFacts
  <2>4. Tree(T, a, k) /\ Spare(T, a, k, b) /\ Spare(T, a, k, blk) /\ blk # b
    BY <2>2, TakeKeeps DEF Spare
  <2>5. k = 0
    <3>1. ~ Twice(F)
      BY <1>1, <1>3 DEF Twice
    <3> QED BY <3>1 DEF Tree, SizesFit
  <2> HIDE DEF T, b
  <2>6. Tree(G, a, 0) /\ G.blocks = D + 1 /\ Spare(G, a, 0, blk)
    BY <2>1, <2>2, <2>3, <2>4, <2>5, IndirectKeeps
  <2> QED BY <1>1, <2>5, <2>6
<1> QED BY <1>2, <1>3

LEMMA WithDoubleKeeps ==
  ASSUME NEW F, NEW a, NEW k, Tree(F, a, k), L_ONE_INDIRECT <= F.blocks, NoRowEmpty(Len(a), k),
         NEW blk \in Blocks, Spare(F, a, k, blk),
         NEW G, G = WithDouble(F), G.blocks # L_ONE_INDIRECT
  PROVE  Tree(G, a, k) /\ Spare(G, a, k, blk) /\ Twice(G)
<1>1. FileType(F) /\ F.blocks \in Nat /\ L_ONE_INDIRECT \in Nat
  <2>1. L_ONE_INDIRECT \in Nat
    BY Sizes
  <2> QED BY <2>1 DEF Tree, FileType
<1>2. CASE F.blocks # L_ONE_INDIRECT
  <2>1. G = F
    BY <1>2 DEF WithDouble
  <2> QED BY <1>1, <1>2, <2>1 DEF Twice
<1>3. CASE F.blocks = L_ONE_INDIRECT
  <2> DEFINE b == NextFree(F)
             T == Take(F, b)
  <2>1. b # 0 /\ G = PointAt(T, D + 1, b)
    BY <1>3 DEF WithDouble, PointAt
  <2>2. b \in Blocks \ F.taken
    BY <1>1, <2>1, NextFreeFits
  <2>3. T.blocks = L_ONE_INDIRECT
    BY <1>1, <1>3, <2>2, TakeFacts
  <2>4. Tree(T, a, k) /\ Spare(T, a, k, b) /\ Spare(T, a, k, blk) /\ blk # b
    BY <2>2, TakeKeeps DEF Spare
  <2>5. k = 0
    <3>1. ~ Twice(F)
      BY <1>1, <1>3 DEF Twice
    <3> QED BY <3>1 DEF Tree, SizesFit
  <2> HIDE DEF T, b
  <2> QED BY <2>1, <2>2, <2>3, <2>4, <2>5, DoubleKeeps
<1> QED BY <1>2, <1>3

LEMMA AddedKeeps ==
  ASSUME NEW F, NEW a, NEW k \in 0 .. N, Tree(F, a, k), NoRowEmpty(Len(a), k),
         NEW blk \in Blocks, Spare(F, a, k, blk)
  PROVE  LET A == Added(F, blk)
             b == IF A.ok THEN Append(a, blk) ELSE a
         IN \E m \in 0 .. N : Tree(A.file, b, m) /\ NoRowEmpty(Len(b), m)
<1> DEFINE A == Added(F, blk)
           b == IF A.ok THEN Append(a, blk) ELSE a
<1>1. F.blocks \in Nat /\ D \in Nat \ {0} /\ L_ONE_INDIRECT = D + 1 + N /\ N \in Nat \ {0}
  BY Sizes DEF Tree, FileType
<1>2. Len(Append(a, blk)) = Len(a) + 1 /\ Len(a) \in Nat
  BY AppendIs DEF Tree
<1>3. ~ Twice(F) => k = 0
  BY DEF Tree, SizesFit
<1> SUFFICES \E m \in 0 .. N : Tree(A.file, b, m) /\ NoRowEmpty(Len(b), m)
  OBVIOUS
<1> HIDE DEF A, b
<1>9. /\ A.ok => b = Append(a, blk)
      /\ ~ A.ok => b = a
  BY DEF b
<1>10. ASSUME NEW m \in 0 .. N, Tree(A.file, b, m), NoRowEmpty(Len(b), m)
       PROVE  \E i \in 0 .. N : Tree(A.file, b, i) /\ NoRowEmpty(Len(b), i)
  BY <1>10
<1>4. CASE F.blocks < D
  <2>1. A = Success(PutDirect(F, blk))
    BY <1>4 DEF A, Added
  <2>2. A.ok /\ A.file = PutDirect(F, blk)
    BY <2>1 DEF Success
  <2>3. Tree(PutDirect(F, blk), Append(a, blk), k)
    BY <1>4, PutDirectKeeps
  <2>4. NoRowEmpty(Len(a) + 1, k)
    <3>1. ~ Twice(F)
      BY <1>1, <1>4 DEF Twice
    <3> QED BY <1>3, <3>1 DEF NoRowEmpty
  <2> QED BY <1>2, <1>9, <1>10, <2>2, <2>3, <2>4
<1>5. CASE D <= F.blocks /\ F.blocks < L_ONE_INDIRECT
  <2> DEFINE G == WithIndirect(F)
  <2>1. A = IF G.blocks = D THEN Failure(G) ELSE Success(PutIndirect(G, blk))
    BY <1>1, <1>5 DEF A, Added
  <2>2. CASE G.blocks = D
    <3>1. ~ A.ok /\ A.file = G
      BY <2>1, <2>2 DEF Failure
    <3>2. G = F
      <4> SUFFICES ASSUME G # F PROVE FALSE
        OBVIOUS
      <4>1. F.blocks = D /\ NextFree(F) # 0
        BY DEF WithIndirect
      <4>2. FileType(F) /\ NextFree(F) \in Blocks
        BY <4>1, NextFreeFits DEF Tree
      <4>3. Take(F, NextFree(F)).blocks = D /\ FileType(Take(F, NextFree(F)))
        BY <4>1, <4>2, TakeFacts
      <4>4. G.blocks = D + 1
        BY <4>1, <4>3 DEF WithIndirect, FileType
      <4> QED BY <1>1, <2>2, <4>4
    <3> QED BY <1>9, <1>10, <3>1, <3>2
  <2>3. CASE G.blocks # D
    <3>1. A.ok /\ A.file = PutIndirect(G, blk)
      BY <2>1, <2>3 DEF Success
    <3>2. Tree(G, a, k) /\ Spare(G, a, k, blk) /\ D < G.blocks /\ G.blocks < L_ONE_INDIRECT
      BY <1>5, <2>3, WithIndirectKeeps
    <3> HIDE DEF G
    <3>3. Tree(PutIndirect(G, blk), Append(a, blk), k)
      BY <3>2, PutIndirectKeeps
    <3>4. NoRowEmpty(Len(a) + 1, k)
      <4>1. ~ Twice(F)
        BY <1>1, <1>5 DEF Twice
      <4> QED BY <1>3, <4>1 DEF NoRowEmpty
    <3> QED BY <1>2, <1>9, <1>10, <3>1, <3>3, <3>4
  <2> QED BY <2>2, <2>3
<1>6. CASE L_ONE_INDIRECT <= F.blocks
  <2> DEFINE G == WithDouble(F)
             H == WithIndirectOfDouble(G)
  <2>1. A = IF G.blocks = L_ONE_INDIRECT \/ (CanUse(G) = 0 /\ H = G) THEN Failure(G)
            ELSE Success(PutDouble(H, blk, CanUse(G)))
    BY <1>1, <1>6 DEF A, Added
  <2>2. CASE G.blocks = L_ONE_INDIRECT
    <3>1. ~ A.ok /\ A.file = G
      BY <2>1, <2>2 DEF Failure
    <3>2. G = F
      <4> SUFFICES ASSUME G # F PROVE FALSE
        OBVIOUS
      <4>1. F.blocks = L_ONE_INDIRECT /\ NextFree(F) # 0
        BY DEF WithDouble
      <4>2. FileType(F) /\ NextFree(F) \in Blocks
        BY <4>1, NextFreeFits DEF Tree
      <4>3. Take(F, NextFree(F)).blocks = L_ONE_INDIRECT /\ FileType(Take(F, NextFree(F)))
        BY <4>1, <4>2, TakeFacts
      <4>4. G.blocks = L_ONE_INDIRECT + 1
        BY <4>1, <4>3 DEF WithDouble, FileType
      <4> QED BY <1>1, <2>2, <4>4
    <3> QED BY <1>9, <1>10, <3>1, <3>2
  <2>3. CASE G.blocks # L_ONE_INDIRECT
    <3>1. Tree(G, a, k) /\ Spare(G, a, k, blk) /\ Twice(G)
      BY <1>6, <2>3, WithDoubleKeeps
    <3> HIDE DEF G
    <3>2. CASE CanUse(G) = 0 /\ H = G
      <4>1. ~ A.ok /\ A.file = G
        BY <2>1, <3>2 DEF Failure
      <4> QED BY <1>9, <3>1, <4>1
    <3>3. CASE ~ (CanUse(G) = 0 /\ H = G)
      <4>1. A.ok /\ A.file = PutDouble(H, blk, CanUse(G))
        BY <2>1, <2>3, <3>3 DEF Success
      <4> HIDE DEF H
      <4>2. \E m \in 0 .. N : /\ Tree(PutDouble(H, blk, CanUse(G)), Append(a, blk), m)
                              /\ NoRowEmpty(Len(a) + 1, m)
        BY <3>1, <3>3, AddToDouble DEF H
      <4> QED BY <1>2, <1>9, <4>1, <4>2
    <3> QED BY <3>2, <3>3
  <2> QED BY <2>2, <2>3
<1> QED BY <1>1, <1>4, <1>5, <1>6
-----------------------------------------------------------------------------
(* Reading the file: every position holds what was added there.            *)
LEMMA PlaceOf ==
  ASSUME NEW F, NEW a, NEW k, Tree(F, a, k), NEW i \in 1 .. Len(a), i > D + N
  PROVE  /\ Beyond(i - 1) \in Nat /\ Beyond(i - 1) < Beyond(Len(a))
         /\ Row(Beyond(i - 1)) \in 0 .. k - 1 /\ Col(Beyond(i - 1)) \in Entries
         /\ F.content[IndexOfRow(F, Row(Beyond(i - 1)))][Col(Beyond(i - 1))] = a[i]
<1> DEFINE q == Beyond(i - 1)
           y == Row(q)
<1>1. q \in Nat /\ q < Beyond(Len(a))
  <2>1. Len(a) \in Nat
    BY DEF Tree
  <2> QED BY <2>1, Sizes DEF Beyond
<1>2. F.content[IndexOfRow(F, Row(q))][Col(q)] = a[i]
  BY DEF Tree, DataFound
<1> HIDE DEF q
<1>3. y < k /\ k \in 0 .. N
  BY <1>1 DEF Tree, RowsFit
<1>4. y \in Nat /\ Col(q) \in Entries
  BY <1>1, RowNat
<1> HIDE DEF y
<1>5. y \in 0 .. k - 1
  BY <1>3, <1>4
<1> QED BY <1>1, <1>2, <1>4, <1>5 DEF q, y

LEMMA TreeInOrder ==
  ASSUME NEW F, NEW a, NEW k, Tree(F, a, k)
  PROVE  ActualBlocks(F) = Len(a) /\ \A r \in 1 .. Len(a) : Relative(F, r - 1) = a[r]
<1>1. /\ F.blocks \in Nat /\ Len(a) \in Nat /\ SizesFit(F, Len(a), k)
  BY DEF Tree, FileType
<1>2. ActualBlocks(F) = Len(a)
  <2>1. CASE ~ Single(F)
    BY <1>1, <2>1, Sizes DEF ActualBlocks, SizesFit, Single
  <2>2. CASE Single(F) /\ ~ Twice(F)
    BY <1>1, <2>2, Sizes DEF ActualBlocks, SizesFit, Single, Twice
  <2>3. CASE Twice(F)
    <3>1. k \in Nat /\ InUse(F) = k /\ Len(a) = F.blocks - 2 - k
      BY <1>1, <2>3, InUseIs DEF SizesFit, Tree, RowsFit
    <3>2. ~ F.blocks <= D /\ ~ F.blocks <= L_ONE_INDIRECT
      BY <1>1, <2>3, Sizes DEF Twice
    <3> QED BY <1>1, <3>1, <3>2 DEF ActualBlocks
  <2> QED BY <2>1, <2>2, <2>3
<1>3. ASSUME NEW r \in 1 .. Len(a) PROVE Relative(F, r - 1) = a[r]
  <2>1. /\ r <= D => F.block[r - 1] = a[r]
        /\ D < r /\ r <= D + N => F.content[Indirect(F)][r - 1 - D] = a[r]
    BY DEF Tree, DataFound
  <2>2. CASE r <= D
    BY <2>1, <2>2, Sizes DEF Relative
  <2>3. CASE D < r /\ r <= D + N
    <3>1. ~ r - 1 < D /\ r - 1 < N + D
      BY <2>3, Sizes
    <3> QED BY <2>1, <2>3, <3>1 DEF Relative
  <2>4. CASE r > D + N
    <3>1. ~ r - 1 < D /\ ~ r - 1 < N + D /\ (r - 1) - (N + D) = Beyond(r - 1)
      BY <2>4, Sizes DEF Beyond
    <3> DEFINE d == Beyond(r - 1)
    <3>2. F.content[IndexOfRow(F, Row(d))][Col(d)] = a[r]
      BY <2>4, PlaceOf
    <3>3. Relative(F, r - 1) = F.content[F.content[Double(F)][d \div N]][d % N]
      BY <3>1 DEF Relative
    <3> HIDE DEF d
    <3> QED BY <3>2, <3>3 DEF IndexOfRow, Row, Col
  <2> QED BY <2>2, <2>3, <2>4, Sizes
<1> QED BY <1>2, <1>3

-----------------------------------------------------------------------------
(* Emptying the file: the blocks of each part, and how many they are.      *)
Image(f, l, h) == {f[i] : i \in l .. h}

LEMMA ImageSize ==
  ASSUME NEW l \in Int, NEW h \in Int, l <= h + 1, NEW f,
         \A i, j \in l .. h : f[i] = f[j] => i = j
  PROVE  IsFiniteSet(Image(f, l, h)) /\ Cardinality(Image(f, l, h)) = h - l + 1
<1> DEFINE S == l .. h
           T == Image(f, l, h)
           g == [i \in S |-> f[i]]
<1>1. IsFiniteSet(S) /\ Cardinality(S) = h - l + 1
  BY FS_Interval
<1>2. /\ g \in [S -> T]
      /\ \A x, y \in S : g[x] = g[y] => x = y
      /\ \A t \in T : \E x \in S : g[x] = t
  BY DEF Image
<1> HIDE DEF g, S, T
<1>3. g \in Bijection(S, T)
  BY <1>2, Fun_IsBij
<1>4. IsFiniteSet(T) /\ Cardinality(T) = Cardinality(S)
  BY <1>1, <1>3, FS_Bijection DEF ExistsBijection
<1> QED BY <1>1, <1>4 DEF T

LEMMA UnionSize ==
  ASSUME NEW S, NEW T, IsFiniteSet(S), IsFiniteSet(T), S \cap T = {}
  PROVE  IsFiniteSet(S \cup T) /\ Cardinality(S \cup T) = Cardinality(S) + Cardinality(T)
<1>1. Cardinality(S) \in Nat /\ Cardinality(T) \in Nat /\ Cardinality({}) = 0
  BY FS_CardinalityType, FS_EmptySet
<1>2. /\ IsFiniteSet(S \cup T)
      /\ Cardinality(S \cup T) = Cardinality(S) + Cardinality(T) - Cardinality(S \cap T)
  BY FS_Union
<1>3. Cardinality(S \cap T) = 0
  BY <1>1, Zenon
<1> QED BY <1>1, <1>2, <1>3

LEMMA OneMoreSize ==
  ASSUME NEW S, NEW x, IsFiniteSet(S), x \notin S
  PROVE  IsFiniteSet({x} \cup S) /\ Cardinality({x} \cup S) = Cardinality(S) + 1
<1>1. {x} \cup S = S \cup {x}
  OBVIOUS
<1> QED BY <1>1, FS_AddElement

LEMMA DirectIs ==
  ASSUME NEW F, NEW a, NEW k, Tree(F, a, k)
  PROVE  DirectOf(F) = Image(a, 1, IF Single(F) THEN D ELSE Len(a))
<1>1. F.blocks \in Nat /\ Len(a) \in Nat /\ SizesFit(F, Len(a), k) /\ D \in Nat
  BY Sizes DEF Tree, FileType
<1> DEFINE lo == IF Single(F) THEN D ELSE Len(a)
<1>2. lo = Min({F.blocks, D})
  <2> DEFINE T == {F.blocks, D}
  <2>1. T \in SUBSET Nat /\ T # {}
    BY <1>1
  <2>2. Min(T) \in T /\ \A y \in T : Min(T) <= y
    BY <2>1, LeastOf
  <2> QED BY <1>1, <2>2 DEF Single, SizesFit
<1>3. lo <= Len(a) /\ lo <= D /\ lo \in Nat
  <2>1. CASE ~ Single(F)
    BY <1>1, <2>1 DEF SizesFit, Single
  <2>2. CASE Single(F) /\ ~ Twice(F)
    BY <1>1, <2>2 DEF SizesFit, Single
  <2>3. CASE Twice(F)
    <3>1. Single(F) /\ Len(a) >= D + N
      BY <1>1, <2>3, IndexFacts DEF SizesFit
    <3> QED BY <1>1, <3>1, Sizes
  <2> QED BY <2>1, <2>2, <2>3
<1> HIDE DEF lo
<1>4. \A i \in 1 .. lo : F.block[i - 1] = a[i]
  <2>1. \A i \in 1 .. lo : i \in 1 .. Len(a) /\ i <= D
    BY <1>1, <1>3
  <2> QED BY <2>1 DEF Tree, DataFound
<1>5. DirectOf(F) = {F.block[i] : i \in 0 .. lo - 1}
  BY <1>2 DEF DirectOf
<1>6. ASSUME NEW x PROVE x \in DirectOf(F) <=> x \in Image(a, 1, lo)
  <2>1. ASSUME NEW i \in 0 .. lo - 1, x = F.block[i] PROVE x \in Image(a, 1, lo)
    <3>1. i + 1 \in 1 .. lo /\ (i + 1) - 1 = i
      BY <1>3
    <3> QED BY <1>4, <2>1, <3>1 DEF Image
  <2>2. ASSUME NEW i \in 1 .. lo, x = a[i] PROVE x \in DirectOf(F)
    <3>1. i - 1 \in 0 .. lo - 1
      BY <1>3
    <3> QED BY <1>4, <1>5, <2>2, <3>1
  <2> QED BY <1>5, <2>1, <2>2 DEF Image
<1> QED BY <1>6 DEF lo

LEMMA IndirectIs ==
  ASSUME NEW F, NEW a, NEW k, Tree(F, a, k), Single(F)
  PROVE  LET h == IF Twice(F) THEN D + N ELSE Len(a) IN
         /\ IndirectOf(F) = {Indirect(F)} \cup Image(a, D + 1, h)
         /\ D <= h /\ h <= Len(a)
<1>1. /\ F.blocks \in Nat /\ Len(a) \in Nat /\ SizesFit(F, Len(a), k) /\ D \in Nat /\ N \in Nat
      /\ L_ONE_INDIRECT = D + 1 + N
  BY Sizes DEF Tree, FileType
<1> DEFINE h == IF Twice(F) THEN D + N ELSE Len(a)
<1>2. D <= h /\ h <= Len(a) /\ h \in Nat /\ h <= D + N /\ InIndirect(F) = h - D
  <2>1. CASE Twice(F)
    BY <1>1, <2>1 DEF SizesFit, Twice, InIndirect
  <2>2. CASE ~ Twice(F)
    BY <1>1, <2>2 DEF SizesFit, Single, Twice, InIndirect
  <2> QED BY <2>1, <2>2
<1> HIDE DEF h
<1>3. \A i \in D + 1 .. h : F.content[Indirect(F)][i - 1 - D] = a[i]
  <2>1. \A i \in D + 1 .. h : i \in 1 .. Len(a) /\ D < i /\ i <= D + N
    BY <1>1, <1>2
  <2> QED BY <2>1 DEF Tree, DataFound
<1>4. IndirectOf(F) = {Indirect(F)} \cup {F.content[Indirect(F)][e] : e \in 0 .. h - D - 1}
  BY <1>1, <1>2 DEF IndirectOf, Single
<1>5. ASSUME NEW x
      PROVE  x \in {F.content[Indirect(F)][e] : e \in 0 .. h - D - 1} <=> x \in Image(a, D + 1, h)
  <2>1. ASSUME NEW e \in 0 .. h - D - 1, x = F.content[Indirect(F)][e]
        PROVE  x \in Image(a, D + 1, h)
    <3>1. e + D + 1 \in D + 1 .. h /\ (e + D + 1) - 1 - D = e
      BY <1>1, <1>2
    <3> QED BY <1>3, <2>1, <3>1 DEF Image
  <2>2. ASSUME NEW i \in D + 1 .. h, x = a[i]
        PROVE  \E e \in 0 .. h - D - 1 : x = F.content[Indirect(F)][e]
    <3>1. i - 1 - D \in 0 .. h - D - 1
      BY <1>1, <1>2
    <3> QED BY <1>3, <2>2, <3>1
  <2> QED BY <2>1, <2>2 DEF Image
<1> QED BY <1>2, <1>4, <1>5 DEF h

LEMMA DoubleIs ==
  ASSUME NEW F, NEW a, NEW k, Tree(F, a, k), Twice(F)
  PROVE  DoubleOf(F) = {Double(F)} \cup Image(F.content[Double(F)], 0, k - 1)
                         \cup Image(a, D + N + 1, Len(a))
<1>1. /\ F.blocks \in Nat /\ Len(a) \in Nat /\ k \in 0 .. N /\ D \in Nat /\ N \in Nat
      /\ 0 \notin Blocks /\ a \in Seq(Blocks)
  BY Sizes DEF Tree, FileType, RowsFit
<1> DEFINE R == Image(F.content[Double(F)], 0, k - 1)
           U == (UNION {{F.content[b][e] : e \in Entries} : b \in R}) \ {0}
           V == Image(a, D + N + 1, Len(a))
<1>2. IndexesOf(F) = R
  BY InUseIs DEF IndexesOf, Image
<1>3. DoubleOf(F) = {Double(F)} \cup R \cup U
  <2>1. ~ F.blocks <= L_ONE_INDIRECT
    BY <1>1, Sizes DEF Twice
  <2> QED BY <1>2, <2>1 DEF DoubleOf
<1> HIDE DEF R
<1>4. ASSUME NEW x \in U PROVE x \in V
  <2>1. PICK j \in 0 .. k - 1, e \in Entries : x = F.content[IndexOfRow(F, j)][e] /\ x # 0
    <3>1. PICK b \in R, f \in Entries : x = F.content[b][f] /\ x # 0
      BY <1>4
    <3>2. PICK i \in 0 .. k - 1 : b = IndexOfRow(F, i)
      BY <3>1 DEF R, Image, IndexOfRow
    <3> QED BY <3>1, <3>2
  <2>2. PICK q \in Nat : Row(q) = j /\ Col(q) = e
    BY PlaceOfData
  <2>3. Row(q) < k
    BY <1>1, <2>2
  <2>4. ~ q >= Beyond(Len(a))
    BY <2>1, <2>2, <2>3 DEF Tree, RowsFit
  <2> DEFINE i == q + D + N + 1
  <2>5. i \in 1 .. Len(a) /\ i > D + N /\ Beyond(i - 1) = q /\ i \in D + N + 1 .. Len(a)
    BY <1>1, <2>4 DEF Beyond
  <2> HIDE DEF i
  <2>6. x = a[i]
    BY <2>1, <2>2, <2>5, PlaceOf
  <2> QED BY <2>5, <2>6 DEF Image
<1>5. ASSUME NEW x \in V PROVE x \in U
  <2>1. PICK i \in D + N + 1 .. Len(a) : x = a[i]
    BY <1>5 DEF Image
  <2>2. i \in 1 .. Len(a) /\ i > D + N
    BY <1>1
  <2>3. x \in Blocks
    BY <1>1, <2>1, <2>2
  <2> DEFINE j == Row(Beyond(i - 1))
             e == Col(Beyond(i - 1))
  <2>4. j \in 0 .. k - 1 /\ e \in Entries /\ F.content[IndexOfRow(F, j)][e] = x
    BY <2>1, <2>2, PlaceOf
  <2> HIDE DEF j, e
  <2>5. IndexOfRow(F, j) \in R
    BY <2>4 DEF R, Image, IndexOfRow
  <2>6. x # 0
    BY <1>1, <2>3
  <2>7. x \in {F.content[IndexOfRow(F, j)][f] : f \in Entries}
    BY <2>4
  <2> QED BY <2>5, <2>6, <2>7
<1> HIDE DEF U, V
<1>6. U = V
  BY <1>4, <1>5
<1> QED BY <1>3, <1>6 DEF V, R
(* The parts have no block in common, so that what they count is i_blocks. *)
LEMMA TreeFrees ==
  ASSUME NEW F, NEW a, NEW k, Tree(F, a, k)
  PROVE  /\ Freed(F) = F.blocks
         /\ Cardinality(FreedBlocks(F)) = F.blocks
         /\ \A r \in 1 .. Len(a) : a[r] \in FreedBlocks(F)
         /\ FreedBlocks(F) \subseteq F.taken
<1> DEFINE n    == Len(a)
           S(l, h) == Image(a, l, h)
           R    == Image(F.content[Double(F)], 0, k - 1)
<1>1. /\ F.blocks \in Nat /\ n \in Nat /\ k \in 0 .. N /\ D \in Nat /\ N \in Nat
      /\ SizesFit(F, n, k)
  BY Sizes DEF Tree, FileType, RowsFit
<1>2. ASSUME NEW l \in 1 .. n + 1, NEW h \in 0 .. n, l <= h + 1
      PROVE  /\ IsFiniteSet(S(l, h)) /\ Cardinality(S(l, h)) = h - l + 1
             /\ S(l, h) \subseteq F.taken
             /\ \A i \in 1 .. n : a[i] \in S(l, h) <=> i \in l .. h
             /\ \A b : IsIndex(F, k, b) => b \notin S(l, h)
  <2>1. \A i \in l .. h : i \in 1 .. n
    BY <1>1, <1>2
  <2>2. \A i, j \in l .. h : a[i] = a[j] => i = j
    BY <2>1 DEF Tree, DataApart
  <2>3. IsFiniteSet(S(l, h)) /\ Cardinality(S(l, h)) = h - l + 1
    BY <1>1, <1>2, <2>2, ImageSize
  <2>4. S(l, h) \subseteq F.taken
    BY <2>1 DEF Image, Tree, DataApart
  <2>5. \A i \in 1 .. n : a[i] \in S(l, h) <=> i \in l .. h
    BY <2>1 DEF Image, Tree, DataApart
  <2>6. \A b : IsIndex(F, k, b) => b \notin S(l, h)
    BY <2>1 DEF Image, Tree, IndexesApart
  <2> QED BY <2>3, <2>4, <2>5, <2>6
<1>3. /\ IsFiniteSet(R) /\ Cardinality(R) = k
      /\ \A b \in R : IsIndex(F, k, b) /\ b # Indirect(F) /\ b # Double(F)
  <2>1. \A i, j \in 0 .. k - 1 : F.content[Double(F)][i] = F.content[Double(F)][j] => i = j
    BY DEF Tree, IndexesApart, IndexOfRow
  <2>2. 0 \in Int /\ k - 1 \in Int /\ 0 <= (k - 1) + 1 /\ (k - 1) - 0 + 1 = k
    BY <1>1
  <2>3. IsFiniteSet(R) /\ Cardinality(R) = k
    BY <2>1, <2>2, ImageSize
  <2>4. \A b \in R : IsIndex(F, k, b) /\ b # Indirect(F) /\ b # Double(F)
    BY DEF Image, IsIndex, IndexOfRow, Tree, IndexesApart
  <2> QED BY <2>3, <2>4
<1>4. \A b : IsIndex(F, k, b) => b \in F.taken
  BY DEF Tree, IndexesApart
<1> HIDE DEF S, R, n
<1>5. CASE ~ Single(F)
  <2>1. ~ Twice(F) /\ n = F.blocks /\ F.blocks <= D /\ F.blocks <= L_ONE_INDIRECT
    BY <1>1, <1>5, IndexFacts, Sizes DEF SizesFit, Single
  <2>2. DirectOf(F) = S(1, n) /\ IndirectOf(F) = {} /\ DoubleOf(F) = {}
    BY <1>5, <2>1, DirectIs DEF S, n, IndirectOf, DoubleOf
  <2>3. FreedBlocks(F) = S(1, n)
    BY <2>2 DEF FreedBlocks
  <2>4. /\ Cardinality(S(1, n)) = n /\ S(1, n) \subseteq F.taken
        /\ \A r \in 1 .. n : a[r] \in S(1, n)
    BY <1>1, <1>2
  <2>5. Freed(F) = n
    BY <1>1, <2>2, <2>4, FS_EmptySet DEF Freed
  <2> QED BY <2>1, <2>3, <2>4, <2>5 DEF n
<1>6. CASE Single(F)
  <2> DEFINE h == IF Twice(F) THEN D + N ELSE n
             X == S(1, D)
             Y == S(D + 1, h)
             Z == S(D + N + 1, n)
  <2>1. /\ DirectOf(F) = X /\ IndirectOf(F) = {Indirect(F)} \cup Y
        /\ D <= h /\ h <= n
    BY <1>6, DirectIs, IndirectIs DEF S, n
  <2>2. h \in Nat /\ h \in 0 .. n /\ D \in 0 .. n
    BY <1>1, <2>1
  <2>3. /\ IsFiniteSet(X) /\ Cardinality(X) = D /\ X \subseteq F.taken
        /\ \A i \in 1 .. n : a[i] \in X <=> i \in 1 .. D
        /\ \A b : IsIndex(F, k, b) => b \notin X
    BY <1>1, <1>2, <2>2
  <2>4. /\ IsFiniteSet(Y) /\ Cardinality(Y) = h - D /\ Y \subseteq F.taken
        /\ \A i \in 1 .. n : a[i] \in Y <=> i \in D + 1 .. h
        /\ \A b : IsIndex(F, k, b) => b \notin Y
    <3>1. D + 1 \in 1 .. n + 1 /\ D + 1 <= h + 1 /\ h - (D + 1) + 1 = h - D
      BY <1>1, <2>1, <2>2
    <3> QED BY <1>2, <2>2, <3>1
  <2>5. IsIndex(F, k, Indirect(F))
    BY <1>6 DEF IsIndex
  <2> DEFINE P == {Indirect(F)} \cup Y
  <2>6. IsFiniteSet(P) /\ Cardinality(P) = h - D + 1
    BY <2>4, <2>5, OneMoreSize
  <2>7. ASSUME NEW x \in X PROVE x \notin P
    <3>1. PICK i \in 1 .. D : x = a[i]
      BY DEF S, Image
    <3>2. i \in 1 .. n /\ i \notin D + 1 .. h
      BY <1>1, <2>2
    <3> QED BY <2>3, <2>4, <2>5, <3>1, <3>2
  <2>8. X \cap P = {}
    BY <2>7
  <2>9. /\ IsFiniteSet(X \cup P) /\ Cardinality(X \cup P) = h + 1
    <3>1. Cardinality(X \cup P) = Cardinality(X) + Cardinality(P) /\ IsFiniteSet(X \cup P)
      BY <2>3, <2>6, <2>8, UnionSize
    <3> QED BY <1>1, <2>2, <2>3, <2>6, <3>1
  <2>10. X \cup P \subseteq F.taken
    BY <1>4, <2>3, <2>4, <2>5
  <2>11. \A i \in 1 .. h : a[i] \in X \cup P
    <3>1. \A i \in 1 .. h : i \in 1 .. n /\ (i \in 1 .. D \/ i \in D + 1 .. h)
      BY <1>1, <2>2
    <3> QED BY <2>3, <2>4, <3>1
  <2> HIDE DEF h, X, Y
  <2>12. CASE ~ Twice(F)
    <3>1. h = n /\ F.blocks = n + 1 /\ F.blocks <= L_ONE_INDIRECT
      BY <1>1, <1>6, <2>12, Sizes DEF SizesFit, Twice, h
    <3>2. DoubleOf(F) = {}
      BY <3>1 DEF DoubleOf
    <3>3. FreedBlocks(F) = X \cup P
      BY <2>1, <3>2 DEF FreedBlocks
    <3>4. Freed(F) = n + 1
      BY <1>1, <2>1, <2>3, <2>6, <3>1, <3>2, FS_EmptySet DEF Freed
    <3> HIDE DEF P
    <3> QED BY <2>9, <2>10, <2>11, <3>1, <3>3, <3>4 DEF n
  <2>13. CASE Twice(F)
    <3> DEFINE Q == R \cup Z
               W == {Double(F)} \cup Q
    <3>1. h = D + N /\ F.blocks = n + 2 + k /\ D + N <= n
      BY <1>1, <2>13 DEF SizesFit, h
    <3>2. DoubleOf(F) = W
      BY <2>13, DoubleIs DEF S, R, n
    <3>3. /\ IsFiniteSet(Z) /\ Cardinality(Z) = n - (D + N) /\ Z \subseteq F.taken
          /\ \A i \in 1 .. n : a[i] \in Z <=> i \in D + N + 1 .. n
          /\ \A b : IsIndex(F, k, b) => b \notin Z
      <4>1. /\ D + N + 1 \in 1 .. n + 1 /\ D + N + 1 <= n + 1 /\ n \in 0 .. n
            /\ n - (D + N + 1) + 1 = n - (D + N)
        BY <1>1, <3>1
      <4> QED BY <1>2, <4>1
    <3>4. IsFiniteSet(Q) /\ Cardinality(Q) = k + (n - (D + N))
      <4>1. R \cap Z = {}
        BY <1>3, <3>3
      <4> QED BY <1>3, <3>3, <4>1, UnionSize
    <3>5. IsIndex(F, k, Double(F)) /\ Double(F) # Indirect(F)
      BY <2>13 DEF IsIndex, Tree, IndexesApart
    <3>6. IsFiniteSet(W) /\ Cardinality(W) = k + (n - (D + N)) + 1
      <4>1. Double(F) \notin Q
        BY <1>3, <3>3, <3>5
      <4> QED BY <3>4, <4>1, OneMoreSize
    <3>7. Z \cap (X \cup P) = {}
      <4> SUFFICES ASSUME NEW x \in Z PROVE x \notin X \cup P
        OBVIOUS
      <4>1. PICK i \in D + N + 1 .. n : x = a[i]
        BY DEF S, Image
      <4>2. i \in 1 .. n /\ i \notin 1 .. D /\ i \notin D + 1 .. h
        BY <1>1, <3>1
      <4> QED BY <2>3, <2>4, <2>5, <3>3, <4>1, <4>2
    <3>8. ASSUME NEW b, b \in R \/ b = Double(F) PROVE b \notin X \cup P
      BY <1>3, <2>3, <2>4, <3>5, <3>8
    <3>9. W \cap (X \cup P) = {}
      BY <3>7, <3>8
    <3>10. W \subseteq F.taken
      BY <1>3, <1>4, <3>3, <3>5
    <3>11. \A i \in 1 .. n : i \in 1 .. h \/ a[i] \in W
      <4>1. \A i \in 1 .. n : i \in 1 .. h \/ i \in D + N + 1 .. n
        BY <1>1, <3>1
      <4> QED BY <3>3, <4>1
    <3>12. FreedBlocks(F) = (X \cup P) \cup W
      BY <2>1, <3>2 DEF FreedBlocks
    <3>13. Freed(F) = D + (h - D + 1) + (k + (n - (D + N)) + 1)
      BY <2>1, <2>3, <2>6, <3>2, <3>6 DEF Freed
    <3> HIDE DEF W, P
    <3>14. Cardinality(FreedBlocks(F)) = (h + 1) + (k + (n - (D + N)) + 1)
      <4>1. Cardinality((X \cup P) \cup W) = Cardinality(X \cup P) + Cardinality(W)
        BY <2>9, <3>6, <3>9, UnionSize
      <4> QED BY <2>9, <3>6, <3>12, <4>1
    <3>15. Freed(F) = F.blocks /\ Cardinality(FreedBlocks(F)) = F.blocks
      BY <1>1, <3>1, <3>13, <3>14
    <3>16. \A i \in 1 .. n : a[i] \in FreedBlocks(F)
      BY <2>11, <3>11, <3>12
    <3>17. FreedBlocks(F) \subseteq F.taken
      BY <2>10, <3>10, <3>12
    <3> QED BY <3>15, <3>16, <3>17 DEF n
  <2> QED BY <2>12, <2>13
<1> QED BY <1>5, <1>6
-----------------------------------------------------------------------------
(* The invariant, and the two properties as theorems.                      *)
LEMMA EmptyTree ==
  ASSUME NEW F, FileType(F), F.blocks = 0
  PROVE  Tree(F, <<>>, 0) /\ NoRowEmpty(Len(<<>>), 0)
<1>1. ~ Single(F) /\ ~ Twice(F)
  BY Sizes DEF Single, Twice
<1>2. <<>> \in Seq(Blocks) /\ Len(<<>>) = 0 /\ \A i \in 1 .. 0 : FALSE
  OBVIOUS
<1>3. SizesFit(F, 0, 0) /\ NoRowEmpty(0, 0)
  BY <1>1 DEF SizesFit, NoRowEmpty
<1>4. \A b : ~ IsIndex(F, 0, b)
  BY <1>1 DEF IsIndex
<1>5. IndexesApart(F, <<>>, 0) /\ DataApart(F, <<>>) /\ DataFound(F, <<>>)
  BY <1>1, <1>2, <1>4 DEF IndexesApart, DataApart, DataFound
<1>6. RowsFit(F, 0, 0)
  <2>1. 0 \in 0 .. N /\ Beyond(0) \in Int /\ Beyond(0) < 0
    BY Sizes DEF Beyond
  <2>2. \A q \in Nat : ~ q < Beyond(0) /\ ~ Row(q) < 0
    <3>1. \A q \in Nat : Row(q) \in Nat /\ ~ q < Beyond(0)
      BY <2>1, RowNat
    <3>2. \A y \in Nat : ~ y < 0
      OBVIOUS
    <3> QED BY <3>1, <3>2
  <2> QED BY <1>1, <2>1, <2>2 DEF RowsFit
<1> QED BY <1>2, <1>3, <1>5, <1>6 DEF Tree

LEMMA InitBlocksInv == BlocksInit => BlocksInv
<1> SUFFICES ASSUME BlocksInit PROVE BlocksInv
  OBVIOUS
<1>1. Zeroes \in [Entries -> 0 .. LastBlock] /\ D \in Nat /\ 0 \in 0 .. N
  BY Sizes DEF Zeroes
<1>2. FileType(Now) /\ Now.blocks = 0
  BY <1>1, Sizes DEF BlocksInit, EmptyInode, Now, File, FileType
<1>3. Tree(Now, <<>>, 0) /\ NoRowEmpty(Len(<<>>), 0)
  BY <1>2, EmptyTree
<1> QED BY <1>1, <1>3 DEF BlocksInit, BlocksInv

LEMMA BlocksInvGives == BlocksInv => BlocksInOrder /\ FreesItsOwn
<1> SUFFICES ASSUME BlocksInv PROVE BlocksInOrder /\ FreesItsOwn
  OBVIOUS
<1>1. PICK k \in 0 .. N : Tree(Now, added, k)
  BY DEF BlocksInv
<1>2. Now.blocks = inode.blocks /\ Now.taken = taken
  BY DEF Now, File
<1>3. BlocksInOrder
  BY <1>1, TreeInOrder DEF BlocksInOrder
<1>4. FreesItsOwn
  BY <1>1, <1>2, TreeFrees DEF FreesItsOwn
<1> QED BY <1>3, <1>4

LEMMA AddDataBlockKeeps ==
  ASSUME BlocksInv, NEW room \in 0 .. 3, AddDataBlock(room)
  PROVE  BlocksInv'
<1> DEFINE F   == File(room)
           blk == NextFree(F)
           T   == Take(F, blk)
           A   == Added(T, blk)
<1>1. PICK k \in 0 .. N : Tree(Now, added, k) /\ NoRowEmpty(Len(added), k)
  BY DEF BlocksInv
<1>2. Tree(F, added, k)
  <2>1. /\ F.room \in Int /\ F.blocks = Now.blocks /\ F.block = Now.block
        /\ F.content = Now.content /\ F.taken = Now.taken
    BY DEF Now, File
  <2> HIDE DEF F
  <2> QED BY <1>1, <2>1, SameFile
<1>3. /\ blk # 0
      /\ inode' = [blocks |-> A.file.blocks, block |-> A.file.block]
      /\ content' = A.file.content /\ taken' = A.file.taken
      /\ added' = IF A.ok THEN Append(added, blk) ELSE added
  BY DEF AddDataBlock
<1> HIDE DEF A, T, F
<1>4. blk \in Blocks \ F.taken
  BY <1>2, <1>3, NextFreeFits DEF Tree
<1>5. Tree(T, added, k) /\ Spare(T, added, k, blk)
  BY <1>2, <1>4, TakeKeeps DEF T
<1> HIDE DEF blk
<1>6. PICK m \in 0 .. N : Tree(A.file, added', m) /\ NoRowEmpty(Len(added'), m)
  BY <1>1, <1>3, <1>4, <1>5, AddedKeeps DEF A
<1>7. /\ Now'.room \in Int /\ Now'.blocks = A.file.blocks /\ Now'.block = A.file.block
      /\ Now'.content = A.file.content /\ Now'.taken = A.file.taken
  BY <1>3 DEF Now, File
<1>8. Tree(Now', added', m)
  <2> DEFINE G == Now'
             f == A.file
             b == added'
  <2>1. /\ Tree(f, b, m) /\ G.room \in Int /\ G.blocks = f.blocks /\ G.block = f.block
        /\ G.content = f.content /\ G.taken = f.taken
    BY <1>6, <1>7
  <2> HIDE DEF G, f, b
  <2>2. Tree(G, b, m)
    BY <2>1, SameFile
  <2> QED BY <2>2 DEF G, b
<1> QED BY <1>6, <1>8 DEF BlocksInv

LEMMA FreeInodeDataKeeps ==
  ASSUME BlocksInv, FreeInodeData
  PROVE  BlocksInv'
<1> DEFINE freed == FreedBlocks(Now)
<1>1. PICK k \in 0 .. N : Tree(Now, added, k)
  BY DEF BlocksInv
<1>2. FileType(Now)
  BY <1>1 DEF Tree
<1>3. FreesItsOwn
  BY BlocksInvGives
<1>4. Freed(Now) = inode.blocks /\ freed \subseteq taken /\ taken \subseteq Blocks
  BY <1>2, <1>3 DEF FreesItsOwn, FileType, Now, File
<1>5. 0 \notin freed
  BY <1>4, Sizes
<1>6. /\ inode' = EmptyInode /\ added' = <<>>
      /\ taken' = taken \ freed
      /\ content' = [b \in Blocks |-> IF b \in freed THEN Zeroes ELSE content[b]]
  BY <1>4, <1>5 DEF FreeInodeData
<1> HIDE DEF freed
<1>7. Zeroes \in [Entries -> 0 .. LastBlock]
  BY Sizes DEF Zeroes
<1>8. content \in [Blocks -> [Entries -> 0 .. LastBlock]]
  BY <1>2 DEF FileType, Now, File
<1>9. content' \in [Blocks -> [Entries -> 0 .. LastBlock]]
  BY <1>6, <1>7, <1>8
<1>10. FileType(Now') /\ Now'.blocks = 0
  BY <1>4, <1>6, <1>9, Sizes DEF FileType, Now, File, EmptyInode
<1>11. Tree(Now', <<>>, 0) /\ NoRowEmpty(Len(<<>>), 0)
  BY <1>10, EmptyTree
<1>12. 0 \in 0 .. N
  BY Sizes
<1> QED BY <1>6, <1>11, <1>12 DEF BlocksInv

(* The index blocks in use are apart from each other and from the data, and*)
(* the data blocks are where the shape computed from i_blocks says, whether*)
(* add_data_block_inode succeeds, fails for lack of a block, or fails after*)
(* it has put an index block in the inode.                                 *)
THEOREM BlocksInvHolds == BlocksSpec => []BlocksInv
<1>1. BlocksInv /\ [BlocksNext]_blockVars => BlocksInv'
  <2> SUFFICES ASSUME BlocksInv, [BlocksNext]_blockVars PROVE BlocksInv'
    OBVIOUS
  <2>1. ASSUME NEW room \in 0 .. 3, AddDataBlock(room) PROVE BlocksInv'
    BY <2>1, AddDataBlockKeeps
  <2>2. CASE FreeInodeData
    BY <2>2, FreeInodeDataKeeps
  <2>3. CASE UNCHANGED blockVars
    <3>1. Now' = Now /\ added' = added
      BY <2>3 DEF blockVars, Now, File
    <3> QED BY <3>1 DEF BlocksInv
  <2> QED BY <2>1, <2>2, <2>3 DEF BlocksNext
<1> QED BY InitBlocksInv, <1>1, PTL DEF BlocksSpec

(* get_inode_relative_block finds at each position the block that was added*)
(* there, whatever D, N and the disk are.                                  *)
THEOREM BlocksInOrderHolds == BlocksSpec => []BlocksInOrder
<1>1. BlocksInv => BlocksInOrder
  BY BlocksInvGives
<1> QED BY BlocksInvHolds, <1>1, PTL

(* free_inode_data counts as many blocks as i_blocks, frees none twice and *)
(* none that is not the file's, and all the data blocks.                   *)
THEOREM FreesItsOwnHolds == BlocksSpec => []FreesItsOwn
<1>1. BlocksInv => FreesItsOwn
  BY BlocksInvGives
<1> QED BY BlocksInvHolds, <1>1, PTL
=============================================================================
