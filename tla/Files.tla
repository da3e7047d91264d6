-------------------------------- MODULE Files --------------------------------
(***************************************************************************)
(* Open files: the descriptors of the processes (process/fs_bridge.c), the *)
(* calls on files and their names (fs/fs_api.c) and the list of the inodes *)
(* in memory (fs/inode.c, fs/inode_util.c).                                *)
(*                                                                         *)
(* A descriptor refers to an open file, which processes share after dup    *)
(* and fork; an open file points to an inode in memory, which all those    *)
(* who open it share.  Each has a count of its users.  Look-ups (stat, the *)
(* calls on names) add to that of the inode and never give it back; that   *)
(* only keeps an inode in memory that no open file points to: left out.    *)
(*                                                                         *)
(* System calls are atomic, as the kernel does not switch processes in     *)
(* them.  One directory of regular files; the data of files is left out.   *)
(***************************************************************************)
EXTENDS FiniteSets, Integers

CONSTANTS
  Procs,
  Names,
  Inodes,       (* the numbers of the inodes of the disk                   *)
  Flips,        (* bound: the open files there can be                      *)
  MaxFd,        (* the descriptors are below it, MAX_FS                    *)
  MaxCount,     (* bound: the usage of an open file, as processes exit     *)
  MaxLinks,     (* bound: i_links_count, which failed links raise          *)
  NoInode, NoFlip

ASSUME FilesAssumption ==
  /\ IsFiniteSet(Procs) /\ IsFiniteSet(Names) /\ IsFiniteSet(Flips)
  /\ NoInode \notin Inodes /\ NoFlip \notin Flips
  /\ MaxFd \in Nat \ {0} /\ MaxCount \in Nat /\ MaxLinks \in Nat

VARIABLES
  live,         (* the processes there are                                 *)
  bitmap,       (* fd_bitmap of each                                       *)
  fds,          (* open_files_table of each, by descriptor                 *)
  unnumbered,   (* and its elements with the descriptor -1                 *)
  files,        (* the open files                                          *)
  usage,        (* inode_usage, in the list of inodes, by open files       *)
  links,        (* i_links_count; 0: the inode is free                     *)
  dir,          (* the entries of the directory                            *)
  halt

tables == <<bitmap, fds, unnumbered>>
disk   == <<links, dir>>
fsVars == <<live, tables, files, usage, disk, halt>>

Fds == 0 .. MaxFd - 1

(* stale: the inode in memory it points to has been freed.                 *)
NoFile == [usage |-> 0, ino |-> NoInode, stale |-> FALSE]
OpenFiles == [usage : Int, ino : Inodes \cup {NoInode}, stale : BOOLEAN]

FilesTypeOK ==
  /\ live \in SUBSET Procs
  /\ fds \in [Procs -> [Fds -> Flips \cup {NoFlip}]]
  /\ bitmap = [p \in Procs |-> {d \in Fds : fds[p][d] # NoFlip}]
  /\ unnumbered \in [Procs -> SUBSET Flips]
  /\ files \in [Flips -> OpenFiles]
  /\ usage \in [Inodes -> Int]
  /\ links \in [Inodes -> Int]
  /\ dir \in [Names -> Inodes \cup {NoInode}]
  /\ halt \in {"no", "use_after_free"}

FilesInit ==
  /\ live = Procs
  /\ bitmap = [p \in Procs |-> {}]
  /\ fds = [p \in Procs |-> [d \in Fds |-> NoFlip]]
  /\ unnumbered = [p \in Procs |-> {}]
  /\ files = [f \in Flips |-> NoFile]
  /\ usage = [n \in Inodes |-> 0]
  /\ links = [n \in Inodes |-> 0]
  /\ dir = [a \in Names |-> NoInode]
  /\ halt = "no"

Running(p) == halt = "no" /\ p \in live

UseAfterFree ==
  /\ halt' = "use_after_free"
  /\ UNCHANGED <<live, tables, files, usage, disk>>

-----------------------------------------------------------------------------
(* The descriptors of a process.                                           *)
OpenBy(p) == ({fds[p][d] : d \in Fds} \ {NoFlip}) \cup unnumbered[p]

(* Those of the process p for the open file f; -1 is one.                  *)
DescsOf(p, f) ==
  {d \in -1 .. MaxFd - 1 : IF d = -1 THEN f \in unnumbered[p] ELSE fds[p][d] = f}

Holders(f) ==
  {h \in Procs \X (-1 .. MaxFd - 1) : h[2] \in DescsOf(h[1], f)}

(* alloc_bit_fdmap: the first descriptor that is free, or else -1.         *)
Place(p, f) ==
  \/ \E d \in Fds \ bitmap[p] :
       /\ 0 .. d - 1 \subseteq bitmap[p]
       /\ fds' = [fds EXCEPT ![p][d] = f]
       /\ bitmap' = [bitmap EXCEPT ![p] = @ \cup {d}]
       /\ UNCHANGED unnumbered
  \/ /\ Fds = bitmap[p]
     /\ f \notin unnumbered[p]           (* bound: once for an open file  *)
     /\ unnumbered' = [unnumbered EXCEPT ![p] = @ \cup {f}]
     /\ UNCHANGED <<bitmap, fds>>

(* add_new_element_open_files, for the inode n.                            *)
AddFile(p, n) ==
  \E f \in Flips :
    /\ files[f] = NoFile
    /\ files' = [files EXCEPT ![f] = [usage |-> 1, ino |-> n, stale |-> FALSE]]
    /\ Place(p, f)

-----------------------------------------------------------------------------
(* The names and the inodes, as functions of F, the part of the state that *)
(* calls on names change: rename makes several of them.                    *)
Current == [dir |-> dir, links |-> links, usage |-> usage, files |-> files]

(* check_if_inode_is_being_used looks at the files of the caller, for the  *)
(* number of the inode.  An error: it is not called.                       *)
NotChecked(p, n) == FALSE
UsedBy(p, n) == \E f \in OpenBy(p) : files[f].ino = n

(* free_inode.  With the last link goes the inode in memory, whoever uses  *)
(* it.  An error: it goes with any link.                                   *)
AnyLink(F, n) == TRUE
LastLink(F, n) == F.links[n] = 1

FreeInode(F, n) ==
  IF ~ LastLink(F, n) THEN [F EXCEPT !.links[n] = @ - 1]
  ELSE [F EXCEPT !.links[n] = 0, !.usage[n] = 0,
          !.files = [f \in Flips |->
             [F.files[f] EXCEPT !.stale = @ \/ F.files[f].ino = n]]]

UnlinkIn(p, F, a) ==
  LET n == F.dir[a] IN
  IF n = NoInode THEN F
  ELSE IF UsedBy(p, n) THEN F
  ELSE FreeInode([F EXCEPT !.dir[a] = NoInode], n)

(* room: there is for one more entry of the directory.  If not, the count  *)
(* of links stays as it has become.                                        *)
LinkIn(F, a, b, room) ==
  IF F.dir[b] # NoInode THEN F
  ELSE [F EXCEPT !.links[F.dir[a]] = @ + 1,
                 !.dir[b] = IF room THEN F.dir[a] ELSE NoInode]

(* The new name is unlinked first, then the file gets it as a second name, *)
(* and then the old one is unlinked.  Whether the two names are the same   *)
(* is asked after the first of these.  An error: the old name goes before  *)
(* the file has the new one.                                               *)
RoomMade(p, F, a, b) ==
  IF F.dir[b] = NoInode THEN F ELSE UnlinkIn(p, F, b)

UnlinkFirst(p, F, a, b, room) ==
  LET G == UnlinkIn(p, F, a) IN
  IF room /\ G.dir[b] = NoInode THEN [G EXCEPT !.dir[b] = F.dir[a]] ELSE G
LinkFirst(p, F, a, b, room) ==
  LET G == LinkIn(F, a, b, room) IN
  IF F.dir[b] = NoInode /\ room THEN UnlinkIn(p, G, a) ELSE G

RenameIn(p, F, a, b, room) ==
  LET G == RoomMade(p, F, a, b) IN
  IF a = b THEN G ELSE LinkFirst(p, G, a, b, room)

Becomes(F) ==
  /\ \A n \in Inodes : F.links[n] <= MaxLinks
  /\ dir' = F.dir /\ links' = F.links
  /\ usage' = F.usage /\ files' = F.files

-----------------------------------------------------------------------------
(* The calls on names.                                                     *)

(* open of a file there is, with or without O_CREAT.                       *)
OpenOld(p, a) ==
  /\ Running(p) /\ dir[a] # NoInode
  /\ usage' = [usage EXCEPT ![dir[a]] = @ + 1]
  /\ AddFile(p, dir[a])
  /\ UNCHANGED <<live, disk, halt>>

(* open with O_CREAT of a file there is not; nothing is left of it if the  *)
(* directory has no room.                                                  *)
OpenNew(p, a) ==
  /\ Running(p) /\ dir[a] = NoInode
  /\ \E n \in Inodes :
       /\ links[n] = 0
       /\ links' = [links EXCEPT ![n] = 1]
       /\ usage' = [usage EXCEPT ![n] = 1]
       /\ dir' = [dir EXCEPT ![a] = n]
       /\ AddFile(p, n)
  /\ UNCHANGED <<live, halt>>

Unlink(p, a) ==
  /\ Running(p) /\ dir[a] # NoInode
  /\ Becomes(UnlinkIn(p, Current, a))
  /\ UNCHANGED <<live, tables, halt>>

Link(p, a, b) ==
  /\ Running(p) /\ dir[a] # NoInode
  /\ \E room \in BOOLEAN : Becomes(LinkIn(Current, a, b, room))
  /\ UNCHANGED <<live, tables, halt>>

Rename(p, a, b) ==
  /\ Running(p) /\ dir[a] # NoInode
  /\ \E room \in BOOLEAN : Becomes(RenameIn(p, Current, a, b, room))
  /\ UNCHANGED <<live, tables, halt>>

-----------------------------------------------------------------------------
(* The calls on descriptors.                                               *)

(* remove_fd_list.  It fails, after it has counted the file down, if the   *)
(* inode is not in the list: then the descriptor stays, and the next close *)
(* finds a count that is not 0 and removes it.                             *)
Fails(f) == files[f].usage = 1 /\ files[f].stale

FilesAfter(f) ==
  [files EXCEPT ![f] =
     IF files[f].usage = 1 /\ ~ files[f].stale THEN NoFile
     ELSE [files[f] EXCEPT !.usage = @ - 1]]

(* An error: the inode is looked up by its number.                         *)
PutByNumber(f) ==
  IF files[f].usage = 1 THEN [usage EXCEPT ![files[f].ino] = @ - 1] ELSE usage

UsageAfter(f) ==
  IF files[f].usage = 1 /\ ~ files[f].stale
  THEN [usage EXCEPT ![files[f].ino] = @ - 1] ELSE usage

Close(p, d) ==
  LET f == fds[p][d] IN
  /\ Running(p) /\ f # NoFlip
  /\ files' = FilesAfter(f) /\ usage' = UsageAfter(f)
  /\ IF Fails(f) THEN UNCHANGED <<fds, bitmap>>
     ELSE /\ fds' = [fds EXCEPT ![p][d] = NoFlip]
          /\ bitmap' = [bitmap EXCEPT ![p] = @ \ {d}]
  /\ UNCHANGED <<live, unnumbered, disk, halt>>

(* read and write look at the inode; so does a close that frees the file,  *)
(* when the memory of its inode has become another inode.                  *)
Touch(p, d) ==
  /\ Running(p) /\ fds[p][d] # NoFlip
  /\ files[fds[p][d]].stale
  /\ UseAfterFree

(* dup_open_file counts one user more.  An error: fork does not.           *)
NotCounted(F, f, n) == F
Counted(F, f, n) == [F EXCEPT ![f].usage = @ + n]

Dup(p, d) ==
  LET f == fds[p][d] IN
  /\ Running(p) /\ f # NoFlip
  /\ files[f].usage < MaxCount
  /\ files' = Counted(files, f, 1)
  /\ Place(p, f)
  /\ UNCHANGED <<live, usage, disk, halt>>

(* dup2 closes the new descriptor before it counts the file up: that frees *)
(* the file if the two are the only descriptor of it.                      *)
Dup2(p, d, e) ==
  LET f == fds[p][d]
      g == fds[p][e]
  IN /\ Running(p) /\ f # NoFlip
     /\ \/ /\ g = NoFlip
           /\ files[f].usage < MaxCount
           /\ files' = Counted(files, f, 1)
           /\ fds' = [fds EXCEPT ![p][e] = f]
           /\ bitmap' = [bitmap EXCEPT ![p] = @ \cup {e}]
           /\ UNCHANGED <<live, unnumbered, usage, disk, halt>>
        \/ /\ g # NoFlip /\ Fails(g)
           /\ files' = FilesAfter(g)
           /\ UNCHANGED <<live, tables, usage, disk, halt>>
        \/ /\ g # NoFlip /\ ~ Fails(g)
           /\ FilesAfter(g)[f] = NoFile
           /\ UseAfterFree
        \/ /\ g # NoFlip /\ ~ Fails(g)
           /\ FilesAfter(g)[f] # NoFile
           /\ files' = Counted(FilesAfter(g), f, 1)
           /\ usage' = UsageAfter(g)
           /\ fds' = [fds EXCEPT ![p][e] = f]
           /\ UNCHANGED <<live, bitmap, unnumbered, disk, halt>>

-----------------------------------------------------------------------------
(* fork: copy_proc_fds.                                                    *)
Fork(p, c) ==
  /\ Running(p) /\ c \notin live
  /\ live' = live \cup {c}
  /\ fds' = [fds EXCEPT ![c] = fds[p]]
  /\ bitmap' = [bitmap EXCEPT ![c] = bitmap[p]]
  /\ unnumbered' = [unnumbered EXCEPT ![c] = unnumbered[p]]
  /\ files' = [f \in Flips |-> Counted(files, f, Cardinality(DescsOf(p, f)))[f]]
  /\ \A f \in Flips : files'[f].usage <= MaxCount
  /\ UNCHANGED <<usage, disk, halt>>

(* start makes a process without descriptors.                              *)
Start(c) ==
  /\ halt = "no" /\ c \notin live
  /\ live' = live \cup {c}
  /\ UNCHANGED <<tables, files, usage, disk, halt>>

(* free_fs_proc returns before it closes anything: the open files of a     *)
(* process that ends stay as they are.                                     *)
Exit(p) ==
  /\ Running(p)
  /\ live' = live \ {p}
  /\ fds' = [fds EXCEPT ![p] = [d \in Fds |-> NoFlip]]
  /\ bitmap' = [bitmap EXCEPT ![p] = {}]
  /\ unnumbered' = [unnumbered EXCEPT ![p] = {}]
  /\ UNCHANGED <<files, usage, disk, halt>>

FilesNext ==
  \/ \E p \in Procs : Start(p) \/ Exit(p)
  \/ \E p, c \in Procs : Fork(p, c)
  \/ \E p \in Procs, a \in Names : OpenOld(p, a) \/ OpenNew(p, a) \/ Unlink(p, a)
  \/ \E p \in Procs, a, b \in Names : Link(p, a, b) \/ Rename(p, a, b)
  \/ \E p \in Procs, d \in Fds : Close(p, d) \/ Touch(p, d) \/ Dup(p, d)
  \/ \E p \in Procs, d, e \in Fds : Dup2(p, d, e)

FilesSpec == FilesInit /\ [][FilesNext]_fsVars

-----------------------------------------------------------------------------
(* Properties.                                                             *)

(* No order of dups, forks and closes by several processes frees an open   *)
(* file that a descriptor still refers to: its count is never below the    *)
(* number of its descriptors, unless its inode was taken from under it.    *)
DescriptorsCounted ==
  /\ FilesTypeOK
  /\ \A f \in Flips :
       Holders(f) # {} =>
         /\ files[f] # NoFile
         /\ files[f].stale \/ files[f].usage >= Cardinality(Holders(f))

(* The inode of an open file stays in memory and on the disk until the     *)
(* last open file on it is closed, whatever look-ups, links and renames    *)
(* leave in its count: unless a process unlinks it that does not have it   *)
(* open (stale).                                                           *)
InodesOutliveTheirFiles ==
  \A n \in Inodes :
     LET on == {f \in Flips : files[f].ino = n /\ ~ files[f].stale} IN
     on # {} => links[n] > 0 /\ usage[n] >= Cardinality(on)

(* "File is being used, cannot delete" (fs_api.c:333): a file that every   *)
(* process has open is never deleted.                                      *)
KeptForItsUsers ==
  [][\A f \in Flips : (\A p \in live : f \in OpenBy(p)) /\ ~ files[f].stale
        => ~ files'[f].stale]_fsVars

(* Every entry of the directory has an inode that is not free, with at     *)
(* least as many links as it has names, after any order of links, renames  *)
(* and unlinks that may fail for want of room.                             *)
NamesAreFiles ==
  \A a \in Names : dir[a] # NoInode =>
     links[dir[a]] >= Cardinality({b \in Names : dir[b] = dir[a]})

(* Whenever it is called, rename to another name does not lose the file,   *)
(* even when it fails.  To its own name it does.                           *)
RenameKeepsTheFile ==
  \A p \in live, a, b \in Names, room \in BOOLEAN :
    a # b /\ dir[a] # NoInode =>
      \E c \in Names : RenameIn(p, Current, a, b, room).dir[c] = dir[a]
=============================================================================
