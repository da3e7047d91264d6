------------------------------- MODULE Memory --------------------------------
(***************************************************************************)
(* The physical frames (memory/frame_dist.c), the frames processes own     *)
(* (process/process_memory.c) and the pages they share by name             *)
(* (process/memory_api.c).                                                 *)
(*                                                                         *)
(* A process has a table of the pages it shares, from a name to an element *)
(* of its list; both are one sequence here.  The name in the table is a    *)
(* pointer.  For a page the process created, or inherited by fork, it      *)
(* points to memory of the kernel; for a page it acquired, to the argument *)
(* of the system call: the program may change that buffer, and the look-up *)
(* reads it in the address space of the process that runs at that moment.  *)
(*                                                                         *)
(* System calls are atomic here, as they are in the kernel.  Frames are    *)
(* counted: their addresses are left out, but for the address 0 that a     *)
(* page gets when there are none left.                                     *)
(***************************************************************************)
EXTENDS SequencesExt, FiniteSetsExt, Integers

CONSTANTS
  Procs,
  Names,              (* the keys of shared pages                          *)
  TotalFrames,
  FramesPerProcess,   (* what a process gets when it starts                *)
  MaxOwn,             (* bound: the frames a process may grow to           *)
  MaxShared,          (* bound: the elements of the list of a process      *)
  MaxUsage            (* bound: the usage of a page, which leaks           *)

ASSUME MemoryAssumption ==
  /\ IsFiniteSet(Procs) /\ IsFiniteSet(Names)
  /\ TotalFrames \in Nat \ {0}
  /\ FramesPerProcess \in Nat \ {0} /\ MaxOwn \in Nat
  /\ MaxShared \in 1 .. 2     (* what Finds says of two of one name holds *)
  /\ MaxUsage \in Nat

VARIABLES
  free,           (* how many frames the list from mem_ptr has             *)
  mem_usage,
  status,         (* of each process; "broken" when its creation failed    *)
  own,            (* how many private pages and page tables it has         *)
  table,          (* whether it has a level 0 table for shared pages       *)
  nslots,         (* usage of that table: the entries ever used            *)
  holes,          (* released_pages_list                                   *)
  shared,         (* shared_pages and proc_shared_hash_table               *)
  pages,          (* shared_memory_hash_table                              *)
  halt

frameVars == <<free, mem_usage>>
procVars  == <<status, own, table, nslots, holes, shared>>
memVars   == <<frameVars, procVars, pages, halt>>

Slots  == 1 .. MaxShared

(* backed: the page has a frame, and not the address 0.                    *)
NoPage == [exists |-> FALSE, backed |-> FALSE, usage |-> 0]

(* linked: it has an entry in both tables; user: the name is in the memory *)
(* of the program; intact: and still is what it was.                       *)
SharedElements ==
  [name : Names, slot : {0} \cup Slots, linked : BOOLEAN, user : BOOLEAN, intact : BOOLEAN]

MemTypeOK ==
  /\ free \in 1 .. TotalFrames
  /\ mem_usage \in 0 .. TotalFrames
  /\ status \in [Procs -> {"none", "alive", "broken"}]
  /\ own \in [Procs -> 0 .. TotalFrames]
  /\ table \in [Procs -> BOOLEAN]
  /\ nslots \in [Procs -> 0 .. MaxShared]
  /\ holes \in [Procs -> Seq(Slots)]
  /\ shared \in [Procs -> Seq(SharedElements)]
  /\ \A p \in Procs : Len(shared[p]) <= MaxShared
  /\ pages \in [Names -> [exists : BOOLEAN, backed : BOOLEAN, usage : Nat]]
  /\ halt \in {"no", "use_after_free"}

MemInit ==
  /\ free = TotalFrames /\ mem_usage = 0
  /\ status = [p \in Procs |-> "none"]
  /\ own = [p \in Procs |-> 0]
  /\ table = [p \in Procs |-> FALSE]
  /\ nslots = [p \in Procs |-> 0]
  /\ holes = [p \in Procs |-> <<>>]
  /\ shared = [p \in Procs |-> <<>>]
  /\ pages = [k \in Names |-> NoPage]
  /\ halt = "no"

Running(p) == halt = "no" /\ status[p] = "alive"

-----------------------------------------------------------------------------
(* get_frame and release_frame, n times.  The last frame is never given    *)
(* out.                                                                    *)
GetFrames(n) == Min({n, free - 1})

One(b) == IF b THEN 1 ELSE 0

(* taken frames are given, and gone are released.                          *)
Frees(taken, gone) ==
  /\ free' = free - taken + gone
  /\ mem_usage' = mem_usage + taken - gone

-----------------------------------------------------------------------------
(* start: the memory of a new process.  When the frames do not suffice the *)
(* process keeps what it got, and is never run nor freed.                  *)
Start(p) ==
  /\ halt = "no" /\ status[p] = "none"
  /\ LET got == GetFrames(FramesPerProcess) IN
     /\ own' = [own EXCEPT ![p] = got]
     /\ status' = [status EXCEPT ![p] = IF got = FramesPerProcess THEN "alive" ELSE "broken"]
     /\ Frees(got, 0)
  /\ UNCHANGED <<table, nslots, holes, shared, pages, halt>>

(* sbrk, or a stack that grows, by one page.                               *)
Grow(p) ==
  /\ Running(p) /\ own[p] < MaxOwn
  /\ own' = [own EXCEPT ![p] = @ + GetFrames(1)]
  /\ Frees(GetFrames(1), 0)
  /\ UNCHANGED <<status, table, nslots, holes, shared, pages, halt>>

-----------------------------------------------------------------------------
(* get_shared_page_proc: the places in the list of the elements that the   *)
(* table may give for a name; readable are those whose name in the memory  *)
(* of a program still reads the same.  Which of two is found depends on    *)
(* the entries that the hash table has deleted.                            *)
Intact(p) == {i \in DOMAIN shared[p] : shared[p][i].intact}

Finds(p, k, readable) ==
  {i \in DOMAIN shared[p] : /\ shared[p][i].name = k /\ shared[p][i].linked
                            /\ shared[p][i].user => i \in readable}

(* link_shared_page_to_process for page k, at the end of the list: in a    *)
(* hole, or at the end of the table of shared pages, which may have to be  *)
(* created.  When it cannot be, the element stays in the list.             *)
(* Two errors: a hole is left in the list; a page is not counted.          *)
LeaveHole(list) == list
FillHole(list) == Tail(list)

NotCounted(page) == page
Counted(page) == [page EXCEPT !.usage = @ + 1]

Link(p, k, page, user, taken) ==
  LET newTable == holes[p] = <<>> /\ ~ table[p]
      linked   == newTable => GetFrames(taken + 1) = taken + 1
      slot     == CASE ~ linked -> 0
                    [] linked /\ holes[p] # <<>> -> Head(holes[p])
                    [] linked /\ holes[p] = <<>> -> nslots[p] + 1
  IN /\ shared' = [shared EXCEPT ![p] = Append(@,
            [name |-> k, slot |-> slot, linked |-> linked, user |-> user, intact |-> user])]
     /\ table' = [table EXCEPT ![p] = @ \/ linked]
     /\ holes' = IF holes[p] # <<>> THEN [holes EXCEPT ![p] = FillHole(@)] ELSE holes
     /\ nslots' = IF linked /\ holes[p] = <<>> THEN [nslots EXCEPT ![p] = @ + 1] ELSE nslots
     /\ pages' = [pages EXCEPT ![k] = IF linked THEN Counted(page) ELSE page]
     /\ Frees(taken + One(newTable /\ linked), 0)

HasRoom(p) == Len(shared[p]) < MaxShared

(* create_shared_page does not look whether it got a frame.                *)
ShmCreate(p, k) ==
  /\ Running(p) /\ HasRoom(p)
  /\ ~ pages[k].exists
  /\ Link(p, k, [exists |-> TRUE, backed |-> GetFrames(1) = 1, usage |-> 0], FALSE, GetFrames(1))
  /\ UNCHANGED <<status, own, halt>>

ShmAcquire(p, k) ==
  /\ Running(p) /\ HasRoom(p)
  /\ pages[k].exists /\ pages[k].usage < MaxUsage
  /\ Finds(p, k, Intact(p)) = {}
  /\ Link(p, k, pages[k], TRUE, 0)
  /\ UNCHANGED <<status, own, halt>>

(* The program reuses the buffer it has given to shm_acquire, or writes    *)
(* the name into it again.                                                 *)
Scribble(p, i) ==
  /\ Running(p)
  /\ i \in DOMAIN shared[p] /\ shared[p][i].user
  /\ shared' = [shared EXCEPT ![p][i].intact = ~ @]
  /\ UNCHANGED <<frameVars, status, own, table, nslots, holes, pages, halt>>

-----------------------------------------------------------------------------
(* The pages after p has released the elements at places of its list, and  *)
(* the frames of those that have no user left.                             *)
Users(p, places, k) == Cardinality({i \in places : shared[p][i].name = k})

Gone(p, places, k) ==
  Users(p, places, k) > 0 /\ pages[k].usage = Users(p, places, k)

PagesAfter(p, places) ==
  [k \in Names |-> IF Gone(p, places, k) THEN NoPage
                   ELSE [pages[k] EXCEPT !.usage = @ - Users(p, places, k)]]

FramesGone(p, places) == Cardinality({k \in Names : Gone(p, places, k) /\ pages[k].backed})

(* shm_release: nothing happens if the name is not found.                  *)
ShmRelease(p, k) ==
  /\ Running(p)
  /\ pages[k].exists
  /\ \E i \in Finds(p, k, Intact(p)) :
       /\ shared' = [shared EXCEPT ![p] = RemoveAt(@, i)]
       /\ holes' = [holes EXCEPT ![p] = <<shared[p][i].slot>> \o @]
       /\ pages' = PagesAfter(p, {i})
       /\ Frees(0, FramesGone(p, {i}))
  /\ UNCHANGED <<status, own, table, nslots, halt>>

(* free_process_memory walks the list and releases the name of each        *)
(* element.  It keeps a pointer to the next one, which is freed if it is   *)
(* the one that is found under that name.                                  *)
Released(p, readable) ==
  {i \in DOMAIN shared[p] : i \in Finds(p, shared[p][i].name, readable)}

WalkBreaks(p, readable) ==
  \E i \in 1 .. Len(shared[p]) - 1 : i + 1 \in Finds(p, shared[p][i].name, readable)

WalkEnds(p, readable) ==
  \A i \in 1 .. Len(shared[p]) - 1 :
     i + 1 \in Finds(p, shared[p][i].name, readable) => i \in Released(p, readable)

UseAfterFree ==
  halt' = "use_after_free" /\ UNCHANGED <<frameVars, procVars, pages>>

(* A process ends: it is freed by another process, and that is in whose    *)
(* address space the names are read.  An error: the table of shared pages  *)
(* is not released.                                                        *)
OwnOnly(p) == own[p]
AllOf(p) == own[p] + One(table[p])

NothingShared(p) ==
  /\ table' = [table EXCEPT ![p] = FALSE]
  /\ nslots' = [nslots EXCEPT ![p] = 0]
  /\ holes' = [holes EXCEPT ![p] = <<>>]
  /\ shared' = [shared EXCEPT ![p] = <<>>]

End(p) ==
  /\ Running(p)
  /\ \E readable \in SUBSET {i \in DOMAIN shared[p] : shared[p][i].user} :
       \/ WalkBreaks(p, readable) /\ UseAfterFree
       \/ /\ WalkEnds(p, readable)
          /\ pages' = PagesAfter(p, Released(p, readable))
          /\ Frees(0, AllOf(p) + FramesGone(p, Released(p, readable)))
          /\ status' = [status EXCEPT ![p] = "none"]
          /\ own' = [own EXCEPT ![p] = 0]
          /\ NothingShared(p)
          /\ UNCHANGED halt

(* execve frees all but the root of the page tables, which satp points to, *)
(* before it builds the new memory: if that fails the process returns to a *)
(* program whose page tables are free.                                     *)
Execve(p) ==
  LET gone  == Released(p, Intact(p))
      freed == AllOf(p) - 1 + FramesGone(p, gone)
      fits  == FramesPerProcess <= free - 1 + freed
  IN /\ Running(p)
     /\ \/ (WalkBreaks(p, Intact(p)) \/ ~ fits) /\ UseAfterFree
        \/ /\ WalkEnds(p, Intact(p)) /\ fits
           /\ pages' = PagesAfter(p, gone)
           /\ own' = [own EXCEPT ![p] = FramesPerProcess]
           /\ Frees(FramesPerProcess, freed + 1)
           /\ NothingShared(p)
           /\ UNCHANGED <<status, halt>>

(* fork copies the private frames, then acquires for the child every page  *)
(* in the list of its parent, in that order (holes are not kept), and gets *)
(* the stack for the interrupts of the child last.  A page that could not  *)
(* be linked the first time is tried again for its next element.           *)
Inherited(p, links) ==
  {i \in DOMAIN shared[p] :
     /\ pages[shared[p][i].name].exists
     /\ links => \A j \in 1 .. i - 1 : shared[p][j].name # shared[p][i].name}

(* The places K, from the first to the last: the one way to number them so.*)
Ascending(K) ==
  {f \in [1 .. Cardinality(K) -> K] :
     /\ \A i, j \in DOMAIN f : i < j => f[i] < f[j]
     /\ \A k \in K : \E i \in DOMAIN f : f[i] = k}

(* The child's list and table: links says whether there is a frame for it. *)
Inherit(p, c, links, places) ==
  LET names == [i \in DOMAIN places |-> shared[p][places[i]].name] IN
  /\ \A k \in Range(names) : pages[k].usage < MaxUsage
  /\ shared' = [shared EXCEPT ![c] = [i \in DOMAIN names |->
        [name |-> names[i], slot |-> IF links THEN i ELSE 0, linked |-> links,
         user |-> FALSE, intact |-> FALSE]]]
  /\ table' = [table EXCEPT ![c] = links]
  /\ nslots' = [nslots EXCEPT ![c] = IF links THEN Len(names) ELSE 0]
  /\ pages' = [k \in Names |->
        IF links /\ k \in Range(names) THEN Counted(pages[k]) ELSE pages[k]]
  /\ UNCHANGED holes

Fork(p, c) ==
  LET private == own[p] - 1
      copied  == GetFrames(private) = private
      links   == /\ copied /\ GetFrames(private + 1) = private + 1
                 /\ Inherited(p, TRUE) # {}
      before  == GetFrames(private) + One(links)
      runs    == copied /\ GetFrames(before + 1) = before + 1
  IN /\ Running(p) /\ status[c] = "none"
     /\ status' = [status EXCEPT ![c] = IF runs THEN "alive" ELSE "broken"]
     /\ own' = [own EXCEPT ![c] = GetFrames(private) + One(runs)]
     /\ Frees(before + One(runs), 0)
     /\ \E places \in Ascending(IF copied THEN Inherited(p, links) ELSE {}) :
          Inherit(p, c, links, places)
     /\ UNCHANGED halt

MemNext ==
  \/ \E p \in Procs : Start(p) \/ Grow(p) \/ End(p) \/ Execve(p)
  \/ \E p, c \in Procs : Fork(p, c)
  \/ \E p \in Procs, k \in Names : ShmCreate(p, k) \/ ShmAcquire(p, k) \/ ShmRelease(p, k)
  \/ \E p \in Procs, i \in Slots : Scribble(p, i)

MemSpec == MemInit /\ [][MemNext]_memVars

-----------------------------------------------------------------------------
(* Properties.                                                             *)

(* Of each process, as many pairs as it has private frames.                *)
Owned == {u \in Procs \X (1 .. TotalFrames) : u[2] <= own[u[1]]}

(* No order of forks, execs, ends and releases loses a frame or frees it   *)
(* twice, even when allocations fail half-way: those that are not free are *)
(* in a private memory, the table of a process, or a shared page, and      *)
(* mem_usage counts them.                                                  *)
FramesConserved ==
  /\ MemTypeOK
  /\ mem_usage = TotalFrames - free
  /\ mem_usage = Cardinality(Owned) + Cardinality({p \in Procs : table[p]})
                   + Cardinality({k \in Names : pages[k].backed})

(* The elements of all the lists that map page k.                         *)
Mappings(k) ==
  {u \in Procs \X Slots : /\ u[2] \in DOMAIN shared[u[1]]
                          /\ shared[u[1]][u[2]].linked /\ shared[u[1]][u[2]].name = k}

(* No process maps a page that is gone, whatever the buffers with the names*)
(* hold when they are looked up: the usage of a page counts every mapping. *)
MappingsAreCounted ==
  \A k \in Names :
     /\ Cardinality(Mappings(k)) <= pages[k].usage
     /\ Mappings(k) # {} => pages[k].exists

(* The elements of p that map a page, and the slots they map it at.        *)
Mapped(p) == {i \in DOMAIN shared[p] : shared[p][i].linked}
SlotsUsed(p) == {shared[p][i].slot : i \in Mapped(p)}

(* Two pages of a process are never mapped at one address: slots in use,   *)
(* and the holes that releases have left for reuse, are all different, and *)
(* they are all those the table has ever used.                             *)
SlotsApart ==
  \A p \in Procs :
     /\ \A i, j \in Mapped(p) : shared[p][i].slot = shared[p][j].slot => i = j
     /\ IsInjective(holes[p])
     /\ SlotsUsed(p) \cap Range(holes[p]) = {}
     /\ SlotsUsed(p) \cup Range(holes[p]) = 1 .. nslots[p]
=============================================================================
