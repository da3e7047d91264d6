# Verification of the kernel

TLA+ models of the RISC-V kernel in `src/src/kernel`, model-checked with TLC, and proofs about them checked by TLAPS. Paths below are relative to `src/src/kernel` unless they start with `src/`.

## The system

The kernel runs on one hart. A system call is a trap: it runs in supervisor mode with interrupts off, from the trap to the return to user mode, except that `scheduler()` (process/scheduler.c) may switch to another process in the middle and come back later. The timer interrupt of user mode enters the kernel through the same `scheduler()`. So code is atomic between two calls of `scheduler()`, and everything hard in this kernel comes from what other processes do while one of them is inside `scheduler()`. The models have exactly that grain: an action is the code from one possible switch to the next.

| Component | State | Operations | Interaction | What makes it correct |
|---|---|---|---|---|
| Priority queues, `src/src/lib/include/queue.h` | doubly linked lists through a link inside each process | `queue_add`, `queue_out`, `queue_top`, `queue_del` | all blocking calls | order by priority, arrival among equals; no element linked twice |
| Scheduler, process/scheduler.c | activatable, asleep, blocked-I/O and dead queues; current pid | `scheduler`, its wake-up loop and dead-queue loop | called by every blocking call and the timer | the highest priority runs; nobody is lost; sleepers wake in time |
| Timer and clock, timer.c, sync/timer_api.c, sync/time_syscall.c | `time_counter`, `wake_time` | machine and supervisor timer interrupts, `wait_clock`, `settimeofday` | scheduler | never early, not too late |
| Process life, process/process_api.c, process/process_memory.c | process structures, parent and child pointers, states, counter | `start`, `fork`, `exit`, `kill`, `waitpid`, `chprio` | scheduler, semaphores, queues, descriptors | trees of structures in use; zombies reaped; no lost wake-up |
| Semaphores, sync/semaphore_api.c | table of counts, each with a list of waiters of its own | `screate`, `wait`, `try_wait`, `signal`, `signaln`, `sreset`, `sdelete` | scheduler, `kill`, pipes | count and list of waiters agree; the waiters leave in order |
| Message queues, sync/msgqueue.c | ring of messages, two queues of blocked processes, message and status in each process | `pcreate`, `pdelete`, `psend`, `preceive`, `preset` | scheduler, `kill`, `chprio` | a bounded first-in first-out channel |
| Pipes, fs/pipe.c, process/fs_bridge.c | ring of bytes, a semaphore used as a mutex, counters of descriptors | `sys_pipe`, `read`, `write`, `close`, copies by `fork` | semaphores, scheduler | bytes in order; freed when unused; mutex released |
| Open files and descriptors, process/fs_bridge.c, fs/fs_api.c, fs/inode_util.c | table of descriptors and bitmap of each process; open files with a count; inodes in memory with a count, on the disk with a count of links | `open`, `close`, `dup`, `dup2`, `link`, `unlink`, `rename`, copies by `fork` | process life, file system | counts equal the users; a file lives as long as a name or a descriptor |
| Console, input-output/, drivers/console.c, fs/chdev.c | ring of characters, mode and echo, blocked readers | keyboard interrupt, `cons_read`, read of the terminal device | scheduler, `kill` | what is typed is read once, in order, by lines; readers wake |
| Frames and shared pages, memory/frame_dist.c, process/memory_api.c, process/process_memory.c | free list; usage of shared pages; table, slots and holes of each process | `get_frame`, `release_frame`, `shm_create`, `shm_acquire`, `shm_release`, `sys_sbrk`, what `start`, `fork`, `execve` and the end of a process take and give back | process life | frames are conserved; a page lives as long as it is mapped |
| Disk cache, fs/disk_buffer.c | list of cached blocks with dirty and usage | read, write, lock, unlock, evict, sync | file system, disk driver | blocks in use stay; what is written is read, and reaches the disk |
| File system, fs/ | ext2 structures on the disk | adding, finding and freeing the blocks of a file; directories | disk cache, descriptors | a block belongs to one file and is found where it was put |
| Page tables, traps, drivers, boot, libraries, user programs | | | | |

The last row is not modelled (see "What is left out"). PROJECT.json lists every component with its files, and the hazards of each with the properties that are about them.

## Modules

* **PrioQueue**: the lists of `queue.h` as sequences from `head->next` to `head->prev`; the top is the last element. `queue_add` puts an element in front of the first one whose key is not smaller.
* **Scheduler**: EXTENDS PrioQueue. `state`, `prio`, `wake` (`wake_time`, negative as in the code), `blocked_head`, `queue` (one sequence for each list), `current` (the running pid), `clock` (`time_counter`), `phase` (where `scheduler()` is: its wake-up loop, its dead-queue loop, its dispatch, or user mode) and `halt` (an assertion failed, or freed memory was walked). One action for each of: timer interrupt, late interrupt, `wait_clock`, `settimeofday`, `chprio`, one turn of the wake-up loop, the end of the loop, the first dispatch, preemption, a switch from a blocked process, no switch. What `scheduler()` does with killed processes is in Process, where there are such.
* **Process**: EXTENDS Scheduler with `parent`, `children`, `call` (the waitpid a process is blocked in) and `nb_proc_running`. `start`, `fork`, `exit`, `kill`, `waitpid` (first look at the children, and each look after a wake-up) the switch away from a killed process and the freeing of the dead. What an exit frees, the zombie children, theirs and so on, is the least closed set, `ZombieTree`. Process structures are reused: a slot of `Procs` that becomes UNUSED may be taken by the next `start`.
* **Semaphore**: EXTENDS Process. The list of waiters is not made of embedded links, so it is a sequence of its own. `freed` marks the lists whose head is a freed node after the kill of a process in the middle.
* **MsgChannel**: the abstract specification, a bounded FIFO channel in which a message that does not fit stays on offer.
* **MsgQueue**: EXTENDS Process. The ring (`msg_arr`, `iffc`, `number_of_msgs`), the blocked queues, `message.value` and `message.status` of each process; a blocked call is finished by a separate action when its process runs again. `Channel(f)` is the refinement mapping to MsgChannel.
* **Pipe**: EXTENDS Semaphore. `at` is the place in `read_pipe` or `write_pipe` at which a process goes on after a `wait` or `signal`; the bytes are abstracted to their number and positions.
* **InputLine**: the abstract specification of a console: keys typed, erased, and read from the front a part at a time; nothing is read twice, and nothing is read beyond a line unless the reader asks for characters.
* **Console**: EXTENDS Process. The ring (`buffer`, `start`, `last`), `echo`, the mode of each process and the mode of the last one a key has woken, the reads in progress, what the last read returned. `Key` is the whole interrupt: it wakes one reader, puts it on a queue by its state, and edits the ring in the mode of that reader. A read blocks in `BlockOnIO` and looks again in `ResumeRead`. `below` is a history variable: whether a key has deleted below the start of the unread characters. The refinement mapping gives InputLine the unread characters.
* **DiskCache**: `cache` is `global_cache_buf`; an element has the contents, `usage` (of UsageBits bits) and `dirty`. `hold` are the pointers the file system holds, `written` what it has last put in each block. Fetching, evicting and writing back are operators that each call which can fetch goes through; what malloc leaves in `usage`, which sector fails and where an eviction stops are choices.
* **Memory**: frames are counted, not addressed. `status`, `own`, `shared` (the list of shared pages of a process, also its table of keys), `nslots` and `holes` for each process, and `pages`, the table of shared pages. An element of `shared` says whether its key is a pointer to memory of the program (`user`) and whether that memory still holds the name (`intact`): `Scribble` changes it.
* **Files**: `fds`, `bitmap`, and `unnumbered` (elements that got fd -1 because the bitmap was full) for each process, `files` (open files, which `fork` and `dup` share), `usage` of the inodes in memory, `dir` and `links` on the disk. `stale` marks an open file whose inode was freed under it. The calls on names change a record of these parts (`Current`, `Becomes`), so that `rename` is composed of `unlink` and `link` as in the code. Directories below the root are left out.
* **InodeBlocks**: one file: `i_blocks`, its block pointers, the contents of its index blocks, the bitmap. `AddDataBlock` and `FreeInodeData` are the two calls that change it; `Relative` is the search of a block by its number in the file. D direct blocks and N entries per index block stand for 12 and 512.
* **MCScheduler, MCProcess, MCSemaphore, MCMsgQueue, MCPipe, MCConsole, MCDiskCache, MCMemory, MCFiles, MCInodeBlocks**: the instances. Which calls each program may make is a constant, and programs make them in any order.
* **SchedulerProofs (with the lemmas about PrioQueue), ProcessProofs, SemaphoreProofs, PipeProofs, MsgQueueProofs, ConsoleProofs, FileSystemProofs (Files and InodeBlocks), StorageProofs (DiskCache and Memory)**: the proofs.

Definitions announced by "Error" comments are the plausible mistakes the properties are tested against; the specifications do not use them.

## Runs

| Run | Instance and bounds | What it shows |
|---|---|---|
| sched_core | idle and three programs; two sleep, priorities 0 to 3 are tried by `chprio`, clock up to 5 | queues, states and links agree at every point of `scheduler()`; no queue assertion fails; nobody is lost; the highest priority runs; no due sleeper is left |
| life | init and two children, each starts, forks, waits, sleeps, exits, kills | child lists exact, freed structures forgotten, no lost wake-up |
| life_live | init starts and waits; children exit, kill, and sleep for 0 or 1 ticks | NeverEarly, SleepersWake, RoundRobin, WaitReturns under fairness |
| sem | a controller that signals, resets, deletes and kills; three waiters of two priorities; counts -3 to 2 | list of waiters exact, counted and ordered |
| sem_kill (violated) | the same | the kill in the middle of the list takes the head |
| msg | two programs that send and receive, a controller that creates, resets, deletes and kills; capacity 0, 1, 2; two messages | MsgQueue implements MsgChannel; nobody is blocked without a reason, and no status is stale |
| pipe | init and two forked children, capacity 2, lengths 1 and 3 | positions agree, semaphore released once, no use of a freed pipe |
| cache | three blocks, the last one beyond the partition; a cache of 2; two pointers, two values; one lock left over, one failing sector; usage of 3 bits, 0 in fresh memory, as the lock left over stands for what malloc may leave there | reads see writes; a clean copy is on the disk; a block in use is never evicted; only locked blocks take the cache over its limit |
| console | two readers, one may kill the other; a ring of 3, tabs of 2; letters, both ends of line, erase, tab, delete-word; reads of 2 | Console implements InputLine; only erasing below the start can stop the kernel; a typed line is read (LinesAreRead, under fairness), and readers do not all sleep on a line |
| memory | two processes, two names, eight frames, two frames for each process and up to 3 owned, two shared pages each, usage up to 3 | frames conserved; a mapped page exists and counts its mappings; slots and holes are disjoint |
| files | two processes, two names, two inodes, two open files, two descriptors each; counts up to 2 | descriptors, open files, inodes and names are counted; rename keeps the file; a file its users have open stays |
| blocks | one direct block, three entries per index block, 17 blocks; other files may have any of them | blocks are found in order; emptying a file frees its own blocks and no other |

Why the bounds are enough to be interesting. Three processes are the least for which a middle of a list, a grandparent and a third party between two others exist; two priorities beside idle's are the least for an equal and a higher one; capacity 0, 1, 2 of a ring covers rendezvous, always-wrapping and a proper ring; lengths 1 and 3 at a pipe of 2 give partial, exact and over-long transfers. A cache of two with two pointers is full of locked blocks and passes its limit, and the block beyond the partition is the one that the test with `>` admits. A ring of three characters wraps, fills, and holds a line and the start of the next; a read of 2 leaves the rest of a long line and is longer than a short one. Two shared pages make a hole before a page and a hole that is filled; eight frames run out while two processes have pages. Two open files for two processes make a shared and a private one, and both numbers of the table are soon taken. With three entries, an index block is empty, partly full and full, and of 17 blocks the largest file takes 13: four more can be lost in failures.

Counters of the code that would grow without end are bounded by named constants: MaxClock (the properties compare the clock with wake times below it), MaxDrift (how far nb_proc_running may drift from the number of processes), MaxLeaks and MaxFaults in DiskCache, MaxUsage, MaxOwn and MaxShared in Memory (which assumes MaxShared at most 2), MaxCount and MaxLinks in Files. MIN_COUNT and MAX_COUNT are the ends of the 16-bit count, and UsageBits is the width of `usage`, small here so that overflow happens; in the pipe run the semaphore's end is out of reach of its processes.

The type invariant of a module other than Scheduler is the first conjunct of a safety invariant of its run: FreedIsForgotten, WaitersExact, BlockedForAReason, ReleasedOnce, ReadsSeeWrites, OnlyErasingFails, FramesConserved and DescriptorsCounted.

Deadlock is not checked (CHECK_DEADLOCK FALSE) where the machine really stops, after a failed assertion, a walk of freed memory or a loop without end, or where processes can all have ended: life, sem, sem_kill, console, memory, files.

SYMMETRY is used for safety runs only, over programs with the same calls and priority, over names, inodes and open files, and over the pointers into the cache.

Fairness: weak fairness of the timer interrupt, which the hardware raises periodically and the handler re-arms before anything else (timer.c), and of the steps inside `scheduler()`, which is straight-line code with interrupts off (life_live, console); in console also of the return from a blocked read once its process has been dispatched, which is the rest of the same kernel path. No program is assumed to make any call, and nobody to press a key.

## Proofs

SchedulerProofs holds for any finite set of processes, any set of queues that contains those of the scheduler, any priorities and any programs, from the assumptions named in Scheduler (`SchedulerAssumption` in the module).

* SchedulerProofs, the lists: `QueueAddFacts`, `QueueAddAscending`, `QueueOutFacts`, `QueueOutAscending`, `QueueDelFacts`: what the list operations contain, that no element is repeated, and that the order is kept.
* SchedulerProofs, the scheduler: `SchedInv`, the conjunction of type correctness, disjointness of the queues, LinksMatchStates and NoAssertFails, is inductive. LinksMatchStates is the part that makes it so: the state of a process tells which queues it may be linked in, with the exceptions the code has (a woken sleeper keeps its state; inside `scheduler()` the current process is not linked whatever its state), and idle is always ready. There is one lemma per action. `SchedTypeCorrect`, `SchedDisjoint`, `SchedLinksMatch`, `SchedNoAssert` and `SchedNoProcessLost` follow.
* Second part: `PrioInv`, that the activatable queue is ascending in the current priorities and that the process that runs is at least as high as all of it, gives `SchedHighestPriority`. It needs the hypothesis `Sleepers \cap PrioTargets = {}`: `chprio` of a sleeper that has been woken, whose state is still ASLEEP, does not move it, and the activatable queue is then out of order. That is a real limitation of the code (process_api.c:93-116 with scheduler.c:220), and the hypothesis is where it shows.
* Third part: `SleepInv`, that the sleep queue is ascending in `wake` and every `wake` in it is negative, gives `SchedNoneOverslept`: the loop stops at the first sleeper that is not due, and those behind it are due later still. `wake` is the negative of the time, and a 0 stands for an empty queue in `get_next_wake_time` (scheduler.c:209,217); it comes only of a `wait_clock(0)` at time 0, and the theorem has the hypothesis that no program asks for 0 ticks. Sleepers may have their clock set back and their priority changed.

ProcessProofs holds for any finite set of process structures, any programs, victims and bounds, from `ProcessAssumption` (the idle process makes no call and is nobody's victim, and the boot processes do not exceed the limit).

* `ProcInv` is inductive. LinksMatchStates of SchedulerProofs is too narrow here, as more states exist: `LinksFit` says for each state which queues the process may be in, and `HartFits` what may be said of the process on the hart while `scheduler()` has not left it yet: it may be a zombie, but it is not freed, and it is not in the dead queue, so that the reaping loop never frees what still runs. `OfTheLiving` is FamilyTies with two additions without which a free would break it: no child is KILLED, so what the dead queue holds is in no living list, and whoever is inside `waitpid` has a child it waits for. `Waiting` is the other half of NoLostWakeup, and `CallsFit` what reuse of a structure needs: what is freed waits for nothing, and nobody is its own parent.
* `ReadyLinked`, that a process that is ready, asleep or blocked in a queue is in some queue, is inductive with ProcInv but stated apart: with the kill of a waiter (Semaphore) it does not hold.
* The hard step is the end of a process. `TreeMember` shows from the definition of the least closed set, without induction, that each structure freed is a zombie in the list of another that is freed or of the one that leaves; `OthersKeepTheirs` that none is in the list of a third process, because its parent pointer names the list it was found in; `DepartureStates`, `DepartureLinks` and `DepartureFamilies` do the rest for `exit` and `kill` alike.
* `ProcInvariant`, `FreedIsForgottenHolds`, `FamilyTiesHolds` and `NoLostWakeupHolds` follow. A run that has stopped (`halt`) is no exception: ProcInv holds in its last state too.
* `NeverEarlyHolds`, an action property, is about all of Process: `WokenAreDue`, that a sleeper which has left the sleep queue and is still marked ASLEEP was due, is inductive with ProcInv. `Timely` says what a step may do to sleepers, and there is a lemma for each group of calls. Its hypothesis is that nobody calls `settimeofday`, which sets the clock back between the wake-up and the dispatch.

SemaphoreProofs holds for any programs, victims, counts and bounds, on top of ProcessProofs (`SemaphoreAssumption`: there is an identifier, and the idle process makes no call).

* `SemInv` is ProcInv, that the list of a live semaphore is exactly the processes blocked on it, that nobody is blocked on another, and that the count below zero is the length of the list. They need each other: what a signal wakes must be linked nowhere, which the states of the processes in the list show; how many it wakes is decided by the count; and `kill` of a waiter gives back a unit that only the length shows to be owed.
* Waking a list of processes is a recursive function (`LinkEach`, used by the message queues too; its lemmas are in SchedulerProofs). What it computes is shown without an induction theorem, by the least number of steps for which there is no such sequence of queues (`StepsExist`), and `LinkEachFacts` is by the same means.
* `NextSpares` shows, action by action, that no step of Process changes who is blocked on a semaphore.
* `WaitersExactHolds` and `WaitersCountedHolds` follow. They make the two exceptions the properties make: lists whose head was freed by the kill of a process in the middle, and, for the lists, a machine that has stopped.
* `WaitersOrderedHolds` has the hypothesis `NoneReordered`: `chprio` is used on no process that waits. It leaves a process that is blocked on a semaphore where it is (process_api.c:93-116), so the list is out of order afterwards.

PipeProofs holds for any size of the buffer, lengths, programs and processes, on top of SemaphoreProofs (`PipeAssumption`; MAX_COUNT is at least 1, the count `sys_pipe` asks for).

* `PipeInv` is SemInv and six parts. `Mutex`: of the processes in the loops of `read_pipe` and `write_pipe` one at most has come back from a wait without having signalled, and the count is not positive while there is one. It is kept by a signal because the count is the number of waiters (SemInv), so that a signal wakes one process when there is one and raises the count to 1 when there is none. `BlockedFit` says that whoever is blocked on a semaphore is in such a wait: what a signal wakes comes back into a loop.
* `EndsFit` and `InsideFit` are about the last close: an end is usable while its open file is counted, every descriptor is counted, and whoever is in a loop has a descriptor of the end he uses. Descriptors are fewer than the count and not equal to it, as `exit` closes nothing. That `fork` keeps this needs `NextBirths`: a step makes one process at most, and only when somebody runs.
* The positions are taken out of the modulo once (`ModAgree`); the rest is linear.
* `PositionsAgreeHolds`, `ReleasedOnceHolds` and `NobodyInFreedHolds` have the hypothesis `PipeAlone`: programs make no semaphore calls of their own, and no process that uses pipes is killed. The code enforces neither. `signal` takes any identifier, the pipe's among them, and the kill of a process in the middle of the list makes another ready (semaphore_api.c:57), which would go on in its loop without the semaphore.

MsgQueueProofs holds for any programs, capacities, messages, queues and processes, on top of ProcessProofs (`MsgQueueAssumption`: each message queue has two lists of its own, and the idle process makes no call).

* `MsgInv` is ProcInv, the type and four parts. `RingsFit` is the reason the code may look at one list only: consumers are blocked on an empty ring that no producer is blocked on, and producers on a full ring of a queue that exists. `PendingFits` says that whoever is linked in a list is inside the call of that queue, so that the status a waker leaves (SENT, RECEIVED, ERROR) is one the call understands; `StatusFits` that a call that goes on finds the status of its own wait. `Parked`, that a process that only receives is linked in the list its state and `blocked_head` name while it is blocked, is needed for `chprio`, which puts it back there.
* `QueuesSpared` says that no step of Process puts anybody in those lists or takes anybody out who does not end; it is shown action by action.
* `free_blocked_queue` of both lists empties them from the last to the first: `ReverseFacts` and `JoinedFacts` show that the processes it wakes are different and linked nowhere any more, which is what the lemmas about `LinkEach` ask for.
* `BlockedForAReasonHolds` has the hypothesis `SendersKeepPrio`: `chprio` is used on no process that may send. The code does not enforce it, and without it Parked is false: `preceive` from a producer of a queue of capacity 0 leaves it BLOCKEDQUEUE (msgqueue.c:107), and a `chprio` links it in the list again. The run msg is one instance, without any `chprio`; the theorem also covers a receiver whose priority changes while it is blocked.
* `IsChannelHolds` is the refinement of MsgChannel, for all the queues at once, with the same hypothesis: without it a message is received twice. `ChannelInv` adds to MsgInv that a blocked producer has a message (`OffersFit`), and that a process that has left was given none (`DeadForget`), which a death in the channel forgets. The ring is unrolled from where it starts: `PlaceFacts` takes the place of the j-th oldest message out of the modulo, `BoxAppend` is `add_message` and `BoxTail` `pop_oldest_msg`; a receive that refills is the one after the other, as the place popped is the next to be written.
* There is one lemma per call that says what it is in the channel of its queue, and that it leaves the others as they are. BlockedForAReason does part of the work: nobody has an offer where the code stores or takes without looking at the producers, and a message is handed over only where nothing is stored. `NextEndsOne` says that a step of Process ends one process at most, as a channel loses one offer and one inbox at a time, although the end of a process may free many zombies.

ConsoleProofs holds for a ring of any size, any tab stop, keys, lengths, processes and programs, on top of ProcessProofs (`ConsoleAssumption`).

* `ConsInv` is ProcInv, the type and four parts. `RingFits`: an empty ring starts at index 0, as long as no key has deleted below the start; that is why `buffer_current_size` is 0 on an empty ring, every read blocks there, and `copy` never finds it empty. `ReadersFit`: whoever is BLOCKEDIO is inside a read, so that a key wakes a process that is linked in the queue it is taken out of. `WaitersFit`, with the hypothesis below, is what the assertion of `kill` needs. `StepFits` says, action by action of Process, that no step blocks anybody on the console or ends a process that neither calls `exit` nor is killed by the one that runs.
* `OnlyErasingFailsHolds` has the hypothesis `NoneKilledInWait`: nobody is killed who may be blocked in `waitpid`, where `kill` fails its assertion whatever the console does (process_api.c:133).
* `NotAllAsleepHolds` also has `ReadersStay`: whoever reads the terminal device reads lines too, and no reader exits or is killed by a process that is not a reader. One key wakes one reader; if he ends before he looks, or takes only what the device has, the line stays and the others sleep on. The run console satisfies both hypotheses.
* `IsInputLineHolds` is the refinement of InputLine. The ring is unrolled from where it starts: `PlacesMove` and `PlacesApart` take the positions out of the modulo, `AddTypes` shows that a key appends (`LastAfterPlace`: the index after the last one is the place after the last one, in an empty ring because it starts at 0), `EraseTakesBack` that deleting keeps a prefix, and `CopyReads` that `copy` takes a line, a part of one, or a full ring without an end of line.

FileSystemProofs, the first part, is about Files. It holds for any finite sets of processes, names and open files, any inodes and any bounds (`FilesAssumption`).

* `FilesInv` is inductive. It is the type with three counts, none of which is ever too low: the links of an inode for its names and its usage for the open files on it (`Sound`), and the usage of an open file for its descriptors (`EnoughCounted`). None of them is inductive alone. An inode whose count of links reaches 0 is freed whatever its usage: the open files on it must become stale to be exempt, and an inode that is open and not stale must have links. An open file is freed when its usage reaches 0, which must not happen under a descriptor, and its inode is given back then, which must not happen while another open file has it.
* The counts are lower bounds and not equalities, as the code leaks: walks of paths keep references to inodes, `exit` closes nothing, a failed `link` leaves its count.
* `link`, `unlink` and `rename` are followed as changes of the record of state parts: each keeps `Sound`, and touches no open file of the caller (`Spares`), whatever step of it fails. `dup2`, which closes before it counts, has a lemma for each of its four outcomes.
* From it: `DescriptorsCountedHolds`, `InodesOutlive`, `NamesAreFilesHolds`, `RenameKeepsTheFileHolds`, and `KeptForItsUsersHolds`, an action property, from `Spares`.

The second part is about InodeBlocks. It holds for any number of direct blocks, any number of entries in an index block and any number of blocks of the disk (`BlocksAssumption`).

* `BlocksInv` is inductive: there is a number k of rows of the double part in use such that `Tree(Now, added, k)`. `SizesFit` is what the code relies on everywhere: that the number of data blocks, and with k the number of index blocks, follow from `i_blocks`. `IndexesApart` and `DataApart` say that no block has two uses, `DataFound` where each data block is, and `RowsFit` that what lies behind the last data block is zero, which is how the code finds the end of the rows (`InUse`) and what it must not free.
* Neither property is inductive alone. A place is computed from `i_blocks` and from the first zero in the double block, so that a row that was not zero behind the end would move all that is added later; and one block used twice would be overwritten by an addition somewhere else, and freed twice.
* `add_data_block_inode` changes the file in up to three steps, any of which can fail: the invariant is stated of a file that is a parameter. `TakeKeeps`, `IndirectKeeps`, `DoubleKeeps` and `RowKeeps` are the steps that take a block and put an index block in its place, `PutDirectKeeps`, `PutIndirectKeeps` and `PutDoubleKeeps` those that put the data block; `AddedKeeps` composes them, with the failures. `WhereNext` shows that the column computed in the code is 0 exactly when a new row is needed.
* The places in the double part are taken out of division and remainder once (`RowColUnique`, `NextPlace`, `PlaceOfData`); the rest is linear.
* `BlocksInOrderHolds` follows by the three parts (`TreeInOrder`). For `FreesItsOwnHolds`, `TreeFrees` writes what is freed as the blocks of three ranges of positions and the index blocks, and counts them: they are different blocks, so their number is `i_blocks`.

StorageProofs, the first part, is about DiskCache. It holds for any partition, cache size, number of pointers and values, whatever `malloc` leaves in `dirty` and `usage` and whichever sector fails (`CacheAssumption`).

* `CacheInv` is inductive: no block twice; the last contents in the cache or on the disk; what is not on the disk is dirty or under the pointer that changed it; what is half written there is dirty; and `usage` is at least the number of pointers. Latest is not inductive alone: an eviction drops a block, which must be on the disk then, and must not be one somebody holds; nor are the counts, which an eviction of a block in use would break.
* The invariant is stated of a cache, a disk and pointers that are parameters, so that it can be said of the state in the middle of a call, after `free_cache_list` has made room.
* `CacheInvHolds`, `ReadsSeeWritesHolds`, `CleanMeansSavedHolds`, `HeldStaysCachedHolds` and `OverflowsOnlyLockedHolds` have the hypothesis `FewLocks`: pointers and left-over locks together stay below the width of `usage` for whatever fresh memory may hold. Without it a lock taken on a new element whose `usage` is the largest number would make it an unused one (`read_block_c` in disk_buffer.c); `MCFewLocks` shows the hypothesis holds in the instance that is checked.

The second part is about Memory. It holds for any finite sets of processes and names and any number of frames, in all and for each process (`MemoryAssumption`), and for lists of at most two shared pages: which of several elements of one name the table of a process finds is modelled for two (`Finds`); the proof itself does not use that bound.

* `MemInv` is inductive. To the properties it adds, of each process, `Fits`: a process that runs has the root of its page tables, one that is not there has no frames and no list, and a table has entries only if it has a frame; and that only a page that exists has a frame. Without the root, the number of frames that `execve` and the end of a process give back would be off by one; without the frame of the table, the one that the first link takes would be counted twice.
* The properties are related by the releases. The frame of a page is given back when its usage is 0; that nobody maps it then is MappingsAreCounted, and that the slot it leaves in the table of the caller is a hole that was none before is SlotsApart.
* `mem_usage` and the mappings of a page are sums over processes. Their terms are counted as one set of pairs (`Owned`, `Mappings`), so that no recursion is needed: a step that changes one process changes the part of the set that is his. `StepKeeps` says this once, for all the steps; each of them then has to show that the new list, slots and holes fit (`Apart`) and that the frames taken and given back make up for the difference. `RemoveMaps` and its like say what the removal of an element does to the places of the others.
* `Fork` numbers the places of the pages it copies, in their order (`Ascending`). `Start`, `Grow`, `End`, `Execve`, `Fork`, the three calls and `Scribble` each have a lemma, with a failed allocation at each point where the code has one.
* `FramesConservedHolds`, `MappingsAreCountedHolds` and `SlotsApartHolds` follow, without further hypotheses; they hold in the last state of a run that walked freed memory, too.

Only model-checked: liveness under fairness, which needs ENABLED.

## Disagreements found

sem_kill shows one: `kill` of a waiter in the middle of a semaphore's list takes the first one out instead (semaphore_api.c:57), against the comment at semaphore_api.c:257-258. The others below are told without a run.

Processes, scheduler and clock:

* A woken sleeper keeps the state ASLEEP until it is dispatched, while process.h:504-506 has the queue of a process follow from its state.
* The wake-up loop uses a strict comparison (scheduler.c:218): a sleeper wakes one tick after the one process.h:586-587 promises.
* `settimeofday` sets `time_counter` to 0, and `get_next_wake_time` uses 0 for an empty queue (scheduler.c:209,217): a `wait_clock(0)` right after it sleeps for ever and, 0 being the greatest key, hides every other sleeper.
* An orphan is freed at its end only when its parent is NULL or a zombie (process_api.c:1085): when the parent was killed, or freed and its slot reused, the child becomes a zombie nobody can wait for, against process.h:183-185.
* A child of a zombie that exits is freed at once and stays in the zombie's list, which the exit of the grandparent walks (process_api.c:1032-1034): Process stops with "use_after_free".
* `nb_proc_running` (process.h:137) is not incremented by `fork` and stays incremented by a `start` that is refused (process_api.c:327-350).
* `kill` of a process blocked in `waitpid` fails the assertion of queue.h:158 (process_api.c:133), as the process is linked nowhere; `halt` becomes "assert" in Process.
* `kill` that wakes a parent of a higher priority does not call `scheduler()`; the parent waits for the next tick. `kill` also writes the return value into a structure it may have freed (process_api.c:905).

Semaphores, queues and pipes:

* `chprio` does not reorder the waiters of a semaphore; and KILL_CALL and SDETETE_CALL are both -3 (semaphore_api.h:17-30). `sreset` casts its count to 16 bits without a check.
* `preceive` from a producer blocked on an empty queue (capacity 0) leaves its state BLOCKEDQUEUE; a `chprio` before it runs puts it back among the blocked producers, its message can be received twice, and a `preset` makes its `psend` fail (msgqueue.c:107).
* `pcreate` with an enormous count leaves a half-made queue in its slot (msgqueue.c:40-41).
* The loops of `read_pipe` and `write_pipe` wait for the semaphore again before they look at their condition and signal nothing when they leave (pipe.c:107,159): a read that exactly empties the pipe or a write that exactly fills it returns with the semaphore held, and the next user waits for ever.
* `create_pipe` tests the semaphore identifier against 0, and `screate` fails with -1 (pipe.c:18).
* `exit` closes no descriptor, because `free_fs_proc` returns first (process_memory.c:462): a reader whose writers have exited never sees the end of the pipe, and no open file or inode of a process that ends is ever given back.

Console:

* `delete_last` moves `last_written_char_index` down without looking at `start_of_buffer_index`: after a part of a line was read, the keys that delete can leave an empty ring whose start is not 0; the next read then fails the assertion of cons_read.c:79.
* The key that deletes a word loops for ever when echo is off (keyboard.c:81-92), since only `delete_last`, under `if (echo)`, moves the index. `halt` becomes "spins".
* A tab on an empty ring adds one space too many, the column being computed from -1.
* A key is handled in the mode of the reader it wakes, and, when it wakes nobody, in that of the last one it woke.

Frames and shared pages:

* `link_shared_page_to_process` puts the pointer the program gave to `shm_acquire` into the table of the process as a key (memory_api.c:154-157). When the process ends, its pages are looked up in another address space: the key is not found, the usage is never given back and the page stays for ever, against memory_api.h:75. A program that reuses the buffer can acquire a page twice.
* A failed link leaves its element in the list of the process (memory_api.c:143-145); the walk at its end may then meet freed memory, where Memory stops. `create_shared_page` does not look at what `get_frame` returns: the page may have the address 0.
* `execve` frees the tables of the process before it builds the new ones; a failure then leaves a process that has none ("broken" in Memory, as after a failed `start` or `fork`). `add_and_allocate_frames` tests for `< -1`, while failures are -1 (process_memory.c:713).
* The loop that frees the list of holes never moves the pointer it frees (process_memory.c:507-510): the first is freed again and again and the others never. Two copies of a key are allocated one byte short (memory_api.c:110,392).
* `fork` maps the shared pages of the child from the first slot on, whatever slots the parent has; the code says so (process_memory.c:653-661).

Disk cache:

* The `usage` of a fetched block is not initialised (disk_buffer.c:168): a block may be kept in the cache for ever, and the cache pass its limit, after which `==` (disk_buffer.c:161) never empties it again.
* `write_block` returns 0 when the fetch fails (disk_buffer.c:49-50), and `fetch_block` ignores a failed read (disk_buffer.c:192). ReadsSeeWrites does not claim anything of a block that could not be read.
* `>` admits the first block of the next partition (disk_buffer.c:172); a copy of the superblock that was never locked is unlocked when it is saved, which takes `usage` below 0.

Files:

* `dup2` of a descriptor onto itself uses what it has just closed when it is the only one (fs_api.c:443-470), where Files stops; `sys_pipe` reads an unset variable when it fails (fs_api.c:591-596).
* `rename` of a file to its own name removes it and returns 0; the code calls it "pointless" (fs_api.c:534). `rename` of a file its caller has open fails at its last step and leaves both names.
* "File is being used, cannot delete" (fs_api.c:333) looks at the descriptors of the caller only: the open files of other processes keep an inode that is gone. `close` of such a file fails and leaves its usage at 0, and the next one makes it -1.
* A process whose table is full gets an open file with fd -1 that nothing can close.
* `open` truncates a regular file whatever its flags, if there are any (`&&` for `&`, fs_api.c:98); `write` adds to `i_size` when it overwrites (fs_api.c:189); `link` does not undo its count when the entry cannot be written (fs_api.c:373).
* `add_inode_data_block` loses the block it has taken when it finds no room for the index block (inode.c:470-473, 505-506, 537-538). MAX_BLOCKS_FILE counts data blocks and is compared with `i_blocks`, which counts index blocks too (inode.c:450): the last part of the tree is never used.
* `get_inode_relative_block` locks one index block and unlocks another (inode.c:1068-1069). A freed place in a directory is reused by an inverted test (inode.c:695-699).

## What is left out

* Processes: failures of allocation, except in `pcreate` and of frames; the contents of messages and pipes beyond identity and number. In MsgQueue and Semaphore, calls with an unknown identifier are refused without a change of state and have no action. The kill of a process inside a read or write of a pipe is not composed with Pipe.
* Console: the screen. Reads by a program that exits or is killed end with it.
* DiskCache: formatting, with its own bitmaps; `WRITE_BACK` and a write that locks, which nothing calls; `locked_files`, which nothing reads.
* Memory: addresses, page table entries, collisions of the hash of a name.
* Files and InodeBlocks: walks of paths, directories inside directories and the records inside them, positions and contents, formatting and mounting, failures of the disk while an index block is read.
* Page table construction, trap dispatch, the drivers and boot are sequential code or device access, with no protocol between processes; a trap's dispatch is the guard of the action it leads to. The allocator of `src/src/lib/stdlib/malloc.c` and DOOM (`src/src/user/xinuldoom`), most of the lines of the repository, are third-party code that the kernel only hosts. Code that configuration macros compile out is left out everywhere.
