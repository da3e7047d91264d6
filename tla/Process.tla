------------------------------- MODULE Process -------------------------------
(***************************************************************************)
(* The life of a process (process/process_api.c): start_virtual, fork,     *)
(* exit_process, kill, waitpid, and free_dead_process of the scheduler.    *)
(*                                                                         *)
(* An element of Procs is a process structure, that is, an address: when   *)
(* it is freed its state is "UNUSED", and the next process that is created *)
(* may be given it.  Pointers to it from other structures (parent, lists   *)
(* of children) stay, as they do in the kernel.                            *)
(***************************************************************************)
EXTENDS Scheduler

CONSTANTS
  Calls,            (* the system calls the program in each structure makes *)
  Victims,          (* the processes some program kills                    *)
  MAX_NB_PROCESS,
  MaxDrift          (* bound: how far below 0 fork lets the count drift    *)

(* waitpid(-1), or waitpid on one child; NoProc: not inside waitpid.       *)
AnyChild == "any"

ASSUME ProcessAssumption ==
  /\ AnyChild \notin Procs \cup {NoProc}
  /\ Calls \in [Procs -> SUBSET {"start", "start_bad", "fork", "exit", "kill", "waitpid"}]
  /\ Calls[Idle] = {}
  /\ Victims \subseteq Procs \ {Idle}
  /\ MAX_NB_PROCESS \in Nat /\ Cardinality(Boot) <= MAX_NB_PROCESS
  /\ MaxDrift \in Nat

VARIABLES
  parent,           (* process.parent, NoProc for NULL                     *)
  children,         (* the list from children_head to children_tail        *)
  call,             (* the waitpid a process has to resume                 *)
  nb_proc_running

lifeVars == <<parent, children, call, nb_proc_running>>
vars     == <<schedVars, lifeVars>>

ProcTypeOK ==
  /\ parent \in [Procs -> Procs \cup {NoProc}]
  /\ children \in [Procs -> Seq(Procs)]
  /\ call \in [Procs -> Procs \cup {NoProc, AnyChild}]
  /\ nb_proc_running \in Int /\ nb_proc_running <= MAX_NB_PROCESS

ProcInit ==
  /\ SchedInit
  /\ parent = [p \in Procs |-> NoProc]
  /\ children = [p \in Procs |-> <<>>]
  /\ call = [p \in Procs |-> NoProc]
  /\ nb_proc_running = Cardinality(Boot)

(* A process in user mode: it is not about to resume a waitpid.            *)
InUser == current # NoProc => call[current] = NoProc

Calling(name) == Running /\ InUser /\ name \in Calls[current]

-----------------------------------------------------------------------------
CallSchedulerIfHigher(newprio) ==
  phase' = IF prio[current] < newprio THEN "awake" ELSE phase

(* A new process, child of the current one, in a free structure p.         *)
Create(p, newprio) ==
  /\ state[p] = "UNUSED"
  /\ state' = [state EXCEPT ![p] = "ACTIVATABLE"]
  /\ prio' = [prio EXCEPT ![p] = newprio]
  /\ wake' = [wake EXCEPT ![p] = 0]
  /\ queue' = Link(queue, "activatable", p, prio')
  /\ parent' = [parent EXCEPT ![p] = current]
  /\ children' = [children EXCEPT ![p] = <<>>, ![current] = Append(@, p)]
  /\ CallSchedulerIfHigher(newprio)
  /\ UNCHANGED <<blocked_head, current, clock, halt, call>>

(* The limit, checked on the count that includes the new process.          *)
Count ==
  nb_proc_running + 1 <= MAX_NB_PROCESS /\ nb_proc_running' = nb_proc_running + 1

StartVirtual(p, newprio) ==
  /\ Calling("start") /\ Count
  /\ ValidPrio(newprio)
  /\ Create(p, newprio)

(* The name or the priority is refused: the process is counted already.    *)
StartVirtualBad ==
  /\ Calling("start_bad") /\ Count
  /\ UNCHANGED <<schedVars, parent, children, call>>

(* fork does not count the process it creates: nb_proc_running drifts down. *)
Fork(p) ==
  /\ Calling("fork")
  /\ nb_proc_running + MaxDrift > 0
  /\ Create(p, prio[current])
  /\ UNCHANGED nb_proc_running

-----------------------------------------------------------------------------
(* free_process_memory(DELETE_ALL) of every process in gone; lists are the *)
(* child lists of the others.                                              *)
Free(gone, lists) ==
  /\ parent' = [x \in Procs |-> IF x \in gone THEN NoProc ELSE parent[x]]
  /\ children' = [x \in Procs |-> IF x \in gone THEN <<>> ELSE lists[x]]
  /\ call' = [x \in Procs |-> IF x \in gone THEN NoProc ELSE call[x]]
  /\ nb_proc_running' = nb_proc_running - Cardinality(gone)

(* What make_children_orphans_and_kill_zombies frees: the zombie children, *)
(* theirs, and so on: the least set that is closed this way.  The live     *)
(* children keep their pointer to the parent.                              *)
ZombieChildren(z) == {c \in Range(children[z]) : state[c] = "ZOMBIE"}

ZombieTree(p) ==
  {c \in Procs :
     \A S \in SUBSET Procs :
        (\A z \in S \cup {p} : ZombieChildren(z) \subseteq S) => c \in S}

(* The elements of the lists it walks that are not that parent's child any *)
(* more: the structure was freed, and is perhaps in use for another.       *)
Stale(p) ==
  UNION {{c \in Range(children[z]) : parent[c] # z} : z \in {p} \cup ZombieTree(p)}

(* The state a leaving process reads through its parent pointer.  Freed    *)
(* memory may still hold what it held, a zombie or a killed process.       *)
ParentReads(p) ==
  IF parent[p] = NoProc THEN {"NULL"}
  ELSE IF state[parent[p]] = "UNUSED" THEN {"ZOMBIE", "KILLED"}
  ELSE {state[parent[p]]}

(* Two errors: the parent is not woken; the current process is freed.      *)
AwakensNobody(read) == FALSE
FreedAlways(p) == TRUE

(* The parent is woken, whichever child it waits for.                      *)
Awakens(read) == read = "BLOCKEDWAITCHILD"

(* A process nobody will wait for is freed, unless it is the current one,  *)
(* which is left for the scheduler to free.                                *)
FreedAtOnce(p) == p # current

(* turn_current_process_into_a_zombie_or_kill_it, given the queues links   *)
(* and the states st that the caller has left.                             *)
TurnIntoZombie(p, links, st) ==
  \E read \in ParentReads(p) :
     LET unwanted == read \in {"NULL", "ZOMBIE"}
         wakes    == Awakens(read)
         gone     == {x \in Procs : \/ x \in ZombieTree(p)
                                   \/ (x = p /\ unwanted /\ FreedAtOnce(p))}
     IN /\ state' = [x \in Procs |->
              IF x \in gone THEN "UNUSED"
              ELSE IF x = p THEN IF unwanted THEN "KILLED" ELSE "ZOMBIE"
              ELSE IF wakes /\ x = parent[p] THEN "ACTIVATABLE"
              ELSE st[x]]
        /\ queue' = IF wakes THEN Link(links, "activatable", parent[p], prio) ELSE links
        /\ AssertThat(wakes => ~ Linked(parent[p]))
        /\ Free(gone, children)

(* The walk over stale elements reads freed memory.  It may find the       *)
(* zombie that was there and free it twice, or be lost in the list of the  *)
(* new owner, and the model stops; or go on, if there is no new owner.     *)
Leaves(p, links, st) ==
  \/ /\ Stale(p) # {}
     /\ halt' = "use_after_free"
     /\ UNCHANGED <<state, queue, lifeVars>>
  \/ /\ \A c \in Stale(p) : state[c] = "UNUSED"
     /\ TurnIntoZombie(p, links, st)

(* exit_process, which is also what kill of oneself does.                  *)
ExitProcess ==
  /\ Calling("exit") \/ (Calling("kill") /\ current \in Victims)
  /\ Leaves(current, queue, state)
  /\ CallScheduler
  /\ UNCHANGED <<prio, wake, blocked_head, current, clock>>

(* kill of another process: it leaves the queue its link is in, and the    *)
(* scheduler is not called.  A process blocked on a semaphore is the       *)
(* business of module Semaphore.                                           *)
Kill(p) ==
  /\ Calling("kill")
  /\ Alive(p) /\ p # current /\ state[p] # "BLOCKEDSEMAPHORE"
  /\ IF Linked(p) THEN Leaves(p, Unlink(queue, p), state)
     ELSE AssertThat(FALSE) /\ UNCHANGED <<state, queue, lifeVars>>
  /\ UNCHANGED <<prio, wake, blocked_head, current, clock, phase>>

-----------------------------------------------------------------------------
(* The loop of waitpid: the first zombie child it asks for is freed, or    *)
(* the process blocks, to come back here each time a child has woken it.   *)
Awaits(which, c) == which = AnyChild \/ which = c

(* The list without its i-th child, and an error that leaves it there.     *)
WithChild(list, i) == list
WithoutChild(list, i) == RemoveAt(list, i)

Reap(i) ==
  LET c == children[current][i] IN
  /\ state' = [state EXCEPT ![c] = "UNUSED"]
  /\ parent' = [parent EXCEPT ![c] = NoProc]
  /\ children' = [children EXCEPT ![current] = WithoutChild(@, i), ![c] = <<>>]
  /\ call' = [call EXCEPT ![current] = NoProc, ![c] = NoProc]
  /\ nb_proc_running' = nb_proc_running - 1
  /\ UNCHANGED phase

Block(which) ==
  /\ state' = [state EXCEPT ![current] = "BLOCKEDWAITCHILD"]
  /\ call' = [call EXCEPT ![current] = which]
  /\ CallScheduler
  /\ UNCHANGED <<parent, children, nb_proc_running>>

WaitForChild(which) ==
  LET zombie == SelectInSeq(children[current],
                   LAMBDA c : state[c] = "ZOMBIE" /\ Awaits(which, c))
  IN /\ IF zombie # 0 THEN Reap(zombie) ELSE Block(which)
     /\ UNCHANGED <<prio, wake, blocked_head, queue, current, clock, halt>>

WaitPid(which) ==
  /\ Calling("waitpid")
  /\ children[current] # <<>>
  /\ which \in {AnyChild} \cup Range(children[current])
  /\ WaitForChild(which)

(* The scheduler has switched back to a process inside waitpid.            *)
Resume ==
  /\ Running /\ ~ InUser
  /\ WaitForChild(call[current])

(* A killed process is left for the next call of scheduler() to free.      *)
Abandon ==
  /\ AtSwitch /\ current # NoProc
  /\ state[current] = "KILLED"
  /\ Dispatch("dead")
  /\ state' = [state EXCEPT ![Top] = "ACTIF"]
  /\ AssertThat(~ Linked(current))
  /\ UNCHANGED lifeVars

(* free_dead_process: one more of the processes that have left the hart.   *)
FreeDeadProcess ==
  /\ halt = "no" /\ phase = "reap"
  /\ LET top == QueueTop(queue["dead"]) IN
     /\ queue' = Pop(queue, "dead")
     /\ state' = [state EXCEPT ![top] = "UNUSED"]
     /\ Free({top}, children)
  /\ phase' = IF queue'["dead"] = <<>> THEN "switch" ELSE "reap"
  /\ UNCHANGED <<prio, wake, blocked_head, current, clock, halt>>

-----------------------------------------------------------------------------
LifeCall ==
  \/ \E p \in Procs, newprio \in Prios : StartVirtual(p, newprio)
  \/ StartVirtualBad
  \/ \E p \in Procs : Fork(p)
  \/ ExitProcess
  \/ \E p \in Victims : Kill(p)
  \/ \E which \in Procs \cup {AnyChild} : WaitPid(which)

(* What the kernel does by itself once it has been entered.                *)
KernelStep ==
  \/ SchedulerStep /\ UNCHANGED lifeVars
  \/ Abandon
  \/ FreeDeadProcess
  \/ Resume

(* A process that resumes a waitpid is in the kernel.                      *)
Interrupt ==
  /\ \/ InUser /\ Tick
     \/ TickInKernel
     \/ ~ InUser /\ TickCounted
  /\ UNCHANGED lifeVars

Next ==
  \/ Interrupt
  \/ InUser /\ SchedulerCall /\ UNCHANGED lifeVars
  \/ LifeCall
  \/ KernelStep

Spec == ProcInit /\ [][Next]_vars

(* The timer is periodic, and the kernel always gets to its end.           *)
FairSpec == Spec /\ WF_vars(Interrupt) /\ WF_vars(KernelStep)

-----------------------------------------------------------------------------
(* Properties.                                                             *)

Used(p) == state[p] # "UNUSED"

(* What has been freed is reachable neither through a queue nor as the     *)
(* current process nor as a child somebody waits for, although the frees   *)
(* are made in four places, long after the process has left.               *)
FreedIsForgotten ==
  /\ ProcTypeOK /\ QueuesDisjoint /\ NoProcessLost
  /\ halt = "no" =>
       \A p \in Procs : ~ Used(p) =>
          /\ ~ Linked(p)
          /\ p # current
          /\ \A q \in Procs : Alive(q) => call[q] # p

(* The child list of a process that can still walk it is exact: distinct   *)
(* structures in use that name it as their parent.  waitpid and exit rest  *)
(* on it, and other processes free structures.                             *)
FamilyTies ==
  halt = "no" =>
    \A p \in Procs : Alive(p) =>
       /\ NoRepeat(children[p])
       /\ \A c \in Range(children[p]) : Used(c) /\ parent[c] = p

(* No lost wake-up: a process blocked in waitpid has the child it waits    *)
(* for, and that child has not become a zombie already.                    *)
NoLostWakeup ==
  halt = "no" =>
    \A p \in Procs : state[p] = "BLOCKEDWAITCHILD" =>
       /\ \E c \in Range(children[p]) : Awaits(call[p], c)
       /\ \A c \in Range(children[p]) : Awaits(call[p], c) => state[c] # "ZOMBIE"

(* waitpid returns once a child it waits for has terminated, as long as    *)
(* nothing of a higher priority keeps the hart: the wake-up by the child,  *)
(* the dispatch and the second look at the list all happen.                *)
WaitReturns ==
  \A p, c \in Procs :
     call[p] # NoProc /\ Awaits(call[p], c) /\ c \in Range(children[p])
        /\ state[c] = "ZOMBIE"
     ~> call[p] = NoProc \/ ~ MaxPrio(p) \/ halt # "no"
=============================================================================
