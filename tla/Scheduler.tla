------------------------------ MODULE Scheduler ------------------------------
(***************************************************************************)
(* The scheduler of the kernel: process states, the priority queues of     *)
(* process/scheduler.c, the timer interrupt (timer.c), wait_clock          *)
(* (sync/timer_api.c), settimeofday (sync/time_syscall.c) and chprio       *)
(* (process/process_api.c).                                                *)
(*                                                                         *)
(* One hart, and the kernel runs with supervisor interrupts off: a system  *)
(* call is atomic up to its call of scheduler().  A handler that calls     *)
(* scheduler() sets phase to "awake"; the iterations of its wake-up loop   *)
(* and its context switch are the only steps enabled from there until the  *)
(* phase is "user" again, when some process runs.  The one thing that does *)
(* interrupt the kernel is the machine timer, which then only counts.      *)
(*                                                                         *)
(* Other components extend this module: they block processes on queues of  *)
(* their own and end their handlers the same way.                          *)
(***************************************************************************)
EXTENDS PrioQueue, FiniteSets

CONSTANTS
  Procs,         (* the process structures                                 *)
  NoProc,        (* no process: pid -1 before the first dispatch           *)
  Boot,          (* the processes created before the first dispatch        *)
  BootPrio,      (* and their priorities                                   *)
  Idle,          (* the idle process: its program is an empty loop         *)
  Prios,         (* the priorities programs ask for                        *)
  Queues,        (* the names of all the queues a process may be linked in *)
  Sleepers,      (* the processes whose program calls wait_clock           *)
  SleepTicks,    (* with one of these numbers of ticks                     *)
  PrioTargets,   (* the processes some program calls chprio on             *)
  ClockSetters,  (* the processes whose program calls settimeofday         *)
  MaxClock       (* bound: the clock saturates here                        *)

SchedulerQueues == {"activatable", "asleep", "blocked_io", "dead"}

ASSUME SchedulerAssumption ==
  /\ SchedulerQueues \subseteq Queues
  /\ IsFiniteSet(Procs)
  /\ Boot \subseteq Procs
  /\ Idle \in Boot \ Sleepers
  /\ NoProc \notin Procs
  /\ Prios \subseteq Nat
  /\ BootPrio \in [Boot -> 1 .. 256]
  /\ SleepTicks \subseteq Nat
  /\ PrioTargets \subseteq Procs
  /\ MaxClock \in Nat

VARIABLES
  state,         (* process.state; "UNUSED" when there is no such process  *)
  prio,          (* process.prio                                           *)
  wake,          (* process.wake_time, minus the tick to wake up at        *)
  blocked_head,  (* process.message.blocked_head                           *)
  queue,         (* the contents of every queue                            *)
  current,       (* the process of current_running_process_pid             *)
  clock,         (* time_counter                                           *)
  phase,         (* "user", or how far scheduler() is                      *)
  halt           (* "no", or the error the run of the kernel ended with    *)

procVars  == <<state, prio, wake, blocked_head>>
schedVars == <<state, prio, wake, blocked_head, queue, current, clock, phase, halt>>

States == {"UNUSED", "ACTIF", "ACTIVATABLE", "BLOCKEDSEMAPHORE", "BLOCKEDIO",
           "BLOCKEDQUEUE", "BLOCKEDWAITCHILD", "ASLEEP", "ZOMBIE", "KILLED"}

Phases == {"user", "awake", "reap", "switch"}

Halts == {"no", "assert", "use_after_free", "spins"}

SchedTypeOK ==
  /\ state \in [Procs -> States]
  /\ prio \in [Procs -> 1 .. 256]
  /\ wake \in [Procs -> Int]
  /\ blocked_head \in [Procs -> Queues]
  /\ queue \in [Queues -> Seq(Procs)]
  /\ current \in Procs \cup {NoProc}
  /\ clock \in 0 .. MaxClock
  /\ phase \in Phases
  /\ halt \in Halts

-----------------------------------------------------------------------------
(* p is on queue n, p is on some queue (its embedded link is not null).    *)
In(p, n)  == Has(queue[n], p)
Linked(p) == \E n \in Queues : In(p, n)

(* An error: queue_top in place of queue_out.                              *)
PopNothing(f, n) == f

(* The queues f after a queue_add to n, a queue_out of n, and a queue_del,  *)
(* which reaches the list through the element: wherever it is linked.      *)
Link(f, n, p, key) == [f EXCEPT ![n] = QueueAdd(@, p, key)]
Pop(f, n)          == [f EXCEPT ![n] = QueueOut(@)]
Unlink(f, p)       == [n \in Queues |-> QueueDel(f[n], p)]

(* A queue_add to n of each element of a list, from its first to its last. *)
LinkEach(f, n, list, key) ==
  LET links[i \in 0 .. Len(list)] ==
        IF i = 0 THEN f ELSE Link(links[i - 1], n, list[i], key)
  IN links[Len(list)]

Alive(p) == state[p] \notin {"UNUSED", "ZOMBIE", "KILLED"}

(* Some process runs in user mode: a system call or an interrupt may come. *)
Running == halt = "no" /\ phase = "user" /\ current # NoProc

(* The failure of an assert stops the machine; what the other variables    *)
(* hold in that state means nothing.                                       *)
AssertThat(cond) == halt' = IF cond THEN halt ELSE "assert"

CallScheduler == phase' = "awake"

(* The priorities from MINPRIO to MAXPRIO, and an error at the lower end.  *)
ValidPrioOrZero(newprio) == newprio \in 0 .. 256
ValidPrio(newprio) == newprio \in 1 .. 256

-----------------------------------------------------------------------------
(* The kernel starts with the boot processes activatable and none running. *)
BootOrders ==
  {q \in SetToSeqs(Boot) : Range(q) = Boot /\ Ascending(q, BootPrio)}

SchedInit ==
  /\ state = [p \in Procs |-> IF p \in Boot THEN "ACTIVATABLE" ELSE "UNUSED"]
  /\ prio = [p \in Procs |-> IF p \in Boot THEN BootPrio[p] ELSE 1]
  /\ wake = [p \in Procs |-> 0]
  /\ blocked_head = [p \in Procs |-> "blocked_io"]
  /\ \E q \in BootOrders :
        queue = [n \in Queues |-> IF n = "activatable" THEN q ELSE <<>>]
  /\ current = NoProc
  /\ clock = 0
  /\ phase = "user"
  /\ halt = "no"

-----------------------------------------------------------------------------
(* The timer interrupt: it comes from user mode, or for the first time,    *)
(* and the kernel is entered through scheduler().                          *)
NextTick == IF clock < MaxClock THEN clock + 1 ELSE clock

Tick ==
  /\ halt = "no" /\ phase = "user"
  /\ clock' = NextTick
  /\ CallScheduler
  /\ UNCHANGED <<procVars, queue, current, halt>>

(* The machine timer interrupts the kernel: the tick is counted, and the   *)
(* supervisor interrupt is not raised.                                     *)
TickCounted ==
  /\ halt = "no"
  /\ clock < MaxClock
  /\ clock' = clock + 1
  /\ UNCHANGED <<procVars, queue, current, phase, halt>>

TickInKernel == phase # "user" /\ TickCounted

(* wait_clock.  The bound keeps every wake-up within reach of the clock.   *)
WaitClock(ticks) ==
  /\ Running
  /\ clock + ticks < MaxClock
  /\ wake' = [wake EXCEPT ![current] = - (clock + ticks)]
  /\ state' = [state EXCEPT ![current] = "ASLEEP"]
  /\ queue' = Link(queue, "asleep", current, wake')
  /\ AssertThat(~ Linked(current))
  /\ CallScheduler
  /\ UNCHANGED <<prio, blocked_head, current, clock>>

(* settimeofday restarts the tick counter.                                 *)
SetTimeOfDay ==
  /\ Running
  /\ clock' = 0
  /\ UNCHANGED <<procVars, queue, current, phase, halt>>

(* The list chprio puts a process back on, from the state it is in.        *)
ListOf(p) ==
  CASE state[p] = "ACTIVATABLE"  -> "activatable"
    [] state[p] = "BLOCKEDQUEUE" -> blocked_head[p]
    [] state[p] = "BLOCKEDIO"    -> "blocked_io"

ChPrio(p, newprio) ==
  /\ Running
  /\ ValidPrio(newprio) /\ Alive(p)
  /\ prio' = [prio EXCEPT ![p] = newprio]
  /\ \/ /\ state[p] \in {"ACTIVATABLE", "BLOCKEDQUEUE", "BLOCKEDIO"}
        /\ queue' = Link(Unlink(queue, p), ListOf(p), p, prio')
        /\ AssertThat(Linked(p))
     \/ /\ state[p] \in {"ACTIF", "ASLEEP", "BLOCKEDSEMAPHORE", "BLOCKEDWAITCHILD"}
        /\ UNCHANGED <<queue, halt>>
  /\ IF state[p] \in {"ACTIVATABLE", "ACTIF"} THEN CallScheduler ELSE UNCHANGED phase
  /\ UNCHANGED <<state, wake, blocked_head, current, clock>>

-----------------------------------------------------------------------------
(* Two errors of the wake-up: a tick too early, or only on the very tick.  *)
DueBefore ==
  /\ queue["asleep"] # <<>>
  /\ LET w == wake[QueueTop(queue["asleep"])] IN w # 0 /\ clock >= - w - 1

DueExactly ==
  /\ queue["asleep"] # <<>>
  /\ LET w == wake[QueueTop(queue["asleep"])] IN w # 0 /\ clock = 1 - w

(* scheduler(), first the sleepers whose time has come.  The loop of       *)
(* awake_sleeping_process looks at the top of the queue only, and a wake   *)
(* time of 0 stands for an empty queue.  The state is left ASLEEP.         *)
Due ==
  /\ queue["asleep"] # <<>>
  /\ LET w == wake[QueueTop(queue["asleep"])] IN w # 0 /\ clock > - w

AwakeOne ==
  /\ halt = "no" /\ phase = "awake" /\ Due
  /\ queue' = Link(Pop(queue, "asleep"), "activatable", QueueTop(queue["asleep"]), prio)
  /\ UNCHANGED <<procVars, current, clock, phase, halt>>

AwakeDone ==
  /\ halt = "no" /\ phase = "awake" /\ ~ Due
  /\ phase' = IF queue["dead"] = <<>> THEN "switch" ELSE "reap"
  /\ UNCHANGED <<procVars, queue, current, clock, halt>>

Top == QueueTop(queue["activatable"])

(* An error of the dispatch: the process it leaves is not kept.            *)
DispatchNoAdd(from) ==
  /\ current' = Top
  /\ queue' = Pop(queue, "activatable")
  /\ phase' = "user"
  /\ UNCHANGED <<prio, wake, blocked_head, clock>>

(* Then the dispatch: run top, and leave the current process where from    *)
(* says: on one of the queues, or on none if it has blocked.               *)
Dispatch(from) ==
  /\ current' = Top
  /\ queue' = LET out == Pop(queue, "activatable") IN
              IF from = "none" THEN out ELSE Link(out, from, current, prio)
  /\ phase' = "user"
  /\ UNCHANGED <<prio, wake, blocked_head, clock>>

AtSwitch == halt = "no" /\ phase = "switch" /\ queue["activatable"] # <<>>

First ==
  /\ AtSwitch /\ current = NoProc
  /\ Dispatch("none")
  /\ state' = [state EXCEPT ![Top] = "ACTIF"]
  /\ UNCHANGED halt

(* An active process gives way to its equals and betters.                  *)
Preempt ==
  /\ AtSwitch /\ current # NoProc
  /\ state[current] = "ACTIF" /\ prio[Top] >= prio[current]
  /\ Dispatch("activatable")
  /\ state' = [state EXCEPT ![current] = "ACTIVATABLE", ![Top] = "ACTIF"]
  /\ AssertThat(~ Linked(current))

(* A blocked process, or a zombie, is on the queue it waits on already.    *)
Leave ==
  /\ AtSwitch /\ current # NoProc
  /\ state[current] \notin {"ACTIF", "KILLED"}
  /\ Dispatch("none")
  /\ state' = [state EXCEPT ![Top] = "ACTIF"]
  /\ UNCHANGED halt

Stay ==
  /\ halt = "no" /\ phase = "switch"
  /\ \/ queue["activatable"] = <<>>
     \/ /\ AtSwitch /\ current # NoProc
        /\ state[current] = "ACTIF" /\ prio[Top] < prio[current]
  /\ phase' = "user"
  /\ UNCHANGED <<procVars, queue, current, clock, halt>>

-----------------------------------------------------------------------------
SchedulerStep ==
  AwakeOne \/ AwakeDone \/ First \/ Preempt \/ Leave \/ Stay

SchedulerCall ==
  \/ current \in Sleepers /\ \E ticks \in SleepTicks : WaitClock(ticks)
  \/ current \in ClockSetters /\ SetTimeOfDay
  \/ \E p \in PrioTargets, newprio \in Prios : ChPrio(p, newprio)

SchedNext == Tick \/ TickInKernel \/ SchedulerCall \/ SchedulerStep

SchedSpec == SchedInit /\ [][SchedNext]_schedVars

(* The timer is periodic, and the kernel always gets to its end.           *)
SchedFairSpec ==
  SchedSpec /\ WF_schedVars(Tick \/ TickInKernel) /\ WF_schedVars(SchedulerStep)

-----------------------------------------------------------------------------
(* Properties.                                                             *)

(* Every queue shares the one link embedded in the process structure, so   *)
(* no process may be linked twice: the assertions of queue_add and         *)
(* queue_del (src/lib/include/queue.h:78,157) rest on it.                  *)
QueuesDisjoint ==
  \A n, m \in Queues : \A i \in DOMAIN queue[n], j \in DOMAIN queue[m] :
     queue[n][i] = queue[m][j] => n = m /\ i = j

(* The state of every process tells which queues it can be linked in, at   *)
(* every step inside scheduler() too: the invariant the others rest on.  A *)
(* woken sleeper waits among the activatable processes and is still marked *)
(* ASLEEP; a running one is linked nowhere; and the idle process is always *)
(* ready, so there is a process to give the hart to.                       *)
LinkMatchesState(p) ==
  /\ state[p] \in {"UNUSED", "ACTIF", "ACTIVATABLE", "ASLEEP"}
  /\ state[p] = "UNUSED" => ~ Linked(p)
  /\ state[p] = "ACTIF" => p = current /\ ~ Linked(p)
  /\ state[p] = "ACTIVATABLE" => In(p, "activatable")
  /\ state[p] = "ASLEEP" => In(p, "asleep") \/ In(p, "activatable")
  /\ In(p, "asleep") => state[p] = "ASLEEP"
  /\ \A n \in Queues \ {"asleep", "activatable"} : ~ In(p, n)

LinksMatchStates ==
  /\ \A p \in Procs : LinkMatchesState(p)
  /\ current # NoProc =>
        state[current] \in (IF phase = "user" THEN {"ACTIF"} ELSE {"ACTIF", "ASLEEP"})
  /\ state[Idle] \in {"ACTIF", "ACTIVATABLE"}

(* No assertion of queue.h ever fails: the kernel does not stop.           *)
NoAssertFails == halt # "assert"

(* While user code runs, a live process that does not wait for a semaphore *)
(* or a child is the current one or is linked in some queue, never both    *)
(* and never neither: no process is lost by the wake-up and dispatch steps.*)
NoProcessLost ==
  halt = "no" /\ phase = "user" =>
    \A p \in Procs :
       Alive(p) /\ state[p] \notin {"BLOCKEDSEMAPHORE", "BLOCKEDWAITCHILD"}
          => (p = current <=> ~ Linked(p))

(* The process that runs is the one whose state says so, and no activatable*)
(* process has a higher priority: the order in which scheduler(), chprio   *)
(* and the wake-ups use queue_add keeps the top of the queue the maximum.  *)
HighestPriorityRuns ==
  halt = "no" /\ phase = "user" /\ current # NoProc =>
    /\ \A p \in Procs : state[p] = "ACTIF" <=> p = current
    /\ \A p \in Procs : In(p, "activatable") => prio[p] <= prio[current]

(* A process that called wait_clock runs again no earlier than the tick it *)
(* asked for, however its wake-up and its dispatch are separated.          *)
NeverEarly ==
  [][\A p \in Procs :
        state[p] = "ASLEEP" /\ state'[p] = "ACTIF" => clock >= - wake[p]]_schedVars

(* The wake-up loop stops at the first process that is not due, and leaves *)
(* no due process behind it: the sleep queue is ordered by wake time.      *)
NoneOverslept ==
  [][AwakeDone => \A p \in Procs : In(p, "asleep") => clock <= - wake[p]]_schedVars

(* Every sleeper is woken, unless the clock is set back for ever: the      *)
(* timer interrupt keeps coming, and the loop of awake_sleeping_process    *)
(* reaches everyone who is due.                                            *)
SleepersWake ==
  \A p \in Procs : []<>(clock = 0) \/ (In(p, "asleep") ~> ~ In(p, "asleep"))

(* A process of the highest priority is not passed over for ever by its    *)
(* equals: queue_add puts a preempted process behind those that wait.      *)
MaxPrio(p) == \A r \in Procs : In(r, "activatable") \/ r = current => prio[r] <= prio[p]

RoundRobin ==
  \A p \in Procs :
     In(p, "activatable") /\ MaxPrio(p)
        ~> current = p \/ ~ MaxPrio(p) \/ ~ In(p, "activatable")
=============================================================================
