------------------------------ MODULE Semaphore ------------------------------
(***************************************************************************)
(* The semaphores of sync/semaphore_api.c, and the kill of a process that  *)
(* waits for one.                                                          *)
(*                                                                         *)
(* The processes blocked on a semaphore are in a list of the semaphore's   *)
(* own, in order of priority; their embedded link is null.  Every call but *)
(* screate ends in scheduler().  A call that is refused changes nothing    *)
(* and has no action.                                                      *)
(***************************************************************************)
EXTENDS Process

CONSTANTS
  Sems,             (* the identifiers screate gives out, each once        *)
  SemCalls,         (* the semaphore calls of the program in each process  *)
  Counts,           (* the counts and numbers that programs ask for        *)
  NB_MAX_SEMS,
  MIN_COUNT, MAX_COUNT

ASSUME SemaphoreAssumption ==
  /\ Sems # {}
  /\ SemCalls \in [Procs -> SUBSET {"screate", "wait", "try_wait", "signal",
                                    "signaln", "sreset", "sdelete"}]
  /\ SemCalls[Idle] = {}
  /\ Counts \subseteq 0 .. MAX_COUNT
  /\ NB_MAX_SEMS \in Nat
  /\ MIN_COUNT \in Int /\ MAX_COUNT \in Nat /\ MIN_COUNT < 0

VARIABLES
  live,             (* the identifiers in semaphore_table                  *)
  unborn,           (* those semaphore_id_counter has not reached          *)
  count,            (* semaphore.count                                     *)
  waiting,          (* the list from head_blocked to tail_blocked          *)
  semaphore_id,     (* process.semaphore_id                                *)
  sem_signal,       (* process.sem_signal                                  *)
  freed             (* the semaphores whose list starts at a freed node    *)

semVars == <<live, unborn, count, waiting, semaphore_id, sem_signal, freed>>
allVars == <<vars, semVars>>

(* KILL_CALL comes after SRESET_CALL = -4 in the enumeration: it is -3 and *)
(* so the same value as SDETETE_CALL.                                      *)
Signals == {"SIGNAL_CALL", "SDETETE_CALL", "SRESET_CALL"}

SemTypeOK ==
  /\ live \subseteq Sems /\ unborn \subseteq Sems \ live
  /\ count \in [Sems -> MIN_COUNT .. MAX_COUNT]
  /\ waiting \in [Sems -> Seq(Procs)]
  /\ semaphore_id \in [Procs -> Sems]
  /\ sem_signal \in [Procs -> Signals]
  /\ freed \subseteq Sems

SemInit ==
  /\ ProcInit
  /\ live = {} /\ unborn = Sems
  /\ count = [s \in Sems |-> 0]
  /\ waiting = [s \in Sems |-> <<>>]
  /\ semaphore_id = [p \in Procs |-> CHOOSE s \in Sems : TRUE]  \* not read
  /\ sem_signal = [p \in Procs |-> "SIGNAL_CALL"]
  /\ freed = {}

SemAsked(name) == Running /\ InUser /\ name \in SemCalls[current]
SemCalling(name, s) == SemAsked(name) /\ s \in live

(* What no call on an existing semaphore changes.                          *)
Rest == <<prio, wake, blocked_head, current, clock, halt, lifeVars, unborn, freed>>

-----------------------------------------------------------------------------
(* Errors: last come first served; the woken stay in the list.             *)
WaitPosFront(s, p) == 1
AfterNobody(s, n) == waiting[s]

(* In front of the first waiter of a lower priority, or at the end.        *)
WaitPos(s, p) ==
  LET lower == SelectInSeq(waiting[s], LAMBDA q : prio[q] < prio[p])
  IN IF lower = 0 THEN Len(waiting[s]) + 1 ELSE lower

Woken(s, n) == SubSeq(waiting[s], 1, n)
After(s, n) == SubSeq(waiting[s], n + 1, Len(waiting[s]))

(* n times unblock_process_sem.                                            *)
Unblock(s, n, why) ==
  LET woken == Woken(s, n) IN
  /\ s \notin freed
  /\ waiting' = [waiting EXCEPT ![s] = After(s, n)]
  /\ state' = [p \in Procs |-> IF p \in Range(woken) THEN "ACTIVATABLE" ELSE state[p]]
  /\ sem_signal' = [p \in Procs |-> IF p \in Range(woken) THEN why ELSE sem_signal[p]]
  /\ queue' = LinkEach(queue, "activatable", woken, prio)

CreateSem(s, n) ==
  /\ Cardinality(live) # NB_MAX_SEMS
  /\ s \in unborn
  /\ unborn' = unborn \ {s}
  /\ live' = live \cup {s}
  /\ count' = [count EXCEPT ![s] = n]
  /\ waiting' = [waiting EXCEPT ![s] = <<>>]
  /\ UNCHANGED <<schedVars, lifeVars, semaphore_id, sem_signal, freed>>

Screate(s, n) == SemAsked("screate") /\ CreateSem(s, n)

(* The count was positive, and one unit of it is taken.                    *)
Take(s) ==
  /\ count[s] > 0
  /\ count' = [count EXCEPT ![s] = @ - 1]
  /\ CallScheduler
  /\ UNCHANGED <<state, queue, live, waiting, semaphore_id, Rest>>

(* Otherwise the process joins the list.                                   *)
Join(s) ==
  /\ s \notin freed
  /\ MIN_COUNT < count[s] /\ count[s] <= 0
  /\ count' = [count EXCEPT ![s] = @ - 1]
  /\ waiting' = [waiting EXCEPT ![s] = InsertAt(@, WaitPos(s, current), current)]
  /\ state' = [state EXCEPT ![current] = "BLOCKEDSEMAPHORE"]
  /\ semaphore_id' = [semaphore_id EXCEPT ![current] = s]
  /\ CallScheduler
  /\ UNCHANGED <<queue, live, Rest>>

(* The body of wait, for a live semaphore.                                 *)
WaitOn(s) ==
  /\ Take(s) \/ Join(s)
  /\ sem_signal' = [sem_signal EXCEPT ![current] = "SIGNAL_CALL"]

Wait(s) == SemCalling("wait", s) /\ WaitOn(s)

TryWait(s) ==
  /\ SemCalling("try_wait", s)
  /\ Take(s)
  /\ UNCHANGED sem_signal

(* signaln; signal is the case n = 1.  parent_block keeps the calls of     *)
(* signal from giving up the hart one by one.                              *)
WakeAll(n) == CallScheduler

Fits(s, n) == count[s] + n <= MAX_COUNT

SignalOn(s, n) ==
  /\ Fits(s, n)
  /\ count' = [count EXCEPT ![s] = @ + n]
  /\ Unblock(s, Min({n, Max({0, - count[s]}), Len(waiting[s])}), "SIGNAL_CALL")
  /\ WakeAll(n)
  /\ UNCHANGED <<live, semaphore_id, Rest>>

Signaln(s, n) ==
  /\ IF n = 1 THEN SemCalling("signal", s) ELSE SemCalling("signaln", s)
  /\ SignalOn(s, n)

Sreset(s, n) ==
  /\ SemCalling("sreset", s)
  /\ Unblock(s, Len(waiting[s]), "SRESET_CALL")
  /\ count' = [count EXCEPT ![s] = n]
  /\ CallScheduler
  /\ UNCHANGED <<live, semaphore_id, Rest>>

DeleteSem(s) ==
  /\ Unblock(s, Len(waiting[s]), "SDETETE_CALL")
  /\ live' = live \ {s}
  /\ CallScheduler
  /\ UNCHANGED <<count, semaphore_id, Rest>>

Sdelete(s) == SemCalling("sdelete", s) /\ DeleteSem(s)

-----------------------------------------------------------------------------
(* proc_kill_diag and remove_proc_queue.  The loop for a process in the    *)
(* middle of the list stops at the first one that is NOT the process it    *)
(* looks for, that is, at the head: whose node is freed and stays linked.  *)
InMiddle(s, p) == p # Head(waiting[s]) /\ p # Last(waiting[s])

(* An error: the count is not given back.                                  *)
KeepsCount(s) == UNCHANGED count

GivesBack(s) == count' = [count EXCEPT ![s] = @ + 1]

Taken(s, p) == IF InMiddle(s, p) THEN Head(waiting[s]) ELSE p

(* kill of a process that is blocked on a semaphore.                       *)
KillWaiter(p) ==
  LET s     == semaphore_id[p]
      taken == Taken(s, p)
  IN /\ Calling("kill")
     /\ state[p] = "BLOCKEDSEMAPHORE" /\ s \notin freed
     /\ GivesBack(s)
     /\ waiting' = [waiting EXCEPT ![s] = IF InMiddle(s, p) THEN @ ELSE QueueDel(@, p)]
     /\ freed' = IF InMiddle(s, p) THEN freed \cup {s} ELSE freed
     /\ sem_signal' = [sem_signal EXCEPT ![taken] = "SDETETE_CALL"]
     /\ Leaves(p, queue, [state EXCEPT ![taken] = "ACTIVATABLE"])
     /\ UNCHANGED <<prio, wake, blocked_head, current, clock, phase,
                    live, unborn, semaphore_id>>

(* Any call that walks the list of a freed node.                           *)
WalksFreed(s) ==
  /\ s \in freed
  /\ \/ SemCalling("wait", s) /\ MIN_COUNT < count[s] /\ count[s] <= 0
     \/ SemCalling("signal", s) /\ count[s] < 0
     \/ SemCalling("sreset", s)
     \/ SemCalling("sdelete", s)
  /\ halt' = "use_after_free"
  /\ UNCHANGED <<state, prio, wake, blocked_head, queue, current, clock, phase,
                 lifeVars, semVars>>

-----------------------------------------------------------------------------
SemCall ==
  \E s \in Sems :
     \/ \E n \in Counts : Screate(s, n) \/ Signaln(s, n) \/ Sreset(s, n)
     \/ Wait(s)
     \/ TryWait(s)
     \/ Sdelete(s)
     \/ WalksFreed(s)

SemNext ==
  \/ Next /\ UNCHANGED semVars
  \/ SemCall
  \/ \E p \in Victims : KillWaiter(p)

SemSpec == SemInit /\ [][SemNext]_allVars

-----------------------------------------------------------------------------
(* Properties.                                                             *)

(* The list of a semaphore is exactly the processes that are blocked on    *)
(* it, each once, and none of them has its link in a queue.                *)
ListExact(s) ==
  /\ NoRepeat(waiting[s])
  /\ Range(waiting[s]) =
        {p \in Procs : state[p] = "BLOCKEDSEMAPHORE" /\ semaphore_id[p] = s}
  /\ \A p \in Range(waiting[s]) : ~ Linked(p)

(* The same, for every semaphore no process was killed in the middle of,   *)
(* and nobody is blocked on a semaphore that has been deleted: waits,      *)
(* signals of several units, resets, deletions and kills leave nobody      *)
(* behind.                                                                 *)
WaitersExact ==
  /\ SemTypeOK
  /\ halt = "no" =>
       /\ \A s \in live \ freed : ListExact(s)
       /\ \A p \in Procs : state[p] = "BLOCKEDSEMAPHORE" => semaphore_id[p] \in live

(* A negative count is the number of waiters, and there are none           *)
(* otherwise: no signal is lost and none is counted twice, whether a       *)
(* waiter leaves by signal, reset or kill.                                 *)
WaitersCounted ==
  \A s \in live \ freed : Len(waiting[s]) = Max({0, - count[s]})

(* The first process of the list, the next to be woken, has the highest    *)
(* priority of those that wait.                                            *)
WaitersOrdered ==
  \A s \in live \ freed : \A i, j \in DOMAIN waiting[s] :
     i < j => prio[waiting[s][i]] >= prio[waiting[s][j]]

(* proc_kill_diag: "we remove the process from list of processes that are  *)
(* bloqued by this semaphore" (semaphore_api.c:257-258), wherever it is.   *)
KilledAreRemoved == \A s \in live : ListExact(s)
=============================================================================
