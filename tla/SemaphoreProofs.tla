--------------------------- MODULE SemaphoreProofs ---------------------------
(***************************************************************************)
(* The semaphores for any set of processes, programs, counts and           *)
(* semaphores: the three invariants of Semaphore as theorems.              *)
(*                                                                         *)
(* The inductive invariant SemInv adds to ProcInv the two facts about a    *)
(* semaphore that a call changes together: its list is exactly the         *)
(* processes that are blocked on it, and a count below zero is their       *)
(* number. Neither is inductive alone: the processes a signal wakes are    *)
(* linked in the activatable queue, where they must not be already, which  *)
(* the states of the processes in the list show; a signal decides by the   *)
(* count how many to wake; and the kill of a waiter gives back a unit that *)
(* only the length of the list shows to be owed.                           *)
(*                                                                         *)
(* Of a semaphore whose waiter has been killed in the middle of the list   *)
(* nothing is said (freed), nor of the list of any when the machine has    *)
(* stopped. ReadyLinked of ProcessProofs is not kept: that kill makes a    *)
(* process ready that is in no queue.                                      *)
(*                                                                         *)
(* WaitersOrdered needs the hypothesis NoneReordered, because chprio       *)
(* leaves a waiter where it is.                                            *)
(***************************************************************************)
EXTENDS Semaphore, ProcessProofs

-----------------------------------------------------------------------------
(* The steps of Process leave the processes blocked on a semaphore alone,  *)
(* but for their priority.                                                 *)
WaitersSpared ==
  \A p \in Procs :
     /\ state'[p] = "BLOCKEDSEMAPHORE" <=> state[p] = "BLOCKEDSEMAPHORE"
     /\ state[p] = "BLOCKEDSEMAPHORE" => prio'[p] = prio[p] \/ p \in PrioTargets

(* Ticks, the calls of Scheduler and the steps of scheduler(), which takes *)
(* nobody off the activatable queue that is blocked on a semaphore.        *)
LEMMA SchedulerSpares ==
  ASSUME ProcInv,
         \/ Interrupt \/ SchedulerCall \/ SchedulerStep
         \/ Abandon
  PROVE  WaitersSpared
<1> USE ProcFacts
<1>1. CASE Interrupt
  BY <1>1 DEF Interrupt, Tick, TickInKernel, TickCounted, procVars, WaitersSpared
<1>2. CASE SchedulerCall
  <2>1. ASSUME NEW ticks \in SleepTicks, WaitClock(ticks) PROVE WaitersSpared
    <3>1. state[current] = "ACTIF" /\ current \in Procs
      BY <2>1, OnTheHart DEF WaitClock
    <3> QED BY <2>1, <3>1 DEF WaitClock, WaitersSpared
  <2>2. CASE SetTimeOfDay
    BY <2>2 DEF SetTimeOfDay, procVars, WaitersSpared
  <2>3. ASSUME NEW p \in PrioTargets, NEW newprio \in Prios, ChPrio(p, newprio)
        PROVE  WaitersSpared
    BY <2>3 DEF ChPrio, WaitersSpared
  <2> QED BY <1>2, <2>1, <2>2, <2>3 DEF SchedulerCall
<1>3. CASE AwakeOne \/ AwakeDone \/ Stay
  BY <1>3 DEF AwakeOne, AwakeDone, Stay, procVars, WaitersSpared
<1>4. AtSwitch => Top \in Procs /\ state[Top] # "BLOCKEDSEMAPHORE"
  <2> SUFFICES ASSUME AtSwitch PROVE Top \in Procs /\ state[Top] # "BLOCKEDSEMAPHORE"
    OBVIOUS
  <2>1. queue["activatable"] \in Seq(Procs) /\ queue["activatable"] # <<>>
    BY SchedulerQueuesExist DEF AtSwitch
  <2>2. Top \in Procs /\ Has(queue["activatable"], Top)
    BY <2>1, QueueOutFacts DEF Top
  <2> QED BY <2>2, UnlinkedStates, SchedulerQueuesExist
<1>5. CASE First \/ Leave \/ Abandon
  <2>1. /\ AtSwitch /\ state' = [state EXCEPT ![Top] = "ACTIF"]
        /\ prio' = prio
    BY <1>5 DEF First, Leave, Abandon, Dispatch
  <2> QED BY <1>4, <2>1 DEF WaitersSpared
<1>6. CASE Preempt
  <2>1. /\ AtSwitch /\ state' = [state EXCEPT ![current] = "ACTIVATABLE", ![Top] = "ACTIF"]
        /\ prio' = prio /\ current \in Procs /\ state[current] = "ACTIF"
    BY <1>6 DEF Preempt, Dispatch
  <2> QED BY <1>4, <2>1 DEF WaitersSpared
<1> QED BY <1>1, <1>2, <1>3, <1>5, <1>6 DEF SchedulerStep

(* The end of a process wakes at most its parent, which waits in waitpid.  *)
LEMMA DepartureSpares ==
  ASSUME ProcInv, NEW p \in Procs, Alive(p), state[p] # "BLOCKEDSEMAPHORE", p # Idle, Running,
         NEW links, links \in [Queues -> Seq(Procs)], DisjointIn(links),
         \A m \in Queues : \A x : Has(links[m], x) <=> Has(queue[m], x) /\ x # p,
         Leaves(p, links, state),
         UNCHANGED <<prio, wake, blocked_head, current, clock>>,
         phase' \in {"user", "awake"}, p = current => phase' = "awake"
  PROVE  WaitersSpared
<1>1. CASE UNCHANGED state
  BY <1>1 DEF WaitersSpared
<1>2. CASE (\A c \in Stale(p) : state[c] = "UNUSED") /\ TurnIntoZombie(p, links, state)
  <2>1. OnlyRouses(p, state)
    BY ProcFacts DEF OnlyRouses
  <2>2. \A x \in Procs :
           state'[x] = "BLOCKEDSEMAPHORE" <=> x # p /\ state[x] = "BLOCKEDSEMAPHORE"
    BY <1>2, <2>1, TurnKeeps
  <2> QED BY <2>2 DEF WaitersSpared
<1> QED BY <1>1, <1>2 DEF Leaves

(* The calls of Process: what start, fork, waitpid and the reaping of the  *)
(* dead change are other processes.                                        *)
LEMMA LifeSpares ==
  ASSUME ProcInv, LifeCall \/ Resume \/ FreeDeadProcess
  PROVE  WaitersSpared
<1> USE ProcFacts
<1>1. ASSUME NEW p \in Procs, NEW newprio, Create(p, newprio) PROVE WaitersSpared
  BY <1>1 DEF Create, WaitersSpared
<1>2. CASE StartVirtualBad
  BY <1>2 DEF StartVirtualBad, schedVars, WaitersSpared
<1>3. CASE ExitProcess
  <2>1. /\ Running /\ current \in Procs /\ Alive(current) /\ state[current] = "ACTIF"
        /\ \A m \in Queues : ~ Has(queue[m], current)
    BY <1>3, OnTheHart DEF ExitProcess, Calling, Alive
  <2>2. current # Idle
    BY <1>3, <2>1, ProcessAssumption DEF ExitProcess, Calling
  <2>3. /\ Leaves(current, queue, state) /\ phase' = "awake"
        /\ UNCHANGED <<prio, wake, blocked_head, current, clock>>
    BY <1>3 DEF ExitProcess, CallScheduler
  <2>4. \A m \in Queues : \A x : Has(queue[m], x) <=> Has(queue[m], x) /\ x # current
    BY <2>1
  <2>5. state[current] # "BLOCKEDSEMAPHORE" /\ phase' \in {"user", "awake"}
    BY <2>1, <2>3
  <2> QED BY <2>1, <2>2, <2>3, <2>4, <2>5, DepartureSpares
<1>4. ASSUME NEW p \in Victims, Kill(p) PROVE WaitersSpared
  <2>1. /\ Running /\ p \in Procs /\ Alive(p) /\ p # Idle /\ p # current
        /\ state[p] # "BLOCKEDSEMAPHORE" /\ phase' = "user"
        /\ UNCHANGED <<prio, wake, blocked_head, current, clock>>
    BY <1>4, ProcessAssumption DEF Kill, Calling, Running
  <2>2. CASE Leaves(p, Unlink(queue, p), state)
    <3>1. /\ Unlink(queue, p) \in [Queues -> Seq(Procs)] /\ DisjointIn(Unlink(queue, p))
          /\ \A m \in Queues : \A x : Has(Unlink(queue, p)[m], x) <=> Has(queue[m], x) /\ x # p
      BY DelFrom
    <3> QED BY <2>1, <2>2, <3>1, DepartureSpares
  <2>3. CASE UNCHANGED state
    BY <2>1, <2>3 DEF WaitersSpared
  <2> QED BY <1>4, <2>2, <2>3 DEF Kill
<1>5. ASSUME NEW which, Running, WaitForChild(which)
      PROVE  WaitersSpared
  <2>1. current \in Procs /\ state[current] = "ACTIF"
    BY <1>5, OnTheHart
  <2>2. CASE Block(which)
    BY <1>5, <2>1, <2>2 DEF Block, WaitForChild, WaitersSpared
  <2>3. ASSUME NEW i \in DOMAIN children[current], state[children[current][i]] = "ZOMBIE", Reap(i)
        PROVE  WaitersSpared
    BY <1>5, <2>3 DEF Reap, WaitForChild, WaitersSpared
  <2> QED BY <1>5, <2>2, <2>3, WaitForChildCases
<1>6. CASE FreeDeadProcess
  BY <1>6, DeadTop DEF FreeDeadProcess, WaitersSpared
<1>7. CASE Resume \/ \E which \in Procs \cup {AnyChild} : WaitPid(which)
  BY <1>5, <1>7 DEF Resume, WaitPid, Calling
<1>8. CASE \/ \E p \in Procs, newprio \in Prios : StartVirtual(p, newprio)
           \/ \E p \in Procs : Fork(p)
  BY <1>1, <1>8 DEF StartVirtual, Fork
<1> QED BY <1>2, <1>3, <1>4, <1>6, <1>7, <1>8 DEF LifeCall

(* Every step of Process.                                                  *)
LEMMA NextSpares ==
  ASSUME ProcInv, [Next]_vars
  PROVE  WaitersSpared
<1>1. CASE Next
  BY <1>1, SchedulerSpares, LifeSpares DEF Next, KernelStep
<1>2. CASE UNCHANGED vars
  BY <1>2 DEF vars, schedVars, WaitersSpared
<1> QED BY <1>1, <1>2

-----------------------------------------------------------------------------
(* The first n waiters and the others.                                     *)
LEMMA SplitFacts ==
  ASSUME NEW S, NEW q \in Seq(S), NEW n \in 0 .. Len(q), NoRepeat(q)
  PROVE  LET A == SubSeq(q, 1, n)
             C == SubSeq(q, n + 1, Len(q))
         IN /\ A \in Seq(S) /\ NoRepeat(A)
            /\ C \in Seq(S) /\ NoRepeat(C) /\ Len(C) = Len(q) - n
            /\ \A x : x \in Range(q) <=> x \in Range(A) \/ x \in Range(C)
            /\ \A x : ~ (x \in Range(A) /\ x \in Range(C))
            /\ \A key : Ascending(q, key) => Ascending(C, key)
<1> DEFINE A == SubSeq(q, 1, n)
           C == SubSeq(q, n + 1, Len(q))
<1>1. Len(q) \in Nat /\ DOMAIN q = 1 .. Len(q) /\ n \in Nat /\ n <= Len(q)
  OBVIOUS
<1>2. A \in Seq(S) /\ DOMAIN A = 1 .. n /\ \A i \in 1 .. n : A[i] = q[i]
  OBVIOUS
<1>3. C \in Seq(S) /\ Len(C) = Len(q) - n
  <2>1. CASE n < Len(q)
    OBVIOUS
  <2>2. CASE n = Len(q)
    <3>1. n + 1 \in Int /\ Len(q) \in Int /\ Len(q) < n + 1
      BY <1>1, <2>2
    <3>2. C = <<>>
      BY <3>1, SubSeqEmpty
    <3> QED BY <1>1, <2>2, <3>2
  <2>3. n < Len(q) \/ n = Len(q)
    <3>1. n \in Int /\ Len(q) \in Int /\ n <= Len(q)
      BY <1>1
    <3> QED BY ONLY <3>1
  <2> QED BY ONLY <2>1, <2>2, <2>3
<1>4. DOMAIN C = 1 .. Len(q) - n /\ \A i \in 1 .. Len(q) - n : C[i] = q[n + i]
  <2>1. /\ n + 1 \in Int /\ Len(q) \in Int /\ \A i \in n + 1 .. Len(q) : q[i] \in S
    BY <1>1
  <2>2. \A i \in 1 .. Len(q) - (n + 1) + 1 : C[i] = q[(n + 1) + i - 1]
    BY <2>1, SubSeqProperties
  <2> HIDE DEF C
  <2>3. \A i \in 1 .. Len(q) - n : i \in 1 .. Len(q) - (n + 1) + 1 /\ (n + 1) + i - 1 = n + i
    BY <1>1
  <2> QED BY <1>3, <2>2, <2>3
<1> HIDE DEF A, C
<1>5. \A i \in 1 .. Len(q) - n : n + i \in 1 .. Len(q) /\ n + i > n
  BY <1>1
<1>6. \A i \in 1 .. n : i \in 1 .. Len(q)
  BY <1>1
<1>7. NoRepeat(A)
  BY <1>1, <1>2, <1>6 DEF NoRepeat
<1>8. NoRepeat(C)
  <2> SUFFICES ASSUME NEW i \in 1 .. Len(q) - n, NEW j \in 1 .. Len(q) - n, C[i] = C[j]
               PROVE  i = j
    BY <1>4 DEF NoRepeat
  <2>1. n + i = n + j
    BY <1>1, <1>4, <1>5 DEF NoRepeat
  <2> QED BY <1>1, <2>1
<1>9. ASSUME NEW key, Ascending(q, key) PROVE Ascending(C, key)
  <2> SUFFICES ASSUME NEW i \in 1 .. Len(q) - n, NEW j \in 1 .. Len(q) - n, i < j
               PROVE  key[C[i]] <= key[C[j]]
    BY <1>4 DEF Ascending
  <2>1. n + i < n + j
    BY <1>1
  <2> QED BY <1>1, <1>4, <1>5, <1>9, <2>1 DEF Ascending
<1>10. \A x : x \in Range(q) <=> \E i \in 1 .. Len(q) : q[i] = x
  BY <1>1 DEF Range
<1>11. \A x : x \in Range(A) <=> \E i \in 1 .. n : q[i] = x
  BY <1>2 DEF Range
<1>12. \A x : x \in Range(C) <=> \E i \in 1 .. Len(q) - n : q[n + i] = x
  BY <1>4 DEF Range
<1>13. ASSUME NEW i \in 1 .. Len(q), i > n
       PROVE  \E j \in 1 .. Len(q) - n : n + j = i
  <2>1. i - n \in 1 .. Len(q) - n /\ n + (i - n) = i
    BY <1>1, <1>13
  <2> QED BY <2>1
<1>14. ASSUME NEW x, x \in Range(q) PROVE x \in Range(A) \/ x \in Range(C)
  <2>1. PICK i \in 1 .. Len(q) : q[i] = x
    BY <1>10, <1>14
  <2>2. CASE i <= n
    <3>1. i \in 1 .. n
      BY <1>1, <2>2
    <3> QED BY <1>11, <2>1, <3>1
  <2>3. CASE i > n
    BY <1>12, <1>13, <2>1, <2>3
  <2> QED BY <1>1, <2>2, <2>3
<1>15. ASSUME NEW x, x \in Range(A) \/ x \in Range(C) PROVE x \in Range(q)
  BY <1>5, <1>6, <1>10, <1>11, <1>12, <1>15
<1>16. ASSUME NEW x, x \in Range(A), x \in Range(C) PROVE FALSE
  <2>1. PICK i \in 1 .. n : q[i] = x
    BY <1>11, <1>16
  <2>2. PICK j \in 1 .. Len(q) - n : q[n + j] = x
    BY <1>12, <1>16
  <2>3. i = n + j
    BY <1>1, <1>5, <1>6, <2>1, <2>2 DEF NoRepeat
  <2> QED BY <1>1, <1>5, <2>1, <2>3
<1> QED BY <1>2, <1>3, <1>7, <1>8, <1>9, <1>14, <1>15, <1>16 DEF A, C

-----------------------------------------------------------------------------
(* What the calls on semaphores do to the processes.  The current one goes *)
(* on, or gives up the hart; ...                                           *)
LEMMA GoesOn ==
  ASSUME ProcInv, Running, UNCHANGED <<state, queue, prio, wake, blocked_head, current, clock, lifeVars>>,
         halt' \in Halts, phase' \in {"user", "awake"}
  PROVE  ProcInv'
BY HaltKeeps DEF Running

(* ... it blocks; ...                                                      *)
LEMMA JoinKeeps ==
  ASSUME ProcInv, Running, current # Idle,
         state' = [state EXCEPT ![current] = "BLOCKEDSEMAPHORE"], phase' = "awake",
         UNCHANGED <<prio, wake, blocked_head, queue, current, clock, halt, lifeVars>>
  PROVE  ProcInv'
<1>1. /\ current \in Procs /\ state[current] = "ACTIF" /\ phase = "user"
      /\ \A n \in Queues : ~ Has(queue[n], current)
  BY OnTheHart
<1>2. /\ state' \in [Procs -> States]
      /\ \A x \in Procs : state'[x] = IF x = current THEN "BLOCKEDSEMAPHORE" ELSE state[x]
  BY <1>1, ProcFacts DEF States
<1>3. SchedTypeOK' /\ QueuesDisjoint'
  BY <1>1, <1>2 DEF ProcInv, SchedTypeOK, QueuesDisjoint, Phases
<1>4. LinksFit'
  <2>1. ASSUME NEW x \in Procs, NEW n \in Queues, Has(queue[n], x) PROVE MayBeIn(x, n)'
    <3>1. MayBeIn(x, n) /\ state'[x] = state[x]
      BY <1>1, <1>2, <2>1 DEF ProcInv, LinksFit, In
    <3> QED BY <3>1 DEF MayBeIn
  <2>2. ASSUME NEW x \in Procs, state'[x] = "BLOCKEDQUEUE"
        PROVE  blocked_head[x] \notin {"activatable", "asleep", "dead"}
    BY <1>2, <2>2 DEF ProcInv, LinksFit
  <2> QED BY <2>1, <2>2 DEF LinksFit, In
<1>5. HartFits'
  BY <1>1, <1>2, ProcFacts DEF ProcInv, HartFits, In
<1>6. ProcTypeOK' /\ OfTheLiving' /\ Waiting' /\ CallsFit'
  <2>1. \A x \in Procs : state'[x] = state[x] \/ (state[x] \in Present /\ state'[x] \in Present)
    BY <1>1, <1>2 DEF Present
  <2> QED BY <2>1, FamiliesKept
<1> QED BY <1>3, <1>4, <1>5, <1>6 DEF ProcInv

(* ... or it wakes others.                                                 *)
LEMMA WakeKeeps ==
  ASSUME ProcInv, Running, NEW list \in Seq(Procs), NoRepeat(list),
         \A p \in Range(list) : state[p] = "BLOCKEDSEMAPHORE",
         state' = [p \in Procs |-> IF p \in Range(list) THEN "ACTIVATABLE" ELSE state[p]],
         queue' = LinkEach(queue, "activatable", list, prio), phase' = "awake",
         UNCHANGED <<prio, wake, blocked_head, current, clock, halt, lifeVars>>
  PROVE  ProcInv'
<1> USE SchedulerQueuesExist
<1>1. /\ current \in Procs /\ state[current] = "ACTIF" /\ phase = "user"
      /\ \A n \in Queues : ~ Has(queue[n], current)
  BY OnTheHart
<1>2. \A p \in Range(list) : p \in Procs /\ p # current /\ p # Idle
                              /\ \A n \in Queues : ~ Has(queue[n], p)
  <2>1. \A p \in Range(list) : p \in Procs
    BY DEF Range
  <2> QED BY <1>1, <2>1, UnlinkedStates DEF ProcInv, HartFits
<1>3. \A i \in DOMAIN list : list[i] \in Range(list)
  BY DEF Range
<1>4. /\ queue' \in [Queues -> Seq(Procs)] /\ DisjointIn(queue')
      /\ \A m \in Queues : \A x :
            Has(queue'[m], x) <=> Has(queue[m], x) \/ (m = "activatable" /\ x \in Range(list))
  <2>1. queue \in [Queues -> Seq(Procs)] /\ DisjointIn(queue) /\ prio \in [Procs -> Int]
    BY ProcFacts
  <2>2. \A m \in Queues : \A i \in DOMAIN list : ~ Has(queue[m], list[i])
    BY <1>2, <1>3
  <2> QED BY <2>1, <2>2, LinkEachFacts
<1>5. /\ state' \in [Procs -> States]
      /\ \A x \in Procs : state'[x] = IF x \in Range(list) THEN "ACTIVATABLE" ELSE state[x]
  BY ProcFacts DEF States
<1>6. SchedTypeOK'
  BY <1>1, <1>4, <1>5 DEF ProcInv, SchedTypeOK, Phases
<1>7. LinksFit'
  <2>1. ASSUME NEW x \in Procs, NEW n \in Queues, Has(queue'[n], x) PROVE MayBeIn(x, n)'
    <3>1. CASE x \in Range(list)
      BY <1>2, <1>4, <1>5, <2>1, <3>1 DEF MayBeIn
    <3>2. CASE x \notin Range(list)
      <4>1. MayBeIn(x, n) /\ state'[x] = state[x]
        BY <1>4, <1>5, <2>1, <3>2 DEF ProcInv, LinksFit, In
      <4> QED BY <4>1 DEF MayBeIn
    <3> QED BY <3>1, <3>2
  <2>2. ASSUME NEW x \in Procs, state'[x] = "BLOCKEDQUEUE"
        PROVE  blocked_head[x] \notin {"activatable", "asleep", "dead"}
    BY <1>5, <2>2 DEF ProcInv, LinksFit
  <2> QED BY <2>1, <2>2 DEF LinksFit, In
<1>8. HartFits'
  <2>1. \A x \in Procs : state'[x] = "ACTIF" => x = current
    BY <1>5 DEF ProcInv, HartFits
  <2>2. state'[current] = "ACTIF" /\ ~ Has(queue'["dead"], current)
    BY <1>1, <1>2, <1>4, <1>5
  <2>3. state'[Idle] = state[Idle]
    BY <1>2, <1>5, ProcFacts
  <2> QED BY <1>1, <1>4, <2>1, <2>2, <2>3 DEF ProcInv, HartFits, In
<1>9. ProcTypeOK' /\ OfTheLiving' /\ Waiting' /\ CallsFit'
  <2>1. \A x \in Procs : state'[x] = state[x] \/ (state[x] \in Present /\ state'[x] \in Present)
    BY <1>5 DEF Present
  <2> QED BY <2>1, FamiliesKept
<1> QED BY <1>4, <1>6, <1>7, <1>8, <1>9, DisjointNext DEF ProcInv

-----------------------------------------------------------------------------
(* The inductive invariant.                                                *)
BlockedOn(p, s) == state[p] = "BLOCKEDSEMAPHORE" /\ semaphore_id[p] = s

ListFits(s) ==
  /\ NoRepeat(waiting[s])
  /\ \A p : Has(waiting[s], p) <=> p \in Procs /\ BlockedOn(p, s)

OnLive == \A p \in Procs : state[p] = "BLOCKEDSEMAPHORE" => semaphore_id[p] \in live

CountFits(s) == Len(waiting[s]) = IF count[s] < 0 THEN - count[s] ELSE 0

ListsFit == (\A s \in live \ freed : ListFits(s)) /\ OnLive

SemInv ==
  /\ ProcInv
  /\ SemTypeOK
  /\ halt = "no" => ListsFit
  /\ \A s \in live \ freed : CountFits(s)

(* The number of waiters a signal may wake, and the one WaitersCounted     *)
(* speaks of.                                                              *)
LEMMA MaxZero ==
  ASSUME NEW n \in Int
  PROVE  Max({0, n}) = IF n > 0 THEN n ELSE 0
<1> DEFINE m == IF n > 0 THEN n ELSE 0
<1>1. m \in {0, n} /\ \A y \in {0, n} : m >= y
  OBVIOUS
<1>2. Max({0, n}) \in {0, n} /\ \A y \in {0, n} : Max({0, n}) >= y
  <2> HIDE DEF m
  <2> QED BY <1>1 DEF Max
<1>3. Max({0, n}) \in Int
  BY <1>2
<1> QED BY <1>2, <1>3

(* The least of three numbers, as SignalOn takes it.                       *)
LEMMA MinOfThree ==
  ASSUME NEW a \in Int, NEW b \in Int, NEW c \in Int
  PROVE  LET m == Min({a, b, c}) IN
         m \in {a, b, c} /\ m <= a /\ m <= b /\ m <= c
<1>1. \E x \in {a, b, c} : \A y \in {a, b, c} : x <= y
  <2>1. CASE a <= b /\ a <= c
    BY <2>1
  <2>2. CASE b <= a /\ b <= c
    BY <2>2
  <2>3. CASE c <= a /\ c <= b
    BY <2>3
  <2> QED BY <2>1, <2>2, <2>3
<1>2. Min({a, b, c}) \in {a, b, c} /\ \A y \in {a, b, c} : Min({a, b, c}) <= y
  BY <1>1 DEF Min
<1> QED BY <1>2

(* The list of a semaphore that a step leaves alone.                       *)
LEMMA ListKept ==
  ASSUME NEW s \in Sems, ListFits(s), waiting'[s] = waiting[s],
         \A p \in Procs : BlockedOn(p, s)' <=> BlockedOn(p, s)
  PROVE  ListFits(s)'
BY DEF ListFits

(* The count of a semaphore that a step leaves alone.                      *)
LEMMA CountKept ==
  ASSUME NEW s \in Sems, CountFits(s), waiting'[s] = waiting[s], count'[s] = count[s]
  PROVE  CountFits(s)'
BY DEF CountFits

(* A machine that has stopped takes no step.                               *)
LEMMA HaltStays ==
  ASSUME Next
  PROVE  halt = "no"
<1>1. CASE Interrupt
  BY <1>1 DEF Interrupt, Tick, TickInKernel, TickCounted
<1>2. CASE SchedulerCall
  BY <1>2 DEF SchedulerCall, WaitClock, SetTimeOfDay, ChPrio, Running
<1>3. CASE LifeCall
  BY <1>3 DEF LifeCall, StartVirtual, StartVirtualBad, Fork, ExitProcess, Kill, WaitPid,
              Calling, Running
<1>4. CASE KernelStep
  BY <1>4 DEF KernelStep, SchedulerStep, AwakeOne, AwakeDone, First, Preempt, Leave, Stay,
              AtSwitch, Abandon, FreeDeadProcess, Resume, Running
<1> QED BY <1>1, <1>2, <1>3, <1>4 DEF Next

(* The steps of Process.                                                   *)
LEMMA OtherStepsKeep ==
  ASSUME SemInv, [Next]_vars, UNCHANGED semVars
  PROVE  SemInv'
<1>1. ProcInv'
  BY ProcNextKeeps DEF SemInv
<1>2. WaitersSpared
  BY NextSpares DEF SemInv
<1>3. halt' = "no" => halt = "no"
  BY HaltStays DEF vars, schedVars
<1>4. SemTypeOK'
  BY DEF SemInv, SemTypeOK, semVars
<1>5. \A s \in live' \ freed' : CountFits(s)'
  BY DEF SemInv, CountFits, semVars
<1>6. ASSUME halt' = "no" PROVE ListsFit'
  <2>1. ListsFit
    BY <1>3, <1>6 DEF SemInv
  <2>2. \A p \in Procs, s \in Sems : BlockedOn(p, s)' <=> BlockedOn(p, s)
    BY <1>2 DEF WaitersSpared, BlockedOn, semVars
  <2>3. \A s \in live' \ freed' : ListFits(s)'
    BY <2>1, <2>2, ListKept DEF ListsFit, SemInv, SemTypeOK, semVars
  <2>4. OnLive'
    BY <1>2, <2>1 DEF ListsFit, OnLive, WaitersSpared, semVars
  <2> QED BY <2>3, <2>4 DEF ListsFit
<1> QED BY <1>1, <1>4, <1>5, <1>6 DEF SemInv

(* The calls.  screate: nobody is blocked on a semaphore that is not live. *)
LEMMA CreateSemKeeps ==
  ASSUME SemInv, Running, NEW s \in Sems, NEW n \in 0 .. MAX_COUNT, CreateSem(s, n)
  PROVE  SemInv'
<1>1. /\ Running /\ s \in unborn /\ s \notin live
      /\ live' = live \cup {s} /\ unborn' = unborn \ {s} /\ freed' = freed
      /\ count' = [count EXCEPT ![s] = n] /\ waiting' = [waiting EXCEPT ![s] = <<>>]
      /\ UNCHANGED <<schedVars, lifeVars, semaphore_id, sem_signal>>
  BY DEF CreateSem, SemInv, SemTypeOK
<1>2. ProcInv'
  <2>1. UNCHANGED vars
    BY <1>1 DEF vars
  <2> QED BY <2>1, ProcNextKeeps DEF SemInv
<1>3. n \in 0 .. MAX_COUNT /\ n \in MIN_COUNT .. MAX_COUNT
  BY SemaphoreAssumption
<1>4. SemTypeOK'
  BY <1>1, <1>3 DEF SemInv, SemTypeOK
<1>5. ListsFit
  BY <1>1 DEF SemInv, Running
<1>6. \A p \in Procs, t \in Sems : BlockedOn(p, t)' <=> BlockedOn(p, t)
  BY <1>1 DEF BlockedOn, schedVars
<1>7. /\ waiting'[s] = <<>> /\ count'[s] = n
      /\ \A t \in Sems : t # s => waiting'[t] = waiting[t] /\ count'[t] = count[t]
  BY <1>1 DEF SemInv, SemTypeOK
<1>8. \A p \in Procs : ~ BlockedOn(p, s)
  BY <1>1, <1>5 DEF ListsFit, OnLive, BlockedOn
<1>9. ASSUME NEW t \in live' \ freed' PROVE ListFits(t)' /\ CountFits(t)'
  <2>1. t \in Sems
    BY <1>4 DEF SemTypeOK
  <2>2. CASE t = s
    <3>1. ListFits(s)'
      BY <1>6, <1>7, <1>8 DEF ListFits, NoRepeat, Has
    <3>2. CountFits(s)'
      BY <1>3, <1>7 DEF CountFits
    <3> QED BY <2>2, <3>1, <3>2
  <2>3. CASE t # s
    <3>1. t \in live \ freed
      BY <1>1, <2>3
    <3> QED BY <1>5, <1>6, <1>7, <2>1, <2>3, <3>1, ListKept, CountKept DEF ListsFit, SemInv
  <2> QED BY <2>2, <2>3
<1>10. OnLive'
  BY <1>1, <1>5 DEF ListsFit, OnLive, schedVars
<1> QED BY <1>2, <1>4, <1>9, <1>10 DEF SemInv, ListsFit

(* wait and try_wait of a positive count: there is nobody in the list, and *)
(* there is still nobody who should be.                                    *)
LEMMA TakeKeeps ==
  ASSUME SemInv, Running, NEW s \in live, Take(s), sem_signal' \in [Procs -> Signals]
  PROVE  SemInv'
<1>1. /\ count[s] > 0 /\ count' = [count EXCEPT ![s] = @ - 1] /\ phase' = "awake"
      /\ UNCHANGED <<state, queue, prio, wake, blocked_head, current, clock, halt, lifeVars>>
      /\ UNCHANGED <<live, unborn, freed, waiting, semaphore_id>>
  BY DEF Take, Rest, CallScheduler
<1>2. ProcInv'
  BY <1>1, GoesOn DEF SemInv, ProcInv, SchedTypeOK
<1>3. /\ s \in Sems /\ count[s] \in MIN_COUNT .. MAX_COUNT /\ MIN_COUNT < 0
      /\ MIN_COUNT \in Int /\ MAX_COUNT \in Nat
  BY SemaphoreAssumption DEF SemInv, SemTypeOK
<1>4. /\ count[s] \in Int /\ count[s] - 1 \in MIN_COUNT .. MAX_COUNT /\ count[s] - 1 >= 0
      /\ ~ count[s] < 0 /\ ~ count[s] - 1 < 0
  BY <1>1, <1>3
<1>5. /\ count'[s] = count[s] - 1
      /\ \A t \in Sems : t # s => count'[t] = count[t]
  BY <1>1, <1>3 DEF SemInv, SemTypeOK
<1>6. SemTypeOK'
  BY <1>1, <1>4 DEF SemInv, SemTypeOK
<1>7. ListsFit'
  BY <1>1, <1>6 DEF SemInv, ListsFit, ListFits, OnLive, BlockedOn, Running, SemTypeOK
<1>8. ASSUME NEW t \in live' \ freed' PROVE CountFits(t)'
  <2>1. t \in Sems /\ CountFits(t) /\ waiting'[t] = waiting[t]
    BY <1>1, <1>6 DEF SemInv, SemTypeOK
  <2>2. CASE t = s
    BY <1>4, <1>5, <2>1, <2>2 DEF CountFits
  <2>3. CASE t # s
    BY <1>5, <2>1, <2>3, CountKept
  <2> QED BY <2>2, <2>3
<1> QED BY <1>2, <1>6, <1>7, <1>8 DEF SemInv

(* The place of a newcomer: after the waiters of its priority and above,   *)
(* in front of the others.                                                 *)
LEMMA WaitPosFacts ==
  ASSUME NEW s, NEW p, waiting[s] \in Seq(Procs), prio \in [Procs -> Int], p \in Procs
  PROVE  /\ WaitPos(s, p) \in 1 .. Len(waiting[s]) + 1
         /\ \A i \in 1 .. WaitPos(s, p) - 1 : prio[waiting[s][i]] >= prio[p]
         /\ WaitPos(s, p) <= Len(waiting[s]) => prio[waiting[s][WaitPos(s, p)]] < prio[p]
<1> DEFINE q == waiting[s]
           I == {i \in 1 .. Len(q) : prio[q[i]] < prio[p]}
           lower == SelectInSeq(q, LAMBDA x : prio[x] < prio[p])
<1>1. Len(q) \in Nat /\ \A i \in 1 .. Len(q) : prio[q[i]] \in Int
  OBVIOUS
<1>2. lower = IF I # {} THEN Min(I) ELSE 0
  BY DEF SelectInSeq
<1>3. WaitPos(s, p) = IF lower = 0 THEN Len(q) + 1 ELSE lower
  BY DEF WaitPos
<1>4. prio[p] \in Int
  OBVIOUS
<1> HIDE DEF lower, q
<1>5. CASE I = {}
  <2>1. WaitPos(s, p) = Len(q) + 1
    BY <1>2, <1>3, <1>5
  <2>2. \A i \in 1 .. Len(q) : prio[q[i]] >= prio[p]
    BY <1>1, <1>4, <1>5
  <2> QED BY <1>1, <2>1, <2>2 DEF q
<1>6. CASE I # {}
  <2>1. Min(I) \in I /\ \A i \in I : Min(I) <= i
    <3>1. \E x \in I : \A y \in I : x <= y
      <4>1. I \in SUBSET Nat
        BY <1>1
      <4> HIDE DEF I
      <4> QED BY <1>6, <4>1, LeastNat
    <3> HIDE DEF I
    <3> QED BY <3>1 DEF Min
  <2>2. WaitPos(s, p) = Min(I)
    BY <1>1, <1>2, <1>3, <1>6, <2>1
  <2>3. \A i \in 1 .. Min(I) - 1 : i \in 1 .. Len(q) /\ i \notin I
    BY <1>1, <2>1
  <2>4. \A i \in 1 .. Min(I) - 1 : prio[q[i]] >= prio[p]
    BY <1>1, <1>4, <2>3
  <2>5. Min(I) \in 1 .. Len(q) + 1 /\ prio[q[Min(I)]] < prio[p]
    BY <1>1, <2>1
  <2> QED BY <2>2, <2>4, <2>5 DEF q
<1> QED BY <1>5, <1>6

(* Only wait blocks the process.                                           *)
LEMMA JoinKeepsAll ==
  ASSUME SemInv, Running, current # Idle, NEW s \in live, Join(s),
         sem_signal' \in [Procs -> Signals]
  PROVE  SemInv'
<1> DEFINE k == WaitPos(s, current)
           r == InsertAt(waiting[s], k, current)
<1>1. /\ s \notin freed /\ MIN_COUNT < count[s] /\ count[s] <= 0 /\ phase' = "awake"
      /\ count' = [count EXCEPT ![s] = @ - 1]
      /\ waiting' = [waiting EXCEPT ![s] = r]
      /\ state' = [state EXCEPT ![current] = "BLOCKEDSEMAPHORE"]
      /\ semaphore_id' = [semaphore_id EXCEPT ![current] = s]
      /\ UNCHANGED <<prio, wake, blocked_head, queue, current, clock, halt, lifeVars>>
      /\ UNCHANGED <<live, unborn, freed>>
  BY DEF Join, Rest, CallScheduler
<1>2. ProcInv'
  BY <1>1, JoinKeeps DEF SemInv
<1>3. /\ current \in Procs /\ state[current] = "ACTIF"
      /\ state \in [Procs -> States] /\ prio \in [Procs -> Int]
  BY OnTheHart, ProcFacts DEF SemInv
<1>4. /\ s \in Sems /\ count[s] \in MIN_COUNT .. MAX_COUNT /\ waiting[s] \in Seq(Procs)
      /\ MIN_COUNT \in Int /\ MAX_COUNT \in Nat
  BY SemaphoreAssumption DEF SemInv, SemTypeOK
<1>5. ListsFit
  BY DEF SemInv, Running
<1>6. /\ NoRepeat(waiting[s]) /\ ~ Has(waiting[s], current)
      /\ \A p : Has(waiting[s], p) <=> p \in Procs /\ BlockedOn(p, s)
  BY <1>1, <1>3, <1>5 DEF ListsFit, ListFits, BlockedOn
<1>7. /\ r \in Seq(Procs) /\ Len(r) = Len(waiting[s]) + 1
      /\ NoRepeat(r) /\ \A p : Has(r, p) <=> p = current \/ Has(waiting[s], p)
  <2>1. k \in 1 .. Len(waiting[s]) + 1
    BY <1>3, <1>4, WaitPosFacts
  <2> HIDE DEF k
  <2>2. r \in Seq(Procs) /\ InsertedAt(waiting[s], current, k, r)
    BY <1>3, <1>4, <2>1, InsertAtFacts
  <2> HIDE DEF r
  <2>3. /\ current \in Procs /\ waiting[s] \in Seq(Procs)
        /\ NoRepeat(waiting[s]) /\ ~ Has(waiting[s], current)
    BY <1>3, <1>4, <1>6
  <2>4. NoRepeat(r) /\ \A p : Has(r, p) <=> p = current \/ Has(waiting[s], p)
    BY ONLY <2>1, <2>2, <2>3, InsertedFacts
  <2>5. Len(r) = Len(waiting[s]) + 1
    BY <2>2 DEF InsertedAt
  <2> QED BY <2>2, <2>4, <2>5
<1> HIDE DEF r
<1>8. /\ waiting'[s] = r /\ count'[s] = count[s] - 1
      /\ \A t \in Sems : t # s => waiting'[t] = waiting[t] /\ count'[t] = count[t]
  BY <1>1, <1>4 DEF SemInv, SemTypeOK
<1>9. count[s] \in Int /\ count[s] - 1 \in MIN_COUNT .. MAX_COUNT /\ count[s] - 1 < 0
  BY <1>1, <1>4
<1>10. SemTypeOK'
  BY <1>1, <1>3, <1>7, <1>9 DEF SemInv, SemTypeOK
<1>11. \A p \in Procs, t \in Sems :
         BlockedOn(p, t)' <=> IF p = current THEN t = s ELSE BlockedOn(p, t)
  BY <1>1, <1>3, <1>4 DEF BlockedOn, SemInv, SemTypeOK
<1>12. \A p \in Procs, t \in Sems : t # s => (BlockedOn(p, t)' <=> BlockedOn(p, t))
  BY <1>3, <1>11 DEF BlockedOn
<1>13. ListFits(s)' /\ CountFits(s)'
  <2>1. ListFits(s)'
    <3>1. \A p : Has(waiting'[s], p) <=> p \in Procs /\ BlockedOn(p, s)'
      BY <1>3, <1>4, <1>6, <1>7, <1>8, <1>11
    <3> QED BY <1>7, <1>8, <3>1 DEF ListFits
  <2>2. Len(waiting[s]) = IF count[s] < 0 THEN - count[s] ELSE 0
    BY <1>1 DEF SemInv, CountFits
  <2>3. Len(r) = - (count[s] - 1)
    BY <1>1, <1>7, <1>9, <2>2
  <2>4. CountFits(s)'
    BY <1>8, <1>9, <2>3 DEF CountFits
  <2> QED BY <2>1, <2>4
<1>14. ASSUME NEW t \in live' \ freed' PROVE ListFits(t)' /\ CountFits(t)'
  <2>1. t \in Sems /\ t \in live \ freed
    BY <1>1, <1>10 DEF SemTypeOK
  <2>2. CASE t # s
    BY <1>5, <1>8, <1>12, <2>1, <2>2, ListKept, CountKept DEF ListsFit, SemInv
  <2> QED BY <1>13, <2>2
<1>15. OnLive'
  BY <1>1, <1>3, <1>5 DEF ListsFit, OnLive, SemInv, SemTypeOK
<1> QED BY <1>2, <1>10, <1>14, <1>15 DEF SemInv, ListsFit

(* signal, sreset and sdelete wake the first n waiters, and the others are *)
(* still exactly the list.                                                 *)
LEMMA UnblockKeeps ==
  ASSUME SemInv, Running, NEW s \in live, NEW n \in 0 .. Len(waiting[s]),
         NEW why \in Signals, Unblock(s, n, why), phase' = "awake",
         UNCHANGED <<prio, wake, blocked_head, current, clock, halt, lifeVars>>,
         UNCHANGED <<unborn, semaphore_id, freed>>
  PROVE  /\ ProcInv'
         /\ waiting' \in [Sems -> Seq(Procs)] /\ sem_signal' \in [Procs -> Signals]
         /\ s \in Sems /\ s \notin freed
         /\ \A t \in live \ freed : ListFits(t)'
         /\ \A t \in Sems : t # s => waiting'[t] = waiting[t]
         /\ Len(waiting'[s]) = Len(waiting[s]) - n
         /\ \A p \in Procs : state'[p] = "BLOCKEDSEMAPHORE" =>
               semaphore_id[p] \in live /\ (n = Len(waiting[s]) => semaphore_id[p] # s)
<1> DEFINE A == Woken(s, n)
           C == After(s, n)
<1>1. /\ s \notin freed
      /\ waiting' = [waiting EXCEPT ![s] = C]
      /\ state' = [p \in Procs |-> IF p \in Range(A) THEN "ACTIVATABLE" ELSE state[p]]
      /\ sem_signal' = [p \in Procs |-> IF p \in Range(A) THEN why ELSE sem_signal[p]]
      /\ queue' = LinkEach(queue, "activatable", A, prio)
  BY DEF Unblock
<1>2. s \in Sems /\ waiting[s] \in Seq(Procs) /\ ListsFit
  BY DEF SemInv, SemTypeOK, Running
<1>3. /\ NoRepeat(waiting[s])
      /\ \A p : Has(waiting[s], p) <=> p \in Procs /\ BlockedOn(p, s)
  BY <1>1, <1>2 DEF ListsFit, ListFits
<1>4. /\ A \in Seq(Procs) /\ NoRepeat(A)
      /\ C \in Seq(Procs) /\ NoRepeat(C) /\ Len(C) = Len(waiting[s]) - n
      /\ \A x : x \in Range(waiting[s]) <=> x \in Range(A) \/ x \in Range(C)
      /\ \A x : ~ (x \in Range(A) /\ x \in Range(C))
  BY <1>2, <1>3, SplitFacts DEF Woken, After
<1> HIDE DEF A, C
<1>5. \A p : (p \in Range(A) \/ p \in Range(C)) <=> p \in Procs /\ BlockedOn(p, s)
  BY <1>3, <1>4, RangeHas
<1>6. ProcInv'
  <2>1. \A p \in Range(A) : state[p] = "BLOCKEDSEMAPHORE"
    BY <1>5 DEF BlockedOn
  <2> QED BY <1>1, <1>4, <2>1, WakeKeeps DEF SemInv
<1>7. waiting' \in [Sems -> Seq(Procs)] /\ sem_signal' \in [Procs -> Signals]
  BY <1>1, <1>4 DEF SemInv, SemTypeOK
<1>8. waiting'[s] = C /\ \A t \in Sems : t # s => waiting'[t] = waiting[t]
  BY <1>1, <1>2 DEF SemInv, SemTypeOK
<1>9. \A p \in Procs, t \in Sems : BlockedOn(p, t)' <=> BlockedOn(p, t) /\ p \notin Range(A)
  BY <1>1 DEF BlockedOn
<1>10. \A p \in Procs : p \in Range(A) => BlockedOn(p, s)
  BY <1>5
<1>11. \A p \in Procs, t \in Sems : t # s => (BlockedOn(p, t)' <=> BlockedOn(p, t))
  BY <1>9, <1>10 DEF BlockedOn
<1>12. ListFits(s)'
  <2>1. \A p : Has(C, p) <=> p \in Procs /\ BlockedOn(p, s)'
    BY <1>2, <1>4, <1>5, <1>9, RangeHas
  <2> QED BY <1>4, <1>8, <2>1 DEF ListFits
<1>13. ASSUME NEW t \in live \ freed PROVE ListFits(t)'
  <2>1. t \in Sems
    BY DEF SemInv, SemTypeOK
  <2>2. CASE t # s
    BY <1>2, <1>8, <1>11, <2>1, <2>2, ListKept DEF ListsFit
  <2> QED BY <1>12, <2>2
<1>14. ASSUME NEW p \in Procs, state'[p] = "BLOCKEDSEMAPHORE"
       PROVE  semaphore_id[p] \in live /\ (n = Len(waiting[s]) => semaphore_id[p] # s)
  <2>1. state[p] = "BLOCKEDSEMAPHORE" /\ p \notin Range(A)
    BY <1>1, <1>14
  <2>2. n = Len(waiting[s]) => p \notin Range(C)
    <3>1. Len(waiting[s]) \in Nat
      BY <1>2
    <3>2. n = Len(waiting[s]) => Len(C) = 0
      BY <1>4, <3>1
    <3>3. C = <<>> => \A x : x \notin Range(C)
      BY DEF Range
    <3>4. Len(C) = 0 => C = <<>>
      BY <1>4
    <3> QED BY <3>2, <3>3, <3>4
  <2>3. ~ BlockedOn(p, s) => semaphore_id[p] # s
    BY <2>1 DEF BlockedOn
  <2> QED BY <1>2, <1>5, <2>1, <2>2, <2>3 DEF ListsFit, OnLive
<1> QED BY <1>1, <1>2, <1>4, <1>6, <1>7, <1>8, <1>13, <1>14

(* signal and signaln: as many wake as the count was below zero.           *)
LEMMA SignalKeeps ==
  ASSUME SemInv, Running, NEW s \in live, NEW n \in 0 .. MAX_COUNT, SignalOn(s, n)
  PROVE  SemInv'
<1> DEFINE m == Min({n, Max({0, - count[s]}), Len(waiting[s])})
<1>1. /\ count[s] + n <= MAX_COUNT /\ count' = [count EXCEPT ![s] = @ + n]
      /\ Unblock(s, m, "SIGNAL_CALL") /\ phase' = "awake"
      /\ UNCHANGED <<live, semaphore_id>>
      /\ UNCHANGED <<prio, wake, blocked_head, current, clock, halt, lifeVars>>
      /\ UNCHANGED <<unborn, freed>>
  BY DEF SignalOn, Fits, WakeAll, CallScheduler, Rest
<1>2. /\ s \in Sems /\ count[s] \in MIN_COUNT .. MAX_COUNT /\ waiting[s] \in Seq(Procs)
      /\ n \in 0 .. MAX_COUNT /\ MIN_COUNT \in Int /\ MAX_COUNT \in Nat /\ s \notin freed
  BY <1>1, SemaphoreAssumption DEF SemInv, SemTypeOK, Unblock
<1>3. Len(waiting[s]) \in Nat /\ Len(waiting[s]) = IF count[s] < 0 THEN - count[s] ELSE 0
  BY <1>2 DEF SemInv, CountFits
<1>4. count[s] \in Int /\ n \in Nat
  BY <1>2
<1>5. Max({0, - count[s]}) = Len(waiting[s])
  <2>1. - count[s] \in Int
    BY <1>4
  <2>2. Max({0, - count[s]}) = IF - count[s] > 0 THEN - count[s] ELSE 0
    BY <2>1, MaxZero
  <2> QED BY <1>3, <1>4, <2>2
<1>6. m \in {n, Len(waiting[s])} /\ m <= n /\ m <= Len(waiting[s])
  <2> DEFINE l == Len(waiting[s])
  <2>1. n \in Int /\ l \in Int
    BY <1>3, <1>4
  <2>2. m = Min({n, l, l})
    BY <1>5
  <2> HIDE DEF m, l
  <2>3. m \in {n, l, l} /\ m <= n /\ m <= l
    BY <2>1, <2>2, MinOfThree
  <2> QED BY <2>3 DEF l
<1> HIDE DEF m
<1>7. m \in 0 .. Len(waiting[s])
  BY <1>3, <1>4, <1>6
<1>8. /\ ProcInv'
      /\ waiting' \in [Sems -> Seq(Procs)] /\ sem_signal' \in [Procs -> Signals]
      /\ \A t \in live \ freed : ListFits(t)'
      /\ \A t \in Sems : t # s => waiting'[t] = waiting[t]
      /\ Len(waiting'[s]) = Len(waiting[s]) - m
      /\ \A p \in Procs : state'[p] = "BLOCKEDSEMAPHORE" => semaphore_id[p] \in live
  <2>1. "SIGNAL_CALL" \in Signals
    BY DEF Signals
  <2> QED BY <1>1, <1>7, <2>1, UnblockKeeps
<1>9. /\ count'[s] = count[s] + n
      /\ \A t \in Sems : t # s => count'[t] = count[t]
  BY <1>1, <1>2 DEF SemInv, SemTypeOK
<1>10. SemTypeOK'
  <2>1. count[s] + n \in MIN_COUNT .. MAX_COUNT
    BY <1>1, <1>2
  <2> QED BY <1>1, <1>8, <2>1 DEF SemInv, SemTypeOK
<1>11. CountFits(s)'
  <2>1. Len(waiting'[s]) = IF count[s] + n < 0 THEN - (count[s] + n) ELSE 0
    BY <1>3, <1>4, <1>6, <1>8
  <2> QED BY <1>9, <2>1 DEF CountFits
<1>12. ASSUME NEW t \in live' \ freed' PROVE CountFits(t)'
  <2>1. t \in Sems /\ t \in live \ freed
    BY <1>1, <1>10 DEF SemTypeOK
  <2>2. CASE t # s
    BY <1>8, <1>9, <2>1, <2>2, CountKept DEF SemInv
  <2> QED BY <1>11, <2>2
<1>13. ListsFit'
  BY <1>1, <1>8 DEF ListsFit, OnLive
<1> QED BY <1>8, <1>10, <1>12, <1>13 DEF SemInv

(* sreset and sdelete wake them all.                                       *)
LEMMA SresetKeeps ==
  ASSUME SemInv, NEW s \in Sems, NEW n \in Counts, Sreset(s, n)
  PROVE  SemInv'
<1>1. /\ Running /\ s \in live /\ Unblock(s, Len(waiting[s]), "SRESET_CALL")
      /\ count' = [count EXCEPT ![s] = n] /\ phase' = "awake"
      /\ UNCHANGED <<live, semaphore_id>>
      /\ UNCHANGED <<prio, wake, blocked_head, current, clock, halt, lifeVars>>
      /\ UNCHANGED <<unborn, freed>>
  BY DEF Sreset, SemCalling, SemAsked, CallScheduler, Rest
<1>2. /\ n \in MIN_COUNT .. MAX_COUNT /\ ~ n < 0
      /\ Len(waiting[s]) \in 0 .. Len(waiting[s]) /\ Len(waiting[s]) \in Nat
      /\ "SRESET_CALL" \in Signals
  BY SemaphoreAssumption DEF SemInv, SemTypeOK, Signals
<1>3. /\ ProcInv'
      /\ waiting' \in [Sems -> Seq(Procs)] /\ sem_signal' \in [Procs -> Signals]
      /\ \A t \in live \ freed : ListFits(t)'
      /\ \A t \in Sems : t # s => waiting'[t] = waiting[t]
      /\ Len(waiting'[s]) = Len(waiting[s]) - Len(waiting[s])
      /\ \A p \in Procs : state'[p] = "BLOCKEDSEMAPHORE" => semaphore_id[p] \in live
  BY <1>1, <1>2, UnblockKeeps
<1>4. SemTypeOK'
  BY <1>1, <1>2, <1>3 DEF SemInv, SemTypeOK
<1>5. /\ count'[s] = n
      /\ \A t \in Sems : t # s => count'[t] = count[t]
  BY <1>1 DEF SemInv, SemTypeOK
<1>6. ASSUME NEW t \in live' \ freed' PROVE CountFits(t)'
  <2>1. t \in Sems /\ t \in live \ freed
    BY <1>1, <1>4 DEF SemTypeOK
  <2>2. CASE t # s
    BY <1>3, <1>5, <2>1, <2>2, CountKept DEF SemInv
  <2>3. Len(waiting'[s]) = 0
    BY <1>2, <1>3
  <2>4. CountFits(s)'
    BY <1>2, <1>5, <2>3 DEF CountFits
  <2> QED BY <2>2, <2>4
<1>7. ListsFit'
  BY <1>1, <1>3 DEF ListsFit, OnLive
<1> QED BY <1>3, <1>4, <1>6, <1>7 DEF SemInv

(* After sdelete nobody is blocked on the semaphore that is no longer      *)
(* live.                                                                   *)
LEMMA DeleteKeeps ==
  ASSUME SemInv, Running, NEW s \in live, DeleteSem(s)
  PROVE  SemInv'
<1>1. /\ Unblock(s, Len(waiting[s]), "SDETETE_CALL")
      /\ live' = live \ {s} /\ phase' = "awake"
      /\ UNCHANGED <<count, semaphore_id>>
      /\ UNCHANGED <<prio, wake, blocked_head, current, clock, halt, lifeVars>>
      /\ UNCHANGED <<unborn, freed>>
  BY DEF DeleteSem, CallScheduler, Rest
<1>2. Len(waiting[s]) \in 0 .. Len(waiting[s]) /\ "SDETETE_CALL" \in Signals
  BY DEF SemInv, SemTypeOK, Signals
<1>3. /\ ProcInv'
      /\ waiting' \in [Sems -> Seq(Procs)] /\ sem_signal' \in [Procs -> Signals]
      /\ \A t \in live \ freed : ListFits(t)'
      /\ \A t \in Sems : t # s => waiting'[t] = waiting[t]
      /\ \A p \in Procs : state'[p] = "BLOCKEDSEMAPHORE" =>
            semaphore_id[p] \in live /\ semaphore_id[p] # s
  BY <1>1, <1>2, UnblockKeeps
<1>4. SemTypeOK'
  BY <1>1, <1>3 DEF SemInv, SemTypeOK
<1>5. ASSUME NEW t \in live' \ freed' PROVE CountFits(t)'
  <2>1. t \in Sems /\ t \in live \ freed /\ t # s
    BY <1>1, <1>4 DEF SemTypeOK
  <2> QED BY <1>1, <1>3, <2>1, CountKept DEF SemInv
<1>6. ListsFit'
  BY <1>1, <1>3 DEF ListsFit, OnLive
<1> QED BY <1>3, <1>4, <1>5, <1>6 DEF SemInv

(* A call that reads a freed node stops the machine.                       *)
LEMMA WalksFreedKeeps ==
  ASSUME SemInv, NEW s \in Sems, WalksFreed(s)
  PROVE  SemInv'
<1>1. /\ Running /\ halt' = "use_after_free"
      /\ UNCHANGED <<state, prio, wake, blocked_head, queue, current, clock, phase, lifeVars>>
      /\ UNCHANGED <<live, unborn, count, waiting, semaphore_id, sem_signal, freed>>
  BY DEF WalksFreed, SemCalling, SemAsked, semVars
<1>2. ProcInv'
  <2>1. halt' \in Halts /\ phase' \in {"user", "awake"}
    BY <1>1 DEF Halts, Running
  <2> QED BY <1>1, <2>1, GoesOn DEF SemInv
<1>3. SemTypeOK' /\ \A t \in live' \ freed' : CountFits(t)'
  BY <1>1 DEF SemInv, SemTypeOK, CountFits
<1> QED BY <1>1, <1>2, <1>3 DEF SemInv

(* The step blocks nobody on a semaphore.                                  *)
NobodyBlocks ==
  \A p \in Procs : state'[p] = "BLOCKEDSEMAPHORE" => state[p] = "BLOCKEDSEMAPHORE"

(* kill of a process that waits.  At an end of its list, it leaves it with *)
(* the unit that it took; in the middle, the head is made ready in its     *)
(* place, and the list is exact no more.                                   *)
LEMMA KillWaiterKeeps ==
  ASSUME SemInv, NEW p \in Victims, KillWaiter(p)
  PROVE  SemInv' /\ NobodyBlocks
<1> DEFINE s == semaphore_id[p]
           taken == Taken(s, p)
           st == [state EXCEPT ![taken] = "ACTIVATABLE"]
           middle == InMiddle(s, p)
<1>1. /\ Running /\ p \in Procs /\ p # Idle /\ phase = "user"
      /\ state[p] = "BLOCKEDSEMAPHORE" /\ s \notin freed
      /\ count' = [count EXCEPT ![s] = @ + 1]
      /\ waiting' = [waiting EXCEPT ![s] = IF middle THEN @ ELSE QueueDel(@, p)]
      /\ freed' = IF middle THEN freed \cup {s} ELSE freed
      /\ sem_signal' = [sem_signal EXCEPT ![taken] = "SDETETE_CALL"]
      /\ Leaves(p, queue, st)
      /\ UNCHANGED <<prio, wake, blocked_head, current, clock, phase>>
      /\ UNCHANGED <<live, unborn, semaphore_id>>
  BY ProcessAssumption DEF KillWaiter, Calling, Running, GivesBack
<1> HIDE DEF middle
<1>2. ListsFit /\ ProcInv
  BY <1>1 DEF SemInv, Running
<1>3. s \in live /\ s \in Sems
  BY <1>1, <1>2 DEF ListsFit, OnLive, SemInv, SemTypeOK
<1>4. /\ waiting[s] \in Seq(Procs) /\ NoRepeat(waiting[s])
      /\ \A x : Has(waiting[s], x) <=> x \in Procs /\ BlockedOn(x, s)
  BY <1>1, <1>2, <1>3 DEF ListsFit, ListFits, SemInv, SemTypeOK
<1>5. Has(waiting[s], p) /\ Len(waiting[s]) \in Nat /\ Len(waiting[s]) >= 1
  <2>1. Has(waiting[s], p)
    BY <1>1, <1>4 DEF BlockedOn
  <2>2. waiting[s] # <<>>
    BY <2>1 DEF Has
  <2> QED BY <1>4, <2>1, <2>2
<1>6. taken \in Procs /\ BlockedOn(taken, s) /\ (~ middle => taken = p)
  <2>1. CASE middle
    <3>1. taken = Head(waiting[s])
      BY <2>1 DEF Taken, middle
    <3>2. 1 \in DOMAIN waiting[s] /\ Head(waiting[s]) = waiting[s][1]
      BY <1>4, <1>5
    <3>3. Has(waiting[s], taken)
      BY <3>1, <3>2 DEF Has
    <3> QED BY <1>4, <2>1, <3>3
  <2>2. CASE ~ middle
    BY <1>1, <2>2 DEF Taken, middle, BlockedOn
  <2> QED BY <2>1, <2>2
<1> HIDE DEF taken
<1>7. count[s] \in Int /\ count[s] < 0 /\ Len(waiting[s]) = - count[s]
  <2>1. count[s] \in Int
    BY <1>3, SemaphoreAssumption DEF SemInv, SemTypeOK
  <2>2. Len(waiting[s]) = IF count[s] < 0 THEN - count[s] ELSE 0
    BY <1>1, <1>3 DEF SemInv, CountFits
  <2> QED BY <1>5, <2>1, <2>2
<1>8. QueueDel(waiting[s], p) \in Seq(Procs)
  BY <1>4, QueueDelFacts
<1>9. SemTypeOK'
  <2>1. count[s] + 1 \in MIN_COUNT .. MAX_COUNT
    <3>1. count[s] \in MIN_COUNT .. MAX_COUNT /\ MIN_COUNT \in Int /\ MAX_COUNT \in Nat
      BY <1>3, SemaphoreAssumption DEF SemInv, SemTypeOK
    <3> QED BY <1>7, <3>1
  <2>2. waiting' \in [Sems -> Seq(Procs)]
    BY <1>1, <1>3, <1>8 DEF SemInv, SemTypeOK
  <2>3. sem_signal' \in [Procs -> Signals] /\ count' \in [Sems -> MIN_COUNT .. MAX_COUNT]
    BY <1>1, <2>1 DEF SemInv, SemTypeOK, Signals
  <2> QED BY <1>1, <1>3, <2>2, <2>3 DEF SemInv, SemTypeOK
<1>10. /\ count'[s] = count[s] + 1
       /\ waiting'[s] = IF middle THEN waiting[s] ELSE QueueDel(waiting[s], p)
       /\ \A t \in Sems : t # s => count'[t] = count[t] /\ waiting'[t] = waiting[t]
  BY <1>1, <1>3 DEF SemInv, SemTypeOK
<1>11. ASSUME NEW t \in live' \ freed' PROVE CountFits(t)'
  <2>1. t \in Sems /\ t \in live \ freed /\ ~ (middle /\ t = s)
    BY <1>1, <1>9 DEF SemTypeOK
  <2>2. CASE t # s
    BY <1>10, <2>1, <2>2, CountKept DEF SemInv
  <2>3. CASE t = s
    <3>1. Len(waiting'[s]) = Len(waiting[s]) - 1
      BY <1>4, <1>5, <1>10, <2>1, <2>3, QueueDelFacts
    <3>2. Len(waiting'[s]) = IF count[s] + 1 < 0 THEN - (count[s] + 1) ELSE 0
      BY <1>7, <3>1
    <3> QED BY <1>10, <2>3, <3>2 DEF CountFits
  <2> QED BY <2>2, <2>3
<1>12. CASE halt' = "use_after_free" /\ UNCHANGED <<state, queue, lifeVars>>
  <2>1. halt' \in Halts /\ phase' \in {"user", "awake"}
    BY <1>1, <1>12 DEF Halts
  <2>2. ProcInv'
    BY <1>1, <1>2, <1>12, <2>1, GoesOn
  <2> QED BY <1>9, <1>11, <1>12, <2>2 DEF SemInv, NobodyBlocks
<1>13. CASE (\A c \in Stale(p) : state[c] = "UNUSED") /\ TurnIntoZombie(p, queue, st)
  <2>1. /\ Alive(p) /\ phase' \in {"user", "awake"} /\ p # current
        /\ queue \in [Queues -> Seq(Procs)] /\ DisjointIn(queue)
        /\ state \in [Procs -> States]
    BY <1>1, <1>2, OnTheHart, ProcFacts DEF Alive
  <2>2. \A m \in Queues : \A x : Has(queue[m], x) <=> Has(queue[m], x) /\ x # p
    BY <1>1, <1>2, UnlinkedStates
  <2>3. st \in [Procs -> States]
        /\ \A x \in Procs : st[x] = IF x = taken THEN "ACTIVATABLE" ELSE state[x]
    BY <1>6, <2>1 DEF States
  <2> HIDE DEF st
  <2>4. OnlyRouses(p, st)
    BY <1>6, <2>3 DEF OnlyRouses, BlockedOn
  <2>5. /\ ProcInv'
        /\ \A x \in Procs :
             state'[x] = "BLOCKEDSEMAPHORE" <=> x # p /\ st[x] = "BLOCKEDSEMAPHORE"
    BY <1>1, <1>2, <1>13, <2>1, <2>2, <2>4, TurnKeeps
  <2>6. \A x \in Procs :
          state'[x] = "BLOCKEDSEMAPHORE" <=> x # p /\ x # taken /\ state[x] = "BLOCKEDSEMAPHORE"
    BY <2>3, <2>5
  <2>7. \A x \in Procs, t \in Sems :
          BlockedOn(x, t)' <=> x # p /\ x # taken /\ BlockedOn(x, t)
    BY <1>1, <2>6 DEF BlockedOn
  <2>8. \A x \in Procs, t \in Sems : t # s => (BlockedOn(x, t)' <=> BlockedOn(x, t))
    BY <1>6, <2>7 DEF BlockedOn
  <2>9. ASSUME NEW t \in live' \ freed' PROVE ListFits(t)'
    <3>1. t \in Sems /\ t \in live \ freed /\ ~ (middle /\ t = s)
      BY <1>1, <1>9 DEF SemTypeOK
    <3>2. CASE t # s
      BY <1>2, <1>10, <2>8, <3>1, <3>2, ListKept DEF ListsFit
    <3>3. CASE t = s
      <4>1. /\ waiting'[t] = QueueDel(waiting[t], p) /\ taken = p
            /\ waiting[t] \in Seq(Procs) /\ NoRepeat(waiting[t])
            /\ \A x : Has(waiting[t], x) <=> x \in Procs /\ BlockedOn(x, t)
        BY <1>4, <1>6, <1>10, <3>1, <3>3
      <4>2. /\ NoRepeat(waiting'[t])
            /\ \A x : Has(waiting'[t], x) <=> Has(waiting[t], x) /\ x # p
        BY <4>1, QueueDelFacts
      <4>3. \A x : Has(waiting'[t], x) <=> x \in Procs /\ BlockedOn(x, t)'
        BY <2>7, <3>1, <4>1, <4>2
      <4> QED BY <4>2, <4>3 DEF ListFits
    <3> QED BY <3>2, <3>3
  <2>10. OnLive'
    BY <1>1, <1>2, <2>6 DEF ListsFit, OnLive
  <2>11. NobodyBlocks
    BY <2>6 DEF NobodyBlocks
  <2> QED BY <1>9, <1>11, <2>5, <2>9, <2>10, <2>11 DEF SemInv, ListsFit
<1> QED BY <1>1, <1>12, <1>13 DEF Leaves

-----------------------------------------------------------------------------
(* There are no semaphores and no waiters at the start.                    *)
LEMMA SemInitInv == SemInit => SemInv
<1> SUFFICES ASSUME SemInit PROVE SemInv
  OBVIOUS
<1>1. ProcInv
  BY ProcInitInv DEF SemInit
<1>2. \A p \in Procs : state[p] # "BLOCKEDSEMAPHORE"
  BY DEF SemInit, ProcInit, SchedInit
<1>3. (CHOOSE s \in Sems : TRUE) \in Sems
  BY SemaphoreAssumption
<1>4. 0 \in MIN_COUNT .. MAX_COUNT
  BY SemaphoreAssumption
<1>5. live = {} /\ unborn = Sems /\ freed = {}
  BY DEF SemInit
<1>6. SemTypeOK
  BY <1>3, <1>4, <1>5 DEF SemInit, SemTypeOK, Signals
<1> QED BY <1>1, <1>2, <1>5, <1>6 DEF SemInv, ListsFit, OnLive

(* The steps of wait, for whoever calls it.                                *)
LEMMA WaitCases ==
  ASSUME SemInv, NEW s \in Sems, Wait(s)
  PROVE  /\ Running /\ s \in live /\ current # Idle /\ "wait" \in SemCalls[current]
         /\ Take(s) \/ Join(s)
         /\ sem_signal' \in [Procs -> Signals]
<1>1. /\ Running /\ s \in live /\ "wait" \in SemCalls[current]
      /\ Take(s) \/ Join(s)
      /\ sem_signal' = [sem_signal EXCEPT ![current] = "SIGNAL_CALL"]
  BY DEF Wait, WaitOn, SemCalling, SemAsked
<1>2. "SIGNAL_CALL" \in Signals /\ sem_signal \in [Procs -> Signals]
  BY DEF SemInv, SemTypeOK, Signals
<1>3. current # Idle
  BY <1>1, SemaphoreAssumption
<1> QED BY <1>1, <1>2, <1>3

(* Every step keeps the invariant.                                         *)
LEMMA SemNextKeeps ==
  ASSUME SemInv, [SemNext]_allVars
  PROVE  SemInv'
<1>1. CASE [Next]_vars /\ UNCHANGED semVars
  BY <1>1, OtherStepsKeep
<1>2. ASSUME NEW s \in Sems, NEW n \in Counts, Screate(s, n) \/ Signaln(s, n) \/ Sreset(s, n)
      PROVE  SemInv'
  <2>1. CASE Signaln(s, n)
    <3>1. Running /\ s \in live /\ SignalOn(s, n)
      BY <2>1 DEF Signaln, SemCalling, SemAsked
    <3>2. n \in 0 .. MAX_COUNT
      BY SemaphoreAssumption
    <3> QED BY <3>1, <3>2, SignalKeeps
  <2>2. CASE Screate(s, n)
    <3>1. Running /\ CreateSem(s, n) /\ n \in 0 .. MAX_COUNT
      BY <2>2, SemaphoreAssumption DEF Screate, SemAsked
    <3> QED BY <3>1, CreateSemKeeps
  <2> QED BY <1>2, <2>1, <2>2, SresetKeeps
<1>3. ASSUME NEW s \in Sems, Wait(s) PROVE SemInv'
  BY <1>3, WaitCases, TakeKeeps, JoinKeepsAll
<1>4. ASSUME NEW s \in Sems, TryWait(s) PROVE SemInv'
  <2>1. Running /\ s \in live /\ Take(s) /\ sem_signal' \in [Procs -> Signals]
    BY <1>4 DEF TryWait, SemCalling, SemAsked, SemInv, SemTypeOK
  <2> QED BY <2>1, TakeKeeps
<1>5. ASSUME NEW s \in Sems, Sdelete(s) PROVE SemInv'
  <2>1. Running /\ s \in live /\ DeleteSem(s)
    BY <1>5 DEF Sdelete, SemCalling, SemAsked
  <2> QED BY <2>1, DeleteKeeps
<1>6. CASE SemCall
  BY <1>2, <1>3, <1>4, <1>5, <1>6, WalksFreedKeeps DEF SemCall
<1>7. CASE UNCHANGED allVars
  BY <1>1, <1>7 DEF allVars
<1> QED BY <1>1, <1>6, <1>7, KillWaiterKeeps DEF SemNext

(* The lists, the counts and the states of the processes agree at every    *)
(* step of the kernel with semaphores.                                     *)
THEOREM SemInvariant == SemSpec => []SemInv
<1>1. SemInit => SemInv
  BY SemInitInv
<1>2. SemInv /\ [SemNext]_allVars => SemInv'
  BY SemNextKeeps
<1> QED BY <1>1, <1>2, PTL DEF SemSpec

(* The list of a live semaphore is exactly the processes blocked on it,    *)
(* each once and linked in no queue, and nobody is blocked on a deleted    *)
(* one: no wait, signal, sreset, sdelete or kill leaves a waiter behind or *)
(* wakes it twice.                                                         *)
THEOREM WaitersExactHolds == SemSpec => []WaitersExact
<1>1. SemInv => WaitersExact
  <2> SUFFICES ASSUME SemInv PROVE WaitersExact
    OBVIOUS
  <2>1. ASSUME halt = "no", NEW s \in live \ freed PROVE ListExact(s)
    <3>1. ListFits(s)
      BY <2>1 DEF SemInv, ListsFit
    <3>2. Range(waiting[s]) =
            {p \in Procs : state[p] = "BLOCKEDSEMAPHORE" /\ semaphore_id[p] = s}
      BY <3>1, RangeHas DEF ListFits, BlockedOn
    <3>3. \A p \in Range(waiting[s]) : ~ Linked(p)
      BY <3>2, UnlinkedStates DEF SemInv
    <3> QED BY <3>1, <3>2, <3>3 DEF ListFits, ListExact
  <2> QED BY <2>1 DEF WaitersExact, SemInv, ListsFit, OnLive
<1> QED BY <1>1, SemInvariant, PTL

(* A negative count is the number of waiters and there are none otherwise: *)
(* no signal of semaphore_api.c is lost or counted twice, and the kill of  *)
(* a waiter gives its unit back.                                           *)
THEOREM WaitersCountedHolds == SemSpec => []WaitersCounted
<1>1. SemInv => WaitersCounted
  <2> SUFFICES ASSUME SemInv, NEW s \in live \ freed
               PROVE  Len(waiting[s]) = Max({0, - count[s]})
    BY DEF WaitersCounted
  <2>1. count[s] \in Int
    BY SemaphoreAssumption DEF SemInv, SemTypeOK
  <2>2. Max({0, - count[s]}) = IF - count[s] > 0 THEN - count[s] ELSE 0
    BY <2>1, MaxZero
  <2>3. Len(waiting[s]) = IF count[s] < 0 THEN - count[s] ELSE 0
    BY DEF SemInv, CountFits
  <2> QED BY <2>1, <2>2, <2>3
<1> QED BY <1>1, SemInvariant, PTL

-----------------------------------------------------------------------------
(* The order of the waiters.  chprio leaves a process blocked on a         *)
(* semaphore where it is in the list, so this holds of the programs in     *)
(* which it is not used on a process that waits.                           *)
NoneReordered == \A p \in PrioTargets : "wait" \notin SemCalls[p]

Deprio == [p \in Procs |-> - prio[p]]

OrderedIn(s) == Ascending(waiting[s], Deprio)

WaitersKnown == \A p \in Procs : state[p] = "BLOCKEDSEMAPHORE" => "wait" \in SemCalls[p]

OrderInv == SemInv /\ WaitersKnown /\ \A s \in live \ freed : OrderedIn(s)

(* The order of the list of waiters is ascending in this.                  *)
LEMMA DeprioFacts ==
  ASSUME ProcInv
  PROVE  Deprio \in [Procs -> Int] /\ \A p \in Procs : Deprio[p] = - prio[p]
<1>1. prio \in [Procs -> Int]
  BY ProcFacts
<1> QED BY <1>1 DEF Deprio

(* The list of a semaphore that a step leaves alone.                       *)
LEMMA OrderKept ==
  ASSUME NEW s \in Sems, OrderedIn(s), waiting'[s] = waiting[s], prio' = prio
  PROVE  OrderedIn(s)'
<1>1. Deprio' = Deprio
  BY DEF Deprio
<1> QED BY <1>1 DEF OrderedIn

(* A step that blocks nobody.                                              *)
LEMMA WaitersKnownKept ==
  ASSUME WaitersKnown, NobodyBlocks
  PROVE  WaitersKnown'
BY DEF WaitersKnown, NobodyBlocks

(* The steps of Process change no priority of a waiter.                    *)
LEMMA OrderOtherSteps ==
  ASSUME NoneReordered, OrderInv, [Next]_vars, UNCHANGED semVars
  PROVE  WaitersKnown' /\ \A s \in live' \ freed' : OrderedIn(s)'
<1>1. WaitersSpared
  BY NextSpares DEF OrderInv, SemInv
<1>2. WaitersKnown'
  BY <1>1, WaitersKnownKept DEF OrderInv, WaitersSpared, NobodyBlocks
<1>3. ASSUME NEW s \in live' \ freed' PROVE OrderedIn(s)'
  <2>1. s \in Sems /\ s \in live \ freed /\ waiting'[s] = waiting[s] /\ OrderedIn(s)
    BY DEF OrderInv, SemInv, SemTypeOK, semVars
  <2>2. CASE UNCHANGED vars
    BY <2>1, <2>2, OrderKept DEF vars, schedVars
  <2>3. CASE Next
    <3>1. ListFits(s) /\ waiting[s] \in Seq(Procs)
      BY <2>1, <2>3, HaltStays DEF OrderInv, SemInv, ListsFit, SemTypeOK
    <3>2. \A p \in Procs : Deprio[p] = - prio[p] /\ Deprio'[p] = - prio'[p]
      BY DEF Deprio
    <3>3. ASSUME NEW i \in DOMAIN waiting[s]
          PROVE  Deprio'[waiting[s][i]] = Deprio[waiting[s][i]]
      <4>1. waiting[s][i] \in Procs /\ state[waiting[s][i]] = "BLOCKEDSEMAPHORE"
        BY <3>1 DEF ListFits, Has, BlockedOn
      <4>2. prio'[waiting[s][i]] = prio[waiting[s][i]]
        BY <1>1, <4>1 DEF WaitersSpared, OrderInv, WaitersKnown, NoneReordered
      <4> QED BY <3>2, <4>1, <4>2
    <3> QED BY <2>1, <3>3 DEF OrderedIn, Ascending
  <2> QED BY <2>2, <2>3
<1> QED BY <1>2, <1>3

(* wait puts the process where the order wants it.                         *)
LEMMA OrderJoin ==
  ASSUME OrderInv, Running, "wait" \in SemCalls[current], NEW s \in live, Join(s)
  PROVE  WaitersKnown' /\ \A t \in live' \ freed' : OrderedIn(t)'
<1> DEFINE k == WaitPos(s, current)
           r == InsertAt(waiting[s], k, current)
<1>1. /\ s \notin freed /\ waiting' = [waiting EXCEPT ![s] = r]
      /\ state' = [state EXCEPT ![current] = "BLOCKEDSEMAPHORE"]
      /\ prio' = prio /\ live' = live /\ freed' = freed
  BY DEF Join, Rest
<1>2. /\ current \in Procs /\ prio \in [Procs -> Int] /\ state \in [Procs -> States]
      /\ Deprio \in [Procs -> Int] /\ \A p \in Procs : Deprio[p] = - prio[p]
  BY OnTheHart, ProcFacts, DeprioFacts DEF OrderInv, SemInv
<1>3. s \in Sems /\ waiting[s] \in Seq(Procs) /\ Ascending(waiting[s], Deprio)
  BY <1>1 DEF OrderInv, SemInv, SemTypeOK, OrderedIn
<1>4. WaitersKnown'
  BY <1>1, <1>2 DEF OrderInv, WaitersKnown
<1>5. /\ k \in 1 .. Len(waiting[s]) + 1
      /\ \A i \in 1 .. k - 1 : prio[waiting[s][i]] >= prio[current]
      /\ k <= Len(waiting[s]) => prio[waiting[s][k]] < prio[current]
  BY <1>2, <1>3, WaitPosFacts
<1> HIDE DEF k
<1>6. r \in Seq(Procs) /\ InsertedAt(waiting[s], current, k, r)
  BY <1>2, <1>3, <1>5, InsertAtFacts
<1> HIDE DEF r
<1>7. /\ \A i \in 1 .. k - 1 : Deprio[waiting[s][i]] <= Deprio[current]
      /\ k <= Len(waiting[s]) => Deprio[waiting[s][k]] >= Deprio[current]
  <2>1. Len(waiting[s]) \in Nat /\ prio[current] \in Int /\ Deprio[current] = - prio[current]
    BY <1>2, <1>3
  <2>2. \A i \in 1 .. Len(waiting[s]) : /\ prio[waiting[s][i]] \in Int
                                        /\ Deprio[waiting[s][i]] = - prio[waiting[s][i]]
    BY <1>2, <1>3
  <2>3. ASSUME NEW i \in 1 .. k - 1 PROVE Deprio[waiting[s][i]] <= Deprio[current]
    <3>1. i \in 1 .. Len(waiting[s]) /\ prio[waiting[s][i]] >= prio[current]
      BY <1>5, <2>1
    <3> QED BY ONLY <2>1, <2>2, <3>1
  <2>4. ASSUME k <= Len(waiting[s]) PROVE Deprio[waiting[s][k]] >= Deprio[current]
    <3>1. k \in 1 .. Len(waiting[s]) /\ prio[waiting[s][k]] < prio[current]
      BY <1>5, <2>1, <2>4
    <3> QED BY ONLY <2>1, <2>2, <3>1
  <2> QED BY <2>3, <2>4
<1>8. Ascending(r, Deprio)
  BY ONLY <1>2, <1>3, <1>5, <1>6, <1>7, InsertedAscending
<1>9. /\ waiting'[s] = r /\ Deprio' = Deprio
      /\ \A t \in Sems : t # s => waiting'[t] = waiting[t]
  BY <1>1, <1>3 DEF OrderInv, SemInv, SemTypeOK, Deprio
<1>10. ASSUME NEW t \in live' \ freed' PROVE OrderedIn(t)'
  <2>1. t \in Sems /\ t \in live \ freed
    BY <1>1 DEF OrderInv, SemInv, SemTypeOK
  <2>2. CASE t = s
    BY <1>8, <1>9, <2>2 DEF OrderedIn
  <2>3. CASE t # s
    BY <1>1, <1>9, <2>1, <2>3, OrderKept DEF OrderInv
  <2> QED BY <2>2, <2>3
<1> QED BY <1>4, <1>10

(* signal, sreset and sdelete take the first ones.                         *)
LEMMA OrderUnblock ==
  ASSUME OrderInv, Running, NEW s \in live, NEW n \in 0 .. Len(waiting[s]),
         NEW why, Unblock(s, n, why), prio' = prio, live' \in SUBSET live, freed' = freed
  PROVE  WaitersKnown' /\ \A t \in live' \ freed' : OrderedIn(t)'
<1>1. /\ s \notin freed
      /\ waiting' = [waiting EXCEPT ![s] = After(s, n)]
      /\ state' = [p \in Procs |-> IF p \in Range(Woken(s, n)) THEN "ACTIVATABLE" ELSE state[p]]
  BY DEF Unblock
<1>2. WaitersKnown'
  BY <1>1, WaitersKnownKept DEF OrderInv, NobodyBlocks
<1>3. /\ s \in Sems /\ waiting[s] \in Seq(Procs) /\ NoRepeat(waiting[s])
      /\ Ascending(waiting[s], Deprio)
  BY <1>1 DEF OrderInv, SemInv, SemTypeOK, OrderedIn, Running, ListsFit, ListFits
<1>4. Ascending(After(s, n), Deprio)
  BY <1>3, SplitFacts DEF After
<1>5. /\ waiting'[s] = After(s, n) /\ Deprio' = Deprio
      /\ \A t \in Sems : t # s => waiting'[t] = waiting[t]
  BY <1>1, <1>3 DEF OrderInv, SemInv, SemTypeOK, Deprio
<1>6. ASSUME NEW t \in live' \ freed' PROVE OrderedIn(t)'
  <2>1. t \in Sems /\ t \in live \ freed
    BY <1>1 DEF OrderInv, SemInv, SemTypeOK
  <2>2. CASE t = s
    BY <1>4, <1>5, <2>2 DEF OrderedIn
  <2>3. CASE t # s
    BY <1>5, <2>1, <2>3, OrderKept DEF OrderInv
  <2> QED BY <2>2, <2>3
<1> QED BY <1>2, <1>6

(* kill takes one out, or none.                                            *)
LEMMA OrderKillWaiter ==
  ASSUME OrderInv, NEW p \in Victims, KillWaiter(p)
  PROVE  WaitersKnown' /\ \A t \in live' \ freed' : OrderedIn(t)'
<1> DEFINE s == semaphore_id[p]
<1>1. /\ prio' = prio /\ live' = live /\ freed \subseteq freed'
      /\ waiting' = [waiting EXCEPT ![s] = IF InMiddle(s, p) THEN @ ELSE QueueDel(@, p)]
  BY DEF KillWaiter
<1>2. NobodyBlocks
  BY KillWaiterKeeps DEF OrderInv
<1>3. WaitersKnown'
  BY <1>2, WaitersKnownKept DEF OrderInv
<1>4. ListsFit /\ Deprio \in [Procs -> Int] /\ Deprio' = Deprio
  BY <1>1, DeprioFacts DEF OrderInv, SemInv, KillWaiter, Calling, Running, Deprio
<1>5. ASSUME NEW t \in live' \ freed' PROVE OrderedIn(t)'
  <2>1. /\ t \in Sems /\ OrderedIn(t) /\ NoRepeat(waiting[t]) /\ waiting[t] \in Seq(Procs)
    BY <1>1, <1>4 DEF OrderInv, SemInv, SemTypeOK, ListsFit, ListFits
  <2>2. waiting'[t] \in {waiting[t], QueueDel(waiting[t], p)}
    BY <1>1, <2>1 DEF OrderInv, SemInv, SemTypeOK
  <2>3. Ascending(QueueDel(waiting[t], p), Deprio)
    BY <1>4, <2>1, QueueDelFacts DEF OrderedIn
  <2> QED BY <1>4, <2>1, <2>2, <2>3 DEF OrderedIn
<1> QED BY <1>3, <1>5

(* Every step keeps the order.                                             *)
LEMMA OrderNextKeeps ==
  ASSUME NoneReordered, OrderInv, [SemNext]_allVars
  PROVE  OrderInv'
<1> SUFFICES WaitersKnown' /\ \A t \in live' \ freed' : OrderedIn(t)'
  BY SemNextKeeps DEF OrderInv
<1>1. CASE [Next]_vars /\ UNCHANGED semVars
  BY <1>1, OrderOtherSteps
<1>2. ASSUME UNCHANGED <<state, prio, waiting, live, freed>>
      PROVE  WaitersKnown' /\ \A t \in live' \ freed' : OrderedIn(t)'
  <2>1. WaitersKnown'
    BY <1>2, WaitersKnownKept DEF OrderInv, NobodyBlocks
  <2>2. \A t \in live' \ freed' : OrderedIn(t)'
    BY <1>2, OrderKept DEF OrderInv, SemInv, SemTypeOK
  <2> QED BY <2>1, <2>2
<1>3. ASSUME NEW s \in Sems, NEW n \in Counts, Screate(s, n)
      PROVE  WaitersKnown' /\ \A t \in live' \ freed' : OrderedIn(t)'
  <2>1. /\ UNCHANGED <<state, prio, freed>> /\ live' = live \cup {s}
        /\ waiting' = [waiting EXCEPT ![s] = <<>>]
    BY <1>3 DEF Screate, CreateSem, schedVars
  <2>2. WaitersKnown'
    BY <2>1, WaitersKnownKept DEF OrderInv, NobodyBlocks
  <2>3. ASSUME NEW t \in live' \ freed' PROVE OrderedIn(t)'
    <3>1. t \in Sems /\ waiting'[t] = IF t = s THEN <<>> ELSE waiting[t]
      BY <2>1 DEF OrderInv, SemInv, SemTypeOK
    <3>2. CASE t = s
      BY <3>1, <3>2 DEF OrderedIn, Ascending
    <3>3. CASE t # s
      BY <2>1, <3>1, <3>3, OrderKept DEF OrderInv
    <3> QED BY <3>2, <3>3
  <2> QED BY <2>2, <2>3
<1>4. ASSUME NEW s \in live, Take(s)
      PROVE  WaitersKnown' /\ \A t \in live' \ freed' : OrderedIn(t)'
  BY <1>2, <1>4 DEF Take, Rest
<1>5. ASSUME NEW s \in Sems, Wait(s)
      PROVE  WaitersKnown' /\ \A t \in live' \ freed' : OrderedIn(t)'
  <2>1. Running /\ s \in live /\ "wait" \in SemCalls[current] /\ (Take(s) \/ Join(s))
    BY <1>5, WaitCases DEF OrderInv
  <2> QED BY <1>4, <2>1, OrderJoin
<1>6. ASSUME NEW s \in Sems, NEW n \in Counts, Signaln(s, n)
      PROVE  WaitersKnown' /\ \A t \in live' \ freed' : OrderedIn(t)'
  <2>1. /\ Running /\ s \in live /\ prio' = prio /\ live' = live /\ freed' = freed
        /\ Unblock(s, Min({n, Max({0, - count[s]}), Len(waiting[s])}), "SIGNAL_CALL")
    BY <1>6 DEF Signaln, SemCalling, SemAsked, SignalOn, Rest
  <2>2. Min({n, Max({0, - count[s]}), Len(waiting[s])}) \in 0 .. Len(waiting[s])
    <3>1. /\ n \in Nat /\ count[s] \in Int /\ waiting[s] \in Seq(Procs)
      BY <2>1, SemaphoreAssumption DEF OrderInv, SemInv, SemTypeOK
    <3>2. Len(waiting[s]) \in Nat
      BY <3>1
    <3>3. Max({0, - count[s]}) \in Nat
      BY <3>1, MaxZero
    <3> DEFINE z == Max({0, - count[s]})
               m == Min({n, z, Len(waiting[s])})
    <3> HIDE DEF z
    <3>4. n \in Int /\ z \in Int /\ Len(waiting[s]) \in Int
      BY <3>1, <3>2, <3>3 DEF z
    <3>5. m \in {n, z, Len(waiting[s])} /\ m <= Len(waiting[s])
      BY <3>4, MinOfThree
    <3> HIDE DEF m
    <3>6. m \in 0 .. Len(waiting[s])
      BY <3>1, <3>2, <3>3, <3>5 DEF z
    <3> QED BY <3>6 DEF m, z
  <2> QED BY <2>1, <2>2, OrderUnblock
<1>7. ASSUME NEW s \in live, Running, NEW why, Unblock(s, Len(waiting[s]), why),
             prio' = prio, live' \in SUBSET live, freed' = freed
      PROVE  WaitersKnown' /\ \A t \in live' \ freed' : OrderedIn(t)'
  <2>1. Len(waiting[s]) \in 0 .. Len(waiting[s])
    BY DEF OrderInv, SemInv, SemTypeOK
  <2> QED BY <1>7, <2>1, OrderUnblock
<1>8. ASSUME NEW s \in Sems, \/ \E n \in Counts : Sreset(s, n)
                             \/ Sdelete(s)
      PROVE  WaitersKnown' /\ \A t \in live' \ freed' : OrderedIn(t)'
  BY <1>7, <1>8 DEF Sreset, Sdelete, DeleteSem, SemCalling, SemAsked, Rest
<1>9. ASSUME NEW s \in Sems, TryWait(s)
      PROVE  WaitersKnown' /\ \A t \in live' \ freed' : OrderedIn(t)'
  BY <1>4, <1>9 DEF TryWait, SemCalling
<1>10. ASSUME NEW s \in Sems, WalksFreed(s)
       PROVE  WaitersKnown' /\ \A t \in live' \ freed' : OrderedIn(t)'
  BY <1>2, <1>10 DEF WalksFreed, semVars
<1>11. CASE SemCall
  BY <1>3, <1>5, <1>6, <1>8, <1>9, <1>10, <1>11 DEF SemCall
<1>12. CASE UNCHANGED allVars
  BY <1>1, <1>12 DEF allVars
<1> QED BY <1>1, <1>11, <1>12, OrderKillWaiter DEF SemNext

(* The first waiter, which signal wakes next, has the highest priority of  *)
(* those that wait, if chprio is used on none of them.                     *)
THEOREM WaitersOrderedHolds ==
  ASSUME NoneReordered
  PROVE  SemSpec => []WaitersOrdered
<1>1. SemInit => OrderInv
  <2> SUFFICES ASSUME SemInit PROVE OrderInv
    OBVIOUS
  <2>1. \A p \in Procs : state[p] # "BLOCKEDSEMAPHORE"
    BY DEF SemInit, ProcInit, SchedInit
  <2> QED BY <2>1, SemInitInv DEF OrderInv, WaitersKnown, SemInit
<1>2. OrderInv /\ [SemNext]_allVars => OrderInv'
  BY OrderNextKeeps
<1>3. OrderInv => WaitersOrdered
  <2> SUFFICES ASSUME OrderInv, NEW s \in live \ freed, NEW i \in DOMAIN waiting[s],
                      NEW j \in DOMAIN waiting[s], i < j
               PROVE  prio[waiting[s][i]] >= prio[waiting[s][j]]
    BY DEF WaitersOrdered
  <2>1. waiting[s][i] \in Procs /\ waiting[s][j] \in Procs
    BY DEF OrderInv, SemInv, SemTypeOK
  <2>2. Deprio[waiting[s][i]] <= Deprio[waiting[s][j]]
    BY DEF OrderInv, OrderedIn, Ascending
  <2>3. /\ Deprio[waiting[s][i]] = - prio[waiting[s][i]]
        /\ Deprio[waiting[s][j]] = - prio[waiting[s][j]]
        /\ prio[waiting[s][i]] \in Int /\ prio[waiting[s][j]] \in Int
    BY <2>1, DeprioFacts, ProcFacts DEF OrderInv, SemInv
  <2> HIDE DEF Deprio
  <2> QED BY <2>2, <2>3
<1> QED BY <1>1, <1>2, <1>3, PTL DEF SemSpec
=============================================================================
