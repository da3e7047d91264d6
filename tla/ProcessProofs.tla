---------------------------- MODULE ProcessProofs ----------------------------
(***************************************************************************)
(* The life of processes for any set of structures, programs, priorities   *)
(* and bounds: the three invariants of Process as theorems.                *)
(*                                                                         *)
(* The inductive invariant ProcInv relates three things that different     *)
(* calls change: the states, the links and the lists of children.  A       *)
(* structure may be freed because it is linked nowhere and in the list of  *)
(* no living process; it is linked nowhere because its state says so; and  *)
(* a list is exact because only the owner frees a child that is in it,     *)
(* which the parent pointers show.  The lists of zombies are not exact:    *)
(* what makes the walk over them safe is the condition of the second       *)
(* branch of Leaves, and the proof uses it in OthersKeepTheirs.            *)
(*                                                                         *)
(* ReadyLinked, that a ready process is in some queue, is kept apart, as   *)
(* modules that extend Process may have steps that lose a process.         *)
(***************************************************************************)
EXTENDS Process, SchedulerProofs

(* The queues a process may be linked in, in the state it is in.           *)
MayBeIn(p, n) ==
  \/ state[p] = "ACTIVATABLE" /\ n = "activatable"
  \/ state[p] = "ASLEEP" /\ n \in {"asleep", "activatable"}
  \/ state[p] = "BLOCKEDIO" /\ n = "blocked_io"
  \/ state[p] = "BLOCKEDQUEUE" /\ n \in {blocked_head[p], "activatable"}
  \/ state[p] = "KILLED" /\ n = "dead"

(* Who is linked where; the queue of a blocked process is not one that     *)
(* scheduler() empties.                                                    *)
LinksFit ==
  /\ \A p \in Procs, n \in Queues : In(p, n) => MayBeIn(p, n)
  /\ \A p \in Procs :
       state[p] = "BLOCKEDQUEUE" => blocked_head[p] \notin {"activatable", "asleep", "dead"}

(* The process on the hart.  Inside scheduler() it may have blocked or     *)
(* left, but it is not freed and not among those to be freed.  The idle    *)
(* process is always ready.                                                *)
HartFits ==
  /\ \A p \in Procs : state[p] = "ACTIF" => p = current
  /\ current # NoProc =>
       /\ state[current] # "UNUSED" /\ ~ In(current, "dead")
       /\ phase = "user" => state[current] = "ACTIF"
  /\ phase = "reap" => queue["dead"] # <<>>
  /\ state[Idle] \in {"ACTIF", "ACTIVATABLE"}
  /\ state[Idle] = "ACTIVATABLE" => In(Idle, "activatable")

(* The family of a process that can still walk its list: its children are  *)
(* in use and name it, and the one it waits for is among them.             *)
OfTheLiving ==
  \A p \in Procs : Alive(p) =>
     /\ NoRepeat(children[p])
     /\ \A c \in Range(children[p]) : Used(c) /\ parent[c] = p /\ state[c] # "KILLED"
     /\ call[p] # NoProc => \E c \in Range(children[p]) : Awaits(call[p], c)

(* A process blocked in waitpid has nothing to reap.                       *)
Waiting ==
  \A p \in Procs : state[p] = "BLOCKEDWAITCHILD" =>
     /\ call[p] # NoProc
     /\ \A c \in Range(children[p]) : Awaits(call[p], c) => state[c] # "ZOMBIE"

(* Nobody is its own parent, what is freed waits for nothing, and neither  *)
(* does the idle process.                                                  *)
CallsFit ==
  /\ \A p \in Procs : parent[p] # p /\ (~ Used(p) => call[p] = NoProc)
  /\ call[Idle] = NoProc

ProcInv ==
  /\ SchedTypeOK /\ ProcTypeOK
  /\ QueuesDisjoint
  /\ LinksFit
  /\ HartFits
  /\ OfTheLiving
  /\ Waiting
  /\ CallsFit

(* A process that is ready, asleep or blocked in a queue is linked.        *)
ReadyLinked ==
  \A p \in Procs :
     state[p] \in {"ACTIVATABLE", "ASLEEP", "BLOCKEDIO", "BLOCKEDQUEUE"} => Linked(p)

-----------------------------------------------------------------------------
(* Facts of the invariant, in the form the steps use them.                 *)
LEMMA ProcFacts ==
  ASSUME ProcInv
  PROVE  /\ queue \in [Queues -> Seq(Procs)] /\ DisjointIn(queue)
         /\ prio \in [Procs -> 1 .. 256] /\ prio \in [Procs -> Int]
         /\ state \in [Procs -> States] /\ wake \in [Procs -> Int]
         /\ current \in Procs \cup {NoProc} /\ Idle \in Procs
         /\ current \in Procs <=> current # NoProc
<1>1. prio \in [Procs -> 1 .. 256]
  BY DEF ProcInv, SchedTypeOK
<1>2. prio \in [Procs -> Int]
  BY <1>1
<1> QED BY <1>1, <1>2, Disjoint, SchedulerAssumption DEF ProcInv, SchedTypeOK

(* A process that is in none of the states of MayBeIn is linked nowhere.   *)
LEMMA UnlinkedStates ==
  ASSUME ProcInv, NEW p \in Procs,
         state[p] \in {"UNUSED", "ACTIF", "BLOCKEDSEMAPHORE", "BLOCKEDWAITCHILD", "ZOMBIE"}
  PROVE  ~ Linked(p) /\ \A n \in Queues : ~ Has(queue[n], p)
BY DEF ProcInv, LinksFit, MayBeIn, Linked, In

(* The process on the hart in user mode.                                   *)
LEMMA OnTheHart ==
  ASSUME ProcInv, Running
  PROVE  /\ current \in Procs /\ state[current] = "ACTIF" /\ phase = "user"
         /\ \A n \in Queues : ~ Has(queue[n], current)
<1>1. current \in Procs /\ state[current] = "ACTIF" /\ phase = "user"
  BY ProcFacts DEF Running, ProcInv, HartFits
<1> QED BY <1>1, UnlinkedStates

(* A step that changes only states of those that have not left, and not    *)
(* whether they wait for a child, leaves families alone.                   *)
Present == {"ACTIF", "ACTIVATABLE", "ASLEEP", "BLOCKEDIO", "BLOCKEDQUEUE", "BLOCKEDSEMAPHORE"}

LEMMA FamiliesKept ==
  ASSUME ProcInv, UNCHANGED lifeVars,
         \A p \in Procs : state'[p] = state[p] \/ (state[p] \in Present /\ state'[p] \in Present)
  PROVE  ProcTypeOK' /\ OfTheLiving' /\ Waiting' /\ CallsFit'
<1>1. ProcTypeOK'
  BY DEF ProcInv, ProcTypeOK, lifeVars
<1>2. \A p \in Procs : /\ Alive(p)' <=> Alive(p)
                       /\ \A x \in {"UNUSED", "KILLED", "ZOMBIE", "BLOCKEDWAITCHILD"} :
                            state'[p] = x <=> state[p] = x
  BY DEF Present, Alive
<1>3. \A p \in Procs : \A c \in Range(children[p]) : c \in Procs
  BY DEF ProcInv, ProcTypeOK, Range
<1>4. children' = children /\ parent' = parent /\ call' = call
  BY DEF lifeVars
<1>5. OfTheLiving'
  <2> SUFFICES ASSUME NEW p \in Procs, Alive(p)'
               PROVE  /\ NoRepeat(children[p])
                      /\ \A c \in Range(children[p]) :
                            state'[c] # "UNUSED" /\ parent[c] = p /\ state'[c] # "KILLED"
                      /\ call[p] # NoProc => \E c \in Range(children[p]) : Awaits(call[p], c)
    BY <1>4 DEF OfTheLiving, Used
  <2> QED BY <1>2, <1>3 DEF ProcInv, OfTheLiving, Used
<1>6. Waiting'
  <2> SUFFICES ASSUME NEW p \in Procs, state'[p] = "BLOCKEDWAITCHILD"
               PROVE  /\ call[p] # NoProc
                      /\ \A c \in Range(children[p]) : Awaits(call[p], c) => state'[c] # "ZOMBIE"
    BY <1>4 DEF Waiting
  <2> QED BY <1>2, <1>3 DEF ProcInv, Waiting
<1>7. CallsFit'
  BY <1>2, <1>4 DEF ProcInv, CallsFit, Used
<1> QED BY <1>1, <1>5, <1>6, <1>7

-----------------------------------------------------------------------------
(* The steps of the scheduler and of its clients.                          *)
LEMMA ClockKeeps ==
  ASSUME ProcInv, Tick \/ TickCounted \/ SetTimeOfDay, UNCHANGED lifeVars
  PROVE  ProcInv' /\ (ReadyLinked => ReadyLinked')
<1>1. UNCHANGED <<procVars, queue, current, halt>> /\ phase' \in {phase, "awake"}
  BY DEF Tick, TickCounted, SetTimeOfDay, CallScheduler
<1>2. clock' \in 0 .. MaxClock /\ phase' \in Phases
  BY <1>1, SchedulerAssumption
  DEF Tick, TickCounted, SetTimeOfDay, NextTick, ProcInv, SchedTypeOK, Phases, CallScheduler
<1>3. phase' = "reap" => phase = "reap"
  BY <1>1
<1>4. phase' = "user" => phase = "user"
  BY <1>1
<1>5. SchedTypeOK'
  BY <1>1, <1>2 DEF ProcInv, SchedTypeOK, procVars
<1>6. QueuesDisjoint' /\ LinksFit' /\ HartFits'
  BY <1>1, <1>3, <1>4
  DEF ProcInv, QueuesDisjoint, LinksFit, HartFits, MayBeIn, In, procVars
<1>7. ProcTypeOK' /\ OfTheLiving' /\ Waiting' /\ CallsFit'
  BY <1>1, FamiliesKept DEF procVars
<1> QED BY <1>1, <1>5, <1>6, <1>7 DEF ProcInv, ReadyLinked, Linked, In, procVars

(* wait_clock links a running process in the sleep queue only.             *)
LEMMA WaitClockKeeps ==
  ASSUME ProcInv, NEW ticks \in SleepTicks, current \in Sleepers, WaitClock(ticks),
         UNCHANGED lifeVars
  PROVE  ProcInv' /\ (ReadyLinked => ReadyLinked') /\ halt' = halt
<1> USE SchedulerQueuesExist
<1>1. /\ current \in Procs /\ state[current] = "ACTIF" /\ current # Idle /\ phase = "user"
      /\ \A n \in Queues : ~ Has(queue[n], current)
  BY OnTheHart, SchedulerAssumption DEF WaitClock
<1>2. wake' \in [Procs -> Int] /\ state' = [state EXCEPT ![current] = "ASLEEP"]
  <2>1. clock \in Int /\ ticks \in Int /\ wake \in [Procs -> Int]
    BY SchedulerAssumption DEF ProcInv, SchedTypeOK
  <2>2. - (clock + ticks) \in Int
    BY <2>1
  <2> QED BY <2>1, <2>2 DEF WaitClock
<1>3. /\ queue' \in [Queues -> Seq(Procs)]
      /\ DisjointIn(queue')
      /\ \A m \in Queues : \A x :
            Has(queue'[m], x) <=> Has(queue[m], x) \/ (m = "asleep" /\ x = current)
  <2>1. queue' = Link(queue, "asleep", current, wake')
    BY DEF WaitClock
  <2>2. queue \in [Queues -> Seq(Procs)] /\ DisjointIn(queue)
    BY ProcFacts
  <2>3. "asleep" \in Queues /\ current \in Procs /\ wake' \in [Procs -> Int]
    BY <1>1, <1>2
  <2>4. \A m \in Queues : ~ Has(queue[m], current)
    BY <1>1
  <2>5. /\ Link(queue, "asleep", current, wake') \in [Queues -> Seq(Procs)]
        /\ DisjointIn(Link(queue, "asleep", current, wake'))
        /\ \A m \in Queues : \A x :
               Has(Link(queue, "asleep", current, wake')[m], x)
                   <=> Has(queue[m], x) \/ (m = "asleep" /\ x = current)
    BY ONLY <2>2, <2>3, <2>4, AddTo, ZenonT(60)
  <2> QED BY <2>1, <2>5
<1>4. halt' = halt /\ phase' = "awake" /\ UNCHANGED <<prio, blocked_head, current, clock>>
  BY <1>1 DEF WaitClock, AssertThat, Linked, In, CallScheduler
<1>5. SchedTypeOK'
  BY <1>2, <1>3, <1>4 DEF ProcInv, SchedTypeOK, States, Phases
<1>6. LinksFit'
  <2>1. \A x \in Procs : state'[x] = IF x = current THEN "ASLEEP" ELSE state[x]
    BY <1>1, <1>2, ProcFacts
  <2>2. ASSUME NEW x \in Procs, NEW n \in Queues, Has(queue'[n], x) PROVE MayBeIn(x, n)'
    <3>1. CASE x = current
      BY <1>1, <1>3, <2>1, <2>2, <3>1 DEF MayBeIn
    <3>2. CASE x # current
      <4>1. MayBeIn(x, n) /\ state'[x] = state[x]
        BY <1>3, <2>1, <2>2, <3>2 DEF ProcInv, LinksFit, In
      <4> QED BY <1>4, <4>1 DEF MayBeIn
    <3> QED BY <3>1, <3>2
  <2>3. ASSUME NEW x \in Procs, state'[x] = "BLOCKEDQUEUE"
        PROVE  blocked_head'[x] \notin {"activatable", "asleep", "dead"}
    BY <1>4, <2>1, <2>3 DEF ProcInv, LinksFit
  <2> QED BY <2>2, <2>3 DEF LinksFit, In
<1>7. HartFits'
  BY <1>1, <1>2, <1>3, <1>4, ProcFacts DEF ProcInv, SchedTypeOK, HartFits, In
<1>8. ProcTypeOK' /\ OfTheLiving' /\ Waiting' /\ CallsFit'
  BY <1>1, <1>2, ProcFacts, FamiliesKept DEF Present
<1>9. ReadyLinked => ReadyLinked'
  BY <1>1, <1>2, <1>3, ProcFacts DEF ReadyLinked, Linked, In
<1> QED BY <1>3, <1>4, <1>5, <1>6, <1>7, <1>8, <1>9, DisjointNext DEF ProcInv

(* chprio moves a process inside the queue it is in, or not at all.        *)
LEMMA ChPrioKeeps ==
  ASSUME ProcInv, NEW p \in PrioTargets, NEW newprio \in Prios, ChPrio(p, newprio),
         UNCHANGED lifeVars
  PROVE  ProcInv' /\ (ReadyLinked => ReadyLinked')
<1> USE SchedulerQueuesExist
<1>1. /\ newprio \in 1 .. 256 /\ p \in Procs /\ prio' \in [Procs -> 1 .. 256]
      /\ prio' \in [Procs -> Int]
  <2>1. newprio \in 1 .. 256
    BY DEF ChPrio, ValidPrio
  <2>2. p \in Procs
    BY SchedulerAssumption
  <2>3. prio' \in [Procs -> 1 .. 256]
    BY <2>1 DEF ProcInv, SchedTypeOK, ChPrio
  <2> QED BY <2>1, <2>2, <2>3
<1>2. /\ UNCHANGED <<state, wake, blocked_head, current, clock>>
      /\ phase = "user" /\ phase' \in {"user", "awake"} /\ current # NoProc
  BY DEF ChPrio, Running, CallScheduler
<1>3. CASE /\ state[p] \in {"ACTIVATABLE", "BLOCKEDQUEUE", "BLOCKEDIO"}
           /\ queue' = Link(Unlink(queue, p), ListOf(p), p, prio')
           /\ AssertThat(Linked(p))
  <2>1. /\ ListOf(p) \in Queues /\ MayBeIn(p, ListOf(p)) /\ ListOf(p) # "dead"
        /\ ListOf(p) = "activatable" <=> state[p] = "ACTIVATABLE"
    BY <1>1, <1>3 DEF ListOf, MayBeIn, ProcInv, SchedTypeOK, LinksFit
  <2>2. /\ Unlink(queue, p) \in [Queues -> Seq(Procs)]
        /\ DisjointIn(Unlink(queue, p))
        /\ \A m \in Queues : \A x : Has(Unlink(queue, p)[m], x) <=> Has(queue[m], x) /\ x # p
    BY ProcFacts, DelFrom
  <2>3. /\ queue' \in [Queues -> Seq(Procs)]
        /\ DisjointIn(queue')
        /\ \A m \in Queues : \A x :
              Has(queue'[m], x) <=> (Has(queue[m], x) /\ x # p) \/ (m = ListOf(p) /\ x = p)
    <3> DEFINE f == Unlink(queue, p)
    <3>1. \A m \in Queues : ~ Has(f[m], p)
      BY <2>2
    <3>2. f \in [Queues -> Seq(Procs)] /\ DisjointIn(f)
      BY <2>2
    <3>3. queue' = Link(f, ListOf(p), p, prio')
      BY <1>3
    <3>5. ListOf(p) \in Queues /\ p \in Procs /\ prio' \in [Procs -> Int]
      BY <1>1, <2>1
    <3> HIDE DEF f
    <3>4. /\ Link(f, ListOf(p), p, prio') \in [Queues -> Seq(Procs)]
          /\ DisjointIn(Link(f, ListOf(p), p, prio'))
          /\ \A m \in Queues : \A x :
               Has(Link(f, ListOf(p), p, prio')[m], x)
                  <=> Has(f[m], x) \/ (m = ListOf(p) /\ x = p)
      BY ONLY <3>1, <3>2, <3>5, AddTo, ZenonT(60)
    <3> QED BY <2>2, <3>3, <3>4 DEF f
  <2>4. halt' \in Halts
    BY <1>3 DEF AssertThat, Halts, ProcInv, SchedTypeOK
  <2>5. SchedTypeOK'
    BY <1>1, <1>2, <2>3, <2>4 DEF ProcInv, SchedTypeOK, Phases
  <2>6. LinksFit'
    BY <1>2, <2>1, <2>3 DEF ProcInv, LinksFit, MayBeIn, In
  <2>7. HartFits'
    <3>1. state[Idle] = "ACTIVATABLE" => Has(queue'["activatable"], Idle)
      BY <2>1, <2>3 DEF ProcInv, HartFits, In
    <3> QED BY <1>2, <2>1, <2>3, <3>1 DEF ProcInv, HartFits, In
  <2>8. ProcTypeOK' /\ OfTheLiving' /\ Waiting' /\ CallsFit'
    BY <1>2, FamiliesKept
  <2>9. ReadyLinked => ReadyLinked'
    BY <1>2, <2>1, <2>3 DEF ReadyLinked, Linked, In
  <2> QED BY <2>3, <2>5, <2>6, <2>7, <2>8, <2>9, DisjointNext DEF ProcInv
<1>4. CASE UNCHANGED <<queue, halt>>
  <2>1. SchedTypeOK'
    BY <1>1, <1>2, <1>4 DEF ProcInv, SchedTypeOK, Phases
  <2>2. QueuesDisjoint' /\ LinksFit' /\ HartFits'
    BY <1>2, <1>4 DEF ProcInv, QueuesDisjoint, LinksFit, HartFits, MayBeIn, In
  <2>3. ProcTypeOK' /\ OfTheLiving' /\ Waiting' /\ CallsFit'
    BY <1>2, FamiliesKept
  <2> QED BY <1>2, <1>4, <2>1, <2>2, <2>3 DEF ProcInv, ReadyLinked, Linked, In
<1> QED BY <1>3, <1>4 DEF ChPrio

-----------------------------------------------------------------------------
(* The steps inside scheduler() that move a process from queue to queue.   *)
LEMMA AwakeKeeps ==
  ASSUME ProcInv, AwakeOne \/ AwakeDone, UNCHANGED lifeVars
  PROVE  ProcInv' /\ (ReadyLinked => ReadyLinked')
<1> USE SchedulerQueuesExist
<1>1. queue \in [Queues -> Seq(Procs)] /\ DisjointIn(queue)
  BY ProcFacts
<1>2. CASE AwakeOne
  <2> DEFINE t == QueueTop(queue["asleep"])
             g == Pop(queue, "asleep")
  <2>1. queue["asleep"] # <<>>
    BY <1>2 DEF AwakeOne, Due
  <2>2. /\ g \in [Queues -> Seq(Procs)] /\ DisjointIn(g)
        /\ t \in Procs /\ Has(queue["asleep"], t)
        /\ \A m \in Queues : \A x : Has(g[m], x) <=> Has(queue[m], x) /\ x # t
    BY <1>1, <2>1, OutOf
  <2>3. queue' = Link(g, "activatable", t, prio)
    BY <1>2 DEF AwakeOne
  <2>4. prio \in [Procs -> Int]
    BY ProcFacts
  <2>5. state[t] = "ASLEEP"
    BY <2>2 DEF ProcInv, LinksFit, MayBeIn, In
  <2> HIDE DEF g, t
  <2>6. \A m \in Queues : ~ Has(g[m], t)
    BY <2>2
  <2>7. /\ queue' \in [Queues -> Seq(Procs)] /\ DisjointIn(queue')
        /\ \A m \in Queues : \A x :
              Has(queue'[m], x) <=> Has(g[m], x) \/ (m = "activatable" /\ x = t)
    <3>1. /\ Link(g, "activatable", t, prio) \in [Queues -> Seq(Procs)]
          /\ DisjointIn(Link(g, "activatable", t, prio))
          /\ \A m \in Queues : \A x :
                 Has(Link(g, "activatable", t, prio)[m], x)
                     <=> Has(g[m], x) \/ (m = "activatable" /\ x = t)
      <4>1. g \in [Queues -> Seq(Procs)] /\ DisjointIn(g) /\ t \in Procs
        BY <2>2
      <4>2. "activatable" \in Queues
        OBVIOUS
      <4> QED BY ONLY <2>4, <2>6, <4>1, <4>2, AddTo, ZenonT(60)
    <3> QED BY <2>3, <3>1
  <2>8. UNCHANGED <<procVars, current, clock, phase, halt>> /\ phase = "awake"
    BY <1>2 DEF AwakeOne
  <2>9. SchedTypeOK'
    BY <2>7, <2>8 DEF ProcInv, SchedTypeOK, procVars
  <2>10. \A m \in Queues : \A x :
           Has(queue'[m], x) <=> \/ Has(queue[m], x) /\ x # t
                                 \/ m = "activatable" /\ x = t
    BY <2>2, <2>7
  <2>11. LinksFit'
    BY <2>5, <2>8, <2>10 DEF ProcInv, LinksFit, MayBeIn, In, procVars
  <2>12. HartFits'
    BY <2>5, <2>8, <2>10, SchedulerAssumption DEF ProcInv, HartFits, In, procVars
  <2>13. ProcTypeOK' /\ OfTheLiving' /\ Waiting' /\ CallsFit'
    BY <2>8, FamiliesKept DEF procVars
  <2>14. ReadyLinked => ReadyLinked'
    BY <2>8, <2>10 DEF ReadyLinked, Linked, In, procVars
  <2> QED BY <2>7, <2>9, <2>11, <2>12, <2>13, <2>14, DisjointNext DEF ProcInv
<1>3. CASE AwakeDone
  <2>1. /\ UNCHANGED <<procVars, queue, current, clock, halt>>
        /\ phase = "awake" /\ phase' \in {"switch", "reap"}
        /\ phase' = "reap" => queue["dead"] # <<>>
    BY <1>3 DEF AwakeDone
  <2>2. SchedTypeOK' /\ QueuesDisjoint' /\ LinksFit' /\ HartFits'
    BY <2>1
    DEF ProcInv, SchedTypeOK, QueuesDisjoint, LinksFit, HartFits, MayBeIn, In, procVars, Phases
  <2>3. ProcTypeOK' /\ OfTheLiving' /\ Waiting' /\ CallsFit'
    BY <2>1, FamiliesKept DEF procVars
  <2> QED BY <2>1, <2>2, <2>3 DEF ProcInv, ReadyLinked, Linked, In, procVars
<1> QED BY <1>2, <1>3

(* The three ways to leave the process that was on the hart.               *)
LeavesHart(from) ==
  \/ from = "none" /\ (current = NoProc \/ state[current] \notin {"ACTIF", "KILLED"})
  \/ from = "activatable" /\ current # NoProc /\ state[current] = "ACTIF"
  \/ from = "dead" /\ current # NoProc /\ state[current] = "KILLED"

(* The links after the dispatch.                                           *)
LEMMA DispatchLinks ==
  ASSUME ProcInv, AtSwitch, NEW from, Dispatch(from), LeavesHart(from)
  PROVE  /\ queue' \in [Queues -> Seq(Procs)] /\ DisjointIn(queue')
         /\ Top \in Procs /\ Has(queue["activatable"], Top) /\ state[Top] \in Present
         /\ \A m \in Queues : \A x :
               Has(queue'[m], x) <=> \/ Has(queue[m], x) /\ x # Top
                                     \/ from # "none" /\ m = from /\ x = current
         /\ from # "none" =>
               /\ current \in Procs /\ current # Top /\ from \in Queues
               /\ \A m \in Queues : ~ Has(queue[m], current)
<1> USE SchedulerQueuesExist
<1> DEFINE g == Pop(queue, "activatable")
<1>1. queue \in [Queues -> Seq(Procs)] /\ DisjointIn(queue) /\ queue["activatable"] # <<>>
  BY ProcFacts DEF AtSwitch
<1>2. /\ g \in [Queues -> Seq(Procs)] /\ DisjointIn(g)
      /\ Top \in Procs /\ Has(queue["activatable"], Top)
      /\ \A m \in Queues : \A x : Has(g[m], x) <=> Has(queue[m], x) /\ x # Top
  BY <1>1, OutOf DEF Top
<1>3. state[Top] \in Present
  <2>1. In(Top, "activatable")
    BY <1>2 DEF In
  <2> QED BY <1>2, <2>1 DEF ProcInv, LinksFit, MayBeIn, Present
<1>4. CASE from = "none"
  <2>1. queue' = g
    BY <1>4 DEF Dispatch
  <2> QED BY <1>2, <1>3, <1>4, <2>1
<1>5. CASE from # "none"
  <2>1. current \in Procs /\ from \in Queues /\ state[current] \in {"ACTIF", "KILLED"}
    BY <1>5, ProcFacts DEF LeavesHart
  <2>2. \A m \in Queues : ~ Has(queue[m], current)
    <3>1. \A m \in Queues : In(current, m) => MayBeIn(current, m)
      BY <2>1 DEF ProcInv, LinksFit
    <3>2. ~ In(current, "dead")
      BY <1>5 DEF ProcInv, HartFits, LeavesHart
    <3> QED BY <2>1, <3>1, <3>2 DEF MayBeIn, In
  <2>3. queue' = Link(g, from, current, prio)
    BY <1>5 DEF Dispatch
  <2>4. \A m \in Queues : ~ Has(g[m], current)
    BY <1>2, <2>2
  <2>5. prio \in [Procs -> Int]
    BY ProcFacts
  <2> HIDE DEF g
  <2>6. /\ queue' \in [Queues -> Seq(Procs)] /\ DisjointIn(queue')
        /\ \A m \in Queues : \A x :
              Has(queue'[m], x) <=> Has(g[m], x) \/ (m = from /\ x = current)
    <3>1. CASE from = "activatable"
      <4>1. /\ Link(g, "activatable", current, prio) \in [Queues -> Seq(Procs)]
            /\ DisjointIn(Link(g, "activatable", current, prio))
            /\ \A m \in Queues : \A x :
                   Has(Link(g, "activatable", current, prio)[m], x)
                       <=> Has(g[m], x) \/ (m = "activatable" /\ x = current)
        <5>1. g \in [Queues -> Seq(Procs)] /\ DisjointIn(g) /\ current \in Procs
          BY <1>2, <2>1
        <5>2. "activatable" \in Queues
          OBVIOUS
        <5> QED BY ONLY <2>4, <2>5, <5>1, <5>2, AddTo, ZenonT(60)
      <4> QED BY <2>3, <3>1, <4>1
    <3>2. CASE from = "dead"
      <4>1. /\ Link(g, "dead", current, prio) \in [Queues -> Seq(Procs)]
            /\ DisjointIn(Link(g, "dead", current, prio))
            /\ \A m \in Queues : \A x :
                   Has(Link(g, "dead", current, prio)[m], x)
                       <=> Has(g[m], x) \/ (m = "dead" /\ x = current)
        <5>1. g \in [Queues -> Seq(Procs)] /\ DisjointIn(g) /\ current \in Procs
          BY <1>2, <2>1
        <5>2. "dead" \in Queues
          OBVIOUS
        <5> QED BY ONLY <2>4, <2>5, <5>1, <5>2, AddTo, ZenonT(60)
      <4> QED BY <2>3, <3>2, <4>1
    <3> QED BY <1>5, <3>1, <3>2 DEF LeavesHart
  <2> QED BY <1>2, <1>3, <1>5, <2>1, <2>2, <2>6
<1> QED BY <1>4, <1>5

(* Whichever way the process on the hart is left, the invariant holds.     *)
LEMMA DispatchKeeps ==
  ASSUME ProcInv, AtSwitch, NEW from, Dispatch(from), LeavesHart(from), halt' = halt,
         state' \in [Procs -> States],
         \A x \in Procs :
            state'[x] = IF x = Top THEN "ACTIF"
                        ELSE IF x = current /\ from = "activatable" THEN "ACTIVATABLE"
                        ELSE state[x],
         UNCHANGED lifeVars
  PROVE  ProcInv' /\ (ReadyLinked => ReadyLinked')
<1> USE SchedulerQueuesExist
<1>1. /\ queue' \in [Queues -> Seq(Procs)] /\ DisjointIn(queue')
      /\ Top \in Procs /\ Has(queue["activatable"], Top) /\ state[Top] \in Present
      /\ \A m \in Queues : \A x :
            Has(queue'[m], x) <=> \/ Has(queue[m], x) /\ x # Top
                                  \/ from # "none" /\ m = from /\ x = current
      /\ from # "none" =>
            /\ current \in Procs /\ current # Top /\ from \in Queues
            /\ \A m \in Queues : ~ Has(queue[m], current)
  BY DispatchLinks
<1>2. current' = Top /\ phase' = "user" /\ UNCHANGED <<prio, wake, blocked_head, clock>>
  BY DEF Dispatch
<1>3. state' \in [Procs -> States]
  OBVIOUS
<1>4. \A x \in Procs :
         state'[x] = IF x = Top THEN "ACTIF"
                     ELSE IF x = current /\ from = "activatable" THEN "ACTIVATABLE" ELSE state[x]
  OBVIOUS
<1>5. SchedTypeOK'
  BY <1>1, <1>2, <1>3 DEF ProcInv, SchedTypeOK, Phases
<1>6. LinksFit'
  <2>1. ASSUME NEW p \in Procs, NEW n \in Queues, Has(queue'[n], p)
        PROVE  MayBeIn(p, n)'
    <3>1. CASE from # "none" /\ n = from /\ p = current
      BY <1>1, <1>4, <3>1 DEF MayBeIn, LeavesHart
    <3>2. CASE Has(queue[n], p) /\ p # Top
      <4>1. MayBeIn(p, n) /\ state'[p] = state[p]
        BY <1>1, <1>4, <3>2 DEF ProcInv, LinksFit, In
      <4> QED BY <4>1, <1>2 DEF MayBeIn
    <3> QED BY <1>1, <2>1, <3>1, <3>2
  <2>2. ASSUME NEW p \in Procs, state'[p] = "BLOCKEDQUEUE"
        PROVE  blocked_head'[p] \notin {"activatable", "asleep", "dead"}
    BY <1>2, <1>4, <2>2 DEF ProcInv, LinksFit
  <2> QED BY <2>1, <2>2 DEF LinksFit, In
<1>7. HartFits'
  <2>1. ASSUME NEW p \in Procs, state'[p] = "ACTIF" PROVE p = Top
    <3> SUFFICES ASSUME p # Top PROVE FALSE
      OBVIOUS
    <3>1. state[p] = "ACTIF" /\ p = current /\ from # "activatable"
      BY <1>4, <2>1 DEF ProcInv, HartFits
    <3> QED BY <3>1, SchedulerAssumption DEF LeavesHart
  <2>2. state'[Top] = "ACTIF" /\ \A m \in Queues : ~ Has(queue'[m], Top)
    BY <1>1, <1>4
  <2>3. /\ state'[Idle] \in {"ACTIF", "ACTIVATABLE"}
        /\ state'[Idle] = "ACTIVATABLE" => Has(queue'["activatable"], Idle)
    <3>1. CASE Idle = Top
      BY <1>4, <3>1, ProcFacts
    <3>2. CASE Idle # Top /\ state[Idle] = "ACTIF"
      BY <1>1, <1>4, <3>2, ProcFacts DEF LeavesHart, ProcInv, HartFits
    <3>3. CASE Idle # Top /\ state[Idle] = "ACTIVATABLE"
      BY <1>1, <1>4, <3>3, ProcFacts DEF ProcInv, HartFits, In
    <3> QED BY <3>1, <3>2, <3>3 DEF ProcInv, HartFits
  <2> QED BY <1>1, <1>2, <2>1, <2>2, <2>3 DEF HartFits, In
<1>8. ProcTypeOK' /\ OfTheLiving' /\ Waiting' /\ CallsFit'
  <2>1. \A x \in Procs : state'[x] = state[x] \/ (state[x] \in Present /\ state'[x] \in Present)
    BY <1>1, <1>4 DEF Present, LeavesHart
  <2> QED BY <2>1, FamiliesKept
<1>9. ReadyLinked => ReadyLinked'
  BY <1>1, <1>4 DEF ReadyLinked, Linked, In
<1> QED BY <1>1, <1>5, <1>6, <1>7, <1>8, <1>9, DisjointNext DEF ProcInv

(* The context switch.                                                     *)
LEMMA SwitchKeeps ==
  ASSUME ProcInv, UNCHANGED lifeVars,
         \/ First \/ Preempt \/ Leave
         \/ Abandon
  PROVE  ProcInv' /\ (ReadyLinked => ReadyLinked')
<1> USE ProcFacts
<1>1. AtSwitch /\ "ACTIF" \in States /\ "ACTIVATABLE" \in States
  BY DEF First, Preempt, Leave, Abandon, States
<1>2. CASE First \/ Leave
  <2>1. Dispatch("none") /\ LeavesHart("none") /\ halt' = halt
    BY <1>2 DEF First, Leave, LeavesHart
  <2>2. state' = [state EXCEPT ![Top] = "ACTIF"]
    BY <1>2 DEF First, Leave
  <2>3. /\ state' \in [Procs -> States]
        /\ \A x \in Procs : state'[x] = IF x = Top THEN "ACTIF" ELSE state[x]
    BY <1>1, <2>2
  <2> QED BY <1>1, <2>1, <2>3, DispatchKeeps
<1>3. CASE Abandon
  <2>1. Dispatch("dead") /\ LeavesHart("dead")
    BY <1>3 DEF Abandon, LeavesHart
  <2>2. state' = [state EXCEPT ![Top] = "ACTIF"]
    BY <1>3 DEF Abandon
  <2>3. /\ state' \in [Procs -> States]
        /\ \A x \in Procs : state'[x] = IF x = Top THEN "ACTIF" ELSE state[x]
    BY <1>1, <2>2
  <2>4. halt' = halt
    <3>1. \A m \in Queues : ~ Has(queue[m], current)
      <4>1. current \in Procs /\ state[current] = "KILLED" /\ ~ In(current, "dead")
        BY <1>3 DEF Abandon, ProcInv, HartFits
      <4>2. \A m \in Queues : In(current, m) => MayBeIn(current, m)
        BY <4>1 DEF ProcInv, LinksFit
      <4> QED BY <4>1, <4>2 DEF MayBeIn, In
    <3> QED BY <1>3, <3>1 DEF Abandon, AssertThat, Linked, In
  <2> QED BY <1>1, <2>1, <2>3, <2>4, DispatchKeeps
<1>4. CASE Preempt
  <2>1. Dispatch("activatable") /\ LeavesHart("activatable")
    BY <1>4 DEF Preempt, LeavesHart
  <2>2. state' = [state EXCEPT ![current] = "ACTIVATABLE", ![Top] = "ACTIF"]
    BY <1>4 DEF Preempt
  <2>3. /\ state' \in [Procs -> States]
        /\ \A x \in Procs : state'[x] = IF x = Top THEN "ACTIF"
                                       ELSE IF x = current THEN "ACTIVATABLE" ELSE state[x]
    BY <1>1, <2>2
  <2>4. halt' = halt
    <3>1. \A m \in Queues : ~ Has(queue[m], current)
      BY <1>4, UnlinkedStates DEF Preempt
    <3> QED BY <1>4, <3>1 DEF Preempt, AssertThat, Linked, In
  <2> QED BY <1>1, <2>1, <2>3, <2>4, DispatchKeeps
<1> QED BY <1>2, <1>3, <1>4

(* Nobody is ready but the current process: were it blocked, the idle      *)
(* process would be ready.                                                 *)
LEMMA StayKeeps ==
  ASSUME ProcInv, Stay, UNCHANGED lifeVars
  PROVE  ProcInv' /\ (ReadyLinked => ReadyLinked')
<1>1. /\ UNCHANGED <<procVars, queue, current, clock, halt>> /\ phase' = "user"
      /\ queue["activatable"] = <<>> \/ (current # NoProc /\ state[current] = "ACTIF")
  BY DEF Stay, procVars
<1>2. ASSUME current # NoProc PROVE state[current] = "ACTIF"
  <2>1. CASE queue["activatable"] = <<>>
    <3>1. ~ In(Idle, "activatable")
      BY <2>1 DEF In, Has
    <3> QED BY <3>1, ProcFacts DEF ProcInv, HartFits
  <2> QED BY <1>1, <1>2, <2>1
<1>3. SchedTypeOK'
  BY <1>1 DEF ProcInv, SchedTypeOK, procVars, Phases
<1>4. QueuesDisjoint' /\ LinksFit' /\ HartFits'
  BY <1>1, <1>2 DEF ProcInv, QueuesDisjoint, LinksFit, HartFits, MayBeIn, In, procVars
<1>5. ProcTypeOK' /\ OfTheLiving' /\ Waiting' /\ CallsFit'
  BY <1>1, FamiliesKept DEF procVars
<1> QED BY <1>1, <1>3, <1>4, <1>5 DEF ProcInv, ReadyLinked, Linked, In, procVars

-----------------------------------------------------------------------------
(* The creation of a process.  The structure it is given is free, so it is *)
(* in no queue and in no list of a living process.                         *)
LEMMA NotAChild ==
  ASSUME ProcInv, NEW p \in Procs, state[p] = "UNUSED", NEW q \in Procs, Alive(q)
  PROVE  ~ Has(children[q], p) /\ p \notin Range(children[q])
BY DEF ProcInv, OfTheLiving, Used, Has, Range

(* The list of the parent, with the new child at its end.                  *)
LEMMA AppendFacts ==
  ASSUME NEW S, NEW q \in Seq(S), NEW p \in S, NoRepeat(q), ~ Has(q, p)
  PROVE  /\ Append(q, p) \in Seq(S) /\ NoRepeat(Append(q, p))
         /\ \A x : x \in Range(Append(q, p)) <=> x \in Range(q) \/ x = p
<1> DEFINE r == Append(q, p)
<1>1. /\ Len(q) \in Nat /\ DOMAIN q = 1 .. Len(q)
      /\ r \in Seq(S) /\ Len(r) = Len(q) + 1 /\ DOMAIN r = 1 .. Len(q) + 1
      /\ \A i \in 1 .. Len(q) : r[i] = q[i]
      /\ r[Len(q) + 1] = p
  OBVIOUS
<1> HIDE DEF r
<1>2. \A i \in DOMAIN r : i \in 1 .. Len(q) \/ i = Len(q) + 1
  BY <1>1
<1>3. \A i \in 1 .. Len(q) : r[i] # p
  BY <1>1 DEF Has
<1>4. \A i, j \in DOMAIN r : r[i] = r[j] => i = j
  <2> SUFFICES ASSUME NEW i \in DOMAIN r, NEW j \in DOMAIN r, r[i] = r[j] PROVE i = j
    OBVIOUS
  <2>1. CASE i \in 1 .. Len(q) /\ j \in 1 .. Len(q)
    BY <1>1, <2>1 DEF NoRepeat
  <2>2. CASE i = Len(q) + 1 \/ j = Len(q) + 1
    BY <1>1, <1>2, <1>3, <2>2
  <2> QED BY <1>2, <2>1, <2>2
<1>5. ASSUME NEW x PROVE x \in Range(r) <=> x \in Range(q) \/ x = p
  <2>1. x \in Range(r) <=> \E i \in DOMAIN r : r[i] = x
    BY DEF Range
  <2>2. x \in Range(q) <=> \E i \in 1 .. Len(q) : q[i] = x
    BY <1>1 DEF Range
  <2>3. Len(q) + 1 \in DOMAIN r /\ \A i \in 1 .. Len(q) : i \in DOMAIN r
    BY <1>1
  <2> QED BY <1>1, <1>2, <2>1, <2>2, <2>3
<1>6. NoRepeat(r)
  BY <1>4 DEF NoRepeat
<1> QED BY <1>1, <1>5, <1>6 DEF r

(* start_virtual and fork link the child in the list of its parent and in  *)
(* the activatable queue.                                                  *)
LEMMA CreateKeeps ==
  ASSUME ProcInv, Running, call[current] = NoProc,
         NEW p \in Procs, NEW newprio \in 1 .. 256, Create(p, newprio),
         nb_proc_running' \in Int, nb_proc_running' <= MAX_NB_PROCESS
  PROVE  ProcInv' /\ (ReadyLinked => ReadyLinked')
<1> USE SchedulerQueuesExist
<1>1. /\ current \in Procs /\ state[current] = "ACTIF" /\ phase = "user"
      /\ state[p] = "UNUSED" /\ p # current /\ p # Idle
      /\ \A m \in Queues : ~ Has(queue[m], p)
  BY OnTheHart, UnlinkedStates DEF Create, ProcInv, HartFits
<1>2. /\ state' = [state EXCEPT ![p] = "ACTIVATABLE"]
      /\ prio' = [prio EXCEPT ![p] = newprio]
      /\ wake' = [wake EXCEPT ![p] = 0]
      /\ queue' = Link(queue, "activatable", p, prio')
      /\ parent' = [parent EXCEPT ![p] = current]
      /\ children' = [children EXCEPT ![p] = <<>>, ![current] = Append(@, p)]
      /\ phase' \in {"user", "awake"}
      /\ UNCHANGED <<blocked_head, current, clock, halt, call>>
  BY <1>1 DEF Create, CallSchedulerIfHigher
<1>3. prio' \in [Procs -> 1 .. 256] /\ wake' \in [Procs -> Int] /\ state' \in [Procs -> States]
  BY <1>2, ProcFacts DEF States
<1>4. prio' \in [Procs -> Int]
  BY <1>3
<1>5. /\ queue' \in [Queues -> Seq(Procs)]
      /\ DisjointIn(queue')
      /\ \A m \in Queues : \A x :
            Has(queue'[m], x) <=> Has(queue[m], x) \/ (m = "activatable" /\ x = p)
  <2>1. queue \in [Queues -> Seq(Procs)] /\ DisjointIn(queue)
    BY ProcFacts
  <2>2. "activatable" \in Queues /\ p \in Procs /\ prio' \in [Procs -> Int]
    BY <1>4
  <2>3. \A m \in Queues : ~ Has(queue[m], p)
    BY <1>1
  <2>4. /\ Link(queue, "activatable", p, prio') \in [Queues -> Seq(Procs)]
        /\ DisjointIn(Link(queue, "activatable", p, prio'))
        /\ \A m \in Queues : \A x :
               Has(Link(queue, "activatable", p, prio')[m], x)
                   <=> Has(queue[m], x) \/ (m = "activatable" /\ x = p)
    BY ONLY <2>1, <2>2, <2>3, AddTo, ZenonT(60)
  <2> QED BY <1>2, <2>4
<1>6. \A x \in Procs : state'[x] = IF x = p THEN "ACTIVATABLE" ELSE state[x]
  BY <1>2, ProcFacts
<1>7. SchedTypeOK'
  BY <1>2, <1>3, <1>5 DEF ProcInv, SchedTypeOK, Phases
<1>8. LinksFit'
  <2>1. ASSUME NEW x \in Procs, NEW n \in Queues, Has(queue'[n], x) PROVE MayBeIn(x, n)'
    <3>1. CASE x = p
      BY <1>1, <1>5, <1>6, <2>1, <3>1 DEF MayBeIn
    <3>2. CASE x # p
      <4>1. MayBeIn(x, n) /\ state'[x] = state[x]
        BY <1>5, <1>6, <2>1, <3>2 DEF ProcInv, LinksFit, In
      <4> QED BY <1>2, <4>1 DEF MayBeIn
    <3> QED BY <3>1, <3>2
  <2>2. ASSUME NEW x \in Procs, state'[x] = "BLOCKEDQUEUE"
        PROVE  blocked_head'[x] \notin {"activatable", "asleep", "dead"}
    BY <1>2, <1>6, <2>2 DEF ProcInv, LinksFit
  <2> QED BY <2>1, <2>2 DEF LinksFit, In
<1>9. HartFits'
  <2>1. \A x \in Procs : state'[x] = "ACTIF" => x = current
    BY <1>6 DEF ProcInv, HartFits
  <2>2. /\ state'[current] = state[current] /\ state'[Idle] = state[Idle]
        /\ state[current] = "ACTIF"
        /\ \A m \in Queues : ~ Has(queue'[m], current)
    BY <1>1, <1>5, <1>6, OnTheHart, ProcFacts
  <2>3. state[Idle] = "ACTIVATABLE" => Has(queue'["activatable"], Idle)
    BY <1>5, SchedulerQueuesExist DEF ProcInv, HartFits, In
  <2> QED BY <1>2, <2>1, <2>2, <2>3, SchedulerQueuesExist DEF ProcInv, HartFits, In
<1>10. /\ children \in [Procs -> Seq(Procs)] /\ parent \in [Procs -> Procs \cup {NoProc}]
       /\ NoRepeat(children[current]) /\ ~ Has(children[current], p)
       /\ \A q \in Procs : \A c \in Range(children[q]) : c \in Procs
  <2>1. children \in [Procs -> Seq(Procs)] /\ parent \in [Procs -> Procs \cup {NoProc}]
    BY DEF ProcInv, ProcTypeOK
  <2>2. Alive(current)
    BY <1>1 DEF Alive
  <2>3. NoRepeat(children[current]) /\ ~ Has(children[current], p)
    BY <1>1, <2>2, NotAChild DEF ProcInv, OfTheLiving
  <2>4. \A q \in Procs : \A c \in Range(children[q]) : c \in Procs
    BY <2>1 DEF Range
  <2> QED BY <2>1, <2>3, <2>4
<1>11. /\ Append(children[current], p) \in Seq(Procs) /\ NoRepeat(Append(children[current], p))
       /\ \A x : x \in Range(Append(children[current], p)) <=> x \in Range(children[current]) \/ x = p
  BY <1>1, <1>10, AppendFacts
<1>12. /\ children' \in [Procs -> Seq(Procs)] /\ parent' \in [Procs -> Procs \cup {NoProc}]
       /\ children'[p] = <<>> /\ parent'[p] = current
       /\ children'[current] = Append(children[current], p)
       /\ \A q \in Procs : q # p /\ q # current => children'[q] = children[q]
       /\ \A q \in Procs : q # p => parent'[q] = parent[q]
  <2> DEFINE list == Append(children[current], p)
  <2>1. children' = [children EXCEPT ![p] = <<>>, ![current] = list]
    BY <1>1, <1>2, <1>10
  <2>2. list \in Seq(Procs) /\ <<>> \in Seq(Procs)
    BY <1>11
  <2> HIDE DEF list
  <2>3. /\ children' \in [Procs -> Seq(Procs)] /\ children'[p] = <<>> /\ children'[current] = list
        /\ \A q \in Procs : q # p /\ q # current => children'[q] = children[q]
    BY <1>1, <1>10, <2>1, <2>2
  <2>4. /\ parent' \in [Procs -> Procs \cup {NoProc}] /\ parent'[p] = current
        /\ \A q \in Procs : q # p => parent'[q] = parent[q]
    BY <1>1, <1>2, <1>10
  <2> QED BY <2>3, <2>4 DEF list
<1>13. ProcTypeOK'
  BY <1>2, <1>12 DEF ProcInv, ProcTypeOK
<1>14. \A x : x \notin Range(<<>>)
  BY DEF Range
<1>15. NoRepeat(<<>>)
  BY DEF NoRepeat
<1>16. OfTheLiving'
  <2> SUFFICES ASSUME NEW q \in Procs, Alive(q)'
               PROVE  /\ NoRepeat(children'[q])
                      /\ \A c \in Range(children'[q]) :
                            state'[c] # "UNUSED" /\ parent'[c] = q /\ state'[c] # "KILLED"
                      /\ call'[q] # NoProc => \E c \in Range(children'[q]) : Awaits(call'[q], c)
    BY DEF OfTheLiving, Used
  <2>1. CASE q = p
    <3>1. call'[q] = NoProc
      BY <1>1, <1>2, <2>1 DEF ProcInv, CallsFit, Used
    <3> QED BY <1>12, <1>14, <1>15, <2>1, <3>1
  <2>2. CASE q # p
    <3>1. Alive(q)
      BY <1>6, <2>2 DEF Alive
    <3>2. /\ NoRepeat(children[q])
          /\ \A c \in Range(children[q]) :
                c \in Procs /\ c # p /\ state[c] # "UNUSED" /\ parent[c] = q /\ state[c] # "KILLED"
          /\ call[q] # NoProc => \E c \in Range(children[q]) : Awaits(call[q], c)
      BY <1>10, <3>1, NotAChild, <1>1 DEF ProcInv, OfTheLiving, Used
    <3>3. CASE q = current
      BY <1>2, <1>6, <1>11, <1>12, <3>2, <3>3
    <3>4. CASE q # current
      BY <1>2, <1>6, <1>12, <2>2, <3>2, <3>4
    <3> QED BY <3>3, <3>4
  <2> QED BY <2>1, <2>2
<1>17. Waiting'
  <2> SUFFICES ASSUME NEW q \in Procs, state'[q] = "BLOCKEDWAITCHILD"
               PROVE  /\ call'[q] # NoProc
                      /\ \A c \in Range(children'[q]) : Awaits(call'[q], c) => state'[c] # "ZOMBIE"
    BY DEF Waiting
  <2>1. q # p /\ q # current /\ state[q] = "BLOCKEDWAITCHILD"
    BY <1>1, <1>6
  <2>2. /\ call'[q] = call[q] /\ children'[q] = children[q]
    BY <1>2, <1>12, <2>1
  <2>3. /\ call[q] # NoProc
        /\ \A c \in Range(children[q]) : Awaits(call[q], c) => state[c] # "ZOMBIE"
    BY <2>1 DEF ProcInv, Waiting
  <2>4. \A c \in Range(children[q]) : c \in Procs
    BY <1>10 DEF Range
  <2>5. \A c \in Procs : state[c] # "ZOMBIE" => state'[c] # "ZOMBIE"
    BY <1>6
  <2>6. \A c : Awaits(call'[q], c) <=> Awaits(call[q], c)
    BY <2>2
  <2> QED BY <2>2, <2>3, <2>4, <2>5, <2>6
<1>18. CallsFit'
  BY <1>1, <1>2, <1>6, <1>12 DEF ProcInv, CallsFit, Used
<1>19. ReadyLinked => ReadyLinked'
  BY <1>5, <1>6 DEF ReadyLinked, Linked, In
<1> QED BY <1>5, <1>7, <1>8, <1>9, <1>13, <1>16, <1>17, <1>18, <1>19, DisjointNext DEF ProcInv

(* start_virtual, fork, and a start_virtual that is refused.               *)
LEMMA StartKeeps ==
  ASSUME ProcInv,
         \/ \E p \in Procs, newprio \in Prios : StartVirtual(p, newprio)
         \/ StartVirtualBad
         \/ \E p \in Procs : Fork(p)
  PROVE  ProcInv' /\ (ReadyLinked => ReadyLinked')
<1>1. /\ Running /\ current \in Procs /\ call[current] = NoProc /\ prio[current] \in 1 .. 256
      /\ nb_proc_running \in Int /\ nb_proc_running <= MAX_NB_PROCESS
  BY OnTheHart DEF StartVirtual, StartVirtualBad, Fork, Calling, InUser, Running, ProcInv,
                   ProcTypeOK, SchedTypeOK
<1>2. Count => nb_proc_running' \in Int /\ nb_proc_running' <= MAX_NB_PROCESS
  BY <1>1 DEF Count
<1>3. ASSUME NEW p \in Procs, NEW newprio \in Prios, StartVirtual(p, newprio)
      PROVE  ProcInv' /\ (ReadyLinked => ReadyLinked')
  BY <1>1, <1>2, <1>3, CreateKeeps DEF StartVirtual, ValidPrio
<1>4. ASSUME NEW p \in Procs, Fork(p)
      PROVE  ProcInv' /\ (ReadyLinked => ReadyLinked')
  BY <1>1, <1>4, CreateKeeps DEF Fork
<1>5. CASE StartVirtualBad
  <2>1. UNCHANGED <<schedVars, parent, children, call>>
        /\ nb_proc_running' \in Int /\ nb_proc_running' <= MAX_NB_PROCESS
    BY <1>2, <1>5 DEF StartVirtualBad
  <2> QED BY <2>1
      DEF ProcInv, SchedTypeOK, ProcTypeOK, QueuesDisjoint, LinksFit, HartFits, OfTheLiving,
          Waiting, CallsFit, MayBeIn, In, Alive, Used, schedVars, ReadyLinked, Linked
<1> QED BY <1>3, <1>4, <1>5

-----------------------------------------------------------------------------
(* The end of a process.  What its exit frees are zombies, each of them in *)
(* the list of the leaving process or of another that is freed.            *)
LEMMA TreeMember ==
  ASSUME children \in [Procs -> Seq(Procs)], NEW p \in Procs, NEW c \in ZombieTree(p)
  PROVE  /\ c \in Procs /\ state[c] = "ZOMBIE"
         /\ \E z \in {p} \cup ZombieTree(p) : c \in Range(children[z])
<1> DEFINE T == ZombieTree(p)
           S == {x \in T : state[x] = "ZOMBIE" /\ \E z \in {p} \cup T : x \in Range(children[z])}
<1>1. T \subseteq Procs
  BY DEF ZombieTree
<1>2. \A z \in Procs : ZombieChildren(z) \subseteq Procs
  BY DEF ZombieChildren, Range
<1>3. ASSUME NEW z \in T \cup {p} PROVE ZombieChildren(z) \subseteq T
  <2> SUFFICES ASSUME NEW x \in ZombieChildren(z), NEW R \in SUBSET Procs,
                      \A y \in R \cup {p} : ZombieChildren(y) \subseteq R
               PROVE  x \in R
    BY <1>1, <1>2 DEF ZombieTree
  <2>1. z \in R \cup {p}
    BY DEF ZombieTree
  <2> QED BY <2>1
<1>4. \A z \in S \cup {p} : ZombieChildren(z) \subseteq S
  BY <1>3 DEF ZombieChildren
<1>5. S \in SUBSET Procs
  BY <1>1
<1>6. c \in S
  <2> HIDE DEF S
  <2> QED BY <1>4, <1>5 DEF ZombieTree
<1> QED BY <1>1, <1>6

(* No living process but the one that leaves has a child that is freed.    *)
LEMMA OthersKeepTheirs ==
  ASSUME ProcInv, NEW p \in Procs, Alive(p), \A c \in Stale(p) : state[c] = "UNUSED",
         NEW q \in Procs, q # p, Alive(q), NEW c \in Range(children[q])
  PROVE  c \notin ZombieTree(p)
<1> SUFFICES ASSUME c \in ZombieTree(p) PROVE FALSE
  OBVIOUS
<1>1. children \in [Procs -> Seq(Procs)]
  BY DEF ProcInv, ProcTypeOK
<1>2. /\ c \in Procs /\ state[c] = "ZOMBIE"
      /\ \E z \in {p} \cup ZombieTree(p) : c \in Range(children[z])
  BY <1>1, TreeMember
<1>3. PICK z \in {p} \cup ZombieTree(p) : c \in Range(children[z])
  BY <1>2
<1>4. parent[c] = z
  BY <1>2, <1>3 DEF Stale
<1>5. parent[c] = q
  BY DEF ProcInv, OfTheLiving
<1>6. z # p => state[z] = "ZOMBIE"
  BY <1>1, TreeMember
<1> QED BY <1>4, <1>5, <1>6 DEF Alive

(* What turn_current_process_into_a_zombie_or_kill_it frees, and the links *)
(* it leaves, when it reads read through the parent pointer.               *)
Unwanted(read) == read \in {"NULL", "ZOMBIE"}

FreedBy(p, read) ==
  {x \in Procs : x \in ZombieTree(p) \/ (x = p /\ Unwanted(read) /\ FreedAtOnce(p))}

LinksAfter(p, read) ==
  /\ queue' \in [Queues -> Seq(Procs)] /\ DisjointIn(queue')
  /\ \A m \in Queues : \A x :
        Has(queue'[m], x) <=> \/ Has(queue[m], x) /\ x # p
                              \/ Awakens(read) /\ m = "activatable" /\ x = parent[p]

(* st are the states the caller has left: some of the others were blocked  *)
(* on a semaphore and are ready.                                           *)
OnlyRouses(p, st) ==
  /\ st \in [Procs -> States]
  /\ \A x \in Procs :
       x # p => st[x] = state[x] \/ (state[x] = "BLOCKEDSEMAPHORE" /\ st[x] = "ACTIVATABLE")

StatesAfter(p, read, st) ==
  state' = [x \in Procs |->
              IF x \in FreedBy(p, read) THEN "UNUSED"
              ELSE IF x = p THEN IF Unwanted(read) THEN "KILLED" ELSE "ZOMBIE"
              ELSE IF Awakens(read) /\ x = parent[p] THEN "ACTIVATABLE"
              ELSE st[x]]

(* The pointer of a child somebody still has in his list is good.          *)
LEMMA ParentReadsFacts ==
  ASSUME ProcInv, NEW p \in Procs, NEW read \in ParentReads(p)
  PROVE  /\ Awakens(read) => /\ parent[p] \in Procs /\ parent[p] # p
                             /\ state[parent[p]] = "BLOCKEDWAITCHILD"
         /\ \A q \in Procs : Alive(q) /\ parent[p] = q => read = state[q]
<1>1. parent[p] \in Procs \cup {NoProc} /\ parent[p] # p /\ NoProc \notin Procs
  BY SchedulerAssumption DEF ProcInv, ProcTypeOK, CallsFit
<1>2. CASE parent[p] = NoProc
  BY <1>1, <1>2 DEF ParentReads, Awakens
<1>3. CASE parent[p] # NoProc /\ state[parent[p]] = "UNUSED"
  BY <1>1, <1>3 DEF ParentReads, Awakens, Alive
<1>4. CASE parent[p] # NoProc /\ state[parent[p]] # "UNUSED"
  <2>1. read = state[parent[p]]
    BY <1>4 DEF ParentReads
  <2> QED BY <1>1, <1>4, <2>1 DEF Awakens
<1> QED BY <1>2, <1>3, <1>4

(* Who is in which state afterwards.                                       *)
LEMMA DepartureStates ==
  ASSUME ProcInv, NEW p \in Procs, Alive(p), NEW read \in ParentReads(p),
         NEW st, OnlyRouses(p, st), StatesAfter(p, read, st)
  PROVE  /\ state' \in [Procs -> States]
         /\ state'[p] \in {"UNUSED", "KILLED", "ZOMBIE"}
         /\ state'[p] = "UNUSED" => p # current
         /\ state'[p] # "ZOMBIE" => Unwanted(read)
         /\ \A x \in FreedBy(p, read) : state'[x] = "UNUSED" /\ (x # p => state[x] = "ZOMBIE")
         /\ \A x \in Procs : x # p /\ x \notin FreedBy(p, read) =>
               state'[x] = IF Awakens(read) /\ x = parent[p] THEN "ACTIVATABLE" ELSE st[x]
         /\ Awakens(read) => state'[parent[p]] = "ACTIVATABLE"
<1> DEFINE gone == FreedBy(p, read)
<1>1. children \in [Procs -> Seq(Procs)] /\ state \in [Procs -> States]
  BY DEF ProcInv, ProcTypeOK, SchedTypeOK
<1>2. \A x \in gone : x \in Procs /\ (x # p => state[x] = "ZOMBIE")
  BY <1>1, TreeMember DEF FreedBy
<1>3. p \in gone <=> Unwanted(read) /\ p # current
  BY <1>1, TreeMember DEF FreedBy, FreedAtOnce, Alive
<1> HIDE DEF gone
<1>4. \A x \in Procs :
         state'[x] = IF x \in gone THEN "UNUSED"
                     ELSE IF x = p THEN IF Unwanted(read) THEN "KILLED" ELSE "ZOMBIE"
                     ELSE IF Awakens(read) /\ x = parent[p] THEN "ACTIVATABLE"
                     ELSE st[x]
  BY DEF StatesAfter, gone
<1>5. state' \in [Procs -> States]
  BY <1>1 DEF StatesAfter, States, OnlyRouses
<1>6. Awakens(read) => parent[p] \in Procs /\ parent[p] # p /\ parent[p] \notin gone
  BY <1>2, ParentReadsFacts
<1>7. /\ state'[p] \in {"UNUSED", "KILLED", "ZOMBIE"}
      /\ state'[p] = "UNUSED" => p # current
      /\ state'[p] # "ZOMBIE" => Unwanted(read)
  BY <1>3, <1>4
<1>8. \A x \in gone : state'[x] = "UNUSED" /\ (x # p => state[x] = "ZOMBIE")
  BY <1>2, <1>4
<1>9. \A x \in Procs : x # p /\ x \notin gone =>
         state'[x] = IF Awakens(read) /\ x = parent[p] THEN "ACTIVATABLE" ELSE st[x]
  BY <1>4
<1> QED BY <1>5, <1>6, <1>7, <1>8, <1>9 DEF gone

(* The links, the hart and the types.                                      *)
LEMMA DepartureLinks ==
  ASSUME ProcInv, Running, NEW p \in Procs, Alive(p), p # Idle, NEW read \in ParentReads(p),
         NEW st, OnlyRouses(p, st), StatesAfter(p, read, st), LinksAfter(p, read), halt' = halt,
         UNCHANGED <<prio, wake, blocked_head, current, clock>>,
         phase' \in {"user", "awake"}, p = current => phase' = "awake"
  PROVE  /\ SchedTypeOK' /\ LinksFit' /\ HartFits'
         /\ ReadyLinked /\ (\A x \in Procs : x # p => st[x] = state[x]) => ReadyLinked'
<1> USE SchedulerQueuesExist
<1>1. /\ state' \in [Procs -> States]
      /\ state'[p] \in {"UNUSED", "KILLED", "ZOMBIE"}
      /\ state'[p] = "UNUSED" => p # current
      /\ \A x \in FreedBy(p, read) : state'[x] = "UNUSED" /\ (x # p => state[x] = "ZOMBIE")
      /\ \A x \in Procs : x # p /\ x \notin FreedBy(p, read) =>
            state'[x] = IF Awakens(read) /\ x = parent[p] THEN "ACTIVATABLE" ELSE st[x]
  BY DepartureStates
<1>2. Awakens(read) => /\ parent[p] \in Procs /\ parent[p] # p
                       /\ state[parent[p]] = "BLOCKEDWAITCHILD"
                       /\ state'[parent[p]] = "ACTIVATABLE"
                       /\ \A m \in Queues : ~ Has(queue[m], parent[p])
  BY ParentReadsFacts, DepartureStates, UnlinkedStates
<1>3. current \in Procs /\ state[current] = "ACTIF" /\ \A m \in Queues : ~ Has(queue[m], current)
  BY OnTheHart
<1>4. /\ queue' \in [Queues -> Seq(Procs)] /\ DisjointIn(queue')
      /\ \A m \in Queues : \A x :
            Has(queue'[m], x) <=> \/ Has(queue[m], x) /\ x # p
                                  \/ Awakens(read) /\ m = "activatable" /\ x = parent[p]
  BY DEF LinksAfter
<1>5. SchedTypeOK'
  BY <1>1, <1>4 DEF ProcInv, SchedTypeOK, Phases
<1>6. \A x \in Procs : x # p /\ (\E m \in Queues : Has(queue[m], x)) =>
         state[x] # "ZOMBIE" /\ st[x] = state[x]
  BY UnlinkedStates DEF OnlyRouses
<1>7. LinksFit'
  <2>1. ASSUME NEW x \in Procs, NEW n \in Queues, Has(queue'[n], x) PROVE MayBeIn(x, n)'
    <3>1. CASE Awakens(read) /\ x = parent[p]
      BY <1>2, <1>4, <2>1, <3>1 DEF MayBeIn
    <3>2. CASE Has(queue[n], x) /\ x # p /\ ~ (Awakens(read) /\ x = parent[p])
      <4>1. state'[x] = state[x]
        BY <1>1, <1>6, <3>2
      <4>2. MayBeIn(x, n)
        BY <3>2 DEF ProcInv, LinksFit, In
      <4> QED BY <4>1, <4>2 DEF MayBeIn
    <3> QED BY <1>4, <2>1, <3>1, <3>2
  <2>2. ASSUME NEW x \in Procs, state'[x] = "BLOCKEDQUEUE"
        PROVE  blocked_head'[x] \notin {"activatable", "asleep", "dead"}
    <3>1. state[x] = "BLOCKEDQUEUE"
      BY <1>1, <2>2 DEF OnlyRouses
    <3> QED BY <3>1 DEF ProcInv, LinksFit
  <2> QED BY <2>1, <2>2 DEF LinksFit, In
<1>8. HartFits'
  <2>1. \A x \in Procs : state'[x] = "ACTIF" => state[x] = "ACTIF"
    BY <1>1 DEF OnlyRouses
  <2>2. p # current => state'[current] = "ACTIF"
    BY <1>1, <1>2, <1>3 DEF OnlyRouses
  <2>3. state'[current] # "UNUSED" /\ ~ Has(queue'["dead"], current)
    BY <1>1, <1>3, <1>4, <2>2
  <2>4. state'[Idle] = state[Idle]
    BY <1>1, <1>2, ProcFacts DEF ProcInv, HartFits, OnlyRouses
  <2>5. state'[Idle] = "ACTIVATABLE" => Has(queue'["activatable"], Idle)
    BY <1>4, <2>4 DEF ProcInv, HartFits, In
  <2> QED BY <2>1, <2>2, <2>3, <2>4, <2>5 DEF ProcInv, HartFits, In
<1>9. ASSUME ReadyLinked, \A x \in Procs : x # p => st[x] = state[x] PROVE ReadyLinked'
  <2> SUFFICES ASSUME NEW x \in Procs,
                      state'[x] \in {"ACTIVATABLE", "ASLEEP", "BLOCKEDIO", "BLOCKEDQUEUE"}
               PROVE  \E m \in Queues : Has(queue'[m], x)
    BY DEF ReadyLinked, Linked, In
  <2>1. CASE Awakens(read) /\ x = parent[p]
    BY <1>4, <2>1
  <2>2. CASE ~ (Awakens(read) /\ x = parent[p])
    <3>1. x # p /\ state'[x] = state[x]
      BY <1>1, <1>9, <2>2
    <3>2. \E m \in Queues : Has(queue[m], x)
      BY <1>9, <3>1 DEF ReadyLinked, Linked, In
    <3> QED BY <1>4, <3>1, <3>2
  <2> QED BY <2>1, <2>2
<1> QED BY <1>5, <1>7, <1>8, <1>9

(* The families.                                                           *)
LEMMA DepartureFamilies ==
  ASSUME ProcInv, NEW p \in Procs, Alive(p), p # Idle, NEW read \in ParentReads(p),
         \A c \in Stale(p) : state[c] = "UNUSED",
         NEW st, OnlyRouses(p, st), StatesAfter(p, read, st), Free(FreedBy(p, read), children)
  PROVE  ProcTypeOK' /\ OfTheLiving' /\ Waiting' /\ CallsFit'
<1> DEFINE gone == FreedBy(p, read)
<1>1. /\ state' \in [Procs -> States]
      /\ state'[p] \in {"UNUSED", "KILLED", "ZOMBIE"}
      /\ state'[p] # "ZOMBIE" => Unwanted(read)
      /\ \A x \in gone : state'[x] = "UNUSED" /\ (x # p => state[x] = "ZOMBIE")
      /\ \A x \in Procs : x # p /\ x \notin gone =>
            state'[x] = IF Awakens(read) /\ x = parent[p] THEN "ACTIVATABLE" ELSE st[x]
  BY DepartureStates
<1>2. /\ Awakens(read) => /\ parent[p] \in Procs /\ parent[p] # p
                          /\ state[parent[p]] = "BLOCKEDWAITCHILD"
                          /\ state'[parent[p]] = "ACTIVATABLE"
      /\ \A q \in Procs : Alive(q) /\ parent[p] = q => read = state[q]
  BY ParentReadsFacts, DepartureStates
<1>3. gone \subseteq Procs /\ Cardinality(gone) \in Nat
  <2>1. gone \subseteq Procs
    BY DEF FreedBy
  <2> QED BY <2>1, SchedulerAssumption, FS_Subset, FS_CardinalityType
<1>4. \A x \in gone : x \in ZombieTree(p) \/ (x = p /\ Unwanted(read))
  BY DEF FreedBy
<1>5. /\ parent' = [x \in Procs |-> IF x \in gone THEN NoProc ELSE parent[x]]
      /\ children' = [x \in Procs |-> IF x \in gone THEN <<>> ELSE children[x]]
      /\ call' = [x \in Procs |-> IF x \in gone THEN NoProc ELSE call[x]]
      /\ nb_proc_running' = nb_proc_running - Cardinality(gone)
  BY DEF Free
<1> HIDE DEF gone
<1>6. /\ children \in [Procs -> Seq(Procs)] /\ parent \in [Procs -> Procs \cup {NoProc}]
      /\ call \in [Procs -> Procs \cup {NoProc, AnyChild}]
      /\ nb_proc_running \in Int /\ nb_proc_running <= MAX_NB_PROCESS /\ MAX_NB_PROCESS \in Int
      /\ \A q \in Procs : \A c \in Range(children[q]) : c \in Procs
  BY ProcessAssumption DEF ProcInv, ProcTypeOK, Range
<1>7. ProcTypeOK'
  <2>1. nb_proc_running' \in Int /\ nb_proc_running' <= MAX_NB_PROCESS
    BY <1>3, <1>5, <1>6
  <2>2. children' \in [Procs -> Seq(Procs)] /\ parent' \in [Procs -> Procs \cup {NoProc}]
    BY <1>5, <1>6
  <2>3. call' \in [Procs -> Procs \cup {NoProc, AnyChild}]
    BY <1>5, <1>6
  <2> QED BY <2>1, <2>2, <2>3 DEF ProcTypeOK
<1>8. ASSUME NEW q \in Procs, Alive(q)'
      PROVE  Alive(q) /\ q # p /\ q \notin gone
  <2>1. q # p /\ q \notin gone
    BY <1>1, <1>8 DEF Alive
  <2> QED BY <1>1, <1>2, <1>8, <2>1 DEF Alive, OnlyRouses
<1>9. ASSUME NEW q \in Procs, Alive(q), q # p, NEW c \in Range(children[q])
      PROVE  /\ c \in Procs /\ parent[c] = q /\ c \notin gone
             /\ state'[c] # "UNUSED" /\ state'[c] # "KILLED"
             /\ state'[c] = "ZOMBIE" => state[c] = "ZOMBIE" \/ (c = p /\ read = state[q])
  <2>1. c \in Procs /\ parent[c] = q /\ state[c] # "UNUSED" /\ state[c] # "KILLED"
    BY <1>6, <1>9 DEF ProcInv, OfTheLiving, Used
  <2>2. c \notin ZombieTree(p)
    BY <1>9, OthersKeepTheirs
  <2>3. c = p => read = state[q] /\ ~ Unwanted(read)
    BY <1>2, <1>9, <2>1 DEF Unwanted, Alive, ProcInv, SchedTypeOK, States
  <2>4. c \notin gone
    BY <1>4, <2>2, <2>3
  <2>5. c = p => state'[c] = "ZOMBIE"
    BY <1>1, <2>3
  <2>6. c # p => state'[c] \in {"ACTIVATABLE", state[c]}
    BY <1>1, <2>1, <2>4 DEF OnlyRouses
  <2> QED BY <2>1, <2>3, <2>4, <2>5, <2>6
<1>10. OfTheLiving'
  <2> SUFFICES ASSUME NEW q \in Procs, Alive(q)'
               PROVE  /\ NoRepeat(children'[q])
                      /\ \A c \in Range(children'[q]) :
                            state'[c] # "UNUSED" /\ parent'[c] = q /\ state'[c] # "KILLED"
                      /\ call'[q] # NoProc => \E c \in Range(children'[q]) : Awaits(call'[q], c)
    BY DEF OfTheLiving, Used
  <2>1. Alive(q) /\ q # p /\ q \notin gone
    BY <1>8
  <2>2. children'[q] = children[q] /\ call'[q] = call[q]
    BY <1>5, <2>1
  <2>3. /\ NoRepeat(children[q])
        /\ call[q] # NoProc => \E c \in Range(children[q]) : Awaits(call[q], c)
    BY <2>1 DEF ProcInv, OfTheLiving
  <2>4. \A c \in Range(children[q]) :
           state'[c] # "UNUSED" /\ parent'[c] = q /\ state'[c] # "KILLED"
    BY <1>5, <1>9, <2>1
  <2> QED BY <2>2, <2>3, <2>4
<1>11. Waiting'
  <2> SUFFICES ASSUME NEW q \in Procs, state'[q] = "BLOCKEDWAITCHILD"
               PROVE  /\ call'[q] # NoProc
                      /\ \A c \in Range(children'[q]) : Awaits(call'[q], c) => state'[c] # "ZOMBIE"
    BY DEF Waiting
  <2>1. Alive(q) /\ q # p /\ q \notin gone
    BY <1>8 DEF Alive
  <2>2. children'[q] = children[q] /\ call'[q] = call[q]
    BY <1>5, <2>1
  <2>3. state[q] = "BLOCKEDWAITCHILD" /\ ~ (Awakens(read) /\ q = parent[p])
    BY <1>1, <2>1 DEF OnlyRouses
  <2>4. ASSUME NEW c \in Range(children[q]), Awaits(call[q], c) PROVE state'[c] # "ZOMBIE"
    <3>1. state[c] # "ZOMBIE"
      BY <2>3, <2>4 DEF ProcInv, Waiting
    <3>2. c = p => ~ (read = state[q])
      BY <1>9, <2>1, <2>3 DEF Awakens
    <3> QED BY <1>9, <2>1, <3>1, <3>2
  <2>5. call[q] # NoProc
    BY <2>3 DEF ProcInv, Waiting
  <2> QED BY <2>2, <2>4, <2>5
<1>12. CallsFit'
  <2>1. \A x \in Procs : parent'[x] # x
    BY <1>5, SchedulerAssumption DEF ProcInv, CallsFit
  <2>2. call'[Idle] = NoProc
    BY <1>5, ProcFacts DEF ProcInv, CallsFit
  <2>3. ASSUME NEW x \in Procs, state'[x] = "UNUSED" PROVE call'[x] = NoProc
    <3>1. CASE x \in gone
      BY <1>5, <3>1
    <3>2. CASE x \notin gone
      <4>1. x = p => state'[p] \in {"KILLED", "ZOMBIE"}
        BY <3>2 DEF StatesAfter, gone
      <4>2. state[x] = "UNUSED"
        BY <1>1, <2>3, <3>2, <4>1 DEF OnlyRouses
      <4> QED BY <1>5, <3>2, <4>2 DEF ProcInv, CallsFit, Used
    <3> QED BY <3>1, <3>2
  <2> QED BY <2>1, <2>2, <2>3 DEF CallsFit, Used
<1> QED BY <1>7, <1>10, <1>11, <1>12

(* turn_current_process_into_a_zombie_or_kill_it, once p is linked nowhere.*)
LEMMA TurnKeeps ==
  ASSUME ProcInv, Running, NEW p \in Procs, Alive(p), p # Idle,
         \A c \in Stale(p) : state[c] = "UNUSED",
         NEW links, links \in [Queues -> Seq(Procs)], DisjointIn(links),
         \A m \in Queues : \A x : Has(links[m], x) <=> Has(queue[m], x) /\ x # p,
         NEW st, OnlyRouses(p, st), TurnIntoZombie(p, links, st),
         UNCHANGED <<prio, wake, blocked_head, current, clock>>,
         phase' \in {"user", "awake"}, p = current => phase' = "awake"
  PROVE  /\ ProcInv' /\ halt' = halt
         /\ ReadyLinked /\ (\A x \in Procs : x # p => st[x] = state[x]) => ReadyLinked'
         /\ \A x \in Procs :
              state'[x] = "BLOCKEDSEMAPHORE" <=> x # p /\ st[x] = "BLOCKEDSEMAPHORE"
<1>1. PICK read \in ParentReads(p) :
         /\ StatesAfter(p, read, st)
         /\ queue' = IF Awakens(read) THEN Link(links, "activatable", parent[p], prio) ELSE links
         /\ AssertThat(Awakens(read) => ~ Linked(parent[p]))
         /\ Free(FreedBy(p, read), children)
  BY DEF TurnIntoZombie, StatesAfter, FreedBy, Unwanted
<1>2. Awakens(read) => parent[p] \in Procs /\ state[parent[p]] = "BLOCKEDWAITCHILD"
  BY ParentReadsFacts
<1>3. Awakens(read) => ~ Linked(parent[p]) /\ \A m \in Queues : ~ Has(queue[m], parent[p])
  BY <1>2, UnlinkedStates
<1>4. halt' = halt
  BY <1>1, <1>3 DEF AssertThat
<1>5. LinksAfter(p, read)
  <2>1. CASE ~ Awakens(read)
    BY <1>1, <2>1 DEF LinksAfter
  <2>2. CASE Awakens(read)
    <3> DEFINE par == parent[p]
    <3>1. par \in Procs /\ prio \in [Procs -> Int] /\ "activatable" \in Queues
      BY <1>2, <2>2, ProcFacts, SchedulerQueuesExist
    <3>2. \A m \in Queues : ~ Has(links[m], par)
      BY <1>3, <2>2
    <3>3. links \in [Queues -> Seq(Procs)] /\ DisjointIn(links)
      OBVIOUS
    <3> HIDE DEF par
    <3>4. /\ Link(links, "activatable", par, prio) \in [Queues -> Seq(Procs)]
          /\ DisjointIn(Link(links, "activatable", par, prio))
          /\ \A m \in Queues : \A x :
                 Has(Link(links, "activatable", par, prio)[m], x)
                     <=> Has(links[m], x) \/ (m = "activatable" /\ x = par)
      BY ONLY <3>1, <3>2, <3>3, AddTo, ZenonT(60)
    <3>5. queue' = Link(links, "activatable", par, prio)
      BY <1>1, <2>2 DEF par
    <3> QED BY <2>2, <3>4, <3>5 DEF LinksAfter, par
  <2> QED BY <2>1, <2>2
<1>6. /\ SchedTypeOK' /\ LinksFit' /\ HartFits'
      /\ ReadyLinked /\ (\A x \in Procs : x # p => st[x] = state[x]) => ReadyLinked'
  BY <1>1, <1>4, <1>5, DepartureLinks
<1>7. ProcTypeOK' /\ OfTheLiving' /\ Waiting' /\ CallsFit'
  BY <1>1, DepartureFamilies
<1>8. QueuesDisjoint'
  BY <1>5, DisjointNext DEF LinksAfter
<1>9. ASSUME NEW x \in Procs
      PROVE  state'[x] = "BLOCKEDSEMAPHORE" <=> x # p /\ st[x] = "BLOCKEDSEMAPHORE"
  <2>1. CASE x = p
    BY <1>1, <2>1, DepartureStates
  <2>2. CASE x # p /\ x \in FreedBy(p, read)
    BY <1>1, <2>2, DepartureStates DEF OnlyRouses
  <2>3. CASE x # p /\ x \notin FreedBy(p, read)
    <3>1. state'[x] = IF Awakens(read) /\ x = parent[p] THEN "ACTIVATABLE" ELSE st[x]
      BY <1>1, <2>3, DepartureStates
    <3> QED BY <1>2, <2>3, <3>1 DEF OnlyRouses
  <2> QED BY <2>1, <2>2, <2>3
<1> QED BY <1>4, <1>6, <1>7, <1>8, <1>9 DEF ProcInv

(* A step that only ends the run with an error, or goes on to scheduler(). *)
LEMMA HaltKeeps ==
  ASSUME ProcInv, UNCHANGED <<state, queue, lifeVars>>,
         UNCHANGED <<prio, wake, blocked_head, current, clock>>,
         halt' \in Halts, phase = "user", phase' \in {"user", "awake"}
  PROVE  ProcInv' /\ (ReadyLinked => ReadyLinked')
BY DEF ProcInv, SchedTypeOK, ProcTypeOK, QueuesDisjoint, LinksFit, HartFits, OfTheLiving,
       Waiting, CallsFit, MayBeIn, In, Alive, Used, lifeVars, ReadyLinked, Linked, Phases

(* A call that enters the scheduler and moves processes that are ready or  *)
(* blocked from queue to queue.                                            *)
LEMMA MovesKeep ==
  ASSUME ProcInv, Running,
         state' \in [Procs -> States], blocked_head' \in [Procs -> Queues],
         queue' \in [Queues -> Seq(Procs)], DisjointIn(queue'),
         \A x \in Procs : state'[x] = state[x] \/ (state[x] \in Present /\ state'[x] \in Present),
         \A x \in Procs : state'[x] = "ACTIF" => state[x] = "ACTIF",
         state'[Idle] = state[Idle],
         \A x \in Procs, n \in Queues : Has(queue'[n], x) => MayBeIn(x, n)',
         \A x \in Procs : state'[x] = "BLOCKEDQUEUE"
                            => blocked_head'[x] \notin {"activatable", "asleep", "dead"},
         Has(queue["activatable"], Idle) => Has(queue'["activatable"], Idle),
         phase' = "awake",
         halt' \in Halts,
         UNCHANGED <<prio, wake, current, clock, lifeVars>>
  PROVE  ProcInv'
<1>1. /\ current \in Procs /\ state[current] = "ACTIF" /\ phase = "user"
      /\ \A n \in Queues : ~ Has(queue[n], current)
  BY OnTheHart
<1>2. SchedTypeOK'
  BY <1>1 DEF ProcInv, SchedTypeOK, Phases
<1>3. QueuesDisjoint'
  BY DisjointNext
<1>4. LinksFit'
  BY DEF LinksFit, In
<1>5. HartFits'
  <2>1. state'[current] # "UNUSED" /\ state'[current] # "KILLED"
    BY <1>1 DEF Present
  <2>2. ~ Has(queue'["dead"], current)
    BY <1>1, <2>1, SchedulerQueuesExist DEF MayBeIn
  <2> QED BY <1>1, <2>1, <2>2 DEF ProcInv, HartFits, In
<1>6. ProcTypeOK' /\ OfTheLiving' /\ Waiting' /\ CallsFit'
  BY FamiliesKept
<1> QED BY <1>2, <1>3, <1>4, <1>5, <1>6 DEF ProcInv

(* exit_process.                                                           *)
LEMMA ExitKeeps ==
  ASSUME ProcInv, ExitProcess
  PROVE  ProcInv' /\ (ReadyLinked => ReadyLinked')
<1>1. /\ Running /\ current \in Procs /\ Alive(current) /\ current # Idle /\ phase = "user"
      /\ \A m \in Queues : ~ Has(queue[m], current)
  <2>1. Running /\ Calls[current] # {}
    BY DEF ExitProcess, Calling
  <2>2. current # Idle
    BY <2>1, ProcessAssumption
  <2> QED BY <2>1, <2>2, OnTheHart DEF Alive
<1>2. /\ UNCHANGED <<prio, wake, blocked_head, current, clock>> /\ phase' = "awake"
      /\ Leaves(current, queue, state)
  BY DEF ExitProcess, CallScheduler
<1>3. CASE halt' = "use_after_free" /\ UNCHANGED <<state, queue, lifeVars>>
  BY <1>1, <1>2, <1>3, HaltKeeps DEF Halts
<1>4. CASE (\A c \in Stale(current) : state[c] = "UNUSED") /\ TurnIntoZombie(current, queue, state)
  <2>1. /\ queue \in [Queues -> Seq(Procs)] /\ DisjointIn(queue)
        /\ \A m \in Queues : \A x : Has(queue[m], x) <=> Has(queue[m], x) /\ x # current
    BY <1>1, ProcFacts
  <2>2. OnlyRouses(current, state)
    BY ProcFacts DEF OnlyRouses
  <2> QED BY <1>1, <1>2, <1>4, <2>1, <2>2, TurnKeeps
<1> QED BY <1>2, <1>3, <1>4 DEF Leaves

(* kill of another process.                                                *)
LEMMA KillKeeps ==
  ASSUME ProcInv, NEW p \in Victims, Kill(p)
  PROVE  ProcInv' /\ (ReadyLinked => ReadyLinked')
<1>1. /\ Running /\ phase = "user" /\ p \in Procs /\ Alive(p) /\ p # Idle /\ p # current
  BY ProcessAssumption DEF Kill, Calling, Running
<1>2. UNCHANGED <<prio, wake, blocked_head, current, clock, phase>>
  BY DEF Kill
<1>3. CASE Leaves(p, Unlink(queue, p), state)
  <2>1. CASE halt' = "use_after_free" /\ UNCHANGED <<state, queue, lifeVars>>
    BY <1>1, <1>2, <2>1, HaltKeeps DEF Halts
  <2>2. CASE (\A c \in Stale(p) : state[c] = "UNUSED") /\ TurnIntoZombie(p, Unlink(queue, p), state)
    <3>1. /\ Unlink(queue, p) \in [Queues -> Seq(Procs)] /\ DisjointIn(Unlink(queue, p))
          /\ \A m \in Queues : \A x : Has(Unlink(queue, p)[m], x) <=> Has(queue[m], x) /\ x # p
      BY ProcFacts, DelFrom
    <3>2. OnlyRouses(p, state)
      BY ProcFacts DEF OnlyRouses
    <3> QED BY <1>1, <1>2, <2>2, <3>1, <3>2, TurnKeeps
  <2> QED BY <1>3, <2>1, <2>2 DEF Leaves
<1>4. CASE AssertThat(FALSE) /\ UNCHANGED <<state, queue, lifeVars>>
  BY <1>1, <1>2, <1>4, HaltKeeps DEF AssertThat, Halts
<1> QED BY <1>3, <1>4 DEF Kill

-----------------------------------------------------------------------------
(* waitpid.  Taking a child out of a list where it is once.                *)
LEMMA RemoveFacts ==
  ASSUME NEW S, NEW q \in Seq(S), NoRepeat(q), NEW i \in DOMAIN q
  PROVE  /\ RemoveAt(q, i) \in Seq(S) /\ NoRepeat(RemoveAt(q, i))
         /\ \A x : x \in Range(RemoveAt(q, i)) <=> x \in Range(q) /\ x # q[i]
<1>1. Has(q, q[i])
  BY DEF Has
<1>2. (CHOOSE j \in DOMAIN q : q[j] = q[i]) = i
  BY DEF NoRepeat
<1>3. RemoveAt(q, i) = QueueDel(q, q[i])
  BY <1>1, <1>2 DEF QueueDel
<1>4. /\ QueueDel(q, q[i]) \in Seq(S) /\ NoRepeat(QueueDel(q, q[i]))
      /\ \A x : Has(QueueDel(q, q[i]), x) <=> Has(q, x) /\ x # q[i]
  BY QueueDelFacts
<1>5. \A r, x : x \in Range(r) <=> Has(r, x)
  BY DEF Range, Has
<1> QED BY <1>3, <1>4, <1>5

(* The child is freed and forgotten by its parent.                         *)
LEMMA ReapKeeps ==
  ASSUME ProcInv, Running, NEW i \in DOMAIN children[current],
         state[children[current][i]] = "ZOMBIE", Reap(i),
         UNCHANGED <<prio, wake, blocked_head, queue, current, clock, halt>>
  PROVE  ProcInv' /\ (ReadyLinked => ReadyLinked')
<1> DEFINE c == children[current][i]
           list == RemoveAt(children[current], i)
<1>1. current \in Procs /\ state[current] = "ACTIF" /\ phase = "user" /\ phase' = phase
  BY OnTheHart DEF Reap
<1>2. /\ children \in [Procs -> Seq(Procs)] /\ parent \in [Procs -> Procs \cup {NoProc}]
      /\ call \in [Procs -> Procs \cup {NoProc, AnyChild}]
      /\ nb_proc_running \in Int /\ nb_proc_running <= MAX_NB_PROCESS /\ MAX_NB_PROCESS \in Int
      /\ \A q \in Procs : \A x \in Range(children[q]) : x \in Procs
  BY ProcessAssumption DEF ProcInv, ProcTypeOK, Range
<1>3. c \in Range(children[current]) /\ c \in Procs /\ state[c] = "ZOMBIE" /\ NoRepeat(children[current])
      /\ parent[c] = current
  <2>1. c \in Range(children[current])
    BY DEF Range
  <2>2. Alive(current)
    BY <1>1 DEF Alive
  <2> QED BY <1>1, <1>2, <2>1, <2>2 DEF ProcInv, OfTheLiving
<1>4. c # current /\ c # Idle /\ \A m \in Queues : ~ Has(queue[m], c)
  BY <1>1, <1>3, UnlinkedStates DEF ProcInv, HartFits
<1>5. /\ list \in Seq(Procs) /\ NoRepeat(list)
      /\ \A x : x \in Range(list) <=> x \in Range(children[current]) /\ x # c
  BY <1>1, <1>2, <1>3, RemoveFacts
<1>6. /\ state' = [state EXCEPT ![c] = "UNUSED"]
      /\ parent' = [parent EXCEPT ![c] = NoProc]
      /\ children' = [children EXCEPT ![current] = list, ![c] = <<>>]
      /\ call' = [call EXCEPT ![current] = NoProc, ![c] = NoProc]
      /\ nb_proc_running' = nb_proc_running - 1
  BY <1>1, <1>2 DEF Reap, WithoutChild
<1> HIDE DEF c, list
<1>7. /\ state' \in [Procs -> States]
      /\ \A x \in Procs : state'[x] = IF x = c THEN "UNUSED" ELSE state[x]
  BY <1>3, <1>6, ProcFacts DEF States
<1>8. /\ children' \in [Procs -> Seq(Procs)] /\ children'[current] = list
      /\ \A q \in Procs : q # c /\ q # current => children'[q] = children[q]
  <2>1. <<>> \in Seq(Procs)
    OBVIOUS
  <2> QED BY <1>1, <1>2, <1>3, <1>4, <1>5, <1>6, <2>1
<1>9. /\ parent' \in [Procs -> Procs \cup {NoProc}]
      /\ \A q \in Procs : parent'[q] = IF q = c THEN NoProc ELSE parent[q]
  BY <1>2, <1>3, <1>6
<1>10. /\ call' \in [Procs -> Procs \cup {NoProc, AnyChild}]
       /\ \A q \in Procs : call'[q] = IF q \in {c, current} THEN NoProc ELSE call[q]
  BY <1>1, <1>2, <1>3, <1>6
<1>11. SchedTypeOK' /\ QueuesDisjoint'
  BY <1>1, <1>7 DEF ProcInv, SchedTypeOK, QueuesDisjoint
<1>12. nb_proc_running' \in Int /\ nb_proc_running' <= MAX_NB_PROCESS
  BY <1>2, <1>6
<1>13. ProcTypeOK'
  BY <1>8, <1>9, <1>10, <1>12 DEF ProcTypeOK
<1>14. LinksFit'
  <2>1. ASSUME NEW x \in Procs, NEW n \in Queues, Has(queue[n], x) PROVE MayBeIn(x, n)'
    <3>1. MayBeIn(x, n) /\ state'[x] = state[x]
      BY <1>4, <1>7, <2>1 DEF ProcInv, LinksFit, In
    <3> QED BY <3>1 DEF MayBeIn
  <2>2. ASSUME NEW x \in Procs, state'[x] = "BLOCKEDQUEUE"
        PROVE  blocked_head[x] \notin {"activatable", "asleep", "dead"}
    BY <1>7, <2>2 DEF ProcInv, LinksFit
  <2> QED BY <2>1, <2>2 DEF LinksFit, In
<1>15. HartFits'
  BY <1>1, <1>4, <1>7, ProcFacts DEF ProcInv, HartFits, In
<1>16. OfTheLiving'
  <2> SUFFICES ASSUME NEW q \in Procs, Alive(q)'
               PROVE  /\ NoRepeat(children'[q])
                      /\ \A x \in Range(children'[q]) :
                            state'[x] # "UNUSED" /\ parent'[x] = q /\ state'[x] # "KILLED"
                      /\ call'[q] # NoProc => \E x \in Range(children'[q]) : Awaits(call'[q], x)
    BY DEF OfTheLiving, Used
  <2>1. q # c /\ Alive(q)
    BY <1>7 DEF Alive
  <2>2. /\ NoRepeat(children[q])
        /\ \A x \in Range(children[q]) :
              x \in Procs /\ state[x] # "UNUSED" /\ parent[x] = q /\ state[x] # "KILLED"
        /\ call[q] # NoProc => \E x \in Range(children[q]) : Awaits(call[q], x)
    BY <1>2, <2>1 DEF ProcInv, OfTheLiving, Used
  <2>3. CASE q = current
    BY <1>5, <1>7, <1>8, <1>9, <1>10, <2>2, <2>3
  <2>4. CASE q # current
    <3>1. \A x \in Range(children[q]) : x # c
      BY <1>3, <2>2, <2>4
    <3> QED BY <1>7, <1>8, <1>9, <1>10, <2>1, <2>2, <2>4, <3>1
  <2> QED BY <2>3, <2>4
<1>17. Waiting'
  <2> SUFFICES ASSUME NEW q \in Procs, state'[q] = "BLOCKEDWAITCHILD"
               PROVE  /\ call'[q] # NoProc
                      /\ \A x \in Range(children'[q]) : Awaits(call'[q], x) => state'[x] # "ZOMBIE"
    BY DEF Waiting
  <2>1. q # c /\ q # current /\ state[q] = "BLOCKEDWAITCHILD"
    BY <1>1, <1>7
  <2> QED BY <1>2, <1>7, <1>8, <1>10, <2>1 DEF ProcInv, Waiting
<1>18. CallsFit'
  BY <1>7, <1>9, <1>10, SchedulerAssumption DEF ProcInv, CallsFit, Used
<1>19. ReadyLinked => ReadyLinked'
  BY <1>7 DEF ReadyLinked, Linked, In
<1> QED BY <1>11, <1>13, <1>14, <1>15, <1>16, <1>17, <1>18, <1>19 DEF ProcInv

(* The process blocks: none of the children it waits for is a zombie.      *)
LEMMA BlockKeeps ==
  ASSUME ProcInv, Running, current # Idle,
         NEW which \in Procs \cup {AnyChild}, Block(which),
         \E c \in Range(children[current]) : Awaits(which, c),
         \A c \in Range(children[current]) : Awaits(which, c) => state[c] # "ZOMBIE",
         UNCHANGED <<prio, wake, blocked_head, queue, current, clock, halt>>
  PROVE  ProcInv' /\ (ReadyLinked => ReadyLinked')
<1>1. /\ current \in Procs /\ state[current] = "ACTIF" /\ phase = "user" /\ phase' = "awake"
      /\ \A m \in Queues : ~ Has(queue[m], current)
  BY OnTheHart DEF Block, CallScheduler
<1>2. which # NoProc
  BY SchedulerAssumption, ProcessAssumption
<1>3. /\ state' = [state EXCEPT ![current] = "BLOCKEDWAITCHILD"]
      /\ call' = [call EXCEPT ![current] = which]
      /\ UNCHANGED <<parent, children, nb_proc_running>>
  BY DEF Block
<1>4. /\ state' \in [Procs -> States]
      /\ \A x \in Procs : state'[x] = IF x = current THEN "BLOCKEDWAITCHILD" ELSE state[x]
  BY <1>1, <1>3, ProcFacts DEF States
<1>5. /\ call' \in [Procs -> Procs \cup {NoProc, AnyChild}]
      /\ \A x \in Procs : call'[x] = IF x = current THEN which ELSE call[x]
  BY <1>1, <1>3 DEF ProcInv, ProcTypeOK
<1>6. SchedTypeOK' /\ QueuesDisjoint' /\ ProcTypeOK'
  BY <1>1, <1>3, <1>4, <1>5 DEF ProcInv, SchedTypeOK, ProcTypeOK, QueuesDisjoint, Phases
<1>7. LinksFit'
  <2>1. ASSUME NEW x \in Procs, NEW n \in Queues, Has(queue[n], x) PROVE MayBeIn(x, n)'
    <3>1. MayBeIn(x, n) /\ state'[x] = state[x]
      BY <1>1, <1>4, <2>1 DEF ProcInv, LinksFit, In
    <3> QED BY <3>1 DEF MayBeIn
  <2>2. ASSUME NEW x \in Procs, state'[x] = "BLOCKEDQUEUE"
        PROVE  blocked_head[x] \notin {"activatable", "asleep", "dead"}
    BY <1>4, <2>2 DEF ProcInv, LinksFit
  <2> QED BY <2>1, <2>2 DEF LinksFit, In
<1>8. HartFits'
  BY <1>1, <1>4, ProcFacts DEF ProcInv, HartFits, In
<1>9. \A q \in Procs : \A c \in Range(children[q]) : c \in Procs
  BY DEF ProcInv, ProcTypeOK, Range
<1>10. OfTheLiving'
  <2> SUFFICES ASSUME NEW q \in Procs, Alive(q)'
               PROVE  /\ NoRepeat(children[q])
                      /\ \A x \in Range(children[q]) :
                            state'[x] # "UNUSED" /\ parent[x] = q /\ state'[x] # "KILLED"
                      /\ call'[q] # NoProc => \E x \in Range(children[q]) : Awaits(call'[q], x)
    BY <1>3 DEF OfTheLiving, Used
  <2>1. Alive(q)
    BY <1>1, <1>4 DEF Alive
  <2>2. /\ NoRepeat(children[q])
        /\ \A x \in Range(children[q]) :
              x \in Procs /\ state[x] # "UNUSED" /\ parent[x] = q /\ state[x] # "KILLED"
        /\ call[q] # NoProc => \E x \in Range(children[q]) : Awaits(call[q], x)
    BY <1>9, <2>1 DEF ProcInv, OfTheLiving, Used
  <2> QED BY <1>4, <1>5, <2>2
<1>11. Waiting'
  <2> SUFFICES ASSUME NEW q \in Procs, state'[q] = "BLOCKEDWAITCHILD"
               PROVE  /\ call'[q] # NoProc
                      /\ \A x \in Range(children[q]) : Awaits(call'[q], x) => state'[x] # "ZOMBIE"
    BY <1>3 DEF Waiting
  <2>1. CASE q = current
    BY <1>2, <1>4, <1>5, <1>9, <2>1
  <2>2. CASE q # current
    BY <1>4, <1>5, <1>9, <2>2 DEF ProcInv, Waiting
  <2> QED BY <2>1, <2>2
<1>12. CallsFit'
  BY <1>1, <1>3, <1>4, <1>5, ProcFacts DEF ProcInv, CallsFit, Used
<1>13. ReadyLinked => ReadyLinked'
  BY <1>4 DEF ReadyLinked, Linked, In
<1> QED BY <1>6, <1>7, <1>8, <1>10, <1>11, <1>12, <1>13 DEF ProcInv

(* The loop of waitpid finds a zombie or none.                             *)
LEMMA WaitForChildCases ==
  ASSUME ProcInv, Running, NEW which, WaitForChild(which)
  PROVE  \/ \E i \in DOMAIN children[current] :
               state[children[current][i]] = "ZOMBIE" /\ Reap(i)
         \/ /\ Block(which)
            /\ \A c \in Range(children[current]) : Awaits(which, c) => state[c] # "ZOMBIE"
<1> DEFINE list == children[current]
           I == {i \in 1 .. Len(list) : state[list[i]] = "ZOMBIE" /\ Awaits(which, list[i])}
<1>1. list \in Seq(Procs) /\ DOMAIN list = 1 .. Len(list) /\ Len(list) \in Nat
  BY ProcFacts DEF ProcInv, ProcTypeOK, Running
<1>3. IF (IF I # {} THEN Min(I) ELSE 0) # 0
      THEN Reap(IF I # {} THEN Min(I) ELSE 0) ELSE Block(which)
  BY DEF WaitForChild, SelectInSeq
<1>4. CASE I # {}
  <2>1. I \in SUBSET Nat
    OBVIOUS
  <2>2. \E x \in I : \A y \in I : x <= y
    BY <1>4, <2>1, LeastNat
  <2>3. Min(I) \in I
    BY <2>2 DEF Min
  <2>4. Min(I) # 0 /\ Min(I) \in DOMAIN list /\ state[list[Min(I)]] = "ZOMBIE"
    BY <1>1, <2>3
  <2>5. Reap(Min(I))
    BY <1>3, <1>4, <2>4
  <2> HIDE DEF I
  <2> QED BY <2>4, <2>5
<1>5. CASE I = {}
  <2>1. Block(which)
    BY <1>3, <1>5
  <2>2. \A c \in Range(children[current]) : Awaits(which, c) => state[c] # "ZOMBIE"
    BY <1>1, <1>5 DEF Range
  <2> QED BY <2>1, <2>2
<1> QED BY <1>4, <1>5

(* It is entered by the call, or resumed after a wake-up.                  *)
LEMMA WaitForChildKeeps ==
  ASSUME ProcInv, Running, current # Idle,
         NEW which \in Procs \cup {AnyChild}, WaitForChild(which),
         \E c \in Range(children[current]) : Awaits(which, c)
  PROVE  ProcInv' /\ (ReadyLinked => ReadyLinked')
<1>1. UNCHANGED <<prio, wake, blocked_head, queue, current, clock, halt>>
  BY DEF WaitForChild
<1> QED BY <1>1, WaitForChildCases, ReapKeeps, BlockKeeps

(* waitpid: the call, and the look at the list after a wake-up.            *)
LEMMA WaitKeeps ==
  ASSUME ProcInv, Resume \/ \E which \in Procs \cup {AnyChild} : WaitPid(which)
  PROVE  ProcInv' /\ (ReadyLinked => ReadyLinked')
<1>1. Running /\ current \in Procs /\ Alive(current)
  BY OnTheHart DEF Resume, WaitPid, Calling, Alive
<1>2. CASE Resume
  <2>1. call[current] # NoProc /\ current # Idle
    BY <1>1, <1>2 DEF Resume, InUser, ProcInv, CallsFit
  <2>2. call[current] \in Procs \cup {AnyChild}
    BY <1>1, <2>1 DEF ProcInv, ProcTypeOK
  <2>3. \E c \in Range(children[current]) : Awaits(call[current], c)
    BY <1>1, <2>1 DEF ProcInv, OfTheLiving
  <2> QED BY <1>1, <1>2, <2>1, <2>2, <2>3, WaitForChildKeeps DEF Resume
<1>3. ASSUME NEW which \in Procs \cup {AnyChild}, WaitPid(which)
      PROVE  ProcInv' /\ (ReadyLinked => ReadyLinked')
  <2>1. current # Idle
    BY <1>3, ProcessAssumption DEF WaitPid, Calling
  <2>2. children[current] \in Seq(Procs) /\ children[current] # <<>>
    BY <1>1, <1>3 DEF WaitPid, ProcInv, ProcTypeOK
  <2>3. children[current][1] \in Range(children[current])
    BY <2>2 DEF Range
  <2>4. \E c \in Range(children[current]) : Awaits(which, c)
    BY <1>3, <2>3 DEF WaitPid, Awaits
  <2> QED BY <1>1, <1>3, <2>1, <2>4, WaitForChildKeeps DEF WaitPid
<1> QED BY <1>2, <1>3

(* The process free_dead_process finds.                                    *)
LEMMA DeadTop ==
  ASSUME ProcInv, phase = "reap"
  PROVE  /\ queue["dead"] # <<>>
         /\ QueueTop(queue["dead"]) \in Procs
         /\ Has(queue["dead"], QueueTop(queue["dead"]))
         /\ state[QueueTop(queue["dead"])] = "KILLED"
         /\ QueueTop(queue["dead"]) # current /\ QueueTop(queue["dead"]) # Idle
<1> DEFINE top == QueueTop(queue["dead"])
<1>1. queue["dead"] # <<>> /\ queue["dead"] \in Seq(Procs) /\ "dead" \in Queues
  BY ProcFacts, SchedulerQueuesExist DEF ProcInv, HartFits
<1>2. top \in Procs /\ Has(queue["dead"], top)
  BY <1>1, QueueOutFacts
<1> HIDE DEF top
<1>3. MayBeIn(top, "dead")
  BY <1>1, <1>2 DEF ProcInv, LinksFit, In
<1>4. state[top] = "BLOCKEDQUEUE" => blocked_head[top] # "dead"
  BY <1>2 DEF ProcInv, LinksFit
<1>5. state[top] = "KILLED"
  BY <1>3, <1>4 DEF MayBeIn
<1>6. current # NoProc => ~ Has(queue["dead"], current)
  BY DEF ProcInv, HartFits, In
<1>7. top # current /\ top # Idle
  BY <1>2, <1>5, <1>6, SchedulerAssumption DEF ProcInv, HartFits
<1> QED BY <1>1, <1>2, <1>5, <1>7 DEF top

(* free_dead_process: nobody who lives has the killed process in his list. *)
LEMMA FreeDeadKeeps ==
  ASSUME ProcInv, FreeDeadProcess
  PROVE  ProcInv' /\ (ReadyLinked => ReadyLinked')
<1> USE SchedulerQueuesExist
<1> DEFINE top == QueueTop(queue["dead"])
<1>1. queue["dead"] # <<>> /\ phase = "reap"
  BY DeadTop DEF FreeDeadProcess
<1>2. /\ queue' = Pop(queue, "dead") /\ state' = [state EXCEPT ![top] = "UNUSED"]
      /\ Free({top}, children)
      /\ phase' = IF queue'["dead"] = <<>> THEN "switch" ELSE "reap"
      /\ UNCHANGED <<prio, wake, blocked_head, current, clock, halt>>
  BY DEF FreeDeadProcess
<1>3. /\ queue' \in [Queues -> Seq(Procs)] /\ DisjointIn(queue')
      /\ top \in Procs /\ Has(queue["dead"], top)
      /\ \A m \in Queues : \A x : Has(queue'[m], x) <=> Has(queue[m], x) /\ x # top
  <2>1. queue \in [Queues -> Seq(Procs)] /\ DisjointIn(queue) /\ "dead" \in Queues
    BY ProcFacts
  <2>2. /\ Pop(queue, "dead") \in [Queues -> Seq(Procs)]
        /\ DisjointIn(Pop(queue, "dead"))
        /\ top \in Procs /\ Has(queue["dead"], top)
        /\ \A m \in Queues : \A x : Has(Pop(queue, "dead")[m], x) <=> Has(queue[m], x) /\ x # top
    BY ONLY <1>1, <2>1, OutOf
  <2> QED BY <1>2, <2>2
<1> HIDE DEF top
<1>4. state[top] = "KILLED" /\ top # current /\ top # Idle
  BY <1>1, DeadTop DEF top
<1>5. /\ state' \in [Procs -> States]
      /\ \A x \in Procs : state'[x] = IF x = top THEN "UNUSED" ELSE state[x]
  BY <1>2, <1>3, ProcFacts DEF States
<1>6. /\ children \in [Procs -> Seq(Procs)] /\ parent \in [Procs -> Procs \cup {NoProc}]
      /\ call \in [Procs -> Procs \cup {NoProc, AnyChild}]
      /\ nb_proc_running \in Int /\ nb_proc_running <= MAX_NB_PROCESS /\ MAX_NB_PROCESS \in Int
      /\ \A q \in Procs : \A x \in Range(children[q]) : x \in Procs
  BY ProcessAssumption DEF ProcInv, ProcTypeOK, Range
<1>7. /\ parent' = [x \in Procs |-> IF x \in {top} THEN NoProc ELSE parent[x]]
      /\ children' = [x \in Procs |-> IF x \in {top} THEN <<>> ELSE children[x]]
      /\ call' = [x \in Procs |-> IF x \in {top} THEN NoProc ELSE call[x]]
      /\ nb_proc_running' = nb_proc_running - Cardinality({top})
  BY <1>2 DEF Free
<1>8. nb_proc_running' \in Int /\ nb_proc_running' <= MAX_NB_PROCESS
  <2>1. Cardinality({top}) = 1
    BY FS_Singleton
  <2> QED BY <1>6, <1>7, <2>1
<1>9. ProcTypeOK'
  <2>1. children' \in [Procs -> Seq(Procs)] /\ parent' \in [Procs -> Procs \cup {NoProc}]
    BY <1>6, <1>7
  <2>2. call' \in [Procs -> Procs \cup {NoProc, AnyChild}]
    BY <1>6, <1>7
  <2> QED BY <1>8, <2>1, <2>2 DEF ProcTypeOK
<1>10. SchedTypeOK'
  BY <1>2, <1>3, <1>5 DEF ProcInv, SchedTypeOK, Phases
<1>11. LinksFit'
  <2>1. ASSUME NEW x \in Procs, NEW n \in Queues, Has(queue'[n], x) PROVE MayBeIn(x, n)'
    <3>1. MayBeIn(x, n) /\ state'[x] = state[x]
      BY <1>3, <1>5, <2>1 DEF ProcInv, LinksFit, In
    <3> QED BY <1>2, <3>1 DEF MayBeIn
  <2>2. ASSUME NEW x \in Procs, state'[x] = "BLOCKEDQUEUE"
        PROVE  blocked_head'[x] \notin {"activatable", "asleep", "dead"}
    BY <1>2, <1>5, <2>2 DEF ProcInv, LinksFit
  <2> QED BY <2>1, <2>2 DEF LinksFit, In
<1>12. HartFits'
  BY <1>1, <1>2, <1>3, <1>4, <1>5, ProcFacts DEF ProcInv, HartFits, In
<1>13. OfTheLiving'
  <2> SUFFICES ASSUME NEW q \in Procs, Alive(q)'
               PROVE  /\ NoRepeat(children'[q])
                      /\ \A x \in Range(children'[q]) :
                            state'[x] # "UNUSED" /\ parent'[x] = q /\ state'[x] # "KILLED"
                      /\ call'[q] # NoProc => \E x \in Range(children'[q]) : Awaits(call'[q], x)
    BY DEF OfTheLiving, Used
  <2>1. q # top /\ Alive(q)
    BY <1>5 DEF Alive
  <2>2. /\ NoRepeat(children[q])
        /\ \A x \in Range(children[q]) :
              x \in Procs /\ state[x] # "UNUSED" /\ parent[x] = q /\ state[x] # "KILLED"
        /\ call[q] # NoProc => \E x \in Range(children[q]) : Awaits(call[q], x)
    BY <1>6, <2>1 DEF ProcInv, OfTheLiving, Used
  <2>3. children'[q] = children[q] /\ call'[q] = call[q]
    BY <1>7, <2>1
  <2>4. \A x \in Range(children[q]) : parent'[x] = parent[x] /\ state'[x] = state[x]
    BY <1>4, <1>5, <1>7, <2>2
  <2> QED BY <2>2, <2>3, <2>4
<1>14. Waiting'
  <2> SUFFICES ASSUME NEW q \in Procs, state'[q] = "BLOCKEDWAITCHILD"
               PROVE  /\ call'[q] # NoProc
                      /\ \A x \in Range(children'[q]) : Awaits(call'[q], x) => state'[x] # "ZOMBIE"
    BY DEF Waiting
  <2>1. q # top /\ state[q] = "BLOCKEDWAITCHILD"
    BY <1>5
  <2>2. children'[q] = children[q] /\ call'[q] = call[q]
    BY <1>7, <2>1
  <2> QED BY <1>5, <1>6, <2>1, <2>2 DEF ProcInv, Waiting
<1>15. CallsFit'
  BY <1>4, <1>5, <1>7, ProcFacts, SchedulerAssumption DEF ProcInv, CallsFit, Used
<1>16. ReadyLinked => ReadyLinked'
  BY <1>3, <1>4, <1>5 DEF ReadyLinked, Linked, In
<1> QED BY <1>3, <1>9, <1>10, <1>11, <1>12, <1>13, <1>14, <1>15, <1>16, DisjointNext DEF ProcInv

-----------------------------------------------------------------------------
(* The boot processes are activatable, and no process has a family yet.    *)
LEMMA ProcInitInv == ProcInit => ProcInv /\ ReadyLinked
<1> SUFFICES ASSUME ProcInit PROVE ProcInv /\ ReadyLinked
  OBVIOUS
<1> USE SchedulerQueuesExist
<1>1. SchedInit /\ SchedTypeOK /\ QueuesDisjoint /\ LinksMatchStates
  BY InitInv DEF ProcInit, SchedInv
<1>2. /\ \A p \in Procs : state[p] \in {"UNUSED", "ACTIVATABLE"}
      /\ state[Idle] = "ACTIVATABLE"
      /\ current = NoProc /\ phase = "user"
  BY <1>1, SchedulerAssumption DEF SchedInit
<1>3. \A p \in Procs : LinkMatchesState(p)
  BY <1>1 DEF LinksMatchStates
<1>4. LinksFit
  <2>1. ASSUME NEW p \in Procs, NEW n \in Queues, In(p, n) PROVE MayBeIn(p, n)
    BY <1>2, <1>3, <2>1 DEF LinkMatchesState, Linked, MayBeIn
  <2> QED BY <1>2, <2>1 DEF LinksFit
<1>5. HartFits
  BY <1>2, <1>3, ProcFacts, SchedulerAssumption DEF HartFits, LinkMatchesState
<1>6. /\ parent = [p \in Procs |-> NoProc] /\ children = [p \in Procs |-> <<>>]
      /\ call = [p \in Procs |-> NoProc] /\ nb_proc_running = Cardinality(Boot)
  BY DEF ProcInit
<1>7. nb_proc_running \in Int /\ nb_proc_running <= MAX_NB_PROCESS
  <2>1. Cardinality(Boot) \in Nat
    BY SchedulerAssumption, FS_Subset, FS_CardinalityType
  <2> QED BY <1>6, <2>1, ProcessAssumption
<1>8. ProcTypeOK
  BY <1>6, <1>7 DEF ProcTypeOK
<1>9. OfTheLiving /\ Waiting /\ CallsFit
  <2>1. NoRepeat(<<>>) /\ \A x : x \notin Range(<<>>)
    BY DEF NoRepeat, Range
  <2>2. OfTheLiving
    BY <1>6, <2>1 DEF OfTheLiving
  <2>3. Waiting
    BY <1>2 DEF Waiting
  <2>4. CallsFit
    BY <1>6, SchedulerAssumption DEF CallsFit
  <2> QED BY <2>2, <2>3, <2>4
<1>10. ReadyLinked
  BY <1>2, <1>3 DEF ReadyLinked, LinkMatchesState, Linked
<1> QED BY <1>1, <1>4, <1>5, <1>8, <1>9, <1>10 DEF ProcInv

(* Every step keeps the invariant, and loses no process that is ready.     *)
LEMMA ProcNextKeeps ==
  ASSUME ProcInv, [Next]_vars
  PROVE  ProcInv' /\ (ReadyLinked => ReadyLinked')
<1>1. CASE Interrupt
  BY <1>1, ClockKeeps DEF Interrupt, TickInKernel
<1>2. CASE InUser /\ SchedulerCall /\ UNCHANGED lifeVars
  BY <1>2, ClockKeeps, WaitClockKeeps, ChPrioKeeps DEF SchedulerCall
<1>3. CASE LifeCall
  BY <1>3, StartKeeps, ExitKeeps, KillKeeps, WaitKeeps DEF LifeCall
<1>4. CASE KernelStep
  <2>1. CASE SchedulerStep /\ UNCHANGED lifeVars
    BY <2>1, AwakeKeeps, SwitchKeeps, StayKeeps DEF SchedulerStep
  <2>2. CASE Abandon
    BY <2>2, SwitchKeeps DEF Abandon
  <2> QED BY <1>4, <2>1, <2>2, FreeDeadKeeps, WaitKeeps DEF KernelStep
<1>5. CASE UNCHANGED vars
  BY <1>5
  DEF vars, schedVars, lifeVars, ProcInv, SchedTypeOK, ProcTypeOK, QueuesDisjoint, LinksFit,
      HartFits, OfTheLiving, Waiting, CallsFit, MayBeIn, In, Alive, Used, ReadyLinked, Linked
<1> QED BY <1>1, <1>2, <1>3, <1>4, <1>5 DEF Next

(* The inductive invariant of the life of processes.                       *)
THEOREM ProcInvariant == Spec => [](ProcInv /\ ReadyLinked)
<1>1. ProcInit => ProcInv /\ ReadyLinked
  BY ProcInitInv
<1>2. ProcInv /\ ReadyLinked /\ [Next]_vars => (ProcInv /\ ReadyLinked)'
  BY ProcNextKeeps
<1> QED BY <1>1, <1>2, PTL DEF Spec

(* What free_process_memory has freed is in no queue, is not current, and  *)
(* is nobody's awaited child.                                              *)
THEOREM FreedIsForgottenHolds == Spec => []FreedIsForgotten
<1>1. ProcInv /\ ReadyLinked => FreedIsForgotten
  <2> SUFFICES ASSUME ProcInv, ReadyLinked PROVE FreedIsForgotten
    OBVIOUS
  <2>1. NoProcessLost
    <3> SUFFICES ASSUME phase = "user", NEW p \in Procs, Alive(p),
                        state[p] \notin {"BLOCKEDSEMAPHORE", "BLOCKEDWAITCHILD"}
                 PROVE  p = current <=> ~ Linked(p)
      BY DEF NoProcessLost
    <3>1. ASSUME p = current PROVE ~ Linked(p)
      <4>1. state[p] = "ACTIF"
        BY <3>1, ProcFacts DEF ProcInv, HartFits
      <4> QED BY <4>1, UnlinkedStates
    <3>2. ASSUME p # current PROVE Linked(p)
      <4>1. state[p] # "ACTIF" /\ state[p] \in States
        BY <3>2, ProcFacts DEF ProcInv, HartFits
      <4> QED BY <4>1 DEF Alive, States, ReadyLinked
    <3> QED BY <3>1, <3>2
  <2>2. ASSUME NEW p \in Procs, ~ Used(p)
        PROVE  ~ Linked(p) /\ p # current /\ \A q \in Procs : Alive(q) => call[q] # p
    <3>1. state[p] = "UNUSED"
      BY <2>2 DEF Used
    <3>2. ~ Linked(p) /\ p # current
      BY <3>1, UnlinkedStates, ProcFacts DEF ProcInv, HartFits
    <3>3. ASSUME NEW q \in Procs, Alive(q), call[q] = p PROVE FALSE
      <4>1. p # NoProc /\ p # AnyChild
        BY SchedulerAssumption, ProcessAssumption
      <4>2. PICK c \in Range(children[q]) : Awaits(call[q], c)
        BY <3>3, <4>1 DEF ProcInv, OfTheLiving
      <4>3. c = p
        BY <3>3, <4>1, <4>2 DEF Awaits
      <4> QED BY <3>3, <4>2, <4>3, <2>2 DEF ProcInv, OfTheLiving
    <3> QED BY <3>2, <3>3
  <2> QED BY <2>1, <2>2 DEF ProcInv, FreedIsForgotten
<1> QED BY <1>1, ProcInvariant, PTL

(* The list of children of a living process is exact.                      *)
THEOREM FamilyTiesHolds == Spec => []FamilyTies
<1>1. ProcInv => FamilyTies
  BY DEF ProcInv, OfTheLiving, FamilyTies
<1> QED BY <1>1, ProcInvariant, PTL

(* A process blocked in waitpid has a child that has yet to terminate.     *)
THEOREM NoLostWakeupHolds == Spec => []NoLostWakeup
<1>1. ProcInv => NoLostWakeup
  <2> SUFFICES ASSUME ProcInv, NEW p \in Procs, state[p] = "BLOCKEDWAITCHILD"
               PROVE  /\ \E c \in Range(children[p]) : Awaits(call[p], c)
                      /\ \A c \in Range(children[p]) : Awaits(call[p], c) => state[c] # "ZOMBIE"
    BY DEF NoLostWakeup
  <2> QED BY DEF ProcInv, OfTheLiving, Waiting, Alive
<1> QED BY <1>1, ProcInvariant, PTL
-----------------------------------------------------------------------------
(***************************************************************************)
(* No sleeper runs early.  WokenAreDue is inductive with ProcInv: a        *)
(* sleeper that has left the sleep queue, and is still marked ASLEEP until *)
(* it is dispatched, was due when it left, and the clock has only advanced *)
(* since.  settimeofday sets the clock back; the theorem is about programs *)
(* that do not call it.                                                    *)
(***************************************************************************)
WokenAreDue ==
  \A p \in Procs : state[p] = "ASLEEP" /\ ~ In(p, "asleep") => clock >= - wake[p]

(* What a step may do to sleepers: only those that are due leave the sleep *)
(* queue with their state, and only those that have left it get the hart.  *)
Timely ==
  /\ clock' >= clock
  /\ \A p \in Procs :
       /\ state'[p] = "ASLEEP" /\ ~ Has(queue'["asleep"], p) =>
            /\ state[p] = "ASLEEP" /\ wake'[p] = wake[p]
            /\ Has(queue["asleep"], p) => clock > - wake[p]
       /\ state[p] = "ASLEEP" /\ state'[p] = "ACTIF" => ~ Has(queue["asleep"], p)

(* A step that takes nobody out of the sleep queue who stays asleep.       *)
LEMMA SleepersStay ==
  ASSUME clock' >= clock,
         \A p \in Procs : state'[p] = "ASLEEP" =>
            /\ state[p] = "ASLEEP" /\ wake'[p] = wake[p]
            /\ Has(queue["asleep"], p) => Has(queue'["asleep"], p),
         \A p \in Procs : state'[p] = "ACTIF" =>
            state[p] = "ACTIF" \/ ~ Has(queue["asleep"], p)
  PROVE  Timely
BY DEF Timely

(* Ticks, and the calls of Scheduler.                                      *)
LEMMA CallsTimely ==
  ASSUME ProcInv, ClockSetters = {}, Interrupt \/ SchedulerCall
  PROVE  Timely
<1> USE SchedulerQueuesExist
<1>1. clock \in Int /\ MaxClock \in Int
  BY SchedulerAssumption DEF ProcInv, SchedTypeOK
<1>2. CASE Interrupt
  <2>1. clock' >= clock
    BY <1>1, <1>2 DEF Interrupt, Tick, TickInKernel, TickCounted, NextTick
  <2>2. UNCHANGED <<state, wake, queue>>
    BY <1>2 DEF Interrupt, Tick, TickInKernel, TickCounted, procVars
  <2> QED BY <2>1, <2>2, SleepersStay
<1>3. ASSUME NEW ticks \in SleepTicks, WaitClock(ticks) PROVE Timely
  <2>1. /\ current \in Procs /\ state[current] = "ACTIF"
        /\ \A m \in Queues : ~ Has(queue[m], current)
    BY <1>3, OnTheHart DEF WaitClock
  <2>2. /\ state' = [state EXCEPT ![current] = "ASLEEP"] /\ clock' = clock
        /\ wake' = [wake EXCEPT ![current] = - (clock + ticks)]
        /\ queue' = Link(queue, "asleep", current, wake')
    BY <1>3 DEF WaitClock
  <2>3. wake' \in [Procs -> Int]
    <3>1. - (clock + ticks) \in Int
      BY <1>1, SchedulerAssumption
    <3> QED BY <2>2, <3>1, ProcFacts
  <2> DEFINE q == queue["asleep"]
  <2>4. q \in Seq(Procs) /\ queue'["asleep"] = QueueAdd(q, current, wake')
    BY <2>2, ProcFacts DEF Link
  <2>5. \A x : Has(queue'["asleep"], x) <=> x = current \/ Has(q, x)
    BY ONLY <2>1, <2>3, <2>4, QueueAddFacts
  <2>6. state \in [Procs -> States] /\ wake \in [Procs -> Int]
    BY ProcFacts
  <2>7. \A p \in Procs : p # current => state'[p] = state[p] /\ wake'[p] = wake[p]
    BY <2>2, <2>6
  <2>8. state'[current] = "ASLEEP"
    BY <2>1, <2>2, <2>6
  <2>9. clock' >= clock
    BY <1>1, <2>2
  <2>10. \A p \in Procs : state'[p] = "ASLEEP" /\ ~ Has(queue'["asleep"], p) =>
           p # current /\ ~ Has(queue["asleep"], p)
    BY <2>5
  <2>11. \A p \in Procs : state[p] = "ASLEEP" => p # current /\ state'[p] = "ASLEEP"
    BY <2>1, <2>7
  <2> QED BY <2>7, <2>9, <2>10, <2>11 DEF Timely
<1>4. ASSUME NEW p \in PrioTargets, NEW newprio \in Prios, ChPrio(p, newprio) PROVE Timely
  <2>1. UNCHANGED <<state, wake, clock>> /\ p \in Procs
    BY <1>4, SchedulerAssumption DEF ChPrio
  <2>2. \A x \in Procs : state[x] = "ASLEEP" =>
           (Has(queue["asleep"], x) => Has(queue'["asleep"], x))
    <3>1. CASE queue' = queue
      BY <3>1
    <3>2. CASE queue' # queue
      <4>1. state[p] \in {"ACTIVATABLE", "BLOCKEDQUEUE", "BLOCKEDIO"}
            /\ queue' = Link(Unlink(queue, p), ListOf(p), p, prio')
        BY <1>4, <3>2 DEF ChPrio
      <4>2. ListOf(p) # "asleep"
        BY <2>1, <4>1 DEF ListOf, ProcInv, LinksFit
      <4>3. queue'["asleep"] = Unlink(queue, p)["asleep"]
        BY <4>1, <4>2 DEF Link, Unlink
      <4>4. \A x : Has(Unlink(queue, p)["asleep"], x) <=> Has(queue["asleep"], x) /\ x # p
        BY ProcFacts, DelFrom
      <4> QED BY <4>1, <4>3, <4>4
    <3> QED BY <3>1, <3>2
  <2> QED BY <1>1, <2>1, <2>2, SleepersStay
<1> QED BY <1>2, <1>3, <1>4 DEF SchedulerCall

(* scheduler(): the wake-up loop takes the one that is due, and the        *)
(* dispatch takes one that is ready.                                       *)
LEMMA SchedulerTimely ==
  ASSUME ProcInv, SchedulerStep \/ Abandon
  PROVE  Timely
<1> USE SchedulerQueuesExist
<1>0. clock \in Int
  BY SchedulerAssumption DEF ProcInv, SchedTypeOK
<1>1. /\ clock \in Int /\ state \in [Procs -> States]
      /\ queue \in [Queues -> Seq(Procs)] /\ DisjointIn(queue)
  BY <1>0, ProcFacts
<1>2. CASE AwakeDone \/ Stay
  BY <1>1, <1>2, SleepersStay DEF AwakeDone, Stay, procVars
<1>3. CASE AwakeOne
  <2> DEFINE t == QueueTop(queue["asleep"])
             g == Pop(queue, "asleep")
  <2>1. /\ queue["asleep"] # <<>> /\ clock > - wake[t]
        /\ UNCHANGED <<state, wake, clock>>
        /\ queue' = Link(g, "activatable", t, prio)
    BY <1>3 DEF AwakeOne, Due, procVars
  <2>2. \A x : Has(g["asleep"], x) <=> Has(queue["asleep"], x) /\ x # t
    BY <1>1, <2>1, OutOf
  <2>3. queue'["asleep"] = g["asleep"]
    BY <1>1, <2>1 DEF Link, Pop
  <2> HIDE DEF t, g
  <2> QED BY <1>1, <2>1, <2>2, <2>3 DEF Timely
<1>4. ASSUME NEW from, AtSwitch, Dispatch(from), LeavesHart(from),
             \A x \in Procs : state'[x] = "ASLEEP" => state[x] = "ASLEEP",
             \A x \in Procs : state'[x] = "ACTIF" => x = Top \/ state[x] = "ACTIF"
      PROVE  Timely
  <2>1. /\ Has(queue["activatable"], Top)
        /\ \A m \in Queues : \A x :
              Has(queue'[m], x) <=> \/ Has(queue[m], x) /\ x # Top
                                    \/ from # "none" /\ m = from /\ x = current
    BY <1>4, DispatchLinks
  <2>2. ~ Has(queue["asleep"], Top)
    BY <1>1, <2>1 DEF DisjointIn
  <2>3. UNCHANGED <<wake, clock>>
    BY <1>4 DEF Dispatch
  <2> QED BY <1>1, <1>4, <2>1, <2>2, <2>3, SleepersStay
<1>5. CASE First \/ Leave
  <2>1. AtSwitch /\ Dispatch("none") /\ state' = [state EXCEPT ![Top] = "ACTIF"]
    BY <1>5 DEF First, Leave
  <2>2. LeavesHart("none")
    BY <1>5 DEF First, Leave, LeavesHart
  <2> QED BY <1>1, <1>4, <2>1, <2>2
<1>6. CASE Preempt
  <2>1. /\ AtSwitch /\ Dispatch("activatable")
        /\ state' = [state EXCEPT ![current] = "ACTIVATABLE", ![Top] = "ACTIF"]
    BY <1>6 DEF Preempt
  <2>2. LeavesHart("activatable")
    BY <1>6 DEF Preempt, LeavesHart
  <2> QED BY <1>1, <1>4, <2>1, <2>2
<1>7. CASE Abandon
  <2>1. AtSwitch /\ Dispatch("dead") /\ state' = [state EXCEPT ![Top] = "ACTIF"]
    BY <1>7 DEF Abandon
  <2>2. LeavesHart("dead")
    BY <1>7 DEF Abandon, LeavesHart
  <2> QED BY <1>1, <1>4, <2>1, <2>2
<1> QED BY <1>2, <1>3, <1>5, <1>6, <1>7 DEF SchedulerStep

(* The end of a process takes at most that one out of the sleep queue.     *)
LEMMA DepartureTimely ==
  ASSUME ProcInv, NEW p \in Procs,
         NEW links, links \in [Queues -> Seq(Procs)],
         \A m \in Queues : \A x : Has(links[m], x) <=> Has(queue[m], x) /\ x # p,
         Leaves(p, links, state), UNCHANGED <<wake, clock>>
  PROVE  Timely
<1> USE SchedulerQueuesExist
<1>1. clock \in Int
  BY SchedulerAssumption DEF ProcInv, SchedTypeOK
<1>2. CASE UNCHANGED <<state, queue>>
  BY <1>1, <1>2, SleepersStay
<1>3. CASE TurnIntoZombie(p, links, state)
  <2>1. PICK read \in ParentReads(p) :
           /\ StatesAfter(p, read, state)
           /\ queue' = IF Awakens(read) THEN Link(links, "activatable", parent[p], prio) ELSE links
    BY <1>3 DEF TurnIntoZombie, StatesAfter, FreedBy, Unwanted
  <2>2. \A x \in Procs : /\ state'[x] = "ASLEEP" => x # p /\ state[x] = "ASLEEP"
                         /\ state'[x] = "ACTIF" => state[x] = "ACTIF"
    BY <2>1 DEF StatesAfter
  <2>3. queue'["asleep"] = links["asleep"]
    BY <2>1 DEF Link
  <2> QED BY <1>1, <2>2, <2>3, SleepersStay
<1> QED BY <1>2, <1>3 DEF Leaves

(* The calls of Process.                                                   *)
LEMMA LifeTimely ==
  ASSUME ProcInv, LifeCall \/ Resume \/ FreeDeadProcess
  PROVE  Timely
<1> USE SchedulerQueuesExist
<1>0. clock \in Int
  BY SchedulerAssumption DEF ProcInv, SchedTypeOK
<1>1. /\ clock \in Int /\ state \in [Procs -> States] /\ wake \in [Procs -> Int]
      /\ queue \in [Queues -> Seq(Procs)] /\ DisjointIn(queue)
  BY <1>0, ProcFacts
<1>2. ASSUME NEW p \in Procs, NEW newprio, Create(p, newprio) PROVE Timely
  <2>1. /\ state' = [state EXCEPT ![p] = "ACTIVATABLE"]
        /\ wake' = [wake EXCEPT ![p] = 0]
        /\ queue' = Link(queue, "activatable", p, prio') /\ clock' = clock
    BY <1>2 DEF Create
  <2>2. queue'["asleep"] = queue["asleep"]
    BY <1>1, <2>1 DEF Link
  <2> QED BY <1>1, <2>1, <2>2, SleepersStay
<1>3. CASE StartVirtualBad
  BY <1>1, <1>3, SleepersStay DEF StartVirtualBad, schedVars
<1>4. CASE ExitProcess
  <2>1. /\ Leaves(current, queue, state) /\ UNCHANGED <<wake, clock>> /\ current \in Procs
        /\ queue \in [Queues -> Seq(Procs)] /\ \A m \in Queues : ~ Has(queue[m], current)
    BY <1>1, <1>4, OnTheHart DEF ExitProcess, Calling
  <2>2. \A m \in Queues : \A x : Has(queue[m], x) <=> Has(queue[m], x) /\ x # current
    BY <2>1
  <2> QED BY <2>1, <2>2, DepartureTimely
<1>5. ASSUME NEW p \in Victims, Kill(p) PROVE Timely
  <2>1. p \in Procs /\ UNCHANGED <<wake, clock>>
    BY <1>5, ProcessAssumption DEF Kill
  <2>2. CASE Leaves(p, Unlink(queue, p), state)
    <3>1. /\ Unlink(queue, p) \in [Queues -> Seq(Procs)]
          /\ \A m \in Queues : \A x : Has(Unlink(queue, p)[m], x) <=> Has(queue[m], x) /\ x # p
      BY <1>1, DelFrom
    <3> QED BY <2>1, <2>2, <3>1, DepartureTimely
  <2>3. CASE UNCHANGED <<state, queue>>
    BY <1>1, <2>1, <2>3, SleepersStay
  <2> QED BY <1>5, <2>2, <2>3 DEF Kill
<1>6. ASSUME NEW which, WaitForChild(which) PROVE Timely
  <2>1. UNCHANGED <<queue, wake, clock>>
    BY <1>6 DEF WaitForChild
  <2>2. \A p \in Procs : /\ state'[p] = "ASLEEP" => state[p] = "ASLEEP"
                         /\ state'[p] = "ACTIF" => state[p] = "ACTIF"
    BY <1>1, <1>6 DEF WaitForChild, Reap, Block
  <2> QED BY <1>1, <2>1, <2>2, SleepersStay
<1>7. CASE FreeDeadProcess
  <2>1. /\ queue' = Pop(queue, "dead") /\ UNCHANGED <<wake, clock>>
        /\ state' = [state EXCEPT ![QueueTop(queue["dead"])] = "UNUSED"]
    BY <1>7 DEF FreeDeadProcess
  <2>2. queue'["asleep"] = queue["asleep"]
    BY <1>1, <2>1 DEF Pop
  <2> QED BY <1>1, <2>1, <2>2, SleepersStay
<1> QED BY <1>2, <1>3, <1>4, <1>5, <1>6, <1>7
        DEF LifeCall, StartVirtual, Fork, WaitPid, Resume

(* A process that called wait_clock runs again no earlier than the tick it *)
(* asked for, whatever is started, killed and dispatched in between, as    *)
(* long as nobody sets the clock.                                          *)
THEOREM NeverEarlyHolds ==
  ASSUME ClockSetters = {}
  PROVE  Spec => NeverEarly
<1> DEFINE Late == \A p \in Procs :
                      state[p] = "ASLEEP" /\ state'[p] = "ACTIF" => clock >= - wake[p]
<1>1. ProcInit => WokenAreDue
  BY DEF ProcInit, SchedInit, WokenAreDue
<1>2. ASSUME ProcInv, WokenAreDue, [Next]_vars PROVE WokenAreDue' /\ Late
  <2>1. Timely
    <3>1. CASE Next
      BY <1>2, <3>1, CallsTimely, SchedulerTimely, LifeTimely DEF Next, KernelStep
    <3>2. CASE UNCHANGED vars
      <4>1. clock \in Int
        BY <1>2, SchedulerAssumption DEF ProcInv, SchedTypeOK
      <4> QED BY <3>2, <4>1, SleepersStay DEF vars, schedVars
    <3> QED BY <1>2, <3>1, <3>2
  <2>2. ProcInv'
    BY <1>2, ProcNextKeeps
  <2>3. clock \in Int /\ clock' \in Int /\ wake \in [Procs -> Int]
    BY <1>2, <2>2, SchedulerAssumption DEF ProcInv, SchedTypeOK
  <2>4. \A p \in Procs : wake[p] \in Int
    BY <2>3
  <2> QED BY <1>2, <2>1, <2>3, <2>4 DEF Timely, WokenAreDue, In
<1>3. Spec => [][Late]_schedVars
  <2>1. ProcInv /\ ReadyLinked /\ WokenAreDue /\ [Next]_vars => WokenAreDue'
    BY <1>2
  <2>2. ProcInv /\ ReadyLinked /\ WokenAreDue /\ [Next]_vars => [Late]_schedVars
    BY <1>2
  <2> HIDE DEF Late
  <2> QED BY <1>1, <2>1, <2>2, ProcInvariant, PTL DEF Spec
<1> QED BY <1>3 DEF NeverEarly
=============================================================================
