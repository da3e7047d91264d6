----------------------------- MODULE MsgQueueProofs --------------------------
(***************************************************************************)
(* The message queues for any set of processes, programs, capacities and   *)
(* messages: BlockedForAReason and IsChannel as theorems.                  *)
(*                                                                         *)
(* The inductive invariant MsgInv adds to ProcInv what the code of         *)
(* msgqueue.c takes for granted when it looks at the first blocked         *)
(* process only.  PendingFits: whoever is linked in a list of a queue is   *)
(* inside the call of that queue, so the status a waker leaves is one that *)
(* call understands.  RingFits: a call that finds the ring neither empty   *)
(* nor full need not look at the lists at all.  Parked: a process that     *)
(* only receives is linked where its state says, which chprio relies on    *)
(* to put it back.                                                         *)
(*                                                                         *)
(* Of a process that sends Parked is false, as preceive wakes a producer   *)
(* of a queue of capacity 0 and leaves its state BLOCKEDQUEUE; a chprio    *)
(* then blocks it again.  Hence the hypothesis SendersKeepPrio.            *)
(***************************************************************************)
EXTENDS MsgQueue, ProcessProofs

-----------------------------------------------------------------------------
(* The steps of Process leave the queues of other components alone: they   *)
(* block nobody there, and only those who end leave them.                  *)
Foreign == Queues \ SchedulerQueues

QueuesSpared ==
  /\ blocked_head' = blocked_head
  /\ \A p \in Procs : state'[p] = "BLOCKEDQUEUE" => state[p] = "BLOCKEDQUEUE"
  /\ \A p \in Procs, n \in Foreign :
       /\ Has(queue'[n], p) => Has(queue[n], p)
       /\ Has(queue[n], p) /\ Alive(p)' => Has(queue'[n], p)

(* chprio puts a process back on the queue it is blocked on.               *)
TargetsParked ==
  \A p \in PrioTargets : state[p] = "BLOCKEDQUEUE" => In(p, blocked_head[p])

(* A step that changes queues of the scheduler only.                       *)
LEMMA OtherQueues ==
  ASSUME blocked_head' = blocked_head,
         \A p \in Procs : state'[p] = "BLOCKEDQUEUE" => state[p] = "BLOCKEDQUEUE",
         \A n \in Foreign : queue'[n] = queue[n]
  PROVE  QueuesSpared
BY DEF QueuesSpared

(* Linking in a queue of the scheduler, or taking the top of one.          *)
LEMMA LinkElsewhere ==
  ASSUME NEW f \in [Queues -> Seq(Procs)], NEW n \in SchedulerQueues
  PROVE  /\ \A p, key : \A m \in Foreign : Link(f, n, p, key)[m] = f[m]
         /\ \A m \in Foreign : Pop(f, n)[m] = f[m]
<1>1. \A m \in Foreign : m # n /\ m \in Queues
  BY DEF Foreign
<1> QED BY <1>1 DEF Link, Pop

(* chprio.                                                                 *)
LEMMA ChPrioSpares ==
  ASSUME ProcInv, TargetsParked, NEW p \in PrioTargets, NEW newprio \in Prios, ChPrio(p, newprio)
  PROVE  QueuesSpared
<1>1. UNCHANGED <<state, blocked_head>> /\ p \in Procs
  BY SchedulerAssumption DEF ChPrio
<1>2. CASE queue' = queue
  BY <1>1, <1>2, OtherQueues
<1>3. CASE /\ state[p] \in {"ACTIVATABLE", "BLOCKEDQUEUE", "BLOCKEDIO"}
           /\ queue' = Link(Unlink(queue, p), ListOf(p), p, prio')
  <2>1. /\ Unlink(queue, p) \in [Queues -> Seq(Procs)]
        /\ DisjointIn(Unlink(queue, p))
        /\ \A m \in Queues : \A x : Has(Unlink(queue, p)[m], x) <=> Has(queue[m], x) /\ x # p
    BY ProcFacts, DelFrom
  <2>2. ListOf(p) \in Queues
    BY <1>1, <1>3, SchedulerQueuesExist DEF ListOf, ProcInv, SchedTypeOK
  <2>3. prio' \in [Procs -> Int]
    <3>1. newprio \in Int
      BY DEF ChPrio, ValidPrio
    <3> QED BY <3>1, ProcFacts DEF ChPrio
  <2>4. \A m \in Queues : \A x :
           Has(queue'[m], x) <=> (Has(queue[m], x) /\ x # p) \/ (m = ListOf(p) /\ x = p)
    <3> DEFINE f == Unlink(queue, p)
    <3>1. \A m \in Queues : ~ Has(f[m], p)
      BY <2>1
    <3>2. f \in [Queues -> Seq(Procs)] /\ DisjointIn(f)
      BY <2>1
    <3>3. queue' = Link(f, ListOf(p), p, prio')
      BY <1>3
    <3>5. ListOf(p) \in Queues /\ p \in Procs /\ prio' \in [Procs -> Int]
      BY <1>1, <2>2, <2>3
    <3> HIDE DEF f
    <3>4. /\ Link(f, ListOf(p), p, prio') \in [Queues -> Seq(Procs)]
          /\ DisjointIn(Link(f, ListOf(p), p, prio'))
          /\ \A m \in Queues : \A x :
               Has(Link(f, ListOf(p), p, prio')[m], x)
                  <=> Has(f[m], x) \/ (m = ListOf(p) /\ x = p)
      BY ONLY <3>1, <3>2, <3>5, AddTo, ZenonT(60)
    <3> QED BY <2>1, <3>3, <3>4 DEF f
  <2>5. ASSUME NEW m \in Foreign, Has(queue[m], p) PROVE m = ListOf(p)
    <3>1. MayBeIn(p, m) /\ m \notin SchedulerQueues
      BY <1>1, <2>5 DEF ProcInv, LinksFit, In, Foreign
    <3> QED BY <1>3, <3>1 DEF MayBeIn, ListOf, SchedulerQueues
  <2>6. ListOf(p) \in Foreign => Has(queue[ListOf(p)], p)
    <3>1. ListOf(p) \in Foreign => state[p] = "BLOCKEDQUEUE"
      BY <1>3 DEF ListOf, Foreign, SchedulerQueues
    <3> QED BY <3>1 DEF ListOf, TargetsParked, In
  <2> QED BY <1>1, <2>4, <2>5, <2>6 DEF QueuesSpared, Foreign
<1> QED BY <1>2, <1>3 DEF ChPrio

(* Ticks, the calls of Scheduler and the steps of scheduler().             *)
LEMMA SchedulerSparesQueues ==
  ASSUME ProcInv, TargetsParked,
         Interrupt \/ SchedulerCall \/ SchedulerStep \/ Abandon
  PROVE  QueuesSpared
<1>0. queue \in [Queues -> Seq(Procs)] /\ DisjointIn(queue) /\ state \in [Procs -> States]
      /\ {"activatable", "asleep", "dead"} \subseteq SchedulerQueues
  BY ProcFacts DEF SchedulerQueues
<1>1. CASE Interrupt \/ SetTimeOfDay \/ AwakeDone \/ Stay
  BY <1>1, OtherQueues
  DEF Interrupt, Tick, TickInKernel, TickCounted, SetTimeOfDay, AwakeDone, Stay, procVars
<1>2. ASSUME NEW ticks \in SleepTicks, WaitClock(ticks) PROVE QueuesSpared
  <2>1. /\ state' = [state EXCEPT ![current] = "ASLEEP"] /\ blocked_head' = blocked_head
        /\ queue' = Link(queue, "asleep", current, wake')
    BY <1>2 DEF WaitClock
  <2>2. \A n \in Foreign : queue'[n] = queue[n]
    BY <1>0, <2>1, LinkElsewhere
  <2> QED BY <2>1, <2>2, OtherQueues
<1>3. CASE SchedulerCall
  BY <1>1, <1>2, <1>3, ChPrioSpares DEF SchedulerCall
<1>4. CASE AwakeOne
  <2>1. queue["asleep"] # <<>>
    BY <1>4 DEF AwakeOne, Due
  <2>2. Pop(queue, "asleep") \in [Queues -> Seq(Procs)]
    BY <1>0, <2>1, OutOf, SchedulerQueuesExist
  <2>3. \A n \in Foreign : queue'[n] = queue[n]
    <3>1. queue' = Link(Pop(queue, "asleep"), "activatable", QueueTop(queue["asleep"]), prio)
      BY <1>4 DEF AwakeOne
    <3>2. \A m \in Foreign : Pop(queue, "asleep")[m] = queue[m]
      BY <1>0, LinkElsewhere
    <3> DEFINE g == Pop(queue, "asleep")
    <3>4. g \in [Queues -> Seq(Procs)] /\ "activatable" \in SchedulerQueues
      BY <1>0, <2>2
    <3> HIDE DEF g
    <3>3. \A m \in Foreign : Link(g, "activatable", QueueTop(queue["asleep"]), prio)[m] = g[m]
      BY <3>4, LinkElsewhere
    <3> QED BY <3>1, <3>2, <3>3 DEF g
  <2> QED BY <1>4, <2>3, OtherQueues DEF AwakeOne, procVars
<1>5. ASSUME NEW from \in {"none", "activatable", "dead"}, AtSwitch, Dispatch(from)
      PROVE  blocked_head' = blocked_head /\ \A n \in Foreign : queue'[n] = queue[n]
  <2>1. Pop(queue, "activatable") \in [Queues -> Seq(Procs)]
    BY <1>0, <1>5, OutOf, SchedulerQueuesExist DEF AtSwitch
  <2>2. queue' \in {Pop(queue, "activatable"), Link(Pop(queue, "activatable"), from, current, prio)}
        /\ (from = "none" => queue' = Pop(queue, "activatable"))
    BY <1>5 DEF Dispatch
  <2> QED BY <1>0, <1>5, <2>1, <2>2, LinkElsewhere DEF Dispatch
<1>6. CASE First \/ Leave \/ Abandon \/ Preempt
  <2>1. \E from \in {"none", "activatable", "dead"} : AtSwitch /\ Dispatch(from)
    <3>1. CASE First \/ Leave
      <4>1. "none" \in {"none", "activatable", "dead"} /\ AtSwitch /\ Dispatch("none")
        BY <3>1 DEF First, Leave
      <4> QED BY <4>1, Zenon
    <3>2. CASE Abandon
      <4>1. "dead" \in {"none", "activatable", "dead"} /\ AtSwitch /\ Dispatch("dead")
        BY <3>2 DEF Abandon
      <4> QED BY <4>1, Zenon
    <3>3. CASE Preempt
      <4>1. "activatable" \in {"none", "activatable", "dead"} /\ AtSwitch /\ Dispatch("activatable")
        BY <3>3 DEF Preempt
      <4> QED BY <4>1, Zenon
    <3> QED BY <1>6, <3>1, <3>2, <3>3
  <2>2. \A p \in Procs : state'[p] = "BLOCKEDQUEUE" => state[p] = "BLOCKEDQUEUE"
    BY <1>0, <1>6 DEF First, Leave, Abandon, Preempt
  <2> QED BY <1>5, <2>1, <2>2, OtherQueues
<1> QED BY <1>1, <1>3, <1>4, <1>6 DEF SchedulerStep

(* The end of a process takes it off its queue, and nobody else.           *)
LEMMA DepartureSparesQueues ==
  ASSUME ProcInv, NEW p \in Procs,
         NEW links, links \in [Queues -> Seq(Procs)],
         \A m \in Queues : \A x : Has(links[m], x) <=> Has(queue[m], x) /\ x # p,
         Leaves(p, links, state), blocked_head' = blocked_head
  PROVE  QueuesSpared
<1>1. CASE UNCHANGED <<state, queue>>
  BY <1>1, OtherQueues
<1>2. CASE TurnIntoZombie(p, links, state)
  <2>1. PICK read \in ParentReads(p) :
           /\ StatesAfter(p, read, state)
           /\ queue' = IF Awakens(read) THEN Link(links, "activatable", parent[p], prio) ELSE links
    BY <1>2 DEF TurnIntoZombie, StatesAfter, FreedBy, Unwanted
  <2>2. ~ Alive(p)' /\ \A x \in Procs : state'[x] = "BLOCKEDQUEUE" => state[x] = "BLOCKEDQUEUE"
    BY <2>1 DEF StatesAfter, Alive
  <2>3. \A n \in Foreign : queue'[n] = links[n]
    BY <2>1, LinkElsewhere DEF SchedulerQueues
  <2>4. \A n \in Foreign : n \in Queues
    BY DEF Foreign
  <2> QED BY <2>2, <2>3, <2>4 DEF QueuesSpared
<1> QED BY <1>1, <1>2 DEF Leaves

(* The calls of Process.                                                   *)
LEMMA LifeSparesQueues ==
  ASSUME ProcInv, LifeCall \/ Resume \/ FreeDeadProcess
  PROVE  QueuesSpared
<1>0. queue \in [Queues -> Seq(Procs)] /\ DisjointIn(queue) /\ state \in [Procs -> States]
      /\ {"activatable", "asleep", "dead"} \subseteq SchedulerQueues
  BY ProcFacts DEF SchedulerQueues
<1>1. ASSUME NEW p \in Procs, NEW newprio, Create(p, newprio) PROVE QueuesSpared
  <2>1. /\ queue' = Link(queue, "activatable", p, prio') /\ blocked_head' = blocked_head
        /\ state' = [state EXCEPT ![p] = "ACTIVATABLE"]
    BY <1>1 DEF Create
  <2>2. \A n \in Foreign : queue'[n] = queue[n]
    BY <1>0, <2>1, LinkElsewhere
  <2> QED BY <2>1, <2>2, OtherQueues
<1>2. CASE StartVirtualBad
  BY <1>2, OtherQueues DEF StartVirtualBad, schedVars
<1>3. CASE ExitProcess
  <2>1. /\ Leaves(current, queue, state) /\ blocked_head' = blocked_head /\ current \in Procs
        /\ queue \in [Queues -> Seq(Procs)] /\ \A m \in Queues : ~ Has(queue[m], current)
    BY <1>0, <1>3, OnTheHart DEF ExitProcess, Calling
  <2>2. \A m \in Queues : \A x : Has(queue[m], x) <=> Has(queue[m], x) /\ x # current
    BY <2>1
  <2> QED BY <2>1, <2>2, DepartureSparesQueues
<1>4. ASSUME NEW p \in Victims, Kill(p) PROVE QueuesSpared
  <2>1. p \in Procs /\ blocked_head' = blocked_head
    BY <1>4, ProcessAssumption DEF Kill
  <2>2. CASE Leaves(p, Unlink(queue, p), state)
    <3>1. /\ Unlink(queue, p) \in [Queues -> Seq(Procs)]
          /\ \A m \in Queues : \A x : Has(Unlink(queue, p)[m], x) <=> Has(queue[m], x) /\ x # p
      BY <1>0, DelFrom
    <3> QED BY <2>1, <2>2, <3>1, DepartureSparesQueues
  <2>3. CASE UNCHANGED <<state, queue>>
    BY <2>1, <2>3, OtherQueues
  <2> QED BY <1>4, <2>2, <2>3 DEF Kill
<1>5. ASSUME NEW which, WaitForChild(which) PROVE QueuesSpared
  <2>1. UNCHANGED <<queue, blocked_head>>
    BY <1>5 DEF WaitForChild
  <2>2. \A p \in Procs : state'[p] = "BLOCKEDQUEUE" => state[p] = "BLOCKEDQUEUE"
    BY <1>0, <1>5 DEF WaitForChild, Reap, Block
  <2> QED BY <2>1, <2>2, OtherQueues
<1>6. CASE FreeDeadProcess
  <2>1. /\ queue' = Pop(queue, "dead") /\ blocked_head' = blocked_head
        /\ state' = [state EXCEPT ![QueueTop(queue["dead"])] = "UNUSED"]
    BY <1>6 DEF FreeDeadProcess
  <2>2. \A n \in Foreign : queue'[n] = queue[n]
    BY <1>0, <2>1, LinkElsewhere
  <2> QED BY <2>1, <2>2, OtherQueues
<1> QED BY <1>1, <1>2, <1>3, <1>4, <1>5, <1>6
        DEF LifeCall, StartVirtual, Fork, WaitPid, Resume

(* Every step of Process.                                                  *)
LEMMA NextSparesQueues ==
  ASSUME ProcInv, TargetsParked, [Next]_vars
  PROVE  QueuesSpared
<1>1. CASE Next
  BY <1>1, SchedulerSparesQueues, LifeSparesQueues DEF Next, KernelStep
<1>2. CASE UNCHANGED vars
  BY <1>2, OtherQueues DEF vars, schedVars
<1> QED BY <1>1, <1>2

-----------------------------------------------------------------------------
(* The inductive invariant.                                                *)

(* Who is blocked on a queue has a call of that queue to finish, and who   *)
(* has left has none.                                                      *)
PendingFits ==
  \A p \in Procs :
     /\ ~ Alive(p) => pending[p] = Nothing
     /\ \A f \in Fids :
          /\ pending[p] = <<"psend", f>> => "psend" \in MsgCalls[p]
          /\ In(p, blocked_cons[f]) => pending[p] = <<"preceive", f>>
          /\ In(p, blocked_prod[f]) => pending[p] = <<"psend", f>>

(* A process that sends nothing is in the queue its state speaks of.  Of a *)
(* sender that is not so: preceive wakes it and leaves its state.          *)
Parked ==
  \A p \in Procs :
     state[p] = "BLOCKEDQUEUE" /\ "psend" \notin MsgCalls[p]
        => In(p, blocked_head[p]) /\ blocked_head[p] \in Foreign

(* The status of a call that goes on is one that call can have got.        *)
StatusFits ==
  \A p \in Procs, f \in Fids :
     /\ pending[p] = <<"psend", f>> /\ ~ In(p, blocked_prod[f]) => status[p] # "RECEIVED"
     /\ pending[p] = <<"preceive", f>> /\ ~ In(p, blocked_cons[f]) => status[p] # "SENT"

RingFits(f) ==
  /\ ~ NoConsumer(f) => Empty(f) /\ NoProducer(f)
  /\ ~ NoProducer(f) => Full(f) /\ slot[f] = "ready"

RingsFit == \A f \in Fids : RingFits(f)

MsgInv ==
  /\ ProcInv
  /\ MsgTypeOK
  /\ PendingFits
  /\ Parked
  /\ StatusFits
  /\ RingsFit

(* chprio is used on no process that sends.                                *)
SendersKeepPrio == \A p \in PrioTargets : "psend" \notin MsgCalls[p]

(* Facts about the queues of the component.                                *)
LEMMA OwnQueues ==
  ASSUME NEW f \in Fids
  PROVE  /\ blocked_cons[f] \in Foreign /\ blocked_prod[f] \in Foreign
         /\ blocked_cons[f] \in Queues /\ blocked_prod[f] \in Queues
         /\ \A g \in Fids : /\ blocked_cons[f] # blocked_prod[g]
                            /\ blocked_cons[g] # blocked_prod[f]
                            /\ g # f => /\ blocked_cons[f] # blocked_cons[g]
                                        /\ blocked_prod[f] # blocked_prod[g]
         /\ {blocked_cons[f], blocked_prod[f]} \cap SchedulerQueues = {}
BY MsgQueueAssumption DEF Foreign

(* A call to finish is not Nothing.                                        *)
LEMMA CallIsSomething ==
  \A f : Nothing # <<"psend", f>> /\ Nothing # <<"preceive", f>>
BY DEF Nothing

(* A queue is empty when nobody is in it.                                  *)
LEMMA EmptyIff ==
  ASSUME NEW q \in Seq(Procs)
  PROVE  q = <<>> <=> \A x : ~ Has(q, x)
<1>1. Len(q) \in Nat /\ DOMAIN q = 1 .. Len(q)
  OBVIOUS
<1>2. ASSUME q # <<>> PROVE Has(q, q[1])
  <2>1. Len(q) # 0
    BY <1>2
  <2>2. 1 \in DOMAIN q
    BY <1>1, <2>1
  <2> QED BY <2>2 DEF Has
<1>3. ASSUME q = <<>> PROVE \A x : ~ Has(q, x)
  <2>1. DOMAIN q = {}
    BY <1>3
  <2> QED BY <2>1 DEF Has
<1> QED BY <1>2, <1>3

(* A queue from which a step has only taken some stays empty.              *)
LEMMA StaysEmpty ==
  ASSUME NEW q \in Seq(Procs), NEW r \in Seq(Procs), \A x \in Procs : Has(r, x) => Has(q, x),
         q = <<>>
  PROVE  r = <<>>
<1>1. \A x : Has(r, x) => x \in Procs
  BY DEF Has
<1> QED BY <1>1, EmptyIff

-----------------------------------------------------------------------------
(* The rings, when a step has put nobody in a queue.                       *)
LEMMA RingsKept ==
  ASSUME ProcInv, ProcInv', RingsFit, UNCHANGED <<slot, size, number_of_msgs>>,
         \A p \in Procs, n \in Foreign : Has(queue'[n], p) => Has(queue[n], p)
  PROVE  RingsFit'
<1> SUFFICES ASSUME NEW f \in Fids PROVE RingFits(f)'
  BY DEF RingsFit
<1>1. /\ queue[blocked_cons[f]] \in Seq(Procs) /\ queue[blocked_prod[f]] \in Seq(Procs)
      /\ queue'[blocked_cons[f]] \in Seq(Procs) /\ queue'[blocked_prod[f]] \in Seq(Procs)
  BY OwnQueues DEF ProcInv, SchedTypeOK
<1>2. /\ NoConsumer(f) => NoConsumer(f)'
      /\ NoProducer(f) => NoProducer(f)'
  BY <1>1, OwnQueues, StaysEmpty DEF NoConsumer, NoProducer
<1> QED BY <1>2 DEF RingsFit, RingFits, Empty, Full

(* The steps of Process.                                                   *)
LEMMA LifeKeepsMessages ==
  ASSUME SendersKeepPrio, MsgInv, ProcInv', [Next]_vars, Forget, UNCHANGED ringVars
  PROVE  MsgInv'
<1>1. QueuesSpared
  <2>1. TargetsParked
    BY SchedulerAssumption DEF MsgInv, Parked, SendersKeepPrio, TargetsParked
  <2> QED BY <2>1, NextSparesQueues DEF MsgInv
<1>2. ASSUME NEW p \in Procs
      PROVE  /\ pending'[p] = IF ~ Alive(p)' THEN Nothing ELSE pending[p]
             /\ status'[p] = IF (state[p] = "UNUSED") # (state'[p] = "UNUSED")
                            THEN "RECEIVED" ELSE status[p]
  BY DEF Forget
<1>3. MsgTypeOK'
  BY <1>2 DEF MsgInv, MsgTypeOK, Forget, ringVars
<1>4. PendingFits'
  <2>0. \A p \in Procs : ~ Alive(p)' => pending'[p] = Nothing
    BY <1>2
  <2> SUFFICES ASSUME NEW p \in Procs, NEW f \in Fids
               PROVE  /\ pending'[p] = <<"psend", f>> => "psend" \in MsgCalls[p]
                      /\ Has(queue'[blocked_cons[f]], p) => pending'[p] = <<"preceive", f>>
                      /\ Has(queue'[blocked_prod[f]], p) => pending'[p] = <<"psend", f>>
    BY <2>0 DEF PendingFits, In
  <2>1. \A n \in Foreign : Has(queue'[n], p) => Has(queue[n], p) /\ Alive(p)'
    <3> SUFFICES ASSUME NEW n \in Foreign, Has(queue'[n], p) PROVE Has(queue[n], p) /\ Alive(p)'
      OBVIOUS
    <3>1. MayBeIn(p, n)' /\ n \notin SchedulerQueues
      BY DEF ProcInv, LinksFit, In, Foreign
    <3> QED BY <1>1, <3>1 DEF QueuesSpared, MayBeIn, Alive, SchedulerQueues
  <2>2. pending'[p] = <<"psend", f>> => "psend" \in MsgCalls[p]
    BY <1>2, CallIsSomething DEF MsgInv, PendingFits
  <2>3. /\ Has(queue[blocked_cons[f]], p) => pending[p] = <<"preceive", f>>
        /\ Has(queue[blocked_prod[f]], p) => pending[p] = <<"psend", f>>
    BY DEF MsgInv, PendingFits, In
  <2> QED BY <1>2, <2>1, <2>2, <2>3, OwnQueues
<1>5. Parked'
  <2> SUFFICES ASSUME NEW p \in Procs, state'[p] = "BLOCKEDQUEUE", "psend" \notin MsgCalls[p]
               PROVE  Has(queue'[blocked_head'[p]], p) /\ blocked_head'[p] \in Foreign
    BY DEF Parked, In
  <2>1. Alive(p)'
    BY DEF Alive
  <2> QED BY <1>1, <2>1 DEF QueuesSpared, MsgInv, Parked, In
<1>6. StatusFits'
  <2> SUFFICES ASSUME NEW p \in Procs, NEW f \in Fids, pending'[p] # Nothing
               PROVE  /\ pending'[p] = <<"psend", f>> /\ ~ Has(queue'[blocked_prod[f]], p)
                           => status'[p] # "RECEIVED"
                      /\ pending'[p] = <<"preceive", f>> /\ ~ Has(queue'[blocked_cons[f]], p)
                           => status'[p] # "SENT"
    BY CallIsSomething DEF StatusFits, In
  <2>1. Alive(p)' /\ pending'[p] = pending[p]
    BY <1>2
  <2>2. Alive(p) /\ status'[p] = status[p]
    BY <1>2, <2>1 DEF MsgInv, PendingFits, Alive
  <2>3. \A n \in Foreign : Has(queue[n], p) => Has(queue'[n], p)
    BY <1>1, <2>1 DEF QueuesSpared
  <2> QED BY <2>1, <2>2, <2>3, OwnQueues DEF MsgInv, StatusFits, In
<1>7. RingsFit'
  BY <1>1, RingsKept DEF MsgInv, QueuesSpared, ringVars
<1> QED BY <1>3, <1>4, <1>5, <1>6, <1>7 DEF MsgInv

-----------------------------------------------------------------------------
(* What the calls do to processes and queues.  All of them enter the       *)
(* scheduler, and move processes that are ready or blocked in a queue.     *)
(*                                                                         *)
(* The current process blocks.                                             *)
LEMMA BlockOnFacts ==
  ASSUME ProcInv, Running, current # Idle, NEW n \in Foreign, BlockOn(n)
  PROVE  /\ ProcInv'
         /\ \A x \in Procs : Alive(x)' <=> Alive(x)
         /\ current \in Procs /\ \A m \in Queues : ~ Has(queue[m], current)
         /\ \A m \in Queues : \A x :
               Has(queue'[m], x) <=> Has(queue[m], x) \/ (m = n /\ x = current)
         /\ \A x \in Procs : x # current =>
               state'[x] = state[x] /\ blocked_head'[x] = blocked_head[x]
         /\ state'[current] = "BLOCKEDQUEUE" /\ blocked_head'[current] = n
<1>1. /\ current \in Procs /\ state[current] = "ACTIF" /\ phase = "user"
      /\ \A m \in Queues : ~ Has(queue[m], current)
  BY OnTheHart
<1>2. /\ n \in Queues /\ n \notin {"activatable", "asleep", "dead"}
  BY DEF Foreign, SchedulerQueues
<1>3. /\ state' \in [Procs -> States] /\ blocked_head' \in [Procs -> Queues]
      /\ \A x \in Procs :
            /\ state'[x] = IF x = current THEN "BLOCKEDQUEUE" ELSE state[x]
            /\ blocked_head'[x] = IF x = current THEN n ELSE blocked_head[x]
  BY <1>1, <1>2, ProcFacts DEF BlockOn, States, ProcInv, SchedTypeOK
<1>4. /\ queue' \in [Queues -> Seq(Procs)] /\ DisjointIn(queue')
      /\ \A m \in Queues : \A x :
            Has(queue'[m], x) <=> Has(queue[m], x) \/ (m = n /\ x = current)
  <2>1. queue' = Link(queue, n, current, prio)
    BY DEF BlockOn
  <2>2. queue \in [Queues -> Seq(Procs)]
    BY ProcFacts
  <2>8. DisjointIn(queue)
    BY ProcFacts
  <2>3. n \in Queues
    BY <1>2
  <2>6. current \in Procs
    BY <1>1
  <2>7. prio \in [Procs -> Int]
    BY ProcFacts
  <2>4. \A m \in Queues : ~ Has(queue[m], current)
    BY <1>1
  <2>5. Link(queue, n, current, prio) \in [Queues -> Seq(Procs)]
    BY ONLY <2>2, <2>3, <2>4, <2>6, <2>7, <2>8, AddTo, ZenonT(60)
  <2>9. DisjointIn(Link(queue, n, current, prio))
    BY ONLY <2>2, <2>3, <2>4, <2>6, <2>7, <2>8, AddTo, ZenonT(60)
  <2>10. ASSUME NEW m \in Queues, NEW x
         PROVE  Has(Link(queue, n, current, prio)[m], x)
                   <=> Has(queue[m], x) \/ (m = n /\ x = current)
    <3>1. Link(queue, n, current, prio)[m] =
             IF m = n THEN QueueAdd(queue[m], current, prio) ELSE queue[m]
      BY <2>2 DEF Link
    <3>2. queue[m] \in Seq(Procs)
      BY <2>2
    <3>3. \A y : Has(QueueAdd(queue[m], current, prio), y) <=> y = current \/ Has(queue[m], y)
      BY <2>6, <2>7, <3>2, QueueAddFacts
    <3> QED BY <3>1, <3>3
  <2> QED BY <2>1, <2>5, <2>9, <2>10
<1>5. phase' = "awake" /\ UNCHANGED <<prio, wake, current, clock, halt, lifeVars>>
  BY <1>1 DEF BlockOn, AssertThat, Linked, In, CallScheduler
<1>6. ProcInv'
  <2>1. \A x \in Procs : state'[x] = state[x] \/ (state[x] \in Present /\ state'[x] \in Present)
    BY <1>1, <1>3 DEF Present
  <2>2. \A x \in Procs : state'[x] = "ACTIF" => state[x] = "ACTIF"
    BY <1>3
  <2>3. state'[Idle] = state[Idle]
    BY <1>3, ProcFacts
  <2>4. ASSUME NEW x \in Procs, NEW m \in Queues, Has(queue'[m], x) PROVE MayBeIn(x, m)'
    <3>1. CASE x = current
      BY <1>1, <1>3, <1>4, <2>4, <3>1 DEF MayBeIn
    <3>2. CASE x # current
      <4>1. MayBeIn(x, m)
        BY <1>4, <2>4, <3>2 DEF ProcInv, LinksFit, In
      <4> QED BY <1>3, <3>2, <4>1 DEF MayBeIn
    <3> QED BY <3>1, <3>2
  <2>5. ASSUME NEW x \in Procs, state'[x] = "BLOCKEDQUEUE"
        PROVE  blocked_head'[x] \notin {"activatable", "asleep", "dead"}
    BY <1>2, <1>3, <2>5 DEF ProcInv, LinksFit
  <2>6. Has(queue["activatable"], Idle) => Has(queue'["activatable"], Idle)
    BY <1>4, SchedulerQueuesExist
  <2>8. halt' \in Halts
    BY <1>5 DEF ProcInv, SchedTypeOK
  <2> QED BY <1>3, <1>4, <1>5, <2>1, <2>2, <2>3, <2>4, <2>5, <2>6, <2>8, MovesKeep
<1> QED BY <1>1, <1>3, <1>4, <1>6 DEF Alive

(* The first process blocked on a queue is made ready.                     *)
LEMMA WakesFacts ==
  ASSUME ProcInv, Running, NEW n \in Foreign, queue[n] # <<>>,
         NEW st \in {"ACTIVATABLE", "BLOCKEDQUEUE"}, Wakes(n, st)
  PROVE  LET t == QueueTop(queue[n]) IN
         /\ ProcInv'
         /\ \A x \in Procs : Alive(x)' <=> Alive(x)
         /\ t \in Procs /\ t # current /\ Has(queue[n], t)
         /\ \A m \in Queues : \A x :
               Has(queue'[m], x) <=> (Has(queue[m], x) /\ x # t) \/ (m = "activatable" /\ x = t)
         /\ \A x \in Procs : x # t => state'[x] = state[x]
         /\ state'[t] = st
         /\ blocked_head' = blocked_head
<1> DEFINE t == QueueTop(queue[n])
           g == Pop(queue, n)
<1>1. /\ current \in Procs /\ state[current] = "ACTIF" /\ phase = "user"
      /\ \A m \in Queues : ~ Has(queue[m], current)
  BY OnTheHart
<1>2. n \in Queues /\ n \notin {"activatable", "asleep", "dead", "blocked_io"}
  BY DEF Foreign, SchedulerQueues
<1>3. queue \in [Queues -> Seq(Procs)] /\ DisjointIn(queue) /\ prio \in [Procs -> Int]
      /\ state \in [Procs -> States]
  BY ProcFacts
<1>4. /\ g \in [Queues -> Seq(Procs)] /\ DisjointIn(g)
      /\ t \in Procs /\ Has(queue[n], t)
      /\ \A m \in Queues : \A x : Has(g[m], x) <=> Has(queue[m], x) /\ x # t
  BY <1>2, <1>3, OutOf
<1>5. /\ queue' = Link(g, "activatable", t, prio) /\ state' = [state EXCEPT ![t] = st]
      /\ phase' = "awake" /\ blocked_head' = blocked_head
      /\ UNCHANGED <<prio, wake, current, clock, halt, lifeVars>>
  BY DEF Wakes, CallScheduler
<1> HIDE DEF g, t
<1>6. /\ queue' \in [Queues -> Seq(Procs)] /\ DisjointIn(queue')
      /\ \A m \in Queues : \A x :
            Has(queue'[m], x) <=> (Has(queue[m], x) /\ x # t) \/ (m = "activatable" /\ x = t)
  <2>1. \A m \in Queues : ~ Has(g[m], t)
    BY <1>4
  <2>2. g \in [Queues -> Seq(Procs)] /\ DisjointIn(g)
    BY <1>4
  <2>3. "activatable" \in Queues /\ t \in Procs /\ prio \in [Procs -> Int]
    BY <1>3, <1>4, SchedulerQueuesExist
  <2>4. /\ Link(g, "activatable", t, prio) \in [Queues -> Seq(Procs)]
        /\ DisjointIn(Link(g, "activatable", t, prio))
        /\ \A m \in Queues : \A x :
               Has(Link(g, "activatable", t, prio)[m], x)
                   <=> Has(g[m], x) \/ (m = "activatable" /\ x = t)
    BY ONLY <2>1, <2>2, <2>3, AddTo, ZenonT(60)
  <2> QED BY <1>4, <1>5, <2>4
<1>7. state[t] = "BLOCKEDQUEUE"
  BY <1>2, <1>4 DEF ProcInv, LinksFit, MayBeIn, In
<1>8. /\ state' \in [Procs -> States]
      /\ \A x \in Procs : state'[x] = IF x = t THEN st ELSE state[x]
  BY <1>3, <1>4, <1>5 DEF States
<1>9. ProcInv'
  <2>1. \A x \in Procs : state'[x] = state[x] \/ (state[x] \in Present /\ state'[x] \in Present)
    BY <1>7, <1>8 DEF Present
  <2>2. \A x \in Procs : state'[x] = "ACTIF" => state[x] = "ACTIF"
    BY <1>8
  <2>3. Idle # t /\ state'[Idle] = state[Idle]
    BY <1>7, <1>8, ProcFacts DEF ProcInv, HartFits
  <2>4. ASSUME NEW x \in Procs, NEW m \in Queues, Has(queue'[m], x) PROVE MayBeIn(x, m)'
    <3>1. CASE x = t
      BY <1>6, <1>8, <2>4, <3>1 DEF MayBeIn
    <3>2. CASE x # t
      <4>1. MayBeIn(x, m)
        BY <1>6, <2>4, <3>2 DEF ProcInv, LinksFit, In
      <4> QED BY <1>5, <1>8, <3>2, <4>1 DEF MayBeIn
    <3> QED BY <3>1, <3>2
  <2>5. ASSUME NEW x \in Procs, state'[x] = "BLOCKEDQUEUE"
        PROVE  blocked_head'[x] \notin {"activatable", "asleep", "dead"}
    BY <1>5, <1>7, <1>8, <2>5 DEF ProcInv, LinksFit
  <2>6. Has(queue["activatable"], Idle) => Has(queue'["activatable"], Idle)
    BY <1>6, <2>3, SchedulerQueuesExist
  <2>7. blocked_head' \in [Procs -> Queues]
    BY <1>5 DEF ProcInv, SchedTypeOK
  <2>8. halt' \in Halts
    BY <1>5 DEF ProcInv, SchedTypeOK
  <2> QED BY <1>5, <1>6, <1>8, <2>1, <2>2, <2>3, <2>4, <2>5, <2>6, <2>7, <2>8, MovesKeep
<1>10. \A x \in Procs : Alive(x)' <=> Alive(x)
  BY <1>7, <1>8 DEF Alive
<1>11. t # current
  BY <1>1, <1>7
<1> QED BY <1>4, <1>5, <1>6, <1>8, <1>9, <1>10, <1>11 DEF t

-----------------------------------------------------------------------------
(* The lists free_blocked_queue goes through.                              *)
LEMMA ReverseFacts ==
  ASSUME NEW q \in Seq(Procs)
  PROVE  /\ Reverse(q) \in Seq(Procs)
         /\ \A x : Has(Reverse(q), x) <=> Has(q, x)
         /\ NoRepeat(q) => NoRepeat(Reverse(q))
<1> DEFINE n == Len(q)
           r == Reverse(q)
<1>1. n \in Nat /\ DOMAIN q = 1 .. n
  OBVIOUS
<1>2. DOMAIN r = 1 .. n /\ \A i \in 1 .. n : r[i] = q[n - i + 1]
  BY DEF Reverse
<1>3. r = [i \in 1 .. n |-> q[n - i + 1]]
  BY DEF Reverse
<1> HIDE DEF n, r
<1>4. \A i \in 1 .. n : n - i + 1 \in 1 .. n /\ n - (n - i + 1) + 1 = i
  BY <1>1
<1>5. r \in Seq(Procs)
  <2>1. \A i \in 1 .. n : q[n - i + 1] \in Procs
    BY <1>1, <1>4
  <2> QED BY <1>1, <1>3, <2>1
<1>6. ASSUME NEW x PROVE Has(r, x) <=> Has(q, x)
  <2>1. ASSUME NEW i \in 1 .. n, q[i] = x PROVE r[n - i + 1] = x
    BY <1>2, <1>4, <2>1
  <2>2. ASSUME NEW i \in 1 .. n, r[i] = x PROVE q[n - i + 1] = x
    BY <1>2, <2>2
  <2> QED BY <1>1, <1>2, <1>4, <2>1, <2>2 DEF Has
<1>7. ASSUME NoRepeat(q) PROVE NoRepeat(r)
  <2> SUFFICES ASSUME NEW i \in 1 .. n, NEW j \in 1 .. n, r[i] = r[j] PROVE i = j
    BY <1>2 DEF NoRepeat
  <2>1. q[n - i + 1] = q[n - j + 1]
    BY <1>2
  <2>2. n - i + 1 = n - j + 1
    BY <1>1, <1>4, <1>7, <2>1 DEF NoRepeat
  <2> QED BY <1>1, <2>2
<1> QED BY <1>5, <1>6, <1>7 DEF r

LEMMA JoinedFacts ==
  ASSUME NEW a \in Seq(Procs), NEW b \in Seq(Procs)
  PROVE  /\ a \o b \in Seq(Procs)
         /\ \A x : Has(a \o b, x) <=> Has(a, x) \/ Has(b, x)
         /\ NoRepeat(a) /\ NoRepeat(b) /\ (\A x : ~ (Has(a, x) /\ Has(b, x)))
               => NoRepeat(a \o b)
<1> DEFINE c == a \o b
           n == Len(a)
           m == Len(b)
<1>1. /\ n \in Nat /\ m \in Nat /\ DOMAIN a = 1 .. n /\ DOMAIN b = 1 .. m
      /\ c \in Seq(Procs) /\ DOMAIN c = 1 .. n + m
      /\ \A i \in 1 .. n + m : c[i] = IF i <= n THEN a[i] ELSE b[i - n]
  OBVIOUS
<1> HIDE DEF c, n, m
<1>2. /\ \A i \in 1 .. n : i \in 1 .. n + m /\ i <= n
      /\ \A i \in 1 .. m : i + n \in 1 .. n + m /\ ~ i + n <= n /\ i + n - n = i
      /\ \A i \in 1 .. n + m : IF i <= n THEN i \in 1 .. n ELSE i - n \in 1 .. m
  BY <1>1
<1>3. /\ \A i \in 1 .. n : c[i] = a[i]
      /\ \A i \in 1 .. m : c[i + n] = b[i]
  BY <1>1, <1>2
<1>4. ASSUME NEW x PROVE Has(c, x) <=> Has(a, x) \/ Has(b, x)
  <2>1. Has(a, x) => Has(c, x)
    BY <1>1, <1>2, <1>3 DEF Has
  <2>2. Has(b, x) => Has(c, x)
    BY <1>1, <1>2, <1>3 DEF Has
  <2>3. Has(c, x) => Has(a, x) \/ Has(b, x)
    BY <1>1, <1>2 DEF Has
  <2> QED BY <2>1, <2>2, <2>3
<1>5. ASSUME NoRepeat(a), NoRepeat(b), \A x : ~ (Has(a, x) /\ Has(b, x)) PROVE NoRepeat(c)
  <2> SUFFICES ASSUME NEW i \in 1 .. n + m, NEW j \in 1 .. n + m, c[i] = c[j] PROVE i = j
    BY <1>1 DEF NoRepeat
  <2>1. CASE i <= n /\ j <= n
    BY <1>1, <1>2, <1>5, <2>1 DEF NoRepeat
  <2>2. CASE ~ i <= n /\ ~ j <= n
    <3>1. i - n \in 1 .. m /\ j - n \in 1 .. m /\ b[i - n] = b[j - n]
      BY <1>1, <1>2, <2>2
    <3>2. i - n = j - n
      BY <1>1, <1>5, <3>1 DEF NoRepeat
    <3> QED BY <1>1, <3>2
  <2>3. CASE (i <= n) # (j <= n)
    <3>1. ASSUME NEW k \in 1 .. n + m, NEW l \in 1 .. n + m, k <= n, ~ l <= n
          PROVE  c[k] # c[l]
      <4>1. Has(a, c[k])
        BY <1>1, <1>2, <3>1 DEF Has
      <4>2. Has(b, c[l])
        BY <1>1, <1>2, <3>1 DEF Has
      <4> QED BY <1>5, <4>1, <4>2
    <3>2. c[j] = c[i]
      OBVIOUS
    <3> QED BY <2>3, <3>1, <3>2
  <2> QED BY <2>1, <2>2, <2>3
<1> QED BY <1>1, <1>4, <1>5 DEF c

(* Who is blocked on the queue f.                                          *)
BlockedIn(f, x) == Has(queue[blocked_cons[f]], x) \/ Has(queue[blocked_prod[f]], x)

LEMMA BlockedOfFacts ==
  ASSUME ProcInv, NEW f \in Fids
  PROVE  /\ BlockedOf(f) \in Seq(Procs) /\ NoRepeat(BlockedOf(f))
         /\ \A x : x \in Range(BlockedOf(f)) <=> BlockedIn(f, x)
<1> DEFINE a == queue[blocked_cons[f]]
           b == queue[blocked_prod[f]]
<1>1. /\ a \in Seq(Procs) /\ b \in Seq(Procs) /\ NoRepeat(a) /\ NoRepeat(b)
      /\ \A x : ~ (Has(a, x) /\ Has(b, x))
  BY ProcFacts, OwnQueues DEF DisjointIn
<1> HIDE DEF a, b
<1>2. /\ Reverse(a) \in Seq(Procs) /\ NoRepeat(Reverse(a))
      /\ Reverse(b) \in Seq(Procs) /\ NoRepeat(Reverse(b))
      /\ \A x : Has(Reverse(a), x) <=> Has(a, x)
      /\ \A x : Has(Reverse(b), x) <=> Has(b, x)
  BY <1>1, ReverseFacts
<1> DEFINE c == Reverse(a)
           d == Reverse(b)
<1> HIDE DEF c, d
<1>3. /\ c \in Seq(Procs) /\ NoRepeat(c) /\ d \in Seq(Procs) /\ NoRepeat(d)
      /\ \A x : ~ (Has(c, x) /\ Has(d, x))
      /\ \A x : Has(c, x) \/ Has(d, x) <=> Has(a, x) \/ Has(b, x)
  BY <1>1, <1>2 DEF c, d
<1>4. /\ c \o d \in Seq(Procs) /\ NoRepeat(c \o d)
      /\ \A x : Has(c \o d, x) <=> Has(c, x) \/ Has(d, x)
  BY <1>3, JoinedFacts
<1>5. BlockedOf(f) = c \o d
  BY DEF BlockedOf, a, b, c, d
<1>6. \A x : x \in Range(BlockedOf(f)) <=> Has(a, x) \/ Has(b, x)
  BY <1>3, <1>4, <1>5, RangeHas
<1> QED BY <1>4, <1>5, <1>6 DEF BlockedIn, a, b

(* The queues with those of f emptied.                                     *)
LEMMA EmptiedFacts ==
  ASSUME ProcInv, NEW f \in Fids
  PROVE  /\ Emptied(f) \in [Queues -> Seq(Procs)] /\ DisjointIn(Emptied(f))
         /\ \A m \in Queues : \A x :
               Has(Emptied(f)[m], x) <=> Has(queue[m], x) /\ ~ BlockedIn(f, x)
<1>1. queue \in [Queues -> Seq(Procs)] /\ DisjointIn(queue)
  BY ProcFacts
<1>2. \A m \in Queues : Emptied(f)[m] =
         IF m \in {blocked_cons[f], blocked_prod[f]} THEN <<>> ELSE queue[m]
  BY <1>1, OwnQueues DEF Emptied
<1>3. Emptied(f) \in [Queues -> Seq(Procs)]
  <2>1. /\ DOMAIN Emptied(f) = Queues
        /\ Emptied(f) = [m \in DOMAIN Emptied(f) |-> Emptied(f)[m]]
    BY <1>1 DEF Emptied
  <2>2. ASSUME NEW m \in Queues PROVE Emptied(f)[m] \in Seq(Procs)
    <3>1. <<>> \in Seq(Procs) /\ queue[m] \in Seq(Procs)
      BY <1>1
    <3>2. Emptied(f)[m] = <<>> \/ Emptied(f)[m] = queue[m]
      BY <1>2
    <3> QED BY <3>1, <3>2, Zenon
  <2> QED BY <2>1, <2>2
<1>4. \A x : ~ Has(<<>>, x)
  BY DEF Has
<1>5. ASSUME NEW m \in Queues, NEW x
      PROVE  Has(Emptied(f)[m], x) <=> Has(queue[m], x) /\ ~ BlockedIn(f, x)
  <2>1. CASE m \in {blocked_cons[f], blocked_prod[f]}
    BY <1>2, <1>4, <2>1 DEF BlockedIn
  <2>2. CASE m \notin {blocked_cons[f], blocked_prod[f]}
    <3>1. Has(queue[m], x) => ~ BlockedIn(f, x)
      BY <1>1, <2>2, OwnQueues DEF BlockedIn, DisjointIn
    <3> QED BY <1>2, <2>2, <3>1
  <2> QED BY <2>1, <2>2
<1>6. NoRepeat(<<>>)
  BY DEF NoRepeat
<1>7. DisjointIn(Emptied(f))
  <2>1. \A m \in Queues : NoRepeat(Emptied(f)[m])
    BY <1>1, <1>2, <1>6 DEF DisjointIn
  <2>2. ASSUME NEW m \in Queues, NEW l \in Queues, NEW x,
               Has(Emptied(f)[m], x), Has(Emptied(f)[l], x)
        PROVE  m = l
    BY <1>1, <1>5, <2>2 DEF DisjointIn
  <2> QED BY <2>1, <2>2 DEF DisjointIn
<1> QED BY <1>3, <1>5, <1>7

(* preset and pdelete: everybody blocked on the queue is made ready.       *)
LEMMA FreeBlockedFacts ==
  ASSUME ProcInv, Running, NEW f \in Fids, FreeBlocked(f)
  PROVE  /\ ProcInv'
         /\ \A x \in Procs : Alive(x)' <=> Alive(x)
         /\ \A m \in Queues : \A x :
               Has(queue'[m], x) <=> \/ Has(queue[m], x) /\ ~ BlockedIn(f, x)
                                     \/ m = "activatable" /\ BlockedIn(f, x)
         /\ \A x \in Procs :
               /\ state'[x] = IF BlockedIn(f, x) THEN "ACTIVATABLE" ELSE state[x]
               /\ status'[x] = IF BlockedIn(f, x) THEN "ERROR" ELSE status[x]
         /\ blocked_head' = blocked_head
<1> DEFINE list == BlockedOf(f)
           g == Emptied(f)
<1>1. /\ list \in Seq(Procs) /\ NoRepeat(list)
      /\ \A x : x \in Range(list) <=> BlockedIn(f, x)
  BY BlockedOfFacts
<1>2. /\ g \in [Queues -> Seq(Procs)] /\ DisjointIn(g)
      /\ \A m \in Queues : \A x : Has(g[m], x) <=> Has(queue[m], x) /\ ~ BlockedIn(f, x)
  BY EmptiedFacts
<1>3. /\ queue' = LinkEach(g, "activatable", list, prio)
      /\ state' = [x \in Procs |-> IF x \in Range(list) THEN "ACTIVATABLE" ELSE state[x]]
      /\ status' = [x \in Procs |-> IF x \in Range(list) THEN "ERROR" ELSE status[x]]
      /\ phase' = "awake" /\ blocked_head' = blocked_head
      /\ UNCHANGED <<prio, wake, current, clock, halt, lifeVars>>
  BY DEF FreeBlocked, CallScheduler, Told
<1> HIDE DEF list, g
<1>4. \A x \in Procs : BlockedIn(f, x) => state[x] = "BLOCKEDQUEUE"
  BY OwnQueues DEF BlockedIn, ProcInv, LinksFit, MayBeIn, In, SchedulerQueues
<1>5. /\ state' \in [Procs -> States]
      /\ \A x \in Procs : state'[x] = IF BlockedIn(f, x) THEN "ACTIVATABLE" ELSE state[x]
      /\ \A x \in Procs : status'[x] = IF BlockedIn(f, x) THEN "ERROR" ELSE status[x]
  BY <1>1, <1>3, ProcFacts DEF States
<1>6. /\ queue' \in [Queues -> Seq(Procs)] /\ DisjointIn(queue')
      /\ \A m \in Queues : \A x :
            Has(queue'[m], x) <=> \/ Has(queue[m], x) /\ ~ BlockedIn(f, x)
                                  \/ m = "activatable" /\ BlockedIn(f, x)
  <2>1. \A i \in DOMAIN list : BlockedIn(f, list[i])
    <3>1. \A i \in DOMAIN list : list[i] \in Range(list)
      BY DEF Range
    <3> QED BY <1>1, <3>1
  <2>2. \A m \in Queues : \A i \in DOMAIN list : ~ Has(g[m], list[i])
    BY <1>2, <2>1
  <2>3. prio \in [Procs -> Int]
    BY ProcFacts
  <2>4. LET h == LinkEach(g, "activatable", list, prio) IN
        /\ h \in [Queues -> Seq(Procs)] /\ DisjointIn(h)
        /\ \A m \in Queues : \A x :
              Has(h[m], x) <=> Has(g[m], x) \/ (m = "activatable" /\ x \in Range(list))
    BY <1>1, <1>2, <2>2, <2>3, LinkEachFacts
  <2> QED BY <1>1, <1>2, <1>3, <2>4
<1>7. ProcInv'
  <2>1. \A x \in Procs : state'[x] = state[x] \/ (state[x] \in Present /\ state'[x] \in Present)
    BY <1>4, <1>5 DEF Present
  <2>2. \A x \in Procs : state'[x] = "ACTIF" => state[x] = "ACTIF"
    BY <1>5
  <2>3. ~ BlockedIn(f, Idle) /\ state'[Idle] = state[Idle]
    BY <1>4, <1>5, ProcFacts DEF ProcInv, HartFits
  <2>4. ASSUME NEW x \in Procs, NEW m \in Queues, Has(queue'[m], x) PROVE MayBeIn(x, m)'
    <3>1. CASE BlockedIn(f, x)
      BY <1>5, <1>6, <2>4, <3>1 DEF MayBeIn
    <3>2. CASE ~ BlockedIn(f, x)
      <4>1. MayBeIn(x, m)
        BY <1>6, <2>4, <3>2 DEF ProcInv, LinksFit, In
      <4> QED BY <1>3, <1>5, <3>2, <4>1 DEF MayBeIn
    <3> QED BY <3>1, <3>2
  <2>5. ASSUME NEW x \in Procs, state'[x] = "BLOCKEDQUEUE"
        PROVE  blocked_head'[x] \notin {"activatable", "asleep", "dead"}
    BY <1>3, <1>5, <2>5 DEF ProcInv, LinksFit
  <2>6. Has(queue["activatable"], Idle) => Has(queue'["activatable"], Idle)
    BY <1>6, <2>3, SchedulerQueuesExist
  <2>7. blocked_head' \in [Procs -> Queues]
    BY <1>3 DEF ProcInv, SchedTypeOK
  <2>8. halt' \in Halts
    BY <1>3 DEF ProcInv, SchedTypeOK
  <2> QED BY <1>3, <1>5, <1>6, <2>1, <2>2, <2>3, <2>4, <2>5, <2>6, <2>7, <2>8, MovesKeep
<1>8. \A x \in Procs : Alive(x)' <=> Alive(x)
  BY <1>4, <1>5 DEF Alive
<1> QED BY <1>3, <1>5, <1>6, <1>7, <1>8

-----------------------------------------------------------------------------
(* The process that makes a call.                                          *)
LEMMA Caller ==
  ASSUME MsgInv, NEW name, MsgAsked(name)
  PROVE  /\ Running /\ current \in Procs /\ current # Idle
         /\ name \in MsgCalls[current] /\ pending[current] = Nothing
         /\ \A m \in Queues : ~ Has(queue[m], current)
<1>1. Running /\ name \in MsgCalls[current] /\ MsgInUser
  BY DEF MsgAsked
<1>2. current \in Procs /\ \A m \in Queues : ~ Has(queue[m], current)
  BY <1>1, OnTheHart DEF MsgInv
<1>3. current # Idle
  BY <1>1, MsgQueueAssumption
<1> QED BY <1>1, <1>2, <1>3 DEF MsgInUser, Running

(* The parts of the invariant, when a step wakes some and blocks nobody.   *)
LEMMA PendingKept ==
  ASSUME PendingFits, pending' = pending,
         \A p \in Procs : Alive(p)' <=> Alive(p),
         \A p \in Procs, n \in Foreign : Has(queue'[n], p) => Has(queue[n], p)
  PROVE  PendingFits'
<1>1. \A p \in Procs : ~ Alive(p)' => pending'[p] = Nothing
  BY DEF PendingFits
<1> SUFFICES ASSUME NEW p \in Procs, NEW f \in Fids
             PROVE  /\ pending'[p] = <<"psend", f>> => "psend" \in MsgCalls[p]
                    /\ Has(queue'[blocked_cons[f]], p) => pending'[p] = <<"preceive", f>>
                    /\ Has(queue'[blocked_prod[f]], p) => pending'[p] = <<"psend", f>>
  BY <1>1 DEF PendingFits, In
<1>2. /\ Has(queue'[blocked_cons[f]], p) => Has(queue[blocked_cons[f]], p)
      /\ Has(queue'[blocked_prod[f]], p) => Has(queue[blocked_prod[f]], p)
  BY OwnQueues
<1> QED BY <1>2 DEF PendingFits, In

LEMMA ParkedKept ==
  ASSUME Parked, blocked_head' = blocked_head,
         \A p \in Procs : state'[p] = "BLOCKEDQUEUE" /\ "psend" \notin MsgCalls[p]
            => /\ state[p] = "BLOCKEDQUEUE"
               /\ \A n \in Foreign : Has(queue[n], p) => Has(queue'[n], p)
  PROVE  Parked'
BY DEF Parked, In

LEMMA StatusKept ==
  ASSUME StatusFits, pending' = pending,
         \A p \in Procs :
            \/ /\ status'[p] = status[p]
               /\ \A n \in Foreign : Has(queue[n], p) => Has(queue'[n], p)
            \/ status'[p] = "ERROR"
            \/ status'[p] = "RECEIVED" /\ \E f \in Fids : pending[p] = <<"preceive", f>>
            \/ status'[p] = "SENT" /\ \E f \in Fids : pending[p] = <<"psend", f>>
  PROVE  StatusFits'
<1> SUFFICES ASSUME NEW p \in Procs, NEW f \in Fids
             PROVE  /\ pending[p] = <<"psend", f>> /\ ~ Has(queue'[blocked_prod[f]], p)
                         => status'[p] # "RECEIVED"
                    /\ pending[p] = <<"preceive", f>> /\ ~ Has(queue'[blocked_cons[f]], p)
                         => status'[p] # "SENT"
  BY DEF StatusFits, In
<1>1. CASE /\ status'[p] = status[p]
           /\ \A n \in Foreign : Has(queue[n], p) => Has(queue'[n], p)
  BY <1>1, OwnQueues DEF StatusFits, In
<1>2. CASE status'[p] # status[p] \/ status'[p] = "ERROR"
  BY <1>2
<1> QED BY <1>1, <1>2

(* A call that moves nobody and touches the ring of f only.                *)
LEMMA RingCall ==
  ASSUME MsgInv, UNCHANGED <<vars, pending, status>>, MsgTypeOK', NEW f \in Fids, RingFits(f)',
         \A g \in Fids : g # f =>
            slot'[g] = slot[g] /\ size'[g] = size[g] /\ number_of_msgs'[g] = number_of_msgs[g]
  PROVE  MsgInv'
<1>1. ProcInv'
  BY ProcNextKeeps DEF MsgInv
<1>2. UNCHANGED <<state, blocked_head, queue>>
  BY DEF vars, schedVars
<1>3. PendingFits' /\ Parked' /\ StatusFits'
  BY <1>2 DEF MsgInv, PendingFits, Parked, StatusFits, Alive, In
<1>4. RingsFit'
  BY <1>2 DEF MsgInv, RingsFit, RingFits, Empty, Full, NoConsumer, NoProducer
<1> QED BY <1>1, <1>3, <1>4 DEF MsgInv

(* pcreate.                                                                *)
LEMMA PcreateKeeps ==
  ASSUME MsgInv, NEW f \in Fids, (\E n \in Sizes : Pcreate(f, n)) \/ PcreateHuge(f)
  PROVE  MsgInv'
<1>1. UNCHANGED <<vars, messageVars>> /\ slot[f] = "free"
  BY DEF Pcreate, PcreateHuge
<1>2. \A n \in Sizes : n \in Nat /\ Ring(n) \in [0 .. n - 1 -> Msgs \cup {NoMsg}]
  BY MsgQueueAssumption DEF Ring
<1>3. MsgTypeOK'
  <2>1. ASSUME NEW n \in Sizes, Pcreate(f, n) PROVE MsgTypeOK'
    <3>1. /\ slot' \in [Fids -> {"free", "half", "ready"}] /\ DOMAIN msg_arr' = Fids
          /\ size' \in [Fids -> Nat] /\ iffc' \in [Fids -> Nat] /\ number_of_msgs' \in [Fids -> Nat]
      BY <1>2, <2>1 DEF MsgInv, MsgTypeOK, Pcreate
    <3>2. \A g \in Fids :
             /\ msg_arr'[g] = IF g = f THEN Ring(n) ELSE msg_arr[g]
             /\ size'[g] = IF g = f THEN n ELSE size[g]
             /\ iffc'[g] = IF g = f THEN 0 ELSE iffc[g]
             /\ number_of_msgs'[g] = IF g = f THEN 0 ELSE number_of_msgs[g]
      BY <2>1 DEF MsgInv, MsgTypeOK, Pcreate
    <3>3. \A g \in Fids :
             /\ msg_arr'[g] \in [0 .. size'[g] - 1 -> Msgs \cup {NoMsg}]
             /\ number_of_msgs'[g] \in 0 .. size'[g]
             /\ iffc'[g] \in 0 .. size'[g] /\ (iffc'[g] = 0 \/ iffc'[g] < size'[g])
      BY <1>2, <3>2 DEF MsgInv, MsgTypeOK
    <3> QED BY <1>1, <3>1, <3>3 DEF MsgInv, MsgTypeOK, messageVars
  <2>2. CASE PcreateHuge(f)
    BY <2>2 DEF MsgInv, MsgTypeOK, PcreateHuge, messageVars
  <2> QED BY <2>1, <2>2
<1>4. NoProducer(f) /\ UNCHANGED queue
  BY <1>1 DEF MsgInv, RingsFit, RingFits, vars, schedVars
<1>5. Empty(f)' \/ UNCHANGED <<size, number_of_msgs>>
  BY DEF MsgInv, MsgTypeOK, Pcreate, PcreateHuge, Empty
<1>6. RingFits(f)'
  BY <1>4, <1>5 DEF MsgInv, RingsFit, RingFits, Empty, NoConsumer, NoProducer
<1>7. \A g \in Fids : g # f =>
         slot'[g] = slot[g] /\ size'[g] = size[g] /\ number_of_msgs'[g] = number_of_msgs[g]
  BY DEF MsgInv, MsgTypeOK, Pcreate, PcreateHuge
<1> QED BY <1>1, <1>3, <1>6, <1>7, RingCall DEF messageVars

(* psend that finds room.                                                  *)
LEMMA PsendPutKeeps ==
  ASSUME MsgInv, NEW f \in Fids, NEW m \in Msgs, PsendPut(f, m)
  PROVE  MsgInv'
<1> DEFINE n == size[f]
           k == number_of_msgs[f]
           i == iffc[f]
<1>1. /\ n \in Nat /\ k \in 0 .. n /\ k # n /\ i \in Nat /\ (i = 0 \/ i < n)
  BY DEF MsgInv, MsgTypeOK, PsendPut, Full
<1>2. /\ UNCHANGED <<vars, slot, size, messageVars>>
      /\ msg_arr' = [msg_arr EXCEPT ![f][i] = m]
      /\ iffc' = [iffc EXCEPT ![f] = (i + 1) % n]
      /\ number_of_msgs' = [number_of_msgs EXCEPT ![f] = k + 1]
  BY DEF PsendPut, Stored, NextFree
<1> HIDE DEF n, k, i
<1>3. n \in Nat \ {0} /\ k + 1 \in 0 .. n /\ i \in 0 .. n - 1 /\ i + 1 \in Int
  BY <1>1
<1>4. (i + 1) % n \in 0 .. n - 1
  BY <1>3, RemainderFits
<1> DEFINE j == (i + 1) % n
<1> HIDE DEF j
<1>5. j \in 0 .. n /\ j < n /\ j \in Nat
  BY <1>3, <1>4 DEF j
<1>6. MsgTypeOK'
  <2>1. [msg_arr[f] EXCEPT ![i] = m] \in [0 .. n - 1 -> Msgs \cup {NoMsg}]
    BY <1>3 DEF MsgInv, MsgTypeOK, n
  <2>2. \A g \in Fids :
           /\ msg_arr'[g] = IF g = f THEN [msg_arr[f] EXCEPT ![i] = m] ELSE msg_arr[g]
           /\ iffc'[g] = IF g = f THEN j ELSE iffc[g]
           /\ number_of_msgs'[g] = IF g = f THEN k + 1 ELSE number_of_msgs[g]
           /\ size'[g] = size[g]
    BY <1>2 DEF MsgInv, MsgTypeOK, j
  <2>3. \A g \in Fids :
           /\ msg_arr'[g] \in [0 .. size'[g] - 1 -> Msgs \cup {NoMsg}]
           /\ number_of_msgs'[g] \in 0 .. size'[g]
           /\ iffc'[g] \in 0 .. size'[g] /\ (iffc'[g] = 0 \/ iffc'[g] < size'[g])
    BY <1>3, <1>5, <2>1, <2>2 DEF MsgInv, MsgTypeOK, n
  <2>4. DOMAIN msg_arr' = Fids
    BY <1>2 DEF MsgInv, MsgTypeOK
  <2>5. iffc' \in [Fids -> Nat] /\ number_of_msgs' \in [Fids -> Nat]
    <3>1. k + 1 \in Nat
      BY <1>3
    <3> QED BY <1>2, <1>5, <3>1 DEF MsgInv, MsgTypeOK, j
  <2> QED BY <1>2, <2>3, <2>4, <2>5 DEF MsgInv, MsgTypeOK, messageVars
<1>7. NoConsumer(f) /\ NoProducer(f) /\ UNCHANGED queue
  BY <1>2 DEF PsendPut, MsgInv, RingsFit, RingFits, vars, schedVars
<1>8. RingFits(f)'
  BY <1>7 DEF RingFits, NoConsumer, NoProducer
<1>9. \A g \in Fids : g # f =>
         slot'[g] = slot[g] /\ size'[g] = size[g] /\ number_of_msgs'[g] = number_of_msgs[g]
  BY <1>2 DEF MsgInv, MsgTypeOK
<1> QED BY <1>2, <1>6, <1>8, <1>9, RingCall DEF messageVars

(* What a process reads from a queue is a message.                         *)
LEMMA GotFits ==
  ASSUME MsgInv, NEW f \in Fids, current \in Procs, NEW m \in Msgs \cup {NoMsg},
         got' = [got EXCEPT ![f][current] = m]
  PROVE  got' \in [Fids -> [Procs -> Msgs \cup {NoMsg}]]
BY DEF MsgInv, MsgTypeOK

LEMMA OldestFits ==
  ASSUME MsgInv, NEW f \in Fids, ~ Empty(f)
  PROVE  /\ msg_arr[f][Oldest(f)] \in Msgs \cup {NoMsg}
         /\ size[f] \in Nat \ {0} /\ number_of_msgs[f] - 1 \in 0 .. size[f]
<1> DEFINE n == size[f]
           k == number_of_msgs[f]
           i == iffc[f]
<1>1. n \in Nat /\ k \in 0 .. n /\ k # 0 /\ i \in Nat
  BY DEF MsgInv, MsgTypeOK, Empty
<1>2. Oldest(f) = (i - k) % n /\ msg_arr[f] \in [0 .. n - 1 -> Msgs \cup {NoMsg}]
  BY DEF Oldest, MsgInv, MsgTypeOK
<1> HIDE DEF n, k, i
<1>3. n \in Nat \ {0} /\ k - 1 \in 0 .. n /\ i - k \in Int
  BY <1>1
<1>4. (i - k) % n \in 0 .. n - 1
  BY <1>3, RemainderFits
<1>5. Oldest(f) \in 0 .. n - 1
  BY <1>2, <1>4
<1>6. msg_arr[f][Oldest(f)] \in Msgs \cup {NoMsg}
  BY <1>2, <1>5
<1> QED BY <1>3, <1>6 DEF n, k

(* preceive that finds a message.                                          *)
LEMMA PreceiveTakeKeeps ==
  ASSUME MsgInv, NEW f \in Fids, PreceiveTake(f)
  PROVE  MsgInv'
<1>1. /\ UNCHANGED <<vars, slot, size, msg_arr, iffc, value, status, pending>>
      /\ ~ Empty(f) /\ (~ Full(f) \/ NoProducer(f))
      /\ number_of_msgs' = [number_of_msgs EXCEPT ![f] = @ - 1]
      /\ got' = [got EXCEPT ![f][current] = msg_arr[f][Oldest(f)]]
      /\ current \in Procs
  BY Caller DEF PreceiveTake, MsgCalling
<1>2. got' \in [Fids -> [Procs -> Msgs \cup {NoMsg}]]
  BY <1>1, OldestFits, GotFits
<1>3. \A g \in Fids : number_of_msgs'[g] =
         IF g = f THEN number_of_msgs[f] - 1 ELSE number_of_msgs[g]
  BY <1>1 DEF MsgInv, MsgTypeOK
<1>4. MsgTypeOK'
  <2>1. \A g \in Fids : number_of_msgs'[g] \in 0 .. size[g]
    BY <1>1, <1>3, OldestFits DEF MsgInv, MsgTypeOK
  <2>2. number_of_msgs' \in [Fids -> Nat]
    <3>1. number_of_msgs[f] - 1 \in Nat
      BY <1>1, OldestFits
    <3> QED BY <1>1, <3>1 DEF MsgInv, MsgTypeOK
  <2> QED BY <1>1, <1>2, <2>1, <2>2 DEF MsgInv, MsgTypeOK
<1>5. NoConsumer(f) /\ NoProducer(f) /\ UNCHANGED queue
  BY <1>1 DEF MsgInv, RingsFit, RingFits, vars, schedVars
<1>6. RingFits(f)'
  BY <1>5 DEF RingFits, NoConsumer, NoProducer
<1> QED BY <1>1, <1>3, <1>4, <1>6, RingCall

-----------------------------------------------------------------------------
(* A call that blocks on the queue f, for whose lists that is right.       *)
LEMMA BlockKeepsMessages ==
  ASSUME MsgInv, NEW name \in {"psend", "preceive"}, MsgAsked(name), NEW f \in Fids,
         NEW n, n = IF name = "psend" THEN blocked_prod[f] ELSE blocked_cons[f],
         BlockOn(n), pending' = [pending EXCEPT ![current] = <<name, f>>],
         UNCHANGED <<ringVars, status>>, MsgTypeOK',
         name = "psend" => NoConsumer(f) /\ Full(f) /\ slot[f] = "ready",
         name = "preceive" => Empty(f) /\ NoProducer(f)
  PROVE  MsgInv'
<1>1. /\ Running /\ current \in Procs /\ current # Idle /\ name \in MsgCalls[current]
      /\ n \in Foreign /\ n \in Queues
  BY Caller, OwnQueues
<1>2. /\ ProcInv'
      /\ \A x \in Procs : Alive(x)' <=> Alive(x)
      /\ \A m \in Queues : ~ Has(queue[m], current)
      /\ \A m \in Queues : \A x :
            Has(queue'[m], x) <=> Has(queue[m], x) \/ (m = n /\ x = current)
      /\ \A x \in Procs : x # current =>
            state'[x] = state[x] /\ blocked_head'[x] = blocked_head[x]
      /\ state'[current] = "BLOCKEDQUEUE" /\ blocked_head'[current] = n
  BY <1>1, BlockOnFacts DEF MsgInv
<1>3. \A x \in Procs : pending'[x] = IF x = current THEN <<name, f>> ELSE pending[x]
  BY DEF MsgInv, MsgTypeOK
<1>4. \A m \in Queues :
         /\ Has(queue'[m], current) <=> m = n
         /\ \A x \in Procs : x # current => (Has(queue'[m], x) <=> Has(queue[m], x))
  BY <1>2
<1>5. PendingFits'
  <2>1. \A x \in Procs : ~ Alive(x)' => pending'[x] = Nothing
    <3>1. \A x \in Procs : x = current => Alive(x)'
      BY <1>2 DEF Alive
    <3> QED BY <1>2, <1>3, <3>1 DEF MsgInv, PendingFits
  <2>2. ASSUME NEW x \in Procs, NEW g \in Fids
        PROVE  /\ pending'[x] = <<"psend", g>> => "psend" \in MsgCalls[x]
               /\ Has(queue'[blocked_cons[g]], x) => pending'[x] = <<"preceive", g>>
               /\ Has(queue'[blocked_prod[g]], x) => pending'[x] = <<"psend", g>>
    <3>1. CASE x = current
      <4>1. /\ blocked_cons[g] = n => name = "preceive" /\ g = f
            /\ blocked_prod[g] = n => name = "psend" /\ g = f
        BY OwnQueues
      <4> QED BY <1>1, <1>3, <1>4, <3>1, <4>1, OwnQueues
    <3>2. CASE x # current
      <4>1. /\ pending[x] = <<"psend", g>> => "psend" \in MsgCalls[x]
            /\ Has(queue[blocked_cons[g]], x) => pending[x] = <<"preceive", g>>
            /\ Has(queue[blocked_prod[g]], x) => pending[x] = <<"psend", g>>
        BY DEF MsgInv, PendingFits, In
      <4> QED BY <1>3, <1>4, <3>2, <4>1, OwnQueues
    <3> QED BY <3>1, <3>2
  <2> QED BY <2>1, <2>2 DEF PendingFits, In
<1>6. Parked'
  <2> SUFFICES ASSUME NEW x \in Procs, state'[x] = "BLOCKEDQUEUE", "psend" \notin MsgCalls[x]
               PROVE  Has(queue'[blocked_head'[x]], x) /\ blocked_head'[x] \in Foreign
    BY DEF Parked, In
  <2>1. CASE x = current
    BY <1>1, <1>2, <1>4, <2>1
  <2>2. CASE x # current
    <3>1. Has(queue[blocked_head[x]], x) /\ blocked_head[x] \in Foreign
      BY <1>2, <2>2 DEF MsgInv, Parked, In
    <3> QED BY <1>2, <1>4, <2>2, <3>1 DEF Foreign
  <2> QED BY <2>1, <2>2
<1>7. StatusFits'
  <2> SUFFICES ASSUME NEW x \in Procs, NEW g \in Fids
               PROVE  /\ pending'[x] = <<"psend", g>> /\ ~ Has(queue'[blocked_prod[g]], x)
                           => status[x] # "RECEIVED"
                      /\ pending'[x] = <<"preceive", g>> /\ ~ Has(queue'[blocked_cons[g]], x)
                           => status[x] # "SENT"
    BY DEF StatusFits, In
  <2>1. CASE x = current
    <3>1. /\ pending'[x] = <<"psend", g>> => name = "psend" /\ g = f
          /\ pending'[x] = <<"preceive", g>> => name = "preceive" /\ g = f
      BY <1>3, <2>1
    <3> QED BY <1>1, <1>4, <2>1, <3>1
  <2>2. CASE x # current
    <3>1. /\ pending[x] = <<"psend", g>> /\ ~ Has(queue[blocked_prod[g]], x)
               => status[x] # "RECEIVED"
          /\ pending[x] = <<"preceive", g>> /\ ~ Has(queue[blocked_cons[g]], x)
               => status[x] # "SENT"
      BY DEF MsgInv, StatusFits, In
    <3> QED BY <1>3, <1>4, <2>2, <3>1, OwnQueues
  <2> QED BY <2>1, <2>2
<1>8. RingsFit'
  <2> SUFFICES ASSUME NEW g \in Fids PROVE RingFits(g)'
    BY DEF RingsFit
  <2>1. /\ queue[blocked_cons[g]] \in Seq(Procs) /\ queue[blocked_prod[g]] \in Seq(Procs)
        /\ queue'[blocked_cons[g]] \in Seq(Procs) /\ queue'[blocked_prod[g]] \in Seq(Procs)
    BY <1>2, OwnQueues DEF MsgInv, ProcInv, SchedTypeOK
  <2>2. /\ NoConsumer(g) /\ blocked_cons[g] # n => NoConsumer(g)'
        /\ NoProducer(g) /\ blocked_prod[g] # n => NoProducer(g)'
    BY <1>2, <2>1, OwnQueues, EmptyIff DEF NoConsumer, NoProducer
  <2>3. UNCHANGED <<slot, size, number_of_msgs>>
    BY DEF ringVars
  <2>4. CASE g = f
    <3>1. CASE name = "psend"
      <4>1. NoConsumer(g)'
        BY <2>2, <2>4, <3>1, OwnQueues
      <4> QED BY <2>3, <2>4, <3>1, <4>1 DEF RingFits, Full
    <3>2. CASE name = "preceive"
      <4>1. NoProducer(g)'
        BY <2>2, <2>4, <3>2, OwnQueues
      <4> QED BY <2>3, <2>4, <3>2, <4>1 DEF RingFits, Empty
    <3> QED BY <3>1, <3>2
  <2>5. CASE g # f
    <3>1. (NoConsumer(g) => NoConsumer(g)') /\ (NoProducer(g) => NoProducer(g)')
      BY <2>2, <2>5, OwnQueues
    <3> QED BY <2>3, <3>1 DEF MsgInv, RingsFit, RingFits, Empty, Full
  <2> QED BY <2>4, <2>5
<1> QED BY <1>2, <1>5, <1>6, <1>7, <1>8 DEF MsgInv

LEMMA PsendBlockKeeps ==
  ASSUME MsgInv, NEW f \in Fids, NEW m \in Msgs, PsendBlock(f, m)
  PROVE  MsgInv'
<1>1. /\ MsgAsked("psend") /\ slot[f] = "ready" /\ Full(f) /\ ~ (Empty(f) /\ ~ NoConsumer(f))
      /\ BlockOn(blocked_prod[f]) /\ pending' = [pending EXCEPT ![current] = <<"psend", f>>]
      /\ UNCHANGED <<ringVars, status, got>>
      /\ value' = [value EXCEPT ![current] = m]
  BY DEF PsendBlock, MsgCalling
<1>2. <<"psend", f>> \in {"psend", "preceive"} \X Fids
  OBVIOUS
<1>3. MsgTypeOK'
  <2>1. pending' \in [Procs -> {Nothing} \cup ({"psend", "preceive"} \X Fids)]
    BY <1>1, <1>2 DEF MsgInv, MsgTypeOK
  <2> QED BY <1>1, <2>1 DEF MsgInv, MsgTypeOK, ringVars
<1>4. NoConsumer(f)
  BY <1>1 DEF MsgInv, RingsFit, RingFits
<1> QED BY <1>1, <1>3, <1>4, BlockKeepsMessages

LEMMA PreceiveBlockKeeps ==
  ASSUME MsgInv, NEW f \in Fids, PreceiveBlock(f)
  PROVE  MsgInv'
<1>1. /\ MsgAsked("preceive") /\ Empty(f) /\ NoProducer(f)
      /\ BlockOn(blocked_cons[f]) /\ pending' = [pending EXCEPT ![current] = <<"preceive", f>>]
      /\ UNCHANGED <<ringVars, value, status, got>>
  BY DEF PreceiveBlock, MsgCalling
<1>2. <<"preceive", f>> \in {"psend", "preceive"} \X Fids
  OBVIOUS
<1>3. MsgTypeOK'
  <2>1. pending' \in [Procs -> {Nothing} \cup ({"psend", "preceive"} \X Fids)]
    BY <1>1, <1>2 DEF MsgInv, MsgTypeOK
  <2> QED BY <1>1, <2>1 DEF MsgInv, MsgTypeOK, ringVars
<1> QED BY <1>1, <1>3, BlockKeepsMessages

(* A call that wakes the first of those blocked on the queue named n, with *)
(* a status of the call that process has made.                             *)
LEMMA WakeKeepsMessages ==
  ASSUME MsgInv, Running, NEW f \in Fids, NEW n \in {blocked_cons[f], blocked_prod[f]},
         queue[n] # <<>>, NEW st \in {"ACTIVATABLE", "BLOCKEDQUEUE"}, Wakes(n, st),
         st = "BLOCKEDQUEUE" => n = blocked_prod[f],
         status' = [status EXCEPT ![QueueTop(queue[n])] =
                      IF n = blocked_prod[f] THEN "SENT" ELSE "RECEIVED"],
         UNCHANGED <<slot, size, number_of_msgs, pending>>,
         MsgTypeOK'
  PROVE  MsgInv'
<1> DEFINE t == QueueTop(queue[n])
<1>1. n \in Foreign /\ n \in Queues
  BY OwnQueues
<1>2. /\ ProcInv'
      /\ \A x \in Procs : Alive(x)' <=> Alive(x)
      /\ t \in Procs /\ Has(queue[n], t)
      /\ \A m \in Queues : \A x :
            Has(queue'[m], x) <=> (Has(queue[m], x) /\ x # t) \/ (m = "activatable" /\ x = t)
      /\ \A x \in Procs : x # t => state'[x] = state[x]
      /\ state'[t] = st
      /\ blocked_head' = blocked_head
  BY <1>1, WakesFacts DEF MsgInv
<1>3. status' = [status EXCEPT ![t] = IF n = blocked_prod[f] THEN "SENT" ELSE "RECEIVED"]
  OBVIOUS
<1> HIDE DEF t
<1>4. \A m \in Foreign : m \in Queues /\ m # "activatable"
  BY DEF Foreign, SchedulerQueues
<1>5. \A m \in Foreign : \A x \in Procs : Has(queue'[m], x) <=> Has(queue[m], x) /\ x # t
  BY <1>2, <1>4
<1>6. /\ n = blocked_prod[f] => pending[t] = <<"psend", f>> /\ "psend" \in MsgCalls[t]
      /\ n = blocked_cons[f] => pending[t] = <<"preceive", f>>
  BY <1>2 DEF MsgInv, PendingFits, In
<1>7. PendingFits'
  BY <1>2, <1>5, PendingKept DEF MsgInv
<1>8. Parked'
  <2>1. ASSUME NEW x \in Procs, state'[x] = "BLOCKEDQUEUE", "psend" \notin MsgCalls[x]
        PROVE  x # t
    BY <1>2, <1>6, <2>1
  <2>2. ASSUME NEW x \in Procs, state'[x] = "BLOCKEDQUEUE", "psend" \notin MsgCalls[x]
        PROVE  /\ state[x] = "BLOCKEDQUEUE"
               /\ \A m \in Foreign : Has(queue[m], x) => Has(queue'[m], x)
    BY <1>2, <1>5, <2>1, <2>2
  <2> QED BY <1>2, <2>2, ParkedKept DEF MsgInv
<1>9. StatusFits'
  <2>1. \A x \in Procs : status'[x] =
           IF x = t THEN IF n = blocked_prod[f] THEN "SENT" ELSE "RECEIVED" ELSE status[x]
    BY <1>3 DEF MsgInv, MsgTypeOK
  <2>2. \/ status'[t] = "RECEIVED" /\ pending[t] = <<"preceive", f>>
        \/ status'[t] = "SENT" /\ pending[t] = <<"psend", f>>
    BY <1>2, <1>6, <2>1
  <2>3. \A x \in Procs : x # t =>
           status'[x] = status[x] /\ \A m \in Foreign : Has(queue[m], x) => Has(queue'[m], x)
    BY <1>5, <2>1
  <2> QED BY <2>2, <2>3, StatusKept DEF MsgInv
<1>10. RingsFit'
  BY <1>2, <1>5, RingsKept DEF MsgInv
<1> QED BY <1>2, <1>7, <1>8, <1>9, <1>10 DEF MsgInv

LEMMA PsendHandKeeps ==
  ASSUME MsgInv, NEW f \in Fids, NEW m \in Msgs, PsendHand(f, m)
  PROVE  MsgInv'
<1> DEFINE n == blocked_cons[f]
           t == QueueTop(queue[n])
<1>1. /\ Running /\ queue[n] # <<>> /\ Wakes(n, "ACTIVATABLE")
      /\ value' = [value EXCEPT ![t] = m] /\ status' = [status EXCEPT ![t] = "RECEIVED"]
      /\ UNCHANGED <<ringVars, pending, got>>
  BY DEF PsendHand, MsgCalling, MsgAsked, NoConsumer
<1>2. t \in Procs /\ n # blocked_prod[f]
  BY <1>1, OwnQueues, WakesFacts DEF MsgInv
<1>3. MsgTypeOK'
  BY <1>1, <1>2 DEF MsgInv, MsgTypeOK, ringVars
<1> QED BY <1>1, <1>2, <1>3, WakeKeepsMessages DEF ringVars

LEMMA PreceiveDirectKeeps ==
  ASSUME MsgInv, NEW f \in Fids, PreceiveDirect(f)
  PROVE  MsgInv'
<1> DEFINE n == blocked_prod[f]
           t == QueueTop(queue[n])
<1>1. /\ Running /\ queue[n] # <<>> /\ Wakes(n, "BLOCKEDQUEUE")
      /\ status' = [status EXCEPT ![t] = "SENT"]
      /\ got' = [got EXCEPT ![f][current] = value[t]]
      /\ UNCHANGED <<ringVars, value, pending>>
  BY DEF PreceiveDirect, MsgCalling, MsgAsked, NoProducer
<1>2. t \in Procs /\ current \in Procs
  BY <1>1, OwnQueues, WakesFacts, OnTheHart DEF MsgInv
<1>3. got' \in [Fids -> [Procs -> Msgs \cup {NoMsg}]]
  <2>1. value[t] \in Msgs \cup {NoMsg}
    BY <1>2 DEF MsgInv, MsgTypeOK
  <2> QED BY <1>1, <1>2, <2>1, GotFits
<1>4. MsgTypeOK'
  BY <1>1, <1>2, <1>3 DEF MsgInv, MsgTypeOK, ringVars
<1> QED BY <1>1, <1>4, WakeKeepsMessages DEF ringVars

LEMMA PreceiveRefillKeeps ==
  ASSUME MsgInv, NEW f \in Fids, PreceiveRefill(f)
  PROVE  MsgInv'
<1> DEFINE n == blocked_prod[f]
           t == QueueTop(queue[n])
<1>1. /\ Running /\ queue[n] # <<>> /\ Wakes(n, "ACTIVATABLE") /\ ~ Empty(f)
      /\ status' = [status EXCEPT ![t] = "SENT"]
      /\ got' = [got EXCEPT ![f][current] = msg_arr[f][Oldest(f)]]
      /\ msg_arr' = [msg_arr EXCEPT ![f][iffc[f]] = value[t]]
      /\ iffc' = [iffc EXCEPT ![f] = (iffc[f] + 1) % size[f]]
      /\ UNCHANGED <<slot, size, number_of_msgs, value, pending>>
  BY DEF PreceiveRefill, MsgCalling, MsgAsked, NoProducer, Stored, NextFree
<1>2. t \in Procs /\ current \in Procs
  BY <1>1, OwnQueues, WakesFacts, OnTheHart DEF MsgInv
<1>3. got' \in [Fids -> [Procs -> Msgs \cup {NoMsg}]]
  BY <1>1, <1>2, OldestFits, GotFits
<1> DEFINE k == size[f]
           i == iffc[f]
           v == value[t]
           j == (i + 1) % k
<1>4. /\ v \in Msgs \cup {NoMsg} /\ k \in Nat \ {0} /\ i \in 0 .. k - 1 /\ i + 1 \in Int
  BY <1>1, <1>2, OldestFits DEF MsgInv, MsgTypeOK
<1>5. j \in 0 .. k - 1
  BY <1>4, RemainderFits
<1>6. j \in 0 .. k /\ j < k /\ j \in Nat
  <2> HIDE DEF j, k
  <2> QED BY <1>4, <1>5
<1>7. /\ msg_arr' = [msg_arr EXCEPT ![f][i] = v] /\ iffc' = [iffc EXCEPT ![f] = j]
      /\ status' \in [Procs -> {"RECEIVED", "ERROR", "SENT"}]
  BY <1>1, <1>2 DEF MsgInv, MsgTypeOK
<1> HIDE DEF j, v, t
<1>8. MsgTypeOK'
  <2>1. [msg_arr[f] EXCEPT ![i] = v] \in [0 .. k - 1 -> Msgs \cup {NoMsg}]
    BY <1>4 DEF MsgInv, MsgTypeOK
  <2>2. \A g \in Fids :
           /\ msg_arr'[g] = IF g = f THEN [msg_arr[f] EXCEPT ![i] = v] ELSE msg_arr[g]
           /\ iffc'[g] = IF g = f THEN j ELSE iffc[g]
    BY <1>7 DEF MsgInv, MsgTypeOK
  <2>3. \A g \in Fids :
           /\ msg_arr'[g] \in [0 .. size[g] - 1 -> Msgs \cup {NoMsg}]
           /\ iffc'[g] \in 0 .. size[g] /\ (iffc'[g] = 0 \/ iffc'[g] < size[g])
    BY <1>6, <2>1, <2>2 DEF MsgInv, MsgTypeOK
  <2>4. DOMAIN msg_arr' = Fids /\ iffc' \in [Fids -> Nat]
    BY <1>6, <1>7 DEF MsgInv, MsgTypeOK
  <2> QED BY <1>1, <1>3, <1>7, <2>3, <2>4 DEF MsgInv, MsgTypeOK
<1>9. status' = [status EXCEPT ![QueueTop(queue[n])] = "SENT"]
  BY <1>1 DEF t
<1> QED BY <1>1, <1>8, <1>9, WakeKeepsMessages

(* preset and pdelete.                                                     *)
LEMMA FreeBlockedKeeps ==
  ASSUME MsgInv, Running, NEW f \in Fids, FreeBlocked(f),
         slot' \in {slot, [slot EXCEPT ![f] = "free"]}
  PROVE  MsgInv'
<1>1. /\ ProcInv'
      /\ \A x \in Procs : Alive(x)' <=> Alive(x)
      /\ \A m \in Queues : \A x :
            Has(queue'[m], x) <=> \/ Has(queue[m], x) /\ ~ BlockedIn(f, x)
                                  \/ m = "activatable" /\ BlockedIn(f, x)
      /\ \A x \in Procs :
            /\ state'[x] = IF BlockedIn(f, x) THEN "ACTIVATABLE" ELSE state[x]
            /\ status'[x] = IF BlockedIn(f, x) THEN "ERROR" ELSE status[x]
      /\ blocked_head' = blocked_head
  BY FreeBlockedFacts DEF MsgInv
<1>2. /\ number_of_msgs' = [number_of_msgs EXCEPT ![f] = 0] /\ iffc' = [iffc EXCEPT ![f] = 0]
      /\ UNCHANGED <<size, msg_arr, value, pending, got>>
      /\ status' = [x \in Procs |-> IF x \in Range(BlockedOf(f)) THEN "ERROR" ELSE status[x]]
  BY DEF FreeBlocked, Told
<1>3. MsgTypeOK'
  <2>1. status' \in [Procs -> {"RECEIVED", "ERROR", "SENT"}]
    BY <1>2 DEF MsgInv, MsgTypeOK
  <2>2. slot' \in [Fids -> {"free", "half", "ready"}]
    BY DEF MsgInv, MsgTypeOK
  <2>3. iffc' \in [Fids -> Nat] /\ number_of_msgs' \in [Fids -> Nat]
    BY <1>2 DEF MsgInv, MsgTypeOK
  <2>4. \A g \in Fids :
           /\ iffc'[g] = IF g = f THEN 0 ELSE iffc[g]
           /\ number_of_msgs'[g] = IF g = f THEN 0 ELSE number_of_msgs[g]
    BY <1>2 DEF MsgInv, MsgTypeOK
  <2>5. \A g \in Fids :
           /\ number_of_msgs'[g] \in 0 .. size[g]
           /\ iffc'[g] \in 0 .. size[g] /\ (iffc'[g] = 0 \/ iffc'[g] < size[g])
    BY <2>4 DEF MsgInv, MsgTypeOK
  <2> QED BY <1>2, <2>1, <2>2, <2>3, <2>5 DEF MsgInv, MsgTypeOK
<1>4. \A m \in Foreign : \A x \in Procs :
         Has(queue'[m], x) <=> Has(queue[m], x) /\ ~ BlockedIn(f, x)
  BY <1>1 DEF Foreign, SchedulerQueues
<1>5. PendingFits'
  BY <1>1, <1>2, <1>4, PendingKept DEF MsgInv
<1>6. Parked'
  BY <1>1, <1>4, ParkedKept DEF MsgInv
<1>7. StatusFits'
  <2>1. \A x \in Procs :
           \/ /\ status'[x] = status[x]
              /\ \A m \in Foreign : Has(queue[m], x) => Has(queue'[m], x)
           \/ status'[x] = "ERROR"
    BY <1>1, <1>4
  <2> QED BY <1>2, <2>1, StatusKept DEF MsgInv
<1>8. RingsFit'
  <2> SUFFICES ASSUME NEW g \in Fids PROVE RingFits(g)'
    BY DEF RingsFit
  <2>1. /\ queue[blocked_cons[g]] \in Seq(Procs) /\ queue[blocked_prod[g]] \in Seq(Procs)
        /\ queue'[blocked_cons[g]] \in Seq(Procs) /\ queue'[blocked_prod[g]] \in Seq(Procs)
    BY <1>1, OwnQueues DEF MsgInv, ProcInv, SchedTypeOK
  <2>2. CASE g = f
    <3>1. \A x : ~ Has(queue'[blocked_cons[g]], x) /\ ~ Has(queue'[blocked_prod[g]], x)
      BY <1>1, <2>2, OwnQueues DEF BlockedIn, SchedulerQueues
    <3>2. NoConsumer(g)' /\ NoProducer(g)'
      BY <2>1, <3>1, EmptyIff DEF NoConsumer, NoProducer
    <3> QED BY <3>2 DEF RingFits
  <2>3. CASE g # f
    <3>1. (NoConsumer(g) => NoConsumer(g)') /\ (NoProducer(g) => NoProducer(g)')
      BY <1>4, <2>1, OwnQueues, StaysEmpty DEF NoConsumer, NoProducer
    <3>2. /\ number_of_msgs'[g] = number_of_msgs[g] /\ slot'[g] = slot[g] /\ size' = size
      BY <1>2, <2>3 DEF MsgInv, MsgTypeOK
    <3> QED BY <3>1, <3>2 DEF MsgInv, RingsFit, RingFits, Empty, Full
  <2> QED BY <2>2, <2>3
<1> QED BY <1>1, <1>3, <1>5, <1>6, <1>7, <1>8 DEF MsgInv

(* The process is dispatched again and leaves its call.                    *)
LEMMA ReturnKeeps ==
  ASSUME MsgInv, NEW f \in Fids, PsendReturn(f) \/ PreceiveReturn(f)
  PROVE  MsgInv'
<1>1. /\ Running /\ UNCHANGED <<vars, ringVars, value, status>>
      /\ pending' = [pending EXCEPT ![current] = Nothing]
      /\ got' \in {got, [got EXCEPT ![f][current] = value[current]]}
  BY DEF PsendReturn, PreceiveReturn
<1>2. current \in Procs /\ \A m \in Queues : ~ Has(queue[m], current)
  BY <1>1, OnTheHart DEF MsgInv
<1>3. \A x \in Procs : pending'[x] = IF x = current THEN Nothing ELSE pending[x]
  BY <1>1 DEF MsgInv, MsgTypeOK
<1>4. UNCHANGED <<state, blocked_head, queue>>
  BY <1>1 DEF vars, schedVars
<1>5. MsgTypeOK'
  <2>1. pending' \in [Procs -> {Nothing} \cup ({"psend", "preceive"} \X Fids)]
    BY <1>1 DEF MsgInv, MsgTypeOK
  <2>2. got' \in [Fids -> [Procs -> Msgs \cup {NoMsg}]]
    BY <1>1, <1>2, GotFits DEF MsgInv, MsgTypeOK
  <2> QED BY <1>1, <2>1, <2>2 DEF MsgInv, MsgTypeOK, ringVars
<1>6. PendingFits'
  <2>1. \A x \in Procs : ~ Alive(x)' => pending'[x] = Nothing
    BY <1>3, <1>4 DEF MsgInv, PendingFits, Alive
  <2>2. ASSUME NEW x \in Procs, NEW g \in Fids
        PROVE  /\ pending'[x] = <<"psend", g>> => "psend" \in MsgCalls[x]
               /\ Has(queue'[blocked_cons[g]], x) => pending'[x] = <<"preceive", g>>
               /\ Has(queue'[blocked_prod[g]], x) => pending'[x] = <<"psend", g>>
    <3>1. CASE x = current
      BY <1>2, <1>3, <1>4, <3>1, CallIsSomething, OwnQueues
    <3>2. CASE x # current
      <4>1. pending'[x] = pending[x] /\ queue' = queue
        BY <1>3, <1>4, <3>2
      <4> QED BY <4>1 DEF MsgInv, PendingFits, In
    <3> QED BY <3>1, <3>2
  <2> QED BY <2>1, <2>2 DEF PendingFits, In
<1>7. Parked'
  BY <1>4 DEF MsgInv, Parked, In
<1>8. StatusFits'
  <2> SUFFICES ASSUME NEW x \in Procs, NEW g \in Fids, pending'[x] # Nothing
               PROVE  /\ pending'[x] = <<"psend", g>> /\ ~ Has(queue'[blocked_prod[g]], x)
                           => status'[x] # "RECEIVED"
                      /\ pending'[x] = <<"preceive", g>> /\ ~ Has(queue'[blocked_cons[g]], x)
                           => status'[x] # "SENT"
    BY CallIsSomething DEF StatusFits, In
  <2>1. pending'[x] = pending[x] /\ queue' = queue /\ status' = status
    BY <1>1, <1>3, <1>4
  <2> QED BY <2>1 DEF MsgInv, StatusFits, In
<1>9. RingsFit'
  BY <1>1, <1>4 DEF MsgInv, RingsFit, RingFits, Empty, Full, NoConsumer, NoProducer, ringVars
<1>10. ProcInv'
  BY <1>1, ProcNextKeeps DEF MsgInv
<1> QED BY <1>5, <1>6, <1>7, <1>8, <1>9, <1>10 DEF MsgInv

(* The invariant holds of every initial state, and every step keeps it.    *)
LEMMA MsgInitInv == MsgInit => MsgInv
<1> SUFFICES ASSUME MsgInit PROVE MsgInv
  OBVIOUS
<1>1. ProcInv
  BY ProcInitInv DEF MsgInit
<1>2. MsgTypeOK
  <2>1. Ring(0) \in [0 .. 0 - 1 -> Msgs \cup {NoMsg}]
    BY DEF Ring
  <2> QED BY <2>1 DEF MsgInit, MsgTypeOK
<1>3. \A p \in Procs : pending[p] = Nothing
  BY DEF MsgInit
<1>4. \A n \in Foreign : queue[n] = <<>>
  BY DEF MsgInit, ProcInit, SchedInit, Foreign, SchedulerQueues
<1>5. \A p \in Procs : state[p] # "BLOCKEDQUEUE"
  BY DEF MsgInit, ProcInit, SchedInit
<1>6. \A p \in Procs, n \in Foreign : ~ Has(queue[n], p)
  BY <1>4 DEF Has
<1>7. PendingFits /\ StatusFits
  BY <1>3, <1>6, CallIsSomething, OwnQueues DEF PendingFits, StatusFits, In
<1>8. Parked
  BY <1>5 DEF Parked
<1>9. RingsFit
  BY <1>4, OwnQueues DEF RingsFit, RingFits, NoConsumer, NoProducer
<1> QED BY <1>1, <1>2, <1>7, <1>8, <1>9 DEF MsgInv

LEMMA MsgNextKeeps ==
  ASSUME SendersKeepPrio, MsgInv, [MsgNext]_msgVars
  PROVE  MsgInv'
<1>1. CASE Next /\ Forget /\ UNCHANGED ringVars
  <2>1. ProcInv'
    BY <1>1, ProcNextKeeps DEF MsgInv
  <2> QED BY <1>1, <2>1, LifeKeepsMessages
<1>2. ASSUME NEW f \in Fids, Preset(f) \/ Pdelete(f) PROVE MsgInv'
  <2>1. /\ Running /\ FreeBlocked(f)
        /\ slot' \in {slot, [slot EXCEPT ![f] = "free"]}
    BY <1>2 DEF Preset, Pdelete, MsgCalling, MsgAsked
  <2> QED BY <2>1, FreeBlockedKeeps
<1>3. CASE MsgCall
  BY <1>2, <1>3, PcreateKeeps, PsendHandKeeps, PsendBlockKeeps, PsendPutKeeps,
     PreceiveDirectKeeps, PreceiveBlockKeeps, PreceiveRefillKeeps, PreceiveTakeKeeps
  DEF MsgCall
<1>4. CASE MsgReturn
  BY <1>4, ReturnKeeps DEF MsgReturn
<1>5. CASE UNCHANGED msgVars
  <2>1. UNCHANGED <<vars, ringVars, messageVars>>
    BY <1>5 DEF msgVars
  <2>2. MsgTypeOK'
    BY <2>1 DEF MsgInv, MsgTypeOK, ringVars, messageVars
  <2>3. PICK f \in Fids : TRUE
    BY MsgQueueAssumption
  <2>4. UNCHANGED <<queue, slot, size, number_of_msgs, pending, status>>
    BY <2>1 DEF vars, schedVars, ringVars, messageVars
  <2>5. RingFits(f)'
    BY <2>4 DEF MsgInv, RingsFit, RingFits, Empty, Full, NoConsumer, NoProducer
  <2> QED BY <2>1, <2>2, <2>4, <2>5, RingCall
<1> QED BY <1>1, <1>3, <1>4, <1>5 DEF MsgNext

(* Nobody is blocked on a queue without a reason to be, and nobody takes   *)
(* the status of an earlier call for that of this one, when chprio is not  *)
(* used on processes that send.                                            *)
THEOREM BlockedForAReasonHolds ==
  ASSUME SendersKeepPrio
  PROVE  MsgSpec => []BlockedForAReason
<1>1. MsgInv /\ [MsgNext]_msgVars => MsgInv'
  BY MsgNextKeeps
<1>2. MsgInv => BlockedForAReason
  BY DEF MsgInv, ProcInv, RingsFit, RingFits, StatusFits, BlockedForAReason
<1> QED BY <1>1, <1>2, MsgInitInv, PTL DEF MsgSpec

-----------------------------------------------------------------------------
(***************************************************************************)
(* Each queue is a channel: IsChannel as a theorem.  ChannelInv adds to    *)
(* MsgInv that a blocked producer has a message, and that a process that   *)
(* has left has been given none.                                           *)
(*                                                                         *)
(* First, that a step ends one process at most, as a channel loses the     *)
(* offer and the inbox of one process at a time.                           *)
(***************************************************************************)
Lives(x) == Alive(x) => Alive(x)'

OneEnds == \E p \in Procs : \A x \in Procs : x # p => Lives(x)

LEMMA NobodyEnds ==
  ASSUME \A x \in Procs : Lives(x)
  PROVE  OneEnds
BY ProcFacts, SchedulerAssumption DEF OneEnds

(* The scheduler and its calls end nobody.                                 *)
LEMMA SchedulerEndsNone ==
  ASSUME ProcInv,
         Interrupt \/ SchedulerCall \/ SchedulerStep \/ Abandon
  PROVE  \A x \in Procs : Lives(x)
<1> USE ProcFacts
<1>1. CASE Interrupt
  BY <1>1 DEF Interrupt, Tick, TickInKernel, TickCounted, procVars, Lives, Alive
<1>2. CASE SchedulerCall
  <2>1. ASSUME NEW ticks \in SleepTicks, WaitClock(ticks) PROVE \A x \in Procs : Lives(x)
    BY <2>1 DEF WaitClock, Lives, Alive
  <2>2. CASE SetTimeOfDay
    BY <2>2 DEF SetTimeOfDay, procVars, Lives, Alive
  <2>3. ASSUME NEW p \in PrioTargets, NEW newprio \in Prios, ChPrio(p, newprio)
        PROVE  \A x \in Procs : Lives(x)
    BY <2>3 DEF ChPrio, Lives, Alive
  <2> QED BY <1>2, <2>1, <2>2, <2>3 DEF SchedulerCall
<1>3. CASE AwakeOne \/ AwakeDone \/ Stay
  BY <1>3 DEF AwakeOne, AwakeDone, Stay, procVars, Lives, Alive
<1>4. CASE First \/ Leave \/ Abandon
  <2>1. state' = [state EXCEPT ![Top] = "ACTIF"]
    BY <1>4 DEF First, Leave, Abandon, Dispatch
  <2> QED BY <2>1 DEF Lives, Alive
<1>5. CASE Preempt
  <2>1. state' = [state EXCEPT ![current] = "ACTIVATABLE", ![Top] = "ACTIF"]
    BY <1>5 DEF Preempt, Dispatch
  <2> QED BY <2>1 DEF Lives, Alive
<1> QED BY <1>1, <1>2, <1>3, <1>4, <1>5 DEF SchedulerStep

(* The end of a process frees zombies besides.                             *)
LEMMA DepartureEndsOne ==
  ASSUME ProcInv, NEW p \in Procs, Alive(p), NEW links, Leaves(p, links, state)
  PROVE  OneEnds
<1>1. CASE UNCHANGED state
  BY <1>1, NobodyEnds DEF Lives, Alive
<1>2. CASE TurnIntoZombie(p, links, state)
  <2>1. PICK read \in ParentReads(p) : StatesAfter(p, read, state)
    BY <1>2 DEF TurnIntoZombie, StatesAfter, FreedBy, Unwanted
  <2>2. OnlyRouses(p, state)
    BY ProcFacts DEF OnlyRouses
  <2>3. /\ \A x \in FreedBy(p, read) : x # p => state[x] = "ZOMBIE"
        /\ \A x \in Procs : x # p /\ x \notin FreedBy(p, read) =>
              state'[x] \in {"ACTIVATABLE", state[x]}
    BY <2>1, <2>2, DepartureStates
  <2>4. \A x \in Procs : x # p => Lives(x)
    BY <2>3 DEF Lives, Alive
  <2> QED BY <2>4 DEF OneEnds
<1> QED BY <1>1, <1>2 DEF Leaves

LEMMA LifeEndsOne ==
  ASSUME ProcInv, LifeCall \/ Resume \/ FreeDeadProcess
  PROVE  OneEnds
<1> USE ProcFacts
<1>1. ASSUME NEW p \in Procs, NEW newprio, Create(p, newprio) PROVE OneEnds
  BY <1>1, NobodyEnds DEF Create, Lives, Alive
<1>2. CASE StartVirtualBad
  BY <1>2, NobodyEnds DEF StartVirtualBad, schedVars, Lives, Alive
<1>3. CASE ExitProcess
  <2>1. current \in Procs /\ Alive(current) /\ Leaves(current, queue, state)
    BY <1>3, OnTheHart DEF ExitProcess, Calling, Alive
  <2> QED BY <2>1, DepartureEndsOne
<1>4. ASSUME NEW p \in Victims, Kill(p) PROVE OneEnds
  <2>1. p \in Procs /\ Alive(p)
    BY <1>4, ProcessAssumption DEF Kill
  <2>2. Leaves(p, Unlink(queue, p), state) \/ UNCHANGED state
    BY <1>4 DEF Kill
  <2> QED BY <2>1, <2>2, DepartureEndsOne, NobodyEnds DEF Lives, Alive
<1>5. ASSUME NEW which, Running, WaitForChild(which)
      PROVE  OneEnds
  <2>1. CASE Block(which)
    BY <1>5, <2>1, NobodyEnds DEF Block, WaitForChild, Lives, Alive
  <2>2. ASSUME NEW i \in DOMAIN children[current], state[children[current][i]] = "ZOMBIE", Reap(i)
        PROVE  OneEnds
    BY <1>5, <2>2, NobodyEnds DEF Reap, WaitForChild, Lives, Alive
  <2> QED BY <1>5, <2>1, <2>2, WaitForChildCases
<1>6. CASE FreeDeadProcess
  <2>1. /\ queue["dead"] # <<>> /\ queue["dead"] \in Seq(Procs)
        /\ state' = [state EXCEPT ![QueueTop(queue["dead"])] = "UNUSED"]
    BY <1>6, SchedulerQueuesExist DEF FreeDeadProcess, ProcInv, HartFits
  <2>2. QueueTop(queue["dead"]) \in Procs /\ Has(queue["dead"], QueueTop(queue["dead"]))
    BY <2>1, QueueOutFacts
  <2>3. state[QueueTop(queue["dead"])] = "KILLED"
    BY <2>2, SchedulerQueuesExist DEF ProcInv, LinksFit, MayBeIn, In
  <2> QED BY <2>1, <2>2, <2>3, NobodyEnds DEF Lives, Alive
<1>7. CASE Resume \/ \E which \in Procs \cup {AnyChild} : WaitPid(which)
  BY <1>5, <1>7 DEF Resume, WaitPid, Calling
<1>8. CASE \/ \E p \in Procs, newprio \in Prios : StartVirtual(p, newprio)
           \/ \E p \in Procs : Fork(p)
  BY <1>1, <1>8 DEF StartVirtual, Fork, Calling
<1> QED BY <1>2, <1>3, <1>4, <1>6, <1>7, <1>8 DEF LifeCall

LEMMA NextEndsOne ==
  ASSUME ProcInv, Next
  PROVE  OneEnds
BY SchedulerEndsNone, LifeEndsOne, NobodyEnds DEF Next, KernelStep

-----------------------------------------------------------------------------
(* The messages of a ring arr of n places, i the next to be written and k  *)
(* of them in use, as Box gives them; the place of the j-th oldest.        *)
BoxIn(arr, n, i, k) == [j \in 1 .. k |-> arr[(((i - k) % n) + j - 1) % n]]

Place(n, i, k, j) == IF i - k + j - 1 < 0 THEN i - k + j - 1 + n ELSE i - k + j - 1

LEMMA PlaceFacts ==
  ASSUME NEW n \in Nat \ {0}, NEW i \in 0 .. n - 1, NEW k \in 0 .. n, NEW j \in 1 .. k
  PROVE  /\ (((i - k) % n) + j - 1) % n = Place(n, i, k, j)
         /\ Place(n, i, k, j) \in 0 .. n - 1
<1> DEFINE a == i - k
           x == a + j - 1
<1>1. /\ a \in Int /\ - n <= a /\ a < n /\ x \in Int /\ - n <= x /\ x < n
      /\ a <= x /\ x - a \in Nat /\ x - a < n /\ (a < 0 => a + n \in Nat /\ a + n < n)
      /\ (x < 0 => x + n \in Nat /\ x + n < n)
  OBVIOUS
<1>2. Place(n, i, k, j) = IF x < 0 THEN x + n ELSE x
  BY DEF Place
<1>3. ((i - k) % n) + j - 1 = (a % n) + (x - a)
  <2>1. a % n \in 0 .. n - 1
    BY <1>1, RemainderFits
  <2> DEFINE r == a % n
  <2>2. (i - k) % n = r
    OBVIOUS
  <2> HIDE DEF r
  <2> QED BY <2>1, <2>2 DEF r
<1> HIDE DEF a, x
<1>4. a % n = IF a < 0 THEN a + n ELSE a
  <2>1. CASE a < 0
    <3>1. ((a + n) - n) % n = a + n
      BY <1>1, <2>1, ModOnce
    <3>2. (a + n) - n = a
      BY <1>1
    <3> QED BY <2>1, <3>1, <3>2
  <2>2. CASE ~ a < 0
    <3>1. a \in Nat /\ a < n
      BY <1>1, <2>2
    <3> QED BY <2>2, <3>1, ModOnce
  <2> QED BY <2>1, <2>2
<1>5. ((a % n) + (x - a)) % n = IF x < 0 THEN x + n ELSE x
  <2>1. CASE x < 0
    <3>1. a < 0 /\ a % n = a + n
      BY <1>1, <1>4, <2>1
    <3>2. (a % n) + (x - a) = x + n
      BY <1>1, <3>1
    <3> QED BY <1>1, <2>1, <3>2, ModOnce
  <2>2. CASE ~ x < 0
    <3>1. x \in Nat /\ x < n
      BY <1>1, <2>2
    <3>2. (a % n) + (x - a) = x \/ (a % n) + (x - a) = x + n
      <4> DEFINE r == a % n
      <4>1. r = a \/ r = a + n
        BY <1>4
      <4> HIDE DEF r
      <4>2. r + (x - a) = x \/ r + (x - a) = x + n
        BY <1>1, <4>1
      <4> QED BY <4>2 DEF r
    <3> QED BY <2>2, <3>1, <3>2, ModOnce
  <2> QED BY <2>1, <2>2
<1>6. Place(n, i, k, j) \in 0 .. n - 1
  BY <1>1, <1>2
<1>7. (((i - k) % n) + j - 1) % n = Place(n, i, k, j)
  BY <1>2, <1>3, <1>5
<1> QED BY <1>6, <1>7

(* Where a message may be written next.                                    *)
Writable(n) == {i \in Nat : i = 0 \/ i < n}

(* s are the k messages of a ring, the oldest first.                       *)
IsBox(s, M, n, arr, i, k) ==
  /\ s \in Seq(M) /\ Len(s) = k
  /\ \A j \in 1 .. k : s[j] = arr[Place(n, i, k, j)] /\ Place(n, i, k, j) \in 0 .. n - 1

(* The contents of a ring of n places.                                     *)
Rings(M, n) == [0 .. n - 1 -> M]

LEMMA BoxFacts ==
  ASSUME NEW M, NEW n \in Nat, NEW arr \in Rings(M, n), NEW i \in Writable(n),
         NEW k \in 0 .. n
  PROVE  IsBox(BoxIn(arr, n, i, k), M, n, arr, i, k)
<1>1. ASSUME NEW j \in 1 .. k
      PROVE  /\ arr[(((i - k) % n) + j - 1) % n] = arr[Place(n, i, k, j)]
             /\ Place(n, i, k, j) \in 0 .. n - 1
  <2>1. n \in Nat \ {0} /\ i \in 0 .. n - 1
    BY DEF Writable
  <2> QED BY <2>1, PlaceFacts
<1>2. \A j \in 1 .. k : arr[(((i - k) % n) + j - 1) % n] \in M
  BY <1>1 DEF Rings
<1>3. k \in Nat
  OBVIOUS
<1>4. BoxIn(arr, n, i, k) \in [1 .. k -> M]
  BY <1>2 DEF BoxIn
<1>5. BoxIn(arr, n, i, k) \in Seq(M) /\ Len(BoxIn(arr, n, i, k)) = k
  BY <1>3, <1>4
<1>6. \A j \in 1 .. k : BoxIn(arr, n, i, k)[j] = arr[(((i - k) % n) + j - 1) % n]
  BY DEF BoxIn
<1> QED BY <1>1, <1>5, <1>6 DEF IsBox

(* An empty ring.                                                          *)
LEMMA BoxEmpty ==
  ASSUME NEW M, NEW n \in Nat, NEW arr \in Rings(M, n), NEW i \in Writable(n)
  PROVE  BoxIn(arr, n, i, 0) = <<>>
<1>1. 0 \in 0 .. n
  OBVIOUS
<1>2. BoxIn(arr, n, i, 0) \in Seq(M) /\ Len(BoxIn(arr, n, i, 0)) = 0
  BY <1>1, BoxFacts DEF IsBox
<1> QED BY <1>2, EmptySeq

(* brr is the ring arr with m at the place i.                              *)
Rewritten(arr, brr, n, i, m) ==
  brr = [j \in 0 .. n - 1 |-> IF j = i THEN m ELSE arr[j]]

(* add_message.                                                            *)
LEMMA BoxAppend ==
  ASSUME NEW M, NEW n \in Nat, NEW arr \in Rings(M, n), NEW i \in 0 .. n - 1,
         NEW k \in 0 .. n - 1, NEW m \in M, NEW brr, Rewritten(arr, brr, n, i, m)
  PROVE  BoxIn(brr, n, (i + 1) % n, k + 1) = Append(BoxIn(arr, n, i, k), m)
<1> DEFINE l == (i + 1) % n
           s == BoxIn(brr, n, l, k + 1)
           t == BoxIn(arr, n, i, k)
<1>1. /\ n \in Nat \ {0} /\ n \in Nat /\ i \in Nat /\ i < n /\ i \in Writable(n)
      /\ k \in Nat /\ k \in 0 .. n /\ k + 1 \in 0 .. n
  BY DEF Writable
<1>2. l = IF i + 1 = n THEN 0 ELSE i + 1
  <2>1. CASE i + 1 = n
    <3>1. (0 + n) % n = 0 /\ 0 + n = i + 1
      BY <1>1, <2>1, ModOnce
    <3> QED BY <2>1, <3>1
  <2>2. CASE i + 1 # n
    <3>1. i + 1 \in Nat /\ i + 1 < n
      BY <1>1, <2>2
    <3> QED BY <1>1, <2>2, <3>1, ModOnce
  <2> QED BY <2>1, <2>2
<1>3. /\ brr \in Rings(M, n) /\ brr[i] = m
      /\ \A j \in 0 .. n - 1 : j # i => brr[j] = arr[j]
  BY DEF Rewritten, Rings
<1> HIDE DEF l
<1>4. /\ s \in Seq(M) /\ Len(s) = k + 1
      /\ \A j \in 1 .. k + 1 : s[j] = brr[Place(n, l, k + 1, j)]
  <2>1. l \in Writable(n)
    BY <1>1, <1>2 DEF Writable
  <2>2. IsBox(BoxIn(brr, n, l, k + 1), M, n, brr, l, k + 1)
    BY <1>1, <1>3, <2>1, BoxFacts, Zenon
  <2> QED BY <2>2 DEF IsBox
<1>5. /\ t \in Seq(M) /\ Len(t) = k
      /\ \A j \in 1 .. k : t[j] = arr[Place(n, i, k, j)] /\ Place(n, i, k, j) \in 0 .. n - 1
  BY <1>1, BoxFacts DEF IsBox
<1> HIDE DEF s, t
<1>6. /\ Append(t, m) \in Seq(M) /\ Len(Append(t, m)) = k + 1
      /\ \A j \in 1 .. k : Append(t, m)[j] = t[j]
      /\ Append(t, m)[k + 1] = m
  BY <1>3, <1>5
<1>7. ASSUME NEW j \in 1 .. k PROVE s[j] = t[j]
  <2>1. Place(n, l, k + 1, j) = Place(n, i, k, j) /\ Place(n, i, k, j) # i
    BY <1>1, <1>2 DEF Place
  <2>2. j \in 1 .. k + 1
    BY <1>1
  <2> QED BY <1>3, <1>4, <1>5, <2>1, <2>2
<1>8. s[k + 1] = m
  <2>1. Place(n, l, k + 1, k + 1) = i
    BY <1>1, <1>2 DEF Place
  <2>2. k + 1 \in 1 .. k + 1
    BY <1>1
  <2> QED BY <1>3, <1>4, <2>1, <2>2
<1>9. \A j \in 1 .. k + 1 : s[j] = Append(t, m)[j]
  <2>1. \A j \in 1 .. k + 1 : j \in 1 .. k \/ j = k + 1
    BY <1>1
  <2> QED BY <1>6, <1>7, <1>8, <2>1
<1>10. s = Append(t, m)
  BY <1>4, <1>6, <1>9, SeqEqual
<1> QED BY <1>10 DEF s, t, l

(* pop_oldest_msg.                                                         *)
LEMMA BoxTail ==
  ASSUME NEW M, NEW n \in Nat, NEW arr \in Rings(M, n), NEW i \in 0 .. n - 1,
         NEW k \in 1 .. n
  PROVE  /\ BoxIn(arr, n, i, k) # <<>>
         /\ Head(BoxIn(arr, n, i, k)) = arr[(i - k) % n]
         /\ BoxIn(arr, n, i, k - 1) = Tail(BoxIn(arr, n, i, k))
<1> DEFINE s == BoxIn(arr, n, i, k - 1)
           t == BoxIn(arr, n, i, k)
<1>1. /\ n \in Nat \ {0} /\ i \in Nat /\ i < n /\ i \in Writable(n) /\ k \in Nat /\ k - 1 \in Nat
      /\ k \in 0 .. n /\ k - 1 \in 0 .. n /\ 1 \in 1 .. k
  BY DEF Writable
<1>2. /\ s \in Seq(M) /\ Len(s) = k - 1
      /\ \A j \in 1 .. k - 1 : s[j] = arr[Place(n, i, k - 1, j)]
  <2>1. IsBox(BoxIn(arr, n, i, k - 1), M, n, arr, i, k - 1)
    <3>1. n \in Nat /\ k - 1 \in 0 .. n /\ i \in Writable(n)
      BY <1>1
    <3> QED BY <3>1, BoxFacts, Zenon
  <2> QED BY <2>1 DEF IsBox
<1>3. /\ t \in Seq(M) /\ Len(t) = k
      /\ \A j \in 1 .. k : t[j] = arr[Place(n, i, k, j)]
  <2>1. IsBox(BoxIn(arr, n, i, k), M, n, arr, i, k)
    <3>1. n \in Nat /\ k \in 0 .. n /\ i \in Writable(n)
      BY <1>1
    <3> QED BY <3>1, BoxFacts, Zenon
  <2> QED BY <2>1 DEF IsBox
<1>4. Head(t) = arr[(i - k) % n]
  <2>1. t[1] = arr[(((i - k) % n) + 1 - 1) % n]
    BY <1>1 DEF BoxIn
  <2>2. (i - k) % n \in 0 .. n - 1
    <3>1. i - k \in Int /\ n \in Nat \ {0}
      BY <1>1
    <3> QED BY <3>1, RemainderFits
  <2> DEFINE r == (i - k) % n
  <2>3. r \in Nat /\ r < n
    BY <1>1, <2>2
  <2>4. t[1] = arr[(r + 1 - 1) % n]
    BY <2>1
  <2> HIDE DEF r
  <2>5. r + 1 - 1 = r /\ r % n = r
    BY <1>1, <2>3, ModOnce
  <2>6. t[1] = arr[r]
    BY <2>4, <2>5
  <2> HIDE DEF t
  <2>7. Head(t) = t[1]
    BY <1>1, <1>3
  <2> QED BY <2>6, <2>7 DEF r
<1> HIDE DEF s, t
<1>5. t # <<>> /\ Tail(t) \in Seq(M) /\ Len(Tail(t)) = k - 1
      /\ \A j \in 1 .. k - 1 : Tail(t)[j] = t[j + 1]
  BY <1>1, <1>3
<1>6. ASSUME NEW j \in 1 .. k - 1 PROVE s[j] = Tail(t)[j]
  <2>1. Place(n, i, k - 1, j) = Place(n, i, k, j + 1) /\ j + 1 \in 1 .. k
    BY <1>1 DEF Place
  <2> QED BY <1>2, <1>3, <1>5, <2>1
<1>7. s = Tail(t)
  BY <1>2, <1>5, <1>6, SeqEqual
<1> QED BY <1>4, <1>5, <1>7 DEF s, t

-----------------------------------------------------------------------------
(* The step of the queue f as one of the channel.                          *)
ChannelStep(f) == [Channel(f)!ChannelNext]_(Channel(f)!channelVars)

(* What a channel is made of, part by part.                                *)
SameRing(f) ==
  /\ size'[f] = size[f] /\ msg_arr'[f] = msg_arr[f]
  /\ iffc'[f] = iffc[f] /\ number_of_msgs'[f] = number_of_msgs[f]

SameOffers(f) == OfferTo(f)' = OfferTo(f)
SameInbox(f)  == InboxOf(f)' = InboxOf(f)
SameBox(f)    == size'[f] = size[f] /\ Box(f)' = Box(f)

(* A message was handed to p, who has not gone on yet.                     *)
Handed(p, f) ==
  pending[p] = <<"preceive", f>> /\ ~ In(p, blocked_cons[f]) /\ status[p] = "RECEIVED"

LEMMA BoxIsIn ==
  ASSUME NEW f \in Fids
  PROVE  /\ Box(f) = BoxIn(msg_arr[f], size[f], iffc[f], number_of_msgs[f])
         /\ Box(f)' = BoxIn(msg_arr'[f], size'[f], iffc'[f], number_of_msgs'[f])
BY DEF Box, BoxIn, Oldest

LEMMA RingStays ==
  ASSUME NEW f \in Fids, SameRing(f)
  PROVE  SameBox(f)
BY BoxIsIn DEF SameRing, SameBox

LEMMA ChannelStutters ==
  ASSUME NEW f \in Fids, SameBox(f), SameOffers(f), SameInbox(f)
  PROVE  ChannelStep(f)
BY DEF ChannelStep, SameBox, SameOffers, SameInbox, Channel!channelVars

LEMMA OffersOf ==
  ASSUME NEW f \in Fids, NEW p \in Procs
  PROVE  /\ OfferTo(f)[p] = IF Has(queue[blocked_prod[f]], p) THEN value[p] ELSE NoMsg
         /\ OfferTo(f)'[p] = IF Has(queue'[blocked_prod[f]], p) THEN value'[p] ELSE NoMsg
BY DEF OfferTo, In

LEMMA InboxesOf ==
  ASSUME NEW f \in Fids, NEW p \in Procs
  PROVE  /\ InboxOf(f)[p] = IF Handed(p, f) THEN value[p] ELSE got[f][p]
         /\ InboxOf(f)'[p] = IF Handed(p, f)' THEN value'[p] ELSE got'[f][p]
BY DEF InboxOf, Handed

LEMMA OffersEqual ==
  ASSUME NEW f \in Fids, \A p \in Procs : OfferTo(f)'[p] = OfferTo(f)[p]
  PROVE  SameOffers(f)
BY DEF SameOffers, OfferTo

LEMMA OffersChange ==
  ASSUME NEW f \in Fids, NEW p \in Procs, NEW m,
         \A x \in Procs : OfferTo(f)'[x] = IF x = p THEN m ELSE OfferTo(f)[x]
  PROVE  OfferTo(f)' = [OfferTo(f) EXCEPT ![p] = m]
BY DEF OfferTo

LEMMA InboxEqual ==
  ASSUME NEW f \in Fids, \A p \in Procs : InboxOf(f)'[p] = InboxOf(f)[p]
  PROVE  SameInbox(f)
BY DEF SameInbox, InboxOf

LEMMA InboxChanges ==
  ASSUME NEW f \in Fids, NEW p \in Procs, NEW m,
         \A x \in Procs : InboxOf(f)'[x] = IF x = p THEN m ELSE InboxOf(f)[x]
  PROVE  InboxOf(f)' = [InboxOf(f) EXCEPT ![p] = m]
BY DEF InboxOf
-----------------------------------------------------------------------------
(* The actions of the channel.                                             *)
NoOfferTo(f) == \A p \in Procs : OfferTo(f)[p] = NoMsg

LEMMA NewStep ==
  ASSUME NEW f \in Fids, NEW n \in Sizes, size'[f] = n, Box(f)' = <<>>,
         NoOfferTo(f), SameOffers(f), SameInbox(f)
  PROVE  ChannelStep(f)
<1>1. Channel(f)!New(n)
  BY DEF Channel!New, Channel!NoOffer, NoOfferTo, SameOffers, SameInbox
<1> QED BY <1>1 DEF ChannelStep, Channel!ChannelNext

LEMMA PutStep ==
  ASSUME NEW f \in Fids, NEW m \in Msgs, Len(Box(f)) < size[f], NoOfferTo(f),
         Box(f)' = Append(Box(f), m), size'[f] = size[f], SameOffers(f), SameInbox(f)
  PROVE  ChannelStep(f)
<1>1. Channel(f)!Put(m)
  BY DEF Channel!Put, Channel!NoOffer, NoOfferTo, SameOffers, SameInbox
<1> QED BY <1>1 DEF ChannelStep, Channel!ChannelNext

LEMMA OfferStep ==
  ASSUME NEW f \in Fids, NEW p \in Procs, NEW m \in Msgs, Len(Box(f)) = size[f],
         OfferTo(f)[p] = NoMsg, OfferTo(f)' = [OfferTo(f) EXCEPT ![p] = m],
         SameBox(f), SameInbox(f)
  PROVE  ChannelStep(f)
<1>1. Channel(f)!Offer(p, m)
  BY DEF Channel!Offer, SameBox, SameInbox
<1> QED BY <1>1 DEF ChannelStep, Channel!ChannelNext

LEMMA TakeStep ==
  ASSUME NEW f \in Fids, NEW p \in Procs, Box(f) # <<>>, NoOfferTo(f),
         Box(f)' = Tail(Box(f)), InboxOf(f)' = [InboxOf(f) EXCEPT ![p] = Head(Box(f))],
         size'[f] = size[f], SameOffers(f)
  PROVE  ChannelStep(f)
<1>1. Channel(f)!Take(p)
  BY DEF Channel!Take, Channel!NoOffer, NoOfferTo, SameOffers
<1> QED BY <1>1 DEF ChannelStep, Channel!ChannelNext

LEMMA TakeAndRefillStep ==
  ASSUME NEW f \in Fids, NEW p \in Procs, NEW q \in Procs, Box(f) # <<>>, OfferTo(f)[q] # NoMsg,
         Box(f)' = Append(Tail(Box(f)), OfferTo(f)[q]),
         OfferTo(f)' = [OfferTo(f) EXCEPT ![q] = NoMsg],
         InboxOf(f)' = [InboxOf(f) EXCEPT ![p] = Head(Box(f))], size'[f] = size[f]
  PROVE  ChannelStep(f)
<1>1. Channel(f)!TakeAndRefill(p, q)
  BY DEF Channel!TakeAndRefill
<1> QED BY <1>1 DEF ChannelStep, Channel!ChannelNext

LEMMA HandStep ==
  ASSUME NEW f \in Fids, NEW p \in Procs, NEW m \in Msgs, Box(f) = <<>>, NoOfferTo(f),
         InboxOf(f)' = [InboxOf(f) EXCEPT ![p] = m], SameBox(f), SameOffers(f)
  PROVE  ChannelStep(f)
<1>1. Channel(f)!Hand(p, m)
  BY DEF Channel!Hand, Channel!NoOffer, NoOfferTo, SameBox, SameOffers
<1> QED BY <1>1 DEF ChannelStep, Channel!ChannelNext

LEMMA HandOfferedStep ==
  ASSUME NEW f \in Fids, NEW p \in Procs, NEW q \in Procs, Box(f) = <<>>, OfferTo(f)[q] # NoMsg,
         InboxOf(f)' = [InboxOf(f) EXCEPT ![p] = OfferTo(f)[q]],
         OfferTo(f)' = [OfferTo(f) EXCEPT ![q] = NoMsg], SameBox(f)
  PROVE  ChannelStep(f)
<1>1. Channel(f)!HandOffered(p, q)
  BY DEF Channel!HandOffered, SameBox
<1> QED BY <1>1 DEF ChannelStep, Channel!ChannelNext

LEMMA AbandonedStep ==
  ASSUME NEW f \in Fids, Box(f)' = <<>>, \A p \in Procs : OfferTo(f)'[p] = NoMsg,
         size'[f] = size[f], SameInbox(f)
  PROVE  ChannelStep(f)
<1>1. OfferTo(f)' = [p \in Procs |-> NoMsg]
  BY DEF OfferTo
<1>2. Channel(f)!Abandoned
  BY <1>1 DEF Channel!Abandoned, SameInbox
<1> QED BY <1>2 DEF ChannelStep, Channel!ChannelNext

LEMMA DieStep ==
  ASSUME NEW f \in Fids, NEW p \in Procs, OfferTo(f)' = [OfferTo(f) EXCEPT ![p] = NoMsg],
         InboxOf(f)' = [InboxOf(f) EXCEPT ![p] = NoMsg], SameBox(f)
  PROVE  ChannelStep(f)
<1>1. Channel(f)!Die(p)
  BY DEF Channel!Die, SameBox
<1> QED BY <1>1 DEF ChannelStep, Channel!ChannelNext

-----------------------------------------------------------------------------
(* The invariant.                                                          *)
OffersFit == \A p \in Procs, f \in Fids : In(p, blocked_prod[f]) => value[p] \in Msgs

DeadForget == \A p \in Procs, f \in Fids : ~ Alive(p) => got[f][p] = NoMsg

ChannelInv == MsgInv /\ OffersFit /\ DeadForget

LEMMA RingOf ==
  ASSUME MsgInv, NEW f \in Fids
  PROVE  /\ size[f] \in Nat /\ msg_arr[f] \in Rings(Msgs \cup {NoMsg}, size[f])
         /\ iffc[f] \in Writable(size[f]) /\ number_of_msgs[f] \in 0 .. size[f]
         /\ Box(f) \in Seq(Msgs \cup {NoMsg}) /\ Len(Box(f)) = number_of_msgs[f]
         /\ Empty(f) => Box(f) = <<>>
<1>1. /\ size[f] \in Nat /\ msg_arr[f] \in Rings(Msgs \cup {NoMsg}, size[f])
      /\ iffc[f] \in Writable(size[f]) /\ number_of_msgs[f] \in 0 .. size[f]
  BY DEF MsgInv, MsgTypeOK, Writable, Rings
<1>2. IsBox(Box(f), Msgs \cup {NoMsg}, size[f], msg_arr[f], iffc[f], number_of_msgs[f])
  BY <1>1, BoxIsIn, BoxFacts
<1>3. Box(f) \in Seq(Msgs \cup {NoMsg}) /\ Len(Box(f)) = number_of_msgs[f]
  BY <1>2 DEF IsBox
<1>4. Empty(f) => Box(f) = <<>>
  BY <1>3, EmptySeq DEF Empty
<1> QED BY <1>1, <1>3, <1>4

(* Nobody is blocked sending.                                              *)
LEMMA NobodyOffers ==
  ASSUME NEW f \in Fids, NoProducer(f)
  PROVE  NoOfferTo(f)
<1>1. \A p : ~ Has(queue[blocked_prod[f]], p)
  BY DEF NoProducer, Has
<1> QED BY <1>1, OffersOf DEF NoOfferTo

(* A call that moves nobody and hands nothing to anybody.                  *)
LEMMA QuietCall ==
  ASSUME NEW f \in Fids, UNCHANGED <<queue, value, status, pending>>, got'[f] = got[f]
  PROVE  SameOffers(f) /\ SameInbox(f)
<1>1. \A p \in Procs : OfferTo(f)'[p] = OfferTo(f)[p]
  BY OffersOf
<1>2. \A p \in Procs : Handed(p, f)' <=> Handed(p, f)
  BY DEF Handed, In
<1>3. \A p \in Procs : InboxOf(f)'[p] = InboxOf(f)[p]
  BY <1>2, InboxesOf
<1> QED BY <1>1, <1>3, OffersEqual, InboxEqual

(* pcreate.                                                                *)
LEMMA PcreateSteps ==
  ASSUME MsgInv, NEW f \in Fids, (\E n \in Sizes : Pcreate(f, n)) \/ PcreateHuge(f),
         NEW g \in Fids
  PROVE  ChannelStep(g)
<1>1. UNCHANGED <<queue, value, status, pending, got>> /\ slot[f] = "free"
  BY DEF Pcreate, PcreateHuge, vars, schedVars, messageVars
<1>2. SameOffers(g) /\ SameInbox(g)
  BY <1>1, QuietCall
<1>3. CASE PcreateHuge(f) \/ g # f
  <2>1. SameRing(g)
    BY <1>3 DEF Pcreate, PcreateHuge, SameRing, MsgInv, MsgTypeOK
  <2> QED BY <1>2, <2>1, RingStays, ChannelStutters
<1>4. ASSUME NEW n \in Sizes, Pcreate(f, n), g = f PROVE ChannelStep(g)
  <2>1. NoOfferTo(f)
    BY <1>1, NobodyOffers DEF MsgInv, RingsFit, RingFits
  <2>2. /\ size'[f] = n /\ msg_arr'[f] = Ring(n) /\ iffc'[f] = 0 /\ number_of_msgs'[f] = 0
    BY <1>4 DEF Pcreate, MsgInv, MsgTypeOK
  <2>3. n \in Nat /\ Ring(n) \in Rings(Msgs \cup {NoMsg}, n) /\ 0 \in Writable(n)
    BY MsgQueueAssumption DEF Ring, Writable, Rings
  <2>4. Box(f)' = <<>>
    <3>1. Box(f)' = BoxIn(Ring(n), n, 0, 0)
      BY <2>2, BoxIsIn
    <3>2. BoxIn(Ring(n), n, 0, 0) = <<>>
      BY <2>3, BoxEmpty, Zenon
    <3> QED BY <3>1, <3>2
  <2> QED BY <1>2, <1>4, <2>1, <2>2, <2>4, NewStep
<1> QED BY <1>3, <1>4

(* psend that finds room.                                                  *)
LEMMA PsendPutSteps ==
  ASSUME MsgInv, NEW f \in Fids, NEW m \in Msgs, PsendPut(f, m), NEW g \in Fids
  PROVE  ChannelStep(g)
<1>1. /\ UNCHANGED <<queue, value, status, pending, got, slot, size>>
      /\ msg_arr' = Stored(f, m) /\ iffc' = [iffc EXCEPT ![f] = NextFree(f)]
      /\ number_of_msgs' = [number_of_msgs EXCEPT ![f] = @ + 1]
      /\ ~ (Empty(f) /\ ~ NoConsumer(f)) /\ ~ Full(f)
  BY DEF PsendPut, vars, schedVars, messageVars
<1>2. SameOffers(g) /\ SameInbox(g)
  BY <1>1, QuietCall
<1>3. CASE g # f
  <2>1. SameRing(g)
    BY <1>1, <1>3 DEF Stored, SameRing, MsgInv, MsgTypeOK
  <2> QED BY <1>2, <2>1, RingStays, ChannelStutters
<1>4. CASE g = f
  <2> DEFINE n == size[f]
             i == iffc[f]
             k == number_of_msgs[f]
             arr == msg_arr[f]
  <2>1. /\ n \in Nat /\ arr \in Rings(Msgs \cup {NoMsg}, n) /\ i \in Writable(n)
        /\ k \in 0 .. n /\ Len(Box(f)) = k /\ k # n
    BY <1>1, RingOf DEF Full
  <2>2. /\ msg_arr'[f] = [arr EXCEPT ![i] = m] /\ iffc'[f] = (i + 1) % n
        /\ number_of_msgs'[f] = k + 1 /\ size'[f] = n
    BY <1>1 DEF Stored, NextFree, MsgInv, MsgTypeOK
  <2>3. /\ Box(f) = BoxIn(arr, n, i, k)
        /\ Box(f)' = BoxIn([arr EXCEPT ![i] = m], n, (i + 1) % n, k + 1)
    BY <2>2, BoxIsIn
  <2> HIDE DEF n, i, k, arr
  <2>4. i \in 0 .. n - 1 /\ k \in 0 .. n - 1 /\ k < n /\ m \in Msgs \cup {NoMsg}
    BY <2>1 DEF Writable
  <2>5. Box(f)' = Append(Box(f), m)
    <3> DEFINE brr == [arr EXCEPT ![i] = m]
    <3>1. Rewritten(arr, brr, n, i, m)
      BY <2>1, <2>4 DEF Rewritten, Rings
    <3>2. Box(f)' = BoxIn(brr, n, (i + 1) % n, k + 1)
      BY <2>3
    <3> HIDE DEF brr
    <3>3. BoxIn(brr, n, (i + 1) % n, k + 1) = Append(BoxIn(arr, n, i, k), m)
      <4> DEFINE M == Msgs \cup {NoMsg}
      <4>1. arr \in Rings(M, n) /\ n \in Nat /\ m \in M
        BY <2>1
      <4> HIDE DEF M
      <4> QED BY <2>4, <3>1, <4>1, BoxAppend
    <3> QED BY <2>3, <3>2, <3>3
  <2>6. NoOfferTo(f)
    BY <1>1, NobodyOffers DEF MsgInv, RingsFit, RingFits
  <2>7. Len(Box(f)) < size[f] /\ size'[f] = size[f]
    BY <2>1, <2>2, <2>4 DEF n
  <2> QED BY <1>2, <1>4, <2>5, <2>6, <2>7, PutStep
<1> QED BY <1>3, <1>4

(* preceive that finds a message.                                          *)
LEMMA PreceiveTakeSteps ==
  ASSUME MsgInv, NEW f \in Fids, PreceiveTake(f), NEW g \in Fids
  PROVE  ChannelStep(g)
<1>1. /\ UNCHANGED <<queue, value, status, pending, slot, size, msg_arr, iffc>>
      /\ ~ Empty(f) /\ (~ Full(f) \/ NoProducer(f))
      /\ number_of_msgs' = [number_of_msgs EXCEPT ![f] = @ - 1]
      /\ got' = [got EXCEPT ![f][current] = msg_arr[f][Oldest(f)]]
      /\ current \in Procs /\ pending[current] = Nothing
  BY Caller DEF PreceiveTake, MsgCalling, vars, schedVars
<1>2. CASE g # f
  <2>1. SameRing(g) /\ got'[g] = got[g]
    BY <1>1, <1>2 DEF SameRing, MsgInv, MsgTypeOK
  <2> QED BY <1>1, <2>1, QuietCall, RingStays, ChannelStutters
<1>3. CASE g = f
  <2> DEFINE n == size[f]
             i == iffc[f]
             k == number_of_msgs[f]
             arr == msg_arr[f]
  <2>1. /\ n \in Nat /\ arr \in Rings(Msgs \cup {NoMsg}, n) /\ i \in Writable(n)
        /\ k \in 0 .. n /\ k # 0
    BY <1>1, RingOf DEF Empty
  <2>2. msg_arr'[f] = arr /\ iffc'[f] = i /\ number_of_msgs'[f] = k - 1 /\ size'[f] = n
    BY <1>1 DEF MsgInv, MsgTypeOK
  <2>3. /\ Box(f) = BoxIn(arr, n, i, k) /\ Box(f)' = BoxIn(arr, n, i, k - 1)
        /\ msg_arr[f][Oldest(f)] = arr[(i - k) % n]
    BY <2>2, BoxIsIn DEF Oldest
  <2> HIDE DEF n, i, k, arr
  <2>4. i \in 0 .. n - 1 /\ k \in 1 .. n
    BY <2>1 DEF Writable
  <2>5. Box(f) # <<>> /\ Box(f)' = Tail(Box(f)) /\ Head(Box(f)) = msg_arr[f][Oldest(f)]
    BY <2>1, <2>3, <2>4, BoxTail
  <2>6. NoOfferTo(f)
    BY <1>1, NobodyOffers DEF MsgInv, RingsFit, RingFits
  <2>7. SameOffers(f)
    <3>1. \A p \in Procs : OfferTo(f)'[p] = OfferTo(f)[p]
      BY <1>1, OffersOf
    <3> QED BY <3>1, OffersEqual
  <2>8. InboxOf(f)' = [InboxOf(f) EXCEPT ![current] = Head(Box(f))]
    <3>1. \A p \in Procs : Handed(p, f)' <=> Handed(p, f)
      BY <1>1 DEF Handed, In
    <3>2. ~ Handed(current, f)
      BY <1>1, CallIsSomething DEF Handed
    <3>3. ASSUME NEW p \in Procs
          PROVE  InboxOf(f)'[p] = IF p = current THEN Head(Box(f)) ELSE InboxOf(f)[p]
      <4>1. got'[f][p] = IF p = current THEN Head(Box(f)) ELSE got[f][p]
        <5>1. got'[f][p] = IF p = current THEN msg_arr[f][Oldest(f)] ELSE got[f][p]
          BY <1>1 DEF MsgInv, MsgTypeOK
        <5> QED BY <2>5, <5>1
      <4>2. /\ InboxOf(f)[p] = IF Handed(p, f) THEN value[p] ELSE got[f][p]
            /\ InboxOf(f)'[p] = IF Handed(p, f)' THEN value'[p] ELSE got'[f][p]
        BY InboxesOf
      <4> QED BY <1>1, <3>1, <3>2, <4>1, <4>2
    <3> QED BY <1>1, <3>3, InboxChanges
  <2>9. size'[f] = size[f]
    BY <1>1
  <2> QED BY <1>1, <1>3, <2>5, <2>6, <2>7, <2>8, <2>9, TakeStep
<1> QED BY <1>2, <1>3

-----------------------------------------------------------------------------
(* The first process blocked on a list of the queue f is made ready: it is *)
(* in no list of any queue any more, and nobody else moves.                *)
LEMMA WokenFacts ==
  ASSUME MsgInv, Running, NEW f \in Fids, NEW n \in {blocked_cons[f], blocked_prod[f]},
         queue[n] # <<>>, Wakes(n, "ACTIVATABLE") \/ Wakes(n, "BLOCKEDQUEUE"), NEW t,
         t = QueueTop(queue[n])
  PROVE  /\ t \in Procs /\ t # current /\ current \in Procs
         /\ Has(queue[n], t)
         /\ n = blocked_cons[f] => pending[t] = <<"preceive", f>>
         /\ n = blocked_prod[f] => pending[t] = <<"psend", f>>
         /\ \A g \in Fids, x \in Procs :
               /\ Has(queue'[blocked_cons[g]], x) <=> Has(queue[blocked_cons[g]], x) /\ x # t
               /\ Has(queue'[blocked_prod[g]], x) <=> Has(queue[blocked_prod[g]], x) /\ x # t
         /\ \A x \in Procs : Alive(x)' <=> Alive(x)
<1>1. n \in Foreign
  BY OwnQueues
<1>2. /\ t \in Procs /\ t # current /\ Has(queue[n], t)
      /\ \A m \in Queues : \A x :
            Has(queue'[m], x) <=> (Has(queue[m], x) /\ x # t) \/ (m = "activatable" /\ x = t)
      /\ \A x \in Procs : Alive(x)' <=> Alive(x)
  BY <1>1, WakesFacts DEF MsgInv
<1>3. ASSUME NEW g \in Fids
      PROVE  /\ blocked_cons[g] \in Queues /\ blocked_cons[g] # "activatable"
             /\ blocked_prod[g] \in Queues /\ blocked_prod[g] # "activatable"
  BY OwnQueues DEF SchedulerQueues
<1>4. /\ n = blocked_cons[f] => pending[t] = <<"preceive", f>>
      /\ n = blocked_prod[f] => pending[t] = <<"psend", f>>
  BY <1>2 DEF MsgInv, PendingFits, In
<1>5. current \in Procs
  BY OnTheHart DEF MsgInv
<1> QED BY <1>2, <1>3, <1>4, <1>5

(* psend to a consumer that waits.                                         *)
LEMMA PsendHandSteps ==
  ASSUME ChannelInv, NEW f \in Fids, NEW m \in Msgs, PsendHand(f, m), NEW g \in Fids
  PROVE  ChannelStep(g)
<1>0. PICK t : t = QueueTop(queue[blocked_cons[f]])
  OBVIOUS
<1>1. /\ Running /\ queue[blocked_cons[f]] # <<>> /\ Empty(f)
      /\ Wakes(blocked_cons[f], "ACTIVATABLE")
      /\ value' = [value EXCEPT ![t] = m] /\ status' = [status EXCEPT ![t] = "RECEIVED"]
      /\ size' = size /\ msg_arr' = msg_arr /\ iffc' = iffc
      /\ number_of_msgs' = number_of_msgs /\ pending' = pending /\ got' = got
  BY <1>0 DEF PsendHand, MsgCalling, MsgAsked, NoConsumer, ringVars
<1>2. /\ t \in Procs /\ Has(queue[blocked_cons[f]], t) /\ pending[t] = <<"preceive", f>>
      /\ \A h \in Fids, x \in Procs :
            /\ Has(queue'[blocked_cons[h]], x) <=> Has(queue[blocked_cons[h]], x) /\ x # t
            /\ Has(queue'[blocked_prod[h]], x) <=> Has(queue[blocked_prod[h]], x) /\ x # t
  <2>1. MsgInv /\ blocked_cons[f] \in {blocked_cons[f], blocked_prod[f]}
    BY DEF ChannelInv
  <2>2. PICK n \in {blocked_cons[f], blocked_prod[f]} : n = blocked_cons[f]
    BY <2>1
  <2>3. /\ Running /\ queue[n] # <<>> /\ t = QueueTop(queue[n])
        /\ Wakes(n, "ACTIVATABLE") \/ Wakes(n, "BLOCKEDQUEUE")
    BY <1>0, <1>1, <2>2
  <2>4. /\ t \in Procs /\ t # current /\ current \in Procs
        /\ Has(queue[n], t)
        /\ n = blocked_cons[f] => pending[t] = <<"preceive", f>>
        /\ \A h \in Fids, x \in Procs :
              /\ Has(queue'[blocked_cons[h]], x) <=> Has(queue[blocked_cons[h]], x) /\ x # t
              /\ Has(queue'[blocked_prod[h]], x) <=> Has(queue[blocked_prod[h]], x) /\ x # t
    BY <2>1, <2>3, WokenFacts
  <2> QED BY <2>2, <2>4
<1>3. ASSUME NEW x \in Procs
      PROVE  /\ value'[x] = IF x = t THEN m ELSE value[x]
             /\ status'[x] = IF x = t THEN "RECEIVED" ELSE status[x]
  BY <1>1 DEF ChannelInv, MsgInv, MsgTypeOK
<1>4. SameBox(g)
  BY <1>1, RingStays DEF SameRing
<1>5. SameOffers(g)
  <2>1. ~ Has(queue[blocked_prod[g]], t)
    BY <1>2 DEF ChannelInv, MsgInv, PendingFits, In
  <2>2. ASSUME NEW x \in Procs PROVE OfferTo(g)'[x] = OfferTo(g)[x]
    BY <1>2, <1>3, <2>1, OffersOf
  <2> QED BY <2>2, OffersEqual
<1>6. ASSUME NEW x \in Procs, x # t PROVE InboxOf(g)'[x] = InboxOf(g)[x]
  <2>1. Handed(x, g)' <=> Handed(x, g)
    BY <1>1, <1>2, <1>3, <1>6 DEF Handed, In
  <2>2. value'[x] = value[x] /\ got'[g][x] = got[g][x]
    BY <1>1, <1>3, <1>6
  <2> QED BY <2>1, <2>2, InboxesOf
<1>7. CASE g # f
  <2>1. ~ Handed(t, g) /\ ~ Handed(t, g)'
    <3>1. pending[t] # <<"preceive", g>> /\ pending'[t] = pending[t]
      BY <1>1, <1>2, <1>7
    <3> QED BY <3>1 DEF Handed
  <2>2. InboxOf(g)'[t] = InboxOf(g)[t]
    <3>1. got'[g][t] = got[g][t] /\ t \in Procs
      BY <1>1, <1>2
    <3>2. /\ InboxOf(g)[t] = IF Handed(t, g) THEN value[t] ELSE got[g][t]
          /\ InboxOf(g)'[t] = IF Handed(t, g)' THEN value'[t] ELSE got'[g][t]
      BY <3>1, InboxesOf
    <3> QED BY <2>1, <3>1, <3>2
  <2> QED BY <1>4, <1>5, <1>6, <2>2, InboxEqual, ChannelStutters
<1>8. CASE g = f
  <2>1. Handed(t, f)'
    <3>1. pending'[t] = <<"preceive", f>> /\ status'[t] = "RECEIVED"
      BY <1>1, <1>2, <1>3
    <3>2. ~ Has(queue'[blocked_cons[f]], t)
      BY <1>2
    <3> QED BY <3>1, <3>2 DEF Handed, In
  <2>2. InboxOf(f)'[t] = m
    <3>1. value'[t] = m /\ t \in Procs
      BY <1>2, <1>3
    <3>2. InboxOf(f)'[t] = IF Handed(t, f)' THEN value'[t] ELSE got'[f][t]
      BY <3>1, InboxesOf
    <3> QED BY <2>1, <3>1, <3>2
  <2>3. InboxOf(f)' = [InboxOf(f) EXCEPT ![t] = m]
    <3>1. \A x \in Procs : InboxOf(f)'[x] = IF x = t THEN m ELSE InboxOf(f)[x]
      BY <1>6, <1>8, <2>2
    <3> QED BY <1>2, <3>1, InboxChanges
  <2>4. NoOfferTo(f) /\ Box(f) = <<>>
    BY <1>1, NobodyOffers, RingOf DEF ChannelInv, MsgInv, RingsFit, RingFits, NoConsumer
  <2> QED BY <1>2, <1>4, <1>5, <1>8, <2>3, <2>4, HandStep
<1> QED BY <1>7, <1>8

(* The offer of a producer that preceive wakes.                            *)
LEMMA TakenOffer ==
  ASSUME ChannelInv, Running, NEW f \in Fids, queue[blocked_prod[f]] # <<>>,
         NEW st \in {"ACTIVATABLE", "BLOCKEDQUEUE"}, Wakes(blocked_prod[f], st), NEW t,
         t = QueueTop(queue[blocked_prod[f]]), status' = [status EXCEPT ![t] = "SENT"],
         pending[current] = Nothing, NEW m, got' = [got EXCEPT ![f][current] = m],
         UNCHANGED <<value, pending>>
  PROVE  /\ t \in Procs /\ current \in Procs
         /\ OfferTo(f)[t] = value[t] /\ value[t] \in Msgs /\ value[t] # NoMsg
         /\ OfferTo(f)' = [OfferTo(f) EXCEPT ![t] = NoMsg]
         /\ InboxOf(f)' = [InboxOf(f) EXCEPT ![current] = m]
         /\ \A g \in Fids : g # f => SameOffers(g) /\ SameInbox(g)
<1>1. /\ t \in Procs /\ t # current /\ current \in Procs
      /\ Has(queue[blocked_prod[f]], t) /\ pending[t] = <<"psend", f>>
      /\ \A h \in Fids, x \in Procs :
            /\ Has(queue'[blocked_cons[h]], x) <=> Has(queue[blocked_cons[h]], x) /\ x # t
            /\ Has(queue'[blocked_prod[h]], x) <=> Has(queue[blocked_prod[h]], x) /\ x # t
  <2>1. MsgInv /\ blocked_prod[f] \in {blocked_cons[f], blocked_prod[f]}
    BY DEF ChannelInv
  <2>2. PICK n \in {blocked_cons[f], blocked_prod[f]} : n = blocked_prod[f]
    BY <2>1
  <2>3. /\ queue[n] # <<>> /\ t = QueueTop(queue[n])
        /\ Wakes(n, "ACTIVATABLE") \/ Wakes(n, "BLOCKEDQUEUE")
    BY <2>2
  <2>4. /\ t \in Procs /\ t # current /\ current \in Procs
        /\ Has(queue[n], t)
        /\ n = blocked_prod[f] => pending[t] = <<"psend", f>>
        /\ \A h \in Fids, x \in Procs :
              /\ Has(queue'[blocked_cons[h]], x) <=> Has(queue[blocked_cons[h]], x) /\ x # t
              /\ Has(queue'[blocked_prod[h]], x) <=> Has(queue[blocked_prod[h]], x) /\ x # t
    BY <2>1, <2>3, WokenFacts
  <2> QED BY <2>2, <2>4
<1>2. /\ \A x \in Procs : status'[x] = IF x = t THEN "SENT" ELSE status[x]
      /\ \A g \in Fids, x \in Procs : got'[g][x] = IF g = f /\ x = current THEN m ELSE got[g][x]
  BY DEF ChannelInv, MsgInv, MsgTypeOK
<1>3. OfferTo(f)[t] = value[t] /\ value[t] \in Msgs /\ value[t] # NoMsg
  BY <1>1, OffersOf, MsgQueueAssumption DEF ChannelInv, OffersFit, In
<1>4. OfferTo(f)' = [OfferTo(f) EXCEPT ![t] = NoMsg]
  <2>1. \A x \in Procs : OfferTo(f)'[x] = IF x = t THEN NoMsg ELSE OfferTo(f)[x]
    BY <1>1, OffersOf
  <2> QED BY <1>1, <2>1, OffersChange
<1>5. ASSUME NEW g \in Fids, NEW x \in Procs
      PROVE  /\ Handed(x, g)' <=> Handed(x, g)
             /\ ~ Handed(current, g)
  <2>1. ~ Handed(current, g) /\ ~ Handed(t, g) /\ ~ Handed(t, g)'
    BY <1>1, CallIsSomething DEF Handed
  <2>2. x # t => (Handed(x, g)' <=> Handed(x, g))
    BY <1>1, <1>2 DEF Handed, In
  <2> QED BY <2>1, <2>2
<1>6. ASSUME NEW g \in Fids, NEW x \in Procs
      PROVE  InboxOf(g)'[x] = IF g = f /\ x = current THEN m ELSE InboxOf(g)[x]
  <2>1. got'[g][x] = IF g = f /\ x = current THEN m ELSE got[g][x]
    BY <1>2
  <2>2. /\ InboxOf(g)[x] = IF Handed(x, g) THEN value[x] ELSE got[g][x]
        /\ InboxOf(g)'[x] = IF Handed(x, g)' THEN value'[x] ELSE got'[g][x]
    BY InboxesOf
  <2> QED BY <1>5, <2>1, <2>2
<1>7. InboxOf(f)' = [InboxOf(f) EXCEPT ![current] = m]
  <2>1. PICK c \in Procs : c = current
    BY <1>1
  <2>2. \A x \in Procs : InboxOf(f)'[x] = IF x = c THEN m ELSE InboxOf(f)[x]
    BY <1>6, <2>1
  <2>3. InboxOf(f)' = [InboxOf(f) EXCEPT ![c] = m]
    BY <2>2, InboxChanges
  <2> QED BY <2>1, <2>3
<1>8. ASSUME NEW g \in Fids, g # f PROVE SameOffers(g) /\ SameInbox(g)
  <2>1. ~ Has(queue[blocked_prod[g]], t)
    BY <1>1, <1>8 DEF ChannelInv, MsgInv, PendingFits, In
  <2>2. \A x \in Procs : OfferTo(g)'[x] = OfferTo(g)[x]
    BY <1>1, <2>1, OffersOf
  <2> QED BY <1>6, <1>8, <2>2, OffersEqual, InboxEqual
<1> QED BY <1>1, <1>3, <1>4, <1>7, <1>8

(* preceive from a producer that waits, in a queue that holds nothing.     *)
LEMMA PreceiveDirectSteps ==
  ASSUME ChannelInv, NEW f \in Fids, PreceiveDirect(f), NEW g \in Fids
  PROVE  ChannelStep(g)
<1>0. PICK t, m : t = QueueTop(queue[blocked_prod[f]]) /\ m = value[t]
  OBVIOUS
<1>1. /\ Running /\ queue[blocked_prod[f]] # <<>> /\ Empty(f)
      /\ Wakes(blocked_prod[f], "BLOCKEDQUEUE")
      /\ status' = [status EXCEPT ![t] = "SENT"] /\ got' = [got EXCEPT ![f][current] = m]
      /\ UNCHANGED <<size, msg_arr, iffc, number_of_msgs, value, pending>>
      /\ pending[current] = Nothing
  BY <1>0, Caller DEF PreceiveDirect, MsgCalling, MsgAsked, NoProducer, ringVars, ChannelInv
<1>2. /\ t \in Procs /\ current \in Procs /\ OfferTo(f)[t] = m /\ m # NoMsg
      /\ OfferTo(f)' = [OfferTo(f) EXCEPT ![t] = NoMsg]
      /\ InboxOf(f)' = [InboxOf(f) EXCEPT ![current] = m]
      /\ \A h \in Fids : h # f => SameOffers(h) /\ SameInbox(h)
  BY <1>0, <1>1, TakenOffer
<1>3. SameBox(g)
  BY <1>1, RingStays DEF SameRing
<1>4. Box(f) = <<>>
  BY <1>1, RingOf DEF ChannelInv
<1>5. g = f => ChannelStep(g)
  BY <1>2, <1>3, <1>4, HandOfferedStep
<1> QED BY <1>2, <1>3, <1>5, ChannelStutters

(* preceive that puts the message of a producer in the place it takes from.*)
LEMMA PreceiveRefillSteps ==
  ASSUME ChannelInv, NEW f \in Fids, PreceiveRefill(f), NEW g \in Fids
  PROVE  ChannelStep(g)
<1>0. PICK t, v : t = QueueTop(queue[blocked_prod[f]]) /\ v = value[t]
  OBVIOUS
<1> DEFINE n == size[f]
           i == iffc[f]
           arr == msg_arr[f]
<1>1. /\ Running /\ queue[blocked_prod[f]] # <<>> /\ ~ Empty(f) /\ Full(f)
      /\ Wakes(blocked_prod[f], "ACTIVATABLE")
      /\ status' = [status EXCEPT ![t] = "SENT"]
      /\ got' = [got EXCEPT ![f][current] = msg_arr[f][Oldest(f)]]
      /\ msg_arr' = [msg_arr EXCEPT ![f][iffc[f]] = v]
      /\ iffc' = [iffc EXCEPT ![f] = (iffc[f] + 1) % size[f]]
      /\ UNCHANGED <<size, number_of_msgs, value, pending>>
      /\ pending[current] = Nothing
  BY <1>0, Caller DEF PreceiveRefill, MsgCalling, MsgAsked, NoProducer, Stored, NextFree, ChannelInv
<1>2. /\ t \in Procs /\ current \in Procs /\ OfferTo(f)[t] = v /\ v \in Msgs /\ v # NoMsg
      /\ OfferTo(f)' = [OfferTo(f) EXCEPT ![t] = NoMsg]
      /\ InboxOf(f)' = [InboxOf(f) EXCEPT ![current] = msg_arr[f][Oldest(f)]]
      /\ \A h \in Fids : h # f => SameOffers(h) /\ SameInbox(h)
  BY <1>0, <1>1, TakenOffer
<1>3. CASE g # f
  <2>1. SameRing(g)
    BY <1>1, <1>3 DEF SameRing, ChannelInv, MsgInv, MsgTypeOK
  <2> QED BY <1>2, <1>3, <2>1, RingStays, ChannelStutters
<1>4. CASE g = f
  <2>1. /\ n \in Nat /\ arr \in Rings(Msgs \cup {NoMsg}, n) /\ i \in Writable(n)
        /\ number_of_msgs[f] = n /\ n # 0
    BY <1>1, RingOf DEF Empty, Full, ChannelInv
  <2>2. /\ msg_arr'[f] = [arr EXCEPT ![i] = v] /\ iffc'[f] = (i + 1) % n
        /\ number_of_msgs'[f] = n /\ size'[f] = n
    BY <1>1, <2>1 DEF ChannelInv, MsgInv, MsgTypeOK
  <2>3. /\ Box(f) = BoxIn(arr, n, i, n)
        /\ Box(f)' = BoxIn([arr EXCEPT ![i] = v], n, (i + 1) % n, n)
        /\ msg_arr[f][Oldest(f)] = arr[(i - n) % n]
    BY <2>1, <2>2, BoxIsIn DEF Oldest
  <2> HIDE DEF n, i, arr
  <2>4. i \in 0 .. n - 1 /\ n \in 1 .. n /\ n - 1 \in 0 .. n - 1 /\ n - 1 + 1 = n
    BY <2>1 DEF Writable
  <2>5. /\ Box(f) # <<>> /\ Head(Box(f)) = msg_arr[f][Oldest(f)]
        /\ BoxIn(arr, n, i, n - 1) = Tail(Box(f))
    <3> DEFINE M == Msgs \cup {NoMsg}
    <3>1. arr \in Rings(M, n) /\ n \in Nat
      BY <2>1
    <3> HIDE DEF M
    <3>2. /\ BoxIn(arr, n, i, n) # <<>> /\ Head(BoxIn(arr, n, i, n)) = arr[(i - n) % n]
          /\ BoxIn(arr, n, i, n - 1) = Tail(BoxIn(arr, n, i, n))
      BY <2>4, <3>1, BoxTail
    <3> QED BY <2>3, <3>2
  <2>6. Box(f)' = Append(Tail(Box(f)), v)
    <3> DEFINE brr == [arr EXCEPT ![i] = v]
    <3>1. Rewritten(arr, brr, n, i, v)
      BY <2>1, <2>4 DEF Rewritten, Rings
    <3>2. Box(f)' = BoxIn(brr, n, (i + 1) % n, n)
      BY <2>3
    <3> HIDE DEF brr
    <3>3. BoxIn(brr, n, (i + 1) % n, n - 1 + 1) = Append(BoxIn(arr, n, i, n - 1), v)
      <4> DEFINE M == Msgs \cup {NoMsg}
      <4>1. arr \in Rings(M, n) /\ n \in Nat /\ v \in M
        BY <1>2, <2>1
      <4> HIDE DEF M
      <4> QED BY <2>4, <3>1, <4>1, BoxAppend
    <3> QED BY <2>4, <2>5, <3>2, <3>3
  <2>7. size'[f] = size[f]
    BY <1>1
  <2>8. InboxOf(f)' = [InboxOf(f) EXCEPT ![current] = Head(Box(f))]
    BY <1>2, <2>5
  <2> QED BY <1>2, <1>4, <2>5, <2>6, <2>7, <2>8, TakeAndRefillStep
<1> QED BY <1>3, <1>4

-----------------------------------------------------------------------------
(* A call that blocks gives nothing to anybody, and adds the process that  *)
(* makes it to the list of its kind.                                       *)
LEMMA BlockingFacts ==
  ASSUME MsgInv, NEW name \in {"psend", "preceive"}, MsgAsked(name), NEW f \in Fids,
         NEW n, n = IF name = "psend" THEN blocked_prod[f] ELSE blocked_cons[f],
         BlockOn(n), pending' = [pending EXCEPT ![current] = <<name, f>>],
         \A x \in Procs : x # current => value'[x] = value[x],
         UNCHANGED <<ringVars, status, got>>, NEW g \in Fids
  PROVE  /\ current \in Procs /\ Alive(current)
         /\ ~ Has(queue[blocked_prod[g]], current)
         /\ \A x \in Procs : Has(queue'[blocked_prod[g]], x) <=>
               Has(queue[blocked_prod[g]], x) \/ (name = "psend" /\ g = f /\ x = current)
         /\ \A x \in Procs : Alive(x)' <=> Alive(x)
         /\ SameBox(g) /\ SameInbox(g)
<1>1. /\ Running /\ current \in Procs /\ current # Idle /\ pending[current] = Nothing
      /\ n \in Foreign
  BY Caller, OwnQueues
<1>2. /\ \A x \in Procs : Alive(x)' <=> Alive(x)
      /\ \A m \in Queues : ~ Has(queue[m], current)
      /\ \A m \in Queues : \A x :
            Has(queue'[m], x) <=> Has(queue[m], x) \/ (m = n /\ x = current)
  BY <1>1, BlockOnFacts DEF MsgInv
<1>3. /\ blocked_prod[g] \in Queues /\ blocked_cons[g] \in Queues
      /\ blocked_prod[g] = n <=> name = "psend" /\ g = f
      /\ blocked_cons[g] = n <=> name = "preceive" /\ g = f
  BY OwnQueues
<1>4. Alive(current)
  BY <1>1, OnTheHart DEF MsgInv, Alive
<1>5. SameBox(g)
  BY RingStays DEF SameRing, ringVars
<1>6. ASSUME NEW x \in Procs PROVE Handed(x, g)' <=> Handed(x, g)
  <2>1. CASE x # current
    <3>1. pending'[x] = pending[x] /\ status'[x] = status[x]
      BY <2>1 DEF MsgInv, MsgTypeOK
    <3>2. Has(queue'[blocked_cons[g]], x) <=> Has(queue[blocked_cons[g]], x)
      BY <1>2, <1>3, <2>1
    <3> QED BY <3>1, <3>2 DEF Handed, In
  <2>2. CASE x = current
    <3>1. pending'[x] = <<name, f>> /\ pending[x] = Nothing
      BY <1>1, <2>2 DEF MsgInv, MsgTypeOK
    <3>2. pending'[x] = <<"preceive", g>> => Has(queue'[blocked_cons[g]], x)
      BY <1>2, <1>3, <2>2, <3>1
    <3> QED BY <3>1, <3>2, CallIsSomething DEF Handed, In
  <2> QED BY <2>1, <2>2
<1>7. ASSUME NEW x \in Procs PROVE InboxOf(g)'[x] = InboxOf(g)[x]
  <2>1. Handed(x, g) => x # current
    BY <1>1, CallIsSomething DEF Handed
  <2>2. /\ InboxOf(g)[x] = IF Handed(x, g) THEN value[x] ELSE got[g][x]
        /\ InboxOf(g)'[x] = IF Handed(x, g)' THEN value'[x] ELSE got'[g][x]
    BY InboxesOf
  <2> QED BY <1>6, <2>1, <2>2
<1>8. SameInbox(g)
  BY <1>7, InboxEqual
<1>9. \A x \in Procs : Has(queue'[blocked_prod[g]], x) <=>
         Has(queue[blocked_prod[g]], x) \/ (name = "psend" /\ g = f /\ x = current)
  BY <1>2, <1>3
<1> QED BY <1>1, <1>2, <1>3, <1>4, <1>5, <1>8, <1>9

LEMMA PsendBlockSteps ==
  ASSUME MsgInv, NEW f \in Fids, NEW m \in Msgs, PsendBlock(f, m), NEW g \in Fids
  PROVE  ChannelStep(g)
<1>1. /\ MsgAsked("psend") /\ BlockOn(blocked_prod[f]) /\ Full(f)
      /\ pending' = [pending EXCEPT ![current] = <<"psend", f>>]
      /\ UNCHANGED <<ringVars, status, got>> /\ value' = [value EXCEPT ![current] = m]
  BY DEF PsendBlock, MsgCalling
<1>2. \A x \in Procs : value'[x] = IF x = current THEN m ELSE value[x]
  BY <1>1 DEF MsgInv, MsgTypeOK
<1>3. /\ current \in Procs /\ ~ Has(queue[blocked_prod[g]], current)
      /\ \A x \in Procs : Has(queue'[blocked_prod[g]], x) <=>
            Has(queue[blocked_prod[g]], x) \/ (g = f /\ x = current)
      /\ SameBox(g) /\ SameInbox(g)
  BY <1>1, <1>2, BlockingFacts
<1>4. OfferTo(g)[current] = NoMsg
  BY <1>3, OffersOf
<1>5. CASE g # f
  <2>1. ASSUME NEW x \in Procs PROVE OfferTo(g)'[x] = OfferTo(g)[x]
    BY <1>2, <1>3, <1>5, OffersOf
  <2> QED BY <1>3, <2>1, OffersEqual, ChannelStutters
<1>6. CASE g = f
  <2>1. PICK c \in Procs : c = current
    BY <1>3
  <2>2. ASSUME NEW x \in Procs PROVE OfferTo(f)'[x] = IF x = c THEN m ELSE OfferTo(f)[x]
    BY <1>2, <1>3, <1>6, <2>1, OffersOf
  <2>3. OfferTo(f)' = [OfferTo(f) EXCEPT ![c] = m]
    BY <2>2, OffersChange
  <2>4. Len(Box(f)) = size[f]
    BY <1>1, RingOf DEF Full
  <2> QED BY <1>3, <1>4, <1>6, <2>1, <2>3, <2>4, OfferStep
<1> QED BY <1>5, <1>6

LEMMA PreceiveBlockSteps ==
  ASSUME MsgInv, NEW f \in Fids, PreceiveBlock(f), NEW g \in Fids
  PROVE  ChannelStep(g)
<1>1. /\ MsgAsked("preceive") /\ BlockOn(blocked_cons[f])
      /\ pending' = [pending EXCEPT ![current] = <<"preceive", f>>]
      /\ UNCHANGED <<ringVars, status, got>> /\ value' = value
  BY DEF PreceiveBlock, MsgCalling
<1>2. /\ \A x \in Procs : Has(queue'[blocked_prod[g]], x) <=> Has(queue[blocked_prod[g]], x)
      /\ SameBox(g) /\ SameInbox(g)
  BY <1>1, BlockingFacts
<1>3. ASSUME NEW x \in Procs PROVE OfferTo(g)'[x] = OfferTo(g)[x]
  BY <1>1, <1>2, OffersOf
<1> QED BY <1>2, <1>3, OffersEqual, ChannelStutters
-----------------------------------------------------------------------------
(* preset and pdelete: whoever is blocked on the queue is given an error.  *)
LEMMA FreeBlockedSteps ==
  ASSUME MsgInv, Running, NEW f \in Fids, FreeBlocked(f), NEW g \in Fids
  PROVE  ChannelStep(g)
<1>1. /\ \A m \in Queues : \A x :
            Has(queue'[m], x) <=> \/ Has(queue[m], x) /\ ~ BlockedIn(f, x)
                                  \/ m = "activatable" /\ BlockedIn(f, x)
      /\ \A x \in Procs : status'[x] = IF BlockedIn(f, x) THEN "ERROR" ELSE status[x]
  BY FreeBlockedFacts DEF MsgInv
<1>2. /\ number_of_msgs' = [number_of_msgs EXCEPT ![f] = 0] /\ iffc' = [iffc EXCEPT ![f] = 0]
      /\ size' = size /\ msg_arr' = msg_arr /\ value' = value /\ pending' = pending /\ got' = got
  BY DEF FreeBlocked
<1>3. ASSUME NEW x \in Procs
      PROVE  /\ Has(queue'[blocked_cons[g]], x)
                  <=> Has(queue[blocked_cons[g]], x) /\ ~ BlockedIn(f, x)
             /\ Has(queue'[blocked_prod[g]], x)
                  <=> Has(queue[blocked_prod[g]], x) /\ ~ BlockedIn(f, x)
  <2>1. /\ blocked_cons[g] \in Queues /\ blocked_cons[g] # "activatable"
        /\ blocked_prod[g] \in Queues /\ blocked_prod[g] # "activatable"
    BY OwnQueues DEF SchedulerQueues
  <2> QED BY <1>1, <2>1
<1>4. ASSUME NEW x \in Procs, BlockedIn(f, x)
      PROVE  /\ pending[x] = <<"preceive", f>> \/ pending[x] = <<"psend", f>>
             /\ pending[x] = <<"preceive", f>> => Has(queue[blocked_cons[f]], x)
  BY <1>4 DEF MsgInv, PendingFits, In, BlockedIn
<1>5. ASSUME NEW x \in Procs PROVE Handed(x, g)' <=> Handed(x, g)
  <2>1. CASE ~ BlockedIn(f, x)
    BY <1>1, <1>2, <1>3, <2>1 DEF Handed, In
  <2>2. CASE BlockedIn(f, x)
    <3>1. ~ Handed(x, g)
      BY <1>4, <2>2 DEF Handed, In
    <3>2. status'[x] # "RECEIVED"
      BY <1>1, <2>2
    <3> QED BY <3>1, <3>2 DEF Handed
  <2> QED BY <2>1, <2>2
<1>6. SameInbox(g)
  <2>1. ASSUME NEW x \in Procs PROVE InboxOf(g)'[x] = InboxOf(g)[x]
    <3>1. /\ InboxOf(g)[x] = IF Handed(x, g) THEN value[x] ELSE got[g][x]
          /\ InboxOf(g)'[x] = IF Handed(x, g)' THEN value'[x] ELSE got'[g][x]
      BY InboxesOf
    <3> QED BY <1>2, <1>5, <3>1
  <2> QED BY <2>1, InboxEqual
<1>7. CASE g # f
  <2>1. ASSUME NEW x \in Procs, Has(queue[blocked_prod[g]], x) PROVE ~ BlockedIn(f, x)
    <3>1. pending[x] = <<"psend", g>>
      BY <2>1 DEF MsgInv, PendingFits, In
    <3> QED BY <1>4, <1>7, <3>1
  <2>2. ASSUME NEW x \in Procs PROVE OfferTo(g)'[x] = OfferTo(g)[x]
    BY <1>2, <1>3, <2>1, OffersOf
  <2>3. SameRing(g)
    BY <1>2, <1>7 DEF SameRing, MsgInv, MsgTypeOK
  <2> QED BY <1>6, <2>2, <2>3, OffersEqual, RingStays, ChannelStutters
<1>8. CASE g = f
  <2>1. ASSUME NEW x \in Procs PROVE OfferTo(f)'[x] = NoMsg
    BY <1>3, <1>8, OffersOf DEF BlockedIn
  <2>2. Box(f)' = <<>>
    <3> DEFINE M == Msgs \cup {NoMsg}
               n == size[f]
               arr == msg_arr[f]
    <3>1. n \in Nat /\ arr \in Rings(M, n)
      BY RingOf
    <3>2. Box(f)' = BoxIn(arr, n, 0, 0)
      <4>1. iffc'[f] = 0 /\ number_of_msgs'[f] = 0
        BY <1>2 DEF MsgInv, MsgTypeOK
      <4> QED BY <1>2, <4>1, BoxIsIn
    <3> HIDE DEF M, n, arr
    <3>3. 0 \in Writable(n)
      BY DEF Writable
    <3>4. BoxIn(arr, n, 0, 0) = <<>>
      BY <3>1, <3>3, BoxEmpty
    <3> QED BY <3>2, <3>4
  <2>3. size'[f] = size[f]
    BY <1>2
  <2> QED BY <1>6, <1>8, <2>1, <2>2, <2>3, AbandonedStep
<1> QED BY <1>7, <1>8

(* A process goes on with what it has been handed.                         *)
LEMMA ReturnSteps ==
  ASSUME MsgInv, NEW f \in Fids, PsendReturn(f) \/ PreceiveReturn(f), NEW g \in Fids
  PROVE  ChannelStep(g)
<1>1. /\ Running /\ queue' = queue /\ value' = value /\ status' = status
      /\ pending' = [pending EXCEPT ![current] = Nothing]
      /\ UNCHANGED ringVars
  BY DEF PsendReturn, PreceiveReturn, vars, schedVars
<1>2. current \in Procs /\ \A m \in Queues : ~ Has(queue[m], current)
  BY <1>1, OnTheHart DEF MsgInv
<1>3. \A x \in Procs : pending'[x] = IF x = current THEN Nothing ELSE pending[x]
  BY <1>1 DEF MsgInv, MsgTypeOK
<1>4. SameBox(g)
  BY <1>1, RingStays DEF SameRing, ringVars
<1>5. SameOffers(g)
  <2>1. ASSUME NEW x \in Procs PROVE OfferTo(g)'[x] = OfferTo(g)[x]
    BY <1>1, OffersOf
  <2> QED BY <2>1, OffersEqual
<1>6. ASSUME NEW x \in Procs, x # current
      PROVE  got'[g][x] = got[g][x] /\ (Handed(x, g)' <=> Handed(x, g))
  <2>1. got'[g][x] = got[g][x]
    <3>1. got' = got \/ got' = [got EXCEPT ![f][current] = value[current]]
      BY DEF PsendReturn, PreceiveReturn
    <3> QED BY <1>6, <3>1 DEF MsgInv, MsgTypeOK
  <2> QED BY <1>1, <1>3, <1>6, <2>1 DEF Handed, In
<1>7. IF Handed(current, g) THEN got'[g][current] = value[current]
                            ELSE got'[g][current] = got[g][current]
  <2>1. CASE PsendReturn(f)
    <3>1. pending[current] = <<"psend", f>> /\ got' = got
      BY <2>1 DEF PsendReturn
    <3> QED BY <3>1 DEF Handed
  <2>2. CASE PreceiveReturn(f)
    <3>1. /\ pending[current] = <<"preceive", f>>
          /\ got' = IF status[current] = "RECEIVED"
                    THEN [got EXCEPT ![f][current] = value[current]] ELSE got
      BY <2>2 DEF PreceiveReturn
    <3>2. ~ Has(queue[blocked_cons[g]], current)
      BY <1>2, OwnQueues
    <3>3. Handed(current, g) <=> g = f /\ status[current] = "RECEIVED"
      BY <3>1, <3>2 DEF Handed, In
    <3> QED BY <1>2, <3>1, <3>3 DEF MsgInv, MsgTypeOK
  <2> QED BY <2>1, <2>2
<1>8. ASSUME NEW x \in Procs PROVE InboxOf(g)'[x] = InboxOf(g)[x]
  <2>1. /\ InboxOf(g)[x] = IF Handed(x, g) THEN value[x] ELSE got[g][x]
        /\ InboxOf(g)'[x] = IF Handed(x, g)' THEN value'[x] ELSE got'[g][x]
    BY InboxesOf
  <2>2. CASE x # current
    BY <1>1, <1>6, <2>1, <2>2
  <2>3. CASE x = current
    <3>1. ~ Handed(x, g)'
      BY <1>3, <2>3, CallIsSomething DEF Handed
    <3> QED BY <1>7, <2>1, <2>3, <3>1
  <2> QED BY <2>2, <2>3
<1> QED BY <1>4, <1>5, <1>8, InboxEqual, ChannelStutters

-----------------------------------------------------------------------------
(* The steps of Process: what ends a process ends its offer and its inbox. *)
LEMMA LifeSteps ==
  ASSUME SendersKeepPrio, ChannelInv, MsgInv', Next, Forget, UNCHANGED ringVars, NEW g \in Fids
  PROVE  ChannelStep(g)
<1>1. QueuesSpared
  <2>1. TargetsParked
    BY SchedulerAssumption DEF ChannelInv, MsgInv, Parked, SendersKeepPrio, TargetsParked
  <2> QED BY <2>1, NextSparesQueues DEF ChannelInv, MsgInv
<1>2. /\ blocked_prod[g] \in Foreign /\ blocked_cons[g] \in Foreign
      /\ SameBox(g)
  BY OwnQueues, RingStays DEF SameRing, ringVars
<1>3. ASSUME NEW x \in Procs
      PROVE  /\ value'[x] = IF (state[x] = "UNUSED") # (state'[x] = "UNUSED")
                           THEN NoMsg ELSE value[x]
             /\ status'[x] = IF (state[x] = "UNUSED") # (state'[x] = "UNUSED")
                            THEN "RECEIVED" ELSE status[x]
             /\ pending'[x] = IF ~ Alive(x)' THEN Nothing ELSE pending[x]
             /\ got'[g][x] = IF ~ Alive(x)' THEN NoMsg ELSE got[g][x]
  BY DEF Forget
<1>4. ASSUME NEW x \in Procs
      PROVE  /\ OfferTo(g)[x] = IF Has(queue[blocked_prod[g]], x) THEN value[x] ELSE NoMsg
             /\ OfferTo(g)'[x] = IF Has(queue'[blocked_prod[g]], x) THEN value'[x] ELSE NoMsg
             /\ InboxOf(g)[x] = IF Handed(x, g) THEN value[x] ELSE got[g][x]
             /\ InboxOf(g)'[x] = IF Handed(x, g)' THEN value'[x] ELSE got'[g][x]
  BY OffersOf, InboxesOf
(* Who lives on.                                                           *)
<1>5. ASSUME NEW x \in Procs, Alive(x), Alive(x)'
      PROVE  OfferTo(g)'[x] = OfferTo(g)[x] /\ InboxOf(g)'[x] = InboxOf(g)[x]
  <2>1. /\ value'[x] = value[x] /\ status'[x] = status[x] /\ pending'[x] = pending[x]
        /\ got'[g][x] = got[g][x]
    BY <1>3, <1>5 DEF Alive
  <2>2. /\ Has(queue'[blocked_prod[g]], x) <=> Has(queue[blocked_prod[g]], x)
        /\ Has(queue'[blocked_cons[g]], x) <=> Has(queue[blocked_cons[g]], x)
    BY <1>1, <1>2, <1>5 DEF QueuesSpared
  <2>3. Handed(x, g)' <=> Handed(x, g)
    BY <2>1, <2>2 DEF Handed, In
  <2> QED BY <1>4, <2>1, <2>2, <2>3
(* Who is not alive has offered and been given nothing.                    *)
<1>6. ASSUME NEW x \in Procs, ~ Alive(x)'
      PROVE  OfferTo(g)'[x] = NoMsg /\ InboxOf(g)'[x] = NoMsg
  <2>1. pending'[x] = Nothing /\ got'[g][x] = NoMsg
    BY <1>3, <1>6
  <2>2. ~ Has(queue'[blocked_prod[g]], x)
    BY <2>1, CallIsSomething DEF MsgInv, PendingFits, In
  <2>3. ~ Handed(x, g)'
    BY <2>1, CallIsSomething DEF Handed
  <2> QED BY <1>4, <2>1, <2>2, <2>3
<1>7. ASSUME NEW x \in Procs, ~ Alive(x)
      PROVE  /\ OfferTo(g)[x] = NoMsg /\ InboxOf(g)[x] = NoMsg
             /\ OfferTo(g)'[x] = NoMsg /\ InboxOf(g)'[x] = NoMsg
  <2>1. pending[x] = Nothing /\ got[g][x] = NoMsg
    BY <1>7 DEF ChannelInv, MsgInv, PendingFits, DeadForget
  <2>2. ~ Has(queue[blocked_prod[g]], x)
    BY <2>1, CallIsSomething DEF ChannelInv, MsgInv, PendingFits, In
  <2>3. ~ Handed(x, g)
    BY <2>1, CallIsSomething DEF Handed
  <2>4. CASE Alive(x)'
    <3>1. ~ Has(queue'[blocked_prod[g]], x)
      BY <1>1, <1>2, <2>2 DEF QueuesSpared
    <3>2. pending'[x] = Nothing /\ got'[g][x] = NoMsg
      BY <1>3, <2>1, <2>4
    <3>3. ~ Handed(x, g)'
      BY <3>2, CallIsSomething DEF Handed
    <3> QED BY <1>4, <2>1, <2>2, <2>3, <3>1, <3>2, <3>3
  <2> QED BY <1>4, <1>6, <2>1, <2>2, <2>3, <2>4
<1>8. PICK p \in Procs : \A x \in Procs : x # p => (Alive(x) => Alive(x)')
  BY NextEndsOne DEF ChannelInv, MsgInv, OneEnds, Lives
<1>9. ASSUME NEW x \in Procs, x # p \/ ~ Alive(p) \/ Alive(p)'
      PROVE  OfferTo(g)'[x] = OfferTo(g)[x] /\ InboxOf(g)'[x] = InboxOf(g)[x]
  BY <1>5, <1>7, <1>8, <1>9
<1>10. CASE ~ Alive(p) \/ Alive(p)'
  BY <1>2, <1>9, <1>10, OffersEqual, InboxEqual, ChannelStutters
<1>11. CASE Alive(p) /\ ~ Alive(p)'
  <2>1. ASSUME NEW x \in Procs
        PROVE  /\ OfferTo(g)'[x] = IF x = p THEN NoMsg ELSE OfferTo(g)[x]
               /\ InboxOf(g)'[x] = IF x = p THEN NoMsg ELSE InboxOf(g)[x]
    BY <1>6, <1>9, <1>11
  <2>2. OfferTo(g)' = [OfferTo(g) EXCEPT ![p] = NoMsg]
    BY <2>1, OffersChange
  <2>3. InboxOf(g)' = [InboxOf(g) EXCEPT ![p] = NoMsg]
    BY <2>1, InboxChanges
  <2> QED BY <1>2, <2>2, <2>3, DieStep
<1> QED BY <1>10, <1>11
-----------------------------------------------------------------------------
(* ChannelInv holds of every initial state, and every step keeps it.       *)
LEMMA OffersKept ==
  ASSUME OffersFit,
         \A x \in Procs, g \in Fids : Has(queue'[blocked_prod[g]], x) =>
            \/ value'[x] \in Msgs
            \/ Has(queue[blocked_prod[g]], x) /\ value'[x] = value[x]
  PROVE  OffersFit'
BY DEF OffersFit, In

LEMMA GotKept ==
  ASSUME MsgInv, DeadForget, \A x \in Procs : Alive(x)' <=> Alive(x),
         current \in Procs, Alive(current),
         NEW f \in Fids, NEW m, got' = got \/ got' = [got EXCEPT ![f][current] = m]
  PROVE  DeadForget'
<1>1. ASSUME NEW x \in Procs, NEW g \in Fids, ~ Alive(x)' PROVE got'[g][x] = NoMsg
  <2>1. x # current /\ got[g][x] = NoMsg
    BY <1>1 DEF DeadForget
  <2>2. got'[g][x] = got[g][x]
    <3>1. got \in [Fids -> [Procs -> Msgs \cup {NoMsg}]]
      BY DEF MsgInv, MsgTypeOK
    <3>2. CASE got' = [got EXCEPT ![f][current] = m]
      <4>1. PICK c : c = current
        OBVIOUS
      <4>2. got' = [got EXCEPT ![f] = [got[f] EXCEPT ![c] = m]]
        BY <3>2, <4>1
      <4>3. [got[f] EXCEPT ![c] = m][x] = got[f][x]
        BY <2>1, <3>1, <4>1
      <4>4. got'[g] = IF g = f THEN [got[f] EXCEPT ![c] = m] ELSE got[g]
        BY <3>1, <4>2
      <4> QED BY <4>3, <4>4
    <3> QED BY <3>2
  <2> QED BY <2>1, <2>2
<1> QED BY <1>1 DEF DeadForget

LEMMA LifeKeepsChannels ==
  ASSUME SendersKeepPrio, ChannelInv, MsgInv', Next, Forget
  PROVE  OffersFit' /\ DeadForget'
<1>1. QueuesSpared
  <2>1. TargetsParked
    BY SchedulerAssumption DEF ChannelInv, MsgInv, Parked, SendersKeepPrio, TargetsParked
  <2> QED BY <2>1, NextSparesQueues DEF ChannelInv, MsgInv
<1>2. ASSUME NEW x \in Procs, NEW g \in Fids, Has(queue'[blocked_prod[g]], x)
      PROVE  Has(queue[blocked_prod[g]], x) /\ value'[x] = value[x]
  <2>1. Has(queue[blocked_prod[g]], x)
    BY <1>1, <1>2, OwnQueues DEF QueuesSpared
  <2>2. Alive(x)
    BY <2>1, CallIsSomething DEF ChannelInv, MsgInv, PendingFits, In
  <2>3. Alive(x)'
    BY <1>2, CallIsSomething DEF MsgInv, PendingFits, In
  <2> QED BY <2>1, <2>2, <2>3 DEF Forget, Alive
<1>3. OffersFit'
  BY <1>2, OffersKept DEF ChannelInv
<1>4. DeadForget'
  BY DEF DeadForget, Forget
<1> QED BY <1>3, <1>4

LEMMA QuietCallKeeps ==
  ASSUME ChannelInv, UNCHANGED <<state, queue, value>>, current \in Procs, Alive(current),
         NEW f \in Fids, NEW m, got' = got \/ got' = [got EXCEPT ![f][current] = m]
  PROVE  OffersFit' /\ DeadForget'
<1>1. OffersFit'
  BY OffersKept DEF ChannelInv
<1>2. \A x \in Procs : Alive(x)' <=> Alive(x)
  BY DEF Alive
<1> QED BY <1>1, <1>2, GotKept DEF ChannelInv

LEMMA WakeKeepsChannels ==
  ASSUME ChannelInv, Running, NEW n \in Foreign, queue[n] # <<>>,
         Wakes(n, "ACTIVATABLE") \/ Wakes(n, "BLOCKEDQUEUE"),
         \A x \in Procs : x # QueueTop(queue[n]) => value'[x] = value[x]
  PROVE  OffersFit' /\ \A x \in Procs : Alive(x)' <=> Alive(x)
<1>1. PICK t : t = QueueTop(queue[n])
  OBVIOUS
<1>2. /\ \A x \in Procs : Alive(x)' <=> Alive(x)
      /\ \A m \in Queues : \A x :
            Has(queue'[m], x) <=> (Has(queue[m], x) /\ x # t) \/ (m = "activatable" /\ x = t)
  BY <1>1, WakesFacts DEF ChannelInv, MsgInv
<1>3. ASSUME NEW x \in Procs, NEW g \in Fids, Has(queue'[blocked_prod[g]], x)
      PROVE  Has(queue[blocked_prod[g]], x) /\ value'[x] = value[x]
  <2>1. blocked_prod[g] \in Queues /\ blocked_prod[g] # "activatable"
    BY OwnQueues DEF SchedulerQueues
  <2> QED BY <1>1, <1>2, <1>3, <2>1
<1>4. OffersFit'
  BY <1>3, OffersKept DEF ChannelInv
<1> QED BY <1>2, <1>4

-----------------------------------------------------------------------------
LEMMA BlockKeepsChannels ==
  ASSUME ChannelInv, NEW name \in {"psend", "preceive"}, MsgAsked(name), NEW f \in Fids,
         NEW n, n = IF name = "psend" THEN blocked_prod[f] ELSE blocked_cons[f],
         BlockOn(n), pending' = [pending EXCEPT ![current] = <<name, f>>],
         \A x \in Procs : x # current => value'[x] = value[x],
         name = "psend" => value'[current] \in Msgs,
         UNCHANGED <<ringVars, status, got>>
  PROVE  OffersFit' /\ DeadForget'
<1>1. ASSUME NEW g \in Fids
      PROVE  /\ current \in Procs /\ Alive(current)
             /\ ~ Has(queue[blocked_prod[g]], current)
             /\ \A x \in Procs : Has(queue'[blocked_prod[g]], x) <=>
                   Has(queue[blocked_prod[g]], x) \/ (name = "psend" /\ g = f /\ x = current)
             /\ \A x \in Procs : Alive(x)' <=> Alive(x)
  BY BlockingFacts DEF ChannelInv
<1>2. OffersFit'
  <2>1. ASSUME NEW x \in Procs, NEW g \in Fids, Has(queue'[blocked_prod[g]], x)
        PROVE  \/ value'[x] \in Msgs
               \/ Has(queue[blocked_prod[g]], x) /\ value'[x] = value[x]
    BY <1>1, <2>1
  <2> QED BY <2>1, OffersKept DEF ChannelInv
<1> QED BY <1>1, <1>2, GotKept DEF ChannelInv

LEMMA FreeBlockedKeepsChannels ==
  ASSUME ChannelInv, Running, NEW f \in Fids, FreeBlocked(f)
  PROVE  OffersFit' /\ DeadForget'
<1>1. /\ \A x \in Procs : Alive(x)' <=> Alive(x)
      /\ \A m \in Queues : \A x :
            Has(queue'[m], x) <=> \/ Has(queue[m], x) /\ ~ BlockedIn(f, x)
                                  \/ m = "activatable" /\ BlockedIn(f, x)
  BY FreeBlockedFacts DEF ChannelInv, MsgInv
<1>2. value' = value /\ got' = got
  BY DEF FreeBlocked
<1>3. ASSUME NEW x \in Procs, NEW g \in Fids, Has(queue'[blocked_prod[g]], x)
      PROVE  Has(queue[blocked_prod[g]], x) /\ value'[x] = value[x]
  <2>1. blocked_prod[g] \in Queues /\ blocked_prod[g] # "activatable"
    BY OwnQueues DEF SchedulerQueues
  <2> QED BY <1>1, <1>2, <1>3, <2>1
<1>4. OffersFit'
  BY <1>3, OffersKept DEF ChannelInv
<1>5. current \in Procs /\ Alive(current)
  BY OnTheHart DEF ChannelInv, MsgInv, Alive
<1> QED BY <1>1, <1>2, <1>4, <1>5, GotKept DEF ChannelInv

(* Each call.                                                              *)
LEMMA PsendKeepsChannels ==
  ASSUME ChannelInv, NEW f \in Fids, NEW m \in Msgs,
         PsendHand(f, m) \/ PsendBlock(f, m) \/ PsendPut(f, m)
  PROVE  OffersFit' /\ DeadForget'
<1>1. Running /\ current \in Procs /\ Alive(current)
  BY OnTheHart DEF PsendHand, PsendBlock, PsendPut, MsgCalling, MsgAsked, ChannelInv, MsgInv, Alive
<1>2. CASE PsendHand(f, m)
  <2>1. PICK n \in Foreign : n = blocked_cons[f]
    BY OwnQueues
  <2>2. /\ queue[n] # <<>>
        /\ Wakes(n, "ACTIVATABLE") \/ Wakes(n, "BLOCKEDQUEUE")
        /\ value' = [value EXCEPT ![QueueTop(queue[n])] = m] /\ got' = got
    BY <1>2, <2>1 DEF PsendHand, NoConsumer
  <2>3. \A x \in Procs : x # QueueTop(queue[n]) => value'[x] = value[x]
    BY <2>2 DEF ChannelInv, MsgInv, MsgTypeOK
  <2>4. OffersFit' /\ \A x \in Procs : Alive(x)' <=> Alive(x)
    BY <1>1, <2>2, <2>3, WakeKeepsChannels
  <2> QED BY <1>1, <2>2, <2>4, GotKept DEF ChannelInv
<1>3. CASE PsendBlock(f, m)
  <2>1. /\ MsgAsked("psend") /\ BlockOn(blocked_prod[f])
        /\ pending' = [pending EXCEPT ![current] = <<"psend", f>>]
        /\ UNCHANGED <<ringVars, status, got>> /\ value' = [value EXCEPT ![current] = m]
    BY <1>3 DEF PsendBlock, MsgCalling
  <2>2. \A x \in Procs : value'[x] = IF x = current THEN m ELSE value[x]
    BY <2>1 DEF ChannelInv, MsgInv, MsgTypeOK
  <2>3. value'[current] \in Msgs /\ \A x \in Procs : x # current => value'[x] = value[x]
    BY <1>1, <2>2
  <2> QED BY <2>1, <2>3, BlockKeepsChannels
<1>4. CASE PsendPut(f, m)
  <2>1. UNCHANGED <<state, queue, value>> /\ got' = got
    BY <1>4 DEF PsendPut, vars, schedVars, messageVars
  <2> QED BY <1>1, <2>1, QuietCallKeeps
<1> QED BY <1>2, <1>3, <1>4

LEMMA PreceiveKeepsChannels ==
  ASSUME ChannelInv, NEW f \in Fids,
         PreceiveDirect(f) \/ PreceiveBlock(f) \/ PreceiveRefill(f) \/ PreceiveTake(f)
  PROVE  OffersFit' /\ DeadForget'
<1>1. Running /\ current \in Procs /\ Alive(current)
  BY OnTheHart DEF PreceiveDirect, PreceiveBlock, PreceiveRefill, PreceiveTake, MsgCalling,
     MsgAsked, ChannelInv, MsgInv, Alive
<1>2. CASE PreceiveDirect(f) \/ PreceiveRefill(f)
  <2>1. PICK n \in Foreign : n = blocked_prod[f]
    BY OwnQueues
  <2>2. /\ queue[n] # <<>>
        /\ Wakes(n, "ACTIVATABLE") \/ Wakes(n, "BLOCKEDQUEUE")
        /\ value' = value
    BY <1>2, <2>1 DEF PreceiveDirect, PreceiveRefill, NoProducer
  <2>3. PICK m : got' = [got EXCEPT ![f][current] = m]
    BY <1>2 DEF PreceiveDirect, PreceiveRefill
  <2>4. \A x \in Procs : x # QueueTop(queue[n]) => value'[x] = value[x]
    BY <2>2
  <2>5. OffersFit' /\ \A x \in Procs : Alive(x)' <=> Alive(x)
    BY <1>1, <2>2, <2>4, WakeKeepsChannels
  <2> QED BY <1>1, <2>3, <2>5, GotKept DEF ChannelInv
<1>3. CASE PreceiveBlock(f)
  <2>1. /\ MsgAsked("preceive") /\ BlockOn(blocked_cons[f])
        /\ pending' = [pending EXCEPT ![current] = <<"preceive", f>>]
        /\ UNCHANGED <<ringVars, status, got>> /\ value' = value
    BY <1>3 DEF PreceiveBlock, MsgCalling
  <2> QED BY <2>1, BlockKeepsChannels
<1>4. CASE PreceiveTake(f)
  <2>1. /\ UNCHANGED <<state, queue, value>>
        /\ got' = [got EXCEPT ![f][current] = msg_arr[f][Oldest(f)]]
    BY <1>4 DEF PreceiveTake, vars, schedVars
  <2> QED BY <1>1, <2>1, QuietCallKeeps
<1> QED BY <1>2, <1>3, <1>4

LEMMA ReturnKeepsChannels ==
  ASSUME ChannelInv, NEW f \in Fids, PsendReturn(f) \/ PreceiveReturn(f)
  PROVE  OffersFit' /\ DeadForget'
<1>1. Running /\ current \in Procs /\ Alive(current)
  BY OnTheHart DEF PsendReturn, PreceiveReturn, ChannelInv, MsgInv, Alive
<1>2. /\ UNCHANGED <<state, queue, value>>
      /\ got' = got \/ got' = [got EXCEPT ![f][current] = value[current]]
  BY DEF PsendReturn, PreceiveReturn, vars, schedVars
<1> QED BY <1>1, <1>2, QuietCallKeeps

LEMMA PcreateKeepsChannels ==
  ASSUME ChannelInv, NEW f \in Fids, (\E n \in Sizes : Pcreate(f, n)) \/ PcreateHuge(f)
  PROVE  OffersFit' /\ DeadForget'
<1>1. Running /\ UNCHANGED <<vars, messageVars>>
  BY DEF Pcreate, PcreateHuge, MsgAsked
<1>2. current \in Procs /\ Alive(current)
  BY <1>1, OnTheHart DEF ChannelInv, MsgInv, Alive
<1>3. UNCHANGED <<state, queue, value>> /\ got' = got
  BY <1>1 DEF vars, schedVars, messageVars
<1> QED BY <1>2, <1>3, QuietCallKeeps

LEMMA ChannelInitInv == MsgInit => ChannelInv
<1> SUFFICES ASSUME MsgInit PROVE ChannelInv
  OBVIOUS
<1>1. MsgInv
  BY MsgInitInv
<1>2. OffersFit
  <2>1. \A x \in Procs : pending[x] = Nothing
    BY DEF MsgInit
  <2> QED BY <1>1, <2>1, CallIsSomething DEF OffersFit, MsgInv, PendingFits
<1>3. DeadForget
  BY DEF MsgInit, DeadForget
<1> QED BY <1>1, <1>2, <1>3 DEF ChannelInv

LEMMA ChannelNextKeeps ==
  ASSUME SendersKeepPrio, ChannelInv, [MsgNext]_msgVars
  PROVE  ChannelInv'
<1>1. MsgInv'
  BY MsgNextKeeps DEF ChannelInv
<1>2. CASE Next /\ Forget
  BY <1>1, <1>2, LifeKeepsChannels DEF ChannelInv
<1>3. ASSUME NEW f \in Fids, Preset(f) \/ Pdelete(f) PROVE ChannelInv'
  <2>1. Running /\ FreeBlocked(f)
    BY <1>3 DEF Preset, Pdelete, MsgCalling, MsgAsked
  <2> QED BY <1>1, <2>1, FreeBlockedKeepsChannels DEF ChannelInv
<1>4. CASE MsgCall
  <2>1. PICK f \in Fids :
           \/ (\E n \in Sizes : Pcreate(f, n)) \/ PcreateHuge(f)
           \/ \E m \in Msgs : PsendHand(f, m) \/ PsendBlock(f, m) \/ PsendPut(f, m)
           \/ PreceiveDirect(f) \/ PreceiveBlock(f) \/ PreceiveRefill(f) \/ PreceiveTake(f)
           \/ Preset(f) \/ Pdelete(f)
    BY <1>4 DEF MsgCall
  <2> QED BY <1>1, <1>3, <2>1, PcreateKeepsChannels, PsendKeepsChannels, PreceiveKeepsChannels
          DEF ChannelInv
<1>5. CASE MsgReturn
  BY <1>1, <1>5, ReturnKeepsChannels DEF MsgReturn, ChannelInv
<1>6. CASE UNCHANGED msgVars
  <2>1. UNCHANGED <<state, queue, value, got>>
    BY <1>6 DEF msgVars, vars, schedVars, messageVars
  <2> QED BY <1>1, <2>1 DEF ChannelInv, OffersFit, DeadForget, In, Alive
<1> QED BY <1>2, <1>4, <1>5, <1>6 DEF MsgNext

(* Every step is one of each channel, or leaves it as it is.               *)
LEMMA ChannelSteps ==
  ASSUME SendersKeepPrio, ChannelInv, [MsgNext]_msgVars, NEW g \in Fids
  PROVE  ChannelStep(g)
<1>1. MsgInv /\ MsgInv'
  BY MsgNextKeeps DEF ChannelInv
<1>2. CASE Next /\ Forget /\ UNCHANGED ringVars
  BY <1>1, <1>2, LifeSteps
<1>3. ASSUME NEW f \in Fids, Preset(f) \/ Pdelete(f) PROVE ChannelStep(g)
  <2>1. Running /\ FreeBlocked(f)
    BY <1>3 DEF Preset, Pdelete, MsgCalling, MsgAsked
  <2> QED BY <1>1, <2>1, FreeBlockedSteps
<1>4. CASE MsgCall
  <2>1. PICK f \in Fids :
           \/ (\E n \in Sizes : Pcreate(f, n)) \/ PcreateHuge(f)
           \/ \E m \in Msgs : PsendHand(f, m) \/ PsendBlock(f, m) \/ PsendPut(f, m)
           \/ PreceiveDirect(f) \/ PreceiveBlock(f) \/ PreceiveRefill(f) \/ PreceiveTake(f)
           \/ Preset(f) \/ Pdelete(f)
    BY <1>4 DEF MsgCall
  <2> QED BY <1>1, <1>3, <2>1, PcreateSteps, PsendHandSteps, PsendBlockSteps, PsendPutSteps,
          PreceiveDirectSteps, PreceiveBlockSteps, PreceiveRefillSteps, PreceiveTakeSteps
<1>5. CASE MsgReturn
  BY <1>1, <1>5, ReturnSteps DEF MsgReturn
<1>6. CASE UNCHANGED msgVars
  <2>1. UNCHANGED <<queue, value, status, pending, got>> /\ UNCHANGED ringVars
    BY <1>6 DEF msgVars, vars, schedVars, messageVars
  <2>2. SameRing(g)
    BY <2>1 DEF SameRing, ringVars
  <2> QED BY <2>1, <2>2, QuietCall, RingStays, ChannelStutters
<1> QED BY <1>2, <1>4, <1>5, <1>6 DEF MsgNext

LEMMA ChannelStart ==
  ASSUME MsgInit, NEW f \in Fids
  PROVE  Channel(f)!ChannelInit
<1>1. /\ size[f] = 0 /\ iffc[f] = 0 /\ number_of_msgs[f] = 0 /\ value = [p \in Procs |-> NoMsg]
      /\ pending = [p \in Procs |-> Nothing] /\ got[f] = [p \in Procs |-> NoMsg]
      /\ MsgInv
  BY MsgInitInv DEF MsgInit
<1>2. Box(f) = <<>>
  BY <1>1, RingOf DEF Empty
<1>3. OfferTo(f) = [p \in Procs |-> NoMsg]
  BY <1>1 DEF OfferTo
<1>4. InboxOf(f) = [p \in Procs |-> NoMsg]
  BY <1>1, CallIsSomething DEF InboxOf
<1> QED BY <1>1, <1>2, <1>3, <1>4 DEF Channel!ChannelInit

(* Each queue is a bounded first-in first-out channel: no message is       *)
(* delivered twice, overtakes another one or is lost without an error,     *)
(* when chprio is not used on processes that send.                         *)
THEOREM IsChannelHolds ==
  ASSUME SendersKeepPrio
  PROVE  MsgSpec => IsChannel
<1>1. MsgInit => \A f \in Fids : Channel(f)!ChannelInit
  BY ChannelStart
<1>2. ChannelInv /\ [MsgNext]_msgVars => ChannelInv'
  BY ChannelNextKeeps
<1>3. ChannelInv /\ [MsgNext]_msgVars
         => [\A f \in Fids : [Channel(f)!ChannelNext]_(Channel(f)!channelVars)]_msgVars
  BY ChannelSteps DEF ChannelStep
<1> QED BY <1>1, <1>2, <1>3, ChannelInitInv, PTL DEF MsgSpec, IsChannel
=============================================================================
