---------------------------- MODULE ConsoleProofs ----------------------------
(***************************************************************************)
(* The console for any set of processes, size of the ring, keys and        *)
(* lengths: OnlyErasingFails and NotAllAsleep as theorems, and the line    *)
(* that InputLine promises.                                                *)
(*                                                                         *)
(* The inductive invariant ConsInv says of the readers what a key relies   *)
(* on: whoever is blocked on blocked_io is inside a read (ReadersFit), and *)
(* of the ring what copy relies on: an empty ring starts at 0 (RingFits),  *)
(* from where buffer_current_size is 0 and every read blocks.              *)
(*                                                                         *)
(* The hypotheses say which programs can lose a wake-up or stop the kernel *)
(* without the console being at fault.                                     *)
(***************************************************************************)
EXTENDS Console, ProcessProofs

(* Nobody is killed who may be blocked in waitpid: the assertion of kill   *)
(* that its victim is linked (process_api.c:133) fails for him.            *)
NoneKilledInWait == \A p \in Victims : "waitpid" \notin Calls[p]

(* The wake-up of a reader is lost when he ends before he looks at the     *)
(* ring, or is one who reads the device only and leaves the line there.    *)
Reads(p) == "cons_read" \in ConsCalls[p]

ReadersStay ==
  /\ \A p \in Procs : "dev_read" \in ConsCalls[p] => Reads(p)
  /\ \A p \in Procs :
       Reads(p) => "exit" \notin Calls[p] /\ ~ ("kill" \in Calls[p] /\ p \in Victims)
  /\ \A p, q \in Procs : "kill" \in Calls[p] /\ q \in Victims /\ Reads(q) => Reads(p)

-----------------------------------------------------------------------------
(* The inductive invariant.                                                *)

(* Who is inside a read or a waitpid; nobody else is blocked.              *)
WaitersFit ==
  \A p \in Procs :
     /\ call[p] # NoProc => "waitpid" \in Calls[p]
     /\ state[p] \notin {"BLOCKEDQUEUE", "BLOCKEDSEMAPHORE"}

ReadersFit ==
  \A p \in Procs :
     /\ want[p] # 0 => Alive(p) /\ ConsCalls[p] \cap {"cons_read", "dev_read"} # {}
     /\ state[p] = "BLOCKEDIO" => want[p] # 0

(* As long as no key deletes below start, an empty ring starts at 0.       *)
RingFits == ~ below /\ last = -1 => start = 0

NoAssertYet == halt = "assert" => below

ConsInv ==
  /\ ProcInv /\ ReadyLinked
  /\ ConsTypeOK
  /\ WaitersFit
  /\ ReadersFit
  /\ RingFits
  /\ NoAssertYet

-----------------------------------------------------------------------------
(* What the steps of Process do that the console sees: they block nobody   *)
(* in its queue, and whoever ends does so by a call of his own or is killed*)
(* by the process that runs.                                               *)
Ends(x) ==
  /\ Running
  /\ \/ x = current /\ ("exit" \in Calls[x] \/ ("kill" \in Calls[x] /\ x \in Victims))
     \/ x # current /\ "kill" \in Calls[current] /\ x \in Victims /\ state'[current] = "ACTIF"

StepFits(x) ==
  /\ state'[x] \in {"BLOCKEDIO", "BLOCKEDQUEUE", "BLOCKEDSEMAPHORE"} => state[x] = state'[x]
  /\ state[x] = "UNUSED" /\ state'[x] # "UNUSED" => current \in Procs
  /\ Alive(x) /\ ~ Alive(x)' => Ends(x)
  /\ call'[x] # NoProc => call'[x] = call[x] \/ "waitpid" \in Calls[x]

StepsFit ==
  /\ \A x \in Procs : StepFits(x)
  /\ halt' = "assert" => halt = "assert"

(* A step that ends nobody and starts no call.                             *)
LEMMA QuietFits ==
  ASSUME UNCHANGED <<halt, call>>,
         \A x \in Procs :
            state'[x] # state[x] =>
               /\ Alive(x) => Alive(x)'
               /\ state[x] = "UNUSED" => current \in Procs
               /\ state'[x] \notin {"BLOCKEDIO", "BLOCKEDQUEUE", "BLOCKEDSEMAPHORE"}
  PROVE  StepsFit
BY DEF StepsFit, StepFits, Alive

(* Ticks, the calls of Scheduler and the steps of scheduler().             *)
LEMMA SchedulerFits ==
  ASSUME ProcInv, ReadyLinked,
         \/ Interrupt
         \/ (SchedulerCall \/ SchedulerStep) /\ UNCHANGED lifeVars
         \/ Abandon
  PROVE  StepsFit
<1>0. state \in [Procs -> States]
  BY ProcFacts
<1>1. CASE Interrupt
  BY <1>1, QuietFits
  DEF Interrupt, Tick, TickInKernel, TickCounted, procVars, lifeVars
<1>2. CASE SchedulerCall /\ UNCHANGED lifeVars
  <2>1. ASSUME NEW ticks \in SleepTicks, current \in Sleepers, WaitClock(ticks) PROVE StepsFit
    <3>1. state[current] = "ACTIF" /\ current \in Procs /\ halt' = halt
      BY <1>2, <2>1, OnTheHart, WaitClockKeeps DEF WaitClock
    <3>2. state' = [state EXCEPT ![current] = "ASLEEP"] /\ UNCHANGED call
      BY <1>2, <2>1 DEF WaitClock, lifeVars
    <3> QED BY <1>0, <3>1, <3>2, QuietFits DEF Alive
  <2>2. CASE SetTimeOfDay
    BY <1>2, <2>2, QuietFits DEF SetTimeOfDay, procVars, lifeVars
  <2>3. ASSUME NEW p \in PrioTargets, NEW newprio \in Prios, ChPrio(p, newprio)
        PROVE  StepsFit
    <3>1. UNCHANGED <<state, call>> /\ p \in Procs
      BY <1>2, <2>3, SchedulerAssumption DEF ChPrio, lifeVars
    <3>2. halt' = halt
      BY <2>3, <3>1 DEF ChPrio, ReadyLinked, AssertThat
    <3> QED BY <3>1, <3>2, QuietFits
  <2> QED BY <1>2, <2>1, <2>2, <2>3 DEF SchedulerCall
<1>3. CASE (AwakeOne \/ AwakeDone \/ Stay) /\ UNCHANGED lifeVars
  BY <1>3, QuietFits DEF AwakeOne, AwakeDone, Stay, procVars, lifeVars
<1>4. AtSwitch => Top \in Procs /\ state[Top] \in Present
  <2> SUFFICES ASSUME AtSwitch PROVE Top \in Procs /\ state[Top] \in Present
    OBVIOUS
  <2>1. queue["activatable"] \in Seq(Procs) /\ queue["activatable"] # <<>>
    BY ProcFacts, SchedulerQueuesExist DEF AtSwitch
  <2>2. Top \in Procs /\ Has(queue["activatable"], Top)
    BY <2>1, QueueOutFacts DEF Top
  <2>3. MayBeIn(Top, "activatable")
    BY <2>2, SchedulerQueuesExist DEF ProcInv, LinksFit, In
  <2> QED BY <2>2, <2>3 DEF MayBeIn, Present
<1>5. CASE (First \/ Leave) /\ UNCHANGED lifeVars
  <2>1. /\ AtSwitch /\ state' = [state EXCEPT ![Top] = "ACTIF"]
        /\ UNCHANGED <<halt, call>>
    BY <1>5 DEF First, Leave, Dispatch, lifeVars
  <2> QED BY <1>0, <1>4, <2>1, QuietFits DEF Alive, Present
<1>6. CASE Abandon
  <2>1. /\ AtSwitch /\ state' = [state EXCEPT ![Top] = "ACTIF"] /\ UNCHANGED call
        /\ AssertThat(~ Linked(current)) /\ current \in Procs /\ state[current] = "KILLED"
    BY <1>6, ProcFacts DEF Abandon, Dispatch, lifeVars
  <2>2. ~ Linked(current)
    BY <2>1, ProcFacts DEF ProcInv, LinksFit, HartFits, MayBeIn, Linked
  <2>3. halt' = halt
    BY <2>1, <2>2 DEF AssertThat
  <2> QED BY <1>0, <1>4, <2>1, <2>3, QuietFits DEF Alive, Present
<1>7. CASE Preempt /\ UNCHANGED lifeVars
  <2>1. /\ AtSwitch /\ current \in Procs /\ state[current] = "ACTIF"
        /\ state' = [state EXCEPT ![current] = "ACTIVATABLE", ![Top] = "ACTIF"]
        /\ AssertThat(~ Linked(current)) /\ UNCHANGED call
    BY <1>7, ProcFacts DEF Preempt, Dispatch, lifeVars
  <2>2. halt' = halt
    BY <2>1, UnlinkedStates DEF AssertThat
  <2> QED BY <1>0, <1>4, <2>1, <2>2, QuietFits DEF Alive, Present
<1> QED BY <1>1, <1>2, <1>3, <1>5, <1>6, <1>7 DEF SchedulerStep

(* The end of a process: of those that are alive, it ends that one only.   *)
LEMMA DepartureFits ==
  ASSUME ProcInv, Running, NEW p \in Procs, Alive(p), p # Idle,
         NEW links, links \in [Queues -> Seq(Procs)], DisjointIn(links),
         \A m \in Queues : \A x : Has(links[m], x) <=> Has(queue[m], x) /\ x # p,
         Leaves(p, links, state),
         UNCHANGED <<prio, wake, blocked_head, current, clock>>,
         phase' \in {"user", "awake"}, p = current => phase' = "awake",
         \/ p = current /\ ("exit" \in Calls[p] \/ ("kill" \in Calls[p] /\ p \in Victims))
         \/ p # current /\ "kill" \in Calls[current] /\ p \in Victims
  PROVE  StepsFit
<1>1. CASE halt' = "use_after_free" /\ UNCHANGED <<state, queue, lifeVars>>
  BY <1>1 DEF StepsFit, StepFits, Alive, lifeVars
<1>2. CASE (\A c \in Stale(p) : state[c] = "UNUSED") /\ TurnIntoZombie(p, links, state)
  <2>1. PICK read \in ParentReads(p) :
           StatesAfter(p, read, state) /\ Free(FreedBy(p, read), children)
    BY <1>2 DEF TurnIntoZombie, StatesAfter, FreedBy, Unwanted
  <2>2. OnlyRouses(p, state) /\ state \in [Procs -> States]
    BY ProcFacts DEF OnlyRouses
  <2>3. halt' = halt
    BY <1>2, <2>2, TurnKeeps
  <2>4. /\ state'[p] \in {"UNUSED", "KILLED", "ZOMBIE"}
        /\ \A x \in FreedBy(p, read) : state'[x] = "UNUSED" /\ (x # p => state[x] = "ZOMBIE")
        /\ \A x \in Procs : x # p /\ x \notin FreedBy(p, read) =>
              state'[x] = IF Awakens(read) /\ x = parent[p] THEN "ACTIVATABLE" ELSE state[x]
    BY <2>1, <2>2, DepartureStates
  <2>5. Awakens(read) => state[parent[p]] = "BLOCKEDWAITCHILD"
    BY ParentReadsFacts
  <2>6. p # current => state'[current] = "ACTIF"
    BY <2>4, <2>5, OnTheHart
  <2>7. \A x \in Procs : call'[x] = NoProc \/ call'[x] = call[x]
    BY <2>1 DEF Free
  <2>8. ASSUME NEW x \in Procs PROVE StepFits(x)
    <3>1. CASE x = p
      BY <2>4, <2>6, <2>7, <3>1 DEF StepFits, Ends, Alive
    <3>2. CASE x # p /\ x \in FreedBy(p, read)
      BY <2>4, <2>7, <3>2 DEF StepFits, Alive
    <3>3. CASE x # p /\ x \notin FreedBy(p, read)
      BY <2>4, <2>5, <2>7, <3>3 DEF StepFits, Alive
    <3> QED BY <3>1, <3>2, <3>3
  <2> QED BY <2>3, <2>8 DEF StepsFit
<1> QED BY <1>1, <1>2 DEF Leaves

(* The calls of Process.                                                   *)
LEMMA LifeFits ==
  ASSUME ProcInv, ReadyLinked, WaitersFit, NoneKilledInWait,
         LifeCall \/ Resume \/ FreeDeadProcess
  PROVE  StepsFit
<1>0. queue \in [Queues -> Seq(Procs)] /\ DisjointIn(queue) /\ state \in [Procs -> States]
  BY ProcFacts
<1>1. ASSUME NEW p \in Procs, NEW newprio, Create(p, newprio), Running PROVE StepsFit
  <2>1. /\ state[p] = "UNUSED" /\ state' = [state EXCEPT ![p] = "ACTIVATABLE"]
        /\ UNCHANGED <<halt, call>> /\ current \in Procs
    BY <1>1, ProcFacts DEF Create, Running
  <2> QED BY <1>0, <2>1, QuietFits DEF Alive
<1>2. CASE StartVirtualBad
  BY <1>2, QuietFits DEF StartVirtualBad, schedVars
<1>3. CASE ExitProcess
  <2>1. /\ Running /\ current \in Procs /\ state[current] = "ACTIF"
        /\ \A m \in Queues : ~ Has(queue[m], current)
    BY <1>3, OnTheHart DEF ExitProcess, Calling
  <2>2. /\ Leaves(current, queue, state) /\ phase' = "awake"
        /\ UNCHANGED <<prio, wake, blocked_head, current, clock>>
        /\ "exit" \in Calls[current] \/ ("kill" \in Calls[current] /\ current \in Victims)
    BY <1>3 DEF ExitProcess, Calling, CallScheduler
  <2>3. current # Idle /\ Alive(current)
    BY <2>1, <2>2, ProcessAssumption DEF Alive
  <2>4. \A m \in Queues : \A x : Has(queue[m], x) <=> Has(queue[m], x) /\ x # current
    BY <2>1
  <2> QED BY <1>0, <2>1, <2>2, <2>3, <2>4, DepartureFits
<1>4. ASSUME NEW p \in Victims, Kill(p) PROVE StepsFit
  <2>1. /\ p \in Procs /\ p # Idle /\ Alive(p) /\ p # current /\ Running
        /\ "kill" \in Calls[current] /\ state[p] # "BLOCKEDSEMAPHORE"
        /\ phase' \in {"user", "awake"}
        /\ UNCHANGED <<prio, wake, blocked_head, current, clock>>
    BY <1>4, ProcessAssumption DEF Kill, Calling, Running
  <2>2. state[p] # "BLOCKEDWAITCHILD"
    BY <2>1 DEF ProcInv, Waiting, WaitersFit, NoneKilledInWait
  <2>3. state[p] # "ACTIF"
    BY <2>1 DEF ProcInv, HartFits
  <2>4. Linked(p)
    BY <1>0, <2>1, <2>2, <2>3 DEF ReadyLinked, Alive, States
  <2>5. Leaves(p, Unlink(queue, p), state)
    BY <1>4, <2>4 DEF Kill
  <2>6. /\ Unlink(queue, p) \in [Queues -> Seq(Procs)] /\ DisjointIn(Unlink(queue, p))
        /\ \A m \in Queues : \A x : Has(Unlink(queue, p)[m], x) <=> Has(queue[m], x) /\ x # p
    BY <1>0, <2>1, DelFrom
  <2> QED BY <2>1, <2>5, <2>6, DepartureFits
<1>5. ASSUME NEW which, Running, WaitForChild(which),
             "waitpid" \in Calls[current] \/ which = call[current]
      PROVE  StepsFit
  <2>1. /\ current \in Procs /\ state[current] = "ACTIF" /\ halt' = halt
        /\ call \in [Procs -> Procs \cup {NoProc, AnyChild}]
    BY <1>5, OnTheHart DEF WaitForChild, ProcInv, ProcTypeOK
  <2>2. CASE Block(which)
    <3>1. /\ state' = [state EXCEPT ![current] = "BLOCKEDWAITCHILD"]
          /\ call' = [call EXCEPT ![current] = which]
      BY <2>2 DEF Block
    <3> QED BY <1>0, <1>5, <2>1, <3>1 DEF StepsFit, StepFits, Alive
  <2>3. ASSUME NEW i \in DOMAIN children[current], state[children[current][i]] = "ZOMBIE", Reap(i)
        PROVE  StepsFit
    <3>1. PICK c : state[c] = "ZOMBIE" /\ state' = [state EXCEPT ![c] = "UNUSED"]
                   /\ call' = [call EXCEPT ![current] = NoProc, ![c] = NoProc]
      BY <2>3 DEF Reap
    <3> QED BY <1>0, <2>1, <3>1 DEF StepsFit, StepFits, Alive
  <2> QED BY <1>5, <2>2, <2>3, WaitForChildCases
<1>6. CASE FreeDeadProcess
  <2>1. PICK t : /\ state' = [state EXCEPT ![t] = "UNUSED"] /\ state[t] = "KILLED"
                 /\ call' = [x \in Procs |-> IF x \in {t} THEN NoProc ELSE call[x]]
                 /\ halt' = halt
    BY <1>6, DeadTop DEF FreeDeadProcess, Free
  <2> QED BY <1>0, <2>1 DEF StepsFit, StepFits, Alive
<1>7. CASE Resume \/ \E which \in Procs \cup {AnyChild} : WaitPid(which)
  BY <1>5, <1>7 DEF Resume, WaitPid, Calling
<1>8. CASE \/ \E p \in Procs, newprio \in Prios : StartVirtual(p, newprio)
           \/ \E p \in Procs : Fork(p)
  BY <1>1, <1>8 DEF StartVirtual, Fork, Calling
<1> QED BY <1>2, <1>3, <1>4, <1>6, <1>7, <1>8 DEF LifeCall

(* Every step of Process.                                                  *)
LEMMA NextFits ==
  ASSUME ProcInv, ReadyLinked, WaitersFit, NoneKilledInWait, Next
  PROVE  StepsFit
BY SchedulerFits, LifeFits DEF Next, KernelStep

-----------------------------------------------------------------------------
(* What the keys and the reads do to the ring.                             *)
RingTypeOK ==
  /\ buffer \in [Indices -> Characters \cup {"NUL"}]
  /\ start \in Indices
  /\ last \in {-1} \cup Indices
  /\ below \in BOOLEAN

RingInv == RingTypeOK /\ RingFits

LEMMA RingSize == BUFFER_SIZE \in Nat \ {0} /\ Indices \subseteq Nat
BY ConsoleAssumption DEF Indices

LEMMA PlacesFit ==
  ASSUME NEW i \in Int
  PROVE  i % BUFFER_SIZE \in Indices
BY RingSize, RemainderFits DEF Indices

(* How much of what is typed fits.                                         *)
LEMMA FitsFacts ==
  ASSUME RingTypeOK, NEW n \in Nat
  PROVE  /\ Left \in 0 .. BUFFER_SIZE
         /\ Min({n, Left}) \in 0 .. n /\ Min({n, Left}) <= Left
<1>1. Left \in 0 .. BUFFER_SIZE
  <2>1. start - last - 1 \in Int
    BY RingSize DEF RingTypeOK, Indices
  <2>2. (start - last - 1) % BUFFER_SIZE \in Indices
    BY <2>1, PlacesFit
  <2> QED BY <2>2, RingSize DEF Left, Indices
<1>2. LET m == Min({n, Left}) IN m \in {n, Left} /\ m <= n /\ m <= Left
  BY <1>1, MinOfNats
<1> QED BY <1>1, <1>2

LEMMA AddKeepsRing ==
  ASSUME RingInv, NEW c \in Characters, NEW n \in Nat, Add(c, n)
  PROVE  RingInv' /\ below' = below
<1> DEFINE fits == Min({n, Left})
<1>1. fits \in Nat
  BY FitsFacts DEF RingInv
<1>2. CASE fits = 0
  BY <1>2 DEF Add, RingInv, RingTypeOK, RingFits, ringVars
<1>3. CASE fits # 0
  <2>1. /\ buffer' = [i \in Indices |->
             IF \E j \in 1 .. fits : i = LastAfter(j) THEN c ELSE buffer[i]]
        /\ last' = LastAfter(fits)
        /\ UNCHANGED <<start, below>>
    BY <1>3 DEF Add
  <2>2. LastAfter(fits) \in Indices
    <3>1. last + fits \in Int
      BY <1>1, RingSize DEF RingInv, RingTypeOK
    <3> QED BY <3>1, PlacesFit DEF LastAfter
  <2> HIDE DEF fits
  <2>3. buffer' \in [Indices -> Characters \cup {"NUL"}]
    BY <2>1 DEF RingInv, RingTypeOK
  <2>4. last' # -1
    BY <2>1, <2>2, RingSize
  <2> QED BY <2>1, <2>2, <2>3, <2>4 DEF RingInv, RingTypeOK, RingFits
<1> QED BY <1>2, <1>3

LEMMA EraseKeepsRing ==
  ASSUME RingInv, NEW new \in -1 .. last, EraseTo(new)
  PROVE  RingInv' /\ (below => below')
<1>1. buffer' \in [Indices -> Characters \cup {"NUL"}]
  BY DEF EraseTo, RingInv, RingTypeOK
<1>2. new \in {-1} \cup Indices
  BY RingSize DEF RingInv, RingTypeOK, Indices
<1>3. below' \in BOOLEAN /\ (below => below') /\ (new = -1 /\ start # 0 => below')
      /\ last' = new /\ start' = start
  BY DEF EraseTo, RingInv, RingTypeOK
<1> QED BY <1>1, <1>2, <1>3 DEF RingInv, RingTypeOK, RingFits

(* Where deleting stops.                                                   *)
LEMMA MaxFits ==
  ASSUME NEW m \in Int, NEW S \in SUBSET (-1 .. m), S # {}
  PROVE  Max(S) \in S /\ \A y \in S : y <= Max(S)
<1> DEFINE T == {m - x : x \in S}
<1>1. T \in SUBSET Nat /\ T # {}
  <2>1. \A x \in S : m - x \in Nat
    OBVIOUS
  <2>2. PICK x \in S : TRUE
    OBVIOUS
  <2>3. m - x \in T
    OBVIOUS
  <2> QED BY <2>1, <2>3
<1>2. PICK z \in T : \A y \in T : z <= y
  BY <1>1, LeastNat
<1>3. PICK x \in S : z = m - x
  OBVIOUS
<1>4. ASSUME NEW y \in S PROVE x >= y
  <2>1. m - y \in T
    OBVIOUS
  <2>2. m - x <= m - y
    BY <1>2, <1>3, <2>1
  <2>3. x \in Int /\ y \in Int
    OBVIOUS
  <2> QED BY <2>2, <2>3
<1> QED BY <1>3, <1>4 DEF Max

LEMMA StopFits ==
  ASSUME NEW m \in Int, m >= -1, NEW J \in SUBSET (0 .. m)
  PROVE  Max({-1} \cup J) \in -1 .. m
<1>1. {-1} \cup J \in SUBSET (-1 .. m) /\ {-1} \cup J # {}
  OBVIOUS
<1>2. Max({-1} \cup J) \in {-1} \cup J
  BY <1>1, MaxFits
<1> QED BY <1>1, <1>2

LEMMA NewLastFits ==
  ASSUME RingTypeOK, NEW c \in {"BS", "DL", "DW"}
  PROVE  NewLast(c) \in -1 .. last
<1>1. last \in Int /\ last >= -1
  BY RingSize DEF RingTypeOK, Indices
<1>2. CASE c = "BS"
  <2>1. NewLast(c) = IF last # -1 /\ Before(last) # "CR" THEN last - 1 ELSE last
    BY <1>2 DEF NewLast
  <2> QED BY <1>1, <2>1
<1>3. CASE c = "DL"
  <2>1. NewLast(c) = Max({-1} \cup {j \in 0 .. last : Before(j) = "CR"})
    BY <1>3 DEF NewLast, StopAt
  <2> QED BY <1>1, <2>1, StopFits
<1>4. CASE c = "DW"
  <2> DEFINE m == Max({-1} \cup {j \in 0 .. last : Before(j) # "space"})
  <2>1. NewLast(c) = Max({-1} \cup {j \in 0 .. m : Before(j) = "space"})
    BY <1>4 DEF NewLast, StopAt
  <2>2. m \in -1 .. last
    BY <1>1, StopFits
  <2> HIDE DEF m
  <2>3. Max({-1} \cup {j \in 0 .. m : Before(j) = "space"}) \in -1 .. m
    <3>1. m \in Int /\ m >= -1
      BY <1>1, <2>2
    <3>2. {j \in 0 .. m : Before(j) = "space"} \in SUBSET (0 .. m)
      OBVIOUS
    <3> QED BY <3>1, <3>2, StopFits
  <2> QED BY <1>1, <2>1, <2>2, <2>3
<1> QED BY <1>2, <1>3, <1>4

(* How much a read takes.                                                  *)
LEMMA CopiedFacts ==
  ASSUME RingTypeOK, NEW n \in Nat
  PROVE  LET S == {n, LastPlace} \cup {i \in 0 .. LastPlace : buffer[Place(i)] = "LF"} IN
         /\ LastPlace \in Indices /\ LastPlace \in Nat
         /\ Copied(n) \in S /\ Copied(n) \in 0 .. LastPlace
         /\ \A y \in S : Copied(n) <= y
<1> DEFINE S == {n, LastPlace} \cup {i \in 0 .. LastPlace : buffer[Place(i)] = "LF"}
<1>1. LastPlace \in Indices /\ LastPlace \in Nat
  <2>1. last - start \in Int
    BY RingSize DEF RingTypeOK
  <2> QED BY <2>1, PlacesFit, RingSize DEF LastPlace
<1>2. S \in SUBSET Nat /\ S # {}
  BY <1>1
<1>3. Copied(n) = Min(S)
  BY DEF Copied
<1>4. LastPlace \in S
  OBVIOUS
<1> HIDE DEF S
<1>5. Copied(n) \in S /\ \A y \in S : Copied(n) <= y
  BY <1>2, <1>3, MinOfNats
<1>6. Copied(n) \in 0 .. LastPlace
  <2>1. Copied(n) \in Nat /\ Copied(n) <= LastPlace
    BY <1>2, <1>4, <1>5
  <2> QED BY <1>1, <2>1
<1> QED BY <1>1, <1>5, <1>6 DEF S

LEMMA BytesFit ==
  ASSUME RingTypeOK, NEW k \in Nat
  PROVE  /\ Bytes(k) \in Seq(Characters \cup {"NUL"})
         /\ Zeroed(k) \in [Indices -> Characters \cup {"NUL"}]
         /\ Place(k) \in Indices /\ Place(k + 1) \in Indices
<1>1. \A i \in Int : Place(i) \in Indices
  <2> SUFFICES ASSUME NEW i \in Int PROVE Place(i) \in Indices
    OBVIOUS
  <2>1. start + i \in Int
    BY RingSize DEF RingTypeOK
  <2> QED BY <2>1, PlacesFit DEF Place
<1>2. \A i \in 1 .. k : buffer[Place(i - 1)] \in Characters \cup {"NUL"}
  BY <1>1 DEF RingTypeOK
<1>3. Bytes(k) \in [1 .. k -> Characters \cup {"NUL"}]
  BY <1>2 DEF Bytes
<1>4. Zeroed(k) \in [Indices -> Characters \cup {"NUL"}]
  BY DEF Zeroed, RingTypeOK
<1>5. k + 1 \in Int
  OBVIOUS
<1> QED BY <1>1, <1>3, <1>4, <1>5

LEMMA CopyKeepsRing ==
  ASSUME RingInv, last # -1, below' = below, NEW n \in Nat, NEW copy_all, Copy(n, copy_all)
  PROVE  RingInv' /\ dest' \in Seq(Characters \cup {"NUL"})
<1> DEFINE k == Copied(n)
<1>1. k \in Nat /\ k + 1 \in Nat
  BY CopiedFacts DEF RingInv
<1>2. /\ buffer' \in {Zeroed(k), Zeroed(k + 1)}
      /\ dest' \in {Bytes(k), Bytes(k + 1)}
      /\ \/ start' \in {Place(k), Place(k + 1)} /\ last' = last
         \/ start' = 0 /\ last' = -1
  BY DEF Copy, SkipEol
<1>3. RingTypeOK
  BY DEF RingInv
<1> HIDE DEF k
<1>4. 0 \in Indices
  BY RingSize DEF Indices
<1>5. /\ Bytes(k) \in Seq(Characters \cup {"NUL"})
      /\ Bytes(k + 1) \in Seq(Characters \cup {"NUL"})
      /\ Zeroed(k) \in [Indices -> Characters \cup {"NUL"}]
      /\ Zeroed(k + 1) \in [Indices -> Characters \cup {"NUL"}]
      /\ Place(k) \in Indices /\ Place(k + 1) \in Indices
  BY <1>1, <1>3, BytesFit
<1> QED BY <1>2, <1>3, <1>4, <1>5 DEF RingInv, RingTypeOK, RingFits

-----------------------------------------------------------------------------
(* A key: what it does to the ring, and to the reader it wakes.            *)
LEMMA SpacesFit ==
  ASSUME RingTypeOK
  PROVE  Spaces \in Nat \ {0}
<1>1. TabStop \in Nat \ {0} /\ last \in Int
  BY ConsoleAssumption, RingSize DEF RingTypeOK
<1>2. last % TabStop \in 0 .. TabStop - 1
  BY <1>1, RemainderFits
<1> QED BY <1>1, <1>2 DEF Spaces

(* What a key that is no loop does: it adds, erases or is ignored.         *)
LEMMA KeyCases ==
  ASSUME RingTypeOK, NEW c \in Keys, NEW mode,
         IF mode = "RAW_INPUT" THEN AddRaw(c) ELSE Edit(c)
  PROVE  \/ \E ch \in Characters, n \in Nat \ {0} : Add(ch, n)
         \/ \E new \in -1 .. last : EraseTo(new)
         \/ UNCHANGED <<ringVars, below>>
<1>1. c \in AllKeys /\ Spaces \in Nat \ {0}
  BY ConsoleAssumption, SpacesFit
<1>2. CASE mode = "RAW_INPUT"
  <2> DEFINE ch == IF c \in Characters THEN c ELSE "other"
  <2>1. ch \in Characters /\ 1 \in Nat \ {0} /\ Add(ch, 1)
    BY <1>2 DEF AddRaw, Characters
  <2> QED BY <2>1
<1>3. CASE mode # "RAW_INPUT"
  <2>1. Edit(c)
    BY <1>3
  <2>2. CASE c \in {"letter", "space", "LF"}
    <3>1. Add(c, 1)
      <4>1. CASE c = "letter"
        BY <2>1, <4>1 DEF Edit
      <4>2. CASE c = "space"
        BY <2>1, <4>2 DEF Edit
      <4>3. CASE c = "LF"
        BY <2>1, <4>3 DEF Edit
      <4> QED BY <2>2, <4>1, <4>2, <4>3
    <3>2. c \in Characters /\ 1 \in Nat \ {0}
      BY <2>2 DEF Characters
    <3> QED BY <3>1, <3>2
  <2>3. CASE c = "CR"
    <3>1. "LF" \in Characters /\ 1 \in Nat \ {0} /\ Add("LF", 1)
      BY <2>1, <2>3 DEF Edit, Characters
    <3> QED BY <3>1
  <2>4. CASE c = "HT"
    <3>1. "space" \in Characters /\ Add("space", Spaces)
      BY <2>1, <2>4 DEF Edit, Characters
    <3> QED BY <1>1, <3>1
  <2>5. CASE c = "other"
    BY <2>1, <2>5 DEF Edit
  <2>6. CASE c \in {"BS", "DL", "DW"}
    <3>1. EraseTo(NewLast(c)) /\ NewLast(c) \in -1 .. last
      BY <2>1, <2>6, NewLastFits DEF Edit
    <3> QED BY <3>1
  <2> QED BY <1>1, <2>2, <2>3, <2>4, <2>5, <2>6 DEF AllKeys
<1> QED BY <1>2, <1>3

LEMMA KeyKeepsRing ==
  ASSUME RingInv, NEW c \in Keys, Key(c)
  PROVE  RingInv' /\ (below => below')
<1>1. CASE UNCHANGED <<ringVars, below>>
  BY <1>1 DEF RingInv, RingTypeOK, RingFits, ringVars
<1>2. CASE \E mode : IF mode = "RAW_INPUT" THEN AddRaw(c) ELSE Edit(c)
  <2>1. \/ \E ch \in Characters, n \in Nat \ {0} : Add(ch, n)
        \/ \E new \in -1 .. last : EraseTo(new)
        \/ UNCHANGED <<ringVars, below>>
    BY <1>2, KeyCases DEF RingInv
  <2> QED BY <1>1, <2>1, AddKeepsRing, EraseKeepsRing
<1> DEFINE mode == IF queue["blocked_io"] # <<>> THEN input_type[QueueTop(queue["blocked_io"])]
                   ELSE processing_type
<1>3. \/ UNCHANGED <<ringVars, below>>
      \/ IF mode = "RAW_INPUT" THEN AddRaw(c) ELSE Edit(c)
  BY DEF Key
<1> HIDE DEF mode
<1> QED BY <1>1, <1>2, <1>3

(* The first of the blocked readers, if there is one, is made ready.       *)
LEMMA KeyWakes ==
  ASSUME ProcInv, ReadyLinked, NEW c, Key(c)
  PROVE  LET next == QueueTop(queue["blocked_io"]) IN
         /\ ProcInv' /\ ReadyLinked'
         /\ IF queue["blocked_io"] = <<>> THEN state' = state
            ELSE /\ next \in Procs /\ Has(queue["blocked_io"], next)
                 /\ state' = [state EXCEPT ![next] = "ACTIVATABLE"]
<1> DEFINE t == QueueTop(queue["blocked_io"])
           g == Pop(queue, "blocked_io")
<1>1. /\ Running /\ halt' \in Halts
      /\ UNCHANGED <<prio, wake, blocked_head, current, clock, lifeVars>>
  BY DEF Key, Halts, ProcInv, SchedTypeOK
<1>2. CASE queue["blocked_io"] = <<>>
  <2>1. UNCHANGED <<state, queue, phase>>
    BY <1>2 DEF Key
  <2> QED BY <1>1, <1>2, <2>1, HaltKeeps, OnTheHart
<1>3. CASE queue["blocked_io"] # <<>>
  <2>1. queue \in [Queues -> Seq(Procs)] /\ DisjointIn(queue) /\ prio \in [Procs -> Int]
        /\ state \in [Procs -> States]
    BY ProcFacts
  <2>2. /\ g \in [Queues -> Seq(Procs)] /\ DisjointIn(g)
        /\ t \in Procs /\ Has(queue["blocked_io"], t)
        /\ \A m \in Queues : \A x : Has(g[m], x) <=> Has(queue[m], x) /\ x # t
    BY <1>3, <2>1, OutOf, SchedulerQueuesExist
  <2>3. /\ queue' = Link(g, "activatable", t, prio) /\ phase' = "awake"
        /\ state' = [state EXCEPT ![t] = "ACTIVATABLE"]
    BY <1>3 DEF Key, Woken, CallScheduler
  <2> HIDE DEF g, t
  <2>4. /\ queue' \in [Queues -> Seq(Procs)] /\ DisjointIn(queue')
        /\ \A m \in Queues : \A x :
              Has(queue'[m], x) <=> (Has(queue[m], x) /\ x # t) \/ (m = "activatable" /\ x = t)
    <3>1. \A m \in Queues : ~ Has(g[m], t)
      BY <2>2
    <3>2. g \in [Queues -> Seq(Procs)] /\ DisjointIn(g)
      BY <2>2
    <3>3. "activatable" \in Queues /\ t \in Procs /\ prio \in [Procs -> Int]
      BY <2>1, <2>2, SchedulerQueuesExist
    <3>4. /\ Link(g, "activatable", t, prio) \in [Queues -> Seq(Procs)]
          /\ DisjointIn(Link(g, "activatable", t, prio))
          /\ \A m \in Queues : \A x :
                 Has(Link(g, "activatable", t, prio)[m], x)
                     <=> Has(g[m], x) \/ (m = "activatable" /\ x = t)
      BY ONLY <3>1, <3>2, <3>3, AddTo, ZenonT(60)
    <3> QED BY <2>2, <2>3, <3>4
  <2>5. MayBeIn(t, "blocked_io")
    BY <2>2, SchedulerQueuesExist DEF ProcInv, LinksFit, In
  <2>6. state[t] \in Present /\ state[t] \notin {"ACTIF", "ACTIVATABLE"}
    BY <2>5 DEF MayBeIn, Present
  <2>7. /\ state' \in [Procs -> States] /\ blocked_head' \in [Procs -> Queues]
        /\ \A x \in Procs : state'[x] = IF x = t THEN "ACTIVATABLE" ELSE state[x]
    BY <1>1, <2>1, <2>2, <2>3 DEF States, ProcInv, SchedTypeOK
  <2>8. ProcInv'
    <3>1. \A x \in Procs : state'[x] = state[x] \/ (state[x] \in Present /\ state'[x] \in Present)
      BY <2>6, <2>7 DEF Present
    <3>2. \A x \in Procs : state'[x] = "ACTIF" => state[x] = "ACTIF"
      BY <2>7
    <3>3. Idle # t /\ state'[Idle] = state[Idle]
      BY <2>6, <2>7, ProcFacts DEF ProcInv, HartFits
    <3>4. ASSUME NEW x \in Procs, NEW m \in Queues, Has(queue'[m], x) PROVE MayBeIn(x, m)'
      <4>1. CASE x = t
        BY <2>4, <2>7, <3>4, <4>1 DEF MayBeIn
      <4>2. CASE x # t
        <5>1. MayBeIn(x, m)
          BY <2>4, <3>4, <4>2 DEF ProcInv, LinksFit, In
        <5> QED BY <1>1, <2>7, <4>2, <5>1 DEF MayBeIn
      <4> QED BY <4>1, <4>2
    <3>5. ASSUME NEW x \in Procs, state'[x] = "BLOCKEDQUEUE"
          PROVE  blocked_head'[x] \notin {"activatable", "asleep", "dead"}
      BY <1>1, <2>7, <3>5 DEF ProcInv, LinksFit
    <3>6. Has(queue["activatable"], Idle) => Has(queue'["activatable"], Idle)
      BY <2>4, <3>3, SchedulerQueuesExist
    <3> QED BY <1>1, <2>3, <2>4, <2>7, <3>1, <3>2, <3>3, <3>4, <3>5, <3>6, MovesKeep
  <2>9. ReadyLinked'
    <3> SUFFICES ASSUME NEW x \in Procs,
                        state'[x] \in {"ACTIVATABLE", "ASLEEP", "BLOCKEDIO", "BLOCKEDQUEUE"}
                 PROVE  \E m \in Queues : Has(queue'[m], x)
      BY DEF ReadyLinked, Linked, In
    <3>1. CASE x = t
      BY <2>4, <3>1, SchedulerQueuesExist
    <3>2. CASE x # t
      BY <2>4, <2>7, <3>2 DEF ReadyLinked, Linked, In
    <3> QED BY <3>1, <3>2
  <2> QED BY <1>3, <2>2, <2>3, <2>8, <2>9 DEF t
<1> QED BY <1>2, <1>3

(* The current process blocks in a read.                                   *)
LEMMA BlockOnIOFacts ==
  ASSUME ProcInv, ReadyLinked, Running, current # Idle, NEW n, NEW dev, BlockOnIO(n, dev),
         UNCHANGED <<prio, wake, blocked_head, current, clock, lifeVars>>
  PROVE  /\ ProcInv' /\ ReadyLinked' /\ halt' = halt
         /\ current \in Procs /\ state[current] = "ACTIF"
         /\ state' = [state EXCEPT ![current] = "BLOCKEDIO"]
<1>1. /\ current \in Procs /\ state[current] = "ACTIF" /\ phase = "user"
      /\ \A m \in Queues : ~ Has(queue[m], current)
  BY OnTheHart
<1>2. "blocked_io" \in Queues /\ "activatable" \in Queues
  BY SchedulerQueuesExist
<1>3. /\ state' \in [Procs -> States] /\ blocked_head' \in [Procs -> Queues]
      /\ \A x \in Procs : state'[x] = IF x = current THEN "BLOCKEDIO" ELSE state[x]
  BY <1>1, ProcFacts DEF BlockOnIO, States, ProcInv, SchedTypeOK
<1>4. /\ queue' \in [Queues -> Seq(Procs)] /\ DisjointIn(queue')
      /\ \A m \in Queues : \A x :
            Has(queue'[m], x) <=> Has(queue[m], x) \/ (m = "blocked_io" /\ x = current)
  <2>1. queue' = Link(queue, "blocked_io", current, prio)
    BY DEF BlockOnIO
  <2>2. queue \in [Queues -> Seq(Procs)] /\ DisjointIn(queue)
    BY ProcFacts
  <2>3. "blocked_io" \in Queues /\ current \in Procs /\ prio \in [Procs -> Int]
    BY <1>1, <1>2, ProcFacts
  <2>4. \A m \in Queues : ~ Has(queue[m], current)
    BY <1>1
  <2>5. /\ Link(queue, "blocked_io", current, prio) \in [Queues -> Seq(Procs)]
        /\ DisjointIn(Link(queue, "blocked_io", current, prio))
        /\ \A m \in Queues : \A x :
               Has(Link(queue, "blocked_io", current, prio)[m], x)
                   <=> Has(queue[m], x) \/ (m = "blocked_io" /\ x = current)
    BY ONLY <2>2, <2>3, <2>4, AddTo, ZenonT(60)
  <2> QED BY <2>1, <2>5
<1>5. phase' = "awake" /\ halt' = halt /\ halt' \in Halts
  BY <1>1 DEF BlockOnIO, AssertThat, Linked, In, CallScheduler, ProcInv, SchedTypeOK
<1>6. ProcInv'
  <2>1. \A x \in Procs : state'[x] = state[x] \/ (state[x] \in Present /\ state'[x] \in Present)
    BY <1>1, <1>3 DEF Present
  <2>2. \A x \in Procs : state'[x] = "ACTIF" => state[x] = "ACTIF"
    BY <1>3
  <2>3. state'[Idle] = state[Idle]
    BY <1>3, ProcFacts
  <2>4. ASSUME NEW x \in Procs, NEW m \in Queues, Has(queue'[m], x) PROVE MayBeIn(x, m)'
    <3>1. CASE x = current
      BY <1>1, <1>3, <1>4, <2>4, <3>1 DEF MayBeIn
    <3>2. CASE x # current
      <4>1. MayBeIn(x, m)
        BY <1>4, <2>4, <3>2 DEF ProcInv, LinksFit, In
      <4> QED BY <1>3, <3>2, <4>1 DEF MayBeIn
    <3> QED BY <3>1, <3>2
  <2>5. ASSUME NEW x \in Procs, state'[x] = "BLOCKEDQUEUE"
        PROVE  blocked_head'[x] \notin {"activatable", "asleep", "dead"}
    BY <1>3, <2>5 DEF ProcInv, LinksFit
  <2>6. Has(queue["activatable"], Idle) => Has(queue'["activatable"], Idle)
    BY <1>2, <1>4
  <2> QED BY <1>3, <1>4, <1>5, <2>1, <2>2, <2>3, <2>4, <2>5, <2>6, MovesKeep
<1>7. ReadyLinked'
  <2> SUFFICES ASSUME NEW x \in Procs,
                      state'[x] \in {"ACTIVATABLE", "ASLEEP", "BLOCKEDIO", "BLOCKEDQUEUE"}
               PROVE  \E m \in Queues : Has(queue'[m], x)
    BY DEF ReadyLinked, Linked, In
  <2> QED BY <1>2, <1>3, <1>4 DEF ReadyLinked, Linked, In
<1> QED BY <1>1, <1>5, <1>6, <1>7 DEF BlockOnIO

-----------------------------------------------------------------------------
(* The steps keep the invariant.                                           *)
LEMMA RingOfTypes == ConsTypeOK => RingTypeOK
BY DEF ConsTypeOK, RingTypeOK

LEMMA KeyKeeps ==
  ASSUME ConsInv, NEW c \in Keys, Key(c)
  PROVE  ConsInv'
<1> DEFINE t == QueueTop(queue["blocked_io"])
<1>1. /\ ProcInv' /\ ReadyLinked'
      /\ IF queue["blocked_io"] = <<>> THEN state' = state
         ELSE /\ t \in Procs /\ Has(queue["blocked_io"], t)
              /\ state' = [state EXCEPT ![t] = "ACTIVATABLE"]
  BY KeyWakes DEF ConsInv
<1>2. RingInv' /\ (below => below')
  BY KeyKeepsRing, RingOfTypes DEF ConsInv, RingInv
<1>3. state \in [Procs -> States]
  BY ProcFacts DEF ConsInv
<1>4. queue["blocked_io"] # <<>> => state[t] \in {"BLOCKEDIO", "BLOCKEDQUEUE"}
  <2>1. queue["blocked_io"] # <<>> => MayBeIn(t, "blocked_io")
    BY <1>1, SchedulerQueuesExist DEF ConsInv, ProcInv, LinksFit, In
  <2> QED BY <2>1 DEF MayBeIn
<1> HIDE DEF t
<1>5. /\ UNCHANGED <<call, echo, input_type, want, device>> /\ dest' = <<>>
      /\ halt' = "assert" => halt = "assert"
      /\ processing_type' \in {processing_type} \cup {input_type[x] : x \in Procs}
  BY <1>1 DEF Key, lifeVars, readVars, t
<1>6. \A x \in Procs :
         \/ state'[x] = state[x]
         \/ state[x] \in {"BLOCKEDIO", "BLOCKEDQUEUE"} /\ state'[x] = "ACTIVATABLE"
  BY <1>1, <1>3, <1>4
<1>7. ConsTypeOK'
  <2>1. processing_type' \in Modes
    BY <1>5 DEF ConsInv, ConsTypeOK
  <2> QED BY <1>2, <1>5, <2>1 DEF ConsInv, ConsTypeOK, RingInv, RingTypeOK
<1>8. WaitersFit'
  BY <1>5, <1>6 DEF ConsInv, WaitersFit
<1>9. ReadersFit'
  BY <1>5, <1>6 DEF ConsInv, ReadersFit, Alive
<1>10. NoAssertYet'
  BY <1>2, <1>5 DEF ConsInv, NoAssertYet
<1> QED BY <1>1, <1>2, <1>7, <1>8, <1>9, <1>10 DEF ConsInv, RingInv

(* An empty ring that starts at 0 has size 0, so the read blocks.          *)
LEMMA EmptyWaits ==
  ASSUME RingInv, ~ below, NEW n \in ReadLengths, NEW dev, ~ MustWait(n, dev)
  PROVE  last # -1
<1> SUFFICES ASSUME last = -1 PROVE FALSE
  OBVIOUS
<1>1. start = 0
  BY DEF RingInv, RingFits
<1>2. buffer_current_size = 0
  <2>1. (last - start + 1) = 0
    BY <1>1
  <2>2. 0 % BUFFER_SIZE = 0
    BY RingSize, ModOnce
  <2> QED BY <2>1, <2>2 DEF buffer_current_size
<1>3. n > 0 /\ n \in Nat
  BY ConsoleAssumption
<1> QED BY <1>2, <1>3 DEF MustWait, is_buffer_full, detected_eol, is_buffer_empty

LEMMA ReadKeeps ==
  ASSUME ConsInv, Running, NEW n \in ReadLengths, NEW dev \in BOOLEAN,
         ConsCalls[current] \cap {"cons_read", "dev_read"} # {}, ReadOrBlock(n, dev)
  PROVE  ConsInv'
<1>1. /\ current # Idle /\ RingInv
      /\ UNCHANGED <<prio, wake, blocked_head, current, clock, lifeVars, modeVars, below>>
  BY ConsoleAssumption, RingOfTypes DEF ConsInv, RingInv, ReadOrBlock
<1>2. current \in Procs /\ state[current] = "ACTIF" /\ phase = "user" /\ Alive(current)
  BY OnTheHart DEF ConsInv, Alive
<1>3. CASE BlockOnIO(n, dev)
  <2>1. /\ ProcInv' /\ ReadyLinked' /\ halt' = halt
        /\ state' = [state EXCEPT ![current] = "BLOCKEDIO"]
    BY <1>1, <1>3, BlockOnIOFacts DEF ConsInv
  <2>2. /\ want' = [want EXCEPT ![current] = n]
        /\ device' = [device EXCEPT ![current] = dev]
        /\ dest' = <<>> /\ UNCHANGED ringVars
    BY <1>3 DEF BlockOnIO
  <2>3. ConsTypeOK'
    <3>1. RingTypeOK'
      BY <1>1, <2>2 DEF RingInv, RingTypeOK, ringVars
    <3>2. want' \in [Procs -> {0} \cup ReadLengths] /\ device' \in [Procs -> BOOLEAN]
      BY <2>2 DEF ConsInv, ConsTypeOK
    <3>3. dest' \in Seq(Characters \cup {"NUL"})
      BY <2>2
    <3> QED BY <1>1, <3>1, <3>2, <3>3 DEF ConsInv, ConsTypeOK, RingTypeOK, modeVars
  <2>4. WaitersFit'
    BY <1>1, <2>1 DEF ConsInv, WaitersFit, lifeVars, ProcInv, SchedTypeOK
  <2>5. ReadersFit'
    <3>1. n # 0
      BY ConsoleAssumption
    <3>2. state \in [Procs -> States] /\ want \in [Procs -> {0} \cup ReadLengths]
      BY ProcFacts DEF ConsInv, ConsTypeOK
    <3>3. ASSUME NEW p \in Procs
          PROVE  /\ want'[p] # 0 => Alive(p)' /\ ConsCalls[p] \cap {"cons_read", "dev_read"} # {}
                 /\ state'[p] = "BLOCKEDIO" => want'[p] # 0
      <4>1. CASE p = current
        BY <1>2, <2>1, <2>2, <3>1, <3>2, <4>1 DEF Alive
      <4>2. CASE p # current
        <5>1. state'[p] = state[p] /\ want'[p] = want[p]
          BY <1>2, <2>1, <2>2, <3>2, <4>2
        <5> QED BY <5>1 DEF ConsInv, ReadersFit, Alive
      <4> QED BY <4>1, <4>2
    <3> QED BY <3>3 DEF ReadersFit
  <2>6. RingFits' /\ NoAssertYet'
    BY <1>1, <2>1, <2>2 DEF ConsInv, RingFits, NoAssertYet, ringVars
  <2> QED BY <2>1, <2>3, <2>4, <2>5, <2>6 DEF ConsInv
<1>4. CASE ~ MustWait(n, dev) /\ Return(n, dev)
  <2>1. /\ UNCHANGED <<state, queue, phase>>
        /\ want' = [want EXCEPT ![current] = 0]
        /\ device' = [device EXCEPT ![current] = FALSE]
        /\ AssertThat(last # -1)
        /\ IF last = -1 THEN UNCHANGED <<ringVars, dest>> ELSE Copy(n, dev)
    BY <1>4 DEF Return, is_buffer_empty
  <2>2. ProcInv' /\ ReadyLinked'
    <3>1. halt' \in Halts /\ phase' \in {"user", "awake"}
      BY <1>2, <2>1 DEF AssertThat, Halts, ConsInv, ProcInv, SchedTypeOK
    <3> QED BY <1>1, <1>2, <2>1, <3>1, HaltKeeps DEF ConsInv
  <2>3. n \in Nat
    BY ConsoleAssumption
  <2>4. RingInv' /\ dest' \in Seq(Characters \cup {"NUL"})
    <3>1. CASE last = -1
      BY <1>1, <2>1, <3>1 DEF ConsInv, ConsTypeOK, RingInv, RingTypeOK, RingFits, ringVars
    <3>2. CASE last # -1
      BY <1>1, <2>1, <2>3, <3>2, CopyKeepsRing
    <3> QED BY <3>1, <3>2
  <2>5. ConsTypeOK'
    BY <1>1, <2>1, <2>4 DEF ConsInv, ConsTypeOK, RingInv, RingTypeOK, modeVars
  <2>6. WaitersFit'
    BY <1>1, <2>1 DEF ConsInv, WaitersFit, lifeVars
  <2>7. ReadersFit'
    BY <1>2, <2>1 DEF ConsInv, ReadersFit, Alive, ConsTypeOK
  <2>8. NoAssertYet'
    BY <1>1, <1>4, <2>1, EmptyWaits DEF ConsInv, NoAssertYet, AssertThat
  <2> QED BY <2>2, <2>4, <2>5, <2>6, <2>7, <2>8 DEF ConsInv, RingInv
<1> QED BY <1>3, <1>4 DEF ReadOrBlock

(* The steps of the other components.                                      *)
LEMMA BesideKeeps ==
  ASSUME ConsInv, NoneKilledInWait, Beside(Next)
  PROVE  ConsInv'
<1>1. ProcInv' /\ ReadyLinked' /\ StepsFit
  BY ProcNextKeeps, NextFits DEF ConsInv, Beside
<1>2. /\ UNCHANGED <<ringVars, echo, processing_type, below>> /\ dest' = <<>>
      /\ want' = [p \in Procs |-> IF Alive(p)' THEN want[p] ELSE 0]
      /\ device' = [p \in Procs |-> IF Alive(p)' THEN device[p] ELSE FALSE]
  BY DEF Beside
<1>3. input_type' \in [Procs -> Modes]
  <2>1. PICK forked \in BOOLEAN :
           input_type' = [p \in Procs |->
              IF p \notin {x \in Procs : state[x] = "UNUSED" /\ state'[x] # "UNUSED"}
              THEN input_type[p]
              ELSE IF forked THEN input_type[current] ELSE "CONSOLE_INPUT"]
    BY DEF Beside
  <2>2. input_type \in [Procs -> Modes] /\ "CONSOLE_INPUT" \in Modes
    BY DEF ConsInv, ConsTypeOK, Modes
  <2>3. \A p \in Procs : state[p] = "UNUSED" /\ state'[p] # "UNUSED" => current \in Procs
    BY <1>1 DEF StepsFit, StepFits
  <2> QED BY <2>1, <2>2, <2>3
<1>4. ConsTypeOK'
  <2>1. RingTypeOK'
    BY <1>2, RingOfTypes DEF ConsInv, RingTypeOK, ringVars
  <2>2. want' \in [Procs -> {0} \cup ReadLengths] /\ device' \in [Procs -> BOOLEAN]
    BY <1>2 DEF ConsInv, ConsTypeOK
  <2>3. dest' \in Seq(Characters \cup {"NUL"})
    BY <1>2
  <2> QED BY <1>2, <1>3, <2>1, <2>2, <2>3 DEF ConsInv, ConsTypeOK, RingTypeOK
<1>5. WaitersFit'
  BY <1>1 DEF ConsInv, WaitersFit, StepsFit, StepFits
<1>6. ReadersFit'
  <2> SUFFICES ASSUME NEW p \in Procs
               PROVE  /\ want'[p] # 0 => Alive(p)' /\ ConsCalls[p] \cap {"cons_read", "dev_read"} # {}
                      /\ state'[p] = "BLOCKEDIO" => want'[p] # 0
    BY DEF ReadersFit
  <2>1. want'[p] = IF Alive(p)' THEN want[p] ELSE 0
    BY <1>2
  <2>2. state'[p] = "BLOCKEDIO" => state[p] = "BLOCKEDIO" /\ Alive(p)'
    BY <1>1 DEF StepsFit, StepFits, Alive
  <2> QED BY <2>1, <2>2 DEF ConsInv, ReadersFit
<1>7. RingFits' /\ NoAssertYet'
  BY <1>1, <1>2 DEF ConsInv, RingFits, NoAssertYet, StepsFit, ringVars
<1> QED BY <1>1, <1>4, <1>5, <1>6, <1>7 DEF ConsInv

(* The calls that only set a mode.                                         *)
LEMMA ModesKeep ==
  ASSUME ConsInv,
         \/ \E on \in BOOLEAN : ConsEcho(on)
         \/ \E p \in Procs, mode \in Modes : SetInputMode(p, mode)
         \/ UNCHANGED consVars
  PROVE  ConsInv'
<1>1. /\ UNCHANGED <<vars, ringVars, processing_type, readVars, below>>
      /\ dest' \in {<<>>, dest} /\ echo' \in BOOLEAN
      /\ input_type' \in [Procs -> Modes]
  BY DEF ConsEcho, SetInputMode, consVars, modeVars, ConsInv, ConsTypeOK
<1>2. ConsTypeOK'
  <2>1. RingTypeOK'
    BY <1>1, RingOfTypes DEF ConsInv, RingTypeOK, ringVars
  <2>2. UNCHANGED <<want, device>>
    BY <1>1 DEF readVars
  <2>3. dest' \in Seq(Characters \cup {"NUL"})
    <3>1. dest \in Seq(Characters \cup {"NUL"})
      BY DEF ConsInv, ConsTypeOK
    <3>2. <<>> \in Seq(Characters \cup {"NUL"})
      OBVIOUS
    <3> QED BY <1>1, <3>1, <3>2
  <2> QED BY <1>1, <2>1, <2>2, <2>3 DEF ConsInv, ConsTypeOK, RingTypeOK
<1>3. ProcInv' /\ ReadyLinked'
  <2>1. [Next]_vars
    BY <1>1
  <2> QED BY <2>1, ProcNextKeeps DEF ConsInv
<1>4. UNCHANGED <<state, call, halt, last, start, below, want>>
  BY <1>1 DEF vars, schedVars, lifeVars, ringVars, readVars
<1>5. WaitersFit' /\ ReadersFit' /\ RingFits' /\ NoAssertYet'
  BY <1>4 DEF ConsInv, WaitersFit, ReadersFit, RingFits, NoAssertYet, Alive
<1> QED BY <1>2, <1>3, <1>5 DEF ConsInv

(* A read that is called or resumed.                                       *)
LEMMA ReadCases ==
  ASSUME ConsInv,
         \/ \E n \in ReadLengths : ConsRead(n) \/ DevRead(n)
         \/ ResumeRead
  PROVE  /\ Running /\ current \in Procs
         /\ ConsCalls[current] \cap {"cons_read", "dev_read"} # {}
         /\ \E n \in ReadLengths, dev \in BOOLEAN : ReadOrBlock(n, dev)
<1>1. CASE \E n \in ReadLengths : ConsRead(n) \/ DevRead(n)
  <2>1. TRUE \in BOOLEAN /\ FALSE \in BOOLEAN
    OBVIOUS
  <2> QED BY <1>1, <2>1, OnTheHart DEF ConsInv, ConsRead, DevRead, ConsCalling
<1>2. CASE ResumeRead
  <2>1. Running /\ current \in Procs /\ want[current] # 0
    BY <1>2, OnTheHart DEF ConsInv, ResumeRead
  <2>2. want[current] \in ReadLengths /\ device[current] \in BOOLEAN
    BY <2>1 DEF ConsInv, ConsTypeOK
  <2> QED BY <1>2, <2>1, <2>2 DEF ConsInv, ReadersFit, ResumeRead
<1> QED BY <1>1, <1>2

LEMMA ConsNextKeeps ==
  ASSUME ConsInv, NoneKilledInWait, [ConsNext]_consVars
  PROVE  ConsInv'
BY BesideKeeps, KeyKeeps, ModesKeep, ReadCases, ReadKeeps DEF ConsNext

LEMMA ConsInitInv == ConsInit => ConsInv
<1> SUFFICES ASSUME ConsInit PROVE ConsInv
  OBVIOUS
<1>1. ProcInv /\ ReadyLinked
  BY ProcInitInv DEF ConsInit
<1>2. ConsTypeOK
  <2>1. 0 \in Indices
    BY RingSize DEF Indices
  <2> QED BY <2>1 DEF ConsInit, ConsTypeOK, Modes
<1>3. \A p \in Procs : call[p] = NoProc /\ state[p] \in {"UNUSED", "ACTIVATABLE"} /\ want[p] = 0
  BY DEF ConsInit, ProcInit, SchedInit
<1>4. start = 0 /\ halt = "no"
  BY DEF ConsInit, ProcInit, SchedInit
<1> QED BY <1>1, <1>2, <1>3, <1>4
        DEF ConsInv, WaitersFit, ReadersFit, RingFits, NoAssertYet

THEOREM ConsInvariant ==
  ASSUME NoneKilledInWait
  PROVE  ConsSpec => []ConsInv
<1>1. ConsInv /\ [ConsNext]_consVars => ConsInv'
  BY ConsNextKeeps
<1> QED BY <1>1, ConsInitInv, PTL DEF ConsSpec

(* No assertion fails before a key has deleted below start.                *)
THEOREM OnlyErasingFailsHolds ==
  ASSUME NoneKilledInWait
  PROVE  ConsSpec => []OnlyErasingFails
<1>1. ConsInv => OnlyErasingFails
  BY DEF ConsInv, OnlyErasingFails, NoAssertYet
<1> QED BY <1>1, ConsInvariant, PTL

-----------------------------------------------------------------------------
(* A ring that starts at s with its last character at l: where its places  *)
(* are, and what is unread.                                                *)
PlaceOf(s, i) == (s + i) % BUFFER_SIZE
LastOf(s, l)  == (l - s) % BUFFER_SIZE

UnreadOf(b, s, l) ==
  IF l = -1 THEN <<>> ELSE [i \in 1 .. LastOf(s, l) + 1 |-> b[PlaceOf(s, i - 1)]]

LEMMA PlaceFacts ==
  ASSUME NEW s \in Indices, NEW i \in 0 .. BUFFER_SIZE - 1
  PROVE  /\ PlaceOf(s, i) \in Indices
         /\ PlaceOf(s, i) = IF s + i < BUFFER_SIZE THEN s + i ELSE s + i - BUFFER_SIZE
<1> DEFINE S == BUFFER_SIZE
<1>1. S \in Nat \ {0} /\ s \in 0 .. S - 1
  BY RingSize DEF Indices
<1>2. CASE s + i < S
  <2>1. s + i \in Nat
    BY <1>1
  <2>2. (s + i) % S = s + i
    BY <1>1, <1>2, <2>1, ModOnce
  <2> QED BY <1>1, <1>2, <2>1, <2>2 DEF PlaceOf, Indices
<1>3. CASE s + i >= S
  <2> DEFINE x == s + i - S
  <2>1. x \in Nat /\ x < S /\ x + S = s + i
    BY <1>1, <1>3
  <2> HIDE DEF x
  <2>2. (s + i) % S = x
    BY <1>1, <2>1, ModOnce
  <2> QED BY <1>1, <1>3, <2>1, <2>2 DEF PlaceOf, Indices, x
<1> QED BY <1>1, <1>2, <1>3

LEMMA LastOfFacts ==
  ASSUME NEW s \in Indices, NEW l \in Indices
  PROVE  /\ LastOf(s, l) \in 0 .. BUFFER_SIZE - 1
         /\ LastOf(s, l) = IF s <= l THEN l - s ELSE l - s + BUFFER_SIZE
<1> DEFINE S == BUFFER_SIZE
<1>1. S \in Nat \ {0} /\ l \in 0 .. S - 1 /\ s \in 0 .. S - 1
  BY RingSize DEF Indices
<1>2. CASE s <= l
  <2>1. l - s \in Nat /\ l - s < S
    BY <1>1, <1>2
  <2>2. (l - s) % S = l - s
    BY <1>1, <2>1, ModOnce
  <2> QED BY <1>1, <1>2, <2>1, <2>2 DEF LastOf
<1>3. CASE s > l
  <2> DEFINE x == l - s + S
  <2>1. x \in Nat /\ x < S /\ x - S = l - s
    BY <1>1, <1>3
  <2> HIDE DEF x
  <2>2. (l - s) % S = x
    BY <1>1, <2>1, ModOnce
  <2> QED BY <1>1, <1>3, <2>1, <2>2 DEF LastOf, x
<1> QED BY <1>1, <1>2, <1>3

(* The places are distinct, and the last one is that of the last character.*)
LEMMA PlacesApart ==
  ASSUME NEW s \in Indices, NEW i \in 0 .. BUFFER_SIZE - 1, NEW j \in 0 .. BUFFER_SIZE - 1
  PROVE  PlaceOf(s, i) = PlaceOf(s, j) <=> i = j
<1>1. BUFFER_SIZE \in Nat \ {0} /\ s \in 0 .. BUFFER_SIZE - 1
  BY RingSize DEF Indices
<1> QED BY <1>1, PlaceFacts

(* The tests of the loop of a read, in terms of what is unread.            *)
LEMMA LastPlaceFacts ==
  ASSUME RingTypeOK, last # -1
  PROVE  /\ LastPlace \in 0 .. BUFFER_SIZE - 1
         /\ LastPlace = IF start <= last THEN last - start ELSE last - start + BUFFER_SIZE
BY LastOfFacts DEF LastPlace, LastOf, RingTypeOK

LEMMA FullIff ==
  ASSUME RingTypeOK, last # -1
  PROVE  is_buffer_full <=> LastPlace = BUFFER_SIZE - 1
<1> DEFINE S == BUFFER_SIZE
<1>1. S \in Nat \ {0} /\ last \in 0 .. S - 1 /\ start \in 0 .. S - 1
  BY RingSize DEF RingTypeOK, Indices
<1>2. (last + 1) % S = IF last = S - 1 THEN 0 ELSE last + 1
  <2>1. CASE last = S - 1
    <3>1. 0 \in Nat /\ 0 < S /\ 0 + S = last + 1
      BY <1>1, <2>1
    <3> QED BY <1>1, <2>1, <3>1, ModOnce
  <2>2. CASE last # S - 1
    <3>1. last + 1 \in Nat /\ last + 1 < S
      BY <1>1, <2>2
    <3> QED BY <1>1, <2>2, <3>1, ModOnce
  <2> QED BY <2>1, <2>2
<1> QED BY <1>1, <1>2, LastPlaceFacts DEF is_buffer_full

LEMMA UnreadFacts ==
  ASSUME RingTypeOK
  PROVE  /\ Unread \in Seq(Characters \cup {"NUL"})
         /\ Len(Unread) = IF last = -1 THEN 0 ELSE LastPlace + 1
         /\ Len(Unread) \in 0 .. BUFFER_SIZE
         /\ \A i \in 1 .. Len(Unread) : Unread[i] = buffer[Place(i - 1)]
<1>1. CASE last = -1
  BY <1>1, RingSize DEF Unread, is_buffer_empty
<1>2. CASE last # -1
  <2>1. LastPlace \in 0 .. BUFFER_SIZE - 1 /\ LastPlace + 1 \in Nat
    BY <1>2, LastPlaceFacts, RingSize
  <2>2. Unread = [i \in 1 .. LastPlace + 1 |-> buffer[Place(i - 1)]]
    BY <1>2 DEF Unread, is_buffer_empty
  <2>3. Unread = Bytes(LastPlace + 1)
    BY <2>2 DEF Bytes
  <2>4. Unread \in Seq(Characters \cup {"NUL"})
    BY <2>1, <2>3, BytesFit
  <2>5. Len(Unread) = LastPlace + 1
    BY <2>1, <2>2
  <2> QED BY <1>2, <2>1, <2>2, <2>4, <2>5, RingSize
<1> QED BY <1>1, <1>2

LEMMA NoLineToTake ==
  ASSUME RingTypeOK, ~ detected_eol, ~ is_buffer_full
  PROVE  ~ HasLine /\ Len(Unread) < BUFFER_SIZE
<1>1. Len(Unread) < BUFFER_SIZE
  BY UnreadFacts, FullIff, LastPlaceFacts, RingSize
<1>2. ASSUME HasLine PROVE FALSE
  <2>1. PICK i \in 1 .. Len(Unread) : Unread[i] = "LF"
    BY <1>2, UnreadFacts DEF HasLine, Range
  <2>2. last # -1 /\ i - 1 \in 0 .. LastPlace /\ buffer[Place(i - 1)] = "LF"
    BY <2>1, UnreadFacts, LastPlaceFacts, RingSize
  <2> QED BY <2>2 DEF detected_eol, is_buffer_empty
<1> QED BY <1>1, <1>2

-----------------------------------------------------------------------------
(* Not all the readers sleep while there is something for them.            *)
AllAsleep ==
  /\ halt = "no" /\ ~ below /\ Readers # {}
  /\ \A p \in Readers : state[p] = "BLOCKEDIO" /\ ~ device[p]

LEMMA StepsRun == Next => halt = "no"
BY DEF Next, Interrupt, Tick, TickInKernel, TickCounted, SchedulerCall, WaitClock, SetTimeOfDay,
       ChPrio, LifeCall, StartVirtual, StartVirtualBad, Fork, ExitProcess, Kill, WaitPid, Calling,
       Running, KernelStep, SchedulerStep, AwakeOne, AwakeDone, First, Preempt, Leave, Stay,
       AtSwitch, Abandon, FreeDeadProcess, Resume

(* Who is asleep after a step of another component was so before, and no   *)
(* reader has ended but at the hands of one who is awake.                  *)
LEMMA BesideAwake ==
  ASSUME ConsInv, NotAllAsleep, NoneKilledInWait, ReadersStay, Beside(Next)
  PROVE  NotAllAsleep'
<1> SUFFICES ASSUME AllAsleep' PROVE (~ HasLine /\ Len(Unread) < BUFFER_SIZE)'
  BY DEF NotAllAsleep, AllAsleep
<1>1. StepsFit
  BY NextFits DEF ConsInv, Beside
<1>2. /\ halt = "no" /\ UNCHANGED <<ringVars, below>>
      /\ device' = [p \in Procs |-> IF Alive(p)' THEN device[p] ELSE FALSE]
  BY StepsRun DEF Beside
<1>3. ASSUME NEW p \in Readers PROVE Alive(p)'
  <2>1. p \in Procs /\ Alive(p) /\ Reads(p)
    BY <1>3 DEF Readers, Reads
  <2> SUFFICES ASSUME ~ Alive(p)' PROVE FALSE
    OBVIOUS
  <2>2. Ends(p) /\ current \in Procs
    BY <1>1, <2>1, OnTheHart DEF StepsFit, StepFits, Ends, ConsInv
  <2>3. Reads(current) /\ state'[current] = "ACTIF"
    BY <2>1, <2>2 DEF Ends, ReadersStay
  <2>4. current \in Readers'
    BY <2>2, <2>3 DEF Readers, Reads, Alive
  <2> QED BY <2>3, <2>4 DEF AllAsleep
<1>4. ASSUME NEW p \in Readers PROVE state[p] = "BLOCKEDIO" /\ ~ device[p]
  <2>1. p \in Procs /\ p \in Readers' /\ Alive(p)'
    BY <1>3, <1>4 DEF Readers
  <2>2. state'[p] = "BLOCKEDIO" /\ ~ device'[p]
    BY <2>1 DEF AllAsleep
  <2> QED BY <1>1, <1>2, <2>1, <2>2 DEF StepsFit, StepFits
<1>5. Readers # {}
  <2>1. PICK p \in Readers' : TRUE
    BY DEF AllAsleep
  <2>2. p \in Procs /\ state'[p] = "BLOCKEDIO" /\ "cons_read" \in ConsCalls[p]
    BY <2>1 DEF AllAsleep, Readers
  <2>3. state[p] = "BLOCKEDIO"
    BY <1>1, <2>2 DEF StepsFit, StepFits
  <2>4. p \in Readers
    BY <2>2, <2>3 DEF Readers, Alive
  <2> QED BY <2>4
<1>6. ~ HasLine /\ Len(Unread) < BUFFER_SIZE
  BY <1>2, <1>4, <1>5 DEF NotAllAsleep, AllAsleep
<1>7. Unread' = Unread
  BY <1>2 DEF ringVars, Unread, is_buffer_empty, LastPlace, Place
<1> QED BY <1>6, <1>7 DEF HasLine

(* A key wakes a reader, if all of them sleep.                             *)
LEMMA KeyWakesOne ==
  ASSUME ConsInv, ReadersStay, NEW c, Key(c)
  PROVE  ~ AllAsleep'
<1> SUFFICES ASSUME AllAsleep' PROVE FALSE
  OBVIOUS
<1> DEFINE t == QueueTop(queue["blocked_io"])
<1>1. IF queue["blocked_io"] = <<>> THEN state' = state
      ELSE /\ t \in Procs /\ Has(queue["blocked_io"], t)
           /\ state' = [state EXCEPT ![t] = "ACTIVATABLE"]
  BY KeyWakes DEF ConsInv
<1> HIDE DEF t
<1>2. state \in [Procs -> States] /\ "blocked_io" \in Queues
  BY ProcFacts, SchedulerQueuesExist DEF ConsInv
<1>3. PICK p \in Readers' : TRUE
  BY DEF AllAsleep
<1>4. p \in Procs /\ state'[p] = "BLOCKEDIO"
  BY <1>3 DEF AllAsleep, Readers
<1>5. state[p] = "BLOCKEDIO"
  BY <1>1, <1>2, <1>4
<1>6. \E m \in Queues : Has(queue[m], p)
  BY <1>4, <1>5 DEF ConsInv, ReadyLinked, Linked, In
<1>7. Has(queue["blocked_io"], p)
  BY <1>4, <1>5, <1>6 DEF ConsInv, ProcInv, LinksFit, In, MayBeIn
<1>8. queue["blocked_io"] # <<>>
  BY <1>7 DEF Has
<1>9. state'[t] = "ACTIVATABLE" /\ t \in Procs /\ Has(queue["blocked_io"], t)
  BY <1>1, <1>2, <1>8
<1>10. state[t] = "BLOCKEDIO"
  <2>1. MayBeIn(t, "blocked_io")
    BY <1>2, <1>9 DEF ConsInv, ProcInv, LinksFit, In
  <2>2. state[t] # "BLOCKEDQUEUE"
    BY <1>9 DEF ConsInv, WaitersFit
  <2> QED BY <2>1, <2>2 DEF MayBeIn
<1>11. "cons_read" \in ConsCalls[t]
  <2>1. ConsCalls[t] \cap {"cons_read", "dev_read"} # {}
    BY <1>9, <1>10 DEF ConsInv, ReadersFit
  <2> QED BY <1>9, <2>1 DEF ReadersStay, Reads
<1>12. t \in Readers'
  BY <1>9, <1>11 DEF Readers, Alive
<1> QED BY <1>9, <1>12 DEF AllAsleep

(* A reader goes to sleep when there is nothing for him, and one who has   *)
(* got what he asked for is awake.                                         *)
LEMMA ReadAwake ==
  ASSUME ConsInv, ReadersStay, Running, current \in Procs,
         ConsCalls[current] \cap {"cons_read", "dev_read"} # {},
         NEW n \in ReadLengths, NEW dev \in BOOLEAN, ReadOrBlock(n, dev)
  PROVE  NotAllAsleep'
<1> SUFFICES ASSUME AllAsleep' PROVE (~ HasLine /\ Len(Unread) < BUFFER_SIZE)'
  BY DEF NotAllAsleep, AllAsleep
<1>1. /\ state[current] = "ACTIF" /\ current' = current
      /\ "cons_read" \in ConsCalls[current] /\ state \in [Procs -> States]
  BY OnTheHart, ProcFacts DEF ConsInv, ReadersStay, Reads, ReadOrBlock
<1>2. state'[current] \in {"ACTIF", "BLOCKEDIO"}
  BY <1>1 DEF ReadOrBlock, BlockOnIO, Return
<1>3. current \in Readers'
  BY <1>1, <1>2 DEF Readers, Alive
<1>4. state'[current] = "BLOCKEDIO" /\ ~ device'[current]
  BY <1>3 DEF AllAsleep
<1>5. MustWait(n, dev) /\ BlockOnIO(n, dev)
  BY <1>1, <1>4 DEF ReadOrBlock, Return
<1>6. ~ dev /\ UNCHANGED ringVars
  BY <1>4, <1>5 DEF BlockOnIO, ConsInv, ConsTypeOK
<1>7. ~ HasLine /\ Len(Unread) < BUFFER_SIZE
  BY <1>5, <1>6, NoLineToTake, RingOfTypes DEF MustWait, ConsInv
<1>8. Unread' = Unread
  BY <1>6 DEF ringVars, Unread, is_buffer_empty, LastPlace, Place
<1> QED BY <1>7, <1>8 DEF HasLine

LEMMA AwakeStays ==
  ASSUME ConsInv, NotAllAsleep, NoneKilledInWait, ReadersStay, [ConsNext]_consVars
  PROVE  NotAllAsleep'
<1>1. CASE Beside(Next)
  BY <1>1, BesideAwake
<1>2. CASE \E c \in Keys : Key(c)
  BY <1>2, KeyWakesOne DEF NotAllAsleep, AllAsleep
<1>3. CASE (\E n \in ReadLengths : ConsRead(n) \/ DevRead(n)) \/ ResumeRead
  BY <1>3, ReadCases, ReadAwake
<1>4. CASE \/ \E on \in BOOLEAN : ConsEcho(on)
           \/ \E p \in Procs, mode \in Modes : SetInputMode(p, mode)
           \/ UNCHANGED consVars
  <2>1. UNCHANGED <<vars, ringVars, readVars, below>>
    BY <1>4 DEF ConsEcho, SetInputMode, consVars
  <2>2. UNCHANGED <<state, halt, buffer, start, last, device, below>>
    BY <2>1 DEF vars, schedVars, ringVars, readVars
  <2> QED BY <2>2 DEF NotAllAsleep, Readers, Alive, HasLine, Unread, is_buffer_empty, LastPlace,
                      Place
<1> QED BY <1>1, <1>2, <1>3, <1>4 DEF ConsNext

THEOREM NotAllAsleepHolds ==
  ASSUME NoneKilledInWait, ReadersStay
  PROVE  ConsSpec => []NotAllAsleep
<1>1. ConsInit => NotAllAsleep
  BY DEF ConsInit, ProcInit, SchedInit, NotAllAsleep, Readers, Alive
<1>2. ConsInv /\ NotAllAsleep /\ [ConsNext]_consVars => NotAllAsleep'
  BY AwakeStays
<1> QED BY <1>1, <1>2, ConsInvariant, PTL DEF ConsSpec

-----------------------------------------------------------------------------
(* The line.  What is unread after a step, from where the ring then starts *)
(* and ends.                                                               *)
LEMMA UnreadIs ==
  /\ Unread = UnreadOf(buffer, start, last)
  /\ Unread' = UnreadOf(buffer', start', last')
BY DEF Unread, UnreadOf, is_buffer_empty, LastPlace, LastOf, Place, PlaceOf

LEMMA UnreadBy ==
  ASSUME NEW b, NEW s \in Indices, NEW l \in Indices,
         NEW T, NEW q \in Seq(T), Len(q) = LastOf(s, l) + 1,
         \A i \in 1 .. Len(q) : q[i] = b[PlaceOf(s, i - 1)]
  PROVE  UnreadOf(b, s, l) = q
<1>1. l # -1
  BY RingSize
<1>2. q = [i \in 1 .. Len(q) |-> q[i]]
  OBVIOUS
<1>3. UnreadOf(b, s, l) = [i \in 1 .. Len(q) |-> b[PlaceOf(s, i - 1)]]
  BY <1>1 DEF UnreadOf
<1> QED BY <1>2, <1>3

(* What has been typed is at the end of the line.                          *)
LEMMA LeftFacts ==
  ASSUME RingInv, ~ below
  PROVE  Left = BUFFER_SIZE - Len(Unread)
<1> DEFINE S == BUFFER_SIZE
<1>1. S \in Nat \ {0} /\ start \in 0 .. S - 1 /\ RingTypeOK
  BY RingSize DEF RingInv, RingTypeOK, Indices
<1>2. CASE last = -1
  BY <1>1, <1>2, UnreadFacts DEF Left, RingInv, RingFits
<1>3. CASE last # -1
  <2> DEFINE x == S - 1 - LastPlace
  <2>1. last \in 0 .. S - 1 /\ Len(Unread) = LastPlace + 1
    BY <1>1, <1>3, UnreadFacts DEF RingTypeOK, Indices
  <2>2. /\ LastPlace \in 0 .. S - 1
        /\ LastPlace = IF start <= last THEN last - start ELSE last - start + S
    BY <1>1, <1>3, LastPlaceFacts
  <2>3. x \in Nat /\ x < S
    BY <1>1, <2>2
  <2>4. start - last - 1 = IF start <= last THEN x - S ELSE x
    BY <1>1, <2>1, <2>2
  <2>5. x = S - Len(Unread)
    BY <1>1, <2>1, <2>2
  <2> HIDE DEF x
  <2>6. (start - last - 1) % S = x
    BY <1>1, <2>3, <2>4, ModOnce
  <2> QED BY <1>3, <2>5, <2>6 DEF Left
<1> QED BY <1>2, <1>3

(* Places seen from another start, and the last place.                     *)
LEMMA PlacesMove ==
  ASSUME NEW s \in Indices, NEW k \in 0 .. BUFFER_SIZE - 1
  PROVE  /\ LastOf(s, PlaceOf(s, k)) = k
         /\ \A i \in Nat : k + i < BUFFER_SIZE => PlaceOf(PlaceOf(s, k), i) = PlaceOf(s, k + i)
         /\ \A l \in Indices : k <= LastOf(s, l) => LastOf(PlaceOf(s, k), l) = LastOf(s, l) - k
<1>1. BUFFER_SIZE \in Nat \ {0} /\ s \in 0 .. BUFFER_SIZE - 1
  BY RingSize DEF Indices
<1>2. /\ PlaceOf(s, k) \in 0 .. BUFFER_SIZE - 1 /\ PlaceOf(s, k) \in Indices
      /\ PlaceOf(s, k) = IF s + k < BUFFER_SIZE THEN s + k ELSE s + k - BUFFER_SIZE
  BY PlaceFacts DEF Indices
<1>3. LastOf(s, PlaceOf(s, k)) = k
  BY <1>1, <1>2, LastOfFacts
<1>4. ASSUME NEW i \in Nat, k + i < BUFFER_SIZE
      PROVE  PlaceOf(PlaceOf(s, k), i) = PlaceOf(s, k + i)
  <2>1. i \in 0 .. BUFFER_SIZE - 1 /\ k + i \in 0 .. BUFFER_SIZE - 1
    BY <1>1, <1>4
  <2>2. PlaceOf(s, k + i) = IF s + (k + i) < BUFFER_SIZE THEN s + (k + i) ELSE s + (k + i) - BUFFER_SIZE
    BY <2>1, PlaceFacts
  <2>3. PlaceOf(PlaceOf(s, k), i) =
           IF PlaceOf(s, k) + i < BUFFER_SIZE THEN PlaceOf(s, k) + i
           ELSE PlaceOf(s, k) + i - BUFFER_SIZE
    BY <1>2, <2>1, PlaceFacts
  <2> QED BY <1>1, <1>2, <2>1, <2>2, <2>3
<1>5. ASSUME NEW l \in Indices, k <= LastOf(s, l)
      PROVE  LastOf(PlaceOf(s, k), l) = LastOf(s, l) - k
  <2>1. l \in 0 .. BUFFER_SIZE - 1
    BY DEF Indices
  <2>2. LastOf(s, l) = IF s <= l THEN l - s ELSE l - s + BUFFER_SIZE
    BY LastOfFacts
  <2>3. LastOf(PlaceOf(s, k), l) =
           IF PlaceOf(s, k) <= l THEN l - PlaceOf(s, k) ELSE l - PlaceOf(s, k) + BUFFER_SIZE
    BY <1>2, LastOfFacts
  <2> QED BY <1>1, <1>2, <1>5, <2>1, <2>2, <2>3
<1> QED BY <1>3, <1>4, <1>5

LEMMA LastAfterPlace ==
  ASSUME RingInv, ~ below, NEW j \in 1 .. BUFFER_SIZE - Len(Unread)
  PROVE  /\ Len(Unread) + j - 1 \in 0 .. BUFFER_SIZE - 1
         /\ LastAfter(j) = PlaceOf(start, Len(Unread) + j - 1)
<1> DEFINE S == BUFFER_SIZE
<1>1. /\ S \in Nat \ {0} /\ start \in 0 .. S - 1 /\ RingTypeOK /\ start \in Indices
  BY RingSize DEF RingInv, RingTypeOK, Indices
<1>2. Len(Unread) \in 0 .. S /\ Len(Unread) = IF last = -1 THEN 0 ELSE LastPlace + 1
  BY <1>1, UnreadFacts
<1>3. Len(Unread) + j - 1 \in 0 .. S - 1
  BY <1>1, <1>2
<1>4. CASE last = -1
  <2>1. start = 0 /\ Len(Unread) = 0
    BY <1>2, <1>4 DEF RingInv, RingFits
  <2>2. last + j = start + (Len(Unread) + j - 1)
    BY <1>4, <2>1
  <2> QED BY <1>3, <2>2 DEF LastAfter, PlaceOf
<1>5. CASE last # -1
  <2>1. last \in 0 .. S - 1 /\ Len(Unread) = LastPlace + 1
    BY <1>1, <1>2, <1>5 DEF RingTypeOK, Indices
  <2>2. /\ LastPlace \in 0 .. S - 1
        /\ LastPlace = IF start <= last THEN last - start ELSE last - start + S
    BY <1>1, <1>5, LastPlaceFacts
  <2>3. CASE start <= last
    <3>1. last + j = start + (Len(Unread) + j - 1)
      BY <1>1, <2>1, <2>2, <2>3
    <3> QED BY <1>3, <3>1 DEF LastAfter, PlaceOf
  <2>4. CASE start > last
    <3>1. /\ last + j \in Nat /\ last + j < S
          /\ last + j = start + (Len(Unread) + j - 1) - S
      BY <1>1, <1>2, <2>1, <2>2, <2>4
    <3>2. LastAfter(j) = last + j
      BY <1>1, <3>1, ModOnce DEF LastAfter
    <3>3. PlaceOf(start, Len(Unread) + j - 1) = start + (Len(Unread) + j - 1) - S
      BY <1>1, <1>3, <3>1, PlaceFacts
    <3> QED BY <1>3, <3>1, <3>2, <3>3
  <2> QED BY <1>1, <2>1, <2>3, <2>4
<1> QED BY <1>3, <1>4, <1>5

LEMMA AddTypes ==
  ASSUME RingInv, ~ below, NEW c \in Characters, NEW n \in Nat, Add(c, n)
  PROVE  \/ UNCHANGED ringVars
         \/ \E m \in 1 .. BUFFER_SIZE - Len(Unread) :
                Unread' = Unread \o [i \in 1 .. m |-> c]
<1> DEFINE m == Min({n, Left})
           N == Len(Unread)
<1>1. CASE m = 0
  BY <1>1 DEF Add
<1>2. CASE m # 0
  <2>1. /\ BUFFER_SIZE \in Nat \ {0} /\ start \in Indices /\ RingTypeOK
        /\ N \in 0 .. BUFFER_SIZE /\ Unread \in Seq(Characters \cup {"NUL"})
        /\ \A i \in 1 .. N : Unread[i] = buffer[PlaceOf(start, i - 1)]
    BY RingSize, UnreadFacts DEF RingInv, RingTypeOK, Place, PlaceOf
  <2>2. m \in 1 .. BUFFER_SIZE - N /\ m \in Nat
    <3>1. m \in 0 .. n /\ m <= Left
      BY <2>1, FitsFacts
    <3>2. Left = BUFFER_SIZE - N
      BY LeftFacts
    <3> HIDE DEF m, N
    <3> QED BY <1>2, <2>1, <3>1, <3>2
  <2>3. /\ buffer' = [i \in Indices |->
              IF \E j \in 1 .. m : i = LastAfter(j) THEN c ELSE buffer[i]]
        /\ last' = LastAfter(m)
        /\ start' = start
    BY <1>2 DEF Add
  <2> HIDE DEF m
  <2> DEFINE q == Unread \o [i \in 1 .. m |-> c]
  <2>4. [i \in 1 .. m |-> c] \in Seq(Characters \cup {"NUL"}) /\ Len([i \in 1 .. m |-> c]) = m
    BY <2>2
  <2>5. /\ q \in Seq(Characters \cup {"NUL"}) /\ Len(q) = N + m
        /\ \A i \in 1 .. N + m : q[i] = IF i <= N THEN Unread[i] ELSE c
    BY <2>1, <2>2, <2>4
  <2>6. \A j \in 1 .. m : /\ N + j - 1 \in 0 .. BUFFER_SIZE - 1
                          /\ LastAfter(j) = PlaceOf(start, N + j - 1)
    <3> SUFFICES ASSUME NEW j \in 1 .. m
                 PROVE  /\ N + j - 1 \in 0 .. BUFFER_SIZE - 1
                        /\ LastAfter(j) = PlaceOf(start, N + j - 1)
      OBVIOUS
    <3>1. j \in 1 .. BUFFER_SIZE - N
      BY <2>1, <2>2
    <3> QED BY <3>1, LastAfterPlace
  <2> HIDE DEF q
  <2>7. ASSUME NEW i \in 1 .. N + m PROVE q[i] = buffer'[PlaceOf(start, i - 1)]
    <3>1. i - 1 \in 0 .. BUFFER_SIZE - 1 /\ PlaceOf(start, i - 1) \in Indices
      BY <2>1, <2>2, PlaceFacts
    <3>2. CASE i <= N
      <4>1. ASSUME NEW j \in 1 .. m PROVE PlaceOf(start, i - 1) # LastAfter(j)
        <5>1. N + j - 1 \in 0 .. BUFFER_SIZE - 1 /\ LastAfter(j) = PlaceOf(start, N + j - 1)
          BY <2>6
        <5>2. i - 1 # N + j - 1
          BY <2>1, <3>2
        <5> DEFINE x == i - 1
                   y == N + j - 1
        <5>3. start \in Indices /\ x \in 0 .. BUFFER_SIZE - 1 /\ y \in 0 .. BUFFER_SIZE - 1 /\ x # y
          BY <2>1, <3>1, <5>1, <5>2
        <5>4. LastAfter(j) = PlaceOf(start, y)
          BY <5>1
        <5> HIDE DEF x, y
        <5>5. PlaceOf(start, x) # LastAfter(j)
          BY <5>3, <5>4, PlacesApart
        <5> QED BY <5>5 DEF x
      <4>2. q[i] = buffer[PlaceOf(start, i - 1)]
        BY <2>1, <2>5, <3>2
      <4> QED BY <2>3, <3>1, <4>1, <4>2
    <3>3. CASE i > N
      <4>1. i - N \in 1 .. m /\ N + (i - N) - 1 = i - 1
        BY <2>1, <2>2, <3>3
      <4>2. LastAfter(i - N) = PlaceOf(start, i - 1)
        BY <2>6, <4>1
      <4>3. buffer'[PlaceOf(start, i - 1)] = c
        BY <2>3, <3>1, <4>1, <4>2
      <4> QED BY <2>1, <2>5, <3>3, <4>3
    <3> QED BY <2>1, <3>2, <3>3
  <2>8. last' \in Indices /\ LastOf(start, last') = N + m - 1
    <3>1. m \in 1 .. m
      BY <2>2
    <3>2. N + m - 1 \in 0 .. BUFFER_SIZE - 1 /\ last' = PlaceOf(start, N + m - 1)
      BY <2>3, <2>6, <3>1
    <3> QED BY <2>1, <3>2, PlaceFacts, PlacesMove
  <2>9. UnreadOf(buffer', start, last') = q
    <3>1. Len(q) = LastOf(start, last') + 1
      BY <2>1, <2>2, <2>5, <2>8
    <3> QED BY <2>1, <2>5, <2>7, <2>8, <3>1, UnreadBy
  <2>10. Unread' = q
    BY <2>3, <2>9, UnreadIs
  <2> QED BY <2>2, <2>10 DEF q
<1> QED BY <1>1, <1>2

(* The first characters of the line, as a sequence of bytes of the ring.   *)
LEMMA PrefixFacts ==
  ASSUME RingTypeOK, NEW m \in 0 .. Len(Unread)
  PROVE  /\ SubSeq(Unread, 1, m) \in Seq(Characters \cup {"NUL"})
         /\ Len(SubSeq(Unread, 1, m)) = m
         /\ \A i \in 1 .. m : SubSeq(Unread, 1, m)[i] = buffer[Place(i - 1)]
         /\ SubSeq(Unread, 1, m) = Bytes(m)
<1>1. /\ Unread \in Seq(Characters \cup {"NUL"}) /\ Len(Unread) \in Nat
      /\ \A i \in 1 .. Len(Unread) : Unread[i] = buffer[Place(i - 1)]
  BY UnreadFacts
<1> DEFINE q == SubSeq(Unread, 1, m)
<1>2. /\ q \in Seq(Characters \cup {"NUL"}) /\ Len(q) = m
      /\ \A i \in 1 .. m : q[i] = Unread[i]
  BY <1>1
<1> HIDE DEF q
<1>3. ASSUME NEW i \in 1 .. m PROVE q[i] = buffer[Place(i - 1)]
  <2>1. i \in 1 .. Len(Unread)
    BY <1>1
  <2> QED BY <1>1, <1>2, <2>1
<1>4. q = [i \in 1 .. m |-> q[i]]
  BY <1>2
<1>5. q = Bytes(m)
  BY <1>3, <1>4 DEF Bytes
<1> QED BY <1>2, <1>3, <1>5 DEF q

(* What has been erased is the end of the line.                            *)
LEMMA EraseTakesBack ==
  ASSUME RingInv, NEW new \in -1 .. last, EraseTo(new), ~ below'
  PROVE  \E m \in 0 .. Len(Unread) : Unread' = SubSeq(Unread, 1, m)
<1> DEFINE N == Len(Unread)
           d == last - new
<1>1. /\ BUFFER_SIZE \in Nat \ {0} /\ start \in Indices /\ RingTypeOK
      /\ start \in 0 .. BUFFER_SIZE - 1
      /\ N \in 0 .. BUFFER_SIZE /\ N = IF last = -1 THEN 0 ELSE LastPlace + 1
  BY RingSize, UnreadFacts DEF RingInv, RingTypeOK, Indices
<1>2. /\ buffer' = [i \in Indices |-> IF new < i /\ i <= last THEN "NUL" ELSE buffer[i]]
      /\ last' = new /\ start' = start
      /\ d <= LastPlace + 1 \/ ~ (d > LastPlace + 1)
      /\ d = LastPlace + 1 => start = 0
      /\ new = -1 => start = 0
  BY DEF EraseTo
<1>3. CASE new = -1
  <2>1. Unread' = <<>>
    BY <1>2, <1>3, UnreadIs DEF UnreadOf
  <2>2. SubSeq(Unread, 1, 0) = <<>> /\ 0 \in 0 .. N
    BY <1>1
  <2> QED BY <2>1, <2>2
<1>4. CASE new # -1
  <2>1. last \in 0 .. BUFFER_SIZE - 1 /\ new \in 0 .. BUFFER_SIZE - 1 /\ new <= last
    BY <1>1, <1>4 DEF RingTypeOK, Indices
  <2>2. /\ LastPlace \in 0 .. BUFFER_SIZE - 1
        /\ LastPlace = IF start <= last THEN last - start ELSE last - start + BUFFER_SIZE
    BY <1>1, <2>1, LastPlaceFacts
  <2>3. d <= LastPlace
    BY <1>1, <1>2, <2>1, <2>2
  <2> DEFINE m == N - d
  <2>4. m \in 0 .. N /\ m - 1 = LastPlace - d /\ m - 1 \in 0 .. BUFFER_SIZE - 1
    BY <1>1, <2>1, <2>2, <2>3
  <2>5. new \in Indices /\ LastOf(start, new) = m - 1
    <3>1. new \in Indices
      BY <2>1 DEF Indices
    <3>2. LastOf(start, new) = IF start <= new THEN new - start ELSE new - start + BUFFER_SIZE
      BY <1>1, <3>1, LastOfFacts
    <3>3. start <= last => start <= new
      BY <1>1, <2>1, <2>2, <2>3
    <3> QED BY <1>1, <2>1, <2>2, <2>4, <3>1, <3>2, <3>3
  <2> DEFINE q == SubSeq(Unread, 1, m)
  <2>6. /\ q \in Seq(Characters \cup {"NUL"}) /\ Len(q) = m
        /\ \A i \in 1 .. m : q[i] = buffer[PlaceOf(start, i - 1)]
    BY <1>1, <2>4, PrefixFacts DEF Place, PlaceOf
  <2>7. ASSUME NEW i \in 1 .. m PROVE q[i] = buffer'[PlaceOf(start, i - 1)]
    <3>1. i - 1 \in 0 .. BUFFER_SIZE - 1 /\ i - 1 <= LastPlace - d
      BY <1>1, <2>4
    <3> DEFINE x == PlaceOf(start, i - 1)
    <3>2. x \in Indices /\ x = IF start + (i - 1) < BUFFER_SIZE THEN start + (i - 1)
                                ELSE start + (i - 1) - BUFFER_SIZE
      BY <1>1, <3>1, PlaceFacts
    <3>3. q[i] = buffer[x]
      BY <2>6
    <3> HIDE DEF x, q
    <3>4. ~ (new < x /\ x <= last)
      BY <1>1, <2>1, <2>2, <3>1, <3>2
    <3>5. buffer'[x] = buffer[x]
      BY <1>2, <3>2, <3>4
    <3> QED BY <3>3, <3>5 DEF x
  <2> HIDE DEF q
  <2>8. Len(q) = LastOf(start, new) + 1
    BY <1>1, <2>4, <2>5, <2>6
  <2> HIDE DEF m
  <2>9. \A i \in 1 .. Len(q) : q[i] = buffer'[PlaceOf(start, i - 1)]
    BY <2>6, <2>7
  <2>10. UnreadOf(buffer', start, new) = q
    BY <1>1, <2>5, <2>6, <2>8, <2>9, UnreadBy
  <2>11. Unread' = q
    BY <1>2, <2>10, UnreadIs
  <2> QED BY <2>4, <2>11 DEF q
<1> QED BY <1>3, <1>4

LEMMA RestProperties ==
  ASSUME NEW T, NEW u \in Seq(T), NEW k \in 0 .. Len(u) - 1
  PROVE  LET r == SubSeq(u, k + 1, Len(u)) IN
         /\ r \in Seq(T) /\ Len(r) = Len(u) - k
         /\ \A i \in 1 .. Len(u) - k : r[i] = u[k + i]
<1> DEFINE a == k + 1
           n == Len(u)
<1>1. n \in Nat /\ a \in Int /\ a <= n /\ n - a + 1 = n - k
  OBVIOUS
<1>2. \A i \in a .. n : u[i] \in T
  OBVIOUS
<1>3. \A i \in 1 .. n - k : a + i - 1 = k + i
  OBVIOUS
<1> HIDE DEF a, n
<1>4. /\ SubSeq(u, a, n) \in Seq(T) /\ Len(SubSeq(u, a, n)) = n - k
      /\ \A i \in 1 .. n - a + 1 : SubSeq(u, a, n)[i] = u[a + i - 1]
  BY <1>1, <1>2, SubSeqProperties
<1> QED BY <1>1, <1>3, <1>4 DEF a, n

(* What a read leaves is the rest of the line.                             *)
LEMMA RestFacts ==
  ASSUME RingTypeOK, NEW k \in 0 .. Len(Unread) - 1, k + 1 <= Len(Unread),
         buffer' = Zeroed(k), start' = Place(k), last' = last, last # -1
  PROVE  Unread' = SubSeq(Unread, k + 1, Len(Unread))
<1> DEFINE N == Len(Unread)
           s == PlaceOf(start, k)
<1>1. /\ BUFFER_SIZE \in Nat \ {0} /\ start \in Indices /\ last \in Indices
      /\ N \in 0 .. BUFFER_SIZE /\ N = LastPlace + 1 /\ LastPlace \in 0 .. BUFFER_SIZE - 1
      /\ Unread \in Seq(Characters \cup {"NUL"})
      /\ \A i \in 1 .. N : Unread[i] = buffer[PlaceOf(start, i - 1)]
      /\ LastPlace = LastOf(start, last)
  BY RingSize, UnreadFacts, LastPlaceFacts
     DEF RingInv, RingTypeOK, Place, PlaceOf, LastPlace, LastOf
<1>2. k \in 0 .. BUFFER_SIZE - 1 /\ k <= LastOf(start, last)
  BY <1>1
<1>3. /\ s \in Indices /\ start' = s
      /\ LastOf(s, last) = LastPlace - k
      /\ \A i \in Nat : k + i < BUFFER_SIZE => PlaceOf(s, i) = PlaceOf(start, k + i)
  BY <1>1, <1>2, PlaceFacts, PlacesMove DEF Place, PlaceOf
<1> DEFINE q == SubSeq(Unread, k + 1, N)
<1>4. /\ q \in Seq(Characters \cup {"NUL"}) /\ Len(q) = N - k
      /\ \A i \in 1 .. N - k : q[i] = Unread[k + i]
  BY <1>1, RestProperties
<1> HIDE DEF q, s
<1>5. ASSUME NEW i \in 1 .. N - k PROVE q[i] = buffer'[PlaceOf(s, i - 1)]
  <2> DEFINE x == k + (i - 1)
  <2>1. /\ x \in 0 .. BUFFER_SIZE - 1 /\ k + i \in 1 .. N /\ k + i - 1 = x
        /\ i - 1 \in Nat /\ k + (i - 1) < BUFFER_SIZE /\ x >= k
    BY <1>1
  <2>2. PlaceOf(s, i - 1) = PlaceOf(start, x)
    BY <1>3, <2>1
  <2>3. q[i] = buffer[PlaceOf(start, x)]
    <3> DEFINE y == k + i
    <3>1. y \in 1 .. N /\ y - 1 = x
      BY <2>1
    <3>2. q[i] = Unread[y]
      BY <1>4
    <3> HIDE DEF x, y, N
    <3>3. Unread[y] = buffer[PlaceOf(start, y - 1)]
      BY <1>1, <3>1
    <3> QED BY <3>1, <3>2, <3>3
  <2> HIDE DEF x
  <2>4. ASSUME NEW j \in 0 .. k - 1 PROVE PlaceOf(start, x) # Place(j)
    <3>1. j \in 0 .. BUFFER_SIZE - 1 /\ j # x
      BY <1>1, <1>2, <2>1
    <3> QED BY <1>1, <2>1, <3>1, PlacesApart DEF Place, PlaceOf
  <2>5. PlaceOf(start, x) \in Indices
    BY <1>1, <2>1, PlaceFacts
  <2>6. buffer'[PlaceOf(start, x)] = buffer[PlaceOf(start, x)]
    BY <2>4, <2>5 DEF Zeroed
  <2> QED BY <2>2, <2>3, <2>6
<1>6. Len(q) = LastOf(s, last) + 1
  BY <1>1, <1>3, <1>4
<1>7. UnreadOf(buffer', s, last) = q
  <2>1. \A i \in 1 .. Len(q) : q[i] = buffer'[PlaceOf(s, i - 1)]
    BY <1>4, <1>5
  <2>2. q \in Seq(Characters \cup {"NUL"})
    BY <1>4
  <2>3. s \in Indices /\ last \in Indices
    BY <1>1, <1>3
  <2> HIDE DEF N
  <2> QED BY ONLY <1>6, <2>1, <2>2, <2>3, UnreadBy
<1>8. Unread' = q
  BY <1>3, <1>7, UnreadIs
<1> QED BY <1>8 DEF q

(* Where the first line of the unread characters ends.                     *)
LEMMA LineEndFacts ==
  ASSUME RingTypeOK
  PROVE  /\ \A k \in 1 .. Len(Unread) :
               Unread[k] = "LF" /\ (\A j \in 1 .. k - 1 : Unread[j] # "LF")
                 => Line!LineEnd = k
         /\ \A k \in Nat :
               (\A j \in 1 .. Len(Unread) : j <= k => Unread[j] # "LF")
                 => Line!LineEnd \notin 1 .. k
         /\ (\A j \in 1 .. Len(Unread) : Unread[j] # "LF") => Line!LineEnd = 0
<1> DEFINE I == {i \in 1 .. Len(Unread) : Unread[i] = "LF"}
<1>1. Line!LineEnd = IF I # {} THEN Min(I) ELSE 0
  BY DEF Line!LineEnd, Line!SelectInSeq, Line!Min, Min
<1>2. I \in SUBSET Nat /\ Len(Unread) \in Nat
  BY UnreadFacts
<1>3. I # {} => Min(I) \in I /\ \A y \in I : Min(I) <= y
  BY <1>2, MinOfNats
<1>4. ASSUME NEW k \in 1 .. Len(Unread), Unread[k] = "LF",
             \A j \in 1 .. k - 1 : Unread[j] # "LF"
      PROVE  Line!LineEnd = k
  <2>1. k \in I
    BY <1>4
  <2>2. Min(I) \in I /\ Min(I) <= k
    BY <1>3, <2>1
  <2>3. Min(I) \notin 1 .. k - 1
    BY <1>4, <2>2
  <2>4. Min(I) \in 1 .. Len(Unread)
    BY <2>2
  <2>5. Line!LineEnd = Min(I)
    BY <1>1, <2>1
  <2> HIDE DEF I
  <2> QED BY <1>2, <2>2, <2>3, <2>4, <2>5
<1>5. ASSUME NEW k \in Nat, \A j \in 1 .. Len(Unread) : j <= k => Unread[j] # "LF"
      PROVE  Line!LineEnd \notin 1 .. k
  <2>1. CASE I = {}
    BY <1>1, <2>1
  <2>2. CASE I # {}
    BY <1>1, <1>3, <1>5, <2>2
  <2> QED BY <2>1, <2>2
<1>6. (\A j \in 1 .. Len(Unread) : Unread[j] # "LF") => Line!LineEnd = 0
  BY <1>1
<1> QED BY <1>4, <1>5, <1>6

(* Nothing is left when last is -1.                                        *)
LEMMA NoneLeft ==
  ASSUME last' = -1
  PROVE  /\ Unread' = <<>>
         /\ \A m \in Int : m >= Len(Unread) /\ Len(Unread) \in Nat => Line!AllBut(m) = <<>>
<1>1. Unread' = <<>>
  BY UnreadIs DEF UnreadOf
<1>2. ASSUME NEW m \in Int, m >= Len(Unread), Len(Unread) \in Nat PROVE Line!AllBut(m) = <<>>
  <2>1. m + 1 \in Int /\ Len(Unread) < m + 1
    BY <1>2
  <2>2. SubSeq(Unread, m + 1, Len(Unread)) = <<>>
    BY <1>2, <2>1, SubSeqEmpty
  <2> QED BY <2>2 DEF Line!AllBut
<1> QED BY <1>1, <1>2

(* copy takes what one of the reads of InputLine takes.                    *)
LEMMA CopyReads ==
  ASSUME RingInv, ~ below, last # -1, NEW n \in ReadLengths, NEW dev \in BOOLEAN,
         ~ MustWait(n, dev), Copy(n, dev)
  PROVE  Line!ReadPart(n) \/ Line!ReadLine(n) \/ Line!ReadFull(n)
<1> DEFINE k == Copied(n)
           N == Len(Unread)
<1>1. /\ BUFFER_SIZE \in Nat \ {0} /\ RingTypeOK /\ n \in Nat \ {0}
      /\ N \in 1 .. BUFFER_SIZE /\ N = LastPlace + 1
      /\ LastPlace \in 0 .. BUFFER_SIZE - 1
      /\ \A i \in 1 .. N : Unread[i] = buffer[Place(i - 1)]
  BY RingSize, UnreadFacts, LastPlaceFacts, ConsoleAssumption DEF RingInv
<1>2. /\ k \in 0 .. LastPlace /\ k <= n
      /\ k \in {n, LastPlace} \cup {i \in 0 .. LastPlace : buffer[Place(i)] = "LF"}
      /\ \A i \in 0 .. LastPlace : buffer[Place(i)] = "LF" => k <= i
  BY <1>1, CopiedFacts
<1>3. /\ k = n => /\ dest' = Bytes(k) /\ buffer' = Zeroed(k)
                  /\ start' = Place(k) /\ last' = last
      /\ k # n /\ k = LastPlace /\ buffer[Place(k)] # "LF" =>
            dest' = Bytes(k + 1) /\ last' = -1
      /\ k # n /\ k = LastPlace /\ buffer[Place(k)] = "LF" =>
            dest' \in {Bytes(k), Bytes(k + 1)} /\ last' = -1
      /\ k # n /\ k # LastPlace =>
            /\ dest' = Bytes(k) /\ buffer' = Zeroed(k + 1)
            /\ start' = Place(k + 1) /\ last' = last
  BY DEF Copy, SkipEol
<1> HIDE DEF k, N
<1>4. \A m \in 0 .. N : Line!FirstOf(m) = Bytes(m)
  <2> SUFFICES ASSUME NEW m \in 0 .. N PROVE Line!FirstOf(m) = Bytes(m)
    OBVIOUS
  <2>1. (IF m < N THEN m ELSE N) = m
    BY <1>1
  <2>2. Line!FirstOf(m) = SubSeq(Unread, 1, m)
    BY <2>1 DEF Line!FirstOf, N
  <2> QED BY <1>1, <2>2, PrefixFacts DEF N
<1>5. \A m \in 0 .. N - 1 :
         buffer' = Zeroed(m) /\ start' = Place(m) /\ last' = last => Unread' = Line!AllBut(m)
  <2> SUFFICES ASSUME NEW m \in 0 .. N - 1,
                      buffer' = Zeroed(m), start' = Place(m), last' = last
               PROVE  Unread' = Line!AllBut(m)
    OBVIOUS
  <2>1. m \in 0 .. Len(Unread) - 1 /\ m + 1 <= Len(Unread)
    BY <1>1 DEF N
  <2>2. Unread' = SubSeq(Unread, m + 1, Len(Unread))
    BY <1>1, <2>1, RestFacts
  <2> QED BY <2>2 DEF Line!AllBut
<1>6. \A j \in 1 .. N : j <= k => Unread[j] # "LF"
  <2> SUFFICES ASSUME NEW j \in 1 .. N, j <= k, Unread[j] = "LF" PROVE FALSE
    OBVIOUS
  <2>1. j - 1 \in 0 .. LastPlace /\ buffer[Place(j - 1)] = "LF"
    BY <1>1
  <2> QED BY <1>1, <1>2, <2>1
<1>7. ASSUME buffer[Place(k)] = "LF" PROVE Line!LineEnd = k + 1
  <2>1. k + 1 \in 1 .. N /\ (k + 1) - 1 = k
    BY <1>1, <1>2
  <2>2. Unread[k + 1] = "LF"
    BY <1>1, <1>7, <2>1
  <2>3. \A j \in 1 .. (k + 1) - 1 : Unread[j] # "LF"
    BY <1>1, <1>2, <1>6
  <2> QED BY <1>1, <2>1, <2>2, <2>3, LineEndFacts DEF N
<1>8. ASSUME last' = -1 PROVE Unread' = <<>> /\ \A m \in Int : m >= N => Line!AllBut(m) = <<>>
  BY <1>1, <1>8, NoneLeft DEF N
<1>9. CASE k = n
  <2>1. N >= n /\ k \in 0 .. N /\ k \in 0 .. N - 1 /\ k \in Nat
    BY <1>1, <1>2, <1>9
  <2>2. Line!LineEnd \notin 1 .. k
    BY <1>1, <1>6, <2>1, LineEndFacts DEF N
  <2>3. dest' = Line!FirstOf(k) /\ Unread' = Line!AllBut(k)
    BY <1>3, <1>4, <1>5, <1>9, <2>1
  <2> QED BY <1>9, <2>1, <2>2, <2>3 DEF Line!ReadPart, N
<1>10. CASE k # n /\ buffer[Place(k)] = "LF"
  <2>1. /\ k + 1 \in 1 .. n /\ k \in 0 .. N /\ k + 1 \in 0 .. N /\ (k + 1) - 1 = k
        /\ k + 1 \in Int
    BY <1>1, <1>2, <1>10
  <2>2. dest' \in {Line!FirstOf(k), Line!FirstOf(k + 1)}
    BY <1>3, <1>4, <1>10, <2>1
  <2>3. Unread' = Line!AllBut(k + 1)
    <3>1. CASE k = LastPlace
      <4>1. last' = -1 /\ k + 1 >= N
        BY <1>1, <1>3, <1>10, <3>1
      <4> QED BY <1>8, <2>1, <4>1
    <3>2. CASE k # LastPlace
      <4>1. k + 1 \in 0 .. N - 1
        BY <1>1, <1>2, <3>2
      <4> QED BY <1>3, <1>5, <1>10, <3>2, <4>1
    <3> QED BY <3>1, <3>2
  <2> QED BY <1>7, <1>10, <2>1, <2>2, <2>3 DEF Line!ReadLine
<1>11. CASE k # n /\ buffer[Place(k)] # "LF"
  <2>1. k = LastPlace /\ n > k /\ k + 1 = N /\ N \in 0 .. N /\ N \in Int
    BY <1>1, <1>2, <1>11
  <2>2. \A j \in 1 .. N : Unread[j] # "LF"
    <3> SUFFICES ASSUME NEW j \in 1 .. N, Unread[j] = "LF" PROVE FALSE
      OBVIOUS
    <3>1. j = N
      BY <1>1, <1>6, <2>1
    <3>2. j - 1 = k /\ Unread[j] = buffer[Place(j - 1)]
      BY <1>1, <2>1, <3>1
    <3> QED BY <1>11, <3>2
  <2>3. Line!LineEnd = 0
    BY <1>1, <2>2, LineEndFacts DEF N
  <2>4. dest' = Bytes(N) /\ Unread' = <<>> /\ Line!AllBut(N) = <<>>
    BY <1>3, <1>8, <1>11, <2>1
  <2>5. Line!FirstOf(N) = Bytes(N) /\ Bytes(N) = Unread
    <3>1. N \in 0 .. Len(Unread) /\ SubSeq(Unread, 1, N) = Unread
      BY <1>1, <2>1, UnreadFacts DEF N
    <3> QED BY <1>1, <1>4, <2>1, <3>1, PrefixFacts
  <2>6. n = N \/ (N = BUFFER_SIZE /\ N < n)
    <3>1. is_buffer_full \/ n <= buffer_current_size
      <4>1. ~ detected_eol
        <5> SUFFICES ASSUME NEW i \in 0 .. LastPlace, buffer[Place(i)] = "LF" PROVE FALSE
          BY DEF detected_eol
        <5>1. i + 1 \in 1 .. N /\ (i + 1) - 1 = i
          BY <1>1
        <5>2. Unread[i + 1] = "LF"
          BY <1>1, <5>1
        <5> QED BY <2>2, <5>1, <5>2
      <4>2. n \in Int /\ buffer_current_size \in Int
        <5>1. last - start + 1 \in Int
          BY <1>1, RingSize DEF RingTypeOK
        <5> QED BY <1>1, <5>1, PlacesFit, RingSize DEF buffer_current_size
      <4> QED BY <4>1, <4>2 DEF MustWait
    <3>2. CASE is_buffer_full
      <4>1. N = BUFFER_SIZE
        BY <1>1, <3>2, FullIff
      <4> QED BY <1>1, <2>1, <4>1
    <3>3. CASE ~ is_buffer_full
      <4>1. N < BUFFER_SIZE
        BY <1>1, <3>3, FullIff
      <4>2. buffer_current_size = N
        <5>1. last \in 0 .. BUFFER_SIZE - 1 /\ start \in 0 .. BUFFER_SIZE - 1
          BY <1>1 DEF RingTypeOK, Indices
        <5>2. last - start + 1 = N \/ last - start + 1 = N - BUFFER_SIZE
          BY <1>1, <5>1, LastPlaceFacts
        <5>3. N \in Nat /\ N < BUFFER_SIZE
          BY <1>1, <4>1
        <5>4. \A x \in Nat : x < BUFFER_SIZE =>
                x % BUFFER_SIZE = x /\ (x - BUFFER_SIZE) % BUFFER_SIZE = x
          BY <1>1, ModOnce
        <5>5. N % BUFFER_SIZE = N /\ (N - BUFFER_SIZE) % BUFFER_SIZE = N
          BY <5>3, <5>4
        <5> QED BY <5>2, <5>5 DEF buffer_current_size
      <4> QED BY <1>1, <2>1, <3>1, <3>3, <4>2
    <3> QED BY <3>2, <3>3
  <2>7. CASE n = N
    <3>1. Line!LineEnd \notin 1 .. n /\ Len(Unread) >= n
      BY <1>1, <2>3, <2>7 DEF N
    <3> QED BY <2>4, <2>5, <2>7, <3>1 DEF Line!ReadPart
  <2>8. CASE N = BUFFER_SIZE /\ N < n
    BY <2>3, <2>4, <2>5, <2>8 DEF Line!ReadFull, N
  <2> QED BY <2>6, <2>7, <2>8
<1> QED BY <1>9, <1>10, <1>11

(* A step that leaves the ring alone forgets what was given.               *)
LEMMA RingAlone ==
  ASSUME UNCHANGED ringVars
  PROVE  Unread' = Unread
BY DEF ringVars, Unread, is_buffer_empty, LastPlace, Place

LEMMA KeyTypes ==
  ASSUME RingInv, ~ below, NEW c \in Keys, Key(c), ~ below'
  PROVE  Line!Type \/ Line!TakeBack \/ Line!Forget
<1>1. dest' = <<>>
  BY DEF Key
<1>2. CASE UNCHANGED ringVars
  BY <1>1, <1>2, RingAlone DEF Line!Forget
<1>3. ASSUME NEW ch \in Characters, NEW n \in Nat \ {0}, Add(ch, n), ~ UNCHANGED ringVars
      PROVE  Line!Type
  <2>1. PICK m \in 1 .. BUFFER_SIZE - Len(Unread) :
              Unread' = Unread \o [i \in 1 .. m |-> ch]
    BY <1>3, AddTypes
  <2> QED BY <1>1, <2>1 DEF Line!Type
<1>4. ASSUME NEW new \in -1 .. last, EraseTo(new) PROVE Line!TakeBack
  <2>1. PICK m \in 0 .. Len(Unread) : Unread' = SubSeq(Unread, 1, m)
    BY <1>4, EraseTakesBack
  <2>2. Len(Unread) \in Nat
    BY UnreadFacts, RingSize DEF RingInv
  <2>3. (IF m < Len(Unread) THEN m ELSE Len(Unread)) = m
    BY <2>2
  <2> QED BY <1>1, <2>1, <2>3 DEF Line!TakeBack, Line!FirstOf
<1> DEFINE mode == IF queue["blocked_io"] # <<>> THEN input_type[QueueTop(queue["blocked_io"])]
                   ELSE processing_type
<1>5. \/ UNCHANGED ringVars
      \/ IF mode = "RAW_INPUT" THEN AddRaw(c) ELSE Edit(c)
  BY DEF Key
<1> HIDE DEF mode
<1>6. ASSUME IF mode = "RAW_INPUT" THEN AddRaw(c) ELSE Edit(c)
      PROVE  \/ \E ch \in Characters, n \in Nat \ {0} : Add(ch, n)
             \/ \E new \in -1 .. last : EraseTo(new)
             \/ UNCHANGED ringVars
  BY <1>6, KeyCases DEF RingInv
<1> QED BY <1>2, <1>3, <1>4, <1>5, <1>6

LEMMA ReadTakes ==
  ASSUME RingInv, ~ below, NEW n \in ReadLengths, NEW dev \in BOOLEAN, ReadOrBlock(n, dev)
  PROVE  Line!ReadPart(n) \/ Line!ReadLine(n) \/ Line!ReadFull(n) \/ Line!Forget
<1>1. CASE MustWait(n, dev)
  <2>1. UNCHANGED ringVars /\ dest' = <<>>
    BY <1>1 DEF ReadOrBlock, BlockOnIO
  <2> QED BY <2>1, RingAlone DEF Line!Forget
<1>2. CASE ~ MustWait(n, dev)
  <2>1. last # -1
    BY <1>2, EmptyWaits
  <2>2. Copy(n, dev)
    BY <1>2, <2>1 DEF ReadOrBlock, Return, is_buffer_empty
  <2> QED BY <1>2, <2>1, <2>2, CopyReads
<1> QED BY <1>1, <1>2

LEMMA StepsOnLine ==
  ASSUME ConsInv, [ConsNext]_consVars
  PROVE  [below' \/ [Line!LineNext]_(Line!lineVars)]_consVars
<1> SUFFICES ASSUME ConsNext, ~ below'
             PROVE  Line!LineNext
  OBVIOUS
<1>1. RingInv
  BY RingOfTypes DEF ConsInv, RingInv
<1>2. CASE Beside(Next)
  <2>1. UNCHANGED ringVars /\ dest' = <<>>
    BY <1>2 DEF Beside
  <2> QED BY <2>1, RingAlone DEF Line!Forget, Line!LineNext
<1>3. ASSUME NEW c \in Keys, Key(c) PROVE Line!LineNext
  <2>1. ~ below
    BY <1>1, <1>3, KeyKeepsRing
  <2> QED BY <1>1, <1>3, <2>1, KeyTypes DEF Line!LineNext
<1>4. CASE \/ \E n \in ReadLengths : ConsRead(n) \/ DevRead(n)
           \/ ResumeRead
  <2>1. PICK n \in ReadLengths, dev \in BOOLEAN : ReadOrBlock(n, dev)
    BY <1>4, ReadCases
  <2>2. ~ below
    BY <2>1 DEF ReadOrBlock
  <2> QED BY <1>1, <2>1, <2>2, ReadTakes DEF Line!LineNext
<1>5. ASSUME NEW on \in BOOLEAN, ConsEcho(on) PROVE Line!LineNext
  <2>1. UNCHANGED ringVars /\ dest' = <<>>
    BY <1>5 DEF ConsEcho
  <2> QED BY <2>1, RingAlone DEF Line!Forget, Line!LineNext
<1>6. ASSUME NEW p \in Procs, NEW mode \in Modes, SetInputMode(p, mode) PROVE Line!LineNext
  <2>1. UNCHANGED ringVars /\ dest' = <<>>
    BY <1>6 DEF SetInputMode
  <2> QED BY <2>1, RingAlone DEF Line!Forget, Line!LineNext
<1> QED BY <1>2, <1>3, <1>4, <1>5, <1>6 DEF ConsNext

(* As long as no key deletes below start, what is typed and read is the    *)
(* line of InputLine (cons_read.c:40-50, keyboard.h:10-35).                *)
THEOREM IsInputLineHolds ==
  ASSUME NoneKilledInWait
  PROVE  ConsSpec => IsInputLine
<1>1. ConsInit => Line!LineInit
  BY DEF ConsInit, Line!LineInit, Unread, is_buffer_empty
<1>2. ConsInv /\ [ConsNext]_consVars => [below' \/ [Line!LineNext]_(Line!lineVars)]_consVars
  BY StepsOnLine
<1> QED BY <1>1, <1>2, ConsInvariant, PTL DEF ConsSpec, IsInputLine
=============================================================================
