----------------------------- MODULE PipeProofs ------------------------------
(***************************************************************************)
(* A pipe for any set of processes, size of the buffer and lengths: the    *)
(* three invariants of Pipe as theorems.                                   *)
(*                                                                         *)
(* The inductive invariant PipeInv adds to SemInv what the loops of        *)
(* read_pipe and write_pipe rely on.  Mutex is the core: of the processes  *)
(* in the loops one at most has come back from its wait and not signalled  *)
(* yet, and the count of the semaphore is not positive while there is one. *)
(* That needs the length of the list (SemInv: a signal wakes nobody or the *)
(* first waiter), and that whoever is blocked on a semaphore is in a wait  *)
(* of the loops (BlockedFit).  EndsFit and InsideFit show that the pipe is *)
(* open, and its semaphore live, for whoever is in the loops: he has a     *)
(* descriptor, it is counted, and the pipe is freed when no end is         *)
(* counted.  For fork to keep that count, a step must create one process   *)
(* at most, which is the first section.                                    *)
(*                                                                         *)
(* The theorems have the hypothesis PipeAlone.                             *)
(***************************************************************************)
EXTENDS Pipe, SemaphoreProofs

-----------------------------------------------------------------------------
(* Births: the processes that are unused before a step and not after it.   *)
NotBorn(x) == state[x] = "UNUSED" => state'[x] = "UNUSED"

Birth(p) ==
  /\ Running /\ state[p] = "UNUSED" /\ state'[p] # "UNUSED"
  /\ \A x \in Procs : x # p => NotBorn(x)

BirthsFit == (\A x \in Procs : NotBorn(x)) \/ \E p \in Procs : Birth(p)

(* scheduler() and the calls of Scheduler create nobody.                   *)
LEMMA SchedulerBirths ==
  ASSUME ProcInv,
         \/ Interrupt \/ SchedulerCall \/ SchedulerStep
         \/ Abandon
  PROVE  \A x \in Procs : NotBorn(x)
<1> USE ProcFacts
<1>1. CASE Interrupt
  BY <1>1 DEF Interrupt, Tick, TickInKernel, TickCounted, procVars, NotBorn
<1>2. CASE SchedulerCall
  <2>1. ASSUME NEW ticks \in SleepTicks, WaitClock(ticks) PROVE \A x \in Procs : NotBorn(x)
    <3>1. state[current] = "ACTIF" /\ current \in Procs
      BY <2>1, OnTheHart DEF WaitClock
    <3> QED BY <2>1, <3>1 DEF WaitClock, NotBorn
  <2>2. CASE SetTimeOfDay
    BY <2>2 DEF SetTimeOfDay, procVars, NotBorn
  <2>3. ASSUME NEW p \in PrioTargets, NEW newprio \in Prios, ChPrio(p, newprio)
        PROVE  \A x \in Procs : NotBorn(x)
    BY <2>3 DEF ChPrio, NotBorn
  <2> QED BY <1>2, <2>1, <2>2, <2>3 DEF SchedulerCall
<1>3. CASE AwakeOne \/ AwakeDone \/ Stay
  BY <1>3 DEF AwakeOne, AwakeDone, Stay, procVars, NotBorn
<1>4. AtSwitch => Top \in Procs /\ state[Top] # "UNUSED"
  <2> SUFFICES ASSUME AtSwitch PROVE Top \in Procs /\ state[Top] # "UNUSED"
    OBVIOUS
  <2>1. queue["activatable"] \in Seq(Procs) /\ queue["activatable"] # <<>>
    BY SchedulerQueuesExist DEF AtSwitch
  <2>2. Top \in Procs /\ Has(queue["activatable"], Top)
    BY <2>1, QueueOutFacts DEF Top
  <2> QED BY <2>2, UnlinkedStates, SchedulerQueuesExist
<1>5. CASE First \/ Leave \/ Abandon
  <2>1. AtSwitch /\ state' = [state EXCEPT ![Top] = "ACTIF"]
    BY <1>5 DEF First, Leave, Abandon, Dispatch
  <2> QED BY <1>4, <2>1 DEF NotBorn
<1>6. CASE Preempt
  <2>1. /\ AtSwitch /\ current \in Procs /\ state[current] = "ACTIF"
        /\ state' = [state EXCEPT ![current] = "ACTIVATABLE", ![Top] = "ACTIF"]
    BY <1>6 DEF Preempt, Dispatch
  <2> QED BY <1>4, <2>1 DEF NotBorn
<1> QED BY <1>1, <1>2, <1>3, <1>5, <1>6 DEF SchedulerStep

(* Neither does the end of a process, which wakes a parent that waits.     *)
LEMMA DepartureBirths ==
  ASSUME ProcInv, NEW p \in Procs, Alive(p), NEW links, Leaves(p, links, state)
  PROVE  \A x \in Procs : NotBorn(x)
<1>1. CASE UNCHANGED state
  BY <1>1 DEF NotBorn
<1>2. CASE TurnIntoZombie(p, links, state)
  <2>1. PICK read \in ParentReads(p) : StatesAfter(p, read, state)
    BY <1>2 DEF TurnIntoZombie, StatesAfter, FreedBy, Unwanted
  <2>2. Awakens(read) => parent[p] \in Procs /\ state[parent[p]] = "BLOCKEDWAITCHILD"
    BY ParentReadsFacts
  <2>3. state[p] # "UNUSED"
    BY DEF Alive
  <2> QED BY <2>1, <2>2, <2>3 DEF StatesAfter, NotBorn
<1> QED BY <1>1, <1>2 DEF Leaves

(* start and fork create one; the other calls nobody.                      *)
LEMMA LifeBirths ==
  ASSUME ProcInv, LifeCall \/ Resume \/ FreeDeadProcess
  PROVE  BirthsFit
<1> USE ProcFacts
<1>1. ASSUME NEW p \in Procs, NEW newprio, Create(p, newprio), Running PROVE BirthsFit
  <2>1. Birth(p)
    BY <1>1 DEF Create, Birth, NotBorn
  <2> QED BY <2>1 DEF BirthsFit
<1>2. CASE StartVirtualBad
  BY <1>2 DEF StartVirtualBad, schedVars, BirthsFit, NotBorn
<1>3. CASE ExitProcess
  <2>1. current \in Procs /\ Alive(current) /\ Leaves(current, queue, state)
    BY <1>3, OnTheHart DEF ExitProcess, Calling, Alive
  <2> QED BY <2>1, DepartureBirths DEF BirthsFit
<1>4. ASSUME NEW p \in Victims, Kill(p) PROVE BirthsFit
  <2>1. p \in Procs /\ Alive(p)
    BY <1>4, ProcessAssumption DEF Kill
  <2>2. Leaves(p, Unlink(queue, p), state) \/ UNCHANGED state
    BY <1>4 DEF Kill
  <2> QED BY <2>1, <2>2, DepartureBirths DEF BirthsFit, NotBorn
<1>5. ASSUME NEW which, Running, WaitForChild(which)
      PROVE  BirthsFit
  <2>1. current \in Procs /\ state[current] = "ACTIF"
    BY <1>5, OnTheHart
  <2>2. CASE Block(which)
    BY <1>5, <2>1, <2>2 DEF Block, WaitForChild, BirthsFit, NotBorn
  <2>3. ASSUME NEW i \in DOMAIN children[current], state[children[current][i]] = "ZOMBIE", Reap(i)
        PROVE  BirthsFit
    BY <1>5, <2>3 DEF Reap, WaitForChild, BirthsFit, NotBorn
  <2> QED BY <1>5, <2>2, <2>3, WaitForChildCases
<1>6. CASE FreeDeadProcess
  BY <1>6 DEF FreeDeadProcess, BirthsFit, NotBorn
<1>7. CASE Resume \/ \E which \in Procs \cup {AnyChild} : WaitPid(which)
  BY <1>5, <1>7 DEF Resume, WaitPid, Calling
<1>8. CASE \/ \E p \in Procs, newprio \in Prios : StartVirtual(p, newprio)
           \/ \E p \in Procs : Fork(p)
  BY <1>1, <1>8 DEF StartVirtual, Fork, Calling
<1> QED BY <1>2, <1>3, <1>4, <1>6, <1>7, <1>8 DEF LifeCall

(* A step of Process creates one process at most, and the current process  *)
(* is the one that asks.                                                   *)
LEMMA NextBirths ==
  ASSUME ProcInv, [Next]_vars
  PROVE  BirthsFit
<1>1. CASE Next
  BY <1>1, SchedulerBirths, LifeBirths DEF Next, KernelStep, BirthsFit
<1>2. CASE UNCHANGED vars
  BY <1>2 DEF vars, schedVars, BirthsFit, NotBorn
<1> QED BY <1>1, <1>2

-----------------------------------------------------------------------------
(* The hypothesis: the semaphore of the pipe is left to read_pipe and      *)
(* write_pipe, and nobody is killed who may be in them.  The code ensures  *)
(* neither: signal takes the identifier of any semaphore, and the kill of  *)
(* a waiter in the middle of the list makes another one ready, who would   *)
(* go on in the loop as if he had been woken by a signal.                  *)
PipeAlone ==
  /\ \A p \in Procs : SemCalls[p] = {}
  /\ \A p \in Victims : PipeCalls[p] = {}

(* The processes with a descriptor of an end, in the array f of tables.    *)
OwnersOf(f, e) == {p \in Procs : e \in f[p]}

(* An end is usable while it is counted, and no descriptor goes uncounted. *)
EndsFit ==
  /\ \A e \in Ends : /\ can[e] <=> usage_counter[e] # 0
                     /\ Cardinality(OwnersOf(fds, e)) <= usage_counter[e]
  /\ pipe = "open" <=> \E e \in Ends : can[e]

(* Who is inside is alive and has a descriptor of the end it uses.         *)
InsideFit ==
  \A p \in Procs : at[p] # "out" => Alive(p) /\ using[p] \in fds[p] /\ PipeCalls[p] # {}

(* Whoever is blocked on a semaphore is in a wait of the loops.            *)
BlockedFit ==
  \A p \in Procs : state[p] = "BLOCKEDSEMAPHORE" => at[p] \in {"entered", "waited"}

(* The semaphore of an open pipe exists.                                   *)
SemFit == freed = {} /\ (pipe = "open" => pipe_sem \in live)

(* A process that has returned from a wait and has not signalled yet: there*)
(* is one at most, and the count is not positive then.                     *)
Holding(p) == at[p] \in {"entered", "waited"} /\ state[p] # "BLOCKEDSEMAPHORE"

Mutex ==
  pipe = "open" =>
    /\ count[pipe_sem] <= 1
    /\ \A p \in Procs : Holding(p) => count[pipe_sem] <= 0
    /\ \A p, q \in Procs : Holding(p) /\ Holding(q) => p = q

PipeInv ==
  /\ SemInv
  /\ PipeTypeOK
  /\ EndsFit
  /\ InsideFit
  /\ BlockedFit
  /\ SemFit
  /\ Mutex
  /\ PositionsAgree

-----------------------------------------------------------------------------
(* Numbers of descriptors.                                                 *)
LEMMA OwnersFacts ==
  ASSUME NEW f, NEW e
  PROVE  /\ IsFiniteSet(OwnersOf(f, e)) /\ Cardinality(OwnersOf(f, e)) \in Nat
         /\ Cardinality(OwnersOf(f, e)) = 0 => \A p \in Procs : e \notin f[p]
<1>1. OwnersOf(f, e) \in SUBSET Procs
  BY DEF OwnersOf
<1>2. IsFiniteSet(OwnersOf(f, e))
  BY <1>1, FS_Subset, SchedulerAssumption
<1>3. Cardinality(OwnersOf(f, e)) = 0 => OwnersOf(f, e) = {}
  BY <1>2, FS_EmptySet
<1> QED BY <1>2, <1>3, FS_CardinalityType DEF OwnersOf

(* When no process gains a descriptor of an end there are not more owners. *)
LEMMA FewerOwners ==
  ASSUME NEW f, NEW g, NEW e, \A x \in Procs : e \in g[x] => e \in f[x]
  PROVE  Cardinality(OwnersOf(g, e)) <= Cardinality(OwnersOf(f, e))
<1>1. OwnersOf(g, e) \in SUBSET OwnersOf(f, e)
  BY DEF OwnersOf
<1> QED BY <1>1, OwnersFacts, FS_Subset

(* When one process at most gains it there is at most one more.            *)
LEMMA OneMoreOwner ==
  ASSUME NEW f, NEW g, NEW e, NEW p \in Procs,
         \A x \in Procs : x # p => (e \in g[x] => e \in f[x])
  PROVE  Cardinality(OwnersOf(g, e)) <= Cardinality(OwnersOf(f, e)) + 1
<1> DEFINE A == OwnersOf(f, e)
           B == OwnersOf(g, e)
<1>1. B \in SUBSET (A \cup {p})
  BY DEF OwnersOf
<1>2. IsFiniteSet(A) /\ Cardinality(A) \in Nat /\ Cardinality(B) \in Nat
  BY OwnersFacts
<1> HIDE DEF A, B
<1>3. IsFiniteSet(A \cup {p}) /\ Cardinality(A \cup {p}) <= Cardinality(A) + 1
      /\ Cardinality(A \cup {p}) \in Nat
  <2>1. IsFiniteSet(A)
    BY <1>2
  <2>2. /\ IsFiniteSet(A \cup {p})
        /\ Cardinality(A \cup {p}) = IF p \in A THEN Cardinality(A) ELSE Cardinality(A) + 1
    BY <2>1, FS_AddElement
  <2> QED BY <1>2, <2>2
<1>4. Cardinality(B) <= Cardinality(A \cup {p})
  BY <1>1, <1>3, FS_Subset
<1>5. Cardinality(B) <= Cardinality(A) + 1
  BY <1>2, <1>3, <1>4
<1> QED BY <1>5 DEF A, B

(* When one process loses it there is at least one less.                   *)
LEMMA OneOwnerLess ==
  ASSUME NEW f, NEW g, NEW e, NEW p \in Procs, e \in f[p], e \notin g[p],
         \A x \in Procs : e \in g[x] => e \in f[x]
  PROVE  Cardinality(OwnersOf(g, e)) <= Cardinality(OwnersOf(f, e)) - 1
<1> DEFINE A == OwnersOf(f, e)
           B == OwnersOf(g, e)
<1>1. B \in SUBSET (A \ {p}) /\ p \in A
  BY DEF OwnersOf
<1>2. IsFiniteSet(A) /\ Cardinality(A) \in Nat /\ Cardinality(B) \in Nat
  BY OwnersFacts
<1> HIDE DEF A, B
<1>3. IsFiniteSet(A \ {p}) /\ Cardinality(A \ {p}) = Cardinality(A) - 1
  BY <1>1, <1>2, FS_RemoveElement
<1>4. Cardinality(B) <= Cardinality(A \ {p})
  BY <1>1, <1>3, FS_Subset
<1>5. Cardinality(B) <= Cardinality(A) - 1
  BY <1>2, <1>3, <1>4
<1> QED BY <1>5 DEF A, B

-----------------------------------------------------------------------------
(* The steps outside the pipe.  A process that is created has the          *)
(* descriptors of its parent, and they are counted, or none.               *)
LEMMA InheritKeeps ==
  ASSUME PipeInv, BirthsFit, Inherit, UNCHANGED <<pipe, can, using>>
  PROVE  EndsFit' /\ InsideFit' /\ usage_counter' \in [Ends -> Nat]
         /\ fds' \in [Procs -> SUBSET Ends] /\ at' \in [Procs -> Places]
<1> DEFINE born == {p \in Procs : state[p] = "UNUSED" /\ state'[p] # "UNUSED"}
           heirs == IF nb_proc_running' = nb_proc_running THEN born ELSE {}
<1>1. /\ usage_counter' = [e \in Ends |-> usage_counter[e]
                              + Cardinality({p \in heirs : e \in fds[current]})]
      /\ fds' = [p \in Procs |-> CASE p \in heirs -> fds[current]
                                   [] p \in born \ heirs -> {}
                                   [] OTHER -> fds[p]]
      /\ at' = [p \in Procs |-> IF Alive(p)' THEN at[p] ELSE "out"]
  BY DEF Inherit, CountedFor
<1>2. /\ usage_counter \in [Ends -> Nat] /\ fds \in [Procs -> SUBSET Ends]
      /\ at \in [Procs -> Places] /\ "out" \in Places
  BY DEF PipeInv, PipeTypeOK, Places
<1>3. at' \in [Procs -> Places]
  BY <1>1, <1>2
<1>4. ASSUME heirs = {} 
      PROVE  /\ usage_counter' = usage_counter
             /\ \A p \in Procs : fds'[p] = IF p \in born THEN {} ELSE fds[p]
  <2>1. \A e : {p \in heirs : e \in fds[current]} = {}
    BY <1>4
  <2> HIDE DEF heirs, born
  <2>2. ASSUME NEW e \in Ends PROVE usage_counter'[e] = usage_counter[e]
    <3>1. usage_counter'[e] = usage_counter[e] + Cardinality({p \in heirs : e \in fds[current]})
      BY <1>1
    <3>2. usage_counter'[e] = usage_counter[e] + 0
      BY <2>1, <3>1, FS_EmptySet
    <3> QED BY <1>2, <3>2
  <2>3. usage_counter' = usage_counter
    BY <1>1, <1>2, <2>2
  <2>4. \A p \in Procs : fds'[p] = IF p \in born THEN {} ELSE fds[p]
    BY <1>1, <1>4
  <2> QED BY <2>3, <2>4
<1>5. ASSUME NEW p \in Procs, Birth(p), heirs # {}
      PROVE  /\ current \in Procs
             /\ \A e \in Ends : usage_counter'[e] =
                                  usage_counter[e] + (IF e \in fds[current] THEN 1 ELSE 0)
             /\ \A x \in Procs : fds'[x] = IF x = p THEN fds[current] ELSE fds[x]
  <2>1. heirs = {p} /\ born = {p}
    BY <1>5 DEF Birth, NotBorn
  <2>2. current \in Procs
    BY <1>5, OnTheHart DEF Birth, PipeInv, SemInv
  <2> HIDE DEF heirs, born
  <2>3. \A e \in Ends : Cardinality({x \in heirs : e \in fds[current]}) =
                          IF e \in fds[current] THEN 1 ELSE 0
    <3>1. ASSUME NEW e \in Ends, e \in fds[current]
          PROVE  Cardinality({x \in heirs : e \in fds[current]}) = 1
      <4>1. {x \in heirs : e \in fds[current]} = {p}
        BY <2>1, <3>1
      <4> QED BY <4>1, FS_Singleton
    <3>2. ASSUME NEW e \in Ends, e \notin fds[current]
          PROVE  Cardinality({x \in heirs : e \in fds[current]}) = 0
      <4>1. {x \in heirs : e \in fds[current]} = {}
        BY <3>2
      <4> QED BY <4>1, FS_EmptySet
    <3> QED BY <3>1, <3>2
  <2>4. \A x \in Procs : fds'[x] = IF x = p THEN fds[current] ELSE fds[x]
    BY <1>1, <2>1
  <2> QED BY <1>1, <2>2, <2>3, <2>4
<1>6. \/ heirs = {}
      \/ heirs # {} /\ \E p \in Procs : Birth(p)
  <2>1. (\A x \in Procs : NotBorn(x)) => heirs = {}
    BY DEF NotBorn
  <2> QED BY <2>1 DEF BirthsFit
<1> HIDE DEF heirs
<1>7. \A p \in Procs : p \notin born => fds'[p] = fds[p]
  BY <1>1, <1>4, <1>5, <1>6 DEF Birth, NotBorn
<1>8. /\ usage_counter' \in [Ends -> Nat] /\ fds' \in [Procs -> SUBSET Ends]
      /\ \A e \in Ends : /\ usage_counter'[e] = 0 <=> usage_counter[e] = 0
                         /\ Cardinality(OwnersOf(fds', e)) <= usage_counter'[e]
  <2>1. \A e \in Ends : /\ usage_counter[e] \in Nat
                         /\ Cardinality(OwnersOf(fds, e)) \in Nat
                         /\ Cardinality(OwnersOf(fds, e)) <= usage_counter[e]
    BY <1>2, OwnersFacts DEF PipeInv, EndsFit
  <2>2. CASE heirs = {}
    <3>1. \A e \in Ends : Cardinality(OwnersOf(fds', e)) <= Cardinality(OwnersOf(fds, e))
      BY <1>4, <2>2, FewerOwners
    <3>2. \A e \in Ends : Cardinality(OwnersOf(fds', e)) \in Nat
      BY OwnersFacts
    <3>3. fds' \in [Procs -> SUBSET Ends]
      BY <1>1, <1>2, <1>4, <2>2
    <3> QED BY <1>2, <1>4, <2>1, <2>2, <3>1, <3>2, <3>3
  <2>3. ASSUME NEW p \in Procs, Birth(p), heirs # {}
        PROVE  /\ usage_counter' \in [Ends -> Nat] /\ fds' \in [Procs -> SUBSET Ends]
               /\ \A e \in Ends : /\ usage_counter'[e] = 0 <=> usage_counter[e] = 0
                                  /\ Cardinality(OwnersOf(fds', e)) <= usage_counter'[e]
    <3>1. /\ current \in Procs
          /\ \A e \in Ends : usage_counter'[e] =
                               usage_counter[e] + (IF e \in fds[current] THEN 1 ELSE 0)
          /\ \A x \in Procs : fds'[x] = IF x = p THEN fds[current] ELSE fds[x]
      BY <1>5, <2>3
    <3>2. fds' \in [Procs -> SUBSET Ends]
      BY <1>1, <1>2, <3>1
    <3>3. ASSUME NEW e \in Ends
          PROVE  /\ usage_counter'[e] = 0 <=> usage_counter[e] = 0
                 /\ Cardinality(OwnersOf(fds', e)) <= usage_counter'[e]
                 /\ usage_counter'[e] \in Nat
      <4>1. Cardinality(OwnersOf(fds', e)) \in Nat
        BY OwnersFacts
      <4>2. CASE e \in fds[current]
        <5>1. usage_counter'[e] = usage_counter[e] + 1
          BY <3>1, <4>2
        <5>2. Cardinality(OwnersOf(fds, e)) # 0
          BY <3>1, <4>2, OwnersFacts
        <5>3. Cardinality(OwnersOf(fds', e)) <= Cardinality(OwnersOf(fds, e)) + 1
          BY <3>1, OneMoreOwner
        <5> QED BY <2>1, <4>1, <5>1, <5>2, <5>3
      <4>3. CASE e \notin fds[current]
        <5>1. usage_counter'[e] = usage_counter[e] + 0
          BY <3>1, <4>3
        <5>2. Cardinality(OwnersOf(fds', e)) <= Cardinality(OwnersOf(fds, e))
          BY <3>1, <4>3, FewerOwners
        <5> QED BY <2>1, <4>1, <5>1, <5>2
      <4> QED BY <4>2, <4>3
    <3>4. usage_counter' \in [Ends -> Nat]
      BY <1>1, <3>3
    <3> QED BY <3>2, <3>3, <3>4
  <2> QED BY <1>6, <2>2, <2>3
<1>9. EndsFit'
  BY <1>8 DEF PipeInv, EndsFit
<1>10. InsideFit'
  <2> SUFFICES ASSUME NEW p \in Procs, at'[p] # "out"
               PROVE  Alive(p)' /\ using'[p] \in fds'[p] /\ PipeCalls[p] # {}
    BY DEF InsideFit
  <2>1. Alive(p)' /\ at[p] # "out"
    BY <1>1
  <2>2. Alive(p) /\ using[p] \in fds[p] /\ PipeCalls[p] # {}
    BY <2>1 DEF PipeInv, InsideFit
  <2>3. p \notin born
    BY <2>2 DEF Alive
  <2> QED BY <1>7, <2>1, <2>2, <2>3
<1> QED BY <1>3, <1>8, <1>9, <1>10

(* No call on a semaphore comes from outside, and no waiter is killed.     *)
LEMMA OnlyNext ==
  ASSUME PipeAlone, PipeInv, SemNext
  PROVE  Next /\ UNCHANGED semVars
<1>1. ASSUME NEW name, SemAsked(name) PROVE FALSE
  <2>1. Running /\ name \in SemCalls[current]
    BY <1>1 DEF SemAsked
  <2>2. current \in Procs
    BY <2>1, OnTheHart DEF PipeInv, SemInv
  <2> QED BY <2>1, <2>2 DEF PipeAlone
<1>2. ~ SemCall
  BY <1>1 DEF SemCall, Screate, Signaln, Sreset, Wait, TryWait, Sdelete, WalksFreed, SemCalling
<1>3. ASSUME NEW p \in Victims, KillWaiter(p) PROVE FALSE
  <2>1. p \in Procs /\ state[p] = "BLOCKEDSEMAPHORE"
    BY <1>3, ProcessAssumption DEF KillWaiter
  <2>2. PipeCalls[p] # {}
    BY <2>1 DEF PipeInv, BlockedFit, InsideFit
  <2> QED BY <2>2 DEF PipeAlone
<1> QED BY <1>2, <1>3 DEF SemNext

(* The first disjunct of PipeNext.                                         *)
LEMMA OutsideKeeps ==
  ASSUME PipeAlone, PipeInv, SemNext, Inherit,
         UNCHANGED <<bufVars, pipe, pipe_sem, can, using, left>>
  PROVE  PipeInv'
<1>1. Next /\ UNCHANGED semVars
  BY OnlyNext
<1>2. SemInv' /\ WaitersSpared /\ BirthsFit
  BY <1>1, OtherStepsKeep, NextSpares, NextBirths DEF PipeInv, SemInv
<1>3. /\ EndsFit' /\ InsideFit' /\ usage_counter' \in [Ends -> Nat]
      /\ fds' \in [Procs -> SUBSET Ends] /\ at' \in [Procs -> Places]
  BY <1>2, InheritKeeps
<1>4. PipeTypeOK' /\ PositionsAgree'
  BY <1>3 DEF PipeInv, PipeTypeOK, PositionsAgree, bufVars
<1>5. \A p \in Procs : /\ at'[p] = IF Alive(p)' THEN at[p] ELSE "out"
                       /\ state'[p] = "BLOCKEDSEMAPHORE" <=> state[p] = "BLOCKEDSEMAPHORE"
  BY <1>2 DEF Inherit, WaitersSpared
<1>6. BlockedFit'
  <2>1. \A p \in Procs : state'[p] = "BLOCKEDSEMAPHORE" => Alive(p)'
    BY DEF Alive
  <2> QED BY <1>5, <2>1 DEF PipeInv, BlockedFit
<1>7. SemFit'
  BY <1>1 DEF PipeInv, SemFit, semVars
<1>8. Mutex'
  <2>1. \A p \in Procs : Holding(p)' => Holding(p)
    BY <1>5 DEF Holding
  <2> QED BY <1>1, <2>1 DEF PipeInv, Mutex, semVars
<1> QED BY <1>2, <1>3, <1>4, <1>6, <1>7, <1>8 DEF PipeInv

-----------------------------------------------------------------------------
(* What the loops keep whatever they do: they change no descriptor, and    *)
(* who is inside goes on to another place.                                 *)
LEMMA InsideKept ==
  ASSUME PipeInv, UNCHANGED endVars, NEW p \in Procs, NEW place \in Places,
         at' = [at EXCEPT ![p] = place], using'[p] \in fds[p], PipeCalls[p] # {},
         \A x \in Procs : x # p => using'[x] = using[x],
         \A x \in Procs : Alive(x) => Alive(x)', Alive(p)
  PROVE  EndsFit' /\ InsideFit' /\ at' \in [Procs -> Places]
<1>1. at \in [Procs -> Places]
  BY DEF PipeInv, PipeTypeOK
<1>2. EndsFit'
  BY DEF PipeInv, EndsFit, endVars
<1>3. InsideFit'
  BY <1>1 DEF PipeInv, InsideFit, endVars
<1> QED BY <1>1, <1>2, <1>3

(* A wait on the semaphore of the pipe: the process that finds it free     *)
(* holds it, and another is not holding it yet.                            *)
LEMMA WaitKeepsPipe ==
  ASSUME PipeInv, Running, current # Idle, pipe = "open", WaitOn(pipe_sem),
         NEW place \in {"entered", "waited"}, at' = [at EXCEPT ![current] = place],
         UNCHANGED <<pipe, pipe_sem>>
  PROVE  SemInv' /\ BlockedFit' /\ SemFit' /\ Mutex' /\ \A x \in Procs : Alive(x) => Alive(x)'
<1> DEFINE s == pipe_sem
<1>1. /\ s \in live /\ s \in Sems /\ count[s] \in Int /\ freed = {}
      /\ current \in Procs /\ state[current] = "ACTIF" /\ state \in [Procs -> States]
      /\ at \in [Procs -> Places]
  <2>1. /\ current \in Procs /\ state[current] = "ACTIF" /\ state \in [Procs -> States]
        /\ at \in [Procs -> Places]
    BY OnTheHart, ProcFacts DEF PipeInv, SemInv, PipeTypeOK
  <2>2. s \in live /\ s \in Sems /\ freed = {}
    BY DEF PipeInv, SemFit, SemInv, SemTypeOK
  <2>3. count[s] \in MIN_COUNT .. MAX_COUNT /\ MIN_COUNT \in Int /\ MAX_COUNT \in Int
    BY <2>2, SemaphoreAssumption DEF PipeInv, SemInv, SemTypeOK
  <2> QED BY <2>1, <2>2, <2>3
<1>2. sem_signal' \in [Procs -> Signals]
  BY DEF WaitOn, PipeInv, SemInv, SemTypeOK, Signals
<1>3. SemInv'
  BY <1>1, <1>2, TakeKeeps, JoinKeepsAll DEF WaitOn, PipeInv
<1>4. count'[s] = count[s] - 1 /\ live' = live /\ freed' = freed
  BY <1>1 DEF WaitOn, Take, Join, Rest, PipeInv, SemInv, SemTypeOK
<1>5. SemFit'
  BY <1>4 DEF PipeInv, SemFit
<1>6. /\ count[s] <= 1
      /\ \A p \in Procs : Holding(p) => count[s] <= 0
      /\ \A p, q \in Procs : Holding(p) /\ Holding(q) => p = q
  BY DEF PipeInv, Mutex
<1>7. CASE Take(s)
  <2>1. state' = state /\ count[s] > 0
    BY <1>7 DEF Take
  <2>2. \A p \in Procs : ~ Holding(p)
    BY <1>1, <1>6, <2>1
  <2>3. \A p \in Procs : Holding(p)' => p = current
    BY <1>1, <2>1, <2>2 DEF Holding
  <2>4. count'[s] <= 0
    BY <1>1, <1>4, <1>6
  <2>5. Mutex'
    BY <1>1, <1>4, <2>3, <2>4 DEF Mutex
  <2>6. BlockedFit'
    BY <1>1, <2>1 DEF PipeInv, BlockedFit
  <2> QED BY <1>3, <1>5, <2>1, <2>5, <2>6 DEF Alive
<1>8. CASE Join(s)
  <2>1. state' = [state EXCEPT ![current] = "BLOCKEDSEMAPHORE"] /\ count[s] <= 0
    BY <1>8 DEF Join
  <2>2. \A p \in Procs : Holding(p)' => Holding(p)
    BY <1>1, <2>1 DEF Holding
  <2>3. count'[s] <= 0
    BY <1>1, <1>4, <2>1
  <2>4. Mutex'
    BY <1>1, <1>4, <1>6, <2>2, <2>3 DEF Mutex
  <2>5. BlockedFit'
    BY <1>1, <2>1 DEF PipeInv, BlockedFit
  <2>6. \A x \in Procs : Alive(x) => Alive(x)'
    BY <1>1, <2>1 DEF Alive
  <2> QED BY <1>3, <1>5, <2>4, <2>5, <2>6
<1> QED BY <1>7, <1>8 DEF WaitOn

(* A signal: who holds the semaphore gives it to the first waiter, who     *)
(* holds it then, or nobody waits and nobody holds it.                     *)
LEMMA SignalKeepsPipe ==
  ASSUME PipeInv, Running, pipe = "open", SignalOn(pipe_sem, 1),
         at[current] \in {"entered", "waited"}, at' = [at EXCEPT ![current] = "signalled"],
         UNCHANGED <<pipe, pipe_sem>>
  PROVE  SemInv' /\ BlockedFit' /\ SemFit' /\ Mutex' /\ \A x \in Procs : Alive(x) => Alive(x)'
<1> DEFINE s == pipe_sem
           m == Min({1, Max({0, - count[s]}), Len(waiting[s])})
           A == Woken(s, m)
<1>1. /\ current \in Procs /\ state[current] = "ACTIF" /\ at \in [Procs -> Places]
      /\ state \in [Procs -> States] /\ s \in live /\ s \in Sems /\ freed = {}
      /\ waiting[s] \in Seq(Procs)
  BY OnTheHart, ProcFacts DEF PipeInv, SemInv, PipeTypeOK, SemFit, SemTypeOK
<1>2. /\ count' = [count EXCEPT ![s] = @ + 1]
      /\ state' = [p \in Procs |-> IF p \in Range(A) THEN "ACTIVATABLE" ELSE state[p]]
      /\ live' = live /\ freed' = freed
  BY DEF SignalOn, Unblock, Rest
<1>3. count[s] \in Int /\ count \in [Sems -> MIN_COUNT .. MAX_COUNT]
  <2>1. count[s] \in MIN_COUNT .. MAX_COUNT /\ MIN_COUNT \in Int /\ MAX_COUNT \in Int
    BY <1>1, SemaphoreAssumption DEF PipeInv, SemInv, SemTypeOK
  <2> QED BY <2>1 DEF PipeInv, SemInv, SemTypeOK
<1>4. SemInv'
  <2>1. 1 \in 0 .. MAX_COUNT
    BY PipeAssumption, SemaphoreAssumption
  <2> QED BY <1>1, <2>1, SignalKeeps DEF PipeInv
<1>5. count'[s] = count[s] + 1
  BY <1>1, <1>2, <1>3
<1>6. SemFit'
  BY <1>2 DEF PipeInv, SemFit
<1>7. \A x \in Procs : Alive(x) => Alive(x)'
  BY <1>2 DEF Alive
<1>8. BlockedFit'
  BY <1>1, <1>2 DEF PipeInv, BlockedFit
<1>9. /\ Len(waiting[s]) \in Nat
      /\ m \in 0 .. Len(waiting[s]) /\ m <= 1 /\ (count[s] >= 0 => m = 0)
  <2> DEFINE l == Len(waiting[s])
  <2>1. l \in Nat /\ l = IF count[s] < 0 THEN - count[s] ELSE 0
    BY <1>1 DEF PipeInv, SemInv, CountFits
  <2>2. Max({0, - count[s]}) = l
    <3>1. - count[s] \in Int
      BY <1>3
    <3>2. Max({0, - count[s]}) = IF - count[s] > 0 THEN - count[s] ELSE 0
      BY <3>1, MaxZero
    <3> QED BY <1>3, <2>1, <3>2
  <2>3. m = Min({1, l, l})
    BY <2>2
  <2> HIDE DEF m, l
  <2>4. m \in {1, l, l} /\ m <= 1 /\ m <= l
    BY <2>1, <2>3, MinOfThree
  <2>5. l \in Nat /\ m \in 0 .. l /\ m <= 1 /\ (count[s] >= 0 => m = 0)
    BY <1>3, <2>1, <2>4
  <2> QED BY <2>5 DEF l
<1> HIDE DEF m
<1>10. /\ \A x, y \in Range(A) : x = y
       /\ count[s] >= 0 => Range(A) = {}
  <2>1. DOMAIN A = 1 .. m /\ m \in Nat
    BY <1>1, <1>9 DEF Woken
  <2>2. \A x \in Range(A) : \E i \in 1 .. m : x = A[i]
    BY <2>1 DEF Range
  <2>3. (\A i \in 1 .. m : i = 1) /\ (m = 0 => 1 .. m = {})
    BY <1>9, <2>1
  <2> HIDE DEF A
  <2> QED BY <1>9, <2>2, <2>3
<1> HIDE DEF A
<1>11. /\ count[s] <= 0
       /\ \A p \in Procs : Holding(p) => p = current
  <2>1. Holding(current)
    BY <1>1 DEF Holding
  <2> QED BY <1>1, <2>1 DEF PipeInv, Mutex
<1>12. \A p \in Procs : Holding(p)' => p \in Range(A)
  BY <1>1, <1>2, <1>11 DEF Holding
<1>13. /\ count'[s] <= 1
       /\ \A p \in Procs : Holding(p)' => count'[s] <= 0
  <2>1. count[s] + 1 <= 1 /\ (~ count[s] >= 0 => count[s] + 1 <= 0)
    BY <1>3, <1>11
  <2> QED BY <1>5, <1>10, <1>12, <2>1
<1>14. Mutex'
  BY <1>10, <1>12, <1>13 DEF Mutex
<1> QED BY <1>4, <1>6, <1>7, <1>8, <1>14

-----------------------------------------------------------------------------
(* When the pipe is not open nobody has a descriptor, nor is inside.       *)
LEMMA NobodyInside ==
  ASSUME PipeInv, pipe # "open"
  PROVE  \A p \in Procs : at[p] = "out" /\ \A e \in Ends : e \notin fds[p]
<1>1. ASSUME NEW p \in Procs, NEW e \in Ends PROVE e \notin fds[p]
  <2>1. usage_counter[e] = 0 /\ Cardinality(OwnersOf(fds, e)) <= usage_counter[e]
    BY DEF PipeInv, EndsFit
  <2>2. Cardinality(OwnersOf(fds, e)) = 0
    BY <2>1, OwnersFacts
  <2> QED BY <2>2, OwnersFacts
<1> QED BY <1>1 DEF PipeInv, InsideFit, PipeTypeOK

(* A descriptor is of a usable end.                                        *)
LEMMA OwnedOpen ==
  ASSUME PipeInv, NEW p \in Procs, NEW e \in Ends, e \in fds[p]
  PROVE  pipe = "open" /\ can[e] /\ usage_counter[e] \in Nat \ {0}
<1>1. usage_counter[e] \in Nat /\ (can[e] <=> usage_counter[e] # 0)
      /\ Cardinality(OwnersOf(fds, e)) <= usage_counter[e]
  BY DEF PipeInv, EndsFit, PipeTypeOK
<1>2. Cardinality(OwnersOf(fds, e)) # 0 /\ Cardinality(OwnersOf(fds, e)) \in Nat
  BY OwnersFacts
<1>3. usage_counter[e] # 0
  BY <1>1, <1>2
<1> QED BY <1>1, <1>3 DEF PipeInv, EndsFit

(* pipe: nobody had a descriptor of an end that was not counted.           *)
LEMMA SysPipeKeeps ==
  ASSUME PipeInv, NEW s \in Sems, SysPipe(s)
  PROVE  PipeInv'
<1>1. /\ Running /\ pipe = "none" /\ CreateSem(s, 1)
      /\ pipe' = "open" /\ pipe_sem' = s
      /\ can' = [e \in Ends |-> TRUE]
      /\ usage_counter' = [e \in Ends |-> 1]
      /\ fds' = [fds EXCEPT ![current] = Ends]
      /\ UNCHANGED <<cur_buf_cap, pos_read, pos_written, at, using, left>>
  BY DEF SysPipe, PipeCalling, bufVars, placeVars
<1>2. current \in Procs
  BY <1>1, OnTheHart DEF PipeInv, SemInv
<1>3. \A p \in Procs : at[p] = "out" /\ \A e \in Ends : e \notin fds[p]
  BY <1>1, NobodyInside
<1>4. SemInv'
  <2>1. 1 \in 0 .. MAX_COUNT
    BY PipeAssumption, SemaphoreAssumption
  <2> QED BY <1>1, <2>1, CreateSemKeeps DEF PipeInv
<1>5. /\ state' = state /\ freed' = freed /\ live' = live \cup {s}
      /\ count' = [count EXCEPT ![s] = 1]
  BY <1>1 DEF CreateSem, schedVars
<1>6. fds' \in [Procs -> SUBSET Ends]
  BY <1>1, <1>2 DEF PipeInv, PipeTypeOK
<1>7. PipeTypeOK'
  BY <1>1, <1>6 DEF PipeInv, PipeTypeOK
<1>8. EndsFit'
  <2>1. ASSUME NEW e \in Ends PROVE Cardinality(OwnersOf(fds', e)) <= 1
    <3>1. OwnersOf(fds, e) = {}
      BY <1>3 DEF OwnersOf
    <3>2. Cardinality(OwnersOf(fds, e)) = 0
      BY <3>1, FS_EmptySet
    <3>3. \A x \in Procs : x # current => (e \in fds'[x] => e \in fds[x])
      BY <1>1, <1>2 DEF PipeInv, PipeTypeOK
    <3>4. Cardinality(OwnersOf(fds', e)) <= Cardinality(OwnersOf(fds, e)) + 1
      BY <1>2, <3>3, OneMoreOwner
    <3>5. Cardinality(OwnersOf(fds', e)) \in Nat
      BY OwnersFacts
    <3> QED BY <3>2, <3>4, <3>5
  <2>2. \E e \in Ends : can'[e]
    BY <1>1 DEF Ends
  <2>3. \A e \in Ends : /\ can'[e] <=> usage_counter'[e] # 0
                       /\ Cardinality(OwnersOf(fds', e)) <= usage_counter'[e]
    <3>1. \A e \in Ends : can'[e] /\ usage_counter'[e] = 1 /\ usage_counter'[e] # 0
      BY <1>1
    <3> QED BY <2>1, <3>1
  <2>4. pipe' = "open"
    BY <1>1
  <2> QED BY <2>2, <2>3, <2>4 DEF EndsFit
<1>9. InsideFit' /\ \A p \in Procs : ~ Holding(p)'
  BY <1>1, <1>3 DEF InsideFit, Holding
<1>10. BlockedFit'
  BY <1>1, <1>5 DEF PipeInv, BlockedFit
<1>11. SemFit'
  BY <1>1, <1>5 DEF PipeInv, SemFit
<1>12. Mutex'
  <2>1. count'[s] = 1
    BY <1>5 DEF PipeInv, SemInv, SemTypeOK
  <2> QED BY <1>1, <1>9, <2>1 DEF Mutex
<1>13. PositionsAgree'
  BY <1>1 DEF PipeInv, PositionsAgree
<1> QED BY <1>4, <1>7, <1>8, <1>9, <1>10, <1>11, <1>12, <1>13 DEF PipeInv

(* close.                                                                  *)
LEMMA CloseKeeps ==
  ASSUME PipeInv, NEW e \in Ends, Close(e)
  PROVE  PipeInv'
<1>1. /\ Running /\ OutOfPipe /\ e \in fds[current]
      /\ fds' = [fds EXCEPT ![current] = @ \ {e}]
      /\ usage_counter' = [usage_counter EXCEPT ![e] = @ - 1]
      /\ can' = [can EXCEPT ![e] = usage_counter[e] # 1]
      /\ IF \E end \in Ends : can'[end]
         THEN UNCHANGED <<allVars, pipe>>
         ELSE DeleteSem(pipe_sem) /\ pipe' = "freed"
      /\ UNCHANGED <<pipe_sem, cur_buf_cap, pos_read, pos_written, at, using, left>>
  BY DEF Close, PipeCalling, bufVars, placeVars
<1>2. current \in Procs /\ current # NoProc /\ at[current] = "out"
  <2>1. current \in Procs
    BY <1>1, OnTheHart DEF PipeInv, SemInv
  <2> QED BY <1>1, <2>1, SchedulerAssumption DEF OutOfPipe
<1>3. pipe = "open" /\ can[e] /\ usage_counter[e] \in Nat \ {0}
  BY <1>1, <1>2, OwnedOpen
<1>4. /\ usage_counter \in [Ends -> Nat] /\ fds \in [Procs -> SUBSET Ends]
      /\ can \in [Ends -> BOOLEAN]
  BY DEF PipeInv, PipeTypeOK
<1>5. /\ usage_counter'[e] = usage_counter[e] - 1
      /\ can'[e] <=> usage_counter[e] # 1
      /\ \A x \in Ends : x # e => usage_counter'[x] = usage_counter[x] /\ can'[x] = can[x]
      /\ fds'[current] = fds[current] \ {e}
      /\ \A p \in Procs : p # current => fds'[p] = fds[p]
  BY <1>1, <1>2, <1>4
<1>6. usage_counter[e] - 1 \in Nat
  BY <1>3
<1>7. /\ usage_counter' \in [Ends -> Nat] /\ can' \in [Ends -> BOOLEAN]
      /\ fds' \in [Procs -> SUBSET Ends]
  BY <1>1, <1>2, <1>4, <1>6
<1>8. ASSUME NEW x \in Ends
      PROVE  /\ can'[x] <=> usage_counter'[x] # 0
             /\ Cardinality(OwnersOf(fds', x)) <= usage_counter'[x]
  <2>1. /\ Cardinality(OwnersOf(fds', x)) \in Nat /\ Cardinality(OwnersOf(fds, x)) \in Nat
        /\ usage_counter[x] \in Nat
    BY <1>4, OwnersFacts
  <2>2. /\ can[x] <=> usage_counter[x] # 0
        /\ Cardinality(OwnersOf(fds, x)) <= usage_counter[x]
    BY DEF PipeInv, EndsFit
  <2>3. \A p \in Procs : x \in fds'[p] => x \in fds[p]
    BY <1>5
  <2>4. CASE x = e
    <3>1. e \notin fds'[current]
      BY <1>5
    <3>2. Cardinality(OwnersOf(fds', e)) <= Cardinality(OwnersOf(fds, e)) - 1
      BY <1>1, <1>2, <2>3, <2>4, <3>1, OneOwnerLess
    <3>3. Cardinality(OwnersOf(fds', e)) <= usage_counter[e] - 1
      BY <2>1, <2>2, <2>4, <3>2
    <3>4. usage_counter[e] # 1 <=> usage_counter[e] - 1 # 0
      BY <1>3
    <3> QED BY <1>5, <2>4, <3>3, <3>4
  <2>5. CASE x # e
    <3>1. Cardinality(OwnersOf(fds', x)) <= Cardinality(OwnersOf(fds, x))
      BY <2>3, FewerOwners
    <3>2. Cardinality(OwnersOf(fds', x)) <= usage_counter[x]
      BY <2>1, <2>2, <3>1
    <3> QED BY <1>5, <2>2, <2>5, <3>2
  <2> QED BY <2>4, <2>5
<1>9. pipe_sem \in live /\ freed = {}
  BY <1>3 DEF PipeInv, SemFit
<1>10. PositionsAgree'
  BY <1>1 DEF PipeInv, PositionsAgree
<1>11. CASE \E end \in Ends : can'[end]
  <2>1. UNCHANGED <<allVars, pipe>>
    BY <1>1, <1>11
  <2>2. SemInv' /\ UNCHANGED <<state, live, freed, count, pipe>>
    <3>1. UNCHANGED vars /\ UNCHANGED semVars
      BY <2>1 DEF allVars
    <3> QED BY <2>1, <3>1, OtherStepsKeep DEF PipeInv, vars, schedVars, semVars
  <2>3. EndsFit'
    BY <1>3, <1>8, <1>11, <2>2 DEF EndsFit
  <2>4. PipeTypeOK'
    BY <1>1, <1>7, <2>2 DEF PipeInv, PipeTypeOK
  <2>5. InsideFit'
    BY <1>1, <1>2, <1>5, <2>2 DEF PipeInv, InsideFit, Alive
  <2>6. BlockedFit' /\ SemFit' /\ Mutex'
    BY <1>1, <2>2 DEF PipeInv, BlockedFit, SemFit, Mutex, Holding
  <2> QED BY <1>10, <2>2, <2>3, <2>4, <2>5, <2>6 DEF PipeInv
<1>12. CASE ~ \E end \in Ends : can'[end]
  <2>1. DeleteSem(pipe_sem) /\ pipe' = "freed"
    BY <1>1, <1>12
  <2>2. SemInv'
    BY <1>1, <1>9, <2>1, DeleteKeeps DEF PipeInv
  <2>3. /\ freed' = freed
        /\ \A p \in Procs : /\ Alive(p) => Alive(p)'
                            /\ state'[p] = "BLOCKEDSEMAPHORE" => state[p] = "BLOCKEDSEMAPHORE"
    BY <2>1 DEF DeleteSem, Unblock, Rest, Alive
  <2>4. EndsFit'
    BY <1>8, <1>12, <2>1 DEF EndsFit
  <2>5. PipeTypeOK'
    BY <1>1, <1>7, <2>1 DEF PipeInv, PipeTypeOK
  <2>6. InsideFit'
    BY <1>1, <1>2, <1>5, <2>3 DEF PipeInv, InsideFit
  <2>7. BlockedFit' /\ SemFit' /\ Mutex'
    BY <1>1, <2>1, <2>3 DEF PipeInv, BlockedFit, SemFit, Mutex
  <2> QED BY <1>10, <2>2, <2>4, <2>5, <2>6, <2>7 DEF PipeInv
<1> QED BY <1>11, <1>12

(* The first wait of read_pipe or write_pipe.                              *)
LEMMA EnterPipeKeeps ==
  ASSUME PipeInv, NEW e \in Ends, NEW n \in Lengths, EnterPipe(e, n)
  PROVE  PipeInv'
<1>1. /\ Running /\ e \in PipeCalls[current] /\ e \in fds[current] /\ WaitOn(pipe_sem)
      /\ at' = [at EXCEPT ![current] = "entered"]
      /\ using' = [using EXCEPT ![current] = e]
      /\ left' = [left EXCEPT ![current] = n]
      /\ UNCHANGED <<cur_buf_cap, pos_read, pos_written>> /\ UNCHANGED endVars
  BY DEF EnterPipe, PipeCalling, bufVars
<1>2. /\ current \in Procs /\ Alive(current) /\ current # Idle
  <2>1. current \in Procs /\ state[current] = "ACTIF"
    BY <1>1, OnTheHart DEF PipeInv, SemInv
  <2> QED BY <1>1, <2>1, PipeAssumption DEF Alive
<1>3. pipe = "open"
  BY <1>1, <1>2, OwnedOpen
<1>4. SemInv' /\ BlockedFit' /\ SemFit' /\ Mutex' /\ \A x \in Procs : Alive(x) => Alive(x)'
  <2>1. UNCHANGED <<pipe, pipe_sem>> /\ "entered" \in {"entered", "waited"}
    BY <1>1 DEF endVars
  <2> QED BY <1>1, <1>2, <1>3, <2>1, WaitKeepsPipe
<1>5. /\ using \in [Procs -> Ends] /\ left \in [Procs -> {0} \cup Nat]
      /\ n \in {0} \cup Nat
  BY PipeAssumption DEF PipeInv, PipeTypeOK
<1>6. EndsFit' /\ InsideFit' /\ at' \in [Procs -> Places]
  <2>1. /\ using'[current] = e /\ \A x \in Procs : x # current => using'[x] = using[x]
        /\ "entered" \in Places
    BY <1>1, <1>2, <1>5 DEF Places
  <2> QED BY <1>1, <1>2, <1>4, <2>1, InsideKept
<1>7. PipeTypeOK'
  <2>1. using' \in [Procs -> Ends] /\ left' \in [Procs -> {0} \cup Nat]
    BY <1>1, <1>2, <1>5
  <2> QED BY <1>1, <1>6, <2>1 DEF PipeInv, PipeTypeOK, endVars
<1>8. PositionsAgree'
  BY <1>1 DEF PipeInv, PositionsAgree
<1> QED BY <1>4, <1>6, <1>7, <1>8 DEF PipeInv

-----------------------------------------------------------------------------
(* Places in the buffer: what PositionsAgree says without the modulo.      *)
(* Positions that agree modulo the size of the buffer are equal or one size*)
(* apart.                                                                  *)
LEMMA ModAgree ==
  ASSUME NEW S \in Nat \ {0}, NEW a \in 0 .. S, NEW b \in 0 .. 2 * S - 1
  PROVE  a % S = b % S <=> a = b \/ a = b - S \/ a = b + S
<1>1. /\ a < S => a % S = a
      /\ a = S => a % S = 0
  <2>1. ASSUME a = S PROVE a % S = 0
    <3>1. 0 \in Nat /\ 0 < S /\ 0 + S = a
      BY <2>1
    <3> QED BY <3>1, ModOnce
  <2> QED BY <2>1, ModOnce
<1>2. /\ b < S => b % S = b
      /\ b >= S => b % S = b - S
  <2>1. ASSUME b >= S PROVE b % S = b - S
    <3>1. b - S \in Nat /\ b - S < S /\ (b - S) + S = b
      BY <2>1
    <3> QED BY <3>1, ModOnce
  <2> QED BY <2>1, ModOnce
<1>3. CASE b >= S
  <2>1. b % S = b - S
    BY <1>2, <1>3
  <2>2. CASE a < S
    BY <1>1, <1>3, <2>1, <2>2
  <2>3. CASE a = S
    BY <1>1, <1>3, <2>1, <2>3
  <2> QED BY <2>2, <2>3
<1>4. CASE b < S
  <2>1. b % S = b
    BY <1>2, <1>4
  <2>2. CASE a < S
    BY <1>1, <1>4, <2>1, <2>2
  <2>3. CASE a = S
    BY <1>1, <1>4, <2>1, <2>3
  <2> QED BY <2>2, <2>3
<1> QED BY <1>3, <1>4

(* The number of bytes transferred at once.                                *)
LEMMA MinOfTwo ==
  ASSUME NEW a \in Nat, NEW b \in Nat
  PROVE  Min({a, b}) \in Nat /\ Min({a, b}) <= a /\ Min({a, b}) <= b
BY MinOfNats

(* The part of PipeTypeOK about the buffer.                                *)
BufferFacts ==
  /\ PIPE_BUFFER_SIZE \in Nat \ {0}
  /\ cur_buf_cap \in 0 .. PIPE_BUFFER_SIZE
  /\ pos_read \in 0 .. PIPE_BUFFER_SIZE - 1
  /\ pos_written \in 0 .. PIPE_BUFFER_SIZE

(* A write of what there is room for, a read of what there is.             *)
LEMMA WriteAgrees ==
  ASSUME BufferFacts, PositionsAgree, NEW n \in Nat, n <= PIPE_BUFFER_SIZE - cur_buf_cap,
         pos_written' = WriteTo(n), cur_buf_cap' = cur_buf_cap + n, pos_read' = pos_read
  PROVE  BufferFacts' /\ PositionsAgree'
<1> DEFINE S == PIPE_BUFFER_SIZE
           b == pos_read + cur_buf_cap
           c == pos_read + cur_buf_cap'
<1>1. BufferFacts'
  BY DEF BufferFacts, WriteTo
<1>2. b \in 0 .. 2 * S - 1 /\ c \in 0 .. 2 * S - 1 /\ c = b + n
  BY <1>1 DEF BufferFacts
<1>3. pos_written = b \/ pos_written = b - S \/ pos_written = b + S
  <2>1. pos_written % S = b % S
    BY DEF PositionsAgree
  <2> HIDE DEF b
  <2> QED BY <1>2, <2>1, ModAgree DEF BufferFacts
<1>4. pos_written' = c \/ pos_written' = c - S \/ pos_written' = c + S
  <2> HIDE DEF b, c
  <2> QED BY <1>2, <1>3 DEF WriteTo, BufferFacts
<1>5. pos_written' % S = c % S
  <2> HIDE DEF c
  <2> QED BY <1>1, <1>2, <1>4, ModAgree DEF BufferFacts
<1> QED BY <1>1, <1>5 DEF PositionsAgree

LEMMA ReadAgrees ==
  ASSUME BufferFacts, PositionsAgree, NEW n \in Nat, n <= cur_buf_cap,
         pos_read' = ReadTo(n), cur_buf_cap' = cur_buf_cap - n, pos_written' = pos_written
  PROVE  BufferFacts' /\ PositionsAgree'
<1> DEFINE S == PIPE_BUFFER_SIZE
           b == pos_read + cur_buf_cap
           c == pos_read' + cur_buf_cap'
<1>1. BufferFacts'
  BY DEF BufferFacts, ReadTo
<1>2. b \in 0 .. 2 * S - 1 /\ c \in 0 .. 2 * S - 1 /\ (c = b \/ c = b - S)
  BY <1>1 DEF BufferFacts, ReadTo
<1>3. pos_written = b \/ pos_written = b - S \/ pos_written = b + S
  <2>1. pos_written % S = b % S
    BY DEF PositionsAgree
  <2> HIDE DEF b
  <2> QED BY <1>2, <2>1, ModAgree DEF BufferFacts
<1>4. pos_written' = c \/ pos_written' = c - S \/ pos_written' = c + S
  <2> HIDE DEF b, c
  <2> QED BY <1>2, <1>3 DEF BufferFacts
<1>5. pos_written' % S = c % S
  <2> HIDE DEF c
  <2> QED BY <1>1, <1>2, <1>4, ModAgree DEF BufferFacts
<1> QED BY <1>1, <1>5 DEF PositionsAgree

-----------------------------------------------------------------------------
(* Who goes on in one of the loops.                                        *)
LEMMA InsideFacts ==
  ASSUME PipeInv, NEW e \in Ends, NEW place \in Places \ {"out"}, Inside(e, place)
  PROVE  /\ Running /\ current \in Procs /\ Alive(current) /\ current # Idle
         /\ pipe = "open" /\ at[current] = place
         /\ using[current] \in fds[current] /\ PipeCalls[current] # {}
<1>1. Running /\ current \in Procs /\ at[current] = place /\ at[current] # "out"
  BY OnTheHart DEF PipeInv, SemInv, Inside
<1>2. Alive(current) /\ using[current] \in fds[current] /\ PipeCalls[current] # {}
  BY <1>1 DEF PipeInv, InsideFit
<1>3. using[current] \in Ends
  BY <1>1 DEF PipeInv, PipeTypeOK
<1> QED BY <1>1, <1>2, <1>3, OwnedOpen, PipeAssumption

(* Out of the loop: whoever held the semaphore without a signal keeps it   *)
(* from everyone, but nobody holds it twice.                               *)
LEMMA LeaveKeeps ==
  ASSUME PipeInv, Running, LeavePipe
  PROVE  PipeInv'
<1>1. /\ at' = [at EXCEPT ![current] = "out"]
      /\ UNCHANGED vars /\ UNCHANGED semVars
      /\ UNCHANGED <<cur_buf_cap, pos_read, pos_written, using, left>> /\ UNCHANGED endVars
  BY DEF LeavePipe, allVars, bufVars
<1>2. SemInv'
  BY <1>1, OtherStepsKeep DEF PipeInv
<1>3. state' = state
  BY <1>1 DEF vars, schedVars
<1>4. at \in [Procs -> Places] /\ at' \in [Procs -> Places]
  BY <1>1 DEF PipeInv, PipeTypeOK, Places
<1>5. PipeTypeOK' /\ EndsFit' /\ PositionsAgree' /\ SemFit'
  BY <1>1, <1>4 DEF PipeInv, PipeTypeOK, EndsFit, PositionsAgree, SemFit, endVars, semVars
<1>6. \A p \in Procs : at'[p] = IF p = current THEN "out" ELSE at[p]
  BY <1>1, <1>4
<1>7. InsideFit'
  BY <1>1, <1>3, <1>6 DEF PipeInv, InsideFit, Alive, endVars
<1>8. Mutex'
  <2>1. \A p \in Procs : Holding(p)' => Holding(p)
    BY <1>3, <1>6 DEF Holding
  <2> QED BY <1>1, <2>1 DEF PipeInv, Mutex, endVars, semVars
<1>9. BlockedFit'
  <2>1. state[current] = "ACTIF"
    BY OnTheHart DEF PipeInv, SemInv
  <2> QED BY <1>3, <1>6, <2>1 DEF PipeInv, BlockedFit
<1> QED BY <1>2, <1>5, <1>7, <1>8, <1>9 DEF PipeInv

(* What a turn of the loop keeps, whatever it does to the buffer.          *)
LEMMA GoOnKeeps ==
  ASSUME PipeInv, NEW e \in Ends, AtTop(e), SignalAndGoOn
  PROVE  /\ SemInv' /\ EndsFit' /\ InsideFit' /\ BlockedFit' /\ SemFit' /\ Mutex'
         /\ at' \in [Procs -> Places] /\ UNCHANGED endVars /\ using' = using
<1>1. /\ SignalOn(pipe_sem, 1) /\ at' = [at EXCEPT ![current] = "signalled"]
      /\ UNCHANGED endVars /\ using' = using
  BY DEF SignalAndGoOn
<1>2. /\ Running /\ current \in Procs /\ Alive(current) /\ pipe = "open"
      /\ at[current] \in {"entered", "waited"}
      /\ using[current] \in fds[current] /\ PipeCalls[current] # {}
  <2>1. "entered" \in Places \ {"out"} /\ "waited" \in Places \ {"out"}
    BY DEF Places
  <2> QED BY <2>1, InsideFacts DEF AtTop
<1>3. SemInv' /\ BlockedFit' /\ SemFit' /\ Mutex' /\ \A x \in Procs : Alive(x) => Alive(x)'
  <2>1. UNCHANGED <<pipe, pipe_sem>>
    BY <1>1 DEF endVars
  <2> QED BY <1>1, <1>2, <2>1, SignalKeepsPipe
<1>4. EndsFit' /\ InsideFit' /\ at' \in [Procs -> Places]
  <2>1. "signalled" \in Places /\ using'[current] \in fds[current]
        /\ \A x \in Procs : x # current => using'[x] = using[x]
    BY <1>1, <1>2 DEF Places
  <2> QED BY <1>1, <1>2, <1>3, <2>1, InsideKept
<1> QED BY <1>1, <1>3, <1>4

(* The process at the top of its loop.                                     *)
LEMMA AtTopFacts ==
  ASSUME PipeInv, NEW e \in Ends, AtTop(e)
  PROVE  Running /\ current \in Procs /\ left[current] \in Nat
<1>1. Running
  BY DEF AtTop, Inside
<1>2. current \in Procs
  BY <1>1, OnTheHart DEF PipeInv, SemInv
<1> QED BY <1>1, <1>2 DEF PipeInv, PipeTypeOK

(* A transfer of n bytes, whatever becomes of the buffer.                  *)
LEMMA TransferKeeps ==
  ASSUME PipeInv, NEW e \in Ends, AtTop(e), SignalAndGoOn,
         left' = left \/ \E n \in Nat : n <= left[current] /\ Transferred(n),
         BufferFacts', PositionsAgree'
  PROVE  PipeInv'
<1>1. /\ SemInv' /\ EndsFit' /\ InsideFit' /\ BlockedFit' /\ SemFit' /\ Mutex'
      /\ at' \in [Procs -> Places] /\ UNCHANGED endVars /\ using' = using
  BY GoOnKeeps
<1>2. left' \in [Procs -> {0} \cup Nat]
  <2>1. left \in [Procs -> {0} \cup Nat] /\ current \in Procs /\ left[current] \in Nat
    BY AtTopFacts DEF PipeInv, PipeTypeOK
  <2>2. ASSUME NEW n \in Nat, n <= left[current], Transferred(n)
        PROVE  left' \in [Procs -> {0} \cup Nat]
    <3>1. left' = [left EXCEPT ![current] = left[current] - n]
      BY <2>2 DEF Transferred
    <3>2. left[current] - n \in Nat
      BY <2>1, <2>2
    <3> HIDE DEF PipeInv
    <3> QED BY <2>1, <3>1, <3>2
  <2> QED BY <2>1, <2>2
<1>3. PipeTypeOK'
  BY <1>1, <1>2 DEF PipeInv, PipeTypeOK, BufferFacts, endVars
<1> QED BY <1>1, <1>3 DEF PipeInv

(* The top of the loops of write_pipe and read_pipe.                       *)
LEMMA TopKeeps ==
  ASSUME PipeInv, WriteTop \/ ReadTop
  PROVE  PipeInv'
<1>1. BufferFacts /\ PositionsAgree
  BY PipeAssumption DEF PipeInv, PipeTypeOK, BufferFacts
<1>2. "read" \in Ends /\ "write" \in Ends
  BY DEF Ends
<1>3. ASSUME NEW e \in Ends, AtTop(e), GiveWay PROVE PipeInv'
  <2>1. SignalAndGoOn /\ UNCHANGED <<cur_buf_cap, pos_read, pos_written, left>>
    BY <1>3 DEF GiveWay, bufVars
  <2>2. BufferFacts' /\ PositionsAgree'
    BY <1>1, <2>1 DEF BufferFacts, PositionsAgree
  <2> QED BY <1>3, <2>1, <2>2, TransferKeeps
<1>4. ASSUME NEW e \in Ends, AtTop(e), LeavePipe PROVE PipeInv'
  BY <1>4, AtTopFacts, LeaveKeeps
<1>5. CASE WriteTop
  <2>1. AtTop("write") /\ left[current] \in Nat
    BY <1>2, <1>5, AtTopFacts DEF WriteTop
  <2> DEFINE n == Min({PIPE_BUFFER_SIZE - cur_buf_cap, left[current]})
  <2>2. \/ LeavePipe
        \/ GiveWay
        \/ /\ pos_written' = WriteTo(n) /\ cur_buf_cap' = cur_buf_cap + n
           /\ Transferred(n) /\ SignalAndGoOn /\ pos_read' = pos_read
    BY <1>5 DEF WriteTop
  <2>3. n \in Nat /\ n <= PIPE_BUFFER_SIZE - cur_buf_cap /\ n <= left[current]
    <3>1. PIPE_BUFFER_SIZE - cur_buf_cap \in Nat
      BY <1>1 DEF BufferFacts
    <3> QED BY <2>1, <3>1, MinOfTwo
  <2> HIDE DEF n
  <2>4. ASSUME /\ pos_written' = WriteTo(n) /\ cur_buf_cap' = cur_buf_cap + n
               /\ Transferred(n) /\ SignalAndGoOn /\ pos_read' = pos_read
        PROVE  PipeInv'
    <3>1. BufferFacts' /\ PositionsAgree'
      BY <1>1, <2>3, <2>4, WriteAgrees
    <3> QED BY <1>2, <2>1, <2>3, <2>4, <3>1, TransferKeeps
  <2> QED BY <1>2, <1>3, <1>4, <2>1, <2>2, <2>4
<1>6. CASE ReadTop
  <2>1. AtTop("read") /\ left[current] \in Nat
    BY <1>2, <1>6, AtTopFacts DEF ReadTop
  <2> DEFINE n == Min({cur_buf_cap, left[current]})
  <2>2. \/ LeavePipe
        \/ GiveWay
        \/ /\ pos_read' = ReadTo(n) /\ cur_buf_cap' = cur_buf_cap - n
           /\ Transferred(n) /\ SignalAndGoOn /\ pos_written' = pos_written
    BY <1>6 DEF ReadTop
  <2>3. n \in Nat /\ n <= cur_buf_cap /\ n <= left[current]
    <3>1. cur_buf_cap \in Nat
      BY <1>1 DEF BufferFacts
    <3> QED BY <2>1, <3>1, MinOfTwo
  <2> HIDE DEF n
  <2>4. ASSUME /\ pos_read' = ReadTo(n) /\ cur_buf_cap' = cur_buf_cap - n
               /\ Transferred(n) /\ SignalAndGoOn /\ pos_written' = pos_written
        PROVE  PipeInv'
    <3>1. BufferFacts' /\ PositionsAgree'
      BY <1>1, <2>3, <2>4, ReadAgrees
    <3> QED BY <1>2, <2>1, <2>3, <2>4, <3>1, TransferKeeps
  <2> QED BY <1>2, <1>3, <1>4, <2>1, <2>2, <2>4
<1> QED BY <1>5, <1>6

(* The end of the loop: another wait, or out with nothing held.            *)
LEMMA LoopEndKeeps ==
  ASSUME PipeInv, NEW e \in Ends, NEW stuck, LoopEnd(e, stuck)
  PROVE  PipeInv'
<1>1. /\ Running /\ current \in Procs /\ Alive(current) /\ current # Idle
      /\ pipe = "open" /\ at[current] = "signalled"
      /\ using[current] \in fds[current] /\ PipeCalls[current] # {}
  <2>1. "signalled" \in Places \ {"out"} /\ Inside(e, "signalled")
    BY DEF Places, LoopEnd
  <2> QED BY <2>1, InsideFacts
<1>2. CASE WaitsAgain(stuck)
  <2>1. /\ WaitOn(pipe_sem) /\ at' = [at EXCEPT ![current] = "waited"]
        /\ UNCHANGED <<cur_buf_cap, pos_read, pos_written, using, left>> /\ UNCHANGED endVars
    BY <1>2 DEF LoopEnd, bufVars
  <2>2. SemInv' /\ BlockedFit' /\ SemFit' /\ Mutex' /\ \A x \in Procs : Alive(x) => Alive(x)'
    <3>1. UNCHANGED <<pipe, pipe_sem>> /\ "waited" \in {"entered", "waited"}
      BY <2>1 DEF endVars
    <3> QED BY <1>1, <2>1, <3>1, WaitKeepsPipe
  <2>3. EndsFit' /\ InsideFit' /\ at' \in [Procs -> Places]
    <3>1. "waited" \in Places /\ using'[current] \in fds[current]
          /\ \A x \in Procs : x # current => using'[x] = using[x]
      BY <1>1, <2>1 DEF Places
    <3> QED BY <1>1, <2>1, <2>2, <3>1, InsideKept
  <2>4. PipeTypeOK' /\ PositionsAgree'
    BY <2>1, <2>3 DEF PipeInv, PipeTypeOK, PositionsAgree, endVars
  <2> QED BY <2>2, <2>3, <2>4 DEF PipeInv
<1>3. CASE ~ WaitsAgain(stuck)
  <2>1. left[current] = 0
    BY <1>3 DEF WaitsAgain
  <2>2. LeavePipe
    BY <1>3, <2>1 DEF LoopEnd, LeavePipe
  <2> QED BY <1>1, <2>2, LeaveKeeps
<1> QED BY <1>2, <1>3

-----------------------------------------------------------------------------
(* At boot there is no pipe and no semaphore.                              *)
LEMMA PipeInitInv == PipeInit => PipeInv
<1> SUFFICES ASSUME PipeInit PROVE PipeInv
  OBVIOUS
<1>1. SemInv /\ freed = {} /\ \A p \in Procs : state[p] # "BLOCKEDSEMAPHORE"
  BY SemInitInv DEF PipeInit, SemInit, ProcInit, SchedInit
<1>2. PipeTypeOK
  <2>1. (CHOOSE s \in Sems : TRUE) \in Sems
    BY SemaphoreAssumption
  <2>2. PIPE_BUFFER_SIZE \in Nat \ {0}
    BY PipeAssumption
  <2>3. 0 \in 0 .. PIPE_BUFFER_SIZE /\ 0 \in 0 .. PIPE_BUFFER_SIZE - 1
    BY <2>2
  <2> QED BY <2>1, <2>3 DEF PipeInit, PipeTypeOK, Places, Ends
<1>3. pipe = "none" /\ \A e \in Ends : ~ can[e] /\ usage_counter[e] = 0
  BY DEF PipeInit
<1>4. EndsFit
  <2>1. ASSUME NEW e \in Ends PROVE Cardinality(OwnersOf(fds, e)) <= usage_counter[e]
    <3>1. OwnersOf(fds, e) = {}
      BY DEF PipeInit, OwnersOf
    <3>2. Cardinality(OwnersOf(fds, e)) = 0
      BY <3>1, FS_EmptySet
    <3> QED BY <1>3, <3>2
  <2> QED BY <1>3, <2>1 DEF EndsFit
<1>5. InsideFit /\ BlockedFit /\ SemFit /\ Mutex
  BY <1>1, <1>3 DEF PipeInit, InsideFit, BlockedFit, SemFit, Mutex
<1>6. PositionsAgree
  BY DEF PipeInit, PositionsAgree
<1> QED BY <1>1, <1>2, <1>4, <1>5, <1>6 DEF PipeInv

(* Every step keeps the invariant.                                         *)
LEMMA PipeNextKeeps ==
  ASSUME PipeAlone, PipeInv, [PipeNext]_pipeVars
  PROVE  PipeInv'
<1>1. CASE SemNext /\ Inherit /\ UNCHANGED <<bufVars, pipe, pipe_sem, can, using, left>>
  BY <1>1, OutsideKeeps
<1>2. CASE \E s \in Sems : SysPipe(s)
  BY <1>2, SysPipeKeeps
<1>3. CASE \E e \in Ends : Close(e)
  BY <1>3, CloseKeeps
<1>4. CASE \E e \in Ends, n \in Lengths : EnterPipe(e, n)
  BY <1>4, EnterPipeKeeps
<1>5. CASE PipeStep
  <2>1. "read" \in Ends /\ "write" \in Ends
    BY DEF Ends
  <2> QED BY <1>5, <2>1, TopKeeps, LoopEndKeeps DEF PipeStep
<1>6. CASE UNCHANGED pipeVars
  <2>1. /\ UNCHANGED vars /\ UNCHANGED semVars
        /\ UNCHANGED <<cur_buf_cap, pos_read, pos_written, at, using, left>>
        /\ UNCHANGED <<pipe, pipe_sem, can, usage_counter, fds>>
    BY <1>6 DEF pipeVars, allVars, bufVars, endVars, placeVars
  <2>2. SemInv'
    BY <2>1, OtherStepsKeep DEF PipeInv
  <2>3. UNCHANGED <<state, live, freed, count>>
    BY <2>1 DEF vars, schedVars, semVars
  <2>4. PipeTypeOK' /\ EndsFit' /\ PositionsAgree' /\ SemFit'
    BY <2>1, <2>3 DEF PipeInv, PipeTypeOK, EndsFit, PositionsAgree, SemFit
  <2>5. InsideFit' /\ BlockedFit' /\ Mutex'
    BY <2>1, <2>3 DEF PipeInv, InsideFit, BlockedFit, Mutex, Holding, Alive
  <2> QED BY <2>2, <2>4, <2>5 DEF PipeInv
<1> QED BY <1>1, <1>2, <1>3, <1>4, <1>5, <1>6 DEF PipeNext

(* The inductive invariant of the pipe: ends are usable while they are     *)
(* counted, one process at most is between a wait and a signal, and the    *)
(* positions agree, whatever sys_pipe, fork, close, read_pipe, write_pipe  *)
(* and the scheduler do.                                                   *)
THEOREM PipeInvariant ==
  ASSUME PipeAlone
  PROVE  PipeSpec => []PipeInv
<1>1. PipeInit => PipeInv
  BY PipeInitInv
<1>2. PipeInv /\ [PipeNext]_pipeVars => PipeInv'
  BY PipeNextKeeps
<1> QED BY <1>1, <1>2, PTL DEF PipeSpec

(* The buffer is read where it was written, for any size of the buffer and *)
(* any lengths of the reads and writes.                                    *)
THEOREM PositionsAgreeHolds ==
  ASSUME PipeAlone
  PROVE  PipeSpec => []PositionsAgree
<1>1. PipeInv => PositionsAgree
  BY DEF PipeInv
<1> QED BY <1>1, PipeInvariant, PTL

(* No process releases the semaphore of a pipe without holding it.         *)
THEOREM ReleasedOnceHolds ==
  ASSUME PipeAlone
  PROVE  PipeSpec => []ReleasedOnce
<1>1. PipeInv => ReleasedOnce
  BY DEF PipeInv, Mutex, ReleasedOnce
<1> QED BY <1>1, PipeInvariant, PTL

(* No process is in read_pipe or write_pipe when the pipe is freed.        *)
THEOREM NobodyInFreedHolds ==
  ASSUME PipeAlone
  PROVE  PipeSpec => []NobodyInFreed
<1>1. PipeInv => NobodyInFreed
  BY NobodyInside DEF NobodyInFreed
<1> QED BY <1>1, PipeInvariant, PTL
=============================================================================
