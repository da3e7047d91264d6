-------------------------------- MODULE Pipe ---------------------------------
(***************************************************************************)
(* A pipe (fs/pipe.c), from sys_pipe through the file descriptors that     *)
(* fork copies (process/fs_bridge.c) to its last close.                    *)
(*                                                                         *)
(* read and write are loops in the kernel that give up the hart in every   *)
(* wait and signal on the pipe's semaphore: at tells the place of the loop *)
(* at which a process goes on when it is dispatched.  The bytes are left   *)
(* out: what is kept of the buffer is how many there are and where.        *)
(*                                                                         *)
(* Bound: one pipe is created, and a process has one descriptor per end.   *)
(***************************************************************************)
EXTENDS Semaphore

CONSTANTS
  PIPE_BUFFER_SIZE,
  Lengths,          (* the lengths programs read and write                 *)
  PipeCalls         (* the pipe calls of the program in each process       *)

ASSUME PipeAssumption ==
  /\ PIPE_BUFFER_SIZE \in Nat \ {0}
  /\ Lengths \subseteq Nat \ {0}
  /\ PipeCalls \in [Procs -> SUBSET {"pipe", "read", "write", "close"}]
  /\ PipeCalls[Idle] = {}
  /\ 1 <= MAX_COUNT     \* sys_pipe creates its semaphore with the count 1

VARIABLES
  pipe,             (* "none", "open" or "freed"                           *)
  pipe_sem,         (* pipe.semaphore_id                                   *)
  can,              (* can_read and can_write of the pipe, for its ends    *)
  usage_counter,    (* of the open file of each end                        *)
  fds,              (* the ends each process has a descriptor of           *)
  cur_buf_cap, pos_read, pos_written,
  at,               (* where in read_pipe or write_pipe a process is       *)
  using,            (* the end it is using there                           *)
  left              (* and the length that remains to be transferred       *)

bufVars   == <<cur_buf_cap, pos_read, pos_written>>
endVars   == <<pipe, pipe_sem, can, usage_counter, fds>>
placeVars == <<at, using, left>>
pipeVars  == <<allVars, bufVars, endVars, placeVars>>

Ends == {"read", "write"}

(* The first wait, a signal, or a later wait is about to return.           *)
Places == {"out", "entered", "signalled", "waited"}

PipeTypeOK ==
  /\ pipe \in {"none", "open", "freed"}
  /\ pipe_sem \in Sems
  /\ can \in [Ends -> BOOLEAN]
  /\ usage_counter \in [Ends -> Nat]
  /\ fds \in [Procs -> SUBSET Ends]
  /\ cur_buf_cap \in 0 .. PIPE_BUFFER_SIZE
  /\ pos_read \in 0 .. PIPE_BUFFER_SIZE - 1
  /\ pos_written \in 0 .. PIPE_BUFFER_SIZE
  /\ at \in [Procs -> Places]
  /\ using \in [Procs -> Ends]
  /\ left \in [Procs -> {0} \cup Nat]

PipeInit ==
  /\ SemInit
  /\ pipe = "none"
  /\ pipe_sem = CHOOSE s \in Sems : TRUE
  /\ can = [e \in Ends |-> FALSE]
  /\ usage_counter = [e \in Ends |-> 0]
  /\ fds = [p \in Procs |-> {}]
  /\ cur_buf_cap = 0 /\ pos_read = 0 /\ pos_written = 0
  /\ at = [p \in Procs |-> "out"]
  /\ using = [p \in Procs |-> "read"]
  /\ left = [p \in Procs |-> 0]

(* The current process is in user mode, and not inside the pipe.           *)
OutOfPipe == current # NoProc => at[current] = "out"

PipeCalling(name) ==
  Running /\ InUser /\ OutOfPipe /\ name \in PipeCalls[current]

-----------------------------------------------------------------------------
SysPipe(s) ==
  /\ PipeCalling("pipe")
  /\ pipe = "none"
  /\ CreateSem(s, 1)
  /\ pipe' = "open"
  /\ pipe_sem' = s
  /\ can' = [e \in Ends |-> TRUE]
  /\ usage_counter' = [e \in Ends |-> 1]
  /\ fds' = [fds EXCEPT ![current] = Ends]
  /\ UNCHANGED <<bufVars, placeVars>>

(* close: the last descriptor of an end closes the end, and the second end *)
(* to be closed deletes the semaphore and frees the pipe.                  *)
Close(e) ==
  /\ PipeCalling("close")
  /\ e \in fds[current]
  /\ fds' = [fds EXCEPT ![current] = @ \ {e}]
  /\ usage_counter' = [usage_counter EXCEPT ![e] = @ - 1]
  /\ can' = [can EXCEPT ![e] = usage_counter[e] # 1]
  /\ IF \E end \in Ends : can'[end]
     THEN UNCHANGED <<allVars, pipe>>
     ELSE DeleteSem(pipe_sem) /\ pipe' = "freed"
  /\ UNCHANGED <<pipe_sem, bufVars, placeVars>>

(* Two errors: the counter is not incremented; the place of the next byte  *)
(* starts again at 0 when a write wraps around.                            *)
NoCount(born) == usage_counter
WriteFromStart(n) == IF pos_written + n > PIPE_BUFFER_SIZE THEN 0 ELSE pos_written + n

(* copy_proc_fds: fork gives the new process the descriptors of the caller;*)
(* a process that is started has none.  A process that leaves closes none: *)
(* free_fs_proc returns before close_all_files.                            *)
CountedFor(born) ==
  [e \in Ends |-> usage_counter[e]
                    + Cardinality({p \in born : e \in fds[current]})]

Inherit ==
  LET born == {p \in Procs : state[p] = "UNUSED" /\ state'[p] # "UNUSED"}
      heirs == IF nb_proc_running' = nb_proc_running THEN born ELSE {}
  IN /\ usage_counter' = CountedFor(heirs)
     /\ fds' = [p \in Procs |-> CASE p \in heirs -> fds[current]
                                  [] p \in born \ heirs -> {}
                                  [] OTHER -> fds[p]]
     /\ at' = [p \in Procs |-> IF Alive(p)' THEN at[p] ELSE "out"]

-----------------------------------------------------------------------------
(* read_pipe and write_pipe up to the end of their first wait.             *)
EnterPipe(e, n) ==
  /\ PipeCalling(e)
  /\ e \in fds[current] /\ can[e]
  /\ WaitOn(pipe_sem)
  /\ at' = [at EXCEPT ![current] = "entered"]
  /\ using' = [using EXCEPT ![current] = e]
  /\ left' = [left EXCEPT ![current] = n]
  /\ UNCHANGED <<bufVars, endVars>>

Inside(e, place) ==
  Running /\ at[current] = place /\ using[current] = e

LeavePipe ==
  /\ at' = [at EXCEPT ![current] = "out"]
  /\ UNCHANGED <<allVars, bufVars, endVars, using, left>>

SignalAndGoOn ==
  /\ SignalOn(pipe_sem, 1)
  /\ at' = [at EXCEPT ![current] = "signalled"]
  /\ UNCHANGED <<endVars, using>>

(* Nothing can be transferred: let the others have a turn.                 *)
GiveWay == SignalAndGoOn /\ UNCHANGED <<bufVars, left>>

(* The place of the next byte after n more are written, or read: a write   *)
(* that ends with the buffer stays there, a read goes back to 0.           *)
WriteTo(n) ==
  IF pos_written + n > PIPE_BUFFER_SIZE THEN pos_written + n - PIPE_BUFFER_SIZE
  ELSE pos_written + n

ReadTo(n) ==
  IF pos_read + n >= PIPE_BUFFER_SIZE THEN pos_read + n - PIPE_BUFFER_SIZE
  ELSE pos_read + n

Transferred(n) == left' = [left EXCEPT ![current] = @ - n]

(* The top of the loop of write_pipe, after a wait.                        *)
AtTop(e) == Inside(e, "entered") \/ Inside(e, "waited")

WriteTop ==
  /\ AtTop("write")
  /\ IF left[current] = 0 \/ ~ can["read"] THEN LeavePipe
     ELSE IF cur_buf_cap = PIPE_BUFFER_SIZE THEN GiveWay
     ELSE LET n == Min({PIPE_BUFFER_SIZE - cur_buf_cap, left[current]}) IN
          /\ pos_written' = WriteTo(n)
          /\ cur_buf_cap' = cur_buf_cap + n
          /\ Transferred(n)
          /\ SignalAndGoOn
          /\ UNCHANGED pos_read

ReadTop ==
  /\ AtTop("read")
  /\ IF left[current] = 0 \/ (cur_buf_cap = 0 /\ ~ can["write"]) THEN LeavePipe
     ELSE IF cur_buf_cap = 0 THEN GiveWay
     ELSE LET n == Min({cur_buf_cap, left[current]}) IN
          /\ pos_read' = ReadTo(n)
          /\ cur_buf_cap' = cur_buf_cap - n
          /\ Transferred(n)
          /\ SignalAndGoOn
          /\ UNCHANGED pos_written

(* An error: the loop goes on without the wait.                            *)
NeverWaits(stuck) == FALSE

(* The end of the loop, after a signal: wait again unless all is done, or  *)
(* when the buffer has become full, or empty, even if all is done.         *)
WaitsAgain(stuck) == left[current] # 0 \/ stuck

LoopEnd(e, stuck) ==
  /\ Inside(e, "signalled")
  /\ IF WaitsAgain(stuck)
     THEN /\ WaitOn(pipe_sem)
          /\ UNCHANGED <<bufVars, endVars, using, left>>
     ELSE UNCHANGED <<allVars, bufVars, endVars, using, left>>
  /\ at' = [at EXCEPT ![current] =
               IF WaitsAgain(stuck) \/ left[current] # 0 THEN "waited" ELSE "out"]

PipeStep ==
  \/ WriteTop
  \/ ReadTop
  \/ LoopEnd("write", cur_buf_cap = PIPE_BUFFER_SIZE)
  \/ LoopEnd("read", cur_buf_cap = 0)

PipeNext ==
  \/ /\ OutOfPipe \/ phase # "user"
     /\ SemNext
     /\ Inherit
     /\ UNCHANGED <<bufVars, pipe, pipe_sem, can, using, left>>
  \/ \E s \in Sems : SysPipe(s)
  \/ \E e \in Ends : Close(e)
  \/ \E e \in Ends, n \in Lengths : EnterPipe(e, n)
  \/ PipeStep

PipeSpec == PipeInit /\ [][PipeNext]_pipeVars

-----------------------------------------------------------------------------
(* Properties.                                                             *)

(* The next byte to write is where the unread ones end: reads and writes   *)
(* that meet the end of the buffer do not overwrite or reread bytes.       *)
PositionsAgree ==
  pos_written % PIPE_BUFFER_SIZE = (pos_read + cur_buf_cap) % PIPE_BUFFER_SIZE

(* The semaphore is never released by a process that does not hold it, in  *)
(* whatever order the loops wait, signal and leave.                        *)
ReleasedOnce == PipeTypeOK /\ (pipe = "open" => count[pipe_sem] <= 1)

(* The pipe is freed when nobody is inside read_pipe or write_pipe: the    *)
(* loops look at the pipe after every wait.                                *)
NobodyInFreed == pipe = "freed" => \A p \in Procs : at[p] = "out"
=============================================================================
