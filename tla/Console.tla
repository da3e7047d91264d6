------------------------------- MODULE Console -------------------------------
(***************************************************************************)
(* The console: the ring of typed characters (drivers/console.c), the      *)
(* keyboard interrupt that edits it (input-output/keyboard.c), and the     *)
(* reads that take lines from it, cons_read (input-output/cons_read.c) and *)
(* the read of the terminal device (fs/chdev.c).                           *)
(*                                                                         *)
(* A read is a loop in the kernel that blocks on blocked_io; every key     *)
(* wakes one of the processes blocked there, and it looks at the ring      *)
(* again when it is dispatched.  What is shown on the screen is left out.  *)
(*                                                                         *)
(* Characters are the kinds of character the code tells apart; "NUL" is    *)
(* what the ring holds where nothing was written, or all has been read.    *)
(***************************************************************************)
EXTENDS Process

CONSTANTS
  BUFFER_SIZE,
  TabStop,          (* 8 in the code                                       *)
  Keys,             (* the keys pressed                                    *)
  ReadLengths,      (* the lengths programs ask for                        *)
  ConsCalls         (* the console calls of the program in each process    *)

AllKeys == {"letter", "space", "LF", "CR", "other", "HT", "BS", "DL", "DW"}

Modes == {"CONSOLE_INPUT", "RAW_INPUT"}

ASSUME ConsoleAssumption ==
  /\ BUFFER_SIZE \in Nat \ {0} /\ TabStop \in Nat \ {0}
  /\ Keys \subseteq AllKeys
  /\ ReadLengths \subseteq Nat \ {0}
  /\ ConsCalls \in [Procs -> SUBSET {"cons_read", "dev_read", "raw", "cooked", "echo", "noecho"}]
  /\ ConsCalls[Idle] = {}

VARIABLES
  buffer,           (* console_dev->buffer                                 *)
  start,            (* start_of_buffer_index                               *)
  last,             (* last_written_char_index, -1 when nothing is unread  *)
  echo,
  input_type,       (* of every process                                    *)
  processing_type,  (* the mode of the last process a key has woken        *)
  want,             (* the length a process inside a read asked for, or 0  *)
  device,           (* and whether it reads the terminal device            *)
  dest,             (* what the read that has just returned was given      *)
  below             (* history: whether a key has deleted below start      *)

ringVars == <<buffer, start, last>>
modeVars == <<echo, input_type, processing_type>>
readVars == <<want, device>>
consVars == <<vars, ringVars, modeVars, readVars, dest, below>>

Characters == {"letter", "space", "LF", "CR", "other"}

Indices == 0 .. BUFFER_SIZE - 1

ConsTypeOK ==
  /\ buffer \in [Indices -> Characters \cup {"NUL"}]
  /\ start \in Indices
  /\ last \in {-1} \cup Indices
  /\ echo \in BOOLEAN
  /\ input_type \in [Procs -> Modes]
  /\ processing_type \in Modes
  /\ want \in [Procs -> {0} \cup ReadLengths]
  /\ device \in [Procs -> BOOLEAN]
  /\ dest \in Seq(Characters \cup {"NUL"})
  /\ below \in BOOLEAN

ConsInit ==
  /\ ProcInit
  /\ buffer = [i \in Indices |-> "NUL"]
  /\ start = 0 /\ last = -1
  /\ echo = TRUE
  /\ input_type = [p \in Procs |-> "CONSOLE_INPUT"]
  /\ processing_type = "CONSOLE_INPUT"
  /\ want = [p \in Procs |-> 0]
  /\ device = [p \in Procs |-> FALSE]
  /\ dest = <<>>
  /\ below = FALSE

-----------------------------------------------------------------------------
(* The ring.                                                               *)

is_buffer_empty == last = -1
is_buffer_full  == last # -1 /\ (last + 1) % BUFFER_SIZE = start

(* A full ring has size 0 too.                                             *)
buffer_current_size == (last - start + 1) % BUFFER_SIZE

(* The index i places after start, and the place of last.                  *)
Place(i) == (start + i) % BUFFER_SIZE
LastPlace == (last - start) % BUFFER_SIZE

(* kaddtobuffer n times: what does not fit is ignored.                     *)
Left ==
  IF last = -1 /\ start = 0 THEN BUFFER_SIZE ELSE (start - last - 1) % BUFFER_SIZE

(* The last index n characters later.                                      *)
LastAfter(n) == (last + n) % BUFFER_SIZE

Add(c, n) ==
  LET fits == Min({n, Left}) IN
  IF fits = 0 THEN UNCHANGED <<ringVars, below>>
  ELSE /\ buffer' = [i \in Indices |->
            IF \E j \in 1 .. fits : i = LastAfter(j) THEN c ELSE buffer[i]]
       /\ last' = LastAfter(fits)
       /\ UNCHANGED <<start, below>>

(* delete_last until new is the last character.  It does not look at start *)
(* and does not wrap; below records that it went past start, or left at    *)
(* start - 1 or at -1 a ring that does not look empty.                     *)
EraseTo(new) ==
  /\ buffer' = [i \in Indices |-> IF new < i /\ i <= last THEN "NUL" ELSE buffer[i]]
  /\ last' = new
  /\ below' = (\/ below
               \/ last - new > LastPlace + 1
               \/ last - new = LastPlace + 1 /\ start # 0
               \/ new = -1 /\ start # 0)
  /\ UNCHANGED start

(* What the keys look at before they delete: the byte before the last one, *)
(* which is the flag "ignore", a zero, for the first byte of the ring.     *)
Before(i) == IF i = 0 THEN "NUL" ELSE buffer[i - 1]

(* The largest index up to i, or -1, at which deleting stops for a test on *)
(* the byte before it.                                                     *)
StopAt(i, Test(_)) == Max({-1} \cup {j \in 0 .. i : Test(Before(j))})

NewLast(c) ==
  CASE c = "BS" -> IF last # -1 /\ Before(last) # "CR" THEN last - 1 ELSE last
    [] c = "DL" -> StopAt(last, LAMBDA b : b = "CR")
    [] c = "DW" -> StopAt(StopAt(last, LAMBDA b : b # "space"), LAMBDA b : b = "space")

-----------------------------------------------------------------------------
(* The key c in each mode.                                                 *)
Spaces == TabStop - (IF last = -1 THEN -1 ELSE last % TabStop)

Edit(c) ==
  CASE c \in {"letter", "space", "LF"} -> Add(c, 1)
    [] c = "CR" -> Add("LF", 1)
    [] c = "HT" -> Add("space", Spaces)
    [] c = "other" -> UNCHANGED <<ringVars, below>>
    [] c \in {"BS", "DL", "DW"} -> EraseTo(NewLast(c))

AddRaw(c) == Add(IF c \in Characters THEN c ELSE "other", 1)

(* "Deletes the current word" deletes nothing when the echo is off, and    *)
(* tries for ever.                                                         *)
Spins(c, mode) == c = "DW" /\ mode # "RAW_INPUT" /\ ~ echo /\ last # -1

(* The queues when the first reader is woken, and two errors: it stays in  *)
(* the queue of the blocked, or goes to that of the sleepers.              *)
WokenTwice(next) == Link(queue, "activatable", next, prio)
WokenAsleep(next) == Link(Pop(queue, "blocked_io"), "asleep", next, wake)
Woken(next) == Link(Pop(queue, "blocked_io"), "activatable", next, prio)

(* handle_keyboard_interrupt: the first process blocked is woken, and the  *)
(* key is treated as its mode says, or as that of the last one woken.      *)
Key(c) ==
  LET waiting == queue["blocked_io"] # <<>>
      next    == QueueTop(queue["blocked_io"])
      mode    == IF waiting THEN input_type[next] ELSE processing_type
  IN /\ Running /\ InUser /\ want[current] = 0
     /\ processing_type' = mode
     /\ dest' = <<>>
     /\ IF Spins(c, mode)
        THEN halt' = "spins" /\ UNCHANGED <<ringVars, below>>
        ELSE /\ UNCHANGED halt
             /\ IF mode = "RAW_INPUT" THEN AddRaw(c) ELSE Edit(c)
     /\ IF waiting
        THEN /\ state' = [state EXCEPT ![next] = "ACTIVATABLE"]
             /\ queue' = Woken(next)
             /\ CallScheduler
        ELSE UNCHANGED <<state, queue, phase>>
     /\ UNCHANGED <<prio, wake, blocked_head, current, clock, lifeVars>>
     /\ UNCHANGED <<echo, input_type, readVars>>

-----------------------------------------------------------------------------
(* The reads.  An error of detected_eol: the last character is not tested. *)
EolBeforeLast == ~ is_buffer_empty /\ \E i \in 0 .. LastPlace - 1 : buffer[Place(i)] = "LF"

detected_eol == ~ is_buffer_empty /\ \E i \in 0 .. LastPlace : buffer[Place(i)] = "LF"

MustWait(n, dev) ==
  (dev \/ ~ detected_eol) /\ ~ is_buffer_full /\ n > buffer_current_size

(* copy: its loop stops after k characters, at the end of a line, at the   *)
(* last character or when n are copied.                                    *)
Copied(n) ==
  Min({n, LastPlace} \cup {i \in 0 .. LastPlace : buffer[Place(i)] = "LF"})

Bytes(k) == [i \in 1 .. k |-> buffer[Place(i - 1)]]

Zeroed(k) == [i \in Indices |-> IF \E j \in 0 .. k - 1 : i = Place(j) THEN "NUL" ELSE buffer[i]]

(* The start of the ring after the end of a line, and an error that does   *)
(* not skip it.                                                            *)
SkipNothing(k) == Place(k)
SkipEol(k) == Place(k + 1)

Copy(n, copy_all) ==
  LET k     == Copied(n)
      atEol == buffer[Place(k)] = "LF"
  IN CASE k = n ->
            /\ dest' = Bytes(k) /\ buffer' = Zeroed(k)
            /\ start' = Place(k) /\ UNCHANGED last
       [] k # n /\ k = LastPlace /\ ~ atEol ->
            /\ dest' = Bytes(k + 1) /\ buffer' = Zeroed(k + 1)
            /\ start' = 0 /\ last' = -1
       [] k # n /\ k = LastPlace /\ atEol ->
            /\ dest' = IF copy_all THEN Bytes(k + 1) ELSE Bytes(k)
            /\ buffer' = Zeroed(k)
            /\ start' = 0 /\ last' = -1
       [] k # n /\ k # LastPlace ->
            /\ dest' = Bytes(k) /\ buffer' = Zeroed(k + 1)
            /\ start' = SkipEol(k) /\ UNCHANGED last

BlockOnIO(n, dev) ==
  /\ state' = [state EXCEPT ![current] = "BLOCKEDIO"]
  /\ queue' = Link(queue, "blocked_io", current, prio)
  /\ AssertThat(~ Linked(current))
  /\ CallScheduler
  /\ want' = [want EXCEPT ![current] = n]
  /\ device' = [device EXCEPT ![current] = dev]
  /\ dest' = <<>>
  /\ UNCHANGED ringVars

(* copy asserts that there is something in the ring.                       *)
Return(n, dev) ==
  /\ AssertThat(~ is_buffer_empty)
  /\ IF is_buffer_empty THEN UNCHANGED <<ringVars, dest>> ELSE Copy(n, dev)
  /\ want' = [want EXCEPT ![current] = 0]
  /\ device' = [device EXCEPT ![current] = FALSE]
  /\ UNCHANGED <<state, queue, phase>>

ReadOrBlock(n, dev) ==
  /\ IF MustWait(n, dev) THEN BlockOnIO(n, dev) ELSE Return(n, dev)
  /\ UNCHANGED <<prio, wake, blocked_head, current, clock, lifeVars, modeVars, below>>

ConsCalling(name) ==
  Running /\ InUser /\ want[current] = 0 /\ name \in ConsCalls[current]

ConsRead(n) == ConsCalling("cons_read") /\ ReadOrBlock(n, FALSE)

DevRead(n) == ConsCalling("dev_read") /\ ReadOrBlock(n, TRUE)

(* The scheduler has switched back to a process inside a read.             *)
ResumeRead ==
  /\ Running /\ want[current] # 0
  /\ ReadOrBlock(want[current], device[current])

-----------------------------------------------------------------------------
ConsEcho(on) ==
  /\ ConsCalling(IF on THEN "echo" ELSE "noecho")
  /\ echo' = on
  /\ dest' = <<>>
  /\ UNCHANGED <<vars, ringVars, input_type, processing_type, readVars, below>>

(* void_call and set_input_mode.                                           *)
SetInputMode(p, mode) ==
  /\ ConsCalling(IF mode = "RAW_INPUT" THEN "raw" ELSE "cooked")
  /\ Alive(p)
  /\ input_type' = [input_type EXCEPT ![p] = mode]
  /\ dest' = <<>>
  /\ UNCHANGED <<vars, ringVars, echo, processing_type, readVars, below>>

(* What the other components do, while nobody is about to resume a read:   *)
(* fork copies the mode of the caller.                                     *)
Beside(step) ==
  LET born == {p \in Procs : state[p] = "UNUSED" /\ state'[p] # "UNUSED"}
      forked == nb_proc_running' = nb_proc_running
  IN /\ phase = "user" /\ current # NoProc => want[current] = 0
     /\ step
     /\ input_type' = [p \in Procs |-> IF p \notin born THEN input_type[p]
                                       ELSE IF forked THEN input_type[current]
                                       ELSE "CONSOLE_INPUT"]
     /\ want' = [p \in Procs |-> IF Alive(p)' THEN want[p] ELSE 0]
     /\ device' = [p \in Procs |-> IF Alive(p)' THEN device[p] ELSE FALSE]
     /\ dest' = <<>>
     /\ UNCHANGED <<ringVars, echo, processing_type, below>>

ConsNext ==
  \/ Beside(Next)
  \/ \E c \in Keys : Key(c)
  \/ \E n \in ReadLengths : ConsRead(n) \/ DevRead(n)
  \/ ResumeRead
  \/ \E on \in BOOLEAN : ConsEcho(on)
  \/ \E p \in Procs, mode \in Modes : SetInputMode(p, mode)

ConsSpec == ConsInit /\ [][ConsNext]_consVars

(* As in module Process; the keys need not come.                           *)
ConsFairSpec ==
  /\ ConsSpec
  /\ WF_consVars(Beside(Interrupt))
  /\ WF_consVars(Beside(KernelStep) \/ ResumeRead)

-----------------------------------------------------------------------------
(* Properties.                                                             *)

Unread ==
  IF is_buffer_empty THEN <<>> ELSE [i \in 1 .. LastPlace + 1 |-> buffer[Place(i - 1)]]

HasLine == "LF" \in Range(Unread)

Line ==
  INSTANCE InputLine WITH line <- Unread, given <- dest, Room <- BUFFER_SIZE,
                          Lengths <- ReadLengths

(* As long as no key deletes below start, the ring, however it wraps, is   *)
(* emptied, filled and edited, is the line InputLine promises: characters  *)
(* are read once, in the order typed, a line at a time, and what a read    *)
(* does not take stays.                                                    *)
IsInputLine ==
  Line!LineInit /\ [][below' \/ [Line!LineNext]_(Line!lineVars)]_consVars

(* No reader finds the ring empty in copy, and no queue is corrupted: the  *)
(* tests of the loop and the indices copy leaves agree, whichever reader   *)
(* has emptied the ring before.                                            *)
OnlyErasingFails == ConsTypeOK /\ (halt = "assert" => below)

(* One key wakes one reader, in the order of the queue, and that reader    *)
(* may be killed or go back to sleep.  Yet not all of them sleep while a   *)
(* complete line, or a full ring, is there for them.                       *)
Readers == {p \in Procs : Alive(p) /\ "cons_read" \in ConsCalls[p]}

NotAllAsleep ==
  halt = "no" /\ ~ below /\ Readers # {}
    /\ (\A p \in Readers : state[p] = "BLOCKEDIO" /\ ~ device[p])
  => ~ HasLine /\ Len(Unread) < BUFFER_SIZE

(* A reader that has been woken finds the line that was typed, once it is  *)
(* dispatched, unless another reader was faster.                           *)
LinesAreRead ==
  \A p \in Procs :
     want[p] # 0 /\ ~ device[p] /\ state[p] # "BLOCKEDIO" /\ HasLine
       ~> want[p] = 0 \/ ~ HasLine \/ ~ MaxPrio(p) \/ halt # "no"
=============================================================================
