------------------------------ MODULE MCProcess ------------------------------
(***************************************************************************)
(* The programs the life of processes is checked with.  init is the first  *)
(* process with a program; c1, c2 and c3 are free process structures.      *)
(***************************************************************************)
EXTENDS Process

CONSTANTS idle, init, c1, c2, c3

MCBootPrio == (idle :> 1) @@ (init :> 2)

(* The children are interchangeable where their programs are the same.     *)
Children == Permutations({c1, c2})

(* A program for init and one for all the processes that are created.      *)
Programs(ofInit, ofChildren) ==
  [p \in Procs |-> CASE p = idle -> {}
                      [] p = init -> ofInit
                      [] OTHER    -> ofChildren]

(* Processes that create others in every way, wait for them and kill them. *)
KillerCalls ==
  Programs({"start", "start_bad", "fork", "waitpid", "exit"},
           {"start", "fork", "waitpid", "exit", "kill"})

(* init waits for its children; they sleep, exit and kill each other.      *)
LiveCalls == Programs({"start", "waitpid"}, {"exit", "kill"})

=============================================================================
