---------------------------- MODULE MCSemaphore -----------------------------
(***************************************************************************)
(* The programs the semaphores are checked with: a, b and urgent wait;     *)
(* urgent, which comes first, has created the semaphores, and k signals,   *)
(* resets and deletes them, and kills the processes that wait.             *)
(***************************************************************************)
EXTENDS Semaphore

CONSTANTS idle, k, a, b, urgent

MCBootPrio == (idle :> 1) @@ (k :> 2) @@ (a :> 2) @@ (b :> 2) @@ (urgent :> 3)

(* a and b are interchangeable.                                            *)
Twins == Permutations({a, b})

MCCalls == [p \in Procs |-> IF p = k THEN {"kill"} ELSE {}]

MCSemCalls ==
  [p \in Procs |->
     CASE p = idle -> {}
       [] p = k    -> {"signal", "signaln", "sreset", "sdelete"}
       [] p = urgent    -> {"screate", "wait"}
       [] OTHER    -> {"wait", "try_wait", "signal"}]

MCMinCount == -3
=============================================================================
