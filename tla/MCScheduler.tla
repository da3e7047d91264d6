----------------------------- MODULE MCScheduler -----------------------------
(***************************************************************************)
(* The boot processes and the client programs the scheduler is checked     *)
(* with: idle, two processes of one priority and one above them.           *)
(***************************************************************************)
EXTENDS Scheduler

CONSTANTS idle, a, b, c

MCBootPrio == (idle :> 1) @@ (a :> 2) @@ (b :> 2) @@ (c :> 3)
=============================================================================
