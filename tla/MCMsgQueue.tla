----------------------------- MODULE MCMsgQueue ------------------------------
(***************************************************************************)
(* The programs the message queues are checked with: a and b send and      *)
(* receive, and k does everything else.                                    *)
(***************************************************************************)
EXTENDS MsgQueue

CONSTANTS idle, k, a, b, m1, m2

MCBootPrio == (idle :> 1) @@ (k :> 2) @@ (a :> 2) @@ (b :> 2)

MCCons == (0 :> "cons")
MCProd == (0 :> "prod")

MCCalls == [p \in Procs |-> IF p = k THEN {"kill"} ELSE {}]

MCMsgCalls ==
  [p \in Procs |->
     CASE p = idle -> {}
       [] p = k    -> {"pcreate", "pcreate_huge", "preset", "pdelete"}
       [] OTHER    -> {"psend", "preceive"}]

(* a and b run the same program; one message is like another.              *)
Twins == Permutations({a, b}) \cup Permutations({m1, m2})
=============================================================================
