------------------------------- MODULE MCPipe --------------------------------
(***************************************************************************)
(* The programs the pipe is checked with: init creates it, and all its     *)
(* processes fork, read, write and close their ends in any order.          *)
(***************************************************************************)
EXTENDS Pipe

CONSTANTS idle, init, c1, c2

MCBootPrio == (idle :> 1) @@ (init :> 2)

Children == Permutations({c1, c2})

Programs(ofInit, ofChildren) ==
  [p \in Procs |-> CASE p = idle -> {}
                      [] p = init -> ofInit
                      [] OTHER    -> ofChildren]

MCCalls == Programs({"fork"}, {})
MCSemCalls == Programs({}, {})
MCPipeCalls == Programs({"pipe", "read", "write", "close"}, {"read", "write", "close"})

MCMinCount == -4
=============================================================================
