------------------------------ MODULE MCConsole ------------------------------
(***************************************************************************)
(* The programs the console is checked with: two readers, each of which    *)
(* may also read the terminal device or change the mode of a reader, and   *)
(* one of which may kill the other.                                        *)
(***************************************************************************)
EXTENDS Console

CONSTANTS idle, r1, r2

MCBootPrio == (idle :> 1) @@ (r1 :> 2) @@ (r2 :> 2)

Programs(of1, of2) == (idle :> {}) @@ (r1 :> of1) @@ (r2 :> of2)

MCCalls == Programs({}, {"kill"})

(* r1 reads lines and the terminal device, r2 reads lines in either mode.  *)
MCConsCalls == Programs({"cons_read", "dev_read"}, {"cons_read", "raw", "cooked", "echo", "noecho"})
=============================================================================
