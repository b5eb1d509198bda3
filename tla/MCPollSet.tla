------------------------------ MODULE MCPollSet ------------------------------
(***************************************************************************)
(* An instance of PollSet for TLC: two threads of the application, which   *)
(* may lose each other's wake-ups, and two transports that share a         *)
(* descriptor one after the other.                                         *)
(***************************************************************************)
EXTENDS PollSet
=============================================================================
