---------------------------- MODULE MCTCPSubscribe ----------------------------
(***************************************************************************)
(* An instance of TCPSubscribe for TLC.                                    *)
(***************************************************************************)
EXTENDS TCPSubscribe
=============================================================================
