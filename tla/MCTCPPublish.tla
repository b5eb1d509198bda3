---------------------------- MODULE MCTCPPublish ----------------------------
(***************************************************************************)
(* Three connections, so that two are left when one goes in the middle of  *)
(* publish() or shutdown().                                                *)
(***************************************************************************)
EXTENDS TCPPublish
=============================================================================
