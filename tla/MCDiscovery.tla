----------------------------- MODULE MCDiscovery -----------------------------
(***************************************************************************)
(* Two publishers and a subscriber of one topic, and a few calls.          *)
(***************************************************************************)
EXTENDS Discovery
=============================================================================
