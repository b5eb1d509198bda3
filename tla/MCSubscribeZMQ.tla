--------------------------- MODULE MCSubscribeZMQ ---------------------------
(***************************************************************************)
(* Instances of SubscribeZMQ for TLC, with one and with two publishers.    *)
(***************************************************************************)
EXTENDS SubscribeZMQ
=============================================================================
