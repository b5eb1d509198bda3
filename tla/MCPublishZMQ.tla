---------------------------- MODULE MCPublishZMQ ----------------------------
(***************************************************************************)
(* Instances of PublishZMQ for TLC: more messages than the queue holds,    *)
(* with the overflow, the timed wait and the shutdown at every point.      *)
(***************************************************************************)
EXTENDS PublishZMQ
=============================================================================
