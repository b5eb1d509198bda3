---------------------------- MODULE MessageChannel ----------------------------
(***************************************************************************)
(* What two connected transports in message mode promise their owners: the *)
(* messages one side accepts for sending come out at the other side whole, *)
(* once, and in the order they were accepted, until the connection is      *)
(* closed.                                                                 *)
(***************************************************************************)
EXTENDS Naturals, Sequences

CONSTANT Messages     \* the messages that can be sent

VARIABLES
  sent,         \* messages accepted by sendFrames, in order
  delivered,    \* messages given to readmsg_cb_, in order
  closed        \* the connection is gone

vars == <<sent, delivered, closed>>

Init == sent = <<>> /\ delivered = <<>> /\ closed = FALSE

Send(m) ==
  /\ sent' = Append(sent, m)
  /\ UNCHANGED <<delivered, closed>>

Deliver ==
  /\ ~closed
  /\ Len(delivered) < Len(sent)
  /\ delivered' = Append(delivered, sent[Len(delivered) + 1])
  /\ UNCHANGED <<sent, closed>>

Close ==
  /\ ~closed
  /\ closed' = TRUE
  /\ UNCHANGED <<sent, delivered>>

Next == (\E m \in Messages : Send(m)) \/ Deliver \/ Close

Spec == Init /\ [][Next]_vars
=============================================================================
