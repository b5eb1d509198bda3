------------------------------ MODULE LossyFeed ------------------------------
(***************************************************************************)
(* What PublishZMQ promises of the messages of a topic: they go out once   *)
(* each, in the order in which they were published; a message waiting to   *)
(* go out is given up only when Limit newer ones have been published, and  *)
(* only one that is as old as that can be kept waiting.                    *)
(***************************************************************************)
EXTENDS Naturals, Sequences

CONSTANT Limit        \* 0: no message is given up

VARIABLES
  accepted,     \* messages published so far; they are numbered 1 to accepted
  pending,      \* the numbers of those that still wait to go out
  delivered     \* the numbers of those that have gone out, in order

vars == <<accepted, pending, delivered>>

Init == accepted = 0 /\ pending = {} /\ delivered = << >>

\* Message m is not among the newest Limit ones.
Old(m) == Limit # 0 /\ m + Limit <= accepted

\* A message is published, and others may be given up for it: old ones, and of those all
\* but at most one, which may be on its way out.
Publish ==
  /\ accepted' = accepted + 1
  /\ accepted' \in pending' /\ pending' \subseteq pending \cup {accepted'}
  /\ \A m \in pending \ pending' : Old(m)'
  /\ \A m, n \in pending' : Old(m)' /\ Old(n)' => m = n
  /\ UNCHANGED delivered

\* The oldest message that waits goes out.
Deliver ==
  /\ \E m \in pending :
       /\ \A n \in pending : m <= n
       /\ pending' = pending \ {m} /\ delivered' = Append(delivered, m)
  /\ UNCHANGED accepted

Next == Publish \/ Deliver

Spec == Init /\ [][Next]_vars
=============================================================================
