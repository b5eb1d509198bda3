------------------------------ MODULE PublishZMQ ------------------------------
(***************************************************************************)
(* PublishZMQ (pubsub_zmq.hpp) and its MessageQueue (core.hpp): publish()  *)
(* puts a message in a bounded queue, and a thread of the object takes the *)
(* messages out and sends them on a 0MQ PUB socket.                        *)
(*                                                                         *)
(* Messages are numbered in the order in which publish() queues them.      *)
(* TopicManager calls publish(), endpoint() and shutdown() under its       *)
(* mutex, so they never overlap one another; the thread of the object      *)
(* overlaps all of them.  The owner is the thread that makes these calls.  *)
(***************************************************************************)
EXTENDS Integers, Sequences

CONSTANTS
  QueueSize,      \* max_size_ of the queue; 0 means no limit
  MaxMsgs         \* bound: messages published

ASSUME PublishZMQAssumption == QueueSize \in Nat /\ MaxMsgs \in Nat

NoMsg == 0

VARIABLES
  owner,          \* where the owner is: "start", "assign", "running", "join", "down"
  worker,         \* where the thread is: "none", "bind", "test", "pop", "waiting",
                  \* "topic", "data", "ended", or "thrown" by an exception
  endpoint,       \* endpoint_: "empty", "given" (tcp://127.0.0.1:0) or "resolved"
  shutdown_,
  queue,          \* queue_.queue_
  notified,       \* a notify_one is due to the waiting thread
  msg,            \* the message the thread holds
  pushed,         \* messages published so far
  sent            \* messages sent, in order

vars == <<owner, worker, endpoint, shutdown_, queue, notified, msg, pushed, sent>>

TypeOK ==
  /\ owner \in {"start", "assign", "running", "join", "down"}
  /\ worker \in {"none", "bind", "test", "pop", "waiting", "topic", "data", "ended", "thrown"}
  /\ endpoint \in {"empty", "given", "resolved"}
  /\ shutdown_ \in BOOLEAN /\ notified \in BOOLEAN
  /\ queue \in Seq(Nat) /\ sent \in Seq(Nat)
  /\ msg \in Nat /\ pushed \in Nat

Init ==
  /\ owner = "start" /\ worker = "none"
  /\ endpoint = "empty" /\ shutdown_ = FALSE
  /\ queue = << >> /\ notified = FALSE
  /\ msg = NoMsg /\ pushed = 0 /\ sent = << >>

-----------------------------------------------------------------------------
(***************************************************************************)
(* The owner.                                                              *)
(***************************************************************************)

\* start() launches the thread ...
startThread ==
  /\ owner = "start"
  /\ owner' = "assign" /\ worker' = "bind"
  /\ UNCHANGED <<endpoint, shutdown_, queue, notified, msg, pushed, sent>>

\* ... and only then assigns endpoint_.  The thread reads the string before or after it.
startAssign ==
  /\ owner = "assign" /\ worker # "thrown"
  /\ owner' = "running" /\ endpoint' = "given"
  /\ UNCHANGED <<worker, shutdown_, queue, notified, msg, pushed, sent>>

\* A push that makes room as soon as the queue is full, one message too early.
BoundedEarly(q) == IF QueueSize # 0 /\ Len(q) >= QueueSize THEN Tail(q) ELSE q

\* The queue of MessageQueue::push with room made for the newest message.
Bounded(q) == IF QueueSize # 0 /\ Len(q) > QueueSize THEN Tail(q) ELSE q

\* MessageQueue::push: the oldest message makes room.
push ==
  /\ pushed' = pushed + 1
  /\ queue' = Bounded(Append(queue, pushed + 1))
  /\ notified' = (notified \/ worker = "waiting")

publish ==
  /\ owner = "running" /\ pushed < MaxMsgs
  /\ push
  /\ UNCHANGED <<owner, worker, endpoint, shutdown_, msg, sent>>

\* shutdown() raises the flag and joins the thread.
shutdown ==
  /\ owner = "running"
  /\ owner' = "join" /\ shutdown_' = TRUE
  /\ UNCHANGED <<worker, endpoint, queue, notified, msg, pushed, sent>>

join ==
  /\ owner = "join" /\ worker = "ended"
  /\ owner' = "down"
  /\ UNCHANGED <<worker, endpoint, shutdown_, queue, notified, msg, pushed, sent>>

-----------------------------------------------------------------------------
(***************************************************************************)
(* The thread: run().                                                      *)
(***************************************************************************)

\* bind and getsockopt: 0MQ resolves the port and rejects an empty endpoint, and the
\* exception leaves the thread, which ends the program.
bind ==
  /\ worker = "bind"
  /\ \/ /\ endpoint = "empty"
        /\ worker' = "thrown" /\ UNCHANGED endpoint
     \/ /\ endpoint = "given"
        /\ worker' = "test" /\ endpoint' = "resolved"
  /\ UNCHANGED <<owner, shutdown_, queue, notified, msg, pushed, sent>>

\* The condition of the loop.
loop ==
  /\ worker = "test"
  /\ worker' = IF shutdown_ THEN "ended" ELSE "pop"
  /\ UNCHANGED <<owner, endpoint, shutdown_, queue, notified, msg, pushed, sent>>

\* A pop that takes the newest message.
popNewest ==
  /\ worker = "pop" /\ queue # << >>
  /\ msg' = queue[Len(queue)] /\ queue' = SubSeq(queue, 1, Len(queue) - 1)
  /\ worker' = "topic"
  /\ UNCHANGED <<owner, endpoint, shutdown_, notified, pushed, sent>>

\* MessageQueue::pop: takes the oldest message, or waits for one.
pop ==
  /\ worker = "pop"
  /\ \/ /\ queue # << >>
        /\ msg' = Head(queue) /\ queue' = Tail(queue)
        /\ worker' = "topic" /\ UNCHANGED notified
     \/ /\ queue = << >>
        /\ worker' = "waiting" /\ notified' = FALSE
        /\ UNCHANGED <<msg, queue>>
  /\ UNCHANGED <<owner, endpoint, shutdown_, pushed, sent>>

\* timed_wait returns true: the loop of pop looks at the queue again.
popWoken ==
  /\ worker = "waiting" /\ notified
  /\ worker' = "pop" /\ notified' = FALSE
  /\ UNCHANGED <<owner, endpoint, shutdown_, queue, msg, pushed, sent>>

\* A pop that waits without a limit.
popForever == FALSE /\ UNCHANGED vars

\* A loop that takes the NULL of pop() for the end.
popTimeoutEnds ==
  /\ worker = "waiting"
  /\ worker' = "ended" /\ notified' = FALSE
  /\ UNCHANGED <<owner, endpoint, shutdown_, queue, msg, pushed, sent>>

\* A pop that takes the oldest message with it when its time is up.
popTimeoutTaking ==
  /\ worker = "waiting"
  /\ worker' = "test" /\ notified' = FALSE
  /\ queue' = IF queue = << >> THEN queue ELSE Tail(queue)
  /\ UNCHANGED <<owner, endpoint, shutdown_, msg, pushed, sent>>

\* timed_wait returns false: pop returns NULL whatever has been queued meanwhile.
popTimeout ==
  /\ worker = "waiting"
  /\ worker' = "test" /\ notified' = FALSE
  /\ UNCHANGED <<owner, endpoint, shutdown_, queue, msg, pushed, sent>>

\* The two parts of a message: the topic with ZMQ_SNDMORE, then the data.
sendTopic ==
  /\ worker = "topic"
  /\ worker' = "data"
  /\ UNCHANGED <<owner, endpoint, shutdown_, queue, notified, msg, pushed, sent>>

sendData ==
  /\ worker = "data"
  /\ worker' = "test"
  /\ sent' = Append(sent, msg) /\ msg' = NoMsg
  /\ UNCHANGED <<owner, endpoint, shutdown_, queue, notified, pushed>>

Run == bind \/ loop \/ pop \/ popWoken \/ popTimeout \/ sendTopic \/ sendData

Next == startThread \/ startAssign \/ publish \/ shutdown \/ join \/ Run

Spec == Init /\ [][Next]_vars

\* Both threads are scheduled; nobody has to publish or to shut down.
FairSpec == Spec /\ WF_vars(Run) /\ WF_vars(startAssign \/ join)

-----------------------------------------------------------------------------
InQueue(m) == \E i \in DOMAIN queue : queue[i] = m
IsSent(m) == \E i \in DOMAIN sent : sent[i] = m

\* Messages are sent in the order in which publish() was called, each at most once, and
\* what is still queued or in the hand of the thread is newer than what is sent, however
\* pushes, overflows and pops interleave.
SentInOrder ==
  /\ \A i, j \in DOMAIN sent : i < j => sent[i] < sent[j]
  /\ \A i \in DOMAIN sent : /\ msg # NoMsg => sent[i] < msg
                            /\ \A j \in DOMAIN queue : sent[i] < queue[j]
  /\ msg # NoMsg => \A j \in DOMAIN queue : msg < queue[j]
  /\ \A i, j \in DOMAIN queue : i < j => queue[i] < queue[j]

\* A message is lost in MessageQueue::push only when QueueSize newer ones have been
\* published, in particular never by a pop that times out as the message arrives.
LostOnlyWhenFull ==
  \A m \in 1..pushed :
    \/ InQueue(m) \/ IsSent(m) \/ msg = m
    \/ QueueSize # 0 /\ m + QueueSize <= pushed

\* The queue never holds more than its limit, and always the newest message unless the
\* thread has taken it: a slow thread costs old messages, not new ones.
KeepsNewest ==
  /\ QueueSize # 0 => Len(queue) <= QueueSize
  /\ pushed > 0 => InQueue(pushed) \/ IsSent(pushed) \/ msg = pushed

\* Messages that have left the queue, popped or dropped by push.
Taken == pushed - Len(queue)

\* The inductive invariant behind the three: the queue is the unbroken run of the newest
\* messages, and the sent messages and the one in the hand of the thread are older.
IndInv ==
  /\ TypeOK
  /\ Len(queue) <= pushed
  /\ QueueSize # 0 => Len(queue) <= QueueSize
  /\ \A i \in 1..Len(queue) : queue[i] = Taken + i
  /\ msg <= Taken
  /\ worker \in {"topic", "data"} <=> msg # NoMsg
  /\ owner = "start" => worker = "none"
  /\ \A i \in 1..Len(sent) : sent[i] <= Taken /\ (msg # NoMsg => sent[i] < msg)
  /\ \A i, j \in 1..Len(sent) : i < j => sent[i] < sent[j]
  /\ \A m \in 1..Taken : \/ IsSent(m) \/ msg = m
                         \/ QueueSize # 0 /\ m + QueueSize <= pushed

\* The messages published that are in the queue or in the hand of the thread.
Waiting == {m \in 1..pushed : InQueue(m) \/ msg = m}

\* publish() and run() together are a feed that loses a message only under pressure, and in
\* the order of publish(): a pop that takes a message out of the queue changes nothing of
\* it, the send does, and only a push into a full queue gives a message up.
Feed == INSTANCE LossyFeed WITH
  Limit <- QueueSize, accepted <- pushed, pending <- Waiting, delivered <- sent

ImplementsFeed == Feed!Spec

\* shutdown() returns: the thread sees the flag within one wait of pop().
ShutdownJoins == owner = "join" ~> owner = "down"

\* Every queued message leaves the queue, or shutdown() gives it up.  Whether it leaves to be
\* sent or is pushed out by newer ones is the business of LostOnlyWhenFull.
QueuedIsSent == \A m \in 1..MaxMsgs : InQueue(m) ~> (~InQueue(m) \/ shutdown_)

(***************************************************************************)
(* What the repository says and the code does not keep: not invariants.    *)
(* The README describes the behaviours that TLC finds against them.        *)
(***************************************************************************)

\* The thread does not bind before start() has given it the endpoint: run() says "Now we
\* can create the socket".
BindsTheEndpoint == worker # "thrown"

\* Once start() has returned, endpoint() gives subscribers an address they can connect to,
\* and not one whose port is still 0 (CreatePubTransport starts, and requestTopic asks).
EndpointIsBound == owner = "running" => endpoint = "resolved"
=============================================================================
