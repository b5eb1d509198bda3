----------------------------- MODULE SubscribeZMQ -----------------------------
(***************************************************************************)
(* SubscribeZMQ (pubsub_zmq.hpp): every publisher that discovery finds     *)
(* makes the poll thread call start(), which launches a thread that        *)
(* connects a 0MQ SUB socket and hands what it receives to cb_, while a    *)
(* user thread may call shutdown() at any time (Subscription::shutdown).   *)
(*                                                                         *)
(* One object serves all the publishers of its topic, so start() may be    *)
(* called again: the new thread replaces thread_, and the old one, now     *)
(* detached, goes on.  The threads share endpoint_, cb_ and shutdown_.     *)
(*                                                                         *)
(* 0MQ (external) gives a subscriber the messages published after it       *)
(* connected, in order and with both their parts or none, so the branches  *)
(* of run() for a missing or a third part are never taken.                 *)
(***************************************************************************)
EXTENDS Naturals, Sequences, FiniteSets

CONSTANTS
  Endpoints,      \* the publishers' endpoints, found in any order
  NoEndpoint,     \* an endpoint_ not assigned yet
  MaxMsgs         \* bound: messages each publisher sends

ASSUME SubscribeZMQAssumption ==
  /\ IsFiniteSet(Endpoints) /\ NoEndpoint \notin Endpoints
  /\ MaxMsgs \in Nat

Runs == 1..Cardinality(Endpoints)
NoRun == 0
Message == [from : Endpoints, number : 1..MaxMsgs]

VARIABLES
  found,          \* publishers start() has been called for
  starting,       \* start() has assigned endpoint_ and not yet launched its thread
  endpoint,       \* endpoint_
  thread,         \* thread_: the run it is the handle of
  run,            \* where each thread is in run()
  connected,      \* the endpoint its socket is connected to
  inbox,          \* messages waiting in its socket
  inhand,         \* the message it has received and not handed to cb_ yet
  shutdown_,
  closer,         \* the user thread: "idle", "join", "down"
  joining,        \* the run it joins
  sent,           \* messages sent by each publisher
  delivered       \* calls of cb_: the run and the message

vars == <<found, starting, endpoint, thread, run, connected, inbox, inhand, shutdown_, closer,
          joining, sent, delivered>>

Init ==
  /\ found = {} /\ starting = FALSE
  /\ endpoint = NoEndpoint /\ thread = NoRun /\ joining = NoRun
  /\ run = [i \in Runs |-> "none"]
  /\ connected = [i \in Runs |-> NoEndpoint]
  /\ inbox = [i \in Runs |-> << >>] /\ inhand = [i \in Runs |-> << >>]
  /\ shutdown_ = FALSE /\ closer = "idle"
  /\ sent = [e \in Endpoints |-> 0] /\ delivered = << >>

-----------------------------------------------------------------------------
\* The poll thread: Subscription::foundPublisher sets cb_ and calls start(), which assigns
\* endpoint_ ...
startAssign(e) ==
  /\ ~starting /\ e \notin found
  /\ found' = found \cup {e} /\ endpoint' = e /\ starting' = TRUE
  /\ UNCHANGED <<thread, run, connected, inbox, inhand, shutdown_, closer, joining, sent,
                 delivered>>

\* ... and launches the thread.
startThread ==
  /\ starting
  /\ starting' = FALSE
  /\ thread' = Cardinality(found)
  /\ run' = [run EXCEPT ![Cardinality(found)] = "connect"]
  /\ UNCHANGED <<found, endpoint, connected, inbox, inhand, shutdown_, closer, joining, sent,
                 delivered>>

\* A shutdown() that does not wait for the thread.
shutdownNoJoin ==
  /\ closer = "idle"
  /\ shutdown_' = TRUE /\ closer' = "down"
  /\ UNCHANGED <<found, starting, endpoint, thread, run, connected, inbox, inhand, joining, sent,
                 delivered>>

\* The user thread: shutdown() raises the flag and joins the thread thread_ names, if any.
shutdown ==
  /\ closer = "idle"
  /\ shutdown_' = TRUE /\ closer' = "join" /\ joining' = thread
  /\ UNCHANGED <<found, starting, endpoint, thread, run, connected, inbox, inhand, sent,
                 delivered>>

join ==
  /\ closer = "join"
  /\ joining # NoRun => run[joining] = "ended"
  /\ closer' = "down"
  /\ UNCHANGED <<found, starting, endpoint, thread, run, connected, inbox, inhand, shutdown_,
                 joining, sent, delivered>>

-----------------------------------------------------------------------------
\* run() reads endpoint_ when it gets to connect(), not when it was launched.
connect(i) ==
  /\ run[i] = "connect"
  /\ run' = [run EXCEPT ![i] = "test"]
  /\ connected' = [connected EXCEPT ![i] = endpoint]
  /\ UNCHANGED <<found, starting, endpoint, thread, inbox, inhand, shutdown_, closer, joining,
                 sent, delivered>>

\* A loop that looks at its socket before it looks at the flag.
loopReading(i) ==
  /\ run[i] = "test"
  /\ run' = [run EXCEPT ![i] = "poll"]
  /\ UNCHANGED <<found, starting, endpoint, thread, connected, inbox, inhand, shutdown_, closer,
                 joining, sent, delivered>>

\* The condition of the loop; the socket is closed when the loop is left.
loop(i) ==
  /\ run[i] = "test"
  /\ IF shutdown_
     THEN /\ run' = [run EXCEPT ![i] = "ended"]
          /\ connected' = [connected EXCEPT ![i] = NoEndpoint]
          /\ inbox' = [inbox EXCEPT ![i] = << >>]
     ELSE /\ run' = [run EXCEPT ![i] = "poll"]
          /\ UNCHANGED <<connected, inbox>>
  /\ UNCHANGED <<found, starting, endpoint, thread, inhand, shutdown_, closer, joining, sent,
                 delivered>>

\* zmq::poll returns with a message or after 100 ms without one.
poll(i) ==
  /\ run[i] = "poll"
  /\ run' = [run EXCEPT ![i] = IF inbox[i] # << >> THEN "recv" ELSE "test"]
  /\ UNCHANGED <<found, starting, endpoint, thread, connected, inbox, inhand, shutdown_, closer,
                 joining, sent, delivered>>

\* A recv that leaves the message in the socket.
recvPeeking(i) ==
  /\ run[i] = "recv"
  /\ run' = [run EXCEPT ![i] = "callback"]
  /\ inhand' = [inhand EXCEPT ![i] = <<Head(inbox[i])>>]
  /\ UNCHANGED <<found, starting, endpoint, thread, connected, inbox, shutdown_, closer, joining,
                 sent, delivered>>

\* Both parts of a message are received.
recv(i) ==
  /\ run[i] = "recv"
  /\ run' = [run EXCEPT ![i] = "callback"]
  /\ inhand' = [inhand EXCEPT ![i] = <<Head(inbox[i])>>]
  /\ inbox' = [inbox EXCEPT ![i] = Tail(@)]
  /\ UNCHANGED <<found, starting, endpoint, thread, connected, shutdown_, closer, joining, sent,
                 delivered>>

\* cb_(msg).
callback(i) ==
  /\ run[i] = "callback"
  /\ run' = [run EXCEPT ![i] = "test"]
  /\ delivered' = Append(delivered, [by |-> i, msg |-> inhand[i][1]])
  /\ inhand' = [inhand EXCEPT ![i] = << >>]
  /\ UNCHANGED <<found, starting, endpoint, thread, connected, inbox, shutdown_, closer, joining,
                 sent>>

\* The publisher at e sends a message to the sockets connected to it.
PublisherSends(e) ==
  /\ sent[e] < MaxMsgs
  /\ sent' = [sent EXCEPT ![e] = @ + 1]
  /\ inbox' = [i \in Runs |-> IF connected[i] = e
                              THEN Append(inbox[i], [from |-> e, number |-> sent[e] + 1])
                              ELSE inbox[i]]
  /\ UNCHANGED <<found, starting, endpoint, thread, run, connected, inhand, shutdown_, closer,
                 joining, delivered>>

Run(i) == connect(i) \/ loop(i) \/ poll(i) \/ recv(i) \/ callback(i)

Next ==
  \/ \E e \in Endpoints : startAssign(e) \/ PublisherSends(e)
  \/ startThread \/ shutdown \/ join
  \/ \E i \in Runs : Run(i)

Spec == Init /\ [][Next]_vars

\* The threads are scheduled, and a call that has begun goes on; nobody has to call
\* shutdown(), and no publisher has to be found or to send.
FairSpec == Spec /\ WF_vars(startThread) /\ WF_vars(join) /\ \A i \in Runs : WF_vars(Run(i))

-----------------------------------------------------------------------------
\* A thread hands over the messages of its publisher in the order they were sent, none
\* twice, whatever start() and shutdown() do meanwhile to the variables it shares.
StreamInOrder ==
  \A m, n \in DOMAIN delivered :
    m < n /\ delivered[m].by = delivered[n].by =>
      /\ delivered[m].msg.from = delivered[n].msg.from
      /\ delivered[m].msg.number < delivered[n].msg.number

\* Once shutdown() has returned, cb_ is called neither by the thread it has joined nor by a
\* thread that start() launches afterwards.  (It may still be called by a thread that a
\* second start() detached: shutdown() joins only the last one.)
QuietAfterShutdown ==
  [][closer = "down" => \/ UNCHANGED delivered
                        \/ delivered'[Len(delivered')].by < joining]_vars

\* After shutdown() every thread leaves its loop for good, the detached ones and the ones
\* launched late too: the calls of cb_ stop even where shutdown() does not wait for them.
RunsLeaveLoop == shutdown_ ~> [](\A i \in Runs : run[i] \in {"none", "connect", "test", "ended"})

(***************************************************************************)
(* What one would expect and the code does not keep: not an invariant.     *)
(* The README describes the behaviour that TLC finds against it.           *)
(***************************************************************************)

\* Every publisher has a thread of its own: no two threads connect to the same one.
OneThreadEach ==
  \A i, j \in Runs : i # j /\ connected[i] # NoEndpoint => connected[i] # connected[j]
=============================================================================
