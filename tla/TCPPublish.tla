------------------------------ MODULE TCPPublish ------------------------------
(***************************************************************************)
(* TCPPublish (pubsub_tcp.hpp): the publishing end of a topic, a listening *)
(* TransportTCP and the connections accepted on it.  Three threads meet    *)
(* here: the poll thread (onAccept, onOptions, onDisconnect), a thread     *)
(* that publishes, and the thread that drops the publication               *)
(* (TopicManager::unregisterPublication): it calls shutdown() and then     *)
(* destroys the object, whose destructor calls shutdown() again.           *)
(*                                                                         *)
(* The list connections_ is guarded by connections_mutex_, which nobody    *)
(* keeps while waiting for another lock: each critical section is one      *)
(* step.  Both publish() and shutdown() work on a copy of the list.  Each  *)
(* TransportTCP runs its callbacks under its close_mutex_ and calls the    *)
(* disconnect callback after it, whichever thread closes it (see module    *)
(* TransportTCP).                                                          *)
(***************************************************************************)
EXTENDS Naturals, Sequences

CONSTANTS
  Conns,          \* connections that subscribers make
  NoConn,
  MaxMsgs         \* bound: messages published

ASSUME TCPPublishAssumption == NoConn \notin Conns /\ MaxMsgs \in Nat

VARIABLES
  server,         \* server_: "new", "listening" or "closed"
  conn,           \* each connection: "none", "backlog", "open", "closed" or "refused"
  ended,          \* connections their subscriber has closed
  options,        \* connections whose subscriber has sent its TCPOptions
  connections,    \* connections_
  setup,          \* the connections of the list that are set up
  poller,         \* the poll thread: "wait", "accept", "options" or "disconnect"
  serving,        \* the connection it is busy with
  dropper,        \* the thread that drops the object: "idle", "close", "disconnect" in the
                  \* first shutdown(), then the same in the destructor, then "destroyed"
  dropping,       \* the connection whose onDisconnect it has to call
  todo,           \* connections of its copy it has not closed yet
  again,          \* it is in the destructor
  publishing,     \* connections of the copy of publish() not served yet
  published,      \* messages published
  received        \* messages sent to each connection

locks == <<poller, serving>>
drop == <<dropper, dropping, todo, again>>
streams == <<publishing, published, received>>
vars == <<server, conn, ended, options, connections, setup, locks, drop, streams>>

\* The types of the object, of its connections and of its three threads; a connection is set
\* up only while it is in connections_.
TypeOK ==
  /\ server \in {"new", "listening", "closed"}
  /\ conn \in [Conns -> {"none", "backlog", "open", "closed", "refused"}]
  /\ ended \subseteq Conns /\ options \subseteq Conns
  /\ connections \subseteq Conns /\ setup \subseteq connections
  /\ poller \in {"wait", "accept", "options", "disconnect"}
  /\ serving \in Conns \cup {NoConn}
  /\ dropper \in {"idle", "close", "disconnect", "destroyed"}
  /\ dropping \in Conns \cup {NoConn} /\ todo \subseteq Conns /\ again \in BOOLEAN
  /\ publishing \subseteq Conns /\ published \in 0..MaxMsgs
  /\ received \in [Conns -> Seq(1..MaxMsgs)]

Init ==
  /\ server = "new" /\ conn = [c \in Conns |-> "none"]
  /\ ended = {} /\ options = {}
  /\ connections = {} /\ setup = {}
  /\ poller = "wait" /\ serving = NoConn
  /\ dropper = "idle" /\ dropping = NoConn /\ todo = {} /\ again = FALSE
  /\ publishing = {} /\ published = 0 /\ received = [c \in Conns |-> << >>]

\* start(): TransportTCP::listen.
start ==
  /\ server = "new"
  /\ server' = "listening"
  /\ UNCHANGED <<conn, ended, options, connections, setup, locks, drop, streams>>

-----------------------------------------------------------------------------
(***************************************************************************)
(* The poll thread.                                                        *)
(***************************************************************************)

\* TransportTCP::accept, under the close_mutex_ of the server: it is held until onAccept
\* has returned.
accept(c) ==
  /\ poller = "wait" /\ server = "listening" /\ conn[c] = "backlog"
  /\ poller' = "accept" /\ serving' = c
  /\ conn' = [conn EXCEPT ![c] = "open"]
  /\ UNCHANGED <<server, ended, options, connections, setup, drop, streams>>

\* onAccept, under connections_mutex_: lists the connection and sets its callbacks.
onAccept ==
  /\ poller = "accept"
  /\ connections' = connections \cup {serving}
  /\ poller' = "wait" /\ serving' = NoConn
  /\ UNCHANGED <<server, conn, ended, options, setup, drop, streams>>

\* The options arrive; the poll thread holds the close_mutex_ of the connection until
\* onOptions has returned.
optionsRead(c) ==
  /\ poller = "wait" /\ conn[c] = "open" /\ c \in options
  /\ poller' = "options" /\ serving' = c
  /\ options' = options \ {c}
  /\ UNCHANGED <<server, conn, ended, connections, setup, drop, streams>>

\* An onOptions that has to wait while shutdown() closes the connections of the list, which
\* is what it would do if shutdown() kept connections_mutex_ meanwhile.
onOptionsWaiting ==
  /\ poller = "options" /\ dropper \notin {"close", "disconnect"}
  /\ setup' = setup \cup ({serving} \cap connections)
  /\ poller' = "wait" /\ serving' = NoConn
  /\ UNCHANGED <<server, conn, ended, options, connections, drop, streams>>

\* onOptions, under connections_mutex_: sets the connection up.
onOptions ==
  /\ poller = "options"
  /\ setup' = setup \cup ({serving} \cap connections)
  /\ poller' = "wait" /\ serving' = NoConn
  /\ UNCHANGED <<server, conn, ended, options, connections, drop, streams>>

\* A close() that loses the disconnect callback.
closeEndedSilent(c) ==
  /\ poller = "wait" /\ conn[c] = "open" /\ c \in ended
  /\ conn' = [conn EXCEPT ![c] = "closed"]
  /\ UNCHANGED <<server, ended, options, connections, setup, locks, drop, streams>>

\* The subscriber has gone: TransportTCP::close in the poll thread.
closeEnded(c) ==
  /\ poller = "wait" /\ conn[c] = "open" /\ c \in ended
  /\ conn' = [conn EXCEPT ![c] = "closed"]
  /\ poller' = "disconnect" /\ serving' = c
  /\ UNCHANGED <<server, ended, options, connections, setup, drop, streams>>

\* onDisconnect: erases the connection, under connections_mutex_.
Forget(c) == connections' = connections \ {c} /\ setup' = setup \ {c}

\* onDisconnect in the poll thread, outside the close_mutex_ of the connection.
onDisconnect ==
  /\ poller = "disconnect" /\ dropper # "destroyed"
  /\ Forget(serving)
  /\ poller' = "wait" /\ serving' = NoConn
  /\ UNCHANGED <<server, conn, ended, options, drop, streams>>

-----------------------------------------------------------------------------
(***************************************************************************)
(* publish(), and the thread that drops the object.                        *)
(***************************************************************************)

\* Copies the list; the message goes to the connections that are set up in the copy.
\* TopicManager's mutex keeps publish() and the dropping apart.
publish ==
  /\ server = "listening" /\ dropper = "idle" /\ publishing = {} /\ published < MaxMsgs
  /\ publishing' = setup /\ published' = published + 1
  /\ UNCHANGED <<server, conn, ended, options, connections, setup, locks, drop, received>>

\* A sendMessage that gives the round up at a connection that has been closed.
sendMessageStopping(c) ==
  /\ c \in publishing
  /\ publishing' = IF conn[c] = "open" THEN publishing \ {c} ELSE {}
  /\ received' = [received EXCEPT ![c] = IF conn[c] = "open" THEN Append(@, published) ELSE @]
  /\ UNCHANGED <<server, conn, ended, options, connections, setup, locks, drop, published>>

\* A transport that has been closed since the copy was made ignores the message.
sendMessage(c) ==
  /\ c \in publishing
  /\ publishing' = publishing \ {c}
  /\ received' = [received EXCEPT ![c] = IF conn[c] = "open" THEN Append(@, published) ELSE @]
  /\ UNCHANGED <<server, conn, ended, options, connections, setup, locks, drop, published>>

\* shutdown() copies the list.
shutdown ==
  /\ server = "listening" /\ dropper = "idle" /\ publishing = {}
  /\ dropper' = "close" /\ todo' = connections
  /\ UNCHANGED <<server, conn, ended, options, connections, setup, locks, dropping, again, streams>>

\* close() of a connection of the copy: returns at once when the poll thread has closed it,
\* and waits for a callback that is running under its close_mutex_.
closeNext(c) ==
  /\ dropper = "close" /\ c \in todo
  /\ ~(poller = "options" /\ serving = c)
  /\ todo' = todo \ {c}
  /\ \/ /\ conn[c] = "open"
        /\ conn' = [conn EXCEPT ![c] = "closed"]
        /\ dropper' = "disconnect" /\ dropping' = c
     \/ /\ conn[c] = "closed"
        /\ UNCHANGED <<conn, dropper, dropping>>
  /\ UNCHANGED <<server, ended, options, connections, setup, locks, again, streams>>

\* onDisconnect in the dropping thread.
dropperDisconnect ==
  /\ dropper = "disconnect"
  /\ Forget(dropping)
  /\ dropper' = "close" /\ dropping' = NoConn
  /\ UNCHANGED <<server, conn, ended, options, locks, todo, again, streams>>

\* server_->close(), which waits for the onAccept that is running: the connections that have
\* not been accepted are refused.
CloseServer ==
  /\ dropper = "close" /\ todo = {} /\ poller # "accept"
  /\ server' = "closed"
  /\ conn' = [c \in Conns |-> IF conn[c] = "backlog" THEN "refused" ELSE conn[c]]

\* A destructor that leaves everything to the first shutdown().
destroyAtOnce ==
  /\ ~again /\ CloseServer
  /\ again' = TRUE /\ dropper' = "destroyed" /\ UNCHANGED todo
  /\ UNCHANGED <<ended, options, connections, setup, locks, dropping, streams>>

\* The first shutdown() ends, and the destructor begins with the second.
destructor ==
  /\ ~again /\ CloseServer
  /\ again' = TRUE /\ todo' = connections /\ UNCHANGED dropper
  /\ UNCHANGED <<ended, options, connections, setup, locks, dropping, streams>>

\* The second shutdown() ends, and the object is gone.
destroy ==
  /\ again /\ CloseServer
  /\ dropper' = "destroyed"
  /\ UNCHANGED <<ended, options, connections, setup, locks, dropping, todo, again, streams>>

-----------------------------------------------------------------------------
\* External: subscribers connect, send their options once, and go away.
SubscriberConnects(c) ==
  /\ server = "listening" /\ conn[c] = "none"
  /\ conn' = [conn EXCEPT ![c] = "backlog"]
  /\ options' = options \cup {c}
  /\ UNCHANGED <<server, ended, connections, setup, locks, drop, streams>>

SubscriberLeaves(c) ==
  /\ conn[c] \in {"backlog", "open"} /\ c \notin ended
  /\ ended' = ended \cup {c}
  /\ UNCHANGED <<server, conn, options, connections, setup, locks, drop, streams>>

Poll ==
  \/ \E c \in Conns : accept(c) \/ optionsRead(c) \/ closeEnded(c)
  \/ onAccept \/ onOptions \/ onDisconnect

Drop ==
  \/ \E c \in Conns : closeNext(c)
  \/ dropperDisconnect \/ destructor \/ destroy

Publish == \E c \in Conns : sendMessage(c)

Next ==
  \/ start \/ Poll \/ publish \/ Publish \/ shutdown \/ Drop
  \/ \E c \in Conns : SubscriberConnects(c) \/ SubscriberLeaves(c)

Spec == Init /\ [][Next]_vars

\* The threads go on with what they have begun.
FairSpec == Spec /\ WF_vars(Poll) /\ WF_vars(Drop) /\ WF_vars(Publish)

-----------------------------------------------------------------------------
\* connections_ holds the open connections, except for the one being accepted, and the ones
\* whose onDisconnect is still due: neither the copies nor the race of two threads to close
\* a connection leaves one behind or removes a wrong one.
ListMatches ==
  \A c \in Conns :
    LET due == \/ poller = "disconnect" /\ serving = c
               \/ dropper = "disconnect" /\ dropping = c
        coming == poller = "accept" /\ serving = c
    IN c \in connections <=> (conn[c] = "open" /\ ~coming) \/ due

\* From the first message it is sent, a subscriber is sent every message, in order, until
\* its connection is closed; a connection that goes away in the middle of publish() does
\* not cost the others their message.
NoGaps ==
  \A c \in Conns :
    /\ \A k \in 2..Len(received[c]) : received[c][k] = received[c][k - 1] + 1
    /\ received[c] # << >> /\ conn[c] = "open" /\ c \notin publishing =>
         received[c][Len(received[c])] = published

\* When the object is gone all its connections are closed, the ones accepted while
\* shutdown() was at work on its copy too: the destructor shuts down a second time.
DestroyedIsClosed == dropper = "destroyed" => \A c \in Conns : conn[c] # "open"

\* shutdown() and the destructor return: no cycle of close_mutex_ and connections_mutex_.
DropEnds == dropper # "idle" ~> dropper = "destroyed"

(***************************************************************************)
(* What the repository says and the code does not keep: not invariants.    *)
(* The README describes the behaviours that TLC finds against them.        *)
(***************************************************************************)

\* shutdown() says of close(): "This will trigger callback, onDisconnect()".  When the
\* object is gone no callback of its connections is still to come.
CallbackFindsObject == dropper = "destroyed" => poller # "disconnect"
=============================================================================
