----------------------------- MODULE TCPSubscribe -----------------------------
(***************************************************************************)
(* A subscription over TCP in its node: one TCPSubscribe (pubsub_tcp.hpp)  *)
(* that the poll thread starts anew for every publisher that is found,     *)
(* while a thread of the application takes the subscription back with      *)
(* TopicManager::unregisterSubscription (topic_manager.cpp).  That thread  *)
(* closes the connection, destroys the object and tells the master over a  *)
(* connection of its own (callMaster, registration.hpp), all under         *)
(* TopicManager's mutex_.                                                  *)
(*                                                                         *)
(* Every connection is a TransportTCP (transport_tcp.cpp) from socket() to *)
(* close().  The kernel hands out the lowest free descriptor, so that one  *)
(* connection may get the number of another that was just closed.  The     *)
(* module composes what TransportTCP shows for one connection and PollSet  *)
(* for descriptors: here update() and a critical section of close_mutex_   *)
(* that calls no callback are one step each.  connect() takes no mutex and *)
(* looks at sock_ again and again, so that each look is a step of its own; *)
(* only a call of the kernel and the look at sock_ just before it are one. *)
(*                                                                         *)
(* The poll thread is the only one that keeps a close_mutex_ over several  *)
(* steps (that of "updating", while it is in its socketUpdate), and the    *)
(* application's thread the only one that keeps mutex_.                    *)
(***************************************************************************)
EXTENDS Naturals

CONSTANTS
  User, Poller,      \* the application's thread and the poll thread
  Pubs,              \* connections to publishers, one for each start()
  Call,              \* the connection of callMaster
  NoTransport,
  Fds,               \* bound: descriptors that the process may have
  NoFd               \* ROS_INVALID_SOCKET

Actors == {User, Poller}
Transports == Pubs \cup {Call}

ASSUME TCPSubscribeAssumption ==
  /\ User # Poller
  /\ Call \notin Pubs /\ NoTransport \notin Transports
  /\ Fds \subseteq Nat /\ NoFd \notin Fds

VARIABLES
  tr,                \* each TransportTCP and the connection behind it, see Transport
  entry,             \* the poll set: the transport of the SocketInfo of each descriptor
  events,            \* and the events_ of its SocketInfo
  tcp,               \* tcp_
  alive,             \* the TCPSubscribe has not been destroyed
  shut,              \* history: the connections that shutdown() has found in tcp_
  pc,
  serving,           \* the transport that start() or socketUpdate is about
  revents,           \* the argument of socketUpdate
  arg,               \* the sock_ that a thread has read, to pass it to addSocket or addEvents
  updating,          \* the transport whose close_mutex_ the poll thread holds
  erasing,           \* the application's thread is in the destructor
  fault              \* what has stopped the process

pollset == <<entry, events>>
object == <<tcp, alive, shut>>
place == <<pc, serving, revents>>
locals == <<arg, updating, erasing>>
vars == <<tr, pollset, object, place, locals, fault>>

Links == {"none", "new", "connecting", "up", "ended", "reset", "failed", "unresolved", "closed"}

\* disconnect_cb: disconnect_cb_ is set; send_msgs: send_msgs_ holds the options or the request;
\* link: how far the connection is; inbox: a message of the peer can be read; written: the
\* options or the request have been sent.
Transport ==
  [sock : Fds \cup {NoFd}, closed : BOOLEAN,
   expecting_read : BOOLEAN, expecting_write : BOOLEAN,
   disconnect_cb : BOOLEAN, send_msgs : BOOLEAN,
   link : Links, inbox : BOOLEAN, written : BOOLEAN]

\* TransportTCP::TransportTCP, before there is an object and a socket.
NewTransport ==
  [sock |-> NoFd, closed |-> FALSE, expecting_read |-> FALSE, expecting_write |-> FALSE,
   disconnect_cb |-> FALSE, send_msgs |-> FALSE,
   link |-> "none", inbox |-> FALSE, written |-> FALSE]

\* The steps of making a connection; those of MultiServiceClient::call, under its mutex_.
CallLabels == {"enableRead", "addRead", "setDisconnectCallback", "sendMessage",
               "enableWrite", "addWrite", "push"}
EnterLabels == {"initializeSocket", "setNonBlocking", "takeSock", "addSocket"}
ConnectLabels == {"socket", "connect"} \cup EnterLabels \cup CallLabels
Labels == ConnectLabels \cup
          {"idle", "shutdown", "destroy", "delete", "done",
           "wait", "update", "read", "receive", "publish", "write", "error",
           "onDisconnect", "removeConnection"}

\* The keys of the poll set: addSocket also takes ROS_INVALID_SOCKET, which poll(2) ignores.
Slots == Fds \cup {NoFd}

\* The types of the connections, the poll set, the object and the threads.
TypeOK ==
  /\ tr \in [Transports -> Transport]
  /\ entry \in [Slots -> Transports \cup {NoTransport}]
  /\ events \in [Slots -> SUBSET {"IN", "OUT"}]
  /\ tcp \in Pubs \cup {NoTransport} /\ shut \subseteq Pubs /\ alive \in BOOLEAN
  /\ pc \in [Actors -> Labels]
  /\ {serving, updating} \subseteq Transports \cup {NoTransport}
  /\ revents \subseteq {"IN", "OUT", "ERR"}
  /\ arg \in [Actors -> Slots] /\ erasing \in BOOLEAN
  /\ fault \in {"no", "connect", "assert", "deleted", "frames", "no message"}

Init ==
  /\ tr = [t \in Transports |-> NewTransport]
  /\ entry = [s \in Slots |-> NoTransport] /\ events = [s \in Slots |-> {}]
  /\ tcp = NoTransport /\ alive = TRUE /\ shut = {}
  /\ pc = [a \in Actors |-> IF a = User THEN "idle" ELSE "wait"]
  /\ serving = NoTransport /\ revents = {}
  /\ arg = [a \in Actors |-> NoFd] /\ updating = NoTransport /\ erasing = FALSE
  /\ fault = "no"

-----------------------------------------------------------------------------
Running == fault = "no"
At(a, label) == Running /\ pc[a] = label

\* The transport that a thread is working on.
cur(a) == IF a = User THEN Call ELSE serving

\* Thread a goes on at the label; in "wait" the poll thread has left start() or socketUpdate.
Goto(a, label) ==
  /\ pc' = [pc EXCEPT ![a] = label]
  /\ IF label = "wait"
       THEN serving' = NoTransport /\ revents' = {}
       ELSE UNCHANGED <<serving, revents>>

\* The process stops: a failed assertion, a ROS_BREAK, or the use of a deleted object.
Stop(reason) == fault' = reason /\ UNCHANGED <<tr, pollset, object, place, locals>>

\* TopicManager's mutex_ is held by the application's thread.
HoldsMutex == pc[User] \notin {"idle", "done"}

\* Thread a can get the close_mutex_ of t, or its message_mutex_, which sendFrames keeps to
\* its end and the poll thread while it reads or writes.
MayLock(a, t) == a = Poller \/ updating # t
MayLockMessage(a, t) ==
  IF a = User
    THEN ~(/\ updating = t
           /\ pc[Poller] \in {"receive", "publish", "onDisconnect", "removeConnection"})
    ELSE ~(cur(User) = t /\ pc[User] \in {"enableWrite", "addWrite", "push"})

-----------------------------------------------------------------------------
(***************************************************************************)
(* TransportTCP::close and the disconnect callbacks.                       *)
(***************************************************************************)

\* The critical section of close(): the descriptor leaves the poll set, with whatever is there
\* under its number, and the process.
closeSocket(t) ==
  /\ tr' = [tr EXCEPT ![t].closed = TRUE, ![t].sock = NoFd, ![t].disconnect_cb = FALSE,
                      ![t].link = "closed", ![t].inbox = FALSE, ![t].written = FALSE]
  /\ entry' = [entry EXCEPT ![tr[t].sock] = NoTransport]          \* delSocket
  /\ events' = [events EXCEPT ![tr[t].sock] = {}]

\* close() of t by thread a, which goes on at "next".  A transport that is closed returns
\* without the mutex.  One without a socket fails the assertion.  Otherwise the socket is
\* closed, and the callback is called outside the mutex.
close(a, t, next) ==
  \/ /\ tr[t].closed
     /\ Goto(a, next)
     /\ UNCHANGED <<tr, pollset, fault>>
  \/ /\ ~tr[t].closed /\ tr[t].sock = NoFd
     /\ fault' = "assert"
     /\ UNCHANGED <<tr, pollset, place>>
  \/ /\ ~tr[t].closed /\ tr[t].sock # NoFd
     /\ MayLock(a, t)
     /\ closeSocket(t)
     /\ Goto(a, IF ~tr[t].disconnect_cb THEN next
                ELSE IF t = Call THEN "removeConnection" ELSE "onDisconnect")
     /\ UNCHANGED fault

\* Where a thread goes on after the callback.
AfterCallback(a) ==
  IF a = User THEN (IF erasing THEN "delete" ELSE "destroy")
  ELSE (IF updating = NoTransport THEN "wait" ELSE "write")

\* TCPSubscribe::onDisconnect: closes tcp_, whichever connection has ended.
onDisconnect(a) ==
  /\ At(a, "onDisconnect")
  /\ \/ alive /\ close(a, tcp, AfterCallback(a)) /\ UNCHANGED <<object, locals>>
     \/ ~alive /\ Stop("deleted")

\* MultiServiceClient::removeConnection, under the mutex_ that call() holds.
removeConnection ==
  /\ At(Poller, "removeConnection")
  /\ pc[User] \notin CallLabels
  /\ Goto(Poller, AfterCallback(Poller))
  /\ UNCHANGED <<tr, pollset, object, locals, fault>>

-----------------------------------------------------------------------------
(***************************************************************************)
(* Making a connection: TransportTCP::connect, then the calls of           *)
(* TCPSubscribe::start in the poll thread, or of MultiServiceClient::call  *)
(* in the application's thread.                                            *)
(***************************************************************************)

\* A new TransportTCP object: which of the unused names it gets does not matter.
Fresh == CHOOSE t \in Pubs : tr[t].link = "none"

\* requestTopic has been answered: foundPublisher calls start(), which makes a transport and
\* forgets the one it had.  (An answer for an object that is gone: Discovery!NoDangling.)
start(t) ==
  /\ At(Poller, "wait") /\ alive
  /\ tr[t].link = "none" /\ t = Fresh
  /\ tcp' = t
  /\ tr' = [tr EXCEPT ![t].link = "new"]
  /\ pc' = [pc EXCEPT ![Poller] = "socket"] /\ serving' = t
  /\ UNCHANGED <<pollset, alive, shut, revents, locals, fault>>

\* A step of start() finds its object, or the object has been destroyed under it, and its
\* transport with it, unless addSocket has a shared_ptr of its own.
OnObject(a) == a = Poller => alive
startDeleted ==
  /\ Running /\ pc[Poller] \in ConnectLabels \ {"addSocket"} /\ ~alive
  /\ Stop("deleted")

\* connect() returns false: start() breaks, callMaster goes on.
connectFails(a) ==
  \/ a = Poller /\ fault' = "connect" /\ UNCHANGED place
  \/ a = User /\ Goto(a, "enableRead") /\ UNCHANGED fault

FreeFds == Fds \ {tr[t].sock : t \in Transports}

\* socket(): the lowest free descriptor, or an error.
socket(a) ==
  /\ At(a, "socket") /\ OnObject(a)
  /\ \/ /\ FreeFds = {}
        /\ tr' = [tr EXCEPT ![cur(a)].link = "failed"]
        /\ connectFails(a)
     \/ /\ FreeFds # {}
        /\ tr' = [tr EXCEPT ![cur(a)].sock = CHOOSE fd \in FreeFds : \A g \in FreeFds : fd <= g]
        /\ Goto(a, "connect") /\ UNCHANGED fault
  /\ UNCHANGED <<pollset, object, locals>>

\* The address of the host and ::connect: the connection is under way ...
connectBegins(a) ==
  /\ ~tr[cur(a)].closed
  /\ tr' = [tr EXCEPT ![cur(a)].link = "connecting"]
  /\ Goto(a, "initializeSocket")
  /\ UNCHANGED <<pollset, fault>>

\* ... the host is unknown or ::connect fails, and connect() closes the socket; there is no
\* disconnect callback yet ...
connectCloses(a) ==
  /\ ~tr[cur(a)].closed /\ MayLock(a, cur(a))
  /\ closeSocket(cur(a))
  /\ connectFails(a)

\* ... no address of the host will do, and connect() does not close ...
connectUnresolved(a) ==
  /\ ~tr[cur(a)].closed
  /\ tr' = [tr EXCEPT ![cur(a)].link = "unresolved"]
  /\ connectFails(a)
  /\ UNCHANGED pollset

\* ... or the other thread has closed the transport since socket(), and ::connect fails on
\* ROS_INVALID_SOCKET.
connectClosed(a) ==
  /\ tr[cur(a)].closed
  /\ connectFails(a)
  /\ UNCHANGED <<tr, pollset>>

connect(a) ==
  /\ At(a, "connect") /\ OnObject(a)
  /\ connectBegins(a) \/ connectCloses(a) \/ connectUnresolved(a) \/ connectClosed(a)
  /\ UNCHANGED <<object, locals>>

\* initializeSocket: its assertion ...
initializeSocket(a) ==
  /\ At(a, "initializeSocket") /\ OnObject(a)
  /\ \/ tr[cur(a)].sock # NoFd
        /\ Goto(a, "setNonBlocking") /\ UNCHANGED <<tr, pollset, object, locals, fault>>
     \/ tr[cur(a)].sock = NoFd /\ Stop("assert")

\* ... setNonBlocking, which fails only when the transport has been closed, so that its own
\* close() does nothing ...
setNonBlocking(a) ==
  /\ At(a, "setNonBlocking") /\ OnObject(a)
  /\ \/ tr[cur(a)].sock # NoFd /\ Goto(a, "takeSock") /\ UNCHANGED fault
     \/ tr[cur(a)].sock = NoFd /\ connectFails(a)
  /\ UNCHANGED <<tr, pollset, object, locals>>

\* ... and the arguments of addSocket: sock_, and a shared_ptr that keeps the transport.
takeSock(a) ==
  /\ At(a, "takeSock") /\ OnObject(a)
  /\ arg' = [arg EXCEPT ![a] = tr[cur(a)].sock]
  /\ Goto(a, "addSocket")
  /\ UNCHANGED <<tr, pollset, object, updating, erasing, fault>>

\* addSocket puts the transport into the poll set under the number that it had, or refuses a
\* number that is in use, which nobody looks at; connect() returns true.
addSocket(a) ==
  /\ At(a, "addSocket")
  /\ IF entry[arg[a]] = NoTransport
       THEN /\ entry' = [entry EXCEPT ![arg[a]] = cur(a)]
            /\ events' = [events EXCEPT ![arg[a]] = {}]
       ELSE UNCHANGED pollset
  /\ arg' = [arg EXCEPT ![a] = NoFd]
  /\ Goto(a, IF a = Poller THEN "setDisconnectCallback" ELSE "enableRead")
  /\ UNCHANGED <<tr, object, updating, erasing, fault>>

setDisconnectCallback(a) ==
  /\ At(a, "setDisconnectCallback") /\ OnObject(a)
  /\ tr' = [tr EXCEPT ![cur(a)].disconnect_cb = TRUE]
  /\ Goto(a, IF a = Poller THEN "enableRead" ELSE "sendMessage")
  /\ UNCHANGED <<pollset, object, locals, fault>>

\* The first half of enableRead and enableWrite: closed_ is looked at under close_mutex_, and
\* sock_ is read after it.
enableCheck(a, add, skip) ==
  /\ OnObject(a)
  /\ MayLock(a, cur(a))
  /\ IF tr[cur(a)].closed
       THEN Goto(a, skip) /\ UNCHANGED arg
       ELSE Goto(a, add) /\ arg' = [arg EXCEPT ![a] = tr[cur(a)].sock]
  /\ UNCHANGED <<tr, pollset, object, updating, erasing, fault>>

\* addEvents that replaces the events it should add to.
addEventsOnly(fd, event) ==
  events' = IF entry[fd] # NoTransport
              THEN [events EXCEPT ![fd] = {event}]
              ELSE events

\* PollSet::addEvents: works on whoever has the descriptor now.
addEvents(fd, event) ==
  events' = IF entry[fd] # NoTransport
              THEN [events EXCEPT ![fd] = @ \cup {event}]
              ELSE events

\* The second half: addEvents, and the flag.
enableAdd(a, event, next) ==
  /\ OnObject(a)
  /\ addEvents(arg[a], event)
  /\ arg' = [arg EXCEPT ![a] = NoFd]
  /\ Goto(a, next)
  /\ UNCHANGED <<entry, object, updating, erasing, fault>>

AfterRead(a) == IF a = Poller THEN "sendMessage" ELSE "setDisconnectCallback"

enableRead(a) == At(a, "enableRead") /\ enableCheck(a, "addRead", AfterRead(a))
enableReadAdd(a) ==
  /\ At(a, "addRead") /\ enableAdd(a, "IN", AfterRead(a))
  /\ tr' = [tr EXCEPT ![cur(a)].expecting_read = TRUE]

\* sendMessage: sendFrames takes message_mutex_ and, the queue being empty, enables writing.
sendMessage(a) ==
  /\ At(a, "sendMessage") /\ OnObject(a)
  /\ MayLockMessage(a, cur(a))
  /\ Goto(a, "enableWrite")
  /\ UNCHANGED <<tr, pollset, object, locals, fault>>

enableWrite(a) == At(a, "enableWrite") /\ enableCheck(a, "addWrite", "push")
enableWriteAdd(a) ==
  /\ At(a, "addWrite") /\ enableAdd(a, "OUT", "push")
  /\ tr' = [tr EXCEPT ![cur(a)].expecting_write = TRUE]

\* The end of sendFrames, and of start(), or of call() and so of unregisterSubscription.
sendFramesPush(a) ==
  /\ At(a, "push") /\ OnObject(a)
  /\ tr' = [tr EXCEPT ![cur(a)].send_msgs = TRUE]
  /\ Goto(a, IF a = Poller THEN "wait" ELSE "done")
  /\ UNCHANGED <<pollset, object, locals, fault>>

Connecting(a) ==
  \/ socket(a) \/ connect(a)
  \/ initializeSocket(a) \/ setNonBlocking(a) \/ takeSock(a) \/ addSocket(a)
  \/ setDisconnectCallback(a)
  \/ enableRead(a) \/ enableReadAdd(a)
  \/ sendMessage(a) \/ enableWrite(a) \/ enableWriteAdd(a) \/ sendFramesPush(a)

-----------------------------------------------------------------------------
(***************************************************************************)
(* The application's thread: TopicManager::unregisterSubscription.         *)
(***************************************************************************)

\* Takes mutex_, which the poll thread never keeps.
unregisterSubscription ==
  /\ At(User, "idle")
  /\ Goto(User, "shutdown")
  /\ UNCHANGED <<tr, pollset, object, locals, fault>>

\* Or the thread subscribes to another topic, one that nobody publishes yet: callMaster for
\* it, also under mutex_, while the poll thread may be in start().
subscribe ==
  /\ At(User, "idle")
  /\ tr' = [tr EXCEPT ![Call].link = "new"]
  /\ Goto(User, "socket")
  /\ UNCHANGED <<pollset, object, locals, fault>>

\* TCPSubscribe::shutdown closes tcp_, if there is one.
ShutDown(next) ==
  /\ \/ tcp # NoTransport /\ close(User, tcp, next)
     \/ tcp = NoTransport /\ Goto(User, next) /\ UNCHANGED <<tr, pollset, fault>>
  /\ shut' = shut \cup ({tcp} \ {NoTransport})
  /\ UNCHANGED <<tcp, alive, arg, updating>>

shutdown == At(User, "shutdown") /\ ShutDown("destroy") /\ UNCHANGED erasing

\* subscriptions_.erase: ~TCPSubscribe calls shutdown() again.
destroy == At(User, "destroy") /\ ShutDown("delete") /\ erasing' = TRUE

\* The object is gone, and callMaster makes its transport.
delete ==
  /\ At(User, "delete")
  /\ alive' = FALSE
  /\ tr' = [tr EXCEPT ![Call].link = "new"]
  /\ Goto(User, "socket")
  /\ UNCHANGED <<pollset, tcp, shut, locals, fault>>

UserStep ==
  \/ shutdown \/ destroy \/ delete \/ Connecting(User) \/ onDisconnect(User)

-----------------------------------------------------------------------------
(***************************************************************************)
(* The poll thread: PollSet::update and TransportTCP::socketUpdate.        *)
(***************************************************************************)

\* What poll(2) finds: the state of the connection behind a socket, and NVAL for a descriptor
\* that is not open.
Conditions(t) ==
  (IF tr[t].inbox \/ tr[t].link \in {"ended", "reset"} THEN {"IN"} ELSE {})
    \cup (IF tr[t].link \in {"up", "ended", "reset"} THEN {"OUT"} ELSE {})
    \cup (IF tr[t].link = "reset" THEN {"ERR"} ELSE {})
Polled(fd) ==
  LET owners == {t \in Transports : tr[t].sock = fd}
  IN  IF owners = {} THEN {"ERR"} ELSE UNION {Conditions(t) : t \in owners}

\* update() finds something for the socket of a SocketInfo and calls its transport t.
Dispatch(t) ==
  /\ At(Poller, "wait")
  /\ \E fd \in Fds :
       /\ entry[fd] = t
       /\ revents' = Polled(fd) \cap (events[fd] \cup {"ERR"})
  /\ revents' # {}
  /\ serving' = t /\ pc' = [pc EXCEPT ![Poller] = "update"]
  /\ UNCHANGED <<tr, pollset, object, locals, fault>>

\* socketUpdate that gives close_mutex_ back before it calls the callbacks.
socketUpdateUnlocked ==
  /\ At(Poller, "update")
  /\ Goto(Poller, IF tr[serving].closed THEN "wait" ELSE "read")
  /\ UNCHANGED <<tr, pollset, object, locals, fault>>

\* socketUpdate takes close_mutex_ and keeps it for the callbacks.
socketUpdate ==
  /\ At(Poller, "update")
  /\ IF tr[serving].closed
       THEN Goto(Poller, "wait") /\ UNCHANGED updating
       ELSE Goto(Poller, "read") /\ updating' = serving
  /\ UNCHANGED <<tr, pollset, object, arg, erasing, fault>>

Reads == "IN" \in revents /\ tr[serving].expecting_read

\* The condition for write_cb_, which close() takes away.
Writes == "OUT" \in revents /\ tr[serving].expecting_write /\ ~tr[serving].closed

\* Reading is not expected: an interest that somebody else's enableRead has left on this
\* descriptor is ignored.
readNothing ==
  /\ At(Poller, "read") /\ ~Reads
  /\ Goto(Poller, "write")
  /\ UNCHANGED <<tr, pollset, object, locals, fault>>

\* readMessage, under message_mutex_: a whole message has come ...
readMessage ==
  /\ At(Poller, "read") /\ Reads /\ MayLockMessage(Poller, serving)
  /\ tr[serving].inbox
  /\ tr' = [tr EXCEPT ![serving].inbox = FALSE]
  /\ Goto(Poller, "receive")
  /\ UNCHANGED <<pollset, object, locals, fault>>

\* ... or the end of the stream, and read() closes.
readEnd ==
  /\ At(Poller, "read") /\ Reads /\ MayLockMessage(Poller, serving)
  /\ ~tr[serving].inbox
  /\ close(Poller, serving, "write")
  /\ UNCHANGED <<object, locals>>

\* TCPSubscribe::receive stops at a message that is not one frame, or hands it to the
\* application, which may publish.
receive ==
  /\ At(Poller, "receive") /\ serving # Call
  /\ \/ Stop("frames")
     \/ /\ alive
        /\ \E next \in {"write", "publish"} : Goto(Poller, next)
        /\ UNCHANGED <<tr, pollset, object, locals, fault>>
     \/ ~alive /\ Stop("deleted")

\* TopicManager::publish takes mutex_; then the callback returns.
publish ==
  /\ At(Poller, "publish") /\ ~HoldsMutex
  /\ \/ /\ alive
        /\ Goto(Poller, "write")
        /\ UNCHANGED <<tr, pollset, object, locals, fault>>
     \/ ~alive /\ Stop("deleted")

\* ServiceResponseT::call: the answer of the master; closes the connection.
response ==
  /\ At(Poller, "receive") /\ serving = Call
  /\ close(Poller, Call, "write")
  /\ UNCHANGED <<object, locals>>

\* A socketUpdate that forgets to give close_mutex_ back.
UnlockForgotten == UNCHANGED updating /\ Goto(Poller, "error")

\* The end of the locked part of socketUpdate: close_mutex_ is given back.
Unlock == updating' = NoTransport /\ Goto(Poller, "error")

\* writeMessage, under message_mutex_: the message goes out, and disableWrite takes the
\* interest back ...
writeMessage ==
  /\ At(Poller, "write") /\ Writes /\ MayLockMessage(Poller, serving)
  /\ tr[serving].send_msgs /\ tr[serving].link # "reset"
  /\ tr' = [tr EXCEPT ![serving].send_msgs = FALSE, ![serving].written = TRUE,
                      ![serving].expecting_write = FALSE]
  /\ events' = [events EXCEPT ![tr[serving].sock] = @ \ {"OUT"}]
  /\ Unlock
  /\ UNCHANGED <<entry, object, arg, erasing, fault>>

\* ... or send() fails, and write() closes; an empty queue is a ROS_BREAK.
writeFails ==
  /\ At(Poller, "write") /\ Writes /\ MayLockMessage(Poller, serving)
  /\ tr[serving].send_msgs => tr[serving].link = "reset"
  /\ IF tr[serving].send_msgs
       THEN close(Poller, serving, "write")
       ELSE fault' = "no message" /\ UNCHANGED <<tr, pollset, place>>
  /\ UNCHANGED <<object, locals>>

writeNothing ==
  /\ At(Poller, "write") /\ ~Writes
  /\ Unlock
  /\ UNCHANGED <<tr, pollset, object, arg, erasing, fault>>

\* ERR, HUP and NVAL close the transport.
socketError ==
  /\ At(Poller, "error")
  /\ \/ "ERR" \in revents /\ close(Poller, serving, "wait")
     \/ "ERR" \notin revents /\ Goto(Poller, "wait") /\ UNCHANGED <<tr, pollset, fault>>
  /\ UNCHANGED <<object, locals>>

PollerStep ==
  \/ Connecting(Poller) \/ startDeleted
  \/ socketUpdate \/ readNothing \/ readMessage \/ readEnd \/ receive \/ publish \/ response
  \/ writeMessage \/ writeFails \/ writeNothing \/ socketError
  \/ onDisconnect(Poller) \/ removeConnection

-----------------------------------------------------------------------------
(***************************************************************************)
(* External: the publishers and the master at the other ends.              *)
(***************************************************************************)

LinkChanges(t, from, to) ==
  /\ Running
  /\ tr[t].link \in from
  /\ tr' = [tr EXCEPT ![t].link = to]
  /\ UNCHANGED <<pollset, object, place, locals, fault>>

PeerAccepts(t) == LinkChanges(t, {"connecting"}, "up")
PeerEnds(t) == LinkChanges(t, {"up"}, "ended")
PeerResets(t) == LinkChanges(t, {"connecting", "up", "ended"}, "reset")

\* A publisher sends once it has the options, the master when it has the request.
PeerSends(t) ==
  /\ Running
  /\ tr[t].link = "up" /\ tr[t].written /\ ~tr[t].inbox
  /\ tr' = [tr EXCEPT ![t].inbox = TRUE]
  /\ UNCHANGED <<pollset, object, place, locals, fault>>

Next ==
  \/ unregisterSubscription \/ subscribe \/ UserStep \/ PollerStep
  \/ \E t \in Pubs : start(t)
  \/ \E t \in Transports : Dispatch(t)
  \/ \E t \in Transports : PeerAccepts(t) \/ PeerEnds(t) \/ PeerResets(t) \/ PeerSends(t)

Spec == Init /\ [][Next]_vars

\* The threads go on with what they have begun, and the application's thread gets a
\* close_mutex_ that is free again and again, as it is between two callbacks.
FairSpec == Spec /\ SF_vars(UserStep) /\ WF_vars(PollerStep)

-----------------------------------------------------------------------------
(***************************************************************************)
(* Properties.                                                             *)
(***************************************************************************)

\* Thread a is in connect(), between socket() and the end of addSocket, with t.
Entering(t) == \E a \in Actors : pc[a] \in {"connect"} \cup EnterLabels /\ cur(a) = t

\* The poll set has a closed transport under the number, because shutdown() came between the
\* look at sock_ and addSocket: a connection to a publisher that was never made to read.
Orphan(fd) ==
  /\ entry[fd] \in Pubs /\ shut # {}
  /\ tr[entry[fd]].closed /\ ~tr[entry[fd]].expecting_read

\* The poll set and the sockets of the process agree, however descriptors are reused: an
\* entry belongs to the transport that has the descriptor; an open descriptor is in the poll
\* set unless its connect() is still at work or found no address (and leaks it); and a
\* connection that expects to read is polled for it, although addEvents may also come from a
\* thread whose own connection has been closed since it read sock_.  The one exception is a
\* number that a shutdown() within connect() has left to a closed transport.
SocketsMatch ==
  /\ \A fd \in Fds : entry[fd] # NoTransport => tr[entry[fd]].sock = fd \/ Orphan(fd)
  /\ \A t \in Transports : tr[t].sock # NoFd /\ tr[t].link # "unresolved" =>
       \/ Entering(t) \/ Orphan(tr[t].sock)
       \/ /\ entry[tr[t].sock] = t
          /\ tr[t].expecting_read => "IN" \in events[tr[t].sock]

\* No message of a connection that shutdown() has closed is handed to the application any
\* more: close() waits for the callback that is running.
SilentAfterShutdown ==
  pc[Poller] \in {"receive", "publish"} => serving \notin shut

\* The two ways in which the threads wait for each other.  A message callback that publishes
\* waits for mutex_ while unregisterSubscription waits for the close_mutex_ it runs under ...
PublishCircle ==
  /\ pc[Poller] = "publish"
  /\ pc[User] \in {"shutdown", "destroy", "onDisconnect"}
  /\ updating = tcp /\ ~tr[tcp].closed

\* ... and the master's end of the call comes while the call is being sent.
CallCircle ==
  /\ updating = Call
  /\ \/ pc[Poller] = "read" /\ pc[User] = "enableWrite"
     \/ pc[Poller] = "removeConnection" /\ pc[User] \in {"sendMessage", "enableWrite"}

Circle == PublishCircle \/ CallCircle

\* unregisterSubscription, or subscribe, does not keep mutex_ for ever, unless the process
\* stops or the threads stay in one of the two circles: there is no third one, and no endless
\* chain of callbacks.
UnregisterEnds == []<>(~HoldsMutex \/ Circle \/ ~Running)

(***************************************************************************)
(* What the repository says and the code does not keep: not invariants.    *)
(* The README describes the behaviours that TLC finds against them.        *)
(***************************************************************************)

\* An entry of the poll set belongs to the transport that has the descriptor.
TrackedIsOpen == \A fd \in Fds : entry[fd] # NoTransport => tr[entry[fd]].sock = fd

\* A connection that connect() has made is in the poll set.
ConnectedIsPolled ==
  \A t \in Transports :
    tr[t].link \in {"connecting", "up"} /\ ~Entering(t) => entry[tr[t].sock] = t

\* A descriptor is polled for reading for the sake of the connection that has it.
NoForeignInterest ==
  \A fd \in Fds : entry[fd] # NoTransport /\ "IN" \in events[fd] => tr[entry[fd]].expecting_read

\* The end of one publisher does not touch the connection to another.
OthersStayUp ==
  [][\A t \in Pubs : onDisconnect(Poller) /\ tr[t].link = "up" => ~tr'[t].closed]_vars

\* shutdown() finds a socket to close.
ShutdownFindsSocket == fault # "assert"

\* No callback and no step of start() meets an object that is destroyed.
NoUseAfterDelete == fault # "deleted"

\* When the object is gone its connection is closed.
DroppedIsClosed == ~alive => tcp = NoTransport \/ tr[tcp].closed

\* The threads do not wait for each other.
NoCircle == ~Circle

\* A connect() that has returned false leaves no descriptor open.
FailedIsClosed == \A t \in Transports : tr[t].link \in {"failed", "unresolved"} => tr[t].sock = NoFd
=============================================================================
