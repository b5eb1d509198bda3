----------------------------- MODULE TransportTCP -----------------------------
(***************************************************************************)
(* One connected TransportTCP object (transport_tcp.cpp) in message mode,  *)
(* shared by the poll thread, which enters it through socketUpdate, and by *)
(* user threads, which run the calls of its owner: TCPPublish and          *)
(* TCPSubscribe (pubsub_tcp.hpp), the two service clients or the two       *)
(* service managers (service.hpp).                                         *)
(*                                                                         *)
(* The module keeps what the threads can disturb for one another: the two  *)
(* recursive mutexes close_mutex_ and message_mutex_, the mutex of the     *)
(* owner, the flags expecting_read_ and expecting_write_ against the       *)
(* events in the poll set, the length of send_msgs_, and the callbacks.    *)
(* The bytes of a message are the subject of module Framing; the poll set  *)
(* is reduced to the entry of this socket (see module PollSet).            *)
(*                                                                         *)
(* A recursive mutex is its holder: the only thread that enters one again  *)
(* is the poll thread, below its own socketUpdate.                         *)
(***************************************************************************)
EXTENDS Naturals, Sequences

CONSTANTS
  Users,          \* user threads
  Poller,         \* the poll thread
  Nobody,         \* no holder of a mutex
  Owners,         \* the owners that are considered
  Parts,          \* writeMessage calls that one message takes
  MaxIn           \* bound: messages the peer sends

Actors == Users \cup {Poller}
Calls == {"lock", "unlock", "enlist", "setDisconnectCallback", "enableMessagePass",
          "enableRead", "setMsgCallback", "sendMessage", "wait", "close"}
Labels == {"idle", "next", "called", "addRead", "setRead", "enableWrite", "addWrite", "push",
           "disconnect", "released", "waiting",
           "wait", "update", "read", "readMessage", "msgcb", "readDone", "write",
           "writeMessage", "writeDone", "error", "break", "unexpected"}

\* An owner: the calls its threads make, in order; the readmsg_cb_ it sets; and whether the
\* poll thread has set the transport up in onAccept before any other thread sees it
\* (otherwise connect() has returned, and the script sets it up).
Owner == [script : [Users -> Seq(Calls)],
          readmsg_cb : {"onOptions", "receive", "response", "onReceive", "onResponse"},
          accepted : BOOLEAN]

\* What the calls of an owner keep to.  Threads of the application only publish on, or close,
\* an accepted connection of TCPPublish; those of a service manager bind methods, under its
\* mutex.  Whoever has called connect() sets the transport up before it reads (start(),
\* call()), and sets readmsg_cb_ before it sends.
SetsUp(o) ==
  LET Has(u, i, call) == i \in DOMAIN o.script[u] /\ o.script[u][i] = call
  IN  /\ o.accepted <=> o.readmsg_cb \in {"onOptions", "onReceive"}
      /\ \A u \in Users : \A i \in DOMAIN o.script[u] :
           CASE o.readmsg_cb = "onOptions" -> o.script[u][i] \in {"sendMessage", "close"}
             [] o.readmsg_cb = "onReceive" ->
                  \/ o.script[u][i] = "lock" /\ Has(u, i + 1, "unlock")
                  \/ o.script[u][i] = "unlock" /\ Has(u, i - 1, "lock")
             [] OTHER ->
                  /\ Has(u, i, "enableRead") =>
                       \A v \in Users : \A j \in DOMAIN o.script[v] :
                         Has(v, j, "enableMessagePass") => v = u /\ j < i
                  /\ Has(u, i, "sendMessage") => \E j \in 1..(i - 1) : Has(u, j, "setMsgCallback")

ASSUME TransportAssumption ==
  /\ Poller \notin Users
  /\ Nobody \notin Actors
  /\ \A o \in Owners : o \in Owner /\ SetsUp(o)
  /\ Parts \in Nat \ {0}
  /\ MaxIn \in Nat

VARIABLES
  owner,             \* the owner of the transport
  closed,            \* closed_
  events,            \* the events_ of this socket in the poll set
  tracked,           \* the poll set has an entry for this socket
  expecting_read, expecting_write,
  io_cb,             \* read_cb_ and write_cb_ are set (enableMessagePass sets both)
  msg_cb,            \* readmsg_cb_ is set
  disconnect_cb,     \* disconnect_cb_ is set
  send_msgs,         \* length of send_msgs_
  head,              \* writeMessage calls done for the first message of send_msgs_
  close_mutex, message_mutex,
  app_mutex,         \* connections_mutex_ of TCPPublish, mutex_ of the service classes
  listed,            \* the owner keeps the transport in its list
  setup,             \* Connection::setup of TCPPublish
  pc,                \* where each thread is
  at,                \* the next call in each user's script
  revents,           \* the argument of the socketUpdate that runs
  after,             \* where a thread goes on after disconnect_cb
  inbox,             \* messages of the peer that can be read
  received,          \* messages of the peer, ever
  peer_gone, reset,  \* the peer has closed; the connection is in error
  sent,              \* messages written out completely
  disconnects,       \* calls of disconnect_cb
  done               \* done_ of ServiceClient

state == <<closed, events, tracked, expecting_read, expecting_write, io_cb, msg_cb,
           disconnect_cb, send_msgs, head>>
mutexes == <<close_mutex, message_mutex, app_mutex>>
app == <<listed, setup, disconnects, done>>
control == <<pc, at, revents, after>>
net == <<owner, inbox, received, peer_gone, reset, sent>>
vars == <<state, mutexes, app, control, net>>

Flags == {"IN", "OUT", "ERR"}

\* One type invariant for the transport, its owner, its threads and the connection.
TypeOK ==
  /\ owner \in Owners
  /\ closed \in BOOLEAN /\ tracked \in BOOLEAN /\ events \subseteq {"IN", "OUT"}
  /\ expecting_read \in BOOLEAN /\ expecting_write \in BOOLEAN
  /\ io_cb \in BOOLEAN /\ msg_cb \in BOOLEAN /\ disconnect_cb \in BOOLEAN
  /\ send_msgs \in Nat /\ head \in 0 .. (Parts - 1)
  /\ close_mutex \in Actors \cup {Nobody}
  /\ message_mutex \in Actors \cup {Nobody}
  /\ app_mutex \in Actors \cup {Nobody}
  /\ listed \in BOOLEAN /\ setup \in BOOLEAN /\ done \in BOOLEAN /\ disconnects \in Nat
  /\ pc \in [Actors -> Labels] /\ after \in [Actors -> Labels]
  /\ at \in [Users -> Nat \ {0}]
  /\ revents \subseteq Flags
  /\ inbox \in Nat /\ received \in Nat /\ sent \in Nat
  /\ peer_gone \in BOOLEAN /\ reset \in BOOLEAN

\* TransportTCP::TransportTCP, then either setSocket() and the owner's onAccept, both in
\* the poll thread before any other thread sees the object, or connect().
Init ==
  /\ owner \in Owners
  /\ closed = FALSE /\ tracked = TRUE
  /\ events = IF owner.accepted THEN {"IN"} ELSE {}
  /\ expecting_read = owner.accepted /\ expecting_write = FALSE
  /\ io_cb = owner.accepted /\ msg_cb = owner.accepted /\ disconnect_cb = owner.accepted
  /\ send_msgs = 0 /\ head = 0
  /\ close_mutex = Nobody /\ message_mutex = Nobody /\ app_mutex = Nobody
  /\ listed = owner.accepted /\ setup = FALSE /\ disconnects = 0 /\ done = TRUE
  /\ pc = [a \in Actors |-> IF a = Poller THEN "wait" ELSE "next"]
  /\ after = [a \in Actors |-> "idle"]
  /\ at = [u \in Users |-> 1]
  /\ revents = {}
  /\ inbox = 0 /\ received = 0 /\ sent = 0
  /\ peer_gone = FALSE /\ reset = FALSE

Free(mutex, a) == mutex \in {Nobody, a}
Goto(a, label) == pc' = [pc EXCEPT ![a] = label]

(***************************************************************************)
(* close().                                                                *)
(***************************************************************************)

\* close() that clears disconnect_cb_ before it has copied it.
closeBodyClearsFirst(a, then) ==
  IF closed
    THEN Goto(a, then) /\ UNCHANGED <<state, after>>
    ELSE /\ closed' = TRUE
         /\ tracked' = FALSE
         /\ events' = {}
         /\ disconnect_cb' = FALSE
         /\ io_cb' = FALSE
         /\ Goto(a, then)
         /\ UNCHANGED <<expecting_read, expecting_write, msg_cb, send_msgs, head, after>>

\* close() that neither looks at closed_ nor clears disconnect_cb_.
closeBodyAgain(a, then) ==
  /\ closed' = TRUE
  /\ tracked' = FALSE
  /\ events' = {}
  /\ io_cb' = FALSE
  /\ IF disconnect_cb
       THEN Goto(a, "disconnect") /\ after' = [after EXCEPT ![a] = then]
       ELSE Goto(a, then) /\ UNCHANGED after
  /\ UNCHANGED <<expecting_read, expecting_write, msg_cb, disconnect_cb, send_msgs, head>>

\* The body of close() under close_mutex_; disconnect_cb_ is moved to a local and called
\* once the scope of the lock is left.  "then" is where the caller goes on.
closeBody(a, then) ==
  IF closed
    THEN Goto(a, then) /\ UNCHANGED <<state, after>>
    ELSE /\ closed' = TRUE
         /\ tracked' = FALSE                 \* delSocket, close_socket, sock_ = -1
         /\ events' = {}
         /\ disconnect_cb' = FALSE
         /\ io_cb' = FALSE
         /\ IF disconnect_cb
              THEN Goto(a, "disconnect") /\ after' = [after EXCEPT ![a] = then]
              ELSE Goto(a, then) /\ UNCHANGED after
         /\ UNCHANGED <<expecting_read, expecting_write, msg_cb, send_msgs, head>>

\* disconnect_cb(): the owner removes the transport under its own mutex
\* (onDisconnect of TCPPublish and the service managers, removeConnection); TCPSubscribe's
\* onDisconnect calls close() again, which returns at once, and takes no mutex.
disconnectCallback(a) ==
  /\ pc[a] = "disconnect"
  /\ owner.readmsg_cb # "receive" => Free(app_mutex, Nobody)
  /\ listed' = FALSE
  /\ disconnects' = disconnects + 1
  /\ Goto(a, after[a])
  /\ UNCHANGED <<state, mutexes, setup, done, at, revents, after, net>>

(***************************************************************************)
(* The calls of a user thread.                                             *)
(***************************************************************************)

Done(u) == pc' = [pc EXCEPT ![u] = "next"] /\ at' = [at EXCEPT ![u] = @ + 1]

\* The user thread begins the next call of its script.
Calling(u, call) ==
  /\ pc[u] = "next"
  /\ at[u] <= Len(owner.script[u])
  /\ owner.script[u][at[u]] = call

\* MultiServiceClient::call takes mutex_ for its whole body, as does bind() of a server.
lock(u) ==
  /\ Calling(u, "lock")
  /\ app_mutex = Nobody
  /\ app_mutex' = u
  /\ Done(u)
  /\ UNCHANGED <<state, close_mutex, message_mutex, app, revents, after, net>>

unlock(u) ==
  /\ Calling(u, "unlock")
  /\ app_mutex' = Nobody
  /\ Done(u)
  /\ UNCHANGED <<state, close_mutex, message_mutex, app, revents, after, net>>

\* outgoing_calls_.push_back.
enlist(u) ==
  /\ Calling(u, "enlist")
  /\ listed' = TRUE
  /\ Done(u)
  /\ UNCHANGED <<state, mutexes, setup, disconnects, done, revents, after, net>>

setDisconnectCallback(u) ==
  /\ Calling(u, "setDisconnectCallback")
  /\ disconnect_cb' = TRUE
  /\ Done(u)
  /\ UNCHANGED <<closed, events, tracked, expecting_read, expecting_write, io_cb, msg_cb,
                 send_msgs, head, mutexes, app, revents, after, net>>

enableMessagePass(u) ==
  /\ Calling(u, "enableMessagePass")
  /\ message_mutex = Nobody
  /\ io_cb' = TRUE
  /\ Done(u)
  /\ UNCHANGED <<closed, events, tracked, expecting_read, expecting_write, msg_cb,
                 disconnect_cb, send_msgs, head, mutexes, app, revents, after, net>>

setMsgCallback(u) ==
  /\ Calling(u, "setMsgCallback")
  /\ message_mutex = Nobody
  /\ msg_cb' = TRUE
  /\ Done(u)
  /\ UNCHANGED <<closed, events, tracked, expecting_read, expecting_write, io_cb,
                 disconnect_cb, send_msgs, head, mutexes, app, revents, after, net>>

\* enableRead: closed_ is checked under close_mutex_; the rest runs without it.
enableReadCheck(u) ==
  /\ Calling(u, "enableRead")
  /\ close_mutex = Nobody
  /\ IF closed \/ expecting_read
       THEN Done(u)
       ELSE Goto(u, "addRead") /\ UNCHANGED at
  /\ UNCHANGED <<state, mutexes, app, revents, after, net>>

enableReadAdd(u) ==
  /\ pc[u] = "addRead"
  /\ events' = IF tracked THEN events \cup {"IN"} ELSE events
  /\ Goto(u, "setRead")
  /\ UNCHANGED <<closed, tracked, expecting_read, expecting_write, io_cb, msg_cb,
                 disconnect_cb, send_msgs, head, mutexes, app, at, revents, after, net>>

enableReadFlag(u) ==
  /\ pc[u] = "setRead"
  /\ expecting_read' = TRUE
  /\ Done(u)
  /\ UNCHANGED <<closed, events, tracked, expecting_write, io_cb, msg_cb,
                 disconnect_cb, send_msgs, head, mutexes, app, revents, after, net>>

\* The owner sends: TCPPublish only on a connection whose options have arrived.
MaySend == owner.accepted => setup

\* sendFrames on an empty queue that does not ask for POLLOUT.
sendFramesForgetful(u) ==
  /\ Calling(u, "sendMessage")
  /\ MaySend
  /\ message_mutex = Nobody
  /\ send_msgs' = send_msgs + 1
  /\ Done(u)
  /\ UNCHANGED <<closed, events, tracked, expecting_read, expecting_write, io_cb, msg_cb,
                 disconnect_cb, head, mutexes, app, revents, after, net>>

\* sendFrames with the mutex taken only for the push.
sendFramesUnlocked(u) ==
  /\ Calling(u, "sendMessage")
  /\ MaySend
  /\ message_mutex = Nobody
  /\ IF send_msgs = 0
       THEN Goto(u, "enableWrite") /\ UNCHANGED <<send_msgs, at>>
       ELSE send_msgs' = send_msgs + 1 /\ Done(u)
  /\ UNCHANGED <<closed, events, tracked, expecting_read, expecting_write, io_cb, msg_cb,
                 disconnect_cb, head, mutexes, app, revents, after, net>>

\* sendFrames: one critical section of message_mutex_.  On an empty queue it asks for
\* POLLOUT first, which takes close_mutex_ inside message_mutex_.
sendFrames(u) ==
  /\ Calling(u, "sendMessage")
  /\ MaySend
  /\ message_mutex = Nobody
  /\ IF send_msgs = 0
       THEN /\ message_mutex' = u
            /\ Goto(u, "enableWrite")
            /\ UNCHANGED <<send_msgs, at>>
       ELSE /\ send_msgs' = send_msgs + 1
            /\ Done(u)
            /\ UNCHANGED message_mutex
  /\ UNCHANGED <<closed, events, tracked, expecting_read, expecting_write, io_cb, msg_cb,
                 disconnect_cb, head, close_mutex, app_mutex, app, revents, after, net>>

\* publish() looks at Connection::setup and leaves out a connection without options.
publishSkips(u) ==
  /\ Calling(u, "sendMessage")
  /\ ~MaySend
  /\ Done(u)
  /\ UNCHANGED <<state, mutexes, app, revents, after, net>>

enableWriteCheck(u) ==
  /\ pc[u] = "enableWrite"
  /\ close_mutex = Nobody
  /\ Goto(u, IF closed \/ expecting_write THEN "push" ELSE "addWrite")
  /\ UNCHANGED <<state, mutexes, app, at, revents, after, net>>

\* addEvents and the flag.  Only holders of message_mutex_ touch POLLOUT, so the two
\* assignments are seen together.
enableWriteAdd(u) ==
  /\ pc[u] = "addWrite"
  /\ events' = IF tracked THEN events \cup {"OUT"} ELSE events
  /\ expecting_write' = TRUE
  /\ Goto(u, "push")
  /\ UNCHANGED <<closed, tracked, expecting_read, io_cb, msg_cb, disconnect_cb, send_msgs,
                 head, mutexes, app, at, revents, after, net>>

sendFramesPush(u) ==
  /\ pc[u] = "push"
  /\ send_msgs' = send_msgs + 1
  /\ message_mutex' = IF message_mutex = u THEN Nobody ELSE message_mutex
  /\ Done(u)
  /\ UNCHANGED <<closed, events, tracked, expecting_read, expecting_write, io_cb, msg_cb,
                 disconnect_cb, head, close_mutex, app_mutex, app, revents, after, net>>

\* ServiceClient::call, once the request is sent: under mutex_ it clears done_ and begins to
\* wait on cv_ ...
wait(u) ==
  /\ Calling(u, "wait")
  /\ app_mutex = Nobody
  /\ done' = FALSE
  /\ Goto(u, "waiting")
  /\ UNCHANGED <<state, mutexes, listed, setup, disconnects, at, revents, after, net>>

\* ... until it is set.
waitReturn(u) ==
  /\ pc[u] = "waiting"
  /\ done
  /\ Done(u)
  /\ UNCHANGED <<state, mutexes, app, revents, after, net>>

\* close() from a user thread.  The critical section is one step: the poll set has its
\* own mutexes, which nobody holds for long (module PollSet).
closeCall(u) ==
  /\ Calling(u, "close")
  /\ closed \/ close_mutex = Nobody
  /\ closeBody(u, "released")
  /\ UNCHANGED <<mutexes, app, at, revents, net>>

closeReturn(u) ==
  /\ pc[u] = "released"
  /\ Done(u)
  /\ UNCHANGED <<state, mutexes, app, revents, after, net>>

UserStep(u) ==
  \/ lock(u) \/ unlock(u) \/ enlist(u)
  \/ setDisconnectCallback(u) \/ enableMessagePass(u) \/ setMsgCallback(u)
  \/ enableReadCheck(u) \/ enableReadAdd(u) \/ enableReadFlag(u)
  \/ sendFrames(u) \/ publishSkips(u)
  \/ enableWriteCheck(u) \/ enableWriteAdd(u) \/ sendFramesPush(u)
  \/ wait(u) \/ waitReturn(u)
  \/ closeCall(u) \/ closeReturn(u)
  \/ disconnectCallback(u)

(***************************************************************************)
(* The poll thread: socketUpdate and what it calls.                        *)
(***************************************************************************)

\* The conditions of the socket that poll(2) reports.
Conditions ==
  (IF inbox > 0 \/ peer_gone \/ reset THEN {"IN"} ELSE {}) \cup {"OUT"}
    \cup (IF reset THEN {"ERR"} ELSE {})

\* PollSet::update has found something for this socket and is about to call its func.
Dispatch ==
  /\ pc[Poller] = "wait"
  /\ tracked
  /\ LET found == Conditions \cap (events \cup {"ERR"})
     IN found # {} /\ revents' = found
  /\ Goto(Poller, "update")
  /\ UNCHANGED <<state, mutexes, app, at, after, net>>

\* socketUpdate that gives close_mutex_ back before it calls the callbacks.
socketUpdateUnlocked ==
  /\ pc[Poller] = "update"
  /\ close_mutex = Nobody
  /\ Goto(Poller, IF closed THEN "wait" ELSE "read")
  /\ UNCHANGED <<state, mutexes, app, at, revents, after, net>>

\* socketUpdate: takes close_mutex_ and keeps it for the callbacks.
socketUpdate ==
  /\ pc[Poller] = "update"
  /\ close_mutex = Nobody
  /\ IF closed
       THEN Goto(Poller, "wait") /\ UNCHANGED close_mutex
       ELSE Goto(Poller, "read") /\ close_mutex' = Poller
  /\ UNCHANGED <<state, message_mutex, app_mutex, app, at, revents, after, net>>

socketUpdateRead ==
  /\ pc[Poller] = "read"
  /\ Goto(Poller, IF "IN" \in revents /\ expecting_read /\ io_cb THEN "readMessage"
                                                                 ELSE "write")
  /\ UNCHANGED <<state, mutexes, app, at, revents, after, net>>

\* readMessage: the bytes that arrived complete a message, and readmsg_cb_ is called
\* (an empty boost::function throws and nobody catches).
readMessage ==
  /\ pc[Poller] = "readMessage"
  /\ message_mutex = Nobody
  /\ inbox > 0
  /\ message_mutex' = Poller
  /\ inbox' = inbox - 1
  /\ Goto(Poller, IF msg_cb THEN "msgcb" ELSE "break")
  /\ UNCHANGED <<state, close_mutex, app_mutex, app, at, revents, after,
                 owner, received, peer_gone, reset, sent>>

\* readMessage: recv() gives 0 or an error, and read() closes the transport.
readClosed ==
  /\ pc[Poller] = "readMessage"
  /\ message_mutex = Nobody
  /\ inbox = 0
  /\ peer_gone \/ reset
  /\ message_mutex' = Poller
  /\ closeBody(Poller, "readDone")
  /\ UNCHANGED <<close_mutex, app_mutex, app, at, revents, net>>

\* onOptions that goes on reading.
onOptionsReading ==
  /\ pc[Poller] = "msgcb"
  /\ owner.readmsg_cb = "onOptions"
  /\ app_mutex = Nobody
  /\ setup' = (setup \/ listed)
  /\ Goto(Poller, "readDone")
  /\ UNCHANGED <<state, mutexes, listed, disconnects, done, at, revents, after, net>>

\* readmsg_cb_ of TCPPublish: onOptions, under connections_mutex_.  It stops reading for
\* good, and breaks if the options of a connection arrive twice.
onOptions ==
  /\ pc[Poller] = "msgcb"
  /\ owner.readmsg_cb = "onOptions"
  /\ app_mutex = Nobody
  /\ expecting_read' = FALSE
  /\ events' = events \ {"IN"}
  /\ setup' = (setup \/ listed)
  /\ Goto(Poller, IF listed /\ setup THEN "break" ELSE "readDone")
  /\ UNCHANGED <<closed, tracked, expecting_write, io_cb, msg_cb, disconnect_cb, send_msgs,
                 head, mutexes, listed, disconnects, done, at, revents, after, net>>

\* readmsg_cb_ of TCPSubscribe: hands the message to the application.
receive ==
  /\ pc[Poller] = "msgcb"
  /\ owner.readmsg_cb = "receive"
  /\ Goto(Poller, "readDone")
  /\ UNCHANGED <<state, mutexes, app, at, revents, after, net>>

\* readmsg_cb_ of a service call: ServiceResponseT::call, which closes the transport.
response ==
  /\ pc[Poller] = "msgcb"
  /\ owner.readmsg_cb = "response"
  /\ closeBody(Poller, "readDone")
  /\ UNCHANGED <<mutexes, app, at, revents, net>>

\* readmsg_cb_ of ServiceClient: onResponse, under mutex_, breaks if nobody waits.
onResponse ==
  /\ pc[Poller] = "msgcb"
  /\ owner.readmsg_cb = "onResponse"
  /\ app_mutex = Nobody
  /\ done' = TRUE
  /\ Goto(Poller, IF done THEN "unexpected" ELSE "readDone")
  /\ UNCHANGED <<state, mutexes, listed, setup, disconnects, at, revents, after, net>>

\* readmsg_cb_ of a service manager: onReceive, under mutex_, sends the response (sendFrames
\* in the poll thread, which has both mutexes of the transport), or knows no such method.
onReceive ==
  /\ pc[Poller] = "msgcb"
  /\ owner.readmsg_cb = "onReceive"
  /\ app_mutex = Nobody
  /\ \/ /\ send_msgs' = send_msgs + 1
        /\ events' = events \cup {"OUT"} /\ expecting_write' = TRUE
     \/ UNCHANGED <<send_msgs, events, expecting_write>>
  /\ Goto(Poller, "readDone")
  /\ UNCHANGED <<closed, tracked, expecting_read, io_cb, msg_cb, disconnect_cb, head,
                 mutexes, app, at, revents, after, net>>

readDone ==
  /\ pc[Poller] = "readDone"
  /\ message_mutex' = Nobody
  /\ Goto(Poller, "write")
  /\ UNCHANGED <<state, close_mutex, app_mutex, app, at, revents, after, net>>

socketUpdateWrite ==
  /\ pc[Poller] = "write"
  /\ IF "OUT" \in revents /\ expecting_write /\ io_cb
       THEN Goto(Poller, "writeMessage") /\ UNCHANGED close_mutex
       ELSE /\ close_mutex' = IF close_mutex = Poller THEN Nobody ELSE close_mutex
            /\ Goto(Poller, "error")
  /\ UNCHANGED <<state, message_mutex, app_mutex, app, at, revents, after, net>>

\* The part of the first message that comes next has gone out.  "emptied" says what an
\* empty queue does to the interest in POLLOUT.
partWritten(emptied) ==
  IF head + 1 < Parts
    THEN head' = head + 1 /\ UNCHANGED <<send_msgs, sent, events, expecting_write>>
    ELSE /\ head' = 0
         /\ send_msgs' = send_msgs - 1
         /\ sent' = sent + 1
         /\ IF send_msgs = 1
              THEN emptied
              ELSE UNCHANGED <<events, expecting_write>>

disableWrite == events' = events \ {"OUT"} /\ expecting_write' = FALSE

\* disableWrite that forgets the poll set.
disableWriteFlag == expecting_write' = FALSE /\ UNCHANGED events

\* writeFrame that leaves POLLOUT on when the queue is drained.
writeFrameEager == partWritten(disableWriteFlag)

\* writeFrame: after the last part the message leaves the queue, and an empty queue
\* stops asking for POLLOUT.
writeFrame == partWritten(disableWrite)

\* writeMessage, under message_mutex_.
writeMessage ==
  /\ pc[Poller] = "writeMessage"
  /\ message_mutex = Nobody
  /\ ~reset
  /\ IF send_msgs = 0
       THEN /\ Goto(Poller, "break")                    \* ROS_BREAK
            /\ UNCHANGED <<head, send_msgs, sent, events, expecting_write>>
       ELSE /\ writeFrame
            /\ Goto(Poller, "writeDone")
  /\ UNCHANGED <<closed, tracked, expecting_read, io_cb, msg_cb,
                 disconnect_cb, mutexes, app, at, revents, after,
                 owner, inbox, received, peer_gone, reset>>

\* writeMessage: send() fails, and both write() and writeMessage close the transport.
writeFails ==
  /\ pc[Poller] = "writeMessage"
  /\ message_mutex = Nobody
  /\ send_msgs > 0
  /\ reset
  /\ message_mutex' = Poller
  /\ closeBody(Poller, "writeDone")
  /\ UNCHANGED <<close_mutex, app_mutex, app, at, revents, net>>

\* The end of the locked part of socketUpdate.
writeDone ==
  /\ pc[Poller] = "writeDone"
  /\ message_mutex' = IF message_mutex = Poller THEN Nobody ELSE message_mutex
  /\ close_mutex' = IF close_mutex = Poller THEN Nobody ELSE close_mutex
  /\ Goto(Poller, "error")
  /\ UNCHANGED <<state, app_mutex, app, at, revents, after, net>>

\* ERR, HUP or NVAL closes the transport, with no mutex of its own held any more.
socketUpdateError ==
  /\ pc[Poller] = "error"
  /\ IF "ERR" \in revents
       THEN (closed \/ close_mutex = Nobody) /\ closeBody(Poller, "wait")
       ELSE Goto(Poller, "wait") /\ UNCHANGED <<state, after>>
  /\ UNCHANGED <<mutexes, app, at, revents, net>>

PollerStep ==
  \/ Dispatch \/ socketUpdate \/ socketUpdateRead
  \/ readMessage \/ readClosed \/ onOptions \/ receive \/ response \/ onResponse \/ onReceive
  \/ readDone
  \/ socketUpdateWrite \/ writeMessage \/ writeFails \/ writeDone
  \/ socketUpdateError \/ disconnectCallback(Poller)

(***************************************************************************)
(* The peer.                                                               *)
(***************************************************************************)

\* A subscriber that was accepted sends its options at once; a publisher or a service
\* answers only what it has received.
PeerSends ==
  /\ ~peer_gone /\ ~closed
  /\ received < MaxIn
  /\ owner.accepted \/ sent > received
  /\ inbox' = inbox + 1
  /\ received' = received + 1
  /\ UNCHANGED <<state, mutexes, app, control, owner, peer_gone, reset, sent>>

PeerCloses ==
  /\ ~peer_gone
  /\ peer_gone' = TRUE
  /\ UNCHANGED <<state, mutexes, app, control, owner, inbox, received, reset, sent>>

\* The connection was refused, or the peer answered what we sent with a reset.
PeerResets ==
  /\ ~reset
  /\ peer_gone
  /\ reset' = TRUE
  /\ UNCHANGED <<state, mutexes, app, control, owner, inbox, received, peer_gone, sent>>

\* Every script has ended and the poll thread has nothing to do for this socket.
Quiet ==
  /\ \A u \in Users : pc[u] = "next" /\ at[u] > Len(owner.script[u])
  /\ pc[Poller] = "wait"
  /\ UNCHANGED vars

Next ==
  \/ \E u \in Users : UserStep(u)
  \/ PollerStep
  \/ PeerSends \/ PeerCloses \/ PeerResets
  \/ Quiet

Spec == Init /\ [][Next]_vars

\* The poll thread runs, and the user threads go through their calls; nobody has to begin
\* close(), and the peer does what it likes.
FairSpec ==
  /\ Spec
  /\ WF_vars(PollerStep)
  /\ \A u \in Users : WF_vars(UserStep(u) /\ ~Calling(u, "close"))

(***************************************************************************)
(* Properties.                                                             *)
(***************************************************************************)

\* The mutex that a thread waits for in its present step, with the thread that has it.
Blocker(a) ==
  LET needsMessage == \/ pc[a] = "readMessage" \/ pc[a] = "writeMessage"
                      \/ a \in Users /\ \/ Calling(a, "enableMessagePass")
                                        \/ Calling(a, "setMsgCallback")
                                        \/ Calling(a, "sendMessage") /\ MaySend
      needsClose == \/ pc[a] = "update" \/ pc[a] = "enableWrite"
                    \/ pc[a] = "error" /\ "ERR" \in revents /\ ~closed
                    \/ a \in Users /\ Calling(a, "enableRead")
                    \/ a \in Users /\ Calling(a, "close") /\ ~closed
      needsApp == \/ pc[a] = "disconnect" /\ owner.readmsg_cb # "receive"
                  \/ pc[a] = "msgcb" /\ owner.readmsg_cb \notin {"receive", "response"}
                  \/ a \in Users /\ (Calling(a, "lock") \/ Calling(a, "wait"))
  IN  (IF needsMessage THEN {message_mutex} ELSE {})
        \cup (IF needsClose THEN {close_mutex} ELSE {})
        \cup (IF needsApp THEN {app_mutex} ELSE {})

\* The transport was accepted: a connection of TCPPublish or of a service manager.
Accepted == owner.accepted

\* No set of threads waits for one another in a circle over close_mutex_, message_mutex_
\* and the owner's mutex, for an accepted connection.  That of a publisher does not read any
\* more when sendFrames takes close_mutex_ inside message_mutex_, and a service manager sends
\* in the poll thread, which has close_mutex_.  The other owners read while they send, and
\* there is a circle: see DisconnectReported.
NoCircularWait ==
  Accepted => ~ \E S \in SUBSET Actors :
      S # {} /\ \A a \in S : Blocker(a) \cap S # {}

\* Three ROS_BREAKs and calls are never reached: "Asked to write message, but no messages
\* left" in writeMessage, "Told to setup messages twice" in onOptions, and the delivery of a
\* message to an owner that has not set its callback (readmsg_cb_ in readFrame).  The
\* breaks on a transport without enableMessagePass are not in the model.
NeverBreaks == pc[Poller] # "break"

\* send() and recv() are only ever called on a socket that is open: close_mutex_ is held
\* from the check of closed_ on, and close() takes the callbacks away.
IoOnOpenSocket == pc[Poller] \in {"readMessage", "writeMessage"} => ~closed

\* While nobody is in the middle of a send, the flag, the poll set and the queue agree:
\* POLLOUT is asked for exactly when there is something to write.
WriteInterest ==
  message_mutex = Nobody /\ ~closed =>
    /\ expecting_write <=> send_msgs > 0
    /\ expecting_write <=> "OUT" \in events

\* disconnect_cb_ runs at most once, whichever threads close the transport.
DisconnectOnce == disconnects <= 1

\* What a publisher or a service manager hands to a connection that stays up is written out,
\* and the queue drains.
QueueDrains == Accepted /\ send_msgs > 0 ~> (send_msgs = 0 \/ closed)

\* A publisher, or a service manager, forgets a connection that was closed, by whatever thread.
ClosedIsForgotten == Accepted /\ closed ~> ~listed

\* The disconnect callback runs when the remote host has gone while the transport, not closed
\* yet, was reading and the callback was set.
DisconnectReported ==
  (peer_gone /\ disconnect_cb /\ expecting_read /\ ~closed) ~> disconnects > 0

(***************************************************************************)
(* What the repository says and the code does not keep: not invariants.    *)
(* The README describes the behaviours that TLC finds against them.        *)
(***************************************************************************)

\* ServiceClient::onResponse never says "done_ is not false; unexpected request?" to the
\* response that the client has asked for.
ResponseIsExpected == pc[Poller] # "unexpected"

\* ServiceClient::call returns.
CallReturns == \A u \in Users : pc[u] = "waiting" ~> pc[u] = "next"
=============================================================================
