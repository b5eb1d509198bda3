-------------------------- MODULE TCPSubscribeProofs --------------------------
(***************************************************************************)
(* A subscription over TCP with any number of publishers and descriptors   *)
(* (module TCPSubscribe): the sockets of the process against the poll set, *)
(* and the callbacks against shutdown().                                   *)
(***************************************************************************)
EXTENDS TCPSubscribe, WellFoundedInduction, TLAPS

\* A connection that is open, as far as the kernel is concerned.
Open == {"connecting", "up", "ended", "reset"}

\* The steps of socketUpdate below close_mutex_.
LockedLabels == {"read", "receive", "publish", "write"}

\* The steps of socketUpdate.
Serving == LockedLabels \cup {"update", "error", "onDisconnect", "removeConnection"}

\* A thread is in initializeSocket with t.
Registering(t) == \E a \in Actors : pc[a] \in EnterLabels /\ cur(a) = t

\* Where the threads are, what the poll thread is about, and the close_mutex_ that it holds.
Places ==
  /\ pc[Poller] = "wait" <=> serving = NoTransport
  /\ pc[Poller] \in ConnectLabels => serving \in Pubs
  /\ pc[Poller] \in LockedLabels => updating = serving
  /\ updating # NoTransport =>
       updating = serving /\ pc[Poller] \in LockedLabels \cup {"onDisconnect", "removeConnection"}

\* A transport that update() has found in the poll set was open, and connect() is over; while
\* the poll thread reads from it, nobody else can close it.
Served ==
  /\ pc[Poller] \in Serving => tr[serving].link \in Open \cup {"closed"} /\ ~Registering(serving)
  /\ pc[Poller] \in {"read", "receive", "publish"} => tr[serving].link \in Open

\* Which connections have been begun.
Begun ==
  /\ pc[User] \in {"idle", "shutdown", "destroy", "delete", "onDisconnect"} =>
       tr[Call].link = "none"
  /\ tcp = NoTransport => \A t \in Pubs : tr[t].link = "none"
  /\ \A a \in Actors : pc[a] = "onDisconnect" => tcp # NoTransport
  /\ pc[User] = "onDisconnect" => shut # {}

\* How far the thread that makes a connection has come with it.
Making ==
  /\ \A a \in Actors :
       /\ At(a, "socket") => tr[cur(a)].link = "new" /\ tr[cur(a)].sock = NoFd
       /\ At(a, "connect") =>
            tr[cur(a)].link = "closed" \/ (tr[cur(a)].link = "new" /\ tr[cur(a)].sock # NoFd)
       /\ pc[a] \in EnterLabels =>
            /\ tr[cur(a)].link \in Open \cup {"closed"} /\ ~tr[cur(a)].expecting_read
            /\ tr[cur(a)].closed => shut # {} /\ cur(a) \in Pubs
       /\ pc[a] \in CallLabels => tr[cur(a)].link \notin {"none", "new"}
       /\ pc[a] \in {"addSocket", "addRead", "addWrite"} =>
            arg[a] = tr[cur(a)].sock \/ tr[cur(a)].sock = NoFd
  /\ \A t \in Transports : tr[t].link = "new" /\ tr[t].sock # NoFd =>
       \E a \in Actors : pc[a] = "connect" /\ cur(a) = t

\* The life of one connection.
Life ==
  \A t \in Transports :
    /\ tr[t].closed => tr[t].link \in {"closed", "failed"}
    /\ tr[t].link = "closed" => tr[t].closed
    /\ tr[t].link \in {"none", "closed", "failed"} => tr[t].sock = NoFd
    /\ tr[t].link \in {"none", "new"} => ~tr[t].expecting_read

\* A connection to a publisher that shutdown() has closed and that will not read any more.
Left(t) ==
  /\ t \in Pubs /\ shut # {} /\ tr[t].closed /\ ~tr[t].expecting_read
  /\ \A a \in Actors : pc[a] = "addRead" => cur(a) # t
Lost(s) == entry[s] # NoTransport /\ Left(entry[s])

\* The poll set knows the connection t under its descriptor, or will: for reading, if it expects
\* to read.
Tracked(t) ==
  \/ Registering(t) \/ Lost(tr[t].sock)
  \/ entry[tr[t].sock] = t /\ (tr[t].expecting_read => "IN" \in events[tr[t].sock])

\* Descriptors: no two connections share one, and the poll set has those of open connections.
Descriptors ==
  /\ \A t, v \in Transports : tr[t].sock # NoFd /\ tr[t].sock = tr[v].sock => t = v
  /\ \A s \in Slots : entry[s] # NoTransport =>
       tr[entry[s]].link \in Open \cup {"closed"} /\ ~Registering(entry[s])
  /\ \A fd \in Fds : entry[fd] # NoTransport => tr[entry[fd]].sock = fd \/ Lost(fd)
  /\ \A t \in Transports : tr[t].link \in Open => tr[t].sock # NoFd /\ Tracked(t)

\* What shutdown() has found is closed.
ShutIsClosed == Running => \A t \in shut : tr[t].closed

IndInv ==
  /\ TypeOK /\ Places /\ Served /\ Begun /\ Making /\ Life /\ Descriptors /\ ShutIsClosed
  /\ SilentAfterShutdown
-----------------------------------------------------------------------------
\* What a step may do to connection t and to the poll set.
Others(t) == tr' \in [Transports -> Transport] /\ \A v \in Transports \ {t} : tr'[v] = tr[v]
SameSock(t) == tr'[t].sock = tr[t].sock
SameLink(t) == tr'[t].link = tr[t].link /\ tr'[t].closed = tr[t].closed
SameReading(t) == tr'[t].expecting_read = tr[t].expecting_read
Same(t) == SameSock(t) /\ SameLink(t) /\ SameReading(t)

\* No entry changes, and no interest in POLLIN is lost.
PollSetStays ==
  /\ entry' = entry /\ events' \in [Slots -> SUBSET {"IN", "OUT"}]
  /\ \A s \in Slots : "IN" \in events[s] => "IN" \in events'[s]

\* A thread that is at one of the labels with t goes on.
By(t, labels) ==
  \E a \in Actors : /\ pc[a] \in labels /\ cur(a) = t
                    /\ fault' # "no" \/ pc'[a] \notin labels

Touched(t) == Others(t) /\ Same(t) /\ PollSetStays
StartsReading(t) ==
  /\ Others(t) /\ SameSock(t) /\ SameLink(t) /\ PollSetStays
  /\ tr[t].link \notin {"none", "new"}
  /\ \E a \in Actors : pc[a] = "addRead" /\ cur(a) = t
  /\ tr[t].sock # NoFd /\ entry[tr[t].sock] # NoTransport => "IN" \in events'[tr[t].sock]
LinkMoves(t) ==
  /\ Others(t) /\ SameSock(t) /\ SameReading(t) /\ tr'[t].closed = tr[t].closed /\ PollSetStays
  /\ tr[t].link \in Open /\ tr'[t].link \in Open
Born(t) ==
  /\ Others(t) /\ SameSock(t) /\ SameReading(t) /\ tr'[t].closed = tr[t].closed /\ PollSetStays
  /\ tr[t].link = "none" /\ tr'[t].link = "new"
  /\ IF t = Call THEN pc'[User] = "socket" ELSE tcp' = t
GetsSocket(t) ==
  /\ Others(t) /\ SameLink(t) /\ SameReading(t) /\ PollSetStays
  /\ tr[t].link = "new" /\ tr[t].sock = NoFd /\ tr'[t].sock \in FreeFds
  /\ \E a \in Actors : pc[a] = "socket" /\ cur(a) = t /\ pc'[a] = "connect" /\ cur(a)' = t
Fails(t) ==
  /\ Others(t) /\ SameReading(t) /\ PollSetStays
  /\ tr[t].link = "new" /\ tr'[t].link = "failed" /\ tr'[t].sock = NoFd
  /\ By(t, {"socket"})
Strands(t) ==
  /\ Others(t) /\ SameSock(t) /\ SameReading(t) /\ tr'[t].closed = tr[t].closed /\ PollSetStays
  /\ tr[t].link = "new" /\ tr'[t].link = "unresolved" /\ By(t, {"connect"})
Dials(t) ==
  /\ Others(t) /\ SameSock(t) /\ SameReading(t) /\ tr'[t].closed = tr[t].closed /\ PollSetStays
  /\ tr[t].link = "new" /\ tr'[t].link = "connecting" /\ tr[t].sock # NoFd
  /\ \E a \in Actors : pc[a] = "connect" /\ cur(a) = t
                       /\ pc'[a] = "initializeSocket" /\ cur(a)' = t
Joins(t) ==
  /\ tr' = tr
  /\ \E a \in Actors :
       /\ pc[a] = "addSocket" /\ cur(a) = t /\ pc'[a] \notin EnterLabels
       /\ \/ /\ entry[arg[a]] = NoTransport
             /\ entry' = [entry EXCEPT ![arg[a]] = t] /\ events' = [events EXCEPT ![arg[a]] = {}]
          \/ entry[arg[a]] # NoTransport /\ entry' = entry /\ events' = events
IsClosed(t) ==
  /\ Others(t) /\ SameReading(t)
  /\ ~tr[t].closed /\ tr[t].sock \in Fds
  /\ tr'[t].closed /\ tr'[t].sock = NoFd /\ tr'[t].link = "closed"
  /\ entry' = [entry EXCEPT ![tr[t].sock] = NoTransport]
  /\ events' = [events EXCEPT ![tr[t].sock] = {}]
  /\ updating = t => pc'[Poller] \notin {"read", "receive", "publish"}
  /\ Registering(t) => shut' # {} /\ t \in Pubs
Idle == tr' = tr /\ PollSetStays

ConnStep ==
  \/ Idle
  \/ \E t \in Transports :
       \/ Touched(t) \/ StartsReading(t) \/ LinkMoves(t) \/ Born(t) \/ GetsSocket(t)
       \/ Fails(t) \/ Strands(t) \/ Dials(t) \/ Joins(t) \/ IsClosed(t)

\* The steps by what they disturb.
Begins == unregisterSubscription \/ subscribe \/ delete
Closes(a) ==
  \/ a = User /\ (shutdown \/ destroy)
  \/ a = Poller /\ (readEnd \/ response \/ writeFails \/ socketError)
  \/ onDisconnect(a)
Makes(a) == socket(a) \/ connect(a) \/ setDisconnectCallback(a)
Enters(a) == initializeSocket(a) \/ setNonBlocking(a) \/ takeSock(a) \/ addSocket(a)
Enables(a) == enableRead(a) \/ enableReadAdd(a) \/ enableWrite(a) \/ enableWriteAdd(a)
Sends(a) == sendMessage(a) \/ sendFramesPush(a)
Serves ==
  \/ startDeleted \/ (\E t \in Pubs : start(t)) \/ (\E t \in Transports : Dispatch(t))
  \/ removeConnection
Works ==
  \/ socketUpdate \/ readNothing \/ readMessage \/ receive \/ publish
  \/ writeMessage \/ writeNothing
Elsewhere ==
  \/ \E t \in Transports : PeerAccepts(t) \/ PeerEnds(t) \/ PeerResets(t) \/ PeerSends(t)
  \/ UNCHANGED vars

USE TCPSubscribeAssumption

\* Every step is one of these.
LEMMA StepKinds ==
  ASSUME [Next]_vars
  PROVE  \/ \E a \in Actors : Closes(a) \/ Makes(a) \/ Enters(a) \/ Enables(a) \/ Sends(a)
         \/ Begins \/ Serves \/ Works \/ Elsewhere
BY DEF Next, UserStep, PollerStep, Connecting, Actors, Begins, Closes, Makes, Enters, Enables,
       Sends, Serves, Works, Elsewhere

\* start() alone gives the object a connection; only shutdown() finds one.
LEMMA ObjectSteps ==
  ASSUME TypeOK, [Next]_vars
  PROVE  /\ tcp' = tcp \/ \E t \in Pubs : tcp' = t
         /\ \/ shut' = shut
            \/ /\ shut' = shut \cup {tcp} /\ tcp \in Pubs /\ Running
               /\ \E next : close(User, tcp, next)
<1>1. CASE shutdown \/ destroy
  <2>1. tcp' = tcp /\ Running /\ shut' = shut \cup ({tcp} \ {NoTransport})
    BY <1>1 DEF shutdown, destroy, ShutDown, At
  <2>2. CASE tcp = NoTransport
    BY <2>1, <2>2
  <2>3. CASE tcp # NoTransport
    <3>1. tcp \in Pubs /\ shut' = shut \cup {tcp}
      BY <2>1, <2>3 DEF TypeOK
    <3>2. \E next : close(User, tcp, next)
      BY <1>1, <2>3 DEF shutdown, destroy, ShutDown
    <3> QED BY <2>1, <3>1, <3>2
  <2> QED BY <2>2, <2>3
<1>2. CASE ~(shutdown \/ destroy) /\ UserStep
  BY <1>2 DEF UserStep, Connecting, delete, socket, connect, initializeSocket, setNonBlocking,
              takeSock, addSocket, setDisconnectCallback, enableRead, enableReadAdd, enableWrite,
              enableWriteAdd, enableCheck, enableAdd, sendMessage, sendFramesPush, onDisconnect,
              Stop, object
<1>3. CASE PollerStep
  BY <1>3 DEF PollerStep, Connecting, socket, connect, initializeSocket, setNonBlocking, takeSock,
              addSocket, setDisconnectCallback, enableRead, enableReadAdd, enableWrite,
              enableWriteAdd, enableCheck, enableAdd, sendMessage, sendFramesPush, onDisconnect,
              Stop, object, startDeleted, removeConnection, socketUpdate, readNothing, readMessage,
              readEnd, receive, publish, response, writeMessage, writeFails, writeNothing,
              socketError
<1>4. CASE ~UserStep /\ ~PollerStep
  BY <1>4 DEF Next, unregisterSubscription, subscribe, start, Dispatch, PeerAccepts, PeerEnds,
              PeerResets, PeerSends, LinkChanges, object, vars
<1> QED BY <1>1, <1>2, <1>3, <1>4

\* The fields of a connection that one assignment of the code leaves alone.
LEMMA ChangeLink ==
  ASSUME TypeOK, NEW t \in Transports, NEW l \in Links, tr' = [tr EXCEPT ![t].link = l]
  PROVE  /\ Others(t) /\ SameSock(t) /\ SameReading(t) /\ tr'[t].closed = tr[t].closed
         /\ tr'[t].link = l
<1>1. tr \in [Transports -> Transport]
  BY DEF TypeOK
<1> QED BY <1>1 DEF Others, SameSock, SameReading, Transport

LEMMA ChangeSock ==
  ASSUME TypeOK, NEW t \in Transports, NEW s \in Fds \cup {NoFd}, tr' = [tr EXCEPT ![t].sock = s]
  PROVE  Others(t) /\ SameLink(t) /\ SameReading(t) /\ tr'[t].sock = s
<1>1. tr \in [Transports -> Transport]
  BY DEF TypeOK
<1> QED BY <1>1 DEF Others, SameLink, SameReading, Transport

LEMMA ChangeReading ==
  ASSUME TypeOK, NEW t \in Transports, tr' = [tr EXCEPT ![t].expecting_read = TRUE]
  PROVE  Others(t) /\ SameLink(t) /\ SameSock(t)
<1>1. tr \in [Transports -> Transport] /\ tr[t] \in Transport
  BY DEF TypeOK
<1>2. tr'[t] = [tr[t] EXCEPT !.expecting_read = TRUE] /\ \A v \in Transports \ {t} : tr'[v] = tr[v]
  BY <1>1
<1>3. tr'[t] \in Transport
  BY <1>1, <1>2 DEF Transport
<1>4. SameLink(t) /\ SameSock(t)
  BY <1>1, <1>2 DEF SameLink, SameSock, Transport
<1>5. tr' \in [Transports -> Transport]
  BY <1>1, <1>3
<1> QED BY <1>2, <1>4, <1>5 DEF Others

LEMMA ChangeOther ==
  ASSUME TypeOK, NEW t \in Transports, NEW b \in BOOLEAN,
         \/ tr' = [tr EXCEPT ![t].disconnect_cb = b]
         \/ tr' = [tr EXCEPT ![t].send_msgs = b]
         \/ tr' = [tr EXCEPT ![t].inbox = b]
         \/ tr' = [tr EXCEPT ![t].expecting_write = b]
         \/ tr' = [tr EXCEPT ![t].send_msgs = FALSE, ![t].written = TRUE,
                             ![t].expecting_write = FALSE]
  PROVE  Others(t) /\ Same(t)
<1>1. tr \in [Transports -> Transport] /\ tr[t] \in Transport
  BY DEF TypeOK
<1>2. \/ tr'[t] = [tr[t] EXCEPT !.disconnect_cb = b]
      \/ tr'[t] = [tr[t] EXCEPT !.send_msgs = b]
      \/ tr'[t] = [tr[t] EXCEPT !.inbox = b]
      \/ tr'[t] = [tr[t] EXCEPT !.expecting_write = b]
      \/ tr'[t] = [tr[t] EXCEPT !.send_msgs = FALSE, !.written = TRUE, !.expecting_write = FALSE]
  BY <1>1
<1>3. \A v \in Transports \ {t} : tr'[v] = tr[v]
  BY <1>1
<1>4. tr'[t] \in Transport
  <2>1. CASE \/ tr'[t] = [tr[t] EXCEPT !.disconnect_cb = b]
             \/ tr'[t] = [tr[t] EXCEPT !.send_msgs = b]
    BY <1>1, <2>1 DEF Transport
  <2>2. CASE \/ tr'[t] = [tr[t] EXCEPT !.inbox = b]
             \/ tr'[t] = [tr[t] EXCEPT !.expecting_write = b]
    BY <1>1, <2>2 DEF Transport
  <2>3. CASE tr'[t] = [tr[t] EXCEPT !.send_msgs = FALSE, !.written = TRUE, !.expecting_write = FALSE]
    BY <1>1, <2>3 DEF Transport
  <2> QED BY <1>2, <2>1, <2>2, <2>3
<1>5. tr' \in [Transports -> Transport]
  BY <1>1, <1>3, <1>4
<1>6. Same(t)
  BY <1>1, <1>2 DEF Transport, Same, SameLink, SameSock, SameReading
<1> QED BY <1>3, <1>5, <1>6 DEF Others

\* close() of t, once it has the mutex.
LEMMA CloseSocketEffect ==
  ASSUME TypeOK, NEW a \in Actors, NEW t \in Transports, closeSocket(t),
         ~tr[t].closed, tr[t].sock # NoFd, Registering(t) => shut' # {} /\ t \in Pubs,
         updating = t => pc'[Poller] \notin {"read", "receive", "publish"}
  PROVE  IsClosed(t)
<1> DEFINE s == tr[t].sock
<1>1. /\ tr' = [tr EXCEPT ![t].closed = TRUE, ![t].sock = NoFd, ![t].disconnect_cb = FALSE,
                          ![t].link = "closed", ![t].inbox = FALSE, ![t].written = FALSE]
      /\ entry' = [entry EXCEPT ![s] = NoTransport] /\ events' = [events EXCEPT ![s] = {}]
  BY DEF closeSocket
<1>2. tr \in [Transports -> Transport] /\ tr[t] \in Transport /\ "closed" \in Links
  BY DEF TypeOK, Links
<1>3. tr'[t] = [tr[t] EXCEPT !.closed = TRUE, !.sock = NoFd, !.disconnect_cb = FALSE,
                             !.link = "closed", !.inbox = FALSE, !.written = FALSE]
  BY <1>1, <1>2
<1>4. \A v \in Transports \ {t} : tr'[v] = tr[v]
  BY <1>1, <1>2
<1>5. tr'[t] \in Transport
  BY <1>2, <1>3 DEF Transport
<1>6. tr' \in [Transports -> Transport]
  BY <1>1, <1>2, <1>4, <1>5
<1>7. /\ SameReading(t) /\ s \in Fds
      /\ tr'[t].closed /\ tr'[t].sock = NoFd /\ tr'[t].link = "closed"
  BY <1>1, <1>2, <1>3 DEF Transport, SameReading
<1> QED BY <1>1, <1>4, <1>6, <1>7 DEF IsClosed, Others

\* close() by thread a either leaves the connections and the poll set alone, or closes t.
LEMMA CloseEffect ==
  ASSUME TypeOK, Places, NEW a \in Actors, NEW t \in Transports, NEW next, close(a, t, next),
         next \notin {"read", "receive", "publish"}, Registering(t) => shut' # {} /\ t \in Pubs
  PROVE  Idle \/ IsClosed(t)
<1>1. CASE UNCHANGED <<tr, pollset>>
  BY <1>1 DEF Idle, PollSetStays, pollset, TypeOK
<1>2. CASE ~UNCHANGED <<tr, pollset>>
  <2>1. /\ ~tr[t].closed /\ tr[t].sock # NoFd /\ MayLock(a, t) /\ closeSocket(t)
        /\ \E l \in {next, "removeConnection", "onDisconnect"} : pc' = [pc EXCEPT ![a] = l]
    BY <1>2 DEF close, Goto
  <2>2. updating = t => pc'[Poller] \notin {"read", "receive", "publish"}
    BY <2>1 DEF MayLock, TypeOK, Actors
  <2> QED BY <2>1, <2>2, CloseSocketEffect
<1> QED BY <1>1, <1>2

\* The lowest of the free descriptors is one of them.
LEMMA LowestFree ==
  ASSUME FreeFds # {}
  PROVE  (CHOOSE fd \in FreeFds : \A g \in FreeFds : fd <= g) \in FreeFds
<1>1. FreeFds \subseteq Nat
  BY DEF FreeFds
<1> DEFINE R == OpToRel(<, Nat)
<1>2. \A i, j \in Nat : i < j => <<i, j>> \in R
  BY Zenon DEF OpToRel
<1> HIDE DEF R
<1>3. IsWellFoundedOn(R, Nat)
  BY NatLessThanWellFounded DEF R
<1>4. PICK fd \in FreeFds : \A g \in FreeFds : <<g, fd>> \notin R
  BY <1>1, <1>3, WFMin
<1>5. \A g \in FreeFds : fd <= g
  <2>1. ASSUME NEW g \in FreeFds PROVE fd <= g
    <3>1. g \in Nat /\ fd \in Nat /\ ~(g < fd)
      BY <1>1, <1>2, <1>4
    <3> QED BY <3>1
  <2> QED BY <2>1
<1> QED BY <1>5

\* addEvents takes no interest away.
LEMMA AddKeeps ==
  ASSUME TypeOK, NEW fd, NEW event \in {"IN", "OUT"}, addEvents(fd, event), entry' = entry
  PROVE  PollSetStays
BY DEF TypeOK, addEvents, PollSetStays

\* Threads never work on the same connection while they make one.
LEMMA Mine ==
  ASSUME Places, NEW a \in Actors, pc[a] \in ConnectLabels
  PROVE  /\ cur(a) \in Transports
         /\ \A b \in Actors : pc[b] \in ConnectLabels /\ cur(b) = cur(a) => b = a
BY DEF Places, Actors, cur, Transports

\* Every step is one of these for the connections and the poll set.
LEMMA ConnSteps ==
  ASSUME IndInv, [Next]_vars
  PROVE  ConnStep
<1>t. TypeOK /\ Places /\ Served /\ Begun /\ Making /\ Life
  BY DEF IndInv
<1>i. ASSUME UNCHANGED <<tr, pollset>> PROVE Idle
  BY <1>t, <1>i DEF Idle, PollSetStays, pollset, TypeOK
<1>p. ASSUME UNCHANGED pollset PROVE PollSetStays
  BY <1>t, <1>p DEF PollSetStays, pollset, TypeOK
<1>c. ASSUME NEW a \in Actors, pc[a] \in ConnectLabels PROVE cur(a) \in Transports
  BY <1>t, <1>c, Mine
<1>1. ASSUME Begins PROVE ConnStep
  <2>1. CASE unregisterSubscription
    BY <1>i, <2>1 DEF unregisterSubscription, ConnStep
  <2>2. CASE subscribe \/ delete
    <3>1. /\ tr' = [tr EXCEPT ![Call].link = "new"] /\ pc' = [pc EXCEPT ![User] = "socket"]
          /\ UNCHANGED pollset /\ tr[Call].link = "none"
      BY <1>t, <2>2 DEF subscribe, delete, Goto, At, Begun
    <3>2. Call \in Transports /\ "new" \in Links
      BY DEF Transports, Links
    <3>3. pc'[User] = "socket"
      BY <1>t, <3>1 DEF TypeOK, Actors
    <3>4. Born(Call)
      BY <1>t, <1>p, <3>1, <3>2, <3>3, ChangeLink DEF Born
    <3> QED BY <3>2, <3>4 DEF ConnStep
  <2> QED BY <1>1, <2>1, <2>2 DEF Begins
<1>2. ASSUME NEW a \in Actors, Closes(a) PROVE ConnStep
  <2>1. CASE a = User /\ (shutdown \/ destroy)
    <3>1. \/ /\ tcp \in Pubs /\ tcp \in Transports
             /\ \E next \in {"destroy", "delete"} : close(a, tcp, next)
             /\ shut' # {}
          \/ UNCHANGED <<tr, pollset>>
      BY <1>t, <2>1 DEF shutdown, destroy, ShutDown, TypeOK, Transports
    <3> QED BY <1>t, <1>i, <3>1, CloseEffect DEF ConnStep
  <2>2. CASE a = Poller /\ (readEnd \/ response \/ writeFails \/ socketError)
    <3>1. \/ /\ serving \in Transports
             /\ \E next \in {"write", "wait"} : close(a, serving, next)
          \/ UNCHANGED <<tr, pollset>>
      BY <1>t, <2>2 DEF readEnd, response, writeFails, socketError, At, Places, TypeOK
    <3>2. ~Registering(serving)
      BY <1>t, <2>2 DEF readEnd, response, writeFails, socketError, At, Served, Serving,
                        LockedLabels
    <3> QED BY <1>t, <1>i, <3>1, <3>2, CloseEffect DEF ConnStep
  <2>3. CASE onDisconnect(a)
    <3>1. \/ /\ tcp \in Pubs /\ tcp \in Transports
             /\ \E next \in {"write", "wait", "delete", "destroy"} : close(a, tcp, next)
             /\ shut' = shut
          \/ UNCHANGED <<tr, pollset>>
      BY <1>t, <2>3
        DEF onDisconnect, Stop, At, AfterCallback, Begun, TypeOK, Transports, object
    <3>2. CASE a = User
      <4>1. shut # {}
        BY <1>t, <2>3, <3>2 DEF onDisconnect, At, Begun
      <4> QED BY <1>t, <1>i, <3>1, <4>1, CloseEffect DEF ConnStep
    <3>3. CASE a = Poller
      <4>1. pc[Poller] \notin EnterLabels
        BY <2>3, <3>3 DEF onDisconnect, At, EnterLabels
      <4>2. tcp \in Pubs => ~Registering(tcp)
        BY <4>1 DEF Registering, Actors, cur
      <4> QED BY <1>t, <1>i, <3>1, <4>2, CloseEffect DEF ConnStep
    <3> QED BY <3>2, <3>3 DEF Actors
  <2> QED BY <1>2, <2>1, <2>2, <2>3 DEF Closes
<1>3. ASSUME NEW a \in Actors, Makes(a) PROVE ConnStep
  <2> DEFINE t == cur(a)
  <2>c. t \in Transports
    BY <1>3, <1>c DEF Makes, socket, connect, setDisconnectCallback, At, ConnectLabels, CallLabels
  <2>p. pc \in [Actors -> Labels] /\ t = cur(a)
    BY <1>t DEF TypeOK
  <2> HIDE DEF t
  <2>1. CASE socket(a)
    <3>1. tr[t].link = "new" /\ tr[t].sock = NoFd /\ UNCHANGED pollset
      BY <1>t, <2>1 DEF socket, Making, t
    <3>2. CASE FreeFds = {}
      <4>1. tr' = [tr EXCEPT ![t].link = "failed"] /\ "failed" \in Links
        BY <2>1, <3>2 DEF socket, Links, t
      <4>2. By(t, {"socket"})
        BY <2>1, <2>p, <3>2 DEF socket, connectFails, Goto, At, By
      <4>3. Fails(t)
        BY <1>t, <1>p, <2>c, <3>1, <4>1, <4>2, ChangeLink DEF Fails, SameSock
      <4> QED BY <2>c, <4>3 DEF ConnStep
    <3>3. CASE FreeFds # {}
      <4> DEFINE s == CHOOSE fd \in FreeFds : \A g \in FreeFds : fd <= g
      <4>1. tr' = [tr EXCEPT ![t].sock = s]
        BY <2>1, <3>3 DEF socket, t
      <4>2. s \in FreeFds
        BY <3>3, LowestFree
      <4> HIDE DEF s
      <4>3. s \in Fds
        BY <4>2 DEF FreeFds
      <4>4. pc[a] = "socket" /\ cur(a) = t /\ pc'[a] = "connect" /\ cur(a)' = t
        BY <2>1, <2>p, <3>3 DEF socket, Goto, At, cur
      <4>5. GetsSocket(t)
        BY <1>t, <1>p, <2>c, <3>1, <4>1, <4>2, <4>3, <4>4, ChangeSock DEF GetsSocket
      <4> QED BY <2>c, <4>5 DEF ConnStep
    <3> QED BY <3>2, <3>3
  <2>2. CASE connect(a)
    <3>1. tr[t].link = "closed" \/ (tr[t].link = "new" /\ tr[t].sock # NoFd)
      BY <1>t, <2>2 DEF connect, Making, t
    <3>2. tr[t].link = "closed" <=> tr[t].closed
      BY <1>t, <2>c, <3>1 DEF Life
    <3>3. tr[t].sock \in Fds \cup {NoFd}
      BY <1>t, <2>c DEF TypeOK, Transport
    <3>b. ASSUME connectFails(a)
          PROVE  By(t, {"connect"})
      <4>1. pc[a] = "connect"
        BY <2>2 DEF connect, At
      <4>2. fault' # "no" \/ pc'[a] = "enableRead"
        BY <2>p, <3>b DEF connectFails, Goto
      <4> QED BY <2>p, <4>1, <4>2 DEF By
    <3>4. CASE connectBegins(a)
      <4>1. /\ tr' = [tr EXCEPT ![t].link = "connecting"] /\ "connecting" \in Links
            /\ ~tr[t].closed /\ UNCHANGED pollset
        BY <3>4 DEF connectBegins, Links, t
      <4>2. pc[a] = "connect" /\ cur(a) = t /\ pc'[a] = "initializeSocket" /\ cur(a)' = t
        BY <2>2, <2>p, <3>4 DEF connect, connectBegins, Goto, At, cur
      <4>3. Dials(t)
        BY <1>t, <1>p, <2>c, <3>1, <3>2, <4>1, <4>2, ChangeLink DEF Dials
      <4> QED BY <2>c, <4>3 DEF ConnStep
    <3>5. CASE connectCloses(a)
      <4>1. ~tr[t].closed /\ closeSocket(t) /\ MayLock(a, t) /\ pc[a] = "connect"
        BY <2>2, <3>5 DEF connect, connectCloses, At, t
      <4>2. ~Registering(t)
        BY <1>t, <2>p, <4>1, Mine DEF Registering, ConnectLabels, EnterLabels
      <4>3. updating = t => pc'[Poller] \notin {"read", "receive", "publish"}
        <5>1. CASE a = User
          BY <4>1, <5>1 DEF MayLock, Actors
        <5>2. CASE a = Poller
          BY <1>t, <2>c, <4>1, <5>2 DEF Places, LockedLabels, Transports
        <5> QED BY <5>1, <5>2 DEF Actors
      <4>4. IsClosed(t)
        BY <1>t, <2>c, <3>1, <3>2, <4>1, <4>2, <4>3, CloseSocketEffect
      <4> QED BY <2>c, <4>4 DEF ConnStep
    <3>6. CASE connectUnresolved(a)
      <4>1. /\ tr' = [tr EXCEPT ![t].link = "unresolved"] /\ "unresolved" \in Links
            /\ ~tr[t].closed /\ UNCHANGED pollset
        BY <3>6 DEF connectUnresolved, Links, t
      <4>2. Strands(t)
        BY <1>t, <1>p, <2>c, <3>1, <3>2, <3>b, <3>6, <4>1, ChangeLink
        DEF Strands, connectUnresolved
      <4> QED BY <2>c, <4>2 DEF ConnStep
    <3>7. CASE connectClosed(a)
      BY <1>i, <3>7 DEF connectClosed, ConnStep
    <3> QED BY <2>2, <3>4, <3>5, <3>6, <3>7 DEF connect
  <2>3. CASE setDisconnectCallback(a)
    <3>1. Touched(t)
      BY <1>t, <1>p, <2>c, <2>3, ChangeOther DEF setDisconnectCallback, Touched, t
    <3> QED BY <2>c, <3>1 DEF ConnStep
  <2> QED BY <1>3, <2>1, <2>2, <2>3 DEF Makes
<1>9. ASSUME NEW a \in Actors, Enters(a) PROVE ConnStep
  <2>1. CASE initializeSocket(a) \/ setNonBlocking(a) \/ takeSock(a)
    BY <1>i, <2>1 DEF initializeSocket, setNonBlocking, takeSock, Stop, ConnStep
  <2>2. CASE addSocket(a)
    <3>1. cur(a) \in Transports
      BY <1>c, <2>2 DEF addSocket, At, ConnectLabels, EnterLabels
    <3>2. pc[a] = "addSocket" /\ tr' = tr
      BY <2>2 DEF addSocket, At
    <3>3. pc'[a] \notin EnterLabels
      BY <1>t, <2>2 DEF addSocket, Goto, TypeOK, EnterLabels
    <3>4. Joins(cur(a))
      BY <2>2, <3>2, <3>3 DEF addSocket, Joins, pollset
    <3> QED BY <3>1, <3>4 DEF ConnStep
  <2> QED BY <1>9, <2>1, <2>2 DEF Enters
<1>4. ASSUME NEW a \in Actors, Enables(a) PROVE ConnStep
  <2> DEFINE t == cur(a)
  <2>c. t \in Transports
    BY <1>4, <1>c DEF Enables, enableRead, enableReadAdd, enableWrite, enableWriteAdd, At,
                      ConnectLabels, CallLabels
  <2> HIDE DEF t
  <2>1. CASE enableRead(a) \/ enableWrite(a)
    BY <1>i, <2>1 DEF enableRead, enableWrite, enableCheck, ConnStep
  <2>2. CASE enableReadAdd(a)
    <3>1. /\ tr' = [tr EXCEPT ![t].expecting_read = TRUE] /\ addEvents(arg[a], "IN")
          /\ entry' = entry /\ tr[t].link \notin {"none", "new"}
          /\ arg[a] = tr[t].sock \/ tr[t].sock = NoFd
          /\ pc[a] = "addRead" /\ cur(a) = t
      BY <1>t, <2>2 DEF enableReadAdd, enableAdd, At, Making, CallLabels, t
    <3>2. PollSetStays
      BY <1>t, <3>1, AddKeeps
    <3>3. tr[t].sock # NoFd /\ entry[tr[t].sock] # NoTransport => "IN" \in events'[tr[t].sock]
      <4>1. tr[t].sock \in Slots /\ events \in [Slots -> SUBSET {"IN", "OUT"}]
        BY <1>t, <2>c DEF TypeOK, Transport, Slots
      <4> QED BY <3>1, <4>1 DEF addEvents
    <3>4. StartsReading(t)
      BY <1>t, <2>c, <3>1, <3>2, <3>3, ChangeReading DEF StartsReading
    <3> QED BY <2>c, <3>4 DEF ConnStep
  <2>3. CASE enableWriteAdd(a)
    <3>1. /\ tr' = [tr EXCEPT ![t].expecting_write = TRUE] /\ addEvents(arg[a], "OUT")
          /\ entry' = entry
      BY <2>3 DEF enableWriteAdd, enableAdd, t
    <3>2. Touched(t)
      BY <1>t, <2>c, <3>1, AddKeeps, ChangeOther DEF Touched
    <3> QED BY <2>c, <3>2 DEF ConnStep
  <2> QED BY <1>4, <2>1, <2>2, <2>3 DEF Enables
<1>5. ASSUME NEW a \in Actors, Sends(a) PROVE ConnStep
  <2>1. CASE sendMessage(a)
    BY <1>i, <2>1 DEF sendMessage, ConnStep
  <2>2. CASE sendFramesPush(a)
    <3>1. cur(a) \in Transports
      BY <1>c, <2>2 DEF sendFramesPush, At, ConnectLabels, CallLabels
    <3>2. Touched(cur(a))
      BY <1>t, <1>p, <2>2, <3>1, ChangeOther DEF sendFramesPush, Touched
    <3> QED BY <3>1, <3>2 DEF ConnStep
  <2> QED BY <1>5, <2>1, <2>2 DEF Sends
<1>6. ASSUME Serves PROVE ConnStep
  <2>1. ASSUME NEW t \in Pubs, start(t) PROVE ConnStep
    <3>1. t \in Transports /\ "new" \in Links /\ t # Call
      BY DEF Transports, Links
    <3>2. /\ tr' = [tr EXCEPT ![t].link = "new"] /\ tr[t].link = "none" /\ tcp' = t
          /\ PollSetStays
      BY <1>p, <2>1 DEF start
    <3>3. Born(t)
      BY <1>t, <3>1, <3>2, ChangeLink DEF Born
    <3> QED BY <3>1, <3>3 DEF ConnStep
  <2>2. CASE startDeleted \/ removeConnection \/ \E t \in Transports : Dispatch(t)
    BY <1>i, <2>2 DEF startDeleted, Stop, removeConnection, Dispatch, ConnStep
  <2> QED BY <1>6, <2>1, <2>2 DEF Serves
<1>7. ASSUME Works PROVE ConnStep
  <2>1. CASE socketUpdate \/ readNothing \/ receive \/ publish \/ writeNothing
    BY <1>i, <2>1 DEF socketUpdate, readNothing, receive, publish, writeNothing, Stop, ConnStep
  <2>2. CASE readMessage \/ writeMessage
    <3>1. serving \in Transports
      BY <1>t, <2>2 DEF readMessage, writeMessage, At, Places, TypeOK
    <3>2. PollSetStays
      <4>1. CASE readMessage
        BY <1>p, <4>1 DEF readMessage
      <4>2. CASE writeMessage
        <5>1. events' = [events EXCEPT ![tr[serving].sock] = @ \ {"OUT"}] /\ entry' = entry
          BY <4>2 DEF writeMessage
        <5>2. events \in [Slots -> SUBSET {"IN", "OUT"}]
          BY <1>t DEF TypeOK
        <5> QED BY <5>1, <5>2 DEF PollSetStays
      <4> QED BY <2>2, <4>1, <4>2
    <3>3. Touched(serving)
      BY <1>t, <2>2, <3>1, <3>2, ChangeOther DEF readMessage, writeMessage, Touched
    <3> QED BY <3>1, <3>3 DEF ConnStep
  <2> QED BY <1>7, <2>1, <2>2 DEF Works
<1>8. ASSUME Elsewhere PROVE ConnStep
  <2>1. ASSUME NEW t \in Transports, PeerAccepts(t) \/ PeerEnds(t) \/ PeerResets(t)
        PROVE  LinkMoves(t)
    <3>1. PICK l \in Open : tr[t].link \in Open /\ tr' = [tr EXCEPT ![t].link = l] /\ UNCHANGED pollset
      BY <2>1 DEF PeerAccepts, PeerEnds, PeerResets, LinkChanges, Open
    <3> QED BY <1>t, <1>p, <3>1, ChangeLink DEF LinkMoves, Open, Links
  <2>2. ASSUME NEW t \in Transports, PeerSends(t) PROVE Touched(t)
    BY <1>t, <1>p, <2>2, ChangeOther DEF PeerSends, Touched
  <2>3. CASE UNCHANGED vars
    BY <1>i, <2>3 DEF vars, ConnStep
  <2> QED BY <1>8, <2>1, <2>2, <2>3 DEF Elsewhere, ConnStep
<1> QED BY <1>1, <1>2, <1>3, <1>4, <1>5, <1>6, <1>7, <1>8, <1>9, StepKinds

\* The link, the descriptor and the flags of a connection go together through every kind of
\* step.
LEMMA StepLife ==
  ASSUME IndInv, ConnStep
  PROVE  Life'
<1>1. Life
  BY DEF IndInv
<1>2. CASE tr' = tr
  BY <1>1, <1>2 DEF Life
<1>3. ASSUME NEW t \in Transports, Others(t),
             \/ Touched(t) \/ StartsReading(t) \/ LinkMoves(t) \/ Born(t) \/ GetsSocket(t)
             \/ Fails(t) \/ Strands(t) \/ Dials(t) \/ IsClosed(t)
      PROVE  Life'
  <2> DEFINE Good(v) == /\ tr[v].closed => tr[v].link \in {"closed", "failed"}
                        /\ tr[v].link = "closed" => tr[v].closed
                        /\ tr[v].link \in {"none", "closed", "failed"} => tr[v].sock = NoFd
                        /\ tr[v].link \in {"none", "new"} => ~tr[v].expecting_read
  <2>1. \A v \in Transports : Good(v)
    BY <1>1 DEF Life
  <2>2. \A v \in Transports \ {t} : Good(v)'
    BY <1>3, <2>1 DEF Others
  <2>3. Good(t)'
    <3>1. CASE Touched(t)
      BY <2>1, <3>1 DEF Touched, Same, SameSock, SameLink, SameReading
    <3>2. CASE StartsReading(t)
      BY <2>1, <3>2 DEF StartsReading, SameSock, SameLink
    <3>3. CASE LinkMoves(t) \/ Born(t) \/ Strands(t) \/ Dials(t)
      BY <2>1, <3>3 DEF LinkMoves, Born, Strands, Dials, SameSock, SameReading, Open
    <3>4. CASE GetsSocket(t)
      BY <2>1, <3>4 DEF GetsSocket, SameLink, SameReading
    <3>5. CASE Fails(t) \/ IsClosed(t)
      BY <2>1, <3>5 DEF Fails, IsClosed, SameReading
    <3> QED BY <1>3, <3>1, <3>2, <3>3, <3>4, <3>5
  <2> HIDE DEF Good
  <2>4. \A v \in Transports : Good(v)'
    BY <2>2, <2>3
  <2> QED BY <2>4 DEF Life, Good
<1> QED BY <1>2, <1>3
    DEF ConnStep, Idle, Touched, StartsReading, LinkMoves, Born, GetsSocket, Fails, Strands,
        Dials, Joins, IsClosed

\* What no step undoes: a connection that has been begun stays so, one that is closed stays
\* closed, and one that is open ends by close() alone.
LEMMA LinkSteps ==
  ASSUME IndInv, ConnStep, NEW t \in Transports
  PROVE  /\ tr[t].link \in Open => tr'[t].link \in Open \cup {"closed"}
         /\ tr[t].link = "closed" => tr'[t].link = "closed"
         /\ tr[t].closed => tr'[t].closed
         /\ tr[t].link \notin {"none", "new"} => tr'[t].link \notin {"none", "new"}
         /\ tr[t].link = "new" => tr'[t].link # "none"
         /\ tr[t].link = "none" =>
              \/ tr'[t].link = "none"
              \/ tr'[t].link = "new" /\ IF t = Call THEN pc'[User] = "socket" ELSE tcp' = t
         /\ tr[t].link \in Open /\ updating = t /\ pc'[Poller] \in {"read", "receive", "publish"} =>
              tr'[t].link \in Open
         /\ \/ tr'[t].sock = tr[t].sock \/ tr[t].link = "new"
            \/ tr'[t].sock = NoFd /\ IsClosed(t)
         /\ tr'[t].link \in Open => tr[t].link \in Open \/ Dials(t)
         /\ tr'[t].closed => tr[t].closed \/ tr[t].link = "new" \/ IsClosed(t)
         /\ tr'[t].expecting_read = tr[t].expecting_read \/ StartsReading(t)
<1>1. Life
  BY DEF IndInv
<1> DEFINE l == tr[t].link
           m == tr'[t].link
<1>2. \/ /\ m = l /\ tr'[t].closed = tr[t].closed /\ tr'[t].sock = tr[t].sock
         /\ tr'[t].expecting_read = tr[t].expecting_read \/ StartsReading(t)
      \/ GetsSocket(t) \/ LinkMoves(t) \/ Born(t) \/ Fails(t) \/ Strands(t) \/ Dials(t)
      \/ IsClosed(t)
  <2>1. CASE tr'[t] = tr[t]
    BY <2>1
  <2>2. ASSUME NEW v \in Transports, v # t,
               \/ Touched(v) \/ StartsReading(v) \/ LinkMoves(v) \/ Born(v) \/ GetsSocket(v)
               \/ Fails(v) \/ Strands(v) \/ Dials(v) \/ IsClosed(v)
        PROVE  tr'[t] = tr[t]
    BY <2>2 DEF Touched, StartsReading, LinkMoves, Born, GetsSocket, Fails, Strands, Dials,
                IsClosed, Others
  <2>3. CASE Touched(t) \/ StartsReading(t)
    BY <2>3 DEF Touched, StartsReading, Same, SameLink, SameSock, SameReading
  <2>4. Idle \/ (\E v \in Transports : Joins(v)) => tr' = tr
    BY DEF Idle, Joins
  <2> QED BY <2>1, <2>2, <2>3, <2>4 DEF ConnStep
<1>3. /\ tr[t].closed => l \in {"closed", "failed"}
      /\ l = "closed" => tr[t].closed
      /\ l \in {"none", "closed", "failed"} => tr[t].sock = NoFd
  BY <1>1 DEF Life
<1>4. CASE /\ m = l /\ tr'[t].closed = tr[t].closed /\ tr'[t].sock = tr[t].sock
           /\ tr'[t].expecting_read = tr[t].expecting_read \/ StartsReading(t)
  BY <1>4
<1>5. CASE GetsSocket(t)
  BY <1>5 DEF GetsSocket, SameLink, SameReading, Open
<1>6. CASE LinkMoves(t)
  BY <1>6 DEF LinkMoves, SameSock, SameReading, Open
<1>7. CASE Born(t)
  BY <1>7 DEF Born, SameSock, SameReading, Open
<1>8. CASE Fails(t) \/ Strands(t) \/ Dials(t)
  BY <1>3, <1>8 DEF Fails, Strands, Dials, SameSock, SameReading, Open
<1>9. CASE IsClosed(t)
  BY <1>3, <1>9 DEF IsClosed, SameReading, Open
<1> QED BY <1>2, <1>4, <1>5, <1>6, <1>7, <1>8, <1>9

\* How a thread comes to its next label while it makes a connection.
Stays(b) == pc'[b] = pc[b] /\ cur(b)' = cur(b) /\ arg'[b] = arg[b]
Course(b) ==
  \/ Stays(b)
  \/ /\ pc'[b] = "socket" /\ pc[b] \notin ConnectLabels /\ Born(cur(b)') /\ cur(b)' \in Transports
  \/ /\ cur(b)' = cur(b) /\ pc[b] = "socket" /\ pc'[b] = "connect"
     /\ tr'[cur(b)].link = "new" /\ tr'[cur(b)].sock # NoFd
  \/ /\ cur(b)' = cur(b) /\ pc[b] \in {"socket", "connect"}
     /\ pc'[b] \in CallLabels \ {"addRead", "addWrite"} /\ tr'[cur(b)].link \notin {"none", "new"}
  \/ /\ cur(b)' = cur(b) /\ pc[b] = "connect" /\ pc'[b] = "initializeSocket" /\ Dials(cur(b))
  \/ /\ cur(b)' = cur(b) /\ pc[b] \in EnterLabels /\ pc'[b] \in EnterLabels
     /\ pc'[b] = "addSocket" => arg'[b] = tr[cur(b)].sock
     /\ tr' = tr
  \/ /\ cur(b)' = cur(b) /\ pc[b] \in EnterLabels /\ pc'[b] \in CallLabels \ {"addRead", "addWrite"}
     /\ Joins(cur(b)) \/ tr[cur(b)].sock = NoFd
  \/ /\ cur(b)' = cur(b) /\ pc[b] \in CallLabels /\ pc'[b] \in CallLabels
     /\ pc'[b] \in {"addRead", "addWrite"} =>
          arg'[b] = tr[cur(b)].sock /\ tr' = tr /\ ~tr[cur(b)].closed
  \/ pc[b] \notin {"socket", "connect"} \cup EnterLabels /\ pc'[b] \notin ConnectLabels

\* A thread goes to its next label; the other one stays where it is.
LEMMA Goes ==
  ASSUME TypeOK, NEW a \in Actors, NEW l \in Labels, Goto(a, l), a = User => l # "wait"
  PROVE  /\ pc'[a] = l
         /\ l # "wait" => cur(a)' = cur(a)
         /\ \A b \in Actors \ {a} :
              /\ pc'[b] = pc[b] /\ cur(b)' = cur(b)
              /\ arg' = arg \/ (\E s : arg' = [arg EXCEPT ![a] = s]) => Stays(b)
<1>1. pc \in [Actors -> Labels] /\ arg \in [Actors -> Slots] /\ Actors = {User, Poller}
  BY DEF TypeOK, Actors
<1>2. pc' = [pc EXCEPT ![a] = l] /\ (l # "wait" => serving' = serving)
  BY DEF Goto
<1>3. \A b \in Actors \ {a} : pc'[b] = pc[b] /\ cur(b)' = cur(b)
  BY <1>1, <1>2 DEF cur
<1>4. \A b \in Actors \ {a} : arg' = arg \/ (\E s : arg' = [arg EXCEPT ![a] = s]) => arg'[b] = arg[b]
  BY <1>1
<1> QED BY <1>1, <1>2, <1>3, <1>4 DEF cur, Stays

\* Threads that do not make a connection before or after a step.
LEMMA Passes ==
  ASSUME TypeOK, NEW a \in Actors, NEW l \in Labels \ ConnectLabels, Goto(a, l), UNCHANGED arg,
         a = User => l # "wait", pc[a] \notin {"socket", "connect"} \cup EnterLabels
  PROVE  \A b \in Actors : Course(b)
BY Goes DEF Course

LEMMA Courses ==
  ASSUME IndInv, [Next]_vars
  PROVE  \A b \in Actors : Course(b)
<1>t. TypeOK /\ Places /\ Making /\ Life /\ Begun
  BY DEF IndInv
<1>p. pc \in [Actors -> Labels] /\ arg \in [Actors -> Slots] /\ User # Poller
      /\ User \in Actors /\ Poller \in Actors
  BY <1>t DEF TypeOK, Actors
<1>s. ASSUME UNCHANGED <<pc, serving, arg>> PROVE \A b \in Actors : Course(b)
  BY <1>s DEF Course, Stays, cur
<1>l. \A l \in {"idle", "shutdown", "destroy", "delete", "done", "wait", "update", "read",
                "receive", "publish", "write", "error", "onDisconnect", "removeConnection"} :
        l \in Labels \ ConnectLabels
  BY DEF Labels, ConnectLabels, CallLabels, EnterLabels
<1>e. {"socket", "connect"} \cup EnterLabels \subseteq ConnectLabels
  BY DEF ConnectLabels
<1>1. ASSUME Begins PROVE \A b \in Actors : Course(b)
  <2>1. CASE unregisterSubscription
    BY <1>t, <1>p, <1>l, <2>1, Passes DEF unregisterSubscription, At, locals, EnterLabels
  <2>2. CASE subscribe \/ delete
    <3>1. /\ Goto(User, "socket") /\ "socket" \in Labels /\ UNCHANGED arg
          /\ tr' = [tr EXCEPT ![Call].link = "new"] /\ pc[User] \notin ConnectLabels
          /\ UNCHANGED pollset /\ tr[Call].link = "none"
      BY <1>t, <2>2 DEF subscribe, delete, At, locals, Begun, Labels, ConnectLabels, CallLabels,
                        EnterLabels
    <3>2. pc'[User] = "socket" /\ cur(User)' = Call /\ \A b \in Actors \ {User} : Stays(b)
      BY <1>t, <1>p, <3>1, Goes DEF cur
    <3>3. Call \in Transports /\ "new" \in Links
      BY DEF Transports, Links
    <3>4. PollSetStays
      BY <1>t, <3>1 DEF PollSetStays, pollset, TypeOK
    <3>5. Born(Call)
      BY <1>t, <3>1, <3>2, <3>3, <3>4, ChangeLink DEF Born
    <3> QED BY <3>1, <3>2, <3>3, <3>5 DEF Course
  <2> QED BY <1>1, <2>1, <2>2 DEF Begins
<1>2. ASSUME NEW a \in Actors, Closes(a) PROVE \A b \in Actors : Course(b)
  <2>1. UNCHANGED arg /\ pc[a] \notin ConnectLabels
    BY <1>2 DEF Closes, shutdown, destroy, ShutDown, readEnd, response, writeFails, socketError,
                onDisconnect, Stop, At, locals, ConnectLabels, CallLabels, EnterLabels
  <2>2. \/ UNCHANGED <<pc, serving>>
        \/ \E l \in {"destroy", "delete", "write", "wait", "onDisconnect", "removeConnection"} :
             Goto(a, l) /\ (a = User => l # "wait")
    BY <1>2, <1>p
      DEF Closes, shutdown, destroy, ShutDown, readEnd, response, writeFails, socketError,
                onDisconnect, Stop, close, AfterCallback, place
  <2> QED BY <1>t, <1>l, <1>e, <1>s, <2>1, <2>2, Passes
<1>3. ASSUME NEW a \in Actors, Makes(a) PROVE \A b \in Actors : Course(b)
  <2> DEFINE t == cur(a)
  <2>c. t \in Transports
    BY <1>3, <1>t, Mine
      DEF Makes, socket, connect, setDisconnectCallback, At, ConnectLabels, CallLabels
  <2>p. t = cur(a)
    OBVIOUS
  <2>l. {"connect", "initializeSocket", "enableRead", "sendMessage", "setDisconnectCallback"}
             \subseteq Labels
        /\ {"enableRead", "sendMessage", "setDisconnectCallback"} \subseteq CallLabels \ {"addRead", "addWrite"}
    BY DEF Labels, ConnectLabels, EnterLabels, CallLabels
  <2> HIDE DEF t
  <2>1. CASE socket(a)
    <3>1. tr[t].link = "new" /\ tr[t].sock = NoFd /\ pc[a] = "socket"
          /\ UNCHANGED arg
      BY <1>t, <2>1 DEF socket, At, Making, t, locals
    <3>2. CASE FreeFds = {}
      <4>1. tr' = [tr EXCEPT ![t].link = "failed"] /\ "failed" \in Links
        BY <2>1, <3>2 DEF socket, Links, t
      <4>2. tr'[t].link = "failed"
        BY <1>t, <2>c, <4>1, ChangeLink
      <4>3. UNCHANGED <<pc, serving>> \/ (a = User /\ Goto(a, "enableRead"))
        BY <2>1, <3>2 DEF socket, connectFails, place
      <4> QED BY <1>t, <1>s, <2>l, <2>p, <3>1, <4>2, <4>3, Goes DEF Course
    <3>3. CASE FreeFds # {}
      <4> DEFINE s == CHOOSE fd \in FreeFds : \A g \in FreeFds : fd <= g
      <4>1. tr' = [tr EXCEPT ![t].sock = s] /\ Goto(a, "connect")
        BY <2>1, <3>3 DEF socket, t
      <4>2. s \in FreeFds
        BY <3>3, LowestFree
      <4> HIDE DEF s
      <4>3. s \in Fds
        BY <4>2 DEF FreeFds
      <4>4. tr'[t].link = "new" /\ tr'[t].sock # NoFd
        BY <1>t, <2>c, <3>1, <4>1, <4>3, ChangeSock DEF SameLink
      <4> QED BY <1>t, <2>l, <2>p, <3>1, <4>1, <4>4, Goes DEF Course
    <3> QED BY <3>2, <3>3
  <2>2. CASE connect(a)
    <3>1. /\ tr[t].link = "closed" \/ (tr[t].link = "new" /\ tr[t].sock # NoFd)
          /\ pc[a] = "connect" /\ UNCHANGED arg
      BY <1>t, <2>2 DEF connect, At, Making, t, locals
    <3>2. tr[t].link = "closed" <=> tr[t].closed
      BY <1>t, <2>c, <3>1 DEF Life
    <3>3. CASE connectBegins(a)
      <4>1. /\ tr' = [tr EXCEPT ![t].link = "connecting"] /\ "connecting" \in Links
            /\ ~tr[t].closed /\ Goto(a, "initializeSocket") /\ UNCHANGED pollset
        BY <3>3 DEF connectBegins, Links, t
      <4>2. /\ pc'[a] = "initializeSocket" /\ cur(a)' = t /\ cur(a) = t
            /\ \A b \in Actors \ {a} : Stays(b)
        BY <1>t, <2>l, <2>p, <3>1, <4>1, Goes
      <4>3. PollSetStays
        BY <1>t, <4>1 DEF PollSetStays, pollset, TypeOK
      <4>4. Dials(t)
        BY <1>t, <2>c, <3>1, <3>2, <4>1, <4>2, <4>3, ChangeLink DEF Dials
      <4> QED BY <3>1, <4>2, <4>4 DEF Course
    <3>4. CASE ~connectBegins(a)
      <4>1. UNCHANGED <<pc, serving>> \/ (a = User /\ Goto(a, "enableRead"))
        BY <2>2, <3>4 DEF connect, connectCloses, connectUnresolved, connectClosed, connectFails,
                          place
      <4>2. tr'[t].link \notin {"none", "new"}
        <5>1. CASE connectUnresolved(a)
          <6>1. tr' = [tr EXCEPT ![t].link = "unresolved"] /\ "unresolved" \in Links
            BY <5>1 DEF connectUnresolved, t, Links
          <6> QED BY <1>t, <2>c, <6>1, ChangeLink
        <5>2. CASE connectCloses(a)
          <6>1. /\ tr' = [tr EXCEPT ![t].closed = TRUE, ![t].sock = NoFd,
                                    ![t].disconnect_cb = FALSE, ![t].link = "closed",
                                    ![t].inbox = FALSE, ![t].written = FALSE]
                /\ tr \in [Transports -> Transport]
            BY <1>t, <5>2 DEF connectCloses, closeSocket, t, TypeOK
          <6>2. tr'[t].link = "closed"
            BY <2>c, <6>1 DEF Transport
          <6> QED BY <6>2
        <5>3. CASE connectClosed(a)
          BY <3>2, <3>1, <5>3 DEF connectClosed, t
        <5> QED BY <2>2, <3>4, <5>1, <5>2, <5>3 DEF connect
      <4> QED BY <1>t, <1>s, <2>l, <2>p, <3>1, <4>1, <4>2, Goes DEF Course
    <3> QED BY <3>3, <3>4
  <2>3. CASE setDisconnectCallback(a)
    <3>1. UNCHANGED arg /\ pc[a] \in CallLabels /\ \E l \in {"sendMessage", "enableRead"} : Goto(a, l)
      BY <2>3 DEF setDisconnectCallback, At, CallLabels, locals
    <3> QED BY <1>t, <2>l, <3>1, Goes DEF Course
  <2> QED BY <1>3, <2>1, <2>2, <2>3 DEF Makes
<1>9. ASSUME NEW a \in Actors, Enters(a) PROVE \A b \in Actors : Course(b)
  <2>l. /\ EnterLabels \subseteq Labels /\ "wait" \notin EnterLabels
        /\ \A l \in {"enableRead", "setDisconnectCallback"} :
             l \in Labels /\ l \in CallLabels \ {"addRead", "addWrite"} /\ l # "wait"
    BY DEF EnterLabels, CallLabels, ConnectLabels, Labels
  <2>1. pc[a] \in EnterLabels
    BY <1>9 DEF Enters, initializeSocket, setNonBlocking, takeSock, addSocket, At, EnterLabels
  <2>2. CASE initializeSocket(a) \/ setNonBlocking(a)
    <3>1. /\ UNCHANGED <<tr, arg>>
          /\ \/ UNCHANGED <<pc, serving>>
             \/ \E l \in {"setNonBlocking", "takeSock"} : Goto(a, l)
             \/ Goto(a, "enableRead") /\ tr[cur(a)].sock = NoFd
      BY <2>2 DEF initializeSocket, setNonBlocking, connectFails, Stop, locals, place
    <3>2. ASSUME NEW l \in {"setNonBlocking", "takeSock"}, Goto(a, l)
          PROVE  \A b \in Actors : Course(b)
      <4>1. l \in EnterLabels /\ l # "addSocket"
        BY DEF EnterLabels
      <4>2. pc'[a] = l /\ cur(a)' = cur(a) /\ \A b \in Actors \ {a} : Stays(b)
        BY <1>t, <2>l, <3>1, <3>2, <4>1, Goes
      <4>3. Course(a)
        BY <2>1, <3>1, <4>1, <4>2 DEF Course
      <4> QED BY <4>2, <4>3 DEF Course
    <3>3. CASE Goto(a, "enableRead") /\ tr[cur(a)].sock = NoFd
      <4>1. pc'[a] = "enableRead" /\ cur(a)' = cur(a) /\ \A b \in Actors \ {a} : Stays(b)
        BY <1>t, <2>l, <3>1, <3>3, Goes
      <4>2. Course(a)
        BY <2>l, <2>1, <3>3, <4>1 DEF Course
      <4> QED BY <4>1, <4>2 DEF Course
    <3> QED BY <1>s, <3>1, <3>2, <3>3
  <2>3. CASE takeSock(a)
    <3>1. tr' = tr /\ arg' = [arg EXCEPT ![a] = tr[cur(a)].sock] /\ Goto(a, "addSocket")
      BY <2>3 DEF takeSock
    <3>2. arg'[a] = tr[cur(a)].sock /\ "addSocket" \in EnterLabels
      BY <1>p, <3>1 DEF EnterLabels
    <3>3. pc'[a] = "addSocket" /\ cur(a)' = cur(a) /\ \A b \in Actors \ {a} : Stays(b)
      BY <1>t, <2>l, <3>1, <3>2, Goes
    <3>4. Course(a)
      BY <2>1, <3>1, <3>2, <3>3 DEF Course
    <3> QED BY <3>3, <3>4 DEF Course
  <2>4. CASE addSocket(a)
    <3>1. /\ arg' = [arg EXCEPT ![a] = NoFd] /\ tr' = tr /\ pc[a] = "addSocket"
          /\ \E l \in {"enableRead", "setDisconnectCallback"} : Goto(a, l)
      BY <2>4 DEF addSocket, At
    <3>2. PICK l \in {"enableRead", "setDisconnectCallback"} : Goto(a, l)
      BY <3>1
    <3>3. pc'[a] = l /\ cur(a)' = cur(a) /\ \A b \in Actors \ {a} : Stays(b)
      BY <1>t, <2>l, <3>1, <3>2, Goes
    <3>4. Joins(cur(a))
      <4>1. pc'[a] \notin EnterLabels
        BY <3>3 DEF EnterLabels
      <4> QED BY <2>4, <3>1, <4>1 DEF addSocket, Joins, pollset
    <3> QED BY <2>l, <2>1, <3>2, <3>3, <3>4 DEF Course
  <2> QED BY <1>9, <2>2, <2>3, <2>4 DEF Enters
<1>4. ASSUME NEW a \in Actors, Enables(a) PROVE \A b \in Actors : Course(b)
  <2>l. \A l \in {"addRead", "addWrite", "push", "sendMessage", "setDisconnectCallback"} :
          l \in CallLabels /\ l \in Labels /\ l # "wait"
    BY DEF CallLabels, ConnectLabels, Labels
  <2>1. pc[a] \in CallLabels
    BY <1>4 DEF Enables, enableRead, enableReadAdd, enableWrite, enableWriteAdd, At, CallLabels
  <2>2. CASE enableRead(a) \/ enableWrite(a)
    <3>1. /\ tr' = tr
          /\ \/ /\ UNCHANGED arg
                /\ \E l \in {"push", "sendMessage", "setDisconnectCallback"} : Goto(a, l)
             \/ /\ arg' = [arg EXCEPT ![a] = tr[cur(a)].sock] /\ ~tr[cur(a)].closed
                /\ \E l \in {"addRead", "addWrite"} : Goto(a, l)
      BY <2>2 DEF enableRead, enableWrite, enableCheck, AfterRead
    <3>2. CASE UNCHANGED arg /\ \E l \in {"push", "sendMessage", "setDisconnectCallback"} : Goto(a, l)
      <4>1. PICK l \in {"push", "sendMessage", "setDisconnectCallback"} : Goto(a, l)
        BY <3>2
      <4>2. pc'[a] = l /\ cur(a)' = cur(a) /\ \A b \in Actors \ {a} : Stays(b)
        BY <1>t, <2>l, <3>2, <4>1, Goes
      <4>3. Course(a)
        BY <2>l, <2>1, <4>2 DEF Course
      <4> QED BY <4>2, <4>3 DEF Course
    <3>3. CASE /\ arg' = [arg EXCEPT ![a] = tr[cur(a)].sock] /\ ~tr[cur(a)].closed
               /\ \E l \in {"addRead", "addWrite"} : Goto(a, l)
      <4>1. arg'[a] = tr[cur(a)].sock
        BY <1>p, <3>3
      <4>2. PICK l \in {"addRead", "addWrite"} : Goto(a, l)
        BY <3>3
      <4>3. pc'[a] = l /\ cur(a)' = cur(a) /\ \A b \in Actors \ {a} : Stays(b)
        BY <1>t, <2>l, <3>3, <4>2, Goes
      <4>4. Course(a)
        BY <2>l, <2>1, <3>1, <3>3, <4>1, <4>2, <4>3 DEF Course
      <4> QED BY <4>3, <4>4 DEF Course
    <3> QED BY <3>1, <3>2, <3>3
  <2>3. CASE enableReadAdd(a) \/ enableWriteAdd(a)
    <3>1. /\ arg' = [arg EXCEPT ![a] = NoFd]
          /\ \E l \in {"push", "sendMessage", "setDisconnectCallback"} : Goto(a, l)
      BY <2>3 DEF enableReadAdd, enableWriteAdd, enableAdd, AfterRead
    <3>2. PICK l \in {"push", "sendMessage", "setDisconnectCallback"} : Goto(a, l)
      BY <3>1
    <3>3. /\ pc'[a] = l /\ cur(a)' = cur(a)
          /\ \A b \in Actors \ {a} : Stays(b)
      BY <1>t, <2>l, <3>1, <3>2, Goes
    <3>4. Course(a)
      BY <2>l, <2>1, <3>2, <3>3 DEF Course
    <3> QED BY <3>3, <3>4 DEF Course
  <2> QED BY <1>4, <2>2, <2>3 DEF Enables
<1>5. ASSUME NEW a \in Actors, Sends(a) PROVE \A b \in Actors : Course(b)
  <2>1. CASE sendMessage(a)
    <3>1. pc[a] \in CallLabels /\ Goto(a, "enableWrite") /\ UNCHANGED arg
      BY <2>1 DEF sendMessage, At, CallLabels, locals
    <3>2. "enableWrite" \in CallLabels \cap Labels
      BY DEF CallLabels, ConnectLabels, Labels
    <3> QED BY <1>t, <3>1, <3>2, Goes DEF Course
  <2>2. CASE sendFramesPush(a)
    <3>1. \E l \in {"wait", "done"} : Goto(a, l) /\ (a = User => l # "wait")
      BY <1>p, <2>2 DEF sendFramesPush
    <3>2. pc[a] \notin {"socket", "connect"} \cup EnterLabels
      BY <2>2 DEF sendFramesPush, At, EnterLabels
    <3> QED BY <1>t, <1>l, <2>2, <3>1, <3>2, Passes DEF sendFramesPush, locals
  <2> QED BY <1>5, <2>1, <2>2 DEF Sends
<1>6. ASSUME Serves PROVE \A b \in Actors : Course(b)
  <2>1. ASSUME NEW t \in Pubs, start(t) PROVE \A b \in Actors : Course(b)
    <3>1. /\ pc[Poller] = "wait" /\ pc' = [pc EXCEPT ![Poller] = "socket"] /\ serving' = t
          /\ UNCHANGED arg
      BY <2>1 DEF start, At, locals
    <3>2. t \in Transports /\ "new" \in Links /\ t # Call
      BY DEF Transports, Links
    <3>3. PollSetStays
      BY <1>t, <2>1 DEF start, PollSetStays, pollset, TypeOK
    <3>6. tr' = [tr EXCEPT ![t].link = "new"] /\ tr[t].link = "none" /\ tcp' = t
      BY <2>1 DEF start
    <3>4. Born(t)
      BY <1>t, <3>2, <3>3, <3>6, ChangeLink DEF Born
    <3>5. Stays(User) /\ pc'[Poller] = "socket" /\ cur(Poller)' = t
      BY <1>p, <3>1 DEF Stays, cur
    <3> QED BY <3>1, <3>2, <3>4, <3>5 DEF Course, Actors, ConnectLabels, CallLabels, EnterLabels
  <2>2. ASSUME NEW t \in Transports, Dispatch(t) PROVE \A b \in Actors : Course(b)
    <3>1. /\ pc[Poller] = "wait" /\ pc' = [pc EXCEPT ![Poller] = "update"] /\ UNCHANGED arg
      BY <2>2 DEF Dispatch, At, locals
    <3>2. Stays(User) /\ pc'[Poller] = "update"
      BY <1>p, <3>1 DEF Stays, cur
    <3> QED BY <3>1, <3>2 DEF Course, Actors, ConnectLabels, CallLabels, EnterLabels
  <2>3. CASE startDeleted
    BY <1>s, <2>3 DEF startDeleted, Stop, place, locals
  <2>4. CASE removeConnection
    <3>1. pc[Poller] = "removeConnection" /\ UNCHANGED arg /\ \E l \in {"wait", "write"} : Goto(Poller, l)
      BY <1>p, <2>4 DEF removeConnection, At, locals, AfterCallback
    <3> QED BY <1>t, <1>p, <1>l, <3>1, Passes DEF EnterLabels
  <2> QED BY <1>6, <2>1, <2>2, <2>3, <2>4 DEF Serves
<1>7. ASSUME Works PROVE \A b \in Actors : Course(b)
  <2>1. /\ UNCHANGED arg /\ pc[Poller] \notin {"socket", "connect"} \cup EnterLabels
        /\ \/ UNCHANGED <<pc, serving>>
           \/ \E l \in {"wait", "read", "write", "receive", "publish", "error"} : Goto(Poller, l)
    BY <1>7 DEF Works, socketUpdate, readNothing, readMessage, receive, publish, writeMessage,
                writeNothing, Unlock, Stop, At, locals, place, EnterLabels
  <2> QED BY <1>t, <1>p, <1>l, <1>s, <2>1, Passes
<1>8. ASSUME Elsewhere PROVE \A b \in Actors : Course(b)
  BY <1>s, <1>8 DEF Elsewhere, PeerAccepts, PeerEnds, PeerResets, PeerSends, LinkChanges, vars,
                    place, locals
<1> QED BY <1>1, <1>2, <1>3, <1>4, <1>5, <1>6, <1>7, <1>8, <1>9, StepKinds

\* A process that has stopped takes no step.
LEMMA Halts ==
  ASSUME [Next]_vars, ~Running
  PROVE  UNCHANGED vars
BY DEF Next, UserStep, PollerStep, Connecting, At, LinkChanges, unregisterSubscription, subscribe,
       shutdown, destroy, delete, onDisconnect, removeConnection, start, startDeleted, socket,
       connect, initializeSocket, setNonBlocking, takeSock, addSocket, setDisconnectCallback,
       enableRead, enableReadAdd, sendMessage, enableWrite, enableWriteAdd, sendFramesPush,
       Dispatch, socketUpdate, readNothing, readMessage, readEnd,
       receive, publish, response, writeMessage, writeFails, writeNothing, socketError,
       PeerAccepts, PeerEnds, PeerResets, PeerSends

\* Whoever makes a connection is the only one to make it, so that it finds at its next label
\* what it has left.
LEMMA StepMaking ==
  ASSUME IndInv, [Next]_vars, ConnStep, \A b \in Actors : Course(b)
  PROVE  Making'
<1>t. TypeOK /\ Places /\ Making /\ Life /\ Life'
  BY StepLife DEF IndInv
<1>c. \A a \in Actors : pc[a] \in ConnectLabels =>
        /\ cur(a) \in Transports
        /\ \A b \in Actors : pc[b] \in ConnectLabels /\ cur(b) = cur(a) => b = a
  BY <1>t, Mine
<1>l. /\ {"socket", "connect"} \subseteq ConnectLabels /\ CallLabels \subseteq ConnectLabels
      /\ EnterLabels \subseteq ConnectLabels /\ EnterLabels \cap CallLabels = {}
      /\ {"socket", "connect"} \cap CallLabels = {} /\ {"addRead", "addWrite"} \subseteq CallLabels
      /\ {"socket", "connect"} \cap EnterLabels = {}
      /\ {"initializeSocket", "addSocket"} \subseteq EnterLabels
  BY DEF ConnectLabels, CallLabels, EnterLabels
<1>g. shut \subseteq shut'
  BY <1>t, ObjectSteps
\* A new connection stays as it is while its thread stays where it is.
<1>n. ASSUME NEW b \in Actors, pc[b] \in {"socket", "connect"}, pc'[b] = pc[b], fault' = "no",
             tr[cur(b)].link = "new"
      PROVE  \/ tr'[cur(b)].link = "new" /\ tr'[cur(b)].sock = tr[cur(b)].sock
             \/ tr[cur(b)].sock # NoFd /\ tr'[cur(b)].link = "closed"
  <2> DEFINE t == cur(b)
  <2>1. t \in Transports
    BY <1>c, <1>l, <1>n
  <2>2. \A a \in Actors : pc[a] \in {"socket", "connect"} /\ cur(a) = t => a = b
    BY <1>c, <1>l, <1>n
  <2>n. tr[t].link = "new"
    BY <1>n
  <2> HIDE DEF t
  <2>3. ~GetsSocket(t)
    BY <1>n, <2>2 DEF GetsSocket
  <2>5. ~By(t, {"socket"})
    BY <1>n, <2>2 DEF By
  <2>6. ~By(t, {"connect"})
    BY <1>n, <2>2 DEF By
  <2>7. CASE Idle \/ \E v \in Transports : Joins(v)
    BY <1>n, <2>7 DEF Idle, Joins, t
  <2>8. ASSUME NEW v \in Transports, v # t,
               \/ Touched(v) \/ StartsReading(v) \/ LinkMoves(v) \/ Born(v) \/ GetsSocket(v)
               \/ Fails(v) \/ Strands(v) \/ Dials(v) \/ IsClosed(v)
        PROVE  tr'[t] = tr[t]
    BY <2>1, <2>8 DEF Touched, StartsReading, LinkMoves, Born, GetsSocket, Fails, Strands, Dials,
                      IsClosed, Others
  <2>9. CASE Touched(t) \/ StartsReading(t)
    BY <1>n, <2>9 DEF Touched, StartsReading, Same, SameLink, SameSock, t
  <2>10. ~LinkMoves(t) /\ ~Born(t) /\ ~Fails(t) /\ ~Strands(t) /\ ~Dials(t)
    BY <1>n, <2>2, <2>5, <2>6, <2>n DEF LinkMoves, Born, Fails, Strands, Dials, Open
  <2>11. CASE IsClosed(t)
    BY <2>11 DEF IsClosed, t
  <2> QED BY <1>n, <2>1, <2>3, <2>7, <2>8, <2>9, <2>10, <2>11 DEF ConnStep, t
\* A connection in initializeSocket is open, or has been closed by shutdown().
<1>r. ASSUME NEW b \in Actors, pc[b] \in EnterLabels
      PROVE  /\ tr'[cur(b)].link \in Open \cup {"closed"} /\ ~tr'[cur(b)].expecting_read
             /\ tr'[cur(b)].closed => shut' # {} /\ cur(b) \in Pubs
  <2>1. /\ cur(b) \in Transports /\ tr[cur(b)].link \in Open \cup {"closed"}
        /\ ~tr[cur(b)].expecting_read
        /\ tr[cur(b)].closed => shut # {} /\ cur(b) \in Pubs
    BY <1>t, <1>c, <1>l, <1>r DEF Making
  <2>2. ~StartsReading(cur(b))
    BY <1>c, <1>l, <1>r DEF StartsReading
  <2>3. tr'[cur(b)].closed /\ ~tr[cur(b)].closed => shut' # {} /\ cur(b) \in Pubs
    <3>1. Registering(cur(b))
      BY <1>r DEF Registering
    <3> QED BY <2>1, <3>1, LinkSteps DEF IsClosed, Open
  <2>4. /\ tr'[cur(b)].link \in Open \cup {"closed"}
        /\ tr'[cur(b)].expecting_read = tr[cur(b)].expecting_read
    BY <2>1, <2>2, LinkSteps
  <2>5. tr[cur(b)].closed => shut' # {} /\ cur(b) \in Pubs
    BY <1>g, <2>1
  <2> QED BY <2>1, <2>3, <2>4, <2>5
<1>1. ASSUME NEW b \in Actors
      PROVE  /\ At(b, "socket")' => tr'[cur(b)'].link = "new" /\ tr'[cur(b)'].sock = NoFd
             /\ At(b, "connect")' =>
                  tr'[cur(b)'].link = "closed" \/ (tr'[cur(b)'].link = "new" /\ tr'[cur(b)'].sock # NoFd)
             /\ pc'[b] \in EnterLabels =>
                  /\ tr'[cur(b)'].link \in Open \cup {"closed"} /\ ~tr'[cur(b)'].expecting_read
                  /\ tr'[cur(b)'].closed => shut' # {} /\ cur(b)' \in Pubs
             /\ pc'[b] \in CallLabels => tr'[cur(b)'].link \notin {"none", "new"}
             /\ pc'[b] \in {"addSocket", "addRead", "addWrite"} =>
                  arg'[b] = tr'[cur(b)'].sock \/ tr'[cur(b)'].sock = NoFd
  <2>m. /\ At(b, "socket") => tr[cur(b)].link = "new" /\ tr[cur(b)].sock = NoFd
        /\ At(b, "connect") =>
             tr[cur(b)].link = "closed" \/ (tr[cur(b)].link = "new" /\ tr[cur(b)].sock # NoFd)
        /\ pc[b] \in EnterLabels => tr[cur(b)].link \in Open \cup {"closed"}
        /\ pc[b] \in CallLabels => tr[cur(b)].link \notin {"none", "new"}
        /\ pc[b] \in {"addSocket", "addRead", "addWrite"} =>
             arg[b] = tr[cur(b)].sock \/ tr[cur(b)].sock = NoFd
    BY <1>t DEF Making
  <2>s. pc[b] \in ConnectLabels =>
          /\ tr[cur(b)].link = "closed" => tr'[cur(b)].link = "closed"
          /\ tr[cur(b)].link \notin {"none", "new"} => tr'[cur(b)].link \notin {"none", "new"}
          /\ \/ tr'[cur(b)].sock = tr[cur(b)].sock \/ tr'[cur(b)].sock = NoFd
             \/ tr[cur(b)].link = "new"
    BY <1>c, LinkSteps
  <2>o. Open \cup {"closed"} \subseteq Links \ {"none", "new"}
    BY DEF Open, Links
  <2>1. CASE Stays(b)
    <3>1. pc'[b] = pc[b] /\ cur(b)' = cur(b) /\ arg'[b] = arg[b]
      BY <2>1 DEF Stays
    <3>2. fault' = "no" => Running
      BY Halts DEF Running, vars
    <3>3. At(b, "socket")' => tr'[cur(b)'].link = "new" /\ tr'[cur(b)'].sock = NoFd
      BY <1>n, <2>m, <3>1, <3>2 DEF At, Running
    <3>4. At(b, "connect")' =>
            tr'[cur(b)'].link = "closed" \/ (tr'[cur(b)'].link = "new" /\ tr'[cur(b)'].sock # NoFd)
      BY <1>n, <1>l, <2>m, <2>s, <3>1, <3>2 DEF At, Running
    <3>5. pc'[b] \in EnterLabels =>
            /\ tr'[cur(b)'].link \in Open \cup {"closed"} /\ ~tr'[cur(b)'].expecting_read
            /\ tr'[cur(b)'].closed => shut' # {} /\ cur(b)' \in Pubs
      BY <1>r, <3>1
    <3>6. pc'[b] \in CallLabels => tr'[cur(b)'].link \notin {"none", "new"}
      BY <1>l, <2>m, <2>s, <3>1
    <3>7. pc'[b] \in {"addSocket", "addRead", "addWrite"} =>
            arg'[b] = tr'[cur(b)'].sock \/ tr'[cur(b)'].sock = NoFd
      BY <1>l, <2>m, <2>s, <2>o, <3>1
    <3> QED BY <3>3, <3>4, <3>5, <3>6, <3>7
  <2>2. CASE /\ pc'[b] = "socket" /\ pc[b] \notin ConnectLabels
             /\ Born(cur(b)') /\ cur(b)' \in Transports
    <3>1. tr'[cur(b)'].link = "new" /\ tr'[cur(b)'].sock = NoFd
      BY <1>t, <2>2 DEF Born, SameSock, Life
    <3> QED BY <1>l, <2>2, <3>1 DEF At
  <2>3. CASE /\ cur(b)' = cur(b) /\ pc[b] = "socket" /\ pc'[b] = "connect"
             /\ tr'[cur(b)].link = "new" /\ tr'[cur(b)].sock # NoFd
    BY <1>l, <2>3 DEF At
  <2>4. CASE /\ cur(b)' = cur(b) /\ pc[b] \in {"socket", "connect"}
             /\ pc'[b] \in CallLabels \ {"addRead", "addWrite"}
             /\ tr'[cur(b)].link \notin {"none", "new"}
    BY <1>l, <2>4 DEF At
  <2>5. CASE /\ cur(b)' = cur(b) /\ pc[b] \in CallLabels /\ pc'[b] \in CallLabels
             /\ pc'[b] \in {"addRead", "addWrite"} =>
                  arg'[b] = tr[cur(b)].sock /\ tr' = tr /\ ~tr[cur(b)].closed
    BY <1>l, <2>m, <2>s, <2>5 DEF At
  <2>6. CASE pc[b] \notin {"socket", "connect"} \cup EnterLabels /\ pc'[b] \notin ConnectLabels
    BY <1>l, <2>6 DEF At
  <2>7. CASE /\ cur(b)' = cur(b) /\ pc[b] = "connect" /\ pc'[b] = "initializeSocket"
             /\ Dials(cur(b))
    <3>1. cur(b) \in Transports
      BY <1>c, <1>l, <2>7
    <3>2. tr'[cur(b)].link = "connecting" /\ ~tr'[cur(b)].closed /\ ~tr'[cur(b)].expecting_read
      BY <1>t, <2>7, <3>1 DEF Dials, SameReading, Life
    <3> QED BY <1>l, <2>7, <3>2 DEF At, Open
  <2>8. CASE /\ cur(b)' = cur(b) /\ pc[b] \in EnterLabels /\ pc'[b] \in EnterLabels
             /\ pc'[b] = "addSocket" => arg'[b] = tr[cur(b)].sock
             /\ tr' = tr
    BY <1>l, <1>r, <2>8 DEF At
  <2>9. CASE /\ cur(b)' = cur(b) /\ pc[b] \in EnterLabels
             /\ pc'[b] \in CallLabels \ {"addRead", "addWrite"}
    BY <1>l, <2>m, <2>s, <2>o, <2>9 DEF At
  <2> QED BY <2>1, <2>2, <2>3, <2>4, <2>5, <2>6, <2>7, <2>8, <2>9 DEF Course
<1>2. ASSUME NEW t \in Transports, tr'[t].link = "new", tr'[t].sock # NoFd
      PROVE  \E a \in Actors : pc'[a] = "connect" /\ cur(a)' = t
  <2>1. CASE GetsSocket(t)
    BY <2>1 DEF GetsSocket
  <2>2. CASE ~GetsSocket(t)
    <3>1. tr[t].link = "new" /\ tr[t].sock # NoFd
      <4>1. CASE Idle \/ \E v \in Transports : Joins(v)
        BY <1>2, <4>1 DEF Idle, Joins
      <4>2. ASSUME NEW v \in Transports, v # t,
                   \/ Touched(v) \/ StartsReading(v) \/ LinkMoves(v) \/ Born(v) \/ GetsSocket(v)
                   \/ Fails(v) \/ Strands(v) \/ Dials(v) \/ IsClosed(v)
            PROVE  tr'[t] = tr[t]
        BY <4>2 DEF Touched, StartsReading, LinkMoves, Born, GetsSocket, Fails, Strands, Dials,
                    IsClosed, Others
      <4>3. CASE Touched(t) \/ StartsReading(t)
        BY <1>2, <4>3 DEF Touched, StartsReading, Same, SameLink, SameSock
      <4>4. ~LinkMoves(t) /\ ~Fails(t) /\ ~Strands(t) /\ ~Dials(t) /\ ~IsClosed(t)
        BY <1>2 DEF LinkMoves, Fails, Strands, Dials, IsClosed, Open
      <4>5. ~Born(t)
        BY <1>t, <1>2 DEF Born, SameSock, Life
      <4> QED BY <1>2, <2>2, <4>1, <4>2, <4>3, <4>4, <4>5 DEF ConnStep
    <3>2. PICK a \in Actors : pc[a] = "connect" /\ cur(a) = t
      BY <1>t, <3>1 DEF Making
    <3>3. tr'[cur(a)].link = "new" /\ ~Dials(cur(a)) /\ Course(a)
      BY <1>2, <3>2 DEF Dials
    <3> QED BY <1>l, <3>2, <3>3 DEF Course, Stays
  <2> QED BY <2>1, <2>2
<1> QED BY <1>1, <1>2 DEF Making

\* Which connections are in initializeSocket after a step.
LEMMA StepRegistering ==
  ASSUME IndInv, \A b \in Actors : Course(b), NEW t \in Transports
  PROVE  /\ Registering(t) => Registering(t)' \/ Joins(t) \/ tr[t].sock = NoFd
         /\ Registering(t)' => Registering(t) \/ Dials(t)
         /\ Joins(t) => ~Registering(t)'
<1>t. Places /\ Making /\ Life
  BY DEF IndInv
<1>l. /\ {"socket", "connect"} \subseteq ConnectLabels /\ CallLabels \subseteq ConnectLabels
      /\ EnterLabels \subseteq ConnectLabels /\ EnterLabels \cap CallLabels = {}
      /\ {"socket", "connect"} \cap EnterLabels = {} /\ "addSocket" \in EnterLabels
  BY DEF ConnectLabels, CallLabels, EnterLabels
<1>1. ASSUME NEW b \in Actors, pc[b] \in EnterLabels, cur(b) = t
      PROVE  Registering(t)' \/ Joins(t) \/ tr[t].sock = NoFd
  <2>1. Course(b)
    OBVIOUS
  <2>2. (pc'[b] \in EnterLabels /\ cur(b)' = t) \/ Joins(t) \/ tr[t].sock = NoFd
    BY <1>1, <1>l, <2>1 DEF Course, Stays
  <2> QED BY <2>2 DEF Registering
<1>2. ASSUME NEW b \in Actors, pc'[b] \in EnterLabels, cur(b)' = t
      PROVE  (pc[b] \in EnterLabels /\ cur(b) = t) \/ Dials(t)
  <2>1. Course(b)
    OBVIOUS
  <2> QED BY <1>2, <1>l, <2>1 DEF Course, Stays
<1>3. ASSUME Joins(t), NEW b \in Actors, pc'[b] \in EnterLabels, cur(b)' = t
      PROVE  FALSE
  <2>1. PICK a \in Actors : pc[a] = "addSocket" /\ cur(a) = t /\ pc'[a] \notin EnterLabels
    BY <1>3 DEF Joins
  <2>2. ~Dials(t)
    BY <1>3 DEF Joins, Dials
  <2>3. pc[b] \in EnterLabels /\ cur(b) = t
    BY <1>2, <1>3, <2>2
  <2>4. b = a
    BY <1>t, <1>l, <2>1, <2>3, Mine
  <2> QED BY <1>3, <2>1, <2>4
<1> QED BY <1>1, <1>2, <1>3 DEF Registering

\* An entry of the poll set stays, with its interest in POLLIN, until the connection that has
\* the descriptor is closed; addSocket alone makes one.
LEMMA EntrySteps ==
  ASSUME TypeOK, ConnStep, NEW s \in Slots
  PROVE  /\ entry[s] # NoTransport =>
              \/ entry'[s] = entry[s] /\ ("IN" \in events[s] => "IN" \in events'[s])
              \/ \E t \in Transports : IsClosed(t) /\ tr[t].sock = s
         /\ (\E t \in Transports : IsClosed(t) /\ tr[t].sock = s) => entry'[s] = NoTransport
         /\ entry'[s] # NoTransport =>
              \/ entry'[s] = entry[s]
              \/ \E a \in Actors : /\ entry'[s] \in Transports /\ Joins(entry'[s]) /\ arg[a] = s
                                   /\ pc[a] = "addSocket" /\ cur(a) = entry'[s]
<1>t. /\ entry \in [Slots -> Transports \cup {NoTransport}]
      /\ events \in [Slots -> SUBSET {"IN", "OUT"}] /\ NoTransport \notin Transports
      /\ Fds \subseteq Slots /\ NoFd \notin Fds
  BY DEF TypeOK, Slots, Transports
<1>c. ASSUME NEW t \in Transports, IsClosed(t), tr[t].sock = s PROVE entry'[s] = NoTransport
  BY <1>t, <1>c DEF IsClosed
<1>1. CASE PollSetStays
  BY <1>t, <1>c, <1>1 DEF PollSetStays
<1>2. ASSUME NEW t \in Transports, IsClosed(t)
      PROVE  /\ entry[s] # NoTransport =>
                  \/ entry'[s] = entry[s] /\ ("IN" \in events[s] => "IN" \in events'[s])
                  \/ IsClosed(t) /\ tr[t].sock = s
             /\ entry'[s] # NoTransport => entry'[s] = entry[s]
  BY <1>t, <1>2 DEF IsClosed
<1>3. ASSUME NEW t \in Transports, Joins(t)
      PROVE  /\ entry[s] # NoTransport =>
                  entry'[s] = entry[s] /\ ("IN" \in events[s] => "IN" \in events'[s])
             /\ entry'[s] # NoTransport =>
                  \/ entry'[s] = entry[s]
                  \/ \E a \in Actors : /\ entry'[s] \in Transports /\ Joins(entry'[s])
                                       /\ arg[a] = s
                                       /\ pc[a] = "addSocket" /\ cur(a) = entry'[s]
  <2>1. PICK a \in Actors :
          /\ pc[a] = "addSocket" /\ cur(a) = t
          /\ \/ /\ entry[arg[a]] = NoTransport
                /\ entry' = [entry EXCEPT ![arg[a]] = t]
                /\ events' = [events EXCEPT ![arg[a]] = {}]
             \/ entry' = entry /\ events' = events
    BY <1>3 DEF Joins
  <2>2. CASE arg[a] = s /\ entry' = [entry EXCEPT ![arg[a]] = t] /\ entry[arg[a]] = NoTransport
    <3>1. entry'[s] = t
      BY <1>t, <2>2
    <3> QED BY <1>3, <2>1, <2>2, <3>1
  <2>3. CASE ~(arg[a] = s /\ entry' = [entry EXCEPT ![arg[a]] = t] /\ entry[arg[a]] = NoTransport)
    BY <1>t, <2>1, <2>3
  <2> QED BY <2>2, <2>3
<1> QED BY <1>c, <1>1, <1>2, <1>3
    DEF ConnStep, Idle, Touched, StartsReading, LinkMoves, Born, GetsSocket, Fails, Strands, Dials

LEMMA StepDescriptors ==
  ASSUME IndInv, [Next]_vars, ConnStep, \A b \in Actors : Course(b)
  PROVE  Descriptors'
<1>t. /\ TypeOK /\ Descriptors /\ Life /\ Making /\ Places
      /\ NoTransport \notin Transports /\ Fds \subseteq Slots /\ NoFd \notin Fds
  BY DEF IndInv, Transports, Slots
<1>s. \A v \in Transports : tr[v].sock \in Slots
  BY <1>t DEF TypeOK, Transport, Slots
<1>u. \A v, w \in Transports : tr[v].sock # NoFd /\ tr[v].sock = tr[w].sock => v = w
  BY <1>t DEF Descriptors
<1>e. \A s \in Slots : entry[s] # NoTransport =>
        /\ entry[s] \in Transports /\ tr[entry[s]].link \in Open \cup {"closed"}
        /\ ~Registering(entry[s])
  BY <1>t DEF Descriptors, TypeOK
<1>f. \A s \in Slots : entry[s] # NoTransport /\ s # NoFd =>
        tr[entry[s]].sock = s \/ Lost(s)
  BY <1>t DEF Descriptors, Slots
<1>g. shut \subseteq shut'
  BY <1>t, ObjectSteps
<1>l. /\ "new" \notin Open \cup {"closed"} /\ "none" \notin Open \cup {"closed"}
      /\ "closed" \notin Open /\ "failed" \notin Open \cup {"closed"}
      /\ "connecting" \in Open /\ "addSocket" \in EnterLabels
  BY DEF Open, EnterLabels
\* The number that addSocket gets is the one of the transport, which may be closed by now.
<1>j. ASSUME NEW a \in Actors, pc[a] = "addSocket"
      PROVE  /\ cur(a) \in Transports /\ tr[cur(a)].link \in Open \cup {"closed"}
             /\ ~tr[cur(a)].expecting_read
             /\ \/ arg[a] = tr[cur(a)].sock /\ tr[cur(a)].sock # NoFd
                \/ /\ tr[cur(a)].closed /\ shut # {} /\ tr[cur(a)].link = "closed"
                   /\ cur(a) \in Pubs
  <2>1. /\ tr[cur(a)].link \in Open \cup {"closed"} /\ ~tr[cur(a)].expecting_read
        /\ tr[cur(a)].closed => shut # {} /\ cur(a) \in Pubs
        /\ arg[a] = tr[cur(a)].sock \/ tr[cur(a)].sock = NoFd
    BY <1>t, <1>l, <1>j DEF Making
  <2>2. cur(a) \in Transports
    BY <1>t, <1>j, Mine DEF ConnectLabels, EnterLabels
  <2>3. tr[cur(a)].link \in Open => tr[cur(a)].sock # NoFd
    BY <1>t, <2>2 DEF Descriptors
  <2>4. tr[cur(a)].link = "closed" => tr[cur(a)].closed
    BY <1>t, <2>2 DEF Life
  <2> QED BY <2>1, <2>2, <2>3, <2>4
\* Nobody is about to read from a connection that is closed and has not come so far.
<1>r. ASSUME NEW a \in Actors, pc'[a] = "addRead"
      PROVE  (pc[a] = "addRead" /\ cur(a) = cur(a)') \/ ~tr[cur(a)'].closed
  <2>1. Course(a)
    OBVIOUS
  <2> QED BY <1>r, <2>1 DEF Course, Stays, ConnectLabels, EnterLabels, CallLabels
\* A closed transport stays in the poll set until the next one with its number is closed.
<1>o. ASSUME NEW v \in Transports, Left(v) PROVE Left(v)'
  <2>1. /\ v \in Pubs /\ tr[v].closed /\ ~tr[v].expecting_read
        /\ \A a \in Actors : pc[a] = "addRead" => cur(a) # v
    BY <1>o DEF Left
  <2>2. tr'[v].closed
    BY <2>1, LinkSteps
  <2>3. ~tr'[v].expecting_read
    BY <2>1, LinkSteps DEF StartsReading
  <2>4. ASSUME NEW a \in Actors, pc'[a] = "addRead", cur(a)' = v PROVE FALSE
    BY <1>r, <2>1, <2>4
  <2>5. shut' # {}
    BY <1>g, <1>o DEF Left
  <2> QED BY <2>1, <2>2, <2>3, <2>4, <2>5 DEF Left
<1>1. ASSUME NEW v \in Transports, NEW w \in Transports, tr'[v].sock # NoFd,
             tr'[v].sock = tr'[w].sock
      PROVE  v = w
  <2>1. ASSUME NEW x \in Transports
        PROVE  \/ tr'[x].sock = tr[x].sock \/ tr'[x].sock = NoFd
               \/ GetsSocket(x)
    <3>1. CASE tr'[x] = tr[x] \/ SameSock(x)
      BY <3>1 DEF SameSock
    <3>2. CASE Fails(x) \/ IsClosed(x)
      BY <3>2 DEF Fails, IsClosed
    <3>3. ASSUME NEW y \in Transports, y # x,
                 \/ Touched(y) \/ StartsReading(y) \/ LinkMoves(y) \/ Born(y) \/ GetsSocket(y)
                 \/ Fails(y) \/ Strands(y) \/ Dials(y) \/ IsClosed(y)
          PROVE  tr'[x] = tr[x]
      BY <3>3 DEF Touched, StartsReading, LinkMoves, Born, GetsSocket, Fails, Strands, Dials,
                  IsClosed, Others
    <3>4. Touched(x) \/ StartsReading(x) \/ LinkMoves(x) \/ Born(x) \/ Strands(x) \/ Dials(x) =>
            SameSock(x)
      BY DEF Touched, Same, StartsReading, LinkMoves, Born, Strands, Dials
    <3>5. Idle \/ (\E y \in Transports : Joins(y)) => tr' = tr
      BY DEF Idle, Joins
    <3> QED BY <3>1, <3>2, <3>3, <3>4, <3>5 DEF ConnStep
  <2>2. ASSUME NEW x \in Transports, NEW y \in Transports, x # y, GetsSocket(x)
        PROVE  tr'[x].sock # tr'[y].sock
    BY <2>2 DEF GetsSocket, Others, FreeFds
  <2>3. CASE GetsSocket(v) \/ GetsSocket(w)
    BY <1>1, <2>2, <2>3
  <2>4. CASE ~GetsSocket(v) /\ ~GetsSocket(w)
    <3>1. tr'[v].sock = tr[v].sock /\ tr'[w].sock = tr[w].sock
      BY <1>1, <2>1, <2>4
    <3> QED BY <1>1, <1>u, <3>1
  <2> QED BY <2>3, <2>4
<1>2. ASSUME NEW s \in Slots, entry'[s] # NoTransport
      PROVE  tr'[entry'[s]].link \in Open \cup {"closed"} /\ ~Registering(entry[s])'
  <2>1. ASSUME NEW v \in Transports, v = entry[s]
        PROVE  tr'[v].link \in Open \cup {"closed"} /\ ~Registering(v)'
    <3>1. tr[v].link \in Open \cup {"closed"} /\ ~Registering(v)
      BY <1>t, <1>e, <2>1
    <3>2. ~Dials(v)
      BY <1>l, <3>1 DEF Dials
    <3>3. ~Registering(v)'
      BY <3>1, <3>2, StepRegistering
    <3>4. tr'[v].link \in Open \cup {"closed"}
      BY <3>1, LinkSteps
    <3> QED BY <3>3, <3>4
  <2>2. ASSUME NEW v \in Transports, Joins(v), NEW a \in Actors, pc[a] = "addSocket", cur(a) = v
        PROVE  tr'[v].link \in Open \cup {"closed"} /\ ~Registering(v)'
    <3>1. tr[v].link \in Open \cup {"closed"} /\ tr' = tr
      BY <1>j, <2>2 DEF Joins
    <3> QED BY <2>2, <3>1, StepRegistering
  <2>3. PICK v \in Transports : /\ v = entry'[s]
                                /\ tr'[v].link \in Open \cup {"closed"} /\ ~Registering(v)'
    <3>1. CASE entry'[s] = entry[s]
      BY <1>e, <1>2, <2>1, <3>1
    <3>2. CASE entry'[s] # entry[s]
      <4>1. PICK v \in Transports, a \in Actors :
              v = entry'[s] /\ Joins(v) /\ pc[a] = "addSocket" /\ cur(a) = v
        BY <1>t, <1>2, <3>2, EntrySteps
      <4> QED BY <2>2, <4>1
    <3> QED BY <3>1, <3>2
  <2> QED BY <2>3 DEF Registering
<1>3. ASSUME NEW fd \in Fds, entry'[fd] # NoTransport
      PROVE  tr'[entry'[fd]].sock = fd \/ Lost(fd)'
  <2> DEFINE v == entry'[fd]
  <2>s. fd \in Slots /\ fd # NoFd
    BY <1>t
  <2>1. CASE v = entry[fd]
    <3>1. v \in Transports /\ tr[v].link \in Open \cup {"closed"}
      BY <1>e, <1>3, <2>1, <2>s
    <3>2. CASE tr[v].sock = fd
      <4>1. ~IsClosed(v)
        BY <1>t, <1>3, <2>s, <3>1, <3>2, EntrySteps
      <4> HIDE DEF v
      <4>2. tr'[v].sock = tr[v].sock
        BY <1>l, <3>1, <4>1, LinkSteps
      <4> QED BY <3>2, <4>2 DEF v
    <3>3. CASE Lost(fd)
      BY <1>o, <2>1, <3>1, <3>3 DEF Lost
    <3> QED BY <1>f, <1>3, <2>1, <2>s, <3>2, <3>3
  <2>2. ASSUME NEW a \in Actors, v \in Transports, Joins(v), arg[a] = fd, pc[a] = "addSocket",
               cur(a) = v
        PROVE  tr'[v].sock = fd \/ Lost(fd)'
    <3>1. CASE tr[v].sock = fd
      BY <2>2, <3>1 DEF Joins
    <3>2. CASE tr[v].sock # fd
      <4>w. PICK w \in Transports : w = v
        BY <2>2
      <4>1. /\ tr[w].closed /\ shut # {} /\ ~tr[w].expecting_read /\ w \in Pubs
            /\ tr' = tr /\ shut' # {} /\ pc[a] = "addSocket" /\ cur(a) = w
        BY <1>j, <1>g, <2>2, <3>2, <4>w DEF Joins
      <4>2. ASSUME NEW b \in Actors, pc'[b] = "addRead", cur(b)' = w PROVE FALSE
        <5>1. pc[b] = "addRead" /\ cur(b) = w
          BY <1>r, <4>1, <4>2
        <5> QED BY <1>t, <4>1, <5>1, Mine DEF ConnectLabels, EnterLabels, CallLabels
      <4>3. Left(w)'
        BY <4>1, <4>2 DEF Left
      <4> QED BY <1>3, <4>w, <4>3 DEF Lost
    <3> QED BY <3>1, <3>2
  <2> QED BY <1>t, <1>3, <2>s, <2>1, <2>2, EntrySteps
<1>4. ASSUME NEW v \in Transports, tr'[v].link \in Open
      PROVE  tr'[v].sock # NoFd /\ Tracked(v)'
  <2>1. CASE Dials(v)
    <3>1. tr'[v].sock # NoFd
      BY <2>1 DEF Dials, SameSock
    <3>2. Registering(v)'
      BY <2>1 DEF Dials, Registering, EnterLabels
    <3> QED BY <3>1, <3>2 DEF Tracked
  <2>2. ASSUME ~Dials(v), NEW s \in Slots, s = tr[v].sock
        PROVE  tr'[v].sock # NoFd /\ Tracked(v)'
    <3>1. tr[v].link \in Open /\ s # NoFd /\ Tracked(v) /\ s = tr[v].sock
      BY <1>t, <1>4, <2>2, LinkSteps DEF Descriptors
    <3>2. ~IsClosed(v)
      BY <1>4, <1>l DEF IsClosed
    <3>3. tr'[v].sock = s
      BY <1>l, <3>1, <3>2, LinkSteps
    <3>4. ~\E t \in Transports : IsClosed(t) /\ tr[t].sock = s
      BY <1>u, <3>1, <3>2
    <3>k. entry[s] # NoTransport =>
            entry'[s] = entry[s] /\ ("IN" \in events[s] => "IN" \in events'[s])
      BY <1>t, <3>1, <3>4, EntrySteps
    <3>5. CASE Lost(s)
      <4>1. entry'[s] = entry[s]
        BY <3>5, <3>k DEF Lost
      <4>2. Lost(s)'
        BY <1>e, <1>o, <3>5, <4>1 DEF Lost
      <4> QED BY <3>1, <3>3, <4>2 DEF Tracked, Lost
    <3>6. CASE entry[s] = v /\ (tr[v].expecting_read => "IN" \in events[s])
      <4>1. entry'[s] = v
        BY <1>t, <3>6, <3>k
      <4>2. tr'[v].expecting_read => "IN" \in events'[s]
        BY <1>t, <3>1, <3>6, <3>k, LinkSteps DEF StartsReading
      <4> QED BY <3>1, <3>3, <4>1, <4>2 DEF Tracked
    <3>7. CASE Registering(v) /\ Joins(v)
      <4>1. PICK a \in Actors :
              /\ pc[a] = "addSocket" /\ cur(a) = v
              /\ \/ /\ entry[arg[a]] = NoTransport /\ entry' = [entry EXCEPT ![arg[a]] = v]
                 \/ entry[arg[a]] # NoTransport
        BY <3>7 DEF Joins
      <4>2. arg[a] = s /\ ~tr[v].expecting_read
        BY <1>j, <1>l, <3>1, <4>1
      <4>3. CASE entry[s] = NoTransport
        <5>1. entry'[s] = v
          BY <1>t, <3>1, <4>1, <4>2, <4>3 DEF TypeOK
        <5>2. ~tr'[v].expecting_read
          BY <3>7, <4>2 DEF Joins
        <5> QED BY <3>1, <3>3, <5>1, <5>2 DEF Tracked
      <4>4. CASE entry[s] # NoTransport
        <5>1. ~Registering(entry[s]) /\ entry[s] \in Transports
          BY <1>e, <3>1, <4>4
        <5>2. tr[entry[s]].sock # s
          BY <1>u, <3>1, <3>7, <5>1
        <5>3. Lost(s)
          BY <1>f, <3>1, <4>4, <5>2
        <5> QED BY <3>5, <5>3
      <4> QED BY <4>3, <4>4
    <3>8. CASE Registering(v)'
      BY <3>1, <3>3, <3>8 DEF Tracked
    <3> QED BY <3>1, <3>5, <3>6, <3>7, <3>8, StepRegistering DEF Tracked
  <2>3. tr[v].sock \in Slots
    BY <1>t, <1>s DEF TypeOK
  <2> QED BY <2>1, <2>2, <2>3
<1>5. /\ \A v, w \in Transports : tr'[v].sock # NoFd /\ tr'[v].sock = tr'[w].sock => v = w
      /\ \A s \in Slots : entry'[s] # NoTransport =>
           tr'[entry'[s]].link \in Open \cup {"closed"} /\ ~Registering(entry[s])'
      /\ \A fd \in Fds : entry'[fd] # NoTransport => tr'[entry'[fd]].sock = fd \/ Lost(fd)'
      /\ \A v \in Transports : tr'[v].link \in Open => tr'[v].sock # NoFd /\ Tracked(v)'
  BY <1>1, <1>2, <1>3, <1>4
<1> QED BY <1>5 DEF Descriptors

\* How the poll thread comes into socketUpdate.

LEMMA PollerCourse ==
  ASSUME IndInv, [Next]_vars
  PROVE  /\ pc'[Poller] \in Serving =>
              (pc[Poller] \in Serving /\ serving' = serving) \/ \E t \in Transports : Dispatch(t)
         /\ pc'[Poller] \in {"read", "receive", "publish"} =>
              \/ pc[Poller] \in {"read", "receive", "publish"} /\ serving' = serving
              \/ socketUpdate /\ ~tr[serving].closed
<1>t. TypeOK /\ Places
  BY DEF IndInv
<1>p. pc \in [Actors -> Labels] /\ User # Poller /\ User \in Actors /\ Poller \in Actors
  BY <1>t DEF TypeOK, Actors
<1>l. {"read", "receive", "publish"} \subseteq Serving /\ Serving \cap ConnectLabels = {}
      /\ "wait" \notin Serving /\ "update" \in Serving
  BY DEF Serving, LockedLabels, ConnectLabels, EnterLabels, CallLabels
<1>s. ASSUME pc'[Poller] = pc[Poller], serving' = serving
      PROVE  /\ pc'[Poller] \in Serving => pc[Poller] \in Serving /\ serving' = serving
             /\ pc'[Poller] \in {"read", "receive", "publish"} =>
                  pc[Poller] \in {"read", "receive", "publish"} /\ serving' = serving
  BY <1>s
<1>u. ASSUME NEW l \in Labels, l # "wait", Goto(User, l)
      PROVE  pc'[Poller] = pc[Poller] /\ serving' = serving
  BY <1>p, <1>u DEF Goto
<1>1. ASSUME Begins PROVE pc'[Poller] = pc[Poller] /\ serving' = serving
  <2>1. \E l \in {"shutdown", "socket"} : Goto(User, l) /\ l \in Labels
    BY <1>1 DEF Begins, unregisterSubscription, subscribe, delete, Labels, ConnectLabels
  <2> QED BY <1>u, <2>1
<1>2. ASSUME NEW a \in Actors, Closes(a)
      PROVE  \/ pc'[Poller] = pc[Poller] /\ serving' = serving
             \/ pc[Poller] \in Serving /\ pc'[Poller] = "wait"
             \/ /\ pc[Poller] \in Serving /\ serving' = serving
                /\ pc'[Poller] \in {"write", "onDisconnect", "removeConnection"}
  <2>1. \/ UNCHANGED <<pc, serving>>
        \/ \E l \in {"destroy", "delete", "write", "wait", "onDisconnect", "removeConnection"} :
             Goto(a, l) /\ (a = User => l # "wait") /\ (a = Poller => l \notin {"destroy", "delete"})
    BY <1>2, <1>p
      DEF Closes, shutdown, destroy, ShutDown, readEnd, response, writeFails, socketError,
                onDisconnect, Stop, close, AfterCallback, place
  <2>2. \A l \in {"destroy", "delete", "write", "wait", "onDisconnect", "removeConnection"} :
          l \in Labels
    BY DEF Labels
  <2>3. a = Poller => pc[Poller] \in Serving
    BY <1>2, <1>p
      DEF Closes, readEnd, response, writeFails, socketError, onDisconnect, At, Serving,
                      LockedLabels
  <2> QED BY <1>p, <1>u, <2>1, <2>2, <2>3 DEF Goto, Actors
<1>3. ASSUME NEW a \in Actors, Makes(a) \/ Enters(a) \/ Enables(a) \/ Sends(a)
      PROVE  (pc'[Poller] = pc[Poller] /\ serving' = serving) \/ pc'[Poller] \notin Serving
  <2>2. \/ UNCHANGED <<pc, serving>>
        \/ \E l \in ConnectLabels \cup {"done", "wait"} : Goto(a, l) /\ (a = User => l # "wait")
    <3>1. CASE Makes(a)
      BY <3>1, <1>p DEF Makes, socket, connect, connectBegins, connectCloses, connectUnresolved,
                        connectClosed, connectFails, setDisconnectCallback, place, ConnectLabels,
                        EnterLabels, CallLabels
    <3>3. CASE Enters(a)
      BY <3>3, <1>p
        DEF Enters, initializeSocket, setNonBlocking, takeSock, addSocket, connectFails,
                        Stop, place, ConnectLabels, EnterLabels, CallLabels
    <3>2. CASE Enables(a) \/ Sends(a)
      BY <3>2, <1>p DEF Enables, Sends, enableRead, enableReadAdd, enableWrite, enableWriteAdd,
                        enableCheck, enableAdd, AfterRead, sendMessage, sendFramesPush,
                        ConnectLabels, CallLabels
    <3> QED BY <1>3, <3>1, <3>2, <3>3
  <2>3. \A l \in ConnectLabels \cup {"done", "wait"} : l \in Labels /\ l \notin Serving
    BY DEF Labels, Serving, LockedLabels, ConnectLabels, EnterLabels, CallLabels
  <2> QED BY <1>p, <1>u, <2>2, <2>3 DEF Goto, Actors
<1>4. ASSUME Serves
      PROVE  \/ pc'[Poller] = pc[Poller] /\ serving' = serving
             \/ pc'[Poller] = "update" /\ \E t \in Transports : Dispatch(t)
             \/ pc'[Poller] \in {"socket", "wait"}
             \/ pc[Poller] = "removeConnection" /\ pc'[Poller] = "write" /\ serving' = serving
  BY <1>4, <1>p
    DEF Serves, startDeleted, Stop, place, start, Dispatch, removeConnection, At, Goto,
                    AfterCallback
<1>5. ASSUME Works
      PROVE  \/ pc'[Poller] = pc[Poller] /\ serving' = serving
             \/ pc'[Poller] = "wait"
             \/ pc[Poller] = "update" /\ socketUpdate /\ ~tr[serving].closed /\ serving' = serving
             \/ pc[Poller] \in {"read", "receive", "publish"} /\ serving' = serving
             \/ pc[Poller] = "write" /\ pc'[Poller] = "error" /\ serving' = serving
  BY <1>5, <1>p DEF Works, socketUpdate, readNothing, readMessage, receive, publish, writeMessage,
                    writeNothing, Unlock, Stop, At, Goto, place
<1>6. ASSUME Elsewhere PROVE pc'[Poller] = pc[Poller] /\ serving' = serving
  BY <1>6 DEF Elsewhere, PeerAccepts, PeerEnds, PeerResets, PeerSends, LinkChanges, vars, place
<1> QED BY <1>l, <1>1, <1>2, <1>3, <1>4, <1>5, <1>6, StepKinds DEF Serving, LockedLabels

\* The connection that the poll thread is about was open when it began, and is as long as the
\* thread reads from it.
LEMMA StepServed ==
  ASSUME IndInv, [Next]_vars, ConnStep, \A b \in Actors : Course(b)
  PROVE  Served'
<1>t. TypeOK /\ Places /\ Served /\ Life /\ Descriptors
  BY DEF IndInv
<1>s. \A t \in Transports : tr[t].link \in Open \cup {"closed"} =>
        tr'[t].link \in Open \cup {"closed"}
  BY LinkSteps
<1>p. pc[Poller] \in Serving => serving \in Transports
  BY <1>t DEF TypeOK, Places, Serving, LockedLabels
<1>r. \A t \in Transports : tr[t].link \in Open \cup {"closed"} /\ ~Registering(t) => ~Registering(t)'
  <2>1. ASSUME NEW t \in Transports, tr[t].link \in Open \cup {"closed"}, ~Registering(t)
        PROVE  ~Registering(t)'
    <3>1. ~Dials(t)
      BY <2>1 DEF Dials, Open
    <3> QED BY <2>1, <3>1, StepRegistering
  <2> QED BY <2>1
<1>1. ASSUME pc'[Poller] \in Serving
      PROVE  tr'[serving'].link \in Open \cup {"closed"} /\ ~Registering(serving)'
  <2>1. CASE pc[Poller] \in Serving /\ serving' = serving
    <3>1. /\ tr'[serving].link \in Open \cup {"closed"} /\ ~Registering(serving)
          /\ tr[serving].link \in Open \cup {"closed"} /\ serving \in Transports
      BY <1>t, <1>s, <1>p, <2>1 DEF Served
    <3>2. PICK t \in Transports : t = serving /\ ~Registering(t)'
      BY <1>r, <3>1
    <3> QED BY <2>1, <3>1, <3>2 DEF Registering
  <2>2. ASSUME NEW t \in Transports, Dispatch(t)
        PROVE  tr'[serving'].link \in Open \cup {"closed"} /\ ~Registering(serving)'
    <3>1. PICK fd \in Fds : entry[fd] = t
      BY <2>2 DEF Dispatch
    <3>2. tr[t].link \in Open \cup {"closed"} /\ ~Registering(t)
      BY <1>t, <3>1 DEF Descriptors, Slots
    <3>3. tr'[t].link \in Open \cup {"closed"} /\ ~Registering(t)'
      BY <1>r, <1>s, <3>2
    <3>4. serving' = t
      BY <2>2 DEF Dispatch
    <3> QED BY <3>3, <3>4 DEF Registering
  <2> QED BY <1>1, <2>1, <2>2, PollerCourse
<1>2. ASSUME pc'[Poller] \in {"read", "receive", "publish"} PROVE tr'[serving'].link \in Open
  <2>1. CASE pc[Poller] \in {"read", "receive", "publish"} /\ serving' = serving
    <3>1. updating = serving /\ tr[serving].link \in Open /\ serving \in Transports
      BY <1>t, <1>p, <2>1 DEF Places, Served, LockedLabels, Serving
    <3> QED BY <1>2, <2>1, <3>1, LinkSteps
  <2>2. CASE socketUpdate /\ ~tr[serving].closed
    <3>1. tr[serving].link \in Open \cup {"closed"} /\ serving \in Transports
      BY <1>t, <1>p, <2>2 DEF socketUpdate, At, Served, Serving
    <3>2. tr[serving].link \in Open
      BY <1>t, <2>2, <3>1 DEF Life
    <3> QED BY <1>2, <2>2, <3>2 DEF socketUpdate, Goto
  <2> QED BY <1>2, <2>1, <2>2, PollerCourse
<1>3. /\ pc'[Poller] \in Serving =>
           tr'[serving'].link \in Open \cup {"closed"} /\ ~Registering(serving)'
      /\ pc'[Poller] \in {"read", "receive", "publish"} => tr'[serving'].link \in Open
  BY <1>1, <1>2
<1> QED BY <1>3 DEF Served, Serving, LockedLabels

\* The application's thread does not come back to what it has done, and onDisconnect is called
\* only when there has been a connection.
LEMMA UserCourse ==
  ASSUME IndInv, [Next]_vars
  PROVE  /\ pc'[User] \in {"idle", "shutdown", "destroy", "delete", "onDisconnect"} =>
              pc[User] \in {"idle", "shutdown", "destroy", "delete", "onDisconnect"}
         /\ \A a \in Actors : pc'[a] = "onDisconnect" =>
              pc[a] = "onDisconnect" \/ \E t \in Pubs : tr[t].sock # NoFd
         /\ pc'[User] = "onDisconnect" => pc[User] = "onDisconnect" \/ shut' # {}
<1>t. TypeOK /\ Places /\ Begun
  BY DEF IndInv
<1>p. pc \in [Actors -> Labels] /\ Actors = {User, Poller} /\ User # Poller
  BY <1>t DEF TypeOK, Actors
<1>1. ASSUME NEW a \in Actors, Closes(a)
      PROVE  /\ \/ UNCHANGED pc
                \/ \E l : pc' = [pc EXCEPT ![a] = l] /\
                      (l = "onDisconnect" => \E t \in Pubs : tr[t].sock # NoFd)
             /\ a = User =>
                  /\ pc[User] \in {"shutdown", "destroy", "onDisconnect"}
                  /\ pc'[User] = "onDisconnect" => pc[User] = "onDisconnect" \/ shut' # {}
  <2>1. \/ UNCHANGED pc
        \/ \E next \in {"destroy", "delete", "write", "wait"}, t \in {tcp, serving, Call} :
             close(a, t, next) /\ (t = Call \/ t \in Pubs)
        \/ \E l \in {"destroy", "delete", "write", "wait"} : pc' = [pc EXCEPT ![a] = l]
    <3>1. CASE a = User /\ (shutdown \/ destroy)
      BY <1>t, <3>1 DEF shutdown, destroy, ShutDown, Goto, TypeOK
    <3>2. CASE a = Poller /\ (readEnd \/ response \/ writeFails \/ socketError)
      <4>1. pc[Poller] # "wait"
        BY <3>2 DEF readEnd, response, writeFails, socketError, At
      <4>2. serving \in Pubs \/ serving = Call
        BY <1>t, <4>1 DEF Places, TypeOK, Transports
      <4> QED BY <3>2, <4>2 DEF readEnd, response, writeFails, socketError, Goto, place
    <3>3. CASE onDisconnect(a)
      <4>1. tcp \in Pubs
        BY <1>t, <3>3 DEF onDisconnect, At, Begun, TypeOK
      <4> QED BY <3>3, <4>1 DEF onDisconnect, Stop, place, AfterCallback
    <3> QED BY <1>1, <3>1, <3>2, <3>3 DEF Closes
  <2>2. ASSUME NEW next \in {"destroy", "delete", "write", "wait"}, NEW t, close(a, t, next),
               t = Call \/ t \in Pubs
        PROVE  \/ UNCHANGED pc
               \/ \E l : pc' = [pc EXCEPT ![a] = l] /\
                     (l = "onDisconnect" => \E v \in Pubs : tr[v].sock # NoFd)
    BY <2>2 DEF close, Goto, place
  <2>3. a = User => pc[User] \in {"shutdown", "destroy", "onDisconnect"}
    BY <1>1, <1>p DEF Closes, shutdown, destroy, onDisconnect, At
  <2>4. ASSUME a = User, shutdown \/ destroy, pc'[User] = "onDisconnect"
        PROVE  shut' # {}
    <3>1. tcp # NoTransport
      BY <1>p, <2>4 DEF shutdown, destroy, ShutDown, Goto
    <3> QED BY <2>4, <3>1 DEF shutdown, destroy, ShutDown
  <2>5. a = User /\ ~(shutdown \/ destroy) => pc[User] = "onDisconnect"
    BY <1>1, <1>p DEF Closes, onDisconnect, At
  <2> QED BY <2>1, <2>2, <2>3, <2>4, <2>5
<1>2. ASSUME NEW a \in Actors, Makes(a) \/ Enters(a) \/ Enables(a) \/ Sends(a)
      PROVE  \/ UNCHANGED pc
             \/ \E l \in ConnectLabels \cup {"done", "wait"} : pc' = [pc EXCEPT ![a] = l]
  <2>1. CASE Makes(a)
    BY <2>1, <1>p DEF Makes, socket, connect, connectBegins, connectCloses, connectUnresolved,
                      connectClosed, connectFails, setDisconnectCallback, place, ConnectLabels,
                      EnterLabels, CallLabels, Goto
  <2>3. CASE Enters(a)
    BY <2>3, <1>p DEF Enters, initializeSocket, setNonBlocking, takeSock, addSocket, connectFails,
                      Stop, place, ConnectLabels, EnterLabels, CallLabels, Goto
  <2>2. CASE Enables(a) \/ Sends(a)
    BY <2>2, <1>p DEF Enables, Sends, enableRead, enableReadAdd, enableWrite, enableWriteAdd,
                      enableCheck, enableAdd, AfterRead, sendMessage, sendFramesPush,
                      ConnectLabels, CallLabels, Goto
  <2> QED BY <1>2, <2>1, <2>2, <2>3
<1>3. ASSUME Begins
      PROVE  pc[User] \in {"idle", "delete"} /\ \E l \in {"shutdown", "socket"} :
               pc' = [pc EXCEPT ![User] = l]
  BY <1>3 DEF Begins, unregisterSubscription, subscribe, delete, At, Goto
<1>4. ASSUME Serves
      PROVE  \/ UNCHANGED pc
             \/ \E l \in {"socket", "update", "wait", "write"} : pc' = [pc EXCEPT ![Poller] = l]
  BY <1>4, <1>p DEF Serves, startDeleted, Stop, place, start, Dispatch, removeConnection, Goto,
                    AfterCallback
<1>5. ASSUME Works
      PROVE  \/ UNCHANGED pc
             \/ \E l \in {"read", "write", "receive", "publish", "wait", "error"} :
                  pc' = [pc EXCEPT ![Poller] = l]
  BY <1>5 DEF Works, socketUpdate, readNothing, readMessage, receive, publish, writeMessage,
              writeNothing, Unlock, Stop, Goto, place
<1>6. ASSUME Elsewhere PROVE UNCHANGED pc
  BY <1>6 DEF Elsewhere, PeerAccepts, PeerEnds, PeerResets, PeerSends, LinkChanges, vars, place
<1>l. \A l \in ConnectLabels \cup {"done", "wait"} :
        l \notin {"idle", "shutdown", "destroy", "delete", "onDisconnect"}
  BY DEF ConnectLabels, EnterLabels, CallLabels
<1>7. ASSUME NEW a \in Actors, Makes(a) \/ Enters(a) \/ Enables(a) \/ Sends(a) \/ Closes(a) PROVE
         /\ pc'[User] \in {"idle", "shutdown", "destroy", "delete", "onDisconnect"} =>
              pc[User] \in {"idle", "shutdown", "destroy", "delete", "onDisconnect"}
         /\ \A b \in Actors : pc'[b] = "onDisconnect" =>
              pc[b] = "onDisconnect" \/ \E t \in Pubs : tr[t].sock # NoFd
         /\ pc'[User] = "onDisconnect" => pc[User] = "onDisconnect" \/ shut' # {}
  <2>1. CASE Closes(a)
    BY <1>1, <1>p, <2>1
  <2>2. CASE Makes(a) \/ Enters(a) \/ Enables(a) \/ Sends(a)
    BY <1>2, <1>p, <1>l, <2>2
  <2> QED BY <1>7, <2>1, <2>2
<1>8. CASE Begins
  BY <1>3, <1>p, <1>8
<1>9. CASE Serves \/ Works
  BY <1>4, <1>5, <1>p, <1>9
<1>10. CASE Elsewhere
  BY <1>6, <1>10
<1> QED BY <1>7, <1>8, <1>9, <1>10, StepKinds

LEMMA StepBegun ==
  ASSUME IndInv, [Next]_vars, ConnStep
  PROVE  Begun'
<1>t. TypeOK /\ Begun /\ Life
  BY DEF IndInv
<1>p. NoTransport \notin Pubs /\ Call \in Transports /\ Pubs \subseteq Transports
  BY DEF Transports
<1>1. pc'[User] \in {"idle", "shutdown", "destroy", "delete", "onDisconnect"} =>
        tr'[Call].link = "none"
  <2>1. \/ tr'[Call].link = tr[Call].link \/ tr[Call].link # "none" \/ pc'[User] = "socket"
    BY <1>p, LinkSteps
  <2> QED BY <1>t, <2>1, UserCourse DEF Begun
<1>2. ASSUME tcp' = NoTransport, NEW t \in Pubs PROVE tr'[t].link = "none"
  <2>1. tcp = NoTransport
    BY <1>t, <1>p, <1>2, ObjectSteps
  <2>2. tr[t].link = "none" /\ t # Call /\ tcp' # t
    BY <1>t, <1>p, <1>2, <2>1 DEF Begun
  <2> QED BY <1>p, <2>2, LinkSteps
<1>3. ASSUME NEW a \in Actors, pc'[a] = "onDisconnect" PROVE tcp' # NoTransport
  <2>1. tcp # NoTransport
    BY <1>t, <1>p, <1>3, UserCourse DEF Begun, Life
  <2> QED BY <1>t, <1>p, <2>1, ObjectSteps
<1>4. pc'[User] = "onDisconnect" => shut' # {}
  <2>1. shut \subseteq shut' /\ (pc[User] = "onDisconnect" => shut # {})
    BY <1>t, ObjectSteps DEF Begun
  <2> QED BY <2>1, UserCourse
<1> QED BY <1>1, <1>2, <1>3, <1>4 DEF Begun

LEMMA StepShut ==
  ASSUME IndInv, [Next]_vars, ConnStep
  PROVE  ShutIsClosed'
<1>t. TypeOK /\ ShutIsClosed
  BY DEF IndInv
<1>1. SUFFICES ASSUME fault' = "no", NEW t \in shut' PROVE tr'[t].closed
  BY DEF ShutIsClosed, Running
<1>2. Running
  BY <1>1, Halts DEF Running, vars
<1>3. CASE t \in shut
  <2>1. t \in Transports /\ tr[t].closed
    BY <1>t, <1>2, <1>3 DEF ShutIsClosed, TypeOK, Transports
  <2> QED BY <2>1, LinkSteps
<1>4. ASSUME t = tcp, tcp \in Pubs, NEW next, close(User, tcp, next) PROVE tr'[t].closed
  <2>1. tcp \in Transports /\ tr \in [Transports -> Transport]
    BY <1>t, <1>4 DEF TypeOK, Transports
  <2>2. CASE tr[tcp].closed
    BY <1>4, <2>1, <2>2, LinkSteps
  <2>3. CASE ~tr[tcp].closed
    <3>1. tr' = [tr EXCEPT ![tcp].closed = TRUE, ![tcp].sock = NoFd, ![tcp].disconnect_cb = FALSE,
                           ![tcp].link = "closed", ![tcp].inbox = FALSE, ![tcp].written = FALSE]
      BY <1>1, <1>4, <2>3 DEF close, closeSocket
    <3> QED BY <1>4, <2>1, <3>1 DEF Transport
  <2> QED BY <2>2, <2>3
<1> QED BY <1>t, <1>1, <1>3, <1>4, ObjectSteps

\* A thread that stops the process stays where it is.
LEMMA Stopped ==
  ASSUME [Next]_vars, fault' # "no"
  PROVE  UNCHANGED <<pc, serving>>
<1>1. CASE ~Running
  BY <1>1, Halts DEF vars, place
<1>r. Running => fault' # fault
  BY DEF Running
<1>2. ASSUME NEW a \in Actors, Closes(a), Running PROVE UNCHANGED <<pc, serving>>
  BY <1>2, <1>r
    DEF Closes, shutdown, destroy, ShutDown, readEnd, response, writeFails, socketError,
                    onDisconnect, Stop, close, place
<1>3. ASSUME NEW a \in Actors, Makes(a) \/ Enters(a) \/ Enables(a) \/ Sends(a), Running
      PROVE  UNCHANGED <<pc, serving>>
  <2>1. CASE Makes(a)
    BY <2>1, <1>3, <1>r DEF Makes, socket, connect, connectBegins, connectCloses,
                      connectUnresolved, connectClosed, connectFails, setDisconnectCallback, place
  <2>3. CASE Enters(a)
    BY <2>3, <1>3, <1>r DEF Enters, initializeSocket, setNonBlocking, takeSock, addSocket,
                      connectFails, Stop, place
  <2>2. CASE Enables(a) \/ Sends(a)
    BY <2>2, <1>3, <1>r
      DEF Enables, Sends, enableRead, enableReadAdd, enableWrite, enableWriteAdd,
                      enableCheck, enableAdd, sendMessage, sendFramesPush
  <2> QED BY <1>3, <2>1, <2>2, <2>3
<1>4. ASSUME Begins \/ Serves \/ Works \/ Elsewhere, Running PROVE UNCHANGED <<pc, serving>>
  BY <1>4, <1>r DEF Begins, unregisterSubscription, subscribe, delete, Serves, startDeleted, Stop,
                    place, start, Dispatch, removeConnection, Works, socketUpdate, readNothing,
                    readMessage, receive, publish, writeMessage, writeNothing, Elsewhere,
                    PeerAccepts, PeerEnds, PeerResets, PeerSends, LinkChanges, vars
<1> QED BY <1>1, <1>2, <1>3, <1>4, StepKinds

\* While the poll thread reads from a connection it stays open, and what shutdown() has found
\* is closed; a failed assertion in shutdown() finds a connection without a socket.
LEMMA StepSilent ==
  ASSUME IndInv, [Next]_vars, TypeOK', Places', Served', Life', ShutIsClosed'
  PROVE  SilentAfterShutdown'
<1>t. TypeOK /\ Places /\ Served /\ Descriptors /\ Life /\ SilentAfterShutdown
  BY DEF IndInv
<1> SUFFICES ASSUME pc'[Poller] \in {"receive", "publish"} PROVE serving' \notin shut'
  BY DEF SilentAfterShutdown
<1>1. serving' \in Transports /\ tr'[serving'].link \in Open
  BY DEF TypeOK, Places, Served
<1>2. CASE fault' = "no"
  <2>1. ~tr'[serving'].closed
    BY <1>1 DEF Life, Open
  <2>2. \A t \in shut' : tr'[t].closed
    BY <1>2 DEF ShutIsClosed, Running
  <2> QED BY <2>1, <2>2
<1>3. CASE fault' # "no"
  <2>1. UNCHANGED <<pc, serving>>
    BY <1>3, Stopped
  <2>2. serving \notin shut
    BY <1>t, <2>1 DEF SilentAfterShutdown
  <2>3. CASE shut' = shut
    BY <2>1, <2>2, <2>3
  <2>4. ASSUME Running, shut' = shut \cup {tcp}, NEW next, close(User, tcp, next)
        PROVE  serving' \notin shut'
    <3>1. tr[serving].sock # NoFd /\ serving \in Transports
      BY <1>t, <1>1, <2>1 DEF Served, Descriptors
    <3>2. tr[tcp].sock = NoFd
      BY <1>3, <2>4 DEF close, Running
    <3> QED BY <2>1, <2>2, <2>4, <3>1, <3>2
  <2> QED BY <1>t, <2>3, <2>4, ObjectSteps
<1> QED BY <1>2, <1>3

LEMMA StepPlaces ==
  ASSUME IndInv, [Next]_vars
  PROVE  Places'
<1>t. TypeOK /\ Places
  BY DEF IndInv
<1>p. /\ pc \in [Actors -> Labels] /\ Actors = {User, Poller} /\ User # Poller
      /\ updating \in Transports \cup {NoTransport}
  BY <1>t DEF TypeOK, Actors
<1>1. ASSUME Begins PROVE Places'
  BY <1>t, <1>p, <1>1
    DEF Begins, unregisterSubscription, subscribe, delete, At, Goto, locals, Places
<1>2. ASSUME NEW a \in Actors, Closes(a) PROVE Places'
  <2>1. CASE a = User /\ (shutdown \/ destroy)
    BY <1>t, <1>p, <2>1 DEF shutdown, destroy, ShutDown, close, Goto, place, Places
  <2>2. CASE a = Poller /\ (readEnd \/ response)
    BY <1>t, <1>p, <2>2 DEF readEnd, response, At, close, Goto, place, locals, Places,
                            LockedLabels, ConnectLabels, EnterLabels, CallLabels
  <2>3. CASE a = Poller /\ writeFails
    <3>1. CASE tr[serving].send_msgs
      BY <1>t, <1>p, <2>3, <3>1 DEF writeFails, At, close, Goto, place, locals, Places,
                              LockedLabels, ConnectLabels, EnterLabels, CallLabels
    <3>2. CASE ~tr[serving].send_msgs
      BY <1>t, <2>3, <3>2 DEF writeFails, place, locals, Places
    <3> QED BY <3>1, <3>2
  <2>4. CASE a = Poller /\ socketError
    BY <1>t, <1>p, <2>4 DEF socketError, At, close, Goto, place, locals, Places,
                            LockedLabels, ConnectLabels, EnterLabels, CallLabels
  <2>5. CASE onDisconnect(a)
    BY <1>t, <1>p, <2>5
      DEF onDisconnect, Stop, AfterCallback, At, close, Goto, place, locals, Places,
                            LockedLabels, ConnectLabels, EnterLabels, CallLabels
  <2> QED BY <1>2, <2>1, <2>2, <2>3, <2>4, <2>5 DEF Closes
<1>3. ASSUME NEW a \in Actors, Makes(a) PROVE Places'
  BY <1>t, <1>p, <1>3 DEF Makes, socket, connect, connectBegins, connectCloses, connectUnresolved,
                    connectClosed, connectFails, setDisconnectCallback, At, Goto, place, locals,
                    Places, LockedLabels, ConnectLabels, EnterLabels, CallLabels
<1>8. ASSUME NEW a \in Actors, Enters(a) PROVE Places'
  BY <1>t, <1>p, <1>8
    DEF Enters, initializeSocket, setNonBlocking, takeSock, addSocket, connectFails,
                    Stop, At, Goto, place, locals, Places, LockedLabels, ConnectLabels, EnterLabels,
                    CallLabels
<1>4. ASSUME NEW a \in Actors, Enables(a) \/ Sends(a) PROVE Places'
  BY <1>t, <1>p, <1>4 DEF Enables, Sends, enableRead, enableReadAdd, enableWrite, enableWriteAdd,
                    enableCheck, enableAdd, AfterRead, sendMessage, sendFramesPush, At, Goto, locals,
                    Places, LockedLabels, ConnectLabels, EnterLabels, CallLabels
<1>5. ASSUME Serves PROVE Places'
  BY <1>t, <1>p, <1>5
    DEF Serves, startDeleted, Stop, place, start, Dispatch, removeConnection, At,
                    Goto, AfterCallback, locals, Places, LockedLabels, ConnectLabels, EnterLabels, CallLabels,
                    Transports
<1>6. ASSUME Works PROVE Places'
  BY <1>t, <1>p, <1>6 DEF Works, socketUpdate, readNothing, readMessage, receive, publish,
                    writeMessage, writeNothing, Unlock, Stop, At, Goto, place, locals, Places,
                    LockedLabels, ConnectLabels, EnterLabels, CallLabels
<1>7. ASSUME Elsewhere PROVE Places'
  BY <1>t, <1>7 DEF Elsewhere, PeerAccepts, PeerEnds, PeerResets, PeerSends, LinkChanges, vars,
                    place, locals, Places
<1> QED BY <1>1, <1>2, <1>3, <1>4, <1>5, <1>6, <1>7, <1>8, StepKinds

\* The threads' own variables.
LocalsOK ==
  /\ alive \in BOOLEAN /\ pc \in [Actors -> Labels]
  /\ {serving, updating} \subseteq Transports \cup {NoTransport}
  /\ revents \subseteq {"IN", "OUT", "ERR"}
  /\ arg \in [Actors -> Slots] /\ erasing \in BOOLEAN
  /\ fault \in {"no", "connect", "assert", "deleted", "frames", "no message"}

LEMMA StepLocals ==
  ASSUME IndInv, [Next]_vars
  PROVE  LocalsOK'
<1>t. TypeOK /\ LocalsOK /\ Places
  BY DEF IndInv, TypeOK, LocalsOK
<1>p. Actors = {User, Poller} /\ NoFd \in Slots
  BY DEF Actors, Slots
<1>l. Labels = {"socket", "connect", "initializeSocket", "setNonBlocking", "takeSock", "addSocket",
                "enableRead", "addRead", "setDisconnectCallback", "sendMessage",
                "enableWrite", "addWrite", "push", "idle", "shutdown", "destroy", "delete", "done",
                "wait", "update", "read", "receive", "publish", "write", "error",
                "onDisconnect", "removeConnection"}
  BY DEF Labels, ConnectLabels, EnterLabels, CallLabels
<1>g. ASSUME NEW a, NEW l \in Labels, Goto(a, l)
      PROVE  /\ pc' \in [Actors -> Labels] /\ serving' \in Transports \cup {NoTransport}
             /\ revents' \subseteq {"IN", "OUT", "ERR"}
  BY <1>t, <1>g DEF Goto, LocalsOK
<1>n. ASSUME UNCHANGED place
      PROVE  /\ pc' \in [Actors -> Labels] /\ serving' \in Transports \cup {NoTransport}
             /\ revents' \subseteq {"IN", "OUT", "ERR"}
  BY <1>t, <1>n DEF place, LocalsOK
<1>1. ASSUME Begins PROVE LocalsOK'
  <2>1. /\ \E l \in Labels : Goto(User, l)
        /\ alive' \in BOOLEAN /\ UNCHANGED <<locals, fault>>
    BY <1>t, <1>l, <1>1 DEF Begins, unregisterSubscription, subscribe, delete, object, LocalsOK
  <2> QED BY <1>t, <1>g, <2>1 DEF locals, LocalsOK
<1>2. ASSUME NEW a \in Actors, Closes(a) PROVE LocalsOK'
  <2>1. /\ UNCHANGED <<alive, arg, updating>> /\ erasing' \in BOOLEAN
        /\ fault' \in {"no", "connect", "assert", "deleted", "frames", "no message"}
    BY <1>t, <1>2
      DEF Closes, shutdown, destroy, ShutDown, readEnd, response, writeFails, socketError,
                      onDisconnect, Stop, close, object, locals, LocalsOK
  <2>2. (\E l \in Labels : Goto(a, l)) \/ UNCHANGED place
    BY <1>2, <1>l, <1>p
      DEF Closes, shutdown, destroy, ShutDown, readEnd, response, writeFails, socketError,
                      onDisconnect, Stop, close, AfterCallback
  <2> QED BY <1>t, <1>g, <1>n, <2>1, <2>2 DEF LocalsOK
<1>3. ASSUME NEW a \in Actors, Makes(a) PROVE LocalsOK'
  <2>1. /\ UNCHANGED <<alive, locals>>
        /\ fault' \in {"no", "connect", "assert", "deleted", "frames", "no message"}
    BY <1>t, <1>3 DEF Makes, socket, connect, connectBegins, connectCloses, connectUnresolved,
                    connectClosed, connectFails, setDisconnectCallback, object, LocalsOK
  <2>2. (\E l \in Labels : Goto(a, l)) \/ UNCHANGED place
    BY <1>3, <1>l DEF Makes, socket, connect, connectBegins, connectCloses, connectUnresolved,
                    connectClosed, connectFails, setDisconnectCallback
  <2> QED BY <1>t, <1>g, <1>n, <2>1, <2>2 DEF locals, LocalsOK
<1>8. ASSUME NEW a \in Actors, Enters(a) PROVE LocalsOK'
  <2>1. /\ UNCHANGED <<alive, updating, erasing>>
        /\ fault' \in {"no", "connect", "assert", "deleted", "frames", "no message"}
    BY <1>t, <1>8 DEF Enters, initializeSocket, setNonBlocking, takeSock, addSocket, connectFails,
                    Stop, object, locals, LocalsOK
  <2>2. (\E l \in Labels : Goto(a, l)) \/ UNCHANGED place
    BY <1>8, <1>l DEF Enters, initializeSocket, setNonBlocking, takeSock, addSocket, connectFails,
                    Stop
  <2>3. UNCHANGED arg \/ (\E s \in Slots : arg' = [arg EXCEPT ![a] = s])
    <3>1. pc[a] \in ConnectLabels
      BY <1>8
        DEF Enters, initializeSocket, setNonBlocking, takeSock, addSocket, At, ConnectLabels,
                  EnterLabels
    <3>2. tr[cur(a)].sock \in Slots
      BY <1>t, <3>1, Mine DEF TypeOK, Transport, Slots
    <3> QED BY <1>8, <1>p, <3>2 DEF Enters, initializeSocket, setNonBlocking, takeSock, addSocket,
                    Stop, locals
  <2>4. arg' \in [Actors -> Slots]
    BY <1>t, <2>3 DEF LocalsOK
  <2> QED BY <1>t, <1>g, <1>n, <2>1, <2>2, <2>4 DEF LocalsOK
<1>4. ASSUME NEW a \in Actors, Enables(a) \/ Sends(a) PROVE LocalsOK'
  <2>1. UNCHANGED <<alive, updating, erasing, fault>>
    BY <1>4 DEF Enables, Sends, enableRead, enableReadAdd, enableWrite, enableWriteAdd,
                    enableCheck, enableAdd, sendMessage, sendFramesPush, object, locals
  <2>2. \E l \in Labels : Goto(a, l)
    BY <1>4, <1>l DEF Enables, Sends, enableRead, enableReadAdd, enableWrite, enableWriteAdd,
                    enableCheck, enableAdd, AfterRead, sendMessage, sendFramesPush
  <2>3. UNCHANGED arg \/ (\E s \in Slots : arg' = [arg EXCEPT ![a] = s])
    <3>1. pc[a] \in ConnectLabels
      BY <1>4 DEF Enables, Sends, enableRead, enableReadAdd, enableWrite, enableWriteAdd,
                  sendMessage, sendFramesPush, At, ConnectLabels, CallLabels
    <3>2. tr[cur(a)].sock \in Slots
      BY <1>t, <3>1, Mine DEF TypeOK, Transport, Slots
    <3> QED BY <1>4, <1>p, <3>2 DEF Enables, Sends, enableRead, enableReadAdd, enableWrite,
                    enableWriteAdd, enableCheck, enableAdd, sendMessage, sendFramesPush, locals
  <2>4. arg' \in [Actors -> Slots]
    BY <1>t, <2>3 DEF LocalsOK
  <2> QED BY <1>t, <1>g, <2>1, <2>2, <2>4 DEF LocalsOK
<1>5. ASSUME Serves PROVE LocalsOK'
  <2>1. CASE startDeleted
    BY <1>t, <2>1 DEF startDeleted, Stop, object, place, locals, LocalsOK
  <2>2. CASE removeConnection
    <3>1. UNCHANGED <<object, locals, fault>> /\ \E l \in Labels : Goto(Poller, l)
      BY <1>p, <1>l, <2>2 DEF removeConnection, AfterCallback
    <3> QED BY <1>t, <1>g, <3>1 DEF object, locals, LocalsOK
  <2>3. ASSUME NEW t \in Pubs, start(t) PROVE LocalsOK'
    BY <1>t, <1>l, <2>3 DEF start, locals, LocalsOK, Transports
  <2>4. ASSUME NEW t \in Transports, Dispatch(t) PROVE LocalsOK'
    <3>1. revents' \subseteq {"IN", "OUT", "ERR"}
      BY <1>t, <2>4 DEF Dispatch, Polled, Conditions, TypeOK, Slots
    <3> QED BY <1>t, <1>l, <2>4, <3>1 DEF Dispatch, object, locals, LocalsOK
  <2> QED BY <1>5, <2>1, <2>2, <2>3, <2>4 DEF Serves
<1>6. ASSUME Works PROVE LocalsOK'
  <2>1. /\ UNCHANGED <<alive, arg, erasing>> /\ updating' \in Transports \cup {NoTransport}
        /\ fault' \in {"no", "connect", "assert", "deleted", "frames", "no message"}
    BY <1>t, <1>6 DEF Works, socketUpdate, readNothing, readMessage, receive, publish,
                    writeMessage, writeNothing, Unlock, Stop, object, locals, LocalsOK
  <2>2. (\E l \in Labels : Goto(Poller, l)) \/ UNCHANGED place
    BY <1>6, <1>l DEF Works, socketUpdate, readNothing, readMessage, receive, publish,
                    writeMessage, writeNothing, Unlock, Stop
  <2> QED BY <1>t, <1>g, <1>n, <2>1, <2>2 DEF LocalsOK
<1>7. ASSUME Elsewhere PROVE LocalsOK'
  BY <1>t, <1>n, <1>7
    DEF Elsewhere, PeerAccepts, PeerEnds, PeerResets, PeerSends, LinkChanges, vars,
                    object, locals, LocalsOK
<1> QED BY <1>1, <1>2, <1>3, <1>4, <1>5, <1>6, <1>7, <1>8, StepKinds

LEMMA StepTypeOK ==
  ASSUME IndInv, [Next]_vars, ConnStep
  PROVE  TypeOK'
<1>t. TypeOK
  BY DEF IndInv
<1>1. tr' \in [Transports -> Transport]
  BY <1>t DEF TypeOK, ConnStep, Idle, Touched, StartsReading, LinkMoves, Born, GetsSocket, Fails,
              Strands, Dials, Joins, IsClosed, Others
<1>2. /\ entry' \in [Slots -> Transports \cup {NoTransport}]
      /\ events' \in [Slots -> SUBSET {"IN", "OUT"}]
  <2>1. CASE PollSetStays
    BY <1>t, <2>1 DEF TypeOK, PollSetStays
  <2>2. ASSUME NEW t \in Transports, Joins(t) \/ IsClosed(t)
        PROVE  /\ entry' \in [Slots -> Transports \cup {NoTransport}]
               /\ events' \in [Slots -> SUBSET {"IN", "OUT"}]
    <3>1. PICK fd \in Slots, v \in Transports \cup {NoTransport} :
            \/ UNCHANGED <<entry, events>>
            \/ /\ entry' = [entry EXCEPT ![fd] = v]
               /\ events' = [events EXCEPT ![fd] = {}]
      BY <1>t, <2>2 DEF TypeOK, Joins, IsClosed, Slots, cur
    <3>2. /\ entry \in [Slots -> Transports \cup {NoTransport}]
          /\ events \in [Slots -> SUBSET {"IN", "OUT"}]
      BY <1>t DEF TypeOK
    <3>3. entry' \in [Slots -> Transports \cup {NoTransport}]
      BY <3>1, <3>2
    <3>4. events' \in [Slots -> SUBSET {"IN", "OUT"}]
      BY <3>1, <3>2
    <3> QED BY <3>3, <3>4
  <2> QED BY <2>1, <2>2 DEF ConnStep, Idle, Touched, StartsReading, LinkMoves, Born, GetsSocket,
              Fails, Strands, Dials
<1>3. tcp' \in Pubs \cup {NoTransport} /\ shut' \subseteq Pubs
  BY <1>t, ObjectSteps DEF TypeOK
<1> QED BY <1>1, <1>2, <1>3, StepLocals DEF TypeOK, LocalsOK

-----------------------------------------------------------------------------
LEMMA InitInv == Init => IndInv
<1> SUFFICES ASSUME Init PROVE IndInv
  OBVIOUS
<1>1. /\ \A t \in Transports : tr[t] = NewTransport
      /\ \A s \in Slots : entry[s] = NoTransport
      /\ pc[User] = "idle" /\ pc[Poller] = "wait" /\ serving = NoTransport
      /\ updating = NoTransport /\ tcp = NoTransport /\ shut = {}
      /\ Call \in Transports /\ Pubs \subseteq Transports /\ Actors = {User, Poller}
  BY DEF Init, Actors, Transports
<1>2. TypeOK
  <2>1. NewTransport \in Transport
    BY DEF NewTransport, Transport, Links
  <2>2. {"idle", "wait"} \subseteq Labels
    BY DEF Labels
  <2>3. NoFd \in Slots
    BY DEF Slots
  <2> QED BY <2>1, <2>2, <2>3 DEF Init, TypeOK
<1>3. Places
  BY <1>1 DEF Places, LockedLabels, ConnectLabels, EnterLabels, CallLabels
<1>4. Served
  BY <1>1 DEF Served, Serving, LockedLabels
<1>5. Begun
  BY <1>1 DEF Begun, NewTransport
<1>6. Making
  BY <1>1 DEF Making, At, NewTransport, EnterLabels, CallLabels
<1>7. Life
  BY <1>1 DEF Life, NewTransport
<1>8. Descriptors
  BY <1>1 DEF Descriptors, NewTransport, Open, Slots
<1>9. ShutIsClosed /\ SilentAfterShutdown
  BY <1>1 DEF ShutIsClosed, SilentAfterShutdown
<1> QED BY <1>2, <1>3, <1>4, <1>5, <1>6, <1>7, <1>8, <1>9 DEF IndInv

LEMMA StepInv == IndInv /\ [Next]_vars => IndInv'
<1> SUFFICES ASSUME IndInv, [Next]_vars PROVE IndInv'
  OBVIOUS
<1>1. ConnStep /\ \A b \in Actors : Course(b)
  BY ConnSteps, Courses
<1>2. TypeOK' /\ Places' /\ Served' /\ Life' /\ Descriptors'
  BY <1>1, StepTypeOK, StepPlaces, StepServed, StepLife, StepDescriptors
<1>3. Begun' /\ Making' /\ ShutIsClosed'
  BY <1>1, StepBegun, StepMaking, StepShut
<1>4. SilentAfterShutdown'
  BY <1>2, <1>3, StepSilent
<1> QED BY <1>2, <1>3, <1>4 DEF IndInv

\* A connection is in the poll set from initializeSocket to close(), unless a shutdown() within
\* connect() has left its number to a closed one; the thread that makes a connection is the
\* only one to do so; and what shutdown() has found is closed (pubsub_tcp.hpp, class
\* TCPSubscribe; transport_tcp.cpp, connect and close).
THEOREM SubscriptionInvariant == Spec => []IndInv
BY InitInv, StepInv, PTL DEF Spec

\* An entry of the poll set belongs to the connection that has the descriptor, and a
\* descriptor is only outside the poll set while its connect() is at work or when it is
\* leaked, however the kernel reuses descriptors and whichever thread's addEvents comes late;
\* nothing but a shutdown() between initializeSocket's look at sock_ and addSocket makes an
\* exception (transport_tcp.cpp, enableRead, connect and close; poll_set.cpp, addSocket and
\* addEvents).
THEOREM SocketsAndPollSetMatch == Spec => []SocketsMatch
<1>1. IndInv => SocketsMatch
  <2> SUFFICES ASSUME IndInv PROVE SocketsMatch
    OBVIOUS
  <2>1. Making /\ Life /\ Descriptors /\ TypeOK
    BY DEF IndInv
  <2>l. ASSUME NEW s, Lost(s) PROVE Orphan(s)
    BY <2>l DEF Lost, Left, Orphan
  <2>2. \A fd \in Fds : entry[fd] # NoTransport => tr[entry[fd]].sock = fd \/ Orphan(fd)
    BY <2>1, <2>l DEF Descriptors
  <2>3. ASSUME NEW t \in Transports, tr[t].sock # NoFd, tr[t].link # "unresolved"
        PROVE  \/ Entering(t) \/ Orphan(tr[t].sock)
               \/ /\ entry[tr[t].sock] = t
                  /\ tr[t].expecting_read => "IN" \in events[tr[t].sock]
    <3>1. tr[t].link \in Links
      BY <2>1 DEF TypeOK, Transport
    <3>2. CASE tr[t].link = "new"
      BY <2>1, <2>3, <3>2 DEF Making, Entering
    <3>3. CASE tr[t].link \in Open
      BY <2>1, <2>l, <3>3 DEF Descriptors, Tracked, Registering, Entering
    <3> QED BY <2>1, <2>3, <3>1, <3>2, <3>3 DEF Life, Links, Open
  <2> QED BY <2>2, <2>3 DEF SocketsMatch
<1> QED BY <1>1, SubscriptionInvariant, PTL

\* After shutdown() has returned no message of a connection it has closed is handed to the
\* application (pubsub_tcp.hpp, shutdown; transport_tcp.cpp, close against socketUpdate).
THEOREM SilenceAfterShutdown == Spec => []SilentAfterShutdown
<1>1. IndInv => SilentAfterShutdown
  BY DEF IndInv
<1> QED BY <1>1, SubscriptionInvariant, PTL
=============================================================================
