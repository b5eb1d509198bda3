------------------------------- MODULE PollSet -------------------------------
(***************************************************************************)
(* The poll loop of the transport layer: class PollSet (poll_set.cpp), the *)
(* PollManager thread that drives it (poll_manager.cpp) and the part of    *)
(* the kernel they rely on (descriptor table, poll(2), the signal pipe).   *)
(*                                                                         *)
(* Any thread may add and delete sockets and events; the poll thread alone *)
(* runs update().  A critical section of socket_info_mutex_ is one step,   *)
(* except that addEvents, delEvents and delSocket keep the mutex while     *)
(* they run signal(), and signal() itself is three steps (try_lock, write, *)
(* unlock), since the order of those against the poll thread matters.      *)
(*                                                                         *)
(* Descriptors are reused by the kernel, so a transport is an identity of  *)
(* its own: a descriptor stands for different transports over time.        *)
(*                                                                         *)
(* The caller is assumed to keep a socket to itself from socket() until    *)
(* addSocket has returned.  What becomes of one that does not, when the    *)
(* shutdown() of a subscription meets its connect(), is the subject of     *)
(* module TCPSubscribe.                                                    *)
(***************************************************************************)
EXTENDS Naturals, FiniteSets

CONSTANTS
  Threads,      \* user threads that call into the poll set
  Poller,       \* the thread of PollManager::threadFunc
  Fds,          \* descriptor numbers the kernel may hand out, SignalFd included
  SignalFd,     \* signal_pipe_[0], the read end of the signal pipe
  Transports,   \* identities of the transports created during a behaviour
  Pipe,         \* the identity behind SignalFd
  NoOne,        \* no transport, or no holder of a mutex
  Interest,     \* the events a transport can ask for: "IN", "OUT" (POLLIN, POLLOUT)
  MaxOps        \* bound: operations that are started in a behaviour

Actors == Threads \cup {Poller}
Owners == Transports \cup {Pipe, NoOne}
Flags == Interest \cup {"ERR"}        \* ERR stands for POLLERR, POLLHUP, POLLNVAL

ASSUME PollSetAssumption ==
  /\ Poller \notin Threads
  /\ Fds \subseteq Nat
  /\ SignalFd \in Fds
  /\ Pipe \notin Transports
  /\ NoOne \notin Transports \cup {Pipe} \cup Actors
  /\ "IN" \in Interest
  /\ "ERR" \notin Interest
  /\ MaxOps \in Nat

VARIABLES
  owner,              \* kernel: the transport behind each descriptor, NoOne if closed
  ready,              \* kernel: the conditions poll(2) reports for each transport
  signalled,          \* kernel: the signal pipe holds at least one byte
  born,               \* transports that were created so far
  socket_info,        \* socket_info_: transport and events_ of each tracked descriptor
  socket_info_mutex,  \* holder of socket_info_mutex_
  signal_mutex,       \* holder of signal_mutex_
  just_deleted,       \* just_deleted_, as the set of descriptors in it
  sockets_changed,    \* sockets_changed_
  ufds,               \* ufds_; "built" and "of" are the transports its entry was
                      \* made for and its revents were taken from
  phase,              \* where the poll thread is in threadFunc and update
  pending,            \* the entries of ufds_ with revents that are not yet served
  cb,                 \* the locals of update(): the callback being dispatched
  pc, op,             \* each thread's step within an operation, and the operation
  ops,                \* operations started
  shutting_down       \* PollManager::shutting_down_

kernel == <<owner, ready, signalled, born>>
table == <<socket_info, just_deleted, sockets_changed>>
locks == <<socket_info_mutex, signal_mutex>>
loop == <<ufds, phase, pending, cb>>
calls == <<pc, op, ops>>
vars == <<kernel, table, locks, loop, calls, shutting_down>>

Info == [transport : Owners, events : SUBSET Interest]
Untracked == [transport |-> NoOne, events |-> {}]
Ufd == [built : Owners, events : SUBSET Interest, of : Owners, revents : SUBSET Flags]
Op == [name : {"none", "add", "del", "events"}, fd : Fds, transport : Owners]
NoCallback == [fd |-> SignalFd, transport |-> NoOne, events |-> {}]
NoOp == [name |-> "none", fd |-> SignalFd, transport |-> NoOne]
Callback == [fd : Fds, transport : Owners, events : SUBSET Flags]

\* One type invariant for the state of the poll set, the kernel and the threads.
TypeOK ==
  /\ owner \in [Fds -> Owners]
  /\ ready \in [Transports -> SUBSET Flags]
  /\ signalled \in BOOLEAN
  /\ born \subseteq Transports
  /\ socket_info \in [Fds -> Info]
  /\ socket_info_mutex \in Actors \cup {NoOne}
  /\ signal_mutex \in Actors \cup {NoOne}
  /\ just_deleted \subseteq Fds
  /\ sockets_changed \in BOOLEAN
  /\ ufds \in [Fds -> Ufd]
  /\ phase \in {"top", "poll", "scan", "found", "callback", "exit"}
  /\ pending \subseteq Fds
  /\ cb \in Callback
  /\ pc \in [Actors -> {"idle", "opened", "signal", "write", "unlock", "return", "close"}]
  /\ op \in [Actors -> Op]
  /\ ops \in Nat
  /\ shutting_down \in BOOLEAN

Tracked(fd) == socket_info[fd].transport # NoOne

\* PollSet::PollSet: the read end of the pipe is tracked with POLLIN, and the two
\* calls that register it have left a byte in the pipe.  PollManager::start clears
\* shutting_down_ and starts the thread.
Init ==
  /\ owner = [fd \in Fds |-> IF fd = SignalFd THEN Pipe ELSE NoOne]
  /\ ready = [t \in Transports |-> {}]
  /\ signalled = TRUE
  /\ born = {}
  /\ socket_info = [fd \in Fds |-> IF fd = SignalFd
                      THEN [transport |-> Pipe, events |-> {"IN"}] ELSE Untracked]
  /\ socket_info_mutex = NoOne
  /\ signal_mutex = NoOne
  /\ just_deleted = {}
  /\ sockets_changed = TRUE
  /\ ufds = [fd \in Fds |-> [built |-> NoOne, events |-> {}, of |-> NoOne, revents |-> {}]]
  /\ phase = "top"
  /\ pending = {}
  /\ cb = NoCallback
  /\ pc = [a \in Actors |-> "idle"]
  /\ op = [a \in Actors |-> NoOp]
  /\ ops = 0
  /\ shutting_down = FALSE

(***************************************************************************)
(* The operations of any thread.  The poll thread runs them too, from the  *)
(* callback of a transport.                                                *)
(***************************************************************************)

\* A thread is free to call into the poll set.
CanCall(a) ==
  /\ pc[a] = "idle"
  /\ a = Poller => phase = "callback" /\ cb.transport # Pipe
  /\ ops < MaxOps

Goto(a, label) == pc' = [pc EXCEPT ![a] = label]

\* A new TransportTCP object: which of the unused names it gets does not matter.
Fresh == CHOOSE t \in Transports \ born : TRUE

\* socket() or accept(): the kernel hands out the lowest free descriptor.
Open(a, t) ==
  /\ CanCall(a)
  /\ t \notin born /\ t = Fresh
  /\ \E fd \in Fds :
       /\ owner[fd] = NoOne
       /\ \A g \in Fds : owner[g] = NoOne => fd <= g
       /\ owner' = [owner EXCEPT ![fd] = t]
       /\ op' = [op EXCEPT ![a] = [name |-> "add", fd |-> fd, transport |-> t]]
  /\ born' = born \cup {t}
  /\ Goto(a, "opened")
  /\ ops' = ops + 1
  /\ UNCHANGED <<ready, signalled, table, locks, loop, shutting_down>>

\* addSocket: insert under the mutex, then signal() without it.
addSocket(a) ==
  /\ pc[a] = "opened"
  /\ socket_info_mutex = NoOne
  /\ IF Tracked(op[a].fd)
       THEN /\ Goto(a, "idle")
            /\ UNCHANGED <<socket_info, sockets_changed>>
       ELSE /\ socket_info' = [socket_info EXCEPT ![op[a].fd] =
                                 [transport |-> op[a].transport, events |-> {}]]
            /\ sockets_changed' = TRUE
            /\ Goto(a, "signal")
  /\ UNCHANGED <<kernel, just_deleted, locks, loop, op, ops, shutting_down>>

\* connect() fails before initializeSocket(): close() asks delSocket for a
\* descriptor that is not tracked, which returns false, and then closes it.  Nobody but the
\* thread that opened it does that here: see the head of the module.
abandonSocket(a) ==
  /\ pc[a] = "opened"
  /\ socket_info_mutex = NoOne
  /\ Goto(a, "close")
  /\ UNCHANGED <<kernel, table, locks, loop, op, ops, shutting_down>>

\* delSocket that leaves the entry of the descriptor in place.
delSocketKeeping(a, fd) ==
  /\ socket_info_mutex = NoOne
  /\ Tracked(fd)
  /\ just_deleted' = just_deleted \cup {fd}
  /\ sockets_changed' = TRUE
  /\ socket_info_mutex' = a
  /\ op' = [op EXCEPT ![a] =
       [name |-> "del", fd |-> fd, transport |-> socket_info[fd].transport]]
  /\ Goto(a, "signal")
  /\ UNCHANGED <<kernel, socket_info, signal_mutex, loop, shutting_down>>

\* delSocket: erase, remember the descriptor in just_deleted_, and signal() with the
\* mutex held.  A descriptor that is not tracked returns false and changes nothing.
delSocket(a, fd) ==
  /\ socket_info_mutex = NoOne
  /\ Tracked(fd)
  /\ socket_info' = [socket_info EXCEPT ![fd] = Untracked]
  /\ just_deleted' = just_deleted \cup {fd}
  /\ sockets_changed' = TRUE
  /\ socket_info_mutex' = a
  /\ op' = [op EXCEPT ![a] =
       [name |-> "del", fd |-> fd, transport |-> socket_info[fd].transport]]
  /\ Goto(a, "signal")
  /\ UNCHANGED <<kernel, signal_mutex, loop, shutting_down>>

\* TransportTCP::close on a tracked socket, from any thread.
CallDelSocket(a, fd) ==
  /\ CanCall(a)
  /\ fd # SignalFd
  /\ delSocket(a, fd)
  /\ ops' = ops + 1

\* addEvents and delEvents share their shape; neither sets sockets_changed_.
changeEvents(a, fd, events) ==
  /\ CanCall(a)
  /\ fd # SignalFd
  /\ socket_info_mutex = NoOne
  /\ Tracked(fd)
  /\ socket_info' = [socket_info EXCEPT ![fd].events = events]
  /\ socket_info_mutex' = a
  /\ op' = [op EXCEPT ![a] =
       [name |-> "events", fd |-> fd, transport |-> socket_info[fd].transport]]
  /\ Goto(a, "signal")
  /\ ops' = ops + 1
  /\ UNCHANGED <<kernel, just_deleted, sockets_changed, signal_mutex, loop, shutting_down>>

addEvents(a, fd, e) == changeEvents(a, fd, socket_info[fd].events \cup {e})
delEvents(a, fd, e) == changeEvents(a, fd, socket_info[fd].events \ {e})

\* signal: scoped_try_lock; a caller that does not get the mutex returns at once.
signalTryLock(a) ==
  /\ pc[a] = "signal"
  /\ IF signal_mutex = NoOne
       THEN signal_mutex' = a /\ Goto(a, "write")
       ELSE Goto(a, "return") /\ UNCHANGED signal_mutex
  /\ UNCHANGED <<kernel, table, socket_info_mutex, loop, op, ops, shutting_down>>

\* write_signal: one byte; a full pipe refuses it and is not empty either way.
signalWrite(a) ==
  /\ pc[a] = "write"
  /\ signalled' = TRUE
  /\ Goto(a, "unlock")
  /\ UNCHANGED <<owner, ready, born, table, locks, loop, op, ops, shutting_down>>

signalUnlock(a) ==
  /\ pc[a] = "unlock"
  /\ signal_mutex' = NoOne
  /\ Goto(a, "return")
  /\ UNCHANGED <<kernel, table, socket_info_mutex, loop, op, ops, shutting_down>>

\* The end of the operation gives up socket_info_mutex_, if it is held.
Return(a) ==
  /\ pc[a] = "return"
  /\ socket_info_mutex' = IF socket_info_mutex = a THEN NoOne ELSE socket_info_mutex
  /\ IF op[a].name = "del"
       THEN Goto(a, "close") /\ UNCHANGED op
       ELSE Goto(a, "idle") /\ op' = [op EXCEPT ![a] = NoOp]
  /\ UNCHANGED <<kernel, table, signal_mutex, loop, ops, shutting_down>>

\* close_socket: the descriptor is free again.
CloseFd(a) ==
  /\ pc[a] = "close"
  /\ owner' = [owner EXCEPT ![op[a].fd] = NoOne]
  /\ ready' = [ready EXCEPT ![op[a].transport] = {}]
  /\ Goto(a, "idle")
  /\ op' = [op EXCEPT ![a] = NoOp]
  /\ UNCHANGED <<signalled, born, table, locks, loop, ops, shutting_down>>

OpStep(a) ==
  \/ addSocket(a) \/ abandonSocket(a)
  \/ signalTryLock(a) \/ signalWrite(a) \/ signalUnlock(a)
  \/ Return(a) \/ CloseFd(a)

(***************************************************************************)
(* The poll thread.                                                        *)
(***************************************************************************)

\* createNativePollset that resets sockets_changed_ once it has rebuilt ufds_.
createNativePollsetOnce ==
  /\ socket_info_mutex = NoOne
  /\ ufds' = IF sockets_changed
               THEN [fd \in Fds |-> [built |-> socket_info[fd].transport,
                                     events |-> socket_info[fd].events,
                                     of |-> NoOne, revents |-> {}]]
               ELSE ufds
  /\ sockets_changed' = FALSE

\* createNativePollset: sockets_changed_ is never reset, so every call rebuilds.
createNativePollset ==
  /\ socket_info_mutex = NoOne
  /\ ufds' = IF sockets_changed
               THEN [fd \in Fds |-> [built |-> socket_info[fd].transport,
                                     events |-> socket_info[fd].events,
                                     of |-> NoOne, revents |-> {}]]
               ELSE ufds
  /\ UNCHANGED sockets_changed

\* The head of threadFunc and of update().
UpdateBegin ==
  /\ phase = "top"
  /\ ~shutting_down
  /\ createNativePollset
  /\ phase' = "poll"
  /\ UNCHANGED <<kernel, socket_info, just_deleted, locks, pending, cb, calls, shutting_down>>

\* threadFunc sees shutting_down_ and returns.
ThreadExit ==
  /\ phase = "top"
  /\ shutting_down
  /\ phase' = "exit"
  /\ UNCHANGED <<kernel, table, locks, ufds, pending, cb, calls, shutting_down>>

\* What poll(2) reports for an entry: the requested and the error conditions of
\* whatever is behind the descriptor now, POLLNVAL if nothing is.
Conditions(t) == IF t = Pipe THEN (IF signalled THEN {"IN"} ELSE {}) ELSE ready[t]
Revents(fd) ==
  IF ufds[fd].built = NoOne THEN {}
  ELSE IF owner[fd] = NoOne THEN {"ERR"}
  ELSE Conditions(owner[fd]) \cap (ufds[fd].events \cup {"ERR"})
ReadyFds == {fd \in Fds : Revents(fd) # {}}

\* poll(2) returns with at least one entry that has revents.
PollReturn ==
  /\ phase = "poll"
  /\ ReadyFds # {}
  /\ ufds' = [fd \in Fds |-> [ufds[fd] EXCEPT !.of = owner[fd], !.revents = Revents(fd)]]
  /\ pending' = ReadyFds
  /\ phase' = "scan"
  /\ UNCHANGED <<kernel, table, locks, cb, calls, shutting_down>>

NoTimeout == FALSE /\ UNCHANGED vars

\* poll(2) returns 0 after poll_timeout: nothing to do, and just_deleted_ stays.
PollTimeout ==
  /\ phase = "poll"
  /\ ReadyFds = {}
  /\ phase' = "top"
  /\ UNCHANGED <<kernel, table, locks, ufds, pending, cb, calls, shutting_down>>

\* The entry that the scan of ufds_, in the order of descriptors, serves next.
Current == CHOOSE fd \in pending : \A g \in pending : fd <= g

\* The scan is done with the entry of fd: its revents are reset.
Served(fd) ==
  /\ pending' = pending \ {fd}
  /\ ufds' = [ufds EXCEPT ![fd].revents = {}, ![fd].of = NoOne]
  /\ cb' = NoCallback
  /\ phase' = "scan"

\* Find the entry's info under the mutex; decide whether there is anything to call.
ScanFind ==
  /\ phase = "scan"
  /\ pending # {}
  /\ socket_info_mutex = NoOne
  /\ LET fd == Current
         info == socket_info[fd]
         wanted == ufds[fd].revents \cap (info.events \cup {"ERR"})
     IN IF Tracked(fd) /\ wanted # {}
          THEN /\ cb' = [fd |-> fd, transport |-> info.transport, events |-> wanted]
               /\ phase' = "found"
               /\ UNCHANGED <<ufds, pending>>
          ELSE Served(fd)
  /\ UNCHANGED <<kernel, table, locks, calls, shutting_down>>

\* ScanCheck that calls func whatever just_deleted_ says.
ScanCheckAlways ==
  /\ phase = "found"
  /\ phase' = "callback"
  /\ UNCHANGED <<kernel, table, locks, ufds, pending, cb, calls, shutting_down>>

\* Errors of a descriptor in just_deleted_ are skipped; otherwise func is called.
ScanCheck ==
  /\ phase = "found"
  /\ IF "ERR" \in cb.events /\ cb.fd \in just_deleted
       THEN Served(cb.fd)
       ELSE phase' = "callback" /\ UNCHANGED <<ufds, pending, cb>>
  /\ UNCHANGED <<kernel, table, locks, calls, shutting_down>>

\* onLocalPipeEvents drains the pipe.
onLocalPipeEvents ==
  /\ phase = "callback"
  /\ cb.transport = Pipe
  /\ signalled' = FALSE
  /\ Served(cb.fd)
  /\ UNCHANGED <<owner, ready, born, table, locks, calls, shutting_down>>

\* The callback is for a transport that is still registered and reports an error.
MustClose == "ERR" \in cb.events /\ socket_info[cb.fd].transport = cb.transport

\* socketUpdate on ERR, HUP or NVAL: the transport closes itself.
CallbackClose ==
  /\ phase = "callback"
  /\ pc[Poller] = "idle"
  /\ cb.transport # Pipe
  /\ MustClose
  /\ delSocket(Poller, cb.fd)
  /\ UNCHANGED ops

\* func returns, having read all the data there was or only a part of it.
CallbackReturn ==
  /\ phase = "callback"
  /\ pc[Poller] = "idle"
  /\ cb.transport # Pipe
  /\ ~MustClose
  /\ \E eaten \in SUBSET (cb.events \cap {"IN"}) :
       ready' = [t \in Transports |-> IF t = cb.transport THEN ready[t] \ eaten ELSE ready[t]]
  /\ Served(cb.fd)
  /\ UNCHANGED <<owner, signalled, born, table, locks, calls, shutting_down>>

\* update() that never forgets the deleted descriptors.
UpdateEndKeeping ==
  /\ phase = "scan"
  /\ pending = {}
  /\ phase' = "top"
  /\ UNCHANGED <<kernel, table, locks, ufds, pending, cb, calls, shutting_down>>

\* The end of update() after a scan.
UpdateEnd ==
  /\ phase = "scan"
  /\ pending = {}
  /\ just_deleted' = {}
  /\ phase' = "top"
  /\ UNCHANGED <<kernel, socket_info, sockets_changed, locks, ufds, pending, cb, calls,
                 shutting_down>>

PollerStep ==
  \/ UpdateBegin \/ ThreadExit \/ PollReturn \/ PollTimeout
  \/ ScanFind \/ ScanCheck \/ onLocalPipeEvents
  \/ CallbackClose \/ CallbackReturn \/ UpdateEnd

(***************************************************************************)
(* The environment.                                                        *)
(***************************************************************************)

\* A condition becomes true for the socket of a transport.
SocketReady(t, flag) ==
  /\ \E fd \in Fds : owner[fd] = t
  /\ flag \notin ready[t]
  /\ ready' = [ready EXCEPT ![t] = @ \cup {flag}]
  /\ UNCHANGED <<owner, signalled, born, table, locks, loop, calls, shutting_down>>

\* PollManager::shutdown sets the flag and joins; it does not call signal().
shutdown ==
  /\ ~shutting_down
  /\ shutting_down' = TRUE
  /\ UNCHANGED <<kernel, table, locks, loop, calls>>

\* The poll thread is gone and no call is in progress.
Stopped ==
  /\ phase = "exit"
  /\ \A a \in Actors : pc[a] = "idle"
  /\ UNCHANGED vars

Next ==
  \/ \E a \in Actors : \E t \in Transports : Open(a, t)
  \/ \E a \in Actors : \E fd \in Fds : CallDelSocket(a, fd)
  \/ \E a \in Actors : \E fd \in Fds : \E e \in Interest : addEvents(a, fd, e)
  \/ \E a \in Actors : \E fd \in Fds : \E e \in Interest : delEvents(a, fd, e)
  \/ \E a \in Actors : OpStep(a)
  \/ PollerStep
  \/ \E t \in Transports : \E flag \in Flags : SocketReady(t, flag)
  \/ shutdown
  \/ Stopped

Spec == Init /\ [][Next]_vars

\* Threads keep running the operation they have begun, and the poll thread runs.
\* Nobody has to begin an operation, and no event has to happen.
Fairness == /\ \A a \in Actors : WF_vars(OpStep(a))
            /\ WF_vars(PollerStep)
FairSpec == Spec /\ Fairness

(***************************************************************************)
(* Properties.                                                             *)
(***************************************************************************)

\* A transport is tracked only while its descriptor is its own: close() takes the
\* socket out of the poll set before it gives the descriptor back, so neither poll(2)
\* nor a callback ever works on somebody else's descriptor.
TrackedIsOpen ==
  \A fd \in Fds : Tracked(fd) => owner[fd] = socket_info[fd].transport

\* An error poll(2) saw on a descriptor is delivered to the transport that had the
\* descriptor when poll(2) looked, never to one that got the same number later
\* (what just_deleted_ is for, comment in update()).
NoStaleError ==
  phase = "callback" /\ "ERR" \in cb.events => ufds[cb.fd].of = cb.transport

(***************************************************************************)
(* The inductive invariant behind TrackedIsOpen and NoStaleError.          *)
(***************************************************************************)

\* The thread has a descriptor of its own that the poll set does not track: between
\* socket() and addSocket(), or between delSocket() and close_socket().
Holds(a) ==
  \/ pc[a] \in {"opened", "close"}
  \/ pc[a] \in {"signal", "write", "unlock", "return"} /\ op[a].name = "del"

\* A descriptor that is in the hands of a thread is open, not tracked, and in no
\* other thread's hands.
HeldIsPrivate ==
  /\ \A a \in Actors : Holds(a) => /\ owner[op[a].fd] = op[a].transport
                                   /\ op[a].transport # NoOne
                                   /\ ~Tracked(op[a].fd)
  /\ \A a \in Actors : pc[a] = "opened" => op[a].name = "add"
  /\ \A a, b \in Actors : Holds(a) /\ Holds(b) /\ a # b => op[a].fd # op[b].fd

\* While update() works with ufds_, a descriptor that lost the transport it was built
\* for is in just_deleted_; for the others, poll(2) looked at that transport.
StaleIsRemembered ==
  /\ phase \in {"poll", "scan", "found", "callback"} =>
       \A fd \in Fds : \/ ufds[fd].built = NoOne
                       \/ socket_info[fd].transport = ufds[fd].built
                       \/ fd \in just_deleted
  /\ phase \in {"scan", "found", "callback"} =>
       \A fd \in pending : /\ ufds[fd].built # NoOne
                           /\ fd \in just_deleted \/ ufds[fd].of = ufds[fd].built
  /\ phase \in {"found", "callback"} => cb.fd \in pending
  /\ phase = "found" => cb.fd \in just_deleted \/ cb.transport = ufds[cb.fd].built

\* The inductive invariant: every update() rebuilds ufds_, because nothing resets
\* sockets_changed_; descriptors are closed only after delSocket; and an entry of ufds_ that
\* is out of date is in just_deleted_ until update() is done with it.
IndInv ==
  /\ TypeOK
  /\ sockets_changed
  /\ TrackedIsOpen
  /\ HeldIsPrivate
  /\ StaleIsRemembered
  /\ NoStaleError

\* The poll(2) call that is blocked does not know of an interest that is registered.
StaleUfd(fd) ==
  /\ Tracked(fd)
  /\ \/ ufds[fd].built # socket_info[fd].transport
     \/ ~(socket_info[fd].events \subseteq ufds[fd].events)

\* A socket in error is closed by its callback, even if the first report is skipped
\* because of just_deleted_ ("we'll hit it again next time through"): no transport stays
\* registered and in error.
ErrorIsHandled ==
  \A fd \in Fds \ {SignalFd} : \A t \in Transports :
    []<>(\/ socket_info[fd].transport # t
         \/ "ERR" \notin ready[t]
         \/ shutting_down)

\* A registered interest whose condition holds does not wait for ever until it is reported
\* to the transport, however the registration raced the poll thread.
InterestIsServed ==
  \A fd \in Fds \ {SignalFd} : \A t \in Transports : \A e \in Interest :
    []<>(\/ phase = "callback" /\ cb.transport = t /\ e \in cb.events
         \/ socket_info[fd].transport # t
         \/ e \notin socket_info[fd].events \cap ready[t]
         \/ shutting_down)

\* PollManager::shutdown can join the poll thread, although it does not wake it.
ShutdownJoins == []<>(shutting_down => phase = "exit")

(***************************************************************************)
(* What the repository says and the code does not keep: not invariants.    *)
(* The README describes the behaviours that TLC finds against them.        *)
(***************************************************************************)

\* signal() makes a blocked poll() finish: when every operation has returned and the
\* poll thread waits on an outdated ufds_, there is a byte in the pipe.
WakeupDelivered ==
  phase = "poll" /\ (\A a \in Actors : pc[a] = "idle")
    => signalled \/ \A fd \in Fds : ~StaleUfd(fd)
=============================================================================
