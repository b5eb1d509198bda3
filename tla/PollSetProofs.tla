---------------------------- MODULE PollSetProofs ----------------------------
(***************************************************************************)
(* Proofs about PollSet, for every set of threads, descriptors and         *)
(* transports: the type invariant, the descriptor discipline of close()    *)
(* and addSocket(), and that just_deleted_ keeps the error of a closed     *)
(* socket away from the next owner of its descriptor.                      *)
(***************************************************************************)
EXTENDS PollSet, TLAPS, WellFoundedInduction

\* The constant records of the model have their types.
LEMMA Shapes ==
  /\ NoOne \in Owners /\ Pipe \in Owners
  /\ Untracked \in Info /\ NoOp \in Op /\ NoCallback \in Callback
  BY PollSetAssumption DEF Owners, Info, Untracked, Op, NoOp, Callback, NoCallback, Flags

\* An entry of ufds_ stays an entry when poll(2) or the scan writes its revents.
LEMMA UfdUpdate ==
  ASSUME NEW u \in Ufd, NEW o \in Owners, NEW rev \in SUBSET Flags
  PROVE  [u EXCEPT !.of = o, !.revents = rev] \in Ufd
  BY DEF Ufd

\* So does ufds_ when the scan is done with an entry.
LEMMA ServedType ==
  ASSUME NEW fd \in Fds, ufds \in [Fds -> Ufd], pending \subseteq Fds, Served(fd)
  PROVE  /\ ufds' \in [Fds -> Ufd] /\ pending' \subseteq Fds
         /\ cb' \in Callback /\ phase' = "scan"
<1>1. [ufds[fd] EXCEPT !.of = NoOne, !.revents = {}] \in Ufd
  BY Shapes, UfdUpdate
<1>2. ufds' = [ufds EXCEPT ![fd] = [ufds[fd] EXCEPT !.of = NoOne, !.revents = {}]]
  BY DEF Served, Ufd
<1>3. QED
  BY <1>1, <1>2, Shapes DEF Served

\* A set of descriptors that is not empty has a least member, so the scan of ufds_
\* always has an entry to serve next.
LEMMA SomeMin ==
  ASSUME NEW S \in SUBSET Nat, S # {}
  PROVE  \E c \in S : \A g \in S : c <= g
<1>1. \E c \in S : \A g \in S : ~(<<g, c>> \in OpToRel(<, Nat))
  BY NatLessThanWellFounded, WFMin, Zenon
<1>2. QED
  <2>1. PICK c \in S : \A g \in S : ~(<<g, c>> \in OpToRel(<, Nat))
    BY <1>1
  <2>2. ASSUME NEW g \in S PROVE c <= g
    <3>1. <<g, c>> \in Nat \X Nat
      OBVIOUS
    <3>2. ~(g < c)
      BY <2>1, <3>1 DEF OpToRel
    <3> QED
      BY <3>2
  <2> QED
    BY <2>2

\* delSocket keeps the types of what it writes.
LEMMA DelSocketType ==
  ASSUME NEW a \in Actors, NEW fd \in Fds, TypeOK, delSocket(a, fd)
  PROVE  /\ socket_info' \in [Fds -> Info] /\ op' \in [Actors -> Op]
         /\ just_deleted' \subseteq Fds /\ socket_info_mutex' \in Actors
<1>1. [name |-> "del", fd |-> fd, transport |-> socket_info[fd].transport] \in Op
  BY DEF TypeOK, Info, Op
<1>2. QED
  BY <1>1, Shapes DEF TypeOK, delSocket

\* The initial state has the types of TypeOK.
LEMMA TypeInit == Init => TypeOK
<1> SUFFICES ASSUME Init PROVE TypeOK
  OBVIOUS
<1>1. [transport |-> Pipe, events |-> {"IN"}] \in Info
  BY PollSetAssumption, Shapes DEF Info
<1>2. [built |-> NoOne, events |-> {}, of |-> NoOne, revents |-> {}] \in Ufd
  BY Shapes DEF Ufd
<1>3. owner \in [Fds -> Owners] /\ socket_info \in [Fds -> Info]
  BY <1>1, Shapes DEF Init
<1>4. ufds \in [Fds -> Ufd]
  BY <1>2 DEF Init
<1> QED
  BY <1>3, <1>4, PollSetAssumption, Shapes DEF Init, TypeOK, Actors

\* Every step of PollSet keeps them.
LEMMA TypeStep == TypeOK /\ [Next]_vars => TypeOK'
<1> SUFFICES ASSUME TypeOK, [Next]_vars PROVE TypeOK'
  OBVIOUS
<1> USE PollSetAssumption DEF TypeOK, kernel, table, locks, loop, calls, vars, Goto
<1>1. ASSUME NEW a \in Actors, NEW t \in Transports, Open(a, t) PROVE TypeOK'
  BY <1>1 DEF Open, CanCall, Owners, Op
<1>2. ASSUME NEW a \in Actors, NEW fd \in Fds, CallDelSocket(a, fd) PROVE TypeOK'
  <2>1. /\ socket_info' \in [Fds -> Info] /\ op' \in [Actors -> Op]
        /\ just_deleted' \subseteq Fds /\ socket_info_mutex' \in Actors
    BY <1>2, DelSocketType DEF CallDelSocket
  <2> QED
    BY <1>2, <2>1 DEF CallDelSocket, delSocket
<1>3. ASSUME NEW a \in Actors, NEW fd \in Fds, NEW e \in Interest, addEvents(a, fd, e)
      PROVE TypeOK'
  BY <1>3 DEF addEvents, changeEvents, CanCall, Info, Op
<1>4. ASSUME NEW a \in Actors, NEW fd \in Fds, NEW e \in Interest, delEvents(a, fd, e)
      PROVE TypeOK'
  BY <1>4 DEF delEvents, changeEvents, CanCall, Info, Op
<1>5. ASSUME NEW a \in Actors, OpStep(a) PROVE TypeOK'
  <2>1. CASE addSocket(a)
    <3>1. op[a].transport \in Owners /\ op[a].fd \in Fds
      BY DEF Op
    <3>2. [transport |-> op[a].transport, events |-> {}] \in Info
      BY <3>1 DEF Info
    <3> QED
      <4>1. socket_info' \in [Fds -> Info]
        BY <2>1, <3>1, <3>2 DEF addSocket
      <4>2. pc' \in [Actors -> {"idle", "opened", "signal", "write", "unlock", "return", "close"}]
        BY <2>1 DEF addSocket
      <4>3. sockets_changed' \in BOOLEAN
        BY <2>1 DEF addSocket
      <4> QED
        BY <2>1, <4>1, <4>2, <4>3 DEF addSocket
  <2>2. CASE abandonSocket(a)
    BY <2>2 DEF abandonSocket
  <2>3. CASE signalTryLock(a)
    BY <2>3 DEF signalTryLock
  <2>4. CASE signalWrite(a)
    BY <2>4 DEF signalWrite
  <2>5. CASE signalUnlock(a)
    BY <2>5 DEF signalUnlock
  <2>6. CASE Return(a)
    BY <2>6 DEF Return, NoOp, Op, Owners
  <2>7. CASE CloseFd(a)
    BY <2>7 DEF CloseFd, NoOp, Op, Owners
  <2>8. QED
    BY <1>5, <2>1, <2>2, <2>3, <2>4, <2>5, <2>6, <2>7 DEF OpStep
<1>6. CASE PollerStep
  <2>1. CASE UpdateBegin
    <3>1. ASSUME NEW fd \in Fds
          PROVE  [built |-> socket_info[fd].transport, events |-> socket_info[fd].events,
                  of |-> NoOne, revents |-> {}] \in Ufd
      BY Shapes DEF Info, Ufd
    <3>2. ufds' \in [Fds -> Ufd]
      BY <2>1, <3>1 DEF UpdateBegin, createNativePollset
    <3> QED
      BY <2>1, <3>2 DEF UpdateBegin, createNativePollset
  <2>2. CASE ThreadExit
    BY <2>2 DEF ThreadExit
  <2>3. CASE PollReturn
    <3>1. ufds' \in [Fds -> Ufd]
      <4>1. ASSUME NEW fd \in Fds PROVE Revents(fd) \in SUBSET Flags /\ owner[fd] \in Owners
        BY <2>3, Shapes DEF Revents, Conditions, Owners, Flags
      <4> QED
        BY <2>3, <4>1, UfdUpdate DEF PollReturn
    <3> QED
      BY <2>3, <3>1 DEF PollReturn, ReadyFds
  <2>4. CASE PollTimeout
    BY <2>4 DEF PollTimeout
  <2>5. CASE ScanFind
    <3> DEFINE fd == Current
               wanted == ufds[fd].revents \cap (socket_info[fd].events \cup {"ERR"})
    <3>1. PICK c \in pending : \A g \in pending : c <= g
      BY <2>5, SomeMin DEF ScanFind
    <3>2. fd \in Fds
      BY <3>1 DEF Current
    <3>3. CASE Tracked(fd) /\ wanted # {}
      <4>1. [fd |-> fd, transport |-> socket_info[fd].transport, events |-> wanted] \in Callback
        BY <3>2 DEF Callback, Info, Ufd
      <4> QED
        BY <2>5, <3>3, <4>1 DEF ScanFind
    <3>4. CASE ~(Tracked(fd) /\ wanted # {})
      BY <2>5, <3>2, <3>4, ServedType DEF ScanFind
    <3> QED
      BY <3>3, <3>4
  <2>6. CASE ScanCheck
    <3>1. cb.fd \in Fds
      BY DEF Callback
    <3> QED
      BY <2>6, <3>1, ServedType DEF ScanCheck
  <2>7. CASE onLocalPipeEvents
    <3>1. cb.fd \in Fds
      BY DEF Callback
    <3> QED
      BY <2>7, <3>1, ServedType DEF onLocalPipeEvents
  <2>8. CASE CallbackClose
    <3>1. cb.fd \in Fds /\ Poller \in Actors
      BY DEF Callback, Actors
    <3> QED
      BY <2>8, <3>1, DelSocketType DEF CallbackClose, delSocket
  <2>9. CASE CallbackReturn
    <3>1. cb.fd \in Fds
      BY DEF Callback
    <3> QED
      <4>1. ready' \in [Transports -> SUBSET Flags]
        BY <2>9 DEF CallbackReturn
      <4>2. /\ ufds' \in [Fds -> Ufd] /\ pending' \subseteq Fds
            /\ cb' \in Callback /\ phase' = "scan"
        BY <2>9, <3>1, ServedType DEF CallbackReturn
      <4> QED
        BY <2>9, <4>1, <4>2 DEF CallbackReturn
  <2>10. CASE UpdateEnd
    BY <2>10 DEF UpdateEnd
  <2>11. QED
    BY <1>6, <2>1, <2>2, <2>3, <2>4, <2>5, <2>6, <2>7, <2>8, <2>9, <2>10 DEF PollerStep
<1>7. ASSUME NEW t \in Transports, NEW flag \in Flags, SocketReady(t, flag) PROVE TypeOK'
  BY <1>7 DEF SocketReady
<1>8. CASE shutdown
  BY <1>8 DEF shutdown
<1>9. CASE Stopped \/ UNCHANGED vars
  BY <1>9 DEF Stopped
<1>10. QED
  BY <1>1, <1>2, <1>3, <1>4, <1>5, <1>6, <1>7, <1>8, <1>9 DEF Next

\* The type invariant of PollSet is inductive by itself.
THEOREM TypeCorrect == Spec => []TypeOK
  BY TypeInit, TypeStep, PTL DEF Spec

\* The steps that leave the descriptors, the table and the operations in hand alone.
LEMMA DescriptorFrame ==
  ASSUME TrackedIsOpen, HeldIsPrivate,
         UNCHANGED <<owner, socket_info>>,
         \A a \in Actors : /\ Holds(a)' => Holds(a) /\ op'[a] = op[a]
                           /\ pc'[a] = "opened" => pc[a] = "opened" /\ op'[a] = op[a]
  PROVE  (TrackedIsOpen /\ HeldIsPrivate)'
<1>1. TrackedIsOpen'
  BY DEF TrackedIsOpen, Tracked
<1>2. HeldIsPrivate'
  <2>1. ASSUME NEW a \in Actors, Holds(a)'
        PROVE  (/\ owner[op[a].fd] = op[a].transport
                /\ op[a].transport # NoOne
                /\ ~Tracked(op[a].fd))'
    BY <2>1 DEF HeldIsPrivate, Tracked, Holds
  <2>2. ASSUME NEW a \in Actors, NEW b \in Actors, Holds(a)', Holds(b)', a # b
        PROVE  (op[a].fd # op[b].fd)'
    BY <2>2 DEF HeldIsPrivate, Holds
  <2>3. ASSUME NEW a \in Actors, pc'[a] = "opened" PROVE op'[a].name = "add"
    BY <2>3 DEF HeldIsPrivate, Holds
  <2> QED
    BY <2>1, <2>2, <2>3 DEF HeldIsPrivate
<1>3. QED
  BY <1>1, <1>2

\* delSocket hands a tracked descriptor over to its caller.
LEMMA DelSocketDescriptors ==
  ASSUME NEW a \in Actors, NEW fd \in Fds, TypeOK, TrackedIsOpen, HeldIsPrivate,
         pc[a] = "idle", delSocket(a, fd)
  PROVE  (TrackedIsOpen /\ HeldIsPrivate)'
<1> USE PollSetAssumption DEF TypeOK, Tracked, Holds, Goto
<1>1. /\ socket_info' = [socket_info EXCEPT ![fd] = Untracked]
      /\ owner' = owner
      /\ pc' = [pc EXCEPT ![a] = "signal"]
      /\ socket_info[fd].transport # NoOne
      /\ op'[a].fd = fd /\ op'[a].name = "del"
      /\ op'[a].transport = socket_info[fd].transport
      /\ \A b \in Actors : b # a => op'[b] = op[b] /\ pc'[b] = pc[b]
  BY DEF delSocket, kernel
<1>2. Untracked.transport = NoOne /\ owner[fd] = socket_info[fd].transport
  BY <1>1 DEF Untracked, TrackedIsOpen
<1>3. TrackedIsOpen'
  BY <1>1, <1>2 DEF TrackedIsOpen
<1>4. \A b \in Actors : Holds(b) => op[b].fd # fd
  BY <1>1 DEF HeldIsPrivate
<1>5. HeldIsPrivate'
  BY <1>1, <1>2, <1>4 DEF HeldIsPrivate, Op
<1>6. QED
  BY <1>3, <1>5

\* No step disturbs the descriptor discipline.
LEMMA DescriptorStep ==
  ASSUME TypeOK, TrackedIsOpen, HeldIsPrivate, [Next]_vars
  PROVE  (TrackedIsOpen /\ HeldIsPrivate)'
<1> USE PollSetAssumption DEF kernel, table, locks, loop, calls, vars, Goto
<1>1. ASSUME NEW a \in Actors, NEW t \in Transports, Open(a, t)
      PROVE (TrackedIsOpen /\ HeldIsPrivate)'
  <2>1. PICK fd \in Fds :
          /\ owner[fd] = NoOne
          /\ owner' = [owner EXCEPT ![fd] = t]
          /\ op' = [op EXCEPT ![a] = [name |-> "add", fd |-> fd, transport |-> t]]
    BY <1>1 DEF Open
  <2>2. pc' = [pc EXCEPT ![a] = "opened"] /\ socket_info' = socket_info /\ t # NoOne
    BY <1>1 DEF Open
  <2>3. socket_info[fd].transport = NoOne
    BY <2>1 DEF TrackedIsOpen, Tracked
  <2>4. \A b \in Actors : Holds(b) => op[b].fd # fd
    BY <2>1 DEF HeldIsPrivate
  <2>5. TrackedIsOpen'
    BY <2>1, <2>2, <2>3 DEF TrackedIsOpen, Tracked, TypeOK
  <2>6. HeldIsPrivate'
    BY <2>1, <2>2, <2>3, <2>4 DEF HeldIsPrivate, Holds, Tracked, TypeOK, Op
  <2>7. QED
    BY <2>5, <2>6
<1>2. ASSUME NEW a \in Actors, NEW fd \in Fds, CallDelSocket(a, fd)
      PROVE (TrackedIsOpen /\ HeldIsPrivate)'
  BY <1>2, DelSocketDescriptors DEF CallDelSocket, CanCall
<1>3. ASSUME NEW a \in Actors, NEW fd \in Fds, NEW ev, changeEvents(a, fd, ev)
      PROVE (TrackedIsOpen /\ HeldIsPrivate)'
  <2>1. /\ owner' = owner
        /\ \A g \in Fds : socket_info'[g].transport = socket_info[g].transport
    BY <1>3 DEF changeEvents, TypeOK, Info
  <2>2. \A b \in Actors : Holds(b)' => Holds(b) /\ op'[b] = op[b]
    BY <1>3 DEF changeEvents, CanCall, Holds, TypeOK
  <2>3. \A b \in Actors : op[b].fd \in Fds
    BY DEF TypeOK, Op
  <2> QED
    <3>1. TrackedIsOpen'
      BY <2>1 DEF TrackedIsOpen, Tracked
    <3>2. \A b \in Actors : pc'[b] = "opened" => pc[b] = "opened" /\ op'[b] = op[b]
      BY <1>3 DEF changeEvents, CanCall, TypeOK
    <3>3. \A b \in Actors : Holds(b) => ~(socket_info'[op[b].fd].transport # NoOne)
      BY <2>1, <2>3 DEF HeldIsPrivate, Tracked
    <3>4. HeldIsPrivate'
      BY <2>1, <2>2, <3>2, <3>3 DEF HeldIsPrivate, Tracked
    <3> QED
      BY <3>1, <3>4
<1>4. ASSUME NEW a \in Actors, OpStep(a) PROVE (TrackedIsOpen /\ HeldIsPrivate)'
  <2>1. CASE addSocket(a)
    <3>1. Holds(a) /\ ~Tracked(op[a].fd) /\ owner[op[a].fd] # NoOne
      BY <2>1 DEF addSocket, Holds, HeldIsPrivate
    <3>2. /\ socket_info' = [socket_info EXCEPT ![op[a].fd] =
                               [transport |-> op[a].transport, events |-> {}]]
          /\ pc' = [pc EXCEPT ![a] = "signal"] /\ op' = op /\ owner' = owner
      BY <2>1, <3>1 DEF addSocket
    <3>3. op[a].name = "add" /\ owner[op[a].fd] = op[a].transport
      BY <2>1, <3>1 DEF addSocket, HeldIsPrivate
    <3> QED
      BY <3>1, <3>2, <3>3 DEF TrackedIsOpen, HeldIsPrivate, Holds, Tracked, TypeOK, Op
  <2>2. CASE abandonSocket(a)
    BY <2>2, DescriptorFrame DEF abandonSocket, Holds, TypeOK
  <2>3. CASE signalTryLock(a)
    BY <2>3, DescriptorFrame DEF signalTryLock, Holds, TypeOK
  <2>4. CASE signalWrite(a)
    BY <2>4, DescriptorFrame DEF signalWrite, Holds, TypeOK
  <2>5. CASE signalUnlock(a)
    BY <2>5, DescriptorFrame DEF signalUnlock, Holds, TypeOK
  <2>6. CASE Return(a)
    <3>1. \A b \in Actors : /\ Holds(b)' => Holds(b) /\ op'[b] = op[b]
                            /\ pc'[b] = "opened" => pc[b] = "opened" /\ op'[b] = op[b]
      BY <2>6 DEF Return, Holds, TypeOK
    <3>2. UNCHANGED <<owner, socket_info>>
      BY <2>6 DEF Return
    <3> QED
      BY <3>1, <3>2, DescriptorFrame
  <2>7. CASE CloseFd(a)
    <3>1. Holds(a) /\ ~Tracked(op[a].fd) /\ op[a].fd \in Fds
      BY <2>7 DEF CloseFd, Holds, HeldIsPrivate, TypeOK, Op
    <3> QED
      BY <2>7, <3>1 DEF CloseFd, TrackedIsOpen, HeldIsPrivate, Holds, Tracked, TypeOK, Op
  <2>8. QED
    BY <1>4, <2>1, <2>2, <2>3, <2>4, <2>5, <2>6, <2>7 DEF OpStep
<1>5. CASE PollerStep
  <2>1. CASE CallbackClose
    <3>1. cb.fd \in Fds /\ Poller \in Actors /\ pc[Poller] = "idle"
      BY <2>1 DEF CallbackClose, TypeOK, Callback, Actors
    <3> QED
      BY <2>1, <3>1, DelSocketDescriptors DEF CallbackClose
  <2>2. CASE ~CallbackClose
    <3>1. UNCHANGED <<owner, socket_info, op, pc>>
      BY <1>5, <2>2 DEF PollerStep, UpdateBegin, createNativePollset, ThreadExit, PollReturn,
         PollTimeout, ScanFind, ScanCheck, onLocalPipeEvents, CallbackReturn, UpdateEnd
    <3> QED
      BY <3>1, DescriptorFrame DEF Holds
  <2> QED
    BY <2>1, <2>2
<1>6. CASE \/ \E t \in Transports : \E flag \in Flags : SocketReady(t, flag)
           \/ shutdown \/ Stopped \/ UNCHANGED vars
  <2>1. UNCHANGED <<owner, socket_info, op, pc>>
    BY <1>6 DEF SocketReady, shutdown, Stopped
  <2> QED
    BY <2>1, DescriptorFrame DEF Holds
<1>7. QED
  BY <1>1, <1>2, <1>3, <1>4, <1>5, <1>6 DEF Next, addEvents, delEvents

\* The steps that leave update() alone: the table may only lose a transport whose
\* descriptor goes to just_deleted_, or gain one at a descriptor that has none.
LEMMA ScanFrame ==
  ASSUME TypeOK, StaleIsRemembered, NoStaleError, UNCHANGED loop,
         just_deleted \subseteq just_deleted',
         \A fd \in Fds : \/ socket_info'[fd].transport = socket_info[fd].transport
                         \/ socket_info[fd].transport = NoOne
                         \/ fd \in just_deleted'
  PROVE  (StaleIsRemembered /\ NoStaleError)'
<1>1. NoStaleError'
  BY DEF NoStaleError, loop
<1>2. StaleIsRemembered'
  BY DEF StaleIsRemembered, loop, TypeOK
<1>3. QED
  BY <1>1, <1>2

\* The scan is done with an entry: the other entries keep what is known of them.
LEMMA ServedScan ==
  ASSUME NEW fd \in Fds, TypeOK, StaleIsRemembered,
         phase \in {"scan", "found", "callback"},
         Served(fd), UNCHANGED <<socket_info, just_deleted>>
  PROVE  (StaleIsRemembered /\ NoStaleError)'
<1>1. /\ \A g \in Fds : ufds'[g].built = ufds[g].built
      /\ \A g \in Fds : g # fd => ufds'[g].of = ufds[g].of
      /\ pending' = pending \ {fd} /\ phase' = "scan"
  BY DEF Served, TypeOK, Ufd
<1>2. StaleIsRemembered'
  BY <1>1 DEF StaleIsRemembered, TypeOK
<1>3. NoStaleError'
  BY <1>1 DEF NoStaleError
<1>4. QED
  BY <1>2, <1>3

\* No step makes the scan forget that an entry of ufds_ is out of date.
LEMMA ScanStep ==
  ASSUME IndInv, [Next]_vars
  PROVE  (sockets_changed /\ StaleIsRemembered /\ NoStaleError)'
<1> USE PollSetAssumption DEF kernel, table, locks, calls, vars, Goto
<1>t. TypeOK /\ StaleIsRemembered /\ NoStaleError /\ sockets_changed
  BY DEF IndInv
<1>1. ASSUME NEW a \in Actors, NEW t \in Transports, Open(a, t)
      PROVE (sockets_changed /\ StaleIsRemembered /\ NoStaleError)'
  BY <1>1, <1>t, ScanFrame DEF Open
<1>2. ASSUME NEW a \in Actors, NEW fd \in Fds, delSocket(a, fd)
      PROVE (sockets_changed /\ StaleIsRemembered /\ NoStaleError)'
  <2>1. UNCHANGED loop /\ just_deleted \subseteq just_deleted' /\ sockets_changed'
    BY <1>2 DEF delSocket
  <2>2. \A g \in Fds : \/ socket_info'[g].transport = socket_info[g].transport
                       \/ g \in just_deleted'
    BY <1>2, <1>t DEF delSocket, TypeOK
  <2> QED
    BY <2>1, <2>2, <1>t, ScanFrame
<1>3. ASSUME NEW a \in Actors, NEW fd \in Fds, NEW ev, changeEvents(a, fd, ev)
      PROVE (sockets_changed /\ StaleIsRemembered /\ NoStaleError)'
  <2>1. \A g \in Fds : socket_info'[g].transport = socket_info[g].transport
    BY <1>3, <1>t DEF changeEvents, TypeOK, Info
  <2> QED
    BY <1>3, <2>1, <1>t, ScanFrame DEF changeEvents
<1>4. ASSUME NEW a \in Actors, OpStep(a)
      PROVE (sockets_changed /\ StaleIsRemembered /\ NoStaleError)'
  <2>1. CASE addSocket(a)
    <3>1. /\ UNCHANGED <<loop, just_deleted>> /\ sockets_changed'
      BY <2>1, <1>t DEF addSocket
    <3>2. \A g \in Fds : \/ socket_info'[g].transport = socket_info[g].transport
                         \/ socket_info[g].transport = NoOne
      BY <2>1, <1>t DEF addSocket, Tracked, TypeOK
    <3> QED
      BY <3>1, <3>2, <1>t, ScanFrame
  <2>2. CASE ~addSocket(a)
    <3>1. UNCHANGED <<loop, socket_info, just_deleted, sockets_changed>>
      BY <1>4, <2>2 DEF OpStep, abandonSocket, signalTryLock, signalWrite, signalUnlock,
         Return, CloseFd
    <3> QED
      BY <3>1, <1>t, ScanFrame
  <2> QED
    BY <2>1, <2>2
<1>5. CASE PollerStep
  <2>1. CASE UpdateBegin
    <3>1. /\ \A fd \in Fds : ufds'[fd].built = socket_info[fd].transport
          /\ phase' = "poll" /\ UNCHANGED <<socket_info, just_deleted, sockets_changed>>
      BY <2>1, <1>t DEF UpdateBegin, createNativePollset
    <3> QED
      BY <3>1, <1>t DEF StaleIsRemembered, NoStaleError
  <2>2. CASE ThreadExit \/ PollTimeout
    BY <2>2, <1>t DEF ThreadExit, PollTimeout, StaleIsRemembered, NoStaleError
  <2>3. CASE PollReturn
    <3>1. /\ \A fd \in Fds : ufds'[fd].built = ufds[fd].built /\ ufds'[fd].of = owner[fd]
          /\ pending' = ReadyFds /\ phase' = "scan" /\ phase = "poll"
          /\ UNCHANGED <<socket_info, just_deleted, sockets_changed>>
      <4>1. ASSUME NEW fd \in Fds
            PROVE  ufds[fd] \in Ufd /\ owner[fd] \in Owners /\ Revents(fd) \in SUBSET Flags
        BY <1>t DEF TypeOK, Revents, Conditions, Owners, Flags
      <4>2. \A fd \in Fds : ufds'[fd] = [ufds[fd] EXCEPT !.of = owner[fd], !.revents = Revents(fd)]
        BY <2>3 DEF PollReturn
      <4>3. ASSUME NEW fd \in Fds
            PROVE  ufds'[fd].built = ufds[fd].built /\ ufds'[fd].of = owner[fd]
        <5>1. /\ ufds[fd] \in Ufd /\ owner[fd] \in Owners /\ Revents(fd) \in SUBSET Flags
              /\ ufds'[fd] = [ufds[fd] EXCEPT !.of = owner[fd], !.revents = Revents(fd)]
          BY <4>1, <4>2
        <5>2. /\ [ufds[fd] EXCEPT !.of = owner[fd], !.revents = Revents(fd)].built = ufds[fd].built
              /\ [ufds[fd] EXCEPT !.of = owner[fd], !.revents = Revents(fd)].of = owner[fd]
          BY <5>1 DEF Ufd
        <5> QED
          BY <5>1, <5>2, Zenon
      <4> QED
        BY <2>3, <4>3 DEF PollReturn
    <3>2. ASSUME NEW fd \in ReadyFds
          PROVE  fd \in Fds /\ ufds[fd].built # NoOne
      BY DEF ReadyFds, Revents
    <3>3. ASSUME NEW fd \in ReadyFds, fd \notin just_deleted
          PROVE  owner[fd] = ufds[fd].built
      <4>1. socket_info[fd].transport = ufds[fd].built /\ ufds[fd].built # NoOne
        BY <3>1, <3>2, <3>3, <1>t DEF StaleIsRemembered
      <4> QED
        BY <3>2, <4>1 DEF IndInv, TrackedIsOpen, Tracked
    <3>4. StaleIsRemembered'
      BY <3>1, <3>2, <3>3, <1>t DEF StaleIsRemembered
    <3> QED
      BY <3>1, <3>4, <1>t DEF NoStaleError
  <2>4. CASE ScanFind
    <3> DEFINE fd == Current
               wanted == ufds[fd].revents \cap (socket_info[fd].events \cup {"ERR"})
    <3>1. PICK c \in pending : \A g \in pending : c <= g
      BY <2>4, <1>t, SomeMin DEF ScanFind, TypeOK
    <3>2. fd \in pending /\ fd \in Fds /\ phase = "scan"
      BY <2>4, <3>1, <1>t DEF Current, ScanFind, TypeOK
    <3>3. CASE Tracked(fd) /\ wanted # {}
      <4>1. /\ cb'.fd = fd /\ cb'.transport = socket_info[fd].transport /\ phase' = "found"
            /\ UNCHANGED <<ufds, pending, socket_info, just_deleted, sockets_changed>>
        BY <2>4, <3>3 DEF ScanFind
      <4>2. ufds[fd].built # NoOne
        BY <3>2, <1>t DEF StaleIsRemembered
      <4>3. fd \in just_deleted \/ socket_info[fd].transport = ufds[fd].built
        BY <3>2, <4>2, <1>t DEF StaleIsRemembered
      <4> QED
        BY <4>1, <4>3, <3>2, <1>t DEF StaleIsRemembered, NoStaleError
    <3>4. CASE ~(Tracked(fd) /\ wanted # {})
      <4>1. Served(fd) /\ UNCHANGED <<socket_info, just_deleted, sockets_changed>>
        BY <2>4, <3>4 DEF ScanFind
      <4> QED
        BY <4>1, <3>2, <1>t, ServedScan
    <3> QED
      BY <3>3, <3>4
  <2>5. CASE ScanCheck
    <3>1. phase = "found" /\ cb.fd \in Fds
      BY <2>5, <1>t DEF ScanCheck, TypeOK, Callback
    <3>2. CASE "ERR" \in cb.events /\ cb.fd \in just_deleted
      <4>1. Served(cb.fd) /\ UNCHANGED <<socket_info, just_deleted, sockets_changed>>
        BY <2>5, <3>2 DEF ScanCheck
      <4> QED
        BY <4>1, <3>1, <1>t, ServedScan
    <3>3. CASE ~("ERR" \in cb.events /\ cb.fd \in just_deleted)
      <4>1. /\ phase' = "callback"
            /\ UNCHANGED <<ufds, pending, cb, socket_info, just_deleted, sockets_changed>>
        BY <2>5, <3>3 DEF ScanCheck
      <4>2. StaleIsRemembered'
        BY <4>1, <3>1, <1>t DEF StaleIsRemembered
      <4>3. NoStaleError'
        BY <4>1, <3>1, <3>3, <1>t DEF StaleIsRemembered, NoStaleError
      <4> QED
        BY <4>1, <4>2, <4>3, <1>t
    <3> QED
      BY <3>2, <3>3
  <2>6. CASE onLocalPipeEvents \/ CallbackReturn
    <3>1. /\ phase = "callback" /\ cb.fd \in Fds /\ Served(cb.fd)
          /\ UNCHANGED <<socket_info, just_deleted, sockets_changed>>
      BY <2>6, <1>t DEF onLocalPipeEvents, CallbackReturn, TypeOK, Callback
    <3> QED
      BY <3>1, <1>t, ServedScan
  <2>7. CASE CallbackClose
    BY <2>7, <1>2, <1>t DEF CallbackClose, TypeOK, Callback, Actors
  <2>8. CASE UpdateEnd
    BY <2>8, <1>t DEF UpdateEnd, StaleIsRemembered, NoStaleError
  <2>9. QED
    BY <1>5, <2>1, <2>2, <2>3, <2>4, <2>5, <2>6, <2>7, <2>8 DEF PollerStep
<1>6. CASE \/ \E t \in Transports : \E flag \in Flags : SocketReady(t, flag)
           \/ shutdown \/ Stopped \/ UNCHANGED vars
  <2>1. UNCHANGED <<loop, socket_info, just_deleted, sockets_changed>>
    BY <1>6 DEF SocketReady, shutdown, Stopped
  <2> QED
    BY <2>1, <1>t, ScanFrame
<1>7. QED
  BY <1>1, <1>2, <1>3, <1>4, <1>5, <1>6 DEF Next, addEvents, delEvents, CallDelSocket

\* The inductive invariant holds: from the descriptor discipline of close() and from
\* update() clearing just_deleted_ only when it is done with ufds_.
THEOREM InvariantHolds == Spec => []IndInv
<1>1. Init => IndInv
  BY TypeInit DEF Init, IndInv, TrackedIsOpen, HeldIsPrivate, Holds, Tracked, Untracked,
     StaleIsRemembered, NoStaleError
<1>2. IndInv /\ [Next]_vars => IndInv'
  BY TypeStep, DescriptorStep, ScanStep DEF IndInv
<1>3. QED
  BY <1>1, <1>2, PTL DEF Spec

\* A transport is in the poll set only while its descriptor is its own.
THEOREM TrackedTransportIsOpen == Spec => []TrackedIsOpen
  BY InvariantHolds, PTL DEF IndInv

\* The error of a closed socket is never delivered to a transport that reuses its
\* descriptor, for any number of threads, descriptors and transports.
THEOREM StaleErrorNeverDelivered == Spec => []NoStaleError
  BY InvariantHolds, PTL DEF IndInv

=============================================================================
