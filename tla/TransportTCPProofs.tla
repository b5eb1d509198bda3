-------------------------- MODULE TransportTCPProofs --------------------------
(***************************************************************************)
(* One TransportTCP with any number of threads, any owner that keeps to    *)
(* SetsUp, and any number of messages (module TransportTCP): the discipline *)
(* of close_mutex_ and message_mutex_, and what follows from it.           *)
(***************************************************************************)
EXTENDS TransportTCP, TLAPS

UserLabels == {"next", "addRead", "setRead", "enableWrite", "addWrite", "push", "waiting",
               "released", "disconnect"}
PollerLabels == {"wait", "update", "read", "readMessage", "msgcb", "readDone", "write",
                 "writeMessage", "writeDone", "error", "unexpected", "disconnect"}

\* Where the poll thread is, or goes on once disconnect_cb_ has returned.
Place == IF pc[Poller] = "disconnect" THEN after[Poller] ELSE pc[Poller]

\* The thread is in sendFrames and has found the queue empty.
Sends(u) == pc[u] \in {"enableWrite", "addWrite", "push"}

\* Each thread is at a place of its own code, never at a ROS_BREAK.
Places ==
  /\ \A u \in Users : pc[u] \in UserLabels /\ (pc[u] = "disconnect" => after[u] = "released")
  /\ pc[Poller] \in PollerLabels
  /\ pc[Poller] = "disconnect" => after[Poller] \in {"wait", "readDone", "writeDone"}

\* A thread that is in the middle of a call is in one of these four.
InCall ==
  \A u \in Users : pc[u] # "next" =>
    /\ at[u] \in DOMAIN owner.script[u]
    /\ owner.script[u][at[u]] \in {"enableRead", "sendMessage", "wait", "close"}

\* Who has which mutex: the poll thread has close_mutex_ from the check of closed_ to the end
\* of the locked part of socketUpdate, and message_mutex_ below readMessage.
Locks ==
  /\ close_mutex = IF Place \in {"read", "readMessage", "msgcb", "readDone", "write",
                                 "writeMessage", "writeDone", "unexpected"}
                     THEN Poller ELSE Nobody
  /\ \A u \in Users : message_mutex = u <=> Sends(u)
  /\ message_mutex = Poller => Place \in {"msgcb", "readDone", "writeDone", "unexpected"}
  /\ Place \in {"msgcb", "readDone", "unexpected"} => message_mutex = Poller

\* No thread will call enableMessagePass any more.
MessagePassDone ==
  \A u \in Users : \A i \in DOMAIN owner.script[u] :
    i >= at[u] => owner.script[u][i] # "enableMessagePass"

\* The transport reads, or is about to, or has just been read from.
Reading ==
  \/ expecting_read
  \/ \E u \in Users : pc[u] \in {"addRead", "setRead"}
  \/ Place \in {"readMessage", "msgcb", "readDone"}

\* A transport that reads has been set up, so the callbacks that close() takes away under the
\* poll thread do not come back before it gets to write.
ClosedForGood ==
  /\ tracked <=> ~closed
  /\ pc[Poller] \in {"read", "readMessage", "msgcb", "writeMessage"} => ~closed
  /\ Reading => MessagePassDone
  /\ closed /\ Place \in {"readDone", "write"} => ~io_cb /\ MessagePassDone

\* The thread that closes takes disconnect_cb_ with it.
OneCallback ==
  /\ ~closed => disconnects = 0 /\ \A a \in Actors : pc[a] # "disconnect"
  /\ \A a \in Actors : pc[a] = "disconnect" =>
       disconnects = 0 /\ \A b \in Actors : pc[b] = "disconnect" => b = a
  /\ disconnects <= 1

\* The queue, the flag and the poll set, step by step through sendFrames.
Interest ==
  /\ ~closed =>
       /\ \A u \in Users : pc[u] \in {"enableWrite", "addWrite"} =>
            ~expecting_write /\ "OUT" \notin events /\ send_msgs = 0
       /\ \A u \in Users : pc[u] = "push" => expecting_write /\ "OUT" \in events
       /\ (\A u \in Users : ~Sends(u)) =>
            /\ expecting_write <=> send_msgs > 0
            /\ expecting_write <=> "OUT" \in events
  /\ pc[Poller] = "writeMessage" => expecting_write

\* readmsg_cb_ is set before anything is sent, and so before anything is received.
CallbackSet ==
  /\ owner.accepted => msg_cb
  /\ \A u \in Users : \A i \in DOMAIN owner.script[u] :
       i < at[u] /\ owner.script[u][i] = "setMsgCallback" => msg_cb
  /\ inbox > 0 \/ sent > 0 \/ send_msgs > 0 \/ (\E u \in Users : Sends(u)) => msg_cb

\* A publisher's connection reads until its options have come, and is only sent to after that.
OptionsOnce ==
  /\ pc[Poller] \in {"readMessage", "msgcb"} => expecting_read
  /\ owner.accepted /\ setup => owner.readmsg_cb = "onOptions" /\ ~expecting_read
  /\ owner.accepted => \A u \in Users : /\ pc[u] \notin {"addRead", "setRead"}
                                        /\ Sends(u) => setup

\* The mutex of the owner of an accepted connection is held only between the two calls of a
\* thread that binds a method.
OwnerMutex ==
  /\ owner.readmsg_cb = "onOptions" => app_mutex = Nobody
  /\ owner.readmsg_cb = "onReceive" =>
       /\ app_mutex \in Users \cup {Nobody}
       /\ \A u \in Users : pc[u] = "next" /\ (app_mutex = u <=> Calling(u, "unlock"))

IndInv ==
  /\ TypeOK /\ Places /\ InCall /\ Locks /\ ClosedForGood /\ OneCallback /\ Interest
  /\ CallbackSet /\ OptionsOnce /\ OwnerMutex

-----------------------------------------------------------------------------
\* The steps by what they disturb.
Prepares(u) ==
  \/ lock(u) \/ unlock(u) \/ enlist(u)
  \/ setDisconnectCallback(u) \/ enableMessagePass(u) \/ setMsgCallback(u)
  \/ enableReadCheck(u) \/ enableReadAdd(u) \/ enableReadFlag(u)
SendsStep(u) ==
  \/ sendFrames(u) \/ publishSkips(u)
  \/ enableWriteCheck(u) \/ enableWriteAdd(u) \/ sendFramesPush(u)
WaitsOrCloses(u) == wait(u) \/ waitReturn(u) \/ closeCall(u) \/ closeReturn(u)
Updates ==
  Dispatch \/ socketUpdate \/ socketUpdateRead \/ readDone \/ socketUpdateWrite \/ writeDone
Reads == readMessage \/ readClosed
Delivers == onOptions \/ receive \/ response \/ onResponse \/ onReceive
Writes == writeMessage \/ writeFails \/ socketUpdateError
Elsewhere == PeerSends \/ PeerCloses \/ PeerResets \/ UNCHANGED vars

USE TransportAssumption

\* Every step is one of these.
LEMMA StepKinds ==
  ASSUME [Next]_vars
  PROVE  \/ \E u \in Users : Prepares(u) \/ SendsStep(u) \/ WaitsOrCloses(u)
                               \/ disconnectCallback(u)
         \/ Updates \/ Reads \/ Delivers \/ Writes \/ disconnectCallback(Poller) \/ Elsewhere
BY DEF Next, UserStep, PollerStep, Quiet, Prepares, SendsStep, WaitsOrCloses, Updates, Reads,
       Delivers, Writes, Elsewhere

\* A call belongs to the script of its thread.
LEMMA ScriptCalls ==
  ASSUME TypeOK, NEW u \in Users
  PROVE  /\ owner.script[u] \in Seq(Calls) /\ DOMAIN owner.script[u] = 1..Len(owner.script[u])
         /\ Len(owner.script[u]) \in Nat /\ at[u] \in Nat /\ at[u] > 0
         /\ \A call : Calling(u, call) => at[u] \in DOMAIN owner.script[u]
<1>1. owner \in Owner /\ at[u] \in Nat /\ at[u] > 0
  BY DEF TypeOK
<1>2. owner.script \in [Users -> Seq(Calls)]
  BY <1>1 DEF Owner
<1>3. owner.script[u] \in Seq(Calls)
  BY <1>2
<1>4. DOMAIN owner.script[u] = 1..Len(owner.script[u]) /\ Len(owner.script[u]) \in Nat
  BY <1>3
<1> QED BY <1>1, <1>3, <1>4 DEF Calling

\* What an owner of an accepted connection calls.
LEMMA AcceptedCalls ==
  ASSUME TypeOK, NEW u \in Users, NEW call, Calling(u, call)
  PROVE  /\ pc[u] = "next"
         /\ owner.readmsg_cb = "onOptions" => call \in {"sendMessage", "close"}
         /\ owner.readmsg_cb = "onReceive" => call \in {"lock", "unlock"}
<1>1. SetsUp(owner) /\ at[u] \in DOMAIN owner.script[u] /\ owner.script[u][at[u]] = call
  BY ScriptCalls DEF TypeOK, Calling
<1>2. CASE owner.readmsg_cb = "onOptions"
  BY <1>1, <1>2 DEF SetsUp, Calling
<1>3. CASE owner.readmsg_cb = "onReceive"
  BY <1>1, <1>3 DEF SetsUp, Calling
<1> QED BY <1>2, <1>3 DEF Calling

\* Only the connections of a publisher and of a service manager are accepted.
LEMMA AcceptedOwner ==
  TypeOK => (owner.accepted <=> owner.readmsg_cb \in {"onOptions", "onReceive"})
BY DEF TypeOK, SetsUp

\* Who reads without having been accepted has called enableMessagePass, and nobody else does.
LEMMA ReadersHaveSetUp ==
  ASSUME TypeOK, NEW u \in Users, Calling(u, "enableRead")
  PROVE  MessagePassDone
<1>1. SetsUp(owner) /\ at[u] \in DOMAIN owner.script[u] /\ owner.script[u][at[u]] = "enableRead"
  BY ScriptCalls DEF TypeOK, Calling
<1>2. owner.readmsg_cb \notin {"onOptions", "onReceive"}
  BY AcceptedCalls
<1>3. \A v \in Users : \A j \in DOMAIN owner.script[v] :
        owner.script[v][j] = "enableMessagePass" => v = u /\ j < at[u]
  BY <1>1, <1>2 DEF SetsUp
<1> QED BY <1>3, ScriptCalls DEF MessagePassDone

\* bind() takes the mutex and gives it back.
LEMMA BindCalls ==
  ASSUME TypeOK, owner.readmsg_cb = "onReceive", NEW u \in Users, pc[u] = "next", pc'[u] = "next",
         at'[u] = at[u] + 1, owner' = owner
  PROVE  /\ Calling(u, "lock") => Calling(u, "unlock")'
         /\ Calling(u, "unlock") => ~Calling(u, "unlock")'
<1>1. SetsUp(owner)
  BY DEF TypeOK
<1>2. \A i \in DOMAIN owner.script[u] :
        \/ /\ owner.script[u][i] = "lock"
           /\ i + 1 \in DOMAIN owner.script[u] /\ owner.script[u][i + 1] = "unlock"
        \/ /\ owner.script[u][i] = "unlock"
           /\ i - 1 \in DOMAIN owner.script[u] /\ owner.script[u][i - 1] = "lock"
  BY <1>1 DEF SetsUp
<1>3. /\ DOMAIN owner.script[u] = 1..Len(owner.script[u]) /\ Len(owner.script[u]) \in Nat
      /\ at[u] \in Nat /\ (at[u] + 1) - 1 = at[u]
  BY ScriptCalls
<1>4. ASSUME Calling(u, "lock") PROVE Calling(u, "unlock")'
  <2>1. at[u] \in DOMAIN owner.script[u] /\ owner.script[u][at[u]] = "lock"
    BY <1>4, ScriptCalls DEF Calling
  <2> QED BY <1>2, <1>3, <2>1 DEF Calling
<1>5. ASSUME Calling(u, "unlock"), Calling(u, "unlock")' PROVE FALSE
  <2>1. at[u] + 1 \in DOMAIN owner.script[u] /\ owner.script[u][at[u] + 1] = "unlock"
    BY <1>3, <1>5, ScriptCalls DEF Calling
  <2>2. owner.script[u][at[u]] = "lock"
    BY <1>2, <1>3, <2>1
  <2> QED BY <1>5, <2>2 DEF Calling
<1> QED BY <1>4, <1>5

\* Who sends on a connection that was not accepted has set readmsg_cb_.
LEMMA SendersListen ==
  ASSUME TypeOK, CallbackSet, NEW u \in Users, Calling(u, "sendMessage")
  PROVE  msg_cb
<1>1. CASE owner.accepted
  BY <1>1 DEF CallbackSet
<1>2. CASE ~owner.accepted
  <2>1. /\ SetsUp(owner)
        /\ at[u] \in DOMAIN owner.script[u] /\ owner.script[u][at[u]] = "sendMessage"
    BY ScriptCalls DEF TypeOK, Calling
  <2>2. owner.readmsg_cb \notin {"onOptions", "onReceive"}
    BY <1>2, AcceptedOwner
  <2>3. PICK j \in 1..(at[u] - 1) :
          j \in DOMAIN owner.script[u] /\ owner.script[u][j] = "setMsgCallback"
    BY <2>1, <2>2 DEF SetsUp
  <2> QED BY <2>3, ScriptCalls DEF CallbackSet
<1> QED BY <1>1, <1>2

\* Scripts only go forward.
LEMMA PassStaysDone ==
  ASSUME TypeOK, MessagePassDone, owner' = owner, \A u \in Users : at'[u] \in {at[u], at[u] + 1}
  PROVE  MessagePassDone'
BY ScriptCalls DEF MessagePassDone

USE DEF state, mutexes, app, control, net, vars, Actors, Goto, Done, closeBody, writeFrame,
        partWritten, disableWrite,
        lock, unlock, enlist, setDisconnectCallback, enableMessagePass, setMsgCallback,
        enableReadCheck, enableReadAdd, enableReadFlag, sendFrames, publishSkips,
        enableWriteCheck, enableWriteAdd, sendFramesPush, wait, waitReturn, closeCall,
        closeReturn, disconnectCallback, Dispatch, socketUpdate, socketUpdateRead,
        readMessage, readClosed, onOptions, receive, response, onResponse, onReceive,
        readDone, socketUpdateWrite, writeMessage, writeFails, writeDone, socketUpdateError,
        PeerSends, PeerCloses, PeerResets

\* Only the thread that sets closed_ takes disconnect_cb_ with it.
LEMMA StepOneCallback == IndInv /\ [Next]_vars => OneCallback'
<1> SUFFICES ASSUME IndInv, [Next]_vars PROVE OneCallback'
  OBVIOUS
<1>t. TypeOK /\ Places /\ OneCallback
  BY DEF IndInv
<1>1. ASSUME NEW u \in Users, Prepares(u) PROVE OneCallback'
  BY <1>t, <1>1 DEF Prepares, OneCallback, Places, TypeOK, Calling
<1>2. ASSUME NEW u \in Users, SendsStep(u) PROVE OneCallback'
  BY <1>t, <1>2 DEF SendsStep, OneCallback, Places, TypeOK, Calling
<1>3. ASSUME NEW u \in Users, WaitsOrCloses(u) PROVE OneCallback'
  BY <1>t, <1>3 DEF WaitsOrCloses, OneCallback, Places, TypeOK, Calling
<1>4. ASSUME NEW u \in Users, disconnectCallback(u) PROVE OneCallback'
  BY <1>t, <1>4 DEF OneCallback, Places, TypeOK
<1>5. ASSUME Updates PROVE OneCallback'
  BY <1>t, <1>5 DEF Updates, OneCallback, Places, TypeOK
<1>6. ASSUME Reads PROVE OneCallback'
  BY <1>t, <1>6 DEF Reads, OneCallback, Places, TypeOK
<1>7. ASSUME Delivers PROVE OneCallback'
  BY <1>t, <1>7 DEF Delivers, OneCallback, Places, TypeOK
<1>8. ASSUME Writes PROVE OneCallback'
  BY <1>t, <1>8 DEF Writes, OneCallback, Places, TypeOK
<1>9. ASSUME disconnectCallback(Poller) PROVE OneCallback'
  BY <1>t, <1>9 DEF OneCallback, Places, TypeOK
<1>10. ASSUME Elsewhere PROVE OneCallback'
  BY <1>t, <1>10 DEF Elsewhere, OneCallback, Places, TypeOK
<1> QED BY <1>1, <1>2, <1>3, <1>4, <1>5, <1>6, <1>7, <1>8, <1>9, <1>10, StepKinds

\* No thread comes to a ROS_BREAK.
LEMMA StepPlaces == IndInv /\ [Next]_vars => Places'
<1> SUFFICES ASSUME IndInv, [Next]_vars PROVE Places'
  OBVIOUS
<1>t. TypeOK /\ Places /\ Locks /\ ClosedForGood /\ Interest /\ CallbackSet /\ OptionsOnce
  BY DEF IndInv
<1>1. ASSUME NEW u \in Users, Prepares(u) PROVE Places'
  BY <1>t, <1>1 DEF Prepares, Places, UserLabels, PollerLabels, TypeOK, Calling
<1>2. ASSUME NEW u \in Users, SendsStep(u) PROVE Places'
  BY <1>t, <1>2 DEF SendsStep, Places, UserLabels, PollerLabels, TypeOK, Calling
<1>3. ASSUME NEW u \in Users, WaitsOrCloses(u) PROVE Places'
  BY <1>t, <1>3 DEF WaitsOrCloses, Places, UserLabels, PollerLabels, TypeOK, Calling
<1>4. ASSUME NEW u \in Users, disconnectCallback(u) PROVE Places'
  BY <1>t, <1>4 DEF Places, UserLabels, PollerLabels, TypeOK
<1>5. ASSUME Updates PROVE Places'
  BY <1>t, <1>5 DEF Updates, Places, UserLabels, PollerLabels, TypeOK
<1>6. ASSUME Reads PROVE Places'
  BY <1>t, <1>6 DEF Reads, Places, UserLabels, PollerLabels, TypeOK, CallbackSet
<1>7. ASSUME Delivers PROVE Places'
  BY <1>t, <1>7, AcceptedOwner DEF Delivers, Places, UserLabels, PollerLabels, TypeOK, OptionsOnce
<1>8. ASSUME Writes PROVE Places'
  BY <1>t, <1>8
    DEF Writes, Places, UserLabels, PollerLabels, TypeOK, Interest, Locks, ClosedForGood, Sends,
        Place
<1>9. ASSUME disconnectCallback(Poller) PROVE Places'
  BY <1>t, <1>9 DEF Places, UserLabels, PollerLabels, TypeOK
<1>10. ASSUME Elsewhere PROVE Places'
  BY <1>t, <1>10 DEF Elsewhere, Places, UserLabels, PollerLabels, TypeOK
<1> QED BY <1>1, <1>2, <1>3, <1>4, <1>5, <1>6, <1>7, <1>8, <1>9, <1>10, StepKinds

\* Only these calls take more than one step.
LEMMA StepInCall == IndInv /\ [Next]_vars => InCall'
<1> SUFFICES ASSUME IndInv, [Next]_vars PROVE InCall'
  OBVIOUS
<1>t. TypeOK /\ Places /\ InCall
  BY DEF IndInv
<1>1. ASSUME NEW u \in Users, Prepares(u) PROVE InCall'
  BY <1>t, <1>1, ScriptCalls DEF Prepares, InCall, Places, UserLabels, TypeOK, Calling
<1>2. ASSUME NEW u \in Users, SendsStep(u) PROVE InCall'
  BY <1>t, <1>2, ScriptCalls DEF SendsStep, InCall, Places, UserLabels, TypeOK, Calling
<1>3. ASSUME NEW u \in Users, WaitsOrCloses(u) PROVE InCall'
  <2>1. CASE wait(u)
    BY <1>t, ScriptCalls, <2>1 DEF InCall, Places, UserLabels, TypeOK, Calling
  <2>2. CASE waitReturn(u)
    BY <1>t, ScriptCalls, <2>2 DEF InCall, Places, UserLabels, TypeOK, Calling
  <2>3. CASE closeCall(u)
    BY <1>t, ScriptCalls, <2>3 DEF InCall, Places, UserLabels, TypeOK, Calling
  <2>4. CASE closeReturn(u)
    BY <1>t, ScriptCalls, <2>4 DEF InCall, Places, UserLabels, TypeOK, Calling
  <2> QED BY <1>3, <2>1, <2>2, <2>3, <2>4 DEF WaitsOrCloses
<1>4. ASSUME NEW u \in Users, disconnectCallback(u) PROVE InCall'
  BY <1>t, <1>4 DEF InCall, Places, UserLabels, TypeOK
<1>5. ASSUME Updates PROVE InCall'
  BY <1>t, <1>5 DEF Updates, InCall, Places, UserLabels, TypeOK
<1>6. ASSUME Reads PROVE InCall'
  BY <1>t, <1>6 DEF Reads, InCall, Places, UserLabels, TypeOK
<1>7. ASSUME Delivers PROVE InCall'
  BY <1>t, <1>7 DEF Delivers, InCall, Places, UserLabels, TypeOK
<1>8. ASSUME Writes PROVE InCall'
  BY <1>t, <1>8 DEF Writes, InCall, Places, UserLabels, TypeOK
<1>9. ASSUME disconnectCallback(Poller) PROVE InCall'
  BY <1>t, <1>9 DEF InCall, Places, UserLabels, TypeOK
<1>10. ASSUME Elsewhere PROVE InCall'
  BY <1>t, <1>10 DEF Elsewhere, InCall, Places, UserLabels, TypeOK
<1> QED BY <1>1, <1>2, <1>3, <1>4, <1>5, <1>6, <1>7, <1>8, <1>9, <1>10, StepKinds

\* The two mutexes of the transport.
LEMMA StepLocks == IndInv /\ [Next]_vars => Locks'
<1> SUFFICES ASSUME IndInv, [Next]_vars PROVE Locks'
  OBVIOUS
<1>t. TypeOK /\ Places /\ Locks
  BY DEF IndInv
<1>p. Places'
  BY StepPlaces
<1>1. ASSUME NEW u \in Users, Prepares(u) PROVE Locks'
  BY <1>t, <1>1
    DEF Prepares, Locks, Place, Sends, Places, UserLabels, PollerLabels, TypeOK, Calling
<1>2. ASSUME NEW u \in Users, SendsStep(u) PROVE Locks'
  BY <1>t, <1>2
    DEF SendsStep, Locks, Place, Sends, Places, UserLabels, PollerLabels, TypeOK, Calling
<1>3. ASSUME NEW u \in Users, WaitsOrCloses(u) PROVE Locks'
  BY <1>t, <1>3
    DEF WaitsOrCloses, Locks, Place, Sends, Places, UserLabels, PollerLabels, TypeOK, Calling
<1>4. ASSUME NEW u \in Users, disconnectCallback(u) PROVE Locks'
  BY <1>t, <1>4 DEF Locks, Place, Sends, Places, UserLabels, PollerLabels, TypeOK
<1>5. ASSUME Updates PROVE Locks'
  BY <1>t, <1>5 DEF Updates, Locks, Place, Sends, Places, UserLabels, PollerLabels, TypeOK
<1>6. ASSUME Reads PROVE Locks'
  BY <1>t, <1>p, <1>6 DEF Reads, Locks, Place, Sends, Places, UserLabels, PollerLabels, TypeOK
<1>7. ASSUME Delivers PROVE Locks'
  BY <1>t, <1>p, <1>7 DEF Delivers, Locks, Place, Sends, Places, UserLabels, PollerLabels, TypeOK
<1>8. ASSUME Writes PROVE Locks'
  BY <1>t, <1>p, <1>8 DEF Writes, Locks, Place, Sends, Places, UserLabels, PollerLabels, TypeOK
<1>9. ASSUME disconnectCallback(Poller) PROVE Locks'
  BY <1>t, <1>9 DEF Locks, Place, Sends, Places, UserLabels, PollerLabels, TypeOK
<1>10. ASSUME Elsewhere PROVE Locks'
  BY <1>t, <1>10 DEF Elsewhere, Locks, Place, Sends, Places, UserLabels, PollerLabels, TypeOK
<1> QED BY <1>1, <1>2, <1>3, <1>4, <1>5, <1>6, <1>7, <1>8, <1>9, <1>10, StepKinds

\* POLLOUT, expecting_write_ and the queue.
LEMMA StepInterest == IndInv /\ [Next]_vars => Interest'
<1> SUFFICES ASSUME IndInv, [Next]_vars PROVE Interest'
  OBVIOUS
<1>t. TypeOK /\ Places /\ Locks /\ ClosedForGood /\ Interest
  BY DEF IndInv
<1>1. ASSUME NEW u \in Users, Prepares(u) PROVE Interest'
  BY <1>t, <1>1
    DEF Prepares, Interest, Place, Sends, Places, UserLabels, PollerLabels, Locks, TypeOK, Calling
<1>2. ASSUME NEW u \in Users, SendsStep(u) PROVE Interest'
  <2>1. CASE sendFrames(u)
    BY <1>t, <2>1
      DEF Interest, Place, Sends, Places, UserLabels, PollerLabels, Locks, TypeOK, Calling
  <2>2. CASE publishSkips(u)
    BY <1>t, <2>2
      DEF Interest, Place, Sends, Places, UserLabels, PollerLabels, Locks, TypeOK, Calling
  <2>3. CASE enableWriteCheck(u)
    BY <1>t, <2>3
      DEF Interest, Place, Sends, Places, UserLabels, PollerLabels, Locks, TypeOK, Calling
  <2>4. CASE enableWriteAdd(u)
    BY <1>t, <2>4
      DEF Interest, ClosedForGood, Place, Sends, Places, UserLabels, PollerLabels, Locks, TypeOK,
          Calling
  <2>5. CASE sendFramesPush(u)
    BY <1>t, <2>5
      DEF Interest, Place, Sends, Places, UserLabels, PollerLabels, Locks, TypeOK, Calling
  <2> QED BY <1>2, <2>1, <2>2, <2>3, <2>4, <2>5 DEF SendsStep
<1>3. ASSUME NEW u \in Users, WaitsOrCloses(u) PROVE Interest'
  BY <1>t, <1>3
    DEF WaitsOrCloses, Interest, Place, Sends, Places, UserLabels, PollerLabels, Locks, TypeOK,
        Calling
<1>4. ASSUME NEW u \in Users, disconnectCallback(u) PROVE Interest'
  BY <1>t, <1>4 DEF Interest, Place, Sends, Places, UserLabels, PollerLabels, Locks, TypeOK
<1>5. ASSUME Updates PROVE Interest'
  BY <1>t, <1>5
    DEF Updates, Interest, Place, Sends, Places, UserLabels, PollerLabels, Locks, TypeOK
<1>6. ASSUME Reads PROVE Interest'
  BY <1>t, <1>6 DEF Reads, Interest, Place, Sends, Places, UserLabels, PollerLabels, Locks, TypeOK
<1>7. ASSUME Delivers PROVE Interest'
  BY <1>t, <1>7
    DEF Delivers, Interest, Place, Sends, Places, UserLabels, PollerLabels, Locks, TypeOK
<1>8. ASSUME Writes PROVE Interest'
  BY <1>t, <1>8
    DEF Writes, Interest, Place, Sends, Places, UserLabels, PollerLabels, Locks, TypeOK
<1>9. ASSUME disconnectCallback(Poller) PROVE Interest'
  BY <1>t, <1>9 DEF Interest, Place, Sends, Places, UserLabels, PollerLabels, Locks, TypeOK
<1>10. ASSUME Elsewhere PROVE Interest'
  BY <1>t, <1>10
    DEF Elsewhere, Interest, Place, Sends, Places, UserLabels, PollerLabels, Locks, TypeOK
<1> QED BY <1>1, <1>2, <1>3, <1>4, <1>5, <1>6, <1>7, <1>8, <1>9, <1>10, StepKinds

\* readmsg_cb_ is set before a message is sent.
LEMMA StepCallbackSet == IndInv /\ [Next]_vars => CallbackSet'
<1> SUFFICES ASSUME IndInv, [Next]_vars PROVE CallbackSet'
  OBVIOUS
<1>t. TypeOK /\ Places /\ InCall /\ CallbackSet
  BY DEF IndInv
<1>1. ASSUME NEW u \in Users, Prepares(u) PROVE CallbackSet'
  <2>1. CASE lock(u)
    BY <1>t, ScriptCalls, <2>1 DEF CallbackSet, InCall, Places, Sends, UserLabels, TypeOK, Calling
  <2>2. CASE unlock(u)
    BY <1>t, ScriptCalls, <2>2 DEF CallbackSet, InCall, Places, Sends, UserLabels, TypeOK, Calling
  <2>3. CASE enlist(u)
    BY <1>t, ScriptCalls, <2>3 DEF CallbackSet, InCall, Places, Sends, UserLabels, TypeOK, Calling
  <2>4. CASE setDisconnectCallback(u)
    BY <1>t, ScriptCalls, <2>4 DEF CallbackSet, InCall, Places, Sends, UserLabels, TypeOK, Calling
  <2>5. CASE enableMessagePass(u)
    BY <1>t, ScriptCalls, <2>5 DEF CallbackSet, InCall, Places, Sends, UserLabels, TypeOK, Calling
  <2>6. CASE setMsgCallback(u)
    BY <1>t, ScriptCalls, <2>6 DEF CallbackSet, InCall, Places, Sends, UserLabels, TypeOK, Calling
  <2>7. CASE enableReadCheck(u)
    BY <1>t, ScriptCalls, <2>7 DEF CallbackSet, InCall, Places, Sends, UserLabels, TypeOK, Calling
  <2>8. CASE enableReadAdd(u)
    BY <1>t, ScriptCalls, <2>8 DEF CallbackSet, InCall, Places, Sends, UserLabels, TypeOK, Calling
  <2>9. CASE enableReadFlag(u)
    BY <1>t, ScriptCalls, <2>9 DEF CallbackSet, InCall, Places, Sends, UserLabels, TypeOK, Calling
  <2> QED BY <1>1, <2>1, <2>2, <2>3, <2>4, <2>5, <2>6, <2>7, <2>8, <2>9 DEF Prepares
<1>2. ASSUME NEW u \in Users, SendsStep(u) PROVE CallbackSet'
  BY <1>t, <1>2, ScriptCalls, SendersListen
    DEF SendsStep, CallbackSet, Places, Sends, UserLabels, TypeOK, Calling, InCall
<1>3. ASSUME NEW u \in Users, WaitsOrCloses(u) PROVE CallbackSet'
  <2>1. CASE wait(u)
    BY <1>t, ScriptCalls, <2>1 DEF CallbackSet, InCall, Places, Sends, UserLabels, TypeOK, Calling
  <2>2. CASE waitReturn(u)
    BY <1>t, ScriptCalls, <2>2 DEF CallbackSet, InCall, Places, Sends, UserLabels, TypeOK, Calling
  <2>3. CASE closeCall(u)
    BY <1>t, ScriptCalls, <2>3 DEF CallbackSet, InCall, Places, Sends, UserLabels, TypeOK, Calling
  <2>4. CASE closeReturn(u)
    BY <1>t, ScriptCalls, <2>4 DEF CallbackSet, InCall, Places, Sends, UserLabels, TypeOK, Calling
  <2> QED BY <1>3, <2>1, <2>2, <2>3, <2>4 DEF WaitsOrCloses
<1>4. ASSUME NEW u \in Users, disconnectCallback(u) PROVE CallbackSet'
  BY <1>t, <1>4 DEF CallbackSet, Places, Sends, UserLabels, TypeOK
<1>5. ASSUME Updates PROVE CallbackSet'
  BY <1>t, <1>5 DEF Updates, CallbackSet, Places, Sends, UserLabels, TypeOK
<1>6. ASSUME Reads PROVE CallbackSet'
  BY <1>t, <1>6 DEF Reads, CallbackSet, Places, Sends, UserLabels, TypeOK
<1>7. ASSUME Delivers PROVE CallbackSet'
  BY <1>t, <1>7, AcceptedOwner DEF Delivers, CallbackSet, Places, Sends, UserLabels, TypeOK
<1>8. ASSUME Writes PROVE CallbackSet'
  BY <1>t, <1>8 DEF Writes, CallbackSet, Places, Sends, UserLabels, TypeOK
<1>9. ASSUME disconnectCallback(Poller) PROVE CallbackSet'
  BY <1>t, <1>9 DEF CallbackSet, Places, Sends, UserLabels, TypeOK
<1>10. ASSUME Elsewhere PROVE CallbackSet'
  BY <1>t, <1>10 DEF Elsewhere, CallbackSet, Places, Sends, UserLabels, TypeOK
<1> QED BY <1>1, <1>2, <1>3, <1>4, <1>5, <1>6, <1>7, <1>8, <1>9, <1>10, StepKinds

\* What TCPPublish sends comes after the options.
LEMMA StepOptionsOnce == IndInv /\ [Next]_vars => OptionsOnce'
<1> SUFFICES ASSUME IndInv, [Next]_vars PROVE OptionsOnce'
  OBVIOUS
<1>t. TypeOK /\ Places /\ Locks /\ OptionsOnce
  BY DEF IndInv
<1>1. ASSUME NEW u \in Users, Prepares(u) PROVE OptionsOnce'
  BY <1>t, <1>1, AcceptedCalls, AcceptedOwner
    DEF Prepares, OptionsOnce, Places, Locks, Place, Sends, UserLabels, MaySend, TypeOK
<1>2. ASSUME NEW u \in Users, SendsStep(u) PROVE OptionsOnce'
  BY <1>t, <1>2
    DEF SendsStep, OptionsOnce, Places, Locks, Place, Sends, UserLabels, MaySend, TypeOK, Calling
<1>3. ASSUME NEW u \in Users, WaitsOrCloses(u) PROVE OptionsOnce'
  BY <1>t, <1>3
    DEF WaitsOrCloses, OptionsOnce, Places, Locks, Place, Sends, UserLabels, MaySend, TypeOK,
        Calling
<1>4. ASSUME NEW u \in Users, disconnectCallback(u) PROVE OptionsOnce'
  BY <1>t, <1>4 DEF OptionsOnce, Places, Locks, Place, Sends, UserLabels, MaySend, TypeOK
<1>5. ASSUME Updates PROVE OptionsOnce'
  BY <1>t, <1>5 DEF Updates, OptionsOnce, Places, Locks, Place, Sends, UserLabels, MaySend, TypeOK
<1>6. ASSUME Reads PROVE OptionsOnce'
  BY <1>t, <1>6 DEF Reads, OptionsOnce, Places, Locks, Place, Sends, UserLabels, MaySend, TypeOK
<1>7. ASSUME Delivers PROVE OptionsOnce'
  BY <1>t, <1>7
    DEF Delivers, OptionsOnce, Places, Locks, Place, Sends, UserLabels, MaySend, TypeOK
<1>8. ASSUME Writes PROVE OptionsOnce'
  BY <1>t, <1>8 DEF Writes, OptionsOnce, Places, Locks, Place, Sends, UserLabels, MaySend, TypeOK
<1>9. ASSUME disconnectCallback(Poller) PROVE OptionsOnce'
  BY <1>t, <1>9 DEF OptionsOnce, Places, Locks, Place, Sends, UserLabels, MaySend, TypeOK
<1>10. ASSUME Elsewhere PROVE OptionsOnce'
  BY <1>t, <1>10
    DEF Elsewhere, OptionsOnce, Places, Locks, Place, Sends, UserLabels, MaySend, TypeOK
<1> QED BY <1>1, <1>2, <1>3, <1>4, <1>5, <1>6, <1>7, <1>8, <1>9, <1>10, StepKinds

\* The mutex of the owner of an accepted connection.
LEMMA StepOwnerMutex == IndInv /\ [Next]_vars => OwnerMutex'
<1> SUFFICES ASSUME IndInv, [Next]_vars PROVE OwnerMutex'
  OBVIOUS
<1>t. TypeOK /\ Places /\ OwnerMutex
  BY DEF IndInv
<1>1. ASSUME NEW u \in Users, Prepares(u) PROVE OwnerMutex'
  <2>1. CASE lock(u)
    <3>1. \A v \in Users \ {u} : Calling(v, "unlock")' <=> Calling(v, "unlock")
      BY <1>t, <2>1 DEF Calling, TypeOK
    <3>2. /\ pc[u] = "next" /\ pc'[u] = "next" /\ at'[u] = at[u] + 1 /\ owner' = owner
          /\ Calling(u, "lock")
      BY <1>t, <2>1 DEF Calling, TypeOK
    <3>3. CASE owner.readmsg_cb = "onReceive"
      BY <1>t, <2>1, <3>1, <3>2, <3>3, BindCalls DEF OwnerMutex, TypeOK
    <3>4. CASE owner.readmsg_cb # "onReceive"
      BY <1>t, <2>1, <3>2, <3>4, AcceptedCalls DEF OwnerMutex, TypeOK
    <3> QED BY <3>3, <3>4
  <2>2. CASE unlock(u)
    <3>1. \A v \in Users \ {u} : Calling(v, "unlock")' <=> Calling(v, "unlock")
      BY <1>t, <2>2 DEF Calling, TypeOK
    <3>2. /\ pc[u] = "next" /\ pc'[u] = "next" /\ at'[u] = at[u] + 1 /\ owner' = owner
          /\ Calling(u, "unlock")
      BY <1>t, <2>2 DEF Calling, TypeOK
    <3>3. CASE owner.readmsg_cb = "onReceive"
      BY <1>t, <2>2, <3>1, <3>2, <3>3, BindCalls DEF OwnerMutex, TypeOK
    <3>4. CASE owner.readmsg_cb # "onReceive"
      BY <1>t, <2>2, <3>2, <3>4, AcceptedCalls DEF OwnerMutex, TypeOK
    <3> QED BY <3>3, <3>4
  <2>3. CASE enlist(u)
    BY <1>t, AcceptedCalls, <2>3 DEF OwnerMutex, Places, UserLabels, TypeOK
  <2>4. CASE setDisconnectCallback(u)
    BY <1>t, AcceptedCalls, <2>4 DEF OwnerMutex, Places, UserLabels, TypeOK
  <2>5. CASE enableMessagePass(u)
    BY <1>t, AcceptedCalls, <2>5 DEF OwnerMutex, Places, UserLabels, TypeOK
  <2>6. CASE setMsgCallback(u)
    BY <1>t, AcceptedCalls, <2>6 DEF OwnerMutex, Places, UserLabels, TypeOK
  <2>7. CASE enableReadCheck(u)
    BY <1>t, AcceptedCalls, <2>7 DEF OwnerMutex, Places, UserLabels, TypeOK
  <2>8. CASE enableReadAdd(u)
    BY <1>t, AcceptedCalls, <2>8 DEF OwnerMutex, Places, UserLabels, TypeOK
  <2>9. CASE enableReadFlag(u)
    BY <1>t, AcceptedCalls, <2>9 DEF OwnerMutex, Places, UserLabels, TypeOK
  <2> QED BY <1>1, <2>1, <2>2, <2>3, <2>4, <2>5, <2>6, <2>7, <2>8, <2>9 DEF Prepares
<1>2. ASSUME NEW u \in Users, SendsStep(u) PROVE OwnerMutex'
  BY <1>t, <1>2, AcceptedCalls DEF SendsStep, OwnerMutex, Places, UserLabels, TypeOK
<1>3. ASSUME NEW u \in Users, WaitsOrCloses(u) PROVE OwnerMutex'
  BY <1>t, <1>3, AcceptedCalls DEF WaitsOrCloses, OwnerMutex, Places, UserLabels, TypeOK
<1>4. ASSUME NEW u \in Users, disconnectCallback(u) PROVE OwnerMutex'
  BY <1>t, <1>4 DEF OwnerMutex, Places, UserLabels, TypeOK
<1>5. ASSUME Updates PROVE OwnerMutex'
  BY <1>t, <1>5 DEF Updates, OwnerMutex, Places, UserLabels, TypeOK, Calling
<1>6. ASSUME Reads PROVE OwnerMutex'
  BY <1>t, <1>6 DEF Reads, OwnerMutex, Places, UserLabels, TypeOK, Calling
<1>7. ASSUME Delivers PROVE OwnerMutex'
  BY <1>t, <1>7 DEF Delivers, OwnerMutex, Places, UserLabels, TypeOK, Calling
<1>8. ASSUME Writes PROVE OwnerMutex'
  BY <1>t, <1>8 DEF Writes, OwnerMutex, Places, UserLabels, TypeOK, Calling
<1>9. ASSUME disconnectCallback(Poller) PROVE OwnerMutex'
  BY <1>t, <1>9 DEF OwnerMutex, Places, UserLabels, TypeOK, Calling
<1>10. ASSUME Elsewhere PROVE OwnerMutex'
  BY <1>t, <1>10 DEF Elsewhere, OwnerMutex, Places, UserLabels, TypeOK, Calling
<1> QED BY <1>1, <1>2, <1>3, <1>4, <1>5, <1>6, <1>7, <1>8, <1>9, <1>10, StepKinds

\* closed_ is final, and closed transports stay without callbacks.
LEMMA StepClosedForGood == IndInv /\ [Next]_vars => ClosedForGood'
<1> SUFFICES ASSUME IndInv, [Next]_vars PROVE ClosedForGood'
  OBVIOUS
<1>t. TypeOK /\ Places /\ Locks /\ ClosedForGood
  BY DEF IndInv
<1>1. ASSUME NEW u \in Users, Prepares(u) PROVE ClosedForGood'
  <2>0. MessagePassDone => MessagePassDone'
    BY <1>t, <1>1, PassStaysDone DEF Prepares, TypeOK
  <2>1. CASE lock(u)
    BY <1>t, <2>0, <2>1
      DEF ClosedForGood, Reading, Places, UserLabels, PollerLabels, Place, Locks, TypeOK, Calling
  <2>2. CASE unlock(u)
    BY <1>t, <2>0, <2>2
      DEF ClosedForGood, Reading, Places, UserLabels, PollerLabels, Place, Locks, TypeOK, Calling
  <2>3. CASE enlist(u)
    BY <1>t, <2>0, <2>3
      DEF ClosedForGood, Reading, Places, UserLabels, PollerLabels, Place, Locks, TypeOK, Calling
  <2>4. CASE setDisconnectCallback(u)
    BY <1>t, <2>0, <2>4
      DEF ClosedForGood, Reading, Places, UserLabels, PollerLabels, Place, Locks, TypeOK, Calling
  <2>5. CASE enableMessagePass(u)
    <3>1. ~MessagePassDone
      BY <1>t, <2>5, ScriptCalls DEF MessagePassDone, Calling
    <3>2. /\ Place' = Place /\ pc'[Poller] = pc[Poller]
          /\ \A v \in Users : pc'[v] = pc[v]
      BY <1>t, <2>5 DEF Place, TypeOK, Calling
    <3> QED BY <1>t, <2>5, <3>1, <3>2 DEF ClosedForGood, Reading
  <2>6. CASE setMsgCallback(u)
    BY <1>t, <2>0, <2>6
      DEF ClosedForGood, Reading, Places, UserLabels, PollerLabels, Place, Locks, TypeOK, Calling
  <2>7. CASE enableReadCheck(u)
    BY <1>t, <2>0, <2>7, ReadersHaveSetUp
      DEF ClosedForGood, Reading, Places, UserLabels, PollerLabels, Place, Locks, TypeOK, Calling
  <2>8. CASE enableReadAdd(u)
    BY <1>t, <2>0, <2>8
      DEF ClosedForGood, Reading, Places, UserLabels, PollerLabels, Place, Locks, TypeOK, Calling
  <2>9. CASE enableReadFlag(u)
    BY <1>t, <2>0, <2>9
      DEF ClosedForGood, Reading, Places, UserLabels, PollerLabels, Place, Locks, TypeOK, Calling
  <2> QED BY <1>1, <2>1, <2>2, <2>3, <2>4, <2>5, <2>6, <2>7, <2>8, <2>9 DEF Prepares
<1>2. ASSUME NEW u \in Users, SendsStep(u) PROVE ClosedForGood'
  <2>1. MessagePassDone => MessagePassDone'
    BY <1>t, <1>2, PassStaysDone DEF SendsStep, TypeOK
  <2> QED BY <1>t, <1>2, <2>1
            DEF SendsStep, ClosedForGood, Reading, Places, UserLabels, PollerLabels, Place,
                Locks, TypeOK, Calling
<1>3. ASSUME NEW u \in Users, WaitsOrCloses(u) PROVE ClosedForGood'
  <2>0. MessagePassDone => MessagePassDone'
    BY <1>t, <1>3, PassStaysDone DEF WaitsOrCloses, TypeOK
  <2>1. CASE wait(u)
    BY <1>t, <2>0, <2>1
      DEF ClosedForGood, Reading, Places, UserLabels, PollerLabels, Place, Locks, TypeOK, Calling
  <2>2. CASE waitReturn(u)
    BY <1>t, <2>0, <2>2
      DEF ClosedForGood, Reading, Places, UserLabels, PollerLabels, Place, Locks, TypeOK, Calling
  <2>3. CASE closeCall(u)
    BY <1>t, <2>0, <2>3
      DEF ClosedForGood, Reading, Places, UserLabels, PollerLabels, Place, Locks, TypeOK, Calling
  <2>4. CASE closeReturn(u)
    BY <1>t, <2>0, <2>4
      DEF ClosedForGood, Reading, Places, UserLabels, PollerLabels, Place, Locks, TypeOK, Calling
  <2> QED BY <1>3, <2>1, <2>2, <2>3, <2>4 DEF WaitsOrCloses
<1>4. ASSUME NEW u \in Users, disconnectCallback(u) PROVE ClosedForGood'
  BY <1>t, <1>4
    DEF ClosedForGood, Places, UserLabels, PollerLabels, Place, Locks, MessagePassDone, Reading,
        TypeOK
<1>5. ASSUME Updates PROVE ClosedForGood'
  BY <1>t, <1>5
    DEF Updates, ClosedForGood, Places, UserLabels, PollerLabels, Place, Locks, MessagePassDone,
        Reading, TypeOK
<1>6. ASSUME Reads PROVE ClosedForGood'
  <2>0. MessagePassDone' <=> MessagePassDone
    BY <1>t, <1>6 DEF Reads, MessagePassDone
  <2>1. CASE readMessage
    BY <1>t, <2>0, <2>1
      DEF ClosedForGood, Reading, Places, UserLabels, PollerLabels, Place, Locks, TypeOK
  <2>2. CASE readClosed
    <3>1. /\ Place = "readMessage" /\ pc[Poller] = "readMessage"
          /\ MessagePassDone /\ ~closed /\ tracked
      BY <1>t, <2>2 DEF ClosedForGood, Reading, Place, TypeOK
    <3>2. MessagePassDone'
      BY <2>0, <3>1
    <3>3. /\ closed' <=> ~tracked'
          /\ pc'[Poller] \notin {"read", "readMessage", "msgcb", "writeMessage"}
          /\ closed' => ~io_cb'
      BY <1>t, <2>2, <3>1 DEF Places, TypeOK
    <3> QED BY <3>2, <3>3 DEF ClosedForGood
  <2> QED BY <1>6, <2>1, <2>2 DEF Reads
<1>7. ASSUME Delivers PROVE ClosedForGood'
  <2>0. MessagePassDone' <=> MessagePassDone
    BY <1>t, <1>7 DEF Delivers, MessagePassDone
  <2>1. CASE onOptions
    <3>1. /\ Place = "msgcb" /\ MessagePassDone /\ ~closed /\ pc[Poller] = "msgcb" /\ tracked
      BY <1>t, <2>1 DEF ClosedForGood, Reading, Place, TypeOK
    <3>2. MessagePassDone'
      BY <2>0, <3>1
    <3>3. /\ closed' <=> ~tracked'
          /\ pc'[Poller] \notin {"read", "readMessage", "msgcb", "writeMessage"}
          /\ closed' => ~io_cb'
      BY <1>t, <2>1, <3>1 DEF Places, TypeOK
    <3> QED BY <3>2, <3>3 DEF ClosedForGood
  <2>2. CASE receive
    BY <1>t, <2>0, <2>2
      DEF ClosedForGood, Reading, Places, UserLabels, PollerLabels, Place, Locks, TypeOK
  <2>3. CASE response
    <3>1. /\ Place = "msgcb" /\ MessagePassDone /\ ~closed /\ pc[Poller] = "msgcb" /\ tracked
      BY <1>t, <2>3 DEF ClosedForGood, Reading, Place, TypeOK
    <3>2. MessagePassDone'
      BY <2>0, <3>1
    <3>3. /\ closed' <=> ~tracked'
          /\ pc'[Poller] \notin {"read", "readMessage", "msgcb", "writeMessage"}
          /\ closed' => ~io_cb'
      BY <1>t, <2>3, <3>1 DEF Places, TypeOK
    <3> QED BY <3>2, <3>3 DEF ClosedForGood
  <2>4. CASE onResponse
    BY <1>t, <2>0, <2>4
      DEF ClosedForGood, Reading, Places, UserLabels, PollerLabels, Place, Locks, TypeOK
  <2>5. CASE onReceive
    BY <1>t, <2>0, <2>5
      DEF ClosedForGood, Reading, Places, UserLabels, PollerLabels, Place, Locks, TypeOK
  <2> QED BY <1>7, <2>1, <2>2, <2>3, <2>4, <2>5 DEF Delivers
<1>8. ASSUME Writes PROVE ClosedForGood'
  BY <1>t, <1>8
    DEF Writes, ClosedForGood, Places, UserLabels, PollerLabels, Place, Locks, MessagePassDone,
        Reading, TypeOK
<1>9. ASSUME disconnectCallback(Poller) PROVE ClosedForGood'
  BY <1>t, <1>9
    DEF ClosedForGood, Places, UserLabels, PollerLabels, Place, Locks, MessagePassDone, Reading,
        TypeOK
<1>10. ASSUME Elsewhere PROVE ClosedForGood'
  BY <1>t, <1>10
    DEF Elsewhere, ClosedForGood, Places, UserLabels, PollerLabels, Place, Locks,
        MessagePassDone, Reading, TypeOK
<1> QED BY <1>1, <1>2, <1>3, <1>4, <1>5, <1>6, <1>7, <1>8, <1>9, <1>10, StepKinds

\* Types.
LEMMA StepTypeOK == IndInv /\ [Next]_vars => TypeOK'
<1> SUFFICES ASSUME IndInv, [Next]_vars PROVE TypeOK'
  OBVIOUS
<1>t. TypeOK /\ Places
  BY DEF IndInv
<1>1. ASSUME NEW u \in Users, Prepares(u) PROVE TypeOK'
  <2>1. pc' \in [Actors -> Labels]
    BY <1>t, <1>1 DEF Prepares, TypeOK, Labels
  <2>2. after' \in [Actors -> Labels]
    BY <1>t, <1>1 DEF Prepares, TypeOK, Labels
  <2>3. /\ closed' \in BOOLEAN /\ tracked' \in BOOLEAN /\ expecting_read' \in BOOLEAN
        /\ expecting_write' \in BOOLEAN /\ io_cb' \in BOOLEAN /\ msg_cb' \in BOOLEAN
    BY <1>t, <1>1 DEF Prepares, TypeOK
  <2>4. /\ disconnect_cb' \in BOOLEAN /\ listed' \in BOOLEAN /\ setup' \in BOOLEAN
        /\ done' \in BOOLEAN /\ peer_gone' \in BOOLEAN /\ reset' \in BOOLEAN
    BY <1>t, <1>1 DEF Prepares, TypeOK
  <2>5. owner' \in Owners /\ events' \subseteq {"IN", "OUT"} /\ revents' \subseteq Flags
    BY <1>t, <1>1 DEF Prepares, TypeOK, Flags, Conditions
  <2>6. send_msgs' \in Nat /\ head' \in 0 .. (Parts - 1) /\ disconnects' \in Nat
    BY <1>t, <1>1 DEF Prepares, TypeOK
  <2>7. inbox' \in Nat /\ received' \in Nat /\ sent' \in Nat /\ at' \in [Users -> Nat \ {0}]
    BY <1>t, <1>1 DEF Prepares, TypeOK
  <2>8. {close_mutex, message_mutex, app_mutex}' \subseteq Actors \cup {Nobody}
    BY <1>t, <1>1 DEF Prepares, TypeOK
  <2> QED BY <2>1, <2>2, <2>3, <2>4, <2>5, <2>6, <2>7, <2>8 DEF TypeOK
<1>2. ASSUME NEW u \in Users, SendsStep(u) PROVE TypeOK'
  <2>1. pc' \in [Actors -> Labels]
    BY <1>t, <1>2 DEF SendsStep, TypeOK, Labels
  <2>2. after' \in [Actors -> Labels]
    BY <1>t, <1>2 DEF SendsStep, TypeOK, Labels
  <2>3. /\ closed' \in BOOLEAN /\ tracked' \in BOOLEAN /\ expecting_read' \in BOOLEAN
        /\ expecting_write' \in BOOLEAN /\ io_cb' \in BOOLEAN /\ msg_cb' \in BOOLEAN
    BY <1>t, <1>2 DEF SendsStep, TypeOK
  <2>4. /\ disconnect_cb' \in BOOLEAN /\ listed' \in BOOLEAN /\ setup' \in BOOLEAN
        /\ done' \in BOOLEAN /\ peer_gone' \in BOOLEAN /\ reset' \in BOOLEAN
    BY <1>t, <1>2 DEF SendsStep, TypeOK
  <2>5. owner' \in Owners /\ events' \subseteq {"IN", "OUT"} /\ revents' \subseteq Flags
    BY <1>t, <1>2 DEF SendsStep, TypeOK, Flags, Conditions
  <2>6. send_msgs' \in Nat /\ head' \in 0 .. (Parts - 1) /\ disconnects' \in Nat
    BY <1>t, <1>2 DEF SendsStep, TypeOK
  <2>7. inbox' \in Nat /\ received' \in Nat /\ sent' \in Nat /\ at' \in [Users -> Nat \ {0}]
    BY <1>t, <1>2 DEF SendsStep, TypeOK
  <2>8. {close_mutex, message_mutex, app_mutex}' \subseteq Actors \cup {Nobody}
    BY <1>t, <1>2 DEF SendsStep, TypeOK
  <2> QED BY <2>1, <2>2, <2>3, <2>4, <2>5, <2>6, <2>7, <2>8 DEF TypeOK
<1>3. ASSUME NEW u \in Users, WaitsOrCloses(u) PROVE TypeOK'
  <2>1. pc' \in [Actors -> Labels]
    BY <1>t, <1>3 DEF WaitsOrCloses, TypeOK, Labels
  <2>2. after' \in [Actors -> Labels]
    BY <1>t, <1>3 DEF WaitsOrCloses, TypeOK, Labels
  <2>3. /\ closed' \in BOOLEAN /\ tracked' \in BOOLEAN /\ expecting_read' \in BOOLEAN
        /\ expecting_write' \in BOOLEAN /\ io_cb' \in BOOLEAN /\ msg_cb' \in BOOLEAN
    BY <1>t, <1>3 DEF WaitsOrCloses, TypeOK
  <2>4. /\ disconnect_cb' \in BOOLEAN /\ listed' \in BOOLEAN /\ setup' \in BOOLEAN
        /\ done' \in BOOLEAN /\ peer_gone' \in BOOLEAN /\ reset' \in BOOLEAN
    BY <1>t, <1>3 DEF WaitsOrCloses, TypeOK
  <2>5. owner' \in Owners /\ events' \subseteq {"IN", "OUT"} /\ revents' \subseteq Flags
    BY <1>t, <1>3 DEF WaitsOrCloses, TypeOK, Flags, Conditions
  <2>6. send_msgs' \in Nat /\ head' \in 0 .. (Parts - 1) /\ disconnects' \in Nat
    BY <1>t, <1>3 DEF WaitsOrCloses, TypeOK
  <2>7. inbox' \in Nat /\ received' \in Nat /\ sent' \in Nat /\ at' \in [Users -> Nat \ {0}]
    BY <1>t, <1>3 DEF WaitsOrCloses, TypeOK
  <2>8. {close_mutex, message_mutex, app_mutex}' \subseteq Actors \cup {Nobody}
    BY <1>t, <1>3 DEF WaitsOrCloses, TypeOK
  <2> QED BY <2>1, <2>2, <2>3, <2>4, <2>5, <2>6, <2>7, <2>8 DEF TypeOK
<1>4. ASSUME NEW u \in Users, disconnectCallback(u) PROVE TypeOK'
  <2>1. pc' \in [Actors -> Labels]
    BY <1>t, <1>4 DEF TypeOK, Labels
  <2>2. after' \in [Actors -> Labels]
    BY <1>t, <1>4 DEF TypeOK, Labels
  <2>3. /\ closed' \in BOOLEAN /\ tracked' \in BOOLEAN /\ expecting_read' \in BOOLEAN
        /\ expecting_write' \in BOOLEAN /\ io_cb' \in BOOLEAN /\ msg_cb' \in BOOLEAN
    BY <1>t, <1>4 DEF TypeOK
  <2>4. /\ disconnect_cb' \in BOOLEAN /\ listed' \in BOOLEAN /\ setup' \in BOOLEAN
        /\ done' \in BOOLEAN /\ peer_gone' \in BOOLEAN /\ reset' \in BOOLEAN
    BY <1>t, <1>4 DEF TypeOK
  <2>5. owner' \in Owners /\ events' \subseteq {"IN", "OUT"} /\ revents' \subseteq Flags
    BY <1>t, <1>4 DEF TypeOK, Flags, Conditions
  <2>6. send_msgs' \in Nat /\ head' \in 0 .. (Parts - 1) /\ disconnects' \in Nat
    BY <1>t, <1>4 DEF TypeOK
  <2>7. inbox' \in Nat /\ received' \in Nat /\ sent' \in Nat /\ at' \in [Users -> Nat \ {0}]
    BY <1>t, <1>4 DEF TypeOK
  <2>8. {close_mutex, message_mutex, app_mutex}' \subseteq Actors \cup {Nobody}
    BY <1>t, <1>4 DEF TypeOK
  <2> QED BY <2>1, <2>2, <2>3, <2>4, <2>5, <2>6, <2>7, <2>8 DEF TypeOK
<1>5. ASSUME Updates PROVE TypeOK'
  <2>1. pc' \in [Actors -> Labels]
    BY <1>t, <1>5 DEF Updates, TypeOK, Labels
  <2>2. after' \in [Actors -> Labels]
    BY <1>t, <1>5 DEF Updates, TypeOK, Labels
  <2>3. /\ closed' \in BOOLEAN /\ tracked' \in BOOLEAN /\ expecting_read' \in BOOLEAN
        /\ expecting_write' \in BOOLEAN /\ io_cb' \in BOOLEAN /\ msg_cb' \in BOOLEAN
    BY <1>t, <1>5 DEF Updates, TypeOK
  <2>4. /\ disconnect_cb' \in BOOLEAN /\ listed' \in BOOLEAN /\ setup' \in BOOLEAN
        /\ done' \in BOOLEAN /\ peer_gone' \in BOOLEAN /\ reset' \in BOOLEAN
    BY <1>t, <1>5 DEF Updates, TypeOK
  <2>5. owner' \in Owners /\ events' \subseteq {"IN", "OUT"} /\ revents' \subseteq Flags
    BY <1>t, <1>5 DEF Updates, TypeOK, Flags, Conditions
  <2>6. send_msgs' \in Nat /\ head' \in 0 .. (Parts - 1) /\ disconnects' \in Nat
    BY <1>t, <1>5 DEF Updates, TypeOK
  <2>7. inbox' \in Nat /\ received' \in Nat /\ sent' \in Nat /\ at' \in [Users -> Nat \ {0}]
    BY <1>t, <1>5 DEF Updates, TypeOK
  <2>8. {close_mutex, message_mutex, app_mutex}' \subseteq Actors \cup {Nobody}
    BY <1>t, <1>5 DEF Updates, TypeOK
  <2> QED BY <2>1, <2>2, <2>3, <2>4, <2>5, <2>6, <2>7, <2>8 DEF TypeOK
<1>6. ASSUME Reads PROVE TypeOK'
  <2>1. pc' \in [Actors -> Labels]
    BY <1>t, <1>6 DEF Reads, TypeOK, Labels
  <2>2. after' \in [Actors -> Labels]
    BY <1>t, <1>6 DEF Reads, TypeOK, Labels
  <2>3. /\ closed' \in BOOLEAN /\ tracked' \in BOOLEAN /\ expecting_read' \in BOOLEAN
        /\ expecting_write' \in BOOLEAN /\ io_cb' \in BOOLEAN /\ msg_cb' \in BOOLEAN
    BY <1>t, <1>6 DEF Reads, TypeOK
  <2>4. /\ disconnect_cb' \in BOOLEAN /\ listed' \in BOOLEAN /\ setup' \in BOOLEAN
        /\ done' \in BOOLEAN /\ peer_gone' \in BOOLEAN /\ reset' \in BOOLEAN
    BY <1>t, <1>6 DEF Reads, TypeOK
  <2>5. owner' \in Owners /\ events' \subseteq {"IN", "OUT"} /\ revents' \subseteq Flags
    BY <1>t, <1>6 DEF Reads, TypeOK, Flags, Conditions
  <2>6. send_msgs' \in Nat /\ head' \in 0 .. (Parts - 1) /\ disconnects' \in Nat
    BY <1>t, <1>6 DEF Reads, TypeOK
  <2>7. inbox' \in Nat /\ received' \in Nat /\ sent' \in Nat /\ at' \in [Users -> Nat \ {0}]
    BY <1>t, <1>6 DEF Reads, TypeOK
  <2>8. {close_mutex, message_mutex, app_mutex}' \subseteq Actors \cup {Nobody}
    BY <1>t, <1>6 DEF Reads, TypeOK
  <2> QED BY <2>1, <2>2, <2>3, <2>4, <2>5, <2>6, <2>7, <2>8 DEF TypeOK
<1>7. ASSUME Delivers PROVE TypeOK'
  <2>1. pc' \in [Actors -> Labels]
    BY <1>t, <1>7 DEF Delivers, TypeOK, Labels
  <2>2. after' \in [Actors -> Labels]
    BY <1>t, <1>7 DEF Delivers, TypeOK, Labels
  <2>3. /\ closed' \in BOOLEAN /\ tracked' \in BOOLEAN /\ expecting_read' \in BOOLEAN
        /\ expecting_write' \in BOOLEAN /\ io_cb' \in BOOLEAN /\ msg_cb' \in BOOLEAN
    BY <1>t, <1>7 DEF Delivers, TypeOK
  <2>4. /\ disconnect_cb' \in BOOLEAN /\ listed' \in BOOLEAN /\ setup' \in BOOLEAN
        /\ done' \in BOOLEAN /\ peer_gone' \in BOOLEAN /\ reset' \in BOOLEAN
    BY <1>t, <1>7 DEF Delivers, TypeOK
  <2>5. owner' \in Owners /\ events' \subseteq {"IN", "OUT"} /\ revents' \subseteq Flags
    BY <1>t, <1>7 DEF Delivers, TypeOK, Flags, Conditions
  <2>6. send_msgs' \in Nat /\ head' \in 0 .. (Parts - 1) /\ disconnects' \in Nat
    BY <1>t, <1>7 DEF Delivers, TypeOK
  <2>7. inbox' \in Nat /\ received' \in Nat /\ sent' \in Nat /\ at' \in [Users -> Nat \ {0}]
    BY <1>t, <1>7 DEF Delivers, TypeOK
  <2>8. {close_mutex, message_mutex, app_mutex}' \subseteq Actors \cup {Nobody}
    BY <1>t, <1>7 DEF Delivers, TypeOK
  <2> QED BY <2>1, <2>2, <2>3, <2>4, <2>5, <2>6, <2>7, <2>8 DEF TypeOK
<1>8. ASSUME Writes PROVE TypeOK'
  <2>1. pc' \in [Actors -> Labels]
    BY <1>t, <1>8 DEF Writes, TypeOK, Labels
  <2>2. after' \in [Actors -> Labels]
    BY <1>t, <1>8 DEF Writes, TypeOK, Labels
  <2>3. /\ closed' \in BOOLEAN /\ tracked' \in BOOLEAN /\ expecting_read' \in BOOLEAN
        /\ expecting_write' \in BOOLEAN /\ io_cb' \in BOOLEAN /\ msg_cb' \in BOOLEAN
    BY <1>t, <1>8 DEF Writes, TypeOK
  <2>4. /\ disconnect_cb' \in BOOLEAN /\ listed' \in BOOLEAN /\ setup' \in BOOLEAN
        /\ done' \in BOOLEAN /\ peer_gone' \in BOOLEAN /\ reset' \in BOOLEAN
    BY <1>t, <1>8 DEF Writes, TypeOK
  <2>5. owner' \in Owners /\ events' \subseteq {"IN", "OUT"} /\ revents' \subseteq Flags
    BY <1>t, <1>8 DEF Writes, TypeOK, Flags, Conditions
  <2>6. send_msgs' \in Nat /\ head' \in 0 .. (Parts - 1) /\ disconnects' \in Nat
    BY <1>t, <1>8 DEF Writes, TypeOK
  <2>7. inbox' \in Nat /\ received' \in Nat /\ sent' \in Nat /\ at' \in [Users -> Nat \ {0}]
    BY <1>t, <1>8 DEF Writes, TypeOK
  <2>8. {close_mutex, message_mutex, app_mutex}' \subseteq Actors \cup {Nobody}
    BY <1>t, <1>8 DEF Writes, TypeOK
  <2> QED BY <2>1, <2>2, <2>3, <2>4, <2>5, <2>6, <2>7, <2>8 DEF TypeOK
<1>9. ASSUME disconnectCallback(Poller) PROVE TypeOK'
  <2>1. pc' \in [Actors -> Labels]
    BY <1>t, <1>9 DEF TypeOK, Labels
  <2>2. after' \in [Actors -> Labels]
    BY <1>t, <1>9 DEF TypeOK, Labels
  <2>3. /\ closed' \in BOOLEAN /\ tracked' \in BOOLEAN /\ expecting_read' \in BOOLEAN
        /\ expecting_write' \in BOOLEAN /\ io_cb' \in BOOLEAN /\ msg_cb' \in BOOLEAN
    BY <1>t, <1>9 DEF TypeOK
  <2>4. /\ disconnect_cb' \in BOOLEAN /\ listed' \in BOOLEAN /\ setup' \in BOOLEAN
        /\ done' \in BOOLEAN /\ peer_gone' \in BOOLEAN /\ reset' \in BOOLEAN
    BY <1>t, <1>9 DEF TypeOK
  <2>5. owner' \in Owners /\ events' \subseteq {"IN", "OUT"} /\ revents' \subseteq Flags
    BY <1>t, <1>9 DEF TypeOK, Flags, Conditions
  <2>6. send_msgs' \in Nat /\ head' \in 0 .. (Parts - 1) /\ disconnects' \in Nat
    BY <1>t, <1>9 DEF TypeOK
  <2>7. inbox' \in Nat /\ received' \in Nat /\ sent' \in Nat /\ at' \in [Users -> Nat \ {0}]
    BY <1>t, <1>9 DEF TypeOK
  <2>8. {close_mutex, message_mutex, app_mutex}' \subseteq Actors \cup {Nobody}
    BY <1>t, <1>9 DEF TypeOK
  <2> QED BY <2>1, <2>2, <2>3, <2>4, <2>5, <2>6, <2>7, <2>8 DEF TypeOK
<1>10. ASSUME Elsewhere PROVE TypeOK'
  <2>1. pc' \in [Actors -> Labels]
    BY <1>t, <1>10 DEF Elsewhere, TypeOK, Labels
  <2>2. after' \in [Actors -> Labels]
    BY <1>t, <1>10 DEF Elsewhere, TypeOK, Labels
  <2>3. /\ closed' \in BOOLEAN /\ tracked' \in BOOLEAN /\ expecting_read' \in BOOLEAN
        /\ expecting_write' \in BOOLEAN /\ io_cb' \in BOOLEAN /\ msg_cb' \in BOOLEAN
    BY <1>t, <1>10 DEF Elsewhere, TypeOK
  <2>4. /\ disconnect_cb' \in BOOLEAN /\ listed' \in BOOLEAN /\ setup' \in BOOLEAN
        /\ done' \in BOOLEAN /\ peer_gone' \in BOOLEAN /\ reset' \in BOOLEAN
    BY <1>t, <1>10 DEF Elsewhere, TypeOK
  <2>5. owner' \in Owners /\ events' \subseteq {"IN", "OUT"} /\ revents' \subseteq Flags
    BY <1>t, <1>10 DEF Elsewhere, TypeOK, Flags, Conditions
  <2>6. send_msgs' \in Nat /\ head' \in 0 .. (Parts - 1) /\ disconnects' \in Nat
    BY <1>t, <1>10 DEF Elsewhere, TypeOK
  <2>7. inbox' \in Nat /\ received' \in Nat /\ sent' \in Nat /\ at' \in [Users -> Nat \ {0}]
    BY <1>t, <1>10 DEF Elsewhere, TypeOK
  <2>8. {close_mutex, message_mutex, app_mutex}' \subseteq Actors \cup {Nobody}
    BY <1>t, <1>10 DEF Elsewhere, TypeOK
  <2> QED BY <2>1, <2>2, <2>3, <2>4, <2>5, <2>6, <2>7, <2>8 DEF TypeOK
<1> QED BY <1>1, <1>2, <1>3, <1>4, <1>5, <1>6, <1>7, <1>8, <1>9, <1>10, StepKinds

\* A transport that was just accepted, or whose connect() has returned.
LEMMA InitInv == Init => IndInv
<1> SUFFICES ASSUME Init PROVE IndInv
  OBVIOUS
<1>1. TypeOK
  <2>1. pc \in [Actors -> Labels] /\ after \in [Actors -> Labels] /\ at \in [Users -> Nat \ {0}]
    BY DEF Init, Labels
  <2>2. owner \in Owners /\ owner.accepted \in BOOLEAN
    BY DEF Init, Owner
  <2>3. 0 \in 0 .. (Parts - 1)
    OBVIOUS
  <2> QED BY <2>1, <2>2, <2>3 DEF Init, TypeOK
<1>2. pc[Poller] = "wait" /\ \A u \in Users : pc[u] = "next" /\ at[u] = 1
  BY DEF Init
<1>3. Places /\ InCall
  BY <1>2 DEF Init, Places, InCall, UserLabels, PollerLabels
<1>4. Locks
  BY <1>2 DEF Init, Locks, Place, Sends
<1>5. OneCallback
  <2>1. disconnects = 0 /\ \A a \in Actors : pc[a] # "disconnect"
    BY <1>2 DEF Init
  <2> QED BY <2>1 DEF OneCallback
<1>6. Interest
  <2>1. "OUT" \notin events
    BY DEF Init
  <2> QED BY <1>2, <2>1 DEF Init, Interest, Sends
<1>7. ClosedForGood
  <2>1. owner.accepted => MessagePassDone
    <3> SUFFICES ASSUME owner.accepted PROVE MessagePassDone
      OBVIOUS
    <3>1. owner.readmsg_cb \in {"onOptions", "onReceive"} /\ SetsUp(owner)
      BY <1>1, AcceptedOwner DEF TypeOK
    <3>2. \A u \in Users : \A i \in DOMAIN owner.script[u] :
            owner.script[u][i] \in {"sendMessage", "close", "lock", "unlock"}
      BY <3>1 DEF SetsUp
    <3> QED BY <3>2 DEF MessagePassDone
  <2> QED BY <1>2, <2>1 DEF Init, ClosedForGood, Reading, Place
<1>8. CallbackSet
  BY <1>1, <1>2, ScriptCalls DEF Init, CallbackSet, Sends
<1>9. OptionsOnce
  BY <1>2 DEF Init, OptionsOnce, Sends
<1>10. OwnerMutex
  <2>1. ASSUME NEW u \in Users, owner.readmsg_cb = "onReceive" PROVE ~Calling(u, "unlock")
    <3> SUFFICES ASSUME Calling(u, "unlock") PROVE FALSE
      OBVIOUS
    <3>1. SetsUp(owner) /\ 1 \in DOMAIN owner.script[u] /\ owner.script[u][1] = "unlock"
      BY <1>1, <1>2, ScriptCalls DEF TypeOK, Calling
    <3>2. 1 - 1 \in DOMAIN owner.script[u]
      BY <2>1, <3>1 DEF SetsUp
    <3> QED BY <1>1, <3>2, ScriptCalls
  <2> QED BY <1>2, <2>1 DEF Init, OwnerMutex
<1> QED BY <1>1, <1>3, <1>4, <1>5, <1>6, <1>7, <1>8, <1>9, <1>10 DEF IndInv

\* The invariant is inductive.
LEMMA StepInv == IndInv /\ [Next]_vars => IndInv'
BY StepTypeOK, StepPlaces, StepInCall, StepLocks, StepClosedForGood, StepOneCallback,
   StepInterest, StepCallbackSet, StepOptionsOnce, StepOwnerMutex DEF IndInv

-----------------------------------------------------------------------------
\* The invariant of TransportTCP, for any number of threads, every owner that keeps to SetsUp,
\* and any number of messages.
THEOREM TransportInvariant == Spec => []IndInv
BY InitInv, StepInv, PTL DEF Spec

\* None of the ROS_BREAKs of writeMessage, onOptions and readFrame is hit.
THEOREM BreaksAreUnreachable == Spec => []NeverBreaks
<1>1. IndInv => NeverBreaks
  BY DEF IndInv, Places, PollerLabels, NeverBreaks
<1> QED BY <1>1, TransportInvariant, PTL

\* send() and recv() never see a socket that another thread has closed.
THEOREM SocketOpenForIo == Spec => []IoOnOpenSocket
<1>1. IndInv => IoOnOpenSocket
  BY DEF IndInv, ClosedForGood, IoOnOpenSocket
<1> QED BY <1>1, TransportInvariant, PTL

\* POLLOUT is asked for exactly while send_msgs_ has something to write.
THEOREM InterestMatchesQueue == Spec => []WriteInterest
<1>1. IndInv => WriteInterest
  BY DEF IndInv, Locks, Interest, WriteInterest, Sends
<1> QED BY <1>1, TransportInvariant, PTL

\* Whichever threads close the transport, disconnect_cb_ runs at most once.
THEOREM OneDisconnect == Spec => []DisconnectOnce
<1>1. IndInv => DisconnectOnce
  BY DEF IndInv, OneCallback, DisconnectOnce
<1> QED BY <1>1, TransportInvariant, PTL

\* A thread that has message_mutex_ or the owner's mutex of an accepted connection waits, if
\* for anything, for close_mutex_, in enableWrite.
LEMMA HolderWaits ==
  ASSUME IndInv, Accepted, NEW u \in Users, u \in {message_mutex, app_mutex}, Blocker(u) # {}
  PROVE  pc[u] = "enableWrite" /\ Blocker(u) = {close_mutex} /\ message_mutex = u
<1>t. TypeOK /\ Places /\ Locks /\ OwnerMutex /\ owner.readmsg_cb \in {"onOptions", "onReceive"}
  BY AcceptedOwner DEF IndInv, Accepted
<1>1. CASE Sends(u)
  BY <1>t, <1>1 DEF Sends, Blocker, Calling, Locks
<1>2. CASE ~Sends(u)
  <2>1. app_mutex = u /\ u # Nobody
    BY <1>t, <1>2 DEF Locks
  <2>2. pc[u] = "next" /\ Calling(u, "unlock")
    BY <1>t, <2>1 DEF OwnerMutex
  <2> QED BY <2>2 DEF Blocker, Calling
<1> QED BY <1>1, <1>2

\* No mutex that the poll thread waits for is its own.
LEMMA PollerWaitsForOthers ==
  ASSUME IndInv, Accepted
  PROVE  Blocker(Poller) \cap Actors \subseteq {message_mutex, app_mutex} \cap Users
<1>t. TypeOK /\ Places /\ Locks /\ OwnerMutex /\ owner.readmsg_cb \in {"onOptions", "onReceive"}
  BY AcceptedOwner DEF IndInv, Accepted
<1>1. pc[Poller] \in {"readMessage", "writeMessage"} => message_mutex # Poller
  BY <1>t DEF Locks, Place
<1>2. pc[Poller] \in {"update", "enableWrite", "error"} => close_mutex = Nobody
  BY <1>t DEF Locks, Place, Places, PollerLabels
<1>3. app_mutex # Poller
  BY <1>t DEF OwnerMutex
<1> QED BY <1>t, <1>1, <1>2, <1>3 DEF Blocker, TypeOK

\* Accepted connections do not deadlock over close_mutex_, message_mutex_ and the mutex of the
\* owner: in a circle the poll thread would wait in writeMessage for a sender that waits in
\* enableWrite, which sends to an empty queue that nobody asks to write.
THEOREM NobodyWaitsInACircle == Spec => []NoCircularWait
<1>1. ASSUME IndInv PROVE NoCircularWait
  <2> SUFFICES ASSUME Accepted, NEW S \in SUBSET Actors, S # {},
                      \A a \in S : Blocker(a) \cap S # {}
               PROVE  FALSE
    BY DEF NoCircularWait
  <2>t. TypeOK /\ Places /\ Locks /\ Interest /\ ClosedForGood /\ OptionsOnce /\ OwnerMutex
    BY <1>1 DEF IndInv
  <2>1. \A u \in Users \cap S : u \in {message_mutex, app_mutex} =>
          pc[u] = "enableWrite" /\ close_mutex \in S /\ message_mutex = u
    BY <1>1, HolderWaits
  <2>2. close_mutex \in S => Poller \in S
    BY <2>t DEF Locks
  <2>3. Poller \in S
    <3>1. PICK a \in S : TRUE
      OBVIOUS
    <3>2. CASE a = Poller
      BY <3>1, <3>2
    <3>3. CASE a # Poller
      <4>1. PICK b \in Blocker(a) \cap S : TRUE
        BY <3>1
      <4>2. b \in {message_mutex, close_mutex, app_mutex}
        BY <4>1 DEF Blocker
      <4> QED BY <2>1, <2>2, <4>1, <4>2
    <3> QED BY <3>2, <3>3
  <2>4. PICK u \in Users \cap S : u \in Blocker(Poller) /\ u \in {message_mutex, app_mutex}
    BY <1>1, <2>3, PollerWaitsForOthers
  <2>5. pc[u] = "enableWrite" /\ message_mutex = u
    BY <2>1, <2>4
  <2>6. pc[Poller] \in {"readMessage", "writeMessage"}
    <3>1. app_mutex # u
      BY <2>t, <2>5, AcceptedOwner DEF OwnerMutex, Accepted
    <3>2. close_mutex # u
      BY <2>t DEF Locks
    <3> QED BY <2>4, <3>1, <3>2 DEF Blocker
  <2>7. CASE pc[Poller] = "readMessage"
    BY <2>t, <2>5, <2>7 DEF OptionsOnce, Accepted, Sends
  <2>8. CASE pc[Poller] = "writeMessage"
    BY <2>t, <2>5, <2>8 DEF Interest, ClosedForGood
  <2> QED BY <2>6, <2>7, <2>8
<1> QED BY <1>1, TransportInvariant, PTL
=============================================================================
