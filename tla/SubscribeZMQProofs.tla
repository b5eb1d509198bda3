-------------------------- MODULE SubscribeZMQProofs --------------------------
(***************************************************************************)
(* SubscribeZMQ for any number of publishers and messages: each thread     *)
(* delivers the stream of one publisher in order, and after shutdown()     *)
(* neither the thread it has joined nor a later one calls cb_.             *)
(***************************************************************************)
EXTENDS SubscribeZMQ, FiniteSetTheorems, TLAPS

\* The thread has its socket.
Active(i) == run[i] \in {"test", "poll", "recv", "callback"}

TypeOK ==
  /\ found \subseteq Endpoints /\ starting \in BOOLEAN
  /\ endpoint \in Endpoints \cup {NoEndpoint}
  /\ thread \in Nat /\ joining \in Nat
  /\ run \in [Runs -> {"none", "connect", "test", "poll", "recv", "callback", "ended"}]
  /\ connected \in [Runs -> Endpoints \cup {NoEndpoint}]
  /\ inbox \in [Runs -> Seq(Message)] /\ inhand \in [Runs -> Seq(Message)]
  /\ shutdown_ \in BOOLEAN /\ closer \in {"idle", "join", "down"}
  /\ sent \in [Endpoints -> Nat]
  /\ delivered \in Seq([by : Runs, msg : Message])

\* thread_ is the last thread that start() has launched, and those up to it have been launched.
LastThread ==
  /\ Cardinality(found) = IF starting THEN thread + 1 ELSE thread
  /\ found # {} => endpoint \in Endpoints
  /\ \A i \in Runs : run[i] = "none" <=> i > thread

\* What a thread has in its socket and in its hand continues what it has delivered.
HasSocket(i) ==
  /\ Active(i) <=> connected[i] # NoEndpoint
  /\ ~Active(i) => inbox[i] = << >>
  /\ run[i] = "recv" => inbox[i] # << >>
  /\ run[i] = "callback" => inhand[i] # << >>
InSocket(i) ==
  \A k \in DOMAIN inbox[i] :
    /\ inbox[i][k].from = connected[i] /\ inbox[i][k].number <= sent[connected[i]]
    /\ \A j \in DOMAIN inbox[i] : j < k => inbox[i][j].number < inbox[i][k].number
InHand(i) ==
  run[i] = "callback" =>
    /\ inhand[i][1].from = connected[i] /\ inhand[i][1].number <= sent[connected[i]]
    /\ \A k \in DOMAIN inbox[i] : inhand[i][1].number < inbox[i][k].number
HandedOver(i) ==
  \A m \in DOMAIN delivered : delivered[m].by = i =>
    /\ run[i] \notin {"none", "connect"}
    /\ Active(i) => /\ delivered[m].msg.from = connected[i]
                    /\ delivered[m].msg.number <= sent[connected[i]]
    /\ \A k \in DOMAIN inbox[i] : delivered[m].msg.number < inbox[i][k].number
    /\ run[i] = "callback" => delivered[m].msg.number < inhand[i][1].number
Continues(i) == HasSocket(i) /\ InSocket(i) /\ InHand(i) /\ HandedOver(i)
Streams == \A i \in Runs : Continues(i)

\* Once shutdown() has raised the flag, a thread launched after the one it joins does not get
\* beyond the test of its loop.
LateThreadsStop ==
  /\ closer # "idle" => shutdown_
  /\ closer # "idle" =>
       \A i \in Runs : i > joining => run[i] \in {"none", "connect", "test", "ended"}
  /\ closer = "down" => \A i \in Runs : i = joining => run[i] = "ended"

IndInv == TypeOK /\ LastThread /\ Streams /\ LateThreadsStop /\ StreamInOrder

-----------------------------------------------------------------------------
USE SubscribeZMQAssumption DEF NoRun

\* The elements of delivered, and of any sequence.
LEMMA SequenceElements ==
  ASSUME NEW S, NEW s \in Seq(S), NEW k \in DOMAIN s PROVE s[k] \in S
OBVIOUS

\* start() launches a thread of its own for every publisher that was found.
LEMMA Launched ==
  ASSUME TypeOK, LastThread, startThread
  PROVE  /\ thread + 1 \in Runs /\ thread' = thread + 1
         /\ run[thread + 1] = "none" /\ run' = [run EXCEPT ![thread + 1] = "connect"]
<1>1. Cardinality(found) <= Cardinality(Endpoints)
  BY FS_Subset DEF TypeOK
<1>2. thread' = thread + 1 /\ run' = [run EXCEPT ![thread + 1] = "connect"] /\ thread \in Nat
  BY DEF LastThread, startThread, TypeOK
<1>3. thread + 1 \in Runs
  BY <1>1, <1>2, FS_CardinalityType DEF LastThread, startThread, Runs
<1> QED BY <1>2, <1>3 DEF LastThread

\* A step that does not concern thread i, but for what the other threads deliver.
LEMMA StreamFrame ==
  ASSUME TypeOK, NEW i \in Runs, Continues(i),
         run'[i] = run[i], connected'[i] = connected[i],
         inbox'[i] = inbox[i], inhand'[i] = inhand[i],
         connected[i] \in Endpoints => sent'[connected[i]] = sent[connected[i]],
         \A m \in DOMAIN delivered' : delivered'[m].by = i =>
           m \in DOMAIN delivered /\ delivered'[m] = delivered[m]
  PROVE  Continues(i)'
<1>1. connected[i] \in Endpoints \/ ~Active(i)
  BY DEF TypeOK, Continues, HasSocket
<1> QED BY <1>1 DEF Continues, HasSocket, InSocket, InHand, HandedOver, Active

\* Nothing has been found, launched or delivered.
LEMMA InitInv == Init => IndInv
<1> SUFFICES ASSUME Init PROVE IndInv
  OBVIOUS
<1>1. Cardinality(found) = 0
  BY FS_EmptySet DEF Init
<1>2. \A i \in Runs : i > 0
  BY FS_CardinalityType DEF Runs
<1>3. TypeOK
  <2>1. << >> \in Seq(Message) /\ << >> \in Seq([by : Runs, msg : Message])
    OBVIOUS
  <2> QED BY <2>1 DEF Init, TypeOK
<1>4. LastThread /\ LateThreadsStop
  BY <1>1, <1>2 DEF Init, LastThread, LateThreadsStop
<1>5. Streams /\ StreamInOrder
  BY DEF Init, Streams, Continues, HasSocket, InSocket, InHand, HandedOver, Active, StreamInOrder
<1> QED BY <1>3, <1>4, <1>5 DEF IndInv

\* Every step of the poll thread, the user thread, the threads of start() and the publishers
\* keeps the invariant.
LEMMA StepInv == IndInv /\ [Next]_vars => IndInv'
<1> SUFFICES ASSUME IndInv, [Next]_vars PROVE IndInv'
  OBVIOUS
<1>t. TypeOK /\ LastThread /\ Streams /\ LateThreadsStop /\ StreamInOrder
  BY DEF IndInv
<1>r. \A i \in Runs : i \in Nat /\ i > 0
  BY FS_CardinalityType DEF Runs
<1>m. \A x \in Message : x.from \in Endpoints /\ x.number \in Nat
  BY DEF Message
<1>1. ASSUME NEW e \in Endpoints, startAssign(e) PROVE IndInv'
  <2> USE <1>t, <1>1 DEF startAssign
  <2>1. TypeOK'
    BY DEF TypeOK
  <2>2. LastThread'
    <3>1. IsFiniteSet(found) /\ IsFiniteSet(found')
      BY FS_Subset DEF TypeOK
    <3>2. Cardinality(found') = Cardinality(found) + 1
      BY <3>1, FS_AddElement
    <3> QED BY <3>2 DEF LastThread, TypeOK
  <2>3. Streams'
    BY DEF Streams, Continues, HasSocket, InSocket, InHand, HandedOver, Active, TypeOK
  <2>4. LateThreadsStop'
    BY DEF LateThreadsStop, TypeOK
  <2>5. StreamInOrder'
    BY DEF StreamInOrder
  <2> QED BY <2>1, <2>2, <2>3, <2>4, <2>5 DEF IndInv
<1>2. ASSUME startThread PROVE IndInv'
  <2> USE <1>t, <1>2 DEF startThread
  <2>1. TypeOK'
    <3>1. /\ thread + 1 \in Runs /\ thread' = thread + 1
          /\ run' = [run EXCEPT ![thread + 1] = "connect"]
      BY Launched
    <3>2. thread' \in Nat
      BY <1>r, <3>1
    <3>3. run' \in [Runs -> {"none", "connect", "test", "poll", "recv", "callback", "ended"}]
      BY <3>1 DEF TypeOK
    <3> QED BY <3>2, <3>3 DEF TypeOK
  <2>2. LastThread'
    <3>1. run'[thread + 1] = "connect" /\ \A i \in Runs : i # thread + 1 => run'[i] = run[i]
      BY Launched DEF TypeOK
    <3>2. \A i \in Runs : i > thread + 1 <=> i > thread /\ i # thread + 1
      BY <1>r DEF TypeOK
    <3> QED BY <3>1, <3>2, Launched DEF LastThread
  <2>3. Streams'
    <3> SUFFICES ASSUME NEW i \in Runs PROVE Continues(i)'
      BY DEF Streams
    <3>1. CASE i = thread + 1
      BY <3>1, Launched
        DEF Streams, Continues, HasSocket, InSocket, InHand, HandedOver, Active, TypeOK
    <3>2. CASE i # thread + 1
      BY <3>2, Launched, StreamFrame DEF Streams, TypeOK
    <3> QED BY <3>1, <3>2
  <2>4. LateThreadsStop'
    BY Launched DEF LateThreadsStop, TypeOK
  <2>5. StreamInOrder'
    BY DEF StreamInOrder
  <2> QED BY <2>1, <2>2, <2>3, <2>4, <2>5 DEF IndInv
<1>3. ASSUME shutdown PROVE IndInv'
  <2> USE <1>t, <1>3 DEF shutdown
  <2>1. TypeOK'
    BY DEF TypeOK
  <2>2. LastThread'
    BY DEF LastThread, TypeOK
  <2>3. Streams'
    BY DEF Streams, Continues, HasSocket, InSocket, InHand, HandedOver, Active, TypeOK
  <2>4. LateThreadsStop'
    BY <1>r DEF LateThreadsStop, LastThread, TypeOK
  <2>5. StreamInOrder'
    BY DEF StreamInOrder
  <2> QED BY <2>1, <2>2, <2>3, <2>4, <2>5 DEF IndInv
<1>4. ASSUME join PROVE IndInv'
  <2> USE <1>t, <1>4 DEF join
  <2>1. TypeOK'
    BY DEF TypeOK
  <2>2. LastThread'
    BY DEF LastThread, TypeOK
  <2>3. Streams'
    BY DEF Streams, Continues, HasSocket, InSocket, InHand, HandedOver, Active, TypeOK
  <2>4. LateThreadsStop'
    BY <1>r DEF LateThreadsStop, TypeOK
  <2>5. StreamInOrder'
    BY DEF StreamInOrder
  <2> QED BY <2>1, <2>2, <2>3, <2>4, <2>5 DEF IndInv
<1>5. ASSUME NEW i \in Runs, connect(i) PROVE IndInv'
  <2> USE <1>t, <1>5 DEF connect
  <2>1. TypeOK'
    BY DEF TypeOK
  <2>2. LastThread'
    BY DEF LastThread, TypeOK
  <2>3. Streams'
    <3> SUFFICES ASSUME NEW j \in Runs PROVE Continues(j)'
      BY DEF Streams
    <3>1. CASE j = i
      <4>1. found # {}
        <5>1. i \in Nat /\ i > 0 /\ ~(i > thread) /\ thread \in Nat
          BY <1>r DEF LastThread, TypeOK
        <5>2. Cardinality(found) # 0
          BY <5>1 DEF LastThread
        <5> QED BY <5>2, FS_EmptySet
      <4>2. endpoint \in Endpoints
        BY <4>1 DEF LastThread
      <4>3. Continues(i) /\ ~Active(i) /\ DOMAIN inbox[i] = {}
        BY DEF Streams, Continues, HasSocket, InSocket, InHand, HandedOver, Active
      <4>4. /\ run'[i] = "test" /\ connected'[i] = endpoint /\ endpoint # NoEndpoint
            /\ \A m \in DOMAIN delivered : delivered[m].by # i
        BY <4>2, <4>3 DEF TypeOK, Continues, HandedOver
      <4> QED BY <3>1, <4>3, <4>4 DEF Continues, HasSocket, InSocket, InHand, HandedOver, Active
    <3>2. CASE j # i
      BY <3>2, StreamFrame DEF Streams, TypeOK
    <3> QED BY <3>1, <3>2
  <2>4. LateThreadsStop'
    BY DEF LateThreadsStop, TypeOK
  <2>5. StreamInOrder'
    BY DEF StreamInOrder
  <2> QED BY <2>1, <2>2, <2>3, <2>4, <2>5 DEF IndInv
<1>6. ASSUME NEW i \in Runs, loop(i) PROVE IndInv'
  <2> USE <1>t, <1>6 DEF loop
  <2>1. TypeOK'
    <3>1. << >> \in Seq(Message)
      OBVIOUS
    <3> QED BY <3>1 DEF TypeOK
  <2>2. LastThread'
    BY DEF LastThread, TypeOK
  <2>3. Streams'
    <3> SUFFICES ASSUME NEW j \in Runs PROVE Continues(j)'
      BY DEF Streams
    <3>1. CASE j = i /\ shutdown_
      BY <3>1 DEF Streams, Continues, HasSocket, InSocket, InHand, HandedOver, Active, TypeOK
    <3>2. CASE j = i /\ ~shutdown_
      BY <3>2 DEF Streams, Continues, HasSocket, InSocket, InHand, HandedOver, Active, TypeOK
    <3>3. CASE j # i
      BY <3>3, StreamFrame DEF Streams, TypeOK
    <3> QED BY <3>1, <3>2, <3>3
  <2>4. LateThreadsStop'
    BY DEF LateThreadsStop, TypeOK
  <2>5. StreamInOrder'
    BY DEF StreamInOrder
  <2> QED BY <2>1, <2>2, <2>3, <2>4, <2>5 DEF IndInv
<1>7. ASSUME NEW i \in Runs, poll(i) PROVE IndInv'
  <2> USE <1>t, <1>7 DEF poll
  <2>1. TypeOK'
    BY DEF TypeOK
  <2>2. LastThread'
    BY DEF LastThread, TypeOK
  <2>3. Streams'
    BY DEF Streams, Continues, HasSocket, InSocket, InHand, HandedOver, Active, TypeOK
  <2>4. LateThreadsStop'
    BY DEF LateThreadsStop, TypeOK
  <2>5. StreamInOrder'
    BY DEF StreamInOrder
  <2> QED BY <2>1, <2>2, <2>3, <2>4, <2>5 DEF IndInv
<1>8. ASSUME NEW i \in Runs, recv(i) PROVE IndInv'
  <2> USE <1>t, <1>8 DEF recv
  <2>1. TypeOK'
    <3>1. inbox[i] \in Seq(Message) /\ inbox[i] # << >>
      BY DEF TypeOK, Streams, Continues, HasSocket
    <3>2. <<Head(inbox[i])>> \in Seq(Message) /\ Tail(inbox[i]) \in Seq(Message)
      BY <3>1
    <3> QED BY <3>2 DEF TypeOK
  <2>2. LastThread'
    BY DEF LastThread, TypeOK
  <2>3. Streams'
    <3> SUFFICES ASSUME NEW j \in Runs PROVE Continues(j)'
      BY DEF Streams
    <3>1. CASE j = i
      <4>1. inbox[i] \in Seq(Message) /\ inbox[i] # << >> /\ Continues(i) /\ Active(i)
        BY DEF TypeOK, Streams, Continues, HasSocket, InSocket, InHand, HandedOver, Active
      <4>2. /\ 1 \in DOMAIN inbox[i]
            /\ \A k \in DOMAIN Tail(inbox[i]) :
                 k + 1 \in DOMAIN inbox[i] /\ 1 < k + 1 /\ Tail(inbox[i])[k] = inbox[i][k + 1]
            /\ \A k, l \in DOMAIN Tail(inbox[i]) : k < l => k + 1 < l + 1
        BY <4>1
      <4>3. /\ inbox'[i] = Tail(inbox[i]) /\ inhand'[i] = <<inbox[i][1]>>
            /\ run'[i] = "callback" /\ connected'[i] = connected[i]
        BY <4>1 DEF TypeOK
      <4>4. inhand'[i] # << >> /\ inhand'[i][1] = inbox[i][1]
        BY <4>3
      <4>5. /\ \A k \in DOMAIN inbox'[i] :
                 k + 1 \in DOMAIN inbox[i] /\ 1 < k + 1 /\ inbox'[i][k] = inbox[i][k + 1]
            /\ \A k, l \in DOMAIN inbox'[i] : k < l => k + 1 < l + 1
        BY <4>2, <4>3
      <4>6. HasSocket(i)'
        BY <4>1, <4>3, <4>4 DEF HasSocket, Active, Continues
      <4>7. InSocket(i)'
        BY <4>1, <4>3, <4>5 DEF InSocket, Continues
      <4>8. InHand(i)'
        BY <4>1, <4>2, <4>3, <4>4, <4>5 DEF InHand, InSocket, Continues
      <4>9. HandedOver(i)'
        BY <4>1, <4>2, <4>3, <4>4, <4>5 DEF HandedOver, Active, Continues
      <4> QED BY <3>1, <4>6, <4>7, <4>8, <4>9 DEF Continues
    <3>2. CASE j # i
      BY <3>2, StreamFrame DEF Streams, TypeOK
    <3> QED BY <3>1, <3>2
  <2>4. LateThreadsStop'
    BY DEF LateThreadsStop, TypeOK
  <2>5. StreamInOrder'
    BY DEF StreamInOrder
  <2> QED BY <2>1, <2>2, <2>3, <2>4, <2>5 DEF IndInv
<1>9. ASSUME NEW i \in Runs, callback(i) PROVE IndInv'
  <2> USE <1>t, <1>9 DEF callback
  <2>1. TypeOK'
    <3>1. inhand[i] \in Seq(Message) /\ inhand[i] # << >>
      BY DEF TypeOK, Streams, Continues, HasSocket
    <3>2. /\ [by |-> i, msg |-> inhand[i][1]] \in [by : Runs, msg : Message]
          /\ << >> \in Seq(Message)
      BY <3>1
    <3> QED BY <3>2 DEF TypeOK
  <2>2. LastThread'
    BY DEF LastThread, TypeOK
  <2>3. Streams'
    <3>d. /\ DOMAIN delivered' = DOMAIN delivered \cup {Len(delivered) + 1}
          /\ \A m \in DOMAIN delivered : delivered'[m] = delivered[m] /\ m < Len(delivered) + 1
          /\ delivered'[Len(delivered) + 1] = [by |-> i, msg |-> inhand[i][1]]
      BY DEF TypeOK

    <3> SUFFICES ASSUME NEW j \in Runs PROVE Continues(j)'
      BY DEF Streams
    <3>1. CASE j = i
      <4>1. Continues(i) /\ Active(i)
        BY DEF Streams, Active
      <4>2. run'[i] = "test" /\ connected'[i] = connected[i] /\ inbox'[i] = inbox[i]
        BY DEF TypeOK
      <4> QED BY <3>1, <3>d, <4>1, <4>2
                DEF Continues, HasSocket, InSocket, InHand, HandedOver, Active
    <3>2. CASE j # i
      <4>1. \A m \in DOMAIN delivered' : delivered'[m].by = j =>
              m \in DOMAIN delivered /\ delivered'[m] = delivered[m]
        BY <3>2, <3>d
      <4> QED BY <3>2, <4>1, StreamFrame DEF Streams, TypeOK
    <3> QED BY <3>1, <3>2
  <2>4. LateThreadsStop'
    BY DEF LateThreadsStop, TypeOK
  <2>5. StreamInOrder'
    <3>d. /\ DOMAIN delivered' = DOMAIN delivered \cup {Len(delivered) + 1}
          /\ \A m \in DOMAIN delivered : delivered'[m] = delivered[m] /\ m < Len(delivered) + 1
          /\ delivered'[Len(delivered) + 1] = [by |-> i, msg |-> inhand[i][1]]
      BY DEF TypeOK

    <3>1. Continues(i) /\ Active(i)
      BY DEF Streams, Active
    <3>2. \A m \in DOMAIN delivered : m \in Nat /\ ~(Len(delivered) + 1 < m)
      BY DEF TypeOK
    <3> QED BY <3>d, <3>1, <3>2 DEF StreamInOrder, Continues, InHand, HandedOver
  <2> QED BY <2>1, <2>2, <2>3, <2>4, <2>5 DEF IndInv
<1>10. ASSUME NEW e \in Endpoints, PublisherSends(e) PROVE IndInv'
  <2> USE <1>t, <1>10 DEF PublisherSends
  <2>1. TypeOK'
    <3>1. [from |-> e, number |-> sent[e] + 1] \in Message
      BY DEF TypeOK, Message
    <3>2. inbox' \in [Runs -> Seq(Message)]
      BY <3>1 DEF TypeOK
    <3> QED BY <3>2 DEF TypeOK
  <2>2. LastThread'
    BY DEF LastThread, TypeOK
  <2>3. Streams'
    <3> SUFFICES ASSUME NEW i \in Runs PROVE Continues(i)'
      BY DEF Streams
    <3>1. /\ sent[e] \in Nat /\ sent'[e] = sent[e] + 1
          /\ \A f \in Endpoints : f # e => sent'[f] = sent[f]
      BY DEF TypeOK
    <3>2. CASE connected[i] = e
      <4>1. /\ Len(inbox'[i]) = Len(inbox[i]) + 1
            /\ DOMAIN inbox'[i] = DOMAIN inbox[i] \cup {Len(inbox[i]) + 1}
            /\ \A k \in DOMAIN inbox[i] :
                 inbox'[i][k] = inbox[i][k] /\ k \in Nat /\ ~(Len(inbox[i]) + 1 < k)
            /\ inbox'[i][Len(inbox[i]) + 1] = [from |-> e, number |-> sent[e] + 1]
            /\ inbox'[i] # << >>
        BY <3>2 DEF TypeOK
      <4>2. Continues(i) /\ Active(i)
        BY <3>2 DEF Streams, Continues, HasSocket
      <4>3. /\ \A k \in DOMAIN inbox[i] : inbox[i][k].number \in Nat
            /\ run[i] = "callback" => inhand[i][1].number \in Nat
            /\ \A m \in DOMAIN delivered : delivered[m].msg.number \in Nat
        <5>1. inbox[i] \in Seq(Message) /\ inhand[i] \in Seq(Message)
          BY DEF TypeOK
        <5>2. run[i] = "callback" => inhand[i][1] \in Message
          BY <4>2, <5>1 DEF Continues, HasSocket
        <5>3. \A k \in DOMAIN inbox[i] : inbox[i][k] \in Message
          BY <5>1
        <5>4. ASSUME NEW m \in DOMAIN delivered PROVE delivered[m].msg \in Message
          <6>1. delivered[m] \in [by : Runs, msg : Message]
            BY SequenceElements DEF TypeOK
          <6> QED BY <6>1
        <5> QED BY <1>m, <5>2, <5>3, <5>4
      <4>4. HasSocket(i)'
        BY <4>1, <4>2 DEF HasSocket, Active, Continues
      <4>5. InSocket(i)'
        BY <3>1, <3>2, <4>1, <4>2, <4>3 DEF InSocket, Continues
      <4>6. InHand(i)'
        BY <3>1, <3>2, <4>1, <4>2, <4>3 DEF InHand, Continues
      <4>7. HandedOver(i)'
        BY <3>1, <3>2, <4>1, <4>2, <4>3 DEF HandedOver, Active, Continues
      <4> QED BY <4>4, <4>5, <4>6, <4>7 DEF Continues
    <3>3. CASE connected[i] # e
      <4>1. inbox'[i] = inbox[i]
        BY <3>3 DEF TypeOK
      <4>2. connected[i] \in Endpoints => sent'[connected[i]] = sent[connected[i]]
        BY <3>1, <3>3
      <4> QED BY <4>1, <4>2, StreamFrame DEF Streams, TypeOK
    <3> QED BY <3>2, <3>3
  <2>4. LateThreadsStop'
    BY DEF LateThreadsStop, TypeOK
  <2>5. StreamInOrder'
    BY DEF StreamInOrder
  <2> QED BY <2>1, <2>2, <2>3, <2>4, <2>5 DEF IndInv
<1>11. CASE UNCHANGED vars
  BY <1>t, <1>11 DEF vars, IndInv, TypeOK, LastThread, Streams, Continues, HasSocket, InSocket,
                     InHand, HandedOver, Active, LateThreadsStop, StreamInOrder
<1> QED
  BY <1>1, <1>2, <1>3, <1>4, <1>5, <1>6, <1>7, <1>8, <1>9, <1>10, <1>11 DEF Next, Run

-----------------------------------------------------------------------------
\* The invariant of SubscribeZMQ, for any number of publishers and messages.
THEOREM SubscribeInvariant == Spec => []IndInv
BY InitInv, StepInv, PTL DEF Spec

\* Each thread of run() hands over the messages of one publisher, in order, none twice.
THEOREM StreamsInOrder == Spec => []StreamInOrder
<1>1. IndInv => StreamInOrder
  BY DEF IndInv
<1> QED BY <1>1, SubscribeInvariant, PTL

\* After shutdown() has returned, only a thread older than the one it has joined can still
\* call cb_.
THEOREM ShutdownQuiets == Spec => QuietAfterShutdown
<1>1. ASSUME IndInv, [Next]_vars, closer = "down"
      PROVE  UNCHANGED delivered \/ delivered'[Len(delivered')].by < joining
  <2>1. ASSUME NEW i \in Runs, callback(i)
        PROVE  delivered'[Len(delivered')].by < joining
    <3>1. i \in Nat /\ joining \in Nat
      BY <1>1, FS_CardinalityType DEF IndInv, TypeOK, Runs
    <3>2. ~(i > joining) /\ i # joining
      BY <1>1, <2>1 DEF IndInv, LateThreadsStop, callback
    <3>3. delivered'[Len(delivered')].by = i
      BY <1>1, <2>1 DEF IndInv, TypeOK, callback
    <3> QED BY <3>1, <3>2, <3>3
  <2>2. CASE \A i \in Runs : ~callback(i)
    BY <1>1, <2>2 DEF Next, Run, vars, startAssign, PublisherSends, startThread, shutdown, join,
                      connect, loop, poll, recv
  <2> QED BY <2>1, <2>2
<1> QED BY <1>1, SubscribeInvariant, PTL DEF Spec, QuietAfterShutdown
=============================================================================
