--------------------------- MODULE PublishZMQProofs ---------------------------
(***************************************************************************)
(* The message queue of PublishZMQ for every limit and any number of       *)
(* messages: IndInv is inductive, and the three safety properties of the   *)
(* queue follow from it.                                                   *)
(***************************************************************************)
EXTENDS PublishZMQ, TLAPS

USE DEF NoMsg

\* What MessageQueue::push leaves in the queue: the run of the newest messages, one longer
\* or of the same length, and within the limit.
LEMMA PushKeepsRun ==
  ASSUME IndInv, push
  PROVE  /\ pushed' = pushed + 1
         /\ queue' \in Seq(Nat)
         /\ Len(queue') <= pushed'
         /\ \/ /\ Len(queue') = Len(queue) + 1
               /\ QueueSize # 0 => Len(queue) < QueueSize
            \/ Len(queue') = Len(queue) /\ QueueSize # 0 /\ Len(queue) = QueueSize
         /\ \A i \in 1..Len(queue') : queue'[i] = (pushed' - Len(queue')) + i
<1> DEFINE q == Append(queue, pushed + 1)
<1>1. /\ queue \in Seq(Nat) /\ pushed \in Nat /\ QueueSize \in Nat
      /\ Len(queue) <= pushed
      /\ QueueSize # 0 => Len(queue) <= QueueSize
      /\ \A i \in 1..Len(queue) : queue[i] = (pushed - Len(queue)) + i
  BY PublishZMQAssumption DEF IndInv, TypeOK, Taken
<1>2. /\ q \in Seq(Nat) /\ Len(q) = Len(queue) + 1 /\ Len(queue) \in Nat
      /\ \A i \in 1..Len(q) : q[i] = (pushed - Len(queue)) + i
  BY <1>1
<1>3. pushed' = pushed + 1 /\ queue' = Bounded(q)
  BY DEF push
<1> HIDE DEF q
<1>4. CASE QueueSize # 0 /\ Len(q) > QueueSize
  <2>1. queue' = Tail(q) /\ Len(queue) = QueueSize
    BY <1>1, <1>2, <1>3, <1>4 DEF Bounded
  <2>2. /\ queue' \in Seq(Nat) /\ Len(queue') = Len(queue)
        /\ \A i \in 1..Len(queue') : queue'[i] = q[i + 1]
    BY <1>1, <1>2, <2>1
  <2>3. ASSUME NEW i \in 1..Len(queue')
        PROVE  queue'[i] = (pushed' - Len(queue')) + i
    <3>1. i + 1 \in 1..Len(q) /\ queue'[i] = q[i + 1]
      BY <1>2, <2>2
    <3>2. q[i + 1] = (pushed - Len(queue)) + (i + 1)
      BY <1>2, <3>1
    <3> QED BY <1>1, <1>2, <1>3, <2>2, <3>1, <3>2
  <2>4. Len(queue') <= pushed'
    BY <1>1, <1>2, <1>3, <2>2
  <2> QED BY <1>3, <1>4, <2>1, <2>2, <2>3, <2>4
<1>5. CASE ~(QueueSize # 0 /\ Len(q) > QueueSize)
  <2>1. queue' = q
    BY <1>3, <1>5 DEF Bounded
  <2>2. queue' \in Seq(Nat) /\ Len(queue') = Len(queue) + 1
    BY <1>2, <2>1
  <2>3. ASSUME NEW i \in 1..Len(queue')
        PROVE  queue'[i] = (pushed' - Len(queue')) + i
    <3>1. i \in 1..Len(q) /\ queue'[i] = q[i]
      BY <1>2, <2>1, <2>2
    <3>2. q[i] = (pushed - Len(queue)) + i
      BY <1>2, <3>1
    <3> QED BY <1>1, <1>2, <1>3, <2>2, <3>1, <3>2
  <2>4. Len(queue') <= pushed' /\ (QueueSize # 0 => Len(queue) < QueueSize)
    BY <1>1, <1>2, <1>3, <1>5, <2>2
  <2> QED BY <1>3, <2>2, <2>3, <2>4
<1> QED BY <1>4, <1>5

\* The object starts with an empty queue.
LEMMA InitInv == Init => IndInv
<1> SUFFICES ASSUME Init PROVE IndInv
  OBVIOUS
<1>1. queue = << >> /\ sent = << >>
  BY DEF Init
<1>2. pushed = 0 /\ msg = 0 /\ worker = "none"
  BY DEF Init
<1>3. Len(queue) = 0 /\ Len(sent) = 0
  BY <1>1
<1>4. Taken = 0
  BY <1>2, <1>3 DEF Taken
<1>5. queue \in Seq(Nat) /\ sent \in Seq(Nat)
  BY <1>1
<1>6. TypeOK
  <2>1. pushed \in Nat /\ msg \in Nat
    BY <1>2
  <2> QED BY <1>5, <2>1, Zenon DEF Init, TypeOK
<1> QED BY <1>2, <1>3, <1>4, <1>6, PublishZMQAssumption DEF IndInv

\* Every step of the owner and of the thread keeps the run of the newest messages.
LEMMA StepInv == IndInv /\ [Next]_vars => IndInv'
<1> SUFFICES ASSUME IndInv, [Next]_vars PROVE IndInv'
  OBVIOUS
<1>t. /\ TypeOK /\ QueueSize \in Nat
      /\ queue \in Seq(Nat) /\ sent \in Seq(Nat) /\ msg \in Nat /\ pushed \in Nat
      /\ Len(queue) \in Nat /\ Len(sent) \in Nat /\ Len(queue) <= pushed
  BY PublishZMQAssumption DEF IndInv, TypeOK
<1>1. ASSUME startThread \/ startAssign \/ shutdown \/ join \/ bind \/ loop \/ popWoken \/ popTimeout
             \/ UNCHANGED vars
      PROVE  IndInv'
  <2>1. UNCHANGED <<queue, msg, pushed, sent>>
    BY <1>1 DEF startThread, startAssign, shutdown, join, bind, loop, popWoken, popTimeout, vars
  <2>2. TypeOK'
    BY <1>1, <1>t DEF TypeOK, startThread, startAssign, shutdown, join, bind, loop, popWoken,
                      popTimeout, vars
  <2>w. (owner = "start" => worker = "none") /\ (owner' = "start" => worker' = "none")
    BY <1>1 DEF IndInv, startThread, startAssign, shutdown, join, bind, loop, popWoken, popTimeout,
                vars
  <2>3. \/ UNCHANGED worker
        \/ worker \notin {"topic", "data"} /\ worker' \notin {"topic", "data"}
    BY <1>1, <2>w DEF startThread, startAssign, shutdown, join, bind, loop, popWoken, popTimeout,
                      vars
  <2> QED BY <2>1, <2>2, <2>w, <2>3 DEF IndInv, Taken, IsSent
<1>2. ASSUME publish PROVE IndInv'
  <2>1. push /\ UNCHANGED <<owner, worker, endpoint, shutdown_, msg, sent>>
    BY <1>2 DEF publish
  <2>2. /\ pushed' = pushed + 1
        /\ queue' \in Seq(Nat)
        /\ Len(queue') <= pushed'
        /\ \/ /\ Len(queue') = Len(queue) + 1
              /\ QueueSize # 0 => Len(queue) < QueueSize
           \/ Len(queue') = Len(queue) /\ QueueSize # 0 /\ Len(queue) = QueueSize
        /\ \A i \in 1..Len(queue') : queue'[i] = (pushed' - Len(queue')) + i
    BY <2>1, PushKeepsRun
  <2>3. TypeOK'
    BY <1>t, <2>1, <2>2 DEF TypeOK, push
  <2>l. Len(queue') \in Nat
    BY <2>2
  <2>4. Taken' \in Nat /\ (Taken' = Taken \/ (Taken' = Taken + 1 /\ QueueSize # 0 /\ Len(queue) = QueueSize))
    <3>1. Taken = pushed - Len(queue) /\ Taken' = pushed' - Len(queue')
      BY DEF Taken
    <3>2. CASE Len(queue') = Len(queue) + 1
      BY <1>t, <2>2, <3>1, <3>2
    <3>3. CASE Len(queue') = Len(queue) /\ QueueSize # 0 /\ Len(queue) = QueueSize
      BY <1>t, <2>2, <3>1, <3>3
    <3> QED BY <2>2, <3>2, <3>3
  <2>5. QueueSize # 0 => Len(queue') <= QueueSize
    BY <1>t, <2>2 DEF IndInv
  <2>6. msg' <= Taken'
    BY <1>t, <2>1, <2>4 DEF IndInv, Taken
  <2>7. \A i \in 1..Len(sent') : sent'[i] <= Taken' /\ (msg' # NoMsg => sent'[i] < msg')
    BY <1>t, <2>1, <2>4 DEF IndInv, Taken
  <2>8. ASSUME NEW m \in 1..Taken'
        PROVE  IsSent(m)' \/ msg' = m \/ (QueueSize # 0 /\ m + QueueSize <= pushed')
    <3>1. CASE m \in 1..Taken
      BY <1>t, <2>1, <2>2, <3>1 DEF IndInv, IsSent
    <3>2. CASE m \notin 1..Taken
      <4>1. QueueSize # 0 /\ m = Taken + 1 /\ Len(queue) = QueueSize
        BY <1>t, <2>4, <2>8, <3>2 DEF Taken
      <4> QED BY <1>t, <2>2, <4>1 DEF Taken
    <3> QED BY <3>1, <3>2
  <2> QED BY <2>1, <2>2, <2>3, <2>5, <2>6, <2>7, <2>8 DEF IndInv, Taken
<1>3. ASSUME pop PROVE IndInv'
  <2>1. CASE queue = << >>
    <3>1. /\ UNCHANGED <<queue, msg, pushed, sent>>
          /\ UNCHANGED owner /\ worker = "pop" /\ worker' = "waiting"
      BY <1>3, <2>1 DEF pop
    <3>2. TypeOK'
      BY <1>t, <1>3, <2>1 DEF TypeOK, pop
    <3> QED BY <3>1, <3>2 DEF IndInv, Taken, IsSent
  <2>2. CASE queue # << >>
    <3>1. /\ worker = "pop" /\ worker' = "topic"
          /\ msg' = Head(queue) /\ queue' = Tail(queue)
          /\ UNCHANGED <<owner, endpoint, shutdown_, notified, pushed, sent>>
      BY <1>3, <2>2 DEF pop
    <3>2. /\ Len(queue) \in Nat \ {0}
          /\ queue' \in Seq(Nat) /\ Len(queue') = Len(queue) - 1
          /\ msg' = queue[1]
          /\ \A i \in 1..Len(queue') : queue'[i] = queue[i + 1]
      BY <1>t, <2>2, <3>1
    <3>3. msg = NoMsg /\ msg' = Taken + 1 /\ Taken' = Taken + 1 /\ Taken \in Nat
      BY <1>t, <3>1, <3>2 DEF IndInv, Taken
    <3>4. TypeOK'
      BY <1>t, <3>1, <3>2, <3>3 DEF TypeOK
    <3>5. \A i \in 1..Len(queue') : queue'[i] = Taken' + i
      BY <1>t, <3>2, <3>3 DEF IndInv
    <3>6. \A i \in 1..Len(sent') : sent'[i] <= Taken' /\ (msg' # NoMsg => sent'[i] < msg')
      BY <1>t, <3>1, <3>3 DEF IndInv
    <3>7. \A m \in 1..Taken' : IsSent(m)' \/ msg' = m \/ (QueueSize # 0 /\ m + QueueSize <= pushed')
      BY <1>t, <3>1, <3>3 DEF IndInv, IsSent
    <3>8. Len(queue') <= pushed' /\ (QueueSize # 0 => Len(queue') <= QueueSize)
      BY <1>t, <3>1, <3>2 DEF IndInv
    <3>9. \A i, j \in 1..Len(sent') : i < j => sent'[i] < sent'[j]
      BY <3>1 DEF IndInv
    <3>10. /\ msg' <= Taken' /\ (worker' \in {"topic", "data"} <=> msg' # NoMsg)
           /\ owner' = "start" => worker' = "none"
      BY <3>1, <3>3 DEF IndInv
    <3> QED BY <3>4, <3>5, <3>6, <3>7, <3>8, <3>9, <3>10 DEF IndInv
  <2> QED BY <2>1, <2>2
<1>4. ASSUME sendTopic PROVE IndInv'
  <2>1. UNCHANGED <<owner, endpoint, shutdown_, queue, notified, msg, pushed, sent>>
        /\ worker = "topic" /\ worker' = "data"
    BY <1>4 DEF sendTopic
  <2>2. TypeOK'
    BY <1>t, <2>1 DEF TypeOK
  <2> QED BY <2>1, <2>2 DEF IndInv, Taken, IsSent
<1>5. ASSUME sendData PROVE IndInv'
  <2>1. /\ worker = "data" /\ worker' = "test"
        /\ sent' = Append(sent, msg) /\ msg' = NoMsg
        /\ UNCHANGED <<owner, endpoint, shutdown_, queue, notified, pushed>>
    BY <1>5 DEF sendData
  <2>2. /\ sent' \in Seq(Nat) /\ Len(sent') = Len(sent) + 1
        /\ \A i \in 1..Len(sent) : sent'[i] = sent[i]
        /\ sent'[Len(sent) + 1] = msg
    BY <1>t, <2>1
  <2>3. msg # NoMsg /\ Taken \in Nat /\ msg <= Taken /\ Taken' = Taken
    BY <1>t, <2>1 DEF IndInv, Taken
  <2>4. TypeOK'
    BY <1>t, <2>1, <2>2 DEF TypeOK
  <2>o. /\ \A i \in 1..Len(sent) : sent'[i] <= Taken /\ sent'[i] < msg
        /\ \A i, j \in 1..Len(sent) : i < j => sent'[i] < sent'[j]
    BY <2>2, <2>3 DEF IndInv
  <2>n. \A i \in 1..Len(sent') : i \in 1..Len(sent) \/ i = Len(sent) + 1
    BY <1>t, <2>2
  <2>5. \A i \in 1..Len(sent') : sent'[i] <= Taken'
    BY <2>2, <2>3, <2>o, <2>n
  <2>6. ASSUME NEW i \in 1..Len(sent'), NEW j \in 1..Len(sent'), i < j
        PROVE  sent'[i] < sent'[j]
    <3>1. i \in 1..Len(sent)
      BY <1>t, <2>2, <2>6
    <3> QED BY <2>2, <2>6, <2>o, <2>n, <3>1
  <2>7. ASSUME NEW m \in 1..Taken'
        PROVE  IsSent(m)' \/ msg' = m \/ (QueueSize # 0 /\ m + QueueSize <= pushed')
    <3>1. CASE IsSent(m) \/ msg = m
      <4>1. DOMAIN sent = 1..Len(sent) /\ DOMAIN sent' = 1..Len(sent')
        BY <1>t, <2>2
      <4>2. 1..Len(sent) \subseteq 1..Len(sent') /\ Len(sent) + 1 \in 1..Len(sent')
        BY <1>t, <2>2
      <4> QED BY <2>2, <3>1, <4>1, <4>2 DEF IsSent
    <3>2. CASE QueueSize # 0 /\ m + QueueSize <= pushed
      BY <2>1, <3>2
    <3> QED BY <2>3, <3>1, <3>2 DEF IndInv
  <2> QED BY <2>1, <2>3, <2>4, <2>5, <2>6, <2>7 DEF IndInv, Taken
<1> QED BY <1>1, <1>2, <1>3, <1>4, <1>5 DEF Next, Run

\* The queue of PublishZMQ is always the run of the newest messages, whatever its limit
\* and however publish() and run() interleave.
THEOREM QueueInvariant == Spec => []IndInv
BY InitInv, StepInv, PTL DEF Spec

\* run() sends the messages in the order of publish(), each at most once.
THEOREM SendsInOrder == Spec => []SentInOrder
<1>1. IndInv => SentInOrder
  <2> SUFFICES ASSUME IndInv PROVE SentInOrder
    OBVIOUS
  <2>1. /\ queue \in Seq(Nat) /\ sent \in Seq(Nat) /\ msg \in Nat /\ pushed \in Nat
        /\ Len(queue) \in Nat /\ Len(queue) <= pushed /\ Taken \in Nat
        /\ DOMAIN queue = 1..Len(queue) /\ DOMAIN sent = 1..Len(sent)
    BY DEF IndInv, TypeOK, Taken
  <2>2. \A j \in DOMAIN queue : queue[j] = Taken + j
    BY <2>1 DEF IndInv
  <2> QED BY <2>1, <2>2 DEF IndInv, SentInOrder
<1> QED BY <1>1, QueueInvariant, PTL

\* push() drops a message only when QueueSize newer ones have been published, and pop()
\* never drops one.
THEOREM LosesOnlyWhenFull == Spec => []LostOnlyWhenFull
<1>1. IndInv => LostOnlyWhenFull
  <2> SUFFICES ASSUME IndInv, NEW m \in 1..pushed
               PROVE  \/ InQueue(m) \/ IsSent(m) \/ msg = m
                      \/ QueueSize # 0 /\ m + QueueSize <= pushed
    BY DEF LostOnlyWhenFull
  <2>1. /\ queue \in Seq(Nat) /\ pushed \in Nat /\ Len(queue) \in Nat /\ Len(queue) <= pushed
        /\ DOMAIN queue = 1..Len(queue) /\ Taken \in Nat
    BY DEF IndInv, TypeOK, Taken
  <2>2. CASE m \in 1..Taken
    BY <2>2 DEF IndInv
  <2>3. CASE m \notin 1..Taken
    <3>1. m - Taken \in DOMAIN queue
      BY <2>1, <2>3 DEF Taken
    <3>2. queue[m - Taken] = m
      BY <2>1, <3>1 DEF IndInv
    <3> QED BY <3>1, <3>2 DEF InQueue
  <2> QED BY <2>2, <2>3
<1> QED BY <1>1, QueueInvariant, PTL

\* The queue stays within its limit and a slow thread costs old messages, never the newest.
THEOREM NewestIsKept == Spec => []KeepsNewest
<1>1. IndInv /\ LostOnlyWhenFull => KeepsNewest
  <2> SUFFICES ASSUME IndInv, LostOnlyWhenFull, pushed > 0
               PROVE  InQueue(pushed) \/ IsSent(pushed) \/ msg = pushed
    BY DEF KeepsNewest, IndInv
  <2>1. pushed \in Nat /\ QueueSize \in Nat /\ pushed \in 1..pushed
    BY PublishZMQAssumption DEF IndInv, TypeOK
  <2> QED BY <2>1 DEF LostOnlyWhenFull
<1> QED BY <1>1, QueueInvariant, LosesOnlyWhenFull, PTL
-----------------------------------------------------------------------------
(***************************************************************************)
(* The object implements LossyFeed, step by step.                          *)
(***************************************************************************)

\* What waits, by the invariant: the run of the queue, and the older message in the hand of
\* the thread.
WaitingIs ==
  \A m \in Nat :
    m \in Waiting <=> (m > Taken /\ m <= pushed) \/ (m # NoMsg /\ m = msg)

LEMMA WaitingLemma == IndInv => WaitingIs
<1> SUFFICES ASSUME IndInv, NEW m \in Nat
             PROVE  m \in Waiting <=> (m > Taken /\ m <= pushed) \/ (m # NoMsg /\ m = msg)
  BY DEF WaitingIs
<1>1. /\ pushed \in Nat /\ msg \in Nat /\ Taken \in Nat /\ msg <= Taken /\ Taken <= pushed
      /\ DOMAIN queue = 1..Len(queue) /\ Len(queue) \in Nat /\ Taken + Len(queue) = pushed
      /\ \A i \in 1..Len(queue) : queue[i] = Taken + i
  BY DEF IndInv, TypeOK, Taken
<1>2. InQueue(m) <=> m > Taken /\ m <= pushed
  <2>1. ASSUME InQueue(m) PROVE m > Taken /\ m <= pushed
    BY <1>1, <2>1 DEF InQueue
  <2>2. ASSUME m > Taken, m <= pushed PROVE InQueue(m)
    <3>1. m - Taken \in DOMAIN queue /\ queue[m - Taken] = m
      BY <1>1, <2>2
    <3> QED BY <3>1 DEF InQueue
  <2> QED BY <2>1, <2>2
<1>3. m \in Waiting <=> m \in 1..pushed /\ (InQueue(m) \/ msg = m)
  BY DEF Waiting
<1> QED BY <1>1, <1>2, <1>3

\* A step of the object is a step of the feed or leaves it alone: publish() publishes, the
\* second part of the send delivers, and pop() only moves a message that waits.
LEMMA StepRefines ==
  IndInv /\ IndInv' /\ WaitingIs /\ WaitingIs' /\ [Next]_vars => [Feed!Next]_(Feed!vars)
<1> SUFFICES ASSUME IndInv, IndInv', WaitingIs, WaitingIs', [Next]_vars
             PROVE  Feed!Next \/ UNCHANGED <<pushed, Waiting, sent>>
  BY DEF Feed!vars
<1>t. /\ QueueSize \in Nat /\ pushed \in Nat /\ pushed' \in Nat /\ msg \in Nat
      /\ Taken \in Nat /\ Taken <= pushed /\ msg <= Taken
      /\ Taken' \in Nat /\ Taken' <= pushed' /\ msg' <= Taken' /\ msg' \in Nat
      /\ Waiting \subseteq Nat /\ Waiting' \subseteq Nat
  BY PublishZMQAssumption DEF IndInv, TypeOK, Taken, Waiting
<1>1. ASSUME UNCHANGED <<queue, msg, pushed, sent>> PROVE UNCHANGED <<pushed, Waiting, sent>>
  BY <1>1 DEF Waiting, InQueue
<1>2. ASSUME publish PROVE Feed!Publish
  <2>1. pushed' = pushed + 1 /\ msg' = msg /\ sent' = sent
    BY <1>2 DEF publish, push
  <2>2. \/ Taken' = Taken /\ (QueueSize # 0 => pushed < Taken + QueueSize)
        \/ Taken' = Taken + 1 /\ QueueSize # 0 /\ Taken + QueueSize = pushed
    <3>1. /\ \/ Len(queue') = Len(queue) + 1 /\ (QueueSize # 0 => Len(queue) < QueueSize)
             \/ Len(queue') = Len(queue) /\ QueueSize # 0 /\ Len(queue) = QueueSize
          /\ Len(queue) \in Nat
      BY <1>2, PushKeepsRun DEF publish, IndInv, TypeOK
    <3>2. Taken = pushed - Len(queue) /\ Taken' = (pushed + 1) - Len(queue')
      BY <2>1 DEF Taken
    <3>3. CASE Len(queue') = Len(queue) + 1 /\ (QueueSize # 0 => Len(queue) < QueueSize)
      BY <1>t, <3>1, <3>2, <3>3
    <3>4. CASE Len(queue') = Len(queue) /\ QueueSize # 0 /\ Len(queue) = QueueSize
      BY <1>t, <3>1, <3>2, <3>4
    <3> QED BY <3>1, <3>3, <3>4
  <2>3. \A m \in Nat : /\ m \in Waiting <=> (m > Taken /\ m <= pushed) \/ (m # 0 /\ m = msg)
                       /\ m \in Waiting' <=> (m > Taken' /\ m <= pushed + 1) \/ (m # 0 /\ m = msg)
    BY <2>1 DEF WaitingIs
  <2>4. ASSUME NEW m \in Nat
        PROVE  /\ m \in Waiting' => m \in Waiting \/ m = pushed + 1
               /\ m \in Waiting /\ m \notin Waiting' => QueueSize # 0 /\ m + QueueSize <= pushed + 1
               /\ m \in Waiting' /\ QueueSize # 0 /\ m + QueueSize <= pushed + 1 => m = msg
               /\ m = pushed + 1 => m \in Waiting'
    <3>1. CASE Taken' = Taken /\ (QueueSize # 0 => pushed < Taken + QueueSize)
      <4>1. m \in Waiting' <=> (m > Taken /\ m <= pushed + 1) \/ (m # 0 /\ m = msg)
        BY <2>3, <3>1
      <4> QED BY <1>t, <2>3, <3>1, <4>1
    <3>2. CASE Taken' = Taken + 1 /\ QueueSize # 0 /\ Taken + QueueSize = pushed
      <4>1. m \in Waiting' <=> (m > Taken + 1 /\ m <= pushed + 1) \/ (m # 0 /\ m = msg)
        BY <2>3, <3>2
      <4> QED BY <1>t, <2>3, <3>2, <4>1
    <3> QED BY <2>2, <3>1, <3>2
  <2> QED BY <1>t, <2>1, <2>4 DEF Feed!Publish, Feed!Old
<1>3. ASSUME pop, queue # << >> PROVE UNCHANGED <<pushed, Waiting, sent>>
  <2>1. /\ worker = "pop" /\ msg' = Head(queue) /\ queue' = Tail(queue)
        /\ pushed' = pushed /\ sent' = sent
    BY <1>3 DEF pop
  <2>2. /\ Len(queue') = Len(queue) - 1 /\ Len(queue) \in Nat \ {0} /\ msg' = queue[1]
        /\ msg = NoMsg
    BY <1>3, <2>1 DEF IndInv, TypeOK
  <2>3. Taken' = Taken + 1 /\ msg' = Taken + 1
    BY <1>t, <2>1, <2>2 DEF IndInv, Taken
  <2>4. \A m \in Nat : m \in Waiting <=> m \in Waiting'
    BY <1>t, <2>1, <2>2, <2>3 DEF WaitingIs
  <2> QED BY <1>t, <2>1, <2>4
<1>4. ASSUME sendData PROVE Feed!Deliver
  <2>1. /\ worker = "data" /\ msg' = NoMsg /\ sent' = Append(sent, msg)
        /\ queue' = queue /\ pushed' = pushed /\ Taken' = Taken
    BY <1>4 DEF sendData, Taken
  <2>2. msg # NoMsg
    BY <2>1 DEF IndInv
  <2>3. msg \in Waiting /\ \A n \in Waiting : msg <= n
    BY <1>t, <2>2 DEF WaitingIs
  <2>4. \A m \in Nat : m \in Waiting' <=> m \in Waiting /\ m # msg
    BY <1>t, <2>1, <2>2 DEF WaitingIs
  <2>5. Waiting' = Waiting \ {msg}
    BY <1>t, <2>4
  <2> QED BY <2>1, <2>3, <2>5 DEF Feed!Deliver
<1>5. CASE UNCHANGED vars
  BY <1>1, <1>5 DEF vars
<1>6. CASE Next
  <2>1. \/ publish \/ (pop /\ queue # << >>) \/ sendData
        \/ UNCHANGED <<queue, msg, pushed, sent>>
    BY <1>6 DEF Next, Run, startThread, startAssign, shutdown, join, bind, loop, pop, popWoken,
                popTimeout, sendTopic
  <2> QED BY <2>1, <1>1, <1>2, <1>3, <1>4 DEF Feed!Next
<1> QED BY <1>5, <1>6

\* publish() and run() implement the lossy feed, whatever the limit of the queue: the order,
\* the losses and the bound on what waits are those of LossyFeed.
THEOREM ImplementsLossyFeed == Spec => ImplementsFeed
<1>1. Init => Feed!Init
  <2> SUFFICES ASSUME Init PROVE pushed = 0 /\ Waiting = {} /\ sent = << >>
    BY DEF Feed!Init
  <2>1. pushed = 0 /\ sent = << >>
    BY DEF Init
  <2> QED BY <2>1 DEF Waiting
<1> QED BY <1>1, QueueInvariant, WaitingLemma, StepRefines, PTL DEF Spec, ImplementsFeed, Feed!Spec
=============================================================================
