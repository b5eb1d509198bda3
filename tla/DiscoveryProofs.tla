--------------------------- MODULE DiscoveryProofs ---------------------------
(***************************************************************************)
(* Proofs about Discovery, for any nodes, any topics, any number of calls  *)
(* and any loss of connections: the two sides of the master's registry     *)
(* never disagree, and the master agrees with every node that does not     *)
(* overlap its calls and whose calls are not lost.                         *)
(***************************************************************************)
EXTENDS Discovery, TLAPS

Kinds == {"pub", "sub"}

\* Every method is of one of the two kinds.
LEMMA KindType == \A m \in Methods : Kind(m) \in Kinds
  BY DEF Methods, Kind, Kinds

(***************************************************************************)
(* The type invariant.                                                     *)
(***************************************************************************)

\* The initial state has the types of TypeOK.
LEMMA TypeInit == Init => TypeOK
  BY DiscoveryAssumption DEF Init, TypeOK, RegistryInit, RegistryType, Id

\* callMaster adds a well-formed call, and its number is one of Id.
LEMMA CallMasterType ==
  ASSUME TypeOK, NEW m \in Methods, NEW n \in Nodes, NEW t \in Topics, callMaster(m, n, t)
  PROVE  /\ issued' \in 0 .. MaxCalls /\ issued + 1 \in Id
         /\ calls' \subseteq Call
         /\ disturbed' \subseteq {"sub", "pub", "find"} \X Nodes \X Topics
  <1>1. issued + 1 \in Id /\ issued' \in 0 .. MaxCalls
    BY DiscoveryAssumption DEF TypeOK, callMaster, Id
  <1>2. calls' \subseteq Call
    <2>1. [id |-> issued + 1, method |-> m, node |-> n, topic |-> t] \in Call
      BY <1>1 DEF Call
    <2> QED  BY <2>1 DEF TypeOK, callMaster
  <1>3. disturbed' \subseteq {"sub", "pub", "find"} \X Nodes \X Topics
    BY KindType DEF TypeOK, callMaster, Kinds
  <1> QED  BY <1>1, <1>2, <1>3

\* A handler of the master keeps the types of the registry.
LEMMA HandlerType ==
  ASSUME RegistryType, NEW n \in Nodes, NEW t \in Topics,
         \/ registerSubscription(n, t) \/ unregisterSubscription(n, t)
         \/ registerPublication(n, t) \/ unregisterPublication(n, t)
  PROVE  RegistryType'
  BY DEF RegistryType, registerSubscription, unregisterSubscription, registerPublication,
         unregisterPublication, subscribe, unsubscribe, publish, unpublish, getOrCreateNode

\* Every step keeps the types.
LEMMA TypeStep == TypeOK /\ [Next]_vars => TypeOK'
  <1> SUFFICES ASSUME TypeOK, [Next]_vars PROVE TypeOK'
    OBVIOUS
  <1> USE DiscoveryAssumption
  <1>1. ASSUME NEW n \in Nodes, NEW t \in Topics, announcePublication(n, t) PROVE TypeOK'
    <2>1. /\ issued' \in 0 .. MaxCalls /\ issued + 1 \in Id /\ calls' \subseteq Call
          /\ disturbed' \subseteq {"sub", "pub", "find"} \X Nodes \X Topics
      BY <1>1, CallMasterType DEF announcePublication, Methods
    <2>2. publication' \in [Nodes -> [Topics -> 0 .. MaxCalls]]
      BY <1>1, <2>1 DEF announcePublication, TypeOK, Id
    <2> QED  BY <1>1, <2>1, <2>2 DEF announcePublication, TypeOK, RegistryType, registry, links
  <1>2. ASSUME NEW n \in Nodes, NEW t \in Topics, withdrawPublication(n, t) PROVE TypeOK'
    <2>1. /\ issued' \in 0 .. MaxCalls /\ calls' \subseteq Call
          /\ disturbed' \subseteq {"sub", "pub", "find"} \X Nodes \X Topics
      BY <1>2, CallMasterType DEF withdrawPublication, Methods
    <2>2. publication' \in [Nodes -> [Topics -> 0 .. MaxCalls]]
      BY <1>2 DEF withdrawPublication, TypeOK
    <2>3. conns' \subseteq Conn
      <3>1. ASSUME NEW k \in conns PROVE [k EXCEPT !.up = @ /\ k.pub # publication[n][t]] \in Conn
        <4>1. k \in Conn
          BY DEF TypeOK
        <4>2. ASSUME NEW b \in BOOLEAN PROVE [k EXCEPT !.up = b] \in Conn
          BY <4>1 DEF Conn
        <4>3. (k.up /\ k.pub # publication[n][t]) \in BOOLEAN
          BY <4>1 DEF Conn
        <4> QED  BY <4>2, <4>3
      <3> QED  BY <1>2, <3>1 DEF withdrawPublication
    <2> QED  BY <1>2, <2>1, <2>2, <2>3 DEF withdrawPublication, TypeOK, RegistryType, registry
  <1>3. ASSUME NEW n \in Nodes, NEW t \in Topics, announceSubscription(n, t) PROVE TypeOK'
    <2>1. /\ issued' \in 0 .. MaxCalls /\ issued + 1 \in Id /\ calls' \subseteq Call
          /\ disturbed' \subseteq {"sub", "pub", "find"} \X Nodes \X Topics
      BY <1>3, CallMasterType DEF announceSubscription, Methods
    <2>2. subscription' \in [Nodes -> [Topics -> 0 .. MaxCalls]]
      BY <1>3, <2>1 DEF announceSubscription, TypeOK, Id
    <2> QED  BY <1>3, <2>1, <2>2 DEF announceSubscription, TypeOK, RegistryType, registry, links
  <1>4. ASSUME NEW n \in Nodes, NEW t \in Topics, withdrawSubscription(n, t) PROVE TypeOK'
    <2>1. /\ issued' \in 0 .. MaxCalls /\ calls' \subseteq Call
          /\ disturbed' \subseteq {"sub", "pub", "find"} \X Nodes \X Topics
      BY <1>4, CallMasterType DEF withdrawSubscription, Methods
    <2>2. subscription' \in [Nodes -> [Topics -> 0 .. MaxCalls]]
      BY <1>4 DEF withdrawSubscription, TypeOK
    <2>3. conns' \subseteq Conn
      BY <1>4 DEF withdrawSubscription, TypeOK
    <2> QED  BY <1>4, <2>1, <2>2, <2>3 DEF withdrawSubscription, TypeOK, RegistryType, registry
  <1>5. ASSUME NEW c \in calls, onReceive(c) PROVE TypeOK'
    <2>1. c.id \in Id /\ c.node \in Nodes /\ c.topic \in Topics
      BY DEF TypeOK, Call
    <2>2. RegistryType'
      BY <1>5, <2>1, HandlerType DEF onReceive, handleSubscription, TypeOK
    <2>3. lookupPublishers(c.topic) \subseteq Nodes
      BY <2>1 DEF TypeOK, RegistryType, lookupPublishers
    <2>4. answers' \subseteq Answer
      BY <1>5, <2>1, <2>3 DEF onReceive, handleSubscription, TypeOK, Answer
    <2> QED  BY <1>5, <2>2, <2>4 DEF onReceive, TypeOK, node, links
  <1>6. ASSUME NEW a \in answers, contactPublishers(a) PROVE TypeOK'
    <2>1. a \in Answer
      BY DEF TypeOK
    <2>2. asks' \subseteq Ask
      BY <1>6, <2>1 DEF contactPublishers, TypeOK, Answer, Ask, Unasked
    <2> QED  BY <1>6, <2>2 DEF contactPublishers, TypeOK, RegistryType, registry, node, links
  <1>7. ASSUME NEW q \in asks, requestTopic(q) PROVE TypeOK'
    <2>1. q \in Ask
      BY DEF TypeOK
    <2>2. publication[q.dest][q.topic] \in 0 .. (MaxCalls + 1)
      BY <2>1 DEF TypeOK, Ask
    <2>3. [q EXCEPT !.uri = publication[q.dest][q.topic]] \in Ask
      BY <2>1, <2>2 DEF Ask
    <2> QED  BY <1>7, <2>3 DEF requestTopic, TypeOK, RegistryType, registry, node, links
  <1>8. ASSUME NEW q \in asks, foundPublisher(q) PROVE TypeOK'
    <2>1. q \in Ask
      BY DEF TypeOK
    <2>2. asks' \subseteq Ask
      BY <1>8 DEF foundPublisher, TypeOK
    <2>3. fault' \in {"none", "break", "dangling"}
      BY <1>8 DEF foundPublisher, start, TypeOK
    <2>4. tcp' \in [Id -> 0 .. MaxCalls] /\ conns' \subseteq Conn
      <3> DEFINE alive == publication[q.dest][q.topic] = q.uri
                 made == /\ tcp' = [tcp EXCEPT ![q.sub] = q.uri]
                         /\ conns' = conns \cup {[sub |-> q.sub, node |-> q.node,
                                topic |-> q.topic, pub |-> q.uri, up |-> alive]}
      <3>1. CASE UNCHANGED links
        BY <3>1 DEF links, TypeOK
      <3>2. CASE q.uri # 0 /\ made
        <4>1. q.uri \in Id
          BY <1>8, <2>1, <3>2 DEF foundPublisher, Unasked, Ask, Id
        <4>2. tcp' \in [Id -> 0 .. MaxCalls]
          BY <3>2, <4>1, <2>1 DEF TypeOK, Id, Ask
        <4>3. q.sub \in Id /\ q.node \in Nodes /\ q.topic \in Topics
          BY <2>1 DEF Ask
        <4>4. alive \in BOOLEAN
          OBVIOUS
        <4> HIDE DEF alive
        <4>5. conns' \subseteq Conn
          BY <3>2, <4>1, <4>3, <4>4 DEF TypeOK, Conn
        <4> QED  BY <4>2, <4>5
      <3>3. start(q) => made \/ UNCHANGED links
        BY DEF start
      <3>4. UNCHANGED links \/ (q.uri # 0 /\ start(q))
        BY <1>8 DEF foundPublisher
      <3> QED  BY <3>1, <3>2, <3>3, <3>4
    <2> QED  BY <1>8, <2>2, <2>3, <2>4 DEF foundPublisher, TypeOK, RegistryType, registry, node
  <1>9. ASSUME NEW k \in conns, onDisconnect(k) \/ receive(k) PROVE TypeOK'
    BY <1>9 DEF onDisconnect, receive, TypeOK, RegistryType, registry, node, rpc, links
  <1>10. ASSUME NEW c \in calls, requestLost(c) PROVE TypeOK'
    <2>1. <<Kind(c.method), c.node, c.topic>> \in {"sub", "pub", "find"} \X Nodes \X Topics
      BY KindType DEF TypeOK, Call, Kinds
    <2> QED  BY <1>10, <2>1 DEF requestLost, TypeOK, RegistryType, registry, node, links
  <1>11. ASSUME NEW a \in answers, answerLost(a) PROVE TypeOK'
    <2>1. <<"find", a.node, a.topic>> \in {"sub", "pub", "find"} \X Nodes \X Topics
      BY DEF TypeOK, Answer
    <2> QED  BY <1>11, <2>1 DEF answerLost, TypeOK, RegistryType, registry, node, links
  <1>12. ASSUME NEW q \in asks, askLost(q) PROVE TypeOK'
    <2>1. <<"find", q.node, q.topic>> \in {"sub", "pub", "find"} \X Nodes \X Topics
      BY DEF TypeOK, Ask
    <2> QED  BY <1>12, <2>1 DEF askLost, TypeOK, RegistryType, registry, node, links
  <1>13. CASE UNCHANGED vars
    BY <1>13 DEF vars, registry, node, rpc, links, TypeOK, RegistryType
  <1> QED
    BY <1>1, <1>2, <1>3, <1>4, <1>5, <1>6, <1>7, <1>8, <1>9, <1>10, <1>11, <1>12, <1>13
    DEF Next, NodeStep, Transfer, Failure, Idle

(***************************************************************************)
(* The registry.                                                           *)
(***************************************************************************)

\* A handler of the master updates both sides of the registry.
LEMMA HandlerInStep ==
  ASSUME RegistryType, RegistryInStep, NEW n \in Nodes, NEW t \in Topics,
         \/ registerSubscription(n, t) \/ unregisterSubscription(n, t)
         \/ registerPublication(n, t) \/ unregisterPublication(n, t)
  PROVE  RegistryInStep'
  BY DEF RegistryType, RegistryInStep, registerSubscription, unregisterSubscription,
         registerPublication, unregisterPublication, subscribe, unsubscribe, publish,
         unpublish, getOrCreateNode

\* Only the handlers of the master change the registry.
LEMMA RegistryStep == TypeOK /\ RegistryInStep /\ [Next]_vars => RegistryInStep'
  <1> SUFFICES ASSUME TypeOK, RegistryInStep, [Next]_vars PROVE RegistryInStep'
    OBVIOUS
  <1>1. ASSUME NEW c \in calls, onReceive(c) PROVE RegistryInStep'
    <2>1. c.node \in Nodes /\ c.topic \in Topics
      BY DEF TypeOK, Call
    <2> QED  BY <1>1, <2>1, HandlerInStep DEF onReceive, handleSubscription, TypeOK
  <1>2. CASE UNCHANGED registry
    BY <1>2 DEF registry, RegistryInStep
  <1>3. UNCHANGED registry \/ \E c \in calls : onReceive(c)
    BY DEF Next, NodeStep, Transfer, Failure, Idle, vars, announcePublication,
       withdrawPublication, announceSubscription, withdrawSubscription, contactPublishers,
       requestTopic, foundPublisher, onDisconnect, receive, requestLost, answerLost, askLost
  <1> QED  BY <1>1, <1>2, <1>3

(***************************************************************************)
(* The agreement between master and nodes, for one registration.           *)
(***************************************************************************)

\* The two invariants for one kind, node and topic.
AgreesOn(kind, n, t) ==
  <<kind, n, t>> \notin disturbed =>
    /\ Pending(kind, n, t) = {} => (Known(kind, n, t) <=> Local(kind, n, t))
    /\ \A c \in Pending(kind, n, t) : On(c.method) <=> Local(kind, n, t)
    /\ \A c, d \in Pending(kind, n, t) : c = d

\* The two invariants say AgreesOn of every registration.
LEMMA Pointwise ==
  (AgreesUnlessDisturbed /\ OneCallEach) <=>
    \A kind \in Kinds, n \in Nodes, t \in Topics : AgreesOn(kind, n, t)
  BY DEF AgreesUnlessDisturbed, OneCallEach, AgreesOn, Kinds

\* A step that changes none of it, and forgets no disturbance, keeps AgreesOn.
LEMMA AgreesFrame ==
  ASSUME NEW kind \in Kinds, NEW n \in Nodes, NEW t \in Topics,
         AgreesOn(kind, n, t),
         Pending(kind, n, t)' = Pending(kind, n, t),
         Known(kind, n, t)' <=> Known(kind, n, t),
         Local(kind, n, t)' <=> Local(kind, n, t),
         <<kind, n, t>> \in disturbed => <<kind, n, t>> \in disturbed'
  PROVE  AgreesOn(kind, n, t)'
  BY DEF AgreesOn

\* callMaster concerns one registration: the calls of the others stay as they are.
LEMMA CallMasterOther ==
  ASSUME NEW m \in Methods, NEW x \in Nodes, NEW y \in Topics, callMaster(m, x, y),
         NEW kind \in Kinds, NEW n \in Nodes, NEW t \in Topics,
         <<kind, n, t>> # <<Kind(m), x, y>>
  PROVE  Pending(kind, n, t)' = Pending(kind, n, t)
  <1> DEFINE new == [id |-> issued + 1, method |-> m, node |-> x, topic |-> y]
  <1>1. calls' = calls \cup {new} /\ new.method = m /\ new.node = x /\ new.topic = y
    BY DEF callMaster
  <1> QED  BY <1>1 DEF Pending

\* If a registration is not disturbed after a call, the new call is the only one.
LEMMA CallMasterOwn ==
  ASSUME NEW m \in Methods, NEW x \in Nodes, NEW y \in Topics, callMaster(m, x, y),
         <<Kind(m), x, y>> \notin disturbed'
  PROVE  Pending(Kind(m), x, y)' = {[id |-> issued + 1, method |-> m, node |-> x, topic |-> y]}
  <1> DEFINE new == [id |-> issued + 1, method |-> m, node |-> x, topic |-> y]
  <1>1. calls' = calls \cup {new} /\ new.method = m /\ new.node = x /\ new.topic = y
    BY DEF callMaster
  <1>2. Pending(Kind(m), x, y) = {}
    BY DEF callMaster
  <1> QED  BY <1>1, <1>2 DEF Pending

\* A node that calls the master about a registration is, from then on, in the state that
\* the call tells.
LEMMA AgreesCall ==
  ASSUME TypeOK, NEW m \in Methods, NEW x \in Nodes, NEW y \in Topics, callMaster(m, x, y),
         UNCHANGED registry,
         \A k \in Kinds, n \in Nodes, t \in Topics :
           Local(k, n, t)' <=> IF <<k, n, t>> = <<Kind(m), x, y>> THEN On(m) ELSE Local(k, n, t),
         NEW kind \in Kinds, NEW n \in Nodes, NEW t \in Topics, AgreesOn(kind, n, t)
  PROVE  AgreesOn(kind, n, t)'
  <1>1. Known(kind, n, t)' <=> Known(kind, n, t)
    BY DEF Known, registry
  <1>2. CASE <<kind, n, t>> # <<Kind(m), x, y>>
    <2>1. Pending(kind, n, t)' = Pending(kind, n, t)
      BY <1>2, CallMasterOther
    <2>2. <<kind, n, t>> \in disturbed => <<kind, n, t>> \in disturbed'
      BY DEF callMaster
    <2>3. Local(kind, n, t)' <=> Local(kind, n, t)
      BY <1>2
    <2> QED  BY <1>1, <2>1, <2>2, <2>3, AgreesFrame
  <1>3. CASE <<kind, n, t>> = <<Kind(m), x, y>>
    <2> DEFINE new == [id |-> issued + 1, method |-> m, node |-> x, topic |-> y]
    <2> SUFFICES ASSUME <<kind, n, t>> \notin disturbed'
                 PROVE  AgreesOn(kind, n, t)'
      BY DEF AgreesOn
    <2>1. Pending(kind, n, t)' = {new} /\ new.method = m
      <3>1. kind = Kind(m) /\ n = x /\ t = y
        BY <1>3
      <3> QED  BY <3>1, CallMasterOwn
    <2>2. Local(kind, n, t)' <=> On(m)
      BY <1>3
    <2> HIDE DEF new
    <2> QED  BY <2>1, <2>2 DEF AgreesOn
  <1> QED  BY <1>2, <1>3

\* The master that handles a call knows what the call tells, and nothing else changes.
LEMMA HandlerKnown ==
  ASSUME TypeOK, NEW c \in calls, onReceive(c),
         NEW kind \in Kinds, NEW n \in Nodes, NEW t \in Topics
  PROVE  Known(kind, n, t)' <=> IF <<kind, n, t>> = <<Kind(c.method), c.node, c.topic>>
                                  THEN On(c.method) ELSE Known(kind, n, t)
  <1>1. c.node \in Nodes /\ c.topic \in Topics
    BY DEF TypeOK, Call
  <1> USE <1>1 DEF TypeOK, RegistryType, Known, Kinds, Kind, On
  <1>2. CASE c.method = "registerSubscription" /\ registerSubscription(c.node, c.topic)
    BY <1>2 DEF registerSubscription, subscribe
  <1>3. CASE c.method = "unregisterSubscription" /\ unregisterSubscription(c.node, c.topic)
    BY <1>3 DEF unregisterSubscription, unsubscribe
  <1>4. CASE c.method = "registerPublication" /\ registerPublication(c.node, c.topic)
    BY <1>4 DEF registerPublication, publish
  <1>5. CASE c.method = "unregisterPublication" /\ unregisterPublication(c.node, c.topic)
    BY <1>5 DEF unregisterPublication, unpublish
  <1> QED  BY <1>2, <1>3, <1>4, <1>5 DEF onReceive, handleSubscription

\* The call that is handled was the only one of its registration.
LEMMA AgreesReceive ==
  ASSUME TypeOK, NEW c \in calls, onReceive(c),
         NEW kind \in Kinds, NEW n \in Nodes, NEW t \in Topics, AgreesOn(kind, n, t)
  PROVE  AgreesOn(kind, n, t)'
  <1>1. Local(kind, n, t)' <=> Local(kind, n, t)
    BY DEF onReceive, node, Local
  <1>2. disturbed' = disturbed /\ calls' = calls \ {c}
    BY DEF onReceive
  <1>3. CASE <<kind, n, t>> # <<Kind(c.method), c.node, c.topic>>
    <2>1. Pending(kind, n, t)' = Pending(kind, n, t)
      BY <1>2, <1>3 DEF Pending
    <2>2. Known(kind, n, t)' <=> Known(kind, n, t)
      BY <1>3, HandlerKnown
    <2> QED  BY <1>1, <1>2, <2>1, <2>2, AgreesFrame
  <1>4. CASE <<kind, n, t>> = <<Kind(c.method), c.node, c.topic>>
    <2> SUFFICES ASSUME <<kind, n, t>> \notin disturbed
                 PROVE  AgreesOn(kind, n, t)'
      BY <1>2 DEF AgreesOn
    <2>1. kind = Kind(c.method) /\ n = c.node /\ t = c.topic
      BY <1>4
    <2>2. c \in Pending(kind, n, t)
      BY <2>1 DEF Pending
    <2>3. On(c.method) <=> Local(kind, n, t)
      BY <2>2 DEF AgreesOn
    <2>4. Pending(kind, n, t)' = {}
      <3>1. \A d \in Pending(kind, n, t) : d = c
        BY <2>2 DEF AgreesOn
      <3> QED  BY <1>2, <3>1 DEF Pending
    <2>5. Known(kind, n, t)' <=> On(c.method)
      BY <1>4, HandlerKnown
    <2> QED  BY <1>1, <2>3, <2>4, <2>5 DEF AgreesOn
  <1> QED  BY <1>3, <1>4

\* A call that is lost disturbs its registration.
LEMMA AgreesLost ==
  ASSUME TypeOK, NEW c \in calls, requestLost(c),
         NEW kind \in Kinds, NEW n \in Nodes, NEW t \in Topics, AgreesOn(kind, n, t)
  PROVE  AgreesOn(kind, n, t)'
  <1>1. CASE <<kind, n, t>> # <<Kind(c.method), c.node, c.topic>>
    <2>1. Pending(kind, n, t)' = Pending(kind, n, t)
      BY <1>1 DEF requestLost, Pending
    <2>2. Known(kind, n, t)' <=> Known(kind, n, t)
      BY DEF requestLost, registry, Known
    <2>3. Local(kind, n, t)' <=> Local(kind, n, t)
      BY DEF requestLost, node, Local
    <2>4. <<kind, n, t>> \in disturbed => <<kind, n, t>> \in disturbed'
      BY DEF requestLost
    <2> QED  BY <2>1, <2>2, <2>3, <2>4, AgreesFrame
  <1>2. CASE <<kind, n, t>> = <<Kind(c.method), c.node, c.topic>>
    BY <1>2 DEF requestLost, AgreesOn
  <1> QED  BY <1>1, <1>2

\* Every step keeps the agreement.
LEMMA AgreesStep ==
  ASSUME TypeOK, [Next]_vars,
         NEW kind \in Kinds, NEW n \in Nodes, NEW t \in Topics, AgreesOn(kind, n, t)
  PROVE  AgreesOn(kind, n, t)'
  <1> USE DiscoveryAssumption
  <1>1. ASSUME NEW x \in Nodes, NEW y \in Topics, announcePublication(x, y)
        PROVE  AgreesOn(kind, n, t)'
    <2>1. \A k \in Kinds, i \in Nodes, j \in Topics :
            Local(k, i, j)' <=> IF <<k, i, j>> = <<Kind("registerPublication"), x, y>>
                                  THEN On("registerPublication") ELSE Local(k, i, j)
      BY <1>1 DEF announcePublication, TypeOK, Local, On, Kind, Kinds
    <2>2. callMaster("registerPublication", x, y) /\ UNCHANGED registry
      BY <1>1 DEF announcePublication
    <2> QED  BY <2>1, <2>2, AgreesCall DEF Methods
  <1>2. ASSUME NEW x \in Nodes, NEW y \in Topics, withdrawPublication(x, y)
        PROVE  AgreesOn(kind, n, t)'
    <2>1. \A k \in Kinds, i \in Nodes, j \in Topics :
            Local(k, i, j)' <=> IF <<k, i, j>> = <<Kind("unregisterPublication"), x, y>>
                                  THEN On("unregisterPublication") ELSE Local(k, i, j)
      BY <1>2 DEF withdrawPublication, TypeOK, Local, On, Kind, Kinds
    <2>2. callMaster("unregisterPublication", x, y) /\ UNCHANGED registry
      BY <1>2 DEF withdrawPublication
    <2> QED  BY <2>1, <2>2, AgreesCall DEF Methods
  <1>3. ASSUME NEW x \in Nodes, NEW y \in Topics, announceSubscription(x, y)
        PROVE  AgreesOn(kind, n, t)'
    <2>1. \A k \in Kinds, i \in Nodes, j \in Topics :
            Local(k, i, j)' <=> IF <<k, i, j>> = <<Kind("registerSubscription"), x, y>>
                                  THEN On("registerSubscription") ELSE Local(k, i, j)
      BY <1>3 DEF announceSubscription, TypeOK, Local, On, Kind, Kinds
    <2>2. callMaster("registerSubscription", x, y) /\ UNCHANGED registry
      BY <1>3 DEF announceSubscription
    <2> QED  BY <2>1, <2>2, AgreesCall DEF Methods
  <1>4. ASSUME NEW x \in Nodes, NEW y \in Topics, withdrawSubscription(x, y)
        PROVE  AgreesOn(kind, n, t)'
    <2>1. \A k \in Kinds, i \in Nodes, j \in Topics :
            Local(k, i, j)' <=> IF <<k, i, j>> = <<Kind("unregisterSubscription"), x, y>>
                                  THEN On("unregisterSubscription") ELSE Local(k, i, j)
      BY <1>4 DEF withdrawSubscription, TypeOK, Local, On, Kind, Kinds
    <2>2. callMaster("unregisterSubscription", x, y) /\ UNCHANGED registry
      BY <1>4 DEF withdrawSubscription
    <2> QED  BY <2>1, <2>2, AgreesCall DEF Methods
  <1>5. ASSUME NEW c \in calls, onReceive(c) PROVE AgreesOn(kind, n, t)'
    BY <1>5, AgreesReceive
  <1>6. ASSUME NEW c \in calls, requestLost(c) PROVE AgreesOn(kind, n, t)'
    BY <1>6, AgreesLost
  <1>7. CASE UNCHANGED <<registry, node, calls>> /\ disturbed \subseteq disturbed'
    <2>1. /\ Pending(kind, n, t)' = Pending(kind, n, t)
          /\ Known(kind, n, t)' <=> Known(kind, n, t)
          /\ Local(kind, n, t)' <=> Local(kind, n, t)
          /\ <<kind, n, t>> \in disturbed => <<kind, n, t>> \in disturbed'
      BY <1>7 DEF registry, node, Pending, Known, Local
    <2> QED  BY <2>1, AgreesFrame
  <1>8. \/ UNCHANGED <<registry, node, calls>> /\ disturbed \subseteq disturbed'
        \/ \E c \in calls : onReceive(c) \/ requestLost(c)
        \/ NodeStep
    BY DEF Next, Transfer, Failure, Idle, vars, rpc, contactPublishers,
       requestTopic, foundPublisher, onDisconnect, receive, answerLost, askLost
  <1> QED  BY <1>1, <1>2, <1>3, <1>4, <1>5, <1>6, <1>7, <1>8 DEF NodeStep

(***************************************************************************)
(* The theorems.                                                           *)
(***************************************************************************)

\* The inductive invariant holds initially: nothing is registered, nobody has called.
LEMMA InvInit == Init => IndInv
  <1> SUFFICES ASSUME Init PROVE IndInv
    OBVIOUS
  <1>1. RegistryInStep
    BY DEF Init, RegistryInit, RegistryInStep
  <1>2. AgreesUnlessDisturbed /\ OneCallEach
    BY DEF Init, RegistryInit, AgreesUnlessDisturbed, OneCallEach, Pending, Known, Local
  <1> QED  BY <1>1, <1>2, TypeInit DEF IndInv

\* Every step keeps the inductive invariant.
LEMMA InvStep == IndInv /\ [Next]_vars => IndInv'
  <1> SUFFICES ASSUME IndInv, [Next]_vars PROVE IndInv'
    OBVIOUS
  <1>1. TypeOK /\ RegistryInStep /\ TypeOK' /\ RegistryInStep'
    BY TypeStep, RegistryStep DEF IndInv
  <1>2. \A kind \in Kinds, n \in Nodes, t \in Topics : AgreesOn(kind, n, t)
    BY Pointwise DEF IndInv
  <1>3. \A kind \in Kinds, n \in Nodes, t \in Topics : AgreesOn(kind, n, t)'
    BY <1>1, <1>2, AgreesStep
  <1>4. AgreesUnlessDisturbed' /\ OneCallEach'
    BY <1>3 DEF AgreesUnlessDisturbed, OneCallEach, AgreesOn, Kinds
  <1> QED  BY <1>1, <1>4 DEF IndInv

\* The inductive invariant of Discovery: types, the registry, the agreement between the
\* master and the nodes, and one call at a time for each undisturbed registration.
THEOREM DiscoveryInvariant == Spec => []IndInv
  BY InvInit, InvStep, PTL DEF Spec

\* The lists that the master keeps by node and by topic (NodeInfo, TopicInfo) never
\* disagree, and only nodes in nodes_ are in them.
THEOREM RegistryConsistent == Spec => []RegistryInStep
  <1>1. IndInv => RegistryInStep
    BY DEF IndInv
  <1> QED  BY DiscoveryInvariant, <1>1, PTL

\* A node whose calls through callMaster neither overlap nor are lost is listed by the
\* master exactly as long as it publishes or subscribes, but for the call on its way.
THEOREM MasterAgreesUnlessDisturbed == Spec => []AgreesUnlessDisturbed
  <1>1. IndInv => AgreesUnlessDisturbed
    BY DEF IndInv
  <1> QED  BY DiscoveryInvariant, <1>1, PTL
=============================================================================
