------------------------------ MODULE Discovery ------------------------------
(***************************************************************************)
(* How subscribers find publishers: the master (module Master), the nodes  *)
(* (TopicManager with MasterRegistration, registration.hpp), Subscription  *)
(* (pubsub.hpp) and TCPSubscribe (pubsub_tcp.hpp).                         *)
(*                                                                         *)
(* Every call to the master, and every requestTopic to a publisher, is     *)
(* made on a connection of its own: callMaster puts the request into the   *)
(* queue of a new transport and returns.  Requests of one node therefore   *)
(* reach the master in any order, and a call whose connection fails is     *)
(* dropped without a retry.                                                *)
(*                                                                         *)
(* A Publication (its endpoint) and a Subscription are named by the number *)
(* of the call that registered them, so that a new one is never mistaken   *)
(* for an old one of the same topic; 0 is none.                            *)
(***************************************************************************)
EXTENDS Master, Naturals

CONSTANTS
  PubNodes, SubNodes,     \* the nodes that publish, and that subscribe
  Lossy,                  \* connections of calls may fail
  MaxCalls                \* bound: calls to the master

ASSUME DiscoveryAssumption ==
  /\ PubNodes \subseteq Nodes
  /\ SubNodes \subseteq Nodes
  /\ Lossy \in BOOLEAN
  /\ MaxCalls \in Nat

VARIABLES
  publication,      \* TopicManager::publications_ of each node, by topic
  subscription,     \* TopicManager::subscriptions_ of each node, by topic
  issued,           \* calls made to the master
  calls,            \* requests on their way to the master
  answers,          \* responses to registerSubscription on their way back
  asks,             \* requestTopic calls, and their responses once uri is known
  tcp,              \* tcp_ of the TCPSubscribe of each Subscription: the publication
  conns,            \* connections between Subscriptions and Publications
  fault,            \* a node was stopped by ROS_BREAK, or used a deleted object
  disturbed         \* history: registrations with overlapping or lost calls, and ("find")
                    \* subscriptions that have lost an answer about publishers

node == <<publication, subscription>>
rpc == <<issued, calls, answers, asks>>
links == <<tcp, conns>>
vars == <<registry, node, rpc, links, fault, disturbed>>

Id == 1 .. MaxCalls
Methods == {"registerSubscription", "unregisterSubscription",
            "registerPublication", "unregisterPublication"}
Kind(method) ==
  IF method \in {"registerSubscription", "unregisterSubscription"} THEN "sub" ELSE "pub"
Unasked == MaxCalls + 1       \* uri of a requestTopic call that is not yet answered

Call == [id : Id, method : Methods, node : Nodes, topic : Topics]
Answer == [sub : Id, node : Nodes, topic : Topics, uris : SUBSET Nodes]
Ask == [sub : Id, node : Nodes, topic : Topics, dest : Nodes, uri : 0 .. (MaxCalls + 1)]
Conn == [sub : Id, node : Nodes, topic : Topics, pub : Id, up : BOOLEAN]

\* The types of the registry, of the nodes and of everything on its way between them.
TypeOK ==
  /\ RegistryType
  /\ publication \in [Nodes -> [Topics -> 0 .. MaxCalls]]
  /\ subscription \in [Nodes -> [Topics -> 0 .. MaxCalls]]
  /\ issued \in 0 .. MaxCalls
  /\ calls \subseteq Call
  /\ answers \subseteq Answer
  /\ asks \subseteq Ask
  /\ tcp \in [Id -> 0 .. MaxCalls]
  /\ conns \subseteq Conn
  /\ fault \in {"none", "break", "dangling"}
  /\ disturbed \subseteq {"sub", "pub", "find"} \X Nodes \X Topics

Init ==
  /\ RegistryInit
  /\ publication = [n \in Nodes |-> [t \in Topics |-> 0]]
  /\ subscription = [n \in Nodes |-> [t \in Topics |-> 0]]
  /\ issued = 0 /\ calls = {} /\ answers = {} /\ asks = {}
  /\ tcp = [i \in Id |-> 0] /\ conns = {}
  /\ fault = "none" /\ disturbed = {}

(***************************************************************************)
(* The nodes.                                                              *)
(***************************************************************************)

\* The calls of one kind, node and topic that are on their way.
Pending(kind, n, t) == {c \in calls : Kind(c.method) = kind /\ c.node = n /\ c.topic = t}

\* callMaster: a new transport with the request in its queue.
callMaster(method, n, t) ==
  /\ issued < MaxCalls
  /\ issued' = issued + 1
  /\ calls' = calls \cup {[id |-> issued + 1, method |-> method, node |-> n, topic |-> t]}
  /\ disturbed' = IF Pending(Kind(method), n, t) = {}
                    THEN disturbed
                    ELSE disturbed \cup {<<Kind(method), n, t>>}

\* TopicManager::registerPublication, on the first publish() to the topic.
announcePublication(n, t) ==
  /\ n \in PubNodes
  /\ publication[n][t] = 0
  /\ callMaster("registerPublication", n, t)
  /\ publication' = [publication EXCEPT ![n][t] = issued + 1]
  /\ UNCHANGED <<registry, subscription, answers, asks, links, fault>>

\* TopicManager::unregisterPublication that does not tell the master.
withdrawPublicationSilent(n, t) ==
  /\ publication[n][t] # 0
  /\ publication' = [publication EXCEPT ![n][t] = 0]
  /\ conns' = {[k EXCEPT !.up = @ /\ k.pub # publication[n][t]] : k \in conns}
  /\ UNCHANGED <<registry, subscription, rpc, tcp, fault, disturbed>>

\* TopicManager::unregisterPublication: Publication::shutdown closes the connections
\* that were accepted, which their subscribers see later.
withdrawPublication(n, t) ==
  /\ publication[n][t] # 0
  /\ callMaster("unregisterPublication", n, t)
  /\ publication' = [publication EXCEPT ![n][t] = 0]
  /\ conns' = {[k EXCEPT !.up = @ /\ k.pub # publication[n][t]] : k \in conns}
  /\ UNCHANGED <<registry, subscription, answers, asks, tcp, fault>>

\* TopicManager::subscribe; the callback of the call has the raw pointer of the Subscription.
announceSubscription(n, t) ==
  /\ n \in SubNodes
  /\ subscription[n][t] = 0
  /\ callMaster("registerSubscription", n, t)
  /\ subscription' = [subscription EXCEPT ![n][t] = issued + 1]
  /\ UNCHANGED <<registry, publication, answers, asks, links, fault>>

\* TopicManager::unregisterSubscription: TCPSubscribe::shutdown closes tcp_, and the
\* Subscription is deleted.
withdrawSubscription(n, t) ==
  /\ subscription[n][t] # 0
  /\ callMaster("unregisterSubscription", n, t)
  /\ subscription' = [subscription EXCEPT ![n][t] = 0]
  /\ conns' = {k \in conns : ~(k.sub = subscription[n][t] /\ k.pub = tcp[k.sub])}
  /\ UNCHANGED <<registry, publication, answers, asks, tcp, fault>>

(***************************************************************************)
(* The master.  The responses that only run emptyCallback are left out.    *)
(***************************************************************************)

handleSubscription(c) ==
  /\ registerSubscription(c.node, c.topic)
  /\ answers' = answers \cup {[sub |-> c.id, node |-> c.node, topic |-> c.topic,
                               uris |-> lookupPublishers(c.topic)]}

\* MultiServiceManager::onReceive in the master.
onReceive(c) ==
  /\ \/ /\ c.method = "registerSubscription"
        /\ handleSubscription(c)
     \/ /\ c.method = "unregisterSubscription"
        /\ unregisterSubscription(c.node, c.topic)
        /\ UNCHANGED answers
     \/ /\ c.method = "registerPublication"
        /\ registerPublication(c.node, c.topic)
        /\ UNCHANGED answers
     \/ /\ c.method = "unregisterPublication"
        /\ unregisterPublication(c.node, c.topic)
        /\ UNCHANGED answers
  /\ calls' = calls \ {c}
  /\ UNCHANGED <<node, issued, asks, links, fault, disturbed>>

(***************************************************************************)
(* From the publishers' nodes to a connection.                             *)
(***************************************************************************)

\* contactPublishers that stops after one publisher.
contactPublishersOne(a) ==
  /\ answers' = answers \ {a}
  /\ asks' = asks \cup {[sub |-> a.sub, node |-> a.node, topic |-> a.topic, dest |-> m,
                         uri |-> Unasked] : m \in {x \in a.uris : x = CHOOSE y \in a.uris : TRUE}}
  /\ UNCHANGED <<registry, node, issued, calls, links, fault, disturbed>>

\* registerSubscriptionCb and contactPublishers: one requestTopic call per publisher.
contactPublishers(a) ==
  /\ answers' = answers \ {a}
  /\ asks' = asks \cup {[sub |-> a.sub, node |-> a.node, topic |-> a.topic, dest |-> m,
                         uri |-> Unasked] : m \in a.uris}
  /\ UNCHANGED <<registry, node, issued, calls, links, fault, disturbed>>

\* TopicManager::requestTopic at the publisher: the endpoints of the topic, or none.
requestTopic(q) ==
  /\ q.uri = Unasked
  /\ asks' = (asks \ {q}) \cup {[q EXCEPT !.uri = publication[q.dest][q.topic]]}
  /\ UNCHANGED <<registry, node, issued, calls, answers, links, fault, disturbed>>

\* TCPSubscribe::start: tcp_ is replaced, and the connection is made if the endpoint still
\* listens.  If not, connect() either fails at once, which ends in ROS_BREAK, or the
\* connection is refused later.
start(q) ==
  LET alive == publication[q.dest][q.topic] = q.uri
  IN  \/ /\ tcp' = [tcp EXCEPT ![q.sub] = q.uri]
         /\ conns' = conns \cup {[sub |-> q.sub, node |-> q.node, topic |-> q.topic,
                                  pub |-> q.uri, up |-> alive]}
         /\ UNCHANGED fault
      \/ /\ ~alive
         /\ fault' = "break"
         /\ UNCHANGED links

\* The response to requestTopic: Subscription::foundPublisher, through the raw pointer.
foundPublisher(q) ==
  /\ q.uri # Unasked
  /\ asks' = asks \ {q}
  /\ \/ /\ subscription[q.node][q.topic] # q.sub
        /\ fault' = "dangling"
        /\ UNCHANGED links
     \/ /\ subscription[q.node][q.topic] = q.sub
        /\ q.uri # 0
        /\ start(q)
     \/ /\ subscription[q.node][q.topic] = q.sub
        /\ q.uri = 0                           \* "No match found for discovery"
        /\ UNCHANGED <<links, fault>>
  /\ UNCHANGED <<registry, node, issued, calls, answers, disturbed>>

\* The poll thread of a subscriber finds a connection closed by its publisher.
\* TCPSubscribe::onDisconnect closes tcp_, whichever connection that is by now.
onDisconnect(k) ==
  /\ ~k.up
  /\ IF subscription[k.node][k.topic] = k.sub
       THEN /\ conns' = {l \in conns \ {k} : ~(l.sub = k.sub /\ l.pub = tcp[k.sub])}
            /\ UNCHANGED fault
       ELSE /\ conns' = conns \ {k}
            /\ fault' = "dangling"
  /\ UNCHANGED <<registry, node, rpc, tcp, disturbed>>

\* A message arrives on a connection whose TCPSubscribe has been deleted.  (On the others
\* TCPSubscribe::receive hands it to the application, which changes nothing here.)
receive(k) ==
  /\ k.up
  /\ subscription[k.node][k.topic] # k.sub
  /\ fault' = "dangling"
  /\ UNCHANGED <<registry, node, rpc, links, disturbed>>

(***************************************************************************)
(* Failures.                                                               *)
(***************************************************************************)

\* callMaster ignores the result of connect(), and MultiServiceClient::removeConnection
\* deletes the call: nobody is told.
requestLost(c) ==
  /\ Lossy
  /\ calls' = calls \ {c}
  /\ disturbed' = disturbed \cup {<<Kind(c.method), c.node, c.topic>>}
  /\ UNCHANGED <<registry, node, issued, answers, asks, links, fault>>

answerLost(a) ==
  /\ Lossy
  /\ answers' = answers \ {a}
  /\ disturbed' = disturbed \cup {<<"find", a.node, a.topic>>}
  /\ UNCHANGED <<registry, node, issued, calls, asks, links, fault>>

askLost(q) ==
  /\ Lossy
  /\ asks' = asks \ {q}
  /\ disturbed' = disturbed \cup {<<"find", q.node, q.topic>>}
  /\ UNCHANGED <<registry, node, issued, calls, answers, links, fault>>

NodeStep == \E n \in Nodes, t \in Topics :
  \/ announcePublication(n, t) \/ withdrawPublication(n, t)
  \/ announceSubscription(n, t) \/ withdrawSubscription(n, t)

Transfer ==
  \/ \E c \in calls : onReceive(c)
  \/ \E a \in answers : contactPublishers(a)
  \/ \E q \in asks : requestTopic(q) \/ foundPublisher(q)
  \/ \E k \in conns : onDisconnect(k) \/ receive(k)

Failure ==
  \/ \E c \in calls : requestLost(c)
  \/ \E a \in answers : answerLost(a)
  \/ \E q \in asks : askLost(q)

\* Nothing is on its way, and nobody makes another call.
Idle ==
  /\ \/ fault # "none"
     \/ issued = MaxCalls /\ calls = {} /\ answers = {} /\ asks = {}
  /\ UNCHANGED vars

Next ==
  \/ fault = "none" /\ (NodeStep \/ Transfer \/ Failure)
  \/ Idle

Spec == Init /\ [][Next]_vars

\* The poll threads of the master and of the nodes run; nodes need not call anything.
FairSpec ==
  /\ Spec
  /\ WF_vars(fault = "none" /\ Transfer)

(***************************************************************************)
(* Properties.                                                             *)
(***************************************************************************)

\* Whether the node itself publishes or subscribes, and whether the master thinks so.
Local(kind, n, t) == IF kind = "pub" THEN publication[n][t] # 0 ELSE subscription[n][t] # 0
Known(kind, n, t) == IF kind = "pub" THEN n \in publishers[t] ELSE n \in subscribers[t]
On(method) == method \in {"registerPublication", "registerSubscription"}

\* As long as a node waits for each of its calls on a topic to reach the master before it
\* makes the next one, the master is right about the node once no call is on its way,
\* and is about to be told what it does not know while there is one.
AgreesUnlessDisturbed ==
  \A kind \in {"pub", "sub"}, n \in Nodes, t \in Topics :
    <<kind, n, t>> \notin disturbed =>
      /\ Pending(kind, n, t) = {} => (Known(kind, n, t) <=> Local(kind, n, t))
      /\ \A c \in Pending(kind, n, t) : On(c.method) <=> Local(kind, n, t)

\* What makes the above inductive: the call on its way is the only one.
OneCallEach ==
  \A kind \in {"pub", "sub"}, n \in Nodes, t \in Topics :
    <<kind, n, t>> \notin disturbed =>
      \A c, d \in Pending(kind, n, t) : c = d

\* The inductive invariant: the two indexes of the master agree, and so do the master and
\* each node that waits for its calls, which has at most one call of a kind on its way.
IndInv ==
  /\ TypeOK
  /\ RegistryInStep
  /\ AgreesUnlessDisturbed
  /\ OneCallEach

Connected(sub, pub) == \E k \in conns : k.sub = sub /\ k.pub = pub

\* A publisher that the master names to a new subscription is reached, unless one of the two
\* goes away, an answer is lost or a node is stopped.
NamedPublisherIsReached ==
  \A n \in SubNodes, m \in PubNodes, t \in Topics, s \in Id, p \in Id :
    (/\ \E a \in answers : a.sub = s /\ a.node = n /\ a.topic = t /\ m \in a.uris
     /\ publication[m][t] = p /\ subscription[n][t] = s)
      ~> \/ Connected(s, p)
         \/ publication[m][t] # p \/ subscription[n][t] # s \/ fault # "none"
         \/ <<"find", n, t>> \in disturbed

(***************************************************************************)
(* What the repository says and the code does not keep: not invariants.    *)
(* The README describes the behaviours that TLC finds against them.        *)
(***************************************************************************)

\* MasterRegistration informs the master of what the node publishes: with no connection
\* failing and no call on its way, the master lists the publishers there are.
MasterAgrees ==
  calls = {} => \A n \in Nodes, t \in Topics : n \in publishers[t] <=> publication[n][t] # 0

\* Responses and socket events are only delivered to a Subscription that still exists.
NoDangling == fault # "dangling"

\* A publisher and a subscriber of one topic find each other, whichever came first.
SubscriberFindsPublisher ==
  \A n \in SubNodes, m \in PubNodes, t \in Topics, s \in Id, p \in Id :
    (publication[m][t] = p /\ subscription[n][t] = s)
      ~> \/ Connected(s, p)
         \/ publication[m][t] # p \/ subscription[n][t] # s \/ fault # "none"
=============================================================================
