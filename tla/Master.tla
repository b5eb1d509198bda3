-------------------------------- MODULE Master --------------------------------
(***************************************************************************)
(* The registry of the master (master.cpp): which node subscribes to and   *)
(* publishes which topic.  It is kept twice, by node (NodeInfo) and by     *)
(* topic (TopicInfo).  The handlers are called one at a time, by the poll  *)
(* thread under the mutex of MultiServiceManager, so each is one step.     *)
(* Module Discovery composes them with the nodes that call them.           *)
(***************************************************************************)
CONSTANTS Nodes, Topics

VARIABLES
  nodes,              \* nodes_: the nodes that have called
  subscriptions,      \* NodeInfo::subscriptions_ of each node
  publications,       \* NodeInfo::publications_ of each node
  subscribers,        \* TopicInfo::subscribers of each topic
  publishers          \* TopicInfo::publishers of each topic

registry == <<nodes, subscriptions, publications, subscribers, publishers>>

RegistryType ==
  /\ nodes \subseteq Nodes
  /\ subscriptions \in [Nodes -> SUBSET Topics]
  /\ publications \in [Nodes -> SUBSET Topics]
  /\ subscribers \in [Topics -> SUBSET Nodes]
  /\ publishers \in [Topics -> SUBSET Nodes]

RegistryInit ==
  /\ nodes = {}
  /\ subscriptions = [n \in Nodes |-> {}] /\ publications = [n \in Nodes |-> {}]
  /\ subscribers = [t \in Topics |-> {}] /\ publishers = [t \in Topics |-> {}]

getOrCreateNode(n) == nodes' = nodes \cup {n}

\* The pair of sets that NodeInfo::subscribe and its three siblings update.
subscribe(n, t) ==
  /\ subscriptions' = [subscriptions EXCEPT ![n] = @ \cup {t}]
  /\ subscribers' = [subscribers EXCEPT ![t] = @ \cup {n}]

unsubscribe(n, t) ==
  /\ subscriptions' = [subscriptions EXCEPT ![n] = @ \ {t}]
  /\ subscribers' = [subscribers EXCEPT ![t] = @ \ {n}]

publish(n, t) ==
  /\ publications' = [publications EXCEPT ![n] = @ \cup {t}]
  /\ publishers' = [publishers EXCEPT ![t] = @ \cup {n}]

\* unpublish that forgets the list of the topic.
unpublishNodeOnly(n, t) ==
  /\ publications' = [publications EXCEPT ![n] = @ \ {t}]
  /\ UNCHANGED publishers

unpublish(n, t) ==
  /\ publications' = [publications EXCEPT ![n] = @ \ {t}]
  /\ publishers' = [publishers EXCEPT ![t] = @ \ {n}]

\* The answer to registerSubscription, taken after the node was entered.
lookupPublishers(t) == publishers[t]

registerSubscription(n, t) ==
  getOrCreateNode(n) /\ subscribe(n, t) /\ UNCHANGED <<publications, publishers>>

unregisterSubscription(n, t) ==
  getOrCreateNode(n) /\ unsubscribe(n, t) /\ UNCHANGED <<publications, publishers>>

\* The response, subscriber_uris, is left empty.
registerPublication(n, t) ==
  getOrCreateNode(n) /\ publish(n, t) /\ UNCHANGED <<subscriptions, subscribers>>

unregisterPublication(n, t) ==
  getOrCreateNode(n) /\ unpublish(n, t) /\ UNCHANGED <<subscriptions, subscribers>>

\* The two ways the master keeps a registration agree, and only nodes that have called
\* are registered (the sets of TopicInfo point into nodes_).
RegistryInStep ==
  /\ \A n \in Nodes, t \in Topics :
       /\ t \in subscriptions[n] <=> n \in subscribers[t]
       /\ t \in publications[n] <=> n \in publishers[t]
  /\ \A t \in Topics : subscribers[t] \cup publishers[t] \subseteq nodes
=============================================================================
