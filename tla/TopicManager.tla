----------------------------- MODULE TopicManager -----------------------------
(***************************************************************************)
(* TopicManager (topic_manager.cpp): the publications and subscriptions of *)
(* a node under the names the application uses, and the renaming rules     *)
(* that turn those names into topics.  Rules can change while topics are   *)
(* in use (setRemap, and the setRemappings service, which arrives in the   *)
(* poll thread); everything is then registered anew under the new topics.  *)
(*                                                                         *)
(* Every operation holds the recursive mutex_ from beginning to end, so    *)
(* each is one step.  The operations call one another: they are operators  *)
(* on the record of what the object keeps, and the iteration over a map is *)
(* a loop over the names in the order of std::map.  A failed assertion     *)
(* ends the process; "failed" is its line.                                 *)
(*                                                                         *)
(* The initial states and so on are named after the module, which          *)
(* NodeProofs extends together with MultiService.                          *)
(***************************************************************************)
EXTENDS Naturals, Sequences, SequencesExt

CONSTANTS
  NameOrder,      \* the names of the application, in the order of std::map
  FindOrder,      \* the prefixes that rules can look for, in the order of std::map
  Replacements    \* what they can be replaced by

Names == Range(NameOrder)
Finds == Range(FindOrder)

ASSUME TopicManagerAssumption ==
  /\ NameOrder \in Seq(Names) /\ FindOrder \in Seq(Finds)
  /\ IsInjective(NameOrder) /\ IsInjective(FindOrder)
  /\ \A i, j \in DOMAIN FindOrder : IsStrictPrefix(FindOrder[i], FindOrder[j]) => i < j

VARIABLES
  remaps,     \* remaps_: the rules, a function from a subset of Finds
  tm          \* pub_map_, publications_, sub_map_, subscriptions_, what regp_ was told,
              \* and the assertion that failed

topicsVars == <<remaps, tm>>

Empty == [n \in {} |-> <<>>]

TopicsInit ==
  /\ remaps = Empty
  /\ tm = [pub_map |-> Empty, publications |-> {}, told_pub |-> {},
           sub_map |-> Empty, subscriptions |-> {}, told_sub |-> {}, failed |-> 0]

Set(map, key, value) ==
  [k \in DOMAIN map \cup {key} |-> IF k = key THEN value ELSE map[k]]
Erase(map, key) == [k \in DOMAIN map \ {key} |-> map[k]]

\* remap: the first rule that matches, in the order of the map, replaces the prefix.
remap(rules, name) ==
  LET matching == {i \in DOMAIN FindOrder : FindOrder[i] \in DOMAIN rules /\ IsPrefix(FindOrder[i], name)}
      find == FindOrder[CHOOSE i \in matching : \A j \in matching : i <= j]
  IN  IF matching = {} THEN name
      ELSE rules[find] \o SubSeq(name, Len(find) + 1, Len(name))

\* The operation goes on if the assertion of that line holds.
Checked(line, cond, st, next) ==
  IF st.failed # 0 THEN st
  ELSE IF cond THEN next ELSE [st EXCEPT !.failed = line]

(***************************************************************************)
(* The operations, on the record.                                          *)
(***************************************************************************)

registerPublication(rules, st, name) ==
  LET topic == remap(rules, name)
      entered == [st EXCEPT !.pub_map = Set(@, name, topic)]
  IN  Checked(59, topic \notin st.publications, entered,
        [entered EXCEPT !.publications = @ \cup {topic}, !.told_pub = @ \cup {topic}])

unregisterPublication(st, name) ==
  LET topic == st.pub_map[name]
  IN  Checked(68, name \in DOMAIN st.pub_map, st,
        Checked(70, topic \in st.publications, st,
          [st EXCEPT !.publications = @ \ {topic}, !.told_pub = @ \ {topic},
                     !.pub_map = Erase(@, name)]))

\* The first assertion looks for the topic among the names.
subscribe(rules, st, name) ==
  LET topic == remap(rules, name)
      entered == [st EXCEPT !.sub_map = Set(@, name, topic)]
  IN  Checked(81, topic \notin DOMAIN st.sub_map, st,
        Checked(83, topic \notin st.subscriptions, entered,
          [entered EXCEPT !.subscriptions = @ \cup {topic}, !.told_sub = @ \cup {topic}]))

\* unregisterSubscription that leaves the topic registered.
unregisterSubscriptionSilent(st, name) ==
  LET topic == st.sub_map[name]
  IN  [st EXCEPT !.subscriptions = @ \ {topic}, !.sub_map = Erase(@, name)]

unregisterSubscription(st, name) ==
  LET topic == st.sub_map[name]
  IN  Checked(45, name \in DOMAIN st.sub_map, st,
        Checked(47, topic \in st.subscriptions, st,
          [st EXCEPT !.subscriptions = @ \ {topic}, !.told_sub = @ \ {topic},
                     !.sub_map = Erase(@, name)]))

\* publish registers the name the first time.
publish(rules, st, name) ==
  IF name \notin DOMAIN st.pub_map
    THEN registerPublication(rules, st, name)
    ELSE Checked(96, st.pub_map[name] = remap(rules, name), st, st)

\* A loop over a map: what body, which is given the record so far and a name, makes of st
\* from the first name of the map to the last.
ForEach(map, body(_, _), st) ==
  LET after[i \in 0 .. Len(NameOrder)] ==
        IF i = 0 THEN st
        ELSE IF NameOrder[i] \in DOMAIN map THEN body(after[i - 1], NameOrder[i])
        ELSE after[i - 1]
  IN  after[Len(NameOrder)]

\* The two loops of refreshRemaps.  Both run over a copy of the map, and the assertion
\* of the first one looks at the copy.
refreshPublication(rules, pmap, st, name) ==
  LET remapped == remap(rules, name)
      renewed == registerPublication(rules, unregisterPublication(st, name), name)
  IN  IF st.failed # 0 \/ remapped = pmap[name] THEN st
      ELSE Checked(183, pmap[name] = remapped, renewed, renewed)

refreshSubscription(rules, smap, st, name) ==
  LET remapped == remap(rules, name)
      renewed == subscribe(rules, unregisterSubscription(st, name), name)
  IN  IF st.failed # 0 \/ remapped = smap[name] THEN st
      ELSE Checked(197, renewed.failed # 0 \/ renewed.sub_map[name] = remapped, renewed, renewed)

\* No refreshRemaps at all.
refreshRemapsNone(rules, st) == st

refreshPublications(rules, st) ==
  ForEach(st.pub_map, LAMBDA s, n : refreshPublication(rules, st.pub_map, s, n), st)
refreshSubscriptions(rules, st) ==
  ForEach(st.sub_map, LAMBDA s, n : refreshSubscription(rules, st.sub_map, s, n), st)

\* refreshRemaps that forgets the subscriptions.
refreshRemapsPub(rules, st) == refreshPublications(rules, st)

refreshRemaps(rules, st) == refreshSubscriptions(rules, refreshPublications(rules, st))

(***************************************************************************)
(* The calls of the application and of the RPC thread.                     *)
(***************************************************************************)

Running == tm.failed = 0

Publish(name) ==
  /\ Running
  /\ tm' = publish(remaps, tm, name)
  /\ UNCHANGED remaps

RegisterPublication(name) ==
  /\ Running
  /\ tm' = registerPublication(remaps, tm, name)
  /\ UNCHANGED remaps

Subscribe(name) ==
  /\ Running
  /\ tm' = subscribe(remaps, tm, name)
  /\ UNCHANGED remaps

\* The application unregisters what it has registered.
UnregisterPublication(name) ==
  /\ Running
  /\ name \in DOMAIN tm.pub_map
  /\ tm' = unregisterPublication(tm, name)
  /\ UNCHANGED remaps

UnregisterSubscription(name) ==
  /\ Running
  /\ name \in DOMAIN tm.sub_map
  /\ tm' = unregisterSubscription(tm, name)
  /\ UNCHANGED remaps

setRemap(find, replace) ==
  /\ Running
  /\ remaps' = Set(remaps, find, replace)
  /\ tm' = refreshRemaps(remaps', tm)

\* All rules are replaced at once.
setRemappings(rules) ==
  /\ Running
  /\ remaps' = rules
  /\ tm' = refreshRemaps(rules, tm)

\* A request of the service whose lists are not equally long.
setRemappingsUneven ==
  /\ Running
  /\ tm' = [tm EXCEPT !.failed = 146]
  /\ UNCHANGED remaps

\* Everything is unregistered; the rules stay.
shutdown ==
  /\ Running
  /\ LET pubs == ForEach(tm.pub_map, unregisterPublication, tm)
     IN tm' = ForEach(pubs.sub_map, unregisterSubscription, pubs)
  /\ UNCHANGED remaps

TopicsNext ==
  \/ \E n \in Names : \/ Publish(n) \/ RegisterPublication(n) \/ UnregisterPublication(n)
                      \/ Subscribe(n) \/ UnregisterSubscription(n)
  \/ \E f \in Finds, r \in Replacements : setRemap(f, r)
  \/ \E fs \in SUBSET Finds : \E rules \in [fs -> Replacements] : setRemappings(rules)
  \/ setRemappingsUneven
  \/ shutdown
  \/ ~Running /\ UNCHANGED topicsVars

TopicsSpec == TopicsInit /\ [][TopicsNext]_topicsVars

(***************************************************************************)
(* Properties.                                                             *)
(***************************************************************************)

\* A map of names, the objects under their topics and what the registration protocol was
\* told agree: one topic per name, no topic twice, nothing left behind.
Agree(map, topics, told) ==
  /\ Range(map) = topics /\ told = topics
  /\ \A m, n \in DOMAIN map : map[m] = map[n] => m = n

\* The tables of TopicManager stay in step through every sequence of calls, in particular
\* when rules are changed under topics in use.
TablesAgree ==
  Running => /\ Agree(tm.pub_map, tm.publications, tm.told_pub)
             /\ Agree(tm.sub_map, tm.subscriptions, tm.told_sub)

\* Every name is registered under the topic that the rules of the moment give it.
TopicsAreCurrent ==
  Running => /\ \A n \in DOMAIN tm.pub_map : tm.pub_map[n] = remap(remaps, n)
             /\ \A n \in DOMAIN tm.sub_map : tm.sub_map[n] = remap(remaps, n)

\* The assertions that look for an entry to be there never fail: in unregisterSubscription
\* (45, 47), unregisterPublication (68, 70), publish (96) and the second loop of
\* refreshRemaps (197).
LookupsSucceed == tm.failed \notin {45, 47, 68, 70, 96, 197}

(***************************************************************************)
(* What the repository says and the code does not keep: not invariants.    *)
(* The README describes the behaviours that TLC finds against them.        *)
(***************************************************************************)

\* The assertion in the first loop of refreshRemaps: a publication has been given the
\* topic that the new rules map its name to.
PublicationRemapped == tm.failed # 183

\* The first assertion of subscribe guards against a second subscription: subscribing
\* under a new name to a topic that this node does not subscribe to succeeds.
SubscribeSucceeds ==
  [][\A n \in Names :
       (/\ n \notin DOMAIN tm.sub_map
        /\ remap(remaps, n) \notin tm.subscriptions
        /\ Subscribe(n)) => tm'.failed = 0]_topicsVars
=============================================================================
