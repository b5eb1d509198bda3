----------------------------- MODULE NodeProofs -----------------------------
(***************************************************************************)
(* The two objects that every node has one of, for every value of the      *)
(* constants.                                                              *)
(*                                                                         *)
(* TopicManager, with any names, rules and replacements: TopicsInv is      *)
(* inductive.  Its proof follows the loops over the maps name by name.     *)
(*                                                                         *)
(* MultiService, with any number of calls and any methods: the poll thread *)
(* finds the call it has to remove, runs no deleted ServiceResponseT, and  *)
(* hands over one response at most.                                        *)
(***************************************************************************)
EXTENDS MultiService, TopicManager, WellFoundedInduction, TLAPS

(***************************************************************************)
(* Induction and recursion up to a natural number.                         *)
(***************************************************************************)

\* Induction over 0 .. N, for the set of the numbers a statement holds for.
LEMMA UpTo ==
  ASSUME NEW N \in Nat, NEW S, 0 \in S,
         \A i \in 1 .. N : (i - 1) \in S => i \in S
  PROVE  \A i \in 0 .. N : i \in S
<1> DEFINE T == {i \in 0 .. N : i \notin S}
<1> SUFFICES ASSUME T # {} PROVE FALSE
  OBVIOUS
<1>1. IsWellFoundedOn(OpToRel(<, Nat), Nat)
  BY NatLessThanWellFounded
<1>2. T \subseteq Nat
  OBVIOUS
<1>3. \E x \in T : \A y \in T : ~ (<<y, x>> \in OpToRel(<, Nat))
  <2> HIDE DEF T
  <2> QED BY <1>1, <1>2, WFMin
<1>4. PICK x \in T : \A y \in T : ~ (<<y, x>> \in OpToRel(<, Nat))
  BY <1>3
<1>5. x \in 1 .. N
  OBVIOUS
<1>6. <<x - 1, x>> \in OpToRel(<, Nat)
  BY <1>5 DEF OpToRel
<1>7. x - 1 \notin T
  BY <1>4, <1>6
<1> QED BY <1>5, <1>7

\* f starts with b, and G makes each value from the one before.
IsRecursive(f, M, D, b, G) ==
  /\ f \in [0 .. M -> D]
  /\ f[0] = b
  /\ \A i \in 1 .. M : f[i] = G[<<f[i - 1], i>>]

\* A recursive function on 0 .. M exists when each of its steps stays in a set.
LEMMA Recursion ==
  ASSUME NEW M \in Nat, NEW D, NEW b \in D, NEW G \in [D \X (1 .. M) -> D]
  PROVE  \E f : IsRecursive(f, M, D, b, G)
<1> DEFINE S == {n \in 0 .. M : \E f : IsRecursive(f, n, D, b, G)}
<1>1. 0 \in S
  <2> DEFINE f == [i \in 0 .. 0 |-> b]
  <2>1. f \in [0 .. 0 -> D] /\ f[0] = b /\ \A i \in 1 .. 0 : FALSE
    OBVIOUS
  <2>2. IsRecursive(f, 0, D, b, G)
    BY <2>1 DEF IsRecursive
  <2> QED BY <2>2
<1>2. ASSUME NEW n \in 1 .. M, n - 1 \in S
      PROVE  n \in S
  <2>1. PICK f : IsRecursive(f, n - 1, D, b, G)
    BY <1>2
  <2> DEFINE g == [i \in 0 .. n |-> IF i = n THEN G[<<f[n - 1], n>>] ELSE f[i]]
  <2>2. f[n - 1] \in D
    BY <2>1 DEF IsRecursive
  <2>3. g \in [0 .. n -> D]
    BY <2>1, <2>2 DEF IsRecursive
  <2>4. g[n] = G[<<f[n - 1], n>>] /\ \A i \in 0 .. (n - 1) : g[i] = f[i]
    OBVIOUS
  <2> HIDE DEF g
  <2>5. g[0] = b
    BY <2>1, <2>4 DEF IsRecursive
  <2>6. ASSUME NEW i \in 1 .. n
        PROVE  g[i] = G[<<g[i - 1], i>>]
    <3>1. CASE i = n
      <4>1. g[n - 1] = f[n - 1]
        BY <2>4
      <4> QED BY <4>1, <3>1, <2>4
    <3>2. CASE i # n
      <4>1. f[i] = G[<<f[i - 1], i>>]
        BY <2>1, <3>2 DEF IsRecursive
      <4>2. g[i] = f[i] /\ g[i - 1] = f[i - 1]
        BY <2>4, <3>2
      <4> QED BY <4>1, <4>2
    <3> QED BY <3>1, <3>2
  <2>7. IsRecursive(g, n, D, b, G)
    BY <2>3, <2>5, <2>6 DEF IsRecursive
  <2> QED BY <2>7
<1>3. M \in S
  <2> HIDE DEF S
  <2> QED BY <1>1, <1>2, UpTo
<1> QED BY <1>3

(***************************************************************************)
(* The inductive invariant.                                                *)
(***************************************************************************)

Rules == UNION {[fs -> Replacements] : fs \in SUBSET Finds}
Topics == {remap(p[1], p[2]) : p \in Rules \X Names}
Maps == UNION {[ns -> Topics] : ns \in SUBSET Names}
State == [pub_map : Maps, publications : SUBSET Topics, told_pub : SUBSET Topics,
          sub_map : Maps, subscriptions : SUBSET Topics, told_sub : SUBSET Topics,
          failed : Nat]

TopicsTypeOK == remaps \in Rules /\ tm \in State

\* The operations of one side leave the tables of the other alone.
SamePub(s, st) ==
  s.pub_map = st.pub_map /\ s.publications = st.publications /\ s.told_pub = st.told_pub
SameSub(s, st) ==
  s.sub_map = st.sub_map /\ s.subscriptions = st.subscriptions /\ s.told_sub = st.told_sub

PubAgree(st) == Agree(st.pub_map, st.publications, st.told_pub)
SubAgree(st) == Agree(st.sub_map, st.subscriptions, st.told_sub)

\* The topics of a map are those the rules give.
Current(rules, map) == \A n \in DOMAIN map : map[n] = remap(rules, n)

Lookups == {45, 47, 68, 70, 96, 197}

\* The tables agree and are current as long as the process runs, and it has not ended in
\* one of the assertions that look for an entry.
TopicsInv ==
  /\ TopicsTypeOK
  /\ tm.failed \notin Lookups
  /\ Running => /\ PubAgree(tm) /\ SubAgree(tm)
                /\ Current(remaps, tm.pub_map) /\ Current(remaps, tm.sub_map)

(***************************************************************************)
(* Maps.                                                                   *)
(***************************************************************************)

LEMMA MapsAre ==
  ASSUME NEW map
  PROVE  map \in Maps <=> /\ map = [n \in DOMAIN map |-> map[n]]
                          /\ DOMAIN map \subseteq Names
                          /\ \A n \in DOMAIN map : map[n] \in Topics
<1>1. ASSUME map \in Maps
      PROVE  /\ map = [n \in DOMAIN map |-> map[n]]
             /\ DOMAIN map \subseteq Names
             /\ \A n \in DOMAIN map : map[n] \in Topics
  <2>1. PICK ns \in SUBSET Names : map \in [ns -> Topics]
    BY <1>1 DEF Maps
  <2> QED BY <2>1
<1>2. ASSUME map = [n \in DOMAIN map |-> map[n]], DOMAIN map \subseteq Names,
             \A n \in DOMAIN map : map[n] \in Topics
      PROVE  map \in Maps
  <2>1. map \in [DOMAIN map -> Topics]
    BY <1>2
  <2> QED BY <2>1, <1>2 DEF Maps
<1> QED BY <1>1, <1>2

LEMMA SetKeeps ==
  ASSUME NEW map \in Maps, NEW name \in Names, NEW topic \in Topics
  PROVE  /\ Set(map, name, topic) \in Maps
         /\ DOMAIN Set(map, name, topic) = DOMAIN map \cup {name}
         /\ Set(map, name, topic)[name] = topic
         /\ \A n \in DOMAIN map : n # name => Set(map, name, topic)[n] = map[n]
<1> DEFINE m == Set(map, name, topic)
<1>1. /\ m = [n \in DOMAIN m |-> m[n]]
      /\ DOMAIN m = DOMAIN map \cup {name}
      /\ m[name] = topic
      /\ \A n \in DOMAIN map : n # name => m[n] = map[n]
  BY DEF Set
<1>2. DOMAIN map \subseteq Names /\ \A n \in DOMAIN map : map[n] \in Topics
  BY MapsAre
<1> HIDE DEF m
<1>3. m \in Maps
  BY <1>1, <1>2, MapsAre
<1> QED BY <1>1, <1>3 DEF m

LEMMA EraseKeeps ==
  ASSUME NEW map \in Maps, NEW name
  PROVE  /\ Erase(map, name) \in Maps
         /\ DOMAIN Erase(map, name) = DOMAIN map \ {name}
         /\ \A n \in DOMAIN map : n # name => Erase(map, name)[n] = map[n]
<1> DEFINE m == Erase(map, name)
<1>1. /\ m = [n \in DOMAIN m |-> m[n]]
      /\ DOMAIN m = DOMAIN map \ {name}
      /\ \A n \in DOMAIN map : n # name => m[n] = map[n]
  BY DEF Erase
<1>2. DOMAIN map \subseteq Names /\ \A n \in DOMAIN map : map[n] \in Topics
  BY MapsAre
<1> HIDE DEF m
<1>3. m \in Maps
  BY <1>1, <1>2, MapsAre
<1> QED BY <1>1, <1>3 DEF m

\* A topic that is not there can be entered under a new name ...
LEMMA AgreeSet ==
  ASSUME NEW map \in Maps, NEW topics, NEW told, Agree(map, topics, told),
         NEW name \in Names \ DOMAIN map, NEW topic \in Topics \ topics
  PROVE  Agree(Set(map, name, topic), topics \cup {topic}, told \cup {topic})
<1> DEFINE m == Set(map, name, topic)
<1>1. /\ DOMAIN m = DOMAIN map \cup {name}
      /\ m[name] = topic
      /\ \A n \in DOMAIN map : n # name => m[n] = map[n]
  <2>1. name \in Names /\ topic \in Topics
    OBVIOUS
  <2> QED BY <2>1, SetKeeps
<1> HIDE DEF m
<1>2. /\ topics = {map[n] : n \in DOMAIN map} /\ told = topics
      /\ \A n, k \in DOMAIN map : map[n] = map[k] => n = k
  BY DEF Agree, Range
<1>3. {m[n] : n \in DOMAIN m} = topics \cup {topic}
  BY <1>1, <1>2
<1>4. \A n, k \in DOMAIN m : m[n] = m[k] => n = k
  BY <1>1, <1>2
<1>5. Agree(m, topics \cup {topic}, told \cup {topic})
  BY <1>2, <1>3, <1>4 DEF Agree, Range
<1> QED BY <1>5 DEF m

\* ... and a name and its topic taken out.
LEMMA AgreeErase ==
  ASSUME NEW map \in Maps, NEW topics, NEW told, Agree(map, topics, told),
         NEW name \in DOMAIN map
  PROVE  Agree(Erase(map, name), topics \ {map[name]}, told \ {map[name]})
<1> DEFINE m == Erase(map, name)
<1>1. /\ DOMAIN m = DOMAIN map \ {name}
      /\ \A n \in DOMAIN m : m[n] = map[n]
  BY DEF Erase
<1> HIDE DEF m
<1>2. /\ topics = {map[n] : n \in DOMAIN map} /\ told = topics
      /\ \A n, k \in DOMAIN map : map[n] = map[k] => n = k
  BY DEF Agree, Range
<1>3. {m[n] : n \in DOMAIN m} = topics \ {map[name]}
  BY <1>1, <1>2
<1>4. \A n, k \in DOMAIN m : m[n] = m[k] => n = k
  BY <1>1, <1>2
<1>5. Agree(m, topics \ {map[name]}, told \ {map[name]})
  BY <1>2, <1>3, <1>4 DEF Agree, Range
<1> QED BY <1>5 DEF m

(***************************************************************************)
(* The operations on the record.                                           *)
(***************************************************************************)

LEMMA RemapIsTopic ==
  ASSUME NEW rules \in Rules, NEW name \in Names
  PROVE  remap(rules, name) \in Topics
<1>1. <<rules, name>> \in Rules \X Names
  OBVIOUS
<1> QED BY <1>1 DEF Topics

\* registerPublication enters the topic of a name, or fails because it is there.
LEMMA Register ==
  ASSUME NEW rules \in Rules, NEW st \in State, NEW name \in Names
  PROVE  LET topic == remap(rules, name)
             r == registerPublication(rules, st, name)
         IN  /\ r \in State /\ SameSub(r, st)
             /\ st.failed # 0 => r.failed # 0
             /\ st.failed = 0 => r.failed \in {0, 59}
             /\ (st.failed = 0 /\ topic \in st.publications) => r.failed = 59
             /\ (r.failed = 0 /\ PubAgree(st) /\ name \notin DOMAIN st.pub_map) =>
                  /\ PubAgree(r)
                  /\ r.pub_map = Set(st.pub_map, name, topic)
<1> DEFINE topic == remap(rules, name)
           r == registerPublication(rules, st, name)
           m == Set(st.pub_map, name, topic)
           e == [st EXCEPT !.pub_map = m]
           f == [e EXCEPT !.failed = 59]
           s == [e EXCEPT !.publications = @ \cup {topic}, !.told_pub = @ \cup {topic}]
<1>1. topic \in Topics /\ m \in Maps
  BY RemapIsTopic, SetKeeps DEF State
<1>2. \/ st.failed # 0 /\ r = e
      \/ st.failed = 0 /\ topic \in st.publications /\ r = f
      \/ st.failed = 0 /\ topic \notin st.publications /\ r = s
  BY DEF registerPublication, Checked
<1>3. PubAgree(st) /\ name \notin DOMAIN st.pub_map /\ topic \notin st.publications =>
        Agree(m, st.publications \cup {topic}, st.told_pub \cup {topic})
  BY <1>1, AgreeSet DEF PubAgree, State
<1>4. f \in State /\ SameSub(f, st) /\ f.failed = 59
  BY <1>1 DEF SameSub, State
<1>5. s \in State /\ SameSub(s, st) /\ s.failed = st.failed /\ s.pub_map = m
      /\ s.publications = st.publications \cup {topic}
      /\ s.told_pub = st.told_pub \cup {topic}
  BY <1>1 DEF SameSub, State
<1>6. e \in State /\ SameSub(e, st) /\ e.failed = st.failed
  BY <1>1 DEF SameSub, State
<1>7. topic \notin st.publications /\ PubAgree(st) /\ name \notin DOMAIN st.pub_map =>
        PubAgree(s)
  BY <1>3, <1>5 DEF PubAgree
<1> HIDE DEF topic, m, r, e, f, s
<1>8. /\ r \in State /\ SameSub(r, st)
      /\ st.failed # 0 => r.failed # 0
      /\ st.failed = 0 => r.failed \in {0, 59}
      /\ (st.failed = 0 /\ topic \in st.publications) => r.failed = 59
      /\ (r.failed = 0 /\ PubAgree(st) /\ name \notin DOMAIN st.pub_map) =>
           PubAgree(r) /\ r.pub_map = m
  BY <1>2, <1>4, <1>5, <1>6, <1>7
<1> QED BY <1>8 DEF topic, m, r

LEMMA Unregister ==
  ASSUME NEW st \in State, NEW name
  PROVE  LET r == unregisterPublication(st, name)
         IN  /\ r \in State /\ SameSub(r, st)
             /\ st.failed # 0 => r = st
             /\ (st.failed = 0 /\ PubAgree(st) /\ name \in DOMAIN st.pub_map) =>
                  /\ r.failed = 0
                  /\ PubAgree(r)
                  /\ r.pub_map = Erase(st.pub_map, name)
<1> DEFINE topic == st.pub_map[name]
           r == unregisterPublication(st, name)
           m == Erase(st.pub_map, name)
           found == name \in DOMAIN st.pub_map /\ topic \in st.publications
           s == [st EXCEPT !.publications = st.publications \ {topic},
                           !.told_pub = st.told_pub \ {topic}, !.pub_map = m]
<1>1. m \in Maps
  BY EraseKeeps DEF State
<1>2. \/ st.failed # 0 /\ r = st
      \/ st.failed = 0 /\ ~found /\ \E line \in {68, 70} : r = [st EXCEPT !.failed = line]
      \/ st.failed = 0 /\ found /\ r = s
  BY DEF unregisterPublication, Checked, State
<1>3. PubAgree(st) /\ name \in DOMAIN st.pub_map =>
        /\ Agree(m, st.publications \ {topic}, st.told_pub \ {topic})
        /\ found
  BY AgreeErase DEF PubAgree, State, Agree, Range
<1>4. s \in State /\ SameSub(s, st) /\ s.failed = st.failed /\ s.pub_map = m
      /\ s.publications = st.publications \ {topic} /\ s.told_pub = st.told_pub \ {topic}
  BY <1>1 DEF SameSub, State
<1> HIDE DEF topic, m, r, found, s
<1>5. CASE st.failed # 0 /\ r = st
  BY <1>5 DEF SameSub, m, r
<1>6. CASE st.failed = 0 /\ ~found /\ \E line \in {68, 70} : r = [st EXCEPT !.failed = line]
  <2>1. r \in State /\ SameSub(r, st)
    BY <1>6 DEF SameSub, State
  <2> QED BY <1>6, <1>3, <2>1 DEF m, r
<1>7. CASE st.failed = 0 /\ found /\ r = s
  <2>1. PubAgree(st) /\ name \in DOMAIN st.pub_map => PubAgree(r)
    BY <1>7, <1>3, <1>4 DEF PubAgree
  <2> QED BY <1>7, <1>4, <2>1 DEF m, r
<1> QED BY <1>2, <1>5, <1>6, <1>7

\* The same of subscribe and unregisterSubscription.
LEMMA SubscribeKeeps ==
  ASSUME NEW rules \in Rules, NEW st \in State, NEW name \in Names
  PROVE  LET topic == remap(rules, name)
             r == subscribe(rules, st, name)
         IN  /\ r \in State /\ SamePub(r, st)
             /\ st.failed # 0 => r = st
             /\ st.failed = 0 => r.failed \in {0, 81, 83}
             /\ (st.failed = 0 /\ topic \in st.subscriptions) => r.failed # 0
             /\ (r.failed = 0 /\ SubAgree(st) /\ name \notin DOMAIN st.sub_map) =>
                  /\ SubAgree(r)
                  /\ r.sub_map = Set(st.sub_map, name, topic)
<1> DEFINE topic == remap(rules, name)
           r == subscribe(rules, st, name)
           m == Set(st.sub_map, name, topic)
           e == [st EXCEPT !.sub_map = m]
           f == [e EXCEPT !.failed = 83]
           g == [st EXCEPT !.failed = 81]
           s == [e EXCEPT !.subscriptions = @ \cup {topic}, !.told_sub = @ \cup {topic}]
<1>1. topic \in Topics /\ m \in Maps
  BY RemapIsTopic, SetKeeps DEF State
<1>6. e \in State /\ SamePub(e, st) /\ e.failed = st.failed
  BY <1>1 DEF SamePub, State
<1>2. \/ st.failed # 0 /\ r = st
      \/ st.failed = 0 /\ r = g
      \/ st.failed = 0 /\ topic \in st.subscriptions /\ r = f
      \/ st.failed = 0 /\ topic \notin st.subscriptions /\ r = s
  BY <1>6 DEF subscribe, Checked
<1>3. SubAgree(st) /\ name \notin DOMAIN st.sub_map /\ topic \notin st.subscriptions =>
        Agree(m, st.subscriptions \cup {topic}, st.told_sub \cup {topic})
  BY <1>1, AgreeSet DEF SubAgree, State
<1>4. /\ f \in State /\ SamePub(f, st) /\ f.failed = 83
      /\ g \in State /\ SamePub(g, st) /\ g.failed = 81
  BY <1>1 DEF SamePub, State
<1>5. s \in State /\ SamePub(s, st) /\ s.failed = st.failed /\ s.sub_map = m
      /\ s.subscriptions = st.subscriptions \cup {topic}
      /\ s.told_sub = st.told_sub \cup {topic}
  BY <1>1 DEF SamePub, State
<1>7. topic \notin st.subscriptions /\ SubAgree(st) /\ name \notin DOMAIN st.sub_map =>
        SubAgree(s)
  BY <1>3, <1>5 DEF SubAgree
<1>9. SamePub(st, st)
  BY DEF SamePub
<1> HIDE DEF topic, m, r, e, f, g, s
<1>8. /\ r \in State /\ SamePub(r, st)
      /\ st.failed # 0 => r = st
      /\ st.failed = 0 => r.failed \in {0, 81, 83}
      /\ (st.failed = 0 /\ topic \in st.subscriptions) => r.failed # 0
      /\ (r.failed = 0 /\ SubAgree(st) /\ name \notin DOMAIN st.sub_map) =>
           SubAgree(r) /\ r.sub_map = m
  BY <1>2, <1>4, <1>5, <1>7, <1>9
<1> QED BY <1>8 DEF topic, m, r

LEMMA Unsubscribe ==
  ASSUME NEW st \in State, NEW name
  PROVE  LET r == unregisterSubscription(st, name)
         IN  /\ r \in State /\ SamePub(r, st)
             /\ st.failed # 0 => r = st
             /\ (st.failed = 0 /\ SubAgree(st) /\ name \in DOMAIN st.sub_map) =>
                  /\ r.failed = 0
                  /\ SubAgree(r)
                  /\ r.sub_map = Erase(st.sub_map, name)
<1> DEFINE topic == st.sub_map[name]
           r == unregisterSubscription(st, name)
           m == Erase(st.sub_map, name)
           found == name \in DOMAIN st.sub_map /\ topic \in st.subscriptions
           s == [st EXCEPT !.subscriptions = st.subscriptions \ {topic},
                           !.told_sub = st.told_sub \ {topic}, !.sub_map = m]
<1>1. m \in Maps
  BY EraseKeeps DEF State
<1>2. \/ st.failed # 0 /\ r = st
      \/ st.failed = 0 /\ ~found /\ \E line \in {45, 47} : r = [st EXCEPT !.failed = line]
      \/ st.failed = 0 /\ found /\ r = s
  BY DEF unregisterSubscription, Checked, State
<1>3. SubAgree(st) /\ name \in DOMAIN st.sub_map =>
        /\ Agree(m, st.subscriptions \ {topic}, st.told_sub \ {topic})
        /\ found
  BY AgreeErase DEF SubAgree, State, Agree, Range
<1>4. s \in State /\ SamePub(s, st) /\ s.failed = st.failed /\ s.sub_map = m
      /\ s.subscriptions = st.subscriptions \ {topic} /\ s.told_sub = st.told_sub \ {topic}
  BY <1>1 DEF SamePub, State
<1> HIDE DEF topic, m, r, found, s
<1>5. CASE st.failed # 0 /\ r = st
  BY <1>5 DEF SamePub, m, r
<1>6. CASE st.failed = 0 /\ ~found /\ \E line \in {45, 47} : r = [st EXCEPT !.failed = line]
  <2>1. r \in State /\ SamePub(r, st)
    BY <1>6 DEF SamePub, State
  <2> QED BY <1>6, <1>3, <2>1 DEF m, r
<1>7. CASE st.failed = 0 /\ found /\ r = s
  <2>1. SubAgree(st) /\ name \in DOMAIN st.sub_map => SubAgree(r)
    BY <1>7, <1>3, <1>4 DEF SubAgree
  <2> QED BY <1>7, <1>4, <2>1 DEF m, r
<1> QED BY <1>2, <1>5, <1>6, <1>7

(***************************************************************************)
(* The bodies of the loops of refreshRemaps.                               *)
(***************************************************************************)

\* A publication that has to be renewed always ends the process: the second registration
\* fails (59), or the assertion on the copy of the map (183).
LEMMA RefreshPublicationStep ==
  ASSUME NEW rules \in Rules, NEW pmap, NEW st \in State, NEW name \in Names
  PROVE  LET r == refreshPublication(rules, pmap, st, name)
         IN  /\ r \in State /\ SameSub(r, st)
             /\ st.failed # 0 => r = st
             /\ (/\ st.failed = 0 /\ PubAgree(st)
                 /\ st.pub_map = pmap /\ name \in DOMAIN pmap) =>
                  /\ r.failed \in {0, 59, 183}
                  /\ r.failed = 0 => r = st /\ pmap[name] = remap(rules, name)
<1> DEFINE r == refreshPublication(rules, pmap, st, name)
           without == unregisterPublication(st, name)
           renewed == registerPublication(rules, without, name)
           f == [renewed EXCEPT !.failed = 183]
           new == pmap[name] # remap(rules, name)
<1>1. /\ without \in State /\ SameSub(without, st)
      /\ st.failed = 0 /\ PubAgree(st) /\ name \in DOMAIN st.pub_map => without.failed = 0
  BY Unregister
<1> HIDE DEF without
<1>2. /\ renewed \in State /\ SameSub(renewed, without)
      /\ without.failed = 0 => renewed.failed \in {0, 59}
  BY <1>1, Register
<1>3. SameSub(renewed, st) /\ SameSub(st, st)
  BY <1>1, <1>2 DEF SameSub
<1>4. \/ (st.failed # 0 \/ ~new) /\ r = st
      \/ st.failed = 0 /\ new /\ renewed.failed # 0 /\ r = renewed
      \/ st.failed = 0 /\ new /\ renewed.failed = 0 /\ r = f
  BY DEF refreshPublication, Checked, without
<1> HIDE DEF renewed
<1>5. f \in State /\ SameSub(f, st) /\ f.failed = 183
  BY <1>2, <1>3 DEF State, SameSub
<1> HIDE DEF r, f
<1>6. /\ r \in State /\ SameSub(r, st)
      /\ st.failed # 0 => r = st
      /\ (/\ st.failed = 0 /\ PubAgree(st)
          /\ st.pub_map = pmap /\ name \in DOMAIN pmap) =>
           /\ r.failed \in {0, 59, 183}
           /\ r.failed = 0 => r = st /\ pmap[name] = remap(rules, name)
  BY <1>1, <1>2, <1>3, <1>4, <1>5
<1> QED BY <1>6 DEF r

\* A subscription that has to be renewed moves to its new topic, unless that is in use.
LEMMA RefreshSubscriptionStep ==
  ASSUME NEW rules \in Rules, NEW smap, NEW st \in State, NEW name \in Names
  PROVE  LET r == refreshSubscription(rules, smap, st, name)
         IN  /\ r \in State /\ SamePub(r, st)
             /\ (/\ st.failed = 0 /\ SubAgree(st) /\ name \in DOMAIN st.sub_map
                 /\ st.sub_map[name] = smap[name]) =>
                  /\ r.failed \in {0, 81, 83}
                  /\ r.failed = 0 =>
                       /\ SubAgree(r)
                       /\ DOMAIN r.sub_map = DOMAIN st.sub_map
                       /\ r.sub_map[name] = remap(rules, name)
                       /\ \A n \in DOMAIN st.sub_map \ {name} : r.sub_map[n] = st.sub_map[n]
<1> DEFINE r == refreshSubscription(rules, smap, st, name)
           topic == remap(rules, name)
           without == unregisterSubscription(st, name)
           renewed == subscribe(rules, without, name)
           f == [renewed EXCEPT !.failed = 197]
           new == smap[name] # topic
           Good == /\ st.failed = 0 /\ SubAgree(st) /\ name \in DOMAIN st.sub_map
                   /\ st.sub_map[name] = smap[name]
<1>1. /\ without \in State /\ SamePub(without, st)
      /\ Good => /\ without.failed = 0 /\ SubAgree(without)
                 /\ without.sub_map = Erase(st.sub_map, name)
  BY Unsubscribe
<1>2. /\ DOMAIN Erase(st.sub_map, name) = DOMAIN st.sub_map \ {name}
      /\ Erase(st.sub_map, name) \in Maps
      /\ \A n \in DOMAIN st.sub_map \ {name} : Erase(st.sub_map, name)[n] = st.sub_map[n]
  <2>1. st.sub_map \in Maps
    BY DEF State
  <2> QED BY ONLY <2>1, EraseKeeps
<1> HIDE DEF without
<1>3. /\ renewed \in State /\ SamePub(renewed, without)
      /\ without.failed = 0 => renewed.failed \in {0, 81, 83}
      /\ (renewed.failed = 0 /\ SubAgree(without) /\ name \notin DOMAIN without.sub_map) =>
           SubAgree(renewed) /\ renewed.sub_map = Set(without.sub_map, name, topic)
  BY <1>1, SubscribeKeeps
<1>4. topic \in Topics
  BY RemapIsTopic
<1>5. /\ DOMAIN Set(Erase(st.sub_map, name), name, topic) = DOMAIN Erase(st.sub_map, name) \cup {name}
      /\ Set(Erase(st.sub_map, name), name, topic)[name] = topic
      /\ \A n \in DOMAIN Erase(st.sub_map, name) : n # name =>
           Set(Erase(st.sub_map, name), name, topic)[n] = Erase(st.sub_map, name)[n]
  <2>1. ASSUME NEW m \in Maps
        PROVE  /\ DOMAIN Set(m, name, topic) = DOMAIN m \cup {name}
               /\ Set(m, name, topic)[name] = topic
               /\ \A n \in DOMAIN m : n # name => Set(m, name, topic)[n] = m[n]
    <3> HIDE DEF topic
    <3> QED BY ONLY <1>4, m \in Maps, name \in Names, SetKeeps, ZenonT(30)
  <2>2. Erase(st.sub_map, name) \in Maps
    BY <1>2
  <2> HIDE DEF topic
  <2> QED BY <2>1, <2>2
<1>6. SamePub(renewed, st) /\ SamePub(st, st)
  BY <1>1, <1>3 DEF SamePub
<1>7. \/ (st.failed # 0 \/ ~new) /\ r = st
      \/ st.failed = 0 /\ new /\ renewed.failed # 0 /\ r = renewed
      \/ st.failed = 0 /\ new /\ renewed.failed = 0 /\ r = renewed
                       /\ renewed.sub_map[name] = topic
      \/ st.failed = 0 /\ new /\ renewed.failed = 0 /\ r = f
                       /\ renewed.sub_map[name] # topic
  BY DEF refreshSubscription, Checked, without
<1> HIDE DEF renewed
<1>8. f \in State /\ SamePub(f, st)
  BY <1>3, <1>6 DEF State, SamePub
<1>9. Good /\ renewed.failed = 0 =>
        /\ SubAgree(renewed)
        /\ DOMAIN renewed.sub_map = DOMAIN st.sub_map
        /\ renewed.sub_map[name] = topic
        /\ \A n \in DOMAIN st.sub_map \ {name} : renewed.sub_map[n] = st.sub_map[n]
  BY <1>1, <1>2, <1>3, <1>5
<1> HIDE DEF r, f, topic
<1>10. r \in State /\ SamePub(r, st)
  BY <1>3, <1>6, <1>7, <1>8
<1>11. Good => r.failed \in {0, 81, 83}
  BY <1>1, <1>3, <1>7, <1>9
<1>12. Good /\ r.failed = 0 =>
         /\ SubAgree(r)
         /\ DOMAIN r.sub_map = DOMAIN st.sub_map
         /\ r.sub_map[name] = topic
         /\ \A n \in DOMAIN st.sub_map \ {name} : r.sub_map[n] = st.sub_map[n]
  BY <1>7, <1>9, <1>11
<1> QED BY <1>10, <1>11, <1>12 DEF r, topic

(***************************************************************************)
(* The loops, unfolded.                                                    *)
(***************************************************************************)

N == Len(NameOrder)

\* What a loop leaves after each name, when its body is F.
IsLoop(after, map, F(_, _), st) ==
  /\ after[0] = st
  /\ \A i \in 1 .. N :
       after[i] = IF NameOrder[i] \in DOMAIN map THEN F(after[i - 1], NameOrder[i])
                  ELSE after[i - 1]

LEMMA NameOrderIs ==
  /\ N \in Nat
  /\ \A i \in 1 .. N : NameOrder[i] \in Names
  /\ \A n \in Names : \E i \in 1 .. N : NameOrder[i] = n
  /\ \A i, j \in 1 .. N : NameOrder[i] = NameOrder[j] => i = j
BY TopicManagerAssumption DEF N, Names, Range, IsInjective

LEMMA RefreshPublicationsUnfolds ==
  ASSUME NEW rules \in Rules, NEW st \in State
  PROVE  \E after : /\ IsLoop(after, st.pub_map,
                               LAMBDA s, n : refreshPublication(rules, st.pub_map, s, n), st)
                    /\ refreshPublications(rules, st) = after[N]
<1> DEFINE body(s, n) == refreshPublication(rules, st.pub_map, s, n)
           G == [p \in State \X (1 .. N) |->
                  IF NameOrder[p[2]] \in DOMAIN st.pub_map THEN body(p[1], NameOrder[p[2]])
                  ELSE p[1]]
           e == CHOOSE f : f = [i \in 0 .. N |->
                  IF i = 0 THEN st
                  ELSE IF NameOrder[i] \in DOMAIN st.pub_map THEN body(f[i - 1], NameOrder[i])
                  ELSE f[i - 1]]
<1>1. G \in [State \X (1 .. N) -> State]
  BY NameOrderIs, RefreshPublicationStep
<1>2. \A s \in State, i \in 1 .. N :
        G[<<s, i>>] = IF NameOrder[i] \in DOMAIN st.pub_map THEN body(s, NameOrder[i]) ELSE s
  OBVIOUS
<1>3. refreshPublications(rules, st) = e[N]
  BY DEF refreshPublications, ForEach, N
<1> HIDE DEF G, body
<1>4. PICK f : IsRecursive(f, N, State, st, G)
  BY <1>1, NameOrderIs, Recursion
<1>5. ASSUME NEW i \in 1 .. N
      PROVE  f[i] = IF NameOrder[i] \in DOMAIN st.pub_map THEN body(f[i - 1], NameOrder[i])
                    ELSE f[i - 1]
  <2>1. f[i - 1] \in State /\ f[i] = G[<<f[i - 1], i>>]
    BY <1>4, NameOrderIs DEF IsRecursive
  <2> QED BY <1>2, <2>1
<1>6. f = [i \in 0 .. N |->
             IF i = 0 THEN st
             ELSE IF NameOrder[i] \in DOMAIN st.pub_map THEN body(f[i - 1], NameOrder[i])
             ELSE f[i - 1]]
  <2>1. f \in [0 .. N -> State] /\ f[0] = st /\ N \in Nat
    BY <1>4, NameOrderIs DEF IsRecursive
  <2>2. \A i \in 0 .. N :
          f[i] = IF i = 0 THEN st
                 ELSE IF NameOrder[i] \in DOMAIN st.pub_map THEN body(f[i - 1], NameOrder[i])
                 ELSE f[i - 1]
    BY <1>5, <2>1
  <2> QED BY <2>1, <2>2
<1>7. e = [i \in 0 .. N |->
             IF i = 0 THEN st
             ELSE IF NameOrder[i] \in DOMAIN st.pub_map THEN body(e[i - 1], NameOrder[i])
             ELSE e[i - 1]]
  BY <1>6
<1> HIDE DEF e
<1>8. IsLoop(e, st.pub_map, body, st)
  BY <1>7, NameOrderIs DEF IsLoop
<1> QED BY <1>3, <1>8 DEF body

LEMMA RefreshSubscriptionsUnfolds ==
  ASSUME NEW rules \in Rules, NEW st \in State
  PROVE  \E after : /\ IsLoop(after, st.sub_map,
                               LAMBDA s, n : refreshSubscription(rules, st.sub_map, s, n), st)
                    /\ refreshSubscriptions(rules, st) = after[N]
<1> DEFINE body(s, n) == refreshSubscription(rules, st.sub_map, s, n)
           G == [p \in State \X (1 .. N) |->
                  IF NameOrder[p[2]] \in DOMAIN st.sub_map THEN body(p[1], NameOrder[p[2]])
                  ELSE p[1]]
           e == CHOOSE f : f = [i \in 0 .. N |->
                  IF i = 0 THEN st
                  ELSE IF NameOrder[i] \in DOMAIN st.sub_map THEN body(f[i - 1], NameOrder[i])
                  ELSE f[i - 1]]
<1>1. G \in [State \X (1 .. N) -> State]
  <2>1. ASSUME NEW s \in State, NEW name \in Names PROVE body(s, name) \in State
    BY RefreshSubscriptionStep
  <2> HIDE DEF body
  <2>2. ASSUME NEW p \in State \X (1 .. N)
        PROVE  (IF NameOrder[p[2]] \in DOMAIN st.sub_map THEN body(p[1], NameOrder[p[2]])
                ELSE p[1]) \in State
    <3>1. p[1] \in State /\ NameOrder[p[2]] \in Names
      BY NameOrderIs
    <3> QED BY <2>1, <3>1
  <2> QED BY <2>2
<1>2. \A s \in State, i \in 1 .. N :
        G[<<s, i>>] = IF NameOrder[i] \in DOMAIN st.sub_map THEN body(s, NameOrder[i]) ELSE s
  OBVIOUS
<1>3. refreshSubscriptions(rules, st) = e[N]
  BY DEF refreshSubscriptions, ForEach, N
<1> HIDE DEF G, body
<1>4. PICK f : IsRecursive(f, N, State, st, G)
  BY <1>1, NameOrderIs, Recursion
<1>5. ASSUME NEW i \in 1 .. N
      PROVE  f[i] = IF NameOrder[i] \in DOMAIN st.sub_map THEN body(f[i - 1], NameOrder[i])
                    ELSE f[i - 1]
  <2>1. f[i - 1] \in State /\ f[i] = G[<<f[i - 1], i>>]
    BY <1>4, NameOrderIs DEF IsRecursive
  <2> QED BY <1>2, <2>1
<1>6. f = [i \in 0 .. N |->
             IF i = 0 THEN st
             ELSE IF NameOrder[i] \in DOMAIN st.sub_map THEN body(f[i - 1], NameOrder[i])
             ELSE f[i - 1]]
  <2>1. f \in [0 .. N -> State] /\ f[0] = st /\ N \in Nat
    BY <1>4, NameOrderIs DEF IsRecursive
  <2>2. \A i \in 0 .. N :
          f[i] = IF i = 0 THEN st
                 ELSE IF NameOrder[i] \in DOMAIN st.sub_map THEN body(f[i - 1], NameOrder[i])
                 ELSE f[i - 1]
    BY <1>5, <2>1
  <2> QED BY <2>1, <2>2
<1>7. e = [i \in 0 .. N |->
             IF i = 0 THEN st
             ELSE IF NameOrder[i] \in DOMAIN st.sub_map THEN body(e[i - 1], NameOrder[i])
             ELSE e[i - 1]]
  BY <1>6
<1> HIDE DEF e
<1>8. IsLoop(e, st.sub_map, body, st)
  BY <1>7, NameOrderIs DEF IsLoop
<1> QED BY <1>3, <1>8 DEF body

LEMMA UnregisterPublicationsUnfolds ==
  ASSUME NEW st \in State
  PROVE  \E after : /\ IsLoop(after, st.pub_map,
                              unregisterPublication, st)
                    /\ ForEach(st.pub_map, unregisterPublication, st) = after[N]
<1> DEFINE body(s, n) == unregisterPublication(s, n)
           G == [p \in State \X (1 .. N) |->
                  IF NameOrder[p[2]] \in DOMAIN st.pub_map THEN body(p[1], NameOrder[p[2]])
                  ELSE p[1]]
           e == CHOOSE f : f = [i \in 0 .. N |->
                  IF i = 0 THEN st
                  ELSE IF NameOrder[i] \in DOMAIN st.pub_map THEN body(f[i - 1], NameOrder[i])
                  ELSE f[i - 1]]
<1>1. G \in [State \X (1 .. N) -> State]
  BY NameOrderIs, Unregister
<1>2. \A s \in State, i \in 1 .. N :
        G[<<s, i>>] = IF NameOrder[i] \in DOMAIN st.pub_map THEN body(s, NameOrder[i]) ELSE s
  OBVIOUS
<1>3. ForEach(st.pub_map, unregisterPublication, st) = e[N]
  BY DEF ForEach, N
<1> HIDE DEF G, body
<1>4. PICK f : IsRecursive(f, N, State, st, G)
  BY <1>1, NameOrderIs, Recursion
<1>5. ASSUME NEW i \in 1 .. N
      PROVE  f[i] = IF NameOrder[i] \in DOMAIN st.pub_map THEN body(f[i - 1], NameOrder[i])
                    ELSE f[i - 1]
  <2>1. f[i - 1] \in State /\ f[i] = G[<<f[i - 1], i>>]
    BY <1>4, NameOrderIs DEF IsRecursive
  <2> QED BY <1>2, <2>1
<1>6. f = [i \in 0 .. N |->
             IF i = 0 THEN st
             ELSE IF NameOrder[i] \in DOMAIN st.pub_map THEN body(f[i - 1], NameOrder[i])
             ELSE f[i - 1]]
  <2>1. f \in [0 .. N -> State] /\ f[0] = st /\ N \in Nat
    BY <1>4, NameOrderIs DEF IsRecursive
  <2>2. \A i \in 0 .. N :
          f[i] = IF i = 0 THEN st
                 ELSE IF NameOrder[i] \in DOMAIN st.pub_map THEN body(f[i - 1], NameOrder[i])
                 ELSE f[i - 1]
    BY <1>5, <2>1
  <2> QED BY <2>1, <2>2
<1>7. e = [i \in 0 .. N |->
             IF i = 0 THEN st
             ELSE IF NameOrder[i] \in DOMAIN st.pub_map THEN body(e[i - 1], NameOrder[i])
             ELSE e[i - 1]]
  BY <1>6
<1> HIDE DEF e
<1>8. IsLoop(e, st.pub_map, body, st)
  BY <1>7, NameOrderIs DEF IsLoop
<1> QED BY <1>3, <1>8 DEF body, IsLoop

LEMMA UnregisterSubscriptionsUnfolds ==
  ASSUME NEW st \in State
  PROVE  \E after : /\ IsLoop(after, st.sub_map,
                              unregisterSubscription, st)
                    /\ ForEach(st.sub_map, unregisterSubscription, st) = after[N]
<1> DEFINE body(s, n) == unregisterSubscription(s, n)
           G == [p \in State \X (1 .. N) |->
                  IF NameOrder[p[2]] \in DOMAIN st.sub_map THEN body(p[1], NameOrder[p[2]])
                  ELSE p[1]]
           e == CHOOSE f : f = [i \in 0 .. N |->
                  IF i = 0 THEN st
                  ELSE IF NameOrder[i] \in DOMAIN st.sub_map THEN body(f[i - 1], NameOrder[i])
                  ELSE f[i - 1]]
<1>1. G \in [State \X (1 .. N) -> State]
  BY NameOrderIs, Unsubscribe
<1>2. \A s \in State, i \in 1 .. N :
        G[<<s, i>>] = IF NameOrder[i] \in DOMAIN st.sub_map THEN body(s, NameOrder[i]) ELSE s
  OBVIOUS
<1>3. ForEach(st.sub_map, unregisterSubscription, st) = e[N]
  BY DEF ForEach, N
<1> HIDE DEF G, body
<1>4. PICK f : IsRecursive(f, N, State, st, G)
  BY <1>1, NameOrderIs, Recursion
<1>5. ASSUME NEW i \in 1 .. N
      PROVE  f[i] = IF NameOrder[i] \in DOMAIN st.sub_map THEN body(f[i - 1], NameOrder[i])
                    ELSE f[i - 1]
  <2>1. f[i - 1] \in State /\ f[i] = G[<<f[i - 1], i>>]
    BY <1>4, NameOrderIs DEF IsRecursive
  <2> QED BY <1>2, <2>1
<1>6. f = [i \in 0 .. N |->
             IF i = 0 THEN st
             ELSE IF NameOrder[i] \in DOMAIN st.sub_map THEN body(f[i - 1], NameOrder[i])
             ELSE f[i - 1]]
  <2>1. f \in [0 .. N -> State] /\ f[0] = st /\ N \in Nat
    BY <1>4, NameOrderIs DEF IsRecursive
  <2>2. \A i \in 0 .. N :
          f[i] = IF i = 0 THEN st
                 ELSE IF NameOrder[i] \in DOMAIN st.sub_map THEN body(f[i - 1], NameOrder[i])
                 ELSE f[i - 1]
    BY <1>5, <2>1
  <2> QED BY <2>1, <2>2
<1>7. e = [i \in 0 .. N |->
             IF i = 0 THEN st
             ELSE IF NameOrder[i] \in DOMAIN st.sub_map THEN body(e[i - 1], NameOrder[i])
             ELSE e[i - 1]]
  BY <1>6
<1> HIDE DEF e
<1>8. IsLoop(e, st.sub_map, body, st)
  BY <1>7, NameOrderIs DEF IsLoop
<1> QED BY <1>3, <1>8 DEF body, IsLoop

(***************************************************************************)
(* The loops, by induction over the names.                                 *)
(***************************************************************************)

\* The first loop of refreshRemaps either fails, or it has changed nothing because every
\* publication was current.
LEMMA RefreshPublicationsKeeps ==
  ASSUME NEW rules \in Rules, NEW st \in State, st.failed = 0, PubAgree(st)
  PROVE  LET r == refreshPublications(rules, st)
         IN  /\ r \in State /\ r.failed \in {0, 59, 183}
             /\ r.failed = 0 => r = st /\ Current(rules, st.pub_map)
<1> DEFINE body(s, n) == refreshPublication(rules, st.pub_map, s, n)
<1>1. PICK after : /\ IsLoop(after, st.pub_map, body, st)
                   /\ refreshPublications(rules, st) = after[N]
  BY RefreshPublicationsUnfolds DEF IsLoop
<1> DEFINE Done(i) == \A j \in 1 .. i : NameOrder[j] \in DOMAIN st.pub_map =>
                        st.pub_map[NameOrder[j]] = remap(rules, NameOrder[j])
           Kept(i, r) == /\ r \in State /\ r.failed \in {0, 59, 183}
                         /\ r.failed = 0 => r = st /\ Done(i)
           S == {i \in 0 .. N : Kept(i, after[i])}
<1>2. 0 \in S
  BY <1>1, NameOrderIs DEF IsLoop
<1>3. ASSUME NEW i \in 1 .. N, i - 1 \in S
      PROVE  i \in S
  <2> DEFINE s == after[i - 1]
             n == NameOrder[i]
  <2>1. Kept(i - 1, s) /\ n \in Names
    BY <1>3, NameOrderIs
  <2>2. after[i] = IF n \in DOMAIN st.pub_map THEN body(s, n) ELSE s
    BY <1>1 DEF IsLoop
  <2>3. /\ body(s, n) \in State
        /\ s.failed # 0 => body(s, n) = s
        /\ (s = st /\ n \in DOMAIN st.pub_map) =>
             /\ body(s, n).failed \in {0, 59, 183}
             /\ body(s, n).failed = 0 => body(s, n) = s /\ st.pub_map[n] = remap(rules, n)
    <3>1. s \in State /\ n \in Names /\ st.failed = 0 /\ PubAgree(st)
      BY <2>1
    <3> HIDE DEF s, n, Done
    <3>2. body(s, n) \in State /\ (s.failed # 0 => body(s, n) = s)
      BY <3>1, RefreshPublicationStep DEF refreshPublication
    <3>3. ASSUME s = st, n \in DOMAIN st.pub_map
          PROVE  /\ body(st, n).failed \in {0, 59, 183}
                 /\ body(st, n).failed = 0 => body(st, n) = st /\ st.pub_map[n] = remap(rules, n)
      BY <3>1, <3>3, RefreshPublicationStep
    <3> QED BY <3>2, <3>3
  <2>4. Done(i - 1) /\ (n \in DOMAIN st.pub_map => st.pub_map[n] = remap(rules, n)) => Done(i)
    <3> HAVE Done(i - 1) /\ (n \in DOMAIN st.pub_map => st.pub_map[n] = remap(rules, n))
    <3> TAKE j \in 1 .. i
    <3>1. j = i \/ j \in 1 .. (i - 1)
      OBVIOUS
    <3> QED BY <3>1
  <2> HIDE DEF body, s, n, Done
  <2>5. Kept(i, after[i])
    BY <2>1, <2>2, <2>3, <2>4
  <2> QED BY <2>5
<1>4. N \in S
  <2> HIDE DEF S
  <2>1. N \in Nat
    BY NameOrderIs
  <2>2. N \in 0 .. N
    BY <2>1
  <2> QED BY ONLY <1>2, <1>3, <2>1, <2>2, UpTo
<1>5. Done(N) => Current(rules, st.pub_map)
  BY NameOrderIs, MapsAre DEF Current, State
<1> QED BY <1>1, <1>4, <1>5

\* The second loop fails in subscribe, or leaves every subscription current.
LEMMA RefreshSubscriptionsKeeps ==
  ASSUME NEW rules \in Rules, NEW st \in State, st.failed = 0 => SubAgree(st)
  PROVE  LET r == refreshSubscriptions(rules, st)
         IN  /\ r \in State /\ SamePub(r, st)
             /\ r.failed \in {st.failed, 81, 83}
             /\ r.failed = 0 => st.failed = 0 /\ SubAgree(r) /\ Current(rules, r.sub_map)
<1> DEFINE body(s, n) == refreshSubscription(rules, st.sub_map, s, n)
<1>1. PICK after : /\ IsLoop(after, st.sub_map, body, st)
                   /\ refreshSubscriptions(rules, st) = after[N]
  BY RefreshSubscriptionsUnfolds DEF IsLoop
<1> DEFINE D == DOMAIN st.sub_map
           Done(i, m) == \A j \in 1 .. i : NameOrder[j] \in D =>
                           m[NameOrder[j]] = remap(rules, NameOrder[j])
           Left(i, m) == \A j \in (i + 1) .. N : NameOrder[j] \in D =>
                           m[NameOrder[j]] = st.sub_map[NameOrder[j]]
           Kept(i, r) == /\ r \in State /\ SamePub(r, st)
                         /\ r.failed \in {st.failed, 81, 83}
                         /\ r.failed = 0 => /\ st.failed = 0 /\ SubAgree(r)
                                            /\ DOMAIN r.sub_map = D
                                            /\ Done(i, r.sub_map) /\ Left(i, r.sub_map)
           S == {i \in 0 .. N : Kept(i, after[i])}
<1>2. 0 \in S
  BY <1>1, NameOrderIs DEF IsLoop, SamePub
<1>3. ASSUME NEW i \in 1 .. N, i - 1 \in S
      PROVE  i \in S
  <2> DEFINE s == after[i - 1]
             n == NameOrder[i]
             t == body(s, n)
  <2>1. Kept(i - 1, s) /\ n \in Names
    BY <1>3, NameOrderIs
  <2>2. after[i] = IF n \in D THEN t ELSE s
    BY <1>1 DEF IsLoop
  <2>3. s.failed = 0 /\ n \in D => s.sub_map[n] = st.sub_map[n]
    <3>1. i \in (i - 1 + 1) .. N
      BY NameOrderIs
    <3> QED BY <2>1, <3>1
  <2>4. /\ t \in State /\ SamePub(t, s)
        /\ s.failed # 0 => t = s
        /\ s.failed = 0 /\ n \in D => t.failed \in {0, 81, 83}
        /\ s.failed = 0 /\ n \in D /\ t.failed = 0 =>
             /\ SubAgree(t)
             /\ DOMAIN t.sub_map = D
             /\ t.sub_map[n] = remap(rules, n)
             /\ \A k \in D \ {n} : t.sub_map[k] = s.sub_map[k]
    <3>1. /\ s \in State /\ n \in Names
          /\ s.failed = 0 => SubAgree(s) /\ DOMAIN s.sub_map = D
      BY <2>1
    <3> HIDE DEF s, n, D
    <3>2. t \in State /\ SamePub(t, s) /\ (s.failed # 0 => t = s)
      <4>1. s \in State /\ n \in Names
        BY <3>1
      <4>2. t \in State /\ SamePub(t, s)
        BY <4>1, RefreshSubscriptionStep
      <4>3. s.failed # 0 => t = s
        BY DEF refreshSubscription
      <4> QED BY <4>2, <4>3
    <3>3. ASSUME s.failed = 0, n \in D
          PROVE  /\ t.failed \in {0, 81, 83}
                 /\ t.failed = 0 =>
                      /\ SubAgree(t)
                      /\ DOMAIN t.sub_map = D
                      /\ t.sub_map[n] = remap(rules, n)
                      /\ \A k \in D \ {n} : t.sub_map[k] = s.sub_map[k]
      <4>1. n \in DOMAIN s.sub_map /\ s.sub_map[n] = st.sub_map[n] /\ SubAgree(s)
        BY <2>3, <3>1, <3>3
      <4> QED BY <3>1, <3>3, <4>1, RefreshSubscriptionStep
    <3> QED BY <3>2, <3>3
  <2>5. SamePub(t, st)
    BY <2>1, <2>4 DEF SamePub
  <2>6. \A j \in 1 .. N : j # i => NameOrder[j] # n
    BY NameOrderIs
  <2>7. ASSUME s.failed = 0, n \in D, t.failed = 0
        PROVE  Done(i, t.sub_map) /\ Left(i, t.sub_map)
    <3>1. ASSUME NEW j \in 1 .. i, NameOrder[j] \in D
          PROVE  t.sub_map[NameOrder[j]] = remap(rules, NameOrder[j])
      <4>1. CASE j = i
        BY <4>1, <2>4, <2>7, <3>1
      <4>2. CASE j # i
        <5>1. j \in 1 .. (i - 1) /\ j \in 1 .. N
          BY <4>2, NameOrderIs
        <5>2. NameOrder[j] \in D \ {n}
          BY <2>6, <3>1, <4>2, <5>1
        <5> QED BY <2>1, <2>4, <2>7, <5>1, <5>2
      <4> QED BY <4>1, <4>2
    <3>2. ASSUME NEW j \in (i + 1) .. N, NameOrder[j] \in D
          PROVE  t.sub_map[NameOrder[j]] = st.sub_map[NameOrder[j]]
      <4>1. j \in (i - 1 + 1) .. N /\ j \in 1 .. N /\ j # i
        BY NameOrderIs
      <4>2. NameOrder[j] \in D \ {n}
        BY <2>6, <3>2, <4>1
      <4> QED BY <2>1, <2>4, <2>7, <3>2, <4>1, <4>2
    <3> QED BY <3>1, <3>2
  <2>8. ASSUME s.failed = 0, n \notin D
        PROVE  Done(i, s.sub_map) /\ Left(i, s.sub_map)
    <3>1. ASSUME NEW j \in 1 .. i, NameOrder[j] \in D
          PROVE  s.sub_map[NameOrder[j]] = remap(rules, NameOrder[j])
      <4>1. j \in 1 .. (i - 1)
        BY <2>8, <3>1
      <4> QED BY <2>1, <2>8, <3>1, <4>1
    <3>2. ASSUME NEW j \in (i + 1) .. N, NameOrder[j] \in D
          PROVE  s.sub_map[NameOrder[j]] = st.sub_map[NameOrder[j]]
      <4>1. j \in (i - 1 + 1) .. N
        BY NameOrderIs
      <4> QED BY <2>1, <2>8, <3>2, <4>1
    <3> QED BY <3>1, <3>2
  <2> HIDE DEF t, s, n, Done, Left, D
  <2>9. Kept(i, after[i])
    <3>1. CASE s.failed # 0
      BY <2>1, <2>2, <2>4, <3>1
    <3>2. CASE s.failed = 0 /\ n \notin D
      BY <2>1, <2>2, <2>8, <3>2
    <3>3. CASE s.failed = 0 /\ n \in D
      BY <2>1, <2>2, <2>4, <2>5, <2>7, <3>3
    <3> QED BY <3>1, <3>2, <3>3
  <2> QED BY <2>9
<1>4. N \in S
  <2> HIDE DEF S
  <2>1. N \in Nat
    BY NameOrderIs
  <2>2. N \in 0 .. N
    BY <2>1
  <2> QED BY ONLY <1>2, <1>3, <2>1, <2>2, UpTo
<1>5. \A m : DOMAIN m = D /\ Done(N, m) => Current(rules, m)
  BY NameOrderIs, MapsAre DEF Current, State
<1>6. Kept(N, after[N])
  BY <1>4
<1> HIDE DEF Done, Left, body
<1> QED BY <1>1, <1>5, <1>6

\* The first loop of shutdown takes out every publication, the second every subscription;
\* none of the assertions fails.
LEMMA UnregisterPublicationsKeeps ==
  ASSUME NEW st \in State, st.failed = 0, PubAgree(st)
  PROVE  LET r == ForEach(st.pub_map, unregisterPublication, st)
         IN  /\ r \in State /\ r.failed = 0 /\ SameSub(r, st)
             /\ PubAgree(r) /\ DOMAIN r.pub_map = {}
<1> DEFINE body(s, n) == unregisterPublication(s, n)
<1>1. PICK after : /\ IsLoop(after, st.pub_map, body, st)
                   /\ ForEach(st.pub_map, unregisterPublication, st) = after[N]
  BY UnregisterPublicationsUnfolds DEF IsLoop
<1> DEFINE Done(i) == {NameOrder[j] : j \in 1 .. i}
           Kept(i, r) == /\ r \in State /\ r.failed = 0 /\ SameSub(r, st) /\ PubAgree(r)
                         /\ DOMAIN r.pub_map = DOMAIN st.pub_map \ Done(i)
           S == {i \in 0 .. N : Kept(i, after[i])}
<1>2. 0 \in S
  <2>1. Done(0) = {}
    OBVIOUS
  <2> QED BY <1>1, <2>1, NameOrderIs DEF IsLoop, SameSub
<1>3. ASSUME NEW i \in 1 .. N, i - 1 \in S
      PROVE  i \in S
  <2> DEFINE s == after[i - 1]
             n == NameOrder[i]
  <2>1. Kept(i - 1, s)
    BY <1>3
  <2>2. after[i] = IF n \in DOMAIN st.pub_map THEN body(s, n) ELSE s
    BY <1>1 DEF IsLoop
  <2>3. Done(i) = Done(i - 1) \cup {n} /\ n \notin Done(i - 1)
    <3>1. 1 .. i = 1 .. (i - 1) \cup {i}
      OBVIOUS
    <3>2. \A j \in 1 .. (i - 1) : j \in 1 .. N /\ j # i
      BY NameOrderIs
    <3>3. n \notin Done(i - 1)
      BY <3>2, NameOrderIs
    <3> QED BY <3>1, <3>3
  <2> HIDE DEF s, n, Done
  <2>4. CASE n \in DOMAIN st.pub_map
    <3>1. n \in DOMAIN s.pub_map
      BY <2>1, <2>3, <2>4
    <3>2. /\ body(s, n) \in State /\ SameSub(body(s, n), s) /\ body(s, n).failed = 0
          /\ PubAgree(body(s, n)) /\ body(s, n).pub_map = Erase(s.pub_map, n)
      BY <2>1, <3>1, Unregister
    <3>3. DOMAIN Erase(s.pub_map, n) = DOMAIN s.pub_map \ {n}
      BY <2>1, EraseKeeps DEF State
    <3> HIDE DEF body
    <3>4. SameSub(body(s, n), st)
      BY <2>1, <3>2 DEF SameSub
    <3> QED BY <2>1, <2>2, <2>3, <2>4, <3>2, <3>3, <3>4
  <2>5. CASE n \notin DOMAIN st.pub_map
    BY <2>1, <2>2, <2>3, <2>5
  <2> QED BY <2>4, <2>5
<1>4. N \in S
  <2> HIDE DEF S
  <2>1. N \in Nat
    BY NameOrderIs
  <2>2. N \in 0 .. N
    BY <2>1
  <2> QED BY ONLY <1>2, <1>3, <2>1, <2>2, UpTo
<1>5. DOMAIN st.pub_map \ Done(N) = {}
  BY NameOrderIs, MapsAre DEF State
<1> QED BY <1>1, <1>4, <1>5

LEMMA UnregisterSubscriptionsKeeps ==
  ASSUME NEW st \in State, st.failed = 0, SubAgree(st)
  PROVE  LET r == ForEach(st.sub_map, unregisterSubscription, st)
         IN  /\ r \in State /\ r.failed = 0 /\ SamePub(r, st)
             /\ SubAgree(r) /\ DOMAIN r.sub_map = {}
<1> DEFINE body(s, n) == unregisterSubscription(s, n)
<1>1. PICK after : /\ IsLoop(after, st.sub_map, body, st)
                   /\ ForEach(st.sub_map, unregisterSubscription, st) = after[N]
  BY UnregisterSubscriptionsUnfolds DEF IsLoop
<1> DEFINE Done(i) == {NameOrder[j] : j \in 1 .. i}
           Kept(i, r) == /\ r \in State /\ r.failed = 0 /\ SamePub(r, st) /\ SubAgree(r)
                         /\ DOMAIN r.sub_map = DOMAIN st.sub_map \ Done(i)
           S == {i \in 0 .. N : Kept(i, after[i])}
<1>2. 0 \in S
  <2>1. Done(0) = {}
    OBVIOUS
  <2> QED BY <1>1, <2>1, NameOrderIs DEF IsLoop, SamePub
<1>3. ASSUME NEW i \in 1 .. N, i - 1 \in S
      PROVE  i \in S
  <2> DEFINE s == after[i - 1]
             n == NameOrder[i]
  <2>1. Kept(i - 1, s)
    BY <1>3
  <2>2. after[i] = IF n \in DOMAIN st.sub_map THEN body(s, n) ELSE s
    BY <1>1 DEF IsLoop
  <2>3. Done(i) = Done(i - 1) \cup {n} /\ n \notin Done(i - 1)
    <3>1. 1 .. i = 1 .. (i - 1) \cup {i}
      OBVIOUS
    <3>2. \A j \in 1 .. (i - 1) : j \in 1 .. N /\ j # i
      BY NameOrderIs
    <3>3. n \notin Done(i - 1)
      BY <3>2, NameOrderIs
    <3> QED BY <3>1, <3>3
  <2> HIDE DEF s, n, Done
  <2>4. CASE n \in DOMAIN st.sub_map
    <3>1. n \in DOMAIN s.sub_map
      BY <2>1, <2>3, <2>4
    <3>2. /\ body(s, n) \in State /\ SamePub(body(s, n), s) /\ body(s, n).failed = 0
          /\ SubAgree(body(s, n)) /\ body(s, n).sub_map = Erase(s.sub_map, n)
      BY <2>1, <3>1, Unsubscribe
    <3>3. DOMAIN Erase(s.sub_map, n) = DOMAIN s.sub_map \ {n}
      BY <2>1, EraseKeeps DEF State
    <3> HIDE DEF body
    <3>4. SamePub(body(s, n), st)
      BY <2>1, <3>2 DEF SamePub
    <3> QED BY <2>1, <2>2, <2>3, <2>4, <3>2, <3>3, <3>4
  <2>5. CASE n \notin DOMAIN st.sub_map
    BY <2>1, <2>2, <2>3, <2>5
  <2> QED BY <2>4, <2>5
<1>4. N \in S
  <2> HIDE DEF S
  <2>1. N \in Nat
    BY NameOrderIs
  <2>2. N \in 0 .. N
    BY <2>1
  <2> QED BY ONLY <1>2, <1>3, <2>1, <2>2, UpTo
<1>5. DOMAIN st.sub_map \ Done(N) = {}
  BY NameOrderIs, MapsAre DEF State
<1> QED BY <1>1, <1>4, <1>5

(***************************************************************************)
(* Every step keeps the inductive invariant.                               *)
(***************************************************************************)

\* What TopicsInv says of the record, given the rules.
Good(rules, st) ==
  /\ st \in State
  /\ st.failed \notin Lookups
  /\ st.failed = 0 => /\ PubAgree(st) /\ SubAgree(st)
                      /\ Current(rules, st.pub_map) /\ Current(rules, st.sub_map)

LEMMA TopicsInvIs == TopicsInv <=> remaps \in Rules /\ Good(remaps, tm)
BY DEF TopicsInv, TopicsTypeOK, Good, Running

LEMMA TopicsInitGood == TopicsInit => TopicsInv
<1> SUFFICES ASSUME TopicsInit PROVE TopicsInv
  OBVIOUS
<1>1. Empty \in [{} -> Replacements] /\ Empty \in [{} -> Topics] /\ DOMAIN Empty = {}
  BY DEF Empty
<1>2. Empty \in Rules /\ Empty \in Maps
  BY <1>1 DEF Rules, Maps
<1>3. tm \in State /\ tm.failed = 0
  BY <1>2 DEF TopicsInit, State
<1>4. Agree(Empty, {}, {})
  BY <1>1 DEF Agree, Range
<1>5. PubAgree(tm) /\ SubAgree(tm)
  BY <1>4 DEF TopicsInit, PubAgree, SubAgree
<1>6. Current(remaps, tm.pub_map) /\ Current(remaps, tm.sub_map)
  BY <1>1 DEF TopicsInit, Current
<1> QED BY <1>2, <1>3, <1>5, <1>6 DEF TopicsInv, TopicsTypeOK, TopicsInit, Lookups

LEMMA RegisterGood ==
  ASSUME NEW rules \in Rules, NEW st, Good(rules, st), st.failed = 0, NEW name \in Names
  PROVE  Good(rules, registerPublication(rules, st, name))
<1> DEFINE topic == remap(rules, name)
           r == registerPublication(rules, st, name)
<1>1. /\ st \in State /\ PubAgree(st) /\ SubAgree(st)
      /\ Current(rules, st.pub_map) /\ Current(rules, st.sub_map)
  BY DEF Good
<1>2. /\ r \in State /\ SameSub(r, st) /\ r.failed \in {0, 59}
      /\ topic \in st.publications => r.failed = 59
      /\ (r.failed = 0 /\ name \notin DOMAIN st.pub_map) =>
           PubAgree(r) /\ r.pub_map = Set(st.pub_map, name, topic)
  BY <1>1, Register
<1> HIDE DEF r
<1>3. name \in DOMAIN st.pub_map => topic \in st.publications
  BY <1>1 DEF PubAgree, Agree, Range, Current
<1>4. CASE r.failed = 59
  BY <1>2, <1>4 DEF Good, Lookups, r
<1>5. CASE r.failed = 0
  <2>1. name \notin DOMAIN st.pub_map /\ topic \in Topics
    BY <1>2, <1>3, <1>5, RemapIsTopic
  <2>2. PubAgree(r) /\ r.pub_map = Set(st.pub_map, name, topic)
    BY <1>2, <1>5, <2>1
  <2>3. /\ DOMAIN r.pub_map = DOMAIN st.pub_map \cup {name}
        /\ r.pub_map[name] = topic
        /\ \A n \in DOMAIN st.pub_map : n # name => r.pub_map[n] = st.pub_map[n]
    BY <1>1, <2>1, <2>2, SetKeeps DEF State
  <2>4. Current(rules, r.pub_map)
    BY <1>1, <2>3 DEF Current
  <2>5. SubAgree(r) /\ Current(rules, r.sub_map)
    BY <1>1, <1>2 DEF SameSub, SubAgree
  <2> QED BY <1>2, <1>5, <2>2, <2>4, <2>5 DEF Good, Lookups, r
<1> QED BY <1>2, <1>4, <1>5

LEMMA SubscribeGood ==
  ASSUME NEW rules \in Rules, NEW st, Good(rules, st), st.failed = 0, NEW name \in Names
  PROVE  Good(rules, subscribe(rules, st, name))
<1> DEFINE topic == remap(rules, name)
           r == subscribe(rules, st, name)
<1>1. /\ st \in State /\ PubAgree(st) /\ SubAgree(st)
      /\ Current(rules, st.pub_map) /\ Current(rules, st.sub_map)
  BY DEF Good
<1>2. /\ r \in State /\ SamePub(r, st) /\ r.failed \in {0, 81, 83}
      /\ topic \in st.subscriptions => r.failed # 0
      /\ (r.failed = 0 /\ name \notin DOMAIN st.sub_map) =>
           SubAgree(r) /\ r.sub_map = Set(st.sub_map, name, topic)
  BY <1>1, SubscribeKeeps
<1> HIDE DEF r
<1>3. name \in DOMAIN st.sub_map => topic \in st.subscriptions
  BY <1>1 DEF SubAgree, Agree, Range, Current
<1>4. CASE r.failed \in {81, 83}
  BY <1>2, <1>4 DEF Good, Lookups, r
<1>5. CASE r.failed = 0
  <2>1. name \notin DOMAIN st.sub_map /\ topic \in Topics
    BY <1>2, <1>3, <1>5, RemapIsTopic
  <2>2. SubAgree(r) /\ r.sub_map = Set(st.sub_map, name, topic)
    BY <1>2, <1>5, <2>1
  <2>3. /\ DOMAIN r.sub_map = DOMAIN st.sub_map \cup {name}
        /\ r.sub_map[name] = topic
        /\ \A n \in DOMAIN st.sub_map : n # name => r.sub_map[n] = st.sub_map[n]
    BY <1>1, <2>1, <2>2, SetKeeps DEF State
  <2>4. Current(rules, r.sub_map)
    BY <1>1, <2>3 DEF Current
  <2>5. PubAgree(r) /\ Current(rules, r.pub_map)
    BY <1>1, <1>2 DEF SamePub, PubAgree
  <2> QED BY <1>2, <1>5, <2>2, <2>4, <2>5 DEF Good, Lookups, r
<1> QED BY <1>2, <1>4, <1>5

LEMMA UnregisterGood ==
  ASSUME NEW rules, NEW st, Good(rules, st), st.failed = 0, NEW name \in DOMAIN st.pub_map
  PROVE  Good(rules, unregisterPublication(st, name))
<1> DEFINE r == unregisterPublication(st, name)
<1>1. /\ st \in State /\ PubAgree(st) /\ SubAgree(st)
      /\ Current(rules, st.pub_map) /\ Current(rules, st.sub_map)
  BY DEF Good
<1>2. /\ r \in State /\ SameSub(r, st) /\ r.failed = 0
      /\ PubAgree(r) /\ r.pub_map = Erase(st.pub_map, name)
  BY <1>1, Unregister
<1> HIDE DEF r
<1>3. /\ DOMAIN r.pub_map = DOMAIN st.pub_map \ {name}
      /\ \A n \in DOMAIN r.pub_map : r.pub_map[n] = st.pub_map[n]
  <2>1. st.pub_map \in Maps
    BY <1>1 DEF State
  <2>2. /\ DOMAIN Erase(st.pub_map, name) = DOMAIN st.pub_map \ {name}
        /\ \A n \in DOMAIN st.pub_map : n # name => Erase(st.pub_map, name)[n] = st.pub_map[n]
    BY <2>1, EraseKeeps
  <2> QED BY <1>2, <2>2
<1>4. Current(rules, r.pub_map)
  BY <1>1, <1>3 DEF Current
<1>5. SubAgree(r) /\ Current(rules, r.sub_map)
  BY <1>1, <1>2 DEF SameSub, SubAgree
<1>6. Good(rules, r)
  BY <1>2, <1>4, <1>5 DEF Good, Lookups
<1> QED BY <1>6 DEF r

LEMMA UnsubscribeGood ==
  ASSUME NEW rules, NEW st, Good(rules, st), st.failed = 0, NEW name \in DOMAIN st.sub_map
  PROVE  Good(rules, unregisterSubscription(st, name))
<1> DEFINE r == unregisterSubscription(st, name)
<1>1. /\ st \in State /\ PubAgree(st) /\ SubAgree(st)
      /\ Current(rules, st.pub_map) /\ Current(rules, st.sub_map)
  BY DEF Good
<1>2. /\ r \in State /\ SamePub(r, st) /\ r.failed = 0
      /\ SubAgree(r) /\ r.sub_map = Erase(st.sub_map, name)
  BY <1>1, Unsubscribe
<1> HIDE DEF r
<1>3. /\ DOMAIN r.sub_map = DOMAIN st.sub_map \ {name}
      /\ \A n \in DOMAIN r.sub_map : r.sub_map[n] = st.sub_map[n]
  <2>1. st.sub_map \in Maps
    BY <1>1 DEF State
  <2>2. /\ DOMAIN Erase(st.sub_map, name) = DOMAIN st.sub_map \ {name}
        /\ \A n \in DOMAIN st.sub_map : n # name => Erase(st.sub_map, name)[n] = st.sub_map[n]
    BY <2>1, EraseKeeps
  <2> QED BY <1>2, <2>2
<1>4. Current(rules, r.sub_map)
  BY <1>1, <1>3 DEF Current
<1>5. PubAgree(r) /\ Current(rules, r.pub_map)
  BY <1>1, <1>2 DEF SamePub, PubAgree
<1>6. Good(rules, r)
  BY <1>2, <1>4, <1>5 DEF Good, Lookups
<1> QED BY <1>6 DEF r

\* Whatever rules were in force before.
LEMMA RefreshGood ==
  ASSUME NEW rules \in Rules, NEW old, NEW st, Good(old, st), st.failed = 0
  PROVE  Good(rules, refreshRemaps(rules, st))
<1> DEFINE s == refreshPublications(rules, st)
           r == refreshSubscriptions(rules, s)
<1>1. st \in State /\ PubAgree(st) /\ SubAgree(st)
  BY DEF Good
<1>2. /\ s \in State /\ s.failed \in {0, 59, 183}
      /\ s.failed = 0 => s = st /\ Current(rules, st.pub_map)
  BY <1>1, RefreshPublicationsKeeps
<1> HIDE DEF s
<1>3. s.failed = 0 => SubAgree(s)
  BY <1>1, <1>2
<1>4. /\ r \in State /\ SamePub(r, s)
      /\ r.failed \in {s.failed, 81, 83}
      /\ r.failed = 0 => s.failed = 0 /\ SubAgree(r) /\ Current(rules, r.sub_map)
  BY <1>2, <1>3, RefreshSubscriptionsKeeps
<1> HIDE DEF r
<1>5. r.failed = 0 => PubAgree(r) /\ Current(rules, r.pub_map)
  BY <1>1, <1>2, <1>4 DEF SamePub, PubAgree
<1>6. Good(rules, r)
  BY <1>2, <1>4, <1>5 DEF Good, Lookups
<1> QED BY <1>6 DEF refreshRemaps, r, s

LEMMA ShutdownGood == TopicsInv /\ shutdown => TopicsInv'
<1> SUFFICES ASSUME TopicsInv, shutdown PROVE TopicsInv'
  OBVIOUS
<1> DEFINE s == ForEach(tm.pub_map, unregisterPublication, tm)
           r == ForEach(s.sub_map, unregisterSubscription, s)
<1>1. /\ tm \in State /\ tm.failed = 0 /\ remaps \in Rules /\ PubAgree(tm) /\ SubAgree(tm)
      /\ tm' = r /\ remaps' = remaps
  BY DEF TopicsInv, TopicsTypeOK, shutdown, Running
<1>2. /\ s \in State /\ s.failed = 0 /\ SameSub(s, tm)
      /\ PubAgree(s) /\ DOMAIN s.pub_map = {}
  BY <1>1, UnregisterPublicationsKeeps
<1> HIDE DEF s
<1>3. SubAgree(s)
  BY <1>1, <1>2 DEF SameSub, SubAgree
<1>4. /\ r \in State /\ r.failed = 0 /\ SamePub(r, s)
      /\ SubAgree(r) /\ DOMAIN r.sub_map = {}
  BY <1>2, <1>3, UnregisterSubscriptionsKeeps
<1> HIDE DEF r
<1>5. PubAgree(r) /\ DOMAIN r.pub_map = {}
  BY <1>2, <1>4 DEF SamePub, PubAgree
<1>6. Good(remaps, r)
  BY <1>4, <1>5 DEF Good, Lookups, Current
<1>7. Good(remaps', tm') /\ remaps' \in Rules
  BY <1>1, <1>6
<1> QED BY <1>7 DEF TopicsInv, TopicsTypeOK, Good, Running

LEMMA TopicsNextGood == TopicsInv /\ [TopicsNext]_topicsVars => TopicsInv'
<1> SUFFICES ASSUME TopicsInv, [TopicsNext]_topicsVars PROVE TopicsInv'
  OBVIOUS
<1>1. remaps \in Rules /\ Good(remaps, tm)
  BY TopicsInvIs
<1> SUFFICES remaps' \in Rules /\ Good(remaps', tm')
  BY DEF TopicsInv, TopicsTypeOK, Good, Running
<1>2. ASSUME NEW n \in Names, RegisterPublication(n)
      PROVE  remaps' \in Rules /\ Good(remaps', tm')
  BY <1>1, <1>2, RegisterGood DEF RegisterPublication, Running
<1>3. ASSUME NEW n \in Names, Publish(n)
      PROVE  remaps' \in Rules /\ Good(remaps', tm')
  <2>1. CASE n \notin DOMAIN tm.pub_map
    BY <1>1, <1>3, <2>1, RegisterGood DEF Publish, publish, Running
  <2>2. CASE n \in DOMAIN tm.pub_map
    <3>1. tm.pub_map[n] = remap(remaps, n)
      BY <1>1, <1>3, <2>2 DEF Good, Current, Publish, Running
    <3>2. tm' = tm /\ remaps' = remaps
      BY <1>3, <2>2, <3>1 DEF Publish, publish, Checked
    <3> QED BY <1>1, <3>2
  <2> QED BY <2>1, <2>2
<1>4. ASSUME NEW n \in Names, UnregisterPublication(n)
      PROVE  remaps' \in Rules /\ Good(remaps', tm')
  BY <1>1, <1>4, UnregisterGood DEF UnregisterPublication, Running
<1>5. ASSUME NEW n \in Names, Subscribe(n)
      PROVE  remaps' \in Rules /\ Good(remaps', tm')
  BY <1>1, <1>5, SubscribeGood DEF Subscribe, Running
<1>6. ASSUME NEW n \in Names, UnregisterSubscription(n)
      PROVE  remaps' \in Rules /\ Good(remaps', tm')
  BY <1>1, <1>6, UnsubscribeGood DEF UnregisterSubscription, Running
<1>7. ASSUME NEW f \in Finds, NEW r \in Replacements, setRemap(f, r)
      PROVE  remaps' \in Rules /\ Good(remaps', tm')
  <2>1. PICK fs \in SUBSET Finds : remaps \in [fs -> Replacements]
    BY <1>1 DEF Rules
  <2>2. Set(remaps, f, r) \in [fs \cup {f} -> Replacements]
    BY <2>1 DEF Set
  <2>3. Set(remaps, f, r) \in Rules
    BY <2>2 DEF Rules
  <2>4. remaps' = Set(remaps, f, r) /\ tm' = refreshRemaps(Set(remaps, f, r), tm) /\ tm.failed = 0
    BY <1>7 DEF setRemap, Running
  <2> QED BY <1>1, <2>3, <2>4, RefreshGood
<1>8. ASSUME NEW fs \in SUBSET Finds, NEW rules \in [fs -> Replacements], setRemappings(rules)
      PROVE  remaps' \in Rules /\ Good(remaps', tm')
  <2>1. rules \in Rules
    BY DEF Rules
  <2> QED BY <1>1, <1>8, <2>1, RefreshGood DEF setRemappings, Running
<1>9. CASE shutdown
  BY <1>9, ShutdownGood DEF TopicsInv, TopicsTypeOK, Good, Running
<1>10. CASE UNCHANGED topicsVars
  BY <1>1, <1>10 DEF topicsVars
<1>11. CASE setRemappingsUneven
  <2>1. remaps' = remaps /\ tm' = [tm EXCEPT !.failed = 146]
    BY <1>11 DEF setRemappingsUneven
  <2>2. tm' \in State /\ tm'.failed = 146
    BY <1>1, <2>1 DEF Good, State
  <2> QED BY <1>1, <2>1, <2>2 DEF Good, Lookups
<1> QED BY <1>2, <1>3, <1>4, <1>5, <1>6, <1>7, <1>8, <1>9, <1>10, <1>11 DEF TopicsNext

(***************************************************************************)
(* The theorems.                                                           *)
(***************************************************************************)

\* Through every sequence of calls the rules and the tables keep their form and TopicsInv
\* holds: see there.
THEOREM TopicsInvariant == TopicsSpec => []TopicsInv
BY TopicsInitGood, TopicsNextGood, PTL DEF TopicsSpec

\* The maps of names, the objects and what regp_ was told agree, whatever rules are changed
\* under the topics in use (refreshRemaps).
THEOREM TablesStayInStep == TopicsSpec => []TablesAgree
<1>1. TopicsInv => TablesAgree
  BY DEF TopicsInv, TablesAgree, PubAgree, SubAgree
<1> QED BY <1>1, TopicsInvariant, PTL

\* Every name is registered under the topic that the rules of the moment give it (remap).
THEOREM TopicsFollowRules == TopicsSpec => []TopicsAreCurrent
<1>1. TopicsInv => TopicsAreCurrent
  BY DEF TopicsInv, TopicsAreCurrent, Current
<1> QED BY <1>1, TopicsInvariant, PTL

\* None of the assertions that look for an entry ever fails.
THEOREM LookupsFindEntry == TopicsSpec => []LookupsSucceed
<1>1. TopicsInv => LookupsSucceed
  BY DEF TopicsInv, LookupsSucceed, Lookups
<1> QED BY <1>1, TopicsInvariant, PTL

(***************************************************************************)
(* The calls of MultiServiceClient and their server.                       *)
(***************************************************************************)

\* The call holds mutex_.
InCall(c) == caller[c] \in {"locked", "msg", "disconnect", "sent"}

\* mutex_ is held by the call that is between its lock and its push_back; before that there is
\* neither an object nor a callback.
MutexMatches ==
  \A c \in Calls :
    /\ InCall(c) <=> mutex = c
    /\ caller[c] = "idle" <=> link[c] = "none"
    /\ msg_cb[c] => caller[c] \notin {"idle", "connected", "locked"}
    /\ disconnect_cb[c] => caller[c] \in {"disconnect", "sent", "done"}
    /\ InCall(c) => object[c] = "live"
    /\ object[c] = "none" => caller[c] \in {"idle", "connected"}

\* After its push_back a call is in outgoing_calls_ for as long as its object lives.  It has
\* been deleted only after its connection was closed and its disconnect callback was taken.
ListedWhileAlive ==
  \A c \in Calls :
    /\ caller[c] = "done" /\ object[c] = "live" => c \in outgoing_calls
    /\ object[c] = "deleted" => link[c] = "closed" /\ ~disconnect_cb[c]

\* The poll thread is about to remove a call that is not deleted, whose disconnect callback
\* had been set.
RemovesLive ==
  /\ poller.at # "wait" => poller.call \in Calls /\ link[poller.call] # "none"
  /\ poller.at = "remove" =>
       /\ caller[poller.call] \in {"disconnect", "sent", "done"}
       /\ object[poller.call] # "deleted"
       /\ ~disconnect_cb[poller.call]
       /\ link[poller.call] = "closed"

\* A request is answered once: the response is on its way or has been handed over.
OneResponse ==
  \A c \in Calls :
    /\ request[c] \in {"none", "sent", "dropped"} => ~response[c] /\ answers[c] = 0
    /\ response[c] => answers[c] = 0
    /\ answers[c] <= 1
    /\ request[c] # "none" => caller[c] \in {"sent", "done"}

IndInv == TypeOK /\ MutexMatches /\ ListedWhileAlive /\ RemovesLive /\ OneResponse /\ NeverAstray

-----------------------------------------------------------------------------
USE MultiServiceAssumption DEF Idle

\* Before the server listens and before the first call.
LEMMA InitInv == Init => IndInv
<1> SUFFICES ASSUME Init PROVE IndInv
  OBVIOUS
<1>1. TypeOK
  <2>1. Len(Methods) \in Nat
    OBVIOUS
  <2>2. 0 \in 0..Len(Methods)
    OBVIOUS
  <2> QED BY <2>2 DEF Init, TypeOK
<1>2. MutexMatches
  BY DEF Init, MutexMatches, InCall
<1>3. ListedWhileAlive /\ RemovesLive /\ OneResponse /\ NeverAstray
  BY DEF Init, ListedWhileAlive, RemovesLive, OneResponse, NeverAstray
<1> QED BY <1>1, <1>2, <1>3 DEF IndInv

\* The types.
LEMMA TypeStep == TypeOK /\ RemovesLive /\ [Next]_vars => TypeOK'
<1> SUFFICES ASSUME TypeOK, RemovesLive, [Next]_vars PROVE TypeOK'
  OBVIOUS
<1> USE DEF TypeOK, server, wire, client
<1>1. CASE init
  BY <1>1 DEF init
<1>2. CASE bindMethod
  BY <1>2 DEF bindMethod
<1>3. ASSUME NEW c \in Calls, onAccept(c) PROVE TypeOK'
  BY <1>3 DEF onAccept
<1>4. ASSUME NEW c \in Calls, onReceive(c) PROVE TypeOK'
  <2>1. response' \in [Calls -> BOOLEAN]
    <3>1. CASE response' = [response EXCEPT ![c] = link[c] = "up"]
      BY <3>1
    <3> QED BY <1>4 DEF onReceive
  <2>2. request' \in [Calls -> {"none", "sent", "answered", "dropped"}]
    <3>1. CASE request' = [request EXCEPT ![c] = "answered"]
      BY <3>1
    <3>2. CASE request' = [request EXCEPT ![c] = "dropped"]
      BY <3>2
    <3> QED BY <1>4, <3>1, <3>2 DEF onReceive
  <2> QED BY <1>4, <2>1, <2>2 DEF onReceive
<1>5. ASSUME NEW c \in Calls, serverOnDisconnect(c) PROVE TypeOK'
  BY <1>5 DEF serverOnDisconnect
<1>6. ASSUME NEW c \in Calls, connect(c) PROVE TypeOK'
  BY <1>6 DEF connect, Goto
<1>7. ASSUME NEW c \in Calls, lock(c) PROVE TypeOK'
  BY <1>7 DEF lock, Goto
<1>8. ASSUME NEW c \in Calls, setMsgCallback(c) PROVE TypeOK'
  BY <1>8 DEF setMsgCallback, Goto
<1>9. ASSUME NEW c \in Calls, setDisconnectCallback(c) PROVE TypeOK'
  BY <1>9 DEF setDisconnectCallback, Goto
<1>10. ASSUME NEW c \in Calls, sendFrames(c) PROVE TypeOK'
  BY <1>10 DEF sendFrames, Goto
<1>11. ASSUME NEW c \in Calls, enlist(c) PROVE TypeOK'
  BY <1>11 DEF enlist, Goto
<1>12. ASSUME NEW c \in Calls, onResponse(c) PROVE TypeOK'
  <2>1. /\ answers' = [answers EXCEPT ![c] = @ + 1]
        /\ astray' = (astray \/ object[c] # "live")
        /\ response' = [response EXCEPT ![c] = FALSE]
        /\ poller' = [at |-> "close", call |-> c]
    BY <1>12 DEF onResponse
  <2>2. answers' \in [Calls -> Nat]
    BY <2>1
  <2>3. astray' \in BOOLEAN /\ response' \in [Calls -> BOOLEAN]
    BY <2>1
  <2>4. poller' \in [at : {"wait", "close", "remove"}, call : Calls \cup {Nobody}]
    BY <2>1
  <2> QED BY <1>12, <2>2, <2>3, <2>4 DEF onResponse
<1>13. ASSUME NEW c \in Calls, onBroken(c) PROVE TypeOK'
  BY <1>13 DEF onBroken
<1>14. CASE close
  BY <1>14 DEF close
<1>15. CASE removeConnection
  BY <1>15 DEF removeConnection
<1>16. ASSUME NEW c \in Calls, LinkBreaks(c) PROVE TypeOK'
  BY <1>16 DEF LinkBreaks
<1>17. CASE UNCHANGED vars
  BY <1>17 DEF vars
<1> QED
  BY <1>1, <1>2, <1>3, <1>4, <1>5, <1>6, <1>7, <1>8, <1>9, <1>10, <1>11, <1>12, <1>13, <1>14,
     <1>15, <1>16, <1>17 DEF Next, Serve, Poll, Call

\* A step of the server that concerns no call under way.
LEMMA ServerFrame ==
  ASSUME IndInv, TypeOK', UNCHANGED <<wire, client>>
  PROVE  IndInv'
<1> USE DEF IndInv, wire, client
<1>1. MutexMatches'
  BY DEF MutexMatches, InCall
<1>2. ListedWhileAlive'
  BY DEF ListedWhileAlive
<1>3. RemovesLive'
  BY DEF RemovesLive
<1>4. OneResponse' /\ NeverAstray'
  BY DEF OneResponse, NeverAstray
<1> QED BY <1>1, <1>2, <1>3, <1>4

\* Every step of the client, of the server and of the connections keeps the invariant.
LEMMA StepInv == IndInv /\ [Next]_vars => IndInv'
<1> SUFFICES ASSUME IndInv, [Next]_vars PROVE IndInv'
  OBVIOUS
<1>t. /\ TypeOK /\ TypeOK' /\ MutexMatches /\ ListedWhileAlive /\ RemovesLive
      /\ OneResponse /\ ~astray
  BY TypeStep DEF IndInv, NeverAstray
<1>1. ASSUME \/ init \/ bindMethod \/ UNCHANGED vars
             \/ \E c \in Calls : onAccept(c) \/ serverOnDisconnect(c)
      PROVE  IndInv'
  <2>1. UNCHANGED <<wire, client>>
    BY <1>1 DEF init, bindMethod, onAccept, serverOnDisconnect, vars
  <2> QED BY <1>t, <2>1, ServerFrame
<1>2. ASSUME NEW c \in Calls, onReceive(c) PROVE IndInv'
  <2> USE <1>t, <1>2 DEF onReceive, TypeOK, server, wire, client
  <2>1. MutexMatches'
    BY DEF MutexMatches, InCall
  <2>2. ListedWhileAlive'
    BY DEF ListedWhileAlive
  <2>3. RemovesLive'
    BY DEF RemovesLive
  <2>4. OneResponse'
    <3>1. CASE /\ request' = [request EXCEPT ![c] = "answered"]
               /\ response' = [response EXCEPT ![c] = link[c] = "up"]
      <4>1. caller[c] \in {"sent", "done"} /\ answers[c] = 0
        BY DEF OneResponse
      <4>2. ASSUME NEW k \in Calls, k # c
            PROVE  request'[k] = request[k] /\ response'[k] = response[k]
        BY <3>1, <4>2
      <4>3. request'[c] = "answered" /\ answers'[c] = 0 /\ UNCHANGED <<answers, caller>>
        BY <3>1, <4>1
      <4>4. OneResponse
        BY <1>t
      <4> QED BY ONLY <4>1, <4>2, <4>3, <4>4 DEF OneResponse
    <3>2. CASE request' = [request EXCEPT ![c] = "dropped"] /\ UNCHANGED response
      BY <3>2 DEF OneResponse
    <3> QED BY <3>1, <3>2
  <2>5. NeverAstray'
    BY DEF NeverAstray
  <2> QED BY <2>1, <2>2, <2>3, <2>4, <2>5 DEF IndInv
<1>3. ASSUME NEW c \in Calls, connect(c) PROVE IndInv'
  <2> USE <1>t, <1>3 DEF connect, Goto, TypeOK, server, wire, client
  <2>1. MutexMatches'
    BY DEF MutexMatches, InCall
  <2>2. ListedWhileAlive'
    BY DEF ListedWhileAlive, MutexMatches
  <2>3. RemovesLive'
    BY DEF RemovesLive
  <2>4. OneResponse'
    BY DEF OneResponse
  <2>5. NeverAstray'
    BY DEF NeverAstray
  <2> QED BY <2>1, <2>2, <2>3, <2>4, <2>5 DEF IndInv
<1>4. ASSUME NEW c \in Calls, lock(c) PROVE IndInv'
  <2> USE <1>t, <1>4 DEF lock, Goto, TypeOK, server, wire, client
  <2>1. MutexMatches'
    BY DEF MutexMatches, InCall
  <2>2. ListedWhileAlive'
    BY DEF ListedWhileAlive
  <2>3. RemovesLive'
    BY DEF RemovesLive
  <2>4. OneResponse'
    BY DEF OneResponse
  <2>5. NeverAstray'
    BY DEF NeverAstray
  <2> QED BY <2>1, <2>2, <2>3, <2>4, <2>5 DEF IndInv
<1>5. ASSUME NEW c \in Calls, setMsgCallback(c) PROVE IndInv'
  <2> USE <1>t, <1>5 DEF setMsgCallback, Goto, TypeOK, server, wire, client
  <2>1. MutexMatches'
    BY DEF MutexMatches, InCall
  <2>2. ListedWhileAlive'
    BY DEF ListedWhileAlive
  <2>3. RemovesLive'
    BY DEF RemovesLive
  <2>4. OneResponse'
    BY DEF OneResponse
  <2>5. NeverAstray'
    BY DEF NeverAstray
  <2> QED BY <2>1, <2>2, <2>3, <2>4, <2>5 DEF IndInv
<1>6. ASSUME NEW c \in Calls, setDisconnectCallback(c) PROVE IndInv'
  <2> USE <1>t, <1>6 DEF setDisconnectCallback, Goto, TypeOK, server, wire, client
  <2>1. MutexMatches'
    BY DEF MutexMatches, InCall
  <2>2. ListedWhileAlive'
    BY DEF ListedWhileAlive, MutexMatches, InCall
  <2>3. RemovesLive'
    BY DEF RemovesLive
  <2>4. OneResponse'
    BY DEF OneResponse
  <2>5. NeverAstray'
    BY DEF NeverAstray
  <2> QED BY <2>1, <2>2, <2>3, <2>4, <2>5 DEF IndInv
<1>7. ASSUME NEW c \in Calls, sendFrames(c) PROVE IndInv'
  <2> USE <1>t, <1>7 DEF sendFrames, Goto, TypeOK, server, wire, client
  <2>1. MutexMatches'
    BY DEF MutexMatches, InCall
  <2>2. ListedWhileAlive'
    BY DEF ListedWhileAlive
  <2>3. RemovesLive'
    BY DEF RemovesLive
  <2>4. OneResponse'
    BY DEF OneResponse
  <2>5. NeverAstray'
    BY DEF NeverAstray
  <2> QED BY <2>1, <2>2, <2>3, <2>4, <2>5 DEF IndInv
<1>8. ASSUME NEW c \in Calls, enlist(c) PROVE IndInv'
  <2> USE <1>t, <1>8 DEF enlist, Goto, TypeOK, server, wire, client
  <2>1. MutexMatches'
    BY DEF MutexMatches, InCall
  <2>2. ListedWhileAlive'
    BY DEF ListedWhileAlive
  <2>3. RemovesLive'
    BY DEF RemovesLive
  <2>4. OneResponse'
    BY DEF OneResponse
  <2>5. NeverAstray'
    BY DEF NeverAstray
  <2> QED BY <2>1, <2>2, <2>3, <2>4, <2>5 DEF IndInv
<1>9. ASSUME NEW c \in Calls, onResponse(c) PROVE IndInv'
  <2> USE <1>t, <1>9 DEF onResponse, TypeOK, server, wire, client
  <2>1. MutexMatches'
    BY DEF MutexMatches, InCall
  <2>2. ListedWhileAlive'
    BY DEF ListedWhileAlive
  <2>3. RemovesLive'
    BY DEF RemovesLive, MutexMatches
  <2>4. OneResponse'
    BY DEF OneResponse
  <2>5. NeverAstray'
    BY DEF NeverAstray, MutexMatches, ListedWhileAlive
  <2> QED BY <2>1, <2>2, <2>3, <2>4, <2>5 DEF IndInv
<1>10. ASSUME NEW c \in Calls, onBroken(c) PROVE IndInv'
  <2> USE <1>t, <1>10 DEF onBroken, TypeOK, server, wire, client
  <2>1. MutexMatches'
    BY DEF MutexMatches, InCall
  <2>2. ListedWhileAlive'
    BY DEF ListedWhileAlive
  <2>3. RemovesLive'
    BY DEF RemovesLive
  <2>4. OneResponse'
    BY DEF OneResponse
  <2>5. NeverAstray'
    BY DEF NeverAstray
  <2> QED BY <2>1, <2>2, <2>3, <2>4, <2>5 DEF IndInv
<1>11. CASE close
  <2> USE <1>t, <1>11 DEF close, TypeOK, server, wire, client
  <2>1. MutexMatches'
    BY DEF MutexMatches, InCall, RemovesLive
  <2>2. ListedWhileAlive'
    BY DEF ListedWhileAlive
  <2>3. RemovesLive'
    BY DEF RemovesLive, MutexMatches, ListedWhileAlive
  <2>4. OneResponse'
    BY DEF OneResponse
  <2>5. NeverAstray'
    BY DEF NeverAstray
  <2> QED BY <2>1, <2>2, <2>3, <2>4, <2>5 DEF IndInv
<1>12. CASE removeConnection
  <2> USE <1>t, <1>12 DEF removeConnection, TypeOK, server, wire, client
  <2>1. MutexMatches'
    BY DEF MutexMatches, InCall
  <2>2. ListedWhileAlive'
    BY DEF ListedWhileAlive, RemovesLive
  <2>3. RemovesLive'
    BY DEF RemovesLive
  <2>4. OneResponse'
    BY DEF OneResponse
  <2>5. NeverAstray'
    BY DEF NeverAstray, MutexMatches, InCall, RemovesLive, ListedWhileAlive
  <2> QED BY <2>1, <2>2, <2>3, <2>4, <2>5 DEF IndInv
<1>13. ASSUME NEW c \in Calls, LinkBreaks(c) PROVE IndInv'
  <2> USE <1>t, <1>13 DEF LinkBreaks, TypeOK, server, wire, client
  <2>1. MutexMatches'
    BY DEF MutexMatches, InCall
  <2>2. ListedWhileAlive'
    BY DEF ListedWhileAlive
  <2>3. RemovesLive'
    BY DEF RemovesLive
  <2>4. OneResponse'
    BY DEF OneResponse
  <2>5. NeverAstray'
    BY DEF NeverAstray
  <2> QED BY <2>1, <2>2, <2>3, <2>4, <2>5 DEF IndInv
<1> QED
  BY <1>1, <1>2, <1>3, <1>4, <1>5, <1>6, <1>7, <1>8, <1>9, <1>10, <1>11, <1>12, <1>13 DEF Next,
     Serve, Poll, Call

-----------------------------------------------------------------------------
\* resp_cb of a call runs at most once, although request, response and the end of the
\* connection cross each other.
AnsweredAtMostOnce == \A c \in Calls : answers[c] <= 1

\* The invariant of the service calls, for any number of calls and any order of binding.
THEOREM CallsInvariant == Spec => []IndInv
BY InitInv, StepInv, PTL DEF Spec

\* The poll thread always finds the call that it has to remove, and never runs an object
\* that removeConnection has deleted.
THEOREM PollThreadNeverAstray == Spec => []NeverAstray
<1>1. IndInv => NeverAstray
  BY DEF IndInv
<1> QED BY <1>1, CallsInvariant, PTL

\* ServiceResponseT::call hands a response to the application at most once per call.
THEOREM OneAnswerPerCall == Spec => []AnsweredAtMostOnce
<1>1. IndInv => AnsweredAtMostOnce
  BY DEF IndInv, OneResponse, AnsweredAtMostOnce
<1> QED BY <1>1, CallsInvariant, PTL
=============================================================================
