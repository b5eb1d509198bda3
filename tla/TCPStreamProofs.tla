-------------------------- MODULE TCPStreamProofs ---------------------------
(***************************************************************************)
(* What a subscriber over TCP is sent, for every value of the constants.   *)
(*                                                                         *)
(* Of the bytes of one connection: the two state machines of module        *)
(* Framing implement MessageChannel for every base and width of the        *)
(* numbers, every set of messages and every way the kernel cuts the stream *)
(* into pieces that CutZeros leaves.                                       *)
(*                                                                         *)
(* Of the connections of a publisher (module TCPPublish), for any number   *)
(* of subscribers and of messages: connections_ names exactly the open     *)
(* ones, no subscriber misses a message in the middle, and the object      *)
(* leaves no open connection behind.                                       *)
(***************************************************************************)
EXTENDS TCPPublish, Framing, SequenceTheorems, WellFoundedInduction, TLAPS

(***************************************************************************)
(* Induction and recursion up to a natural number.                         *)
(***************************************************************************)

\* Induction over 0 .. N, for the set of the numbers a statement holds for.
LEMMA UpTo ==
  ASSUME NEW N \in Nat, NEW S, 0 \in S,
         \A i \in 1 .. N : (i - 1) \in S => i \in S
  PROVE  \A i \in 0 .. N : i \in S
<1> DEFINE T == {i \in 0 .. N : i \notin S}
<1> SUFFICES ASSUME T # {} PROVE FALSE
  OBVIOUS
<1>1. IsWellFoundedOn(OpToRel(<, Nat), Nat)
  BY NatLessThanWellFounded
<1>2. T \subseteq Nat
  OBVIOUS
<1>3. \E x \in T : \A y \in T : ~ (<<y, x>> \in OpToRel(<, Nat))
  <2> HIDE DEF T
  <2> QED BY <1>1, <1>2, WFMin
<1>4. PICK x \in T : \A y \in T : ~ (<<y, x>> \in OpToRel(<, Nat))
  BY <1>3
<1>5. x \in 1 .. N
  OBVIOUS
<1>6. <<x - 1, x>> \in OpToRel(<, Nat)
  BY <1>5 DEF OpToRel
<1>7. x - 1 \notin T
  BY <1>4, <1>6
<1> QED BY <1>5, <1>7

\* f starts with b, and G makes each value from the one before.
IsRecursive(f, M, D, b, G) ==
  /\ f \in [0 .. M -> D]
  /\ f[0] = b
  /\ \A i \in 1 .. M : f[i] = G[<<f[i - 1], i>>]

\* A recursive function on 0 .. M exists when each of its steps stays in a set.
LEMMA Recursion ==
  ASSUME NEW M \in Nat, NEW D, NEW b \in D, NEW G \in [D \X (1 .. M) -> D]
  PROVE  \E f : IsRecursive(f, M, D, b, G)
<1> DEFINE S == {n \in 0 .. M : \E f : IsRecursive(f, n, D, b, G)}
<1>1. 0 \in S
  <2> DEFINE f == [i \in 0 .. 0 |-> b]
  <2>1. f \in [0 .. 0 -> D] /\ f[0] = b /\ \A i \in 1 .. 0 : FALSE
    OBVIOUS
  <2>2. IsRecursive(f, 0, D, b, G)
    BY <2>1 DEF IsRecursive
  <2> QED BY <2>2
<1>2. ASSUME NEW n \in 1 .. M, n - 1 \in S
      PROVE  n \in S
  <2>1. PICK f : IsRecursive(f, n - 1, D, b, G)
    BY <1>2
  <2> DEFINE g == [i \in 0 .. n |-> IF i = n THEN G[<<f[n - 1], n>>] ELSE f[i]]
  <2>2. f[n - 1] \in D
    BY <2>1 DEF IsRecursive
  <2>3. g \in [0 .. n -> D]
    BY <2>1, <2>2 DEF IsRecursive
  <2>4. g[n] = G[<<f[n - 1], n>>] /\ \A i \in 0 .. (n - 1) : g[i] = f[i]
    OBVIOUS
  <2> HIDE DEF g
  <2>5. g[0] = b
    BY <2>1, <2>4 DEF IsRecursive
  <2>6. ASSUME NEW i \in 1 .. n
        PROVE  g[i] = G[<<g[i - 1], i>>]
    <3>1. CASE i = n
      <4>1. g[n - 1] = f[n - 1]
        BY <2>4
      <4> QED BY <4>1, <3>1, <2>4
    <3>2. CASE i # n
      <4>1. f[i] = G[<<f[i - 1], i>>]
        BY <2>1, <3>2 DEF IsRecursive
      <4>2. g[i] = f[i] /\ g[i - 1] = f[i - 1]
        BY <2>4, <3>2
      <4> QED BY <4>1, <4>2
    <3> QED BY <3>1, <3>2
  <2>7. IsRecursive(g, n, D, b, G)
    BY <2>3, <2>5, <2>6 DEF IsRecursive
  <2> QED BY <2>7
<1>3. M \in S
  <2> HIDE DEF S
  <2> QED BY <1>1, <1>2, UpTo
<1> QED BY <1>3

(***************************************************************************)
(* Numbers on the wire.                                                    *)
(***************************************************************************)

LEMMA Division ==
  ASSUME NEW n \in Nat, NEW b \in Nat, b > 1
  PROVE  /\ n \div b \in Nat
         /\ n % b \in 0 .. (b - 1)
         /\ n = (n % b) + b * (n \div b)
OBVIOUS

LEMMA RestIs ==
  ASSUME NEW n \in Nat
  PROVE  /\ Rest(n) \in [0 .. Width -> Nat]
         /\ Rest(n)[0] = n
         /\ \A i \in 1 .. Width : Rest(n)[i] = Rest(n)[i - 1] \div Base
<1>a. Width \in Nat /\ Base \in Nat /\ Base > 1
  BY FramingAssumption
<1> DEFINE G == [p \in Nat \X (1 .. Width) |-> p[1] \div Base]
           e == CHOOSE f : f = [i \in 0 .. Width |-> IF i = 0 THEN n ELSE f[i - 1] \div Base]
<1>1. G \in [Nat \X (1 .. Width) -> Nat]
  BY <1>a, Division
<1>2. \A a \in Nat, i \in 1 .. Width : G[<<a, i>>] = a \div Base
  OBVIOUS
<1>3. Rest(n) = e
  BY DEF Rest
<1> HIDE DEF G
<1>4. PICK f : IsRecursive(f, Width, Nat, n, G)
  BY <1>1, <1>a, Recursion
<1>5. ASSUME NEW i \in 1 .. Width
      PROVE  f[i] = f[i - 1] \div Base
  <2>1. f[i] = G[<<f[i - 1], i>>] /\ i - 1 \in 0 .. Width
    BY <1>4, <1>a DEF IsRecursive
  <2>2. f[i - 1] \in Nat
    BY <1>4, <2>1 DEF IsRecursive
  <2> QED BY <1>2, <2>1, <2>2
<1>6. f = [i \in 0 .. Width |-> IF i = 0 THEN n ELSE f[i - 1] \div Base]
  <2>1. f \in [0 .. Width -> Nat] /\ f[0] = n
    BY <1>4 DEF IsRecursive
  <2>2. \A i \in 0 .. Width : f[i] = IF i = 0 THEN n ELSE f[i - 1] \div Base
    BY <1>5, <2>1, <1>a
  <2> QED BY <2>1, <2>2
<1>7. e = [i \in 0 .. Width |-> IF i = 0 THEN n ELSE e[i - 1] \div Base]
  BY <1>6
<1> HIDE DEF e
<1>b. \A i \in 0 .. Width : e[i] = IF i = 0 THEN n ELSE e[i - 1] \div Base
  <2> DEFINE F(i) == IF i = 0 THEN n ELSE e[i - 1] \div Base
  <2>1. e = [i \in 0 .. Width |-> F(i)]
    BY <1>7
  <2> HIDE DEF F
  <2>2. \A i \in 0 .. Width : e[i] = F(i)
    BY <2>1
  <2> QED BY <2>2 DEF F
<1>8. e[0] = n /\ \A i \in 1 .. Width : e[i] = e[i - 1] \div Base
  BY <1>b, <1>a
<1> DEFINE S == {i \in 0 .. Width : e[i] \in Nat}
<1>9. \A i \in 0 .. Width : i \in S
  <2>1. 0 \in S
    BY <1>8, <1>a
  <2>2. \A i \in 1 .. Width : (i - 1) \in S => i \in S
    BY <1>8, <1>a, Division
  <2> HIDE DEF S
  <2> QED BY <2>1, <2>2, <1>a, UpTo
<1>10. e \in [0 .. Width -> Nat]
  BY <1>7, <1>9
<1> QED BY <1>3, <1>8, <1>10

\* The digits of a number that fits are those of the number.
LEMMA EncodeIs ==
  ASSUME NEW n \in Nat
  PROVE  Encode(n) \in Seq(Byte) /\ Len(Encode(n)) = Width
<1>a. Width \in Nat /\ Base \in Nat /\ Base > 1
  BY FramingAssumption
<1>1. ASSUME NEW i \in 1 .. Width
      PROVE  Rest(n)[i - 1] % Base \in Byte
  <2>1. Rest(n)[i - 1] \in Nat
    <3>1. i - 1 \in 0 .. Width
      BY <1>a
    <3> QED BY <3>1, RestIs
  <2> QED BY <2>1, <1>a, Division DEF Byte
<1> QED BY <1>1, <1>a DEF Encode

LEMMA ValueIs ==
  ASSUME NEW d \in Seq(Byte)
  PROVE  \E last : /\ last[0] = 0
                   /\ \A i \in 1 .. Len(d) : last[i] = d[Len(d) - i + 1] + Base * last[i - 1]
                   /\ Value(d) = last[Len(d)]
<1>a. Base \in Nat /\ Base > 1 /\ Len(d) \in Nat
  BY FramingAssumption
<1> DEFINE G == [p \in Nat \X (1 .. Len(d)) |-> d[Len(d) - p[2] + 1] + Base * p[1]]
           e == CHOOSE f : f = [i \in 0 .. Len(d) |->
                  IF i = 0 THEN 0 ELSE d[Len(d) - i + 1] + Base * f[i - 1]]
<1>1. G \in [Nat \X (1 .. Len(d)) -> Nat]
  <2>1. \A i \in 1 .. Len(d) : d[Len(d) - i + 1] \in Nat
    BY <1>a DEF Byte
  <2>2. \A a \in Nat, i \in 1 .. Len(d) : d[Len(d) - i + 1] + Base * a \in Nat
    BY <1>a, <2>1
  <2> QED BY <2>2
<1>2. \A a \in Nat, i \in 1 .. Len(d) : G[<<a, i>>] = d[Len(d) - i + 1] + Base * a
  OBVIOUS
<1>3. Value(d) = e[Len(d)]
  BY DEF Value
<1> HIDE DEF G
<1>4. PICK f : IsRecursive(f, Len(d), Nat, 0, G)
  BY <1>1, <1>a, Recursion
<1>5. ASSUME NEW i \in 1 .. Len(d)
      PROVE  f[i] = d[Len(d) - i + 1] + Base * f[i - 1]
  <2>1. f[i] = G[<<f[i - 1], i>>] /\ i - 1 \in 0 .. Len(d)
    BY <1>4, <1>a DEF IsRecursive
  <2>2. f[i - 1] \in Nat
    BY <1>4, <2>1 DEF IsRecursive
  <2> QED BY <1>2, <2>1, <2>2
<1>6. f = [i \in 0 .. Len(d) |-> IF i = 0 THEN 0 ELSE d[Len(d) - i + 1] + Base * f[i - 1]]
  <2>1. f \in [0 .. Len(d) -> Nat] /\ f[0] = 0
    BY <1>4 DEF IsRecursive
  <2>2. \A i \in 0 .. Len(d) : f[i] = IF i = 0 THEN 0 ELSE d[Len(d) - i + 1] + Base * f[i - 1]
    BY <1>5, <2>1, <1>a
  <2> QED BY <2>1, <2>2
<1>7. e = [i \in 0 .. Len(d) |-> IF i = 0 THEN 0 ELSE d[Len(d) - i + 1] + Base * e[i - 1]]
  BY <1>6
<1> HIDE DEF e
<1>b. \A i \in 0 .. Len(d) : e[i] = IF i = 0 THEN 0 ELSE d[Len(d) - i + 1] + Base * e[i - 1]
  <2> DEFINE F(i) == IF i = 0 THEN 0 ELSE d[Len(d) - i + 1] + Base * e[i - 1]
  <2>1. e = [i \in 0 .. Len(d) |-> F(i)]
    BY <1>7
  <2> HIDE DEF F
  <2>2. \A i \in 0 .. Len(d) : e[i] = F(i)
    BY <2>1
  <2> QED BY <2>2 DEF F
<1>8. e[0] = 0 /\ \A i \in 1 .. Len(d) : e[i] = d[Len(d) - i + 1] + Base * e[i - 1]
  BY <1>b, <1>a
<1> QED BY <1>3, <1>8

\* The value of the digits of a number is the number, if it fits.
LEMMA RoundTrip ==
  ASSUME NEW n \in Nat, Fits(n)
  PROVE  Value(Encode(n)) = n
<1>a. Width \in Nat /\ Base \in Nat /\ Base > 1
  BY FramingAssumption
<1> DEFINE d == Encode(n)
           r == Rest(n)
<1>1. d \in Seq(Byte) /\ Len(d) = Width
  BY EncodeIs
<1>2. PICK last : /\ last[0] = 0
                  /\ \A i \in 1 .. Width : last[i] = d[Width - i + 1] + Base * last[i - 1]
                  /\ Value(d) = last[Width]
  BY <1>1, ValueIs
<1>3. \A i \in 1 .. Width : d[i] = r[i - 1] % Base
  BY DEF Encode
<1>4. /\ r \in [0 .. Width -> Nat] /\ r[0] = n /\ r[Width] = 0
      /\ \A i \in 1 .. Width : r[i] = r[i - 1] \div Base
  BY RestIs DEF Fits
<1> HIDE DEF d, r
<1> DEFINE S == {i \in 0 .. Width : last[i] = r[Width - i]}
<1>5. 0 \in S
  BY <1>2, <1>4, <1>a
<1>6. ASSUME NEW i \in 1 .. Width, i - 1 \in S
      PROVE  i \in S
  <2> DEFINE j == Width - i + 1
  <2>1. j \in 1 .. Width /\ Width - (i - 1) = j /\ Width - i = j - 1
    BY <1>a
  <2>2. last[i] = d[j] + Base * last[i - 1] /\ last[i - 1] = r[j]
    BY <1>2, <1>6, <2>1
  <2>3. d[j] = r[j - 1] % Base /\ r[j] = r[j - 1] \div Base /\ r[j - 1] \in Nat
    BY <1>3, <1>4, <2>1, <1>a
  <2> HIDE DEF j
  <2>4. ASSUME NEW a \in Nat, r[j - 1] = a
        PROVE  last[i] = a
    <3>1. a = (a % Base) + Base * (a \div Base)
      BY <1>a, Division
    <3>2. last[i] = (a % Base) + Base * (a \div Base)
      BY <2>2, <2>3, <2>4
    <3> QED BY <3>1, <3>2
  <2>5. last[i] = r[j - 1]
    BY <2>3, <2>4
  <2> QED BY <2>1, <2>5
<1>7. Width \in S
  <2> HIDE DEF S
  <2> QED BY <1>5, <1>6, <1>a, UpTo
<1> QED BY <1>2, <1>4, <1>7, <1>a DEF d

(***************************************************************************)
(* Positions in the stream that a sequence s of messages makes: a byte is  *)
(* byte o + 1 of the number of frames of message k, of the size of its     *)
(* frame f, or of the data of that frame.                                  *)
(***************************************************************************)

Position == [k : Nat, f : Nat, part : {"num", "size", "data"}, o : Nat]

\* The bytes of the field of a position.
Content(s, p) ==
  IF p.part = "num" THEN Encode(Len(s[p.k]))
  ELSE IF p.part = "size" THEN Encode(Len(s[p.k][p.f]))
  ELSE s[p.k][p.f]

\* A byte of the stream is there.
HasByte(s, p) ==
  /\ p \in Position
  /\ p.k \in 1 .. Len(s)
  /\ p.f \in 1 .. Len(s[p.k])
  /\ p.o < Len(Content(s, p))

\* The first position behind a frame, and behind a field.  An empty frame has no data.
NextFrame(s, p) ==
  IF p.f < Len(s[p.k]) THEN [k |-> p.k, f |-> p.f + 1, part |-> "size", o |-> 0]
                       ELSE [k |-> p.k + 1, f |-> 1, part |-> "num", o |-> 0]
Behind(s, p) ==
  IF p.part = "num" THEN [k |-> p.k, f |-> 1, part |-> "size", o |-> 0]
  ELSE IF p.part = "size" /\ s[p.k][p.f] # <<>>
    THEN [k |-> p.k, f |-> p.f, part |-> "data", o |-> 0]
    ELSE NextFrame(s, p)

\* The position n bytes further, at most to the end of the field.
Further(s, p, n) ==
  IF p.o + n < Len(Content(s, p)) THEN [p EXCEPT !.o = p.o + n] ELSE Behind(s, p)

\* w holds the bytes from position r to the one before position x; t are the positions.
Along(s, w, r, x, t) ==
  /\ t \in [0 .. Len(w) -> Position]
  /\ t[0] = r /\ t[Len(w)] = x
  /\ \A i \in 1 .. Len(w) : /\ HasByte(s, t[i - 1])
                            /\ w[i] = Content(s, t[i - 1])[t[i - 1].o + 1]
                            /\ t[i] = Further(s, t[i - 1], 1)
Stream(s, w, r, x) == \E t : Along(s, w, r, x, t)

LEMMA MessageIs ==
  ASSUME NEW m \in Messages
  PROVE  /\ m \in Seq(Seq(Byte)) /\ Len(m) \in Nat \ {0} /\ Fits(Len(m))
         /\ \A i \in 1 .. Len(m) : m[i] \in Seq(Byte) /\ Len(m[i]) \in Nat /\ Fits(Len(m[i]))
<1>1. m \in Seq(Seq(Byte)) /\ m # <<>>
  BY FramingAssumption
<1>2. Fits(Len(m)) /\ \A i \in 1 .. Len(m) : Fits(Len(m[i]))
  BY FramingAssumption
<1>3. Len(m) \in Nat \ {0}
  BY <1>1
<1>4. \A i \in 1 .. Len(m) : m[i] \in Seq(Byte) /\ Len(m[i]) \in Nat
  BY <1>1
<1> QED BY <1>1, <1>2, <1>3, <1>4

LEMMA ContentIs ==
  ASSUME NEW s \in Seq(Messages), NEW p \in Position,
         p.k \in 1 .. Len(s), p.f \in 1 .. Len(s[p.k])
  PROVE  /\ Content(s, p) \in Seq(Byte) /\ Len(Content(s, p)) \in Nat
         /\ p.part # "data" => Len(Content(s, p)) = Width
<1>1. s[p.k] \in Messages
  OBVIOUS
<1>2. Len(s[p.k]) \in Nat /\ s[p.k][p.f] \in Seq(Byte) /\ Len(s[p.k][p.f]) \in Nat
  BY <1>1, MessageIs
<1>3. /\ Encode(Len(s[p.k])) \in Seq(Byte) /\ Len(Encode(Len(s[p.k]))) = Width
      /\ Encode(Len(s[p.k][p.f])) \in Seq(Byte) /\ Len(Encode(Len(s[p.k][p.f]))) = Width
  BY <1>2, EncodeIs
<1>4. Width \in Nat
  BY FramingAssumption
<1>5. CASE p.part = "num"
  <2>1. Content(s, p) = Encode(Len(s[p.k]))
    BY <1>5 DEF Content
  <2> QED BY <1>3, <1>4, <2>1
<1>6. CASE p.part = "size"
  <2>1. Content(s, p) = Encode(Len(s[p.k][p.f]))
    BY <1>6 DEF Content
  <2> QED BY <1>3, <1>4, <2>1
<1>7. CASE p.part = "data"
  <2>1. Content(s, p) = s[p.k][p.f]
    BY <1>7 DEF Content
  <2> QED BY <1>2, <1>7, <2>1
<1> QED BY <1>5, <1>6, <1>7 DEF Position

\* Nothing but the offset changes within a field.
LEMMA WithinField ==
  ASSUME NEW s \in Seq(Messages), NEW p, HasByte(s, p),
         NEW n \in Nat, p.o + n < Len(Content(s, p))
  PROVE  /\ Further(s, p, n) = [p EXCEPT !.o = p.o + n]
         /\ HasByte(s, Further(s, p, n))
         /\ Content(s, Further(s, p, n)) = Content(s, p)
         /\ Further(s, p, n).o = p.o + n
         /\ Further(s, Further(s, p, n), 1) = Further(s, p, n + 1)
<1> DEFINE c == Content(s, p)
           q == [p EXCEPT !.o = p.o + n]
<1>1. p \in Position /\ p.o \in Nat
  BY DEF HasByte, Position
<1>2. c \in Seq(Byte) /\ Len(c) \in Nat
  BY <1>1, ContentIs DEF HasByte
<1>3. Further(s, p, n) = q
  BY DEF Further
<1>4. q \in Position /\ q.k = p.k /\ q.f = p.f /\ q.part = p.part /\ q.o = p.o + n
  BY <1>1 DEF Position
<1>5. Content(s, q) = c
  BY <1>4 DEF Content
<1>6. HasByte(s, q)
  BY <1>4, <1>5 DEF HasByte
<1>7. Behind(s, q) = Behind(s, p)
  BY <1>4 DEF Behind, NextFrame
<1>8. [q EXCEPT !.o = q.o + 1] = [p EXCEPT !.o = p.o + (n + 1)]
  <2>1. q.o + 1 = p.o + (n + 1)
    BY <1>1, <1>4
  <2>2. \A z : [q EXCEPT !.o = z] = [p EXCEPT !.o = z]
    BY <1>1 DEF Position
  <2> QED BY <2>1, <2>2
<1>9. Further(s, q, 1) = Further(s, p, n + 1)
  <2>1. q.o + 1 = p.o + (n + 1)
    BY <1>1, <1>4
  <2> HIDE DEF q
  <2> QED BY <1>5, <1>7, <1>8, <2>1 DEF Further
<1> QED BY <1>3, <1>4, <1>5, <1>6, <1>9

LEMMA FurtherIs ==
  ASSUME NEW s \in Seq(Messages), NEW p, HasByte(s, p), NEW n \in Nat
  PROVE  Further(s, p, n) \in Position /\ Further(s, p, 0) = p
<1>1. p \in Position /\ p.o \in Nat /\ p.k \in Nat /\ p.f \in Nat
  BY DEF HasByte, Position
<1>2. Behind(s, p) \in Position
  BY <1>1 DEF Behind, NextFrame, Position
<1>3. [p EXCEPT !.o = p.o + n] \in Position
  BY <1>1 DEF Position
<1>4. [p EXCEPT !.o = p.o + 0] = p
  BY <1>1 DEF Position
<1>5. p.o + 0 < Len(Content(s, p))
  BY <1>1 DEF HasByte
<1> QED BY <1>2, <1>3, <1>4, <1>5 DEF Further

\* The n elements of a sequence behind the first a.
LEMMA Slice ==
  ASSUME NEW S, NEW c \in Seq(S), NEW a \in Nat, NEW n \in Nat, a + n <= Len(c)
  PROVE  /\ SubSeq(c, a + 1, a + n) \in Seq(S)
         /\ Len(SubSeq(c, a + 1, a + n)) = n
         /\ \A i \in 1 .. n : SubSeq(c, a + 1, a + n)[i] = c[a + i]
<1> DEFINE l == a + 1
           h == a + n
<1>1. l \in 1 .. (Len(c) + 1) /\ h \in (l - 1) .. Len(c) /\ h - l + 1 = n
  OBVIOUS
<1>2. \A i \in 1 .. n : l + i - 1 = a + i
  OBVIOUS
<1> HIDE DEF l, h
<1>3. /\ SubSeq(c, l, h) \in Seq(S) /\ Len(SubSeq(c, l, h)) = h - l + 1
      /\ \A i \in 1 .. (h - l + 1) : SubSeq(c, l, h)[i] = c[l + i - 1]
  BY <1>1, SubSeqProperties
<1>4. \A i \in 1 .. n : SubSeq(c, l, h)[i] = c[a + i]
  BY <1>1, <1>2, <1>3
<1> QED BY <1>1, <1>3, <1>4 DEF l, h

\* The bytes of a call of send() go where the stream ends.
LEMMA StreamWritten ==
  ASSUME NEW s \in Seq(Messages), NEW w \in Seq(Byte), NEW r, NEW x, Stream(s, w, r, x),
         HasByte(s, x), NEW n \in Nat, x.o + n <= Len(Content(s, x))
  PROVE  /\ w \o SubSeq(Content(s, x), x.o + 1, x.o + n) \in Seq(Byte)
         /\ Stream(s, w \o SubSeq(Content(s, x), x.o + 1, x.o + n), r, Further(s, x, n))
<1> DEFINE c == Content(s, x)
           b == SubSeq(c, x.o + 1, x.o + n)
           v == w \o b
           L == Len(w)
<1>1. PICK t : Along(s, w, r, x, t)
  BY DEF Stream
<1>2. x \in Position /\ x.o \in Nat
  BY DEF HasByte, Position
<1>3. c \in Seq(Byte) /\ Len(c) \in Nat /\ x.o + n <= Len(c)
  BY <1>2, ContentIs DEF HasByte
<1> HIDE DEF c
<1>4. b \in Seq(Byte) /\ Len(b) = n /\ \A i \in 1 .. n : b[i] = c[x.o + i]
  <2>1. c \in Seq(Byte) /\ x.o \in Nat /\ x.o + n <= Len(c)
    BY <1>2, <1>3
  <2>2. ASSUME NEW a \in Nat, a + n <= Len(c)
        PROVE  /\ SubSeq(c, a + 1, a + n) \in Seq(Byte)
               /\ Len(SubSeq(c, a + 1, a + n)) = n
               /\ \A i \in 1 .. n : SubSeq(c, a + 1, a + n)[i] = c[a + i]
    BY <2>1, <2>2, Slice
  <2> QED BY <2>1, <2>2
<1> HIDE DEF b
<1>5. /\ v \in Seq(Byte) /\ L \in Nat /\ Len(v) = L + n
      /\ \A i \in 1 .. L : v[i] = w[i]
      /\ \A i \in 1 .. n : v[L + i] = c[x.o + i]
  BY <1>4
<1> HIDE DEF v
<1> DEFINE g == [i \in 0 .. (L + n) |-> IF i <= L THEN t[i] ELSE Further(s, x, i - L)]
<1>6. /\ t \in [0 .. L -> Position] /\ t[0] = r /\ t[L] = x
      /\ \A i \in 1 .. L : /\ HasByte(s, t[i - 1])
                           /\ w[i] = Content(s, t[i - 1])[t[i - 1].o + 1]
                           /\ t[i] = Further(s, t[i - 1], 1)
  BY <1>1 DEF Along
<1>7. Further(s, x, 0) = x /\ \A i \in Nat : Further(s, x, i) \in Position
  BY FurtherIs
<1>8. /\ g \in [0 .. (L + n) -> Position]
      /\ \A i \in 0 .. L : g[i] = t[i]
      /\ \A i \in 0 .. n : g[L + i] = Further(s, x, i)
  <2>1. \A i \in 0 .. L : g[i] = t[i]
    BY <1>5
  <2>2. ASSUME NEW i \in 0 .. n
        PROVE  g[L + i] = Further(s, x, i)
    <3>1. L + i \in 0 .. (L + n) /\ L + i - L = i
      BY <1>5
    <3>2. CASE i = 0
      BY <3>1, <3>2, <1>5, <1>6, <1>7
    <3>3. CASE i # 0
      <4>1. ~ (L + i <= L)
        BY <3>3, <1>5
      <4> QED BY <3>1, <4>1
    <3> QED BY <3>2, <3>3
  <2>3. ASSUME NEW i \in 0 .. (L + n)
        PROVE  (IF i <= L THEN t[i] ELSE Further(s, x, i - L)) \in Position
    <3>1. CASE i <= L
      <4>1. i \in 0 .. L
        BY <3>1, <1>5
      <4> QED BY <4>1, <3>1, <1>6
    <3>2. CASE ~ (i <= L)
      <4>1. i - L \in Nat
        BY <3>2, <1>5
      <4> QED BY <4>1, <3>2, <1>7
    <3> QED BY <3>1, <3>2
  <2>4. g \in [0 .. (L + n) -> Position]
    BY <2>3
  <2> QED BY <2>1, <2>2, <2>4
<1> HIDE DEF g
<1>9. ASSUME NEW i \in 1 .. (L + n)
      PROVE  /\ HasByte(s, g[i - 1])
             /\ v[i] = Content(s, g[i - 1])[g[i - 1].o + 1]
             /\ g[i] = Further(s, g[i - 1], 1)
  <2>1. CASE i <= L
    <3>1. i \in 1 .. L /\ i \in 0 .. L /\ i - 1 \in 0 .. L
      BY <2>1, <1>5
    <3> QED BY <3>1, <1>5, <1>6, <1>8
  <2>2. CASE i > L
    <3> DEFINE j == i - L - 1
    <3>1. j \in 0 .. n /\ j + 1 \in 1 .. n /\ j + 1 \in 0 .. n /\ i = L + (j + 1) /\ i - 1 = L + j
      BY <2>2, <1>5
    <3> HIDE DEF j
    <3>2. g[i - 1] = Further(s, x, j) /\ g[i] = Further(s, x, j + 1)
      BY <3>1, <1>8
    <3>3. x.o + j < Len(c) /\ j \in Nat
      BY <3>1, <1>2, <1>3
    <3>4. /\ HasByte(s, g[i - 1]) /\ Content(s, g[i - 1]) = c
          /\ g[i - 1].o = x.o + j /\ g[i] = Further(s, g[i - 1], 1)
      BY <3>2, <3>3, WithinField DEF c
    <3>5. v[i] = c[x.o + (j + 1)]
      <4>1. v[L + (j + 1)] = c[x.o + (j + 1)]
        <5>1. j + 1 \in 1 .. n
          BY <3>1
        <5>2. \A k \in 1 .. n : v[L + k] = c[x.o + k]
          BY <1>5
        <5> QED BY ONLY <5>1, <5>2
      <4> QED BY <3>1, <4>1
    <3>6. x.o + (j + 1) = x.o + j + 1
      <4>1. x.o \in Nat /\ j \in Nat
        BY <3>3, <1>2
      <4> QED BY ONLY <4>1
    <3> QED BY <3>4, <3>5, <3>6
  <2> QED BY <2>1, <2>2, <1>5
<1>10. g[0] = r /\ g[L + n] = Further(s, x, n)
  BY <1>5, <1>6, <1>8
<1>11. Along(s, v, r, Further(s, x, n), g)
  BY <1>5, <1>8, <1>9, <1>10 DEF Along
<1> QED BY <1>5, <1>11 DEF Stream, v, b, c

\* What there is to receive begins with the byte of the reader's position.
LEMMA StreamBegins ==
  ASSUME NEW s \in Seq(Messages), NEW w \in Seq(Byte), NEW r, NEW x, Stream(s, w, r, x),
         Len(w) >= 1
  PROVE  HasByte(s, r)
<1>1. PICK t : Along(s, w, r, x, t)
  BY DEF Stream
<1>2. 1 \in 1 .. Len(w)
  OBVIOUS
<1>3. HasByte(s, t[1 - 1]) /\ t[0] = r
  BY <1>1, <1>2 DEF Along
<1> QED BY <1>3

\* The bytes of a call of recv() are the next ones of the field.
LEMMA StreamRead ==
  ASSUME NEW s \in Seq(Messages), NEW w \in Seq(Byte), NEW r, NEW x, Stream(s, w, r, x),
         HasByte(s, r), NEW n \in 1 .. Len(w), r.o + n <= Len(Content(s, r))
  PROVE  /\ SubSeq(w, 1, n) = SubSeq(Content(s, r), r.o + 1, r.o + n)
         /\ SubSeq(w, n + 1, Len(w)) \in Seq(Byte)
         /\ Stream(s, SubSeq(w, n + 1, Len(w)), Further(s, r, n), x)
<1> DEFINE c == Content(s, r)
           L == Len(w)
           v == SubSeq(w, n + 1, L)
<1>1. PICK t : Along(s, w, r, x, t)
  BY DEF Stream
<1>2. r \in Position /\ r.o \in Nat /\ L \in Nat /\ n \in Nat /\ n <= L
  BY DEF HasByte, Position
<1>3. c \in Seq(Byte) /\ Len(c) \in Nat /\ r.o + n <= Len(c)
  BY <1>2, ContentIs DEF HasByte
<1> HIDE DEF c
<1>4. /\ t \in [0 .. L -> Position] /\ t[0] = r /\ t[L] = x
      /\ \A i \in 1 .. L : /\ HasByte(s, t[i - 1])
                           /\ w[i] = Content(s, t[i - 1])[t[i - 1].o + 1]
                           /\ t[i] = Further(s, t[i - 1], 1)
  BY <1>1 DEF Along
<1> DEFINE S == {i \in 0 .. n : t[i] = Further(s, r, i)}
<1>5. 0 \in S
  BY <1>2, <1>4, FurtherIs
<1>6. ASSUME NEW i \in 1 .. n, i - 1 \in S
      PROVE  i \in S /\ w[i] = c[r.o + i]
  <2>1. i - 1 \in Nat /\ r.o + (i - 1) < Len(c) /\ i \in 1 .. L /\ (i - 1) + 1 = i
        /\ r.o + (i - 1) + 1 = r.o + i
    BY <1>2, <1>3
  <2>2. t[i - 1] = Further(s, r, i - 1)
    BY <1>6
  <2>3. /\ Content(s, t[i - 1]) = c /\ t[i - 1].o = r.o + (i - 1)
        /\ Further(s, t[i - 1], 1) = Further(s, r, (i - 1) + 1)
    BY <2>1, <2>2, WithinField DEF c
  <2>4. t[i] = Further(s, t[i - 1], 1) /\ w[i] = Content(s, t[i - 1])[t[i - 1].o + 1]
    BY <2>1, <1>4
  <2> QED BY <2>1, <2>3, <2>4
<1>7. \A i \in 0 .. n : i \in S
  <2>1. \A i \in 1 .. n : i - 1 \in S => i \in S
    BY <1>6
  <2> HIDE DEF S
  <2> QED BY <1>2, <1>5, <2>1, UpTo
<1>8. \A i \in 1 .. n : w[i] = c[r.o + i]
  <2> TAKE i \in 1 .. n
  <2>1. i - 1 \in 0 .. n
    BY <1>2
  <2> QED BY <2>1, <1>6, <1>7
<1>9. SubSeq(w, 1, n) = SubSeq(c, r.o + 1, r.o + n)
  <2>1. /\ SubSeq(w, 1, n) \in Seq(Byte) /\ Len(SubSeq(w, 1, n)) = n
        /\ \A i \in 1 .. n : SubSeq(w, 1, n)[i] = w[i]
    BY <1>2
  <2>2. /\ SubSeq(c, r.o + 1, r.o + n) \in Seq(Byte) /\ Len(SubSeq(c, r.o + 1, r.o + n)) = n
        /\ \A i \in 1 .. n : SubSeq(c, r.o + 1, r.o + n)[i] = c[r.o + i]
    <3>1. c \in Seq(Byte) /\ r.o \in Nat /\ n \in Nat /\ r.o + n <= Len(c)
      BY <1>2, <1>3
    <3>2. ASSUME NEW a \in Nat, a + n <= Len(c)
          PROVE  /\ SubSeq(c, a + 1, a + n) \in Seq(Byte)
                 /\ Len(SubSeq(c, a + 1, a + n)) = n
                 /\ \A i \in 1 .. n : SubSeq(c, a + 1, a + n)[i] = c[a + i]
      BY ONLY <3>1, <3>2, a \in Nat, Slice
    <3> QED BY <3>1, <3>2
  <2> DEFINE g == SubSeq(w, 1, n)
             h == SubSeq(c, r.o + 1, r.o + n)
  <2>3. Len(g) = Len(h) /\ \A i \in 1 .. Len(g) : g[i] = h[i]
    BY <2>1, <2>2, <1>8
  <2>4. g \in Seq(Byte) /\ h \in Seq(Byte)
    BY <2>1, <2>2
  <2> HIDE DEF g, h
  <2>5. g = h
    BY <2>3, <2>4, SeqEqual
  <2> QED BY <2>5 DEF g, h
<1>10. /\ v \in Seq(Byte) /\ Len(v) = L - n
       /\ \A i \in 1 .. (L - n) : v[i] = w[n + i]
  BY <1>2
<1> HIDE DEF v
<1> DEFINE g == [i \in 0 .. (L - n) |-> t[n + i]]
<1>11. /\ g \in [0 .. (L - n) -> Position]
       /\ \A i \in 0 .. (L - n) : g[i] = t[n + i]
  <2>1. \A i \in 0 .. (L - n) : n + i \in 0 .. L
    BY <1>2
  <2>2. \A i \in 0 .. (L - n) : t[n + i] \in Position
    BY <2>1, <1>4
  <2> QED BY <2>2
<1> HIDE DEF g
<1>12. g[0] = Further(s, r, n) /\ g[L - n] = x
  <2>1. g[0] = t[n] /\ g[L - n] = t[L]
    <3>1. /\ 0 \in 0 .. (L - n) /\ L - n \in 0 .. (L - n)
          /\ n + 0 = n /\ n + (L - n) = L
      BY <1>2
    <3>2. g[0] = t[n + 0] /\ g[L - n] = t[n + (L - n)]
      BY <3>1, <1>11
    <3> QED BY <3>1, <3>2
  <2>2. t[L] = x
    BY <1>4
  <2>3. t[n] = Further(s, r, n)
    <3>1. n \in 0 .. n
      BY <1>2
    <3> QED BY <3>1, <1>7
  <2> QED BY <2>1, <2>2, <2>3
<1>13. ASSUME NEW i \in 1 .. (L - n)
       PROVE  /\ HasByte(s, g[i - 1])
              /\ v[i] = Content(s, g[i - 1])[g[i - 1].o + 1]
              /\ g[i] = Further(s, g[i - 1], 1)
  <2>1. /\ n + i \in 1 .. L /\ n + (i - 1) = n + i - 1
        /\ i \in 0 .. (L - n) /\ i - 1 \in 0 .. (L - n)
    BY <1>2
  <2>2. g[i] = t[n + i] /\ g[i - 1] = t[n + i - 1]
    BY <2>1, <1>11
  <2>3. /\ HasByte(s, t[n + i - 1])
        /\ w[n + i] = Content(s, t[n + i - 1])[t[n + i - 1].o + 1]
        /\ t[n + i] = Further(s, t[n + i - 1], 1)
    BY <2>1, <1>4
  <2>4. v[i] = w[n + i]
    BY <1>10
  <2> QED BY <2>2, <2>3, <2>4
<1>14. Along(s, v, Further(s, r, n), x, g)
  BY <1>10, <1>11, <1>12, <1>13 DEF Along
<1> QED BY <1>9, <1>10, <1>14 DEF Stream, v, c

\* A message that is accepted changes nothing before its place in the stream.
LEMMA StreamSent ==
  ASSUME NEW s \in Seq(Messages), NEW m \in Messages,
         NEW w \in Seq(Byte), NEW r, NEW x, Stream(s, w, r, x)
  PROVE  Stream(Append(s, m), w, r, x)
<1> DEFINE z == Append(s, m)
<1>1. PICK t : Along(s, w, r, x, t)
  BY DEF Stream
<1>2. ASSUME NEW p, HasByte(s, p)
      PROVE  /\ HasByte(z, p) /\ Content(z, p) = Content(s, p)
             /\ Further(z, p, 1) = Further(s, p, 1)
  <2>1. p.k \in 1 .. Len(z) /\ z[p.k] = s[p.k]
    BY <1>2 DEF HasByte
  <2>2. Content(z, p) = Content(s, p)
    BY <2>1 DEF Content
  <2>3. Behind(z, p) = Behind(s, p)
    BY <2>1 DEF Behind, NextFrame
  <2>4. HasByte(z, p)
    BY <1>2, <2>1, <2>2 DEF HasByte
  <2> QED BY <2>2, <2>3, <2>4 DEF Further
<1>3. Along(z, w, r, x, t)
  BY <1>1, <1>2 DEF Along
<1> QED BY <1>3 DEF Stream

(***************************************************************************)
(* Beginnings of a sequence, which is what the reader and the channel have *)
(* of it.                                                                  *)
(***************************************************************************)

Begins(S, a, c) == a \in Seq(S) /\ Len(a) <= Len(c) /\ \A i \in 1 .. Len(a) : a[i] = c[i]

LEMMA AllOfIt ==
  ASSUME NEW S, NEW c \in Seq(S), NEW a, Begins(S, a, c), Len(a) = Len(c)
  PROVE  a = c
BY SeqEqual DEF Begins

LEMMA BeginsEmpty ==
  ASSUME NEW S, NEW c \in Seq(S)
  PROVE  Begins(S, <<>>, c)
BY DEF Begins

LEMMA BeginsLonger ==
  ASSUME NEW S, NEW c \in Seq(S), NEW a, Begins(S, a, c), NEW n \in Nat, Len(a) + n <= Len(c)
  PROVE  /\ Begins(S, a \o SubSeq(c, Len(a) + 1, Len(a) + n), c)
         /\ Len(a \o SubSeq(c, Len(a) + 1, Len(a) + n)) = Len(a) + n
<1> DEFINE L == Len(a)
           b == SubSeq(c, L + 1, L + n)
           v == a \o b
<1>1. a \in Seq(S) /\ L \in Nat /\ \A i \in 1 .. L : a[i] = c[i]
  BY DEF Begins
<1>2. b \in Seq(S) /\ Len(b) = n /\ \A i \in 1 .. n : b[i] = c[L + i]
  <2> HIDE DEF L
  <2> QED BY <1>1, Slice DEF L
<1> HIDE DEF b
<1>3. /\ v \in Seq(S) /\ Len(v) = L + n
      /\ \A i \in 1 .. (L + n) : v[i] = IF i <= L THEN a[i] ELSE b[i - L]
  BY <1>1, <1>2, ConcatProperties
<1> HIDE DEF v
<1>4. ASSUME NEW i \in 1 .. (L + n)
      PROVE  v[i] = c[i]
  <2> HIDE DEF L
  <2>0. v[i] = IF i <= L THEN a[i] ELSE b[i - L]
    BY <1>3
  <2>1. CASE i <= L
    BY <1>1, <2>0, <2>1
  <2>2. CASE i > L
    <3>1. i - L \in 1 .. n /\ L + (i - L) = i
      BY <1>1, <2>2
    <3>2. v[i] = b[i - L]
      BY <1>1, <2>0, <2>2
    <3> QED BY <3>1, <3>2, <1>2
  <2> QED BY <2>1, <2>2, <1>1
<1> QED BY <1>3, <1>4 DEF Begins, b, v

LEMMA BeginsNext ==
  ASSUME NEW S, NEW c \in Seq(S), NEW a, Begins(S, a, c), Len(a) < Len(c)
  PROVE  /\ Begins(S, Append(a, c[Len(a) + 1]), c)
         /\ Len(Append(a, c[Len(a) + 1])) = Len(a) + 1
<1>1. a \in Seq(S) /\ Len(a) \in Nat /\ Len(c) \in Nat /\ c[Len(a) + 1] \in S
  BY DEF Begins
<1> QED BY <1>1 DEF Begins

LEMMA BeginsAppended ==
  ASSUME NEW S, NEW c \in Seq(S), NEW a, Begins(S, a, c), NEW m \in S
  PROVE  Begins(S, a, Append(c, m))
BY DEF Begins

(***************************************************************************)
(* The writer: what is queued is the end of what was accepted, and the     *)
(* progress fields are those of a position in the stream.                  *)
(***************************************************************************)

Outgoing == [numframes_filled : Nat, frame_ind : Nat, frame_filled : Nat, frame_sz_filled : Nat]

QueueOf(s, q) ==
  /\ q \in Seq(Messages)
  /\ Len(q) <= Len(s)
  /\ \A i \in 1 .. Len(q) : q[i] = s[Len(s) - Len(q) + i]

WriterAt(s, q, o) ==
  [k |-> Len(s) - Len(q) + 1,
   f |-> o.frame_ind,
   part |-> IF o.numframes_filled < Width THEN "num"
            ELSE IF o.frame_sz_filled < Width THEN "size" ELSE "data",
   o |-> IF o.numframes_filled < Width THEN o.numframes_filled
         ELSE IF o.frame_sz_filled < Width THEN o.frame_sz_filled ELSE o.frame_filled]

\* The progress fields of a message m.
ProgressIn(m, o) ==
  /\ o.numframes_filled <= Width
  /\ o.frame_sz_filled <= Width
  /\ o.frame_ind \in 1 .. Len(m)
  /\ o.numframes_filled < Width =>
       o.frame_ind = 1 /\ o.frame_sz_filled = 0
  /\ o.frame_sz_filled < Width => o.frame_filled = 0
  /\ o.frame_sz_filled = Width => o.frame_filled < Len(m[o.frame_ind])

Writing(s, q, o) ==
  /\ o \in Outgoing
  /\ QueueOf(s, q)
  /\ q = <<>> => o = Fresh
  /\ q # <<>> => ProgressIn(Head(q), o)

\* frameWritten, with its new values as q2 and o2.
Written(q, progress, q2, o2) ==
  LET msg == Head(q)
  IN  IF progress.frame_filled # Len(msg[progress.frame_ind])
        THEN o2 = progress /\ q2 = q
      ELSE IF progress.frame_ind < Len(msg)
        THEN /\ o2 = [progress EXCEPT !.frame_ind = @ + 1, !.frame_filled = 0,
                                      !.frame_sz_filled = 0]
             /\ q2 = q
        ELSE o2 = Fresh /\ q2 = Tail(q)

LEMMA HeadOfQueue ==
  ASSUME NEW s \in Seq(Messages), NEW q, QueueOf(s, q), q # <<>>
  PROVE  /\ Head(q) \in Messages /\ Len(q) \in Nat /\ Len(s) \in Nat
         /\ Len(s) - Len(q) + 1 \in 1 .. Len(s)
         /\ Head(q) = s[Len(s) - Len(q) + 1]
         /\ QueueOf(s, Tail(q)) /\ Len(Tail(q)) = Len(q) - 1
<1>1. q \in Seq(Messages) /\ Len(q) \in Nat \ {0} /\ Len(s) \in Nat /\ Len(q) <= Len(s)
  BY DEF QueueOf
<1>2. Head(q) = q[1] /\ Head(q) \in Messages /\ Tail(q) \in Seq(Messages) /\ Len(Tail(q)) = Len(q) - 1
      /\ \A i \in 1 .. (Len(q) - 1) : Tail(q)[i] = q[i + 1]
  BY <1>1
<1>3. Head(q) = s[Len(s) - Len(q) + 1]
  BY <1>1, <1>2 DEF QueueOf
<1>4. ASSUME NEW i \in 1 .. (Len(q) - 1)
      PROVE  Tail(q)[i] = s[Len(s) - (Len(q) - 1) + i]
  <2>1. i + 1 \in 1 .. Len(q) /\ Len(s) - Len(q) + (i + 1) = Len(s) - (Len(q) - 1) + i
    BY <1>1
  <2>2. q[i + 1] = s[Len(s) - Len(q) + (i + 1)]
    BY <2>1 DEF QueueOf
  <2> QED BY <2>1, <2>2, <1>2
<1>5. QueueOf(s, Tail(q))
  BY <1>1, <1>2, <1>4 DEF QueueOf
<1> QED BY <1>1, <1>2, <1>3, <1>5

\* A message that is accepted goes behind the others, and the writer stays where it is.
LEMMA Queued ==
  ASSUME NEW s \in Seq(Messages), NEW q, NEW o, Writing(s, q, o), NEW m \in Messages
  PROVE  /\ Writing(Append(s, m), Append(q, m), o)
         /\ WriterAt(Append(s, m), Append(q, m), o) = WriterAt(s, q, o)
<1>1. q \in Seq(Messages) /\ Len(q) \in Nat /\ Len(s) \in Nat /\ Len(q) <= Len(s)
  BY DEF Writing, QueueOf
<1>2. /\ Append(q, m) \in Seq(Messages) /\ Len(Append(q, m)) = Len(q) + 1
      /\ Len(Append(s, m)) = Len(s) + 1
      /\ Append(q, m) # <<>>
  BY <1>1
<1>3. Len(s) + 1 - (Len(q) + 1) = Len(s) - Len(q)
  BY <1>1
<1>4. ASSUME NEW i \in 1 .. (Len(q) + 1)
      PROVE  Append(q, m)[i] = Append(s, m)[Len(s) - Len(q) + i]
  <2>1. CASE i = Len(q) + 1
    <3>1. Len(s) - Len(q) + i = Len(s) + 1
      BY <1>1, <2>1
    <3> QED BY <1>1, <2>1, <3>1
  <2>2. CASE i # Len(q) + 1
    <3>1. i \in 1 .. Len(q) /\ Len(s) - Len(q) + i \in 1 .. Len(s)
      BY <1>1, <2>2
    <3>2. q[i] = s[Len(s) - Len(q) + i]
      BY <3>1 DEF Writing, QueueOf
    <3> QED BY <1>1, <3>1, <3>2
  <2> QED BY <2>1, <2>2
<1>5. QueueOf(Append(s, m), Append(q, m))
  <2> DEFINE z == Append(s, m)
             y == Append(q, m)
  <2>1. Len(z) - Len(y) = Len(s) - Len(q) /\ Len(y) <= Len(z)
    BY <1>1, <1>2, <1>3
  <2>2. \A i \in 1 .. Len(y) : y[i] = z[Len(z) - Len(y) + i]
    BY <1>2, <1>4, <2>1
  <2> HIDE DEF z, y
  <2>3. y \in Seq(Messages)
    BY <1>2 DEF y
  <2>4. QueueOf(z, y)
    BY <2>1, <2>2, <2>3 DEF QueueOf
  <2> QED BY <2>4 DEF z, y
<1>6. ProgressIn(Head(Append(q, m)), o)
  <2>1. CASE q = <<>>
    <3>1. Head(Append(q, m)) = m /\ o = Fresh
      BY <2>1 DEF Writing
    <3>2. Len(m) \in Nat \ {0} /\ Width \in Nat \ {0}
      BY MessageIs, FramingAssumption
    <3> QED BY <3>1, <3>2 DEF ProgressIn, Fresh
  <2>2. CASE q # <<>>
    <3>1. Head(Append(q, m)) = Head(q)
      BY <1>1, <2>2
    <3> QED BY <3>1, <2>2 DEF Writing
  <2> QED BY <2>1, <2>2
<1>7. WriterAt(Append(s, m), Append(q, m), o) = WriterAt(s, q, o)
  BY <1>2, <1>3 DEF WriterAt
<1> QED BY <1>2, <1>5, <1>6, <1>7 DEF Writing

LEMMA WriterHasByte ==
  ASSUME NEW s \in Seq(Messages), NEW q, NEW o, Writing(s, q, o), q # <<>>
  PROVE  /\ HasByte(s, WriterAt(s, q, o))
         /\ s[WriterAt(s, q, o).k] = Head(q)
         /\ o.numframes_filled < Width =>
              Content(s, WriterAt(s, q, o)) = Encode(Len(Head(q)))
         /\ o.numframes_filled = Width /\ o.frame_sz_filled < Width =>
              Content(s, WriterAt(s, q, o)) = Encode(Len(Head(q)[o.frame_ind]))
         /\ o.numframes_filled = Width /\ o.frame_sz_filled = Width =>
              Content(s, WriterAt(s, q, o)) = Head(q)[o.frame_ind]
<1> DEFINE p == WriterAt(s, q, o)
           m == Head(q)
<1>1. /\ m \in Messages /\ Len(s) - Len(q) + 1 \in 1 .. Len(s)
      /\ m = s[Len(s) - Len(q) + 1]
  BY HeadOfQueue DEF Writing
<1>2. o \in Outgoing /\ ProgressIn(m, o)
  BY DEF Writing
<1>3. Width \in Nat
  BY FramingAssumption
<1>4. /\ p.k = Len(s) - Len(q) + 1 /\ p.f = o.frame_ind
      /\ p \in Position
  BY <1>1, <1>2, <1>3 DEF WriterAt, Position, Outgoing
<1>5. s[p.k] = m /\ p.k \in 1 .. Len(s) /\ p.f \in 1 .. Len(m)
  BY <1>1, <1>2, <1>4 DEF ProgressIn
<1>6. /\ Len(m) \in Nat /\ Len(m[o.frame_ind]) \in Nat
      /\ Len(Encode(Len(m))) = Width /\ Len(Encode(Len(m[o.frame_ind]))) = Width
  BY <1>1, <1>4, <1>5, MessageIs, EncodeIs
<1>7. CASE o.numframes_filled < Width
  <2>1. p.part = "num" /\ p.o = o.numframes_filled
    BY <1>7 DEF WriterAt
  <2>2. Content(s, p) = Encode(Len(m))
    BY <2>1, <1>5 DEF Content
  <2>3. ~ (o.numframes_filled = Width)
    BY <1>7, <1>3
  <2> QED BY <2>1, <2>2, <2>3, <1>4, <1>5, <1>6, <1>7 DEF HasByte
<1>8. CASE ~ (o.numframes_filled < Width) /\ o.frame_sz_filled < Width
  <2>1. p.part = "size" /\ p.o = o.frame_sz_filled
    BY <1>8 DEF WriterAt
  <2>2. Content(s, p) = Encode(Len(m[o.frame_ind]))
    BY <2>1, <1>4, <1>5 DEF Content
  <2>3. ~ (o.frame_sz_filled = Width)
    BY <1>8, <1>3
  <2> QED BY <2>1, <2>2, <2>3, <1>4, <1>5, <1>6, <1>8 DEF HasByte
<1>9. CASE ~ (o.numframes_filled < Width) /\ ~ (o.frame_sz_filled < Width)
  <2>1. p.part = "data" /\ p.o = o.frame_filled
    BY <1>9 DEF WriterAt
  <2>2. Content(s, p) = m[o.frame_ind]
    BY <2>1, <1>4, <1>5 DEF Content
  <2>3. o.frame_sz_filled = Width
    BY <1>2, <1>3, <1>9 DEF ProgressIn, Outgoing
  <2>4. p.o < Len(Content(s, p))
    BY <2>1, <2>2, <2>3, <1>2 DEF ProgressIn
  <2> QED BY <2>2, <2>4, <1>4, <1>5, <1>9 DEF HasByte
<1> QED BY <1>7, <1>8, <1>9

\* The frame is complete: the writer goes to the next frame or to the next message.
LEMMA FrameComplete ==
  ASSUME NEW s \in Seq(Messages), NEW q, NEW o, Writing(s, q, o), q # <<>>,
         NEW o1 \in Outgoing, o1.numframes_filled = Width, o1.frame_ind = o.frame_ind,
         o1.frame_filled = Len(Head(q)[o.frame_ind]),
         NEW q2, NEW o2, Written(q, o1, q2, o2)
  PROVE  /\ Writing(s, q2, o2)
         /\ WriterAt(s, q2, o2) = NextFrame(s, WriterAt(s, q, o))
<1> DEFINE p == WriterAt(s, q, o)
           m == Head(q)
<1>1. /\ m \in Messages /\ Len(s) - Len(q) + 1 \in 1 .. Len(s)
      /\ m = s[Len(s) - Len(q) + 1] /\ Len(q) \in Nat /\ Len(s) \in Nat
      /\ QueueOf(s, Tail(q)) /\ Len(Tail(q)) = Len(q) - 1
  BY HeadOfQueue DEF Writing
<1>2. o \in Outgoing /\ ProgressIn(m, o) /\ QueueOf(s, q)
  BY DEF Writing
<1>3. Width \in Nat \ {0}
  BY FramingAssumption
<1>4. p.k = Len(s) - Len(q) + 1 /\ p.f = o.frame_ind
  BY DEF WriterAt
<1>5. Len(m) \in Nat /\ o.frame_ind \in 1 .. Len(m)
  BY <1>1, <1>2, MessageIs DEF ProgressIn
<1>6. CASE o.frame_ind < Len(m)
  <2>1. /\ q2 = q
        /\ o2 = [o1 EXCEPT !.frame_ind = o1.frame_ind + 1, !.frame_filled = 0,
                           !.frame_sz_filled = 0]
    BY <1>6 DEF Written
  <2>2. /\ o2 \in Outgoing /\ o2.numframes_filled = Width /\ o2.frame_ind = o.frame_ind + 1
        /\ o2.frame_filled = 0 /\ o2.frame_sz_filled = 0
    <3>1. o.frame_ind + 1 \in Nat /\ 0 \in Nat
      BY <1>5
    <3>2. o2.frame_ind = o.frame_ind + 1
      BY <2>1 DEF Outgoing
    <3>3. o2.numframes_filled = Width /\ o2.frame_filled = 0 /\ o2.frame_sz_filled = 0
      BY <2>1 DEF Outgoing
    <3>4. o2 \in Outgoing
      BY <2>1, <3>1 DEF Outgoing
    <3> QED BY <3>2, <3>3, <3>4
  <2>3. ProgressIn(m, o2)
    BY <2>2, <1>3, <1>5, <1>6 DEF ProgressIn
  <2>4. WriterAt(s, q2, o2) = [k |-> p.k, f |-> p.f + 1, part |-> "size", o |-> 0]
    BY <2>1, <2>2, <1>3, <1>4 DEF WriterAt
  <2>5. NextFrame(s, p) = [k |-> p.k, f |-> p.f + 1, part |-> "size", o |-> 0]
    BY <1>1, <1>4, <1>6 DEF NextFrame
  <2> QED BY <2>1, <2>2, <2>3, <2>4, <2>5, <1>2 DEF Writing
<1>7. CASE ~ (o.frame_ind < Len(m))
  <2>1. q2 = Tail(q) /\ o2 = Fresh
    BY <1>7 DEF Written
  <2>2. Fresh \in Outgoing
    BY DEF Fresh, Outgoing
  <2>3. ASSUME Tail(q) # <<>>
        PROVE  ProgressIn(Head(Tail(q)), Fresh)
    <3>1. Head(Tail(q)) \in Messages
      <4> DEFINE y == Tail(q)
      <4>1. QueueOf(s, y) /\ y # <<>>
        BY <1>1, <2>3
      <4> HIDE DEF y
      <4>2. Head(y) \in Messages
        BY <4>1, HeadOfQueue
      <4> QED BY <4>2 DEF y
    <3>2. Len(Head(Tail(q))) \in Nat \ {0}
      BY <3>1, MessageIs
    <3>3. \A z : Len(z) \in Nat \ {0} => ProgressIn(z, Fresh)
      BY <1>3 DEF ProgressIn, Fresh
    <3> QED BY <3>2, <3>3
  <2>4. WriterAt(s, q2, o2) = [k |-> p.k + 1, f |-> 1, part |-> "num", o |-> 0]
    <3>1. Len(s) - Len(Tail(q)) + 1 = p.k + 1
      BY <1>1, <1>4
    <3> QED BY <2>1, <3>1, <1>3 DEF WriterAt, Fresh
  <2>5. NextFrame(s, p) = [k |-> p.k + 1, f |-> 1, part |-> "num", o |-> 0]
    BY <1>1, <1>4, <1>7 DEF NextFrame
  <2> QED BY <2>1, <2>2, <2>3, <2>4, <2>5, <1>1 DEF Writing
<1> QED BY <1>6, <1>7

LEMMA WroteNumFrames ==
  ASSUME NEW s \in Seq(Messages), NEW q, NEW o, Writing(s, q, o), q # <<>>,
         o.numframes_filled < Width, NEW n \in 0 .. (Width - o.numframes_filled)
  PROVE  /\ Writing(s, q, [o EXCEPT !.numframes_filled = @ + n])
         /\ WriterAt(s, q, [o EXCEPT !.numframes_filled = @ + n])
              = Further(s, WriterAt(s, q, o), n)
<1> DEFINE p == WriterAt(s, q, o)
           m == Head(q)
           o2 == [o EXCEPT !.numframes_filled = @ + n]
<1>1. /\ HasByte(s, p) /\ Content(s, p) = Encode(Len(m)) /\ s[p.k] = m
  BY WriterHasByte
<1>2. o \in Outgoing /\ ProgressIn(m, o) /\ QueueOf(s, q)
  BY DEF Writing
<1>3. Width \in Nat \ {0}
  BY FramingAssumption
<1>4. Len(m) \in Nat /\ Len(Encode(Len(m))) = Width
  <2>1. m \in Messages
    BY <1>2, HeadOfQueue
  <2> QED BY <2>1, MessageIs, EncodeIs
<1>5. /\ o2 \in Outgoing /\ o2.numframes_filled = o.numframes_filled + n
      /\ o2.frame_ind = o.frame_ind /\ o2.frame_filled = o.frame_filled
      /\ o2.frame_sz_filled = o.frame_sz_filled
  BY <1>2, <1>3 DEF Outgoing
<1>6. o.frame_ind = 1 /\ o.frame_sz_filled = 0 /\ o.frame_filled = 0 /\ o.numframes_filled \in Nat
  BY <1>2, <1>3 DEF ProgressIn, Outgoing
<1> HIDE DEF o2
<1>7. ProgressIn(m, o2)
  BY <1>2, <1>3, <1>5, <1>6 DEF ProgressIn
<1>8. WriterAt(s, q, o2) = Further(s, p, n)
  <2>1. p = [k |-> Len(s) - Len(q) + 1, f |-> 1, part |-> "num", o |-> o.numframes_filled]
    BY <1>6 DEF WriterAt
  <2>2. CASE o.numframes_filled + n < Width
    <3>1. WriterAt(s, q, o2) =
            [k |-> Len(s) - Len(q) + 1, f |-> 1, part |-> "num", o |-> o.numframes_filled + n]
      BY <2>2, <1>5, <1>6 DEF WriterAt
    <3>2. [p EXCEPT !.o = p.o + n] =
            [k |-> Len(s) - Len(q) + 1, f |-> 1, part |-> "num", o |-> o.numframes_filled + n]
      BY <2>1
    <3>3. Further(s, p, n) = [p EXCEPT !.o = p.o + n]
      BY <2>1, <2>2, <1>1, <1>4 DEF Further
    <3> QED BY <3>1, <3>2, <3>3
  <2>3. CASE ~ (o.numframes_filled + n < Width)
    <3>1. WriterAt(s, q, o2) = [k |-> Len(s) - Len(q) + 1, f |-> 1, part |-> "size", o |-> 0]
      BY <2>3, <1>3, <1>5, <1>6 DEF WriterAt
    <3>2. Further(s, p, n) = Behind(s, p)
      BY <2>1, <2>3, <1>1, <1>4 DEF Further
    <3>3. Behind(s, p) = [k |-> Len(s) - Len(q) + 1, f |-> 1, part |-> "size", o |-> 0]
      BY <2>1 DEF Behind
    <3> QED BY <3>1, <3>2, <3>3
  <2> QED BY <2>2, <2>3
<1>9. Writing(s, q, o2)
  BY <1>2, <1>5, <1>7 DEF Writing
<1> QED BY <1>8, <1>9 DEF o2

LEMMA WroteFrameSize ==
  ASSUME NEW s \in Seq(Messages), NEW q, NEW o, Writing(s, q, o), q # <<>>,
         o.numframes_filled = Width, o.frame_sz_filled < Width,
         NEW n \in 0 .. (Width - o.frame_sz_filled),
         o.frame_sz_filled + n = Width \/ Head(q)[o.frame_ind] # <<>>,
         NEW q2, NEW o2, Written(q, [o EXCEPT !.frame_sz_filled = @ + n], q2, o2)
  PROVE  /\ Writing(s, q2, o2)
         /\ WriterAt(s, q2, o2) = Further(s, WriterAt(s, q, o), n)
<1> DEFINE p == WriterAt(s, q, o)
           m == Head(q)
           o1 == [o EXCEPT !.frame_sz_filled = @ + n]
           frame == m[o.frame_ind]
<1>1. /\ HasByte(s, p) /\ Content(s, p) = Encode(Len(frame)) /\ s[p.k] = m
  BY WriterHasByte
<1>2. o \in Outgoing /\ ProgressIn(m, o) /\ QueueOf(s, q)
  BY DEF Writing
<1>3. Width \in Nat \ {0}
  BY FramingAssumption
<1>4. Len(m) \in Nat /\ frame \in Seq(Byte) /\ Len(frame) \in Nat /\ Len(Encode(Len(frame))) = Width
  <2>1. m \in Messages
    BY <1>2, HeadOfQueue
  <2>2. Len(m) \in Nat /\ frame \in Seq(Byte) /\ Len(frame) \in Nat
    BY <2>1, <1>2, MessageIs DEF ProgressIn
  <2> QED BY <2>2, EncodeIs
<1>5. /\ o1 \in Outgoing /\ o1.numframes_filled = Width
      /\ o1.frame_ind = o.frame_ind /\ o1.frame_filled = 0
      /\ o1.frame_sz_filled = o.frame_sz_filled + n
  <2>1. o.frame_sz_filled \in Nat /\ o.frame_filled = 0
    BY <1>2 DEF Outgoing, ProgressIn
  <2>2. o.frame_sz_filled + n \in Nat
    BY <2>1, <1>3
  <2>3. o1 \in Outgoing
    BY <1>2, <2>2 DEF Outgoing
  <2> QED BY <1>2, <2>1, <2>3 DEF Outgoing
<1>6. p = [k |-> p.k, f |-> o.frame_ind, part |-> "size", o |-> o.frame_sz_filled]
  BY <1>3 DEF WriterAt
<1>7. o.frame_sz_filled \in Nat /\ o.frame_ind \in 1 .. Len(m) /\ o.frame_ind \in Nat
  BY <1>2, <1>4 DEF ProgressIn, Outgoing
<1>f. p.f = o.frame_ind /\ p.part = "size" /\ p.o = o.frame_sz_filled
  BY <1>6
<1>8. CASE frame = <<>>
  <2>1. Len(frame) = 0 /\ o.frame_sz_filled + n = Width
    BY <1>8
  <2> HIDE DEF o1
  <2>2. o1.frame_filled = Len(frame) /\ Written(q, o1, q2, o2)
    BY <2>1, <1>5 DEF o1
  <2>3. Writing(s, q2, o2) /\ WriterAt(s, q2, o2) = NextFrame(s, p)
    BY <2>2, <1>5, FrameComplete
  <2>4. Further(s, p, n) = Behind(s, p)
    BY <2>1, <1>f, <1>1, <1>3, <1>4 DEF Further
  <2>5. Behind(s, p) = NextFrame(s, p)
    BY <1>f, <1>1, <1>8 DEF Behind
  <2> QED BY <2>3, <2>4, <2>5
<1>9. CASE frame # <<>>
  <2>0. Len(frame) # 0
    BY <1>9, <1>4
  <2>1. o2 = o1 /\ q2 = q
    <3> HIDE DEF o1
    <3>1. Written(q, o1, q2, o2)
      BY DEF o1
    <3> QED BY <3>1, <2>0, <1>5 DEF Written
  <2> HIDE DEF o1
  <2>2. ProgressIn(m, o1)
    <3>1. Len(frame) > 0
      BY <2>0, <1>4
    <3> QED BY <1>2, <1>3, <1>5, <1>7, <3>1 DEF ProgressIn
  <2>3. Writing(s, q2, o2)
    BY <2>1, <2>2, <1>2, <1>5 DEF Writing
  <2>4. p.k = Len(s) - Len(q) + 1
    BY DEF WriterAt
  <2>5. CASE o.frame_sz_filled + n < Width
    <3>1. WriterAt(s, q, o1) =
            [k |-> p.k, f |-> o.frame_ind, part |-> "size", o |-> o.frame_sz_filled + n]
      BY <2>4, <2>5, <1>3, <1>5 DEF WriterAt
    <3>2. [p EXCEPT !.o = p.o + n] =
            [k |-> p.k, f |-> o.frame_ind, part |-> "size", o |-> o.frame_sz_filled + n]
      BY <1>6
    <3>3. Further(s, p, n) = [p EXCEPT !.o = p.o + n]
      BY <1>f, <2>5, <1>1, <1>4 DEF Further
    <3> QED BY <2>1, <2>3, <3>1, <3>2, <3>3
  <2>6. CASE ~ (o.frame_sz_filled + n < Width)
    <3>1. WriterAt(s, q, o1) = [k |-> p.k, f |-> o.frame_ind, part |-> "data", o |-> 0]
      BY <2>4, <2>6, <1>3, <1>5 DEF WriterAt
    <3>2. Further(s, p, n) = Behind(s, p)
      BY <1>f, <2>6, <1>1, <1>4 DEF Further
    <3>3. Behind(s, p) = [k |-> p.k, f |-> o.frame_ind, part |-> "data", o |-> 0]
      BY <1>f, <1>1, <1>9 DEF Behind
    <3> QED BY <2>1, <2>3, <3>1, <3>2, <3>3
  <2> QED BY <2>3, <2>5, <2>6
<1> QED BY <1>8, <1>9

LEMMA WroteFrameData ==
  ASSUME NEW s \in Seq(Messages), NEW q, NEW o, Writing(s, q, o), q # <<>>,
         o.numframes_filled = Width, o.frame_sz_filled = Width,
         NEW n \in 0 .. (Len(Head(q)[o.frame_ind]) - o.frame_filled),
         NEW q2, NEW o2, Written(q, [o EXCEPT !.frame_filled = @ + n], q2, o2)
  PROVE  /\ Writing(s, q2, o2)
         /\ WriterAt(s, q2, o2) = Further(s, WriterAt(s, q, o), n)
<1> DEFINE p == WriterAt(s, q, o)
           m == Head(q)
           o1 == [o EXCEPT !.frame_filled = @ + n]
           frame == m[o.frame_ind]
<1>1. /\ HasByte(s, p) /\ Content(s, p) = frame /\ s[p.k] = m
  BY WriterHasByte
<1>2. o \in Outgoing /\ ProgressIn(m, o) /\ QueueOf(s, q)
  BY DEF Writing
<1>3. Width \in Nat \ {0}
  BY FramingAssumption
<1>4. Len(m) \in Nat /\ frame \in Seq(Byte) /\ Len(frame) \in Nat
  <2>1. m \in Messages
    BY <1>2, HeadOfQueue
  <2> QED BY <2>1, <1>2, MessageIs DEF ProgressIn
<1>5. /\ o1 \in Outgoing /\ o1.numframes_filled = Width /\ o1.frame_sz_filled = Width
      /\ o1.frame_ind = o.frame_ind /\ o1.frame_filled = o.frame_filled + n
  BY <1>2, <1>3 DEF Outgoing, ProgressIn
<1>6. p = [k |-> p.k, f |-> o.frame_ind, part |-> "data", o |-> o.frame_filled]
  BY <1>3 DEF WriterAt
<1>7. o.frame_filled \in Nat /\ o.frame_ind \in 1 .. Len(m) /\ o.frame_ind \in Nat
  BY <1>2, <1>4 DEF ProgressIn, Outgoing
<1>f. p.f = o.frame_ind /\ p.part = "data" /\ p.o = o.frame_filled /\ p.k = Len(s) - Len(q) + 1
  BY <1>6 DEF WriterAt
<1> HIDE DEF o1
<1>w. Written(q, o1, q2, o2)
  BY DEF o1
<1>8. CASE o.frame_filled + n = Len(frame)
  <2>1. Writing(s, q2, o2) /\ WriterAt(s, q2, o2) = NextFrame(s, p)
    BY <1>8, <1>w, <1>5, FrameComplete
  <2>2. Further(s, p, n) = Behind(s, p)
    BY <1>f, <1>1, <1>4, <1>8 DEF Further
  <2>3. Behind(s, p) = NextFrame(s, p)
    BY <1>f DEF Behind
  <2> QED BY <2>1, <2>2, <2>3
<1>9. CASE o.frame_filled + n # Len(frame)
  <2>0. o.frame_filled + n < Len(frame)
    <3>1. \A a, b \in Nat : \A i \in 0 .. (b - a) : a + i # b => a + i < b
      OBVIOUS
    <3> QED BY <3>1, <1>9, <1>4, <1>7
  <2>1. o2 = o1 /\ q2 = q
    BY <1>9, <1>w, <1>5 DEF Written
  <2>2. ProgressIn(m, o1)
    BY <2>0, <1>2, <1>3, <1>5, <1>7 DEF ProgressIn
  <2>3. Writing(s, q2, o2)
    BY <2>1, <2>2, <1>2, <1>5 DEF Writing
  <2>4. WriterAt(s, q, o1) =
          [k |-> p.k, f |-> o.frame_ind, part |-> "data", o |-> o.frame_filled + n]
    BY <1>3, <1>5, <1>f DEF WriterAt
  <2>5. [p EXCEPT !.o = p.o + n] =
          [k |-> p.k, f |-> o.frame_ind, part |-> "data", o |-> o.frame_filled + n]
    BY <1>6
  <2>6. Further(s, p, n) = [p EXCEPT !.o = p.o + n]
    BY <2>0, <1>f, <1>1 DEF Further
  <2> QED BY <2>1, <2>3, <2>4, <2>5, <2>6
<1> QED BY <1>8, <1>9

(***************************************************************************)
(* The reader: what it has of the message it receives is the beginning of  *)
(* that message.                                                           *)
(***************************************************************************)

Incoming == [numframes : Seq(Byte), frames : Seq(Seq(Byte)),
             frame : [size : Seq(Byte), data : Seq(Byte)]]

ReaderAt(d, i) ==
  [k |-> Len(d) + 1,
   f |-> IF Len(i.numframes) < Width THEN 1 ELSE Len(i.frames) + 1,
   part |-> IF Len(i.numframes) < Width THEN "num"
            ELSE IF Len(i.frame.size) < Width THEN "size" ELSE "data",
   o |-> IF Len(i.numframes) < Width THEN Len(i.numframes)
         ELSE IF Len(i.frame.size) < Width THEN Len(i.frame.size) ELSE Len(i.frame.data)]

\* What is received of the frames of a message m.
PartOf(m, i) ==
  /\ Begins(Seq(Byte), i.frames, m)
  /\ Len(i.frames) < Len(m)
  /\ Begins(Byte, i.frame.size, Encode(Len(m[Len(i.frames) + 1])))
  /\ Begins(Byte, i.frame.data, m[Len(i.frames) + 1])
  /\ Len(i.frame.size) < Width => i.frame.data = <<>>
  /\ Len(i.frame.size) = Width => Len(i.frame.data) < Len(m[Len(i.frames) + 1])

Reading(s, d, rd, i) ==
  /\ i \in Incoming
  /\ Begins(Messages, d, s)
  /\ rd = FALSE => i.numframes = <<>>
  /\ i.numframes # <<>> =>
       Len(d) < Len(s) /\ Begins(Byte, i.numframes, Encode(Len(s[Len(d) + 1])))
  /\ Len(i.numframes) = Width => PartOf(s[Len(d) + 1], i)

\* What is received when nothing has followed the number of frames.
Started(numframes) == [numframes |-> numframes, frames |-> <<>>, frame |-> NoFrame]

\* The next n bytes of a field, and the current frame with more of its size or data.
NextBytes(s, p, n) == SubSeq(Content(s, p), p.o + 1, p.o + n)
WithSize(i, size) == [i.frame EXCEPT !.size = size]
WithData(i, data) == [i.frame EXCEPT !.data = data]

\* frameRead, with its new values as i2, rd2 and d2.
Received(d, rd, i, frame, d2, rd2, i2) ==
  LET frames == Append(i.frames, frame.data)
  IN  IF Len(frame.data) # Value(frame.size)
        THEN i2 = [i EXCEPT !.frame = frame] /\ rd2 = rd /\ d2 = d
      ELSE IF Len(frames) < Value(i.numframes)
        THEN /\ i2 = [i EXCEPT !.frames = frames, !.frame = NoFrame]
             /\ rd2 = rd /\ d2 = d
        ELSE /\ d2 = Append(d, frames)
             /\ rd2 = FALSE
             /\ i2 = Started(<<>>)

\* A message that is given to readmsg_cb_ is the next one of those that were accepted.
DeliveredNext(s, d, d2) ==
  d2 = d \/ (Len(d) < Len(s) /\ d2 = Append(d, s[Len(d) + 1]))

\* The reader has taken n bytes, and is where it should be.
ReadOn(s, d, i, n, d2, rd2, i2) ==
  /\ Reading(s, d2, rd2, i2) /\ rd2 \in BOOLEAN
  /\ DeliveredNext(s, d, d2)
  /\ ReaderAt(d2, i2) = Further(s, ReaderAt(d, i), n)

\* A number that is complete is not zero.
NotZero(digits) == Len(digits) = Width => Value(digits) # 0

LEMMA StartedIs ==
  ASSUME NEW e \in Seq(Byte)
  PROVE  /\ Started(e) \in Incoming
         /\ Started(e).numframes = e /\ Started(e).frames = <<>>
         /\ Started(e).frame.size = <<>> /\ Started(e).frame.data = <<>>
<1>1. NoFrame \in [size : Seq(Byte), data : Seq(Byte)] /\ NoFrame.size = <<>> /\ NoFrame.data = <<>>
  BY DEF NoFrame
<1>2. /\ Started(e).numframes = e /\ Started(e).frames = <<>> /\ Started(e).frame = NoFrame
  BY DEF Started
<1>3. Started(e) \in Incoming
  BY <1>1 DEF Started, Incoming
<1> QED BY <1>1, <1>2, <1>3

LEMMA NextMessage ==
  ASSUME NEW s \in Seq(Messages), NEW d, Begins(Messages, d, s), Len(d) < Len(s)
  PROVE  /\ s[Len(d) + 1] \in Messages
         /\ Len(d) \in Nat /\ Len(s) \in Nat /\ Len(d) + 1 \in 1 .. Len(s)
         /\ LET m == s[Len(d) + 1]
            IN  /\ m \in Seq(Seq(Byte)) /\ Len(m) \in Nat \ {0}
                /\ Encode(Len(m)) \in Seq(Byte) /\ Len(Encode(Len(m))) = Width
                /\ Value(Encode(Len(m))) = Len(m)
                /\ \A f \in 1 .. Len(m) :
                     /\ m[f] \in Seq(Byte) /\ Len(m[f]) \in Nat
                     /\ Encode(Len(m[f])) \in Seq(Byte) /\ Len(Encode(Len(m[f]))) = Width
                     /\ Value(Encode(Len(m[f]))) = Len(m[f])
<1>1. Len(d) \in Nat /\ Len(s) \in Nat /\ Len(d) + 1 \in 1 .. Len(s)
  BY DEF Begins
<1>2. s[Len(d) + 1] \in Messages
  BY <1>1
<1> DEFINE m == s[Len(d) + 1]
<1> HIDE DEF m
<1>3. m \in Messages
  BY <1>2 DEF m
<1>4. m \in Seq(Seq(Byte)) /\ Len(m) \in Nat \ {0} /\ Fits(Len(m))
  BY <1>3, MessageIs
<1>5. /\ Encode(Len(m)) \in Seq(Byte) /\ Len(Encode(Len(m))) = Width
      /\ Value(Encode(Len(m))) = Len(m)
  BY <1>4, EncodeIs, RoundTrip
<1>6. ASSUME NEW f \in 1 .. Len(m)
      PROVE  /\ m[f] \in Seq(Byte) /\ Len(m[f]) \in Nat
             /\ Encode(Len(m[f])) \in Seq(Byte) /\ Len(Encode(Len(m[f]))) = Width
             /\ Value(Encode(Len(m[f]))) = Len(m[f])
  <2>1. m[f] \in Seq(Byte) /\ Len(m[f]) \in Nat /\ Fits(Len(m[f]))
    BY <1>3, MessageIs
  <2> QED BY <2>1, EncodeIs, RoundTrip
<1> QED BY <1>1, <1>2, <1>4, <1>5, <1>6 DEF m

LEMMA ReadNumFrames ==
  ASSUME NEW s \in Seq(Messages), NEW d, NEW rd \in BOOLEAN, NEW i, Reading(s, d, rd, i),
         Len(i.numframes) < Width, HasByte(s, ReaderAt(d, i)),
         NEW n \in 1 .. (Width - Len(i.numframes)),
         NEW g, g = NextBytes(s, ReaderAt(d, i), n),
         NEW i2, i2 = Started(i.numframes \o g)
  PROVE  ReadOn(s, d, i, n, d, TRUE, i2) /\ NotZero(i.numframes \o g)
<1> DEFINE p == ReaderAt(d, i)
           m == s[Len(d) + 1]
           c == Encode(Len(m))
           L == Len(i.numframes)
<1>1. p = [k |-> Len(d) + 1, f |-> 1, part |-> "num", o |-> L]
  BY DEF ReaderAt
<1>2. Begins(Messages, d, s) /\ Len(d) \in Nat /\ Len(s) \in Nat /\ i \in Incoming
  BY DEF Reading, Begins
<1>3. Len(d) < Len(s)
  BY <1>1, <1>2 DEF HasByte
<1>4. /\ m \in Seq(Seq(Byte)) /\ Len(m) \in Nat \ {0}
      /\ c \in Seq(Byte) /\ Len(c) = Width /\ Value(c) = Len(m)
      /\ Encode(Len(m[1])) \in Seq(Byte) /\ Len(Encode(Len(m[1]))) = Width
      /\ m[1] \in Seq(Byte) /\ Len(m[1]) \in Nat
  <2>1. 1 \in 1 .. Len(m)
    BY <1>2, <1>3, NextMessage
  <2> QED BY <2>1, <1>2, <1>3, NextMessage
<1>5. Content(s, p) = c /\ p.o = L /\ p.k = Len(d) + 1 /\ p.f = 1 /\ p.part = "num"
  BY <1>1 DEF Content
<1>6. Width \in Nat \ {0} /\ L \in Nat /\ n \in Nat /\ L + n <= Width
  BY <1>2, FramingAssumption DEF Incoming
<1>7. Begins(Byte, i.numframes, c)
  <2>1. CASE i.numframes = <<>>
    BY <2>1, <1>4, BeginsEmpty
  <2>2. CASE i.numframes # <<>>
    BY <2>2 DEF Reading
  <2> QED BY <2>1, <2>2
<1> DEFINE e == i.numframes \o g
<1>8. Begins(Byte, e, c) /\ Len(e) = L + n /\ e \in Seq(Byte)
  <2> HIDE DEF c
  <2>1. g = SubSeq(c, L + 1, L + n)
    BY <1>5 DEF NextBytes
  <2>2. Begins(Byte, e, c) /\ Len(e) = L + n
    <3> DEFINE a == i.numframes
    <3>1. Begins(Byte, a, c) /\ Len(a) = L /\ c \in Seq(Byte) /\ n \in Nat /\ Len(a) + n <= Len(c)
      BY <1>4, <1>6, <1>7
    <3>2. e = a \o SubSeq(c, Len(a) + 1, Len(a) + n)
      BY <2>1
    <3> HIDE DEF a, L, e
    <3>3. /\ Begins(Byte, a \o SubSeq(c, Len(a) + 1, Len(a) + n), c)
          /\ Len(a \o SubSeq(c, Len(a) + 1, Len(a) + n)) = Len(a) + n
      BY <3>1, BeginsLonger
    <3> QED BY <3>1, <3>2, <3>3
  <2> QED BY <2>2 DEF Begins
<1>9. L + n = Width => Value(e) # 0
  <2>1. ASSUME L + n = Width
        PROVE  e = c
    <3> HIDE DEF c, e
    <3> QED BY <2>1, <1>4, <1>8, AllOfIt
  <2> QED BY <2>1, <1>4
<1> HIDE DEF e
<1>r. i2 = Started(e)
  BY DEF e
<1>10. i2 \in Incoming
  BY <1>8, <1>r, StartedIs
<1>11. /\ i2.numframes = e /\ i2.frames = <<>>
       /\ i2.frame.size = <<>> /\ i2.frame.data = <<>>
  BY <1>8, <1>r, StartedIs
<1>12. PartOf(m, i2)
  <2>1. Begins(Seq(Byte), <<>>, m) /\ Begins(Byte, <<>>, Encode(Len(m[1]))) /\ Begins(Byte, <<>>, m[1])
    BY <1>4, BeginsEmpty
  <2>2. Len(<<>>) = 0 /\ Len(<<>>) + 1 = 1 /\ Len(<<>>) < Len(m) /\ Len(<<>>) # Width
    BY <1>4, <1>6
  <2> QED BY <2>1, <2>2, <1>11 DEF PartOf
<1>13. Reading(s, d, TRUE, i2)
  BY <1>2, <1>3, <1>8, <1>10, <1>11, <1>12 DEF Reading
<1>14. ReaderAt(d, i2) = Further(s, p, n)
  <2>1. CASE L + n < Width
    <3>1. ReaderAt(d, i2) = [k |-> Len(d) + 1, f |-> 1, part |-> "num", o |-> L + n]
      BY <2>1, <1>8, <1>11 DEF ReaderAt
    <3>2. Further(s, p, n) = [p EXCEPT !.o = p.o + n]
      BY <2>1, <1>4, <1>5 DEF Further
    <3>3. [p EXCEPT !.o = p.o + n] = [k |-> Len(d) + 1, f |-> 1, part |-> "num", o |-> L + n]
      <4> HIDE DEF p
      <4> QED BY <1>1, <1>5
    <3> QED BY <3>1, <3>2, <3>3
  <2>2. CASE ~ (L + n < Width)
    <3>1. ReaderAt(d, i2) = [k |-> Len(d) + 1, f |-> 1, part |-> "size", o |-> 0]
      BY <2>2, <1>6, <1>8, <1>11 DEF ReaderAt
    <3>2. Further(s, p, n) = Behind(s, p)
      BY <2>2, <1>4, <1>5 DEF Further
    <3>3. Behind(s, p) = [k |-> Len(d) + 1, f |-> 1, part |-> "size", o |-> 0]
      BY <1>5 DEF Behind
    <3> QED BY <3>1, <3>2, <3>3
  <2> QED BY <2>1, <2>2
<1> QED BY <1>8, <1>9, <1>13, <1>14 DEF e, ReadOn, NotZero, DeliveredNext

\* What the reader knows of the message it receives when its number of frames is there.
LEMMA Receiving ==
  ASSUME NEW s \in Seq(Messages), NEW d, NEW rd \in BOOLEAN, NEW i, Reading(s, d, rd, i),
         Len(i.numframes) = Width
  PROVE  /\ i \in Incoming /\ Begins(Messages, d, s)
         /\ Len(d) < Len(s) /\ PartOf(s[Len(d) + 1], i)
         /\ Value(i.numframes) = Len(s[Len(d) + 1])
         /\ Len(i.frames) \in Nat /\ Len(i.frames) + 1 \in 1 .. Len(s[Len(d) + 1])
         /\ ReaderAt(d, i).k = Len(d) + 1 /\ ReaderAt(d, i).f = Len(i.frames) + 1
         /\ Width \in Nat \ {0}
<1> DEFINE m == s[Len(d) + 1]
<1>1. Width \in Nat \ {0}
  BY FramingAssumption
<1>2. i \in Incoming /\ Begins(Messages, d, s) /\ PartOf(m, i)
  BY DEF Reading
<1>3. i.numframes # <<>>
  BY <1>1
<1>4. Len(d) < Len(s) /\ Begins(Byte, i.numframes, Encode(Len(m)))
  BY <1>3 DEF Reading
<1>5. /\ Len(m) \in Nat \ {0} /\ Encode(Len(m)) \in Seq(Byte) /\ Len(Encode(Len(m))) = Width
      /\ Value(Encode(Len(m))) = Len(m)
  BY <1>2, <1>4, NextMessage
<1>6. i.numframes = Encode(Len(m))
  <2> DEFINE a == i.numframes
             c == Encode(Len(m))
  <2>1. Begins(Byte, a, c) /\ c \in Seq(Byte) /\ Len(a) = Len(c)
    BY <1>4, <1>5
  <2> HIDE DEF a, c
  <2>2. a = c
    BY <2>1, AllOfIt
  <2> QED BY <2>2 DEF a, c
<1>7. Len(i.frames) \in Nat /\ Len(i.frames) < Len(m)
  BY <1>2 DEF PartOf, Incoming
<1>8. ReaderAt(d, i).k = Len(d) + 1 /\ ReaderAt(d, i).f = Len(i.frames) + 1
  BY <1>1 DEF ReaderAt
<1> QED BY <1>1, <1>2, <1>4, <1>5, <1>6, <1>7, <1>8

\* The frame is there: the reader goes to the next frame or delivers the message.
LEMMA FrameThere ==
  ASSUME NEW s \in Seq(Messages), NEW d, NEW rd \in BOOLEAN, NEW i, Reading(s, d, rd, i),
         Len(i.numframes) = Width,
         NEW frame, frame.data = s[Len(d) + 1][Len(i.frames) + 1],
         Value(frame.size) = Len(s[Len(d) + 1][Len(i.frames) + 1]),
         NEW d2, NEW rd2, NEW i2, Received(d, rd, i, frame, d2, rd2, i2)
  PROVE  /\ Reading(s, d2, rd2, i2) /\ rd2 \in BOOLEAN
         /\ DeliveredNext(s, d, d2)
         /\ ReaderAt(d2, i2) = NextFrame(s, ReaderAt(d, i))
<1> DEFINE p == ReaderAt(d, i)
           m == s[Len(d) + 1]
           L == Len(i.frames)
           frames == Append(i.frames, m[L + 1])
<1>1. /\ i \in Incoming /\ Begins(Messages, d, s)
      /\ Len(d) < Len(s) /\ PartOf(m, i) /\ Value(i.numframes) = Len(m)
      /\ L \in Nat /\ L + 1 \in 1 .. Len(m)
      /\ p.k = Len(d) + 1 /\ p.f = L + 1 /\ Width \in Nat \ {0}
  BY Receiving
<1>2. /\ m \in Messages /\ m \in Seq(Seq(Byte)) /\ Len(m) \in Nat \ {0} /\ Len(d) \in Nat
  BY <1>1, NextMessage
<1>3. Begins(Seq(Byte), frames, m) /\ Len(frames) = L + 1 /\ frames \in Seq(Seq(Byte))
  <2> DEFINE a == i.frames
  <2>1. Begins(Seq(Byte), a, m) /\ Len(a) < Len(m)
    BY <1>1 DEF PartOf
  <2> HIDE DEF a, m
  <2>2. /\ Begins(Seq(Byte), Append(a, m[Len(a) + 1]), m)
        /\ Len(Append(a, m[Len(a) + 1])) = Len(a) + 1
    BY <1>2, <2>1, BeginsNext
  <2> QED BY <2>2 DEF a, Begins
<1> HIDE DEF m
<1>4. /\ frame.data = m[L + 1] /\ Value(frame.size) = Len(m[L + 1])
      /\ Append(i.frames, frame.data) = frames
  BY DEF m
<1>5. CASE L + 1 < Len(m)
  <2>1. i2 = [i EXCEPT !.frames = frames, !.frame = NoFrame] /\ rd2 = rd /\ d2 = d
    BY <1>1, <1>3, <1>4, <1>5 DEF Received
  <2> HIDE DEF frames
  <2>2. /\ i2.numframes = i.numframes /\ i2.frames = frames
        /\ i2.frame.size = <<>> /\ i2.frame.data = <<>> /\ i2 \in Incoming
    <3>1. NoFrame \in [size : Seq(Byte), data : Seq(Byte)] /\ NoFrame.size = <<>> /\ NoFrame.data = <<>>
      BY DEF NoFrame
    <3> QED BY <2>1, <3>1, <1>1, <1>3 DEF Incoming
  <2>3. PartOf(m, i2)
    <3> HIDE DEF L
    <3>1. L + 2 \in 1 .. Len(m) /\ Len(frames) + 1 = L + 2
      BY <1>1, <1>2, <1>3, <1>5
    <3>2. m[L + 2] \in Seq(Byte) /\ Encode(Len(m[L + 2])) \in Seq(Byte)
      BY <1>1, <3>1, NextMessage DEF m
    <3>3. Begins(Byte, <<>>, m[L + 2]) /\ Begins(Byte, <<>>, Encode(Len(m[L + 2])))
      BY <3>2, BeginsEmpty
    <3>4. Len(<<>>) # Width
      BY <1>1
    <3> QED BY <2>2, <3>1, <3>3, <3>4, <1>3, <1>5 DEF PartOf
  <2>4. Reading(s, d2, rd2, i2)
    <3>1. /\ rd = FALSE => i.numframes = <<>>
          /\ i.numframes # <<>> => Begins(Byte, i.numframes, Encode(Len(m)))
      BY DEF Reading, m
    <3> QED BY <2>1, <2>2, <2>3, <3>1, <1>1 DEF Reading, m
  <2>5. ReaderAt(d2, i2) = [k |-> Len(d) + 1, f |-> L + 2, part |-> "size", o |-> 0]
    <3>1. Len(frames) + 1 = L + 2 /\ Len(<<>>) = 0 /\ 0 < Width /\ ~ (Width < Width)
      BY <1>1, <1>3
    <3>2. Len(i2.numframes) = Width /\ Len(i2.frame.size) = 0 /\ Len(i2.frames) + 1 = L + 2
      BY <2>2, <3>1
    <3> QED BY <2>1, <3>1, <3>2 DEF ReaderAt
  <2>6. NextFrame(s, p) = [k |-> Len(d) + 1, f |-> L + 2, part |-> "size", o |-> 0]
    <3>1. p.f + 1 = L + 2 /\ s[p.k] = m
      BY <1>1 DEF m
    <3> QED BY <3>1, <1>1, <1>5 DEF NextFrame
  <2> QED BY <2>1, <2>4, <2>5, <2>6 DEF DeliveredNext
<1>6. CASE ~ (L + 1 < Len(m))
  <2>0. Len(frames) = Len(m)
    BY <1>1, <1>2, <1>3, <1>6
  <2>1. d2 = Append(d, frames) /\ rd2 = FALSE /\ i2 = Started(<<>>)
    BY <1>1, <1>3, <1>4, <1>6 DEF Received
  <2> HIDE DEF frames
  <2>2. frames = m
    BY <2>0, <1>2, <1>3, AllOfIt
  <2>3. Begins(Messages, d2, s) /\ Len(d2) = Len(d) + 1
    BY <2>1, <2>2, <1>1, BeginsNext DEF m
  <2>4. /\ i2.numframes = <<>> /\ i2 \in Incoming
    <3>1. <<>> \in Seq(Byte)
      OBVIOUS
    <3> QED BY <2>1, <3>1, StartedIs
  <2>5. Reading(s, d2, rd2, i2)
    <3>1. Len(<<>>) # Width
      BY <1>1
    <3> QED BY <2>1, <2>3, <2>4, <3>1 DEF Reading
  <2>6. ReaderAt(d2, i2) = [k |-> Len(d) + 2, f |-> 1, part |-> "num", o |-> 0]
    <3>1. Len(d2) + 1 = Len(d) + 2 /\ Len(<<>>) = 0 /\ 0 < Width
      BY <2>3, <1>1, <1>2
    <3> QED BY <2>4, <3>1 DEF ReaderAt
  <2>7. NextFrame(s, p) = [k |-> Len(d) + 2, f |-> 1, part |-> "num", o |-> 0]
    <3>1. p.k + 1 = Len(d) + 2 /\ s[p.k] = m
      BY <1>1, <1>2 DEF m
    <3> QED BY <3>1, <1>1, <1>6 DEF NextFrame
  <2> QED BY <2>1, <2>2, <2>5, <2>6, <2>7, <1>1 DEF DeliveredNext, m
<1> QED BY <1>5, <1>6

LEMMA ReadFrameSize ==
  ASSUME NEW s \in Seq(Messages), NEW d, NEW rd \in BOOLEAN, NEW i, Reading(s, d, rd, i),
         Len(i.numframes) = Width, Len(i.frame.size) < Width,
         NEW n \in 1 .. (Width - Len(i.frame.size)),
         NEW size, size = i.frame.size \o NextBytes(s, ReaderAt(d, i), n),
         Len(size) = Width \/ Value(size) # 0,
         NEW d2, NEW rd2, NEW i2,
         Received(d, rd, i, WithSize(i, size), d2, rd2, i2)
  PROVE  ReadOn(s, d, i, n, d2, rd2, i2)
<1> DEFINE p == ReaderAt(d, i)
           m == s[Len(d) + 1]
           L == Len(i.frames)
           data == m[L + 1]
           c == Encode(Len(data))
           a == i.frame.size
           frame == WithSize(i, size)
<1>1. /\ i \in Incoming /\ Begins(Messages, d, s)
      /\ Len(d) < Len(s) /\ PartOf(m, i) /\ Value(i.numframes) = Len(m)
      /\ L \in Nat /\ L + 1 \in 1 .. Len(m)
      /\ p.k = Len(d) + 1 /\ p.f = L + 1 /\ Width \in Nat \ {0}
  BY Receiving
<1>2. /\ data \in Seq(Byte) /\ Len(data) \in Nat
      /\ c \in Seq(Byte) /\ Len(c) = Width /\ Value(c) = Len(data)
  <2>1. \A f \in 1 .. Len(m) :
          /\ m[f] \in Seq(Byte) /\ Len(m[f]) \in Nat
          /\ Encode(Len(m[f])) \in Seq(Byte) /\ Len(Encode(Len(m[f]))) = Width
          /\ Value(Encode(Len(m[f]))) = Len(m[f])
    BY <1>1, NextMessage
  <2> HIDE DEF m, L
  <2> QED BY <2>1, <1>1
<1>3. p.part = "size" /\ p.o = Len(a)
  BY <1>1 DEF ReaderAt
<1>4. Content(s, p) = c
  BY <1>1, <1>3 DEF Content
<1>5. Begins(Byte, a, c) /\ i.frame.data = <<>> /\ Len(a) \in Nat /\ Len(a) + n <= Width
  <2>1. Begins(Byte, a, c) /\ i.frame.data = <<>>
    BY <1>1 DEF PartOf
  <2>2. Len(a) \in Nat
    BY <1>1 DEF Incoming
  <2>3. n \in 1 .. (Width - Len(a))
    OBVIOUS
  <2> HIDE DEF a
  <2>4. Len(a) + n <= Width
    BY <2>2, <2>3, <1>1
  <2> QED BY <2>1, <2>2, <2>4
<1>6. Begins(Byte, size, c) /\ Len(size) = Len(a) + n /\ size \in Seq(Byte)
  <2>1. size = a \o SubSeq(c, Len(a) + 1, Len(a) + n)
    BY <1>3, <1>4 DEF NextBytes
  <2> HIDE DEF a, c
  <2>2. /\ Begins(Byte, a \o SubSeq(c, Len(a) + 1, Len(a) + n), c)
        /\ Len(a \o SubSeq(c, Len(a) + 1, Len(a) + n)) = Len(a) + n
    <3>1. n \in Nat /\ Len(a) + n <= Len(c) /\ c \in Seq(Byte) /\ Begins(Byte, a, c)
      BY <1>2, <1>5
    <3> QED BY ONLY <3>1, BeginsLonger, ZenonT(30)
  <2> QED BY <2>1, <2>2 DEF Begins
<1>7. Len(size) = Width => size = c
  <2> HIDE DEF c
  <2> QED BY <1>2, <1>6, AllOfIt
<1> HIDE DEF a
<1>8. frame.size = size /\ frame.data = <<>> /\ frame \in [size : Seq(Byte), data : Seq(Byte)]
  BY <1>1, <1>5, <1>6 DEF Incoming, WithSize
<1> HIDE DEF frame
<1>w. Received(d, rd, i, frame, d2, rd2, i2)
  BY DEF frame
<1>k. CASE Value(size) # 0
  <2>1. i2 = [i EXCEPT !.frame = frame] /\ rd2 = rd /\ d2 = d
    <3>1. Len(frame.data) = 0
      BY <1>8
    <3>2. Len(frame.data) # Value(frame.size)
      BY <1>k, <1>8, <3>1
    <3> QED BY <3>2, <1>w DEF Received
  <2>2. /\ i2 \in Incoming /\ i2.numframes = i.numframes /\ i2.frames = i.frames
        /\ i2.frame.size = size /\ i2.frame.data = <<>>
    BY <2>1, <1>1, <1>8 DEF Incoming
  <2>3. Len(size) = Width => Len(data) > 0
    <3>1. ASSUME Len(size) = Width
          PROVE  Len(data) # 0
      <4>1. size = c
        BY <3>1, <1>7
      <4>2. Value(size) = Len(data)
        BY <4>1, <1>2
      <4> QED BY <4>2, <1>k
    <3> HIDE DEF data
    <3> QED BY <3>1, <1>2
  <2>4. PartOf(m, i2)
    <3>1. /\ Begins(Seq(Byte), i.frames, m) /\ Len(i.frames) < Len(m)
          /\ Begins(Byte, <<>>, data) /\ Len(<<>>) = 0
      BY <1>1, <1>2, BeginsEmpty DEF PartOf
    <3> QED BY <2>2, <2>3, <3>1, <1>6 DEF PartOf
  <2>5. Reading(s, d2, rd2, i2)
    <3>1. /\ rd = FALSE => i.numframes = <<>>
          /\ i.numframes # <<>> => Begins(Byte, i.numframes, Encode(Len(m)))
      BY DEF Reading
    <3> QED BY <2>1, <2>2, <2>4, <3>1, <1>1 DEF Reading
  <2>6. ReaderAt(d2, i2) = Further(s, p, n)
    <3>1. p = [k |-> Len(d) + 1, f |-> L + 1, part |-> "size", o |-> Len(a)]
      <4>1. p = [k |-> p.k, f |-> p.f, part |-> p.part, o |-> p.o]
        BY DEF ReaderAt
      <4> HIDE DEF p
      <4> QED BY <4>1, <1>1, <1>3
    <3>2. CASE Len(size) < Width
      <4>1. ReaderAt(d2, i2) =
              [k |-> Len(d) + 1, f |-> L + 1, part |-> "size", o |-> Len(a) + n]
        <5>1. Len(i2.numframes) = Width /\ Len(i2.frame.size) = Len(a) + n /\ Len(a) + n < Width
              /\ ~ (Width < Width) /\ Len(i2.frames) = L
          BY <2>2, <3>2, <1>1, <1>6
        <5> QED BY <2>1, <5>1 DEF ReaderAt
      <4>2. Further(s, p, n) = [p EXCEPT !.o = p.o + n]
        BY <3>2, <1>2, <1>3, <1>4, <1>6 DEF Further
      <4>3. [p EXCEPT !.o = p.o + n] =
              [k |-> Len(d) + 1, f |-> L + 1, part |-> "size", o |-> Len(a) + n]
        <5> HIDE DEF p
        <5> QED BY ONLY <3>1
      <4> QED BY <4>1, <4>2, <4>3
    <3>3. CASE ~ (Len(size) < Width)
      <4>0. Len(size) = Width
        <5>1. Len(size) = Len(a) + n /\ Len(a) + n <= Width /\ Len(a) \in Nat
          BY <1>5, <1>6
        <5>2. Width \in Nat /\ n \in Nat
          BY ONLY <1>1, <5>1, n \in 1 .. (Width - Len(i.frame.size))
        <5> QED BY ONLY <5>1, <5>2, <3>3
      <4>1. ReaderAt(d2, i2) =
              [k |-> Len(d) + 1, f |-> L + 1, part |-> "data", o |-> 0]
        <5>1. Len(i2.numframes) = Width /\ Len(i2.frame.size) = Width /\ Len(i2.frame.data) = 0
              /\ ~ (Width < Width) /\ Len(i2.frames) = L
          BY <2>2, <4>0, <1>1
        <5> QED BY <2>1, <5>1 DEF ReaderAt
      <4>2. Further(s, p, n) = Behind(s, p)
        BY <4>0, <1>1, <1>2, <1>3, <1>4, <1>6 DEF Further
      <4>3. data # <<>>
        BY <4>0, <2>3
      <4>4. Behind(s, p) = [k |-> Len(d) + 1, f |-> L + 1, part |-> "data", o |-> 0]
        <5>1. s[p.k][p.f] = data
          BY <1>1
        <5> HIDE DEF p, data
        <5> QED BY <5>1, <4>3, <1>1, <1>3 DEF Behind
      <4> QED BY <4>1, <4>2, <4>4
    <3> QED BY <3>2, <3>3
  <2> QED BY <2>1, <2>5, <2>6 DEF DeliveredNext, ReadOn
<1>z. CASE Value(size) = 0
  <2>1. Len(size) = Width /\ Len(data) = 0
    BY <1>z, <1>2, <1>7
  <2>2. data = <<>>
    BY <2>1, <1>2
  <2>3. frame.data = data /\ Value(frame.size) = Len(data)
    BY <2>1, <2>2, <1>8, <1>z
  <2>4. /\ Reading(s, d2, rd2, i2) /\ rd2 \in BOOLEAN
        /\ DeliveredNext(s, d, d2)
        /\ ReaderAt(d2, i2) = NextFrame(s, p)
    BY <2>3, <1>w, FrameThere
  <2>5. Further(s, p, n) = Behind(s, p)
    BY <2>1, <1>1, <1>2, <1>3, <1>4, <1>6 DEF Further
  <2>6. Behind(s, p) = NextFrame(s, p)
    BY <2>2, <1>1, <1>3 DEF Behind
  <2> QED BY <2>4, <2>5, <2>6 DEF ReadOn
<1> QED BY <1>k, <1>z

LEMMA ReadFrameData ==
  ASSUME NEW s \in Seq(Messages), NEW d, NEW rd \in BOOLEAN, NEW i, Reading(s, d, rd, i),
         Len(i.numframes) = Width, Len(i.frame.size) = Width,
         NEW n \in 1 .. (Value(i.frame.size) - Len(i.frame.data)),
         NEW more, more = i.frame.data \o NextBytes(s, ReaderAt(d, i), n),
         NEW d2, NEW rd2, NEW i2,
         Received(d, rd, i, WithData(i, more), d2, rd2, i2)
  PROVE  ReadOn(s, d, i, n, d2, rd2, i2)
<1> DEFINE p == ReaderAt(d, i)
           m == s[Len(d) + 1]
           L == Len(i.frames)
           data == m[L + 1]
           a == i.frame.data
           frame == WithData(i, more)
<1>1. /\ i \in Incoming /\ Begins(Messages, d, s)
      /\ Len(d) < Len(s) /\ PartOf(m, i) /\ Value(i.numframes) = Len(m)
      /\ L \in Nat /\ L + 1 \in 1 .. Len(m)
      /\ p.k = Len(d) + 1 /\ p.f = L + 1 /\ Width \in Nat \ {0}
  BY Receiving
<1>2. /\ data \in Seq(Byte) /\ Len(data) \in Nat
      /\ Encode(Len(data)) \in Seq(Byte) /\ Len(Encode(Len(data))) = Width
      /\ Value(Encode(Len(data))) = Len(data)
  <2>1. \A f \in 1 .. Len(m) :
          /\ m[f] \in Seq(Byte) /\ Len(m[f]) \in Nat
          /\ Encode(Len(m[f])) \in Seq(Byte) /\ Len(Encode(Len(m[f]))) = Width
          /\ Value(Encode(Len(m[f]))) = Len(m[f])
    BY <1>1, NextMessage
  <2> HIDE DEF m, L
  <2> QED BY <2>1, <1>1
<1>3. p.part = "data" /\ p.o = Len(a)
  BY <1>1 DEF ReaderAt
<1>4. Content(s, p) = data
  BY <1>1, <1>3 DEF Content
<1>s. i.frame.size = Encode(Len(data))
  <2> DEFINE b == i.frame.size
             c == Encode(Len(data))
  <2>1. Begins(Byte, b, c) /\ c \in Seq(Byte) /\ Len(b) = Len(c)
    BY <1>1, <1>2 DEF PartOf
  <2> HIDE DEF b, c
  <2>2. b = c
    BY <2>1, AllOfIt
  <2> QED BY <2>2 DEF b, c
<1>5. Begins(Byte, a, data) /\ Len(a) \in Nat /\ Len(a) + n <= Len(data) /\ n \in Nat
  <2>1. Begins(Byte, a, data) /\ Len(a) \in Nat
    BY <1>1 DEF PartOf, Incoming
  <2>2. n \in 1 .. (Len(data) - Len(a))
    BY <1>s, <1>2
  <2> QED BY <2>1, <2>2, <1>2
<1>6. Begins(Byte, more, data) /\ Len(more) = Len(a) + n /\ more \in Seq(Byte)
  <2>1. more = a \o SubSeq(data, Len(a) + 1, Len(a) + n)
    BY <1>3, <1>4 DEF NextBytes
  <2> HIDE DEF a, data
  <2>2. /\ Begins(Byte, a \o SubSeq(data, Len(a) + 1, Len(a) + n), data)
        /\ Len(a \o SubSeq(data, Len(a) + 1, Len(a) + n)) = Len(a) + n
    <3>1. n \in Nat /\ Len(a) + n <= Len(data) /\ data \in Seq(Byte) /\ Begins(Byte, a, data)
      BY <1>2, <1>5
    <3> QED BY ONLY <3>1, BeginsLonger, ZenonT(30)
  <2> QED BY <2>1, <2>2 DEF Begins
<1>7. Len(more) = Len(data) => more = data
  <2> HIDE DEF data
  <2> QED BY <1>2, <1>6, AllOfIt
<1> HIDE DEF a
<1>8. /\ frame.size = Encode(Len(data)) /\ frame.data = more
      /\ frame \in [size : Seq(Byte), data : Seq(Byte)]
  BY <1>1, <1>s, <1>6 DEF Incoming, WithData
<1> HIDE DEF frame
<1>w. Received(d, rd, i, frame, d2, rd2, i2)
  BY DEF frame
<1>9. CASE Len(more) # Len(data)
  <2>1. i2 = [i EXCEPT !.frame = frame] /\ rd2 = rd /\ d2 = d
    <3>1. Len(frame.data) # Value(frame.size)
      BY <1>9, <1>8, <1>2
    <3> QED BY <3>1, <1>w DEF Received
  <2>2. /\ i2 \in Incoming /\ i2.numframes = i.numframes /\ i2.frames = i.frames
        /\ i2.frame.size = Encode(Len(data)) /\ i2.frame.data = more
    BY <2>1, <1>1, <1>8 DEF Incoming
  <2>3. Len(more) < Len(data)
    <3> HIDE DEF data
    <3> QED BY <1>9, <1>2, <1>5, <1>6
  <2>4. PartOf(m, i2)
    <3>1. /\ Begins(Seq(Byte), i.frames, m) /\ Len(i.frames) < Len(m)
          /\ Begins(Byte, Encode(Len(data)), Encode(Len(data)))
          /\ ~ (Len(Encode(Len(data))) < Width)
      BY <1>1, <1>2 DEF PartOf, Begins
    <3> QED BY <2>2, <2>3, <3>1, <1>6 DEF PartOf
  <2>5. Reading(s, d2, rd2, i2)
    <3>1. /\ rd = FALSE => i.numframes = <<>>
          /\ i.numframes # <<>> => Begins(Byte, i.numframes, Encode(Len(m)))
      BY DEF Reading
    <3> QED BY <2>1, <2>2, <2>4, <3>1, <1>1 DEF Reading
  <2>6. ReaderAt(d2, i2) = Further(s, p, n)
    <3>1. p = [k |-> Len(d) + 1, f |-> L + 1, part |-> "data", o |-> Len(a)]
      <4>1. p = [k |-> p.k, f |-> p.f, part |-> p.part, o |-> p.o]
        BY DEF ReaderAt
      <4> HIDE DEF p
      <4> QED BY <4>1, <1>1, <1>3
    <3>2. ReaderAt(d2, i2) = [k |-> Len(d) + 1, f |-> L + 1, part |-> "data", o |-> Len(a) + n]
      <4>1. Len(i2.numframes) = Width /\ Len(i2.frame.size) = Width /\ Len(i2.frame.data) = Len(a) + n
            /\ ~ (Width < Width) /\ Len(i2.frames) = L
        BY <2>2, <1>1, <1>2, <1>6
      <4> QED BY <2>1, <4>1 DEF ReaderAt
    <3>3. Further(s, p, n) = [p EXCEPT !.o = p.o + n]
      BY <2>3, <1>2, <1>3, <1>4, <1>6 DEF Further
    <3>4. [p EXCEPT !.o = p.o + n] =
            [k |-> Len(d) + 1, f |-> L + 1, part |-> "data", o |-> Len(a) + n]
      <4> HIDE DEF p
      <4> QED BY <3>1
    <3> QED BY <3>2, <3>3, <3>4
  <2> QED BY <2>1, <2>5, <2>6 DEF DeliveredNext, ReadOn
<1>10. CASE Len(more) = Len(data)
  <2>1. frame.data = data /\ Value(frame.size) = Len(data)
    BY <1>10, <1>2, <1>7, <1>8
  <2>2. /\ Reading(s, d2, rd2, i2) /\ rd2 \in BOOLEAN
        /\ DeliveredNext(s, d, d2)
        /\ ReaderAt(d2, i2) = NextFrame(s, p)
    BY <2>1, <1>w, FrameThere
  <2>3. Further(s, p, n) = Behind(s, p)
    BY <1>10, <1>2, <1>3, <1>4, <1>6 DEF Further
  <2>4. Behind(s, p) = NextFrame(s, p)
    BY <1>3 DEF Behind
  <2> QED BY <2>2, <2>3, <2>4 DEF ReadOn
<1> QED BY <1>9, <1>10

(***************************************************************************)
(* The invariant: what has been delivered is the beginning of what has     *)
(* been accepted, and while the connection lasts, the bytes on the wire    *)
(* are those from the position of the reader to that of the writer.        *)
(***************************************************************************)

Linked ==
  /\ wire \in Seq(Byte)
  /\ Writing(sent, send_msgs, out)
  /\ Reading(sent, delivered, reading, in)
  /\ Stream(sent, wire, ReaderAt(delivered, in), WriterAt(sent, send_msgs, out))

FramingInv ==
  /\ sent \in Seq(Messages)
  /\ Begins(Messages, delivered, sent)
  /\ reading \in BOOLEAN
  /\ closed \in BOOLEAN
  /\ closed = FALSE => Linked

LEMMA FramingInitInv == FramingInit => FramingInv
<1> SUFFICES ASSUME FramingInit PROVE FramingInv
  OBVIOUS
<1>1. /\ sent = <<>> /\ delivered = <<>> /\ send_msgs = <<>> /\ wire = <<>>
      /\ reading = FALSE /\ closed = FALSE
      /\ out = Fresh /\ in = Started(<<>>)
  BY DEF FramingInit, Started
<1>2. <<>> \in Seq(Messages) /\ <<>> \in Seq(Byte) /\ Len(<<>>) = 0
  OBVIOUS
<1>3. Width \in Nat \ {0}
  BY FramingAssumption
<1>4. Begins(Messages, <<>>, <<>>)
  BY <1>2, BeginsEmpty
<1>5. Fresh \in Outgoing
  BY DEF Fresh, Outgoing
<1>6. Writing(<<>>, <<>>, Fresh)
  BY <1>2, <1>5 DEF Writing, QueueOf
<1>7. /\ Started(<<>>) \in Incoming /\ Started(<<>>).numframes = <<>>
  BY <1>2, StartedIs
<1>8. Reading(<<>>, <<>>, FALSE, Started(<<>>))
  BY <1>2, <1>3, <1>4, <1>7 DEF Reading
<1> DEFINE x == [k |-> 1, f |-> 1, part |-> "num", o |-> 0]
<1>9. WriterAt(<<>>, <<>>, Fresh) = x
  BY <1>2, <1>3 DEF WriterAt, Fresh
<1>10. ReaderAt(<<>>, Started(<<>>)) = x
  BY <1>2, <1>3, <1>7 DEF ReaderAt
<1>11. Stream(<<>>, <<>>, x, x)
  <2> DEFINE t == [i \in 0 .. 0 |-> x]
  <2>1. t \in [0 .. 0 -> Position] /\ t[0] = x
    BY DEF Position
  <2> HIDE DEF t, x
  <2>2. Along(<<>>, <<>>, x, x, t)
    BY <2>1, <1>2 DEF Along
  <2> QED BY <2>2 DEF Stream
<1> QED BY <1>1, <1>2, <1>4, <1>6, <1>8, <1>9, <1>10, <1>11 DEF FramingInv, Linked

LEMMA Chunks ==
  ASSUME wire \in Seq(Byte), NEW left \in Int
  PROVE  /\ WriteChunks(left) \subseteq 0 .. left
         /\ ReadChunks(left) \subseteq 1 .. left
         /\ ReadChunks(left) \subseteq 1 .. Len(wire)
<1>1. Room \in Int /\ Len(wire) \in Int
  BY FramingAssumption DEF Room
<1>2. ASSUME NEW a \in Int, NEW b \in Int
      PROVE  Smaller(a, b) \in Int /\ Smaller(a, b) <= a /\ Smaller(a, b) <= b
  BY DEF Smaller
<1>3. WriteChunks(left) \subseteq 0 .. left
  BY <1>1, <1>2 DEF WriteChunks
<1>4. ReadChunks(left) \subseteq 1 .. left /\ ReadChunks(left) \subseteq 1 .. Len(wire)
  <2>1. ASSUME NEW n \in ReadChunks(left)
        PROVE  n \in Int /\ 1 <= n /\ n <= left /\ n <= Len(wire)
    <3> DEFINE b == Len(wire)
    <3>1. n \in 1 .. Smaller(left, b)
      BY DEF ReadChunks
    <3>2. b \in Int
      BY <1>1
    <3> HIDE DEF b
    <3> DEFINE z == Smaller(left, b)
    <3>3. z \in Int /\ z <= left /\ z <= b /\ n \in 1 .. z
      BY <3>1, <3>2, <1>2
    <3> HIDE DEF z
    <3>4. n \in Int /\ 1 <= n /\ n <= left /\ n <= b
      BY <3>2, <3>3
    <3> QED BY <3>4 DEF b
  <2> QED BY <2>1, <1>1
<1> QED BY <1>3, <1>4

\* The bytes go onto the wire, and the writer to the position behind them.
LEMMA WriterStep ==
  ASSUME FramingInv, ~closed, closed' = closed, sent' = sent, delivered' = delivered,
         reading' = reading, in' = in, send_msgs # <<>>,
         NEW n \in Nat,
         WriterAt(sent, send_msgs, out).o + n
           <= Len(Content(sent, WriterAt(sent, send_msgs, out))),
         Put(Content(sent, WriterAt(sent, send_msgs, out)),
             WriterAt(sent, send_msgs, out).o, n),
         Writing(sent, send_msgs', out'),
         WriterAt(sent, send_msgs', out') = Further(sent, WriterAt(sent, send_msgs, out), n)
  PROVE  FramingInv'
<1> DEFINE x == WriterAt(sent, send_msgs, out)
           r == ReaderAt(delivered, in)
<1>1. Linked /\ sent \in Seq(Messages)
  BY DEF FramingInv
<1>2. /\ wire \in Seq(Byte) /\ Stream(sent, wire, r, x)
      /\ Writing(sent, send_msgs, out) /\ Reading(sent, delivered, reading, in)
  BY <1>1 DEF Linked
<1>3. HasByte(sent, x)
  BY <1>1, <1>2, WriterHasByte
<1>4. wire' = wire \o SubSeq(Content(sent, x), x.o + 1, x.o + n)
  BY DEF Put
<1>5. wire' \in Seq(Byte) /\ Stream(sent, wire', r, Further(sent, x, n))
  <2> HIDE DEF x, r
  <2>1. x.o + n <= Len(Content(sent, x))
    BY DEF x
  <2> QED BY <1>1, <1>2, <1>3, <1>4, <2>1, StreamWritten
<1>6. Linked'
  BY <1>2, <1>5 DEF Linked
<1> QED BY <1>6 DEF FramingInv

LEMMA WriteNumFramesInv == FramingInv /\ writeNumFrames => FramingInv'
<1> SUFFICES ASSUME FramingInv, writeNumFrames PROVE FramingInv'
  OBVIOUS
<1> DEFINE x == WriterAt(sent, send_msgs, out)
           c == Encode(Len(Head(send_msgs)))
<1>1. /\ send_msgs # <<>> /\ ~closed /\ out.numframes_filled < Width
      /\ closed' = closed /\ sent' = sent /\ delivered' = delivered
      /\ reading' = reading /\ in' = in /\ send_msgs' = send_msgs
  BY DEF writeNumFrames, receiver
<1>2. PICK n \in WriteChunks(Width - out.numframes_filled) :
        /\ Put(c, out.numframes_filled, n)
        /\ out' = [out EXCEPT !.numframes_filled = @ + n]
  BY DEF writeNumFrames
<1>3. sent \in Seq(Messages) /\ Writing(sent, send_msgs, out)
  BY <1>1 DEF FramingInv, Linked
<1>4. wire \in Seq(Byte)
  BY <1>1 DEF FramingInv, Linked
<1>5. Content(sent, x) = c /\ x.o = out.numframes_filled
  BY <1>1, <1>3, WriterHasByte DEF WriterAt
<1>6. Len(c) = Width /\ Width \in Nat /\ out.numframes_filled \in Nat
  <2>1. Head(send_msgs) \in Messages
    BY <1>1, <1>3, HeadOfQueue DEF Writing
  <2>2. Len(Head(send_msgs)) \in Nat
    BY <2>1, MessageIs
  <2> QED BY <1>3, <2>2, EncodeIs, FramingAssumption DEF Writing, Outgoing
<1>7. n \in 0 .. (Width - out.numframes_filled) /\ n \in Nat /\ out.numframes_filled + n <= Width
  <2> DEFINE left == Width - out.numframes_filled
  <2>1. left \in Int /\ n \in WriteChunks(left)
    BY <1>2, <1>1, <1>6
  <2> HIDE DEF left
  <2>2. n \in 0 .. left
    BY <1>4, <2>1, Chunks
  <2> QED BY <1>6, <2>2 DEF left
<1>8. Writing(sent, send_msgs, out') /\ WriterAt(sent, send_msgs, out') = Further(sent, x, n)
  BY <1>1, <1>2, <1>3, <1>7, WroteNumFrames
<1> QED BY <1>1, <1>2, <1>5, <1>6, <1>7, <1>8, WriterStep

\* frameWritten is the step of the writer that the lemmas above are about.
LEMMA FrameWrittenIs ==
  ASSUME NEW progress, frameWritten(progress)
  PROVE  Written(send_msgs, progress, send_msgs', out')
BY DEF frameWritten, Written

LEMMA WriteFrameSizeInv == FramingInv /\ ~CutZeros /\ writeFrameSize => FramingInv'
<1> SUFFICES ASSUME FramingInv, ~CutZeros, writeFrameSize PROVE FramingInv'
  OBVIOUS
<1> DEFINE x == WriterAt(sent, send_msgs, out)
           frame == Head(send_msgs)[out.frame_ind]
           c == Encode(Len(frame))
           L == out.frame_sz_filled
<1>1. /\ send_msgs # <<>> /\ ~closed /\ out.numframes_filled = Width /\ L < Width
      /\ closed' = closed /\ sent' = sent /\ delivered' = delivered
      /\ reading' = reading /\ in' = in
  BY DEF writeFrameSize, receiver
<1>2. PICK n \in WriteChunks(Width - L) :
        /\ CutZeros \/ L + n = Width \/ frame # <<>>
        /\ Put(c, L, n)
        /\ frameWritten([out EXCEPT !.frame_sz_filled = @ + n])
  BY DEF writeFrameSize
<1>3. sent \in Seq(Messages) /\ Writing(sent, send_msgs, out) /\ wire \in Seq(Byte)
  BY <1>1 DEF FramingInv, Linked
<1>4. Width \in Nat \ {0}
  BY FramingAssumption
<1>5. Content(sent, x) = c /\ x.o = L
  <2>1. Content(sent, x) = c
    BY <1>1, <1>3, WriterHasByte
  <2>2. ~ (out.numframes_filled < Width)
    BY <1>1, <1>4
  <2> QED BY <1>1, <2>1, <2>2 DEF WriterAt
<1>6. Len(c) = Width /\ L \in Nat
  <2>1. Head(send_msgs) \in Messages /\ out.frame_ind \in 1 .. Len(Head(send_msgs))
    BY <1>1, <1>3, HeadOfQueue DEF Writing, ProgressIn
  <2>2. Len(frame) \in Nat
    BY <2>1, MessageIs
  <2> QED BY <1>3, <2>2, EncodeIs DEF Writing, Outgoing
<1>7. n \in 0 .. (Width - L) /\ n \in Nat /\ L + n <= Width
  <2> DEFINE left == Width - L
  <2>1. left \in Int /\ n \in WriteChunks(left)
    BY <1>2, <1>4, <1>6
  <2> HIDE DEF left
  <2>2. n \in 0 .. left
    BY <1>3, <2>1, Chunks
  <2> QED BY <1>4, <1>6, <2>2 DEF left
<1>8. Writing(sent, send_msgs', out') /\ WriterAt(sent, send_msgs', out') = Further(sent, x, n)
  <2>1. Written(send_msgs, [out EXCEPT !.frame_sz_filled = @ + n], send_msgs', out')
    BY <1>2, FrameWrittenIs
  <2>2. L + n = Width \/ frame # <<>>
    BY <1>2
  <2> QED BY <1>1, <1>3, <1>7, <2>1, <2>2, WroteFrameSize
<1> QED BY <1>1, <1>2, <1>5, <1>6, <1>7, <1>8, WriterStep

LEMMA WriteFrameDataInv == FramingInv /\ writeFrameData => FramingInv'
<1> SUFFICES ASSUME FramingInv, writeFrameData PROVE FramingInv'
  OBVIOUS
<1> DEFINE x == WriterAt(sent, send_msgs, out)
           frame == Head(send_msgs)[out.frame_ind]
           L == out.frame_filled
<1>1. /\ send_msgs # <<>> /\ ~closed /\ out.numframes_filled = Width /\ out.frame_sz_filled = Width
      /\ closed' = closed /\ sent' = sent /\ delivered' = delivered
      /\ reading' = reading /\ in' = in
  BY DEF writeFrameData, receiver
<1>2. PICK n \in WriteChunks(Len(frame) - L) :
        /\ Put(frame, L, n)
        /\ frameWritten([out EXCEPT !.frame_filled = @ + n])
  BY DEF writeFrameData
<1>3. sent \in Seq(Messages) /\ Writing(sent, send_msgs, out) /\ wire \in Seq(Byte)
  BY <1>1 DEF FramingInv, Linked
<1>4. Width \in Nat \ {0}
  BY FramingAssumption
<1>5. Content(sent, x) = frame /\ x.o = L
  <2>1. Content(sent, x) = frame
    BY <1>1, <1>3, WriterHasByte
  <2>2. ~ (out.numframes_filled < Width) /\ ~ (out.frame_sz_filled < Width)
    BY <1>1, <1>4
  <2> QED BY <2>1, <2>2 DEF WriterAt
<1>6. Len(frame) \in Nat /\ L \in Nat
  <2>1. Head(send_msgs) \in Messages /\ out.frame_ind \in 1 .. Len(Head(send_msgs))
    BY <1>1, <1>3, HeadOfQueue DEF Writing, ProgressIn
  <2>2. Len(frame) \in Nat
    BY <2>1, MessageIs
  <2> QED BY <1>3, <2>2 DEF Writing, Outgoing
<1>7. n \in 0 .. (Len(frame) - L) /\ n \in Nat /\ L + n <= Len(frame)
  <2> DEFINE left == Len(frame) - L
  <2>1. left \in Int /\ n \in WriteChunks(left)
    BY <1>2, <1>6
  <2> HIDE DEF left
  <2>2. n \in 0 .. left
    BY <1>3, <2>1, Chunks
  <2> QED BY <1>6, <2>2 DEF left
<1>8. Writing(sent, send_msgs', out') /\ WriterAt(sent, send_msgs', out') = Further(sent, x, n)
  <2>1. Written(send_msgs, [out EXCEPT !.frame_filled = @ + n], send_msgs', out')
    BY <1>2, FrameWrittenIs
  <2> QED BY <1>1, <1>3, <1>7, <2>1, WroteFrameData
<1> QED BY <1>1, <1>2, <1>5, <1>6, <1>7, <1>8, WriterStep

(***************************************************************************)
(* The steps of the reader.                                                *)
(***************************************************************************)

\* The reader goes to the position behind the bytes it takes.
LEMMA ReaderStep ==
  ASSUME FramingInv, ~closed, closed' = closed, sent' = sent,
         send_msgs' = send_msgs, out' = out,
         NEW n \in 1 .. Len(wire), Take(n),
         HasByte(sent, ReaderAt(delivered, in)),
         ReaderAt(delivered, in).o + n <= Len(Content(sent, ReaderAt(delivered, in))),
         Reading(sent, delivered', reading', in'), reading' \in BOOLEAN,
         ReaderAt(delivered', in') = Further(sent, ReaderAt(delivered, in), n)
  PROVE  FramingInv'
<1> DEFINE x == WriterAt(sent, send_msgs, out)
           r == ReaderAt(delivered, in)
<1>1. Linked /\ sent \in Seq(Messages)
  BY DEF FramingInv
<1>2. /\ wire \in Seq(Byte) /\ Stream(sent, wire, r, x)
      /\ Writing(sent, send_msgs, out)
  BY <1>1 DEF Linked
<1>3. wire' = SubSeq(wire, n + 1, Len(wire))
  BY DEF Take
<1>4. wire' \in Seq(Byte) /\ Stream(sent, wire', Further(sent, r, n), x)
  <2>1. HasByte(sent, r) /\ r.o + n <= Len(Content(sent, r))
    OBVIOUS
  <2> HIDE DEF x, r
  <2> QED BY <1>1, <1>2, <1>3, <2>1, StreamRead
<1>5. Linked'
  BY <1>2, <1>4 DEF Linked
<1>6. Begins(Messages, delivered', sent)
  BY DEF Reading
<1> QED BY <1>1, <1>5, <1>6 DEF FramingInv

\* What a call takes of the wire are the next bytes of the field.
LEMMA GotIs ==
  ASSUME FramingInv, ~closed, NEW n \in 1 .. Len(wire)
  PROVE  /\ HasByte(sent, ReaderAt(delivered, in))
         /\ ReaderAt(delivered, in).o + n <= Len(Content(sent, ReaderAt(delivered, in)))
              => Got(n) = NextBytes(sent, ReaderAt(delivered, in), n)
<1> DEFINE x == WriterAt(sent, send_msgs, out)
           r == ReaderAt(delivered, in)
<1>1. sent \in Seq(Messages) /\ wire \in Seq(Byte) /\ Stream(sent, wire, r, x)
  BY DEF FramingInv, Linked
<1>2. Len(wire) >= 1
  BY <1>1
<1> HIDE DEF x, r
<1>3. HasByte(sent, r)
  BY <1>1, <1>2, StreamBegins
<1>4. ASSUME r.o + n <= Len(Content(sent, r))
      PROVE  Got(n) = NextBytes(sent, r, n)
  BY <1>1, <1>3, <1>4, StreamRead DEF Got, NextBytes
<1> QED BY <1>3, <1>4 DEF r

LEMMA ReadNumFramesInv ==
  FramingInv /\ readNumFrames => FramingInv' /\ closed' = closed /\ delivered' = delivered
<1> SUFFICES ASSUME FramingInv, readNumFrames
             PROVE  FramingInv' /\ closed' = closed /\ delivered' = delivered
  OBVIOUS
<1> DEFINE r == ReaderAt(delivered, in)
           L == Len(in.numframes)
<1>1. /\ ~closed /\ (~reading \/ Len(in.numframes) < Width)
      /\ sent' = sent /\ delivered' = delivered /\ send_msgs' = send_msgs /\ out' = out
      /\ reading' = TRUE
  BY DEF readNumFrames, sender
<1>2. /\ sent \in Seq(Messages) /\ Reading(sent, delivered, reading, in) /\ wire \in Seq(Byte)
      /\ reading \in BOOLEAN /\ closed \in BOOLEAN
  BY <1>1 DEF FramingInv, Linked
<1>3. Width \in Nat \ {0}
  BY FramingAssumption
<1>4. /\ (IF reading THEN in.numframes ELSE <<>>) = in.numframes
      /\ L < Width /\ L \in Nat /\ in.numframes \in Seq(Byte)
  <2>1. in.numframes \in Seq(Byte) /\ L \in Nat /\ (~reading => in.numframes = <<>>)
    BY <1>2 DEF Reading, Incoming
  <2>2. ~reading => L = 0
    BY <2>1
  <2> QED BY <1>1, <1>3, <2>1, <2>2
<1>5. PICK n \in ReadChunks(Width - L) :
        /\ Take(n)
        /\ in' = Started(in.numframes \o Got(n))
        /\ closed' = (L + n = Width /\ Value(in.numframes \o Got(n)) = 0)
  BY <1>4 DEF readNumFrames, Started
<1>6. n \in 1 .. (Width - L) /\ n \in 1 .. Len(wire)
  <2> DEFINE left == Width - L
  <2>1. left \in Int /\ n \in ReadChunks(left)
    BY <1>3, <1>4, <1>5
  <2> HIDE DEF left
  <2>2. n \in 1 .. left /\ n \in 1 .. Len(wire)
    BY <1>2, <2>1, Chunks
  <2> QED BY <2>2 DEF left
<1>7. HasByte(sent, r)
  BY <1>1, <1>6, GotIs
<1>8. r.o + n <= Len(Content(sent, r))
  <2>1. r \in Position /\ r.k \in 1 .. Len(sent) /\ r.f \in 1 .. Len(sent[r.k])
    BY <1>7 DEF HasByte
  <2>2. r.part = "num" /\ r.o = L
    BY <1>4 DEF ReaderAt
  <2>3. Len(Content(sent, r)) = Width
    <3> HIDE DEF r
    <3> QED BY <1>2, <2>1, <2>2, ContentIs
  <2> QED BY <1>3, <1>4, <1>6, <2>2, <2>3
<1>9. Got(n) = NextBytes(sent, r, n)
  BY <1>1, <1>6, <1>8, GotIs
<1>10. /\ Reading(sent, delivered, TRUE, in')
       /\ ReaderAt(delivered, in') = Further(sent, r, n)
       /\ L + n = Width => Value(in.numframes \o Got(n)) # 0
  <2>1. /\ L < Width /\ HasByte(sent, r)
        /\ in' = Started(in.numframes \o Got(n)) /\ Got(n) = NextBytes(sent, r, n)
    BY <1>4, <1>5, <1>7, <1>9
  <2>2. ReadOn(sent, delivered, in, n, delivered, TRUE, in') /\ NotZero(in.numframes \o Got(n))
    BY <1>2, <1>6, <2>1, ReadNumFrames
  <2>3. Len(in.numframes \o Got(n)) = L + n
    <3>1. Got(n) \in Seq(Byte) /\ Len(Got(n)) = n
      BY <1>2, <1>6 DEF Got
    <3> QED BY <3>1, <1>4
  <2> QED BY <2>2, <2>3 DEF ReadOn, NotZero
<1>11. closed' = closed
  BY <1>1, <1>2, <1>5, <1>10
<1> QED BY <1>1, <1>5, <1>6, <1>7, <1>8, <1>10, <1>11, ReaderStep

\* frameRead is the step of the reader that the lemmas above are about.
LEMMA FrameReadIs ==
  ASSUME NEW frame, frameRead(frame)
  PROVE  Received(delivered, reading, in, frame, delivered', reading', in')
BY DEF frameRead, Received, Started

LEMMA ReadFrameSizeInv ==
  FramingInv /\ ~CutZeros /\ readFrameSize
    => FramingInv' /\ closed' = closed /\ DeliveredNext(sent, delivered, delivered')
<1> SUFFICES ASSUME FramingInv, ~CutZeros, readFrameSize
             PROVE  FramingInv' /\ closed' = closed /\ DeliveredNext(sent, delivered, delivered')
  OBVIOUS
<1> DEFINE r == ReaderAt(delivered, in)
           L == Len(in.frame.size)
<1>1. /\ ~closed /\ Len(in.numframes) = Width /\ L < Width
      /\ sent' = sent /\ send_msgs' = send_msgs /\ out' = out /\ closed' = closed
  BY DEF readFrameSize, sender
<1>2. /\ sent \in Seq(Messages) /\ Reading(sent, delivered, reading, in) /\ wire \in Seq(Byte)
      /\ reading \in BOOLEAN
  BY <1>1 DEF FramingInv, Linked
<1>3. Width \in Nat \ {0}
  BY FramingAssumption
<1>4. L \in Nat
  BY <1>2 DEF Reading, Incoming
<1>5. PICK n \in ReadChunks(Width - L) :
        /\ CutZeros \/ Len(in.frame.size \o Got(n)) = Width \/ Value(in.frame.size \o Got(n)) # 0
        /\ Take(n)
        /\ frameRead([in.frame EXCEPT !.size = in.frame.size \o Got(n)])
  BY DEF readFrameSize
<1>6. n \in 1 .. (Width - L) /\ n \in 1 .. Len(wire)
  <2> DEFINE left == Width - L
  <2>1. left \in Int /\ n \in ReadChunks(left)
    BY <1>3, <1>4, <1>5
  <2> HIDE DEF left
  <2>2. n \in 1 .. left /\ n \in 1 .. Len(wire)
    BY <1>2, <2>1, Chunks
  <2> QED BY <2>2 DEF left
<1>7. HasByte(sent, r)
  BY <1>1, <1>6, GotIs
<1>8. r.o + n <= Len(Content(sent, r))
  <2>1. r \in Position /\ r.k \in 1 .. Len(sent) /\ r.f \in 1 .. Len(sent[r.k])
    BY <1>7 DEF HasByte
  <2>2. r.part = "size" /\ r.o = L
    BY <1>1, <1>3 DEF ReaderAt
  <2>3. Len(Content(sent, r)) = Width
    <3> HIDE DEF r
    <3> QED BY <1>2, <2>1, <2>2, ContentIs
  <2> QED BY <1>3, <1>4, <1>6, <2>2, <2>3
<1>9. Got(n) = NextBytes(sent, r, n)
  BY <1>1, <1>6, <1>8, GotIs
<1> DEFINE size == in.frame.size \o Got(n)
<1>10. Received(delivered, reading, in, WithSize(in, size), delivered', reading', in')
  BY <1>5, FrameReadIs DEF WithSize
<1>11. Len(size) = Width \/ Value(size) # 0
  BY <1>5
<1>12. size = in.frame.size \o NextBytes(sent, r, n)
  BY <1>9
<1> HIDE DEF size
<1>13. /\ Reading(sent, delivered', reading', in') /\ reading' \in BOOLEAN
       /\ DeliveredNext(sent, delivered, delivered')
       /\ ReaderAt(delivered', in') = Further(sent, r, n)
  <2>1. ReadOn(sent, delivered, in, n, delivered', reading', in')
    BY <1>1, <1>2, <1>6, <1>10, <1>11, <1>12, ReadFrameSize
  <2> QED BY <2>1 DEF ReadOn
<1> QED BY <1>1, <1>5, <1>6, <1>7, <1>8, <1>13, ReaderStep

LEMMA ReadFrameDataInv ==
  FramingInv /\ readFrameData
    => FramingInv' /\ closed' = closed /\ DeliveredNext(sent, delivered, delivered')
<1> SUFFICES ASSUME FramingInv, readFrameData
             PROVE  FramingInv' /\ closed' = closed /\ DeliveredNext(sent, delivered, delivered')
  OBVIOUS
<1> DEFINE r == ReaderAt(delivered, in)
           L == Len(in.frame.data)
           V == Value(in.frame.size)
<1>1. /\ ~closed /\ Len(in.numframes) = Width /\ Len(in.frame.size) = Width
      /\ sent' = sent /\ send_msgs' = send_msgs /\ out' = out /\ closed' = closed
  BY DEF readFrameData, sender
<1>2. /\ sent \in Seq(Messages) /\ Reading(sent, delivered, reading, in) /\ wire \in Seq(Byte)
      /\ reading \in BOOLEAN
  BY <1>1 DEF FramingInv, Linked
<1>3. Width \in Nat \ {0}
  BY FramingAssumption
<1>4. L \in Nat
  BY <1>2 DEF Reading, Incoming
<1>5. PICK n \in ReadChunks(V - L) :
        /\ Take(n)
        /\ frameRead([in.frame EXCEPT !.data = in.frame.data \o Got(n)])
  BY DEF readFrameData
<1>r. /\ r.part = "data" /\ r.o = L
      /\ V = Len(Content(sent, r)) /\ V \in Nat
  <2>1. r.part = "data" /\ r.o = L
    BY <1>1, <1>3 DEF ReaderAt
  <2> DEFINE m == sent[Len(delivered) + 1]
             f == Len(in.frames) + 1
  <2>2. /\ Begins(Messages, delivered, sent) /\ Len(delivered) < Len(sent)
        /\ PartOf(m, in) /\ f \in 1 .. Len(m)
        /\ r.k = Len(delivered) + 1 /\ r.f = f
    BY <1>1, <1>2, Receiving
  <2>3. \A j \in 1 .. Len(m) :
          /\ m[j] \in Seq(Byte) /\ Len(m[j]) \in Nat
          /\ Encode(Len(m[j])) \in Seq(Byte) /\ Len(Encode(Len(m[j]))) = Width
          /\ Value(Encode(Len(m[j]))) = Len(m[j])
    BY <1>2, <2>2, NextMessage
  <2>4. Content(sent, r) = m[f]
    BY <2>1, <2>2 DEF Content
  <2>5. Begins(Byte, in.frame.size, Encode(Len(m[f])))
    BY <2>2 DEF PartOf
  <2> HIDE DEF m, f
  <2>6. /\ Len(m[f]) \in Nat /\ Encode(Len(m[f])) \in Seq(Byte) /\ Len(Encode(Len(m[f]))) = Width
        /\ Value(Encode(Len(m[f]))) = Len(m[f])
    BY <2>2, <2>3
  <2>7. in.frame.size = Encode(Len(m[f]))
    <3> DEFINE a == in.frame.size
               c == Encode(Len(m[f]))
    <3>1. Begins(Byte, a, c) /\ c \in Seq(Byte) /\ Len(a) = Len(c)
      BY <1>1, <2>5, <2>6
    <3> HIDE DEF a, c
    <3>2. a = c
      BY <3>1, AllOfIt
    <3> QED BY <3>2 DEF a, c
  <2> QED BY <2>1, <2>4, <2>6, <2>7
<1>6. n \in 1 .. (V - L) /\ n \in 1 .. Len(wire)
  <2> DEFINE left == V - L
  <2>1. left \in Int /\ n \in ReadChunks(left)
    BY <1>r, <1>4, <1>5
  <2> HIDE DEF left
  <2>2. n \in 1 .. left /\ n \in 1 .. Len(wire)
    BY <1>2, <2>1, Chunks
  <2> QED BY <2>2 DEF left
<1>7. HasByte(sent, r)
  BY <1>1, <1>6, GotIs
<1>8. r.o + n <= Len(Content(sent, r))
  <2> HIDE DEF r, L, V
  <2> QED BY <1>r, <1>4, <1>6
<1>9. Got(n) = NextBytes(sent, r, n)
  BY <1>1, <1>6, <1>8, GotIs
<1> DEFINE more == in.frame.data \o Got(n)
<1>10. Received(delivered, reading, in, WithData(in, more), delivered', reading', in')
  BY <1>5, FrameReadIs DEF WithData
<1>11. more = in.frame.data \o NextBytes(sent, r, n)
  BY <1>9
<1> HIDE DEF more
<1>12. /\ Reading(sent, delivered', reading', in') /\ reading' \in BOOLEAN
       /\ DeliveredNext(sent, delivered, delivered')
       /\ ReaderAt(delivered', in') = Further(sent, r, n)
  <2>1. ReadOn(sent, delivered, in, n, delivered', reading', in')
    BY <1>1, <1>2, <1>6, <1>10, <1>11, ReadFrameData
  <2> QED BY <2>1 DEF ReadOn
<1> QED BY <1>1, <1>5, <1>6, <1>7, <1>8, <1>12, ReaderStep

(***************************************************************************)
(* The theorems.                                                           *)
(***************************************************************************)

LEMMA SendFramesInv == ASSUME NEW m \in Messages PROVE FramingInv /\ sendFrames(m) => FramingInv'
<1> SUFFICES ASSUME FramingInv, sendFrames(m) PROVE FramingInv'
  OBVIOUS
<1>1. /\ out' = out /\ wire' = wire /\ reading' = reading /\ in' = in
      /\ delivered' = delivered /\ closed' = closed
  BY DEF sendFrames, receiver
<1>2. \/ sent' = sent /\ send_msgs' = send_msgs
      \/ sent' = Append(sent, m) /\ send_msgs' = Append(send_msgs, m)
  BY DEF sendFrames
<1>3. CASE sent' = sent /\ send_msgs' = send_msgs
  BY <1>1, <1>3 DEF FramingInv, Linked
<1>4. CASE sent' = Append(sent, m) /\ send_msgs' = Append(send_msgs, m)
  <2>1. sent \in Seq(Messages) /\ Begins(Messages, delivered, sent)
    BY DEF FramingInv
  <2>2. sent' \in Seq(Messages) /\ Begins(Messages, delivered, sent')
    BY <1>4, <2>1, BeginsAppended
  <2>3. ASSUME closed = FALSE
        PROVE  Linked'
    <3>1. /\ wire \in Seq(Byte) /\ Writing(sent, send_msgs, out)
          /\ Reading(sent, delivered, reading, in)
          /\ Stream(sent, wire, ReaderAt(delivered, in), WriterAt(sent, send_msgs, out))
      BY <2>3 DEF FramingInv, Linked
    <3>2. /\ Writing(sent', send_msgs', out)
          /\ WriterAt(sent', send_msgs', out) = WriterAt(sent, send_msgs, out)
      BY <1>4, <2>1, <3>1, Queued
    <3>3. Stream(sent', wire, ReaderAt(delivered, in), WriterAt(sent, send_msgs, out))
      BY <1>4, <2>1, <3>1, StreamSent
    <3>4. Reading(sent', delivered, reading, in)
      <4>1. Len(delivered) < Len(sent) =>
              /\ Len(delivered) < Len(sent')
              /\ sent'[Len(delivered) + 1] = sent[Len(delivered) + 1]
        <5>1. Len(delivered) \in Nat
          BY <2>1 DEF Begins
        <5> QED BY <1>4, <2>1, <5>1
      <4>2. Len(in.numframes) = Width => Len(delivered) < Len(sent)
        <5>1. Len(in.numframes) = Width => in.numframes # <<>>
          BY FramingAssumption
        <5> QED BY <3>1, <5>1 DEF Reading
      <4>3. /\ in \in Incoming
            /\ reading = FALSE => in.numframes = <<>>
            /\ in.numframes # <<>> =>
                 /\ Len(delivered) < Len(sent)
                 /\ Begins(Byte, in.numframes, Encode(Len(sent[Len(delivered) + 1])))
            /\ Len(in.numframes) = Width => PartOf(sent[Len(delivered) + 1], in)
        BY <3>1 DEF Reading
      <4>4. /\ in.numframes # <<>> =>
                 /\ Len(delivered) < Len(sent')
                 /\ Begins(Byte, in.numframes, Encode(Len(sent'[Len(delivered) + 1])))
            /\ Len(in.numframes) = Width => PartOf(sent'[Len(delivered) + 1], in)
        BY <4>1, <4>2, <4>3
      <4> QED BY <2>2, <4>3, <4>4 DEF Reading
    <3> QED BY <1>1, <3>1, <3>2, <3>3, <3>4 DEF Linked
  <2> QED BY <1>1, <2>2, <2>3 DEF FramingInv
<1> QED BY <1>2, <1>3, <1>4

\* No step but Deliver of the channel adds to what has been delivered.
LEMMA DeliverIs ==
  ASSUME ~closed, sent' = sent, closed' = closed,
         DeliveredNext(sent, delivered, delivered')
  PROVE  [Channel!Next]_Channel!vars
<1>1. CASE delivered' = delivered
  BY <1>1 DEF Channel!vars
<1>2. CASE Len(delivered) < Len(sent) /\ delivered' = Append(delivered, sent[Len(delivered) + 1])
  <2>1. Channel!Deliver
    BY <1>2 DEF Channel!Deliver
  <2> QED BY <2>1 DEF Channel!Next
<1> QED BY <1>1, <1>2 DEF DeliveredNext

\* Every step keeps the invariant and is one of the channel, or none.
LEMMA FramingStepInv ==
  ASSUME ~CutZeros
  PROVE  FramingInv /\ [FramingNext]_framingVars => FramingInv' /\ [Channel!Next]_Channel!vars
<1> SUFFICES ASSUME FramingInv, [FramingNext]_framingVars
             PROVE  FramingInv' /\ [Channel!Next]_Channel!vars
  OBVIOUS
<1>1. ASSUME NEW m \in Messages, sendFrames(m)
      PROVE  FramingInv' /\ [Channel!Next]_Channel!vars
  <2>1. FramingInv'
    BY <1>1, SendFramesInv
  <2>2. /\ delivered' = delivered /\ closed' = closed
        /\ sent' = sent \/ sent' = Append(sent, m)
    BY <1>1 DEF sendFrames
  <2>3. CASE sent' = sent
    BY <2>1, <2>2, <2>3 DEF Channel!vars
  <2>4. CASE sent' = Append(sent, m)
    <3>1. Channel!Send(m)
      BY <2>2, <2>4 DEF Channel!Send
    <3> QED BY <2>1, <3>1 DEF Channel!Next
  <2> QED BY <2>2, <2>3, <2>4
<1>2. ASSUME Write
      PROVE  FramingInv' /\ [Channel!Next]_Channel!vars
  <2>1. FramingInv'
    BY <1>2, WriteNumFramesInv, WriteFrameSizeInv, WriteFrameDataInv DEF Write
  <2>2. sent' = sent /\ delivered' = delivered /\ closed' = closed
    BY <1>2 DEF Write, writeNumFrames, writeFrameSize, writeFrameData
  <2> QED BY <2>1, <2>2 DEF Channel!vars
<1>3. ASSUME Read
      PROVE  FramingInv' /\ [Channel!Next]_Channel!vars
  <2>1. ~closed /\ sent' = sent
    BY <1>3 DEF Read, readNumFrames, readFrameSize, readFrameData
  <2>2. /\ FramingInv' /\ closed' = closed
        /\ DeliveredNext(sent, delivered, delivered')
    BY <1>3, ReadNumFramesInv, ReadFrameSizeInv, ReadFrameDataInv DEF Read, DeliveredNext
  <2> QED BY <2>1, <2>2, DeliverIs
<1>4. ASSUME disconnect
      PROVE  FramingInv' /\ [Channel!Next]_Channel!vars
  <2>1. /\ ~closed /\ closed' = TRUE /\ sent' = sent /\ delivered' = delivered
        /\ reading' = reading
    BY <1>4 DEF disconnect, receiver
  <2>2. FramingInv'
    BY <2>1 DEF FramingInv
  <2>3. Channel!Close
    BY <2>1 DEF Channel!Close
  <2> QED BY <2>2, <2>3 DEF Channel!Next
<1>5. ASSUME UNCHANGED framingVars
      PROVE  FramingInv' /\ [Channel!Next]_Channel!vars
  BY <1>5 DEF framingVars, sender, receiver, FramingInv, Linked, Channel!vars
<1> QED BY <1>1, <1>2, <1>3, <1>4, <1>5 DEF FramingNext

\* The invariant of the two state machines: what was delivered is a beginning of what was
\* accepted, and the wire holds the bytes between the positions of reader and writer.
THEOREM StreamIsInStep == ASSUME ~CutZeros PROVE FramingSpec => []FramingInv
<1>1. FramingInv /\ [FramingNext]_framingVars => FramingInv'
  BY FramingStepInv
<1> QED BY FramingInitInv, <1>1, PTL DEF FramingSpec

\* The writer and the parser of TransportTCP implement a channel of whole messages in
\* order, for every width and base of the numbers, every set of messages and every way in
\* which send() and recv() cut the stream, but for a cut behind the zeros that begin the
\* size of a frame.
THEOREM FramingImplementsChannel == ASSUME ~CutZeros PROVE FramingSpec => ImplementsChannel
<1>1. FramingInit => Channel!Init
  BY DEF FramingInit, Channel!Init
<1>2. FramingInv /\ [FramingNext]_framingVars => [Channel!Next]_Channel!vars
  BY FramingStepInv
<1> QED BY StreamIsInStep, <1>1, <1>2, PTL DEF FramingSpec, ImplementsChannel, Channel!Spec

\* readmsg_cb_ is given a prefix of what sendFrames has accepted, under the same condition;
\* the run MCFraming_SplitSize shows that it fails without it.
THEOREM DeliveredIsPrefix == ASSUME ~CutZeros PROVE FramingSpec => []DeliveredInOrder
<1>1. FramingInv => DeliveredInOrder
  <2> SUFFICES ASSUME FramingInv PROVE DeliveredInOrder
    OBVIOUS
  <2> DEFINE n == Len(delivered)
             b == SubSeq(sent, 1, n)
  <2>1. /\ sent \in Seq(Messages) /\ delivered \in Seq(Messages) /\ n <= Len(sent) /\ n \in Nat
        /\ \A i \in 1 .. n : delivered[i] = sent[i]
    BY DEF FramingInv, Begins
  <2>2. b \in Seq(Messages) /\ Len(b) = n /\ \A i \in 1 .. n : b[i] = sent[i]
    <3> HIDE DEF n
    <3> QED BY <2>1
  <2>3. delivered = b
    <3> HIDE DEF b
    <3> QED BY <2>1, <2>2, SeqEqual
  <2> QED BY <2>1, <2>3 DEF DeliveredInOrder
<1> QED BY StreamIsInStep, <1>1, PTL

(***************************************************************************)
(* The filter.                                                             *)
(***************************************************************************)

Counted ==
  /\ msg_counter \in 0 .. (Filter - 1)
  /\ offered \in Nat
  /\ sent \in Seq(Messages)
  /\ offered + Filter - 1 = Filter * Len(sent) + msg_counter

LEMMA Monotone ==
  ASSUME NEW F \in Nat, NEW a \in Nat, NEW b \in Nat, a < b
  PROVE  F * a + F <= F * b
<1> DEFINE c == b - a - 1
<1>1. c \in Nat /\ b = a + 1 + c
  OBVIOUS
<1> HIDE DEF c
<1>2. F * b = F * a + F + F * c
  BY <1>1
<1>3. F * c \in Nat
  BY <1>1
<1> QED BY <1>2, <1>3

LEMMA Quotient ==
  ASSUME NEW F \in Nat, F > 0, NEW q \in Nat, NEW r \in 0 .. (F - 1), NEW a \in Nat, a = F * q + r
  PROVE  a \div F = q
<1> DEFINE d == a \div F
           e == a % F
<1>1. d \in Nat /\ e \in 0 .. (F - 1) /\ a = e + F * d
  OBVIOUS
<1> HIDE DEF d, e
<1>2. ASSUME d < q PROVE FALSE
  <2>1. F * d + F <= F * q /\ F * d \in Nat /\ F * q \in Nat
    BY <1>1, <1>2, Monotone
  <2> QED BY <1>1, <2>1
<1>3. ASSUME q < d PROVE FALSE
  <2>1. F * q + F <= F * d /\ F * d \in Nat /\ F * q \in Nat
    BY <1>1, <1>3, Monotone
  <2> QED BY <1>1, <2>1
<1> QED BY <1>1, <1>2, <1>3 DEF d

\* One more message: the remainder goes on, or the quotient does.
LEMMA CountOne ==
  ASSUME NEW F \in Nat, F > 0, NEW c \in 0 .. (F - 1), NEW o \in Nat, NEW n \in Nat,
         o + F - 1 = F * n + c
  PROVE  /\ c + 1 < F => (c + 1) % F = c + 1 /\ o + 1 + F - 1 = F * n + (c + 1)
         /\ ~ (c + 1 < F) => (c + 1) % F = 0 /\ o + 1 + F - 1 = F * (n + 1)
<1>1. F * n \in Nat /\ F * (n + 1) = F * n + F
  OBVIOUS
<1>2. ~ (c + 1 < F) => c + 1 = F
  OBVIOUS
<1>3. F % F = 0
  <2>1. F \div F = 1
    <3>1. F = F * 1 + 0 /\ 0 \in 0 .. (F - 1)
      OBVIOUS
    <3> QED BY <3>1, Quotient
  <2> QED BY <2>1
<1>4. c + 1 < F => (c + 1) % F = c + 1
  <2>1. ASSUME c + 1 < F
        PROVE  (c + 1) \div F = 0
    <3>1. c + 1 = F * 0 + (c + 1) /\ c + 1 \in 0 .. (F - 1) /\ c + 1 \in Nat
      BY <2>1
    <3> QED BY <3>1, Quotient
  <2>2. (c + 1) = ((c + 1) % F) + F * ((c + 1) \div F) /\ (c + 1) % F \in Nat
    OBVIOUS
  <2>3. F * 0 = 0
    OBVIOUS
  <2> QED BY <2>1, <2>2, <2>3
<1> QED BY <1>1, <1>2, <1>3, <1>4

LEMMA CountedStep == Counted /\ [FramingNext]_framingVars => Counted'
<1> SUFFICES ASSUME Counted, [FramingNext]_framingVars PROVE Counted'
  OBVIOUS
<1>1. Filter \in Nat /\ Filter > 0
  BY FramingAssumption
<1>2. ASSUME NEW m \in Messages, sendFrames(m)
      PROVE  Counted'
  <2>1. /\ offered' = offered + 1 /\ msg_counter' = (msg_counter + 1) % Filter
        /\ msg_counter' # 0 => sent' = sent
        /\ msg_counter' = 0 => sent' = Append(sent, m)
    BY <1>2 DEF sendFrames
  <2> DEFINE n == Len(sent)
             c == msg_counter
  <2>2. /\ c \in 0 .. (Filter - 1) /\ offered \in Nat /\ n \in Nat /\ sent \in Seq(Messages)
        /\ offered + Filter - 1 = Filter * n + c
    BY DEF Counted
  <2>3. /\ c + 1 < Filter => /\ (c + 1) % Filter = c + 1
                             /\ offered + 1 + Filter - 1 = Filter * n + (c + 1)
        /\ ~ (c + 1 < Filter) => /\ (c + 1) % Filter = 0
                                 /\ offered + 1 + Filter - 1 = Filter * (n + 1)
    <3> HIDE DEF n, c
    <3> QED BY <1>1, <2>2, CountOne
  <2>4. CASE c + 1 < Filter
    <3>1. msg_counter' = c + 1 /\ c + 1 # 0 /\ c + 1 \in 0 .. (Filter - 1)
      <4>1. msg_counter' = c + 1
        BY <2>1, <2>3, <2>4
      <4>2. c + 1 # 0 /\ c + 1 \in 0 .. (Filter - 1)
        <5> HIDE DEF c
        <5> QED BY <1>1, <2>2, <2>4
      <4> QED BY <4>1, <4>2
    <3>2. sent' = sent /\ offered' = offered + 1 /\ offered + 1 \in Nat
      BY <2>1, <2>2, <3>1
    <3>3. offered + 1 + Filter - 1 = Filter * Len(sent) + (c + 1)
      BY <2>3, <2>4
    <3> QED BY <2>2, <3>1, <3>2, <3>3 DEF Counted
  <2>5. CASE ~ (c + 1 < Filter)
    <3>1. msg_counter' = 0 /\ 0 \in 0 .. (Filter - 1)
      BY <1>1, <2>1, <2>3, <2>5
    <3>2. /\ sent' = Append(sent, m) /\ offered' = offered + 1 /\ offered + 1 \in Nat
          /\ Append(sent, m) \in Seq(Messages) /\ Len(Append(sent, m)) = n + 1
      BY <2>1, <2>2, <3>1
    <3>3. offered + 1 + Filter - 1 = Filter * Len(Append(sent, m)) + 0
      <4>1. Filter * (n + 1) = Filter * (n + 1) + 0
        BY <1>1, <2>2
      <4> QED BY <2>3, <2>5, <3>2, <4>1
    <3> QED BY <3>1, <3>2, <3>3 DEF Counted
  <2> QED BY <2>4, <2>5
<1>3. ASSUME msg_counter' = msg_counter, offered' = offered, sent' = sent
      PROVE  Counted'
  BY <1>3 DEF Counted
<1>4. ASSUME Write \/ Read \/ disconnect \/ UNCHANGED framingVars
      PROVE  msg_counter' = msg_counter /\ offered' = offered /\ sent' = sent
  BY <1>4 DEF Write, Read, disconnect, writeNumFrames, writeFrameSize, writeFrameData,
              readNumFrames, readFrameSize, readFrameData, framingVars, sender
<1> QED BY <1>2, <1>3, <1>4 DEF FramingNext

\* The filter passes the first message after setFilter and every Filter-th one after it,
\* whatever the connection does meanwhile.
THEOREM FilterPassesEveryNth == FramingSpec => []FilterRate
<1>1. Filter \in Nat /\ Filter > 0
  BY FramingAssumption
<1>2. FramingInit => Counted
  <2> SUFFICES ASSUME FramingInit PROVE Counted
    OBVIOUS
  <2>1. msg_counter = Filter - 1 /\ offered = 0 /\ sent = <<>>
    BY DEF FramingInit
  <2>2. Filter * 0 + (Filter - 1) = Filter - 1 /\ 0 + Filter - 1 = Filter - 1 /\ Len(<<>>) = 0
    BY <1>1
  <2> QED BY <1>1, <2>1, <2>2 DEF Counted
<1>3. Counted => FilterRate
  <2> SUFFICES ASSUME Counted PROVE FilterRate
    OBVIOUS
  <2> DEFINE n == Len(sent)
             a == offered + Filter - 1
  <2>1. /\ msg_counter \in 0 .. (Filter - 1) /\ n \in Nat /\ a \in Nat
        /\ a = Filter * n + msg_counter
    BY <1>1 DEF Counted
  <2>2. a \div Filter = n
    <3> HIDE DEF n, a
    <3> QED BY <1>1, <2>1, Quotient
  <2> QED BY <2>2 DEF FilterRate
<1> QED BY <1>2, <1>3, CountedStep, PTL DEF FramingSpec

(***************************************************************************)
(* The connections of a publisher.                                         *)
(***************************************************************************)

\* What each thread is busy with: the poll thread with a connection that it has opened, or has
\* closed itself; the dropping thread with one that it has closed, never with the same.
BusyWith ==
  /\ poller # "wait" => serving \in Conns
  /\ poller = "accept" => conn[serving] = "open"
  /\ poller = "disconnect" => conn[serving] = "closed"
  /\ dropper = "disconnect" => dropping \in Conns /\ conn[dropping] = "closed"
  /\ poller = "disconnect" /\ dropper = "disconnect" => serving # dropping

\* The copy of shutdown() holds connections that have been accepted.  From the destructor on
\* nothing is accepted any more, and what is open is in the copy.
CopyCovers ==
  /\ \A c \in todo : conn[c] \in {"open", "closed"} /\ ~(poller = "accept" /\ serving = c)
  /\ again => /\ server = "closed" /\ poller # "accept"
              /\ \A c \in Conns : conn[c] = "open" => c \in todo
  /\ dropper = "destroyed" => again /\ todo = {}

\* The copy of publish(), and who has been sent something: an open connection of either kind is
\* set up, so that the next copy will hold it, and it lacks at most the message of this round.
Last(s) == s[Len(s)]
SentSoFar ==
  /\ publishing # {} => published > 0
  /\ \A c \in Conns :
       /\ c \in publishing => conn[c] \in {"open", "closed"}
       /\ received[c] # << >> => conn[c] \in {"open", "closed"}
       /\ conn[c] = "open" /\ (c \in publishing \/ received[c] # << >>) => c \in setup
       /\ \A k \in 2..Len(received[c]) : received[c][k] = received[c][k - 1] + 1
       /\ conn[c] = "open" /\ received[c] # << >> =>
            Last(received[c]) = IF c \in publishing THEN published - 1 ELSE published

PublishInv == TypeOK /\ BusyWith /\ ListMatches /\ CopyCovers /\ SentSoFar

-----------------------------------------------------------------------------
USE TCPPublishAssumption

\* A new object has no connection.
LEMMA InitInv == Init => PublishInv
<1> SUFFICES ASSUME Init PROVE PublishInv
  OBVIOUS
<1>1. TypeOK
  <2>1. 0 \in 0..MaxMsgs /\ << >> \in Seq(1..MaxMsgs)
    OBVIOUS
  <2> QED BY <2>1 DEF Init, TypeOK
<1>2. BusyWith /\ ListMatches /\ CopyCovers
  BY DEF Init, BusyWith, ListMatches, CopyCovers
<1>3. SentSoFar
  <2>1. \A c \in Conns : conn[c] = "none" /\ received[c] = << >> /\ Len(received[c]) = 0
    BY DEF Init
  <2> QED BY <2>1 DEF Init, SentSoFar
<1> QED BY <1>1, <1>2, <1>3 DEF PublishInv

\* Every step of the three threads and of the subscribers keeps the invariant.
LEMMA StepInv == PublishInv /\ [Next]_vars => PublishInv'
<1> SUFFICES ASSUME PublishInv, [Next]_vars PROVE PublishInv'
  OBVIOUS
<1>t. TypeOK /\ BusyWith /\ ListMatches /\ CopyCovers /\ SentSoFar
  BY DEF PublishInv
<1>1. ASSUME start PROVE PublishInv'
  <2> USE <1>t, <1>1 DEF start, locks, drop, streams
  <2>1. TypeOK'
    BY DEF TypeOK
  <2>2. BusyWith'
    BY DEF BusyWith, TypeOK
  <2>3. ListMatches'
    BY DEF ListMatches, TypeOK
  <2>4. CopyCovers'
    BY DEF CopyCovers, TypeOK
  <2>5. SentSoFar'
    BY DEF SentSoFar, TypeOK
  <2> QED BY <2>1, <2>2, <2>3, <2>4, <2>5 DEF PublishInv
<1>2. ASSUME NEW c \in Conns, accept(c) PROVE PublishInv'
  <2> USE <1>t, <1>2 DEF accept, locks, drop, streams
  <2>1. TypeOK'
    BY DEF TypeOK
  <2>2. BusyWith'
    BY DEF BusyWith, TypeOK
  <2>3. ListMatches'
    BY DEF ListMatches, TypeOK, BusyWith, CopyCovers
  <2>4. CopyCovers'
    BY DEF CopyCovers, TypeOK, BusyWith, ListMatches
  <2>5. SentSoFar'
    BY DEF SentSoFar, TypeOK, BusyWith, ListMatches
  <2> QED BY <2>1, <2>2, <2>3, <2>4, <2>5 DEF PublishInv
<1>3. ASSUME onAccept PROVE PublishInv'
  <2> USE <1>t, <1>3 DEF onAccept, locks, drop, streams
  <2>1. TypeOK'
    BY DEF TypeOK, BusyWith
  <2>2. BusyWith'
    BY DEF BusyWith, TypeOK
  <2>3. ListMatches'
    BY DEF ListMatches, TypeOK, BusyWith
  <2>4. CopyCovers'
    BY DEF CopyCovers, TypeOK
  <2>5. SentSoFar'
    BY DEF SentSoFar, TypeOK, BusyWith
  <2> QED BY <2>1, <2>2, <2>3, <2>4, <2>5 DEF PublishInv
<1>4. ASSUME NEW c \in Conns, optionsRead(c) PROVE PublishInv'
  <2> USE <1>t, <1>4 DEF optionsRead, locks, drop, streams
  <2>1. TypeOK'
    BY DEF TypeOK
  <2>2. BusyWith'
    BY DEF BusyWith, TypeOK
  <2>3. ListMatches'
    BY DEF ListMatches, TypeOK
  <2>4. CopyCovers'
    BY DEF CopyCovers, TypeOK
  <2>5. SentSoFar'
    BY DEF SentSoFar, TypeOK
  <2> QED BY <2>1, <2>2, <2>3, <2>4, <2>5 DEF PublishInv
<1>5. ASSUME onOptions PROVE PublishInv'
  <2> USE <1>t, <1>5 DEF onOptions, locks, drop, streams
  <2>1. TypeOK'
    BY DEF TypeOK, BusyWith
  <2>2. BusyWith'
    BY DEF BusyWith, TypeOK
  <2>3. ListMatches'
    BY DEF ListMatches, TypeOK, BusyWith
  <2>4. CopyCovers'
    BY DEF CopyCovers, TypeOK
  <2>5. SentSoFar'
    BY DEF SentSoFar, TypeOK, BusyWith
  <2> QED BY <2>1, <2>2, <2>3, <2>4, <2>5 DEF PublishInv
<1>6. ASSUME NEW c \in Conns, closeEnded(c) PROVE PublishInv'
  <2> USE <1>t, <1>6 DEF closeEnded, locks, drop, streams
  <2>1. TypeOK'
    BY DEF TypeOK
  <2>2. BusyWith'
    BY DEF BusyWith, TypeOK
  <2>3. ListMatches'
    BY DEF ListMatches, TypeOK, BusyWith, CopyCovers
  <2>4. CopyCovers'
    BY DEF CopyCovers, TypeOK, BusyWith, ListMatches
  <2>5. SentSoFar'
    BY DEF SentSoFar, TypeOK, BusyWith, ListMatches
  <2> QED BY <2>1, <2>2, <2>3, <2>4, <2>5 DEF PublishInv
<1>7. ASSUME onDisconnect PROVE PublishInv'
  <2> USE <1>t, <1>7 DEF onDisconnect, Forget, locks, drop, streams
  <2>1. TypeOK'
    BY DEF TypeOK, BusyWith
  <2>2. BusyWith'
    BY DEF BusyWith, TypeOK
  <2>3. ListMatches'
    BY DEF ListMatches, TypeOK, BusyWith
  <2>4. CopyCovers'
    BY DEF CopyCovers, TypeOK
  <2>5. SentSoFar'
    BY DEF SentSoFar, TypeOK, BusyWith
  <2> QED BY <2>1, <2>2, <2>3, <2>4, <2>5 DEF PublishInv
<1>8. ASSUME publish PROVE PublishInv'
  <2> USE <1>t, <1>8 DEF publish, locks, drop, streams
  <2>1. TypeOK'
    BY DEF TypeOK
  <2>2. BusyWith'
    BY DEF BusyWith, TypeOK
  <2>3. ListMatches'
    BY DEF ListMatches, TypeOK
  <2>4. CopyCovers'
    BY DEF CopyCovers, TypeOK
  <2>5. SentSoFar'
    <3>1. /\ published \in Nat /\ published' = published + 1
          /\ publishing = {} /\ publishing' = setup
      BY DEF TypeOK
    <3>2. ASSUME NEW c \in Conns, conn[c] = "open", received[c] # << >>
          PROVE  c \in publishing' /\ Last(received[c]) = published' - 1
      BY <3>1, <3>2 DEF SentSoFar
    <3>3. \A c \in setup : conn[c] \in {"open", "closed"}
      BY DEF TypeOK, ListMatches, BusyWith
    <3> QED BY <3>1, <3>2, <3>3 DEF SentSoFar
  <2> QED BY <2>1, <2>2, <2>3, <2>4, <2>5 DEF PublishInv
<1>9. ASSUME NEW c \in Conns, sendMessage(c) PROVE PublishInv'
  <2> USE <1>t, <1>9 DEF sendMessage, locks, drop, streams
  <2>1. TypeOK'
    <3>1. published \in 1..MaxMsgs
      BY DEF SentSoFar, TypeOK
    <3>2. Append(received[c], published) \in Seq(1..MaxMsgs)
      BY <3>1 DEF TypeOK
    <3> QED BY <3>2 DEF TypeOK
  <2>2. BusyWith'
    BY DEF BusyWith, TypeOK
  <2>3. ListMatches'
    BY DEF ListMatches, TypeOK
  <2>4. CopyCovers'
    BY DEF CopyCovers, TypeOK
  <2>5. SentSoFar'
    <3>1. /\ published \in Nat /\ published > 0 /\ received[c] \in Seq(Nat)
          /\ \A d \in Conns : d # c => received'[d] = received[d]
      BY DEF TypeOK, SentSoFar
    <3>2. CASE conn[c] = "open"
      <4>1. received'[c] = Append(received[c], published)
        BY <3>2 DEF TypeOK
      <4>2. Len(received'[c]) = Len(received[c]) + 1 /\ Last(received'[c]) = published
        BY <3>1, <4>1 DEF Last
      <4>3. \A k \in 1..Len(received[c]) : received'[c][k] = received[c][k]
        BY <3>1, <4>1
      <4>4. received[c] # << >> => Last(received[c]) = published - 1
        BY <3>2 DEF SentSoFar
      <4>5. \A k \in 2..Len(received'[c]) : received'[c][k] = received'[c][k - 1] + 1
        BY <3>1, <4>2, <4>3, <4>4 DEF SentSoFar, Last
      <4> QED BY <3>1, <3>2, <4>2, <4>5 DEF SentSoFar
    <3>3. CASE conn[c] # "open"
      <4>1. received' = received
        BY <3>3 DEF TypeOK
      <4> QED BY <3>3, <4>1 DEF SentSoFar
    <3> QED BY <3>2, <3>3
  <2> QED BY <2>1, <2>2, <2>3, <2>4, <2>5 DEF PublishInv
<1>10. ASSUME shutdown PROVE PublishInv'
  <2> USE <1>t, <1>10 DEF shutdown, locks, drop, streams
  <2>1. TypeOK'
    BY DEF TypeOK
  <2>2. BusyWith'
    BY DEF BusyWith, TypeOK
  <2>3. ListMatches'
    BY DEF ListMatches, TypeOK
  <2>4. CopyCovers'
    BY DEF CopyCovers, TypeOK, ListMatches, BusyWith
  <2>5. SentSoFar'
    BY DEF SentSoFar, TypeOK
  <2> QED BY <2>1, <2>2, <2>3, <2>4, <2>5 DEF PublishInv
<1>11. ASSUME NEW c \in Conns, closeNext(c) PROVE PublishInv'
  <2> USE <1>t, <1>11 DEF closeNext, locks, drop, streams
  <2>1. TypeOK'
    BY DEF TypeOK
  <2>2. BusyWith'
    BY DEF BusyWith, TypeOK, CopyCovers
  <2>3. ListMatches'
    BY DEF ListMatches, TypeOK, BusyWith, CopyCovers
  <2>4. CopyCovers'
    BY DEF CopyCovers, TypeOK, BusyWith, ListMatches
  <2>5. SentSoFar'
    BY DEF SentSoFar, TypeOK, BusyWith, ListMatches
  <2> QED BY <2>1, <2>2, <2>3, <2>4, <2>5 DEF PublishInv
<1>12. ASSUME dropperDisconnect PROVE PublishInv'
  <2> USE <1>t, <1>12 DEF dropperDisconnect, Forget, locks, drop, streams
  <2>1. TypeOK'
    BY DEF TypeOK, BusyWith
  <2>2. BusyWith'
    BY DEF BusyWith, TypeOK
  <2>3. ListMatches'
    BY DEF ListMatches, TypeOK, BusyWith, CopyCovers
  <2>4. CopyCovers'
    BY DEF CopyCovers, TypeOK, BusyWith, ListMatches
  <2>5. SentSoFar'
    BY DEF SentSoFar, TypeOK, BusyWith, ListMatches
  <2> QED BY <2>1, <2>2, <2>3, <2>4, <2>5 DEF PublishInv
<1>13. ASSUME destructor PROVE PublishInv'
  <2> USE <1>t, <1>13 DEF destructor, CloseServer, locks, drop, streams
  <2>1. TypeOK'
    BY DEF TypeOK
  <2>2. BusyWith'
    BY DEF BusyWith, TypeOK
  <2>3. ListMatches'
    BY DEF ListMatches, TypeOK, BusyWith, CopyCovers
  <2>4. CopyCovers'
    BY DEF CopyCovers, TypeOK, BusyWith, ListMatches
  <2>5. SentSoFar'
    BY DEF SentSoFar, TypeOK, BusyWith, ListMatches
  <2> QED BY <2>1, <2>2, <2>3, <2>4, <2>5 DEF PublishInv
<1>14. ASSUME destroy PROVE PublishInv'
  <2> USE <1>t, <1>14 DEF destroy, CloseServer, locks, drop, streams
  <2>1. TypeOK'
    BY DEF TypeOK
  <2>2. BusyWith'
    BY DEF BusyWith, TypeOK
  <2>3. ListMatches'
    BY DEF ListMatches, TypeOK
  <2>4. CopyCovers'
    BY DEF CopyCovers, TypeOK
  <2>5. SentSoFar'
    BY DEF SentSoFar, TypeOK
  <2> QED BY <2>1, <2>2, <2>3, <2>4, <2>5 DEF PublishInv
<1>15. ASSUME NEW c \in Conns, SubscriberConnects(c) PROVE PublishInv'
  <2> USE <1>t, <1>15 DEF SubscriberConnects, locks, drop, streams
  <2>1. TypeOK'
    BY DEF TypeOK
  <2>2. BusyWith'
    BY DEF BusyWith, TypeOK
  <2>3. ListMatches'
    BY DEF ListMatches, TypeOK
  <2>4. CopyCovers'
    BY DEF CopyCovers, TypeOK
  <2>5. SentSoFar'
    BY DEF SentSoFar, TypeOK
  <2> QED BY <2>1, <2>2, <2>3, <2>4, <2>5 DEF PublishInv
<1>16. ASSUME NEW c \in Conns, SubscriberLeaves(c) PROVE PublishInv'
  <2> USE <1>t, <1>16 DEF SubscriberLeaves, locks, drop, streams
  <2>1. TypeOK'
    BY DEF TypeOK
  <2>2. BusyWith'
    BY DEF BusyWith, TypeOK
  <2>3. ListMatches'
    BY DEF ListMatches, TypeOK
  <2>4. CopyCovers'
    BY DEF CopyCovers, TypeOK
  <2>5. SentSoFar'
    BY DEF SentSoFar, TypeOK
  <2> QED BY <2>1, <2>2, <2>3, <2>4, <2>5 DEF PublishInv
<1>17. CASE UNCHANGED vars
  BY <1>t, <1>17
    DEF vars, locks, drop, streams, PublishInv, TypeOK, BusyWith, ListMatches, CopyCovers, SentSoFar
<1> QED
  BY <1>1, <1>2, <1>3, <1>4, <1>5, <1>6, <1>7, <1>8, <1>9, <1>10, <1>11, <1>12, <1>13, <1>14,
     <1>15, <1>16, <1>17 DEF Next, Poll, Publish, Drop

-----------------------------------------------------------------------------
\* The invariant of TCPPublish, for any number of subscribers and messages.
THEOREM PublishInvariant == Spec => []PublishInv
BY InitInv, StepInv, PTL DEF Spec

\* connections_ holds exactly the connections that are open or whose onDisconnect is due.
THEOREM ConnectionsMatch == Spec => []ListMatches
<1>1. PublishInv => ListMatches
  BY DEF PublishInv
<1> QED BY <1>1, PublishInvariant, PTL

\* From its first message on, an open connection is sent every message, in order.
THEOREM StreamsWithoutGaps == Spec => []NoGaps
<1>1. PublishInv => NoGaps
  BY DEF PublishInv, SentSoFar, NoGaps, Last
<1> QED BY <1>1, PublishInvariant, PTL

\* The destructor's second shutdown() closes what was accepted during the first.
THEOREM DestroyedLeavesNothingOpen == Spec => []DestroyedIsClosed
<1>1. PublishInv => DestroyedIsClosed
  BY DEF PublishInv, CopyCovers, DestroyedIsClosed
<1> QED BY <1>1, PublishInvariant, PTL
=============================================================================
