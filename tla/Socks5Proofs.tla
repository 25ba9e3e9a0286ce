---------------------------- MODULE Socks5Proofs ----------------------------
(***************************************************************************)
(* What holds of a connection of Socks5 for every set of requests and every*)
(* bound on the payload, proved.                                           *)
(*                                                                         *)
(* The argument is one inductive invariant, IInv: at every stage of the two*)
(* handshakes it says what is in each of the four streams.  A stream that  *)
(* the server reads is the end of a message, and behind it the payload its *)
(* sender has sent by now; a stream that it writes is the beginning of what*)
(* it promises.  While it relays, the two streams of a direction are,      *)
(* together, a constant stream that only grows at its end.                 *)
(***************************************************************************)
EXTENDS Socks5, SequenceTheorems, TLAPS

-----------------------------------------------------------------------------
(* Octets: what the operators on streams return *)

(* What is left of a stream when n octets were taken.                      *)
LEMMA RestSeq ==
    ASSUME NEW s \in Seq(Nat), NEW n \in Nat, n =< Len(s)
    PROVE  /\ Rest(s, n) \in Seq(Nat)
           /\ Len(Rest(s, n)) = Len(s) - n
           /\ \A i \in 1 .. Len(s) - n : Rest(s, n)[i] = s[n + i]
  BY DEF Rest

(* Nothing is left of a stream that was taken whole.                       *)
LEMMA RestAll ==
    ASSUME NEW s \in Seq(Nat)
    PROVE  Rest(s, Len(s)) = <<>>
  BY DEF Rest

(* Of two streams, one behind the other, a part of the first is taken.     *)
LEMMA RestOfConcat ==
    ASSUME NEW a \in Seq(Nat), NEW b \in Seq(Nat), NEW n \in Nat, n =< Len(a)
    PROVE  Rest(a \o b, n) = Rest(a, n) \o b
  <1> DEFINE c == a \o b
             d == Rest(a, n)
             l == Rest(c, n)
             r == d \o b
  <1>1. /\ c \in Seq(Nat) /\ Len(c) = Len(a) + Len(b)
        /\ \A i \in 1 .. Len(a) + Len(b) : c[i] = IF i =< Len(a) THEN a[i] ELSE b[i - Len(a)]
    BY ConcatProperties
  <1>2. /\ d \in Seq(Nat) /\ Len(d) = Len(a) - n
        /\ \A i \in 1 .. Len(a) - n : d[i] = a[n + i]
    BY RestSeq
  <1> HIDE DEF c, d
  <1>3. n =< Len(c) BY <1>1
  <1>4. /\ l \in Seq(Nat) /\ Len(l) = Len(c) - n
        /\ \A i \in 1 .. Len(c) - n : l[i] = c[n + i]
    BY <1>1, <1>3, RestSeq
  <1>5. /\ r \in Seq(Nat) /\ Len(r) = Len(d) + Len(b)
        /\ \A i \in 1 .. Len(d) + Len(b) : r[i] = IF i =< Len(d) THEN d[i] ELSE b[i - Len(d)]
    BY <1>2, ConcatProperties
  <1> HIDE DEF l, r
  <1>6. Len(l) = Len(r) BY <1>1, <1>2, <1>4, <1>5
  <1>7. ASSUME NEW i \in 1 .. Len(l) PROVE l[i] = r[i]
    <2>1. i \in Nat /\ i >= 1 /\ i =< Len(c) - n /\ i =< Len(d) + Len(b) BY <1>1, <1>2, <1>4
    <2>2. l[i] = c[n + i] BY <2>1, <1>4
    <2>3. c[n + i] = IF n + i =< Len(a) THEN a[n + i] ELSE b[n + i - Len(a)]
      <3> DEFINE j == n + i
      <3>1. j \in 1 .. Len(a) + Len(b) BY <2>1, <1>1
      <3> HIDE DEF j
      <3>2. c[j] = IF j =< Len(a) THEN a[j] ELSE b[j - Len(a)] BY <3>1, <1>1
      <3> QED BY <3>2 DEF j
    <2>4. r[i] = IF i =< Len(d) THEN d[i] ELSE b[i - Len(d)] BY <2>1, <1>5
    <2>5. i - Len(d) = n + i - Len(a) BY <2>1, <1>2
    <2>6. i =< Len(d) <=> n + i =< Len(a) BY <2>1, <1>2
    <2>7. i =< Len(d) => d[i] = a[n + i] BY <2>1, <1>2
    <2> QED BY <2>2, <2>3, <2>4, <2>5, <2>6, <2>7
  <1>8. l = r BY <1>4, <1>5, <1>6, <1>7, SeqEqual
  <1> QED BY <1>8 DEF l, r, c, d

(* The first of two streams is taken whole, and the second is left.        *)
LEMMA RestOfFirst ==
    ASSUME NEW a \in Seq(Nat), NEW b \in Seq(Nat)
    PROVE  Rest(a \o b, Len(a)) = b
  <1>1. Rest(a, Len(a)) = <<>> BY RestAll
  <1>2. <<>> \o b = b BY ConcatEmptySeq
  <1>3. Len(a) \in Nat /\ Len(a) =< Len(a) OBVIOUS
  <1>4. Rest(a \o b, Len(a)) = Rest(a, Len(a)) \o b BY <1>3, RestOfConcat
  <1> QED BY <1>1, <1>2, <1>4

(* What is taken is then the first of them.                                *)
LEMMA FirstOfConcat ==
    ASSUME NEW a \in Seq(Nat), NEW b \in Seq(Nat)
    PROVE  SubSeq(a \o b, 1, Len(a)) = a
  <1>1. CASE a = <<>> BY <1>1
  <1>2. CASE a # <<>>
    <2>1. 1 \in 1 .. Len(a) /\ Len(a) \in 1 .. Len(a) BY <1>2, EmptySeq
    <2>2. SubSeq(a \o b, 1, Len(a)) = SubSeq(a, 1, Len(a)) BY <2>1, SubSeqOfConcat1
    <2> QED BY <2>2, SubSeqFull
  <1> QED BY <1>1, <1>2

(* The octets of two streams, one behind the other.                        *)
LEMMA ConcatOctets ==
    ASSUME NEW s \in Seq(Nat), NEW t \in Seq(Nat)
    PROVE  /\ s \o t \in Seq(Nat) /\ Len(s \o t) = Len(s) + Len(t)
           /\ \A i \in 1 .. Len(s) : (s \o t)[i] = s[i]
           /\ \A i \in 1 .. Len(t) : (s \o t)[Len(s) + i] = t[i]
  <1> DEFINE r == s \o t
  <1>1. /\ r \in Seq(Nat) /\ Len(r) = Len(s) + Len(t)
        /\ \A i \in 1 .. Len(s) + Len(t) : r[i] = IF i =< Len(s) THEN s[i] ELSE t[i - Len(s)]
    BY ConcatProperties
  <1> HIDE DEF r
  <1>2. Len(s) \in Nat /\ Len(t) \in Nat OBVIOUS
  <1>3. ASSUME NEW i \in 1 .. Len(s) PROVE r[i] = s[i]
    <2>1. i \in 1 .. Len(s) + Len(t) /\ i =< Len(s) BY <1>2
    <2> QED BY <2>1, <1>1
  <1>4. ASSUME NEW i \in 1 .. Len(t) PROVE r[Len(s) + i] = t[i]
    <2> DEFINE j == Len(s) + i
    <2>1. j \in 1 .. Len(s) + Len(t) /\ ~(j =< Len(s)) /\ j - Len(s) = i BY <1>2
    <2> HIDE DEF j
    <2>2. r[j] = t[i] BY <2>1, <1>1
    <2> QED BY <2>2 DEF j
  <1> QED BY <1>1, <1>3, <1>4 DEF r

(* An octet is relayed: the two streams are together what they were.       *)
LEMMA OctetPassed ==
    ASSUME NEW s \in Seq(Nat), NEW t \in Seq(Nat), t # <<>>
    PROVE  /\ Append(s, Head(t)) \o Tail(t) = s \o t
           /\ Head(t) \in Nat /\ Tail(t) \in Seq(Nat)
           /\ Append(s, Head(t)) \in Seq(Nat)
           /\ Len(Append(s, Head(t))) = Len(s) + 1
  <1>1. Head(t) \in Nat /\ Tail(t) \in Seq(Nat) OBVIOUS
  <1>2. Append(s, Head(t)) = s \o <<Head(t)>> BY <1>1, AppendIsConcat
  <1>3. <<Head(t)>> \in Seq(Nat) BY <1>1
  <1>4. (s \o <<Head(t)>>) \o Tail(t) = s \o (<<Head(t)>> \o Tail(t))
    BY <1>1, <1>3, ConcatAssociative
  <1>5. <<Head(t)>> \o Tail(t) = t
    <2> DEFINE u == <<Head(t)>> \o Tail(t)
    <2>1. u \in Seq(Nat) /\ Len(u) = Len(t) BY <1>1, <1>3, ConcatProperties, HeadTailProperties
    <2>2. ASSUME NEW i \in 1 .. Len(u) PROVE u[i] = t[i]
      <3>1. CASE i = 1 BY <3>1, <1>1, <1>3, <2>1, ConcatProperties
      <3>2. CASE i # 1
        <4>1. u[i] = Tail(t)[i - 1] BY <3>2, <1>1, <1>3, <2>1, ConcatProperties
        <4>2. i - 1 \in 1 .. Len(Tail(t)) BY <3>2, <2>1, HeadTailProperties
        <4>3. Tail(t)[i - 1] = t[i] BY <4>2, HeadTailProperties
        <4> QED BY <4>1, <4>3
      <3> QED BY <3>1, <3>2
    <2> HIDE DEF u
    <2>3. u = t BY <2>1, <2>2, SeqEqual
    <2> QED BY <2>3 DEF u
  <1> QED BY <1>1, <1>2, <1>4, <1>5, AppendProperties

(* An octet is sent behind a stream that is behind another.                *)
LEMMA OctetSent ==
    ASSUME NEW s \in Seq(Nat), NEW t \in Seq(Nat), NEW x \in Nat
    PROVE  s \o Append(t, x) = Append(s \o t, x)
  <1>1. <<x>> \in Seq(Nat) OBVIOUS
  <1>2. Append(t, x) = t \o <<x>> BY AppendIsConcat
  <1>3. s \o t \in Seq(Nat) OBVIOUS
  <1>4. Append(s \o t, x) = (s \o t) \o <<x>> BY <1>3, AppendIsConcat
  <1> QED BY <1>1, <1>2, <1>4, ConcatAssociative

(* The payload of a peer grows at its end.                                 *)
LEMMA DataSeq ==
    ASSUME NEW base \in Nat, NEW n \in Nat
    PROVE  /\ Data(base, n) \in Seq(Nat) /\ Len(Data(base, n)) = n
           /\ Data(base, 0) = <<>>
           /\ Data(base, n + 1) = Append(Data(base, n), base + (n + 1))
  <1>1. ASSUME NEW m \in Nat
        PROVE  /\ Data(base, m) \in Seq(Nat) /\ Len(Data(base, m)) = m
               /\ \A i \in 1 .. m : Data(base, m)[i] = base + i
    <2>1. \A i \in 1 .. m : base + i \in Nat OBVIOUS
    <2> QED BY <2>1 DEF Data
  <1>2. Data(base, 0) = <<>> BY <1>1, EmptySeq
  <1> DEFINE d == Data(base, n)
             e == base + (n + 1)
             l == Data(base, n + 1)
             r == Append(d, e)
  <1>3. d \in Seq(Nat) /\ Len(d) = n /\ (\A i \in 1 .. n : d[i] = base + i) BY <1>1
  <1>4. /\ l \in Seq(Nat) /\ Len(l) = n + 1
        /\ \A i \in 1 .. n + 1 : l[i] = base + i
    <2>1. n + 1 \in Nat OBVIOUS
    <2> QED BY <2>1, <1>1
  <1>5. e \in Nat OBVIOUS
  <1> HIDE DEF d
  <1>6. /\ r \in Seq(Nat) /\ Len(r) = n + 1
        /\ \A i \in 1 .. n : r[i] = d[i]
        /\ r[n + 1] = e
    <2> HIDE DEF e
    <2> QED BY <1>3, <1>5, AppendProperties
  <1> HIDE DEF l, r
  <1>7. ASSUME NEW i \in 1 .. Len(l) PROVE l[i] = r[i]
    <2>1. i \in 1 .. n \/ i = n + 1 BY <1>4
    <2>2. l[i] = base + i BY <1>4
    <2> QED BY <2>1, <2>2, <1>3, <1>6
  <1>8. l = r BY <1>4, <1>6, <1>7, SeqEqual
  <1> QED BY <1>1, <1>2, <1>8 DEF l, r, d, e

(* A stream that is p and then the beginning of q.                         *)
Continues(s, p, q) == \E data \in Prefixes(q) : s = p \o data

(* What came first of two streams has the other behind the part they share.*)
LEMMA StartsWith ==
    ASSUME NEW s \in Seq(Nat), NEW t \in Seq(Nat), NEW p \in Seq(Nat), NEW q \in Seq(Nat),
           s \o t = p \o q, Len(s) >= Len(p)
    PROVE  Continues(s, p, q)
  <1> DEFINE n == Len(s) - Len(p)
             d == SubSeq(q, 1, n)
             r == p \o d
             c == s \o t
  <1>1. /\ Len(c) = Len(s) + Len(t)
        /\ \A i \in 1 .. Len(s) + Len(t) : c[i] = IF i =< Len(s) THEN s[i] ELSE t[i - Len(s)]
    BY ConcatProperties
  <1>2. /\ Len(c) = Len(p) + Len(q)
        /\ \A i \in 1 .. Len(p) + Len(q) : c[i] = IF i =< Len(p) THEN p[i] ELSE q[i - Len(p)]
    BY ConcatProperties
  <1> HIDE DEF c
  <1>3. n \in Nat /\ n =< Len(q) BY <1>1, <1>2
  <1>4. d \in Prefixes(q)
    <2>1. n \in 0 .. Len(q) BY <1>3
    <2> HIDE DEF n
    <2> QED BY <2>1 DEF Prefixes
  <1>5. d \in Seq(Nat) /\ Len(d) = n /\ (\A i \in 1 .. n : d[i] = q[i])
    <2> HIDE DEF n
    <2> QED BY <1>3
  <1> HIDE DEF d
  <1>6. /\ r \in Seq(Nat) /\ Len(r) = Len(p) + Len(d)
        /\ \A i \in 1 .. Len(p) + Len(d) : r[i] = IF i =< Len(p) THEN p[i] ELSE d[i - Len(p)]
    BY <1>5, ConcatProperties
  <1> HIDE DEF r
  <1>7. Len(s) = Len(r) BY <1>5, <1>6
  <1>8. ASSUME NEW i \in 1 .. Len(s) PROVE s[i] = r[i]
    <2>1. s[i] = c[i]
      <3>1. Len(s) \in Nat /\ Len(t) \in Nat OBVIOUS
      <3>2. i \in 1 .. Len(s) + Len(t) /\ i =< Len(s) BY <3>1
      <3> QED BY <3>2, <1>1
    <2>2. c[i] = IF i =< Len(p) THEN p[i] ELSE q[i - Len(p)] BY <1>1, <1>2
    <2>3. r[i] = IF i =< Len(p) THEN p[i] ELSE d[i - Len(p)] BY <1>6, <1>7
    <2>4. i > Len(p) => i - Len(p) \in 1 .. n OBVIOUS
    <2>5. i > Len(p) => d[i - Len(p)] = q[i - Len(p)] BY <2>4, <1>5
    <2> QED BY <2>1, <2>2, <2>3, <2>5
  <1>9. s = r BY <1>6, <1>7, <1>8, SeqEqual
  <1> QED BY <1>4, <1>9 DEF r, Continues

(* All and nothing of a stream are beginnings of it.                       *)
LEMMA WholeIsPrefix ==
    ASSUME NEW q \in Seq(Nat)
    PROVE  q \in Prefixes(q) /\ <<>> \in Prefixes(q)
  <1>1. SubSeq(q, 1, Len(q)) = q BY SubSeqFull
  <1>2. SubSeq(q, 1, 0) = <<>> BY SubSeqEmpty
  <1>3. Len(q) \in 0 .. Len(q) /\ 0 \in 0 .. Len(q) OBVIOUS
  <1> QED BY <1>1, <1>2, <1>3 DEF Prefixes

(* A stream that has just ended goes on with nothing.                      *)
LEMMA ContinuesNot ==
    ASSUME NEW p \in Seq(Nat), NEW q \in Seq(Nat)
    PROVE  Continues(p, p, q)
  <1>1. p \o <<>> = p BY ConcatEmptySeq
  <1>2. <<>> \in Prefixes(q) BY WholeIsPrefix
  <1> QED BY <1>1, <1>2 DEF Continues

(* A Read returns at least one octet and no more than was asked for; if    *)
(* messages arrive whole, all that was asked for or all there is.          *)
LEMMA ReadsBounds ==
    ASSUME NEW s \in Seq(Nat), NEW n \in Nat, NEW m \in Reads(s, n)
    PROVE  /\ m \in Nat /\ 1 =< m /\ m =< n /\ m =< Len(s)
           /\ whole => m = n \/ m = Len(s)
  <1>1. Len(s) \in Nat OBVIOUS
  <1> DEFINE most == IF n < Len(s) THEN n ELSE Len(s)
  <1>2. most \in Nat /\ most =< n /\ most =< Len(s) /\ (most = n \/ most = Len(s)) BY <1>1
  <1>3. m \in IF whole \/ most = 0 THEN {most} \ {0} ELSE 1 .. most BY DEF Reads
  <1> HIDE DEF most
  <1> QED BY <1>1, <1>2, <1>3

(* What a Read left out of its buffer is zero.                             *)
LEMMA BufferSeq ==
    ASSUME NEW s \in Seq(Nat), NEW n \in Nat, NEW k \in Nat, k =< Len(s)
    PROVE  \A i \in 1 .. n : /\ Buffer(s, k, n)[i] = IF i =< k THEN s[i] ELSE 0
                             /\ Buffer(s, k, n)[i] \in Nat
  BY DEF Buffer

(* Taking a stream in two pieces is taking it at once.                     *)
LEMMA RestOfRest ==
    ASSUME NEW a \in Seq(Nat), NEW i \in Nat, NEW n \in Nat, i + n =< Len(a)
    PROVE  Rest(Rest(a, i), n) = Rest(a, i + n)
  <1> DEFINE b == Rest(a, i)
             l == Rest(b, n)
             m == i + n
             r == Rest(a, m)
  <1>1. /\ b \in Seq(Nat) /\ Len(b) = Len(a) - i
        /\ \A j \in 1 .. Len(a) - i : b[j] = a[i + j]
    <2>1. i =< Len(a) OBVIOUS
    <2> QED BY <2>1, RestSeq
  <1> HIDE DEF b
  <1>2. n =< Len(b) /\ m \in Nat /\ m =< Len(a) BY <1>1
  <1>3. /\ l \in Seq(Nat) /\ Len(l) = Len(b) - n
        /\ \A j \in 1 .. Len(b) - n : l[j] = b[n + j]
    BY <1>1, <1>2, RestSeq
  <1>4. /\ r \in Seq(Nat) /\ Len(r) = Len(a) - m
        /\ \A j \in 1 .. Len(a) - m : r[j] = a[m + j]
    <2> HIDE DEF m
    <2> QED BY <1>2, RestSeq
  <1> HIDE DEF l, r
  <1>5. Len(l) = Len(r) BY <1>1, <1>3, <1>4
  <1>6. ASSUME NEW j \in 1 .. Len(l) PROVE l[j] = r[j]
    <2>1. j \in Nat /\ 1 =< j /\ j =< Len(a) - i - n BY <1>1, <1>3
    <2>2. l[j] = b[n + j] BY <1>3
    <2>3. n + j \in 1 .. Len(a) - i BY <2>1
    <2>4. b[n + j] = a[i + (n + j)] BY <2>3, <1>1
    <2>5. r[j] = a[m + j] BY <2>1, <1>4
    <2>6. i + (n + j) = m + j BY <2>1
    <2> QED BY <2>2, <2>4, <2>5, <2>6
  <1>7. l = r BY <1>3, <1>4, <1>5, <1>6, SeqEqual
  <1> QED BY <1>7 DEF l, r, b

(* All of the first of two streams is taken, and a part of the second.     *)
LEMMA RestOfSecond ==
    ASSUME NEW p \in Seq(Nat), NEW a \in Seq(Nat), NEW n \in Nat, n =< Len(a)
    PROVE  Rest(p \o a, Len(p) + n) = Rest(a, n)
  <1> DEFINE k == Len(p)
             c == p \o a
  <1>1. c \in Seq(Nat) /\ Len(c) = k + Len(a) BY ConcatProperties
  <1>2. k \in Nat OBVIOUS
  <1>3. Rest(Rest(c, k), n) = Rest(c, k + n)
    <2> HIDE DEF k, c
    <2>1. k + n =< Len(c) BY <1>1, <1>2
    <2> QED BY <1>1, <1>2, <2>1, RestOfRest
  <1> QED BY <1>3, RestOfFirst

(* Short streams, octet by octet.                                          *)
LEMMA ShortStreams ==
    ASSUME NEW s \in Seq(Nat)
    PROVE  /\ Len(s) = 0 => s = <<>>
           /\ Len(s) = 1 => s = <<s[1]>>
           /\ Len(s) = 2 => s = <<s[1], s[2]>>
           /\ Len(s) = 3 => s = <<s[1], s[2], s[3]>>
           /\ Len(s) = 4 => s = <<s[1], s[2], s[3], s[4]>>
           /\ Len(s) = 5 => s = <<s[1], s[2], s[3], s[4], s[5]>>
  OBVIOUS

(* A short stream and an octet behind it.                                  *)
LEMMA AppendOctet ==
    ASSUME NEW s \in Seq(Nat), NEW x \in Nat
    PROVE  /\ Append(s, x) \in Seq(Nat) /\ s \o <<x>> = Append(s, x)
           /\ Len(s) = 1 => Append(s, x) = <<s[1], x>>
           /\ Len(s) = 2 => Append(s, x) = <<s[1], s[2], x>>
           /\ Len(s) = 3 => Append(s, x) = <<s[1], s[2], s[3], x>>
           /\ Len(s) = 4 => Append(s, x) = <<s[1], s[2], s[3], s[4], x>>
  <1> DEFINE r == Append(s, x)
  <1>1. /\ r \in Seq(Nat) /\ Len(r) = Len(s) + 1
        /\ \A i \in 1 .. Len(s) : r[i] = s[i]
        /\ r[Len(s) + 1] = x
    BY AppendProperties
  <1>6. s \o <<x>> = r BY AppendIsConcat
  <1> HIDE DEF r
  <1>2. Len(s) = 1 => r = <<s[1], x>>
    <2> SUFFICES ASSUME Len(s) = 1 PROVE r = <<s[1], x>> OBVIOUS
    <2>1. Len(r) = 2 /\ r[1] = s[1] /\ r[2] = x
      BY <1>1
    <2> QED BY <2>1, <1>1, ShortStreams
  <1>3. Len(s) = 2 => r = <<s[1], s[2], x>>
    <2> SUFFICES ASSUME Len(s) = 2 PROVE r = <<s[1], s[2], x>> OBVIOUS
    <2>1. Len(r) = 3 /\ r[1] = s[1] /\ r[2] = s[2] /\ r[3] = x
      BY <1>1
    <2> QED BY <2>1, <1>1, ShortStreams
  <1>4. Len(s) = 3 => r = <<s[1], s[2], s[3], x>>
    <2> SUFFICES ASSUME Len(s) = 3 PROVE r = <<s[1], s[2], s[3], x>> OBVIOUS
    <2>1. Len(r) = 4 /\ r[1] = s[1] /\ r[2] = s[2] /\ r[3] = s[3] /\ r[4] = x
      BY <1>1
    <2> QED BY <2>1, <1>1, ShortStreams
  <1>5. Len(s) = 4 => r = <<s[1], s[2], s[3], s[4], x>>
    <2> SUFFICES ASSUME Len(s) = 4 PROVE r = <<s[1], s[2], s[3], s[4], x>> OBVIOUS
    <2>1. Len(r) = 5 /\ r[1] = s[1] /\ r[2] = s[2] /\ r[3] = s[3] /\ r[4] = s[4] /\ r[5] = x
      BY <1>1
    <2> QED BY <2>1, <1>1, ShortStreams
  <1> QED BY <1>1, <1>2, <1>3, <1>4, <1>5, <1>6 DEF r

(* Short streams, one behind the other.                                    *)
LEMMA ShortConcats ==
    /\ \A a, b, c \in Nat : <<a, b>> \o <<c>> = <<a, b, c>>
    /\ \A a, b, c, d \in Nat : <<a>> \o <<b, c>> \o <<d>> = <<a, b, c, d>>
    /\ \A a, b, c, d, e \in Nat : <<a, b>> \o <<c, d>> \o <<e>> = <<a, b, c, d, e>>
  <1>1. ASSUME NEW x \in Nat
        PROVE  <<x>> \in Seq(Nat) /\ Len(<<x>>) = 1 /\ <<x>>[1] = x
    OBVIOUS
  <1>2. ASSUME NEW x \in Nat, NEW y \in Nat, NEW s \in Seq(Nat)
        PROVE  s \o <<x, y>> = Append(Append(s, x), y)
    <2> DEFINE t == <<x>>
    <2>1. t \in Seq(Nat) /\ Len(t) = 1 /\ t[1] = x BY <1>1
    <2> HIDE DEF t
    <2>2. <<x, y>> = Append(t, y) BY <2>1, AppendOctet
    <2>3. s \o Append(t, y) = Append(s \o t, y) BY <2>1, OctetSent
    <2>4. s \o t = Append(s, x) BY AppendOctet DEF t
    <2> QED BY <2>2, <2>3, <2>4
  <1>3. ASSUME NEW a \in Nat, NEW b \in Nat, NEW c \in Nat
        PROVE  /\ <<a, b>> \o <<c>> = <<a, b, c>>
               /\ <<a>> \o <<b, c>> = <<a, b, c>>
    <2> DEFINE l == <<a>>
               m == <<a, b>>
    <2>1. /\ l \in Seq(Nat) /\ Len(l) = 1 /\ l[1] = a
          /\ m \in Seq(Nat) /\ Len(m) = 2 /\ m[1] = a /\ m[2] = b
      OBVIOUS
    <2>2. Append(l, b) = <<a, b>>
      <3> HIDE DEF l
      <3> QED BY <2>1, AppendOctet
    <2> HIDE DEF l, m
    <2>3. Append(m, c) = <<a, b, c>> BY <2>1, AppendOctet
    <2>4. l \o <<b, c>> = Append(Append(l, b), c) BY <2>1, <1>2
    <2>5. Append(l, b) = m BY <2>2 DEF m
    <2>6. m \o <<c>> = Append(m, c) BY <2>1, AppendOctet
    <2> QED BY <2>3, <2>4, <2>5, <2>6 DEF l, m
  <1>4. ASSUME NEW a \in Nat, NEW b \in Nat, NEW c \in Nat, NEW d \in Nat
        PROVE  /\ <<a, b, c>> \o <<d>> = <<a, b, c, d>>
               /\ <<a, b>> \o <<c, d>> = <<a, b, c, d>>
    <2> DEFINE m == <<a, b>>
               n == <<a, b, c>>
    <2>1. /\ m \in Seq(Nat)
          /\ n \in Seq(Nat) /\ Len(n) = 3 /\ n[1] = a /\ n[2] = b /\ n[3] = c
      OBVIOUS
    <2>2. m \o <<c>> = n BY <1>3
    <2> HIDE DEF m, n
    <2>3. Append(n, d) = <<a, b, c, d>> BY <2>1, AppendOctet
    <2>4. n \o <<d>> = Append(n, d) BY <2>1, AppendOctet
    <2>5. m \o <<c, d>> = Append(Append(m, c), d) BY <2>1, <1>2
    <2>6. Append(m, c) = m \o <<c>> BY <2>1, AppendOctet
    <2> QED BY <2>2, <2>3, <2>4, <2>5, <2>6 DEF m, n
  <1>5. ASSUME NEW a \in Nat, NEW b \in Nat, NEW c \in Nat, NEW d \in Nat, NEW e \in Nat
        PROVE  <<a, b, c, d>> \o <<e>> = <<a, b, c, d, e>>
    <2> DEFINE o == <<a, b, c, d>>
    <2>1. /\ o \in Seq(Nat) /\ Len(o) = 4
          /\ o[1] = a /\ o[2] = b /\ o[3] = c /\ o[4] = d
      OBVIOUS
    <2> HIDE DEF o
    <2>2. Append(o, e) = <<a, b, c, d, e>> BY <2>1, AppendOctet
    <2>3. o \o <<e>> = Append(o, e) BY <2>1, AppendOctet
    <2> QED BY <2>2, <2>3 DEF o
  <1>6. \A a, b, c \in Nat : <<a, b>> \o <<c>> = <<a, b, c>> BY <1>3
  <1>7. \A a, b, c, d \in Nat : <<a>> \o <<b, c>> \o <<d>> = <<a, b, c, d>>
    <2> SUFFICES ASSUME NEW a \in Nat, NEW b \in Nat, NEW c \in Nat, NEW d \in Nat
                 PROVE  <<a>> \o <<b, c>> \o <<d>> = <<a, b, c, d>>
      OBVIOUS
    <2>1. <<a>> \o <<b, c>> = <<a, b, c>> BY <1>3
    <2>2. <<a, b, c>> \o <<d>> = <<a, b, c, d>> BY <1>4
    <2> QED BY <2>1, <2>2
  <1>8. \A a, b, c, d \in Nat : <<a, b>> \o <<c, d>> = <<a, b, c, d>> BY <1>4
  <1>9. \A a, b, c, d, e \in Nat : <<a, b>> \o <<c, d>> \o <<e>> = <<a, b, c, d, e>>
    <2> SUFFICES ASSUME NEW a \in Nat, NEW b \in Nat, NEW c \in Nat, NEW d \in Nat, NEW e \in Nat
                 PROVE  <<a, b>> \o <<c, d>> \o <<e>> = <<a, b, c, d, e>>
      OBVIOUS
    <2>1. <<a, b>> \o <<c, d>> = <<a, b, c, d>> BY <1>8
    <2>2. <<a, b, c, d>> \o <<e>> = <<a, b, c, d, e>> BY <1>5
    <2> QED BY <2>1, <2>2
  <1> QED BY <1>6, <1>7, <1>9

(* Parts of short streams.                                                 *)
LEMMA ShortRests ==
    /\ \A a, b \in Nat : SubSeq(<<a, b>>, 1, 1) = <<a>>
    /\ \A a, b, c \in Nat : /\ Rest(<<a, b, c>>, 1) = <<b, c>>
                            /\ SubSeq(<<a, b, c>>, 1, 2) = <<a, b>>
    /\ \A a, b, c, d \in Nat : /\ Rest(<<a, b, c, d>>, 1) = <<b, c, d>>
                               /\ Rest(<<a, b, c, d>>, 2) = <<c, d>>
    /\ \A a, b, c, d, e \in Nat : Rest(<<a, b, c, d, e>>, 2) = <<c, d, e>>
  <1>1. ASSUME NEW a \in Nat, NEW b \in Nat, NEW c \in Nat
        PROVE  Rest(<<a, b, c>>, 1) = <<b, c>>
    <2> DEFINE s == <<a, b, c>>
               r == Rest(s, 1)
    <2>1. s \in Seq(Nat) /\ Len(s) = 3 /\ s[2] = b /\ s[3] = c OBVIOUS
    <2> HIDE DEF s
    <2>2. r \in Seq(Nat) /\ Len(r) = 2 /\ r[1] = b /\ r[2] = c BY <2>1 DEF Rest
    <2> HIDE DEF r
    <2>3. r = <<b, c>> BY <2>2, ShortStreams
    <2> QED BY <2>3 DEF r, s
  <1>2. ASSUME NEW a \in Nat, NEW b \in Nat, NEW c \in Nat, NEW d \in Nat
        PROVE  /\ Rest(<<a, b, c, d>>, 1) = <<b, c, d>>
               /\ Rest(<<a, b, c, d>>, 2) = <<c, d>>
    <2> DEFINE s == <<a, b, c, d>>
               r == Rest(s, 1)
               q == Rest(s, 2)
    <2>1. s \in Seq(Nat) /\ Len(s) = 4 /\ s[2] = b /\ s[3] = c /\ s[4] = d OBVIOUS
    <2> HIDE DEF s
    <2>2. r \in Seq(Nat) /\ Len(r) = 3 /\ r[1] = b /\ r[2] = c /\ r[3] = d BY <2>1 DEF Rest
    <2>3. q \in Seq(Nat) /\ Len(q) = 2 /\ q[1] = c /\ q[2] = d BY <2>1 DEF Rest
    <2> HIDE DEF r, q
    <2>4. r = <<b, c, d>> /\ q = <<c, d>> BY <2>2, <2>3, ShortStreams
    <2> QED BY <2>4 DEF r, q, s
  <1>3. ASSUME NEW a \in Nat, NEW b \in Nat, NEW c \in Nat, NEW d \in Nat, NEW e \in Nat
        PROVE  Rest(<<a, b, c, d, e>>, 2) = <<c, d, e>>
    <2> DEFINE s == <<a, b, c, d, e>>
               r == Rest(s, 2)
    <2>1. s \in Seq(Nat) /\ Len(s) = 5 /\ s[3] = c /\ s[4] = d /\ s[5] = e OBVIOUS
    <2> HIDE DEF s
    <2>2. r \in Seq(Nat) /\ Len(r) = 3 /\ r[1] = c /\ r[2] = d /\ r[3] = e BY <2>1 DEF Rest
    <2> HIDE DEF r
    <2>3. r = <<c, d, e>> BY <2>2, ShortStreams
    <2> QED BY <2>3 DEF r, s
  <1>4. ASSUME NEW a \in Nat, NEW b \in Nat
        PROVE  SubSeq(<<a, b>>, 1, 1) = <<a>>
    <2> DEFINE s == <<a, b>>
               r == SubSeq(s, 1, 1)
    <2>1. s \in Seq(Nat) /\ Len(s) = 2 /\ s[1] = a OBVIOUS
    <2> HIDE DEF s
    <2>2. r \in Seq(Nat) /\ Len(r) = 1 /\ r[1] = a BY <2>1, SubSeqProperties
    <2> HIDE DEF r
    <2>3. r = <<a>> BY <2>2, ShortStreams
    <2> QED BY <2>3 DEF r, s
  <1>5. ASSUME NEW a \in Nat, NEW b \in Nat, NEW c \in Nat
        PROVE  SubSeq(<<a, b, c>>, 1, 2) = <<a, b>>
    <2> DEFINE s == <<a, b, c>>
               r == SubSeq(s, 1, 2)
    <2>1. s \in Seq(Nat) /\ Len(s) = 3 /\ s[1] = a /\ s[2] = b OBVIOUS
    <2> HIDE DEF s
    <2>2. r \in Seq(Nat) /\ Len(r) = 2 /\ r[1] = a /\ r[2] = b BY <2>1, SubSeqProperties
    <2> HIDE DEF r
    <2>3. r = <<a, b>> BY <2>2, ShortStreams
    <2> QED BY <2>3 DEF r, s
  <1> QED BY <1>1, <1>2, <1>3, <1>4, <1>5

-----------------------------------------------------------------------------
(* The inductive invariant *)

(* An address is read only after its type was found to be IPv4 or IPv6.    *)
TypeInv ==
    /\ TypeOK
    /\ handler = "address" => count \in {1, 4}

ClientData == Data(50, sent["client"])
UpstreamData == Data(60, sent["upstream"])

Accepted(address) == <<5, 0, 0>> \o address

(* The server has sent nothing to the upstream, which is silent until then.*)
BeforeConnect == {"greeting", "methods", "request", "address", "length", "name", "connect"}

(* How far the upstream is, and what of it the server has not read.  A     *)
(* reply that will not pass is of an upstream that refuses, or is read from*)
(* its second octet on.                                                    *)
UpstreamInv ==
    /\ upstream # "data" => sent["upstream"] = 0
    /\ handler \in BeforeConnect =>
          toUpstream = <<>> /\ toOutbound = <<>> /\ upstream = "method"
    /\ handler = "method" =>
          /\ count = 2 /\ toUpstream = <<5, 1, 0>>
          /\ \/ upstream = "method" /\ toOutbound = <<>>
             \/ upstream = "reply" /\ toOutbound = <<5, 0>>
             \/ upstream = "refused" /\ toOutbound = <<5, 255>>
    /\ handler = "reply" =>
          /\ count = 4
          /\ \/ upstream = "reply" /\ toOutbound = <<>>
             \/ /\ upstream = "data"
                /\ \E a \in BoundAddress : toOutbound = Accepted(a) \o UpstreamData
             \/ upstream = "refused" /\ Len(toOutbound) >= 2 /\ toOutbound[2] # 0
             \/ toOutbound # <<>> /\ toOutbound[1] # 5
    /\ handler = "reply length" =>
          /\ upstream = "data" /\ count = 1
          /\ \E a \in BoundAddress :
                /\ a[1] = 3
                /\ toOutbound = Rest(a, 1) \o UpstreamData
    /\ handler = "reply rest" =>
          /\ upstream = "data"
          /\ \E a \in BoundAddress, i \in 1 .. 2 :
                /\ Len(a) = i + count
                /\ toOutbound = Rest(a, i) \o UpstreamData
    /\ handler = "relay" => upstream = "data"

(* What the client has been told, up to the reply.                         *)
AnswersInv ==
    /\ handler \in {"greeting", "methods"} => toClient = <<>>
    /\ handler \in {"request", "address", "length", "name"} => toClient = <<5, 0>>
    /\ handler \in {"connect", "method", "reply", "reply length", "reply rest"} =>
          toClient = Established

(* What of the client's greeting and request the server has not read.      *)
RequestInv ==
    /\ client # "data" => sent["client"] = 0
    /\ handler = "greeting" =>
          \/ client = "greeting" /\ toInbound = <<>>
          \/ client = "request" /\ toInbound = Greeting
    /\ handler = "methods" =>
          /\ client = "request" /\ toInbound = request.methods
          /\ count = Len(request.methods)
    /\ handler = "request" =>
          \/ client = "request" /\ toInbound = <<>>
          \/ /\ client = "data"
             /\ toInbound = <<5, request.command, 0>> \o AddressOf(request.kind) \o ClientData
    /\ handler \in {"address", "length"} =>
          /\ client = "data"
          /\ count = AddressOf(request.kind)[1]
          /\ handler = "length" <=> count = 3
          /\ toInbound = Rest(AddressOf(request.kind), 1) \o ClientData
    /\ handler = "name" =>
          /\ client = "data"
          /\ AddressOf(request.kind)[1] = 3
          /\ count = AddressOf(request.kind)[2] /\ count # 0
          /\ toInbound = Rest(AddressOf(request.kind), 2) \o ClientData

(* Of the address that the outbound asks for: it stands for the same host. *)
Stands(k) == k \in {"ipv4", "ipv6", "name"} /\ HostOf(k) = HostOf(request.kind)
Reaches(address) ==
    \E k : Stands(k) /\ BuildConnectionRequest(address) = <<5, 1, 0>> \o AddressOf(k)
Connecting(k) == <<5, 1, 0, 5, 1, 0>> \o AddressOf(k)

TargetInv ==
    /\ handler \in {"connect", "method", "reply", "reply length", "reply rest"} =>
          client = "data" /\ toInbound = ClientData
    /\ handler \in {"connect", "method"} =>
          Reaches(target)
    /\ handler \in {"reply", "reply length", "reply rest"} =>
          \E k : Stands(k) /\ toUpstream = Connecting(k)

(* While the server relays, what a peer has been given and what is waiting *)
(* for it are, together, what the handshake gave it and what was sent.     *)
RelayInv ==
    handler = "relay" =>
        /\ client = "data"
        /\ \E k : /\ Stands(k)
                  /\ Len(toUpstream) >= Len(Connecting(k))
                  /\ toUpstream \o toInbound = Connecting(k) \o ClientData
        /\ Len(toClient) >= Len(Established)
        /\ \E stray \in Strays :
              toClient \o toOutbound = Established \o (stray \o UpstreamData)

(* What a connection that was closed has left behind.                      *)
ClosedInv == handler = "closed" => SameTarget /\ ClientStream

IInv ==
    /\ TypeInv
    /\ UpstreamInv /\ AnswersInv /\ RequestInv /\ TargetInv /\ RelayInv /\ ClosedInv

-----------------------------------------------------------------------------
(* Addresses *)

(* The octets of each kind of address.                                     *)
LEMMA AddressValues ==
    ASSUME NEW kind
    PROVE  /\ kind = "ipv4" => AddressOf(kind) = <<1, 11, 8>>
           /\ kind = "ipv6" => AddressOf(kind) = <<4, 21, 22, 8>>
           /\ kind = "mapped" => AddressOf(kind) = <<4, 20, 11, 8>>
           /\ kind = "name" => AddressOf(kind) = <<3, 2, 31, 32, 8>>
           /\ kind = "ipv4 name" => AddressOf(kind) = <<3, 1, 12, 8>>
           /\ kind = "ipv6 name" => AddressOf(kind) = <<3, 1, 23, 8>>
           /\ kind = "no name" => AddressOf(kind) = <<3, 0, 8>>
           /\ kind \notin {"ipv4", "ipv6", "mapped", "name", "ipv4 name", "ipv6 name", "no name"}
                 => AddressOf(kind) = <<2, 8>>
  <1>1. ASSUME kind = "ipv4" PROVE AddressOf(kind) = <<1, V4, Port>>
    BY <1>1, Zenon DEF AddressOf
  <1>2. ASSUME kind = "ipv6" PROVE AddressOf(kind) = <<4>> \o V6 \o <<Port>>
    BY <1>2, Zenon DEF AddressOf
  <1>3. ASSUME kind = "mapped" PROVE AddressOf(kind) = <<4>> \o Mapped \o <<Port>>
    BY <1>3, Zenon DEF AddressOf
  <1>4. ASSUME kind = "name" PROVE AddressOf(kind) = <<3, 2>> \o Name \o <<Port>>
    BY <1>4, Zenon DEF AddressOf
  <1>5. ASSUME kind = "ipv4 name" PROVE AddressOf(kind) = <<3, 1, V4Text, Port>>
    BY <1>5, Zenon DEF AddressOf
  <1>6. ASSUME kind = "ipv6 name" PROVE AddressOf(kind) = <<3, 1, V6Text, Port>>
    BY <1>6, Zenon DEF AddressOf
  <1>7. ASSUME kind = "no name" PROVE AddressOf(kind) = <<3, 0, Port>>
    BY <1>7, Zenon DEF AddressOf
  <1>8. ASSUME kind \notin {"ipv4", "ipv6", "mapped", "name", "ipv4 name", "ipv6 name", "no name"}
        PROVE AddressOf(kind) = <<2, Port>>
    BY <1>8, Zenon DEF AddressOf
  <1>9. /\ <<4>> \o V6 \o <<Port>> = <<4, 21, 22, 8>>
        /\ <<4>> \o Mapped \o <<Port>> = <<4, 20, 11, 8>>
        /\ <<3, 2>> \o Name \o <<Port>> = <<3, 2, 31, 32, 8>>
    <2>1. <<4>> \o <<21, 22>> \o <<8>> = <<4, 21, 22, 8>> BY ShortConcats
    <2>2. <<4>> \o <<20, 11>> \o <<8>> = <<4, 20, 11, 8>> BY ShortConcats
    <2>3. <<3, 2>> \o <<31, 32>> \o <<8>> = <<3, 2, 31, 32, 8>> BY ShortConcats
    <2> QED BY <2>1, <2>2, <2>3 DEF V6, V4, Mapped, Name, Port
  <1> QED
    BY <1>1, <1>2, <1>3, <1>4, <1>5, <1>6, <1>7, <1>8, <1>9 DEF V4, V4Text, V6Text, Port

(* An address has the length that its type, or the length octet of its     *)
(* name, says.                                                             *)
LEMMA AddressSeq ==
    ASSUME NEW kind
    PROVE  /\ AddressOf(kind) \in Seq(Nat) /\ Len(AddressOf(kind)) >= 2
           /\ AddressOf(kind)[1] \in {1, 2, 3, 4}
           /\ AddressOf(kind)[1] = 3 => Len(AddressOf(kind)) = AddressOf(kind)[2] + 3
           /\ AddressOf(kind)[1] \in {1, 4} =>
                 Len(AddressOf(kind)) = 1 + AddressLength(AddressOf(kind)[1])
  <1> DEFINE a == AddressOf(kind)
  <1>1. \/ a = <<1, 11, 8>> \/ a = <<4, 21, 22, 8>> \/ a = <<4, 20, 11, 8>>
        \/ a = <<3, 2, 31, 32, 8>> \/ a = <<3, 1, 12, 8>> \/ a = <<3, 1, 23, 8>>
        \/ a = <<3, 0, 8>> \/ a = <<2, 8>>
    BY AddressValues
  <1>2. /\ a \in Seq(Nat) /\ Len(a) >= 2 /\ a[1] \in {1, 2, 3, 4}
        /\ a[1] = 3 => Len(a) = a[2] + 3
        /\ a[1] \in {1, 4} => Len(a) = 1 + AddressLength(a[1])
    <2> HIDE DEF a
    <2>1. CASE a = <<1, 11, 8>> BY <2>1 DEF AddressLength
    <2>2. CASE a = <<4, 21, 22, 8>> BY <2>2 DEF AddressLength
    <2>3. CASE a = <<4, 20, 11, 8>> BY <2>3 DEF AddressLength
    <2>4. CASE a = <<3, 2, 31, 32, 8>> BY <2>4
    <2>5. CASE a = <<3, 1, 12, 8>> BY <2>5
    <2>6. CASE a = <<3, 1, 23, 8>> BY <2>6
    <2>7. CASE a = <<3, 0, 8>> BY <2>7
    <2>8. CASE a = <<2, 8>> BY <2>8
    <2> QED BY <1>1, <2>1, <2>2, <2>3, <2>4, <2>5, <2>6, <2>7, <2>8
  <1> QED BY <1>2

(* The text the inbound makes of an address, by its type.                  *)
LEMMA TargetValues ==
    ASSUME NEW octets
    PROVE  /\ TargetAddress(1, octets) = [brackets |-> FALSE, host |-> <<V4Text>>]
           /\ TargetAddress(4, octets) =
                 [brackets |-> TRUE,
                  host |-> IF octets = Mapped \o <<Port>> THEN <<V4Text>> ELSE <<V6Text>>]
           /\ TargetAddress(3, octets) =
                 [brackets |-> FALSE, host |-> SubSeq(octets, 1, Len(octets) - 1)]
  <1>1. TargetAddress(1, octets) = [brackets |-> FALSE, host |-> <<V4Text>>]
    <2>1. 1 # 4 /\ 1 # 3 OBVIOUS
    <2> QED BY <2>1, Zenon DEF TargetAddress
  <1>2. 4 # 1 /\ 3 # 1 /\ 3 # 4 /\ 4 # 3 OBVIOUS
  <1> DEFINE t == IF octets = Mapped \o <<Port>> THEN <<V4Text>> ELSE <<V6Text>>
             s == SubSeq(octets, 1, Len(octets) - 1)
  <1>3. TargetAddress(4, octets) = [brackets |-> TRUE, host |-> t]
    BY <1>2, Zenon DEF TargetAddress
  <1>4. TargetAddress(3, octets) = [brackets |-> FALSE, host |-> s]
    BY <1>2, Zenon DEF TargetAddress
  <1> QED BY <1>1, <1>3, <1>4

(* The octets that follow the first four of a reply, by the type of        *)
(* address.                                                                *)
LEMMA ReplyLengths ==
    ASSUME NEW atyp
    PROVE  ReplyLength(atyp) = IF atyp = 1 THEN 2 ELSE IF atyp = 4 THEN 3 ELSE 0
  <1>1. 4 # 1 OBVIOUS
  <1>2. ASSUME atyp = 1 PROVE ReplyLength(atyp) = 2
    BY <1>1, <1>2, Zenon DEF ReplyLength
  <1>3. ASSUME atyp = 4 PROVE ReplyLength(atyp) = 3
    BY <1>1, <1>3, Zenon DEF ReplyLength
  <1>4. ASSUME ~(atyp = 1), ~(atyp = 4) PROVE ReplyLength(atyp) = 0
    BY <1>4, Zenon DEF ReplyLength
  <1> QED BY <1>1, <1>2, <1>3, <1>4

(* What the outbound makes of a text: an address of the same type.         *)
LEMMA RequestOfText ==
    ASSUME NEW brackets
    PROVE  /\ BuildConnectionRequest([brackets |-> brackets, host |-> <<12>>])
                 = <<5, 1, 0>> \o AddressOf("ipv4")
           /\ BuildConnectionRequest([brackets |-> brackets, host |-> <<23>>])
                 = <<5, 1, 0>> \o AddressOf("ipv6")
           /\ BuildConnectionRequest([brackets |-> brackets, host |-> <<31, 32>>])
                 = <<5, 1, 0>> \o AddressOf("name")
  <1>1. /\ AddressOf("ipv4") = <<1, 11, 8>> /\ AddressOf("ipv6") = <<4, 21, 22, 8>>
        /\ AddressOf("name") = <<3, 2, 31, 32, 8>>
    BY AddressValues
  <1>2. /\ <<1, V4, Port>> = <<1, 11, 8>>
        /\ <<4>> \o V6 \o <<Port>> = <<4, 21, 22, 8>>
        /\ <<3, Len(<<31, 32>>)>> \o <<31, 32>> \o <<Port>> = <<3, 2, 31, 32, 8>>
    <2>1. Len(<<31, 32>>) = 2 OBVIOUS
    <2>2. <<4>> \o <<21, 22>> \o <<8>> = <<4, 21, 22, 8>> BY ShortConcats
    <2>3. <<3, 2>> \o <<31, 32>> \o <<8>> = <<3, 2, 31, 32, 8>> BY ShortConcats
    <2> QED BY <2>1, <2>2, <2>3 DEF V4, V6, Port
  <1>3. <<31, 32>> # <<12>> /\ <<31, 32>> # <<23>> /\ <<23>> # <<12>> OBVIOUS
  <1> QED BY <1>1, <1>2, <1>3 DEF BuildConnectionRequest, V4Text, V6Text

(* The text that is made of what a client asks for is the text of an       *)
(* address that stands for the same host.                                  *)
LEMMA SameHost ==
    ASSUME NEW atyp, NEW n, NEW octets,
           \/ /\ atyp \in {1, 4} /\ AddressOf(request.kind)[1] = atyp
              /\ n = AddressLength(atyp) /\ octets = Rest(AddressOf(request.kind), 1)
           \/ /\ atyp = 3 /\ AddressOf(request.kind)[1] = 3 /\ AddressOf(request.kind)[2] # 0
              /\ n = AddressOf(request.kind)[2] + 1 /\ octets = Rest(AddressOf(request.kind), 2)
    PROVE  /\ octets \in Seq(Nat) /\ Len(octets) = n /\ n \in Nat
           /\ TargetAddress(atyp, octets).brackets \in BOOLEAN
           /\ TargetAddress(atyp, octets).host \in Seq(Nat)
           /\ Reaches(TargetAddress(atyp, octets))
  <1> DEFINE kind == request.kind
             a == AddressOf(kind)
             t == TargetAddress(atyp, octets)
             made == BuildConnectionRequest(t)
             Good == /\ octets \in Seq(Nat) /\ Len(octets) = n /\ n \in Nat
                     /\ t.brackets \in BOOLEAN /\ t.host \in Seq(Nat)
                     /\ Reaches(t)
  <1> SUFFICES Good OBVIOUS
  <1>a. AddressOf(request.kind) = a OBVIOUS
  <1>1. kind \in {"ipv4", "ipv6", "mapped", "name", "ipv4 name", "ipv6 name"}
    <2>1. SUFFICES ASSUME \/ kind = "no name"
                          \/ kind \notin {"ipv4", "ipv6", "mapped", "name", "ipv4 name",
                                           "ipv6 name", "no name"}
                   PROVE  FALSE
      OBVIOUS
    <2>2. a = <<3, 0, 8>> \/ a = <<2, 8>> BY <2>1, AddressValues
    <2>3. (a[1] = 3 /\ a[2] = 0) \/ a[1] = 2 BY <2>2
    <2> QED BY <2>3
  <1>20. ASSUME NEW host, t = [brackets |-> FALSE, host |-> host] \/ t = [brackets |-> TRUE, host |-> host],
               octets \in Seq(Nat), Len(octets) = n,
               \/ host = << 12 >> /\ HostOf("ipv4") = HostOf(kind)
               \/ host = << 23 >> /\ HostOf("ipv6") = HostOf(kind)
               \/ host = <<31, 32>> /\ HostOf("name") = HostOf(kind)
        PROVE  Good
    <2>1. n \in Nat BY <1>20
    <2>2. host \in Seq(Nat)
      <3>1. <<12>> \in Seq(Nat) /\ <<23>> \in Seq(Nat) /\ <<31, 32>> \in Seq(Nat) OBVIOUS
      <3> QED BY <3>1, <1>20
    <2>3. t.brackets \in BOOLEAN /\ t.host = host
      <3> HIDE DEF t
      <3>1. CASE t = [brackets |-> FALSE, host |-> host] BY <3>1
      <3>2. CASE t = [brackets |-> TRUE, host |-> host] BY <3>2
      <3> QED BY <3>1, <3>2, <1>20
    <2>4. \/ made = <<5, 1, 0>> \o AddressOf("ipv4") /\ HostOf("ipv4") = HostOf(kind)
          \/ made = <<5, 1, 0>> \o AddressOf("ipv6") /\ HostOf("ipv6") = HostOf(kind)
          \/ made = <<5, 1, 0>> \o AddressOf("name") /\ HostOf("name") = HostOf(kind)
      <3> HIDE DEF t
      <3> QED BY <1>20, RequestOfText
    <2>5. Stands("ipv4") \/ HostOf("ipv4") # HostOf(kind) BY DEF Stands
    <2>6. Stands("ipv6") \/ HostOf("ipv6") # HostOf(kind) BY DEF Stands
    <2>7. Stands("name") \/ HostOf("name") # HostOf(kind) BY DEF Stands
    <2>8. Reaches(t)
      <3> HIDE DEF t
      <3> QED BY <2>4, <2>5, <2>6, <2>7 DEF Reaches
    <2> HIDE DEF t, made
    <2> QED BY <1>20, <2>1, <2>2, <2>3, <2>8
  <1>h. \/ /\ atyp \in {1, 4} /\ a[1] = atyp
           /\ n = AddressLength(atyp) /\ octets = Rest(a, 1)
        \/ /\ atyp = 3 /\ a[1] = 3 /\ a[2] # 0
           /\ n = a[2] + 1 /\ octets = Rest(a, 2)
    OBVIOUS
  <1> HIDE DEF kind, made, Good
  <1>2. CASE kind = "ipv4"
    <2>1. a = <<1, 11, 8>> BY <1>2, AddressValues
    <2>2. a[1] = 1 /\ a[2] = 11
      <3> HIDE DEF a
      <3> QED BY <2>1
    <2>3. octets = <<11, 8>> /\ atyp = 1 /\ n = 2
      <3>1. Rest(<<1, 11, 8>>, 1) = <<11, 8>> BY ShortRests
      <3> QED BY <1>h, <2>1, <2>2, <3>1 DEF AddressLength
    <2>4. Len(<<11, 8>>) = 2 /\ <<11, 8>> \in Seq(Nat) OBVIOUS
    <2>5. t = [brackets |-> FALSE, host |-> <<12>>]
      BY <2>3, TargetValues DEF V4Text
    <2>6. HostOf("ipv4") = HostOf(kind) BY <1>2 DEF HostOf
    <2> QED BY <2>3, <2>4, <2>5, <2>6, <1>20
  <1>3. CASE kind = "ipv6"
    <2>1. a = <<4, 21, 22, 8>> BY <1>3, AddressValues
    <2>2. a[1] = 4 /\ a[2] = 21
      <3> HIDE DEF a
      <3> QED BY <2>1
    <2>3. octets = <<21, 22, 8>> /\ atyp = 4 /\ n = 3
      <3>1. Rest(<<4, 21, 22, 8>>, 1) = <<21, 22, 8>> BY ShortRests
      <3> QED BY <1>h, <2>1, <2>2, <3>1 DEF AddressLength
    <2>4. Len(<<21, 22, 8>>) = 3 /\ <<21, 22, 8>> \in Seq(Nat) OBVIOUS
    <2>5. t = [brackets |-> TRUE, host |-> <<23>>]
      <3>1. Mapped \o <<Port>> = <<20, 11, 8>> BY ShortConcats DEF Mapped, V4, Port
      <3>2. <<21, 22, 8>> # <<20, 11, 8>> OBVIOUS
      <3> QED BY <2>3, <3>1, <3>2, TargetValues DEF V4Text, V6Text
    <2>6. HostOf("ipv6") = HostOf(kind) BY <1>3 DEF HostOf
    <2> QED BY <2>3, <2>4, <2>5, <2>6, <1>20
  <1>4. CASE kind = "mapped"
    <2>1. a = <<4, 20, 11, 8>> BY <1>4, AddressValues
    <2>2. a[1] = 4 /\ a[2] = 20
      <3> HIDE DEF a
      <3> QED BY <2>1
    <2>3. octets = <<20, 11, 8>> /\ atyp = 4 /\ n = 3
      <3>1. Rest(<<4, 20, 11, 8>>, 1) = <<20, 11, 8>> BY ShortRests
      <3> QED BY <1>h, <2>1, <2>2, <3>1 DEF AddressLength
    <2>4. Len(<<20, 11, 8>>) = 3 /\ <<20, 11, 8>> \in Seq(Nat) OBVIOUS
    <2>5. t = [brackets |-> TRUE, host |-> <<12>>]
      <3>1. Mapped \o <<Port>> = <<20, 11, 8>> BY ShortConcats DEF Mapped, V4, Port
      <3>2. <<20, 11, 8>> = <<20, 11, 8>> OBVIOUS
      <3> QED BY <2>3, <3>1, <3>2, TargetValues DEF V4Text, V6Text
    <2>6. HostOf("ipv4") = HostOf(kind) BY <1>4 DEF HostOf
    <2> QED BY <2>3, <2>4, <2>5, <2>6, <1>20
  <1>5. CASE kind = "name"
    <2>1. a = <<3, 2, 31, 32, 8>> BY <1>5, AddressValues
    <2>2. a[1] = 3 /\ a[2] = 2
      <3> HIDE DEF a
      <3> QED BY <2>1
    <2>3. octets = <<31, 32, 8>> /\ atyp = 3 /\ n = 3
      <3>1. Rest(<<3, 2, 31, 32, 8>>, 2) = <<31, 32, 8>> BY ShortRests
      <3> QED BY <1>h, <2>1, <2>2, <3>1 DEF AddressLength
    <2>4. Len(<<31, 32, 8>>) = 3 /\ <<31, 32, 8>> \in Seq(Nat) OBVIOUS
    <2>5. t = [brackets |-> FALSE, host |-> <<31, 32>>]
      <3>1. Len(octets) - 1 = 2 BY <2>3, <2>4
      <3>2. SubSeq(<<31, 32, 8>>, 1, 2) = <<31, 32>> BY ShortRests
      <3> QED BY <2>3, <3>1, <3>2, TargetValues
    <2>6. HostOf("name") = HostOf(kind) BY <1>5 DEF HostOf
    <2> QED BY <2>3, <2>4, <2>5, <2>6, <1>20
  <1>6. CASE kind = "ipv4 name"
    <2>1. a = <<3, 1, 12, 8>> BY <1>6, AddressValues
    <2>2. a[1] = 3 /\ a[2] = 1
      <3> HIDE DEF a
      <3> QED BY <2>1
    <2>3. octets = <<12, 8>> /\ atyp = 3 /\ n = 2
      <3>1. Rest(<<3, 1, 12, 8>>, 2) = <<12, 8>> BY ShortRests
      <3> QED BY <1>h, <2>1, <2>2, <3>1 DEF AddressLength
    <2>4. Len(<<12, 8>>) = 2 /\ <<12, 8>> \in Seq(Nat) OBVIOUS
    <2>5. t = [brackets |-> FALSE, host |-> <<12>>]
      <3>1. Len(octets) - 1 = 1 BY <2>3, <2>4
      <3>2. SubSeq(<<12, 8>>, 1, 1) = <<12>> BY ShortRests
      <3> QED BY <2>3, <3>1, <3>2, TargetValues
    <2>6. HostOf("ipv4") = HostOf(kind) BY <1>6 DEF HostOf
    <2> QED BY <2>3, <2>4, <2>5, <2>6, <1>20
  <1>7. CASE kind = "ipv6 name"
    <2>1. a = <<3, 1, 23, 8>> BY <1>7, AddressValues
    <2>2. a[1] = 3 /\ a[2] = 1
      <3> HIDE DEF a
      <3> QED BY <2>1
    <2>3. octets = <<23, 8>> /\ atyp = 3 /\ n = 2
      <3>1. Rest(<<3, 1, 23, 8>>, 2) = <<23, 8>> BY ShortRests
      <3> QED BY <1>h, <2>1, <2>2, <3>1 DEF AddressLength
    <2>4. Len(<<23, 8>>) = 2 /\ <<23, 8>> \in Seq(Nat) OBVIOUS
    <2>5. t = [brackets |-> FALSE, host |-> <<23>>]
      <3>1. Len(octets) - 1 = 1 BY <2>3, <2>4
      <3>2. SubSeq(<<23, 8>>, 1, 1) = <<23>> BY ShortRests
      <3> QED BY <2>3, <3>1, <3>2, TargetValues
    <2>6. HostOf("ipv6") = HostOf(kind) BY <1>7 DEF HostOf
    <2> QED BY <2>3, <2>4, <2>5, <2>6, <1>20
  <1> QED BY <1>1, <1>2, <1>3, <1>4, <1>5, <1>6, <1>7

(* What the type invariant says of the streams.                            *)
LEMMA Streams ==
    ASSUME TypeInv
    PROVE  /\ toInbound \in Seq(Nat) /\ toClient \in Seq(Nat)
           /\ toUpstream \in Seq(Nat) /\ toOutbound \in Seq(Nat)
           /\ sent["client"] \in Nat /\ sent["upstream"] \in Nat
           /\ ClientData \in Seq(Nat) /\ UpstreamData \in Seq(Nat)
           /\ Established \in Seq(Nat) /\ count \in Nat
           /\ request.version \in Nat /\ request.methods \in Seq(Nat) /\ request.command \in Nat
  <1>1. /\ toInbound \in Seq(Nat) /\ toClient \in Seq(Nat)
        /\ toUpstream \in Seq(Nat) /\ toOutbound \in Seq(Nat) /\ count \in Nat
    BY DEF TypeInv, TypeOK
  <1>2. sent["client"] \in Nat /\ sent["upstream"] \in Nat
    <2>1. sent \in [Peer -> 0 .. MaxData] BY DEF TypeInv, TypeOK
    <2>2. "client" \in Peer /\ "upstream" \in Peer BY DEF Peer
    <2>3. sent["client"] \in 0 .. MaxData /\ sent["upstream"] \in 0 .. MaxData BY <2>1, <2>2
    <2> QED BY <2>3, MaxDataAssumption
  <1>3. ClientData \in Seq(Nat) /\ UpstreamData \in Seq(Nat)
    BY <1>2, DataSeq DEF ClientData, UpstreamData
  <1>4. <<5, 0>> \in Seq(Nat) /\ <<5, 0, 0, 1, 0, 0>> \in Seq(Nat) OBVIOUS
  <1>5. Established \in Seq(Nat)
    <2>1. <<5, 0>> \o <<5, 0, 0, 1, 0, 0>> \in Seq(Nat) BY <1>4, ConcatProperties
    <2> QED BY <2>1 DEF Established, BuildResponse
  <1>6. request.version \in Nat /\ request.methods \in Seq(Nat) /\ request.command \in Nat
    BY RequestAssumption DEF TypeInv, TypeOK
  <1> QED BY <1>1, <1>2, <1>3, <1>5, <1>6

(* The addresses that the server and the upstream write.                   *)
LEMMA Addresses ==
    /\ \A k : Connecting(k) \in Seq(Nat) /\ Len(Connecting(k)) > 3
    /\ \A a \in BoundAddress : a \in Seq(Nat) /\ a[1] \in {1, 3, 4}
    /\ \A a \in BoundAddress : a[1] = 1 => Len(a) = 3
    /\ \A a \in BoundAddress : a[1] = 4 => Len(a) = 4
    /\ \A a \in BoundAddress : a[1] = 3 => Len(a) = 4 /\ a[2] = 1
  <1>1. ASSUME NEW k PROVE Connecting(k) \in Seq(Nat) /\ Len(Connecting(k)) > 3
    <2> DEFINE p == <<5, 1, 0, 5, 1, 0>>
               a == AddressOf(k)
    <2>1. p \in Seq(Nat) /\ Len(p) = 6 OBVIOUS
    <2>2. a \in Seq(Nat) BY AddressSeq
    <2> HIDE DEF p, a
    <2>3. p \o a \in Seq(Nat) /\ Len(p \o a) = Len(p) + Len(a) BY <2>1, <2>2, ConcatProperties
    <2>4. Len(p \o a) > 3 BY <2>1, <2>2, <2>3
    <2> QED BY <2>3, <2>4 DEF Connecting, p, a
  <1>2. ASSUME NEW a \in BoundAddress
        PROVE  /\ a \in Seq(Nat) /\ a[1] \in {1, 3, 4}
               /\ a[1] = 1 => Len(a) = 3
               /\ a[1] = 4 => Len(a) = 4
               /\ a[1] = 3 => Len(a) = 4 /\ a[2] = 1
    <2>1. a = <<1, 41, 8>> \/ a = <<4, 41, 42, 8>> \/ a = <<3, 1, 41, 8>>
      BY DEF BoundAddress, Port
    <2>2. CASE a = <<1, 41, 8>> BY <2>2
    <2>3. CASE a = <<4, 41, 42, 8>> BY <2>3
    <2>4. CASE a = <<3, 1, 41, 8>> BY <2>4
    <2> QED BY <2>1, <2>2, <2>3, <2>4
  <1> QED BY <1>1, <1>2

(* What is left of the upstream's reply when the outbound has read i       *)
(* octets of its address is a stray; of a reply that arrived whole nothing *)
(* is left.                                                                *)
LEMMA StrayStreams ==
    ASSUME whole \in BOOLEAN
    PROVE  /\ \A stray \in Strays : stray \in Seq(Nat)
           /\ Strays # {}
           /\ \A a \in BoundAddress, i \in Nat :
                 i =< Len(a) /\ i >= 2 /\ (whole => i = Len(a)) => Rest(a, i) \in Strays
  <1>1. ASSUME NEW a \in BoundAddress PROVE a \in Seq(Nat) /\ Len(a) \in {3, 4}
    BY Addresses
  <1>2. <<1, 41, 8>> \in BoundAddress BY DEF BoundAddress, Port
  <1>3. CASE whole
    <2>1. Strays = {<<>>} BY <1>3 DEF Strays
    <2>2. ASSUME NEW a \in BoundAddress PROVE Rest(a, Len(a)) = <<>> BY <1>1, RestAll
    <2> QED BY <1>3, <2>1, <2>2
  <1>4. CASE ~whole
    <2>1. Strays = {Rest(a, n) : a \in BoundAddress, n \in 2 .. 4} BY <1>4 DEF Strays
    <2>2. ASSUME NEW a \in BoundAddress, NEW n \in 2 .. 4 PROVE Rest(a, n) \in Seq(Nat)
      <3>1. CASE n =< Len(a) BY <3>1, <1>1, RestSeq
      <3>2. CASE n > Len(a)
        <4>1. Rest(a, n) = <<>> BY <3>2, <1>1, SubSeqEmpty DEF Rest
        <4> QED BY <4>1
      <3> QED BY <3>1, <3>2, <1>1
    <2>3. ASSUME NEW a \in BoundAddress, NEW i \in Nat, i =< Len(a), i >= 2
          PROVE  Rest(a, i) \in Strays
      <3>1. i \in 2 .. 4
        <4>1. Len(a) = 3 \/ Len(a) = 4 BY <1>1
        <4> QED BY <4>1, <2>3
      <3> QED BY <2>1, <3>1
    <2>4. Strays # {}
      <3>1. Rest(<<1, 41, 8>>, 2) \in Strays BY <1>2, <2>1
      <3> QED BY <3>1
    <2>5. \A stray \in Strays : stray \in Seq(Nat) BY <2>1, <2>2
    <2> QED BY <1>4, <2>3, <2>4, <2>5
  <1> QED BY <1>3, <1>4

(* The second octet of a greeting is the number of methods, which follow.  *)
LEMMA GreetingStream ==
    ASSUME TypeInv
    PROVE  /\ Greeting \in Seq(Nat)
           /\ Greeting[2] = Len(request.methods)
           /\ Rest(Greeting, 2) = request.methods
  <1> DEFINE a == <<request.version, Len(request.methods)>>
             b == request.methods
  <1>1. b \in Seq(Nat) /\ Len(b) \in Nat BY Streams
  <1>2. a \in Seq(Nat) /\ Len(a) = 2 /\ a[2] = Len(b) BY <1>1, Streams
  <1> HIDE DEF a, b
  <1>3. /\ a \o b \in Seq(Nat)
        /\ \A i \in 1 .. Len(a) : (a \o b)[i] = a[i]
    BY <1>1, <1>2, ConcatOctets
  <1>4. (a \o b)[2] = a[2]
    <2>1. 2 \in 1 .. Len(a) BY <1>2
    <2> QED BY <1>3, <2>1
  <1>5. Rest(a \o b, 2) = b BY <1>1, <1>2, RestOfFirst
  <1> QED BY <1>2, <1>3, <1>4, <1>5 DEF Greeting, a, b

(* The request, with a of what follows it: the fourth octet is ATYP.       *)
LEMMA RequestStream ==
    ASSUME TypeInv, NEW d \in Seq(Nat)
    PROVE  LET a == AddressOf(request.kind)
               s == <<5, request.command, 0>> \o a \o d
           IN  /\ s \in Seq(Nat)
               /\ s = (<<5, request.command, 0>> \o a) \o d
               /\ s[4] = a[1]
               /\ Rest(s, 4) = Rest(a, 1) \o d
  <1> DEFINE h == <<5, request.command, 0>>
             a == AddressOf(request.kind)
             r == h \o a
             s == r \o d
  <1>1. h \in Seq(Nat) /\ Len(h) = 3 BY Streams
  <1>2. a \in Seq(Nat) /\ Len(a) \in Nat /\ Len(a) >= 2 BY AddressSeq
  <1> HIDE DEF h, a
  <1>3. /\ r \in Seq(Nat) /\ Len(r) = Len(h) + Len(a)
        /\ \A i \in 1 .. Len(a) : r[Len(h) + i] = a[i]
    BY <1>1, <1>2, ConcatOctets
  <1>4. r[4] = a[1]
    <2>1. 1 \in 1 .. Len(a) /\ Len(h) + 1 = 4 BY <1>1, <1>2
    <2> QED BY <1>3, <2>1
  <1>5. Rest(r, 4) = Rest(a, 1)
    <2>1. 1 \in Nat /\ 1 =< Len(a) BY <1>2
    <2>2. Rest(h \o a, Len(h) + 1) = Rest(a, 1) BY <1>1, <1>2, <2>1, RestOfSecond
    <2>3. Len(h) + 1 = 4 BY <1>1
    <2> QED BY <2>2, <2>3
  <1> HIDE DEF r
  <1>6. /\ s \in Seq(Nat)
        /\ \A i \in 1 .. Len(r) : s[i] = r[i]
    BY <1>3, ConcatOctets
  <1>7. s[4] = r[4]
    <2>1. 4 \in 1 .. Len(r) BY <1>1, <1>2, <1>3
    <2> QED BY <1>6, <2>1
  <1>8. Rest(s, 4) = Rest(r, 4) \o d
    <2>1. 4 \in Nat /\ 4 =< Len(r) BY <1>1, <1>2, <1>3
    <2> QED BY <1>3, <2>1, RestOfConcat
  <1> QED BY <1>4, <1>5, <1>6, <1>7, <1>8 DEF s, r, h, a

(* A client that was told to go no further has been told what it may be.   *)
LEMMA AnswersAllowed ==
    ASSUME \/ toClient \in {<<>>, <<5, 255>>, <<5, 0>>}
           \/ toClient = <<5, 0>> \o BuildResponse(CommandNotSupported)
           \/ toClient = <<5, 0>> \o BuildResponse(AddressTypeNotSupported)
    PROVE  ClientStream
  BY DEF ClientStream

(* A client that was told of the connection is given the payload.          *)
LEMMA PayloadAllowed ==
    ASSUME NEW stray \in Strays, Continues(toClient, Established, stray \o UpstreamData),
           UpstreamData \in Seq(Nat)
    PROVE  ClientStream
  <1>1. UpstreamData \in Prefixes(UpstreamData) BY WholeIsPrefix
  <1>2. UpstreamData \in Prefixes(Data(60, sent["upstream"])) BY <1>1 DEF UpstreamData
  <1> QED BY <1>2 DEF ClientStream, Continues

(* An upstream that was asked for the same host is given the payload.      *)
LEMMA TargetAllowed ==
    ASSUME NEW k, Stands(k), Continues(toUpstream, Connecting(k), ClientData)
    PROVE  SameTarget
  BY DEF SameTarget, Stands, Connecting, ClientData, Continues

(* The invariant implies what the model promises of the streams.           *)
LEMMA Promises ==
    ASSUME IInv
    PROVE  SameTarget /\ ClientStream /\ RelayedIsAccepted
  <1>i. TypeInv /\ UpstreamInv /\ AnswersInv /\ TargetInv /\ RelayInv /\ ClosedInv BY DEF IInv
  <1>0. /\ toInbound \in Seq(Nat) /\ toClient \in Seq(Nat)
        /\ toUpstream \in Seq(Nat) /\ toOutbound \in Seq(Nat)
        /\ ClientData \in Seq(Nat) /\ UpstreamData \in Seq(Nat) /\ Established \in Seq(Nat)
    BY <1>i, Streams
  <1>h. \/ handler \in {"greeting", "methods"}
        \/ handler \in {"request", "address", "length", "name"}
        \/ handler \in {"connect", "method"}
        \/ handler \in {"reply", "reply length", "reply rest"}
        \/ handler = "relay"
        \/ handler = "closed"
    BY <1>i DEF TypeInv, TypeOK
  <1>r. RelayedIsAccepted BY <1>i DEF UpstreamInv, RelayedIsAccepted
  <1>1. CASE handler \in {"greeting", "methods"}
    <2>1. toClient = <<>> BY <1>i, <1>1 DEF AnswersInv
    <2>2. toUpstream = <<>> BY <1>i, <1>1 DEF UpstreamInv, BeforeConnect
    <2>3. ClientStream BY <2>1, AnswersAllowed
    <2>4. SameTarget BY <2>2 DEF SameTarget
    <2> QED BY <2>3, <2>4, <1>r
  <1>2. CASE handler \in {"request", "address", "length", "name"}
    <2>1. toClient = <<5, 0>> BY <1>i, <1>2 DEF AnswersInv
    <2>2. toUpstream = <<>> BY <1>i, <1>2 DEF UpstreamInv, BeforeConnect
    <2>3. ClientStream BY <2>1, AnswersAllowed
    <2>4. SameTarget BY <2>2 DEF SameTarget
    <2> QED BY <2>3, <2>4, <1>r
  <1>3. ASSUME toClient = Established PROVE ClientStream
    <2>1. PICK stray \in Strays : TRUE BY <1>i, StrayStreams DEF TypeInv, TypeOK
    <2>2. stray \in Seq(Nat) BY <1>i, StrayStreams DEF TypeInv, TypeOK
    <2>3. stray \o UpstreamData \in Seq(Nat) BY <1>0, <2>2, ConcatProperties
    <2>4. Continues(toClient, Established, stray \o UpstreamData)
      BY <1>3, <1>0, <2>3, ContinuesNot
    <2> QED BY <1>0, <2>4, PayloadAllowed
  <1>4. CASE handler \in {"connect", "method"}
    <2>1. toClient = Established BY <1>i, <1>4 DEF AnswersInv
    <2>2. toUpstream = <<>> \/ toUpstream = <<5, 1, 0>> BY <1>i, <1>4 DEF UpstreamInv, BeforeConnect
    <2>3. Len(<<>>) = 0 /\ Len(<<5, 1, 0>>) = 3 OBVIOUS
    <2>4. Len(toUpstream) = 0 \/ Len(toUpstream) = 3
      <3>1. CASE toUpstream = <<>> BY <3>1, <2>3
      <3>2. CASE toUpstream = <<5, 1, 0>> BY <3>2, <2>3
      <3> QED BY <2>2, <3>1, <3>2
    <2>5. SameTarget
      <3>1. ~(0 > 3) /\ ~(3 > 3) OBVIOUS
      <3>2. ~(Len(toUpstream) > 3) BY <3>1, <2>4
      <3> QED BY <3>2 DEF SameTarget
    <2> QED BY <2>1, <2>5, <1>3, <1>r
  <1>5. CASE handler \in {"reply", "reply length", "reply rest"}
    <2>1. toClient = Established BY <1>i, <1>5 DEF AnswersInv
    <2>2. PICK k : Stands(k) /\ toUpstream = Connecting(k) BY <1>i, <1>5 DEF TargetInv
    <2>3. Connecting(k) \in Seq(Nat) BY Addresses
    <2>4. Continues(toUpstream, Connecting(k), ClientData) BY <2>2, <2>3, <1>0, ContinuesNot
    <2>5. SameTarget BY <2>2, <2>4, TargetAllowed
    <2> QED BY <2>1, <2>5, <1>3, <1>r
  <1>6. CASE handler = "relay"
    <2>1. SameTarget
      <3>1. PICK k : /\ Stands(k) /\ Len(toUpstream) >= Len(Connecting(k))
                     /\ toUpstream \o toInbound = Connecting(k) \o ClientData
        BY <1>i, <1>6 DEF RelayInv
      <3>2. Connecting(k) \in Seq(Nat) BY Addresses
      <3>3. Continues(toUpstream, Connecting(k), ClientData)
        BY <3>1, <3>2, <1>0, StartsWith
      <3> QED BY <3>1, <3>3, TargetAllowed
    <2>2. ClientStream
      <3>1. PICK stray \in Strays :
               toClient \o toOutbound = Established \o (stray \o UpstreamData)
        BY <1>i, <1>6 DEF RelayInv
      <3>2. Len(toClient) >= Len(Established) BY <1>i, <1>6 DEF RelayInv
      <3>3. stray \in Seq(Nat) BY <1>i, StrayStreams DEF TypeInv, TypeOK
      <3>4. stray \o UpstreamData \in Seq(Nat) BY <1>0, <3>3, ConcatProperties
      <3>5. Continues(toClient, Established, stray \o UpstreamData)
        BY <3>1, <3>2, <3>4, <1>0, StartsWith
      <3> QED BY <1>0, <3>5, PayloadAllowed
    <2> QED BY <2>1, <2>2, <1>r
  <1>7. CASE handler = "closed" BY <1>i, <1>7, <1>r DEF ClosedInv
  <1> QED BY <1>h, <1>1, <1>2, <1>4, <1>5, <1>6, <1>7

(* A connection that is closed keeps what was promised of it, if the last  *)
(* thing the client is told, if anything, is a refusal.                    *)
LEMMA ClosingKeeps ==
    ASSUME IInv, handler' = "closed", count' = 0, UNCHANGED <<toUpstream, target>>,
           UNCHANGED <<request, whole, left, client, upstream, sent>>,
           toInbound' \in Seq(Nat), toOutbound' \in Seq(Nat), toClient' \in Seq(Nat),
           UNCHANGED toClient \/ ClientStream'
    PROVE  IInv'
  <1> USE DEF IInv
  <1>1. TypeInv' BY DEF TypeInv, TypeOK
  <1>2. UpstreamInv' BY DEF UpstreamInv, BeforeConnect
  <1>3. AnswersInv' BY DEF AnswersInv
  <1>4. RequestInv' BY DEF RequestInv
  <1>5. TargetInv' BY DEF TargetInv
  <1>6. RelayInv' BY DEF RelayInv
  <1>7. SameTarget'
    <2>1. SameTarget BY Promises
    <2> QED BY <2>1 DEF SameTarget
  <1>8. ClientStream'
    <2>1. ClientStream BY Promises
    <2>2. Strays' = Strays BY DEF Strays
    <2>3. UNCHANGED toClient => ClientStream' BY <2>1, <2>2 DEF ClientStream
    <2> QED BY <2>3
  <1>9. ClosedInv' BY <1>7, <1>8 DEF ClosedInv
  <1> QED BY <1>1, <1>2, <1>3, <1>4, <1>5, <1>6, <1>9

(* A connection is closed with no answer.                                  *)
LEMMA SilentClosing ==
    ASSUME IInv, HangUpSilently, UNCHANGED <<request, whole, left, client, upstream, sent>>,
           toInbound' \in Seq(Nat), toOutbound' \in Seq(Nat)
    PROVE  IInv'
  <1>1. toClient \in Seq(Nat) BY Streams DEF IInv
  <1>2. toClient' = toClient BY <1>1, ConcatEmptySeq DEF HangUpSilently, HangUpWith
  <1> QED BY <1>1, <1>2, ClosingKeeps DEF HangUpSilently, HangUpWith, HangUp

(* A connection is closed with an answer that refuses.                     *)
LEMMA RefusedClosing ==
    ASSUME IInv, NEW answer, HangUpWith(answer),
           UNCHANGED <<request, whole, left, client, upstream, sent>>,
           toInbound' \in Seq(Nat), toOutbound' \in Seq(Nat),
           \/ handler = "methods" /\ answer = <<5, 255>>
           \/ /\ handler \in {"request", "address", "length", "name"}
              /\ \/ answer = BuildResponse(CommandNotSupported)
                 \/ answer = BuildResponse(AddressTypeNotSupported)
    PROVE  IInv'
  <1>1. \/ toClient' = <<5, 255>>
        \/ toClient' = <<5, 0>> \o BuildResponse(CommandNotSupported)
        \/ toClient' = <<5, 0>> \o BuildResponse(AddressTypeNotSupported)
    <2>1. <<5, 255>> \in Seq(Nat) OBVIOUS
    <2>2. <<>> \o <<5, 255>> = <<5, 255>> BY <2>1, ConcatEmptySeq
    <2> QED BY <2>2 DEF IInv, AnswersInv, HangUpWith
  <1>2. toClient' \in Seq(Nat)
    <2>1. /\ <<5, 255>> \in Seq(Nat) /\ <<5, 0>> \in Seq(Nat)
          /\ <<5, 7, 0, 1, 0, 0>> \in Seq(Nat) /\ <<5, 8, 0, 1, 0, 0>> \in Seq(Nat)
      OBVIOUS
    <2>2. /\ <<5, 0>> \o BuildResponse(CommandNotSupported) \in Seq(Nat)
          /\ <<5, 0>> \o BuildResponse(AddressTypeNotSupported) \in Seq(Nat)
      BY <2>1, ConcatProperties
      DEF BuildResponse, CommandNotSupported, AddressTypeNotSupported
    <2> QED BY <1>1, <2>1, <2>2
  <1>3. ClientStream'
    BY <1>1 DEF ClientStream
  <1> QED BY <1>2, <1>3, ClosingKeeps DEF HangUpWith, HangUp

-----------------------------------------------------------------------------
(* The inbound *)

(* What is left when the server has read n octets of a stream.             *)
LEMMA ReadKeepsSeq ==
    ASSUME TypeInv, NEW s \in Seq(Nat), NEW m \in Nat, NEW n \in Reads(s, m)
    PROVE  /\ n \in Nat /\ 1 =< n /\ n =< m /\ n =< Len(s)
           /\ Rest(s, n) \in Seq(Nat)
  BY ReadsBounds, RestSeq

(* A new connection: nothing was sent and nothing read.                    *)
LEMMA InitInv ==
    ASSUME Init
    PROVE  IInv
  <1> USE DEF Init
  <1>1. TypeInv
    <2>1. <<>> \in Seq(Nat) OBVIOUS
    <2>2. sent \in [Peer -> 0 .. MaxData] BY MaxDataAssumption
    <2>3. target.brackets \in BOOLEAN /\ target.host \in Seq(Nat) BY DEF NoTarget
    <2> QED BY <2>1, <2>2, <2>3 DEF TypeInv, TypeOK
  <1>2. sent["client"] = 0 /\ sent["upstream"] = 0 BY DEF Peer
  <1>3. UpstreamInv BY <1>2 DEF UpstreamInv, BeforeConnect
  <1>4. AnswersInv BY DEF AnswersInv
  <1>5. RequestInv BY <1>2 DEF RequestInv
  <1>6. TargetInv BY DEF TargetInv
  <1>7. RelayInv /\ ClosedInv BY DEF RelayInv, ClosedInv
  <1> QED BY <1>1, <1>3, <1>4, <1>5, <1>6, <1>7 DEF IInv

(* A greeting that goes on is read to its last method.                     *)
LEMMA ReadGreetingInv ==
    ASSUME IInv, ReadGreeting
    PROVE  IInv'
  <1>i. TypeInv /\ UpstreamInv /\ AnswersInv /\ RequestInv BY DEF IInv
  <1>0. /\ handler = "greeting"
        /\ UNCHANGED <<request, whole, toOutbound, left, client, upstream, sent>>
    BY DEF ReadGreeting
  <1>s. toInbound \in Seq(Nat) /\ toOutbound \in Seq(Nat) BY <1>i, Streams
  <1>1. CASE HangUpSilently /\ UNCHANGED toInbound
    BY <1>0, <1>1, <1>s, SilentClosing
  <1>2. ASSUME NEW n \in Reads(toInbound, 2), toInbound' = Rest(toInbound, n),
               IF n = 2 /\ toInbound[1] = 5 /\ toInbound[2] > 0
               THEN /\ Await("methods")
                    /\ count' = toInbound[2]
                    /\ UNCHANGED <<toClient, toUpstream, target>>
               ELSE HangUpSilently
        PROVE  IInv'
    <2>1. n \in Nat /\ 1 =< n /\ n =< 2 /\ n =< Len(toInbound) /\ toInbound' \in Seq(Nat)
      BY <1>2, <1>i, <1>s, ReadKeepsSeq
    <2>2. CASE HangUpSilently BY <1>0, <1>s, <2>1, <2>2, SilentClosing
    <2>3. CASE /\ n = 2 /\ toInbound[2] > 0
               /\ Await("methods") /\ count' = toInbound[2]
               /\ UNCHANGED <<toClient, toUpstream, target>>
      <3>1. toInbound # <<>> BY <2>1
      <3>2. client = "request" /\ toInbound = Greeting BY <1>0, <1>i, <3>1 DEF RequestInv
      <3>3. count' = Len(request.methods) /\ toInbound' = request.methods
        BY <1>2, <1>i, <2>3, <3>2, GreetingStream
      <3>4. handler' = "methods" BY <2>3 DEF Await
      <3>5. count' \in Nat /\ count' > 0
        <4>1. Len(request.methods) \in Nat BY <1>i, Streams
        <4> QED BY <2>3, <3>3, <4>1
      <3>6. TypeInv' BY <1>0, <1>i, <2>1, <2>3, <3>4, <3>5 DEF TypeInv, TypeOK
      <3>7. UpstreamInv' BY <1>0, <1>i, <2>3, <3>4 DEF UpstreamInv, BeforeConnect
      <3>8. AnswersInv' BY <1>0, <1>i, <2>3, <3>4 DEF AnswersInv
      <3>9. RequestInv' BY <1>0, <1>i, <3>2, <3>3, <3>4 DEF RequestInv
      <3>10. TargetInv' /\ RelayInv' /\ ClosedInv' BY <3>4 DEF TargetInv, RelayInv, ClosedInv
      <3> QED BY <3>6, <3>7, <3>8, <3>9, <3>10 DEF IInv
    <2> QED BY <1>2, <2>2, <2>3
  <1> QED BY <1>1, <1>2 DEF ReadGreeting

(* The methods are the rest of the greeting; nothing of the request was    *)
(* read.                                                                   *)
LEMMA ReadMethodsInv ==
    ASSUME IInv, ReadMethods
    PROVE  IInv'
  <1>i. TypeInv /\ UpstreamInv /\ AnswersInv /\ RequestInv BY DEF IInv
  <1>0. /\ handler = "methods"
        /\ UNCHANGED <<request, whole, toOutbound, left, client, upstream, sent>>
    BY DEF ReadMethods
  <1>s. toInbound \in Seq(Nat) /\ toOutbound \in Seq(Nat) /\ count \in Nat BY <1>i, Streams
  <1>1. CASE HangUpSilently /\ UNCHANGED toInbound
    BY <1>0, <1>1, <1>s, SilentClosing
  <1>2. ASSUME NEW n \in Reads(toInbound, count), toInbound' = Rest(toInbound, n),
               \/ HangUpSilently
               \/ HangUpWith(<<5, 255>>)
               \/ /\ n = count /\ Await("request") /\ toClient' = toClient \o <<5, 0>>
                  /\ count' = 0 /\ UNCHANGED <<toUpstream, target>>
        PROVE  IInv'
    <2>1. toInbound' \in Seq(Nat) BY <1>2, <1>i, <1>s, ReadKeepsSeq
    <2>2. CASE HangUpSilently BY <1>0, <1>s, <2>1, <2>2, SilentClosing
    <2>3. CASE HangUpWith(<<5, 255>>) BY <1>0, <1>s, <2>1, <2>3, RefusedClosing
    <2>4. CASE /\ n = count /\ Await("request") /\ toClient' = toClient \o <<5, 0>>
               /\ count' = 0 /\ UNCHANGED <<toUpstream, target>>
      <3>1. handler' = "request" BY <2>4 DEF Await
      <3>2. toClient' = <<5, 0>>
        <4>1. <<5, 0>> \in Seq(Nat) OBVIOUS
        <4>2. <<>> \o <<5, 0>> = <<5, 0>> BY <4>1, ConcatEmptySeq
        <4> QED BY <1>0, <1>i, <2>4, <4>2 DEF AnswersInv
      <3>3. <<5, 0>> \in Seq(Nat) OBVIOUS
      <3>4. client = "request" /\ toInbound' = <<>>
        BY <1>0, <1>i, <1>2, <1>s, <2>4, RestAll DEF RequestInv
      <3>5. TypeInv' BY <1>0, <1>i, <2>1, <2>4, <3>1, <3>2, <3>3 DEF TypeInv, TypeOK
      <3>6. UpstreamInv' BY <1>0, <1>i, <2>4, <3>1 DEF UpstreamInv, BeforeConnect
      <3>7. AnswersInv' BY <3>1, <3>2 DEF AnswersInv
      <3>8. RequestInv' BY <1>0, <1>i, <3>1, <3>4 DEF RequestInv
      <3>9. TargetInv' /\ RelayInv' /\ ClosedInv' BY <3>1 DEF TargetInv, RelayInv, ClosedInv
      <3> QED BY <3>5, <3>6, <3>7, <3>8, <3>9 DEF IInv
    <2> QED BY <1>2, <2>2, <2>3, <2>4
  <1> QED BY <1>1, <1>2 DEF ReadMethods

(* The first four octets of the request end with the address type.         *)
LEMMA ReadRequestInv ==
    ASSUME IInv, ReadRequest
    PROVE  IInv'
  <1>i. TypeInv /\ UpstreamInv /\ AnswersInv /\ RequestInv BY DEF IInv
  <1>0. /\ handler = "request"
        /\ UNCHANGED <<request, whole, toOutbound, left, client, upstream, sent>>
    BY DEF ReadRequest
  <1>s. toInbound \in Seq(Nat) /\ toOutbound \in Seq(Nat) /\ ClientData \in Seq(Nat)
    BY <1>i, Streams
  <1>1. CASE HangUpSilently /\ UNCHANGED toInbound
    BY <1>0, <1>1, <1>s, SilentClosing
  <1>2. ASSUME NEW n \in Reads(toInbound, 4), toInbound' = Rest(toInbound, n),
               \/ HangUpSilently
               \/ HangUpWith(BuildResponse(CommandNotSupported))
               \/ HangUpWith(BuildResponse(AddressTypeNotSupported))
               \/ /\ ~(n < 4) /\ toInbound[4] \in {1, 3, 4}
                  /\ Await(IF toInbound[4] = 3 THEN "length" ELSE "address")
                  /\ count' = toInbound[4]
                  /\ UNCHANGED <<toClient, toUpstream, target>>
        PROVE  IInv'
    <2>1. n \in Nat /\ 1 =< n /\ n =< 4 /\ n =< Len(toInbound) /\ toInbound' \in Seq(Nat)
      BY <1>2, <1>i, <1>s, ReadKeepsSeq
    <2>2. CASE HangUpSilently BY <1>0, <1>s, <2>1, <2>2, SilentClosing
    <2>3. CASE HangUpWith(BuildResponse(CommandNotSupported))
      BY <1>0, <1>s, <2>1, <2>3, RefusedClosing
    <2>4. CASE HangUpWith(BuildResponse(AddressTypeNotSupported))
      BY <1>0, <1>s, <2>1, <2>4, RefusedClosing
    <2>5. CASE /\ ~(n < 4) /\ toInbound[4] \in {1, 3, 4}
               /\ Await(IF toInbound[4] = 3 THEN "length" ELSE "address")
               /\ count' = toInbound[4]
               /\ UNCHANGED <<toClient, toUpstream, target>>
      <3> DEFINE a == AddressOf(request.kind)
      <3>1. n = 4 /\ toInbound # <<>> BY <2>1, <2>5
      <3>2. client = "data" /\ toInbound = <<5, request.command, 0>> \o a \o ClientData
        BY <1>0, <1>i, <3>1 DEF RequestInv
      <3>3. toInbound[4] = a[1] /\ toInbound' = Rest(a, 1) \o ClientData
        BY <1>i, <1>s, <1>2, <3>1, <3>2, RequestStream
      <3>4. /\ handler' = IF count' = 3 THEN "length" ELSE "address"
            /\ count' \in {1, 3, 4} /\ count' = a[1]
        BY <2>5, <3>3 DEF Await
      <3>5. \/ handler' = "length" /\ count' = 3
            \/ handler' = "address" /\ count' \in {1, 4} /\ count' # 3
        BY <3>4
      <3>6. request' = request /\ ClientData' = ClientData BY <1>0 DEF ClientData
      <3> HIDE DEF a
      <3>7. TypeInv'
        <4>1. count' \in Nat /\ handler' \in {"length", "address"}
          BY <3>5
        <4>2. TypeOK' BY <1>0, <1>i, <2>1, <2>5, <4>1 DEF TypeInv, TypeOK
        <4> QED BY <3>5, <4>2 DEF TypeInv
      <3>8. UpstreamInv' BY <1>0, <1>i, <2>5, <3>5 DEF UpstreamInv, BeforeConnect
      <3>9. AnswersInv' BY <1>0, <1>i, <2>5, <3>5 DEF AnswersInv
      <3>10. RequestInv'
        BY <1>0, <1>i, <3>2, <3>3, <3>4, <3>5, <3>6 DEF RequestInv, a
      <3>11. TargetInv' /\ RelayInv' /\ ClosedInv' BY <3>5 DEF TargetInv, RelayInv, ClosedInv
      <3> QED BY <3>7, <3>8, <3>9, <3>10, <3>11 DEF IInv
    <2> QED BY <1>2, <2>2, <2>3, <2>4, <2>5
  <1> QED BY <1>1, <1>2 DEF ReadRequest

(* What ReadFull takes of a stream that is long enough, and leaves of it.  *)
LEMMA ReadFullTakes ==
    ASSUME TypeInv, NEW octets \in Seq(Nat), NEW rest \in Seq(Nat),
           toInbound = octets \o rest
    PROVE  /\ Len(toInbound) >= Len(octets)
           /\ SubSeq(toInbound, 1, Len(octets)) = octets
           /\ Rest(toInbound, Len(octets)) = rest
  <1>1. Len(octets \o rest) = Len(octets) + Len(rest) BY ConcatProperties
  <1>2. Len(octets) \in Nat /\ Len(rest) \in Nat OBVIOUS
  <1>3. Len(octets \o rest) >= Len(octets) BY <1>1, <1>2
  <1>4. SubSeq(octets \o rest, 1, Len(octets)) = octets BY FirstOfConcat
  <1>5. Rest(octets \o rest, Len(octets)) = rest BY RestOfFirst
  <1> QED BY <1>3, <1>4, <1>5

(* The length of a name is the second octet of the address.                *)
LEMMA ReadNameLengthInv ==
    ASSUME IInv, ReadNameLength
    PROVE  IInv'
  <1>i. TypeInv /\ UpstreamInv /\ AnswersInv /\ RequestInv BY DEF IInv
  <1>0. /\ handler = "length"
        /\ UNCHANGED <<request, whole, toOutbound, left, client, upstream, sent>>
    BY DEF ReadNameLength
  <1>s. toInbound \in Seq(Nat) /\ toOutbound \in Seq(Nat) /\ ClientData \in Seq(Nat)
    BY <1>i, Streams
  <1> DEFINE a == AddressOf(request.kind)
             b == Rest(a, 1)
  <1>a. /\ client = "data" /\ a[1] = 3 /\ count = 3
        /\ toInbound = b \o ClientData
    BY <1>0, <1>i DEF RequestInv
  <1>b. a \in Seq(Nat) /\ Len(a) >= 2 /\ (a[1] = 3 => Len(a) = a[2] + 3) BY AddressSeq
  <1>c. /\ b \in Seq(Nat) /\ Len(b) = Len(a) - 1
        /\ b[1] = a[2] /\ Rest(b, 1) = Rest(a, 2)
    <2> HIDE DEF a
    <2>1. 1 \in Nat /\ 1 =< Len(a) /\ 1 + 1 =< Len(a) BY <1>b
    <2>2. b \in Seq(Nat) /\ Len(b) = Len(a) - 1 /\ (\A i \in 1 .. Len(a) - 1 : b[i] = a[1 + i])
      BY <1>b, <2>1, RestSeq
    <2>3. 1 \in 1 .. Len(a) - 1 /\ 1 + 1 = 2 BY <1>b
    <2>4. b[1] = a[2] BY <2>2, <2>3
    <2>5. Rest(b, 1) = Rest(a, 1 + 1) BY <1>b, <2>1, RestOfRest
    <2> QED BY <2>2, <2>3, <2>4, <2>5
  <1> HIDE DEF b
  <1>d. Len(b) >= 1 /\ toInbound # <<>> /\ Len(toInbound) >= 1 /\ toInbound[1] = b[1]
    <2>1. Len(b) >= 1
      <3> HIDE DEF a
      <3> QED BY <1>b, <1>c
    <2>2. /\ Len(b \o ClientData) = Len(b) + Len(ClientData)
          /\ \A i \in 1 .. Len(b) : (b \o ClientData)[i] = b[i]
      BY <1>c, <1>s, ConcatOctets
    <2>3. Len(ClientData) \in Nat /\ Len(b) \in Nat BY <1>c, <1>s
    <2>4. 1 \in 1 .. Len(b) BY <2>1, <2>3
    <2>5. (b \o ClientData)[1] = b[1] BY <2>2, <2>4
    <2>6. Len(toInbound) >= 1 BY <1>a, <2>1, <2>2, <2>3
    <2> QED BY <1>a, <2>1, <2>5, <2>6
  <1>e. Rest(toInbound, 1) = Rest(a, 2) \o ClientData
    <2>1. 1 \in Nat /\ 1 =< Len(b) BY <1>d
    <2>2. Rest(b \o ClientData, 1) = Rest(b, 1) \o ClientData
      BY <1>c, <1>s, <2>1, RestOfConcat
    <2> QED BY <1>a, <1>c, <2>2
  <1>1. /\ toInbound' = Rest(toInbound, 1)
        /\ \/ HangUpWith(BuildResponse(AddressTypeNotSupported))
           \/ /\ SubSeq(toInbound, 1, 1)[1] # 0
              /\ count' = SubSeq(toInbound, 1, 1)[1] /\ Await("name")
              /\ UNCHANGED <<toClient, toUpstream, target>>
    <2>1. ~(Len(toInbound) < 1) BY <1>d, <1>s
    <2> QED BY <2>1 DEF ReadNameLength, ReadFull
  <1>2. SubSeq(toInbound, 1, 1)[1] = a[2]
    <2>1. SubSeq(toInbound, 1, 1)[1] = toInbound[1] BY <1>d, <1>s
    <2> QED BY <2>1, <1>c, <1>d
  <1>3. toInbound' \in Seq(Nat)
    <2>1. Rest(toInbound, 1) \in Seq(Nat) BY <1>d, <1>s, RestSeq
    <2> QED BY <1>1, <2>1
  <1>4. CASE HangUpWith(BuildResponse(AddressTypeNotSupported))
    BY <1>0, <1>s, <1>3, <1>4, RefusedClosing
  <1>5. CASE /\ SubSeq(toInbound, 1, 1)[1] # 0
             /\ count' = SubSeq(toInbound, 1, 1)[1] /\ Await("name")
             /\ UNCHANGED <<toClient, toUpstream, target>>
    <2>1. handler' = "name" /\ count' = a[2] /\ a[2] # 0 BY <1>2, <1>5 DEF Await
    <2>2. toInbound' = Rest(a, 2) \o ClientData BY <1>1, <1>e
    <2>3. a[2] \in Nat BY <1>b
    <2>4. request' = request /\ ClientData' = ClientData BY <1>0 DEF ClientData
    <2> HIDE DEF a
    <2>5. TypeInv' BY <1>0, <1>i, <1>3, <1>5, <2>1, <2>3 DEF TypeInv, TypeOK
    <2>6. UpstreamInv' BY <1>0, <1>i, <1>5, <2>1 DEF UpstreamInv, BeforeConnect
    <2>7. AnswersInv' BY <1>0, <1>i, <1>5, <2>1 DEF AnswersInv
    <2>8. RequestInv' BY <1>0, <1>i, <1>a, <2>1, <2>2, <2>4 DEF RequestInv, a
    <2>9. TargetInv' /\ RelayInv' /\ ClosedInv' BY <2>1 DEF TargetInv, RelayInv, ClosedInv
    <2> QED BY <2>5, <2>6, <2>7, <2>8, <2>9 DEF IInv
  <1> QED BY <1>1, <1>4, <1>5

(* Success is told for an address that stands for the client's.            *)
LEMMA ReplySuccessInv ==
    ASSUME IInv, NEW address, ReplySuccess(address),
           UNCHANGED <<request, whole, toOutbound, left, client, upstream, sent>>,
           handler \in {"address", "name"}, toInbound' = ClientData,
           address.brackets \in BOOLEAN, address.host \in Seq(Nat),
           Reaches(address)
    PROVE  IInv'
  <1>i. TypeInv /\ UpstreamInv /\ AnswersInv /\ RequestInv BY DEF IInv
  <1>s. /\ toInbound' \in Seq(Nat) /\ toOutbound' \in Seq(Nat) /\ ClientData' = ClientData
        /\ Established \in Seq(Nat)
    BY <1>i, Streams DEF ClientData
  <1>1. CASE HangUpSilently BY <1>s, <1>1, SilentClosing
  <1>2. CASE /\ target' = address /\ toClient' = toClient \o BuildResponse(0)
             /\ count' = 0 /\ Await("connect") /\ UNCHANGED toUpstream
    <2>1. handler' = "connect" BY <1>2 DEF Await
    <2>2. toClient' = Established BY <1>2, <1>i DEF AnswersInv, Established
    <2>3. client = "data" BY <1>i DEF RequestInv
    <2>4. Established' = Established BY DEF Established
    <2>5. TypeInv' BY <1>i, <1>s, <1>2, <2>1, <2>2 DEF TypeInv, TypeOK
    <2>6. UpstreamInv' BY <1>i, <1>2, <2>1 DEF UpstreamInv, BeforeConnect
    <2>7. AnswersInv' BY <2>1, <2>2, <2>4 DEF AnswersInv
    <2>8. RequestInv' BY <1>i, <2>1, <2>3 DEF RequestInv
    <2>9. TargetInv'
      <3>1. ASSUME NEW k, Stands(k) PROVE Stands(k)' BY <3>1 DEF Stands
      <3>2. Reaches(target)' BY <1>2, <3>1 DEF Reaches
      <3> QED BY <1>s, <2>1, <2>3, <3>2 DEF TargetInv
    <2>10. RelayInv' /\ ClosedInv' BY <2>1 DEF RelayInv, ClosedInv
    <2> QED BY <2>5, <2>6, <2>7, <2>8, <2>9, <2>10 DEF IInv
  <1> QED BY <1>1, <1>2 DEF ReplySuccess

(* The name and the port are the rest of the request.                      *)
LEMMA ReadNameInv ==
    ASSUME IInv, ReadName
    PROVE  IInv'
  <1>i. TypeInv /\ UpstreamInv /\ AnswersInv /\ RequestInv BY DEF IInv
  <1>0. /\ handler = "name"
        /\ UNCHANGED <<request, whole, toOutbound, left, client, upstream, sent>>
    BY DEF ReadName
  <1>s. toInbound \in Seq(Nat) /\ toOutbound \in Seq(Nat) /\ ClientData \in Seq(Nat)
    BY <1>i, Streams
  <1> DEFINE a == AddressOf(request.kind)
             b == Rest(a, 2)
             t == TargetAddress(3, b)
  <1>a. a[1] = 3 /\ count = a[2] /\ count # 0 /\ toInbound = b \o ClientData
    BY <1>0, <1>i DEF RequestInv, TypeInv, TypeOK
  <1>b. /\ b \in Seq(Nat) /\ Len(b) = count + 1
        /\ t.brackets \in BOOLEAN /\ t.host \in Seq(Nat)
        /\ Reaches(t)
    BY <1>a, SameHost
  <1> HIDE DEF b
  <1>c. /\ Len(toInbound) >= count + 1
        /\ SubSeq(toInbound, 1, count + 1) = b
        /\ Rest(toInbound, count + 1) = ClientData
    BY <1>a, <1>b, <1>i, <1>s, ReadFullTakes
  <1>1. toInbound' = Rest(toInbound, count + 1) /\ ReplySuccess(t)
    <2>1. ~(Len(toInbound) < count + 1) BY <1>b, <1>c, <1>s
    <2> QED BY <2>1, <1>c DEF ReadName, ReadFull
  <1> HIDE DEF t
  <1> QED BY <1>0, <1>1, <1>b, <1>c, ReplySuccessInv

(* An IPv4 or IPv6 address and the port are the rest of the request.       *)
LEMMA ReadAddressInv ==
    ASSUME IInv, ReadAddress
    PROVE  IInv'
  <1>i. TypeInv /\ UpstreamInv /\ AnswersInv /\ RequestInv BY DEF IInv
  <1>0. /\ handler = "address"
        /\ UNCHANGED <<request, whole, toOutbound, left, client, upstream, sent>>
    BY DEF ReadAddress
  <1>s. toInbound \in Seq(Nat) /\ toOutbound \in Seq(Nat) /\ ClientData \in Seq(Nat)
    BY <1>i, Streams
  <1> DEFINE a == AddressOf(request.kind)
             b == Rest(a, 1)
             n == AddressLength(count)
             t == TargetAddress(count, b)
  <1>a. count \in {1, 4} /\ a[1] = count /\ toInbound = b \o ClientData
    BY <1>0, <1>i DEF RequestInv, TypeInv
  <1>b. /\ b \in Seq(Nat) /\ Len(b) = n
        /\ t.brackets \in BOOLEAN /\ t.host \in Seq(Nat)
        /\ Reaches(t)
    BY <1>a, SameHost
  <1> HIDE DEF b
  <1>c. /\ Len(toInbound) >= n
        /\ SubSeq(toInbound, 1, n) = b
        /\ Rest(toInbound, n) = ClientData
    BY <1>a, <1>b, <1>i, <1>s, ReadFullTakes
  <1>1. toInbound' = Rest(toInbound, n) /\ ReplySuccess(t)
    <2>1. n \in Nat /\ Len(toInbound) \in Nat BY <1>b, <1>s
    <2>2. ~(Len(toInbound) < n) BY <1>c, <2>1
    <2> QED BY <2>2, <1>c DEF ReadAddress, ReadFull
  <1> HIDE DEF t, n
  <1> QED BY <1>0, <1>1, <1>b, <1>c, ReplySuccessInv

(* Every step of the inbound keeps the invariant.                          *)
LEMMA InboundInv ==
    ASSUME IInv, Inbound
    PROVE  IInv'
  BY ReadGreetingInv, ReadMethodsInv, ReadRequestInv, ReadNameLengthInv, ReadNameInv,
     ReadAddressInv DEF Inbound

-----------------------------------------------------------------------------
(* The outbound *)

(* The upstream is greeted.                                                *)
LEMMA ConnectInv ==
    ASSUME IInv, NEW ok \in BOOLEAN, Connect(ok)
    PROVE  IInv'
  <1>i. TypeInv /\ UpstreamInv /\ AnswersInv /\ RequestInv /\ TargetInv BY DEF IInv
  <1>0. /\ handler = "connect"
        /\ UNCHANGED <<request, whole, toInbound, toOutbound, left, client, upstream, sent>>
    BY DEF Connect
  <1>s. toInbound \in Seq(Nat) /\ toOutbound \in Seq(Nat) BY <1>i, Streams
  <1>1. CASE HangUpSilently BY <1>0, <1>1, <1>s, SilentClosing
  <1>2. CASE /\ toUpstream' = toUpstream \o <<5, 1, 0>>
             /\ Await("method") /\ count' = 2 /\ UNCHANGED <<toClient, target>>
    <2>1. handler' = "method" BY <1>2 DEF Await
    <2>2. <<5, 1, 0>> \in Seq(Nat) OBVIOUS
    <2>3. toUpstream' = <<5, 1, 0>>
      <3>1. <<>> \o <<5, 1, 0>> = <<5, 1, 0>> BY <2>2, ConcatEmptySeq
      <3> QED BY <1>0, <1>2, <1>i, <3>1 DEF UpstreamInv, BeforeConnect
    <2>4. ClientData' = ClientData /\ Established' = Established
      BY <1>0 DEF ClientData, Established
    <2>5. TypeInv' BY <1>0, <1>i, <1>2, <2>1, <2>2, <2>3 DEF TypeInv, TypeOK
    <2>6. UpstreamInv' BY <1>0, <1>i, <1>2, <2>1, <2>3 DEF UpstreamInv, BeforeConnect
    <2>7. AnswersInv' BY <1>0, <1>i, <1>2, <2>1, <2>4 DEF AnswersInv
    <2>8. RequestInv' BY <1>0, <1>i, <2>1 DEF RequestInv
    <2>9. TargetInv'
      <3>1. ASSUME NEW k, Stands(k) PROVE Stands(k)' BY <1>0, <3>1 DEF Stands
      <3>2. Reaches(target)' BY <1>0, <1>2, <1>i, <3>1 DEF TargetInv, Reaches
      <3> QED BY <1>0, <1>i, <2>1, <2>4, <3>2 DEF TargetInv
    <2>10. RelayInv' /\ ClosedInv' BY <2>1 DEF RelayInv, ClosedInv
    <2> QED BY <2>5, <2>6, <2>7, <2>8, <2>9, <2>10 DEF IInv
  <1> QED BY <1>1, <1>2 DEF Connect, Send

(* The greeting and the request are, together, what the upstream is sent.  *)
LEMMA ConnectingStream ==
    ASSUME NEW k
    PROVE  <<5, 1, 0>> \o (<<5, 1, 0>> \o AddressOf(k)) = Connecting(k)
  <1> DEFINE h == <<5, 1, 0>>
             a == AddressOf(k)
             g == h \o h
             c == <<5, 1, 0, 5, 1, 0>>
  <1>1. h \in Seq(Nat) /\ Len(h) = 3 /\ h[1] = 5 /\ h[2] = 1 /\ h[3] = 0 OBVIOUS
  <1>2. a \in Seq(Nat) BY AddressSeq
  <1>3. /\ c \in Seq(Nat) /\ Len(c) = 6
        /\ c[1] = 5 /\ c[2] = 1 /\ c[3] = 0 /\ c[4] = 5 /\ c[5] = 1 /\ c[6] = 0
    OBVIOUS
  <1> HIDE DEF h, a, c
  <1>4. g \in Seq(Nat) /\ Len(g) = 3 + 3
        /\ (\A i \in 1 .. 3 : g[i] = h[i]) /\ (\A i \in 1 .. 3 : g[3 + i] = h[i])
    <2>1. /\ g \in Seq(Nat) /\ Len(g) = Len(h) + Len(h)
          /\ (\A i \in 1 .. Len(h) : g[i] = h[i]) /\ (\A i \in 1 .. Len(h) : g[Len(h) + i] = h[i])
      BY <1>1, ConcatOctets
    <2> HIDE DEF g
    <2> QED BY <1>1, <2>1
  <1>6. h \o (h \o a) = g \o a
    <2>1. (h \o h) \o a = h \o (h \o a) BY <1>1, <1>2, ConcatAssociative
    <2> QED BY <2>1
  <1> HIDE DEF g
  <1>5. g = c
    <2>1. Len(g) = Len(c) BY <1>3, <1>4
    <2>2. ASSUME NEW i \in 1 .. Len(g) PROVE g[i] = c[i]
      <3>1. i \in 1 .. 3 \/ i - 3 \in 1 .. 3 BY <1>4
      <3>2. CASE i \in 1 .. 3
        <4>1. i = 1 \/ i = 2 \/ i = 3 BY <3>2
        <4>2. g[i] = h[i] BY <1>4, <3>2
        <4> QED BY <1>1, <1>3, <4>1, <4>2
      <3>3. CASE i - 3 \in 1 .. 3
        <4>1. i = 4 \/ i = 5 \/ i = 6 BY <3>3
        <4>2. g[3 + (i - 3)] = h[i - 3] /\ 3 + (i - 3) = i BY <1>4, <3>3
        <4>3. g[i] = h[i - 3] BY <4>2
        <4> QED BY <1>1, <1>3, <4>1, <4>3
      <3> QED BY <3>1, <3>2, <3>3
    <2> QED BY <1>3, <1>4, <2>1, <2>2, SeqEqual
  <1> QED BY <1>5, <1>6 DEF Connecting, h, a, c

(* Of two octets, the server reads both, or leaves the second one.         *)
LEMMA ReadOfTwo ==
    ASSUME TypeInv, NEW x \in Nat, NEW n \in Reads(<<5, x>>, 2)
    PROVE  \/ n = 2 /\ Rest(<<5, x>>, n) = <<>> /\ Buffer(<<5, x>>, n, 2)[2] = x
           \/ n = 1 /\ Rest(<<5, x>>, n) # <<>> /\ Rest(<<5, x>>, n)[1] = x
  <1> DEFINE s == <<5, x>>
  <1>1. s \in Seq(Nat) /\ Len(s) = 2 /\ s[2] = x OBVIOUS
  <1> HIDE DEF s
  <1>2. n \in Reads(s, 2) BY DEF s
  <1>3. n = 1 \/ n = 2
    <2>1. n \in Nat /\ 1 =< n /\ n =< 2 BY <1>1, <1>2, ReadsBounds
    <2> QED BY <2>1
  <1>4. CASE n = 2
    <2>1. Rest(s, 2) = <<>> BY <1>1, RestAll
    <2>2. Buffer(s, 2, 2)[2] = s[2]
      <3>1. 2 \in 1 .. 2 /\ 2 =< 2 /\ 2 =< Len(s) BY <1>1
      <3> QED BY <1>1, <3>1, BufferSeq
    <2> QED BY <1>1, <1>4, <2>1, <2>2 DEF s
  <1>5. CASE n = 1
    <2>1. 1 =< Len(s) BY <1>1
    <2>2. /\ Rest(s, 1) \in Seq(Nat) /\ Len(Rest(s, 1)) = Len(s) - 1
          /\ \A i \in 1 .. Len(s) - 1 : Rest(s, 1)[i] = s[1 + i]
      BY <1>1, <2>1, RestSeq
    <2>3. 1 \in 1 .. Len(s) - 1 /\ 1 + 1 = 2 BY <1>1
    <2>4. Rest(s, 1)[1] = s[2] BY <2>2, <2>3
    <2>5. Rest(s, 1) # <<>>
      <3>1. Len(Rest(s, 1)) = 1 BY <1>1, <2>2
      <3>2. Len(<<>>) = 0 OBVIOUS
      <3> QED BY <3>1, <3>2
    <2> QED BY <1>1, <1>5, <2>4, <2>5 DEF s
  <1> QED BY <1>3, <1>4, <1>5

(* A short read of the method leaves its second octet to be read first of  *)
(* the reply, which then does not pass; otherwise the upstream is asked    *)
(* for the target.                                                         *)
LEMMA ReadMethodInv ==
    ASSUME IInv, ReadMethod
    PROVE  IInv'
  <1>i. TypeInv /\ UpstreamInv /\ AnswersInv /\ RequestInv /\ TargetInv BY DEF IInv
  <1>0. /\ handler = "method"
        /\ UNCHANGED <<request, whole, toInbound, left, client, upstream, sent>>
    BY DEF ReadMethod, ReadFromUpstream
  <1>s. /\ toInbound \in Seq(Nat) /\ toOutbound \in Seq(Nat) /\ ClientData \in Seq(Nat)
        /\ toUpstream \in Seq(Nat)
    BY <1>i, Streams
  <1>c. count = 2 BY <1>0, <1>i DEF UpstreamInv
  <1>1. CASE HangUpSilently /\ UNCHANGED toOutbound
    BY <1>0, <1>1, <1>s, SilentClosing
  <1>2. ASSUME NEW n \in Reads(toOutbound, 2), toOutbound' = Rest(toOutbound, n),
               \/ HangUpSilently
               \/ /\ Buffer(toOutbound, n, 2)[2] = 0
                  /\ toUpstream' = toUpstream \o BuildConnectionRequest(target)
                  /\ Await("reply") /\ count' = 4 /\ UNCHANGED <<toClient, target>>
        PROVE  IInv'
    <2>1. n \in Nat /\ 1 =< n /\ n =< Len(toOutbound) /\ toOutbound' \in Seq(Nat)
      BY <1>2, <1>i, <1>s, ReadKeepsSeq
    <2>2. CASE HangUpSilently BY <1>0, <1>s, <2>1, <2>2, SilentClosing
    <2>3. CASE /\ Buffer(toOutbound, n, 2)[2] = 0
               /\ toUpstream' = toUpstream \o BuildConnectionRequest(target)
               /\ Await("reply") /\ count' = 4 /\ UNCHANGED <<toClient, target>>
      <3>1. handler' = "reply" BY <2>3 DEF Await
      <3>2. toOutbound # <<>>
        <4>1. Len(<<>>) = 0 OBVIOUS
        <4> QED BY <2>1, <4>1
      <3>3. \/ upstream = "reply" /\ toOutbound = <<5, 0>>
            \/ upstream = "refused" /\ toOutbound = <<5, 255>>
        BY <1>0, <1>i, <3>2 DEF UpstreamInv
      <3>4. \/ upstream = "reply" /\ toOutbound' = <<>>
            \/ toOutbound' # <<>> /\ toOutbound'[1] # 5
        <4>1. CASE upstream = "reply" /\ toOutbound = <<5, 0>>
          <5>1. \/ Rest(<<5, 0>>, n) = <<>>
                \/ Rest(<<5, 0>>, n) # <<>> /\ Rest(<<5, 0>>, n)[1] = 0
            BY <1>2, <1>i, <4>1, ReadOfTwo
          <5> QED BY <1>2, <4>1, <5>1
        <4>2. CASE upstream = "refused" /\ toOutbound = <<5, 255>>
          <5>1. \/ Buffer(<<5, 255>>, n, 2)[2] = 255
                \/ Rest(<<5, 255>>, n) # <<>> /\ Rest(<<5, 255>>, n)[1] = 255
            BY <1>2, <1>i, <4>2, ReadOfTwo
          <5> QED BY <1>2, <2>3, <4>2, <5>1
        <4> QED BY <3>3, <4>1, <4>2
      <3>5. PICK k : Stands(k) /\ BuildConnectionRequest(target) = <<5, 1, 0>> \o AddressOf(k)
        BY <1>0, <1>i DEF TargetInv, Reaches
      <3>6. toUpstream' = Connecting(k)
        <4>1. toUpstream = <<5, 1, 0>> BY <1>0, <1>i DEF UpstreamInv
        <4> QED BY <2>3, <3>5, <4>1, ConnectingStream
      <3>7. Stands(k)' /\ Connecting(k)' = Connecting(k)
        BY <1>0, <3>5 DEF Stands, Connecting
      <3>8. ClientData' = ClientData /\ Established' = Established
        BY <1>0 DEF ClientData, Established
      <3>9. Connecting(k) \in Seq(Nat) BY Addresses
      <3>10. TypeInv' BY <1>0, <1>i, <2>1, <2>3, <3>1, <3>6, <3>9 DEF TypeInv, TypeOK
      <3>11. UpstreamInv' BY <1>0, <1>i, <2>3, <3>1, <3>4 DEF UpstreamInv, BeforeConnect
      <3>12. AnswersInv' BY <1>0, <1>i, <2>3, <3>1, <3>8 DEF AnswersInv
      <3>13. RequestInv' BY <1>0, <1>i, <3>1 DEF RequestInv
      <3>14. TargetInv' BY <1>0, <1>i, <3>1, <3>6, <3>7, <3>8 DEF TargetInv
      <3>15. RelayInv' /\ ClosedInv' BY <3>1 DEF RelayInv, ClosedInv
      <3> QED BY <3>10, <3>11, <3>12, <3>13, <3>14, <3>15 DEF IInv
    <2> QED BY <1>2, <2>2, <2>3
  <1> QED BY <1>1, <1>2, <1>c DEF ReadMethod, ReadFromUpstream, Send

(* Of the upstream's reply the first four octets end with the address type.*)
LEMMA ReplyStream ==
    ASSUME NEW a \in BoundAddress, NEW d \in Seq(Nat)
    PROVE  /\ (Accepted(a) \o d)[4] = a[1]
           /\ Rest(Accepted(a) \o d, 4) = Rest(a, 1) \o d
           /\ Accepted(a) \o d \in Seq(Nat)
  <1> DEFINE h == <<5, 0, 0>>
             r == h \o a
             s == r \o d
  <1>1. h \in Seq(Nat) /\ Len(h) = 3 OBVIOUS
  <1>2. a \in Seq(Nat) /\ Len(a) \in Nat /\ Len(a) >= 2
    <2>1. a \in Seq(Nat) /\ (Len(a) = 3 \/ Len(a) = 4) BY Addresses
    <2> QED BY <2>1
  <1> HIDE DEF h
  <1>3. /\ r \in Seq(Nat) /\ Len(r) = Len(h) + Len(a)
        /\ \A i \in 1 .. Len(a) : r[Len(h) + i] = a[i]
    BY <1>1, <1>2, ConcatOctets
  <1>4. r[4] = a[1]
    <2>1. 1 \in 1 .. Len(a) /\ Len(h) + 1 = 4 BY <1>1, <1>2
    <2> QED BY <1>3, <2>1
  <1>5. Rest(r, 4) = Rest(a, 1)
    <2>1. 1 \in Nat /\ 1 =< Len(a) BY <1>2
    <2>2. Rest(h \o a, Len(h) + 1) = Rest(a, 1) BY <1>1, <1>2, <2>1, RestOfSecond
    <2>3. Len(h) + 1 = 4 BY <1>1
    <2> QED BY <2>2, <2>3
  <1> HIDE DEF r
  <1>6. /\ s \in Seq(Nat)
        /\ \A i \in 1 .. Len(r) : s[i] = r[i]
    BY <1>3, ConcatOctets
  <1>7. s[4] = r[4]
    <2>1. 4 \in 1 .. Len(r) BY <1>1, <1>2, <1>3
    <2> QED BY <1>6, <2>1
  <1>8. Rest(s, 4) = Rest(r, 4) \o d
    <2>1. 4 \in Nat /\ 4 =< Len(r) BY <1>1, <1>2, <1>3
    <2> QED BY <1>3, <2>1, RestOfConcat
  <1> QED BY <1>4, <1>5, <1>6, <1>7, <1>8 DEF s, r, h, Accepted

(* The outbound goes on to the next part of the reply.                     *)
LEMMA ContinueInv ==
    ASSUME IInv, NEW step \in {"reply length", "reply rest"}, NEW n \in Nat, n > 0,
           Continue(step, n), handler \in {"reply", "reply length"},
           UNCHANGED <<request, whole, toInbound, left, client, upstream, sent>>,
           toOutbound' \in Seq(Nat), UpstreamInv'
    PROVE  IInv'
  <1>i. TypeInv /\ AnswersInv /\ RequestInv /\ TargetInv BY DEF IInv
  <1>1. /\ handler' = step /\ count' = n
        /\ UNCHANGED <<toClient, toUpstream, target>>
    BY DEF Continue, Await
  <1>2. ClientData' = ClientData /\ Established' = Established BY DEF ClientData, Established
  <1>3. TypeInv' BY <1>i, <1>1 DEF TypeInv, TypeOK
  <1>4. AnswersInv' BY <1>i, <1>1, <1>2 DEF AnswersInv
  <1>5. RequestInv' BY <1>i, <1>1 DEF RequestInv
  <1>6. TargetInv'
    <2>1. PICK k : Stands(k) /\ toUpstream = Connecting(k) BY <1>i DEF TargetInv
    <2>2. Stands(k)' /\ toUpstream' = Connecting(k)' BY <1>1, <2>1 DEF Stands, Connecting
    <2> QED BY <1>i, <1>1, <1>2, <2>2 DEF TargetInv
  <1>7. RelayInv' /\ ClosedInv' BY <1>1 DEF RelayInv, ClosedInv
  <1> QED BY <1>3, <1>4, <1>5, <1>6, <1>7 DEF IInv

(* Only a reply that accepts, read to its address type, goes on.           *)
LEMMA ReadReplyInv ==
    ASSUME IInv, ReadReply
    PROVE  IInv'
  <1>i. TypeInv /\ UpstreamInv BY DEF IInv
  <1>0. /\ handler = "reply"
        /\ UNCHANGED <<request, whole, toInbound, left, client, upstream, sent>>
    BY DEF ReadReply, ReadFromUpstream
  <1>s. /\ toInbound \in Seq(Nat) /\ toOutbound \in Seq(Nat) /\ UpstreamData \in Seq(Nat)
    BY <1>i, Streams
  <1>c. count = 4 BY <1>0, <1>i DEF UpstreamInv
  <1>1. CASE HangUpSilently /\ UNCHANGED toOutbound
    BY <1>0, <1>1, <1>s, SilentClosing
  <1>2. ASSUME NEW n \in Reads(toOutbound, 4), toOutbound' = Rest(toOutbound, n),
               LET b == Buffer(toOutbound, n, 4)
               IN  IF b[1] # 5 \/ b[2] # 0 THEN HangUpSilently
                   ELSE IF b[4] = 3 THEN Continue("reply length", 1)
                   ELSE IF ReplyLength(b[4]) = 0 THEN HangUpSilently
                   ELSE Continue("reply rest", ReplyLength(b[4]))
        PROVE  IInv'
    <2> DEFINE b == Buffer(toOutbound, n, 4)
    <2>1. /\ n \in Nat /\ 1 =< n /\ n =< 4 /\ n =< Len(toOutbound) /\ toOutbound' \in Seq(Nat)
      BY <1>2, <1>i, <1>s, ReadKeepsSeq
    <2>2. \A i \in 1 .. 4 : b[i] = IF i =< n THEN toOutbound[i] ELSE 0
      BY <1>s, <2>1, BufferSeq
    <2> HIDE DEF b
    <2>3. /\ b[1] = toOutbound[1]
          /\ n < 4 => b[4] = 0
          /\ n = 4 => b[2] = toOutbound[2] /\ b[4] = toOutbound[4]
      <3>1. 1 \in 1 .. 4 /\ 2 \in 1 .. 4 /\ 4 \in 1 .. 4 OBVIOUS
      <3> QED BY <2>1, <2>2, <3>1
    <2>4. CASE HangUpSilently BY <1>0, <1>s, <2>1, <2>4, SilentClosing
    <2>5. ASSUME ~HangUpSilently PROVE IInv'
      <3>1. /\ b[1] = 5 /\ b[2] = 0
            /\ b[4] = 3 \/ ReplyLength(b[4]) # 0
        BY <1>2, <2>5 DEF b
      <3>2. n = 4
        <4>1. ReplyLength(0) = 0 BY ReplyLengths
        <4>2. ~(n < 4) BY <2>3, <3>1, <4>1
        <4> QED BY <2>1, <4>2
      <3>3. PICK a \in BoundAddress : toOutbound = Accepted(a) \o UpstreamData
        <4>1. toOutbound # <<>>
          <5>1. Len(<<>>) = 0 OBVIOUS
          <5> QED BY <2>1, <5>1
        <4> QED BY <1>0, <1>i, <2>3, <3>1, <3>2, <4>1 DEF UpstreamInv
      <3>4. upstream = "data"
        <4>1. toOutbound # <<>>
          <5>1. Len(<<>>) = 0 OBVIOUS
          <5> QED BY <2>1, <5>1
        <4> QED BY <1>0, <1>i, <2>3, <3>1, <3>2, <4>1 DEF UpstreamInv
      <3>5. b[4] = a[1] /\ toOutbound' = Rest(a, 1) \o UpstreamData
        BY <1>2, <1>s, <2>3, <3>2, <3>3, ReplyStream
      <3>6. UpstreamData' = UpstreamData BY <1>0 DEF UpstreamData
      <3>7. CASE a[1] = 3
        <4>1. Continue("reply length", 1) BY <1>2, <3>1, <3>5, <3>7 DEF b
        <4>2. UpstreamInv'
          <5>1. handler' = "reply length" /\ count' = 1 BY <4>1 DEF Continue, Await
          <5> QED BY <1>0, <1>i, <3>4, <3>5, <3>6, <3>7, <5>1 DEF UpstreamInv, BeforeConnect
        <4>3. 1 \in Nat /\ 1 > 0 OBVIOUS
        <4> QED BY <1>0, <2>1, <4>1, <4>2, <4>3, ContinueInv
      <3>8. CASE a[1] # 3
        <4> DEFINE m == ReplyLength(a[1])
        <4>1. Continue("reply rest", m) BY <1>2, <2>5, <3>1, <3>5, <3>8 DEF b
        <4>2. m \in Nat /\ m > 0 /\ Len(a) = 1 + m
          <5>1. (a[1] = 1 /\ Len(a) = 3) \/ (a[1] = 4 /\ Len(a) = 4) BY <3>8, Addresses
          <5>2. m = IF a[1] = 1 THEN 2 ELSE IF a[1] = 4 THEN 3 ELSE 0 BY ReplyLengths
          <5> HIDE DEF m
          <5> QED BY <5>1, <5>2
        <4> HIDE DEF m
        <4>3. UpstreamInv'
          <5>1. handler' = "reply rest" /\ count' = m BY <4>1 DEF Continue, Await
          <5>2. 1 \in 1 .. 2 OBVIOUS
          <5> QED BY <1>0, <1>i, <3>4, <3>5, <3>6, <4>2, <5>1, <5>2 DEF UpstreamInv, BeforeConnect
        <4> QED BY <1>0, <2>1, <4>1, <4>2, <4>3, ContinueInv
      <3> QED BY <3>7, <3>8
    <2> QED BY <2>4, <2>5
  <1> QED BY <1>1, <1>2, <1>c DEF ReadReply, ReadFromUpstream

(* The length of a bound name is the second octet of the bound address.    *)
LEMMA ReadReplyLengthInv ==
    ASSUME IInv, ReadReplyLength
    PROVE  IInv'
  <1>i. TypeInv /\ UpstreamInv BY DEF IInv
  <1>0. /\ handler = "reply length"
        /\ UNCHANGED <<request, whole, toInbound, left, client, upstream, sent>>
    BY DEF ReadReplyLength, ReadFromUpstream
  <1>s. /\ toInbound \in Seq(Nat) /\ toOutbound \in Seq(Nat) /\ UpstreamData \in Seq(Nat)
    BY <1>i, Streams
  <1>c. count = 1 /\ upstream = "data" BY <1>0, <1>i DEF UpstreamInv
  <1>1. CASE HangUpSilently /\ UNCHANGED toOutbound
    BY <1>0, <1>1, <1>s, SilentClosing
  <1>2. ASSUME NEW n \in Reads(toOutbound, 1), toOutbound' = Rest(toOutbound, n),
               Continue("reply rest", Buffer(toOutbound, n, 1)[1] + 1)
        PROVE  IInv'
    <2>1. /\ n \in Nat /\ 1 =< n /\ n =< 1 /\ n =< Len(toOutbound) /\ toOutbound' \in Seq(Nat)
      BY <1>2, <1>i, <1>s, ReadKeepsSeq
    <2>2. PICK a \in BoundAddress : a[1] = 3 /\ toOutbound = Rest(a, 1) \o UpstreamData
      BY <1>0, <1>i DEF UpstreamInv
    <2>3. a \in Seq(Nat) /\ Len(a) = 4 /\ a[2] = 1 BY <2>2, Addresses
    <2> DEFINE q == Rest(a, 1)
    <2>4. /\ q \in Seq(Nat) /\ Len(q) = 3 /\ q[1] = a[2] /\ Rest(q, 1) = Rest(a, 2)
      <3>1. 1 =< Len(a) /\ 1 + 1 =< Len(a) BY <2>3
      <3>2. /\ q \in Seq(Nat) /\ Len(q) = Len(a) - 1
            /\ \A i \in 1 .. Len(a) - 1 : q[i] = a[1 + i]
        BY <2>3, <3>1, RestSeq
      <3>3. 1 \in 1 .. Len(a) - 1 /\ 1 + 1 = 2 BY <2>3
      <3>4. q[1] = a[2] BY <3>2, <3>3
      <3>5. Rest(q, 1) = Rest(a, 1 + 1) BY <2>3, <3>1, RestOfRest
      <3> QED BY <2>3, <3>2, <3>4, <3>5
    <2> HIDE DEF q
    <2>5. (q \o UpstreamData)[1] = 1 /\ Rest(q \o UpstreamData, 1) = Rest(a, 2) \o UpstreamData
      <3>1. 1 =< Len(q) /\ 1 \in 1 .. Len(q) BY <2>4
      <3>2. (q \o UpstreamData)[1] = q[1] BY <1>s, <2>4, <3>1, ConcatOctets
      <3>3. Rest(q \o UpstreamData, 1) = Rest(q, 1) \o UpstreamData
        BY <1>s, <2>4, <3>1, RestOfConcat
      <3> QED BY <2>3, <2>4, <3>2, <3>3
    <2>6. n = 1 /\ toOutbound = q \o UpstreamData BY <2>1, <2>2 DEF q
    <2>7. Buffer(toOutbound, n, 1)[1] = 1
      <3>1. 1 \in 1 .. 1 /\ 1 =< n BY <2>1
      <3>2. Buffer(toOutbound, n, 1)[1] = toOutbound[1] BY <1>s, <2>1, <3>1, BufferSeq
      <3> QED BY <2>5, <2>6, <3>2
    <2>8. Continue("reply rest", 2)
      <3>1. 1 + 1 = 2 OBVIOUS
      <3> QED BY <1>2, <2>7, <3>1
    <2>9. toOutbound' = Rest(a, 2) \o UpstreamData BY <1>2, <2>5, <2>6
    <2>10. UpstreamInv'
      <3>1. handler' = "reply rest" /\ count' = 2 BY <2>8 DEF Continue, Await
      <3>2. UpstreamData' = UpstreamData BY <1>0 DEF UpstreamData
      <3>3. 2 \in 1 .. 2 /\ Len(a) = 2 + 2 BY <2>3
      <3> QED BY <1>0, <1>c, <1>i, <2>9, <3>1, <3>2, <3>3 DEF UpstreamInv, BeforeConnect
    <2>11. 2 \in Nat /\ 2 > 0 OBVIOUS
    <2> QED BY <1>0, <2>1, <2>8, <2>10, <2>11, ContinueInv
  <1> QED BY <1>1, <1>2, <1>c DEF ReadReplyLength, ReadFromUpstream

(* What a short read leaves of the bound address comes before the payload. *)
LEMMA ReadReplyRestInv ==
    ASSUME IInv, ReadReplyRest
    PROVE  IInv'
  <1>i. TypeInv /\ UpstreamInv /\ AnswersInv /\ RequestInv /\ TargetInv BY DEF IInv
  <1>0. /\ handler = "reply rest"
        /\ UNCHANGED <<request, whole, toInbound, left, client, upstream, sent>>
    BY DEF ReadReplyRest, ReadFromUpstream
  <1>s. /\ toInbound \in Seq(Nat) /\ toOutbound \in Seq(Nat) /\ UpstreamData \in Seq(Nat)
        /\ count \in Nat /\ Established \in Seq(Nat) /\ ClientData \in Seq(Nat)
    BY <1>i, Streams
  <1>1. CASE HangUpSilently /\ UNCHANGED toOutbound
    BY <1>0, <1>1, <1>s, SilentClosing
  <1>2. ASSUME NEW n \in Reads(toOutbound, count), toOutbound' = Rest(toOutbound, n),
               Continue("relay", 0)
        PROVE  IInv'
    <2>1. /\ n \in Nat /\ 1 =< n /\ n =< count /\ n =< Len(toOutbound)
          /\ whole => n = count \/ n = Len(toOutbound)
          /\ toOutbound' \in Seq(Nat)
      BY <1>2, <1>i, <1>s, ReadKeepsSeq, ReadsBounds
    <2>2. PICK a \in BoundAddress, i \in 1 .. 2 :
             Len(a) = i + count /\ toOutbound = Rest(a, i) \o UpstreamData
      BY <1>0, <1>i DEF UpstreamInv
    <2>3. a \in Seq(Nat) BY Addresses
    <2> DEFINE q == Rest(a, i)
    <2>4. q \in Seq(Nat) /\ Len(q) = count
      <3>1. i \in Nat /\ i =< Len(a) BY <1>s, <2>2
      <3>2. q \in Seq(Nat) /\ Len(q) = Len(a) - i BY <2>3, <3>1, RestSeq
      <3> QED BY <1>s, <2>2, <3>2
    <2>5. Rest(q, n) = Rest(a, i + n)
      <3>1. i \in Nat /\ i + n =< Len(a) BY <1>s, <2>1, <2>2
      <3> QED BY <2>1, <2>3, <3>1, RestOfRest
    <2> HIDE DEF q
    <2> DEFINE stray == Rest(a, i + n)
    <2>6. toOutbound' = stray \o UpstreamData
      <3>1. Rest(q \o UpstreamData, n) = Rest(q, n) \o UpstreamData
        BY <1>s, <2>1, <2>4, RestOfConcat
      <3>2. toOutbound = q \o UpstreamData BY <2>2 DEF q
      <3> QED BY <1>2, <2>5, <3>1, <3>2
    <2>7. stray \in Strays /\ stray \in Seq(Nat)
      <3>1. whole => n = count
        <4>1. Len(q \o UpstreamData) = Len(q) + Len(UpstreamData) BY <1>s, <2>4, ConcatProperties
        <4>2. toOutbound = q \o UpstreamData BY <2>2 DEF q
        <4>3. Len(UpstreamData) \in Nat BY <1>s
        <4>4. Len(toOutbound) >= count BY <1>s, <2>4, <4>1, <4>2, <4>3
        <4>5. Len(toOutbound) \in Nat BY <1>s
        <4> QED BY <1>s, <2>1, <4>4, <4>5
      <3>2. /\ i + n \in Nat /\ i + n =< Len(a) /\ i + n >= 2
            /\ whole => i + n = Len(a)
        BY <1>s, <2>1, <2>2, <3>1
      <3>3. whole \in BOOLEAN BY <1>i DEF TypeInv, TypeOK
      <3>4. stray \in Strays
        <4> DEFINE j == i + n
        <4> HIDE DEF j
        <4>1. j \in Nat /\ j =< Len(a) /\ j >= 2 /\ (whole => j = Len(a)) BY <3>2 DEF j
        <4>2. Rest(a, j) \in Strays BY <3>3, <4>1, StrayStreams
        <4> QED BY <4>2 DEF j
      <3> QED BY <3>3, <3>4, StrayStreams
    <2> HIDE DEF stray
    <2>8. /\ handler' = "relay" /\ count' = 0
          /\ UNCHANGED <<toClient, toUpstream, target>>
      BY <1>2 DEF Continue, Await
    <2>9. TypeInv' BY <1>0, <1>i, <2>1, <2>8 DEF TypeInv, TypeOK
    <2>10. UpstreamInv' BY <1>0, <1>i, <2>8 DEF UpstreamInv, BeforeConnect
    <2>11. AnswersInv' BY <2>8 DEF AnswersInv
    <2>12. RequestInv' BY <1>0, <1>i, <2>8 DEF RequestInv
    <2>13. TargetInv' /\ ClosedInv' BY <2>8 DEF TargetInv, ClosedInv
    <2>14. RelayInv'
      <3>1. client' = "data" /\ toInbound' = ClientData BY <1>0, <1>i DEF TargetInv
      <3>2. PICK k : Stands(k) /\ toUpstream = Connecting(k) BY <1>0, <1>i DEF TargetInv
      <3>3. Stands(k)' /\ toUpstream' = Connecting(k)' BY <1>0, <2>8, <3>2 DEF Stands, Connecting
      <3>4. /\ ClientData' = ClientData /\ UpstreamData' = UpstreamData
            /\ Established' = Established /\ Strays' = Strays
        <4>1. ClientData' = ClientData /\ UpstreamData' = UpstreamData
          BY <1>0 DEF ClientData, UpstreamData
        <4>2. Established' = Established BY DEF Established
        <4>3. whole' = whole BY <1>0
        <4>4. Strays' = Strays BY <4>3 DEF Strays
        <4> QED BY <4>1, <4>2, <4>4
      <3>5. Len(toUpstream') >= Len(Connecting(k)')
        <4>1. Connecting(k) \in Seq(Nat) BY Addresses
        <4>2. Len(Connecting(k)) \in Nat BY <4>1
        <4> QED BY <2>8, <3>2, <3>3, <4>2
      <3>6. toUpstream' \o toInbound' = Connecting(k)' \o ClientData' BY <3>1, <3>3, <3>4
      <3>7. toClient' = Established BY <1>0, <1>i, <2>8 DEF AnswersInv
      <3>8. Len(toClient') >= Len(Established')
        <4>1. Len(Established) \in Nat BY <1>s
        <4> QED BY <3>4, <3>7, <4>1
      <3>9. toClient' \o toOutbound' = Established' \o (stray \o UpstreamData')
        BY <2>6, <3>4, <3>7
      <3> QED BY <2>7, <2>8, <3>1, <3>3, <3>4, <3>5, <3>6, <3>8, <3>9 DEF RelayInv
    <2> QED BY <2>9, <2>10, <2>11, <2>12, <2>13, <2>14 DEF IInv
  <1> QED BY <1>1, <1>2 DEF ReadReplyRest, ReadFromUpstream

(* Every step of the outbound keeps the invariant.                         *)
LEMMA OutboundInv ==
    ASSUME IInv, Outbound
    PROVE  IInv'
  BY ConnectInv, ReadMethodInv, ReadReplyInv, ReadReplyLengthInv, ReadReplyRestInv DEF Outbound

-----------------------------------------------------------------------------
(* The relay *)

(* An octet is relayed to the upstream.                                    *)
LEMMA RelayUpInv ==
    ASSUME IInv, RelayUp
    PROVE  IInv'
  <1>i. TypeInv /\ UpstreamInv /\ RequestInv /\ RelayInv BY DEF IInv
  <1>0. /\ handler = "relay" /\ toInbound # <<>>
        /\ toUpstream' = Append(toUpstream, Head(toInbound))
        /\ toInbound' = Tail(toInbound)
        /\ UNCHANGED <<request, whole, toClient, toOutbound, left, client, handler,
                       count, target, upstream, sent>>
    BY DEF RelayUp
  <1>s. toInbound \in Seq(Nat) /\ toUpstream \in Seq(Nat) BY <1>i, Streams
  <1>1. /\ toUpstream' \o toInbound' = toUpstream \o toInbound
        /\ toInbound' \in Seq(Nat) /\ toUpstream' \in Seq(Nat)
        /\ Len(toUpstream') = Len(toUpstream) + 1
    BY <1>0, <1>s, OctetPassed
  <1>2. TypeInv' BY <1>0, <1>i, <1>1 DEF TypeInv, TypeOK
  <1>3. UpstreamInv' BY <1>0, <1>i DEF UpstreamInv, BeforeConnect
  <1>4. AnswersInv' BY <1>0 DEF AnswersInv
  <1>5. RequestInv' BY <1>0, <1>i DEF RequestInv
  <1>6. TargetInv' /\ ClosedInv' BY <1>0 DEF TargetInv, ClosedInv
  <1>7. RelayInv'
    <2>1. PICK k : /\ Stands(k) /\ Len(toUpstream) >= Len(Connecting(k))
                   /\ toUpstream \o toInbound = Connecting(k) \o ClientData
      BY <1>0, <1>i DEF RelayInv
    <2>2. Stands(k)' /\ Connecting(k)' = Connecting(k) /\ ClientData' = ClientData
      BY <1>0, <2>1 DEF Stands, Connecting, ClientData
    <2>3. Len(toUpstream') >= Len(Connecting(k))
      <3>1. Connecting(k) \in Seq(Nat) BY Addresses
      <3>2. Len(Connecting(k)) \in Nat /\ Len(toUpstream) \in Nat BY <1>s, <3>1
      <3> QED BY <1>1, <2>1, <3>2
    <2>4. /\ Len(toClient) >= Len(Established)
          /\ \E stray \in Strays : toClient \o toOutbound = Established \o (stray \o UpstreamData)
      BY <1>0, <1>i DEF RelayInv
    <2>5. Strays' = Strays
      <3>1. whole' = whole BY <1>0
      <3> QED BY <3>1 DEF Strays
    <2>6. Established' = Established /\ UpstreamData' = UpstreamData
      BY <1>0 DEF Established, UpstreamData
    <2> QED BY <1>0, <1>1, <1>i, <2>1, <2>2, <2>3, <2>4, <2>5, <2>6 DEF RelayInv
  <1> QED BY <1>2, <1>3, <1>4, <1>5, <1>6, <1>7 DEF IInv

(* An octet is relayed to the client.                                      *)
LEMMA RelayDownInv ==
    ASSUME IInv, RelayDown
    PROVE  IInv'
  <1>i. TypeInv /\ UpstreamInv /\ RequestInv /\ RelayInv BY DEF IInv
  <1>0. /\ handler = "relay" /\ toOutbound # <<>>
        /\ toClient' = Append(toClient, Head(toOutbound))
        /\ toOutbound' = Tail(toOutbound)
        /\ UNCHANGED <<request, whole, toUpstream, toInbound, left, client, handler,
                       count, target, upstream, sent>>
    BY DEF RelayDown
  <1>s. /\ toOutbound \in Seq(Nat) /\ toClient \in Seq(Nat) /\ Established \in Seq(Nat)
    BY <1>i, Streams
  <1>1. /\ toClient' \o toOutbound' = toClient \o toOutbound
        /\ toOutbound' \in Seq(Nat) /\ toClient' \in Seq(Nat)
        /\ Len(toClient') = Len(toClient) + 1
    BY <1>0, <1>s, OctetPassed
  <1>2. TypeInv' BY <1>0, <1>i, <1>1 DEF TypeInv, TypeOK
  <1>3. UpstreamInv' BY <1>0, <1>i DEF UpstreamInv, BeforeConnect
  <1>4. AnswersInv' BY <1>0 DEF AnswersInv
  <1>5. RequestInv' BY <1>0, <1>i DEF RequestInv
  <1>6. TargetInv' /\ ClosedInv' BY <1>0 DEF TargetInv, ClosedInv
  <1>7. RelayInv'
    <2>1. PICK k : /\ Stands(k) /\ Len(toUpstream) >= Len(Connecting(k))
                   /\ toUpstream \o toInbound = Connecting(k) \o ClientData
      BY <1>0, <1>i DEF RelayInv
    <2>2. Stands(k)' /\ Connecting(k)' = Connecting(k) /\ ClientData' = ClientData
      BY <1>0, <2>1 DEF Stands, Connecting, ClientData
    <2>3. /\ Len(toClient) >= Len(Established)
          /\ \E stray \in Strays : toClient \o toOutbound = Established \o (stray \o UpstreamData)
      BY <1>0, <1>i DEF RelayInv
    <2>4. Len(toClient') >= Len(Established)
      <3>1. Len(Established) \in Nat /\ Len(toClient) \in Nat BY <1>s
      <3> QED BY <1>1, <2>3, <3>1
    <2>5. Strays' = Strays
      <3>1. whole' = whole BY <1>0
      <3> QED BY <3>1 DEF Strays
    <2>6. Established' = Established /\ UpstreamData' = UpstreamData
      BY <1>0 DEF Established, UpstreamData
    <2> QED BY <1>0, <1>1, <1>i, <2>1, <2>2, <2>3, <2>4, <2>5, <2>6 DEF RelayInv
  <1> QED BY <1>2, <1>3, <1>4, <1>5, <1>6, <1>7 DEF IInv

(* The relay ends.                                                         *)
LEMMA EndRelayInv ==
    ASSUME IInv, EndRelay
    PROVE  IInv'
  <1>1. /\ HangUpSilently
        /\ UNCHANGED <<request, whole, toInbound, toOutbound, left, client, upstream, sent>>
    BY DEF EndRelay
  <1>2. toInbound \in Seq(Nat) /\ toOutbound \in Seq(Nat) BY Streams DEF IInv
  <1> QED BY <1>1, <1>2, SilentClosing

-----------------------------------------------------------------------------
(* The peers *)

(* The invariant says nothing of which peers have left.                    *)
LEMMA LeavingKeeps ==
    ASSUME IInv, left' \in SUBSET Peer,
           UNCHANGED <<request, whole, toInbound, toOutbound, client, upstream, sent, serverVars>>
    PROVE  IInv'
  <1>i. /\ TypeInv /\ UpstreamInv /\ AnswersInv /\ RequestInv /\ TargetInv /\ RelayInv
        /\ ClosedInv
    BY DEF IInv
  <1>0. UNCHANGED <<request, whole, toInbound, toOutbound, client, upstream, sent,
                    toClient, toUpstream, handler, count, target>>
    BY DEF serverVars
  <1>d. /\ ClientData' = ClientData /\ UpstreamData' = UpstreamData
        /\ Established' = Established /\ Greeting' = Greeting
    BY <1>0 DEF ClientData, UpstreamData, Established, Greeting
  <1>w. Strays' = Strays
    <2>1. whole' = whole BY <1>0
    <2> QED BY <2>1 DEF Strays
  <1>21. ASSUME NEW k PROVE (Stands(k)' <=> Stands(k)) /\ Connecting(k)' = Connecting(k)
    BY <1>0 DEF Stands, Connecting
  <1>1. TypeInv' BY <1>0, <1>i DEF TypeInv, TypeOK
  <1>2. UpstreamInv' BY <1>0, <1>d, <1>i DEF UpstreamInv, BeforeConnect
  <1>3. AnswersInv' BY <1>0, <1>d, <1>i DEF AnswersInv
  <1>4. RequestInv' BY <1>0, <1>d, <1>i DEF RequestInv
  <1>5. TargetInv' BY <1>0, <1>d, <1>i, <1>21 DEF TargetInv, Reaches
  <1>6. RelayInv'
    <2>1. SUFFICES ASSUME handler = "relay" PROVE RelayInv' BY <1>0 DEF RelayInv
    <2>2. PICK k : /\ Stands(k) /\ Len(toUpstream) >= Len(Connecting(k))
                   /\ toUpstream \o toInbound = Connecting(k) \o ClientData
      BY <1>i, <2>1 DEF RelayInv
    <2>3. PICK stray \in Strays : toClient \o toOutbound = Established \o (stray \o UpstreamData)
      BY <1>i, <2>1 DEF RelayInv
    <2>4. client = "data" /\ Len(toClient) >= Len(Established) BY <1>i, <2>1 DEF RelayInv
    <2>5. Stands(k)' /\ Connecting(k)' = Connecting(k) BY <1>21, <2>2
    <2> QED BY <1>0, <1>d, <1>w, <2>2, <2>3, <2>4, <2>5 DEF RelayInv
  <1>7. ClosedInv'
    <2>1. SameTarget => SameTarget' BY <1>0 DEF SameTarget
    <2>2. ClientStream => ClientStream' BY <1>0, <1>d, <1>w DEF ClientStream
    <2> QED BY <1>0, <1>i, <2>1, <2>2 DEF ClosedInv
  <1> QED BY <1>1, <1>2, <1>3, <1>4, <1>5, <1>6, <1>7 DEF IInv

(* An octet of payload is sent: behind what was to be read before it.      *)
LEMMA PayloadSent ==
    ASSUME TypeInv, NEW p \in Peer, sent[p] < MaxData,
           sent' = [sent EXCEPT ![p] = @ + 1]
    PROVE  /\ sent' \in [Peer -> 0 .. MaxData]
           /\ sent'[p] = sent[p] + 1
           /\ \A q \in Peer : q # p => sent'[q] = sent[q]
           /\ \A base \in Nat : /\ base + sent'[p] \in Nat
                                /\ Data(base, sent'[p]) = Append(Data(base, sent[p]), base + sent'[p])
           /\ \A base \in Nat : Data(base, sent[p]) \in Seq(Nat)
  <1>1. sent \in [Peer -> 0 .. MaxData] BY DEF TypeInv, TypeOK
  <1>2. sent[p] \in Nat /\ sent[p] + 1 \in 0 .. MaxData
    <2>1. sent[p] \in 0 .. MaxData BY <1>1
    <2> QED BY <2>1, MaxDataAssumption
  <1>3. sent'[p] = sent[p] + 1 /\ \A q \in Peer : q # p => sent'[q] = sent[q] BY <1>1
  <1>4. sent' \in [Peer -> 0 .. MaxData] BY <1>1, <1>2
  <1>5. ASSUME NEW base \in Nat
        PROVE  /\ base + sent'[p] \in Nat
               /\ Data(base, sent'[p]) = Append(Data(base, sent[p]), base + sent'[p])
               /\ Data(base, sent[p]) \in Seq(Nat)
    <2> DEFINE m == sent[p]
    <2>1. m \in Nat /\ sent'[p] = m + 1 BY <1>2, <1>3
    <2> HIDE DEF m
    <2>2. /\ Data(base, m + 1) = Append(Data(base, m), base + (m + 1))
          /\ Data(base, m) \in Seq(Nat) /\ base + (m + 1) \in Nat
      <3>1. m \in Nat BY <2>1
      <3> QED BY <3>1, DataSeq
    <2> QED BY <2>1, <2>2 DEF m
  <1> QED BY <1>3, <1>4, <1>5

(* What is sent behind a stream does not change its first octet.           *)
LEMMA Behind ==
    ASSUME NEW s \in Seq(Nat), s # <<>>, NEW t \in Seq(Nat)
    PROVE  s \o t # <<>> /\ (s \o t)[1] = s[1]
  <1>1. Len(s) \in Nat /\ Len(s) # 0 BY EmptySeq
  <1>2. 1 \in 1 .. Len(s) /\ Len(t) \in Nat BY <1>1
  <1>3. Len(s \o t) = Len(s) + Len(t) /\ (s \o t)[1] = s[1] BY <1>2, ConcatOctets
  <1>4. Len(s \o t) # 0 BY <1>1, <1>2, <1>3
  <1>5. Len(<<>>) = 0 OBVIOUS
  <1> QED BY <1>3, <1>4, <1>5

(* What a client sends does not touch what the upstream and the server have*)
(* said.                                                                   *)
LEMMA ClientSendsInv ==
    ASSUME IInv, ClientSends
    PROVE  IInv'
  <1>i. /\ TypeInv /\ UpstreamInv /\ AnswersInv /\ RequestInv /\ TargetInv /\ RelayInv
    BY DEF IInv
  <1>0. /\ handler # "closed"
        /\ UNCHANGED <<request, whole, toOutbound, left, upstream,
                       toClient, toUpstream, handler, count, target>>
    BY DEF ClientSends, Present, serverVars
  <1>s. toInbound \in Seq(Nat) /\ ClientData \in Seq(Nat) /\ toUpstream \in Seq(Nat)
    BY <1>i, Streams
  <1>w. Strays' = Strays /\ Established' = Established /\ Greeting' = Greeting
    <2>1. whole' = whole BY <1>0
    <2>2. Strays' = Strays BY <2>1 DEF Strays
    <2> QED BY <1>0, <2>2 DEF Established, Greeting
  <1>21. ASSUME NEW k PROVE (Stands(k)' <=> Stands(k)) /\ Connecting(k)' = Connecting(k)
    BY <1>0 DEF Stands, Connecting
  <1>a. AnswersInv' BY <1>0, <1>i, <1>w DEF AnswersInv
  <1>c. ClosedInv' BY <1>0 DEF ClosedInv
  <1>22. ASSUME sent'["upstream"] = sent["upstream"] PROVE UpstreamInv' /\ UpstreamData' = UpstreamData
    <2>1. UpstreamData' = UpstreamData BY <1>22 DEF UpstreamData
    <2> QED BY <1>0, <1>i, <1>22, <2>1 DEF UpstreamInv, BeforeConnect
  <1>23. ASSUME client = "greeting" \/ client = "request"
        PROVE  handler \in {"greeting", "methods", "request"}
    <2>1. handler \notin {"address", "length", "name", "relay", "connect", "method", "reply",
                          "reply length", "reply rest"}
      BY <1>i, <1>23 DEF RequestInv, TargetInv, RelayInv
    <2> QED BY <1>0, <1>i, <2>1 DEF TypeInv, TypeOK
  <1>1. CASE client = "greeting" /\ client' = "request" /\ toInbound' = toInbound \o Greeting
             /\ UNCHANGED sent
    <2>1. handler = "greeting"
      <3>1. handler \in {"greeting", "methods", "request"} BY <1>23, <1>1
      <3> QED BY <1>i, <1>1, <3>1 DEF RequestInv
    <2>2. toInbound' = Greeting /\ Greeting \in Seq(Nat)
      <3>1. toInbound = <<>> BY <1>i, <1>1, <2>1 DEF RequestInv
      <3>2. Greeting \in Seq(Nat) BY <1>i, GreetingStream
      <3>3. <<>> \o Greeting = Greeting BY <3>2, ConcatEmptySeq
      <3> QED BY <1>1, <3>1, <3>2, <3>3
    <2>3. TypeInv' BY <1>0, <1>i, <1>1, <2>2 DEF TypeInv, TypeOK
    <2>4. UpstreamInv' BY <1>1, <1>22
    <2>5. RequestInv' BY <1>0, <1>i, <1>w, <1>1, <2>1, <2>2 DEF RequestInv
    <2>6. TargetInv' /\ RelayInv' BY <1>0, <2>1 DEF TargetInv, RelayInv
    <2> QED BY <1>a, <1>c, <2>3, <2>4, <2>5, <2>6 DEF IInv
  <1>2. CASE client = "request" /\ toClient = <<5, 0>> /\ client' = "data"
             /\ toInbound' = toInbound \o <<5, request.command, 0>> \o AddressOf(request.kind)
             /\ UNCHANGED sent
    <2> DEFINE h == <<5, request.command, 0>>
               a == AddressOf(request.kind)
    <2>1. handler = "request"
      <3>1. handler \in {"greeting", "methods", "request"} BY <1>23, <1>2
      <3>2. <<5, 0>> # <<>> OBVIOUS
      <3> QED BY <1>i, <1>2, <3>1, <3>2 DEF AnswersInv
    <2>2. toInbound = <<>> BY <1>i, <1>2, <2>1 DEF RequestInv
    <2>3. h \in Seq(Nat) /\ a \in Seq(Nat) BY <1>i, Streams, AddressSeq
    <2>4. ClientData = <<>> /\ ClientData' = ClientData
      <3>1. sent["client"] = 0 BY <1>i, <1>2 DEF RequestInv
      <3>2. 50 \in Nat /\ 0 \in Nat OBVIOUS
      <3>3. Data(50, 0) = <<>> BY <3>2, DataSeq
      <3> QED BY <1>2, <3>1, <3>3 DEF ClientData
    <2> HIDE DEF h, a
    <2>5. toInbound' = h \o a \o <<>> /\ toInbound' \in Seq(Nat)
      <3>1. <<>> \o h = h BY <2>3, ConcatEmptySeq
      <3>2. h \o a \in Seq(Nat) BY <2>3, ConcatProperties
      <3>3. (h \o a) \o <<>> = h \o a BY <3>2, ConcatEmptySeq
      <3>4. toInbound' = <<>> \o h \o a BY <1>2, <2>2 DEF h, a
      <3> QED BY <3>1, <3>2, <3>3, <3>4
    <2>6. TypeInv' BY <1>0, <1>i, <1>2, <2>5 DEF TypeInv, TypeOK
    <2>7. UpstreamInv' BY <1>2, <1>22
    <2>8. RequestInv' BY <1>0, <1>2, <2>1, <2>4, <2>5 DEF RequestInv, h, a
    <2>9. TargetInv' /\ RelayInv' BY <1>0, <2>1 DEF TargetInv, RelayInv
    <2> QED BY <1>a, <1>c, <2>6, <2>7, <2>8, <2>9 DEF IInv
  <1>3. CASE client = "data" /\ sent["client"] < MaxData
             /\ sent' = [sent EXCEPT !["client"] = @ + 1]
             /\ toInbound' = Append(toInbound, 50 + sent'["client"])
             /\ UNCHANGED client
    <2> DEFINE e == 50 + sent'["client"]
    <2>1. /\ sent' \in [Peer -> 0 .. MaxData] /\ sent'["upstream"] = sent["upstream"]
          /\ e \in Nat /\ ClientData' = Append(ClientData, e)
      <3>1. "client" \in Peer /\ "upstream" \in Peer BY DEF Peer
      <3>2. 50 \in Nat OBVIOUS
      <3>3. e \in Nat /\ Data(50, sent'["client"]) = Append(Data(50, sent["client"]), e)
        BY <1>3, <1>i, <3>1, <3>2, PayloadSent
      <3>4. sent' \in [Peer -> 0 .. MaxData] /\ sent'["upstream"] = sent["upstream"]
        BY <1>3, <1>i, <3>1, PayloadSent
      <3> QED BY <3>3, <3>4 DEF ClientData
    <2> HIDE DEF e
    <2>2. toInbound' = Append(toInbound, e) /\ toInbound' \in Seq(Nat)
      <3>1. toInbound' = Append(toInbound, e) BY <1>3 DEF e
      <3>2. Append(toInbound, e) \in Seq(Nat) BY <1>s, <2>1, AppendProperties
      <3> QED BY <3>1, <3>2
    <2>3. ASSUME NEW before \in Seq(Nat), toInbound = before \o ClientData
          PROVE  toInbound' = before \o ClientData'
      <3>1. before \o Append(ClientData, e) = Append(before \o ClientData, e)
        BY <1>s, <2>1, OctetSent
      <3> QED BY <2>1, <2>2, <2>3, <3>1
    <2>4. TypeInv' BY <1>0, <1>i, <1>3, <2>1, <2>2 DEF TypeInv, TypeOK
    <2>5. UpstreamInv' /\ UpstreamData' = UpstreamData BY <2>1, <1>22
    <2>6. RequestInv'
      <3> DEFINE h == <<5, request.command, 0>>
                 a == AddressOf(request.kind)
      <3>1. h \in Seq(Nat) /\ a \in Seq(Nat) /\ Len(a) >= 2 BY <1>i, Streams, AddressSeq
      <3>2. h' = h /\ a' = a BY <1>0
      <3>3. handler \notin {"greeting", "methods"} BY <1>3, <1>i DEF RequestInv
      <3> HIDE DEF h, a
      <3>4. h \o a \in Seq(Nat) BY <3>1, ConcatProperties
      <3>5. Rest(a, 1) \in Seq(Nat) /\ Rest(a, 2) \in Seq(Nat)
        <4>1. 1 \in Nat /\ 2 \in Nat /\ 1 =< Len(a) /\ 2 =< Len(a) BY <3>1
        <4> QED BY <3>1, <4>1, RestSeq
      <3>6. CASE handler = "request"
        <4>1. toInbound = (h \o a) \o ClientData BY <1>3, <1>i, <3>6 DEF RequestInv, h, a
        <4>2. toInbound' = (h \o a) \o ClientData' BY <2>3, <3>4, <4>1
        <4> QED BY <1>0, <1>3, <3>2, <3>6, <4>2 DEF RequestInv, h, a
      <3>7. CASE handler \in {"address", "length"}
        <4>1. /\ toInbound = Rest(a, 1) \o ClientData
              /\ count = a[1] /\ (handler = "length" <=> count = 3)
          BY <1>i, <3>7 DEF RequestInv, a
        <4>2. toInbound' = Rest(a, 1) \o ClientData' BY <2>3, <3>5, <4>1
        <4> QED BY <1>0, <1>3, <3>2, <3>7, <4>1, <4>2 DEF RequestInv, a
      <3>8. CASE handler = "name"
        <4>1. /\ toInbound = Rest(a, 2) \o ClientData
              /\ a[1] = 3 /\ count = a[2] /\ count # 0
          BY <1>i, <3>8 DEF RequestInv, a
        <4>2. toInbound' = Rest(a, 2) \o ClientData' BY <2>3, <3>5, <4>1
        <4> QED BY <1>0, <1>3, <3>2, <3>8, <4>1, <4>2 DEF RequestInv, a
      <3>9. CASE handler \notin {"request", "address", "length", "name"}
        BY <1>0, <1>3, <3>3, <3>9 DEF RequestInv
      <3> QED BY <3>6, <3>7, <3>8, <3>9
    <2>7. TargetInv'
      <3>1. toInbound = ClientData => toInbound' = ClientData' BY <2>1, <2>2
      <3> QED BY <1>0, <1>3, <1>i, <1>21, <3>1 DEF TargetInv, Reaches
    <2>8. RelayInv'
      <3>1. SUFFICES ASSUME handler = "relay" PROVE RelayInv' BY <1>0 DEF RelayInv
      <3>2. PICK k : /\ Stands(k) /\ Len(toUpstream) >= Len(Connecting(k))
                     /\ toUpstream \o toInbound = Connecting(k) \o ClientData
        BY <1>i, <3>1 DEF RelayInv
      <3>3. toUpstream' \o toInbound' = Connecting(k) \o ClientData'
        <4>1. Connecting(k) \in Seq(Nat) BY Addresses
        <4>2. toUpstream \o Append(toInbound, e) = Append(toUpstream \o toInbound, e)
          BY <1>s, <2>1, OctetSent
        <4>3. Connecting(k) \o Append(ClientData, e) = Append(Connecting(k) \o ClientData, e)
          BY <1>s, <2>1, <4>1, OctetSent
        <4> QED BY <1>0, <2>1, <2>2, <3>2, <4>2, <4>3
      <3>4. Stands(k)' /\ Connecting(k)' = Connecting(k) BY <1>21, <3>2
      <3>5. PICK stray \in Strays : toClient \o toOutbound = Established \o (stray \o UpstreamData)
        BY <1>i, <3>1 DEF RelayInv
      <3>6. client = "data" /\ Len(toClient) >= Len(Established) BY <1>i, <3>1 DEF RelayInv
      <3> QED BY <1>0, <1>3, <1>w, <2>5, <3>2, <3>3, <3>4, <3>5, <3>6 DEF RelayInv
    <2> QED BY <1>a, <1>c, <2>4, <2>5, <2>6, <2>7, <2>8 DEF IInv
  <1> QED BY <1>1, <1>2, <1>3 DEF ClientSends

(* What an upstream sends is behind what the server has not read of it: a  *)
(* reply that will not pass stays one.                                     *)
LEMMA UpstreamSendsInv ==
    ASSUME IInv, UpstreamSends
    PROVE  IInv'
  <1>i. /\ TypeInv /\ UpstreamInv /\ AnswersInv /\ RequestInv /\ TargetInv /\ RelayInv
    BY DEF IInv
  <1>0. /\ handler # "closed"
        /\ UNCHANGED <<request, whole, toInbound, left, client,
                       toClient, toUpstream, handler, count, target>>
    BY DEF UpstreamSends, Present, serverVars
  <1>s. /\ toOutbound \in Seq(Nat) /\ UpstreamData \in Seq(Nat) /\ toClient \in Seq(Nat)
        /\ toUpstream \in Seq(Nat)
    BY <1>i, Streams
  <1>w. Strays' = Strays /\ Established' = Established /\ Greeting' = Greeting
    <2>1. whole' = whole BY <1>0
    <2>2. Strays' = Strays BY <2>1 DEF Strays
    <2> QED BY <1>0, <2>2 DEF Established, Greeting
  <1>21. ASSUME NEW k PROVE (Stands(k)' <=> Stands(k)) /\ Connecting(k)' = Connecting(k)
    BY <1>0 DEF Stands, Connecting
  <1>a. AnswersInv' BY <1>0, <1>i, <1>w DEF AnswersInv
  <1>c. ClosedInv' BY <1>0 DEF ClosedInv
  <1>22. ASSUME sent'["client"] = sent["client"]
        PROVE  RequestInv' /\ TargetInv' /\ ClientData' = ClientData
    <2>1. ClientData' = ClientData BY <1>22 DEF ClientData
    <2>2. RequestInv' BY <1>0, <1>i, <1>22, <1>w, <2>1 DEF RequestInv
    <2>3. TargetInv' BY <1>0, <1>i, <1>21, <2>1 DEF TargetInv, Reaches
    <2> QED BY <2>1, <2>2, <2>3
  <1>b. toOutbound # <<>> /\ toOutbound[1] # 5 =>
           \A t \in Seq(Nat) : toOutbound \o t # <<>> /\ (toOutbound \o t)[1] # 5
    BY <1>s, Behind
  <1>d. /\ handler \in {"reply length", "reply rest", "relay"} => upstream = "data"
        /\ handler \in BeforeConnect => toUpstream = <<>> /\ upstream = "method"
    BY <1>i DEF UpstreamInv
  <1>1. ASSUME upstream = "method", Len(toUpstream) >= 3, UNCHANGED sent,
               NEW m \in {0, 255}, toOutbound' = toOutbound \o <<5, m>>,
               upstream' = IF m = 0 THEN "reply" ELSE "refused"
        PROVE  IInv'
    <2>1. handler \in {"method", "reply"}
      <3>1. Len(<<>>) = 0 /\ ~(0 >= 3) OBVIOUS
      <3> QED BY <1>0, <1>1, <1>d, <1>i, <3>1 DEF TypeInv, TypeOK, BeforeConnect
    <2>2. <<5, m>> \in Seq(Nat) OBVIOUS
    <2>3. toOutbound' \in Seq(Nat) BY <1>1, <1>s, <2>2, ConcatProperties
    <2>4. TypeInv'
      <3>1. upstream' \in {"method", "reply", "data", "refused"} BY <1>1
      <3>2. (\A s \in {toInbound, toClient, toUpstream, toOutbound} : s \in Seq(Nat))'
        <4>1. /\ toInbound' \in Seq(Nat) /\ toClient' \in Seq(Nat)
              /\ toUpstream' \in Seq(Nat) /\ toOutbound' \in Seq(Nat)
          BY <1>0, <1>i, <2>3, Streams
        <4> QED BY <4>1
      <3>3. /\ request' = request /\ whole' = whole /\ left' = left /\ client' = client
            /\ handler' = handler /\ count' = count /\ target' = target /\ sent' = sent
        BY <1>0, <1>1
      <3>4. TypeOK'
        <4>1. TypeOK BY <1>i DEF TypeInv
        <4>2. request' \in Request /\ whole' \in BOOLEAN /\ left' \in SUBSET Peer
          BY <3>3, <4>1 DEF TypeOK
        <4>3. sent' \in [Peer -> 0 .. MaxData] BY <3>3, <4>1 DEF TypeOK
        <4>4. client' \in {"greeting", "request", "data"} BY <3>3, <4>1 DEF TypeOK
        <4>5. /\ count' \in Nat /\ target.brackets' \in BOOLEAN /\ target.host' \in Seq(Nat)
          BY <3>3, <4>1 DEF TypeOK
        <4>6. /\ handler' \in {"method", "reply"}
              /\ (handler' \in {"methods", "method", "reply", "reply length", "reply rest"} => count' > 0)
          BY <2>1, <3>3, <4>1 DEF TypeOK
        <4> QED BY <3>1, <3>2, <4>2, <4>3, <4>4, <4>5, <4>6 DEF TypeOK
      <3> QED BY <1>i, <3>3, <3>4 DEF TypeInv
    <2>5. UpstreamInv'
      <3>1. upstream' # "data" /\ sent'["upstream"] = 0 BY <1>1, <1>i DEF UpstreamInv
      <3>2. CASE handler = "method"
        <4>1. toOutbound = <<>> /\ count = 2 /\ toUpstream = <<5, 1, 0>>
          BY <1>1, <1>i, <3>2 DEF UpstreamInv
        <4>2. toOutbound' = <<5, m>> BY <1>1, <2>2, <4>1, ConcatEmptySeq
        <4>3. \/ upstream' = "reply" /\ toOutbound' = <<5, 0>>
              \/ upstream' = "refused" /\ toOutbound' = <<5, 255>>
          BY <1>1, <4>2
        <4> QED BY <1>0, <3>1, <3>2, <4>1, <4>3 DEF UpstreamInv, BeforeConnect
      <3>3. CASE handler = "reply"
        <4>1. count = 4 /\ toOutbound # <<>> /\ toOutbound[1] # 5
          BY <1>1, <1>i, <3>3 DEF UpstreamInv
        <4>2. toOutbound' # <<>> /\ toOutbound'[1] # 5 BY <1>1, <1>b, <2>2, <4>1
        <4> QED BY <1>0, <3>1, <3>3, <4>1, <4>2 DEF UpstreamInv, BeforeConnect
      <3> QED BY <2>1, <3>2, <3>3
    <2>6. RequestInv' /\ TargetInv' BY <1>1, <1>22
    <2>7. RelayInv' BY <1>0, <2>1 DEF RelayInv
    <2> QED BY <1>a, <1>c, <2>4, <2>5, <2>6, <2>7 DEF IInv
  <1>2. ASSUME upstream = "reply", Len(toUpstream) > 3, UNCHANGED sent,
               NEW reply \in {0, 5}, NEW address \in BoundAddress,
               toOutbound' = toOutbound \o <<5, reply, 0>> \o address,
               upstream' = IF reply = 0 THEN "data" ELSE "refused"
        PROVE  IInv'
    <2> DEFINE h == <<5, reply, 0>>
    <2>1. handler = "reply"
      <3>1. Len(<<5, 1, 0>>) = 3 /\ ~(3 > 3) OBVIOUS
      <3>2. handler # "method" BY <1>2, <1>i, <3>1 DEF UpstreamInv
      <3> QED BY <1>0, <1>2, <1>d, <1>i, <3>2 DEF TypeInv, TypeOK, BeforeConnect
    <2>2. h \in Seq(Nat) /\ Len(h) = 3 /\ h[2] = reply OBVIOUS
    <2>3. address \in Seq(Nat) /\ Len(address) \in Nat BY Addresses
    <2> HIDE DEF h
    <2>4. /\ h \o address \in Seq(Nat) /\ Len(h \o address) >= 2 /\ (h \o address)[2] = reply
      <3>1. 2 \in 1 .. Len(h) BY <2>2
      <3>2. /\ h \o address \in Seq(Nat) /\ Len(h \o address) = Len(h) + Len(address)
            /\ \A i \in 1 .. Len(h) : (h \o address)[i] = h[i]
        BY <2>2, <2>3, ConcatOctets
      <3>3. Len(h \o address) >= 2 BY <2>2, <2>3, <3>2
      <3> QED BY <2>2, <3>1, <3>2, <3>3
    <2>5. toOutbound' = toOutbound \o (h \o address)
      <3>1. toOutbound' = (toOutbound \o h) \o address BY <1>2 DEF h
      <3>2. (toOutbound \o h) \o address = toOutbound \o (h \o address)
        <4>1. toOutbound \in Seq(Nat) /\ h \in Seq(Nat) /\ address \in Seq(Nat)
          BY <1>s, <2>2, <2>3
        <4> QED BY <4>1, ConcatAssociative
      <3> QED BY <3>1, <3>2
    <2>6. toOutbound' \in Seq(Nat) BY <1>s, <2>4, <2>5, ConcatProperties
    <2>7. TypeInv' BY <1>0, <1>2, <1>i, <2>6 DEF TypeInv, TypeOK
    <2>8. UpstreamInv'
      <3>1. count = 4 /\ sent["upstream"] = 0 /\ sent'["upstream"] = 0
        BY <1>2, <1>i, <2>1 DEF UpstreamInv
      <3>2. toOutbound = <<>> \/ (toOutbound # <<>> /\ toOutbound[1] # 5)
        BY <1>2, <1>i, <2>1 DEF UpstreamInv
      <3>3. UpstreamData' = <<>>
        <4>1. 60 \in Nat /\ 0 \in Nat OBVIOUS
        <4>2. Data(60, 0) = <<>> BY <4>1, DataSeq
        <4> QED BY <3>1, <4>2 DEF UpstreamData
      <3>4. CASE toOutbound = <<>>
        <4>1. toOutbound' = h \o address BY <2>4, <2>5, <3>4, ConcatEmptySeq
        <4>2. CASE reply = 0
          <5>1. toOutbound' = Accepted(address) \o UpstreamData'
            <6>1. (h \o address) \o <<>> = h \o address BY <2>4, ConcatEmptySeq
            <6>2. h = <<5, 0, 0>> BY <4>2 DEF h
            <6> QED BY <3>3, <4>1, <6>1, <6>2 DEF Accepted
          <5>2. upstream' = "data" BY <1>2, <4>2
          <5> QED BY <1>0, <2>1, <3>1, <5>1, <5>2 DEF UpstreamInv, BeforeConnect, Accepted, BoundAddress
        <4>3. CASE reply = 5
          <5>1. upstream' = "refused" BY <1>2, <4>3
          <5>2. Len(toOutbound') >= 2 /\ toOutbound'[2] # 0 BY <2>4, <4>1, <4>3
          <5> QED BY <1>0, <2>1, <3>1, <5>1, <5>2 DEF UpstreamInv, BeforeConnect
        <4> QED BY <4>2, <4>3
      <3>5. CASE toOutbound # <<>> /\ toOutbound[1] # 5
        <4>1. toOutbound' # <<>> /\ toOutbound'[1] # 5 BY <1>b, <2>4, <2>5, <3>5
        <4> QED BY <1>0, <2>1, <3>1, <4>1 DEF UpstreamInv, BeforeConnect
      <3> QED BY <3>2, <3>4, <3>5
    <2>9. RequestInv' /\ TargetInv' BY <1>2, <1>22
    <2>10. RelayInv' BY <1>0, <2>1 DEF RelayInv
    <2> QED BY <1>a, <1>c, <2>7, <2>8, <2>9, <2>10 DEF IInv
  <1>3. ASSUME upstream = "data", sent["upstream"] < MaxData,
               sent' = [sent EXCEPT !["upstream"] = @ + 1],
               toOutbound' = Append(toOutbound, 60 + sent'["upstream"]),
               UNCHANGED upstream
        PROVE  IInv'
    <2> DEFINE e == 60 + sent'["upstream"]
    <2>1. /\ sent' \in [Peer -> 0 .. MaxData] /\ sent'["client"] = sent["client"]
          /\ e \in Nat /\ UpstreamData' = Append(UpstreamData, e)
      <3>1. "client" \in Peer /\ "upstream" \in Peer BY DEF Peer
      <3>2. 60 \in Nat OBVIOUS
      <3>3. e \in Nat /\ Data(60, sent'["upstream"]) = Append(Data(60, sent["upstream"]), e)
        BY <1>3, <1>i, <3>1, <3>2, PayloadSent
      <3>4. sent' \in [Peer -> 0 .. MaxData] /\ sent'["client"] = sent["client"]
        BY <1>3, <1>i, <3>1, PayloadSent
      <3> QED BY <3>3, <3>4 DEF UpstreamData
    <2> HIDE DEF e
    <2>2. /\ toOutbound' = Append(toOutbound, e) /\ toOutbound' = toOutbound \o <<e>>
          /\ toOutbound' \in Seq(Nat) /\ <<e>> \in Seq(Nat)
      <3>1. toOutbound' = Append(toOutbound, e) BY <1>3 DEF e
      <3>2. Append(toOutbound, e) \in Seq(Nat) /\ <<e>> \in Seq(Nat)
        BY <1>s, <2>1, AppendProperties
      <3>3. Append(toOutbound, e) = toOutbound \o <<e>> BY <1>s, <2>1, AppendIsConcat
      <3> QED BY <3>1, <3>2, <3>3
    <2>3. ASSUME NEW before \in Seq(Nat), toOutbound = before \o UpstreamData
          PROVE  toOutbound' = before \o UpstreamData'
      <3>1. before \o Append(UpstreamData, e) = Append(before \o UpstreamData, e)
        BY <1>s, <2>1, OctetSent
      <3> QED BY <2>1, <2>2, <2>3, <3>1
    <2>4. TypeInv' BY <1>0, <1>i, <1>3, <2>1, <2>2 DEF TypeInv, TypeOK
    <2>5. RequestInv' /\ TargetInv' /\ ClientData' = ClientData BY <2>1, <1>22
    <2>6. handler \in {"reply", "reply length", "reply rest", "relay"}
      BY <1>0, <1>3, <1>i DEF UpstreamInv, TypeInv, TypeOK, BeforeConnect
    <2>7. UpstreamInv'
      <3>1. CASE handler = "reply"
        <4>1. count = 4 BY <1>i, <3>1 DEF UpstreamInv
        <4>2. CASE \E a \in BoundAddress : toOutbound = Accepted(a) \o UpstreamData
          <5>1. PICK a \in BoundAddress : toOutbound = Accepted(a) \o UpstreamData BY <4>2
          <5>2. Accepted(a) \in Seq(Nat)
            <6>1. a \in Seq(Nat) /\ <<5, 0, 0>> \in Seq(Nat) BY Addresses
            <6> QED BY <6>1, ConcatProperties DEF Accepted
          <5>3. toOutbound' = Accepted(a) \o UpstreamData' BY <2>3, <5>1, <5>2
          <5>4. upstream' = "data" BY <1>3
          <5> QED BY <1>0, <3>1, <4>1, <5>3, <5>4 DEF UpstreamInv, BeforeConnect, Accepted, BoundAddress
        <4>3. CASE toOutbound # <<>> /\ toOutbound[1] # 5
          <5>1. toOutbound' # <<>> /\ toOutbound'[1] # 5 BY <1>b, <2>2, <4>3
          <5> QED BY <1>0, <1>3, <3>1, <4>1, <5>1 DEF UpstreamInv, BeforeConnect
        <4> QED BY <1>3, <1>i, <3>1, <4>2, <4>3 DEF UpstreamInv
      <3>2. CASE handler = "reply length"
        <4>1. count = 1 BY <1>i, <3>2 DEF UpstreamInv
        <4>2. PICK a \in BoundAddress : a[1] = 3 /\ toOutbound = Rest(a, 1) \o UpstreamData
          BY <1>i, <3>2 DEF UpstreamInv
        <4>3. Rest(a, 1) \in Seq(Nat)
          <5>1. a \in Seq(Nat) /\ 1 =< Len(a) BY <4>2, Addresses
          <5> QED BY <5>1, RestSeq
        <4>4. toOutbound' = Rest(a, 1) \o UpstreamData' BY <2>3, <4>2, <4>3
        <4> QED BY <1>0, <1>3, <3>2, <4>1, <4>2, <4>4 DEF UpstreamInv, BeforeConnect
      <3>3. CASE handler = "reply rest"
        <4>1. PICK a \in BoundAddress, i \in 1 .. 2 :
                 Len(a) = i + count /\ toOutbound = Rest(a, i) \o UpstreamData
          BY <1>i, <3>3 DEF UpstreamInv
        <4>2. Rest(a, i) \in Seq(Nat)
          <5> DEFINE n == Len(a)
          <5>1. a \in Seq(Nat) /\ (n = 3 \/ n = 4) BY Addresses
          <5> HIDE DEF n
          <5>2. n = 3 \/ n = 4 BY <5>1
          <5>3. i \in Nat /\ (i = 1 \/ i = 2) OBVIOUS
          <5>4. i =< n BY <5>2, <5>3
          <5>5. i =< Len(a) BY <5>4 DEF n
          <5> QED BY <5>1, <5>3, <5>5, RestSeq
        <4>3. toOutbound' = Rest(a, i) \o UpstreamData' BY <2>3, <4>1, <4>2
        <4> QED BY <1>0, <1>3, <3>3, <4>1, <4>3 DEF UpstreamInv, BeforeConnect
      <3>4. CASE handler = "relay"
        BY <1>0, <1>3, <3>4 DEF UpstreamInv, BeforeConnect
      <3> QED BY <2>6, <3>1, <3>2, <3>3, <3>4
    <2>8. RelayInv'
      <3>1. SUFFICES ASSUME handler = "relay" PROVE RelayInv' BY <1>0 DEF RelayInv
      <3>2. PICK k : /\ Stands(k) /\ Len(toUpstream) >= Len(Connecting(k))
                     /\ toUpstream \o toInbound = Connecting(k) \o ClientData
        BY <1>i, <3>1 DEF RelayInv
      <3>3. Stands(k)' /\ Connecting(k)' = Connecting(k) BY <1>21, <3>2
      <3>4. PICK stray \in Strays : toClient \o toOutbound = Established \o (stray \o UpstreamData)
        BY <1>i, <3>1 DEF RelayInv
      <3>5. toClient' \o toOutbound' = Established' \o (stray \o UpstreamData')
        <4>1. stray \in Seq(Nat) /\ Established \in Seq(Nat)
          BY <1>i, StrayStreams, Streams DEF TypeInv, TypeOK
        <4>2. stray \o UpstreamData \in Seq(Nat) BY <1>s, <4>1, ConcatProperties
        <4>3. stray \o Append(UpstreamData, e) = Append(stray \o UpstreamData, e)
          BY <1>s, <2>1, <4>1, OctetSent
        <4>4. Established \o Append(stray \o UpstreamData, e)
                 = Append(Established \o (stray \o UpstreamData), e)
          BY <2>1, <4>1, <4>2, OctetSent
        <4>5. toClient \o Append(toOutbound, e) = Append(toClient \o toOutbound, e)
          BY <1>s, <2>1, OctetSent
        <4> QED BY <1>0, <1>w, <2>1, <2>2, <3>4, <4>3, <4>4, <4>5
      <3>6. client = "data" /\ Len(toClient) >= Len(Established) BY <1>i, <3>1 DEF RelayInv
      <3> QED BY <1>0, <1>w, <2>5, <3>2, <3>3, <3>4, <3>5, <3>6 DEF RelayInv
    <2> QED BY <1>a, <1>c, <2>4, <2>5, <2>7, <2>8 DEF IInv
  <1> QED BY <1>1, <1>2, <1>3 DEF UpstreamSends

-----------------------------------------------------------------------------
(* The theorems *)

(* Every step of the connection keeps the inductive invariant.             *)
LEMMA NextInv ==
    ASSUME IInv, [Next]_vars
    PROVE  IInv'
  <1>1. CASE Handler
    BY <1>1, InboundInv, OutboundInv, RelayUpInv, RelayDownInv, EndRelayInv DEF Handler, Relay
  <1>2. CASE ClientSends BY <1>2, ClientSendsInv
  <1>3. CASE UpstreamSends BY <1>3, UpstreamSendsInv
  <1>l. left \in SUBSET Peer BY DEF IInv, TypeInv, TypeOK
  <1>4. ASSUME NEW p \in Peer, Leave(p) PROVE IInv'
    <2>1. left' \in SUBSET Peer BY <1>l, <1>4 DEF Leave
    <2> QED BY <1>4, <2>1, LeavingKeeps DEF Leave
  <1>5. CASE UNCHANGED vars BY <1>5, <1>l, LeavingKeeps DEF vars
  <1> QED BY <1>1, <1>2, <1>3, <1>4, <1>5 DEF Next

(* At every moment the streams between the server and its peers are what   *)
(* the stage of the two handshakes says they are, and nothing else.        *)
THEOREM Invariant == Spec => []IInv
  <1>1. Init => IInv BY InitInv
  <1>2. IInv /\ [Next]_vars => IInv' BY NextInv
  <1> QED BY <1>1, <1>2, PTL DEF Spec

(* The connection's state has the types the handlers rely on: what is read *)
(* from a connection is octets, a stage that reads a number of octets reads*)
(* at least one, and the address of the target is one that was parsed.     *)
THEOREM TypeCorrect == Spec => []TypeOK
  <1>1. IInv => TypeOK BY DEF IInv, TypeInv
  <1> QED BY <1>1, Invariant, PTL

(* The upstream is asked for the host the client asked for, and given what *)
(* the client sent after its request, octet by octet, whatever pieces the  *)
(* messages arrive in (SOCKS5Inbound.handleSOCKS5, SOCKS5Outbound.Dial).   *)
THEOREM SameTargetAsked == Spec => []SameTarget
  <1>1. IInv => SameTarget BY Promises
  <1> QED BY <1>1, Invariant, PTL

(* The server relays only what the upstream has accepted: no short read of *)
(* its answers makes a refusal pass (SOCKS5Outbound.Dial).                 *)
THEOREM AcceptedBeforeRelay == Spec => []RelayedIsAccepted
  <1>1. IInv => RelayedIsAccepted BY Promises
  <1> QED BY <1>1, Invariant, PTL

(* What a client is given is the method, one reply and the payload of the  *)
(* upstream in order, with nothing in between but the end of a reply that  *)
(* a short read left behind (SOCKS5Outbound.Dial, the relay).              *)
THEOREM ClientStreamInOrder == Spec => []ClientStream
  <1>1. IInv => ClientStream BY Promises
  <1> QED BY <1>1, Invariant, PTL

=============================================================================
