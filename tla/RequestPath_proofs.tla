-------------------------- MODULE RequestPath_proofs ---------------------------
(***************************************************************************)
(* For every set of applications, frames and foreign bytes, and every way  *)
(* the channel cuts them: frames come out as they went in, and the helper  *)
(* connects to the target that was dialled. For every application, and     *)
(* every way its socket cuts what it writes: it is served according to the *)
(* request its bytes begin with, and the upstream gets the bytes behind.   *)
(* For every allow list that can be read: it lets through what the         *)
(* documentation of its rules says.                                        *)
(***************************************************************************)
EXTENDS RequestPath, SequenceTheorems, WellFoundedInduction, TLAPS

-----------------------------------------------------------------------------
(* Sequences of bytes.                                                     *)

\* A concatenation holds its two parts.
LEMMA Joins ==
  ASSUME NEW a \in Seq(Nat), NEW b \in Seq(Nat)
  PROVE  /\ a \o b \in Seq(Nat) /\ Len(a \o b) = Len(a) + Len(b)
         /\ Len(a) \in Nat /\ Len(b) \in Nat
         /\ \A i \in 1 .. Len(a) : (a \o b)[i] = a[i]
         /\ \A i \in 1 .. Len(b) : (a \o b)[Len(a) + i] = b[i]
<1>1. Len(a) \in Nat /\ Len(b) \in Nat /\ a \o b \in Seq(Nat) /\ Len(a \o b) = Len(a) + Len(b)
  BY ConcatProperties, LenProperties
<1>2. \A i \in 1 .. Len(a) + Len(b) : (a \o b)[i] = IF i <= Len(a) THEN a[i] ELSE b[i - Len(a)]
  BY ConcatProperties
<1>3. ASSUME NEW i \in 1 .. Len(a) PROVE (a \o b)[i] = a[i]
  BY <1>1, <1>2
<1>4. ASSUME NEW i \in 1 .. Len(b) PROVE (a \o b)[Len(a) + i] = b[i]
  <2>1. Len(a) + i \in 1 .. Len(a) + Len(b) /\ ~(Len(a) + i <= Len(a)) /\ Len(a) + i - Len(a) = i
    BY <1>1
  <2> QED
    BY <1>2, <2>1
<1> QED
  BY <1>1, <1>3, <1>4

\* The length of a concatenation.
LEMMA JoinedLen ==
  ASSUME NEW a \in Seq(Nat), NEW b \in Seq(Nat)
  PROVE  a \o b \in Seq(Nat) /\ Len(a \o b) = Len(a) + Len(b)
BY Joins

\* What SubSeq cuts out.
LEMMA Cuts ==
  ASSUME NEW s \in Seq(Nat), NEW m \in Nat \ {0}, NEW n \in Nat, n <= Len(s), m <= n + 1
  PROVE  /\ SubSeq(s, m, n) \in Seq(Nat) /\ Len(SubSeq(s, m, n)) = n - m + 1
         /\ \A i \in 1 .. n - m + 1 : SubSeq(s, m, n)[i] = s[m + i - 1]
<1>1. \A i \in m .. n : s[i] \in Nat
  <2>1. Len(s) \in Nat /\ \A i \in 1 .. Len(s) : s[i] \in Nat
    BY LenProperties, ElementOfSeq
  <2> QED
    BY <2>1
<1> QED
  BY <1>1, SubSeqProperties

\* A sequence is its first k members and the others.
LEMMA CutInTwo ==
  ASSUME NEW s \in Seq(Nat), NEW k \in 0 .. Len(s)
  PROVE  /\ SubSeq(s, 1, k) \in Seq(Nat) /\ SubSeq(s, k + 1, Len(s)) \in Seq(Nat)
         /\ SubSeq(s, 1, k) \o SubSeq(s, k + 1, Len(s)) = s
<1>1. Len(s) \in Nat /\ k \in Nat /\ k <= Len(s)
  BY LenProperties
<1>2. SubSeq(s, 1, k) \in Seq(Nat) /\ SubSeq(s, k + 1, Len(s)) \in Seq(Nat)
  BY <1>1, Cuts
<1>3. SubSeq(s, 1, k) \o SubSeq(s, k + 1, Len(s)) = SubSeq(s, 1, Len(s))
  <2>1. 1 \in 1 .. Len(s) + 1 /\ k \in 1 - 1 .. Len(s) /\ Len(s) \in k .. Len(s)
    BY <1>1
  <2> QED
    BY <2>1, ConcatAdjacentSubSeq
<1>4. SubSeq(s, 1, Len(s)) = s
  <2>1. /\ SubSeq(s, 1, Len(s)) \in Seq(Nat) /\ Len(SubSeq(s, 1, Len(s))) = Len(s)
        /\ \A i \in 1 .. Len(s) : SubSeq(s, 1, Len(s))[i] = s[i]
    BY <1>1, Cuts
  <2> QED
    BY <2>1, SeqEqual
<1> QED
  BY <1>2, <1>3, <1>4

\* Concatenation is associative.
LEMMA Regroups ==
  ASSUME NEW a \in Seq(Nat), NEW b \in Seq(Nat), NEW c \in Seq(Nat)
  PROVE  a \o b \o c = a \o (b \o c)
BY ConcatAssociative

\* Sequences of the same bytes are equal.
LEMMA SameBytes ==
  ASSUME NEW a \in Seq(Nat), NEW b \in Seq(Nat), Len(a) = Len(b),
         \A i \in 1 .. Len(a) : a[i] = b[i]
  PROVE  a = b
BY SeqEqual

\* s is a, then b, then c.
InParts(s, a, b, c) ==
  /\ SubSeq(s, Len(a) + 1, Len(a) + Len(b)) = b
  /\ SubSeq(s, Len(a) + Len(b) + 1, Len(s)) = c
  /\ s \in Seq(Nat)
  /\ Len(s) = Len(a) + Len(b) + Len(c)
  /\ Len(a) \in Nat /\ Len(b) \in Nat /\ Len(c) \in Nat
  /\ \A i \in 1 .. Len(a) : s[i] = a[i]
  /\ \A i \in 1 .. Len(c) : s[Len(a) + Len(b) + i] = c[i]

\* A concatenation of three is cut back into them.
LEMMA Parts ==
  ASSUME NEW a \in Seq(Nat), NEW b \in Seq(Nat), NEW c \in Seq(Nat)
  PROVE  InParts(a \o b \o c, a, b, c)
<1> DEFINE ab == a \o b
           s == ab \o c
<1>1. /\ ab \in Seq(Nat) /\ Len(ab) = Len(a) + Len(b) /\ Len(a) \in Nat /\ Len(b) \in Nat /\ Len(c) \in Nat
      /\ \A i \in 1 .. Len(a) : ab[i] = a[i]
      /\ \A i \in 1 .. Len(b) : ab[Len(a) + i] = b[i]
  BY Joins
<1> HIDE DEF ab
<1>2. /\ s \in Seq(Nat) /\ Len(s) = Len(a) + Len(b) + Len(c)
      /\ \A i \in 1 .. Len(ab) : s[i] = ab[i]
      /\ \A i \in 1 .. Len(c) : s[Len(ab) + i] = c[i]
  <2>1. ab \in Seq(Nat) /\ Len(ab) = Len(a) + Len(b)
    BY <1>1
  <2>2. /\ s \in Seq(Nat) /\ Len(s) = Len(ab) + Len(c)
        /\ \A i \in 1 .. Len(ab) : s[i] = ab[i]
        /\ \A i \in 1 .. Len(c) : s[Len(ab) + i] = c[i]
    BY <2>1, Joins
  <2> QED
    BY <2>1, <2>2
<1> HIDE DEF s
<1>3. SubSeq(s, Len(a) + 1, Len(a) + Len(b)) = b
  <2> DEFINE t == SubSeq(s, Len(a) + 1, Len(a) + Len(b))
  <2>1. t \in Seq(Nat) /\ Len(t) = Len(b) /\ \A i \in 1 .. Len(b) : t[i] = s[Len(a) + i]
    <3>1. Len(a) + 1 \in Nat \ {0} /\ Len(a) + Len(b) \in Nat /\ Len(a) + Len(b) <= Len(s)
          /\ Len(a) + 1 <= Len(a) + Len(b) + 1 /\ s \in Seq(Nat)
      <4>1. /\ Len(a) \in Nat /\ Len(b) \in Nat /\ Len(c) \in Nat /\ s \in Seq(Nat)
            /\ Len(s) = Len(a) + Len(b) + Len(c)
        BY <1>1, <1>2
      <4> QED
        BY <4>1
    <3>2. /\ t \in Seq(Nat) /\ Len(t) = Len(a) + Len(b) - (Len(a) + 1) + 1
          /\ \A i \in 1 .. Len(a) + Len(b) - (Len(a) + 1) + 1 : t[i] = s[Len(a) + 1 + i - 1]
      <4> DEFINE m == Len(a) + 1
                 n == Len(a) + Len(b)
      <4>1. m \in Nat \ {0} /\ n \in Nat /\ n <= Len(s) /\ m <= n + 1 /\ s \in Seq(Nat)
        BY <3>1
      <4> HIDE DEF m, n
      <4>2. /\ SubSeq(s, m, n) \in Seq(Nat) /\ Len(SubSeq(s, m, n)) = n - m + 1
            /\ \A i \in 1 .. n - m + 1 : SubSeq(s, m, n)[i] = s[m + i - 1]
        BY <4>1, Cuts
      <4> QED
        BY <4>2 DEF m, n, t
    <3> HIDE DEF t
    <3>3. Len(a) + Len(b) - (Len(a) + 1) + 1 = Len(b) /\ \A i \in Int : Len(a) + 1 + i - 1 = Len(a) + i
      BY <1>1
    <3> QED
      BY <3>2, <3>3
  <2> HIDE DEF t
  <2>2. ASSUME NEW i \in 1 .. Len(b) PROVE t[i] = b[i]
    <3>1. Len(a) + i \in 1 .. Len(ab)
      BY <1>1
    <3>2. s[Len(a) + i] = ab[Len(a) + i] /\ ab[Len(a) + i] = b[i]
      BY <1>1, <1>2, <3>1
    <3> QED
      BY <2>1, <3>2
  <2>3. t = b
    BY <2>1, <2>2, SameBytes
  <2> QED
    BY <2>3 DEF t
<1>4. SubSeq(s, Len(a) + Len(b) + 1, Len(s)) = c
  <2> DEFINE t == SubSeq(s, Len(ab) + 1, Len(s))
  <2>1. t \in Seq(Nat) /\ Len(t) = Len(c) /\ \A i \in 1 .. Len(c) : t[i] = s[Len(ab) + i]
    <3>1. Len(ab) + 1 \in Nat \ {0} /\ Len(s) \in Nat /\ Len(s) <= Len(s) /\ Len(ab) + 1 <= Len(s) + 1
      BY <1>1, <1>2
    <3>2. /\ t \in Seq(Nat) /\ Len(t) = Len(s) - (Len(ab) + 1) + 1
          /\ \A i \in 1 .. Len(s) - (Len(ab) + 1) + 1 : t[i] = s[Len(ab) + 1 + i - 1]
      BY <1>2, <3>1, Cuts
    <3> HIDE DEF t
    <3>3. Len(s) = Len(ab) + Len(c) /\ Len(ab) \in Nat
      BY <1>1, <1>2
    <3>4. Len(s) - (Len(ab) + 1) + 1 = Len(c) /\ \A i \in Int : Len(ab) + 1 + i - 1 = Len(ab) + i
      BY <1>1, <3>3
    <3>5. ASSUME NEW i \in 1 .. Len(c) PROVE t[i] = s[Len(ab) + i]
      <4>1. i \in 1 .. Len(s) - (Len(ab) + 1) + 1 /\ Len(ab) + 1 + i - 1 = Len(ab) + i
        BY <1>1, <3>4
      <4> QED
        BY <3>2, <4>1
    <3> QED
      BY <3>2, <3>4, <3>5
  <2> HIDE DEF t
  <2>2. t = c
    <3>1. \A i \in 1 .. Len(t) : t[i] = c[i]
      BY <1>2, <2>1
    <3> QED
      BY <2>1, <3>1, SameBytes
  <2>3. Len(a) + Len(b) + 1 = Len(ab) + 1
    BY <1>1
  <2> QED
    BY <2>2, <2>3 DEF t
<1>5. \A i \in 1 .. Len(a) : s[i] = a[i]
  BY <1>1, <1>2
<1>6. \A i \in 1 .. Len(c) : s[Len(a) + Len(b) + i] = c[i]
  BY <1>1, <1>2
<1>7. InParts(s, a, b, c)
  BY <1>1, <1>2, <1>3, <1>4, <1>5, <1>6 DEF InParts
<1> QED
  BY <1>7 DEF s, ab

\* Two single bytes make a pair.
LEMMA Pair ==
  ASSUME NEW x \in Nat, NEW y \in Nat
  PROVE  <<x>> \o <<y>> = <<x, y>>
<1>1. /\ <<x>> \in Seq(Nat) /\ <<y>> \in Seq(Nat) /\ <<x, y>> \in Seq(Nat)
      /\ Len(<<x>>) = 1 /\ Len(<<y>>) = 1 /\ Len(<<x, y>>) = 2
  OBVIOUS
<1> DEFINE xy == <<x>> \o <<y>>
<1>2. /\ xy \in Seq(Nat) /\ Len(xy) = 2
      /\ xy[1] = x /\ xy[2] = y
  BY <1>1, ConcatProperties
<1> HIDE DEF xy
<1>3. xy = <<x, y>>
  BY <1>1, <1>2, SeqEqual
<1> QED
  BY <1>3 DEF xy

\* s begins with a, and b is the rest of s and w.
BeginsWith(s, w, a, b) == \E r \in Seq(Nat) : s = a \o r /\ b = r \o w

\* Of a sequence that begins with a and goes on with b, a beginning that is as
\* long as a begins with a as well.
LEMMA Begins ==
  ASSUME NEW a \in Seq(Nat), NEW b \in Seq(Nat), NEW s \in Seq(Nat), NEW w \in Seq(Nat),
         s \o w = a \o b, Len(a) <= Len(s)
  PROVE  BeginsWith(s, w, a, b)
<1> DEFINE r == SubSeq(s, Len(a) + 1, Len(s))
           front == SubSeq(s, 1, Len(a))
<1>1. /\ Len(a) \in Nat /\ Len(s) \in Nat /\ Len(b) \in Nat
      /\ s \o w \in Seq(Nat) /\ a \o b \in Seq(Nat)
      /\ \A i \in 1 .. Len(s) : (s \o w)[i] = s[i]
      /\ \A i \in 1 .. Len(a) : (a \o b)[i] = a[i]
  BY Joins
<1>2. r \in Seq(Nat) /\ front \in Seq(Nat) /\ Len(front) = Len(a)
      /\ \A i \in 1 .. Len(a) : front[i] = s[i]
  <2>1. r \in Seq(Nat)
    BY <1>1, Cuts
  <2>2. /\ front \in Seq(Nat) /\ Len(front) = Len(a) - 1 + 1
        /\ \A i \in 1 .. Len(a) - 1 + 1 : front[i] = s[1 + i - 1]
    BY <1>1, Cuts
  <2> HIDE DEF front
  <2>3. Len(a) - 1 + 1 = Len(a) /\ \A i \in Int : 1 + i - 1 = i
    BY <1>1
  <2>4. ASSUME NEW i \in 1 .. Len(a) PROVE front[i] = s[i]
    <3>1. i \in 1 .. Len(a) - 1 + 1 /\ 1 + i - 1 = i
      BY <2>3
    <3> QED
      BY <2>2, <3>1
  <2> QED
    BY <2>1, <2>2, <2>3, <2>4
<1>3. front = a
  <2> HIDE DEF front
  <2>1. ASSUME NEW i \in 1 .. Len(a) PROVE front[i] = a[i]
    <3>1. i \in 1 .. Len(s)
      BY <1>1
    <3> QED
      BY <1>1, <1>2, <3>1
  <2> QED
    BY <1>2, <2>1, SameBytes
<1>4. s = front \o r
  <2>1. /\ 1 \in 1 .. Len(s) + 1 /\ Len(a) \in 1 - 1 .. Len(s) /\ Len(s) \in Len(a) .. Len(s)
    BY <1>1
  <2>2. SubSeq(s, 1, Len(a)) \o SubSeq(s, Len(a) + 1, Len(s)) = SubSeq(s, 1, Len(s))
    BY <2>1, ConcatAdjacentSubSeq
  <2> QED
    BY <2>2, SubSeqFull
<1> HIDE DEF r, front
<1>5. a \o (r \o w) = a \o b
  <2>1. s = a \o r
    BY <1>3, <1>4
  <2>2. (a \o r) \o w = a \o (r \o w)
    <3>1. a \in Seq(Nat) /\ r \in Seq(Nat) /\ w \in Seq(Nat)
      BY <1>2
    <3> QED
      BY <3>1, Regroups
  <2> QED
    BY <2>1, <2>2
<1>6. r \o w = b
  <2>1. r \o w \in Seq(Nat)
    BY <1>2, Joins
  <2> QED
    BY <1>5, <2>1, ConcatSimplifications
<1> QED
  BY <1>2, <1>3, <1>4, <1>6 DEF BeginsWith

\* A sequence that begins a longer one is a SubSeq of it.
LEMMA Beginning ==
  ASSUME NEW s \in Seq(Nat), NEW w \in Seq(Nat)
  PROVE  s = SubSeq(s \o w, 1, Len(s)) /\ Len(s) \in 0 .. Len(s \o w)
<1> DEFINE e == <<>>
<1>1. e \in Seq(Nat) /\ Len(e) = 0 /\ e \o s = s
  BY EmptySeq, ConcatEmptySeq
<1> HIDE DEF e
<1>2. InParts(e \o s \o w, e, s, w)
  BY <1>1, Parts
<1>3. Len(s) \in Nat /\ Len(w) \in Nat /\ Len(e) + 1 = 1 /\ Len(e) + Len(s) = Len(s)
  BY <1>1, LenProperties
<1> QED
  BY <1>1, <1>2, <1>3 DEF InParts

-----------------------------------------------------------------------------
(* Addresses and frames are read back as they were written.                *)

\* A length below LenMod is written as it is.
LEMMA SmallRemainder ==
  ASSUME NEW m \in Nat, NEW n \in Nat, n < m
  PROVE  n % m = n
OBVIOUS

\* Take finds the host and the port behind a.
TakesBack(src, a, host, port) ==
  Take(src, Len(a), Len(host)) = [kind |-> a[1], host |-> host, port |-> port]

\* Take reads a host and a port that encode wrote.
LEMMA TakenBack ==
  ASSUME NEW a \in Seq(Nat), NEW host \in Seq(Nat), NEW port \in Nat, Len(a) >= 1,
         a[1] = KIND_DOMAIN => host # <<>> /\ NotUtf8 \notin Range(host)
  PROVE  TakesBack(a \o host \o <<port>>, a, host, port)
<1> DEFINE c == <<port>>
           src == a \o host \o c
<1>1. c \in Seq(Nat) /\ Len(c) = 1 /\ c[1] = port
  OBVIOUS
<1> HIDE DEF c
<1>2. InParts(src, a, host, c)
  BY <1>1, Parts
<1> HIDE DEF src
<1>3. /\ src[1] = a[1] /\ ~(Len(src) < Len(a) + Len(host) + 1)
      /\ src[Len(a) + Len(host) + 1] = port
      /\ SubSeq(src, Len(a) + 1, Len(a) + Len(host)) = host
  BY <1>1, <1>2 DEF InParts
<1>4. TakesBack(src, a, host, port)
  BY <1>3 DEF Take, TakesBack
<1> QED
  BY <1>4 DEF src, c

\* decode undoes encode: an address that may be sent arrives as it was.
LEMMA AddressSurvives ==
  ASSUME NEW addr, Encodable(addr)
  PROVE  encode(addr) \in Seq(Nat) /\ decode(encode(addr)) = addr
<1> DEFINE h == addr.host
           p == addr.port
<1>1. /\ addr = [kind |-> addr.kind, host |-> h, port |-> p]
      /\ h \in Seq(Nat) /\ p \in Nat
      /\ <<p>> \in Seq(Nat) /\ V4_LEN \in Nat /\ V6_LEN \in Nat /\ LenMod \in Nat
  BY AddrAssumption DEF Encodable
<1>2. /\ encode(addr) = <<addr.kind>> \o (IF addr.kind = KIND_DOMAIN THEN <<Len(h) % LenMod>> ELSE <<>>)
                          \o h \o <<p>>
      /\ \/ addr.kind = KIND_V4 /\ Len(h) = V4_LEN
         \/ addr.kind = KIND_V6 /\ Len(h) = V6_LEN
         \/ addr.kind = KIND_DOMAIN /\ Len(h) \in 1 .. LenMod - 1 /\ NotUtf8 \notin Range(h)
  BY DEF encode, Encodable
<1> HIDE DEF h, p
<1>3. CASE addr.kind \in {KIND_V4, KIND_V6}
  <2> DEFINE a == <<addr.kind>>
  <2>1. a \in Seq(Nat) /\ Len(a) = 1 /\ a[1] = addr.kind /\ addr.kind # KIND_DOMAIN
    BY <1>3 DEF KIND_V4, KIND_V6, KIND_DOMAIN
  <2>2. encode(addr) = a \o h \o <<p>>
    <3>1. a \o <<>> = a
      BY <2>1, ConcatEmptySeq
    <3>2. encode(addr) = a \o <<>> \o h \o <<p>>
      BY <1>2, <2>1
    <3> QED
      BY <3>1, <3>2
  <2> HIDE DEF a
  <2>3. TakesBack(a \o h \o <<p>>, a, h, p)
    BY <1>1, <2>1, TakenBack
  <2>4. Take(encode(addr), 1, Len(h)) = addr
    BY <1>1, <2>1, <2>2, <2>3 DEF TakesBack
  <2>5. InParts(a \o h \o <<p>>, a, h, <<p>>)
    BY <1>1, <2>1, Parts
  <2>6. /\ encode(addr) \in Seq(Nat) /\ Len(encode(addr)) >= 1
        /\ encode(addr)[1] = addr.kind
    BY <2>1, <2>2, <2>5 DEF InParts
  <2>7. encode(addr) # <<>>
    BY <2>6
  <2>8. Len(h) = IF addr.kind = KIND_V4 THEN V4_LEN ELSE V6_LEN
    BY <1>2, <1>3 DEF KIND_V4, KIND_V6, KIND_DOMAIN
  <2> HIDE DEF Take
  <2>9. CASE addr.kind = KIND_V4
    BY <2>4, <2>6, <2>7, <2>8, <2>9 DEF decode, KIND_V4, KIND_V6, KIND_DOMAIN
  <2>10. CASE addr.kind = KIND_V6
    BY <2>4, <2>6, <2>7, <2>8, <2>10 DEF decode, KIND_V4, KIND_V6, KIND_DOMAIN
  <2> QED
    BY <1>3, <2>6, <2>9, <2>10
<1>4. CASE addr.kind = KIND_DOMAIN
  <2> DEFINE a == <<addr.kind, Len(h)>>
  <2>1. /\ Len(h) \in 1 .. LenMod - 1 /\ NotUtf8 \notin Range(h)
        /\ h # <<>> /\ addr.kind \in Nat /\ Len(h) \in Nat
    <3>1. Len(h) \in 1 .. LenMod - 1 /\ NotUtf8 \notin Range(h)
      BY <1>2, <1>4 DEF KIND_V4, KIND_V6, KIND_DOMAIN
    <3>2. h # <<>>
      BY <3>1, EmptySeq
    <3> QED
      BY <1>1, <1>4, <3>1, <3>2 DEF KIND_DOMAIN
  <2>2. a \in Seq(Nat) /\ Len(a) = 2 /\ a[1] = addr.kind /\ a[2] = Len(h)
    BY <2>1
  <2>3. encode(addr) = a \o h \o <<p>>
    <3>1. <<addr.kind>> \o <<Len(h)>> = a
      BY <2>1, Pair
    <3>2. Len(h) % LenMod = Len(h)
      <4>1. Len(h) < LenMod
        BY <1>1, <2>1
      <4> QED
        BY <1>1, <2>1, <4>1, SmallRemainder
    <3>3. encode(addr) = <<addr.kind>> \o <<Len(h)>> \o h \o <<p>>
      BY <1>2, <1>4, <3>2
    <3> QED
      BY <3>1, <3>3
  <2> HIDE DEF a
  <2>4. TakesBack(a \o h \o <<p>>, a, h, p)
    <3>1. Len(a) >= 1 /\ (a[1] = KIND_DOMAIN => h # <<>> /\ NotUtf8 \notin Range(h))
      BY <2>1, <2>2
    <3> QED
      BY <1>1, <2>2, <3>1, TakenBack
  <2>5. Take(encode(addr), 2, Len(h)) = addr
    BY <1>1, <2>2, <2>3, <2>4 DEF TakesBack
  <2>6. InParts(a \o h \o <<p>>, a, h, <<p>>)
    BY <1>1, <2>2, Parts
  <2>7. /\ encode(addr) \in Seq(Nat) /\ Len(encode(addr)) >= 2
        /\ encode(addr)[1] = addr.kind /\ encode(addr)[2] = Len(h)
    BY <2>2, <2>3, <2>6 DEF InParts
  <2>8. encode(addr) # <<>>
    BY <2>7
  <2> QED
    BY <1>4, <2>5, <2>7, <2>8 DEF decode, KIND_V4, KIND_V6, KIND_DOMAIN
<1> QED
  BY <1>2, <1>3, <1>4

\* A payload is read as the fields it was made of.
ReadsBack(f) ==
  LET fields == Fields(f.ty, Body(f))
  IN  ~IsError(fields) /\ Framed(f.ty, f.stream, fields) = Carried(f)

\* The body of an Open is read back.
LEMMA OpenReads ==
  ASSUME NEW f, f = Open(f.stream, f.addr), Encodable(f.addr)
  PROVE  Body(f) \in Seq(Nat) /\ ReadsBack(f) /\ f.ty = OPEN
<1>1. f.ty = OPEN /\ Body(f) = encode(f.addr)
  <2>1. f.ty = OPEN
    BY DEF Open
  <2> QED
    BY <2>1 DEF Body, OPEN, OPEN_ERR, DATA
<1>2. encode(f.addr) \in Seq(Nat) /\ decode(encode(f.addr)) = f.addr
  BY AddressSurvives
<1>3. ~IsError(f.addr)
  <2>1. f.addr = [kind |-> f.addr.kind, host |-> f.addr.host, port |-> f.addr.port]
    BY DEF Encodable
  <2>2. DOMAIN [kind |-> f.addr.kind, host |-> f.addr.host, port |-> f.addr.port] = {"kind", "host", "port"}
    OBVIOUS
  <2> QED
    BY <2>1, <2>2 DEF IsError
<1>4. Fields(OPEN, Body(f)) = [open |-> f.addr]
  <2>1. Len(Body(f)) >= 0
    BY <1>1, <1>2, LenProperties
  <2>2. OPEN \notin {HELLO, HELLO_ACK} /\ OPEN # OPEN_ERR /\ OPEN \notin Counts \cup Codes \cup {DATA}
    BY DEF OPEN, HELLO, HELLO_ACK, OPEN_ERR, Counts, Codes, DATA, ACK, RESUME, RESUME_OK, PING, PONG, RESET, RESUME_ERR
  <2>3. ~(Len(Body(f)) < 0)
    BY <1>1, <1>2, LenProperties
  <2> QED
    BY <1>1, <1>2, <1>3, <2>1, <2>2, <2>3 DEF Fields
<1>5. ~IsError([open |-> f.addr])
  BY DEF IsError
<1>6. Framed(OPEN, f.stream, [open |-> f.addr]) = f
  BY DEF Framed
<1>7. Carried(f) = f
  BY <1>1 DEF Carried, OPEN, OPEN_ERR
<1> QED
  BY <1>1, <1>2, <1>4, <1>5, <1>6, <1>7 DEF ReadsBack

\* A first byte and the bytes behind it.
LEMMA Prepended ==
  ASSUME NEW x \in Nat, NEW s \in Seq(Nat)
  PROVE  /\ <<x>> \o s \in Seq(Nat) /\ Len(<<x>> \o s) = Len(s) + 1
         /\ (<<x>> \o s)[1] = x /\ Tail(<<x>> \o s) = s
<1> DEFINE a == <<x>>
           t == a \o s
           e == <<>>
<1>1. a \in Seq(Nat) /\ Len(a) = 1 /\ a[1] = x /\ e \in Seq(Nat) /\ Len(e) = 0
  OBVIOUS
<1> HIDE DEF a, e
<1>2. InParts(a \o s \o e, a, s, e)
  BY <1>1, Parts
<1>3. t \in Seq(Nat) /\ t \o e = t
  BY <1>1, Joins, ConcatEmptySeq DEF e
<1> HIDE DEF t
<1>4. InParts(t, a, s, e)
  BY <1>2, <1>3 DEF t
<1>5. Len(t) = Len(s) + 1 /\ t[1] = x /\ t # <<>> /\ SubSeq(t, 2, Len(t)) = s
  <2>1. Len(a) + 1 = 2 /\ Len(t) = Len(a) + Len(s) /\ Len(t) = Len(s) + 1 /\ Len(t) >= 1
    BY <1>1, <1>4 DEF InParts
  <2> QED
    BY <1>1, <1>4, <2>1 DEF InParts
<1>6. Tail(t) = s
  BY <1>3, <1>5, TailIsSubSeq
<1> QED
  BY <1>3, <1>5, <1>6 DEF t, a

\* The body of a Data is read back.
LEMMA DataReads ==
  ASSUME NEW f, f = Frame(DATA, f.stream, f.fields), f.fields = <<f.fields[1], f.fields[2]>>,
         f.fields[1] \in Nat, f.fields[2] \in Seq(Nat)
  PROVE  Body(f) \in Seq(Nat) /\ ReadsBack(f) /\ f.ty = DATA
<1>1. f.ty = DATA
  BY DEF Frame
<1>2. Body(f) = <<f.fields[1]>> \o f.fields[2]
  BY <1>1 DEF Body, DATA, OPEN, OPEN_ERR
<1>3. /\ Body(f) \in Seq(Nat) /\ Len(Body(f)) = Len(f.fields[2]) + 1 /\ Len(f.fields[2]) \in Nat
      /\ Body(f)[1] = f.fields[1] /\ Tail(Body(f)) = f.fields[2]
  BY <1>2, Prepended, LenProperties
<1>4. Fields(DATA, Body(f)) = [ok |-> <<Body(f)[1], Tail(Body(f))>>]
  <2>1. Len(Body(f)) >= 1 /\ ~(Len(Body(f)) < 1)
    BY <1>3
  <2> QED
    BY <2>1 DEF Fields, HELLO, HELLO_ACK, OPEN_ERR, Counts, Codes, Bare, OPEN_OK, FIN, DATA, OPEN,
                ACK, RESUME, RESUME_OK, PING, PONG, RESET, RESUME_ERR
<1>5. ~IsError([ok |-> f.fields]) /\ [ok |-> f.fields].ok = f.fields
  BY DEF IsError
<1>6. Framed(DATA, f.stream, [ok |-> f.fields]) = Frame(DATA, f.stream, f.fields)
  BY <1>5 DEF Framed, DATA, OPEN
<1>7. Carried(f) = f
  BY <1>1 DEF Carried, DATA, OPEN_ERR
<1>8. Fields(DATA, Body(f)) = [ok |-> f.fields]
  BY <1>3, <1>4
<1> QED
  BY <1>1, <1>3, <1>5, <1>6, <1>7, <1>8 DEF ReadsBack

\* The body of an OpenErr has its message cut.
LEMMA RefusalBody ==
  ASSUME NEW f, f.ty = OPEN_ERR
  PROVE  Body(f) = <<f.fields[1], Least(Len(f.fields[2]), MSG_MAX)>>
                     \o SubSeq(f.fields[2], 1, Least(Len(f.fields[2]), MSG_MAX))
<1>1. f.ty # OPEN /\ f.ty # DATA
  BY DEF DATA, OPEN, OPEN_ERR
<1> QED
  BY <1>1, Zenon DEF Body

\* The body of an OpenErr is read back, with its message cut.
LEMMA RefusalReads ==
  ASSUME NEW f, f = Frame(OPEN_ERR, f.stream, f.fields), f.fields = <<f.fields[1], f.fields[2]>>,
         f.fields[1] \in ResetCode, f.fields[2] \in Seq(Nat)
  PROVE  Body(f) \in Seq(Nat) /\ ReadsBack(f) /\ f.ty = OPEN_ERR
<1> DEFINE code == f.fields[1]
           msg == f.fields[2]
           n == Least(Len(msg), MSG_MAX)
           m == SubSeq(msg, 1, n)
           a == <<code, n>>
           e == <<>>
           body == a \o m
<1>1. f.ty = OPEN_ERR /\ f.fields = <<code, msg>> /\ code \in ResetCode /\ msg \in Seq(Nat)
  BY DEF Frame
<1>2. Body(f) = body
  <2>1. f.ty = OPEN_ERR
    BY <1>1
  <2>2. Body(f) = <<f.fields[1], Least(Len(f.fields[2]), MSG_MAX)>>
                     \o SubSeq(f.fields[2], 1, Least(Len(f.fields[2]), MSG_MAX))
    BY <2>1, RefusalBody
  <2> QED
    BY <2>2, Zenon
<1>3. code \in Nat /\ n \in Nat /\ n <= Len(msg) /\ Len(msg) \in Nat
  <2>1. code \in Nat
    BY <1>1 DEF ResetCode, Normal, ConnectFailed, UnknownStream, ResumeImpossible, Internal, Forbidden
  <2>2. Len(msg) \in Nat /\ MSG_MAX \in Nat
    BY <1>1, LenProperties, FrameAssumption
  <2> QED
    BY <2>1, <2>2 DEF Least
<1> HIDE DEF code, msg, n
<1>4. m \in Seq(Nat) /\ Len(m) = n
  <2>1. m \in Seq(Nat) /\ Len(m) = n - 1 + 1
    BY <1>1, <1>3, Cuts
  <2> HIDE DEF m
  <2> QED
    BY <1>3, <2>1
<1>5. a \in Seq(Nat) /\ Len(a) = 2 /\ a[1] = code /\ a[2] = n
  BY <1>3
<1>6. e \in Seq(Nat) /\ Len(e) = 0
  OBVIOUS
<1> HIDE DEF m, a, e
<1>7. InParts(a \o m \o e, a, m, e)
  BY <1>4, <1>5, <1>6, Parts
<1>8. body \in Seq(Nat) /\ body \o e = body
  BY <1>4, <1>5, Joins, ConcatEmptySeq DEF e
<1> HIDE DEF body
<1>9. InParts(body, a, m, e)
  BY <1>7, <1>8 DEF body
<1>10. /\ Len(body) = 2 + n /\ body[1] = code /\ body[2] = n
       /\ SubSeq(body, 3, 2 + n) = m
  BY <1>3, <1>4, <1>5, <1>6, <1>9 DEF InParts
<1>11. ResetCode_from_u8(code) = code
  BY <1>1 DEF ResetCode_from_u8
<1>12. Fields(OPEN_ERR, body) = [ok |-> <<ResetCode_from_u8(body[1]), SubSeq(body, 3, 2 + body[2])>>]
  <2>1. ~(Len(body) < 2) /\ ~(Len(body) < 2 + body[2]) /\ Len(body) >= 2 + body[2]
    BY <1>3, <1>10
  <2> QED
    BY <2>1 DEF Fields, HELLO, HELLO_ACK, OPEN_ERR, Counts, Codes, Bare, OPEN_OK, FIN, DATA, OPEN,
                ACK, RESUME, RESUME_OK, PING, PONG, RESET, RESUME_ERR
<1>13. Fields(OPEN_ERR, body) = [ok |-> <<code, m>>]
  BY <1>10, <1>11, <1>12
<1>14. ~IsError([ok |-> <<code, m>>]) /\ [ok |-> <<code, m>>].ok = <<code, m>>
  BY DEF IsError
<1>15. Framed(OPEN_ERR, f.stream, [ok |-> <<code, m>>]) = Frame(OPEN_ERR, f.stream, <<code, m>>)
  BY <1>14 DEF Framed, OPEN_ERR, OPEN
<1>16. Carried(f) = Frame(OPEN_ERR, f.stream, <<code, m>>)
  <2>1. Carried(f) = [f EXCEPT !.fields = [f.fields EXCEPT ![2] = SubSeq(f.fields[2], 1, Least(Len(f.fields[2]), MSG_MAX))]]
    BY <1>1 DEF Carried
  <2>2. SubSeq(f.fields[2], 1, Least(Len(f.fields[2]), MSG_MAX)) = m
    BY DEF m, n, msg
  <2>3. [f.fields EXCEPT ![2] = m] = <<code, m>>
    BY <1>1
  <2>4. Carried(f) = [f EXCEPT !.fields = <<code, m>>]
    BY <2>1, <2>2, <2>3
  <2>5. [f EXCEPT !.fields = <<code, m>>] = Frame(OPEN_ERR, f.stream, <<code, m>>)
    BY DEF Frame
  <2> QED
    BY <2>4, <2>5
<1> QED
  BY <1>1, <1>2, <1>8, <1>13, <1>14, <1>15, <1>16 DEF ReadsBack

\* The payload of the other frames is their fields.
LEMMA PlainBody ==
  ASSUME NEW f, f.ty \in {HELLO, HELLO_ACK} \cup Counts \cup Codes \cup Bare
  PROVE  Body(f) = f.fields /\ f.ty # OPEN /\ f.ty # OPEN_ERR
<1>1. f.ty # OPEN /\ f.ty # DATA /\ f.ty # OPEN_ERR
  BY DEF DATA, OPEN, OPEN_ERR, HELLO, HELLO_ACK, Counts, Codes, Bare, OPEN_OK, FIN,
         ACK, RESUME, RESUME_OK, PING, PONG, RESET, RESUME_ERR
<1> QED
  BY <1>1, Zenon DEF Body

\* The bodies that are their fields are read back, when their fields are.
LEMMA PlainReads ==
  ASSUME NEW f, f = Frame(f.ty, f.stream, f.fields), f.fields \in Seq(Nat),
         f.ty \in {HELLO, HELLO_ACK} \cup Counts \cup Codes \cup Bare,
         Fields(f.ty, f.fields) = [ok |-> f.fields]
  PROVE  Body(f) \in Seq(Nat) /\ ReadsBack(f)
<1>1. Body(f) = f.fields /\ f.ty # OPEN /\ f.ty # OPEN_ERR
  BY PlainBody
<1>2. ~IsError([ok |-> f.fields]) /\ [ok |-> f.fields].ok = f.fields
  BY DEF IsError
<1>3. Framed(f.ty, f.stream, [ok |-> f.fields]) = Frame(f.ty, f.stream, f.fields)
  BY <1>1, <1>2 DEF Framed
<1>4. Carried(f) = f
  BY <1>1 DEF Carried
<1> QED
  BY <1>1, <1>2, <1>3, <1>4 DEF ReadsBack

\* The fields of these frames are read as they are.
LEMMA PlainFields ==
  ASSUME NEW ty, NEW body \in Seq(Nat),
         \/ ty \in {HELLO, HELLO_ACK} /\ Len(body) = 3 /\ body[3] \in {0, 1}
         \/ ty \in Counts /\ Len(body) = 1
         \/ ty \in Codes /\ Len(body) = 1 /\ body[1] \in ResetCode
         \/ ty \in Bare /\ body = <<>>
  PROVE  Fields(ty, body) = [ok |-> body]
<1> USE DEF DATA, OPEN, OPEN_ERR, HELLO, HELLO_ACK, Counts, Codes, Bare, OPEN_OK, FIN,
            ACK, RESUME, RESUME_OK, PING, PONG, RESET, RESUME_ERR
<1>1. CASE ty \in {HELLO, HELLO_ACK}
  <2>1. Len(body) = 3 /\ body[3] \in {0, 1}
    BY <1>1
  <2>2. Fields(ty, body) = [ok |-> <<body[1], body[2], IF body[3] = 0 THEN 0 ELSE 1>>]
    BY <1>1, <2>1 DEF Fields
  <2>3. <<body[1], body[2], IF body[3] = 0 THEN 0 ELSE 1>> = body
    <3> DEFINE t == <<body[1], body[2], body[3]>>
    <3>1. body[1] \in Nat /\ body[2] \in Nat /\ body[3] \in Nat
      <4>1. body \in [1 .. Len(body) -> Nat] /\ Len(body) = 3
        BY <2>1, LenProperties
      <4> HIDE DEF t
      <4>2. \A i \in 1 .. 3 : body[i] \in Nat
        BY <4>1
      <4> QED
        BY <4>2
    <3>2. t \in Seq(Nat) /\ Len(t) = 3 /\ \A i \in 1 .. 3 : t[i] = body[i]
      BY <3>1
    <3> HIDE DEF t
    <3>3. t = body
      BY <2>1, <3>2, SameBytes
    <3> QED
      BY <2>1, <3>3 DEF t
  <2> QED
    BY <2>2, <2>3
<1>2. CASE ty \in Counts \cup Codes
  <2>1. Len(body) = 1 /\ (ty \in Codes => body[1] \in ResetCode)
    BY <1>2
  <2>2. Fields(ty, body) = [ok |-> <<IF ty \in Codes THEN ResetCode_from_u8(body[1]) ELSE body[1]>>]
    BY <1>2, <2>1 DEF Fields
  <2>3. <<body[1]>> = body
    BY <2>1, ElementOfSeq, SeqEqual
  <2>4. ty \in Codes => ResetCode_from_u8(body[1]) = body[1]
    BY <2>1 DEF ResetCode_from_u8
  <2> QED
    BY <2>2, <2>3, <2>4
<1>3. CASE ty \in Bare
  <2>1. body = <<>> /\ Len(body) = 0
    BY <1>3, EmptySeq
  <2> QED
    BY <1>3, <2>1 DEF Fields
<1> QED
  BY <1>1, <1>2, <1>3

\* Every frame that may be sent has a payload that is read as its fields.
LEMMA BodyReads ==
  ASSUME NEW f, Sendable(f)
  PROVE  Body(f) \in Seq(Nat) /\ ReadsBack(f) /\ f.ty \in Nat
<1>1. CASE f = Open(f.stream, f.addr) /\ Encodable(f.addr)
  BY <1>1, OpenReads DEF OPEN
<1>2. CASE /\ f = Frame(OPEN_ERR, f.stream, f.fields) /\ f.fields = <<f.fields[1], f.fields[2]>>
           /\ f.fields[1] \in ResetCode /\ f.fields[2] \in Seq(Nat)
  BY <1>2, RefusalReads DEF OPEN_ERR
<1>3. CASE /\ f = Frame(DATA, f.stream, f.fields) /\ f.fields = <<f.fields[1], f.fields[2]>>
           /\ f.fields[1] \in Nat /\ f.fields[2] \in Seq(Nat)
  BY <1>3, DataReads DEF DATA
<1>4. CASE /\ f = Frame(f.ty, f.stream, f.fields)
           /\ \/ f.ty \in {HELLO, HELLO_ACK} /\ f.fields \in Seq(Nat) /\ Len(f.fields) = 3 /\ f.fields[3] \in {0, 1}
              \/ f.ty \in Counts /\ f.fields \in Seq(Nat) /\ Len(f.fields) = 1
              \/ f.ty \in Codes /\ f.fields \in Seq(ResetCode) /\ Len(f.fields) = 1
              \/ f.ty \in Bare /\ f.fields = <<>>
  <2>1. /\ f.fields \in Seq(Nat)
        /\ f.ty \in Codes => f.fields[1] \in ResetCode
    <3>1. ResetCode \subseteq Nat
      BY DEF ResetCode, Normal, ConnectFailed, UnknownStream, ResumeImpossible, Internal, Forbidden
    <3>2. CASE f.ty \in Codes
      <4>1. f.fields \in Seq(ResetCode) /\ Len(f.fields) = 1
        BY <1>4, <3>2 DEF DATA, OPEN, OPEN_ERR, HELLO, HELLO_ACK, Counts, Codes, Bare, OPEN_OK, FIN,
            ACK, RESUME, RESUME_OK, PING, PONG, RESET, RESUME_ERR
      <4>2. f.fields \in Seq(Nat)
        BY <3>1, <4>1, SeqMonotonic
      <4> QED
        BY <4>1, <4>2, ElementOfSeq
    <3> QED
      BY <1>4, <3>2, EmptySeq
  <2>2. Fields(f.ty, f.fields) = [ok |-> f.fields]
    BY <1>4, <2>1, PlainFields
  <2>3. f.ty \in {HELLO, HELLO_ACK} \cup Counts \cup Codes \cup Bare
    BY <1>4
  <2>4. Body(f) \in Seq(Nat) /\ ReadsBack(f)
    BY <1>4, <2>1, <2>2, <2>3, PlainReads
  <2>5. f.ty \in Nat
    BY <2>3 DEF HELLO, HELLO_ACK, Counts, Codes, Bare, OPEN_OK, FIN,
            ACK, RESUME, RESUME_OK, PING, PONG, RESET, RESUME_ERR
  <2> QED
    BY <2>4, <2>5
<1> QED
  BY <1>1, <1>2, <1>3, <1>4 DEF Sendable

\* A beginning of s that holds its frame.
Decoded(s, f, rest) == decode_frame(s) = [frame |-> Carried(f), rest |-> rest]

\* decode undoes encode of a frame, and leaves the bytes behind it.
LEMMA FrameSurvives ==
  ASSUME NEW f, Sendable(f), NEW rest \in Seq(Nat)
  PROVE  /\ encode_frame(f) \in Seq(Nat)
         /\ Decoded(encode_frame(f) \o rest, f, rest)
<1> DEFINE body == Body(f)
           head == <<f.ty, f.stream, Len(body)>>
           s == head \o body \o rest
<1>1. body \in Seq(Nat) /\ ReadsBack(f) /\ f.ty \in Nat
  BY BodyReads
<1>2. f.stream \in Nat /\ Len(body) <= MAX_FRAME_PAYLOAD /\ (f.ty \in NoStream => f.stream = 0)
  BY DEF Sendable
<1>3. encode_frame(f) = head \o body
  BY <1>2 DEF encode_frame
<1> HIDE DEF body
<1>4. /\ head \in Seq(Nat) /\ Len(head) = 3 /\ head[1] = f.ty /\ head[2] = f.stream /\ head[3] = Len(body)
      /\ Len(body) \in Nat
  BY <1>1, <1>2, LenProperties
<1> HIDE DEF head
<1>5. InParts(s, head, body, rest)
  BY <1>1, <1>4, Parts
<1> HIDE DEF s
<1>6. /\ s[1] = f.ty /\ s[2] = f.stream /\ s[3] = Len(body)
      /\ SubSeq(s, HEADER_LEN + 1, HEADER_LEN + s[3]) = body
      /\ SubSeq(s, HEADER_LEN + s[3] + 1, Len(s)) = rest
      /\ ~(Len(s) < HEADER_LEN) /\ ~(s[3] > MAX_FRAME_PAYLOAD) /\ ~(Len(s) < HEADER_LEN + s[3])
  <2>1. MAX_FRAME_PAYLOAD \in Nat
    BY FrameAssumption
  <2>2. \A i \in 1 .. Len(head) : s[i] = head[i]
    BY <1>5 DEF InParts
  <2>3. s[1] = f.ty /\ s[2] = f.stream /\ s[3] = Len(body)
    <3>1. s[1] = head[1] /\ s[2] = head[2] /\ s[3] = head[3]
      BY <1>4, <2>2
    <3> QED
      BY <1>4, <3>1
  <2>4. /\ SubSeq(s, 3 + 1, 3 + Len(body)) = body
        /\ SubSeq(s, 3 + Len(body) + 1, Len(s)) = rest
        /\ Len(s) = 3 + Len(body) + Len(rest) /\ Len(rest) \in Nat
    BY <1>4, <1>5 DEF InParts
  <2>5. ~(Len(s) < 3) /\ ~(Len(body) > MAX_FRAME_PAYLOAD) /\ ~(Len(s) < 3 + Len(body))
    BY <1>2, <1>4, <2>1, <2>4
  <2> QED
    BY <2>3, <2>4, <2>5 DEF HEADER_LEN
<1>7. ~IsError(Fields(f.ty, body)) /\ Framed(f.ty, f.stream, Fields(f.ty, body)) = Carried(f)
  BY <1>1 DEF ReadsBack, body
<1>8. decode_frame(s) = [frame |-> Carried(f), rest |-> rest]
  BY <1>6, <1>7, Zenon DEF decode_frame
<1>9. head \o body \in Seq(Nat)
  BY <1>1, <1>4, Joins
<1> QED
  BY <1>3, <1>8, <1>9 DEF Decoded, s

\* What is shorter than the frame is waited for.
LEMMA FrameIsAwaited ==
  ASSUME NEW f, Sendable(f), NEW s \in Seq(Nat), NEW w \in Seq(Nat), NEW rest \in Seq(Nat),
         s \o w = encode_frame(f) \o rest, Len(s) < Len(encode_frame(f))
  PROVE  decode_frame(s) = More
<1> DEFINE body == Body(f)
           head == <<f.ty, f.stream, Len(body)>>
           t == head \o body \o rest
<1>1. body \in Seq(Nat) /\ f.ty \in Nat
  BY BodyReads
<1>2. f.stream \in Nat /\ Len(body) <= MAX_FRAME_PAYLOAD /\ (f.ty \in NoStream => f.stream = 0)
  BY DEF Sendable
<1>3. encode_frame(f) = head \o body
  BY <1>2 DEF encode_frame
<1> HIDE DEF body
<1>4. /\ head \in Seq(Nat) /\ Len(head) = 3 /\ head[3] = Len(body) /\ Len(body) \in Nat
  BY <1>1, <1>2, LenProperties
<1> HIDE DEF head
<1>5. InParts(t, head, body, rest)
  BY <1>1, <1>4, Parts
<1>6. s \o w = t /\ Len(s) < 3 + Len(body)
  BY <1>1, <1>3, <1>4, Joins
<1> HIDE DEF t
<1>7. /\ Len(s) \in Nat
      /\ \A i \in 1 .. Len(s) : t[i] = s[i]
  BY <1>6, Joins
<1>8. Len(s) >= 3 => s[3] = Len(body)
  <2>1. \A i \in 1 .. Len(head) : t[i] = head[i]
    BY <1>5 DEF InParts
  <2>2. t[3] = Len(body)
    BY <1>4, <2>1
  <2> QED
    BY <1>7, <2>2
<1>9. CASE Len(s) < 3
  BY <1>9 DEF decode_frame, HEADER_LEN
<1>10. CASE Len(s) >= 3
  <2>1. ~(Len(s) < HEADER_LEN) /\ ~(s[3] > MAX_FRAME_PAYLOAD) /\ Len(s) < HEADER_LEN + s[3]
    <3>1. s[3] = Len(body) /\ MAX_FRAME_PAYLOAD \in Nat
      BY <1>8, <1>10, FrameAssumption
    <3>2. ~(Len(s) < 3) /\ ~(Len(body) > MAX_FRAME_PAYLOAD) /\ Len(s) < 3 + Len(body)
      BY <1>2, <1>4, <1>6, <1>7, <1>10, <3>1
    <3> QED
      BY <3>1, <3>2 DEF HEADER_LEN
  <2> QED
    BY <2>1, Zenon DEF decode_frame
<1> QED
  BY <1>7, <1>9, <1>10

-----------------------------------------------------------------------------
(* One direction of the channel.                                           *)

\* The addresses that can be sent.
Addresses == {a \in [kind : {KIND_V4, KIND_V6, KIND_DOMAIN}, host : Seq(Nat), port : Nat] : Encodable(a)}

\* What is sent: the frames of an exchange, the Opens of the dialer, and the
\* answers of the helper.
Traffic ==
  SomeFrame \cup {Open(1, a) : a \in Addresses}
  \cup {Frame(OPEN_OK, 1, <<>>), Frame(OPEN_ERR, 1, <<ConnectFailed, <<120, 121, 122>> >>),
        Frame(OPEN_ERR, 1, <<Forbidden, <<120>> >>)}

\* What is read.
Arrivals == {Carried(f) : f \in Traffic}

\* An Open of a dial fits its frame.
LEMMA OpensAreSendable ==
  ASSUME NEW a \in Addresses
  PROVE  Sendable(Open(1, a))
<1> DEFINE f == Open(1, a)
<1>1. Encodable(a) /\ f.stream = 1 /\ f.addr = a /\ f.ty = OPEN
  BY DEF Addresses, Open
<1>2. f = Open(f.stream, f.addr)
  BY DEF Open
<1> HIDE DEF f
<1>3. Body(f) = encode(a)
  BY <1>1 DEF Body, OPEN, OPEN_ERR, DATA
<1>4. Len(encode(a)) <= MAX_FRAME_PAYLOAD
  <2> DEFINE h == a.host
             mid == IF a.kind = KIND_DOMAIN THEN <<Len(h) % LenMod>> ELSE <<>>
             k == <<a.kind>>
             p == <<a.port>>
             front == k \o mid
  <2>1. encode(a) = front \o h \o p
    BY DEF encode
  <2>2. h \in Seq(Nat) /\ k \in Seq(Nat) /\ p \in Seq(Nat) /\ Len(k) = 1 /\ Len(p) = 1 /\ Len(h) \in Nat
    BY LenProperties DEF Addresses, KIND_V4, KIND_V6, KIND_DOMAIN
  <2>3. /\ LenMod \in Nat \ {0} /\ V4_LEN \in Nat /\ V6_LEN \in Nat /\ MAX_FRAME_PAYLOAD \in Nat
        /\ LenMod + 2 <= MAX_FRAME_PAYLOAD /\ V4_LEN + 2 <= MAX_FRAME_PAYLOAD
        /\ V6_LEN + 2 <= MAX_FRAME_PAYLOAD
    BY AddrAssumption, FrameAssumption
  <2>4. \/ a.kind # KIND_DOMAIN /\ Len(h) \in {V4_LEN, V6_LEN}
        \/ a.kind = KIND_DOMAIN /\ Len(h) \in 1 .. LenMod - 1
    BY <1>1 DEF Encodable, KIND_V4, KIND_V6, KIND_DOMAIN
  <2> HIDE DEF h, k, p
  <2>5. mid \in Seq(Nat) /\ Len(mid) = IF a.kind = KIND_DOMAIN THEN 1 ELSE 0
    <3>1. CASE a.kind = KIND_DOMAIN
      <4>1. Len(h) < LenMod
        BY <2>2, <2>3, <2>4, <3>1
      <4>2. Len(h) % LenMod = Len(h)
        BY <2>2, <2>3, <4>1, SmallRemainder
      <4> QED
        BY <2>2, <3>1, <4>2
    <3>2. CASE a.kind # KIND_DOMAIN
      BY <3>2
    <3> QED
      BY <3>1, <3>2
  <2> HIDE DEF mid
  <2>6. front \in Seq(Nat) /\ Len(front) = 1 + Len(mid)
    <3>1. front \in Seq(Nat) /\ Len(front) = Len(k) + Len(mid)
      BY <2>2, <2>5, JoinedLen
    <3> QED
      BY <2>2, <3>1
  <2> HIDE DEF front
  <2>7. InParts(front \o h \o p, front, h, p)
    BY <2>2, <2>6, Parts
  <2>8. Len(encode(a)) = 1 + Len(mid) + Len(h) + 1
    BY <2>1, <2>2, <2>6, <2>7 DEF InParts
  <2> QED
    BY <2>2, <2>3, <2>4, <2>5, <2>8
<1>5. f.ty \notin NoStream
  BY <1>1 DEF NoStream, OPEN, HELLO, HELLO_ACK, PING, PONG
<1>6. Sendable(f)
  BY <1>1, <1>2, <1>3, <1>4, <1>5 DEF Sendable
<1> QED
  BY <1>6 DEF f

\* The answers of the helper fit their frames.
LEMMA AnswersAreSendable ==
  /\ Sendable(Frame(OPEN_OK, 1, <<>>))
  /\ Sendable(Frame(OPEN_ERR, 1, <<ConnectFailed, <<120, 121, 122>> >>))
  /\ Sendable(Frame(OPEN_ERR, 1, <<Forbidden, <<120>> >>))
<1>1. Sendable(Frame(OPEN_OK, 1, <<>>))
  <2> DEFINE f == Frame(OPEN_OK, 1, <<>>)
  <2>1. f.ty = OPEN_OK /\ f.stream = 1 /\ f.fields = <<>> /\ f = Frame(f.ty, f.stream, f.fields)
    BY DEF Frame
  <2> HIDE DEF f
  <2>2. OPEN_OK \in Bare /\ OPEN_OK \notin NoStream
    BY DEF Bare, OPEN_OK, NoStream, HELLO, HELLO_ACK, PING, PONG
  <2>3. Body(f) = <<>>
    BY <2>1, <2>2, PlainBody
  <2>4. Len(Body(f)) <= MAX_FRAME_PAYLOAD
    BY <2>3, FrameAssumption
  <2>5. Sendable(f)
    BY <2>1, <2>2, <2>4 DEF Sendable
  <2> QED
    BY <2>5 DEF f
<1>2. ASSUME NEW code \in ResetCode, NEW msg \in Seq(Nat)
      PROVE  Sendable(Frame(OPEN_ERR, 1, <<code, msg>>))
  <2> DEFINE f == Frame(OPEN_ERR, 1, <<code, msg>>)
  <2>1. /\ f.ty = OPEN_ERR /\ f.stream = 1 /\ f.fields = <<code, msg>>
        /\ f = Frame(f.ty, f.stream, f.fields)
    BY DEF Frame
  <2> HIDE DEF f
  <2>2. f.fields[1] = code /\ f.fields[2] = msg /\ f.fields = <<f.fields[1], f.fields[2]>>
    BY <2>1
  <2> DEFINE n == Least(Len(msg), MSG_MAX)
             a == <<code, n>>
             m == SubSeq(msg, 1, n)
  <2>3. Body(f) = a \o m
    <3>1. Body(f) = <<f.fields[1], Least(Len(f.fields[2]), MSG_MAX)>>
                      \o SubSeq(f.fields[2], 1, Least(Len(f.fields[2]), MSG_MAX))
      BY <2>1, RefusalBody
    <3> QED
      BY <2>2, <3>1
  <2>4. /\ n \in Nat /\ n <= Len(msg) /\ Len(msg) \in Nat /\ n <= MSG_MAX /\ code \in Nat
        /\ MSG_MAX + 2 <= MAX_FRAME_PAYLOAD /\ MSG_MAX \in Nat /\ MAX_FRAME_PAYLOAD \in Nat
    BY LenProperties, FrameAssumption
       DEF Least, ResetCode, Normal, ConnectFailed, UnknownStream, ResumeImpossible, Internal, Forbidden
  <2> HIDE DEF n
  <2>5. m \in Seq(Nat) /\ Len(m) = n
    <3>1. m \in Seq(Nat) /\ Len(m) = n - 1 + 1
      BY <2>4, Cuts
    <3> HIDE DEF m
    <3> QED
      BY <2>4, <3>1
  <2>6. a \in Seq(Nat) /\ Len(a) = 2
    BY <2>4
  <2> HIDE DEF a, m
  <2>7. Len(Body(f)) <= MAX_FRAME_PAYLOAD
    <3>1. Len(a \o m) = Len(a) + Len(m)
      BY <2>5, <2>6, JoinedLen
    <3> QED
      BY <2>3, <2>4, <2>5, <2>6, <3>1
  <2>8. f.ty \notin NoStream
    BY <2>1 DEF OPEN_ERR, NoStream, HELLO, HELLO_ACK, PING, PONG
  <2>9. Sendable(f)
    BY <2>1, <2>2, <2>7, <2>8 DEF Sendable
  <2> QED
    BY <2>9 DEF f
<1>3. /\ ConnectFailed \in ResetCode /\ Forbidden \in ResetCode
      /\ <<120, 121, 122>> \in Seq(Nat) /\ <<120>> \in Seq(Nat)
  BY DEF ResetCode
<1> QED
  BY <1>1, <1>2, <1>3

\* All that is sent may be.
LEMMA TrafficIsSendable == \A f \in Traffic : Sendable(f)
<1>1. \A f \in SomeFrame : Sendable(f)
  BY PathAssumption
<1> QED
  BY <1>1, OpensAreSendable, AnswersAreSendable DEF Traffic

\* rests[i] are the bytes that follow the frame number i, up to the last frame that
\* was sent: nothing, or the foreign bytes.
Chain(e, rests) ==
  /\ rests[Len(e.got)] = e.buf \o e.wire
  /\ \A i \in Len(e.got) .. Len(e.sent) - 1 : rests[i] = encode_frame(e.sent[i + 1]) \o rests[i + 1]
  /\ rests[Len(e.sent)] \in IF e.alien THEN Foreign ELSE {<<>>}

\* A direction of the channel.
EndType ==
  [wire : Seq(Nat), buf : Seq(Nat), sent : Seq(Traffic), got : Seq(Arrivals), err : BOOLEAN, alien : BOOLEAN]

\* What is in the buffer and on the wire are the frames that are awaited.
Chained(e) == \E rests \in [Len(e.got) .. Len(e.sent) -> Seq(Nat)] : Chain(e, rests)

\* The invariant of a direction: the bytes in the buffer and on the wire are the
\* frames that were sent and not decoded yet, in their order.
Consistent(e) ==
  /\ e \in EndType
  /\ Len(e.got) <= Len(e.sent)
  /\ \A i \in 1 .. Len(e.got) : e.got[i] = Carried(e.sent[i])
  /\ e.err => e.alien
  /\ Chained(e)

\* The steps, on a direction.
WithSent(e, f) == [e EXCEPT !.wire = @ \o encode_frame(f), !.sent = Append(@, f)]
WithForeign(e, bytes) == [e EXCEPT !.wire = @ \o bytes, !.alien = TRUE]
WithRead(e, n) == [e EXCEPT !.buf = @ \o SubSeq(e.wire, 1, n), !.wire = SubSeq(@, n + 1, Len(@))]
WithDecoded(e, frame, rest) == [e EXCEPT !.buf = rest, !.got = Append(@, frame)]
WithError(e) == [e EXCEPT !.err = TRUE]

\* A channel starts with nothing on it.
LEMMA IdleIsConsistent == Consistent(Idle)
<1>1. /\ Idle.wire = <<>> /\ Idle.buf = <<>> /\ Idle.sent = <<>> /\ Idle.got = <<>>
      /\ Idle.err = FALSE /\ Idle.alien = FALSE
  BY DEF Idle
<1>2. Idle \in EndType
  BY DEF Idle, EndType
<1>3. Len(Idle.got) = 0 /\ Len(Idle.sent) = 0
  BY <1>1
<1>4. Chained(Idle)
  <2> DEFINE rests == [i \in 0 .. 0 |-> <<>>]
  <2>1. rests \in [0 .. 0 -> Seq(Nat)] /\ rests[0] = <<>>
    OBVIOUS
  <2>2. Chain(Idle, rests)
    <3>1. <<>> \o <<>> = <<>>
      BY ConcatEmptySeq, EmptySeq
    <3> HIDE DEF rests
    <3> QED
      BY <1>1, <1>3, <2>1, <3>1 DEF Chain
  <2> HIDE DEF rests
  <2> QED
    BY <1>3, <2>1, <2>2 DEF Chained
<1> QED
  BY <1>1, <1>2, <1>3, <1>4 DEF Consistent

\* What Consistent says of the parts.
LEMMA ConsistentTypes ==
  ASSUME NEW e, Consistent(e)
  PROVE  /\ e.wire \in Seq(Nat) /\ e.buf \in Seq(Nat) /\ e.sent \in Seq(Traffic) /\ e.got \in Seq(Arrivals)
         /\ e.err \in BOOLEAN /\ e.alien \in BOOLEAN
         /\ Len(e.got) \in Nat /\ Len(e.sent) \in Nat /\ Len(e.got) <= Len(e.sent)
         /\ e.buf \o e.wire \in Seq(Nat)
<1>1. /\ e.wire \in Seq(Nat) /\ e.buf \in Seq(Nat) /\ e.sent \in Seq(Traffic) /\ e.got \in Seq(Arrivals)
      /\ e.err \in BOOLEAN /\ e.alien \in BOOLEAN /\ Len(e.got) <= Len(e.sent)
  BY DEF Consistent, EndType
<1> QED
  BY <1>1, LenProperties, JoinedLen

\* A frame is encoded into what is on the wire.
LEMMA SendingKeeps ==
  ASSUME NEW e, Consistent(e), ~e.alien, NEW f \in Traffic
  PROVE  Consistent(WithSent(e, f))
<1> DEFINE g == Len(e.got)
           n == Len(e.sent)
           bytes == encode_frame(f)
           after == WithSent(e, f)
<1>1. /\ e.wire \in Seq(Nat) /\ e.buf \in Seq(Nat) /\ e.sent \in Seq(Traffic) /\ e.got \in Seq(Arrivals)
      /\ g \in Nat /\ n \in Nat /\ g <= n /\ e \in EndType
  BY ConsistentTypes DEF Consistent
<1>2. bytes \in Seq(Nat)
  BY TrafficIsSendable, FrameSurvives, EmptySeq
<1>3. /\ Append(e.sent, f) \in Seq(Traffic) /\ Len(Append(e.sent, f)) = n + 1
      /\ \A i \in 1 .. n : Append(e.sent, f)[i] = e.sent[i]
      /\ Append(e.sent, f)[n + 1] = f
  BY <1>1, AppendProperties
<1>4. e.wire \o bytes \in Seq(Nat)
  BY <1>1, <1>2, JoinedLen
<1>5. after \in EndType
  BY <1>1, <1>3, <1>4 DEF WithSent, EndType
<1>6. /\ after.wire = e.wire \o bytes /\ after.buf = e.buf /\ after.sent = Append(e.sent, f)
      /\ after.got = e.got /\ after.err = e.err /\ after.alien = e.alien
  BY <1>1 DEF WithSent, EndType
<1> HIDE DEF after
<1>7. /\ Len(after.got) = g /\ Len(after.sent) = n + 1
      /\ \A i \in 1 .. n : after.sent[i] = e.sent[i]
      /\ after.sent[n + 1] = f
  BY <1>3, <1>6
<1>8. PICK rests \in [g .. n -> Seq(Nat)] : Chain(e, rests)
  BY DEF Consistent, Chained
<1>9. /\ rests[g] = e.buf \o e.wire /\ rests[n] = <<>>
      /\ \A i \in g .. n - 1 : rests[i] = encode_frame(e.sent[i + 1]) \o rests[i + 1]
  BY <1>8 DEF Chain
<1> DEFINE more == [i \in g .. n + 1 |-> IF i = n + 1 THEN <<>> ELSE rests[i] \o bytes]
<1>10. more \in [g .. n + 1 -> Seq(Nat)]
  <2>1. ASSUME NEW i \in g .. n + 1 PROVE (IF i = n + 1 THEN <<>> ELSE rests[i] \o bytes) \in Seq(Nat)
    <3>1. CASE i = n + 1
      BY <3>1, EmptySeq
    <3>2. CASE i # n + 1
      <4>1. i \in g .. n
        BY <1>1, <3>2
      <4>2. rests[i] \in Seq(Nat)
        BY <4>1
      <4> QED
        BY <1>2, <3>2, <4>2, JoinedLen
    <3> QED
      BY <3>1, <3>2
  <2> QED
    BY <2>1
<1>11. /\ \A i \in g .. n : more[i] = rests[i] \o bytes
       /\ more[n + 1] = <<>>
  BY <1>1
<1> HIDE DEF more, bytes
<1>12. more[g] = after.buf \o after.wire
  <2>1. more[g] = e.buf \o e.wire \o bytes
    <3>1. g \in g .. n
      BY <1>1
    <3>2. more[g] = rests[g] \o bytes
      BY <1>11, <3>1
    <3> QED
      BY <1>9, <3>2
  <2>2. e.buf \o e.wire \o bytes = e.buf \o (e.wire \o bytes)
    BY <1>1, <1>2, Regroups
  <2> QED
    BY <1>6, <2>1, <2>2
<1>13. ASSUME NEW i \in g .. n
       PROVE  more[i] = encode_frame(after.sent[i + 1]) \o more[i + 1]
  <2>1. CASE i = n
    <3>1. more[i] = <<>> \o bytes /\ more[i + 1] = <<>> /\ after.sent[i + 1] = f
      BY <1>1, <1>7, <1>9, <1>11, <2>1
    <3>2. <<>> \o bytes = bytes /\ bytes \o <<>> = bytes
      BY <1>2, ConcatEmptySeq
    <3> QED
      BY <3>1, <3>2 DEF bytes
  <2>2. CASE i # n
    <3>1. i \in g .. n - 1 /\ i + 1 \in g .. n /\ i + 1 \in 1 .. n
      BY <1>1, <2>2
    <3>2. more[i] = rests[i] \o bytes /\ more[i + 1] = rests[i + 1] \o bytes
          /\ after.sent[i + 1] = e.sent[i + 1] /\ rests[i + 1] \in Seq(Nat)
          /\ rests[i] = encode_frame(e.sent[i + 1]) \o rests[i + 1]
      BY <1>7, <1>9, <1>11, <3>1
    <3>3. encode_frame(e.sent[i + 1]) \in Seq(Nat)
      <4>1. e.sent[i + 1] \in Traffic
        BY <1>1, <3>1, ElementOfSeq
      <4> QED
        BY <4>1, TrafficIsSendable, FrameSurvives, EmptySeq
    <3>4. encode_frame(e.sent[i + 1]) \o rests[i + 1] \o bytes
            = encode_frame(e.sent[i + 1]) \o (rests[i + 1] \o bytes)
      BY <1>2, <3>2, <3>3, Regroups
    <3> QED
      BY <3>2, <3>4
  <2> QED
    BY <2>1, <2>2
<1>14. Chain(after, more)
  <2>1. n + 1 - 1 = n /\ Len(after.sent) - 1 = n
    BY <1>1, <1>7
  <2> QED
    BY <1>6, <1>7, <1>11, <1>12, <1>13, <2>1 DEF Chain
<1>15. Chained(after)
  BY <1>7, <1>10, <1>14 DEF Chained
<1>16. \A i \in 1 .. g : e.got[i] = Carried(e.sent[i]) /\ i \in 1 .. n
  BY <1>1 DEF Consistent
<1>17. (after.err => after.alien) /\ Len(after.got) <= Len(after.sent)
       /\ \A i \in 1 .. Len(after.got) : after.got[i] = Carried(after.sent[i])
  BY <1>1, <1>6, <1>7, <1>16 DEF Consistent
<1>18. Consistent(after)
  BY <1>5, <1>6, <1>15, <1>17 DEF Consistent, after
<1> QED
  BY <1>18 DEF after

\* The foreign bytes come behind every frame.
LEMMA ForeignKeeps ==
  ASSUME NEW e, Consistent(e), ~e.alien, NEW bytes \in Foreign
  PROVE  Consistent(WithForeign(e, bytes))
<1> DEFINE g == Len(e.got)
           n == Len(e.sent)
           after == WithForeign(e, bytes)
<1>1. /\ e.wire \in Seq(Nat) /\ e.buf \in Seq(Nat) /\ e.sent \in Seq(Traffic) /\ e.got \in Seq(Arrivals)
      /\ g \in Nat /\ n \in Nat /\ g <= n /\ e \in EndType
  BY ConsistentTypes DEF Consistent
<1>2. bytes \in Seq(Nat)
  BY PathAssumption
<1>3. e.wire \o bytes \in Seq(Nat)
  BY <1>1, <1>2, JoinedLen
<1>4. after \in EndType
  BY <1>1, <1>3 DEF WithForeign, EndType
<1>5. /\ after.wire = e.wire \o bytes /\ after.buf = e.buf /\ after.sent = e.sent
      /\ after.got = e.got /\ after.err = e.err /\ after.alien = TRUE
  BY <1>1 DEF WithForeign, EndType
<1> HIDE DEF after
<1>6. PICK rests \in [g .. n -> Seq(Nat)] : Chain(e, rests)
  BY DEF Consistent, Chained
<1>7. /\ rests[g] = e.buf \o e.wire /\ rests[n] = <<>>
      /\ \A i \in g .. n - 1 : rests[i] = encode_frame(e.sent[i + 1]) \o rests[i + 1]
  BY <1>6 DEF Chain
<1> DEFINE more == [i \in g .. n |-> rests[i] \o bytes]
<1>8. more \in [g .. n -> Seq(Nat)]
  <2>1. ASSUME NEW i \in g .. n PROVE rests[i] \o bytes \in Seq(Nat)
    <3>1. rests[i] \in Seq(Nat)
      BY <1>6
    <3> QED
      BY <1>2, <3>1, JoinedLen
  <2> QED
    BY <2>1
<1>9. \A i \in g .. n : more[i] = rests[i] \o bytes
  BY <1>1
<1> HIDE DEF more
<1>10. more[g] = e.buf \o (e.wire \o bytes)
  <2>1. more[g] = e.buf \o e.wire \o bytes
    <3>1. g \in g .. n
      BY <1>1
    <3> QED
      BY <1>7, <1>9, <3>1
  <2>2. e.buf \o e.wire \o bytes = e.buf \o (e.wire \o bytes)
    BY <1>1, <1>2, Regroups
  <2> QED
    BY <2>1, <2>2
<1>11. ASSUME NEW i \in g .. n - 1
       PROVE  more[i] = encode_frame(e.sent[i + 1]) \o more[i + 1]
  <2>1. i \in g .. n /\ i + 1 \in g .. n /\ i + 1 \in 1 .. n
    BY <1>1
  <2>2. more[i] = rests[i] \o bytes /\ more[i + 1] = rests[i + 1] \o bytes
        /\ rests[i + 1] \in Seq(Nat) /\ rests[i] = encode_frame(e.sent[i + 1]) \o rests[i + 1]
    BY <1>7, <1>9, <2>1
  <2>3. encode_frame(e.sent[i + 1]) \in Seq(Nat)
    <3>1. e.sent[i + 1] \in Traffic
      BY <1>1, <2>1, ElementOfSeq
    <3> QED
      BY <3>1, TrafficIsSendable, FrameSurvives, EmptySeq
  <2>4. encode_frame(e.sent[i + 1]) \o rests[i + 1] \o bytes
          = encode_frame(e.sent[i + 1]) \o (rests[i + 1] \o bytes)
    BY <1>2, <2>2, <2>3, Regroups
  <2> QED
    BY <2>2, <2>4
<1>12. more[n] = bytes
  <2>1. n \in g .. n /\ <<>> \o bytes = bytes
    BY <1>1, <1>2, ConcatEmptySeq
  <2> QED
    BY <1>7, <1>9, <2>1
<1>13. Chain(after, more)
  BY <1>5, <1>10, <1>11, <1>12 DEF Chain
<1>14. Chained(after)
  BY <1>5, <1>8, <1>13 DEF Chained
<1>15. (after.err => after.alien) /\ Len(after.got) <= Len(after.sent)
       /\ \A i \in 1 .. Len(after.got) : after.got[i] = Carried(after.sent[i])
  BY <1>1, <1>5 DEF Consistent
<1>16. Consistent(after)
  BY <1>4, <1>14, <1>15 DEF Consistent
<1> QED
  BY <1>16 DEF after

\* A read moves bytes from the wire to the end of the buffer.
LEMMA ReadingKeeps ==
  ASSUME NEW e, Consistent(e), NEW n \in 1 .. Len(e.wire)
  PROVE  Consistent(WithRead(e, n))
<1> DEFINE piece == SubSeq(e.wire, 1, n)
           left == SubSeq(e.wire, n + 1, Len(e.wire))
           after == WithRead(e, n)
<1>1. /\ e.wire \in Seq(Nat) /\ e.buf \in Seq(Nat) /\ e \in EndType
  BY ConsistentTypes DEF Consistent
<1>2. piece \in Seq(Nat) /\ left \in Seq(Nat) /\ piece \o left = e.wire
  <2>1. Len(e.wire) \in Nat
    BY <1>1, LenProperties
  <2>2. piece \in Seq(Nat) /\ left \in Seq(Nat)
    BY <1>1, <2>1, Cuts
  <2>3. 1 \in 1 .. Len(e.wire) + 1 /\ n \in 1 - 1 .. Len(e.wire) /\ Len(e.wire) \in n .. Len(e.wire)
    BY <2>1
  <2>4. piece \o left = SubSeq(e.wire, 1, Len(e.wire))
    BY <1>1, <2>3, ConcatAdjacentSubSeq
  <2> QED
    BY <1>1, <2>2, <2>4, SubSeqFull
<1> HIDE DEF piece, left
<1>3. e.buf \o piece \in Seq(Nat) /\ e.buf \o piece \o left = e.buf \o e.wire
  <2>1. e.buf \o piece \o left = e.buf \o (piece \o left)
    BY <1>1, <1>2, Regroups
  <2> QED
    BY <1>1, <1>2, <2>1, JoinedLen
<1>4. after = [e EXCEPT !.buf = e.buf \o piece, !.wire = left]
  BY <1>1 DEF WithRead, EndType, piece, left
<1> HIDE DEF after
<1>5. after \in EndType
  BY <1>1, <1>2, <1>3, <1>4 DEF EndType
<1>6. /\ after.wire = left /\ after.buf = e.buf \o piece /\ after.sent = e.sent
      /\ after.got = e.got /\ after.err = e.err /\ after.alien = e.alien
  BY <1>1, <1>4 DEF EndType
<1>7. after.buf \o after.wire = e.buf \o e.wire
  BY <1>3, <1>6
<1>8. Chained(after)
  <2>1. PICK rests \in [Len(e.got) .. Len(e.sent) -> Seq(Nat)] : Chain(e, rests)
    BY DEF Consistent, Chained
  <2>2. Chain(after, rests)
    BY <1>6, <1>7, <2>1 DEF Chain
  <2> QED
    BY <1>6, <2>1, <2>2 DEF Chained
<1>9. (after.err => after.alien) /\ Len(after.got) <= Len(after.sent)
      /\ \A i \in 1 .. Len(after.got) : after.got[i] = Carried(after.sent[i])
  BY <1>6 DEF Consistent
<1>10. Consistent(after)
  BY <1>5, <1>8, <1>9 DEF Consistent
<1> QED
  BY <1>10 DEF after

\* What a turn of a reader finds: the next frame that was sent, or foreign bytes.
NextIsDecoded(e) ==
  LET result == decode_frame(e.buf) IN
  \/ IsError(result) /\ e.alien
  \/ /\ ~IsError(result) /\ Len(e.got) < Len(e.sent)
     /\ result.frame = Carried(e.sent[Len(e.got) + 1])
     /\ Consistent(WithDecoded(e, result.frame, result.rest))

\* An empty buffer holds no frame.
LEMMA NothingIsDecoded == IsMore(More) /\ decode_frame(<<>>) = More
BY DEF IsMore, More, decode_frame, HEADER_LEN

\* What is decoded is the next frame, and the rest stays consistent; or it fails on
\* foreign bytes.
LEMMA DecodingKeeps ==
  ASSUME NEW e, Consistent(e), ~IsMore(decode_frame(e.buf))
  PROVE  NextIsDecoded(e)
<1> DEFINE g == Len(e.got)
           n == Len(e.sent)
           result == decode_frame(e.buf)
<1>1. /\ e.wire \in Seq(Nat) /\ e.buf \in Seq(Nat) /\ e.sent \in Seq(Traffic) /\ e.got \in Seq(Arrivals)
      /\ g \in Nat /\ n \in Nat /\ g <= n /\ e \in EndType
  BY ConsistentTypes DEF Consistent
<1>2. PICK rests \in [g .. n -> Seq(Nat)] : Chain(e, rests)
  BY DEF Consistent, Chained
<1>3. /\ rests[g] = e.buf \o e.wire
      /\ rests[n] \in IF e.alien THEN Foreign ELSE {<<>>}
      /\ \A i \in g .. n - 1 : rests[i] = encode_frame(e.sent[i + 1]) \o rests[i + 1]
  BY <1>2 DEF Chain
<1>4. CASE g = n
  <2>1. CASE ~e.alien
    <3>1. e.buf \o e.wire = <<>>
      BY <1>3, <1>4, <2>1
    <3>2. e.buf = <<>>
      BY <1>1, <3>1, ConcatEqualIffEmpty
    <3> QED
      BY <3>2, NothingIsDecoded
  <2>2. CASE e.alien
    <3>1. e.buf \o e.wire \in Foreign
      BY <1>3, <1>4, <2>2
    <3>2. e.buf = SubSeq(e.buf \o e.wire, 1, Len(e.buf)) /\ Len(e.buf) \in 0 .. Len(e.buf \o e.wire)
      BY <1>1, Beginning
    <3>3. \A b \in Foreign : \A k \in 0 .. Len(b) :
             IsMore(decode_frame(SubSeq(b, 1, k))) \/ IsError(decode_frame(SubSeq(b, 1, k)))
      BY PathAssumption
    <3>4. IsMore(result) \/ IsError(result)
      BY <3>1, <3>2, <3>3
    <3> QED
      BY <2>2, <3>4 DEF NextIsDecoded
  <2> QED
    BY <2>1, <2>2
<1>5. CASE g < n
  <2> DEFINE f == e.sent[g + 1]
             rest == rests[g + 1]
  <2>1. /\ g \in g .. n - 1 /\ g + 1 \in g .. n /\ g + 1 \in 1 .. n
    BY <1>1, <1>5
  <2>2. f \in Traffic
    BY <1>1, <2>1, ElementOfSeq
  <2>3. Sendable(f)
    BY <2>2, TrafficIsSendable
  <2>4. rest \in Seq(Nat)
    BY <1>2, <2>1
  <2>5. e.buf \o e.wire = encode_frame(f) \o rest
    BY <1>3, <2>1
  <2> HIDE DEF f, rest
  <2>6. encode_frame(f) \in Seq(Nat)
    BY <2>3, <2>4, FrameSurvives
  <2>7. ~(Len(e.buf) < Len(encode_frame(f)))
    BY <1>1, <2>3, <2>4, <2>5, FrameIsAwaited, NothingIsDecoded
  <2>8. Len(encode_frame(f)) <= Len(e.buf)
    BY <1>1, <2>6, <2>7, LenProperties
  <2>9. PICK r \in Seq(Nat) : e.buf = encode_frame(f) \o r /\ rest = r \o e.wire
    <3>1. BeginsWith(e.buf, e.wire, encode_frame(f), rest)
      BY <1>1, <2>4, <2>5, <2>6, <2>8, Begins
    <3> QED
      BY <3>1 DEF BeginsWith
  <2>10. result = [frame |-> Carried(f), rest |-> r]
    BY <2>3, <2>9, FrameSurvives DEF Decoded
  <2> HIDE DEF result
  <2>11. result.frame = Carried(f) /\ result.rest = r /\ ~IsError(result)
    <3>1. DOMAIN result = {"frame", "rest"}
      BY <2>10
    <3> QED
      BY <2>10, <3>1 DEF IsError
  <2> DEFINE after == WithDecoded(e, Carried(f), r)
  <2>12. Carried(f) \in Arrivals
    BY <2>2 DEF Arrivals
  <2>13. /\ Append(e.got, Carried(f)) \in Seq(Arrivals) /\ Len(Append(e.got, Carried(f))) = g + 1
         /\ \A i \in 1 .. g : Append(e.got, Carried(f))[i] = e.got[i]
         /\ Append(e.got, Carried(f))[g + 1] = Carried(f)
    BY <1>1, <2>12, AppendProperties
  <2>14. after \in EndType
    BY <1>1, <2>9, <2>13 DEF WithDecoded, EndType
  <2>15. /\ after.wire = e.wire /\ after.buf = r /\ after.sent = e.sent
         /\ after.got = Append(e.got, Carried(f)) /\ after.err = e.err /\ after.alien = e.alien
    BY <1>1 DEF WithDecoded, EndType
  <2> HIDE DEF after
  <2>16. Len(after.got) = g + 1 /\ Len(after.sent) = n /\ g + 1 <= n
    BY <1>1, <1>5, <2>13, <2>15
  <2>17. \A i \in 1 .. g + 1 : after.got[i] = Carried(after.sent[i])
    <3>1. ASSUME NEW i \in 1 .. g + 1 PROVE after.got[i] = Carried(after.sent[i])
      <4>1. CASE i = g + 1
        BY <2>13, <2>15, <4>1 DEF f
      <4>2. CASE i # g + 1
        <5>1. i \in 1 .. g
          BY <1>1, <4>2
        <5>2. e.got[i] = Carried(e.sent[i])
          BY <5>1 DEF Consistent
        <5> QED
          BY <2>13, <2>15, <5>1, <5>2
      <4> QED
        BY <4>1, <4>2
    <3> QED
      BY <3>1
  <2>18. Chained(after)
    <3> DEFINE fewer == [i \in g + 1 .. n |-> rests[i]]
    <3>1. fewer \in [g + 1 .. n -> Seq(Nat)] /\ \A i \in g + 1 .. n : fewer[i] = rests[i]
      BY <1>1, <1>2
    <3> HIDE DEF fewer
    <3>2. g + 1 \in g + 1 .. n /\ n \in g + 1 .. n
      BY <1>1, <1>5
    <3>3. fewer[g + 1] = r \o e.wire
      BY <2>9, <3>1, <3>2 DEF rest
    <3>4. ASSUME NEW i \in g + 1 .. n - 1
          PROVE  fewer[i] = encode_frame(e.sent[i + 1]) \o fewer[i + 1]
      <4>1. i \in g .. n - 1 /\ i \in g + 1 .. n /\ i + 1 \in g + 1 .. n
        BY <1>1
      <4> QED
        BY <1>3, <3>1, <4>1
    <3>5. fewer[n] \in IF e.alien THEN Foreign ELSE {<<>>}
      BY <1>3, <3>1, <3>2
    <3>6. Chain(after, fewer)
      BY <2>15, <2>16, <3>3, <3>4, <3>5 DEF Chain
    <3> QED
      BY <2>16, <3>1, <3>6 DEF Chained
  <2>19. after.err => after.alien
    BY <2>15 DEF Consistent
  <2>20. Consistent(after)
    BY <2>14, <2>16, <2>17, <2>18, <2>19 DEF Consistent
  <2> QED
    BY <1>5, <2>11, <2>20 DEF NextIsDecoded, after, f, result
<1> QED
  BY <1>1, <1>4, <1>5

-----------------------------------------------------------------------------
(* The frontends dial addresses.                                           *)

\* What decode returns of bytes it accepts.
LEMMA DecodedIsAddress ==
  ASSUME NEW src \in Seq(Nat), ~IsError(decode(src)),
         decode(src).kind = KIND_DOMAIN => validate_domain(decode(src).host)
  PROVE  decode(src) \in Addresses
<1> USE DEF KIND_V4, KIND_V6, KIND_DOMAIN
<1>1. \A x : IsError(Failed(x))
  BY DEF IsError, Failed
<1>2. V4_LEN \in Nat /\ V6_LEN \in Nat /\ LenMod \in Nat
  BY AddrAssumption
<1>3. Len(src) \in Nat /\ \A i \in 1 .. Len(src) : src[i] \in Nat
  BY LenProperties, ElementOfSeq
<1>4. ASSUME NEW k \in {1, 2}, NEW n \in Nat, decode(src) = Take(src, k, n),
             src[1] \in {KIND_V4, KIND_V6, KIND_DOMAIN},
             src[1] = KIND_V4 => n = V4_LEN, src[1] = KIND_V6 => n = V6_LEN
      PROVE  decode(src) \in Addresses
  <2> DEFINE host == SubSeq(src, k + 1, k + n)
  <2>1. ~(Len(src) < k + n + 1)
    BY <1>1, <1>4 DEF Take
  <2>2. host \in Seq(Nat) /\ Len(host) = n
    <3>1. k + 1 \in Nat \ {0} /\ k + n \in Nat /\ k + n <= Len(src) /\ k + 1 <= k + n + 1
      BY <1>3, <2>1
    <3>2. host \in Seq(Nat) /\ Len(host) = k + n - (k + 1) + 1
      BY <3>1, Cuts
    <3> HIDE DEF host
    <3> QED
      BY <3>2
  <2>3. ~(src[1] = KIND_DOMAIN /\ (host = <<>> \/ NotUtf8 \in Range(host)))
    BY <1>1, <1>4, <2>1 DEF Take
  <2>4. decode(src) = [kind |-> src[1], host |-> host, port |-> src[k + n + 1]]
    BY <1>4, <2>1, <2>3 DEF Take
  <2>5. src[k + n + 1] \in Nat
    <3>1. k + n + 1 \in 1 .. Len(src)
      BY <1>3, <2>1
    <3> QED
      BY <1>3, <3>1
  <2> HIDE DEF host
  <2>6. src[1] = KIND_DOMAIN => Len(host) \in 1 .. LenMod - 1
    <3>1. CASE src[1] = KIND_DOMAIN
      <4>1. host # <<>> /\ Len(host) <= LenMod - 1
        BY <2>4, <3>1 DEF validate_domain
      <4>2. Len(host) # 0
        BY <2>2, <4>1, EmptySeq
      <4> QED
        BY <1>2, <2>2, <4>1, <4>2
    <3> QED
      BY <3>1
  <2> DEFINE addr == [kind |-> src[1], host |-> host, port |-> src[k + n + 1]]
  <2>7. addr.kind = src[1] /\ addr.host = host /\ addr.port = src[k + n + 1]
        /\ addr = [kind |-> addr.kind, host |-> addr.host, port |-> addr.port]
    OBVIOUS
  <2>8. addr \in [kind : {KIND_V4, KIND_V6, KIND_DOMAIN}, host : Seq(Nat), port : Nat]
    BY <1>4, <2>2, <2>5
  <2> HIDE DEF addr
  <2>9. Encodable(addr)
    BY <1>4, <2>2, <2>3, <2>5, <2>6, <2>7 DEF Encodable
  <2>10. addr \in Addresses
    BY <2>8, <2>9 DEF Addresses
  <2> QED
    BY <2>4, <2>10 DEF addr
<1>5. src # <<>> /\ src[1] \in {KIND_V4, KIND_V6, KIND_DOMAIN}
  BY <1>1 DEF decode
<1>6. CASE src[1] = KIND_V4
  <2>1. decode(src) = Take(src, 1, V4_LEN)
    BY <1>5, <1>6 DEF decode
  <2> QED
    BY <1>2, <1>4, <1>6, <2>1
<1>7. CASE src[1] = KIND_V6
  <2>1. decode(src) = Take(src, 1, V6_LEN)
    BY <1>5, <1>7 DEF decode
  <2> QED
    BY <1>2, <1>4, <1>7, <2>1
<1>8. CASE src[1] = KIND_DOMAIN
  <2>1. ~(Len(src) < 2) /\ decode(src) = Take(src, 2, src[2])
    BY <1>1, <1>5, <1>8 DEF decode
  <2>2. src[2] \in Nat
    BY <1>3, <2>1
  <2> QED
    BY <1>4, <1>8, <2>1, <2>2
<1> QED
  BY <1>5, <1>6, <1>7, <1>8

\* What the authority of a request line is read as.
LEMMA AuthorityIsAddress ==
  ASSUME NEW b \in DOMAIN RequestLine, parse_authority(RequestLine[b]) # NoTarget
  PROVE  parse_authority(RequestLine[b]) \in Addresses
<1> USE DEF KIND_V4, KIND_V6, KIND_DOMAIN
<1> DEFINE a == RequestLine[b]
           ip == IpOf(a.host)
<1>1. a.host \in Seq(Nat) /\ NotUtf8 \notin Range(a.host)
  BY FrontendAssumption
<1>2. /\ V4_LEN \in Nat /\ V6_LEN \in Nat /\ LenMod \in Nat /\ Port \subseteq Nat
      /\ \A i \in DOMAIN IpText : IpText[i][2] \in Seq(Nat) /\ Len(IpText[i][2]) \in {V4_LEN, V6_LEN}
  BY AddrAssumption
<1>3. ip # <<>> => ip \in Seq(Nat) /\ Len(ip) \in {V4_LEN, V6_LEN}
  BY <1>2 DEF IpOf
<1> HIDE DEF a, ip
<1>4. ASSUME NEW kind \in {KIND_V4, KIND_V6, KIND_DOMAIN}, NEW host \in Seq(Nat), NEW port \in Nat,
             \/ kind = KIND_V4 /\ Len(host) = V4_LEN
             \/ kind = KIND_V6 /\ Len(host) = V6_LEN
             \/ kind = KIND_DOMAIN /\ Len(host) \in 1 .. LenMod - 1 /\ NotUtf8 \notin Range(host)
      PROVE  [kind |-> kind, host |-> host, port |-> port] \in Addresses
  <2> DEFINE addr == [kind |-> kind, host |-> host, port |-> port]
  <2>1. addr.kind = kind /\ addr.host = host /\ addr.port = port
        /\ addr = [kind |-> addr.kind, host |-> addr.host, port |-> addr.port]
        /\ addr \in [kind : {KIND_V4, KIND_V6, KIND_DOMAIN}, host : Seq(Nat), port : Nat]
    OBVIOUS
  <2> HIDE DEF addr
  <2>2. Encodable(addr)
    BY <1>4, <2>1 DEF Encodable
  <2>3. addr \in Addresses
    BY <2>1, <2>2 DEF Addresses
  <2> QED
    BY <2>3 DEF addr
<1>5. CASE a.port \in Port /\ ip # <<>>
  <2>1. parse_authority(a) = OfIp(ip, a.port)
    BY <1>5 DEF parse_authority, ip
  <2>2. OfIp(ip, a.port) = [kind |-> IF Len(ip) = V4_LEN THEN KIND_V4 ELSE KIND_V6, host |-> ip, port |-> a.port]
    BY DEF OfIp, V4, V6
  <2> QED
    BY <1>2, <1>3, <1>4, <1>5, <2>1, <2>2 DEF a
<1>6. CASE a.port \in Port /\ ip = <<>>
  <2>1. validate_domain(a.host) /\ parse_authority(a) = Domain(a.host, a.port)
    BY <1>6 DEF parse_authority, ip, a
  <2>2. Len(a.host) \in 1 .. LenMod - 1
    <3>1. a.host # <<>> /\ Len(a.host) <= LenMod - 1 /\ Len(a.host) \in Nat
      BY <1>1, <2>1, LenProperties DEF validate_domain
    <3>2. Len(a.host) # 0
      BY <1>1, <3>1, EmptySeq
    <3> QED
      BY <1>2, <3>1, <3>2
  <2>3. Domain(a.host, a.port) \in Addresses
    BY <1>1, <1>2, <1>4, <1>6, <2>2 DEF Domain
  <2> QED
    BY <2>1, <2>3 DEF a
<1> QED
  BY <1>5, <1>6 DEF parse_authority, a, ip

-----------------------------------------------------------------------------
(* The invariant.                                                          *)

\* Where the two directions of a relay are.
Relaying == [up : {"none", "copying", "shut"}, down : {"none", "copying", "ended", "shut"}]

\* A connection: what is read is what has arrived, read_exact waits for what the
\* step needs, from the dial on there is a target that can be encoded, and the upstream's
\* half is shut down behind all that the application sent.
FrontHolds ==
  /\ script.bytes \in Seq(Nat)
  /\ arrived \in 0 .. Len(script.bytes) /\ rd \in 0 .. arrived
  /\ want \in Nat /\ scanned \in Nat /\ (~Served => held \in Seq(Nat))
  /\ pc \in {"greeting", "auth"} => want = 2
  /\ pc = "request" => want = 3
  /\ pc \in {"atyp", "length"} => want = 1
  /\ pc = "user" => want >= 1
  /\ pc = "dial" \/ Served => target \in Addresses /\ proto # "frames"
  /\ pc \in {"relay", "done"} => Served
  /\ Served => pc \in {"relay", "done", "broken"}
  /\ relay \in Relaying
  /\ relay.up = "shut" => closed /\ arrived = rd /\ held = <<>>
  /\ proto = "frames" => script.bytes = <<>>

\* The frames of a connection with an application are the Open of its dial, and
\* the helper connects to the target of that.
PathHolds ==
  /\ FrontHolds
  /\ link \in [Direction -> EndType]
  /\ \A d \in Direction : Consistent(link[d])
  /\ link["up"].alien => proto = "frames"
  /\ ~link["down"].alien
  /\ proto # "frames" =>
       /\ \A i \in 1 .. Len(link["up"].sent) : link["up"].sent[i] = Open(1, target)
       /\ Len(link["up"].sent) > 0 => Served
  /\ egress # NoTarget => proto # "frames" /\ Served /\ egress = target

\* A step of a frontend, which leaves the target of a connection that is served.
ServesOn == (Served => Served' /\ target' = target) /\ proto' = proto

\* The invariant holds at the start.
LEMMA PathStarts == Init => PathHolds
<1> SUFFICES ASSUME Init PROVE PathHolds
  OBVIOUS
<1>1. FInit /\ link = [d \in Direction |-> Idle] /\ egress = NoTarget
  BY DEF Init
<1>2. script.bytes \in Seq(Nat) /\ (proto = "frames" => script.bytes = <<>>)
  BY <1>1, FrontendAssumption, PathAssumption DEF FInit
<1>3. FrontHolds
  <2>1. 0 \in 0 .. Len(script.bytes)
    BY <1>2, LenProperties
  <2> QED
    BY <1>1, <1>2, <2>1 DEF FInit, FrontHolds, Served, NoRelay, Relaying
<1>4. Consistent(Idle) /\ Idle \in EndType /\ Idle.alien = FALSE /\ Idle.sent = <<>>
  BY IdleIsConsistent DEF Consistent, Idle
<1>5. "up" \in Direction /\ "down" \in Direction
  BY DEF Direction
<1> QED
  BY <1>1, <1>3, <1>4, <1>5 DEF PathHolds

\* What read_exact returns.
LEMMA GotIsRead ==
  ASSUME FrontHolds, NEW at, Reading(at)
  PROVE  /\ Got \in Seq(Nat) /\ Len(Got) = want /\ \A i \in 1 .. want : Got[i] \in Nat
         /\ rd' \in 0 .. arrived /\ pc = at /\ proto = "socks5"
<1>1. /\ script.bytes \in Seq(Nat) /\ Len(script.bytes) \in Nat /\ arrived \in 0 .. Len(script.bytes)
      /\ rd \in 0 .. arrived /\ want \in Nat /\ arrived - rd >= want /\ rd' = rd + want
      /\ pc = at /\ proto = "socks5"
  BY LenProperties DEF FrontHolds, Reading
<1>2. /\ rd + 1 \in Nat \ {0} /\ rd + want \in Nat /\ rd + want <= Len(script.bytes)
      /\ rd + 1 <= rd + want + 1 /\ rd + want - (rd + 1) + 1 = want
  BY <1>1
<1>3. Got \in Seq(Nat) /\ Len(Got) = want
  BY <1>1, <1>2, Cuts DEF Got
<1>4. \A i \in 1 .. Len(Got) : Got[i] \in Nat
  BY <1>3, ElementOfSeq
<1> QED
  BY <1>1, <1>2, <1>3, <1>4

\* The steps of SOCKS5.
LEMMA Socks5Keeps == FrontHolds /\ Socks5 => FrontHolds' /\ ServesOn
<1> SUFFICES ASSUME FrontHolds, Socks5 PROVE FrontHolds' /\ ServesOn
  OBVIOUS
<1> USE DEF Quits, Next_, Says
<1>0. want \in Nat /\ held \in Seq(Nat) /\ <<>> \in Seq(Nat)
  <2>1. pc \notin {"relay", "done", "broken"}
    BY DEF Socks5, Greeting, Methods, Auth, AuthUser, AuthPass, Request, AddrType, NameLength, Address,
           Starves, Reading, Ended
  <2> QED
    BY <2>1, EmptySeq DEF FrontHolds
<1>1. UNCHANGED <<proto, creds, script, arrived, closed>> /\ UNCHANGED <<scanned, leftover, up, relay>>
  BY DEF Socks5, Unsaid, client
<1>2. ASSUME NEW at, Reading(at), Got \in Seq(Nat), rd' \in 0 .. arrived, want' \in Nat, held' \in Seq(Nat),
             at \notin {"dial", "relay", "done", "broken"}, pc' \notin {"relay", "done"},
             pc' \in {"greeting", "auth"} => want' = 2,
             pc' = "request" => want' = 3,
             pc' \in {"atyp", "length"} => want' = 1,
             pc' = "user" => want' >= 1,
             pc' = "dial" => target' \in Addresses
      PROVE  FrontHolds' /\ ServesOn
  <2>1. proto = "socks5" /\ pc \notin {"dial", "relay", "done", "broken"}
    BY <1>2 DEF Reading
  <2>2. ~Served /\ relay.up = "none"
    BY <2>1 DEF FrontHolds, Served, NoRelay
  <2> QED
    BY <1>1, <1>2, <2>1, <2>2 DEF FrontHolds, ServesOn, Served
<1>3. CASE Greeting
  <2>1. Reading("greeting")
    BY <1>3 DEF Greeting
  <2>2. Got \in Seq(Nat) /\ rd' \in 0 .. arrived /\ want = 2 /\ Got[2] \in Nat
    BY <2>1, GotIsRead DEF FrontHolds
  <2>3. want' \in Nat /\ held' \in Seq(Nat) /\ pc' \in {"failed", "methods"}
    BY <1>0, <1>3, <2>2, EmptySeq DEF Greeting
  <2> QED
    BY <1>2, <2>1, <2>2, <2>3
<1>4. CASE Methods
  <2>1. Reading("methods")
    BY <1>4 DEF Methods
  <2>2. Got \in Seq(Nat) /\ rd' \in 0 .. arrived
    BY <2>1, GotIsRead
  <2>3. \/ pc' \in {"closed", "failed"} /\ want' = want /\ held' = held
        \/ pc' = "auth" /\ want' = 2 /\ held' = <<>>
        \/ pc' = "request" /\ want' = 3 /\ held' = <<>>
    BY <1>4, Zenon DEF Methods
  <2>4. want' \in Nat /\ held' \in Seq(Nat) /\ (pc' \in {"closed", "failed"} \/ (pc' = "auth" /\ want' = 2) \/ (pc' = "request" /\ want' = 3))
    <3>1. want' \in Nat
      BY <1>0, <2>2, <2>3
    <3>2. held' \in Seq(Nat)
      BY <1>0, <2>2, <2>3
    <3> QED
      BY <2>2, <2>3, <3>1, <3>2
  <2> QED
    BY <1>2, <2>1, <2>2, <2>4
<1>5. CASE Auth
  <2>1. Reading("auth")
    BY <1>5 DEF Auth
  <2>2. Got \in Seq(Nat) /\ rd' \in 0 .. arrived /\ want = 2 /\ Got[2] \in Nat
    BY <2>1, GotIsRead DEF FrontHolds
  <2>3. \/ pc' \in {"closed", "failed"} /\ want' = want /\ held' = held
        \/ pc' = "user" /\ want' = Got[2] + 1 /\ held' = <<>>
    BY <1>5, Zenon DEF Auth
  <2>4. want' \in Nat /\ held' \in Seq(Nat) /\ (pc' \in {"closed", "failed"} \/ (pc' = "user" /\ want' >= 1))
    <3>1. want' \in Nat
      BY <1>0, <2>2, <2>3
    <3>2. held' \in Seq(Nat)
      BY <1>0, <2>2, <2>3
    <3> QED
      BY <2>2, <2>3, <3>1, <3>2
  <2> QED
    BY <1>2, <2>1, <2>2, <2>4
<1>6. CASE AuthUser
  <2>1. Reading("user")
    BY <1>6 DEF AuthUser
  <2>2. Got \in Seq(Nat) /\ Len(Got) = want /\ rd' \in 0 .. arrived /\ want \in 1 .. want /\ Got[want] \in Nat
    BY <2>1, GotIsRead DEF FrontHolds
  <2>3. Front(Got) \in Seq(Nat)
    <3>1. 1 \in Nat \ {0} /\ Len(Got) - 1 \in Nat /\ Len(Got) - 1 <= Len(Got) /\ 1 <= Len(Got) - 1 + 1
      BY <2>2
    <3> QED
      BY <2>2, <3>1, Cuts DEF Front
  <2>4. want' \in Nat /\ held' \in Seq(Nat) /\ pc' = "pass"
    BY <1>6, <2>2, <2>3 DEF AuthUser
  <2> QED
    BY <1>2, <2>1, <2>2, <2>4
<1>7. CASE AuthPass
  <2>1. Reading("pass")
    BY <1>7 DEF AuthPass
  <2>2. Got \in Seq(Nat) /\ rd' \in 0 .. arrived
    BY <2>1, GotIsRead
  <2>3. \/ pc' \in {"closed", "failed"} /\ want' = want /\ held' = held
        \/ pc' = "request" /\ want' = 3 /\ held' = <<>>
    BY <1>7, Zenon DEF AuthPass
  <2>4. want' \in Nat /\ held' \in Seq(Nat) /\ (pc' \in {"closed", "failed"} \/ (pc' = "request" /\ want' = 3))
    <3>1. want' \in Nat
      BY <1>0, <2>2, <2>3
    <3>2. held' \in Seq(Nat)
      BY <1>0, <2>2, <2>3
    <3> QED
      BY <2>2, <2>3, <3>1, <3>2
  <2> QED
    BY <1>2, <2>1, <2>2, <2>4
<1>8. CASE Request
  <2>1. Reading("request")
    BY <1>8 DEF Request
  <2>2. Got \in Seq(Nat) /\ rd' \in 0 .. arrived
    BY <2>1, GotIsRead
  <2>3. \/ pc' \in {"closed", "failed"} /\ want' = want /\ held' = held
        \/ pc' = "atyp" /\ want' = 1 /\ held' = <<>>
    BY <1>8, Zenon DEF Request
  <2>4. want' \in Nat /\ held' \in Seq(Nat) /\ (pc' \in {"closed", "failed"} \/ (pc' = "atyp" /\ want' = 1))
    <3>1. want' \in Nat
      BY <1>0, <2>2, <2>3
    <3>2. held' \in Seq(Nat)
      BY <1>0, <2>2, <2>3
    <3> QED
      BY <2>2, <2>3, <3>1, <3>2
  <2> QED
    BY <1>2, <2>1, <2>2, <2>4
<1>9. CASE AddrType
  <2>1. Reading("atyp")
    BY <1>9 DEF AddrType
  <2>2. Got \in Seq(Nat) /\ rd' \in 0 .. arrived /\ V4_LEN \in Nat /\ V6_LEN \in Nat
    BY <2>1, GotIsRead, AddrAssumption
  <2>3. want' \in Nat /\ held' \in Seq(Nat) /\ (pc' \in {"closed", "addr"} \/ (pc' = "length" /\ want' = 1))
    <3>1. CASE Got[1] = KIND_V4
      BY <1>9, <2>2, <3>1 DEF AddrType, KIND_V4, KIND_V6, KIND_DOMAIN
    <3>2. CASE Got[1] = KIND_V6
      BY <1>9, <2>2, <3>2 DEF AddrType, KIND_V4, KIND_V6, KIND_DOMAIN
    <3>3. CASE Got[1] = KIND_DOMAIN
      BY <1>9, <2>2, <3>3 DEF AddrType, KIND_V4, KIND_V6, KIND_DOMAIN
    <3>4. CASE Got[1] \notin {KIND_V4, KIND_V6, KIND_DOMAIN}
      BY <1>0, <1>9, <2>2, <3>4 DEF AddrType
    <3> QED
      BY <3>1, <3>2, <3>3, <3>4
  <2> QED
    BY <1>2, <2>1, <2>2, <2>3
<1>10. CASE NameLength
  <2>1. Reading("length")
    BY <1>10 DEF NameLength
  <2>2. Got \in Seq(Nat) /\ rd' \in 0 .. arrived /\ Got[1] \in Nat /\ held \in Seq(Nat)
    BY <2>1, GotIsRead DEF FrontHolds
  <2>3. held \o Got \in Seq(Nat)
    BY <2>2, JoinedLen
  <2>4. \/ pc' = "failed" /\ want' = want /\ held' = held
        \/ pc' = "addr" /\ want' = Got[1] + 1 /\ held' = held \o Got
    BY <1>10, Zenon DEF NameLength
  <2>5. want' \in Nat /\ held' \in Seq(Nat) /\ pc' \in {"failed", "addr"}
    <3>1. want' \in Nat
      BY <1>0, <2>2, <2>4
    <3>2. held' \in Seq(Nat)
      BY <1>0, <2>3, <2>4
    <3> QED
      BY <2>4, <3>1, <3>2
  <2> QED
    BY <1>2, <2>1, <2>2, <2>5
<1>11. CASE Address
  <2> DEFINE addr == decode(held \o Got)
  <2>1. Reading("addr")
    BY <1>11 DEF Address
  <2>2. Got \in Seq(Nat) /\ rd' \in 0 .. arrived /\ held \in Seq(Nat) /\ held \o Got \in Seq(Nat)
    BY <2>1, GotIsRead, JoinedLen DEF FrontHolds
  <2>3. CASE IsError(addr) \/ (addr.kind = KIND_DOMAIN /\ ~validate_domain(addr.host))
    <3>1. want' \in Nat /\ held' \in Seq(Nat) /\ pc' = "failed"
      BY <1>11, <2>2, <2>3 DEF Address, FrontHolds
    <3> QED
      BY <1>2, <2>1, <2>2, <3>1
  <2>4. CASE ~IsError(addr) /\ (addr.kind = KIND_DOMAIN => validate_domain(addr.host))
    <3>1. addr \in Addresses
      BY <2>2, <2>4, DecodedIsAddress
    <3>2. want' = 0 /\ held' = <<>> /\ pc' = "dial" /\ target' = addr
      BY <1>11, <2>4, Zenon DEF Address
    <3> QED
      BY <1>2, <2>1, <2>2, <3>1, <3>2, EmptySeq
  <2> QED
    BY <2>3, <2>4
<1>12. CASE Starves
  <2>1. /\ rd' = rd /\ want' = want /\ held' = held /\ target' = target /\ pc' = "failed"
        /\ pc \notin {"dial", "relay", "done", "broken"}
    BY <1>12 DEF Starves, Ended
  <2> QED
    BY <1>1, <2>1 DEF FrontHolds, ServesOn, Served
<1> QED
  BY <1>3, <1>4, <1>5, <1>6, <1>7, <1>8, <1>9, <1>10, <1>11, <1>12 DEF Socks5

\* A head that is not refused names an address.
LEMMA AcceptedHead ==
  ASSUME NEW head, Refusal(head) = 0
  PROVE  parse_authority(Asked(head)) \in Addresses
<1>1. ~(\/ NotUtf8 \in Range(head)
        \/ Len(Lines(head)[1]) # 1
        \/ Lines(head)[1][1] \notin DOMAIN RequestLine
        \/ Asked(head).version = "none")
  BY DEF Refusal
<1>2. parse_authority(Asked(head)) # NoTarget
  BY <1>1 DEF Refusal
<1>3. Lines(head)[1][1] \in DOMAIN RequestLine
  BY <1>1
<1> QED
  BY <1>2, <1>3, AuthorityIsAddress DEF Asked

\* The steps of HTTP CONNECT.
LEMMA HttpKeeps == FrontHolds /\ HttpConnect => FrontHolds' /\ ServesOn
<1> SUFFICES ASSUME FrontHolds, HttpConnect PROVE FrontHolds' /\ ServesOn
  OBVIOUS
<1>1. UNCHANGED <<proto, creds, script, arrived, closed, want, held, up, relay>>
  BY DEF HttpConnect, client
<1>2. /\ script.bytes \in Seq(Nat) /\ Len(script.bytes) \in Nat /\ arrived \in 0 .. Len(script.bytes)
      /\ rd \in 0 .. arrived /\ scanned \in Nat /\ rd \in Nat /\ arrived \in Nat
      /\ proto = "frames" => rd = 0
  <2>1. script.bytes \in Seq(Nat) /\ Len(script.bytes) \in Nat /\ (proto = "frames" => Len(script.bytes) = 0)
    BY LenProperties, EmptySeq DEF FrontHolds
  <2> QED
    BY <2>1 DEF FrontHolds
<1>3. ASSUME pc \notin {"dial", "relay", "done", "broken"}, rd' \in 0 .. arrived, scanned' \in Nat,
             \/ pc' \in {"read", "scan", "failed", "closed"}
             \/ pc' = "dial" /\ target' \in Addresses /\ proto # "frames"
      PROVE  FrontHolds' /\ ServesOn
  <2>1. ~Served /\ relay.up = "none"
    BY <1>3 DEF FrontHolds, Served, NoRelay
  <2> QED
    BY <1>1, <1>2, <1>3, <2>1 DEF FrontHolds, ServesOn, Served
<1>4. CASE Scan
  <2>1. pc = "scan" /\ rd' = rd
    BY <1>4 DEF Scan
  <2>2. CASE Separators(scanned) # {}
    <3> DEFINE end == Min(Separators(scanned)) + 4
               head == SubSeq(buf, 1, end)
    <3>1. proto # "frames"
      <4>1. PICK k \in scanned .. rd - 4 : TRUE
        BY <2>2 DEF Separators
      <4> QED
        BY <1>2, <4>1
    <3>2. Head_(end) /\ scanned' = scanned
      BY <1>4, <2>2, Zenon DEF Scan
    <3> HIDE DEF end
    <3>3. \/ pc' \in {"closed", "failed"}
          \/ Refusal(head) = 0 /\ target' = parse_authority(Asked(head)) /\ pc' = "dial"
      BY <3>2, Zenon DEF Head_, Rejects
    <3>4. \/ pc' \in {"closed", "failed"}
          \/ target' \in Addresses /\ pc' = "dial"
      BY <3>3, AcceptedHead, Zenon
    <3> QED
      BY <1>2, <1>3, <2>1, <3>1, <3>2, <3>4
  <2>3. CASE Separators(scanned) = {}
    <3>1. /\ scanned' = IF rd > 3 THEN rd - 3 ELSE 0
          /\ pc' \in {"closed", "failed", "read"}
      BY <1>4, <2>3 DEF Scan, Rejects
    <3> QED
      BY <1>2, <1>3, <2>1, <3>1
  <2> QED
    BY <2>2, <2>3
<1>5. CASE ReadChunk
  <2>1. /\ pc = "read" /\ arrived > rd /\ pc' = "scan" /\ scanned' = scanned
        /\ rd' = rd + Min({READ_CHUNK, arrived - rd})
    BY <1>5 DEF ReadChunk
  <2>2. READ_CHUNK \in Nat \ {0} /\ arrived - rd \in Nat \ {0}
    BY <1>2, <2>1, FrontendAssumption
  <2>3. Min({READ_CHUNK, arrived - rd}) \in Nat /\ Min({READ_CHUNK, arrived - rd}) <= arrived - rd
    <3> DEFINE d == arrived - rd
    <3>1. d \in Nat /\ READ_CHUNK \in Nat
      BY <2>2
    <3> HIDE DEF d
    <3>2. \E x \in {READ_CHUNK, d} : \A y \in {READ_CHUNK, d} : x <= y
      BY <3>1
    <3>3. Min({READ_CHUNK, d}) \in {READ_CHUNK, d} /\ Min({READ_CHUNK, d}) <= d
      BY <3>2 DEF Min
    <3>4. Min({READ_CHUNK, d}) \in Nat /\ Min({READ_CHUNK, d}) <= d
      BY <3>1, <3>3
    <3> QED
      BY <3>4 DEF d
  <2>4. rd' \in 0 .. arrived
    BY <1>2, <2>1, <2>3
  <2> QED
    BY <1>2, <1>3, <2>1, <2>4
<1>6. CASE ReadEof
  <2>1. pc = "read" /\ pc' = "failed" /\ rd' = rd /\ scanned' = scanned
    BY <1>6 DEF ReadEof
  <2> QED
    BY <1>2, <1>3, <2>1
<1> QED
  BY <1>4, <1>5, <1>6 DEF HttpConnect

\* The relay, the sockets, and the dial that fails.
LEMMA RelayKeeps ==
  FrontHolds /\ (DialFails \/ Relay \/ UpstreamEnds \/ Breaks) => FrontHolds' /\ ServesOn
<1> SUFFICES ASSUME FrontHolds, DialFails \/ Relay \/ UpstreamEnds \/ Breaks
             PROVE  FrontHolds' /\ ServesOn
  OBVIOUS
<1>1. Len(script.bytes) \in Nat /\ NoRelay = [up |-> "none", down |-> "none"]
  BY LenProperties DEF FrontHolds, NoRelay
<1>2. CASE DialFails \/ Breaks
  <2>1. /\ UNCHANGED <<proto, creds, script, arrived, closed, rd, want, held, scanned, target, relay>>
        /\ \/ pc = "dial" /\ pc' \in {"closed", "broken"}
           \/ pc # "dial" /\ pc' = "broken"
    BY <1>2 DEF DialFails, Breaks, client
  <2> QED
    BY <2>1 DEF FrontHolds, ServesOn, Served
<1>3. CASE Relay \/ UpstreamEnds
  <2>1. /\ UNCHANGED <<proto, creds, script, arrived, closed, want, scanned, target>>
        /\ pc = "relay" /\ pc' \in {"relay", "done"}
    BY <1>3 DEF Relay, RelayReads, RelayWrites, RelayShuts, RelayShutsDown, RelayDone, UpstreamEnds, client
  <2>2. Served /\ target \in Addresses /\ proto # "frames"
    BY <2>1 DEF FrontHolds
  <2>3. rd' \in 0 .. arrived
    BY <1>1, <1>3 DEF Relay, RelayReads, RelayWrites, RelayShuts, RelayShutsDown, RelayDone, UpstreamEnds,
                      FrontHolds
  <2>4. relay' # NoRelay /\ relay' \in Relaying
    <3>1. relay \in Relaying /\ relay # NoRelay
      BY <2>2 DEF FrontHolds, Served
    <3> QED
      BY <1>1, <1>3, <3>1 DEF Relay, RelayReads, RelayWrites, RelayShuts, RelayShutsDown, RelayDone,
                              UpstreamEnds, Relaying
  <2>5. relay'.up = "shut" => closed /\ arrived = rd' /\ held' = <<>>
    <3>1. CASE Relay /\ RelayReads
      BY <1>1, <3>1 DEF RelayReads, FrontHolds
    <3>2. CASE Relay /\ RelayWrites
      <4>1. PICK n \in 1 .. Len(held) : held' = SubSeq(held, n + 1, Len(held))
        BY <3>2 DEF RelayWrites
      <4>2. relay' = relay /\ relay.up # "shut"
        BY <3>2, <4>1 DEF RelayWrites, FrontHolds
      <4> QED
        BY <4>2
    <3>3. CASE Relay /\ RelayShuts
      BY <3>3 DEF RelayShuts
    <3>4. CASE Relay /\ (RelayShutsDown \/ RelayDone)
      <4>1. UNCHANGED <<rd, held>> /\ relay'.up = relay.up
        BY <3>4 DEF RelayShutsDown, RelayDone, FrontHolds, Relaying
      <4> QED
        BY <4>1 DEF FrontHolds
    <3>5. CASE UpstreamEnds
      <4>1. UNCHANGED <<rd, held>> /\ relay'.up = relay.up
        BY <3>5 DEF UpstreamEnds, FrontHolds, Relaying
      <4> QED
        BY <4>1 DEF FrontHolds
    <3> QED
      BY <1>3, <3>1, <3>2, <3>3, <3>4, <3>5 DEF Relay
  <2> QED
    BY <2>1, <2>2, <2>3, <2>4, <2>5 DEF FrontHolds, ServesOn, Served
<1> QED
  BY <1>2, <1>3

\* A dial serves an address that can be encoded.
LEMMA DialKeeps ==
  FrontHolds /\ (DialOk \/ DialBreaks) => FrontHolds' /\ ServesOn /\ Served' /\ target' = target /\ ~Served
<1> SUFFICES ASSUME FrontHolds, DialOk \/ DialBreaks
             PROVE  FrontHolds' /\ ServesOn /\ Served' /\ target' = target /\ ~Served
  OBVIOUS
<1>1. /\ UNCHANGED <<proto, creds, script, arrived, closed, rd, want, scanned, target>>
      /\ pc = "dial" /\ pc' \in {"relay", "broken"} /\ relay' = [up |-> "copying", down |-> "copying"]
  BY DEF DialOk, DialBreaks, Relays, client
<1> QED
  BY <1>1 DEF FrontHolds, ServesOn, Served, NoRelay, Relaying

\* The application only makes bytes arrive, or ends.
LEMMA ApplicationKeeps == FrontHolds /\ (Arrives \/ Closes) => FrontHolds' /\ ServesOn
<1> SUFFICES ASSUME FrontHolds, Arrives \/ Closes PROVE FrontHolds' /\ ServesOn
  OBVIOUS
<1>1. /\ UNCHANGED <<proto, creds, script, pc, rd, want, held, scanned, target, relay>>
      /\ ~closed /\ (arrived' = arrived \/ arrived' \in arrived + 1 .. Len(script.bytes))
  BY DEF Arrives, Closes, server
<1>2. Len(script.bytes) \in Nat
  BY LenProperties DEF FrontHolds
<1> QED
  BY <1>1, <1>2 DEF FrontHolds, ServesOn, Served

\* The steps on link, one direction at a time.
LEMMA SentIs ==
  ASSUME NEW ends \in [Direction -> EndType], NEW d \in Direction, NEW f
  PROVE  Sent(ends, d, f) = [ends EXCEPT ![d] = WithSent(ends[d], f)]
<1> ends[d] \in EndType
  OBVIOUS
<1> QED
  BY DEF Sent, WithSent, EndType

\* SendsForeign changes one direction.
LEMMA ForeignIs ==
  ASSUME NEW ends \in [Direction -> EndType], NEW d \in Direction, NEW bytes
  PROVE  [ends EXCEPT ![d].wire = @ \o bytes, ![d].alien = TRUE]
           = [ends EXCEPT ![d] = WithForeign(ends[d], bytes)]
<1> ends[d] \in EndType
  OBVIOUS
<1> QED
  BY DEF WithForeign, EndType

\* Delivers changes one direction.
LEMMA ReadIs ==
  ASSUME NEW ends \in [Direction -> EndType], NEW d \in Direction, NEW n
  PROVE  [ends EXCEPT ![d].buf = @ \o SubSeq(ends[d].wire, 1, n), ![d].wire = SubSeq(@, n + 1, Len(@))]
           = [ends EXCEPT ![d] = WithRead(ends[d], n)]
<1> ends[d] \in EndType
  OBVIOUS
<1> QED
  BY DEF WithRead, EndType

\* Decodes, when it fails, changes one direction.
LEMMA ErrorIs ==
  ASSUME NEW ends \in [Direction -> EndType], NEW d \in Direction
  PROVE  [ends EXCEPT ![d].err = TRUE] = [ends EXCEPT ![d] = WithError(ends[d])]
<1> ends[d] \in EndType
  OBVIOUS
<1> QED
  BY DEF WithError, EndType

\* An error needs foreign bytes.
LEMMA ErringKeeps ==
  ASSUME NEW e, Consistent(e), e.alien
  PROVE  Consistent(WithError(e))
<1> DEFINE after == WithError(e)
<1>1. e \in EndType
  BY DEF Consistent
<1>2. /\ after.wire = e.wire /\ after.buf = e.buf /\ after.sent = e.sent
      /\ after.got = e.got /\ after.err = TRUE /\ after.alien = e.alien /\ after \in EndType
  BY <1>1 DEF WithError, EndType
<1> HIDE DEF after
<1>3. Chained(after)
  BY <1>2 DEF Consistent, Chained, Chain
<1>4. Consistent(after)
  BY <1>2, <1>3 DEF Consistent
<1> QED
  BY <1>4 DEF after

\* A step that sends no Open and moves no connection.
LEMMA LinkKeeps ==
  ASSUME PathHolds, FrontHolds', ServesOn,
         NEW d \in Direction, NEW e, link' = [link EXCEPT ![d] = e], Consistent(e),
         e.alien => proto = "frames" /\ d = "up",
         proto # "frames" => e.sent = link[d].sent \/ d = "down",
         egress' = egress
  PROVE  PathHolds'
<1>1. link' \in [Direction -> EndType] /\ \A c \in Direction : Consistent(link'[c])
  BY DEF PathHolds, Consistent
<1>2. "up" \in Direction /\ "down" \in Direction
  BY DEF Direction
<1>3. link'["up"].alien => proto' = "frames"
  BY <1>2 DEF PathHolds, ServesOn
<1>4. ~link'["down"].alien
  BY <1>2 DEF PathHolds
<1>5. proto' # "frames" => link'["up"].sent = link["up"].sent
  BY <1>2 DEF PathHolds, ServesOn
<1>6. ASSUME proto' # "frames"
      PROVE  /\ \A i \in 1 .. Len(link'["up"].sent) : link'["up"].sent[i] = Open(1, target')
             /\ Len(link'["up"].sent) > 0 => Served'
  <2>1. CASE Len(link["up"].sent) > 0
    BY <1>5, <1>6, <2>1 DEF PathHolds, ServesOn
  <2>2. CASE ~(Len(link["up"].sent) > 0)
    <3>1. Len(link["up"].sent) = 0
      BY <1>2, <2>2, ConsistentTypes DEF PathHolds
    <3> QED
      BY <1>5, <1>6, <3>1
  <2> QED
    BY <2>1, <2>2
<1>7. egress' # NoTarget => proto' # "frames" /\ Served' /\ egress' = target'
  BY DEF PathHolds, ServesOn
<1> QED
  BY <1>1, <1>3, <1>4, <1>6, <1>7 DEF PathHolds

\* Steps of the channel leave the frontend.
LEMMA FrontRests == FrontHolds /\ UNCHANGED fvars => FrontHolds' /\ ServesOn
BY DEF fvars, client, server, FrontHolds, ServesOn, Served

\* Steps of the application and of the frontend leave the channel.
LEMMA FrontStepsKeep ==
  ASSUME PathHolds, Application \/ Sockets \/ Serves
  PROVE  PathHolds'
<1>1. FrontHolds' /\ ServesOn
  <2>1. FrontHolds
    BY DEF PathHolds
  <2>2. Arrives \/ Closes \/ Socks5 \/ HttpConnect \/ DialFails \/ Relay \/ UpstreamEnds \/ Breaks
    BY DEF Application, Sockets, Serves
  <2> QED
    BY <2>1, <2>2, ApplicationKeeps, Socks5Keeps, HttpKeeps, RelayKeeps
<1>2. link' = link /\ egress' = egress
  BY DEF Application, Sockets, Serves
<1>3. "up" \in Direction /\ link' = [link EXCEPT !["up"] = link["up"]]
  BY <1>2 DEF Direction, PathHolds
<1>4. Consistent(link["up"]) /\ (link["up"].alien => proto = "frames")
  BY <1>3 DEF PathHolds
<1> DEFINE e == link["up"]
<1>5. e.sent = link["up"].sent
  OBVIOUS
<1> HIDE DEF e
<1>6. Consistent(e) /\ (e.alien => proto = "frames") /\ link' = [link EXCEPT !["up"] = e]
  BY <1>3, <1>4 DEF e
<1> QED
  BY <1>1, <1>2, <1>3, <1>5, <1>6, LinkKeeps

\* The dial sends its Open, the first frame of the connection.
LEMMA DialsKeep ==
  ASSUME PathHolds, Dials \/ DialsInVain
  PROVE  PathHolds'
<1>1. FrontHolds' /\ ServesOn /\ Served' /\ target' = target /\ ~Served
  BY DialKeeps DEF PathHolds, Dials, DialsInVain
<1>2. target \in Addresses /\ proto # "frames" /\ proto' = proto
  BY <1>1 DEF PathHolds, FrontHolds, ServesOn
<1> DEFINE e == link["up"]
           f == Open(1, target)
           after == WithSent(e, f)
<1>3. "up" \in Direction /\ "down" \in Direction
  BY DEF Direction
<1>4. link' = [link EXCEPT !["up"] = after] /\ egress' = egress
  <2>1. link' = Sent(link, "up", f) /\ egress' = egress /\ link \in [Direction -> EndType]
    BY DEF Dials, DialsInVain, PathHolds
  <2> QED
    BY <1>3, <2>1, SentIs
<1>5. Consistent(e) /\ e.alien = FALSE
  BY <1>2, <1>3, ConsistentTypes DEF PathHolds
<1>6. f \in Traffic
  BY <1>2 DEF Traffic
<1>7. Consistent(after)
  BY <1>5, <1>6, SendingKeeps
<1>8. e.sent = <<>> /\ e \in EndType
  <2>1. e.sent \in Seq(Traffic) /\ Len(e.sent) \in Nat /\ ~(Len(e.sent) > 0)
    BY <1>1, <1>2, <1>5, ConsistentTypes DEF PathHolds
  <2> QED
    BY <1>5, <2>1, EmptySeq DEF Consistent
<1>9. after.alien = FALSE /\ after.sent = Append(<<>>, f)
  BY <1>5, <1>8 DEF WithSent, EndType
<1>10. Append(<<>>, f) = <<f>> /\ Len(<<f>>) = 1
  OBVIOUS
<1>11. egress = NoTarget
  BY <1>1 DEF PathHolds
<1> HIDE DEF e, f, after
<1>12. link' \in [Direction -> EndType] /\ \A d \in Direction : Consistent(link'[d])
  BY <1>4, <1>7 DEF PathHolds, Consistent
<1>13. link'["up"] = after /\ link'["down"] = link["down"]
  BY <1>3, <1>4 DEF PathHolds
<1>14. \A i \in 1 .. Len(link'["up"].sent) : link'["up"].sent[i] = Open(1, target')
  <2>1. link'["up"].sent = <<f>>
    BY <1>9, <1>10, <1>13
  <2> QED
    BY <1>1, <1>10, <2>1 DEF f
<1> QED
  BY <1>1, <1>2, <1>4, <1>9, <1>11, <1>12, <1>13, <1>14 DEF PathHolds

\* The exchange of frames.
LEMMA ExchangeKeeps ==
  ASSUME PathHolds, SendsFrame \/ SendsForeign
  PROVE  PathHolds'
<1> DEFINE e == link["up"]
<1>1. /\ proto = "frames" /\ ~e.alien /\ UNCHANGED fvars /\ egress' = egress
      /\ "up" \in Direction /\ link \in [Direction -> EndType] /\ Consistent(e)
  BY DEF SendsFrame, SendsForeign, PathHolds, Direction
<1>2. FrontHolds' /\ ServesOn
  BY <1>1, FrontRests DEF PathHolds
<1>3. CASE SendsFrame
  <2>1. PICK f \in SomeFrame : link' = Sent(link, "up", f)
    BY <1>3 DEF SendsFrame
  <2>2. Consistent(WithSent(e, f))
    BY <1>1, <2>1, SendingKeeps DEF Traffic
  <2>3. link' = [link EXCEPT !["up"] = WithSent(e, f)]
    BY <1>1, <2>1, SentIs
  <2> QED
    BY <1>1, <1>2, <2>2, <2>3, LinkKeeps
<1>4. CASE SendsForeign
  <2>1. PICK bytes \in Foreign : link' = [link EXCEPT !["up"].wire = @ \o bytes, !["up"].alien = TRUE]
    BY <1>4 DEF SendsForeign
  <2>2. Consistent(WithForeign(e, bytes))
    BY <1>1, <2>1, ForeignKeeps
  <2>3. link' = [link EXCEPT !["up"] = WithForeign(e, bytes)]
    BY <1>1, <2>1, ForeignIs
  <2> QED
    BY <1>1, <1>2, <2>2, <2>3, LinkKeeps
<1> QED
  BY <1>3, <1>4

\* A read of the channel.
LEMMA DeliversKeep ==
  ASSUME PathHolds, NEW d \in Direction, Delivers(d)
  PROVE  PathHolds'
<1> DEFINE e == link[d]
<1>1. /\ UNCHANGED fvars /\ egress' = egress /\ link \in [Direction -> EndType] /\ Consistent(e)
      /\ (e.alien => proto = "frames" /\ d = "up") /\ e \in EndType
  BY DEF Delivers, PathHolds, Direction
<1>2. FrontHolds' /\ ServesOn
  BY <1>1, FrontRests DEF PathHolds
<1>3. PICK n \in 1 .. Len(e.wire) :
        link' = [link EXCEPT ![d].buf = @ \o SubSeq(link[d].wire, 1, n),
                             ![d].wire = SubSeq(@, n + 1, Len(@))]
  BY DEF Delivers
<1>4. link' = [link EXCEPT ![d] = WithRead(e, n)]
  BY <1>1, <1>3, ReadIs
<1>5. Consistent(WithRead(e, n))
  BY <1>1, ReadingKeeps
<1>6. WithRead(e, n).alien = e.alien /\ WithRead(e, n).sent = e.sent
  BY <1>1 DEF WithRead, EndType
<1> DEFINE after == WithRead(e, n)
<1> HIDE DEF after
<1>7. Consistent(after) /\ link' = [link EXCEPT ![d] = after] /\ after.alien = e.alien /\ after.sent = e.sent
  BY <1>4, <1>5, <1>6 DEF after
<1> QED
  BY <1>1, <1>2, <1>7, LinkKeeps

\* The helper answers the Open, and connects to its target.
LEMMA AnswerKeeps ==
  ASSUME PathHolds, FrontHolds', ServesOn, proto # "frames",
         NEW e, Consistent(e), ~e.alien, e.sent = link["up"].sent, Len(e.sent) > 0,
         NEW ends, ends = [link EXCEPT !["up"] = e],
         NEW f, f = Open(1, target), Answer(f, ends)
  PROVE  PathHolds'
<1>1. f.stream = 1 /\ f.addr = target
  BY DEF Open
<1>2. /\ "up" \in Direction /\ "down" \in Direction /\ link \in [Direction -> EndType]
      /\ Consistent(link["down"]) /\ ~link["down"].alien /\ e \in EndType
  BY DEF Direction, PathHolds, Consistent
<1>3. Served /\ Served' /\ target' = target /\ proto' = proto
  BY DEF PathHolds, ServesOn
<1>4. egress' \in {egress, target}
  BY <1>1 DEF Answer
<1>5. PICK answer \in Traffic : link' = Sent(ends, "down", answer)
  <2>1. \/ link' = Sent(ends, "down", Frame(OPEN_OK, f.stream, <<>>))
        \/ link' = Sent(ends, "down", Frame(OPEN_ERR, f.stream, <<ConnectFailed, <<120, 121, 122>> >>))
        \/ link' = Sent(ends, "down", Frame(OPEN_ERR, f.stream, <<Forbidden, <<120>> >>))
    BY Zenon DEF Answer
  <2> QED
    BY <1>1, <2>1 DEF Traffic
<1> DEFINE down == WithSent(link["down"], answer)
<1>6. Consistent(down) /\ down.alien = link["down"].alien
  <2>1. Consistent(down)
    BY <1>2, SendingKeeps
  <2>2. link["down"] \in EndType
    BY <1>2
  <2> QED
    BY <2>1, <2>2 DEF WithSent, EndType
<1>7. link' = [ends EXCEPT !["down"] = down]
  <2>1. ends \in [Direction -> EndType] /\ ends["down"] = link["down"]
    BY <1>2
  <2>2. Sent(ends, "down", answer) = [ends EXCEPT !["down"] = WithSent(ends["down"], answer)]
    BY <1>2, <2>1, SentIs
  <2> QED
    BY <1>5, <2>1, <2>2
<1> HIDE DEF down
<1>8. link'["up"] = e /\ link'["down"] = down /\ link' \in [Direction -> EndType]
  BY <1>2, <1>6, <1>7 DEF Consistent, Direction
<1>9. \A d \in Direction : Consistent(link'[d])
  BY <1>6, <1>8 DEF Direction
<1>10. \A i \in 1 .. Len(link'["up"].sent) : link'["up"].sent[i] = Open(1, target')
  BY <1>3, <1>8 DEF PathHolds
<1>11. egress' # NoTarget => proto' # "frames" /\ Served' /\ egress' = target'
  BY <1>3, <1>4 DEF PathHolds
<1> QED
  BY <1>2, <1>3, <1>6, <1>8, <1>9, <1>10, <1>11 DEF PathHolds

\* A turn of a reader.
LEMMA DecodesKeep ==
  ASSUME PathHolds, NEW d \in Direction, Decodes(d)
  PROVE  PathHolds'
<1> DEFINE e == link[d]
           result == decode_frame(e.buf)
           after == WithDecoded(e, result.frame, result.rest)
           ends == [link EXCEPT ![d].buf = result.rest, ![d].got = Append(@, result.frame)]
<1>1. /\ UNCHANGED fvars /\ link \in [Direction -> EndType] /\ Consistent(e) /\ e \in EndType
      /\ (e.alien => proto = "frames" /\ d = "up") /\ ~IsMore(result)
  BY DEF Decodes, PathHolds, Direction
<1>2. FrontHolds' /\ ServesOn
  BY <1>1, FrontRests DEF PathHolds
<1>3. NextIsDecoded(e)
  BY <1>1, DecodingKeeps
<1>4. CASE IsError(result)
  <2>1. e.alien
    BY <1>3, <1>4 DEF NextIsDecoded
  <2>2. link' = [link EXCEPT ![d].err = TRUE] /\ egress' = egress
    BY <1>4 DEF Decodes
  <2> DEFINE erred == WithError(e)
  <2>3. link' = [link EXCEPT ![d] = erred]
    BY <1>1, <2>2, ErrorIs
  <2>4. Consistent(erred) /\ erred.sent = e.sent
    <3>1. Consistent(erred)
      BY <1>1, <2>1, ErringKeeps
    <3> QED
      BY <1>1, <3>1 DEF WithError, EndType
  <2>5. proto = "frames" /\ d = "up"
    BY <1>1, <2>1
  <2> HIDE DEF erred
  <2> QED
    BY <1>2, <2>2, <2>3, <2>4, <2>5, LinkKeeps
<1>5. CASE ~IsError(result)
  <2>1. Len(e.got) < Len(e.sent) /\ result.frame = Carried(e.sent[Len(e.got) + 1]) /\ Consistent(after)
    BY <1>3, <1>5 DEF NextIsDecoded
  <2>2. ends = [link EXCEPT ![d] = after]
    <3> DEFINE frame == result.frame
               rest == result.rest
    <3> HIDE DEF frame, rest
    <3>1. [link EXCEPT ![d].buf = rest, ![d].got = Append(@, frame)]
            = [link EXCEPT ![d] = WithDecoded(link[d], frame, rest)]
      BY <1>1 DEF WithDecoded, EndType
    <3> QED
      BY <3>1 DEF frame, rest
  <2>3. after.sent = e.sent /\ after.alien = e.alien
    BY <1>1 DEF WithDecoded, EndType
  <2>4. IF d = "up" /\ proto # "frames" /\ result.frame.ty = OPEN
        THEN Answer(result.frame, ends) ELSE link' = ends /\ egress' = egress
    BY <1>5, Zenon DEF Decodes
  <2> HIDE DEF after, ends, result
  <2>5. CASE ~(d = "up" /\ proto # "frames" /\ result.frame.ty = OPEN)
    <3> HIDE DEF e
    <3>1. link' = [link EXCEPT ![d] = after] /\ egress' = egress
      BY <2>2, <2>4, <2>5
    <3>2. after.alien => proto = "frames" /\ d = "up"
      BY <1>1, <2>3
    <3>3. after.sent = link[d].sent
      BY <2>3 DEF e
    <3> QED
      BY <1>2, <2>1, <3>1, <3>2, <3>3, LinkKeeps
  <2>6. CASE d = "up" /\ proto # "frames" /\ result.frame.ty = OPEN
    <3>1. Answer(result.frame, ends)
      BY <2>4, <2>6
    <3>2. e.sent[Len(e.got) + 1] = Open(1, target)
      <4>1. Len(e.got) + 1 \in 1 .. Len(e.sent)
        BY <1>1, <2>1, ConsistentTypes
      <4> QED
        BY <2>6, <4>1 DEF PathHolds
    <3>3. Carried(Open(1, target)) = Open(1, target)
      <4>1. Open(1, target).ty # OPEN_ERR
        BY DEF Open, OPEN, OPEN_ERR
      <4> QED
        BY <4>1 DEF Carried
    <3>4. result.frame = Open(1, target)
      BY <2>1, <3>2, <3>3
    <3>5. after.sent = link["up"].sent /\ Len(after.sent) > 0 /\ ~after.alien
      BY <1>1, <2>1, <2>3, <2>6, ConsistentTypes
    <3>6. ends = [link EXCEPT !["up"] = after]
      BY <2>2, <2>6
    <3> HIDE DEF e
    <3> QED
      BY <1>2, <2>1, <2>6, <3>1, <3>4, <3>5, <3>6, AnswerKeeps
  <2> QED
    BY <2>5, <2>6
<1> QED
  BY <1>4, <1>5

\* Every step keeps the invariant.
LEMMA PathKeeps == PathHolds /\ [Next]_vars => PathHolds'
<1> SUFFICES ASSUME PathHolds, [Next]_vars PROVE PathHolds'
  OBVIOUS
<1>1. CASE Next
  BY <1>1, FrontStepsKeep, DialsKeep, ExchangeKeeps, DeliversKeep, DecodesKeep DEF Next
<1>2. CASE UNCHANGED vars
  <2>1. link' = link /\ egress' = egress /\ UNCHANGED fvars
    BY <1>2 DEF vars
  <2>2. FrontHolds' /\ target' = target /\ proto' = proto /\ Served' = Served
    BY <2>1, FrontRests DEF PathHolds, fvars, client, server, Served
  <2> QED
    BY <2>1, <2>2 DEF PathHolds
<1> QED
  BY <1>1, <1>2

-----------------------------------------------------------------------------
(* What was read so far, at every await of serve_conn.                     *)

\* The greeting is one that is answered, and then the credentials are good.
Greeted ==
  /\ script.bytes[1] = 5 /\ 2 <= rd /\ GreetingLen <= rd
  /\ \E i \in 3 .. GreetingLen : script.bytes[i] = required_method
Admitted == Greeted /\ RequestAt <= rd /\ (creds => LogsIn(GreetingLen))
Commanded ==
  Admitted /\ script.bytes[RequestAt + 1] = 5 /\ script.bytes[RequestAt + 2] = 1

\* The kind of an address and what is left of it, behind the first n bytes.
Kinds(n, kind, rest) ==
  /\ rd = n + 1 /\ held = <<kind>> /\ script.bytes[rd] = kind /\ want = rest

\* Where SOCKS5 is in the bytes of the application.
SocksHolds ==
  LET bytes == script.bytes
      login == GreetingLen
  IN
  /\ pc = "greeting" => rd = 0
  /\ pc = "methods" => rd = 2 /\ bytes[1] = 5 /\ want = bytes[2]
  /\ pc \in {"auth", "user", "pass"} => creds /\ Greeted
  /\ pc = "auth" => rd = login
  /\ pc \in {"user", "pass"} => login + 2 <= rd /\ bytes[login + 1] = 1
  /\ pc = "user" => rd = login + 2 /\ want = bytes[login + 2] + 1
  /\ pc = "pass" => /\ rd = login + 3 + bytes[login + 2] /\ want = bytes[rd]
                    /\ held = SubSeq(bytes, login + 3, login + 2 + bytes[login + 2])
  /\ pc = "request" => Admitted /\ rd = RequestAt
  /\ pc \in {"atyp", "length", "addr"} => Commanded /\ RequestAt \in Nat
  /\ pc = "atyp" => rd = RequestAt + 3
  /\ pc = "length" => Kinds(RequestAt + 3, KIND_DOMAIN, 1)
  /\ pc = "addr" =>
       \/ Kinds(RequestAt + 3, KIND_V4, V4_LEN + 1)
       \/ Kinds(RequestAt + 3, KIND_V6, V6_LEN + 1)
       \/ /\ rd = RequestAt + 5 /\ bytes[rd - 1] = KIND_DOMAIN
          /\ held = <<KIND_DOMAIN, bytes[rd]>> /\ want = bytes[rd] + 1

\* No head ends in what was searched, and not too much is waited for.
ScanHolds ==
  /\ scanned <= rd /\ \A k \in 4 .. scanned + 3 : ~EndsHead(k)
  /\ pc = "read" => rd <= scanned + 3 /\ rd <= MAX_HEAD_BYTES
  /\ pc = "scan" => rd <= MAX_HEAD_BYTES + READ_CHUNK

\* The upstream was given what follows the first n bytes, or will be.
Given(n) == up \in Seq(Nat) /\ held \in Seq(Nat) /\ up \o held = SubSeq(script.bytes, n + 1, rd)

\* The request that is served.
AskHolds ==
  \E n \in 0 .. rd :
    /\ IsRequest(n) /\ target = Named(n)
    /\ pc = "dial" => leftover = SubSeq(script.bytes, n + 1, rd)
    /\ Served => Given(n)

SocksSteps == {"greeting", "methods", "auth", "user", "pass", "request", "atyp", "length", "addr"}

ReadHolds ==
  /\ pc \in SocksSteps => proto = "socks5" /\ SocksHolds /\ leftover = <<>>
  /\ pc \in {"scan", "read"} => proto # "socks5" /\ ScanHolds
  /\ pc \in SocksSteps \cup {"scan", "read"} => target = NoTarget
  /\ pc \in SocksSteps \cup {"scan", "read", "dial", "relay", "done", "closed", "failed", "broken"}
  /\ target # NoTarget \/ pc = "dial" \/ Served => AskHolds

-----------------------------------------------------------------------------
(* Operators.                                                              *)

\* A cut of a cut.
LEMMA CutOfCut ==
  ASSUME NEW s \in Seq(Nat), NEW a \in Nat \ {0}, NEW b \in Nat, b <= Len(s), a <= b + 1,
         NEW i \in Nat \ {0}, NEW j \in Nat, j <= b - a + 1, i <= j + 1,
         NEW m, m = a + i - 1, NEW n, n = a + j - 1
  PROVE  SubSeq(SubSeq(s, a, b), i, j) = SubSeq(s, m, n)
<1> DEFINE t == SubSeq(s, a, b)
           u == SubSeq(t, i, j)
           v == SubSeq(s, m, n)
<1>1. /\ t \in Seq(Nat) /\ Len(t) = b - a + 1
      /\ \A k \in 1 .. b - a + 1 : t[k] = s[a + k - 1]
  BY Cuts
<1> HIDE DEF t
<1>2. /\ u \in Seq(Nat) /\ Len(u) = j - i + 1
      /\ \A k \in 1 .. j - i + 1 : u[k] = t[i + k - 1]
  <2>1. t \in Seq(Nat) /\ j <= Len(t)
    BY <1>1
  <2> QED
    BY <2>1, Cuts
<1>3. /\ m \in Nat \ {0} /\ n \in Nat /\ Len(s) \in Nat /\ n <= Len(s)
      /\ m <= n + 1 /\ n - m + 1 = j - i + 1
  BY LenProperties
<1>4. /\ v \in Seq(Nat) /\ Len(v) = j - i + 1
      /\ \A k \in 1 .. j - i + 1 : v[k] = s[m + k - 1]
  BY <1>3, Cuts
<1> HIDE DEF u, v
<1>5. ASSUME NEW k \in 1 .. Len(u) PROVE u[k] = v[k]
  <2>1. k \in 1 .. j - i + 1 /\ i + k - 1 \in 1 .. b - a + 1 /\ a + (i + k - 1) - 1 = m + k - 1
    <3>1. k \in 1 .. j - i + 1
      BY <1>2
    <3> QED
      BY <1>3, <3>1
  <2> QED
    BY <1>1, <1>2, <1>4, <2>1
<1>6. u = v
  BY <1>2, <1>4, <1>5, SameBytes
<1> QED
  BY <1>6 DEF u, v, t

\* A set of natural numbers that is not empty has a least element: induction.
LEMMA Smallest ==
  ASSUME NEW S, S \subseteq Nat, S # {}
  PROVE  Min(S) \in S /\ \A y \in S : Min(S) <= y
<1> DEFINE R == OpToRel(<, Nat)
<1>1. IsWellFoundedOn(R, Nat)
  BY NatLessThanWellFounded
<1>2. PICK x \in S : \A y \in S : ~ (<<y, x>> \in R)
  BY <1>1, WFMin
<1>3. \A y \in S : ~(y < x)
  BY <1>2 DEF OpToRel
<1>4. \E z \in S : \A y \in S : z <= y
  BY <1>3
<1> QED
  BY <1>4 DEF Min

\* Bytes that are an address and no more are what encode makes of it.
LEMMA DecodedIsEncoded ==
  ASSUME NEW src \in Seq(Nat), ~IsError(decode(src)),
         decode(src).kind = KIND_DOMAIN => validate_domain(decode(src).host),
         src[1] = KIND_V4 => Len(src) = V4_LEN + 2,
         src[1] = KIND_V6 => Len(src) = V6_LEN + 2,
         src[1] = KIND_DOMAIN => Len(src) = src[2] + 3
  PROVE  encode(decode(src)) = src
<1> USE DEF KIND_V4, KIND_V6, KIND_DOMAIN
<1>1. \A x : IsError(Failed(x))
  BY DEF IsError, Failed
<1>2. V4_LEN \in Nat /\ V6_LEN \in Nat /\ LenMod \in Nat \ {0}
  BY AddrAssumption
<1>3. Len(src) \in Nat /\ \A i \in 1 .. Len(src) : src[i] \in Nat
  BY LenProperties, ElementOfSeq
<1>4. src # <<>> /\ src[1] \in {KIND_V4, KIND_V6, KIND_DOMAIN}
  BY <1>1 DEF decode
<1>5. Len(src) >= 1
  BY <1>3, <1>4, EmptySeq
<1>6. ASSUME NEW k \in {1, 2}, NEW n \in Nat, decode(src) = Take(src, k, n), Len(src) = k + n + 1,
             src[1] = KIND_DOMAIN <=> k = 2, k = 2 => n = src[2]
      PROVE  encode(decode(src)) = src
  <2> DEFINE host == SubSeq(src, k + 1, k + n)
             port == src[k + n + 1]
  <2>1. /\ k + 1 \in Nat \ {0} /\ k + n \in Nat /\ k + n <= Len(src) /\ k + 1 <= k + n + 1
        /\ k + n - (k + 1) + 1 = n /\ ~(Len(src) < k + n + 1) /\ k + n + 1 \in 1 .. Len(src)
    BY <1>3, <1>6
  <2>2. /\ host \in Seq(Nat) /\ Len(host) = n
        /\ \A i \in 1 .. n : host[i] = src[k + 1 + i - 1]
    BY <2>1, Cuts
  <2>3. ~(src[1] = KIND_DOMAIN /\ (host = <<>> \/ NotUtf8 \in Range(host)))
    BY <1>1, <1>6, <2>1 DEF Take
  <2>4. decode(src) = [kind |-> src[1], host |-> host, port |-> port]
    BY <1>6, <2>1, <2>3 DEF Take
  <2> HIDE DEF host
  <2>5. decode(src).kind = src[1] /\ decode(src).host = host /\ decode(src).port = port
    BY <2>4
  <2> DEFINE mid == IF src[1] = KIND_DOMAIN THEN <<Len(host) % LenMod>> ELSE <<>>
             front == <<src[1]>> \o mid
             c == <<port>>
             all == front \o host \o c
  <2>6. encode(decode(src)) = all
    BY <2>5 DEF encode
  <2>7. front \in Seq(Nat) /\ Len(front) = k /\ \A i \in 1 .. k : front[i] = src[i]
    <3>1. CASE k = 1
      <4>1. mid = <<>> /\ <<src[1]>> \in Seq(Nat)
        BY <1>3, <1>5, <1>6, <3>1
      <4>2. front = <<src[1]>>
        BY <4>1, ConcatEmptySeq
      <4> QED
        BY <3>1, <4>1, <4>2
    <3>2. CASE k = 2
      <4>1. src[1] = KIND_DOMAIN /\ Len(host) = src[2] /\ src[2] \in Nat /\ 2 \in 1 .. Len(src)
        BY <1>3, <1>6, <2>2, <3>2
      <4>2. Len(host) <= LenMod - 1
        BY <2>5, <4>1 DEF validate_domain
      <4>3. Len(host) % LenMod = src[2]
        <5>1. Len(host) \in Nat /\ LenMod \in Nat /\ Len(host) < LenMod
          BY <1>2, <4>1, <4>2
        <5> QED
          BY <4>1, <5>1, SmallRemainder
      <4>4. mid = <<src[2]>> /\ src[1] \in Nat
        BY <1>3, <1>5, <4>1, <4>3
      <4>5. front = <<src[1], src[2]>>
        BY <4>1, <4>4, Pair
      <4> QED
        BY <3>2, <4>1, <4>4, <4>5
    <3> QED
      BY <3>1, <3>2
  <2>8. c \in Seq(Nat) /\ Len(c) = 1 /\ c[1] = src[k + n + 1]
    BY <1>3, <2>1
  <2> HIDE DEF mid, front, c, port
  <2>9. InParts(front \o host \o c, front, host, c)
    BY <2>2, <2>7, <2>8, Parts
  <2> HIDE DEF all
  <2>10. /\ all \in Seq(Nat) /\ Len(all) = k + n + 1
         /\ \A i \in 1 .. k : all[i] = src[i]
         /\ all[k + n + 1] = src[k + n + 1]
         /\ SubSeq(all, k + 1, k + n) = host
    <3>1. InParts(all, front, host, c)
      BY <2>9 DEF all
    <3>2. Len(front) = k /\ Len(host) = n /\ Len(c) = 1 /\ 1 \in 1 .. Len(c)
      BY <2>2, <2>7, <2>8
    <3>3. /\ all \in Seq(Nat) /\ Len(all) = Len(front) + Len(host) + Len(c)
          /\ \A i \in 1 .. Len(front) : all[i] = front[i]
          /\ all[Len(front) + Len(host) + 1] = c[1]
          /\ SubSeq(all, Len(front) + 1, Len(front) + Len(host)) = host
      BY <3>1, <3>2 DEF InParts
    <3> QED
      BY <2>7, <2>8, <3>2, <3>3
  <2>11. ASSUME NEW i \in 1 .. n PROVE all[k + i] = src[k + i]
    <3>1. k + n - (k + 1) + 1 = n /\ k + n <= Len(all) /\ k + 1 + i - 1 = k + i
      BY <2>1, <2>10
    <3>2. \A m \in 1 .. n : host[m] = all[k + 1 + m - 1]
      <4>1. k + 1 \in Nat \ {0} /\ k + n \in Nat /\ k + n <= Len(all) /\ k + 1 <= k + n + 1 /\ all \in Seq(Nat)
        BY <2>1, <2>10, <3>1
      <4>2. \A m \in 1 .. k + n - (k + 1) + 1 : SubSeq(all, k + 1, k + n)[m] = all[k + 1 + m - 1]
        BY <4>1, Cuts
      <4>3. SubSeq(all, k + 1, k + n) = host /\ k + n - (k + 1) + 1 = n
        BY <2>10, <3>1
      <4> QED
        BY <4>2, <4>3
    <3> QED
      BY <2>2, <3>1, <3>2
  <2>12. ASSUME NEW i \in 1 .. Len(all) PROVE all[i] = src[i]
    <3>1. CASE i <= k
      BY <2>10, <3>1
    <3>2. CASE i = k + n + 1
      BY <2>10, <3>2
    <3>3. CASE i > k /\ i # k + n + 1
      <4>1. i - k \in 1 .. n /\ k + (i - k) = i
        BY <2>10, <3>3
      <4> QED
        BY <2>11, <4>1
    <3> QED
      BY <3>1, <3>2, <3>3
  <2> QED
    BY <1>6, <2>6, <2>10, <2>12, SameBytes
<1>7. CASE src[1] = KIND_V4
  <2>1. decode(src) = Take(src, 1, V4_LEN)
    BY <1>4, <1>7 DEF decode
  <2> QED
    BY <1>2, <1>6, <1>7, <2>1
<1>8. CASE src[1] = KIND_V6
  <2>1. decode(src) = Take(src, 1, V6_LEN)
    BY <1>4, <1>8 DEF decode
  <2> QED
    BY <1>2, <1>6, <1>8, <2>1
<1>9. CASE src[1] = KIND_DOMAIN
  <2>1. ~(Len(src) < 2) /\ decode(src) = Take(src, 2, src[2])
    BY <1>1, <1>4, <1>9 DEF decode
  <2>2. src[2] \in Nat
    BY <1>3, <2>1
  <2>3. Len(src) = 2 + src[2] + 1
    BY <1>9, <2>2
  <2> QED
    BY <1>6, <1>9, <2>1, <2>2, <2>3
<1> QED
  BY <1>4, <1>7, <1>8, <1>9

\* The bytes that encode makes of an address, by its kind.
LEMMA EncodedLen ==
  ASSUME NEW addr \in Addresses
  PROVE  LET bytes == encode(addr) IN
         /\ bytes[1] = addr.kind
         /\ addr.kind = KIND_V4 => Len(bytes) = V4_LEN + 2
         /\ addr.kind = KIND_V6 => Len(bytes) = V6_LEN + 2
         /\ addr.kind = KIND_DOMAIN => bytes[2] >= 1 /\ Len(bytes) = bytes[2] + 3 /\ bytes[2] \in Nat
<1> DEFINE kind == <<addr.kind>>
           len == IF addr.kind = KIND_DOMAIN THEN <<Len(addr.host) % LenMod>> ELSE <<>>
           port == <<addr.port>>
           a == kind \o len
           b == a \o addr.host
           c == b \o port
<1>1. /\ addr.kind \in {KIND_V4, KIND_V6, KIND_DOMAIN} /\ addr.host \in Seq(Nat) /\ addr.port \in Nat
      /\ addr.kind = KIND_V4 => Len(addr.host) = V4_LEN
      /\ addr.kind = KIND_V6 => Len(addr.host) = V6_LEN
      /\ addr.kind = KIND_DOMAIN => Len(addr.host) \in 1 .. LenMod - 1
  BY DEF Addresses, Encodable, KIND_V4, KIND_V6, KIND_DOMAIN
<1>2. LenMod \in Nat \ {0} /\ Len(addr.host) \in Nat /\ V4_LEN \in Nat /\ V6_LEN \in Nat
  BY <1>1, AddrAssumption, LenProperties
<1>3. kind \in Seq(Nat) /\ Len(kind) = 1 /\ kind[1] = addr.kind /\ port \in Seq(Nat) /\ Len(port) = 1
  BY <1>1 DEF KIND_V4, KIND_V6, KIND_DOMAIN
<1>4. /\ len \in Seq(Nat)
      /\ addr.kind # KIND_DOMAIN => Len(len) = 0
      /\ addr.kind = KIND_DOMAIN => Len(len) = 1 /\ len[1] = Len(addr.host)
  <2>1. CASE addr.kind = KIND_DOMAIN
    <3>1. Len(addr.host) % LenMod = Len(addr.host)
      <4>1. Len(addr.host) < LenMod
        BY <1>1, <1>2, <2>1
      <4> QED
        BY <1>2, <4>1, SmallRemainder
    <3>2. len = <<Len(addr.host)>>
      BY <2>1, <3>1
    <3> HIDE DEF len
    <3> QED
      BY <1>2, <2>1, <3>2
  <2>2. CASE addr.kind # KIND_DOMAIN
    BY <2>2
  <2> QED
    BY <2>1, <2>2
<1> HIDE DEF kind, len, port
<1>5. /\ a \in Seq(Nat) /\ Len(a) = Len(kind) + Len(len) /\ (\A i \in 1 .. Len(kind) : a[i] = kind[i])
      /\ \A i \in 1 .. Len(len) : a[Len(kind) + i] = len[i]
  BY <1>3, <1>4, Joins
<1> HIDE DEF a
<1>6. b \in Seq(Nat) /\ Len(b) = Len(a) + Len(addr.host) /\ \A i \in 1 .. Len(a) : b[i] = a[i]
  BY <1>1, <1>5, Joins
<1> HIDE DEF b
<1>7. c \in Seq(Nat) /\ Len(c) = Len(b) + Len(port) /\ \A i \in 1 .. Len(b) : c[i] = b[i]
  BY <1>3, <1>6, Joins
<1>8. encode(addr) = c
  BY DEF encode, c, b, a, kind, len, port
<1> HIDE DEF c
<1>9. Len(len) \in Nat
  BY <1>4, LenProperties
<1>10. a[1] = addr.kind /\ 1 \in 1 .. Len(a) /\ 1 \in 1 .. Len(b)
  <2>1. Len(a) = 1 + Len(len) /\ 1 \in 1 .. Len(kind)
    BY <1>3, <1>5
  <2>2. a[1] = addr.kind
    BY <1>3, <1>5, <2>1
  <2>3. Len(a) >= 1 /\ Len(a) \in Nat
    BY <1>9, <2>1
  <2>4. Len(b) >= 1 /\ Len(b) \in Nat
    <3>1. Len(b) = Len(a) + Len(addr.host)
      BY <1>6
    <3> QED
      BY <1>2, <2>3, <3>1
  <2> QED
    BY <2>2, <2>3, <2>4
<1>11. c[1] = addr.kind
  BY <1>6, <1>7, <1>10
<1>12. Len(c) = 1 + Len(len) + Len(addr.host) + 1
  BY <1>2, <1>3, <1>5, <1>6, <1>7, <1>9
<1>13. CASE addr.kind = KIND_DOMAIN
  <2>1. Len(len) = 1 /\ Len(a) = 2 /\ a[2] = Len(addr.host) /\ 2 \in 1 .. Len(a) /\ 2 \in 1 .. Len(b)
    <3>1. Len(len) = 1 /\ len[1] = Len(addr.host) /\ Len(kind) = 1
      BY <1>3, <1>4, <1>13
    <3>2. Len(a) = 2 /\ 1 \in 1 .. Len(len) /\ Len(kind) + 1 = 2
      BY <1>5, <3>1
    <3> QED
      BY <1>2, <1>5, <1>6, <3>1, <3>2
  <2>2. c[2] = Len(addr.host)
    BY <1>6, <1>7, <2>1
  <2>3. Len(addr.host) >= 1 /\ 1 + 1 + Len(addr.host) + 1 = Len(addr.host) + 3
    BY <1>1, <1>2, <1>13
  <2>4. c[2] >= 1 /\ Len(c) = c[2] + 3 /\ c[2] \in Nat
    BY <1>2, <1>12, <2>1, <2>2, <2>3
  <2> QED
    BY <1>8, <1>11, <1>13, <2>4 DEF KIND_V4, KIND_V6, KIND_DOMAIN
<1>14. CASE addr.kind # KIND_DOMAIN
  <2>1. Len(c) = Len(addr.host) + 2
    <3>1. Len(len) = 0
      BY <1>4, <1>14
    <3> QED
      BY <1>2, <1>12, <3>1
  <2> QED
    BY <1>1, <1>2, <1>8, <1>11, <1>14, <2>1
<1> QED
  BY <1>13, <1>14

-----------------------------------------------------------------------------
(* Steps.                                                                  *)

\* What is said of a script does not change while it and the connection stay.
LEMMA SameClient ==
  ASSUME UNCHANGED <<proto, creds, script>>
  PROVE  /\ \A n : (IsRequest(n))' <=> IsRequest(n)
         /\ \A n : (Named(n))' = Named(n)
         /\ \A n : (EndsHead(n))' <=> EndsHead(n)
         /\ GreetingLen' = GreetingLen /\ RequestAt' = RequestAt
         /\ (LogsIn(GreetingLen))' <=> LogsIn(GreetingLen)
         /\ required_method' = required_method
<1>1. GreetingLen' = GreetingLen /\ RequestAt' = RequestAt /\ required_method' = required_method
  BY DEF GreetingLen, RequestAt, required_method
<1>2. \A n : (LogsIn(n))' <=> LogsIn(n)
  BY DEF LogsIn
<1>3. (LogsIn(GreetingLen))' <=> LogsIn(GreetingLen)
  BY <1>1 DEF LogsIn
<1>4. \A n : (EndsHead(n))' <=> EndsHead(n)
  BY DEF EndsHead
<1>5. \A n : (Refusal(n))' = Refusal(n)
  BY DEF Refusal, authorize
<1>6. \A n : (Refusal(SubSeq(script.bytes, 1, n)))' = Refusal(SubSeq(script.bytes, 1, n))
  BY DEF Refusal, authorize
<1>7. \A n : (HttpRequest(n))' <=> HttpRequest(n)
  BY <1>4, <1>6 DEF HttpRequest
<1>8. \A n : (SocksRequest(n))' <=> SocksRequest(n)
  BY <1>1, <1>3 DEF SocksRequest
<1>9. \A n : (Named(n))' = Named(n)
  BY <1>1 DEF Named
<1> QED
  BY <1>1, <1>3, <1>4, <1>7, <1>8, <1>9 DEF IsRequest

\* A step that only lets bytes arrive, or the other end work.
LEMMA RestReads == ReadHolds /\ UNCHANGED <<proto, creds, script, server>> => ReadHolds'
<1> SUFFICES ASSUME ReadHolds, UNCHANGED <<proto, creds, script, server>> PROVE ReadHolds'
  OBVIOUS
<1>1. UNCHANGED <<proto, creds, script, pc, rd, want, held, scanned, leftover, target, up, relay>>
  BY DEF server
<1>2. UNCHANGED <<GreetingLen, RequestAt, required_method>>
  BY <1>1, SameClient
<1>3. (Greeted' <=> Greeted) /\ (Admitted' <=> Admitted) /\ (Commanded' <=> Commanded)
  BY <1>1, <1>2, SameClient DEF Greeted, Admitted, Commanded
<1>4. SocksHolds' <=> SocksHolds
  BY <1>1, <1>2, <1>3 DEF SocksHolds, Kinds
<1>5. ScanHolds' <=> ScanHolds
  BY <1>1, SameClient DEF ScanHolds
<1>6. AskHolds' <=> AskHolds
  BY <1>1, SameClient DEF AskHolds, Served, Given
<1> QED
  BY <1>1, <1>4, <1>5, <1>6 DEF ReadHolds, Served

\* What read_exact returns are the next bytes of the application.
LEMMA GotBytes ==
  ASSUME FrontHolds, NEW at, Reading(at)
  PROVE  /\ Got = SubSeq(script.bytes, rd + 1, rd + want) /\ Got \in Seq(Nat) /\ Len(Got) = want
         /\ \A i \in 1 .. want : Got[i] = script.bytes[rd + i]
         /\ \A i \in 1 .. want : script.bytes[rd + i] \in Nat
         /\ rd \in Nat /\ want \in Nat /\ rd' = rd + want /\ rd' <= Len(script.bytes)
         /\ script.bytes \in Seq(Nat) /\ Len(script.bytes) \in Nat /\ pc = at
<1>1. /\ script.bytes \in Seq(Nat) /\ Len(script.bytes) \in Nat /\ arrived \in 0 .. Len(script.bytes)
      /\ rd \in 0 .. arrived /\ want \in Nat /\ arrived - rd >= want /\ rd' = rd + want /\ pc = at
  BY LenProperties DEF FrontHolds, Reading
<1>2. /\ rd + 1 \in Nat \ {0} /\ rd + want \in Nat /\ rd + want <= Len(script.bytes)
      /\ rd + 1 <= rd + want + 1 /\ rd + want - (rd + 1) + 1 = want
  BY <1>1
<1>3. /\ Got \in Seq(Nat) /\ Len(Got) = want
      /\ \A i \in 1 .. want : Got[i] = script.bytes[rd + 1 + i - 1]
  BY <1>1, <1>2, Cuts DEF Got
<1>4. \A i \in 1 .. want : rd + 1 + i - 1 = rd + i /\ rd + i \in 1 .. Len(script.bytes)
  BY <1>1
<1>5. \A i \in 1 .. want : script.bytes[rd + i] \in Nat
  BY <1>1, <1>4, ElementOfSeq
<1> QED
  BY <1>1, <1>2, <1>3, <1>4, <1>5 DEF Got

\* Before the dial nothing is served.
LEMMA NotYetServed ==
  ASSUME FrontHolds, pc \notin {"relay", "done", "broken"}
  PROVE  ~Served
BY DEF FrontHolds

\* A step of SOCKS5 that does not dial.
LEMMA SocksGoesOn ==
  ASSUME FrontHolds, ReadHolds, pc \in SocksSteps, UNCHANGED <<proto, creds, script, leftover, up, relay>>, target' = target,
         pc' \in {"closed", "failed"} \/ (pc' \in SocksSteps /\ SocksHolds')
  PROVE  ReadHolds'
<1>1. target = NoTarget /\ proto = "socks5" /\ leftover = <<>>
  BY DEF ReadHolds
<1>2. SocksSteps = {"greeting", "methods", "auth", "user", "pass", "request", "atyp", "length", "addr"}
  BY DEF SocksSteps
<1>3. ~Served /\ ~Served'
  <2>1. pc \notin {"relay", "done", "broken"}
    BY <1>2
  <2>2. ~Served
    BY <2>1, NotYetServed
  <2> QED
    BY <2>2 DEF Served
<1> QED
  BY <1>1, <1>2, <1>3 DEF ReadHolds

\* The greeting.
LEMMA GreetingReads ==
  ASSUME FrontHolds, ReadHolds, Greeting, UNCHANGED <<proto, creds, script, leftover, up, relay>>
  PROVE  ReadHolds'
<1>1. Reading("greeting") /\ pc = "greeting" /\ pc \in SocksSteps
  BY DEF Greeting, Reading, SocksSteps
<1>2. rd = 0 /\ want = 2
  BY <1>1 DEF FrontHolds, ReadHolds, SocksHolds
<1>3. /\ rd' = 2 /\ Got[1] = script.bytes[1] /\ Got[2] = script.bytes[2]
  <2>1. /\ \A i \in 1 .. 2 : Got[i] = script.bytes[0 + i]
        /\ rd' = 0 + 2
    BY <1>1, <1>2, GotBytes
  <2> QED
    BY <2>1
<1>4. \/ pc' = "failed" /\ target' = target
      \/ Got[1] = 5 /\ pc' = "methods" /\ want' = Got[2] /\ target' = target
  BY DEF Greeting, Quits, Next_
<1>5. pc' = "methods" => SocksHolds'
  BY <1>3, <1>4 DEF SocksHolds
<1>6. "methods" \in SocksSteps
  BY DEF SocksSteps
<1> QED
  BY <1>1, <1>4, <1>5, <1>6, SocksGoesOn

\* The methods.
LEMMA MethodsRead ==
  ASSUME FrontHolds, ReadHolds, Methods, UNCHANGED <<proto, creds, script, leftover, up, relay>>
  PROVE  ReadHolds'
<1>1. Reading("methods") /\ pc = "methods" /\ pc \in SocksSteps
  BY DEF Methods, Reading, SocksSteps
<1>2. rd = 2 /\ want = script.bytes[2] /\ script.bytes[1] = 5
  BY <1>1 DEF ReadHolds, SocksHolds
<1>3. /\ rd' = GreetingLen /\ Len(Got) = want /\ want \in Nat /\ Got \in Seq(Nat)
      /\ \A i \in 1 .. want : Got[i] = script.bytes[2 + i]
  BY <1>1, <1>2, GotBytes DEF GreetingLen
<1>4. \/ pc' \in {"closed", "failed"} /\ target' = target
      \/ /\ required_method \in Range(Got) /\ target' = target
         /\ pc' = IF creds THEN "auth" ELSE "request"
  BY DEF Methods, Quits, Next_
<1>5. ASSUME required_method \in Range(Got) PROVE Greeted'
  <2>1. PICK i \in DOMAIN Got : Got[i] = required_method
    BY <1>5 DEF Range
  <2>2. i \in 1 .. want
    BY <1>3, <2>1, LenProperties
  <2>3. 2 + i \in 3 .. GreetingLen /\ script.bytes[2 + i] = required_method
    <3>1. GreetingLen = 2 + want /\ want \in Nat
      BY <1>2, <1>3 DEF GreetingLen
    <3>2. 2 + i \in 3 .. GreetingLen
      BY <2>2, <3>1
    <3> QED
      BY <1>3, <2>1, <2>2, <3>2
  <2>4. GreetingLen' = GreetingLen /\ required_method' = required_method /\ script' = script
    BY SameClient
  <2>5. GreetingLen <= rd' /\ GreetingLen \in Nat /\ 2 <= rd'
    <3>1. GreetingLen = 2 + want /\ want \in Nat /\ rd' = GreetingLen
      BY <1>2, <1>3 DEF GreetingLen
    <3> QED
      BY <3>1
  <2> QED
    BY <1>2, <2>3, <2>4, <2>5 DEF Greeted
<1>6. RequestAt' = RequestAt /\ GreetingLen' = GreetingLen
  BY SameClient
<1>7. ASSUME required_method \in Range(Got), pc' = IF creds THEN "auth" ELSE "request"
      PROVE  SocksHolds'
  <2>1. CASE creds
    BY <1>3, <1>5, <1>6, <1>7, <2>1 DEF SocksHolds
  <2>2. CASE ~creds
    <3>1. RequestAt = GreetingLen /\ GreetingLen \in Nat
      BY <1>2, <1>3, <2>2 DEF RequestAt, GreetingLen
    <3>2. Admitted'
      BY <1>3, <1>5, <1>6, <1>7, <2>2, <3>1 DEF Admitted
    <3> QED
      BY <1>3, <1>6, <1>7, <2>2, <3>1, <3>2 DEF SocksHolds
  <2> QED
    BY <2>1, <2>2
<1>8. "auth" \in SocksSteps /\ "request" \in SocksSteps
  BY DEF SocksSteps
<1> QED
  BY <1>1, <1>4, <1>7, <1>8, SocksGoesOn

\* What a step knows of the bytes when it starts behind the greeting.
LEMMA GreetedFacts ==
  ASSUME FrontHolds, Greeted, rd \in Nat, rd <= Len(script.bytes)
  PROVE  GreetingLen \in Nat /\ GreetingLen >= 3 /\ GreetingLen = 2 + script.bytes[2] /\ script.bytes[2] \in Nat
<1>1. script.bytes \in Seq(Nat) /\ Len(script.bytes) \in Nat
  BY LenProperties DEF FrontHolds
<1>2. PICK i \in 3 .. GreetingLen : script.bytes[i] = required_method
  BY DEF Greeted
<1>3. Len(script.bytes) >= 2 /\ GreetingLen <= rd
  BY <1>1 DEF Greeted
<1>4. script.bytes[2] \in Nat
  BY <1>1, <1>3, ElementOfSeq
<1> QED
  BY <1>2, <1>4 DEF GreetingLen

\* The start of the credentials.
LEMMA AuthReads ==
  ASSUME FrontHolds, ReadHolds, Auth, UNCHANGED <<proto, creds, script, leftover, up, relay>>
  PROVE  ReadHolds'
<1>1. Reading("auth") /\ pc = "auth" /\ pc \in SocksSteps
  BY DEF Auth, Reading, SocksSteps
<1>0. creds
  BY <1>1 DEF ReadHolds, SocksHolds
<1>2. Greeted /\ rd = GreetingLen /\ want = 2
  BY <1>1 DEF FrontHolds, ReadHolds, SocksHolds
<1>3. /\ rd' = rd + 2 /\ Got[1] = script.bytes[rd + 1] /\ Got[2] = script.bytes[rd + 2]
      /\ rd \in Nat
  <2>1. /\ \A i \in 1 .. 2 : Got[i] = script.bytes[rd + i]
        /\ rd' = rd + 2 /\ rd \in Nat
    BY <1>1, <1>2, GotBytes
  <2> QED
    BY <2>1
<1>4. \/ pc' = "failed" /\ target' = target
      \/ Got[1] = 1 /\ pc' = "user" /\ want' = Got[2] + 1 /\ target' = target
  BY DEF Auth, Quits, Next_
<1>5. GreetingLen' = GreetingLen /\ required_method' = required_method
  BY SameClient
<1>6. Greeted'
  <2>1. GreetingLen \in Nat /\ GreetingLen >= 3 /\ GreetingLen <= rd' /\ 2 <= rd'
    <3>1. rd <= Len(script.bytes)
      BY <1>1, GotBytes DEF FrontHolds
    <3> QED
      BY <1>2, <1>3, <3>1, GreetedFacts
  <2> QED
    BY <1>2, <1>5, <2>1 DEF Greeted
<1>7. pc' = "user" => SocksHolds'
  BY <1>0, <1>2, <1>3, <1>4, <1>5, <1>6 DEF SocksHolds
<1>8. "user" \in SocksSteps
  BY DEF SocksSteps
<1> QED
  BY <1>1, <1>4, <1>7, <1>8, SocksGoesOn

\* The name of the user.
LEMMA UserReads ==
  ASSUME FrontHolds, ReadHolds, AuthUser, UNCHANGED <<proto, creds, script, leftover, up, relay>>
  PROVE  ReadHolds'
<1>1. Reading("user") /\ pc = "user" /\ pc \in SocksSteps
  BY DEF AuthUser, Reading, SocksSteps
<1> DEFINE b == script.bytes
           g == GreetingLen
           u == b[g + 2]
<1>0. creds
  BY <1>1 DEF ReadHolds, SocksHolds
<1>2. Greeted /\ rd = g + 2 /\ b[g + 1] = 1 /\ want = u + 1 /\ want >= 1
  BY <1>1 DEF FrontHolds, ReadHolds, SocksHolds
<1>3. /\ Got = SubSeq(b, rd + 1, rd + want) /\ Len(Got) = want /\ rd \in Nat /\ want \in Nat
      /\ \A i \in 1 .. want : Got[i] = b[rd + i]
      /\ rd' = rd + want /\ rd' <= Len(b) /\ b \in Seq(Nat) /\ Len(b) \in Nat
  BY <1>1, GotBytes
<1>4. g \in Nat /\ g >= 3
  BY <1>2, <1>3, GreetedFacts
<1>5. u \in Nat
  <2>1. g + 2 \in 1 .. Len(b)
    BY <1>2, <1>3, <1>4
  <2> QED
    BY <1>3, <2>1, ElementOfSeq
<1>6. pc' = "pass" /\ want' = Got[want] /\ held' = Front(Got) /\ target' = target
  BY DEF AuthUser, Next_
<1> HIDE DEF b, g, u
<1>7. rd' = g + 3 + u /\ want' = b[rd']
  <2>1. want \in 1 .. want
    BY <1>2, <1>3
  <2> QED
    BY <1>2, <1>3, <1>4, <1>5, <1>6, <2>1
<1>8. held' = SubSeq(b, g + 3, g + 2 + u)
  <2>1. Front(Got) = SubSeq(Got, 1, u)
    <3>1. Len(Got) = u + 1
      BY <1>2, <1>3
    <3>2. Len(Got) - 1 = u
      BY <1>5, <3>1
    <3> QED
      BY <3>2 DEF Front
  <2> DEFINE a == g + 3
             e == g + 3 + u
             n == g + 2 + u
  <2>2. rd + 1 = a /\ rd + want = e
    BY <1>2, <1>3, <1>4, <1>5
  <2>3. /\ a \in Nat \ {0} /\ e \in Nat /\ e <= Len(b) /\ a <= e + 1
        /\ u <= e - a + 1 /\ 1 <= u + 1 /\ a = a + 1 - 1 /\ n = a + u - 1
    BY <1>3, <1>4, <1>5, <2>2
  <2> HIDE DEF a, e, n
  <2>4. SubSeq(SubSeq(b, a, e), 1, u) = SubSeq(b, a, n)
    BY <1>3, <1>5, <2>3, CutOfCut
  <2>5. Got = SubSeq(b, a, e)
    BY <1>3, <2>2
  <2>6. held' = SubSeq(b, a, n)
    BY <1>6, <2>1, <2>4, <2>5
  <2> QED
    BY <2>6 DEF a, n
<1>9. GreetingLen' = GreetingLen /\ required_method' = required_method
  BY SameClient
<1>10. Greeted'
  <2>1. GreetingLen <= rd' /\ 2 <= rd'
    BY <1>4, <1>5, <1>7 DEF g
  <2> QED
    BY <1>2, <1>9, <2>1 DEF Greeted
<1>11. b' = b /\ g' = g /\ u' = u
  BY <1>9 DEF b, g, u
<1>12. SocksHolds'
  <2>1. g + 2 <= rd'
    BY <1>4, <1>5, <1>7
  <2> QED
    BY <1>0, <1>2, <1>6, <1>7, <1>8, <1>10, <1>11, <2>1 DEF SocksHolds, b, g, u
<1>13. "pass" \in SocksSteps
  BY DEF SocksSteps
<1> QED
  BY <1>1, <1>6, <1>12, <1>13, SocksGoesOn

\* The password.
LEMMA PassReads ==
  ASSUME FrontHolds, ReadHolds, AuthPass, UNCHANGED <<proto, creds, script, leftover, up, relay>>
  PROVE  ReadHolds'
<1>1. Reading("pass") /\ pc = "pass" /\ pc \in SocksSteps
  BY DEF AuthPass, Reading, SocksSteps
<1> DEFINE b == script.bytes
           g == GreetingLen
           u == b[g + 2]
<1>0. creds
  BY <1>1 DEF ReadHolds, SocksHolds
<1>2. /\ Greeted /\ b[g + 1] = 1 /\ rd = g + 3 + u /\ want = b[rd] /\ g + 2 <= rd
      /\ held = SubSeq(b, g + 3, g + 2 + u)
  BY <1>1 DEF ReadHolds, SocksHolds
<1>3. /\ Got = SubSeq(b, rd + 1, rd + want) /\ Len(Got) = want /\ rd \in Nat /\ want \in Nat
      /\ rd' = rd + want /\ rd' <= Len(b) /\ b \in Seq(Nat) /\ Len(b) \in Nat
  <2>1. Got = SubSeq(b, rd + 1, rd + want) /\ Len(Got) = want
    BY <1>1, GotBytes
  <2>2. rd \in Nat /\ want \in Nat /\ rd' = rd + want /\ rd' <= Len(b)
    BY <1>1, GotBytes
  <2>3. b \in Seq(Nat) /\ Len(b) \in Nat
    BY <1>1, GotBytes
  <2> QED
    BY <2>1, <2>2, <2>3
<1>4. g \in Nat /\ g >= 3
  BY <1>2, <1>3, GreetedFacts
<1>5. u \in Nat
  <2>1. g + 2 \in 1 .. Len(b)
    <3>1. g + 2 <= rd /\ rd \in Nat /\ rd' <= Len(b) /\ rd' = rd + want /\ want \in Nat /\ Len(b) \in Nat
      BY <1>2, <1>3
    <3>2. g \in Nat
      BY <1>4
    <3> QED
      BY <3>1, <3>2
  <2> QED
    BY <1>3, <2>1, ElementOfSeq
<1>6. \/ pc' = "closed" /\ target' = target
      \/ held = User /\ Got = Pass /\ pc' = "request" /\ target' = target
  BY DEF AuthPass, Quits, Next_
<1> HIDE DEF b, g, u
<1>7. ASSUME held = User, Got = Pass PROVE LogsIn(g) /\ RequestAt = rd'
  <2>0. rd = g + 3 + u /\ rd' = rd + want /\ rd' <= Len(b) /\ Len(b) \in Nat /\ want \in Nat
    BY <1>2, <1>3
  <2>1. g + 3 \in Nat \ {0} /\ g + 2 + u \in Nat /\ g + 2 + u <= Len(b) /\ g + 3 <= g + 2 + u + 1
        /\ g + 2 + u - (g + 3) + 1 = u
    BY <1>4, <1>5, <2>0
  <2>2. Len(User) = u
    <3> DEFINE e == g + 2 + u
    <3>1. /\ b \in Seq(Nat) /\ g + 3 \in Nat \ {0} /\ e \in Nat /\ e <= Len(b) /\ g + 3 <= e + 1
          /\ e - (g + 3) + 1 = u
      BY <1>3, <1>4, <1>5, <2>1
    <3> HIDE DEF e
    <3>2. Len(SubSeq(b, g + 3, e)) = e - (g + 3) + 1
      BY <3>1, Cuts
    <3>3. SubSeq(b, g + 3, e) = User
      BY <1>2, <1>7 DEF e
    <3> QED
      BY <3>1, <3>2, <3>3
  <2>3. Len(Pass) = want
    BY <1>3, <1>7
  <2>4. g + 2 + Len(User) = g + 2 + u /\ g + 2 + u + 1 = rd /\ g + 2 + u + 2 = rd + 1
        /\ g + 2 + u + 1 + Len(Pass) = rd + want
    BY <1>2, <1>3, <1>4, <1>5, <2>2, <2>3
  <2>5. b[g + 2] = Len(User) /\ b[g + 2 + u + 1] = Len(Pass)
    BY <1>2, <2>2, <2>3, <2>4 DEF u
  <2>6. SubSeq(b, g + 3, g + 2 + u) = User /\ SubSeq(b, g + 2 + u + 2, g + 2 + u + 1 + Len(Pass)) = Pass
    BY <1>2, <1>3, <1>7, <2>4
  <2>7. LogsIn(g)
    BY <1>2, <2>4, <2>5, <2>6 DEF LogsIn, b
  <2>8. RequestAt = g + (3 + u + want)
    BY <1>0, <1>2, <2>2, <2>3 DEF RequestAt, g
  <2>9. g + (3 + u + want) = rd'
    BY <1>4, <1>5, <2>0
  <2> QED
    BY <2>7, <2>8, <2>9
<1>8. /\ GreetingLen' = GreetingLen /\ RequestAt' = RequestAt /\ required_method' = required_method
      /\ (LogsIn(GreetingLen))' <=> LogsIn(GreetingLen)
  BY SameClient
<1>9. Greeted'
  <2>1. rd <= rd' /\ rd \in Nat /\ g <= rd /\ 2 <= rd'
    <3>1. rd \in Nat /\ want \in Nat /\ rd' = rd + want /\ rd = g + 3 + u
      BY <1>2, <1>3
    <3> QED
      BY <1>4, <1>5, <3>1
  <2>2. GreetingLen <= rd'
    BY <1>4, <2>1, <1>3 DEF g
  <2> QED
    BY <1>2, <1>8, <2>1, <2>2 DEF Greeted
<1>10. ASSUME held = User, Got = Pass, pc' = "request" PROVE SocksHolds'
  <2>1. Admitted'
    BY <1>3, <1>7, <1>8, <1>9, <1>10 DEF Admitted, g
  <2> QED
    BY <1>7, <1>8, <1>10, <2>1 DEF SocksHolds
<1>11. "request" \in SocksSteps
  BY DEF SocksSteps
<1> QED
  BY <1>1, <1>6, <1>10, <1>11, SocksGoesOn

\* Being admitted is of the bytes read so far.
LEMMA StaysAdmitted ==
  ASSUME Admitted, UNCHANGED <<proto, creds, script>>, rd \in Nat, rd' \in Nat, rd <= rd', RequestAt \in Nat,
         GreetingLen \in Nat
  PROVE  Admitted' /\ (Commanded => Commanded') /\ RequestAt' = RequestAt /\ GreetingLen' = GreetingLen
<1>1. /\ GreetingLen' = GreetingLen /\ RequestAt' = RequestAt /\ required_method' = required_method
      /\ (LogsIn(GreetingLen))' <=> LogsIn(GreetingLen)
  BY SameClient
<1>2. Greeted'
  BY <1>1 DEF Greeted, Admitted
<1>3. RequestAt <= rd'
  BY DEF Admitted
<1>4. Admitted'
  BY <1>1, <1>2, <1>3 DEF Admitted
<1> QED
  BY <1>1, <1>4 DEF Commanded

\* The head of a request.
LEMMA RequestReads ==
  ASSUME FrontHolds, ReadHolds, Request, UNCHANGED <<proto, creds, script, leftover, up, relay>>
  PROVE  ReadHolds'
<1>1. Reading("request") /\ pc = "request" /\ pc \in SocksSteps
  BY DEF Request, Reading, SocksSteps
<1>2. Admitted /\ Greeted /\ rd = RequestAt /\ want = 3
  BY <1>1 DEF FrontHolds, ReadHolds, SocksHolds, Admitted
<1>3. /\ rd' = rd + 3 /\ Got[1] = script.bytes[rd + 1] /\ Got[2] = script.bytes[rd + 2]
      /\ rd \in Nat /\ rd <= Len(script.bytes)
  <2>1. /\ \A i \in 1 .. 3 : Got[i] = script.bytes[rd + i]
        /\ rd' = rd + 3 /\ rd \in Nat /\ rd' <= Len(script.bytes) /\ Len(script.bytes) \in Nat
    BY <1>1, <1>2, GotBytes
  <2> QED
    BY <2>1
<1>4. GreetingLen \in Nat
  BY <1>2, <1>3, GreetedFacts
<1>5. \/ pc' \in {"closed", "failed"} /\ target' = target
      \/ Got[1] = 5 /\ Got[2] = 1 /\ pc' = "atyp" /\ target' = target
  BY DEF Request, Quits, Next_
<1>6. Admitted' /\ RequestAt' = RequestAt
  BY <1>2, <1>3, <1>4, StaysAdmitted
<1>7. ASSUME pc' = "atyp", Got[1] = 5, Got[2] = 1 PROVE SocksHolds'
  <2>1. Commanded'
    BY <1>2, <1>3, <1>6, <1>7 DEF Commanded
  <2>2. rd' = RequestAt' + 3 /\ RequestAt' \in Nat
    BY <1>2, <1>3, <1>6
  <2> QED
    BY <1>7, <2>1, <2>2 DEF SocksHolds
<1>8. "atyp" \in SocksSteps
  BY DEF SocksSteps
<1>9. pc' \in {"closed", "failed"} \/ (pc' \in SocksSteps /\ SocksHolds')
  BY <1>5, <1>7, <1>8
<1>10. target' = target
  BY <1>5
<1> QED
  BY <1>1, <1>9, <1>10, SocksGoesOn

\* The kind of the address.
LEMMA AddrTypeReads ==
  ASSUME FrontHolds, ReadHolds, AddrType, UNCHANGED <<proto, creds, script, leftover, up, relay>>
  PROVE  ReadHolds'
<1>1. Reading("atyp") /\ pc = "atyp" /\ pc \in SocksSteps
  BY DEF AddrType, Reading, SocksSteps
<1>2. Commanded /\ Admitted /\ Greeted /\ rd = RequestAt + 3 /\ want = 1 /\ RequestAt \in Nat
  BY <1>1 DEF FrontHolds, ReadHolds, SocksHolds, Commanded, Admitted
<1>3. /\ rd' = rd + 1 /\ Got[1] = script.bytes[rd + 1] /\ Got = <<Got[1]>>
      /\ rd \in Nat /\ rd <= Len(script.bytes)
  <2>1. /\ \A i \in 1 .. 1 : Got[i] = script.bytes[rd + i] /\ script.bytes[rd + i] \in Nat
        /\ rd' = rd + 1 /\ rd \in Nat /\ rd' <= Len(script.bytes) /\ Len(script.bytes) \in Nat
        /\ Got \in Seq(Nat) /\ Len(Got) = 1
    BY <1>1, <1>2, GotBytes
  <2>2. Got[1] \in Nat
    BY <2>1
  <2> DEFINE one == <<Got[1]>>
  <2>3. one \in Seq(Nat) /\ Len(one) = 1 /\ one[1] = Got[1]
    BY <2>2
  <2> HIDE DEF one
  <2>4. Got = one
    BY <2>1, <2>3, SameBytes
  <2> QED
    BY <2>1, <2>4 DEF one
<1>4. GreetingLen \in Nat
  BY <1>2, <1>3, GreetedFacts
<1>5. \/ pc' = "closed" /\ target' = target
      \/ Got[1] = KIND_V4 /\ pc' = "addr" /\ want' = V4_LEN + 1 /\ held' = Got /\ target' = target
      \/ Got[1] = KIND_V6 /\ pc' = "addr" /\ want' = V6_LEN + 1 /\ held' = Got /\ target' = target
      \/ Got[1] = KIND_DOMAIN /\ pc' = "length" /\ want' = 1 /\ held' = Got /\ target' = target
  BY DEF AddrType, Quits, Next_, KIND_V4, KIND_V6, KIND_DOMAIN
<1>6. Commanded' /\ RequestAt' = RequestAt
  <2>1. rd' \in Nat /\ rd <= rd'
    BY <1>3
  <2> QED
    BY <1>2, <1>3, <1>4, <2>1, StaysAdmitted
<1>7. rd' = RequestAt' + 3 + 1 /\ RequestAt' \in Nat /\ script'.bytes[rd'] = Got[1]
  BY <1>2, <1>3, <1>6
<1>8. pc' \in {"length", "addr"} => SocksHolds'
  <2> SUFFICES ASSUME pc' \in {"length", "addr"} PROVE SocksHolds'
    OBVIOUS
  <2>1. \/ pc' = "addr" /\ Kinds(RequestAt + 3, KIND_V4, V4_LEN + 1)'
        \/ pc' = "addr" /\ Kinds(RequestAt + 3, KIND_V6, V6_LEN + 1)'
        \/ pc' = "length" /\ Kinds(RequestAt + 3, KIND_DOMAIN, 1)'
    BY <1>3, <1>5, <1>7 DEF Kinds
  <2> QED
    BY <1>6, <1>7, <2>1 DEF SocksHolds
<1>9. "length" \in SocksSteps /\ "addr" \in SocksSteps
  BY DEF SocksSteps
<1>10. pc' = "closed" \/ (pc' \in SocksSteps /\ SocksHolds')
  BY <1>5, <1>8, <1>9
<1>11. target' = target
  BY <1>5
<1> QED
  BY <1>1, <1>10, <1>11, SocksGoesOn

\* The length of a name.
LEMMA LengthReads ==
  ASSUME FrontHolds, ReadHolds, NameLength, UNCHANGED <<proto, creds, script, leftover, up, relay>>
  PROVE  ReadHolds'
<1>1. Reading("length") /\ pc = "length" /\ pc \in SocksSteps
  BY DEF NameLength, Reading, SocksSteps
<1>2. /\ Commanded /\ Admitted /\ Greeted /\ rd = RequestAt + 4 /\ want = 1 /\ RequestAt \in Nat
      /\ held = <<KIND_DOMAIN>> /\ script.bytes[rd] = KIND_DOMAIN
  <2>1. Commanded /\ RequestAt \in Nat /\ Kinds(RequestAt + 3, KIND_DOMAIN, 1)
    BY <1>1 DEF ReadHolds, SocksHolds
  <2>2. rd = RequestAt + 3 + 1 /\ held = <<KIND_DOMAIN>> /\ script.bytes[rd] = KIND_DOMAIN /\ want = 1
    BY <2>1 DEF Kinds
  <2> QED
    BY <2>1, <2>2 DEF Commanded, Admitted
<1>3. /\ rd' = rd + 1 /\ Got[1] = script.bytes[rd + 1] /\ Got = <<Got[1]>> /\ Got[1] \in Nat
      /\ rd \in Nat /\ rd <= Len(script.bytes)
  <2>1. /\ \A i \in 1 .. 1 : Got[i] = script.bytes[rd + i] /\ script.bytes[rd + i] \in Nat
        /\ rd' = rd + 1 /\ rd \in Nat /\ rd' <= Len(script.bytes) /\ Len(script.bytes) \in Nat
        /\ Got \in Seq(Nat) /\ Len(Got) = 1
    BY <1>1, <1>2, GotBytes
  <2>2. Got[1] \in Nat
    BY <2>1
  <2> DEFINE one == <<Got[1]>>
  <2>3. one \in Seq(Nat) /\ Len(one) = 1 /\ one[1] = Got[1]
    BY <2>2
  <2> HIDE DEF one
  <2>4. Got = one
    BY <2>1, <2>3, SameBytes
  <2> QED
    BY <2>1, <2>2, <2>4 DEF one
<1>4. GreetingLen \in Nat
  BY <1>2, <1>3, GreetedFacts
<1>5. \/ pc' = "failed" /\ target' = target
      \/ pc' = "addr" /\ want' = Got[1] + 1 /\ held' = held \o Got /\ target' = target
  BY DEF NameLength, Quits, Next_
<1>6. Commanded' /\ RequestAt' = RequestAt
  <2>1. rd' \in Nat /\ rd <= rd'
    BY <1>3
  <2> QED
    BY <1>2, <1>3, <1>4, <2>1, StaysAdmitted
<1>7. held \o Got = <<KIND_DOMAIN, Got[1]>>
  <2>1. KIND_DOMAIN \in Nat
    BY DEF KIND_DOMAIN
  <2> QED
    BY <1>2, <1>3, <2>1, Pair
<1>8. /\ rd' = RequestAt' + 5 /\ RequestAt' \in Nat /\ script'.bytes[rd'] = Got[1]
      /\ script'.bytes[rd' - 1] = KIND_DOMAIN
  <2>1. rd' = RequestAt + 5 /\ rd' - 1 = rd
    BY <1>2, <1>3
  <2> QED
    BY <1>2, <1>3, <1>6, <2>1
<1>9. pc' = "addr" => SocksHolds'
  BY <1>5, <1>6, <1>7, <1>8 DEF SocksHolds
<1>10. "addr" \in SocksSteps
  BY DEF SocksSteps
<1> QED
  BY <1>1, <1>5, <1>9, <1>10, SocksGoesOn

\* What is read at the address, with what is held of the bytes before.
LEMMA AddressBytes ==
  ASSUME FrontHolds, ReadHolds, Reading("addr")
  PROVE  LET b == script.bytes
             r == RequestAt
         IN
         /\ r \in Nat /\ rd' \in Nat /\ rd' <= Len(b) /\ r + 4 <= rd'
         /\ held \o Got \in Seq(Nat) /\ Len(held \o Got) = rd' - (r + 3)
         /\ held \o Got = SubSeq(b, r + 4, rd')
         /\ \A i \in 1 .. Len(held \o Got) : (held \o Got)[i] = b[r + 3 + i]
         /\ \/ b[r + 4] = KIND_V4 /\ rd' = r + 4 + V4_LEN + 1
            \/ b[r + 4] = KIND_V6 /\ rd' = r + 4 + V6_LEN + 1
            \/ b[r + 4] = KIND_DOMAIN /\ b[r + 5] \in Nat /\ rd' = r + 5 + b[r + 5] + 1
<1> DEFINE b == script.bytes
           r == RequestAt
           src == held \o Got
           cut == SubSeq(b, r + 4, rd')
<1>1. pc = "addr" /\ Reading("addr")
  BY DEF Reading
<1>2. /\ r \in Nat
      /\ \/ Kinds(r + 3, KIND_V4, V4_LEN + 1)
         \/ Kinds(r + 3, KIND_V6, V6_LEN + 1)
         \/ /\ rd = r + 5 /\ b[rd - 1] = KIND_DOMAIN
            /\ held = <<KIND_DOMAIN, b[rd]>> /\ want = b[rd] + 1
  BY <1>1 DEF ReadHolds, SocksHolds, SocksSteps
<1>3. /\ Len(Got) = want /\ Got \in Seq(Nat) /\ rd \in Nat /\ want \in Nat
      /\ \A i \in 1 .. want : Got[i] = b[rd + i]
      /\ rd' = rd + want /\ rd' <= Len(b) /\ b \in Seq(Nat) /\ Len(b) \in Nat
  BY <1>1, GotBytes
<1>4. held \in Seq(Nat) /\ V4_LEN \in Nat /\ V6_LEN \in Nat
  <2>1. ~Served
    BY <1>1, NotYetServed DEF Address, Reading
  <2> QED
    BY <2>1, AddrAssumption DEF FrontHolds
<1> HIDE DEF b, r, src, cut
<1>7. \/ /\ held = <<b[r + 4]>> /\ rd = r + 4 /\ want = V4_LEN + 1 /\ b[r + 4] = KIND_V4
      \/ /\ held = <<b[r + 4]>> /\ rd = r + 4 /\ want = V6_LEN + 1 /\ b[r + 4] = KIND_V6
      \/ /\ held = <<b[r + 4], b[r + 5]>> /\ rd = r + 5 /\ want = b[r + 5] + 1 /\ b[r + 4] = KIND_DOMAIN
  <2>1. ASSUME NEW kind, NEW rest, Kinds(r + 3, kind, rest)
        PROVE  held = <<b[r + 4]>> /\ rd = r + 4 /\ want = rest /\ b[r + 4] = kind
    BY <1>2, <2>1 DEF Kinds, b
  <2>2. CASE rd = r + 5 /\ b[rd - 1] = KIND_DOMAIN /\ held = <<KIND_DOMAIN, b[rd]>> /\ want = b[rd] + 1
    <3>1. rd - 1 = r + 4
      BY <1>2, <2>2
    <3> QED
      BY <2>2, <3>1
  <2> QED
    BY <1>2, <2>1, <2>2
<1>8. /\ Len(held) = rd - (r + 3) /\ r + 4 <= rd
      /\ \A i \in 1 .. Len(held) : held[i] = b[r + 3 + i]
  <2>1. CASE held = <<b[r + 4]>> /\ rd = r + 4
    BY <1>2, <2>1
  <2>2. CASE held = <<b[r + 4], b[r + 5]>> /\ rd = r + 5
    <3>1. Len(held) = 2 /\ held[1] = b[r + 4] /\ held[2] = b[r + 5] /\ rd - (r + 3) = 2
      BY <1>2, <2>2
    <3>2. \A i \in 1 .. 2 : i = 1 \/ i = 2
      OBVIOUS
    <3>3. r + 3 + 1 = r + 4 /\ r + 3 + 2 = r + 5 /\ r + 4 <= rd
      BY <1>2, <2>2
    <3> QED
      BY <3>1, <3>2, <3>3
  <2> QED
    BY <1>7, <2>1, <2>2
<1>9. /\ src \in Seq(Nat) /\ Len(src) = rd' - (r + 3)
      /\ \A i \in 1 .. Len(src) : src[i] = b[r + 3 + i]
  <2>1. /\ src \in Seq(Nat) /\ Len(src) = Len(held) + Len(Got) /\ Len(held) \in Nat
        /\ \A i \in 1 .. Len(held) : src[i] = held[i]
        /\ \A i \in 1 .. Len(Got) : src[Len(held) + i] = Got[i]
    BY <1>3, <1>4, Joins DEF src
  <2>2. Len(src) = rd' - (r + 3)
    BY <1>2, <1>3, <1>8, <2>1
  <2>3. ASSUME NEW i \in 1 .. Len(src) PROVE src[i] = b[r + 3 + i]
    <3>1. CASE i <= Len(held)
      BY <1>8, <2>1, <3>1
    <3>2. CASE i > Len(held)
      <4>1. i - Len(held) \in 1 .. want /\ Len(held) + (i - Len(held)) = i
            /\ rd + (i - Len(held)) = r + 3 + i
        BY <1>2, <1>3, <1>8, <2>1, <3>2
      <4>2. src[i] = Got[i - Len(held)]
        BY <1>3, <2>1, <4>1
      <4> QED
        BY <1>3, <4>1, <4>2
    <3> QED
      BY <2>1, <3>1, <3>2
  <2> QED
    BY <2>1, <2>2, <2>3
<1>5. r + 4 <= rd' /\ rd' \in Nat
  BY <1>2, <1>3, <1>8
<1>10. src = cut
  <2>1. /\ r + 4 \in Nat \ {0} /\ rd' \in Nat /\ rd' <= Len(b) /\ r + 4 <= rd' + 1
        /\ rd' - (r + 4) + 1 = rd' - (r + 3)
    BY <1>2, <1>3, <1>8
  <2>2. /\ cut \in Seq(Nat) /\ Len(cut) = rd' - (r + 4) + 1
        /\ \A i \in 1 .. rd' - (r + 4) + 1 : cut[i] = b[r + 4 + i - 1]
    BY <1>3, <2>1, Cuts DEF cut
  <2>3. ASSUME NEW i \in 1 .. Len(src) PROVE src[i] = cut[i]
    <3>1. Len(src) = rd' - (r + 4) + 1
      BY <1>9, <2>1
    <3>2. i \in 1 .. rd' - (r + 4) + 1
      BY <3>1
    <3>3. i \in Nat /\ r + 4 + i - 1 = r + 3 + i
      <4>1. r \in Nat
        BY <1>2
      <4>2. i \in Nat
        OBVIOUS
      <4> QED
        BY <4>1, <4>2
    <3>4. cut[i] = b[r + 4 + i - 1]
      BY <2>2, <3>2
    <3> QED
      BY <1>9, <3>3, <3>4
  <2> QED
    BY <1>9, <2>1, <2>2, <2>3, SameBytes
<1>11. \/ b[r + 4] = KIND_V4 /\ rd' = r + 4 + V4_LEN + 1
       \/ b[r + 4] = KIND_V6 /\ rd' = r + 4 + V6_LEN + 1
       \/ b[r + 4] = KIND_DOMAIN /\ b[r + 5] \in Nat /\ rd' = r + 5 + b[r + 5] + 1
  <2>1. CASE rd = r + 4 /\ want = V4_LEN + 1 /\ b[r + 4] = KIND_V4
    <3>1. rd' = r + 4 + V4_LEN + 1
      BY <1>2, <1>3, <1>4, <2>1
    <3> QED
      BY <2>1, <3>1
  <2>2. CASE rd = r + 4 /\ want = V6_LEN + 1 /\ b[r + 4] = KIND_V6
    <3>1. rd' = r + 4 + V6_LEN + 1
      BY <1>2, <1>3, <1>4, <2>2
    <3> QED
      BY <2>2, <3>1
  <2>3. CASE rd = r + 5 /\ want = b[r + 5] + 1 /\ b[r + 4] = KIND_DOMAIN
    <3>1. b[r + 5] \in Nat
      <4>1. r + 5 \in 1 .. Len(b)
        BY <1>2, <1>3, <2>3
      <4> QED
        BY <1>3, <4>1, ElementOfSeq
    <3>2. rd' = r + 5 + b[r + 5] + 1
      BY <1>2, <1>3, <2>3, <3>1
    <3> QED
      BY <2>3, <3>1, <3>2
  <2> QED
    BY <1>7, <2>1, <2>2, <2>3
<1> QED
  BY <1>2, <1>3, <1>5, <1>9, <1>10, <1>11 DEF b, r, src, cut

\* The address, and with it the dial.
LEMMA AddressReads ==
  ASSUME FrontHolds, ReadHolds, Address, UNCHANGED <<proto, creds, script, leftover, up, relay>>
  PROVE  ReadHolds'
<1>0. ~Served /\ ~Served'
  <2>1. ~Served
    BY NotYetServed DEF Address, Reading
  <2> QED
    BY <2>1 DEF Served
<1>1. Reading("addr") /\ pc = "addr" /\ pc \in SocksSteps
  BY DEF Address, Reading, SocksSteps
<1> DEFINE b == script.bytes
           r == RequestAt
           src == held \o Got
           end == rd'
           cut == SubSeq(b, r + 4, end)
<1>2. Commanded /\ Admitted /\ Greeted /\ b \in Seq(Nat)
  BY <1>1 DEF ReadHolds, SocksHolds, Commanded, Admitted, FrontHolds
<1>3. proto = "socks5" /\ leftover = <<>>
  BY <1>1 DEF ReadHolds
<1>4. \/ target' = target /\ pc' = "failed"
      \/ /\ ~IsError(decode(src)) /\ target' = decode(src) /\ pc' = "dial"
         /\ decode(src).kind = KIND_DOMAIN => validate_domain(decode(src).host)
  BY DEF Address, Quits, Next_
<1> HIDE DEF b, r, src, end, cut
<1>5. /\ r \in Nat /\ end \in Nat /\ end <= Len(b) /\ r + 4 <= end
      /\ src \in Seq(Nat) /\ Len(src) = end - (r + 3) /\ src = cut
      /\ \A i \in 1 .. Len(src) : src[i] = b[r + 3 + i]
      /\ \/ b[r + 4] = KIND_V4 /\ end = r + 4 + V4_LEN + 1
         \/ b[r + 4] = KIND_V6 /\ end = r + 4 + V6_LEN + 1
         \/ b[r + 4] = KIND_DOMAIN /\ b[r + 5] \in Nat /\ end = r + 5 + b[r + 5] + 1
  BY <1>1, AddressBytes DEF b, r, src, end, cut
<1>6. CASE target' = target /\ pc' = "failed"
  BY <1>1, <1>6, SocksGoesOn
<1>7. ASSUME ~IsError(decode(src)), target' = decode(src), pc' = "dial",
             decode(src).kind = KIND_DOMAIN => validate_domain(decode(src).host)
      PROVE  ReadHolds'
  <2>1. /\ src[1] = KIND_V4 => Len(src) = V4_LEN + 2
        /\ src[1] = KIND_V6 => Len(src) = V6_LEN + 2
        /\ src[1] = KIND_DOMAIN => Len(src) = src[2] + 3
    <3>1. V4_LEN \in Nat /\ V6_LEN \in Nat
      BY AddrAssumption
    <3>2. src[1] = b[r + 4]
      <4>1. 1 \in 1 .. Len(src) /\ r + 3 + 1 = r + 4
        BY <1>5
      <4> QED
        BY <1>5, <4>1
    <3>3. CASE b[r + 4] = KIND_V4 /\ end = r + 4 + V4_LEN + 1
      <4>1. Len(src) = V4_LEN + 2
        BY <1>5, <3>1, <3>3
      <4> QED
        BY <3>2, <3>3, <4>1 DEF KIND_V4, KIND_V6, KIND_DOMAIN
    <3>4. CASE b[r + 4] = KIND_V6 /\ end = r + 4 + V6_LEN + 1
      <4>1. Len(src) = V6_LEN + 2
        BY <1>5, <3>1, <3>4
      <4> QED
        BY <3>2, <3>4, <4>1 DEF KIND_V4, KIND_V6, KIND_DOMAIN
    <3>5. CASE b[r + 4] = KIND_DOMAIN /\ b[r + 5] \in Nat /\ end = r + 5 + b[r + 5] + 1
      <4>1. Len(src) = b[r + 5] + 3 /\ 2 \in 1 .. Len(src) /\ r + 3 + 2 = r + 5
        BY <1>5, <3>5
      <4>2. src[2] = b[r + 5]
        BY <1>5, <4>1
      <4> QED
        BY <3>2, <3>5, <4>1, <4>2 DEF KIND_V4, KIND_V6, KIND_DOMAIN
    <3> QED
      BY <1>5, <3>3, <3>4, <3>5
  <2>2. encode(decode(src)) = src
    BY <1>5, <1>7, <2>1, DecodedIsEncoded
  <2>3. end \in Nat /\ end >= 2 /\ end >= r + 4 /\ end \in 0 .. end
    BY <1>5
  <2>4. SocksRequest(end)
    <3>1. b[1] = 5 /\ \E i \in 3 .. GreetingLen : b[i] = required_method
      BY <1>2 DEF Greeted, b
    <3>2. creds => LogsIn(GreetingLen)
      BY <1>2 DEF Admitted
    <3>3. b[r + 1] = 5 /\ b[r + 2] = 1
      BY <1>2 DEF Commanded, b, r
    <3>4. decode(SubSeq(b, r + 4, end)) = decode(src) /\ SubSeq(b, r + 4, end) = src
      BY <1>5 DEF cut
    <3> QED
      BY <1>7, <2>2, <2>3, <3>1, <3>2, <3>3, <3>4 DEF SocksRequest, b, r
  <2>5. IsRequest(end) /\ Named(end) = decode(src)
    BY <1>3, <1>5, <2>4 DEF IsRequest, Named, cut, b, r
  <2>6. leftover' = SubSeq(script.bytes, end + 1, end)
    <3>1. leftover' = <<>>
      BY <1>3
    <3>2. SubSeq(b, end + 1, end) = <<>>
      <4>1. end + 1 \in Nat \ {0} /\ end <= Len(b) /\ end + 1 <= end + 1 /\ end - (end + 1) + 1 = 0
        BY <1>5
      <4>2. SubSeq(b, end + 1, end) \in Seq(Nat) /\ Len(SubSeq(b, end + 1, end)) = end - (end + 1) + 1
        BY <1>2, <1>5, <4>1, Cuts
      <4> QED
        BY <4>1, <4>2, EmptySeq
    <3> QED
      BY <3>1, <3>2 DEF b, end
  <2>7. AskHolds'
    BY <1>0, <1>7, <2>3, <2>5, <2>6, SameClient DEF AskHolds, end
  <2> QED
    BY <1>0, <1>7, <2>7 DEF ReadHolds, SocksSteps
<1> QED
  BY <1>4, <1>6, <1>7

\* What was read begins as the bytes of the application do.
LEMMA BufIsRead ==
  ASSUME FrontHolds
  PROVE  /\ \A n \in 0 .. rd : SubSeq(buf, 1, n) = SubSeq(script.bytes, 1, n)
         /\ \A n \in 0 .. rd : SubSeq(buf, n + 1, rd) = SubSeq(script.bytes, n + 1, rd)
         /\ \A k \in 0 .. rd - 4 : SubSeq(buf, k + 1, k + 4) = SubSeq(script.bytes, k + 1, k + 4)
         /\ rd \in Nat /\ rd <= Len(script.bytes) /\ scanned \in Nat
<1> DEFINE b == script.bytes
<1>1. /\ b \in Seq(Nat) /\ Len(b) \in Nat /\ rd \in Nat /\ rd <= Len(b) /\ scanned \in Nat
      /\ rd = rd - 1 + 1
  BY LenProperties DEF FrontHolds
<1> HIDE DEF b
<1>2. ASSUME NEW i \in Nat \ {0}, NEW j \in Nat, j <= rd, i <= j + 1
      PROVE  SubSeq(SubSeq(b, 1, rd), i, j) = SubSeq(b, i, j)
  <2>1. 1 \in Nat \ {0} /\ 1 <= rd + 1 /\ j <= rd - 1 + 1 /\ i = 1 + i - 1 /\ j = 1 + j - 1
    BY <1>1, <1>2
  <2> QED
    BY <1>1, <1>2, <2>1, CutOfCut
<1>3. ASSUME NEW n \in 0 .. rd
      PROVE  SubSeq(SubSeq(b, 1, rd), 1, n) = SubSeq(b, 1, n)
  <2>1. 1 \in Nat \ {0} /\ n \in Nat /\ n <= rd /\ 1 <= n + 1
    BY <1>1
  <2> QED
    BY <1>2, <2>1
<1>4. ASSUME NEW n \in 0 .. rd
      PROVE  SubSeq(SubSeq(b, 1, rd), n + 1, rd) = SubSeq(b, n + 1, rd)
  <2>1. n + 1 \in Nat \ {0} /\ rd \in Nat /\ rd <= rd /\ n + 1 <= rd + 1
    BY <1>1
  <2> QED
    BY <1>2, <2>1
<1>5. ASSUME NEW k \in 0 .. rd - 4
      PROVE  SubSeq(SubSeq(b, 1, rd), k + 1, k + 4) = SubSeq(b, k + 1, k + 4)
  <2>1. k + 1 \in Nat \ {0} /\ k + 4 \in Nat /\ k + 4 <= rd /\ k + 1 <= k + 4 + 1
    BY <1>1
  <2> QED
    BY <1>2, <2>1
<1> QED
  BY <1>1, <1>3, <1>4, <1>5 DEF buf, b

\* A separator that is found ends a head, and what is not found is none.
LEMMA SeparatorsAreHeads ==
  ASSUME FrontHolds, scanned <= rd
  PROVE  /\ Separators(scanned) \subseteq Nat
         /\ \A m \in Separators(scanned) : m \in 0 .. rd - 4 /\ EndsHead(m + 4)
         /\ \A m \in scanned .. rd - 4 : EndsHead(m + 4) => m \in Separators(scanned)
<1>1. /\ \A k \in 0 .. rd - 4 : SubSeq(buf, k + 1, k + 4) = SubSeq(script.bytes, k + 1, k + 4)
      /\ rd \in Nat /\ scanned \in Nat
  BY BufIsRead
<1>2. ASSUME NEW m \in scanned .. rd - 4
      PROVE  /\ m \in Nat /\ m \in 0 .. rd - 4
             /\ EndsHead(m + 4) <=> SubSeq(buf, m + 1, m + 4) = CRLFCRLF
  <2>1. m \in Nat /\ m \in 0 .. rd - 4 /\ m + 4 >= 4 /\ m + 4 - 3 = m + 1
    BY <1>1
  <2>2. SubSeq(buf, m + 1, m + 4) = SubSeq(script.bytes, m + 1, m + 4)
    BY <1>1, <2>1
  <2>3. EndsHead(m + 4) <=> SubSeq(script.bytes, m + 4 - 3, m + 4) = CRLFCRLF
    BY <2>1 DEF EndsHead
  <2> QED
    BY <2>1, <2>2, <2>3
<1> QED
  BY <1>2 DEF Separators

\* One turn of the search for the end of the head.
LEMMA ScanReads ==
  ASSUME FrontHolds, ReadHolds, Scan, UNCHANGED <<proto, creds, script, up, relay>>
  PROVE  ReadHolds'
<1>0. ~Served /\ ~Served'
  <2>1. ~Served
    BY NotYetServed DEF Scan
  <2> QED
    BY <2>1 DEF Served
<1>1. /\ pc = "scan" /\ proto # "socks5" /\ target = NoTarget /\ rd' = rd /\ rd \in Nat /\ scanned \in Nat
      /\ scanned <= rd /\ \A k \in 4 .. scanned + 3 : ~EndsHead(k)
  BY BufIsRead DEF Scan, ReadHolds, ScanHolds
<1>2. /\ Separators(scanned) \subseteq Nat
      /\ \A m \in Separators(scanned) : m \in 0 .. rd - 4 /\ EndsHead(m + 4)
      /\ \A m \in scanned .. rd - 4 : EndsHead(m + 4) => m \in Separators(scanned)
  BY <1>1, SeparatorsAreHeads
<1>3. \A n : (EndsHead(n))' <=> EndsHead(n)
  BY SameClient
<1>4. ASSUME NEW k \in 4 .. rd, EndsHead(k) PROVE k - 4 \in Separators(scanned)
  <2>1. ~(k \in 4 .. scanned + 3) /\ k \in Nat
    BY <1>1, <1>4
  <2>2. k - 4 \in scanned .. rd - 4 /\ k - 4 + 4 = k
    BY <1>1, <2>1
  <2> QED
    BY <1>2, <1>4, <2>2
<1>5. ASSUME pc' \in {"closed", "failed"}, target' = target PROVE ReadHolds'
  BY <1>0, <1>1, <1>5 DEF ReadHolds, SocksSteps
<1>6. CASE Separators(scanned) # {}
  <2> DEFINE m == Min(Separators(scanned))
             end == m + 4
             head == SubSeq(buf, 1, end)
  <2>1. m \in Separators(scanned) /\ \A y \in Separators(scanned) : m <= y
    BY <1>2, <1>6, Smallest
  <2>2. Head_(end)
    BY <1>6, Zenon DEF Scan
  <2> HIDE DEF m
  <2>3. m \in 0 .. rd - 4 /\ EndsHead(m + 4)
    BY <1>2, <2>1
  <2>4. m \in Nat /\ end \in 0 .. rd /\ end >= 4 /\ EndsHead(end)
    BY <1>1, <2>3
  <2> HIDE DEF end
  <2>5. \/ pc' \in {"closed", "failed"} /\ target' = target
        \/ /\ ~(end > MAX_HEAD_BYTES) /\ Refusal(head) = 0
           /\ leftover' = SubSeq(buf, end + 1, rd)
           /\ target' = parse_authority(Asked(head)) /\ pc' = "dial"
    BY <2>2, Zenon DEF Head_, Rejects
  <2>6. ASSUME ~(end > MAX_HEAD_BYTES), Refusal(head) = 0, leftover' = SubSeq(buf, end + 1, rd),
               target' = parse_authority(Asked(head)), pc' = "dial"
        PROVE  ReadHolds'
    <3>1. head = SubSeq(script.bytes, 1, end) /\ leftover' = SubSeq(script.bytes, end + 1, rd)
      BY <2>4, <2>6, BufIsRead
    <3>2. ASSUME NEW k \in 4 .. end - 1 PROVE ~EndsHead(k)
      <4>1. k \in 4 .. rd /\ k - 4 < m
        BY <1>1, <2>4 DEF end
      <4>2. k - 4 \notin Separators(scanned)
        <5>1. k - 4 \in Nat
          BY <4>1
        <5>2. ~(m <= k - 4)
          BY <2>4, <4>1, <5>1
        <5> QED
          BY <2>1, <5>2
      <4> QED
        BY <1>4, <4>1, <4>2
    <3>3. end <= MAX_HEAD_BYTES
      <4>1. end \in Nat
        BY <2>4
      <4> QED
        BY <2>6, <4>1, FrontendAssumption
    <3>4. HttpRequest(end)
      BY <2>4, <2>6, <3>1, <3>2, <3>3 DEF HttpRequest
    <3>5. IsRequest(end) /\ Named(end) = target'
      BY <1>1, <2>6, <3>1, <3>4 DEF IsRequest, Named
    <3>6. AskHolds'
      <4>1. end \in 0 .. rd' /\ leftover' = SubSeq(script'.bytes, end + 1, rd')
        BY <1>1, <2>4, <3>1
      <4> QED
        BY <1>0, <2>6, <3>5, <4>1, SameClient DEF AskHolds
    <3> QED
      BY <1>0, <2>6, <3>6 DEF ReadHolds, SocksSteps
  <2> QED
    BY <1>5, <2>5, <2>6
<1>7. CASE Separators(scanned) = {}
  <2>1. /\ scanned' = IF rd > 3 THEN rd - 3 ELSE 0
        /\ target' = target
        /\ pc' \in {"closed", "failed"} \/ (pc' = "read" /\ ~(rd > MAX_HEAD_BYTES))
    BY <1>7, Zenon DEF Scan, Rejects
  <2>2. ScanHolds'
    <3>1. scanned' <= rd' /\ rd' <= scanned' + 3 /\ (pc' = "read" => rd' <= MAX_HEAD_BYTES) /\ pc' # "scan"
      BY <1>1, <2>1, FrontendAssumption
    <3>2. ASSUME NEW k \in 4 .. scanned' + 3 PROVE ~EndsHead(k)
      <4>1. k \in 4 .. rd
        BY <1>1, <2>1
      <4> QED
        BY <1>4, <1>7, <4>1
    <3> QED
      BY <1>3, <3>1, <3>2 DEF ScanHolds
  <2> QED
    BY <1>0, <1>1, <1>5, <2>1, <2>2 DEF ReadHolds, SocksSteps
<1> QED
  BY <1>6, <1>7

\* A read, and the end of the stream before the end of the head.
LEMMA ChunkReads ==
  ASSUME FrontHolds, FrontHolds', ReadHolds, ReadChunk \/ ReadEof, UNCHANGED <<proto, creds, script, up, relay>>
  PROVE  ReadHolds'
<1>0. ~Served /\ ~Served'
  <2>1. ~Served
    BY NotYetServed DEF ReadChunk, ReadEof
  <2> QED
    BY <2>1 DEF Served
<1>1. pc = "read" /\ proto # "socks5" /\ target = NoTarget /\ ScanHolds
  BY DEF ReadChunk, ReadEof, ReadHolds
<1>2. CASE ReadEof
  <2>1. pc' = "failed" /\ target' = target
    BY <1>2 DEF ReadEof
  <2> QED
    BY <1>0, <1>1, <2>1 DEF ReadHolds, SocksSteps
<1>3. CASE ReadChunk
  <2>1. /\ pc' = "scan" /\ scanned' = scanned /\ target' = target
        /\ rd' = rd + Min({READ_CHUNK, arrived - rd})
        /\ rd \in Nat /\ arrived - rd \in Nat \ {0} /\ READ_CHUNK \in Nat
    <3>1. Len(script.bytes) \in Nat
      BY LenProperties DEF FrontHolds
    <3> QED
      BY <1>3, <3>1, FrontendAssumption DEF ReadChunk, FrontHolds
  <2>2. Min({READ_CHUNK, arrived - rd}) \in Nat /\ Min({READ_CHUNK, arrived - rd}) <= READ_CHUNK
    <3> DEFINE S == {READ_CHUNK, arrived - rd}
    <3>1. S \subseteq Nat /\ S # {} /\ READ_CHUNK \in S
      BY <2>1
    <3> HIDE DEF S
    <3>2. Min(S) \in S /\ Min(S) <= READ_CHUNK
      BY <3>1, Smallest
    <3>3. Min(S) \in Nat /\ Min(S) <= READ_CHUNK
      BY <3>1, <3>2
    <3> QED
      BY <3>3 DEF S
  <2>3. scanned' <= rd' /\ scanned \in Nat
    <3>1. scanned \in Nat /\ scanned <= rd
      BY <1>1 DEF FrontHolds, ScanHolds
    <3> QED
      BY <2>1, <2>2, <3>1
  <2>6. rd' <= MAX_HEAD_BYTES + READ_CHUNK
    <3>1. rd <= MAX_HEAD_BYTES /\ MAX_HEAD_BYTES \in Nat
      BY <1>1, FrontendAssumption DEF ScanHolds
    <3> DEFINE n == Min({READ_CHUNK, arrived - rd})
    <3>2. rd' = rd + n /\ n \in Nat /\ n <= READ_CHUNK /\ rd \in Nat /\ READ_CHUNK \in Nat
      BY <2>1, <2>2
    <3> HIDE DEF n
    <3> QED
      BY <3>1, <3>2
  <2>4. \A n : (EndsHead(n))' <=> EndsHead(n)
    BY SameClient
  <2>5. ScanHolds'
    BY <1>1, <2>1, <2>3, <2>4, <2>6 DEF ScanHolds
  <2> QED
    BY <1>0, <1>1, <2>1, <2>5 DEF ReadHolds, SocksSteps
<1> QED
  BY <1>2, <1>3

\* The dial, the relay and the sockets.
LEMMA RelayIsRead ==
  ASSUME FrontHolds, ReadHolds, DialOk \/ DialBreaks \/ DialFails \/ Relay \/ UpstreamEnds
  PROVE  ReadHolds'
<1>1. UNCHANGED <<proto, creds, script>> /\ target' = target /\ pc \in {"dial", "relay"}
  BY DEF DialOk, DialBreaks, Relays, DialFails, Relay, UpstreamEnds, client
<1>2. AskHolds /\ (pc = "relay" => Served) /\ (pc = "dial" => ~Served)
  BY <1>1 DEF FrontHolds, ReadHolds
<1>3. PICK n \in 0 .. rd :
        /\ IsRequest(n) /\ target = Named(n)
        /\ pc = "dial" => leftover = SubSeq(script.bytes, n + 1, rd)
        /\ Served => Given(n)
  BY <1>2 DEF AskHolds
<1>4. (IsRequest(n))' /\ target' = (Named(n))'
  <2>1. (\A m : (IsRequest(m))' <=> IsRequest(m)) /\ (\A m : (Named(m))' = Named(m))
    BY <1>1, SameClient
  <2> QED
    BY <1>1, <1>3, <2>1
<1>5. ASSUME n \in 0 .. rd', pc' \in {"closed", "relay", "done", "broken"}, Served' => (Given(n))'
      PROVE  ReadHolds'
  <2>1. AskHolds'
    BY <1>1, <1>4, <1>5 DEF AskHolds
  <2> QED
    BY <1>5, <2>1 DEF ReadHolds, SocksSteps
<1> DEFINE b == script.bytes
<1>6. /\ b \in Seq(Nat) /\ Len(b) \in Nat /\ arrived \in Nat /\ arrived <= Len(b)
      /\ rd \in Nat /\ n \in Nat /\ n <= rd /\ rd <= arrived
  BY LenProperties DEF FrontHolds
<1>7. CASE DialOk \/ DialBreaks
  <2>0. pc = "dial"
    BY <1>7 DEF DialOk, DialBreaks
  <2>2. leftover \in Seq(Nat) /\ leftover = SubSeq(b, n + 1, rd) /\ Len(leftover) \in Nat
    <3> HIDE DEF b
    <3>1. n + 1 \in Nat \ {0} /\ rd \in Nat /\ rd <= Len(b) /\ n + 1 <= rd + 1
      BY <1>6
    <3>2. SubSeq(b, n + 1, rd) \in Seq(Nat)
      BY <1>6, <3>1, Cuts
    <3>3. leftover = SubSeq(b, n + 1, rd)
      BY <1>3, <2>0 DEF b
    <3> QED
      BY <3>2, <3>3, LenProperties
  <2>1. PICK given \in 0 .. Len(leftover) : Relays(given) /\ pc' \in {"relay", "broken"}
    <3>1. Len(leftover) \in 0 .. Len(leftover)
      BY <2>2
    <3> QED
      BY <1>7, <3>1 DEF DialOk, DialBreaks
  <2>3. up' = SubSeq(leftover, 1, given) /\ held' = SubSeq(leftover, given + 1, Len(leftover)) /\ rd' = rd
    BY <2>1 DEF Relays
  <2>4. /\ up' \in Seq(Nat) /\ held' \in Seq(Nat) /\ up' \o held' = leftover
    BY <2>2, <2>3, CutInTwo
  <2>5. (Given(n))'
    BY <1>1, <2>2, <2>3, <2>4 DEF Given
  <2> QED
    BY <1>5, <2>1, <2>3, <2>5
<1>8. CASE DialFails
  <2>1. pc = "dial" /\ pc' \in {"closed", "broken"} /\ rd' = rd /\ relay' = relay
    BY <1>8 DEF DialFails
  <2> QED
    BY <1>2, <1>3, <1>5, <2>1 DEF Served
<1>9. CASE UpstreamEnds \/ (Relay /\ (RelayShuts \/ RelayShutsDown \/ RelayDone))
  <2>1. pc = "relay" /\ pc' \in {"relay", "done"} /\ UNCHANGED <<rd, held, up>>
    BY <1>9 DEF UpstreamEnds, Relay, RelayShuts, RelayShutsDown, RelayDone
  <2>2. (Given(n))'
    BY <1>1, <1>2, <1>3, <2>1 DEF Given
  <2> QED
    BY <1>3, <1>5, <2>1, <2>2
<1>10. CASE Relay /\ RelayReads
  <2> DEFINE x == SubSeq(b, n + 1, rd)
             y == SubSeq(b, rd + 1, arrived)
             z == SubSeq(b, n + 1, arrived)
  <2>1. pc = "relay" /\ pc' = "relay" /\ rd' = arrived /\ arrived > rd /\ held' = held \o y /\ up' = up
    BY <1>10 DEF Relay, RelayReads
  <2>2. up \in Seq(Nat) /\ held \in Seq(Nat) /\ up \o held = x
    BY <1>2, <1>3, <2>1 DEF Given
  <2> HIDE DEF b
  <2>3. y \in Seq(Nat)
    BY <1>6, <2>1, Cuts
  <2>4. x \o y = z
    <3>1. n + 1 \in 1 .. Len(b) + 1 /\ rd \in n + 1 - 1 .. Len(b) /\ arrived \in rd .. Len(b)
      BY <1>6
    <3> QED
      BY <1>6, <3>1, ConcatAdjacentSubSeq
  <2> HIDE DEF x, y, z
  <2>5. held' \in Seq(Nat) /\ up' \o held' = z
    <3>1. up \o held \o y = up \o (held \o y)
      BY <2>2, <2>3, Regroups
    <3> QED
      BY <2>1, <2>2, <2>3, <2>4, <3>1, ConcatProperties
  <2>6. (Given(n))'
    BY <1>1, <2>1, <2>2, <2>5 DEF Given, z, b
  <2>7. n \in 0 .. rd'
    BY <1>6, <2>1
  <2> QED
    BY <1>5, <2>1, <2>6, <2>7
<1>11. CASE Relay /\ RelayWrites
  <2>1. PICK k \in 1 .. Len(held) :
          up' = up \o SubSeq(held, 1, k) /\ held' = SubSeq(held, k + 1, Len(held))
    BY <1>11 DEF RelayWrites
  <2>2. pc = "relay" /\ pc' = "relay" /\ rd' = rd
    BY <1>11 DEF Relay, RelayWrites
  <2>3. up \in Seq(Nat) /\ held \in Seq(Nat) /\ up \o held = SubSeq(b, n + 1, rd) /\ Len(held) \in Nat
    BY <1>2, <1>3, <2>2, LenProperties DEF Given
  <2> DEFINE x == SubSeq(held, 1, k)
             y == SubSeq(held, k + 1, Len(held))
  <2>4. x \in Seq(Nat) /\ y \in Seq(Nat) /\ x \o y = held
    <3>1. k \in 0 .. Len(held)
      BY <2>3
    <3> QED
      BY <2>3, <3>1, CutInTwo
  <2> HIDE DEF x, y
  <2>5. up' = up \o x /\ held' = y
    BY <2>1 DEF x, y
  <2>6. up' \in Seq(Nat) /\ up' \o held' = up \o held
    <3>1. up \o x \o y = up \o (x \o y)
      BY <2>3, <2>4, Regroups
    <3> QED
      BY <2>3, <2>4, <2>5, <3>1, ConcatProperties
  <2>7. (Given(n))'
    BY <1>1, <2>2, <2>3, <2>4, <2>5, <2>6 DEF Given
  <2> QED
    BY <1>3, <1>5, <2>2, <2>7
<1> QED
  BY <1>7, <1>8, <1>9, <1>10, <1>11 DEF Relay

\* A socket fails.
LEMMA BreakIsRead ==
  ASSUME FrontHolds, ReadHolds, Breaks
  PROVE  ReadHolds'
<1>1. /\ pc' = "broken" /\ pc # "dial"
      /\ UNCHANGED <<proto, creds, script, rd, held, leftover, target, up, relay>>
  BY DEF Breaks, client
<1>2. AskHolds => AskHolds'
  <2>1. (\A m : (IsRequest(m))' <=> IsRequest(m)) /\ (\A m : (Named(m))' = Named(m))
    BY <1>1, SameClient
  <2> QED
    BY <1>1, <2>1 DEF AskHolds, Served, Given
<1> QED
  BY <1>1, <1>2 DEF ReadHolds, SocksSteps, Served

\* The start of a connection.
LEMMA ReadStarts == Init => ReadHolds
<1> SUFFICES ASSUME Init PROVE ReadHolds
  OBVIOUS
<1>1. /\ pc = IF proto = "socks5" THEN "greeting" ELSE "scan"
      /\ rd = 0 /\ scanned = 0 /\ leftover = <<>> /\ target = NoTarget /\ relay = NoRelay
  BY DEF Init, FInit
<1>2. CASE proto = "socks5"
  BY <1>1, <1>2 DEF ReadHolds, SocksHolds, SocksSteps, Served, NoRelay
<1>3. CASE proto # "socks5"
  <2>1. 0 <= MAX_HEAD_BYTES + READ_CHUNK
    BY FrontendAssumption
  <2> QED
    BY <1>1, <1>3, <2>1 DEF ReadHolds, ScanHolds, SocksSteps, Served, NoRelay
<1> QED
  BY <1>2, <1>3

\* Every step keeps what was read.
LEMMA ReadKeeps ==
  ASSUME FrontHolds, FrontHolds', ReadHolds, [Next]_vars
  PROVE  ReadHolds'
<1>1. CASE Socks5
  <2>1. UNCHANGED <<proto, creds, script, leftover, up, relay>>
    BY <1>1 DEF Socks5, Unsaid, client
  <2>2. CASE Starves
    <3>1. pc \in SocksSteps /\ pc' = "failed" /\ target' = target
      BY <2>2 DEF Starves, Quits, Ended, ReadHolds
    <3> QED
      BY <2>1, <3>1, SocksGoesOn
  <2> QED
    BY <1>1, <2>1, <2>2, GreetingReads, MethodsRead, AuthReads, UserReads, PassReads, RequestReads,
       AddrTypeReads, LengthReads, AddressReads DEF Socks5
<1>2. CASE HttpConnect
  <2>1. UNCHANGED <<proto, creds, script, up, relay>>
    BY <1>2 DEF HttpConnect, client
  <2> QED
    BY <1>2, <2>1, ScanReads, ChunkReads DEF HttpConnect
<1>3. CASE DialOk \/ DialBreaks \/ DialFails \/ Relay \/ UpstreamEnds
  BY <1>3, RelayIsRead
<1>4. CASE Arrives \/ Closes \/ UNCHANGED fvars
  <2>1. UNCHANGED <<proto, creds, script, server>>
    BY <1>4 DEF Arrives, Closes, fvars, client
  <2> QED
    BY <2>1, RestReads
<1>5. \/ Socks5 \/ HttpConnect \/ DialOk \/ DialBreaks \/ DialFails \/ Relay \/ UpstreamEnds \/ Breaks
      \/ Arrives \/ Closes \/ UNCHANGED fvars
  BY DEF Next, vars, Application, Sockets, Serves, Dials, DialsInVain, SendsFrame, SendsForeign, Delivers,
         Decodes
<1> QED
  BY <1>1, <1>2, <1>3, <1>4, <1>5, BreakIsRead

\* The reads of a connection, always.
LEMMA ReadsHold == Spec => [](FrontHolds /\ ReadHolds)
<1>1. Init => PathHolds /\ ReadHolds
  BY PathStarts, ReadStarts
<1>2. PathHolds /\ ReadHolds /\ [Next]_vars => PathHolds' /\ ReadHolds'
  <2>1. PathHolds => FrontHolds
    BY DEF PathHolds
  <2>2. PathHolds' => FrontHolds'
    BY DEF PathHolds
  <2> QED
    BY <2>1, <2>2, PathKeeps, ReadKeeps
<1>3. PathHolds => FrontHolds
  BY DEF PathHolds
<1> QED
  BY <1>1, <1>2, <1>3, PTL DEF Spec

-----------------------------------------------------------------------------
(* The allow list.                                                         *)

\* A set of natural numbers up to n that is not empty has a greatest element.
LEMMA Greatest ==
  ASSUME NEW n \in Nat, NEW S, S \subseteq 0 .. n, S # {}
  PROVE  Max(S) \in S /\ \A y \in S : y <= Max(S)
<1> DEFINE T == {n - y : y \in S}
<1>1. \A y \in S : y \in Nat /\ n - y \in Nat
  OBVIOUS
<1>2. PICK z \in T : \A y \in T : z <= y
  <2>1. T \subseteq Nat /\ T # {}
    BY <1>1
  <2> HIDE DEF T
  <2> QED
    BY <2>1, Smallest
<1>3. PICK x \in S : z = n - x
  BY <1>2
<1>4. ASSUME NEW y \in S PROVE x >= y
  <2>1. n - x <= n - y /\ x \in Nat /\ y \in Nat
    BY <1>1, <1>2, <1>3
  <2> QED
    BY <2>1
<1>5. Max(S) \in S /\ \A y \in S : Max(S) >= y
  BY <1>4 DEF Max
<1> QED
  BY <1>5

\* A suffix, byte by byte.
LEMMA SuffixIs ==
  ASSUME NEW a \in Seq(Nat), NEW b \in Seq(Nat)
  PROVE  IsSuffix(a, b) <=>
           Len(a) <= Len(b) /\ \A i \in 1 .. Len(a) : a[i] = b[Len(b) - Len(a) + i]
<1> DEFINE ra == [i \in 1 .. Len(a) |-> a[(Len(a) - i) + 1]]
           rb == [i \in 1 .. Len(b) |-> b[(Len(b) - i) + 1]]
<1>1. Len(a) \in Nat /\ Len(b) \in Nat /\ \A i \in 1 .. Len(a) : a[i] \in Nat
      /\ \A j \in 1 .. Len(b) : b[j] \in Nat
  BY LenProperties, ElementOfSeq
<1>2. Reverse(a) = ra /\ Reverse(b) = rb
  BY DEF Reverse
<1>3. ra \in Seq(Nat) /\ Len(ra) = Len(a) /\ \A i \in 1 .. Len(a) : ra[i] = a[(Len(a) - i) + 1]
  BY <1>1
<1>4. rb \in Seq(Nat) /\ Len(rb) = Len(b) /\ \A i \in 1 .. Len(b) : rb[i] = b[(Len(b) - i) + 1]
  BY <1>1
<1> HIDE DEF ra, rb
<1>5. SubSeq(ra, 1, Len(ra)) = ra
  BY <1>3, SubSeqFull
<1>6. IsSuffix(a, b) <=> Len(a) <= Len(b) /\ ra = SubSeq(rb, 1, Len(a))
  BY <1>2, <1>3, <1>4, <1>5 DEF IsSuffix, IsPrefix
<1>7. ASSUME Len(a) <= Len(b)
      PROVE  ra = SubSeq(rb, 1, Len(a)) <=> \A i \in 1 .. Len(a) : a[i] = b[Len(b) - Len(a) + i]
  <2> DEFINE t == SubSeq(rb, 1, Len(a))
  <2>1. t \in Seq(Nat) /\ Len(t) = Len(a) /\ \A i \in 1 .. Len(a) : t[i] = rb[i]
    <3>1. /\ t \in Seq(Nat) /\ Len(t) = Len(a) - 1 + 1
          /\ \A i \in 1 .. Len(a) - 1 + 1 : t[i] = rb[1 + i - 1]
      <4> DEFINE n == Len(a)
      <4>1. n \in Nat /\ n <= Len(rb) /\ 1 <= n + 1 /\ 1 \in Nat \ {0} /\ rb \in Seq(Nat)
        BY <1>1, <1>4, <1>7
      <4> HIDE DEF n
      <4>2. /\ SubSeq(rb, 1, n) \in Seq(Nat) /\ Len(SubSeq(rb, 1, n)) = n - 1 + 1
            /\ \A i \in 1 .. n - 1 + 1 : SubSeq(rb, 1, n)[i] = rb[1 + i - 1]
        BY <4>1, Cuts
      <4> QED
        BY <4>2 DEF n
    <3>2. Len(a) - 1 + 1 = Len(a) /\ \A i \in Int : 1 + i - 1 = i
      BY <1>1
    <3> HIDE DEF t
    <3> QED
      BY <3>1, <3>2
  <2> HIDE DEF t
  <2>2. ra = t <=> \A i \in 1 .. Len(a) : ra[i] = t[i]
    BY <1>3, <2>1, SameBytes
  <2>3. \A i \in 1 .. Len(a) : /\ ra[i] = a[(Len(a) - i) + 1]
                               /\ t[i] = b[Len(b) - Len(a) + ((Len(a) - i) + 1)]
    <3>1. TAKE i \in 1 .. Len(a)
    <3>2. i \in 1 .. Len(b) /\ (Len(b) - i) + 1 = Len(b) - Len(a) + ((Len(a) - i) + 1)
      BY <1>1, <1>7
    <3> QED
      BY <1>3, <1>4, <2>1, <3>2
  <2>4. \A i \in 1 .. Len(a) : (Len(a) - i) + 1 \in 1 .. Len(a) /\ (Len(a) - ((Len(a) - i) + 1)) + 1 = i
    BY <1>1
  <2>5. ASSUME \A i \in 1 .. Len(a) : ra[i] = t[i], NEW i \in 1 .. Len(a)
        PROVE  a[i] = b[Len(b) - Len(a) + i]
    <3>1. PICK j \in 1 .. Len(a) : (Len(a) - j) + 1 = i
      BY <2>4
    <3> QED
      BY <2>3, <2>5, <3>1
  <2>6. ASSUME \A i \in 1 .. Len(a) : a[i] = b[Len(b) - Len(a) + i], NEW i \in 1 .. Len(a)
        PROVE  ra[i] = t[i]
    BY <2>3, <2>4, <2>6
  <2> QED
    BY <2>2, <2>5, <2>6 DEF t
<1> QED
  BY <1>6, <1>7

\* A byte in lower case.
Lower(b) == IF b \in 65 .. 90 THEN b + 32 ELSE b

\* t is what normalize_host makes of s: its bytes up to the last that is no dot.
IsNormal(t, s) ==
  /\ t \in Seq(Nat) /\ Len(t) \in 0 .. Len(s)
  /\ Len(t) > 0 => s[Len(t)] # Dot
  /\ \A i \in Len(t) + 1 .. Len(s) : s[i] = Dot
  /\ \A i \in 1 .. Len(t) : t[i] = Lower(s[i])

\* normalize_host does just that, for every host.
LEMMA Normalized ==
  ASSUME NEW s \in Seq(Nat)
  PROVE  IsNormal(normalize_host(s), s)
<1> DEFINE keep == {i \in 1 .. Len(s) : s[i] # Dot}
           m == Max(keep \cup {0})
           t == SubSeq(s, 1, m)
<1>1. Len(s) \in Nat /\ \A i \in 1 .. Len(s) : s[i] \in Nat
  BY LenProperties, ElementOfSeq
<1>2. m \in keep \cup {0} /\ \A y \in keep \cup {0} : y <= m
  <2> DEFINE S == keep \cup {0}
  <2>1. S \subseteq 0 .. Len(s) /\ S # {} /\ Len(s) \in Nat
    BY <1>1
  <2> HIDE DEF S
  <2>2. Max(S) \in S /\ \A y \in S : y <= Max(S)
    BY <2>1, Greatest
  <2> QED
    BY <2>2 DEF S
<1>3. m \in 0 .. Len(s) /\ (m > 0 => s[m] # Dot) /\ \A i \in m + 1 .. Len(s) : s[i] = Dot
  <2> HIDE DEF m
  <2>1. m \in 0 .. Len(s) /\ (m > 0 => s[m] # Dot)
    BY <1>1, <1>2
  <2>2. ASSUME NEW i \in m + 1 .. Len(s), s[i] # Dot PROVE FALSE
    <3>1. i \in 1 .. Len(s) /\ i > m
      BY <1>1, <2>1
    <3>2. i <= m
      BY <1>2, <2>2, <3>1
    <3> QED
      BY <2>1, <3>1, <3>2
  <2> QED
    BY <2>1, <2>2
<1>4. TrimDots(s) = t
  BY DEF TrimDots
<1> HIDE DEF m
<1>5. t \in Seq(Nat) /\ Len(t) = m /\ \A i \in 1 .. m : t[i] = s[i]
  <2>1. /\ t \in Seq(Nat) /\ Len(t) = m - 1 + 1
        /\ \A i \in 1 .. m - 1 + 1 : t[i] = s[1 + i - 1]
    BY <1>1, <1>3, Cuts
  <2>2. m - 1 + 1 = m /\ \A i \in Int : 1 + i - 1 = i
    BY <1>3
  <2> HIDE DEF t
  <2> QED
    BY <2>1, <2>2
<1> HIDE DEF t
<1> DEFINE u == [i \in 1 .. Len(t) |-> IF t[i] \in 65 .. 90 THEN t[i] + 32 ELSE t[i]]
<1>6. normalize_host(s) = u
  BY <1>4 DEF normalize_host, AsciiLower
<1>7. u \in Seq(Nat) /\ Len(u) = m /\ \A i \in 1 .. m : u[i] = Lower(t[i])
  <2>1. \A i \in 1 .. m : t[i] \in Nat
    BY <1>5, ElementOfSeq
  <2>2. m \in Nat /\ Len(t) = m
    BY <1>3, <1>5
  <2>3. \A i \in 1 .. m : Lower(t[i]) \in Nat
    BY <2>1 DEF Lower
  <2>4. u = [i \in 1 .. m |-> Lower(t[i])]
    BY <2>2 DEF Lower
  <2> HIDE DEF u
  <2>5. u \in Seq(Nat) /\ Len(u) = m
    BY <2>2, <2>3, <2>4
  <2> QED
    BY <2>4, <2>5
<1> HIDE DEF u
<1>8. \A i \in 1 .. m : u[i] = Lower(s[i])
  BY <1>5, <1>7
<1> QED
  BY <1>3, <1>6, <1>7, <1>8 DEF IsNormal

\* There is one such text.
LEMMA NormalIsOne ==
  ASSUME NEW s \in Seq(Nat), NEW t, NEW u, IsNormal(t, s), IsNormal(u, s)
  PROVE  t = u
<1>1. Len(t) \in Nat /\ Len(u) \in Nat /\ t \in Seq(Nat) /\ u \in Seq(Nat)
  BY LenProperties DEF IsNormal
<1>2. Len(t) = Len(u)
  <2>1. ASSUME NEW v, NEW w, IsNormal(v, s), IsNormal(w, s), Len(v) \in Nat, Len(w) \in Nat, Len(v) < Len(w)
        PROVE  FALSE
    <3>1. Len(w) \in Len(v) + 1 .. Len(s) /\ Len(w) > 0 /\ s[Len(w)] # Dot
      BY <2>1 DEF IsNormal
    <3> QED
      BY <2>1, <3>1 DEF IsNormal
  <2> QED
    BY <1>1, <2>1
<1>3. \A i \in 1 .. Len(t) : t[i] = u[i]
  BY <1>2 DEF IsNormal
<1> QED
  BY <1>1, <1>2, <1>3, SameBytes

\* No byte becomes a star or a dot, or is one no more, in lower case.
LEMMA LowerKeeps ==
  ASSUME NEW b \in Nat
  PROVE  (Lower(b) = Star <=> b = Star) /\ (Lower(b) = Dot <=> b = Dot)
BY DEF Lower, Star, Dot

\* host is *.p.
IsBelow(host, p) ==
  /\ Len(host) = Len(p) + 2 /\ host[1] = Star /\ host[2] = Dot
  /\ \A i \in 1 .. Len(p) : host[i + 2] = p[i]

\* *.parent in normal form is a star, a dot and parent in normal form, if there is one.
LEMMA ParentIs ==
  ASSUME NEW host \in Seq(Nat), NEW p \in Seq(Nat), IsBelow(host, p),
         NEW n, IsNormal(n, host), NEW q, IsNormal(q, p), q # <<>>
  PROVE  IsBelow(n, q)
<1>0. /\ Len(host) = Len(p) + 2 /\ host[1] = Star /\ host[2] = Dot
      /\ \A i \in 1 .. Len(p) : p[i] = host[i + 2]
  BY DEF IsBelow
<1>1. /\ Len(host) \in Nat /\ Len(p) \in Nat /\ Len(n) \in 0 .. Len(host) /\ Len(q) \in 1 .. Len(p)
      /\ q \in Seq(Nat) /\ n \in Seq(Nat)
  BY <1>0, LenProperties, EmptySeq DEF IsNormal
<1>2. Len(q) + 2 \in 1 .. Len(host) /\ host[Len(q) + 2] # Dot
  <2>1. Len(q) > 0 /\ Len(q) \in 1 .. Len(p)
    BY <1>1
  <2>2. p[Len(q)] # Dot
    BY <2>1 DEF IsNormal
  <2>3. p[Len(q)] = host[Len(q) + 2]
    BY <1>0, <2>1
  <2>4. Len(q) + 2 \in 1 .. Len(host)
    BY <1>0, <1>1
  <2> QED
    BY <2>2, <2>3, <2>4
<1>3. ~(Len(n) < Len(q) + 2)
  <2> SUFFICES ASSUME Len(n) < Len(q) + 2 PROVE FALSE
    OBVIOUS
  <2>1. Len(q) + 2 \in Len(n) + 1 .. Len(host)
    BY <1>0, <1>1
  <2> QED
    BY <1>2, <2>1 DEF IsNormal
<1>4. ~(Len(q) + 2 < Len(n))
  <2> SUFFICES ASSUME Len(q) + 2 < Len(n) PROVE FALSE
    OBVIOUS
  <2> DEFINE k == Len(n) - 2
  <2>1. k \in Len(q) + 1 .. Len(p) /\ k \in 1 .. Len(p) /\ k + 2 = Len(n) /\ Len(n) > 0
    <3>1. \A x, y, z \in Nat : x + 2 < y /\ y <= z + 2 /\ x > 0 =>
            y - 2 \in x + 1 .. z /\ y - 2 \in 1 .. z /\ (y - 2) + 2 = y /\ y > 0
      OBVIOUS
    <3>2. Len(q) \in Nat /\ Len(n) \in Nat /\ Len(p) \in Nat /\ Len(n) <= Len(p) + 2 /\ Len(q) > 0
      BY <1>0, <1>1, LenProperties
    <3> QED
      BY <3>1, <3>2
  <2>2. p[k] = Dot /\ p[k] = host[k + 2]
    BY <1>0, <2>1 DEF IsNormal
  <2> QED
    BY <2>1, <2>2 DEF IsNormal
<1>5. Len(n) = Len(q) + 2
  BY <1>1, <1>3, <1>4
<1>6. n[1] = Star /\ n[2] = Dot
  <2>1. n[1] = Lower(Star) /\ n[2] = Lower(Dot)
    <3>1. 1 \in 1 .. Len(n) /\ 2 \in 1 .. Len(n)
      BY <1>1, <1>5
    <3>2. n[1] = Lower(host[1]) /\ n[2] = Lower(host[2])
      BY <3>1 DEF IsNormal
    <3> QED
      BY <1>0, <3>2
  <2> QED
    BY <2>1 DEF Lower, Star, Dot
<1>7. ASSUME NEW i \in 1 .. Len(q) PROVE n[i + 2] = q[i]
  <2>1. i \in 1 .. Len(p) /\ i + 2 \in 1 .. Len(n)
    BY <1>1, <1>5
  <2> QED
    BY <1>0, <2>1 DEF IsNormal
<1> QED
  BY <1>5, <1>6, <1>7 DEF IsBelow

\* The names below a parent: those that end in a dot and the parent, with a byte before.
LEMMA BelowIs ==
  ASSUME NEW key \in Seq(Nat), NEW q \in Seq(Nat), q # <<>>, NEW n \in Seq(Nat), IsBelow(n, q)
  PROVE  (\E k \in 1 .. Len(key) - 1 : key[k + 1] = Dot /\ n = <<Star>> \o SubSeq(key, k + 1, Len(key)))
           <=> Len(key) > Len(q) + 1 /\ IsSuffix(q, key) /\ key[Len(key) - Len(q)] = Dot
<1> DEFINE d == Len(key) - Len(q)
           Rest(k) == SubSeq(key, k + 1, Len(key))
           Full(k) == <<Star>> \o Rest(k)
<1>0. Len(n) = Len(q) + 2 /\ n[1] = Star /\ n[2] = Dot /\ \A i \in 1 .. Len(q) : n[i + 2] = q[i]
  BY DEF IsBelow
<1>1. /\ Len(key) \in Nat /\ Len(q) \in Nat \ {0} /\ <<Star>> \in Seq(Nat) /\ Len(<<Star>>) = 1
      /\ <<Star>>[1] = Star
  BY LenProperties, EmptySeq DEF Star
<1>2. ASSUME NEW k \in 1 .. Len(key) - 1
      PROVE  /\ Full(k) \in Seq(Nat) /\ Len(Full(k)) = Len(key) - k + 1 /\ Full(k)[1] = Star
             /\ \A i \in 1 .. Len(key) - k : Full(k)[i + 1] = key[k + i]
  <2>1. /\ Rest(k) \in Seq(Nat) /\ Len(Rest(k)) = Len(key) - (k + 1) + 1
        /\ \A i \in 1 .. Len(key) - (k + 1) + 1 : Rest(k)[i] = key[(k + 1) + i - 1]
    <3>1. k + 1 \in Nat \ {0} /\ Len(key) <= Len(key) /\ k + 1 <= Len(key) + 1
      BY <1>1
    <3> QED
      BY <1>1, <3>1, Cuts
  <2>2. k \in Nat /\ Len(key) - (k + 1) + 1 = Len(key) - k /\ \A i \in Int : (k + 1) + i - 1 = k + i
    BY <1>1
  <2> DEFINE r == Rest(k)
  <2> HIDE DEF Rest
  <2>r. r \in Seq(Nat)
    BY <2>1
  <2> HIDE DEF r
  <2>3. /\ Full(k) \in Seq(Nat) /\ Len(Full(k)) = 1 + Len(Rest(k)) /\ Full(k)[1] = Star
        /\ \A i \in 1 .. Len(Rest(k)) : Full(k)[1 + i] = Rest(k)[i]
    <3> DEFINE h == <<Star>>
    <3>1. h \in Seq(Nat) /\ Len(h) = 1 /\ h[1] = Star
      BY <1>1
    <3> HIDE DEF h
    <3>2. /\ h \o r \in Seq(Nat) /\ Len(h \o r) = Len(h) + Len(r)
          /\ \A i \in 1 .. Len(h) : (h \o r)[i] = h[i]
          /\ \A i \in 1 .. Len(r) : (h \o r)[Len(h) + i] = r[i]
      BY <2>r, <3>1, Joins
    <3>3. /\ h \o r \in Seq(Nat) /\ Len(h \o r) = 1 + Len(r) /\ (h \o r)[1] = Star
          /\ \A i \in 1 .. Len(r) : (h \o r)[1 + i] = r[i]
      <4> DEFINE hr == h \o r
      <4>1. hr \in Seq(Nat) /\ Len(hr) = Len(h) + Len(r) /\ \A i \in 1 .. Len(h) : hr[i] = h[i]
        BY <3>2
      <4>2. \A i \in 1 .. Len(r) : hr[Len(h) + i] = r[i]
        BY <3>2
      <4> HIDE DEF hr
      <4>3. 1 \in 1 .. Len(h)
        BY <3>1
      <4>4. hr[1] = Star
        BY <3>1, <4>1, <4>3
      <4> QED
        BY <3>1, <4>1, <4>2, <4>4 DEF hr
    <3> QED
      BY <3>3 DEF h, r
  <2> HIDE DEF Full
  <2>4. Len(Rest(k)) = Len(key) - k
    BY <2>1, <2>2
  <2>5. ASSUME NEW i \in 1 .. Len(key) - k PROVE Full(k)[i + 1] = key[k + i]
    <3>1. Full(k)[1 + i] = Rest(k)[i] /\ 1 + i = i + 1
      BY <2>3, <2>4
    <3>2. Rest(k)[i] = key[k + i]
      <4>1. i \in 1 .. Len(key) - (k + 1) + 1 /\ (k + 1) + i - 1 = k + i
        BY <2>2
      <4> QED
        BY <2>1, <4>1
    <3> QED
      BY <3>1, <3>2
  <2>6. Full(k)[1] = Star
    BY <2>3
  <2> QED
    BY <1>1, <2>2, <2>3, <2>4, <2>5, <2>6
<1> HIDE DEF Full, Rest
<1>3. ASSUME NEW k \in 1 .. Len(key) - 1, key[k + 1] = Dot, n = Full(k)
      PROVE  Len(key) > Len(q) + 1 /\ IsSuffix(q, key) /\ key[d] = Dot
  <2>1. Len(key) - k + 1 = Len(q) + 2 /\ d = k + 1 /\ Len(key) > Len(q) + 1
    <3>1. Len(n) = Len(key) - k + 1
      BY <1>2, <1>3
    <3>2. Len(q) + 2 = Len(key) - k + 1
      BY <1>0, <3>1
    <3>3. \A x, z \in Nat : \A w \in 1 .. x - 1 : z + 2 = x - w + 1 => x - w + 1 = z + 2 /\ x - z = w + 1 /\ x > z + 1
      OBVIOUS
    <3>4. Len(key) \in Nat /\ Len(q) \in Nat /\ k \in 1 .. Len(key) - 1
      BY <1>1
    <3> QED
      BY <3>2, <3>3, <3>4
  <2>2. ASSUME NEW i \in 1 .. Len(q) PROVE q[i] = key[d + i]
    <3>1. i + 1 \in 1 .. Len(key) - k /\ (i + 1) + 1 = i + 2 /\ k + (i + 1) = d + i
      <4>1. Len(key) - k = Len(q) + 1 /\ k \in Int /\ d = k + 1
        BY <1>1, <2>1
      <4> HIDE DEF d
      <4> QED
        BY <1>1, <4>1
    <3> QED
      BY <1>0, <1>2, <1>3, <3>1
  <2>3. Len(q) <= Len(key)
    BY <1>1, <2>1
  <2> QED
    BY <1>3, <2>1, <2>2, <2>3, SuffixIs
<1>4. ASSUME Len(key) > Len(q) + 1, IsSuffix(q, key), key[d] = Dot
      PROVE  \E k \in 1 .. Len(key) - 1 : key[k + 1] = Dot /\ n = Full(k)
  <2>1. d - 1 \in 1 .. Len(key) - 1 /\ (d - 1) + 1 = d /\ Len(key) - (d - 1) + 1 = Len(q) + 2
    BY <1>1, <1>4
  <2> DEFINE f == Full(d - 1)
  <2>2. /\ f \in Seq(Nat) /\ Len(f) = Len(q) + 2 /\ f[1] = Star
        /\ \A i \in 1 .. Len(key) - (d - 1) : f[i + 1] = key[(d - 1) + i]
    BY <1>2, <2>1
  <2> HIDE DEF f
  <2>3. \A i \in 1 .. Len(q) : q[i] = key[d + i]
    BY <1>4, SuffixIs
  <2>4. ASSUME NEW i \in 1 .. Len(n) PROVE n[i] = f[i]
    <3>1. CASE i = 1
      BY <1>0, <2>2, <3>1
    <3>2. CASE i = 2
      <4>1. 1 \in 1 .. Len(key) - (d - 1) /\ (d - 1) + 1 = d
        BY <1>1, <2>1
      <4>2. f[1 + 1] = key[d]
        BY <2>2, <4>1
      <4>3. f[2] = Dot
        BY <1>4, <4>2
      <4> QED
        BY <1>0, <3>2, <4>3
    <3>3. CASE i \in 3 .. Len(q) + 2
      <4>1. /\ i - 2 \in 1 .. Len(q) /\ (i - 2) + 2 = i /\ i - 1 \in 1 .. Len(key) - (d - 1)
            /\ (i - 1) + 1 = i /\ (d - 1) + (i - 1) = d + (i - 2)
        BY <1>1, <2>1, <3>3
      <4>2. n[i] = q[i - 2]
        BY <1>0, <4>1
      <4>3. f[i] = key[d + (i - 2)]
        BY <2>2, <4>1
      <4> QED
        BY <2>3, <4>1, <4>2, <4>3
    <3> QED
      BY <1>0, <1>1, <3>1, <3>2, <3>3
  <2>5. n = f
    BY <1>0, <2>2, <2>4, SameBytes
  <2> QED
    BY <1>4, <2>1, <2>5 DEF f
<1> QED
  BY <1>3, <1>4 DEF Full, Rest

\* The literals are texts, and none has a star in it.
LEMMA LiteralsAreTexts ==
  ASSUME NEW i \in DOMAIN IpText
  PROVE  i \in Nat /\ IpText[i][1] \in Seq(Nat) /\ \A k \in 1 .. Len(IpText[i][1]) : IpText[i][1][k] # Star
<1> DEFINE t == IpText[i]
<1>1. i \in 1 .. Len(IpText) /\ Len(IpText) \in Nat
  BY AllowAssumption, LenProperties
<1>2. t \in Seq(Nat \ {Star}) \X Seq(Nat)
  BY <1>1, AllowAssumption, ElementOfSeq
<1>3. t[1] \in Seq(Nat \ {Star})
  BY <1>2
<1> HIDE DEF t
<1>4. \A k \in 1 .. Len(t[1]) : t[1][k] \in Nat \ {Star}
  BY <1>3, ElementOfSeq
<1>5. t[1] \in Seq(Nat)
  <2>1. Nat \ {Star} \subseteq Nat
    OBVIOUS
  <2> QED
    BY <1>3, <2>1, SeqMonotonic
<1> QED
  BY <1>1, <1>4, <1>5 DEF t

\* What a target is called is a text.
LEMMA NamesAreTexts ==
  ASSUME NEW addr \in Addresses
  PROVE  host_key(addr) \in Seq(Nat)
<1>1. CASE addr.kind = KIND_DOMAIN
  <2>1. addr.host \in Seq(Nat)
    BY DEF Addresses, Encodable
  <2> QED
    BY <1>1, <2>1, Normalized DEF host_key, IsNormal
<1>2. CASE addr.kind # KIND_DOMAIN
  <2> DEFINE texts == {i \in DOMAIN IpText : IpText[i][2] = addr.host}
             first == CHOOSE i \in texts : \A j \in texts : i <= j
  <2>1. host_key(addr) = IF texts = {} THEN <<>> ELSE IpText[first][1]
    BY <1>2 DEF host_key, host_string
  <2>2. CASE texts = {}
    BY <2>1, <2>2, EmptySeq
  <2>3. CASE texts # {}
    <3>1. texts \subseteq Nat /\ \A i \in texts : IpText[i][1] \in Seq(Nat)
      BY LiteralsAreTexts
    <3> HIDE DEF texts
    <3>2. first \in texts
      BY <2>3, <3>1, Smallest
    <3> QED
      BY <2>1, <2>3, <3>1, <3>2
  <2> QED
    BY <2>2, <2>3
<1> QED
  BY <1>1, <1>2

\* The pattern *. is no part of a literal.
LEMMA StarIsNoLiteral ==
  ASSUME NEW host \in Seq(Nat), NEW k \in 1 .. Len(host), host[k] = Star
  PROVE  IpOf(host) = <<>>
<1>1. ASSUME NEW i \in DOMAIN IpText, IpText[i][1] = host PROVE FALSE
  BY <1>1, LiteralsAreTexts
<1> QED
  BY <1>1 DEF IpOf

\* Which of the four kinds of rule a host makes.
Starred(host) == Len(host) >= 2 /\ host[1] = Star /\ host[2] = Dot
Parent(host) == SubSeq(host, 3, Len(host))
RuleOf(host) ==
  IF host = <<Star>> THEN [type |-> "Any", host |-> <<>>]
  ELSE IF Starred(host) THEN [type |-> "Suffix", host |-> normalize_host(Parent(host))]
  ELSE IF IpOf(host) # <<>> THEN [type |-> "Ip", host |-> IpOf(host)]
  ELSE [type |-> "Exact", host |-> normalize_host(host)]

\* What begins with *. is what IsPrefix finds.
LEMMA StarredIs ==
  ASSUME NEW host \in Seq(Nat)
  PROVE  IsPrefix(<<Star, Dot>>, host) <=> Starred(host)
<1> DEFINE sd == <<Star, Dot>>
           t == SubSeq(host, 1, 2)
<1>1. sd \in Seq(Nat) /\ Len(sd) = 2 /\ sd[1] = Star /\ sd[2] = Dot /\ Len(host) \in Nat
  BY LenProperties DEF Star, Dot
<1> HIDE DEF sd
<1>2. SubSeq(sd, 1, Len(sd)) = sd
  BY <1>1, SubSeqFull
<1>3. IsPrefix(sd, host) <=> 2 <= Len(host) /\ sd = t
  BY <1>1, <1>2 DEF IsPrefix
<1>4. ASSUME 2 <= Len(host) PROVE sd = t <=> host[1] = Star /\ host[2] = Dot
  <2>1. /\ t \in Seq(Nat) /\ Len(t) = 2 - 1 + 1
        /\ \A i \in 1 .. 2 - 1 + 1 : t[i] = host[1 + i - 1]
    BY <1>1, <1>4, Cuts
  <2>2. Len(t) = 2 /\ t[1] = host[1] /\ t[2] = host[2]
    BY <2>1
  <2> HIDE DEF t
  <2>3. (\A i \in 1 .. Len(sd) : sd[i] = t[i]) <=> host[1] = Star /\ host[2] = Dot
    BY <1>1, <2>2
  <2> QED
    BY <1>1, <2>1, <2>2, <2>3, SameBytes
<1> QED
  BY <1>1, <1>3, <1>4 DEF Starred, sd

\* A rule that is none of the bad ones covers what the documentation says of its host.
LEMMA RuleCovers ==
  ASSUME NEW host \in Seq(Nat), host # <<>>, NEW addr \in Addresses, NEW ports,
         Starred(host) => normalize_host(Parent(host)) # <<>>,
         ~Starred(host) /\ host # <<Star>> /\ IpOf(host) = <<>> => Star \notin Range(host)
  PROVE  LET rule == Rule(RuleOf(host).type, RuleOf(host).host, ports) IN
         matches(rule, addr) <=> (ports = {} \/ addr.port \in ports) /\ Covers(host, addr)
<1> DEFINE key == host_key(addr)
           n == normalize_host(host)
           Below == \E k \in 1 .. Len(key) - 1 : key[k + 1] = Dot /\ n = <<Star>> \o SubSeq(key, k + 1, Len(key))
           Names(type, h) ==
             CASE type = "Any"    -> TRUE
               [] type = "Ip"     -> target_ip(addr) = h
               [] type = "Exact"  -> key = h
               [] type = "Suffix" -> Len(key) > Len(h) + 1 /\ IsSuffix(h, key) /\ key[Len(key) - Len(h)] = Dot
<1>1. key \in Seq(Nat) /\ IsNormal(n, host) /\ n \in Seq(Nat) /\ Len(host) \in Nat /\ Len(host) >= 1
  BY NamesAreTexts, Normalized, LenProperties, EmptySeq DEF IsNormal
<1>2. Covers(host, addr) <=> \/ host = <<Star>> \/ Below
                             \/ IpOf(host) = <<>> /\ n = key
                             \/ IpOf(host) # <<>> /\ IpOf(host) = target_ip(addr)
  BY DEF Covers
<1>3. \A type, h : matches(Rule(type, h, ports), addr) <=> (ports = {} \/ addr.port \in ports) /\ Names(type, h)
  BY DEF matches, Rule
<1>a. (LET rule == Rule(RuleOf(host).type, RuleOf(host).host, ports) IN matches(rule, addr))
        <=> (ports = {} \/ addr.port \in ports) /\ Names(RuleOf(host).type, RuleOf(host).host)
  <2> HIDE DEF Names
  <2> QED
    BY <1>3
<1> SUFFICES Names(RuleOf(host).type, RuleOf(host).host) <=> Covers(host, addr)
  BY <1>a
<1>4. CASE host = <<Star>>
  <2>1. RuleOf(host).type = "Any"
    BY <1>4 DEF RuleOf
  <2> QED
    BY <1>2, <1>4, <2>1
<1>5. CASE host # <<Star>> /\ Starred(host)
  <2> DEFINE p == Parent(host)
             q == normalize_host(p)
  <2>1. RuleOf(host).type = "Suffix" /\ RuleOf(host).host = q
    BY <1>5 DEF RuleOf
  <2>2. Len(host) >= 2 /\ host[1] = Star /\ host[2] = Dot
    BY <1>5 DEF Starred
  <2>3. p \in Seq(Nat) /\ Len(host) = Len(p) + 2 /\ \A i \in 1 .. Len(p) : p[i] = host[i + 2]
    <3>1. /\ p \in Seq(Nat) /\ Len(p) = Len(host) - 3 + 1
          /\ \A i \in 1 .. Len(host) - 3 + 1 : p[i] = host[3 + i - 1]
      <4>1. 3 \in Nat \ {0} /\ 3 <= Len(host) + 1 /\ Len(host) \in Nat /\ Len(host) <= Len(host)
        BY <1>1, <2>2
      <4> DEFINE m == Len(host)
      <4>2. m \in Nat /\ m <= Len(host) /\ 3 <= m + 1
        BY <4>1
      <4>3. p = SubSeq(host, 3, m)
        BY DEF Parent
      <4> HIDE DEF m, p
      <4>4. /\ p \in Seq(Nat) /\ Len(p) = m - 3 + 1
            /\ \A i \in 1 .. m - 3 + 1 : p[i] = host[3 + i - 1]
        BY <1>1, <4>1, <4>2, <4>3, Cuts
      <4> QED
        BY <4>4 DEF m
    <3>2. Len(host) = (Len(host) - 3 + 1) + 2 /\ \A i \in Int : 3 + i - 1 = i + 2
      BY <1>1
    <3> HIDE DEF p
    <3> QED
      BY <3>1, <3>2
  <2> HIDE DEF p
  <2>4. IsNormal(q, p) /\ q # <<>> /\ q \in Seq(Nat)
    BY <1>5, <2>3, Normalized DEF p, IsNormal
  <2>b. n \in Seq(Nat) /\ key \in Seq(Nat) /\ IsNormal(n, host)
    BY <1>1
  <2> HIDE DEF q, n, key
  <2>5. /\ Len(n) = Len(q) + 2 /\ n[1] = Star /\ n[2] = Dot
        /\ \A i \in 1 .. Len(q) : n[i + 2] = q[i]
    <3>1. IsBelow(host, p)
      BY <2>2, <2>3 DEF IsBelow
    <3>2. IsBelow(n, q)
      BY <2>3, <2>4, <2>b, <3>1, ParentIs
    <3> QED
      BY <3>2 DEF IsBelow
  <2>6. Below <=> Len(key) > Len(q) + 1 /\ IsSuffix(q, key) /\ key[Len(key) - Len(q)] = Dot
    <3>1. IsBelow(n, q)
      BY <2>5 DEF IsBelow
    <3> QED
      BY <2>b, <2>4, <3>1, BelowIs DEF Below
  <2>7. IpOf(host) = <<>>
    <3>1. 1 \in 1 .. Len(host)
      BY <1>1
    <3> QED
      BY <2>2, <3>1, StarIsNoLiteral
  <2>8. n = key => Len(key) > Len(q) + 1 /\ IsSuffix(q, key) /\ key[Len(key) - Len(q)] = Dot
    <3> SUFFICES ASSUME n = key
                 PROVE  Len(key) > Len(q) + 1 /\ IsSuffix(q, key) /\ key[Len(key) - Len(q)] = Dot
      OBVIOUS
    <3>1. Len(q) \in Nat /\ Len(key) = Len(q) + 2
      BY <2>4, <2>5, LenProperties
    <3>2. Len(key) > Len(q) + 1 /\ Len(q) <= Len(key) /\ Len(key) - Len(q) = 2
      BY <3>1
    <3>3. \A i \in 1 .. Len(q) : q[i] = key[Len(key) - Len(q) + i]
      <4>1. \A i \in 1 .. Len(q) : i + 2 = 2 + i
        OBVIOUS
      <4> QED
        BY <2>5, <3>2, <4>1
    <3>4. IsSuffix(q, key)
      BY <1>1, <2>4, <3>2, <3>3, SuffixIs
    <3> QED
      BY <2>5, <3>2, <3>4
  <2>9. Names("Suffix", q) <=> Below
    BY <2>6
  <2> HIDE DEF Below, Names
  <2> QED
    BY <1>2, <1>5, <2>1, <2>6, <2>7, <2>8, <2>9
<1>6. CASE host # <<Star>> /\ ~Starred(host)
  <2>1. ~Below
    <3> SUFFICES ASSUME NEW k \in 1 .. Len(key) - 1, key[k + 1] = Dot,
                        n = <<Star>> \o SubSeq(key, k + 1, Len(key))
                 PROVE  FALSE
      OBVIOUS
    <3> DEFINE r == SubSeq(key, k + 1, Len(key))
               h == <<Star>>
    <3>c. IsNormal(n, host) /\ Len(host) \in Nat
      BY <1>1
    <3> HIDE DEF key
    <3>1. r \in Seq(Nat) /\ Len(r) >= 1 /\ r[1] = Dot
      <4>1. Len(key) \in Nat /\ k \in Nat /\ k + 1 <= Len(key)
        BY <1>1, LenProperties
      <4>2. /\ r \in Seq(Nat) /\ Len(r) = Len(key) - (k + 1) + 1
            /\ \A i \in 1 .. Len(key) - (k + 1) + 1 : r[i] = key[(k + 1) + i - 1]
        BY <1>1, <4>1, Cuts
      <4> HIDE DEF r
      <4>3. 1 \in 1 .. Len(key) - (k + 1) + 1 /\ (k + 1) + 1 - 1 = k + 1 /\ Len(key) - (k + 1) + 1 >= 1
        BY <4>1
      <4>4. r[1] = key[(k + 1) + 1 - 1]
        BY <4>2, <4>3
      <4>5. r[1] = key[k + 1]
        BY <4>3, <4>4
      <4> QED
        BY <4>2, <4>3, <4>5
    <3>2. h \in Seq(Nat) /\ Len(h) = 1 /\ h[1] = Star
      BY DEF Star
    <3>3. n = h \o r
      OBVIOUS
    <3> HIDE DEF r, h, n
    <3>4. /\ Len(h \o r) = Len(h) + Len(r)
          /\ \A i \in 1 .. Len(h) : (h \o r)[i] = h[i]
          /\ \A i \in 1 .. Len(r) : (h \o r)[Len(h) + i] = r[i]
      BY <3>1, <3>2, Joins
    <3>5. Len(r) \in Nat /\ 1 \in 1 .. Len(h) /\ 1 \in 1 .. Len(r) /\ Len(h) + 1 = 2
      BY <3>1, <3>2, LenProperties
    <3>6. Len(n) >= 2 /\ n[1] = Star /\ n[2] = Dot
      BY <3>1, <3>2, <3>3, <3>4, <3>5
    <3>7. Len(host) >= 2 /\ Lower(host[1]) = Star /\ Lower(host[2]) = Dot
      <4>1. Len(n) \in Nat /\ Len(host) \in Nat /\ Len(n) <= Len(host) /\ \A i \in 1 .. Len(n) : n[i] = Lower(host[i])
        <5>1. Len(n) \in 0 .. Len(host)
          BY <3>c, Zenon DEF IsNormal
        <5>2. \A i \in 1 .. Len(n) : n[i] = Lower(host[i])
          BY <3>c, Zenon DEF IsNormal
        <5> QED
          BY <3>c, <5>1, <5>2
      <4>2. 1 \in 1 .. Len(n) /\ 2 \in 1 .. Len(n) /\ Len(host) >= 2
        BY <3>6, <4>1
      <4> QED
        BY <3>6, <4>1, <4>2
    <3>8. host[1] \in Nat /\ host[2] \in Nat
      <4>1. 1 \in 1 .. Len(host) /\ 2 \in 1 .. Len(host)
        BY <3>7, <3>c
      <4> QED
        BY <4>1, ElementOfSeq
    <3> QED
      BY <1>6, <3>7, <3>8, LowerKeeps DEF Starred
  <2>2. CASE IpOf(host) # <<>>
    <3>1. RuleOf(host).type = "Ip" /\ RuleOf(host).host = IpOf(host)
      BY <1>6, <2>2 DEF RuleOf
    <3> QED
      BY <1>2, <1>6, <2>1, <2>2, <3>1
  <2>3. CASE IpOf(host) = <<>>
    <3>1. RuleOf(host).type = "Exact" /\ RuleOf(host).host = n
      BY <1>6, <2>3 DEF RuleOf
    <3> QED
      BY <1>2, <1>6, <2>1, <2>3, <3>1
  <2> QED
    BY <2>2, <2>3
<1> QED
  BY <1>4, <1>5, <1>6

\* The bytes behind the first k, up to the n-th.
LEMMA Behind ==
  ASSUME NEW s \in Seq(Nat), NEW k \in Nat, NEW n \in Nat, k <= n, n <= Len(s)
  PROVE  LET t == SubSeq(s, k + 1, n) IN
         t \in Seq(Nat) /\ Len(t) = n - k /\ \A i \in 1 .. n - k : t[i] = s[k + i]
<1> DEFINE t == SubSeq(s, k + 1, n)
<1>1. /\ t \in Seq(Nat) /\ Len(t) = n - (k + 1) + 1
      /\ \A i \in 1 .. n - (k + 1) + 1 : t[i] = s[(k + 1) + i - 1]
  <2>1. k + 1 \in Nat \ {0} /\ k + 1 <= n + 1
    OBVIOUS
  <2> QED
    BY <2>1, Cuts
<1>2. n - (k + 1) + 1 = n - k /\ \A i \in Int : (k + 1) + i - 1 = k + i
  OBVIOUS
<1> HIDE DEF t
<1>3. t \in Seq(Nat) /\ Len(t) = n - k /\ \A i \in 1 .. n - k : t[i] = s[k + i]
  BY <1>1, <1>2
<1> QED
  BY <1>3 DEF t

\* s is a and then b, byte by byte.
LEMMA JoinedIs ==
  ASSUME NEW s \in Seq(Nat), NEW a \in Seq(Nat), NEW b \in Seq(Nat)
  PROVE  s = a \o b <=> /\ Len(s) = Len(a) + Len(b)
                        /\ \A i \in 1 .. Len(a) : s[i] = a[i]
                        /\ \A i \in 1 .. Len(b) : s[Len(a) + i] = b[i]
<1> DEFINE j == a \o b
<1>1. /\ j \in Seq(Nat) /\ Len(j) = Len(a) + Len(b) /\ Len(a) \in Nat /\ Len(b) \in Nat
      /\ \A i \in 1 .. Len(a) : j[i] = a[i]
      /\ \A i \in 1 .. Len(b) : j[Len(a) + i] = b[i]
  BY Joins
<1> HIDE DEF j
<1>2. ASSUME Len(s) = Len(a) + Len(b), \A i \in 1 .. Len(a) : s[i] = a[i],
             \A i \in 1 .. Len(b) : s[Len(a) + i] = b[i]
      PROVE  s = j
  <2>1. ASSUME NEW i \in 1 .. Len(s) PROVE s[i] = j[i]
    <3>1. CASE i <= Len(a)
      BY <1>1, <1>2, <3>1
    <3>2. CASE i > Len(a)
      <4>1. i - Len(a) \in 1 .. Len(b) /\ Len(a) + (i - Len(a)) = i
        BY <1>1, <1>2, <3>2
      <4> QED
        BY <1>1, <1>2, <4>1
    <3> QED
      BY <1>1, <3>1, <3>2
  <2> QED
    BY <1>1, <1>2, <2>1, SameBytes
<1> QED
  BY <1>1, <1>2 DEF j

\* The bytes of s are a host in brackets, and then t.
Bracketed(s, host, t) ==
  /\ Len(s) = Len(host) + 2 + Len(t)
  /\ s[1] = Open_ /\ s[Len(host) + 2] = Close_
  /\ \A i \in 1 .. Len(host) : s[i + 1] = host[i]
  /\ \A i \in 1 .. Len(t) : s[Len(host) + 2 + i] = t[i]

\* The pattern written as a host in brackets with a tail behind, said byte for byte.
LEMMA BracketedIs ==
  ASSUME NEW s \in Seq(Nat), NEW host \in Seq(Nat), NEW t \in Seq(Nat)
  PROVE  s = <<Open_>> \o host \o <<Close_>> \o t <=> Bracketed(s, host, t)
<1> DEFINE o == <<Open_>>
           c == <<Close_>>
           x == o \o host
           y == x \o c
<1>1. /\ o \in Seq(Nat) /\ Len(o) = 1 /\ o[1] = Open_
      /\ c \in Seq(Nat) /\ Len(c) = 1 /\ c[1] = Close_
      /\ Len(s) \in Nat /\ Len(host) \in Nat /\ Len(t) \in Nat
  BY LenProperties DEF Open_, Close_
<1> HIDE DEF o, c
<1>2. /\ x \in Seq(Nat) /\ Len(x) = 1 + Len(host) /\ x[1] = Open_
      /\ \A i \in 1 .. Len(host) : x[i + 1] = host[i]
  <2>1. /\ x \in Seq(Nat) /\ Len(x) = 1 + Len(host)
        /\ \A i \in 1 .. 1 : x[i] = o[i]
        /\ \A i \in 1 .. Len(host) : x[1 + i] = host[i]
    <3>1. /\ x \in Seq(Nat) /\ Len(x) = Len(o) + Len(host)
          /\ \A i \in 1 .. Len(o) : x[i] = o[i]
          /\ \A i \in 1 .. Len(host) : x[Len(o) + i] = host[i]
      BY <1>1, Joins
    <3> HIDE DEF x
    <3> QED
      BY <1>1, <3>1
  <2>2. \A i \in 1 .. Len(host) : 1 + i = i + 1
    BY <1>1
  <2>3. 1 \in 1 .. 1
    OBVIOUS
  <2> HIDE DEF x
  <2> QED
    BY <1>1, <2>1, <2>2, <2>3
<1> HIDE DEF x
<1>3. /\ y \in Seq(Nat) /\ Len(y) = Len(host) + 2
      /\ \A i \in 1 .. Len(x) : y[i] = x[i]
      /\ y[Len(host) + 2] = Close_
  <2>1. /\ y \in Seq(Nat) /\ Len(y) = Len(x) + 1
        /\ \A i \in 1 .. Len(x) : y[i] = x[i]
        /\ \A i \in 1 .. 1 : y[Len(x) + i] = c[i]
    <3>1. /\ y \in Seq(Nat) /\ Len(y) = Len(x) + Len(c)
          /\ \A i \in 1 .. Len(x) : y[i] = x[i]
          /\ \A i \in 1 .. Len(c) : y[Len(x) + i] = c[i]
      BY <1>1, <1>2, Joins
    <3> HIDE DEF y
    <3> QED
      BY <1>1, <3>1
  <2>2. 1 \in 1 .. 1 /\ Len(x) + 1 = Len(host) + 2
    BY <1>1, <1>2
  <2> HIDE DEF y
  <2> QED
    BY <1>1, <2>1, <2>2
<1> HIDE DEF y
<1>4. y[1] = Open_ /\ \A i \in 1 .. Len(host) : y[i + 1] = host[i]
  <2>1. 1 \in 1 .. Len(x) /\ \A i \in 1 .. Len(host) : i + 1 \in 1 .. Len(x)
    BY <1>1, <1>2
  <2> QED
    BY <1>2, <1>3, <2>1
<1>5. s = y \o t <=> /\ Len(s) = Len(host) + 2 + Len(t)
                     /\ \A i \in 1 .. Len(host) + 2 : s[i] = y[i]
                     /\ \A i \in 1 .. Len(t) : s[Len(host) + 2 + i] = t[i]
  <2>1. s = y \o t <=> /\ Len(s) = Len(y) + Len(t)
                       /\ \A i \in 1 .. Len(y) : s[i] = y[i]
                       /\ \A i \in 1 .. Len(t) : s[Len(y) + i] = t[i]
    BY <1>3, JoinedIs
  <2>2. Len(y) = Len(host) + 2
    BY <1>3
  <2> QED
    BY <2>1, <2>2
<1>6. (\A i \in 1 .. Len(host) + 2 : s[i] = y[i]) <=>
        /\ s[1] = Open_ /\ s[Len(host) + 2] = Close_
        /\ \A i \in 1 .. Len(host) : s[i + 1] = host[i]
  <2>1. ASSUME \A i \in 1 .. Len(host) + 2 : s[i] = y[i]
        PROVE  /\ s[1] = Open_ /\ s[Len(host) + 2] = Close_
               /\ \A i \in 1 .. Len(host) : s[i + 1] = host[i]
    <3>1. 1 \in 1 .. Len(host) + 2 /\ Len(host) + 2 \in 1 .. Len(host) + 2
          /\ \A i \in 1 .. Len(host) : i + 1 \in 1 .. Len(host) + 2
      BY <1>1
    <3> QED
      BY <1>3, <1>4, <2>1, <3>1
  <2>2. ASSUME s[1] = Open_, s[Len(host) + 2] = Close_,
               \A i \in 1 .. Len(host) : s[i + 1] = host[i],
               NEW i \in 1 .. Len(host) + 2
        PROVE  s[i] = y[i]
    <3>1. CASE i = 1
      BY <1>4, <2>2, <3>1
    <3>2. CASE i = Len(host) + 2
      BY <1>3, <2>2, <3>2
    <3>3. CASE i \in 2 .. Len(host) + 1
      <4>1. i - 1 \in 1 .. Len(host) /\ (i - 1) + 1 = i
        BY <1>1, <3>3
      <4> QED
        BY <1>4, <2>2, <4>1
    <3> QED
      BY <1>1, <3>1, <3>2, <3>3
  <2> QED
    BY <2>1, <2>2
<1>7. s = y \o t <=> Bracketed(s, host, t)
  BY <1>5, <1>6 DEF Bracketed
<1> QED
  BY <1>7 DEF o, c, x, y

\* What is behind a host: nothing, or a colon and the port, the last byte.
HostTail(pattern, ports) == IF ports = {} THEN <<>> ELSE <<Colon, Last(pattern)>>

\* The tail of a pattern: its type, its length and its bytes.
LEMMA HostTailIs ==
  ASSUME NEW pattern \in Seq(Nat), pattern # <<>>, NEW ports
  PROVE  LET b == HostTail(pattern, ports) IN
         /\ b \in Seq(Nat)
         /\ ports = {} => Len(b) = 0
         /\ ports # {} => Len(b) = 2 /\ b[1] = Colon /\ b[2] = pattern[Len(pattern)]
<1>1. Last(pattern) = pattern[Len(pattern)] /\ Last(pattern) \in Nat
  <2>1. Len(pattern) \in 1 .. Len(pattern)
    BY LenProperties, EmptySeq
  <2> QED
    BY <2>1, ElementOfSeq DEF Last
<1>2. CASE ports = {}
  BY <1>2, EmptySeq DEF HostTail
<1>3. CASE ports # {}
  <2> DEFINE b == <<Colon, Last(pattern)>>
  <2>1. b \in Seq(Nat) /\ Len(b) = 2 /\ b[1] = Colon /\ b[2] = Last(pattern)
    BY <1>1 DEF Colon
  <2> QED
    BY <1>1, <1>3, <2>1 DEF HostTail
<1> QED
  BY <1>2, <1>3

\* A colon and a port are two bytes.
LEMMA TwoWide ==
  ASSUME NEW x \in Int, NEW y \in Int, NEW z, NEW w, z = x - y, w = z - 1, w = 1
  PROVE  z = 2 /\ x - y = 2 /\ y + 2 = x
OBVIOUS

\* A pattern in brackets is split at the first bracket that closes.
LEMMA BracketsSplit ==
  ASSUME NEW pattern \in Seq(Nat), pattern # <<>>, Head(pattern) = Open_,
         NEW split, split = split_host_port(pattern), split # Bad
  PROVE  /\ split = Split(split.host, split.ports)
         /\ \E j \in DOMAIN pattern : split.host = SubSeq(pattern, 2, j)
         /\ split.host \in Seq(Nat) /\ split.ports \in {{}, {Last(pattern)}}
         /\ split.ports \subseteq Port \cup {0}
         /\ Close_ \notin Range(split.host)
         /\ Bracketed(pattern, split.host, HostTail(pattern, split.ports))
<1> DEFINE L == Len(pattern)
           closes == {i \in 1 .. L : pattern[i] = Close_}
           end == Min(closes)
           tail == SubSeq(pattern, end + 1, L)
           h == SubSeq(pattern, 2, end - 1)
<1>1. L \in Nat /\ L >= 1 /\ pattern[1] = Open_ /\ Last(pattern) = pattern[L]
  BY LenProperties, EmptySeq DEF Last
<1>2. split = IF closes = {} THEN Bad
              ELSE IF tail = <<>> THEN Split(h, {})
              ELSE IF tail[1] = Colon THEN WithPort(h, Tail(tail))
              ELSE Bad
  BY DEF split_host_port
<1>3. closes # {}
  BY <1>2
<1>4. end \in closes /\ \A y \in closes : end <= y
  <2>1. closes \subseteq Nat
    BY <1>1
  <2> HIDE DEF closes
  <2> QED
    BY <1>3, <2>1, Smallest
<1>5. end \in 2 .. L /\ pattern[end] = Close_ /\ \A i \in 1 .. end - 1 : pattern[i] # Close_
  <2> HIDE DEF end
  <2>1. end \in 1 .. L /\ pattern[end] = Close_
    BY <1>4
  <2>2. end # 1
    BY <1>1, <2>1 DEF Open_, Close_
  <2>3. ASSUME NEW i \in 1 .. end - 1, pattern[i] = Close_ PROVE FALSE
    <3>1. i \in closes
      BY <1>1, <2>1, <2>3
    <3> QED
      BY <1>1, <1>4, <2>1, <3>1
  <2> QED
    BY <1>1, <2>1, <2>2, <2>3
<1> HIDE DEF end, L
<1>6. h \in Seq(Nat) /\ Len(h) = end - 2 /\ \A i \in 1 .. end - 2 : h[i] = pattern[1 + i]
  <2>1. 1 \in Nat /\ end - 1 \in Nat /\ 1 <= end - 1 /\ end - 1 <= Len(pattern) /\ 1 + 1 = 2
        /\ (end - 1) - 1 = end - 2
    BY <1>1, <1>5 DEF L
  <2> DEFINE e == end - 1
             t == SubSeq(pattern, 1 + 1, e)
  <2>2. e \in Nat /\ 1 <= e /\ e <= Len(pattern)
    BY <2>1
  <2> HIDE DEF e
  <2>3. t \in Seq(Nat) /\ Len(t) = e - 1 /\ \A i \in 1 .. e - 1 : t[i] = pattern[1 + i]
    BY <2>2, Behind
  <2>4. t = h
    BY DEF e
  <2>5. e - 1 = end - 2
    BY <2>1 DEF e
  <2> HIDE DEF t, h
  <2> QED
    BY <2>3, <2>4, <2>5
<1>7. tail \in Seq(Nat) /\ Len(tail) = L - end /\ \A i \in 1 .. L - end : tail[i] = pattern[end + i]
  <2>1. end \in Nat /\ L \in Nat /\ end <= L /\ L <= Len(pattern)
    BY <1>1, <1>5 DEF L
  <2> QED
    BY <2>1, Behind
<1>8. \E j \in DOMAIN pattern : h = SubSeq(pattern, 2, j)
  <2>1. end - 1 \in DOMAIN pattern
    BY <1>1, <1>5 DEF L
  <2> QED
    BY <2>1
<1> HIDE DEF h, tail
<1>9. Close_ \notin Range(h)
  <2> SUFFICES ASSUME NEW i \in DOMAIN h, h[i] = Close_ PROVE FALSE
    BY DEF Range
  <2>1. i \in 1 .. end - 2
    BY <1>6
  <2>2. 1 + i \in 1 .. end - 1
    BY <1>5, <1>1, <2>1
  <2> QED
    BY <1>5, <1>6, <2>1, <2>2
<1>10. ASSUME NEW ports, NEW t \in Seq(Nat), Len(t) = L - end, \A i \in 1 .. Len(t) : t[i] = pattern[end + i]
       PROVE  Bracketed(pattern, h, t)
  <2>1. Len(h) + 2 = end /\ L = Len(h) + 2 + Len(t) /\ Len(h) = end - 2
    BY <1>1, <1>5, <1>6, <1>10
  <2>2. \A i \in 1 .. Len(h) : pattern[i + 1] = h[i]
    <3>1. \A i \in 1 .. Len(h) : i + 1 = 1 + i
      OBVIOUS
    <3> QED
      BY <1>6, <2>1, <3>1
  <2> QED
    BY <1>1, <1>5, <1>10, <2>1, <2>2 DEF Bracketed, L
<1>11. CASE tail = <<>>
  <2>1. split = Split(h, {}) /\ L = end
    BY <1>1, <1>2, <1>3, <1>5, <1>7, <1>11
  <2>2. split.host = h /\ split.ports = {}
    BY <2>1 DEF Split
  <2>3. HostTail(pattern, {}) \in Seq(Nat) /\ Len(HostTail(pattern, {})) = 0
    BY HostTailIs
  <2>4. Bracketed(pattern, h, HostTail(pattern, {}))
    BY <1>1, <1>10, <2>1, <2>3
  <2> QED
    BY <1>6, <1>8, <1>9, <2>1, <2>2, <2>4
<1>12. CASE tail # <<>>
  <2> DEFINE text == Tail(tail)
  <2>1. tail[1] = Colon /\ split = WithPort(h, text)
    BY <1>2, <1>3, <1>12
  <2>2. text \in Seq(Nat) /\ Len(tail) \in Nat \ {0} /\ Len(text) = Len(tail) - 1 /\ \A i \in 1 .. Len(text) : text[i] = tail[i + 1]
    BY <1>7, <1>12, HeadTailProperties, LenProperties, EmptySeq
  <2> HIDE DEF text
  <2>3. Len(text) = 1 /\ text[1] \in Port \cup {0} /\ split = Split(h, {text[1]})
    BY <2>1 DEF WithPort
  <2>4. Len(tail) = 2 /\ L - end = 2 /\ end + 2 = L /\ 1 \in 1 .. Len(text) /\ 1 + 1 = 2 /\ 2 \in 1 .. L - end /\ 1 \in 1 .. L - end
    <3>1. L \in Int /\ end \in Int /\ Len(tail) \in Int /\ Len(tail) = L - end /\ Len(text) = Len(tail) - 1 /\ Len(text) = 1
      <4>1. L \in Int /\ end \in Int
        BY <1>1, <1>5
      <4>2. Len(tail) = L - end
        BY <1>7
      <4>3. Len(tail) \in Int /\ Len(text) = Len(tail) - 1
        BY <2>2
      <4> QED
        BY <4>1, <4>2, <4>3, <2>3
    <3> DEFINE width == Len(tail)
               rest == Len(text)
    <3>2. L \in Int /\ end \in Int /\ width \in Int /\ width = L - end /\ rest = width - 1 /\ rest = 1
      BY <3>1, Zenon DEF width, rest
    <3> HIDE DEF width, rest
    <3>3. width = 2 /\ L - end = 2 /\ end + 2 = L
      BY <3>2, TwoWide
    <3>4. Len(tail) = 2 /\ L - end = 2 /\ end + 2 = L
      BY <3>3, Zenon DEF width
    <3> QED
      BY <3>1, <3>4
  <2>5. text[1] = pattern[L] /\ pattern[end + 1] = Colon
    <3>1. text[1] = tail[2] /\ tail[2] = pattern[end + 2] /\ tail[1] = pattern[end + 1]
      BY <1>7, <2>2, <2>4
    <3> QED
      BY <2>1, <2>4, <3>1
  <2>6. split.host = h /\ split.ports = {Last(pattern)}
    BY <1>1, <2>3, <2>5 DEF Split
  <2> DEFINE b == HostTail(pattern, split.ports)
  <2>7. b \in Seq(Nat) /\ Len(b) = 2 /\ b[1] = Colon /\ b[2] = pattern[L]
    BY <2>6, HostTailIs DEF L
  <2> HIDE DEF b
  <2>8. Bracketed(pattern, h, b)
    <3>1. \A i \in 1 .. Len(b) : b[i] = pattern[end + i]
      BY <2>4, <2>5, <2>7
    <3> QED
      BY <1>10, <2>4, <2>7, <3>1
  <2> QED
    BY <1>1, <1>6, <1>8, <1>9, <2>3, <2>5, <2>6, <2>8 DEF b
<1> QED
  BY <1>11, <1>12

\* The only colon of a pattern is that of its port.
OneColon(pattern) ==
  LET colons == {i \in DOMAIN pattern : pattern[i] = Colon} IN \E i \in colons : colons = {i}

\* A pattern without brackets is split at its colon, if it has one.
LEMMA PlainSplit ==
  ASSUME NEW pattern \in Seq(Nat), pattern # <<>>, Head(pattern) # Open_,
         NEW split, split = split_host_port(pattern), split # Bad, split.host # <<>>
  PROVE  /\ split = Split(split.host, split.ports)
         /\ \E j \in DOMAIN pattern : split.host = SubSeq(pattern, 1, j)
         /\ split.host \in Seq(Nat) /\ split.ports \in {{}, {Last(pattern)}}
         /\ split.ports \subseteq Port \cup {0}
         /\ split.ports # {} <=> OneColon(pattern)
         /\ pattern = split.host \o HostTail(pattern, split.ports)
<1> DEFINE L == Len(pattern)
           colons == {i \in 1 .. L : pattern[i] = Colon}
           last == Max(colons)
           before == SubSeq(pattern, 1, last - 1)
           text == SubSeq(pattern, last + 1, L)
<1>1. L \in Nat /\ L >= 1 /\ Last(pattern) = pattern[L] /\ DOMAIN pattern = 1 .. L
  BY LenProperties, EmptySeq DEF Last
<1>2. split = IF colons # {} /\ Colon \notin Range(before) THEN WithPort(before, text)
              ELSE Split(pattern, {})
  BY DEF split_host_port
<1>o. OneColon(pattern) <=> \E i \in colons : colons = {i}
  BY <1>1 DEF OneColon
<1>3. ASSUME colons # {}
      PROVE  /\ last \in 1 .. L /\ pattern[last] = Colon /\ \A y \in colons : y <= last
             /\ before \in Seq(Nat) /\ Len(before) = last - 1
             /\ \A i \in 1 .. last - 1 : before[i] = pattern[i]
             /\ text \in Seq(Nat) /\ Len(text) = L - last
             /\ \A i \in 1 .. L - last : text[i] = pattern[last + i]
  <2>1. last \in colons /\ \A y \in colons : y <= last
    <3>1. colons \subseteq 0 .. L
      BY <1>1
    <3> HIDE DEF colons, L
    <3> QED
      BY <1>1, <1>3, <3>1, Greatest
  <2> HIDE DEF last
  <2>2. last \in 1 .. L /\ pattern[last] = Colon
    BY <2>1
  <2>3. before \in Seq(Nat) /\ Len(before) = last - 1 /\ \A i \in 1 .. last - 1 : before[i] = pattern[i]
    <3> DEFINE e == last - 1
               t == SubSeq(pattern, 0 + 1, e)
    <3>1. 0 \in Nat /\ e \in Nat /\ 0 <= e /\ e <= Len(pattern) /\ e - 0 = last - 1 /\ 0 + 1 = 1
          /\ \A i \in Int : 0 + i = i
      BY <1>1, <2>2
    <3>2. t = before
      OBVIOUS
    <3>3. e = last - 1
      OBVIOUS
    <3> HIDE DEF e, before
    <3>4. t \in Seq(Nat) /\ Len(t) = e - 0 /\ \A i \in 1 .. e - 0 : t[i] = pattern[0 + i]
      BY <3>1, Behind
    <3> HIDE DEF t
    <3> QED
      BY <3>1, <3>2, <3>4
  <2>4. text \in Seq(Nat) /\ Len(text) = L - last /\ \A i \in 1 .. L - last : text[i] = pattern[last + i]
    <3>1. last \in Nat /\ L \in Nat /\ last <= L /\ L <= Len(pattern)
      BY <1>1, <2>2
    <3> QED
      BY <3>1, Behind
  <2> QED
    BY <2>1, <2>2, <2>3, <2>4
<1> HIDE DEF last, before, text
<1>4. ASSUME colons # {} PROVE Colon \notin Range(before) <=> colons = {last}
  <2> HIDE DEF L
  <2>1. ASSUME Colon \notin Range(before), NEW i \in colons PROVE i = last
    <3>1. i \in 1 .. L /\ pattern[i] = Colon /\ i <= last /\ last \in 1 .. L
      BY <1>3, <1>4
    <3>2. CASE i \in 1 .. last - 1
      <4>1. before[i] = Colon /\ i \in DOMAIN before
        BY <1>3, <1>4, <3>1, <3>2
      <4> QED
        BY <2>1, <4>1 DEF Range
    <3> QED
      BY <3>1, <3>2
  <2>2. ASSUME colons = {last}, NEW i \in DOMAIN before, before[i] = Colon PROVE FALSE
    <3>1. i \in 1 .. last - 1 /\ pattern[i] = Colon /\ last \in 1 .. L
      <4>1. before \in Seq(Nat) /\ Len(before) = last - 1 /\ last \in 1 .. L
        BY <1>3, <1>4
      <4>2. i \in 1 .. last - 1
        BY <4>1, LenProperties
      <4>3. before[i] = pattern[i]
        BY <1>3, <1>4, <4>2
      <4> QED
        BY <2>2, <4>1, <4>2, <4>3
    <3>2. i \in 1 .. L /\ i # last
      BY <1>1, <3>1
    <3>3. i \in colons
      BY <3>1, <3>2
    <3> QED
      BY <2>2, <3>2, <3>3
  <2>3. last \in colons
    BY <1>3, <1>4
  <2> HIDE DEF colons
  <2> QED
    BY <2>1, <2>2, <2>3 DEF Range
<1>5. CASE colons # {} /\ Colon \notin Range(before)
  <2>1. split = WithPort(before, text) /\ colons = {last} /\ OneColon(pattern)
    <3>1. last \in colons
      BY <1>3, <1>5
    <3> QED
      BY <1>2, <1>4, <1>5, <1>o, <3>1
  <2>2. Len(text) = 1 /\ text[1] \in Port \cup {0} /\ split = Split(before, {text[1]})
    BY <2>1 DEF WithPort
  <2> HIDE DEF L
  <2>3. L - last = 1 /\ last = L - 1 /\ Len(before) = L - 2 /\ last + 1 = L /\ L >= 2
    BY <1>1, <1>3, <1>5, <2>2
  <2>4. text[1] = pattern[L] /\ pattern[L - 1] = Colon /\ 1 \in 1 .. L - last
    <3>1. 1 \in 1 .. L - last
      BY <2>3
    <3>2. text[1] = pattern[last + 1]
      BY <1>3, <1>5, <3>1
    <3>3. pattern[last] = Colon
      BY <1>3, <1>5
    <3> QED
      BY <2>3, <3>1, <3>2, <3>3
  <2>5. split.host = before /\ split.ports = {Last(pattern)}
    BY <1>1, <2>2, <2>4 DEF Split
  <2>6. L - 2 \in DOMAIN pattern /\ before = SubSeq(pattern, 1, L - 2)
    <3>1. Len(before) \in Nat /\ Len(before) # 0
      BY <1>3, <1>5, <2>5, EmptySeq, LenProperties
    <3>2. last - 1 = L - 2
      BY <1>1, <2>3
    <3> QED
      BY <1>1, <2>3, <3>1, <3>2 DEF before
  <2> DEFINE b == HostTail(pattern, split.ports)
  <2>7. b \in Seq(Nat) /\ Len(b) = 2 /\ b[1] = Colon /\ b[2] = pattern[L]
    BY <2>5, HostTailIs DEF L
  <2> HIDE DEF b
  <2>8. pattern = before \o b
    <3>1. L = Len(before) + Len(b)
      BY <1>1, <2>3, <2>7
    <3>2. \A i \in 1 .. Len(before) : pattern[i] = before[i]
      BY <1>3, <1>5
    <3>3. \A i \in 1 .. Len(b) : pattern[Len(before) + i] = b[i]
      <4>1. \A i \in 1 .. Len(b) : (i = 1 /\ Len(before) + i = L - 1) \/ (i = 2 /\ Len(before) + i = L)
        BY <1>1, <2>3, <2>7
      <4> QED
        BY <2>4, <2>7, <4>1
    <3> QED
      BY <1>3, <1>5, <2>7, <3>1, <3>2, <3>3, JoinedIs DEF L
  <2> QED
    BY <1>3, <1>5, <2>1, <2>2, <2>4, <2>5, <2>6, <2>8, <1>1 DEF b
<1>6. CASE ~(colons # {} /\ Colon \notin Range(before))
  <2>1. split = Split(pattern, {}) /\ ~OneColon(pattern)
    <3>1. ASSUME NEW i \in colons, colons = {i} PROVE FALSE
      <4>1. last \in colons
        BY <1>3, <3>1
      <4> QED
        BY <1>4, <1>6, <3>1, <4>1
    <3> QED
      BY <1>2, <1>6, <1>o, <3>1
  <2>2. split.host = pattern /\ split.ports = {}
    BY <2>1 DEF Split
  <2>3. pattern = SubSeq(pattern, 1, L) /\ L \in DOMAIN pattern
    BY <1>1, SubSeqFull
  <2>4. pattern = pattern \o HostTail(pattern, {})
    <3>1. HostTail(pattern, {}) = <<>>
      BY DEF HostTail
    <3> QED
      BY <3>1, ConcatEmptySeq
  <2> QED
    BY <2>1, <2>2, <2>3, <2>4
<1> QED
  BY <1>5, <1>6

\* What a pattern is written as, said with the operators above.
LEMMA WrittenIs ==
  ASSUME NEW pattern \in Seq(Nat), pattern # <<>>, NEW host \in Seq(Nat), NEW ports
  PROVE  Written(pattern, host, ports) <=>
           \/ Bracketed(pattern, host, HostTail(pattern, ports)) /\ Close_ \notin Range(host)
           \/ /\ pattern = host \o HostTail(pattern, ports) /\ Head(pattern) # Open_
              /\ ports # {} <=> OneColon(pattern)
<1> DEFINE b == HostTail(pattern, ports)
<1>1. b \in Seq(Nat)
  BY HostTailIs
<1>2. b = IF ports = {} THEN <<>> ELSE <<Colon, Last(pattern)>>
  BY DEF HostTail
<1> HIDE DEF b
<1>3. pattern = <<Open_>> \o host \o <<Close_>> \o b <=> Bracketed(pattern, host, b)
  BY <1>1, BracketedIs
<1>4. Written(pattern, host, ports) <=>
           \/ pattern = <<Open_>> \o host \o <<Close_>> \o b /\ Close_ \notin Range(host)
           \/ /\ pattern = host \o b /\ Head(pattern) # Open_
              /\ ports # {} <=> OneColon(pattern)
  BY <1>2 DEF Written, OneColon
<1> QED
  BY <1>3, <1>4 DEF b

\* Two ways to put a pattern in brackets are the same.
LEMMA BracketsOnce ==
  ASSUME NEW pattern \in Seq(Nat), pattern # <<>>,
         NEW h \in Seq(Nat), NEW p \in {{}, {Last(pattern)}},
         NEW k \in Seq(Nat), NEW q \in {{}, {Last(pattern)}},
         Bracketed(pattern, h, HostTail(pattern, p)), Close_ \notin Range(h),
         Bracketed(pattern, k, HostTail(pattern, q)), Close_ \notin Range(k)
  PROVE  h = k /\ p = q
<1> DEFINE bp == HostTail(pattern, p)
           bq == HostTail(pattern, q)
<1>1. Len(bp) = (IF p = {} THEN 0 ELSE 2) /\ Len(bq) = (IF q = {} THEN 0 ELSE 2)
  BY HostTailIs
<1> HIDE DEF bp, bq
<1>2. Bracketed(pattern, h, bp) /\ Bracketed(pattern, k, bq)
  BY DEF bp, bq
<1>3. Len(h) \in Nat /\ Len(k) \in Nat
  BY LenProperties
<1>4. ASSUME NEW x \in Seq(Nat), NEW y \in Seq(Nat), NEW bx, NEW by, Bracketed(pattern, x, bx), Bracketed(pattern, y, by),
             Close_ \notin Range(y), Len(x) < Len(y)
      PROVE  FALSE
  <2>1. Len(x) \in Nat /\ Len(y) \in Nat
    BY LenProperties
  <2>2. Len(x) + 1 \in 1 .. Len(y) /\ (Len(x) + 1) + 1 = Len(x) + 2
    BY <1>4, <2>1
  <2>3. pattern[Len(x) + 2] = y[Len(x) + 1] /\ pattern[Len(x) + 2] = Close_
    <3>1. \A i \in 1 .. Len(y) : pattern[i + 1] = y[i]
      BY <1>4 DEF Bracketed
    <3>2. pattern[Len(x) + 2] = Close_
      BY <1>4 DEF Bracketed
    <3>3. pattern[(Len(x) + 1) + 1] = y[Len(x) + 1]
      BY <2>2, <3>1
    <3> QED
      BY <2>2, <3>2, <3>3
  <2>4. y[Len(x) + 1] \in Range(y)
    BY <2>2, LenProperties DEF Range
  <2> QED
    BY <1>4, <2>3, <2>4
<1>5. Len(h) = Len(k)
  <2>1. ~(Len(h) < Len(k)) /\ ~(Len(k) < Len(h))
    BY <1>2, <1>4
  <2> QED
    BY <1>3, <2>1
<1>6. h = k
  <2>1. \A i \in 1 .. Len(h) : h[i] = k[i]
    BY <1>2, <1>5 DEF Bracketed
  <2> QED
    BY <1>5, <2>1, SameBytes
<1>7. p = q
  <2>1. Len(pattern) = Len(h) + 2 + Len(bp) /\ Len(pattern) = Len(k) + 2 + Len(bq)
    BY <1>2 DEF Bracketed
  <2>2. Len(bp) \in Int /\ Len(bq) \in Int
    BY <1>1
  <2>3. Len(bp) = Len(bq)
    BY <1>3, <1>5, <2>1, <2>2
  <2> QED
    <3>1. p = {} <=> q = {}
      <4>1. CASE p = {}
        BY <1>1, <2>3, <4>1
      <4>2. CASE p # {}
        <5>1. Len(bp) = 2
          BY <1>1, <4>2
        <5>2. Len(bq) # 0
          BY <2>3, <5>1
        <5> QED
          BY <1>1, <4>2, <5>2
      <4> QED
        BY <4>1, <4>2
    <3> QED
      BY <3>1
<1> QED
  BY <1>6, <1>7

\* A pattern that can be split is written in the one way the split says.
LEMMA SplitIs ==
  ASSUME NEW pattern \in Seq(Nat), pattern # <<>>,
         NEW split, split = split_host_port(pattern), split # Bad, split.host # <<>>
  PROVE  /\ split = Split(split.host, split.ports)
         /\ \E i \in {1, 2} : \E j \in DOMAIN pattern : split.host = SubSeq(pattern, i, j)
         /\ split.host \in Seq(Nat) /\ split.ports \in {{}, {Last(pattern)}}
         /\ \A host \in Seq(Nat) : \A ports \in {{}, {Last(pattern)}} :
              Written(pattern, host, ports) <=> host = split.host /\ ports = split.ports
<1>1. ASSUME NEW t \in Seq(Nat), NEW host \in Seq(Nat), Bracketed(pattern, host, t)
      PROVE  Head(pattern) = Open_
  BY <1>1 DEF Bracketed
<1>2. CASE Head(pattern) = Open_
  <2>1. /\ split = Split(split.host, split.ports)
        /\ \E j \in DOMAIN pattern : split.host = SubSeq(pattern, 2, j)
        /\ split.host \in Seq(Nat) /\ split.ports \in {{}, {Last(pattern)}}
        /\ Close_ \notin Range(split.host)
        /\ Bracketed(pattern, split.host, HostTail(pattern, split.ports))
    BY <1>2, BracketsSplit
  <2>2. ASSUME NEW host \in Seq(Nat), NEW ports \in {{}, {Last(pattern)}}
        PROVE  Written(pattern, host, ports) <=> host = split.host /\ ports = split.ports
    <3>1. Written(pattern, host, ports) <=>
            Bracketed(pattern, host, HostTail(pattern, ports)) /\ Close_ \notin Range(host)
      BY <1>2, WrittenIs
    <3>2. Bracketed(pattern, host, HostTail(pattern, ports)) /\ Close_ \notin Range(host)
            => host = split.host /\ ports = split.ports
      BY <2>1, BracketsOnce
    <3> QED
      BY <2>1, <3>1, <3>2
  <2> QED
    BY <2>1, <2>2
<1>3. CASE Head(pattern) # Open_
  <2>1. /\ split = Split(split.host, split.ports)
        /\ \E j \in DOMAIN pattern : split.host = SubSeq(pattern, 1, j)
        /\ split.host \in Seq(Nat) /\ split.ports \in {{}, {Last(pattern)}}
        /\ split.ports # {} <=> OneColon(pattern)
        /\ pattern = split.host \o HostTail(pattern, split.ports)
    BY <1>3, PlainSplit
  <2>2. ASSUME NEW host \in Seq(Nat), NEW ports \in {{}, {Last(pattern)}}
        PROVE  Written(pattern, host, ports) <=> host = split.host /\ ports = split.ports
    <3> DEFINE b == HostTail(pattern, ports)
    <3>1. b \in Seq(Nat)
      BY HostTailIs
    <3>2. Written(pattern, host, ports) <=> pattern = host \o b /\ (ports # {} <=> OneColon(pattern))
      BY <1>1, <1>3, <3>1, WrittenIs
    <3>3. ASSUME pattern = host \o b, ports # {} <=> OneColon(pattern)
          PROVE  host = split.host /\ ports = split.ports
      <4>1. ports = split.ports
        BY <2>1, <3>3
      <4> HIDE DEF b
      <4>2. pattern = split.host \o b
        BY <2>1, <4>1 DEF b
      <4> DEFINE k == split.host
      <4>3. k \in Seq(Nat)
        BY <2>1
      <4> HIDE DEF k
      <4>4. /\ Len(pattern) = Len(host) + Len(b) /\ \A i \in 1 .. Len(host) : pattern[i] = host[i]
        BY <3>1, <3>3, JoinedIs
      <4>5. /\ Len(pattern) = Len(k) + Len(b) /\ \A i \in 1 .. Len(k) : pattern[i] = k[i]
        BY <3>1, <4>2, <4>3, JoinedIs DEF k
      <4>6. Len(host) \in Nat /\ Len(k) \in Nat /\ Len(b) \in Nat
        BY <3>1, <4>3, LenProperties
      <4>7. Len(host) = Len(k)
        BY <4>4, <4>5, <4>6
      <4>8. host = k
        BY <4>3, <4>4, <4>5, <4>7, SameBytes
      <4> QED
        BY <4>1, <4>8 DEF k
    <3> QED
      BY <2>1, <3>2, <3>3
  <2> QED
    BY <2>1, <2>2
<1> QED
  BY <1>2, <1>3

\* A rule that is read from a pattern lets through what the documentation says.
LEMMA RuleAsDocumented ==
  ASSUME NEW pattern \in Seq(Nat), rule_of(pattern) # Bad, NEW addr \in Addresses
  PROVE  matches(rule_of(pattern), addr) <=> Documented(pattern, addr)
<1> DEFINE split == split_host_port(pattern)
           host == split.host
           ports == split.ports
           parent == normalize_host(SubSeq(host, 3, Len(host)))
<1>1. pattern # <<>> /\ split # Bad /\ host # <<>>
  BY DEF rule_of
<1>2. rule_of(pattern) =
        CASE host = <<Star>> -> Rule("Any", <<>>, ports)
          [] IsPrefix(<<Star, Dot>>, host) ->
               IF parent = <<>> \/ Star \in Range(parent) THEN Bad ELSE Rule("Suffix", parent, ports)
          [] OTHER ->
               IF IpOf(host) # <<>> THEN Rule("Ip", IpOf(host), ports)
               ELSE IF Star \in Range(host) THEN Bad
               ELSE Rule("Exact", normalize_host(host), ports)
  BY <1>1 DEF rule_of
<1> HIDE DEF split
<1>3. /\ host \in Seq(Nat) /\ ports \in {{}, {Last(pattern)}}
      /\ \E i \in {1, 2} : \E j \in DOMAIN pattern : host = SubSeq(pattern, i, j)
      /\ \A h \in Seq(Nat) : \A p \in {{}, {Last(pattern)}} :
           Written(pattern, h, p) <=> h = host /\ p = ports
  BY <1>1, SplitIs DEF split
<1> HIDE DEF host, ports
<1>4. ~(host = <<Star>>) \/ ~Starred(host)
  BY DEF Starred
<1>5. /\ rule_of(pattern) = Rule(RuleOf(host).type, RuleOf(host).host, ports)
      /\ Starred(host) => normalize_host(Parent(host)) # <<>>
      /\ ~Starred(host) /\ host # <<Star>> /\ IpOf(host) = <<>> => Star \notin Range(host)
  <2> HIDE DEF parent
  <2>1. parent = normalize_host(Parent(host))
    BY DEF parent, Parent
  <2>2. IsPrefix(<<Star, Dot>>, host) <=> Starred(host)
    BY <1>3, StarredIs
  <2>3. CASE host = <<Star>>
    <3>1. ~IsPrefix(<<Star, Dot>>, host)
      BY <1>4, <2>2, <2>3
    <3> DEFINE r == [type |-> "Any", host |-> <<>>]
    <3>2. RuleOf(host) = r
      BY <2>3 DEF RuleOf
    <3>3. rule_of(pattern) = Rule("Any", <<>>, ports)
      BY <1>2, <2>3, <3>1
    <3> QED
      BY <1>4, <2>3, <3>2, <3>3
  <2>4. CASE host # <<Star>> /\ Starred(host)
    BY <1>2, <2>1, <2>2, <2>4 DEF RuleOf
  <2>5. CASE host # <<Star>> /\ ~Starred(host)
    BY <1>2, <2>2, <2>5 DEF RuleOf
  <2> QED
    BY <2>3, <2>4, <2>5
<1>6. matches(rule_of(pattern), addr) <=> (ports = {} \/ addr.port \in ports) /\ Covers(host, addr)
  <2>1. host # <<>>
    BY <1>1 DEF host
  <2> DEFINE rule == Rule(RuleOf(host).type, RuleOf(host).host, ports)
  <2>2. matches(rule, addr) <=> (ports = {} \/ addr.port \in ports) /\ Covers(host, addr)
    BY <1>3, <1>5, <2>1, RuleCovers
  <2> QED
    BY <1>5, <2>2
<1>7. ASSUME NEW i \in {1, 2}, NEW j \in DOMAIN pattern PROVE SubSeq(pattern, i, j) \in Seq(Nat)
  <2>1. j \in Nat /\ j >= 1 /\ j <= Len(pattern) /\ i \in Nat \ {0} /\ i <= j + 1
    BY LenProperties
  <2> QED
    BY <2>1, Cuts
<1>8. ASSUME NEW i \in {1, 2}, NEW j \in DOMAIN pattern, NEW p \in {{}, {Last(pattern)}}
      PROVE  Written(pattern, SubSeq(pattern, i, j), p) <=> SubSeq(pattern, i, j) = host /\ p = ports
  BY <1>3, <1>7
<1>9. ASSUME (ports = {} \/ addr.port \in ports) /\ Covers(host, addr)
      PROVE  Documented(pattern, addr)
  <2>1. PICK i \in {1, 2}, j \in DOMAIN pattern : host = SubSeq(pattern, i, j)
    BY <1>3
  <2>2. Written(pattern, SubSeq(pattern, i, j), ports)
    BY <1>3, <2>1
  <2> QED
    BY <1>3, <1>9, <2>1, <2>2 DEF Documented
<1>10. ASSUME Documented(pattern, addr)
       PROVE  (ports = {} \/ addr.port \in ports) /\ Covers(host, addr)
  <2>1. PICK i \in {1, 2}, j \in DOMAIN pattern, p \in {{}, {Last(pattern)}} :
          /\ Written(pattern, SubSeq(pattern, i, j), p)
          /\ p = {} \/ addr.port \in p
          /\ Covers(SubSeq(pattern, i, j), addr)
    BY <1>10 DEF Documented
  <2>2. SubSeq(pattern, i, j) = host /\ p = ports
    BY <1>8, <2>1
  <2> QED
    BY <2>1, <2>2
<1> QED
  BY <1>6, <1>9, <1>10

\* A trimmed text is a part of the text.
LEMMA TrimIs ==
  ASSUME NEW text \in Seq(Nat)
  PROVE  Trim(text) \in Seq(Nat)
<1> DEFINE keep == {i \in DOMAIN text : text[i] \notin White}
<1>1. CASE keep = {}
  <2>1. Trim(text) = <<>>
    BY <1>1 DEF Trim
  <2> QED
    BY <2>1
<1>2. CASE keep # {}
  <2>1. DOMAIN text = 1 .. Len(text) /\ Len(text) \in Nat
    BY LenProperties
  <2>2. keep \subseteq 1 .. Len(text)
    BY <2>1
  <2> HIDE DEF keep
  <2>3. Min(keep) \in keep /\ Max(keep) \in keep /\ \A i \in keep : Min(keep) <= i
    <3>1. keep \subseteq Nat /\ keep \subseteq 0 .. Len(text)
      BY <2>1, <2>2
    <3> QED
      BY <1>2, <2>1, <3>1, Smallest, Greatest
  <2>4. Min(keep) \in Nat \ {0} /\ Max(keep) \in Nat /\ Max(keep) <= Len(text) /\ Min(keep) <= Max(keep) + 1
    <3>1. Min(keep) \in 1 .. Len(text) /\ Max(keep) \in 1 .. Len(text) /\ Min(keep) <= Max(keep)
      BY <2>2, <2>3
    <3> QED
      BY <2>1, <3>1
  <2>5. SubSeq(text, Min(keep), Max(keep)) \in Seq(Nat)
    BY <2>4, Cuts
  <2> QED
    BY <1>2, <2>5 DEF Trim, keep
<1> QED
  BY <1>1, <1>2

\* So does a list of them.
LEMMA ListAsDocumented ==
  ASSUME NEW patterns \in Seq(Seq(Nat)), parse(patterns) # Bad, NEW addr \in Addresses
  PROVE  permits(parse(patterns), addr) <=>
           patterns = <<>> \/ \E i \in DOMAIN patterns : Documented(Trim(patterns[i]), addr)
<1> DEFINE rules == {parse_rule(patterns[i]) : i \in DOMAIN patterns}
<1>1. parse(patterns) = [rules |-> rules] /\ \A i \in DOMAIN patterns : parse_rule(patterns[i]) # Bad
  BY DEF parse
<1>2. permits(parse(patterns), addr) <=> rules = {} \/ \E rule \in rules : matches(rule, addr)
  BY <1>1 DEF permits
<1>3. rules = {} <=> patterns = <<>>
  <2>1. patterns = <<>> <=> DOMAIN patterns = {}
    <3>1. DOMAIN patterns = 1 .. Len(patterns) /\ Len(patterns) \in Nat /\ (patterns = <<>> <=> Len(patterns) = 0)
      BY LenProperties, EmptySeq
    <3> QED
      <4>1. \A n \in Nat : 1 .. n = {} <=> n = 0
        OBVIOUS
      <4> QED
        BY <3>1, <4>1
  <2> QED
    BY <2>1
<1>4. ASSUME NEW i \in DOMAIN patterns
      PROVE  matches(parse_rule(patterns[i]), addr) <=> Documented(Trim(patterns[i]), addr)
  <2>1. patterns[i] \in Seq(Nat)
    BY LenProperties, ElementOfSeq
  <2>2. Trim(patterns[i]) \in Seq(Nat)
    BY <2>1, TrimIs
  <2>3. rule_of(Trim(patterns[i])) # Bad
    BY <1>1 DEF parse_rule
  <2> QED
    BY <2>2, <2>3, RuleAsDocumented DEF parse_rule
<1>5. (\E rule \in rules : matches(rule, addr)) <=> \E i \in DOMAIN patterns : matches(parse_rule(patterns[i]), addr)
  OBVIOUS
<1> HIDE DEF rules
<1> QED
  BY <1>2, <1>3, <1>4, <1>5

-----------------------------------------------------------------------------
(* The ruling of the allow list.                                           *)

\* A connection asks once, and what the helper connects to was let through by the
\* list that it was started with.
Allowed ==
  LET allow == parse(ruling.patterns) IN
  /\ ruling.patterns \in AllowPatterns /\ allow # Bad /\ permits(allow, egress)
  /\ ruling.permitted
RulingHolds ==
  proto # "frames" =>
    /\ Len(link["up"].sent) <= 1
    /\ egress # NoTarget => Len(link["up"].got) > 0 /\ Allowed

\* Nothing is asked yet.
LEMMA RulingStarts == Init => RulingHolds
<1> SUFFICES ASSUME Init PROVE RulingHolds
  OBVIOUS
<1>1. egress = NoTarget /\ link["up"] = Idle
  BY DEF Init, Direction
<1>2. Len(Idle.sent) = 0
  BY DEF Idle
<1> QED
  BY <1>1, <1>2 DEF RulingHolds

\* A step that neither sends nor answers.
LEMMA RulingRests ==
  ASSUME RulingHolds, proto' = proto, egress' = egress, ruling' = ruling,
         link'["up"].sent = link["up"].sent,
         Len(link["up"].got) > 0 => Len(link'["up"].got) > 0
  PROVE  RulingHolds'
BY DEF RulingHolds, Allowed

\* A turn of a reader.
LEMMA DecodesRule ==
  ASSUME PathHolds, RulingHolds, NEW d \in Direction, Decodes(d)
  PROVE  RulingHolds'
<1> DEFINE e == link[d]
           result == decode_frame(e.buf)
           ends == [link EXCEPT ![d].buf = result.rest, ![d].got = Append(@, result.frame)]
<1>1. /\ UNCHANGED fvars /\ link \in [Direction -> EndType] /\ Consistent(e) /\ e \in EndType
      /\ ~IsMore(result) /\ "up" \in Direction /\ "down" \in Direction
  BY DEF Decodes, PathHolds, Direction, Consistent
<1>2. proto' = proto
  BY <1>1 DEF fvars, client
<1>3. NextIsDecoded(e)
  BY <1>1, DecodingKeeps
<1>4. CASE IsError(result)
  <2>1. link' = [link EXCEPT ![d].err = TRUE] /\ egress' = egress /\ ruling' = ruling
    BY <1>4 DEF Decodes
  <2>2. link'["up"].sent = link["up"].sent /\ link'["up"].got = link["up"].got
    BY <1>1, <2>1 DEF EndType
  <2> QED
    BY <1>2, <2>1, <2>2, RulingRests
<1>5. CASE ~IsError(result)
  <2>1. Len(e.got) < Len(e.sent)
    BY <1>3, <1>5 DEF NextIsDecoded
  <2>2. IF d = "up" /\ proto # "frames" /\ result.frame.ty = OPEN
        THEN Answer(result.frame, ends) ELSE link' = ends /\ egress' = egress /\ ruling' = ruling
    BY <1>5, Zenon DEF Decodes
  <2> HIDE DEF result
  <2>3. /\ ends["up"].sent = link["up"].sent
        /\ Len(link["up"].got) > 0 => Len(ends["up"].got) > 0
        /\ d = "up" => Len(ends["up"].got) > 0
    <3>1. CASE d = "down"
      <4>1. ends["up"] = link["up"]
        BY <1>1, <3>1
      <4> QED
        BY <3>1, <4>1
    <3>2. CASE d = "up"
      <4>1. ends["up"].sent = link["up"].sent /\ ends["up"].got = Append(link["up"].got, result.frame)
        BY <1>1, <3>2 DEF EndType
      <4>2. Len(Append(link["up"].got, result.frame)) = Len(link["up"].got) + 1 /\ Len(link["up"].got) \in Nat
        <5>1. link["up"].got \in Seq(Arrivals)
          BY <1>1 DEF EndType
        <5> QED
          BY <5>1, LenProperties
      <4> QED
        BY <4>1, <4>2
    <3> QED
      BY <3>1, <3>2 DEF Direction
  <2>4. CASE ~(d = "up" /\ proto # "frames" /\ result.frame.ty = OPEN)
    BY <1>2, <2>2, <2>3, <2>4, RulingRests
  <2>5. CASE d = "up" /\ proto # "frames" /\ result.frame.ty = OPEN
    <3> DEFINE f == result.frame
    <3>1. Answer(f, ends)
      BY <2>2, <2>5
    <3> HIDE DEF f
    <3>2. egress = NoTarget /\ Len(link["up"].sent) <= 1
      <4>1. Len(e.got) \in Nat /\ Len(e.sent) \in Nat
        BY <1>1, ConsistentTypes
      <4>2. ~(Len(e.got) > 0)
        BY <2>1, <2>5, <4>1 DEF RulingHolds
      <4> QED
        BY <2>5, <4>2 DEF RulingHolds
    <3>3. PICK answer : link' = Sent(ends, "down", answer)
      BY <3>1 DEF Answer
    <3>4. link'["up"] = ends["up"]
      <4>1. link' = [ends EXCEPT !["down"].wire = @ \o encode_frame(answer), !["down"].sent = Append(@, answer)]
        BY <3>3 DEF Sent
      <4>2. DOMAIN ends = Direction
        BY <1>1
      <4> QED
        BY <1>1, <4>1, <4>2
    <3> HIDE DEF ends, e
    <3>5. egress' # NoTarget => Allowed'
      <4>1. PICK patterns \in AllowPatterns :
              LET allow == parse(patterns) IN
              /\ allow # Bad
              /\ ruling' = [patterns |-> patterns, permitted |-> permits(allow, f.addr)]
              /\ IF permits(allow, f.addr) THEN egress' = f.addr ELSE egress' = egress
        BY <3>1, Zenon DEF Answer
      <4>2. CASE permits(parse(patterns), f.addr)
        BY <4>1, <4>2 DEF Allowed
      <4>3. CASE ~permits(parse(patterns), f.addr)
        BY <3>2, <4>1, <4>3
      <4> QED
        BY <4>2, <4>3
    <3> QED
      BY <2>3, <2>5, <3>2, <3>4, <3>5 DEF RulingHolds
  <2> QED
    BY <2>4, <2>5
<1> QED
  BY <1>4, <1>5

\* Every step keeps the ruling.
LEMMA RulingKeeps ==
  ASSUME PathHolds, RulingHolds, [Next]_vars
  PROVE  RulingHolds'
<1>1. "up" \in Direction /\ "down" \in Direction /\ link \in [Direction -> EndType] /\ link["up"] \in EndType
  BY DEF Direction, PathHolds
<1>2. CASE Application \/ Sockets \/ Serves \/ UNCHANGED vars
  <2>1. link' = link /\ egress' = egress /\ ruling' = ruling /\ proto' = proto
    BY <1>2 DEF Application, Sockets, Serves, vars, fvars, client, Arrives, Closes, Socks5, HttpConnect,
                DialFails, Relay, UpstreamEnds, Breaks
  <2> QED
    BY <2>1, RulingRests
<1>3. CASE Dials \/ DialsInVain
  <2> DEFINE f == Open(1, target)
  <2>1. link' = Sent(link, "up", f) /\ egress' = egress /\ ~Served /\ proto' = proto
    <3>1. ~Served /\ ServesOn
      BY <1>3, DialKeeps DEF Dials, DialsInVain, PathHolds
    <3> QED
      BY <1>3, <3>1 DEF Dials, DialsInVain, ServesOn
  <2>2. egress = NoTarget
    BY <2>1 DEF PathHolds
  <2>3. proto # "frames" => Len(link["up"].sent) = 0
    BY <1>1, <2>1, ConsistentTypes DEF PathHolds
  <2> HIDE DEF f
  <2>4. link'["up"].sent = Append(link["up"].sent, f)
    <3>1. link' = [link EXCEPT !["up"] = WithSent(link["up"], f)]
      BY <1>1, <2>1, SentIs
    <3>2. link'["up"] = WithSent(link["up"], f)
      BY <1>1, <3>1
    <3> QED
      BY <1>1, <3>2 DEF WithSent, EndType
  <2>5. proto # "frames" => Len(link'["up"].sent) <= 1
    <3>1. link["up"].sent \in Seq(Traffic)
      BY <1>1 DEF EndType
    <3> QED
      BY <2>3, <2>4, <3>1, EmptySeq
  <2> QED
    BY <2>1, <2>2, <2>5 DEF RulingHolds
<1>4. CASE SendsFrame \/ SendsForeign
  <2>1. proto = "frames" /\ proto' = proto
    BY <1>4 DEF SendsFrame, SendsForeign, fvars, client
  <2> QED
    BY <2>1 DEF RulingHolds
<1>5. ASSUME NEW d \in Direction, Delivers(d) PROVE RulingHolds'
  <2>1. egress' = egress /\ ruling' = ruling /\ proto' = proto
    BY <1>5 DEF Delivers, fvars, client
  <2>2. PICK n : link' = [link EXCEPT ![d].buf = @ \o SubSeq(link[d].wire, 1, n),
                                      ![d].wire = SubSeq(@, n + 1, Len(@))]
    BY <1>5 DEF Delivers
  <2>3. link'["up"].sent = link["up"].sent /\ link'["up"].got = link["up"].got
    BY <1>1, <2>2 DEF EndType
  <2> QED
    BY <2>1, <2>3, RulingRests
<1> QED
  BY <1>2, <1>3, <1>4, <1>5, DecodesRule DEF Next

\* What the helper reads from the channel of an application is the Open of its dial.
LEMMA OpensAreDialled ==
  ASSUME PathHolds, proto # "frames", Decodes("up"),
         NEW result, result = decode_frame(link["up"].buf), ~IsError(result), result.frame.ty = OPEN
  PROVE  Served /\ result.frame.addr = target
<1> DEFINE e == link["up"]
<1>1. Consistent(e) /\ "up" \in Direction /\ ~IsMore(result)
  BY DEF PathHolds, Direction, Decodes
<1>2. NextIsDecoded(e)
  BY <1>1, DecodingKeeps
<1>3. Len(e.got) < Len(e.sent) /\ result.frame = Carried(e.sent[Len(e.got) + 1])
  BY <1>2 DEF NextIsDecoded
<1>4. Len(e.got) + 1 \in 1 .. Len(e.sent) /\ Len(e.sent) > 0
  BY <1>1, <1>3, ConsistentTypes
<1>5. e.sent[Len(e.got) + 1] = Open(1, target) /\ Served
  BY <1>4 DEF PathHolds
<1>6. Open(1, target).ty # OPEN_ERR /\ Open(1, target).addr = target
  BY DEF Open, OPEN, OPEN_ERR
<1>7. result.frame = Open(1, target)
  BY <1>3, <1>5, <1>6 DEF Carried
<1> QED
  BY <1>5, <1>6, <1>7

\* A target stays that of the connection that is served.
LEMMA TargetsStay == PathHolds /\ [Next]_vars => ServesOn
<1> SUFFICES ASSUME PathHolds, [Next]_vars PROVE ServesOn
  OBVIOUS
<1>1. FrontHolds
  BY DEF PathHolds
<1>2. CASE UNCHANGED fvars
  BY <1>2 DEF fvars, client, server, ServesOn, Served
<1>3. CASE Application \/ Sockets \/ Serves
  BY <1>1, <1>3, ApplicationKeeps, Socks5Keeps, HttpKeeps, RelayKeeps DEF Application, Sockets, Serves
<1>4. CASE Dials \/ DialsInVain
  BY <1>1, <1>4, DialKeeps DEF Dials, DialsInVain
<1>5. CASE SendsFrame \/ SendsForeign \/ UNCHANGED vars \/ \E d \in Direction : Delivers(d) \/ Decodes(d)
  BY <1>2, <1>5 DEF SendsFrame, SendsForeign, Delivers, Decodes, vars
<1> QED
  BY <1>3, <1>4, <1>5 DEF Next

\* What the allow list said is what the list that the helper was started with says of the
\* target, whether it lets it through or not.
Judged ==
  \/ ruling = [patterns |-> <<>>, permitted |-> TRUE]
  \/ /\ Served /\ ruling.patterns \in AllowPatterns /\ parse(ruling.patterns) # Bad
     /\ ruling.permitted = permits(parse(ruling.patterns), target)

\* A step that leaves the list, the target and the ruling alone keeps the judgement.
LEMMA JudgedStays ==
  ASSUME Judged, ServesOn, ruling' = ruling
  PROVE  Judged'
BY DEF Judged, ServesOn

\* Every step keeps the judgement.
LEMMA JudgedKeeps ==
  ASSUME PathHolds, Judged, [Next]_vars
  PROVE  Judged'
<1>1. ServesOn
  BY TargetsStay
<1>2. CASE ruling' = ruling
  BY <1>1, <1>2, JudgedStays
<1>3. CASE Application \/ Sockets \/ Serves \/ Dials \/ DialsInVain \/ SendsFrame \/ SendsForeign
           \/ UNCHANGED vars \/ \E d \in Direction : Delivers(d)
  BY <1>2, <1>3 DEF Application, Sockets, Serves, Dials, DialsInVain, SendsFrame, SendsForeign, Delivers, vars
<1>4. ASSUME NEW d \in Direction, Decodes(d) PROVE Judged'
  <2> DEFINE result == decode_frame(link[d].buf)
             ends == [link EXCEPT ![d].buf = result.rest, ![d].got = Append(@, result.frame)]
  <2>1. CASE ~(~IsError(result) /\ d = "up" /\ proto # "frames" /\ result.frame.ty = OPEN)
    <3>1. ruling' = ruling
      BY <1>4, <2>1, Zenon DEF Decodes
    <3> QED
      BY <1>2, <3>1
  <2>2. CASE ~IsError(result) /\ d = "up" /\ proto # "frames" /\ result.frame.ty = OPEN
    <3> DEFINE f == result.frame
    <3>1. Served /\ f.addr = target
      BY <1>4, <2>2, OpensAreDialled
    <3>2. Answer(f, ends)
      BY <1>4, <2>2, Zenon DEF Decodes
    <3>3. Served' /\ target' = target
      BY <1>1, <3>1 DEF ServesOn
    <3> HIDE DEF f, ends
    <3>4. PICK patterns \in AllowPatterns :
            /\ parse(patterns) # Bad
            /\ ruling' = [patterns |-> patterns, permitted |-> permits(parse(patterns), f.addr)]
      BY <3>2, Zenon DEF Answer
    <3>5. ruling'.patterns = patterns /\ ruling'.permitted = permits(parse(patterns), target)
      BY <3>1, <3>4
    <3> QED
      BY <3>3, <3>4, <3>5 DEF Judged
  <2> QED
    BY <2>1, <2>2
<1> QED
  BY <1>3, <1>4 DEF Next

\* What was judged is what the documentation says.
LEMMA JudgedAsDocumented ==
  ASSUME PathHolds, RulingHolds, Judged
  PROVE  AllowedAsDocumented
<1> DEFINE patterns == ruling.patterns
<1>1. egress # NoTarget => ruling.permitted
  BY DEF PathHolds, RulingHolds, Allowed
<1>2. ruling.permitted <=> patterns = <<>> \/ \E i \in DOMAIN patterns : Documented(Trim(patterns[i]), target)
  <2>1. CASE ruling = [patterns |-> <<>>, permitted |-> TRUE]
    BY <2>1
  <2>2. CASE /\ Served /\ ruling.patterns \in AllowPatterns /\ parse(ruling.patterns) # Bad
             /\ ruling.permitted = permits(parse(ruling.patterns), target)
    <3>1. target \in Addresses
      BY <2>2 DEF PathHolds, FrontHolds, Served
    <3>2. patterns \in Seq(Seq(Nat))
      BY <2>2, PathAssumption
    <3>3. permits(parse(patterns), target) <=>
            patterns = <<>> \/ \E i \in DOMAIN patterns : Documented(Trim(patterns[i]), target)
      BY <2>2, <3>1, <3>2, ListAsDocumented
    <3> QED
      BY <2>2, <3>3
  <2> QED
    BY <2>1, <2>2 DEF Judged
<1> QED
  BY <1>1, <1>2 DEF AllowedAsDocumented

-----------------------------------------------------------------------------
(* Who is refused, and why.                                                *)

\* What a handshake of n bytes says of its lengths.
LEMMA RequestFacts ==
  ASSUME FrontHolds, NEW n \in 0 .. Len(script.bytes), SocksRequest(n)
  PROVE  LET b == script.bytes
             g == GreetingLen
             r == RequestAt
         IN
         /\ b \in Seq(Nat) /\ Len(b) \in Nat /\ b[2] \in Nat /\ b[2] >= 1
         /\ g \in Nat /\ g = 2 + b[2] /\ r \in Nat /\ g <= r /\ r + 4 <= n
         /\ b[1] = 5 /\ b[r + 1] = 5 /\ b[r + 2] = 1
         /\ creds => LogsIn(g) /\ r = g + 3 + Len(User) + Len(Pass)
         /\ \E i \in 3 .. g : b[i] = required_method
         /\ \/ b[r + 4] = KIND_V4 /\ n = r + 4 + V4_LEN + 1
            \/ b[r + 4] = KIND_V6 /\ n = r + 4 + V6_LEN + 1
            \/ b[r + 4] = KIND_DOMAIN /\ b[r + 5] \in Nat /\ b[r + 5] >= 1 /\ n = r + 5 + b[r + 5] + 1
<1> DEFINE b == script.bytes
           g == GreetingLen
           r == RequestAt
           src == SubSeq(b, r + 4, n)
           addr == decode(src)
<1>1. b \in Seq(Nat) /\ Len(b) \in Nat /\ n \in Nat /\ n <= Len(b) /\ Len(User) \in Nat /\ Len(Pass) \in Nat
  BY LenProperties, FrontendAssumption DEF FrontHolds
<1>2. /\ n >= 2 /\ n >= r + 4 /\ b[1] = 5 /\ \E i \in 3 .. g : b[i] = required_method
      /\ creds => LogsIn(g)
      /\ b[r + 1] = 5 /\ b[r + 2] = 1 /\ ~IsError(addr) /\ encode(addr) = src
      /\ addr.kind = KIND_DOMAIN => validate_domain(addr.host)
  BY Zenon DEF SocksRequest
<1>3. g = 2 + b[2] /\ (creds => r = g + (3 + Len(User) + Len(Pass))) /\ (~creds => r = g + 0)
  BY DEF GreetingLen, RequestAt
<1> HIDE DEF b, g, r, src, addr
<1>4. b[2] \in Nat
  <2>1. 2 \in 1 .. Len(b)
    BY <1>1, <1>2
  <2> QED
    BY <1>1, <2>1, ElementOfSeq
<1>5. g \in Nat /\ b[2] >= 1
  <2>1. g \in Nat
    BY <1>3, <1>4
  <2>2. PICK i \in 3 .. g : b[i] = required_method
    BY <1>2
  <2> QED
    BY <1>3, <1>4, <2>1, <2>2
<1>6. r \in Nat /\ g <= r
  <2>1. CASE creds
    <3>1. r = g + (3 + Len(User) + Len(Pass))
      BY <1>3, <2>1
    <3> QED
      BY <1>1, <1>5, <3>1
  <2>2. CASE ~creds
    <3>1. r = g + 0
      BY <1>3, <2>2
    <3> QED
      BY <1>5, <3>1
  <2> QED
    BY <2>1, <2>2
<1>7. creds => r = g + 3 + Len(User) + Len(Pass)
  <2>1. g + (3 + Len(User) + Len(Pass)) = g + 3 + Len(User) + Len(Pass)
    BY <1>1, <1>5
  <2> QED
    BY <1>3, <2>1
<1>8. /\ src \in Seq(Nat) /\ Len(src) = n - (r + 4) + 1
      /\ \A i \in 1 .. n - (r + 4) + 1 : src[i] = b[r + 4 + i - 1]
  <2>1. r + 4 \in Nat \ {0} /\ n \in Nat /\ n <= Len(b) /\ r + 4 <= n + 1
    BY <1>1, <1>2, <1>6
  <2> QED
    BY <1>1, <2>1, Cuts DEF src
<1>9. addr \in Addresses
  BY <1>2, <1>8, DecodedIsAddress DEF addr
<1>10. /\ src[1] = addr.kind
       /\ addr.kind = KIND_V4 => Len(src) = V4_LEN + 2
       /\ addr.kind = KIND_V6 => Len(src) = V6_LEN + 2
       /\ addr.kind = KIND_DOMAIN => src[2] >= 1 /\ Len(src) = src[2] + 3 /\ src[2] \in Nat
  BY <1>2, <1>9, EncodedLen
<1>11. addr.kind \in {KIND_V4, KIND_V6, KIND_DOMAIN}
  BY <1>9 DEF Addresses
<1>12. src[1] = b[r + 4]
  <2>1. 1 \in 1 .. n - (r + 4) + 1 /\ r + 4 + 1 - 1 = r + 4
    BY <1>1, <1>2, <1>6
  <2> QED
    BY <1>8, <2>1
<1>13. V4_LEN \in Nat /\ V6_LEN \in Nat
  BY AddrAssumption
<1>15. ASSUME NEW m \in Nat, n - (r + 4) + 1 = m PROVE n = r + 3 + m
  <2>1. n \in Nat /\ r \in Nat
    BY <1>1, <1>6
  <2> QED
    BY <1>15, <2>1
<1>14. \/ b[r + 4] = KIND_V4 /\ n = r + 4 + V4_LEN + 1
       \/ b[r + 4] = KIND_V6 /\ n = r + 4 + V6_LEN + 1
       \/ b[r + 4] = KIND_DOMAIN /\ b[r + 5] \in Nat /\ b[r + 5] >= 1 /\ n = r + 5 + b[r + 5] + 1
  <2>1. CASE addr.kind = KIND_V4
    <3>1. n - (r + 4) + 1 = V4_LEN + 2 /\ V4_LEN + 2 \in Nat
      BY <1>8, <1>10, <1>13, <2>1
    <3>2. n = r + 3 + (V4_LEN + 2)
      BY <1>15, <3>1
    <3>3. n = r + 4 + V4_LEN + 1
      BY <1>6, <1>13, <3>2
    <3> QED
      BY <1>10, <1>12, <2>1, <3>3
  <2>2. CASE addr.kind = KIND_V6
    <3>1. n - (r + 4) + 1 = V6_LEN + 2 /\ V6_LEN + 2 \in Nat
      BY <1>8, <1>10, <1>13, <2>2
    <3>2. n = r + 3 + (V6_LEN + 2)
      BY <1>15, <3>1
    <3>3. n = r + 4 + V6_LEN + 1
      BY <1>6, <1>13, <3>2
    <3> QED
      BY <1>10, <1>12, <2>2, <3>3
  <2>3. CASE addr.kind = KIND_DOMAIN
    <3>1. src[2] \in Nat /\ src[2] >= 1 /\ n - (r + 4) + 1 = src[2] + 3
      BY <1>8, <1>10, <2>3
    <3>2. 2 \in 1 .. n - (r + 4) + 1 /\ r + 4 + 2 - 1 = r + 5
      BY <1>1, <1>6, <3>1
    <3>3. src[2] = b[r + 5]
      BY <1>8, <3>2
    <3>5. n = r + 3 + (src[2] + 3)
      <4>1. src[2] + 3 \in Nat
        BY <3>1
      <4> QED
        BY <1>15, <3>1, <4>1
    <3>4. n = r + 5 + src[2] + 1
      <4>1. r \in Nat /\ src[2] \in Nat
        BY <1>6, <3>1
      <4> QED
        BY <3>5, <4>1
    <3> QED
      BY <1>10, <1>12, <2>3, <3>1, <3>3, <3>4
  <2> QED
    BY <1>11, <2>1, <2>2, <2>3
<1> QED
  BY <1>1, <1>2, <1>3, <1>4, <1>5, <1>6, <1>7, <1>14, Zenon DEF b, g, r

\* The bytes of the script that are read are no handshake that may be served.
NotServable == \A n \in 0 .. Len(script.bytes) : ~SocksRequest(n)

\* A greeting of another version, or without methods.
LEMMA RefusedGreeting ==
  ASSUME FrontHolds, ReadHolds, Greeting, pc' \in {"closed", "failed"}
  PROVE  NotServable
<1> SUFFICES ASSUME NEW n \in 0 .. Len(script.bytes), SocksRequest(n) PROVE FALSE
  BY DEF NotServable
<1>1. Reading("greeting") /\ rd = 0 /\ want = 2
  <2>1. Reading("greeting") /\ pc = "greeting"
    BY DEF Greeting, Reading
  <2> QED
    BY <2>1 DEF FrontHolds, ReadHolds, SocksHolds, SocksSteps
<1>2. Got[1] = script.bytes[1] /\ Got[2] = script.bytes[2]
  <2>1. \A i \in 1 .. 2 : Got[i] = script.bytes[0 + i]
    BY <1>1, GotBytes
  <2> QED
    BY <2>1
<1>3. Got[1] # 5 \/ Got[2] = 0
  BY DEF Greeting, Next_
<1>4. script.bytes[1] = 5 /\ script.bytes[2] >= 1 /\ script.bytes[2] \in Nat
  BY RequestFacts
<1> QED
  BY <1>2, <1>3, <1>4

\* Methods without the one that is required.
LEMMA RefusedMethods ==
  ASSUME FrontHolds, ReadHolds, Methods, pc' \in {"closed", "failed"}
  PROVE  NotServable
<1> SUFFICES ASSUME NEW n \in 0 .. Len(script.bytes), SocksRequest(n) PROVE FALSE
  BY DEF NotServable
<1>1. Reading("methods") /\ rd = 2 /\ want = script.bytes[2]
  <2>1. Reading("methods") /\ pc = "methods"
    BY DEF Methods, Reading
  <2> QED
    BY <2>1 DEF ReadHolds, SocksHolds, SocksSteps
<1>2. Len(Got) = want /\ Got \in Seq(Nat) /\ \A i \in 1 .. want : Got[i] = script.bytes[2 + i]
  BY <1>1, GotBytes
<1>3. required_method \notin Range(Got)
  BY DEF Methods, Next_
<1>4. /\ GreetingLen \in Nat /\ GreetingLen = 2 + script.bytes[2] /\ script.bytes[2] \in Nat
      /\ \E i \in 3 .. GreetingLen : script.bytes[i] = required_method
  BY RequestFacts
<1>5. PICK i \in 3 .. GreetingLen : script.bytes[i] = required_method
  BY <1>4
<1>6. i - 2 \in 1 .. want /\ 2 + (i - 2) = i
  BY <1>1, <1>4
<1>7. Got[i - 2] = required_method /\ i - 2 \in DOMAIN Got
  BY <1>2, <1>5, <1>6, LenProperties
<1> QED
  BY <1>3, <1>7 DEF Range

\* A sub-negotiation of another version.
LEMMA RefusedAuth ==
  ASSUME FrontHolds, ReadHolds, Auth, pc' \in {"closed", "failed"}
  PROVE  NotServable
<1> SUFFICES ASSUME NEW n \in 0 .. Len(script.bytes), SocksRequest(n) PROVE FALSE
  BY DEF NotServable
<1>1. Reading("auth") /\ creds /\ rd = GreetingLen /\ want = 2
  <2>1. Reading("auth") /\ pc = "auth"
    BY DEF Auth, Reading
  <2> QED
    BY <2>1 DEF FrontHolds, ReadHolds, SocksHolds, SocksSteps
<1>2. Got[1] = script.bytes[GreetingLen + 1]
  <2>1. \A i \in 1 .. 2 : Got[i] = script.bytes[rd + i]
    BY <1>1, GotBytes
  <2>2. Got[1] = script.bytes[rd + 1]
    BY <2>1
  <2> QED
    BY <1>1, <2>2
<1>3. Got[1] # 1
  BY DEF Auth, Next_
<1>4. LogsIn(GreetingLen)
  BY <1>1, RequestFacts
<1> QED
  BY <1>2, <1>3, <1>4 DEF LogsIn

\* What a handshake says of the bytes of its credentials.
LEMMA CredentialBytes ==
  ASSUME FrontHolds, NEW n \in 0 .. Len(script.bytes), SocksRequest(n), creds
  PROVE  LET b == script.bytes
             g == GreetingLen
             u == b[g + 2]
             p == b[g + 3 + u]
         IN
         /\ b[g + 1] = 1 /\ u \in Nat /\ u = Len(User) /\ SubSeq(b, g + 3, g + 2 + u) = User
         /\ p \in Nat /\ p = Len(Pass) /\ SubSeq(b, g + 3 + u + 1, g + 3 + u + p) = Pass
         /\ RequestAt = g + 3 + u + p
<1> DEFINE b == script.bytes
           g == GreetingLen
           u == Len(User)
           p == Len(Pass)
<1>1. g \in Nat /\ LogsIn(g) /\ RequestAt = g + 3 + Len(User) + Len(Pass)
  BY RequestFacts
<1>2. u \in Nat /\ p \in Nat
  BY LenProperties, FrontendAssumption
<1>3. /\ b[g + 1] = 1 /\ b[g + 2] = u /\ SubSeq(b, g + 3, g + 2 + u) = User
      /\ b[g + 2 + u + 1] = p /\ SubSeq(b, g + 2 + u + 2, g + 2 + u + 1 + p) = Pass
  BY <1>1, Zenon DEF LogsIn
<1> HIDE DEF b, g, u, p
<1>4. g + 2 + u + 1 = g + 3 + u /\ g + 2 + u + 2 = g + 3 + u + 1 /\ g + 2 + u + 1 + p = g + 3 + u + p
  <2>1. g \in Nat
    BY <1>1 DEF g
  <2> QED
    BY <1>2, <2>1
<1>5. b[g + 3 + u] = p /\ SubSeq(b, g + 3 + u + 1, g + 3 + u + p) = Pass
  BY <1>3, <1>4
<1>6. RequestAt = g + 3 + u + p
  BY <1>1 DEF g, u, p
<1> QED
  BY <1>2, <1>3, <1>5, <1>6 DEF b, g, u, p

\* Other credentials.
LEMMA RefusedPass ==
  ASSUME FrontHolds, ReadHolds, AuthPass, pc' \in {"closed", "failed"}
  PROVE  NotServable
<1> SUFFICES ASSUME NEW n \in 0 .. Len(script.bytes), SocksRequest(n) PROVE FALSE
  BY DEF NotServable
<1> DEFINE b == script.bytes
           g == GreetingLen
           u == b[g + 2]
           p == b[g + 3 + u]
<1>1. /\ Reading("pass") /\ creds /\ rd = g + 3 + u /\ want = p
      /\ held = SubSeq(b, g + 3, g + 2 + u)
  <2>1. Reading("pass") /\ pc = "pass"
    BY DEF AuthPass, Reading
  <2> QED
    BY <2>1 DEF ReadHolds, SocksHolds, SocksSteps
<1>2. Got = SubSeq(b, rd + 1, rd + want)
  BY DEF Got
<1>3. ~(held = User /\ Got = Pass)
  BY DEF AuthPass, Next_
<1>4. SubSeq(b, g + 3, g + 2 + u) = User /\ SubSeq(b, g + 3 + u + 1, g + 3 + u + p) = Pass
  BY <1>1, CredentialBytes
<1> QED
  BY <1>1, <1>2, <1>3, <1>4

\* Another version, or another command than CONNECT.
LEMMA RefusedRequest ==
  ASSUME FrontHolds, ReadHolds, Request, pc' \in {"closed", "failed"}
  PROVE  NotServable
<1> SUFFICES ASSUME NEW n \in 0 .. Len(script.bytes), SocksRequest(n) PROVE FALSE
  BY DEF NotServable
<1>1. Reading("request") /\ rd = RequestAt /\ want = 3
  <2>1. Reading("request") /\ pc = "request"
    BY DEF Request, Reading
  <2> QED
    BY <2>1 DEF FrontHolds, ReadHolds, SocksHolds, SocksSteps
<1>2. Got[1] = script.bytes[RequestAt + 1] /\ Got[2] = script.bytes[RequestAt + 2]
  <2>1. \A i \in 1 .. 3 : Got[i] = script.bytes[rd + i]
    BY <1>1, GotBytes
  <2>2. Got[1] = script.bytes[rd + 1] /\ Got[2] = script.bytes[rd + 2]
    BY <2>1
  <2> QED
    BY <1>1, <2>2
<1>3. Got[1] # 5 \/ Got[2] # 1
  BY DEF Request, Next_
<1>4. script.bytes[RequestAt + 1] = 5 /\ script.bytes[RequestAt + 2] = 1
  BY RequestFacts
<1> QED
  BY <1>2, <1>3, <1>4

\* A kind of address that does not exist.
LEMMA RefusedKind ==
  ASSUME FrontHolds, ReadHolds, AddrType, pc' \in {"closed", "failed"}
  PROVE  NotServable
<1> SUFFICES ASSUME NEW n \in 0 .. Len(script.bytes), SocksRequest(n) PROVE FALSE
  BY DEF NotServable
<1>1. Reading("atyp") /\ rd = RequestAt + 3 /\ want = 1
  <2>1. Reading("atyp") /\ pc = "atyp"
    BY DEF AddrType, Reading
  <2> QED
    BY <2>1 DEF FrontHolds, ReadHolds, SocksHolds, SocksSteps
<1>2. Got[1] = script.bytes[RequestAt + 4]
  <2>1. \A i \in 1 .. 1 : Got[i] = script.bytes[rd + i]
    BY <1>1, GotBytes
  <2>2. Got[1] = script.bytes[rd + 1]
    BY <2>1
  <2>3. rd + 1 = RequestAt + 4
    <3>1. RequestAt \in Nat
      BY RequestFacts
    <3> QED
      BY <1>1, <3>1
  <2> QED
    BY <2>2, <2>3
<1>3. Got[1] \notin {KIND_V4, KIND_V6, KIND_DOMAIN}
  BY DEF AddrType, Next_, KIND_V4, KIND_V6, KIND_DOMAIN
<1>4. script.bytes[RequestAt + 4] \in {KIND_V4, KIND_V6, KIND_DOMAIN}
  BY RequestFacts
<1> QED
  BY <1>2, <1>3, <1>4

\* An empty name.
LEMMA RefusedLength ==
  ASSUME FrontHolds, ReadHolds, NameLength, pc' \in {"closed", "failed"}
  PROVE  NotServable
<1> SUFFICES ASSUME NEW n \in 0 .. Len(script.bytes), SocksRequest(n) PROVE FALSE
  BY DEF NotServable
<1> DEFINE r == RequestAt
<1>1. Reading("length") /\ rd = r + 3 + 1 /\ script.bytes[rd] = KIND_DOMAIN /\ want = 1
  <2>1. Reading("length") /\ pc = "length"
    BY DEF NameLength, Reading
  <2>2. Kinds(r + 3, KIND_DOMAIN, 1)
    BY <2>1 DEF ReadHolds, SocksHolds, SocksSteps
  <2> QED
    BY <2>1, <2>2 DEF Kinds
<1>2. r \in Nat
  BY RequestFacts
<1> HIDE DEF r
<1>3. rd = r + 4 /\ rd + 1 = r + 5
  BY <1>1, <1>2
<1>4. Got[1] = script.bytes[r + 5]
  <2>1. \A i \in 1 .. 1 : Got[i] = script.bytes[rd + i]
    BY <1>1, GotBytes
  <2>2. Got[1] = script.bytes[rd + 1]
    BY <2>1
  <2> QED
    BY <1>3, <2>2
<1>5. Got[1] = 0
  BY DEF NameLength, Next_
<1>6. script.bytes[r + 4] = KIND_DOMAIN => script.bytes[r + 5] >= 1
  BY RequestFacts DEF r, KIND_V4, KIND_V6, KIND_DOMAIN
<1> QED
  BY <1>1, <1>3, <1>4, <1>5, <1>6

\* Bytes that are no address, or a name that no address may have.
LEMMA RefusedAddress ==
  ASSUME FrontHolds, ReadHolds, Address, pc' \in {"closed", "failed"}
  PROVE  NotServable
<1> SUFFICES ASSUME NEW n \in 0 .. Len(script.bytes), SocksRequest(n) PROVE FALSE
  BY DEF NotServable
<1> DEFINE b == script.bytes
           r == RequestAt
           src == held \o Got
<1>1. Reading("addr")
  BY DEF Address
<1>2. /\ src = SubSeq(b, r + 4, rd')
      /\ \/ b[r + 4] = KIND_V4 /\ rd' = r + 4 + V4_LEN + 1
         \/ b[r + 4] = KIND_V6 /\ rd' = r + 4 + V6_LEN + 1
         \/ b[r + 4] = KIND_DOMAIN /\ rd' = r + 5 + b[r + 5] + 1
  BY <1>1, AddressBytes
<1>3. \/ b[r + 4] = KIND_V4 /\ n = r + 4 + V4_LEN + 1
      \/ b[r + 4] = KIND_V6 /\ n = r + 4 + V6_LEN + 1
      \/ b[r + 4] = KIND_DOMAIN /\ n = r + 5 + b[r + 5] + 1
  BY RequestFacts
<1>4. n = rd'
  BY <1>2, <1>3 DEF KIND_V4, KIND_V6, KIND_DOMAIN
<1>5. IsError(decode(src)) \/ (decode(src).kind = KIND_DOMAIN /\ ~validate_domain(decode(src).host))
  BY DEF Address, Next_
<1>6. /\ ~IsError(decode(SubSeq(b, r + 4, n)))
      /\ decode(SubSeq(b, r + 4, n)).kind = KIND_DOMAIN => validate_domain(decode(SubSeq(b, r + 4, n)).host)
  BY DEF SocksRequest
<1> HIDE DEF b, r, src
<1> QED
  BY <1>2, <1>4, <1>5, <1>6

\* A handshake that may be served is longer than what a read waits for.
LEMMA RefusedEof ==
  ASSUME FrontHolds, ReadHolds, Starves, NEW n \in 0 .. Len(script.bytes), SocksRequest(n)
  PROVE  closed /\ arrived < n
<1> DEFINE b == script.bytes
           g == GreetingLen
           r == RequestAt
           u == b[g + 2]
           p == b[g + 3 + u]
<1>1. /\ pc \in SocksSteps /\ closed /\ arrived - rd < want
      /\ arrived \in Nat /\ rd \in Nat /\ want \in Nat
  <2>1. Len(script.bytes) \in Nat
    BY LenProperties DEF FrontHolds
  <2> QED
    BY <2>1 DEF Starves, Ended, ReadHolds, FrontHolds
<1>2. /\ b[2] \in Nat /\ g \in Nat /\ g = 2 + b[2] /\ r \in Nat /\ g <= r /\ r + 4 <= n
      /\ \/ b[r + 4] = KIND_V4 /\ n = r + 4 + V4_LEN + 1
         \/ b[r + 4] = KIND_V6 /\ n = r + 4 + V6_LEN + 1
         \/ b[r + 4] = KIND_DOMAIN /\ b[r + 5] \in Nat /\ b[r + 5] >= 1 /\ n = r + 5 + b[r + 5] + 1
  BY RequestFacts
<1>3. creds => u \in Nat /\ p \in Nat /\ r = g + 3 + u + p
  BY CredentialBytes
<1>4. /\ pc = "greeting" => rd = 0 /\ want = 2
      /\ pc = "methods" => rd = 2 /\ want = b[2]
      /\ pc = "auth" => rd = g /\ want = 2
      /\ pc = "user" => creds /\ rd = g + 2 /\ want = u + 1
      /\ pc = "pass" => creds /\ rd = g + 3 + u /\ want = p
      /\ pc = "request" => rd = r /\ want = 3
      /\ pc = "atyp" => rd = r + 3 /\ want = 1
      /\ pc = "length" => rd = r + 3 + 1 /\ b[rd] = KIND_DOMAIN /\ want = 1
  BY <1>1 DEF ReadHolds, SocksHolds, FrontHolds, Kinds
<1>5. pc = "addr" =>
        \/ rd = r + 3 + 1 /\ b[rd] = KIND_V4 /\ want = V4_LEN + 1
        \/ rd = r + 3 + 1 /\ b[rd] = KIND_V6 /\ want = V6_LEN + 1
        \/ rd = r + 5 /\ b[rd - 1] = KIND_DOMAIN /\ want = b[rd] + 1
  BY <1>1 DEF ReadHolds, SocksHolds, Kinds
<1>6. V4_LEN \in Nat /\ V6_LEN \in Nat /\ n \in Nat
  <2>1. Len(script.bytes) \in Nat
    BY LenProperties DEF FrontHolds
  <2> QED
    BY <2>1, AddrAssumption
<1> HIDE DEF b, g, r, u, p
<1>7. rd + want <= n
  <2>1. CASE pc = "greeting"
    BY <1>2, <1>4, <1>6, <2>1
  <2>2. CASE pc = "methods"
    BY <1>2, <1>4, <1>6, <2>2
  <2>3. CASE pc = "auth"
    BY <1>2, <1>4, <1>6, <2>3
  <2>4. CASE pc = "user"
    <3>1. u \in Nat /\ p \in Nat /\ r = g + 3 + u + p /\ rd = g + 2 /\ want = u + 1
      BY <1>3, <1>4, <2>4
    <3>2. rd + want <= r
      <4>1. g \in Nat
        BY <1>2
      <4> QED
        BY <3>1, <4>1
    <3>3. r <= n /\ rd + want \in Nat /\ r \in Nat
      BY <1>1, <1>2, <1>6
    <3> QED
      BY <1>6, <3>2, <3>3
  <2>5. CASE pc = "pass"
    <3>1. u \in Nat /\ p \in Nat /\ r = g + 3 + u + p /\ rd = g + 3 + u /\ want = p
      BY <1>3, <1>4, <2>5
    <3>2. rd + want = r
      BY <3>1
    <3>3. r <= n
      BY <1>2, <1>6
    <3> QED
      BY <3>2, <3>3
  <2>6. CASE pc = "request" \/ pc = "atyp"
    BY <1>2, <1>4, <1>6, <2>6
  <2>7. CASE pc = "length"
    <3>1. rd = r + 4 /\ b[r + 4] = KIND_DOMAIN /\ want = 1
      BY <1>2, <1>4, <2>7
    <3>2. b[r + 5] \in Nat /\ b[r + 5] >= 1 /\ n = r + 5 + b[r + 5] + 1
      BY <1>2, <3>1 DEF KIND_V4, KIND_V6, KIND_DOMAIN
    <3> QED
      BY <1>2, <1>6, <3>1, <3>2
  <2>8. CASE pc = "addr"
    <3>1. CASE rd = r + 3 + 1 /\ b[rd] = KIND_V4 /\ want = V4_LEN + 1
      <4>1. rd = r + 4
        BY <1>2, <3>1
      <4>2. n = r + 4 + V4_LEN + 1
        BY <1>2, <3>1, <4>1 DEF KIND_V4, KIND_V6, KIND_DOMAIN
      <4> QED
        BY <1>2, <1>6, <3>1, <4>1, <4>2
    <3>2. CASE rd = r + 3 + 1 /\ b[rd] = KIND_V6 /\ want = V6_LEN + 1
      <4>1. rd = r + 4
        BY <1>2, <3>2
      <4>2. n = r + 4 + V6_LEN + 1
        BY <1>2, <3>2, <4>1 DEF KIND_V4, KIND_V6, KIND_DOMAIN
      <4> QED
        BY <1>2, <1>6, <3>2, <4>1, <4>2
    <3>3. CASE rd = r + 5 /\ b[rd - 1] = KIND_DOMAIN /\ want = b[rd] + 1
      <4>1. rd - 1 = r + 4
        BY <1>2, <3>3
      <4>2. b[r + 5] \in Nat /\ n = r + 5 + b[r + 5] + 1
        BY <1>2, <3>3, <4>1 DEF KIND_V4, KIND_V6, KIND_DOMAIN
      <4> QED
        BY <1>2, <1>6, <3>3, <4>2
    <3> QED
      BY <1>5, <2>8, <3>1, <3>2, <3>3
  <2> QED
    BY <1>1, <2>1, <2>2, <2>3, <2>4, <2>5, <2>6, <2>7, <2>8 DEF SocksSteps
<1>8. arrived < n
  BY <1>1, <1>6, <1>7
<1> QED
  BY <1>1, <1>8

\* A head that is refused, or that is too long.
LEMMA RefusedHead ==
  ASSUME FrontHolds, ReadHolds, Scan, pc' \in {"closed", "failed"},
         NEW n \in 0 .. Len(script.bytes), HttpRequest(n)
  PROVE  FALSE
<1>1. /\ pc = "scan" /\ rd \in Nat /\ scanned \in Nat /\ scanned <= rd
      /\ \A k \in 4 .. scanned + 3 : ~EndsHead(k)
  BY BufIsRead DEF Scan, ReadHolds, ScanHolds
<1>2. /\ Separators(scanned) \subseteq Nat
      /\ \A m \in Separators(scanned) : m \in 0 .. rd - 4 /\ EndsHead(m + 4)
      /\ \A m \in scanned .. rd - 4 : EndsHead(m + 4) => m \in Separators(scanned)
  BY <1>1, SeparatorsAreHeads
<1>3. n \in Nat /\ MAX_HEAD_BYTES \in Nat
  <2>1. Len(script.bytes) \in Nat
    BY LenProperties DEF FrontHolds
  <2> QED
    BY <2>1, FrontendAssumption
<1>4. /\ EndsHead(n) /\ \A k \in 4 .. n - 1 : ~EndsHead(k)
      /\ n <= MAX_HEAD_BYTES /\ Refusal(SubSeq(script.bytes, 1, n)) = 0 /\ n >= 4
  BY DEF HttpRequest, EndsHead
<1>5. n <= rd => n - 4 \in Separators(scanned)
  <2> SUFFICES ASSUME n <= rd PROVE n - 4 \in Separators(scanned)
    OBVIOUS
  <2>1. ~(n \in 4 .. scanned + 3)
    BY <1>1, <1>4
  <2>2. n - 4 \in scanned .. rd - 4 /\ n - 4 + 4 = n
    BY <1>1, <1>3, <1>4, <2>1
  <2> QED
    BY <1>2, <1>4, <2>2
<1>6. CASE Separators(scanned) # {}
  <2> DEFINE m == Min(Separators(scanned))
             end == m + 4
             head == SubSeq(buf, 1, end)
  <2>1. m \in Separators(scanned) /\ \A y \in Separators(scanned) : m <= y
    BY <1>2, <1>6, Smallest
  <2>2. Head_(end)
    BY <1>6, Zenon DEF Scan
  <2> HIDE DEF m
  <2>3. m \in Nat /\ end \in 0 .. rd /\ end >= 4 /\ EndsHead(end)
    <3>1. m \in 0 .. rd - 4 /\ EndsHead(m + 4)
      BY <1>2, <2>1
    <3> QED
      BY <1>1, <3>1
  <2>4. end = n
    <3>1. ~(end < n)
      <4>1. end < n => end \in 4 .. n - 1
        BY <1>1, <1>3, <2>3
      <4> QED
        BY <1>4, <2>3, <4>1
    <3>2. ~(n < end)
      <4> SUFFICES ASSUME n < end PROVE FALSE
        OBVIOUS
      <4>1. n <= rd /\ ~(m <= n - 4)
        BY <1>1, <1>3, <2>3
      <4> QED
        BY <1>5, <2>1, <4>1
    <3> QED
      BY <1>1, <1>3, <2>3, <3>1, <3>2
  <2> HIDE DEF end
  <2>5. end > MAX_HEAD_BYTES \/ Refusal(head) # 0
    BY <2>2, Zenon DEF Head_
  <2>6. head = SubSeq(script.bytes, 1, n)
    BY <2>3, <2>4, BufIsRead
  <2>7. end <= MAX_HEAD_BYTES
    BY <1>4, <2>4
  <2>8. ~(end > MAX_HEAD_BYTES)
    BY <1>3, <2>4, <2>7
  <2> QED
    BY <1>4, <2>5, <2>6, <2>8
<1>7. CASE Separators(scanned) = {}
  <2>1. rd > MAX_HEAD_BYTES
    BY <1>7, Zenon DEF Scan
  <2>2. n <= rd
    BY <1>1, <1>3, <1>4, <2>1
  <2> QED
    BY <1>5, <1>7, <2>2
<1> QED
  BY <1>6, <1>7

\* A head that may be served is longer than what the client closed after.
LEMMA RefusedHeadless ==
  ASSUME FrontHolds, ReadHolds, ReadEof, NEW n \in 0 .. Len(script.bytes), HttpRequest(n)
  PROVE  closed /\ arrived < n
<1>1. pc = "read" /\ closed /\ arrived = rd /\ ScanHolds
  BY DEF ReadEof, ReadHolds
<1>2. rd \in Nat /\ scanned \in Nat /\ n \in Nat
  <2>1. Len(script.bytes) \in Nat
    BY LenProperties DEF FrontHolds
  <2> QED
    BY <2>1, BufIsRead
<1>3. rd <= scanned + 3 /\ \A k \in 4 .. scanned + 3 : ~EndsHead(k)
  BY <1>1 DEF ScanHolds
<1>4. EndsHead(n) /\ n >= 4
  BY DEF HttpRequest, EndsHead
<1>5. ~(n <= rd)
  <2>1. n <= rd => n \in 4 .. scanned + 3
    BY <1>2, <1>3, <1>4
  <2> QED
    BY <1>3, <1>4, <2>1
<1> QED
  BY <1>1, <1>2, <1>5

\* The reasons, and what holds of a target and of the search through the whole connection.
EndHolds ==
  /\ scanned <= rd
  /\ target = NoTarget \/ target \in Addresses
  /\ pc \in {"closed", "failed"} /\ target = NoTarget =>
       \A n \in 0 .. Len(script.bytes) : IsRequest(n) => closed /\ arrived < n

\* A refusal while the request is read.
LEMMA RefusalsHaveReason ==
  ASSUME FrontHolds, ReadHolds, Socks5 \/ HttpConnect, pc' \in {"closed", "failed"},
         NEW n \in 0 .. Len(script.bytes), IsRequest(n)
  PROVE  closed /\ arrived < n
<1>1. CASE Socks5
  <2>1. proto = "socks5"
    BY <1>1 DEF Socks5, Greeting, Methods, Auth, AuthUser, AuthPass, Request, AddrType, NameLength,
                Address, Starves, Reading
  <2>2. SocksRequest(n)
    BY <2>1 DEF IsRequest
  <2>3. ~AuthUser
    BY DEF AuthUser, Next_
  <2>4. NotServable \/ Starves
    BY <1>1, <2>3, RefusedGreeting, RefusedMethods, RefusedAuth, RefusedPass, RefusedRequest, RefusedKind,
       RefusedLength, RefusedAddress DEF Socks5
  <2> QED
    BY <2>2, <2>4, RefusedEof DEF NotServable
<1>2. CASE HttpConnect
  <2>1. pc \in {"scan", "read"}
    BY <1>2 DEF HttpConnect, Scan, ReadChunk, ReadEof
  <2>2. HttpRequest(n)
    BY <2>1 DEF IsRequest, ReadHolds
  <2>3. ~ReadChunk
    BY DEF ReadChunk
  <2> QED
    BY <1>2, <2>2, <2>3, RefusedHead, RefusedHeadless DEF HttpConnect
<1> QED
  BY <1>1, <1>2

\* What is an address is some target.
LEMMA AddressIsTarget == NoTarget \notin Addresses
BY DEF NoTarget, Addresses, KIND_V4, KIND_V6, KIND_DOMAIN

\* The start of a connection.
LEMMA EndStarts == Init => EndHolds
BY DEF Init, FInit, EndHolds

\* The protocol, the credentials and the script are those of the start.
LEMMA ClientStays == [Next]_vars => UNCHANGED <<proto, creds, script>>
BY DEF Next, vars, Application, Sockets, Serves, Dials, DialsInVain, SendsFrame, SendsForeign, Delivers,
       Decodes, Arrives, Closes, Socks5, HttpConnect, DialOk, DialBreaks, Relays, DialFails, Relay,
       UpstreamEnds, Breaks, fvars, client

\* The search for a head never gets beyond what was read.
LEMMA SearchStaysBehind ==
  ASSUME FrontHolds, FrontHolds', ReadHolds, ReadHolds', EndHolds, [Next]_vars
  PROVE  (scanned <= rd)'
<1>1. /\ scanned \in Nat /\ rd \in Nat /\ want \in Nat /\ scanned' \in Nat /\ rd' \in Nat /\ scanned <= rd
      /\ arrived \in Nat
  <2>1. Len(script.bytes) \in Nat /\ Len(script'.bytes) \in Nat
    BY LenProperties DEF FrontHolds
  <2> QED
    BY <2>1 DEF FrontHolds, EndHolds
<1>2. CASE Socks5
  <2>1. scanned' = scanned /\ (rd' = rd \/ rd' = rd + want)
    BY <1>2 DEF Socks5, Unsaid, Greeting, Methods, Auth, AuthUser, AuthPass, Request, AddrType, NameLength,
                Address, Starves, Reading
  <2> QED
    BY <1>1, <2>1
<1>3. CASE Scan
  <2>1. rd' = rd /\ (scanned' = scanned \/ scanned' = IF rd > 3 THEN rd - 3 ELSE 0)
    BY <1>3, Zenon DEF Scan
  <2> QED
    BY <1>1, <2>1
<1>4. CASE ReadChunk
  <2>1. pc' = "scan"
    BY <1>4 DEF ReadChunk
  <2> QED
    BY <2>1 DEF ReadHolds, ScanHolds
<1>5. CASE Relay
  <2>1. scanned' = scanned /\ (rd' = rd \/ (rd' = arrived /\ arrived > rd))
    BY <1>5 DEF Relay, RelayReads, RelayWrites, RelayShuts, RelayShutsDown, RelayDone
  <2> QED
    BY <1>1, <2>1
<1>6. CASE \/ ReadEof \/ DialOk \/ DialBreaks \/ DialFails \/ UpstreamEnds \/ Breaks
           \/ Arrives \/ Closes \/ UNCHANGED fvars
  <2>1. scanned' = scanned /\ rd' = rd
    BY <1>6 DEF ReadEof, DialOk, DialBreaks, Relays, DialFails, UpstreamEnds, Breaks, Arrives, Closes,
                fvars, server
  <2> QED
    BY <1>1, <2>1
<1> QED
  BY <1>2, <1>3, <1>4, <1>5, <1>6
  DEF Next, vars, Application, Sockets, Serves, Dials, DialsInVain, SendsFrame, SendsForeign, Delivers,
      Decodes, HttpConnect

\* Every step keeps the reasons.
LEMMA EndKeeps ==
  ASSUME FrontHolds, FrontHolds', ReadHolds, ReadHolds', EndHolds, [Next]_vars
  PROVE  EndHolds'
<1>1. (scanned <= rd)'
  BY SearchStaysBehind
<1>2. UNCHANGED <<proto, creds, script>>
  BY ClientStays
<1>3. \A n : (IsRequest(n))' <=> IsRequest(n)
  BY <1>2, SameClient
<1>4. CASE Socks5 \/ HttpConnect
  <2>1. UNCHANGED <<arrived, closed>>
    BY <1>4 DEF Socks5, HttpConnect, client
  <2>2. target' = target \/ pc' = "dial"
    <3>1. CASE Socks5
      BY <3>1 DEF Socks5, Greeting, Methods, Auth, AuthUser, AuthPass, Request, AddrType, NameLength,
                  Address, Starves, Quits, Next_
    <3>2. CASE Scan
      BY <3>2, Zenon DEF Scan, Head_
    <3>3. CASE ReadChunk \/ ReadEof
      BY <3>3 DEF ReadChunk, ReadEof
    <3> QED
      BY <1>4, <3>1, <3>2, <3>3 DEF HttpConnect
  <2>3. target' = NoTarget \/ target' \in Addresses
    <3>1. pc' = "dial" => target' \in Addresses
      BY DEF FrontHolds
    <3> QED
      BY <2>2, <3>1 DEF EndHolds
  <2>4. ASSUME pc' \in {"closed", "failed"}, NEW n \in 0 .. Len(script.bytes), IsRequest(n)
        PROVE  closed /\ arrived < n
    BY <1>4, <2>4, RefusalsHaveReason
  <2> QED
    BY <1>1, <1>2, <1>3, <2>1, <2>3, <2>4 DEF EndHolds
<1>5. CASE DialOk \/ DialBreaks \/ DialFails \/ Relay \/ UpstreamEnds
  <2>1. target' = target /\ pc \in {"dial", "relay"}
    BY <1>5 DEF DialOk, DialBreaks, Relays, DialFails, Relay, UpstreamEnds
  <2>2. target' \in Addresses /\ target' # NoTarget
    BY <2>1, AddressIsTarget DEF FrontHolds
  <2> QED
    BY <1>1, <2>2 DEF EndHolds
<1>8. CASE Breaks
  <2>1. target' = target /\ pc' = "broken"
    BY <1>8 DEF Breaks
  <2> QED
    BY <1>1, <2>1 DEF EndHolds
<1>6. CASE Arrives \/ Closes
  <2>1. target' = target /\ pc' = pc /\ pc \notin Ended
    BY <1>6 DEF Arrives, Closes, server
  <2> QED
    BY <1>1, <2>1 DEF EndHolds, Ended
<1>7. CASE UNCHANGED fvars
  <2>1. UNCHANGED <<target, pc, arrived, closed>>
    BY <1>7 DEF fvars, client, server
  <2> QED
    BY <1>1, <1>2, <1>3, <2>1 DEF EndHolds
<1> QED
  BY <1>4, <1>5, <1>6, <1>7, <1>8
  DEF Next, vars, Application, Sockets, Serves, Dials, DialsInVain, SendsFrame, SendsForeign, Delivers,
      Decodes

\* The two halves of the frontend's promise, always.
LEMMA EndsHold == Spec => [](PathHolds /\ ReadHolds /\ EndHolds)
<1>1. Init => PathHolds /\ ReadHolds /\ EndHolds
  BY PathStarts, ReadStarts, EndStarts
<1>2. PathHolds /\ ReadHolds /\ EndHolds /\ [Next]_vars => PathHolds' /\ ReadHolds' /\ EndHolds'
  <2>1. PathHolds => FrontHolds
    BY DEF PathHolds
  <2>2. PathHolds' => FrontHolds'
    BY DEF PathHolds
  <2> QED
    BY <2>1, <2>2, PathKeeps, ReadKeeps, EndKeeps
<1> QED
  BY <1>1, <1>2, PTL DEF Spec

\* A script keeps its meaning, and so does what was said of whom to serve.
LEMMA MeaningStays == MeansIt /\ [Next]_vars => MeansIt'
<1> SUFFICES ASSUME MeansIt, [Next]_vars PROVE MeansIt'
  OBVIOUS
<1>1. UNCHANGED <<proto, creds, script>>
  BY ClientStays
<1>2. (\A n : (IsRequest(n))' <=> IsRequest(n)) /\ (\A n : (Named(n))' = Named(n))
  BY <1>1, SameClient
<1>3. Welcome' <=> Welcome
  BY <1>1 DEF Welcome
<1>4. ASSUME NEW n \in 0 .. Len(script.bytes), IsRequest(n)
      PROVE  n = script.end /\ Named(n) = script.target /\ (creds => script.authed)
  BY <1>4 DEF MeansIt
<1>5. script.target # NoTarget /\ Welcome => \E n \in 0 .. Len(script.bytes) : IsRequest(n)
  BY DEF MeansIt
<1>6. \A n \in 0 .. Len(script'.bytes) :
        (IsRequest(n))' => n = script'.end /\ (Named(n))' = script'.target /\ (creds' => script'.authed)
  BY <1>1, <1>2, <1>4
<1>7. script'.target # NoTarget /\ Welcome' => \E n \in 0 .. Len(script'.bytes) : (IsRequest(n))'
  BY <1>1, <1>2, <1>3, <1>5
<1> QED
  BY <1>6, <1>7, Zenon DEF MeansIt

-----------------------------------------------------------------------------
(* The results.                                                            *)

\* What FramesAsSent says follows from the invariant.
LEMMA ConsistentIsAsSent == PathHolds => FramesAsSent
<1> SUFFICES ASSUME PathHolds, NEW d \in Direction
             PROVE  LET sent == [i \in DOMAIN link[d].sent |-> Carried(link[d].sent[i])] IN
                    /\ IsPrefix(link[d].got, sent)
                    /\ link[d].err => link[d].alien
                    /\ link[d].wire = <<>> /\ IsMore(decode_frame(link[d].buf)) /\ ~link[d].alien =>
                         link[d].buf = <<>> /\ link[d].got = sent
  BY DEF FramesAsSent
<1> DEFINE e == link[d]
           g == Len(e.got)
           n == Len(e.sent)
           sent == [i \in DOMAIN e.sent |-> Carried(e.sent[i])]
<1>1. /\ Consistent(e) /\ e.wire \in Seq(Nat) /\ e.buf \in Seq(Nat)
      /\ e.sent \in Seq(Traffic) /\ e.got \in Seq(Arrivals) /\ g \in Nat /\ n \in Nat /\ g <= n
  BY ConsistentTypes DEF PathHolds
<1>2. DOMAIN e.sent = 1 .. n /\ DOMAIN e.got = 1 .. g /\ e.got \in [1 .. g -> Arrivals]
  BY <1>1, LenProperties
<1>3. sent \in Seq(Arrivals) /\ Len(sent) = n /\ \A i \in 1 .. n : sent[i] = Carried(e.sent[i])
  <2>1. \A i \in 1 .. n : e.sent[i] \in Traffic
    BY <1>1, ElementOfSeq
  <2>2. sent \in [1 .. n -> Arrivals]
    BY <1>2, <2>1 DEF Arrivals
  <2>3. sent \in Seq(Arrivals)
    <3> HIDE DEF sent
    <3>1. sent \in UNION {[1 .. k -> Arrivals] : k \in Nat}
      BY <1>1, <2>2
    <3> QED
      BY <3>1, SeqDef
  <2>4. DOMAIN sent = 1 .. Len(sent) /\ DOMAIN sent = 1 .. n /\ Len(sent) \in Nat
    BY <1>2, <2>3, LenProperties
  <2>5. Len(sent) = n
    BY <1>1, <2>4
  <2> QED
    BY <1>2, <2>3, <2>5
<1>4. \A i \in 1 .. g : e.got[i] = Carried(e.sent[i])
  BY <1>1 DEF Consistent
<1> HIDE DEF sent
<1>5. IsPrefix(e.got, sent)
  <2>1. \A i \in 1 .. g : e.got[i] = sent[i] /\ i \in 1 .. n
    BY <1>1, <1>3, <1>4
  <2>2. e.got = SubSeq(sent, 1, g)
    <3>1. \A i \in 1 .. g : sent[i] \in Arrivals
      BY <1>3, <2>1, ElementOfSeq
    <3>2. /\ SubSeq(sent, 1, g) \in Seq(Arrivals)
          /\ Len(SubSeq(sent, 1, g)) = IF 1 <= g THEN g - 1 + 1 ELSE 0
          /\ \A i \in 1 .. g - 1 + 1 : SubSeq(sent, 1, g)[i] = sent[1 + i - 1]
      BY <1>1, <3>1, SubSeqProperties
    <3>3. Len(SubSeq(sent, 1, g)) = g /\ \A i \in 1 .. g : SubSeq(sent, 1, g)[i] = e.got[i]
      BY <1>1, <2>1, <3>2
    <3> QED
      BY <1>1, <3>2, <3>3, SeqEqual
  <2> QED
    BY <1>1, <1>3, <2>2 DEF IsPrefix
<1>6. ASSUME e.wire = <<>>, IsMore(decode_frame(e.buf)), ~e.alien
      PROVE  e.buf = <<>> /\ e.got = sent
  <2>1. PICK rests \in [g .. n -> Seq(Nat)] : Chain(e, rests)
    BY <1>1 DEF Consistent, Chained
  <2>2. rests[g] = e.buf
    BY <1>1, <1>6, <2>1, ConcatEmptySeq DEF Chain
  <2>3. g = n
    <3> SUFFICES ASSUME g < n PROVE FALSE
      BY <1>1
    <3>1. g \in g .. n - 1 /\ g + 1 \in g .. n /\ g + 1 \in 1 .. n
      <4>1. g \in Nat /\ n \in Nat
        BY <1>1
      <4> QED
        BY <4>1
    <3>2. e.buf = encode_frame(e.sent[g + 1]) \o rests[g + 1]
      BY <2>1, <2>2, <3>1 DEF Chain
    <3>3. e.sent[g + 1] \in Traffic /\ rests[g + 1] \in Seq(Nat)
      BY <1>1, <2>1, <3>1, ElementOfSeq
    <3>4. decode_frame(e.buf) = [frame |-> Carried(e.sent[g + 1]), rest |-> rests[g + 1]]
      BY <3>2, <3>3, TrafficIsSendable, FrameSurvives DEF Decoded
    <3>5. "more" \in DOMAIN [frame |-> Carried(e.sent[g + 1]), rest |-> rests[g + 1]]
      BY <1>6, <3>4 DEF IsMore
    <3> QED
      BY <3>5
  <2>4. e.buf = <<>>
    BY <1>6, <2>1, <2>2, <2>3 DEF Chain
  <2>5. e.got = sent
    <3>1. \A i \in 1 .. g : e.got[i] = sent[i]
      BY <1>3, <1>4, <2>3
    <3>2. Len(e.got) = Len(sent)
      BY <1>3, <2>3
    <3> QED
      BY <1>1, <1>3, <3>1, <3>2, SeqEqual
  <2> QED
    BY <2>4, <2>5
<1> QED
  BY <1>1, <1>5, <1>6 DEF Consistent, sent

\* Whatever the frames, their number and the pieces in which the channel delivers
\* their bytes: what the reader of frame.rs makes of them is what the writer was given,
\* in order, and it fails on bytes that no writer wrote only.
THEOREM FramesComeOutAsSent == Spec => []FramesAsSent
<1>1. Init => PathHolds
  BY PathStarts
<1>2. PathHolds /\ [Next]_vars => PathHolds'
  BY PathKeeps
<1>3. PathHolds => FramesAsSent
  BY ConsistentIsAsSent
<1> QED
  BY <1>1, <1>2, <1>3, PTL DEF Spec

\* The helper connects to the address that the frontend dialled, and to none before
\* that: two parsers, the codec of addresses and that of frames change nothing in it.
THEOREM EgressIsTheTarget == Spec => [](egress # NoTarget => egress = target /\ Served)
<1>1. Init => PathHolds
  BY PathStarts
<1>2. PathHolds /\ [Next]_vars => PathHolds'
  BY PathKeeps
<1>3. PathHolds => (egress # NoTarget => egress = target /\ Served)
  BY DEF PathHolds
<1> QED
  BY <1>1, <1>2, <1>3, PTL DEF Spec

\* The helper connects to nothing that the allow list it was started with refuses,
\* whatever the list, the applications and the cuts of the channel.
THEOREM EgressIsAllowed ==
  Spec => [](egress # NoTarget => ruling.permitted /\ permits(parse(ruling.patterns), egress))
<1>1. Init => PathHolds /\ RulingHolds
  BY PathStarts, RulingStarts
<1>2. PathHolds /\ RulingHolds /\ [Next]_vars => PathHolds' /\ RulingHolds'
  BY PathKeeps, RulingKeeps
<1>3. PathHolds /\ RulingHolds =>
        (egress # NoTarget => ruling.permitted /\ permits(parse(ruling.patterns), egress))
  BY DEF PathHolds, RulingHolds, Allowed
<1> QED
  BY <1>1, <1>2, <1>3, PTL DEF Spec

\* Whatever the allow list, however it is written, and whatever the target: the helper
\* lets through exactly what the documentation of the rules says, and connects to
\* nothing else.
THEOREM AllowListIsAsDocumented == Spec => []AllowedAsDocumented
<1>1. Init => PathHolds /\ RulingHolds /\ Judged
  BY PathStarts, RulingStarts DEF Init, Judged
<1>2. PathHolds /\ RulingHolds /\ Judged /\ [Next]_vars => PathHolds' /\ RulingHolds' /\ Judged'
  BY PathKeeps, RulingKeeps, JudgedKeeps
<1>3. PathHolds /\ RulingHolds /\ Judged => AllowedAsDocumented
  BY JudgedAsDocumented
<1> QED
  BY <1>1, <1>2, <1>3, PTL DEF Spec

\* Whatever the script and wherever its bytes are cut: a target is dialled for a
\* complete request that the bytes begin with, with the credentials that are required
\* and for the target it names, and the upstream gets the bytes behind that request,
\* all that were read, once and in order.
THEOREM RequestsAreServedAsAsked == Spec => []ServedAsAsked
<1>1. FrontHolds /\ ReadHolds => ServedAsAsked
  <2> SUFFICES ASSUME ReadHolds, target # NoTarget
               PROVE  \E n \in 0 .. rd :
                        /\ IsRequest(n) /\ target = Named(n)
                        /\ Served => up \o held = SubSeq(script.bytes, n + 1, rd)
    BY DEF ServedAsAsked
  <2> QED
    BY DEF ReadHolds, AskHolds, Given
<1> QED
  BY <1>1, ReadsHold, PTL

\* The same for scripts that say where their request ends and what it asks for, as the
\* run's scripts do: what follows the request is the upstream's, to the byte.
THEOREM PayloadIsTheRest ==
  MeansIt /\ Spec =>
    [](/\ PayloadIsExact
       /\ target # NoTarget => target = script.target /\ (creds => script.authed) /\ rd >= script.end)
<1>1. FrontHolds /\ ReadHolds /\ MeansIt =>
        /\ PayloadIsExact
        /\ target # NoTarget => target = script.target /\ (creds => script.authed) /\ rd >= script.end
  <2> SUFFICES ASSUME FrontHolds, ReadHolds, MeansIt, target # NoTarget \/ Served
               PROVE  /\ target = script.target /\ (creds => script.authed) /\ rd >= script.end
                      /\ Served => PayloadIsExact
    BY DEF PayloadIsExact
  <2>1. PICK n \in 0 .. rd :
          /\ IsRequest(n) /\ target = Named(n)
          /\ Served => Given(n)
    BY DEF ReadHolds, AskHolds
  <2>2. n \in 0 .. Len(script.bytes) /\ n <= rd
    <3>1. Len(script.bytes) \in Nat
      BY LenProperties DEF FrontHolds
    <3> QED
      BY <2>1, <3>1 DEF FrontHolds
  <2>3. n = script.end /\ Named(n) = script.target /\ (creds => script.authed)
    BY <2>1, <2>2 DEF MeansIt
  <2>4. ASSUME Served PROVE PayloadIsExact
    <3>1. up \in Seq(Nat) /\ up \o held = SubSeq(script.bytes, script.end + 1, rd)
      BY <2>1, <2>3, <2>4 DEF Given
    <3>2. up \o <<>> = up
      BY <3>1, ConcatEmptySeq
    <3> QED
      BY <3>1, <3>2 DEF PayloadIsExact, FrontHolds
  <2> QED
    BY <2>1, <2>2, <2>3, <2>4
<1>2. Spec => [](FrontHolds /\ ReadHolds)
  BY ReadsHold
<1> QED
  BY <1>1, <1>2, MeaningStays, PTL DEF Spec

\* Nobody with a request that may be served is turned away: an application whose
\* connection ends before a dial wrote no complete request with the credentials that
\* are required, or closed its side before the whole of it had arrived.
THEOREM RefusalsAreDeserved == Spec => []RefusedWithReason
<1>1. PathHolds /\ ReadHolds /\ EndHolds => RefusedWithReason
  <2> SUFFICES ASSUME PathHolds, ReadHolds, EndHolds, pc \in Ended \ {"broken"}, target = NoTarget,
                      NEW n \in 0 .. Len(script.bytes), IsRequest(n)
               PROVE  closed /\ arrived < n
    BY DEF RefusedWithReason
  <2>1. pc # "done"
    BY AddressIsTarget DEF PathHolds, FrontHolds
  <2> QED
    BY <2>1 DEF EndHolds, Ended
<1> QED
  BY <1>1, EndsHold, PTL

\* What a script means is what the connection comes to, in both directions: who is
\* served gets the target that was meant and gave the credentials that are required,
\* who meant one and gave them is served, and the buffers stay within their bounds.
THEOREM ApplicationsAreServedAsMeant == MeansIt /\ Spec => []ServedAsMeant
<1>1. PathHolds /\ ReadHolds /\ EndHolds /\ MeansIt /\ ServedAsAsked /\ RefusedWithReason
        /\ (target # NoTarget => target = script.target /\ (creds => script.authed) /\ rd >= script.end)
        => ServedAsMeant
  <2> SUFFICES ASSUME PathHolds, ReadHolds, EndHolds, MeansIt, ServedAsAsked, RefusedWithReason,
                      target # NoTarget => target = script.target /\ (creds => script.authed) /\ rd >= script.end
               PROVE  ServedAsMeant
    OBVIOUS
  <2>1. FrontHolds /\ (egress # NoTarget => egress = target)
    BY DEF PathHolds
  <2>2. PathInv
    <3>1. pc \in {"read", "scan"} => rd <= MAX_HEAD_BYTES + READ_CHUNK
      <4>1. rd \in Nat /\ MAX_HEAD_BYTES \in Nat /\ READ_CHUNK \in Nat
        BY <2>1, BufIsRead, FrontendAssumption
      <4>2. /\ pc = "read" => rd <= MAX_HEAD_BYTES
            /\ pc = "scan" => rd <= MAX_HEAD_BYTES + READ_CHUNK
        BY DEF ReadHolds, ScanHolds
      <4> QED
        BY <4>1, <4>2
    <3>2. target.kind = KIND_DOMAIN => Len(target.host) < LenMod
      <4>1. CASE target = NoTarget
        BY <4>1 DEF NoTarget, KIND_DOMAIN
      <4>2. CASE target \in Addresses
        <5>1. target.kind = KIND_DOMAIN => Len(target.host) \in 1 .. LenMod - 1
          BY <4>2 DEF Addresses, Encodable, KIND_V4, KIND_V6, KIND_DOMAIN
        <5> QED
          BY <5>1, AddrAssumption
      <4> QED
        BY <4>1, <4>2 DEF EndHolds
    <3>3. arrived \in 0 .. Len(script.bytes) /\ rd \in 0 .. arrived /\ scanned <= rd
      BY <2>1 DEF FrontHolds, EndHolds
    <3> QED
      BY <3>1, <3>2, <3>3 DEF PathInv
  <2>3. ASSUME pc \in Ended \ {"broken"}, target = NoTarget, script.target # NoTarget, Welcome
        PROVE  closed /\ arrived < script.end
    <3>1. PICK n \in 0 .. Len(script.bytes) : IsRequest(n)
      BY <2>3 DEF MeansIt
    <3>2. n = script.end
      BY <3>1 DEF MeansIt
    <3> QED
      BY <2>3, <3>1, <3>2 DEF RefusedWithReason
  <2> QED
    BY <2>1, <2>2, <2>3 DEF ServedAsMeant
<1>2. Spec => []ServedAsAsked
  BY RequestsAreServedAsAsked
<1>3. Spec => []RefusedWithReason
  BY RefusalsAreDeserved
<1>4. MeansIt /\ Spec => [](/\ PayloadIsExact
                            /\ target # NoTarget =>
                                 target = script.target /\ (creds => script.authed) /\ rd >= script.end)
  BY PayloadIsTheRest
<1> QED
  BY <1>1, <1>2, <1>3, <1>4, EndsHold, MeaningStays, PTL DEF Spec

=============================================================================
