-------------------------- MODULE MuxSession_proofs ---------------------------
(***************************************************************************)
(* For any number of requests, channels and breaks, with a helper that is  *)
(* fresh, the old one, or of another version behind each channel: requests *)
(* are opened once, bytes reach the right stream in order, and the two     *)
(* directories agree after the handshake.                                  *)
(***************************************************************************)
EXTENDS MuxSession, SequenceTheorems, FiniteSetTheorems, WellFoundedInduction, TLAPS

-----------------------------------------------------------------------------
(* Queues, and sequences of bytes.                                         *)

\* A function on 1 .. n is a sequence of length n.
LEMMA Made ==
  ASSUME NEW S, NEW n \in Nat, NEW f \in [1 .. n -> S]
  PROVE  f \in Seq(S) /\ Len(f) = n
<1>1. f \in Seq(S)
  BY SeqDef
<1>2. DOMAIN f = 1 .. n /\ DOMAIN f = 1 .. Len(f) /\ Len(f) \in Nat
  BY <1>1, LenProperties
<1> QED
  BY <1>1, <1>2

\* What is queued comes behind what was.
LEMMA Joined ==
  ASSUME NEW S, NEW q \in Seq(S), NEW e \in S
  PROVE  /\ Append(q, e) \in Seq(S) /\ Len(q) \in Nat
         /\ Len(Append(q, e)) = Len(q) + 1
         /\ Append(q, e)[Len(q) + 1] = e
         /\ \A i \in 1 .. Len(q) : Append(q, e)[i] = q[i] /\ q[i] \in S
BY AppendProperties, LenProperties, ElementOfSeq

\* What is left moves up by one.
LEMMA Left ==
  ASSUME NEW S, NEW q \in Seq(S), q # <<>>
  PROVE  /\ Tail(q) \in Seq(S) /\ Len(q) \in Nat /\ Len(q) >= 1
         /\ Len(Tail(q)) = Len(q) - 1
         /\ Head(q) = q[1] /\ Head(q) \in S
         /\ \A i \in 1 .. Len(q) - 1 : Tail(q)[i] = q[i + 1] /\ i + 1 \in 1 .. Len(q)
BY HeadTailProperties, LenProperties, EmptySeq, ElementOfSeq

\* A concatenation is the one and then the other.
LEMMA Chained ==
  ASSUME NEW S, NEW q \in Seq(S), NEW p \in Seq(S)
  PROVE  /\ q \o p \in Seq(S) /\ Len(q) \in Nat /\ Len(p) \in Nat
         /\ Len(q \o p) = Len(q) + Len(p)
         /\ \A i \in 1 .. Len(q) : (q \o p)[i] = q[i] /\ q[i] \in S
         /\ \A i \in 1 .. Len(p) : (q \o p)[Len(q) + i] = p[i] /\ p[i] \in S
         /\ \A i \in 1 .. Len(q \o p) : i \notin 1 .. Len(q) =>
              i - Len(q) \in 1 .. Len(p) /\ (q \o p)[i] = p[i - Len(q)]
<1>1. /\ q \o p \in Seq(S) /\ Len(q) \in Nat /\ Len(p) \in Nat /\ Len(q \o p) = Len(q) + Len(p)
      /\ \A i \in 1 .. Len(q \o p) : (q \o p)[i] = IF i <= Len(q) THEN q[i] ELSE p[i - Len(q)]
  BY ConcatProperties, LenProperties
<1>2. \A i \in 1 .. Len(q) : i \in 1 .. Len(q \o p) /\ i <= Len(q) /\ q[i] \in S
  BY <1>1, ElementOfSeq
<1>3. \A i \in 1 .. Len(p) : /\ Len(q) + i \in 1 .. Len(q \o p) /\ ~(Len(q) + i <= Len(q))
                             /\ (Len(q) + i) - Len(q) = i /\ p[i] \in S
  BY <1>1, ElementOfSeq
<1>4. \A i \in 1 .. Len(q \o p) : i \notin 1 .. Len(q) => i - Len(q) \in 1 .. Len(p) /\ ~(i <= Len(q))
  BY <1>1
<1> QED
  BY <1>1, <1>2, <1>3, <1>4

\* The same, with the lengths and the whole named.
LEMMA ChainedAs ==
  ASSUME NEW S, NEW q \in Seq(S), NEW p \in Seq(S), NEW w, w = q \o p,
         NEW n \in Nat, n = Len(q), NEW k \in Nat, k = Len(p)
  PROVE  /\ w \in Seq(S) /\ Len(w) = n + k
         /\ \A i \in 1 .. n : w[i] = q[i] /\ q[i] \in S
         /\ \A i \in 1 .. k : w[n + i] = p[i] /\ p[i] \in S
<1>1. /\ q \o p \in Seq(S) /\ Len(q \o p) = Len(q) + Len(p)
      /\ \A i \in 1 .. Len(q) : (q \o p)[i] = q[i] /\ q[i] \in S
      /\ \A i \in 1 .. Len(p) : (q \o p)[Len(q) + i] = p[i] /\ p[i] \in S
  BY Chained
<1> QED
  BY <1>1

\* Three in a row.
LEMMA ThreeChained ==
  ASSUME NEW S, NEW p \in Seq(S), NEW q \in Seq(S), NEW t \in Seq(S), NEW w, w = p \o q \o t,
         NEW n \in Nat, n = Len(p), NEW k \in Nat, k = Len(q), NEW l \in Nat, l = Len(t)
  PROVE  /\ w \in Seq(S) /\ Len(w) = n + k + l
         /\ \A i \in 1 .. n : w[i] = p[i] /\ p[i] \in S
         /\ \A i \in 1 .. k : w[n + i] = q[i]
         /\ \A i \in 1 .. l : w[n + k + i] = t[i] /\ t[i] \in S
<1>2. PICK mid : mid = p \o q
  OBVIOUS
<1>3. /\ mid \in Seq(S) /\ Len(mid) = n + k
      /\ \A i \in 1 .. n : mid[i] = p[i] /\ p[i] \in S
      /\ \A i \in 1 .. k : mid[n + i] = q[i]
  BY <1>2, ChainedAs
<1>4. PICK m \in Nat : m = n + k
  OBVIOUS
<1>5. mid \in Seq(S) /\ m = Len(mid)
  BY <1>3, <1>4
<1>6. /\ w \in Seq(S) /\ Len(w) = m + l
      /\ \A i \in 1 .. m : w[i] = mid[i]
      /\ \A i \in 1 .. l : w[m + i] = t[i] /\ t[i] \in S
  <2>1. ASSUME NEW v, v = mid \o t
        PROVE  /\ v \in Seq(S) /\ Len(v) = m + l
               /\ \A i \in 1 .. m : v[i] = mid[i]
               /\ \A i \in 1 .. l : v[m + i] = t[i] /\ t[i] \in S
    BY <1>5, <2>1, ChainedAs
  <2>2. w = mid \o t
    BY <1>2
  <2> QED
    BY <2>1, <2>2
<1>7. \A i \in 1 .. n : i \in 1 .. m
  BY <1>4
<1>8. \A i \in 1 .. k : n + i \in 1 .. m
  BY <1>4
<1> QED
  BY <1>3, <1>4, <1>6, <1>7, <1>8

\* A slice of bytes carries the bytes from its place.
LEMMA Sliced ==
  ASSUME NEW r, NEW start \in Nat, NEW d \in Seq(Byte), Carries(d, r, start),
         NEW m \in Nat \ {0}, NEW n \in Nat, m <= n + 1, n <= Len(d)
  PROVE  /\ SubSeq(d, m, n) \in Seq(Byte) /\ Len(SubSeq(d, m, n)) = n - m + 1
         /\ Carries(SubSeq(d, m, n), r, start + m - 1)
<1>1. /\ Len(d) \in Nat /\ SubSeq(d, m, n) \in Seq(Byte)
      /\ Len(SubSeq(d, m, n)) = n - m + 1
      /\ \A i \in 1 .. n - m + 1 : SubSeq(d, m, n)[i] = d[m + i - 1]
  <2>1. Len(d) \in Nat
    BY LenProperties
  <2>2. \A i \in m .. n : i \in 1 .. Len(d) /\ d[i] \in Byte
    BY <2>1, ElementOfSeq
  <2> QED
    BY <2>1, <2>2, SubSeqProperties
<1>2. ASSUME NEW i \in 1 .. Len(SubSeq(d, m, n))
      PROVE  SubSeq(d, m, n)[i] = [req |-> r, at |-> (start + m - 1) + i]
  <2>1. m + i - 1 \in 1 .. Len(d) /\ start + (m + i - 1) = (start + m - 1) + i
    BY <1>1
  <2>2. d[m + i - 1] = [req |-> r, at |-> start + (m + i - 1)]
    BY <2>1 DEF Carries
  <2> QED
    BY <1>1, <2>1, <2>2
<1> QED
  BY <1>1, <1>2 DEF Carries

\* A piece of what carries the bytes of a request carries them, from further on.
LEMMA Piece ==
  ASSUME NEW r, NEW start \in Nat, NEW d \in Seq(Byte), Carries(d, r, start),
         NEW skip \in Nat, NEW size \in Nat, skip + size <= Len(d),
         NEW p, p = SubSeq(d, skip + 1, skip + size)
  PROVE  p \in Seq(Byte) /\ Len(p) = size /\ Carries(p, r, start + skip)
<1> DEFINE m == skip + 1
           e == skip + size
<1>1. m \in Nat \ {0} /\ e \in Nat /\ m <= e + 1 /\ e <= Len(d) /\ e - m + 1 = size /\ start + m - 1 = start + skip
  OBVIOUS
<1> HIDE DEF m, e
<1>2. /\ SubSeq(d, m, e) \in Seq(Byte) /\ Len(SubSeq(d, m, e)) = e - m + 1
      /\ Carries(SubSeq(d, m, e), r, start + m - 1)
  BY <1>1, Sliced
<1> QED
  BY <1>1, <1>2 DEF m, e

\* Bytes that go on where others end make one sequence.
LEMMA Extended ==
  ASSUME NEW r, NEW start \in Nat, NEW d \in Seq(Byte), NEW e \in Seq(Byte),
         Carries(d, r, start), Carries(e, r, start + Len(d))
  PROVE  /\ d \o e \in Seq(Byte) /\ Len(d \o e) = Len(d) + Len(e)
         /\ Carries(d \o e, r, start)
<1>1. /\ d \o e \in Seq(Byte) /\ Len(d) \in Nat /\ Len(e) \in Nat /\ Len(d \o e) = Len(d) + Len(e)
      /\ \A i \in 1 .. Len(d) : (d \o e)[i] = d[i]
      /\ \A i \in 1 .. Len(d \o e) : i \notin 1 .. Len(d) =>
           i - Len(d) \in 1 .. Len(e) /\ (d \o e)[i] = e[i - Len(d)]
  BY Chained
<1>2. ASSUME NEW i \in 1 .. Len(d \o e) PROVE (d \o e)[i] = [req |-> r, at |-> start + i]
  <2>1. CASE i \in 1 .. Len(d)
    BY <1>1, <2>1 DEF Carries
  <2>2. CASE i \notin 1 .. Len(d)
    <3>1. (d \o e)[i] = [req |-> r, at |-> (start + Len(d)) + (i - Len(d))]
      BY <1>1, <2>2 DEF Carries
    <3>2. (start + Len(d)) + (i - Len(d)) = start + i
      BY <1>1
    <3> QED
      BY <3>1, <3>2
  <2> QED
    BY <2>1, <2>2
<1> QED
  BY <1>1, <1>2 DEF Carries

\* The byte of a write.
LEMMA OneByte ==
  ASSUME NEW r \in Request, NEW at \in Nat \ {0}
  PROVE  /\ BytesOf(r, at, at) \in Seq(Byte) /\ Len(BytesOf(r, at, at)) = 1
         /\ Carries(BytesOf(r, at, at), r, at - 1)
         /\ BytesOf(r, at, at)[1] = [req |-> r, at |-> at]
<1> DEFINE d == BytesOf(r, at, at)
<1>1. d = [i \in 1 .. 1 |-> [req |-> r, at |-> at + i - 1]]
  <2>1. at - at + 1 = 1
    OBVIOUS
  <2> QED
    BY <2>1 DEF BytesOf
<1>2. \A i \in 1 .. 1 : [req |-> r, at |-> at + i - 1] = [req |-> r, at |-> at] /\ i = 1
  OBVIOUS
<1>3. [req |-> r, at |-> at] \in Byte
  BY DEF Byte
<1>4. d \in [1 .. 1 -> Byte] /\ d[1] = [req |-> r, at |-> at]
  BY <1>1, <1>2, <1>3
<1>5. d \in Seq(Byte) /\ Len(d) = 1
  BY <1>4, Made, 1 \in Nat
<1>6. \A i \in 1 .. 1 : d[i] = [req |-> r, at |-> (at - 1) + i]
  <2>1. \A i \in 1 .. 1 : (at - 1) + i = at /\ i = 1
    OBVIOUS
  <2> QED
    BY <1>4, <2>1
<1> QED
  BY <1>4, <1>5, <1>6 DEF Carries

-----------------------------------------------------------------------------
(* Arithmetic of the drain.                                                *)

\* Products keep the order.
LEMMA Multiples ==
  ASSUME NEW a \in Nat, NEW b \in Nat, NEW c \in Nat, a <= b
  PROVE  a * c \in Nat /\ b * c \in Nat /\ a * c <= b * c
<1>1. PICK k \in Nat : b = a + k
  BY b - a \in Nat, b = a + (b - a)
<1>2. b * c = a * c + k * c /\ k * c \in Nat /\ a * c \in Nat
  BY <1>1
<1> QED
  BY <1>2

\* Rounded up, a quotient covers the dividend, and one less does not.
LEMMA RoundsUp ==
  ASSUME NEW n \in Nat, NEW c \in Nat \ {0}
  PROVE  /\ (n + c - 1) \div c \in Nat /\ n <= ((n + c - 1) \div c) * c
         /\ \A i \in Nat : i < (n + c - 1) \div c => i * c < n
OBVIOUS

\* Rounded down.
LEMMA RoundsDown ==
  ASSUME NEW n \in Nat, NEW c \in Nat \ {0}
  PROVE  /\ n \div c \in Nat /\ (n \div c) * c <= n
         /\ n < (n \div c) * c + c
OBVIOUS

-----------------------------------------------------------------------------
(* The retransmission buffer (resume.rs) of a stream that carries the bytes *)
(* of request r.                                                            *)

GoodTx(tx, r) ==
  /\ tx \in SendBuffer(Byte) /\ Carries(tx.data, r, tx.acked)
  /\ tx.acked <= tx.cursor /\ tx.cursor <= WriteOffset(tx)

\* What the fields of a buffer are.
LEMMA BufferFields ==
  ASSUME NEW tx \in SendBuffer(Byte)
  PROVE  /\ tx.acked \in Nat /\ tx.cursor \in Nat /\ tx.capacity \in Nat \ {0} /\ tx.data \in Seq(Byte)
         /\ tx.fin_queued \in BOOLEAN /\ Len(tx.data) \in Nat /\ WriteOffset(tx) \in Nat
         /\ WriteOffset(tx) = tx.acked + Len(tx.data)
<1>1. /\ tx.acked \in Nat /\ tx.cursor \in Nat /\ tx.capacity \in Nat \ {0} /\ tx.data \in Seq(Byte)
      /\ tx.fin_queued \in BOOLEAN
  BY DEF SendBuffer
<1>2. Len(tx.data) \in Nat
  BY <1>1, LenProperties
<1> QED
  BY <1>1, <1>2 DEF WriteOffset

\* push of bytes there is room for.
LEMMA PushGood ==
  ASSUME NEW r, NEW tx, GoodTx(tx, r), NEW d \in Seq(Byte), Carries(d, r, WriteOffset(tx)),
         ~(PushCount(tx, d) < Len(d))
  PROVE  /\ GoodTx(Push(tx, d), r) /\ WriteOffset(Push(tx, d)) = WriteOffset(tx) + Len(d)
         /\ Push(tx, d).acked = tx.acked /\ Push(tx, d).cursor = tx.cursor
<1>0. tx \in SendBuffer(Byte)
  BY DEF GoodTx
<1>1. /\ tx.acked \in Nat /\ tx.cursor \in Nat /\ tx.data \in Seq(Byte) /\ tx.capacity \in Nat \ {0}
      /\ Len(tx.data) \in Nat /\ WriteOffset(tx) = tx.acked + Len(tx.data)
  BY <1>0, BufferFields
<1>2. Len(d) \in Nat
  BY LenProperties
<1>3. PushCount(tx, d) = Len(d)
  BY <1>1, <1>2 DEF PushCount, LesserOf, Writable, GreaterOf
<1>4. /\ SubSeq(d, 1, Len(d)) \in Seq(Byte) /\ Len(SubSeq(d, 1, Len(d))) = Len(d)
      /\ Carries(SubSeq(d, 1, Len(d)), r, WriteOffset(tx))
  <2>1. Len(d) - 1 + 1 = Len(d) /\ WriteOffset(tx) + 1 - 1 = WriteOffset(tx) /\ WriteOffset(tx) \in Nat
    BY <1>1, <1>2
  <2>2. 1 \in Nat \ {0} /\ 1 <= Len(d) + 1 /\ Len(d) <= Len(d)
    BY <1>2
  <2>3. /\ SubSeq(d, 1, Len(d)) \in Seq(Byte) /\ Len(SubSeq(d, 1, Len(d))) = Len(d) - 1 + 1
        /\ Carries(SubSeq(d, 1, Len(d)), r, WriteOffset(tx) + 1 - 1)
    BY <1>2, <2>1, <2>2, Sliced
  <2> QED
    BY <2>1, <2>3
<1> DEFINE p == SubSeq(d, 1, Len(d))
<1> HIDE DEF p
<1>5. /\ tx.data \o p \in Seq(Byte) /\ Len(tx.data \o p) = Len(tx.data) + Len(d)
      /\ Carries(tx.data \o p, r, tx.acked)
  <2>1. p \in Seq(Byte) /\ Len(p) = Len(d) /\ Carries(p, r, tx.acked + Len(tx.data))
    BY <1>1, <1>4 DEF p
  <2>2. Carries(tx.data, r, tx.acked)
    BY DEF GoodTx
  <2> QED
    BY <1>1, <2>1, <2>2, Extended
<1>6. Push(tx, d) = [tx EXCEPT !.data = tx.data \o p]
  BY <1>3 DEF Push, p
<1>7. /\ Push(tx, d) \in SendBuffer(Byte) /\ Push(tx, d).acked = tx.acked /\ Push(tx, d).cursor = tx.cursor
      /\ Push(tx, d).data = tx.data \o p
  BY <1>0, <1>5, <1>6 DEF SendBuffer
<1>8. WriteOffset(Push(tx, d)) = WriteOffset(tx) + Len(d)
  BY <1>1, <1>2, <1>5, <1>7 DEF WriteOffset
<1> QED
  BY <1>1, <1>2, <1>5, <1>7, <1>8 DEF GoodTx

\* ack of bytes that were written.
LEMMA AckGood ==
  ASSUME NEW r, NEW tx, GoodTx(tx, r), NEW offset \in Nat, ~AckBeyondSent(tx, offset)
  PROVE  /\ GoodTx(Ack(tx, offset), r) /\ WriteOffset(Ack(tx, offset)) = WriteOffset(tx)
         /\ Ack(tx, offset).acked = IF offset < tx.acked THEN tx.acked ELSE offset
         /\ Ack(tx, offset).cursor = IF offset < tx.acked THEN tx.cursor ELSE GreaterOf(tx.cursor, offset)
<1>0. tx \in SendBuffer(Byte)
  BY DEF GoodTx
<1>1. /\ tx.acked \in Nat /\ tx.cursor \in Nat /\ tx.data \in Seq(Byte)
      /\ Len(tx.data) \in Nat /\ WriteOffset(tx) = tx.acked + Len(tx.data)
  BY <1>0, BufferFields
<1>2. CASE offset < tx.acked
  BY <1>2 DEF Ack
<1>3. CASE ~(offset < tx.acked)
  <2>1. offset <= tx.acked + Len(tx.data)
    BY <1>1 DEF AckBeyondSent
  <2> DEFINE m == offset - tx.acked + 1
             d == SubSeq(tx.data, m, Len(tx.data))
  <2>2. m \in Nat \ {0} /\ m <= Len(tx.data) + 1 /\ Len(tx.data) <= Len(tx.data)
        /\ tx.acked + m - 1 = offset
    BY <1>1, <1>3, <2>1
  <2>3. d \in Seq(Byte) /\ Len(d) = Len(tx.data) - m + 1 /\ Carries(d, r, offset)
    <3>1. Carries(tx.data, r, tx.acked)
      BY DEF GoodTx
    <3> HIDE DEF m
    <3>2. d \in Seq(Byte) /\ Len(d) = Len(tx.data) - m + 1 /\ Carries(d, r, tx.acked + m - 1)
      BY <1>1, <2>2, <3>1, Sliced
    <3> QED
      BY <2>2, <3>2
  <2>4. Ack(tx, offset) = [tx EXCEPT !.acked = offset, !.data = d, !.cursor = GreaterOf(tx.cursor, offset)]
    BY <1>3 DEF Ack
  <2> HIDE DEF d
  <2>5. GreaterOf(tx.cursor, offset) \in Nat
    BY <1>1 DEF GreaterOf
  <2>6. /\ Ack(tx, offset) \in SendBuffer(Byte) /\ Ack(tx, offset).acked = offset /\ Ack(tx, offset).data = d
        /\ Ack(tx, offset).cursor = GreaterOf(tx.cursor, offset)
    BY <1>0, <2>3, <2>4, <2>5 DEF SendBuffer
  <2>7. WriteOffset(Ack(tx, offset)) = WriteOffset(tx)
    <3>1. Len(d) = Len(tx.data) - (offset - tx.acked + 1) + 1
      BY <2>3
    <3> QED
      BY <1>1, <2>6, <3>1 DEF WriteOffset
  <2>8. offset <= GreaterOf(tx.cursor, offset) /\ GreaterOf(tx.cursor, offset) <= WriteOffset(tx)
    BY <1>1, <2>1 DEF GreaterOf, GoodTx
  <2> QED
    BY <1>3, <2>3, <2>6, <2>7, <2>8 DEF GoodTx
<1> QED
  BY <1>2, <1>3

\* rewind_to an offset in the window.
LEMMA RewindGood ==
  ASSUME NEW r, NEW tx, GoodTx(tx, r), NEW offset \in Nat, CanRewind(tx, offset)
  PROVE  /\ GoodTx(RewindTo(tx, offset), r) /\ WriteOffset(RewindTo(tx, offset)) = WriteOffset(tx)
         /\ RewindTo(tx, offset).acked = offset /\ RewindTo(tx, offset).cursor = offset
<1> DEFINE a == Ack(tx, offset)
<1>1. tx.acked \in Nat
  BY BufferFields DEF GoodTx
<1>2. ~(offset < tx.acked) /\ ~AckBeyondSent(tx, offset)
  BY DEF CanRewind, GapUnrecoverable
<1>3. GoodTx(a, r) /\ WriteOffset(a) = WriteOffset(tx) /\ a.acked = offset
  BY <1>2, AckGood
<1> HIDE DEF a
<1>4. RewindTo(tx, offset) = [a EXCEPT !.cursor = offset]
  BY DEF RewindTo, a
<1>5. a \in SendBuffer(Byte) /\ a.acked <= WriteOffset(a)
  <2>1. a.acked \in Nat /\ a.cursor \in Nat /\ WriteOffset(a) \in Nat
    BY <1>3, BufferFields DEF GoodTx
  <2> QED
    BY <1>3, <2>1 DEF GoodTx
<1> DEFINE t == [a EXCEPT !.cursor = offset]
<1>6. t \in SendBuffer(Byte) /\ t.acked = offset /\ t.cursor = offset /\ t.data = a.data
  BY <1>3, <1>5 DEF SendBuffer
<1>7. WriteOffset(t) = WriteOffset(a)
  BY <1>3, <1>6 DEF WriteOffset
<1> HIDE DEF t
<1>8. GoodTx(t, r)
  BY <1>3, <1>5, <1>6, <1>7 DEF GoodTx
<1> QED
  BY <1>3, <1>4, <1>6, <1>7, <1>8 DEF t

\* Only the flag.
LEMMA FinGood ==
  ASSUME NEW r, NEW tx, GoodTx(tx, r)
  PROVE  /\ GoodTx(MarkFin(tx), r) /\ WriteOffset(MarkFin(tx)) = WriteOffset(tx)
         /\ MarkFin(tx).acked = tx.acked /\ MarkFin(tx).cursor = tx.cursor
<1>1. /\ MarkFin(tx) \in SendBuffer(Byte) /\ MarkFin(tx).data = tx.data
      /\ MarkFin(tx).acked = tx.acked /\ MarkFin(tx).cursor = tx.cursor
  BY DEF MarkFin, GoodTx, SendBuffer
<1>2. WriteOffset(MarkFin(tx)) = WriteOffset(tx)
  BY <1>1 DEF WriteOffset
<1> QED
  BY <1>1, <1>2 DEF GoodTx

\* drain_stream_output sends exact frames, without a gap, and moves the cursor
\* behind them.
DataFrame(f, id, r, end) ==
  /\ f \in Frame /\ f.type = "Data" /\ f.id = id /\ f.offset \in Nat /\ f.data \in Seq(Byte)
  /\ Carries(f.data, r, f.offset) /\ f.offset + Len(f.data) <= end

\* A drain moves the cursor of a good buffer, and nothing else of it.
LEMMA DrainGood ==
  ASSUME NEW r, NEW tx, GoodTx(tx, r), NEW id \in StreamId,
         NEW t, t = AdvanceCursor(tx, DrainCount(tx) * Chunk)
  PROVE  /\ GoodTx(t, r) /\ WriteOffset(t) = WriteOffset(tx)
         /\ t.acked = tx.acked /\ tx.cursor <= t.cursor /\ t.fin_queued = tx.fin_queued
         /\ DrainData(id, tx) \in Seq(Frame)
         /\ \A i \in 1 .. Len(DrainData(id, tx)) : DataFrame(DrainData(id, tx)[i], id, r, WriteOffset(tx))
         /\ \A b \in tx.cursor + 1 .. t.cursor :
              \E i \in 1 .. Len(DrainData(id, tx)) : Covers(DrainData(id, tx)[i], id, b)
<1>0. tx \in SendBuffer(Byte) /\ Carries(tx.data, r, tx.acked) /\ Chunk \in Nat \ {0} /\ DrainLimit \in Nat \ {0}
  BY MuxAssumption DEF GoodTx
<1>1. /\ tx.acked \in Nat /\ tx.cursor \in Nat /\ tx.data \in Seq(Byte) /\ Len(tx.data) \in Nat
      /\ WriteOffset(tx) = tx.acked + Len(tx.data)
  BY <1>0, BufferFields
<1>2. tx.acked <= tx.cursor /\ tx.cursor <= WriteOffset(tx)
  BY DEF GoodTx
<1>3. PICK left \in Nat : left = WriteOffset(tx) - tx.cursor
  BY <1>1, <1>2
<1>4. PICK n \in Nat : n = DrainCount(tx) /\ \A i \in Nat : i < n => i * Chunk < left
  <2>1. /\ (left + Chunk - 1) \div Chunk \in Nat
        /\ \A i \in Nat : i < (left + Chunk - 1) \div Chunk => i * Chunk < left
    BY <1>0, RoundsUp
  <2>2. DrainCount(tx) = LesserOf(DrainLimit, (left + Chunk - 1) \div Chunk)
    BY <1>3 DEF DrainCount
  <2> QED
    BY <1>0, <2>1, <2>2 DEF LesserOf
<1>5. n * Chunk \in Nat
  BY <1>0
<1>6. UnsentCount(tx, n * Chunk) \in 0 .. left /\ UnsentCount(tx, n * Chunk) <= n * Chunk
  BY <1>3, <1>5 DEF UnsentCount, LesserOf
<1>7. t = [tx EXCEPT !.cursor = tx.cursor + UnsentCount(tx, n * Chunk)]
  BY <1>4 DEF AdvanceCursor
<1>8. /\ t \in SendBuffer(Byte) /\ t.acked = tx.acked /\ t.data = tx.data /\ t.fin_queued = tx.fin_queued
      /\ t.cursor = tx.cursor + UnsentCount(tx, n * Chunk)
  <2>1. tx.cursor + UnsentCount(tx, n * Chunk) \in Nat
    BY <1>1, <1>6
  <2> QED
    BY <1>0, <1>7, <2>1 DEF SendBuffer
<1>9. WriteOffset(t) = WriteOffset(tx)
  BY <1>8 DEF WriteOffset
<1>10. GoodTx(t, r) /\ tx.cursor <= t.cursor
  BY <1>0, <1>1, <1>2, <1>3, <1>6, <1>8, <1>9 DEF GoodTx
<1> DEFINE from(i) == tx.cursor + (i - 1) * Chunk
           out == DrainData(id, tx)
           size(i) == LesserOf(Chunk, WriteOffset(tx) - from(i))
           skip(i) == from(i) - tx.acked
           piece(i) == SubSeq(tx.data, skip(i) + 1, skip(i) + size(i))
           frame(i) == [type |-> "Data", id |-> id, offset |-> from(i), data |-> piece(i)]
<1>11. \A i \in 1 .. n : /\ from(i) \in Nat /\ tx.acked <= from(i) /\ from(i) < WriteOffset(tx)
                         /\ (i - 1) * Chunk \in Nat
  <2> TAKE i \in 1 .. n
  <2>1. i - 1 \in Nat /\ i - 1 < n
    BY <1>4
  <2>2. (i - 1) * Chunk \in Nat /\ (i - 1) * Chunk < left
    BY <1>0, <1>4, <2>1
  <2> QED
    BY <1>1, <1>2, <1>3, <2>2
<1>12. out = [i \in 1 .. n |-> frame(i)]
  <2>1. \A i \in 1 .. n :
          /\ [tx EXCEPT !.cursor = tx.cursor + (i - 1) * Chunk].cursor = from(i)
          /\ NextUnsent([tx EXCEPT !.cursor = tx.cursor + (i - 1) * Chunk], Chunk) = piece(i)
    <3> TAKE i \in 1 .. n
    <3> DEFINE u == [tx EXCEPT !.cursor = tx.cursor + (i - 1) * Chunk]
    <3>1. u.cursor = from(i) /\ u.acked = tx.acked /\ u.data = tx.data
      BY <1>0, <1>11 DEF SendBuffer
    <3> HIDE DEF u
    <3>2. NextUnsent(u, Chunk) = piece(i)
      BY <3>1 DEF NextUnsent, UnsentCount, WriteOffset
    <3> QED
      BY <3>1, <3>2 DEF u
  <2> QED
    BY <1>4, <2>1 DEF DrainData
<1> HIDE DEF out
<1>13. ASSUME NEW i \in 1 .. n
       PROVE  /\ DataFrame(frame(i), id, r, WriteOffset(tx))
              /\ Len(piece(i)) = size(i)
  <2>1. from(i) \in Nat /\ tx.acked <= from(i) /\ from(i) < WriteOffset(tx)
    BY <1>11
  <2> HIDE DEF from
  <2>2. size(i) \in Nat /\ size(i) >= 1 /\ from(i) + size(i) <= WriteOffset(tx)
    BY <1>0, <1>1, <2>1 DEF LesserOf
  <2> HIDE DEF size
  <2>3. skip(i) \in Nat /\ skip(i) + size(i) <= Len(tx.data) /\ tx.acked + skip(i) = from(i)
    BY <1>1, <2>1, <2>2
  <2> HIDE DEF skip
  <2>4. piece(i) \in Seq(Byte) /\ Len(piece(i)) = size(i) /\ Carries(piece(i), r, tx.acked + skip(i))
    <3>1. PICK p : p = piece(i)
      OBVIOUS
    <3>2. PICK sk \in Nat : sk = skip(i)
      BY <2>3
    <3>3. PICK sz \in Nat : sz = size(i)
      BY <2>2
    <3>4. p = SubSeq(tx.data, sk + 1, sk + sz) /\ sk + sz <= Len(tx.data)
      BY <2>3, <3>1, <3>2, <3>3
    <3> HIDE DEF piece
    <3>5. p \in Seq(Byte) /\ Len(p) = sz /\ Carries(p, r, tx.acked + sk)
      <4>1. tx.acked \in Nat /\ tx.data \in Seq(Byte) /\ Carries(tx.data, r, tx.acked)
        BY <1>0, <1>1
      <4>2. \A start \in Nat : \A d \in Seq(Byte) : Carries(d, r, start) =>
              \A skip_, size_ \in Nat : skip_ + size_ <= Len(d) =>
                \A q : q = SubSeq(d, skip_ + 1, skip_ + size_) =>
                  q \in Seq(Byte) /\ Len(q) = size_ /\ Carries(q, r, start + skip_)
        BY Piece
      <4>3. \A skip_, size_ \in Nat : skip_ + size_ <= Len(tx.data) =>
                \A q : q = SubSeq(tx.data, skip_ + 1, skip_ + size_) =>
                  q \in Seq(Byte) /\ Len(q) = size_ /\ Carries(q, r, tx.acked + skip_)
        BY <4>1, <4>2, Zenon
      <4>4. \A q : q = SubSeq(tx.data, sk + 1, sk + sz) =>
                  q \in Seq(Byte) /\ Len(q) = sz /\ Carries(q, r, tx.acked + sk)
        BY <3>4, <4>3, Zenon
      <4> QED
        BY <3>4, <4>4, Zenon
    <3> QED
      BY <3>1, <3>2, <3>3, <3>5
  <2>6. piece(i) \in Seq(Byte) /\ Len(piece(i)) = size(i) /\ Carries(piece(i), r, from(i))
    BY <2>3, <2>4
  <2> HIDE DEF piece
  <2>7. frame(i) \in Frame
    BY <2>1, <2>6 DEF Frame
  <2> QED
    BY <2>1, <2>2, <2>6, <2>7 DEF DataFrame
<1>14. out \in [1 .. n -> Frame]
  BY <1>12, <1>13 DEF DataFrame
<1>15. out \in Seq(Frame) /\ Len(out) = n
  BY <1>14, Made
<1>16. ASSUME NEW b \in tx.cursor + 1 .. t.cursor
       PROVE  \E i \in 1 .. n : Covers(frame(i), id, b)
  <2>1. PICK d \in Nat : d = b - tx.cursor - 1 /\ d < n * Chunk /\ d < left
    <3>1. b \in Int /\ tx.cursor + 1 <= b /\ b <= tx.cursor + UnsentCount(tx, n * Chunk)
      BY <1>1, <1>6, <1>8
    <3>2. PICK u \in 0 .. left : u = UnsentCount(tx, n * Chunk) /\ u <= n * Chunk
      BY <1>6
    <3>3. PICK w \in Nat : w = n * Chunk
      BY <1>5
    <3>4. b - tx.cursor - 1 \in Nat /\ b - tx.cursor - 1 < w /\ b - tx.cursor - 1 < left
      BY <1>1, <3>1, <3>2, <3>3
    <3> QED
      BY <3>3, <3>4
  <2>2. PICK k \in Nat : k * Chunk <= d /\ d < k * Chunk + Chunk
    BY <1>0, RoundsDown
  <2>3. k < n
    <3>1. SUFFICES ASSUME n <= k PROVE FALSE
      BY DEF Joins
    <3>2. n * Chunk <= k * Chunk /\ k * Chunk \in Nat
      BY <1>0, <3>1, Multiples
    <3> QED
      BY <1>5, <2>1, <2>2, <3>2
  <2>4. k + 1 \in 1 .. n /\ (k + 1) - 1 = k
    BY <2>3
  <2>5. from(k + 1) = tx.cursor + k * Chunk /\ k * Chunk \in Nat
    BY <1>0, <2>4
  <2>6. from(k + 1) < b /\ b <= from(k + 1) + size(k + 1)
    <3>1. PICK w \in Nat : w = k * Chunk
      BY <2>5
    <3>2. PICK f \in Nat : f = from(k + 1) /\ f = tx.cursor + w
      BY <1>1, <2>5, <3>1
    <3>3. f < b /\ b <= f + Chunk /\ b <= WriteOffset(tx)
      <4>1. w <= d /\ d < w + Chunk
        BY <2>2, <3>1
      <4>2. b \in Int /\ b = tx.cursor + d + 1
        BY <1>1, <2>1
      <4>3. d < left /\ left = WriteOffset(tx) - tx.cursor /\ tx.cursor \in Nat /\ WriteOffset(tx) \in Nat
        BY <1>0, <1>1, <1>3, <2>1, BufferFields
      <4>4. f = tx.cursor + w /\ Chunk \in Nat
        BY <1>0, <3>2
      <4> HIDE DEF from
      <4>5. f < b
        BY <4>1, <4>2, <4>3, <4>4
      <4>6. b <= f + Chunk
        BY <4>1, <4>2, <4>3, <4>4
      <4>7. b <= WriteOffset(tx)
        BY <4>2, <4>3
      <4> QED
        BY <4>5, <4>6, <4>7
    <3>4. f < b /\ b <= f + LesserOf(Chunk, WriteOffset(tx) - f)
      BY <1>0, <1>1, <3>2, <3>3, SMTT(30) DEF LesserOf
    <3> QED
      BY <3>2, <3>4
  <2>7. Len(piece(k + 1)) = size(k + 1)
    BY <1>13, <2>4
  <2> HIDE DEF from, size, piece
  <2> QED
    BY <2>4, <2>6, <2>7 DEF Covers
<1>17. \A i \in 1 .. n : out[i] = frame(i)
  BY <1>12
<1> QED
  BY <1>8, <1>9, <1>10, <1>13, <1>15, <1>16, <1>17 DEF out

-----------------------------------------------------------------------------
(* Types, in parts.                                                        *)

AppTypes == app \in [Request -> App]

CommandTypes == cmds \in Seq(MuxCommand) /\ Len(cmds) <= CmdCap

StreamTypes ==
  /\ DOMAIN streams \subseteq StreamId \ {0}
  /\ \A id \in DOMAIN streams : streams[id] \in StreamState

ControlTypes ==
  /\ next_id \in StreamId /\ pending \in Seq(Request)
  /\ drv \in {"wait", "hello", "up"} /\ resuming \in BOOLEAN /\ channel \in Nat
  /\ breaks \in 0 .. MaxBreaks

FrameTypes == c2h \in Seq(Frame) /\ h2c \in Seq(Frame)

HelperTypes ==
  /\ DOMAIN helper = {"session", "streams", "channels"}
  /\ helper.session \in BOOLEAN /\ helper.channels \in 0 .. channel
  /\ DOMAIN Held \subseteq StreamId
  /\ \A id \in DOMAIN Held : Held[id] \in HelperStream

\* The type invariant, in parts.
LEMMA TypesAre ==
  TypeOK <=> AppTypes /\ CommandTypes /\ StreamTypes /\ ControlTypes /\ FrameTypes /\ HelperTypes
BY DEF TypeOK, AppTypes, CommandTypes, StreamTypes, ControlTypes, FrameTypes, HelperTypes, Held

\* What the fields of a request are.
LEMMA AppFields ==
  ASSUME AppTypes, NEW r \in Request
  PROVE  /\ app[r] \in App /\ app[r].st \in {"idle", "asked", "live", "done"} /\ app[r].wrote \in Nat
         /\ app[r].shut \in BOOLEAN /\ app[r].told \in BOOLEAN /\ app[r].id \in StreamId
BY DEF AppTypes, App

\* What the fields of a frame are.
LEMMA FrameFields ==
  ASSUME NEW f \in Frame
  PROVE  /\ f.type \in {"Hello", "HelloAck", "Open", "Data", "Fin", "Reset", "OpenErr", "ResumeErr",
                        "Ack", "Resume", "ResumeOk"}
         /\ f.type = "Hello" => f.resume \in BOOLEAN
         /\ f.type = "HelloAck" => f.resumed \in BOOLEAN
         /\ f.type \notin {"Hello", "HelloAck"} => f.id \in StreamId
         /\ f.type = "Open" => f.req \in Request
         /\ f.type = "Data" => f.offset \in Nat /\ f.data \in Seq(Byte)
         /\ f.type \in {"Ack", "Resume", "ResumeOk"} => f.offset \in Nat
BY DEF Frame

\* What the fields of a command are.
LEMMA CommandFields ==
  ASSUME NEW c \in MuxCommand
  PROVE  /\ c.kind \in {"Open", "LocalData", "LocalEof", "LocalClose"}
         /\ c.kind = "Open" => c.req \in Request
         /\ c.kind # "Open" => c.id \in StreamId
         /\ c.kind = "LocalData" => c.data \in Seq(Byte)
BY DEF MuxCommand

\* The ids given so far are those from 1 to below next_id.
LEMMA IdFacts ==
  ASSUME ControlTypes, next_id # 0
  PROVE  /\ next_id \in Nat /\ next_id - 1 \in Nat /\ next_id < IdSpace /\ IdSpace \in Nat
         /\ \A id : id \in Allocated <=> id \in Nat /\ 1 <= id /\ id < next_id
BY MuxAssumption DEF ControlTypes, StreamId, Allocated

-----------------------------------------------------------------------------
(* Ids (alloc_stream).                                                     *)

\* Every set of numbers has a least one.
LEMMA Least ==
  ASSUME NEW T, T \subseteq Nat, T # {}
  PROVE  \E x \in T : \A y \in T : x <= y
<1>1. PICK R : R = {ss \in Nat \X Nat : ss[1] < ss[2]}
  OBVIOUS
<1>2. IsWellFoundedOn(R, Nat)
  BY <1>1, NatLessThanWellFounded DEF OpToRel
<1>3. PICK x \in T : \A y \in T : ~ (<<y, x>> \in R)
  BY <1>2, WFMin
<1>4. ASSUME NEW y \in T PROVE x <= y
  <2>1. x \in Nat /\ y \in Nat
    OBVIOUS
  <2>2. <<y, x>> \in Nat \X Nat /\ <<y, x>>[1] = y /\ <<y, x>>[2] = x
    BY <2>1
  <2>3. ~(y < x)
    BY <1>1, <1>3, <2>2
  <2> QED
    BY <2>1, <2>3
<1> QED
  BY <1>4

\* A free id is taken as it is.
LEMMA FirstIsFree ==
  ASSUME NEW used, NEW from \in Nat \ {0}, from < IdSpace, from \notin used, IdSpace \in Nat
  PROVE  AllocId(used, from) = from
<1> DEFINE id(k) == (from + k) % IdSpace
           free(k) == id(k) # 0 /\ id(k) \notin used
           P(k) == free(k) /\ \A j \in 0 .. k - 1 : ~free(j)
<1>1. id(0) = from
  OBVIOUS
<1>2. 0 \in 0 .. IdSpace - 1 /\ free(0)
  BY <1>1
<1>3. P(0)
  BY <1>2
<1>4. \A k \in 0 .. IdSpace - 1 : P(k) => k = 0
  <2> SUFFICES ASSUME NEW k \in 0 .. IdSpace - 1, P(k), k # 0 PROVE FALSE
    OBVIOUS
  <2>1. 0 \in 0 .. k - 1
    OBVIOUS
  <2> HIDE DEF free
  <2> QED
    BY <1>2, <2>1
<1> HIDE DEF P
<1>5. (CHOOSE k \in 0 .. IdSpace - 1 : P(k)) = 0
  BY <1>2, <1>3, <1>4
<1> QED
  BY <1>1, <1>5 DEF AllocId, P

\* There is an id for every request.
LEMMA IdsSuffice ==
  ASSUME AppTypes, ControlTypes, IdsAreOwn, NEW n \in Nat, NEW reqs \in [1 .. n -> Request],
         \A i \in 1 .. n : app[reqs[i]].id = 0,
         \A i, j \in 1 .. n : reqs[i] = reqs[j] => i = j
  PROVE  next_id + n < IdSpace
<1>1. next_id \in Nat /\ next_id - 1 \in Nat /\ next_id < IdSpace /\ IdSpace \in Nat /\ next_id # 0
  BY IdFacts DEF IdsAreOwn
<1>2. /\ IsFiniteSet(Request) /\ Cardinality(Request) \in Nat /\ Cardinality(Request) + 1 < IdSpace
  BY MuxAssumption, FS_CardinalityType
<1> SUFFICES ASSUME ~(next_id + n < IdSpace) PROVE FALSE
  OBVIOUS
<1> DEFINE k == next_id - 1 + n
           owner(id) == CHOOSE r \in Request : app[r].id = id
           g == [i \in 1 .. k |-> IF i < next_id THEN owner(i) ELSE reqs[i - next_id + 1]]
<1>3. k \in Nat /\ k > Cardinality(Request)
  BY <1>1, <1>2
<1>4. \A id \in Allocated : owner(id) \in Request /\ app[owner(id)].id = id
  BY DEF IdsAreOwn
<1>5. \A i \in 1 .. k : IF i < next_id THEN i \in Allocated ELSE i - next_id + 1 \in 1 .. n
  BY <1>1 DEF Allocated
<1> HIDE DEF owner
<1>6. g \in [1 .. k -> Request]
  BY <1>4, <1>5
<1>7. IsFiniteSet(1 .. k) /\ Cardinality(1 .. k) = k
  BY <1>3, FS_Interval
<1>8. PICK x, y \in 1 .. k : x # y /\ g[x] = g[y]
  <2> HIDE DEF g, k
  <2> QED
    BY <1>2, <1>3, <1>6, <1>7, FS_PigeonHole
<1>9. \A i \in 1 .. k : /\ i < next_id => app[g[i]].id = i
                        /\ ~(i < next_id) => app[g[i]].id = 0 /\ g[i] = reqs[i - next_id + 1]
  BY <1>4, <1>5
<1>10. x < next_id <=> y < next_id
  BY <1>1, <1>3, <1>8, <1>9
<1>11. CASE x < next_id
  BY <1>8, <1>9, <1>10, <1>11
<1>12. CASE ~(x < next_id)
  <2>1. x - next_id + 1 = y - next_id + 1
    BY <1>5, <1>8, <1>9, <1>10, <1>12
  <2> QED
    BY <1>1, <1>3, <1>8, <2>1
<1> QED
  BY <1>11, <1>12

\* so that the ids are the next ones in a row.
LEMMA IdsInARow ==
  ASSUME ControlTypes, next_id # 0, NEW used, \A id \in used : id \in Allocated,
         NEW n \in Nat, NEW reqs, Len(reqs) = n, next_id + n < IdSpace,
         NEW ids \in AllocIds(used, reqs)
  PROVE  /\ ids \in [1 .. n -> StreamId]
         /\ \A i \in 1 .. n : ids[i] = next_id + i - 1
<1>1. next_id \in Nat \ {0} /\ next_id < IdSpace /\ IdSpace \in Nat
      /\ \A id : id \in Allocated <=> id \in Nat /\ 1 <= id /\ id < next_id
  BY IdFacts
<1>2. /\ ids \in [1 .. n -> StreamId]
      /\ \A i \in 1 .. n :
           ids[i] = AllocId(used \cup {ids[j] : j \in 1 .. i - 1},
                            IF i = 1 THEN next_id ELSE (ids[i - 1] + 1) % IdSpace)
  BY DEF AllocIds
<1> DEFINE Wrong == {i \in 1 .. n : ids[i] # next_id + i - 1}
<1>3. CASE Wrong = {}
  BY <1>2, <1>3
<1>4. CASE Wrong # {}
  <2>1. Wrong \subseteq Nat
    OBVIOUS
  <2>2. PICK i \in Wrong : \A j \in Wrong : i <= j
    BY <1>4, <2>1, Least
  <2>3. i \in 1 .. n /\ \A j \in 1 .. i - 1 : ids[j] = next_id + j - 1
    <3>1. i \in 1 .. n
      OBVIOUS
    <3>2. ASSUME NEW j \in 1 .. i - 1 PROVE ids[j] = next_id + j - 1
      <4>1. j \in 1 .. n /\ ~(i <= j)
        BY <3>1
      <4>2. j \notin Wrong
        BY <2>2, <4>1
      <4> QED
        BY <4>1, <4>2
    <3> QED
      BY <3>1, <3>2
  <2> DEFINE from == next_id + i - 1
  <2>4. (IF i = 1 THEN next_id ELSE (ids[i - 1] + 1) % IdSpace) = from
    <3>1. CASE i = 1
      BY <1>1, <3>1
    <3>2. CASE i # 1
      <4>1. ids[i - 1] = next_id + (i - 1) - 1
        BY <2>3, <3>2
      <4>2. next_id + (i - 1) - 1 + 1 \in 0 .. IdSpace - 1 /\ next_id + (i - 1) - 1 + 1 = from
        BY <1>1, <2>3, <3>2
      <4>3. \A m \in 0 .. IdSpace - 1 : m % IdSpace = m
        BY <1>1
      <4> QED
        BY <3>2, <4>1, <4>2, <4>3
    <3> QED
      BY <3>1, <3>2
  <2>5. from \in Nat \ {0} /\ from < IdSpace
    BY <1>1, <2>3
  <2>6. from \notin used \cup {ids[j] : j \in 1 .. i - 1}
    <3>1. from \notin used
      BY <1>1, <2>3
    <3>2. \A j \in 1 .. i - 1 : ids[j] # from
      BY <1>1, <2>3
    <3> QED
      BY <3>1, <3>2
  <2> HIDE DEF from
  <2>7. ids[i] = from
    <3> DEFINE taken == used \cup {ids[j] : j \in 1 .. i - 1}
    <3>1. from \notin taken
      BY <2>6
    <3> HIDE DEF taken
    <3>2. AllocId(taken, from) = from
      BY <1>1, <2>5, <3>1, FirstIsFree
    <3>3. ids[i] = AllocId(taken, IF i = 1 THEN next_id ELSE (ids[i - 1] + 1) % IdSpace)
      BY <1>1, <1>2, <2>3 DEF taken
    <3> QED
      BY <2>4, <3>2, <3>3
  <2> QED
    BY <2>7 DEF from
<1> QED
  BY <1>3, <1>4

\* What open_stream does for requests that wait for their first stream.
Waiting(reqs) ==
  /\ reqs \in Seq(Request)
  /\ \A i \in 1 .. Len(reqs) : app[reqs[i]].id = 0
  /\ \A i, j \in 1 .. Len(reqs) : reqs[i] = reqs[j] => i = j

OpenFrame(id, r) == [type |-> "Open", id |-> id, req |-> r]

Opened(ss, a, out, reqs) ==
  /\ Len(reqs) \in Nat /\ next_id + Len(reqs) < IdSpace /\ next_id' = next_id + Len(reqs)
  /\ DOMAIN streams' = DOMAIN ss \cup {id \in Nat : next_id <= id /\ id < next_id'}
  /\ \A id \in DOMAIN ss : streams'[id] = ss[id]
  /\ \A i \in 1 .. Len(reqs) : streams'[next_id + i - 1] = NewStream(reqs[i])
  /\ app' = [r \in Request |-> app'[r]]
  /\ \A i \in 1 .. Len(reqs) :
       app'[reqs[i]] = [a[reqs[i]] EXCEPT !.st = "live", !.id = next_id + i - 1]
  /\ \A r \in Request : (\A i \in 1 .. Len(reqs) : reqs[i] # r) => app'[r] = a[r]
  /\ \E sent \in Seq(Frame) :
       /\ c2h' = c2h \o out \o sent /\ Len(sent) = Len(reqs)
       /\ \A i \in 1 .. Len(reqs) : sent[i] = OpenFrame(next_id + i - 1, reqs[i])

\* The loop over the queued opens of open_stream: one id each, in a row.
LEMMA OpensAre ==
  ASSUME AppTypes, ControlTypes, IdsAreOwn, NEW ss, DOMAIN ss \subseteq Allocated, NEW a, NEW out,
         NEW reqs, Waiting(reqs), OpenStreams(ss, a, out, reqs)
  PROVE  Opened(ss, a, out, reqs)
<1> DEFINE n == Len(reqs)
<1>1. n \in Nat /\ reqs \in [1 .. n -> Request]
  BY LenProperties DEF Waiting
<1>2. next_id \in Nat \ {0} /\ next_id < IdSpace /\ IdSpace \in Nat
      /\ \A id : id \in Allocated <=> id \in Nat /\ 1 <= id /\ id < next_id
  BY IdFacts DEF IdsAreOwn
<1>3. next_id + n < IdSpace
  BY <1>1, IdsSuffice DEF Waiting
<1>4. PICK ids \in AllocIds(DOMAIN ss, reqs) :
        /\ streams' = [id \in DOMAIN ss \cup {ids[i] : i \in 1 .. n} |->
                         IF id \in {ids[i] : i \in 1 .. n} THEN NewStream(reqs[Place(ids, id)]) ELSE ss[id]]
        /\ next_id' = IF n = 0 THEN next_id ELSE (ids[n] + 1) % IdSpace
        /\ app' = [r \in Request |->
                     IF r \in {reqs[i] : i \in 1 .. n}
                     THEN [a[r] EXCEPT !.st = "live", !.id = ids[Place(reqs, r)]] ELSE a[r]]
        /\ c2h' = c2h \o out \o [i \in 1 .. n |-> [type |-> "Open", id |-> ids[i], req |-> reqs[i]]]
  BY DEF OpenStreams
<1>5. ids \in [1 .. n -> StreamId] /\ \A i \in 1 .. n : ids[i] = next_id + i - 1
  <2>1. next_id # 0 /\ \A id \in DOMAIN ss : id \in Allocated
    BY <1>2
  <2> QED
    BY <1>1, <1>3, <2>1, IdsInARow
<1> HIDE DEF n
<1>6. \A i \in 1 .. n : Place(ids, ids[i]) = i
  <2> TAKE i \in 1 .. n
  <2>1. DOMAIN ids = 1 .. n /\ \A j \in 1 .. n : ids[j] = ids[i] => j = i
    BY <1>1, <1>2, <1>5
  <2> QED
    BY <2>1 DEF Place
<1>7. \A i \in 1 .. n : Place(reqs, reqs[i]) = i
  <2> TAKE i \in 1 .. n
  <2>1. DOMAIN reqs = 1 .. n /\ \A j \in 1 .. n : reqs[j] = reqs[i] => j = i
    BY <1>1 DEF Waiting, n
  <2> QED
    BY <2>1 DEF Place
<1>8. next_id' = next_id + n
  <2>1. CASE n = 0
    BY <1>2, <1>4, <2>1
  <2>2. CASE n # 0
    <3>1. n \in 1 .. n /\ ids[n] + 1 = next_id + n /\ next_id + n \in 0 .. IdSpace - 1
      BY <1>1, <1>2, <1>3, <1>5, <2>2
    <3>2. \A m \in 0 .. IdSpace - 1 : m % IdSpace = m
      BY <1>2
    <3> QED
      BY <1>4, <2>2, <3>1, <3>2
  <2> QED
    BY <2>1, <2>2
<1>9. \A id : id \in {ids[i] : i \in 1 .. n} <=> id \in Nat /\ next_id <= id /\ id < next_id + n
  <2>1. ASSUME NEW id \in Nat, next_id <= id, id < next_id + n
        PROVE  id \in {ids[i] : i \in 1 .. n}
    <3>1. id - next_id + 1 \in 1 .. n /\ next_id + (id - next_id + 1) - 1 = id
      BY <1>1, <1>2, <2>1
    <3> QED
      BY <1>5, <3>1
  <2>2. ASSUME NEW id \in {ids[i] : i \in 1 .. n}
        PROVE  id \in Nat /\ next_id <= id /\ id < next_id + n
    BY <1>1, <1>2, <1>5
  <2> QED
    BY <2>1, <2>2
<1>10. DOMAIN streams' = DOMAIN ss \cup {id \in Nat : next_id <= id /\ id < next_id'}
  BY <1>4, <1>8, <1>9
<1>11. \A id \in DOMAIN ss : streams'[id] = ss[id]
  <2> TAKE id \in DOMAIN ss
  <2>1. id \notin {ids[i] : i \in 1 .. n}
    BY <1>2, <1>9
  <2> QED
    BY <1>4, <2>1
<1>12. \A i \in 1 .. n : streams'[next_id + i - 1] = NewStream(reqs[i])
  <2> TAKE i \in 1 .. n
  <2>1. ids[i] \in {ids[j] : j \in 1 .. n} /\ ids[i] = next_id + i - 1
    BY <1>5
  <2>2. streams'[ids[i]] = NewStream(reqs[Place(ids, ids[i])])
    BY <1>4, <2>1
  <2> QED
    BY <1>6, <2>1, <2>2
<1>13. \A i \in 1 .. n :
         app'[reqs[i]] = [a[reqs[i]] EXCEPT !.st = "live", !.id = next_id + i - 1]
  <2> TAKE i \in 1 .. n
  <2>1. reqs[i] \in {reqs[j] : j \in 1 .. n} /\ reqs[i] \in Request
    BY <1>1 DEF n
  <2>2. app'[reqs[i]] = [a[reqs[i]] EXCEPT !.st = "live", !.id = ids[Place(reqs, reqs[i])]]
    BY <1>4, <2>1
  <2> QED
    BY <1>5, <1>7, <2>2
<1>14. \A r \in Request : (\A i \in 1 .. n : reqs[i] # r) => app'[r] = a[r]
  BY <1>4
<1>15. app' = [r \in Request |-> app'[r]]
  BY <1>4
<1>16. \E sent \in Seq(Frame) :
         /\ c2h' = c2h \o out \o sent /\ Len(sent) = n
         /\ \A i \in 1 .. n : sent[i] = OpenFrame(next_id + i - 1, reqs[i])
  <2> DEFINE sent == [i \in 1 .. n |-> [type |-> "Open", id |-> ids[i], req |-> reqs[i]]]
  <2>1. sent \in [1 .. n -> Frame]
    BY <1>1, <1>5 DEF Frame, n
  <2>2. sent \in Seq(Frame) /\ Len(sent) = n
    BY <1>1, <2>1, Made DEF n
  <2>3. \A i \in 1 .. n : sent[i] = OpenFrame(next_id + i - 1, reqs[i])
    BY <1>5 DEF OpenFrame
  <2> QED
    BY <1>4, <2>2, <2>3
<1> QED
  BY <1>1, <1>3, <1>8, <1>10, <1>11, <1>12, <1>13, <1>14, <1>15, <1>16 DEF Opened, n

-----------------------------------------------------------------------------
(* Who is queued, and whose an id is. The invariant stands by itself.      *)

Books ==
  AppTypes /\ CommandTypes /\ ControlTypes /\ DOMAIN streams \subseteq Allocated /\ RequestOnce

\* An application learns that its stream is over; nothing else of it changes.
Alike(a, b) ==
  a.st = b.st /\ a.wrote = b.wrote /\ a.shut = b.shut /\ a.id = b.id

Tells == app' \in [Request -> App] /\ \A r \in Request : Alike(app'[r], app[r])

\* Telling a pump that its stream is over changes nothing else of a request.
LEMMA ToldKeeps ==
  ASSUME AppTypes, NEW ids
  PROVE  Told(app, ids) \in [Request -> App] /\ \A r \in Request : Alike(Told(app, ids)[r], app[r])
<1>1. \A r \in Request : app[r] \in App /\ [app[r] EXCEPT !.told = TRUE] \in App
                         /\ Alike([app[r] EXCEPT !.told = TRUE], app[r]) /\ Alike(app[r], app[r])
  BY DEF AppTypes, App, Alike
<1>2. PICK gone : Told(app, ids) = [r \in Request |-> IF r \in gone THEN [app[r] EXCEPT !.told = TRUE] ELSE app[r]]
  BY DEF Told
<1> QED
  BY <1>1, <1>2

\* A step that leaves the requests alone tells nobody.
LEMMA KeptTells ==
  ASSUME AppTypes, UNCHANGED app
  PROVE  Tells
BY DEF AppTypes, Tells, Alike

\* A step that removes streams tells their pumps only.
LEMMA DropTells ==
  ASSUME AppTypes, NEW ids, Drop(ids)
  PROVE  Tells /\ DOMAIN streams' = DOMAIN streams \ ids /\ \A id \in DOMAIN streams' : streams'[id] = streams[id]
BY ToldKeeps DEF Drop, Tells, Without

\* A step that stores a stream tells nobody.
LEMMA KeepTells ==
  ASSUME AppTypes, NEW id \in DOMAIN streams, NEW s, Keep(id, s)
  PROVE  Tells /\ streams' = [streams EXCEPT ![id] = s] /\ DOMAIN streams' = DOMAIN streams
BY KeptTells DEF Keep

\* A command is taken that is not Open, or none.
TakesNoOpen ==
  \/ cmds' = cmds
  \/ cmds # <<>> /\ cmds' = Tail(cmds) /\ Head(cmds).kind # "Open"

\* A step that opens nothing and queues nothing.
Quiet ==
  /\ Tells /\ TakesNoOpen /\ pending' = pending /\ next_id' = next_id
  /\ DOMAIN streams' \subseteq DOMAIN streams

\* Commands without a channel give no id and open nothing.
LEMMA OthersAreQuiet ==
  ASSUME AppTypes, BufferData \/ BufferEof \/ BufferClose
  PROVE  Quiet /\ UNCHANGED <<drv, resuming, channel, breaks>>
<1>1. Tells /\ DOMAIN streams' \subseteq DOMAIN streams
  <2>1. CASE BufferData
    BY <2>1, KeptTells, DropTells, KeepTells DEF BufferData
  <2>2. CASE BufferEof
    BY <2>2, KeptTells, KeepTells DEF BufferEof
  <2>3. CASE BufferClose
    BY <2>3, DropTells DEF BufferClose
  <2> QED
    BY <2>1, <2>2, <2>3
<1>2. TakesNoOpen /\ pending' = pending /\ next_id' = next_id /\ UNCHANGED <<drv, resuming, channel, breaks>>
  BY DEF BufferData, BufferEof, BufferClose, Command1, TakesNoOpen
<1> QED
  BY <1>1, <1>2 DEF Quiet

\* Nor do commands other than Open with one.
LEMMA CommandsAreQuiet ==
  ASSUME AppTypes, HandleLocalData \/ HandleLocalEof \/ HandleLocalClose
  PROVE  Quiet /\ UNCHANGED <<drv, resuming, channel, breaks>>
<1>1. Tells /\ DOMAIN streams' \subseteq DOMAIN streams
  <2>1. CASE HandleLocalData
    BY <2>1, KeptTells, DropTells, KeepTells, Zenon DEF HandleLocalData, Drain
  <2>2. CASE HandleLocalEof
    BY <2>2, KeptTells, KeepTells DEF HandleLocalEof, Drain
  <2>3. CASE HandleLocalClose
    BY <2>3, DropTells DEF HandleLocalClose
  <2> QED
    BY <2>1, <2>2, <2>3
<1>2. TakesNoOpen /\ pending' = pending /\ next_id' = next_id /\ UNCHANGED <<drv, resuming, channel, breaks>>
  BY DEF HandleLocalData, HandleLocalEof, HandleLocalClose, Command1, TakesNoOpen
<1> QED
  BY <1>1, <1>2 DEF Quiet

\* Nor do frames.
LEMMA FramesAreQuiet ==
  ASSUME AppTypes,
         ApplyAck \/ ApplyResumeOk \/ \E type \in {"OpenErr", "Reset", "ResumeErr"} : ApplyEnd(type)
  PROVE  Quiet /\ UNCHANGED <<cmds, drv, resuming, channel, breaks>>
<1>1. Tells /\ DOMAIN streams' \subseteq DOMAIN streams
  <2>1. CASE ApplyAck
    BY <2>1, KeptTells, DropTells, KeepTells, Zenon DEF ApplyAck
  <2>2. CASE ApplyResumeOk
    BY <2>2, KeptTells, DropTells, KeepTells, Zenon DEF ApplyResumeOk, Drain
  <2>3. CASE \E type \in {"OpenErr", "Reset", "ResumeErr"} : ApplyEnd(type)
    BY <2>3, DropTells DEF ApplyEnd
  <2> QED
    BY <2>1, <2>2, <2>3
<1>2. /\ TakesNoOpen /\ pending' = pending /\ next_id' = next_id
      /\ UNCHANGED <<cmds, drv, resuming, channel, breaks>>
  BY DEF ApplyAck, ApplyResumeOk, ApplyEnd, TakesNoOpen
<1> QED
  BY <1>1, <1>2 DEF Quiet

\* The tunnel and the other side.
Outside ==
  \/ \E same \in Survives : Attach(same)
  \/ Break \/ FrameTooEarly \/ ForeignVersion \/ Helper

\* Nor do the helper and the network.
LEMMA OutsideIsQuiet ==
  ASSUME AppTypes, ControlTypes, Outside
  PROVE  Quiet /\ ControlTypes' /\ UNCHANGED cmds
<1> USE DEF TakesNoOpen, Quiet
<1>1. CASE \E same \in Survives : Attach(same)
  BY <1>1, KeptTells DEF Attach, ControlTypes
<1>2. CASE Break
  BY <1>2, KeptTells, MuxAssumption DEF Break, ControlTypes
<1>3. CASE FrameTooEarly
  BY <1>3, KeptTells DEF FrameTooEarly, ControlTypes
<1>4. CASE ForeignVersion
  BY <1>4, DropTells DEF ForeignVersion, ControlTypes
<1>5. CASE Helper
  <2>1. ClientIdle
    BY <1>5 DEF Helper, HelperFrames, HelperHello, HelperOpen, HelperData, HelperFin, HelperReset,
                HelperResume, HelperAcks, HelperFails
  <2> QED
    BY <2>1, KeptTells DEF ClientIdle, clientVars, ControlTypes
<1> QED
  BY <1>1, <1>2, <1>3, <1>4, <1>5 DEF Outside

\* The queue of one request, place by place.
QueuedAsOne(a, q, p, r) ==
  /\ a[r].st = "asked" <=> \/ \E i \in 1 .. Len(q) : IsOpen(q[i], r)
                           \/ \E i \in 1 .. Len(p) : p[i] = r
  /\ \A i \in 1 .. Len(q), j \in 1 .. Len(p) : ~(IsOpen(q[i], r) /\ p[j] = r)
  /\ \A i, j \in 1 .. Len(q) : IsOpen(q[i], r) /\ IsOpen(q[j], r) => i = j
  /\ \A i, j \in 1 .. Len(p) : p[i] = r /\ p[j] = r => i = j

AllQueued == \A r \in Request : QueuedAsOne(app, cmds, pending, r)

\* Everyone is queued once, said of one request at a time.
LEMMA QueuedIs == QueuedOnce <=> AllQueued
BY DEF QueuedOnce, QueuedAsOne, AllQueued

\* Taking the head of the queue.
LEMMA TailAt ==
  ASSUME NEW S, NEW q \in Seq(S), q # <<>>
  PROVE  /\ Tail(q) \in Seq(S) /\ Len(q) \in Nat /\ Len(q) >= 1 /\ Len(Tail(q)) = Len(q) - 1
         /\ Head(q) = q[1] /\ Head(q) \in S
         /\ \A i \in 1 .. Len(Tail(q)) : Tail(q)[i] = q[i + 1] /\ i + 1 \in 1 .. Len(q) /\ i + 1 # 1
         /\ \A i \in 1 .. Len(q) : i # 1 => i - 1 \in 1 .. Len(Tail(q)) /\ Tail(q)[i - 1] = q[i]
<1>1. /\ Tail(q) \in Seq(S) /\ Len(q) \in Nat /\ Len(q) >= 1
      /\ Len(Tail(q)) = Len(q) - 1
      /\ Head(q) = q[1] /\ Head(q) \in S
      /\ \A i \in 1 .. Len(q) - 1 : Tail(q)[i] = q[i + 1] /\ i + 1 \in 1 .. Len(q)
  BY Left
<1>2. ASSUME NEW i \in 1 .. Len(q), i # 1
      PROVE  i - 1 \in 1 .. Len(q) - 1 /\ Tail(q)[i - 1] = q[i]
  <2>1. i - 1 \in 1 .. Len(q) - 1 /\ (i - 1) + 1 = i
    BY <1>1, <1>2
  <2>2. Tail(q)[i - 1] = q[(i - 1) + 1]
    BY <1>1, <2>1
  <2> QED
    BY <2>1, <2>2
<1>3. \A i \in 1 .. Len(q) - 1 : i + 1 # 1
  BY <1>1
<1> QED
  BY <1>1, <1>2, <1>3

\* A head that opens nothing leaves the queue of every request.
LEMMA QueueQuiet ==
  ASSUME CommandTypes, TakesNoOpen, NEW a, NEW b, NEW p, NEW r, a[r].st = b[r].st,
         QueuedAsOne(a, cmds, p, r)
  PROVE  QueuedAsOne(b, cmds', p, r)
<1>1. CASE cmds' = cmds
  BY <1>1 DEF QueuedAsOne
<1>2. CASE cmds # <<>> /\ cmds' = Tail(cmds) /\ Head(cmds).kind # "Open"
  <2> DEFINE t == Tail(cmds)
  <2>1. /\ Len(cmds) \in Nat /\ Len(t) = Len(cmds) - 1 /\ ~IsOpen(cmds[1], r)
        /\ \A i \in 1 .. Len(t) : t[i] = cmds[i + 1] /\ i + 1 \in 1 .. Len(cmds)
        /\ \A i \in 1 .. Len(cmds) : i # 1 => i - 1 \in 1 .. Len(t) /\ t[i - 1] = cmds[i]
    BY <1>2, TailAt DEF CommandTypes, IsOpen
  <2> HIDE DEF t
  <2>2. (\E i \in 1 .. Len(t) : IsOpen(t[i], r)) <=> (\E i \in 1 .. Len(cmds) : IsOpen(cmds[i], r))
    BY <2>1
  <2>3. \A i, j \in 1 .. Len(t) : IsOpen(t[i], r) /\ IsOpen(t[j], r) => i = j
    <3> SUFFICES ASSUME NEW i \in 1 .. Len(t), NEW j \in 1 .. Len(t), IsOpen(t[i], r), IsOpen(t[j], r)
                 PROVE  i = j
      OBVIOUS
    <3>1. i + 1 = j + 1
      BY <2>1 DEF QueuedAsOne
    <3> QED
      BY <2>1, <3>1
  <2>4. \A i \in 1 .. Len(t), j \in 1 .. Len(p) : ~(IsOpen(t[i], r) /\ p[j] = r)
    BY <2>1 DEF QueuedAsOne
  <2>5. cmds' = t
    BY <1>2 DEF t
  <2> QED
    BY <2>2, <2>3, <2>4, <2>5 DEF QueuedAsOne
<1> QED
  BY <1>1, <1>2 DEF TakesNoOpen

\* A quiet step keeps the books.
LEMMA QuietBooks ==
  ASSUME Books, Quiet, ControlTypes'
  PROVE  Books'
<1> USE DEF Books, Quiet
<1>1. AppTypes'
  BY DEF Tells, AppTypes
<1>2. CommandTypes'
  <2>1. CASE cmds' = cmds
    BY <2>1 DEF CommandTypes
  <2>2. CASE cmds # <<>> /\ cmds' = Tail(cmds)
    <3>1. Tail(cmds) \in Seq(MuxCommand) /\ Len(Tail(cmds)) = Len(cmds) - 1 /\ Len(cmds) \in Nat
          /\ Len(cmds) <= CmdCap /\ CmdCap \in Nat
      BY <2>2, Left, MuxAssumption DEF CommandTypes
    <3>2. Len(Tail(cmds)) <= CmdCap
      BY <3>1
    <3> QED
      BY <2>2, <3>1, <3>2 DEF CommandTypes
  <2> QED
    BY <2>1, <2>2 DEF TakesNoOpen
<1>3. DOMAIN streams' \subseteq Allocated'
  BY DEF Allocated
<1>4. IdsAreOwn'
  BY DEF RequestOnce, IdsAreOwn, Tells, Alike, Allocated
<1>5. QueuedOnce'
  <2>1. \A r \in Request : QueuedAsOne(app, cmds, pending, r)
    BY QueuedIs DEF RequestOnce, AllQueued
  <2>2. \A r \in Request : QueuedAsOne(app', cmds', pending', r)
    <3> TAKE r \in Request
    <3>1. app[r].st = app'[r].st
      BY DEF Tells, Alike
    <3> QED
      BY <2>1, <3>1, QueueQuiet
  <2>3. (QueuedOnce <=> AllQueued)'
    BY QueuedIs, PTL
  <2> QED
    BY <2>2, <2>3 DEF AllQueued
<1> QED
  BY <1>1, <1>2, <1>3, <1>4, <1>5 DEF RequestOnce

\* A command comes in: nothing else of the client's loop changes.
LEMMA CommandComes ==
  ASSUME CommandTypes, NEW c \in MuxCommand, Command(c)
  PROVE  /\ CommandTypes' /\ cmds' = Append(cmds, c) /\ UNCHANGED <<clientVars, c2h, h2c, helper>>
         /\ Len(cmds) \in Nat /\ Len(cmds') = Len(cmds) + 1 /\ cmds'[Len(cmds) + 1] = c
         /\ \A i \in 1 .. Len(cmds) : cmds'[i] = cmds[i]
<1>1. /\ Append(cmds, c) \in Seq(MuxCommand) /\ Len(cmds) \in Nat
      /\ Len(Append(cmds, c)) = Len(cmds) + 1
      /\ Append(cmds, c)[Len(cmds) + 1] = c
      /\ \A i \in 1 .. Len(cmds) : Append(cmds, c)[i] = cmds[i]
  BY Joined DEF CommandTypes
<1>2. Len(cmds) < CmdCap /\ cmds' = Append(cmds, c) /\ CmdCap \in Nat
  BY MuxAssumption DEF Command
<1> QED
  BY <1>1, <1>2 DEF Command, CommandTypes

\* The step of an application: what of it changes.
AppSteps(r) == \A q \in Request : q # r => app'[q] = app[q]

\* What a pump changes of its own request.
LEMMA PumpIs ==
  ASSUME AppTypes, NEW r \in Request, Pump(r)
  PROVE  /\ AppTypes' /\ AppSteps(r) /\ app[r].st = "live" /\ app'[r].st \in {"live", "done"}
         /\ app'[r].id = app[r].id /\ app[r].id \in StreamId
         /\ app[r].wrote \in Nat /\ app[r].wrote <= app'[r].wrote
         /\ app[r].shut => app'[r].shut /\ app'[r].wrote = app[r].wrote
         /\ \/ UNCHANGED <<cmds, clientVars, c2h, h2c, helper>> /\ app'[r].wrote = app[r].wrote /\ app'[r].shut = app[r].shut
            \/ /\ ~app[r].shut /\ ~app'[r].shut /\ app'[r].wrote = app[r].wrote + 1
               /\ Command([kind |-> "LocalData", id |-> app[r].id,
                           data |-> BytesOf(r, app[r].wrote + 1, app[r].wrote + 1)])
            \/ ~app[r].shut /\ app'[r].shut /\ app'[r].wrote = app[r].wrote /\ Command([kind |-> "LocalEof", id |-> app[r].id])
            \/ app'[r].wrote = app[r].wrote /\ app'[r].shut = app[r].shut /\ Command([kind |-> "LocalClose", id |-> app[r].id])
<1>0. /\ app[r].st \in {"idle", "asked", "live", "done"} /\ app[r].wrote \in Nat
      /\ app[r].shut \in BOOLEAN /\ app[r].told \in BOOLEAN /\ app[r].id \in StreamId
  BY AppFields
<1>1. CASE PumpData(r)
  BY <1>0, <1>1 DEF PumpData, AppTypes, App, AppSteps
<1>2. CASE PumpEof(r)
  <2>1. AppTypes' /\ AppSteps(r) /\ app[r].st = "live" /\ ~app[r].shut
    BY <1>0, <1>2 DEF PumpEof, AppTypes, App, AppSteps
  <2>2. app'[r].st = "live" /\ app'[r].id = app[r].id /\ app'[r].wrote = app[r].wrote /\ app'[r].shut
    BY <1>0, <1>2 DEF PumpEof, AppTypes, App
  <2>3. Command([kind |-> "LocalEof", id |-> app[r].id])
    BY <1>2 DEF PumpEof
  <2>4. app[r].wrote <= app'[r].wrote /\ app'[r].st \in {"live", "done"}
    BY <1>0, <2>2
  <2> QED
    BY <1>0, <2>1, <2>2, <2>3, <2>4, Zenon
<1>3. CASE PumpClose(r)
  BY <1>0, <1>3 DEF PumpClose, AppTypes, App, AppSteps
<1>4. CASE PumpTerminates(r)
  BY <1>0, <1>4 DEF PumpTerminates, AppTypes, App, AppSteps
<1> QED
  BY <1>1, <1>2, <1>3, <1>4 DEF Pump

\* The command of a pump, and what its application has done with it.
PumpCommand(c, r) ==
  /\ c \in MuxCommand /\ c.kind # "Open" /\ c.id = app[r].id
  /\ \/ /\ c.kind = "LocalData" /\ ~app[r].shut /\ ~app'[r].shut /\ app'[r].wrote = app[r].wrote + 1
        /\ c.data = BytesOf(r, app[r].wrote + 1, app[r].wrote + 1)
        /\ Position(c) = app[r].wrote + 1
     \/ c.kind = "LocalEof" /\ ~app[r].shut /\ app'[r].shut /\ app'[r].wrote = app[r].wrote
     \/ c.kind = "LocalClose" /\ app'[r].wrote = app[r].wrote /\ app'[r].shut = app[r].shut

Queues(c) ==
  /\ Len(cmds) \in Nat /\ Len(cmds') = Len(cmds) + 1 /\ cmds'[Len(cmds) + 1] = c
  /\ \A i \in 1 .. Len(cmds) : cmds'[i] = cmds[i]

\* A pump adds at most one command, for what it wrote or ended.
LEMMA PumpComes ==
  ASSUME AppTypes, CommandTypes, NEW r \in Request, Pump(r)
  PROVE  /\ CommandTypes' /\ UNCHANGED <<clientVars, c2h, h2c, helper>>
         /\ \/ cmds' = cmds /\ app'[r].wrote = app[r].wrote /\ app'[r].shut = app[r].shut
            \/ \E c : PumpCommand(c, r) /\ Queues(c)
<1>0. app[r].id \in StreamId /\ app[r].wrote \in Nat
  BY PumpIs
<1>1. CASE UNCHANGED <<cmds, clientVars, c2h, h2c, helper>> /\ app'[r].wrote = app[r].wrote /\ app'[r].shut = app[r].shut
  BY <1>1 DEF CommandTypes
<1>2. ASSUME NEW c, PumpCommand(c, r), Command(c)
      PROVE  CommandTypes' /\ UNCHANGED <<clientVars, c2h, h2c, helper>> /\ Queues(c)
  BY <1>2, CommandComes DEF PumpCommand, Queues
<1>3. CASE /\ ~app[r].shut /\ ~app'[r].shut /\ app'[r].wrote = app[r].wrote + 1
           /\ Command([kind |-> "LocalData", id |-> app[r].id,
                       data |-> BytesOf(r, app[r].wrote + 1, app[r].wrote + 1)])
  <2> DEFINE d == BytesOf(r, app[r].wrote + 1, app[r].wrote + 1)
  <2>1. app[r].wrote + 1 \in Nat \ {0}
    BY <1>0
  <2>2. d \in Seq(Byte) /\ d[1] = [req |-> r, at |-> app[r].wrote + 1]
    BY <2>1, OneByte
  <2> HIDE DEF d
  <2> DEFINE c == [kind |-> "LocalData", id |-> app[r].id, data |-> d]
  <2>3. c \in MuxCommand /\ c.kind = "LocalData" /\ c.id = app[r].id /\ c.data = d
    BY <1>0, <2>2 DEF MuxCommand
  <2>4. Position(c) = app[r].wrote + 1
    BY <2>2 DEF Position
  <2>5. Command(c)
    BY <1>3 DEF d
  <2> HIDE DEF c
  <2>6. PumpCommand(c, r)
    BY <1>3, <2>3, <2>4 DEF PumpCommand, d
  <2> QED
    BY <1>2, <2>5, <2>6
<1>4. CASE ~app[r].shut /\ app'[r].shut /\ app'[r].wrote = app[r].wrote /\ Command([kind |-> "LocalEof", id |-> app[r].id])
  <2> DEFINE c == [kind |-> "LocalEof", id |-> app[r].id]
  <2>1. c \in MuxCommand /\ c.kind = "LocalEof" /\ c.id = app[r].id
    BY <1>0 DEF MuxCommand
  <2>2. PumpCommand(c, r) /\ Command(c)
    BY <1>4, <2>1 DEF PumpCommand
  <2> QED
    BY <1>2, <2>2
<1>5. CASE app'[r].wrote = app[r].wrote /\ app'[r].shut = app[r].shut /\ Command([kind |-> "LocalClose", id |-> app[r].id])
  <2> DEFINE c == [kind |-> "LocalClose", id |-> app[r].id]
  <2>1. c \in MuxCommand /\ c.kind = "LocalClose" /\ c.id = app[r].id
    BY <1>0 DEF MuxCommand
  <2>2. PumpCommand(c, r) /\ Command(c)
    BY <1>5, <2>1 DEF PumpCommand
  <2> QED
    BY <1>2, <2>2
<1> QED
  BY <1>1, <1>3, <1>4, <1>5, PumpIs

\* What a command that opens nothing leaves in the queue of a request.
LEMMA QueueGrows ==
  ASSUME NEW c, c.kind # "Open", Queues(c), NEW a, NEW b, NEW p, NEW r, a[r].st = b[r].st,
         QueuedAsOne(a, cmds, p, r)
  PROVE  QueuedAsOne(b, cmds', p, r)
<1>1. /\ Len(cmds) \in Nat /\ Len(cmds') = Len(cmds) + 1 /\ ~IsOpen(cmds'[Len(cmds) + 1], r)
      /\ \A i \in 1 .. Len(cmds) : cmds'[i] = cmds[i] /\ i \in 1 .. Len(cmds')
      /\ \A i \in 1 .. Len(cmds') : i \in 1 .. Len(cmds) \/ i = Len(cmds) + 1
  BY DEF Queues, IsOpen
<1>2. \A i \in 1 .. Len(cmds') : IsOpen(cmds'[i], r) => i \in 1 .. Len(cmds) /\ IsOpen(cmds[i], r)
  BY <1>1
<1>3. \A i \in 1 .. Len(cmds) : IsOpen(cmds[i], r) => i \in 1 .. Len(cmds') /\ IsOpen(cmds'[i], r)
  BY <1>1
<1>4. (\E i \in 1 .. Len(cmds') : IsOpen(cmds'[i], r)) <=> (\E i \in 1 .. Len(cmds) : IsOpen(cmds[i], r))
  BY <1>2, <1>3
<1>5. \A i, j \in 1 .. Len(cmds') : IsOpen(cmds'[i], r) /\ IsOpen(cmds'[j], r) => i = j
  BY <1>2 DEF QueuedAsOne
<1>6. \A i \in 1 .. Len(cmds'), j \in 1 .. Len(p) : ~(IsOpen(cmds'[i], r) /\ p[j] = r)
  BY <1>2 DEF QueuedAsOne
<1> QED
  BY <1>4, <1>5, <1>6 DEF QueuedAsOne

\* A pump keeps the books.
LEMMA PumpBooks ==
  ASSUME Books, NEW r \in Request, Pump(r)
  PROVE  Books'
<1>0. AppTypes /\ CommandTypes /\ ControlTypes /\ DOMAIN streams \subseteq Allocated /\ IdsAreOwn /\ QueuedOnce
  BY DEF Books, RequestOnce
<1>1. /\ AppTypes' /\ AppSteps(r) /\ app[r].st = "live" /\ app'[r].st \in {"live", "done"}
      /\ app'[r].id = app[r].id
  BY <1>0, PumpIs
<1>2. CommandTypes' /\ UNCHANGED <<clientVars, c2h, h2c, helper>>
  BY <1>0, PumpComes
<1>3. ControlTypes' /\ DOMAIN streams' \subseteq Allocated'
  BY <1>0, <1>2 DEF clientVars, ControlTypes, Allocated
<1>4. \A q \in Request : app'[q].id = app[q].id /\ (q # r => app'[q] = app[q])
  BY <1>1 DEF AppSteps
<1>5. app[r].id # 0 /\ next_id' = next_id
  BY <1>0, <1>1, <1>2 DEF IdsAreOwn, clientVars
<1>6. IdsAreOwn'
  <2>1. next_id' # 0
    BY <1>0, <1>5 DEF IdsAreOwn
  <2>2. ASSUME NEW q \in Request
        PROVE  /\ app'[q].st \in {"idle", "asked"} <=> app'[q].id = 0
               /\ app'[q].id < next_id'
               /\ app'[q].id = 0 => app'[q].wrote = 0 /\ ~app'[q].shut
               /\ \A p \in Request : app'[p].id = app'[q].id => p = q \/ app'[q].id = 0
    <3>1. app[q].id < next_id' /\ \A p \in Request : app'[p].id = app'[q].id => p = q \/ app'[q].id = 0
      BY <1>0, <1>4, <1>5 DEF IdsAreOwn
    <3>2. CASE q = r
      BY <1>1, <1>4, <1>5, <3>1, <3>2
    <3>3. CASE q # r
      BY <1>0, <1>4, <3>1, <3>3 DEF IdsAreOwn
    <3> QED
      BY <3>2, <3>3
  <2>3. \A id \in Allocated' : \E q \in Request : app'[q].id = id
    BY <1>0, <1>4, <1>5 DEF IdsAreOwn, Allocated
  <2> QED
    BY <2>1, <2>2, <2>3 DEF IdsAreOwn
<1>7. QueuedOnce'
  <2>1. \A q \in Request : QueuedAsOne(app, cmds, pending, q)
    BY <1>0, QueuedIs DEF AllQueued
  <2>2. pending' = pending
    BY <1>2 DEF clientVars
  <2>3. (cmds' = cmds) \/ \E c : c.kind # "Open" /\ Queues(c)
    BY <1>0, PumpComes DEF PumpCommand
  <2>4. ASSUME NEW q \in Request PROVE QueuedAsOne(app', cmds', pending', q)
    <3>1. (app[q].st = "asked") <=> (app'[q].st = "asked")
      BY <1>1, <1>4
    <3>2. QueuedAsOne(app', cmds, pending', q)
      BY <2>1, <2>2, <3>1 DEF QueuedAsOne
    <3>3. CASE cmds' = cmds
      BY <3>2, <3>3
    <3>4. ASSUME NEW c, c.kind # "Open", Queues(c) PROVE QueuedAsOne(app', cmds', pending', q)
      BY <3>2, <3>4, QueueGrows
    <3> QED
      BY <2>3, <3>3, <3>4
  <2>5. (QueuedOnce <=> AllQueued)'
    BY QueuedIs, PTL
  <2> QED
    BY <2>4, <2>5 DEF AllQueued
<1> QED
  BY <1>1, <1>2, <1>3, <1>6, <1>7 DEF Books, RequestOnce

\* A dial queues its own Open once.
LEMMA DialBooks ==
  ASSUME Books, NEW r \in Request, Dial(r)
  PROVE  Books'
<1>0. AppTypes /\ CommandTypes /\ ControlTypes /\ DOMAIN streams \subseteq Allocated /\ IdsAreOwn /\ QueuedOnce
  BY DEF Books, RequestOnce
<1>1. /\ app[r].st = "idle" /\ AppTypes' /\ app'[r].st = "asked"
      /\ app'[r].id = app[r].id /\ app'[r].wrote = app[r].wrote /\ app'[r].shut = app[r].shut
      /\ \A q \in Request : q # r => app'[q] = app[q]
  BY <1>0, AppFields DEF Dial, AppTypes, App
<1> DEFINE c == [kind |-> "Open", req |-> r]
<1>2. c \in MuxCommand /\ Command(c) /\ c.kind = "Open" /\ c.req = r
  BY DEF Dial, MuxCommand
<1> HIDE DEF c
<1>3. /\ CommandTypes' /\ UNCHANGED <<clientVars, c2h, h2c, helper>>
      /\ Len(cmds) \in Nat /\ Len(cmds') = Len(cmds) + 1 /\ cmds'[Len(cmds) + 1] = c
      /\ \A i \in 1 .. Len(cmds) : cmds'[i] = cmds[i]
  BY <1>0, <1>2, CommandComes
<1>4. ControlTypes' /\ DOMAIN streams' \subseteq Allocated' /\ next_id' = next_id /\ pending' = pending
  BY <1>0, <1>3 DEF clientVars, ControlTypes, Allocated
<1>5. IdsAreOwn'
  <2>1. \A q \in Request : /\ app'[q].id = app[q].id /\ app'[q].wrote = app[q].wrote /\ app'[q].shut = app[q].shut
                           /\ app'[q].st \in {"idle", "asked"} <=> app[q].st \in {"idle", "asked"}
    BY <1>1
  <2> QED
    BY <1>0, <1>4, <2>1 DEF IdsAreOwn, Allocated
<1>6. QueuedOnce'
  <2>1. \A q \in Request : QueuedAsOne(app, cmds, pending, q)
    BY <1>0, QueuedIs DEF AllQueued
  <2>2. ASSUME NEW q \in Request PROVE QueuedAsOne(app', cmds', pending', q)
    <3>1. CASE q # r
      <4>1. /\ \A i \in 1 .. Len(cmds') : IsOpen(cmds'[i], q) => i \in 1 .. Len(cmds) /\ IsOpen(cmds[i], q)
            /\ \A i \in 1 .. Len(cmds) : IsOpen(cmds[i], q) => i \in 1 .. Len(cmds') /\ IsOpen(cmds'[i], q)
        <5>1. \A i \in 1 .. Len(cmds') : i \in 1 .. Len(cmds) \/ i = Len(cmds) + 1
          BY <1>3
        <5>2. ~IsOpen(c, q)
          BY <1>2, <3>1 DEF IsOpen
        <5>3. \A i \in 1 .. Len(cmds) : i \in 1 .. Len(cmds')
          BY <1>3
        <5> QED
          BY <1>3, <5>1, <5>2, <5>3
      <4>2. QueuedAsOne(app, cmds, pending, q) /\ app'[q] = app[q] /\ pending' = pending
        BY <1>1, <1>4, <2>1, <3>1
      <4> HIDE DEF c
      <4> QED
        BY <4>1, <4>2 DEF QueuedAsOne
    <3>2. CASE q = r
      <4>1. /\ \A i \in 1 .. Len(cmds) : ~IsOpen(cmds[i], q)
            /\ \A i \in 1 .. Len(pending) : pending[i] # q
        BY <1>1, <2>1, <3>2 DEF QueuedAsOne
      <4>2. \A i \in 1 .. Len(cmds') : i \in 1 .. Len(cmds) \/ i = Len(cmds) + 1
        BY <1>3
      <4>3. \A i \in 1 .. Len(cmds') : IsOpen(cmds'[i], q) => i = Len(cmds) + 1
        BY <1>3, <4>1, <4>2
      <4>4. Len(cmds) + 1 \in 1 .. Len(cmds') /\ IsOpen(cmds'[Len(cmds) + 1], q)
        BY <1>2, <1>3, <3>2 DEF IsOpen
      <4>5. app'[q].st = "asked"
        BY <1>1, <3>2
      <4> QED
        BY <1>4, <4>1, <4>3, <4>4, <4>5 DEF QueuedAsOne
    <3> QED
      BY <3>1, <3>2
  <2>3. (QueuedOnce <=> AllQueued)'
    BY QueuedIs, PTL
  <2> QED
    BY <2>2, <2>3 DEF AllQueued
<1> QED
  BY <1>1, <1>3, <1>4, <1>5, <1>6 DEF Books, RequestOnce

\* The head of the queue is the one Open of its request.
LEMMA HeadIsOpen ==
  ASSUME Books, Command1("Open"), NEW r, r = Head(cmds).req
  PROVE  /\ r \in Request /\ app[r].st = "asked" /\ app[r].id = 0
         /\ CommandTypes' /\ cmds' = Tail(cmds)
         /\ \A i \in 1 .. Len(cmds') : ~IsOpen(cmds'[i], r)
         /\ \A i \in 1 .. Len(pending) : pending[i] # r
         /\ \A q \in Request : q # r => QueuedAsOne(app, cmds', pending, q)
<1>0. CommandTypes /\ IdsAreOwn /\ QueuedOnce /\ cmds # <<>> /\ Head(cmds).kind = "Open" /\ cmds' = Tail(cmds)
  BY DEF Books, RequestOnce, Command1
<1> DEFINE t == Tail(cmds)
<1>1. /\ t \in Seq(MuxCommand) /\ Len(cmds) \in Nat /\ Len(cmds) >= 1 /\ Len(t) = Len(cmds) - 1
      /\ Head(cmds) = cmds[1] /\ Head(cmds) \in MuxCommand
      /\ \A i \in 1 .. Len(t) : t[i] = cmds[i + 1] /\ i + 1 \in 1 .. Len(cmds) /\ i + 1 # 1
      /\ \A i \in 1 .. Len(cmds) : i # 1 => i - 1 \in 1 .. Len(t) /\ t[i - 1] = cmds[i]
  BY <1>0, TailAt DEF CommandTypes
<1> HIDE DEF t
<1>2. r \in Request /\ 1 \in 1 .. Len(cmds) /\ IsOpen(cmds[1], r)
  BY <1>0, <1>1, CommandFields DEF IsOpen
<1>3. \A q \in Request : QueuedAsOne(app, cmds, pending, q)
  BY <1>0, QueuedIs DEF AllQueued
<1>4. app[r].st = "asked" /\ \A i \in 1 .. Len(pending) : pending[i] # r
  BY <1>2, <1>3 DEF QueuedAsOne
<1>5. app[r].id = 0
  BY <1>0, <1>2, <1>4 DEF IdsAreOwn
<1>6. \A i \in 1 .. Len(t) : ~IsOpen(t[i], r)
  BY <1>1, <1>2, <1>3 DEF QueuedAsOne
<1>7. ASSUME NEW q \in Request, q # r PROVE QueuedAsOne(app, t, pending, q)
  <2>1. ~IsOpen(cmds[1], q)
    BY <1>2, <1>7 DEF IsOpen
  <2>2. (\E i \in 1 .. Len(t) : IsOpen(t[i], q)) <=> (\E i \in 1 .. Len(cmds) : IsOpen(cmds[i], q))
    BY <1>1, <2>1
  <2>3. \A i, j \in 1 .. Len(t) : IsOpen(t[i], q) /\ IsOpen(t[j], q) => i = j
    <3> SUFFICES ASSUME NEW i \in 1 .. Len(t), NEW j \in 1 .. Len(t), IsOpen(t[i], q), IsOpen(t[j], q)
                 PROVE  i = j
      OBVIOUS
    <3>1. i + 1 = j + 1
      BY <1>1, <1>3 DEF QueuedAsOne
    <3> QED
      BY <1>1, <3>1
  <2>4. \A i \in 1 .. Len(t), j \in 1 .. Len(pending) : ~(IsOpen(t[i], q) /\ pending[j] = q)
    BY <1>1, <1>3 DEF QueuedAsOne
  <2> QED
    BY <1>3, <2>2, <2>3, <2>4 DEF QueuedAsOne
<1>8. CommandTypes'
  <2>1. Len(t) <= CmdCap
    BY <1>0, <1>1, MuxAssumption DEF CommandTypes
  <2> QED
    BY <1>0, <1>1, <2>1 DEF CommandTypes, t
<1> QED
  BY <1>0, <1>2, <1>4, <1>5, <1>6, <1>7, <1>8 DEF t

\* An Open that meets no channel moves from the commands to the queued opens.
LEMMA QueueOpenBooks ==
  ASSUME Books, QueueOpen
  PROVE  Books'
<1> DEFINE r == Head(cmds).req
<1>0. AppTypes /\ CommandTypes /\ ControlTypes /\ DOMAIN streams \subseteq Allocated /\ IdsAreOwn /\ QueuedOnce
      /\ Command1("Open") /\ pending' = Append(pending, r) /\ app' = app /\ streams' = streams /\ next_id' = next_id
      /\ UNCHANGED <<drv, resuming, channel, breaks>>
  BY DEF Books, RequestOnce, QueueOpen
<1>1. /\ r \in Request /\ app[r].st = "asked"
      /\ CommandTypes' /\ cmds' = Tail(cmds)
      /\ \A i \in 1 .. Len(cmds') : ~IsOpen(cmds'[i], r)
      /\ \A i \in 1 .. Len(pending) : pending[i] # r
      /\ \A q \in Request : q # r => QueuedAsOne(app, cmds', pending, q)
  BY <1>0, HeadIsOpen
<1> HIDE DEF r
<1>2. /\ pending' \in Seq(Request) /\ Len(pending) \in Nat /\ Len(pending') = Len(pending) + 1
      /\ pending'[Len(pending) + 1] = r
      /\ \A i \in 1 .. Len(pending) : pending'[i] = pending[i]
  BY <1>0, <1>1, Joined DEF ControlTypes
<1>3. AppTypes' /\ ControlTypes' /\ DOMAIN streams' \subseteq Allocated' /\ IdsAreOwn'
  BY <1>0, <1>2 DEF AppTypes, ControlTypes, Allocated, IdsAreOwn
<1>4. /\ \A i \in 1 .. Len(pending') : i \in 1 .. Len(pending) \/ i = Len(pending) + 1
      /\ \A i \in 1 .. Len(pending) : i \in 1 .. Len(pending')
      /\ Len(pending) + 1 \in 1 .. Len(pending')
  BY <1>2
<1>5. ASSUME NEW q \in Request PROVE QueuedAsOne(app', cmds', pending', q)
  <2>1. CASE q # r
    <3>1. QueuedAsOne(app, cmds', pending, q)
      BY <1>1, <2>1
    <3>2. /\ \A i \in 1 .. Len(pending') : pending'[i] = q => i \in 1 .. Len(pending) /\ pending[i] = q
          /\ \A i \in 1 .. Len(pending) : pending[i] = q => i \in 1 .. Len(pending') /\ pending'[i] = q
      BY <1>2, <1>4, <2>1
    <3> QED
      BY <1>0, <3>1, <3>2 DEF QueuedAsOne
  <2>2. CASE q = r
    <3>1. \A i \in 1 .. Len(pending') : pending'[i] = q <=> i = Len(pending) + 1
      BY <1>1, <1>2, <1>4, <2>2
    <3>2. app'[q].st = "asked" /\ \A i \in 1 .. Len(cmds') : ~IsOpen(cmds'[i], q)
      BY <1>0, <1>1, <2>2
    <3> QED
      BY <1>4, <3>1, <3>2 DEF QueuedAsOne
  <2> QED
    BY <2>1, <2>2
<1>6. (QueuedOnce <=> AllQueued)'
  BY QueuedIs, PTL
<1> QED
  BY <1>1, <1>3, <1>5, <1>6 DEF Books, RequestOnce, AllQueued

\* Opening: the requests that waited have the next ids, and the others what they had.
LEMMA OpenedApp ==
  ASSUME Books, NEW ss, DOMAIN ss \subseteq Allocated,
         NEW a \in [Request -> App], \A r \in Request : Alike(a[r], app[r]), NEW out,
         NEW reqs, Waiting(reqs), OpenStreams(ss, a, out, reqs)
  PROVE  /\ Opened(ss, a, out, reqs) /\ app' \in [Request -> App]
         /\ \A i \in 1 .. Len(reqs) :
              /\ reqs[i] \in Request /\ app'[reqs[i]].st = "live" /\ app'[reqs[i]].id = next_id + i - 1
              /\ app'[reqs[i]].wrote = 0 /\ ~app'[reqs[i]].shut
         /\ \A r \in Request : (\A i \in 1 .. Len(reqs) : reqs[i] # r) => Alike(app'[r], app[r])
<1>0. AppTypes /\ ControlTypes /\ IdsAreOwn
  BY DEF Books, RequestOnce
<1>1. Opened(ss, a, out, reqs)
  BY <1>0, OpensAre
<1>2. next_id \in Nat \ {0} /\ Len(reqs) \in Nat /\ next_id + Len(reqs) < IdSpace /\ IdSpace \in Nat
  BY <1>0, <1>1, IdFacts DEF Opened, IdsAreOwn
<1>3. ASSUME NEW i \in 1 .. Len(reqs)
      PROVE  /\ reqs[i] \in Request /\ app'[reqs[i]] \in App
             /\ app'[reqs[i]].st = "live" /\ app'[reqs[i]].id = next_id + i - 1
             /\ app'[reqs[i]].wrote = 0 /\ ~app'[reqs[i]].shut
  <2>1. reqs[i] \in Request /\ app[reqs[i]].id = 0
    BY <1>2 DEF Waiting
  <2>2. app[reqs[i]].wrote = 0 /\ ~app[reqs[i]].shut
    BY <1>0, <2>1 DEF IdsAreOwn
  <2> DEFINE b == a[reqs[i]]
             new == next_id + i - 1
  <2>3. b \in App /\ b.wrote = 0 /\ b.shut = FALSE
    BY <2>1, <2>2 DEF Alike, App
  <2>4. new \in StreamId
    BY <1>2 DEF StreamId
  <2>5. app'[reqs[i]] = [b EXCEPT !.st = "live", !.id = new]
    BY <1>1 DEF Opened
  <2> HIDE DEF b, new
  <2>6. /\ app'[reqs[i]] \in App /\ app'[reqs[i]].st = "live" /\ app'[reqs[i]].id = new
        /\ app'[reqs[i]].wrote = 0 /\ app'[reqs[i]].shut = FALSE
    BY <2>3, <2>4, <2>5 DEF App
  <2> QED
    BY <2>1, <2>6 DEF new
<1>4. ASSUME NEW r \in Request, \A i \in 1 .. Len(reqs) : reqs[i] # r
      PROVE  Alike(app'[r], app[r]) /\ app'[r] \in App
  <2>1. app'[r] = a[r]
    BY <1>1, <1>4 DEF Opened
  <2> QED
    BY <2>1
<1>5. \A r \in Request : app'[r] \in App
  BY <1>3, <1>4
<1>6. app' \in [Request -> App]
  BY <1>1, <1>5 DEF Opened
<1> QED
  BY <1>1, <1>3, <1>4, <1>6

\* Opening gives new ids to those who waited and had none.
LEMMA OpenedIds ==
  ASSUME Books, NEW ss, DOMAIN ss \subseteq Allocated,
         NEW a \in [Request -> App], \A r \in Request : Alike(a[r], app[r]), NEW out,
         NEW reqs, Waiting(reqs), OpenStreams(ss, a, out, reqs)
  PROVE  AppTypes' /\ next_id' \in StreamId /\ DOMAIN streams' \subseteq Allocated' /\ IdsAreOwn'
<1>0. AppTypes /\ ControlTypes /\ IdsAreOwn
  BY DEF Books, RequestOnce
<1>1. /\ Opened(ss, a, out, reqs) /\ app' \in [Request -> App]
      /\ \A i \in 1 .. Len(reqs) :
           /\ reqs[i] \in Request /\ app'[reqs[i]].st = "live" /\ app'[reqs[i]].id = next_id + i - 1
           /\ app'[reqs[i]].wrote = 0 /\ ~app'[reqs[i]].shut
      /\ \A r \in Request : (\A i \in 1 .. Len(reqs) : reqs[i] # r) => Alike(app'[r], app[r])
  BY OpenedApp
<1>2. /\ next_id \in Nat \ {0} /\ Len(reqs) \in Nat /\ next_id + Len(reqs) < IdSpace /\ IdSpace \in Nat
      /\ next_id' = next_id + Len(reqs)
      /\ \A id : id \in Allocated <=> id \in Nat /\ 1 <= id /\ id < next_id
  BY <1>0, <1>1, IdFacts DEF Opened, IdsAreOwn
<1>3. next_id' \in StreamId /\ \A id : id \in Allocated' <=> id \in Nat /\ 1 <= id /\ id < next_id'
  BY <1>2 DEF StreamId, Allocated
<1>4. DOMAIN streams' \subseteq Allocated'
  <2>1. DOMAIN streams' = DOMAIN ss \cup {id \in Nat : next_id <= id /\ id < next_id'}
    BY <1>1 DEF Opened
  <2>2. \A id \in DOMAIN ss : id \in Allocated
    OBVIOUS
  <2>3. ASSUME NEW id \in DOMAIN streams' PROVE id \in Nat /\ 1 <= id /\ id < next_id'
    <3>1. CASE id \in DOMAIN ss
      BY <1>2, <2>2, <3>1
    <3>2. CASE id \notin DOMAIN ss
      BY <1>2, <2>1, <3>2
    <3> QED
      BY <3>1, <3>2
  <2> QED
    BY <1>3, <2>3
<1>5. ASSUME NEW r \in Request
      PROVE  \/ \E i \in 1 .. Len(reqs) : reqs[i] = r
             \/ /\ \A i \in 1 .. Len(reqs) : reqs[i] # r
                /\ app'[r].st = app[r].st /\ app'[r].wrote = app[r].wrote /\ app'[r].shut = app[r].shut
                /\ app'[r].id = app[r].id /\ app[r].id \in Nat /\ app[r].id < next_id
  BY <1>0, <1>1 DEF Alike, IdsAreOwn, AppTypes, App, StreamId
<1>6. ASSUME NEW r \in Request
      PROVE  /\ app'[r].st \in {"idle", "asked"} <=> app'[r].id = 0
             /\ app'[r].id < next_id'
             /\ app'[r].id = 0 => app'[r].wrote = 0 /\ ~app'[r].shut
  <2>1. CASE \E i \in 1 .. Len(reqs) : reqs[i] = r
    <3>1. PICK i \in 1 .. Len(reqs) : reqs[i] = r
      BY <2>1
    <3>2. app'[r].st = "live" /\ app'[r].id = next_id + i - 1
      BY <1>1, <3>1
    <3> QED
      BY <1>2, <3>2
  <2>2. CASE \A i \in 1 .. Len(reqs) : reqs[i] # r
    <3>1. app'[r].st = app[r].st /\ app'[r].wrote = app[r].wrote /\ app'[r].shut = app[r].shut
          /\ app'[r].id = app[r].id /\ app[r].id \in Nat /\ app[r].id < next_id
      BY <1>5, <2>2
    <3>2. app'[r].id < next_id'
      BY <1>2, <3>1
    <3> QED
      BY <1>0, <3>1, <3>2 DEF IdsAreOwn
  <2> QED
    BY <2>1, <2>2
<1>7. ASSUME NEW r \in Request, NEW q \in Request, app'[q].id = app'[r].id
      PROVE  q = r \/ app'[r].id = 0
  <2>1. CASE (\E i \in 1 .. Len(reqs) : reqs[i] = r) /\ (\E i \in 1 .. Len(reqs) : reqs[i] = q)
    <3>1. PICK i, j \in 1 .. Len(reqs) : reqs[i] = r /\ reqs[j] = q
      BY <2>1
    <3>2. next_id + i - 1 = next_id + j - 1
      BY <1>1, <1>7, <3>1
    <3> QED
      BY <1>2, <3>1, <3>2
  <2>2. CASE (\E i \in 1 .. Len(reqs) : reqs[i] = r) /\ ~(\E i \in 1 .. Len(reqs) : reqs[i] = q)
    <3>1. PICK i \in 1 .. Len(reqs) : reqs[i] = r
      BY <2>2
    <3>2. app'[r].id = next_id + i - 1 /\ app'[q].id \in Nat /\ app'[q].id < next_id
      BY <1>1, <1>5, <2>2, <3>1
    <3> QED
      BY <1>2, <1>7, <3>2
  <2>3. CASE ~(\E i \in 1 .. Len(reqs) : reqs[i] = r) /\ (\E i \in 1 .. Len(reqs) : reqs[i] = q)
    <3>1. PICK i \in 1 .. Len(reqs) : reqs[i] = q
      BY <2>3
    <3>2. app'[q].id = next_id + i - 1 /\ app'[r].id \in Nat /\ app'[r].id < next_id
      BY <1>1, <1>5, <2>3, <3>1
    <3> QED
      BY <1>2, <1>7, <3>2
  <2>4. CASE ~(\E i \in 1 .. Len(reqs) : reqs[i] = r) /\ ~(\E i \in 1 .. Len(reqs) : reqs[i] = q)
    <3>1. app'[q].id = app[q].id /\ app'[r].id = app[r].id
      BY <1>5, <2>4
    <3>2. app[q].id = app[r].id => q = r \/ app[r].id = 0
      BY <1>0 DEF IdsAreOwn
    <3> QED
      BY <1>7, <3>1, <3>2
  <2> QED
    BY <2>1, <2>2, <2>3, <2>4
<1>8. ASSUME NEW id \in Allocated' PROVE \E r \in Request : app'[r].id = id
  <2>1. CASE id \in Allocated
    <3>1. PICK r \in Request : app[r].id = id
      BY <1>0, <2>1 DEF IdsAreOwn
    <3>2. \A i \in 1 .. Len(reqs) : reqs[i] # r
      BY <1>2, <2>1, <3>1 DEF Waiting
    <3> QED
      BY <1>5, <3>1, <3>2
  <2>2. CASE id \notin Allocated
    <3>1. id - next_id + 1 \in 1 .. Len(reqs) /\ next_id + (id - next_id + 1) - 1 = id
      BY <1>2, <1>3, <2>2
    <3> QED
      BY <1>1, <3>1
  <2> QED
    BY <2>1, <2>2
<1>9. IdsAreOwn'
  <2>1. next_id' # 0
    BY <1>2
  <2> QED
    BY <1>6, <1>7, <1>8, <2>1 DEF IdsAreOwn
<1> QED
  BY <1>1, <1>3, <1>4, <1>9 DEF AppTypes

\* An Open that meets a channel is opened, and is queued no more.
LEMMA HandleOpenBooks ==
  ASSUME Books, HandleOpen
  PROVE  /\ Books'
         /\ Waiting(<<Head(cmds).req>>) /\ Opened(streams, app, <<>>, <<Head(cmds).req>>)
<1>1. PICK r : r = Head(cmds).req
  OBVIOUS
<1>2. PICK reqs : reqs = <<r>>
  OBVIOUS
<1>3. /\ Command1("Open") /\ OpenStreams(streams, app, <<>>, reqs)
      /\ UNCHANGED <<pending, drv, resuming, channel, breaks, h2c, helper>>
  BY <1>1, <1>2 DEF HandleOpen
<1>4. /\ r \in Request /\ app[r].st = "asked" /\ app[r].id = 0
      /\ CommandTypes' /\ cmds' = Tail(cmds)
      /\ \A i \in 1 .. Len(cmds') : ~IsOpen(cmds'[i], r)
      /\ \A i \in 1 .. Len(pending) : pending[i] # r
      /\ \A q \in Request : q # r => QueuedAsOne(app, cmds', pending, q)
  BY <1>1, <1>3, HeadIsOpen
<1>5. /\ reqs \in Seq(Request) /\ Len(reqs) = 1 /\ reqs[1] = r
  BY <1>2, <1>4
<1>6. Waiting(reqs)
  BY <1>4, <1>5 DEF Waiting
<1>7. app \in [Request -> App] /\ (\A q \in Request : Alike(app[q], app[q])) /\ DOMAIN streams \subseteq Allocated
      /\ ControlTypes
  BY DEF Books, AppTypes, Alike
<1>8. /\ Opened(streams, app, <<>>, reqs)
      /\ \A i \in 1 .. Len(reqs) : app'[reqs[i]].st = "live"
      /\ \A q \in Request : (\A i \in 1 .. Len(reqs) : reqs[i] # q) => Alike(app'[q], app[q])
  BY <1>3, <1>6, <1>7, OpenedApp
<1>9. AppTypes' /\ next_id' \in StreamId /\ DOMAIN streams' \subseteq Allocated' /\ IdsAreOwn'
  BY <1>3, <1>6, <1>7, OpenedIds
<1>10. ControlTypes'
  BY <1>3, <1>7, <1>9 DEF ControlTypes
<1>11. ASSUME NEW q \in Request PROVE QueuedAsOne(app', cmds', pending', q)
  <2>1. CASE q # r
    <3>1. \A i \in 1 .. Len(reqs) : reqs[i] # q
      BY <1>5, <2>1
    <3>2. Alike(app'[q], app[q]) /\ QueuedAsOne(app, cmds', pending, q) /\ pending' = pending
      BY <1>3, <1>4, <1>8, <2>1, <3>1
    <3> QED
      BY <3>2 DEF QueuedAsOne, Alike
  <2>2. CASE q = r
    <3>1. app'[q].st = "live" /\ pending' = pending
      BY <1>3, <1>5, <1>8, <2>2
    <3> QED
      BY <1>4, <2>2, <3>1 DEF QueuedAsOne
  <2> QED
    BY <2>1, <2>2
<1>12. (QueuedOnce <=> AllQueued)'
  BY QueuedIs, PTL
<1> QED
  BY <1>1, <1>2, <1>4, <1>6, <1>8, <1>9, <1>10, <1>11, <1>12 DEF Books, RequestOnce, AllQueued

\* What the handshake opens the queue on: the streams that were, or none.
AckStreams == IF resuming /\ ~Head(h2c).resumed THEN NoStreams ELSE streams
AckApp == IF resuming /\ ~Head(h2c).resumed THEN Told(app, DOMAIN streams) ELSE app
AckOut == IF resuming /\ Head(h2c).resumed THEN Resumes ELSE <<>>

\* The queued opens are opened behind HelloAck.
LEMMA HelloAckBooks ==
  ASSUME Books, HandleHelloAck
  PROVE  /\ Books'
         /\ Waiting(pending) /\ Opened(AckStreams, AckApp, AckOut, pending)
<1>0. AppTypes /\ CommandTypes /\ ControlTypes /\ DOMAIN streams \subseteq Allocated /\ IdsAreOwn /\ QueuedOnce
  BY DEF Books, RequestOnce
<1>1. OpenStreams(AckStreams, AckApp, AckOut, pending)
  <2>1. Without(streams, DOMAIN streams) = NoStreams
    BY DEF Without, NoStreams
  <2>2. CASE resuming /\ ~Head(h2c).resumed
    BY <2>1, <2>2 DEF HandleHelloAck, AckStreams, AckApp, AckOut
  <2>3. CASE ~(resuming /\ ~Head(h2c).resumed)
    <3>1. OpenStreams(streams, app, IF resuming THEN Resumes ELSE <<>>, pending)
      BY <2>3 DEF HandleHelloAck
    <3>2. AckStreams = streams /\ AckApp = app /\ AckOut = IF resuming THEN Resumes ELSE <<>>
      BY <2>3 DEF AckStreams, AckApp, AckOut
    <3> QED
      BY <3>1, <3>2
  <2> QED
    BY <2>2, <2>3
<1>2. drv' = "up" /\ pending' = <<>> /\ UNCHANGED <<cmds, resuming, channel, breaks, helper>>
  BY DEF HandleHelloAck
<1>3. /\ DOMAIN AckStreams \subseteq Allocated
      /\ AckApp \in [Request -> App] /\ \A r \in Request : Alike(AckApp[r], app[r])
  BY <1>0, ToldKeeps DEF AckStreams, AckApp, NoStreams, AppTypes, Alike
<1>4. \A r \in Request : QueuedAsOne(app, cmds, pending, r)
  BY <1>0, QueuedIs DEF AllQueued
<1>5. Waiting(pending)
  <2>1. pending \in Seq(Request) /\ \A i \in 1 .. Len(pending) : pending[i] \in Request
    BY <1>0, ElementOfSeq DEF ControlTypes
  <2>2. \A i \in 1 .. Len(pending) : app[pending[i]].id = 0
    BY <1>0, <1>4, <2>1 DEF QueuedAsOne, IdsAreOwn
  <2>3. \A i, j \in 1 .. Len(pending) : pending[i] = pending[j] => i = j
    BY <1>4, <2>1 DEF QueuedAsOne
  <2> QED
    BY <2>1, <2>2, <2>3 DEF Waiting
<1>6. /\ Opened(AckStreams, AckApp, AckOut, pending)
      /\ \A i \in 1 .. Len(pending) : app'[pending[i]].st = "live"
      /\ \A q \in Request : (\A i \in 1 .. Len(pending) : pending[i] # q) => Alike(app'[q], app[q])
  BY <1>1, <1>3, <1>5, OpenedApp
<1>7. AppTypes' /\ next_id' \in StreamId /\ DOMAIN streams' \subseteq Allocated' /\ IdsAreOwn'
  BY <1>1, <1>3, <1>5, OpenedIds
<1>8. ControlTypes' /\ CommandTypes' /\ pending' = <<>> /\ Len(pending') = 0
  BY <1>0, <1>2, <1>7, EmptySeq DEF ControlTypes, CommandTypes
<1>9. ASSUME NEW q \in Request PROVE QueuedAsOne(app', cmds', pending', q)
  <2>1. CASE \A i \in 1 .. Len(pending) : pending[i] # q
    <3>1. Alike(app'[q], app[q]) /\ cmds' = cmds
      BY <1>2, <1>6, <2>1
    <3>2. QueuedAsOne(app, cmds, pending, q)
      BY <1>4
    <3>3. \A i \in 1 .. Len(pending') : FALSE
      BY <1>8
    <3> QED
      BY <2>1, <3>1, <3>2, <3>3 DEF QueuedAsOne, Alike
  <2>2. CASE ~ \A i \in 1 .. Len(pending) : pending[i] # q
    <3>1. app'[q].st = "live" /\ \A i \in 1 .. Len(cmds') : ~IsOpen(cmds'[i], q)
      BY <1>2, <1>4, <1>6, <2>2 DEF QueuedAsOne
    <3>3. \A i \in 1 .. Len(pending') : FALSE
      BY <1>8
    <3> QED
      BY <3>1, <3>3 DEF QueuedAsOne
  <2> QED
    BY <2>1, <2>2
<1>10. (QueuedOnce <=> AllQueued)'
  BY QueuedIs, PTL
<1> QED
  BY <1>5, <1>6, <1>7, <1>8, <1>9, <1>10 DEF Books, RequestOnce, AllQueued

\* The books at the start.
LEMMA BooksInit ==
  ASSUME Init PROVE Books
<1>1. IdSpace \in Nat /\ IdSpace > 1 /\ CmdCap \in Nat \ {0} /\ MaxBreaks \in Nat
  BY MuxAssumption, FS_CardinalityType
<1>2. cmds = <<>> /\ Len(cmds) = 0 /\ pending = <<>> /\ Len(pending) = 0 /\ next_id = 1 /\ DOMAIN streams = {}
      /\ drv = "wait" /\ resuming = FALSE /\ channel = 0 /\ breaks = 0
  BY EmptySeq DEF Init, NoStreams
<1>3. 0 \in StreamId /\ 1 \in StreamId
  BY <1>1 DEF StreamId
<1>4. AppTypes /\ \A r \in Request : app[r].st = "idle" /\ app[r].id = 0 /\ app[r].wrote = 0 /\ app[r].shut = FALSE
  BY <1>3 DEF Init, AppTypes, App
<1>5. CommandTypes /\ ControlTypes /\ DOMAIN streams \subseteq Allocated
  <2>1. CommandTypes
    BY <1>1, <1>2, EmptySeq DEF CommandTypes
  <2>2. ControlTypes
    <3>1. pending \in Seq(Request)
      BY <1>2, EmptySeq
    <3>2. next_id \in StreamId /\ channel \in Nat /\ breaks \in 0 .. MaxBreaks
      BY <1>1, <1>2, <1>3
    <3> QED
      BY <1>2, <3>1, <3>2 DEF ControlTypes
  <2> QED
    BY <1>2, <2>1, <2>2
<1>6. IdsAreOwn
  <2>1. Allocated = {}
    BY <1>2 DEF Allocated
  <2> QED
    BY <1>2, <1>4, <2>1 DEF IdsAreOwn
<1>7. AllQueued
  BY <1>2, <1>4 DEF AllQueued, QueuedAsOne
<1> QED
  BY <1>4, <1>5, <1>6, <1>7, QueuedIs DEF Books, RequestOnce

\* Every step keeps the books.
LEMMA BooksStep ==
  ASSUME Books, [Next]_vars PROVE Books'
<1>0. AppTypes /\ ControlTypes
  BY DEF Books
<1>1. ASSUME NEW r \in Request, Dial(r) PROVE Books'
  BY <1>1, DialBooks
<1>2. ASSUME NEW r \in Request, Pump(r) PROVE Books'
  BY <1>2, PumpBooks
<1>3. CASE Outside
  BY <1>0, <1>3, OutsideIsQuiet, QuietBooks
<1>4. CASE Offline
  <2>1. CASE QueueOpen
    BY <2>1, QueueOpenBooks
  <2>2. CASE BufferData \/ BufferEof \/ BufferClose
    <3>1. Quiet /\ UNCHANGED <<drv, resuming, channel, breaks>>
      BY <1>0, <2>2, OthersAreQuiet
    <3> QED
      BY <1>0, <3>1, QuietBooks DEF ControlTypes, Quiet
  <2> QED
    BY <1>4, <2>1, <2>2 DEF Offline
<1>5. CASE Commands
  <2>1. CASE HandleOpen
    BY <2>1, HandleOpenBooks
  <2>2. CASE HandleLocalData \/ HandleLocalEof \/ HandleLocalClose
    <3>1. Quiet /\ UNCHANGED <<drv, resuming, channel, breaks>>
      BY <1>0, <2>2, CommandsAreQuiet
    <3> QED
      BY <1>0, <3>1, QuietBooks DEF ControlTypes, Quiet
  <2> QED
    BY <1>5, <2>1, <2>2 DEF Commands
<1>6. CASE Frames
  <2>1. CASE HandleHelloAck
    BY <2>1, HelloAckBooks
  <2>2. CASE FrameTooEarly
    BY <1>3, <2>2 DEF Outside
  <2>3. CASE ApplyAck \/ ApplyResumeOk \/ \E type \in {"OpenErr", "Reset", "ResumeErr"} : ApplyEnd(type)
    <3>1. Quiet /\ UNCHANGED <<drv, resuming, channel, breaks>>
      BY <1>0, <2>3, FramesAreQuiet
    <3> QED
      BY <1>0, <3>1, QuietBooks DEF ControlTypes, Quiet
  <2> QED
    BY <1>6, <2>1, <2>2, <2>3 DEF Frames
<1>7. CASE UNCHANGED vars
  <2>1. Quiet /\ ControlTypes'
    BY <1>0, <1>7, KeptTells DEF vars, clientVars, Quiet, TakesNoOpen, ControlTypes
  <2> QED
    BY <2>1, QuietBooks
<1> QED
  BY <1>1, <1>2, <1>3, <1>4, <1>5, <1>6, <1>7 DEF Next, Driver, Outside

\* A request is queued once, in one place, until it is opened, and then nowhere,
\* and an id is given once (dial, the supervisor's queue and alloc_stream).
THEOREM RequestsAreOpenedOnce == Spec => []RequestOnce
<1>1. Init => Books
  BY BooksInit
<1>2. Books /\ [Next]_vars => Books'
  BY BooksStep
<1>3. Books => RequestOnce
  BY DEF Books
<1> QED
  BY <1>1, <1>2, <1>3, PTL DEF Spec

-----------------------------------------------------------------------------
(* A stream of the client, its bytes, and the commands behind it.          *)

\* The parts of Joins: the stream, the queue q behind it, and the helper.
Fits(id, s, a) ==
  /\ s \in StreamState /\ GoodTx(s.tx, s.req)
  /\ id # 0 /\ a[s.req].id = id
  /\ WriteOffset(s.tx) <= a[s.req].wrote
  /\ s.local_fin => a[s.req].shut /\ WriteOffset(s.tx) = a[s.req].wrote

Row(id, end, wrote, q) ==
  /\ \A i \in 1 .. Len(q) : IsData(q[i], id) => end < Position(q[i])
  /\ \A b \in end + 1 .. wrote : \E i \in 1 .. Len(q) : IsData(q[i], id) /\ Position(q[i]) = b

Behind(id, s) == id \in DOMAIN Held => s.tx.acked <= Len(Held[id].got)

\* What the fields of a stream are.
LEMMA StreamFields ==
  ASSUME NEW s \in StreamState
  PROVE  /\ s.req \in Request /\ s.tx \in SendBuffer(Byte) /\ s.local_fin \in BOOLEAN /\ s.born \in Nat
         /\ s.tx.acked \in Nat /\ s.tx.cursor \in Nat /\ WriteOffset(s.tx) \in Nat
BY BufferFields DEF StreamState

\* What joins a stream to its request and its commands.
LEMMA JoinsIs ==
  ASSUME NEW id, NEW s \in StreamState
  PROVE  Joins(id, s) <=>
           /\ Fits(id, s, app) /\ s.born <= channel
           /\ Row(id, WriteOffset(s.tx), app[s.req].wrote, cmds)
           /\ Behind(id, s)
BY StreamFields DEF Joins, Fits, Row, Behind, GoodTx, Owns

\* Each stream of the client, and each command of it.
AllJoin == \A id \in DOMAIN streams : Joins(id, streams[id])

\* A queued command carries what its request wrote.
LEMMA CommandIs ==
  ASSUME CommandTypes, CommandsFollow, NEW i \in 1 .. Len(cmds), cmds[i].kind # "Open",
         NEW r \in Request, app[r].id = cmds[i].id
  PROVE  /\ cmds[i] \in MuxCommand
         /\ cmds[i].kind = "LocalEof" => app[r].shut
         /\ cmds[i].kind = "LocalData" =>
              \E at \in 1 .. app[r].wrote : cmds[i].data = BytesOf(r, at, at)
         /\ cmds[i].kind = "LocalData" => \A j \in 1 .. i - 1 :
              /\ cmds[j].kind = "LocalEof" => cmds[j].id # cmds[i].id
              /\ IsData(cmds[j], cmds[i].id) => Position(cmds[j]) < Position(cmds[i])
BY ElementOfSeq DEF CommandTypes, CommandsFollow

\* A data command carries one byte of its request.
LEMMA OneByteEach ==
  ASSUME AppTypes, CommandTypes, CommandsFollow, NEW i \in 1 .. Len(cmds), NEW r \in Request,
         IsData(cmds[i], app[r].id)
  PROVE  \E at \in 1 .. app[r].wrote :
           /\ Position(cmds[i]) = at /\ cmds[i].data \in Seq(Byte) /\ Len(cmds[i].data) = 1
           /\ Carries(cmds[i].data, r, at - 1)
<1>1. cmds[i].kind = "LocalData" /\ cmds[i].id = app[r].id /\ app[r].wrote \in Nat
  BY AppFields DEF IsData
<1>2. PICK at \in 1 .. app[r].wrote : cmds[i].data = BytesOf(r, at, at)
  BY <1>1, CommandIs
<1>3. at \in Nat \ {0}
  BY <1>1
<1>4. /\ BytesOf(r, at, at) \in Seq(Byte) /\ Len(BytesOf(r, at, at)) = 1
      /\ Carries(BytesOf(r, at, at), r, at - 1)
      /\ BytesOf(r, at, at)[1] = [req |-> r, at |-> at]
  BY <1>3, OneByte
<1>5. Position(cmds[i]) = at
  BY <1>2, <1>4 DEF Position
<1> QED
  BY <1>2, <1>4, <1>5

\* Taking a command that is not data of the stream leaves its row.
LEMMA RowTail ==
  ASSUME CommandTypes, cmds # <<>>, NEW id, ~IsData(Head(cmds), id), NEW end, NEW wrote,
         Row(id, end, wrote, cmds)
  PROVE  Row(id, end, wrote, Tail(cmds))
<1> DEFINE t == Tail(cmds)
<1>1. /\ Head(cmds) = cmds[1]
      /\ \A i \in 1 .. Len(t) : t[i] = cmds[i + 1] /\ i + 1 \in 1 .. Len(cmds)
      /\ \A i \in 1 .. Len(cmds) : i # 1 => i - 1 \in 1 .. Len(t) /\ t[i - 1] = cmds[i]
  BY TailAt DEF CommandTypes
<1> HIDE DEF t
<1>2. \A i \in 1 .. Len(t) : IsData(t[i], id) => end < Position(t[i])
  BY <1>1 DEF Row
<1>3. ASSUME NEW b \in end + 1 .. wrote
      PROVE  \E i \in 1 .. Len(t) : IsData(t[i], id) /\ Position(t[i]) = b
  <2>1. PICK i \in 1 .. Len(cmds) : IsData(cmds[i], id) /\ Position(cmds[i]) = b
    BY DEF Row
  <2>2. i # 1
    BY <1>1, <2>1
  <2> QED
    BY <1>1, <2>1, <2>2
<1> QED
  BY <1>2, <1>3 DEF Row, t

\* The commands still go on from a buffer when another's command is taken.
LEMMA RowTakes ==
  ASSUME CommandTypes, NEW id, NEW end, NEW wrote, Row(id, end, wrote, cmds),
         \/ cmds' = cmds
         \/ cmds # <<>> /\ cmds' = Tail(cmds) /\ ~IsData(Head(cmds), id)
  PROVE  Row(id, end, wrote, cmds')
BY RowTail

\* Taking data of the stream: it is the byte that comes next, and the row moves on.
LEMMA RowPops ==
  ASSUME AppTypes, CommandTypes, CommandsFollow, cmds # <<>>, NEW r \in Request, NEW end \in Nat,
         end <= app[r].wrote, IsData(Head(cmds), app[r].id), Row(app[r].id, end, app[r].wrote, cmds)
  PROVE  /\ end < app[r].wrote /\ Head(cmds).data \in Seq(Byte) /\ Len(Head(cmds).data) = 1
         /\ Carries(Head(cmds).data, r, end)
         /\ Row(app[r].id, end + 1, app[r].wrote, Tail(cmds))
<1> DEFINE t == Tail(cmds)
<1>0. PICK id : id = app[r].id
  OBVIOUS
<1>1. PICK wrote \in Nat : wrote = app[r].wrote
  BY AppFields
<1>2. /\ Head(cmds) = cmds[1] /\ 1 \in 1 .. Len(cmds) /\ Len(cmds) \in Nat /\ Len(t) = Len(cmds) - 1
      /\ \A i \in 1 .. Len(t) : t[i] = cmds[i + 1] /\ i + 1 \in 1 .. Len(cmds) /\ i + 1 # 1
      /\ \A i \in 1 .. Len(cmds) : i # 1 => i - 1 \in 1 .. Len(t) /\ t[i - 1] = cmds[i]
  BY TailAt DEF CommandTypes
<1>3. PICK at \in 1 .. wrote : /\ Position(cmds[1]) = at /\ cmds[1].data \in Seq(Byte) /\ Len(cmds[1].data) = 1
                               /\ Carries(cmds[1].data, r, at - 1)
  BY <1>1, <1>2, OneByteEach
<1> HIDE DEF t
<1>4. ASSUME NEW i \in 1 .. Len(cmds), i # 1, IsData(cmds[i], id)
      PROVE  at < Position(cmds[i])
  <2>1. 1 \in 1 .. i - 1 /\ cmds[i].kind = "LocalData" /\ cmds[i].id = app[r].id
    BY <1>0, <1>2, <1>4 DEF IsData
  <2>2. IsData(cmds[1], cmds[i].id) => Position(cmds[1]) < Position(cmds[i])
    BY <2>1, CommandIs
  <2> QED
    BY <1>2, <1>3, <2>1, <2>2
<1>5. end < at
  BY <1>0, <1>2, <1>3 DEF Row
<1>6. at = end + 1
  <2>1. end + 1 \in end + 1 .. wrote
    BY <1>3, <1>5
  <2>2. PICK i \in 1 .. Len(cmds) : IsData(cmds[i], id) /\ Position(cmds[i]) = end + 1
    BY <1>0, <1>1, <2>1 DEF Row
  <2>3. CASE i = 1
    BY <1>3, <2>2, <2>3
  <2>4. CASE i # 1
    BY <1>3, <1>4, <1>5, <2>2, <2>4
  <2> QED
    BY <2>3, <2>4
<1>7. \A i \in 1 .. Len(t) : IsData(t[i], id) => end + 1 < Position(t[i])
  BY <1>2, <1>4, <1>6
<1>8. ASSUME NEW b \in (end + 1) + 1 .. wrote
      PROVE  \E i \in 1 .. Len(t) : IsData(t[i], id) /\ Position(t[i]) = b
  <2>1. b \in end + 1 .. wrote /\ b # end + 1
    OBVIOUS
  <2>2. PICK i \in 1 .. Len(cmds) : IsData(cmds[i], id) /\ Position(cmds[i]) = b
    BY <1>0, <1>1, <2>1 DEF Row
  <2>3. i # 1
    BY <1>3, <1>6, <2>1, <2>2
  <2> QED
    BY <1>2, <2>2, <2>3
<1>9. Carries(cmds[1].data, r, end) /\ end < wrote
  <2>1. at - 1 = end
    BY <1>6
  <2> QED
    BY <1>3, <1>5, <2>1
<1>10. Row(id, end + 1, wrote, t)
  BY <1>7, <1>8 DEF Row
<1> QED
  BY <1>0, <1>1, <1>2, <1>3, <1>9, <1>10 DEF t

\* Taking the end of file: nothing is behind it.
LEMMA RowEnds ==
  ASSUME AppTypes, CommandTypes, CommandsFollow, cmds # <<>>, NEW r \in Request, NEW end \in Nat,
         end <= app[r].wrote, Head(cmds).kind = "LocalEof", Head(cmds).id = app[r].id,
         Row(app[r].id, end, app[r].wrote, cmds)
  PROVE  app[r].shut /\ end = app[r].wrote
<1>1. PICK wrote \in Nat : wrote = app[r].wrote
  BY AppFields
<1>2. Head(cmds) = cmds[1] /\ 1 \in 1 .. Len(cmds) /\ Len(cmds) \in Nat
  BY TailAt DEF CommandTypes
<1>3. app[r].shut
  BY <1>2, CommandIs
<1>4. end = wrote
  <2> SUFFICES ASSUME end < wrote PROVE FALSE
    BY <1>1
  <2>1. wrote \in end + 1 .. wrote
    OBVIOUS
  <2>2. PICK i \in 1 .. Len(cmds) : IsData(cmds[i], app[r].id)
    BY <1>1, <2>1 DEF Row
  <2>3. cmds[i].kind = "LocalData" /\ cmds[i].id = app[r].id
    BY <2>2 DEF IsData
  <2>4. i # 1
    BY <1>2, <2>3
  <2>5. 1 \in 1 .. i - 1
    BY <1>2, <2>4
  <2>6. cmds[1].kind = "LocalEof" => cmds[1].id # cmds[i].id
    BY <2>3, <2>5, CommandIs
  <2> QED
    BY <1>2, <2>3, <2>6
<1> QED
  BY <1>1, <1>3, <1>4

-----------------------------------------------------------------------------
(* What one step of the client's loop does to one stream.                  *)

\* A frame of a stream.
FrameFits(f, id) ==
  /\ f \in Frame /\ f.type \in {"Data", "Fin", "Reset"} /\ f.id = id
  /\ \A r \in Request : app[r].id = id =>
       /\ f.type = "Data" => Carries(f.data, r, f.offset) /\ f.offset + Len(f.data) <= app[r].wrote
       /\ f.type = "Fin" => app[r].shut

\* The frames bring what the cursor passed, and Fin comes when it is at the end.
Brings(out, id, s, t) ==
  /\ s.tx.cursor <= t.tx.cursor
  /\ \A b \in s.tx.cursor + 1 .. t.tx.cursor : \E i \in 1 .. Len(out) : Covers(out[i], id, b)
  /\ \A i \in 1 .. Len(out) :
       /\ out[i].type # "Reset"
       /\ out[i].type = "Fin" => i = Len(out) /\ t.tx.cursor = app[t.req].wrote

Became(id, t) ==
  /\ id \in DOMAIN streams /\ DOMAIN streams' = DOMAIN streams /\ streams'[id] = t
  /\ \A j \in DOMAIN streams : j # id => streams'[j] = streams[j]

SameStream(s, t) ==
  t.req = s.req /\ t.born = s.born /\ t.local_fin = s.local_fin /\ WriteOffset(t.tx) = WriteOffset(s.tx)

\* What one drain sends for its stream, and what becomes of the stream.
LEMMA DrainStep ==
  ASSUME AppTypes, IdsAreOwn, FrameTypes, StreamTypes, NEW id \in DOMAIN streams, NEW s, Fits(id, s, app), Drain(id, s)
  PROVE  \E t, out :
           /\ out \in Seq(Frame) /\ c2h' = c2h \o out /\ \A i \in 1 .. Len(out) : FrameFits(out[i], id)
           /\ app' = app /\ Became(id, t) /\ Fits(id, t, app) /\ SameStream(s, t)
           /\ t.tx.acked = s.tx.acked /\ Brings(out, id, s, t)
<1>0. id \in StreamId /\ id # 0 /\ s \in StreamState /\ GoodTx(s.tx, s.req) /\ s.req \in Request
  BY StreamFields DEF Fits, StreamTypes
<1>1. PICK u : u = AdvanceCursor(s.tx, DrainCount(s.tx) * Chunk)
  OBVIOUS
<1>2. PICK data : data = DrainData(id, s.tx)
  OBVIOUS
<1>3. /\ GoodTx(u, s.req) /\ WriteOffset(u) = WriteOffset(s.tx)
      /\ u.acked = s.tx.acked /\ s.tx.cursor <= u.cursor
      /\ data \in Seq(Frame)
      /\ \A i \in 1 .. Len(data) : DataFrame(data[i], id, s.req, WriteOffset(s.tx))
      /\ \A b \in s.tx.cursor + 1 .. u.cursor : \E i \in 1 .. Len(data) : Covers(data[i], id, b)
  BY <1>0, <1>1, <1>2, DrainGood
<1>4. PICK after : after = Sent(s)
  OBVIOUS
<1>5. after \in StreamState /\ after.tx = u /\ SameStream(s, after)
  <2>1. u \in SendBuffer(Byte)
    BY <1>3 DEF GoodTx
  <2>2. after = [s EXCEPT !.tx = u]
    BY <1>1, <1>4 DEF Sent
  <2>3. after \in StreamState /\ after.tx = u /\ after.req = s.req /\ after.born = s.born /\ after.local_fin = s.local_fin
    BY <1>0, <2>1, <2>2 DEF StreamState
  <2> QED
    BY <1>3, <2>3 DEF SameStream
<1>6. PICK v : v = MarkFin(u)
  OBVIOUS
<1>7. GoodTx(v, s.req) /\ WriteOffset(v) = WriteOffset(u) /\ v.acked = u.acked /\ v.cursor = u.cursor
  BY <1>3, <1>6, FinGood
<1>8. PICK t : t = IF SendsFin(after) THEN [after EXCEPT !.tx = v] ELSE after
  OBVIOUS
<1>9. t \in StreamState /\ SameStream(s, t) /\ GoodTx(t.tx, s.req) /\ t.tx.acked = s.tx.acked /\ t.tx.cursor = u.cursor
  <2>1. CASE SendsFin(after)
    <3>1. v \in SendBuffer(Byte) /\ t = [after EXCEPT !.tx = v]
      BY <1>7, <1>8, <2>1 DEF GoodTx
    <3>2. t \in StreamState /\ t.tx = v /\ t.req = after.req /\ t.born = after.born /\ t.local_fin = after.local_fin
      BY <1>5, <3>1 DEF StreamState
    <3> QED
      BY <1>3, <1>5, <1>7, <3>2 DEF SameStream
  <2>2. CASE ~SendsFin(after)
    BY <1>3, <1>5, <1>8, <2>2
  <2> QED
    BY <2>1, <2>2
<1>10. Fits(id, t, app)
  BY <1>9 DEF Fits, SameStream
<1>11. PICK tail : tail = IF SendsFin(after) THEN <<Signal("Fin", id)>> ELSE <<>>
  OBVIOUS
<1>12. /\ tail \in Seq(Frame)
       /\ \A i \in 1 .. Len(tail) : i = 1 /\ Len(tail) = 1 /\ SendsFin(after) /\ tail[i] = Signal("Fin", id) /\ tail[i] \in Frame
  <2>1. Signal("Fin", id) \in Frame
    BY <1>0 DEF Signal, Frame
  <2>2. CASE SendsFin(after)
    BY <1>11, <2>1, <2>2
  <2>3. CASE ~SendsFin(after)
    BY <1>11, <2>3
  <2> QED
    BY <2>2, <2>3
<1>13. PICK out : out = data \o tail
  OBVIOUS
<1>14. /\ out \in Seq(Frame) /\ Len(data) \in Nat /\ Len(tail) \in Nat /\ Len(out) = Len(data) + Len(tail)
       /\ \A i \in 1 .. Len(data) : out[i] = data[i]
       /\ \A i \in 1 .. Len(out) : i \notin 1 .. Len(data) => i - Len(data) \in 1 .. Len(tail) /\ out[i] = tail[i - Len(data)]
  BY <1>3, <1>12, <1>13, Chained
<1>15. c2h' = c2h \o out /\ app' = app /\ streams' = [streams EXCEPT ![id] = t]
  <2>1. c2h' = (c2h \o data) \o tail
    BY <1>2, <1>4, <1>11 DEF Drain
  <2>2. c2h \in Seq(Frame)
    BY DEF FrameTypes
  <2>3. (c2h \o data) \o tail = c2h \o (data \o tail)
    BY <1>3, <1>12, <2>2, ConcatAssociative
  <2>4. app' = app /\ streams' = [streams EXCEPT ![id] = IF SendsFin(after) THEN [after EXCEPT !.tx = MarkFin(@)] ELSE after]
    BY <1>4 DEF Drain, Keep
  <2> QED
    BY <1>5, <1>6, <1>8, <1>13, <2>1, <2>3, <2>4
<1>16. Became(id, t)
  BY <1>15 DEF Became
<1>17. SendsFin(after) => s.local_fin /\ t.tx.cursor = app[t.req].wrote /\ app[s.req].shut
  <2> SUFFICES ASSUME SendsFin(after) PROVE s.local_fin /\ t.tx.cursor = app[t.req].wrote /\ app[s.req].shut
    OBVIOUS
  <2>1. after.local_fin /\ ~(u.cursor < WriteOffset(u)) /\ u.cursor <= WriteOffset(u)
    BY <1>3, <1>5 DEF SendsFin, HasPending, GoodTx
  <2>2. s.local_fin /\ t.req = s.req
    BY <1>5, <1>9, <2>1 DEF SameStream
  <2>3. WriteOffset(s.tx) = app[s.req].wrote /\ app[s.req].shut
    BY <2>2 DEF Fits
  <2>4. u.cursor \in Nat /\ WriteOffset(u) \in Nat
    BY <1>3, BufferFields DEF GoodTx
  <2>5. u.cursor = WriteOffset(u)
    BY <2>1, <2>4
  <2> QED
    BY <1>3, <1>9, <2>2, <2>3, <2>5
<1>18. ASSUME NEW i \in 1 .. Len(out)
       PROVE  /\ FrameFits(out[i], id) /\ out[i].type # "Reset"
              /\ out[i].type = "Fin" => i = Len(out) /\ t.tx.cursor = app[t.req].wrote
  <2>1. CASE i \in 1 .. Len(data)
    <3>1. DataFrame(out[i], id, s.req, WriteOffset(s.tx))
      BY <1>3, <1>14, <2>1
    <3>2. PICK f : f = out[i]
      OBVIOUS
    <3>3. /\ f \in Frame /\ f.type = "Data" /\ f.id = id
          /\ Carries(f.data, s.req, f.offset) /\ f.offset + Len(f.data) <= WriteOffset(s.tx)
          /\ f.offset + Len(f.data) \in Nat
      BY <3>1, <3>2, LenProperties DEF DataFrame
    <3>4. WriteOffset(s.tx) <= app[s.req].wrote /\ app[s.req].id = id /\ WriteOffset(s.tx) \in Nat /\ app[s.req].wrote \in Nat
      BY <1>0, AppFields, StreamFields DEF Fits
    <3>5. \A r \in Request : app[r].id = id => r = s.req
      BY <1>0, <3>4 DEF IdsAreOwn
    <3>6. FrameFits(f, id)
      BY <3>3, <3>4, <3>5 DEF FrameFits
    <3> QED
      BY <3>2, <3>3, <3>6
  <2>2. CASE i \notin 1 .. Len(data)
    <3>1. out[i] = Signal("Fin", id) /\ SendsFin(after) /\ i - Len(data) = 1 /\ Len(tail) = 1 /\ out[i] \in Frame
      BY <1>12, <1>14, <2>2
    <3>2. out[i].type = "Fin" /\ out[i].id = id
      BY <3>1 DEF Signal
    <3>3. i = Len(out)
      BY <1>14, <3>1
    <3>4. app[s.req].id = id /\ \A r \in Request : app[r].id = id => r = s.req
      BY <1>0 DEF Fits, IdsAreOwn
    <3>5. FrameFits(out[i], id)
      BY <1>17, <3>1, <3>2, <3>4 DEF FrameFits
    <3> QED
      BY <1>17, <3>1, <3>2, <3>3, <3>5
  <2> QED
    BY <2>1, <2>2
<1>19. ASSUME NEW b \in s.tx.cursor + 1 .. t.tx.cursor PROVE \E i \in 1 .. Len(out) : Covers(out[i], id, b)
  <2>1. PICK i \in 1 .. Len(data) : Covers(data[i], id, b)
    BY <1>3, <1>9
  <2>2. i \in 1 .. Len(out) /\ out[i] = data[i]
    BY <1>14
  <2> QED
    BY <2>1, <2>2
<1>20. Brings(out, id, s, t)
  BY <1>3, <1>9, <1>18, <1>19 DEF Brings
<1> QED
  BY <1>9, <1>10, <1>14, <1>15, <1>16, <1>18, <1>20

Bytes ==
  /\ StreamTypes /\ FrameTypes /\ HelperTypes
  /\ HeldIsExact /\ FramesAreExact /\ AllJoin /\ CommandsFollow /\ AcksFollow

\* u is what a command or a frame makes of s, before anything is sent.
Turned(id, s, u, q) ==
  /\ Fits(id, u, app) /\ u.req = s.req /\ u.born = s.born
  /\ Row(id, WriteOffset(u.tx), app[u.req].wrote, q)
  /\ u.tx.acked = s.tx.acked \/ ~Mentions(c2h, {"Open"}, id)
  /\ Behind(id, u)
  /\ \A b \in 1 .. u.tx.cursor :
       b <= s.tx.cursor \/ (id \in DOMAIN Held /\ b <= Len(Held[id].got)) \/ ~Reaches(id)

\* The stream goes on as t, having sent out.
GoesOn(id, out) ==
  \E u, t : /\ id \in DOMAIN streams /\ Turned(id, streams[id], u, cmds')
            /\ Became(id, t) /\ Fits(id, t, app) /\ SameStream(u, t)
            /\ t.tx.acked = u.tx.acked /\ Brings(out, id, u, t)

\* The stream is forgotten, or there was none.
Forgets(id, out) ==
  /\ DOMAIN streams' = DOMAIN streams \ {id}
  /\ \A j \in DOMAIN streams' : streams'[j] = streams[j]
  /\ \A i \in 1 .. Len(out) : out[i].type = "Reset"

TakesFor(id) ==
  \/ cmds' = cmds
  \/ cmds # <<>> /\ cmds' = Tail(cmds) /\ Head(cmds).kind # "Open" /\ Head(cmds).id = id

HearsFor(id, out) ==
  \/ h2c' = h2c
  \/ /\ h2c # <<>> /\ h2c' = Tail(h2c) /\ Head(h2c).type # "HelloAck" /\ Head(h2c).id = id
     /\ Head(h2c).type \in {"Ack", "ResumeOk"} \/ Forgets(id, out)

StreamStep(id, out) ==
  /\ Tells /\ id \in Allocated
  /\ out \in Seq(Frame) /\ c2h' = c2h \o out /\ \A i \in 1 .. Len(out) : FrameFits(out[i], id)
  /\ TakesFor(id) /\ HearsFor(id, out)
  /\ UNCHANGED <<next_id, pending, drv, resuming, channel, breaks, helper>>
  /\ GoesOn(id, out) \/ Forgets(id, out)

\* What the invariants say of one stream.
LEMMA StreamIs ==
  ASSUME Books, Bytes, NEW id \in DOMAIN streams, NEW s, s = streams[id]
  PROVE  /\ id \in Allocated /\ id \in StreamId /\ id # 0 /\ s \in StreamState /\ Fits(id, s, app)
         /\ s.req \in Request /\ app[s.req].id = id /\ app[s.req].wrote \in Nat
         /\ Row(id, WriteOffset(s.tx), app[s.req].wrote, cmds) /\ Behind(id, s) /\ s.born <= channel
         /\ s.tx.acked \in Nat /\ s.tx.cursor \in Nat /\ WriteOffset(s.tx) \in Nat
         /\ WriteOffset(s.tx) <= app[s.req].wrote
<1>1. s \in StreamState /\ id \in StreamId /\ Joins(id, s) /\ id \in Allocated
  BY DEF Books, Bytes, StreamTypes, AllJoin
<1>2. Fits(id, s, app) /\ Row(id, WriteOffset(s.tx), app[s.req].wrote, cmds) /\ Behind(id, s) /\ s.born <= channel
  BY <1>1, JoinsIs
<1>3. s.req \in Request /\ s.tx.acked \in Nat /\ s.tx.cursor \in Nat /\ WriteOffset(s.tx) \in Nat
  BY <1>1, StreamFields
<1> QED
  BY <1>1, <1>2, <1>3, AppFields DEF Fits, Books

\* Bytes that are queued fit behind the stream (the pumps read in order).
LEMMA PushTurns ==
  ASSUME Books, Bytes, cmds # <<>>, NEW id \in DOMAIN streams, NEW s, s = streams[id], IsData(Head(cmds), id),
         ~(PushCount(s.tx, Head(cmds).data) < Len(Head(cmds).data)),
         NEW u, u = [s EXCEPT !.tx = Push(s.tx, Head(cmds).data)]
  PROVE  Turned(id, s, u, Tail(cmds))
<1>1. /\ id \in Allocated /\ id # 0 /\ s \in StreamState /\ Fits(id, s, app)
      /\ s.req \in Request /\ app[s.req].id = id /\ app[s.req].wrote \in Nat
      /\ Row(id, WriteOffset(s.tx), app[s.req].wrote, cmds) /\ Behind(id, s)
      /\ s.tx.acked \in Nat /\ s.tx.cursor \in Nat /\ WriteOffset(s.tx) \in Nat
      /\ WriteOffset(s.tx) <= app[s.req].wrote
  BY StreamIs
<1>2. PICK d : d = Head(cmds).data
  OBVIOUS
<1>3. AppTypes /\ CommandTypes /\ CommandsFollow
  BY DEF Books, Bytes
<1>4. /\ WriteOffset(s.tx) < app[s.req].wrote /\ d \in Seq(Byte) /\ Len(d) = 1
      /\ Carries(d, s.req, WriteOffset(s.tx))
      /\ Row(id, WriteOffset(s.tx) + 1, app[s.req].wrote, Tail(cmds))
  BY <1>1, <1>2, <1>3, RowPops
<1>5. PICK v : v = Push(s.tx, d)
  OBVIOUS
<1>6. GoodTx(v, s.req) /\ WriteOffset(v) = WriteOffset(s.tx) + 1 /\ v.acked = s.tx.acked /\ v.cursor = s.tx.cursor
  <2>1. PICK tx, r : tx = s.tx /\ r = s.req
    OBVIOUS
  <2>2. GoodTx(tx, r) /\ ~(PushCount(tx, d) < Len(d)) /\ Carries(d, r, WriteOffset(tx)) /\ d \in Seq(Byte)
    BY <1>1, <1>2, <1>4, <2>1 DEF Fits
  <2>3. /\ GoodTx(Push(tx, d), r) /\ WriteOffset(Push(tx, d)) = WriteOffset(tx) + Len(d)
        /\ Push(tx, d).acked = tx.acked /\ Push(tx, d).cursor = tx.cursor
    BY <2>2, PushGood
  <2> QED
    BY <1>4, <1>5, <2>1, <2>3
<1>7. u \in StreamState /\ u.tx = v /\ u.req = s.req /\ u.born = s.born /\ u.local_fin = s.local_fin
  <2>1. v \in SendBuffer(Byte)
    BY <1>6 DEF GoodTx
  <2> QED
    BY <1>1, <1>2, <1>5, <2>1 DEF StreamState
<1>8. ~s.local_fin
  BY <1>1, <1>4 DEF Fits
<1>9. Fits(id, u, app)
  BY <1>1, <1>4, <1>6, <1>7, <1>8 DEF Fits
<1>10. \A b \in 1 .. u.tx.cursor : b <= s.tx.cursor
  BY <1>1, <1>6, <1>7
<1> QED
  BY <1>1, <1>4, <1>6, <1>7, <1>9, <1>10 DEF Turned, Behind

\* LocalEof turns a stream into one that ends.
LEMMA EofTurns ==
  ASSUME Books, Bytes, cmds # <<>>, NEW id \in DOMAIN streams, NEW s, s = streams[id],
         Head(cmds).kind = "LocalEof", Head(cmds).id = id,
         NEW u, u = [s EXCEPT !.local_fin = TRUE]
  PROVE  Turned(id, s, u, Tail(cmds))
<1>1. /\ id \in Allocated /\ id # 0 /\ s \in StreamState /\ Fits(id, s, app)
      /\ s.req \in Request /\ app[s.req].id = id /\ app[s.req].wrote \in Nat
      /\ Row(id, WriteOffset(s.tx), app[s.req].wrote, cmds) /\ Behind(id, s)
      /\ s.tx.acked \in Nat /\ s.tx.cursor \in Nat /\ WriteOffset(s.tx) \in Nat
      /\ WriteOffset(s.tx) <= app[s.req].wrote
  BY StreamIs
<1>2. AppTypes /\ CommandTypes /\ CommandsFollow
  BY DEF Books, Bytes
<1>3. app[s.req].shut /\ WriteOffset(s.tx) = app[s.req].wrote
  BY <1>1, <1>2, RowEnds
<1>4. ~IsData(Head(cmds), id)
  BY DEF IsData
<1>5. Row(id, WriteOffset(s.tx), app[s.req].wrote, Tail(cmds))
  BY <1>1, <1>2, <1>4, RowTail
<1>6. u \in StreamState /\ u.tx = s.tx /\ u.req = s.req /\ u.born = s.born /\ u.local_fin
  BY <1>1 DEF StreamState
<1>7. Fits(id, u, app)
  BY <1>1, <1>3, <1>6 DEF Fits
<1>8. \A b \in 1 .. u.tx.cursor : b <= s.tx.cursor
  BY <1>1, <1>6
<1> QED
  BY <1>1, <1>5, <1>6, <1>7, <1>8 DEF Turned, Behind

\* An answer of the helper is for bytes that it has.
LEMMA AnswerIs ==
  ASSUME Books, Bytes, h2c # <<>>, NEW f, f = Head(h2c), f.type # "HelloAck"
  PROVE  /\ f.id \in Allocated
         /\ f.type \in {"Ack", "ResumeOk"} =>
              /\ f.offset \in Nat /\ ~Mentions(c2h, {"Open"}, f.id)
              /\ f.id \in DOMAIN Held => f.offset <= Len(Held[f.id].got)
<1>1. h2c \in Seq(Frame) /\ f = h2c[1] /\ 1 \in 1 .. Len(h2c) /\ f \in Frame
  BY TailAt DEF Bytes, FrameTypes
<1> QED
  BY <1>1, FrameFields DEF Bytes, AcksFollow

\* An Ack turns it into one that holds less.
LEMMA AckTurns ==
  ASSUME Books, Bytes, h2c # <<>>, NEW f, f = Head(h2c), f.type = "Ack", NEW id \in DOMAIN streams, f.id = id,
         NEW s, s = streams[id], ~AckBeyondSent(s.tx, f.offset),
         NEW u, u = [s EXCEPT !.tx = Ack(s.tx, f.offset)]
  PROVE  Turned(id, s, u, cmds)
<1>1. /\ id \in Allocated /\ id # 0 /\ s \in StreamState /\ Fits(id, s, app)
      /\ s.req \in Request /\ app[s.req].id = id /\ app[s.req].wrote \in Nat
      /\ Row(id, WriteOffset(s.tx), app[s.req].wrote, cmds) /\ Behind(id, s)
      /\ s.tx.acked \in Nat /\ s.tx.cursor \in Nat /\ WriteOffset(s.tx) \in Nat
  BY StreamIs
<1>2. PICK offset \in Nat : offset = f.offset
  BY AnswerIs
<1>3. ~Mentions(c2h, {"Open"}, id) /\ (id \in DOMAIN Held => offset <= Len(Held[id].got))
  BY <1>2, AnswerIs
<1>4. PICK v : v = Ack(s.tx, offset)
  OBVIOUS
<1>5. /\ GoodTx(v, s.req) /\ WriteOffset(v) = WriteOffset(s.tx)
      /\ v.acked = IF offset < s.tx.acked THEN s.tx.acked ELSE offset
      /\ v.cursor = IF offset < s.tx.acked THEN s.tx.cursor ELSE GreaterOf(s.tx.cursor, offset)
  BY <1>1, <1>2, <1>4, AckGood DEF Fits
<1>6. u \in StreamState /\ u.tx = v /\ u.req = s.req /\ u.born = s.born /\ u.local_fin = s.local_fin
  <2>1. v \in SendBuffer(Byte)
    BY <1>5 DEF GoodTx
  <2> QED
    BY <1>1, <1>2, <1>4, <2>1 DEF StreamState
<1>7. Fits(id, u, app)
  BY <1>1, <1>5, <1>6 DEF Fits
<1>8. Behind(id, u)
  BY <1>1, <1>2, <1>3, <1>5, <1>6 DEF Behind
<1>9. ASSUME NEW b \in 1 .. u.tx.cursor
      PROVE  b <= s.tx.cursor \/ (id \in DOMAIN Held /\ b <= Len(Held[id].got)) \/ ~Reaches(id)
  <2>1. b <= s.tx.cursor \/ b <= offset
    BY <1>1, <1>2, <1>5, <1>6 DEF GreaterOf
  <2>2. CASE id \in DOMAIN Held
    <3>1. Len(Held[id].got) \in Nat
      BY <2>2, LenProperties DEF Bytes, HelperTypes, HelperStream
    <3> QED
      BY <1>2, <1>3, <2>1, <2>2, <3>1
  <2>3. CASE id \notin DOMAIN Held
    BY <1>3, <2>3 DEF Reaches
  <2> QED
    BY <2>2, <2>3
<1> QED
  BY <1>1, <1>3, <1>5, <1>6, <1>7, <1>8, <1>9 DEF Turned

\* A ResumeOk turns it into one that sends again.
LEMMA RewindTurns ==
  ASSUME Books, Bytes, h2c # <<>>, NEW f, f = Head(h2c), f.type = "ResumeOk", NEW id \in DOMAIN streams, f.id = id,
         NEW s, s = streams[id], CanRewind(s.tx, f.offset),
         NEW u, u = [s EXCEPT !.tx = RewindTo(s.tx, f.offset)]
  PROVE  Turned(id, s, u, cmds)
<1>1. /\ id \in Allocated /\ id # 0 /\ s \in StreamState /\ Fits(id, s, app)
      /\ s.req \in Request /\ app[s.req].id = id /\ app[s.req].wrote \in Nat
      /\ Row(id, WriteOffset(s.tx), app[s.req].wrote, cmds) /\ Behind(id, s)
      /\ s.tx.acked \in Nat /\ s.tx.cursor \in Nat /\ WriteOffset(s.tx) \in Nat
  BY StreamIs
<1>2. PICK offset \in Nat : offset = f.offset
  BY AnswerIs
<1>3. ~Mentions(c2h, {"Open"}, id) /\ (id \in DOMAIN Held => offset <= Len(Held[id].got))
  BY <1>2, AnswerIs
<1>4. PICK v : v = RewindTo(s.tx, offset)
  OBVIOUS
<1>5. GoodTx(v, s.req) /\ WriteOffset(v) = WriteOffset(s.tx) /\ v.acked = offset /\ v.cursor = offset
  BY <1>1, <1>2, <1>4, RewindGood DEF Fits
<1>6. u \in StreamState /\ u.tx = v /\ u.req = s.req /\ u.born = s.born /\ u.local_fin = s.local_fin
  <2>1. v \in SendBuffer(Byte)
    BY <1>5 DEF GoodTx
  <2> QED
    BY <1>1, <1>2, <1>4, <2>1 DEF StreamState
<1>7. Fits(id, u, app)
  BY <1>1, <1>5, <1>6 DEF Fits
<1>8. Behind(id, u)
  BY <1>2, <1>3, <1>5, <1>6 DEF Behind
<1>9. ASSUME NEW b \in 1 .. u.tx.cursor
      PROVE  (id \in DOMAIN Held /\ b <= Len(Held[id].got)) \/ ~Reaches(id)
  <2>1. b <= offset /\ b \in Int
    BY <1>5, <1>6
  <2>2. CASE id \in DOMAIN Held
    <3>1. Len(Held[id].got) \in Nat
      BY <2>2, LenProperties DEF Bytes, HelperTypes, HelperStream
    <3> QED
      BY <1>2, <1>3, <2>1, <2>2, <3>1
  <2>3. CASE id \notin DOMAIN Held
    BY <1>3, <2>3 DEF Reaches
  <2> QED
    BY <2>2, <2>3
<1> QED
  BY <1>1, <1>3, <1>5, <1>6, <1>7, <1>8, <1>9 DEF Turned

\* A stream that is turned and kept has sent nothing.
LEMMA KeepGoesOn ==
  ASSUME Books, Bytes, NEW id \in DOMAIN streams, NEW u, Turned(id, streams[id], u, cmds'), Keep(id, u)
  PROVE  Tells /\ GoesOn(id, <<>>)
<1>1. Tells /\ streams' = [streams EXCEPT ![id] = u]
  BY KeepTells DEF Books
<1>2. Became(id, u)
  BY <1>1 DEF Became
<1>3. Fits(id, u, app) /\ SameStream(u, u)
  BY DEF Turned, SameStream
<1>4. Brings(<<>>, id, u, u)
  <2>1. u.tx.cursor \in Nat
    BY <1>3, StreamFields DEF Fits
  <2> QED
    BY <2>1 DEF Brings
<1> QED
  BY <1>1, <1>2, <1>3, <1>4 DEF GoesOn

\* A stream that turned goes on, by what its drain sends.
LEMMA DrainGoesOn ==
  ASSUME Books, Bytes, NEW id \in DOMAIN streams, NEW u, Turned(id, streams[id], u, cmds'), Drain(id, u)
  PROVE  \E out : /\ Tells /\ out \in Seq(Frame) /\ c2h' = c2h \o out
                  /\ \A i \in 1 .. Len(out) : FrameFits(out[i], id)
                  /\ GoesOn(id, out)
<1>1. AppTypes /\ IdsAreOwn /\ FrameTypes /\ StreamTypes /\ Fits(id, u, app)
  BY DEF Books, Bytes, RequestOnce, Turned
<1>2. PICK t, out :
           /\ out \in Seq(Frame) /\ c2h' = c2h \o out /\ \A i \in 1 .. Len(out) : FrameFits(out[i], id)
           /\ app' = app /\ Became(id, t) /\ Fits(id, t, app) /\ SameStream(u, t)
           /\ t.tx.acked = u.tx.acked /\ Brings(out, id, u, t)
  BY <1>1, DrainStep
<1>3. Tells
  BY <1>1, <1>2, KeptTells
<1>4. GoesOn(id, out)
  BY <1>2 DEF GoesOn
<1> QED
  BY <1>2, <1>3, <1>4

\* A stream that is forgotten sends Reset, or nothing.
LEMMA DropForgets ==
  ASSUME Books, Bytes, NEW id, Drop({id}), NEW out, out = <<>> \/ out = <<Signal("Reset", id)>>
  PROVE  /\ Tells /\ Forgets(id, out)
         /\ id \in Allocated =>
              out \in Seq(Frame) /\ \A i \in 1 .. Len(out) : FrameFits(out[i], id)
<1>1. Tells /\ DOMAIN streams' = DOMAIN streams \ {id} /\ \A j \in DOMAIN streams' : streams'[j] = streams[j]
  BY DropTells DEF Books
<1>2. Signal("Reset", id).type = "Reset" /\ Signal("Reset", id).id = id
  BY DEF Signal
<1>3. CASE out = <<>>
  BY <1>1, <1>3 DEF Forgets
<1>4. CASE out = <<Signal("Reset", id)>>
  <2>1. \A i \in 1 .. Len(out) : out[i] = Signal("Reset", id)
    BY <1>4
  <2>2. Forgets(id, out)
    BY <1>1, <1>2, <2>1 DEF Forgets
  <2>3. ASSUME id \in Allocated PROVE out \in Seq(Frame) /\ FrameFits(Signal("Reset", id), id)
    <3>1. id \in StreamId
      BY <2>3, IdFacts DEF StreamId, Books, RequestOnce, IdsAreOwn
    <3>2. Signal("Reset", id) \in Frame
      BY <3>1 DEF Signal, Frame
    <3>3. FrameFits(Signal("Reset", id), id)
      BY <1>2, <3>2 DEF FrameFits
    <3> QED
      BY <1>4, <3>2, <3>3
  <2> QED
    BY <1>1, <2>1, <2>2, <2>3
<1> QED
  BY <1>3, <1>4

\* Nothing happens to a stream that is not there.
LEMMA NoStreamForgets ==
  ASSUME Books, NEW id, id \notin DOMAIN streams, UNCHANGED <<streams, app>>
  PROVE  Tells /\ Forgets(id, <<>>)
<1>1. Tells
  BY KeptTells DEF Books
<1>2. DOMAIN streams' = DOMAIN streams \ {id}
  OBVIOUS
<1> QED
  BY <1>1, <1>2 DEF Forgets

\* A command of a stream.
LEMMA CommandTaken ==
  ASSUME Books, Bytes, NEW kind \in {"LocalData", "LocalEof", "LocalClose"}, Command1(kind), NEW id, id = Head(cmds).id
  PROVE  /\ id \in Allocated /\ TakesFor(id) /\ cmds # <<>> /\ cmds' = Tail(cmds) /\ Head(cmds).kind = kind
         /\ kind = "LocalData" => IsData(Head(cmds), id)
<1>1. cmds # <<>> /\ cmds' = Tail(cmds) /\ Head(cmds).kind = kind
  BY DEF Command1
<1>2. Head(cmds) = cmds[1] /\ 1 \in 1 .. Len(cmds)
  BY <1>1, TailAt DEF Books, CommandTypes
<1>3. id \in Allocated
  BY <1>1, <1>2 DEF Bytes, CommandsFollow
<1> QED
  BY <1>1, <1>3 DEF TakesFor, IsData

\* Sending nothing is sending no frame.
LEMMA NothingSent ==
  ASSUME Bytes, UNCHANGED c2h, NEW id
  PROVE  c2h' = c2h \o <<>> /\ <<>> \in Seq(Frame) /\ \A i \in 1 .. Len(<<>>) : FrameFits(<<>>[i], id)
<1>1. c2h \in Seq(Frame)
  BY DEF Bytes, FrameTypes
<1>2. c2h \o <<>> = c2h
  BY <1>1, ConcatEmptySeq
<1> QED
  BY <1>2

\* A command without a channel is a step of one stream.
LEMMA OfflineSteps ==
  ASSUME Books, Bytes, BufferData \/ BufferEof \/ BufferClose
  PROVE  \E id, out : StreamStep(id, out)
<1>1. /\ UNCHANGED <<next_id, pending, drv, resuming, channel, breaks, c2h, h2c, helper>>
      /\ \E kind \in {"LocalData", "LocalEof", "LocalClose"} : Command1(kind)
  BY DEF BufferData, BufferEof, BufferClose
<1>2. PICK id : id = Head(cmds).id
  OBVIOUS
<1>3. id \in Allocated /\ TakesFor(id) /\ cmds # <<>> /\ cmds' = Tail(cmds)
  BY <1>1, <1>2, CommandTaken
<1>4. HearsFor(id, <<>>)
  BY <1>1 DEF HearsFor
<1>5. Tells /\ (GoesOn(id, <<>>) \/ Forgets(id, <<>>))
  <2>1. CASE BufferData
    <3>1. IsData(Head(cmds), id)
      BY <1>2, <2>1, CommandTaken DEF BufferData
    <3>2. CASE id \notin DOMAIN streams
      <4>1. UNCHANGED <<streams, app>>
        BY <1>2, <2>1, <3>2 DEF BufferData
      <4> QED
        BY <3>2, <4>1, NoStreamForgets
    <3>3. CASE id \in DOMAIN streams /\ PushCount(streams[id].tx, Head(cmds).data) < Len(Head(cmds).data)
      <4>1. Drop({id})
        BY <1>2, <2>1, <3>3 DEF BufferData
      <4> QED
        BY <4>1, DropForgets
    <3>4. CASE id \in DOMAIN streams /\ ~(PushCount(streams[id].tx, Head(cmds).data) < Len(Head(cmds).data))
      <4>1. PICK u : u = [streams[id] EXCEPT !.tx = Push(streams[id].tx, Head(cmds).data)]
        OBVIOUS
      <4>2. Keep(id, u)
        BY <1>2, <2>1, <3>4, <4>1 DEF BufferData
      <4>3. Turned(id, streams[id], u, Tail(cmds))
        BY <1>3, <3>1, <3>4, <4>1, PushTurns
      <4> QED
        BY <1>3, <3>4, <4>2, <4>3, KeepGoesOn
    <3> QED
      BY <3>2, <3>3, <3>4
  <2>2. CASE BufferEof
    <3>1. CASE id \notin DOMAIN streams
      <4>1. UNCHANGED <<streams, app>>
        BY <1>2, <2>2, <3>1 DEF BufferEof
      <4> QED
        BY <3>1, <4>1, NoStreamForgets
    <3>2. CASE id \in DOMAIN streams
      <4>1. PICK u : u = [streams[id] EXCEPT !.local_fin = TRUE]
        OBVIOUS
      <4>2. Keep(id, u) /\ Head(cmds).kind = "LocalEof"
        BY <1>2, <2>2, <3>2, <4>1 DEF BufferEof, Command1
      <4>3. Turned(id, streams[id], u, Tail(cmds))
        BY <1>2, <1>3, <3>2, <4>1, <4>2, EofTurns
      <4> QED
        BY <1>3, <3>2, <4>2, <4>3, KeepGoesOn
    <3> QED
      BY <3>1, <3>2
  <2>3. CASE BufferClose
    <3>1. Drop({id})
      BY <1>2, <2>3 DEF BufferClose
    <3> QED
      BY <3>1, DropForgets
  <2> QED
    BY <2>1, <2>2, <2>3
<1>6. c2h' = c2h \o <<>> /\ <<>> \in Seq(Frame) /\ \A i \in 1 .. Len(<<>>) : FrameFits(<<>>[i], id)
  BY <1>1, NothingSent
<1>7. StreamStep(id, <<>>)
  BY <1>1, <1>3, <1>4, <1>5, <1>6 DEF StreamStep
<1> QED
  BY <1>7

\* The stream is forgotten and Reset is sent.
LEMMA ResetForgets ==
  ASSUME Books, Bytes, NEW id \in Allocated, Drop({id}), c2h' = Append(c2h, Signal("Reset", id))
  PROVE  \E out : /\ Tells /\ out \in Seq(Frame) /\ c2h' = c2h \o out
                  /\ \A i \in 1 .. Len(out) : FrameFits(out[i], id)
                  /\ Forgets(id, out)
<1>1. PICK out : out = <<Signal("Reset", id)>>
  OBVIOUS
<1>2. /\ Tells /\ Forgets(id, out) /\ out \in Seq(Frame) /\ \A i \in 1 .. Len(out) : FrameFits(out[i], id)
  BY <1>1, DropForgets
<1>3. c2h' = c2h \o out
  <2>1. c2h \in Seq(Frame) /\ Signal("Reset", id) \in Frame
    <3>1. Len(out) = 1 /\ out[1] = Signal("Reset", id)
      BY <1>1
    <3> QED
      BY <1>2, <3>1 DEF Bytes, FrameTypes, FrameFits
  <2> QED
    BY <1>1, <2>1, AppendIsConcat
<1> QED
  BY <1>2, <1>3

\* A stream that is removed sends nothing.
LEMMA DropSendsNothing ==
  ASSUME Books, Bytes, NEW id, Drop({id}), UNCHANGED c2h
  PROVE  \E out : /\ Tells /\ out \in Seq(Frame) /\ c2h' = c2h \o out
                  /\ \A i \in 1 .. Len(out) : FrameFits(out[i], id)
                  /\ Forgets(id, out)
BY DropForgets, NothingSent

\* A stream that is not there sends nothing.
LEMMA NoStreamSendsNothing ==
  ASSUME Books, Bytes, NEW id, id \notin DOMAIN streams, UNCHANGED <<streams, app, c2h>>
  PROVE  \E out : /\ Tells /\ out \in Seq(Frame) /\ c2h' = c2h \o out
                  /\ \A i \in 1 .. Len(out) : FrameFits(out[i], id)
                  /\ Forgets(id, out)
BY NoStreamForgets, NothingSent

\* A command with a channel is a step of one stream.
LEMMA CommandSteps ==
  ASSUME Books, Bytes, HandleLocalData \/ HandleLocalEof \/ HandleLocalClose
  PROVE  \E id, out : StreamStep(id, out)
<1>1. /\ UNCHANGED <<next_id, pending, drv, resuming, channel, breaks, h2c, helper>>
      /\ \E kind \in {"LocalData", "LocalEof", "LocalClose"} : Command1(kind)
  BY DEF HandleLocalData, HandleLocalEof, HandleLocalClose
<1>2. PICK id : id = Head(cmds).id
  OBVIOUS
<1>3. id \in Allocated /\ TakesFor(id) /\ cmds # <<>> /\ cmds' = Tail(cmds)
  BY <1>1, <1>2, CommandTaken
<1>4. \A out : HearsFor(id, out)
  BY <1>1 DEF HearsFor
<1>5. \E out : /\ Tells /\ out \in Seq(Frame) /\ c2h' = c2h \o out
               /\ \A i \in 1 .. Len(out) : FrameFits(out[i], id)
               /\ GoesOn(id, out) \/ Forgets(id, out)
  <2>1. CASE HandleLocalData
    <3>1. IsData(Head(cmds), id)
      BY <1>2, <2>1, CommandTaken DEF HandleLocalData
    <3>2. CASE id \notin DOMAIN streams
      <4>1. UNCHANGED <<streams, app, c2h>>
        BY <1>2, <2>1, <3>2 DEF HandleLocalData
      <4> QED
        BY <3>2, <4>1, NoStreamSendsNothing
    <3>3. CASE id \in DOMAIN streams /\ PushCount(streams[id].tx, Head(cmds).data) < Len(Head(cmds).data)
      <4>1. Drop({id}) /\ c2h' = Append(c2h, Signal("Reset", id))
        BY <1>2, <2>1, <3>3 DEF HandleLocalData
      <4> QED
        BY <1>3, <4>1, ResetForgets
    <3>4. CASE id \in DOMAIN streams /\ ~(PushCount(streams[id].tx, Head(cmds).data) < Len(Head(cmds).data))
      <4>1. PICK u : u = [streams[id] EXCEPT !.tx = Push(streams[id].tx, Head(cmds).data)]
        OBVIOUS
      <4>2. Drain(id, u)
        BY <1>2, <2>1, <3>4, <4>1 DEF HandleLocalData
      <4>3. Turned(id, streams[id], u, Tail(cmds))
        BY <1>3, <3>1, <3>4, <4>1, PushTurns
      <4> QED
        BY <1>3, <3>4, <4>2, <4>3, DrainGoesOn
    <3> QED
      BY <3>2, <3>3, <3>4
  <2>2. CASE HandleLocalEof
    <3>1. CASE id \notin DOMAIN streams
      <4>1. UNCHANGED <<streams, app, c2h>>
        BY <1>2, <2>2, <3>1 DEF HandleLocalEof
      <4> QED
        BY <3>1, <4>1, NoStreamSendsNothing
    <3>2. CASE id \in DOMAIN streams
      <4>1. PICK u : u = [streams[id] EXCEPT !.local_fin = TRUE]
        OBVIOUS
      <4>2. Drain(id, u) /\ Head(cmds).kind = "LocalEof"
        BY <1>2, <2>2, <3>2, <4>1 DEF HandleLocalEof, Command1
      <4>3. Turned(id, streams[id], u, Tail(cmds))
        BY <1>2, <1>3, <3>2, <4>1, <4>2, EofTurns
      <4> QED
        BY <1>3, <3>2, <4>2, <4>3, DrainGoesOn
    <3> QED
      BY <3>1, <3>2
  <2>3. CASE HandleLocalClose
    <3>1. Drop({id}) /\ (c2h' = Append(c2h, Signal("Reset", id)) \/ c2h' = c2h)
      BY <1>2, <2>3 DEF HandleLocalClose
    <3> QED
      BY <1>3, <3>1, ResetForgets, DropSendsNothing
  <2> QED
    BY <2>1, <2>2, <2>3
<1>6. PICK out : /\ Tells /\ out \in Seq(Frame) /\ c2h' = c2h \o out
                 /\ \A i \in 1 .. Len(out) : FrameFits(out[i], id)
                 /\ GoesOn(id, out) \/ Forgets(id, out)
  BY <1>5
<1>7. StreamStep(id, out)
  BY <1>1, <1>3, <1>4, <1>6 DEF StreamStep
<1> QED
  BY <1>7

\* A frame is a step of one stream.
LEMMA FrameSteps ==
  ASSUME Books, Bytes,
         ApplyAck \/ ApplyResumeOk \/ \E type \in {"OpenErr", "Reset", "ResumeErr"} : ApplyEnd(type)
  PROVE  \E id, out : StreamStep(id, out)
<1>1. /\ UNCHANGED <<cmds, next_id, pending, drv, resuming, channel, breaks, helper>>
      /\ \E type \in {"Ack", "ResumeOk", "OpenErr", "Reset", "ResumeErr"} : Frame1(type)
  BY DEF ApplyAck, ApplyResumeOk, ApplyEnd
<1>2. PICK f : f = Head(h2c)
  OBVIOUS
<1>3. h2c # <<>> /\ h2c' = Tail(h2c) /\ f.type # "HelloAck"
  BY <1>1, <1>2 DEF Frame1
<1>4. PICK id : id = f.id
  OBVIOUS
<1>5. id \in Allocated /\ TakesFor(id)
  BY <1>1, <1>2, <1>3, <1>4, AnswerIs DEF TakesFor
<1>6. \E out : /\ Tells /\ out \in Seq(Frame) /\ c2h' = c2h \o out
               /\ \A i \in 1 .. Len(out) : FrameFits(out[i], id)
               /\ HearsFor(id, out)
               /\ GoesOn(id, out) \/ Forgets(id, out)
  <2>1. CASE ApplyAck
    <3>0. f.type = "Ack" /\ UNCHANGED c2h
      BY <1>2, <2>1 DEF ApplyAck, Frame1
    <3>1. \A out : HearsFor(id, out)
      BY <1>2, <1>3, <1>4, <3>0 DEF HearsFor
    <3>2. CASE id \notin DOMAIN streams
      <4>1. UNCHANGED <<streams, app, c2h>>
        BY <1>2, <1>4, <2>1, <3>2 DEF ApplyAck
      <4> QED
        BY <3>1, <3>2, <4>1, NoStreamSendsNothing
    <3>3. CASE id \in DOMAIN streams /\ AckBeyondSent(streams[id].tx, f.offset)
      <4>1. Drop({id})
        BY <1>2, <1>4, <2>1, <3>3 DEF ApplyAck
      <4> QED
        BY <3>0, <3>1, <4>1, DropSendsNothing
    <3>4. CASE id \in DOMAIN streams /\ ~AckBeyondSent(streams[id].tx, f.offset)
      <4>1. PICK u : u = [streams[id] EXCEPT !.tx = Ack(streams[id].tx, f.offset)]
        OBVIOUS
      <4>2. Keep(id, u)
        BY <1>2, <1>4, <2>1, <3>4, <4>1 DEF ApplyAck
      <4>3. Turned(id, streams[id], u, cmds)
        BY <1>2, <1>3, <1>4, <3>0, <3>4, <4>1, AckTurns
      <4>4. Tells /\ GoesOn(id, <<>>)
        BY <1>1, <3>4, <4>2, <4>3, KeepGoesOn
      <4> QED
        BY <3>0, <3>1, <4>4, NothingSent
    <3> QED
      BY <3>2, <3>3, <3>4
  <2>2. CASE ApplyResumeOk
    <3>0. f.type = "ResumeOk"
      BY <1>2, <2>2 DEF ApplyResumeOk, Frame1
    <3>1. \A out : HearsFor(id, out)
      BY <1>2, <1>3, <1>4, <3>0 DEF HearsFor
    <3>2. CASE id \notin DOMAIN streams
      <4>1. UNCHANGED <<streams, app, c2h>>
        BY <1>2, <1>4, <2>2, <3>2 DEF ApplyResumeOk
      <4> QED
        BY <3>1, <3>2, <4>1, NoStreamSendsNothing
    <3>3. CASE id \in DOMAIN streams /\ ~CanRewind(streams[id].tx, f.offset)
      <4>1. Drop({id}) /\ c2h' = Append(c2h, Signal("Reset", id))
        BY <1>2, <1>4, <2>2, <3>3 DEF ApplyResumeOk
      <4> QED
        BY <1>5, <3>1, <4>1, ResetForgets
    <3>4. CASE id \in DOMAIN streams /\ CanRewind(streams[id].tx, f.offset)
      <4>1. PICK u : u = [streams[id] EXCEPT !.tx = RewindTo(streams[id].tx, f.offset)]
        OBVIOUS
      <4>2. Drain(id, u)
        BY <1>2, <1>4, <2>2, <3>4, <4>1 DEF ApplyResumeOk
      <4>3. Turned(id, streams[id], u, cmds)
        BY <1>2, <1>3, <1>4, <3>0, <3>4, <4>1, RewindTurns
      <4> QED
        BY <1>1, <3>1, <3>4, <4>2, <4>3, DrainGoesOn
    <3> QED
      BY <3>2, <3>3, <3>4
  <2>3. CASE \E type \in {"OpenErr", "Reset", "ResumeErr"} : ApplyEnd(type)
    <3>1. Drop({id}) /\ UNCHANGED c2h
      BY <1>2, <1>4, <2>3 DEF ApplyEnd
    <3>2. \A out : Forgets(id, out) => HearsFor(id, out)
      BY <1>2, <1>3, <1>4 DEF HearsFor
    <3> QED
      BY <3>1, <3>2, DropSendsNothing
  <2> QED
    BY <2>1, <2>2, <2>3
<1>7. PICK out : /\ Tells /\ out \in Seq(Frame) /\ c2h' = c2h \o out
                 /\ \A i \in 1 .. Len(out) : FrameFits(out[i], id)
                 /\ HearsFor(id, out)
                 /\ GoesOn(id, out) \/ Forgets(id, out)
  BY <1>6
<1>8. StreamStep(id, out)
  BY <1>1, <1>5, <1>7 DEF StreamStep
<1> QED
  BY <1>8

-----------------------------------------------------------------------------
(* The invariants of the bytes, place by place.                            *)

\* What is known of an application stays so.
Grows ==
  /\ Allocated \subseteq Allocated'
  /\ \A r \in Request :
       /\ app[r].wrote \in Nat /\ app'[r].wrote \in Nat
       /\ app[r].id # 0 => /\ app'[r].id = app[r].id /\ app[r].wrote <= app'[r].wrote
                           /\ app[r].shut => app'[r].shut
       /\ \A id \in Allocated : app'[r].id = id => app[r].id = id

FitsNow(id, s, a, q, ch, H) ==
  /\ Fits(id, s, a) /\ s.born <= ch
  /\ Row(id, WriteOffset(s.tx), a[s.req].wrote, q)
  /\ id \in DOMAIN H => s.tx.acked <= Len(H[id].got)

AllFit == \A id \in DOMAIN streams : FitsNow(id, streams[id], app, cmds, channel, Held)

\* Every stream joins its neighbours, said place by place.
LEMMA AllFitIs == StreamTypes => (AllJoin <=> AllFit)
<1> SUFFICES ASSUME StreamTypes PROVE AllJoin <=> AllFit
  OBVIOUS
<1>1. ASSUME NEW id \in DOMAIN streams
      PROVE  Joins(id, streams[id]) <=> FitsNow(id, streams[id], app, cmds, channel, Held)
  <2>1. streams[id] \in StreamState
    BY DEF StreamTypes
  <2> QED
    BY <2>1, JoinsIs DEF FitsNow, Behind
<1> QED
  BY <1>1 DEF AllJoin, AllFit

\* A stream that fits has a type.
LEMMA FitTypes ==
  ASSUME AllFit, DOMAIN streams \subseteq StreamId \ {0}
  PROVE  StreamTypes
BY DEF AllFit, FitsNow, Fits, StreamTypes

Exact(f, a, next) ==
  f.type # "Hello" =>
    /\ f.id \in 1 .. next - 1
    /\ \A r \in Request : a[r].id = f.id =>
         /\ f.type = "Open" => f.req = r
         /\ f.type = "Data" => Carries(f.data, r, f.offset) /\ f.offset + Len(f.data) <= a[r].wrote
         /\ f.type = "Fin" => a[r].shut

First(q, i, H, ss) ==
  q[i].type = "Open" =>
    /\ q[i].id \notin DOMAIN H
    /\ q[i].id \in DOMAIN ss => ss[q[i].id].tx.acked = 0
    /\ \A j \in 1 .. i - 1 : q[j].type # "Hello" => q[j].id # q[i].id

AllExact == \A i \in 1 .. Len(c2h) : Exact(c2h[i], app, next_id) /\ First(c2h, i, Held, streams)

\* Every frame is exact, said place by place.
LEMMA AllExactIs == FramesAreExact <=> AllExact
<1>1. ASSUME NEW i \in 1 .. Len(c2h)
      PROVE  (c2h[i].type # "Hello" =>
                /\ c2h[i].id \in Allocated
                /\ \A r \in Request : app[r].id = c2h[i].id =>
                     /\ c2h[i].type = "Open" => c2h[i].req = r
                     /\ c2h[i].type = "Data" =>
                          Carries(c2h[i].data, r, c2h[i].offset) /\ c2h[i].offset + Len(c2h[i].data) <= app[r].wrote
                     /\ c2h[i].type = "Fin" => app[r].shut
                /\ c2h[i].type = "Open" =>
                     /\ c2h[i].id \notin DOMAIN Held
                     /\ c2h[i].id \in DOMAIN streams => streams[c2h[i].id].tx.acked = 0
                     /\ \A j \in 1 .. i - 1 : c2h[j].type # "Hello" => c2h[j].id # c2h[i].id)
             <=> Exact(c2h[i], app, next_id) /\ First(c2h, i, Held, streams)
  BY DEF Exact, First, Allocated
<1> QED
  BY <1>1 DEF FramesAreExact, AllExact

\* A frame stays exact when requests write more and ids are given.
LEMMA ExactGrows ==
  ASSUME Grows, NEW f \in Frame, Exact(f, app, next_id)
  PROVE  Exact(f, app', next_id')
<1> SUFFICES ASSUME f.type # "Hello"
             PROVE  /\ f.id \in 1 .. next_id' - 1
                    /\ \A r \in Request : app'[r].id = f.id =>
                         /\ f.type = "Open" => f.req = r
                         /\ f.type = "Data" => Carries(f.data, r, f.offset) /\ f.offset + Len(f.data) <= app'[r].wrote
                         /\ f.type = "Fin" => app'[r].shut
  BY DEF Exact
<1>1. f.id \in Allocated /\ f.id \in 1 .. next_id' - 1 /\ f.id # 0
  BY DEF Exact, Grows, Allocated
<1>2. ASSUME NEW r \in Request, app'[r].id = f.id
      PROVE  /\ f.type = "Open" => f.req = r
             /\ f.type = "Data" => Carries(f.data, r, f.offset) /\ f.offset + Len(f.data) <= app'[r].wrote
             /\ f.type = "Fin" => app'[r].shut
  <2>1. app[r].id = f.id
    BY <1>1, <1>2 DEF Grows
  <2>2. /\ app[r].wrote \in Nat /\ app'[r].wrote \in Nat /\ app[r].wrote <= app'[r].wrote
        /\ app[r].shut => app'[r].shut
    BY <1>1, <2>1 DEF Grows
  <2>3. /\ f.type = "Open" => f.req = r
        /\ f.type = "Data" => Carries(f.data, r, f.offset) /\ f.offset + Len(f.data) <= app[r].wrote
        /\ f.type = "Fin" => app[r].shut
    BY <2>1 DEF Exact
  <2>4. f.type = "Data" => f.offset + Len(f.data) \in Nat
    BY FrameFields, LenProperties
  <2>5. f.type = "Data" => f.offset + Len(f.data) <= app'[r].wrote
    BY <2>2, <2>3, <2>4
  <2> QED
    BY <2>2, <2>3, <2>5
<1> QED
  BY <1>1, <1>2

\* Frames that are queued are behind what is there.
LEMMA FramesQueue ==
  ASSUME Grows, FrameTypes, AllExact, NEW out \in Seq(Frame), c2h' = c2h \o out,
         \A i \in 1 .. Len(out) : Exact(out[i], app', next_id') /\ out[i].type # "Open",
         DOMAIN Held' \subseteq DOMAIN Held,
         \A id \in DOMAIN streams' : Mentions(c2h, {"Open"}, id) =>
           id \in DOMAIN streams /\ streams'[id].tx.acked = streams[id].tx.acked
  PROVE  AllExact'
<1>1. /\ c2h' \in Seq(Frame) /\ Len(c2h) \in Nat /\ Len(out) \in Nat
      /\ Len(c2h') = Len(c2h) + Len(out)
      /\ \A i \in 1 .. Len(c2h) : c2h'[i] = c2h[i] /\ c2h[i] \in Frame
      /\ \A i \in 1 .. Len(c2h') : i \notin 1 .. Len(c2h) =>
           i - Len(c2h) \in 1 .. Len(out) /\ c2h'[i] = out[i - Len(c2h)]
  BY Chained DEF FrameTypes
<1>2. ASSUME NEW i \in 1 .. Len(c2h')
      PROVE  Exact(c2h'[i], app', next_id') /\ First(c2h', i, Held', streams')
  <2>1. CASE i \in 1 .. Len(c2h)
    <3>1. Exact(c2h[i], app, next_id) /\ First(c2h, i, Held, streams) /\ c2h'[i] = c2h[i] /\ c2h[i] \in Frame
      BY <1>1, <2>1 DEF AllExact
    <3>2. Exact(c2h'[i], app', next_id')
      BY <3>1, ExactGrows
    <3>3. \A j \in 1 .. i - 1 : c2h'[j] = c2h[j]
      BY <1>1, <2>1
    <3>4. c2h[i].type = "Open" => Mentions(c2h, {"Open"}, c2h[i].id)
      BY <2>1 DEF Mentions
    <3>5. First(c2h', i, Held', streams')
      BY <3>1, <3>3, <3>4 DEF First
    <3> QED
      BY <3>2, <3>5
  <2>2. CASE i \notin 1 .. Len(c2h)
    <3>1. i - Len(c2h) \in 1 .. Len(out) /\ c2h'[i] = out[i - Len(c2h)]
      BY <1>1, <2>2
    <3>2. Exact(c2h'[i], app', next_id') /\ c2h'[i].type # "Open"
      BY <3>1
    <3> QED
      BY <3>2 DEF First
  <2> QED
    BY <2>1, <2>2
<1> QED
  BY <1>2 DEF AllExact

\* The helper takes a frame.
LEMMA FramesLeave ==
  ASSUME Grows, FrameTypes, AllExact, c2h # <<>>, c2h' = Tail(c2h),
         \A id \in DOMAIN Held' : id \in DOMAIN Held \/ (c2h[1].type = "Open" /\ c2h[1].id = id),
         UNCHANGED streams
  PROVE  AllExact'
<1> DEFINE t == Tail(c2h)
<1>1. /\ Len(c2h) \in Nat /\ 1 \in 1 .. Len(c2h)
      /\ \A i \in 1 .. Len(t) : t[i] = c2h[i + 1] /\ i + 1 \in 1 .. Len(c2h) /\ i + 1 # 1
      /\ \A i \in 1 .. Len(c2h) : c2h[i] \in Frame
  BY TailAt, ElementOfSeq DEF FrameTypes
<1>2. Len(t) = Len(c2h) - 1
  BY TailAt DEF FrameTypes
<1>3. c2h' = t
  OBVIOUS
<1> HIDE DEF t
<1>4. ASSUME NEW i \in 1 .. Len(t)
      PROVE  Exact(t[i], app', next_id') /\ First(t, i, Held', streams')
  <2>1. /\ Exact(c2h[i + 1], app, next_id) /\ First(c2h, i + 1, Held, streams)
        /\ t[i] = c2h[i + 1] /\ c2h[i + 1] \in Frame
    BY <1>1 DEF AllExact
  <2>2. Exact(t[i], app', next_id')
    BY <2>1, ExactGrows
  <2>3. First(t, i, Held', streams')
    <3> SUFFICES ASSUME t[i].type = "Open"
                 PROVE  /\ t[i].id \notin DOMAIN Held'
                        /\ t[i].id \in DOMAIN streams' => streams'[t[i].id].tx.acked = 0
                        /\ \A j \in 1 .. i - 1 : t[j].type # "Hello" => t[j].id # t[i].id
      BY DEF First
    <3>1. /\ t[i].id \notin DOMAIN Held
          /\ t[i].id \in DOMAIN streams => streams[t[i].id].tx.acked = 0
          /\ \A j \in 1 .. (i + 1) - 1 : c2h[j].type # "Hello" => c2h[j].id # t[i].id
      BY <2>1 DEF First
    <3>2. 1 \in 1 .. (i + 1) - 1
      OBVIOUS
    <3>3. t[i].id \notin DOMAIN Held'
      BY <3>1, <3>2
    <3>4. ASSUME NEW j \in 1 .. i - 1 PROVE t[j].type # "Hello" => t[j].id # t[i].id
      <4>1. j \in 1 .. Len(t) /\ j + 1 \in 1 .. (i + 1) - 1
        BY <1>1, <1>2
      <4> QED
        BY <1>1, <3>1, <4>1
    <3> QED
      BY <3>1, <3>3, <3>4
  <2> QED
    BY <2>2, <2>3
<1> QED
  BY <1>3, <1>4 DEF AllExact

\* Commands that are left still follow each other.
LEMMA CommandsShrink ==
  ASSUME CommandTypes, CommandsFollow, Grows, cmds' = cmds \/ (cmds # <<>> /\ cmds' = Tail(cmds))
  PROVE  CommandsFollow'
<1>1. PICK k \in {0, 1} : /\ \A i \in 1 .. Len(cmds') : cmds'[i] = cmds[i + k] /\ i + k \in 1 .. Len(cmds)
                          /\ \A i \in 1 .. Len(cmds') : \A j \in 1 .. i - 1 : j \in 1 .. Len(cmds')
  <2>1. CASE cmds' = cmds
    <3>1. Len(cmds) \in Nat
      BY LenProperties DEF CommandTypes
    <3>2. \A i \in 1 .. Len(cmds') : cmds'[i] = cmds[i + 0] /\ i + 0 \in 1 .. Len(cmds)
      BY <2>1
    <3>3. \A i \in 1 .. Len(cmds') : \A j \in 1 .. i - 1 : j \in 1 .. Len(cmds')
      BY <2>1, <3>1, SMTT(30)
    <3> QED
      BY <3>2, <3>3
  <2>2. CASE cmds # <<>> /\ cmds' = Tail(cmds)
    <3>1. /\ \A i \in 1 .. Len(Tail(cmds)) : Tail(cmds)[i] = cmds[i + 1] /\ i + 1 \in 1 .. Len(cmds)
          /\ Len(cmds) \in Nat /\ Len(Tail(cmds)) = Len(cmds) - 1
      BY <2>2, TailAt DEF CommandTypes
    <3>2. \A i \in 1 .. Len(cmds') : \A j \in 1 .. i - 1 : j \in 1 .. Len(cmds')
      <4>1. PICK n \in Nat : n = Len(cmds')
        BY <2>2, TailAt, LenProperties DEF CommandTypes
      <4>2. \A i \in 1 .. n : \A j \in 1 .. i - 1 : j \in 1 .. n
        OBVIOUS
      <4> QED
        BY <4>1, <4>2
    <3> QED
      BY <2>2, <3>1, <3>2
  <2> QED
    BY <2>1, <2>2
<1>2. ASSUME NEW i \in 1 .. Len(cmds'), cmds'[i].kind # "Open"
      PROVE  /\ cmds'[i].id \in Allocated'
             /\ \A r \in Request : app'[r].id = cmds'[i].id =>
                  /\ cmds'[i].kind = "LocalData" => \E at \in 1 .. app'[r].wrote : cmds'[i].data = BytesOf(r, at, at)
                  /\ cmds'[i].kind = "LocalEof" => app'[r].shut
             /\ cmds'[i].kind = "LocalData" => \A j \in 1 .. i - 1 :
                  /\ cmds'[j].kind = "LocalEof" => cmds'[j].id # cmds'[i].id
                  /\ IsData(cmds'[j], cmds'[i].id) => Position(cmds'[j]) < Position(cmds'[i])
  <2>1. PICK c : c = cmds'[i]
    OBVIOUS
  <2>2. PICK m \in 1 .. Len(cmds) : m = i + k /\ c = cmds[m]
    BY <1>1, <2>1
  <2>3. /\ c.id \in Allocated
        /\ \A r \in Request : app[r].id = c.id =>
             /\ c.kind = "LocalData" => \E at \in 1 .. app[r].wrote : c.data = BytesOf(r, at, at)
             /\ c.kind = "LocalEof" => app[r].shut
        /\ c.kind = "LocalData" => \A j \in 1 .. m - 1 :
             /\ cmds[j].kind = "LocalEof" => cmds[j].id # c.id
             /\ IsData(cmds[j], c.id) => Position(cmds[j]) < Position(c)
    BY <1>2, <2>1, <2>2 DEF CommandsFollow
  <2>4. c.id \in Allocated' /\ c.id # 0
    BY <2>3 DEF Grows, Allocated
  <2>5. ASSUME NEW r \in Request, app'[r].id = c.id
        PROVE  /\ c.kind = "LocalData" => \E at \in 1 .. app'[r].wrote : c.data = BytesOf(r, at, at)
               /\ c.kind = "LocalEof" => app'[r].shut
    <3>1. app[r].id = c.id
      BY <2>3, <2>5 DEF Grows
    <3>2. app[r].wrote \in Nat /\ app'[r].wrote \in Nat /\ app[r].wrote <= app'[r].wrote /\ (app[r].shut => app'[r].shut)
      BY <2>4, <3>1 DEF Grows
    <3>3. \A at \in 1 .. app[r].wrote : at \in 1 .. app'[r].wrote
      BY <3>2
    <3> QED
      BY <2>3, <3>1, <3>2, <3>3
  <2>6. ASSUME c.kind = "LocalData", NEW j \in 1 .. i - 1
        PROVE  /\ cmds'[j].kind = "LocalEof" => cmds'[j].id # c.id
               /\ IsData(cmds'[j], c.id) => Position(cmds'[j]) < Position(c)
    <3>1. j \in 1 .. Len(cmds') /\ cmds'[j] = cmds[j + k] /\ j + k \in 1 .. m - 1
      BY <1>1, <2>2
    <3> QED
      BY <2>3, <2>6, <3>1
  <2> QED
    BY <2>1, <2>4, <2>5, <2>6
<1> QED
  BY <1>2 DEF CommandsFollow

\* What the helper holds stays exact when its bytes and the applications' grow.
LEMMA HeldKept ==
  ASSUME Grows, HelperTypes, HeldIsExact,
         \A id \in DOMAIN Held' :
           id \in DOMAIN Held /\ Held'[id].req = Held[id].req /\ Held'[id].got = Held[id].got
           /\ (Held'[id].fin => Held[id].fin)
  PROVE  HeldIsExact'
<1>1. ASSUME NEW id \in DOMAIN Held'
      PROVE  LET h == Held'[id]
             IN  /\ id # 0 /\ app'[h.req].id = id /\ Carries(h.got, h.req, 0) /\ Len(h.got) <= app'[h.req].wrote
                 /\ h.fin => app'[h.req].shut
  <2>1. PICK h, g : h = Held'[id] /\ g = Held[id]
    OBVIOUS
  <2>2. id \in DOMAIN Held /\ h.req = g.req /\ h.got = g.got /\ (h.fin => g.fin) /\ g \in HelperStream
    BY <2>1 DEF HelperTypes
  <2>3. /\ id # 0 /\ app[g.req].id = id /\ Carries(g.got, g.req, 0) /\ Len(g.got) <= app[g.req].wrote
        /\ g.fin => app[g.req].shut
    BY <2>1, <2>2 DEF HeldIsExact, Owns
  <2>4. g.req \in Request /\ Len(g.got) \in Nat
    BY <2>2, LenProperties DEF HelperStream
  <2>5. /\ app'[g.req].id = id /\ app[g.req].wrote \in Nat /\ app'[g.req].wrote \in Nat
        /\ app[g.req].wrote <= app'[g.req].wrote /\ (app[g.req].shut => app'[g.req].shut)
    BY <2>3, <2>4 DEF Grows
  <2>6. Len(g.got) <= app'[g.req].wrote
    BY <2>3, <2>4, <2>5
  <2> QED
    BY <2>1, <2>2, <2>3, <2>5, <2>6
<1> QED
  BY <1>1 DEF HeldIsExact, Owns

\* Answers that are left, or were not taken.
LEMMA AnswersLeft ==
  ASSUME FrameTypes, AcksFollow, Allocated \subseteq Allocated',
         h2c' = h2c \/ (h2c # <<>> /\ h2c' = Tail(h2c)),
         \A id \in Allocated : Mentions(c2h', {"Open"}, id) => Mentions(c2h, {"Open"}, id),
         \A id \in DOMAIN Held' : id \in DOMAIN Held /\ Len(Held'[id].got) = Len(Held[id].got)
  PROVE  AcksFollow'
<1>1. PICK k \in {0, 1} : \A i \in 1 .. Len(h2c') : h2c'[i] = h2c[i + k] /\ i + k \in 1 .. Len(h2c)
  <2>1. CASE h2c' = h2c
    <3>1. \A i \in 1 .. Len(h2c') : h2c'[i] = h2c[i + 0] /\ i + 0 \in 1 .. Len(h2c)
      BY <2>1
    <3> QED
      BY <3>1
  <2>2. CASE h2c # <<>> /\ h2c' = Tail(h2c)
    <3>1. \A i \in 1 .. Len(Tail(h2c)) : Tail(h2c)[i] = h2c[i + 1] /\ i + 1 \in 1 .. Len(h2c)
      BY <2>2, TailAt DEF FrameTypes
    <3> QED
      BY <2>2, <3>1
  <2> QED
    BY <2>1, <2>2
<1>2. ASSUME NEW i \in 1 .. Len(h2c'), h2c'[i].type # "HelloAck"
      PROVE  /\ h2c'[i].id \in Allocated'
             /\ h2c'[i].type \in {"Ack", "ResumeOk"} =>
                  /\ h2c'[i].id \in DOMAIN Held' => h2c'[i].offset <= Len(Held'[h2c'[i].id].got)
                  /\ ~Mentions(c2h', {"Open"}, h2c'[i].id)
  <2>1. PICK f : f = h2c'[i]
    OBVIOUS
  <2>2. PICK m \in 1 .. Len(h2c) : f = h2c[m]
    BY <1>1, <2>1
  <2>3. /\ f.id \in Allocated
        /\ f.type \in {"Ack", "ResumeOk"} =>
             /\ f.id \in DOMAIN Held => f.offset <= Len(Held[f.id].got)
             /\ ~Mentions(c2h, {"Open"}, f.id)
    BY <1>2, <2>1, <2>2 DEF AcksFollow
  <2> QED
    BY <2>1, <2>3
<1> QED
  BY <1>2 DEF AcksFollow, Mentions

\* Telling pumps leaves what was written.
LEMMA TellsGrow ==
  ASSUME Books, Tells, next_id' = next_id
  PROVE  /\ Grows /\ Allocated' = Allocated
         /\ \A r \in Request : /\ app'[r].id = app[r].id /\ app'[r].wrote = app[r].wrote
                               /\ app'[r].shut = app[r].shut
<1>1. \A r \in Request : app[r].wrote \in Nat /\ app[r] \in App /\ app'[r] \in App
  BY AppFields DEF Books, Tells, AppTypes
<1>2. \A r \in Request : /\ app'[r].id = app[r].id /\ app'[r].wrote = app[r].wrote /\ app'[r].shut = app[r].shut
  BY DEF Tells, Alike
<1> QED
  BY <1>1, <1>2 DEF Grows, Allocated

\* A stream of a request whose application only learns something.
LEMMA FitsOn ==
  ASSUME Tells, NEW id, NEW s, Fits(id, s, app)
  PROVE  Fits(id, s, app') /\ app'[s.req].wrote = app[s.req].wrote
<1>1. s.req \in Request
  BY StreamFields DEF Fits
<1>2. Alike(app'[s.req], app[s.req])
  BY <1>1 DEF Tells
<1> QED
  BY <1>2 DEF Fits, Alike

\* A step of one stream keeps the bytes.
LEMMA StreamStepBytes ==
  ASSUME Books, Bytes, NEW id, NEW out, StreamStep(id, out)
  PROVE  Bytes'
<1>1. /\ Tells /\ id \in Allocated
      /\ out \in Seq(Frame) /\ c2h' = c2h \o out /\ \A i \in 1 .. Len(out) : FrameFits(out[i], id)
      /\ TakesFor(id) /\ HearsFor(id, out)
      /\ UNCHANGED <<next_id, pending, drv, resuming, channel, breaks, helper>>
      /\ GoesOn(id, out) \/ Forgets(id, out)
  BY DEF StreamStep
<1>2. AppTypes /\ CommandTypes /\ DOMAIN streams \subseteq Allocated
  BY DEF Books
<1>3. StreamTypes /\ FrameTypes /\ HelperTypes
      /\ HeldIsExact /\ FramesAreExact /\ AllJoin /\ CommandsFollow /\ AcksFollow
  BY DEF Bytes
<1>4. /\ Grows /\ Allocated' = Allocated
      /\ \A r \in Request : /\ app'[r].id = app[r].id /\ app'[r].wrote = app[r].wrote
                            /\ app'[r].shut = app[r].shut
  BY <1>1, TellsGrow
<1>5. Held' = Held /\ channel' = channel
  BY <1>1 DEF Held
<1>6. FrameTypes'
  <2>1. c2h' \in Seq(Frame)
    BY <1>1, <1>3, Chained DEF FrameTypes
  <2>2. h2c' \in Seq(Frame)
    BY <1>1, <1>3, Left DEF FrameTypes, HearsFor
  <2> QED
    BY <2>1, <2>2 DEF FrameTypes
<1>7. HelperTypes'
  BY <1>1, <1>3, <1>5 DEF HelperTypes
<1>8. HeldIsExact'
  BY <1>3, <1>4, <1>5, HeldKept
<1>9. CommandsFollow'
  BY <1>1, <1>2, <1>3, <1>4, CommandsShrink DEF TakesFor
<1>10. AcksFollow'
  <2>1. ASSUME NEW j \in Allocated, Mentions(c2h', {"Open"}, j)
        PROVE  Mentions(c2h, {"Open"}, j)
    <3>1. PICK i \in 1 .. Len(c2h') : c2h'[i].type = "Open" /\ c2h'[i].id = j
      BY <2>1 DEF Mentions
    <3>2. /\ i \in 1 .. Len(c2h) => c2h'[i] = c2h[i]
          /\ i \notin 1 .. Len(c2h) => i - Len(c2h) \in 1 .. Len(out) /\ c2h'[i] = out[i - Len(c2h)]
      BY <1>1, <1>3, Chained DEF FrameTypes
    <3>3. i \in 1 .. Len(c2h)
      BY <1>1, <3>1, <3>2 DEF FrameFits
    <3> QED
      BY <3>1, <3>2, <3>3 DEF Mentions
  <2>2. h2c' = h2c \/ (h2c # <<>> /\ h2c' = Tail(h2c))
    BY <1>1 DEF HearsFor
  <2> QED
    BY <1>3, <1>4, <1>5, <2>1, <2>2, AnswersLeft
<1>11. AllFit
  BY <1>3, AllFitIs
<1>12. ASSUME NEW j \in DOMAIN streams', j # id
       PROVE  j \in DOMAIN streams /\ streams'[j] = streams[j]
  BY <1>1, <1>12 DEF GoesOn, Forgets, Became
<1>13. ASSUME id \in DOMAIN streams'
       PROVE  /\ id \in DOMAIN streams
              /\ \E t : /\ streams'[id] = t /\ Fits(id, t, app) /\ t.born = streams[id].born
                        /\ Row(id, WriteOffset(t.tx), app[t.req].wrote, cmds')
                        /\ t.tx.acked = streams[id].tx.acked \/ ~Mentions(c2h, {"Open"}, id)
                        /\ id \in DOMAIN Held => t.tx.acked <= Len(Held[id].got)
  <2>1. GoesOn(id, out)
    BY <1>1, <1>13 DEF Forgets
  <2>2. PICK u, t : /\ id \in DOMAIN streams /\ Turned(id, streams[id], u, cmds')
                    /\ Became(id, t) /\ Fits(id, t, app) /\ SameStream(u, t)
                    /\ t.tx.acked = u.tx.acked
    BY <2>1 DEF GoesOn
  <2>3. streams'[id] = t
    BY <2>2 DEF Became
  <2> QED
    BY <2>2, <2>3 DEF Turned, SameStream, Behind
<1>14. AllFit'
  <2>1. ASSUME NEW j \in DOMAIN streams'
        PROVE  FitsNow(j, streams'[j], app', cmds', channel', Held')
    <3>1. CASE j # id
      <4>1. PICK s : s = streams[j]
        OBVIOUS
      <4>2. j \in DOMAIN streams /\ streams'[j] = s /\ FitsNow(j, s, app, cmds, channel, Held)
        BY <1>11, <1>12, <3>1, <4>1 DEF AllFit
      <4>3. \/ cmds' = cmds
            \/ cmds # <<>> /\ cmds' = Tail(cmds) /\ ~IsData(Head(cmds), j)
        BY <1>1, <3>1 DEF TakesFor, IsData
      <4>4. Fits(j, s, app') /\ app'[s.req].wrote = app[s.req].wrote
        BY <1>1, <4>2, FitsOn DEF FitsNow
      <4>5. Row(j, WriteOffset(s.tx), app[s.req].wrote, cmds')
        BY <1>2, <4>2, <4>3, RowTakes DEF FitsNow
      <4> QED
        BY <1>5, <4>2, <4>4, <4>5 DEF FitsNow
    <3>2. CASE j = id
      <4>1. PICK t : /\ streams'[id] = t /\ Fits(id, t, app) /\ t.born = streams[id].born
                     /\ Row(id, WriteOffset(t.tx), app[t.req].wrote, cmds')
                     /\ id \in DOMAIN Held => t.tx.acked <= Len(Held[id].got)
        BY <1>13, <3>2
      <4>2. streams[id].born <= channel
        BY <1>11, <1>13, <3>2 DEF AllFit, FitsNow
      <4>3. Fits(id, t, app') /\ app'[t.req].wrote = app[t.req].wrote
        BY <1>1, <4>1, FitsOn
      <4> QED
        BY <1>5, <3>2, <4>1, <4>2, <4>3 DEF FitsNow
    <3> QED
      BY <3>1, <3>2
  <2> QED
    BY <2>1 DEF AllFit
<1>15. StreamTypes'
  <2>1. DOMAIN streams' \subseteq StreamId \ {0}
    <3>1. DOMAIN streams' \subseteq DOMAIN streams
      BY <1>12, <1>13
    <3> QED
      BY <1>3, <3>1 DEF StreamTypes
  <2>2. (AllFit /\ DOMAIN streams \subseteq StreamId \ {0} => StreamTypes)'
    BY FitTypes, PTL
  <2> QED
    BY <1>14, <2>1, <2>2
<1>16. AllJoin'
  <2>1. (StreamTypes => (AllJoin <=> AllFit))'
    BY AllFitIs, PTL
  <2> QED
    BY <1>14, <1>15, <2>1
<1>17. FramesAreExact'
  <2>1. AllExact
    BY <1>3, AllExactIs
  <2>2. ASSUME NEW i \in 1 .. Len(out) PROVE Exact(out[i], app', next_id') /\ out[i].type # "Open"
    <3>1. PICK f : f = out[i]
      OBVIOUS
    <3>2. FrameFits(f, id)
      BY <1>1, <3>1
    <3>3. id \in 1 .. next_id' - 1
      BY <1>1, <1>4 DEF Allocated
    <3>4. Exact(f, app', next_id')
      BY <1>4, <3>2, <3>3 DEF Exact, FrameFits
    <3> QED
      BY <3>1, <3>2, <3>4 DEF FrameFits
  <2>3. ASSUME NEW j \in DOMAIN streams', Mentions(c2h, {"Open"}, j)
        PROVE  j \in DOMAIN streams /\ streams'[j].tx.acked = streams[j].tx.acked
    BY <1>12, <1>13, <2>3
  <2>4. DOMAIN Held' \subseteq DOMAIN Held
    BY <1>5
  <2>5. AllExact'
    BY <1>1, <1>3, <1>4, <2>1, <2>2, <2>3, <2>4, FramesQueue
  <2>6. (FramesAreExact <=> AllExact)'
    BY AllExactIs, PTL
  <2> QED
    BY <2>5, <2>6
<1> QED
  BY <1>6, <1>7, <1>8, <1>9, <1>10, <1>15, <1>16, <1>17 DEF Bytes

-----------------------------------------------------------------------------
(* Opening, and resuming.                                                  *)

\* A set of ids can be listed, and the list has each of them.
LEMMA Listed ==
  ASSUME NEW T, T \subseteq StreamId
  PROVE  /\ Cardinality(T) \in Nat /\ SetToSeq(T) \in [1 .. Cardinality(T) -> T]
         /\ \A x \in T : \E i \in 1 .. Cardinality(T) : SetToSeq(T)[i] = x
<1>1. IsFiniteSet(T)
  <2>1. IsFiniteSet(StreamId)
    BY MuxAssumption, FS_Interval DEF StreamId
  <2> QED
    BY <2>1, FS_Subset
<1>2. Cardinality(T) \in Nat /\ ExistsBijection(1 .. Cardinality(T), T)
  BY <1>1, FS_CardinalityType
<1> DEFINE D == 1 .. Cardinality(T)
<1>3. \E f \in [D -> T] : IsInjective(f)
  BY <1>2 DEF ExistsBijection, Bijection, Injection
<1>4. SetToSeq(T) \in [D -> T] /\ IsInjective(SetToSeq(T))
  BY <1>3 DEF SetToSeq
<1>5. SetToSeq(T) \in Injection(D, T)
  BY <1>4 DEF Injection
<1>6. Cardinality(D) = Cardinality(T)
  BY <1>2, FS_Interval
<1>7. SetToSeq(T) \in Surjection(D, T)
  <2> HIDE DEF D
  <2> QED
    BY <1>1, <1>5, <1>6, FS_Injection
<1>8. \A x \in T : \E i \in D : SetToSeq(T)[i] = x
  BY <1>4, <1>7 DEF Surjection
<1> QED
  BY <1>2, <1>4, <1>8

ResumeFrame(f) == f \in Frame /\ f.type = "Resume" /\ f.id \in DOMAIN streams

\* The resuming handshake asks for every stream.
LEMMA ResumesAll ==
  ASSUME DOMAIN streams \subseteq StreamId
  PROVE  /\ Resumes \in Seq(Frame)
         /\ \A i \in 1 .. Len(Resumes) : ResumeFrame(Resumes[i])
         /\ \A id \in DOMAIN streams : \E i \in 1 .. Len(Resumes) : Resumes[i].id = id
<1>1. PICK n, l : n = Cardinality(DOMAIN streams) /\ l = SetToSeq(DOMAIN streams)
  OBVIOUS
<1>2. /\ n \in Nat /\ l \in [1 .. n -> DOMAIN streams]
      /\ \A id \in DOMAIN streams : \E i \in 1 .. n : l[i] = id
  BY <1>1, Listed
<1>3. Resumes = [i \in 1 .. n |-> At("Resume", l[i], 0)]
  BY <1>1 DEF Resumes
<1>4. \A i \in 1 .. n : /\ ResumeFrame(At("Resume", l[i], 0)) /\ At("Resume", l[i], 0) \in Frame
                        /\ At("Resume", l[i], 0).id = l[i]
  BY <1>2 DEF At, Frame, ResumeFrame
<1>5. PICK s : s = Resumes
  OBVIOUS
<1>6. s \in [1 .. n -> Frame] /\ \A i \in 1 .. n : s[i] = At("Resume", l[i], 0)
  BY <1>3, <1>4, <1>5
<1>7. s \in Seq(Frame) /\ Len(s) = n
  BY <1>2, <1>6, Made
<1> QED
  BY <1>2, <1>4, <1>5, <1>6, <1>7

\* The helper holds streams with ids that were given.
LEMMA HeldIsAllocated ==
  ASSUME Books, HeldIsExact, HelperTypes
  PROVE  DOMAIN Held \subseteq Allocated
<1> SUFFICES ASSUME NEW id \in DOMAIN Held PROVE id \in Allocated
  OBVIOUS
<1>1. Held[id].req \in Request /\ id # 0 /\ app[Held[id].req].id = id /\ id \in Nat
  BY DEF HeldIsExact, Owns, HelperTypes, HelperStream, StreamId
<1>2. IdsAreOwn /\ ControlTypes
  BY DEF Books, RequestOnce
<1>3. id < next_id
  BY <1>1, <1>2 DEF IdsAreOwn
<1> QED
  BY <1>1, <1>2, <1>3, IdFacts DEF IdsAreOwn

\* What opening does to the rest.
Opens(ss, a, out, reqs) ==
  /\ Waiting(reqs) /\ Opened(ss, a, out, reqs)
  /\ \A i \in 1 .. Len(reqs) :
       /\ reqs[i] \in Request /\ app'[reqs[i]].st = "live" /\ app'[reqs[i]].id = next_id + i - 1
       /\ app'[reqs[i]].wrote = 0 /\ ~app'[reqs[i]].shut
  /\ \A r \in Request : (\A i \in 1 .. Len(reqs) : reqs[i] # r) => Alike(app'[r], app[r])
  /\ DOMAIN ss \subseteq DOMAIN streams /\ \A id \in DOMAIN ss : ss[id] = streams[id]
  /\ out \in Seq(Frame) /\ \A i \in 1 .. Len(out) : ResumeFrame(out[i])
  /\ cmds' = cmds \/ (cmds # <<>> /\ cmds' = Tail(cmds) /\ Head(cmds).kind = "Open")
  /\ h2c' = h2c \/ (h2c # <<>> /\ h2c' = Tail(h2c) /\ Head(h2c).type = "HelloAck")
  /\ UNCHANGED <<resuming, channel, breaks, helper>>

\* HandleOpen opens one request.
LEMMA HandleOpenOpens ==
  ASSUME Books, StreamTypes, HandleOpen
  PROVE  \E reqs : Opens(streams, app, <<>>, reqs) /\ UNCHANGED <<drv, h2c>>
<1>1. PICK reqs : reqs = <<Head(cmds).req>>
  OBVIOUS
<1>2. Waiting(reqs) /\ Opened(streams, app, <<>>, reqs)
  BY <1>1, HandleOpenBooks
<1>3. DOMAIN streams \subseteq Allocated /\ app \in [Request -> App] /\ \A r \in Request : Alike(app[r], app[r])
  BY DEF Books, AppTypes, Alike
<1>4. OpenStreams(streams, app, <<>>, reqs)
  BY <1>1 DEF HandleOpen
<1>5. /\ \A i \in 1 .. Len(reqs) :
           /\ reqs[i] \in Request /\ app'[reqs[i]].st = "live" /\ app'[reqs[i]].id = next_id + i - 1
           /\ app'[reqs[i]].wrote = 0 /\ ~app'[reqs[i]].shut
      /\ \A r \in Request : (\A i \in 1 .. Len(reqs) : reqs[i] # r) => Alike(app'[r], app[r])
  BY <1>2, <1>3, <1>4, OpenedApp
<1>6. /\ cmds # <<>> /\ cmds' = Tail(cmds) /\ Head(cmds).kind = "Open"
      /\ UNCHANGED <<drv, resuming, channel, breaks, h2c, helper>>
  BY DEF HandleOpen, Command1
<1>7. <<>> \in Seq(Frame) /\ \A i \in 1 .. Len(<<>>) : ResumeFrame(<<>>[i])
  OBVIOUS
<1> QED
  BY <1>2, <1>5, <1>6, <1>7 DEF Opens

\* HelloAck opens those that are queued.
LEMMA HelloAckOpens ==
  ASSUME Books, StreamTypes, HandleHelloAck
  PROVE  Opens(AckStreams, AckApp, AckOut, pending)
<1>1. Waiting(pending) /\ Opened(AckStreams, AckApp, AckOut, pending)
  BY HelloAckBooks
<1>2. /\ DOMAIN AckStreams \subseteq Allocated /\ DOMAIN AckStreams \subseteq DOMAIN streams
      /\ \A id \in DOMAIN AckStreams : AckStreams[id] = streams[id]
      /\ AckApp \in [Request -> App] /\ \A r \in Request : Alike(AckApp[r], app[r])
  BY ToldKeeps DEF AckStreams, AckApp, NoStreams, AppTypes, Alike, Books
<1>3. OpenStreams(AckStreams, AckApp, AckOut, pending)
  <2>1. Without(streams, DOMAIN streams) = NoStreams
    BY DEF Without, NoStreams
  <2>2. CASE resuming /\ ~Head(h2c).resumed
    BY <2>1, <2>2 DEF HandleHelloAck, AckStreams, AckApp, AckOut
  <2>3. CASE ~(resuming /\ ~Head(h2c).resumed)
    <3>1. OpenStreams(streams, app, IF resuming THEN Resumes ELSE <<>>, pending)
      BY <2>3 DEF HandleHelloAck
    <3>2. AckStreams = streams /\ AckApp = app /\ AckOut = IF resuming THEN Resumes ELSE <<>>
      BY <2>3 DEF AckStreams, AckApp, AckOut
    <3> QED
      BY <3>1, <3>2
  <2> QED
    BY <2>2, <2>3
<1>4. /\ \A i \in 1 .. Len(pending) :
           /\ pending[i] \in Request /\ app'[pending[i]].st = "live" /\ app'[pending[i]].id = next_id + i - 1
           /\ app'[pending[i]].wrote = 0 /\ ~app'[pending[i]].shut
      /\ \A r \in Request : (\A i \in 1 .. Len(pending) : pending[i] # r) => Alike(app'[r], app[r])
  BY <1>1, <1>2, <1>3, OpenedApp
<1>5. cmds' = cmds /\ UNCHANGED <<resuming, channel, breaks, helper>>
      /\ h2c # <<>> /\ h2c' = Tail(h2c) /\ Head(h2c).type = "HelloAck"
  BY DEF HandleHelloAck, Frame1
<1>6. AckOut \in Seq(Frame) /\ \A i \in 1 .. Len(AckOut) : ResumeFrame(AckOut[i])
  <2>1. DOMAIN streams \subseteq StreamId
    BY DEF StreamTypes
  <2>2. CASE AckOut = <<>>
    BY <2>2
  <2>3. CASE AckOut = Resumes
    BY <2>1, <2>3, ResumesAll
  <2> QED
    BY <2>2, <2>3 DEF AckOut
<1> QED
  BY <1>1, <1>2, <1>4, <1>5, <1>6 DEF Opens

\* The ids an opening gives, and the applications it gives them to.
LEMMA OpensIds ==
  ASSUME Books, Books', NEW ss, NEW a, NEW out, NEW reqs, Opens(ss, a, out, reqs)
  PROVE  /\ Grows /\ next_id \in Nat \ {0} /\ Len(reqs) \in Nat /\ next_id' = next_id + Len(reqs) /\ next_id' < IdSpace
         /\ IdSpace \in Nat
         /\ \A id : id \in Allocated <=> id \in Nat /\ 1 <= id /\ id < next_id
         /\ \A id : id \in Allocated' <=> id \in Nat /\ 1 <= id /\ id < next_id'
         /\ \A r \in Request : app[r].id # 0 =>
              /\ app'[r].id = app[r].id /\ app'[r].wrote = app[r].wrote /\ app'[r].shut = app[r].shut
              /\ app[r].id \in Allocated
<1>1. /\ AppTypes /\ AppTypes' /\ ControlTypes /\ IdsAreOwn
  BY DEF Books, RequestOnce
<1>2. /\ next_id \in Nat \ {0} /\ Len(reqs) \in Nat /\ next_id' = next_id + Len(reqs) /\ next_id + Len(reqs) < IdSpace
      /\ IdSpace \in Nat
      /\ \A id : id \in Allocated <=> id \in Nat /\ 1 <= id /\ id < next_id
  BY <1>1, IdFacts DEF Opens, Opened, IdsAreOwn
<1>3. \A id : id \in Allocated' <=> id \in Nat /\ 1 <= id /\ id < next_id'
  BY <1>2 DEF Allocated
<1>4. ASSUME NEW r \in Request
      PROVE  /\ app[r].wrote \in Nat /\ app'[r].wrote \in Nat
             /\ app[r].id # 0 =>
                  /\ app'[r].id = app[r].id /\ app'[r].wrote = app[r].wrote /\ app'[r].shut = app[r].shut
                  /\ app[r].id \in Allocated
             /\ \A id \in Allocated : app'[r].id = id => app[r].id = id
  <2>1. app[r].wrote \in Nat /\ app'[r].wrote \in Nat /\ app[r].id \in Nat /\ app[r].id < next_id
    BY <1>1, <1>2 DEF AppTypes, App, StreamId, IdsAreOwn
  <2>2. CASE \A i \in 1 .. Len(reqs) : reqs[i] # r
    <3>1. Alike(app'[r], app[r])
      BY <2>2 DEF Opens
    <3> QED
      BY <1>2, <2>1, <3>1 DEF Alike
  <2>3. CASE \E i \in 1 .. Len(reqs) : reqs[i] = r
    <3>1. PICK i \in 1 .. Len(reqs) : reqs[i] = r
      BY <2>3
    <3>2. app[r].id = 0 /\ app'[r].id = next_id + i - 1
      BY <3>1 DEF Opens, Waiting
    <3>3. ~(next_id + i - 1 < next_id)
      BY <1>2
    <3> QED
      BY <1>2, <2>1, <3>2, <3>3
  <2> QED
    BY <2>2, <2>3
<1>5. Allocated \subseteq Allocated'
  <2>1. \A id \in Nat : id < next_id => id < next_id'
    BY <1>2
  <2> QED
    BY <1>2, <1>3, <2>1
<1>6. ASSUME NEW r \in Request
      PROVE  /\ app[r].wrote \in Nat /\ app'[r].wrote \in Nat
             /\ app[r].id # 0 => /\ app'[r].id = app[r].id /\ app[r].wrote <= app'[r].wrote
                                 /\ app[r].shut => app'[r].shut
             /\ \A id \in Allocated : app'[r].id = id => app[r].id = id
  BY <1>4
<1> QED
  BY <1>2, <1>3, <1>4, <1>5, <1>6 DEF Grows

\* Frame by frame, what an opening sends.
Sends(out, reqs) ==
  /\ c2h' \in Seq(Frame)
  /\ \A i \in 1 .. Len(c2h) : c2h'[i] = c2h[i] /\ i \in 1 .. Len(c2h') /\ c2h[i] \in Frame
  /\ \A i \in 1 .. Len(out) : \E m \in 1 .. Len(c2h') : c2h'[m] = out[i]
  /\ \A i \in 1 .. Len(reqs) : \E m \in 1 .. Len(c2h') : c2h'[m] = OpenFrame(next_id + i - 1, reqs[i])
  /\ \A i \in 1 .. Len(c2h') :
       \/ i \in 1 .. Len(c2h)
       \/ /\ ResumeFrame(c2h'[i]) /\ c2h'[i].id \in Allocated
          /\ \E m \in 1 .. Len(out) : c2h'[i] = out[m]
       \/ \E m \in 1 .. Len(reqs) :
            /\ c2h'[i] = OpenFrame(next_id + m - 1, reqs[m]) /\ c2h'[i] \in Frame
            /\ \A j \in 1 .. i - 1 :
                 \/ j \in 1 .. Len(c2h)
                 \/ c2h'[j].id \in Allocated
                 \/ \E l \in 1 .. m - 1 : c2h'[j].id = next_id + l - 1

\* What is sent when streams are opened is exact.
LEMMA OpensSends ==
  ASSUME Books, Books', Bytes, NEW ss, NEW a, NEW out, NEW reqs, Opens(ss, a, out, reqs)
  PROVE  Sends(out, reqs)
<1>1. PICK sent \in Seq(Frame) :
        /\ c2h' = c2h \o out \o sent /\ Len(sent) = Len(reqs)
        /\ \A i \in 1 .. Len(reqs) : sent[i] = OpenFrame(next_id + i - 1, reqs[i])
  BY DEF Opens, Opened
<1>2. c2h \in Seq(Frame) /\ out \in Seq(Frame) /\ \A i \in 1 .. Len(out) : ResumeFrame(out[i])
  BY DEF Bytes, FrameTypes, Opens
<1>3. PICK n \in Nat, k \in Nat, l \in Nat : n = Len(c2h) /\ k = Len(out) /\ l = Len(sent)
  BY <1>2, LenProperties
<1>4. PICK whole : whole = c2h \o out \o sent
  OBVIOUS
<1>5. /\ whole \in Seq(Frame) /\ Len(whole) = n + k + l
      /\ \A i \in 1 .. n : whole[i] = c2h[i] /\ c2h[i] \in Frame
      /\ \A i \in 1 .. k : whole[n + i] = out[i]
      /\ \A i \in 1 .. l : whole[n + k + i] = sent[i] /\ sent[i] \in Frame
  BY <1>2, <1>3, <1>4, ThreeChained
<1>6. /\ c2h' \in Seq(Frame) /\ Len(c2h') = n + k + l
      /\ \A i \in 1 .. n : c2h'[i] = c2h[i] /\ c2h[i] \in Frame
      /\ \A i \in 1 .. k : c2h'[n + i] = out[i]
      /\ \A i \in 1 .. l : c2h'[n + k + i] = sent[i] /\ sent[i] \in Frame
  BY <1>1, <1>4, <1>5
<1>7. \A i \in 1 .. n : c2h'[i] = c2h[i] /\ i \in 1 .. Len(c2h') /\ c2h[i] \in Frame
  BY <1>3, <1>6
<1>8. \A i \in 1 .. k : n + i \in 1 .. Len(c2h') /\ c2h'[n + i] = out[i]
  BY <1>3, <1>6
<1>9. \A i \in 1 .. l : n + k + i \in 1 .. Len(c2h') /\ c2h'[n + k + i] = OpenFrame(next_id + i - 1, reqs[i])
  BY <1>1, <1>3, <1>6
<1>10. \A i \in n + 1 .. n + k : ResumeFrame(c2h'[i]) /\ c2h'[i].id \in Allocated /\ \E m \in 1 .. k : c2h'[i] = out[m]
  <2> TAKE i \in n + 1 .. n + k
  <2>1. i - n \in 1 .. k /\ n + (i - n) = i
    BY <1>3, <1>6
  <2>2. c2h'[i] = out[i - n] /\ ResumeFrame(out[i - n])
    BY <1>2, <1>3, <1>8, <2>1
  <2> QED
    BY <2>1, <2>2 DEF ResumeFrame, Books
<1>11. ASSUME NEW i \in n + k + 1 .. n + k + l
       PROVE  \E m \in 1 .. Len(reqs) :
                /\ c2h'[i] = OpenFrame(next_id + m - 1, reqs[m]) /\ c2h'[i] \in Frame
                /\ \A j \in 1 .. i - 1 :
                     \/ j \in 1 .. n
                     \/ c2h'[j].id \in Allocated
                     \/ \E q \in 1 .. m - 1 : c2h'[j].id = next_id + q - 1
  <2>1. PICK m \in 1 .. l : i = n + k + m
    <3>1. i - (n + k) \in 1 .. l /\ i = n + k + (i - (n + k))
      BY <1>3, <1>6
    <3> QED
      BY <3>1
  <2>2. c2h'[i] = OpenFrame(next_id + m - 1, reqs[m]) /\ c2h'[i] \in Frame
    BY <1>1, <1>3, <1>6, <1>9, <2>1
  <2>3. ASSUME NEW j \in 1 .. i - 1, j \notin 1 .. n, c2h'[j].id \notin Allocated
        PROVE  \E q \in 1 .. m - 1 : c2h'[j].id = next_id + q - 1
    <3>1. j \notin n + 1 .. n + k
      BY <1>10, <2>3
    <3>2. j - (n + k) \in 1 .. m - 1 /\ j - (n + k) \in 1 .. l /\ j = n + k + (j - (n + k))
      BY <1>3, <2>1, <2>3, <3>1
    <3>3. PICK q \in 1 .. m - 1 : q \in 1 .. l /\ j = n + k + q
      BY <3>2
    <3>4. c2h'[j] = OpenFrame(next_id + q - 1, reqs[q])
      BY <1>9, <3>3
    <3> QED
      BY <3>3, <3>4 DEF OpenFrame
  <2> QED
    BY <1>1, <1>3, <2>2, <2>3
<1>12. \A i \in 1 .. n + k + l : i \in 1 .. n \/ i \in n + 1 .. n + k \/ i \in n + k + 1 .. n + k + l
  BY <1>3, <1>6
<1>13. ASSUME NEW i \in 1 .. Len(c2h')
       PROVE  \/ i \in 1 .. Len(c2h)
              \/ /\ ResumeFrame(c2h'[i]) /\ c2h'[i].id \in Allocated
                 /\ \E m \in 1 .. Len(out) : c2h'[i] = out[m]
              \/ \E m \in 1 .. Len(reqs) :
                   /\ c2h'[i] = OpenFrame(next_id + m - 1, reqs[m]) /\ c2h'[i] \in Frame
                   /\ \A j \in 1 .. i - 1 :
                        \/ j \in 1 .. Len(c2h)
                        \/ c2h'[j].id \in Allocated
                        \/ \E q \in 1 .. m - 1 : c2h'[j].id = next_id + q - 1
  <2>1. CASE i \in 1 .. n
    BY <1>3, <2>1
  <2>2. CASE i \in n + 1 .. n + k
    BY <1>3, <1>10, <2>2
  <2>3. CASE i \in n + k + 1 .. n + k + l
    BY <1>3, <1>11, <2>3
  <2> QED
    BY <1>6, <1>12, <2>1, <2>2, <2>3
<1>14. \A i \in 1 .. Len(out) : \E m \in 1 .. Len(c2h') : c2h'[m] = out[i]
  BY <1>3, <1>8
<1>15. \A i \in 1 .. Len(reqs) : \E m \in 1 .. Len(c2h') : c2h'[m] = OpenFrame(next_id + i - 1, reqs[i])
  BY <1>1, <1>3, <1>9
<1>16. c2h' \in Seq(Frame) /\ \A i \in 1 .. Len(c2h) : c2h'[i] = c2h[i] /\ i \in 1 .. Len(c2h') /\ c2h[i] \in Frame
  BY <1>3, <1>6, <1>7
<1> QED
  BY <1>13, <1>14, <1>15, <1>16 DEF Sends

\* A stream that was just opened.
LEMMA NewFits ==
  ASSUME Books, Bytes, NEW id \in Nat \ {0}, id \notin Allocated, NEW r \in Request, NEW a,
         a[r].id = id, a[r].wrote = 0, NEW q, \A i \in 1 .. Len(q) : q[i].kind # "Open" => q[i].id \in Allocated
  PROVE  FitsNow(id, NewStream(r), a, q, channel, Held) /\ NewStream(r).tx.acked = 0 /\ NewStream(r).tx.cursor = 0
         /\ NewStream(r).req = r /\ NewStream(r).born = channel
<1> DEFINE s == NewStream(r)
<1>1. Window \in Nat \ {0} /\ channel \in Nat
  BY MuxAssumption DEF Books, ControlTypes
<1>2. /\ s.tx = NewSendBuffer(Window) /\ s.req = r /\ s.local_fin = FALSE /\ s.born = channel
      /\ s.tx.acked = 0 /\ s.tx.cursor = 0 /\ s.tx.data = <<>> /\ s.tx \in SendBuffer(Byte)
  BY <1>1 DEF NewStream, NewSendBuffer, SendBuffer
<1>3. s \in StreamState
  BY <1>1, <1>2 DEF NewStream, StreamState
<1>4. WriteOffset(s.tx) = 0 /\ Carries(s.tx.data, r, 0)
  BY <1>2 DEF WriteOffset, Carries
<1>5. GoodTx(s.tx, r)
  BY <1>2, <1>4 DEF GoodTx
<1> HIDE DEF s
<1>6. Fits(id, s, a)
  BY <1>2, <1>3, <1>4, <1>5 DEF Fits
<1>7. Row(id, 0, 0, q)
  BY DEF Row, IsData
<1>8. id \notin DOMAIN Held
  BY HeldIsAllocated DEF Bytes
<1> QED
  BY <1>1, <1>2, <1>4, <1>6, <1>7, <1>8 DEF FitsNow, s

\* Streams that are opened, and those before them, join their neighbours.
LEMMA OpensFit ==
  ASSUME Books, Books', Bytes, NEW ss, NEW a, NEW out, NEW reqs, Opens(ss, a, out, reqs)
  PROVE  AllFit' /\ DOMAIN streams' \subseteq StreamId \ {0}
<1>1. /\ AppTypes /\ CommandTypes /\ ControlTypes /\ DOMAIN streams \subseteq Allocated
  BY DEF Books
<1>2. /\ StreamTypes /\ CommandsFollow /\ AllJoin
  BY DEF Bytes
<1>3. AllFit
  BY <1>2, AllFitIs
<1>4. /\ Grows /\ next_id \in Nat \ {0} /\ Len(reqs) \in Nat /\ next_id' = next_id + Len(reqs) /\ next_id' < IdSpace
      /\ IdSpace \in Nat
      /\ \A id : id \in Allocated <=> id \in Nat /\ 1 <= id /\ id < next_id
      /\ \A r \in Request : app[r].id # 0 =>
           /\ app'[r].id = app[r].id /\ app'[r].wrote = app[r].wrote /\ app'[r].shut = app[r].shut
  BY OpensIds
<1>5. /\ DOMAIN streams' = DOMAIN ss \cup {id \in Nat : next_id <= id /\ id < next_id'}
      /\ \A id \in DOMAIN ss : streams'[id] = ss[id]
      /\ \A i \in 1 .. Len(reqs) : streams'[next_id + i - 1] = NewStream(reqs[i])
      /\ DOMAIN ss \subseteq DOMAIN streams /\ \A id \in DOMAIN ss : ss[id] = streams[id]
      /\ \A i \in 1 .. Len(reqs) :
           reqs[i] \in Request /\ app'[reqs[i]].id = next_id + i - 1 /\ app'[reqs[i]].wrote = 0
      /\ cmds' = cmds \/ (cmds # <<>> /\ cmds' = Tail(cmds) /\ Head(cmds).kind = "Open")
      /\ channel' = channel /\ Held' = Held
  BY DEF Opens, Opened, Held
<1>6. \A i \in 1 .. Len(cmds') : cmds'[i].kind # "Open" => cmds'[i].id \in Allocated
  <2>1. CASE cmds' = cmds
    BY <1>2, <2>1 DEF CommandsFollow
  <2>2. CASE cmds # <<>> /\ cmds' = Tail(cmds)
    <3>1. \A i \in 1 .. Len(Tail(cmds)) : Tail(cmds)[i] = cmds[i + 1] /\ i + 1 \in 1 .. Len(cmds)
      BY <1>1, <2>2, TailAt DEF CommandTypes
    <3> QED
      BY <1>2, <2>2, <3>1 DEF CommandsFollow
  <2> QED
    BY <1>5, <2>1, <2>2
<1>7. ASSUME NEW j \in DOMAIN ss
      PROVE  FitsNow(j, streams'[j], app', cmds', channel', Held')
  <2>1. PICK s : s = streams[j]
    OBVIOUS
  <2>2. streams'[j] = s /\ FitsNow(j, s, app, cmds, channel, Held)
    BY <1>3, <1>5, <2>1 DEF AllFit
  <2>3. s.req \in Request /\ app[s.req].id = j /\ j # 0
    BY <2>2, StreamFields DEF FitsNow, Fits
  <2>4. app'[s.req].id = app[s.req].id /\ app'[s.req].wrote = app[s.req].wrote /\ app'[s.req].shut = app[s.req].shut
    BY <1>4, <2>3
  <2>5. Fits(j, s, app')
    BY <2>2, <2>4 DEF FitsNow, Fits
  <2>6. cmds' = cmds \/ (cmds # <<>> /\ cmds' = Tail(cmds) /\ ~IsData(Head(cmds), j))
    BY <1>5 DEF IsData
  <2>7. Row(j, WriteOffset(s.tx), app[s.req].wrote, cmds')
    BY <1>1, <2>2, <2>6, RowTakes DEF FitsNow
  <2> QED
    BY <1>5, <2>2, <2>4, <2>5, <2>7 DEF FitsNow
<1>8. ASSUME NEW i \in 1 .. Len(reqs)
      PROVE  FitsNow(next_id + i - 1, streams'[next_id + i - 1], app', cmds', channel', Held')
  <2>1. PICK id, r, p, q : id = next_id + i - 1 /\ r = reqs[i] /\ p = app' /\ q = cmds'
    OBVIOUS
  <2>2. id \in Nat \ {0} /\ ~(id < next_id)
    BY <1>4, <2>1
  <2>3. id \notin Allocated /\ r \in Request /\ p[r].id = id /\ p[r].wrote = 0 /\ streams'[id] = NewStream(r)
    BY <1>4, <1>5, <2>1, <2>2
  <2>4. \A k \in 1 .. Len(q) : q[k].kind # "Open" => q[k].id \in Allocated
    BY <1>6, <2>1
  <2>5. FitsNow(id, NewStream(r), p, q, channel, Held)
    BY <2>2, <2>3, <2>4, NewFits
  <2> QED
    BY <1>5, <2>1, <2>3, <2>5
<1>9. ASSUME NEW j \in DOMAIN streams', j \notin DOMAIN ss
      PROVE  \E i \in 1 .. Len(reqs) : j = next_id + i - 1
  <2>1. j \in Nat /\ next_id <= j /\ j < next_id + Len(reqs)
    BY <1>4, <1>5, <1>9
  <2>2. j - next_id + 1 \in 1 .. Len(reqs) /\ j = next_id + (j - next_id + 1) - 1
    BY <1>4, <2>1
  <2> QED
    BY <2>2
<1>10. \A j \in DOMAIN streams' : FitsNow(j, streams'[j], app', cmds', channel', Held')
  BY <1>7, <1>8, <1>9
<1>11. DOMAIN streams' \subseteq StreamId \ {0}
  <2>1. \A j \in Nat : next_id <= j /\ j < next_id' => j \in 0 .. IdSpace - 1 /\ j # 0
    BY <1>4
  <2> QED
    BY <1>2, <1>5, <2>1 DEF StreamTypes, StreamId
<1> QED
  BY <1>10, <1>11 DEF AllFit

\* Frames stay exact when streams are opened.
LEMMA OpensExact ==
  ASSUME Books, Books', Bytes, NEW ss, NEW a, NEW out, NEW reqs, Opens(ss, a, out, reqs)
  PROVE  AllExact'
<1>1. AllExact /\ StreamTypes /\ HelperTypes /\ HeldIsExact
  BY AllExactIs DEF Bytes
<1>2. /\ Grows /\ next_id \in Nat \ {0} /\ Len(reqs) \in Nat /\ next_id' = next_id + Len(reqs)
      /\ \A id : id \in Allocated <=> id \in Nat /\ 1 <= id /\ id < next_id
      /\ \A id : id \in Allocated' <=> id \in Nat /\ 1 <= id /\ id < next_id'
  BY OpensIds
<1>3. /\ DOMAIN streams' = DOMAIN ss \cup {id \in Nat : next_id <= id /\ id < next_id'}
      /\ \A id \in DOMAIN ss : streams'[id] = ss[id]
      /\ \A i \in 1 .. Len(reqs) : streams'[next_id + i - 1] = NewStream(reqs[i])
      /\ DOMAIN ss \subseteq DOMAIN streams /\ \A id \in DOMAIN ss : ss[id] = streams[id]
      /\ \A i \in 1 .. Len(reqs) : reqs[i] \in Request /\ app'[reqs[i]].id = next_id + i - 1
      /\ Held' = Held
  BY DEF Opens, Opened, Held
<1>4. /\ \A i \in 1 .. Len(c2h) : c2h'[i] = c2h[i] /\ i \in 1 .. Len(c2h') /\ c2h[i] \in Frame
      /\ \A i \in 1 .. Len(c2h') :
           \/ i \in 1 .. Len(c2h)
           \/ ResumeFrame(c2h'[i]) /\ c2h'[i].id \in Allocated
           \/ \E m \in 1 .. Len(reqs) :
                /\ c2h'[i] = OpenFrame(next_id + m - 1, reqs[m])
                /\ \A j \in 1 .. i - 1 :
                     \/ j \in 1 .. Len(c2h)
                     \/ c2h'[j].id \in Allocated
                     \/ \E l \in 1 .. m - 1 : c2h'[j].id = next_id + l - 1
  <2>1. Sends(out, reqs)
    BY OpensSends
  <2> QED
    BY <2>1 DEF Sends
<1>5. ASSUME NEW i \in 1 .. Len(c2h)
      PROVE  Exact(c2h'[i], app', next_id') /\ First(c2h', i, Held', streams')
  <2>1. PICK f : f = c2h[i]
    OBVIOUS
  <2>2. /\ f \in Frame /\ c2h'[i] = f /\ Exact(f, app, next_id) /\ First(c2h, i, Held, streams)
    BY <1>1, <1>4, <2>1 DEF AllExact
  <2>3. Exact(f, app', next_id')
    BY <1>2, <2>2, ExactGrows
  <2>4. \A j \in 1 .. i - 1 : c2h'[j] = c2h[j]
    <3>1. Len(c2h) \in Nat
      BY LenProperties DEF Bytes, FrameTypes
    <3>2. \A j \in 1 .. i - 1 : j \in 1 .. Len(c2h)
      BY <3>1
    <3> QED
      BY <1>4, <3>2
  <2>5. f.type = "Open" => f.id \in Allocated
    BY <2>2 DEF Exact, Allocated
  <2>6. f.type = "Open" /\ f.id \in DOMAIN streams' => f.id \in DOMAIN streams /\ streams'[f.id] = streams[f.id]
    <3>1. \A j \in Allocated : ~(next_id <= j)
      BY <1>2
    <3> QED
      BY <1>3, <2>5, <3>1
  <2>7. First(c2h', i, Held', streams')
    BY <1>3, <2>1, <2>2, <2>4, <2>6 DEF First
  <2> QED
    BY <2>2, <2>3, <2>7
<1>6. ASSUME NEW i \in 1 .. Len(c2h'), ResumeFrame(c2h'[i]), c2h'[i].id \in Allocated
      PROVE  Exact(c2h'[i], app', next_id') /\ First(c2h', i, Held', streams')
  <2>1. c2h'[i].type = "Resume" /\ c2h'[i].id \in 1 .. next_id' - 1
    BY <1>2, <1>6 DEF ResumeFrame, Grows, Allocated
  <2> QED
    BY <2>1 DEF Exact, First
<1>7. ASSUME NEW i \in 1 .. Len(c2h'), NEW m \in 1 .. Len(reqs), c2h'[i] = OpenFrame(next_id + m - 1, reqs[m]),
             \A j \in 1 .. i - 1 :
               \/ j \in 1 .. Len(c2h)
               \/ c2h'[j].id \in Allocated
               \/ \E l \in 1 .. m - 1 : c2h'[j].id = next_id + l - 1
      PROVE  Exact(c2h'[i], app', next_id') /\ First(c2h', i, Held', streams')
  <2>1. PICK id, r : id = next_id + m - 1 /\ r = reqs[m]
    OBVIOUS
  <2>2. id \in Nat /\ 1 <= id /\ ~(id < next_id) /\ id < next_id'
    BY <1>2, <2>1
  <2>3. id \notin Allocated /\ id \in Allocated' /\ id \in 1 .. next_id' - 1 /\ id # 0
    BY <1>2, <2>2 DEF Allocated
  <2>4. c2h'[i].type = "Open" /\ c2h'[i].id = id /\ c2h'[i].req = r
    BY <1>7, <2>1 DEF OpenFrame
  <2>5. r \in Request /\ app'[r].id = id
    BY <1>3, <2>1
  <2>6. \A q \in Request : app'[q].id = id => q = r
    <3>1. IdsAreOwn'
      BY DEF Books, RequestOnce
    <3> QED
      BY <2>3, <2>5, <3>1 DEF IdsAreOwn
  <2>7. Exact(c2h'[i], app', next_id')
    BY <2>3, <2>4, <2>6 DEF Exact
  <2>8. id \notin DOMAIN Held'
    BY <1>1, <1>3, <2>3, HeldIsAllocated
  <2>9. id \in DOMAIN streams' => streams'[id].tx.acked = 0
    <3>1. streams'[id] = NewStream(r)
      BY <1>3, <2>1
    <3>2. NewStream(r).tx.acked = 0
      BY DEF NewStream, NewSendBuffer
    <3> QED
      BY <3>1, <3>2
  <2>10. ASSUME NEW j \in 1 .. i - 1, c2h'[j].type # "Hello"
         PROVE  c2h'[j].id # id
    <3>1. CASE j \in 1 .. Len(c2h)
      <4>1. c2h'[j].id \in Allocated
        BY <1>1, <1>4, <2>10, <3>1 DEF AllExact, Exact, Allocated
      <4> QED
        BY <2>3, <4>1
    <3>2. CASE c2h'[j].id \in Allocated
      BY <2>3, <3>2
    <3>3. CASE \E l \in 1 .. m - 1 : c2h'[j].id = next_id + l - 1
      <4>1. \A l \in 1 .. m - 1 : next_id + l - 1 # id
        BY <1>2, <2>1
      <4> QED
        BY <3>3, <4>1
    <3> QED
      BY <1>7, <3>1, <3>2, <3>3
  <2>11. First(c2h', i, Held', streams')
    BY <2>4, <2>8, <2>9, <2>10 DEF First
  <2> QED
    BY <2>7, <2>11
<1>8. \A i \in 1 .. Len(c2h') : Exact(c2h'[i], app', next_id') /\ First(c2h', i, Held', streams')
  BY <1>4, <1>5, <1>6, <1>7
<1> QED
  BY <1>8 DEF AllExact

\* Opening keeps the bytes.
LEMMA OpensBytes ==
  ASSUME Books, Books', Bytes, NEW ss, NEW a, NEW out, NEW reqs, Opens(ss, a, out, reqs)
  PROVE  Bytes'
<1>1. /\ CommandTypes /\ StreamTypes /\ FrameTypes /\ HelperTypes
      /\ HeldIsExact /\ CommandsFollow /\ AcksFollow
  BY DEF Books, Bytes
<1>2. Grows /\ next_id \in Nat \ {0} /\ \A id : id \in Allocated <=> id \in Nat /\ 1 <= id /\ id < next_id
  BY OpensIds
<1>3. /\ cmds' = cmds \/ (cmds # <<>> /\ cmds' = Tail(cmds))
      /\ h2c' = h2c \/ (h2c # <<>> /\ h2c' = Tail(h2c))
      /\ UNCHANGED <<channel, helper>> /\ Held' = Held
  BY DEF Opens, Held
<1>4. FrameTypes'
  <2>1. c2h' \in Seq(Frame)
    BY OpensSends DEF Sends
  <2>2. h2c' \in Seq(Frame)
    BY <1>1, <1>3, Left DEF FrameTypes
  <2> QED
    BY <2>1, <2>2 DEF FrameTypes
<1>5. HelperTypes'
  BY <1>1, <1>3 DEF HelperTypes
<1>6. HeldIsExact'
  BY <1>1, <1>2, <1>3, HeldKept
<1>7. CommandsFollow'
  BY <1>1, <1>2, <1>3, CommandsShrink
<1>8. AcksFollow'
  <2>1. ASSUME NEW j \in Allocated, Mentions(c2h', {"Open"}, j)
        PROVE  Mentions(c2h, {"Open"}, j)
    <3>1. PICK i \in 1 .. Len(c2h') : c2h'[i].type = "Open" /\ c2h'[i].id = j
      BY <2>1 DEF Mentions
    <3>2. \/ i \in 1 .. Len(c2h) /\ c2h'[i] = c2h[i]
          \/ ResumeFrame(c2h'[i])
          \/ \E m \in 1 .. Len(reqs) : c2h'[i] = OpenFrame(next_id + m - 1, reqs[m])
      <4>1. Sends(out, reqs)
        BY OpensSends
      <4> QED
        BY <4>1 DEF Sends
    <3>3. ~ResumeFrame(c2h'[i])
      BY <3>1 DEF ResumeFrame
    <3>4. \A m \in 1 .. Len(reqs) : c2h'[i] # OpenFrame(next_id + m - 1, reqs[m])
      <4>1. \A m \in 1 .. Len(reqs) : next_id + m - 1 # j
        BY <1>2
      <4> QED
        BY <3>1, <4>1 DEF OpenFrame
    <3> QED
      BY <3>1, <3>2, <3>3, <3>4 DEF Mentions
  <2>2. Allocated \subseteq Allocated'
    BY <1>2 DEF Grows
  <2> QED
    BY <1>1, <1>3, <2>1, <2>2, AnswersLeft
<1>9. AllFit' /\ DOMAIN streams' \subseteq StreamId \ {0}
  BY OpensFit
<1>10. StreamTypes'
  <2>1. (AllFit /\ DOMAIN streams \subseteq StreamId \ {0} => StreamTypes)'
    BY FitTypes, PTL
  <2> QED
    BY <1>9, <2>1
<1>11. AllJoin'
  <2>1. (StreamTypes => (AllJoin <=> AllFit))'
    BY AllFitIs, PTL
  <2> QED
    BY <1>9, <1>10, <2>1
<1>12. FramesAreExact'
  <2>1. (FramesAreExact <=> AllExact)'
    BY AllExactIs, PTL
  <2> QED
    BY <2>1, OpensExact
<1> QED
  BY <1>4, <1>5, <1>6, <1>7, <1>8, <1>10, <1>11, <1>12 DEF Bytes

-----------------------------------------------------------------------------
(* The dialers and the pumps.                                              *)

\* What a dialer or a pump does for the request r.
Writes(r) ==
  /\ AppSteps(r) /\ app'[r].id = app[r].id /\ CommandTypes' /\ app'[r].wrote \in Nat
  /\ UNCHANGED <<clientVars, c2h, h2c, helper>>
  /\ \/ /\ cmds' = cmds \/ \E c : c.kind = "Open" /\ Queues(c)
        /\ app'[r].wrote = app[r].wrote /\ app'[r].shut = app[r].shut
     \/ app[r].id # 0 /\ \E c : PumpCommand(c, r) /\ Queues(c)

\* A dial is a step of one request.
LEMMA DialWrites ==
  ASSUME Books, NEW r \in Request, Dial(r)
  PROVE  Writes(r)
<1>0. AppTypes /\ CommandTypes /\ app[r].wrote \in Nat
  BY AppFields DEF Books, AppTypes
<1>1. /\ app'[r].id = app[r].id /\ app'[r].wrote = app[r].wrote /\ app'[r].shut = app[r].shut /\ AppSteps(r)
  BY <1>0, AppFields DEF Dial, AppTypes, App, AppSteps
<1>2. PICK c : c = [kind |-> "Open", req |-> r]
  OBVIOUS
<1>3. c \in MuxCommand /\ Command(c) /\ c.kind = "Open"
  BY <1>2 DEF Dial, MuxCommand
<1>4. CommandTypes' /\ Queues(c) /\ UNCHANGED <<clientVars, c2h, h2c, helper>>
  BY <1>0, <1>3, CommandComes DEF Queues
<1> QED
  BY <1>0, <1>1, <1>3, <1>4 DEF Writes

\* So is a step of its pump.
LEMMA PumpWrites ==
  ASSUME Books, NEW r \in Request, Pump(r)
  PROVE  Writes(r)
<1>0. AppTypes /\ CommandTypes /\ IdsAreOwn
  BY DEF Books, RequestOnce
<1>1. AppTypes' /\ AppSteps(r) /\ app[r].st = "live" /\ app'[r].id = app[r].id
  BY <1>0, PumpIs
<1>2. app[r].id # 0
  BY <1>0, <1>1 DEF IdsAreOwn
<1>3. app'[r].wrote \in Nat
  BY <1>1 DEF AppTypes, App
<1>4. /\ CommandTypes' /\ UNCHANGED <<clientVars, c2h, h2c, helper>>
      /\ \/ cmds' = cmds /\ app'[r].wrote = app[r].wrote /\ app'[r].shut = app[r].shut
         \/ \E c : PumpCommand(c, r) /\ Queues(c)
  BY <1>0, PumpComes
<1> QED
  BY <1>1, <1>2, <1>3, <1>4 DEF Writes

\* Nothing that was written is lost by writing.
LEMMA WritesGrow ==
  ASSUME Books, NEW r \in Request, Writes(r)
  PROVE  /\ Grows /\ Allocated' = Allocated
         /\ \A q \in Request : app'[q].id = app[q].id /\ (q # r => app'[q] = app[q])
         /\ app[r].wrote \in Nat /\ app'[r].wrote \in Nat /\ app[r].wrote <= app'[r].wrote
         /\ app[r].shut => app'[r].shut
<1>1. \A q \in Request : app[q].wrote \in Nat
  BY AppFields DEF Books, AppTypes
<1>2. \A q \in Request : app'[q].id = app[q].id /\ (q # r => app'[q] = app[q])
  BY DEF Writes, AppSteps
<1>3. app'[r].wrote \in Nat /\ app[r].wrote <= app'[r].wrote /\ (app[r].shut => app'[r].shut)
  BY <1>1 DEF Writes, PumpCommand
<1>4. Allocated' = Allocated
  BY DEF Writes, clientVars, Allocated
<1>5. ASSUME NEW q \in Request
      PROVE  /\ app[q].wrote \in Nat /\ app'[q].wrote \in Nat
             /\ app[q].id # 0 => /\ app'[q].id = app[q].id /\ app[q].wrote <= app'[q].wrote
                                 /\ app[q].shut => app'[q].shut
             /\ \A id \in Allocated : app'[q].id = id => app[q].id = id
  BY <1>1, <1>2, <1>3
<1> QED
  BY <1>1, <1>2, <1>3, <1>4, <1>5 DEF Grows

\* A command behind the others follows them.
LEMMA WritesFollow ==
  ASSUME Books, CommandsFollow, NEW r \in Request, Writes(r)
  PROVE  CommandsFollow'
<1>1. /\ Grows /\ Allocated' = Allocated
      /\ \A q \in Request : app'[q].id = app[q].id
      /\ app[r].wrote \in Nat /\ app'[r].wrote \in Nat
  BY WritesGrow
<1>2. AppTypes /\ CommandTypes /\ IdsAreOwn /\ ControlTypes /\ Len(cmds) \in Nat
  BY LenProperties DEF Books, RequestOnce, CommandTypes
<1> DEFINE Good(a, q, i) ==
      q[i].kind # "Open" =>
          /\ q[i].id \in Allocated
          /\ \A p \in Request : a[p].id = q[i].id =>
               /\ q[i].kind = "LocalData" => \E at \in 1 .. a[p].wrote : q[i].data = BytesOf(p, at, at)
               /\ q[i].kind = "LocalEof" => a[p].shut
          /\ q[i].kind = "LocalData" => \A j \in 1 .. i - 1 :
               /\ q[j].kind = "LocalEof" => q[j].id # q[i].id
               /\ IsData(q[j], q[i].id) => Position(q[j]) < Position(q[i])
<1>3. \A i \in 1 .. Len(cmds) : Good(app, cmds, i)
  BY DEF CommandsFollow
<1>4. ASSUME NEW i \in 1 .. Len(cmds), cmds'[i] = cmds[i], \A j \in 1 .. Len(cmds) : cmds'[j] = cmds[j]
      PROVE  Good(app', cmds', i)
  <2>1. \A j \in 1 .. i - 1 : cmds'[j] = cmds[j]
    <3>1. \A j \in 1 .. i - 1 : j \in 1 .. Len(cmds)
      BY <1>2
    <3> QED
      BY <1>4, <3>1
  <2>2. PICK c : c = cmds[i]
    OBVIOUS
  <2>3. ASSUME c.kind # "Open", NEW p \in Request, app'[p].id = c.id
        PROVE  /\ c.kind = "LocalData" => \E at \in 1 .. app'[p].wrote : c.data = BytesOf(p, at, at)
               /\ c.kind = "LocalEof" => app'[p].shut
    <3>1. /\ app[p].id = c.id /\ c.id # 0
      BY <1>1, <1>2, <1>3, <2>2, <2>3, IdFacts DEF IdsAreOwn
    <3>2. /\ app[p].wrote \in Nat /\ app'[p].wrote \in Nat /\ app[p].wrote <= app'[p].wrote
          /\ app[p].shut => app'[p].shut
      BY <1>1, <3>1 DEF Grows
    <3>3. \A at \in 1 .. app[p].wrote : at \in 1 .. app'[p].wrote
      BY <3>2
    <3>4. /\ c.kind = "LocalData" => \E at \in 1 .. app[p].wrote : c.data = BytesOf(p, at, at)
          /\ c.kind = "LocalEof" => app[p].shut
      BY <1>3, <2>2, <2>3, <3>1
    <3> QED
      BY <3>2, <3>3, <3>4
  <2> QED
    BY <1>3, <1>4, <2>1, <2>2, <2>3
<1>5. CASE cmds' = cmds
  <2>1. \A i \in 1 .. Len(cmds') : Good(app', cmds', i)
    BY <1>4, <1>5
  <2> QED
    BY <1>1, <2>1 DEF CommandsFollow
<1>6. ASSUME NEW c, Queues(c), c.kind = "Open" \/ (app[r].id # 0 /\ PumpCommand(c, r))
      PROVE  CommandsFollow'
  <2>1. /\ Len(cmds') = Len(cmds) + 1 /\ cmds'[Len(cmds) + 1] = c
        /\ \A i \in 1 .. Len(cmds) : cmds'[i] = cmds[i]
    BY <1>6 DEF Queues
  <2>2. \A i \in 1 .. Len(cmds') : i \in 1 .. Len(cmds) \/ i = Len(cmds) + 1
    BY <1>2, <2>1
  <2>3. ASSUME c.kind # "Open"
        PROVE  /\ c.id \in Allocated
               /\ \A p \in Request : app'[p].id = c.id =>
                    /\ c.kind = "LocalData" => \E at \in 1 .. app'[p].wrote : c.data = BytesOf(p, at, at)
                    /\ c.kind = "LocalEof" => app'[p].shut
               /\ c.kind = "LocalData" => \A j \in 1 .. Len(cmds) :
                    /\ cmds[j].kind = "LocalEof" => cmds[j].id # c.id
                    /\ IsData(cmds[j], c.id) => Position(cmds[j]) < Position(c)
    <3>1. app[r].id # 0 /\ PumpCommand(c, r) /\ c.id = app[r].id
      BY <1>6, <2>3 DEF PumpCommand
    <3>2. c.id \in Allocated
      <4>1. app[r].id \in Nat /\ app[r].id < next_id
        BY <1>2 DEF AppTypes, App, StreamId, IdsAreOwn
      <4> QED
        BY <1>2, <3>1, <4>1, IdFacts DEF IdsAreOwn
    <3>3. \A p \in Request : app'[p].id = c.id => p = r
      BY <1>1, <1>2, <3>1 DEF IdsAreOwn
    <3>4. /\ c.kind = "LocalData" => \E at \in 1 .. app'[r].wrote : c.data = BytesOf(r, at, at)
          /\ c.kind = "LocalEof" => app'[r].shut
      <4>1. c.kind = "LocalData" =>
              app[r].wrote + 1 \in 1 .. app'[r].wrote /\ c.data = BytesOf(r, app[r].wrote + 1, app[r].wrote + 1)
        BY <1>1, <3>1 DEF PumpCommand
      <4> QED
        BY <3>1, <4>1 DEF PumpCommand
    <3>5. ASSUME c.kind = "LocalData", NEW j \in 1 .. Len(cmds)
          PROVE  /\ cmds[j].kind = "LocalEof" => cmds[j].id # c.id
                 /\ IsData(cmds[j], c.id) => Position(cmds[j]) < Position(c)
      <4>1. ~app[r].shut /\ Position(c) = app[r].wrote + 1
        BY <3>1, <3>5 DEF PumpCommand
      <4>2. cmds[j].kind = "LocalEof" => cmds[j].id # c.id
        BY <1>3, <3>1, <4>1
      <4>3. ASSUME IsData(cmds[j], c.id) PROVE Position(cmds[j]) < Position(c)
        <5>1. PICK at \in 1 .. app[r].wrote : Position(cmds[j]) = at
          BY <1>2, <3>1, <4>3, OneByteEach
        <5> QED
          BY <1>1, <4>1, <5>1
      <4> QED
        BY <4>2, <4>3
    <3> QED
      BY <3>2, <3>3, <3>4, <3>5
  <2>4. Good(app', cmds', Len(cmds) + 1)
    <3>1. PICK n : n = Len(cmds) + 1
      OBVIOUS
    <3>2. \A j \in 1 .. n - 1 : j \in 1 .. Len(cmds)
      BY <1>2, <3>1
    <3> QED
      BY <2>1, <2>3, <3>1, <3>2
  <2>5. \A i \in 1 .. Len(cmds') : Good(app', cmds', i)
    BY <1>4, <2>1, <2>2, <2>4
  <2> QED
    BY <1>1, <2>5 DEF CommandsFollow
<1> QED
  BY <1>5, <1>6 DEF Writes

\* Streams join what was written since.
LEMMA WritesFit ==
  ASSUME Books, AllFit, NEW r \in Request, Writes(r), NEW id \in DOMAIN streams
  PROVE  FitsNow(id, streams[id], app', cmds', channel, Held)
<1>1. PICK s : s = streams[id]
  OBVIOUS
<1>2. FitsNow(id, s, app, cmds, channel, Held)
  BY <1>1 DEF AllFit
<1>3. /\ \A q \in Request : app'[q].id = app[q].id /\ (q # r => app'[q] = app[q])
      /\ app[r].wrote \in Nat /\ app'[r].wrote \in Nat /\ app[r].wrote <= app'[r].wrote
      /\ app[r].shut => app'[r].shut
  BY WritesGrow
<1>4. /\ s.req \in Request /\ app[s.req].id = id /\ WriteOffset(s.tx) \in Nat
      /\ WriteOffset(s.tx) <= app[s.req].wrote /\ (s.local_fin => app[s.req].shut /\ WriteOffset(s.tx) = app[s.req].wrote)
  BY <1>2, StreamFields DEF FitsNow, Fits
<1>5. PICK end : end = WriteOffset(s.tx)
  OBVIOUS
<1>6. app[r].shut => app'[r].wrote = app[r].wrote
  BY DEF Writes, PumpCommand
<1>7. Fits(id, s, app')
  <2>1. end <= app'[s.req].wrote
    BY <1>3, <1>4, <1>5
  <2>2. s.local_fin => app'[s.req].shut /\ end = app'[s.req].wrote
    BY <1>3, <1>4, <1>5, <1>6
  <2> QED
    BY <1>2, <1>3, <1>4, <1>5, <2>1, <2>2 DEF FitsNow, Fits
<1>8. Row(id, end, app[s.req].wrote, cmds)
  BY <1>2, <1>5 DEF FitsNow
<1>9. Row(id, end, app'[s.req].wrote, cmds')
  <2>1. CASE cmds' = cmds /\ app'[r].wrote = app[r].wrote
    <3>1. app'[s.req].wrote = app[s.req].wrote
      BY <1>3, <1>4, <2>1
    <3> QED
      BY <1>8, <2>1, <3>1
  <2>2. ASSUME NEW c, Queues(c),
               \/ c.kind = "Open" /\ app'[r].wrote = app[r].wrote
               \/ app[r].id # 0 /\ PumpCommand(c, r)
        PROVE  Row(id, end, app'[s.req].wrote, cmds')
    <3>1. /\ Len(cmds) \in Nat /\ Len(cmds') = Len(cmds) + 1 /\ cmds'[Len(cmds) + 1] = c
          /\ \A i \in 1 .. Len(cmds) : cmds'[i] = cmds[i]
      BY <2>2 DEF Queues
    <3>2. /\ \A i \in 1 .. Len(cmds') : i \in 1 .. Len(cmds) \/ i = Len(cmds) + 1
          /\ \A i \in 1 .. Len(cmds) : i \in 1 .. Len(cmds')
          /\ Len(cmds) + 1 \in 1 .. Len(cmds')
      BY <3>1
    <3>3. IdsAreOwn
      BY DEF Books, RequestOnce
    <3>4. IsData(c, id) => end < Position(c)
      <4>1. ASSUME IsData(c, id) PROVE s.req = r /\ Position(c) = app[r].wrote + 1
        <5>1. PumpCommand(c, r) /\ app[r].id # 0 /\ app[r].id = app[s.req].id
          BY <1>4, <2>2, <4>1 DEF IsData, PumpCommand
        <5>2. s.req = r
          BY <1>4, <3>3, <5>1 DEF IdsAreOwn
        <5> QED
          BY <4>1, <5>1, <5>2 DEF PumpCommand, IsData
      <4> QED
        BY <1>3, <1>4, <1>5, <4>1
    <3>5. app'[s.req].wrote = app[s.req].wrote
          \/ (app'[s.req].wrote = app[s.req].wrote + 1 /\ IsData(c, id) /\ Position(c) = app[s.req].wrote + 1)
      <4>1. CASE s.req # r
        BY <1>3, <1>4, <4>1
      <4>2. CASE s.req = r
        <5>1. CASE app'[r].wrote = app[r].wrote
          BY <4>2, <5>1
        <5>2. CASE app'[r].wrote # app[r].wrote
          BY <1>4, <2>2, <4>2, <5>2 DEF PumpCommand, IsData
        <5> QED
          BY <5>1, <5>2
      <4> QED
        BY <4>1, <4>2
    <3>6. \A i \in 1 .. Len(cmds') : IsData(cmds'[i], id) => end < Position(cmds'[i])
      BY <1>8, <3>1, <3>2, <3>4 DEF Row
    <3>7. ASSUME NEW b \in end + 1 .. app'[s.req].wrote
          PROVE  \E i \in 1 .. Len(cmds') : IsData(cmds'[i], id) /\ Position(cmds'[i]) = b
      <4>1. CASE b \in end + 1 .. app[s.req].wrote
        <5>1. PICK i \in 1 .. Len(cmds) : IsData(cmds[i], id) /\ Position(cmds[i]) = b
          BY <1>8, <4>1 DEF Row
        <5> QED
          BY <3>1, <3>2, <5>1
      <4>2. CASE b \notin end + 1 .. app[s.req].wrote
        <5>1. b = app[s.req].wrote + 1 /\ IsData(c, id) /\ Position(c) = b
          BY <1>3, <1>4, <1>5, <3>5, <4>2
        <5> QED
          BY <3>1, <3>2, <5>1
      <4> QED
        BY <4>1, <4>2
    <3> QED
      BY <3>6, <3>7 DEF Row
  <2> QED
    BY <2>1, <2>2 DEF Writes
<1> QED
  BY <1>1, <1>2, <1>5, <1>7, <1>9 DEF FitsNow

\* Nothing is sent.
LEMMA FramesStay ==
  ASSUME Grows, FrameTypes, AllExact, c2h' = c2h, UNCHANGED streams, DOMAIN Held' \subseteq DOMAIN Held
  PROVE  AllExact'
<1>1. \A i \in 1 .. Len(c2h) : c2h[i] \in Frame
  BY ElementOfSeq DEF FrameTypes
<1>2. ASSUME NEW i \in 1 .. Len(c2h)
      PROVE  Exact(c2h[i], app', next_id') /\ First(c2h, i, Held', streams')
  <2>1. Exact(c2h[i], app, next_id) /\ First(c2h, i, Held, streams)
    BY DEF AllExact
  <2>2. PICK f : f = c2h[i]
    OBVIOUS
  <2>3. Exact(f, app', next_id')
    BY <1>1, <2>1, <2>2, ExactGrows
  <2> QED
    BY <2>1, <2>2, <2>3 DEF First
<1> QED
  BY <1>2 DEF AllExact

\* A step of a request keeps the bytes.
LEMMA WritesBytes ==
  ASSUME Books, Bytes, NEW r \in Request, Writes(r)
  PROVE  Bytes'
<1>1. /\ StreamTypes /\ FrameTypes /\ HelperTypes /\ HeldIsExact /\ CommandsFollow /\ AcksFollow /\ AllFit /\ AllExact
  BY AllFitIs, AllExactIs DEF Bytes
<1>2. UNCHANGED <<streams, channel, c2h, h2c, helper>> /\ Held' = Held /\ Grows
  BY WritesGrow DEF Writes, clientVars, Held
<1>3. StreamTypes' /\ FrameTypes' /\ HelperTypes'
  BY <1>1, <1>2 DEF StreamTypes, FrameTypes, HelperTypes
<1>4. HeldIsExact'
  BY <1>1, <1>2, HeldKept
<1>5. CommandsFollow'
  BY <1>1, WritesFollow
<1>6. AcksFollow'
  <2>1. \A id : Mentions(c2h', {"Open"}, id) => Mentions(c2h, {"Open"}, id)
    BY <1>2 DEF Mentions
  <2>2. Allocated \subseteq Allocated'
    BY <1>2 DEF Grows
  <2> QED
    BY <1>1, <1>2, <2>1, <2>2, AnswersLeft
<1>7. AllJoin'
  <2>1. \A id \in DOMAIN streams' : FitsNow(id, streams'[id], app', cmds', channel', Held')
    BY <1>1, <1>2, WritesFit
  <2>2. (StreamTypes => (AllJoin <=> AllFit))'
    BY AllFitIs, PTL
  <2> QED
    BY <1>3, <2>1, <2>2 DEF AllFit
<1>8. FramesAreExact'
  <2>1. (FramesAreExact <=> AllExact)'
    BY AllExactIs, PTL
  <2>2. AllExact'
    BY <1>1, <1>2, FramesStay
  <2> QED
    BY <2>1, <2>2
<1> QED
  BY <1>3, <1>4, <1>5, <1>6, <1>7, <1>8 DEF Bytes

\* An Open that is queued carries no bytes.
LEMMA QueueOpenBytes ==
  ASSUME Books, Bytes, QueueOpen
  PROVE  Bytes'
<1>1. /\ CommandTypes /\ StreamTypes /\ FrameTypes /\ HelperTypes
      /\ HeldIsExact /\ CommandsFollow /\ AcksFollow /\ AllFit /\ AllExact
  BY AllFitIs, AllExactIs DEF Books, Bytes
<1>2. /\ UNCHANGED <<app, streams, next_id, channel, c2h, h2c, helper>> /\ Held' = Held
      /\ cmds # <<>> /\ cmds' = Tail(cmds) /\ Head(cmds).kind = "Open"
  BY DEF QueueOpen, Command1, Held
<1>3. Grows
  BY <1>2, AppFields DEF Books, Grows, Allocated, AppTypes
<1>4. StreamTypes' /\ FrameTypes' /\ HelperTypes'
  BY <1>1, <1>2 DEF StreamTypes, FrameTypes, HelperTypes
<1>5. HeldIsExact'
  BY <1>1, <1>2, <1>3, HeldKept
<1>6. CommandsFollow'
  BY <1>1, <1>2, <1>3, CommandsShrink
<1>7. AcksFollow'
  <2>1. \A id : Mentions(c2h', {"Open"}, id) => Mentions(c2h, {"Open"}, id)
    BY <1>2 DEF Mentions
  <2>2. Allocated \subseteq Allocated'
    BY <1>3 DEF Grows
  <2> QED
    BY <1>1, <1>2, <2>1, <2>2, AnswersLeft
<1>8. AllJoin'
  <2>1. ASSUME NEW id \in DOMAIN streams
        PROVE  FitsNow(id, streams[id], app, cmds', channel, Held)
    <3>1. PICK s : s = streams[id]
      OBVIOUS
    <3>2. FitsNow(id, s, app, cmds, channel, Held)
      BY <1>1, <3>1 DEF AllFit
    <3>3. ~IsData(Head(cmds), id)
      BY <1>2 DEF IsData
    <3>4. Row(id, WriteOffset(s.tx), app[s.req].wrote, cmds')
      BY <1>1, <1>2, <3>2, <3>3, RowTakes DEF FitsNow
    <3> QED
      BY <3>1, <3>2, <3>4 DEF FitsNow
  <2>2. (StreamTypes => (AllJoin <=> AllFit))'
    BY AllFitIs, PTL
  <2>3. AllFit'
    BY <1>2, <2>1 DEF AllFit
  <2> QED
    BY <1>4, <2>2, <2>3
<1>9. FramesAreExact'
  <2>1. (FramesAreExact <=> AllExact)'
    BY AllExactIs, PTL
  <2>2. AllExact'
    BY <1>1, <1>2, <1>3, FramesStay
  <2> QED
    BY <2>1, <2>2
<1> QED
  BY <1>4, <1>5, <1>6, <1>7, <1>8, <1>9 DEF Bytes

-----------------------------------------------------------------------------
(* Channels that come and go.                                              *)

Clears ==
  /\ Tells /\ UNCHANGED <<cmds, next_id>> /\ channel' \in Nat /\ channel <= channel'
  /\ DOMAIN streams' \subseteq DOMAIN streams /\ \A id \in DOMAIN streams' : streams'[id] = streams[id]
  /\ c2h' \in Seq(Frame) /\ (\A i \in 1 .. Len(c2h') : c2h'[i].type = "Hello") /\ h2c' = <<>>
  /\ HelperTypes'
  /\ DOMAIN Held' \subseteq DOMAIN Held /\ \A id \in DOMAIN Held' : Held'[id] = Held[id]

\* A channel that comes or goes keeps the bytes: it only loses frames.
LEMMA ClearsBytes ==
  ASSUME Books, Bytes, Clears
  PROVE  Bytes'
<1>1. /\ CommandTypes /\ StreamTypes /\ FrameTypes /\ HelperTypes
      /\ HeldIsExact /\ CommandsFollow /\ AcksFollow /\ AllFit /\ channel \in Nat
  BY AllFitIs DEF Books, Bytes, ControlTypes
<1>2. Grows /\ \A r \in Request : app'[r].wrote = app[r].wrote
  BY TellsGrow DEF Clears
<1>3. StreamTypes' /\ FrameTypes' /\ HelperTypes'
  BY <1>1 DEF Clears, StreamTypes, FrameTypes
<1>4. HeldIsExact'
  BY <1>1, <1>2, HeldKept DEF Clears
<1>5. CommandsFollow'
  BY <1>1, <1>2, CommandsShrink DEF Clears
<1>6. AcksFollow'
  BY DEF Clears, AcksFollow
<1>7. AllJoin'
  <2>1. ASSUME NEW id \in DOMAIN streams'
        PROVE  FitsNow(id, streams'[id], app', cmds', channel', Held')
    <3>1. PICK s : s = streams[id]
      OBVIOUS
    <3>2. streams'[id] = s /\ FitsNow(id, s, app, cmds, channel, Held)
      BY <1>1, <3>1 DEF AllFit, Clears
    <3>3. Fits(id, s, app') /\ app'[s.req].wrote = app[s.req].wrote
      BY <3>2, FitsOn DEF FitsNow, Clears
    <3>4. s.born <= channel'
      BY <1>1, <3>2, StreamFields DEF FitsNow, Fits, Clears
    <3> QED
      BY <3>2, <3>3, <3>4 DEF FitsNow, Clears
  <2>2. (StreamTypes => (AllJoin <=> AllFit))'
    BY AllFitIs, PTL
  <2>3. AllFit'
    BY <2>1 DEF AllFit
  <2> QED
    BY <1>3, <2>2, <2>3
<1>8. FramesAreExact'
  BY DEF Clears, FramesAreExact
<1> QED
  BY <1>3, <1>4, <1>5, <1>6, <1>7, <1>8 DEF Bytes

\* The steps of the channel do that.
LEMMA ChannelsClear ==
  ASSUME Books, Bytes, (\E same \in Survives : Attach(same)) \/ Break \/ FrameTooEarly \/ ForeignVersion
  PROVE  Clears
<1>1. AppTypes /\ ControlTypes /\ HelperTypes /\ channel \in Nat
  BY DEF Books, Bytes, ControlTypes
<1>2. ASSUME NEW same \in Survives, Attach(same) PROVE Clears
  <2>1. Tells /\ UNCHANGED <<cmds, next_id, streams>> /\ channel' = channel + 1 /\ h2c' = <<>>
    BY <1>1, <1>2, KeptTells DEF Attach
  <2>2. c2h' \in Seq(Frame) /\ \A i \in 1 .. Len(c2h') : c2h'[i].type = "Hello"
    <3>1. PICK f : f = [type |-> "Hello", resume |-> resuming']
      OBVIOUS
    <3>2. f \in Frame /\ f.type = "Hello"
      BY <1>2, <3>1 DEF Frame, Attach
    <3>3. c2h' = <<f>>
      BY <1>2, <3>1 DEF Attach
    <3> QED
      BY <3>2, <3>3
  <2>3. PICK h : h = IF same THEN helper ELSE FreshHelper
    OBVIOUS
  <2>4. /\ DOMAIN h = {"session", "streams", "channels"} /\ h.session \in BOOLEAN /\ h.channels \in 0 .. channel
        /\ DOMAIN h.streams \subseteq DOMAIN Held /\ \A id \in DOMAIN h.streams : h.streams[id] = Held[id]
    <3>1. CASE h = helper
      BY <1>1, <3>1 DEF HelperTypes, Held
    <3>2. CASE h = FreshHelper
      <4>1. /\ DOMAIN h = {"session", "streams", "channels"} /\ h.session = FALSE /\ h.channels = 0
            /\ DOMAIN h.streams = {}
        BY <3>2 DEF FreshHelper, NoStreams
      <4>2. 0 \in 0 .. channel /\ FALSE \in BOOLEAN
        BY <1>1
      <4>3. DOMAIN h.streams \subseteq DOMAIN Held /\ \A id \in DOMAIN h.streams : h.streams[id] = Held[id]
        BY <4>1
      <4> QED
        BY <4>1, <4>2, <4>3
    <3> QED
      BY <2>3, <3>1, <3>2
  <2>5. helper' = [h EXCEPT !.channels = @ + 1]
    BY <1>2, <2>3 DEF Attach
  <2>6. /\ DOMAIN helper' = {"session", "streams", "channels"} /\ helper'.session \in BOOLEAN
        /\ helper'.channels = h.channels + 1 /\ helper'.streams = h.streams
    BY <2>4, <2>5
  <2>7. helper'.channels \in 0 .. channel'
    BY <1>1, <2>1, <2>4, <2>6
  <2>8. HelperTypes' /\ DOMAIN Held' \subseteq DOMAIN Held /\ \A id \in DOMAIN Held' : Held'[id] = Held[id]
    BY <1>1, <2>4, <2>6, <2>7 DEF HelperTypes, Held
  <2>9. channel' \in Nat /\ channel <= channel'
    BY <1>1, <2>1
  <2> QED
    BY <2>1, <2>2, <2>8, <2>9 DEF Clears
<1>3. CASE Break \/ FrameTooEarly
  <2>1. /\ Tells /\ UNCHANGED <<cmds, next_id, streams, channel, helper>> /\ c2h' = <<>> /\ h2c' = <<>>
    BY <1>1, <1>3, KeptTells DEF Break, FrameTooEarly
  <2> QED
    BY <1>1, <2>1 DEF Clears, HelperTypes, Held
<1>4. CASE ForeignVersion
  <2>1. /\ Drop(DOMAIN streams) /\ c2h' = <<>> /\ h2c' = <<>> /\ helper' = FreshHelper
        /\ UNCHANGED <<cmds, next_id, channel>>
    BY <1>4 DEF ForeignVersion
  <2>2. Tells /\ DOMAIN streams' \subseteq DOMAIN streams /\ \A id \in DOMAIN streams' : streams'[id] = streams[id]
    BY <1>1, <2>1, DropTells
  <2>3. HelperTypes' /\ DOMAIN Held' = {}
    BY <1>1, <2>1 DEF HelperTypes, FreshHelper, NoStreams, Held
  <2> QED
    BY <1>1, <2>1, <2>2, <2>3 DEF Clears
<1> QED
  BY <1>2, <1>3, <1>4

-----------------------------------------------------------------------------
(* The helper.                                                             *)

\* What the helper answers.
Answers(f) ==
  /\ f \in Frame /\ h2c' = Append(h2c, f)
  /\ f.type # "HelloAck" =>
       /\ f.id \in Allocated
       /\ f.type \in {"Ack", "ResumeOk"} =>
            f.id \in DOMAIN Held /\ (f.id \in DOMAIN Held' => f.offset <= Len(Held'[f.id].got))

TakesFrame(type) == c2h # <<>> /\ c2h[1].type = type /\ c2h' = Tail(c2h)

\* A step of the helper.
Serves ==
  /\ ClientIdle /\ HelperTypes' /\ HeldIsExact'
  /\ h2c' = h2c \/ \E f : Answers(f)
  /\ \A id \in DOMAIN Held' : id \in DOMAIN Held => Len(Held[id].got) <= Len(Held'[id].got)
  /\ \/ c2h' = c2h /\ DOMAIN Held' \subseteq DOMAIN Held
     \/ \E type : /\ TakesFrame(type)
                  /\ \A id \in DOMAIN Held' : id \in DOMAIN Held \/ (type = "Open" /\ c2h[1].id = id)

\* Answers of the helper name bytes that it has.
LEMMA ServesAnswers ==
  ASSUME Books, Bytes, Serves
  PROVE  AcksFollow' /\ h2c' \in Seq(Frame)
<1>1. FrameTypes /\ HelperTypes /\ AcksFollow /\ AllExact
  BY AllExactIs DEF Bytes
<1>2. Allocated' = Allocated
  BY DEF Serves, ClientIdle, clientVars, Allocated
<1>3. ASSUME NEW id, Mentions(c2h', {"Open"}, id) PROVE Mentions(c2h, {"Open"}, id)
  <2>1. CASE c2h' = c2h
    BY <1>3, <2>1 DEF Mentions
  <2>2. CASE c2h # <<>> /\ c2h' = Tail(c2h)
    <3>1. \A i \in 1 .. Len(Tail(c2h)) : Tail(c2h)[i] = c2h[i + 1] /\ i + 1 \in 1 .. Len(c2h)
      BY <1>1, <2>2, TailAt DEF FrameTypes
    <3> QED
      BY <1>3, <2>2, <3>1 DEF Mentions
  <2> QED
    BY <2>1, <2>2 DEF Serves, TakesFrame
<1>4. ASSUME NEW id \in DOMAIN Held'
      PROVE  id \in DOMAIN Held \/ Mentions(c2h, {"Open"}, id)
  <2>1. ASSUME id \notin DOMAIN Held PROVE c2h # <<>> /\ c2h[1].type = "Open" /\ c2h[1].id = id
    BY <2>1 DEF Serves, TakesFrame
  <2>2. c2h # <<>> => 1 \in 1 .. Len(c2h)
    BY <1>1, Left DEF FrameTypes
  <2> QED
    BY <2>1, <2>2 DEF Mentions
<1> DEFINE Good(f) ==
      f.type # "HelloAck" =>
          /\ f.id \in Allocated
          /\ f.type \in {"Ack", "ResumeOk"} =>
               /\ f.id \in DOMAIN Held' => f.offset <= Len(Held'[f.id].got)
               /\ ~Mentions(c2h', {"Open"}, f.id)
<1>5. ASSUME NEW i \in 1 .. Len(h2c) PROVE Good(h2c[i])
  <2>1. PICK f : f = h2c[i]
    OBVIOUS
  <2>2. /\ f \in Frame
        /\ f.type # "HelloAck" =>
          /\ f.id \in Allocated
          /\ f.type \in {"Ack", "ResumeOk"} =>
               /\ f.id \in DOMAIN Held => f.offset <= Len(Held[f.id].got)
               /\ ~Mentions(c2h, {"Open"}, f.id)
    BY <1>1, <2>1, ElementOfSeq DEF AcksFollow, FrameTypes
  <2>3. ASSUME f.type \in {"Ack", "ResumeOk"}, f.id \in DOMAIN Held'
        PROVE  f.offset <= Len(Held'[f.id].got)
    <3>1. f.id \in DOMAIN Held /\ f.offset <= Len(Held[f.id].got)
      BY <1>4, <2>2, <2>3
    <3>2. Len(Held[f.id].got) <= Len(Held'[f.id].got)
      BY <2>3, <3>1 DEF Serves
    <3>3. Len(Held[f.id].got) \in Nat /\ Len(Held'[f.id].got) \in Nat /\ f.offset \in Nat
      BY <1>1, <2>2, <2>3, <3>1, FrameFields, LenProperties DEF HelperTypes, HelperStream, Serves
    <3> QED
      BY <3>1, <3>2, <3>3
  <2> QED
    BY <1>3, <2>1, <2>2, <2>3
<1>6. CASE h2c' = h2c
  <2>1. \A i \in 1 .. Len(h2c') : Good(h2c'[i])
    BY <1>5, <1>6
  <2> QED
    BY <1>1, <1>2, <1>6, <2>1 DEF AcksFollow, FrameTypes
<1>7. ASSUME NEW f, Answers(f) PROVE AcksFollow' /\ h2c' \in Seq(Frame)
  <2>1. /\ h2c' \in Seq(Frame) /\ Len(h2c) \in Nat /\ Len(h2c') = Len(h2c) + 1 /\ h2c'[Len(h2c) + 1] = f
        /\ \A i \in 1 .. Len(h2c) : h2c'[i] = h2c[i]
    BY <1>1, <1>7, Joined DEF Answers, FrameTypes
  <2>2. \A i \in 1 .. Len(h2c') : i \in 1 .. Len(h2c) \/ i = Len(h2c) + 1
    BY <2>1
  <2>3. Good(f)
    <3>1. \A id \in DOMAIN Held : ~Mentions(c2h, {"Open"}, id)
      BY <1>1 DEF AllExact, First, Mentions
    <3> QED
      BY <1>3, <1>7, <3>1 DEF Answers
  <2>4. \A i \in 1 .. Len(h2c') : Good(h2c'[i])
    BY <1>5, <2>1, <2>2, <2>3
  <2> QED
    BY <1>2, <2>1, <2>4 DEF AcksFollow
<1> QED
  BY <1>6, <1>7 DEF Serves

\* A step of the helper keeps the bytes.
LEMMA ServesBytes ==
  ASSUME Books, Bytes, Serves
  PROVE  Bytes'
<1>1. /\ CommandTypes /\ StreamTypes /\ FrameTypes /\ HelperTypes
      /\ CommandsFollow /\ AllFit /\ AllExact
  BY AllFitIs, AllExactIs DEF Books, Bytes
<1>2. UNCHANGED <<app, cmds, streams, next_id, channel>> /\ HelperTypes' /\ HeldIsExact'
  BY DEF Serves, ClientIdle, clientVars
<1>3. Grows
  BY <1>2, AppFields DEF Books, Grows, Allocated, AppTypes
<1>4. AcksFollow' /\ h2c' \in Seq(Frame)
  BY ServesAnswers
<1>5. StreamTypes' /\ FrameTypes'
  <2>1. c2h' \in Seq(Frame)
    BY <1>1, Left DEF Serves, TakesFrame, FrameTypes
  <2> QED
    BY <1>1, <1>2, <1>4, <2>1 DEF StreamTypes, FrameTypes
<1>6. CommandsFollow'
  BY <1>1, <1>2, <1>3, CommandsShrink
<1>7. AllJoin'
  <2>1. ASSUME NEW id \in DOMAIN streams
        PROVE  FitsNow(id, streams[id], app, cmds, channel, Held')
    <3>1. PICK s : s = streams[id]
      OBVIOUS
    <3>2. FitsNow(id, s, app, cmds, channel, Held)
      BY <1>1, <3>1 DEF AllFit
    <3>3. ASSUME id \in DOMAIN Held' PROVE s.tx.acked <= Len(Held'[id].got)
      <4>1. Len(Held'[id].got) \in Nat /\ s.tx.acked \in Nat
        BY <1>2, <3>2, <3>3, LenProperties, StreamFields DEF HelperTypes, HelperStream, FitsNow, Fits
      <4>2. CASE id \in DOMAIN Held
        <5>1. s.tx.acked <= Len(Held[id].got) /\ Len(Held[id].got) <= Len(Held'[id].got)
          BY <3>2, <3>3, <4>2 DEF FitsNow, Serves
        <5>2. Len(Held[id].got) \in Nat
          BY <1>1, <4>2, LenProperties DEF HelperTypes, HelperStream
        <5> QED
          BY <4>1, <5>1, <5>2
      <4>3. CASE id \notin DOMAIN Held
        <5>1. c2h # <<>> /\ c2h[1].type = "Open" /\ c2h[1].id = id
          BY <3>3, <4>3 DEF Serves, TakesFrame
        <5>2. 1 \in 1 .. Len(c2h)
          BY <1>1, <5>1, Left DEF FrameTypes
        <5>3. s.tx.acked = 0
          BY <1>1, <3>1, <5>1, <5>2 DEF AllExact, First
        <5> QED
          BY <4>1, <5>3
      <4> QED
        BY <4>2, <4>3
    <3> QED
      BY <3>1, <3>2, <3>3 DEF FitsNow
  <2>2. (StreamTypes => (AllJoin <=> AllFit))'
    BY AllFitIs, PTL
  <2>3. AllFit'
    BY <1>2, <2>1 DEF AllFit
  <2> QED
    BY <1>5, <2>2, <2>3
<1>8. AllExact'
  <2>1. CASE c2h' = c2h /\ DOMAIN Held' \subseteq DOMAIN Held
    BY <1>1, <1>2, <1>3, <2>1, FramesStay
  <2>2. ASSUME NEW type, TakesFrame(type),
               \A id \in DOMAIN Held' : id \in DOMAIN Held \/ (type = "Open" /\ c2h[1].id = id)
        PROVE  AllExact'
    BY <1>1, <1>2, <1>3, <2>2, FramesLeave DEF TakesFrame
  <2> QED
    BY <2>1, <2>2 DEF Serves
<1>9. FramesAreExact'
  <2>1. (FramesAreExact <=> AllExact)'
    BY AllExactIs, PTL
  <2> QED
    BY <1>8, <2>1
<1> QED
  BY <1>2, <1>4, <1>5, <1>6, <1>7, <1>9 DEF Bytes

\* The types of a helper that has other streams.
LEMMA HelperSet ==
  ASSUME HelperTypes, NEW ss, helper' = [helper EXCEPT !.streams = ss], UNCHANGED channel,
         DOMAIN ss \subseteq StreamId, \A id \in DOMAIN ss : ss[id] \in HelperStream
  PROVE  HelperTypes' /\ Held' = ss
<1>1. /\ DOMAIN helper' = {"session", "streams", "channels"} /\ helper'.session = helper.session
      /\ helper'.channels = helper.channels /\ helper'.streams = ss
  BY DEF HelperTypes
<1> QED
  BY <1>1 DEF HelperTypes, Held

\* A frame that is taken is exact.
LEMMA HeadExact ==
  ASSUME Books, Bytes, NEW type, HelperTakes(type)
  PROVE  /\ TakesFrame(type) /\ Head(c2h) = c2h[1] /\ Head(c2h) \in Frame
         /\ Exact(Head(c2h), app, next_id) /\ First(c2h, 1, Held, streams)
         /\ type # "Hello" => Head(c2h).id \in Allocated /\ Head(c2h).id \in StreamId
<1>1. FrameTypes /\ AllExact
  BY AllExactIs DEF Bytes
<1>2. c2h # <<>> /\ Head(c2h).type = type /\ c2h' = Tail(c2h)
  BY DEF HelperTakes
<1>3. Head(c2h) = c2h[1] /\ 1 \in 1 .. Len(c2h) /\ Head(c2h) \in Frame
  BY <1>1, <1>2, Left DEF FrameTypes
<1>4. Exact(Head(c2h), app, next_id) /\ First(c2h, 1, Held, streams)
  BY <1>1, <1>3 DEF AllExact
<1>5. type # "Hello" => Head(c2h).id \in Allocated
  BY <1>2, <1>4 DEF Exact, Allocated
<1>6. type # "Hello" => Head(c2h).id \in StreamId
  <2>1. \A id \in Allocated : id \in StreamId
    BY IdFacts DEF Books, RequestOnce, IdsAreOwn, StreamId
  <2> QED
    BY <1>5, <2>1
<1> QED
  BY <1>2, <1>3, <1>4, <1>5, <1>6 DEF TakesFrame

\* A refusal is an answer.
LEMMA RefusesIs ==
  ASSUME NEW id \in Allocated, id \in StreamId, NEW type \in {"OpenErr", "Reset", "ResumeErr"},
         h2c' = Append(h2c, Signal(type, id))
  PROVE  \E f : Answers(f)
<1>1. Signal(type, id) \in Frame /\ Signal(type, id).type = type /\ Signal(type, id).id = id
  BY DEF Signal, Frame
<1>2. Answers(Signal(type, id))
  BY <1>1 DEF Answers
<1> QED
  BY <1>2

\* An offset that the helper has reached is an answer.
LEMMA AcknowledgesIs ==
  ASSUME NEW id \in Allocated, id \in StreamId, NEW type \in {"Ack", "ResumeOk"}, id \in DOMAIN Held,
         HelperTypes, id \in DOMAIN Held' => Held'[id].got = Held[id].got,
         h2c' = Append(h2c, At(type, id, Len(Held[id].got)))
  PROVE  \E f : Answers(f)
<1>1. PICK n : n = Len(Held[id].got)
  OBVIOUS
<1>2. n \in Nat
  BY <1>1, LenProperties DEF HelperTypes, HelperStream
<1>3. /\ At(type, id, n) \in Frame /\ At(type, id, n).type = type /\ At(type, id, n).id = id
      /\ At(type, id, n).offset = n
  BY <1>2 DEF At, Frame
<1>4. Answers(At(type, id, n))
  BY <1>1, <1>2, <1>3 DEF Answers
<1> QED
  BY <1>4

\* What the helper holds stays exact when it takes nothing in.
LEMMA HeldStays ==
  ASSUME Books, Bytes, ClientIdle, HelperTypes',
         \A id \in DOMAIN Held' :
           id \in DOMAIN Held /\ Held'[id].req = Held[id].req /\ Held'[id].got = Held[id].got
           /\ (Held'[id].fin => Held[id].fin)
  PROVE  /\ HeldIsExact'
         /\ \A id \in DOMAIN Held' : id \in DOMAIN Held /\ Len(Held[id].got) <= Len(Held'[id].got)
<1>1. HelperTypes /\ HeldIsExact
  BY DEF Bytes
<1>2. Grows
  BY AppFields DEF Books, Grows, Allocated, AppTypes, ClientIdle, clientVars
<1>3. HeldIsExact'
  BY <1>1, <1>2, HeldKept
<1>4. \A id \in DOMAIN Held' : id \in DOMAIN Held /\ Len(Held[id].got) <= Len(Held'[id].got)
  <2>1. \A id \in DOMAIN Held : Len(Held[id].got) \in Nat
    BY <1>1, LenProperties DEF HelperTypes, HelperStream
  <2> QED
    BY <2>1
<1> QED
  BY <1>3, <1>4

\* Hello, at the helper.
LEMMA HelperHelloServes ==
  ASSUME Books, Bytes, HelperHello
  PROVE  Serves
<1>1. HelperTypes /\ HelperTakes("Hello") /\ ClientIdle /\ TakesFrame("Hello")
  BY HeadExact DEF HelperHello, Bytes
<1>2. PICK b : b = (Head(c2h).resume /\ helper.session /\ DOMAIN Held # {})
  OBVIOUS
<1>3. /\ h2c' = Append(h2c, [type |-> "HelloAck", resumed |-> b])
      /\ helper' = IF b THEN helper ELSE [helper EXCEPT !.session = TRUE, !.streams = NoStreams]
  BY <1>2 DEF HelperHello, Reply
<1>4. Answers([type |-> "HelloAck", resumed |-> b])
  <2>1. b \in BOOLEAN
    BY <1>2
  <2>2. [type |-> "HelloAck", resumed |-> b] \in Frame /\ [type |-> "HelloAck", resumed |-> b].type = "HelloAck"
    BY <2>1 DEF Frame
  <2> QED
    BY <1>3, <2>2 DEF Answers
<1>5. /\ HelperTypes'
      /\ \A id \in DOMAIN Held' : id \in DOMAIN Held /\ Held'[id] = Held[id]
  <2>1. CASE b
    BY <1>1, <1>3, <2>1 DEF HelperTypes, Held, ClientIdle, clientVars
  <2>2. CASE ~b
    <3>1. helper' = [helper EXCEPT !.session = TRUE, !.streams = NoStreams]
      BY <1>3, <2>2
    <3>2. /\ DOMAIN helper' = {"session", "streams", "channels"} /\ helper'.session = TRUE
          /\ helper'.channels = helper.channels /\ helper'.streams = NoStreams
      BY <1>1, <3>1 DEF HelperTypes
    <3>3. channel' = channel
      BY <1>1 DEF ClientIdle, clientVars
    <3> QED
      BY <1>1, <3>2, <3>3 DEF HelperTypes, Held, NoStreams
  <2> QED
    BY <2>1, <2>2
<1>6. /\ HeldIsExact'
      /\ \A id \in DOMAIN Held' : id \in DOMAIN Held /\ Len(Held[id].got) <= Len(Held'[id].got)
  BY <1>1, <1>5, HeldStays
<1> QED
  BY <1>1, <1>4, <1>5, <1>6 DEF Serves

\* Open, at the helper.
LEMMA HelperOpenServes ==
  ASSUME Books, Bytes, HelperOpen
  PROVE  Serves
<1>1. PICK f : f = Head(c2h)
  OBVIOUS
<1>2. HelperTypes /\ HelperTakes("Open") /\ ClientIdle /\ HeldIsExact
  BY DEF HelperOpen, Bytes
<1>3. /\ TakesFrame("Open") /\ f = c2h[1] /\ f \in Frame /\ Exact(f, app, next_id)
      /\ f.id \in Allocated /\ f.id \in StreamId /\ f.type = "Open"
  BY <1>1, <1>2, HeadExact DEF HelperTakes
<1>4. CASE h2c' = Append(h2c, Signal("OpenErr", f.id)) /\ UNCHANGED helper
  <2>1. \E g : Answers(g)
    BY <1>3, <1>4, RefusesIs
  <2>2. HelperTypes' /\ Held' = Held
    BY <1>2, <1>4 DEF HelperTypes, Held, ClientIdle, clientVars
  <2>3. /\ HeldIsExact'
        /\ \A id \in DOMAIN Held' : id \in DOMAIN Held /\ Len(Held[id].got) <= Len(Held'[id].got)
    BY <1>2, <2>2, HeldStays
  <2> QED
    BY <1>2, <1>3, <2>1, <2>2, <2>3 DEF Serves
<1>5. CASE /\ f.id \notin DOMAIN Held /\ UNCHANGED h2c
           /\ HelperSets(With(Held, f.id, [req |-> f.req, got |-> <<>>, fin |-> FALSE, acked |-> 0]))
  <2>1. PICK h, ss : h = [req |-> f.req, got |-> <<>>, fin |-> FALSE, acked |-> 0] /\ ss = With(Held, f.id, h)
    OBVIOUS
  <2>2. /\ h \in HelperStream /\ h.req = f.req /\ h.got = <<>> /\ h.fin = FALSE /\ f.req \in Request
    BY <1>3, <2>1, FrameFields DEF HelperStream
  <2>3. /\ DOMAIN ss = DOMAIN Held \cup {f.id} /\ ss[f.id] = h /\ \A id \in DOMAIN Held : ss[id] = Held[id]
    BY <1>5, <2>1 DEF With
  <2>4. helper' = [helper EXCEPT !.streams = ss] /\ channel' = channel /\ app' = app
    BY <1>2, <1>5, <2>1 DEF HelperSets, ClientIdle, clientVars
  <2>5. DOMAIN ss \subseteq StreamId /\ \A id \in DOMAIN ss : ss[id] \in HelperStream
    BY <1>2, <1>3, <2>2, <2>3 DEF HelperTypes
  <2>6. HelperTypes' /\ Held' = ss
    BY <1>2, <2>4, <2>5, HelperSet
  <2>7. \A id \in DOMAIN Held' : id \in DOMAIN Held => Len(Held[id].got) <= Len(Held'[id].got)
    <3>1. \A id \in DOMAIN Held : Len(Held[id].got) \in Nat
      BY <1>2, LenProperties DEF HelperTypes, HelperStream
    <3> QED
      BY <2>3, <2>6, <3>1
  <2>8. f.id # 0 /\ app[f.req].id = f.id /\ app[f.req].wrote \in Nat
    <3>1. PICK r \in Request : app[r].id = f.id
      BY <1>3 DEF Books, RequestOnce, IdsAreOwn
    <3>2. f.req = r
      BY <1>3, <3>1 DEF Exact
    <3>3. f.id # 0
      BY <1>3, IdFacts DEF Books, RequestOnce, IdsAreOwn
    <3> QED
      BY <3>1, <3>2, <3>3, AppFields DEF Books, AppTypes
  <2>9. HeldIsExact'
    <3>1. Carries(<<>>, f.req, 0) /\ Len(<<>>) <= app[f.req].wrote
      BY <2>8 DEF Carries
    <3> QED
      BY <1>2, <2>2, <2>3, <2>4, <2>6, <2>8, <3>1 DEF HeldIsExact, Owns
  <2> QED
    BY <1>2, <1>3, <1>5, <2>3, <2>6, <2>7, <2>9 DEF Serves
<1> QED
  BY <1>1, <1>4, <1>5 DEF HelperOpen, Reply

\* The helper forgets a stream, or keeps its bytes.
LEMMA SetServes ==
  ASSUME Books, Bytes, ClientIdle, NEW ss, HelperSets(ss), NEW id,
         \A j \in DOMAIN ss : j \in DOMAIN Held /\ (j # id => ss[j] = Held[j]),
         id \in DOMAIN ss =>
           ss[id] \in HelperStream /\ ss[id].req = Held[id].req /\ ss[id].got = Held[id].got
           /\ (ss[id].fin => Held[id].fin)
  PROVE  /\ HelperTypes' /\ HeldIsExact' /\ Held' = ss /\ DOMAIN Held' \subseteq DOMAIN Held
         /\ \A j \in DOMAIN Held' : j \in DOMAIN Held /\ Len(Held[j].got) <= Len(Held'[j].got)
<1>1. HelperTypes /\ helper' = [helper EXCEPT !.streams = ss] /\ channel' = channel
  BY DEF Bytes, HelperSets, ClientIdle, clientVars
<1>2. DOMAIN ss \subseteq StreamId /\ \A j \in DOMAIN ss : ss[j] \in HelperStream
  BY <1>1 DEF HelperTypes
<1>3. HelperTypes' /\ Held' = ss
  BY <1>1, <1>2, HelperSet
<1>4. \A j \in DOMAIN Held' :
           j \in DOMAIN Held /\ Held'[j].req = Held[j].req /\ Held'[j].got = Held[j].got
           /\ (Held'[j].fin => Held[j].fin)
  BY <1>3
<1>5. HeldIsExact' /\ \A j \in DOMAIN Held' : j \in DOMAIN Held /\ Len(Held[j].got) <= Len(Held'[j].got)
  BY <1>3, <1>4, HeldStays
<1> QED
  BY <1>3, <1>4, <1>5

\* A step that leaves the helper as it is.
LEMMA HeldUnchanged ==
  ASSUME Books, Bytes, ClientIdle, UNCHANGED helper
  PROVE  /\ HelperTypes' /\ HeldIsExact' /\ Held' = Held
         /\ \A j \in DOMAIN Held' : j \in DOMAIN Held /\ Len(Held[j].got) <= Len(Held'[j].got)
<1>1. HelperTypes' /\ Held' = Held
  BY DEF Bytes, HelperTypes, Held, ClientIdle, clientVars
<1> QED
  BY <1>1, HeldStays

\* Fin, at the helper.
LEMMA HelperFinServes ==
  ASSUME Books, Bytes, HelperFin
  PROVE  Serves
<1>1. PICK f : f = Head(c2h)
  OBVIOUS
<1>2. HelperTypes /\ HelperTakes("Fin") /\ ClientIdle /\ HeldIsExact
  BY DEF HelperFin, Bytes
<1>3. /\ TakesFrame("Fin") /\ f \in Frame /\ Exact(f, app, next_id)
      /\ f.id \in Allocated /\ f.id \in StreamId /\ f.type = "Fin"
  BY <1>1, <1>2, HeadExact DEF HelperTakes
<1>4. CASE f.id \notin DOMAIN Held
  <2>1. h2c' = Append(h2c, Signal("Reset", f.id)) /\ UNCHANGED helper
    BY <1>1, <1>4 DEF HelperFin, Reply
  <2>2. \E g : Answers(g)
    BY <1>3, <2>1, RefusesIs
  <2> QED
    BY <1>2, <1>3, <2>1, <2>2, HeldUnchanged DEF Serves
<1>5. CASE f.id \in DOMAIN Held
  <2>1. PICK ss : ss = [Held EXCEPT ![f.id].fin = TRUE]
    OBVIOUS
  <2>2. HelperSets(ss) /\ h2c' = h2c /\ helper' = [helper EXCEPT !.streams = ss] /\ channel' = channel /\ app' = app
    BY <1>1, <1>2, <1>5, <2>1 DEF HelperFin, HelperSets, ClientIdle, clientVars
  <2>3. /\ DOMAIN ss = DOMAIN Held /\ \A j \in DOMAIN ss : ss[j] \in HelperStream
        /\ \A j \in DOMAIN ss : ss[j].req = Held[j].req /\ ss[j].got = Held[j].got
        /\ \A j \in DOMAIN ss : j # f.id => ss[j].fin = Held[j].fin
    <3>1. DOMAIN ss = DOMAIN Held
      BY <2>1
    <3>2. \A j \in DOMAIN Held : j # f.id => ss[j] = Held[j]
      BY <2>1
    <3>3. ss[f.id] = [Held[f.id] EXCEPT !.fin = TRUE] /\ Held[f.id] \in HelperStream
      BY <1>2, <1>5, <2>1 DEF HelperTypes
    <3>4. ss[f.id] \in HelperStream /\ ss[f.id].req = Held[f.id].req /\ ss[f.id].got = Held[f.id].got
      BY <3>3 DEF HelperStream
    <3> QED
      BY <1>2, <3>1, <3>2, <3>4 DEF HelperTypes
  <2>4. DOMAIN ss \subseteq StreamId
    BY <1>2, <2>3 DEF HelperTypes
  <2>5. HelperTypes' /\ Held' = ss
    BY <1>2, <2>2, <2>3, <2>4, HelperSet
  <2>6. app[Held[f.id].req].shut
    BY <1>2, <1>3, <1>5 DEF HeldIsExact, Owns, Exact, HelperTypes, HelperStream
  <2>7. HeldIsExact'
    BY <1>2, <2>2, <2>3, <2>5, <2>6 DEF HeldIsExact, Owns
  <2>8. \A j \in DOMAIN Held' : j \in DOMAIN Held /\ Len(Held[j].got) <= Len(Held'[j].got)
    <3>1. \A j \in DOMAIN Held : Len(Held[j].got) \in Nat
      BY <1>2, LenProperties DEF HelperTypes, HelperStream
    <3> QED
      BY <2>3, <2>5, <3>1
  <2> QED
    BY <1>2, <1>3, <2>2, <2>5, <2>7, <2>8 DEF Serves
<1> QED
  BY <1>4, <1>5

\* Reset, at the helper.
LEMMA HelperResetServes ==
  ASSUME Books, Bytes, HelperReset
  PROVE  Serves
<1>1. PICK id, ss : id = Head(c2h).id /\ ss = Without(Held, {id})
  OBVIOUS
<1>2. TakesFrame("Reset") /\ ClientIdle /\ HelperSets(ss) /\ h2c' = h2c
  BY <1>1, HeadExact DEF HelperReset
<1>3. DOMAIN ss = DOMAIN Held \ {id} /\ \A j \in DOMAIN ss : ss[j] = Held[j]
  BY <1>1 DEF Without
<1>4. /\ HelperTypes' /\ HeldIsExact'
      /\ \A j \in DOMAIN Held' : j \in DOMAIN Held /\ Len(Held[j].got) <= Len(Held'[j].got)
  BY <1>2, <1>3, SetServes
<1> QED
  BY <1>2, <1>4 DEF Serves

\* Resume, at the helper.
LEMMA HelperResumeServes ==
  ASSUME Books, Bytes, HelperResume
  PROVE  Serves
<1>1. PICK id : id = Head(c2h).id
  OBVIOUS
<1>2. /\ TakesFrame("Resume") /\ ClientIdle /\ UNCHANGED helper /\ id \in Allocated /\ id \in StreamId
      /\ h2c' = Append(h2c, IF id \in DOMAIN Held THEN At("ResumeOk", id, Len(Held[id].got))
                            ELSE Signal("ResumeErr", id))
  BY <1>1, HeadExact DEF HelperResume, Reply
<1>3. /\ HelperTypes' /\ HeldIsExact' /\ Held' = Held
      /\ \A j \in DOMAIN Held' : j \in DOMAIN Held /\ Len(Held[j].got) <= Len(Held'[j].got)
  BY <1>2, HeldUnchanged
<1>4. \E f : Answers(f)
  <2>1. CASE id \in DOMAIN Held
    BY <1>2, <1>3, <2>1, AcknowledgesIs DEF Bytes
  <2>2. CASE id \notin DOMAIN Held
    BY <1>2, <2>2, RefusesIs
  <2> QED
    BY <2>1, <2>2
<1> QED
  BY <1>2, <1>3, <1>4 DEF Serves

\* An Ack of the helper.
LEMMA HelperAcksServes ==
  ASSUME Books, Bytes, NEW id \in StreamId, HelperAcks(id)
  PROVE  Serves
<1>1. PICK ss : ss = [Held EXCEPT ![id].acked = Len(Held[id].got)]
  OBVIOUS
<1>2. /\ HelperTypes /\ ClientIdle /\ HelperSets(ss) /\ c2h' = c2h /\ id \in DOMAIN Held
      /\ h2c' = Append(h2c, At("Ack", id, Len(Held[id].got)))
  BY <1>1 DEF HelperAcks, Bytes, Reply
<1>3. id \in Allocated
  BY <1>2, HeldIsAllocated DEF Bytes
<1>4. DOMAIN ss = DOMAIN Held /\ \A j \in DOMAIN ss : j # id => ss[j] = Held[j]
  BY <1>1
<1>5. ss[id] \in HelperStream /\ ss[id].req = Held[id].req /\ ss[id].got = Held[id].got /\ ss[id].fin = Held[id].fin
  <2>1. PICK n : n = Len(Held[id].got)
    OBVIOUS
  <2>2. n \in Nat /\ Held[id] \in HelperStream
    BY <1>2, <2>1, LenProperties DEF HelperTypes, HelperStream
  <2>3. ss[id] = [Held[id] EXCEPT !.acked = n]
    BY <1>1, <1>2, <2>1
  <2> QED
    BY <2>2, <2>3 DEF HelperStream
<1>6. /\ HelperTypes' /\ HeldIsExact' /\ Held' = ss /\ DOMAIN Held' \subseteq DOMAIN Held
      /\ \A j \in DOMAIN Held' : j \in DOMAIN Held /\ Len(Held[j].got) <= Len(Held'[j].got)
  BY <1>2, <1>4, <1>5, SetServes
<1>7. \E f : Answers(f)
  BY <1>2, <1>3, <1>5, <1>6, AcknowledgesIs
<1> QED
  BY <1>2, <1>6, <1>7 DEF Serves

\* An egress that fails.
LEMMA HelperFailsServes ==
  ASSUME Books, Bytes, NEW id \in StreamId, HelperFails(id)
  PROVE  Serves
<1>1. PICK ss : ss = Without(Held, {id})
  OBVIOUS
<1>2. /\ HelperTypes /\ ClientIdle /\ HelperSets(ss) /\ c2h' = c2h /\ id \in DOMAIN Held
      /\ h2c' = Append(h2c, Signal("Reset", id))
  BY <1>1 DEF HelperFails, Bytes, Reply
<1>3. id \in Allocated
  BY <1>2, HeldIsAllocated DEF Bytes
<1>4. DOMAIN ss = DOMAIN Held \ {id} /\ \A j \in DOMAIN ss : ss[j] = Held[j]
  BY <1>1 DEF Without
<1>5. /\ HelperTypes' /\ HeldIsExact' /\ Held' = ss /\ DOMAIN Held' \subseteq DOMAIN Held
      /\ \A j \in DOMAIN Held' : j \in DOMAIN Held /\ Len(Held[j].got) <= Len(Held'[j].got)
  BY <1>2, <1>4, SetServes
<1>6. \E f : Answers(f)
  BY <1>2, <1>3, RefusesIs
<1> QED
  BY <1>2, <1>5, <1>6 DEF Serves

\* Bytes of a request and those that follow them are bytes of it.
LEMMA ExtendedTo ==
  ASSUME NEW r, NEW z \in Nat, NEW n \in Nat, NEW d \in Seq(Byte), NEW e \in Seq(Byte), n = z + Len(d),
         Carries(d, r, z), Carries(e, r, n)
  PROVE  d \o e \in Seq(Byte) /\ Len(d \o e) = Len(d) + Len(e) /\ Carries(d \o e, r, z)
<1>1. Carries(e, r, z + Len(d))
  OBVIOUS
<1> QED
  BY <1>1, Extended

-----------------------------------------------------------------------------
(* What the helper does with a frame, for the handshake and for Fin.       *)

Refusals == {"OpenErr", "Reset", "ResumeErr"}

\* The helper takes a frame of this type, or none.
Lands(type) ==
  /\ (type = "none" /\ c2h' = c2h /\ drv # "wait") \/ TakesFrame(type)
  /\ helper'.channels = helper.channels
  /\ \/ h2c' = h2c
     \/ \E f \in Frame : h2c' = Append(h2c, f) /\ (f.type = "HelloAck" => type = "Hello")
  /\ \A id : id \in DOMAIN Held \/ (type \in {"Open", "Resume"} /\ c2h[1].id = id) =>
       \/ id \in DOMAIN Held' \/ Mentions(h2c', Refusals, id)
       \/ type = "Reset" /\ c2h[1].id = id
       \/ type = "Hello"
  /\ \A id \in DOMAIN Held' :
       /\ id \in DOMAIN Held => Held'[id].req = Held[id].req
       /\ Held'[id].fin => id \in DOMAIN Held /\ (Held[id].fin \/ (type = "Fin" /\ c2h[1].id = id))
  /\ type = "Data" /\ c2h[1].id \in DOMAIN Held' =>
       c2h[1].offset + Len(c2h[1].data) <= Len(Held'[c2h[1].id].got)

\* A refusal is mentioned.
LEMMA RefusalSaid ==
  ASSUME FrameTypes, NEW id \in StreamId, NEW type \in Refusals, h2c' = Append(h2c, Signal(type, id))
  PROVE  /\ \E f \in Frame : h2c' = Append(h2c, f) /\ f.type # "HelloAck"
         /\ Mentions(h2c', Refusals, id)
<1>1. PICK f : f = Signal(type, id)
  OBVIOUS
<1>2. f \in Frame /\ f.type = type /\ f.id = id /\ f.type # "HelloAck"
  BY <1>1 DEF Signal, Frame, Refusals
<1>3. h2c' = Append(h2c, f)
  BY <1>1
<1>4. /\ Len(h2c) \in Nat /\ Len(h2c') = Len(h2c) + 1 /\ h2c'[Len(h2c) + 1] = f
  BY <1>2, <1>3, Joined DEF FrameTypes
<1>5. Len(h2c) + 1 \in 1 .. Len(h2c')
  BY <1>4
<1> QED
  BY <1>2, <1>3, <1>4, <1>5 DEF Mentions

\* So is an answer that refuses nothing, which is no HelloAck.
LEMMA AnswerSaid ==
  ASSUME HelperTypes, NEW id \in StreamId, NEW type \in {"Ack", "ResumeOk"}, id \in DOMAIN Held,
         h2c' = Append(h2c, At(type, id, Len(Held[id].got)))
  PROVE  \E f \in Frame : h2c' = Append(h2c, f) /\ f.type # "HelloAck"
<1>1. PICK n \in Nat : n = Len(Held[id].got)
  BY LenProperties DEF HelperTypes, HelperStream
<1>2. At(type, id, n) \in Frame /\ At(type, id, n).type # "HelloAck"
  BY DEF At, Frame
<1> QED
  BY <1>1, <1>2

\* Streams change at the helper, the number of its channels does not.
LEMMA SetChannels ==
  ASSUME HelperTypes, NEW ss, HelperSets(ss)
  PROVE  helper'.channels = helper.channels /\ Held' = ss
BY DEF HelperTypes, HelperSets, Held

\* Data, at the helper: what overlaps is dropped, a hole resets the stream.
LEMMA HelperDataServes ==
  ASSUME Books, Bytes, HelperData
  PROVE  Serves /\ Lands("Data")
<1>1. PICK f : f = Head(c2h)
  OBVIOUS
<1>2. HelperTypes /\ FrameTypes /\ HelperTakes("Data") /\ ClientIdle /\ HeldIsExact
  BY DEF HelperData, Bytes
<1>3. /\ TakesFrame("Data") /\ f = c2h[1] /\ f \in Frame /\ Exact(f, app, next_id)
      /\ f.id \in Allocated /\ f.id \in StreamId /\ f.type = "Data"
  BY <1>1, <1>2, HeadExact DEF HelperTakes
<1>4. f.offset \in Nat /\ f.data \in Seq(Byte) /\ Len(f.data) \in Nat
  BY <1>3, FrameFields, LenProperties
<1>5. PICK h, n : h = Held[f.id] /\ n = Len(Held[f.id].got)
  OBVIOUS
<1> DEFINE rx == [delivered |-> n, fin_at |-> NoFin]
<1>6. CASE f.id \notin DOMAIN Held /\ h2c' = Append(h2c, Signal("Reset", f.id)) /\ UNCHANGED helper
  <2>1. \E g : Answers(g)
    BY <1>3, <1>6, RefusesIs
  <2>2. Serves
    BY <1>2, <1>3, <1>6, <2>1, HeldUnchanged DEF Serves
  <2>3. /\ \E g \in Frame : h2c' = Append(h2c, g) /\ g.type # "HelloAck"
        /\ Held' = Held /\ helper'.channels = helper.channels
    BY <1>2, <1>3, <1>6, RefusalSaid DEF Held, Refusals
  <2>4. Lands("Data")
    BY <1>3, <1>6, <2>3 DEF Lands
  <2> QED
    BY <2>2, <2>4
<1>7. CASE h2c' = Append(h2c, Signal("Reset", f.id)) /\ HelperSets(Without(Held, {f.id}))
  <2>1. PICK ss : ss = Without(Held, {f.id})
    OBVIOUS
  <2>2. DOMAIN ss = DOMAIN Held \ {f.id} /\ \A j \in DOMAIN ss : ss[j] = Held[j]
    BY <2>1 DEF Without
  <2>3. /\ HelperTypes' /\ HeldIsExact' /\ DOMAIN Held' \subseteq DOMAIN Held
        /\ \A j \in DOMAIN Held' : j \in DOMAIN Held /\ Len(Held[j].got) <= Len(Held'[j].got)
    BY <1>2, <1>7, <2>1, <2>2, SetServes
  <2>4. \E g : Answers(g)
    BY <1>3, <1>7, RefusesIs
  <2>5. Serves
    BY <1>2, <1>3, <2>3, <2>4 DEF Serves
  <2>6. /\ \E g \in Frame : h2c' = Append(h2c, g) /\ g.type # "HelloAck"
        /\ Mentions(h2c', Refusals, f.id)
    BY <1>2, <1>3, <1>7, RefusalSaid DEF Refusals
  <2>7. Held' = ss /\ helper'.channels = helper.channels
    BY <1>2, <1>7, <2>1, SetChannels
  <2>8. Lands("Data")
    BY <1>3, <2>2, <2>6, <2>7 DEF Lands
  <2> QED
    BY <2>5, <2>8
<1>8. CASE f.id \in DOMAIN Held /\ IsDuplicate(rx, f.offset, f.data) /\ h2c' = Append(h2c, At("Ack", f.id, n)) /\ UNCHANGED helper
  <2>1. /\ HelperTypes' /\ HeldIsExact' /\ Held' = Held
        /\ \A j \in DOMAIN Held' : j \in DOMAIN Held /\ Len(Held[j].got) <= Len(Held'[j].got)
    BY <1>2, <1>8, HeldUnchanged
  <2>2. \E g : Answers(g)
    BY <1>2, <1>3, <1>5, <1>8, <2>1, AcknowledgesIs
  <2>3. Serves
    BY <1>2, <1>3, <2>1, <2>2 DEF Serves
  <2>4. helper'.channels = helper.channels /\ \E g \in Frame : h2c' = Append(h2c, g) /\ g.type # "HelloAck"
    BY <1>2, <1>3, <1>5, <1>8, AnswerSaid
  <2>5. Lands("Data")
    BY <1>3, <1>5, <1>8, <2>1, <2>4 DEF Lands, IsDuplicate
  <2> QED
    BY <2>3, <2>5
<1>9. CASE /\ f.id \in DOMAIN Held /\ ~IsGap(rx, f.offset, f.data) /\ ~IsDuplicate(rx, f.offset, f.data)
           /\ HelperSets([Held EXCEPT ![f.id].got = @ \o FreshBytes(rx, f.offset, f.data)]) /\ h2c' = h2c
  <2>1. h \in HelperStream /\ n \in Nat /\ n = Len(h.got) /\ h.got \in Seq(Byte) /\ h.req \in Request
    BY <1>2, <1>5, <1>9, LenProperties DEF HelperTypes, HelperStream
  <2>2. /\ f.id # 0 /\ app[h.req].id = f.id /\ Carries(h.got, h.req, 0)
        /\ h.fin => app[h.req].shut
    BY <1>2, <1>5, <1>9 DEF HeldIsExact, Owns
  <2>3. Carries(f.data, h.req, f.offset) /\ f.offset + Len(f.data) <= app[h.req].wrote
    BY <1>3, <2>1, <2>2 DEF Exact
  <2>4. f.offset <= n /\ n < f.offset + Len(f.data)
    BY <1>4, <1>9, <2>1 DEF IsGap, IsDuplicate
  <2>5. PICK fresh : fresh = SubSeq(f.data, n - f.offset + 1, Len(f.data))
    OBVIOUS
  <2>6. PICK all : all = h.got \o fresh
    OBVIOUS
  <2>7. PICK got, d, o, r, e : got = h.got /\ d = f.data /\ o = f.offset /\ r = h.req /\ e = Len(f.data)
    OBVIOUS
  <2>25. d \in Seq(Byte) /\ o \in Nat /\ e \in Nat /\ e = Len(d) /\ Carries(d, r, o)
    BY <1>4, <2>3, <2>7
  <2>26. o <= n /\ n < o + e
    BY <2>4, <2>7
  <2>27. PICK m \in Nat \ {0} : m = n - o + 1
    <3>1. n - o + 1 \in Nat \ {0}
      BY <2>1, <2>25, <2>26
    <3> QED
      BY <3>1
  <2>28. fresh = SubSeq(d, m, e) /\ o + m = n + 1
    BY <2>1, <2>5, <2>7, <2>25, <2>27
  <2>9. fresh \in Seq(Byte) /\ n + Len(fresh) = o + e /\ Len(fresh) \in Nat /\ Carries(fresh, r, n)
    <3>1. m <= e + 1 /\ e <= Len(d) /\ o \in Nat /\ d \in Seq(Byte) /\ e \in Nat /\ Carries(d, r, o)
      BY <2>1, <2>25, <2>26, <2>27
    <3>2. /\ SubSeq(d, m, e) \in Seq(Byte) /\ Len(SubSeq(d, m, e)) = e - m + 1
          /\ Carries(SubSeq(d, m, e), r, o + m - 1)
      BY <3>1, Sliced
    <3>3. o + m - 1 = n /\ e - m + 1 \in Nat /\ n + (e - m + 1) = o + e
      BY <2>1, <2>25, <2>26, <2>27
    <3> QED
      BY <2>28, <3>2, <3>3
  <2>10. PICK z \in Nat : z = 0
    OBVIOUS
  <2>21. got \in Seq(Byte) /\ n = z + Len(got) /\ Carries(got, r, z)
    BY <2>1, <2>2, <2>7, <2>10
  <2>22. got \o fresh \in Seq(Byte) /\ Len(got \o fresh) = Len(got) + Len(fresh) /\ Carries(got \o fresh, r, z)
    BY <2>1, <2>9, <2>21, ExtendedTo
  <2>11. all \in Seq(Byte) /\ Len(all) = f.offset + Len(f.data) /\ Carries(all, h.req, 0)
    BY <2>1, <2>6, <2>7, <2>9, <2>10, <2>22
  <2>12. Len(all) <= app[h.req].wrote /\ n <= Len(all)
    BY <1>4, <2>1, <2>3, <2>4, <2>11
  <2>13. PICK ss : ss = [Held EXCEPT ![f.id].got = all]
    OBVIOUS
  <2>14. FreshBytes(rx, f.offset, f.data) = fresh
    BY <2>5 DEF FreshBytes
  <2>15. HelperSets(ss)
    BY <1>5, <1>9, <2>6, <2>13, <2>14
  <2>16. /\ DOMAIN ss = DOMAIN Held /\ \A j \in DOMAIN Held : j # f.id => ss[j] = Held[j]
         /\ ss[f.id] = [h EXCEPT !.got = all]
    BY <1>5, <1>9, <2>13
  <2>17. /\ ss[f.id] \in HelperStream /\ ss[f.id].req = h.req /\ ss[f.id].got = all /\ ss[f.id].fin = h.fin
    BY <2>1, <2>11, <2>16 DEF HelperStream
  <2>18. DOMAIN ss \subseteq StreamId /\ \A j \in DOMAIN ss : ss[j] \in HelperStream
    BY <1>2, <2>16, <2>17 DEF HelperTypes
  <2>19. helper' = [helper EXCEPT !.streams = ss] /\ channel' = channel /\ app' = app
    BY <1>2, <2>15 DEF HelperSets, ClientIdle, clientVars
  <2>20. HelperTypes' /\ Held' = ss
    BY <1>2, <2>18, <2>19, HelperSet
  <2>23. HeldIsExact'
    <3>1. ASSUME NEW j \in DOMAIN ss
          PROVE  /\ Owns(ss[j].req, j) /\ Carries(ss[j].got, ss[j].req, 0) /\ Len(ss[j].got) <= app[ss[j].req].wrote
                 /\ ss[j].fin => app[ss[j].req].shut
      <4>1. CASE j = f.id
        BY <2>2, <2>11, <2>12, <2>17, <4>1 DEF Owns
      <4>2. CASE j # f.id
        <5>1. j \in DOMAIN Held /\ ss[j] = Held[j]
          BY <2>16, <4>2
        <5> QED
          BY <1>2, <5>1 DEF HeldIsExact
      <4> QED
        BY <4>1, <4>2
    <3> QED
      BY <2>19, <2>20, <3>1 DEF HeldIsExact, Owns
  <2>24. \A j \in DOMAIN Held' : j \in DOMAIN Held /\ Len(Held[j].got) <= Len(Held'[j].got)
    <3>1. \A j \in DOMAIN Held : Len(Held[j].got) \in Nat
      BY <1>2, LenProperties DEF HelperTypes, HelperStream
    <3>2. Len(Held[f.id].got) <= Len(Held'[f.id].got)
      BY <1>5, <2>12, <2>17, <2>20
    <3> QED
      BY <2>16, <2>20, <3>1, <3>2
  <2>29. Serves
    BY <1>2, <1>3, <1>9, <2>20, <2>23, <2>24 DEF Serves
  <2>30. helper'.channels = helper.channels
    BY <1>2, <2>15, SetChannels
  <2>31. f.offset + Len(f.data) <= Len(Held'[f.id].got)
    BY <1>4, <2>11, <2>17, <2>20
  <2>32. \A j \in DOMAIN Held' : j \in DOMAIN Held /\ Held'[j].req = Held[j].req /\ (Held'[j].fin => Held[j].fin)
    BY <1>5, <2>16, <2>17, <2>20
  <2>33. Lands("Data")
    BY <1>3, <1>9, <2>16, <2>20, <2>30, <2>31, <2>32 DEF Lands
  <2> QED
    BY <2>29, <2>33
<1> QED
  BY <1>1, <1>5, <1>6, <1>7, <1>8, <1>9 DEF HelperData, Reply

\* Every step of the helper is one of these.
LEMMA HelperServes ==
  ASSUME Books, Bytes, Helper
  PROVE  Serves
<1>1. CASE HelperFrames
  BY <1>1, HelperHelloServes, HelperOpenServes, HelperDataServes, HelperFinServes, HelperResetServes,
     HelperResumeServes DEF HelperFrames
<1>2. CASE \E id \in StreamId : HelperAcks(id) \/ HelperFails(id)
  BY <1>2, HelperAcksServes, HelperFailsServes
<1> QED
  BY <1>1, <1>2 DEF Helper

-----------------------------------------------------------------------------
(* Every byte is exact, and none is lost between the places it can be in.  *)

\* The bytes at the start.
LEMMA BytesInit == Init => Bytes
<1> SUFFICES ASSUME Init PROVE Bytes
  OBVIOUS
<1>1. /\ cmds = <<>> /\ DOMAIN streams = {} /\ channel = 0 /\ c2h = <<>> /\ h2c = <<>>
      /\ helper = FreshHelper
  BY DEF Init, NoStreams
<1>2. DOMAIN Held = {} /\ HelperTypes
  BY <1>1 DEF FreshHelper, NoStreams, Held, HelperTypes
<1>3. StreamTypes /\ FrameTypes /\ AllJoin
  BY <1>1 DEF StreamTypes, FrameTypes, AllJoin
<1>4. HeldIsExact /\ FramesAreExact /\ CommandsFollow /\ AcksFollow
  BY <1>1, <1>2 DEF HeldIsExact, FramesAreExact, CommandsFollow, AcksFollow
<1> QED
  BY <1>2, <1>3, <1>4 DEF Bytes

\* A stutter keeps the bytes.
LEMMA BytesStay ==
  ASSUME Bytes, UNCHANGED vars PROVE Bytes'
<1> USE DEF vars, clientVars
<1>1. StreamTypes' /\ FrameTypes' /\ HelperTypes' /\ Held' = Held
  BY DEF Bytes, StreamTypes, FrameTypes, HelperTypes, Held
<1>2. HeldIsExact'
  BY <1>1 DEF Bytes, HeldIsExact, Owns
<1>3. FramesAreExact'
  BY <1>1 DEF Bytes, FramesAreExact, Allocated
<1>4. CommandsFollow'
  BY DEF Bytes, CommandsFollow, Allocated
<1>5. AcksFollow'
  BY <1>1 DEF Bytes, AcksFollow, Allocated, Mentions
<1>6. AllJoin'
  BY <1>1 DEF Bytes, AllJoin, Joins, Owns
<1> QED
  BY <1>1, <1>2, <1>3, <1>4, <1>5, <1>6 DEF Bytes

\* Every step keeps the bytes.
LEMMA BytesStep ==
  ASSUME Books, Books', Bytes, [Next]_vars PROVE Bytes'
<1>1. ASSUME NEW r \in Request, Dial(r) \/ Pump(r) PROVE Bytes'
  BY <1>1, DialWrites, PumpWrites, WritesBytes
<1>2. CASE (\E same \in Survives : Attach(same)) \/ Break \/ FrameTooEarly \/ ForeignVersion
  BY <1>2, ChannelsClear, ClearsBytes
<1>3. CASE Offline
  <2>1. CASE QueueOpen
    BY <2>1, QueueOpenBytes
  <2>2. CASE BufferData \/ BufferEof \/ BufferClose
    BY <2>2, OfflineSteps, StreamStepBytes
  <2> QED
    BY <1>3, <2>1, <2>2 DEF Offline
<1>4. CASE Commands
  <2>1. CASE HandleOpen
    BY <2>1, HandleOpenOpens, OpensBytes DEF Bytes
  <2>2. CASE HandleLocalData \/ HandleLocalEof \/ HandleLocalClose
    BY <2>2, CommandSteps, StreamStepBytes
  <2> QED
    BY <1>4, <2>1, <2>2 DEF Commands
<1>5. CASE Frames
  <2>1. CASE HandleHelloAck
    BY <2>1, HelloAckOpens, OpensBytes DEF Bytes
  <2>2. CASE ApplyAck \/ ApplyResumeOk \/ \E type \in {"OpenErr", "Reset", "ResumeErr"} : ApplyEnd(type)
    BY <2>2, FrameSteps, StreamStepBytes
  <2> QED
    BY <1>2, <1>5, <2>1, <2>2 DEF Frames
<1>6. CASE Helper
  BY <1>6, HelperServes, ServesBytes
<1>7. CASE UNCHANGED vars
  BY <1>7, BytesStay
<1> QED
  BY <1>1, <1>2, <1>3, <1>4, <1>5, <1>6, <1>7 DEF Next, Driver

\* What the helper accepted on a stream is, byte for byte and from the start, what
\* the application of that stream wrote (drain_stream_output and rewind_to on one
\* side, accept on the other), whatever was lost, repeated or sent too early.
THEOREM BytesAreUpExactly == Spec => []UpIsExact
<1>1. Init => Books /\ Bytes
  BY BooksInit, BytesInit
<1>2. Books /\ Bytes /\ [Next]_vars => Books' /\ Bytes'
  BY BooksStep, BytesStep
<1>3. Bytes => UpIsExact
  BY DEF Bytes, UpIsExact
<1> QED
  BY <1>1, <1>2, <1>3, PTL DEF Spec

\* Until its stream ends, a byte the application wrote is at the helper, in the
\* retransmission buffer, or in the queue behind it, in order: on a channel,
\* between two channels and during a handshake (buffer_command_offline and the
\* handlers of run_session).
THEOREM BytesAreBuffered == Spec => []BufferedInOrder
<1>1. Init => Books /\ Bytes
  BY BooksInit, BytesInit
<1>2. Books /\ Bytes /\ [Next]_vars => Books' /\ Bytes'
  BY BooksStep, BytesStep
<1>3. Bytes => BufferedInOrder
  BY DEF Bytes, BufferedInOrder, AllJoin
<1> QED
  BY <1>1, <1>2, <1>3, PTL DEF Spec

-----------------------------------------------------------------------------
(* The handshake, and Fin.                                                 *)

\* What Hello changes at the helper and on the channel.
LEMMA HelloLands ==
  ASSUME Books, Bytes, HelperHello PROVE Lands("Hello")
<1>1. HelperTypes /\ TakesFrame("Hello")
  BY HeadExact DEF HelperHello, Bytes
<1>2. PICK b : b = (Head(c2h).resume /\ helper.session /\ DOMAIN Held # {})
  OBVIOUS
<1>3. /\ h2c' = Append(h2c, [type |-> "HelloAck", resumed |-> b])
      /\ helper' = IF b THEN helper ELSE [helper EXCEPT !.session = TRUE, !.streams = NoStreams]
  BY <1>2 DEF HelperHello, Reply
<1>4. \E f \in Frame : h2c' = Append(h2c, f)
  <2>1. b \in BOOLEAN
    BY <1>2
  <2>2. [type |-> "HelloAck", resumed |-> b] \in Frame
    BY <2>1 DEF Frame
  <2> QED
    BY <1>3, <2>2
<1>5. helper'.channels = helper.channels /\ \A id \in DOMAIN Held' : id \in DOMAIN Held /\ Held'[id] = Held[id]
  <2>1. CASE b
    BY <1>3, <2>1 DEF Held
  <2>2. CASE ~b
    <3>1. helper' = [helper EXCEPT !.session = TRUE, !.streams = NoStreams]
      BY <1>3, <2>2
    <3>2. helper'.channels = helper.channels /\ helper'.streams = NoStreams
      BY <1>1, <3>1 DEF HelperTypes
    <3> QED
      BY <3>2 DEF Held, NoStreams
  <2> QED
    BY <2>1, <2>2
<1> QED
  BY <1>1, <1>4, <1>5 DEF Lands

\* What Open changes.
LEMMA OpenLands ==
  ASSUME Books, Bytes, HelperOpen PROVE Lands("Open")
<1>1. PICK f : f = Head(c2h)
  OBVIOUS
<1>2. HelperTypes /\ FrameTypes /\ HelperTakes("Open")
  BY DEF HelperOpen, Bytes
<1>3. TakesFrame("Open") /\ f = c2h[1] /\ f.id \in StreamId
  BY <1>1, <1>2, HeadExact
<1>4. CASE h2c' = Append(h2c, Signal("OpenErr", f.id)) /\ UNCHANGED helper
  <2>1. /\ \E g \in Frame : h2c' = Append(h2c, g) /\ g.type # "HelloAck"
        /\ Mentions(h2c', Refusals, f.id)
    BY <1>2, <1>3, <1>4, RefusalSaid DEF Refusals
  <2>2. Held' = Held /\ helper'.channels = helper.channels
    BY <1>4 DEF Held
  <2> QED
    BY <1>3, <2>1, <2>2 DEF Lands
<1>5. CASE /\ f.id \notin DOMAIN Held /\ UNCHANGED h2c
           /\ HelperSets(With(Held, f.id, [req |-> f.req, got |-> <<>>, fin |-> FALSE, acked |-> 0]))
  <2>1. PICK h, ss : h = [req |-> f.req, got |-> <<>>, fin |-> FALSE, acked |-> 0] /\ ss = With(Held, f.id, h)
    OBVIOUS
  <2>2. h.fin = FALSE
    BY <2>1
  <2>3. /\ DOMAIN ss = DOMAIN Held \cup {f.id} /\ ss[f.id] = h /\ \A id \in DOMAIN Held : ss[id] = Held[id]
    BY <1>5, <2>1 DEF With
  <2>4. Held' = ss /\ helper'.channels = helper.channels
    BY <1>2, <1>5, <2>1, SetChannels
  <2> QED
    BY <1>3, <1>5, <2>2, <2>3, <2>4 DEF Lands
<1> QED
  BY <1>1, <1>4, <1>5 DEF HelperOpen, Reply

\* What Fin changes.
LEMMA FinLands ==
  ASSUME Books, Bytes, HelperFin PROVE Lands("Fin")
<1>1. PICK f : f = Head(c2h)
  OBVIOUS
<1>2. HelperTypes /\ FrameTypes /\ HelperTakes("Fin")
  BY DEF HelperFin, Bytes
<1>3. TakesFrame("Fin") /\ f = c2h[1] /\ f.id \in StreamId
  BY <1>1, <1>2, HeadExact
<1>4. CASE f.id \notin DOMAIN Held
  <2>1. h2c' = Append(h2c, Signal("Reset", f.id)) /\ UNCHANGED helper
    BY <1>1, <1>4 DEF HelperFin, Reply
  <2>2. /\ \E g \in Frame : h2c' = Append(h2c, g) /\ g.type # "HelloAck"
    BY <1>2, <1>3, <2>1, RefusalSaid DEF Refusals
  <2>3. Held' = Held /\ helper'.channels = helper.channels
    BY <2>1 DEF Held
  <2> QED
    BY <1>3, <2>2, <2>3 DEF Lands
<1>5. CASE f.id \in DOMAIN Held
  <2>1. PICK ss : ss = [Held EXCEPT ![f.id].fin = TRUE]
    OBVIOUS
  <2>2. HelperSets(ss) /\ h2c' = h2c
    BY <1>1, <1>5, <2>1 DEF HelperFin
  <2>3. /\ DOMAIN ss = DOMAIN Held
        /\ \A j \in DOMAIN ss : j # f.id => ss[j] = Held[j]
    BY <2>1
  <2>4. ss[f.id].req = Held[f.id].req
    <3>1. ss[f.id] = [Held[f.id] EXCEPT !.fin = TRUE] /\ Held[f.id] \in HelperStream
      BY <1>2, <1>5, <2>1 DEF HelperTypes
    <3> QED
      BY <3>1 DEF HelperStream
  <2>5. Held' = ss /\ helper'.channels = helper.channels
    BY <1>2, <2>2, SetChannels
  <2>6. \A j \in DOMAIN Held' : j \in DOMAIN Held /\ Held'[j].req = Held[j].req /\ (j = f.id \/ Held'[j] = Held[j])
    BY <2>3, <2>4, <2>5
  <2>7. DOMAIN Held' = DOMAIN Held
    BY <2>3, <2>5
  <2> QED
    BY <1>3, <2>2, <2>5, <2>6, <2>7 DEF Lands
<1> QED
  BY <1>4, <1>5

\* What Reset changes.
LEMMA ResetLands ==
  ASSUME Books, Bytes, HelperReset PROVE Lands("Reset")
<1>1. PICK id, ss : id = Head(c2h).id /\ ss = Without(Held, {id})
  OBVIOUS
<1>2. TakesFrame("Reset") /\ id = c2h[1].id /\ HelperSets(ss) /\ h2c' = h2c /\ HelperTypes
  BY <1>1, HeadExact DEF HelperReset, Bytes
<1>3. DOMAIN ss = DOMAIN Held \ {id} /\ \A j \in DOMAIN ss : ss[j] = Held[j]
  BY <1>1 DEF Without
<1>4. Held' = ss /\ helper'.channels = helper.channels
  BY <1>2, SetChannels
<1> QED
  BY <1>2, <1>3, <1>4 DEF Lands

\* What Resume changes.
LEMMA ResumeLands ==
  ASSUME Books, Bytes, HelperResume PROVE Lands("Resume")
<1>1. PICK id : id = Head(c2h).id
  OBVIOUS
<1>2. /\ TakesFrame("Resume") /\ id = c2h[1].id /\ UNCHANGED helper /\ id \in StreamId
      /\ h2c' = Append(h2c, IF id \in DOMAIN Held THEN At("ResumeOk", id, Len(Held[id].got))
                            ELSE Signal("ResumeErr", id))
      /\ HelperTypes /\ FrameTypes
  BY <1>1, HeadExact DEF HelperResume, Reply, Bytes
<1>3. Held' = Held /\ helper'.channels = helper.channels
  BY <1>2 DEF Held
<1>4. CASE id \in DOMAIN Held
  <2>1. \E f \in Frame : h2c' = Append(h2c, f) /\ f.type # "HelloAck"
    BY <1>2, <1>4, AnswerSaid
  <2> QED
    BY <1>2, <1>3, <1>4, <2>1 DEF Lands
<1>5. CASE id \notin DOMAIN Held
  <2>1. /\ \E f \in Frame : h2c' = Append(h2c, f) /\ f.type # "HelloAck"
        /\ Mentions(h2c', Refusals, id)
    BY <1>2, <1>5, RefusalSaid DEF Refusals
  <2> QED
    BY <1>2, <1>3, <2>1 DEF Lands
<1> QED
  BY <1>4, <1>5

\* What an Ack takes from the client: nothing.
LEMMA AcksLand ==
  ASSUME Books, Bytes, NEW id \in StreamId, HelperAcks(id) PROVE Lands("none")
<1>1. PICK ss : ss = [Held EXCEPT ![id].acked = Len(Held[id].got)]
  OBVIOUS
<1>2. /\ HelperTypes /\ HelperSets(ss) /\ c2h' = c2h /\ id \in DOMAIN Held /\ drv # "wait"
      /\ h2c' = Append(h2c, At("Ack", id, Len(Held[id].got)))
  BY <1>1 DEF HelperAcks, Bytes, Reply
<1>3. DOMAIN ss = DOMAIN Held /\ \A j \in DOMAIN ss : j # id => ss[j] = Held[j]
  BY <1>1
<1>4. ss[id].req = Held[id].req /\ ss[id].fin = Held[id].fin
  <2>1. PICK n : n = Len(Held[id].got)
    OBVIOUS
  <2>2. Held[id] \in HelperStream /\ ss[id] = [Held[id] EXCEPT !.acked = n]
    BY <1>1, <1>2, <2>1 DEF HelperTypes
  <2> QED
    BY <2>2 DEF HelperStream
<1>5. Held' = ss /\ helper'.channels = helper.channels
  BY <1>2, SetChannels
<1>6. \E f \in Frame : h2c' = Append(h2c, f) /\ f.type # "HelloAck"
  BY <1>2, AnswerSaid
<1> QED
  BY <1>2, <1>3, <1>4, <1>5, <1>6 DEF Lands

\* What an egress that fails takes from the client: nothing.
LEMMA FailsLand ==
  ASSUME Books, Bytes, NEW id \in StreamId, HelperFails(id) PROVE Lands("none")
<1>1. PICK ss : ss = Without(Held, {id})
  OBVIOUS
<1>2. /\ HelperTypes /\ FrameTypes /\ HelperSets(ss) /\ c2h' = c2h /\ drv # "wait"
      /\ h2c' = Append(h2c, Signal("Reset", id))
  BY <1>1 DEF HelperFails, Bytes, Reply
<1>3. DOMAIN ss = DOMAIN Held \ {id} /\ \A j \in DOMAIN ss : ss[j] = Held[j]
  BY <1>1 DEF Without
<1>4. Held' = ss /\ helper'.channels = helper.channels
  BY <1>2, SetChannels
<1>5. /\ \E f \in Frame : h2c' = Append(h2c, f) /\ f.type # "HelloAck"
      /\ Mentions(h2c', Refusals, id)
  BY <1>2, RefusalSaid DEF Refusals
<1> QED
  BY <1>2, <1>3, <1>4, <1>5 DEF Lands

\* Every step of the helper takes at most one frame, and leaves the client.
LEMMA HelperLands ==
  ASSUME Books, Bytes, Helper
  PROVE  ClientIdle /\ \E type : Lands(type)
<1>1. ClientIdle
  BY HelperServes DEF Serves
<1>2. CASE HelperHello
  <2>1. Lands("Hello")
    BY <1>2, HelloLands
  <2> QED
    BY <1>1, <2>1
<1>3. CASE HelperOpen
  <2>1. Lands("Open")
    BY <1>3, OpenLands
  <2> QED
    BY <1>1, <2>1
<1>4. CASE HelperData
  <2>1. Lands("Data")
    BY <1>4, HelperDataServes
  <2> QED
    BY <1>1, <2>1
<1>5. CASE HelperFin
  <2>1. Lands("Fin")
    BY <1>5, FinLands
  <2> QED
    BY <1>1, <2>1
<1>6. CASE HelperReset
  <2>1. Lands("Reset")
    BY <1>6, ResetLands
  <2> QED
    BY <1>1, <2>1
<1>7. CASE HelperResume
  <2>1. Lands("Resume")
    BY <1>7, ResumeLands
  <2> QED
    BY <1>1, <2>1
<1>8. CASE \E id \in StreamId : HelperAcks(id) \/ HelperFails(id)
  <2>1. PICK id \in StreamId : HelperAcks(id) \/ HelperFails(id)
    BY <1>8
  <2>2. Lands("none")
    BY <2>1, AcksLand, FailsLand
  <2> QED
    BY <1>1, <2>2
<1> QED
  BY <1>2, <1>3, <1>4, <1>5, <1>6, <1>7, <1>8 DEF Helper, HelperFrames

\* The parts of HandshakeHolds and EveryStreamIsKnown.
HelloFirst(q) == \A i \in 1 .. Len(q) : q[i].type = "Hello" => i = 1

OneAck(q) ==
  \A i, j \in 1 .. Len(q) : q[i].type = "HelloAck" /\ q[j].type = "HelloAck" => i = j

KnownAt(id, H, up, down) ==
  id \in DOMAIN H \/ Mentions(up, {"Open", "Resume"}, id) \/ Mentions(down, Refusals, id)

NewIsKnown(id, s, res, ch, H, up, down) ==
  /\ ~res => s.born = ch
  /\ s.born = ch => KnownAt(id, H, up, down) /\ (Greets(up, "Hello") => Mentions(up, {"Open"}, id))

Shakes ==
  /\ drv = "wait" => c2h = <<>> /\ h2c = <<>>
  /\ drv # "hello" => ~Greets(c2h, "Hello") /\ ~Greets(h2c, "HelloAck")
  /\ Greets(c2h, "Hello") => ~Greets(h2c, "HelloAck")
  /\ HelloFirst(c2h) /\ OneAck(h2c)
  /\ drv = "hello" => \A id \in DOMAIN streams :
       NewIsKnown(id, streams[id], resuming, channel, Held, c2h, h2c)
  /\ drv = "up" => \A id \in DOMAIN streams : KnownAt(id, Held, c2h, h2c)
  /\ \A id \in DOMAIN streams : ~Mentions(c2h, {"Reset"}, id)

\* The handshake, and the streams known, said of one stream at a time.
LEMMA ShakesIs == Shakes <=> HandshakeHolds /\ EveryStreamIsKnown
<1>1. \A id : Known(id) <=> KnownAt(id, Held, c2h, h2c)
  BY DEF Known, KnownAt, Refusals
<1>2. \A id \in DOMAIN streams :
        NewIsKnown(id, streams[id], resuming, channel, Held, c2h, h2c) <=>
          /\ ~resuming => streams[id].born = channel
          /\ streams[id].born = channel =>
               Known(id) /\ (Greets(c2h, "Hello") => Mentions(c2h, {"Open"}, id))
  BY <1>1 DEF NewIsKnown
<1> QED
  BY <1>1, <1>2 DEF Shakes, HandshakeHolds, EveryStreamIsKnown, HelloFirst, OneAck

\* What a queue says when its first frame is taken, or none.
LEMMA SaysLess ==
  ASSUME NEW q \in Seq(Frame), NEW t, t = q \/ (q # <<>> /\ t = Tail(q))
  PROVE  /\ \A type : Greets(t, type) => Greets(q, type)
         /\ \A types, id : Mentions(t, types, id) => Mentions(q, types, id)
         /\ \A types, id : Mentions(q, types, id) =>
              Mentions(t, types, id) \/ (q[1].type \in types /\ q[1].id = id)
         /\ OneAck(q) => OneAck(t)
         /\ HelloFirst(q) => HelloFirst(t)
         /\ t # q /\ HelloFirst(q) => ~Greets(t, "Hello")
         /\ t # q /\ OneAck(q) /\ q[1].type = "HelloAck" => ~Greets(t, "HelloAck")
         /\ q # <<>> => 1 \in 1 .. Len(q) /\ q[1] = Head(q) /\ Greets(q, q[1].type)
                        /\ \A types : q[1].type \in types => Mentions(q, types, q[1].id)
<1>1. q # <<>> => 1 \in 1 .. Len(q) /\ q[1] = Head(q)
  BY TailAt
<1>2. q # <<>> => /\ Greets(q, q[1].type)
                  /\ \A types : q[1].type \in types => Mentions(q, types, q[1].id)
  BY <1>1 DEF Greets, Mentions
<1>3. CASE t = q
  BY <1>1, <1>2, <1>3
<1>4. CASE q # <<>> /\ t = Tail(q)
  <2>1. PICK n \in Nat, m \in Nat : n = Len(q) /\ m = Len(t)
    BY <1>4, LenProperties, TailAt
  <2>2. n = m + 1 /\ \A i \in 1 .. m : t[i] = q[i + 1] /\ i + 1 \in 1 .. n
    BY <1>4, <2>1, TailAt
  <2>3. \A i \in 1 .. n : i = 1 \/ (i - 1 \in 1 .. m /\ t[i - 1] = q[i])
    BY <2>1, <2>2
  <2>4. \A type : Greets(t, type) => Greets(q, type)
    BY <2>1, <2>2 DEF Greets
  <2>5. \A types, id : Mentions(t, types, id) => Mentions(q, types, id)
    BY <2>1, <2>2 DEF Mentions
  <2>6. \A types, id : Mentions(q, types, id) =>
              Mentions(t, types, id) \/ (q[1].type \in types /\ q[1].id = id)
    BY <2>1, <2>3 DEF Mentions
  <2>7. OneAck(q) => OneAck(t)
    BY <2>1, <2>2 DEF OneAck
  <2>8. HelloFirst(q) => \A i \in 1 .. m : t[i].type # "Hello"
    <3>1. ASSUME HelloFirst(q), NEW i \in 1 .. m PROVE t[i].type # "Hello"
      <4>1. t[i] = q[i + 1] /\ i + 1 \in 1 .. Len(q) /\ i + 1 # 1
        BY <2>1, <2>2
      <4>2. q[i + 1].type # "Hello"
        BY <3>1, <4>1 DEF HelloFirst
      <4> QED
        BY <4>1, <4>2
    <3> QED
      BY <3>1
  <2>9. OneAck(q) /\ q[1].type = "HelloAck" => \A i \in 1 .. m : t[i].type # "HelloAck"
    BY <1>1, <1>4, <2>1, <2>2 DEF OneAck
  <2>10. HelloFirst(q) => HelloFirst(t) /\ ~Greets(t, "Hello")
    BY <2>1, <2>8 DEF HelloFirst, Greets
  <2>11. OneAck(q) /\ q[1].type = "HelloAck" => ~Greets(t, "HelloAck")
    BY <2>1, <2>9 DEF Greets
  <2> QED
    BY <1>1, <1>2, <2>4, <2>5, <2>6, <2>7, <2>10, <2>11
<1> QED
  BY <1>3, <1>4

\* What a queue says when frames are added.
LEMMA SaysMore ==
  ASSUME NEW q \in Seq(Frame), NEW out \in Seq(Frame), NEW t, t = q \o out
  PROVE  /\ \A type : Greets(t, type) <=> Greets(q, type) \/ Greets(out, type)
         /\ \A types, id : Mentions(t, types, id) <=> Mentions(q, types, id) \/ Mentions(out, types, id)
         /\ HelloFirst(q) /\ ~Greets(out, "Hello") => HelloFirst(t)
<1>1. /\ Len(q) \in Nat /\ Len(out) \in Nat /\ Len(t) = Len(q) + Len(out)
      /\ \A i \in 1 .. Len(q) : t[i] = q[i] /\ i \in 1 .. Len(t)
      /\ \A i \in 1 .. Len(out) : t[Len(q) + i] = out[i] /\ Len(q) + i \in 1 .. Len(t)
      /\ \A i \in 1 .. Len(t) : i \notin 1 .. Len(q) => i - Len(q) \in 1 .. Len(out) /\ t[i] = out[i - Len(q)]
  BY Chained
<1>0. \A i \in 1 .. Len(t) : (\E j \in 1 .. Len(q) : t[i] = q[j]) \/ \E j \in 1 .. Len(out) : t[i] = out[j]
  BY <1>1
<1>2. ASSUME NEW type PROVE Greets(t, type) <=> Greets(q, type) \/ Greets(out, type)
  <2>1. Greets(t, type) => Greets(q, type) \/ Greets(out, type)
    BY <1>0 DEF Greets
  <2>2. Greets(q, type) => Greets(t, type)
    BY <1>1 DEF Greets
  <2>3. Greets(out, type) => Greets(t, type)
    BY <1>1 DEF Greets
  <2> QED
    BY <2>1, <2>2, <2>3
<1>3. ASSUME NEW types, NEW id
      PROVE  Mentions(t, types, id) <=> Mentions(q, types, id) \/ Mentions(out, types, id)
  <2>1. Mentions(t, types, id) => Mentions(q, types, id) \/ Mentions(out, types, id)
    BY <1>0 DEF Mentions
  <2>2. Mentions(q, types, id) => Mentions(t, types, id)
    BY <1>1 DEF Mentions
  <2>3. Mentions(out, types, id) => Mentions(t, types, id)
    BY <1>1 DEF Mentions
  <2> QED
    BY <2>1, <2>2, <2>3
<1>4. HelloFirst(q) /\ ~Greets(out, "Hello") => HelloFirst(t)
  BY <1>1 DEF HelloFirst, Greets
<1> QED
  BY <1>2, <1>3, <1>4

\* What a queue greets with and mentions, with one frame more.
LEMMA SaysOne ==
  ASSUME NEW q \in Seq(Frame), NEW f \in Frame, NEW t, t = Append(q, f)
  PROVE  /\ \A type : Greets(t, type) <=> Greets(q, type) \/ f.type = type
         /\ \A types, id : Mentions(q, types, id) => Mentions(t, types, id)
         /\ OneAck(q) /\ (f.type = "HelloAck" => ~Greets(q, "HelloAck")) => OneAck(t)
<1>1. /\ Len(q) \in Nat /\ Len(t) = Len(q) + 1 /\ t[Len(q) + 1] = f
      /\ \A i \in 1 .. Len(q) : t[i] = q[i]
  BY Joined
<1>2. /\ \A i \in 1 .. Len(t) : i \in 1 .. Len(q) \/ i = Len(q) + 1
      /\ \A i \in 1 .. Len(q) : i \in 1 .. Len(t)
      /\ Len(q) + 1 \in 1 .. Len(t)
  BY <1>1
<1>3. \A type : Greets(t, type) <=> Greets(q, type) \/ f.type = type
  BY <1>1, <1>2 DEF Greets
<1>4. \A types, id : Mentions(q, types, id) => Mentions(t, types, id)
  BY <1>1, <1>2 DEF Mentions
<1>5. OneAck(q) /\ (f.type = "HelloAck" => ~Greets(q, "HelloAck")) => OneAck(t)
  BY <1>1, <1>2 DEF OneAck, Greets
<1> QED
  BY <1>3, <1>4, <1>5

-----------------------------------------------------------------------------
(* The handshake, step by step.                                            *)

\* A step that touches none of this keeps it.
LEMMA ShakesStay ==
  ASSUME Shakes, UNCHANGED <<streams, drv, resuming, channel, c2h, h2c, helper>>
  PROVE  Shakes'
<1>1. Held' = Held
  BY DEF Held
<1> QED
  BY <1>1 DEF Shakes

\* A step for one stream sends nothing but Data, Fin and Reset.
LEMMA StreamStepShakes ==
  ASSUME Books, Bytes, Shakes, NEW id, NEW out, StreamStep(id, out),
         drv = "wait" => UNCHANGED <<c2h, h2c>>
  PROVE  Shakes'
<1>1. /\ out \in Seq(Frame) /\ c2h' = c2h \o out
      /\ \A i \in 1 .. Len(out) : out[i].type \in {"Data", "Fin", "Reset"} /\ out[i].id = id
      /\ HearsFor(id, out) /\ UNCHANGED <<drv, resuming, channel, helper>>
      /\ GoesOn(id, out) \/ Forgets(id, out)
      /\ c2h \in Seq(Frame) /\ h2c \in Seq(Frame)
  BY DEF StreamStep, FrameFits, Bytes, FrameTypes
<1>2. Held' = Held
  BY <1>1 DEF Held
<1>3. ~Greets(out, "Hello")
  BY <1>1 DEF Greets
<1>4. /\ DOMAIN streams' \subseteq DOMAIN streams
      /\ \A j \in DOMAIN streams' : streams'[j].born = streams[j].born
      /\ \A j \in DOMAIN streams' : ~Mentions(out, {"Reset"}, j)
  <2>1. CASE Forgets(id, out)
    <3>1. \A j \in DOMAIN streams' : j # id /\ streams'[j] = streams[j]
      BY <2>1 DEF Forgets
    <3> QED
      BY <1>1, <2>1, <3>1 DEF Forgets, Mentions
  <2>2. CASE GoesOn(id, out)
    <3>1. PICK u, t : /\ id \in DOMAIN streams /\ Turned(id, streams[id], u, cmds')
                      /\ Became(id, t) /\ SameStream(u, t) /\ Brings(out, id, u, t)
      BY <2>2 DEF GoesOn
    <3>2. DOMAIN streams' = DOMAIN streams /\ streams'[id] = t
          /\ \A j \in DOMAIN streams : j # id => streams'[j] = streams[j]
      BY <3>1 DEF Became
    <3>3. t.born = streams[id].born
      BY <3>1 DEF SameStream, Turned
    <3>4. \A i \in 1 .. Len(out) : out[i].type # "Reset"
      BY <3>1 DEF Brings
    <3> QED
      BY <3>2, <3>3, <3>4 DEF Mentions
  <2> QED
    BY <1>1, <2>1, <2>2
<1>5. /\ \A type : Greets(c2h', type) <=> Greets(c2h, type) \/ Greets(out, type)
      /\ \A types, j : Mentions(c2h', types, j) <=> Mentions(c2h, types, j) \/ Mentions(out, types, j)
      /\ HelloFirst(c2h) => HelloFirst(c2h')
  BY <1>1, <1>3, SaysMore
<1>6. /\ \A type : Greets(h2c', type) => Greets(h2c, type)
      /\ OneAck(h2c) => OneAck(h2c')
      /\ \A j \in DOMAIN streams' : Mentions(h2c, Refusals, j) => Mentions(h2c', Refusals, j)
  <2>0. h2c' = h2c \/ (h2c # <<>> /\ h2c' = Tail(h2c))
    BY <1>1 DEF HearsFor
  <2>1. /\ \A type : Greets(h2c', type) => Greets(h2c, type)
        /\ OneAck(h2c) => OneAck(h2c')
        /\ h2c # <<>> => h2c[1] = Head(h2c)
        /\ \A types, j : Mentions(h2c, types, j) =>
              Mentions(h2c', types, j) \/ (h2c[1].type \in types /\ h2c[1].id = j)
    BY <1>1, <2>0, SaysLess
  <2>2. ASSUME NEW j \in DOMAIN streams', Mentions(h2c, Refusals, j) PROVE Mentions(h2c', Refusals, j)
    <3>1. CASE h2c' = h2c
      BY <2>2, <3>1
    <3>2. CASE /\ h2c # <<>> /\ h2c' = Tail(h2c) /\ Head(h2c).type # "HelloAck" /\ Head(h2c).id = id
               /\ Head(h2c).type \in {"Ack", "ResumeOk"} \/ Forgets(id, out)
      <4>1. CASE Head(h2c).type \in {"Ack", "ResumeOk"}
        BY <2>1, <2>2, <3>2, <4>1 DEF Refusals
      <4>2. CASE Forgets(id, out)
        <5>1. j # id
          BY <2>2, <4>2 DEF Forgets
        <5> QED
          BY <2>1, <2>2, <3>2, <5>1
      <4> QED
        BY <3>2, <4>1, <4>2
    <3> QED
      BY <1>1, <3>1, <3>2 DEF HearsFor
  <2> QED
    BY <2>1, <2>2
<1>7. \A j \in DOMAIN streams' : KnownAt(j, Held, c2h, h2c) => KnownAt(j, Held', c2h', h2c')
  BY <1>2, <1>5, <1>6 DEF KnownAt
<1>8. \A j \in DOMAIN streams' : NewIsKnown(j, streams[j], resuming, channel, Held, c2h, h2c) =>
        NewIsKnown(j, streams'[j], resuming', channel', Held', c2h', h2c')
  BY <1>1, <1>3, <1>4, <1>5, <1>7 DEF NewIsKnown
<1>9. \A j \in DOMAIN streams' : ~Mentions(c2h', {"Reset"}, j)
  BY <1>4, <1>5 DEF Shakes
<1>10. drv' = "hello" => \A j \in DOMAIN streams' :
         NewIsKnown(j, streams'[j], resuming', channel', Held', c2h', h2c')
  BY <1>1, <1>4, <1>8 DEF Shakes
<1>11. drv' = "up" => \A j \in DOMAIN streams' : KnownAt(j, Held', c2h', h2c')
  BY <1>1, <1>4, <1>7 DEF Shakes
<1>12. /\ drv' # "hello" => ~Greets(c2h', "Hello") /\ ~Greets(h2c', "HelloAck")
       /\ Greets(c2h', "Hello") => ~Greets(h2c', "HelloAck")
       /\ HelloFirst(c2h') /\ OneAck(h2c')
  BY <1>1, <1>3, <1>5, <1>6 DEF Shakes
<1>13. drv' = "wait" => c2h' = <<>> /\ h2c' = <<>>
  BY <1>1 DEF Shakes
<1> QED
  BY <1>9, <1>10, <1>11, <1>12, <1>13 DEF Shakes

\* What an opening says.
LEMMA OpensSay ==
  ASSUME Books, Books', Bytes, NEW ss, NEW a, NEW out, NEW reqs, Opens(ss, a, out, reqs), Shakes
  PROVE  /\ Greets(c2h', "Hello") <=> Greets(c2h, "Hello")
         /\ HelloFirst(c2h')
         /\ \A types, id : Mentions(c2h, types, id) => Mentions(c2h', types, id)
         /\ \A i \in 1 .. Len(out) : Mentions(c2h', {"Open", "Resume"}, out[i].id)
         /\ \A id \in DOMAIN streams' :
              /\ ~Mentions(c2h', {"Reset"}, id)
              /\ \/ id \in DOMAIN ss /\ id \in DOMAIN streams /\ streams'[id] = streams[id]
                 \/ Mentions(c2h', {"Open"}, id) /\ streams'[id].born = channel
<1>1. /\ \A i \in 1 .. Len(c2h) : c2h'[i] = c2h[i] /\ i \in 1 .. Len(c2h') /\ c2h[i] \in Frame
      /\ \A i \in 1 .. Len(out) : \E m \in 1 .. Len(c2h') : c2h'[m] = out[i]
      /\ \A i \in 1 .. Len(reqs) : \E m \in 1 .. Len(c2h') : c2h'[m] = OpenFrame(next_id + i - 1, reqs[i])
      /\ \A i \in 1 .. Len(c2h') :
           \/ i \in 1 .. Len(c2h)
           \/ ResumeFrame(c2h'[i])
           \/ \E m \in 1 .. Len(reqs) : c2h'[i] = OpenFrame(next_id + m - 1, reqs[m])
  <2>1. Sends(out, reqs)
    BY OpensSends
  <2> QED
    BY <2>1 DEF Sends
<1>2. \A i \in 1 .. Len(c2h') : i \in 1 .. Len(c2h) \/ c2h'[i].type \in {"Resume", "Open"}
  <2>1. \A id, r : OpenFrame(id, r).type = "Open"
    BY DEF OpenFrame
  <2>2. \A f : ResumeFrame(f) => f.type = "Resume"
    BY DEF ResumeFrame
  <2>3. ASSUME NEW i \in 1 .. Len(c2h'), i \notin 1 .. Len(c2h)
        PROVE  c2h'[i].type \in {"Resume", "Open"}
    <3>1. CASE ResumeFrame(c2h'[i])
      BY <2>2, <3>1
    <3>2. CASE \E m \in 1 .. Len(reqs) : c2h'[i] = OpenFrame(next_id + m - 1, reqs[m])
      <4>1. PICK m \in 1 .. Len(reqs) : c2h'[i] = OpenFrame(next_id + m - 1, reqs[m])
        BY <3>2
      <4> QED
        BY <2>1, <4>1
    <3> QED
      BY <1>1, <2>3, <3>1, <3>2
  <2> QED
    BY <2>3
<1>3. Greets(c2h', "Hello") <=> Greets(c2h, "Hello")
  BY <1>1, <1>2 DEF Greets
<1>4. HelloFirst(c2h')
  BY <1>1, <1>2 DEF Shakes, HelloFirst
<1>5. \A types, id : Mentions(c2h, types, id) => Mentions(c2h', types, id)
  BY <1>1 DEF Mentions
<1>6. \A i \in 1 .. Len(out) : Mentions(c2h', {"Open", "Resume"}, out[i].id)
  <2>1. \A i \in 1 .. Len(out) : out[i].type = "Resume"
    BY DEF Opens, ResumeFrame
  <2> QED
    BY <1>1, <2>1 DEF Mentions
<1>7. \A id : Mentions(c2h', {"Reset"}, id) => Mentions(c2h, {"Reset"}, id)
  BY <1>1, <1>2 DEF Mentions
<1>8. \A id : Mentions(c2h, {"Reset"}, id) => id \in Allocated
  <2>1. AllExact
    BY AllExactIs DEF Bytes
  <2> QED
    BY <2>1 DEF Mentions, AllExact, Exact, Allocated
<1>9. /\ next_id \in Nat /\ Len(reqs) \in Nat /\ next_id' = next_id + Len(reqs)
      /\ \A id : id \in Allocated <=> id \in Nat /\ 1 <= id /\ id < next_id
  BY OpensIds
<1>10. ASSUME NEW id \in DOMAIN streams'
       PROVE  /\ ~Mentions(c2h', {"Reset"}, id)
              /\ \/ id \in DOMAIN ss /\ id \in DOMAIN streams /\ streams'[id] = streams[id]
                 \/ Mentions(c2h', {"Open"}, id) /\ streams'[id].born = channel
  <2>1. CASE id \in DOMAIN ss
    <3>1. id \in DOMAIN streams /\ streams'[id] = streams[id]
      BY <2>1 DEF Opens, Opened
    <3>2. ~Mentions(c2h, {"Reset"}, id)
      BY <3>1 DEF Shakes
    <3> QED
      BY <1>7, <2>1, <3>1, <3>2
  <2>2. CASE id \notin DOMAIN ss
    <3>1. id \in Nat /\ next_id <= id /\ id < next_id'
      BY <2>2 DEF Opens, Opened
    <3>2. PICK i \in 1 .. Len(reqs) : next_id + i - 1 = id
      <4>1. id - next_id + 1 \in 1 .. Len(reqs) /\ next_id + (id - next_id + 1) - 1 = id
        BY <1>9, <3>1
      <4> QED
        BY <4>1
    <3>3. streams'[id] = NewStream(reqs[i])
      BY <3>2 DEF Opens, Opened
    <3>4. streams'[id].born = channel
      BY <3>3 DEF NewStream
    <3>5. Mentions(c2h', {"Open"}, id)
      <4>1. PICK f : f = OpenFrame(id, reqs[i])
        OBVIOUS
      <4>2. f.type = "Open" /\ f.id = id
        BY <4>1 DEF OpenFrame
      <4>3. \E m \in 1 .. Len(c2h') : c2h'[m] = f
        BY <1>1, <3>2, <4>1
      <4> QED
        BY <4>2, <4>3 DEF Mentions
    <3>6. id \notin Allocated
      BY <1>9, <3>1
    <3> QED
      BY <1>7, <1>8, <3>4, <3>5, <3>6
  <2> QED
    BY <2>1, <2>2
<1> QED
  BY <1>3, <1>4, <1>5, <1>6, <1>10

\* A stream opened by a command is announced.
LEMMA HandleOpenShakes ==
  ASSUME Books, Books', Bytes, Shakes, HandleOpen
  PROVE  Shakes'
<1>1. PICK reqs : Opens(streams, app, <<>>, reqs) /\ UNCHANGED <<drv, h2c>>
  BY HandleOpenOpens DEF Bytes
<1>2. /\ Greets(c2h', "Hello") <=> Greets(c2h, "Hello")
      /\ HelloFirst(c2h')
      /\ \A types, id : Mentions(c2h, types, id) => Mentions(c2h', types, id)
      /\ \A id \in DOMAIN streams' :
           /\ ~Mentions(c2h', {"Reset"}, id)
           /\ \/ id \in DOMAIN streams /\ streams'[id] = streams[id]
              \/ Mentions(c2h', {"Open"}, id) /\ streams'[id].born = channel
  BY <1>1, OpensSay
<1>3. drv \in {"hello", "up"} /\ UNCHANGED <<drv, resuming, channel, h2c, helper>> /\ Held' = Held
  BY DEF HandleOpen, Online, Held
<1>4. ASSUME NEW id \in DOMAIN streams'
      PROVE  /\ drv = "up" => KnownAt(id, Held', c2h', h2c')
             /\ drv = "hello" => NewIsKnown(id, streams'[id], resuming', channel', Held', c2h', h2c')
  <2>1. CASE id \in DOMAIN streams /\ streams'[id] = streams[id]
    BY <1>2, <1>3, <2>1 DEF Shakes, KnownAt, NewIsKnown
  <2>2. CASE Mentions(c2h', {"Open"}, id) /\ streams'[id].born = channel
    <3>1. Mentions(c2h', {"Open", "Resume"}, id)
      BY <2>2 DEF Mentions
    <3> QED
      BY <1>3, <2>2, <3>1 DEF KnownAt, NewIsKnown
  <2> QED
    BY <1>2, <2>1, <2>2
<1> QED
  BY <1>2, <1>3, <1>4 DEF Shakes

\* HelloAck re-establishes what client and helper know of each other.
LEMMA HelloAckShakes ==
  ASSUME Books, Books', Bytes, Shakes, HandleHelloAck
  PROVE  Shakes'
<1>1. Opens(AckStreams, AckApp, AckOut, pending)
  BY HelloAckOpens DEF Bytes
<1>2. /\ Greets(c2h', "Hello") <=> Greets(c2h, "Hello")
      /\ HelloFirst(c2h')
      /\ \A types, id : Mentions(c2h, types, id) => Mentions(c2h', types, id)
      /\ \A i \in 1 .. Len(AckOut) : Mentions(c2h', {"Open", "Resume"}, AckOut[i].id)
      /\ \A id \in DOMAIN streams' :
           /\ ~Mentions(c2h', {"Reset"}, id)
           /\ \/ id \in DOMAIN AckStreams /\ id \in DOMAIN streams /\ streams'[id] = streams[id]
              \/ Mentions(c2h', {"Open"}, id)
  BY <1>1, OpensSay
<1>3. /\ drv = "hello" /\ drv' = "up" /\ h2c # <<>> /\ Head(h2c).type = "HelloAck" /\ h2c' = Tail(h2c)
      /\ UNCHANGED <<resuming, channel, helper>> /\ Held' = Held /\ h2c \in Seq(Frame)
  BY DEF HandleHelloAck, Frame1, Held, Bytes, FrameTypes
<1>4. /\ h2c[1] = Head(h2c) /\ Greets(h2c, "HelloAck") /\ OneAck(h2c')
      /\ ~Greets(h2c', "HelloAck")
      /\ \A types, id : Mentions(h2c, types, id) =>
           Mentions(h2c', types, id) \/ (h2c[1].type \in types /\ h2c[1].id = id)
  <2>1. h2c' # h2c
    <3>1. Len(h2c') = Len(h2c) - 1 /\ Len(h2c) \in Nat
      BY <1>3, TailAt
    <3> QED
      BY <3>1
  <2>2. OneAck(h2c)
    BY DEF Shakes
  <2>3. h2c[1] = Head(h2c) /\ Greets(h2c, h2c[1].type)
    BY <1>3, SaysLess
  <2>4. /\ OneAck(h2c) => OneAck(h2c')
        /\ h2c' # h2c /\ OneAck(h2c) /\ h2c[1].type = "HelloAck" => ~Greets(h2c', "HelloAck")
        /\ \A types, id : Mentions(h2c, types, id) =>
             Mentions(h2c', types, id) \/ (h2c[1].type \in types /\ h2c[1].id = id)
    BY <1>3, SaysLess
  <2> QED
    BY <1>3, <2>1, <2>2, <2>3, <2>4
<1>5. ~Greets(c2h', "Hello")
  BY <1>2, <1>4 DEF Shakes
<1>6. ASSUME NEW id \in DOMAIN streams' PROVE KnownAt(id, Held', c2h', h2c')
  <2>1. CASE Mentions(c2h', {"Open"}, id)
    <3>1. Mentions(c2h', {"Open", "Resume"}, id)
      BY <2>1 DEF Mentions
    <3> QED
      BY <3>1 DEF KnownAt
  <2>2. CASE id \in DOMAIN AckStreams /\ id \in DOMAIN streams /\ streams'[id] = streams[id]
    <3>1. ~(resuming /\ ~Head(h2c).resumed)
      BY <2>2 DEF AckStreams, NoStreams
    <3>2. CASE resuming
      <4>1. AckOut = Resumes
        BY <3>1, <3>2 DEF AckOut
      <4>2. DOMAIN streams \subseteq StreamId
        BY DEF Bytes, StreamTypes
      <4>3. \E i \in 1 .. Len(Resumes) : Resumes[i].id = id
        BY <2>2, <4>2, ResumesAll
      <4>4. Mentions(c2h', {"Open", "Resume"}, id)
        BY <1>2, <4>1, <4>3
      <4> QED
        BY <4>4 DEF KnownAt
    <3>3. CASE ~resuming
      <4>1. KnownAt(id, Held, c2h, h2c)
        BY <1>3, <2>2, <3>3 DEF Shakes, NewIsKnown
      <4>2. Mentions(h2c, Refusals, id) => Mentions(h2c', Refusals, id)
        BY <1>3, <1>4 DEF Refusals
      <4> QED
        BY <1>2, <1>3, <4>1, <4>2 DEF KnownAt
    <3> QED
      BY <3>2, <3>3
  <2> QED
    BY <1>2, <2>1, <2>2
<1> QED
  BY <1>2, <1>3, <1>4, <1>5, <1>6 DEF Shakes

\* A channel that comes has only Hello in it; one that goes takes all with it.
LEMMA ChannelShakes ==
  ASSUME Books, Bytes, Shakes,
         (\E same \in Survives : Attach(same)) \/ Break \/ FrameTooEarly \/ ForeignVersion
  PROVE  Shakes'
<1>1. /\ \A type : ~Greets(<<>>, type)
      /\ \A types, id : ~Mentions(<<>>, types, id)
      /\ HelloFirst(<<>>) /\ OneAck(<<>>)
  BY DEF Greets, Mentions, HelloFirst, OneAck
<1>2. ASSUME NEW same \in Survives, Attach(same) PROVE Shakes'
  <2>1. PICK f : f = [type |-> "Hello", resume |-> resuming']
    OBVIOUS
  <2>2. /\ f.type = "Hello" /\ c2h' = <<f>> /\ h2c' = <<>> /\ drv' = "hello" /\ channel' = channel + 1
        /\ resuming' = (DOMAIN streams # {}) /\ streams' = streams
    BY <1>2, <2>1 DEF Attach
  <2>3. HelloFirst(<<f>>) /\ \A id : ~Mentions(<<f>>, {"Reset"}, id)
    BY <2>2 DEF HelloFirst, Mentions
  <2>4. ASSUME NEW id \in DOMAIN streams'
        PROVE  resuming' /\ streams'[id].born # channel'
    <3>1. PICK s : s = streams[id]
      OBVIOUS
    <3>2. s.born <= channel /\ s.born \in Nat /\ channel \in Nat
      BY <2>2, <3>1, StreamIs, StreamFields DEF Books, ControlTypes
    <3>3. s.born # channel + 1
      BY <3>2
    <3> QED
      BY <2>2, <3>1, <3>3
  <2> QED
    BY <1>1, <2>2, <2>3, <2>4 DEF Shakes, NewIsKnown
<1>3. CASE Break \/ FrameTooEarly \/ ForeignVersion
  <2>1. drv' = "wait" /\ c2h' = <<>> /\ h2c' = <<>>
    BY <1>3 DEF Break, FrameTooEarly, ForeignVersion
  <2> QED
    BY <1>1, <2>1 DEF Shakes
<1> QED
  BY <1>2, <1>3

\* A frame the helper takes is answered, or makes its stream known.
LEMMA LandsShakes ==
  ASSUME Books, Bytes, Shakes, ClientIdle, NEW type, Lands(type)
  PROVE  Shakes'
<1>1. /\ UNCHANGED <<streams, drv, resuming, channel>>
      /\ c2h \in Seq(Frame) /\ h2c \in Seq(Frame)
  BY DEF ClientIdle, clientVars, Bytes, FrameTypes
<1>2. (c2h' = c2h /\ drv # "wait" /\ type = "none") \/ (c2h # <<>> /\ c2h[1].type = type /\ c2h' = Tail(c2h))
  BY DEF Lands, TakesFrame
<1>3. drv # "wait"
  BY <1>2 DEF Shakes
<1>4. /\ \A t : Greets(c2h', t) => Greets(c2h, t)
      /\ \A types, id : Mentions(c2h', types, id) => Mentions(c2h, types, id)
      /\ \A types, id : Mentions(c2h, types, id) =>
           Mentions(c2h', types, id) \/ (c2h[1].type \in types /\ c2h[1].id = id)
      /\ HelloFirst(c2h')
      /\ c2h' # c2h => ~Greets(c2h', "Hello")
      /\ c2h # <<>> => Greets(c2h, c2h[1].type)
                       /\ \A types : c2h[1].type \in types => Mentions(c2h, types, c2h[1].id)
  <2>1. HelloFirst(c2h) /\ (c2h' = c2h \/ (c2h # <<>> /\ c2h' = Tail(c2h)))
    BY <1>2 DEF Shakes
  <2> QED
    BY <1>1, <2>1, SaysLess
<1>5. type = "Hello" => Greets(c2h, "Hello") /\ ~Greets(c2h', "Hello") /\ ~Greets(h2c, "HelloAck") /\ drv = "hello"
  <2>1. ASSUME type = "Hello" PROVE Greets(c2h, "Hello") /\ c2h' # c2h
    <3>1. c2h # <<>> /\ c2h' = Tail(c2h) /\ c2h[1].type = "Hello"
      BY <1>2, <2>1
    <3>2. Len(c2h') = Len(c2h) - 1 /\ Len(c2h) \in Nat
      BY <1>1, <3>1, TailAt
    <3>3. c2h' # c2h
      BY <3>2
    <3> QED
      BY <1>4, <3>1, <3>3
  <2> QED
    BY <1>4, <2>1 DEF Shakes
<1>6. /\ Greets(h2c', "HelloAck") => Greets(h2c, "HelloAck") \/ type = "Hello"
      /\ OneAck(h2c')
      /\ \A types, id : Mentions(h2c, types, id) => Mentions(h2c', types, id)
  <2>1. CASE h2c' = h2c
    BY <2>1 DEF Shakes
  <2>2. ASSUME NEW f \in Frame, h2c' = Append(h2c, f), f.type = "HelloAck" => type = "Hello"
        PROVE  /\ Greets(h2c', "HelloAck") => Greets(h2c, "HelloAck") \/ type = "Hello"
               /\ OneAck(h2c')
               /\ \A types, id : Mentions(h2c, types, id) => Mentions(h2c', types, id)
    <3>1. OneAck(h2c) /\ (f.type = "HelloAck" => ~Greets(h2c, "HelloAck"))
      BY <1>5, <2>2 DEF Shakes
    <3> QED
      BY <1>1, <2>2, <3>1, SaysOne
  <2> QED
    BY <2>1, <2>2 DEF Lands
<1>7. /\ drv' # "hello" => ~Greets(c2h', "Hello") /\ ~Greets(h2c', "HelloAck")
      /\ Greets(c2h', "Hello") => ~Greets(h2c', "HelloAck")
  <2>1. drv' # "hello" => ~Greets(c2h', "Hello") /\ ~Greets(h2c', "HelloAck")
    BY <1>1, <1>4, <1>5, <1>6 DEF Shakes
  <2>2. Greets(c2h', "Hello") => ~Greets(h2c', "HelloAck")
    BY <1>4, <1>5, <1>6 DEF Shakes
  <2> QED
    BY <2>1, <2>2
<1>8. ASSUME NEW id \in DOMAIN streams, KnownAt(id, Held, c2h, h2c),
             Greets(c2h, "Hello") => Mentions(c2h, {"Open"}, id)
      PROVE  KnownAt(id, Held', c2h', h2c')
  <2>1. CASE id \in DOMAIN Held \/ (type \in {"Open", "Resume"} /\ c2h[1].id = id)
    <3>1. \/ id \in DOMAIN Held' \/ Mentions(h2c', Refusals, id)
          \/ type = "Reset" /\ c2h[1].id = id
          \/ type = "Hello"
      BY <2>1 DEF Lands
    <3>2. ~(type = "Reset" /\ c2h[1].id = id)
      <4>1. ~Mentions(c2h, {"Reset"}, id)
        BY DEF Shakes
      <4> QED
        BY <1>2, <1>4, <4>1
    <3>3. ASSUME type = "Hello" PROVE Mentions(c2h', {"Open", "Resume"}, id)
      <4>1. Mentions(c2h, {"Open"}, id) /\ c2h[1].type = "Hello"
        BY <1>2, <1>5, <1>8, <3>3
      <4>2. Mentions(c2h', {"Open"}, id)
        BY <1>4, <4>1
      <4> QED
        BY <4>2 DEF Mentions
    <3> QED
      BY <3>1, <3>2, <3>3 DEF KnownAt
  <2>2. CASE Mentions(c2h, {"Open", "Resume"}, id) /\ ~(type \in {"Open", "Resume"} /\ c2h[1].id = id)
    <3>1. Mentions(c2h', {"Open", "Resume"}, id)
      BY <1>2, <1>4, <2>2
    <3> QED
      BY <3>1 DEF KnownAt
  <2>3. CASE Mentions(h2c, Refusals, id)
    BY <1>6, <2>3 DEF KnownAt
  <2> QED
    BY <1>8, <2>1, <2>2, <2>3 DEF KnownAt
<1>9. drv = "up" => \A id \in DOMAIN streams : KnownAt(id, Held', c2h', h2c')
  <2>1. drv = "up" => \A id \in DOMAIN streams :
          KnownAt(id, Held, c2h, h2c) /\ ~Greets(c2h, "Hello")
    BY DEF Shakes
  <2> QED
    BY <1>8, <2>1
<1>10. ASSUME drv = "hello", NEW id \in DOMAIN streams
       PROVE  NewIsKnown(id, streams[id], resuming, channel, Held', c2h', h2c')
  <2>1. NewIsKnown(id, streams[id], resuming, channel, Held, c2h, h2c)
    BY <1>10 DEF Shakes
  <2>2. ASSUME streams[id].born = channel PROVE KnownAt(id, Held', c2h', h2c')
    BY <1>8, <2>1, <2>2 DEF NewIsKnown
  <2>3. ASSUME Greets(c2h', "Hello"), streams[id].born = channel PROVE Mentions(c2h', {"Open"}, id)
    <3>1. c2h' = c2h
      BY <1>4, <2>3
    <3> QED
      BY <2>1, <2>3, <3>1 DEF NewIsKnown
  <2> QED
    BY <2>1, <2>2, <2>3 DEF NewIsKnown
<1>11. \A id \in DOMAIN streams : ~Mentions(c2h', {"Reset"}, id)
  BY <1>4 DEF Shakes
<1> QED
  BY <1>1, <1>3, <1>4, <1>6, <1>7, <1>9, <1>10, <1>11 DEF Shakes

\* The handshake at the start.
LEMMA ShakesInit == Init => Shakes
<1> SUFFICES ASSUME Init PROVE Shakes
  OBVIOUS
<1>1. drv = "wait" /\ c2h = <<>> /\ h2c = <<>> /\ DOMAIN streams = {}
  BY DEF Init, NoStreams
<1>2. /\ \A type : ~Greets(<<>>, type)
      /\ HelloFirst(<<>>) /\ OneAck(<<>>)
  BY DEF Greets, HelloFirst, OneAck
<1> QED
  BY <1>1, <1>2 DEF Shakes

\* The steps for one stream, and what of a channel they need.
LEMMA StreamSteps ==
  ASSUME Books, Bytes,
         \/ BufferData \/ BufferEof \/ BufferClose
         \/ HandleLocalData \/ HandleLocalEof \/ HandleLocalClose
         \/ ApplyAck \/ ApplyResumeOk \/ \E type \in {"OpenErr", "Reset", "ResumeErr"} : ApplyEnd(type)
  PROVE  \E id, out : StreamStep(id, out) /\ (drv = "wait" => UNCHANGED <<c2h, h2c>>)
<1>1. CASE BufferData \/ BufferEof \/ BufferClose
  <2>1. UNCHANGED <<c2h, h2c>>
    BY <1>1 DEF BufferData, BufferEof, BufferClose
  <2> QED
    BY <1>1, <2>1, OfflineSteps
<1>2. CASE HandleLocalData \/ HandleLocalEof \/ HandleLocalClose
  <2>1. drv # "wait"
    BY <1>2 DEF HandleLocalData, HandleLocalEof, HandleLocalClose, Online
  <2> QED
    BY <1>2, <2>1, CommandSteps
<1>3. CASE ApplyAck \/ ApplyResumeOk \/ \E type \in {"OpenErr", "Reset", "ResumeErr"} : ApplyEnd(type)
  <2>1. drv # "wait"
    BY <1>3 DEF ApplyAck, ApplyResumeOk, ApplyEnd
  <2> QED
    BY <1>3, <2>1, FrameSteps
<1> QED
  BY <1>1, <1>2, <1>3

\* The steps of the specification, in the groups the proofs treat alike.
LEMMA StepIs ==
  ASSUME Books, Books', Bytes, [Next]_vars
  PROVE  \/ \E r \in Request : Writes(r)
         \/ QueueOpen
         \/ UNCHANGED vars
         \/ (\E same \in Survives : Attach(same)) \/ Break \/ FrameTooEarly \/ ForeignVersion
         \/ \E id, out : StreamStep(id, out) /\ (drv = "wait" => UNCHANGED <<c2h, h2c>>)
         \/ HandleOpen
         \/ HandleHelloAck
         \/ Helper
<1>1. ASSUME NEW r \in Request, Dial(r) \/ Pump(r) PROVE Writes(r)
  BY <1>1, DialWrites, PumpWrites
<1>2. [Next]_vars =>
         \/ \E r \in Request : Dial(r) \/ Pump(r)
         \/ QueueOpen
         \/ UNCHANGED vars
         \/ (\E same \in Survives : Attach(same)) \/ Break \/ FrameTooEarly \/ ForeignVersion
         \/ \/ BufferData \/ BufferEof \/ BufferClose
            \/ HandleLocalData \/ HandleLocalEof \/ HandleLocalClose
            \/ ApplyAck \/ ApplyResumeOk \/ \E type \in {"OpenErr", "Reset", "ResumeErr"} : ApplyEnd(type)
         \/ HandleOpen
         \/ HandleHelloAck
         \/ Helper
  BY DEF Next, Driver, Offline, Commands, Frames
<1> QED
  BY <1>1, <1>2, StreamSteps

\* Every step keeps the handshake.
LEMMA ShakesStep ==
  ASSUME Books, Books', Bytes, Shakes, [Next]_vars
  PROVE  Shakes'
<1>1. ASSUME NEW r \in Request, Writes(r) PROVE Shakes'
  <2>1. UNCHANGED <<streams, drv, resuming, channel, c2h, h2c, helper>>
    BY <1>1 DEF Writes, clientVars
  <2> QED
    BY <2>1, ShakesStay
<1>2. CASE QueueOpen \/ UNCHANGED vars
  <2>1. UNCHANGED <<streams, drv, resuming, channel, c2h, h2c, helper>>
    BY <1>2 DEF QueueOpen, vars, clientVars
  <2> QED
    BY <2>1, ShakesStay
<1>3. CASE (\E same \in Survives : Attach(same)) \/ Break \/ FrameTooEarly \/ ForeignVersion
  BY <1>3, ChannelShakes
<1>4. ASSUME NEW id, NEW out, StreamStep(id, out), drv = "wait" => UNCHANGED <<c2h, h2c>> PROVE Shakes'
  BY <1>4, StreamStepShakes
<1>5. CASE HandleOpen
  BY <1>5, HandleOpenShakes
<1>6. CASE HandleHelloAck
  BY <1>6, HelloAckShakes
<1>7. CASE Helper
  <2>1. PICK type : ClientIdle /\ Lands(type)
    BY <1>7, HelperLands
  <2> QED
    BY <2>1, LandsShakes
<1> QED
  BY <1>1, <1>2, <1>3, <1>4, <1>5, <1>6, <1>7, StepIs

-----------------------------------------------------------------------------
(* Fin, step by step.                                                      *)

\* The parts of FinsFollow, for queues and helpers at large.
ArrivesIn(id, b, n, q, H) ==
  \/ id \in DOMAIN H /\ b <= Len(H[id].got)
  \/ \E j \in 1 .. n : Covers(q[j], id, b)

ReachesIn(id, q, H) == id \in DOMAIN H \/ Mentions(q, {"Open"}, id)

\* What the cursor of a stream passed was received or is on its way.
SentArrives(id, cursor, q, H) == \A b \in 1 .. cursor : ArrivesIn(id, b, Len(q), q, H)

\* So is what is in front of the frame at i, if it is a Fin.
FinArrives(i, a, q, H) ==
  q[i].type = "Fin" /\ ReachesIn(q[i].id, q, H) =>
    \A r \in Request : a[r].id = q[i].id =>
      \A b \in 1 .. a[r].wrote : ArrivesIn(q[i].id, b, i - 1, q, H)

EndsLast(h, a) == h.fin => Len(h.got) = a[h.req].wrote

Fins ==
  /\ drv # "wait" => helper.channels # 0
  /\ helper.channels = 0 => DOMAIN Held = {}
  /\ helper.channels = 1 => \A id \in DOMAIN Held : EndsLast(Held[id], app)
  /\ helper.channels = 1 /\ drv # "wait" =>
       /\ \A id \in DOMAIN streams :
            ReachesIn(id, c2h, Held) => SentArrives(id, streams[id].tx.cursor, c2h, Held)
       /\ \A i \in 1 .. Len(c2h) : FinArrives(i, app, c2h, Held)

\* What is wanted of Fin is part of what is kept.
LEMMA FinsIs == Fins => FinsFollow /\ FinIsLast
<1>1. \A id, b, n : Arrives(id, b, n) <=> ArrivesIn(id, b, n, c2h, Held)
  BY DEF Arrives, ArrivesIn
<1>2. \A id : Reaches(id) <=> ReachesIn(id, c2h, Held)
  BY DEF Reaches, ReachesIn
<1>3. Fins => FinsFollow
  BY <1>1, <1>2 DEF Fins, FinsFollow, SentArrives, FinArrives
<1>4. Fins => FinIsLast
  BY DEF Fins, FinIsLast, EndsLast
<1> QED
  BY <1>3, <1>4

\* What an application that has ended its side wrote stays what it wrote.
Settled ==
  \A r \in Request : app[r].id # 0 => app'[r].id = app[r].id /\ (app[r].shut => app'[r].wrote = app[r].wrote)

\* A stream that ended stays ended when requests go on.
LEMMA EndsStay ==
  ASSUME Books, Bytes, Settled, NEW id \in DOMAIN Held, EndsLast(Held[id], app)
  PROVE  EndsLast(Held[id], app')
<1>1. /\ Held[id].req \in Request /\ id # 0 /\ app[Held[id].req].id = id
      /\ Held[id].fin => app[Held[id].req].shut
  BY DEF Bytes, HeldIsExact, HelperTypes, HelperStream, Owns
<1>2. Held[id].fin => app'[Held[id].req].wrote = app[Held[id].req].wrote
  BY <1>1 DEF Settled
<1> QED
  BY <1>2 DEF EndsLast

\* What is before a Fin that was sent stays before it.
LEMMA FinStays ==
  ASSUME Books, Bytes, Settled, Grows, NEW i \in 1 .. Len(c2h), FinArrives(i, app, c2h, Held),
         NEW q, \A j \in 1 .. Len(c2h) : q[j] = c2h[j],
         ReachesIn(c2h[i].id, q, Held) => ReachesIn(c2h[i].id, c2h, Held)
  PROVE  FinArrives(i, app', q, Held)
<1> SUFFICES ASSUME q[i].type = "Fin", ReachesIn(q[i].id, q, Held),
                    NEW r \in Request, app'[r].id = q[i].id,
                    NEW b \in 1 .. app'[r].wrote
             PROVE  ArrivesIn(q[i].id, b, i - 1, q, Held)
  BY DEF FinArrives
<1>1. PICK f : f = c2h[i]
  OBVIOUS
<1>2. q[i] = f /\ f.type = "Fin" /\ ReachesIn(f.id, c2h, Held)
  BY <1>1
<1>3. AllExact
  BY AllExactIs DEF Bytes
<1>4. Exact(f, app, next_id)
  BY <1>1, <1>3 DEF AllExact
<1>5. f.id \in Allocated
  BY <1>2, <1>4 DEF Exact, Allocated
<1>6. app[r].id = f.id /\ f.id # 0
  BY <1>2, <1>5, IdFacts DEF Grows, Books, RequestOnce, IdsAreOwn
<1>7. app[r].shut
  BY <1>2, <1>4, <1>6 DEF Exact
<1>8. app'[r].wrote = app[r].wrote
  BY <1>6, <1>7 DEF Settled
<1>9. ArrivesIn(f.id, b, i - 1, c2h, Held)
  BY <1>1, <1>2, <1>6, <1>8 DEF FinArrives
<1>10. \A j \in 1 .. i - 1 : j \in 1 .. Len(c2h) /\ q[j] = c2h[j]
  <2>1. Len(c2h) \in Nat
    BY LenProperties DEF Bytes, FrameTypes
  <2> QED
    BY <2>1
<1> QED
  BY <1>2, <1>9, <1>10 DEF ArrivesIn

\* Steps that send nothing and move no cursor.
LEMMA FinsStay ==
  ASSUME Books, Bytes, Fins, Settled, Grows, UNCHANGED <<streams, drv, c2h, helper>>
  PROVE  Fins'
<1>1. Held' = Held
  BY DEF Held
<1>2. helper.channels = 1 => \A id \in DOMAIN Held' : EndsLast(Held'[id], app')
  BY <1>1, EndsStay DEF Fins
<1>3. helper.channels = 1 /\ drv # "wait" => \A i \in 1 .. Len(c2h) : FinArrives(i, app', c2h, Held)
  BY FinStays DEF Fins
<1> QED
  BY <1>1, <1>2, <1>3 DEF Fins

\* Telling pumps unsettles nothing.
LEMMA TellsSettle ==
  ASSUME Books, Tells, UNCHANGED next_id
  PROVE  Settled /\ Grows
BY TellsGrow DEF Settled, Tells, Alike

\* Nor does a step of a request.
LEMMA WritesSettle ==
  ASSUME Books, NEW r \in Request, Writes(r)
  PROVE  Settled /\ Grows
<1>1. /\ Grows
      /\ \A q \in Request : app'[q].id = app[q].id /\ (q # r => app'[q] = app[q])
  BY WritesGrow
<1>2. app[r].shut => app'[r].wrote = app[r].wrote
  BY DEF Writes, PumpCommand
<1> QED
  BY <1>1, <1>2 DEF Settled

\* Nor does opening.
LEMMA OpensSettle ==
  ASSUME Books, Books', NEW ss, NEW a, NEW out, NEW reqs, Opens(ss, a, out, reqs)
  PROVE  Settled /\ Grows
BY OpensIds DEF Settled

\* What arrives goes on arriving when frames are added.
LEMMA ArrivesStill ==
  ASSUME NEW q \in Seq(Frame), NEW out \in Seq(Frame), NEW t, t = q \o out, NEW H, NEW id, NEW b,
         ArrivesIn(id, b, Len(q), q, H)
  PROVE  \A n \in Nat : n >= Len(q) => ArrivesIn(id, b, n, t, H)
<1>1. /\ Len(q) \in Nat /\ \A j \in 1 .. Len(q) : t[j] = q[j]
  BY Chained
<1>2. \A n \in Nat : n >= Len(q) => \A j \in 1 .. Len(q) : j \in 1 .. n
  BY <1>1
<1> QED
  BY <1>1, <1>2 DEF ArrivesIn

\* A stream that goes on: what its cursor passed is in front of its Fin.
LEMMA StreamStepArrives ==
  ASSUME Books, Bytes, Fins, helper.channels = 1, drv # "wait",
         NEW id, NEW out, StreamStep(id, out), GoesOn(id, out), ReachesIn(id, c2h, Held)
  PROVE  /\ SentArrives(id, streams'[id].tx.cursor, c2h', Held)
         /\ \A m \in 1 .. Len(out) : FinArrives(Len(c2h) + m, app', c2h', Held)
<1>1. /\ out \in Seq(Frame) /\ c2h \in Seq(Frame) /\ c2h' = c2h \o out
      /\ \A i \in 1 .. Len(out) : FrameFits(out[i], id)
      /\ Tells /\ id \in Allocated
  BY DEF StreamStep, Bytes, FrameTypes
<1>2. /\ Len(c2h) \in Nat /\ Len(out) \in Nat /\ Len(c2h') = Len(c2h) + Len(out)
      /\ \A i \in 1 .. Len(out) : c2h'[Len(c2h) + i] = out[i]
  BY <1>1, Chained
<1>3. PICK u, t : /\ id \in DOMAIN streams /\ Turned(id, streams[id], u, cmds')
                  /\ Became(id, t) /\ Fits(id, t, app) /\ SameStream(u, t)
                  /\ t.tx.acked = u.tx.acked /\ Brings(out, id, u, t)
  BY DEF GoesOn
<1>4. /\ t.tx.cursor \in Nat /\ u.tx.cursor \in Nat /\ t.req \in Request /\ app[t.req].id = id /\ id # 0
  BY <1>3, StreamFields DEF Fits, Turned
<1>5. PICK c \in Nat, d \in Nat, k \in Nat : c = u.tx.cursor /\ d = t.tx.cursor /\ k = Len(c2h)
  BY <1>2, <1>4
<1>6. ASSUME NEW b \in 1 .. c PROVE ArrivesIn(id, b, k, c2h, Held)
  <2>1. b <= streams[id].tx.cursor \/ (id \in DOMAIN Held /\ b <= Len(Held[id].got)) \/ ~Reaches(id)
    BY <1>3, <1>5 DEF Turned
  <2>2. Reaches(id)
    BY DEF ReachesIn, Reaches
  <2>3. ASSUME b <= streams[id].tx.cursor PROVE ArrivesIn(id, b, k, c2h, Held)
    <3>1. SentArrives(id, streams[id].tx.cursor, c2h, Held)
      BY <1>3 DEF Fins
    <3>2. streams[id].tx.cursor \in Nat
      BY <1>3, StreamIs
    <3>3. b \in 1 .. streams[id].tx.cursor
      BY <2>3, <3>2
    <3> QED
      BY <1>5, <3>1, <3>3 DEF SentArrives
  <2> QED
    BY <2>1, <2>2, <2>3 DEF ArrivesIn
<1>7. ASSUME NEW b \in 1 .. d, ~(b \in 1 .. c) PROVE \E i \in 1 .. Len(out) : Covers(out[i], id, b)
  <2>1. b \in c + 1 .. d
    BY <1>5, <1>7
  <2> QED
    BY <1>3, <1>5, <2>1 DEF Brings
<1>8. SentArrives(id, d, c2h', Held)
  <2> SUFFICES ASSUME NEW b \in 1 .. d PROVE ArrivesIn(id, b, Len(c2h'), c2h', Held)
    BY DEF SentArrives
  <2>1. CASE b \in 1 .. c
    <3>1. Len(c2h') \in Nat /\ Len(c2h') >= Len(c2h) /\ ArrivesIn(id, b, Len(c2h), c2h, Held)
      BY <1>2, <1>5, <1>6, <2>1
    <3> QED
      BY <1>1, <3>1, ArrivesStill
  <2>2. CASE ~(b \in 1 .. c)
    <3>1. PICK i \in 1 .. Len(out) : Covers(out[i], id, b)
      BY <1>7, <2>2
    <3>2. Len(c2h) + i \in 1 .. Len(c2h') /\ c2h'[Len(c2h) + i] = out[i]
      BY <1>2
    <3> QED
      BY <3>1, <3>2 DEF ArrivesIn
  <2> QED
    BY <2>1, <2>2
<1>9. ASSUME NEW m \in 1 .. Len(out) PROVE FinArrives(k + m, app', c2h', Held)
  <2> SUFFICES ASSUME c2h'[k + m].type = "Fin",
                      NEW r \in Request, app'[r].id = c2h'[k + m].id, NEW b \in 1 .. app'[r].wrote
               PROVE  ArrivesIn(c2h'[k + m].id, b, k + m - 1, c2h', Held)
    BY DEF FinArrives
  <2>1. c2h'[k + m] = out[m] /\ out[m].type = "Fin" /\ out[m].id = id
    BY <1>1, <1>2, <1>5 DEF FrameFits
  <2>2. m = Len(out) /\ d = app[t.req].wrote
    BY <1>3, <1>5, <2>1 DEF Brings
  <2>3. app'[r].id = app[r].id /\ app'[r].wrote = app[r].wrote
    BY <1>1 DEF Tells, Alike
  <2>4. r = t.req
    BY <1>4, <2>1, <2>3 DEF Books, RequestOnce, IdsAreOwn
  <2>5. b \in 1 .. d
    BY <2>2, <2>3, <2>4
  <2>6. k + m - 1 \in Nat /\ k + m - 1 >= k
    BY <1>2, <1>5
  <2>7. CASE b \in 1 .. c
    <3>1. ArrivesIn(id, b, Len(c2h), c2h, Held) /\ k + m - 1 >= Len(c2h)
      BY <1>5, <1>6, <2>6, <2>7
    <3>2. \A n \in Nat : n >= Len(c2h) => ArrivesIn(id, b, n, c2h', Held)
      BY <1>1, <3>1, ArrivesStill
    <3> QED
      BY <2>1, <2>6, <3>1, <3>2
  <2>8. CASE ~(b \in 1 .. c)
    <3>1. PICK i \in 1 .. Len(out) : Covers(out[i], id, b)
      BY <1>7, <2>5, <2>8
    <3>2. out[i].type = "Data"
      BY <3>1 DEF Covers
    <3>3. i # m
      BY <2>1, <3>2
    <3>4. k + i \in 1 .. k + m - 1 /\ c2h'[k + i] = out[i]
      BY <1>2, <1>5, <2>2, <3>3
    <3> QED
      BY <2>1, <3>1, <3>4 DEF ArrivesIn
  <2> QED
    BY <2>7, <2>8
<1>10. streams'[id].tx.cursor = d
  BY <1>3, <1>5 DEF Became
<1> QED
  BY <1>5, <1>8, <1>9, <1>10

\* A step of one stream keeps Fin behind the last byte.
LEMMA StreamStepFins ==
  ASSUME Books, Bytes, Fins, NEW id, NEW out, StreamStep(id, out)
  PROVE  Fins'
<1>1. /\ out \in Seq(Frame) /\ c2h' = c2h \o out /\ \A i \in 1 .. Len(out) : FrameFits(out[i], id)
      /\ UNCHANGED <<next_id, drv, helper>> /\ Tells
      /\ GoesOn(id, out) \/ Forgets(id, out)
      /\ c2h \in Seq(Frame)
  BY DEF StreamStep, Bytes, FrameTypes
<1>2. Held' = Held /\ Settled /\ Grows
  <2>1. Held' = Held
    BY <1>1 DEF Held
  <2>2. Settled /\ Grows
    BY <1>1, TellsSettle
  <2> QED
    BY <2>1, <2>2
<1>3. helper.channels = 1 => \A j \in DOMAIN Held' : EndsLast(Held'[j], app')
  BY <1>2, EndsStay DEF Fins
<1>4. /\ Len(c2h) \in Nat /\ Len(out) \in Nat /\ Len(c2h') = Len(c2h) + Len(out)
      /\ \A i \in 1 .. Len(c2h) : c2h'[i] = c2h[i]
      /\ \A i \in 1 .. Len(out) : c2h'[Len(c2h) + i] = out[i]
  BY <1>1, Chained
<1>5. \A j : ReachesIn(j, c2h', Held) => ReachesIn(j, c2h, Held)
  <2>1. \A j : ~Mentions(out, {"Open"}, j)
    BY <1>1 DEF Mentions, FrameFits
  <2>2. \A j : Mentions(c2h', {"Open"}, j) => Mentions(c2h, {"Open"}, j)
    BY <1>1, <2>1, SaysMore
  <2> QED
    BY <2>2 DEF ReachesIn
<1>6. ASSUME helper.channels = 1, drv # "wait"
      PROVE  /\ \A j \in DOMAIN streams' :
                  ReachesIn(j, c2h', Held) => SentArrives(j, streams'[j].tx.cursor, c2h', Held)
             /\ \A i \in 1 .. Len(c2h') : FinArrives(i, app', c2h', Held)
  <2>1. ASSUME NEW j \in DOMAIN streams, ReachesIn(j, c2h, Held)
        PROVE  SentArrives(j, streams[j].tx.cursor, c2h', Held)
    <3>1. \A b \in 1 .. streams[j].tx.cursor : ArrivesIn(j, b, Len(c2h), c2h, Held)
      BY <1>6, <2>1 DEF Fins, SentArrives
    <3>2. Len(c2h') \in Nat /\ Len(c2h') >= Len(c2h)
      BY <1>4
    <3>3. ASSUME NEW b \in 1 .. streams[j].tx.cursor PROVE ArrivesIn(j, b, Len(c2h'), c2h', Held)
      BY <1>1, <3>1, <3>2, ArrivesStill
    <3> QED
      BY <3>3 DEF SentArrives
  <2>2. ASSUME NEW j \in DOMAIN streams', ReachesIn(j, c2h', Held)
        PROVE  SentArrives(j, streams'[j].tx.cursor, c2h', Held)
    <3>1. ReachesIn(j, c2h, Held)
      BY <1>5, <2>2
    <3>2. CASE GoesOn(id, out) /\ j = id
      BY <1>6, <3>1, <3>2, StreamStepArrives
    <3>3. CASE ~(GoesOn(id, out) /\ j = id)
      <4>1. j \in DOMAIN streams /\ streams'[j] = streams[j]
        BY <1>1, <2>2, <3>3 DEF GoesOn, Became, Forgets
      <4> QED
        BY <2>1, <3>1, <4>1
    <3> QED
      BY <3>2, <3>3
  <2>3. ASSUME NEW i \in 1 .. Len(c2h) PROVE FinArrives(i, app', c2h', Held)
    <3>1. FinArrives(i, app, c2h, Held)
      BY <1>6 DEF Fins
    <3> QED
      BY <1>2, <1>4, <1>5, <3>1, FinStays
  <2>4. ASSUME NEW m \in 1 .. Len(out) PROVE FinArrives(Len(c2h) + m, app', c2h', Held)
    <3>1. CASE GoesOn(id, out) /\ ReachesIn(id, c2h, Held)
      BY <1>6, <3>1, StreamStepArrives
    <3>2. CASE Forgets(id, out)
      <4>1. c2h'[Len(c2h) + m].type = "Reset"
        BY <1>4, <3>2 DEF Forgets
      <4> QED
        BY <4>1 DEF FinArrives
    <3>3. CASE ~ReachesIn(id, c2h, Held)
      <4>1. c2h'[Len(c2h) + m].id = id
        BY <1>1, <1>4 DEF FrameFits
      <4> QED
        BY <1>5, <3>3, <4>1 DEF FinArrives
    <3> QED
      BY <1>1, <3>1, <3>2, <3>3
  <2>5. ASSUME NEW i \in 1 .. Len(c2h') PROVE FinArrives(i, app', c2h', Held)
    <3>1. CASE i \in 1 .. Len(c2h)
      BY <2>3, <3>1
    <3>2. CASE i \notin 1 .. Len(c2h)
      <4>1. PICK m \in 1 .. Len(out) : i = Len(c2h) + m
        <5>1. i - Len(c2h) \in 1 .. Len(out) /\ i = Len(c2h) + (i - Len(c2h))
          BY <1>4, <3>2
        <5> QED
          BY <5>1
      <4> QED
        BY <2>4, <4>1
    <3> QED
      BY <3>1, <3>2
  <2> QED
    BY <2>2, <2>5
<1>7. /\ helper'.channels = 1 => helper.channels = 1
      /\ drv' # "wait" => helper'.channels # 0
      /\ helper'.channels = 0 => DOMAIN Held' = {}
  BY <1>1, <1>2 DEF Fins
<1>8. helper'.channels = 1 /\ drv' # "wait" =>
        /\ \A j \in DOMAIN streams' :
             ReachesIn(j, c2h', Held') => SentArrives(j, streams'[j].tx.cursor, c2h', Held')
        /\ \A i \in 1 .. Len(c2h') : FinArrives(i, app', c2h', Held')
  BY <1>1, <1>2, <1>6
<1> QED
  BY <1>3, <1>7, <1>8 DEF Fins

\* Opening does.
LEMMA OpensFins ==
  ASSUME Books, Books', Bytes, Fins, NEW ss, NEW a, NEW out, NEW reqs, Opens(ss, a, out, reqs),
         drv # "wait", drv' # "wait"
  PROVE  Fins'
<1>1. /\ helper' = helper /\ Held' = Held /\ Settled /\ Grows
  BY OpensSettle DEF Opens, Held
<1>2. helper.channels = 1 => \A j \in DOMAIN Held' : EndsLast(Held'[j], app')
  BY <1>1, EndsStay DEF Fins
<1>3. /\ \A i \in 1 .. Len(c2h) : c2h'[i] = c2h[i] /\ i \in 1 .. Len(c2h') /\ c2h[i] \in Frame
      /\ \A i \in 1 .. Len(out) : \E m \in 1 .. Len(c2h') : c2h'[m] = out[i]
      /\ \A i \in 1 .. Len(reqs) : \E m \in 1 .. Len(c2h') : c2h'[m] = OpenFrame(next_id + i - 1, reqs[i])
      /\ \A i \in 1 .. Len(c2h') :
           \/ i \in 1 .. Len(c2h)
           \/ ResumeFrame(c2h'[i])
           \/ \E m \in 1 .. Len(reqs) : c2h'[i] = OpenFrame(next_id + m - 1, reqs[m])
  <2>1. Sends(out, reqs)
    BY OpensSends
  <2> QED
    BY <2>1 DEF Sends
<1>4. /\ next_id \in Nat /\ Len(reqs) \in Nat /\ next_id' = next_id + Len(reqs)
      /\ \A id : id \in Allocated <=> id \in Nat /\ 1 <= id /\ id < next_id
  BY OpensIds
<1>5. ASSUME NEW i \in 1 .. Len(c2h'), i \notin 1 .. Len(c2h)
      PROVE  c2h'[i].type # "Fin" /\ (c2h'[i].type = "Open" => c2h'[i].id \notin Allocated)
  <2>1. CASE ResumeFrame(c2h'[i])
    BY <2>1 DEF ResumeFrame
  <2>2. CASE \E m \in 1 .. Len(reqs) : c2h'[i] = OpenFrame(next_id + m - 1, reqs[m])
    <3>1. PICK m \in 1 .. Len(reqs) : c2h'[i] = OpenFrame(next_id + m - 1, reqs[m])
      BY <2>2
    <3>2. PICK j : j = next_id + m - 1
      OBVIOUS
    <3>3. j \notin Allocated
      BY <1>4, <3>2
    <3>4. c2h'[i] = OpenFrame(j, reqs[m])
      BY <3>1, <3>2
    <3> QED
      BY <3>3, <3>4 DEF OpenFrame
  <2> QED
    BY <1>3, <1>5, <2>1, <2>2
<1>6. \A j \in Allocated : ReachesIn(j, c2h', Held) => ReachesIn(j, c2h, Held)
  <2>1. ASSUME NEW j \in Allocated, Mentions(c2h', {"Open"}, j) PROVE Mentions(c2h, {"Open"}, j)
    <3>1. PICK i \in 1 .. Len(c2h') : c2h'[i].type = "Open" /\ c2h'[i].id = j
      BY <2>1 DEF Mentions
    <3>2. i \in 1 .. Len(c2h)
      BY <1>5, <2>1, <3>1
    <3> QED
      BY <1>3, <3>1, <3>2 DEF Mentions
  <2> QED
    BY <2>1 DEF ReachesIn
<1>7. ASSUME helper.channels = 1
      PROVE  /\ \A j \in DOMAIN streams' :
                  ReachesIn(j, c2h', Held) => SentArrives(j, streams'[j].tx.cursor, c2h', Held)
             /\ \A i \in 1 .. Len(c2h') : FinArrives(i, app', c2h', Held)
  <2>1. ASSUME NEW j \in DOMAIN streams', ReachesIn(j, c2h', Held)
        PROVE  SentArrives(j, streams'[j].tx.cursor, c2h', Held)
    <3>1. CASE j \in DOMAIN ss
      <4>1. j \in DOMAIN streams /\ streams'[j] = streams[j] /\ j \in Allocated
        BY <3>1 DEF Opens, Opened, Books
      <4>2. SentArrives(j, streams[j].tx.cursor, c2h, Held)
        BY <1>6, <1>7, <2>1, <4>1 DEF Fins
      <4>3. \A i \in 1 .. Len(c2h) : i \in 1 .. Len(c2h') /\ c2h'[i] = c2h[i]
        BY <1>3
      <4> QED
        BY <4>1, <4>2, <4>3 DEF SentArrives, ArrivesIn
    <3>2. CASE j \notin DOMAIN ss
      <4>1. j \in Nat /\ next_id <= j /\ j < next_id'
        BY <3>2 DEF Opens, Opened
      <4>2. PICK i \in 1 .. Len(reqs) : next_id + i - 1 = j
        <5>1. j - next_id + 1 \in 1 .. Len(reqs) /\ next_id + (j - next_id + 1) - 1 = j
          BY <1>4, <4>1
        <5> QED
          BY <5>1
      <4>3. streams'[j] = NewStream(reqs[i])
        BY <4>2 DEF Opens, Opened
      <4>4. streams'[j].tx.cursor = 0
        BY <4>3 DEF NewStream, NewSendBuffer
      <4> QED
        BY <4>4 DEF SentArrives
    <3> QED
      BY <3>1, <3>2
  <2>2. ASSUME NEW i \in 1 .. Len(c2h') PROVE FinArrives(i, app', c2h', Held)
    <3>1. CASE i \in 1 .. Len(c2h)
      <4>1. FinArrives(i, app, c2h, Held)
        BY <1>7, <3>1 DEF Fins
      <4>2. c2h[i].type # "Fin" \/ c2h[i].id \in Allocated
        <5>1. AllExact
          BY AllExactIs DEF Bytes
        <5> QED
          BY <3>1, <5>1 DEF AllExact, Exact, Allocated
      <4>3. CASE c2h[i].type # "Fin"
        BY <1>3, <3>1, <4>3 DEF FinArrives
      <4>4. CASE c2h[i].id \in Allocated
        BY <1>1, <1>3, <1>6, <3>1, <4>1, <4>4, FinStays
      <4> QED
        BY <4>2, <4>3, <4>4
    <3>2. CASE i \notin 1 .. Len(c2h)
      BY <1>5, <3>2 DEF FinArrives
    <3> QED
      BY <3>1, <3>2
  <2> QED
    BY <2>1, <2>2
<1> QED
  BY <1>1, <1>2, <1>7 DEF Fins

\* A helper meets its first channel with no streams.
LEMMA ChannelFins ==
  ASSUME Books, Bytes, Fins,
         (\E same \in Survives : Attach(same)) \/ Break \/ FrameTooEarly \/ ForeignVersion
  PROVE  Fins'
<1>1. ASSUME NEW same \in Survives, Attach(same) PROVE Fins'
  <2>1. PICK h : h = IF same THEN helper ELSE FreshHelper
    OBVIOUS
  <2>2. /\ DOMAIN h = {"session", "streams", "channels"} /\ h.channels \in Nat
        /\ h.channels = 0 => DOMAIN h.streams = {}
    <3>1. CASE h = helper
      BY <3>1 DEF Bytes, HelperTypes, Fins, Held
    <3>2. CASE h = FreshHelper
      BY <3>2 DEF FreshHelper, NoStreams
    <3> QED
      BY <2>1, <3>1, <3>2
  <2>3. helper' = [h EXCEPT !.channels = @ + 1]
    BY <1>1, <2>1 DEF Attach
  <2>4. helper'.channels = h.channels + 1 /\ helper'.streams = h.streams
    BY <2>2, <2>3
  <2>5. helper'.channels # 0 /\ (helper'.channels = 1 => DOMAIN Held' = {})
    BY <2>2, <2>4 DEF Held
  <2>6. PICK f : f = [type |-> "Hello", resume |-> resuming']
    OBVIOUS
  <2>7. c2h' = <<f>> /\ f.type = "Hello"
    BY <1>1, <2>6 DEF Attach
  <2>8. \A id : ~Mentions(c2h', {"Open"}, id)
    BY <2>7 DEF Mentions
  <2>9. \A i \in 1 .. Len(c2h') : c2h'[i].type # "Fin"
    BY <2>7
  <2> QED
    BY <2>5, <2>8, <2>9 DEF Fins, ReachesIn, FinArrives
<1>2. CASE Break \/ FrameTooEarly
  <2>1. drv' = "wait" /\ UNCHANGED <<app, helper>> /\ Held' = Held
    BY <1>2 DEF Break, FrameTooEarly, Held
  <2> QED
    BY <2>1 DEF Fins
<1>3. CASE ForeignVersion
  <2>1. drv' = "wait" /\ helper' = FreshHelper
    BY <1>3 DEF ForeignVersion
  <2>2. DOMAIN Held' = {}
    BY <2>1 DEF Held, FreshHelper, NoStreams
  <2> QED
    BY <2>1, <2>2 DEF Fins
<1> QED
  BY <1>1, <1>2, <1>3

\* What was received or is on its way is so after a step of the helper, one place
\* further: Open is the first frame of a stream, so none is taken before it.
LEMMA LandsArrive ==
  ASSUME Books, Bytes, Serves, NEW type, Lands(type),
         NEW id, ReachesIn(id, c2h', Held'), NEW b \in Nat, NEW n \in Nat, n <= Len(c2h),
         ArrivesIn(id, b, n, c2h, Held)
  PROVE  /\ c2h' = c2h => ArrivesIn(id, b, n, c2h', Held')
         /\ c2h' # c2h => ArrivesIn(id, b, n - 1, c2h', Held')
<1>1. /\ c2h \in Seq(Frame) /\ HelperTypes /\ HelperTypes' /\ AllExact
  BY AllExactIs DEF Bytes, FrameTypes, Serves
<1>2. c2h' = c2h \/ (c2h # <<>> /\ c2h[1].type = type /\ c2h' = Tail(c2h))
  BY DEF Lands, TakesFrame
<1>3. \A types, j : Mentions(c2h', types, j) => Mentions(c2h, types, j)
  <2>1. c2h' = c2h \/ (c2h # <<>> /\ c2h' = Tail(c2h))
    BY <1>2
  <2> QED
    BY <1>1, <2>1, SaysLess
<1>4. CASE id \in DOMAIN Held /\ b <= Len(Held[id].got)
  <2>1. ~Mentions(c2h, {"Open"}, id)
    BY <1>1, <1>4 DEF AllExact, First, Mentions
  <2>2. id \in DOMAIN Held'
    BY <1>3, <2>1 DEF ReachesIn
  <2>3. Len(Held[id].got) <= Len(Held'[id].got)
    BY <1>4, <2>2 DEF Serves
  <2>4. Len(Held[id].got) \in Nat /\ Len(Held'[id].got) \in Nat
    BY <1>1, <1>4, <2>2, LenProperties DEF HelperTypes, HelperStream
  <2>5. b <= Len(Held'[id].got)
    BY <1>4, <2>3, <2>4
  <2> QED
    BY <2>2, <2>5 DEF ArrivesIn
<1>5. CASE \E j \in 1 .. n : Covers(c2h[j], id, b)
  <2>1. PICK j \in 1 .. n : Covers(c2h[j], id, b)
    BY <1>5
  <2>2. CASE c2h' = c2h
    BY <2>1, <2>2 DEF ArrivesIn
  <2>3. CASE c2h' # c2h /\ j # 1
    <3>1. j - 1 \in 1 .. n - 1 /\ j \in 1 .. Len(c2h)
      <4>1. Len(c2h) \in Nat
        BY <1>1, LenProperties
      <4> QED
        BY <2>1, <2>3, <4>1
    <3>2. c2h'[j - 1] = c2h[j]
      BY <1>1, <1>2, <2>3, <3>1, TailAt
    <3> QED
      BY <2>1, <2>3, <3>1, <3>2 DEF ArrivesIn
  <2>4. CASE c2h' # c2h /\ j = 1
    <3>1. PICK f : f = c2h[1]
      OBVIOUS
    <3>2. f.type = "Data" /\ f.id = id /\ b <= f.offset + Len(f.data) /\ type = "Data"
      BY <1>2, <2>1, <2>4, <3>1 DEF Covers
    <3>3. f \in Frame /\ 1 \in 1 .. Len(c2h)
      BY <1>1, <1>2, <2>4, <3>1, TailAt
    <3>4. CASE id \in DOMAIN Held'
      <4>1. f.offset + Len(f.data) <= Len(Held'[id].got)
        BY <3>1, <3>2, <3>4 DEF Lands
      <4>2. f.offset + Len(f.data) \in Nat /\ Len(Held'[id].got) \in Nat
        BY <1>1, <3>2, <3>3, <3>4, FrameFields, LenProperties DEF HelperTypes, HelperStream
      <4>3. b <= Len(Held'[id].got)
        BY <3>2, <4>1, <4>2
      <4> QED
        BY <3>4, <4>3 DEF ArrivesIn
    <3>5. CASE id \notin DOMAIN Held'
      <4>1. Mentions(c2h, {"Open"}, id)
        BY <1>3, <3>5 DEF ReachesIn
      <4>2. PICK k \in 1 .. Len(c2h) : c2h[k].type = "Open" /\ c2h[k].id = id
        BY <4>1 DEF Mentions
      <4>3. Len(c2h) \in Nat
        BY <1>1, LenProperties
      <4>4. k # 1
        BY <3>1, <3>2, <4>2
      <4>5. 1 \in 1 .. k - 1
        BY <4>2, <4>3, <4>4
      <4>6. First(c2h, k, Held, streams)
        BY <1>1, <4>2 DEF AllExact
      <4>7. c2h[1].id # id
        BY <3>1, <3>2, <4>2, <4>5, <4>6 DEF First
      <4> QED
        BY <3>1, <3>2, <4>7
    <3> QED
      BY <3>4, <3>5
  <2> QED
    BY <2>2, <2>3, <2>4
<1> QED
  BY <1>4, <1>5 DEF ArrivesIn

\* A frame that the helper takes does.
LEMMA LandsFins ==
  ASSUME Books, Bytes, Shakes, Fins, Serves, NEW type, Lands(type)
  PROVE  Fins'
<1>1. /\ UNCHANGED <<app, streams, drv>> /\ c2h \in Seq(Frame) /\ HelperTypes /\ HelperTypes'
      /\ HeldIsExact /\ HeldIsExact'
  BY DEF Serves, ClientIdle, clientVars, Bytes, FrameTypes
<1>2. (c2h' = c2h /\ drv # "wait" /\ type = "none") \/ (c2h # <<>> /\ c2h[1].type = type /\ c2h' = Tail(c2h))
  BY DEF Lands, TakesFrame
<1>3. drv # "wait" /\ helper'.channels = helper.channels /\ helper.channels # 0
  BY <1>2 DEF Shakes, Fins, Lands
<1>4. PICK n \in Nat, m \in Nat : n = Len(c2h) /\ m = Len(c2h')
  BY <1>1, <1>2, LenProperties, TailAt
<1>5. /\ c2h' = c2h => m = n
      /\ c2h' # c2h => m = n - 1 /\ 1 \in 1 .. n
      /\ \A i \in 1 .. m : \/ c2h' = c2h /\ i \in 1 .. n /\ c2h'[i] = c2h[i]
                           \/ c2h' # c2h /\ i + 1 \in 1 .. n /\ c2h'[i] = c2h[i + 1]
  <2>1. CASE c2h' = c2h
    BY <1>4, <2>1
  <2>2. CASE c2h' # c2h
    <3>1. m = n - 1 /\ 1 \in 1 .. n
      BY <1>1, <1>2, <1>4, <2>2, TailAt
    <3>2. \A i \in 1 .. m : i + 1 \in 1 .. n /\ c2h'[i] = c2h[i + 1]
      BY <1>1, <1>2, <1>4, <2>2, TailAt
    <3> QED
      BY <2>2, <3>1, <3>2
  <2> QED
    BY <2>1, <2>2
<1>6. \A id : ReachesIn(id, c2h', Held') => ReachesIn(id, c2h, Held)
  <2>1. c2h' = c2h \/ (c2h # <<>> /\ c2h' = Tail(c2h))
    BY <1>2
  <2>2. \A types, id : Mentions(c2h', types, id) => Mentions(c2h, types, id)
    BY <1>1, <2>1, SaysLess
  <2>3. ASSUME NEW id \in DOMAIN Held', id \notin DOMAIN Held PROVE Mentions(c2h, {"Open"}, id)
    <3>1. c2h # <<>> /\ c2h[1].type = "Open" /\ c2h[1].id = id
      BY <2>3 DEF Serves, TakesFrame
    <3>2. \A types : c2h[1].type \in types => Mentions(c2h, types, c2h[1].id)
      BY <1>1, <3>1, SaysLess
    <3> QED
      BY <3>1, <3>2
  <2> QED
    BY <2>2, <2>3 DEF ReachesIn
<1>7. ASSUME helper.channels = 1, NEW id \in DOMAIN streams, ReachesIn(id, c2h', Held')
      PROVE  SentArrives(id, streams[id].tx.cursor, c2h', Held')
  <2> SUFFICES ASSUME NEW b \in 1 .. streams[id].tx.cursor PROVE ArrivesIn(id, b, Len(c2h'), c2h', Held')
    BY DEF SentArrives
  <2>1. b \in Nat
    <3>1. streams[id].tx.cursor \in Nat
      BY StreamIs
    <3> QED
      BY <3>1
  <2>2. ReachesIn(id, c2h, Held)
    BY <1>6, <1>7
  <2>3. ArrivesIn(id, b, n, c2h, Held) /\ n <= Len(c2h)
    BY <1>3, <1>4, <1>7, <2>2 DEF Fins, SentArrives
  <2>4. /\ c2h' = c2h => ArrivesIn(id, b, n, c2h', Held')
        /\ c2h' # c2h => ArrivesIn(id, b, n - 1, c2h', Held')
    BY <1>7, <2>1, <2>3, LandsArrive
  <2> QED
    BY <1>4, <1>5, <2>4
<1>8. ASSUME helper.channels = 1, NEW i \in 1 .. m
      PROVE  FinArrives(i, app, c2h', Held')
  <2>1. PICK f : f = c2h'[i]
    OBVIOUS
  <2>2. PICK k \in 1 .. n : /\ c2h[k] = f
                            /\ c2h' = c2h => k = i
                            /\ c2h' # c2h => k = i + 1
    BY <1>5, <2>1
  <2> SUFFICES ASSUME f.type = "Fin", ReachesIn(f.id, c2h', Held'),
                      NEW r \in Request, app[r].id = f.id, NEW b \in 1 .. app[r].wrote
               PROVE  ArrivesIn(f.id, b, i - 1, c2h', Held')
    BY <2>1 DEF FinArrives
  <2>3. FinArrives(k, app, c2h, Held)
    BY <1>3, <1>4, <1>8 DEF Fins
  <2>4. ArrivesIn(f.id, b, k - 1, c2h, Held)
    BY <1>6, <2>2, <2>3 DEF FinArrives
  <2>5. b \in Nat
    <3>1. app[r].wrote \in Nat
      BY AppFields DEF Books
    <3> QED
      BY <3>1
  <2>6. PICK l \in Nat : l = k - 1
    <3>1. k - 1 \in Nat
      BY <2>2
    <3> QED
      BY <3>1
  <2>7. l <= Len(c2h) /\ ArrivesIn(f.id, b, l, c2h, Held)
    BY <1>4, <2>2, <2>4, <2>6
  <2>8. /\ c2h' = c2h => ArrivesIn(f.id, b, l, c2h', Held')
        /\ c2h' # c2h => ArrivesIn(f.id, b, l - 1, c2h', Held')
    BY <2>5, <2>7, LandsArrive
  <2>9. /\ c2h' = c2h => l = i - 1
        /\ c2h' # c2h => l - 1 = i - 1
    BY <1>4, <2>2, <2>6
  <2> QED
    BY <2>8, <2>9
<1>9. ASSUME helper.channels = 1, NEW id \in DOMAIN Held', Held'[id].fin
      PROVE  Len(Held'[id].got) = app[Held'[id].req].wrote
  <2>1. id \in DOMAIN Held /\ Held'[id].req = Held[id].req
        /\ (Held[id].fin \/ (type = "Fin" /\ c2h[1].id = id))
    BY <1>9 DEF Lands
  <2>2. PICK r : r = Held[id].req
    OBVIOUS
  <2>3. /\ r \in Request /\ app[r].id = id
    BY <1>1, <2>1, <2>2 DEF HeldIsExact, Owns, HelperTypes, HelperStream
  <2>4. PICK w \in Nat, g \in Nat, h \in Nat : w = app[r].wrote /\ g = Len(Held[id].got) /\ h = Len(Held'[id].got)
    <3>1. app[r].wrote \in Nat
      BY <2>3, AppFields DEF Books
    <3>2. Len(Held[id].got) \in Nat /\ Len(Held'[id].got) \in Nat
      BY <1>1, <1>9, <2>1, LenProperties DEF HelperTypes, HelperStream
    <3> QED
      BY <3>1, <3>2
  <2>5. g <= h /\ h <= w
    BY <1>1, <1>9, <2>1, <2>2, <2>4 DEF Serves, HeldIsExact
  <2>6. CASE Held[id].fin
    <3>1. g = w
      BY <1>9, <2>1, <2>2, <2>4, <2>6 DEF Fins, EndsLast
    <3> QED
      BY <2>1, <2>2, <2>4, <2>5, <3>1
  <2>7. CASE type = "Fin" /\ c2h[1].id = id
    <3>1. c2h[1].type = "Fin" /\ 1 \in 1 .. n
      BY <1>1, <1>2, <1>4, <2>7, TailAt
    <3>2. FinArrives(1, app, c2h, Held)
      BY <1>3, <1>4, <1>9, <3>1 DEF Fins
    <3>3. ReachesIn(id, c2h, Held)
      BY <2>1 DEF ReachesIn
    <3>4. \A b \in 1 .. w : ArrivesIn(id, b, 1 - 1, c2h, Held)
      BY <2>3, <2>4, <2>7, <3>1, <3>2, <3>3 DEF FinArrives
    <3>5. \A b \in 1 .. w : b <= g
      BY <2>4, <3>4 DEF ArrivesIn
    <3>6. w <= g
      <4>1. w = 0 \/ w \in 1 .. w
        BY <2>4
      <4> QED
        BY <2>4, <3>5, <4>1
    <3>7. h = w
      BY <2>5, <3>6
    <3> QED
      BY <2>1, <2>2, <2>4, <3>7
  <2> QED
    BY <2>1, <2>6, <2>7
<1>10. helper'.channels = 1 => \A id \in DOMAIN Held' : EndsLast(Held'[id], app')
  BY <1>1, <1>3, <1>9 DEF EndsLast
<1>11. helper'.channels = 1 /\ drv' # "wait" =>
         /\ \A id \in DOMAIN streams' :
              ReachesIn(id, c2h', Held') => SentArrives(id, streams'[id].tx.cursor, c2h', Held')
         /\ \A i \in 1 .. Len(c2h') : FinArrives(i, app', c2h', Held')
  BY <1>1, <1>3, <1>4, <1>7, <1>8
<1> QED
  BY <1>3, <1>10, <1>11 DEF Fins

\* Fins at the start.
LEMMA FinsInit == Init => Fins
<1> SUFFICES ASSUME Init PROVE Fins
  OBVIOUS
<1>1. drv = "wait" /\ helper = FreshHelper
  BY DEF Init
<1>2. DOMAIN Held = {}
  BY <1>1 DEF Held, FreshHelper, NoStreams
<1> QED
  BY <1>1, <1>2 DEF Fins

\* Every step keeps Fins.
LEMMA FinsStep ==
  ASSUME Books, Books', Bytes, Shakes, Fins, [Next]_vars
  PROVE  Fins'
<1>1. ASSUME NEW r \in Request, Writes(r) PROVE Fins'
  <2>1. UNCHANGED <<streams, drv, c2h, helper>>
    BY <1>1 DEF Writes, clientVars
  <2> QED
    BY <1>1, <2>1, WritesSettle, FinsStay
<1>2. CASE QueueOpen \/ UNCHANGED vars
  <2>1. UNCHANGED <<app, next_id, streams, drv, c2h, helper>>
    BY <1>2 DEF QueueOpen, vars, clientVars
  <2>2. Tells
    BY <2>1, KeptTells DEF Books
  <2> QED
    BY <2>1, <2>2, TellsSettle, FinsStay
<1>3. CASE (\E same \in Survives : Attach(same)) \/ Break \/ FrameTooEarly \/ ForeignVersion
  BY <1>3, ChannelFins
<1>4. ASSUME NEW id, NEW out, StreamStep(id, out) PROVE Fins'
  BY <1>4, StreamStepFins
<1>5. CASE HandleOpen
  <2>1. PICK reqs : Opens(streams, app, <<>>, reqs) /\ UNCHANGED <<drv, h2c>>
    BY <1>5, HandleOpenOpens DEF Bytes
  <2>2. drv # "wait"
    BY <1>5 DEF HandleOpen, Online
  <2> QED
    BY <2>1, <2>2, OpensFins
<1>6. CASE HandleHelloAck
  <2>1. Opens(AckStreams, AckApp, AckOut, pending)
    BY <1>6, HelloAckOpens DEF Bytes
  <2>2. drv # "wait" /\ drv' # "wait"
    BY <1>6 DEF HandleHelloAck
  <2> QED
    BY <2>1, <2>2, OpensFins
<1>7. CASE Helper
  <2>1. PICK type : Lands(type)
    BY <1>7, HelperLands
  <2>2. Serves
    BY <1>7, HelperServes
  <2> QED
    BY <2>1, <2>2, LandsFins
<1> QED
  BY <1>1, <1>2, <1>3, <1>4, <1>5, <1>6, <1>7, StepIs

\* After the handshake a stream of the client is one the helper has, will be told
\* about, or has refused (HelloAck and the resuming loop of run_session); no frame
\* is before Hello or answers it twice; at a helper that met one channel Fin comes
\* after the last byte (drain_stream_output, the Fin of handle_frame); and types.
THEOREM DirectoriesAgree == Spec => []StreamInv
<1>1. Init => Books /\ Bytes /\ Shakes /\ Fins
  BY BooksInit, BytesInit, ShakesInit, FinsInit
<1>2. Books /\ Bytes /\ Shakes /\ Fins /\ [Next]_vars => Books' /\ Bytes' /\ Shakes' /\ Fins'
  BY BooksStep, BytesStep, ShakesStep, FinsStep
<1>3. Books /\ Bytes /\ Shakes /\ Fins => StreamInv
  BY TypesAre, ShakesIs, FinsIs DEF Books, Bytes, StreamInv
<1> QED
  BY <1>1, <1>2, <1>3, PTL DEF Spec

=============================================================================
