-------------------------- MODULE ResumeLink_proofs --------------------------
(***************************************************************************)
(* For every Source, Window, Chunk and number of breaks, and for a         *)
(* surviving as well as a fresh helper: ResumeLink keeps its types, and    *)
(* the bytes delivered are the bytes sent. When every channel meets a      *)
(* fresh helper: frames stay in order, and the stream implements           *)
(* ByteStream.                                                             *)
(***************************************************************************)
EXTENDS ResumeLink, SequenceTheorems, TLAPS

-----------------------------------------------------------------------------
(* Slices of Source.                                                       *)

Slice(a, b) == SubSeq(Source, a + 1, b)

\* SubSeq under a name the provers do not expand.
Part(s, m, n) == SubSeq(s, m, n)

\* A slice of a sequence inside its bounds: type, length and elements.
LEMMA SubSeqIn ==
  ASSUME NEW S, NEW s \in Seq(S), NEW m \in Nat, NEW n \in Nat, m <= n, n <= Len(s)
  PROVE  /\ SubSeq(s, m + 1, n) \in Seq(S)
         /\ Len(SubSeq(s, m + 1, n)) = n - m
         /\ \A i \in 1 .. n - m : SubSeq(s, m + 1, n)[i] = s[m + i]
<1>1. \A i \in m + 1 .. n : s[i] \in S
  BY ElementOfSeq
<1>2. /\ SubSeq(s, m + 1, n) \in Seq(S)
      /\ Len(SubSeq(s, m + 1, n)) = IF m + 1 <= n THEN n - (m + 1) + 1 ELSE 0
      /\ \A i \in 1 .. n - (m + 1) + 1 : SubSeq(s, m + 1, n)[i] = s[m + 1 + i - 1]
  BY <1>1, SubSeqProperties
<1>3. Len(SubSeq(s, m + 1, n)) = n - m
  BY <1>2
<1>4. \A i \in 1 .. n - m : m + 1 + i - 1 = m + i
  OBVIOUS
<1> QED
  BY <1>2, <1>3, <1>4

\* Bytes a..b of Source as a sequence: what read_buf hands to the buffer.
LEMMA SliceType ==
  ASSUME NEW a \in Nat, NEW b \in Nat, a <= b, b <= Len(Source)
  PROVE  /\ Slice(a, b) \in Seq(Byte)
         /\ Len(Slice(a, b)) = b - a
         /\ \A i \in 1 .. b - a : Slice(a, b)[i] = Source[a + i]
BY LinkAssumption, SubSeqIn DEF Slice

\* Dropping a prefix or suffix of a slice, as ack, next_unsent and accept do,
\* leaves the slice between the new offsets.
LEMMA SliceOfSlice ==
  \A a, b, k, n, c, d \in Nat :
    (/\ a <= b /\ b <= Len(Source)
     /\ k # 0 /\ k <= n + 1 /\ n <= b - a
     /\ c + 1 = a + k /\ d = a + n)
    => Part(Slice(a, b), k, n) = Slice(c, d)
<1> SUFFICES ASSUME NEW a \in Nat, NEW b \in Nat, NEW k \in Nat, NEW n \in Nat,
                    NEW c \in Nat, NEW d \in Nat,
                    a <= b, b <= Len(Source), k # 0, k <= n + 1, n <= b - a,
                    c + 1 = a + k, d = a + n
             PROVE  Part(Slice(a, b), k, n) = Slice(c, d)
  OBVIOUS
<1> DEFINE m == k - 1
           s == Slice(a, b)
           t == SubSeq(s, m + 1, n)
<1>1. /\ s \in Seq(Byte) /\ Len(s) = b - a
      /\ \A i \in 1 .. b - a : s[i] = Source[a + i]
  BY SliceType
<1>2. Len(Source) \in Nat
  BY LinkAssumption, LenProperties
<1>3. /\ m \in Nat /\ m <= n /\ m + 1 = k
      /\ c <= d /\ d <= Len(Source) /\ d - c = n - m /\ c = a + m
  BY <1>2
<1>4. /\ Slice(c, d) \in Seq(Byte)
      /\ Len(Slice(c, d)) = d - c
      /\ \A i \in 1 .. d - c : Slice(c, d)[i] = Source[c + i]
  BY <1>3, SliceType
<1> HIDE DEF s, t, m
<1>5. /\ t \in Seq(Byte) /\ Len(t) = n - m
      /\ \A i \in 1 .. n - m : t[i] = s[m + i]
  BY <1>1, <1>3, SubSeqIn DEF t
<1>6. ASSUME NEW i \in 1 .. n - m PROVE t[i] = Slice(c, d)[i]
  <2>1. m + i \in 1 .. b - a /\ a + (m + i) = c + i
    BY <1>3
  <2>2. t[i] = s[m + i] /\ s[m + i] = Source[a + (m + i)]
    BY <1>1, <1>5, <2>1
  <2>3. Slice(c, d)[i] = Source[c + i]
    BY <1>3, <1>4
  <2> QED
    BY <2>1, <2>2, <2>3
<1>7. t = Slice(c, d)
  BY <1>3, <1>4, <1>5, <1>6, SeqEqual
<1> QED
  BY <1>3, <1>7 DEF s, t, Part

\* Adjacent slices join: what push and in-order delivery rely on.
LEMMA SliceConcat ==
  ASSUME NEW a \in Nat, NEW b \in Nat, NEW c \in Nat, a <= b, b <= c, c <= Len(Source)
  PROVE  Slice(a, b) \o Slice(b, c) = Slice(a, c)
<1>1. Len(Source) \in Nat
  BY LinkAssumption, LenProperties
<1>2. /\ a + 1 \in 1 .. Len(Source) + 1
      /\ b \in (a + 1) - 1 .. Len(Source)
      /\ c \in b .. Len(Source)
  BY <1>1
<1> QED
  BY <1>2, LinkAssumption, ConcatAdjacentSubSeq DEF Slice

-----------------------------------------------------------------------------
(* The buffer operations on a buffer that holds a slice of Source.         *)

Buffer(t) ==
  /\ t \in SendBuffer(Byte)
  /\ t.capacity = Window
  /\ t.acked <= t.cursor
  /\ t.cursor <= WriteOffset(t)
  /\ WriteOffset(t) <= Len(Source)
  /\ t.data = Slice(t.acked, WriteOffset(t))

\* Source is finite.
LEMMA SourceLen == Len(Source) \in Nat
BY LinkAssumption, LenProperties

\* Reading the fields of a buffer.
LEMMA BufferFields ==
  ASSUME NEW t, t \in SendBuffer(Byte)
  PROVE  /\ t.acked \in Nat /\ t.cursor \in Nat /\ t.capacity \in Nat
         /\ t.data \in Seq(Byte) /\ Len(t.data) \in Nat
         /\ t.fin_queued \in BOOLEAN
         /\ WriteOffset(t) \in Nat
<1>1. /\ t.acked \in Nat /\ t.cursor \in Nat /\ t.capacity \in Nat
      /\ t.data \in Seq(Byte) /\ t.fin_queued \in BOOLEAN
  BY DEF SendBuffer
<1>2. Len(t.data) \in Nat
  BY <1>1, LenProperties
<1> QED
  BY <1>1, <1>2 DEF WriteOffset

\* What may still be written is a number.
LEMMA WritableIsNat ==
  ASSUME NEW t, t \in SendBuffer(Byte)
  PROVE  Writable(t) \in Nat
<1>1. t.capacity \in Nat /\ Len(t.data) \in Nat
  BY BufferFields
<1> QED
  BY <1>1 DEF Writable, GreaterOf

\* ack of a legal offset releases the bytes before it and nothing else, and
\* only ever widens the window.
LEMMA AckBuffer ==
  ASSUME NEW t, Buffer(t), NEW offset \in Nat, t.acked <= offset, offset <= WriteOffset(t)
  PROVE  /\ Buffer(Ack(t, offset))
         /\ Ack(t, offset).acked = offset
         /\ WriteOffset(Ack(t, offset)) = WriteOffset(t)
         /\ Writable(t) <= Writable(Ack(t, offset))
         /\ Ack(t, offset).cursor \in Nat
<1> DEFINE u == Ack(t, offset)
<1>1. /\ t \in SendBuffer(Byte) /\ t.capacity = Window /\ Window \in Nat \ {0}
      /\ t.acked \in Nat /\ t.cursor \in Nat
      /\ Len(t.data) \in Nat
      /\ t.data = Slice(t.acked, WriteOffset(t))
      /\ WriteOffset(t) = t.acked + Len(t.data)
  BY BufferFields, LinkAssumption DEF Buffer, WriteOffset
<1>2. /\ u.acked = offset
      /\ u.cursor = IF t.cursor >= offset THEN t.cursor ELSE offset
      /\ u.capacity = t.capacity
      /\ u.data = SubSeq(t.data, offset - t.acked + 1, Len(t.data))
      /\ u.fin_queued = t.fin_queued
      /\ u = [acked |-> u.acked, cursor |-> u.cursor, capacity |-> u.capacity,
              data |-> u.data, fin_queued |-> u.fin_queued]
  <2>1. ~(offset < t.acked)
    BY <1>1
  <2>2. t = [acked |-> t.acked, cursor |-> t.cursor, capacity |-> t.capacity,
             data |-> t.data, fin_queued |-> t.fin_queued]
    BY <1>1 DEF SendBuffer
  <2> QED
    BY <2>1, <2>2 DEF Ack, GreaterOf
<1>3. /\ u.data = Slice(offset, WriteOffset(t))
      /\ u.data \in Seq(Byte)
      /\ Len(u.data) = WriteOffset(t) - offset
  <2> DEFINE k == offset - t.acked + 1
             l == Len(t.data)
             a == t.acked
             w == WriteOffset(t)
  <2>1. /\ k \in Nat \ {0} /\ l \in Nat /\ k <= l + 1 /\ l <= w - a
        /\ a \in Nat /\ w \in Nat /\ a <= w
        /\ offset + 1 = a + k /\ w = a + l
    BY <1>1
  <2>2. w <= Len(Source)
    BY DEF Buffer
  <2> HIDE DEF k, l, a, w
  <2>3. Part(Slice(a, w), k, l) = Slice(offset, w)
    BY <2>1, <2>2, SourceLen, SliceOfSlice
  <2>4. u.data = Slice(offset, w)
    BY <2>3, <1>1, <1>2 DEF k, l, a, w, Part
  <2>5. offset <= w
    BY DEF w
  <2> QED
    BY <2>1, <2>2, <2>4, <2>5, SliceType DEF w
<1> HIDE DEF u
<1>4. WriteOffset(u) = WriteOffset(t)
  BY <1>1, <1>2, <1>3 DEF WriteOffset
<1>5. u.cursor \in Nat /\ offset <= u.cursor /\ u.cursor <= WriteOffset(u)
  BY <1>1, <1>2, <1>4 DEF Buffer
<1>6. u \in SendBuffer(Byte)
  BY <1>1, <1>2, <1>3, <1>5, BufferFields DEF SendBuffer
<1>7. Writable(t) <= Writable(u)
  <2>1. u.capacity = t.capacity /\ t.capacity \in Nat
    BY <1>1, <1>2
  <2>2. Len(u.data) \in Nat /\ Len(u.data) <= Len(t.data)
    BY <1>1, <1>3
  <2> QED
    BY <2>1, <2>2, <1>1 DEF Writable, GreaterOf
<1>8. Buffer(u)
  BY <1>2, <1>3, <1>4, <1>5, <1>6, <1>1 DEF Buffer
<1> QED
  BY <1>2, <1>4, <1>5, <1>7, <1>8 DEF u

\* rewind_to additionally sends again from the offset the peer names.
LEMMA RewindBuffer ==
  ASSUME NEW t, Buffer(t), NEW offset \in Nat, t.acked <= offset, offset <= WriteOffset(t)
  PROVE  /\ Buffer(RewindTo(t, offset))
         /\ RewindTo(t, offset).acked = offset
         /\ WriteOffset(RewindTo(t, offset)) = WriteOffset(t)
         /\ Writable(t) <= Writable(RewindTo(t, offset))
<1> DEFINE u == Ack(t, offset)
           v == RewindTo(t, offset)
<1>1. /\ Buffer(u) /\ u.acked = offset
      /\ WriteOffset(u) = WriteOffset(t)
      /\ Writable(t) <= Writable(u)
  BY AckBuffer
<1>2. v = [u EXCEPT !.cursor = offset]
  BY DEF RewindTo
<1> HIDE DEF u, v
<1>3. /\ v.acked = u.acked /\ v.cursor = offset /\ v.capacity = u.capacity
      /\ v.data = u.data /\ v.fin_queued = u.fin_queued
      /\ v \in SendBuffer(Byte)
  BY <1>1, <1>2 DEF Buffer, SendBuffer
<1>4. WriteOffset(v) = WriteOffset(u) /\ Writable(v) = Writable(u)
  BY <1>3 DEF WriteOffset, Writable
<1>5. Buffer(v)
  BY <1>1, <1>3, <1>4 DEF Buffer
<1> QED
  BY <1>1, <1>3, <1>4, <1>5 DEF v

\* next_unsent hands out the bytes at the cursor and moves it past them.
LEMMA UnsentBuffer ==
  ASSUME NEW t, Buffer(t), HasPending(t)
  PROVE  LET n == UnsentCount(t, Chunk)
         IN  /\ n \in Nat
             /\ Buffer(AdvanceCursor(t, Chunk))
             /\ AdvanceCursor(t, Chunk).acked = t.acked
             /\ WriteOffset(AdvanceCursor(t, Chunk)) = WriteOffset(t)
             /\ t.cursor \in Nat
             /\ NextUnsent(t, Chunk) = Slice(t.cursor, t.cursor + n)
             /\ NextUnsent(t, Chunk) \in Seq(Byte)
             /\ Len(NextUnsent(t, Chunk)) = n
             /\ t.cursor + n <= WriteOffset(t)
<1> DEFINE n == UnsentCount(t, Chunk)
           v == AdvanceCursor(t, Chunk)
<1>1. /\ t \in SendBuffer(Byte)
      /\ t.acked \in Nat /\ t.cursor \in Nat /\ WriteOffset(t) \in Nat
      /\ t.acked <= t.cursor /\ WriteOffset(t) <= Len(Source)
      /\ t.data = Slice(t.acked, WriteOffset(t))
      /\ Chunk \in Nat \ {0}
  BY BufferFields, LinkAssumption DEF Buffer
<1>2. n \in Nat /\ t.cursor + n <= WriteOffset(t)
  BY <1>1 DEF HasPending, UnsentCount, LesserOf
<1> HIDE DEF n
<1>3. v = [t EXCEPT !.cursor = @ + n]
  BY DEF AdvanceCursor, n
<1> HIDE DEF v
<1>4. /\ v.acked = t.acked /\ v.cursor = t.cursor + n /\ v.capacity = t.capacity
      /\ v.data = t.data /\ v \in SendBuffer(Byte)
  BY <1>1, <1>2, <1>3 DEF SendBuffer
<1>5. WriteOffset(v) = WriteOffset(t)
  BY <1>4 DEF WriteOffset
<1>6. Buffer(v)
  BY <1>1, <1>2, <1>4, <1>5 DEF Buffer
<1>7. /\ SubSeq(t.data, (t.cursor - t.acked) + 1, (t.cursor - t.acked) + n)
           = Slice(t.cursor, t.cursor + n)
  <2> DEFINE k == (t.cursor - t.acked) + 1
             l == (t.cursor - t.acked) + n
             a == t.acked
             w == WriteOffset(t)
             c == t.cursor
             d == t.cursor + n
  <2>1. /\ k \in Nat \ {0} /\ l \in Nat /\ k <= l + 1 /\ l <= w - a
        /\ a \in Nat /\ w \in Nat /\ a <= w /\ w <= Len(Source)
        /\ c \in Nat /\ d \in Nat /\ c + 1 = a + k /\ d = a + l
    <3>1. a \in Nat /\ c \in Nat /\ n \in Nat /\ w \in Nat /\ a <= c /\ c + n <= w /\ w <= Len(Source)
      BY <1>1, <1>2
    <3>2. k = c - a + 1 /\ l = c - a + n /\ d = c + n
      OBVIOUS
    <3> HIDE DEF k, l, a, w, c, d
    <3> QED
      BY <3>1, <3>2
  <2> HIDE DEF k, l, a, w, c, d
  <2>2. Part(Slice(a, w), k, l) = Slice(c, d)
    BY <2>1, SourceLen, SliceOfSlice
  <2> QED
    BY <1>1, <2>2 DEF k, l, a, w, c, d, Part
<1>8. NextUnsent(t, Chunk) = Slice(t.cursor, t.cursor + n)
  BY <1>7 DEF NextUnsent, n
<1>9. /\ Slice(t.cursor, t.cursor + n) \in Seq(Byte)
      /\ Len(Slice(t.cursor, t.cursor + n)) = n
  <2>1. t.cursor + n \in Nat /\ t.cursor <= t.cursor + n /\ t.cursor + n <= Len(Source)
    BY <1>1, <1>2, SourceLen
  <2>2. (t.cursor + n) - t.cursor = n
    BY <1>1, <1>2
  <2> QED
    BY <1>1, <2>1, <2>2, SliceType
<1> QED
  BY <1>1, <1>2, <1>4, <1>5, <1>6, <1>8, <1>9 DEF n, v

\* push of the next bytes of Source that fit the window takes them all.
LEMMA PushBuffer ==
  ASSUME NEW t, Buffer(t), NEW n \in Nat, n <= Writable(t), WriteOffset(t) + n <= Len(Source)
  PROVE  LET u == Push(t, SubSeq(Source, WriteOffset(t) + 1, WriteOffset(t) + n))
         IN  /\ Buffer(u)
             /\ u.acked = t.acked
             /\ WriteOffset(u) = WriteOffset(t) + n
<1> DEFINE w == WriteOffset(t)
           bytes == Slice(w, w + n)
           u == Push(t, bytes)
<1>1. /\ t \in SendBuffer(Byte)
      /\ t.acked \in Nat /\ t.cursor \in Nat /\ w \in Nat
      /\ t.acked <= t.cursor /\ t.cursor <= w
      /\ w = t.acked + Len(t.data) /\ Len(t.data) \in Nat
      /\ t.data = Slice(t.acked, w)
  BY BufferFields DEF Buffer, WriteOffset
<1>2. bytes \in Seq(Byte) /\ Len(bytes) = n
  <2>1. w + n \in Nat /\ w <= w + n /\ (w + n) - w = n
    BY <1>1
  <2> QED
    BY <1>1, <2>1, SliceType
<1>3. PushCount(t, bytes) = n
  BY <1>2, BufferFields, <1>1 DEF PushCount, LesserOf, Writable, GreaterOf
<1>4. SubSeq(bytes, 1, PushCount(t, bytes)) = bytes
  BY <1>2, <1>3, SubSeqFull
<1>5. Push(t, bytes) = [t EXCEPT !.data = @ \o bytes]
  BY <1>4 DEF Push
<1>6. t.data \o bytes = Slice(t.acked, w + n)
  <2>1. t.acked <= w /\ w <= w + n /\ w + n \in Nat /\ w + n <= Len(Source)
    BY <1>1
  <2>2. Slice(t.acked, w) \o Slice(w, w + n) = Slice(t.acked, w + n)
    BY <1>1, <2>1, SliceConcat
  <2> QED
    BY <1>1, <2>2
<1>7. /\ Slice(t.acked, w + n) \in Seq(Byte)
      /\ Len(Slice(t.acked, w + n)) = (w + n) - t.acked
  <2>1. t.acked <= w + n /\ w + n \in Nat
    BY <1>1
  <2> QED
    BY <1>1, <2>1, SliceType
<1>8. /\ u.acked = t.acked /\ u.cursor = t.cursor /\ u.capacity = t.capacity
      /\ u.data = Slice(t.acked, w + n) /\ u \in SendBuffer(Byte)
  BY <1>1, <1>5, <1>6, <1>7 DEF SendBuffer
<1>9. WriteOffset(u) = w + n
  BY <1>1, <1>7, <1>8 DEF WriteOffset
<1>10. Buffer(u)
  <2>1. /\ u.capacity = Window /\ u.acked <= u.cursor /\ u.cursor <= w + n
        /\ w + n <= Len(Source)
    BY <1>1, <1>8 DEF Buffer
  <2> HIDE DEF u
  <2> QED
    BY <2>1, <1>8, <1>9 DEF Buffer
<1> QED
  BY <1>8, <1>9, <1>10 DEF u, Slice

-----------------------------------------------------------------------------
(* The two queues of frames.                                               *)

\* The fields the helper and the client read from a decoded frame.
LEMMA FrameFields ==
  \A f \in Frame :
    /\ f.type = "Data" => f.offset \in Nat /\ f.data \in Seq(Byte)
    /\ HasOffset(f) => f.offset \in Nat
BY DEF Frame, HasOffset

\* The frames both ends construct are frames, with the fields given.
LEMMA FramesMade ==
  /\ \A o \in Nat, d \in Seq(Byte) :
        Data(o, d) \in Frame /\ Data(o, d).type = "Data"
        /\ Data(o, d).offset = o /\ Data(o, d).data = d
  /\ \A o \in Nat : /\ AckFrame(o) \in Frame /\ AckFrame(o).type = "Ack"
                    /\ AckFrame(o).offset = o
                    /\ ResumeFrame(o) \in Frame /\ ResumeFrame(o).type = "Resume"
                    /\ ResumeFrame(o).offset = o
  /\ \A b \in BOOLEAN : /\ Hello(b) \in Frame /\ Hello(b).type = "Hello"
                        /\ HelloAck(b) \in Frame /\ HelloAck(b).type = "HelloAck"
  /\ \A t \in {"Fin", "ResumeOk", "ResumeErr", "Reset"} :
        Signal(t) \in Frame /\ Signal(t).type = t
BY DEF Frame, Data, AckFrame, ResumeFrame, Hello, HelloAck, Signal

\* The frames whose data is Source up to offset w.
FramesUpTo(w) ==
  {f \in Frame : f.type = "Data" =>
     /\ f.offset + Len(f.data) <= w
     /\ f.data = SubSeq(Source, f.offset + 1, f.offset + Len(f.data))}

\* A frame in flight stays legal when the buffer takes in more bytes.
LEMMA FramesGrow ==
  ASSUME NEW v \in Nat, NEW w \in Nat, v <= w, NEW q \in Seq(FramesUpTo(v))
  PROVE  q \in Seq(FramesUpTo(w))
<1>1. ASSUME NEW f \in FramesUpTo(v) PROVE f \in FramesUpTo(w)
  <2>1. f \in Frame
    BY DEF FramesUpTo
  <2>2. CASE f.type # "Data"
    BY <2>1, <2>2 DEF FramesUpTo
  <2>3. CASE f.type = "Data"
    <3>1. f.offset \in Nat /\ Len(f.data) \in Nat
      BY <2>1, <2>3, FrameFields, LenProperties
    <3>2. f.offset + Len(f.data) <= w
      BY <3>1, <2>3 DEF FramesUpTo
    <3> QED
      BY <2>1, <3>2, <2>3 DEF FramesUpTo
  <2> QED
    BY <2>2, <2>3
<1> QED
  BY <1>1, SeqMonotonic

\* The offsets in q ascend from lo to hi.
Ascends(q, lo, hi) ==
  \A i \in 1 .. Len(q) : HasOffset(q[i]) =>
    /\ lo <= q[i].offset
    /\ q[i].offset <= hi
    /\ \A j \in 1 .. i : HasOffset(q[j]) => q[j].offset <= q[i].offset

\* Handling the oldest frame raises the lower bound of the offsets that follow.
LEMMA AscendsTail ==
  ASSUME NEW q \in Seq(Frame), q # <<>>, NEW lo \in Nat, NEW hi \in Nat, Ascends(q, lo, hi)
  PROVE  /\ Tail(q) \in Seq(Frame)
         /\ Head(q) \in Frame
         /\ Ascends(Tail(q), lo, hi)
         /\ HasOffset(Head(q)) =>
              /\ Head(q).offset \in Nat
              /\ lo <= Head(q).offset /\ Head(q).offset <= hi
              /\ Ascends(Tail(q), Head(q).offset, hi)
<1>1. /\ Head(q) \in Frame /\ Tail(q) \in Seq(Frame)
      /\ Len(Tail(q)) = Len(q) - 1 /\ Len(q) \in Nat \ {0}
      /\ Head(q) = q[1]
      /\ \A i \in 1 .. Len(Tail(q)) : Tail(q)[i] = q[i + 1]
  BY HeadTailProperties, EmptySeq
<1>2. ASSUME NEW i \in 1 .. Len(Tail(q)), HasOffset(Tail(q)[i])
      PROVE  /\ lo <= Tail(q)[i].offset /\ Tail(q)[i].offset <= hi
             /\ \A j \in 1 .. i : HasOffset(Tail(q)[j]) => Tail(q)[j].offset <= Tail(q)[i].offset
             /\ HasOffset(Head(q)) => Head(q).offset <= Tail(q)[i].offset
  <2>1. i + 1 \in 1 .. Len(q) /\ 1 \in 1 .. i + 1
    BY <1>1
  <2>2. ASSUME NEW j \in 1 .. i, HasOffset(Tail(q)[j])
        PROVE  Tail(q)[j].offset <= Tail(q)[i].offset
    <3>1. j + 1 \in 1 .. i + 1 /\ j \in 1 .. Len(Tail(q))
      BY <1>1
    <3> QED
      BY <1>1, <1>2, <2>1, <2>2, <3>1 DEF Ascends
  <2> QED
    BY <1>1, <1>2, <2>1, <2>2 DEF Ascends
<1>3. Ascends(Tail(q), lo, hi)
  BY <1>2 DEF Ascends
<1>4. HasOffset(Head(q)) => /\ Head(q).offset \in Nat
                            /\ lo <= Head(q).offset /\ Head(q).offset <= hi
  <2>1. 1 \in 1 .. Len(q)
    BY <1>1
  <2> QED
    BY <1>1, <2>1, FrameFields DEF Ascends
<1>5. HasOffset(Head(q)) => Ascends(Tail(q), Head(q).offset, hi)
  BY <1>2 DEF Ascends
<1> QED
  BY <1>1, <1>3, <1>4, <1>5

\* Queueing a confirmation of everything delivered so far keeps the order.
LEMMA AscendsAppend ==
  ASSUME NEW q \in Seq(Frame), NEW lo \in Nat, NEW hi \in Nat, NEW top \in Nat,
         lo <= hi, hi <= top, Ascends(q, lo, hi),
         NEW f \in Frame, HasOffset(f) => f.offset = top
  PROVE  /\ Append(q, f) \in Seq(Frame)
         /\ Ascends(Append(q, f), lo, top)
<1>1. /\ Append(q, f) \in Seq(Frame)
      /\ Len(Append(q, f)) = Len(q) + 1 /\ Len(q) \in Nat
      /\ Append(q, f)[Len(q) + 1] = f
      /\ \A i \in 1 .. Len(q) : Append(q, f)[i] = q[i]
  BY AppendProperties, LenProperties
<1> DEFINE r == Append(q, f)
<1>2. \A i \in 1 .. Len(q) : HasOffset(q[i]) => q[i].offset \in Nat
  BY FrameFields, ElementOfSeq
<1> HIDE DEF r
<1>3. ASSUME NEW i \in 1 .. Len(q) + 1, HasOffset(r[i])
      PROVE  /\ lo <= r[i].offset /\ r[i].offset <= top
             /\ \A j \in 1 .. i : HasOffset(r[j]) => r[j].offset <= r[i].offset
  <2>1. CASE i \in 1 .. Len(q)
    <3>1. r[i] = q[i] /\ \A j \in 1 .. i : r[j] = q[j]
      BY <1>1, <2>1 DEF r
    <3>2. /\ lo <= q[i].offset /\ q[i].offset <= hi
          /\ \A j \in 1 .. i : HasOffset(q[j]) => q[j].offset <= q[i].offset
      BY <1>3, <2>1, <3>1 DEF Ascends
    <3> QED
      BY <1>2, <1>3, <2>1, <3>1, <3>2
  <2>2. CASE i = Len(q) + 1
    <3>1. r[i].offset = top
      BY <1>1, <1>3, <2>2 DEF r
    <3>2. ASSUME NEW j \in 1 .. i, HasOffset(r[j]) PROVE r[j].offset <= top
      <4>1. CASE j = i
        BY <3>1, <4>1
      <4>2. CASE j \in 1 .. Len(q)
        <5>1. r[j] = q[j]
          BY <1>1, <4>2 DEF r
        <5>2. q[j].offset <= hi /\ q[j].offset \in Nat
          BY <5>1, <4>2, <3>2, <1>2 DEF Ascends
        <5> QED
          BY <5>1, <5>2
      <4> QED
        BY <4>1, <4>2, <2>2, <1>1
    <3> QED
      BY <3>1, <3>2
  <2> QED
    BY <2>1, <2>2, <1>1
<1>4. Ascends(r, lo, top)
  BY <1>1, <1>3 DEF Ascends, r
<1> QED
  BY <1>1, <1>4 DEF r

-----------------------------------------------------------------------------
(* LinkInv, repacked by the piece of state each part is about.             *)

UplinkOK ==
  /\ permit \in BOOLEAN /\ pc \in UplinkPC /\ cap \in Nat
  /\ eof \in BOOLEAN /\ fin_sent \in BOOLEAN /\ held \in BOOLEAN
  /\ chunk \in [offset : Nat, data : Seq(Byte)]
  /\ pc = "send" => Data(chunk.offset, chunk.data) \in FramesUpTo(WriteOffset(tx))
  /\ pc = "read" => cap <= Writable(tx)

ClientOK ==
  /\ rx \in RecvTracker
  /\ remote_fin \in BOOLEAN /\ live \in BOOLEAN
  /\ received = Slice(0, rx.delivered)
  /\ tx.acked <= rx.delivered
  /\ rx.delivered <= WriteOffset(tx)

ChannelOK ==
  /\ phase \in {"down", "hello", "up"} /\ breaks \in Nat
  /\ h2c \in Seq(FramesUpTo(WriteOffset(tx)))
  /\ c2h \in Seq(Frame)
  /\ Ascends(c2h, tx.acked, rx.delivered)

Inv == Buffer(tx) /\ UplinkOK /\ ClientOK /\ ChannelOK

\* The inductive invariant of ResumeLink, regrouped for the proof.
LEMMA Repack == LinkInv <=> Inv
<1> USE DEF Inv
<1>1. SourceFrame = FramesUpTo(WriteOffset(tx))
  BY DEF SourceFrame, FramesUpTo, IsSource, EndOf
<1>2. ASSUME chunk \in [offset : Nat, data : Seq(Byte)]
      PROVE  IsSource(chunk) <=> Data(chunk.offset, chunk.data) \in FramesUpTo(WriteOffset(tx))
  <2>1. chunk.offset \in Nat /\ chunk.data \in Seq(Byte)
    BY <1>2
  <2>2. LET f == Data(chunk.offset, chunk.data)
        IN  f \in Frame /\ f.type = "Data" /\ f.offset = chunk.offset /\ f.data = chunk.data
    BY <2>1, FramesMade
  <2> QED
    BY <2>2 DEF FramesUpTo, IsSource, EndOf
<1>3. OffsetsAscend <=> Ascends(c2h, tx.acked, rx.delivered)
  BY DEF OffsetsAscend, Ascends
<1>4. ASSUME LinkInv PROVE Inv
  <2>1. Buffer(tx)
    BY <1>4 DEF LinkInv, TypeOK, ReleasedIsDelivered, BufferIsSource, Buffer, Slice
  <2>2. UplinkOK
    BY <1>4, <1>2 DEF LinkInv, TypeOK, InFlightIsSource, ReadFitsWindow, UplinkOK
  <2>3. ClientOK
    BY <1>4 DEF LinkInv, TypeOK, ByteExact, ReleasedIsDelivered, ClientOK, Slice
  <2>4. ChannelOK
    BY <1>4, <1>1, <1>3 DEF LinkInv, TypeOK, InFlightIsSource, ChannelOK
  <2> QED
    BY <2>1, <2>2, <2>3, <2>4
<1>5. ASSUME Inv PROVE LinkInv
  <2>1. WriteOffset(tx) \in Nat /\ tx.acked \in Nat
    BY <1>5, BufferFields DEF Buffer
  <2>2. rx.delivered \in Nat /\ rx.delivered <= Len(Source)
    BY <1>5, <2>1, SourceLen DEF ClientOK, RecvTracker, Buffer
  <2>3. received \in Seq(Byte)
    BY <1>5, <2>2, SliceType DEF ClientOK
  <2>4. h2c \in Seq(Frame)
    <3>1. \A f \in FramesUpTo(WriteOffset(tx)) : f \in Frame
      BY DEF FramesUpTo
    <3> QED
      BY <1>5, <3>1, SeqMonotonic DEF ChannelOK
  <2>5. TypeOK
    BY <1>5, <2>3, <2>4 DEF TypeOK, Buffer, UplinkOK, ClientOK, ChannelOK
  <2>6. ByteExact /\ ReleasedIsDelivered /\ BufferIsSource
    BY <1>5 DEF ByteExact, ReleasedIsDelivered, BufferIsSource, Buffer, ClientOK, Slice
  <2>7. ReadFitsWindow /\ InFlightIsSource /\ OffsetsAscend
    BY <1>5, <1>1, <1>2, <1>3
       DEF ReadFitsWindow, InFlightIsSource, UplinkOK, ChannelOK
  <2> QED
    BY <2>5, <2>6, <2>7 DEF LinkInv
<1> QED
  BY <1>4, <1>5

\* A freshly opened stream satisfies the invariant.
LEMMA Initially == Init => Inv
<1> SUFFICES ASSUME Init PROVE Inv
  OBVIOUS
<1> USE LinkAssumption
<1>1. /\ tx.acked = 0 /\ tx.cursor = 0 /\ tx.capacity = Window /\ tx.data = <<>>
      /\ tx \in SendBuffer(Byte)
  BY EmptySeq DEF Init, NewSendBuffer, SendBuffer
<1>2. WriteOffset(tx) = 0
  BY <1>1, EmptySeq DEF WriteOffset
<1>3. Slice(0, 0) = <<>>
  BY SubSeqEmpty DEF Slice
<1>4. Buffer(tx)
  BY <1>1, <1>2, <1>3, SourceLen DEF Buffer
<1>5. UplinkOK
  BY EmptySeq DEF Init, UplinkOK, UplinkPC, NoChunk
<1>6. ClientOK
  <2>1. rx \in RecvTracker /\ rx.delivered = 0
    BY DEF Init, NewRecvTracker, RecvTracker
  <2>2. received = <<>> /\ remote_fin \in BOOLEAN /\ live \in BOOLEAN
    BY DEF Init
  <2> QED
    BY <2>1, <2>2, <1>1, <1>2, <1>3 DEF ClientOK
<1>7. ChannelOK
  BY EmptySeq DEF Init, ChannelOK, Ascends
<1> QED
  BY <1>4, <1>5, <1>6, <1>7 DEF Inv

\* A frame the helper queues for the client, and one it is dropped with.
LEMMA ToClientKeeps ==
  ASSUME NEW w \in Nat, h2c \in Seq(FramesUpTo(w)), NEW f \in FramesUpTo(w), ToClient(f)
  PROVE  h2c' \in Seq(FramesUpTo(w))
BY AppendProperties DEF ToClient

\* Control frames are legal whatever the buffer holds.
LEMMA SignalsCarryNoData ==
  \A w \in Nat :
    /\ \A t \in {"Fin", "ResumeOk", "ResumeErr", "Reset"} : Signal(t) \in FramesUpTo(w)
    /\ \A b \in BOOLEAN : HelloAck(b) \in FramesUpTo(w)
BY FramesMade DEF FramesUpTo

\* Facts every step starts from.
LEMMA InvFacts ==
  ASSUME Inv
  PROVE  /\ tx \in SendBuffer(Byte) /\ WriteOffset(tx) \in Nat /\ tx.acked \in Nat
         /\ rx \in RecvTracker /\ rx.delivered \in Nat
         /\ tx.acked <= rx.delivered /\ rx.delivered <= WriteOffset(tx)
         /\ c2h \in Seq(Frame) /\ h2c \in Seq(FramesUpTo(WriteOffset(tx)))
         /\ WriteOffset(tx) <= Len(Source) /\ Len(Source) \in Nat
BY BufferFields, SourceLen DEF Inv, Buffer, ClientOK, ChannelOK, RecvTracker

\* The steps of uplink.
LEMMA UplinkSteps ==
  ASSUME Inv, Uplink
  PROVE  Inv'
<1> USE InvFacts
<1>1. CASE TakeUnsent
  <2> DEFINE n == UnsentCount(tx, Chunk)
  <2>1. /\ Buffer(tx') /\ tx'.acked = tx.acked /\ WriteOffset(tx') = WriteOffset(tx)
        /\ n \in Nat /\ tx.cursor \in Nat
        /\ NextUnsent(tx, Chunk) = Slice(tx.cursor, tx.cursor + n)
        /\ NextUnsent(tx, Chunk) \in Seq(Byte)
        /\ Len(NextUnsent(tx, Chunk)) = n
        /\ tx.cursor + n <= WriteOffset(tx)
    BY <1>1, UnsentBuffer DEF TakeUnsent, Inv
  <2>2. /\ chunk' = [offset |-> tx.cursor, data |-> NextUnsent(tx, Chunk)]
        /\ pc' = "send"
    BY <1>1 DEF TakeUnsent
  <2>3. Data(chunk'.offset, chunk'.data) \in FramesUpTo(WriteOffset(tx'))
    <3> DEFINE f == Data(tx.cursor, NextUnsent(tx, Chunk))
    <3>1. /\ f \in Frame /\ f.offset = tx.cursor /\ f.data = NextUnsent(tx, Chunk)
      BY <2>1, FramesMade
    <3> HIDE DEF f
    <3>2. f \in FramesUpTo(WriteOffset(tx))
      BY <2>1, <3>1 DEF FramesUpTo, Slice
    <3> QED
      BY <2>1, <2>2, <3>2 DEF f
  <2>4. UplinkOK'
    BY <1>1, <2>1, <2>2, <2>3 DEF TakeUnsent, UplinkOK, UplinkPC, Inv
  <2>5. ClientOK' /\ ChannelOK'
    BY <1>1, <2>1 DEF TakeUnsent, ClientOK, ChannelOK, clientVars, Inv
  <2> QED
    BY <2>1, <2>4, <2>5 DEF Inv
<1>2. CASE SendChunk
  <2>1. h2c' \in Seq(FramesUpTo(WriteOffset(tx)))
    BY <1>2, ToClientKeeps DEF SendChunk, UplinkOK, Inv
  <2> QED
    BY <1>2, <2>1, EmptySeq
       DEF SendChunk, UplinkOK, UplinkPC, ClientOK, ChannelOK, clientVars, NoChunk, Inv
<1>3. CASE NothingUnsent \/ ReadFails
  BY <1>3
     DEF NothingUnsent, ReadFails, UplinkOK, UplinkPC, ClientOK, ChannelOK, clientVars, Inv
<1>4. CASE Check
  <2>1. Writable(tx) \in Nat
    <3>1. tx \in SendBuffer(Byte)
      BY DEF Inv, Buffer
    <3> QED
      BY <3>1, WritableIsNat
  <2>2. pc' \in UplinkPC /\ pc' # "send" /\ cap' \in Nat /\ (pc' = "read" => cap' <= Writable(tx))
    BY <1>4, <2>1, LinkAssumption DEF Check, UplinkOK, UplinkPC, Inv
  <2> QED
    BY <1>4, <2>2 DEF Check, UplinkOK, ClientOK, ChannelOK, clientVars, Inv
<1>5. CASE Notified
  BY <1>5 DEF Notified, UplinkOK, UplinkPC, ClientOK, ChannelOK, clientVars, Inv
<1>6. CASE ReadBytes
  <2>1. PICK n \in 1 .. cap :
          /\ WriteOffset(tx) + n <= Len(Source)
          /\ tx' = Push(tx, SubSeq(Source, WriteOffset(tx) + 1, WriteOffset(tx) + n))
    BY <1>6 DEF ReadBytes
  <2>2. n \in Nat /\ n <= Writable(tx)
    <3>1. cap \in Nat /\ cap <= Writable(tx)
      BY <1>6 DEF ReadBytes, UplinkOK, Inv
    <3>2. Writable(tx) \in Nat
      <4>1. tx \in SendBuffer(Byte)
        BY DEF Inv, Buffer
      <4> QED
        BY <4>1, WritableIsNat
    <3> QED
      BY <3>1, <3>2
  <2>3. Buffer(tx') /\ tx'.acked = tx.acked /\ WriteOffset(tx') = WriteOffset(tx) + n
    BY <2>1, <2>2, PushBuffer DEF Inv
  <2>4. h2c' \in Seq(FramesUpTo(WriteOffset(tx')))
    <3>1. WriteOffset(tx') \in Nat /\ WriteOffset(tx) <= WriteOffset(tx')
      BY <2>2, <2>3
    <3> QED
      BY <1>6, <3>1, FramesGrow DEF ReadBytes
  <2>5. rx.delivered <= WriteOffset(tx')
    BY <2>2, <2>3
  <2> QED
    BY <1>6, <2>3, <2>4, <2>5
       DEF ReadBytes, UplinkOK, UplinkPC, ClientOK, ChannelOK, clientVars, Inv
<1>7. CASE ReadEof
  <2>1. /\ tx' \in SendBuffer(Byte) /\ tx'.acked = tx.acked /\ tx'.cursor = tx.cursor
        /\ tx'.capacity = tx.capacity /\ tx'.data = tx.data
    BY <1>7 DEF ReadEof, MarkFin, SendBuffer
  <2>2. WriteOffset(tx') = WriteOffset(tx)
    BY <2>1 DEF WriteOffset
  <2>3. Buffer(tx')
    BY <2>1, <2>2 DEF Buffer, Inv
  <2> QED
    BY <1>7, <2>1, <2>2, <2>3
       DEF ReadEof, UplinkOK, UplinkPC, ClientOK, ChannelOK, clientVars, Inv
<1>8. CASE SendFin
  <2>1. h2c' \in Seq(FramesUpTo(WriteOffset(tx)))
    BY <1>8, ToClientKeeps, SignalsCarryNoData DEF SendFin
  <2> QED
    BY <1>8, <2>1
       DEF SendFin, UplinkOK, UplinkPC, ClientOK, ChannelOK, clientVars, Inv
<1> QED
  BY <1>1, <1>2, <1>3, <1>4, <1>5, <1>6, <1>7, <1>8 DEF Uplink

-----------------------------------------------------------------------------
(* The steps of the helper's main loop.                                    *)

\* Taking a frame from the client leaves ascending offsets behind.
LEMMA TakenFromClient ==
  ASSUME Inv, c2h # <<>>, c2h' = Tail(c2h)
  PROVE  /\ c2h' \in Seq(Frame)
         /\ Ascends(c2h', tx.acked, rx.delivered)
         /\ HasOffset(Head(c2h)) =>
              /\ Head(c2h).offset \in Nat
              /\ tx.acked <= Head(c2h).offset /\ Head(c2h).offset <= rx.delivered
              /\ Ascends(c2h', Head(c2h).offset, rx.delivered)
<1>1. c2h \in Seq(Frame) /\ Ascends(c2h, tx.acked, rx.delivered)
  BY DEF Inv, ChannelOK
<1>2. tx.acked \in Nat /\ rx.delivered \in Nat
  BY InvFacts
<1> QED
  BY <1>1, <1>2, AscendsTail

\* A step that leaves tx and rx alone keeps the invariant if it keeps the
\* uplink from entering send or read, and what it queues is legal.
LEMMA BufferUntouched ==
  ASSUME Inv, UNCHANGED <<tx, permit, chunk, cap, eof, fin_sent, rx, received>>,
         held' \in BOOLEAN, pc' \in {pc, "stopped"},
         remote_fin' \in BOOLEAN, live' \in BOOLEAN,
         phase' \in {"down", "hello", "up"}, breaks' \in Nat,
         h2c' \in Seq(FramesUpTo(WriteOffset(tx))),
         c2h' \in Seq(Frame), Ascends(c2h', tx.acked, rx.delivered)
  PROVE  Inv'
BY DEF Inv, UplinkOK, UplinkPC, ClientOK, ChannelOK

\* The steps of the main loop keep the invariant.
LEMMA HelperSteps ==
  ASSUME Inv, HelperMain
  PROVE  Inv'
<1> USE InvFacts
<1>1. CASE HelperHello
  <2>1. /\ c2h # <<>> /\ c2h' = Tail(c2h)
    BY <1>1 DEF HelperHello, Received
  <2>2. c2h' \in Seq(Frame) /\ Ascends(c2h', tx.acked, rx.delivered)
    BY <2>1, TakenFromClient
  <2>3. Head(c2h) \in Frame /\ Head(c2h).type = "Hello"
    BY <1>1, HeadTailProperties DEF HelperHello, Received
  <2>4. Head(c2h).resume \in BOOLEAN
    BY <2>3 DEF Frame
  <2> DEFINE resumed == Head(c2h).resume /\ held
  <2>5. /\ ToClient(HelloAck(resumed))
        /\ held' \in BOOLEAN /\ pc' \in {pc, "stopped"}
        /\ UNCHANGED <<tx, permit, chunk, cap, eof, fin_sent, clientVars, phase, breaks>>
    BY <1>1 DEF HelperHello, RemoveStream, Inv, UplinkOK
  <2>6. h2c' \in Seq(FramesUpTo(WriteOffset(tx)))
    <3>1. resumed \in BOOLEAN
      BY <2>4 DEF Inv, UplinkOK
    <3>2. HelloAck(resumed) \in FramesUpTo(WriteOffset(tx))
      BY <3>1, SignalsCarryNoData
    <3> QED
      BY <2>5, <3>2, ToClientKeeps
  <2> HIDE DEF resumed
  <2>7. /\ remote_fin' \in BOOLEAN /\ live' \in BOOLEAN
        /\ phase' \in {"down", "hello", "up"} /\ breaks' \in Nat
        /\ UNCHANGED <<rx, received>>
    BY <2>5 DEF Inv, ClientOK, ChannelOK, clientVars
  <2> QED
    BY <2>2, <2>5, <2>6, <2>7, BufferUntouched
<1>2. CASE HelperAck
  <2> DEFINE offset == Head(c2h).offset
  <2>1. /\ c2h # <<>> /\ c2h' = Tail(c2h) /\ HasOffset(Head(c2h))
        /\ UNCHANGED <<chunk, cap, eof, fin_sent, clientVars, phase, breaks>>
    BY <1>2 DEF HelperAck, Received, HasOffset
  <2>2. /\ c2h' \in Seq(Frame)
        /\ Ascends(c2h', tx.acked, rx.delivered)
        /\ offset \in Nat /\ tx.acked <= offset /\ offset <= rx.delivered
        /\ Ascends(c2h', offset, rx.delivered)
    BY <2>1, TakenFromClient
  <2> HIDE DEF offset
  <2>3. ~AckBeyondSent(tx, offset)
    BY <2>2 DEF AckBeyondSent
  <2>4. /\ tx' = IF held THEN Ack(tx, offset) ELSE tx
        /\ permit' = (permit \/ held)
        /\ UNCHANGED <<held, pc, h2c>>
    BY <1>2, <2>3 DEF HelperAck, offset
  <2>5. CASE held
    <3>1. /\ Buffer(tx') /\ tx'.acked = offset
          /\ WriteOffset(tx') = WriteOffset(tx)
          /\ Writable(tx) <= Writable(tx')
          /\ Writable(tx) \in Nat /\ Writable(tx') \in Nat
      <4>1. tx' = Ack(tx, offset) /\ offset <= WriteOffset(tx) /\ Buffer(tx)
        BY <2>2, <2>4, <2>5 DEF Inv
      <4>2. /\ Buffer(tx') /\ tx'.acked = offset
            /\ WriteOffset(tx') = WriteOffset(tx)
            /\ Writable(tx) <= Writable(tx')
        BY <2>2, <4>1, AckBuffer
      <4>3. tx \in SendBuffer(Byte) /\ tx' \in SendBuffer(Byte)
        BY <4>1, <4>2 DEF Buffer
      <4>4. Writable(tx) \in Nat /\ Writable(tx') \in Nat
        BY <4>3, WritableIsNat
      <4> QED
        BY <4>2, <4>4
    <3>2. UplinkOK'
      BY <2>1, <2>4, <3>1 DEF UplinkOK, Inv
    <3>3. ClientOK'
      BY <2>1, <2>2, <3>1 DEF ClientOK, Inv, clientVars
    <3>4. ChannelOK'
      BY <2>1, <2>2, <2>4, <3>1 DEF ChannelOK, Inv, clientVars
    <3> QED
      BY <3>1, <3>2, <3>3, <3>4 DEF Inv
  <2>6. CASE ~held
    BY <2>1, <2>2, <2>4, <2>6 DEF Inv, UplinkOK, ClientOK, ChannelOK, clientVars
  <2> QED
    BY <2>5, <2>6
<1>3. CASE HelperResume
  <2> DEFINE offset == Head(c2h).offset
  <2>1. /\ c2h # <<>> /\ c2h' = Tail(c2h) /\ HasOffset(Head(c2h))
        /\ UNCHANGED <<chunk, cap, eof, fin_sent, clientVars, phase, breaks>>
    BY <1>3 DEF HelperResume, Received, HasOffset
  <2>2. /\ c2h' \in Seq(Frame)
        /\ Ascends(c2h', tx.acked, rx.delivered)
        /\ offset \in Nat /\ tx.acked <= offset /\ offset <= rx.delivered
        /\ Ascends(c2h', offset, rx.delivered)
    BY <2>1, TakenFromClient
  <2> HIDE DEF offset
  <2>3. CASE held
    <3>1. CanRewind(tx, offset)
      BY <2>2 DEF CanRewind, GapUnrecoverable, AckBeyondSent
    <3>2. /\ tx' = RewindTo(tx, offset) /\ permit' = TRUE
          /\ ToClient(Signal("ResumeOk")) /\ UNCHANGED <<held, pc>>
      BY <1>3, <2>3, <3>1 DEF HelperResume, offset
    <3>3. /\ Buffer(tx') /\ tx'.acked = offset
          /\ WriteOffset(tx') = WriteOffset(tx)
          /\ Writable(tx) <= Writable(tx')
      BY <2>2, <3>2, RewindBuffer DEF Inv
    <3>4. Writable(tx) \in Nat /\ Writable(tx') \in Nat
      BY <3>3, BufferFields DEF Writable, GreaterOf, Buffer
    <3>5. h2c' \in Seq(FramesUpTo(WriteOffset(tx)))
      BY <3>2, SignalsCarryNoData, ToClientKeeps
    <3>6. UplinkOK'
      BY <2>1, <3>2, <3>3, <3>4 DEF UplinkOK, Inv
    <3>7. ClientOK'
      BY <2>1, <2>2, <3>3 DEF ClientOK, Inv, clientVars
    <3>8. ChannelOK'
      BY <2>1, <2>2, <3>3, <3>5 DEF ChannelOK, Inv, clientVars
    <3> QED
      BY <3>3, <3>6, <3>7, <3>8 DEF Inv
  <2>4. CASE ~held
    <3>1. ToClient(Signal("ResumeErr")) /\ UNCHANGED <<held, pc, tx, permit>>
      BY <1>3, <2>4 DEF HelperResume
    <3>2. h2c' \in Seq(FramesUpTo(WriteOffset(tx)))
      BY <3>1, SignalsCarryNoData, ToClientKeeps
    <3> QED
      BY <2>1, <2>2, <3>1, <3>2 DEF Inv, UplinkOK, ClientOK, ChannelOK, clientVars
  <2> QED
    BY <2>3, <2>4
<1>4. CASE HelperReset
  <2>1. /\ c2h # <<>> /\ c2h' = Tail(c2h)
        /\ held' \in BOOLEAN /\ pc' \in {pc, "stopped"}
        /\ UNCHANGED <<tx, permit, chunk, cap, eof, fin_sent, clientVars, phase, h2c, breaks>>
    BY <1>4 DEF HelperReset, Received, RemoveStream, Inv, UplinkOK
  <2>2. c2h' \in Seq(Frame) /\ Ascends(c2h', tx.acked, rx.delivered)
    BY <2>1, TakenFromClient
  <2> QED
    BY <2>1, <2>2, BufferUntouched DEF Inv, ClientOK, ChannelOK, clientVars
<1>5. CASE HelperFinished
  BY <1>5, BufferUntouched
     DEF HelperFinished, RemoveStream, Inv, ClientOK, ChannelOK, clientVars
<1>6. CASE HelperFailed
  <2>1. h2c' \in Seq(FramesUpTo(WriteOffset(tx)))
    BY <1>6, ToClientKeeps, SignalsCarryNoData DEF HelperFailed
  <2> QED
    BY <1>6, <2>1, BufferUntouched DEF HelperFailed, Inv, ClientOK, ChannelOK, clientVars
<1> QED
  BY <1>1, <1>2, <1>3, <1>4, <1>5, <1>6 DEF HelperMain

-----------------------------------------------------------------------------
(* The steps of the client, and of the channel.                            *)

\* Taking a frame from the helper.
LEMMA TakenFromHelper ==
  ASSUME Inv, h2c # <<>>, h2c' = Tail(h2c)
  PROVE  /\ h2c' \in Seq(FramesUpTo(WriteOffset(tx)))
         /\ Head(h2c) \in FramesUpTo(WriteOffset(tx))
         /\ Head(h2c) \in Frame
<1>1. h2c \in Seq(FramesUpTo(WriteOffset(tx)))
  BY InvFacts
<1>2. Head(h2c) \in FramesUpTo(WriteOffset(tx)) /\ h2c' \in Seq(FramesUpTo(WriteOffset(tx)))
  BY <1>1, HeadTailProperties
<1> QED
  BY <1>2 DEF FramesUpTo

\* A frame the client queues, after delivering up to top.
LEMMA ToHelperKeeps ==
  ASSUME Inv, NEW top \in Nat, rx.delivered <= top,
         NEW f \in Frame, HasOffset(f) => f.offset = top, ToHelper(f)
  PROVE  c2h' \in Seq(Frame) /\ Ascends(c2h', tx.acked, top)
<1>1. /\ c2h \in Seq(Frame) /\ Ascends(c2h, tx.acked, rx.delivered)
      /\ tx.acked \in Nat /\ rx.delivered \in Nat /\ tx.acked <= rx.delivered
  BY InvFacts DEF Inv, ChannelOK
<1> QED
  BY <1>1, AscendsAppend DEF ToHelper

\* What arrives is a gap, a duplicate, or continues what was delivered.
LEMMA ClientDataStep ==
  ASSUME Inv, ClientData
  PROVE  Inv'
<1> USE InvFacts
<1> DEFINE f == Head(h2c)
<1>1. /\ h2c # <<>> /\ h2c' = Tail(h2c) /\ f.type = "Data"
      /\ UNCHANGED <<helperVars, remote_fin, phase, breaks>>
  BY DEF ClientData, Arrived
<1>2. /\ h2c' \in Seq(FramesUpTo(WriteOffset(tx)))
      /\ f \in Frame /\ f \in FramesUpTo(WriteOffset(tx))
  BY <1>1, TakenFromHelper
<1>3. /\ f.offset \in Nat /\ f.data \in Seq(Byte) /\ Len(f.data) \in Nat
      /\ f.offset + Len(f.data) <= WriteOffset(tx)
      /\ f.data = Slice(f.offset, f.offset + Len(f.data))
  BY <1>1, <1>2, FrameFields, LenProperties DEF FramesUpTo, Slice
<1>4. CASE ~live \/ IsGap(rx, f.offset, f.data)
  <2>1. live' = FALSE /\ ToHelper(Signal("Reset")) /\ UNCHANGED <<rx, received>>
    BY <1>4 DEF ClientData
  <2>2. /\ Signal("Reset") \in Frame /\ ~HasOffset(Signal("Reset"))
    BY FramesMade DEF HasOffset
  <2>3. c2h' \in Seq(Frame) /\ Ascends(c2h', tx.acked, rx.delivered)
    BY <2>1, <2>2, ToHelperKeeps
  <2> QED
    BY <1>1, <1>2, <2>1, <2>3
       DEF Inv, UplinkOK, ClientOK, ChannelOK, helperVars, uplinkVars
<1>5. CASE live /\ ~IsGap(rx, f.offset, f.data)
  <2> DEFINE top == rx'.delivered
             d == f.data
             o == f.offset
  <2>1. /\ rx' = Accept(rx, o, d)
        /\ received' = IF IsDuplicate(rx, o, d) THEN received
                       ELSE received \o FreshBytes(rx, o, d)
        /\ ToHelper(AckFrame(top)) /\ live' = live
    BY <1>5 DEF ClientData
  <2>2. /\ rx' \in RecvTracker /\ top \in Nat
        /\ rx.delivered <= top /\ top <= WriteOffset(tx)
        /\ received' = Slice(0, top)
    <3>1. CASE IsDuplicate(rx, o, d)
      BY <2>1, <3>1 DEF Accept, Inv, ClientOK
    <3>2. CASE ~IsDuplicate(rx, o, d)
      <4>1. o <= rx.delivered /\ rx.delivered < o + Len(d)
        BY <1>3, <1>5, <3>2 DEF IsGap, IsDuplicate
      <4>2. rx' = [rx EXCEPT !.delivered = o + Len(d)]
        BY <2>1, <3>2, <1>5 DEF Accept
      <4>3. top = o + Len(d) /\ rx' \in RecvTracker
        <5>1. rx \in RecvTracker /\ o + Len(d) \in Nat
          BY <1>3
        <5> QED
          BY <4>2, <5>1 DEF RecvTracker
      <4>4. FreshBytes(rx, o, d) = Slice(rx.delivered, top)
        <5> DEFINE c == rx.delivered
                   e == o + Len(d)
        <5>1. /\ o \in Nat /\ Len(d) \in Nat /\ c \in Nat
              /\ e \in Nat /\ e <= WriteOffset(tx)
          BY <1>3
        <5>2. /\ o <= c /\ c < e /\ e <= Len(Source)
              /\ WriteOffset(tx) \in Nat /\ Len(Source) \in Nat
          BY <4>1, <5>1
        <5>3. FreshBytes(rx, o, d) = Part(Slice(o, e), c - o + 1, Len(d))
          BY <1>3 DEF FreshBytes, Part
        <5>4. e = o + Len(d)
          OBVIOUS
        <5> HIDE DEF c, e, o, d
        <5>5. /\ o <= e /\ c - o + 1 \in Nat /\ c - o + 1 # 0
              /\ c - o + 1 <= Len(d) + 1 /\ Len(d) <= e - o
              /\ c + 1 = o + (c - o + 1)
          BY <5>1, <5>2, <5>4
        <5>6. Part(Slice(o, e), c - o + 1, Len(d)) = Slice(c, e)
          BY <5>1, <5>2, <5>4, <5>5, SliceOfSlice
        <5> QED
          BY <4>3, <5>3, <5>6 DEF c, e
      <4>5. received' = Slice(0, rx.delivered) \o Slice(rx.delivered, top)
        BY <2>1, <3>2, <4>4 DEF Inv, ClientOK
      <4>6. Slice(0, rx.delivered) \o Slice(rx.delivered, top) = Slice(0, top)
        <5>1. /\ 0 \in Nat /\ rx.delivered \in Nat /\ top \in Nat
              /\ 0 <= rx.delivered /\ rx.delivered <= top /\ top <= Len(Source)
          BY <1>3, <4>1, <4>3
        <5> HIDE DEF top
        <5> QED
          BY <5>1, SliceConcat
      <4>7. o + Len(d) \in Nat /\ o + Len(d) <= WriteOffset(tx) /\ rx.delivered < o + Len(d)
        BY <1>3, <4>1
      <4>8. top \in Nat /\ rx.delivered <= top /\ top <= WriteOffset(tx) /\ rx' \in RecvTracker
        BY <4>3, <4>7 DEF RecvTracker
      <4>9. received' = Slice(0, top)
        BY <4>5, <4>6
      <4> HIDE DEF top
      <4> QED
        BY <4>8, <4>9
    <3> QED
      BY <3>1, <3>2
  <2> HIDE DEF top, d, o
  <2>3. AckFrame(top) \in Frame /\ AckFrame(top).offset = top
    BY <2>2, FramesMade
  <2>4. c2h' \in Seq(Frame) /\ Ascends(c2h', tx.acked, top)
    BY <2>1, <2>2, <2>3, ToHelperKeeps
  <2>5. tx.acked <= top
    BY <2>2
  <2> QED
    BY <1>1, <1>2, <2>1, <2>2, <2>4, <2>5
       DEF Inv, UplinkOK, ClientOK, ChannelOK, helperVars, uplinkVars, top
<1> QED
  BY <1>4, <1>5

\* The steps of the client's session loop keep the invariant.
LEMMA ClientSteps ==
  ASSUME Inv, Client
  PROVE  Inv'
<1> USE InvFacts DEF helperVars, uplinkVars
<1>1. CASE ClientHelloAck
  <2>1. /\ h2c # <<>> /\ h2c' = Tail(h2c) /\ phase' = "up" /\ Head(h2c).type = "HelloAck"
        /\ live' = (live /\ Head(h2c).resume)
        /\ UNCHANGED <<helperVars, rx, received, remote_fin, breaks>>
    BY <1>1 DEF ClientHelloAck
  <2>2. h2c' \in Seq(FramesUpTo(WriteOffset(tx))) /\ Head(h2c) \in Frame
    BY <2>1, TakenFromHelper
  <2>3. Head(h2c).resume \in BOOLEAN
    BY <2>1, <2>2 DEF Frame
  <2>4. c2h' \in Seq(Frame) /\ Ascends(c2h', tx.acked, rx.delivered)
    <3>1. CASE ToHelper(ResumeFrame(rx.delivered))
      <4>1. ResumeFrame(rx.delivered) \in Frame
            /\ ResumeFrame(rx.delivered).offset = rx.delivered
        BY FramesMade
      <4> QED
        BY <3>1, <4>1, ToHelperKeeps
    <3>2. CASE UNCHANGED c2h
      BY <3>2 DEF Inv, ChannelOK
    <3> QED
      BY <1>1, <3>1, <3>2 DEF ClientHelloAck
  <2> QED
    BY <2>1, <2>2, <2>3, <2>4, BufferUntouched DEF Inv, UplinkOK, ClientOK, ChannelOK
<1>2. CASE ClientUnexpected
  <2>1. /\ h2c' = <<>> /\ c2h' = <<>> /\ phase' = "down"
        /\ UNCHANGED <<helperVars, clientVars, breaks>>
    BY <1>2 DEF ClientUnexpected, DropChannel
  <2> QED
    BY <2>1, BufferUntouched, EmptySeq
       DEF Inv, UplinkOK, ClientOK, ChannelOK, clientVars, Ascends
<1>3. CASE ClientData
  BY <1>3, ClientDataStep
<1>4. CASE ClientFin
  <2>1. /\ h2c # <<>> /\ h2c' = Tail(h2c)
        /\ remote_fin' \in BOOLEAN /\ rx' \in RecvTracker /\ rx'.delivered = rx.delivered
        /\ UNCHANGED <<helperVars, received, live, phase, c2h, breaks>>
    BY <1>4 DEF ClientFin, Arrived, MarkFinAt, RecvTracker, Inv, ClientOK
  <2>2. h2c' \in Seq(FramesUpTo(WriteOffset(tx)))
    BY <2>1, TakenFromHelper
  <2> QED
    BY <2>1, <2>2 DEF Inv, UplinkOK, ClientOK, ChannelOK
<1>5. CASE ClientResumeOk \/ ClientTerminated
  <2>1. /\ h2c # <<>> /\ h2c' = Tail(h2c) /\ live' \in BOOLEAN
        /\ UNCHANGED <<helperVars, rx, received, remote_fin, phase, c2h, breaks>>
    BY <1>5 DEF ClientResumeOk, ClientTerminated, Arrived, clientVars, Inv, ClientOK
  <2>2. h2c' \in Seq(FramesUpTo(WriteOffset(tx)))
    BY <2>1, TakenFromHelper
  <2> QED
    BY <2>1, <2>2 DEF Inv, UplinkOK, ClientOK, ChannelOK
<1> QED
  BY <1>1, <1>2, <1>3, <1>4, <1>5 DEF Client

\* A break and a new channel keep the invariant.
LEMMA ChannelSteps ==
  ASSUME Inv, Break \/ Attach
  PROVE  Inv'
<1>1. CASE Break
  <2>1. /\ h2c' = <<>> /\ c2h' = <<>> /\ phase' = "down" /\ breaks' = breaks + 1
        /\ UNCHANGED <<helperVars, clientVars>>
    BY <1>1 DEF Break, DropChannel
  <2> QED
    BY <2>1, BufferUntouched, EmptySeq
       DEF Inv, UplinkOK, ClientOK, ChannelOK, clientVars, helperVars, uplinkVars, Ascends
<1>2. CASE Attach
  <2>1. /\ c2h' = <<Hello(live)>> /\ phase' = "hello" /\ h2c' = h2c
        /\ held' \in BOOLEAN /\ pc' \in {pc, "stopped"}
        /\ UNCHANGED <<tx, permit, chunk, cap, eof, fin_sent, clientVars, h2c, breaks>>
    BY <1>2 DEF Attach, RemoveStream, Inv, UplinkOK
  <2>2. Hello(live) \in Frame /\ Hello(live).type = "Hello"
    BY FramesMade DEF Inv, ClientOK
  <2>3. c2h' \in Seq(Frame) /\ Ascends(c2h', tx.acked, rx.delivered)
    BY <2>1, <2>2 DEF Ascends, HasOffset
  <2> QED
    BY <2>1, <2>3, BufferUntouched DEF Inv, UplinkOK, ClientOK, ChannelOK, clientVars
<1> QED
  BY <1>1, <1>2

-----------------------------------------------------------------------------
(* The theorems.                                                           *)

\* The inductive invariant holds in every reachable state: every copy of a
\* byte is the byte of Source at its offset, and the offsets the client names
\* lie between what was released and what was delivered, in ascending order.
THEOREM LinkInvariant == Spec => []LinkInv
<1>1. Init => Inv
  BY Initially
<1>2. Inv /\ [Next]_vars => Inv'
  <2> SUFFICES ASSUME Inv, [Next]_vars PROVE Inv'
    OBVIOUS
  <2>1. CASE Next
    BY <2>1, UplinkSteps, HelperSteps, ClientSteps, ChannelSteps DEF Next
  <2>2. CASE UNCHANGED vars
    BY <2>2
       DEF vars, uplinkVars, clientVars, Inv, Buffer, UplinkOK, ClientOK, ChannelOK
  <2> QED
    BY <2>1, <2>2
<1>3. Inv => LinkInv
  BY Repack
<1> QED
  BY <1>1, <1>2, <1>3, PTL DEF Spec

\* Every variable keeps its type: buffer, tracker, task states and queues.
THEOREM TypesHold == Spec => []TypeOK
<1>1. LinkInv => TypeOK
  BY DEF LinkInv
<1> QED
  BY <1>1, LinkInvariant, PTL

\* The application is given a prefix of what the egress peer sent, whatever is
\* resent, duplicated or lost in between.
THEOREM DeliveryIsExact == Spec => []ByteExact
<1>1. LinkInv => ByteExact
  BY DEF LinkInv
<1> QED
  BY <1>1, LinkInvariant, PTL

\* SendBuffer never forgets a byte that was not delivered.
THEOREM NothingLostInBuffer == Spec => []ReleasedIsDelivered
<1>1. LinkInv => ReleasedIsDelivered
  BY DEF LinkInv
<1> QED
  BY <1>1, LinkInvariant, PTL

\* A read of uplink always fits the window it was checked against.
THEOREM ReadsFit == Spec => []ReadFitsWindow
<1>1. LinkInv => ReadFitsWindow
  BY DEF LinkInv
<1> QED
  BY <1>1, LinkInvariant, PTL

\* No Ack and no Resume that reaches a helper holding the stream is refused:
\* the window always covers the gap.
THEOREM ResumesSucceed == Spec => []ResumeIsPossible
<1>1. LinkInv => ResumeIsPossible
  <2> SUFFICES ASSUME LinkInv, held, NEW i \in 1 .. Len(c2h)
               PROVE  /\ c2h[i].type = "Ack" => ~AckBeyondSent(tx, c2h[i].offset)
                      /\ c2h[i].type = "Resume" => CanRewind(tx, c2h[i].offset)
    BY DEF ResumeIsPossible
  <2>1. Inv
    BY Repack
  <2>2. /\ tx.acked \in Nat /\ rx.delivered \in Nat /\ WriteOffset(tx) \in Nat
        /\ rx.delivered <= WriteOffset(tx) /\ c2h \in Seq(Frame)
    BY <2>1, InvFacts
  <2>3. c2h[i] \in Frame
    BY <2>2, ElementOfSeq
  <2>4. HasOffset(c2h[i]) => /\ c2h[i].offset \in Nat
                             /\ tx.acked <= c2h[i].offset
                             /\ c2h[i].offset <= rx.delivered
    BY <2>3, FrameFields DEF LinkInv, OffsetsAscend
  <2> QED
    BY <2>2, <2>4 DEF HasOffset, AckBeyondSent, CanRewind, GapUnrecoverable
<1> QED
  BY <1>1, LinkInvariant, PTL

-----------------------------------------------------------------------------
(* The queue to the client, when every channel meets a fresh helper.       *)

DataOf(q) == {i \in 1 .. Len(q) : q[i].type = "Data"}

\* The Data of q joins end to end, from lo to hi, and no Fin is before any of it.
Joins(q, lo, hi) ==
  /\ \A j \in DataOf(q) : (\A k \in DataOf(q) : j <= k) => q[j].offset = lo
  /\ \A i, j \in DataOf(q) :
       i < j /\ (\A k \in DataOf(q) : k <= i \/ j <= k) => q[j].offset = EndOf(q[i])
  /\ \A i \in DataOf(q) : EndOf(q[i]) <= hi /\ ((\A k \in DataOf(q) : k <= i) => EndOf(q[i]) = hi)
  /\ DataOf(q) = {} => lo = hi
  /\ \A i \in 1 .. Len(q) : q[i].type = "Fin" => \A j \in DataOf(q) : j < i

\* The client takes the oldest frame: Data continues what it has, and behind a Fin
\* nothing is missing.
LEMMA JoinsTail ==
  ASSUME NEW q \in Seq(Frame), q # <<>>, NEW lo \in Nat, NEW hi \in Nat, Joins(q, lo, hi)
  PROVE  /\ Head(q).type = "Data" =>
              /\ Head(q).offset = lo /\ EndOf(Head(q)) <= hi
              /\ Joins(Tail(q), EndOf(Head(q)), hi)
         /\ Head(q).type # "Data" => Joins(Tail(q), lo, hi)
         /\ Head(q).type = "Fin" => lo = hi
<1> DEFINE r == Tail(q)
           n == Len(q)
<1>1. /\ r \in Seq(Frame) /\ Len(r) = n - 1 /\ n \in Nat \ {0}
      /\ Head(q) = q[1] /\ \A i \in 1 .. n - 1 : r[i] = q[i + 1]
  BY HeadTailProperties, EmptySeq
<1>2. /\ \A i \in DataOf(r) : i \in 1 .. n - 1
      /\ \A i \in 1 .. n - 1 : i \in DataOf(r) <=> i + 1 \in DataOf(q)
  <2>1. \A i \in DataOf(r) : i \in 1 .. n - 1
    BY <1>1 DEF DataOf
  <2>2. ASSUME NEW i \in 1 .. n - 1 PROVE i \in DataOf(r) <=> i + 1 \in DataOf(q)
    <3>1. i + 1 \in 1 .. Len(q) /\ i \in 1 .. Len(r) /\ r[i] = q[i + 1]
      BY <1>1, <2>2
    <3> QED
      BY <3>1 DEF DataOf
  <2> QED
    BY <2>1, <2>2
<1>3. \A i \in DataOf(q) : i \in 1 .. n
  BY DEF DataOf
<1>4. 1 \in DataOf(q) <=> Head(q).type = "Data"
  BY <1>1 DEF DataOf
<1> HIDE DEF r, n
<1>5. \A i \in DataOf(q) : i # 1 => i - 1 \in DataOf(r) /\ r[i - 1] = q[i]
  BY <1>1, <1>2, <1>3
<1>6. \A i \in DataOf(r) : i \in 1 .. n - 1 /\ i + 1 \in DataOf(q) /\ r[i] = q[i + 1]
  BY <1>1, <1>2
<1>7. ASSUME NEW i \in DataOf(r), NEW j \in DataOf(r), i < j, \A k \in DataOf(r) : k <= i \/ j <= k
      PROVE  r[j].offset = EndOf(r[i])
  <2>1. \A k \in DataOf(q) : k <= i + 1 \/ j + 1 <= k
    <3> SUFFICES ASSUME NEW k \in DataOf(q), k # 1 PROVE k <= i + 1 \/ j + 1 <= k
      BY <1>6
    <3>1. k - 1 <= i \/ j <= k - 1
      BY <1>5, <1>7
    <3> QED
      BY <1>3, <1>6, <3>1
  <2>2. /\ i + 1 \in DataOf(q) /\ j + 1 \in DataOf(q) /\ i + 1 < j + 1
        /\ r[i] = q[i + 1] /\ r[j] = q[j + 1]
    BY <1>6, <1>7
  <2>3. q[j + 1].offset = EndOf(q[i + 1])
    BY <2>1, <2>2 DEF Joins
  <2> QED
    BY <2>2, <2>3
<1>8. ASSUME NEW i \in DataOf(r)
      PROVE  EndOf(r[i]) <= hi /\ ((\A k \in DataOf(r) : k <= i) => EndOf(r[i]) = hi)
  <2>1. EndOf(q[i + 1]) <= hi
    BY <1>6 DEF Joins
  <2>2. ASSUME \A k \in DataOf(r) : k <= i PROVE \A k \in DataOf(q) : k <= i + 1
    <3> SUFFICES ASSUME NEW k \in DataOf(q), k # 1 PROVE k <= i + 1
      BY <1>6
    <3>1. k - 1 <= i
      BY <1>5, <2>2
    <3> QED
      BY <1>3, <1>6, <3>1
  <2> QED
    BY <1>6, <2>1, <2>2 DEF Joins
<1>9. ASSUME NEW i \in 1 .. Len(r), r[i].type = "Fin", NEW j \in DataOf(r) PROVE j < i
  <2>1. i + 1 \in 1 .. Len(q) /\ q[i + 1].type = "Fin" /\ i \in Nat
    BY <1>1, <1>9 DEF n
  <2>2. j + 1 < i + 1
    BY <1>6, <2>1 DEF Joins
  <2> QED
    BY <1>6, <2>1, <2>2
<1>10. CASE Head(q).type = "Data"
  <2>1. 1 \in DataOf(q) /\ \A k \in DataOf(q) : 1 <= k
    BY <1>3, <1>4, <1>10
  <2>2. Head(q).offset = lo /\ EndOf(Head(q)) <= hi
    BY <1>1, <2>1 DEF Joins
  <2>3. ASSUME NEW j \in DataOf(r), \A k \in DataOf(r) : j <= k
        PROVE  r[j].offset = EndOf(Head(q))
    <3>1. \A k \in DataOf(q) : k <= 1 \/ j + 1 <= k
      <4> SUFFICES ASSUME NEW k \in DataOf(q), k # 1 PROVE j + 1 <= k
        BY <1>3
      <4>1. j <= k - 1
        BY <1>5, <2>3
      <4> QED
        BY <1>3, <1>6, <4>1
    <3>2. j + 1 \in DataOf(q) /\ 1 < j + 1 /\ r[j] = q[j + 1]
      BY <1>6
    <3>3. q[j + 1].offset = EndOf(q[1])
      BY <2>1, <3>1, <3>2 DEF Joins
    <3> QED
      BY <1>1, <3>2, <3>3
  <2>4. ASSUME DataOf(r) = {} PROVE EndOf(Head(q)) = hi
    <3>1. \A k \in DataOf(q) : k <= 1
      BY <1>3, <1>5, <2>4
    <3> QED
      BY <1>1, <2>1, <3>1 DEF Joins
  <2>5. Joins(r, EndOf(Head(q)), hi)
    BY <1>7, <1>8, <1>9, <2>3, <2>4 DEF Joins
  <2> QED
    BY <1>10, <2>2, <2>5 DEF r
<1>11. CASE Head(q).type # "Data"
  <2>1. ASSUME NEW j \in DataOf(r), \A k \in DataOf(r) : j <= k
        PROVE  r[j].offset = lo
    <3>1. \A k \in DataOf(q) : j + 1 <= k
      <4> SUFFICES ASSUME NEW k \in DataOf(q) PROVE j + 1 <= k
        OBVIOUS
      <4>1. j <= k - 1
        BY <1>4, <1>5, <1>11, <2>1
      <4> QED
        BY <1>3, <1>6, <4>1
    <3> QED
      BY <1>6, <3>1 DEF Joins
  <2>2. DataOf(r) = {} => DataOf(q) = {}
    BY <1>4, <1>5, <1>11
  <2>3. Joins(r, lo, hi)
    BY <1>7, <1>8, <1>9, <2>1, <2>2 DEF Joins
  <2>4. ASSUME Head(q).type = "Fin" PROVE lo = hi
    <3>1. \A j \in DataOf(q) : j < 1
      BY <1>1, <2>4 DEF Joins, n
    <3>2. DataOf(q) = {}
      BY <1>3, <3>1
    <3> QED
      BY <3>2 DEF Joins
  <2> QED
    BY <1>11, <2>3, <2>4 DEF r
<1> QED
  BY <1>10, <1>11

\* The helper adds the Data at the end of what it has sent, or a frame without data.
LEMMA JoinsAppend ==
  ASSUME NEW q \in Seq(Frame), NEW lo \in Nat, NEW hi \in Nat, Joins(q, lo, hi), NEW f \in Frame
  PROVE  /\ Append(q, f) \in Seq(Frame)
         /\ f.type = "Data" /\ f.offset = hi /\ (\A i \in 1 .. Len(q) : q[i].type # "Fin") =>
              Joins(Append(q, f), lo, EndOf(f))
         /\ f.type # "Data" => Joins(Append(q, f), lo, hi)
<1> DEFINE r == Append(q, f)
           n == Len(q)
<1>1. /\ r \in Seq(Frame) /\ Len(r) = n + 1 /\ n \in Nat
      /\ r[n + 1] = f /\ \A i \in 1 .. n : r[i] = q[i]
  BY AppendProperties, LenProperties
<1>2. \A i \in DataOf(q) : i \in 1 .. n /\ i \in DataOf(r) /\ r[i] = q[i]
  BY <1>1 DEF DataOf
<1>3. \A i \in DataOf(r) : i \in DataOf(q) \/ (i = n + 1 /\ f.type = "Data")
  BY <1>1 DEF DataOf
<1>4. f.type = "Data" => n + 1 \in DataOf(r)
  BY <1>1 DEF DataOf
<1> HIDE DEF r
<1>5. CASE f.type # "Data"
  <2>1. DataOf(r) = DataOf(q)
    BY <1>2, <1>3, <1>5
  <2>2. ASSUME NEW i \in 1 .. Len(r), r[i].type = "Fin", NEW j \in DataOf(r) PROVE j < i
    <3>1. j \in DataOf(q) /\ j \in 1 .. n
      BY <1>2, <2>1
    <3>2. CASE i = n + 1
      BY <1>1, <3>1, <3>2
    <3>3. CASE i # n + 1
      <4>1. i \in 1 .. Len(q) /\ q[i].type = "Fin"
        BY <1>1, <2>2, <3>3
      <4> QED
        BY <3>1, <4>1 DEF Joins
    <3> QED
      BY <3>2, <3>3
  <2>3. Joins(r, lo, hi)
    BY <1>2, <2>1, <2>2 DEF Joins
  <2> QED
    BY <1>1, <1>5, <2>3 DEF r
<1>6. CASE f.type = "Data" /\ f.offset = hi /\ \A i \in 1 .. Len(q) : q[i].type # "Fin"
  <2>1. \A i \in DataOf(q) : i < n + 1
    BY <1>1, <1>2
  <2>2. r[n + 1] = f /\ EndOf(f) \in Nat /\ hi <= EndOf(f)
    <3>1. f.offset \in Nat /\ Len(f.data) \in Nat
      BY <1>6, FrameFields, LenProperties
    <3> QED
      BY <1>1, <1>6, <3>1 DEF EndOf
  <2>3. ASSUME NEW j \in DataOf(r), \A k \in DataOf(r) : j <= k
        PROVE  r[j].offset = lo
    <3>1. CASE j \in DataOf(q)
      BY <1>2, <2>3, <3>1 DEF Joins
    <3>2. CASE j = n + 1
      <4>1. ASSUME NEW k \in DataOf(q) PROVE FALSE
        <5>1. k \in 1 .. n /\ n + 1 <= k
          BY <1>2, <2>3, <3>2
        <5> QED
          BY <1>1, <5>1
      <4> QED
        BY <1>6, <2>2, <3>2, <4>1 DEF Joins
    <3> QED
      BY <1>3, <3>1, <3>2
  <2>4. ASSUME NEW i \in DataOf(r), NEW j \in DataOf(r), i < j, \A k \in DataOf(r) : k <= i \/ j <= k
        PROVE  r[j].offset = EndOf(r[i])
    <3>1. i \in DataOf(q)
      BY <1>1, <1>2, <1>3, <2>4
    <3>2. CASE j \in DataOf(q)
      <4>1. \A k \in DataOf(q) : k <= i \/ j <= k
        BY <1>2, <2>4
      <4> QED
        BY <1>2, <2>4, <3>1, <3>2, <4>1 DEF Joins
    <3>3. CASE j = n + 1
      <4>1. \A k \in DataOf(q) : k <= i
        BY <1>1, <1>2, <2>1, <2>4, <3>3
      <4> QED
        BY <1>2, <1>6, <2>2, <3>1, <3>3, <4>1 DEF Joins
    <3> QED
      BY <1>3, <3>2, <3>3
  <2>5. ASSUME NEW i \in DataOf(r)
        PROVE  EndOf(r[i]) <= EndOf(f) /\ ((\A k \in DataOf(r) : k <= i) => EndOf(r[i]) = EndOf(f))
    <3>1. CASE i \in DataOf(q)
      <4>1. ~(n + 1 <= i)
        BY <1>1, <1>2, <3>1
      <4>2. EndOf(q[i]) <= hi /\ EndOf(q[i]) \in Nat
        <5>1. q[i] \in Frame /\ q[i].type = "Data"
          BY <3>1, ElementOfSeq DEF DataOf
        <5>2. q[i].offset \in Nat /\ Len(q[i].data) \in Nat
          BY <5>1, FrameFields, LenProperties
        <5>3. EndOf(q[i]) \in Nat
          BY <5>2 DEF EndOf
        <5>4. EndOf(q[i]) <= hi
          BY <3>1 DEF Joins
        <5> QED
          BY <5>3, <5>4
      <4> QED
        BY <1>2, <1>4, <1>6, <2>2, <3>1, <4>1, <4>2
    <3>2. CASE i = n + 1
      BY <2>2, <3>2
    <3> QED
      BY <1>3, <3>1, <3>2
  <2>6. ASSUME NEW i \in 1 .. Len(r), r[i].type = "Fin" PROVE FALSE
    BY <1>1, <1>6, <2>2, <2>6
  <2>7. DataOf(r) # {}
    BY <1>4, <1>6
  <2>8. Joins(r, lo, EndOf(f))
    BY <2>3, <2>4, <2>5, <2>6, <2>7 DEF Joins
  <2> QED
    BY <1>1, <1>6, <2>8 DEF r
<1>7. r \in Seq(Frame)
  BY <1>1
<1> QED
  BY <1>5, <1>6, <1>7 DEF r

-----------------------------------------------------------------------------
(* FramesInOrder, repacked: queues by the frames they may hold.             *)

FinFree == {f \in Frame : f.type # "Fin"}
NoResume == {f \in Frame : f.type # "Resume"}
NoHello == {f \in Frame : f.type # "Hello"}
NotResumed == {f \in Frame : f.type = "HelloAck" => ~f.resume}

InLine(top) ==
  /\ Joins(h2c, rx.delivered, top)
  /\ h2c \notin Seq(FinFree) => fin_sent /\ top = WriteOffset(tx)
  /\ held /\ phase = "up" => top = Queued

Line == live => \E top \in 0 .. WriteOffset(tx) : InLine(top)

UplinkInStep ==
  /\ pc = "stopped" => ~held
  /\ ~held => pc \in {"stopped", "failed"}
  /\ held => rx.delivered <= Queued
  /\ pc = "send" => EndOf(chunk) = tx.cursor
  /\ fin_sent => eof /\ tx.cursor = WriteOffset(tx) /\ pc # "send"
  /\ pc = "fin" => eof /\ tx.cursor = WriteOffset(tx)
  /\ pc \in {"read", "failed"} => ~eof

FirstChannel ==
  /\ phase # "up" => breaks > 0
  /\ breaks > 0 /\ phase # "down" => ~held
  /\ c2h \in Seq(NoResume) /\ (held => c2h \in Seq(NoHello))
  /\ h2c \in Seq(NotResumed)

Order == FinIsLast /\ Line /\ UplinkInStep /\ FirstChannel

\* What the steps below read of a state.
LEMMA OrderFacts ==
  ASSUME Inv, Order
  PROVE  /\ h2c \in Seq(Frame) /\ c2h \in Seq(Frame)
         /\ tx.acked \in Nat /\ tx.cursor \in Nat /\ WriteOffset(tx) \in Nat
         /\ tx.cursor <= WriteOffset(tx) /\ tx.acked <= rx.delivered
         /\ rx \in RecvTracker /\ rx.delivered \in Nat /\ rx.delivered <= WriteOffset(tx)
         /\ pc \in UplinkPC /\ phase \in {"down", "hello", "up"} /\ breaks \in Nat
         /\ chunk.offset \in Nat /\ chunk.data \in Seq(Byte) /\ Len(chunk.data) \in Nat
         /\ Queued \in Nat /\ Queued <= tx.cursor
<1>1. h2c \in Seq(Frame)
  <2>1. \A f \in FramesUpTo(WriteOffset(tx)) : f \in Frame
    BY DEF FramesUpTo
  <2> QED
    BY <2>1, InvFacts, SeqMonotonic
<1>2. /\ tx \in SendBuffer(Byte) /\ tx.acked \in Nat /\ tx.cursor \in Nat
      /\ WriteOffset(tx) \in Nat /\ tx.cursor <= WriteOffset(tx)
  BY BufferFields DEF Inv, Buffer
<1>3. chunk.offset \in Nat /\ chunk.data \in Seq(Byte) /\ Len(chunk.data) \in Nat
  <2>1. chunk \in [offset : Nat, data : Seq(Byte)]
    BY DEF Inv, UplinkOK
  <2> QED
    BY <2>1, LenProperties
<1>4. Queued \in Nat /\ Queued <= tx.cursor
  BY <1>2, <1>3 DEF Order, UplinkInStep, Queued, EndOf
<1> QED
  BY <1>1, <1>2, <1>3, <1>4, InvFacts DEF Inv, UplinkOK, ChannelOK

\* A queue is a sequence over a set when each of its frames is in it.
LEMMA SeqOver ==
  ASSUME NEW S, NEW T, NEW q \in Seq(S), \A i \in 1 .. Len(q) : q[i] \in T
  PROVE  q \in Seq(T)
<1>1. q \in [1 .. Len(q) -> S] /\ Len(q) \in Nat
  BY LenProperties
<1>2. q \in [1 .. Len(q) -> T]
  BY <1>1
<1> QED
  BY <1>1, <1>2, SeqDef

\* The stream starts on an empty channel.
LEMMA OrderInitially == Init => Order
<1> SUFFICES ASSUME Init PROVE Order
  OBVIOUS
<1>1. Inv /\ Buffer(tx)
  BY Initially DEF Inv
<1>2. /\ h2c = <<>> /\ c2h = <<>> /\ rx.delivered = 0 /\ tx.cursor = 0 /\ WriteOffset(tx) = 0
      /\ Len(h2c) = 0
  BY EmptySeq DEF Init, NewSendBuffer, NewRecvTracker, WriteOffset
<1>3. InLine(0)
  <2>1. h2c \in Seq(FinFree)
    BY <1>2, EmptySeq
  <2>2. DataOf(h2c) = {}
    BY <1>2 DEF DataOf
  <2>3. Queued = 0
    BY <1>2 DEF Init, Queued
  <2> QED
    BY <1>2, <2>1, <2>2, <2>3 DEF InLine, Joins
<1>4. Line
  BY <1>2, <1>3 DEF Line
<1>5. UplinkInStep
  BY <1>2 DEF Init, UplinkInStep, Queued
<1>6. FirstChannel
  BY <1>2, EmptySeq DEF Init, FirstChannel
<1> QED
  BY <1>4, <1>5, <1>6 DEF Order, FinIsLast, Init

\* The repacked invariant gives back the one that is checked.
LEMMA OrderRepacked ==
  ASSUME Inv, Order
  PROVE  FramesInOrder
<1> USE OrderFacts
<1>1. DataAt = DataOf(h2c)
  BY DEF DataAt, DataOf
<1>2. ASSUME NEW top \in 0 .. WriteOffset(tx), InLine(top) PROVE EndToEnd(top)
  <2>1. ASSUME NEW i \in 1 .. Len(h2c), h2c[i].type = "Fin"
        PROVE  fin_sent /\ top = WriteOffset(tx)
    <3>1. h2c \notin Seq(FinFree)
      BY <2>1, ElementOfSeq DEF FinFree
    <3> QED
      BY <1>2, <3>1 DEF InLine
  <2> QED
    BY <1>1, <1>2, <2>1 DEF InLine, Joins, EndToEnd
<1>3. QueueInOrder
  BY <1>2 DEF Order, Line, QueueInOrder, InLine
<1>4. NoHole
  <2> SUFFICES ASSUME live, h2c # <<>>, Head(h2c).type = "Data"
               PROVE  ~IsGap(rx, Head(h2c).offset, Head(h2c).data)
    BY DEF NoHole
  <2>1. PICK top \in 0 .. WriteOffset(tx) : InLine(top)
    BY DEF Order, Line
  <2>2. top \in Nat /\ Joins(h2c, rx.delivered, top)
    BY <2>1 DEF InLine
  <2>3. Head(h2c).offset = rx.delivered
    BY <2>2, JoinsTail
  <2> QED
    BY <2>3 DEF IsGap
<1>5. SentOnce
  <2>1. ASSUME NEW i \in 1 .. Len(c2h)
        PROVE  c2h[i].type # "Resume" /\ (c2h[i].type = "Hello" => ~held)
    BY ElementOfSeq DEF Order, FirstChannel, NoResume, NoHello
  <2>2. ASSUME NEW i \in 1 .. Len(h2c) PROVE h2c[i].type = "HelloAck" => ~h2c[i].resume
    BY ElementOfSeq DEF Order, FirstChannel, NotResumed
  <2> QED
    BY <2>1, <2>2 DEF SentOnce, Order, FirstChannel, UplinkInStep
<1> QED
  BY <1>3, <1>4, <1>5 DEF FramesInOrder, Order

\* A step that leaves the queue to the client and what was delivered alone.
LEMMA LineUntouched ==
  ASSUME Order, h2c' = h2c, rx'.delivered = rx.delivered, WriteOffset(tx') = WriteOffset(tx),
         live' => live, fin_sent => fin_sent',
         held' /\ phase' = "up" => held /\ phase = "up" /\ Queued' = Queued
  PROVE  Line'
BY DEF Order, Line, InLine

\* The channel is dropped with all that is in it.
LEMMA LineDropped ==
  ASSUME Inv, DropChannel, UNCHANGED <<rx, tx>>
  PROVE  Line'
<1>1. h2c' = <<>> /\ phase' = "down" /\ rx'.delivered = rx.delivered /\ tx' = tx
  BY DEF DropChannel
<1>2. rx.delivered \in 0 .. WriteOffset(tx)
  BY InvFacts
<1>3. h2c' \in Seq(FinFree) /\ DataOf(h2c') = {} /\ Len(h2c') = 0
  BY <1>1, EmptySeq DEF DataOf
<1>4. Joins(h2c', rx.delivered, rx.delivered)
  BY <1>3 DEF Joins
<1>5. InLine(rx.delivered)'
  BY <1>1, <1>3, <1>4 DEF InLine
<1> QED
  BY <1>1, <1>2, <1>5 DEF Line

\* A helper that holds the stream and has a channel is on the first one.
LEMMA HeldIsUp ==
  ASSUME Order, held, phase # "down"
  PROVE  phase = "up"
BY DEF Order, FirstChannel

\* The helper queues a frame without data, and a Fin only behind everything.
LEMMA LineSignal ==
  ASSUME Inv, Order, NEW f \in Frame, f.type # "Data", ToClient(f),
         f.type = "Fin" => fin_sent' /\ held /\ Queued = WriteOffset(tx),
         UNCHANGED <<tx, rx, live, phase>>, fin_sent => fin_sent',
         held' => held /\ Queued' = Queued
  PROVE  Line'
<1> USE OrderFacts
<1>1. CASE phase = "down"
  BY <1>1, LineUntouched DEF ToClient
<1>2. CASE phase # "down"
  <2>1. h2c' = Append(h2c, f)
    BY <1>2 DEF ToClient
  <2> SUFFICES ASSUME live PROVE \E top \in 0 .. WriteOffset(tx) : InLine(top)'
    BY DEF Line
  <2>2. PICK top \in 0 .. WriteOffset(tx) : InLine(top)
    BY DEF Order, Line
  <2>3. Joins(h2c', rx.delivered, top)
    BY <2>1, <2>2, JoinsAppend DEF InLine
  <2>4. h2c' \notin Seq(FinFree) => fin_sent' /\ top = WriteOffset(tx)
    <3>1. CASE h2c \notin Seq(FinFree)
      BY <2>2, <3>1 DEF InLine
    <3>2. CASE f.type = "Fin"
      BY <1>2, <2>2, <3>2, HeldIsUp DEF InLine
    <3>3. CASE h2c \in Seq(FinFree) /\ f.type # "Fin"
      BY <2>1, <3>3, AppendProperties DEF FinFree
    <3> QED
      BY <3>1, <3>2, <3>3
  <2>5. held' /\ phase' = "up" => top = Queued'
    BY <2>2 DEF InLine
  <2>6. InLine(top)'
    BY <2>3, <2>4, <2>5 DEF InLine
  <2> QED
    BY <2>6
<1> QED
  BY <1>1, <1>2

\* The steps of uplink keep the order.
LEMMA UplinkInOrder ==
  ASSUME Inv, Order, Uplink, Inv'
  PROVE  Order'
<1> USE OrderFacts
<1>1. CASE TakeUnsent
  <2>1. /\ pc = "flush" /\ HasPending(tx) /\ pc' = "send"
        /\ chunk' = [offset |-> tx.cursor, data |-> NextUnsent(tx, Chunk)]
        /\ tx' = AdvanceCursor(tx, Chunk)
        /\ UNCHANGED <<permit, cap, eof, fin_sent, held, clientVars, phase, h2c, c2h, breaks>>
    BY <1>1 DEF TakeUnsent
  <2>2. /\ WriteOffset(tx') = WriteOffset(tx)
        /\ tx'.cursor = tx.cursor + UnsentCount(tx, Chunk)
        /\ Len(NextUnsent(tx, Chunk)) = UnsentCount(tx, Chunk)
    <3>1. tx \in SendBuffer(Byte)
      BY InvFacts
    <3> QED
      BY <2>1, <3>1, UnsentBuffer DEF Inv, AdvanceCursor, SendBuffer
  <2>3. Queued' = Queued
    BY <2>1 DEF Queued
  <2>4. EndOf(chunk') = tx'.cursor
    BY <2>1, <2>2 DEF EndOf
  <2>5. Line'
    BY <2>1, <2>2, <2>3, LineUntouched DEF clientVars
  <2>6. UplinkInStep'
    BY <2>1, <2>2, <2>3, <2>4 DEF Order, UplinkInStep, clientVars, HasPending
  <2> QED
    BY <2>1, <2>2, <2>5, <2>6 DEF Order, FinIsLast, FirstChannel, clientVars
<1>2. CASE SendChunk
  <2> DEFINE f == Data(chunk.offset, chunk.data)
  <2>1. /\ pc = "send" /\ ToClient(f) /\ pc' = "flush"
        /\ UNCHANGED <<tx, permit, cap, eof, fin_sent, held, clientVars, phase, c2h, breaks>>
    BY <1>2 DEF SendChunk
  <2>2. f \in Frame /\ f.type = "Data" /\ f.offset = chunk.offset /\ f.data = chunk.data
    BY FramesMade
  <2> HIDE DEF f
  <2>3. held /\ ~fin_sent /\ EndOf(chunk) = tx.cursor
    BY <2>1 DEF Order, UplinkInStep
  <2>4. EndOf(f) = tx.cursor /\ Queued = f.offset /\ Queued' = tx.cursor
    BY <2>1, <2>2, <2>3 DEF EndOf, Queued
  <2>5. Line'
    <3>1. CASE phase = "down"
      BY <2>1, <3>1, LineUntouched DEF ToClient, clientVars
    <3>2. CASE phase # "down"
      <4>1. phase = "up" /\ h2c' = Append(h2c, f)
        BY <2>1, <2>3, <3>2, HeldIsUp DEF ToClient
      <4> SUFFICES ASSUME live PROVE \E top \in 0 .. WriteOffset(tx) : InLine(top)'
        BY <2>1 DEF Line, clientVars
      <4>2. PICK top \in 0 .. WriteOffset(tx) : InLine(top)
        BY DEF Order, Line
      <4>3. top = f.offset /\ h2c \in Seq(FinFree)
        BY <2>3, <2>4, <4>1, <4>2 DEF InLine
      <4>4. \A i \in 1 .. Len(h2c) : h2c[i].type # "Fin"
        BY <4>3, ElementOfSeq DEF FinFree
      <4>5. Joins(h2c', rx.delivered, EndOf(f))
        <5>1. Joins(h2c, rx.delivered, top)
          BY <4>2 DEF InLine
        <5> QED
          BY <2>2, <4>1, <4>3, <4>4, <5>1, JoinsAppend
      <4>6. h2c' \in Seq(FinFree)
        BY <2>2, <4>1, <4>3, AppendProperties DEF FinFree
      <4>7. InLine(tx.cursor)'
        BY <2>1, <2>4, <4>5, <4>6 DEF InLine, clientVars
      <4>8. tx.cursor \in 0 .. WriteOffset(tx) /\ tx' = tx
        BY <2>1
      <4> QED
        BY <4>7, <4>8
    <3> QED
      BY <3>1, <3>2
  <2>6. UplinkInStep'
    BY <2>1, <2>3, <2>4 DEF Order, UplinkInStep, clientVars
  <2>7. FirstChannel'
    <3>1. h2c' \in Seq(NotResumed)
      BY <2>1, <2>2, AppendProperties DEF ToClient, NotResumed, Order, FirstChannel
    <3> QED
      BY <2>1, <3>1 DEF Order, FirstChannel
  <2> QED
    BY <2>1, <2>5, <2>6, <2>7 DEF Order, FinIsLast, clientVars
<1>3. CASE NothingUnsent
  <2>1. /\ pc = "flush" /\ ~HasPending(tx) /\ pc' = (IF eof /\ ~fin_sent THEN "fin" ELSE "check")
        /\ UNCHANGED <<tx, chunk, eof, fin_sent, held, clientVars, phase, h2c, c2h, breaks>>
    BY <1>3 DEF NothingUnsent
  <2>2. held /\ Queued' = Queued /\ tx.cursor = WriteOffset(tx)
    BY <2>1 DEF Order, UplinkInStep, Queued, HasPending
  <2>3. Line'
    BY <2>1, <2>2, LineUntouched DEF clientVars
  <2>4. UplinkInStep' /\ FirstChannel'
    BY <2>1, <2>2 DEF Order, UplinkInStep, FirstChannel, clientVars
  <2> QED
    BY <2>1, <2>3, <2>4 DEF Order, FinIsLast, clientVars
<1>4. CASE Check \/ Notified \/ ReadFails
  <2>1. /\ pc \in {"check", "wait", "read"} /\ pc' \in {"done", "wait", "read", "flush", "failed"}
        /\ pc' = "read" => ~eof
        /\ pc' = "failed" => pc = "read"
        /\ UNCHANGED <<tx, chunk, eof, fin_sent, held, clientVars, phase, h2c, c2h, breaks>>
    BY <1>4 DEF Check, Notified, ReadFails
  <2>2. Queued' = Queued
    BY <2>1 DEF Queued
  <2>3. Line'
    BY <2>1, <2>2, LineUntouched DEF clientVars
  <2>4. UplinkInStep' /\ FirstChannel'
    BY <2>1, <2>2 DEF Order, UplinkInStep, FirstChannel, clientVars
  <2> QED
    BY <2>1, <2>3, <2>4 DEF Order, FinIsLast, clientVars
<1>5. CASE ReadBytes
  <2>1. PICK n \in 1 .. cap :
          /\ WriteOffset(tx) + n <= Len(Source)
          /\ tx' = Push(tx, SubSeq(Source, WriteOffset(tx) + 1, WriteOffset(tx) + n))
    BY <1>5 DEF ReadBytes
  <2>2. /\ pc = "read" /\ pc' = "flush"
        /\ UNCHANGED <<permit, chunk, cap, eof, fin_sent, held, clientVars, phase, h2c, c2h, breaks>>
    BY <1>5 DEF ReadBytes
  <2>3. /\ WriteOffset(tx') \in Nat /\ WriteOffset(tx) <= WriteOffset(tx')
        /\ tx'.cursor = tx.cursor
    <3>1. n \in Nat /\ n <= Writable(tx)
      <4>1. cap \in Nat /\ cap <= Writable(tx) /\ Writable(tx) \in Nat
        BY <2>2, InvFacts, BufferFields DEF UplinkOK, Inv, Writable, GreaterOf
      <4> QED
        BY <4>1
    <3>2. WriteOffset(tx') = WriteOffset(tx) + n
      BY <2>1, <3>1, PushBuffer DEF Inv
    <3>3. tx'.cursor = tx.cursor
      BY <2>1, InvFacts DEF Push, SendBuffer
    <3> QED
      BY <3>1, <3>2, <3>3
  <2>4. ~eof /\ ~fin_sent /\ ~remote_fin
    BY <2>2 DEF Order, UplinkInStep, FinIsLast
  <2>5. Queued' = Queued
    BY <2>2, <2>3 DEF Queued
  <2>6. Line'
    <3>1. ASSUME NEW top \in 0 .. WriteOffset(tx), InLine(top)
          PROVE  top \in 0 .. WriteOffset(tx') /\ InLine(top)'
      BY <2>2, <2>3, <2>4, <2>5, <3>1 DEF InLine, clientVars
    <3> QED
      BY <2>2, <3>1 DEF Order, Line, clientVars
  <2>7. UplinkInStep' /\ FirstChannel'
    BY <2>2, <2>3, <2>4, <2>5 DEF Order, UplinkInStep, FirstChannel, clientVars
  <2> QED
    BY <2>2, <2>4, <2>6, <2>7 DEF Order, FinIsLast, clientVars
<1>6. CASE ReadEof
  <2>1. /\ pc = "read" /\ pc' = "flush" /\ eof' = TRUE /\ tx' = MarkFin(tx)
        /\ UNCHANGED <<permit, chunk, cap, fin_sent, held, clientVars, phase, h2c, c2h, breaks>>
    BY <1>6 DEF ReadEof
  <2>2. WriteOffset(tx') = WriteOffset(tx) /\ tx'.cursor = tx.cursor
    BY <2>1, InvFacts DEF MarkFin, SendBuffer, WriteOffset
  <2>3. Queued' = Queued
    BY <2>1, <2>2 DEF Queued
  <2>4. Line'
    BY <2>1, <2>2, <2>3, LineUntouched DEF clientVars
  <2>5. UplinkInStep' /\ FirstChannel'
    BY <2>1, <2>2, <2>3 DEF Order, UplinkInStep, FirstChannel, clientVars
  <2> QED
    BY <2>1, <2>2, <2>4, <2>5 DEF Order, FinIsLast, clientVars
<1>7. CASE SendFin
  <2>1. /\ pc = "fin" /\ ToClient(Signal("Fin")) /\ fin_sent' = TRUE /\ pc' = "check"
        /\ UNCHANGED <<tx, chunk, eof, held, clientVars, phase, c2h, breaks>>
    BY <1>7 DEF SendFin
  <2>2. /\ held /\ eof /\ Queued' = Queued /\ Queued = WriteOffset(tx)
        /\ tx.cursor = WriteOffset(tx)
    BY <2>1 DEF Order, UplinkInStep, Queued
  <2>3. Signal("Fin") \in Frame /\ Signal("Fin").type = "Fin"
    BY FramesMade
  <2>4. Line'
    BY <2>1, <2>2, <2>3, LineSignal DEF clientVars
  <2>5. h2c' \in Seq(NotResumed)
    BY <2>1, <2>3, AppendProperties DEF ToClient, NotResumed, Order, FirstChannel
  <2>6. UplinkInStep' /\ FirstChannel'
    BY <2>1, <2>2, <2>5 DEF Order, UplinkInStep, FirstChannel, clientVars
  <2> QED
    BY <2>1, <2>4, <2>6 DEF Order, FinIsLast, clientVars
<1> QED
  BY <1>1, <1>2, <1>3, <1>4, <1>5, <1>6, <1>7 DEF Uplink

\* Taking a frame from the client leaves no Resume, and no Hello a holder would hear.
LEMMA CallsTaken ==
  ASSUME Inv, Order, c2h # <<>>, c2h' = Tail(c2h)
  PROVE  /\ c2h' \in Seq(NoResume) /\ (held => c2h' \in Seq(NoHello))
         /\ Head(c2h) \in Frame /\ Head(c2h).type # "Resume"
         /\ Head(c2h).type = "Hello" => ~held
BY OrderFacts, HeadTailProperties DEF Order, FirstChannel, NoResume, NoHello

\* A confirmation moves the start of the window and, before a resume, nothing else.
LEMMA AckOnlyReleases ==
  ASSUME Inv, Order, HelperAck
  PROVE  /\ c2h # <<>> /\ c2h' = Tail(c2h)
         /\ WriteOffset(tx') = WriteOffset(tx) /\ tx'.cursor = tx.cursor
         /\ UNCHANGED <<held, pc, h2c, chunk, cap, eof, fin_sent, clientVars, phase, breaks>>
<1> USE OrderFacts
<1> DEFINE offset == Head(c2h).offset
<1>1. /\ c2h # <<>> /\ c2h' = Tail(c2h) /\ HasOffset(Head(c2h))
      /\ UNCHANGED <<chunk, cap, eof, fin_sent, clientVars, phase, breaks>>
  BY DEF HelperAck, Received, HasOffset
<1>2. offset \in Nat /\ tx.acked <= offset /\ offset <= rx.delivered
  BY <1>1, TakenFromClient
<1> HIDE DEF offset
<1>3. ~AckBeyondSent(tx, offset)
  BY <1>2 DEF AckBeyondSent
<1>4. /\ tx' = IF held THEN Ack(tx, offset) ELSE tx
      /\ UNCHANGED <<held, pc, h2c>>
  BY <1>3 DEF HelperAck, offset
<1>5. WriteOffset(tx') = WriteOffset(tx) /\ tx'.cursor = tx.cursor
  <2>1. CASE held
    <3>1. WriteOffset(tx') = WriteOffset(tx)
      <4>1. offset <= WriteOffset(tx) /\ Buffer(tx)
        BY <1>2 DEF Inv
      <4> QED
        BY <1>2, <1>4, <2>1, <4>1, AckBuffer
    <3>2. offset <= tx.cursor /\ ~(offset < tx.acked)
      BY <1>2, <2>1 DEF Order, UplinkInStep
    <3>3. tx'.cursor = GreaterOf(tx.cursor, offset)
      BY <1>4, <2>1, <3>2, InvFacts DEF Ack, SendBuffer
    <3> QED
      BY <1>2, <3>1, <3>2, <3>3 DEF GreaterOf
  <2> QED
    BY <1>4, <2>1
<1> QED
  BY <1>1, <1>4, <1>5

\* The steps of the helper's main loop keep the order.
LEMMA HelperInOrder ==
  ASSUME Inv, Order, HelperMain, Inv'
  PROVE  Order'
<1> USE OrderFacts DEF clientVars
<1>1. CASE HelperHello
  <2>1. /\ c2h # <<>> /\ c2h' = Tail(c2h) /\ Head(c2h).type = "Hello"
        /\ UNCHANGED <<tx, permit, chunk, cap, eof, fin_sent, clientVars, phase, breaks>>
    BY <1>1 DEF HelperHello, Received
  <2>2. ~held
    BY <2>1, CallsTaken
  <2>3. held' = FALSE /\ pc' \in {pc, "stopped"} \cap {"failed", "stopped"}
        /\ ToClient(HelloAck(FALSE))
    BY <1>1, <2>2 DEF HelperHello, RemoveStream, Order, UplinkInStep
  <2>4. HelloAck(FALSE) \in Frame /\ HelloAck(FALSE).type = "HelloAck" /\ ~HelloAck(FALSE).resume
    BY FramesMade DEF HelloAck
  <2>5. Line'
    BY <2>1, <2>3, <2>4, LineSignal
  <2>6. h2c' \in Seq(NotResumed)
    BY <2>3, <2>4, AppendProperties DEF ToClient, NotResumed, Order, FirstChannel
  <2>7. UplinkInStep' /\ FirstChannel'
    BY <2>1, <2>2, <2>3, <2>6, CallsTaken DEF Order, UplinkInStep, FirstChannel
  <2> QED
    BY <2>1, <2>5, <2>7 DEF Order, FinIsLast
<1>2. CASE HelperAck
  <2>1. /\ c2h # <<>> /\ c2h' = Tail(c2h)
        /\ WriteOffset(tx') = WriteOffset(tx) /\ tx'.cursor = tx.cursor
        /\ UNCHANGED <<held, pc, h2c, chunk, cap, eof, fin_sent, clientVars, phase, breaks>>
    BY <1>2, AckOnlyReleases
  <2>2. Queued' = Queued
    BY <2>1 DEF Queued
  <2>3. Line'
    BY <2>1, <2>2, LineUntouched
  <2>4. UplinkInStep' /\ FirstChannel'
    BY <2>1, <2>2, CallsTaken DEF Order, UplinkInStep, FirstChannel
  <2> QED
    BY <2>1, <2>3, <2>4 DEF Order, FinIsLast
<1>3. CASE HelperResume
  BY <1>3, CallsTaken DEF HelperResume, Received
<1>4. CASE HelperReset \/ HelperFinished
  <2>1. /\ held' \in BOOLEAN /\ (held' => held)
        /\ IF held' THEN pc' = pc ELSE pc' = "stopped" \/ (pc' = "failed" /\ pc = "failed")
        /\ c2h' = c2h \/ (c2h # <<>> /\ c2h' = Tail(c2h))
        /\ UNCHANGED <<tx, permit, chunk, cap, eof, fin_sent, clientVars, phase, h2c, breaks>>
    BY <1>4 DEF HelperReset, HelperFinished, Received, RemoveStream, Order, UplinkInStep, Inv, UplinkOK
  <2>2. held' => Queued' = Queued
    BY <2>1 DEF Queued
  <2>3. Line'
    BY <2>1, <2>2, LineUntouched
  <2>4. c2h' \in Seq(NoResume) /\ (held' => c2h' \in Seq(NoHello))
    BY <2>1, CallsTaken DEF Order, FirstChannel
  <2>5. UplinkInStep' /\ FirstChannel'
    BY <2>1, <2>2, <2>4 DEF Order, UplinkInStep, FirstChannel
  <2> QED
    BY <2>1, <2>3, <2>5 DEF Order, FinIsLast
<1>5. CASE HelperFailed
  <2>1. /\ held' = FALSE /\ pc' = "stopped" /\ ToClient(Signal("Reset"))
        /\ UNCHANGED <<tx, permit, chunk, cap, eof, fin_sent, clientVars, phase, c2h, breaks>>
    BY <1>5 DEF HelperFailed
  <2>2. Signal("Reset") \in Frame /\ Signal("Reset").type = "Reset"
    BY FramesMade
  <2>3. Line'
    BY <2>1, <2>2, LineSignal
  <2>4. h2c' \in Seq(NotResumed)
    BY <2>1, <2>2, AppendProperties DEF ToClient, NotResumed, Order, FirstChannel
  <2>5. UplinkInStep' /\ FirstChannel'
    BY <2>1, <2>4 DEF Order, UplinkInStep, FirstChannel
  <2> QED
    BY <2>1, <2>3, <2>5 DEF Order, FinIsLast
<1> QED
  BY <1>1, <1>2, <1>3, <1>4, <1>5 DEF HelperMain

\* The client takes the oldest frame from the queue.
LEMMA LineTaken ==
  ASSUME Inv, Order, h2c # <<>>, h2c' = Tail(h2c), UNCHANGED <<helperVars, phase>>,
         live' => live /\ rx'.delivered = (IF Head(h2c).type = "Data" THEN EndOf(Head(h2c))
                                                                     ELSE rx.delivered)
  PROVE  Line'
<1> USE OrderFacts DEF helperVars, uplinkVars
<1> SUFFICES ASSUME live' PROVE \E top \in 0 .. WriteOffset(tx) : InLine(top)'
  BY DEF Line
<1>1. PICK top \in 0 .. WriteOffset(tx) : InLine(top)
  BY DEF Order, Line
<1>2. Joins(Tail(h2c), rx'.delivered, top)
  BY <1>1, JoinsTail DEF InLine
<1>3. h2c \in Seq(FinFree) => h2c' \in Seq(FinFree)
  BY HeadTailProperties
<1>4. Queued' = Queued
  BY DEF Queued
<1>5. InLine(top)'
  BY <1>1, <1>2, <1>3, <1>4 DEF InLine
<1> QED
  BY <1>5

\* Data that reaches a live stream continues it, even when it is empty.
LEMMA DataContinues ==
  ASSUME Inv, Order, live, h2c # <<>>, Head(h2c).type = "Data"
  PROVE  LET f == Head(h2c)
         IN  /\ f.offset = rx.delivered
             /\ ~IsGap(rx, f.offset, f.data)
             /\ Accept(rx, f.offset, f.data).delivered = EndOf(f)
             /\ rx.delivered <= EndOf(f)
<1> USE OrderFacts
<1> DEFINE f == Head(h2c)
<1>1. PICK top \in 0 .. WriteOffset(tx) : InLine(top)
  BY DEF Order, Line
<1>2. f.offset = rx.delivered
  BY <1>1, JoinsTail DEF InLine
<1>3. f.data \in Seq(Byte) /\ Len(f.data) \in Nat
  <2>1. f \in Frame
    BY HeadTailProperties
  <2> QED
    BY <2>1, FrameFields, LenProperties
<1> HIDE DEF f
<1>4. Accept(rx, f.offset, f.data).delivered = EndOf(f)
  <2>1. CASE Len(f.data) = 0
    BY <1>2, <2>1 DEF Accept, IsDuplicate, EndOf
  <2>2. CASE Len(f.data) # 0
    <3>1. ~IsDuplicate(rx, f.offset, f.data) /\ ~IsGap(rx, f.offset, f.data)
      BY <1>2, <1>3, <2>2 DEF IsDuplicate, IsGap
    <3>2. Accept(rx, f.offset, f.data) = [rx EXCEPT !.delivered = f.offset + Len(f.data)]
      BY <3>1 DEF Accept
    <3> QED
      BY <3>2 DEF EndOf, RecvTracker
  <2> QED
    BY <2>1, <2>2
<1>5. ~IsGap(rx, f.offset, f.data) /\ rx.delivered <= EndOf(f)
  BY <1>2, <1>3 DEF IsGap, EndOf
<1> QED
  BY <1>2, <1>4, <1>5 DEF f

\* The steps of the client's session loop keep the order.
LEMMA ClientInOrder ==
  ASSUME Inv, Order, Client, Inv'
  PROVE  Order'
<1> USE OrderFacts DEF helperVars, uplinkVars, clientVars
<1>1. ASSUME h2c # <<>>, h2c' = Tail(h2c)
      PROVE  h2c' \in Seq(NotResumed) /\ Head(h2c) \in NotResumed /\ Head(h2c) \in Frame
  BY <1>1, HeadTailProperties DEF Order, FirstChannel
<1>2. CASE ClientHelloAck
  <2>1. /\ h2c # <<>> /\ h2c' = Tail(h2c) /\ Head(h2c).type = "HelloAck"
        /\ phase = "hello" /\ phase' = "up"
        /\ UNCHANGED <<helperVars, rx, received, remote_fin, breaks>>
    BY <1>2 DEF ClientHelloAck
  <2>2. ~Head(h2c).resume
    BY <1>1, <2>1 DEF NotResumed
  <2>3. live' = FALSE /\ c2h' = c2h
    BY <1>2, <2>2 DEF ClientHelloAck
  <2>4. Line'
    BY <2>3 DEF Line
  <2>5. Queued' = Queued
    BY <2>1 DEF Queued
  <2>6. UplinkInStep' /\ FirstChannel'
    BY <1>1, <2>1, <2>3, <2>5 DEF Order, UplinkInStep, FirstChannel
  <2> QED
    BY <2>1, <2>4, <2>6 DEF Order, FinIsLast
<1>3. CASE ClientUnexpected
  <2>1. /\ phase = "hello" /\ DropChannel /\ UNCHANGED <<helperVars, clientVars, breaks>>
        /\ h2c' = <<>> /\ c2h' = <<>> /\ phase' = "down"
    BY <1>3 DEF ClientUnexpected, DropChannel
  <2>2. Line'
    BY <2>1, LineDropped
  <2>3. Queued' = Queued
    BY <2>1 DEF Queued
  <2>4. UplinkInStep' /\ FirstChannel'
    BY <2>1, <2>3, EmptySeq DEF Order, UplinkInStep, FirstChannel
  <2> QED
    BY <2>1, <2>2, <2>4 DEF Order, FinIsLast
<1>4. CASE ClientData
  <2> DEFINE f == Head(h2c)
  <2>1. /\ h2c # <<>> /\ h2c' = Tail(h2c) /\ f.type = "Data" /\ phase = "up"
        /\ UNCHANGED <<helperVars, remote_fin, phase, breaks>>
    BY <1>4 DEF ClientData, Arrived
  <2>2. Queued' = Queued
    BY <2>1 DEF Queued
  <2>3. CASE ~live
    <3>1. live' = FALSE /\ ToHelper(Signal("Reset")) /\ UNCHANGED <<rx, received>>
      BY <1>4, <2>3 DEF ClientData
    <3>2. Signal("Reset") \in NoResume /\ Signal("Reset") \in NoHello
      BY FramesMade DEF NoResume, NoHello
    <3>3. c2h' \in Seq(NoResume) /\ (held => c2h' \in Seq(NoHello))
      BY <3>1, <3>2, AppendProperties DEF ToHelper, Order, FirstChannel
    <3>4. Line'
      BY <3>1 DEF Line
    <3>5. UplinkInStep' /\ FirstChannel'
      BY <1>1, <2>1, <2>2, <3>1, <3>3 DEF Order, UplinkInStep, FirstChannel
    <3> QED
      BY <2>1, <3>1, <3>4, <3>5 DEF Order, FinIsLast
  <2>4. CASE live
    <3>1. /\ ~IsGap(rx, f.offset, f.data) /\ Accept(rx, f.offset, f.data).delivered = EndOf(f)
          /\ rx.delivered <= EndOf(f)
      BY <2>1, <2>4, DataContinues
    <3>2. /\ rx'.delivered = EndOf(f) /\ live' = live
          /\ c2h' = Append(c2h, AckFrame(rx'.delivered))
      BY <1>4, <2>4, <3>1 DEF ClientData, ToHelper
    <3>3. rx'.delivered \in Nat /\ rx'.delivered <= WriteOffset(tx)
      BY <2>1, InvFacts DEF Inv, ClientOK, RecvTracker
    <3>4. AckFrame(rx'.delivered) \in NoResume /\ AckFrame(rx'.delivered) \in NoHello
      BY <3>3, FramesMade DEF NoResume, NoHello
    <3>5. c2h' \in Seq(NoResume) /\ (held => c2h' \in Seq(NoHello))
      BY <3>2, <3>4, AppendProperties DEF Order, FirstChannel
    <3>6. Line'
      BY <2>1, <3>2, LineTaken
    <3>7. held => rx'.delivered <= Queued
      <4>1. PICK top \in 0 .. WriteOffset(tx) : InLine(top)
        BY <2>4 DEF Order, Line
      <4>2. EndOf(f) <= top
        BY <2>1, <4>1, JoinsTail DEF InLine
      <4> QED
        BY <2>1, <3>2, <4>1, <4>2 DEF InLine
    <3>8. UplinkInStep' /\ FirstChannel'
      BY <1>1, <2>1, <2>2, <3>5, <3>7 DEF Order, UplinkInStep, FirstChannel
    <3>9. FinIsLast'
      BY <2>1, <3>1, <3>2, <3>3 DEF Order, FinIsLast
    <3> QED
      BY <3>6, <3>8, <3>9 DEF Order
  <2> QED
    BY <2>3, <2>4
<1>5. CASE ClientFin
  <2>1. /\ h2c # <<>> /\ h2c' = Tail(h2c) /\ Head(h2c).type = "Fin"
        /\ UNCHANGED <<helperVars, received, live, phase, c2h, breaks>>
        /\ rx'.delivered = rx.delivered
    BY <1>5 DEF ClientFin, Arrived, MarkFinAt, RecvTracker
  <2>2. Queued' = Queued
    BY <2>1 DEF Queued
  <2>3. Line'
    BY <2>1, LineTaken
  <2>4. FinIsLast'
    <3>1. CASE live
      <4>1. PICK top \in 0 .. WriteOffset(tx) : InLine(top)
        BY <3>1 DEF Order, Line
      <4>2. rx.delivered = top
        BY <2>1, <4>1, JoinsTail DEF InLine
      <4>3. h2c \notin Seq(FinFree)
        BY <1>1, <2>1, HeadTailProperties DEF FinFree
      <4>4. eof /\ rx.delivered = WriteOffset(tx)
        BY <4>1, <4>2, <4>3 DEF InLine, Order, UplinkInStep
      <4> QED
        BY <2>1, <4>4 DEF FinIsLast
    <3>2. CASE ~live
      <4>1. UNCHANGED <<remote_fin, rx>>
        BY <1>5, <3>2 DEF ClientFin
      <4> QED
        BY <2>1, <4>1 DEF Order, FinIsLast
    <3> QED
      BY <3>1, <3>2
  <2>5. UplinkInStep' /\ FirstChannel'
    BY <1>1, <2>1, <2>2 DEF Order, UplinkInStep, FirstChannel
  <2> QED
    BY <2>3, <2>4, <2>5 DEF Order
<1>6. CASE ClientResumeOk \/ ClientTerminated
  <2>1. /\ h2c # <<>> /\ h2c' = Tail(h2c) /\ (live' => live) /\ Head(h2c).type # "Data"
        /\ UNCHANGED <<helperVars, rx, received, remote_fin, phase, c2h, breaks>>
    BY <1>6 DEF ClientResumeOk, ClientTerminated, Arrived
  <2>2. Queued' = Queued
    BY <2>1 DEF Queued
  <2>3. Line'
    BY <2>1, LineTaken
  <2>4. UplinkInStep' /\ FirstChannel'
    BY <1>1, <2>1, <2>2 DEF Order, UplinkInStep, FirstChannel
  <2> QED
    BY <2>1, <2>3, <2>4 DEF Order, FinIsLast
<1> QED
  BY <1>2, <1>3, <1>4, <1>5, <1>6 DEF Client

\* A break loses the queues, and a new channel meets a helper without the stream.
LEMMA ChannelInOrder ==
  ASSUME Inv, Order, ~HelperSurvives, Break \/ Attach
  PROVE  Order'
<1> USE OrderFacts DEF helperVars, uplinkVars, clientVars
<1>1. CASE Break
  <2>1. /\ DropChannel /\ UNCHANGED <<helperVars, clientVars>> /\ breaks' = breaks + 1
        /\ h2c' = <<>> /\ c2h' = <<>> /\ phase' = "down"
    BY <1>1 DEF Break, DropChannel
  <2>2. Line'
    BY <2>1, LineDropped
  <2>3. Queued' = Queued
    BY <2>1 DEF Queued
  <2>4. UplinkInStep' /\ FirstChannel'
    BY <2>1, <2>3, EmptySeq DEF Order, UplinkInStep, FirstChannel
  <2> QED
    BY <2>1, <2>2, <2>4 DEF Order, FinIsLast
<1>2. CASE Attach
  <2>1. /\ phase = "down" /\ phase' = "hello" /\ c2h' = <<Hello(live)>>
        /\ held' = FALSE /\ pc' = "stopped"
        /\ UNCHANGED <<tx, permit, chunk, cap, eof, fin_sent, clientVars, h2c, breaks>>
    BY <1>2 DEF Attach, RemoveStream
  <2>2. Line'
    BY <2>1, LineUntouched
  <2>3. c2h' \in Seq(NoResume)
    <3>1. Hello(live) \in NoResume
      BY FramesMade DEF Inv, ClientOK, NoResume
    <3> QED
      BY <2>1, <3>1
  <2>4. UplinkInStep' /\ FirstChannel'
    BY <2>1, <2>3 DEF Order, UplinkInStep, FirstChannel
  <2> QED
    BY <2>1, <2>2, <2>4 DEF Order, FinIsLast
<1> QED
  BY <1>1, <1>2

\* No step leaves the invariant while every channel meets a fresh helper.
LEMMA OrderInductive ==
  ASSUME ~HelperSurvives, Inv, Order, [Next]_vars
  PROVE  (Inv /\ Order)'
<1>1. CASE Next
  <2>1. Inv'
    BY <1>1, UplinkSteps, HelperSteps, ClientSteps, ChannelSteps DEF Next
  <2>2. Order'
    BY <1>1, <2>1, UplinkInOrder, HelperInOrder, ClientInOrder, ChannelInOrder DEF Next
  <2> QED
    BY <2>1, <2>2
<1>2. CASE UNCHANGED vars
  <2>1. Inv'
    BY <1>2
       DEF vars, uplinkVars, clientVars, Inv, Buffer, UplinkOK, ClientOK, ChannelOK
  <2>2. Queued' = Queued
    BY <1>2 DEF vars, uplinkVars, clientVars, Queued
  <2>3. Line'
    BY <1>2, <2>2, LineUntouched DEF vars, uplinkVars, clientVars
  <2>4. UplinkInStep' /\ FirstChannel' /\ FinIsLast'
    BY <1>2, <2>2
       DEF vars, uplinkVars, clientVars, Order, UplinkInStep, FirstChannel, FinIsLast
  <2> QED
    BY <2>1, <2>3, <2>4 DEF Order
<1> QED
  BY <1>1, <1>2

\* When every channel meets a fresh helper, as MuxDriver.supervise has it, frames
\* reach the client in the order of their bytes without a hole, and the end of
\* the stream is reported only behind the last byte.
THEOREM FramesStayInOrder ==
  ASSUME ~HelperSurvives
  PROVE  Spec => []FramesInOrder
<1>1. Init => Inv /\ Order
  BY Initially, OrderInitially
<1>2. Inv /\ Order /\ [Next]_vars => (Inv /\ Order)'
  BY OrderInductive
<1>3. Inv /\ Order => FramesInOrder
  BY OrderRepacked
<1> QED
  BY <1>1, <1>2, <1>3, PTL DEF Spec

-----------------------------------------------------------------------------
(* The stream as an implementation of ByteStream.                          *)

\* Reading from the egress socket is Write: it stays inside the window.
LEMMA ReadIsWrite ==
  ASSUME Inv, Order, ReadBytes
  PROVE  Promise!Write
<1> USE OrderFacts, InvFacts
<1>1. PICK n \in 1 .. cap :
        /\ WriteOffset(tx) + n <= Len(Source)
        /\ tx' = Push(tx, SubSeq(Source, WriteOffset(tx) + 1, WriteOffset(tx) + n))
  BY DEF ReadBytes
<1>2. pc = "read" /\ UNCHANGED <<eof, received, remote_fin, live>>
  BY DEF ReadBytes, clientVars
<1>3. n \in Nat \ {0} /\ n <= Writable(tx)
  <2>1. cap \in Nat /\ cap <= Writable(tx) /\ Writable(tx) \in Nat
    BY <1>2, BufferFields DEF UplinkOK, Inv, Writable, GreaterOf
  <2> QED
    BY <2>1
<1>4. WriteOffset(tx') = WriteOffset(tx) + n
  BY <1>1, <1>3, PushBuffer DEF Inv
<1>5. ~eof
  BY <1>2 DEF Order, UplinkInStep
<1>6. WriteOffset(tx) + n <= rx.delivered + Window
  <2>1. tx.capacity = Window /\ Window \in Nat /\ Len(tx.data) \in Nat
    BY BufferFields, LinkAssumption DEF Inv, Buffer
  <2>2. n <= Window - Len(tx.data)
    BY <1>3, <2>1 DEF Writable, GreaterOf
  <2>3. tx.acked \in Nat /\ rx.delivered \in Nat /\ tx.acked <= rx.delivered /\ n \in Nat
    BY <1>3
  <2>4. WriteOffset(tx) = tx.acked + Len(tx.data)
    BY DEF WriteOffset
  <2> HIDE OrderFacts, InvFacts
  <2> QED
    BY <2>1, <2>2, <2>3, <2>4
<1>7. Len(received) = rx.delivered
  <2>1. received = Slice(0, rx.delivered)
    BY DEF Inv, ClientOK
  <2>2. 0 \in Nat /\ 0 <= rx.delivered /\ rx.delivered <= Len(Source) /\ rx.delivered - 0 = rx.delivered
    OBVIOUS
  <2> QED
    BY <2>1, <2>2, SliceType
<1>8. /\ WriteOffset(tx') \in WriteOffset(tx) + 1 .. Len(Source)
      /\ WriteOffset(tx') <= Len(received) + Window
  BY <1>1, <1>3, <1>4, <1>6, <1>7
<1> QED
  BY <1>2, <1>5, <1>8 DEF Promise!Write

\* What the client delivers is Deliver: the next bytes, while the end is not known.
LEMMA DataIsDeliver ==
  ASSUME Inv, Order, ClientData, Inv'
  PROVE  Promise!Deliver \/ UNCHANGED Promise!vars
<1> USE OrderFacts DEF helperVars, uplinkVars
<1>1. /\ h2c # <<>> /\ Head(h2c).type = "Data" /\ UNCHANGED <<tx, eof, remote_fin>>
  BY DEF ClientData, Arrived
<1>2. received = Slice(0, rx.delivered) /\ received' = Slice(0, rx'.delivered)
  <2>1. ClientOK /\ ClientOK'
    BY DEF Inv
  <2> QED
    BY <2>1 DEF ClientOK, Slice
<1>3. CASE ~live
  <2>1. live' = live /\ received' = received
    BY <1>3 DEF ClientData, Inv, ClientOK
  <2> QED
    BY <1>1, <2>1 DEF Promise!vars
<1>4. CASE live
  <2> DEFINE f == Head(h2c)
  <2>1. live' = live /\ rx'.delivered = EndOf(f) /\ rx.delivered <= rx'.delivered
    BY <1>1, <1>4, DataContinues DEF ClientData
  <2>2. rx'.delivered \in Nat /\ rx'.delivered <= WriteOffset(tx)
    BY <1>1, InvFacts DEF Inv, ClientOK, RecvTracker
  <2>3. CASE rx'.delivered = rx.delivered
    <3>1. received' = received
      BY <1>2, <2>3
    <3> QED
      BY <1>1, <2>1, <3>1 DEF Promise!vars
  <2>4. CASE rx'.delivered # rx.delivered
    <3>1. ~remote_fin
      BY <2>1, <2>2, <2>4 DEF Order, FinIsLast
    <3>2. Len(received) = rx.delivered
      <4>1. 0 \in Nat /\ 0 <= rx.delivered /\ rx.delivered <= Len(Source) /\ rx.delivered - 0 = rx.delivered
        BY InvFacts
      <4> QED
        BY <1>2, <4>1, SliceType
    <3>3. rx'.delivered \in Len(received) + 1 .. WriteOffset(tx)
      BY <2>1, <2>2, <2>4, <3>2
    <3>4. received' = SubSeq(Source, 1, rx'.delivered)
      BY <1>2 DEF Slice
    <3> QED
      BY <1>1, <1>4, <2>1, <3>1, <3>3, <3>4 DEF Promise!Deliver
  <2> QED
    BY <2>3, <2>4
<1> QED
  BY <1>3, <1>4

\* Fin on a live stream is EndOfStream, once.
LEMMA FinIsEndOfStream ==
  ASSUME Inv, Order, ClientFin, Order'
  PROVE  Promise!EndOfStream \/ UNCHANGED Promise!vars
<1> USE OrderFacts DEF helperVars, uplinkVars
<1>1. UNCHANGED <<tx, eof, received, live>>
  BY DEF ClientFin
<1>2. CASE remote_fin \/ ~live
  <2>1. remote_fin' = remote_fin
    BY <1>2 DEF ClientFin, Inv, ClientOK
  <2> QED
    BY <1>1, <2>1 DEF Promise!vars
<1>3. CASE ~remote_fin /\ live
  <2>1. remote_fin' = TRUE /\ rx'.delivered = rx.delivered
    BY <1>3 DEF ClientFin, MarkFinAt, RecvTracker
  <2>2. eof /\ rx.delivered = WriteOffset(tx)
    BY <1>1, <2>1 DEF Order, FinIsLast
  <2>3. Len(received) = rx.delivered
    <3>1. 0 \in Nat /\ 0 <= rx.delivered /\ rx.delivered <= Len(Source) /\ rx.delivered - 0 = rx.delivered
      BY InvFacts
    <3> QED
      BY <3>1, SliceType DEF Inv, ClientOK
  <2> QED
    BY <1>1, <1>3, <2>1, <2>2, <2>3 DEF Promise!EndOfStream
<1> QED
  BY <1>2, <1>3

\* Every step is a step of the promise or none of the application's business.
LEMMA StreamSteps ==
  ASSUME Inv, Order, Next, Inv', Order', ~HelperSurvives
  PROVE  Promise!Next \/ UNCHANGED Promise!vars
<1> USE OrderFacts DEF helperVars, uplinkVars, clientVars
<1>1. CASE TakeUnsent \/ SendChunk \/ NothingUnsent \/ SendFin \/ Check \/ Notified \/ ReadFails
  <2>1. UNCHANGED <<eof, received, remote_fin, live>>
    BY <1>1 DEF TakeUnsent, SendChunk, NothingUnsent, SendFin, Check, Notified, ReadFails
  <2>2. WriteOffset(tx') = WriteOffset(tx)
    <3>1. CASE TakeUnsent
      BY <3>1, UnsentBuffer DEF TakeUnsent, Inv
    <3>2. CASE SendChunk \/ NothingUnsent \/ SendFin \/ Check \/ Notified \/ ReadFails
      BY <3>2 DEF SendChunk, NothingUnsent, SendFin, Check, Notified, ReadFails
    <3> QED
      BY <1>1, <3>1, <3>2
  <2> QED
    BY <2>1, <2>2 DEF Promise!vars
<1>2. CASE ReadBytes
  BY <1>2, ReadIsWrite DEF Promise!Next
<1>3. CASE ReadEof
  <2>1. WriteOffset(tx') = WriteOffset(tx)
    BY <1>3, InvFacts DEF ReadEof, MarkFin, SendBuffer, WriteOffset
  <2> QED
    BY <1>3, <2>1 DEF ReadEof, Promise!Next, Promise!Close
<1>4. CASE HelperMain
  <2>1. UNCHANGED <<eof, received, remote_fin, live>>
    BY <1>4
       DEF HelperMain, HelperHello, HelperAck, HelperResume, HelperReset, HelperFinished, HelperFailed
  <2>2. WriteOffset(tx') = WriteOffset(tx)
    <3>1. CASE HelperAck
      BY <3>1, AckOnlyReleases
    <3>2. CASE HelperResume
      BY <3>2, CallsTaken DEF HelperResume, Received
    <3>3. CASE HelperHello \/ HelperReset \/ HelperFinished \/ HelperFailed
      BY <3>3 DEF HelperHello, HelperReset, HelperFinished, HelperFailed
    <3> QED
      BY <1>4, <3>1, <3>2, <3>3 DEF HelperMain
  <2> QED
    BY <2>1, <2>2 DEF Promise!vars
<1>5. CASE ClientData
  BY <1>5, DataIsDeliver DEF Promise!Next
<1>6. CASE ClientFin
  BY <1>6, FinIsEndOfStream DEF Promise!Next
<1>7. CASE ClientHelloAck \/ ClientTerminated
  <2>1. UNCHANGED <<tx, eof, received, remote_fin>> /\ (live' => live)
    BY <1>7 DEF ClientHelloAck, ClientTerminated
  <2>2. live \in BOOLEAN /\ live' \in BOOLEAN /\ remote_fin \in BOOLEAN
    BY DEF Inv, ClientOK
  <2> QED
    BY <2>1, <2>2 DEF Promise!Next, Promise!Abort, Promise!vars
<1>8. CASE ClientUnexpected \/ ClientResumeOk \/ Break \/ Attach
  <2>1. UNCHANGED <<tx, eof, received, remote_fin, live>>
    BY <1>8 DEF ClientUnexpected, ClientResumeOk, Break, Attach
  <2> QED
    BY <2>1 DEF Promise!vars
<1> QED
  BY <1>1, <1>2, <1>3, <1>4, <1>5, <1>6, <1>7, <1>8 DEF Next, Uplink, Client

\* When every channel meets a fresh helper, the two sockets of a stream see what
\* ByteStream promises: a prefix in order, at most Window bytes ahead, the end
\* only behind the last byte, and otherwise an abort.
THEOREM StreamIsByteStream ==
  ASSUME ~HelperSurvives
  PROVE  Spec => StreamPromise
<1>1. Init => Promise!Init
  <2> SUFFICES ASSUME Init PROVE Promise!Init
    OBVIOUS
  <2>1. WriteOffset(tx) = 0
    BY EmptySeq DEF Init, NewSendBuffer, WriteOffset
  <2> QED
    BY <2>1 DEF Init, Promise!Init
<1>2. ASSUME Inv, Order, [Next]_vars, Inv', Order'
      PROVE  [Promise!Next]_(Promise!vars)
  <2>1. CASE Next
    BY <1>2, <2>1, StreamSteps
  <2>2. CASE UNCHANGED vars
    BY <2>2 DEF vars, uplinkVars, clientVars, Promise!vars
  <2> QED
    BY <1>2, <2>1, <2>2
<1>3. Init => Inv /\ Order
  BY Initially, OrderInitially
<1>4. Inv /\ Order /\ [Next]_vars => (Inv /\ Order)'
  BY OrderInductive
<1> QED
  BY <1>1, <1>2, <1>3, <1>4, PTL DEF Spec, StreamPromise, Promise!Spec

=============================================================================
