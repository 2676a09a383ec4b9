------------------------- MODULE HelperStream_proofs -------------------------
(***************************************************************************)
(* For every Source, queue length, chunk and threshold: what the helper    *)
(* writes to the egress socket is a prefix of Source, and no confirmation  *)
(* names a byte that is not written. On one channel, moreover: the write   *)
(* half is shut after the last byte, the client drops written bytes only,  *)
(* the direction implements ByteStream; and if the egress peer does not    *)
(* close first, no stream ends without a word to the client.               *)
(***************************************************************************)
EXTENDS HelperStream, SequenceTheorems, TLAPS

-----------------------------------------------------------------------------
(* Bytes of Source.                                                        *)

\* Source is finite.
LEMMA SourceLen == Len(Source) \in Nat /\ Source \in Seq(Byte)
BY HelperAssumption, LenProperties

\* The suffix of a run of bytes ends where the run ends.
LEMMA EndsAtSuffix ==
  ASSUME NEW s \in Seq(Byte), NEW end \in Nat, EndsAt(s, end),
         NEW k \in Nat, k < Len(s)
  PROVE  LET u == SubSeq(s, k + 1, Len(s))
         IN  u \in Seq(Byte) /\ Len(u) = Len(s) - k /\ u # <<>> /\ EndsAt(u, end)
<1> DEFINE u == SubSeq(s, k + 1, Len(s))
<1>1. Len(s) \in Nat /\ \A i \in k + 1 .. Len(s) : s[i] \in Byte
  BY LenProperties, ElementOfSeq
<1>2. /\ u \in Seq(Byte)
      /\ Len(u) = IF k + 1 <= Len(s) THEN Len(s) - (k + 1) + 1 ELSE 0
      /\ \A i \in 1 .. Len(s) - (k + 1) + 1 : u[i] = s[k + 1 + i - 1]
  BY <1>1, SubSeqProperties
<1> HIDE DEF u
<1>3. Len(u) = Len(s) - k /\ Len(u) # 0
  BY <1>1, <1>2
<1>4. ASSUME NEW i \in 1 .. Len(u) PROVE u[i] = Source[end - Len(u) + i]
  <2>1. i \in 1 .. Len(s) - (k + 1) + 1 /\ k + 1 + i - 1 = k + i /\ k + i \in 1 .. Len(s)
    BY <1>1, <1>3
  <2>2. u[i] = s[k + i] /\ s[k + i] = Source[end - Len(s) + (k + i)]
    BY <1>2, <2>1 DEF EndsAt
  <2>3. end - Len(s) + (k + i) = end - Len(u) + i
    BY <1>1, <1>3
  <2> QED
    BY <2>2, <2>3
<1>5. EndsAt(u, end)
  BY <1>1, <1>3, <1>4 DEF EndsAt
<1> QED
  BY <1>2, <1>3, <1>5, EmptySeq DEF u

\* Without its first byte it still ends there.
LEMMA EndsAtTail ==
  ASSUME NEW s \in Seq(Byte), NEW end \in Nat, EndsAt(s, end), Len(s) > 1
  PROVE  /\ Tail(s) \in Seq(Byte) /\ Tail(s) # <<>>
         /\ Len(Tail(s)) = Len(s) - 1 /\ EndsAt(Tail(s), end)
<1> DEFINE u == Tail(s)
<1>1. /\ u \in Seq(Byte) /\ Len(u) = Len(s) - 1 /\ Len(s) \in Nat
      /\ \A i \in 1 .. Len(u) : u[i] = s[i + 1]
  BY HeadTailProperties, LenProperties, EmptySeq
<1> HIDE DEF u
<1>2. ASSUME NEW i \in 1 .. Len(u) PROVE u[i] = Source[end - Len(u) + i]
  <2>1. i + 1 \in 1 .. Len(s) /\ end - Len(s) + (i + 1) = end - Len(u) + i
    BY <1>1
  <2>2. s[i + 1] = Source[end - Len(s) + (i + 1)]
    BY <2>1 DEF EndsAt
  <2> QED
    BY <1>1, <2>1, <2>2
<1>3. Len(u) <= end /\ end <= Len(Source) /\ Len(u) # 0
  BY <1>1 DEF EndsAt
<1>4. EndsAt(u, end)
  BY <1>2, <1>3 DEF EndsAt
<1> QED
  BY <1>1, <1>3, <1>4, EmptySeq DEF u

\* What the client sends ends where its cursor goes.
LEMMA EndsAtSlice ==
  ASSUME NEW c \in Nat, NEW n \in Nat \ {0}, c + n <= Len(Source)
  PROVE  LET u == SubSeq(Source, c + 1, c + n)
         IN  u \in Seq(Byte) /\ Len(u) = n /\ EndsAt(u, c + n)
<1> DEFINE u == SubSeq(Source, c + 1, c + n)
<1>1. \A i \in c + 1 .. c + n : Source[i] \in Byte
  <2>1. \A i \in c + 1 .. c + n : i \in 1 .. Len(Source)
    BY SourceLen
  <2> QED
    BY <2>1, SourceLen, ElementOfSeq
<1>2. /\ u \in Seq(Byte)
      /\ Len(u) = IF c + 1 <= c + n THEN (c + n) - (c + 1) + 1 ELSE 0
      /\ \A i \in 1 .. (c + n) - (c + 1) + 1 : u[i] = Source[c + 1 + i - 1]
  BY <1>1, SubSeqProperties
<1> HIDE DEF u
<1>3. Len(u) = n
  BY <1>2
<1>4. ASSUME NEW i \in 1 .. n PROVE u[i] = Source[(c + n) - n + i]
  <2>1. i \in 1 .. (c + n) - (c + 1) + 1 /\ c + 1 + i - 1 = (c + n) - n + i
    OBVIOUS
  <2> QED
    BY <1>2, <2>1
<1>5. EndsAt(u, c + n)
  BY <1>3, <1>4 DEF EndsAt
<1> QED
  BY <1>2, <1>3, <1>5 DEF u

\* One more byte of Source behind a prefix of it is a longer prefix.
LEMMA PrefixGrows ==
  ASSUME NEW w \in Seq(Byte), w = SubSeq(Source, 1, Len(w)), Len(w) < Len(Source)
  PROVE  LET v == Append(w, Source[Len(w) + 1])
         IN  v \in Seq(Byte) /\ Len(v) = Len(w) + 1 /\ v = SubSeq(Source, 1, Len(v))
<1> DEFINE n == Len(w)
           v == Append(w, Source[n + 1])
           s == SubSeq(Source, 1, n + 1)
<1>1. n \in Nat /\ n + 1 \in 1 .. Len(Source) /\ Source[n + 1] \in Byte
  <2>1. n \in Nat /\ n + 1 \in 1 .. Len(Source)
    BY LenProperties, SourceLen
  <2> QED
    BY <2>1, SourceLen, ElementOfSeq
<1>2. v \in Seq(Byte) /\ Len(v) = n + 1 /\ v[n + 1] = Source[n + 1] /\ \A i \in 1 .. n : v[i] = w[i]
  BY <1>1, AppendProperties
<1>3. s \in Seq(Byte) /\ Len(s) = n + 1 /\ \A i \in 1 .. n + 1 : s[i] = Source[i]
  <2>1. \A i \in 1 .. n + 1 : Source[i] \in Byte
    <3>1. \A i \in 1 .. n + 1 : i \in 1 .. Len(Source)
      BY <1>1, SourceLen
    <3> QED
      BY <3>1, SourceLen, ElementOfSeq
  <2>2. /\ s \in Seq(Byte) /\ Len(s) = (IF 1 <= n + 1 THEN n + 1 - 1 + 1 ELSE 0)
        /\ \A i \in 1 .. n + 1 - 1 + 1 : s[i] = Source[1 + i - 1]
    BY <1>1, <2>1, SubSeqProperties
  <2> HIDE DEF s, n
  <2>3. \A i \in 1 .. n + 1 : i \in 1 .. n + 1 - 1 + 1 /\ 1 + i - 1 = i
    BY <1>1
  <2> QED
    BY <1>1, <2>2, <2>3
<1>4. \A i \in 1 .. n : w[i] = Source[i]
  <2>1. \A i \in 1 .. n : Source[i] \in Byte
    <3>1. \A i \in 1 .. n : i \in 1 .. Len(Source)
      BY <1>1, SourceLen
    <3> QED
      BY <3>1, SourceLen, ElementOfSeq
  <2>2. \A i \in 1 .. n - 1 + 1 : SubSeq(Source, 1, n)[i] = Source[1 + i - 1]
    BY <1>1, <2>1, SubSeqProperties
  <2>3. \A i \in 1 .. n : i \in 1 .. n - 1 + 1 /\ 1 + i - 1 = i
    BY <1>1
  <2> QED
    BY <2>2, <2>3
<1> HIDE DEF v, s
<1>5. ASSUME NEW i \in 1 .. n + 1 PROVE v[i] = s[i]
  <2>1. CASE i = n + 1
    BY <1>2, <1>3, <2>1
  <2>2. CASE i \in 1 .. n
    BY <1>2, <1>3, <1>4, <2>2
  <2> QED
    BY <1>1, <2>1, <2>2
<1>6. v = s
  BY <1>2, <1>3, <1>5, SeqEqual
<1> QED
  BY <1>2, <1>6 DEF v, s

-----------------------------------------------------------------------------
(* The queue to the task, as a path of offsets.                            *)

Path(q, a, c, top, fin) ==
  \E at \in [0 .. Len(q) -> 0 .. top] :
    /\ at[0] = a /\ at[Len(q)] = c
    /\ \A i \in 1 .. Len(q) :
         Moves(at[i - 1], q[i], at[i]) /\ (q[i] = HalfClose => at[i] >= fin)

\* Taking the oldest message moves the start of the path past it.
LEMMA PathTake ==
  ASSUME NEW S, NEW q \in Seq(S), q # <<>>, NEW a, NEW c, NEW top \in Nat, NEW fin \in Nat,
         Path(q, a, c, top, fin)
  PROVE  \E b \in 0 .. top :
           /\ Moves(a, Head(q), b) /\ (Head(q) = HalfClose => b >= fin)
           /\ Path(Tail(q), b, c, top, fin)
<1> DEFINE n == Len(q)
           r == Tail(q)
<1>1. PICK at \in [0 .. n -> 0 .. top] :
        /\ at[0] = a /\ at[n] = c
        /\ \A i \in 1 .. n :
             Moves(at[i - 1], q[i], at[i]) /\ (q[i] = HalfClose => at[i] >= fin)
  BY DEF Path
<1>2. /\ Len(r) = n - 1 /\ n \in Nat \ {0} /\ Head(q) = q[1]
      /\ \A i \in 1 .. n - 1 : r[i] = q[i + 1]
  BY HeadTailProperties, EmptySeq
<1> HIDE DEF n, r
<1> DEFINE bt == [i \in 0 .. Len(r) |-> at[i + 1]]
<1>3. bt \in [0 .. Len(r) -> 0 .. top]
  <2>1. \A i \in 0 .. Len(r) : i + 1 \in 0 .. n
    BY <1>2
  <2> QED
    BY <2>1
<1>4. bt[0] = at[1] /\ bt[Len(r)] = c
  BY <1>1, <1>2
<1>5. ASSUME NEW i \in 1 .. Len(r)
      PROVE  Moves(bt[i - 1], r[i], bt[i]) /\ (r[i] = HalfClose => bt[i] >= fin)
  <2>1. /\ i + 1 \in 1 .. n /\ (i + 1) - 1 = i /\ i - 1 \in 0 .. Len(r) /\ i \in 0 .. Len(r)
        /\ (i - 1) + 1 = i /\ r[i] = q[i + 1]
    BY <1>2
  <2>2. Moves(at[i], q[i + 1], at[i + 1]) /\ (q[i + 1] = HalfClose => at[i + 1] >= fin)
    BY <1>1, <2>1
  <2> QED
    BY <2>1, <2>2
<1>6. Path(r, at[1], c, top, fin)
  BY <1>3, <1>4, <1>5 DEF Path
<1>7. 1 \in 1 .. n /\ 1 - 1 = 0 /\ at[1] \in 0 .. top
  BY <1>2
<1>8. Moves(a, Head(q), at[1]) /\ (Head(q) = HalfClose => at[1] >= fin)
  BY <1>1, <1>2, <1>7
<1> QED
  BY <1>6, <1>7, <1>8 DEF r

\* A message at the end lengthens the path by what it moves.
LEMMA PathAppend ==
  ASSUME NEW S, NEW q \in Seq(S), NEW msg \in S, NEW a, NEW c, NEW top \in Nat, NEW fin \in Nat,
         NEW more \in Nat, NEW d \in 0 .. more, top <= more,
         Path(q, a, c, top, fin), Moves(c, msg, d), msg = HalfClose => d >= fin
  PROVE  Path(Append(q, msg), a, d, more, fin)
<1> DEFINE n == Len(q)
           r == Append(q, msg)
<1>1. PICK at \in [0 .. n -> 0 .. top] :
        /\ at[0] = a /\ at[n] = c
        /\ \A i \in 1 .. n :
             Moves(at[i - 1], q[i], at[i]) /\ (q[i] = HalfClose => at[i] >= fin)
  BY DEF Path
<1>2. Len(r) = n + 1 /\ n \in Nat /\ r[n + 1] = msg /\ \A i \in 1 .. n : r[i] = q[i]
  BY AppendProperties, LenProperties
<1> HIDE DEF n, r
<1> DEFINE bt == [i \in 0 .. n + 1 |-> IF i = n + 1 THEN d ELSE at[i]]
<1>3. bt \in [0 .. n + 1 -> 0 .. more]
  <2> SUFFICES ASSUME NEW i \in 0 .. n + 1, i # n + 1 PROVE at[i] \in 0 .. more
    OBVIOUS
  <2>1. i \in 0 .. n
    BY <1>2
  <2>2. at[i] \in 0 .. top
    BY <2>1
  <2> QED
    BY <2>2
<1>4. bt[0] = a /\ bt[n + 1] = d /\ bt[n] = c
  BY <1>1, <1>2
<1>5. ASSUME NEW i \in 1 .. n + 1
      PROVE  Moves(bt[i - 1], r[i], bt[i]) /\ (r[i] = HalfClose => bt[i] >= fin)
  <2>1. CASE i = n + 1
    <3>1. i - 1 = n
      BY <1>2, <2>1
    <3> QED
      BY <1>2, <1>4, <2>1, <3>1
  <2>2. CASE i \in 1 .. n
    <3>1. i - 1 \in 0 .. n + 1 /\ i \in 0 .. n + 1 /\ i - 1 # n + 1 /\ i # n + 1
      BY <1>2, <2>2
    <3>2. bt[i - 1] = at[i - 1] /\ bt[i] = at[i]
      BY <3>1
    <3> QED
      BY <1>1, <1>2, <2>2, <3>2
  <2> QED
    BY <1>2, <2>1, <2>2
<1>6. Path(r, a, d, more, fin)
  BY <1>2, <1>3, <1>4, <1>5 DEF Path
<1> QED
  BY <1>6 DEF r

\* The path of a queue may end below a bound that grows.
LEMMA PathBound ==
  ASSUME NEW q, NEW a, NEW c, NEW top \in Nat, NEW fin \in Nat,
         NEW more \in Nat, top <= more, Path(q, a, c, top, fin)
  PROVE  Path(q, a, c, more, fin)
<1>1. PICK at \in [0 .. Len(q) -> 0 .. top] :
        /\ at[0] = a /\ at[Len(q)] = c
        /\ \A i \in 1 .. Len(q) :
             Moves(at[i - 1], q[i], at[i]) /\ (q[i] = HalfClose => at[i] >= fin)
  BY DEF Path
<1>2. at \in [0 .. Len(q) -> 0 .. more]
  OBVIOUS
<1> QED
  BY <1>1, <1>2 DEF Path

\* QueueJoins in terms of a path.
LEMMA QueueIsPath ==
  ASSUME NEW fin \in Nat, rx.delivered \in Nat, Len(downlink) \in Nat
  PROVE  QueueJoins(fin) <=>
           (Alive => /\ item.kind = "Data" => item.delivered = AfterItem
                     /\ \E c \in 0 .. rx.delivered :
                          /\ Path(downlink, AfterItem, c, rx.delivered, fin)
                          /\ Moves(c, offer, rx.delivered))
<1>1. ASSUME NEW at \in [0 .. Len(downlink) -> 0 .. rx.delivered]
      PROVE  at[Len(downlink)] \in 0 .. rx.delivered
  OBVIOUS
<1> QED
  BY <1>1 DEF QueueJoins, Path

-----------------------------------------------------------------------------
(* Messages and frames.                                                    *)

\* The frames that may be in the queue to the client when w bytes are written.
ReplyFrame(w) == {f \in SourceFrame : f.type = "Ack" => f.offset <= w}

\* What the code reads from a message.
LEMMA MessageFields ==
  \A msg \in SourceMessage :
    /\ msg \in Downlink
    /\ msg.kind \in {"Data", "Duplicate", "Fin", "none"}
    /\ msg.kind = "Data" => /\ msg.data \in Seq(Byte) /\ Len(msg.data) \in Nat \ {0}
                            /\ msg.data # <<>> /\ msg.delivered \in Nat
                            /\ EndsAt(msg.data, msg.delivered) /\ msg.delivered <= Len(Source)
    /\ msg.kind = "Duplicate" => msg.delivered \in Nat
    /\ msg.kind = "Fin" <=> msg = HalfClose
    /\ msg.kind = "none" <=> msg = NoItem
<1> SUFFICES ASSUME NEW msg \in SourceMessage
             PROVE  /\ msg \in Downlink
                    /\ msg.kind \in {"Data", "Duplicate", "Fin", "none"}
                    /\ msg.kind = "Data" =>
                         /\ msg.data \in Seq(Byte) /\ Len(msg.data) \in Nat \ {0}
                         /\ msg.data # <<>> /\ msg.delivered \in Nat
                         /\ EndsAt(msg.data, msg.delivered) /\ msg.delivered <= Len(Source)
                    /\ msg.kind = "Duplicate" => msg.delivered \in Nat
                    /\ msg.kind = "Fin" <=> msg = HalfClose
                    /\ msg.kind = "none" <=> msg = NoItem
  OBVIOUS
<1>1. msg \in Downlink
  BY DEF SourceMessage
<1>2. msg.kind \in {"Data", "Duplicate", "Fin", "none"}
  BY <1>1 DEF Downlink
<1>3. msg.kind = "Duplicate" => msg.delivered \in Nat
  BY <1>1 DEF Downlink
<1>4. msg.kind = "Fin" <=> msg = HalfClose
  BY <1>1 DEF Downlink, HalfClose
<1>5. msg.kind = "none" <=> msg = NoItem
  BY <1>1 DEF Downlink, NoItem
<1>6. ASSUME msg.kind = "Data"
      PROVE  /\ msg.data \in Seq(Byte) /\ Len(msg.data) \in Nat \ {0}
             /\ msg.data # <<>> /\ msg.delivered \in Nat
             /\ EndsAt(msg.data, msg.delivered) /\ msg.delivered <= Len(Source)
  <2>1. msg.data \in Seq(Byte) /\ msg.delivered \in Nat
    BY <1>1, <1>6 DEF Downlink
  <2>2. msg.data # <<>> /\ EndsAt(msg.data, msg.delivered)
    BY <1>6 DEF SourceMessage
  <2> QED
    BY <2>1, <2>2, LenProperties, EmptySeq DEF EndsAt
<1> QED
  BY <1>1, <1>2, <1>3, <1>4, <1>5, <1>6

\* The messages the main loop makes.
LEMMA MessagesMade ==
  /\ NoItem \in SourceMessage /\ NoItem.kind = "none"
  /\ HalfClose \in SourceMessage /\ HalfClose.kind = "Fin"
  /\ \A at \in Nat : /\ Duplicate(at) \in SourceMessage /\ Duplicate(at).kind = "Duplicate"
                     /\ Duplicate(at).delivered = at
  /\ \A d \in Seq(Byte), at \in Nat :
       d # <<>> /\ EndsAt(d, at) =>
         /\ Bytes(d, at) \in SourceMessage /\ Bytes(d, at).kind = "Data"
         /\ Bytes(d, at).data = d /\ Bytes(d, at).delivered = at
BY DEF SourceMessage, Downlink, NoItem, HalfClose, Duplicate, Bytes

\* What the code reads from a frame.
LEMMA FrameFields ==
  \A f \in SourceFrame :
    /\ f \in Frame
    /\ f.type = "Data" => /\ f.data \in Seq(Byte) /\ Len(f.data) \in Nat /\ f.offset \in Nat
                          /\ EndsAt(f.data, f.offset + Len(f.data))
                          /\ f.offset + Len(f.data) <= Len(Source)
    /\ f.type \in {"Ack", "ResumeOk"} => f.offset \in Nat
    /\ f.type = "ResumeOk" => f.offset <= Len(Source)
<1> SUFFICES ASSUME NEW f \in SourceFrame
             PROVE  /\ f \in Frame
                    /\ f.type = "Data" =>
                         /\ f.data \in Seq(Byte) /\ Len(f.data) \in Nat /\ f.offset \in Nat
                         /\ EndsAt(f.data, f.offset + Len(f.data))
                         /\ f.offset + Len(f.data) <= Len(Source)
                    /\ f.type \in {"Ack", "ResumeOk"} => f.offset \in Nat
                    /\ f.type = "ResumeOk" => f.offset <= Len(Source)
  OBVIOUS
<1>1. f \in Frame /\ (f.type = "ResumeOk" => f.offset <= Len(Source))
  BY DEF SourceFrame
<1>2. f.type \in {"Ack", "ResumeOk"} => f.offset \in Nat
  BY <1>1 DEF Frame
<1>3. ASSUME f.type = "Data"
      PROVE  /\ f.data \in Seq(Byte) /\ Len(f.data) \in Nat /\ f.offset \in Nat
             /\ EndsAt(f.data, f.offset + Len(f.data))
             /\ f.offset + Len(f.data) <= Len(Source)
  <2>1. f.data \in Seq(Byte) /\ f.offset \in Nat
    BY <1>1, <1>3 DEF Frame
  <2>2. EndsAt(f.data, f.offset + Len(f.data))
    BY <1>3 DEF SourceFrame
  <2> QED
    BY <2>1, <2>2, LenProperties DEF EndsAt
<1> QED
  BY <1>1, <1>2, <1>3

\* The frames the two sides make.
LEMMA FramesMade ==
  /\ \A t \in {"Fin", "Reset", "Resume", "ResumeErr", "Ping", "Pong", "OpenOk", "OpenErr"} :
       Signal(t) \in SourceFrame /\ Signal(t).type = t /\ \A w \in Nat : Signal(t) \in ReplyFrame(w)
  /\ \A o \in Nat : o <= Len(Source) =>
       /\ ResumeOk(o).type = "ResumeOk" /\ ResumeOk(o).offset = o
       /\ \A w \in Nat : ResumeOk(o) \in ReplyFrame(w)
  /\ \A w \in Nat : \A o \in 0 .. w :
       AckFrame(o) \in ReplyFrame(w) /\ AckFrame(o).type = "Ack" /\ AckFrame(o).offset = o
  /\ \A o \in Nat, d \in Seq(Byte) : EndsAt(d, o + Len(d)) =>
       /\ Data(o, d) \in SourceFrame /\ Data(o, d).type = "Data"
       /\ Data(o, d).offset = o /\ Data(o, d).data = d
<1>1. \A t \in {"Fin", "Reset", "Resume", "ResumeErr", "Ping", "Pong", "OpenOk", "OpenErr"} :
        Signal(t) \in SourceFrame /\ Signal(t).type = t /\ \A w \in Nat : Signal(t) \in ReplyFrame(w)
  BY DEF ReplyFrame, SourceFrame, Frame, Signal
<1>2. \A o \in Nat : o <= Len(Source) =>
       /\ ResumeOk(o).type = "ResumeOk" /\ ResumeOk(o).offset = o
       /\ \A w \in Nat : ResumeOk(o) \in ReplyFrame(w)
  BY DEF ReplyFrame, SourceFrame, Frame, ResumeOk
<1>3. \A w \in Nat : \A o \in 0 .. w :
       AckFrame(o) \in ReplyFrame(w) /\ AckFrame(o).type = "Ack" /\ AckFrame(o).offset = o
  BY DEF ReplyFrame, SourceFrame, Frame, AckFrame
<1>4. \A o \in Nat, d \in Seq(Byte) : EndsAt(d, o + Len(d)) =>
       /\ Data(o, d) \in SourceFrame /\ Data(o, d).type = "Data"
       /\ Data(o, d).offset = o /\ Data(o, d).data = d
  BY DEF SourceFrame, Frame, Data
<1> QED
  BY <1>1, <1>2, <1>3, <1>4

\* A queue is a sequence over a set when each of its frames is in it.
LEMMA SeqOver ==
  ASSUME NEW S, NEW T, NEW q \in Seq(S), \A i \in 1 .. Len(q) : q[i] \in T
  PROVE  q \in Seq(T)
<1>1. q \in [1 .. Len(q) -> S] /\ Len(q) \in Nat
  BY LenProperties
<1>2. q \in [1 .. Len(q) -> T]
  BY <1>1
<1> QED
  BY <1>1, <1>2, SeqDef

\* Confirmations on their way stay true while the socket takes more.
LEMMA RepliesGrow ==
  ASSUME NEW v \in Nat, NEW w \in Nat, v <= w, NEW q \in Seq(ReplyFrame(v))
  PROVE  q \in Seq(ReplyFrame(w))
<1>1. ASSUME NEW f \in ReplyFrame(v) PROVE f \in ReplyFrame(w)
  <2>1. f \in SourceFrame /\ (f.type = "Ack" => f.offset \in Nat /\ f.offset <= v)
    BY FrameFields DEF ReplyFrame
  <2> QED
    BY <2>1 DEF ReplyFrame
<1> QED
  BY <1>1, SeqMonotonic

-----------------------------------------------------------------------------
(* The invariant, regrouped.                                               *)

Event == {"EgressDone", "Failed", "FailedSilently"}

Positions ==
  /\ cursor \in 0 .. Len(Source) /\ released \in 0 .. Len(Source)
  /\ rx \in RecvTracker /\ rx.delivered <= Len(Source)
  /\ written \in Seq(Byte) /\ written = SubSeq(Source, 1, Len(written))
  /\ Len(written) <= rx.delivered
  /\ pending \in Nat /\ delivered \in Nat /\ pending <= delivered /\ delivered <= Len(written)

Queues ==
  /\ item \in SourceMessage /\ offer \in SourceMessage
  /\ downlink \in Seq(SourceMessage) /\ Len(downlink) <= Queue
  /\ c2h \in Seq(SourceFrame)
  /\ h2c \in Seq(ReplyFrame(Len(written)))
  /\ events \in Seq(Event)

States ==
  /\ client \in {"open", "told", "closed"} /\ ping \in {"no", "sent", "answered"}
  /\ fin_out \in BOOLEAN /\ breaks \in 0 .. MaxBreaks
  /\ main \in {"idle", "send"} /\ held \in BOOLEAN
  /\ ingress_fin \in BOOLEAN /\ egress_done \in BOOLEAN
  /\ task \in {"dialing", "running", "ended", "aborted"}
  /\ up_done \in BOOLEAN /\ shut \in BOOLEAN
  /\ main = "idle" <=> offer = NoItem
  /\ main = "send" \/ Alive => held
  /\ held => task # "aborted"
  /\ item # NoItem => task = "running"

Inv == Positions /\ Queues /\ States

\* HelperInv is this and the path of the queue.
LEMMA Repack == HelperInv <=> Inv /\ QueueJoins(0)
<1>1. ASSUME HelperInv PROVE Inv
  <2>1. Positions
    BY <1>1 DEF HelperInv, TypeOK, PrefixWritten, TasksAgree, Positions
  <2>2. h2c \in Seq(ReplyFrame(Len(written)))
    <3>1. h2c \in Seq(SourceFrame)
      BY <1>1 DEF HelperInv, CarriesSource
    <3>2. \A i \in 1 .. Len(h2c) : h2c[i] \in ReplyFrame(Len(written))
      BY <1>1, <3>1, ElementOfSeq DEF HelperInv, AckIsWritten, ReplyFrame
    <3> QED
      BY <3>1, <3>2, SeqOver
  <2>3. Queues
    BY <1>1, <2>2 DEF HelperInv, TypeOK, CarriesSource, Queues, Event
  <2>4. States
    BY <1>1 DEF HelperInv, TypeOK, TasksAgree, States
  <2> QED
    BY <2>1, <2>3, <2>4 DEF Inv
<1>2. ASSUME Inv, QueueJoins(0) PROVE HelperInv
  <2>1. /\ \A f \in SourceFrame : f \in Frame
        /\ \A f \in ReplyFrame(Len(written)) : f \in SourceFrame /\ f \in Frame
        /\ \A msg \in SourceMessage : msg \in Downlink
    BY DEF SourceFrame, ReplyFrame, SourceMessage
  <2>2. /\ c2h \in Seq(SourceFrame) /\ c2h \in Seq(Frame)
        /\ h2c \in Seq(SourceFrame) /\ h2c \in Seq(Frame)
        /\ downlink \in Seq(Downlink)
    BY <1>2, <2>1, SeqMonotonic DEF Inv, Queues
  <2>3. Len(written) \in Nat /\ rx.delivered \in Nat
    BY <1>2, LenProperties DEF Inv, Positions, RecvTracker
  <2>4. TypeOK
    <3>1. pending \in 0 .. Len(Source) /\ delivered \in 0 .. Len(Source)
      BY <1>2, <2>3, SourceLen DEF Inv, Positions
    <3> QED
      BY <1>2, <2>1, <2>2, <3>1 DEF TypeOK, Inv, Positions, Queues, States, Event
  <2>5. PrefixWritten /\ TasksAgree
    BY <1>2 DEF PrefixWritten, TasksAgree, Inv, Positions, States
  <2>6. AckIsWritten
    BY <1>2, ElementOfSeq DEF AckIsWritten, Inv, Queues, ReplyFrame
  <2>7. CarriesSource
    BY <1>2, <2>2 DEF CarriesSource, Inv, Queues
  <2> QED
    BY <1>2, <2>4, <2>5, <2>6, <2>7 DEF HelperInv
<1>3. HelperInv => QueueJoins(0)
  BY DEF HelperInv
<1> QED
  BY <1>1, <1>2, <1>3

\* Numbers every step reads.
LEMMA Numbers ==
  ASSUME Inv
  PROVE  /\ Len(Source) \in Nat /\ cursor \in Nat /\ cursor <= Len(Source)
         /\ rx.delivered \in Nat /\ rx.delivered <= Len(Source) /\ rx \in RecvTracker
         /\ Len(written) \in Nat /\ Len(written) <= rx.delivered
         /\ Len(downlink) \in Nat /\ Queue \in Nat \ {0}
         /\ pending \in Nat /\ delivered \in Nat
         /\ item \in SourceMessage /\ offer \in SourceMessage
<1>1. Len(written) \in Nat /\ Len(downlink) \in Nat
  BY LenProperties DEF Inv, Positions, Queues
<1> QED
  BY <1>1, SourceLen, HelperAssumption DEF Inv, Positions, Queues, RecvTracker

\* The stream starts with nothing under way.
LEMMA Initially ==
  Init => Inv /\ \A fin \in Nat : QueueJoins(fin)
<1> SUFFICES ASSUME Init PROVE Inv /\ \A fin \in Nat : QueueJoins(fin)
  OBVIOUS
<1>1. written = <<>> /\ downlink = <<>> /\ Len(written) = 0 /\ Len(downlink) = 0 /\ rx.delivered = 0
  BY EmptySeq DEF Init, NewRecvTracker
<1>2. Positions
  <2>1. rx \in RecvTracker
    BY DEF Init, NewRecvTracker, RecvTracker
  <2>2. SubSeq(Source, 1, 0) = <<>>
    BY SubSeqEmpty
  <2>3. written \in Seq(Byte)
    BY <1>1, EmptySeq
  <2> QED
    BY <1>1, <2>1, <2>2, <2>3, SourceLen DEF Init, Positions
<1>3. Queues
  BY <1>1, EmptySeq, MessagesMade, HelperAssumption DEF Init, Queues
<1>4. States
  <2>1. /\ client = "open" /\ ping = "no" /\ breaks = 0 /\ main = "idle" /\ task = "dialing"
        /\ item = NoItem /\ offer = NoItem /\ held = TRUE
        /\ fin_out = FALSE /\ ingress_fin = FALSE /\ egress_done = FALSE
        /\ up_done = FALSE /\ shut = FALSE
    BY DEF Init
  <2>2. breaks \in 0 .. MaxBreaks
    BY <2>1, HelperAssumption
  <2> QED
    BY <2>1, <2>2 DEF States, Alive
<1>5. ASSUME NEW fin \in Nat PROVE QueueJoins(fin)
  <2>1. AfterItem = 0 /\ item.kind = "none" /\ offer.kind = "none"
    BY <1>1 DEF Init, AfterItem, NoItem
  <2> DEFINE at == [i \in 0 .. 0 |-> 0]
  <2>2. at \in [0 .. Len(downlink) -> 0 .. rx.delivered] /\ at[0] = AfterItem
    BY <1>1, <2>1
  <2>3. Moves(at[Len(downlink)], offer, rx.delivered)
    BY <1>1, <2>1 DEF Moves
  <2>4. \A i \in 1 .. Len(downlink) :
           Moves(at[i - 1], downlink[i], at[i]) /\ (downlink[i] = HalfClose => at[i] >= fin)
    BY <1>1
  <2> HIDE DEF at
  <2> QED
    BY <2>1, <2>2, <2>3, <2>4 DEF QueueJoins
<1> QED
  BY <1>2, <1>3, <1>4, <1>5 DEF Inv

-----------------------------------------------------------------------------
(* The steps of the client.                                                *)

\* The queue's path is a matter of the helper alone.
LEMMA PathUntouched ==
  ASSUME NEW fin \in Nat, QueueJoins(fin),
         UNCHANGED <<written, item, downlink, offer, rx>>, Alive' => Alive
  PROVE  QueueJoins(fin)'
BY DEF QueueJoins, AfterItem

\* No step of the client touches it.
LEMMA ClientKeepsPath ==
  ASSUME Client, NEW fin \in Nat, QueueJoins(fin)
  PROVE  QueueJoins(fin)'
<1>1. UNCHANGED <<mainVars, downlink, taskVars, egressVars>>
  BY DEF Client, ClientData, ClientFin, ClientReset, ClientPing, ClientResumes, ClientReceives
<1> QED
  BY <1>1, PathUntouched DEF Alive, mainVars, taskVars, egressVars

\* The client moves its own state, and adds and takes frames.
LEMMA ClientSteps ==
  ASSUME Inv, Client
  PROVE  Inv'
<1> USE Numbers
<1>1. /\ UNCHANGED <<mainVars, downlink, events, taskVars, egressVars>>
      /\ UNCHANGED <<main, offer, held, rx, ingress_fin, egress_done, task, item, pending,
                     delivered, up_done, written, shut>>
  BY DEF Client, ClientData, ClientFin, ClientReset, ClientPing, ClientResumes, ClientReceives,
         mainVars, taskVars, egressVars
<1>2. ASSUME /\ client' \in {"open", "told", "closed"} /\ ping' \in {"no", "sent", "answered"}
             /\ fin_out' \in BOOLEAN /\ breaks' \in 0 .. MaxBreaks
             /\ cursor' \in 0 .. Len(Source) /\ released' \in 0 .. Len(Source)
             /\ c2h' \in Seq(SourceFrame) /\ h2c' \in Seq(ReplyFrame(Len(written)))
      PROVE  Inv'
  <2>1. Positions'
    BY <1>1, <1>2 DEF Inv, Positions
  <2>2. Queues'
    BY <1>1, <1>2 DEF Inv, Queues
  <2>3. States'
    BY <1>1, <1>2 DEF Inv, States, Alive
  <2> QED
    BY <2>1, <2>2, <2>3 DEF Inv
<1>3. /\ client \in {"open", "told", "closed"} /\ ping \in {"no", "sent", "answered"}
      /\ fin_out \in BOOLEAN /\ breaks \in 0 .. MaxBreaks
      /\ cursor \in 0 .. Len(Source) /\ released \in 0 .. Len(Source)
      /\ c2h \in Seq(SourceFrame) /\ h2c \in Seq(ReplyFrame(Len(written)))
  BY DEF Inv, Positions, Queues, States
<1>4. CASE ClientData
  <2>1. PICK n \in 1 .. Chunk :
          /\ cursor + n <= Len(Source) /\ cursor' = cursor + n
          /\ c2h' = Append(c2h, Data(cursor, SubSeq(Source, cursor + 1, cursor + n)))
    BY <1>4 DEF ClientData, Send
  <2>2. n \in Nat \ {0}
    BY HelperAssumption
  <2> DEFINE u == SubSeq(Source, cursor + 1, cursor + n)
  <2>3. u \in Seq(Byte) /\ EndsAt(u, cursor + Len(u))
    BY <2>1, <2>2, EndsAtSlice
  <2>4. Data(cursor, u) \in SourceFrame
    BY <2>3, FramesMade
  <2>5. c2h' \in Seq(SourceFrame)
    BY <1>3, <2>1, <2>4, AppendProperties
  <2>6. UNCHANGED <<client, fin_out, released, ping, breaks, h2c>>
    BY <1>4 DEF ClientData
  <2>7. cursor' \in 0 .. Len(Source)
    BY <2>1, <2>2
  <2> QED
    BY <1>2, <1>3, <2>5, <2>6, <2>7
<1>5. CASE ClientFin
  <2>1. /\ c2h' = Append(c2h, Signal("Fin")) /\ fin_out' = TRUE
        /\ UNCHANGED <<client, cursor, released, ping, breaks, h2c>>
    BY <1>5 DEF ClientFin, Send
  <2>2. c2h' \in Seq(SourceFrame)
    BY <1>3, <2>1, FramesMade, AppendProperties
  <2> QED
    BY <1>2, <1>3, <2>1, <2>2
<1>6. CASE ClientReset
  <2>1. /\ c2h' = Append(c2h, Signal("Reset")) /\ client' = "closed"
        /\ UNCHANGED <<cursor, fin_out, released, ping, breaks, h2c>>
    BY <1>6 DEF ClientReset, Send
  <2>2. c2h' \in Seq(SourceFrame)
    BY <1>3, <2>1, FramesMade, AppendProperties
  <2> QED
    BY <1>2, <1>3, <2>1, <2>2
<1>7. CASE ClientPing
  <2>1. /\ c2h' = Append(c2h, Signal("Ping")) /\ ping' = "sent"
        /\ UNCHANGED <<client, cursor, fin_out, released, breaks, h2c>>
    BY <1>7 DEF ClientPing, Send
  <2>2. c2h' \in Seq(SourceFrame)
    BY <1>3, <2>1, FramesMade, AppendProperties
  <2> QED
    BY <1>2, <1>3, <2>1, <2>2
<1>8. CASE ClientResumes
  <2>1. /\ breaks < MaxBreaks /\ breaks' = breaks + 1 /\ h2c' = <<>>
        /\ c2h' = IF client = "open" THEN <<Signal("Resume")>> ELSE <<>>
        /\ UNCHANGED <<client, cursor, fin_out, released, ping>>
    BY <1>8 DEF ClientResumes
  <2>2. Signal("Resume") \in SourceFrame
    BY FramesMade
  <2>3. c2h' \in Seq(SourceFrame) /\ h2c' \in Seq(ReplyFrame(Len(written)))
    BY <2>1, <2>2, EmptySeq
  <2>4. breaks' \in 0 .. MaxBreaks
    BY <1>3, <2>1, HelperAssumption
  <2> QED
    BY <1>2, <1>3, <2>1, <2>3, <2>4
<1>9. CASE ClientReceives
  <2> DEFINE f == Head(h2c)
  <2>1. /\ h2c # <<>> /\ h2c' = Tail(h2c)
        /\ released' = IF f.type \in {"Ack", "ResumeOk"} /\ client = "open"
                       THEN GreaterOf(released, f.offset) ELSE released
        /\ cursor' = IF f.type = "ResumeOk" /\ client = "open" THEN f.offset ELSE cursor
        /\ client' \in {client, "told"} /\ ping' \in {ping, "answered"}
        /\ UNCHANGED <<fin_out, breaks, c2h>>
    BY <1>9 DEF ClientReceives
  <2>2. f \in ReplyFrame(Len(written)) /\ h2c' \in Seq(ReplyFrame(Len(written)))
    BY <1>3, <2>1, HeadTailProperties
  <2> HIDE DEF f
  <2>3. f \in SourceFrame /\ (f.type = "Ack" => f.offset <= Len(written))
    BY <2>2 DEF ReplyFrame
  <2>4. f.type \in {"Ack", "ResumeOk"} => f.offset \in 0 .. Len(Source)
    BY <2>3, FrameFields
  <2>5. released' \in 0 .. Len(Source) /\ cursor' \in 0 .. Len(Source)
    BY <1>3, <2>1, <2>4 DEF GreaterOf
  <2> QED
    BY <1>2, <1>3, <2>1, <2>2, <2>5
<1> QED
  BY <1>4, <1>5, <1>6, <1>7, <1>8, <1>9 DEF Client

-----------------------------------------------------------------------------
(* The steps of the main loop.                                             *)

\* A removed stream has no task that could write.
LEMMA RemoveEnds == Remove => ~Alive' /\ ~held' /\ item' = NoItem
BY DEF Remove, Alive

\* A message that enters the queue continues its path.
LEMMA EnqueueKeepsPath ==
  ASSUME Inv, NEW fin \in Nat, NEW msg \in SourceMessage, Enqueue(msg), UNCHANGED written,
         NEW c \in 0 .. rx.delivered, rx'.delivered \in Nat, rx.delivered <= rx'.delivered,
         Alive => (item.kind = "Data" => item.delivered = AfterItem),
         Alive => Path(downlink, AfterItem, c, rx.delivered, fin),
         Moves(c, msg, rx'.delivered), msg = HalfClose => rx'.delivered >= fin
  PROVE  QueueJoins(fin)'
<1> USE Numbers
<1>1. CASE Remove
  BY <1>1, RemoveEnds DEF QueueJoins
<1>2. CASE Keep
  <2> SUFFICES ASSUME Alive' PROVE QueueJoins(fin)'
    BY DEF QueueJoins
  <2>1. /\ Alive /\ item' = item /\ offer' = NoItem /\ downlink' = Append(downlink, msg)
        /\ AfterItem' = AfterItem
    BY <1>2 DEF Keep, taskVars, Alive, Enqueue, AfterItem
  <2>2. downlink \in Seq(SourceMessage) /\ downlink' \in Seq(SourceMessage)
    BY <2>1, AppendProperties DEF Inv, Queues
  <2>3. Path(downlink', AfterItem, rx'.delivered, rx'.delivered, fin)
    BY <2>1, <2>2, PathAppend
  <2>4. Moves(rx'.delivered, offer', rx'.delivered)
    BY <2>1, MessagesMade DEF Moves
  <2>5. Len(downlink') \in Nat
    BY <2>2, LenProperties
  <2>6. item'.kind = "Data" => item'.delivered = AfterItem'
    BY <2>1
  <2>7. PICK at \in [0 .. Len(downlink') -> 0 .. rx'.delivered] :
          /\ at[0] = AfterItem /\ at[Len(downlink')] = rx'.delivered
          /\ \A i \in 1 .. Len(downlink') :
               /\ Moves(at[i - 1], downlink'[i], at[i])
               /\ (downlink'[i] = HalfClose => at[i] >= fin)
    BY <2>3 DEF Path
  <2> QED
    BY <2>1, <2>4, <2>6, <2>7 DEF QueueJoins
<1> QED
  BY <1>1, <1>2 DEF Enqueue

\* With nothing on offer the path of the queue ends at what was accepted.
LEMMA IdlePath ==
  ASSUME Inv, NEW fin \in Nat, QueueJoins(fin), offer = NoItem, Alive
  PROVE  /\ Path(downlink, AfterItem, rx.delivered, rx.delivered, fin)
         /\ item.kind = "Data" => item.delivered = AfterItem
<1>1. PICK c \in 0 .. rx.delivered :
        Path(downlink, AfterItem, c, rx.delivered, fin) /\ Moves(c, offer, rx.delivered)
  BY Numbers, QueueIsPath
<1>2. c = rx.delivered
  BY <1>1, MessagesMade DEF Moves
<1> QED
  BY <1>1, <1>2, Numbers, QueueIsPath

\* What the main loop hands over moves from the old to the new delivered offset.
LEMMA OfferKeepsPath ==
  ASSUME Inv, NEW fin \in Nat, QueueJoins(fin), offer = NoItem,
         NEW msg \in SourceMessage, Offer(msg), UNCHANGED written,
         rx'.delivered \in Nat, rx.delivered <= rx'.delivered,
         Moves(rx.delivered, msg, rx'.delivered), msg = HalfClose => rx'.delivered >= fin
  PROVE  QueueJoins(fin)'
<1> USE Numbers
<1>1. CASE Enqueue(msg)
  <2>1. rx.delivered \in 0 .. rx.delivered
    OBVIOUS
  <2>2. Alive => /\ Path(downlink, AfterItem, rx.delivered, rx.delivered, fin)
                 /\ item.kind = "Data" => item.delivered = AfterItem
    BY IdlePath
  <2> QED
    BY <1>1, <2>1, <2>2, EnqueueKeepsPath
<1>2. CASE Keep /\ offer' = msg /\ downlink' = downlink
  <2> SUFFICES ASSUME Alive' PROVE QueueJoins(fin)'
    BY DEF QueueJoins
  <2>1. Alive /\ item' = item /\ AfterItem' = AfterItem
    BY <1>2 DEF Keep, taskVars, Alive, AfterItem
  <2>2. /\ Path(downlink, AfterItem, rx.delivered, rx'.delivered, fin)
        /\ item.kind = "Data" => item.delivered = AfterItem
    BY <2>1, IdlePath, PathBound
  <2>3. PICK at \in [0 .. Len(downlink) -> 0 .. rx'.delivered] :
          /\ at[0] = AfterItem /\ at[Len(downlink)] = rx.delivered
          /\ \A i \in 1 .. Len(downlink) :
               Moves(at[i - 1], downlink[i], at[i]) /\ (downlink[i] = HalfClose => at[i] >= fin)
    BY <2>2 DEF Path
  <2> QED
    BY <1>2, <2>1, <2>2, <2>3 DEF QueueJoins
<1>3. CASE Remove
  BY <1>3, RemoveEnds DEF QueueJoins
<1> QED
  BY <1>1, <1>2, <1>3 DEF Offer

\* The queue, the reply and the main loop's state after a hand-over.
LEMMA OfferTypes ==
  ASSUME Inv, held, NEW msg \in SourceMessage, msg # NoItem, Offer(msg)
  PROVE  /\ h2c' \in Seq(ReplyFrame(Len(written)))
         /\ downlink' \in Seq(SourceMessage) /\ Len(downlink') <= Queue
         /\ main' \in {"idle", "send"} /\ offer' \in SourceMessage
         /\ main' = "idle" <=> offer' = NoItem
         /\ Remove \/ Keep
         /\ main' = "send" => held'
<1> USE Numbers
<1>1. h2c \in Seq(ReplyFrame(Len(written))) /\ downlink \in Seq(SourceMessage) /\ Len(downlink) <= Queue
  BY DEF Inv, Queues
<1>2. CASE task # "ended" /\ Len(downlink) < Queue /\ Enqueue(msg)
  <2>1. /\ downlink' = Append(downlink, msg) /\ h2c' = h2c /\ main' = "idle" /\ offer' = NoItem
        /\ Remove \/ Keep
    BY <1>2 DEF Enqueue
  <2>2. downlink' \in Seq(SourceMessage) /\ Len(downlink') = Len(downlink) + 1
    BY <1>1, <2>1, AppendProperties
  <2> QED
    BY <1>1, <1>2, <2>1, <2>2, MessagesMade
<1>3. CASE main' = "send" /\ offer' = msg /\ Keep /\ UNCHANGED <<downlink, h2c>>
  BY <1>1, <1>3 DEF Keep
<1>4. CASE main' = "idle" /\ offer' = NoItem /\ Remove /\ Reply(Signal("Reset")) /\ UNCHANGED downlink
  <2>1. h2c' \in Seq(ReplyFrame(Len(written)))
    <3>1. Signal("Reset") \in ReplyFrame(Len(written))
      BY FramesMade
    <3> QED
      BY <1>1, <1>4, <3>1, AppendProperties DEF Reply
  <2> QED
    BY <1>1, <1>4, <2>1, MessagesMade
<1> QED
  BY <1>2, <1>3, <1>4 DEF Offer

\* What a step of the main loop has to show.
LEMMA MainKeeps ==
  ASSUME Inv, UNCHANGED <<clientVars, egressVars>>, Remove \/ Keep,
         c2h' \in Seq(SourceFrame), h2c' \in Seq(ReplyFrame(Len(written))),
         downlink' \in Seq(SourceMessage), Len(downlink') <= Queue, events' \in Seq(Event),
         rx' \in RecvTracker, rx.delivered <= rx'.delivered, rx'.delivered <= Len(Source),
         main' \in {"idle", "send"}, offer' \in SourceMessage,
         main' = "idle" <=> offer' = NoItem, main' = "send" => held',
         ingress_fin' \in BOOLEAN, egress_done' \in BOOLEAN
  PROVE  Inv'
<1> USE Numbers
<1>1. /\ UNCHANGED <<client, cursor, fin_out, released, ping, breaks, written, shut,
                     pending, delivered, up_done>>
      /\ held' \in BOOLEAN /\ (held' => held)
      /\ task' \in {"dialing", "running", "ended", "aborted"}
      /\ item' \in SourceMessage
  <2>1. UNCHANGED <<client, cursor, fin_out, released, ping, breaks, written, shut>>
    BY DEF clientVars, egressVars
  <2>2. UNCHANGED <<pending, delivered, up_done>>
    BY DEF Remove, Keep, taskVars
  <2>3. held' = held \/ held' = FALSE
    BY DEF Remove, Keep
  <2>4. task' \in {task, "aborted"} /\ item' \in {item, NoItem}
    BY DEF Remove, Keep, taskVars
  <2>5. held \in BOOLEAN /\ task \in {"dialing", "running", "ended", "aborted"}
    BY DEF Inv, States
  <2>6. held' \in BOOLEAN /\ (held' => held)
    BY <2>3, <2>5
  <2> QED
    BY <2>1, <2>2, <2>4, <2>5, <2>6, MessagesMade
<1>2. Positions'
  <2>1. rx'.delivered \in Nat
    BY DEF RecvTracker
  <2>2. UNCHANGED <<cursor, released, written, pending, delivered>>
    BY <1>1
  <2>3. /\ cursor \in 0 .. Len(Source) /\ released \in 0 .. Len(Source)
        /\ written \in Seq(Byte) /\ written = SubSeq(Source, 1, Len(written))
        /\ pending \in Nat /\ delivered \in Nat /\ pending <= delivered /\ delivered <= Len(written)
        /\ Len(written) \in Nat /\ Len(written) <= rx.delivered /\ rx.delivered \in Nat
    BY LenProperties DEF Inv, Positions, RecvTracker
  <2>4. rx' \in RecvTracker /\ rx'.delivered <= Len(Source) /\ Len(written) <= rx'.delivered
    BY <2>1, <2>3
  <2> QED
    BY <2>2, <2>3, <2>4 DEF Positions
<1>3. Queues'
  BY <1>1 DEF Inv, Queues
<1>4. (Alive' => held') /\ (held' => task' # "aborted") /\ (item' # NoItem => task' = "running")
  <2>1. CASE Remove
    BY <2>1, RemoveEnds
  <2>2. CASE Keep
    BY <2>2 DEF Keep, taskVars, Inv, States, Alive
  <2> QED
    BY <2>1, <2>2
<1>5. States'
  BY <1>1, <1>4 DEF Inv, States
<1> QED
  BY <1>2, <1>3, <1>5 DEF Inv

\* Taking a frame from the channel.
LEMMA FrameTaken ==
  ASSUME Inv, NEW type, Takes(type)
  PROVE  /\ main = "idle" /\ offer = NoItem /\ c2h # <<>> /\ c2h' = Tail(c2h)
         /\ Head(c2h) \in SourceFrame /\ Head(c2h).type = type
         /\ c2h' \in Seq(SourceFrame)
BY HeadTailProperties DEF Takes, Inv, Queues, States

\* The frame of a live stream that is no gap becomes a message which moves the
\* socket from the old to the new delivered offset.
LEMMA DataMoves ==
  ASSUME Inv, NEW f \in SourceFrame, f.type = "Data", ~IsGap(rx, f.offset, f.data),
         rx' = Accept(rx, f.offset, f.data)
  PROVE  LET msg == IF IsDuplicate(rx, f.offset, f.data) THEN Duplicate(rx.delivered)
                    ELSE Bytes(FreshBytes(rx, f.offset, f.data), rx'.delivered)
         IN  /\ msg \in SourceMessage /\ msg # NoItem /\ msg # HalfClose
             /\ rx' \in RecvTracker /\ rx'.delivered \in Nat
             /\ rx.delivered <= rx'.delivered /\ rx'.delivered <= Len(Source)
             /\ Moves(rx.delivered, msg, rx'.delivered)
<1> USE Numbers
<1> DEFINE o == f.offset
           d == f.data
           c == rx.delivered
<1>1. /\ d \in Seq(Byte) /\ Len(d) \in Nat /\ o \in Nat
      /\ EndsAt(d, o + Len(d)) /\ o + Len(d) <= Len(Source)
  BY FrameFields
<1>2. CASE IsDuplicate(rx, o, d)
  <2>1. rx' = rx
    BY <1>2 DEF Accept
  <2>2. /\ Duplicate(c) \in SourceMessage /\ Duplicate(c).kind = "Duplicate"
        /\ Duplicate(c).delivered = c
    BY MessagesMade
  <2>3. Duplicate(c) # NoItem /\ Duplicate(c) # HalfClose
    BY <2>2, MessagesMade
  <2>4. Moves(c, Duplicate(c), c)
    BY <2>2 DEF Moves
  <2> QED
    BY <1>2, <2>1, <2>2, <2>3, <2>4
<1>3. CASE ~IsDuplicate(rx, o, d)
  <2>1. o <= c /\ c < o + Len(d)
    BY <1>1, <1>3 DEF IsGap, IsDuplicate
  <2>2. rx' = [rx EXCEPT !.delivered = o + Len(d)]
    BY <1>3 DEF Accept
  <2>3. rx'.delivered = o + Len(d) /\ rx' \in RecvTracker
    <3>1. o + Len(d) \in Nat
      BY <1>1
    <3> QED
      BY <2>2, <3>1 DEF RecvTracker
  <2> DEFINE u == FreshBytes(rx, o, d)
             k == c - o
  <2>4. k \in Nat /\ k < Len(d)
    BY <1>1, <2>1
  <2>5. u = SubSeq(d, k + 1, Len(d))
    BY DEF FreshBytes
  <2>6. o + Len(d) \in Nat
    BY <1>1
  <2> HIDE DEF u, k, o, d
  <2>7. u \in Seq(Byte) /\ Len(u) = Len(d) - k /\ u # <<>> /\ EndsAt(u, o + Len(d))
    BY <1>1, <2>4, <2>5, <2>6, EndsAtSuffix
  <2>8. /\ Bytes(u, o + Len(d)) \in SourceMessage /\ Bytes(u, o + Len(d)).kind = "Data"
        /\ Bytes(u, o + Len(d)).data = u /\ Bytes(u, o + Len(d)).delivered = o + Len(d)
    BY <2>6, <2>7, MessagesMade
  <2>9. Bytes(u, o + Len(d)) # NoItem /\ Bytes(u, o + Len(d)) # HalfClose
    BY <2>8, MessagesMade
  <2>10. c + Len(u) = o + Len(d)
    <3>1. c \in Nat /\ o \in Nat /\ Len(d) \in Nat /\ Len(u) = Len(d) - (c - o)
      BY <1>1, <2>7 DEF k
    <3> HIDE DEF c
    <3> QED
      BY <3>1
  <2>11. Moves(c, Bytes(u, o + Len(d)), o + Len(d))
    BY <2>8, <2>10 DEF Moves
  <2> QED
    BY <1>1, <1>3, <2>1, <2>3, <2>8, <2>9, <2>11 DEF u, o, d
<1> QED
  BY <1>2, <1>3

\* The steps of the main loop keep types, prefix and confirmations.
LEMMA MainSteps ==
  ASSUME Inv, Main
  PROVE  Inv'
<1> USE Numbers
<1>1. /\ h2c \in Seq(ReplyFrame(Len(written))) /\ c2h \in Seq(SourceFrame)
      /\ downlink \in Seq(SourceMessage) /\ Len(downlink) <= Queue /\ events \in Seq(Event)
      /\ main \in {"idle", "send"} /\ held \in BOOLEAN
      /\ ingress_fin \in BOOLEAN /\ egress_done \in BOOLEAN
      /\ main = "idle" <=> offer = NoItem
      /\ main = "send" => held
  BY DEF Inv, Queues, States
<1>2. ASSUME NEW f \in SourceFrame, f \in ReplyFrame(Len(written)), Reply(f)
      PROVE  h2c' \in Seq(ReplyFrame(Len(written)))
  BY <1>1, <1>2, AppendProperties DEF Reply
<1>3. \A t \in {"Reset", "ResumeErr", "Pong"} :
        Signal(t) \in SourceFrame /\ Signal(t) \in ReplyFrame(Len(written))
  BY FramesMade
<1>4. CASE MainData
  <2> DEFINE f == Head(c2h)
  <2>1. /\ main = "idle" /\ offer = NoItem /\ f \in SourceFrame /\ f.type = "Data"
        /\ c2h' \in Seq(SourceFrame)
        /\ UNCHANGED <<clientVars, ingress_fin, egress_done, events, egressVars>>
    BY <1>4, FrameTaken DEF MainData
  <2> DEFINE msg == IF IsDuplicate(rx, f.offset, f.data) THEN Duplicate(rx.delivered)
                    ELSE Bytes(FreshBytes(rx, f.offset, f.data), rx'.delivered)
  <2>2. CASE held /\ ~IsGap(rx, f.offset, f.data)
    <3>1. rx' = Accept(rx, f.offset, f.data) /\ Offer(msg)
      BY <1>4, <2>2 DEF MainData
    <3>2. /\ msg \in SourceMessage /\ msg # NoItem /\ rx' \in RecvTracker
          /\ rx.delivered <= rx'.delivered /\ rx'.delivered <= Len(Source)
      BY <2>1, <2>2, <3>1, DataMoves
    <3> HIDE DEF msg, f
    <3>3. /\ h2c' \in Seq(ReplyFrame(Len(written)))
          /\ downlink' \in Seq(SourceMessage) /\ Len(downlink') <= Queue
          /\ main' \in {"idle", "send"} /\ offer' \in SourceMessage
          /\ main' = "idle" <=> offer' = NoItem
          /\ Remove \/ Keep
          /\ main' = "send" => held'
      BY <2>2, <3>1, <3>2, OfferTypes
    <3> QED
      BY <1>1, <2>1, <3>2, <3>3, MainKeeps
  <2>3. CASE ~(held /\ ~IsGap(rx, f.offset, f.data))
    <3>1. /\ Reply(Signal("Reset")) /\ (Remove \/ Keep)
          /\ UNCHANGED <<main, offer, rx, downlink>>
      BY <1>4, <2>3 DEF MainData
    <3>2. h2c' \in Seq(ReplyFrame(Len(written)))
      <4>1. h2c' = Append(h2c, Signal("Reset")) /\ Signal("Reset") \in ReplyFrame(Len(written))
        BY <1>3, <3>1 DEF Reply
      <4> QED
        BY <1>1, <4>1, AppendProperties
    <3> QED
      BY <1>1, <2>1, <3>1, <3>2, MainKeeps
  <2> QED
    BY <2>2, <2>3
<1>5. CASE MainFin
  <2>1. /\ main = "idle" /\ offer = NoItem /\ c2h' \in Seq(SourceFrame)
        /\ UNCHANGED <<clientVars, egress_done, events, egressVars>>
    BY <1>5, FrameTaken DEF MainFin
  <2>2. CASE held /\ ~ingress_fin
    <3>1. ingress_fin' = TRUE /\ rx' = MarkFinAt(rx) /\ Offer(HalfClose)
      BY <1>5, <2>2 DEF MainFin
    <3>2. rx' \in RecvTracker /\ rx'.delivered = rx.delivered
      BY <3>1 DEF MarkFinAt, RecvTracker
    <3>3. /\ h2c' \in Seq(ReplyFrame(Len(written)))
          /\ downlink' \in Seq(SourceMessage) /\ Len(downlink') <= Queue
          /\ main' \in {"idle", "send"} /\ offer' \in SourceMessage
          /\ main' = "idle" <=> offer' = NoItem
          /\ Remove \/ Keep
          /\ main' = "send" => held'
      <4>1. HalfClose \in SourceMessage /\ HalfClose # NoItem
        BY MessagesMade
      <4> QED
        BY <2>2, <3>1, <4>1, OfferTypes
    <3> QED
      BY <1>1, <2>1, <3>1, <3>2, <3>3, MainKeeps
  <2>3. CASE ~(held /\ ~ingress_fin)
    <3>1. /\ UNCHANGED h2c \/ Reply(Signal("Reset"))
          /\ Remove \/ Keep
          /\ UNCHANGED <<main, offer, rx, ingress_fin, downlink>>
      BY <1>5, <2>3 DEF MainFin
    <3>2. h2c' \in Seq(ReplyFrame(Len(written)))
      BY <1>1, <1>2, <1>3, <3>1
    <3> QED
      BY <1>1, <2>1, <3>1, <3>2, MainKeeps
  <2> QED
    BY <2>2, <2>3
<1>6. CASE MainSends
  <2>1. /\ main = "send" /\ held /\ offer # NoItem
        /\ UNCHANGED <<clientVars, c2h, rx, ingress_fin, egress_done, events, egressVars>>
    BY <1>1, <1>6 DEF MainSends
  <2>2. CASE task # "ended" /\ Len(downlink) < Queue /\ Enqueue(offer)
    <3>1. /\ downlink' = Append(downlink, offer) /\ h2c' = h2c /\ main' = "idle"
          /\ offer' = NoItem /\ (Remove \/ Keep)
      BY <2>2 DEF Enqueue
    <3>2. downlink' \in Seq(SourceMessage) /\ Len(downlink') <= Queue
      <4>1. downlink' \in Seq(SourceMessage) /\ Len(downlink') = Len(downlink) + 1
        BY <1>1, <3>1, AppendProperties
      <4> QED
        BY <2>2, <4>1
    <3>3. /\ offer' \in SourceMessage /\ events' \in Seq(Event) /\ rx' = rx /\ c2h' \in Seq(SourceFrame)
          /\ ingress_fin' \in BOOLEAN /\ egress_done' \in BOOLEAN
          /\ h2c' \in Seq(ReplyFrame(Len(written))) /\ UNCHANGED <<clientVars, egressVars>>
      BY <1>1, <2>1, <3>1, MessagesMade
    <3>4. main' \in {"idle", "send"} /\ (main' = "idle" <=> offer' = NoItem) /\ (main' = "send" => held')
      BY <3>1
    <3> QED
      BY <1>1, <3>1, <3>2, <3>3, <3>4, MainKeeps
  <2>3. CASE /\ main' = "idle" /\ offer' = NoItem /\ Remove /\ Reply(Signal("Reset"))
             /\ UNCHANGED downlink
    <3>1. h2c' \in Seq(ReplyFrame(Len(written)))
      BY <1>2, <1>3, <2>3
    <3>2. /\ offer' \in SourceMessage /\ main' = "idle" /\ offer' = NoItem
          /\ c2h' \in Seq(SourceFrame) /\ downlink' = downlink /\ events' \in Seq(Event)
          /\ rx' = rx /\ ingress_fin' \in BOOLEAN /\ egress_done' \in BOOLEAN
          /\ UNCHANGED <<clientVars, egressVars>>
      BY <1>1, <2>1, <2>3, MessagesMade
    <3>3. main' \in {"idle", "send"} /\ (main' = "idle" <=> offer' = NoItem) /\ (main' = "send" => held')
      BY <2>3
    <3> QED
      BY <1>1, <2>3, <3>1, <3>2, <3>3, MainKeeps
  <2> QED
    BY <1>6, <2>2, <2>3 DEF MainSends
<1>7. CASE MainReset
  <2>1. /\ main = "idle" /\ c2h' \in Seq(SourceFrame) /\ (Remove \/ Keep)
        /\ UNCHANGED <<clientVars, h2c, main, offer, rx, ingress_fin, egress_done, downlink,
                       events, egressVars>>
    BY <1>7, FrameTaken DEF MainReset
  <2>2. /\ offer' = offer /\ main' = "idle" /\ h2c' = h2c /\ downlink' = downlink /\ rx' = rx
        /\ events' \in Seq(Event) /\ ingress_fin' \in BOOLEAN /\ egress_done' \in BOOLEAN
        /\ UNCHANGED <<clientVars, egressVars>>
    <3>1. offer' = offer /\ main' = "idle" /\ h2c' = h2c /\ downlink' = downlink /\ rx' = rx
      BY <2>1
    <3>2. events' = events /\ ingress_fin' = ingress_fin /\ egress_done' = egress_done
      BY <2>1
    <3>3. UNCHANGED <<clientVars, egressVars>>
      BY <2>1
    <3> QED
      BY <1>1, <3>1, <3>2, <3>3
  <2>3. /\ main' \in {"idle", "send"} /\ (main' = "idle" <=> offer' = NoItem)
        /\ (main' = "send" => held') /\ offer' \in SourceMessage
    BY <1>1, <2>1, <2>2
  <2> QED
    BY <1>1, <2>1, <2>2, <2>3, MainKeeps
<1>8. CASE MainResume \/ MainPing
  <2>1. /\ main = "idle" /\ c2h' \in Seq(SourceFrame)
        /\ UNCHANGED <<clientVars, mainVars, downlink, events, taskVars, egressVars>>
    BY <1>8, FrameTaken DEF MainResume, MainPing
  <2>2. h2c' \in Seq(ReplyFrame(Len(written)))
    <3>1. ResumeOk(rx.delivered) \in ReplyFrame(Len(written))
      BY FramesMade
    <3>2. ResumeOk(rx.delivered) \in SourceFrame
      BY <3>1 DEF ReplyFrame
    <3> QED
      BY <1>2, <1>3, <1>8, <3>1, <3>2 DEF MainResume, MainPing
  <2>3. Keep /\ UNCHANGED <<main, offer, rx, ingress_fin, egress_done>>
    BY <2>1 DEF mainVars, Keep
  <2> QED
    BY <1>1, <2>1, <2>2, <2>3, MainKeeps
<1>9. CASE MainEvent
  <2>1. /\ main = "idle" /\ events # <<>> /\ events' = Tail(events)
        /\ egress_done' = (egress_done \/ (held /\ Head(events) = "EgressDone"))
        /\ Remove \/ Keep
        /\ UNCHANGED h2c \/ Reply(Signal("Reset"))
        /\ UNCHANGED <<clientVars, c2h, main, offer, rx, ingress_fin, downlink, egressVars>>
    BY <1>9 DEF MainEvent
  <2>2. h2c' \in Seq(ReplyFrame(Len(written)))
    BY <1>1, <1>2, <1>3, <2>1
  <2>3. events' \in Seq(Event)
    BY <1>1, <2>1, HeadTailProperties
  <2>4. egress_done' \in BOOLEAN
    BY <1>1, <2>1
  <2> QED
    BY <1>1, <2>1, <2>2, <2>3, <2>4, MainKeeps
<1> QED
  BY <1>4, <1>5, <1>6, <1>7, <1>8, <1>9 DEF Main

\* They keep the path of the queue, and a half-close at its end.
LEMMA MainKeepsPath ==
  ASSUME Inv, Main, NEW fin \in Nat, QueueJoins(fin),
         Takes("Fin") /\ held => rx.delivered >= fin,
         offer = HalfClose => rx.delivered >= fin
  PROVE  QueueJoins(fin)'
<1> USE Numbers
<1>1. CASE Remove
  BY <1>1, RemoveEnds DEF QueueJoins
<1>2. CASE Keep /\ UNCHANGED <<written, downlink, offer, rx>>
  BY <1>2, PathUntouched DEF Keep, taskVars, Alive
<1>3. CASE MainData
  <2> DEFINE f == Head(c2h)
  <2>1. /\ main = "idle" /\ offer = NoItem /\ f \in SourceFrame /\ f.type = "Data"
        /\ UNCHANGED written
    BY <1>3, FrameTaken DEF MainData, egressVars
  <2> DEFINE msg == IF IsDuplicate(rx, f.offset, f.data) THEN Duplicate(rx.delivered)
                    ELSE Bytes(FreshBytes(rx, f.offset, f.data), rx'.delivered)
  <2>2. CASE held /\ ~IsGap(rx, f.offset, f.data)
    <3>1. rx' = Accept(rx, f.offset, f.data) /\ Offer(msg)
      BY <1>3, <2>2 DEF MainData
    <3>2. /\ msg \in SourceMessage /\ msg # HalfClose /\ rx'.delivered \in Nat
          /\ rx.delivered <= rx'.delivered /\ Moves(rx.delivered, msg, rx'.delivered)
      BY <2>1, <2>2, <3>1, DataMoves
    <3> HIDE DEF msg, f
    <3> QED
      BY <2>1, <3>1, <3>2, OfferKeepsPath
  <2>3. CASE ~(held /\ ~IsGap(rx, f.offset, f.data))
    <3>1. (Remove \/ Keep) /\ UNCHANGED <<main, offer, rx, downlink>>
      BY <1>3, <2>3 DEF MainData
    <3> QED
      BY <1>1, <1>2, <2>1, <3>1
  <2> QED
    BY <2>2, <2>3
<1>4. CASE MainFin
  <2>1. main = "idle" /\ offer = NoItem /\ UNCHANGED written /\ Takes("Fin")
    BY <1>4, FrameTaken DEF MainFin, egressVars
  <2>2. CASE held /\ ~ingress_fin
    <3>1. rx' = MarkFinAt(rx) /\ Offer(HalfClose)
      BY <1>4, <2>2 DEF MainFin
    <3>2. rx'.delivered = rx.delivered
      BY <3>1 DEF MarkFinAt, RecvTracker
    <3>3. HalfClose \in SourceMessage /\ Moves(rx.delivered, HalfClose, rx'.delivered)
      BY <3>2, MessagesMade DEF Moves
    <3> QED
      BY <2>1, <2>2, <3>1, <3>2, <3>3, OfferKeepsPath
  <2>3. CASE ~(held /\ ~ingress_fin)
    <3>1. (Remove \/ Keep) /\ UNCHANGED <<main, offer, rx, ingress_fin, downlink>>
      BY <1>4, <2>3 DEF MainFin
    <3> QED
      BY <1>1, <1>2, <2>1, <3>1
  <2> QED
    BY <2>2, <2>3
<1>5. CASE MainSends
  <2>1. UNCHANGED <<rx, written>>
    BY <1>5 DEF MainSends, egressVars
  <2>2. CASE Enqueue(offer)
    <3>1. CASE Alive
      <4>1. /\ item.kind = "Data" => item.delivered = AfterItem
            /\ \E c \in 0 .. rx.delivered :
                 Path(downlink, AfterItem, c, rx.delivered, fin) /\ Moves(c, offer, rx.delivered)
        BY <3>1, QueueIsPath
      <4>2. PICK c \in 0 .. rx.delivered :
              Path(downlink, AfterItem, c, rx.delivered, fin) /\ Moves(c, offer, rx.delivered)
        BY <4>1
      <4> QED
        BY <2>1, <2>2, <4>1, <4>2, EnqueueKeepsPath
    <3>2. CASE ~Alive
      BY <2>2, <3>2 DEF Enqueue, Remove, Keep, taskVars, Alive, QueueJoins
    <3> QED
      BY <3>1, <3>2
  <2> QED
    BY <1>1, <1>5, <2>2 DEF MainSends
<1>6. CASE MainReset \/ MainResume \/ MainPing \/ MainEvent
  <2>1. (Remove \/ Keep) /\ UNCHANGED <<written, downlink, offer, rx>>
    BY <1>6 DEF MainReset, MainResume, MainPing, MainEvent, mainVars, egressVars, Keep
  <2> QED
    BY <1>1, <1>2, <2>1
<1> QED
  BY <1>3, <1>4, <1>5, <1>6 DEF Main

-----------------------------------------------------------------------------
(* The steps of the stream's task.                                         *)

\* What a step of the task has to show.
LEMMA TaskKeeps ==
  ASSUME Inv, Alive, UNCHANGED <<clientVars, c2h, mainVars>>,
         written' \in Seq(Byte), written' = SubSeq(Source, 1, Len(written')),
         Len(written') <= rx.delivered,
         pending' \in Nat, delivered' \in Nat, pending' <= delivered', delivered' <= Len(written'),
         item' \in SourceMessage, downlink' \in Seq(SourceMessage), Len(downlink') <= Queue,
         h2c' \in Seq(ReplyFrame(Len(written'))), events' \in Seq(Event),
         task' \in {"running", "ended"}, item' # NoItem => task' = "running",
         up_done' \in BOOLEAN, shut' \in BOOLEAN
  PROVE  Inv'
<1>1. UNCHANGED <<client, cursor, fin_out, released, ping, breaks, main, offer, held, rx,
                  ingress_fin, egress_done>>
  BY DEF clientVars, mainVars
<1>2. Positions'
  BY <1>1 DEF Inv, Positions
<1>3. Queues'
  BY <1>1 DEF Inv, Queues
<1>4. held
  BY DEF Inv, States
<1>5. States'
  BY <1>1, <1>4 DEF Inv, States, Alive
<1> QED
  BY <1>2, <1>3, <1>5 DEF Inv

\* The message the task takes moves the socket on from what is written.
LEMMA TakeMoves ==
  ASSUME Inv, NEW fin \in Nat, QueueJoins(fin), DownlinkTakes
  PROVE  /\ Head(downlink) \in SourceMessage /\ Tail(downlink) \in Seq(SourceMessage)
         /\ Len(Tail(downlink)) <= Queue
         /\ \E b \in 0 .. rx.delivered :
              /\ Moves(Len(written), Head(downlink), b) /\ (Head(downlink) = HalfClose => b >= fin)
              /\ \E c \in 0 .. rx.delivered :
                   Path(Tail(downlink), b, c, rx.delivered, fin) /\ Moves(c, offer, rx.delivered)
<1> USE Numbers
<1>1. /\ Alive /\ AfterItem = Len(written) /\ downlink # <<>>
      /\ downlink \in Seq(SourceMessage) /\ Len(downlink) <= Queue
  BY DEF DownlinkTakes, Alive, AfterItem, NoItem, Inv, Queues
<1>2. PICK c \in 0 .. rx.delivered :
        Path(downlink, AfterItem, c, rx.delivered, fin) /\ Moves(c, offer, rx.delivered)
  BY <1>1, QueueIsPath
<1>3. PICK b \in 0 .. rx.delivered :
        /\ Moves(Len(written), Head(downlink), b) /\ (Head(downlink) = HalfClose => b >= fin)
        /\ Path(Tail(downlink), b, c, rx.delivered, fin)
  BY <1>1, <1>2, PathTake
<1>4. /\ Head(downlink) \in SourceMessage /\ Tail(downlink) \in Seq(SourceMessage)
      /\ Len(Tail(downlink)) <= Queue
  BY <1>1, HeadTailProperties
<1> QED
  BY <1>2, <1>3, <1>4

\* The byte the task writes is the next one of Source.
LEMMA WriteMoves ==
  ASSUME Inv, NEW fin \in Nat, QueueJoins(fin), DownlinkWrites
  PROVE  /\ Head(item.data) = Source[Len(written) + 1] /\ Len(written) < rx.delivered
         /\ Len(item.data) \in Nat \ {0} /\ item.delivered = Len(written) + Len(item.data)
         /\ item.delivered <= rx.delivered
         /\ Len(item.data) > 1 =>
              LET rest == [item EXCEPT !.data = Tail(@)]
              IN  /\ rest \in SourceMessage /\ rest.kind = "Data" /\ rest # NoItem
                  /\ rest.delivered = item.delivered /\ Len(rest.data) = Len(item.data) - 1
<1> USE Numbers
<1>1. Alive /\ item.kind = "Data"
  BY DEF DownlinkWrites, Alive
<1>2. /\ item \in Downlink /\ item.data \in Seq(Byte) /\ Len(item.data) \in Nat \ {0}
      /\ item.data # <<>> /\ item.delivered \in Nat /\ EndsAt(item.data, item.delivered)
  BY <1>1, MessageFields
<1>3. item.delivered = Len(written) + Len(item.data)
  BY <1>1 DEF QueueJoins, AfterItem
<1>4. AfterItem \in 0 .. rx.delivered /\ AfterItem = item.delivered
  <2>1. PICK c \in 0 .. rx.delivered : Path(downlink, AfterItem, c, rx.delivered, fin)
    BY <1>1, QueueIsPath
  <2>2. PICK at \in [0 .. Len(downlink) -> 0 .. rx.delivered] : at[0] = AfterItem
    BY <2>1 DEF Path
  <2>3. AfterItem = item.delivered
    BY <1>1, <1>3 DEF AfterItem
  <2> QED
    BY <2>2, <2>3
<1>5. /\ Head(item.data) = item.data[1] /\ Tail(item.data) \in Seq(Byte)
      /\ Len(Tail(item.data)) = Len(item.data) - 1
      /\ \A i \in 1 .. Len(Tail(item.data)) : Tail(item.data)[i] = item.data[i + 1]
  BY <1>2, HeadTailProperties
<1>6. item.data[1] = Source[Len(written) + 1]
  <2>1. item.delivered - Len(item.data) + 1 = Len(written) + 1 /\ 1 \in 1 .. Len(item.data)
    BY <1>2, <1>3
  <2> QED
    BY <1>2, <2>1 DEF EndsAt
<1>7. ASSUME Len(item.data) > 1
      PROVE  LET rest == [item EXCEPT !.data = Tail(@)]
             IN  /\ rest \in SourceMessage /\ rest.kind = "Data" /\ rest # NoItem
                 /\ rest.delivered = item.delivered /\ Len(rest.data) = Len(item.data) - 1
  <2> DEFINE rest == [item EXCEPT !.data = Tail(@)]
  <2>1. item \in [kind : {"Data"}, data : Seq(Byte), delivered : Nat]
    BY <1>1, <1>2 DEF Downlink
  <2>2. /\ Tail(item.data) \in Seq(Byte) /\ Tail(item.data) # <<>>
        /\ Len(Tail(item.data)) = Len(item.data) - 1 /\ EndsAt(Tail(item.data), item.delivered)
    BY <1>2, <1>7, EndsAtTail
  <2>3. rest.kind = "Data" /\ rest.data = Tail(item.data) /\ rest.delivered = item.delivered
    BY <2>1
  <2>4. rest \in SourceMessage
    <3>1. rest \in [kind : {"Data"}, data : Seq(Byte), delivered : Nat]
      BY <2>1, <2>2
    <3> HIDE DEF rest
    <3> QED
      BY <2>2, <2>3, <3>1 DEF SourceMessage, Downlink
  <2> HIDE DEF rest
  <2>5. rest # NoItem
    BY <2>3, MessagesMade
  <2> QED
    BY <2>2, <2>3, <2>4, <2>5 DEF rest
<1> QED
  BY <1>2, <1>3, <1>4, <1>5, <1>6, <1>7

\* The steps of the task keep types, prefix and confirmations.
LEMMA TaskSteps ==
  ASSUME Inv, QueueJoins(0), Task
  PROVE  Inv'
<1> USE Numbers
<1>1. /\ written \in Seq(Byte) /\ written = SubSeq(Source, 1, Len(written))
      /\ Len(written) <= rx.delivered
      /\ pending \in Nat /\ delivered \in Nat /\ pending <= delivered /\ delivered <= Len(written)
      /\ downlink \in Seq(SourceMessage) /\ Len(downlink) <= Queue
      /\ h2c \in Seq(ReplyFrame(Len(written))) /\ events \in Seq(Event)
  BY DEF Inv, Positions, Queues
<1>2. up_done \in BOOLEAN /\ shut \in BOOLEAN /\ (item # NoItem => task = "running")
  BY DEF Inv, States
<1>3. ASSUME NEW f \in ReplyFrame(Len(written)), Reply(f)
      PROVE  h2c' \in Seq(ReplyFrame(Len(written)))
  BY <1>1, <1>3, AppendProperties DEF Reply
<1>4. delivered \in 0 .. Len(written)
  BY <1>1
<1>5. CASE DialOk \/ DialFails
  <2>1. /\ Alive /\ UNCHANGED <<clientVars, c2h, mainVars>> /\ item = NoItem
        /\ UNCHANGED <<downlink, item, pending, delivered, up_done>> /\ UNCHANGED <<written, shut>>
        /\ task' \in {"running", "ended"}
        /\ Reply(Signal("OpenOk")) \/ Reply(Signal("OpenErr"))
        /\ events' = events \/ events' = Append(events, "FailedSilently")
    BY <1>2, <1>5 DEF DialOk, DialFails, Alive, Report, egressVars
  <2>2. h2c' \in Seq(ReplyFrame(Len(written)))
    <3>1. Signal("OpenOk") \in ReplyFrame(Len(written)) /\ Signal("OpenErr") \in ReplyFrame(Len(written))
      BY FramesMade
    <3> QED
      BY <1>3, <2>1, <3>1
  <2>3. events' \in Seq(Event)
    <3>1. events \in Seq(Event) /\ "FailedSilently" \in Event
      BY <1>1 DEF Event
    <3>2. Append(events, "FailedSilently") \in Seq(Event)
      BY <3>1, AppendProperties
    <3> QED
      BY <2>1, <3>1, <3>2
  <2> QED
    BY <1>1, <1>2, <2>1, <2>2, <2>3, TaskKeeps
<1>6. CASE DownlinkTakes
  <2> DEFINE msg == Head(downlink)
  <2>1. /\ task = "running" /\ Alive /\ task' = task
        /\ UNCHANGED <<clientVars, c2h, mainVars>> /\ UNCHANGED <<events, up_done, written, shut>>
        /\ downlink' = Tail(downlink)
        /\ item' = IF msg.kind = "Duplicate" THEN NoItem ELSE msg
        /\ delivered' = IF msg.kind = "Duplicate" THEN msg.delivered ELSE delivered
        /\ pending' = IF msg.kind = "Data" THEN pending ELSE 0
        /\ UNCHANGED h2c \/ Reply(AckFrame(delivered'))
    BY <1>6 DEF DownlinkTakes, Alive, egressVars
  <2>2. /\ msg \in SourceMessage /\ downlink' \in Seq(SourceMessage) /\ Len(downlink') <= Queue
        /\ \E b \in 0 .. rx.delivered : Moves(Len(written), msg, b)
    BY <1>6, <2>1, TakeMoves
  <2> HIDE DEF msg
  <2>3. msg.kind = "Duplicate" => msg.delivered = Len(written)
    BY <2>2 DEF Moves
  <2>4. /\ pending' \in Nat /\ delivered' \in Nat /\ pending' <= delivered' /\ delivered' <= Len(written)
        /\ delivered' \in 0 .. Len(written)
    BY <1>1, <2>1, <2>3
  <2>5. h2c' \in Seq(ReplyFrame(Len(written)))
    BY <1>1, <1>3, <2>1, <2>4, FramesMade
  <2>6. item' \in SourceMessage
    BY <2>1, <2>2, MessagesMade
  <2> QED
    BY <1>1, <1>2, <2>1, <2>2, <2>4, <2>5, <2>6, TaskKeeps
<1>7. CASE DownlinkWrites
  <2>1. /\ task = "running" /\ Alive /\ task' = task
        /\ UNCHANGED <<clientVars, c2h, mainVars>> /\ UNCHANGED <<downlink, events, up_done, shut>>
        /\ written' = Append(written, Head(item.data))
    BY <1>7 DEF DownlinkWrites, Alive
  <2>2. /\ Head(item.data) = Source[Len(written) + 1] /\ Len(written) < rx.delivered
        /\ Len(item.data) \in Nat \ {0} /\ item.delivered = Len(written) + Len(item.data)
    BY <1>7, WriteMoves
  <2>3. /\ written' \in Seq(Byte) /\ Len(written') = Len(written) + 1
        /\ written' = SubSeq(Source, 1, Len(written'))
    <3>1. Len(written) < Len(Source)
      BY <2>2
    <3>2. written' = Append(written, Source[Len(written) + 1])
      BY <2>1, <2>2
    <3> QED
      BY <1>1, <3>1, <3>2, PrefixGrows
  <2>4. h2c \in Seq(ReplyFrame(Len(written'))) /\ Len(written') <= rx.delivered /\ Len(written') \in Nat
    BY <1>1, <2>2, <2>3, RepliesGrow
  <2>5. CASE Len(item.data) > 1
    <3>1. item' = [item EXCEPT !.data = Tail(@)] /\ UNCHANGED <<pending, delivered, h2c>>
      BY <1>7, <2>5 DEF DownlinkWrites
    <3>2. item' \in SourceMessage
      BY <1>7, <2>5, <3>1, WriteMoves
    <3>3. delivered' <= Len(written')
      BY <1>1, <2>3, <3>1
    <3> QED
      BY <1>1, <1>2, <2>1, <2>3, <2>4, <3>1, <3>2, <3>3, TaskKeeps
  <2>6. CASE ~(Len(item.data) > 1)
    <3> DEFINE now == pending + (item.delivered - delivered)
    <3>1. /\ item' = NoItem /\ delivered' = item.delivered
          /\ pending' = IF now >= AckBytes THEN 0 ELSE now
          /\ UNCHANGED h2c \/ Reply(AckFrame(item.delivered))
      BY <1>7, <2>6 DEF DownlinkWrites
    <3>2. item.delivered = Len(written')
      BY <2>2, <2>3, <2>6
    <3>3. now \in Nat /\ now <= Len(written')
      BY <1>1, <2>2, <2>3, <3>2
    <3>4. /\ pending' \in Nat /\ delivered' \in Nat /\ pending' <= delivered'
          /\ delivered' <= Len(written')
      BY <2>4, <3>1, <3>2, <3>3
    <3>5. AckFrame(item.delivered) \in ReplyFrame(Len(written'))
      <4>1. item.delivered \in 0 .. Len(written')
        BY <2>4, <3>2
      <4> QED
        BY <2>4, <4>1, FramesMade
    <3>6. h2c' \in Seq(ReplyFrame(Len(written')))
      <4> HIDE DEF now
      <4> DEFINE R == ReplyFrame(Len(written'))
                 ack == AckFrame(item.delivered)
      <4>1. h2c' = h2c \/ h2c' = Append(h2c, ack)
        BY <3>1 DEF Reply
      <4>2. h2c \in Seq(R) /\ ack \in R
        BY <2>4, <3>5
      <4> HIDE DEF R, ack
      <4>3. Append(h2c, ack) \in Seq(R)
        BY <4>2, AppendProperties
      <4>4. h2c' \in Seq(R)
        BY <4>1, <4>2, <4>3
      <4> QED
        BY <4>4 DEF R
    <3>7. item' \in SourceMessage
      BY <3>1, MessagesMade
    <3> QED
      BY <1>1, <1>2, <2>1, <2>3, <2>4, <3>1, <3>4, <3>6, <3>7, TaskKeeps
  <2> QED
    BY <2>5, <2>6
<1>8. CASE DownlinkShuts
  <2>1. /\ task = "running" /\ Alive /\ task' = task
        /\ UNCHANGED <<clientVars, c2h, mainVars>>
        /\ UNCHANGED <<h2c, downlink, events, pending, delivered, up_done, written>>
        /\ item' = NoItem /\ shut' = TRUE
    BY <1>8 DEF DownlinkShuts, Alive
  <2>2. item' \in SourceMessage
    BY <2>1, MessagesMade
  <2> QED
    BY <1>1, <1>2, <2>1, <2>2, TaskKeeps
<1>9. CASE AckDelayOver
  <2>1. /\ task = "running" /\ Alive /\ task' = task
        /\ UNCHANGED <<clientVars, c2h, mainVars>>
        /\ UNCHANGED <<downlink, events, item, delivered, up_done>> /\ UNCHANGED <<written, shut>>
        /\ pending' = 0 /\ Reply(AckFrame(delivered))
    BY <1>9 DEF AckDelayOver, Alive, egressVars
  <2>2. h2c' \in Seq(ReplyFrame(Len(written)))
    BY <1>3, <1>4, <2>1, FramesMade
  <2> QED
    BY <1>1, <1>2, <2>1, <2>2, TaskKeeps
<1>10. CASE TaskFails \/ UplinkDone
  <2>1. /\ task = "running" /\ Alive /\ task' \in {"running", "ended"}
        /\ UNCHANGED <<clientVars, c2h, mainVars>>
        /\ UNCHANGED <<h2c, downlink, pending, delivered>> /\ UNCHANGED <<written, shut>>
        /\ up_done' \in {up_done, TRUE} /\ item' \in {item, NoItem}
        /\ (item' # NoItem => task' = "running")
        /\ \E e \in {"Failed", "EgressDone"} : events' = Append(events, e)
    BY <1>10 DEF TaskFails, UplinkDone, Alive, Report, egressVars
  <2>2. events' \in Seq(Event)
    BY <1>1, <2>1, AppendProperties DEF Event
  <2>3. item' \in SourceMessage
    <3>1. item \in SourceMessage /\ NoItem \in SourceMessage
      BY <1>2, MessagesMade
    <3> QED
      BY <2>1, <3>1
  <2>4. up_done' \in BOOLEAN
    <3>1. up_done \in BOOLEAN
      BY <1>2
    <3> QED
      BY <2>1, <3>1
  <2> QED
    BY <1>1, <1>2, <2>1, <2>2, <2>3, <2>4, TaskKeeps
<1> QED
  BY <1>5, <1>6, <1>7, <1>8, <1>9, <1>10 DEF Task, Working

\* They keep the path of the queue.
LEMMA TaskKeepsPath ==
  ASSUME Inv, Task, NEW fin \in Nat, QueueJoins(fin)
  PROVE  QueueJoins(fin)'
<1> USE Numbers
<1>1. CASE DialOk \/ AckDelayOver \/ UplinkDone
  <2>1. Alive /\ UNCHANGED <<written, item, downlink, offer, rx>>
    BY <1>1 DEF DialOk, AckDelayOver, UplinkDone, Alive, mainVars, egressVars
  <2> QED
    BY <2>1, PathUntouched
<1>2. CASE DialFails \/ TaskFails
  BY <1>2 DEF DialFails, TaskFails, QueueJoins, Alive
<1>3. CASE DownlinkTakes
  <2>1. PICK b \in 0 .. rx.delivered, c \in 0 .. rx.delivered :
          /\ Moves(Len(written), Head(downlink), b) /\ (Head(downlink) = HalfClose => b >= fin)
          /\ Path(Tail(downlink), b, c, rx.delivered, fin) /\ Moves(c, offer, rx.delivered)
    BY <1>3, TakeMoves
  <2>2. /\ downlink' = Tail(downlink) /\ written' = written /\ rx' = rx /\ offer' = offer
        /\ item' = IF Head(downlink).kind = "Duplicate" THEN NoItem ELSE Head(downlink)
    BY <1>3 DEF DownlinkTakes, mainVars, egressVars
  <2>3. AfterItem' = b /\ (item'.kind = "Data" => item'.delivered = b)
    BY <2>1, <2>2, MessagesMade DEF AfterItem, Moves
  <2>4. PICK at \in [0 .. Len(downlink') -> 0 .. rx.delivered] :
          /\ at[0] = b /\ at[Len(downlink')] = c
          /\ \A i \in 1 .. Len(downlink') :
               /\ Moves(at[i - 1], downlink'[i], at[i])
               /\ (downlink'[i] = HalfClose => at[i] >= fin)
    BY <2>1, <2>2 DEF Path
  <2> QED
    BY <2>1, <2>2, <2>3, <2>4 DEF QueueJoins
<1>4. CASE DownlinkWrites
  <2>1. /\ written' = Append(written, Head(item.data)) /\ rx' = rx /\ offer' = offer
        /\ downlink' = downlink /\ Alive /\ item.kind = "Data"
    BY <1>4 DEF DownlinkWrites, mainVars, Alive
  <2>2. /\ Len(item.data) \in Nat \ {0} /\ item.delivered = Len(written) + Len(item.data)
        /\ Len(item.data) > 1 =>
             LET rest == [item EXCEPT !.data = Tail(@)]
             IN  /\ rest.kind = "Data" /\ rest.delivered = item.delivered
                 /\ Len(rest.data) = Len(item.data) - 1
    BY <1>4, WriteMoves
  <2>3. Len(written') = Len(written) + 1
    <3>1. written \in Seq(Byte) /\ Head(item.data) \in Byte
      <4>1. item.data \in Seq(Byte) /\ item.data # <<>>
        BY <2>1, MessageFields
      <4> QED
        BY <4>1, HeadTailProperties DEF Inv, Positions
    <3> QED
      BY <2>1, <3>1, AppendProperties
  <2>4. AfterItem' = AfterItem /\ (item'.kind = "Data" => item'.delivered = AfterItem')
    <3>1. CASE Len(item.data) > 1
      <4>1. item' = [item EXCEPT !.data = Tail(@)]
        BY <1>4, <3>1 DEF DownlinkWrites
      <4>2. /\ item'.kind = "Data" /\ item'.delivered = item.delivered
            /\ Len(item'.data) = Len(item.data) - 1
        BY <2>2, <3>1, <4>1
      <4>3. AfterItem = Len(written) + Len(item.data)
        BY <2>1 DEF AfterItem
      <4>4. AfterItem' = Len(written') + Len(item'.data)
        BY <4>2 DEF AfterItem
      <4>5. Len(written') + Len(item'.data) = Len(written) + Len(item.data)
        <5> HIDE Numbers
        <5>1. Len(written) \in Nat /\ Len(item.data) \in Nat
          BY <2>2, Numbers
        <5>2. Len(written') = Len(written) + 1 /\ Len(item'.data) = Len(item.data) - 1
          BY <2>3, <4>2
        <5>3. \A m, n \in Nat : (m + 1) + (n - 1) = m + n
          OBVIOUS
        <5> QED
          BY <5>1, <5>2, <5>3
      <4> QED
        BY <2>2, <4>2, <4>3, <4>4, <4>5
    <3>2. CASE ~(Len(item.data) > 1)
      <4>1. item' = NoItem
        BY <1>4, <3>2 DEF DownlinkWrites
      <4> QED
        BY <2>1, <2>2, <2>3, <3>2, <4>1, MessagesMade DEF AfterItem
    <3> QED
      BY <3>1, <3>2
  <2> QED
    BY <2>1, <2>4 DEF QueueJoins
<1>5. CASE DownlinkShuts
  <2>1. /\ item = HalfClose /\ item' = NoItem /\ Alive
        /\ UNCHANGED <<written, downlink, offer, rx>>
    BY <1>5 DEF DownlinkShuts, mainVars, Alive
  <2>2. AfterItem' = AfterItem /\ item'.kind # "Data"
    BY <2>1, MessagesMade DEF AfterItem
  <2> QED
    BY <2>1, <2>2 DEF QueueJoins
<1> QED
  BY <1>1, <1>2, <1>3, <1>4, <1>5 DEF Task, Working

-----------------------------------------------------------------------------
(* The theorem for every channel, breaks included.                         *)

\* Steps that change no variable keep everything.
LEMMA Stuttering ==
  ASSUME UNCHANGED vars
  PROVE  /\ Inv => Inv'
         /\ \A fin \in Nat : QueueJoins(fin) => QueueJoins(fin)'
<1>1. UNCHANGED <<client, cursor, fin_out, released, ping, breaks, c2h, h2c, main, offer, held, rx,
                  ingress_fin, egress_done, downlink, events, task, item, pending, delivered,
                  up_done, written, shut>>
  BY DEF vars, clientVars, mainVars, taskVars, egressVars
<1>2. Inv => Inv'
  BY <1>1 DEF Inv, Positions, Queues, States, Alive
<1>3. ASSUME NEW fin \in Nat, QueueJoins(fin) PROVE QueueJoins(fin)'
  BY <1>1, <1>3, PathUntouched DEF Alive
<1> QED
  BY <1>2, <1>3

\* Whatever breaks, queues and closes: the egress socket gets a prefix of Source,
\* byte by byte through the two queues, and no confirmation is ahead of it
\* (main.rs handle_frame, stream.rs downlink_loop).
THEOREM HelperIsSafe == Spec => []HelperInv
<1>1. Init => HelperInv
  BY Initially, Repack
<1>2. HelperInv /\ [Next]_vars => HelperInv'
  <2> SUFFICES ASSUME HelperInv, [Next]_vars PROVE HelperInv'
    OBVIOUS
  <2>1. Inv /\ QueueJoins(0) /\ (Inv' /\ QueueJoins(0)' => HelperInv')
    <3>1. Inv /\ QueueJoins(0)
      BY Repack
    <3>2. (HelperInv <=> Inv /\ QueueJoins(0))'
      BY Repack, PTL
    <3> QED
      BY <3>1, <3>2
  <2>2. CASE Client
    BY <2>1, <2>2, ClientSteps, ClientKeepsPath
  <2>3. CASE Main
    <3>1. QueueJoins(0)'
      BY <2>1, <2>3, Numbers, MainKeepsPath
    <3> QED
      BY <2>1, <2>3, <3>1, MainSteps
  <2>4. CASE Task
    BY <2>1, <2>4, TaskSteps, TaskKeepsPath
  <2>5. CASE UNCHANGED vars
    BY <2>1, <2>5, Stuttering
  <2> QED
    BY <2>2, <2>3, <2>4, <2>5 DEF Next
<1> QED
  BY <1>1, <1>2, PTL DEF Spec

-----------------------------------------------------------------------------
(* One channel: the frames to the helper, as a route of offsets.           *)

\* The helper survives no break of its channel: srp-helper ends with it (main.rs run).
OneChannel == MaxBreaks = 0

Route(q, a, c) ==
  \E at \in [0 .. Len(q) -> 0 .. c] :
    /\ at[0] = a /\ at[Len(q)] = c
    /\ \A i \in 1 .. Len(q) : FrameJoins(at[i - 1], q[i], at[i])

\* Taking the oldest frame moves the start of the route past it.
LEMMA RouteTake ==
  ASSUME NEW S, NEW q \in Seq(S), q # <<>>, NEW a, NEW c \in Nat, Route(q, a, c)
  PROVE  \E b \in 0 .. c : FrameJoins(a, Head(q), b) /\ Route(Tail(q), b, c)
<1> DEFINE n == Len(q)
           r == Tail(q)
<1>1. PICK at \in [0 .. n -> 0 .. c] :
        /\ at[0] = a /\ at[n] = c
        /\ \A i \in 1 .. n : FrameJoins(at[i - 1], q[i], at[i])
  BY DEF Route
<1>2. /\ Len(r) = n - 1 /\ n \in Nat \ {0} /\ Head(q) = q[1]
      /\ \A i \in 1 .. n - 1 : r[i] = q[i + 1]
  BY HeadTailProperties, EmptySeq
<1> HIDE DEF n, r
<1> DEFINE bt == [i \in 0 .. Len(r) |-> at[i + 1]]
<1>3. bt \in [0 .. Len(r) -> 0 .. c]
  <2>1. \A i \in 0 .. Len(r) : i + 1 \in 0 .. n
    BY <1>2
  <2> QED
    BY <2>1
<1>4. bt[0] = at[1] /\ bt[Len(r)] = c
  BY <1>1, <1>2
<1>5. ASSUME NEW i \in 1 .. Len(r)
      PROVE  FrameJoins(bt[i - 1], r[i], bt[i])
  <2>1. /\ i + 1 \in 1 .. n /\ (i + 1) - 1 = i /\ i - 1 \in 0 .. Len(r) /\ i \in 0 .. Len(r)
        /\ (i - 1) + 1 = i /\ r[i] = q[i + 1]
    BY <1>2
  <2>2. FrameJoins(at[i], q[i + 1], at[i + 1])
    BY <1>1, <2>1
  <2> QED
    BY <2>1, <2>2
<1>6. Route(r, at[1], c)
  BY <1>3, <1>4, <1>5 DEF Route
<1>7. 1 \in 1 .. n /\ 1 - 1 = 0 /\ at[1] \in 0 .. c
  BY <1>2
<1>8. FrameJoins(a, Head(q), at[1])
  BY <1>1, <1>2, <1>7
<1> QED
  BY <1>6, <1>7, <1>8 DEF r

\* A frame at the end lengthens the route by what it carries.
LEMMA RouteAppend ==
  ASSUME NEW S, NEW q \in Seq(S), NEW f \in S, NEW a, NEW c \in Nat, NEW d \in Nat, c <= d,
         Route(q, a, c), FrameJoins(c, f, d)
  PROVE  Route(Append(q, f), a, d)
<1> DEFINE n == Len(q)
           r == Append(q, f)
<1>1. PICK at \in [0 .. n -> 0 .. c] :
        /\ at[0] = a /\ at[n] = c
        /\ \A i \in 1 .. n : FrameJoins(at[i - 1], q[i], at[i])
  BY DEF Route
<1>2. Len(r) = n + 1 /\ n \in Nat /\ r[n + 1] = f /\ \A i \in 1 .. n : r[i] = q[i]
  BY AppendProperties, LenProperties
<1> HIDE DEF n, r
<1> DEFINE bt == [i \in 0 .. n + 1 |-> IF i = n + 1 THEN d ELSE at[i]]
<1>3. bt \in [0 .. n + 1 -> 0 .. d]
  <2> SUFFICES ASSUME NEW i \in 0 .. n + 1, i # n + 1 PROVE at[i] \in 0 .. d
    OBVIOUS
  <2>1. i \in 0 .. n
    BY <1>2
  <2>2. at[i] \in 0 .. c
    BY <2>1
  <2> QED
    BY <2>2
<1>4. bt[0] = a /\ bt[n + 1] = d /\ bt[n] = c
  BY <1>1, <1>2
<1>5. ASSUME NEW i \in 1 .. n + 1
      PROVE  FrameJoins(bt[i - 1], r[i], bt[i])
  <2>1. CASE i = n + 1
    <3>1. i - 1 = n
      BY <1>2, <2>1
    <3> QED
      BY <1>2, <1>4, <2>1, <3>1
  <2>2. CASE i \in 1 .. n
    <3>1. i - 1 \in 0 .. n + 1 /\ i \in 0 .. n + 1 /\ i - 1 # n + 1 /\ i # n + 1
      BY <1>2, <2>2
    <3>2. bt[i - 1] = at[i - 1] /\ bt[i] = at[i]
      BY <3>1
    <3> QED
      BY <1>1, <1>2, <2>2, <3>2
  <2> QED
    BY <1>2, <2>1, <2>2
<1>6. Route(r, a, d)
  <2>1. bt \in [0 .. Len(r) -> 0 .. d] /\ bt[0] = a /\ bt[Len(r)] = d
    BY <1>2, <1>3, <1>4
  <2> HIDE DEF bt
  <2> QED
    BY <1>2, <1>5, <2>1 DEF Route
<1> QED
  BY <1>6 DEF r

\* FramesJoin in terms of a route.
LEMMA FramesAreRoute == FramesJoin <=> (held => Route(c2h, rx.delivered, cursor))
BY DEF FramesJoin, Route

\* The next frame to a live stream starts where the main loop is.
LEMMA NextFrame ==
  ASSUME Inv, FramesJoin, held, c2h # <<>>
  PROVE  \E b \in 0 .. cursor : FrameJoins(rx.delivered, Head(c2h), b) /\ Route(Tail(c2h), b, cursor)
BY Numbers, FramesAreRoute, RouteTake DEF Inv, Queues

\* A live stream has not taken more than was sent.
LEMMA TakenWasSent ==
  ASSUME Inv, FramesJoin, held
  PROVE  rx.delivered <= cursor
<1>1. PICK at \in [0 .. Len(c2h) -> 0 .. cursor] : at[0] = rx.delivered
  BY DEF FramesJoin
<1>2. Len(c2h) \in Nat
  BY LenProperties DEF Inv, Queues
<1> QED
  BY <1>1, <1>2, Numbers

-----------------------------------------------------------------------------
(* What is in a queue.                                                     *)

Elements(q) == {q[i] : i \in 1 .. Len(q)}

\* Append adds the new element.
LEMMA ElementsAppend ==
  ASSUME NEW S, NEW q \in Seq(S), NEW x \in S
  PROVE  Elements(Append(q, x)) = Elements(q) \cup {x}
<1> DEFINE r == Append(q, x)
           n == Len(q)
<1>1. Len(r) = n + 1 /\ n \in Nat /\ r[n + 1] = x /\ \A i \in 1 .. n : r[i] = q[i]
  BY AppendProperties, LenProperties
<1> HIDE DEF r, n
<1>2. 1 .. n + 1 = (1 .. n) \cup {n + 1}
  BY <1>1
<1>3. Elements(r) = {r[i] : i \in (1 .. n) \cup {n + 1}}
  BY <1>1, <1>2 DEF Elements
<1>4. Elements(r) = {r[i] : i \in 1 .. n} \cup {r[n + 1]}
  BY <1>3
<1>5. {r[i] : i \in 1 .. n} = {q[i] : i \in 1 .. n}
  BY <1>1
<1> QED
  BY <1>1, <1>4, <1>5 DEF Elements, r, n

\* Taking the head leaves the others.
LEMMA ElementsTake ==
  ASSUME NEW S, NEW q \in Seq(S), q # <<>>
  PROVE  Head(q) \in Elements(q) /\ Elements(q) = {Head(q)} \cup Elements(Tail(q))
<1> DEFINE r == Tail(q)
           n == Len(q)
<1>1. /\ Len(r) = n - 1 /\ n \in Nat \ {0} /\ Head(q) = q[1]
      /\ \A i \in 1 .. n - 1 : r[i] = q[i + 1]
  BY HeadTailProperties, EmptySeq
<1> HIDE DEF r, n
<1>2. ASSUME NEW x \in Elements(q) PROVE x \in {Head(q)} \cup Elements(r)
  <2>1. PICK i \in 1 .. n : x = q[i]
    BY DEF Elements, n
  <2>2. CASE i = 1
    BY <1>1, <2>1, <2>2
  <2>3. CASE i # 1
    <3>1. i - 1 \in 1 .. n - 1 /\ (i - 1) + 1 = i
      BY <1>1, <2>3
    <3>2. x = r[i - 1]
      BY <1>1, <2>1, <3>1
    <3> QED
      BY <1>1, <3>1, <3>2 DEF Elements
  <2> QED
    BY <2>2, <2>3
<1>3. ASSUME NEW x \in Elements(r) PROVE x \in Elements(q)
  <2>1. PICK i \in 1 .. n - 1 : x = r[i]
    BY <1>1 DEF Elements
  <2>2. i + 1 \in 1 .. n /\ x = q[i + 1]
    BY <1>1, <2>1
  <2> QED
    BY <2>2 DEF Elements, n
<1>4. Head(q) \in Elements(q)
  <2>1. 1 \in 1 .. n
    BY <1>1
  <2> QED
    BY <1>1, <2>1 DEF Elements, n
<1> QED
  BY <1>2, <1>3, <1>4 DEF r

\* The same for the types of the frames.
LEMMA TypesChange ==
  ASSUME NEW S, NEW q \in Seq(S)
  PROVE  /\ \A f \in S : Types(Append(q, f)) = Types(q) \cup {f.type}
         /\ q # <<>> => /\ Head(q).type \in Types(q)
                        /\ Types(q) = {Head(q).type} \cup Types(Tail(q))
<1>1. \A p : Types(p) = {f.type : f \in Elements(p)}
  BY DEF Types, Elements
<1>2. ASSUME NEW f \in S PROVE Types(Append(q, f)) = Types(q) \cup {f.type}
  <2>1. Elements(Append(q, f)) = Elements(q) \cup {f}
    BY ElementsAppend
  <2> QED
    BY <1>1, <2>1
<1>3. ASSUME q # <<>> PROVE Head(q).type \in Types(q) /\ Types(q) = {Head(q).type} \cup Types(Tail(q))
  <2>1. Head(q) \in Elements(q) /\ Elements(q) = {Head(q)} \cup Elements(Tail(q))
    BY <1>3, ElementsTake
  <2> QED
    BY <1>1, <2>1
<1> QED
  BY <1>2, <1>3

-----------------------------------------------------------------------------
(* On one channel the socket leads.                                        *)

\* FinsFollow in terms of elements.
LEMMA FinFacts ==
  FinsFollow <=>
    /\ fin_out => cursor = Len(Source)
    /\ "Fin" \in Types(c2h) => fin_out
    /\ ingress_fin => fin_out /\ (held => rx.delivered = Len(Source))
    /\ HalfClose \in {item, offer} \cup Elements(downlink) => ingress_fin
    /\ item = HalfClose => Len(written) = Len(Source)
    /\ "Resume" \notin Types(c2h) /\ "ResumeOk" \notin Types(h2c)
BY DEF FinsFollow, Elements

\* The client adds frames where its cursor is, and drops what an Ack names.
LEMMA ClientLeads ==
  ASSUME OneChannel, Inv, SocketIsLeading, Client
  PROVE  SocketIsLeading'
<1> USE Numbers
<1>1. /\ UNCHANGED <<mainVars, downlink, events, taskVars, egressVars>>
      /\ UNCHANGED <<main, offer, held, rx, ingress_fin, egress_done, task, item, pending,
                     delivered, up_done, written, shut>>
  BY DEF Client, ClientData, ClientFin, ClientReset, ClientPing, ClientResumes, ClientReceives,
         mainVars, taskVars, egressVars
<1>2. QueueJoins(Len(Source))'
  BY ClientKeepsPath DEF SocketIsLeading
<1>3. HalfCloseIsLast'
  BY <1>1 DEF SocketIsLeading, HalfCloseIsLast
<1>4. /\ FramesJoin /\ ReleasedIsWritten /\ FinsFollow
      /\ c2h \in Seq(SourceFrame) /\ h2c \in Seq(ReplyFrame(Len(written)))
      /\ released \in 0 .. Len(Source)
  BY DEF SocketIsLeading, Inv, Queues, Positions
<1>5. ASSUME NEW f \in SourceFrame, Send(f), f.type # "Resume", h2c' = h2c, released' = released,
             cursor <= cursor', cursor' \in Nat, FrameJoins(cursor, f, cursor'),
             fin_out' => cursor' = Len(Source), fin_out => fin_out', f.type = "Fin" => fin_out'
      PROVE  SocketIsLeading'
  <2>1. c2h' = Append(c2h, f)
    BY <1>5 DEF Send
  <2>2. FramesJoin'
    <3>1. held => Route(c2h', rx.delivered, cursor')
      BY <1>4, <1>5, <2>1, FramesAreRoute, RouteAppend
    <3>2. held' => (\E at \in [0 .. Len(c2h') -> 0 .. cursor'] :
                      /\ at[0] = rx'.delivered /\ at[Len(c2h')] = cursor'
                      /\ \A i \in 1 .. Len(c2h') : FrameJoins(at[i - 1], c2h'[i], at[i]))
      BY <1>1, <3>1 DEF Route
    <3> QED
      BY <3>2 DEF FramesJoin
  <2>3. FinsFollow'
    <3>1. Types(c2h)' = Types(c2h) \cup {f.type}
      <4>1. Types(Append(c2h, f)) = Types(c2h) \cup {f.type}
        BY <1>4, <1>5, TypesChange
      <4>2. Types(c2h)' = Types(Append(c2h, f))
        BY <2>1 DEF Types
      <4> QED
        BY <4>1, <4>2
    <3>2. Types(h2c)' = Types(h2c)
      BY <1>5 DEF Types
    <3> QED
      BY <1>1, <1>4, <1>5, <3>1, <3>2 DEF FinsFollow
  <2>4. ReleasedIsWritten'
    BY <1>1, <1>4, <1>5 DEF ReleasedIsWritten
  <2> QED
    BY <1>2, <1>3, <2>2, <2>3, <2>4 DEF SocketIsLeading
<1>6. CASE ClientData
  <2>1. PICK n \in 1 .. Chunk :
          /\ cursor + n <= Len(Source) /\ cursor' = cursor + n
          /\ Send(Data(cursor, SubSeq(Source, cursor + 1, cursor + n)))
    BY <1>6 DEF ClientData
  <2>2. n \in Nat \ {0}
    BY HelperAssumption
  <2> DEFINE u == SubSeq(Source, cursor + 1, cursor + n)
             f == Data(cursor, u)
  <2>3. u \in Seq(Byte) /\ EndsAt(u, cursor + Len(u)) /\ Len(u) = n
    BY <2>1, <2>2, EndsAtSlice
  <2>4. f \in SourceFrame /\ f.type = "Data" /\ f.offset = cursor /\ f.data = u
    <3> HIDE DEF u
    <3>1. cursor \in Nat
      OBVIOUS
    <3>2. \A o \in Nat, d \in Seq(Byte) : EndsAt(d, o + Len(d)) =>
            /\ Data(o, d) \in SourceFrame /\ Data(o, d).type = "Data"
            /\ Data(o, d).offset = o /\ Data(o, d).data = d
      BY FramesMade
    <3> HIDE Numbers
    <3> QED
      BY <2>3, <3>1, <3>2
  <2>5. ~fin_out
    BY <1>4, <2>1, <2>2 DEF FinsFollow
  <2>6. UNCHANGED <<fin_out, h2c, released>>
    BY <1>6 DEF ClientData
  <2>7. Send(f)
    BY <2>1
  <2> HIDE DEF f, u
  <2>8. FrameJoins(cursor, f, cursor')
    BY <2>1, <2>3, <2>4 DEF FrameJoins
  <2>9. cursor <= cursor' /\ cursor' \in Nat
    BY <2>1, <2>2
  <2> QED
    BY <1>5, <2>4, <2>5, <2>6, <2>7, <2>8, <2>9
<1>7. CASE ClientFin \/ ClientReset \/ ClientPing
  <2>1. PICK t \in {"Fin", "Reset", "Ping"} :
          /\ Send(Signal(t)) /\ UNCHANGED <<cursor, released, h2c>>
          /\ fin_out' = (fin_out \/ t = "Fin")
          /\ t = "Fin" => cursor = Len(Source)
    <3>1. fin_out \in BOOLEAN
      BY DEF Inv, States
    <3> QED
      BY <1>7, <3>1 DEF ClientFin, ClientReset, ClientPing
  <2>2. Signal(t) \in SourceFrame /\ Signal(t).type = t
    BY FramesMade
  <2>3. FrameJoins(cursor, Signal(t), cursor')
    BY <2>1, <2>2 DEF FrameJoins
  <2>4. fin_out => cursor = Len(Source)
    BY <1>4 DEF FinsFollow
  <2> QED
    <3> DEFINE f == Signal(t)
    <3>1. /\ f \in SourceFrame /\ f.type = t /\ Send(f) /\ h2c' = h2c /\ released' = released
          /\ f.type # "Resume" /\ FrameJoins(cursor, f, cursor')
      BY <2>1, <2>2, <2>3
    <3>2. cursor <= cursor' /\ cursor' \in Nat
      BY <2>1
    <3>3. (fin_out' => cursor' = Len(Source)) /\ (fin_out => fin_out') /\ (t = "Fin" => fin_out')
      BY <2>1, <2>4
    <3> HIDE DEF f
    <3> QED
      BY <1>5, <3>1, <3>2, <3>3
<1>8. CASE ClientResumes
  BY <1>8 DEF ClientResumes, OneChannel, Inv, States
<1>9. CASE ClientReceives
  <2> DEFINE f == Head(h2c)
  <2>1. /\ h2c # <<>> /\ h2c' = Tail(h2c)
        /\ released' = IF f.type \in {"Ack", "ResumeOk"} /\ client = "open"
                       THEN GreaterOf(released, f.offset) ELSE released
        /\ cursor' = IF f.type = "ResumeOk" /\ client = "open" THEN f.offset ELSE cursor
        /\ UNCHANGED <<fin_out, breaks, c2h>>
    BY <1>9 DEF ClientReceives
  <2>2. f \in ReplyFrame(Len(written))
    BY <1>4, <2>1, HeadTailProperties
  <2>3. f.type \in Types(h2c) /\ Types(Tail(h2c)) \subseteq Types(h2c)
    BY <1>4, <2>1, TypesChange
  <2> HIDE DEF f
  <2>4. f.type # "ResumeOk"
    BY <1>4, <2>3 DEF FinsFollow
  <2>5. f.type = "Ack" => f.offset \in Nat /\ f.offset <= Len(written)
    BY <2>2, FrameFields DEF ReplyFrame
  <2>6. released' <= Len(written) /\ cursor' = cursor
    BY <1>4, <2>1, <2>4, <2>5 DEF ReleasedIsWritten, GreaterOf
  <2>7. Types(h2c)' \subseteq Types(h2c) /\ Types(c2h)' = Types(c2h)
    BY <2>1, <2>3 DEF Types
  <2>8. ReleasedIsWritten'
    BY <1>1, <2>6 DEF ReleasedIsWritten
  <2>9. FramesJoin'
    BY <1>1, <1>4, <2>1, <2>6 DEF FramesJoin
  <2>10. FinsFollow'
    BY <1>1, <1>4, <2>1, <2>6, <2>7 DEF FinsFollow
  <2> QED
    BY <1>2, <1>3, <2>8, <2>9, <2>10 DEF SocketIsLeading
<1> QED
  BY <1>6, <1>7, <1>8, <1>9 DEF Client

\* A reply adds its type to what is on the way to the client.
LEMMA ReplyTypes ==
  ASSUME Inv, NEW f \in SourceFrame, Reply(f)
  PROVE  Types(h2c)' = Types(h2c) \cup {f.type}
<1>1. h2c \in Seq(SourceFrame)
  BY SeqMonotonic DEF Inv, Queues, ReplyFrame
<1>2. h2c' = Append(h2c, f)
  BY DEF Reply
<1>3. Types(Append(h2c, f)) = Types(h2c) \cup {f.type}
  BY <1>1, TypesChange
<1> QED
  BY <1>2, <1>3 DEF Types

\* A frame that was taken adds nothing to the queue.
LEMMA TakenTypes ==
  ASSUME Inv, NEW type, Takes(type)
  PROVE  type \in Types(c2h) /\ Types(c2h)' \subseteq Types(c2h)
<1>1. c2h \in Seq(SourceFrame) /\ c2h # <<>> /\ Head(c2h).type = type /\ c2h' = Tail(c2h)
  BY DEF Takes, Inv, Queues
<1>2. type \in Types(c2h) /\ Types(Tail(c2h)) \subseteq Types(c2h)
  BY <1>1, TypesChange
<1> QED
  BY <1>1, <1>2 DEF Types

\* What a hand-over puts where.
LEMMA OfferElements ==
  ASSUME Inv, NEW msg \in SourceMessage, Offer(msg)
  PROVE  /\ {offer'} \cup Elements(downlink)' \subseteq {NoItem, msg} \cup Elements(downlink)
         /\ Types(h2c)' = Types(h2c) \/ Types(h2c)' = Types(h2c) \cup {"Reset"}
         /\ Remove \/ Keep
<1>1. CASE Enqueue(msg)
  <2>1. downlink' = Append(downlink, msg) /\ offer' = NoItem /\ h2c' = h2c /\ (Remove \/ Keep)
    BY <1>1 DEF Enqueue
  <2>2. Elements(Append(downlink, msg)) = Elements(downlink) \cup {msg}
    BY ElementsAppend DEF Inv, Queues
  <2> QED
    BY <2>1, <2>2 DEF Elements, Types
<1>2. CASE Keep /\ offer' = msg /\ UNCHANGED <<downlink, h2c>>
  BY <1>2 DEF Elements, Types
<1>3. CASE offer' = NoItem /\ Remove /\ Reply(Signal("Reset")) /\ UNCHANGED downlink
  <2>1. Types(h2c)' = Types(h2c) \cup {"Reset"}
    BY <1>3, FramesMade, ReplyTypes
  <2> QED
    BY <1>3, <2>1 DEF Elements
<1> QED
  BY <1>1, <1>2, <1>3 DEF Offer

\* What a step of the main loop has to show.
LEMMA MainLeadsIf ==
  ASSUME Inv, SocketIsLeading, Main, Remove \/ Keep,
         Types(c2h)' \subseteq Types(c2h), Types(h2c)' \subseteq Types(h2c) \cup {"Reset", "Pong"},
         held' => Route(c2h', rx'.delivered, cursor),
         ingress_fin => ingress_fin',
         ingress_fin' => ingress_fin \/ (fin_out /\ rx.delivered = Len(Source)),
         rx.delivered = Len(Source) => rx'.delivered = Len(Source),
         HalfClose \in {offer'} \cup Elements(downlink)' =>
           ingress_fin' \/ HalfClose \in {offer} \cup Elements(downlink)
  PROVE  SocketIsLeading'
<1> USE Numbers
<1>1. /\ UNCHANGED <<clientVars, egressVars>>
      /\ UNCHANGED <<client, cursor, fin_out, released, written, shut>>
  BY DEF Main, MainData, MainFin, MainSends, MainReset, MainResume, MainPing, MainEvent,
         clientVars, egressVars
<1>2. FinsFollow /\ FramesJoin /\ ReleasedIsWritten /\ HalfCloseIsLast /\ QueueJoins(Len(Source))
  BY DEF SocketIsLeading
<1>3. /\ offer # NoItem => held
      /\ held' => held
      /\ item' \in {item, NoItem}
  <2>1. offer # NoItem => held
    BY DEF Inv, States
  <2>2. item' \in {item, NoItem} /\ (held' => held)
    BY DEF Remove, Keep, taskVars
  <2> QED
    BY <2>1, <2>2
<1>4. HalfCloseIsLast' /\ ReleasedIsWritten'
  BY <1>1, <1>2 DEF HalfCloseIsLast, ReleasedIsWritten
<1>5. FramesJoin'
  <2>1. held' => \E at \in [0 .. Len(c2h') -> 0 .. cursor'] :
                   /\ at[0] = rx'.delivered /\ at[Len(c2h')] = cursor'
                   /\ \A i \in 1 .. Len(c2h') : FrameJoins(at[i - 1], c2h'[i], at[i])
    BY <1>1 DEF Route
  <2> QED
    BY <2>1 DEF FramesJoin
<1>6. NoItem # HalfClose
  BY MessagesMade
<1>7. QueueJoins(Len(Source))'
  <2>1. ASSUME Takes("Fin"), held PROVE rx.delivered >= Len(Source)
    <3>1. c2h # <<>> /\ Head(c2h).type = "Fin"
      BY <2>1 DEF Takes
    <3>2. PICK b \in 0 .. cursor : FrameJoins(rx.delivered, Head(c2h), b)
      BY <1>2, <2>1, <3>1, NextFrame
    <3> QED
      BY <3>1, <3>2 DEF FrameJoins
  <2>2. offer = HalfClose => rx.delivered >= Len(Source)
    BY <1>2, <1>3, <1>6 DEF FinsFollow
  <2> QED
    BY <1>2, <2>1, <2>2, MainKeepsPath
<1>8. FinsFollow'
  <2>1. fin_out' => cursor' = Len(Source)'
    BY <1>1, <1>2 DEF FinsFollow
  <2>2. "Fin" \in Types(c2h)' => fin_out'
    BY <1>1, <1>2 DEF FinsFollow
  <2>3. ingress_fin' => fin_out' /\ (held' => rx'.delivered = Len(Source)')
    BY <1>1, <1>2, <1>3 DEF FinsFollow
  <2>4. HalfClose \in {item', offer'} \cup Elements(downlink)' => ingress_fin'
    BY <1>2, <1>3, <1>6, FinFacts
  <2>5. item' = HalfClose => Len(written)' = Len(Source)'
    BY <1>1, <1>2, <1>3, <1>6 DEF FinsFollow
  <2>6. "Resume" \notin Types(c2h)' /\ "ResumeOk" \notin Types(h2c)'
    BY <1>2 DEF FinsFollow
  <2> QED
    BY <2>1, <2>2, <2>3, <2>4, <2>5, <2>6 DEF FinsFollow, Elements, HalfClose
<1> QED
  BY <1>4, <1>5, <1>7, <1>8 DEF SocketIsLeading

\* A frame without bytes leaves the route where the main loop is.
LEMMA OtherTaken ==
  ASSUME Inv, SocketIsLeading, NEW type, type # "Data", Takes(type)
  PROVE  held => /\ Route(c2h', rx.delivered, cursor)
                 /\ type = "Fin" => rx.delivered = Len(Source)
<1> SUFFICES ASSUME held
             PROVE  /\ Route(c2h', rx.delivered, cursor)
                    /\ type = "Fin" => rx.delivered = Len(Source)
  OBVIOUS
<1>1. c2h # <<>> /\ Head(c2h).type = type /\ c2h' = Tail(c2h)
  BY DEF Takes
<1>2. PICK b \in 0 .. cursor :
        FrameJoins(rx.delivered, Head(c2h), b) /\ Route(Tail(c2h), b, cursor)
  BY <1>1, NextFrame DEF SocketIsLeading
<1> QED
  BY <1>1, <1>2 DEF FrameJoins

\* The main loop accepts what joins, and a Fin behind the last byte only.
LEMMA MainLeads ==
  ASSUME Inv, SocketIsLeading, Main
  PROVE  SocketIsLeading'
<1> USE Numbers
<1>1. /\ FinsFollow /\ FramesJoin
      /\ ingress_fin \in BOOLEAN /\ held \in BOOLEAN
      /\ NoItem # HalfClose /\ HalfClose \in SourceMessage
  BY MessagesMade DEF SocketIsLeading, Inv, States
<1>2. (Remove => ~held') /\ (Keep => held' = held)
  BY RemoveEnds DEF Keep
<1>3. \A t \in {"Reset", "Pong", "ResumeErr"} : Signal(t) \in SourceFrame /\ Signal(t).type = t
  BY FramesMade
<1>4. Types(h2c) \cup {"Reset"} \subseteq Types(h2c) \cup {"Reset", "Pong"}
  OBVIOUS
<1>5. CASE MainData
  <2> DEFINE f == Head(c2h)
  <2>1. /\ f \in SourceFrame /\ f.type = "Data" /\ c2h # <<>> /\ c2h' = Tail(c2h)
        /\ Types(c2h)' \subseteq Types(c2h) /\ ingress_fin' = ingress_fin /\ offer = NoItem
    BY <1>5, FrameTaken, TakenTypes DEF MainData
  <2> DEFINE msg == IF IsDuplicate(rx, f.offset, f.data) THEN Duplicate(rx.delivered)
                    ELSE Bytes(FreshBytes(rx, f.offset, f.data), rx'.delivered)
  <2>2. CASE held /\ ~IsGap(rx, f.offset, f.data)
    <3>1. rx' = Accept(rx, f.offset, f.data) /\ Offer(msg)
      BY <1>5, <2>2 DEF MainData
    <3>2. /\ msg \in SourceMessage /\ msg # HalfClose /\ rx'.delivered \in Nat
          /\ rx.delivered <= rx'.delivered /\ rx'.delivered <= Len(Source)
      BY <2>1, <2>2, <3>1, DataMoves
    <3>3. PICK b \in 0 .. cursor :
            FrameJoins(rx.delivered, f, b) /\ Route(Tail(c2h), b, cursor)
      BY <1>1, <2>1, <2>2, NextFrame
    <3>4. rx'.delivered = b
      <4>1. f.data \in Seq(Byte) /\ Len(f.data) \in Nat /\ f.offset \in Nat
        BY <2>1, FrameFields
      <4>2. f.offset = rx.delivered /\ b = rx.delivered + Len(f.data)
        BY <2>1, <3>3 DEF FrameJoins
      <4>3. CASE IsDuplicate(rx, f.offset, f.data)
        BY <3>1, <4>1, <4>2, <4>3 DEF Accept, IsDuplicate
      <4>4. CASE ~IsDuplicate(rx, f.offset, f.data)
        <5>1. rx' = [rx EXCEPT !.delivered = f.offset + Len(f.data)]
          BY <2>2, <3>1, <4>4 DEF Accept
        <5> QED
          BY <4>2, <5>1 DEF RecvTracker
      <4> QED
        BY <4>3, <4>4
    <3> HIDE DEF msg, f
    <3>5. /\ {offer'} \cup Elements(downlink)' \subseteq {NoItem, msg} \cup Elements(downlink)
          /\ Types(h2c)' = Types(h2c) \/ Types(h2c)' = Types(h2c) \cup {"Reset"}
          /\ Remove \/ Keep
      BY <3>1, <3>2, OfferElements
    <3>6. Types(h2c)' \subseteq Types(h2c) \cup {"Reset", "Pong"}
      BY <1>4, <3>5
    <3>7. HalfClose \in {offer'} \cup Elements(downlink)' => HalfClose \in {offer} \cup Elements(downlink)
      BY <1>1, <3>2, <3>5
    <3>8. rx.delivered = Len(Source) => rx'.delivered = Len(Source)
      BY <3>2
    <3>9. held' => Route(c2h', rx'.delivered, cursor)
      BY <2>1, <3>3, <3>4
    <3> QED
      BY <2>1, <3>5, <3>6, <3>7, <3>8, <3>9, MainLeadsIf
  <2>3. CASE ~(held /\ ~IsGap(rx, f.offset, f.data))
    <3>1. /\ Reply(Signal("Reset")) /\ (IF held THEN Remove ELSE Keep)
          /\ UNCHANGED <<main, offer, rx, downlink>>
      BY <1>5, <2>3 DEF MainData
    <3>2. Types(h2c)' = Types(h2c) \cup {"Reset"}
      BY <1>3, <3>1, ReplyTypes
    <3>3. ~held' /\ (Remove \/ Keep)
      BY <1>1, <1>2, <3>1
    <3>4. Elements(downlink)' = Elements(downlink)
      BY <3>1 DEF Elements
    <3> HIDE DEF f, msg
    <3> QED
      BY <1>4, <2>1, <3>1, <3>2, <3>3, <3>4, MainLeadsIf
  <2> QED
    BY <2>2, <2>3
<1>6. CASE MainFin
  <2>1. /\ Takes("Fin") /\ offer = NoItem /\ "Fin" \in Types(c2h) /\ Types(c2h)' \subseteq Types(c2h)
    BY <1>6, FrameTaken, TakenTypes DEF MainFin
  <2>2. fin_out
    BY <1>1, <2>1 DEF FinsFollow
  <2>3. held => Route(c2h', rx.delivered, cursor) /\ rx.delivered = Len(Source)
    BY <2>1, OtherTaken
  <2>4. CASE held /\ ~ingress_fin
    <3>1. ingress_fin' = TRUE /\ rx' = MarkFinAt(rx) /\ Offer(HalfClose)
      BY <1>6, <2>4 DEF MainFin
    <3>2. rx'.delivered = rx.delivered
      BY <3>1 DEF MarkFinAt, RecvTracker
    <3>3. /\ Types(h2c)' = Types(h2c) \/ Types(h2c)' = Types(h2c) \cup {"Reset"}
          /\ Remove \/ Keep
      BY <1>1, <3>1, OfferElements
    <3>4. Types(h2c)' \subseteq Types(h2c) \cup {"Reset", "Pong"}
      BY <1>4, <3>3
    <3> QED
      BY <2>1, <2>2, <2>3, <2>4, <3>1, <3>2, <3>3, <3>4, MainLeadsIf
  <2>5. CASE ~(held /\ ~ingress_fin)
    <3>1. /\ UNCHANGED h2c \/ Reply(Signal("Reset"))
          /\ Remove \/ Keep
          /\ UNCHANGED <<main, offer, rx, ingress_fin, downlink>>
      BY <1>6, <2>5 DEF MainFin
    <3>2. Types(h2c)' \subseteq Types(h2c) \cup {"Reset", "Pong"}
      <4>1. Types(h2c)' = Types(h2c) \/ Types(h2c)' = Types(h2c) \cup {"Reset"}
        BY <1>3, <3>1, ReplyTypes DEF Types
      <4> QED
        BY <4>1
    <3>3. Elements(downlink)' = Elements(downlink)
      BY <3>1 DEF Elements
    <3>4. held' => held
      BY <1>1, <1>2, <3>1
    <3> QED
      BY <2>1, <2>3, <3>1, <3>2, <3>3, <3>4, MainLeadsIf
  <2> QED
    BY <2>4, <2>5
<1>7. CASE MainSends
  <2>1. UNCHANGED <<c2h, rx, ingress_fin>>
    BY <1>7 DEF MainSends
  <2>2. /\ {offer'} \cup Elements(downlink)' \subseteq {NoItem, offer} \cup Elements(downlink)
        /\ Types(h2c)' = Types(h2c) \/ Types(h2c)' = Types(h2c) \cup {"Reset"}
        /\ Remove \/ Keep
    <3>1. Offer(offer)
      BY <1>7 DEF MainSends, Offer
    <3> QED
      BY <3>1, OfferElements
  <2>3. Types(h2c)' \subseteq Types(h2c) \cup {"Reset", "Pong"} /\ Types(c2h)' = Types(c2h)
    BY <1>4, <2>1, <2>2 DEF Types
  <2>4. HalfClose \in {offer'} \cup Elements(downlink)' => HalfClose \in {offer} \cup Elements(downlink)
    BY <1>1, <2>2
  <2>5. held' => Route(c2h', rx'.delivered, cursor)
    <3>1. held' => held
      BY <1>1, <1>2, <2>2
    <3> QED
      BY <1>1, <2>1, <3>1, FramesAreRoute
  <2> QED
    BY <2>1, <2>2, <2>3, <2>4, <2>5, MainLeadsIf
<1>8. CASE MainReset \/ MainPing
  <2>1. PICK t \in {"Reset", "Ping"} : Takes(t)
    BY <1>8 DEF MainReset, MainPing
  <2>2. /\ UNCHANGED <<offer, rx, ingress_fin, downlink>> /\ (Remove \/ Keep)
        /\ UNCHANGED h2c \/ Reply(Signal("Pong"))
    BY <1>8 DEF MainReset, MainPing, mainVars, Keep
  <2>3. held => Route(c2h', rx.delivered, cursor)
    BY <2>1, OtherTaken
  <2>4. Types(c2h)' \subseteq Types(c2h)
    BY <2>1, TakenTypes
  <2>5. Types(h2c)' \subseteq Types(h2c) \cup {"Reset", "Pong"}
    <3>1. Types(h2c)' = Types(h2c) \/ Types(h2c)' = Types(h2c) \cup {"Pong"}
      BY <1>3, <2>2, ReplyTypes DEF Types
    <3> QED
      BY <3>1
  <2>6. Elements(downlink)' = Elements(downlink)
    BY <2>2 DEF Elements
  <2>7. held' => held
    BY <1>1, <1>2, <2>2
  <2> QED
    BY <2>2, <2>3, <2>4, <2>5, <2>6, <2>7, MainLeadsIf
<1>9. CASE MainResume
  BY <1>1, <1>9, TakenTypes DEF MainResume, FinsFollow
<1>10. CASE MainEvent
  <2>1. /\ UNCHANGED <<c2h, offer, rx, ingress_fin, downlink>> /\ (Remove \/ Keep)
        /\ UNCHANGED h2c \/ Reply(Signal("Reset"))
    BY <1>10 DEF MainEvent
  <2>2. Types(h2c)' \subseteq Types(h2c) \cup {"Reset", "Pong"}
    <3>1. Types(h2c)' = Types(h2c) \/ Types(h2c)' = Types(h2c) \cup {"Reset"}
      BY <1>3, <2>1, ReplyTypes DEF Types
    <3> QED
      BY <3>1
  <2>3. Elements(downlink)' = Elements(downlink) /\ Types(c2h)' = Types(c2h)
    BY <2>1 DEF Elements, Types
  <2>4. held' => Route(c2h', rx'.delivered, cursor)
    <3>1. held' => held
      BY <1>1, <1>2, <2>1
    <3> QED
      BY <1>1, <2>1, <3>1, FramesAreRoute
  <2> QED
    BY <2>1, <2>2, <2>3, <2>4, MainLeadsIf
<1> QED
  BY <1>5, <1>6, <1>7, <1>8, <1>9, <1>10 DEF Main

\* What a step of the task has to show.
LEMMA TaskLeadsIf ==
  ASSUME Inv, SocketIsLeading, Task, Inv', UNCHANGED <<clientVars, c2h, mainVars>>,
         Len(written) <= Len(written'), shut' => written' = Source,
         Types(h2c)' \subseteq Types(h2c) \cup {"OpenOk", "OpenErr", "Ack"},
         Elements(downlink)' \subseteq Elements(downlink),
         item' = HalfClose => /\ Len(written') = Len(Source)
                              /\ HalfClose \in {item} \cup Elements(downlink)
  PROVE  SocketIsLeading'
<1> USE Numbers
<1>1. UNCHANGED <<cursor, fin_out, released, main, offer, held, rx, ingress_fin>>
  BY DEF clientVars, mainVars
<1>2. FinsFollow /\ FramesJoin /\ ReleasedIsWritten /\ QueueJoins(Len(Source))
  BY DEF SocketIsLeading
<1>3. HalfCloseIsLast'
  BY DEF HalfCloseIsLast
<1>4. ReleasedIsWritten'
  <2>1. released \in Nat /\ Len(written') \in Nat
    BY LenProperties, SourceLen DEF Inv, Positions
  <2> QED
    BY <1>1, <1>2, <2>1 DEF ReleasedIsWritten
<1>5. FramesJoin'
  BY <1>1, <1>2 DEF FramesJoin
<1>6. QueueJoins(Len(Source))'
  BY <1>2, TaskKeepsPath
<1>7. FinsFollow'
  <2>1. Types(c2h)' = Types(c2h)
    BY DEF Types
  <2>2. fin_out' => cursor' = Len(Source)'
    BY <1>1, <1>2 DEF FinsFollow
  <2>3. "Fin" \in Types(c2h)' => fin_out'
    BY <1>1, <1>2, <2>1 DEF FinsFollow
  <2>4. ingress_fin' => fin_out' /\ (held' => rx'.delivered = Len(Source)')
    BY <1>1, <1>2 DEF FinsFollow
  <2>5. HalfClose \in {item', offer'} \cup Elements(downlink)' => ingress_fin'
    BY <1>1, <1>2, FinFacts
  <2>6. item' = HalfClose => Len(written)' = Len(Source)'
    OBVIOUS
  <2>7. "Resume" \notin Types(c2h)' /\ "ResumeOk" \notin Types(h2c)'
    BY <1>2, <2>1 DEF FinsFollow
  <2> QED
    BY <2>2, <2>3, <2>4, <2>5, <2>6, <2>7 DEF FinsFollow, Elements, HalfClose
<1> QED
  BY <1>3, <1>4, <1>5, <1>6, <1>7 DEF SocketIsLeading

\* The task shuts the write half behind the last byte.
LEMMA TaskLeads ==
  ASSUME Inv, SocketIsLeading, Task, Inv'
  PROVE  SocketIsLeading'
<1> USE Numbers
<1>1. /\ FinsFollow /\ QueueJoins(Len(Source)) /\ (shut => written = Source)
      /\ NoItem # HalfClose /\ downlink \in Seq(SourceMessage)
      /\ Len(written) \in Nat
  BY MessagesMade DEF SocketIsLeading, HalfCloseIsLast, Inv, Queues
<1>2. \A t \in {"OpenOk", "OpenErr"} : Signal(t) \in SourceFrame /\ Signal(t).type = t
  BY FramesMade
<1>3. \A o : AckFrame(o).type = "Ack" /\ (o \in Nat => AckFrame(o) \in SourceFrame)
  BY DEF AckFrame, SourceFrame, Frame
<1>4. ASSUME NEW o \in Nat, UNCHANGED h2c \/ Reply(AckFrame(o))
      PROVE  Types(h2c)' \subseteq Types(h2c) \cup {"OpenOk", "OpenErr", "Ack"}
  <2>1. Types(h2c)' = Types(h2c) \/ Types(h2c)' = Types(h2c) \cup {"Ack"}
    BY <1>3, <1>4, ReplyTypes DEF Types
  <2> QED
    BY <2>1
<1>5. CASE DialOk \/ DialFails
  <2>1. /\ UNCHANGED <<clientVars, c2h, mainVars>> /\ UNCHANGED <<downlink, item, written, shut>>
        /\ Reply(Signal("OpenOk")) \/ Reply(Signal("OpenErr"))
    BY <1>5 DEF DialOk, DialFails, egressVars
  <2>2. Types(h2c)' = Types(h2c) \cup {"OpenOk"} \/ Types(h2c)' = Types(h2c) \cup {"OpenErr"}
    BY <1>2, <2>1, ReplyTypes
  <2>3. Types(h2c)' \subseteq Types(h2c) \cup {"OpenOk", "OpenErr", "Ack"}
    BY <2>2
  <2>4. Elements(downlink)' = Elements(downlink)
    BY <2>1 DEF Elements
  <2>5. item' = HalfClose => Len(written') = Len(Source)
    BY <1>1, <2>1 DEF FinsFollow
  <2> QED
    BY <1>1, <2>1, <2>3, <2>4, <2>5, TaskLeadsIf
<1>6. CASE DownlinkTakes
  <2> DEFINE msg == Head(downlink)
  <2>1. /\ UNCHANGED <<clientVars, c2h, mainVars>> /\ UNCHANGED <<written, shut>>
        /\ downlink # <<>> /\ downlink' = Tail(downlink)
        /\ item' \in {NoItem, msg} /\ (UNCHANGED h2c \/ Reply(AckFrame(delivered')))
    BY <1>6 DEF DownlinkTakes, egressVars
  <2>2. /\ msg \in Elements(downlink) /\ Elements(Tail(downlink)) \subseteq Elements(downlink)
    BY <1>1, <2>1, ElementsTake
  <2>3. Elements(downlink)' \subseteq Elements(downlink)
    BY <2>1, <2>2 DEF Elements
  <2>4. PICK b \in 0 .. rx.delivered :
          Moves(Len(written), msg, b) /\ (msg = HalfClose => b >= Len(Source))
    BY <1>1, <1>6, TakeMoves
  <2>5. item' = HalfClose => Len(written') = Len(Source) /\ HalfClose \in {item} \cup Elements(downlink)
    <3>1. ASSUME msg = HalfClose PROVE Len(written) = Len(Source)
      <4>1. b = Len(written) /\ b >= Len(Source)
        BY <2>4, <3>1, MessagesMade DEF Moves
      <4> QED
        BY <4>1
    <3> HIDE DEF msg
    <3> QED
      BY <1>1, <2>1, <2>2, <3>1
  <2>6. delivered' \in Nat
    BY DEF Inv, Positions
  <2>7. Types(h2c)' \subseteq Types(h2c) \cup {"OpenOk", "OpenErr", "Ack"}
    BY <1>4, <2>1, <2>6
  <2> QED
    BY <1>1, <2>1, <2>3, <2>5, <2>7, TaskLeadsIf
<1>7. CASE DownlinkWrites
  <2>1. /\ UNCHANGED <<clientVars, c2h, mainVars>> /\ UNCHANGED <<downlink, shut>> /\ ~shut
        /\ UNCHANGED h2c \/ Reply(AckFrame(item.delivered))
        /\ item.kind = "Data" /\ written' = Append(written, Head(item.data))
    BY <1>7 DEF DownlinkWrites
  <2>2. /\ item.delivered \in Nat /\ item.data \in Seq(Byte) /\ item.data # <<>>
    BY <2>1, MessageFields
  <2>3. Len(written') = Len(written) + 1
    <3>1. written \in Seq(Byte) /\ Head(item.data) \in Byte
      BY <2>2, HeadTailProperties DEF Inv, Positions
    <3> QED
      BY <2>1, <3>1, AppendProperties
  <2>4. Types(h2c)' \subseteq Types(h2c) \cup {"OpenOk", "OpenErr", "Ack"}
    BY <1>4, <2>1, <2>2
  <2>5. item' # HalfClose
    <3>1. CASE Len(item.data) > 1
      BY <1>1, <1>7, <3>1, WriteMoves, MessagesMade DEF DownlinkWrites
    <3>2. CASE ~(Len(item.data) > 1)
      BY <1>1, <1>7, <3>2 DEF DownlinkWrites
    <3> QED
      BY <3>1, <3>2
  <2>6. Elements(downlink)' = Elements(downlink)
    BY <2>1 DEF Elements
  <2>7. Len(written) <= Len(written')
    BY <1>1, <2>3
  <2> QED
    BY <2>1, <2>4, <2>5, <2>6, <2>7, TaskLeadsIf
<1>8. CASE DownlinkShuts
  <2>1. /\ UNCHANGED <<clientVars, c2h, mainVars>> /\ UNCHANGED <<downlink, written, h2c>>
        /\ item = HalfClose /\ item' = NoItem
    BY <1>8 DEF DownlinkShuts
  <2>2. Len(written) = Len(Source)
    BY <1>1, <2>1 DEF FinsFollow
  <2>3. written = Source
    BY <2>2, SourceLen, SubSeqFull DEF Inv, Positions
  <2>4. Elements(downlink)' = Elements(downlink) /\ Types(h2c)' = Types(h2c)
    BY <2>1 DEF Elements, Types
  <2> QED
    BY <1>1, <2>1, <2>3, <2>4, TaskLeadsIf
<1>9. CASE AckDelayOver
  <2>1. /\ UNCHANGED <<clientVars, c2h, mainVars>> /\ UNCHANGED <<downlink, item, written, shut>>
        /\ Reply(AckFrame(delivered))
    BY <1>9 DEF AckDelayOver, egressVars
  <2>2. Types(h2c)' \subseteq Types(h2c) \cup {"OpenOk", "OpenErr", "Ack"}
    BY <1>4, <2>1
  <2>3. Elements(downlink)' = Elements(downlink)
    BY <2>1 DEF Elements
  <2>4. item' = HalfClose => Len(written') = Len(Source)
    BY <1>1, <2>1 DEF FinsFollow
  <2> QED
    BY <1>1, <2>1, <2>2, <2>3, <2>4, TaskLeadsIf
<1>10. CASE TaskFails \/ UplinkDone
  <2>1. /\ UNCHANGED <<clientVars, c2h, mainVars>> /\ UNCHANGED <<h2c, downlink, written, shut>>
        /\ item' \in {item, NoItem}
    BY <1>10 DEF TaskFails, UplinkDone, egressVars
  <2>2. Elements(downlink)' = Elements(downlink) /\ Types(h2c)' = Types(h2c)
    BY <2>1 DEF Elements, Types
  <2>3. item' = HalfClose => item = HalfClose
    BY <1>1, <2>1
  <2>4. item' = HalfClose => Len(written') = Len(Source)
    BY <1>1, <2>1, <2>3 DEF FinsFollow
  <2> QED
    BY <1>1, <2>1, <2>2, <2>3, <2>4, TaskLeadsIf
<1> QED
  BY <1>5, <1>6, <1>7, <1>8, <1>9, <1>10 DEF Task, Working

\* On one channel both hold from the start and are kept.
LEMMA ChannelInductive ==
  ASSUME OneChannel
  PROVE  /\ Init => Inv /\ QueueJoins(0) /\ SocketIsLeading
         /\ Inv /\ QueueJoins(0) /\ SocketIsLeading /\ [Next]_vars =>
              (Inv /\ QueueJoins(0) /\ SocketIsLeading)'
<1>1. ASSUME Init PROVE Inv /\ QueueJoins(0) /\ SocketIsLeading
  <2>1. Inv /\ QueueJoins(0) /\ QueueJoins(Len(Source))
    BY <1>1, Initially, SourceLen
  <2>2. c2h = <<>> /\ h2c = <<>> /\ Len(c2h) = 0 /\ Len(h2c) = 0 /\ downlink = <<>> /\ Len(downlink) = 0
    BY <1>1, EmptySeq DEF Init
  <2>3. FramesJoin
    <3> DEFINE at == [i \in 0 .. 0 |-> 0]
    <3>1. /\ at \in [0 .. Len(c2h) -> 0 .. cursor] /\ at[0] = rx.delivered /\ at[Len(c2h)] = cursor
          /\ \A i \in 1 .. Len(c2h) : FrameJoins(at[i - 1], c2h[i], at[i])
      BY <1>1, <2>2 DEF Init, NewRecvTracker
    <3> HIDE DEF at
    <3> QED
      BY <3>1 DEF FramesJoin
  <2>4. FinsFollow
    <3>1. Types(c2h) = {} /\ Types(h2c) = {} /\ Elements(downlink) = {}
      BY <2>2 DEF Types, Elements
    <3>2. NoItem # HalfClose
      BY MessagesMade
    <3> QED
      BY <1>1, <3>1, <3>2, FinFacts DEF Init
  <2>5. HalfCloseIsLast
    BY <1>1 DEF Init, HalfCloseIsLast
  <2>6. ReleasedIsWritten
    BY <1>1, EmptySeq DEF Init, ReleasedIsWritten
  <2> QED
    BY <2>1, <2>3, <2>4, <2>5, <2>6 DEF SocketIsLeading
<1>2. ASSUME Inv, QueueJoins(0), SocketIsLeading, [Next]_vars
      PROVE  (Inv /\ QueueJoins(0) /\ SocketIsLeading)'
  <2>1. CASE Client
    BY <1>2, <2>1, ClientSteps, ClientKeepsPath, ClientLeads
  <2>2. CASE Main
    <3>1. QueueJoins(0)'
      BY <1>2, <2>2, Numbers, MainKeepsPath
    <3> QED
      BY <1>2, <2>2, <3>1, MainSteps, MainLeads
  <2>3. CASE Task
    <3>1. Inv'
      BY <1>2, <2>3, TaskSteps
    <3> QED
      BY <1>2, <2>3, <3>1, TaskKeepsPath, TaskLeads
  <2>4. CASE UNCHANGED vars
    <3>1. Inv' /\ QueueJoins(0)' /\ QueueJoins(Len(Source))'
      BY <1>2, <2>4, Stuttering, SourceLen DEF SocketIsLeading
    <3>2. UNCHANGED <<cursor, fin_out, released, c2h, h2c, offer, held, rx, ingress_fin, downlink,
                      item, written, shut>>
      BY <2>4 DEF vars, clientVars, mainVars, taskVars, egressVars
    <3>3. HalfCloseIsLast' /\ ReleasedIsWritten' /\ FramesJoin'
      BY <1>2, <3>2 DEF SocketIsLeading, HalfCloseIsLast, ReleasedIsWritten, FramesJoin
    <3>4. FinsFollow'
      BY <1>2, <3>2 DEF SocketIsLeading, FinsFollow, Types
    <3> QED
      BY <3>1, <3>3, <3>4 DEF SocketIsLeading
  <2> QED
    BY <1>2, <2>1, <2>2, <2>3, <2>4 DEF Next
<1> QED
  BY <1>1, <1>2

\* While no channel breaks: the write half is shut after the last byte of Source,
\* and what the client dropped is in the socket (stream.rs downlink_loop).
THEOREM SocketLeads ==
  ASSUME OneChannel
  PROVE  Spec => []SocketIsLeading
<1>1. Init => Inv /\ QueueJoins(0) /\ SocketIsLeading
  BY ChannelInductive
<1>2. Inv /\ QueueJoins(0) /\ SocketIsLeading /\ [Next]_vars =>
        (Inv /\ QueueJoins(0) /\ SocketIsLeading)'
  BY ChannelInductive
<1> QED
  BY <1>1, <1>2, PTL DEF Spec

-----------------------------------------------------------------------------
(* On one channel the direction implements ByteStream.                     *)

\* A live task writes what the client has sent.
LEMMA AliveWasSent ==
  ASSUME Inv, SocketIsLeading, Alive
  PROVE  rx.delivered <= cursor
BY TakenWasSent DEF Inv, States, SocketIsLeading

\* What a main-loop step shows of the stream outside: nothing, or that it aborts.
LEMMA MainIsAbort ==
  ASSUME Inv, Main
  PROVE  Promise!Next \/ UNCHANGED Promise!vars
<1>1. UNCHANGED <<cursor, fin_out, written, shut>> /\ task' \in {task, "aborted"}
      /\ (task = "ended" => task' = task)
  <2>1. UNCHANGED <<clientVars, egressVars>> /\ (Remove \/ Keep)
    BY DEF Main, MainData, MainFin, MainSends, MainReset, MainResume, MainPing, MainEvent, Offer,
           Enqueue, Keep, mainVars
  <2>2. task' \in {task, "aborted"} /\ (task = "ended" => task' = task)
    BY <2>1 DEF Remove, Keep, taskVars
  <2> QED
    BY <2>1, <2>2 DEF clientVars, egressVars
<1>2. shut \in BOOLEAN /\ task \in {"dialing", "running", "ended", "aborted"}
  BY DEF Inv, States
<1> QED
  BY <1>1, <1>2 DEF Promise!Next, Promise!Abort, Promise!vars

\* Every step is a step of the promise or shows nothing.
LEMMA EgressSteps ==
  ASSUME OneChannel, Inv, QueueJoins(0), SocketIsLeading, Next
  PROVE  Promise!Next \/ UNCHANGED Promise!vars
<1> USE Numbers
<1>1. /\ FinsFollow /\ (shut => written = Source)
      /\ task \in {"dialing", "running", "ended", "aborted"} /\ shut \in BOOLEAN
  BY DEF SocketIsLeading, HalfCloseIsLast, Inv, States
<1>2. CASE ClientData
  <2>1. PICK n \in 1 .. Chunk : cursor + n <= Len(Source) /\ cursor' = cursor + n
    BY <1>2 DEF ClientData
  <2>2. n \in Nat \ {0}
    BY HelperAssumption
  <2>3. ~fin_out
    BY <1>1, <2>1, <2>2 DEF FinsFollow
  <2>4. cursor' \in cursor + 1 .. Len(Source) /\ cursor' <= Len(written) + Len(Source)
    BY <2>1, <2>2
  <2>5. UNCHANGED <<fin_out, written, shut, task>>
    BY <1>2 DEF ClientData, egressVars, taskVars
  <2> QED
    BY <2>3, <2>4, <2>5 DEF Promise!Next, Promise!Write
<1>3. CASE ClientFin
  BY <1>3 DEF ClientFin, egressVars, taskVars, Promise!Next, Promise!Close
<1>4. CASE ClientReset \/ ClientPing \/ ClientReceives
  <2>1. UNCHANGED <<fin_out, written, shut, task>>
    BY <1>4 DEF ClientReset, ClientPing, ClientReceives, egressVars, taskVars
  <2>2. cursor' = cursor
    <3>1. CASE ClientReset \/ ClientPing
      BY <3>1 DEF ClientReset, ClientPing
    <3>2. CASE ClientReceives
      <4>1. Head(h2c).type \in Types(h2c)
        BY <3>2, TypesChange DEF ClientReceives, Inv, Queues
      <4>2. Head(h2c).type # "ResumeOk"
        BY <1>1, <4>1 DEF FinsFollow
      <4> QED
        BY <3>2, <4>2 DEF ClientReceives
    <3> QED
      BY <1>4, <3>1, <3>2
  <2> QED
    BY <2>1, <2>2 DEF Promise!vars
<1>5. CASE ClientResumes
  BY <1>5 DEF ClientResumes, OneChannel, Inv, States
<1>6. CASE Main
  BY <1>6, MainIsAbort
<1>7. CASE DownlinkWrites
  <2>1. /\ task = "running" /\ ~shut /\ written' = Append(written, Head(item.data))
        /\ UNCHANGED <<cursor, fin_out, task, shut>>
    BY <1>7 DEF DownlinkWrites, clientVars
  <2>2. Head(item.data) = Source[Len(written) + 1] /\ Len(written) < rx.delivered
    BY <1>7, WriteMoves
  <2>3. /\ Len(written') = Len(written) + 1 /\ written' = SubSeq(Source, 1, Len(written) + 1)
    <3>1. written \in Seq(Byte) /\ written = SubSeq(Source, 1, Len(written))
      BY DEF Inv, Positions
    <3>2. Len(written) < Len(Source)
      BY <2>2
    <3>3. written' = Append(written, Source[Len(written) + 1])
      BY <2>1, <2>2
    <3> QED
      BY <3>1, <3>2, <3>3, PrefixGrows
  <2>4. rx.delivered <= cursor
    BY <2>1, AliveWasSent DEF Alive
  <2>5. Len(written) + 1 \in Len(written) + 1 .. cursor
    BY <2>2, <2>4
  <2> QED
    BY <2>1, <2>3, <2>5 DEF Promise!Next, Promise!Deliver
<1>8. CASE DownlinkShuts
  <2>1. /\ task = "running" /\ item = HalfClose /\ shut' = TRUE
        /\ UNCHANGED <<cursor, fin_out, task, written>>
    BY <1>8 DEF DownlinkShuts, clientVars
  <2>2. fin_out /\ cursor = Len(Source) /\ Len(written) = Len(Source)
    BY <1>1, <2>1 DEF FinsFollow
  <2> QED
    BY <1>1, <2>1, <2>2 DEF Promise!Next, Promise!EndOfStream, Promise!vars
<1>9. CASE DialOk \/ DialFails \/ TaskFails
  <2>1. UNCHANGED <<cursor, fin_out, written, shut>> /\ task' \in {"running", "ended"}
        /\ task \in {"dialing", "running"}
    BY <1>9 DEF DialOk, DialFails, TaskFails, clientVars, egressVars
  <2> QED
    BY <1>1, <2>1 DEF Promise!Next, Promise!Abort, Promise!vars
<1>10. CASE DownlinkTakes \/ AckDelayOver \/ UplinkDone
  BY <1>10 DEF DownlinkTakes, AckDelayOver, UplinkDone, clientVars, egressVars, Promise!vars
<1> QED
  BY <1>2, <1>3, <1>4, <1>5, <1>6, <1>7, <1>8, <1>9, <1>10 DEF Next, Client, Task, Working

\* While no channel breaks, this direction keeps ByteStream's promise: bytes in
\* order, the end behind the last of them, or an abort.
THEOREM EgressIsByteStream ==
  ASSUME OneChannel
  PROVE  Spec => EgressPromise
<1>1. Init => Promise!Init
  <2> SUFFICES ASSUME Init PROVE Promise!Init
    OBVIOUS
  <2> QED
    BY DEF Init, Promise!Init
<1>2. ASSUME Inv, QueueJoins(0), SocketIsLeading, [Next]_vars
      PROVE  [Promise!Next]_(Promise!vars)
  <2>1. CASE Next
    BY <1>2, <2>1, EgressSteps
  <2>2. CASE UNCHANGED vars
    BY <2>2 DEF vars, clientVars, taskVars, egressVars, Promise!vars
  <2> QED
    BY <1>2, <2>1, <2>2
<1>3. Init => Inv /\ QueueJoins(0) /\ SocketIsLeading
  BY ChannelInductive
<1>4. Inv /\ QueueJoins(0) /\ SocketIsLeading /\ [Next]_vars =>
        (Inv /\ QueueJoins(0) /\ SocketIsLeading)'
  BY ChannelInductive
<1> QED
  BY <1>1, <1>2, <1>3, <1>4, PTL DEF Spec, EgressPromise, Promise!Spec

-----------------------------------------------------------------------------
(* Whoever loses a stream hears of it.                                     *)

\* NoSilentCut in terms of elements.
LEMMA CutFacts ==
  NoSilentCut <=>
    /\ ~held => \/ shut \/ client \in {"closed", "told"}
                \/ Types(h2c) \cap {"Reset", "OpenErr", "ResumeErr"} # {}
                \/ "Resume" \in Types(c2h) \/ "Failed" \in Elements(events)
    /\ ~egress_done
    /\ \A f \in Elements(c2h) : f.type # "Resume" /\ (f.type = "Reset" => client = "closed")
    /\ "EgressDone" \notin Elements(events)
    /\ "FailedSilently" \in Elements(events) => client # "open" \/ "OpenErr" \in Types(h2c)
<1>1. EndsAreKnown <=>
        /\ ~egress_done
        /\ \A f \in Elements(c2h) : f.type # "Resume" /\ (f.type = "Reset" => client = "closed")
        /\ "EgressDone" \notin Elements(events)
        /\ "FailedSilently" \in Elements(events) => client # "open" \/ "OpenErr" \in Types(h2c)
  BY DEF EndsAreKnown, Elements
<1>2. CutIsTold <=>
        (~held => \/ shut \/ client \in {"closed", "told"}
                  \/ Types(h2c) \cap {"Reset", "OpenErr", "ResumeErr"} # {}
                  \/ "Resume" \in Types(c2h) \/ "Failed" \in Elements(events))
  BY DEF CutIsTold, IsTold, Elements
<1> QED
  BY <1>1, <1>2 DEF NoSilentCut

\* Whatever frame is sent, those before it are still there.
LEMMA ReplyAdds ==
  ASSUME Inv, NEW f, Reply(f)
  PROVE  Types(h2c)' = Types(h2c) \cup {f.type}
<1> DEFINE S == SourceFrame \cup {f}
<1>1. h2c \in Seq(S)
  BY SeqMonotonic DEF Inv, Queues, ReplyFrame
<1>2. h2c' = Append(h2c, f) /\ f \in S
  BY DEF Reply
<1> HIDE DEF S
<1>3. Types(Append(h2c, f)) = Types(h2c) \cup {f.type}
  BY <1>1, <1>2, TypesChange
<1> QED
  BY <1>2, <1>3 DEF Types

\* The helper adds frames to the channel and leaves the client's state alone.
LEMMA HelperAdds ==
  ASSUME Inv, Main \/ Task
  PROVE  client' = client /\ Types(h2c) \subseteq Types(h2c)'
<1>1. client' = client
  BY DEF Main, MainData, MainFin, MainSends, MainReset, MainResume, MainPing, MainEvent, Task,
         Working, DialOk, DialFails, DownlinkTakes, DownlinkWrites, DownlinkShuts, AckDelayOver,
         TaskFails, UplinkDone, clientVars
<1>2. h2c' = h2c \/ \E f : Reply(f)
  <2>1. CASE Main
    BY <2>1 DEF Main, MainData, MainFin, MainSends, MainReset, MainResume, MainPing, MainEvent,
                Offer, Enqueue
  <2>2. CASE Task
    BY <2>2 DEF Task, Working, DialOk, DialFails, DownlinkTakes, DownlinkWrites, DownlinkShuts,
                AckDelayOver, TaskFails, UplinkDone
  <2> QED
    BY <2>1, <2>2
<1>3. CASE h2c' = h2c
  BY <1>1, <1>3 DEF Types
<1>4. ASSUME NEW f, Reply(f) PROVE Types(h2c) \subseteq Types(h2c)'
  BY <1>4, ReplyAdds
<1> QED
  BY <1>1, <1>2, <1>3, <1>4

\* On one channel the client hears what was said to it.
LEMMA HeardStays ==
  ASSUME OneChannel, Inv, Next,
         NEW K, K \subseteq {"Reset", "OpenErr", "ResumeErr"},
         client # "open" \/ Types(h2c) \cap K # {}
  PROVE  client' # "open" \/ Types(h2c)' \cap K # {}
<1>1. CASE Main \/ Task
  BY <1>1, HelperAdds
<1>2. CASE ClientResumes
  BY <1>2 DEF ClientResumes, OneChannel, Inv, States
<1>3. CASE ClientData \/ ClientFin \/ ClientReset \/ ClientPing
  <2>1. h2c' = h2c /\ client' \in {client, "closed"}
    BY <1>3 DEF ClientData, ClientFin, ClientReset, ClientPing
  <2> QED
    BY <2>1 DEF Types
<1>4. CASE ClientReceives
  <2> DEFINE t == Head(h2c).type
  <2>1. /\ h2c # <<>> /\ h2c' = Tail(h2c)
        /\ client' = IF t \in {"Reset", "OpenErr", "ResumeErr"} /\ client = "open"
                     THEN "told" ELSE client
    BY <1>4 DEF ClientReceives
  <2>2. Types(h2c) = {t} \cup Types(Tail(h2c))
    BY <2>1, TypesChange DEF Inv, Queues
  <2>3. Types(h2c)' = Types(Tail(h2c))
    BY <2>1 DEF Types
  <2> HIDE DEF t
  <2> QED
    BY <2>1, <2>2, <2>3
<1> QED
  BY <1>1, <1>2, <1>3, <1>4 DEF Next, Client

\* A hand-over that ends the stream says so.
LEMMA OfferEnds ==
  ASSUME ~egress_done, held, NEW msg, Offer(msg), ~held'
  PROVE  Reply(Signal("Reset"))
<1>1. CASE Enqueue(msg)
  BY <1>1 DEF Enqueue, Finished, Keep
<1>2. CASE Keep
  BY <1>2 DEF Keep
<1> QED
  BY <1>1, <1>2 DEF Offer

\* The main loop gives a stream up with a word, or because it was asked to.
LEMMA EndsWithAWord ==
  ASSUME Inv, NoSilentCut, Main, held, ~held'
  PROVE  client # "open" \/ Types(h2c)' \cap {"Reset", "OpenErr", "ResumeErr"} # {}
<1>1. /\ ~egress_done
      /\ \A f \in Elements(c2h) : f.type # "Resume" /\ (f.type = "Reset" => client = "closed")
      /\ "EgressDone" \notin Elements(events)
      /\ "FailedSilently" \in Elements(events) => client # "open" \/ "OpenErr" \in Types(h2c)
  BY CutFacts
<1>2. ASSUME Reply(Signal("Reset"))
      PROVE  Types(h2c)' \cap {"Reset", "OpenErr", "ResumeErr"} # {}
  <2>1. Types(h2c)' = Types(h2c) \cup {Signal("Reset").type} /\ Signal("Reset").type = "Reset"
    BY <1>2, ReplyAdds, FramesMade
  <2> QED
    BY <2>1
<1>3. Keep => held' = held
  BY DEF Keep
<1>4. CASE MainData
  <2>1. Reply(Signal("Reset"))
    BY <1>1, <1>4, OfferEnds DEF MainData
  <2> QED
    BY <1>2, <2>1
<1>5. CASE MainFin
  <2>1. Reply(Signal("Reset"))
    BY <1>1, <1>3, <1>5, OfferEnds DEF MainFin, Finished
  <2> QED
    BY <1>2, <2>1
<1>6. CASE MainSends
  <2>1. Offer(offer)
    BY <1>6 DEF MainSends, Offer
  <2> QED
    BY <1>1, <1>2, <2>1, OfferEnds
<1>7. CASE MainReset
  <2>1. Head(c2h) \in Elements(c2h) /\ Head(c2h).type = "Reset"
    BY <1>7, ElementsTake DEF MainReset, Takes, Inv, Queues
  <2> QED
    BY <1>1, <2>1
<1>8. CASE MainResume \/ MainPing
  BY <1>8 DEF MainResume, MainPing, taskVars, mainVars
<1>9. CASE MainEvent
  <2>1. events # <<>> /\ Head(events) \in Elements(events) /\ Head(events) \in Event
    BY <1>9, ElementsTake, HeadTailProperties DEF MainEvent, Inv, Queues
  <2>2. CASE Head(events) = "Failed"
    BY <1>2, <1>9, <2>2 DEF MainEvent
  <2>3. CASE Head(events) = "FailedSilently"
    <3>1. client # "open" \/ "OpenErr" \in Types(h2c)
      BY <1>1, <2>1, <2>3
    <3>2. Types(h2c) \subseteq Types(h2c)'
      BY HelperAdds
    <3> QED
      BY <3>1, <3>2
  <2> QED
    BY <1>1, <2>1, <2>2, <2>3 DEF Event
<1> QED
  BY <1>4, <1>5, <1>6, <1>7, <1>8, <1>9 DEF Main

\* What is left in the queues of frames and of events after a step.
LEMMA QueuesAfter ==
  ASSUME OneChannel, ~EgressCloses, Inv, Next
  PROVE  /\ \A f \in Elements(c2h)' :
              \/ f \in Elements(c2h)
              \/ f.type # "Resume" /\ (f.type = "Reset" => client' = "closed")
         /\ \A e \in Elements(events)' :
              \/ e \in Elements(events)
              \/ e = "Failed"
              \/ e = "FailedSilently" /\ "OpenErr" \in Types(h2c)'
         /\ "Failed" \in Elements(events) =>
              "Failed" \in Elements(events)' \/ "Reset" \in Types(h2c)'
<1> USE Numbers
<1>1. c2h \in Seq(SourceFrame) /\ events \in Seq(Event)
  BY DEF Inv, Queues
<1>2. ASSUME UNCHANGED c2h PROVE Elements(c2h)' = Elements(c2h)
  BY <1>2 DEF Elements
<1>3. ASSUME UNCHANGED events PROVE Elements(events)' = Elements(events)
  BY <1>3 DEF Elements
<1>4. ASSUME NEW f \in SourceFrame, Send(f) PROVE Elements(c2h)' = Elements(c2h) \cup {f}
  <2>1. c2h' = Append(c2h, f) /\ Elements(Append(c2h, f)) = Elements(c2h) \cup {f}
    BY <1>1, <1>4, ElementsAppend DEF Send
  <2> QED
    BY <2>1 DEF Elements
<1>5. ASSUME NEW type, Takes(type) PROVE Elements(c2h)' \subseteq Elements(c2h)
  <2>1. c2h' = Tail(c2h) /\ Elements(Tail(c2h)) \subseteq Elements(c2h)
    BY <1>1, <1>5, ElementsTake DEF Takes
  <2> QED
    BY <2>1 DEF Elements
<1>6. ASSUME NEW e \in Event, Report(e) PROVE Elements(events)' = Elements(events) \cup {e}
  <2>1. events' = Append(events, e) /\ Elements(Append(events, e)) = Elements(events) \cup {e}
    BY <1>1, <1>6, ElementsAppend DEF Report
  <2> QED
    BY <2>1 DEF Elements
<1>7. \A t \in {"Fin", "Reset", "Ping", "OpenErr"} : Signal(t) \in SourceFrame /\ Signal(t).type = t
  BY FramesMade
<1>8. CASE ClientData
  <2>1. PICK n \in 1 .. Chunk :
          /\ cursor + n <= Len(Source)
          /\ Send(Data(cursor, SubSeq(Source, cursor + 1, cursor + n)))
    BY <1>8 DEF ClientData
  <2>2. n \in Nat \ {0}
    BY HelperAssumption
  <2> DEFINE u == SubSeq(Source, cursor + 1, cursor + n)
  <2>3. u \in Seq(Byte) /\ EndsAt(u, cursor + Len(u))
    BY <2>1, <2>2, EndsAtSlice
  <2>4. Data(cursor, u) \in SourceFrame
    BY <2>3, FramesMade
  <2>5. Data(cursor, u).type = "Data"
    BY DEF Data
  <2>6. Elements(c2h)' = Elements(c2h) \cup {Data(cursor, u)}
    BY <1>4, <2>1, <2>4
  <2>7. Elements(events)' = Elements(events)
    BY <1>3, <1>8 DEF ClientData
  <2> HIDE DEF u
  <2> QED
    BY <2>5, <2>6, <2>7
<1>9. CASE ClientFin \/ ClientReset \/ ClientPing
  <2>1. PICK t \in {"Fin", "Reset", "Ping"} : Send(Signal(t)) /\ (t = "Reset" => client' = "closed")
    BY <1>9 DEF ClientFin, ClientReset, ClientPing
  <2>2. Elements(c2h)' = Elements(c2h) \cup {Signal(t)} /\ Signal(t).type = t
    BY <1>4, <1>7, <2>1
  <2>3. Elements(events)' = Elements(events)
    BY <1>3, <1>9 DEF ClientFin, ClientReset, ClientPing
  <2> QED
    BY <2>1, <2>2, <2>3
<1>10. CASE ClientResumes
  BY <1>10 DEF ClientResumes, OneChannel, Inv, States
<1>11. CASE ClientReceives
  BY <1>2, <1>3, <1>11 DEF ClientReceives
<1>12. CASE Main
  <2>1. Elements(c2h)' \subseteq Elements(c2h)
    <3>1. UNCHANGED c2h \/ \E type : Takes(type)
      BY <1>12 DEF Main, MainData, MainFin, MainSends, MainReset, MainResume, MainPing, MainEvent
    <3> QED
      BY <1>2, <1>5, <3>1
  <2>2. CASE UNCHANGED events
    BY <1>3, <2>1, <2>2
  <2>3. CASE MainEvent
    <3>1. /\ events # <<>> /\ events' = Tail(events)
          /\ Head(events) = "Failed" => Reply(Signal("Reset"))
      BY <2>3 DEF MainEvent
    <3>2. /\ Elements(events) = {Head(events)} \cup Elements(Tail(events))
          /\ Elements(events)' = Elements(Tail(events))
      BY <1>1, <3>1, ElementsTake DEF Elements
    <3>3. Head(events) = "Failed" => "Reset" \in Types(h2c)'
      BY <1>7, <3>1, ReplyAdds
    <3> QED
      BY <2>1, <3>2, <3>3
  <2> QED
    BY <1>12, <2>2, <2>3 DEF Main, MainData, MainFin, MainSends, MainReset, MainResume, MainPing
<1>13. CASE DialFails \/ TaskFails
  <2>1. UNCHANGED c2h
    BY <1>13 DEF DialFails, TaskFails
  <2>2. \/ Report("FailedSilently") /\ Reply(Signal("OpenErr"))
        \/ Report("Failed")
    BY <1>13 DEF DialFails, TaskFails
  <2>3. CASE Report("FailedSilently") /\ Reply(Signal("OpenErr"))
    <3>1. Elements(events)' = Elements(events) \cup {"FailedSilently"}
      BY <1>6, <2>3 DEF Event
    <3>2. "OpenErr" \in Types(h2c)'
      BY <1>7, <2>3, ReplyAdds
    <3> QED
      BY <1>2, <2>1, <3>1, <3>2
  <2>4. CASE Report("Failed")
    <3>1. Elements(events)' = Elements(events) \cup {"Failed"}
      BY <1>6, <2>4 DEF Event
    <3> QED
      BY <1>2, <2>1, <3>1
  <2> QED
    BY <2>2, <2>3, <2>4
<1>14. CASE DialOk \/ DownlinkTakes \/ DownlinkWrites \/ DownlinkShuts \/ AckDelayOver
  BY <1>2, <1>3, <1>14 DEF DialOk, DownlinkTakes, DownlinkWrites, DownlinkShuts, AckDelayOver
<1>15. CASE UplinkDone
  BY <1>15 DEF UplinkDone
<1> QED
  BY <1>8, <1>9, <1>10, <1>11, <1>12, <1>13, <1>14, <1>15 DEF Next, Client, Task, Working

\* No step takes a stream from the client without a word.
LEMMA CutSteps ==
  ASSUME OneChannel, ~EgressCloses, Inv, NoSilentCut, Next
  PROVE  NoSilentCut'
<1> DEFINE Words == {"Reset", "OpenErr", "ResumeErr"}
           Heard == client # "open" \/ Types(h2c) \cap Words # {}
           HeardNext == client' # "open" \/ Types(h2c)' \cap Words # {}
<1>1. /\ ~held => \/ shut \/ client \in {"closed", "told"}
                  \/ Types(h2c) \cap Words # {}
                  \/ "Resume" \in Types(c2h) \/ "Failed" \in Elements(events)
      /\ ~egress_done
      /\ \A f \in Elements(c2h) : f.type # "Resume" /\ (f.type = "Reset" => client = "closed")
      /\ "EgressDone" \notin Elements(events)
      /\ "FailedSilently" \in Elements(events) => client # "open" \/ "OpenErr" \in Types(h2c)
  BY CutFacts
<1>2. client \in {"open", "told", "closed"} /\ client' \in {"open", "told", "closed"}
  <2>1. client \in {"open", "told", "closed"}
    BY DEF Inv, States
  <2>2. CASE Client
    BY <2>1, <2>2, ClientSteps DEF Inv, States
  <2>3. CASE Main \/ Task
    BY <2>1, <2>3, HelperAdds
  <2> QED
    BY <2>1, <2>2, <2>3 DEF Next
<1>3. held \in BOOLEAN
  BY DEF Inv, States
<1>4. shut => shut'
  BY DEF Next, Client, ClientData, ClientFin, ClientReset, ClientPing, ClientResumes, ClientReceives,
         Main, MainData, MainFin, MainSends, MainReset, MainResume, MainPing, MainEvent,
         Task, Working, DialOk, DialFails, DownlinkTakes, DownlinkWrites, DownlinkShuts,
         AckDelayOver, TaskFails, UplinkDone, egressVars
<1>5. "Resume" \notin Types(c2h)
  BY <1>1 DEF Types, Elements
<1>6. ~held' => shut' \/ HeardNext \/ "Failed" \in Elements(events)'
  <2> SUFFICES ASSUME ~held' PROVE shut' \/ HeardNext \/ "Failed" \in Elements(events)'
    OBVIOUS
  <2>1. CASE held
    <3>1. Main
      BY <2>1 DEF Next, Client, ClientData, ClientFin, ClientReset, ClientPing, ClientResumes,
                  ClientReceives, Task, Working, DialOk, DialFails, DownlinkTakes, DownlinkWrites,
                  DownlinkShuts, AckDelayOver, TaskFails, UplinkDone, mainVars
    <3>2. client # "open" \/ Types(h2c)' \cap Words # {}
      BY <2>1, <3>1, EndsWithAWord
    <3>3. client' = client
      BY <3>1, HelperAdds
    <3> QED
      BY <3>2, <3>3
  <2>2. CASE ~held
    <3>1. shut \/ Heard \/ "Failed" \in Elements(events)
      BY <1>1, <1>5, <2>2
    <3>2. Heard => HeardNext
      BY HeardStays
    <3>3. "Failed" \in Elements(events) => "Failed" \in Elements(events)' \/ HeardNext
      BY QueuesAfter
    <3> QED
      BY <1>4, <3>1, <3>2, <3>3
  <2> QED
    BY <2>1, <2>2
<1>7. ~egress_done'
  <2>1. CASE MainEvent
    <3>1. Head(events) \in Elements(events)
      BY <2>1, ElementsTake DEF MainEvent, Inv, Queues
    <3> QED
      BY <1>1, <2>1, <3>1 DEF MainEvent
  <2>2. CASE UNCHANGED egress_done
    BY <1>1, <2>2
  <2> QED
    BY <2>1, <2>2
       DEF Next, Client, ClientData, ClientFin, ClientReset, ClientPing, ClientResumes,
           ClientReceives, Main, MainData, MainFin, MainSends, MainReset, MainResume, MainPing,
           Task, Working, DialOk, DialFails, DownlinkTakes, DownlinkWrites, DownlinkShuts,
           AckDelayOver, TaskFails, UplinkDone, mainVars
<1>8. client = "closed" => client' = "closed"
  <2>1. CASE Main \/ Task
    BY <2>1, HelperAdds
  <2>2. CASE Client
    BY <2>2 DEF Client, ClientData, ClientFin, ClientReset, ClientPing, ClientResumes, ClientReceives
  <2> QED
    BY <2>1, <2>2 DEF Next
<1>9. \A f \in Elements(c2h)' : f.type # "Resume" /\ (f.type = "Reset" => client' = "closed")
  BY <1>1, <1>8, QueuesAfter
<1>10. /\ "EgressDone" \notin Elements(events)'
       /\ "FailedSilently" \in Elements(events)' => client' # "open" \/ "OpenErr" \in Types(h2c)'
  <2>1. ASSUME client # "open" \/ "OpenErr" \in Types(h2c)
        PROVE  client' # "open" \/ "OpenErr" \in Types(h2c)'
    <3>1. client # "open" \/ Types(h2c) \cap {"OpenErr"} # {}
      BY <2>1
    <3>2. client' # "open" \/ Types(h2c)' \cap {"OpenErr"} # {}
      BY <3>1, HeardStays
    <3> QED
      BY <3>2
  <2> QED
    BY <1>1, <2>1, QueuesAfter
<1>11. CutIsTold'
  BY <1>2, <1>6 DEF CutIsTold, IsTold, Elements
<1>12. EndsAreKnown'
  BY <1>7, <1>9, <1>10 DEF EndsAreKnown, Elements
<1> QED
  BY <1>11, <1>12 DEF NoSilentCut

\* While no channel breaks and the egress peer does not close first: a stream that
\* leaves the helper's directory was written to its end, or ended by the client,
\* or the client is told (main.rs, every remove of the directory).
THEOREM CutsAreTold ==
  ASSUME OneChannel, ~EgressCloses
  PROVE  Spec => []NoSilentCut
<1>1. Init => Inv /\ QueueJoins(0) /\ NoSilentCut
  <2> SUFFICES ASSUME Init PROVE Inv /\ QueueJoins(0) /\ NoSilentCut
    OBVIOUS
  <2>1. Inv /\ QueueJoins(0)
    BY Initially
  <2>2. held /\ ~egress_done /\ Elements(c2h) = {} /\ Elements(events) = {}
    BY EmptySeq DEF Init, Elements
  <2> QED
    BY <2>1, <2>2, CutFacts
<1>2. Inv /\ QueueJoins(0) /\ NoSilentCut /\ [Next]_vars => (Inv /\ QueueJoins(0) /\ NoSilentCut)'
  <2> SUFFICES ASSUME Inv, QueueJoins(0), NoSilentCut, [Next]_vars
               PROVE  (Inv /\ QueueJoins(0) /\ NoSilentCut)'
    OBVIOUS
  <2>1. Inv' /\ QueueJoins(0)'
    <3>1. CASE Client
      BY <3>1, ClientSteps, ClientKeepsPath
    <3>2. CASE Main
      <4>1. QueueJoins(0)'
        BY <3>2, Numbers, MainKeepsPath
      <4> QED
        BY <3>2, <4>1, MainSteps
    <3>3. CASE Task
      BY <3>3, TaskSteps, TaskKeepsPath
    <3>4. CASE UNCHANGED vars
      BY <3>4, Stuttering
    <3> QED
      BY <3>1, <3>2, <3>3, <3>4 DEF Next
  <2>2. CASE Next
    BY <2>1, <2>2, CutSteps
  <2>3. CASE UNCHANGED vars
    <3>1. UNCHANGED <<client, c2h, h2c, held, egress_done, events, shut>>
      BY <2>3 DEF vars, clientVars, mainVars, egressVars
    <3>2. CutIsTold' /\ EndsAreKnown'
      BY <3>1 DEF NoSilentCut, CutIsTold, IsTold, EndsAreKnown, Types
    <3> QED
      BY <2>1, <3>2 DEF NoSilentCut
  <2> QED
    BY <2>2, <2>3, <2>1
<1> QED
  BY <1>1, <1>2, PTL DEF Spec

=============================================================================
