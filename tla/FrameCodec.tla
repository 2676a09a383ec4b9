----------------------------- MODULE FrameCodec -----------------------------
(***************************************************************************)
(* The frames of the multiplexing protocol and their wire format,          *)
(* srp-proto/src/frame.rs. A header is three bytes (type, stream, length;  *)
(* nine in the code); a number, a code and a session id are one byte each. *)
(***************************************************************************)
EXTENDS TargetAddr

CONSTANTS
  MAX_FRAME_PAYLOAD,
  MSG_MAX             \* u16::MAX, the longest message of an OpenErr

\* Opens and OpenErrs fit.
ASSUME FrameAssumption ==
  /\ MAX_FRAME_PAYLOAD \in Nat /\ MSG_MAX \in Nat /\ MSG_MAX + 2 <= MAX_FRAME_PAYLOAD
  /\ LenMod + 2 <= MAX_FRAME_PAYLOAD /\ V4_LEN + 2 <= MAX_FRAME_PAYLOAD /\ V6_LEN + 2 <= MAX_FRAME_PAYLOAD

HEADER_LEN == 3

HELLO == 1
HELLO_ACK == 2
OPEN == 16
OPEN_OK == 17
OPEN_ERR == 18
DATA == 32
ACK == 33
FIN == 34
RESET == 35
RESUME == 48
RESUME_OK == 49
RESUME_ERR == 50
PING == 64
PONG == 65

Normal == 0
ConnectFailed == 1
UnknownStream == 2
ResumeImpossible == 3
Internal == 4
Forbidden == 5

ResetCode == {Normal, ConnectFailed, UnknownStream, ResumeImpossible, Internal, Forbidden}
ResetCode_from_u8(v) == IF v \in ResetCode THEN v ELSE Internal

\* A frame: its type, its stream, and its fields in the order of the wire; an
\* Open has an address instead.
Frame(ty, stream, fields) ==
  [ty |-> ty, stream |-> stream, fields |-> fields, addr |-> NoTarget]
Open(stream, addr) == [ty |-> OPEN, stream |-> stream, fields |-> <<>>, addr |-> addr]

NoStream == {HELLO, HELLO_ACK, PING, PONG}

Counts == {ACK, RESUME, RESUME_OK, PING, PONG}
Codes == {RESET, RESUME_ERR}
Bare == {OPEN_OK, FIN}

Least(m, n) == IF m < n THEN m ELSE n

\* The payload of a frame. The message of an OpenErr is cut to MSG_MAX bytes.
Body(f) ==
  CASE f.ty = OPEN -> encode(f.addr)
    [] f.ty = OPEN_ERR ->
         LET n == Least(Len(f.fields[2]), MSG_MAX)
         IN  <<f.fields[1], n>> \o SubSeq(f.fields[2], 1, n)
    [] f.ty = DATA -> <<f.fields[1]>> \o f.fields[2]
    [] OTHER -> f.fields

\* What the senders of frames see to: the fields of the type, and a payload within
\* the limit (the chunks of Data are smaller, the rest is short).
Sendable(f) ==
  /\ f.stream \in Nat /\ (f.ty \in NoStream => f.stream = 0)
  /\ \/ f = Open(f.stream, f.addr) /\ Encodable(f.addr)
     \/ /\ f = Frame(f.ty, f.stream, f.fields)
        /\ \/ f.ty \in {HELLO, HELLO_ACK} /\ f.fields \in Seq(Nat) /\ Len(f.fields) = 3 /\ f.fields[3] \in {0, 1}
           \/ f.ty \in Counts /\ f.fields \in Seq(Nat) /\ Len(f.fields) = 1
           \/ f.ty \in Codes /\ f.fields \in Seq(ResetCode) /\ Len(f.fields) = 1
           \/ f.ty \in Bare /\ f.fields = <<>>
           \/ f.ty = OPEN_ERR /\ f.fields = <<f.fields[1], f.fields[2]>>
                             /\ f.fields[1] \in ResetCode /\ f.fields[2] \in Seq(Nat)
           \/ f.ty = DATA /\ f.fields = <<f.fields[1], f.fields[2]>>
                         /\ f.fields[1] \in Nat /\ f.fields[2] \in Seq(Nat)
  /\ Len(Body(f)) <= MAX_FRAME_PAYLOAD

encode_frame(f) ==
  <<f.ty, IF f.ty \in NoStream THEN 0 ELSE f.stream, Len(Body(f))>> \o Body(f)

\* The fields of a payload, or an error; what follows the last field is ignored.
Fields(ty, body) ==
  LET least == CASE ty \in {HELLO, HELLO_ACK} -> 3
                 [] ty = OPEN_ERR -> IF Len(body) < 2 THEN 2 ELSE 2 + body[2]
                 [] ty \in Counts \cup Codes \cup {DATA} -> 1
                 [] OTHER -> 0
  IN
  CASE Len(body) < least -> Failed("Truncated")
    [] Len(body) >= least /\ ty = OPEN ->
         LET addr == decode(body) IN IF IsError(addr) THEN addr ELSE [open |-> addr]
    [] Len(body) >= least /\ ty # OPEN ->
         CASE ty \in {HELLO, HELLO_ACK} ->
                [ok |-> <<body[1], body[2], IF body[3] = 0 THEN 0 ELSE 1>>]
           [] ty \in Bare -> [ok |-> <<>>]
           [] ty = OPEN_ERR ->
                [ok |-> <<ResetCode_from_u8(body[1]), SubSeq(body, 3, least)>>]
           [] ty = DATA -> [ok |-> <<body[1], Tail(body)>>]
           [] ty \in Counts -> [ok |-> <<body[1]>>]
           [] ty \in Codes -> [ok |-> <<ResetCode_from_u8(body[1])>>]
           [] OTHER -> Failed("BadFrameType")

Framed(ty, stream, fields) ==
  IF ty = OPEN THEN Open(stream, fields.open) ELSE Frame(ty, stream, fields.ok)

More == [more |-> TRUE]
IsMore(result) == "more" \in DOMAIN result

\* Mutant: the payload is not waited for.
decode_frame_early(src) ==
  IF Len(src) < HEADER_LEN THEN More
  ELSE LET end == Least(HEADER_LEN + src[3], Len(src))
           fields == Fields(src[1], SubSeq(src, HEADER_LEN + 1, end))
       IN  IF src[3] > MAX_FRAME_PAYLOAD THEN Failed("FrameTooLarge")
           ELSE IF IsError(fields) THEN fields
           ELSE [frame |-> Framed(src[1], src[2], fields),
                 rest |-> SubSeq(src, end + 1, Len(src))]

\* One frame from the front of src: More leaves src as it is, an error is
\* fatal for the channel. An oversized length is refused before its payload.
decode_frame(src) ==
  IF Len(src) < HEADER_LEN THEN More
  ELSE IF src[3] > MAX_FRAME_PAYLOAD THEN Failed("FrameTooLarge")
  ELSE IF Len(src) < HEADER_LEN + src[3] THEN More
  ELSE LET end == HEADER_LEN + src[3]
           fields == Fields(src[1], SubSeq(src, HEADER_LEN + 1, end))
       IN  IF IsError(fields) THEN fields
           ELSE [frame |-> Framed(src[1], src[2], fields),
                 rest |-> SubSeq(src, end + 1, Len(src))]

=============================================================================
