------------------------------- MODULE Resume -------------------------------
(***************************************************************************)
(* The byte-level resume core, srp-proto/src/resume.rs: the sender's       *)
(* retransmission buffer (SendBuffer) and the receiver's tracker           *)
(* (RecvTracker), as operators on records.                                 *)
(*                                                                         *)
(* The deque of chunks is flattened into one sequence: next_unsent and ack *)
(* walk over the chunks, and return nothing that depends on where one ends.*)
(* A definition that a comment calls a mutant is a plausible bug in the    *)
(* definition after it, and no part of the model.                          *)
(***************************************************************************)
EXTENDS Integers, Sequences

LesserOf(a, b) == IF a <= b THEN a ELSE b
GreaterOf(a, b) == IF a >= b THEN a ELSE b

-----------------------------------------------------------------------------
(* SendBuffer: the window [acked, acked + Len(data)) of unconfirmed bytes; *)
(* cursor is the absolute offset up to which bytes went to the network.    *)

SendBuffer(B) ==
  [acked : Nat, cursor : Nat, capacity : Nat \ {0}, data : Seq(B), fin_queued : BOOLEAN]

NewSendBuffer(capacity) ==
  [acked |-> 0, cursor |-> 0, capacity |-> capacity, data |-> <<>>, fin_queued |-> FALSE]

WriteOffset(tx) == tx.acked + Len(tx.data)

Writable(tx) == GreaterOf(tx.capacity - Len(tx.data), 0)

HasPending(tx) == tx.cursor < WriteOffset(tx)

IsFullyAcked(tx) == Len(tx.data) = 0

MarkFin(tx) == [tx EXCEPT !.fin_queued = TRUE]

\* push returns how many bytes it took and keeps exactly that prefix.
PushCount(tx, bytes) == LesserOf(Writable(tx), Len(bytes))

Push(tx, bytes) ==
  [tx EXCEPT !.data = @ \o SubSeq(bytes, 1, PushCount(tx, bytes))]

\* The chunk next_unsent(max) returns when HasPending(tx), and the buffer after.
UnsentCount(tx, max) == LesserOf(max, WriteOffset(tx) - tx.cursor)

NextUnsent(tx, max) ==
  LET skip == tx.cursor - tx.acked
  IN  SubSeq(tx.data, skip + 1, skip + UnsentCount(tx, max))

\* Mutant: moves the cursor by max although fewer bytes were left.
AdvanceByMax(tx, max) == [tx EXCEPT !.cursor = @ + max]

AdvanceCursor(tx, max) == [tx EXCEPT !.cursor = @ + UnsentCount(tx, max)]

\* ack(offset) fails exactly when the peer confirms bytes never written.
AckBeyondSent(tx, offset) == offset > WriteOffset(tx)

\* Mutants: releases one byte the peer did not confirm; reads the offset as that
\* of the last byte received.
AckOneTooMany(tx, offset) ==
  IF offset < tx.acked \/ offset = WriteOffset(tx)
  THEN tx
  ELSE [tx EXCEPT !.acked  = offset + 1,
                  !.data   = SubSeq(@, offset - tx.acked + 2, Len(@)),
                  !.cursor = GreaterOf(@, offset + 1)]

Ack(tx, offset) ==
  IF offset < tx.acked
  THEN tx
  ELSE [tx EXCEPT !.acked  = offset,
                  !.data   = SubSeq(@, offset - tx.acked + 1, Len(@)),
                  !.cursor = GreaterOf(@, offset)]

\* rewind_to(peer_recv) fails below acked (the bytes were released) and
\* beyond the write offset.
\* Mutant: refuses to resume exactly where the window begins.
GapAtWindowStart(tx, peer_recv) == peer_recv <= tx.acked

GapUnrecoverable(tx, peer_recv) == peer_recv < tx.acked

CanRewind(tx, peer_recv) ==
  ~GapUnrecoverable(tx, peer_recv) /\ ~AckBeyondSent(tx, peer_recv)

\* Mutant: sends again from the old start of the window.
RewindToAcked(tx, peer_recv) == [Ack(tx, peer_recv) EXCEPT !.cursor = tx.acked]

RewindTo(tx, peer_recv) == [Ack(tx, peer_recv) EXCEPT !.cursor = peer_recv]

-----------------------------------------------------------------------------
(* RecvTracker: bytes delivered in order, and where the peer's FIN came.   *)

NoFin == -1

RecvTracker == [delivered : Nat, fin_at : Nat \cup {NoFin}]

NewRecvTracker == [delivered |-> 0, fin_at |-> NoFin]

FinReceived(rx) == rx.fin_at # NoFin

\* accept(offset, data): a whole duplicate, a gap, or fresh bytes.
IsDuplicate(rx, offset, data) == offset + Len(data) <= rx.delivered

IsGap(rx, offset, data) == ~IsDuplicate(rx, offset, data) /\ offset > rx.delivered

\* Mutant: the overlap of a resend is not cut off.
WholeFrame(rx, offset, data) == data

FreshBytes(rx, offset, data) == SubSeq(data, rx.delivered - offset + 1, Len(data))

Accept(rx, offset, data) ==
  IF IsDuplicate(rx, offset, data) \/ IsGap(rx, offset, data)
  THEN rx
  ELSE [rx EXCEPT !.delivered = offset + Len(data)]

MarkFinAt(rx) == [rx EXCEPT !.fin_at = rx.delivered]

=============================================================================
