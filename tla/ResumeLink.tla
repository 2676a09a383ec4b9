----------------------------- MODULE ResumeLink -----------------------------
(***************************************************************************)
(* One logical stream in the direction helper -> client, across breaks of  *)
(* the SSH channel: the helper's uplink task (srp-helper/src/stream.rs)    *)
(* reads the egress socket into a SendBuffer and sends Data and Fin; the   *)
(* helper's main loop (srp-helper/src/main.rs) applies the client's Hello, *)
(* Ack, Resume and Reset; the client (srp/src/tunnel/helper) delivers,     *)
(* confirms and, on a new channel, asks to resume.                         *)
(*                                                                         *)
(* uplink and main loop are two tasks that share tx under a mutex and meet *)
(* through the one permit of a tokio Notify. h2c and c2h are the frames on *)
(* the current channel, oldest first; a break loses both.                  *)
(*                                                                         *)
(* The stream is open on both sides at the start. HelperSurvives says      *)
(* whether the process behind a new channel is the one that holds the      *)
(* stream (what Hello{resume} is designed for) or a fresh one (what        *)
(* MuxDriver.supervise executes today).                                    *)
(***************************************************************************)
EXTENDS Resume

CONSTANTS
  Byte,            \* the values a byte can have
  Source,          \* what the egress peer would send if nobody stopped it
  Window,          \* --stream-window, capacity of the SendBuffer
  Chunk,           \* DATA_CHUNK, longest payload of a Data frame
  MaxBreaks,       \* bound: how often the channel breaks
  HelperSurvives

ASSUME LinkAssumption ==
  /\ Source \in Seq(Byte)
  /\ Window \in Nat \ {0}
  /\ Chunk \in Nat \ {0}
  /\ MaxBreaks \in Nat
  /\ HelperSurvives \in BOOLEAN

VARIABLES
  \* helper
  tx,          \* StreamTx.buf
  permit,      \* StreamTx.notify holds a permit
  pc,          \* where uplink is: see UplinkPC
  chunk,       \* the (offset, data) uplink took and has not queued yet
  cap,         \* how much uplink's current read may return
  eof,         \* uplink read end of file from the egress socket
  fin_sent,    \* uplink has queued Fin
  held,        \* the main loop's directory has the stream
  \* client
  rx,          \* StreamState.rx
  received,    \* every byte handed to the local endpoint, in order
  remote_fin,  \* StreamState.remote_fin
  live,        \* MuxState has the stream
  phase,       \* of the channel: "down", "hello" (HelloAck awaited) or "up"
  \* channel
  h2c, c2h, breaks

uplinkVars == <<pc, chunk, cap, eof, fin_sent>>
clientVars == <<rx, received, remote_fin, live>>
vars == <<tx, permit, uplinkVars, held, clientVars, phase, h2c, c2h, breaks>>

UplinkPC == {"flush", "send", "fin", "check", "wait", "read", "done", "failed", "stopped"}

Frame ==
       [type : {"Data"}, offset : Nat, data : Seq(Byte)]
  \cup [type : {"Ack", "Resume"}, offset : Nat]
  \cup [type : {"Hello", "HelloAck"}, resume : BOOLEAN]
  \cup [type : {"Fin", "ResumeOk", "ResumeErr", "Reset"}]

Data(offset, data) == [type |-> "Data", offset |-> offset, data |-> data]
AckFrame(offset) == [type |-> "Ack", offset |-> offset]
ResumeFrame(offset) == [type |-> "Resume", offset |-> offset]
Hello(resume) == [type |-> "Hello", resume |-> resume]
HelloAck(resumed) == [type |-> "HelloAck", resume |-> resumed]
Signal(type) == [type |-> type]

TypeOK ==
  /\ tx \in SendBuffer(Byte) /\ tx.capacity = Window
  /\ permit \in BOOLEAN
  /\ pc \in UplinkPC
  /\ chunk \in [offset : Nat, data : Seq(Byte)]
  /\ cap \in Nat
  /\ eof \in BOOLEAN /\ fin_sent \in BOOLEAN /\ held \in BOOLEAN
  /\ rx \in RecvTracker
  /\ received \in Seq(Byte)
  /\ remote_fin \in BOOLEAN /\ live \in BOOLEAN
  /\ phase \in {"down", "hello", "up"}
  /\ h2c \in Seq(Frame) /\ c2h \in Seq(Frame)
  /\ breaks \in Nat

NoChunk == [offset |-> 0, data |-> <<>>]

Init ==
  /\ tx = NewSendBuffer(Window)
  /\ permit = FALSE
  /\ pc = "flush" /\ chunk = NoChunk /\ cap = 0
  /\ eof = FALSE /\ fin_sent = FALSE /\ held = TRUE
  /\ rx = NewRecvTracker
  /\ received = <<>>
  /\ remote_fin = FALSE /\ live = TRUE
  /\ phase = "up"
  /\ h2c = <<>> /\ c2h = <<>>
  /\ breaks = 0

-----------------------------------------------------------------------------
(* The helper writes into the channel if there is one; what it writes to a *)
(* dead one is lost.                                                       *)
ToClient(frame) == h2c' = IF phase = "down" THEN h2c ELSE Append(h2c, frame)

-----------------------------------------------------------------------------
(* uplink. The mutex is released between two steps, and send may suspend,  *)
(* so the main loop runs in between.                                       *)

TakeUnsent ==
  /\ pc = "flush"
  /\ HasPending(tx)
  /\ chunk' = [offset |-> tx.cursor, data |-> NextUnsent(tx, Chunk)]
  /\ tx' = AdvanceCursor(tx, Chunk)
  /\ pc' = "send"
  /\ UNCHANGED <<permit, cap, eof, fin_sent, held, clientVars, phase, h2c, c2h, breaks>>

SendChunk ==
  /\ pc = "send"
  /\ ToClient(Data(chunk.offset, chunk.data))
  /\ pc' = "flush"
  /\ chunk' = NoChunk
  /\ UNCHANGED <<tx, permit, cap, eof, fin_sent, held, clientVars, phase, c2h, breaks>>

NothingUnsent ==
  /\ pc = "flush"
  /\ ~HasPending(tx)
  /\ pc' = IF eof /\ ~fin_sent THEN "fin" ELSE "check"
  /\ UNCHANGED <<tx, permit, chunk, cap, eof, fin_sent, held, clientVars, phase, h2c, c2h, breaks>>

SendFin ==
  /\ pc = "fin"
  /\ ToClient(Signal("Fin"))
  /\ fin_sent' = TRUE
  /\ pc' = "check"
  /\ UNCHANGED <<tx, permit, chunk, cap, eof, held, clientVars, phase, c2h, breaks>>

\* After end of file uplink lives until every byte is confirmed, so that a
\* Resume still finds them; before it, a full window stops it reading.
Check ==
  /\ pc = "check"
  /\ pc' = IF eof THEN IF IsFullyAcked(tx) THEN "done" ELSE "wait"
                  ELSE IF Writable(tx) = 0 THEN "wait" ELSE "read"
  /\ cap' = IF eof THEN cap
                   ELSE IF Writable(tx) < Chunk THEN Writable(tx) ELSE Chunk
  /\ UNCHANGED <<tx, permit, chunk, eof, fin_sent, held, clientVars, phase, h2c, c2h, breaks>>

Notified ==
  /\ pc \in {"wait", "read"}
  /\ permit
  /\ permit' = FALSE
  /\ pc' = "flush"
  /\ UNCHANGED <<tx, chunk, cap, eof, fin_sent, held, clientVars, phase, h2c, c2h, breaks>>

ReadBytes ==
  /\ pc = "read"
  /\ \E n \in 1 .. cap :
       /\ WriteOffset(tx) + n <= Len(Source)
       /\ tx' = Push(tx, SubSeq(Source, WriteOffset(tx) + 1, WriteOffset(tx) + n))
  /\ pc' = "flush"
  /\ UNCHANGED <<permit, chunk, cap, eof, fin_sent, held, clientVars, phase, h2c, c2h, breaks>>

\* Mutant: waits for a confirmation before it sends Fin.
ReadEofWaits ==
  /\ pc = "read"
  /\ eof' = TRUE
  /\ tx' = MarkFin(tx)
  /\ pc' = "wait"
  /\ UNCHANGED <<permit, chunk, cap, fin_sent, held, clientVars, phase, h2c, c2h, breaks>>

ReadEof ==
  /\ pc = "read"
  /\ eof' = TRUE
  /\ tx' = MarkFin(tx)
  /\ pc' = "flush"
  /\ UNCHANGED <<permit, chunk, cap, fin_sent, held, clientVars, phase, h2c, c2h, breaks>>

\* The egress socket fails: the task ends, and its StreamEvent::Failed is on the
\* way to the main loop.
ReadFails ==
  /\ pc = "read"
  /\ pc' = "failed"
  /\ UNCHANGED <<tx, permit, chunk, cap, eof, fin_sent, held, clientVars, phase, h2c, c2h, breaks>>

Uplink ==
  \/ TakeUnsent \/ SendChunk \/ NothingUnsent \/ SendFin \/ Check
  \/ Notified \/ ReadBytes \/ ReadEof \/ ReadFails

-----------------------------------------------------------------------------
(* The helper's main loop: one frame at a time.                            *)

Received(type) == c2h # <<>> /\ Head(c2h).type = type

\* remove_stream: the directory entry goes and the task is aborted. What the task
\* reported before stays in the queue of events.
RemoveStream == held' = FALSE /\ pc' = IF pc = "failed" THEN "failed" ELSE "stopped"

\* Resumed only when asked to, by the same session, with a stream at hand;
\* otherwise every stream of the process is closed.
HelperHello ==
  /\ Received("Hello")
  /\ c2h' = Tail(c2h)
  /\ LET resumed == Head(c2h).resume /\ held
     IN  /\ IF resumed THEN UNCHANGED <<held, pc>> ELSE RemoveStream
         /\ ToClient(HelloAck(resumed))
  /\ UNCHANGED <<tx, permit, chunk, cap, eof, fin_sent, clientVars, phase, breaks>>

HelperAck ==
  /\ Received("Ack")
  /\ c2h' = Tail(c2h)
  /\ LET offset == Head(c2h).offset
     IN  IF held /\ AckBeyondSent(tx, offset)
         THEN RemoveStream /\ ToClient(Signal("Reset")) /\ UNCHANGED <<tx, permit>>
         ELSE /\ tx' = IF held THEN Ack(tx, offset) ELSE tx
              /\ permit' = (permit \/ held)
              /\ UNCHANGED <<held, pc, h2c>>
  /\ UNCHANGED <<chunk, cap, eof, fin_sent, clientVars, phase, breaks>>

\* Mutant: rewinds without waking uplink.
ResumeWithoutNotify ==
  /\ Received("Resume")
  /\ c2h' = Tail(c2h)
  /\ held /\ CanRewind(tx, Head(c2h).offset)
  /\ tx' = RewindTo(tx, Head(c2h).offset)
  /\ ToClient(Signal("ResumeOk"))
  /\ UNCHANGED <<permit, pc, held, chunk, cap, eof, fin_sent, clientVars, phase, breaks>>

HelperResume ==
  /\ Received("Resume")
  /\ c2h' = Tail(c2h)
  /\ LET offset == Head(c2h).offset
     IN  IF held /\ CanRewind(tx, offset)
         THEN /\ tx' = RewindTo(tx, offset)
              /\ permit' = TRUE
              /\ ToClient(Signal("ResumeOk"))
              /\ UNCHANGED <<held, pc>>
         ELSE /\ ToClient(Signal("ResumeErr"))
              /\ IF held THEN RemoveStream ELSE UNCHANGED <<held, pc>>
              /\ UNCHANGED <<tx, permit>>
  /\ UNCHANGED <<chunk, cap, eof, fin_sent, clientVars, phase, breaks>>

HelperReset ==
  /\ Received("Reset")
  /\ c2h' = Tail(c2h)
  /\ IF held THEN RemoveStream ELSE UNCHANGED <<held, pc>>
  /\ UNCHANGED <<tx, permit, chunk, cap, eof, fin_sent, clientVars, phase, h2c, breaks>>

\* EgressDone with the client's Fin already seen: maybe_cleanup_finished. The
\* client's direction is not in this module, its Fin may have come or not.
HelperFinished ==
  /\ pc = "done"
  /\ held
  /\ RemoveStream
  /\ UNCHANGED <<tx, permit, chunk, cap, eof, fin_sent, clientVars, phase, h2c, c2h, breaks>>

\* StreamEvent::Failed: the client is told, also of a stream that is gone by now.
HelperFailed ==
  /\ pc = "failed"
  /\ held' = FALSE /\ pc' = "stopped"
  /\ ToClient(Signal("Reset"))
  /\ UNCHANGED <<tx, permit, chunk, cap, eof, fin_sent, clientVars, phase, c2h, breaks>>

HelperMain ==
  \/ HelperHello \/ HelperAck \/ HelperResume \/ HelperReset
  \/ HelperFinished \/ HelperFailed

-----------------------------------------------------------------------------
(* The client's session loop: one frame at a time.                         *)

helperVars == <<tx, permit, uplinkVars, held>>

Arrived(type) == phase = "up" /\ h2c # <<>> /\ Head(h2c).type = type

ToHelper(frame) == c2h' = Append(c2h, frame)

DropChannel == phase' = "down" /\ h2c' = <<>> /\ c2h' = <<>>

\* Mutant: a stream that cannot be resumed is reported as ended.
RefusalLooksLikeEof ==
  /\ phase = "hello"
  /\ h2c # <<>>
  /\ Head(h2c).type = "HelloAck"
  /\ h2c' = Tail(h2c)
  /\ phase' = "up"
  /\ IF live /\ Head(h2c).resume
     THEN ToHelper(ResumeFrame(rx.delivered)) ELSE UNCHANGED c2h
  /\ remote_fin' = (remote_fin \/ ~Head(h2c).resume)
  /\ UNCHANGED <<helperVars, rx, received, live, breaks>>

\* A channel that was told to resume and does not is the end of the stream.
ClientHelloAck ==
  /\ phase = "hello"
  /\ h2c # <<>>
  /\ Head(h2c).type = "HelloAck"
  /\ h2c' = Tail(h2c)
  /\ phase' = "up"
  /\ IF live /\ Head(h2c).resume
     THEN ToHelper(ResumeFrame(rx.delivered)) ELSE UNCHANGED c2h
  /\ live' = (live /\ Head(h2c).resume)
  /\ UNCHANGED <<helperVars, rx, received, remote_fin, breaks>>

\* Any other frame before HelloAck is a protocol violation.
ClientUnexpected ==
  /\ phase = "hello"
  /\ h2c # <<>>
  /\ Head(h2c).type # "HelloAck"
  /\ DropChannel
  /\ UNCHANGED <<helperVars, clientVars, breaks>>

ClientData ==
  /\ Arrived("Data")
  /\ h2c' = Tail(h2c)
  /\ LET f == Head(h2c)
     IN  IF ~live \/ IsGap(rx, f.offset, f.data)
         THEN /\ live' = FALSE
              /\ ToHelper(Signal("Reset"))
              /\ UNCHANGED <<rx, received>>
         ELSE /\ rx' = Accept(rx, f.offset, f.data)
              /\ received' = IF IsDuplicate(rx, f.offset, f.data) THEN received
                             ELSE received \o FreshBytes(rx, f.offset, f.data)
              /\ ToHelper(AckFrame(rx'.delivered))
              /\ UNCHANGED live
  /\ UNCHANGED <<helperVars, remote_fin, phase, breaks>>

ClientFin ==
  /\ Arrived("Fin")
  /\ h2c' = Tail(h2c)
  /\ IF live
     THEN remote_fin' = TRUE /\ rx' = MarkFinAt(rx)
     ELSE UNCHANGED <<remote_fin, rx>>
  /\ UNCHANGED <<helperVars, received, live, phase, c2h, breaks>>

\* ResumeOk realigns the other direction, whose buffer this module leaves out.
ClientResumeOk ==
  /\ Arrived("ResumeOk")
  /\ h2c' = Tail(h2c)
  /\ UNCHANGED <<helperVars, clientVars, phase, c2h, breaks>>

ClientTerminated ==
  /\ Arrived("ResumeErr") \/ Arrived("Reset")
  /\ h2c' = Tail(h2c)
  /\ live' = FALSE
  /\ UNCHANGED <<helperVars, rx, received, remote_fin, phase, c2h, breaks>>

Client ==
  \/ ClientHelloAck \/ ClientUnexpected \/ ClientData \/ ClientFin
  \/ ClientResumeOk \/ ClientTerminated

-----------------------------------------------------------------------------
(* The network, and the supervisor that opens the next channel.            *)

Break ==
  /\ phase # "down"
  /\ breaks < MaxBreaks
  /\ breaks' = breaks + 1
  /\ DropChannel
  /\ UNCHANGED <<helperVars, clientVars>>

\* run_session on a new channel starts with Hello. A fresh helper process
\* holds no stream; the old one closes everything when its stdin ends.
Attach ==
  /\ phase = "down"
  /\ phase' = "hello"
  /\ c2h' = <<Hello(live)>>
  /\ IF HelperSurvives THEN UNCHANGED <<held, pc>> ELSE held' = FALSE /\ pc' = "stopped"
  /\ UNCHANGED <<tx, permit, chunk, cap, eof, fin_sent, clientVars, h2c, breaks>>

Next == Uplink \/ HelperMain \/ Client \/ Break \/ Attach

Spec == Init /\ [][Next]_vars

\* The tasks are scheduled by tokio, the channel transports what is in it, and
\* a tunnel that comes back is used. Nothing makes the egress peer send or
\* close, or its socket fail, and nothing forces a break.
Fairness ==
  /\ WF_vars(TakeUnsent \/ SendChunk \/ NothingUnsent \/ SendFin \/ Check \/ Notified)
  /\ WF_vars(HelperHello \/ HelperAck \/ HelperResume \/ HelperReset \/ HelperFailed)
  /\ WF_vars(Client)
  /\ WF_vars(Attach)

FairSpec == Spec /\ Fairness

-----------------------------------------------------------------------------
(* Properties                                                              *)

\* What the local application has been given is, byte for byte, what the
\* egress peer sent first: recv tracking trims every overlap of a resend
\* (RecvTracker.accept) and refuses every hole.
ByteExact == received = SubSeq(Source, 1, rx.delivered)

\* The sender releases a byte only once it was delivered (the invariant of
\* resume.rs), and never confirms more than it was given; so the bytes that a
\* break lost are always still in the buffer.
ReleasedIsDelivered ==
  /\ tx.acked <= rx.delivered
  /\ rx.delivered <= WriteOffset(tx)
  /\ tx.data = SubSeq(Source, tx.acked + 1, WriteOffset(tx))

\* Whatever the order of confirmations, breaks and resumes, the helper never
\* answers ResumeErr(ResumeImpossible) or resets over an illegal Ack: every
\* offset on its way is inside the retransmission window when it arrives.
ResumeIsPossible ==
  held => \A i \in 1 .. Len(c2h) :
    /\ c2h[i].type = "Ack" => ~AckBeyondSent(tx, c2h[i].offset)
    /\ c2h[i].type = "Resume" => CanRewind(tx, c2h[i].offset)

\* uplink checks the window, suspends in read, and pushes what it got: the
\* window it checked is still there, whatever was handled in between.
ReadFitsWindow == pc = "read" => cap <= Writable(tx)

\* End of stream reaches the application only after the last byte.
FinIsLast == remote_fin => eof /\ rx.delivered = WriteOffset(tx)

\* No data frame reaches a live stream with a hole before it.
NoHole ==
  live /\ phase = "up" /\ h2c # <<>> /\ Head(h2c).type = "Data" =>
    ~IsGap(rx, Head(h2c).offset, Head(h2c).data)

(* What makes these two inductive when every channel meets a fresh helper.  *)

DataAt == {i \in 1 .. Len(h2c) : h2c[i].type = "Data"}

EndOf(f) == f.offset + Len(f.data)

\* The offset up to which uplink has given bytes to the channel.
Queued == IF pc = "send" THEN chunk.offset ELSE tx.cursor

\* The Data on its way joins end to end, from what the client has delivered to
\* offset top, and nothing is behind a Fin.
EndToEnd(top) ==
  /\ \A j \in DataAt : (\A k \in DataAt : j <= k) => h2c[j].offset = rx.delivered
  /\ \A i, j \in DataAt :
       i < j /\ (\A k \in DataAt : k <= i \/ j <= k) => h2c[j].offset = EndOf(h2c[i])
  /\ \A i \in DataAt : EndOf(h2c[i]) <= top /\ ((\A k \in DataAt : k <= i) => EndOf(h2c[i]) = top)
  /\ DataAt = {} => rx.delivered = top
  /\ \A i \in 1 .. Len(h2c) : h2c[i].type = "Fin" =>
       fin_sent /\ top = WriteOffset(tx) /\ \A j \in DataAt : j < i

QueueInOrder ==
  live => \E top \in 0 .. WriteOffset(tx) :
            EndToEnd(top) /\ (held /\ phase = "up" => top = Queued)

\* The stream lives on its first channel only, so nothing is sent twice.
SentOnce ==
  /\ pc = "stopped" => ~held
  /\ ~held => pc \in {"stopped", "failed"}
  /\ phase # "up" => breaks > 0
  /\ breaks > 0 /\ phase # "down" => ~held
  /\ held => rx.delivered <= Queued
  /\ pc = "send" => EndOf(chunk) = tx.cursor
  /\ fin_sent => eof /\ tx.cursor = WriteOffset(tx) /\ pc # "send"
  /\ pc = "fin" => eof /\ tx.cursor = WriteOffset(tx)
  /\ pc \in {"read", "failed"} => ~eof
  /\ \A i \in 1 .. Len(c2h) : c2h[i].type # "Resume" /\ (c2h[i].type = "Hello" => ~held)
  /\ \A i \in 1 .. Len(h2c) : h2c[i].type = "HelloAck" => ~h2c[i].resume

\* Frames reach the client in the order of their bytes, the end behind the last.
FramesInOrder == FinIsLast /\ NoHole /\ QueueInOrder /\ SentOnce

(***************************************************************************)
(* The inductive invariant behind the five properties above that hold with *)
(* and without a surviving helper: every copy of a byte, in the buffer, in *)
(* uplink's hands or on its way, is the byte of Source at its offset, and  *)
(* the offsets on their way to the helper come in ascending order between  *)
(* what it released and what was delivered.                                *)

BufferIsSource ==
  /\ tx.acked <= tx.cursor
  /\ tx.cursor <= WriteOffset(tx)
  /\ WriteOffset(tx) <= Len(Source)

IsSource(f) ==
  /\ EndOf(f) <= WriteOffset(tx)
  /\ f.data = SubSeq(Source, f.offset + 1, EndOf(f))

SourceFrame == {f \in Frame : f.type = "Data" => IsSource(f)}

InFlightIsSource ==
  /\ pc = "send" => IsSource(chunk)
  /\ h2c \in Seq(SourceFrame)

HasOffset(f) == f.type \in {"Ack", "Resume"}

OffsetsAscend ==
  \A i \in 1 .. Len(c2h) : HasOffset(c2h[i]) =>
    /\ tx.acked <= c2h[i].offset
    /\ c2h[i].offset <= rx.delivered
    /\ \A j \in 1 .. i : HasOffset(c2h[j]) => c2h[j].offset <= c2h[i].offset

LinkInv ==
  /\ TypeOK
  /\ ByteExact
  /\ ReleasedIsDelivered
  /\ ReadFitsWindow
  /\ BufferIsSource
  /\ InFlightIsSource
  /\ OffsetsAscend

\* The module as an implementation of what a stream promises.
Promise == INSTANCE ByteStream WITH
  accepted <- WriteOffset(tx),
  closed   <- eof,
  got      <- received,
  status   <- IF remote_fin THEN "eof" ELSE IF live THEN "open" ELSE "aborted"

StreamPromise == Promise!Spec

\* Every byte read from the egress socket is delivered, or the stream is reset.
EveryByteArrives ==
  \A n \in 1 .. Len(Source) : WriteOffset(tx) >= n ~> rx.delivered >= n \/ ~live

\* End of file at the egress socket becomes end of stream at the application, or
\* the stream is reset.
FinArrives == eof ~> remote_fin \/ ~live

=============================================================================
