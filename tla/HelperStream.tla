----------------------------- MODULE HelperStream -----------------------------
(***************************************************************************)
(* One logical stream inside srp-helper in the direction client -> egress: *)
(* the main loop (main.rs) decodes a frame, tracks it and hands it to the  *)
(* stream's task (stream.rs) through the bounded queue downlink; the task  *)
(* dials, writes to the egress socket and confirms; it reports to the main *)
(* loop through events.                                                    *)
(*                                                                         *)
(* The client is external here: it sends the bytes of Source and then Fin, *)
(* and after a break of a channel whose helper survived it asks to resume. *)
(* The other direction of the stream is one step, UplinkDone.              *)
(***************************************************************************)
EXTENDS Resume

CONSTANTS
  Byte,
  Source,       \* what the application writes before its end of file
  Chunk,        \* DATA_CHUNK
  Queue,        \* DOWNLINK_QUEUE
  AckBytes,     \* ACK_BYTES
  MaxBreaks,    \* bound: breaks the helper survives
  EgressCloses  \* the egress peer closes its direction, and the client confirms

ASSUME HelperAssumption ==
  /\ Source \in Seq(Byte)
  /\ Chunk \in Nat \ {0} /\ Queue \in Nat \ {0} /\ AckBytes \in Nat \ {0}
  /\ MaxBreaks \in Nat
  /\ EgressCloses \in BOOLEAN

VARIABLES
  \* client
  client,       \* "open", "told" that the stream failed, or "closed" by itself
  cursor,       \* offset of the next byte it sends
  fin_out,      \* it sent Fin
  released,     \* bytes it was confirmed and has dropped
  ping,         \* "no", "sent", "answered"
  breaks,
  \* channel
  c2h, h2c,
  \* main loop
  main,         \* "idle", or "send" while downlink is full
  offer,        \* what it is sending
  held,         \* the directory has the stream
  rx,           \* StreamState.recv
  ingress_fin, egress_done,
  \* queues between the two tasks
  downlink, events,
  \* stream task
  task,         \* "dialing", "running", "ended" or "aborted"
  item,         \* what downlink_loop is writing, or NoItem
  pending, delivered,
  up_done,
  \* egress socket
  written, shut

clientVars == <<client, cursor, fin_out, released, ping, breaks>>
mainVars == <<main, offer, held, rx, ingress_fin, egress_done>>
taskVars == <<task, item, pending, delivered, up_done>>
egressVars == <<written, shut>>
vars == <<clientVars, c2h, h2c, mainVars, downlink, events, taskVars, egressVars>>

Data(offset, data) == [type |-> "Data", offset |-> offset, data |-> data]
AckFrame(offset) == [type |-> "Ack", offset |-> offset]
ResumeOk(offset) == [type |-> "ResumeOk", offset |-> offset]
Signal(type) == [type |-> type]

Frame ==
       [type : {"Data"}, offset : Nat, data : Seq(Byte)]
  \cup [type : {"Ack", "ResumeOk"}, offset : Nat]
  \cup [type : {"Fin", "Reset", "Resume", "ResumeErr", "Ping", "Pong", "OpenOk", "OpenErr"}]

NoItem == [kind |-> "none"]
Bytes(data, at) == [kind |-> "Data", data |-> data, delivered |-> at]
Duplicate(at) == [kind |-> "Duplicate", delivered |-> at]
HalfClose == [kind |-> "Fin"]

Downlink ==
       [kind : {"Data"}, data : Seq(Byte), delivered : Nat]
  \cup [kind : {"Duplicate"}, delivered : Nat]
  \cup [kind : {"Fin", "none"}]

TypeOK ==
  /\ client \in {"open", "told", "closed"}
  /\ cursor \in 0 .. Len(Source) /\ released \in 0 .. Len(Source)
  /\ fin_out \in BOOLEAN /\ ping \in {"no", "sent", "answered"} /\ breaks \in 0 .. MaxBreaks
  /\ c2h \in Seq(Frame) /\ h2c \in Seq(Frame)
  /\ main \in {"idle", "send"} /\ offer \in Downlink
  /\ held \in BOOLEAN /\ rx \in RecvTracker
  /\ ingress_fin \in BOOLEAN /\ egress_done \in BOOLEAN
  /\ downlink \in Seq(Downlink) /\ Len(downlink) <= Queue
  /\ events \in Seq({"EgressDone", "Failed", "FailedSilently"})
  /\ task \in {"dialing", "running", "ended", "aborted"}
  /\ item \in Downlink
  /\ pending \in 0 .. Len(Source) /\ delivered \in 0 .. Len(Source)
  /\ up_done \in BOOLEAN /\ shut \in BOOLEAN
  /\ written \in Seq(Byte)

\* After Open was handled: the directory entry is there, the task is dialling.
Init ==
  /\ client = "open" /\ cursor = 0 /\ fin_out = FALSE /\ released = 0
  /\ ping = "no" /\ breaks = 0
  /\ c2h = <<>> /\ h2c = <<>>
  /\ main = "idle" /\ offer = NoItem /\ held = TRUE
  /\ rx = NewRecvTracker /\ ingress_fin = FALSE /\ egress_done = FALSE
  /\ downlink = <<>> /\ events = <<>>
  /\ task = "dialing" /\ item = NoItem /\ pending = 0 /\ delivered = 0 /\ up_done = FALSE
  /\ written = <<>> /\ shut = FALSE

-----------------------------------------------------------------------------
(* The client.                                                             *)

Send(frame) == c2h' = Append(c2h, frame)

ClientData ==
  /\ client = "open"
  /\ \E n \in 1 .. Chunk :
       /\ cursor + n <= Len(Source)
       /\ cursor' = cursor + n
       /\ Send(Data(cursor, SubSeq(Source, cursor + 1, cursor + n)))
  /\ UNCHANGED <<client, fin_out, released, ping, breaks, h2c, mainVars, downlink, events,
                 taskVars, egressVars>>

ClientFin ==
  /\ client = "open"
  /\ cursor = Len(Source)
  /\ ~fin_out /\ fin_out' = TRUE
  /\ Send(Signal("Fin"))
  /\ UNCHANGED <<client, cursor, released, ping, breaks, h2c, mainVars, downlink, events,
                 taskVars, egressVars>>

ClientReset ==
  /\ client = "open" /\ client' = "closed"
  /\ Send(Signal("Reset"))
  /\ UNCHANGED <<cursor, fin_out, released, ping, breaks, h2c, mainVars, downlink, events,
                 taskVars, egressVars>>

ClientPing ==
  /\ ping = "no" /\ ping' = "sent"
  /\ Send(Signal("Ping"))
  /\ UNCHANGED <<client, cursor, fin_out, released, breaks, h2c, mainVars, downlink, events,
                 taskVars, egressVars>>

\* A break loses what is on the way; the client asks to resume an open stream.
ClientResumes ==
  /\ breaks < MaxBreaks /\ breaks' = breaks + 1
  /\ c2h' = IF client = "open" THEN <<Signal("Resume")>> ELSE <<>>
  /\ h2c' = <<>>
  /\ UNCHANGED <<client, cursor, fin_out, released, ping, mainVars, downlink, events,
                 taskVars, egressVars>>

\* Ack releases; ResumeOk releases and sends again from there; Reset, OpenErr
\* and ResumeErr end the stream.
ClientReceives ==
  /\ h2c # <<>>
  /\ h2c' = Tail(h2c)
  /\ LET f == Head(h2c)
     IN  /\ released' = IF f.type \in {"Ack", "ResumeOk"} /\ client = "open"
                        THEN GreaterOf(released, f.offset) ELSE released
         /\ cursor' = IF f.type = "ResumeOk" /\ client = "open" THEN f.offset ELSE cursor
         /\ client' = IF f.type \in {"Reset", "OpenErr", "ResumeErr"} /\ client = "open"
                      THEN "told" ELSE client
         /\ ping' = IF f.type = "Pong" THEN "answered" ELSE ping
  /\ UNCHANGED <<fin_out, breaks, c2h, mainVars, downlink, events, taskVars, egressVars>>

Client ==
  ClientData \/ ClientFin \/ ClientReset \/ ClientPing \/ ClientResumes \/ ClientReceives

-----------------------------------------------------------------------------
(* The main loop. A frame is handled to its end, but for the await on a    *)
(* full downlink.                                                          *)

Reply(frame) == h2c' = Append(h2c, frame)

Takes(type) ==
  /\ main = "idle"
  /\ c2h # <<>> /\ Head(c2h).type = type
  /\ c2h' = Tail(c2h)

Remove ==
  /\ held' = FALSE
  /\ task' = IF task = "ended" THEN task ELSE "aborted"
  /\ item' = NoItem
  /\ UNCHANGED <<pending, delivered, up_done>>

Keep == UNCHANGED <<held, taskVars>>

\* The stream is over for the main loop: both Fins seen, and egress_done
\* implies that the sending buffer is fully confirmed.
Finished(fin) == fin /\ egress_done

\* What follows once a message is in the queue: the Fin handler ends with
\* maybe_cleanup_finished.
Enqueue(msg) ==
  /\ downlink' = Append(downlink, msg)
  /\ main' = "idle" /\ offer' = NoItem
  /\ UNCHANGED h2c
  /\ IF msg = HalfClose /\ Finished(TRUE) THEN Remove ELSE Keep

\* downlink.send: done, suspended on a full queue, or the task is gone.
Offer(msg) ==
  \/ task # "ended" /\ Len(downlink) < Queue /\ Enqueue(msg)
  \/ /\ task # "ended" /\ Len(downlink) = Queue
     /\ main' = "send" /\ offer' = msg
     /\ Keep
     /\ UNCHANGED <<downlink, h2c>>
  \/ /\ task = "ended"
     /\ main' = "idle" /\ offer' = NoItem
     /\ Remove
     /\ Reply(Signal("Reset"))
     /\ UNCHANGED downlink

MainData ==
  /\ Takes("Data")
  /\ LET f == Head(c2h)
     IN  IF held /\ ~IsGap(rx, f.offset, f.data)
         THEN /\ rx' = Accept(rx, f.offset, f.data)
              /\ Offer(IF IsDuplicate(rx, f.offset, f.data) THEN Duplicate(rx.delivered)
                       ELSE Bytes(FreshBytes(rx, f.offset, f.data), rx'.delivered))
         ELSE /\ Reply(Signal("Reset"))
              /\ IF held THEN Remove ELSE Keep
              /\ UNCHANGED <<main, offer, rx, downlink>>
  /\ UNCHANGED <<clientVars, ingress_fin, egress_done, events, egressVars>>

\* Mutant: the main loop shuts the socket itself, past the queue.
MainFinAtOnce ==
  /\ Takes("Fin")
  /\ held /\ ~ingress_fin
  /\ ingress_fin' = TRUE
  /\ rx' = MarkFinAt(rx)
  /\ shut' = TRUE
  /\ Keep
  /\ UNCHANGED <<clientVars, h2c, main, offer, egress_done, downlink, events, written>>

MainFin ==
  /\ Takes("Fin")
  /\ IF held /\ ~ingress_fin
     THEN /\ ingress_fin' = TRUE
          /\ rx' = MarkFinAt(rx)
          /\ Offer(HalfClose)
     ELSE /\ IF held THEN UNCHANGED h2c ELSE Reply(Signal("Reset"))
          /\ IF held /\ Finished(ingress_fin) THEN Remove ELSE Keep
          /\ UNCHANGED <<main, offer, rx, ingress_fin, downlink>>
  /\ UNCHANGED <<clientVars, egress_done, events, egressVars>>

\* Mutant: waits for room in the queue of a task that has ended.
MainSendsWaits ==
  /\ main = "send"
  /\ Len(downlink) < Queue /\ Enqueue(offer)
  /\ UNCHANGED <<clientVars, c2h, rx, ingress_fin, egress_done, events, egressVars>>

\* The suspended send resumes.
MainSends ==
  /\ main = "send"
  /\ \/ task # "ended" /\ Len(downlink) < Queue /\ Enqueue(offer)
     \/ /\ task = "ended"
        /\ main' = "idle" /\ offer' = NoItem
        /\ Remove
        /\ Reply(Signal("Reset"))
        /\ UNCHANGED downlink
  /\ UNCHANGED <<clientVars, c2h, rx, ingress_fin, egress_done, events, egressVars>>

MainReset ==
  /\ Takes("Reset")
  /\ IF held THEN Remove ELSE Keep
  /\ UNCHANGED <<clientVars, h2c, main, offer, rx, ingress_fin, egress_done, downlink, events,
                 egressVars>>

MainResume ==
  /\ Takes("Resume")
  /\ Reply(IF held THEN ResumeOk(rx.delivered) ELSE Signal("ResumeErr"))
  /\ UNCHANGED <<clientVars, mainVars, downlink, events, taskVars, egressVars>>

MainPing ==
  /\ Takes("Ping")
  /\ Reply(Signal("Pong"))
  /\ UNCHANGED <<clientVars, mainVars, downlink, events, taskVars, egressVars>>

\* Mutant: a failed stream is dropped without a word to the client.
MainEventSilent ==
  /\ main = "idle"
  /\ events # <<>> /\ events' = Tail(events)
  /\ egress_done' = (egress_done \/ (held /\ Head(events) = "EgressDone"))
  /\ IF held /\ (Head(events) # "EgressDone" \/ ingress_fin) THEN Remove ELSE Keep
  /\ UNCHANGED <<clientVars, c2h, h2c, main, offer, rx, ingress_fin, downlink, egressVars>>

MainEvent ==
  /\ main = "idle"
  /\ events # <<>> /\ events' = Tail(events)
  /\ egress_done' = (egress_done \/ (held /\ Head(events) = "EgressDone"))
  /\ IF held /\ (Head(events) # "EgressDone" \/ ingress_fin) THEN Remove ELSE Keep
  /\ IF Head(events) = "Failed" THEN Reply(Signal("Reset")) ELSE UNCHANGED h2c
  /\ UNCHANGED <<clientVars, c2h, main, offer, rx, ingress_fin, downlink, egressVars>>

Main ==
  \/ MainData \/ MainFin \/ MainSends \/ MainReset \/ MainResume \/ MainPing \/ MainEvent

-----------------------------------------------------------------------------
(* The stream's task.                                                      *)

Report(event) == events' = Append(events, event)

DialOk ==
  /\ task = "dialing" /\ task' = "running"
  /\ Reply(Signal("OpenOk"))
  /\ UNCHANGED <<clientVars, c2h, mainVars, downlink, events, item, pending, delivered, up_done,
                 egressVars>>

DialFails ==
  /\ task = "dialing" /\ task' = "ended"
  /\ Reply(Signal("OpenErr"))
  /\ Report("FailedSilently")
  /\ UNCHANGED <<clientVars, c2h, mainVars, downlink, item, pending, delivered, up_done, egressVars>>

\* downlink_loop takes a message. A duplicate is confirmed at once; Fin
\* confirms what is pending before the write half is shut.
DownlinkTakes ==
  /\ task = "running" /\ item = NoItem
  /\ downlink # <<>> /\ downlink' = Tail(downlink)
  /\ LET msg == Head(downlink)
     IN  /\ item' = IF msg.kind = "Duplicate" THEN NoItem ELSE msg
         /\ delivered' = IF msg.kind = "Duplicate" THEN msg.delivered ELSE delivered
         /\ pending' = IF msg.kind = "Data" THEN pending ELSE 0
         /\ IF msg.kind = "Duplicate" \/ (msg.kind = "Fin" /\ pending > 0)
            THEN Reply(AckFrame(delivered')) ELSE UNCHANGED h2c
  /\ UNCHANGED <<clientVars, c2h, mainVars, events, task, up_done, egressVars>>

\* Mutant: confirms when the write begins instead of when it is done.
DownlinkConfirmsFirst ==
  /\ task = "running" /\ item.kind = "Data"
  /\ item.data # <<>>
  /\ item' = NoItem
  /\ h2c' = Append(h2c, AckFrame(item.delivered))
  /\ written' = written
  /\ UNCHANGED <<clientVars, c2h, mainVars, downlink, events, task, pending, delivered, up_done, shut>>

\* write_all writes byte after byte; when the last one is in the socket the
\* bytes count as pending, and are confirmed at once if there are enough.
DownlinkWrites ==
  /\ task = "running" /\ item.kind = "Data" /\ ~shut
  /\ written' = Append(written, Head(item.data))
  /\ IF Len(item.data) > 1
     THEN /\ item' = [item EXCEPT !.data = Tail(@)]
          /\ UNCHANGED <<pending, delivered, h2c>>
     ELSE LET now == pending + (item.delivered - delivered)
          IN  /\ item' = NoItem
              /\ delivered' = item.delivered
              /\ pending' = IF now >= AckBytes THEN 0 ELSE now
              /\ IF now >= AckBytes THEN Reply(AckFrame(item.delivered)) ELSE UNCHANGED h2c
  /\ UNCHANGED <<clientVars, c2h, mainVars, downlink, events, task, up_done, shut>>

DownlinkShuts ==
  /\ task = "running" /\ item = HalfClose
  /\ shut' = TRUE
  /\ item' = NoItem
  /\ UNCHANGED <<clientVars, c2h, h2c, mainVars, downlink, events, task, pending, delivered,
                 up_done, written>>

\* Mutant: only a full ACK_BYTES is ever confirmed.
AckDelayNever ==
  /\ task = "running" /\ item = NoItem
  /\ pending >= AckBytes /\ pending' = 0
  /\ Reply(AckFrame(delivered))
  /\ UNCHANGED <<clientVars, c2h, mainVars, downlink, events, task, item, delivered, up_done,
                 egressVars>>

AckDelayOver ==
  /\ task = "running" /\ item = NoItem
  /\ pending > 0 /\ pending' = 0
  /\ Reply(AckFrame(delivered))
  /\ UNCHANGED <<clientVars, c2h, mainVars, downlink, events, task, item, delivered, up_done,
                 egressVars>>

\* A write, the shutdown or the reading direction fails.
TaskFails ==
  /\ task = "running" /\ task' = "ended"
  /\ item' = NoItem
  /\ Report("Failed")
  /\ UNCHANGED <<clientVars, c2h, h2c, mainVars, downlink, pending, delivered, up_done, egressVars>>

\* The egress peer closed, everything it sent and Fin are confirmed.
UplinkDone ==
  /\ EgressCloses
  /\ task = "running"
  /\ ~up_done /\ up_done' = TRUE
  /\ Report("EgressDone")
  /\ UNCHANGED <<clientVars, c2h, h2c, mainVars, downlink, task, item, pending, delivered, egressVars>>

Working == DownlinkTakes \/ DownlinkShuts \/ AckDelayOver

Task ==
  \/ DialOk \/ DialFails \/ Working \/ DownlinkWrites \/ TaskFails \/ UplinkDone

Next == Client \/ Main \/ Task

Spec == Init /\ [][Next]_vars

\* The tasks run, a dial ends (CONNECT_TIMEOUT) and the ack timer fires.
StallFairness ==
  /\ WF_vars(ClientReceives)
  /\ WF_vars(Main)
  /\ WF_vars(DialOk \/ DialFails)
  /\ WF_vars(Working)

\* An egress peer may stop reading for ever; or it goes on.
StallSpec == Spec /\ StallFairness
FairSpec == StallSpec /\ WF_vars(DownlinkWrites)

-----------------------------------------------------------------------------
(* Properties                                                              *)

\* The egress peer gets the application's bytes in order, none twice, across
\* resends after a resume, full queues and a dial that takes its time.
PrefixWritten ==
  /\ written = SubSeq(Source, 1, Len(written))
  /\ Len(written) <= rx.delivered

\* Land first, confirm afterwards: no Ack for a byte the socket does not have.
AckIsWritten ==
  \A i \in 1 .. Len(h2c) : h2c[i].type = "Ack" => h2c[i].offset <= Len(written)

\* What makes these two inductive. A message, an item being written and a frame
\* carry bytes of Source that end at the offset the message names.
EndsAt(data, end) ==
  /\ Len(data) <= end /\ end <= Len(Source)
  /\ \A i \in 1 .. Len(data) : data[i] = Source[end - Len(data) + i]

SourceMessage ==
  {msg \in Downlink : msg.kind = "Data" => msg.data # <<>> /\ EndsAt(msg.data, msg.delivered)}

SourceFrame ==
  {f \in Frame :
     /\ f.type = "Data" => EndsAt(f.data, f.offset + Len(f.data))
     /\ f.type = "ResumeOk" => f.offset <= Len(Source)}

CarriesSource ==
  /\ item \in SourceMessage /\ offer \in SourceMessage /\ downlink \in Seq(SourceMessage)
  /\ c2h \in Seq(SourceFrame) /\ h2c \in Seq(SourceFrame)

\* msg moves the socket from offset a to offset b.
Moves(a, msg, b) ==
  /\ msg.kind = "Data" => b = msg.delivered /\ b = a + Len(msg.data)
  /\ msg.kind = "Duplicate" => a = msg.delivered
  /\ msg.kind # "Data" => b = a

Alive == task \in {"dialing", "running"}

\* Where the socket is when downlink_loop is done with its item.
AfterItem == Len(written) + IF item.kind = "Data" THEN Len(item.data) ELSE 0

\* Between the socket and what the main loop has accepted there is exactly what
\* the two queues hold, in order, as long as the task is there to write it; and a
\* half-close in the queue is not before offset fin.
QueueJoins(fin) ==
  Alive =>
    /\ item.kind = "Data" => item.delivered = AfterItem
    /\ \E at \in [0 .. Len(downlink) -> 0 .. rx.delivered] :
         /\ at[0] = AfterItem
         /\ \A i \in 1 .. Len(downlink) :
              Moves(at[i - 1], downlink[i], at[i]) /\ (downlink[i] = HalfClose => at[i] >= fin)
         /\ Moves(at[Len(downlink)], offer, rx.delivered)

TasksAgree ==
  /\ main = "idle" <=> offer = NoItem
  /\ main = "send" \/ Alive => held
  /\ held => task # "aborted"
  /\ item # NoItem => task = "running"
  /\ rx.delivered <= Len(Source)
  /\ pending <= delivered /\ delivered <= Len(written)

\* Bytes are written in order and confirmed afterwards, and types.
HelperInv ==
  TypeOK /\ PrefixWritten /\ AckIsWritten /\ CarriesSource /\ QueueJoins(0) /\ TasksAgree

\* The write half is shut after the last byte, never with one in the queue.
HalfCloseIsLast == shut => written = Source

\* A stream leaves the directory with all its bytes written and its end passed
\* on, or because the client ended it, or the client is told: by a frame on its
\* way, by one still to be sent, or in answer to the Resume it has sent.
Types(queue) == {queue[i].type : i \in 1 .. Len(queue)}

IsTold ==
  \/ client = "told"
  \/ Types(h2c) \cap {"Reset", "OpenErr", "ResumeErr"} # {}
  \/ "Resume" \in Types(c2h)
  \/ "Failed" \in {events[i] : i \in 1 .. Len(events)}

CutIsTold == ~held => shut \/ client = "closed" \/ IsTold

\* What makes it inductive on one channel whose egress peer does not close first:
\* only the client's own Reset arrives, and a failed dial was told with its event.
EndsAreKnown ==
  /\ ~egress_done
  /\ \A i \in 1 .. Len(c2h) :
       c2h[i].type # "Resume" /\ (c2h[i].type = "Reset" => client = "closed")
  /\ \A i \in 1 .. Len(events) :
       /\ events[i] # "EgressDone"
       /\ events[i] = "FailedSilently" => client # "open" \/ "OpenErr" \in Types(h2c)

NoSilentCut == CutIsTold /\ EndsAreKnown

\* What the client dropped because the helper confirmed it is in the socket.
ReleasedIsWritten == released <= Len(written)

\* What makes these two inductive: on one channel the frames to the helper join
\* what it has accepted to what the client has sent, and Fin is the last of them.
FrameJoins(a, f, b) ==
  /\ f.type = "Data" => f.offset = a /\ b = a + Len(f.data)
  /\ f.type # "Data" => b = a
  /\ f.type = "Fin" => a = Len(Source)

FramesJoin ==
  held =>
    \E at \in [0 .. Len(c2h) -> 0 .. cursor] :
      /\ at[0] = rx.delivered /\ at[Len(c2h)] = cursor
      /\ \A i \in 1 .. Len(c2h) : FrameJoins(at[i - 1], c2h[i], at[i])

FinsFollow ==
  /\ fin_out => cursor = Len(Source)
  /\ "Fin" \in Types(c2h) => fin_out
  /\ ingress_fin => fin_out /\ (held => rx.delivered = Len(Source))
  /\ HalfClose \in {item, offer} \cup {downlink[i] : i \in 1 .. Len(downlink)} => ingress_fin
  /\ item = HalfClose => Len(written) = Len(Source)
  /\ "Resume" \notin Types(c2h) /\ "ResumeOk" \notin Types(h2c)

\* On one channel: the end of the stream and the client's buffer wait for the
\* egress socket.
SocketIsLeading ==
  /\ HalfCloseIsLast /\ ReleasedIsWritten
  /\ FramesJoin /\ FinsFollow /\ QueueJoins(Len(Source))

\* On one channel this direction keeps ByteStream's promise to the egress peer
\* too; the client's window is not modelled.
Promise == INSTANCE ByteStream WITH
  Window   <- Len(Source),
  accepted <- cursor,
  closed   <- fin_out,
  got      <- written,
  status   <- IF shut THEN "eof" ELSE IF task \in {"ended", "aborted"} THEN "aborted" ELSE "open"

EgressPromise == Promise!Spec

\* Every byte the helper took is confirmed, or the stream has failed.
TakenIsConfirmed ==
  \A n \in 1 .. Len(Source) : rx.delivered >= n ~> released >= n \/ client # "open"

\* A Ping is answered whatever one stream's egress does.
PingAnswered == ping = "sent" ~> ping = "answered"

=============================================================================
