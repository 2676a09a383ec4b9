------------------------------ MODULE MuxSession ------------------------------
(***************************************************************************)
(* The client's session loop over several channels, in the direction       *)
(* client -> helper: HelperDialer.dial, the supervisor of helper/session.rs*)
(* with its queued opens and offline buffering, the handshake, the commands*)
(* of the pumps, the frames that answer them, and the directory of         *)
(* helper/mux.rs. Behind it the helper's main loop (srp-helper main.rs).   *)
(*                                                                         *)
(* A pump is one step per command (LocalPump has its detail); a stream of  *)
(* the helper is the bytes it accepted (HelperStream has the rest); the    *)
(* direction helper -> client is in ResumeLink. A batch of frames is one   *)
(* frame. A break loses what is in the channel; what the client handles    *)
(* between a break and its notice is what it handled just before it.       *)
(***************************************************************************)
EXTENDS Resume, FiniteSets, SequencesExt

CONSTANTS
  Request,      \* connections of the frontends
  MaxWrites,    \* bound: bytes each application writes
  Ends,         \* bound: the requests whose stream an application or an egress ends
  CmdCap,       \* capacity of cmd_tx
  Window,       \* helper_cfg.stream_window
  Chunk,        \* DATA_CHUNK
  DrainLimit,   \* max_frames of drain_stream_output
  IdSpace,      \* 2^32
  MaxBreaks,    \* bound: breaks by the network
  Foreign,      \* bound: the channels that may meet a helper of another version
  Survives      \* the choices for the process behind a new channel: TRUE the old one

ASSUME MuxAssumption ==
  /\ MaxWrites \in [Request -> Nat] /\ Ends \subseteq Request /\ MaxBreaks \in Nat /\ Foreign \subseteq Nat
  /\ CmdCap \in Nat \ {0} /\ Window \in Nat \ {0}
  /\ Chunk \in Nat \ {0} /\ DrainLimit \in Nat \ {0}
  \* with every id in use alloc_stream would loop for ever
  /\ IdSpace \in Nat /\ IsFiniteSet(Request) /\ Cardinality(Request) + 1 < IdSpace
  /\ Survives \subseteq BOOLEAN /\ FALSE \in Survives

VARIABLES
  app,          \* per request: what its application and its pump did
  cmds,         \* commands of the dialers and pumps
  streams, next_id, \* MuxState, with the endpoints
  pending,      \* pending_opens
  drv,          \* "wait" for a session, "hello" (no HelloAck yet), "up"
  resuming,
  channel,      \* how many channels there were
  breaks,
  c2h, h2c,
  helper        \* the process at the other end

clientVars == <<streams, next_id, pending, drv, resuming, channel, breaks>>
vars == <<app, cmds, clientVars, c2h, h2c, helper>>

StreamId == 0 .. IdSpace - 1
Byte == [req : Request, at : Nat \ {0}]
BytesOf(r, first, last) == [i \in 1 .. last - first + 1 |-> [req |-> r, at |-> first + i - 1]]

App == [st : {"idle", "asked", "live", "done"}, wrote : Nat, shut : BOOLEAN,
        told : BOOLEAN, id : StreamId]

MuxCommand ==
       [kind : {"Open"}, req : Request]
  \cup [kind : {"LocalData"}, id : StreamId, data : Seq(Byte)]
  \cup [kind : {"LocalEof", "LocalClose"}, id : StreamId]

Frame ==
       [type : {"Hello"}, resume : BOOLEAN] \cup [type : {"HelloAck"}, resumed : BOOLEAN]
  \cup [type : {"Open"}, id : StreamId, req : Request]
  \cup [type : {"Data"}, id : StreamId, offset : Nat, data : Seq(Byte)]
  \cup [type : {"Fin", "Reset", "OpenErr", "ResumeErr"}, id : StreamId]
  \cup [type : {"Ack", "Resume", "ResumeOk"}, id : StreamId, offset : Nat]

Signal(type, id) == [type |-> type, id |-> id]
At(type, id, offset) == [type |-> type, id |-> id, offset |-> offset]

StreamState == [req : Request, tx : SendBuffer(Byte), local_fin : BOOLEAN, born : Nat]
HelperStream == [req : Request, got : Seq(Byte), fin : BOOLEAN, acked : Nat]

NoStreams == [i \in {} |-> 0]
FreshHelper == [session |-> FALSE, streams |-> NoStreams, channels |-> 0]

TypeOK ==
  /\ app \in [Request -> App]
  /\ cmds \in Seq(MuxCommand) /\ Len(cmds) <= CmdCap
  /\ DOMAIN streams \subseteq StreamId \ {0}
  /\ \A id \in DOMAIN streams : streams[id] \in StreamState
  /\ next_id \in StreamId
  /\ pending \in Seq(Request)
  /\ drv \in {"wait", "hello", "up"} /\ resuming \in BOOLEAN /\ channel \in Nat /\ breaks \in 0 .. MaxBreaks
  /\ c2h \in Seq(Frame) /\ h2c \in Seq(Frame)
  /\ DOMAIN helper = {"session", "streams", "channels"}
  /\ helper.session \in BOOLEAN /\ helper.channels \in 0 .. channel
  /\ DOMAIN helper.streams \subseteq StreamId
  /\ \A id \in DOMAIN helper.streams : helper.streams[id] \in HelperStream

Init ==
  /\ app = [r \in Request |-> [st |-> "idle", wrote |-> 0, shut |-> FALSE, told |-> FALSE, id |-> 0]]
  /\ cmds = <<>> /\ streams = NoStreams /\ next_id = 1 /\ pending = <<>>
  /\ drv = "wait" /\ resuming = FALSE /\ channel = 0 /\ breaks = 0
  /\ c2h = <<>> /\ h2c = <<>> /\ helper = FreshHelper

-----------------------------------------------------------------------------
(* Dialers and pumps. An application whose dial timed out has dropped its  *)
(* end: its pump, if it ever starts, begins with LocalEof.                 *)

Command(c) ==
  /\ Len(cmds) < CmdCap /\ cmds' = Append(cmds, c)
  /\ UNCHANGED <<clientVars, c2h, h2c, helper>>

Dial(r) ==
  /\ app[r].st = "idle"
  /\ app' = [app EXCEPT ![r].st = "asked"]
  /\ Command([kind |-> "Open", req |-> r])

PumpData(r) ==
  /\ app[r].st = "live" /\ ~app[r].shut /\ app[r].wrote < MaxWrites[r]
  /\ app' = [app EXCEPT ![r].wrote = @ + 1]
  /\ Command([kind |-> "LocalData", id |-> app[r].id,
              data |-> BytesOf(r, app[r].wrote + 1, app[r].wrote + 1)])

PumpEof(r) ==
  /\ r \in Ends /\ app[r].st = "live" /\ ~app[r].shut
  /\ app' = [app EXCEPT ![r].shut = TRUE]
  /\ Command([kind |-> "LocalEof", id |-> app[r].id])

PumpClose(r) ==
  /\ r \in Ends /\ app[r].st = "live"
  /\ app' = [app EXCEPT ![r].st = "done"]
  /\ Command([kind |-> "LocalClose", id |-> app[r].id])

\* The terminate oneshot is a branch of the pump's select!: until it is taken
\* the pump goes on sending commands.
PumpTerminates(r) ==
  /\ app[r].st = "live" /\ app[r].told
  /\ app' = [app EXCEPT ![r].st = "done"]
  /\ UNCHANGED <<cmds, clientVars, c2h, h2c, helper>>

Pump(r) == PumpData(r) \/ PumpEof(r) \/ PumpClose(r) \/ PumpTerminates(r)

-----------------------------------------------------------------------------
(* MuxState.                                                               *)

\* alloc_stream skips 0 and the ids in use.
AllocId(used, from) ==
  LET id(k) == (from + k) % IdSpace
      free(k) == id(k) # 0 /\ id(k) \notin used
  IN  id(CHOOSE k \in 0 .. IdSpace - 1 : free(k) /\ \A j \in 0 .. k - 1 : ~free(j))

With(ss, id, s) == [i \in DOMAIN ss \cup {id} |-> IF i = id THEN s ELSE ss[i]]
Without(ss, ids) == [i \in DOMAIN ss \ ids |-> ss[i]]

\* The streams are forgotten with their endpoints: terminate is sent, or its
\* sender dropped, which the pump cannot tell apart.
Told(a, ids) ==
  LET gone == {streams[i].req : i \in ids \cap DOMAIN streams}
  IN  [r \in Request |-> IF r \in gone THEN [a[r] EXCEPT !.told = TRUE] ELSE a[r]]

Drop(ids) == streams' = Without(streams, ids) /\ app' = Told(app, ids)

Keep(id, s) == streams' = [streams EXCEPT ![id] = s] /\ UNCHANGED app

\* drain_stream_output: the frames, and the stream after them.
DrainCount(tx) ==
  LesserOf(DrainLimit, (WriteOffset(tx) - tx.cursor + Chunk - 1) \div Chunk)

DrainData(id, tx) ==
  LET before(i) == [tx EXCEPT !.cursor = @ + (i - 1) * Chunk]
  IN  [i \in 1 .. DrainCount(tx) |->
        [type |-> "Data", id |-> id, offset |-> before(i).cursor, data |-> NextUnsent(before(i), Chunk)]]

SendsFin(s) == s.local_fin /\ ~HasPending(s.tx) /\ ~s.tx.fin_queued

Sent(s) == [s EXCEPT !.tx = AdvanceCursor(@, DrainCount(@) * Chunk)]

Drain(id, s) ==
  LET after == Sent(s)
  IN  /\ Keep(id, IF SendsFin(after) THEN [after EXCEPT !.tx = MarkFin(@)] ELSE after)
      /\ c2h' = c2h \o DrainData(id, s.tx) \o (IF SendsFin(after) THEN <<Signal("Fin", id)>> ELSE <<>>)

\* open_stream for one request after the other: the id, Open, and the pump.
AllocIds(used, reqs) ==
  {ids \in [1 .. Len(reqs) -> StreamId] : \A i \in 1 .. Len(reqs) :
     ids[i] = AllocId(used \cup {ids[j] : j \in 1 .. i - 1},
                      IF i = 1 THEN next_id ELSE (ids[i - 1] + 1) % IdSpace)}

NewStream(r) ==
  [req |-> r, tx |-> NewSendBuffer(Window), local_fin |-> FALSE, born |-> channel]

Place(seq, x) == CHOOSE i \in DOMAIN seq : seq[i] = x

OpenStreams(ss, a, out, reqs) ==
  \E ids \in AllocIds(DOMAIN ss, reqs) :
    LET n == Len(reqs)
        opened == {ids[i] : i \in 1 .. n}
        served == {reqs[i] : i \in 1 .. n}
    IN  /\ streams' = [id \in DOMAIN ss \cup opened |->
                         IF id \in opened THEN NewStream(reqs[Place(ids, id)]) ELSE ss[id]]
        /\ next_id' = IF n = 0 THEN next_id ELSE (ids[n] + 1) % IdSpace
        /\ app' = [r \in Request |->
                     IF r \in served THEN [a[r] EXCEPT !.st = "live", !.id = ids[Place(reqs, r)]]
                     ELSE a[r]]
        /\ c2h' = c2h \o out \o [i \in 1 .. n |-> [type |-> "Open", id |-> ids[i], req |-> reqs[i]]]

-----------------------------------------------------------------------------
(* The supervisor: wait_session, then run_session until the channel breaks.*)

Command1(kind) == cmds # <<>> /\ Head(cmds).kind = kind /\ cmds' = Tail(cmds)

\* The tunnel is back: a new channel, whose first frame is Hello.
Attach(same) ==
  /\ drv = "wait"
  /\ drv' = "hello" /\ channel' = channel + 1
  /\ resuming' = (DOMAIN streams # {})
  /\ c2h' = <<[type |-> "Hello", resume |-> resuming']>> /\ h2c' = <<>>
  /\ helper' = [(IF same THEN helper ELSE FreshHelper) EXCEPT !.channels = @ + 1]
  /\ UNCHANGED <<app, cmds, streams, next_id, pending, breaks>>

Break ==
  /\ drv # "wait" /\ breaks < MaxBreaks /\ breaks' = breaks + 1
  /\ drv' = "wait" /\ c2h' = <<>> /\ h2c' = <<>>
  /\ UNCHANGED <<app, cmds, streams, next_id, pending, resuming, channel, helper>>

QueueOpen ==
  /\ drv = "wait" /\ Command1("Open")
  /\ pending' = Append(pending, Head(cmds).req)
  /\ UNCHANGED <<app, streams, next_id, drv, resuming, channel, breaks, c2h, h2c, helper>>

\* Mutant: bytes the window has no room for are dropped, and the stream stays.
BufferDataTruncates ==
  /\ drv = "wait" /\ Command1("LocalData")
  /\ LET c == Head(cmds)
     IN  IF c.id \in DOMAIN streams
         THEN Keep(c.id, [streams[c.id] EXCEPT !.tx = Push(@, c.data)])
         ELSE UNCHANGED <<streams, app>>
  /\ UNCHANGED <<next_id, pending, drv, resuming, channel, breaks, c2h, h2c, helper>>

\* buffer_command_offline: the cursor does not move.
BufferData ==
  /\ drv = "wait" /\ Command1("LocalData")
  /\ LET c == Head(cmds)
     IN  IF c.id \notin DOMAIN streams THEN UNCHANGED <<streams, app>>
         ELSE IF PushCount(streams[c.id].tx, c.data) < Len(c.data) THEN Drop({c.id})
         ELSE Keep(c.id, [streams[c.id] EXCEPT !.tx = Push(@, c.data)])
  /\ UNCHANGED <<next_id, pending, drv, resuming, channel, breaks, c2h, h2c, helper>>

BufferEof ==
  /\ drv = "wait" /\ Command1("LocalEof")
  /\ LET id == Head(cmds).id
     IN  IF id \in DOMAIN streams THEN Keep(id, [streams[id] EXCEPT !.local_fin = TRUE])
         ELSE UNCHANGED <<streams, app>>
  /\ UNCHANGED <<next_id, pending, drv, resuming, channel, breaks, c2h, h2c, helper>>

BufferClose ==
  /\ drv = "wait" /\ Command1("LocalClose")
  /\ Drop({Head(cmds).id})
  /\ UNCHANGED <<next_id, pending, drv, resuming, channel, breaks, c2h, h2c, helper>>

Offline == QueueOpen \/ BufferData \/ BufferEof \/ BufferClose

-----------------------------------------------------------------------------
(* run_session, commands: taken before HelloAck as well as after it.       *)

Online == drv \in {"hello", "up"}

HandleOpen ==
  /\ Online /\ Command1("Open")
  /\ OpenStreams(streams, app, <<>>, <<Head(cmds).req>>)
  /\ UNCHANGED <<pending, drv, resuming, channel, breaks, h2c, helper>>

HandleLocalData ==
  /\ Online /\ Command1("LocalData")
  /\ LET c == Head(cmds)
     IN  IF c.id \notin DOMAIN streams THEN UNCHANGED <<streams, app, c2h>>
         ELSE IF PushCount(streams[c.id].tx, c.data) < Len(c.data)
         THEN Drop({c.id}) /\ c2h' = Append(c2h, Signal("Reset", c.id))
         ELSE Drain(c.id, [streams[c.id] EXCEPT !.tx = Push(@, c.data)])
  /\ UNCHANGED <<next_id, pending, drv, resuming, channel, breaks, h2c, helper>>

HandleLocalEof ==
  /\ Online /\ Command1("LocalEof")
  /\ LET id == Head(cmds).id
     IN  IF id \in DOMAIN streams THEN Drain(id, [streams[id] EXCEPT !.local_fin = TRUE])
         ELSE UNCHANGED <<streams, app, c2h>>
  /\ UNCHANGED <<next_id, pending, drv, resuming, channel, breaks, h2c, helper>>

HandleLocalClose ==
  /\ Online /\ Command1("LocalClose")
  /\ LET id == Head(cmds).id
     IN  /\ Drop({id})
         /\ c2h' = IF id \in DOMAIN streams THEN Append(c2h, Signal("Reset", id)) ELSE c2h
  /\ UNCHANGED <<next_id, pending, drv, resuming, channel, breaks, h2c, helper>>

Commands == HandleOpen \/ HandleLocalData \/ HandleLocalEof \/ HandleLocalClose

-----------------------------------------------------------------------------
(* run_session, frames.                                                    *)

Frame1(type) == h2c # <<>> /\ Head(h2c).type = type /\ h2c' = Tail(h2c)

Resumes == [i \in 1 .. Cardinality(DOMAIN streams) |->
             At("Resume", SetToSeq(DOMAIN streams)[i], 0)]

\* Mutants: the old streams stay although the helper lost them; queued opens
\* wait when nothing is resumed; they are opened and stay queued.
HandleHelloAckKeeps ==
  /\ drv = "hello" /\ Frame1("HelloAck")
  /\ drv' = "up" /\ pending' = <<>>
  /\ OpenStreams(streams, app, IF Head(h2c).resumed THEN Resumes ELSE <<>>, pending)
  /\ UNCHANGED <<cmds, resuming, channel, breaks, helper>>

HandleHelloAckLeavesQueue ==
  /\ drv = "hello" /\ Frame1("HelloAck")
  /\ drv' = "up"
  /\ OpenStreams(streams, app, <<>>, <<>>)
  /\ UNCHANGED <<cmds, pending, resuming, channel, breaks, helper>>

HandleHelloAckReopens ==
  /\ drv = "hello" /\ Frame1("HelloAck")
  /\ drv' = "up" /\ UNCHANGED pending
  /\ LET all == DOMAIN streams
     IN  IF resuming /\ ~Head(h2c).resumed
         THEN OpenStreams(Without(streams, all), Told(app, all), <<>>, pending)
         ELSE OpenStreams(streams, app, IF resuming THEN Resumes ELSE <<>>, pending)
  /\ UNCHANGED <<cmds, resuming, channel, breaks, helper>>

\* The streams end or are resumed; then the queued opens are sent. The offset
\* of Resume is that of the other direction, which this module leaves out.
HandleHelloAck ==
  /\ drv = "hello" /\ Frame1("HelloAck")
  /\ drv' = "up" /\ pending' = <<>>
  /\ LET all == DOMAIN streams
     IN  IF resuming /\ ~Head(h2c).resumed
         THEN OpenStreams(Without(streams, all), Told(app, all), <<>>, pending)
         ELSE OpenStreams(streams, app, IF resuming THEN Resumes ELSE <<>>, pending)
  /\ UNCHANGED <<cmds, resuming, channel, breaks, helper>>

\* Any other frame before HelloAck breaks the channel.
FrameTooEarly ==
  /\ drv = "hello" /\ h2c # <<>> /\ Head(h2c).type # "HelloAck"
  /\ drv' = "wait" /\ c2h' = <<>> /\ h2c' = <<>>
  /\ UNCHANGED <<app, cmds, streams, next_id, pending, resuming, channel, breaks, helper>>

\* A helper of another protocol version says so and leaves: every stream ends,
\* the channel is given up, and the queued opens stay for the next one.
ForeignVersion ==
  /\ drv = "hello" /\ h2c # <<>> /\ Head(h2c).type = "HelloAck"
  /\ channel \in Foreign
  /\ Drop(DOMAIN streams)
  /\ drv' = "wait" /\ c2h' = <<>> /\ h2c' = <<>> /\ helper' = FreshHelper
  /\ UNCHANGED <<cmds, next_id, pending, resuming, channel, breaks>>

\* An Ack beyond what was written ends the stream, and sends nothing.
ApplyAck ==
  /\ drv = "up" /\ Frame1("Ack")
  /\ LET f == Head(h2c)
     IN  IF f.id \notin DOMAIN streams THEN UNCHANGED <<streams, app>>
         ELSE IF AckBeyondSent(streams[f.id].tx, f.offset) THEN Drop({f.id})
         ELSE Keep(f.id, [streams[f.id] EXCEPT !.tx = Ack(@, f.offset)])
  /\ UNCHANGED <<cmds, next_id, pending, drv, resuming, channel, breaks, c2h, helper>>

ApplyResumeOk ==
  /\ drv = "up" /\ Frame1("ResumeOk")
  /\ LET f == Head(h2c)
     IN  IF f.id \notin DOMAIN streams THEN UNCHANGED <<streams, app, c2h>>
         ELSE IF CanRewind(streams[f.id].tx, f.offset)
         THEN Drain(f.id, [streams[f.id] EXCEPT !.tx = RewindTo(@, f.offset)])
         ELSE Drop({f.id}) /\ c2h' = Append(c2h, Signal("Reset", f.id))
  /\ UNCHANGED <<cmds, next_id, pending, drv, resuming, channel, breaks, helper>>

ApplyEnd(type) ==
  /\ drv = "up" /\ Frame1(type)
  /\ Drop({Head(h2c).id})
  /\ UNCHANGED <<cmds, next_id, pending, drv, resuming, channel, breaks, c2h, helper>>

Frames ==
  \/ HandleHelloAck \/ FrameTooEarly \/ ApplyAck \/ ApplyResumeOk
  \/ \E type \in {"OpenErr", "Reset", "ResumeErr"} : ApplyEnd(type)

-----------------------------------------------------------------------------
(* The helper's main loop: handle_frame, a frame at a time.                *)

Held == helper.streams

HelperTakes(type) == c2h # <<>> /\ Head(c2h).type = type /\ c2h' = Tail(c2h)
Reply(f) == h2c' = Append(h2c, f)
HelperSets(ss) == helper' = [helper EXCEPT !.streams = ss]
ClientIdle == UNCHANGED <<app, cmds, clientVars>>

HelperHello ==
  /\ HelperTakes("Hello")
  /\ LET resumed == Head(c2h).resume /\ helper.session /\ DOMAIN Held # {}
     IN  /\ Reply([type |-> "HelloAck", resumed |-> resumed])
         /\ helper' = IF resumed THEN helper
                      ELSE [helper EXCEPT !.session = TRUE, !.streams = NoStreams]
  /\ ClientIdle

\* Refused: a duplicate id; the stream limit, the allow list.
HelperOpen ==
  /\ HelperTakes("Open")
  /\ LET f == Head(c2h)
     IN  \/ /\ f.id \notin DOMAIN Held
            /\ HelperSets(With(Held, f.id, [req |-> f.req, got |-> <<>>, fin |-> FALSE, acked |-> 0]))
            /\ UNCHANGED h2c
         \/ Reply(Signal("OpenErr", f.id)) /\ UNCHANGED helper
  /\ ClientIdle

\* Mutant: takes a frame that starts beyond what it has.
HelperDataSkips ==
  /\ HelperTakes("Data")
  /\ LET f == Head(c2h)
     IN  IF f.id \notin DOMAIN Held
         THEN Reply(Signal("Reset", f.id)) /\ UNCHANGED helper
         ELSE HelperSets([Held EXCEPT ![f.id].got = @ \o f.data]) /\ UNCHANGED h2c
  /\ ClientIdle

HelperData ==
  /\ HelperTakes("Data")
  /\ LET f == Head(c2h)
         rx == [delivered |-> Len(Held[f.id].got), fin_at |-> NoFin]
     IN  IF f.id \notin DOMAIN Held
         THEN Reply(Signal("Reset", f.id)) /\ UNCHANGED helper
         ELSE IF IsGap(rx, f.offset, f.data)
         THEN HelperSets(Without(Held, {f.id})) /\ Reply(Signal("Reset", f.id))
         ELSE IF IsDuplicate(rx, f.offset, f.data)
         THEN Reply(At("Ack", f.id, Len(Held[f.id].got))) /\ UNCHANGED helper
         ELSE HelperSets([Held EXCEPT ![f.id].got = @ \o FreshBytes(rx, f.offset, f.data)])
              /\ UNCHANGED h2c
  /\ ClientIdle

HelperFin ==
  /\ HelperTakes("Fin")
  /\ LET f == Head(c2h)
     IN  IF f.id \notin DOMAIN Held
         THEN Reply(Signal("Reset", f.id)) /\ UNCHANGED helper
         ELSE HelperSets([Held EXCEPT ![f.id].fin = TRUE]) /\ UNCHANGED h2c
  /\ ClientIdle

HelperReset ==
  /\ HelperTakes("Reset")
  /\ HelperSets(Without(Held, {Head(c2h).id}))
  /\ UNCHANGED h2c /\ ClientIdle

HelperResume ==
  /\ HelperTakes("Resume")
  /\ LET id == Head(c2h).id
     IN  Reply(IF id \in DOMAIN Held THEN At("ResumeOk", id, Len(Held[id].got))
               ELSE Signal("ResumeErr", id))
  /\ UNCHANGED helper /\ ClientIdle

\* The stream's task: Ack for what it wrote; a failure of the egress side.
HelperAcks(id) ==
  /\ drv # "wait" /\ id \in DOMAIN Held /\ helper.session
  /\ Held[id].acked < Len(Held[id].got)
  /\ HelperSets([Held EXCEPT ![id].acked = Len(Held[id].got)])
  /\ Reply(At("Ack", id, Len(Held[id].got)))
  /\ UNCHANGED c2h /\ ClientIdle

HelperFails(id) ==
  /\ drv # "wait" /\ id \in DOMAIN Held /\ Held[id].req \in Ends
  /\ HelperSets(Without(Held, {id}))
  /\ Reply(Signal("Reset", id))
  /\ UNCHANGED c2h /\ ClientIdle

HelperFrames ==
  HelperHello \/ HelperOpen \/ HelperData \/ HelperFin \/ HelperReset \/ HelperResume

Helper == HelperFrames \/ \E id \in StreamId : HelperAcks(id) \/ HelperFails(id)

Driver == (\E same \in Survives : Attach(same)) \/ Offline \/ Commands \/ Frames

Next ==
  \/ \E r \in Request : Dial(r) \/ Pump(r)
  \/ Driver \/ ForeignVersion \/ Break \/ Helper

Spec == Init /\ [][Next]_vars

\* The two session loops are scheduled, and a tunnel that is lost is found again
\* (TunnelManager's Heals). Pumps, egress and network need not do anything.
Fairness == WF_vars(Driver) /\ WF_vars(HelperFrames)

FairSpec == Spec /\ Fairness

-----------------------------------------------------------------------------
(* Properties                                                              *)

Owns(r, id) == id # 0 /\ app[r].id = id
Allocated == 1 .. next_id - 1
Carries(data, r, start) ==
  \A i \in 1 .. Len(data) : data[i] = [req |-> r, at |-> start + i]

\* What the helper accepted on a stream is what the application of that stream
\* wrote, from the start, whatever was lost, sent again or sent too early.
HeldIsExact ==
  \A id \in DOMAIN Held :
    LET h == Held[id]
    IN  /\ Owns(h.req, id) /\ Carries(h.got, h.req, 0) /\ Len(h.got) <= app[h.req].wrote
        /\ h.fin => app[h.req].shut

\* What makes it inductive: a frame carries bytes of the request that has its id,
\* and Open is the first of a stream.
FramesAreExact ==
  \A i \in 1 .. Len(c2h) :
    LET f == c2h[i]
    IN  f.type # "Hello" =>
          /\ f.id \in Allocated
          /\ \A r \in Request : app[r].id = f.id =>
               /\ f.type = "Open" => f.req = r
               /\ f.type = "Data" =>
                    Carries(f.data, r, f.offset) /\ f.offset + Len(f.data) <= app[r].wrote
               /\ f.type = "Fin" => app[r].shut
          /\ f.type = "Open" =>
               /\ f.id \notin DOMAIN Held
               /\ f.id \in DOMAIN streams => streams[f.id].tx.acked = 0
               /\ \A j \in 1 .. i - 1 : c2h[j].type # "Hello" => c2h[j].id # f.id

UpIsExact == HeldIsExact /\ FramesAreExact

\* Until its stream ends a byte the application wrote is received by the helper,
\* or in the retransmission buffer, or in the queue behind it, in order: on a
\* channel, between two channels and during a handshake.
IsData(c, id) == c.kind = "LocalData" /\ c.id = id
Position(c) == c.data[1].at

Joins(id, s) ==
  LET wrote == app[s.req].wrote
      end == WriteOffset(s.tx)
  IN  /\ Owns(s.req, id) /\ s.born <= channel
      /\ Carries(s.tx.data, s.req, s.tx.acked)
      /\ s.tx.acked <= s.tx.cursor /\ s.tx.cursor <= end /\ end <= wrote
      /\ \A i \in 1 .. Len(cmds) : IsData(cmds[i], id) => end < Position(cmds[i])
      /\ \A b \in end + 1 .. wrote :
           \E i \in 1 .. Len(cmds) : IsData(cmds[i], id) /\ Position(cmds[i]) = b
      /\ s.local_fin => app[s.req].shut /\ end = wrote
      /\ id \in DOMAIN Held => s.tx.acked <= Len(Held[id].got)

\* What makes it inductive: commands are in order, and no Ack is ahead.
CommandsFollow ==
  \A i \in 1 .. Len(cmds) :
    LET c == cmds[i]
    IN  c.kind # "Open" =>
          /\ c.id \in Allocated
          /\ \A r \in Request : app[r].id = c.id =>
               /\ c.kind = "LocalData" => \E at \in 1 .. app[r].wrote : c.data = BytesOf(r, at, at)
               /\ c.kind = "LocalEof" => app[r].shut
          /\ c.kind = "LocalData" => \A j \in 1 .. i - 1 :
               /\ cmds[j].kind = "LocalEof" => cmds[j].id # c.id
               /\ IsData(cmds[j], c.id) => Position(cmds[j]) < Position(c)

Mentions(q, types, id) == \E i \in 1 .. Len(q) : q[i].type \in types /\ q[i].id = id

AcksFollow ==
  \A i \in 1 .. Len(h2c) :
    LET f == h2c[i]
    IN  f.type # "HelloAck" =>
          /\ f.id \in Allocated
          /\ f.type \in {"Ack", "ResumeOk"} =>
               /\ f.id \in DOMAIN Held => f.offset <= Len(Held[f.id].got)
               /\ ~Mentions(c2h, {"Open"}, f.id)

BufferedInOrder ==
  (\A id \in DOMAIN streams : Joins(id, streams[id])) /\ CommandsFollow /\ AcksFollow

\* After the handshake the two directories agree: a stream the client has is
\* one the helper has, or will be told about, or has refused.
Known(id) ==
  \/ id \in DOMAIN Held
  \/ Mentions(c2h, {"Open", "Resume"}, id)
  \/ Mentions(h2c, {"OpenErr", "Reset", "ResumeErr"}, id)

EveryStreamIsKnown == drv = "up" => \A id \in DOMAIN streams : Known(id)

\* What makes it inductive: Hello is first and HelloAck answers it; what was
\* opened since then is known; a Reset is sent for a stream that is gone.
Greets(q, type) == \E i \in 1 .. Len(q) : q[i].type = type

HandshakeHolds ==
  /\ drv = "wait" => c2h = <<>> /\ h2c = <<>>
  /\ drv # "hello" => ~Greets(c2h, "Hello") /\ ~Greets(h2c, "HelloAck")
  /\ Greets(c2h, "Hello") => ~Greets(h2c, "HelloAck")
  /\ \A i \in 1 .. Len(c2h) : c2h[i].type = "Hello" => i = 1
  /\ \A i, j \in 1 .. Len(h2c) : h2c[i].type = "HelloAck" /\ h2c[j].type = "HelloAck" => i = j
  /\ drv = "hello" => \A id \in DOMAIN streams :
       /\ ~resuming => streams[id].born = channel
       /\ streams[id].born = channel =>
            Known(id) /\ (Greets(c2h, "Hello") => Mentions(c2h, {"Open"}, id))
  /\ \A id \in DOMAIN streams : ~Mentions(c2h, {"Reset"}, id)

\* A request is queued once, in one place, until it is opened, and then nowhere.
IsOpen(c, r) == c.kind = "Open" /\ c.req = r

QueuedOnce ==
  \A r \in Request :
    LET sent == {i \in 1 .. Len(cmds) : IsOpen(cmds[i], r)}
        kept == {i \in 1 .. Len(pending) : pending[i] = r}
    IN  /\ app[r].st = "asked" <=> sent # {} \/ kept # {}
        /\ sent = {} \/ kept = {}
        /\ \A i, j \in sent : i = j
        /\ \A i, j \in kept : i = j

\* What makes it inductive, and streams their own: an id is given once.
IdsAreOwn ==
  /\ next_id # 0
  /\ \A r \in Request :
       /\ app[r].st \in {"idle", "asked"} <=> app[r].id = 0
       /\ app[r].id < next_id
       /\ app[r].id = 0 => app[r].wrote = 0 /\ ~app[r].shut
       /\ \A q \in Request : app[q].id = app[r].id => q = r \/ app[r].id = 0
  /\ \A id \in Allocated : \E r \in Request : app[r].id = id

RequestOnce == QueuedOnce /\ IdsAreOwn

\* At a helper that was not resumed Fin comes after the last byte.
FinIsLast ==
  \A id \in DOMAIN Held :
    helper.channels = 1 /\ Held[id].fin => Len(Held[id].got) = app[Held[id].req].wrote

\* What makes it inductive: on the first channel of a helper the bytes sent on a
\* stream are received or on their way, those before a Fin in front of it.
Covers(f, id, b) == f.type = "Data" /\ f.id = id /\ f.offset < b /\ b <= f.offset + Len(f.data)

Arrives(id, b, n) ==
  \/ id \in DOMAIN Held /\ b <= Len(Held[id].got)
  \/ \E j \in 1 .. n : Covers(c2h[j], id, b)

Reaches(id) == id \in DOMAIN Held \/ Mentions(c2h, {"Open"}, id)

FinsFollow ==
  /\ helper.channels = 0 => DOMAIN Held = {}
  /\ helper.channels = 1 /\ drv # "wait" =>
       /\ \A id \in DOMAIN streams : Reaches(id) =>
            \A b \in 1 .. streams[id].tx.cursor : Arrives(id, b, Len(c2h))
       /\ \A i \in 1 .. Len(c2h) : c2h[i].type = "Fin" /\ Reaches(c2h[i].id) =>
            \A r \in Request : app[r].id = c2h[i].id =>
              \A b \in 1 .. app[r].wrote : Arrives(c2h[i].id, b, i - 1)

\* The client's directory and the helper's, and types.
StreamInv == TypeOK /\ EveryStreamIsKnown /\ HandshakeHolds /\ FinIsLast /\ FinsFollow

\* A request, made with or without a tunnel, is opened, and every byte written on
\* it reaches the helper, across a resume too as long as the drain's limit covers
\* the window; without a resume so does the end of file. Or the application learns
\* that its stream is over.
Arrived(r) ==
  /\ app[r].id \in DOMAIN Held /\ Len(Held[app[r].id].got) = app[r].wrote
  /\ app[r].shut /\ helper.channels = 1 => Held[app[r].id].fin

RequestServed ==
  \A r \in Request : app[r].st \in {"asked", "live"} ~> Arrived(r) \/ app[r].told \/ app[r].st = "done"

\* A helper that lost its state ends the old streams, not those that were opened
\* on the new channel.
NewStreamsStay ==
  [][HandleHelloAck => \A id \in DOMAIN streams : streams[id].born = channel => id \in DOMAIN streams']_vars

=============================================================================
