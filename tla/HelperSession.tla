--------------------------- MODULE HelperSession ----------------------------
(***************************************************************************)
(* The helper process as a whole, srp-helper/src/main.rs: the main loop    *)
(* over stdin, the stream directory with its limit, the tasks of the       *)
(* streams, the bounded queues between them, the one writer of stdout, and *)
(* the end of the session, by end of file, a foreign version, bytes that   *)
(* are no frame, or silence. Every wait for room in a queue is a state.    *)
(*                                                                         *)
(* The client is the other end of both pipes. With ClientWaits it is       *)
(* run_session of the client, which reads nothing while it awaits flush.   *)
(* Offsets, acknowledgements of Data and resuming are in HelperStream and  *)
(* ResumeLink; a task here only moves frames between its queues.           *)
(***************************************************************************)
EXTENDS Naturals, Sequences, FiniteSets

CONSTANTS
  Id,             \* stream ids the client uses
  Denied,         \* ids whose target the allow list may refuse
  MAX_STREAMS,
  FRAME_QUEUE, DOWNLINK_QUEUE, EventQueue,
  PipeCap,        \* frames a pipe of the channel holds
  MaxIn,          \* bound on the frames of the client
  Talks, MaxUp,   \* ids whose egress peer sends, and bound on its Data frames
  IdleTimeout,    \* --idle-timeout is given
  ClientWaits

ASSUME SessionAssumption ==
  /\ Denied \subseteq Id
  /\ {MAX_STREAMS, FRAME_QUEUE, DOWNLINK_QUEUE, EventQueue, PipeCap} \subseteq Nat \ {0}
  /\ {MaxIn, MaxUp} \subseteq Nat

VARIABLES
  outbound,   \* frames the client is flushing
  stdin, eof, \* the pipe to the helper, and whether the client closed it
  stdout,     \* the pipe from the helper
  taken,      \* the answers the client has read so far
  sentIn,     \* frames the client wrote so far
  inbuf,      \* frames the main loop has read and not handled
  main,       \* what the main loop does: [at, arg, then]
  streams,    \* the directory
  task,       \* id |-> its task
  frames,     \* the queue to the writer
  batch,      \* frames the writer has encoded and not written
  writer,     \* "on" or "over"
  events,     \* reports of the tasks
  submitted   \* frames that entered the queue and are not read, in order

clientVars == <<outbound, stdin, eof, stdout, taken, sentIn>>
loopVars == <<inbuf, main, streams>>
taskVars == <<task, events>>
writerVars == <<frames, batch, writer, submitted>>
vars == <<clientVars, loopVars, taskVars, writerVars>>

Frame(k, i) == [k |-> k, i |-> i]

ClientFrame ==
  [k : {"Hello", "Foreign", "Junk", "Ping"}, i : {0}] \cup [k : {"Open", "Data", "Reset"}, i : Id]

HelperFrame ==
  [k : {"HelloAck", "Pong", "OpenOk", "OpenErr", "Data", "Ack", "Reset"}, i : Id \cup {0}]

Answer == [k : {"OpenOk", "OpenErr"}, i : Id] \cup {Frame("Pong", 0)}

Live == {"dial", "opened", "refused", "run", "failed", "broken"}
NoTask == [st |-> "none", down |-> 0, ack |-> FALSE, up |-> 0]

Loop == [at |-> "loop", arg |-> Frame("none", 0), then |-> "loop"]
Sending(f, then) == [at |-> "send", arg |-> f, then |-> then]

Report == [k : {"failed", "broken"}, i : Id]

Main ==
  [at : {"loop", "send", "down", "close", "join", "gone"},
   arg : HelperFrame \cup {Frame("none", 0)}, then : {"loop", "hello", "close"}]

Task ==
  [st : Live \cup {"none", "over", "aborted"}, down : 0 .. DOWNLINK_QUEUE, ack : BOOLEAN,
   up : 0 .. MaxUp]

TypeOK ==
  /\ outbound \in Seq(ClientFrame) /\ stdin \in Seq(ClientFrame) /\ inbuf \in Seq(ClientFrame)
  /\ Len(outbound) <= 1 /\ Len(stdin) <= PipeCap /\ Len(stdout) <= PipeCap
  /\ sentIn \in 0 .. MaxIn /\ eof \in BOOLEAN
  /\ main \in Main
  /\ main.at = "send" => main.arg \in HelperFrame
  /\ main.at = "down" => main.arg.i \in Id
  /\ streams \subseteq Id /\ task \in [Id -> Task]
  /\ stdout \in Seq(HelperFrame) /\ batch \in Seq(HelperFrame)
  /\ frames \in Seq(HelperFrame) /\ submitted \in Seq(HelperFrame)
  /\ Len(frames) <= FRAME_QUEUE
  /\ events \in Seq(Report) /\ Len(events) <= EventQueue
  /\ writer \in {"on", "over"}

Init ==
  /\ outbound = <<>> /\ stdin = <<>> /\ eof = FALSE /\ stdout = <<>> /\ taken = {}
  /\ sentIn = 0
  /\ inbuf = <<>> /\ main = Loop /\ streams = {}
  /\ task = [i \in Id |-> NoTask]
  /\ frames = <<>> /\ batch = <<>> /\ writer = "on" /\ events = <<>> /\ submitted = <<>>

-----------------------------------------------------------------------------
(* The client                                                              *)

ClientSubmits ==
  /\ ~eof /\ outbound = <<>> /\ sentIn < MaxIn
  /\ \E f \in ClientFrame : outbound' = <<f>>
  /\ sentIn' = sentIn + 1
  /\ UNCHANGED <<stdin, eof, stdout, taken, loopVars, taskVars, writerVars>>

ClientFlushes ==
  /\ outbound # <<>> /\ Len(stdin) < PipeCap
  /\ stdin' = stdin \o outbound /\ outbound' = <<>>
  /\ UNCHANGED <<eof, stdout, taken, sentIn, loopVars, taskVars, writerVars>>

ClientReads ==
  /\ stdout # <<>> /\ (ClientWaits => outbound = <<>>)
  /\ taken' = taken \cup ({Head(stdout)} \cap Answer) /\ stdout' = Tail(stdout)
  /\ submitted' = Tail(submitted)
  /\ UNCHANGED <<outbound, stdin, eof, sentIn, loopVars, taskVars, frames, batch, writer>>

ClientCloses ==
  /\ ~eof /\ outbound = <<>>
  /\ eof' = TRUE
  /\ UNCHANGED <<outbound, stdin, stdout, taken, sentIn, loopVars, taskVars, writerVars>>

-----------------------------------------------------------------------------
(* The main loop                                                           *)

Aborted(ids) == [i \in Id |-> IF i \in ids /\ task[i].st \in Live
                              THEN [task[i] EXCEPT !.st = "aborted"] ELSE task[i]]

\* Mutant: the entry goes, the task is left to itself.
remove_only(ids) == streams' = streams \ ids /\ UNCHANGED task

\* remove_stream and close_all: the entry goes, and its task with it.
remove(ids) == streams' = streams \ ids /\ task' = Aborted(streams \cap ids)

Waits == main.at = "loop" /\ inbuf = <<>>

Reads ==
  /\ Waits /\ stdin # <<>>
  /\ inbuf' = stdin /\ stdin' = <<>>
  /\ UNCHANGED <<outbound, eof, stdout, taken, sentIn, main, streams, taskVars, writerVars>>

Stops == Waits /\ main' = [Loop EXCEPT !.at = "close"]
             /\ UNCHANGED <<clientVars, inbuf, streams, taskVars, writerVars>>

MeetsEof == eof /\ stdin = <<>> /\ Stops

\* The deadline, which only decoded frames push back; it may be taken although
\* bytes have arrived in the meantime.
IsIdle == IdleTimeout /\ Stops

\* handle_stream_event, for a task that failed.
HandlesEvent ==
  /\ Waits /\ events # <<>>
  /\ LET e == Head(events) IN
     /\ remove({e.i})
     /\ main' = IF e.k = "broken" THEN Sending(Frame("Reset", e.i), "loop") ELSE main
  /\ events' = Tail(events)
  /\ UNCHANGED <<clientVars, inbuf, writerVars>>

Handles(kind) ==
  main.at = "loop" /\ inbuf # <<>> /\ Head(inbuf).k = kind /\ inbuf' = Tail(inbuf)

Replies(f, then) == main' = Sending(f, then)
Quiet == UNCHANGED <<clientVars, events, writerVars>>

\* A new session: HelloAck{resumed = false} after every old stream is gone. It
\* ends at once when there is no writer for the answer.
HandlesHello ==
  /\ Handles("Hello")
  /\ remove(streams)
  /\ Replies(Frame("HelloAck", 0), "hello")
  /\ Quiet

\* Another version is told so, and the session ends.
HandlesForeign ==
  /\ Handles("Foreign")
  /\ Replies(Frame("HelloAck", 0), "close")
  /\ UNCHANGED <<streams, task>> /\ Quiet

HandlesJunk ==
  /\ Handles("Junk")
  /\ main' = [Loop EXCEPT !.at = "close"]
  /\ UNCHANGED <<streams, task>> /\ Quiet

HandlesPing ==
  /\ Handles("Ping")
  /\ Replies(Frame("Pong", 0), "loop")
  /\ UNCHANGED <<streams, task>> /\ Quiet

\* A duplicate, too many, a target that the allow list refuses; or a new task.
HandlesOpen ==
  /\ Handles("Open")
  /\ LET i == Head(inbuf).i IN
     \/ /\ i \in streams \/ Cardinality(streams) >= MAX_STREAMS \/ i \in Denied
        /\ Replies(Frame("OpenErr", i), "loop") /\ UNCHANGED <<streams, task>>
     \/ /\ i \notin streams /\ Cardinality(streams) < MAX_STREAMS
        /\ streams' = streams \cup {i}
        /\ task' = [task EXCEPT ![i] = [NoTask EXCEPT !.st = "dial", !.up = IF i \in Talks THEN MaxUp ELSE 0]]
        /\ UNCHANGED main
  /\ Quiet

HandlesData ==
  /\ Handles("Data")
  /\ LET i == Head(inbuf).i IN
     main' = IF i \notin streams THEN Sending(Frame("Reset", i), "loop")
             ELSE [Loop EXCEPT !.at = "down", !.arg = Frame("Data", i)]
  /\ UNCHANGED <<streams, task>> /\ Quiet

HandlesReset ==
  /\ Handles("Reset")
  /\ remove({Head(inbuf).i})
  /\ UNCHANGED main /\ Quiet

\* state.downlink.send(..).await: room in the queue, or the task has returned.
SendsDown ==
  /\ main.at = "down"
  /\ LET i == main.arg.i IN
     IF task[i].st \in Live
     THEN /\ task[i].down < DOWNLINK_QUEUE
          /\ task' = [task EXCEPT ![i].down = @ + 1]
          /\ main' = Loop
          /\ UNCHANGED streams
     ELSE remove({i}) /\ Replies(Frame("Reset", i), "loop")
  /\ UNCHANGED <<clientVars, inbuf, events, writerVars>>

\* frames.send(f).await: room in the queue, or no writer to send to.
Submit(f) ==
  /\ Len(frames) < FRAME_QUEUE \/ writer = "over"
  /\ IF writer = "over" THEN UNCHANGED writerVars
     ELSE /\ frames' = Append(frames, f) /\ submitted' = Append(submitted, f)
          /\ UNCHANGED <<batch, writer>>

Sends ==
  /\ main.at = "send"
  /\ Submit(main.arg)
  /\ main' = [Loop EXCEPT !.at = IF main.then # "hello" THEN main.then
                                 ELSE IF writer = "on" THEN "loop" ELSE "close"]
  /\ UNCHANGED <<clientVars, inbuf, streams, taskVars>>


\* close_all and the drop of the main loop's senders.
Closes ==
  /\ main.at = "close"
  /\ remove(streams)
  /\ main' = [Loop EXCEPT !.at = "join"]
  /\ UNCHANGED <<clientVars, inbuf, events, writerVars>>

Joins ==
  /\ main.at = "join" /\ writer = "over"
  /\ main' = [Loop EXCEPT !.at = "gone"]
  /\ UNCHANGED <<clientVars, inbuf, streams, taskVars, writerVars>>

MainLoop ==
  \/ Reads \/ MeetsEof \/ HandlesEvent \/ HandlesHello \/ HandlesForeign \/ HandlesJunk
  \/ HandlesPing \/ HandlesOpen \/ HandlesData \/ HandlesReset \/ SendsDown \/ Sends
  \/ Closes \/ Joins

-----------------------------------------------------------------------------
(* The writer                                                              *)

\* Every frame of the queue goes into one write.
Encodes ==
  /\ writer = "on" /\ batch = <<>> /\ frames # <<>>
  /\ batch' = frames /\ frames' = <<>>
  /\ UNCHANGED <<clientVars, loopVars, taskVars, writer, submitted>>

Writes ==
  /\ batch # <<>> /\ Len(stdout) < PipeCap
  /\ stdout' = Append(stdout, Head(batch)) /\ batch' = Tail(batch)
  /\ UNCHANGED <<outbound, stdin, eof, taken, sentIn, loopVars, taskVars,
                 frames, writer, submitted>>

\* recv returns None: no frame is left, and no sender.
WriterEnds ==
  /\ writer = "on" /\ batch = <<>> /\ frames = <<>>
  /\ main.at = "join" /\ \A i \in Id : task[i].st \notin Live
  /\ writer' = "over"
  /\ UNCHANGED <<clientVars, loopVars, taskVars, frames, batch, submitted>>

\* write_all fails: the channel is gone in this direction.
WriteFails ==
  /\ writer = "on" /\ batch # <<>>
  /\ writer' = "over" /\ batch' = <<>> /\ frames' = <<>> /\ submitted' = stdout
  /\ UNCHANGED <<clientVars, loopVars, taskVars>>

Writer == Encodes \/ Writes \/ WriterEnds

-----------------------------------------------------------------------------
(* The task of a stream                                                    *)

Is(i, st) == task[i].st = st
To(i, st) == task' = [task EXCEPT ![i].st = st]

\* What a task does after frames.send: it returns, silently, when there is no
\* writer any more.
Goes(i, st) == To(i, IF writer = "on" THEN st ELSE "over")

Reports(i, kind) ==
  Len(events) < EventQueue /\ events' = Append(events, [k |-> kind, i |-> i])

\* The connection is made, or it fails or takes too long.
Dials(i) ==
  /\ Is(i, "dial") /\ \E st \in {"opened", "refused"} : To(i, st)
  /\ UNCHANGED <<clientVars, loopVars, events, writerVars>>

\* Mutant: a refusal only ends the task.
TellsOpenOnly(i) ==
  \/ /\ Is(i, "opened") /\ Submit(Frame("OpenOk", i)) /\ Goes(i, "run")
     /\ UNCHANGED <<clientVars, loopVars, events>>
  \/ /\ Is(i, "refused") /\ To(i, "failed")
     /\ UNCHANGED <<clientVars, loopVars, events, writerVars>>

TellsOpen(i) ==
  \/ /\ Is(i, "opened") /\ Submit(Frame("OpenOk", i)) /\ Goes(i, "run")
     /\ UNCHANGED <<clientVars, loopVars, events>>
  \/ /\ Is(i, "refused") /\ Submit(Frame("OpenErr", i)) /\ To(i, "failed")
     /\ UNCHANGED <<clientVars, loopVars, events>>

\* Failed, without a Reset after an OpenErr and with one after an I/O error.
TellsEnd(i) ==
  /\ task[i].st \in {"failed", "broken"} /\ Reports(i, task[i].st) /\ To(i, "over")
  /\ UNCHANGED <<clientVars, loopVars, writerVars>>

Breaks(i) ==
  /\ Is(i, "run") /\ To(i, "broken")
  /\ UNCHANGED <<clientVars, loopVars, events, writerVars>>

\* downlink_loop: a write to the egress socket, then the Ack.
WritesDown(i) ==
  \/ /\ Is(i, "run") /\ task[i].down > 0 /\ ~task[i].ack
     /\ task' = [task EXCEPT ![i].down = @ - 1, ![i].ack = TRUE]
     /\ UNCHANGED <<clientVars, loopVars, events, writerVars>>
  \/ /\ Is(i, "run") /\ task[i].ack
     /\ Submit(Frame("Ack", i))
     /\ task' = [task EXCEPT ![i].ack = FALSE, ![i].st = IF writer = "on" THEN @ ELSE "over"]
     /\ UNCHANGED <<clientVars, loopVars, events>>

\* uplink: bytes of the egress peer, as a Data.
SendsUp(i) ==
  /\ Is(i, "run") /\ task[i].up > 0
  /\ Submit(Frame("Data", i))
  /\ task' = [task EXCEPT ![i].up = @ - 1, ![i].st = IF writer = "on" THEN @ ELSE "over"]
  /\ UNCHANGED <<clientVars, loopVars, events>>

Runs(i) == Dials(i) \/ TellsOpen(i) \/ TellsEnd(i) \/ WritesDown(i)

-----------------------------------------------------------------------------

Client == ClientSubmits \/ ClientFlushes \/ ClientReads \/ ClientCloses

Next == Client \/ MainLoop \/ IsIdle \/ Writer \/ WriteFails \/ \E i \in Id : Runs(i) \/ Breaks(i) \/ SendsUp(i)

Spec == Init /\ [][Next]_vars

\* The tasks run, the egress peers read, and the client flushes and reads what
\* it may. The idle timeout need not expire and the client need not close.
FairSpec ==
  /\ Spec
  /\ WF_vars(ClientFlushes) /\ WF_vars(ClientReads)
  /\ WF_vars(MainLoop) /\ WF_vars(Writer)
  /\ \A i \in Id : WF_vars(Runs(i))

-----------------------------------------------------------------------------
(* Properties                                                              *)

\* No egress connection outlives its entry, so the limit on entries is one on
\* connections.
DirectoryHolds ==
  /\ {i \in Id : task[i].st \in Live} \subseteq streams
  /\ IsFiniteSet(streams) /\ Cardinality(streams) <= MAX_STREAMS

\* Whatever entered the queue of the writer is on its way to the client in that
\* order, all of it when the process leaves, which it does after its writer.
QueueHolds ==
  /\ stdout \o batch \o frames = submitted
  /\ main.at = "gone" => writer = "over"
  /\ writer = "over" => batch = <<>> /\ frames = <<>>

\* Both, and types.
SessionInv == TypeOK /\ DirectoryHolds /\ QueueHolds


\* Every Open is answered, one that is refused at once as well as one that is
\* dialled, unless its task is aborted (the client takes the stream back, or the
\* session ends) or stdout is broken.
OpenAnswered ==
  \A i \in Id : main.at = "loop" /\ inbuf # <<>> /\ Head(inbuf) = Frame("Open", i) ~>
    \/ taken \cap {Frame("OpenOk", i), Frame("OpenErr", i)} # {}
    \/ Is(i, "aborted") \/ writer = "over"

\* "a slow egress blocks neither other streams nor the control frames": every
\* Ping is answered while the session lasts.
PingAnswered ==
  (\E n \in DOMAIN stdin : stdin[n].k = "Ping") ~>
    (Frame("Pong", 0) \in taken \/ main.at \in {"close", "join", "gone"})

=============================================================================
