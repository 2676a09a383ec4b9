------------------------ MODULE HelperSession_proofs -------------------------
(***************************************************************************)
(* For every set of ids, every limit and every length of the queues: no    *)
(* egress connection of the helper outlives its entry of the directory,    *)
(* and what entered the writer's queue reaches stdout in that order.       *)
(***************************************************************************)
EXTENDS HelperSession, SequenceTheorems, FiniteSetTheorems, TLAPS

-----------------------------------------------------------------------------
(* Sequences.                                                              *)

\* Taking the head of a queue.
LEMMA QueueTail ==
  ASSUME NEW S, NEW s \in Seq(S), s # <<>>
  PROVE  /\ Head(s) \in S /\ Tail(s) \in Seq(S) /\ Len(s) \in Nat
         /\ Len(Tail(s)) = Len(s) - 1 /\ Len(Tail(s)) < Len(s)
         /\ s = <<Head(s)>> \o Tail(s)
<1>1. Head(s) \in S /\ Tail(s) \in Seq(S) /\ Len(Tail(s)) = Len(s) - 1 /\ Len(s) \in Nat
  BY HeadTailProperties, LenProperties
<1>2. s = <<Head(s)>> \o Tail(s)
  <2>1. <<Head(s)>> \in Seq(S) /\ Len(<<Head(s)>>) = 1
    BY <1>1
  <2>2. Len(<<Head(s)>> \o Tail(s)) = Len(s)
    BY <1>1, <2>1, ConcatProperties
  <2>3. \A i \in 1 .. Len(s) : (<<Head(s)>> \o Tail(s))[i] = s[i]
    BY <1>1, <2>1, ConcatProperties, HeadTailProperties
  <2> QED
    BY <1>1, <2>1, <2>2, <2>3, SeqEqual, ConcatProperties
<1> QED
  BY <1>1, <1>2

\* Adding to a queue.
LEMMA QueueAppend ==
  ASSUME NEW S, NEW s \in Seq(S), NEW x \in S
  PROVE  /\ Append(s, x) \in Seq(S) /\ Len(Append(s, x)) = Len(s) + 1
         /\ Append(s, x) = s \o <<x>> /\ Len(s) \in Nat
BY AppendProperties, AppendIsConcat, LenProperties

\* The reader of a pipeline of three queues takes what is first in it.
LEMMA PipelineTake ==
  ASSUME NEW S, NEW a \in Seq(S), NEW b \in Seq(S), NEW c \in Seq(S), a # <<>>
  PROVE  (Tail(a) \o b) \o c = Tail((a \o b) \o c)
<1>1. /\ Head(a) \in S /\ Tail(a) \in Seq(S) /\ a = <<Head(a)>> \o Tail(a)
      /\ <<Head(a)>> \in Seq(S)
  BY QueueTail
<1> DEFINE rest == (Tail(a) \o b) \o c
<1>2. rest \in Seq(S) /\ Tail(a) \o b \in Seq(S)
  BY <1>1, ConcatProperties
<1>3. (a \o b) \o c = <<Head(a)>> \o rest
  BY <1>1, <1>2, ConcatAssociative
<1> HIDE DEF rest
<1>4. Tail(<<Head(a)>> \o rest) = rest
  BY <1>1, <1>2
<1> QED
  BY <1>3, <1>4 DEF rest

\* What moves inside it does not change what is in it, and what is put into its
\* last queue is last in it.
LEMMA Pipeline ==
  ASSUME NEW S, NEW a \in Seq(S), NEW b \in Seq(S), NEW c \in Seq(S)
  PROVE  /\ (a \o b) \o c \in Seq(S)
         /\ (a \o <<>>) \o c = (a \o c) \o <<>>
         /\ b # <<>> => (Append(a, Head(b)) \o Tail(b)) \o c = (a \o b) \o c
         /\ \A x \in S : (a \o b) \o Append(c, x) = Append((a \o b) \o c, x)
         /\ (a \o <<>>) \o <<>> = a
<1>1. /\ (a \o b) \o c \in Seq(S) /\ a \o b \in Seq(S) /\ a \o c \in Seq(S)
      /\ b \o c \in Seq(S) /\ a \o (b \o c) \in Seq(S)
  BY ConcatProperties
<1>2. a \o <<>> = a /\ (a \o c) \o <<>> = a \o c
  BY <1>1, ConcatEmptySeq
<1>3. ASSUME b # <<>> PROVE Append(a, Head(b)) \o Tail(b) = a \o b
  <2>1. /\ Head(b) \in S /\ Tail(b) \in Seq(S) /\ b = <<Head(b)>> \o Tail(b)
        /\ <<Head(b)>> \in Seq(S)
    BY <1>3, QueueTail
  <2>2. Append(a, Head(b)) = a \o <<Head(b)>>
    BY <2>1, QueueAppend
  <2> QED
    BY <2>1, <2>2, ConcatAssociative
<1>5. ASSUME NEW x \in S PROVE (a \o b) \o Append(c, x) = Append((a \o b) \o c, x)
  <2>1. Append(c, x) = c \o <<x>> /\ <<x>> \in Seq(S)
    BY QueueAppend
  <2>2. Append((a \o b) \o c, x) = ((a \o b) \o c) \o <<x>>
    BY <1>1, QueueAppend
  <2> QED
    BY <1>1, <2>1, <2>2, ConcatAssociative
<1> QED
  BY <1>1, <1>2, <1>3, <1>5

-----------------------------------------------------------------------------
(* Frames and tasks.                                                       *)

\* The frames the helper and the client make are of their types.
LEMMA FrameTypes ==
  /\ \A f \in ClientFrame : f.k \in {"Open", "Data", "Reset"} => f.i \in Id
  /\ \A k \in {"HelloAck", "Pong"} : Frame(k, 0) \in HelperFrame
  /\ \A k \in {"OpenOk", "OpenErr", "Data", "Ack", "Reset"}, i \in Id :
       Frame(k, i) \in HelperFrame /\ Frame(k, i).i = i
BY DEF ClientFrame, HelperFrame, Frame

\* What the main loop turns to is of its type.
LEMMA MainTypes ==
  /\ Loop \in Main /\ Loop.at = "loop"
  /\ \A at \in {"loop", "close", "join", "gone"} :
       [Loop EXCEPT !.at = at] \in Main /\ [Loop EXCEPT !.at = at].at = at
  /\ \A f \in HelperFrame, then \in {"loop", "hello", "close"} :
       /\ Sending(f, then) \in Main /\ Sending(f, then).at = "send"
       /\ Sending(f, then).arg = f
  /\ \A i \in Id : /\ [Loop EXCEPT !.at = "down", !.arg = Frame("Data", i)] \in Main
                   /\ [Loop EXCEPT !.at = "down", !.arg = Frame("Data", i)].at = "down"
                   /\ [Loop EXCEPT !.at = "down", !.arg = Frame("Data", i)].arg.i = i
BY DEF Loop, Main, Sending, Frame, HelperFrame

\* A task that is updated in one field is a task, and lives if its state says so.
LEMMA TaskTypes ==
  ASSUME NEW t \in Task
  PROVE  /\ \A st \in Live \cup {"none", "over", "aborted"} :
              [t EXCEPT !.st = st] \in Task /\ [t EXCEPT !.st = st].st = st
         /\ \A d \in 0 .. DOWNLINK_QUEUE, a \in BOOLEAN :
              /\ [t EXCEPT !.down = d] \in Task /\ [t EXCEPT !.down = d].st = t.st
              /\ [t EXCEPT !.down = d, !.ack = a] \in Task
              /\ [t EXCEPT !.down = d, !.ack = a].st = t.st
         /\ \A st \in Live \cup {"none", "over", "aborted"}, a \in BOOLEAN, u \in 0 .. MaxUp :
              /\ [t EXCEPT !.ack = a, !.st = st] \in Task /\ [t EXCEPT !.ack = a, !.st = st].st = st
              /\ [t EXCEPT !.up = u, !.st = st] \in Task /\ [t EXCEPT !.up = u, !.st = st].st = st
BY DEF Task

-----------------------------------------------------------------------------
(* The directory.                                                          *)

\* A step that gives one task another state, not to a living one from a dead one.
LEMMA TaskStep ==
  ASSUME TypeOK, DirectoryHolds, NEW i \in Id, NEW t \in Task,
         task' = [task EXCEPT ![i] = t], streams' = streams,
         t.st \in Live => task[i].st \in Live
  PROVE  /\ task' \in [Id -> Task] /\ streams' \subseteq Id
         /\ DirectoryHolds'
<1>1. task' \in [Id -> Task] /\ streams' \subseteq Id
  BY DEF TypeOK
<1>2. \A j \in Id : task'[j].st \in Live => task[j].st \in Live
  BY DEF TypeOK
<1> QED
  BY <1>1, <1>2 DEF DirectoryHolds

\* remove_stream and close_all take the tasks with the entries.
LEMMA RemoveStep ==
  ASSUME TypeOK, DirectoryHolds, NEW ids, remove(ids)
  PROVE  /\ task' \in [Id -> Task] /\ streams' \subseteq Id
         /\ DirectoryHolds'
<1>1. "aborted" \notin Live
  BY DEF Live
<1>2. ASSUME NEW j \in Id
      PROVE  /\ task'[j] \in Task
             /\ task'[j].st \in Live => j \in streams /\ j \notin ids
  <2>1. task[j] \in Task /\ (task[j].st \in Live => j \in streams)
    BY DEF TypeOK, DirectoryHolds
  <2>2. task'[j] = IF j \in streams \cap ids /\ task[j].st \in Live
                   THEN [task[j] EXCEPT !.st = "aborted"] ELSE task[j]
    BY DEF remove, Aborted
  <2>3. CASE j \in streams \cap ids /\ task[j].st \in Live
    <3>1. task'[j] = [task[j] EXCEPT !.st = "aborted"]
      BY <2>2, <2>3
    <3>2. task'[j] \in Task /\ task'[j].st = "aborted"
      BY <2>1, <3>1 DEF Task
    <3> QED
      BY <1>1, <3>2
  <2>4. CASE ~(j \in streams \cap ids /\ task[j].st \in Live)
    BY <2>1, <2>2, <2>4
  <2> QED
    BY <2>3, <2>4
<1>3. task' \in [Id -> Task] /\ streams' = streams \ ids /\ streams' \subseteq Id
  BY <1>2 DEF remove, Aborted, TypeOK
<1>4. IsFiniteSet(streams') /\ Cardinality(streams') <= MAX_STREAMS
  <2>1. IsFiniteSet(streams) /\ Cardinality(streams) <= MAX_STREAMS /\ streams' \subseteq streams
    BY <1>3 DEF DirectoryHolds
  <2>2. Cardinality(streams') <= Cardinality(streams) /\ IsFiniteSet(streams')
    BY <2>1, FS_Subset
  <2>3. Cardinality(streams) \in Nat /\ Cardinality(streams') \in Nat /\ MAX_STREAMS \in Nat
    BY <2>1, <2>2, FS_CardinalityType, SessionAssumption
  <2> QED
    BY <2>1, <2>2, <2>3
<1> QED
  BY <1>2, <1>3, <1>4 DEF DirectoryHolds

\* A new entry is within the limit, and its task is the only one that comes alive.
LEMMA OpenStep ==
  ASSUME TypeOK, DirectoryHolds, NEW i \in Id, i \notin streams,
         Cardinality(streams) < MAX_STREAMS, NEW t \in Task,
         streams' = streams \cup {i}, task' = [task EXCEPT ![i] = t]
  PROVE  /\ task' \in [Id -> Task] /\ streams' \subseteq Id
         /\ DirectoryHolds'
<1>1. task' \in [Id -> Task] /\ streams' \subseteq Id
  BY DEF TypeOK
<1>2. \A j \in Id : task'[j].st \in Live => j = i \/ task[j].st \in Live
  BY DEF TypeOK
<1>3. IsFiniteSet(streams) /\ Cardinality(streams) \in Nat /\ MAX_STREAMS \in Nat
  BY FS_CardinalityType, SessionAssumption DEF DirectoryHolds
<1>4. IsFiniteSet(streams') /\ Cardinality(streams') = Cardinality(streams) + 1
  BY <1>3, FS_AddElement
<1> QED
  BY <1>1, <1>2, <1>3, <1>4 DEF DirectoryHolds

-----------------------------------------------------------------------------
(* The way to stdout.                                                      *)

\* What the variables of the writer may be.
Outgoing ==
  /\ stdout \in Seq(HelperFrame) /\ batch \in Seq(HelperFrame)
  /\ frames \in Seq(HelperFrame) /\ submitted \in Seq(HelperFrame)
  /\ Len(stdout) <= PipeCap /\ Len(frames) <= FRAME_QUEUE
  /\ writer \in {"on", "over"}
  /\ stdout \o batch \o frames = submitted
  /\ writer = "over" => batch = <<>> /\ frames = <<>>

\* They are that in every state of the invariant.
LEMMA OutgoingHolds ==
  ASSUME TypeOK, QueueHolds
  PROVE  Outgoing
BY DEF TypeOK, QueueHolds, Outgoing

\* frames.send puts the frame behind all others, or there is no writer.
LEMMA SubmitStep ==
  ASSUME Outgoing, NEW f \in HelperFrame, Submit(f), stdout' = stdout
  PROVE  Outgoing' /\ writer' = writer
<1>1. CASE writer = "over"
  BY <1>1 DEF Submit, Outgoing, writerVars
<1>2. CASE writer # "over"
  <2>1. /\ frames' = Append(frames, f) /\ submitted' = Append(submitted, f)
        /\ batch' = batch /\ writer' = writer /\ Len(frames) < FRAME_QUEUE
    BY <1>2 DEF Submit
  <2>2. frames' \in Seq(HelperFrame) /\ submitted' \in Seq(HelperFrame)
    BY <2>1, QueueAppend DEF Outgoing
  <2>3. Len(frames') <= FRAME_QUEUE
    BY <2>1, QueueAppend, SessionAssumption DEF Outgoing
  <2>5. (stdout \o batch) \o Append(frames, f) = Append((stdout \o batch) \o frames, f)
    BY Pipeline DEF Outgoing
  <2>4. stdout' \o batch' \o frames' = submitted'
    BY <2>1, <2>5 DEF Outgoing
  <2> QED
    BY <1>2, <2>1, <2>2, <2>3, <2>4 DEF Outgoing
<1> QED
  BY <1>1, <1>2

\* The writer moves frames on, and the client takes the first.
LEMMA WriterStep ==
  ASSUME Outgoing, Encodes \/ Writes \/ WriterEnds \/ WriteFails \/ ClientReads
  PROVE  Outgoing' /\ (writer = "over" => writer' = "over")
<1> USE DEF Outgoing
<1>0. <<>> \in Seq(HelperFrame) /\ Len(<<>>) = 0 /\ FRAME_QUEUE \in Nat /\ PipeCap \in Nat
  BY EmptySeq, SessionAssumption
<1>1. CASE Encodes
  <2>1. batch = <<>> /\ batch' = frames /\ frames' = <<>> /\ UNCHANGED <<stdout, writer, submitted>>
        /\ writer = "on"
    BY <1>1 DEF Encodes, clientVars
  <2>2. stdout' \o batch' \o frames' = submitted'
    BY <2>1, Pipeline
  <2> QED
    BY <1>0, <2>1, <2>2
<1>2. CASE Writes
  <2>1. /\ batch # <<>> /\ stdout' = Append(stdout, Head(batch)) /\ batch' = Tail(batch)
        /\ Len(stdout) < PipeCap /\ UNCHANGED <<frames, writer, submitted>>
    BY <1>2 DEF Writes
  <2>2. Head(batch) \in HelperFrame /\ Tail(batch) \in Seq(HelperFrame)
    BY <2>1, QueueTail
  <2>3. stdout' \in Seq(HelperFrame) /\ Len(stdout') <= PipeCap
    BY <1>0, <2>1, <2>2, QueueAppend
  <2>5. (Append(stdout, Head(batch)) \o Tail(batch)) \o frames = (stdout \o batch) \o frames
    <3>1. stdout \in Seq(HelperFrame) /\ batch \in Seq(HelperFrame) /\ frames \in Seq(HelperFrame)
      OBVIOUS
    <3> HIDE DEF Outgoing
    <3>2. batch # <<>>
      BY <2>1
    <3> QED
      BY <3>1, <3>2, Pipeline
  <2>4. stdout' \o batch' \o frames' = submitted'
    BY <2>1, <2>5
  <2> QED
    BY <2>1, <2>2, <2>3, <2>4
<1>3. CASE WriterEnds
  BY <1>3 DEF WriterEnds, clientVars
<1>4. CASE WriteFails
  <2>1. batch' = <<>> /\ frames' = <<>> /\ stdout' = stdout /\ submitted' = stdout /\ writer' = "over"
    BY <1>4 DEF WriteFails, clientVars
  <2>3. (stdout \o <<>>) \o <<>> = stdout
    BY <1>0, Pipeline
  <2>4. stdout' \o batch' \o frames' = (stdout \o <<>>) \o <<>>
    BY <2>1
  <2>2. stdout' \o batch' \o frames' = submitted'
    BY <2>1, <2>3, <2>4
  <2> QED
    BY <1>0, <2>1, <2>2
<1>5. CASE ClientReads
  <2>1. /\ stdout # <<>> /\ stdout' = Tail(stdout) /\ submitted' = Tail(submitted)
        /\ UNCHANGED <<frames, batch, writer>>
    BY <1>5 DEF ClientReads
  <2>2. stdout' \in Seq(HelperFrame) /\ Len(stdout') <= PipeCap
    BY <1>0, <2>1, QueueTail
  <2>5. (Tail(stdout) \o batch) \o frames = Tail((stdout \o batch) \o frames)
    <3>1. stdout \in Seq(HelperFrame) /\ batch \in Seq(HelperFrame) /\ frames \in Seq(HelperFrame)
      OBVIOUS
    <3> HIDE DEF Outgoing
    <3> QED
      BY <2>1, <3>1, PipelineTake
  <2>3. stdout' \o batch' \o frames' = submitted'
    BY <2>1, <2>5
  <2>4. submitted' \in Seq(HelperFrame)
    BY <2>1, <2>2, <2>3, ConcatProperties
  <2> QED
    BY <2>1, <2>2, <2>3, <2>4
<1> QED
  BY <1>1, <1>2, <1>3, <1>4, <1>5

-----------------------------------------------------------------------------
(* The steps.                                                              *)

\* SessionInv in terms of the parts that the steps share.
Rest ==
  /\ outbound \in Seq(ClientFrame) /\ stdin \in Seq(ClientFrame) /\ inbuf \in Seq(ClientFrame)
  /\ Len(outbound) <= 1 /\ Len(stdin) <= PipeCap
  /\ sentIn \in 0 .. MaxIn /\ eof \in BOOLEAN
  /\ events \in Seq(Report) /\ Len(events) <= EventQueue

MainHolds ==
  /\ main \in Main
  /\ main.at = "send" => main.arg \in HelperFrame
  /\ main.at = "down" => main.arg.i \in Id
  /\ main.at = "gone" => writer = "over"

Directory == streams \subseteq Id /\ task \in [Id -> Task] /\ DirectoryHolds

\* The invariant, in the parts that a step disturbs separately.
LEMMA SessionInvIs == SessionInv <=> Rest /\ MainHolds /\ Directory /\ Outgoing
BY DEF SessionInv, TypeOK, QueueHolds, Rest, MainHolds, Directory, Outgoing

\* Everything is empty at the start.
LEMMA SessionStarts == Init => SessionInv
<1> SUFFICES ASSUME Init PROVE SessionInv
  OBVIOUS
<1>0. /\ <<>> \in Seq(ClientFrame) /\ <<>> \in Seq(HelperFrame) /\ Len(<<>>) = 0
      /\ <<>> \in Seq(Report)
  BY EmptySeq
<1>1. /\ PipeCap \in Nat /\ EventQueue \in Nat /\ FRAME_QUEUE \in Nat /\ DOWNLINK_QUEUE \in Nat
      /\ MAX_STREAMS \in Nat /\ MaxIn \in Nat /\ MaxUp \in Nat
  BY SessionAssumption
<1>2. Rest
  <2>1. sentIn = 0 /\ eof = FALSE
    BY DEF Init
  <2>2. outbound = <<>> /\ stdin = <<>> /\ inbuf = <<>> /\ events = <<>>
    BY DEF Init
  <2>3. sentIn \in 0 .. MaxIn
    BY <1>1, <2>1
  <2>4. eof \in BOOLEAN
    BY <2>1
  <2>5. /\ outbound \in Seq(ClientFrame) /\ stdin \in Seq(ClientFrame)
        /\ inbuf \in Seq(ClientFrame) /\ events \in Seq(Report)
    BY <1>0, <2>2
  <2>6. Len(outbound) <= 1 /\ Len(stdin) <= PipeCap /\ Len(events) <= EventQueue
    BY <1>0, <1>1, <2>2
  <2> QED
    BY <2>3, <2>4, <2>5, <2>6 DEF Rest
<1>3. MainHolds
  BY MainTypes DEF Init, MainHolds
<1>4. Directory
  <2>1. NoTask \in Task /\ NoTask.st = "none" /\ "none" \notin Live
    BY <1>1 DEF NoTask, Task, Live
  <2> QED
    BY <1>1, <2>1, FS_EmptySet DEF Init, Directory, DirectoryHolds
<1>5. Outgoing
  <2>1. (<<>> \o <<>>) \o <<>> = <<>>
    BY <1>0, Pipeline
  <2> QED
    BY <1>0, <1>1, <2>1 DEF Init, Outgoing
<1> QED
  BY <1>2, <1>3, <1>4, <1>5, SessionInvIs

\* Parts whose variables stay.
LEMMA RestStays ==
  Rest /\ UNCHANGED <<outbound, stdin, inbuf, sentIn, eof, events>> => Rest'
BY DEF Rest

\* What is said of the main loop is of it and of the writer only.
LEMMA MainStays ==
  MainHolds /\ UNCHANGED main /\ (writer = "over" => writer' = "over") => MainHolds'
BY DEF MainHolds

\* The directory and the tasks.
LEMMA DirectoryStays == Directory /\ UNCHANGED <<streams, task>> => Directory'
BY DEF Directory, DirectoryHolds

\* The way to stdout.
LEMMA OutgoingStays ==
  Outgoing /\ UNCHANGED <<stdout, batch, frames, submitted, writer>> => Outgoing'
BY DEF Outgoing

\* A client that writes, reads and closes.
LEMMA ClientKeeps ==
  ASSUME SessionInv, ClientSubmits \/ ClientFlushes \/ ClientCloses \/ ClientReads
  PROVE  SessionInv'
<1> USE DEF clientVars, loopVars, taskVars, writerVars
<1>0. Rest /\ MainHolds /\ Directory /\ Outgoing
  BY SessionInvIs
<1>1. UNCHANGED <<main, streams, task, inbuf, events>> /\ MainHolds' /\ Directory' /\ Outgoing'
  <2>1. UNCHANGED <<main, streams, task, inbuf, events, writer>>
    BY DEF ClientSubmits, ClientFlushes, ClientCloses, ClientReads
  <2>2. Outgoing'
    <3>1. CASE ClientReads
      BY <1>0, <3>1, WriterStep
    <3>2. CASE ~ClientReads
      <4>1. UNCHANGED <<stdout, batch, frames, submitted, writer>>
        BY <3>2 DEF ClientSubmits, ClientFlushes, ClientCloses
      <4> QED
        BY <1>0, <4>1, OutgoingStays
    <3> QED
      BY <3>1, <3>2
  <2> QED
    BY <1>0, <2>1, <2>2, MainStays, DirectoryStays
<1>2. Rest'
  <2>1. CASE ClientSubmits
    <3>1. PICK f \in ClientFrame : outbound' = <<f>>
      BY <2>1 DEF ClientSubmits
    <3>2. outbound' \in Seq(ClientFrame) /\ Len(outbound') = 1
      BY <3>1
    <3>3. sentIn' \in 0 .. MaxIn
      BY <1>0, <2>1, SessionAssumption DEF ClientSubmits, Rest
    <3> QED
      BY <1>0, <1>1, <2>1, <3>2, <3>3 DEF ClientSubmits, Rest
  <2>2. CASE ClientFlushes
    <3>1. /\ stdin' = stdin \o outbound /\ outbound' = <<>> /\ Len(stdin) < PipeCap
          /\ UNCHANGED <<sentIn, eof>>
      BY <2>2 DEF ClientFlushes
    <3>2. stdin' \in Seq(ClientFrame) /\ Len(stdin') = Len(stdin) + Len(outbound)
      BY <1>0, <3>1, ConcatProperties DEF Rest
    <3>3. Len(stdin) \in Nat /\ Len(outbound) \in Nat /\ Len(outbound) <= 1 /\ PipeCap \in Nat
      BY <1>0, LenProperties, SessionAssumption DEF Rest
    <3>4. Len(stdin') <= PipeCap /\ outbound' \in Seq(ClientFrame) /\ Len(outbound') <= 1
      BY <3>1, <3>2, <3>3, EmptySeq
    <3> QED
      BY <1>0, <1>1, <3>1, <3>2, <3>4 DEF Rest
  <2>3. CASE ClientCloses \/ ClientReads
    BY <1>0, <1>1, <2>3 DEF ClientCloses, ClientReads, Rest
  <2> QED
    BY <2>1, <2>2, <2>3
<1> QED
  BY <1>1, <1>2 DEF SessionInv, TypeOK, QueueHolds, Rest, MainHolds, Directory, Outgoing

\* The main loop takes what has arrived.
LEMMA ReadsKeep ==
  ASSUME SessionInv, Reads
  PROVE  SessionInv'
<1>0. Rest /\ MainHolds /\ Directory /\ Outgoing
  BY SessionInvIs
<1>1. UNCHANGED <<main, streams, task, outbound, eof, sentIn, events, stdout, batch, frames,
                  submitted, writer>>
  BY DEF Reads, taskVars, writerVars
<1>2. Rest'
  <2>1. stdin' = <<>> /\ inbuf' = stdin
    BY DEF Reads
  <2>2. stdin' \in Seq(ClientFrame) /\ Len(stdin') = 0 /\ PipeCap \in Nat
    BY <2>1, EmptySeq, SessionAssumption
  <2> QED
    BY <1>0, <1>1, <2>1, <2>2 DEF Rest
<1> QED
  BY <1>0, <1>1, <1>2, MainStays, DirectoryStays, OutgoingStays
     DEF SessionInv, TypeOK, QueueHolds, Rest, MainHolds, Directory, Outgoing

\* One frame of the client is handled: what the main loop turns to, and what
\* becomes of the directory.
LEMMA HandlesKeep ==
  ASSUME SessionInv, inbuf # <<>>, inbuf' = Tail(inbuf), UNCHANGED <<clientVars, events, writerVars>>,
         MainHolds', Directory'
  PROVE  SessionInv'
<1>0. Rest /\ Outgoing
  BY SessionInvIs
<1>1. Rest'
  <2>1. inbuf' \in Seq(ClientFrame)
    BY <1>0, QueueTail DEF Rest
  <2> QED
    BY <1>0, <2>1 DEF Rest, clientVars
<1>2. Outgoing'
  BY <1>0, OutgoingStays DEF clientVars, writerVars
<1> QED
  BY <1>1, <1>2 DEF SessionInv, TypeOK, QueueHolds, Rest, MainHolds, Directory, Outgoing

\* remove keeps the directory.
LEMMA RemoveKeeps ==
  ASSUME SessionInv, NEW ids, remove(ids)
  PROVE  Directory'
BY RemoveStep DEF SessionInv, Directory

\* Every handler of a frame.
LEMMA HandlersKeep ==
  ASSUME SessionInv,
         \/ HandlesHello \/ HandlesForeign \/ HandlesJunk \/ HandlesPing
         \/ HandlesOpen \/ HandlesData \/ HandlesReset
  PROVE  SessionInv'
<1> USE DEF Handles, Quiet, Replies
<1>0. Rest /\ MainHolds /\ Directory /\ Outgoing
  BY SessionInvIs
<1>1. /\ inbuf # <<>> /\ inbuf' = Tail(inbuf) /\ UNCHANGED <<clientVars, events, writerVars>>
      /\ main.at = "loop"
  BY DEF HandlesHello, HandlesForeign, HandlesJunk, HandlesPing, HandlesOpen, HandlesData,
         HandlesReset
<1>2. Head(inbuf) \in ClientFrame
  BY <1>0, <1>1, QueueTail DEF Rest
<1>3. ASSUME NEW f \in HelperFrame, NEW then \in {"loop", "hello", "close"},
             main' = Sending(f, then)
      PROVE  MainHolds'
  BY <1>3, MainTypes DEF MainHolds
<1>4. UNCHANGED main => MainHolds'
  BY <1>0, <1>1 DEF MainHolds
<1>5. CASE HandlesHello
  BY <1>1, <1>3, <1>5, FrameTypes, RemoveKeeps, HandlesKeep DEF HandlesHello
<1>6. CASE HandlesForeign \/ HandlesPing
  BY <1>0, <1>1, <1>3, <1>6, FrameTypes, DirectoryStays, HandlesKeep DEF HandlesForeign, HandlesPing
<1>7. CASE HandlesJunk
  <2>1. MainHolds'
    BY <1>7, MainTypes DEF HandlesJunk, MainHolds
  <2> QED
    BY <1>0, <1>1, <1>7, <2>1, DirectoryStays, HandlesKeep DEF HandlesJunk
<1>8. CASE HandlesOpen
  <2>1. PICK i \in Id : i = Head(inbuf).i
    BY <1>2, <1>8, FrameTypes DEF HandlesOpen
  <2>2. CASE main' = Sending(Frame("OpenErr", i), "loop") /\ UNCHANGED <<streams, task>>
    BY <1>0, <1>1, <1>3, <2>2, FrameTypes, DirectoryStays, HandlesKeep
  <2>3. CASE /\ i \notin streams /\ Cardinality(streams) < MAX_STREAMS
             /\ streams' = streams \cup {i}
             /\ task' = [task EXCEPT ![i] = [NoTask EXCEPT !.st = "dial", !.up = IF i \in Talks THEN MaxUp ELSE 0]]
             /\ UNCHANGED main
    <3> DEFINE t == [NoTask EXCEPT !.st = "dial", !.up = IF i \in Talks THEN MaxUp ELSE 0]
    <3>1. streams' = streams \cup {i} /\ task' = [task EXCEPT ![i] = t] /\ UNCHANGED main
      BY <2>3
    <3>2. t \in Task
      <4>1. MaxUp \in 0 .. MaxUp /\ 0 \in 0 .. MaxUp /\ 0 \in 0 .. DOWNLINK_QUEUE
        BY SessionAssumption
      <4>2. \A u \in 0 .. MaxUp : [NoTask EXCEPT !.st = "dial", !.up = u] \in Task
        BY <4>1 DEF NoTask, Task, Live
      <4> QED
        BY <4>1, <4>2
    <3> HIDE DEF t
    <3>3. Directory'
      BY <2>3, <3>1, <3>2, OpenStep DEF SessionInv, Directory
    <3> QED
      BY <1>1, <1>4, <3>1, <3>3, HandlesKeep
  <2> QED
    BY <1>8, <2>1, <2>2, <2>3 DEF HandlesOpen
<1>9. CASE HandlesData
  <2>1. PICK i \in Id : i = Head(inbuf).i
    BY <1>2, <1>9, FrameTypes DEF HandlesData
  <2>2. Directory'
    BY <1>0, <1>9, DirectoryStays DEF HandlesData
  <2>3. CASE i \notin streams
    BY <1>1, <1>3, <1>9, <2>1, <2>2, <2>3, FrameTypes, HandlesKeep DEF HandlesData
  <2>4. CASE i \in streams
    <3>1. main' = [Loop EXCEPT !.at = "down", !.arg = Frame("Data", i)]
      BY <1>9, <2>1, <2>4 DEF HandlesData
    <3>2. MainHolds'
      BY <3>1, MainTypes DEF MainHolds
    <3> QED
      BY <1>1, <2>2, <3>2, HandlesKeep
  <2> QED
    BY <2>3, <2>4
<1>10. CASE HandlesReset
  BY <1>1, <1>4, <1>10, RemoveKeeps, HandlesKeep DEF HandlesReset
<1> QED
  BY <1>5, <1>6, <1>7, <1>8, <1>9, <1>10

\* The main loop at the end of the channel, and the report of a task.
LEMMA EndsKeep ==
  ASSUME SessionInv, MeetsEof \/ IsIdle \/ HandlesEvent \/ Closes \/ Joins
  PROVE  SessionInv'
<1> USE DEF clientVars, taskVars, writerVars
<1>0. Rest /\ MainHolds /\ Directory /\ Outgoing
  BY SessionInvIs
<1>1. UNCHANGED <<stdout, batch, frames, submitted, writer, outbound, stdin, inbuf, sentIn, eof>>
  BY DEF MeetsEof, IsIdle, Stops, HandlesEvent, Closes, Joins
<1>2. Rest'
  <2>1. CASE HandlesEvent
    <3>1. events # <<>> /\ events' = Tail(events)
      BY <2>1 DEF HandlesEvent
    <3>2. events' \in Seq(Report) /\ Len(events') <= EventQueue
      BY <1>0, <3>1, QueueTail, SessionAssumption DEF Rest
    <3> QED
      BY <1>0, <1>1, <3>2 DEF Rest
  <2>2. CASE ~HandlesEvent
    BY <1>0, <1>1, <2>2, RestStays DEF MeetsEof, IsIdle, Stops, Closes, Joins
  <2> QED
    BY <2>1, <2>2
<1>3. Directory'
  <2>1. CASE HandlesEvent
    BY <2>1, RemoveKeeps DEF HandlesEvent
  <2>2. CASE Closes
    BY <2>2, RemoveKeeps DEF Closes
  <2>3. CASE MeetsEof \/ IsIdle \/ Joins
    BY <1>0, <2>3, DirectoryStays DEF MeetsEof, IsIdle, Stops, Joins
  <2> QED
    BY <2>1, <2>2, <2>3
<1>4. MainHolds'
  <2>1. CASE MeetsEof \/ IsIdle
    BY <2>1, MainTypes DEF MeetsEof, IsIdle, Stops, MainHolds
  <2>2. CASE HandlesEvent
    <3>1. events # <<>> /\ Head(events) \in Report
      BY <1>0, <2>2, QueueTail DEF HandlesEvent, Rest
    <3>2. Head(events).i \in Id
      BY <3>1 DEF Report
    <3>3. main' = Sending(Frame("Reset", Head(events).i), "loop") \/ main' = main
      BY <2>2 DEF HandlesEvent
    <3>4. Frame("Reset", Head(events).i) \in HelperFrame
      BY <3>2, FrameTypes
    <3>5. CASE main' = Sending(Frame("Reset", Head(events).i), "loop")
      <4>1. PICK f \in HelperFrame : main' = Sending(f, "loop")
        BY <3>4, <3>5
      <4> QED
        BY <4>1, MainTypes DEF MainHolds
    <3>6. CASE main' = main
      BY <1>0, <1>1, <3>6, MainStays
    <3> QED
      BY <3>3, <3>5, <3>6
  <2>3. CASE Closes
    BY <2>3, MainTypes DEF Closes, MainHolds
  <2>4. CASE Joins
    <3>1. main' = [Loop EXCEPT !.at = "gone"] /\ writer' = "over"
      BY <1>1, <2>4 DEF Joins
    <3> QED
      BY <3>1, MainTypes DEF MainHolds
  <2> QED
    BY <2>1, <2>2, <2>3, <2>4
<1>5. Outgoing'
  BY <1>0, <1>1, OutgoingStays
<1> QED
  BY <1>2, <1>3, <1>4, <1>5 DEF SessionInv, TypeOK, QueueHolds, Rest, MainHolds, Directory, Outgoing

\* The main loop awaits a queue: of a stream's task, or of the writer.
LEMMA SendsKeep ==
  ASSUME SessionInv, SendsDown \/ Sends
  PROVE  SessionInv'
<1> USE DEF clientVars, taskVars
<1>0. Rest /\ MainHolds /\ Directory /\ Outgoing
  BY SessionInvIs
<1>1. UNCHANGED <<stdout, outbound, stdin, inbuf, sentIn, eof, events>>
  BY DEF SendsDown, Sends
<1>2. Rest'
  BY <1>0, <1>1, RestStays
<1>3. CASE SendsDown
  <2>1. Outgoing'
    BY <1>0, <1>1, <1>3, OutgoingStays DEF SendsDown, writerVars
  <2>2. PICK i \in Id : i = main.arg.i
    BY <1>0, <1>3 DEF SendsDown, MainHolds
  <2>3. CASE task[i].st \in Live
    <3>1. /\ task[i].down < DOWNLINK_QUEUE
          /\ task' = [task EXCEPT ![i] = [task[i] EXCEPT !.down = task[i].down + 1]]
          /\ main' = Loop /\ UNCHANGED streams
      BY <1>3, <2>2, <2>3 DEF SendsDown
    <3>2. task[i] \in Task
      BY <1>0 DEF Directory
    <3>3. task[i].down \in 0 .. DOWNLINK_QUEUE /\ DOWNLINK_QUEUE \in Nat
      BY <3>2, SessionAssumption DEF Task
    <3> DEFINE d == task[i].down + 1
               t == [task[i] EXCEPT !.down = d]
    <3>4. d \in 0 .. DOWNLINK_QUEUE
      BY <3>1, <3>3
    <3>5. t \in Task
      <4> HIDE DEF d
      <4> QED
        BY <3>2, <3>4 DEF Task
    <3>6. task' = [task EXCEPT ![i] = t]
      BY <3>1
    <3> HIDE DEF t
    <3>7. Directory'
      BY <2>3, <3>1, <3>5, <3>6, TaskStep DEF SessionInv, Directory
    <3>8. MainHolds'
      <4>1. main' \in Main /\ main'.at = "loop"
        BY <3>1, MainTypes
      <4> QED
        BY <4>1 DEF MainHolds
    <3> QED
      BY <1>2, <2>1, <3>7, <3>8
         DEF SessionInv, TypeOK, QueueHolds, Rest, MainHolds, Directory, Outgoing
  <2>4. CASE task[i].st \notin Live
    <3>1. remove({i}) /\ main' = Sending(Frame("Reset", i), "loop")
      BY <1>3, <2>2, <2>4 DEF SendsDown, Replies
    <3>2. MainHolds'
      <4>1. Frame("Reset", i) \in HelperFrame
        BY FrameTypes
      <4>2. main' \in Main /\ main'.at = "send" /\ main'.arg = Frame("Reset", i)
        BY <3>1, <4>1, MainTypes
      <4> QED
        BY <4>1, <4>2 DEF MainHolds
    <3> QED
      BY <1>2, <2>1, <3>1, <3>2, RemoveKeeps
         DEF SessionInv, TypeOK, QueueHolds, Rest, MainHolds, Directory, Outgoing
  <2> QED
    BY <2>3, <2>4
<1>4. CASE Sends
  <2>1. /\ main.arg \in HelperFrame /\ main.then \in {"loop", "hello", "close"}
        /\ Submit(main.arg) /\ UNCHANGED <<streams, task>>
    BY <1>0, <1>4 DEF Sends, MainHolds, Main
  <2>2. PICK f \in HelperFrame : Submit(f)
    BY <2>1
  <2>3. Outgoing'
    BY <1>0, <1>1, <2>2, SubmitStep
  <2>4. main' = [Loop EXCEPT !.at = "loop"] \/ main' = [Loop EXCEPT !.at = "close"]
    BY <1>4, <2>1 DEF Sends
  <2>5. MainHolds'
    BY <2>4, MainTypes DEF MainHolds
  <2>6. Directory'
    BY <1>0, <2>1, DirectoryStays
  <2> QED
    BY <1>2, <2>3, <2>5, <2>6
       DEF SessionInv, TypeOK, QueueHolds, Rest, MainHolds, Directory, Outgoing
<1> QED
  BY <1>3, <1>4

\* The writer, and the loss of stdout.
LEMMA WriterKeeps ==
  ASSUME SessionInv, Writer \/ WriteFails
  PROVE  SessionInv'
<1>0. Rest /\ MainHolds /\ Directory /\ Outgoing
  BY SessionInvIs
<1>1. UNCHANGED <<main, streams, task, outbound, stdin, inbuf, sentIn, eof, events>>
  BY DEF Writer, Encodes, Writes, WriterEnds, WriteFails, clientVars, loopVars, taskVars
<1>2. Outgoing' /\ (writer = "over" => writer' = "over")
  BY <1>0, WriterStep DEF Writer
<1> QED
  BY <1>0, <1>1, <1>2, RestStays, MainStays, DirectoryStays
     DEF SessionInv, TypeOK, QueueHolds, Rest, MainHolds, Directory, Outgoing

\* A task goes on: it was alive, whatever becomes of it, and what it sends goes
\* through the queue.
LEMMA TaskKeeps ==
  ASSUME SessionInv, NEW i \in Id, Runs(i) \/ Breaks(i) \/ SendsUp(i)
  PROVE  SessionInv'
<1> USE DEF clientVars, loopVars
<1>0. Rest /\ MainHolds /\ Directory /\ Outgoing
  BY SessionInvIs
<1>1. UNCHANGED <<main, streams, outbound, stdin, stdout, inbuf, sentIn, eof>>
  BY DEF Runs, Dials, TellsOpen, TellsEnd, WritesDown, Breaks, SendsUp
<1>2. task[i] \in Task
  BY <1>0 DEF Directory
<1>3. Outgoing' /\ (writer = "over" => writer' = "over")
  <2>1. CASE \E k \in {"OpenOk", "OpenErr", "Ack", "Data"} : Submit(Frame(k, i))
    <3>1. PICK f \in HelperFrame : Submit(f)
      BY <2>1, FrameTypes
    <3> QED
      BY <1>0, <1>1, <3>1, SubmitStep
  <2>2. CASE UNCHANGED writerVars
    BY <1>0, <1>1, <2>2, OutgoingStays DEF writerVars
  <2> QED
    BY <2>1, <2>2 DEF Runs, Dials, TellsOpen, TellsEnd, WritesDown, Breaks, SendsUp
<1>4. Rest'
  <2>1. CASE TellsEnd(i)
    <3>1. PICK e \in Report : Len(events) < EventQueue /\ events' = Append(events, e)
      BY <2>1 DEF TellsEnd, Reports, Report
    <3>2. events' \in Seq(Report) /\ Len(events') <= EventQueue
      BY <1>0, <3>1, QueueAppend, SessionAssumption DEF Rest
    <3> QED
      BY <1>0, <1>1, <3>2 DEF Rest
  <2>2. CASE ~TellsEnd(i)
    <3>1. UNCHANGED events
      BY <2>2 DEF Runs, Dials, TellsOpen, WritesDown, Breaks, SendsUp
    <3> QED
      BY <1>0, <1>1, <3>1, RestStays
  <2> QED
    BY <2>1, <2>2
<1>5. Directory'
  <2>1. \E t \in Task : task' = [task EXCEPT ![i] = t]
    <3>1. ASSUME NEW st \in Live \cup {"over"}, To(i, st)
          PROVE  \E t \in Task : task' = [task EXCEPT ![i] = t]
      BY <1>2, <3>1, TaskTypes DEF To
    <3>2. CASE Dials(i) \/ TellsOpen(i) \/ TellsEnd(i) \/ Breaks(i)
      BY <3>1, <3>2 DEF Dials, TellsOpen, TellsEnd, Breaks, Goes, Live
    <3>3. CASE WritesDown(i)
      <4>1. CASE task[i].down > 0 /\ task' = [task EXCEPT ![i].down = @ - 1, ![i].ack = TRUE]
        <5>1. task[i].down - 1 \in 0 .. DOWNLINK_QUEUE
          BY <1>2, <4>1, SessionAssumption DEF Task
        <5>2. [task[i] EXCEPT !.down = task[i].down - 1, !.ack = TRUE] \in Task
          BY <1>2, <5>1 DEF Task
        <5>3. task' = [task EXCEPT ![i] = [task[i] EXCEPT !.down = task[i].down - 1, !.ack = TRUE]]
          BY <1>0, <4>1 DEF Directory
        <5> QED
          BY <5>2, <5>3
      <4>2. CASE task' = [task EXCEPT ![i].ack = FALSE, ![i].st = IF writer = "on" THEN @ ELSE "over"]
        <5> DEFINE s == IF writer = "on" THEN task[i].st ELSE "over"
        <5>1. s \in Live \cup {"none", "over", "aborted"}
          BY <1>2 DEF Task
        <5>2. task' = [task EXCEPT ![i] = [task[i] EXCEPT !.ack = FALSE, !.st = s]]
          BY <1>0, <4>2 DEF Directory
        <5> HIDE DEF s
        <5>3. [task[i] EXCEPT !.ack = FALSE, !.st = s] \in Task
          BY <1>2, <5>1 DEF Task
        <5> QED
          BY <5>2, <5>3
      <4> QED
        BY <3>3, <4>1, <4>2 DEF WritesDown
    <3>4. CASE SendsUp(i)
      <4> DEFINE s == IF writer = "on" THEN task[i].st ELSE "over"
                 u == task[i].up - 1
      <4>1. s \in Live \cup {"none", "over", "aborted"}
        BY <1>2 DEF Task
      <4>2. u \in 0 .. MaxUp
        BY <1>2, <3>4, SessionAssumption DEF Task, SendsUp
      <4>3. task' = [task EXCEPT ![i] = [task[i] EXCEPT !.up = u, !.st = s]]
        BY <1>0, <3>4 DEF Directory, SendsUp
      <4> HIDE DEF s, u
      <4>4. [task[i] EXCEPT !.up = u, !.st = s] \in Task
        BY <1>2, <4>1, <4>2 DEF Task
      <4> QED
        BY <4>3, <4>4
    <3> QED
      BY <3>2, <3>3, <3>4 DEF Runs
  <2>2. PICK t \in Task : task' = [task EXCEPT ![i] = t]
    BY <2>1
  <2>3. task[i].st \in Live
    BY DEF Runs, Dials, TellsOpen, TellsEnd, WritesDown, Breaks, SendsUp, Is, Live
  <2> QED
    BY <1>1, <2>2, <2>3, TaskStep DEF SessionInv, Directory
<1>6. MainHolds'
  BY <1>0, <1>1, <1>3, MainStays
<1> QED
  BY <1>3, <1>4, <1>5, <1>6 DEF SessionInv, TypeOK, QueueHolds, Rest, MainHolds, Directory, Outgoing

-----------------------------------------------------------------------------

\* Every step keeps the invariant.
LEMMA SessionKeeps == SessionInv /\ [Next]_vars => SessionInv'
<1> SUFFICES ASSUME SessionInv, [Next]_vars PROVE SessionInv'
  OBVIOUS
<1>1. CASE UNCHANGED vars
  <2>1. Rest /\ MainHolds /\ Directory /\ Outgoing
    BY SessionInvIs
  <2>2. Rest' /\ MainHolds' /\ Directory' /\ Outgoing'
    BY <1>1, <2>1, RestStays, MainStays, DirectoryStays, OutgoingStays
       DEF vars, clientVars, loopVars, taskVars, writerVars
  <2> QED
    BY <2>2 DEF SessionInv, TypeOK, QueueHolds, Rest, MainHolds, Directory, Outgoing
<1>2. CASE Client
  BY <1>2, ClientKeeps DEF Client
<1>3. CASE MainLoop \/ IsIdle
  BY <1>3, ReadsKeep, EndsKeep, HandlersKeep, SendsKeep DEF MainLoop
<1>4. CASE Writer \/ WriteFails
  BY <1>4, WriterKeeps
<1>5. CASE \E i \in Id : Runs(i) \/ Breaks(i) \/ SendsUp(i)
  BY <1>5, TaskKeeps
<1> QED
  BY <1>1, <1>2, <1>3, <1>4, <1>5 DEF Next

\* The invariant of the helper process: no egress connection outlives its entry, so
\* MAX_STREAMS bounds the connections; and the frames of the main loop and of all
\* tasks reach stdout in the order they were queued, all of them before the process
\* leaves.
THEOREM SessionIsSafe == Spec => []SessionInv
BY SessionStarts, SessionKeeps, PTL DEF Spec

=============================================================================
