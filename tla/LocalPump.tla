------------------------------ MODULE LocalPump ------------------------------
(***************************************************************************)
(* The client side of the logical streams on one channel that stays up:    *)
(* the application (a relay of a frontend) holds one end of an in-memory   *)
(* duplex, the task pump_local the other, and the session loop run_session *)
(* holds the streams (srp/src/tunnel/helper/session.rs). pump_local and    *)
(* run_session each wait for room in a bounded queue that the other one    *)
(* empties: to_local (per stream) and cmds (one for all streams).          *)
(*                                                                         *)
(* A byte is its position in its direction, one byte per message. What the *)
(* helper does is external; the streams are open at the start.             *)
(***************************************************************************)
EXTENDS Integers, Sequences

CONSTANTS
  Stream,
  MaxUp,      \* bound: bytes an application writes
  MaxDown,    \* bound: bytes the helper sends on a stream
  Pipe,       \* LOCAL_BUF, capacity of one direction of the duplex
  LocalCap,   \* capacity of to_local
  CmdCap,     \* capacity of the command queue
  Window      \* stream_window of both directions

ASSUME PumpAssumption ==
  /\ MaxUp \in Nat /\ MaxDown \in Nat
  /\ {Pipe, LocalCap, CmdCap, Window} \subseteq Nat \ {0}

VARIABLES
  \* application
  wrote,      \* how many bytes it has written
  app_shut,   \* it shut its write half
  app_gone,   \* it dropped its end
  got,        \* the bytes it read
  saw_eof,
  \* duplex
  up, dn,     \* application to pump, pump to application
  pump_shut,  \* the pump shut its write half
  \* pump_local
  pump,       \* "select", "cmd", "write", "closing" or "gone"
  msg,        \* the command it is sending, or the byte it is writing
  local_eof,
  \* between the pump and the session loop
  to_local, cmds,
  fin_sig,    \* the remote_fin oneshot: "none", "sent", "seen" or "dropped"
  term_sig,   \* the terminate oneshot: "none", "sent" or "dropped"
  \* run_session
  drv,        \* "select", "frames", or "deliver" while to_local is full
  deliver,    \* the stream and byte it delivers
  open,       \* the stream is in MuxState
  endpoint,   \* and its LocalEndpoint in endpoints
  pushed,     \* bytes that went into the SendBuffer and out to the helper
  acked,      \* of these, the confirmed ones
  local_fin, remote_fin,
  received,   \* RecvTracker.delivered
  outbound,   \* offset of the last Ack encoded for the stream
  flushed,    \* and of the last one written to the channel
  \* helper
  h2c,
  sent, confirmed, h_fin

appVars == <<wrote, app_shut, app_gone, got, saw_eof>>
pumpVars == <<pump, msg, local_eof, pump_shut>>
sigVars == <<fin_sig, term_sig>>
drvVars == <<drv, deliver, open, endpoint, pushed, acked, local_fin, remote_fin, received, outbound, flushed>>
helperVars == <<h2c, sent, confirmed, h_fin>>
vars == <<appVars, up, dn, pumpVars, to_local, cmds, sigVars, drvVars, helperVars>>

Up == 1 .. MaxUp
Down == 1 .. MaxDown
NoMsg == [kind |-> "none"]
Writing(b) == [kind |-> "byte", byte |-> b]

Command == [stream : Stream, kind : {"data"}, byte : Up]
  \cup [stream : Stream, kind : {"eof", "close"}]

LocalData(s, b) == [stream |-> s, kind |-> "data", byte |-> b]
LocalEof(s) == [stream |-> s, kind |-> "eof"]
LocalClose(s) == [stream |-> s, kind |-> "close"]

Frame == [stream : Stream, type : {"Data"}, byte : Down]
  \cup [stream : Stream, type : {"Ack"}, offset : Up]
  \cup [stream : Stream, type : {"Fin", "Reset"}]

TypeOK ==
  /\ wrote \in [Stream -> 0 .. MaxUp]
  /\ \A v \in {app_shut, app_gone, saw_eof, pump_shut, local_eof, open, endpoint, local_fin, remote_fin, h_fin} :
       v \in [Stream -> BOOLEAN]
  /\ {got, dn, to_local} \subseteq [Stream -> Seq(Down)] /\ {up, pushed} \subseteq [Stream -> Seq(Up)]
  /\ {acked, received, outbound, flushed} \subseteq [Stream -> Nat]
  /\ \A s \in Stream :
       /\ Len(dn[s]) <= Pipe /\ Len(up[s]) <= Pipe /\ Len(to_local[s]) <= LocalCap
       /\ Len(pushed[s]) - acked[s] \in 0 .. Window
       /\ flushed[s] <= outbound[s] /\ outbound[s] <= received[s]
  /\ pump \in [Stream -> {"select", "cmd", "write", "closing", "gone"}]
  /\ msg \in [Stream -> Command \cup {Writing(b) : b \in Down} \cup {NoMsg}]
  /\ cmds \in Seq(Command) /\ Len(cmds) <= CmdCap
  /\ fin_sig \in [Stream -> {"none", "sent", "seen", "dropped"}]
  /\ term_sig \in [Stream -> {"none", "sent", "dropped"}]
  /\ drv \in {"select", "frames", "deliver"}
  /\ deliver \in [stream : Stream, byte : Down] \cup {NoMsg}
  /\ h2c \in Seq(Frame)
  /\ sent \in [Stream -> 0 .. MaxDown] /\ confirmed \in [Stream -> 0 .. MaxUp]

All(v) == [s \in Stream |-> v]

Init ==
  /\ wrote = All(0) /\ app_shut = All(FALSE) /\ app_gone = All(FALSE)
  /\ got = All(<<>>) /\ saw_eof = All(FALSE)
  /\ up = All(<<>>) /\ dn = All(<<>>) /\ pump_shut = All(FALSE)
  /\ pump = All("select") /\ msg = All(NoMsg) /\ local_eof = All(FALSE)
  /\ to_local = All(<<>>) /\ cmds = <<>>
  /\ fin_sig = All("none") /\ term_sig = All("none")
  /\ drv = "select" /\ deliver = NoMsg /\ open = All(TRUE) /\ endpoint = All(TRUE)
  /\ pushed = All(<<>>) /\ acked = All(0) /\ local_fin = All(FALSE) /\ remote_fin = All(FALSE)
  /\ received = All(0) /\ outbound = All(0) /\ flushed = All(0)
  /\ h2c = <<>> /\ sent = All(0) /\ confirmed = All(0) /\ h_fin = All(FALSE)

Set(f, s, v) == [f EXCEPT ![s] = v]

-----------------------------------------------------------------------------
(* The application. A duplex whose other end is shut or dropped is read to *)
(* its last byte before it reports end of file.                            *)

AppWrites(s) ==
  /\ ~app_shut[s] /\ ~app_gone[s] /\ pump[s] # "gone"
  /\ wrote[s] < MaxUp /\ Len(up[s]) < Pipe
  /\ wrote' = Set(wrote, s, wrote[s] + 1)
  /\ up' = Set(up, s, Append(up[s], wrote[s] + 1))
  /\ UNCHANGED <<app_shut, app_gone, got, saw_eof, dn, pumpVars, to_local, cmds, sigVars,
                 drvVars, helperVars>>

AppShuts(s) ==
  /\ ~app_shut[s] /\ ~app_gone[s]
  /\ app_shut' = Set(app_shut, s, TRUE)
  /\ UNCHANGED <<wrote, app_gone, got, saw_eof, up, dn, pumpVars, to_local, cmds, sigVars,
                 drvVars, helperVars>>

AppDrops(s) ==
  /\ ~app_gone[s]
  /\ app_gone' = Set(app_gone, s, TRUE)
  /\ dn' = Set(dn, s, <<>>)
  /\ UNCHANGED <<wrote, app_shut, got, saw_eof, up, pumpVars, to_local, cmds, sigVars,
                 drvVars, helperVars>>

AppReads(s) ==
  /\ ~app_gone[s] /\ ~saw_eof[s]
  /\ IF dn[s] # <<>>
     THEN /\ got' = Set(got, s, Append(got[s], Head(dn[s])))
          /\ dn' = Set(dn, s, Tail(dn[s]))
          /\ UNCHANGED saw_eof
     ELSE /\ pump_shut[s] \/ pump[s] = "gone"
          /\ saw_eof' = Set(saw_eof, s, TRUE)
          /\ UNCHANGED <<got, dn>>
  /\ UNCHANGED <<wrote, app_shut, app_gone, up, pumpVars, to_local, cmds, sigVars, drvVars,
                 helperVars>>

App(s) == AppWrites(s) \/ AppShuts(s) \/ AppDrops(s) \/ AppReads(s)

-----------------------------------------------------------------------------
(* pump_local. select! picks any ready branch.                             *)

Selects(s) == pump[s] = "select"

PumpGoto(s, where, what) == pump' = Set(pump, s, where) /\ msg' = Set(msg, s, what)

PumpReads(s) ==
  /\ Selects(s) /\ ~local_eof[s]
  /\ IF up[s] # <<>>
     THEN /\ PumpGoto(s, "cmd", LocalData(s, Head(up[s])))
          /\ up' = Set(up, s, Tail(up[s]))
          /\ UNCHANGED local_eof
     ELSE /\ app_shut[s] \/ app_gone[s]
          /\ PumpGoto(s, "cmd", LocalEof(s))
          /\ local_eof' = Set(local_eof, s, TRUE)
          /\ UNCHANGED up
  /\ UNCHANGED <<appVars, dn, pump_shut, to_local, cmds, sigVars, drvVars, helperVars>>

\* cmd_tx.send; after LocalClose the task returns.
PumpSends(s) ==
  /\ pump[s] \in {"cmd", "closing"}
  /\ Len(cmds) < CmdCap
  /\ cmds' = Append(cmds, msg[s])
  /\ PumpGoto(s, IF pump[s] = "cmd" THEN "select" ELSE "gone", NoMsg)
  /\ UNCHANGED <<appVars, up, dn, local_eof, pump_shut, to_local, sigVars, drvVars, helperVars>>

\* Mutant: an application that has shut its half gets nothing more.
PumpTakesUntilEof(s) ==
  /\ Selects(s) /\ ~local_eof[s]
  /\ IF to_local[s] # <<>>
     THEN /\ PumpGoto(s, "write", Writing(Head(to_local[s])))
          /\ to_local' = Set(to_local, s, Tail(to_local[s]))
          /\ UNCHANGED pump_shut
     ELSE /\ ~endpoint[s]
          /\ PumpGoto(s, "gone", NoMsg)
          /\ pump_shut' = Set(pump_shut, s, TRUE)
          /\ UNCHANGED to_local
  /\ UNCHANGED <<appVars, up, dn, local_eof, cmds, sigVars, drvVars, helperVars>>

PumpTakes(s) ==
  /\ Selects(s)
  /\ IF to_local[s] # <<>>
     THEN /\ PumpGoto(s, "write", Writing(Head(to_local[s])))
          /\ to_local' = Set(to_local, s, Tail(to_local[s]))
          /\ UNCHANGED pump_shut
     ELSE /\ ~endpoint[s]
          /\ PumpGoto(s, "gone", NoMsg)
          /\ pump_shut' = Set(pump_shut, s, TRUE)
          /\ UNCHANGED to_local
  /\ UNCHANGED <<appVars, up, dn, local_eof, cmds, sigVars, drvVars, helperVars>>

\* write_all waits for room, and fails after the shutdown or when the
\* application is gone.
PumpWrites(s) ==
  /\ pump[s] = "write"
  /\ IF pump_shut[s] \/ app_gone[s]
     THEN PumpGoto(s, "closing", LocalClose(s)) /\ UNCHANGED dn
     ELSE /\ Len(dn[s]) < Pipe
          /\ dn' = Set(dn, s, Append(dn[s], msg[s].byte))
          /\ PumpGoto(s, "select", NoMsg)
  /\ UNCHANGED <<appVars, up, local_eof, pump_shut, to_local, cmds, sigVars, drvVars, helperVars>>

\* The oneshot completes with a value, or because its sender is gone; in the
\* second case it completes again and again.
PumpSeesFin(s) ==
  /\ Selects(s)
  /\ fin_sig[s] \in {"sent", "dropped"}
  /\ fin_sig' = IF fin_sig[s] = "sent" THEN Set(fin_sig, s, "seen") ELSE fin_sig
  /\ pump_shut' = Set(pump_shut, s, TRUE)
  /\ UNCHANGED <<appVars, up, dn, pump, msg, local_eof, to_local, cmds, term_sig, drvVars, helperVars>>

\* Polling a oneshot that has given its value panics, and ends the task.
PumpPanics(s) ==
  /\ Selects(s)
  /\ fin_sig[s] = "seen"
  /\ PumpGoto(s, "gone", NoMsg)
  /\ UNCHANGED <<appVars, up, dn, local_eof, pump_shut, to_local, cmds, sigVars, drvVars, helperVars>>

PumpTerminates(s) ==
  /\ Selects(s)
  /\ term_sig[s] \in {"sent", "dropped"}
  /\ PumpGoto(s, "gone", NoMsg)
  /\ pump_shut' = Set(pump_shut, s, TRUE)
  /\ UNCHANGED <<appVars, up, dn, local_eof, to_local, cmds, sigVars, drvVars, helperVars>>

Pump(s) ==
  \/ PumpReads(s) \/ PumpSends(s) \/ PumpTakes(s) \/ PumpWrites(s)
  \/ PumpSeesFin(s) \/ PumpPanics(s) \/ PumpTerminates(s)

-----------------------------------------------------------------------------
(* run_session. A batch of frames is applied, then outbound is flushed; a  *)
(* command is handled and flushed in one step.                             *)

\* The stream and its endpoint go; both oneshots lose their sender.
Forget(s) ==
  /\ open' = Set(open, s, FALSE)
  /\ endpoint' = Set(endpoint, s, FALSE)
  /\ fin_sig' = IF fin_sig[s] = "none" THEN Set(fin_sig, s, "dropped") ELSE fin_sig
  /\ term_sig' = IF term_sig[s] = "none" THEN Set(term_sig, s, "dropped") ELSE term_sig

Command1 == Head(cmds)

HandleLocalData ==
  /\ drv = "select" /\ cmds # <<>> /\ Command1.kind = "data"
  /\ cmds' = Tail(cmds)
  /\ LET s == Command1.stream
     IN  IF ~open[s] THEN UNCHANGED <<open, endpoint, pushed, sigVars>>
         ELSE IF Len(pushed[s]) - acked[s] < Window
         THEN pushed' = Set(pushed, s, Append(pushed[s], Command1.byte)) /\ UNCHANGED <<open, endpoint, sigVars>>
         ELSE Forget(s) /\ UNCHANGED pushed
  /\ UNCHANGED <<appVars, up, dn, pumpVars, to_local, drv, deliver, acked, local_fin, remote_fin,
                 received, outbound, flushed, helperVars>>

HandleLocalEof ==
  /\ drv = "select" /\ cmds # <<>> /\ Command1.kind = "eof"
  /\ cmds' = Tail(cmds)
  /\ local_fin' = Set(local_fin, Command1.stream, open[Command1.stream] \/ local_fin[Command1.stream])
  /\ UNCHANGED <<appVars, up, dn, pumpVars, to_local, sigVars, drv, deliver, open, endpoint, pushed, acked,
                 remote_fin, received, outbound, flushed, helperVars>>

HandleLocalClose ==
  /\ drv = "select" /\ cmds # <<>> /\ Command1.kind = "close"
  /\ cmds' = Tail(cmds)
  /\ IF open[Command1.stream] THEN Forget(Command1.stream) ELSE UNCHANGED <<open, endpoint, sigVars>>
  /\ UNCHANGED <<appVars, up, dn, pumpVars, to_local, drv, deliver, pushed, acked, local_fin,
                 remote_fin, received, outbound, flushed, helperVars>>

NextFrame(type) ==
  /\ drv \in {"select", "frames"}
  /\ h2c # <<>> /\ Head(h2c).type = type
  /\ h2c' = Tail(h2c)

\* Mutant: confirms, and flushes, before it delivers.
ApplyDataAcksFirst ==
  /\ NextFrame("Data")
  /\ LET f == Head(h2c)
     IN  IF open[f.stream]
         THEN /\ received' = Set(received, f.stream, f.byte)
              /\ outbound' = Set(outbound, f.stream, f.byte)
              /\ flushed' = outbound'
              /\ drv' = "deliver"
              /\ deliver' = [stream |-> f.stream, byte |-> f.byte]
         ELSE drv' = "frames" /\ UNCHANGED <<received, outbound, flushed, deliver>>
  /\ UNCHANGED <<appVars, up, dn, pumpVars, to_local, cmds, sigVars, open, endpoint, pushed, acked,
                 local_fin, remote_fin, sent, confirmed, h_fin>>

\* Data: the byte is to be delivered before its Ack is encoded.
ApplyData ==
  /\ NextFrame("Data")
  /\ LET f == Head(h2c)
     IN  IF open[f.stream]
         THEN /\ received' = Set(received, f.stream, f.byte)
              /\ drv' = "deliver"
              /\ deliver' = [stream |-> f.stream, byte |-> f.byte]
         ELSE drv' = "frames" /\ UNCHANGED <<received, deliver>>
  /\ UNCHANGED <<appVars, up, dn, pumpVars, to_local, cmds, sigVars, open, endpoint, pushed, acked,
                 local_fin, remote_fin, outbound, flushed, sent, confirmed, h_fin>>

\* to_local.send: waits while the queue is full; when the pump is gone the
\* stream is reset.
Deliver ==
  /\ drv = "deliver"
  /\ LET s == deliver.stream
     IN  /\ IF pump[s] = "gone"
            THEN Forget(s) /\ UNCHANGED to_local
            ELSE /\ Len(to_local[s]) < LocalCap
                 /\ to_local' = Set(to_local, s, Append(to_local[s], deliver.byte))
                 /\ UNCHANGED <<open, endpoint, sigVars>>
         /\ outbound' = Set(outbound, s, deliver.byte)
  /\ drv' = "frames" /\ deliver' = NoMsg
  /\ UNCHANGED <<appVars, up, dn, pumpVars, cmds, pushed, acked, local_fin, remote_fin, received,
                 flushed, helperVars>>

ApplyAck ==
  /\ NextFrame("Ack")
  /\ drv' = "frames"
  /\ acked' = IF open[Head(h2c).stream] THEN Set(acked, Head(h2c).stream, Head(h2c).offset) ELSE acked
  /\ UNCHANGED <<appVars, up, dn, pumpVars, to_local, cmds, sigVars, deliver, open, endpoint, pushed,
                 local_fin, remote_fin, received, outbound, flushed, sent, confirmed, h_fin>>

ApplyFin ==
  /\ NextFrame("Fin")
  /\ drv' = "frames"
  /\ LET s == Head(h2c).stream
     IN  /\ remote_fin' = Set(remote_fin, s, remote_fin[s] \/ open[s])
         /\ fin_sig' = IF open[s] /\ fin_sig[s] = "none" THEN Set(fin_sig, s, "sent") ELSE fin_sig
  /\ UNCHANGED <<appVars, up, dn, pumpVars, to_local, cmds, term_sig, deliver, open, endpoint, pushed, acked,
                 local_fin, received, outbound, flushed, sent, confirmed, h_fin>>

\* Mutant: forgets the stream and leaves its endpoint alone.
ApplyResetQuietly ==
  /\ NextFrame("Reset")
  /\ drv' = "frames"
  /\ open' = Set(open, Head(h2c).stream, FALSE)
  /\ UNCHANGED <<appVars, up, dn, pumpVars, to_local, cmds, sigVars, deliver, endpoint, pushed,
                 acked, local_fin, remote_fin, received, outbound, flushed, sent, confirmed, h_fin>>

ApplyReset ==
  /\ NextFrame("Reset")
  /\ drv' = "frames"
  /\ LET s == Head(h2c).stream
     IN  IF open[s]
         THEN /\ open' = Set(open, s, FALSE)
              /\ endpoint' = Set(endpoint, s, FALSE)
              /\ term_sig' = Set(term_sig, s, "sent")
              /\ fin_sig' = IF fin_sig[s] = "none" THEN Set(fin_sig, s, "dropped") ELSE fin_sig
         ELSE UNCHANGED <<open, endpoint, sigVars>>
  /\ UNCHANGED <<appVars, up, dn, pumpVars, to_local, cmds, deliver, pushed, acked, local_fin,
                 remote_fin, received, outbound, flushed, sent, confirmed, h_fin>>

Flush ==
  /\ drv = "frames" /\ drv' = "select"
  /\ flushed' = outbound
  /\ UNCHANGED <<appVars, up, dn, pumpVars, to_local, cmds, sigVars, deliver, open, endpoint, pushed, acked,
                 local_fin, remote_fin, received, outbound, helperVars>>

Commands == HandleLocalData \/ HandleLocalEof \/ HandleLocalClose
Frames == ApplyData \/ Deliver \/ ApplyAck \/ ApplyFin \/ ApplyReset \/ Flush

-----------------------------------------------------------------------------
(* The helper.                                                             *)

HelperSends(s) ==
  /\ ~h_fin[s] /\ sent[s] < MaxDown /\ sent[s] - flushed[s] < Window
  /\ sent' = Set(sent, s, sent[s] + 1)
  /\ h2c' = Append(h2c, [stream |-> s, type |-> "Data", byte |-> sent[s] + 1])
  /\ UNCHANGED <<appVars, up, dn, pumpVars, to_local, cmds, sigVars, drvVars, confirmed, h_fin>>

HelperConfirms(s) ==
  /\ confirmed[s] < Len(pushed[s])
  /\ confirmed' = Set(confirmed, s, Len(pushed[s]))
  /\ h2c' = Append(h2c, [stream |-> s, type |-> "Ack", offset |-> Len(pushed[s])])
  /\ UNCHANGED <<appVars, up, dn, pumpVars, to_local, cmds, sigVars, drvVars, sent, h_fin>>

\* Fin after the last byte; Reset ends the stream at any time.
HelperEnds(s, type) ==
  /\ ~h_fin[s] /\ h_fin' = Set(h_fin, s, TRUE)
  /\ h2c' = Append(h2c, [stream |-> s, type |-> type])
  /\ UNCHANGED <<appVars, up, dn, pumpVars, to_local, cmds, sigVars, drvVars, sent, confirmed>>

Helper(s) ==
  HelperSends(s) \/ HelperConfirms(s) \/ HelperEnds(s, "Fin") \/ HelperEnds(s, "Reset")

Next == (\E s \in Stream : App(s) \/ Pump(s) \/ Helper(s)) \/ Commands \/ Frames

Spec == Init /\ [][Next]_vars

\* The application reads what is there; the tasks are scheduled, and select!
\* in run_session starves neither of its two branches.
Fairness ==
  /\ \A s \in Stream : WF_vars(AppReads(s)) /\ WF_vars(Pump(s))
  /\ WF_vars(Frames) /\ SF_vars(Commands)

FairSpec == Spec /\ Fairness

-----------------------------------------------------------------------------
(* Properties                                                              *)

Upto(n) == [i \in 1 .. n |-> i]

\* Neither direction loses, repeats or reorders a byte between the application
\* and the stream's state, and end of file follows the last byte.
BothInOrder ==
  \A s \in Stream :
    /\ got[s] = Upto(Len(got[s]))
    /\ pushed[s] = Upto(Len(pushed[s]))
    /\ local_fin[s] => Len(pushed[s]) = wrote[s]

\* Back-pressure: the Ack that lets the helper send more reaches the channel
\* only when the byte is with the pump, or the stream is over.
AckWaitsForPump ==
  \A s \in Stream : open[s] /\ drv = "deliver" /\ deliver.stream = s => flushed[s] < deliver.byte

\* What makes these inductive. What each task holds is what its state says.
TasksHold ==
  /\ \A s \in Stream :
       /\ pump[s] \in {"select", "gone"} => msg[s] = NoMsg
       /\ pump[s] = "cmd" => msg[s] = LocalEof(s) \/ msg[s] \in {LocalData(s, b) : b \in Up}
       /\ pump[s] = "closing" => msg[s] = LocalClose(s)
       /\ pump[s] = "write" => msg[s] \in {Writing(b) : b \in Down}
  /\ drv = "deliver" => deliver # NoMsg /\ open[deliver.stream]

CountsOn(n, q) == \A i \in 1 .. Len(q) : q[i] = n + i

\* From the session loop to the application: what was read, what is in the
\* duplex, the byte being written, to_local and the byte being delivered are, in
\* that order, what was received, as long as a byte can still get through.
Delivering(s) == drv = "deliver" /\ deliver.stream = s
Passed(s) == Len(got[s]) + Len(dn[s])
Taken(s) == IF pump[s] = "write" THEN Passed(s) + 1 ELSE Passed(s)

JoinsDown(s) ==
  /\ CountsOn(0, got[s])
  /\ ~app_gone[s] => CountsOn(Len(got[s]), dn[s])
  /\ ~app_gone[s] /\ pump[s] \in {"select", "cmd", "write"} =>
       /\ pump[s] = "write" => msg[s].byte = Passed(s) + 1
       /\ CountsOn(Taken(s), to_local[s])
       /\ received[s] = Taken(s) + Len(to_local[s]) + (IF Delivering(s) THEN 1 ELSE 0)
  /\ Delivering(s) => deliver.byte = received[s] /\ outbound[s] < received[s]

DownJoins == \A s \in Stream : JoinsDown(s)

\* From the application to the session loop: likewise the stream's state, the
\* commands, the one being sent and the duplex; and an end of file comes last.
Sent(s) == wrote[s] - Len(up[s]) - (IF msg[s].kind = "data" THEN 1 ELSE 0)
IsData(c, s) == c.stream = s /\ c.kind = "data"

JoinsUp(s) ==
  /\ CountsOn(0, pushed[s]) /\ Len(pushed[s]) <= Sent(s)
  /\ CountsOn(wrote[s] - Len(up[s]), up[s])
  /\ msg[s].kind = "data" => msg[s].byte = Sent(s) + 1
  /\ local_eof[s] => up[s] = <<>> /\ msg[s].kind # "data" /\ (app_shut[s] \/ app_gone[s])
  /\ msg[s].kind = "eof" => local_eof[s]
  /\ local_fin[s] => local_eof[s] /\ Len(pushed[s]) = wrote[s]
  /\ open[s] => \A b \in Len(pushed[s]) + 1 .. Sent(s) :
                  \E i \in 1 .. Len(cmds) : IsData(cmds[i], s) /\ cmds[i].byte = b

CommandsFollow ==
  \A i \in 1 .. Len(cmds) :
    LET s == cmds[i].stream IN
    /\ cmds[i].kind = "data" => /\ cmds[i].byte <= Sent(s)
                                /\ open[s] => Len(pushed[s]) < cmds[i].byte
    /\ cmds[i].kind = "eof" => local_eof[s]
    /\ \A j \in 1 .. i - 1 : IsData(cmds[i], cmds[j].stream) =>
         cmds[j].kind # "eof" /\ (cmds[j].kind = "data" => cmds[j].byte < cmds[i].byte)

UpJoins == (\A s \in Stream : JoinsUp(s)) /\ CommandsFollow

\* Between the helper and the session loop: the Data frames of a stream are what
\* was sent and not received, and no Ack goes back.
IsFrame(f, s, type) == f.stream = s /\ f.type = type

JoinsHelper(s) ==
  /\ confirmed[s] <= Len(pushed[s]) /\ received[s] <= sent[s]
  /\ open[s] => \A b \in received[s] + 1 .. sent[s] :
                  \E i \in 1 .. Len(h2c) : IsFrame(h2c[i], s, "Data") /\ h2c[i].byte = b

FramesFollow ==
  \A i \in 1 .. Len(h2c) :
    LET s == h2c[i].stream IN
    /\ h2c[i].type = "Data" => /\ h2c[i].byte <= sent[s]
                               /\ open[s] => received[s] < h2c[i].byte
    /\ h2c[i].type = "Ack" => acked[s] <= h2c[i].offset /\ h2c[i].offset <= confirmed[s]
    /\ \A j \in 1 .. i - 1 :
         /\ IsFrame(h2c[j], s, "Data") /\ h2c[i].type = "Data" => h2c[j].byte < h2c[i].byte
         /\ IsFrame(h2c[j], s, "Ack") /\ h2c[i].type = "Ack" => h2c[j].offset <= h2c[i].offset

FramesJoin == (\A s \in Stream : JoinsHelper(s)) /\ FramesFollow

\* Both directions in order, with back-pressure, and types.
PumpInv ==
  /\ TypeOK /\ BothInOrder /\ AckWaitsForPump
  /\ TasksHold /\ DownJoins /\ UpJoins /\ FramesJoin

\* The session loop does not wait for ever on an application that reads.
DeliverEnds == drv = "deliver" ~> drv # "deliver"

\* When a stream is dropped, for whatever reason, its application is told.
EndIsTold == \A s \in Stream : ~open[s] ~> saw_eof[s] \/ app_gone[s]

\* A stream of the session loop has a pump, or its close is on its way.
Closing(s) == \E i \in 1 .. Len(cmds) : cmds[i] = LocalClose(s)

HasPump == \A s \in Stream : open[s] => pump[s] # "gone" \/ Closing(s)

\* The pump reads only while the window has room, so bytes of the application
\* never meet a full buffer, for which their stream would be reset.
WindowHolds ==
  drv = "select" /\ cmds # <<>> /\ Command1.kind = "data" /\ open[Command1.stream] =>
    Len(pushed[Command1.stream]) - acked[Command1.stream] < Window

\* End of file after the helper's Fin comes behind the last byte received.
EofMeansAll ==
  \A s \in Stream :
    saw_eof[s] /\ remote_fin[s] /\ term_sig[s] = "none" => Len(got[s]) = received[s]

=============================================================================
