--------------------------- MODULE LocalPump_proofs ---------------------------
(***************************************************************************)
(* For every set of streams, pipe, window and length of the queues: the    *)
(* pump and the session loop pass the bytes of both directions on in their *)
(* order, end of file comes last, and no Ack goes out for a byte that is   *)
(* not yet with the pump.                                                  *)
(***************************************************************************)
EXTENDS LocalPump, SequenceTheorems, TLAPS

-----------------------------------------------------------------------------
(* Queues.                                                                 *)

\* What is queued comes behind what was.
LEMMA Joined ==
  ASSUME NEW S, NEW q \in Seq(S), NEW e \in S
  PROVE  /\ Append(q, e) \in Seq(S) /\ Len(q) \in Nat
         /\ Len(Append(q, e)) = Len(q) + 1
         /\ Append(q, e)[Len(q) + 1] = e
         /\ \A i \in 1 .. Len(q) : Append(q, e)[i] = q[i] /\ q[i] \in S
BY AppendProperties, LenProperties, ElementOfSeq

\* What is left moves up by one.
LEMMA Left ==
  ASSUME NEW S, NEW q \in Seq(S), q # <<>>
  PROVE  /\ Tail(q) \in Seq(S) /\ Len(q) \in Nat /\ Len(q) >= 1
         /\ Len(Tail(q)) = Len(q) - 1
         /\ Head(q) = q[1] /\ Head(q) \in S
         /\ \A i \in 1 .. Len(q) - 1 : Tail(q)[i] = q[i + 1] /\ i + 1 \in 1 .. Len(q)
BY HeadTailProperties, LenProperties, EmptySeq, ElementOfSeq

\* A sequence of numbers that counts on goes on counting with the next number,
LEMMA CountsFurther ==
  ASSUME NEW S, NEW q \in Seq(S), NEW n \in Nat, NEW e \in S,
         CountsOn(n, q), e = n + Len(q) + 1
  PROVE  CountsOn(n, Append(q, e))
<1> DEFINE v == Append(q, e)
<1>1. /\ Len(q) \in Nat /\ Len(v) = Len(q) + 1 /\ v[Len(q) + 1] = e
      /\ \A i \in 1 .. Len(q) : v[i] = q[i]
  BY Joined
<1> HIDE DEF v
<1>2. ASSUME NEW i \in 1 .. Len(v) PROVE v[i] = n + i
  <2>1. CASE i = Len(q) + 1
    BY <1>1, <2>1
  <2>2. CASE i # Len(q) + 1
    <3>1. i \in 1 .. Len(q)
      BY <1>1, <2>2
    <3> QED
      BY <1>1, <3>1 DEF CountsOn
  <2> QED
    BY <2>1, <2>2
<1> QED
  BY <1>2 DEF CountsOn, v

\* and without its first one from there.
LEMMA CountsShorter ==
  ASSUME NEW S, NEW q \in Seq(S), NEW n \in Nat, CountsOn(n, q), q # <<>>
  PROVE  Head(q) = n + 1 /\ CountsOn(n + 1, Tail(q))
<1> DEFINE v == Tail(q)
<1>1. /\ Len(q) \in Nat /\ Len(q) >= 1 /\ Len(v) = Len(q) - 1 /\ Head(q) = q[1]
      /\ \A i \in 1 .. Len(q) - 1 : v[i] = q[i + 1] /\ i + 1 \in 1 .. Len(q)
  BY Left
<1> HIDE DEF v
<1>2. ASSUME NEW i \in 1 .. Len(v) PROVE v[i] = (n + 1) + i
  <2>1. v[i] = q[i + 1] /\ i + 1 \in 1 .. Len(q) /\ i \in Nat
    BY <1>1
  <2>2. q[i + 1] = n + (i + 1)
    BY <2>1 DEF CountsOn
  <2> QED
    BY <2>1, <2>2
<1>3. Head(q) = n + 1
  <2>1. 1 \in 1 .. Len(q)
    BY <1>1
  <2> QED
    BY <1>1, <2>1 DEF CountsOn
<1> QED
  BY <1>2, <1>3 DEF CountsOn, v

\* A sequence that counts from one is the numbers up to its length.
LEMMA CountsFromOne ==
  ASSUME NEW S, NEW q \in Seq(S), CountsOn(0, q)
  PROVE  q = Upto(Len(q))
<1>1. Len(q) \in Nat /\ q = [i \in 1 .. Len(q) |-> q[i]]
  BY LenProperties, SeqDef
<1>2. \A i \in 1 .. Len(q) : q[i] = i
  BY <1>1 DEF CountsOn
<1> QED
  BY <1>1, <1>2 DEF Upto

\* and it holds no number beyond its length.
LEMMA NumbersFit ==
  ASSUME NEW n \in Nat, NEW q \in Seq(1 .. n), CountsOn(0, q)
  PROVE  Len(q) <= n
<1>1. Len(q) \in Nat /\ \A i \in 1 .. Len(q) : q[i] \in 1 .. n
  BY LenProperties, ElementOfSeq
<1>2. Len(q) # 0 => Len(q) \in 1 .. Len(q) /\ q[Len(q)] = Len(q)
  BY <1>1 DEF CountsOn
<1> QED
  BY <1>1, <1>2

\* An empty queue counts on from everywhere.
LEMMA EmptyCounts == \A n : CountsOn(n, <<>>)
BY EmptySeq DEF CountsOn

-----------------------------------------------------------------------------
(* Types, in parts.                                                        *)

AppTypes ==
  /\ wrote \in [Stream -> 0 .. MaxUp]
  /\ app_shut \in [Stream -> BOOLEAN] /\ app_gone \in [Stream -> BOOLEAN] /\ saw_eof \in [Stream -> BOOLEAN]
  /\ got \in [Stream -> Seq(Down)]

DuplexTypes ==
  /\ dn \in [Stream -> Seq(Down)] /\ up \in [Stream -> Seq(Up)] /\ to_local \in [Stream -> Seq(Down)]
  /\ \A s \in Stream : Len(dn[s]) <= Pipe /\ Len(up[s]) <= Pipe /\ Len(to_local[s]) <= LocalCap

PumpTypes ==
  /\ pump_shut \in [Stream -> BOOLEAN] /\ local_eof \in [Stream -> BOOLEAN]
  /\ pump \in [Stream -> {"select", "cmd", "write", "closing", "gone"}]
  /\ msg \in [Stream -> Command \cup {Writing(b) : b \in Down} \cup {NoMsg}]
  /\ fin_sig \in [Stream -> {"none", "sent", "seen", "dropped"}]
  /\ term_sig \in [Stream -> {"none", "sent", "dropped"}]

QueueTypes ==
  /\ cmds \in Seq(Command) /\ Len(cmds) <= CmdCap
  /\ h2c \in Seq(Frame)
  /\ sent \in [Stream -> 0 .. MaxDown] /\ confirmed \in [Stream -> 0 .. MaxUp]
  /\ h_fin \in [Stream -> BOOLEAN]

DriverTypes ==
  /\ open \in [Stream -> BOOLEAN] /\ endpoint \in [Stream -> BOOLEAN]
  /\ local_fin \in [Stream -> BOOLEAN] /\ remote_fin \in [Stream -> BOOLEAN]
  /\ drv \in {"select", "frames", "deliver"}
  /\ deliver \in [stream : Stream, byte : Down] \cup {NoMsg}

CounterTypes ==
  /\ pushed \in [Stream -> Seq(Up)] /\ acked \in [Stream -> Nat]
  /\ received \in [Stream -> Nat] /\ outbound \in [Stream -> Nat] /\ flushed \in [Stream -> Nat]
  /\ \A s \in Stream :
       /\ Len(pushed[s]) - acked[s] \in 0 .. Window
       /\ flushed[s] <= outbound[s] /\ outbound[s] <= received[s]

\* These are the type invariant.
LEMMA TypesAre ==
  TypeOK <=> AppTypes /\ DuplexTypes /\ PumpTypes /\ QueueTypes /\ DriverTypes /\ CounterTypes
BY DEF TypeOK, AppTypes, DuplexTypes, PumpTypes, QueueTypes, DriverTypes, CounterTypes

\* The application.
LEMMA AppTypesStep ==
  ASSUME TypeOK, [Next]_vars
  PROVE  AppTypes'
<1>0. AppTypes /\ DuplexTypes
  BY TypesAre
<1>1. CASE UNCHANGED appVars
  BY <1>0, <1>1 DEF AppTypes, DuplexTypes, appVars
<1>2. ASSUME NEW s \in Stream, AppWrites(s) PROVE AppTypes'
  <2>1. wrote[s] + 1 \in 0 .. MaxUp
    <3>1. wrote[s] \in 0 .. MaxUp /\ wrote[s] < MaxUp /\ MaxUp \in Nat
      BY <1>0, <1>2, PumpAssumption DEF AppWrites, AppTypes
    <3> QED
      BY <3>1
  <2>2. wrote' \in [Stream -> 0 .. MaxUp]
    BY <1>0, <1>2, <2>1 DEF AppWrites, AppTypes, Set
  <2> QED
    BY <1>0, <1>2, <2>2 DEF AppWrites, AppTypes
<1>3. ASSUME NEW s \in Stream, AppShuts(s) \/ AppDrops(s) PROVE AppTypes'
  BY <1>0, <1>3 DEF AppShuts, AppDrops, AppTypes, Set
<1>4. ASSUME NEW s \in Stream, AppReads(s) PROVE AppTypes'
  <2>1. got' \in [Stream -> Seq(Down)]
    <3>1. CASE dn[s] = <<>>
      BY <1>0, <1>4, <3>1 DEF AppReads, AppTypes, DuplexTypes
    <3>2. CASE dn[s] # <<>>
      <4>1. got[s] \in Seq(Down) /\ dn[s] \in Seq(Down)
        BY <1>0 DEF AppTypes, DuplexTypes
      <4>2. Append(got[s], Head(dn[s])) \in Seq(Down)
        BY <3>2, <4>1, Joined, Left
      <4> QED
        BY <1>0, <1>4, <3>2, <4>2 DEF AppReads, AppTypes, DuplexTypes, Set
    <3> QED
      BY <3>1, <3>2
  <2> QED
    BY <1>0, <1>4, <2>1 DEF AppReads, AppTypes, DuplexTypes, Set
<1> QED
  BY <1>1, <1>2, <1>3, <1>4
  DEF Next, App, Pump, Helper, Commands, Frames, PumpReads, PumpSends, PumpTakes, PumpWrites, PumpSeesFin,
      PumpPanics, PumpTerminates, HelperSends, HelperConfirms, HelperEnds, HandleLocalData, HandleLocalEof,
      HandleLocalClose, ApplyData, Deliver, ApplyAck, ApplyFin, ApplyReset, Flush, vars

\* The duplex and to_local.
LEMMA DuplexTypesStep ==
  ASSUME TypeOK, TasksHold, [Next]_vars
  PROVE  DuplexTypes'
<1> USE DEF Set
<1>0. AppTypes /\ DuplexTypes /\ PumpTypes /\ DriverTypes
  BY TypesAre
<1>1. CASE UNCHANGED <<up, dn, to_local>>
  BY <1>0, <1>1 DEF DuplexTypes
<1>2. ASSUME NEW s \in Stream, AppWrites(s) PROVE DuplexTypes'
  <2>1. wrote[s] + 1 \in Up /\ up[s] \in Seq(Up)
    <3>1. wrote[s] \in 0 .. MaxUp /\ wrote[s] < MaxUp /\ MaxUp \in Nat
      BY <1>0, <1>2, PumpAssumption DEF AppWrites, AppTypes
    <3>2. wrote[s] + 1 \in 1 .. MaxUp
      BY <3>1
    <3> QED
      BY <1>0, <3>2 DEF DuplexTypes, Up
  <2>2. Append(up[s], wrote[s] + 1) \in Seq(Up) /\ Len(Append(up[s], wrote[s] + 1)) <= Pipe
    BY <1>2, <2>1, Joined, PumpAssumption DEF AppWrites
  <2> QED
    BY <1>0, <1>2, <2>2 DEF AppWrites, DuplexTypes
<1>3. ASSUME NEW s \in Stream, AppDrops(s) PROVE DuplexTypes'
  <2>1. <<>> \in Seq(Down) /\ Len(<<>>) <= Pipe
    BY EmptySeq, PumpAssumption
  <2> QED
    BY <1>0, <1>3, <2>1 DEF AppDrops, DuplexTypes
<1>4. ASSUME NEW s \in Stream, AppReads(s), dn[s] # <<>> PROVE DuplexTypes'
  <2>1. dn[s] \in Seq(Down) /\ Len(dn[s]) <= Pipe
    BY <1>0 DEF AppTypes, DuplexTypes, PumpTypes, DriverTypes
  <2>2. Tail(dn[s]) \in Seq(Down) /\ Len(Tail(dn[s])) <= Pipe
    BY <1>4, <2>1, Left, PumpAssumption
  <2> QED
    BY <1>0, <1>4, <2>2 DEF AppReads, DuplexTypes
<1>5. ASSUME NEW s \in Stream, PumpReads(s), up[s] # <<>> PROVE DuplexTypes'
  <2>1. up[s] \in Seq(Up) /\ Len(up[s]) <= Pipe
    BY <1>0 DEF AppTypes, DuplexTypes, PumpTypes, DriverTypes
  <2>2. Tail(up[s]) \in Seq(Up) /\ Len(Tail(up[s])) <= Pipe
    BY <1>5, <2>1, Left, PumpAssumption
  <2> QED
    BY <1>0, <1>5, <2>2 DEF PumpReads, DuplexTypes
<1>6. ASSUME NEW s \in Stream, PumpTakes(s), to_local[s] # <<>> PROVE DuplexTypes'
  <2>1. to_local[s] \in Seq(Down) /\ Len(to_local[s]) <= LocalCap
    BY <1>0 DEF AppTypes, DuplexTypes, PumpTypes, DriverTypes
  <2>2. Tail(to_local[s]) \in Seq(Down) /\ Len(Tail(to_local[s])) <= LocalCap
    BY <1>6, <2>1, Left, PumpAssumption
  <2> QED
    BY <1>0, <1>6, <2>2 DEF PumpTakes, DuplexTypes
<1>7. ASSUME NEW s \in Stream, PumpWrites(s), ~(pump_shut[s] \/ app_gone[s]) PROVE DuplexTypes'
  <2>1. dn[s] \in Seq(Down) /\ msg[s].byte \in Down /\ Len(dn[s]) < Pipe
    BY <1>0, <1>7 DEF PumpWrites, AppTypes, DuplexTypes, PumpTypes, DriverTypes, TasksHold, Writing
  <2>2. Append(dn[s], msg[s].byte) \in Seq(Down) /\ Len(Append(dn[s], msg[s].byte)) <= Pipe
    BY <2>1, Joined, PumpAssumption
  <2> QED
    BY <1>0, <1>7, <2>2 DEF PumpWrites, DuplexTypes
<1>8. ASSUME Deliver, pump[deliver.stream] # "gone" PROVE DuplexTypes'
  <2> DEFINE s == deliver.stream
  <2>1. s \in Stream /\ deliver.byte \in Down /\ to_local[s] \in Seq(Down) /\ Len(to_local[s]) < LocalCap
    BY <1>0, <1>8 DEF Deliver, AppTypes, DuplexTypes, PumpTypes, DriverTypes, TasksHold
  <2>2. Append(to_local[s], deliver.byte) \in Seq(Down) /\ Len(Append(to_local[s], deliver.byte)) <= LocalCap
    BY <2>1, Joined, PumpAssumption
  <2> QED
    BY <1>0, <1>8, <2>1, <2>2 DEF Deliver, DuplexTypes
<1> QED
  BY <1>1, <1>2, <1>3, <1>4, <1>5, <1>6, <1>7, <1>8
  DEF Next, App, Pump, Helper, Commands, Frames, AppShuts, AppReads, PumpReads, PumpSends, PumpTakes, PumpWrites,
      PumpSeesFin, PumpPanics, PumpTerminates, HelperSends, HelperConfirms, HelperEnds, HandleLocalData,
      HandleLocalEof, HandleLocalClose, ApplyData, Deliver, ApplyAck, ApplyFin, ApplyReset, Flush, vars

\* What pump_local holds, and its oneshots.
LEMMA PumpTypesStep ==
  ASSUME TypeOK, [Next]_vars
  PROVE  PumpTypes'
<1> USE DEF Set
<1>0. DuplexTypes /\ PumpTypes /\ QueueTypes /\ DriverTypes
  BY TypesAre
<1>1. CASE UNCHANGED <<pumpVars, sigVars>>
  BY <1>0, <1>1 DEF PumpTypes, pumpVars, sigVars
<1>2. ASSUME NEW s \in Stream, PumpReads(s) PROVE PumpTypes'
  <2>1. up[s] # <<>> => LocalData(s, Head(up[s])) \in Command
    <3>1. up[s] # <<>> => Head(up[s]) \in Up
      BY <1>0, Left DEF DuplexTypes
    <3> QED
      BY <3>1 DEF LocalData, Command
  <2>2. LocalEof(s) \in Command
    BY DEF LocalEof, Command
  <2> QED
    BY <1>0, <1>2, <2>1, <2>2 DEF PumpReads, PumpGoto, PumpTypes, sigVars
<1>3. ASSUME NEW s \in Stream, PumpSends(s) PROVE PumpTypes'
  BY <1>0, <1>3 DEF PumpSends, PumpGoto, PumpTypes, sigVars
<1>4. ASSUME NEW s \in Stream, PumpTakes(s) PROVE PumpTypes'
  <2>1. to_local[s] # <<>> => Head(to_local[s]) \in Down
    BY <1>0, Left DEF DuplexTypes
  <2>2. CASE to_local[s] # <<>>
    BY <1>0, <1>4, <2>1, <2>2 DEF PumpTakes, PumpGoto, PumpTypes, sigVars
  <2>3. CASE to_local[s] = <<>>
    BY <1>0, <1>4, <2>3 DEF PumpTakes, PumpGoto, PumpTypes, sigVars
  <2> QED
    BY <2>2, <2>3
<1>5. ASSUME NEW s \in Stream, PumpWrites(s) PROVE PumpTypes'
  <2>1. LocalClose(s) \in Command
    BY DEF LocalClose, Command
  <2> QED
    BY <1>0, <1>5, <2>1 DEF PumpWrites, PumpGoto, PumpTypes, sigVars
<1>6. ASSUME NEW s \in Stream, PumpSeesFin(s) \/ PumpPanics(s) \/ PumpTerminates(s) PROVE PumpTypes'
  BY <1>0, <1>6 DEF PumpSeesFin, PumpPanics, PumpTerminates, PumpGoto, PumpTypes, sigVars
<1>7. ASSUME NEW s, Forget(s), UNCHANGED pumpVars PROVE PumpTypes'
  BY <1>0, <1>7 DEF Forget, PumpTypes, pumpVars
<1>8. CASE ApplyFin \/ ApplyReset
  BY <1>0, <1>8 DEF ApplyFin, ApplyReset, PumpTypes, pumpVars, sigVars
<1>9. CASE HandleLocalData \/ HandleLocalClose \/ Deliver
  <2>1. UNCHANGED pumpVars /\ (UNCHANGED sigVars \/ \E s : Forget(s))
    BY <1>9 DEF HandleLocalData, HandleLocalClose, Deliver
  <2> QED
    BY <1>1, <1>7, <2>1
<1> QED
  BY <1>1, <1>2, <1>3, <1>4, <1>5, <1>6, <1>8, <1>9
  DEF Next, App, Pump, Helper, Commands, Frames, AppWrites, AppShuts, AppDrops, AppReads, HelperSends,
      HelperConfirms, HelperEnds, HandleLocalEof, ApplyData, ApplyAck, Flush, vars

\* The session loop.
LEMMA DriverTypesStep ==
  ASSUME TypeOK, [Next]_vars
  PROVE  DriverTypes'
<1> USE DEF Set
<1>0. QueueTypes /\ DriverTypes
  BY TypesAre
<1>1. CASE UNCHANGED <<drv, deliver, open, endpoint, local_fin, remote_fin>>
  BY <1>0, <1>1 DEF DriverTypes
<1>2. CASE HandleLocalData \/ HandleLocalClose \/ Deliver
  <2>1. /\ (UNCHANGED <<open, endpoint>> \/ \E s : Forget(s)) /\ UNCHANGED <<local_fin, remote_fin>>
        /\ (UNCHANGED <<drv, deliver>> \/ (drv' = "frames" /\ deliver' = NoMsg))
    BY <1>2 DEF HandleLocalData, HandleLocalClose, Deliver
  <2>2. open' \in [Stream -> BOOLEAN] /\ endpoint' \in [Stream -> BOOLEAN]
    BY <1>0, <2>1 DEF DriverTypes, Forget
  <2> QED
    BY <1>0, <2>1, <2>2 DEF DriverTypes
<1>3. CASE HandleLocalEof
  BY <1>0, <1>3 DEF HandleLocalEof, DriverTypes
<1>4. CASE ApplyData
  <2>1. Head(h2c) \in Frame /\ Head(h2c).type = "Data"
    BY <1>0, <1>4, Left DEF ApplyData, NextFrame, QueueTypes
  <2>2. Head(h2c).stream \in Stream /\ Head(h2c).byte \in Down
    BY <2>1 DEF Frame
  <2> QED
    BY <1>0, <1>4, <2>2 DEF ApplyData, DriverTypes
<1>5. CASE ApplyAck \/ ApplyReset \/ Flush
  BY <1>0, <1>5 DEF ApplyAck, ApplyReset, Flush, DriverTypes
<1>6. CASE ApplyFin
  BY <1>0, <1>6 DEF ApplyFin, DriverTypes
<1> QED
  BY <1>1, <1>2, <1>3, <1>4, <1>5, <1>6
  DEF Next, App, Pump, Helper, Commands, Frames, AppWrites, AppShuts, AppDrops, AppReads, PumpReads, PumpSends,
      PumpTakes, PumpWrites, PumpSeesFin, PumpPanics, PumpTerminates, HelperSends, HelperConfirms, HelperEnds,
      drvVars, vars

\* The two queues, and what the helper counts.
LEMMA QueueTypesStep ==
  ASSUME TypeOK, TasksHold, UpJoins, [Next]_vars
  PROVE  QueueTypes'
<1> USE DEF Set
<1>0. PumpTypes /\ QueueTypes /\ CounterTypes
  BY TypesAre
<1>1. CASE UNCHANGED <<cmds, helperVars>>
  BY <1>0, <1>1 DEF QueueTypes, helperVars
<1>2. ASSUME NEW s \in Stream, PumpSends(s) PROVE QueueTypes'
  <2>1. msg[s] \in Command
    <3>1. CASE pump[s] = "cmd"
      <4>1. \A b \in Up : LocalData(s, b) \in Command
        BY DEF LocalData, Command
      <4>2. LocalEof(s) \in Command
        BY DEF LocalEof, Command
      <4> QED
        BY <3>1, <4>1, <4>2 DEF TasksHold
    <3>2. CASE pump[s] = "closing"
      <4>1. LocalClose(s) \in Command
        BY DEF LocalClose, Command
      <4> QED
        BY <3>2, <4>1 DEF TasksHold
    <3> QED
      BY <1>2, <3>1, <3>2 DEF PumpSends
  <2>2. Append(cmds, msg[s]) \in Seq(Command) /\ Len(Append(cmds, msg[s])) <= CmdCap
    BY <1>0, <1>2, <2>1, Joined, PumpAssumption DEF PumpSends, QueueTypes
  <2> QED
    BY <1>0, <1>2, <2>2 DEF PumpSends, QueueTypes, helperVars
<1>3. ASSUME cmds # <<>>, cmds' = Tail(cmds), UNCHANGED helperVars PROVE QueueTypes'
  <2>1. Tail(cmds) \in Seq(Command) /\ Len(Tail(cmds)) <= CmdCap
    BY <1>0, <1>3, Left, PumpAssumption DEF QueueTypes
  <2> QED
    BY <1>0, <1>3, <2>1 DEF QueueTypes, helperVars
<1>4. ASSUME h2c # <<>>, h2c' = Tail(h2c), UNCHANGED <<cmds, sent, confirmed, h_fin>> PROVE QueueTypes'
  <2>1. Tail(h2c) \in Seq(Frame)
    BY <1>0, <1>4, Left DEF QueueTypes
  <2> QED
    BY <1>0, <1>4, <2>1 DEF QueueTypes
<1>5. ASSUME NEW s \in Stream, HelperSends(s) PROVE QueueTypes'
  <2>1. sent[s] + 1 \in 0 .. MaxDown /\ sent[s] + 1 \in 1 .. MaxDown
    <3>1. sent[s] \in 0 .. MaxDown /\ sent[s] < MaxDown /\ MaxDown \in Nat
      BY <1>0, <1>5, PumpAssumption DEF HelperSends, QueueTypes
    <3> QED
      BY <3>1
  <2>2. [stream |-> s, type |-> "Data", byte |-> sent[s] + 1] \in Frame
    BY <2>1 DEF Frame, Down
  <2>3. h2c' \in Seq(Frame)
    BY <1>0, <1>5, <2>2, Joined DEF HelperSends, QueueTypes
  <2>4. sent' \in [Stream -> 0 .. MaxDown]
    BY <1>0, <1>5, <2>1 DEF HelperSends, QueueTypes
  <2> QED
    BY <1>0, <1>5, <2>3, <2>4 DEF HelperSends, QueueTypes
<1>6. ASSUME NEW s \in Stream, HelperConfirms(s) PROVE QueueTypes'
  <2>1. Len(pushed[s]) \in 1 .. MaxUp
    <3>1. /\ pushed[s] \in Seq(Up) /\ Len(pushed[s]) \in Nat
          /\ confirmed[s] \in 0 .. MaxUp /\ confirmed[s] < Len(pushed[s])
      BY <1>0, <1>6, LenProperties DEF HelperConfirms, QueueTypes, CounterTypes
    <3>2. Len(pushed[s]) <= MaxUp
      BY <1>6, <3>1, NumbersFit, PumpAssumption DEF UpJoins, JoinsUp, Up
    <3> QED
      BY <3>1, <3>2, PumpAssumption
  <2>2. [stream |-> s, type |-> "Ack", offset |-> Len(pushed[s])] \in Frame /\ Len(pushed[s]) \in 0 .. MaxUp
    BY <2>1, PumpAssumption DEF Frame, Up
  <2>3. h2c' \in Seq(Frame)
    BY <1>0, <1>6, <2>2, Joined DEF HelperConfirms, QueueTypes
  <2> QED
    BY <1>0, <1>6, <2>2, <2>3 DEF HelperConfirms, QueueTypes
<1>7. ASSUME NEW s \in Stream, HelperEnds(s, "Fin") \/ HelperEnds(s, "Reset") PROVE QueueTypes'
  <2>1. \A type \in {"Fin", "Reset"} : [stream |-> s, type |-> type] \in Frame
    BY DEF Frame
  <2>2. \E type \in {"Fin", "Reset"} : h2c' = Append(h2c, [stream |-> s, type |-> type])
    BY <1>7 DEF HelperEnds
  <2>3. h2c' \in Seq(Frame)
    BY <1>0, <2>1, <2>2, Joined DEF QueueTypes
  <2> QED
    BY <1>0, <1>7, <2>3 DEF HelperEnds, QueueTypes
<1>8. CASE Commands
  BY <1>3, <1>8 DEF Commands, HandleLocalData, HandleLocalEof, HandleLocalClose
<1>9. CASE ApplyData \/ ApplyAck \/ ApplyFin \/ ApplyReset
  BY <1>4, <1>9 DEF ApplyData, ApplyAck, ApplyFin, ApplyReset, NextFrame
<1> QED
  BY <1>1, <1>2, <1>5, <1>6, <1>7, <1>8, <1>9
  DEF Next, App, Pump, Helper, Frames, AppWrites, AppShuts, AppDrops, AppReads, PumpReads, PumpTakes, PumpWrites,
      PumpSeesFin, PumpPanics, PumpTerminates, Deliver, Flush, vars

-----------------------------------------------------------------------------
(* What comes next.                                                        *)

\* A frame or a command is at the head of its queue; the others are behind it.
LEMMA Heads ==
  ASSUME TypeOK
  PROVE  /\ h2c # <<>> => /\ Len(h2c) \in Nat /\ 1 \in 1 .. Len(h2c)
                          /\ Head(h2c) = h2c[1] /\ Head(h2c) \in Frame /\ Head(h2c).stream \in Stream
         /\ cmds # <<>> => /\ Len(cmds) \in Nat /\ 1 \in 1 .. Len(cmds)
                           /\ Head(cmds) = cmds[1] /\ Head(cmds) \in Command /\ Head(cmds).stream \in Stream
<1>0. QueueTypes
  BY TypesAre
<1>1. h2c # <<>> => Len(h2c) \in Nat /\ 1 \in 1 .. Len(h2c) /\ Head(h2c) = h2c[1] /\ Head(h2c) \in Frame
  BY <1>0, Left DEF QueueTypes
<1>2. cmds # <<>> => Len(cmds) \in Nat /\ 1 \in 1 .. Len(cmds) /\ Head(cmds) = cmds[1] /\ Head(cmds) \in Command
  BY <1>0, Left DEF QueueTypes
<1>3. \A f \in Frame : f.stream \in Stream
  BY DEF Frame
<1>4. \A c \in Command : c.stream \in Stream
  BY DEF Command
<1> QED
  BY <1>1, <1>2, <1>3, <1>4

\* Of a stream that is open, the next Data frame carries the next byte.
LEMMA NextByte ==
  ASSUME TypeOK, FramesJoin, h2c # <<>>, Head(h2c).type = "Data", open[Head(h2c).stream]
  PROVE  Head(h2c).byte \in Down /\ Head(h2c).byte = received[Head(h2c).stream] + 1
<1> DEFINE f == Head(h2c)
           s == f.stream
<1>1. f \in Frame /\ s \in Stream /\ f = h2c[1] /\ Len(h2c) \in Nat /\ 1 \in 1 .. Len(h2c)
  BY Heads
<1>2. f.byte \in Down /\ f.byte \in Nat
  BY <1>1, PumpAssumption DEF Frame, Down
<1>3. received[s] \in Nat /\ sent[s] \in Nat
  <2>1. received \in [Stream -> Nat] /\ sent \in [Stream -> 0 .. MaxDown]
    BY TypesAre DEF CounterTypes, QueueTypes
  <2> QED
    BY <1>1, <2>1
<1>4. f.byte <= sent[s] /\ received[s] < f.byte
  BY <1>1 DEF FramesJoin, JoinsHelper, FramesFollow
<1>5. received[s] + 1 \in received[s] + 1 .. sent[s]
  BY <1>2, <1>3, <1>4
<1>6. PICK i \in 1 .. Len(h2c) : IsFrame(h2c[i], s, "Data") /\ h2c[i].byte = received[s] + 1
  BY <1>1, <1>5 DEF FramesJoin, JoinsHelper, FramesFollow
<1>7. i # 1 => f.byte < h2c[i].byte
  <2> SUFFICES ASSUME i # 1 PROVE f.byte < h2c[i].byte
    OBVIOUS
  <2>1. 1 \in 1 .. i - 1
    BY <1>1
  <2>2. IsFrame(h2c[1], h2c[i].stream, "Data") /\ h2c[i].type = "Data"
    BY <1>1, <1>6 DEF IsFrame
  <2> QED
    BY <1>1, <2>1, <2>2 DEF FramesJoin, JoinsHelper, FramesFollow
<1>8. i = 1
  <2> HIDE DEF f, s
  <2> QED
    BY <1>2, <1>3, <1>4, <1>6, <1>7
<1> QED
  BY <1>1, <1>2, <1>6, <1>8

\* Likewise the next data command.
LEMMA NextData ==
  ASSUME TypeOK, UpJoins, cmds # <<>>, Head(cmds).kind = "data", open[Head(cmds).stream]
  PROVE  Head(cmds).byte \in Up /\ Head(cmds).byte = Len(pushed[Head(cmds).stream]) + 1
<1> DEFINE c == Head(cmds)
           s == c.stream
<1>1. c \in Command /\ s \in Stream /\ c = cmds[1] /\ Len(cmds) \in Nat /\ 1 \in 1 .. Len(cmds)
  BY Heads
<1>2. c.byte \in Up /\ c.byte \in Nat
  BY <1>1, PumpAssumption DEF Command, Up
<1>3. Len(pushed[s]) \in Nat /\ Sent(s) \in Int
  <2>1. pushed[s] \in Seq(Up) /\ up[s] \in Seq(Up) /\ wrote[s] \in 0 .. MaxUp
    BY <1>1, TypesAre DEF CounterTypes, DuplexTypes, AppTypes
  <2>2. Len(pushed[s]) \in Nat /\ Len(up[s]) \in Nat /\ wrote[s] \in Int
    BY <2>1, LenProperties
  <2> QED
    BY <2>2 DEF Sent
<1>4. c.byte <= Sent(s) /\ Len(pushed[s]) < c.byte
  BY <1>1 DEF UpJoins, JoinsUp, CommandsFollow
<1>5. Len(pushed[s]) + 1 \in Len(pushed[s]) + 1 .. Sent(s)
  <2> HIDE DEF c, s
  <2> QED
    BY <1>2, <1>3, <1>4
<1>6. PICK i \in 1 .. Len(cmds) : IsData(cmds[i], s) /\ cmds[i].byte = Len(pushed[s]) + 1
  BY <1>1, <1>5, SMTT(30) DEF UpJoins, JoinsUp, CommandsFollow
<1>7. i # 1 => c.byte < cmds[i].byte
  <2> SUFFICES ASSUME i # 1 PROVE c.byte < cmds[i].byte
    OBVIOUS
  <2>1. 1 \in 1 .. i - 1
    BY <1>1
  <2>2. IsData(cmds[i], cmds[1].stream)
    BY <1>1, <1>6 DEF IsData
  <2> QED
    BY <1>1, <2>1, <2>2 DEF UpJoins, JoinsUp, CommandsFollow
<1>8. i = 1
  <2> HIDE DEF c, s
  <2> QED
    BY <1>2, <1>3, <1>4, <1>6, <1>7
<1> QED
  BY <1>1, <1>2, <1>6, <1>8

\* An end of file is handled when every byte that was written is in the stream.
LEMMA NextEof ==
  ASSUME TypeOK, UpJoins, cmds # <<>>, Head(cmds).kind = "eof", open[Head(cmds).stream]
  PROVE  local_eof[Head(cmds).stream] /\ Len(pushed[Head(cmds).stream]) = wrote[Head(cmds).stream]
<1> DEFINE c == Head(cmds)
           s == c.stream
<1>1. c \in Command /\ s \in Stream /\ c = cmds[1] /\ Len(cmds) \in Nat /\ 1 \in 1 .. Len(cmds)
  BY Heads
<1>2. local_eof[s]
  BY <1>1 DEF UpJoins, JoinsUp, CommandsFollow
<1>3. Sent(s) = wrote[s] /\ wrote[s] \in Nat /\ Len(pushed[s]) \in Nat
  <2>1. up[s] = <<>> /\ msg[s].kind # "data"
    BY <1>1, <1>2 DEF UpJoins, JoinsUp, CommandsFollow
  <2>2. wrote[s] \in 0 .. MaxUp /\ pushed[s] \in Seq(Up)
    BY <1>1, TypesAre DEF CounterTypes, AppTypes
  <2>3. Len(up[s]) = 0 /\ wrote[s] \in Nat /\ Len(pushed[s]) \in Nat
    BY <2>1, <2>2, EmptySeq, LenProperties, PumpAssumption
  <2> QED
    BY <2>1, <2>3 DEF Sent
<1>4. Len(pushed[s]) <= Sent(s)
  BY <1>1 DEF UpJoins, JoinsUp, CommandsFollow
<1>5. ASSUME Len(pushed[s]) < Sent(s) PROVE FALSE
  <2>1. Sent(s) \in Len(pushed[s]) + 1 .. Sent(s)
    BY <1>3, <1>5
  <2>2. PICK i \in 1 .. Len(cmds) : IsData(cmds[i], s) /\ cmds[i].byte = Sent(s)
    BY <1>1, <2>1 DEF UpJoins, JoinsUp, CommandsFollow
  <2>3. i # 1
    BY <1>1, <2>2 DEF IsData
  <2>4. 1 \in 1 .. i - 1
    BY <1>1, <2>3
  <2>5. IsData(cmds[i], cmds[1].stream)
    BY <1>1, <2>2
  <2> QED
    BY <1>1, <2>4, <2>5 DEF UpJoins, JoinsUp, CommandsFollow
<1> QED
  BY <1>2, <1>3, <1>4, <1>5

\* What the session loop counts.
LEMMA CounterTypesStep ==
  ASSUME TypeOK, TasksHold, DownJoins, UpJoins, FramesJoin, [Next]_vars
  PROVE  CounterTypes'
<1> USE DEF Set
<1>0. QueueTypes /\ DriverTypes /\ CounterTypes
  BY TypesAre
<1>1. CASE UNCHANGED <<pushed, acked, received, outbound, flushed>>
  BY <1>0, <1>1 DEF CounterTypes
<1>2. CASE HandleLocalData /\ open[Command1.stream] /\ Len(pushed[Command1.stream]) - acked[Command1.stream] < Window
  <2> DEFINE s == Command1.stream
             p == Append(pushed[s], Command1.byte)
  <2>1. s \in Stream /\ Command1.byte \in Up /\ pushed[s] \in Seq(Up) /\ acked[s] \in Nat
    BY <1>0, <1>2, Heads, NextData DEF HandleLocalData, CounterTypes, Command1
  <2>2. p \in Seq(Up) /\ Len(p) = Len(pushed[s]) + 1 /\ Len(pushed[s]) \in Nat
    BY <2>1, Joined
  <2>3. Len(pushed[s]) - acked[s] \in 0 .. Window
    BY <1>0, <2>1 DEF CounterTypes
  <2>4. pushed' = [pushed EXCEPT ![s] = p] /\ UNCHANGED <<acked, received, outbound, flushed>>
    BY <1>2 DEF HandleLocalData
  <2> HIDE DEF s, p
  <2>5. Len(p) - acked[s] \in 0 .. Window
    BY <1>2, <2>1, <2>2, <2>3, PumpAssumption DEF s
  <2>6. pushed' \in [Stream -> Seq(Up)]
    BY <1>0, <2>2, <2>4 DEF CounterTypes
  <2>7. \A t \in Stream : Len(pushed'[t]) - acked'[t] \in 0 .. Window
    BY <1>0, <2>4, <2>5 DEF CounterTypes
  <2> QED
    BY <1>0, <2>4, <2>6, <2>7 DEF CounterTypes
<1>3. CASE ApplyData /\ open[Head(h2c).stream]
  <2> DEFINE s == Head(h2c).stream
             b == Head(h2c).byte
  <2>1. h2c # <<>> /\ s \in Stream /\ b \in Down /\ b = received[s] + 1
    BY <1>3, Heads, NextByte DEF ApplyData, NextFrame
  <2>2. received' = [received EXCEPT ![s] = b] /\ UNCHANGED <<pushed, acked, outbound, flushed>>
    BY <1>3 DEF ApplyData
  <2>3. b \in Nat /\ outbound[s] \in Nat /\ received[s] \in Nat /\ outbound[s] <= b
    BY <1>0, <2>1 DEF CounterTypes
  <2> HIDE DEF s, b
  <2> QED
    BY <1>0, <2>2, <2>3 DEF CounterTypes
<1>4. CASE Deliver
  <2> DEFINE s == deliver.stream
             b == deliver.byte
  <2>1. s \in Stream /\ b = received[s] /\ outbound[s] < received[s]
    BY <1>0, <1>4 DEF Deliver, DriverTypes, TasksHold, DownJoins, JoinsDown, Delivering
  <2>2. outbound' = [outbound EXCEPT ![s] = b] /\ UNCHANGED <<pushed, acked, received, flushed>>
    BY <1>4 DEF Deliver
  <2>3. b \in Nat /\ b <= received[s] /\ flushed[s] <= b
    <3>1. received[s] \in Nat /\ outbound[s] \in Nat /\ flushed[s] \in Nat /\ flushed[s] <= outbound[s]
      BY <1>0, <2>1 DEF CounterTypes
    <3> QED
      BY <2>1, <3>1
  <2> HIDE DEF s, b
  <2> QED
    BY <1>0, <2>2, <2>3 DEF CounterTypes
<1>5. CASE ApplyAck /\ open[Head(h2c).stream]
  <2> DEFINE s == Head(h2c).stream
             n == Head(h2c).offset
  <2>1. h2c # <<>> /\ Head(h2c).type = "Ack" /\ s \in Stream /\ Head(h2c) = h2c[1] /\ 1 \in 1 .. Len(h2c)
    BY <1>5, Heads DEF ApplyAck, NextFrame
  <2>2. acked[s] <= n /\ n <= confirmed[s] /\ confirmed[s] <= Len(pushed[s])
    BY <2>1 DEF FramesJoin, JoinsHelper, FramesFollow
  <2>3. n \in Nat
    <3>1. \A f \in Frame : f.type = "Ack" => f.offset \in Up
      BY DEF Frame
    <3> QED
      BY <2>1, <3>1, Heads, PumpAssumption DEF Up
  <2>4. acked' = [acked EXCEPT ![s] = n] /\ UNCHANGED <<pushed, received, outbound, flushed>>
    BY <1>5 DEF ApplyAck
  <2>5. /\ acked[s] \in Nat /\ confirmed[s] \in Nat /\ Len(pushed[s]) \in Nat
        /\ Len(pushed[s]) - acked[s] \in 0 .. Window
    BY <1>0, <2>1, LenProperties, PumpAssumption DEF CounterTypes, QueueTypes
  <2> HIDE DEF s, n
  <2>6. Len(pushed[s]) - n \in 0 .. Window
    BY <2>2, <2>3, <2>5, PumpAssumption
  <2> QED
    BY <1>0, <2>3, <2>4, <2>6 DEF CounterTypes
<1>6. CASE Flush
  <2>1. flushed' = outbound /\ UNCHANGED <<pushed, acked, received, outbound>>
    BY <1>6 DEF Flush
  <2> QED
    BY <1>0, <2>1 DEF CounterTypes
<1> QED
  BY <1>1, <1>2, <1>3, <1>4, <1>5, <1>6
  DEF Next, App, Pump, Helper, Commands, Frames, AppWrites, AppShuts, AppDrops, AppReads, PumpReads, PumpSends,
      PumpTakes, PumpWrites, PumpSeesFin, PumpPanics, PumpTerminates, HelperSends, HelperConfirms, HelperEnds,
      HandleLocalData, HandleLocalEof, HandleLocalClose, ApplyData, ApplyAck, ApplyFin, ApplyReset, drvVars, vars

-----------------------------------------------------------------------------
(* What the tasks hold.                                                    *)

\* pump_local and run_session hold what their state says.
LEMMA TasksStep ==
  ASSUME TypeOK, TasksHold, [Next]_vars
  PROVE  TasksHold'
<1> USE DEF Set
<1> DEFINE PumpHolds(s) == /\ pump[s] \in {"select", "gone"} => msg[s] = NoMsg
                           /\ pump[s] = "cmd" => msg[s] = LocalEof(s) \/ msg[s] \in {LocalData(s, b) : b \in Up}
                           /\ pump[s] = "closing" => msg[s] = LocalClose(s)
                           /\ pump[s] = "write" => msg[s] \in {Writing(b) : b \in Down}
           DriverHolds == drv = "deliver" => deliver # NoMsg /\ open[deliver.stream]
<1>0. DuplexTypes /\ PumpTypes /\ QueueTypes /\ DriverTypes
  BY TypesAre
<1>1. \A s \in Stream : PumpHolds(s)'
  <2>1. CASE UNCHANGED <<pump, msg>>
    BY <2>1 DEF TasksHold
  <2>2. ASSUME NEW s \in Stream, PumpReads(s) PROVE \A t \in Stream : PumpHolds(t)'
    <3>1. up[s] # <<>> => Head(up[s]) \in Up
      BY <1>0, Left DEF DuplexTypes
    <3>2. msg'[s] = LocalEof(s) \/ msg'[s] \in {LocalData(s, b) : b \in Up}
      BY <1>0, <2>2, <3>1 DEF PumpReads, PumpGoto, PumpTypes
    <3>3. pump'[s] = "cmd" /\ \A t \in Stream : t # s => pump'[t] = pump[t] /\ msg'[t] = msg[t]
      BY <1>0, <2>2 DEF PumpReads, PumpGoto, PumpTypes
    <3> QED
      BY <3>2, <3>3 DEF TasksHold
  <2>3. ASSUME NEW s \in Stream, PumpTakes(s) PROVE \A t \in Stream : PumpHolds(t)'
    <3>1. to_local[s] # <<>> => Head(to_local[s]) \in Down
      BY <1>0, Left DEF DuplexTypes
    <3>2. \/ pump'[s] = "write" /\ msg'[s] \in {Writing(b) : b \in Down}
          \/ pump'[s] = "gone" /\ msg'[s] = NoMsg
      BY <1>0, <2>3, <3>1 DEF PumpTakes, PumpGoto, PumpTypes
    <3>3. \A t \in Stream : t # s => pump'[t] = pump[t] /\ msg'[t] = msg[t]
      BY <1>0, <2>3 DEF PumpTakes, PumpGoto, PumpTypes
    <3> QED
      BY <3>2, <3>3 DEF TasksHold
  <2>4. ASSUME NEW s \in Stream, PumpSends(s) \/ PumpPanics(s) \/ PumpTerminates(s)
        PROVE  \A t \in Stream : PumpHolds(t)'
    <3>1. pump'[s] \in {"select", "gone"} /\ msg'[s] = NoMsg
      BY <1>0, <2>4 DEF PumpSends, PumpPanics, PumpTerminates, PumpGoto, PumpTypes
    <3>2. \A t \in Stream : t # s => pump'[t] = pump[t] /\ msg'[t] = msg[t]
      BY <1>0, <2>4 DEF PumpSends, PumpPanics, PumpTerminates, PumpGoto, PumpTypes
    <3> QED
      BY <3>1, <3>2 DEF TasksHold
  <2>5. ASSUME NEW s \in Stream, PumpWrites(s) PROVE \A t \in Stream : PumpHolds(t)'
    <3>1. \/ pump'[s] = "closing" /\ msg'[s] = LocalClose(s)
          \/ pump'[s] = "select" /\ msg'[s] = NoMsg
      BY <1>0, <2>5 DEF PumpWrites, PumpGoto, PumpTypes
    <3>2. \A t \in Stream : t # s => pump'[t] = pump[t] /\ msg'[t] = msg[t]
      BY <1>0, <2>5 DEF PumpWrites, PumpGoto, PumpTypes
    <3> QED
      BY <3>1, <3>2 DEF TasksHold
  <2> HIDE DEF PumpHolds
  <2>6. ASSUME NEW s \in Stream, App(s) \/ PumpSeesFin(s) PROVE UNCHANGED <<pump, msg>>
    BY <2>6 DEF App, AppWrites, AppShuts, AppDrops, AppReads, PumpSeesFin, pumpVars
  <2>7. ASSUME NEW s \in Stream, Helper(s) PROVE UNCHANGED <<pump, msg>>
    BY <2>7 DEF Helper, HelperSends, HelperConfirms, HelperEnds, pumpVars
  <2>8. ASSUME Commands PROVE UNCHANGED <<pump, msg>>
    BY <2>8 DEF Commands, HandleLocalData, HandleLocalEof, HandleLocalClose, pumpVars
  <2>9. ASSUME Frames PROVE UNCHANGED <<pump, msg>>
    BY <2>9 DEF Frames, ApplyData, Deliver, ApplyAck, ApplyFin, ApplyReset, Flush, pumpVars
  <2>10. ASSUME UNCHANGED vars PROVE UNCHANGED <<pump, msg>>
    BY <2>10 DEF vars, pumpVars
  <2>11. CASE \E s \in Stream : Pump(s) /\ ~PumpSeesFin(s)
    <3>1. PICK s \in Stream : Pump(s) /\ ~PumpSeesFin(s)
      BY <2>11, Zenon
    <3>2. \/ PumpReads(s) \/ PumpTakes(s) \/ PumpWrites(s)
          \/ PumpSends(s) \/ PumpPanics(s) \/ PumpTerminates(s)
      BY <3>1, Zenon DEF Pump
    <3> QED
      BY <2>2, <2>3, <2>4, <2>5, <3>2, Zenon
  <2>12. CASE \E s \in Stream : App(s) \/ PumpSeesFin(s) \/ Helper(s)
    BY <2>1, <2>6, <2>7, <2>12
  <2>13. CASE Commands \/ Frames \/ UNCHANGED vars
    BY <2>1, <2>8, <2>9, <2>10, <2>13
  <2> QED
    BY <2>11, <2>12, <2>13 DEF Next
<1>2. DriverHolds'
  <2>1. CASE UNCHANGED <<drv, deliver, open>>
    BY <2>1 DEF TasksHold
  <2>2. CASE drv' # "deliver"
    BY <2>2
  <2>3. CASE ApplyData /\ open[Head(h2c).stream]
    BY <1>0, <2>3 DEF ApplyData, NoMsg
  <2>4. CASE HandleLocalData \/ HandleLocalEof \/ HandleLocalClose
    BY <2>2, <2>4 DEF HandleLocalData, HandleLocalEof, HandleLocalClose
  <2>5. CASE Frames /\ ~(ApplyData /\ open[Head(h2c).stream])
    BY <2>2, <2>5 DEF Frames, ApplyData, Deliver, ApplyAck, ApplyFin, ApplyReset, Flush
  <2> HIDE DEF DriverHolds
  <2>6. ASSUME NEW s \in Stream, App(s) PROVE UNCHANGED <<drv, deliver, open>>
    BY <2>6 DEF App, AppWrites, AppShuts, AppDrops, AppReads, drvVars
  <2>7. ASSUME NEW s \in Stream, Pump(s) PROVE UNCHANGED <<drv, deliver, open>>
    BY <2>7 DEF Pump, PumpReads, PumpSends, PumpTakes, PumpWrites, PumpSeesFin, PumpPanics, PumpTerminates, drvVars
  <2>8. ASSUME NEW s \in Stream, Helper(s) PROVE UNCHANGED <<drv, deliver, open>>
    BY <2>8 DEF Helper, HelperSends, HelperConfirms, HelperEnds, drvVars
  <2>9. ASSUME UNCHANGED vars PROVE UNCHANGED <<drv, deliver, open>>
    BY <2>9 DEF vars, drvVars
  <2>10. CASE \E s \in Stream : App(s) \/ Pump(s) \/ Helper(s)
    BY <2>1, <2>6, <2>7, <2>8, <2>10
  <2>11. CASE Commands
    BY <2>4, <2>11, Zenon DEF Commands
  <2>12. CASE Frames
    BY <2>3, <2>5, <2>12, Zenon
  <2> QED
    BY <2>1, <2>9, <2>10, <2>11, <2>12 DEF Next
<1> QED
  BY <1>1, <1>2 DEF TasksHold

-----------------------------------------------------------------------------
(* From the session loop to the application.                               *)

\* A stream whose bytes stay where they are keeps its order, also when its pump
\* turns to the other direction, or gives up.
LEMMA DownKeeps ==
  ASSUME NEW s, JoinsDown(s),
         got'[s] = got[s], dn'[s] = dn[s], app_gone'[s] = app_gone[s], to_local'[s] = to_local[s],
         received'[s] = received[s], outbound'[s] = outbound[s],
         Delivering(s)' <=> Delivering(s), deliver' = deliver \/ ~Delivering(s),
         \/ pump'[s] = pump[s] /\ msg'[s] = msg[s]
         \/ pump'[s] \in {"closing", "gone"}
         \/ pump[s] \in {"select", "cmd"} /\ pump'[s] \in {"select", "cmd"}
  PROVE  JoinsDown(s)'
<1>1. CASE pump'[s] = pump[s] /\ msg'[s] = msg[s]
  <2>1. Taken(s)' = Taken(s) /\ Passed(s)' = Passed(s)
    BY <1>1 DEF Taken, Passed
  <2> QED
    BY <1>1, <2>1 DEF JoinsDown, CountsOn
<1>2. CASE pump'[s] \in {"closing", "gone"}
  BY <1>2 DEF JoinsDown, CountsOn
<1>3. CASE pump[s] \in {"select", "cmd"} /\ pump'[s] \in {"select", "cmd"}
  <2>1. Taken(s)' = Taken(s)
    BY <1>3 DEF Taken, Passed
  <2> QED
    BY <1>3, <2>1 DEF JoinsDown, CountsOn
<1> QED
  BY <1>1, <1>2, <1>3

\* What is counted for a stream.
LEMMA DownCounts ==
  ASSUME TypeOK, NEW s \in Stream
  PROVE  /\ got[s] \in Seq(Down) /\ dn[s] \in Seq(Down) /\ to_local[s] \in Seq(Down)
         /\ Len(got[s]) \in Nat /\ Len(dn[s]) \in Nat /\ Len(to_local[s]) \in Nat
         /\ Passed(s) \in Nat /\ Taken(s) \in Nat
         /\ received[s] \in Nat /\ outbound[s] \in Nat /\ outbound[s] <= received[s]
<1>1. /\ got[s] \in Seq(Down) /\ dn[s] \in Seq(Down) /\ to_local[s] \in Seq(Down)
      /\ received[s] \in Nat /\ outbound[s] \in Nat /\ outbound[s] <= received[s]
  BY TypesAre DEF AppTypes, DuplexTypes, CounterTypes
<1>2. Len(got[s]) \in Nat /\ Len(dn[s]) \in Nat /\ Len(to_local[s]) \in Nat
  BY <1>1, LenProperties
<1>3. Passed(s) \in Nat
  <2>1. \A m, n \in Nat : m + n \in Nat
    OBVIOUS
  <2> QED
    BY <1>2, <2>1, Zenon DEF Passed
<1>4. Taken(s) \in Nat
  BY <1>3 DEF Taken
<1> QED
  BY <1>1, <1>2, <1>3, <1>4

\* The application reads a byte.
LEMMA DownReads ==
  ASSUME TypeOK, NEW s \in Stream, JoinsDown(s), AppReads(s)
  PROVE  JoinsDown(s)'
<1>0. /\ got[s] \in Seq(Down) /\ dn[s] \in Seq(Down) /\ Len(got[s]) \in Nat /\ Len(dn[s]) \in Nat
      /\ got \in [Stream -> Seq(Down)] /\ dn \in [Stream -> Seq(Down)]
  BY DownCounts, TypesAre DEF AppTypes, DuplexTypes
<1>1. UNCHANGED <<app_gone, pump, msg, to_local, received, outbound, drv, deliver>> /\ ~app_gone[s]
  BY DEF AppReads, pumpVars, drvVars
<1>2. CASE dn[s] = <<>>
  <2>1. got' = got /\ dn' = dn
    BY <1>2 DEF AppReads
  <2> QED
    BY <1>1, <2>1, DownKeeps DEF Delivering
<1>3. CASE dn[s] # <<>>
  <2>1. got'[s] = Append(got[s], Head(dn[s])) /\ dn'[s] = Tail(dn[s])
    BY <1>0, <1>3 DEF AppReads, Set
  <2>2. Head(dn[s]) = Len(got[s]) + 1 /\ CountsOn(Len(got[s]) + 1, Tail(dn[s])) /\ Head(dn[s]) \in Down
    BY <1>0, <1>1, <1>3, CountsShorter, Left DEF JoinsDown
  <2>3. Head(dn[s]) = 0 + Len(got[s]) + 1
    BY <1>0, <2>2
  <2>4. CountsOn(0, Append(got[s], Head(dn[s])))
    BY <1>0, <2>2, <2>3, CountsFurther DEF JoinsDown
  <2>5. Len(got'[s]) = Len(got[s]) + 1 /\ Len(dn'[s]) = Len(dn[s]) - 1
    BY <1>0, <1>3, <2>1, <2>2, Joined, Left
  <2>6. Passed(s)' = Passed(s)
    BY <1>0, <2>5 DEF Passed
  <2>7. Taken(s)' = Taken(s) /\ (Delivering(s)' <=> Delivering(s))
    BY <1>1, <2>6 DEF Taken, Delivering
  <2>8. CountsOn(0, got[s])' /\ CountsOn(Len(got[s]), dn[s])'
    BY <2>1, <2>2, <2>4, <2>5 DEF CountsOn
  <2>9. CountsOn(Taken(s), to_local[s])' <=> CountsOn(Taken(s), to_local[s])
    BY <1>1, <2>7 DEF CountsOn
  <2> QED
    BY <1>1, <2>6, <2>7, <2>8, <2>9 DEF JoinsDown
<1> QED
  BY <1>2, <1>3

\* The pump takes the byte that comes next.
LEMMA DownTakes ==
  ASSUME TypeOK, NEW s \in Stream, JoinsDown(s), PumpTakes(s)
  PROVE  JoinsDown(s)'
<1>0. pump \in [Stream -> {"select", "cmd", "write", "closing", "gone"}] /\ DOMAIN msg = Stream
  BY TypesAre DEF PumpTypes
<1>1. UNCHANGED <<got, dn, app_gone, received, outbound, drv, deliver>> /\ pump[s] = "select"
  BY DEF PumpTakes, Selects, appVars, drvVars
<1>2. CASE to_local[s] = <<>>
  <2>1. pump'[s] = "gone" /\ to_local' = to_local
    BY <1>0, <1>2 DEF PumpTakes, PumpGoto, Set
  <2> QED
    BY <1>1, <2>1, DownKeeps DEF Delivering
<1>3. CASE to_local[s] # <<>>
  <2>1. /\ pump'[s] = "write" /\ msg'[s] = Writing(Head(to_local[s])) /\ to_local'[s] = Tail(to_local[s])
    BY <1>0, <1>3, TypesAre DEF PumpTakes, PumpGoto, Set, DuplexTypes
  <2>2. Passed(s)' = Passed(s) /\ Taken(s) = Passed(s) /\ Taken(s)' = Passed(s) + 1
    BY <1>1, <2>1 DEF Passed, Taken
  <2>3. Delivering(s)' <=> Delivering(s)
    BY <1>1 DEF Delivering
  <2>4. ~app_gone[s] =>
          /\ msg'[s].byte = Passed(s) + 1
          /\ CountsOn(Taken(s), to_local[s])'
          /\ received[s] = (Taken(s) + 1) + Len(to_local'[s]) + (IF Delivering(s) THEN 1 ELSE 0)
    <3> SUFFICES ASSUME ~app_gone[s]
                 PROVE  /\ msg'[s].byte = Passed(s) + 1
                        /\ CountsOn(Taken(s), to_local[s])'
                        /\ received[s] = (Taken(s) + 1) + Len(to_local'[s]) + (IF Delivering(s) THEN 1 ELSE 0)
      OBVIOUS
    <3>1. /\ CountsOn(Taken(s), to_local[s])
          /\ received[s] = Taken(s) + Len(to_local[s]) + (IF Delivering(s) THEN 1 ELSE 0)
      BY <1>1 DEF JoinsDown
    <3>2. Head(to_local[s]) = Taken(s) + 1 /\ CountsOn(Taken(s) + 1, Tail(to_local[s]))
      BY <1>3, <3>1, DownCounts, CountsShorter
    <3>3. Len(to_local'[s]) = Len(to_local[s]) - 1 /\ Len(to_local[s]) \in Nat /\ Taken(s) \in Nat
      BY <1>3, <2>1, DownCounts, Left
    <3>4. msg'[s].byte = Passed(s) + 1
      BY <2>1, <2>2, <3>2 DEF Writing
    <3>5. CountsOn(Taken(s), to_local[s])'
      BY <2>1, <2>2, <3>2 DEF CountsOn
    <3>6. received[s] = (Taken(s) + 1) + Len(to_local'[s]) + (IF Delivering(s) THEN 1 ELSE 0)
      BY <3>1, <3>3
    <3> QED
      BY <3>4, <3>5, <3>6
  <2> QED
    BY <1>1, <2>1, <2>2, <2>3, <2>4 DEF JoinsDown, CountsOn
<1> QED
  BY <1>2, <1>3

\* The pump writes the byte it took.
LEMMA DownWrites ==
  ASSUME TypeOK, TasksHold, NEW s \in Stream, JoinsDown(s), PumpWrites(s)
  PROVE  JoinsDown(s)'
<1>0. pump \in [Stream -> {"select", "cmd", "write", "closing", "gone"}] /\ DOMAIN msg = Stream
  BY TypesAre DEF PumpTypes
<1>1. UNCHANGED <<got, app_gone, to_local, received, outbound, drv, deliver>> /\ pump[s] = "write"
  BY DEF PumpWrites, appVars, drvVars
<1>2. CASE pump_shut[s] \/ app_gone[s]
  <2>1. pump'[s] = "closing" /\ dn' = dn
    BY <1>0, <1>2 DEF PumpWrites, PumpGoto, Set
  <2> QED
    BY <1>1, <2>1, DownKeeps DEF Delivering
<1>3. CASE ~(pump_shut[s] \/ app_gone[s])
  <2>1. pump'[s] = "select" /\ dn'[s] = Append(dn[s], msg[s].byte)
    BY <1>0, <1>3, TypesAre DEF PumpWrites, PumpGoto, Set, DuplexTypes
  <2>0. dn[s] \in Seq(Down) /\ Len(got[s]) \in Nat /\ Len(dn[s]) \in Nat
    BY DownCounts
  <2>2. msg[s].byte = Len(got[s]) + Len(dn[s]) + 1 /\ msg[s].byte \in Down
    <3>1. msg[s].byte = Passed(s) + 1
      BY <1>1, <1>3 DEF JoinsDown
    <3>2. msg[s].byte \in Down
      BY <1>1 DEF TasksHold, Writing
    <3> QED
      BY <3>1, <3>2 DEF Passed
  <2>3. CountsOn(Len(got[s]), Append(dn[s], msg[s].byte)) /\ Len(dn'[s]) = Len(dn[s]) + 1
    <3>1. CountsOn(Len(got[s]), dn[s])
      BY <1>3 DEF JoinsDown
    <3>2. CountsOn(Len(got[s]), Append(dn[s], msg[s].byte))
      BY <2>0, <2>2, <3>1, CountsFurther
    <3>3. Len(Append(dn[s], msg[s].byte)) = Len(dn[s]) + 1
      BY <2>0, <2>2, Joined
    <3> QED
      BY <2>1, <3>2, <3>3
  <2>4. Taken(s)' = Taken(s)
    <3>1. Passed(s)' = Passed(s) + 1
      <4>1. \A m, n \in Nat : m + (n + 1) = (m + n) + 1
        OBVIOUS
      <4>2. Passed(s)' = Len(got[s]) + (Len(dn[s]) + 1)
        BY <1>1, <2>3 DEF Passed
      <4> QED
        BY <2>0, <4>1, <4>2, Zenon DEF Passed
    <3> QED
      BY <1>1, <2>1, <3>1 DEF Taken
  <2>5. Delivering(s)' <=> Delivering(s)
    BY <1>1 DEF Delivering
  <2>6. CountsOn(Len(got[s]), dn[s])' /\ (CountsOn(Taken(s), to_local[s])' <=> CountsOn(Taken(s), to_local[s]))
    BY <1>1, <2>1, <2>3, <2>4 DEF CountsOn
  <2> QED
    BY <1>1, <1>3, <2>1, <2>4, <2>5, <2>6 DEF JoinsDown, CountsOn
<1> QED
  BY <1>2, <1>3

\* The session loop takes the next byte from the channel.
LEMMA DownReceives ==
  ASSUME TypeOK, FramesJoin, DownJoins, ApplyData, NEW t \in Stream
  PROVE  JoinsDown(t)'
<1> DEFINE s == Head(h2c).stream
           b == Head(h2c).byte
<1>0. h2c # <<>> /\ s \in Stream /\ Head(h2c).type = "Data" /\ received \in [Stream -> Nat] /\ JoinsDown(t)
  BY Heads, TypesAre DEF ApplyData, NextFrame, CounterTypes, DownJoins
<1>1. UNCHANGED <<got, dn, app_gone, to_local, pump, msg, outbound>> /\ drv # "deliver"
  BY DEF ApplyData, NextFrame, appVars, pumpVars
<1>2. CASE ~open[s]
  <2>1. received' = received /\ drv' = "frames"
    BY <1>2 DEF ApplyData
  <2> QED
    BY <1>0, <1>1, <2>1, DownKeeps DEF Delivering
<1>3. CASE open[s]
  <2>1. b = received[s] + 1
    BY <1>0, <1>3, NextByte
  <2>2. received' = [received EXCEPT ![s] = b] /\ drv' = "deliver" /\ deliver' = [stream |-> s, byte |-> b]
    BY <1>3 DEF ApplyData, Set
  <2> HIDE DEF s, b
  <2>3. CASE t # s
    <3>1. received'[t] = received[t] /\ ~Delivering(t) /\ ~Delivering(t)'
      BY <1>0, <1>1, <2>2, <2>3 DEF Delivering
    <3> QED
      BY <1>0, <1>1, <3>1, DownKeeps
  <2>4. CASE t = s
    <3>1. received'[t] = received[t] + 1 /\ ~Delivering(t) /\ Delivering(t)' /\ deliver'.byte = received[t] + 1
      BY <1>0, <1>1, <2>1, <2>2, <2>4 DEF Delivering
    <3>2. Taken(t)' = Taken(t) /\ Passed(t)' = Passed(t)
      BY <1>1 DEF Taken, Passed
    <3>3. received[t] \in Nat /\ outbound[t] \in Nat /\ outbound[t] <= received[t] /\ Taken(t) \in Nat
          /\ Len(to_local[t]) \in Nat
      BY DownCounts
    <3>4. received[t] = Taken(t) + Len(to_local[t]) + 0 =>
            received'[t] = Taken(t) + Len(to_local[t]) + 1
      BY <3>1, <3>3
    <3>5. outbound[t] < received'[t]
      BY <3>1, <3>3
    <3>6. CountsOn(Taken(t), to_local[t])' <=> CountsOn(Taken(t), to_local[t])
      BY <1>1, <3>2 DEF CountsOn
    <3> QED
      BY <1>0, <1>1, <3>1, <3>2, <3>4, <3>5, <3>6 DEF JoinsDown, CountsOn
  <2> QED
    BY <2>3, <2>4
<1> QED
  BY <1>2, <1>3

\* and hands it over.
LEMMA DownDelivers ==
  ASSUME TypeOK, TasksHold, DownJoins, Deliver, NEW t \in Stream
  PROVE  JoinsDown(t)'
<1> DEFINE s == deliver.stream
           b == deliver.byte
<1>0. /\ s \in Stream /\ b \in Down /\ JoinsDown(t) /\ Delivering(s) /\ deliver # NoMsg
      /\ outbound \in [Stream -> Nat] /\ to_local \in [Stream -> Seq(Down)]
  BY TypesAre DEF Deliver, DriverTypes, CounterTypes, DuplexTypes, TasksHold, DownJoins, Delivering
<1>1. /\ UNCHANGED <<got, dn, app_gone, pump, msg, received>> /\ drv' = "frames"
      /\ outbound' = [outbound EXCEPT ![s] = b]
      /\ IF pump[s] = "gone" THEN to_local' = to_local
                             ELSE to_local' = [to_local EXCEPT ![s] = Append(to_local[s], b)]
  BY DEF Deliver, Set, appVars, pumpVars
<1>2. CASE t # s
  <2>1. /\ to_local'[t] = to_local[t] /\ outbound'[t] = outbound[t]
        /\ ~Delivering(t) /\ ~Delivering(t)'
    <3> HIDE DEF b
    <3> QED
      BY <1>0, <1>1, <1>2 DEF Delivering
  <2> QED
    BY <1>0, <1>1, <2>1, DownKeeps
<1>3. CASE t = s /\ pump[s] = "gone"
  <2>1. ~Delivering(t)'
    BY <1>1 DEF Delivering
  <2>2. pump'[t] = "gone" /\ to_local'[t] = to_local[t] /\ got'[t] = got[t] /\ dn'[t] = dn[t]
    BY <1>1, <1>3
  <2> HIDE DEF s, b
  <2> QED
    BY <1>0, <1>1, <2>1, <2>2 DEF JoinsDown, CountsOn
<1>4. CASE t = s /\ pump[s] # "gone"
  <2>1. to_local'[t] = Append(to_local[t], b) /\ ~Delivering(t)' /\ Delivering(t)
    BY <1>0, <1>1, <1>4 DEF Delivering
  <2>2. b = received[t] /\ b \in Down
    BY <1>0, <1>4 DEF JoinsDown
  <2> HIDE DEF s, b
  <2>3. Taken(t)' = Taken(t) /\ Passed(t)' = Passed(t)
    BY <1>1 DEF Taken, Passed
  <2>4. ~app_gone[t] /\ pump[t] \in {"select", "cmd", "write"} =>
          CountsOn(Taken(t), Append(to_local[t], b)) /\ received[t] = Taken(t) + Len(Append(to_local[t], b)) + 0
    <3> SUFFICES ASSUME ~app_gone[t], pump[t] \in {"select", "cmd", "write"}
                 PROVE  CountsOn(Taken(t), Append(to_local[t], b)) /\ received[t] = Taken(t) + Len(Append(to_local[t], b)) + 0
      OBVIOUS
    <3>1. CountsOn(Taken(t), to_local[t]) /\ received[t] = Taken(t) + Len(to_local[t]) + 1
      BY <1>0, <2>1 DEF JoinsDown
    <3>2. to_local[t] \in Seq(Down) /\ Len(to_local[t]) \in Nat /\ Taken(t) \in Nat
      BY DownCounts
    <3>3. CountsOn(Taken(t), Append(to_local[t], b))
      BY <2>2, <3>1, <3>2, CountsFurther
    <3>4. Len(Append(to_local[t], b)) = Len(to_local[t]) + 1
      BY <2>2, <3>2, Joined
    <3>5. Taken(t) + (Len(to_local[t]) + 1) + 0 = Taken(t) + Len(to_local[t]) + 1
      BY <3>2
    <3> QED
      BY <3>1, <3>3, <3>4, <3>5
  <2>5. CountsOn(Taken(t), to_local[t])' <=> CountsOn(Taken(t), Append(to_local[t], b))
    BY <2>1, <2>3 DEF CountsOn
  <2> QED
    BY <1>0, <1>1, <2>1, <2>3, <2>4, <2>5 DEF JoinsDown, CountsOn
<1> QED
  BY <1>2, <1>3, <1>4

\* Every step keeps the order of every stream.
LEMMA DownStep ==
  ASSUME TypeOK, TasksHold, DownJoins, FramesJoin, [Next]_vars
  PROVE  DownJoins'
<1> SUFFICES ASSUME NEW t \in Stream PROVE JoinsDown(t)'
  BY DEF DownJoins
<1>0. JoinsDown(t) /\ PumpTypes /\ AppTypes /\ DuplexTypes
  BY TypesAre DEF DownJoins
<1>1. CASE UNCHANGED <<got, dn, app_gone, to_local, received, outbound, pump, msg>>
           /\ (UNCHANGED <<drv, deliver>> \/ (drv # "deliver" /\ drv' # "deliver"))
  BY <1>0, <1>1, DownKeeps DEF Delivering
<1>2. ASSUME NEW s \in Stream, AppDrops(s) PROVE JoinsDown(t)'
  <2>1. UNCHANGED <<got, to_local, received, outbound, drv, deliver, pump, msg>>
    BY <1>2 DEF AppDrops, pumpVars, drvVars
  <2>2. (Delivering(t)' <=> Delivering(t)) /\ Taken(t)' = Taken(t)' /\ Passed(t)' = Passed(t)'
    BY <2>1 DEF Delivering
  <2>3. CASE t = s
    <3>1. app_gone'[t]
      BY <1>0, <1>2, <2>3 DEF AppDrops, Set, AppTypes
    <3> QED
      BY <1>0, <2>1, <2>2, <3>1 DEF JoinsDown, CountsOn
  <2>4. CASE t # s
    <3>1. app_gone'[t] = app_gone[t] /\ dn'[t] = dn[t]
      BY <1>0, <1>2, <2>4 DEF AppDrops, Set, AppTypes, DuplexTypes
    <3> QED
      BY <1>0, <2>1, <3>1, DownKeeps DEF Delivering
  <2> QED
    BY <2>3, <2>4
<1>3. ASSUME NEW s \in Stream, AppReads(s) PROVE JoinsDown(t)'
  <2>1. CASE t # s
    <3>1. /\ got'[t] = got[t] /\ dn'[t] = dn[t]
          /\ UNCHANGED <<app_gone, to_local, received, outbound, drv, deliver, pump, msg>>
      BY <1>0, <1>3, <2>1 DEF AppReads, Set, AppTypes, DuplexTypes, pumpVars, drvVars
    <3> QED
      BY <1>0, <3>1, DownKeeps DEF Delivering
  <2> QED
    BY <1>0, <1>3, <2>1, DownReads
<1>4. ASSUME NEW s \in Stream, PumpReads(s) \/ PumpSends(s) \/ PumpPanics(s) \/ PumpTerminates(s)
      PROVE  JoinsDown(t)'
  <2>1. UNCHANGED <<got, dn, app_gone, to_local, received, outbound, drv, deliver>>
    BY <1>4 DEF PumpReads, PumpSends, PumpPanics, PumpTerminates, appVars, drvVars
  <2>2. \/ pump'[t] = pump[t] /\ msg'[t] = msg[t]
        \/ pump'[t] \in {"closing", "gone"}
        \/ pump[t] \in {"select", "cmd"} /\ pump'[t] \in {"select", "cmd"}
    BY <1>0, <1>4 DEF PumpReads, PumpSends, PumpPanics, PumpTerminates, PumpGoto, Selects, Set, PumpTypes
  <2> QED
    BY <1>0, <2>1, <2>2, DownKeeps DEF Delivering
<1>5. ASSUME NEW s \in Stream, PumpTakes(s) PROVE JoinsDown(t)'
  <2>1. CASE t # s
    <3>1. /\ to_local'[t] = to_local[t] /\ pump'[t] = pump[t] /\ msg'[t] = msg[t]
          /\ UNCHANGED <<got, dn, app_gone, received, outbound, drv, deliver>>
      BY <1>0, <1>5, <2>1 DEF PumpTakes, PumpGoto, Set, PumpTypes, DuplexTypes, appVars, drvVars
    <3> QED
      BY <1>0, <3>1, DownKeeps DEF Delivering
  <2> QED
    BY <1>0, <1>5, <2>1, DownTakes
<1>6. ASSUME NEW s \in Stream, PumpWrites(s) PROVE JoinsDown(t)'
  <2>1. CASE t # s
    <3>1. /\ dn'[t] = dn[t] /\ pump'[t] = pump[t] /\ msg'[t] = msg[t]
          /\ UNCHANGED <<got, to_local, app_gone, received, outbound, drv, deliver>>
      BY <1>0, <1>6, <2>1 DEF PumpWrites, PumpGoto, Set, PumpTypes, DuplexTypes, appVars, drvVars
    <3> QED
      BY <1>0, <3>1, DownKeeps DEF Delivering
  <2> QED
    BY <1>0, <1>6, <2>1, DownWrites
<1>7. CASE ApplyData \/ Deliver
  BY <1>7, DownReceives, DownDelivers
<1>8. CASE Commands
  <2>1. UNCHANGED <<got, dn, app_gone, to_local, received, outbound, pump, msg, drv, deliver>>
    BY <1>8 DEF Commands, HandleLocalData, HandleLocalEof, HandleLocalClose, appVars, pumpVars
  <2> QED
    BY <1>1, <2>1
<1>9. CASE ApplyAck \/ ApplyFin \/ ApplyReset \/ Flush
  <2>1. UNCHANGED <<got, dn, app_gone, to_local, received, outbound, pump, msg>> /\ drv # "deliver" /\ drv' # "deliver"
    BY <1>9 DEF ApplyAck, ApplyFin, ApplyReset, Flush, NextFrame, appVars, pumpVars
  <2> QED
    BY <1>1, <2>1
<1>10. ASSUME NEW s \in Stream, AppWrites(s) \/ AppShuts(s) \/ PumpSeesFin(s) \/ Helper(s) PROVE JoinsDown(t)'
  <2>1. UNCHANGED <<got, dn, app_gone, to_local, received, outbound, pump, msg, drv, deliver>>
    BY <1>10 DEF AppWrites, AppShuts, PumpSeesFin, Helper, HelperSends, HelperConfirms, HelperEnds,
                 appVars, pumpVars, drvVars
  <2> QED
    BY <1>1, <2>1
<1>11. CASE UNCHANGED vars
  <2>1. UNCHANGED <<got, dn, app_gone, to_local, received, outbound, pump, msg, drv, deliver>>
    BY <1>11 DEF vars, appVars, pumpVars, drvVars
  <2> QED
    BY <1>1, <2>1
<1> QED
  BY <1>2, <1>3, <1>4, <1>5, <1>6, <1>7, <1>8, <1>9, <1>10, <1>11 DEF Next, App, Pump, Frames

-----------------------------------------------------------------------------
(* From the application to the session loop.                               *)

\* What is counted for a stream.
LEMMA UpCounts ==
  ASSUME TypeOK, NEW s \in Stream
  PROVE  /\ up[s] \in Seq(Up) /\ pushed[s] \in Seq(Up)
         /\ Len(up[s]) \in Nat /\ Len(pushed[s]) \in Nat /\ wrote[s] \in Nat
         /\ Sent(s) \in Int /\ Sent(s) <= wrote[s]
         /\ msg[s].kind # "data" => Sent(s) = wrote[s] - Len(up[s])
         /\ msg[s].kind = "data" => Sent(s) = wrote[s] - Len(up[s]) - 1
<1>1. up[s] \in Seq(Up) /\ pushed[s] \in Seq(Up) /\ wrote[s] \in Nat
  BY TypesAre, PumpAssumption DEF AppTypes, DuplexTypes, CounterTypes
<1>2. Len(up[s]) \in Nat /\ Len(pushed[s]) \in Nat
  BY <1>1, LenProperties
<1>3. \A m, n \in Nat : m - n \in Int /\ m - n <= m /\ m - n - 1 \in Int /\ m - n - 1 <= m /\ m - n - 0 = m - n
  OBVIOUS
<1>4. /\ msg[s].kind # "data" => Sent(s) = wrote[s] - Len(up[s]) - 0
      /\ msg[s].kind = "data" => Sent(s) = wrote[s] - Len(up[s]) - 1
  BY DEF Sent
<1> QED
  BY <1>1, <1>2, <1>3, <1>4, Zenon

\* What a stream has stays joined while bytes stay where they are, and no data
\* command of an open stream goes.
LEMMA UpKeeps ==
  ASSUME NEW s, JoinsUp(s),
         pushed'[s] = pushed[s], wrote'[s] = wrote[s], up'[s] = up[s], local_eof'[s] = local_eof[s],
         app_shut[s] => app_shut'[s], app_gone[s] => app_gone'[s],
         msg'[s] = msg[s] \/ (msg[s].kind \notin {"data", "eof"} /\ msg'[s].kind \notin {"data", "eof"}),
         local_fin'[s] => local_fin[s] \/ (local_eof[s] /\ Len(pushed[s]) = wrote[s]),
         open'[s] => open[s],
         open'[s] => \A i \in 1 .. Len(cmds) : IsData(cmds[i], s) => \E j \in 1 .. Len(cmds') : cmds'[j] = cmds[i]
  PROVE  JoinsUp(s)' /\ Sent(s)' = Sent(s)
<1>1. Sent(s)' = Sent(s)
  <2>1. (msg'[s].kind = "data") <=> (msg[s].kind = "data")
    OBVIOUS
  <2> QED
    BY <2>1 DEF Sent
<1>2. ASSUME open'[s], NEW b \in Len(pushed[s]) + 1 .. Sent(s)
      PROVE  \E j \in 1 .. Len(cmds') : IsData(cmds'[j], s) /\ cmds'[j].byte = b
  <2>1. PICK i \in 1 .. Len(cmds) : IsData(cmds[i], s) /\ cmds[i].byte = b
    BY <1>2 DEF JoinsUp
  <2>2. PICK j \in 1 .. Len(cmds') : cmds'[j] = cmds[i]
    BY <1>2, <2>1
  <2> QED
    BY <2>1, <2>2 DEF IsData
<1>3. /\ (CountsOn(0, pushed[s]) /\ Len(pushed[s]) <= Sent(s))'
      /\ CountsOn(wrote[s] - Len(up[s]), up[s])'
  BY <1>1 DEF JoinsUp, CountsOn
<1>4. /\ msg'[s].kind = "data" => msg'[s].byte = Sent(s)' + 1
      /\ local_eof'[s] => up'[s] = <<>> /\ msg'[s].kind # "data" /\ (app_shut'[s] \/ app_gone'[s])
      /\ msg'[s].kind = "eof" => local_eof'[s]
  BY <1>1 DEF JoinsUp
<1>5. local_fin'[s] => local_eof'[s] /\ Len(pushed'[s]) = wrote'[s]
  BY DEF JoinsUp
<1>6. open'[s] => \A b \in Len(pushed'[s]) + 1 .. Sent(s)' :
                    \E j \in 1 .. Len(cmds') : IsData(cmds'[j], s) /\ cmds'[j].byte = b
  BY <1>1, <1>2
<1> QED
  BY <1>1, <1>3, <1>4, <1>5, <1>6 DEF JoinsUp, IsData

\* Commands that stay, or move up, stay in order.
LEMMA FollowKeeps ==
  ASSUME TypeOK, CommandsFollow, NEW k \in {0, 1}, Len(cmds') \in Nat,
         \A i \in 1 .. Len(cmds') : i + k \in 1 .. Len(cmds) /\ cmds'[i] = cmds[i + k],
         \A s \in Stream : Sent(s)' >= Sent(s) /\ Sent(s)' \in Int /\ (local_eof[s] => local_eof'[s]),
         \A i \in 1 .. Len(cmds') : cmds'[i].kind = "data" /\ open'[cmds'[i].stream] =>
                                      Len(pushed'[cmds'[i].stream]) < cmds'[i].byte
  PROVE  CommandsFollow'
<1>1. ASSUME NEW i \in 1 .. Len(cmds')
      PROVE  /\ cmds'[i].kind = "data" => cmds'[i].byte <= Sent(cmds[i].stream)'
             /\ cmds'[i].kind = "eof" => local_eof'[cmds'[i].stream]
             /\ \A j \in 1 .. i - 1 : IsData(cmds'[i], cmds'[j].stream) =>
                  cmds'[j].kind # "eof" /\ (cmds'[j].kind = "data" => cmds'[j].byte < cmds'[i].byte)
  <2>1. PICK m \in 1 .. Len(cmds) : m = i + k /\ cmds'[i] = cmds[m]
    OBVIOUS
  <2>2. PICK s \in Stream : s = cmds[m].stream /\ cmds[m] \in Command
    <3>1. cmds[m] \in Command
      BY <2>1, TypesAre, ElementOfSeq DEF QueueTypes
    <3> QED
      BY <3>1 DEF Command
  <2>3. cmds[m].kind = "data" => cmds[m].byte <= Sent(s) /\ cmds[m].byte \in Int
    BY <2>2, PumpAssumption DEF CommandsFollow, Command, Up
  <2>4. cmds[m].kind = "data" => cmds[m].byte <= Sent(s)'
    <3>1. Sent(s) \in Int /\ Sent(s)' >= Sent(s) /\ Sent(s)' \in Int
      BY UpCounts
    <3>2. \A a, b, c \in Int : a <= b /\ c >= b => a <= c
      OBVIOUS
    <3> QED
      BY <2>3, <3>1, <3>2
  <2>5. cmds'[i].kind = "data" => cmds'[i].byte <= Sent(cmds[i].stream)'
    <3>1. cmds'[i].stream = s
      BY <2>1, <2>2
    <3>2. Sent(cmds[i].stream)' = Sent(s)'
      BY <3>1 DEF Sent
    <3> QED
      BY <2>1, <2>4, <3>2
  <2>6. cmds'[i].kind = "eof" => local_eof'[cmds'[i].stream]
    BY <2>1, <2>2 DEF CommandsFollow
  <2>7. ASSUME NEW j \in 1 .. i - 1, IsData(cmds'[i], cmds'[j].stream)
        PROVE  cmds'[j].kind # "eof" /\ (cmds'[j].kind = "data" => cmds'[j].byte < cmds'[i].byte)
    <3>1. j \in 1 .. Len(cmds') /\ j + k \in 1 .. m - 1
      BY <2>1
    <3>2. cmds'[j] = cmds[j + k]
      BY <3>1
    <3>3. IsData(cmds[m], cmds[j + k].stream)
      BY <2>1, <2>7, <3>2
    <3> QED
      BY <2>1, <3>1, <3>2, <3>3 DEF CommandsFollow
  <2> QED
    BY <2>5, <2>6, <2>7
<1> QED
  BY <1>1 DEF CommandsFollow, IsData

\* While the queue, the stream's state and what was sent stay.
LEMMA CommandsStay ==
  ASSUME TypeOK, CommandsFollow, UNCHANGED <<cmds, pushed>>,
         \A t \in Stream : (open'[t] => open[t]) /\ (local_eof[t] => local_eof'[t]) /\ Sent(t)' = Sent(t)
  PROVE  CommandsFollow'
<1>1. /\ cmds \in Seq(Command) /\ Len(cmds') \in Nat
      /\ \A i \in 1 .. Len(cmds') : i + 0 \in 1 .. Len(cmds) /\ cmds'[i] = cmds[i + 0] /\ cmds[i].stream \in Stream
  <2>1. cmds \in Seq(Command)
    BY TypesAre DEF QueueTypes
  <2>2. \A i \in 1 .. Len(cmds) : cmds[i] \in Command
    BY <2>1, ElementOfSeq
  <2> QED
    BY <2>1, <2>2, LenProperties DEF Command
<1>2. \A t \in Stream : Sent(t)' >= Sent(t) /\ Sent(t)' \in Int /\ (local_eof[t] => local_eof'[t])
  BY UpCounts
<1>3. \A i \in 1 .. Len(cmds') : cmds'[i].kind = "data" /\ open'[cmds'[i].stream] =>
                                   Len(pushed'[cmds'[i].stream]) < cmds'[i].byte
  BY <1>1 DEF CommandsFollow
<1> QED
  BY <1>1, <1>2, <1>3, FollowKeeps

\* The application writes a byte.
LEMMA UpWrites ==
  ASSUME TypeOK, UpJoins, NEW s \in Stream, AppWrites(s)
  PROVE  UpJoins'
<1>0. /\ wrote \in [Stream -> 0 .. MaxUp] /\ up \in [Stream -> Seq(Up)] /\ JoinsUp(s)
      /\ Len(up[s]) \in Nat /\ wrote[s] \in Nat /\ wrote[s] + 1 \in Up
  <2>1. wrote \in [Stream -> 0 .. MaxUp] /\ up \in [Stream -> Seq(Up)] /\ JoinsUp(s)
    BY TypesAre DEF AppTypes, DuplexTypes, UpJoins
  <2>2. wrote[s] \in 0 .. MaxUp /\ wrote[s] < MaxUp /\ MaxUp \in Nat
    BY <2>1, PumpAssumption DEF AppWrites
  <2>3. wrote[s] + 1 \in 1 .. MaxUp
    BY <2>2
  <2> QED
    BY <2>1, <2>3, UpCounts DEF Up
<1>1. /\ wrote' = [wrote EXCEPT ![s] = wrote[s] + 1] /\ up' = [up EXCEPT ![s] = Append(up[s], wrote[s] + 1)]
      /\ UNCHANGED <<app_shut, app_gone, msg, local_eof, cmds, open, pushed, local_fin>>
      /\ ~app_shut[s] /\ ~app_gone[s]
  BY DEF AppWrites, Set, pumpVars, drvVars
<1>2. Len(up'[s]) = Len(up[s]) + 1 /\ up'[s] = Append(up[s], wrote[s] + 1) /\ wrote'[s] = wrote[s] + 1
  BY <1>0, <1>1, Joined
<1>3. wrote'[s] - Len(up'[s]) = wrote[s] - Len(up[s])
  BY <1>0, <1>2
<1>4. \A t \in Stream : Sent(t)' = Sent(t)
  <2>1. Sent(s)' = Sent(s)
    BY <1>1, <1>3 DEF Sent
  <2> QED
    BY <1>0, <1>1, <2>1 DEF Sent
<1>5. JoinsUp(s)'
  <2>1. ~local_eof[s] /\ ~local_fin[s]
    BY <1>0, <1>1 DEF JoinsUp
  <2>2. CountsOn(wrote[s] - Len(up[s]), up[s])'
    <3>1. CountsOn(wrote[s] - Len(up[s]), up[s]) /\ wrote[s] + 1 = (wrote[s] - Len(up[s])) + Len(up[s]) + 1
      BY <1>0 DEF JoinsUp
    <3>2. wrote[s] - Len(up[s]) \in Nat
      <4>1. Len(pushed[s]) <= Sent(s) /\ Len(pushed[s]) \in Nat /\ Sent(s) \in Int
        BY <1>0, UpCounts DEF JoinsUp
      <4>2. Sent(s) <= wrote[s] - Len(up[s]) /\ wrote[s] - Len(up[s]) \in Int
        <5>1. wrote[s] - Len(up[s]) \in Int /\ \A n \in Int : n <= n /\ n - 1 <= n
          BY <1>0
        <5> QED
          BY <5>1, UpCounts
      <4> QED
        BY <4>1, <4>2
    <3>3. CountsOn(wrote[s] - Len(up[s]), Append(up[s], wrote[s] + 1))
      BY <1>0, <3>1, <3>2, CountsFurther
    <3> QED
      BY <1>2, <1>3, <3>3 DEF CountsOn
  <2> QED
    BY <1>0, <1>1, <1>4, <2>1, <2>2 DEF JoinsUp, CountsOn, IsData
<1>6. ASSUME NEW t \in Stream, t # s PROVE JoinsUp(t)'
  BY <1>0, <1>1, <1>6, UpKeeps DEF UpJoins
<1>7. CommandsFollow'
  BY <1>1, <1>4, CommandsStay DEF UpJoins
<1> QED
  BY <1>5, <1>6, <1>7 DEF UpJoins

\* Steps that move no byte upwards, also those that forget a stream.
LEMMA UpStays ==
  ASSUME TypeOK, UpJoins, UNCHANGED <<wrote, up, local_eof, cmds, pushed, local_fin>>,
         \A t \in Stream :
           /\ app_shut[t] => app_shut'[t]
           /\ app_gone[t] => app_gone'[t]
           /\ open'[t] => open[t]
           /\ msg'[t] = msg[t] \/ (msg[t].kind \notin {"data", "eof"} /\ msg'[t].kind \notin {"data", "eof"})
  PROVE  UpJoins'
<1>1. ASSUME NEW t \in Stream PROVE JoinsUp(t)' /\ Sent(t)' = Sent(t)
  BY UpKeeps DEF UpJoins
<1>2. CommandsFollow'
  BY <1>1, CommandsStay DEF UpJoins
<1> QED
  BY <1>1, <1>2 DEF UpJoins

\* The pump reads a byte, or the end of file.
LEMMA UpReads ==
  ASSUME TypeOK, TasksHold, UpJoins, NEW s \in Stream, PumpReads(s)
  PROVE  UpJoins'
<1>0. /\ up \in [Stream -> Seq(Up)] /\ JoinsUp(s) /\ Len(up[s]) \in Nat /\ wrote[s] \in Nat
      /\ DOMAIN msg = Stream /\ local_eof \in [Stream -> BOOLEAN] /\ msg[s] = NoMsg
  BY TypesAre, UpCounts DEF DuplexTypes, PumpTypes, UpJoins, TasksHold, PumpReads, Selects
<1>1. /\ UNCHANGED <<wrote, app_shut, app_gone, cmds, open, pushed, local_fin>> /\ ~local_eof[s]
      /\ \A t \in Stream : t # s => msg'[t] = msg[t]
  BY <1>0 DEF PumpReads, PumpGoto, Set, appVars, drvVars
<1>2. Sent(s) = wrote[s] - Len(up[s])
  BY <1>0, UpCounts DEF NoMsg
<1>3. CASE up[s] # <<>>
  <2>1. /\ up' = [up EXCEPT ![s] = Tail(up[s])] /\ UNCHANGED local_eof
        /\ msg'[s] = LocalData(s, Head(up[s])) /\ msg'[s].kind = "data" /\ msg'[s].byte = Head(up[s])
    BY <1>0, <1>3 DEF PumpReads, PumpGoto, Set, LocalData
  <2>2. Len(up'[s]) = Len(up[s]) - 1 /\ up'[s] = Tail(up[s])
    BY <1>0, <1>3, <2>1, Left
  <2>3. Sent(s)' = Sent(s) /\ wrote'[s] - Len(up'[s]) = (wrote[s] - Len(up[s])) + 1
    <3>1. wrote[s] - (Len(up[s]) - 1) - 1 = wrote[s] - Len(up[s])
          /\ wrote[s] - (Len(up[s]) - 1) = (wrote[s] - Len(up[s])) + 1
      BY <1>0
    <3>2. Sent(s)' = wrote[s] - (Len(up[s]) - 1) - 1
      BY <1>1, <2>1, <2>2 DEF Sent
    <3> QED
      BY <1>1, <1>2, <2>2, <3>1, <3>2
  <2>4. wrote[s] - Len(up[s]) \in Nat
    <3>1. Len(pushed[s]) <= Sent(s) /\ Len(pushed[s]) \in Nat /\ Sent(s) \in Int
      BY <1>0, UpCounts DEF JoinsUp
    <3> QED
      BY <1>2, <3>1
  <2>5. Head(up[s]) = Sent(s) + 1 /\ CountsOn(wrote[s] - Len(up[s]), up[s])'
    <3>1. CountsOn(wrote[s] - Len(up[s]), up[s])
      BY <1>0 DEF JoinsUp
    <3>2. Head(up[s]) = (wrote[s] - Len(up[s])) + 1 /\ CountsOn((wrote[s] - Len(up[s])) + 1, Tail(up[s]))
      BY <1>0, <1>3, <2>4, <3>1, CountsShorter
    <3> QED
      BY <1>2, <2>2, <2>3, <3>2 DEF CountsOn
  <2>6. JoinsUp(s)'
    <3>1. ~local_fin[s] /\ ~local_eof'[s]
      BY <1>0, <1>1, <2>1 DEF JoinsUp
    <3> QED
      BY <1>0, <1>1, <2>1, <2>3, <2>5, <3>1 DEF JoinsUp, CountsOn, IsData
  <2>7. ASSUME NEW t \in Stream, t # s PROVE JoinsUp(t)' /\ Sent(t)' = Sent(t)
    BY <1>0, <1>1, <2>1, <2>7, UpKeeps DEF UpJoins
  <2>8. CommandsFollow'
    BY <1>1, <2>1, <2>3, <2>7, CommandsStay DEF UpJoins
  <2> QED
    BY <2>6, <2>7, <2>8 DEF UpJoins
<1>4. CASE up[s] = <<>>
  <2>1. /\ up' = up /\ local_eof' = [local_eof EXCEPT ![s] = TRUE] /\ (app_shut[s] \/ app_gone[s])
        /\ msg'[s] = LocalEof(s) /\ msg'[s].kind = "eof" /\ msg[s].kind = "none"
    BY <1>0, <1>4 DEF PumpReads, PumpGoto, Set, LocalEof, NoMsg
  <2>2. Sent(s)' = Sent(s)
    BY <1>1, <2>1 DEF Sent
  <2>3. JoinsUp(s)'
    BY <1>0, <1>1, <1>4, <2>1, <2>2 DEF JoinsUp, CountsOn, IsData
  <2>4. ASSUME NEW t \in Stream, t # s PROVE JoinsUp(t)' /\ Sent(t)' = Sent(t)
    BY <1>0, <1>1, <2>1, <2>4, UpKeeps DEF UpJoins
  <2>5. \A t \in Stream : local_eof[t] => local_eof'[t]
    BY <1>0, <2>1
  <2>6. CommandsFollow'
    BY <1>1, <2>1, <2>2, <2>4, <2>5, CommandsStay DEF UpJoins
  <2> QED
    BY <2>3, <2>4, <2>6 DEF UpJoins
<1> QED
  BY <1>3, <1>4

\* The pump sends what it read, or its end of file or close.
LEMMA UpSends ==
  ASSUME TypeOK, TasksHold, UpJoins, NEW s \in Stream, PumpSends(s)
  PROVE  UpJoins'
<1>0. /\ DOMAIN msg = Stream /\ cmds \in Seq(Command) /\ JoinsUp(s) /\ CommandsFollow
      /\ msg[s] \in Command /\ msg[s].stream = s
      /\ msg[s].kind = "data" => msg[s].byte \in Int
  <2>1. DOMAIN msg = Stream /\ cmds \in Seq(Command) /\ JoinsUp(s) /\ CommandsFollow
    BY TypesAre DEF PumpTypes, QueueTypes, UpJoins
  <2>2. CASE pump[s] = "cmd"
    <3>1. msg[s] = LocalEof(s) \/ msg[s] \in {LocalData(s, b) : b \in Up}
      BY <2>2 DEF TasksHold
    <3>2. LocalEof(s) \in Command /\ LocalEof(s).stream = s /\ LocalEof(s).kind = "eof"
      BY DEF LocalEof, Command
    <3>3. \A b \in Up : LocalData(s, b) \in Command /\ LocalData(s, b).stream = s /\ LocalData(s, b).byte \in Int
      BY PumpAssumption DEF LocalData, Command, Up
    <3> QED
      BY <2>1, <3>1, <3>2, <3>3
  <2>3. CASE pump[s] = "closing"
    <3>1. msg[s] = LocalClose(s)
      BY <2>3 DEF TasksHold
    <3>2. LocalClose(s) \in Command /\ LocalClose(s).stream = s /\ LocalClose(s).kind = "close"
      BY DEF LocalClose, Command
    <3> QED
      BY <2>1, <3>1, <3>2
  <2> QED
    BY <2>2, <2>3 DEF PumpSends
<1>1. /\ UNCHANGED <<wrote, up, app_shut, app_gone, open, pushed, local_fin, local_eof>>
      /\ cmds' = Append(cmds, msg[s]) /\ msg'[s] = NoMsg /\ \A t \in Stream : t # s => msg'[t] = msg[t]
  BY <1>0 DEF PumpSends, PumpGoto, Set, appVars, drvVars
<1>2. /\ Len(cmds) \in Nat /\ Len(cmds') = Len(cmds) + 1 /\ cmds'[Len(cmds) + 1] = msg[s]
      /\ \A i \in 1 .. Len(cmds) : cmds'[i] = cmds[i] /\ cmds[i] \in Command /\ i \in 1 .. Len(cmds')
  <2>1. /\ Len(cmds) \in Nat /\ Len(cmds') = Len(cmds) + 1 /\ cmds'[Len(cmds) + 1] = msg[s]
        /\ \A i \in 1 .. Len(cmds) : cmds'[i] = cmds[i] /\ cmds[i] \in Command
    BY <1>0, <1>1, Joined
  <2> QED
    BY <2>1
<1>3. ASSUME NEW t \in Stream, t # s PROVE JoinsUp(t)' /\ Sent(t)' = Sent(t)
  BY <1>1, <1>2, <1>3, UpKeeps DEF UpJoins
<1>4. /\ msg[s].kind = "data" => Sent(s)' = Sent(s) + 1 /\ msg[s].byte = Sent(s)'
      /\ msg[s].kind # "data" => Sent(s)' = Sent(s)
      /\ Sent(s) \in Int /\ Sent(s)' \in Int /\ Sent(s)' >= Sent(s)
  <2>1. wrote[s] \in Nat /\ Len(up[s]) \in Nat /\ Sent(s) \in Int
    BY UpCounts
  <2>2. Sent(s)' = wrote[s] - Len(up[s]) - 0
    BY <1>1 DEF Sent, NoMsg
  <2>3. /\ msg[s].kind = "data" => Sent(s) = wrote[s] - Len(up[s]) - 1
        /\ msg[s].kind # "data" => Sent(s) = wrote[s] - Len(up[s])
    BY UpCounts
  <2>4. \A m, n \in Nat : m - n - 0 = m - n /\ m - n - 0 = (m - n - 1) + 1 /\ m - n \in Int
                            /\ m - n - 0 >= m - n - 1 /\ m - n >= m - n
    OBVIOUS
  <2>5. msg[s].kind = "data" => msg[s].byte = Sent(s) + 1
    BY <1>0 DEF JoinsUp
  <2>6. msg[s].kind = "data" => Sent(s)' = Sent(s) + 1 /\ Sent(s)' >= Sent(s)
    BY <2>1, <2>2, <2>3, <2>4, Zenon
  <2>7. msg[s].kind # "data" => Sent(s)' = Sent(s) /\ Sent(s)' >= Sent(s)
    BY <2>1, <2>2, <2>3, <2>4, Zenon
  <2>8. Sent(s)' \in Int
    <3>1. CASE msg[s].kind = "data"
      BY <2>1, <2>6, <3>1
    <3>2. CASE msg[s].kind # "data"
      BY <2>1, <2>7, <3>2
    <3> QED
      BY <3>1, <3>2
  <2> QED
    BY <2>1, <2>5, <2>6, <2>7, <2>8, Zenon
<1>5. JoinsUp(s)'
  <2>1. ASSUME open[s], NEW b \in Len(pushed[s]) + 1 .. Sent(s)'
        PROVE  \E i \in 1 .. Len(cmds') : IsData(cmds'[i], s) /\ cmds'[i].byte = b
    <3>1. CASE msg[s].kind = "data" /\ b = Sent(s)'
      <4>1. Len(cmds) + 1 \in 1 .. Len(cmds')
        BY <1>2
      <4> QED
        BY <1>0, <1>2, <1>4, <3>1, <4>1 DEF IsData
    <3>2. CASE ~(msg[s].kind = "data" /\ b = Sent(s)')
      <4>1. b \in Len(pushed[s]) + 1 .. Sent(s)
        <5>1. Len(pushed[s]) \in Nat /\ b \in Int
          BY UpCounts
        <5> QED
          BY <1>4, <3>2, <5>1
      <4>2. PICK i \in 1 .. Len(cmds) : IsData(cmds[i], s) /\ cmds[i].byte = b
        BY <1>0, <2>1, <4>1 DEF JoinsUp
      <4> QED
        BY <1>2, <4>2
    <3> QED
      BY <3>1, <3>2
  <2>2. Len(pushed[s]) <= Sent(s)'
    <3>1. Len(pushed[s]) \in Nat /\ Len(pushed[s]) <= Sent(s)
      BY <1>0, UpCounts DEF JoinsUp
    <3> QED
      BY <1>4, <3>1
  <2> QED
    BY <1>0, <1>1, <2>1, <2>2 DEF JoinsUp, CountsOn, IsData, NoMsg
<1>6. CommandsFollow'
  <2> SUFFICES ASSUME NEW i \in 1 .. Len(cmds')
               PROVE  /\ cmds'[i].kind = "data" => cmds'[i].byte <= Sent(cmds[i].stream)'
                      /\ cmds'[i].kind = "data" =>
                           (open'[cmds'[i].stream] => Len(pushed'[cmds'[i].stream]) < cmds'[i].byte)
                      /\ cmds'[i].kind = "eof" => local_eof'[cmds'[i].stream]
                      /\ \A j \in 1 .. i - 1 : IsData(cmds'[i], cmds'[j].stream) =>
                           cmds'[j].kind # "eof" /\ (cmds'[j].kind = "data" => cmds'[j].byte < cmds'[i].byte)
    BY DEF CommandsFollow, IsData
  <2>1. CASE i \in 1 .. Len(cmds)
    <3>1. PICK t \in Stream : t = cmds[i].stream /\ cmds'[i] = cmds[i]
      BY <1>2, <2>1 DEF Command
    <3>2. cmds[i].kind = "data" => cmds[i].byte <= Sent(t) /\ cmds[i].byte \in Int
      BY <1>0, <1>2, <2>1, <3>1, PumpAssumption DEF CommandsFollow, Command, Up
    <3>3. Sent(t) \in Int /\ Sent(t)' \in Int /\ Sent(t)' >= Sent(t)
      <4>1. Sent(t) \in Int /\ Sent(t) >= Sent(t)
        BY UpCounts
      <4>2. CASE t = s
        BY <1>4, <4>2
      <4>3. CASE t # s
        BY <1>3, <4>1, <4>3
      <4> QED
        BY <4>2, <4>3
    <3>4. cmds[i].kind = "data" => cmds[i].byte <= Sent(t)'
      BY <3>2, <3>3
    <3>5. Sent(cmds[i].stream)' = Sent(t)'
      BY <3>1 DEF Sent
    <3>6. \A j \in 1 .. i - 1 : cmds'[j] = cmds[j]
      BY <1>2, <2>1
    <3> QED
      BY <1>0, <1>1, <2>1, <3>1, <3>4, <3>5, <3>6 DEF CommandsFollow
  <2>2. CASE i = Len(cmds) + 1
    <3>1. cmds'[i] = msg[s] /\ cmds'[i].stream = s /\ Sent(cmds[i].stream)' = Sent(s)'
      BY <1>0, <1>2, <2>2 DEF Sent
    <3>2. msg[s].kind = "data" => msg[s].byte <= Sent(s)' /\ Len(pushed[s]) < msg[s].byte
      <4>1. Len(pushed[s]) \in Nat /\ Len(pushed[s]) <= Sent(s)
        BY <1>0, UpCounts DEF JoinsUp
      <4> QED
        BY <1>4, <4>1
    <3>3. msg[s].kind = "eof" => local_eof[s]
      BY <1>0 DEF JoinsUp
    <3>4. ASSUME NEW j \in 1 .. i - 1, IsData(msg[s], cmds'[j].stream)
          PROVE  cmds'[j].kind # "eof" /\ (cmds'[j].kind = "data" => cmds'[j].byte < msg[s].byte)
      <4>1. j \in 1 .. Len(cmds) /\ cmds'[j] = cmds[j] /\ cmds[j].stream = s /\ msg[s].kind = "data"
            /\ cmds[j] \in Command
        BY <1>0, <1>2, <2>2, <3>4 DEF IsData
      <4>2. cmds[j].kind # "eof"
        BY <1>0, <4>1 DEF CommandsFollow, JoinsUp
      <4>3. cmds[j].kind = "data" => cmds[j].byte <= Sent(s) /\ cmds[j].byte \in Int
        BY <1>0, <4>1, PumpAssumption DEF CommandsFollow, Command, Up
      <4>4. msg[s].byte = Sent(s) + 1
        BY <1>4, <4>1
      <4> QED
        BY <1>4, <4>1, <4>2, <4>3, <4>4
    <3> QED
      BY <1>1, <3>1, <3>2, <3>3, <3>4
  <2> QED
    BY <1>2, <2>1, <2>2
<1> QED
  BY <1>3, <1>5, <1>6 DEF UpJoins

\* A command leaves the queue: those behind it move up.
LEMMA CommandsPop ==
  ASSUME TypeOK, CommandsFollow, cmds # <<>>, cmds' = Tail(cmds),
         \A t \in Stream : (local_eof[t] => local_eof'[t]) /\ Sent(t)' = Sent(t)
  PROVE  /\ Len(cmds') \in Nat
         /\ \A i \in 1 .. Len(cmds') : i + 1 \in 1 .. Len(cmds) /\ cmds'[i] = cmds[i + 1] /\ cmds'[i] \in Command
         /\ \A t : ~IsData(Head(cmds), t) =>
              \A i \in 1 .. Len(cmds) : IsData(cmds[i], t) => \E j \in 1 .. Len(cmds') : cmds'[j] = cmds[i]
         /\ \A i \in 2 .. Len(cmds) : i - 1 \in 1 .. Len(cmds') /\ cmds'[i - 1] = cmds[i]
         /\ (\A i \in 1 .. Len(cmds') : cmds'[i].kind = "data" /\ open'[cmds'[i].stream] =>
              Len(pushed'[cmds'[i].stream]) < cmds'[i].byte) => CommandsFollow'
<1>1. /\ cmds \in Seq(Command) /\ Len(cmds) \in Nat /\ Len(cmds) >= 1 /\ Len(cmds') = Len(cmds) - 1
      /\ Head(cmds) = cmds[1] /\ cmds' \in Seq(Command)
      /\ \A i \in 1 .. Len(cmds) - 1 : cmds'[i] = cmds[i + 1] /\ i + 1 \in 1 .. Len(cmds)
  BY TypesAre, Left DEF QueueTypes
<1>2. /\ Len(cmds') \in Nat
      /\ \A i \in 1 .. Len(cmds') : i + 1 \in 1 .. Len(cmds) /\ cmds'[i] = cmds[i + 1] /\ cmds'[i] \in Command
  BY <1>1, ElementOfSeq
<1>3. \A i \in 2 .. Len(cmds) : i - 1 \in 1 .. Len(cmds') /\ cmds'[i - 1] = cmds[i]
  <2> SUFFICES ASSUME NEW i \in 2 .. Len(cmds) PROVE i - 1 \in 1 .. Len(cmds') /\ cmds'[i - 1] = cmds[i]
    OBVIOUS
  <2>1. i - 1 \in 1 .. Len(cmds) - 1 /\ (i - 1) + 1 = i
    BY <1>1
  <2> QED
    BY <1>1, <2>1
<1>4. ASSUME NEW t, ~IsData(Head(cmds), t), NEW i \in 1 .. Len(cmds), IsData(cmds[i], t)
      PROVE  \E j \in 1 .. Len(cmds') : cmds'[j] = cmds[i]
  <2>1. i # 1
    BY <1>1, <1>4
  <2>2. i \in 2 .. Len(cmds)
    BY <1>1, <2>1
  <2> QED
    BY <1>3, <2>2
<1>5. (\A i \in 1 .. Len(cmds') : cmds'[i].kind = "data" /\ open'[cmds'[i].stream] =>
         Len(pushed'[cmds'[i].stream]) < cmds'[i].byte) => CommandsFollow'
  <2>1. \A t \in Stream : Sent(t)' >= Sent(t) /\ Sent(t)' \in Int /\ (local_eof[t] => local_eof'[t])
    BY UpCounts
  <2> QED
    BY <1>2, <2>1, FollowKeeps
<1> QED
  BY <1>2, <1>3, <1>4, <1>5

\* A command for a stream that is gone, or that goes with it.
LEMMA UpDrops ==
  ASSUME TypeOK, UpJoins, cmds # <<>>, cmds' = Tail(cmds),
         UNCHANGED <<wrote, up, app_shut, app_gone, msg, local_eof, pushed>>,
         \A t \in Stream :
           /\ open'[t] => open[t] /\ ~IsData(Head(cmds), t)
           /\ local_fin'[t] => local_fin[t] \/ (local_eof[t] /\ Len(pushed[t]) = wrote[t])
  PROVE  UpJoins'
<1>1. \A t \in Stream : Sent(t)' = Sent(t)
  BY DEF Sent
<1>2. CommandsFollow /\ \A t \in Stream : local_eof[t] => local_eof'[t]
  BY DEF UpJoins
<1>3. /\ \A i \in 1 .. Len(cmds') : i + 1 \in 1 .. Len(cmds) /\ cmds'[i] = cmds[i + 1] /\ cmds'[i] \in Command
      /\ \A t : ~IsData(Head(cmds), t) =>
           \A i \in 1 .. Len(cmds) : IsData(cmds[i], t) => \E j \in 1 .. Len(cmds') : cmds'[j] = cmds[i]
      /\ (\A i \in 1 .. Len(cmds') : cmds'[i].kind = "data" /\ open'[cmds'[i].stream] =>
           Len(pushed'[cmds'[i].stream]) < cmds'[i].byte) => CommandsFollow'
  BY <1>1, <1>2, CommandsPop
<1>4. ASSUME NEW t \in Stream PROVE JoinsUp(t)'
  BY <1>3, UpKeeps DEF UpJoins
<1>5. ASSUME NEW i \in 1 .. Len(cmds'), cmds'[i].kind = "data", open'[cmds'[i].stream]
      PROVE  Len(pushed'[cmds'[i].stream]) < cmds'[i].byte
  <2>1. cmds'[i].stream \in Stream
    BY <1>3 DEF Command
  <2>2. open[cmds[i + 1].stream] /\ cmds[i + 1].kind = "data" /\ cmds[i + 1].stream = cmds'[i].stream
    BY <1>3, <1>5, <2>1
  <2>3. Len(pushed[cmds[i + 1].stream]) < cmds[i + 1].byte
    BY <1>2, <1>3, <2>2 DEF CommandsFollow
  <2> QED
    BY <1>3, <2>2, <2>3
<1>6. CommandsFollow'
  BY <1>3, <1>5
<1> QED
  BY <1>4, <1>6 DEF UpJoins

\* A byte goes into the SendBuffer: it is the next one.
LEMMA UpPushes ==
  ASSUME TypeOK, UpJoins, HandleLocalData, open[Command1.stream],
         Len(pushed[Command1.stream]) - acked[Command1.stream] < Window
  PROVE  UpJoins'
<1> DEFINE b == Head(cmds).byte
<1>0. PICK s \in Stream : s = Head(cmds).stream
  BY Heads DEF HandleLocalData
<1>1. /\ cmds # <<>> /\ cmds' = Tail(cmds) /\ Head(cmds).kind = "data" /\ open[s]
      /\ pushed' = [pushed EXCEPT ![s] = Append(pushed[s], b)]
      /\ UNCHANGED <<wrote, up, app_shut, app_gone, msg, local_eof, local_fin, open>>
  BY <1>0 DEF HandleLocalData, Command1, Set, appVars, pumpVars
<1>2. b \in Up /\ b \in Int /\ b = Len(pushed[s]) + 1 /\ Head(cmds) = cmds[1] /\ 1 \in 1 .. Len(cmds) /\ Len(cmds) \in Nat
  BY <1>0, <1>1, Heads, NextData, PumpAssumption DEF Up
<1>3. /\ pushed'[s] = Append(pushed[s], b) /\ Len(pushed'[s]) = Len(pushed[s]) + 1 /\ Len(pushed[s]) \in Nat
      /\ pushed[s] \in Seq(Up) /\ \A t \in Stream : t # s => pushed'[t] = pushed[t]
  BY <1>0, <1>1, <1>2, TypesAre, Joined, UpCounts DEF CounterTypes
<1> HIDE DEF b
<1>4. (\A t \in Stream : Sent(t)' = Sent(t)) /\ JoinsUp(s) /\ CommandsFollow
  BY <1>0, <1>1 DEF Sent, UpJoins
<1>5. b <= Sent(s) /\ Sent(s) \in Int /\ Sent(s) <= wrote[s] /\ wrote[s] \in Nat
  <2>1. cmds[1].byte <= Sent(s)
    BY <1>0, <1>1, <1>2, <1>4 DEF CommandsFollow
  <2> QED
    BY <1>2, <2>1, UpCounts DEF b
<1>6. /\ \A i \in 1 .. Len(cmds') : i + 1 \in 1 .. Len(cmds) /\ cmds'[i] = cmds[i + 1] /\ cmds'[i] \in Command
      /\ \A t : ~IsData(Head(cmds), t) =>
           \A i \in 1 .. Len(cmds) : IsData(cmds[i], t) => \E j \in 1 .. Len(cmds') : cmds'[j] = cmds[i]
      /\ \A i \in 2 .. Len(cmds) : i - 1 \in 1 .. Len(cmds') /\ cmds'[i - 1] = cmds[i]
      /\ (\A i \in 1 .. Len(cmds') : cmds'[i].kind = "data" /\ open'[cmds'[i].stream] =>
           Len(pushed'[cmds'[i].stream]) < cmds'[i].byte) => CommandsFollow'
  BY <1>1, <1>4, CommandsPop
<1>7. ASSUME NEW t \in Stream, t # s PROVE JoinsUp(t)'
  <2>1. ~IsData(Head(cmds), t)
    BY <1>0, <1>7 DEF IsData
  <2> QED
    BY <1>1, <1>3, <1>6, <1>7, <2>1, UpKeeps DEF UpJoins
<1>8. JoinsUp(s)'
  <2>1. CountsOn(0, Append(pushed[s], b)) /\ Len(pushed'[s]) <= Sent(s)
    <3>1. CountsOn(0, pushed[s]) /\ b = 0 + Len(pushed[s]) + 1
      BY <1>2, <1>3, <1>4 DEF JoinsUp
    <3>2. CountsOn(0, Append(pushed[s], b))
      BY <1>2, <1>3, <3>1, CountsFurther
    <3> QED
      BY <1>2, <1>3, <1>5, <3>2
  <2>2. ASSUME NEW n \in Len(pushed'[s]) + 1 .. Sent(s)
        PROVE  \E j \in 1 .. Len(cmds') : IsData(cmds'[j], s) /\ cmds'[j].byte = n
    <3>1. n \in Len(pushed[s]) + 1 .. Sent(s) /\ n # b
      BY <1>2, <1>3, <1>5
    <3>2. PICK i \in 1 .. Len(cmds) : IsData(cmds[i], s) /\ cmds[i].byte = n
      BY <1>1, <1>4, <3>1 DEF JoinsUp
    <3>3. i # 1
      BY <1>2, <3>1, <3>2 DEF b
    <3>4. i \in 2 .. Len(cmds)
      BY <1>2, <3>3
    <3> QED
      BY <1>6, <3>2, <3>4
  <2>3. ~local_fin[s]
    <3>1. local_fin[s] => Len(pushed[s]) = wrote[s]
      BY <1>4 DEF JoinsUp
    <3> QED
      BY <1>2, <1>3, <1>5, <3>1
  <2> QED
    BY <1>1, <1>3, <1>4, <2>1, <2>2, <2>3 DEF JoinsUp, CountsOn, IsData
<1>9. ASSUME NEW i \in 1 .. Len(cmds'), cmds'[i].kind = "data", open'[cmds'[i].stream]
      PROVE  Len(pushed'[cmds'[i].stream]) < cmds'[i].byte
  <2>1. /\ cmds[i + 1].stream = cmds'[i].stream /\ cmds[i + 1] = cmds'[i] /\ i + 1 \in 1 .. Len(cmds)
        /\ cmds'[i].stream \in Stream /\ cmds'[i].byte \in Int
    <3>1. cmds[i + 1] = cmds'[i] /\ i + 1 \in 1 .. Len(cmds) /\ cmds'[i] \in Command
      BY <1>6
    <3>2. \A c \in Command : c.stream \in Stream /\ (c.kind = "data" => c.byte \in Int)
      BY PumpAssumption DEF Command, Up
    <3> QED
      BY <1>9, <3>1, <3>2
  <2>2. CASE cmds'[i].stream # s
    BY <1>1, <1>3, <1>4, <1>9, <2>1, <2>2 DEF CommandsFollow
  <2>3. CASE cmds'[i].stream = s
    <3>1. 1 \in 1 .. (i + 1) - 1 /\ IsData(cmds[i + 1], cmds[1].stream) /\ cmds[1].kind = "data"
      BY <1>0, <1>1, <1>2, <1>9, <2>1, <2>3 DEF IsData
    <3>2. cmds[1].byte < cmds[i + 1].byte
      BY <1>4, <2>1, <3>1 DEF CommandsFollow
    <3> QED
      BY <1>2, <1>3, <2>1, <2>3, <3>2 DEF b
  <2> QED
    BY <2>2, <2>3
<1>10. CommandsFollow'
  BY <1>6, <1>9
<1> QED
  BY <1>7, <1>8, <1>10 DEF UpJoins

\* Commands keep the order.
LEMMA UpCommands ==
  ASSUME TypeOK, UpJoins, Commands
  PROVE  UpJoins'
<1>0. open \in [Stream -> BOOLEAN] /\ local_fin \in [Stream -> BOOLEAN]
  BY TypesAre DEF DriverTypes
<1>1. cmds # <<>> /\ cmds' = Tail(cmds) /\ UNCHANGED <<wrote, up, app_shut, app_gone, msg, local_eof>>
  BY DEF Commands, HandleLocalData, HandleLocalEof, HandleLocalClose, appVars, pumpVars
<1>2. PICK s \in Stream : s = Command1.stream
  BY <1>1, Heads DEF Command1
<1>3. CASE HandleLocalData
  <2>1. CASE open[s] /\ Len(pushed[s]) - acked[s] < Window
    BY <1>2, <1>3, <2>1, UpPushes
  <2>2. CASE ~(open[s] /\ Len(pushed[s]) - acked[s] < Window)
    <3>1. UNCHANGED <<pushed, local_fin>> /\ ~open'[s] /\ \A t \in Stream : open'[t] => open[t]
      BY <1>0, <1>2, <1>3, <2>2 DEF HandleLocalData, Forget, Set
    <3>2. \A t \in Stream : t # s => ~IsData(Head(cmds), t)
      BY <1>2 DEF IsData, Command1
    <3> QED
      BY <1>1, <3>1, <3>2, UpDrops
  <2> QED
    BY <2>1, <2>2
<1>4. CASE HandleLocalClose
  <2>1. UNCHANGED <<pushed, local_fin>> /\ \A t \in Stream : open'[t] => open[t]
    BY <1>0, <1>2, <1>4 DEF HandleLocalClose, Forget, Set
  <2>2. \A t \in Stream : ~IsData(Head(cmds), t)
    BY <1>4 DEF IsData, Command1, HandleLocalClose
  <2> QED
    BY <1>1, <2>1, <2>2, UpDrops
<1>5. CASE HandleLocalEof
  <2>1. /\ UNCHANGED <<pushed, open>> /\ Head(cmds).kind = "eof" /\ s = Head(cmds).stream
        /\ local_fin' = [local_fin EXCEPT ![s] = open[s] \/ local_fin[s]]
    BY <1>2, <1>5 DEF HandleLocalEof, Set, Command1
  <2>2. \A t \in Stream : ~IsData(Head(cmds), t)
    BY <2>1 DEF IsData
  <2>3. open[s] => local_eof[s] /\ Len(pushed[s]) = wrote[s]
    BY <1>1, <2>1, NextEof
  <2>4. \A t \in Stream : local_fin'[t] => local_fin[t] \/ (local_eof[t] /\ Len(pushed[t]) = wrote[t])
    BY <1>0, <2>1, <2>3
  <2> QED
    BY <1>1, <2>1, <2>2, <2>4, UpDrops
<1> QED
  BY <1>3, <1>4, <1>5 DEF Commands

\* Every step keeps the order of every stream.
LEMMA UpStep ==
  ASSUME TypeOK, TasksHold, UpJoins, [Next]_vars
  PROVE  UpJoins'
<1>0. AppTypes /\ PumpTypes /\ DriverTypes
  BY TypesAre
<1>1. ASSUME NEW s \in Stream, AppShuts(s) \/ AppDrops(s) \/ AppReads(s) PROVE UpJoins'
  <2>1. UNCHANGED <<wrote, up, local_eof, cmds, pushed, local_fin, open, msg>>
    BY <1>1 DEF AppShuts, AppDrops, AppReads, pumpVars, drvVars
  <2>2. \A t \in Stream : (app_shut[t] => app_shut'[t]) /\ (app_gone[t] => app_gone'[t])
    BY <1>0, <1>1 DEF AppShuts, AppDrops, AppReads, Set, AppTypes
  <2> QED
    BY <2>1, <2>2, UpStays
<1>2. ASSUME NEW s \in Stream, PumpTakes(s) \/ PumpWrites(s) \/ PumpPanics(s) \/ PumpTerminates(s) PROVE UpJoins'
  <2>1. UNCHANGED <<wrote, up, local_eof, cmds, pushed, local_fin, open, app_shut, app_gone>>
    BY <1>2 DEF PumpTakes, PumpWrites, PumpPanics, PumpTerminates, appVars, drvVars
  <2>2. \A t \in Stream : t # s => msg'[t] = msg[t]
    BY <1>0, <1>2 DEF PumpTakes, PumpWrites, PumpPanics, PumpTerminates, PumpGoto, Set, PumpTypes
  <2>3. msg[s].kind \notin {"data", "eof"}
    <3>1. msg[s] = NoMsg \/ msg[s] \in {Writing(b) : b \in Down}
      BY <1>2 DEF PumpTakes, PumpWrites, PumpPanics, PumpTerminates, Selects, TasksHold
    <3> QED
      BY <3>1 DEF NoMsg, Writing
  <2>4. msg'[s].kind \notin {"data", "eof"}
    <3>1. msg'[s] = NoMsg \/ msg'[s] = LocalClose(s) \/ msg'[s] = Writing(Head(to_local[s]))
      BY <1>0, <1>2 DEF PumpTakes, PumpWrites, PumpPanics, PumpTerminates, PumpGoto, Set, PumpTypes
    <3> QED
      BY <3>1 DEF NoMsg, Writing, LocalClose
  <2> QED
    BY <2>1, <2>2, <2>3, <2>4, UpStays
<1>3. ASSUME NEW s \in Stream, PumpSeesFin(s) \/ Helper(s) PROVE UpJoins'
  <2>1. UNCHANGED <<wrote, up, local_eof, cmds, pushed, local_fin, open, app_shut, app_gone, msg>>
    BY <1>3 DEF PumpSeesFin, Helper, HelperSends, HelperConfirms, HelperEnds, appVars, pumpVars, drvVars
  <2> QED
    BY <2>1, UpStays
<1>4. CASE Frames
  <2>1. UNCHANGED <<wrote, up, local_eof, cmds, pushed, local_fin, app_shut, app_gone, msg>>
    BY <1>4 DEF Frames, ApplyData, Deliver, ApplyAck, ApplyFin, ApplyReset, Flush, appVars, pumpVars
  <2>2. UNCHANGED open \/ (\E s : open' = [open EXCEPT ![s] = FALSE])
    BY <1>4 DEF Frames, ApplyData, Deliver, ApplyAck, ApplyFin, ApplyReset, Flush, Forget, Set
  <2>3. \A t \in Stream : open'[t] => open[t]
    BY <1>0, <2>2 DEF DriverTypes
  <2> QED
    BY <2>1, <2>3, UpStays
<1>5. CASE UNCHANGED vars
  <2>1. UNCHANGED <<wrote, up, local_eof, cmds, pushed, local_fin, open, app_shut, app_gone, msg>>
    BY <1>5 DEF vars, appVars, pumpVars, drvVars
  <2> QED
    BY <2>1, UpStays
<1> QED
  BY <1>1, <1>2, <1>3, <1>4, <1>5, UpWrites, UpReads, UpSends, UpCommands DEF Next, App, Pump

-----------------------------------------------------------------------------
(* Between the helper and the session loop.                                *)

\* What is counted for a stream.
LEMMA HelperCounts ==
  ASSUME TypeOK, NEW s \in Stream
  PROVE  /\ sent[s] \in Nat /\ sent[s] <= MaxDown /\ confirmed[s] \in Nat /\ received[s] \in Nat /\ acked[s] \in Nat
         /\ Len(pushed[s]) \in Nat /\ acked[s] <= Len(pushed[s])
<1>1. /\ sent[s] \in 0 .. MaxDown /\ confirmed[s] \in 0 .. MaxUp /\ received[s] \in Nat /\ acked[s] \in Nat
      /\ Len(pushed[s]) - acked[s] \in 0 .. Window
  BY TypesAre DEF QueueTypes, CounterTypes
<1>2. Len(pushed[s]) \in Nat
  BY UpCounts
<1> QED
  BY <1>1, <1>2, PumpAssumption

\* A stream whose counters stay keeps its frames while none of its Data frames
\* goes, as long as it is open.
LEMMA HelperKeeps ==
  ASSUME NEW s, JoinsHelper(s),
         confirmed'[s] = confirmed[s], sent'[s] = sent[s], received'[s] = received[s], open'[s] => open[s],
         confirmed[s] <= Len(pushed'[s]),
         open'[s] => \A i \in 1 .. Len(h2c) : IsFrame(h2c[i], s, "Data") => \E j \in 1 .. Len(h2c') : h2c'[j] = h2c[i]
  PROVE  JoinsHelper(s)'
<1>1. ASSUME open'[s], NEW b \in received[s] + 1 .. sent[s]
      PROVE  \E j \in 1 .. Len(h2c') : IsFrame(h2c'[j], s, "Data") /\ h2c'[j].byte = b
  <2>1. PICK i \in 1 .. Len(h2c) : IsFrame(h2c[i], s, "Data") /\ h2c[i].byte = b
    BY <1>1 DEF JoinsHelper
  <2>2. PICK j \in 1 .. Len(h2c') : h2c'[j] = h2c[i]
    BY <1>1, <2>1
  <2> QED
    BY <2>1, <2>2 DEF IsFrame
<1> QED
  BY <1>1 DEF JoinsHelper, IsFrame

\* Frames that stay, or move up, stay in order.
LEMMA FramesKeep ==
  ASSUME TypeOK, FramesFollow, NEW k \in {0, 1}, Len(h2c') \in Nat,
         \A i \in 1 .. Len(h2c') : i + k \in 1 .. Len(h2c) /\ h2c'[i] = h2c[i + k],
         UNCHANGED <<sent, confirmed>>,
         \A i \in 1 .. Len(h2c') :
           /\ h2c'[i].type = "Data" /\ open'[h2c'[i].stream] => received'[h2c'[i].stream] < h2c'[i].byte
           /\ h2c'[i].type = "Ack" => acked'[h2c'[i].stream] <= h2c'[i].offset
  PROVE  FramesFollow'
<1>1. ASSUME NEW i \in 1 .. Len(h2c')
      PROVE  /\ h2c'[i].type = "Data" => h2c'[i].byte <= sent'[h2c'[i].stream]
             /\ h2c'[i].type = "Ack" => h2c'[i].offset <= confirmed'[h2c'[i].stream]
             /\ \A j \in 1 .. i - 1 :
                  /\ IsFrame(h2c'[j], h2c'[i].stream, "Data") /\ h2c'[i].type = "Data" => h2c'[j].byte < h2c'[i].byte
                  /\ IsFrame(h2c'[j], h2c'[i].stream, "Ack") /\ h2c'[i].type = "Ack" => h2c'[j].offset <= h2c'[i].offset
  <2>1. PICK m \in 1 .. Len(h2c) : m = i + k /\ h2c'[i] = h2c[m]
    OBVIOUS
  <2>2. /\ h2c[m].type = "Data" => h2c[m].byte <= sent[h2c[m].stream]
        /\ h2c[m].type = "Ack" => h2c[m].offset <= confirmed[h2c[m].stream]
    BY DEF FramesFollow
  <2>3. ASSUME NEW j \in 1 .. i - 1
        PROVE  /\ IsFrame(h2c'[j], h2c'[i].stream, "Data") /\ h2c'[i].type = "Data" => h2c'[j].byte < h2c'[i].byte
               /\ IsFrame(h2c'[j], h2c'[i].stream, "Ack") /\ h2c'[i].type = "Ack" => h2c'[j].offset <= h2c'[i].offset
    <3>0. /\ i \in Int /\ 1 <= i /\ i <= Len(h2c') /\ m = i + k
          /\ j \in Int /\ 1 <= j /\ j <= i - 1
      BY <2>1
    <3>1. j \in 1 .. Len(h2c') /\ j + k \in 1 .. m - 1
      <4>1. j <= Len(h2c')
        BY <3>0
      <4>2. j + k \in Int /\ 1 <= j + k /\ j + k <= m - 1
        BY <3>0
      <4> QED
        BY <3>0, <4>1, <4>2
    <3>2. h2c'[j] = h2c[j + k]
      BY <3>1
    <3>3. /\ IsFrame(h2c[j + k], h2c[m].stream, "Data") /\ h2c[m].type = "Data" => h2c[j + k].byte < h2c[m].byte
          /\ IsFrame(h2c[j + k], h2c[m].stream, "Ack") /\ h2c[m].type = "Ack" => h2c[j + k].offset <= h2c[m].offset
      BY <3>1 DEF FramesFollow
    <3> QED
      BY <2>1, <3>2, <3>3 DEF IsFrame
  <2> QED
    BY <2>1, <2>2, <2>3
<1> QED
  BY <1>1 DEF FramesFollow, IsFrame

\* A frame leaves the channel: those behind it move up.
LEMMA FramesPop ==
  ASSUME TypeOK, FramesFollow, h2c # <<>>, h2c' = Tail(h2c)
  PROVE  /\ Len(h2c') \in Nat
         /\ \A i \in 1 .. Len(h2c') : i + 1 \in 1 .. Len(h2c) /\ h2c'[i] = h2c[i + 1] /\ h2c'[i] \in Frame
         /\ \A t : ~IsFrame(Head(h2c), t, "Data") =>
              \A i \in 1 .. Len(h2c) : IsFrame(h2c[i], t, "Data") => \E j \in 1 .. Len(h2c') : h2c'[j] = h2c[i]
         /\ \A i \in 2 .. Len(h2c) : i - 1 \in 1 .. Len(h2c') /\ h2c'[i - 1] = h2c[i]
<1>1. /\ h2c \in Seq(Frame) /\ Len(h2c) \in Nat /\ Len(h2c) >= 1 /\ Len(h2c') = Len(h2c) - 1
      /\ Head(h2c) = h2c[1] /\ h2c' \in Seq(Frame)
      /\ \A i \in 1 .. Len(h2c) - 1 : h2c'[i] = h2c[i + 1] /\ i + 1 \in 1 .. Len(h2c)
  BY TypesAre, Left DEF QueueTypes
<1>2. /\ Len(h2c') \in Nat
      /\ \A i \in 1 .. Len(h2c') : i + 1 \in 1 .. Len(h2c) /\ h2c'[i] = h2c[i + 1] /\ h2c'[i] \in Frame
  BY <1>1, ElementOfSeq
<1>3. \A i \in 2 .. Len(h2c) : i - 1 \in 1 .. Len(h2c') /\ h2c'[i - 1] = h2c[i]
  <2> SUFFICES ASSUME NEW i \in 2 .. Len(h2c) PROVE i - 1 \in 1 .. Len(h2c') /\ h2c'[i - 1] = h2c[i]
    OBVIOUS
  <2>1. i - 1 \in 1 .. Len(h2c) - 1 /\ (i - 1) + 1 = i
    BY <1>1
  <2> QED
    BY <1>1, <2>1
<1>4. ASSUME NEW t, ~IsFrame(Head(h2c), t, "Data"), NEW i \in 1 .. Len(h2c), IsFrame(h2c[i], t, "Data")
      PROVE  \E j \in 1 .. Len(h2c') : h2c'[j] = h2c[i]
  <2>1. i # 1
    BY <1>1, <1>4
  <2>2. i \in 2 .. Len(h2c)
    BY <1>1, <2>1
  <2> QED
    BY <1>3, <2>2
<1> QED
  BY <1>2, <1>3, <1>4

\* The counters of the session loop may change without a frame: more is pushed, or
\* a stream is forgotten.
LEMMA FramesStay ==
  ASSUME TypeOK, FramesJoin, UNCHANGED <<h2c, sent, confirmed, received, acked>>,
         \A t \in Stream : (open'[t] => open[t]) /\ Len(pushed'[t]) >= Len(pushed[t]) /\ Len(pushed'[t]) \in Nat
  PROVE  FramesJoin'
<1>1. ASSUME NEW t \in Stream PROVE JoinsHelper(t)'
  <2>1. confirmed[t] <= Len(pushed[t]) /\ confirmed[t] \in Nat /\ Len(pushed[t]) \in Nat
    BY HelperCounts DEF FramesJoin, JoinsHelper
  <2>2. confirmed[t] <= Len(pushed'[t])
    <3>1. Len(pushed'[t]) \in Nat /\ Len(pushed'[t]) >= Len(pushed[t])
      OBVIOUS
    <3>2. \A a, b, c \in Nat : a <= b /\ c >= b => a <= c
      OBVIOUS
    <3> QED
      BY <2>1, <3>1, <3>2
  <2> QED
    BY <2>2, HelperKeeps DEF FramesJoin
<1>2. FramesFollow'
  <2>1. /\ Len(h2c') \in Nat /\ \A i \in 1 .. Len(h2c') : h2c[i].stream \in Stream
        /\ \A i \in 1 .. Len(h2c') : i + 0 \in 1 .. Len(h2c) /\ h2c'[i] = h2c[i + 0]
    <3>1. h2c \in Seq(Frame)
      BY TypesAre DEF QueueTypes
    <3>2. \A i \in 1 .. Len(h2c) : h2c[i] \in Frame
      BY <3>1, ElementOfSeq
    <3>3. \A f \in Frame : f.stream \in Stream
      BY DEF Frame
    <3> QED
      BY <3>1, <3>2, <3>3, LenProperties
  <2>2. \A i \in 1 .. Len(h2c') :
          /\ h2c'[i].type = "Data" /\ open'[h2c'[i].stream] => received'[h2c'[i].stream] < h2c'[i].byte
          /\ h2c'[i].type = "Ack" => acked'[h2c'[i].stream] <= h2c'[i].offset
    BY <2>1 DEF FramesJoin, FramesFollow
  <2> QED
    BY <2>1, <2>2, FramesKeep DEF FramesJoin
<1> QED
  BY <1>1, <1>2 DEF FramesJoin

\* The helper sends a frame: it comes behind those under way.
LEMMA FrameSent ==
  ASSUME TypeOK, FramesJoin, NEW f \in Frame, h2c' = Append(h2c, f),
         UNCHANGED <<received, acked, open, pushed>>,
         f.type = "Data" => f.byte = sent[f.stream] + 1 /\ sent' = [sent EXCEPT ![f.stream] = f.byte],
         f.type # "Data" => sent' = sent,
         f.type = "Ack" => /\ f.offset = Len(pushed[f.stream])
                           /\ confirmed' = [confirmed EXCEPT ![f.stream] = f.offset],
         f.type # "Ack" => confirmed' = confirmed
  PROVE  FramesJoin'
<1> DEFINE n == Len(h2c)
<1>0. PICK s \in Stream : s = f.stream
  BY DEF Frame
<1>1. /\ n \in Nat /\ Len(h2c') = n + 1 /\ h2c'[n + 1] = f
      /\ \A i \in 1 .. n : h2c'[i] = h2c[i] /\ h2c[i] \in Frame
  BY TypesAre, Joined DEF QueueTypes
<1>2. /\ JoinsHelper(s) /\ FramesFollow /\ sent[s] \in Nat /\ confirmed[s] \in Nat /\ received[s] \in Nat
      /\ Len(pushed[s]) \in Nat /\ acked[s] \in Nat /\ acked[s] <= Len(pushed[s])
  BY HelperCounts DEF FramesJoin
<1>3. \A t \in Stream : t # s => sent'[t] = sent[t] /\ confirmed'[t] = confirmed[t]
  BY <1>0, TypesAre DEF QueueTypes
<1>4. /\ f.type = "Data" => sent'[s] = sent[s] + 1 /\ f.byte = sent[s] + 1
      /\ f.type # "Data" => sent'[s] = sent[s]
      /\ f.type = "Ack" => confirmed'[s] = Len(pushed[s]) /\ f.offset = Len(pushed[s])
      /\ f.type # "Ack" => confirmed'[s] = confirmed[s]
  BY <1>0, TypesAre DEF QueueTypes
<1>5. confirmed[s] <= Len(pushed[s]) /\ received[s] <= sent[s]
  BY <1>2 DEF JoinsHelper
<1>6. \A i \in 1 .. n : i \in 1 .. Len(h2c')
  BY <1>1
<1>7. ASSUME NEW t \in Stream PROVE JoinsHelper(t)'
  <2>1. CASE t # s
    <3>1. sent'[t] = sent[t] /\ confirmed'[t] = confirmed[t]
      BY <1>3, <2>1
    <3>2. \A i \in 1 .. Len(h2c) : \E j \in 1 .. Len(h2c') : h2c'[j] = h2c[i]
      BY <1>1, <1>6
    <3> QED
      BY <3>1, <3>2, HelperKeeps DEF FramesJoin, JoinsHelper
  <2>2. CASE t = s
    <3>1. confirmed'[s] <= Len(pushed'[s]) /\ received'[s] <= sent'[s]
      <4>1. \A a, b \in Nat : a <= b => a <= b + 1
        OBVIOUS
      <4>2. \A a \in Nat : a <= a
        OBVIOUS
      <4> QED
        BY <1>2, <1>4, <1>5, <4>1, <4>2
    <3>2. ASSUME open[s], NEW b \in received[s] + 1 .. sent'[s]
          PROVE  \E i \in 1 .. Len(h2c') : IsFrame(h2c'[i], s, "Data") /\ h2c'[i].byte = b
      <4>1. CASE f.type = "Data" /\ b = sent[s] + 1
        <5>1. n + 1 \in 1 .. Len(h2c')
          BY <1>1
        <5> QED
          BY <1>0, <1>1, <1>4, <4>1, <5>1 DEF IsFrame
      <4>2. CASE ~(f.type = "Data" /\ b = sent[s] + 1)
        <5>1. b \in received[s] + 1 .. sent[s]
          BY <1>2, <1>4, <4>2
        <5>2. PICK i \in 1 .. n : IsFrame(h2c[i], s, "Data") /\ h2c[i].byte = b
          BY <1>2, <3>2, <5>1 DEF JoinsHelper
        <5> QED
          BY <1>1, <1>6, <5>2
      <4> QED
        BY <4>1, <4>2
    <3> QED
      BY <2>2, <3>1, <3>2 DEF JoinsHelper, IsFrame
  <2> QED
    BY <2>1, <2>2
<1>8. FramesFollow'
  <2> SUFFICES ASSUME NEW i \in 1 .. Len(h2c')
               PROVE  /\ h2c'[i].type = "Data" => h2c'[i].byte <= sent'[h2c'[i].stream]
                      /\ h2c'[i].type = "Data" => (open'[h2c'[i].stream] => received'[h2c'[i].stream] < h2c'[i].byte)
                      /\ h2c'[i].type = "Ack" => /\ acked'[h2c'[i].stream] <= h2c'[i].offset
                                                 /\ h2c'[i].offset <= confirmed'[h2c'[i].stream]
                      /\ \A j \in 1 .. i - 1 :
                           /\ IsFrame(h2c'[j], h2c'[i].stream, "Data") /\ h2c'[i].type = "Data" => h2c'[j].byte < h2c'[i].byte
                           /\ IsFrame(h2c'[j], h2c'[i].stream, "Ack") /\ h2c'[i].type = "Ack" => h2c'[j].offset <= h2c'[i].offset
    BY DEF FramesFollow, IsFrame
  <2>1. CASE i \in 1 .. n
    <3>1. PICK t \in Stream : t = h2c[i].stream /\ h2c'[i] = h2c[i]
      BY <1>1, <2>1 DEF Frame
    <3>2. h2c[i].type = "Data" => h2c[i].byte <= sent'[t]
      <4>1. h2c[i].type = "Data" => h2c[i].byte <= sent[t] /\ h2c[i].byte \in Nat
        <5>1. h2c[i] \in Frame /\ (h2c[i].type = "Data" => h2c[i].byte <= sent[t])
          BY <1>1, <1>2, <2>1, <3>1 DEF FramesFollow
        <5>2. \A g \in Frame : g.type = "Data" => g.byte \in Nat
          BY PumpAssumption DEF Frame, Down
        <5> QED
          BY <5>1, <5>2
      <4>2. sent'[t] = sent[t] \/ (sent'[t] = sent[t] + 1 /\ sent[t] \in Nat)
        BY <1>2, <1>3, <1>4
      <4>3. sent[t] \in Nat /\ \A a, b \in Nat : a <= b => a <= b + 1
        BY HelperCounts
      <4> QED
        BY <4>1, <4>2, <4>3
    <3>3. h2c[i].type = "Ack" => h2c[i].offset <= confirmed'[t]
      <4>1. h2c[i].type = "Ack" => h2c[i].offset <= confirmed[t] /\ h2c[i].offset \in Nat
        <5>1. h2c[i] \in Frame /\ (h2c[i].type = "Ack" => h2c[i].offset <= confirmed[t])
          BY <1>1, <1>2, <2>1, <3>1 DEF FramesFollow
        <5>2. \A g \in Frame : g.type = "Ack" => g.offset \in Nat
          BY PumpAssumption DEF Frame, Up
        <5> QED
          BY <5>1, <5>2
      <4>2. confirmed'[t] = confirmed[t] \/ (t = s /\ confirmed'[t] = Len(pushed[s]))
        BY <1>3, <1>4
      <4>3. confirmed[t] \in Nat /\ \A a, b, c \in Nat : a <= b /\ b <= c => a <= c
        BY HelperCounts
      <4> QED
        BY <1>2, <1>5, <4>1, <4>2, <4>3
    <3>4. \A j \in 1 .. i - 1 : h2c'[j] = h2c[j]
      BY <1>1, <2>1
    <3> QED
      BY <1>2, <2>1, <3>1, <3>2, <3>3, <3>4 DEF FramesFollow
  <2>2. CASE i = n + 1
    <3>1. h2c'[i] = f /\ h2c'[i].stream = s
      BY <1>0, <1>1, <2>2
    <3>2. ASSUME NEW j \in 1 .. i - 1
          PROVE  /\ IsFrame(h2c'[j], s, "Data") /\ f.type = "Data" => h2c'[j].byte < f.byte
                 /\ IsFrame(h2c'[j], s, "Ack") /\ f.type = "Ack" => h2c'[j].offset <= f.offset
      <4>1. j \in 1 .. n /\ h2c'[j] = h2c[j] /\ h2c[j] \in Frame
        BY <1>1, <2>2
      <4>2. IsFrame(h2c[j], s, "Data") => h2c[j].byte <= sent[s] /\ h2c[j].byte \in Nat
        BY <1>2, <4>1, PumpAssumption DEF FramesFollow, IsFrame, Frame, Down
      <4>3. IsFrame(h2c[j], s, "Ack") => h2c[j].offset <= confirmed[s] /\ h2c[j].offset \in Nat
        BY <1>2, <4>1, PumpAssumption DEF FramesFollow, IsFrame, Frame, Up
      <4>4. \A a, b \in Nat : a <= b => a < b + 1
        OBVIOUS
      <4>5. \A a, b, c \in Nat : a <= b /\ b <= c => a <= c
        OBVIOUS
      <4> QED
        BY <1>2, <1>4, <1>5, <4>1, <4>2, <4>3, <4>4, <4>5
    <3>3. f.type = "Data" => f.byte <= sent'[s] /\ received[s] < f.byte
      <4>1. \A a, b \in Nat : a <= b => a < b + 1
        OBVIOUS
      <4> QED
        BY <1>2, <1>4, <1>5, <4>1
    <3>4. f.type = "Ack" => acked[s] <= f.offset /\ f.offset <= confirmed'[s]
      BY <1>2, <1>4
    <3> QED
      BY <3>1, <3>2, <3>3, <3>4
  <2> QED
    BY <1>1, <2>1, <2>2
<1> QED
  BY <1>7, <1>8 DEF FramesJoin

\* A frame that changes no counter, or is for a stream that is gone.
LEMMA FrameDropped ==
  ASSUME TypeOK, FramesJoin, h2c # <<>>, h2c' = Tail(h2c), UNCHANGED <<sent, confirmed, received, acked, pushed>>,
         \A t \in Stream : open'[t] => open[t] /\ ~IsFrame(Head(h2c), t, "Data")
  PROVE  FramesJoin'
<1>0. FramesFollow
  BY DEF FramesJoin
<1>1. /\ Len(h2c') \in Nat
      /\ \A i \in 1 .. Len(h2c') : i + 1 \in 1 .. Len(h2c) /\ h2c'[i] = h2c[i + 1] /\ h2c'[i] \in Frame
      /\ \A t : ~IsFrame(Head(h2c), t, "Data") =>
           \A i \in 1 .. Len(h2c) : IsFrame(h2c[i], t, "Data") => \E j \in 1 .. Len(h2c') : h2c'[j] = h2c[i]
  BY <1>0, FramesPop
<1>2. ASSUME NEW t \in Stream PROVE JoinsHelper(t)'
  <2>1. JoinsHelper(t) /\ confirmed[t] <= Len(pushed'[t])
    BY DEF FramesJoin, JoinsHelper
  <2> QED
    BY <1>1, <2>1, HelperKeeps
<1>3. \A i \in 1 .. Len(h2c') :
        /\ h2c'[i].type = "Data" /\ open'[h2c'[i].stream] => received'[h2c'[i].stream] < h2c'[i].byte
        /\ h2c'[i].type = "Ack" => acked'[h2c'[i].stream] <= h2c'[i].offset
  <2>1. \A i \in 1 .. Len(h2c') : h2c'[i].stream \in Stream
    BY <1>1 DEF Frame
  <2> QED
    BY <1>0, <1>1, <2>1 DEF FramesFollow
<1>4. FramesFollow'
  BY <1>0, <1>1, <1>3, FramesKeep
<1> QED
  BY <1>2, <1>4 DEF FramesJoin

\* A Data frame of an open stream: it carries the next byte.
LEMMA FrameReceived ==
  ASSUME TypeOK, FramesJoin, ApplyData, open[Head(h2c).stream]
  PROVE  FramesJoin'
<1> DEFINE b == Head(h2c).byte
<1>0. PICK s \in Stream : s = Head(h2c).stream
  BY Heads DEF ApplyData, NextFrame
<1>1. /\ h2c # <<>> /\ h2c' = Tail(h2c) /\ Head(h2c).type = "Data" /\ open[s]
      /\ received' = [received EXCEPT ![s] = b] /\ UNCHANGED <<sent, confirmed, acked, pushed, open>>
  BY <1>0 DEF ApplyData, NextFrame, Set
<1>2. /\ b \in Nat /\ b = received[s] + 1 /\ Head(h2c) = h2c[1] /\ 1 \in 1 .. Len(h2c) /\ Len(h2c) \in Nat
  BY <1>0, <1>1, Heads, NextByte, PumpAssumption DEF Down
<1> HIDE DEF b
<1>3. /\ FramesFollow /\ JoinsHelper(s) /\ received[s] \in Nat /\ sent[s] \in Nat
      /\ received'[s] = b /\ \A t \in Stream : t # s => received'[t] = received[t]
  <2>1. FramesFollow /\ JoinsHelper(s) /\ received[s] \in Nat /\ sent[s] \in Nat /\ received \in [Stream -> Nat]
    BY HelperCounts, TypesAre DEF FramesJoin, CounterTypes
  <2> QED
    BY <1>1, <2>1
<1>4. /\ Len(h2c') \in Nat
      /\ \A i \in 1 .. Len(h2c') : i + 1 \in 1 .. Len(h2c) /\ h2c'[i] = h2c[i + 1] /\ h2c'[i] \in Frame
      /\ \A t : ~IsFrame(Head(h2c), t, "Data") =>
           \A i \in 1 .. Len(h2c) : IsFrame(h2c[i], t, "Data") => \E j \in 1 .. Len(h2c') : h2c'[j] = h2c[i]
      /\ \A i \in 2 .. Len(h2c) : i - 1 \in 1 .. Len(h2c') /\ h2c'[i - 1] = h2c[i]
  BY <1>1, <1>3, FramesPop
<1>5. ASSUME NEW t \in Stream, t # s PROVE JoinsHelper(t)'
  <2>1. ~IsFrame(Head(h2c), t, "Data")
    BY <1>0, <1>5 DEF IsFrame
  <2>2. JoinsHelper(t) /\ confirmed[t] <= Len(pushed'[t])
    BY <1>1 DEF FramesJoin, JoinsHelper
  <2> QED
    BY <1>1, <1>3, <1>4, <1>5, <2>1, <2>2, HelperKeeps
<1>6. JoinsHelper(s)'
  <2>1. b <= sent[s] /\ confirmed[s] <= Len(pushed[s])
    BY <1>0, <1>1, <1>2, <1>3 DEF FramesFollow, JoinsHelper, b
  <2>2. ASSUME NEW n \in b + 1 .. sent[s]
        PROVE  \E j \in 1 .. Len(h2c') : IsFrame(h2c'[j], s, "Data") /\ h2c'[j].byte = n
    <3>1. n \in received[s] + 1 .. sent[s] /\ n # b
      BY <1>2, <1>3
    <3>2. PICK i \in 1 .. Len(h2c) : IsFrame(h2c[i], s, "Data") /\ h2c[i].byte = n
      BY <1>1, <1>3, <3>1 DEF JoinsHelper
    <3>3. i # 1
      BY <1>2, <3>1, <3>2 DEF b
    <3>4. i \in 2 .. Len(h2c)
      BY <1>2, <3>3
    <3> QED
      BY <1>4, <3>2, <3>4
  <2> QED
    BY <1>1, <1>3, <2>1, <2>2 DEF JoinsHelper, IsFrame
<1>7. ASSUME NEW i \in 1 .. Len(h2c')
      PROVE  /\ h2c'[i].type = "Data" /\ open'[h2c'[i].stream] => received'[h2c'[i].stream] < h2c'[i].byte
             /\ h2c'[i].type = "Ack" => acked'[h2c'[i].stream] <= h2c'[i].offset
  <2>1. /\ h2c[i + 1] = h2c'[i] /\ i + 1 \in 1 .. Len(h2c) /\ h2c'[i].stream \in Stream
    BY <1>4 DEF Frame
  <2>2. h2c'[i].type = "Ack" => acked'[h2c'[i].stream] <= h2c'[i].offset
    BY <1>1, <1>3, <2>1 DEF FramesFollow
  <2>3. ASSUME h2c'[i].type = "Data", open'[h2c'[i].stream] PROVE received'[h2c'[i].stream] < h2c'[i].byte
    <3>1. CASE h2c'[i].stream # s
      BY <1>1, <1>3, <2>1, <2>3, <3>1 DEF FramesFollow
    <3>2. CASE h2c'[i].stream = s
      <4>1. 1 \in 1 .. (i + 1) - 1 /\ IsFrame(h2c[1], h2c[i + 1].stream, "Data") /\ h2c[i + 1].type = "Data"
        BY <1>0, <1>1, <1>2, <2>1, <2>3, <3>2 DEF IsFrame
      <4>2. h2c[1].byte < h2c[i + 1].byte
        BY <1>3, <2>1, <4>1 DEF FramesFollow
      <4> QED
        BY <1>2, <1>3, <2>1, <3>2, <4>2 DEF b
    <3> QED
      BY <3>1, <3>2
  <2> QED
    BY <2>2, <2>3
<1>8. FramesFollow'
  BY <1>1, <1>3, <1>4, <1>7, FramesKeep
<1> QED
  BY <1>5, <1>6, <1>8 DEF FramesJoin

\* An Ack: it names no less than the one before it.
LEMMA FrameConfirms ==
  ASSUME TypeOK, FramesJoin, ApplyAck
  PROVE  FramesJoin'
<1>0. PICK s \in Stream : s = Head(h2c).stream
  BY Heads DEF ApplyAck, NextFrame
<1>1. /\ h2c # <<>> /\ h2c' = Tail(h2c) /\ Head(h2c).type = "Ack" /\ UNCHANGED <<sent, confirmed, received, pushed, open>>
      /\ acked' = IF open[s] THEN [acked EXCEPT ![s] = Head(h2c).offset] ELSE acked
  BY <1>0 DEF ApplyAck, NextFrame, Set
<1>2. Head(h2c) = h2c[1] /\ 1 \in 1 .. Len(h2c) /\ FramesFollow /\ acked \in [Stream -> Nat]
  BY <1>1, Heads, TypesAre DEF FramesJoin, CounterTypes
<1>3. /\ Len(h2c') \in Nat
      /\ \A i \in 1 .. Len(h2c') : i + 1 \in 1 .. Len(h2c) /\ h2c'[i] = h2c[i + 1] /\ h2c'[i] \in Frame
      /\ \A t : ~IsFrame(Head(h2c), t, "Data") =>
           \A i \in 1 .. Len(h2c) : IsFrame(h2c[i], t, "Data") => \E j \in 1 .. Len(h2c') : h2c'[j] = h2c[i]
  BY <1>1, <1>2, FramesPop
<1>4. ASSUME NEW t \in Stream PROVE JoinsHelper(t)'
  <2>1. ~IsFrame(Head(h2c), t, "Data")
    BY <1>1 DEF IsFrame
  <2>2. JoinsHelper(t) /\ confirmed[t] <= Len(pushed'[t])
    BY <1>1 DEF FramesJoin, JoinsHelper
  <2> QED
    BY <1>1, <1>3, <2>1, <2>2, HelperKeeps
<1>5. ASSUME NEW i \in 1 .. Len(h2c')
      PROVE  /\ h2c'[i].type = "Data" /\ open'[h2c'[i].stream] => received'[h2c'[i].stream] < h2c'[i].byte
             /\ h2c'[i].type = "Ack" => acked'[h2c'[i].stream] <= h2c'[i].offset
  <2>1. h2c[i + 1] = h2c'[i] /\ i + 1 \in 1 .. Len(h2c) /\ h2c'[i].stream \in Stream
    BY <1>3 DEF Frame
  <2>2. h2c'[i].type = "Data" /\ open'[h2c'[i].stream] => received'[h2c'[i].stream] < h2c'[i].byte
    BY <1>1, <1>2, <2>1 DEF FramesFollow
  <2>3. ASSUME h2c'[i].type = "Ack" PROVE acked'[h2c'[i].stream] <= h2c'[i].offset
    <3>1. acked[h2c'[i].stream] <= h2c'[i].offset
      BY <1>2, <2>1, <2>3 DEF FramesFollow
    <3>2. CASE h2c'[i].stream = s
      <4>1. 1 \in 1 .. (i + 1) - 1 /\ IsFrame(h2c[1], h2c[i + 1].stream, "Ack") /\ h2c[i + 1].type = "Ack"
        BY <1>0, <1>1, <1>2, <2>1, <2>3, <3>2 DEF IsFrame
      <4>2. h2c[1].offset <= h2c[i + 1].offset
        BY <1>2, <2>1, <4>1 DEF FramesFollow
      <4> QED
        BY <1>1, <1>2, <2>1, <3>1, <3>2, <4>2
    <3>3. CASE h2c'[i].stream # s
      BY <1>1, <1>2, <2>1, <3>1, <3>3
    <3> QED
      BY <3>2, <3>3
  <2> QED
    BY <2>2, <2>3
<1>6. FramesFollow'
  BY <1>1, <1>2, <1>3, <1>5, FramesKeep
<1> QED
  BY <1>4, <1>6 DEF FramesJoin

\* Every step keeps the frames of every stream in order.
LEMMA FramesStep ==
  ASSUME TypeOK, TasksHold, UpJoins, FramesJoin, [Next]_vars
  PROVE  FramesJoin'
<1> USE DEF Set
<1>0. QueueTypes /\ DriverTypes /\ CounterTypes
  BY TypesAre
<1>1. ASSUME NEW s \in Stream, Helper(s) PROVE FramesJoin'
  <2>0. UNCHANGED <<received, acked, open, pushed>>
    BY <1>1 DEF Helper, HelperSends, HelperConfirms, HelperEnds, drvVars
  <2>1. CASE HelperSends(s)
    <3> DEFINE f == [stream |-> s, type |-> "Data", byte |-> sent[s] + 1]
    <3>1. f \in Frame
      <4>1. sent[s] \in Nat /\ sent[s] < MaxDown /\ MaxDown \in Nat
        BY <2>1, HelperCounts, PumpAssumption DEF HelperSends
      <4>2. sent[s] + 1 \in 1 .. MaxDown
        BY <4>1
      <4> QED
        BY <4>2 DEF Frame, Down
    <3>2. /\ h2c' = Append(h2c, f) /\ f.type = "Data" /\ f.stream = s /\ f.byte = sent[s] + 1
          /\ sent' = [sent EXCEPT ![s] = sent[s] + 1] /\ confirmed' = confirmed
      BY <2>1 DEF HelperSends
    <3> HIDE DEF f
    <3> QED
      BY <2>0, <3>1, <3>2, FrameSent
  <2>2. CASE HelperConfirms(s)
    <3> DEFINE f == [stream |-> s, type |-> "Ack", offset |-> Len(pushed[s])]
    <3>1. f \in Frame
      <4>1. Len(pushed[s]) \in 1 .. MaxUp
        <5>1. pushed[s] \in Seq(Up) /\ CountsOn(0, pushed[s]) /\ MaxUp \in Nat
          BY <1>0, PumpAssumption DEF CounterTypes, UpJoins, JoinsUp
        <5>2. Len(pushed[s]) <= MaxUp
          BY <5>1, NumbersFit DEF Up
        <5>3. confirmed[s] \in Nat /\ Len(pushed[s]) \in Nat /\ confirmed[s] < Len(pushed[s])
          BY <2>2, HelperCounts DEF HelperConfirms
        <5> QED
          BY <5>1, <5>2, <5>3
      <4> QED
        BY <4>1 DEF Frame, Up
    <3>2. /\ h2c' = Append(h2c, f) /\ f.type = "Ack" /\ f.stream = s /\ f.offset = Len(pushed[s])
          /\ confirmed' = [confirmed EXCEPT ![s] = Len(pushed[s])] /\ sent' = sent
      BY <2>2 DEF HelperConfirms
    <3> HIDE DEF f
    <3> QED
      BY <2>0, <3>1, <3>2, FrameSent
  <2>3. ASSUME NEW type \in {"Fin", "Reset"}, HelperEnds(s, type) PROVE FramesJoin'
    <3> DEFINE f == [stream |-> s, type |-> type]
    <3>1. f \in Frame /\ f.type # "Data" /\ f.type # "Ack"
      BY DEF Frame
    <3>2. h2c' = Append(h2c, f) /\ sent' = sent /\ confirmed' = confirmed
      BY <2>3 DEF HelperEnds
    <3> HIDE DEF f
    <3> QED
      BY <2>0, <3>1, <3>2, FrameSent
  <2> QED
    BY <1>1, <2>1, <2>2, <2>3 DEF Helper
<1>2. CASE HandleLocalData
  <2>1. UNCHANGED <<h2c, sent, confirmed, received, acked>>
    BY <1>2 DEF HandleLocalData, helperVars
  <2>2. ASSUME NEW t \in Stream PROVE open'[t] => open[t]
    BY <1>0, <1>2 DEF HandleLocalData, Forget, DriverTypes
  <2>3. ASSUME NEW t \in Stream PROVE Len(pushed'[t]) >= Len(pushed[t]) /\ Len(pushed'[t]) \in Nat
    <3>0. Len(pushed[t]) \in Nat
      BY HelperCounts
    <3>1. CASE pushed' = pushed
      BY <3>0, <3>1
    <3>2. CASE pushed' # pushed
      <4> DEFINE s == Command1.stream
      <4>1. /\ cmds # <<>> /\ Command1.kind = "data" /\ open[s]
            /\ pushed' = [pushed EXCEPT ![s] = Append(pushed[s], Command1.byte)]
        BY <1>2, <3>2 DEF HandleLocalData
      <4>2. s \in Stream /\ Command1.byte \in Up /\ pushed[s] \in Seq(Up)
        BY <1>0, <4>1, Heads, NextData DEF CounterTypes, Command1
      <4>3. Len(Append(pushed[s], Command1.byte)) = Len(pushed[s]) + 1 /\ Len(pushed[s]) \in Nat
        BY <4>2, Joined
      <4> HIDE DEF s
      <4>4. CASE t = s
        <5>1. pushed'[t] = Append(pushed[s], Command1.byte)
          BY <1>0, <4>1, <4>2, <4>4 DEF CounterTypes
        <5> QED
          BY <4>3, <4>4, <5>1
      <4>5. CASE t # s
        <5>1. pushed'[t] = pushed[t]
          BY <1>0, <4>1, <4>5 DEF CounterTypes
        <5> QED
          BY <3>0, <5>1
      <4> QED
        BY <4>4, <4>5
    <3> QED
      BY <3>1, <3>2
  <2> QED
    BY <2>1, <2>2, <2>3, FramesStay
<1>3. CASE UNCHANGED <<h2c, sent, confirmed, received, acked, pushed>> /\ \A t \in Stream : open'[t] => open[t]
  <2>1. \A t \in Stream : Len(pushed'[t]) >= Len(pushed[t]) /\ Len(pushed'[t]) \in Nat
    <3>1. \A n \in Nat : n >= n
      OBVIOUS
    <3> QED
      BY <1>3, <3>1, HelperCounts
  <2> QED
    BY <1>3, <2>1, FramesStay
<1>4. CASE HandleLocalEof \/ HandleLocalClose \/ Deliver \/ Flush
  <2>1. UNCHANGED <<h2c, sent, confirmed, received, acked, pushed>>
    BY <1>4 DEF HandleLocalEof, HandleLocalClose, Deliver, Flush, helperVars
  <2>2. UNCHANGED open \/ \E s : open' = [open EXCEPT ![s] = FALSE]
    BY <1>4 DEF HandleLocalEof, HandleLocalClose, Deliver, Flush, Forget
  <2>3. \A t \in Stream : open'[t] => open[t]
    BY <1>0, <2>2 DEF DriverTypes
  <2> QED
    BY <1>3, <2>1, <2>3
<1>5. CASE ApplyData /\ ~open[Head(h2c).stream]
  <2>1. h2c # <<>> /\ h2c' = Tail(h2c) /\ UNCHANGED <<sent, confirmed, received, acked, pushed, open>>
    BY <1>5 DEF ApplyData, NextFrame
  <2>2. \A t \in Stream : open'[t] => open[t] /\ ~IsFrame(Head(h2c), t, "Data")
    BY <1>5, <2>1 DEF IsFrame
  <2> QED
    BY <2>1, <2>2, FrameDropped
<1>6. CASE ApplyFin \/ ApplyReset
  <2>1. /\ h2c # <<>> /\ h2c' = Tail(h2c) /\ UNCHANGED <<sent, confirmed, received, acked, pushed>>
        /\ Head(h2c).type # "Data"
    BY <1>6 DEF ApplyFin, ApplyReset, NextFrame
  <2>2. UNCHANGED open \/ \E s : open' = [open EXCEPT ![s] = FALSE]
    BY <1>6 DEF ApplyFin, ApplyReset
  <2>3. \A t \in Stream : open'[t] => open[t] /\ ~IsFrame(Head(h2c), t, "Data")
    BY <1>0, <2>1, <2>2 DEF DriverTypes, IsFrame
  <2> QED
    BY <2>1, <2>3, FrameDropped
<1>7. ASSUME NEW s \in Stream, App(s) \/ Pump(s) PROVE FramesJoin'
  <2>1. UNCHANGED <<h2c, sent, confirmed, received, acked, pushed, open>>
    BY <1>7 DEF App, Pump, AppWrites, AppShuts, AppDrops, AppReads, PumpReads, PumpSends, PumpTakes, PumpWrites,
                PumpSeesFin, PumpPanics, PumpTerminates, drvVars, helperVars
  <2> QED
    BY <1>3, <2>1
<1>8. CASE UNCHANGED vars
  <2>1. UNCHANGED <<h2c, sent, confirmed, received, acked, pushed, open>>
    BY <1>8 DEF vars, drvVars, helperVars
  <2> QED
    BY <1>3, <2>1
<1>9. CASE ApplyData /\ open[Head(h2c).stream]
  BY <1>9, FrameReceived
<1>10. CASE ApplyAck
  BY <1>10, FrameConfirms
<1> QED
  BY <1>1, <1>2, <1>4, <1>5, <1>6, <1>7, <1>8, <1>9, <1>10 DEF Next, Commands, Frames

-----------------------------------------------------------------------------
(* The invariant.                                                          *)

\* At the start nothing is under way.
LEMMA PumpStarts == Init => TypeOK /\ TasksHold /\ DownJoins /\ UpJoins /\ FramesJoin
<1> SUFFICES ASSUME Init PROVE TypeOK /\ TasksHold /\ DownJoins /\ UpJoins /\ FramesJoin
  OBVIOUS
<1> USE DEF Init, All
<1>0. /\ Len(<<>>) = 0 /\ \A n : CountsOn(n, <<>>)
      /\ \A S : <<>> \in Seq(S)
  BY EmptySeq, EmptyCounts
<1>1. AppTypes
  BY <1>0, PumpAssumption DEF AppTypes
<1>2. DuplexTypes
  BY <1>0, PumpAssumption DEF DuplexTypes
<1>3. PumpTypes
  BY DEF PumpTypes
<1>4. QueueTypes
  BY <1>0, PumpAssumption DEF QueueTypes
<1>5. DriverTypes
  BY DEF DriverTypes
<1>6. CounterTypes
  BY <1>0, PumpAssumption DEF CounterTypes
<1>7. TypeOK
  BY <1>1, <1>2, <1>3, <1>4, <1>5, <1>6, TypesAre
<1>8. TasksHold
  BY DEF TasksHold
<1> DEFINE Rests(s) ==
             /\ got[s] = <<>> /\ dn[s] = <<>> /\ up[s] = <<>> /\ to_local[s] = <<>> /\ pushed[s] = <<>>
             /\ wrote[s] = 0 /\ received[s] = 0 /\ sent[s] = 0 /\ confirmed[s] = 0
             /\ pump[s] = "select" /\ msg[s] = NoMsg /\ ~local_eof[s] /\ ~local_fin[s]
<1>9. (\A s \in Stream : Rests(s)) /\ cmds = <<>> /\ h2c = <<>> /\ drv = "select"
  OBVIOUS
<1> USE DEF Rests
<1> HIDE DEF Init, All
<1>10. DownJoins
  <2> SUFFICES ASSUME NEW s \in Stream, Rests(s) PROVE JoinsDown(s)
    BY <1>9 DEF DownJoins
  <2>1. Taken(s) = 0 /\ ~Delivering(s)
    BY <1>0, <1>9 DEF Taken, Passed, Delivering
  <2> QED
    BY <1>0, <2>1 DEF JoinsDown
<1>11. UpJoins
  <2>1. ASSUME NEW s \in Stream, Rests(s) PROVE JoinsUp(s)
    <3>1. Sent(s) = 0 /\ msg[s].kind = "none"
      <4>1. wrote[s] = 0 /\ Len(up[s]) = 0 /\ msg[s].kind = "none"
        BY <1>0, <2>1 DEF NoMsg
      <4> HIDE DEF Rests
      <4>2. Sent(s) = 0 - 0 - 0
        BY <4>1 DEF Sent
      <4> QED
        BY <4>1, <4>2
    <3> QED
      BY <1>0, <2>1, <3>1 DEF JoinsUp
  <2>2. CommandsFollow
    BY <1>0, <1>9 DEF CommandsFollow
  <2> QED
    BY <1>9, <2>1, <2>2 DEF UpJoins
<1>12. FramesJoin
  BY <1>0, <1>9 DEF FramesJoin, JoinsHelper, FramesFollow
<1> QED
  BY <1>7, <1>8, <1>10, <1>11, <1>12

\* What the streams join is what they carry, in order; and the byte being
\* delivered is not yet confirmed.
LEMMA JoinedIsInOrder ==
  ASSUME TypeOK, DownJoins, UpJoins
  PROVE  BothInOrder /\ AckWaitsForPump
<1>1. ASSUME NEW s \in Stream
      PROVE  /\ got[s] = Upto(Len(got[s])) /\ pushed[s] = Upto(Len(pushed[s]))
             /\ local_fin[s] => Len(pushed[s]) = wrote[s]
  <2>1. got[s] \in Seq(Down) /\ pushed[s] \in Seq(Up)
    BY DownCounts, UpCounts
  <2>2. JoinsDown(s) /\ JoinsUp(s)
    BY DEF DownJoins, UpJoins
  <2>3. CountsOn(0, got[s]) /\ CountsOn(0, pushed[s]) /\ (local_fin[s] => Len(pushed[s]) = wrote[s])
    BY <2>2 DEF JoinsDown, JoinsUp
  <2> QED
    BY <2>1, <2>3, CountsFromOne
<1>2. ASSUME NEW s \in Stream, Delivering(s) PROVE flushed[s] < deliver.byte
  <2>1. /\ flushed[s] \in Nat /\ outbound[s] \in Nat /\ received[s] \in Nat
        /\ flushed[s] <= outbound[s]
    BY TypesAre DEF CounterTypes
  <2>2. deliver.byte = received[s] /\ outbound[s] < received[s]
    BY <1>2 DEF DownJoins, JoinsDown
  <2> QED
    BY <2>1, <2>2
<1> QED
  BY <1>1, <1>2 DEF BothInOrder, AckWaitsForPump, Delivering

\* Between the application and the session loop bytes keep their order in both
\* directions, end of file comes last, and back-pressure holds: for every number
\* of streams, and queues of every length.
THEOREM PumpIsSafe == Spec => []PumpInv
<1> DEFINE Inv == TypeOK /\ TasksHold /\ DownJoins /\ UpJoins /\ FramesJoin
<1>1. Init => Inv
  BY PumpStarts
<1>2. Inv /\ [Next]_vars => Inv'
  <2> SUFFICES ASSUME TypeOK, TasksHold, DownJoins, UpJoins, FramesJoin, [Next]_vars PROVE Inv'
    OBVIOUS
  <2>1. (TypeOK <=> AppTypes /\ DuplexTypes /\ PumpTypes /\ QueueTypes /\ DriverTypes /\ CounterTypes)'
    BY TypesAre, PTL
  <2>2. AppTypes' /\ DuplexTypes' /\ PumpTypes'
    BY AppTypesStep, DuplexTypesStep, PumpTypesStep
  <2>3. QueueTypes' /\ DriverTypes' /\ CounterTypes'
    BY QueueTypesStep, DriverTypesStep, CounterTypesStep
  <2>4. TypeOK'
    BY <2>1, <2>2, <2>3
  <2>5. TasksHold' /\ DownJoins' /\ UpJoins' /\ FramesJoin'
    BY TasksStep, DownStep, UpStep, FramesStep
  <2> QED
    BY <2>4, <2>5
<1>3. Inv => PumpInv
  BY JoinedIsInOrder DEF PumpInv
<1> QED
  BY <1>1, <1>2, <1>3, PTL DEF Spec

=============================================================================
