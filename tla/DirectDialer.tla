---------------------------- MODULE DirectDialer ----------------------------
(***************************************************************************)
(* The dialer of the direct-tcpip mode, srp/src/tunnel/direct.rs, on top   *)
(* of the session manager: every request waits for a session, asks it for  *)
(* a channel, and starts again when the failure is the connection's.       *)
(* sshd and the target are external; a channel request fails as a class of *)
(* russh errors. The flag is_dead lags behind the loss of a connection, so *)
(* wait_for_session may hand out the same lost session again.              *)
(***************************************************************************)
EXTENDS TunnelManager

CONSTANT MAX_REPLAYS

ASSUME DialerAssumption == MAX_REPLAYS \in Nat

VARIABLES
  dial,     \* where DirectTcpipDialer::dial is, or what it returned
  session,  \* epoch of the session the request has
  replays   \* replays so far

dialVars == <<dial, session, replays>>
dvars == <<vars, dialVars>>

\* The classes of russh::Error that dial tells apart.
ErrorClass == {"refused", "transport", "protocol"}

\* DialError. A ChannelOpenFailure keeps its reason, abstracted to one value.
DialError == {"Refused", "NetworkUnreachable", "TimedOut", "Internal"}

DialState == {"wait", "open", "sleep", "opened"} \cup DialError

DialTypeOK ==
  /\ dial \in [Request -> DialState]
  /\ session \in [Request -> 0 .. next_epoch - 1]
  /\ replays \in [Request -> 0 .. MAX_REPLAYS]

DialInit ==
  /\ Init
  /\ dial = [r \in Request |-> "wait"]
  /\ session = [r \in Request |-> None]
  /\ replays = [r \in Request |-> 0]

\* The connection of a session is gone, whether or not is_dead says so.
Lost(e) == e \in broken \/ e \notin alive

is_transport_failure(class) == class = "transport"

classify_open_error(class) ==
  CASE class = "refused"   -> {"Refused"}
    [] class = "transport" -> {"NetworkUnreachable", "TimedOut", "Refused"}
    [] class = "protocol"  -> {"Internal"}

Ended(r) == dial[r] \in DialError \cup {"opened"}

-----------------------------------------------------------------------------

DialGoto(r, from, to) == dial[r] = from /\ dial' = [dial EXCEPT ![r] = to]

\* What the end of wait_for_session gives the dialer.
Returned(r) ==
  /\ dial' = [dial EXCEPT ![r] = CASE req'[r] = "ok"     -> "open"
                                   [] req'[r] = "failed" -> "NetworkUnreachable"
                                   [] OTHER              -> "wait"]
  /\ session' = IF req'[r] = "ok" THEN [session EXCEPT ![r] = current] ELSE session
  /\ UNCHANGED replays

Waits(r) == dial[r] = "wait" /\ req[r] # "new" /\ Proceed(r) /\ Returned(r)

Begins(r) == dial[r] = "wait" /\ req[r] = "new" /\ Arrive(r) /\ UNCHANGED dialVars

WaitIsOver(r) == dial[r] = "wait" /\ DialWaitOver(r) /\ Returned(r)

Opened(r) ==
  /\ DialGoto(r, "open", "opened")
  /\ UNCHANGED <<vars, session, replays>>

\* Mutant: every error of channel_open is worth a replay.
MayReplayAll(r, class) == replays[r] < MAX_REPLAYS

MayReplay(r, class) ==
  /\ replays[r] < MAX_REPLAYS
  /\ is_transport_failure(class) \/ session[r] \notin alive

\* channel_open_direct_tcpip returned an error: tell the supervisor and sleep
\* 50 ms before the replay, or report it.
OpenFails(r) ==
  \E class \in ErrorClass :
    /\ class = "transport" => Lost(session[r])
    /\ IF MayReplay(r, class)
       THEN /\ DialGoto(r, "open", "sleep")
            /\ replays' = [replays EXCEPT ![r] = @ + 1]
            /\ NotifyBroken(r)
       ELSE /\ \E err \in classify_open_error(class) : DialGoto(r, "open", err)
            /\ UNCHANGED <<vars, replays>>
    /\ UNCHANGED session

\* Mutant: goes back to the wait without asking for a session again.
SleptOnly(r) == DialGoto(r, "sleep", "wait") /\ UNCHANGED <<vars, session, replays>>

Slept(r) ==
  /\ DialGoto(r, "sleep", "wait")
  /\ Arrive(r)
  /\ UNCHANGED <<session, replays>>

\* open_timeout: replayed at once, but only on a session known to be dead.
OpenTimesOut(r) ==
  /\ IF replays[r] < MAX_REPLAYS /\ session[r] \notin alive
     THEN /\ DialGoto(r, "open", "wait")
          /\ replays' = [replays EXCEPT ![r] = @ + 1]
          /\ permit' = TRUE
          /\ req' = [req EXCEPT ![r] = "ask"]
          /\ UNCHANGED <<others, watchVars>>
     ELSE DialGoto(r, "open", "TimedOut") /\ UNCHANGED <<vars, replays>>
  /\ UNCHANGED session

DialProceeds(r) == Waits(r) \/ Opened(r) \/ OpenFails(r) \/ Slept(r) \/ OpenTimesOut(r)

ManagerStep ==
  /\ Supervise \/ ShutdownFlag \/ ShutdownTake \/ ShutdownClose \/ LinkBreaks \/ DeathNoticed
  /\ UNCHANGED dialVars

DialNext ==
  \/ ManagerStep
  \/ \E r \in Request : Begins(r) \/ DialProceeds(r) \/ WaitIsOver(r)

DialSpec == DialInit /\ [][DialNext]_dvars

\* As in TunnelManager; open_timeout ends every wait for a channel.
FairDialSpec ==
  /\ DialSpec
  /\ WF_dvars(Supervise /\ UNCHANGED dialVars)
  /\ WF_dvars((ShutdownTake \/ ShutdownClose) /\ UNCHANGED dialVars)
  /\ WF_dvars(DeathNoticed /\ UNCHANGED dialVars)
  /\ \A r \in Request : WF_dvars(DialProceeds(r))

-----------------------------------------------------------------------------
(* Properties                                                              *)

\* The dialer and its call of wait_for_session agree: a request that is being
\* opened, or was, holds the session the manager gave it; one that waits has an
\* unfinished call; and who gave up has none. A session being made is nobody's
\* yet, so what is lost stays lost.
DialInv ==
  /\ ManagerInv
  /\ DialTypeOK
  /\ \A r \in Request :
       /\ dial[r] \in {"open", "sleep", "opened"} => req[r] = "ok" /\ session[r] # None
       /\ dial[r] = "wait" => req[r] \notin {"ok", "failed"}
       /\ dial[r] = "NetworkUnreachable" /\ req[r] # "failed" => Lost(session[r])
       /\ sup = "connecting" => session[r] # epoch

\* No request is asked for twice of a connection that works: a replay happens
\* only when the connection it was tried on is lost, so nothing of the first
\* attempt can still come about. An explicit refusal, or a slow answer, on a
\* live session is final.
ReplayOnlyIfLost ==
  [][\A r \in Request : replays'[r] # replays[r] => Lost(session[r])]_dvars

\* Every dial ends, although dial_wait never has to expire: sessions that die
\* under it, is_dead that lags, and shutdown do not make it wait for ever.
DialEnds == enabled => \A r \in Request : req[r] = "ask" ~> Ended(r)

\* "replaying on a fresh session": the session of a replay is another one.
ReplayIsFresh ==
  [][\A r \in Request :
       session'[r] # session[r] \/ dial'[r] # "open" \/ dial[r] = "open"]_dvars

=============================================================================
