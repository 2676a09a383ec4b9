---------------------------- MODULE TunnelManager ----------------------------
(***************************************************************************)
(* The SSH session manager, srp/src/tunnel/manager.rs: supervise keeps one *)
(* session alive, wait_for_session parks requests until there is one, and  *)
(* shutdown stops both. They share current (a mutex), a watch channel with *)
(* the published state, and reconnect_now, a Notify with one permit.       *)
(*                                                                         *)
(* A session is its epoch; broken are the epochs whose connection is lost, *)
(* alive those whose Session.is_dead is still false: the flag lags behind  *)
(* the loss. The network fails dials and breaks connections until MaxDials *)
(* dials were made, and is stable from then on.                            *)
(***************************************************************************)
EXTENDS Integers

CONSTANTS
  Request,     \* concurrent calls of wait_for_session
  Configs,     \* values of reconnect.enabled to consider
  MayShutdown, \* shutdown may be called
  MaxDials     \* bound: dials until the network is stable

ASSUME ManagerAssumption ==
  /\ Configs \subseteq BOOLEAN
  /\ MayShutdown \in BOOLEAN
  /\ MaxDials \in Nat \ {0}

VARIABLES
  enabled,     \* reconnect.enabled, fixed at the start
  shutdown,    \* TunnelManager.shutdown
  current,     \* epoch of the session in TunnelManager.current, or None
  lock,        \* "free", or "shutdown" while disconnect is awaited under it
  state,       \* the value in the watch channel
  published,   \* the watch channel was ever sent to
  permit,      \* reconnect_now holds a permit, or woke its registered waiter
  next_epoch,
  connects,
  attempts,    \* Backoff.attempts
  alive,       \* epochs whose is_dead is false
  broken,      \* epochs whose connection is lost
  sup,         \* where supervise is: see SupPC
  epoch,       \* of the session supervise is making
  down,        \* where shutdown is: "no", "flagged", "closing", "closed"
  req,         \* where each request is: see ReqPC
  fresh        \* the request's receiver has not seen the last publication

link == <<alive, broken>>
supVars == <<attempts, sup, epoch, next_epoch, connects>>
watchVars == <<state, published, fresh>>
vars == <<enabled, shutdown, current, lock, watchVars, permit, supVars, link, down, req>>

None == 0
\* One dial succeeds once the network is stable, and shutdown may cost another.
Epoch == 1 .. MaxDials + 2

Connecting == [kind |-> "Connecting"]
Up(e) == [kind |-> "Up", epoch |-> e]
Reconnecting(n) == [kind |-> "Reconnecting", attempts |-> n]
Closed == [kind |-> "Closed"]

TunnelState ==
  {Connecting, Closed} \cup {Up(e) : e \in Epoch} \cup {Reconnecting(n) : n \in 0 .. MaxDials}

SupPC == {"top", "look", "idle", "inspect", "lost", "connecting", "store", "announce",
          "backoff", "done"}

ReqPC == {"new", "ask", "notify", "check", "wait", "look", "ok", "failed"}

TypeOK ==
  /\ enabled \in Configs
  /\ shutdown \in BOOLEAN /\ published \in BOOLEAN /\ permit \in BOOLEAN
  /\ next_epoch \in 1 .. MaxDials + 3
  /\ current \in 0 .. next_epoch - 1 /\ epoch \in 0 .. next_epoch - 1
  /\ lock \in {"free", "shutdown"}
  /\ state \in TunnelState
  /\ connects \in 0 .. next_epoch - 1
  /\ attempts \in 0 .. MaxDials
  /\ alive \subseteq 1 .. next_epoch - 1 /\ broken \subseteq 1 .. next_epoch - 1
  /\ sup \in SupPC
  /\ down \in {"no", "flagged", "closing", "closed"}
  /\ req \in [Request -> ReqPC]
  /\ fresh \in [Request -> BOOLEAN]

Init ==
  /\ enabled \in Configs
  /\ shutdown = FALSE /\ current = None /\ lock = "free"
  /\ state = Connecting /\ published = FALSE /\ permit = FALSE
  /\ next_epoch = 1 /\ connects = 0 /\ attempts = 0
  /\ alive = {} /\ broken = {}
  /\ sup = "top" /\ epoch = None /\ down = "no"
  /\ req = [r \in Request |-> "new"]
  /\ fresh = [r \in Request |-> FALSE]

\* TunnelManager::current, under the mutex.
Usable == IF current \in alive THEN current ELSE None

Subscribed == {r \in Request : req[r] \in {"check", "wait", "look"}}

\* state_tx.send wakes every subscribed receiver.
Publish(s) ==
  /\ state' = s
  /\ published' = TRUE
  /\ fresh' = [r \in Request |-> fresh[r] \/ r \in Subscribed]

-----------------------------------------------------------------------------
(* supervise                                                               *)

SupGoto(from, to) == sup = from /\ sup' = to

\* Mutant: never looks at the shutdown flag.
SupTopBlind ==
  /\ SupGoto("top", "look")
  /\ UNCHANGED <<enabled, shutdown, current, lock, watchVars, permit, attempts, epoch, next_epoch,
                 connects, link, down, req>>

SupTop ==
  /\ SupGoto("top", IF shutdown THEN "done" ELSE "look")
  /\ UNCHANGED <<enabled, shutdown, current, lock, watchVars, permit, attempts, epoch, next_epoch,
                 connects, link, down, req>>

\* A usable session is patrolled, otherwise connect_once takes the next epoch.
SupLook ==
  /\ lock = "free"
  /\ IF Usable # None
     THEN SupGoto("look", "idle") /\ UNCHANGED <<epoch, next_epoch>>
     ELSE /\ SupGoto("look", "connecting")
          /\ epoch' = next_epoch
          /\ next_epoch' = next_epoch + 1
  /\ UNCHANGED <<enabled, shutdown, current, lock, watchVars, permit, attempts, connects, link, down, req>>

\* The patrol timer, or the permit of reconnect_now.
SupWake ==
  /\ SupGoto("idle", "inspect")
  /\ permit' \in {permit, FALSE}
  /\ UNCHANGED <<enabled, shutdown, current, lock, watchVars, attempts, epoch, next_epoch, connects,
                 link, down, req>>

SupInspect ==
  /\ lock = "free"
  /\ IF current # None /\ current \notin alive
     THEN SupGoto("inspect", "lost") /\ current' = None
     ELSE SupGoto("inspect", "top") /\ UNCHANGED current
  /\ UNCHANGED <<enabled, shutdown, lock, watchVars, permit, attempts, epoch, next_epoch, connects,
                 link, down, req>>

SupLost ==
  /\ SupGoto("lost", "top")
  /\ Publish(Reconnecting(0))
  /\ UNCHANGED <<enabled, shutdown, current, lock, permit, attempts, epoch, next_epoch, connects,
                 link, down, req>>

\* Mutant: the state is published before the session is there to be taken.
SupConnectedEarly ==
  /\ SupGoto("connecting", "store")
  /\ attempts' = 0
  /\ connects' = connects + 1
  /\ alive' = alive \cup {epoch}
  /\ Publish(Up(epoch))
  /\ UNCHANGED <<broken, enabled, shutdown, current, lock, permit, epoch, next_epoch, down, req>>

SupConnected ==
  /\ SupGoto("connecting", "store")
  /\ attempts' = 0
  /\ connects' = connects + 1
  /\ alive' = alive \cup {epoch}
  /\ UNCHANGED <<broken, enabled, shutdown, current, lock, watchVars, permit, epoch, next_epoch, down, req>>

SupStore ==
  /\ lock = "free"
  /\ SupGoto("store", "announce")
  /\ current' = epoch
  /\ UNCHANGED <<enabled, shutdown, lock, watchVars, permit, attempts, epoch, next_epoch, connects,
                 link, down, req>>

\* Mutant: the new session is not announced.
SupAnnounceNothing ==
  /\ SupGoto("announce", "top")
  /\ UNCHANGED <<enabled, shutdown, current, lock, watchVars, permit, attempts, epoch, next_epoch,
                 connects, link, down, req>>

SupAnnounce ==
  /\ SupGoto("announce", "top")
  /\ Publish(Up(epoch))
  /\ UNCHANGED <<enabled, shutdown, current, lock, permit, attempts, epoch, next_epoch, connects,
                 link, down, req>>

\* Until the network is stable a dial may fail: connect or authentication
\* refused or timed out.
DialFails == sup = "connecting" /\ epoch <= MaxDials

\* Mutant: gives up whatever the configuration says.
SupFailedForGood ==
  /\ DialFails /\ enabled
  /\ sup' = "done"
  /\ Publish(Closed)
  /\ UNCHANGED <<enabled, shutdown, current, lock, permit, attempts, epoch, next_epoch, connects,
                 link, down, req>>

SupFailed ==
  /\ DialFails /\ enabled
  /\ sup' = "backoff"
  /\ attempts' = attempts + 1
  /\ Publish(Reconnecting(attempts + 1))
  /\ UNCHANGED <<enabled, shutdown, current, lock, permit, epoch, next_epoch, connects, link, down, req>>

\* Mutant: says Closed and tries again.
SupGiveUpNot ==
  /\ DialFails /\ ~enabled
  /\ sup' = "top"
  /\ Publish(Closed)
  /\ UNCHANGED <<enabled, shutdown, current, lock, permit, attempts, epoch, next_epoch, connects,
                 link, down, req>>

SupGiveUp ==
  /\ DialFails /\ ~enabled
  /\ sup' = "done"
  /\ Publish(Closed)
  /\ UNCHANGED <<enabled, shutdown, current, lock, permit, attempts, epoch, next_epoch, connects,
                 link, down, req>>

\* The backoff delay, or the permit of reconnect_now.
SupRetry ==
  /\ SupGoto("backoff", "top")
  /\ permit' \in {permit, FALSE}
  /\ UNCHANGED <<enabled, shutdown, current, lock, watchVars, attempts, epoch, next_epoch, connects,
                 link, down, req>>

Supervise ==
  \/ SupTop \/ SupLook \/ SupWake \/ SupInspect \/ SupLost \/ SupConnected
  \/ SupStore \/ SupAnnounce \/ SupFailed \/ SupGiveUp \/ SupRetry

-----------------------------------------------------------------------------
(* wait_for_session                                                        *)

others == <<enabled, shutdown, lock, current, supVars, link, down>>

ReqGoto(r, from, to) == req[r] = from /\ req' = [req EXCEPT ![r] = to]

\* A call, the first of r or another one after the session was no use.
Arrive(r) ==
  /\ req[r] \in {"new", "ok"}
  /\ req' = [req EXCEPT ![r] = "ask"]
  /\ UNCHANGED <<others, watchVars, permit>>

Ask(r) ==
  /\ lock = "free"
  /\ ReqGoto(r, "ask", IF Usable # None THEN "ok" ELSE "notify")
  /\ UNCHANGED <<others, watchVars, permit>>

\* subscribe clones the manager's own receiver, which has seen nothing yet.
NotifyAndSubscribe(r) ==
  /\ ReqGoto(r, "notify", "check")
  /\ permit' = TRUE
  /\ fresh' = [fresh EXCEPT ![r] = published]
  /\ UNCHANGED <<others, state, published>>

CheckShutdown(r) ==
  /\ ReqGoto(r, "check", IF shutdown THEN "failed" ELSE "wait")
  /\ UNCHANGED <<others, watchVars, permit>>

Changed(r) ==
  /\ fresh[r]
  /\ ReqGoto(r, "wait", "look")
  /\ fresh' = [fresh EXCEPT ![r] = FALSE]
  /\ UNCHANGED <<others, state, published, permit>>

Look(r) ==
  /\ lock = "free"
  /\ ReqGoto(r, "look", IF Usable # None THEN "ok" ELSE "check")
  /\ UNCHANGED <<others, watchVars, permit>>

DialWaitOver(r) == ReqGoto(r, "wait", "failed") /\ UNCHANGED <<others, watchVars, permit>>

Proceed(r) == Ask(r) \/ NotifyAndSubscribe(r) \/ CheckShutdown(r) \/ Changed(r) \/ Look(r)

-----------------------------------------------------------------------------
(* shutdown: the guard on current is held to the end.                      *)

ShutdownFlag ==
  /\ MayShutdown
  /\ down = "no" /\ down' = "flagged"
  /\ shutdown' = TRUE
  /\ UNCHANGED <<enabled, lock, current, supVars, link, req, watchVars, permit>>

ShutdownTake ==
  /\ lock = "free"
  /\ down = "flagged" /\ down' = "closing"
  /\ lock' = "shutdown"
  /\ current' = None
  /\ alive' = alive \ {current}
  /\ UNCHANGED <<broken, enabled, shutdown, supVars, req, watchVars, permit>>

\* notify_waiters wakes supervise where it waits, and leaves no permit.
ShutdownClose ==
  /\ down = "closing" /\ down' = "closed"
  /\ lock' = "free"
  /\ Publish(Closed)
  /\ sup' = CASE sup = "idle" -> "inspect" [] sup = "backoff" -> "top" [] OTHER -> sup
  /\ UNCHANGED <<enabled, shutdown, current, attempts, epoch, next_epoch, connects, link, req, permit>>

-----------------------------------------------------------------------------
(* The environment: a connection is lost, and later (handler.disconnected, *)
(* or the end of russh's task) its session is known to be dead. A user of  *)
(* a session that failed it says so.                                       *)

LinkBreaks ==
  /\ next_epoch <= MaxDials
  /\ \E e \in alive \ broken : broken' = broken \cup {e}
  /\ UNCHANGED <<enabled, shutdown, lock, current, supVars, down, req, watchVars, permit, alive>>

DeathNoticed ==
  /\ \E e \in alive \cap broken : alive' = alive \ {e}
  /\ UNCHANGED <<enabled, shutdown, lock, current, supVars, down, req, watchVars, permit, broken>>

NotifyBroken(r) ==
  /\ req[r] = "ok"
  /\ permit' = TRUE
  /\ UNCHANGED <<others, req, watchVars>>

Next ==
  \/ Supervise
  \/ \E r \in Request : Arrive(r) \/ Proceed(r) \/ DialWaitOver(r) \/ NotifyBroken(r)
  \/ ShutdownFlag \/ ShutdownTake \/ ShutdownClose
  \/ LinkBreaks \/ DeathNoticed

Spec == Init /\ [][Next]_vars

\* tokio runs every ready task and every timer of supervise, a dial ends (both
\* its parts have timeouts), and the mutex is handed on. Nothing makes dial_wait
\* expire: a request must not need it.
Fairness ==
  /\ WF_vars(Supervise)
  /\ \A r \in Request : WF_vars(Proceed(r))
  /\ WF_vars(ShutdownTake \/ ShutdownClose)
  /\ WF_vars(DeathNoticed)

FairSpec == Spec /\ Fairness

-----------------------------------------------------------------------------
(* Properties                                                              *)

\* Whoever is woken by Up(e) finds session e, unless it died or the tunnel is
\* being shut down: supervise stores first and announces second.
UpIsStored ==
  state.kind = "Up" => current = state.epoch \/ state.epoch \notin alive \/ shutdown

\* supervise never dials while a usable session exists, however often it is
\* woken by requests that found an older one broken.
DialsOnlyWhenDead == sup = "connecting" => alive = {}

\* At most one session lives: the current one, or the one supervise is about to
\* store. Its epoch is the latest, which no state was published for before.
OneSession ==
  /\ alive \subseteq {IF sup = "store" THEN epoch ELSE current}
  /\ epoch = next_epoch - 1 /\ attempts < next_epoch
  /\ state.kind = "Up" => state.epoch < next_epoch
  /\ sup \in {"store", "announce"} => epoch # None
  /\ sup = "announce" => current = epoch \/ shutdown
  /\ sup = "connecting" => attempts < epoch /\ connects < epoch /\ state # Up(epoch)

\* The flag and the mutex tell where shutdown is; Closed is said by shutdown, or
\* by a supervisor that has returned.
ShutdownHolds ==
  /\ shutdown <=> down # "no"
  /\ lock = "shutdown" <=> down = "closing"
  /\ state = Closed => sup = "done" \/ down = "closed"

\* Once the network is stable a session stays, unless shutdown took it from a
\* supervisor that had already looked at the flag: why TypeOK bounds the epochs.
DialsEnd ==
  /\ broken \subseteq 1 .. MaxDials
  /\ next_epoch > MaxDials + 1 /\ sup # "connecting" =>
       alive = {epoch} \/ (next_epoch = MaxDials + 2 /\ down \in {"closing", "closed"})
  /\ next_epoch > MaxDials + 2 => down = "closed"

\* One session at a time, stored before it is announced, and types; with the
\* parts that make it inductive.
ManagerInv ==
  /\ TypeOK /\ UpIsStored /\ DialsOnlyWhenDead
  /\ OneSession /\ ShutdownHolds /\ DialsEnd

\* No lost wake-up: a request ends although dial_wait never expires. (With
\* reconnect.enabled = false it may have to: nobody looks at Closed.)
RequestEnds ==
  enabled => \A r \in Request : req[r] = "ask" ~> req[r] \in {"ok", "failed"}

\* A lost session is replaced, or the tunnel is shut down.
Heals == enabled => (current \notin alive ~> current \in alive \/ shutdown)

\* supervise returns after shutdown, whatever it is waiting for.
SupervisorStops == shutdown ~> sup = "done"

\* With reconnect.enabled = false a failed dial is the end: nothing is published
\* or connected after it.
FailureIsFinal ==
  [][(state = Closed /\ ~shutdown) => (state' = Closed /\ current' = current)]_vars

\* With reconnect.enabled = false the tunnel is connected once.
ConnectsOnce == enabled \/ connects <= 1

\* TunnelState::Closed: shut down, never connected again.
ShutdownIsFinal == down = "closed" => state = Closed /\ current = None

=============================================================================
