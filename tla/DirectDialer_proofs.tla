------------------------ MODULE DirectDialer_proofs --------------------------
(***************************************************************************)
(* For every set of requests, every bound on the dials, and with shutdown  *)
(* and reconnection as they may be: TunnelManager stores a session before  *)
(* it announces it, dials none while one lives, and a failed dial is the   *)
(* end when reconnection is off (the first part, about Spec). For every    *)
(* number of replays, the dialer on top of it and the manager agree on who *)
(* holds which session, and no channel is asked for twice of a connection  *)
(* that works (the second part, about DialSpec).                           *)
(***************************************************************************)
EXTENDS DirectDialer, TLAPS

-----------------------------------------------------------------------------
(* The values of the watch channel.                                        *)

\* The states that are published are told apart by their kind, and those of a
\* session by its epoch.
LEMMA StatesDiffer ==
  /\ \A e, n : /\ Connecting # Up(e) /\ Connecting # Closed
               /\ Up(e) # Closed /\ Reconnecting(n) # Up(e) /\ Reconnecting(n) # Closed
  /\ \A e, f : Up(e) = Up(f) => e = f
  /\ \A e : Up(e).kind = "Up" /\ Up(e).epoch = e
  /\ \A n : Reconnecting(n).kind # "Up"
  /\ Connecting.kind # "Up" /\ Closed.kind # "Up"
BY DEF Connecting, Up, Reconnecting, Closed

\* What is published while a session is Up names that session.
LEMMA UpState ==
  ASSUME state \in TunnelState, state.kind = "Up"
  PROVE  state = Up(state.epoch) /\ state.epoch \in Epoch
BY StatesDiffer DEF TunnelState

\* What supervise and shutdown publish is a state.
LEMMA PublishedStates ==
  /\ Connecting \in TunnelState /\ Closed \in TunnelState
  /\ \A e \in Epoch : Up(e) \in TunnelState
  /\ \A n \in 0 .. MaxDials : Reconnecting(n) \in TunnelState
BY DEF TunnelState

\* Publishing wakes receivers and leaves their flags Boolean.
LEMMA PublishWakes ==
  ASSUME NEW s, Publish(s), fresh \in [Request -> BOOLEAN]
  PROVE  fresh' \in [Request -> BOOLEAN] /\ state' = s /\ published' = TRUE
BY DEF Publish

-----------------------------------------------------------------------------
(* The invariant.                                                          *)

\* Nothing is stored, dialled or published at the start.
LEMMA ManagerStarts == Init => ManagerInv
<1> SUFFICES ASSUME Init PROVE ManagerInv
  OBVIOUS
<1>0. Connecting # Closed /\ Connecting.kind # "Up" /\ Connecting \in TunnelState
  BY StatesDiffer, PublishedStates
<1>1. MaxDials \in Nat /\ MaxDials >= 1
  BY ManagerAssumption
<1>2. /\ next_epoch \in 1 .. MaxDials + 3
      /\ current \in 0 .. next_epoch - 1 /\ epoch \in 0 .. next_epoch - 1
      /\ connects \in 0 .. next_epoch - 1 /\ attempts \in 0 .. MaxDials
      /\ alive \subseteq 1 .. next_epoch - 1 /\ broken \subseteq 1 .. next_epoch - 1
  BY <1>1 DEF Init, None
<1>3. /\ shutdown \in BOOLEAN /\ published \in BOOLEAN /\ permit \in BOOLEAN
      /\ enabled \in Configs /\ state \in TunnelState
      /\ lock \in {"free", "shutdown"} /\ sup \in SupPC
      /\ down \in {"no", "flagged", "closing", "closed"}
  BY <1>0 DEF Init, SupPC
<1>4. req \in [Request -> ReqPC] /\ fresh \in [Request -> BOOLEAN]
  BY DEF Init, ReqPC
<1>5. UpIsStored /\ DialsOnlyWhenDead
  BY <1>0 DEF Init, UpIsStored, DialsOnlyWhenDead
<1>6. OneSession /\ ShutdownHolds /\ DialsEnd
  BY <1>0, <1>1 DEF Init, OneSession, ShutdownHolds, DialsEnd, None
<1> QED
  BY <1>2, <1>3, <1>4, <1>5, <1>6 DEF ManagerInv, TypeOK

\* The steps of a request, whose variables are its own, the permit and whether
\* it has seen the last publication, disturb nothing of the supervisor.
LEMMA RequestsKeep ==
  ASSUME ManagerInv, UNCHANGED <<others, state, published>>,
         permit' \in BOOLEAN, req' \in [Request -> ReqPC], fresh' \in [Request -> BOOLEAN]
  PROVE  ManagerInv'
<1> USE DEF ManagerInv, others, supVars, link
<1>1. TypeOK'
  BY DEF TypeOK
<1>2. UpIsStored' /\ DialsOnlyWhenDead' /\ OneSession' /\ ShutdownHolds' /\ DialsEnd'
  BY DEF UpIsStored, DialsOnlyWhenDead, OneSession, ShutdownHolds, DialsEnd
<1> QED
  BY <1>1, <1>2

\* Steps of supervise that publish nothing and leave the session where it is.
LEMMA QuietStepsKeep ==
  ASSUME ManagerInv, SupTop \/ SupWake \/ SupRetry
  PROVE  ManagerInv'
<1>0. /\ UNCHANGED <<enabled, shutdown, current, lock, watchVars, attempts, epoch, next_epoch,
                     connects, link, down, req>>
      /\ \/ sup' \in {"look", "done"} /\ sup = "top"
         \/ sup' = "inspect" /\ sup = "idle"
         \/ sup' = "top" /\ sup = "backoff"
  BY DEF SupTop, SupWake, SupRetry, SupGoto, watchVars
<1>1. permit' \in BOOLEAN
  BY DEF SupTop, SupWake, SupRetry, ManagerInv, TypeOK
<1>2. TypeOK'
  BY <1>0, <1>1 DEF ManagerInv, TypeOK, SupPC, watchVars, link
<1>3. UpIsStored' /\ DialsOnlyWhenDead' /\ OneSession' /\ ShutdownHolds' /\ DialsEnd'
  BY <1>0 DEF ManagerInv, watchVars, link,
              UpIsStored, DialsOnlyWhenDead, OneSession, ShutdownHolds, DialsEnd
<1> QED
  BY <1>2, <1>3 DEF ManagerInv

\* Nothing usable is there, nothing lives: a dial begins when no session does, and
\* the bound on the epochs holds.
LEMMA LookKeeps ==
  ASSUME ManagerInv, SupLook
  PROVE  ManagerInv'
<1> USE ManagerAssumption
<1>0. UNCHANGED <<enabled, shutdown, current, lock, state, published, fresh, permit, attempts,
                  connects, alive, broken, down, req>>
  BY DEF SupLook, watchVars, link
<1>1. CASE sup' = "idle"
  <2>1. UNCHANGED <<epoch, next_epoch>> /\ sup = "look"
    BY <1>1 DEF SupLook, SupGoto
  <2>2. TypeOK'
    BY <1>0, <1>1, <2>1 DEF ManagerInv, TypeOK, SupPC
  <2>3. UpIsStored' /\ DialsOnlyWhenDead' /\ OneSession' /\ ShutdownHolds' /\ DialsEnd'
    BY <1>0, <1>1, <2>1 DEF ManagerInv, UpIsStored, DialsOnlyWhenDead, OneSession,
                            ShutdownHolds, DialsEnd
  <2> QED
    BY <2>2, <2>3 DEF ManagerInv
<1>2. CASE sup' # "idle"
  <2>1. /\ sup = "look" /\ sup' = "connecting" /\ epoch' = next_epoch
        /\ next_epoch' = next_epoch + 1 /\ lock = "free" /\ Usable = None
    BY <1>2 DEF SupLook, SupGoto
  <2>2. current \notin alive
    BY <2>1 DEF Usable, None, ManagerInv, TypeOK
  <2>3. alive = {}
    BY <2>1, <2>2 DEF ManagerInv, OneSession
  <2>4. /\ next_epoch \in 1 .. MaxDials + 2 /\ MaxDials \in Nat
        /\ next_epoch > MaxDials + 1 => down = "closed"
    BY <2>1, <2>3 DEF ManagerInv, TypeOK, DialsEnd, ShutdownHolds
  <2>5. TypeOK'
    BY <1>0, <2>1, <2>3, <2>4 DEF ManagerInv, TypeOK, SupPC
  <2>6. UpIsStored' /\ DialsOnlyWhenDead' /\ ShutdownHolds'
    BY <1>0, <2>1, <2>3 DEF ManagerInv, UpIsStored, DialsOnlyWhenDead, ShutdownHolds
  <2>7. state # Up(next_epoch)
    BY StatesDiffer, <2>4 DEF ManagerInv, OneSession
  <2>8. OneSession'
    <3>1. /\ epoch' = next_epoch' - 1 /\ attempts' < epoch' /\ connects' < epoch'
          /\ state'.kind = "Up" => state'.epoch < next_epoch'
          /\ attempts' < next_epoch' /\ alive' = {}
      <4>1. attempts < next_epoch /\ (state.kind = "Up" => state.epoch < next_epoch)
        BY DEF ManagerInv, OneSession
      <4>2. attempts \in Nat /\ connects \in 0 .. next_epoch - 1
        BY ManagerAssumption DEF ManagerInv, TypeOK
      <4>3. state.kind = "Up" => state.epoch \in Nat
        BY UpState, ManagerAssumption DEF ManagerInv, TypeOK, Epoch
      <4> QED
        BY <1>0, <2>1, <2>3, <2>4, <4>1, <4>2, <4>3
    <3>2. state' # Up(epoch)'
      BY <1>0, <2>1, <2>7
    <3> QED
      BY <2>1, <3>1, <3>2 DEF OneSession
  <2>9. DialsEnd'
    BY <1>0, <2>1, <2>3, <2>4 DEF ManagerInv, DialsEnd
  <2> QED
    BY <2>5, <2>6, <2>8, <2>9 DEF ManagerInv
<1> QED
  BY <1>1, <1>2

\* Taking a dead session away, or leaving it.
LEMMA InspectKeeps ==
  ASSUME ManagerInv, SupInspect
  PROVE  ManagerInv'
<1>0. /\ UNCHANGED <<enabled, shutdown, lock, state, published, fresh, permit, attempts, epoch,
                     next_epoch, connects, alive, broken, down, req>>
      /\ sup = "inspect" /\ sup' \in {"lost", "top"}
      /\ current' = current \/ (current \notin alive /\ current' = 0)
  BY DEF SupInspect, SupGoto, watchVars, link, None
<1>1. TypeOK'
  BY <1>0 DEF ManagerInv, TypeOK, SupPC
<1>2. UpIsStored' /\ DialsOnlyWhenDead' /\ OneSession' /\ ShutdownHolds' /\ DialsEnd'
  BY <1>0 DEF ManagerInv, UpIsStored, DialsOnlyWhenDead, OneSession, ShutdownHolds, DialsEnd
<1> QED
  BY <1>1, <1>2 DEF ManagerInv

\* What supervise publishes of a lost session and of a failed dial names none.
LEMMA FailuresKeep ==
  ASSUME ManagerInv, SupLost \/ SupFailed \/ SupGiveUp
  PROVE  ManagerInv'
<1> USE ManagerAssumption
<1>0. /\ UNCHANGED <<enabled, shutdown, current, lock, permit, epoch, next_epoch, connects, alive,
                     broken, down, req>>
      /\ \/ sup = "lost" /\ sup' = "top" /\ attempts' = attempts
         \/ sup = "connecting" /\ epoch <= MaxDials /\ sup' = "backoff" /\ attempts' = attempts + 1
         \/ sup = "connecting" /\ epoch <= MaxDials /\ sup' = "done" /\ attempts' = attempts
  BY DEF SupLost, SupFailed, SupGiveUp, DialFails, SupGoto, link
<1>1. attempts \in 0 .. MaxDials /\ attempts' \in 0 .. MaxDials
  BY <1>0 DEF ManagerInv, TypeOK, OneSession
<1>2. \E s \in TunnelState : /\ Publish(s) /\ s.kind # "Up"
                             /\ s = Closed => sup' = "done"
  BY <1>0, <1>1, StatesDiffer, PublishedStates DEF SupLost, SupFailed, SupGiveUp
<1>3. /\ state' \in TunnelState /\ published' \in BOOLEAN /\ fresh' \in [Request -> BOOLEAN]
      /\ state'.kind # "Up" /\ (state' = Closed => sup' = "done")
  BY <1>2, PublishWakes DEF ManagerInv, TypeOK
<1>4. TypeOK'
  BY <1>0, <1>1, <1>3 DEF ManagerInv, TypeOK, SupPC
<1>5. UpIsStored' /\ DialsOnlyWhenDead' /\ OneSession' /\ ShutdownHolds'
  BY <1>0, <1>3 DEF ManagerInv, UpIsStored, DialsOnlyWhenDead, OneSession, ShutdownHolds, TypeOK
<1>6. DialsEnd'
  BY <1>0 DEF ManagerInv, DialsEnd, OneSession, TypeOK
<1> QED
  BY <1>4, <1>5, <1>6 DEF ManagerInv

\* A dial that succeeds makes the one session there is.
LEMMA ConnectedKeeps ==
  ASSUME ManagerInv, SupConnected
  PROVE  ManagerInv'
<1> USE ManagerAssumption
<1>0. /\ UNCHANGED <<enabled, shutdown, current, lock, state, published, fresh, permit, epoch,
                     next_epoch, broken, down, req>>
      /\ sup = "connecting" /\ sup' = "store" /\ attempts' = 0 /\ connects' = connects + 1
      /\ alive' = {epoch}
  BY DEF SupConnected, SupGoto, watchVars, ManagerInv, DialsOnlyWhenDead
<1>1. /\ connects < epoch /\ epoch = next_epoch - 1 /\ state # Up(epoch)
      /\ attempts < epoch
  BY <1>0 DEF ManagerInv, OneSession
<1>2. TypeOK'
  BY <1>0, <1>1 DEF ManagerInv, TypeOK, SupPC
<1>3. UpIsStored'
  <2> SUFFICES ASSUME state.kind = "Up" PROVE state.epoch # epoch
    BY <1>0 DEF UpIsStored
  <2> QED
    BY <1>1, UpState DEF ManagerInv, TypeOK
<1>4. DialsOnlyWhenDead' /\ OneSession' /\ ShutdownHolds' /\ DialsEnd'
  BY <1>0, <1>1 DEF ManagerInv, DialsOnlyWhenDead, OneSession, ShutdownHolds, DialsEnd, TypeOK,
                    None
<1> QED
  BY <1>2, <1>3, <1>4 DEF ManagerInv

\* It is stored, and only then announced.
LEMMA StoreKeeps ==
  ASSUME ManagerInv, SupStore
  PROVE  ManagerInv'
<1>0. /\ UNCHANGED <<enabled, shutdown, lock, state, published, fresh, permit, attempts, epoch,
                     next_epoch, connects, alive, broken, down, req>>
      /\ sup = "store" /\ sup' = "announce" /\ current' = epoch
  BY DEF SupStore, SupGoto, watchVars, link
<1>1. TypeOK'
  BY <1>0 DEF ManagerInv, TypeOK, SupPC
<1>2. UpIsStored' /\ DialsOnlyWhenDead' /\ OneSession' /\ ShutdownHolds' /\ DialsEnd'
  BY <1>0 DEF ManagerInv, UpIsStored, DialsOnlyWhenDead, OneSession, ShutdownHolds, DialsEnd
<1> QED
  BY <1>1, <1>2 DEF ManagerInv

\* The state that announces it says what current holds, unless shutdown took it.
LEMMA AnnounceKeeps ==
  ASSUME ManagerInv, SupAnnounce
  PROVE  ManagerInv'
<1>0. /\ UNCHANGED <<enabled, shutdown, current, lock, permit, attempts, epoch, next_epoch,
                     connects, alive, broken, down, req>>
      /\ sup = "announce" /\ sup' = "top" /\ Publish(Up(epoch))
  BY DEF SupAnnounce, SupGoto, link
<1>1. /\ state' = Up(epoch) /\ state'.kind = "Up" /\ state'.epoch = epoch /\ state' # Closed
      /\ published' = TRUE /\ fresh' \in [Request -> BOOLEAN]
  BY <1>0, PublishWakes, StatesDiffer DEF ManagerInv, TypeOK
<1>4. epoch \in Epoch
  BY <1>0, ManagerAssumption DEF ManagerInv, OneSession, TypeOK, Epoch, None
<1>2. TypeOK'
  BY <1>0, <1>1, <1>4, PublishedStates DEF ManagerInv, TypeOK, SupPC
<1>3. UpIsStored' /\ DialsOnlyWhenDead' /\ OneSession' /\ ShutdownHolds' /\ DialsEnd'
  BY <1>0, <1>1 DEF ManagerInv, UpIsStored, DialsOnlyWhenDead, OneSession, ShutdownHolds,
                    DialsEnd, TypeOK
<1> QED
  BY <1>2, <1>3 DEF ManagerInv

\* shutdown raises its flag, takes the session away under the mutex, and says so.
LEMMA ShutdownKeeps ==
  ASSUME ManagerInv, ShutdownFlag \/ ShutdownTake \/ ShutdownClose
  PROVE  ManagerInv'
<1>1. CASE ShutdownFlag
  <2>0. /\ UNCHANGED <<enabled, lock, current, attempts, sup, epoch, next_epoch, connects, alive,
                       broken, req, state, published, fresh, permit>>
        /\ down = "no" /\ down' = "flagged" /\ shutdown' = TRUE
    BY <1>1 DEF ShutdownFlag, supVars, link, watchVars
  <2>1. TypeOK'
    BY <2>0 DEF ManagerInv, TypeOK
  <2>2. UpIsStored' /\ DialsOnlyWhenDead' /\ OneSession' /\ ShutdownHolds' /\ DialsEnd'
    BY <2>0 DEF ManagerInv, UpIsStored, DialsOnlyWhenDead, OneSession, ShutdownHolds, DialsEnd
  <2> QED
    BY <2>1, <2>2 DEF ManagerInv
<1>2. CASE ShutdownTake
  <2>0. /\ UNCHANGED <<enabled, shutdown, attempts, sup, epoch, next_epoch, connects,
                       broken, req, state, published, fresh, permit>>
        /\ down = "flagged" /\ down' = "closing" /\ lock = "free" /\ lock' = "shutdown"
        /\ current' = 0 /\ alive' = alive \ {current}
    BY <1>2 DEF ShutdownTake, supVars, watchVars, None
  <2>1. shutdown
    BY <2>0 DEF ManagerInv, ShutdownHolds
  <2>2. TypeOK'
    BY <2>0 DEF ManagerInv, TypeOK
  <2>3. UpIsStored' /\ DialsOnlyWhenDead' /\ OneSession' /\ ShutdownHolds'
    BY <2>0, <2>1 DEF ManagerInv, UpIsStored, DialsOnlyWhenDead, OneSession, ShutdownHolds
  <2>4. DialsEnd'
    BY <2>0, ManagerAssumption DEF ManagerInv, DialsEnd, OneSession, TypeOK
  <2> QED
    BY <2>2, <2>3, <2>4 DEF ManagerInv
<1>3. CASE ShutdownClose
  <2>0. /\ UNCHANGED <<enabled, shutdown, current, attempts, epoch, next_epoch, connects, alive,
                       broken, req, permit>>
        /\ down = "closing" /\ down' = "closed" /\ lock' = "free" /\ Publish(Closed)
        /\ \/ sup = "idle" /\ sup' = "inspect"
           \/ sup = "backoff" /\ sup' = "top"
           \/ sup' = sup
    BY <1>3 DEF ShutdownClose, link
  <2>1. /\ state' = Closed /\ state'.kind # "Up"
        /\ published' = TRUE /\ fresh' \in [Request -> BOOLEAN]
    BY <2>0, PublishWakes, StatesDiffer DEF ManagerInv, TypeOK
  <2>2. TypeOK'
    BY <2>0, <2>1, PublishedStates DEF ManagerInv, TypeOK, SupPC
  <2>3. state' # Up(epoch')
    BY <2>1, StatesDiffer
  <2>4. UpIsStored' /\ DialsOnlyWhenDead' /\ OneSession' /\ ShutdownHolds' /\ DialsEnd'
    BY <2>0, <2>1, <2>3 DEF ManagerInv, UpIsStored, DialsOnlyWhenDead, OneSession,
                            ShutdownHolds, DialsEnd
  <2> QED
    BY <2>2, <2>4 DEF ManagerInv
<1> QED
  BY <1>1, <1>2, <1>3

\* A connection is lost before the network is stable, and dies for nobody but its
\* own epoch.
LEMMA LinkKeeps ==
  ASSUME ManagerInv, LinkBreaks \/ DeathNoticed
  PROVE  ManagerInv'
<1>0. /\ UNCHANGED <<enabled, shutdown, lock, current, attempts, sup, epoch, next_epoch, connects,
                     down, req, state, published, fresh, permit>>
      /\ \/ /\ next_epoch <= MaxDials /\ alive' = alive
            /\ \E e \in alive : broken' = broken \cup {e}
         \/ \E e \in alive \cap broken : alive' = alive \ {e} /\ broken' = broken
  BY DEF LinkBreaks, DeathNoticed, supVars, watchVars
<1>1. TypeOK'
  BY <1>0 DEF ManagerInv, TypeOK
<1>2. UpIsStored' /\ DialsOnlyWhenDead' /\ OneSession' /\ ShutdownHolds'
  BY <1>0 DEF ManagerInv, UpIsStored, DialsOnlyWhenDead, OneSession, ShutdownHolds
<1>3. MaxDials \in Nat /\ epoch = next_epoch - 1 /\ next_epoch \in Nat
  BY ManagerAssumption DEF ManagerInv, OneSession, TypeOK
<1>4. ASSUME next_epoch <= MaxDials, NEW e \in alive, broken' = broken \cup {e}
      PROVE  DialsEnd'
  BY <1>0, <1>3, <1>4 DEF ManagerInv, DialsEnd, TypeOK
<1>5. ASSUME NEW e \in alive \cap broken, alive' = alive \ {e}, broken' = broken
      PROVE  DialsEnd'
  <2>0. broken \subseteq 1 .. MaxDials
    BY DEF ManagerInv, DialsEnd
  <2>1. e \in 1 .. MaxDials
    BY <2>0
  <2>2. next_epoch > MaxDials + 1 => alive # {epoch}
    BY <1>3, <2>1
  <2> QED
    BY <1>0, <1>3, <1>5, <2>2 DEF ManagerInv, DialsEnd
<1> QED
  BY <1>0, <1>1, <1>2, <1>4, <1>5 DEF ManagerInv

\* All steps of the manager but a request's, for those who build on it.
LEMMA ManagerStepsKeep ==
  ASSUME ManagerInv,
         Supervise \/ ShutdownFlag \/ ShutdownTake \/ ShutdownClose \/ LinkBreaks \/ DeathNoticed
  PROVE  ManagerInv'
BY QuietStepsKeep, LookKeeps, InspectKeeps, FailuresKeep, ConnectedKeeps, StoreKeeps, AnnounceKeeps,
   ShutdownKeeps, LinkKeeps
   DEF Supervise

\* What one request does is its own, a permit and a flag.
LEMMA RequestTypes ==
  ASSUME ManagerInv, NEW r \in Request,
         Arrive(r) \/ Proceed(r) \/ DialWaitOver(r) \/ NotifyBroken(r)
  PROVE  /\ UNCHANGED <<others, state, published>>
         /\ permit' \in BOOLEAN /\ req' \in [Request -> ReqPC] /\ fresh' \in [Request -> BOOLEAN]
<1> USE DEF ManagerInv, TypeOK, ReqPC, ReqGoto, watchVars
<1>1. CASE Arrive(r) \/ DialWaitOver(r)
  BY <1>1 DEF Arrive, DialWaitOver
<1>2. CASE NotifyBroken(r)
  BY <1>2 DEF NotifyBroken
<1>3. CASE Ask(r) \/ Look(r) \/ CheckShutdown(r)
  BY <1>3 DEF Ask, Look, CheckShutdown
<1>4. CASE NotifyAndSubscribe(r) \/ Changed(r)
  BY <1>4 DEF NotifyAndSubscribe, Changed
<1> QED
  BY <1>1, <1>2, <1>3, <1>4 DEF Proceed

-----------------------------------------------------------------------------

\* Every step of the manager keeps the invariant.
LEMMA ManagerKeeps == ManagerInv /\ [Next]_vars => ManagerInv'
<1> SUFFICES ASSUME ManagerInv, [Next]_vars PROVE ManagerInv'
  OBVIOUS
<1>1. CASE \E r \in Request : Arrive(r) \/ Proceed(r) \/ DialWaitOver(r) \/ NotifyBroken(r)
  BY <1>1, RequestTypes, RequestsKeep
<1>2. CASE UNCHANGED vars
  <2>1. UNCHANGED <<others, state, published>> /\ UNCHANGED <<permit, req, fresh>>
    BY <1>2 DEF vars, others, watchVars
  <2> QED
    BY <2>1, RequestsKeep DEF ManagerInv, TypeOK
<1> QED
  BY <1>1, <1>2, ManagerStepsKeep DEF Next

\* The invariant of the manager: at most one session lives, it is stored before it
\* is announced, no dial begins while it lives, and the flag, the mutex and the
\* published state agree on where shutdown is.
THEOREM ManagerIsSafe == Spec => []ManagerInv
BY ManagerStarts, ManagerKeeps, PTL DEF Spec

\* Closed without shutdown is a supervisor that has returned: nothing is stored or
\* published after it.
THEOREM FailureStaysFinal == Spec => FailureIsFinal
<1>1. ManagerInv /\ [Next]_vars =>
        [(state = Closed /\ ~shutdown) => (state' = Closed /\ current' = current)]_vars
  <2> SUFFICES ASSUME ManagerInv, Next, state = Closed, ~shutdown
               PROVE  state' = Closed /\ current' = current
    OBVIOUS
  <2>1. sup = "done" /\ down = "no"
    BY DEF ManagerInv, ShutdownHolds
  <2>2. ~Supervise /\ ~ShutdownTake /\ ~ShutdownClose
    BY <2>1 DEF Supervise, SupTop, SupLook, SupWake, SupInspect, SupLost, SupConnected, SupStore,
                SupAnnounce, SupFailed, SupGiveUp, SupRetry, SupGoto, DialFails,
                ShutdownTake, ShutdownClose
  <2>3. CASE \E r \in Request : Arrive(r) \/ Proceed(r) \/ DialWaitOver(r) \/ NotifyBroken(r)
    BY <2>3, RequestTypes DEF others
  <2>4. CASE ShutdownFlag \/ LinkBreaks \/ DeathNoticed
    BY <2>4 DEF ShutdownFlag, LinkBreaks, DeathNoticed, watchVars
  <2> QED
    BY <2>2, <2>3, <2>4 DEF Next
<1> QED
  BY <1>1, ManagerIsSafe, PTL DEF Spec, FailureIsFinal

-----------------------------------------------------------------------------
(* The dialer and the manager.                                             *)

\* The part of DialInv about each request.
Agrees(r) ==
  /\ dial[r] \in {"open", "sleep", "opened"} => req[r] = "ok" /\ session[r] # None
  /\ dial[r] = "wait" => req[r] \notin {"ok", "failed"}
  /\ dial[r] = "NetworkUnreachable" /\ req[r] # "failed" => Lost(session[r])
  /\ sup = "connecting" => session[r] # epoch

\* DialInv in those terms.
LEMMA DialInvIs == DialInv <=> ManagerInv /\ DialTypeOK /\ \A r \in Request : Agrees(r)
BY DEF DialInv, Agrees

\* Nobody holds a session at the start.
LEMMA DialStarts == DialInit => DialInv
<1> SUFFICES ASSUME DialInit PROVE DialInv
  OBVIOUS
<1>1. ManagerInv
  BY ManagerStarts DEF DialInit
<1>2. DialTypeOK
  BY DialerAssumption DEF DialInit, Init, DialTypeOK, DialState, None
<1>3. ASSUME NEW r \in Request PROVE Agrees(r)
  BY DEF DialInit, Init, Agrees
<1> QED
  BY <1>1, <1>2, <1>3, DialInvIs

-----------------------------------------------------------------------------
(* The manager under the dialer.                                           *)

\* A lost connection does not come back: a dial makes an epoch nobody holds.
LEMMA LostStaysLost ==
  ASSUME ManagerInv, NEW e \in Nat, sup = "connecting" => e # epoch, Lost(e), ManagerStep
  PROVE  Lost(e)'
<1>1. CASE SupConnected
  BY <1>1 DEF SupConnected, SupGoto, Lost
<1>2. CASE ~SupConnected
  <2>1. broken \subseteq broken' /\ alive' \subseteq alive
    BY <1>2 DEF ManagerStep, Supervise, SupTop, SupLook, SupWake, SupInspect, SupLost, SupStore,
                SupAnnounce, SupFailed, SupGiveUp, SupRetry, ShutdownFlag, ShutdownTake,
                ShutdownClose, LinkBreaks, DeathNoticed, link
  <2> QED
    BY <2>1 DEF Lost
<1> QED
  BY <1>1, <1>2

\* Only a look for a usable session takes the next epoch, and no other step of the
\* manager begins a dial or touches a request.
LEMMA ManagerFrame ==
  ASSUME ManagerStep
  PROVE  /\ UNCHANGED <<dial, session, replays, req>>
         /\ \/ UNCHANGED <<epoch, next_epoch>> /\ (sup' = "connecting" => sup = "connecting")
            \/ epoch' = next_epoch /\ next_epoch' = next_epoch + 1
<1> USE DEF ManagerStep, dialVars
<1>1. CASE SupTop \/ SupWake \/ SupInspect \/ SupLost \/ SupConnected \/ SupStore
  BY <1>1 DEF SupTop, SupWake, SupInspect, SupLost, SupConnected, SupStore, SupGoto
<1>2. CASE SupAnnounce \/ SupFailed \/ SupGiveUp \/ SupRetry
  BY <1>2 DEF SupAnnounce, SupFailed, SupGiveUp, SupRetry, SupGoto, DialFails
<1>3. CASE SupLook
  BY <1>3 DEF SupLook, SupGoto
<1>4. CASE ShutdownFlag \/ ShutdownTake \/ ShutdownClose \/ LinkBreaks \/ DeathNoticed
  BY <1>4 DEF ShutdownFlag, ShutdownTake, ShutdownClose, LinkBreaks, DeathNoticed, supVars
<1> QED
  BY <1>1, <1>2, <1>3, <1>4 DEF Supervise

\* The manager's own steps leave the dialer in agreement.
LEMMA ManagerStepAgrees ==
  ASSUME DialInv, ManagerStep
  PROVE  DialInv'
<1>1. ManagerInv'
  BY ManagerStepsKeep, DialInvIs DEF ManagerStep
<1>2. next_epoch \in Nat /\ epoch = next_epoch - 1
  BY ManagerAssumption DEF DialInv, ManagerInv, TypeOK, OneSession
<1>3. DialTypeOK'
  BY <1>2, ManagerFrame DEF DialInv, DialTypeOK
<1>4. ASSUME NEW r \in Request PROVE Agrees(r)'
  <2>1. Agrees(r) /\ ManagerInv /\ session[r] \in 0 .. next_epoch - 1
    BY DEF DialInv, DialTypeOK, Agrees
  <2>2. Lost(session[r]) => Lost(session[r])'
    <3> SUFFICES ASSUME Lost(session[r]) PROVE Lost(session[r])'
      OBVIOUS
    <3>1. PICK e \in Nat : e = session[r]
      BY <1>2, <2>1
    <3>2. Lost(e) /\ (sup = "connecting" => e # epoch)
      BY <2>1, <3>1 DEF Agrees, Lost
    <3>3. Lost(e)'
      BY <2>1, <3>1, <3>2, LostStaysLost
    <3>4. session'[r] = e
      BY <3>1, ManagerFrame
    <3> QED
      BY <3>3, <3>4 DEF Lost
  <2>3. sup' = "connecting" => session'[r] # epoch'
    BY <1>2, <2>1, ManagerFrame DEF Agrees
  <2> QED
    BY <2>1, <2>2, <2>3, ManagerFrame DEF Agrees
<1> QED
  BY <1>1, <1>3, <1>4 DEF DialInv, Agrees

-----------------------------------------------------------------------------
(* The dialer's own steps.                                                 *)

\* A step of the dialer of r: the manager keeps its invariant, and only r's
\* request, dial, session and replays change.
DialerFrame(r) ==
  /\ UNCHANGED <<others, state, published>>
  /\ permit' \in BOOLEAN /\ fresh' \in [Request -> BOOLEAN]
  /\ \E v \in ReqPC : req' = [req EXCEPT ![r] = v]
  /\ \E v \in DialState : dial' = [dial EXCEPT ![r] = v]
  /\ \E v \in 0 .. next_epoch - 1 : session' = [session EXCEPT ![r] = v]
  /\ \E v \in 0 .. MAX_REPLAYS : replays' = [replays EXCEPT ![r] = v]

\* Such a step keeps the invariant if the request it is about still agrees.
LEMMA OwnStepAgrees ==
  ASSUME DialInv, NEW r \in Request, DialerFrame(r), Agrees(r)'
  PROVE  DialInv'
<1>1. req' \in [Request -> ReqPC]
  BY DEF DialerFrame, DialInv, ManagerInv, TypeOK
<1>2. ManagerInv'
  BY <1>1, RequestsKeep DEF DialerFrame, DialInv
<1>3. DialTypeOK'
  <2>1. next_epoch' = next_epoch
    BY DEF DialerFrame, others, supVars
  <2> QED
    BY <2>1 DEF DialerFrame, DialInv, DialTypeOK
<1>4. ASSUME NEW q \in Request, q # r PROVE Agrees(q)'
  <2>1. dial'[q] = dial[q] /\ session'[q] = session[q] /\ req'[q] = req[q]
    BY <1>4 DEF DialerFrame, DialInv, DialTypeOK, ManagerInv, TypeOK
  <2>2. UNCHANGED <<sup, epoch, alive, broken>>
    BY DEF DialerFrame, others, supVars, link
  <2>3. Agrees(q)
    BY DEF DialInv, Agrees
  <2> QED
    BY <2>1, <2>2, <2>3 DEF Agrees, Lost
<1> QED
  BY <1>2, <1>3, <1>4 DEF DialInv, Agrees

\* A function that is not changed is changed nowhere.
LEMMA SameIsExcept ==
  ASSUME NEW S, NEW T, NEW f \in [S -> T], NEW x \in S
  PROVE  \E v \in T : f = [f EXCEPT ![x] = v]
<1>1. f = [f EXCEPT ![x] = f[x]] /\ f[x] \in T
  OBVIOUS
<1> QED
  BY <1>1

\* wait_for_session hands out the current session while it lives, and the dialer
\* that waits for it goes on, or gives up, when it returns.
LEMMA WaitAgrees ==
  ASSUME DialInv, NEW r \in Request, Waits(r) \/ WaitIsOver(r)
  PROVE  DialerFrame(r) /\ Agrees(r)'
<1>1. /\ UNCHANGED <<others, state, published>>
      /\ permit' \in BOOLEAN /\ fresh' \in [Request -> BOOLEAN]
  BY RequestTypes DEF Waits, WaitIsOver, DialInv
<1>2. /\ req \in [Request -> ReqPC] /\ dial \in [Request -> DialState]
      /\ session \in [Request -> 0 .. next_epoch - 1] /\ replays \in [Request -> 0 .. MAX_REPLAYS]
      /\ current \in 0 .. next_epoch - 1
      /\ sup = "connecting" => alive = {}
  BY DEF DialInv, DialTypeOK, ManagerInv, TypeOK, DialsOnlyWhenDead
<1>8. /\ \E x \in 0 .. next_epoch - 1 : session = [session EXCEPT ![r] = x]
      /\ \E x \in 0 .. MAX_REPLAYS : replays = [replays EXCEPT ![r] = x]
  BY <1>2, SameIsExcept
<1>3. PICK v \in ReqPC : /\ req' = [req EXCEPT ![r] = v]
                         /\ v = "ok" => Usable # None
  <2>1. CASE WaitIsOver(r)
    BY <2>1 DEF WaitIsOver, DialWaitOver, ReqGoto, ReqPC
  <2>2. CASE Ask(r) \/ Look(r) \/ CheckShutdown(r)
    BY <2>2 DEF Ask, Look, CheckShutdown, ReqGoto, ReqPC
  <2>3. CASE NotifyAndSubscribe(r) \/ Changed(r)
    BY <2>3 DEF NotifyAndSubscribe, Changed, ReqGoto, ReqPC
  <2> QED
    BY <2>1, <2>2, <2>3 DEF Waits, Proceed
<1>4. req'[r] = v
  BY <1>2, <1>3
<1>5. dial[r] = "wait" /\ Returned(r)
  BY DEF Waits, WaitIsOver
<1>6. CASE v = "ok"
  <2>1. /\ dial' = [dial EXCEPT ![r] = "open"] /\ session' = [session EXCEPT ![r] = current]
        /\ replays' = replays
    BY <1>4, <1>5, <1>6 DEF Returned
  <2>2. current \in alive /\ current # None
    BY <1>3, <1>6 DEF Usable
  <2>3. DialerFrame(r)
    BY <1>1, <1>2, <1>3, <1>8, <2>1 DEF DialerFrame, DialState
  <2>4. dial'[r] = "open" /\ session'[r] = current /\ sup' # "connecting"
    BY <1>1, <1>2, <2>1, <2>2 DEF others, supVars
  <2>5. Agrees(r)'
    BY <1>4, <1>6, <2>2, <2>4 DEF Agrees
  <2> QED
    BY <2>3, <2>5
<1>7. CASE v # "ok"
  <2>1. session' = session /\ replays' = replays
    BY <1>4, <1>5, <1>7 DEF Returned
  <2>2. PICK d \in {"wait", "NetworkUnreachable"} :
          /\ dial' = [dial EXCEPT ![r] = d]
          /\ d = "wait" => v \notin {"ok", "failed"}
          /\ d = "NetworkUnreachable" => v = "failed"
    BY <1>4, <1>5, <1>7 DEF Returned
  <2>3. DialerFrame(r)
    BY <1>1, <1>2, <1>3, <2>1, <1>8, <2>2 DEF DialerFrame, DialState, DialError
  <2>4. dial'[r] = d /\ session'[r] = session[r]
    BY <1>2, <2>1, <2>2
  <2>5. sup' = "connecting" => session'[r] # epoch'
    BY <1>1, <2>4 DEF others, supVars, DialInv
  <2>6. Agrees(r)'
    BY <1>4, <2>2, <2>4, <2>5 DEF Agrees
  <2> QED
    BY <2>3, <2>6
<1> QED
  BY <1>6, <1>7

\* A channel request is asked for, opened, reported or tried again on a session
\* that is known to the dialer all along.
LEMMA OpenAgrees ==
  ASSUME DialInv, NEW r \in Request,
         Begins(r) \/ Opened(r) \/ OpenFails(r) \/ Slept(r) \/ OpenTimesOut(r)
  PROVE  DialerFrame(r) /\ Agrees(r)'
<1>2. /\ req \in [Request -> ReqPC] /\ dial \in [Request -> DialState]
      /\ session \in [Request -> 0 .. next_epoch - 1] /\ replays \in [Request -> 0 .. MAX_REPLAYS]
      /\ permit \in BOOLEAN /\ fresh \in [Request -> BOOLEAN]
      /\ Agrees(r)
  BY DEF DialInv, DialTypeOK, ManagerInv, TypeOK, Agrees
<1>9. /\ \E x \in ReqPC : req = [req EXCEPT ![r] = x]
      /\ \E x \in DialState : dial = [dial EXCEPT ![r] = x]
      /\ \E x \in 0 .. next_epoch - 1 : session = [session EXCEPT ![r] = x]
      /\ \E x \in 0 .. MAX_REPLAYS : replays = [replays EXCEPT ![r] = x]
  BY <1>2, SameIsExcept
<1>3. session' = session /\ UNCHANGED <<others, state, published, fresh>>
  BY DEF Begins, Opened, OpenFails, Slept, OpenTimesOut, Arrive, NotifyBroken, dialVars, vars,
         watchVars, others
<1>4. session'[r] = session[r] /\ UNCHANGED <<alive, broken, sup, epoch>>
  BY <1>3 DEF others, supVars, link
<1>5. CASE Begins(r) \/ Slept(r)
  <2>1. /\ req' = [req EXCEPT ![r] = "ask"] /\ permit' = permit /\ replays' = replays
        /\ dial' = [dial EXCEPT ![r] = "wait"]
    BY <1>2, <1>5 DEF Begins, Slept, Arrive, DialGoto, dialVars
  <2>2. DialerFrame(r)
    BY <1>2, <1>3, <2>1, <1>9 DEF DialerFrame, ReqPC, DialState
  <2>3. dial'[r] = "wait" /\ req'[r] = "ask"
    BY <1>2, <2>1
  <2> QED
    BY <1>2, <1>4, <2>2, <2>3 DEF Agrees
<1>6. CASE Opened(r)
  <2>1. /\ dial[r] = "open" /\ dial' = [dial EXCEPT ![r] = "opened"]
        /\ UNCHANGED <<req, permit, replays>>
    BY <1>6 DEF Opened, DialGoto, vars
  <2>2. DialerFrame(r)
    BY <1>2, <1>3, <2>1, <1>9 DEF DialerFrame, DialState
  <2>3. dial'[r] = "opened"
    BY <1>2, <2>1
  <2> QED
    BY <1>2, <1>4, <2>1, <2>2, <2>3 DEF Agrees
<1>7. CASE OpenFails(r)
  <2>1. PICK class \in ErrorClass :
          /\ class = "transport" => Lost(session[r])
          /\ IF MayReplay(r, class)
             THEN /\ DialGoto(r, "open", "sleep")
                  /\ replays' = [replays EXCEPT ![r] = @ + 1]
                  /\ NotifyBroken(r)
             ELSE /\ \E err \in classify_open_error(class) : DialGoto(r, "open", err)
                  /\ UNCHANGED <<vars, replays>>
    BY <1>7 DEF OpenFails
  <2>2. CASE MayReplay(r, class)
    <3>1. /\ dial[r] = "open" /\ dial' = [dial EXCEPT ![r] = "sleep"]
          /\ replays' = [replays EXCEPT ![r] = replays[r] + 1] /\ replays[r] + 1 \in 0 .. MAX_REPLAYS
          /\ permit' = TRUE /\ req' = req
      BY <1>2, <2>1, <2>2, DialerAssumption DEF DialGoto, NotifyBroken, MayReplay
    <3>2. DialerFrame(r)
      BY <1>2, <1>3, <3>1, <1>9 DEF DialerFrame, DialState
    <3>3. dial'[r] = "sleep"
      BY <1>2, <3>1
    <3> QED
      BY <1>2, <1>4, <3>1, <3>2, <3>3 DEF Agrees
  <2>3. CASE ~MayReplay(r, class)
    <3>1. PICK err \in classify_open_error(class) : DialGoto(r, "open", err)
      BY <2>1, <2>3
    <3>2. err \in DialError /\ (err = "NetworkUnreachable" => class = "transport")
      BY <3>1 DEF classify_open_error, DialError, ErrorClass
    <3>3. /\ dial[r] = "open" /\ dial' = [dial EXCEPT ![r] = err]
          /\ UNCHANGED <<req, permit, replays>>
      BY <2>1, <2>3, <3>1 DEF DialGoto, vars
    <3>4. DialerFrame(r)
      BY <1>2, <1>3, <3>2, <3>3, <1>9 DEF DialerFrame, DialState
    <3>5. dial'[r] = err
      BY <1>2, <3>3
    <3> QED
      BY <1>2, <1>4, <2>1, <3>2, <3>3, <3>4, <3>5 DEF Agrees, DialError, Lost
  <2> QED
    BY <2>2, <2>3
<1>8. CASE OpenTimesOut(r)
  <2>1. CASE replays[r] < MAX_REPLAYS /\ session[r] \notin alive
    <3>1. /\ dial' = [dial EXCEPT ![r] = "wait"]
          /\ replays' = [replays EXCEPT ![r] = replays[r] + 1] /\ replays[r] + 1 \in 0 .. MAX_REPLAYS
          /\ permit' = TRUE /\ req' = [req EXCEPT ![r] = "ask"]
      BY <1>2, <1>8, <2>1, DialerAssumption DEF OpenTimesOut, DialGoto
    <3>2. DialerFrame(r)
      BY <1>2, <1>3, <3>1, <1>9 DEF DialerFrame, DialState, ReqPC
    <3>3. dial'[r] = "wait" /\ req'[r] = "ask"
      BY <1>2, <3>1
    <3> QED
      BY <1>2, <1>4, <3>2, <3>3 DEF Agrees
  <2>2. CASE ~(replays[r] < MAX_REPLAYS /\ session[r] \notin alive)
    <3>1. dial' = [dial EXCEPT ![r] = "TimedOut"] /\ UNCHANGED <<req, permit, replays>>
      BY <1>8, <2>2 DEF OpenTimesOut, DialGoto, vars
    <3>2. DialerFrame(r)
      BY <1>2, <1>3, <3>1, <1>9 DEF DialerFrame, DialState, DialError
    <3>3. dial'[r] = "TimedOut"
      BY <1>2, <3>1
    <3> QED
      BY <1>2, <1>4, <3>2, <3>3 DEF Agrees
  <2> QED
    BY <2>1, <2>2
<1> QED
  BY <1>5, <1>6, <1>7, <1>8

-----------------------------------------------------------------------------

\* Every step keeps the invariant.
LEMMA DialKeeps == DialInv /\ [DialNext]_dvars => DialInv'
<1> SUFFICES ASSUME DialInv, [DialNext]_dvars PROVE DialInv'
  OBVIOUS
<1>1. CASE ManagerStep
  BY <1>1, ManagerStepAgrees
<1>2. ASSUME NEW r \in Request, Begins(r) \/ DialProceeds(r) \/ WaitIsOver(r)
      PROVE  DialInv'
  <2>1. DialerFrame(r) /\ Agrees(r)'
    BY <1>2, WaitAgrees, OpenAgrees DEF DialProceeds
  <2> QED
    BY <2>1, OwnStepAgrees
<1>3. CASE UNCHANGED dvars
  <2>1. /\ UNCHANGED <<others, state, published, permit, req, fresh>>
        /\ UNCHANGED <<dial, session, replays, next_epoch, alive, broken, sup, epoch>>
    BY <1>3 DEF dvars, vars, dialVars, others, watchVars, supVars, link
  <2>2. ManagerInv'
    BY <2>1, RequestsKeep DEF DialInv, ManagerInv, TypeOK
  <2> QED
    BY <2>1, <2>2 DEF DialInv, DialTypeOK, Lost
<1> QED
  BY <1>1, <1>2, <1>3 DEF DialNext

\* The dialer and the manager agree: who opens a channel, waits before a replay or
\* has its channel holds a session the manager gave it; who waits has an unfinished
\* call; who reports the network unreachable had lost its connection or was told so.
THEOREM DialerAgrees == DialSpec => []DialInv
BY DialStarts, DialKeeps, PTL DEF DialSpec

\* A replay is counted only for a connection that is lost: nothing of the first
\* attempt can still come about.
THEOREM ReplaysAreSafe == DialSpec => ReplayOnlyIfLost
<1>1. DialInv /\ [DialNext]_dvars =>
        [\A r \in Request : replays'[r] # replays[r] => Lost(session[r])]_dvars
  <2> SUFFICES ASSUME DialInv, DialNext, NEW q \in Request, replays'[q] # replays[q]
               PROVE  Lost(session[q])
    OBVIOUS
  <2>1. replays \in [Request -> 0 .. MAX_REPLAYS]
    BY DEF DialInv, DialTypeOK
  <2>2. PICK r \in Request : OpenFails(r) \/ OpenTimesOut(r)
    BY DEF DialNext, ManagerStep, Begins, DialProceeds, WaitIsOver, Waits, Returned, Opened, Slept,
           dialVars
  <2>3. CASE OpenFails(r)
    <3>1. PICK class \in ErrorClass :
            /\ class = "transport" => Lost(session[r])
            /\ IF MayReplay(r, class)
               THEN replays' = [replays EXCEPT ![r] = @ + 1]
               ELSE replays' = replays
      BY <2>3 DEF OpenFails
    <3>2. MayReplay(r, class) /\ q = r
      BY <2>1, <3>1
    <3> QED
      BY <3>1, <3>2 DEF MayReplay, is_transport_failure, Lost
  <2>4. CASE OpenTimesOut(r)
    <3>1. q = r /\ session[r] \notin alive
      BY <2>1, <2>4 DEF OpenTimesOut, vars
    <3> QED
      BY <3>1 DEF Lost
  <2> QED
    BY <2>2, <2>3, <2>4
<1> QED
  BY <1>1, DialerAgrees, PTL DEF DialSpec, ReplayOnlyIfLost

=============================================================================
