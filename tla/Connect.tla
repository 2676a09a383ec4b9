------------------------------ MODULE Connect -------------------------------
(***************************************************************************)
(* One connection of the tunnel after another, in detail: connect_once,    *)
(* authenticate and the backoff of supervise (srp/src/tunnel/manager.rs,   *)
(* backoff.rs) and the check of the host key (handler.rs). TunnelManager   *)
(* takes connect_once as one step that succeeds or fails.                  *)
(*                                                                         *)
(* The SSH server may change its key, the operator may edit known_hosts,   *)
(* and known_hosts may be unreadable or not writable. known_hosts is the   *)
(* set of keys recorded for the one host; checking and learning are        *)
(* russh's, modelled from the results the handler tells apart and from     *)
(* what its tests say of them.                                             *)
(***************************************************************************)
EXTENDS Config

CONSTANTS
  Key,          \* host keys
  Algorithm,    \* key |-> its algorithm
  Accepts,      \* sets of credentials a server may accept
  AgentHolds,   \* lists of identities an agent may hold
  MaxChanges,   \* bound on the changes of the server's key and of known_hosts
  MaxAttempts,  \* where attempts saturates
  BackoffInitial, BackoffMax

ASSUME ConnectAssumption ==
  /\ "nothing" \notin Key /\ Algorithm \in [Key -> STRING]
  /\ AgentHolds \subseteq Seq(STRING)
  /\ MaxAttempts \in Nat \ {0} /\ BackoffInitial \in Nat /\ BackoffMax \in Nat

VARIABLES
  cfg,
  known,      \* the keys recorded in known_hosts
  file,       \* known_hosts as a file: "readable", "unreadable" or "garbled"
  operator,   \* the keys as the operator left them
  writable,   \* known_hosts can be written
  key,        \* the key of the server
  accepts,    \* the credentials it accepts
  agent,      \* the identities of the agent
  ssh,        \* [st, key, ids, clean]: the connection
  attempts, delay,
  trusted,    \* host keys accepted since the last edit
  changes

world == <<known, file, operator, writable, key, accepts, agent, changes>>
connectVars == <<cfg, world, ssh, attempts, delay, trusted>>

NoConn == [st |-> "idle", key |-> "nothing", ids |-> <<>>, clean |-> TRUE]
Certificate == "cert"
FileState == {"readable", "unreadable", "garbled"}

ConnectInit ==
  /\ known \in SUBSET Key /\ operator = known
  /\ file \in FileState
  /\ writable \in BOOLEAN
  /\ key \in Key /\ accepts \in Accepts /\ agent \in AgentHolds
  /\ ssh = NoConn /\ attempts = 0 /\ delay = 0
  /\ trusted = {} /\ changes = 0

-----------------------------------------------------------------------------
(* Host keys                                                               *)

\* With or without prefix and padding; an empty pin matches nothing.
norm(fp) == SelectSeq(fp, LAMBDA c : c \notin {"SHA256:", "=", Blank})
fingerprint_matches(pinned, k) == norm(pinned) = <<k>>

accepts_unknown_host(policy) == policy = AcceptNew

\* A file that cannot be opened has no entries; one that cannot be understood is an
\* error. Only a key of the same algorithm makes a changed one; with both that and the
\* key itself recorded, the answer is the library's affair.
check_known_hosts(k) ==
  LET same == {r \in known : Algorithm[r] = Algorithm[k]} IN
  CASE file = "garbled"    -> {"error"}
    [] file = "unreadable" -> {"unknown"}
    [] OTHER               -> (IF same = {} THEN {"unknown"} ELSE {})
                                \cup (IF k \in same THEN {"known"} ELSE {})
                                \cup (IF same \ {k} # {} THEN {"changed"} ELSE {})

\* Mutant: accept_new takes a changed key as well.
verify_changed(policy, k, answer) ==
  CASE policy.type = "pinned" -> fingerprint_matches(policy.fp, k)
    [] policy.type # "pinned" /\ answer = "known" -> TRUE
    [] policy.type # "pinned" /\ answer = "error" -> FALSE
    [] OTHER -> accepts_unknown_host(policy)

\* A changed key and a file that cannot be checked are refused by every policy.
verify(policy, k, answer) ==
  CASE policy.type = "pinned" -> fingerprint_matches(policy.fp, k)
    [] policy.type # "pinned" /\ answer = "known" -> TRUE
    [] policy.type # "pinned" /\ answer = "unknown" -> accepts_unknown_host(policy)
    [] OTHER -> FALSE

\* What is recorded after an accepted key. A file that cannot be written stays, and
\* whether one that cannot be read takes a line is the library's affair.
Recorded(policy, k, answer) ==
  IF policy = AcceptNew /\ answer = "unknown" /\ writable
  THEN {known \cup {k}} \cup (IF file = "readable" THEN {} ELSE {known})
  ELSE {known}

-----------------------------------------------------------------------------
(* A connection                                                            *)

\* m.powi(n)
Power(m, n) == LET p[i \in 0 .. n] == IF i = 0 THEN 1 ELSE m * p[i - 1] IN p[n]

\* next_delay: the bounds of the jitter, and the cap on what was picked.
Delays(n) ==
  LET r == cfg.reconnect
      base == Min({BackoffInitial * Power(r.multiplier \div 100, n), BackoffMax})
      cap == (BackoffMax * 3) \div 2
  IN  {Min({(base * (100 - r.jitter)) \div 100, cap}), Min({(base * (100 + r.jitter)) \div 100, cap})}

\* connect_once returned an error.
Fails ==
  /\ IF cfg.reconnect.enabled
     THEN /\ delay' \in Delays(attempts)
          /\ attempts' = Min({attempts + 1, MaxAttempts})
          /\ ssh' = [NoConn EXCEPT !.st = "backoff"]
     ELSE /\ ssh' = [NoConn EXCEPT !.st = "closed"]
          /\ UNCHANGED <<attempts, delay>>
  /\ UNCHANGED trusted

Goes(st) == ssh' = [ssh EXCEPT !.st = st] /\ UNCHANGED <<attempts, delay, trusted>>

Connects ==
  /\ ssh.st = "idle"
  /\ Goes("kex") \/ Fails
  /\ UNCHANGED world

CheckServerKey ==
  /\ ssh.st = "kex"
  /\ \E answer \in check_known_hosts(key) :
       IF verify(cfg.host_key, key, answer)
       THEN /\ ssh' = [ssh EXCEPT !.st = "auth", !.key = key]
            /\ known' \in Recorded(cfg.host_key, key, answer)
            /\ trusted' = trusted \cup {key}
            /\ UNCHANGED <<attempts, delay>>
       ELSE Fails /\ UNCHANGED known
  /\ UNCHANGED <<file, operator, writable, key, accepts, agent, changes>>

\* The session is stored and the backoff starts from its beginning.
Established ==
  /\ ssh' = [ssh EXCEPT !.st = "up", !.ids = <<>>]
  /\ attempts' = 0 /\ delay' = 0
  /\ UNCHANGED trusted

\* One answer to a password or a private key; or the key cannot be loaded.
Authenticates ==
  /\ ssh.st = "auth" /\ cfg.auth # Agent
  /\ \/ IF cfg.auth.type \in accepts THEN Established ELSE Fails
     \/ cfg.auth.type = "public_key" /\ Fails
  /\ UNCHANGED world

ListsIdentities ==
  /\ ssh.st = "auth" /\ cfg.auth = Agent
  /\ \/ agent # <<>> /\ ssh' = [ssh EXCEPT !.st = "agent", !.ids = agent]
                     /\ UNCHANGED <<attempts, delay, trusted>>
     \/ Fails
  /\ UNCHANGED world

\* Certificates are passed over, and so is an identity that ends in an error.
TriesIdentity ==
  /\ ssh.st = "agent" /\ ssh.ids # <<>>
  /\ LET id == Head(ssh.ids)
         Next1(clean) == /\ ssh' = [ssh EXCEPT !.ids = Tail(@), !.clean = clean]
                         /\ UNCHANGED <<attempts, delay, trusted>>
     IN  \/ id # Certificate /\ id \in accepts /\ Established
         \/ (id = Certificate \/ id \notin accepts) /\ Next1(ssh.clean)
         \/ id # Certificate /\ Next1(FALSE)
  /\ UNCHANGED world

NoneAccepted ==
  /\ ssh.st = "agent" /\ ssh.ids = <<>>
  /\ Fails
  /\ UNCHANGED world

\* connect_timeout, for the connection and again for the authentication.
TimesOut ==
  /\ ssh.st \in {"kex", "auth", "agent"}
  /\ Fails
  /\ UNCHANGED world

WakesUp ==
  /\ ssh.st = "backoff"
  /\ ssh' = NoConn /\ delay' = 0
  /\ UNCHANGED <<attempts, trusted, world>>

\* disconnected: the supervisor finds the session dead.
Disconnected ==
  /\ ssh.st = "up"
  /\ ssh' = NoConn
  /\ UNCHANGED <<attempts, delay, trusted, world>>

-----------------------------------------------------------------------------

Rekeys ==
  /\ changes < MaxChanges
  /\ key' \in Key \ {key} /\ changes' = changes + 1
  /\ UNCHANGED <<ssh, attempts, delay, trusted, known, file, operator, writable, accepts, agent>>

OperatorEdits ==
  /\ changes < MaxChanges
  /\ known' \in SUBSET Key /\ operator' = known' /\ file' \in FileState
  /\ trusted' = {} /\ changes' = changes + 1
  /\ UNCHANGED <<ssh, attempts, delay, writable, key, accepts, agent>>

ConnectStep ==
  /\ \/ Connects \/ CheckServerKey \/ Authenticates \/ ListsIdentities \/ TriesIdentity
     \/ NoneAccepted \/ TimesOut \/ WakesUp \/ Disconnected \/ Rekeys \/ OperatorEdits
  /\ UNCHANGED cfg

=============================================================================
