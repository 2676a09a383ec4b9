---------------------------- MODULE Launch_proofs ------------------------------
(***************************************************************************)
(* For every set of host keys, list of identities, configuration and bound *)
(* on changes and attempts: what the tunnel trusts is what its policy      *)
(* allows, and its delays stay within their bounds (TrustInv). For every   *)
(* ~/.ssh/config, command line, configuration file and text a user types:  *)
(* what setup offers, writes and starts, and what the helper's shell is    *)
(* given (LaunchInv).                                                      *)
(*                                                                         *)
(* The folds, the flattening and the texts of the second part are reasoned *)
(* about through records of their runs, one entry per element, with the    *)
(* least entry that is wrong as the counterexample.                        *)
(***************************************************************************)
EXTENDS Launch, FiniteSetTheorems, SequenceTheorems, WellFoundedInduction, TLAPS

\* Where main is while there is no configuration, and the tunnel does not exist.
Unconfigured == {"setup", "guided", "ask", "manual", "cancelled", "write", "written", "shown", "args"}

\* What validate leaves of the numbers next_delay works with.
Timed(c) == c.reconnect.multiplier \in Nat /\ c.reconnect.jitter \in 0 .. 100

ConnState == {"idle", "kex", "auth", "agent", "up", "backoff", "closed"}
Conn == [st : ConnState, key : Key \cup {"nothing"}, ids : Seq(STRING), clean : BOOLEAN]

Types ==
  /\ known \subseteq Key /\ file \in FileState /\ writable \in BOOLEAN
  /\ key \in Key /\ trusted \subseteq Key /\ agent \in Seq(STRING)
  /\ attempts \in Nat /\ delay \in Int
  /\ ssh \in Conn

\* What was started keeps its arguments, but for the target.
Begun ==
  /\ "cli" \in DOMAIN begin /\ "config" \in DOMAIN begin.cli
  /\ "cfg" \in DOMAIN begin.cli.config => begin.cli.config.cfg.reconnect.multiplier \in Int

\* Nothing is connected, trusted or learned without a configuration.
Idle ==
  /\ ssh = NoConn /\ attempts = 0 /\ delay = 0
  /\ trusted = {} /\ known = operator /\ cfg = Refused
Waits == pc \in Unconfigured => Idle
Works == pc \in {"bind", "serve"} => Timed(cfg)

\* What is trusted, by policy. Under accept_new, with a file that takes it, every key
\* is trusted because it is recorded, or was recorded when it was.
Trusts ==
  /\ cfg.host_key.type = "pinned" => \A k \in trusted : norm(cfg.host_key.fp) = <<k>>
  /\ cfg.host_key.type # "pinned" /\ file = "garbled" => trusted = {}
  /\ cfg.host_key = Strict => trusted \subseteq IF file = "readable" THEN operator ELSE {}
  /\ cfg.host_key = AcceptNew /\ file = "readable" =>
       \A k \in trusted \ operator :
         Rivals(k, operator \cup IF writable THEN trusted ELSE {}) = {}
  /\ cfg.host_key = AcceptNew /\ file = "readable" /\ writable => trusted \subseteq known
  /\ operator \subseteq known /\ known \ operator \subseteq trusted
  /\ known # operator => cfg.host_key = AcceptNew

\* The identities still to be tried are the last ones of the agent; those before
\* them were no use, unless one ended in an error.
Passed(i) == agent[i] = Certificate \/ agent[i] \notin accepts
Asked == Len(agent) - Len(ssh.ids)
Tried ==
  ssh.st = "agent" =>
    /\ Len(ssh.ids) <= Len(agent)
    /\ \A j \in 1 .. Len(ssh.ids) : ssh.ids[j] = agent[Asked + j]
    /\ ssh.clean => \A i \in 1 .. Asked : Passed(i)

Paced ==
  /\ ssh.st = "backoff" => delay * 2 <= BackoffMax * 3 /\ attempts > 0
  /\ ssh.st = "up" => attempts = 0

TrustHolds == Types /\ Begun /\ Waits /\ Works /\ (cfg # Refused => Trusts /\ Paced) /\ Tried

-----------------------------------------------------------------------------
(* What the tunnel works with.                                             *)

\* The smaller of two numbers.
LEMMA LeastIs ==
  ASSUME NEW a \in Int, NEW b \in Int
  PROVE  Min({a, b}) \in {a, b} /\ Min({a, b}) <= a /\ Min({a, b}) <= b
<1>1. \E x \in {a, b} : \A y \in {a, b} : x =< y
  OBVIOUS
<1> QED
  BY <1>1 DEF Min

\* A set of natural numbers that is not empty has a least element: induction.
LEMMA Least ==
  ASSUME NEW S, S \subseteq Nat, S # {}
  PROVE  \E x \in S : \A y \in S : x <= y
<1> DEFINE R == OpToRel(<, Nat)
<1>1. IsWellFoundedOn(R, Nat)
  BY NatLessThanWellFounded
<1>2. PICK x \in S : \A y \in S : ~ (<<y, x>> \in R)
  BY <1>1, WFMin
<1>3. \A y \in S : ~(y < x)
  BY <1>2 DEF OpToRel
<1> QED
  BY <1>3

\* Of a table of powers there is one of every length, and all it says is natural.
IsPowers(g, m, n) == g = [i \in 0 .. n |-> IF i = 0 THEN 1 ELSE m * g[i - 1]]

\* There is a function of the powers up to any exponent, by a least counterexample.
LEMMA PowersExist ==
  ASSUME NEW m \in Nat, NEW n \in Nat
  PROVE  \E g : IsPowers(g, m, n)
<1> DEFINE Bad == {k \in Nat : ~\E g : IsPowers(g, m, k)}
<1> SUFFICES ASSUME Bad # {} PROVE FALSE
  OBVIOUS
<1>1. PICK k \in Bad : \A j \in Bad : k <= j
  BY Least
<1>2. CASE k = 0
  <2>1. IsPowers([i \in 0 .. 0 |-> 1], m, 0)
    BY DEF IsPowers
  <2> QED
    BY <1>1, <1>2, <2>1
<1>3. CASE k # 0
  <2>1. k - 1 \in Nat /\ k - 1 \notin Bad
    BY <1>1, <1>3
  <2>2. PICK g : IsPowers(g, m, k - 1)
    BY <2>1
  <2> DEFINE h == [i \in 0 .. k |-> IF i = k THEN m * g[k - 1] ELSE g[i]]
  <2>3. ASSUME NEW i \in 0 .. k PROVE h[i] = IF i = 0 THEN 1 ELSE m * h[i - 1]
    <3>1. CASE i = k
      BY <1>3, <2>1, <3>1
    <3>2. CASE i # k
      <4>1. i \in 0 .. k - 1
        BY <2>1, <3>2
      <4>2. g[i] = IF i = 0 THEN 1 ELSE m * g[i - 1]
        BY <2>2, <4>1 DEF IsPowers
      <4>3. h[i] = g[i] /\ (i # 0 => h[i - 1] = g[i - 1])
        BY <2>1, <4>1
      <4> QED
        BY <4>2, <4>3
    <3> QED
      BY <3>1, <3>2
  <2>4. IsPowers(h, m, k)
    BY <2>3 DEF IsPowers
  <2> QED
    BY <1>1, <2>4
<1> QED
  BY <1>2, <1>3

\* So a power is a number.
LEMMA PowersAreNat ==
  ASSUME NEW m \in Nat, NEW n \in Nat
  PROVE  Power(m, n) \in Nat
<1> DEFINE p == CHOOSE g : IsPowers(g, m, n)
           Bad == {k \in 0 .. n : p[k] \notin Nat}
<1>1. IsPowers(p, m, n)
  BY PowersExist
<1>2. Power(m, n) = p[n]
  BY DEF Power, IsPowers
<1> HIDE DEF p
<1>3. ASSUME Bad # {} PROVE FALSE
  <2> Bad \subseteq Nat
    OBVIOUS
  <2>1. PICK k \in Bad : \A j \in Bad : k <= j
    BY <1>3, Least
  <2>2. p[k] = IF k = 0 THEN 1 ELSE m * p[k - 1]
    BY <1>1 DEF IsPowers
  <2>3. k # 0 => p[k - 1] \in Nat
    BY <2>1
  <2> QED
    BY <2>1, <2>2, <2>3
<1> QED
  BY <1>2, <1>3

\* Whatever the attempt, a delay is at most one and a half times the longest one.
LEMMA DelaysAreBounded ==
  ASSUME Timed(cfg), NEW n \in Nat, NEW d \in Delays(n)
  PROVE  d \in Int /\ d * 2 <= BackoffMax * 3
<1> DEFINE r == cfg.reconnect
           raw == BackoffInitial * Power(r.multiplier \div 100, n)
           base == Min({raw, BackoffMax})
           cap == (BackoffMax * 3) \div 2
           low == (base * (100 - r.jitter)) \div 100
           high == (base * (100 + r.jitter)) \div 100
<1>1. cap \in Int /\ cap * 2 <= BackoffMax * 3
  BY ConnectAssumption
<1>2. raw \in Nat
  <2>1. r.multiplier \div 100 \in Nat
    BY DEF Timed
  <2>2. Power(r.multiplier \div 100, n) \in Nat
    BY <2>1, PowersAreNat
  <2> QED
    BY <2>2, ConnectAssumption
<1>3. base \in Int
  <2> HIDE DEF raw
  <2>1. raw \in Int /\ BackoffMax \in Int
    BY <1>2, ConnectAssumption
  <2> QED
    BY <2>1, LeastIs
<1>4. low \in Int /\ high \in Int
  <2>1. 100 - r.jitter \in Int /\ 100 + r.jitter \in Int
    BY DEF Timed
  <2> HIDE DEF base
  <2>2. base * (100 - r.jitter) \in Int /\ base * (100 + r.jitter) \in Int
    BY <1>3, <2>1
  <2> QED
    BY <2>2
<1>5. d = Min({low, cap}) \/ d = Min({high, cap})
  BY DEF Delays
<1> HIDE DEF raw, base, cap, low, high
<1>6. d \in Int /\ d <= cap
  BY <1>1, <1>4, <1>5, LeastIs
<1> QED
  BY <1>1, <1>6, ConnectAssumption

\* A configuration that is not refused has been validated.
LEMMA BuiltIsTimed ==
  ASSUME NEW a, NEW home, build_config(a, home) # Refused,
         "cfg" \in DOMAIN a.config => a.config.cfg.reconnect.multiplier \in Int
  PROVE  Timed(build_config(a, home).cfg)
<1>1. CASE a.config # NoFile
  <2>1. build_config(a, home) = load(a.config)
    BY <1>1 DEF build_config
  <2>2. "cfg" \in DOMAIN a.config /\ Faults(a.config.cfg) = {}
    BY <2>1 DEF load, validate
  <2>3. ~(a.config.cfg.reconnect.multiplier < 100) /\ a.config.cfg.reconnect.jitter \in 0 .. 100
    BY <2>2 DEF Faults
  <2>4. build_config(a, home).cfg = a.config.cfg
    BY <2>1, <2>2, Zenon DEF load, validate
  <2>5. a.config.cfg.reconnect.multiplier \in Nat
    BY <2>2, <2>3
  <2> QED
    BY <2>3, <2>4, <2>5, Zenon DEF Timed
<1>2. CASE a.config = NoFile
  <2> DEFINE gateway == parse_target(a.target)
             auth == Auth(a, home)
  <2>1. build_config(a, home) = [cfg |-> CliConfig(a, gateway, auth), warnings |-> CliWarnings(a, gateway)]
    BY <1>2 DEF build_config
  <2>2. CliConfig(a, gateway, auth).reconnect = [ReconnectDefault EXCEPT !.dial_wait = Max({a.dial_wait, 1})]
    BY DEF CliConfig
  <2> QED
    BY <2>1, <2>2 DEF ReconnectDefault, Timed
<1> QED
  BY <1>1, <1>2

\* What the steps make of a connection is one.
LEMMA ConnMoves ==
  ASSUME NEW c \in Conn
  PROVE  /\ \A st \in ConnState : /\ [c EXCEPT !.st = st] \in Conn
                                  /\ \A k \in Key : [c EXCEPT !.st = st, !.key = k] \in Conn
                                  /\ \A ids \in Seq(STRING) : [c EXCEPT !.st = st, !.ids = ids] \in Conn
         /\ \A ids \in Seq(STRING), clean \in BOOLEAN : [c EXCEPT !.ids = ids, !.clean = clean] \in Conn
BY DEF Conn

\* A connection before anything happened on it.
LEMMA NewConns ==
  /\ NoConn \in Conn
  /\ [NoConn EXCEPT !.st = "backoff"] \in Conn /\ [NoConn EXCEPT !.st = "closed"] \in Conn
<1>1. NoConn \in Conn
  BY DEF NoConn, Conn, ConnState
<1> QED
  BY <1>1, ConnMoves DEF ConnState

\* The rest of a list.
LEMMA TailsAreSeqs ==
  ASSUME NEW S, NEW s \in Seq(S), s # <<>>
  PROVE  Tail(s) \in Seq(S)
OBVIOUS

-----------------------------------------------------------------------------
(* The steps of the tunnel.                                                *)

\* The invariant holds at the start.
LEMMA TrustStarts == Init => TrustHolds
<1> SUFFICES ASSUME Init PROVE TrustHolds
  OBVIOUS
<1> USE DEF Init, ConnectInit, NoConn
<1>1. Types
  BY ConnectAssumption, NewConns DEF Types
<1>2. Begun
  <2>1. {"pc", "lines", "cli", "home"} \subseteq DOMAIN begin /\ CliTyped(begin.cli)
    BY LaunchAssumption
  <2> QED
    BY <2>1 DEF Begun, CliTyped, CliDefault, FileTyped
<1>3. Waits /\ Works /\ Tried
  BY LaunchAssumption DEF Waits, Works, Tried, Idle, Unconfigured
<1> QED
  BY <1>1, <1>2, <1>3 DEF TrustHolds

\* Everything but main's place and what was started, in one name.
Tunnel == Types /\ (cfg # Refused => Trusts /\ Paced) /\ Tried

\* A step that ends in Fails.
LEMMA FailsKeeps ==
  ASSUME Tunnel, Timed(cfg), Fails, UNCHANGED <<cfg, world>>
  PROVE  Tunnel'
<1> USE DEF Tunnel, Fails, NoConn, world
<1>1. CASE cfg.reconnect.enabled
  <2>1. attempts \in Nat /\ delay' \in Delays(attempts)
    BY <1>1 DEF Types
  <2>2. delay' \in Int /\ delay' * 2 <= BackoffMax * 3
    BY <2>1, DelaysAreBounded
  <2>3. attempts' \in Nat /\ attempts' > 0
    <3>1. attempts + 1 \in Int /\ MaxAttempts \in Int /\ attempts + 1 > 0 /\ MaxAttempts > 0
      BY <2>1, ConnectAssumption
    <3>2. attempts' = Min({attempts + 1, MaxAttempts})
      BY <1>1
    <3>3. attempts' \in {attempts + 1, MaxAttempts}
      BY <3>1, <3>2, LeastIs
    <3> QED
      BY <3>1, <3>3
  <2>4. ssh' = [NoConn EXCEPT !.st = "backoff"]
    BY <1>1
  <2>5. Types'
    BY <2>2, <2>3, <2>4, NewConns DEF Types
  <2>6. Paced'
    BY <2>2, <2>3, <2>4 DEF Paced
  <2>7. (cfg # Refused => Trusts)'
    BY DEF Trusts
  <2>8. Tried'
    BY <2>4 DEF Tried
  <2> QED
    BY <2>5, <2>6, <2>7, <2>8
<1>2. CASE ~cfg.reconnect.enabled
  <2>1. ssh' = [NoConn EXCEPT !.st = "closed"] /\ UNCHANGED <<attempts, delay>>
    BY <1>2
  <2>2. Types'
    BY <2>1, NewConns DEF Types
  <2>3. (cfg # Refused => Trusts /\ Paced)'
    BY <2>1 DEF Trusts, Paced
  <2>4. Tried'
    BY <2>1 DEF Tried
  <2> QED
    BY <2>2, <2>3, <2>4
<1> QED
  BY <1>1, <1>2

\* What the answers of the library say of the file.
LEMMA AnswersSay ==
  ASSUME file \in FileState, NEW answer \in check_known_hosts(key)
  PROVE  /\ answer = "known" => file = "readable" /\ key \in known
         /\ answer = "unknown" =>
              /\ file # "garbled"
              /\ file = "readable" => \A r \in known : Algorithm[r] # Algorithm[key]
BY DEF check_known_hosts, FileState

\* A key that is accepted, whatever the policy accepts it for.
LEMMA KeyIsTrusted ==
  ASSUME Types, Trusts, NEW answer \in check_known_hosts(key),
         verify(cfg.host_key, key, answer), trusted' = trusted \cup {key},
         UNCHANGED <<cfg, file, operator, writable, key>>,
         known' \in {known, known \cup {key}},
         known' # known => cfg.host_key = AcceptNew /\ answer = "unknown",
         cfg.host_key = AcceptNew /\ answer = "unknown" /\ file = "readable" /\ writable =>
           known' = known \cup {key}
  PROVE  Trusts'
<1> DEFINE policy == cfg.host_key
<1>1. CASE policy.type = "pinned"
  <2>1. norm(policy.fp) = <<key>>
    BY <1>1 DEF verify, fingerprint_matches
  <2>2. policy # Strict /\ policy # AcceptNew
    BY <1>1 DEF Strict, AcceptNew
  <2>3. UNCHANGED known
    BY <2>2
  <2> QED
    BY <1>1, <2>1, <2>2, <2>3 DEF Trusts
<1>2. CASE policy.type # "pinned" /\ answer = "known"
  <2>1. UNCHANGED known /\ file = "readable" /\ key \in known
    BY <1>2, AnswersSay DEF Types
  <2>2. key \in operator \/ trusted' = trusted
    BY <2>1 DEF Trusts
  <2>3. policy = Strict => key \in operator
    BY <2>1 DEF Trusts, Strict, AcceptNew
  <2>4. operator \cup trusted' = operator \cup trusted /\ trusted' \ operator = trusted \ operator
    BY <2>2
  <2>5. ASSUME policy = AcceptNew, NEW k \in trusted' \ operator
        PROVE  Rivals(k, operator \cup IF writable THEN trusted' ELSE {}) = {}
    BY <2>1, <2>4, <2>5 DEF Trusts
  <2>6. policy = AcceptNew /\ writable => trusted' \subseteq known
    BY <2>1 DEF Trusts
  <2> QED
    BY <1>2, <2>1, <2>3, <2>5, <2>6 DEF Trusts, Rivals
<1>3. CASE policy.type # "pinned" /\ answer = "unknown"
  <2>1. policy = AcceptNew /\ policy # Strict
    BY <1>2, <1>3 DEF verify, accepts_unknown_host, AcceptNew, Strict
  <2>2. operator \subseteq known' /\ known' \ operator \subseteq trusted'
    BY DEF Trusts
  <2>3. file # "garbled"
    BY <1>3, AnswersSay DEF Types
  <2>4. ASSUME file = "readable", writable
        PROVE  trusted' \subseteq known'
    BY <1>3, <2>1, <2>4 DEF Trusts
  <2>5. ASSUME file = "readable", NEW k \in trusted' \ operator
        PROVE  Rivals(k, operator \cup IF writable THEN trusted' ELSE {}) = {}
    <3>1. \A r \in known : Algorithm[r] # Algorithm[key]
      BY <1>3, <2>5, AnswersSay DEF Types
    <3>2. operator \subseteq known /\ (writable => trusted \subseteq known)
      BY <2>1, <2>5 DEF Trusts
    <3>3. CASE k = key
      BY <3>1, <3>2, <3>3 DEF Rivals
    <3>4. CASE k # key
      <4>1. k \in trusted \ operator
        BY <2>5, <3>4
      <4>2. Rivals(k, operator \cup IF writable THEN trusted ELSE {}) = {}
        BY <2>1, <2>5, <4>1 DEF Trusts
      <4>3. writable => Algorithm[key] # Algorithm[k]
        BY <3>1, <3>2, <4>1
      <4> QED
        BY <4>2, <4>3 DEF Rivals
    <3> QED
      BY <3>3, <3>4
  <2> QED
    BY <1>3, <2>1, <2>2, <2>3, <2>4, <2>5 DEF Trusts, Rivals
<1> QED
  BY <1>1, <1>2, <1>3 DEF verify

\* The check of the server's key, and what it writes.
LEMMA CheckKeeps ==
  ASSUME Tunnel, Timed(cfg), CheckServerKey, UNCHANGED cfg
  PROVE  Tunnel'
<1> PICK answer \in check_known_hosts(key) :
      IF verify(cfg.host_key, key, answer)
      THEN /\ ssh' = [ssh EXCEPT !.st = "auth", !.key = key]
           /\ known' \in Recorded(cfg.host_key, key, answer)
           /\ trusted' = trusted \cup {key}
           /\ UNCHANGED <<attempts, delay>>
      ELSE Fails /\ UNCHANGED known
  BY DEF CheckServerKey
<1>0. ssh.st = "kex" /\ UNCHANGED <<file, operator, writable, key, accepts, agent, changes>>
  BY DEF CheckServerKey
<1>1. CASE ~verify(cfg.host_key, key, answer)
  <2>1. Fails /\ UNCHANGED world
    BY <1>0, <1>1 DEF world
  <2> QED
    BY <2>1, FailsKeeps
<1>2. CASE verify(cfg.host_key, key, answer)
  <2>1. /\ ssh' = [ssh EXCEPT !.st = "auth", !.key = key]
        /\ known' \in {known, known \cup {key}}
        /\ known' # known => cfg.host_key = AcceptNew /\ answer = "unknown"
        /\ cfg.host_key = AcceptNew /\ answer = "unknown" /\ file = "readable" /\ writable =>
             known' = known \cup {key}
        /\ trusted' = trusted \cup {key}
        /\ UNCHANGED <<attempts, delay>>
    BY <1>2 DEF Recorded
  <2>2. Types'
    <3>1. ssh' \in Conn
      BY <2>1, ConnMoves DEF Tunnel, Types, ConnState
    <3>2. known' \subseteq Key
      BY <2>1 DEF Tunnel, Types
    <3> QED
      BY <1>0, <2>1, <3>1, <3>2, SMTT(30) DEF Tunnel, Types
  <2>3. Tried'
    BY <2>1, <2>2 DEF Tunnel, Types, Tried, Conn
  <2>4. ASSUME cfg # Refused PROVE Paced'
    BY <2>1, <2>2, <2>4 DEF Tunnel, Types, Paced, Conn
  <2>5. ASSUME cfg # Refused PROVE Trusts'
    BY <1>0, <1>2, <2>1, <2>5, KeyIsTrusted DEF Tunnel
  <2> QED
    BY <2>1, <2>2, <2>3, <2>4, <2>5 DEF Tunnel
<1> QED
  BY <1>1, <1>2

\* One identity of the agent after another.
LEMMA TriesKeeps ==
  ASSUME Tunnel, TriesIdentity, UNCHANGED cfg
  PROVE  Tunnel'
<1> DEFINE id == Head(ssh.ids)
<1>1. /\ ssh.st = "agent" /\ ssh.ids # <<>> /\ UNCHANGED world /\ UNCHANGED trusted
      /\ ssh.ids \in Seq(STRING) /\ agent \in Seq(STRING) /\ ssh.clean \in BOOLEAN
      /\ ssh \in Conn
  BY DEF Tunnel, Types, TriesIdentity, Established, Conn
<1>2. (cfg # Refused => Trusts)'
  BY <1>1 DEF Tunnel, Trusts, world
<1>3. CASE Established
  <2>1. ssh' = [ssh EXCEPT !.st = "up", !.ids = <<>>] /\ attempts' = 0 /\ delay' = 0
    BY <1>3 DEF Established
  <2>2. Types'
    <3>1. <<>> \in Seq(STRING) /\ "up" \in ConnState
      BY DEF ConnState
    <3>2. ssh' \in Conn
      BY <1>1, <2>1, <3>1, ConnMoves
    <3> QED
      BY <1>1, <2>1, <3>2 DEF Tunnel, Types, world
  <2>3. ssh'.st = "up"
    BY <1>1, <2>1 DEF Conn
  <2> QED
    BY <1>2, <2>1, <2>2, <2>3 DEF Tunnel, Paced, Tried
<1>4. CASE ~Established
  <2>1. PICK clean \in BOOLEAN :
          /\ ssh' = [ssh EXCEPT !.ids = Tail(@), !.clean = clean]
          /\ UNCHANGED <<attempts, delay, trusted>>
          /\ clean => ssh.clean /\ (id = Certificate \/ id \notin accepts)
    BY <1>1, <1>4 DEF TriesIdentity
  <2>2. /\ ssh'.st = "agent" /\ ssh'.ids = Tail(ssh.ids) /\ ssh'.clean = clean
        /\ ssh' \in Conn
    <3>1. Tail(ssh.ids) \in Seq(STRING)
      BY <1>1, TailsAreSeqs
    <3>2. ssh' \in Conn
      BY <1>1, <2>1, <3>1, ConnMoves
    <3> QED
      BY <1>1, <2>1, <3>2 DEF Conn
  <2>3. Types'
    BY <1>1, <2>1, <2>2 DEF Tunnel, Types, world
  <2>4. Paced'
    BY <2>2 DEF Paced
  <2>5. Tried'
    <3>1. /\ Len(ssh.ids) <= Len(agent) /\ Len(ssh.ids) \in Nat \ {0} /\ Len(agent) \in Nat
          /\ Len(ssh.ids') = Len(ssh.ids) - 1
          /\ \A j \in 1 .. Len(ssh.ids) : ssh.ids[j] = agent[Asked + j]
          /\ \A j \in 1 .. Len(ssh.ids) - 1 : ssh.ids'[j] = ssh.ids[j + 1]
      BY <1>1, <2>2 DEF Tunnel, Tried
    <3>2. Asked' = Asked + 1 /\ Asked \in Nat /\ agent' = agent /\ accepts' = accepts
      BY <1>1, <3>1 DEF Asked, world
    <3>3. ASSUME NEW j \in 1 .. Len(ssh'.ids) PROVE ssh'.ids[j] = agent[Asked' + j]
      BY <3>1, <3>2
    <3>4. id = agent[Asked + 1]
      BY <1>1, <3>1
    <3>5. ASSUME clean, NEW i \in 1 .. Asked' PROVE Passed(i)'
      <4>1. CASE i = Asked + 1
        BY <2>1, <3>2, <3>4, <3>5, <4>1 DEF Passed
      <4>2. CASE i # Asked + 1
        <5>1. i \in 1 .. Asked
          BY <3>2, <4>2
        <5>2. Passed(i)
          BY <1>1, <2>1, <3>5, <5>1 DEF Tunnel, Tried
        <5> QED
          BY <3>2, <5>2 DEF Passed
      <4> QED
        BY <4>1, <4>2
    <3> QED
      BY <2>2, <3>1, <3>2, <3>3, <3>5 DEF Tried
  <2> QED
    BY <1>2, <2>3, <2>4, <2>5 DEF Tunnel
<1> QED
  BY <1>3, <1>4

\* A step of the tunnel.
LEMMA TunnelKeeps ==
  ASSUME Tunnel, Timed(cfg), ConnectStep
  PROVE  Tunnel' /\ UNCHANGED cfg
<1> UNCHANGED cfg
  BY DEF ConnectStep
<1> SUFFICES Tunnel'
  OBVIOUS
<1>1. ASSUME Fails, UNCHANGED world PROVE Tunnel'
  BY <1>1, FailsKeeps
<1>2. ASSUME Established, UNCHANGED world PROVE Tunnel'
  <2>1. ssh' = [ssh EXCEPT !.st = "up", !.ids = <<>>] /\ attempts' = 0 /\ delay' = 0 /\ UNCHANGED trusted
    BY <1>2 DEF Established
  <2>2. <<>> \in Seq(STRING) /\ "up" \in ConnState
    BY DEF ConnState
  <2>3. ssh' \in Conn /\ ssh'.st = "up"
    BY <2>1, <2>2, ConnMoves DEF Tunnel, Types, Conn
  <2>4. Types'
    BY <1>2, <2>1, <2>3 DEF Tunnel, Types, world
  <2>5. (cfg # Refused => Trusts)'
    BY <1>2, <2>1 DEF Tunnel, Trusts, world
  <2> QED
    BY <2>1, <2>3, <2>4, <2>5 DEF Tunnel, Paced, Tried
<1>3. ASSUME NEW st \in {"kex", "agent"}, ssh' \in Conn, ssh'.st = st,
             st = "agent" => ssh'.ids = agent,
             UNCHANGED <<attempts, delay, trusted>>, UNCHANGED world
      PROVE  Tunnel'
  <2>1. Types' /\ (cfg # Refused => Trusts)' /\ Paced'
    BY <1>3 DEF Tunnel, Types, Trusts, Paced, world
  <2>2. Tried'
    <3>1. CASE st = "agent"
      <4>1. ssh'.ids = agent /\ agent' = agent /\ agent \in Seq(STRING)
        BY <1>3, <3>1 DEF Tunnel, Types, world
      <4>2. Asked' = 0 /\ Len(agent) \in Nat
        BY <4>1 DEF Asked
      <4> QED
        BY <4>1, <4>2 DEF Tried
    <3>2. CASE st # "agent"
      BY <1>3, <3>2 DEF Tried
    <3> QED
      BY <3>1, <3>2
  <2> QED
    BY <2>1, <2>2 DEF Tunnel
<1>4. CASE Connects
  <2>1. CASE Fails
    BY <1>1, <1>4, <2>1 DEF Connects
  <2>2. CASE ~Fails
    <3>1. ssh' = [ssh EXCEPT !.st = "kex"] /\ UNCHANGED <<attempts, delay, trusted>> /\ UNCHANGED world
      BY <1>4, <2>2 DEF Connects, Goes
    <3>2. ssh \in Conn /\ "kex" \in ConnState
      BY DEF Tunnel, Types, ConnState
    <3>3. ssh' \in Conn
      BY <3>1, <3>2, ConnMoves
    <3>4. ssh'.st = "kex"
      BY <3>1, <3>2 DEF Conn
    <3> QED
      BY <1>3, <3>1, <3>3, <3>4
  <2> QED
    BY <2>1, <2>2
<1>5. CASE CheckServerKey
  BY <1>5, CheckKeeps
<1>6. CASE Authenticates
  BY <1>1, <1>2, <1>6 DEF Authenticates
<1>7. CASE ListsIdentities
  <2>1. CASE Fails
    BY <1>1, <1>7, <2>1 DEF ListsIdentities
  <2>2. CASE ~Fails
    <3>1. /\ ssh' = [ssh EXCEPT !.st = "agent", !.ids = agent]
          /\ UNCHANGED <<attempts, delay, trusted>> /\ UNCHANGED world
      BY <1>7, <2>2 DEF ListsIdentities
    <3>2. ssh \in Conn /\ "agent" \in ConnState /\ agent \in Seq(STRING)
      BY DEF Tunnel, Types, ConnState
    <3>3. ssh' \in Conn
      BY <3>1, <3>2, ConnMoves
    <3>4. ssh'.st = "agent" /\ ssh'.ids = agent
      BY <3>1, <3>2 DEF Conn
    <3> QED
      BY <1>3, <3>1, <3>3, <3>4
  <2> QED
    BY <2>1, <2>2
<1>8. CASE TriesIdentity
  BY <1>8, TriesKeeps
<1>9. CASE NoneAccepted \/ TimesOut
  BY <1>1, <1>9 DEF NoneAccepted, TimesOut
<1>10. CASE WakesUp \/ Disconnected
  <2>1. /\ ssh' = NoConn /\ UNCHANGED <<attempts, trusted, world>> /\ delay' \in {0, delay}
    BY <1>10 DEF WakesUp, Disconnected
  <2>2. ssh' \in Conn /\ ssh'.st = "idle"
    BY <2>1, NewConns DEF NoConn
  <2>3. Types' /\ Paced' /\ Tried'
    BY <2>1, <2>2 DEF Tunnel, Types, Paced, Tried, world
  <2>4. (cfg # Refused => Trusts)'
    BY <2>1 DEF Tunnel, Trusts, world
  <2> QED
    BY <2>3, <2>4 DEF Tunnel
<1>11. CASE Rekeys \/ OperatorEdits
  <2>1. /\ UNCHANGED <<ssh, attempts, delay, writable, accepts, agent>> /\ key' \in Key
        /\ file' \in FileState
        /\ \/ UNCHANGED <<trusted, known, file, operator>>
           \/ known' \subseteq Key /\ operator' = known' /\ trusted' = {}
    BY <1>11 DEF Rekeys, OperatorEdits, Tunnel, Types
  <2>2. Types' /\ Paced' = Paced
    BY <2>1 DEF Tunnel, Types, Paced
  <2>3. Tried'
    BY <2>1 DEF Tunnel, Tried, Asked, Passed
  <2>4. ASSUME cfg # Refused PROVE Trusts'
    <3>1. CASE UNCHANGED <<trusted, known, file, operator>>
      BY <2>1, <2>4, <3>1 DEF Tunnel, Trusts, Rivals
    <3>2. CASE operator' = known' /\ trusted' = {}
      BY <3>2 DEF Trusts, Rivals
    <3> QED
      BY <2>1, <3>1, <3>2
  <2> QED
    BY <2>2, <2>3, <2>4 DEF Tunnel
<1> QED
  BY <1>4, <1>5, <1>6, <1>7, <1>8, <1>9, <1>10, <1>11 DEF ConnectStep

\* Nothing of main but Builds touches the tunnel, and begin keeps its arguments.
LEMMA MainKeeps ==
  ASSUME TrustHolds, UNCHANGED connectVars,
         Setup \/ Asks \/ AsksManually \/ Writes \/ ServiceStarts \/ Binds \/ Accepts_ \/ AcceptsAgain
           \/ ShutsDown \/ UNCHANGED vars
  PROVE  TrustHolds'
<1>1. Tunnel' /\ Idle' = Idle /\ UNCHANGED cfg
  <2>1. UNCHANGED <<cfg, known, file, operator, writable, key, accepts, agent, ssh, attempts, delay, trusted>>
    BY DEF connectVars, world
  <2>2. Types' /\ Tried' /\ Idle' = Idle
    BY <2>1 DEF TrustHolds, Types, Tried, Asked, Passed, Idle
  <2>3. (cfg # Refused => Trusts /\ Paced)'
    BY <2>1 DEF TrustHolds, Trusts, Paced
  <2> QED
    BY <2>1, <2>2, <2>3 DEF Tunnel
<1>2. Begun'
  <2>1. CASE UNCHANGED begin
    BY <2>1 DEF TrustHolds, Begun
  <2>2. CASE begin' = [begin EXCEPT !.cli.target = wrote]
    <3>1. begin'.cli = [begin.cli EXCEPT !.target = wrote] /\ "cli" \in DOMAIN begin'
      BY <2>2 DEF TrustHolds, Begun
    <3>2. "config" \in DOMAIN begin'.cli /\ begin'.cli.config = begin.cli.config
      BY <3>1 DEF TrustHolds, Begun
    <3> QED
      BY <3>1, <3>2 DEF TrustHolds, Begun
  <2> QED
    BY <2>1, <2>2 DEF Setup, Asks, AsksManually, Writes, ServiceStarts, Binds, Accepts_, AcceptsAgain,
                      ShutsDown, vars
<1>3. pc' \in Unconfigured => pc \in Unconfigured
  BY DEF Setup, Asks, AsksManually, Again, Take, Writes, ServiceStarts, Binds, Accepts_, AcceptsAgain,
         ShutsDown, vars, Unconfigured
<1>4. pc' \in {"bind", "serve"} => pc \in {"bind", "serve"}
  BY DEF Setup, Asks, AsksManually, Again, Take, Writes, ServiceStarts, Binds, Accepts_, AcceptsAgain,
         ShutsDown, vars
<1> QED
  BY <1>1, <1>2, <1>3, <1>4 DEF TrustHolds, Tunnel, Waits, Works, Timed

\* The start takes the configuration over while nothing is trusted yet.
LEMMA BuildsKeeps ==
  ASSUME TrustHolds, Builds
  PROVE  TrustHolds'
<1> DEFINE built == build_config(begin.cli, begin.home)
<1>1. /\ pc = "args" /\ UNCHANGED <<begin, world, ssh, attempts, delay, trusted>>
      /\ built = Refused => pc' = "failed" /\ UNCHANGED cfg
      /\ built # Refused => pc' = "bind" /\ cfg' = built.cfg
  BY DEF Builds
<1>2. Idle
  BY <1>1 DEF TrustHolds, Waits, Unconfigured
<1>3. Types' /\ Begun' /\ Tried'
  <2>1. UNCHANGED <<begin, known, file, writable, key, accepts, agent, ssh, attempts, delay, trusted>>
    BY <1>1 DEF world
  <2> QED
    BY <2>1 DEF TrustHolds, Types, Begun, Tried, Asked, Passed
<1>4. Trusts' /\ Paced'
  BY <1>1, <1>2 DEF Idle, NoConn, Trusts, Paced, world
<1>5. Waits'
  BY <1>1 DEF Waits, Unconfigured
<1>6. Works'
  <2>1. CASE built = Refused
    BY <1>1, <2>1 DEF Works
  <2>2. CASE built # Refused
    <3>1. Timed(built.cfg)
      BY <2>2, BuiltIsTimed DEF TrustHolds, Begun
    <3> QED
      BY <1>1, <2>2, <3>1 DEF Works, Timed
  <2> QED
    BY <2>1, <2>2
<1> QED
  BY <1>3, <1>4, <1>5, <1>6 DEF TrustHolds

\* Every step keeps it.
LEMMA TrustStep == TrustHolds /\ [Next]_vars => TrustHolds'
<1> SUFFICES ASSUME TrustHolds, [Next]_vars PROVE TrustHolds'
  OBVIOUS
<1>1. CASE Builds
  BY <1>1, BuildsKeeps
<1>2. CASE pc \in {"bind", "serve"} /\ ConnectStep /\ UNCHANGED <<pc, begin>>
  <2>1. Tunnel /\ Timed(cfg)
    BY <1>2 DEF TrustHolds, Tunnel, Works
  <2>2. Tunnel' /\ UNCHANGED cfg
    BY <1>2, <2>1, TunnelKeeps
  <2>3. Begun' /\ Waits' /\ Works'
    BY <1>2, <2>1, <2>2 DEF TrustHolds, Begun, Waits, Works, Timed, Unconfigured
  <2> QED
    BY <2>2, <2>3 DEF TrustHolds, Tunnel
<1>3. CASE Setup \/ Asks \/ AsksManually \/ Writes \/ ServiceStarts \/ Binds \/ Accepts_ \/ AcceptsAgain
             \/ ShutsDown \/ UNCHANGED vars
  <2>1. UNCHANGED connectVars
    BY <1>3 DEF Setup, Asks, AsksManually, Writes, ServiceStarts, Binds, Accepts_, AcceptsAgain,
                ShutsDown, vars
  <2> QED
    BY <1>3, <2>1, MainKeeps
<1> QED
  BY <1>1, <1>2, <1>3 DEF Next

\* The property is a part of the invariant.
LEMMA TrustFollows == TrustHolds => TrustInv
<1> SUFFICES ASSUME TrustHolds, cfg # Refused PROVE TrustInv
  BY DEF TrustInv
<1> Types /\ Trusts /\ Paced /\ Tried
  BY DEF TrustHolds
<1>1. ASSUME ssh.st = "agent", ssh.ids = <<>>, ssh.clean
      PROVE  \A i \in DOMAIN agent : agent[i] = Certificate \/ agent[i] \notin accepts
  <2>1. Asked = Len(agent) /\ Len(agent) \in Nat /\ DOMAIN agent = 1 .. Len(agent)
    BY <1>1 DEF Asked, Types
  <2> QED
    BY <1>1, <2>1 DEF Tried, Passed
<1> QED
  BY <1>1 DEF Trusts, Paced, TrustInv

\* Over changes of the server's key and of known_hosts, whatever the configuration,
\* however many keys and algorithms there are: strict trusts what the operator
\* recorded, a pin what it names, accept_new no second key of an algorithm as long as
\* it can read and write known_hosts; no delay leaves its bounds and no identity is
\* passed over (verify, next_delay, auth_agent).
THEOREM OnlyTrustedKeys == Spec => []TrustInv
<1>1. TrustHolds /\ [Next]_vars => TrustHolds'
  BY TrustStep
<1> QED
  BY TrustStarts, <1>1, TrustFollows, PTL DEF Spec

-----------------------------------------------------------------------------
(* Texts.                                                                  *)

\* What texts are made of: strings. The provers do not take a literal for a member
\* of STRING, so those the model writes are named; TLC finds each of them there.
Token ==
  STRING \cup {"@", "[", "]", ":", Quote, Backslash, Blank, "--stream-window", "--allow", "4194304",
                  "root", "unset"}
Text == Seq(Token)

\* The least number of a set.
LEMMA Smallest ==
  ASSUME NEW S, S \subseteq Nat, S # {}
  PROVE  Min(S) \in S /\ \A y \in S : Min(S) <= y
<1>1. \E z \in S : \A y \in S : z =< y
  BY Least
<1> QED
  BY <1>1 DEF Min

\* A set of natural numbers up to n that is not empty has a greatest element.
LEMMA Greatest ==
  ASSUME NEW n \in Nat, NEW S, S \subseteq 0 .. n, S # {}
  PROVE  Max(S) \in S /\ \A y \in S : y <= Max(S)
<1> DEFINE T == {n - y : y \in S}
<1>1. \A y \in S : y \in Nat /\ n - y \in Nat
  OBVIOUS
<1>2. PICK z \in T : \A y \in T : z <= y
  <2>1. T \subseteq Nat /\ T # {}
    BY <1>1
  <2> HIDE DEF T
  <2> QED
    BY <2>1, Least
<1>3. PICK x \in S : z = n - x
  BY <1>2
<1>4. ASSUME NEW y \in S PROVE x >= y
  <2>1. n - x <= n - y /\ x \in Nat /\ y \in Nat
    BY <1>1, <1>2, <1>3
  <2> QED
    BY <2>1
<1>5. Max(S) \in S /\ \A y \in S : Max(S) >= y
  BY <1>4 DEF Max
<1> QED
  BY <1>1, <1>5

\* The tokens of a text.
LEMMA Tokens ==
  ASSUME NEW S, NEW s \in Seq(S)
  PROVE  /\ Len(s) \in Nat /\ DOMAIN s = 1 .. Len(s) /\ Range(s) = {s[i] : i \in 1 .. Len(s)}
         /\ \A i \in 1 .. Len(s) : s[i] \in S
         /\ s = <<>> <=> Len(s) = 0
BY LenProperties, ElementOfSeq, EmptySeq DEF Range

\* A concatenation holds its two parts.
LEMMA Joins ==
  ASSUME NEW S, NEW a \in Seq(S), NEW b \in Seq(S)
  PROVE  /\ a \o b \in Seq(S) /\ Len(a \o b) = Len(a) + Len(b)
         /\ Len(a) \in Nat /\ Len(b) \in Nat
         /\ \A i \in 1 .. Len(a) : (a \o b)[i] = a[i]
         /\ \A i \in 1 .. Len(b) : (a \o b)[Len(a) + i] = b[i]
<1>1. Len(a) \in Nat /\ Len(b) \in Nat /\ a \o b \in Seq(S) /\ Len(a \o b) = Len(a) + Len(b)
  BY ConcatProperties, LenProperties
<1>2. \A i \in 1 .. Len(a) + Len(b) : (a \o b)[i] = IF i <= Len(a) THEN a[i] ELSE b[i - Len(a)]
  BY ConcatProperties
<1>3. ASSUME NEW i \in 1 .. Len(a) PROVE (a \o b)[i] = a[i]
  BY <1>1, <1>2
<1>4. ASSUME NEW i \in 1 .. Len(b) PROVE (a \o b)[Len(a) + i] = b[i]
  <2>1. Len(a) + i \in 1 .. Len(a) + Len(b) /\ ~(Len(a) + i <= Len(a)) /\ Len(a) + i - Len(a) = i
    BY <1>1
  <2> QED
    BY <1>2, <2>1
<1> QED
  BY <1>1, <1>3, <1>4

\* s is a and then b.
IsJoin(s, a, b) ==
  /\ Len(s) = Len(a) + Len(b) /\ Len(a) \in Nat /\ Len(b) \in Nat
  /\ \A i \in 1 .. Len(a) : s[i] = a[i]
  /\ \A i \in 1 .. Len(b) : s[Len(a) + i] = b[i]

\* A concatenation of two sequences is one, and is a join.
LEMMA JoinIs ==
  ASSUME NEW S, NEW a \in Seq(S), NEW b \in Seq(S)
  PROVE  a \o b \in Seq(S) /\ IsJoin(a \o b, a, b)
BY Joins DEF IsJoin

\* And the tokens of both.
LEMMA JoinedTokens ==
  ASSUME NEW S, NEW a \in Seq(S), NEW b \in Seq(S)
  PROVE  a \o b \in Seq(S) /\ Range(a \o b) = Range(a) \cup Range(b)
<1> DEFINE j == a \o b
<1>1. /\ j \in Seq(S) /\ Len(j) = Len(a) + Len(b)
      /\ Len(a) \in Nat /\ Len(b) \in Nat
      /\ \A i \in 1 .. Len(a) : j[i] = a[i]
      /\ \A i \in 1 .. Len(b) : j[Len(a) + i] = b[i]
  BY Joins
<1> HIDE DEF j
<1>2. /\ Range(a) = {a[i] : i \in 1 .. Len(a)}
      /\ Range(b) = {b[i] : i \in 1 .. Len(b)}
      /\ Range(j) = {j[i] : i \in 1 .. Len(a) + Len(b)}
  <2>1. Range(a) = {a[i] : i \in 1 .. Len(a)} /\ Range(b) = {b[i] : i \in 1 .. Len(b)}
    BY Tokens
  <2>2. Range(j) = {j[i] : i \in 1 .. Len(j)}
    BY <1>1, Tokens
  <2> QED
    BY <1>1, <2>1, <2>2
<1>3. ASSUME NEW i \in 1 .. Len(a) + Len(b) PROVE j[i] \in Range(a) \cup Range(b)
  <2>1. CASE i <= Len(a)
    BY <1>1, <1>2, <2>1
  <2>2. CASE i > Len(a)
    <3>1. i - Len(a) \in 1 .. Len(b) /\ Len(a) + (i - Len(a)) = i
      BY <1>1, <2>2
    <3> QED
      BY <1>1, <1>2, <3>1
  <2> QED
    BY <1>1, <2>1, <2>2
<1>4. ASSUME NEW i \in 1 .. Len(a) PROVE a[i] \in Range(j)
  BY <1>1, <1>2
<1>5. ASSUME NEW i \in 1 .. Len(b) PROVE b[i] \in Range(j)
  <2>1. Len(a) + i \in 1 .. Len(a) + Len(b)
    BY <1>1
  <2> QED
    BY <1>1, <1>2, <2>1
<1>6. Range(j) = Range(a) \cup Range(b)
  BY <1>2, <1>3, <1>4, <1>5
<1> QED
  BY <1>1, <1>6 DEF j

\* The tokens from the m-th to the n-th.
LEMMA Cuts ==
  ASSUME NEW S, NEW s \in Seq(S), NEW m \in Nat \ {0}, NEW n \in Nat, n <= Len(s), m <= n + 1
  PROVE  /\ SubSeq(s, m, n) \in Seq(S) /\ Len(SubSeq(s, m, n)) = n - m + 1
         /\ \A i \in 1 .. n - m + 1 : SubSeq(s, m, n)[i] = s[m + i - 1]
<1>1. \A i \in m .. n : s[i] \in S
  <2>1. Len(s) \in Nat /\ \A i \in 1 .. Len(s) : s[i] \in S
    BY LenProperties, ElementOfSeq
  <2> QED
    BY <2>1
<1> QED
  BY <1>1, SubSeqProperties

\* A cut of a text holds tokens of the text.
LEMMA CutTokens ==
  ASSUME NEW S, NEW s \in Seq(S), NEW m \in Nat \ {0}, NEW n \in Nat, n <= Len(s), m <= n + 1
  PROVE  Range(SubSeq(s, m, n)) = {s[i] : i \in m .. n}
<1> DEFINE t == SubSeq(s, m, n)
<1>1. t \in Seq(S) /\ Len(t) = n - m + 1 /\ \A i \in 1 .. n - m + 1 : t[i] = s[m + i - 1]
  BY Cuts
<1> HIDE DEF t
<1>2. Range(t) = {t[i] : i \in 1 .. n - m + 1}
  BY <1>1, Tokens
<1>3. ASSUME NEW i \in 1 .. n - m + 1 PROVE t[i] \in {s[k] : k \in m .. n}
  <2>1. m + i - 1 \in m .. n
    OBVIOUS
  <2> QED
    BY <1>1, <2>1
<1>4. ASSUME NEW k \in m .. n PROVE s[k] \in Range(t)
  <2>1. k - m + 1 \in 1 .. n - m + 1 /\ m + (k - m + 1) - 1 = k
    OBVIOUS
  <2> QED
    BY <1>1, <1>2, <2>1
<1>5. Range(t) = {s[i] : i \in m .. n}
  BY <1>2, <1>3, <1>4
<1> QED
  BY <1>5 DEF t

\* Where a concatenation is cut, its parts come back.
LEMMA CutsBack ==
  ASSUME NEW S, NEW a \in Seq(S), NEW b \in Seq(S)
  PROVE  SubSeq(a \o b, 1, Len(a)) = a /\ SubSeq(a \o b, Len(a) + 1, Len(a) + Len(b)) = b
<1> DEFINE j == a \o b
<1>1. /\ j \in Seq(S) /\ Len(j) = Len(a) + Len(b)
      /\ Len(a) \in Nat /\ Len(b) \in Nat
      /\ \A i \in 1 .. Len(a) : j[i] = a[i]
      /\ \A i \in 1 .. Len(b) : j[Len(a) + i] = b[i]
  BY Joins
<1> HIDE DEF j
<1> DEFINE m == Len(a)
           n == Len(a) + Len(b)
           u == SubSeq(j, 1, m)
           v == SubSeq(j, m + 1, n)
<1>2. m \in Nat /\ n \in Nat /\ m <= n /\ n = Len(j)
  BY <1>1
<1> HIDE DEF m, n
<1>3. u \in Seq(S) /\ Len(u) = m - 1 + 1 /\ \A i \in 1 .. m - 1 + 1 : u[i] = j[1 + i - 1]
  BY <1>1, <1>2, Cuts
<1>4. v \in Seq(S) /\ Len(v) = n - (m + 1) + 1 /\ \A i \in 1 .. n - (m + 1) + 1 : v[i] = j[(m + 1) + i - 1]
  BY <1>1, <1>2, Cuts
<1> HIDE DEF u, v
<1>5. u = a
  <2>1. m - 1 + 1 = Len(a) /\ \A i \in Int : 1 + i - 1 = i
    BY <1>1 DEF m
  <2> QED
    BY <1>1, <1>3, <2>1, SeqEqual
<1>6. v = b
  <2>1. n - (m + 1) + 1 = Len(b) /\ \A i \in Int : (m + 1) + i - 1 = Len(a) + i
    BY <1>1 DEF m, n
  <2>2. Len(v) = Len(b)
    BY <1>4, <2>1
  <2>3. ASSUME NEW i \in 1 .. Len(v) PROVE v[i] = b[i]
    BY <1>1, <1>4, <2>1, <2>2, <2>3
  <2> QED
    BY <1>4, <2>2, <2>3, SeqEqual
<1> QED
  BY <1>5, <1>6 DEF u, v, m, n, j

\* A text around the first of its tokens c.
LEMMA CutFirst ==
  ASSUME NEW s \in Text, NEW c \in Range(s)
  PROVE  /\ Before(s, c) \in Text /\ After(s, c) \in Text
         /\ c \notin Range(Before(s, c))
         /\ Range(Before(s, c)) \subseteq Range(s) /\ Range(After(s, c)) \subseteq Range(s)
<1> DEFINE S == At(s, c)
           k == Min(S)
<1>1. Len(s) \in Nat /\ DOMAIN s = 1 .. Len(s) /\ Range(s) = {s[i] : i \in 1 .. Len(s)}
  BY Tokens DEF Text
<1>2. S \subseteq Nat /\ S # {} /\ S = {i \in 1 .. Len(s) : s[i] = c}
  BY <1>1 DEF At
<1>3. k \in S /\ \A i \in S : k <= i
  BY <1>2, Smallest
<1> HIDE DEF k, S
<1>4. k \in 1 .. Len(s) /\ \A i \in 1 .. k - 1 : s[i] # c
  BY <1>1, <1>2, <1>3
<1>5. /\ k - 1 \in Nat /\ k - 1 <= Len(s) /\ 1 \in Nat \ {0} /\ 1 <= k - 1 + 1
      /\ k + 1 \in Nat \ {0} /\ k + 1 <= Len(s) + 1
  BY <1>1, <1>4
<1> DEFINE n == k - 1
           u == SubSeq(s, 1, n)
           v == SubSeq(s, k + 1, Len(s))
<1> HIDE DEF n
<1>6. u \in Text /\ Range(u) = {s[i] : i \in 1 .. n}
  <2>1. n \in Nat /\ n <= Len(s) /\ 1 \in Nat \ {0} /\ 1 <= n + 1
    BY <1>5 DEF n
  <2> QED
    BY <2>1, Cuts, CutTokens DEF Text
<1>7. v \in Text /\ Range(v) = {s[i] : i \in k + 1 .. Len(s)}
  BY <1>1, <1>5, Cuts, CutTokens DEF Text
<1>8. \A i \in 1 .. k - 1 : i \in 1 .. Len(s)
  BY <1>1, <1>4
<1>9. \A i \in k + 1 .. Len(s) : i \in 1 .. Len(s)
  BY <1>1, <1>4
<1>10. Before(s, c) = u /\ After(s, c) = v
  BY DEF Before, After, n, k, S
<1> HIDE DEF u, v
<1> QED
  BY <1>1, <1>4, <1>6, <1>7, <1>8, <1>9, <1>10 DEF n

\* A text around the last of its tokens c.
LEMMA CutLast ==
  ASSUME NEW s \in Text, NEW c \in Range(s)
  PROVE  /\ BeforeLast(s, c) \in Text /\ AfterLast(s, c) \in Text
         /\ c \notin Range(AfterLast(s, c))
         /\ Range(BeforeLast(s, c)) \subseteq Range(s) /\ Range(AfterLast(s, c)) \subseteq Range(s)
<1> DEFINE S == At(s, c)
           k == Max(S)
<1>1. Len(s) \in Nat /\ DOMAIN s = 1 .. Len(s) /\ Range(s) = {s[i] : i \in 1 .. Len(s)}
  BY Tokens DEF Text
<1>2. S \subseteq 0 .. Len(s) /\ S # {} /\ S = {i \in 1 .. Len(s) : s[i] = c}
  BY <1>1 DEF At
<1>3. k \in S /\ \A i \in S : i <= k
  BY <1>1, <1>2, Greatest
<1> HIDE DEF k, S
<1>4. k \in 1 .. Len(s) /\ \A i \in k + 1 .. Len(s) : s[i] # c
  BY <1>1, <1>2, <1>3
<1>5. /\ k - 1 \in Nat /\ k - 1 <= Len(s) /\ 1 \in Nat \ {0} /\ 1 <= k - 1 + 1
      /\ k + 1 \in Nat \ {0} /\ k + 1 <= Len(s) + 1
  BY <1>1, <1>4
<1> DEFINE n == k - 1
           u == SubSeq(s, 1, n)
           v == SubSeq(s, k + 1, Len(s))
<1> HIDE DEF n
<1>6. u \in Text /\ Range(u) = {s[i] : i \in 1 .. n}
  <2>1. n \in Nat /\ n <= Len(s) /\ 1 \in Nat \ {0} /\ 1 <= n + 1
    BY <1>5 DEF n
  <2> QED
    BY <2>1, Cuts, CutTokens DEF Text
<1>7. v \in Text /\ Range(v) = {s[i] : i \in k + 1 .. Len(s)}
  BY <1>1, <1>5, Cuts, CutTokens DEF Text
<1>8. \A i \in 1 .. k - 1 : i \in 1 .. Len(s)
  BY <1>1, <1>4
<1>9. \A i \in k + 1 .. Len(s) : i \in 1 .. Len(s)
  BY <1>1, <1>4
<1>10. BeforeLast(s, c) = u /\ AfterLast(s, c) = v
  BY DEF BeforeLast, AfterLast, n, k, S
<1> HIDE DEF u, v
<1> QED
  BY <1>1, <1>4, <1>6, <1>7, <1>8, <1>9, <1>10 DEF n

\* A text of one token.
LEMMA One ==
  ASSUME NEW S, NEW c \in S
  PROVE  <<c>> \in Seq(S) /\ Len(<<c>>) = 1 /\ <<c>>[1] = c /\ Range(<<c>>) = {c}
<1> DEFINE w == <<c>>
<1>1. w \in Seq(S) /\ Len(w) = 1 /\ w[1] = c
  OBVIOUS
<1> HIDE DEF w
<1>2. Range(w) = {w[i] : i \in 1 .. 1}
  BY <1>1, Tokens
<1>3. Range(w) = {c}
  BY <1>1, <1>2
<1> QED
  BY <1>1, <1>3 DEF w

\* s is u, then c, then v.
IsAround(s, u, c, v) ==
  /\ Len(s) = Len(u) + 1 + Len(v) /\ Len(u) \in Nat /\ Len(v) \in Nat
  /\ Range(s) = Range(u) \cup {c} \cup Range(v)
  /\ s[Len(u) + 1] = c
  /\ \A i \in 1 .. Len(u) : s[i] = u[i]
  /\ \A i \in 1 .. Len(v) : s[Len(u) + 1 + i] = v[i]
  /\ SubSeq(s, 1, Len(u)) = u /\ SubSeq(s, Len(u) + 2, Len(s)) = v

\* A concatenation with one token in the middle.
LEMMA Around ==
  ASSUME NEW S, NEW u \in Seq(S), NEW c \in S, NEW v \in Seq(S)
  PROVE  u \o <<c>> \o v \in Seq(S) /\ IsAround(u \o <<c>> \o v, u, c, v)
<1> DEFINE w == <<c>>
           a == u \o w
           s == a \o v
<1>1. w \in Seq(S) /\ Len(w) = 1 /\ w[1] = c /\ Range(w) = {c}
  BY One
<1> HIDE DEF w
<1>2. a \in Seq(S) /\ IsJoin(a, u, w)
  BY <1>1, JoinIs
<1>3. Range(a) = Range(u) \cup Range(w)
  BY <1>1, JoinedTokens
<1> HIDE DEF a
<1>4. s \in Seq(S) /\ IsJoin(s, a, v)
  BY <1>2, JoinIs
<1>5. Range(s) = Range(a) \cup Range(v)
  BY <1>2, JoinedTokens
<1>6. SubSeq(s, Len(a) + 1, Len(a) + Len(v)) = v
  BY <1>2, CutsBack
<1>7. u \o <<c>> \o v = s
  BY DEF s, a, w
<1> HIDE DEF s
<1> USE DEF IsJoin
<1>8. Len(a) = Len(u) + 1 /\ a[Len(u) + 1] = c
  BY <1>1, <1>2
<1>9. s[Len(u) + 1] = c /\ \A i \in 1 .. Len(u) : s[i] = u[i]
  BY <1>2, <1>4, <1>8
<1>10. \A i \in 1 .. Len(v) : s[Len(u) + 1 + i] = v[i]
  BY <1>4, <1>8
<1>11. SubSeq(s, Len(u) + 2, Len(s)) = v
  <2>1. Len(a) + 1 = Len(u) + 2
    BY <1>2, <1>8
  <2> QED
    BY <1>4, <1>6, <2>1
<1>12. SubSeq(s, 1, Len(u)) = u
  <2> DEFINE t == SubSeq(s, 1, Len(u))
  <2>1. Len(u) <= Len(s) /\ 1 <= Len(u) + 1
    BY <1>2, <1>4, <1>8
  <2>2. t \in Seq(S) /\ Len(t) = Len(u) - 1 + 1 /\ \A i \in 1 .. Len(u) - 1 + 1 : t[i] = s[1 + i - 1]
    BY <1>2, <1>4, <2>1, Cuts
  <2> HIDE DEF t
  <2>3. Len(u) - 1 + 1 = Len(u) /\ \A i \in Int : 1 + i - 1 = i
    BY <1>2
  <2>4. Len(t) = Len(u) /\ \A i \in 1 .. Len(t) : t[i] = u[i]
    BY <1>9, <2>2, <2>3
  <2>5. t = u
    BY <2>2, <2>4, SeqEqual
  <2> QED
    BY <2>5 DEF t
<1>13. Range(s) = Range(u) \cup {c} \cup Range(v)
  BY <1>1, <1>3, <1>5
<1>14. IsAround(s, u, c, v)
  BY <1>2, <1>4, <1>8, <1>9, <1>10, <1>11, <1>12, <1>13 DEF IsAround
<1> QED
  BY <1>4, <1>7, <1>14

\* The first c is found where none is before it.
LEMMA FoundFirst ==
  ASSUME NEW S, NEW u \in Seq(S), NEW c, NEW v \in Seq(S), NEW s \in Seq(S),
         IsAround(s, u, c, v), c \notin Range(u)
  PROVE  c \in Range(s) /\ Before(s, c) = u /\ After(s, c) = v
<1> USE DEF IsAround
<1> DEFINE P == At(s, c)
           k == Min(P)
<1>1. P = {i \in 1 .. Len(s) : s[i] = c}
  BY Tokens DEF At
<1>2. Before(s, c) = SubSeq(s, 1, k - 1) /\ After(s, c) = SubSeq(s, k + 1, Len(s))
  BY DEF Before, After
<1> HIDE DEF P
<1>3. \A i \in 1 .. Len(u) : s[i] # c
  BY Tokens
<1>4. Len(u) + 1 \in P /\ \A i \in P : Len(u) + 1 <= i
  BY <1>1, <1>3
<1>5. P \subseteq Nat /\ P # {}
  BY <1>1, <1>4
<1>6. k \in P /\ \A i \in P : k <= i
  BY <1>5, Smallest
<1> HIDE DEF k
<1>7. k = Len(u) + 1
  <2>1. k \in Nat /\ k <= Len(u) + 1 /\ Len(u) + 1 <= k
    BY <1>4, <1>5, <1>6
  <2> QED
    BY <2>1
<1>8. k - 1 = Len(u) /\ k + 1 = Len(u) + 2
  BY <1>7
<1> QED
  BY <1>2, <1>8

\* The last c is found where none is behind it.
LEMMA FoundLast ==
  ASSUME NEW S, NEW u \in Seq(S), NEW c, NEW v \in Seq(S), NEW s \in Seq(S),
         IsAround(s, u, c, v), c \notin Range(v)
  PROVE  c \in Range(s) /\ BeforeLast(s, c) = u /\ AfterLast(s, c) = v
<1> USE DEF IsAround
<1> DEFINE P == At(s, c)
           k == Max(P)
<1>1. P = {i \in 1 .. Len(s) : s[i] = c}
  BY Tokens DEF At
<1>2. BeforeLast(s, c) = SubSeq(s, 1, k - 1) /\ AfterLast(s, c) = SubSeq(s, k + 1, Len(s))
  BY DEF BeforeLast, AfterLast
<1> HIDE DEF P
<1>3. ASSUME NEW i \in 1 .. Len(s), i > Len(u) + 1 PROVE s[i] # c
  <2>1. i - Len(u) - 1 \in 1 .. Len(v) /\ Len(u) + 1 + (i - Len(u) - 1) = i
    BY <1>3
  <2>2. v[i - Len(u) - 1] \in Range(v)
    <3>1. Range(v) = {v[j] : j \in 1 .. Len(v)}
      BY Tokens
    <3> QED
      BY <2>1, <3>1
  <2> QED
    BY <2>1, <2>2
<1>4. Len(u) + 1 \in P /\ \A i \in P : i <= Len(u) + 1
  <2>1. Len(u) \in Nat /\ Len(u) + 1 \in 1 .. Len(s) /\ s[Len(u) + 1] = c
    BY Tokens
  <2>2. ASSUME NEW i \in P PROVE i <= Len(u) + 1
    <3>1. i \in 1 .. Len(s) /\ s[i] = c
      BY <1>1
    <3>2. ~(i > Len(u) + 1)
      BY <1>3, <3>1
    <3> QED
      BY <2>1, <3>1, <3>2
  <2> QED
    BY <1>1, <2>1, <2>2
<1>5. P \subseteq 0 .. Len(s) /\ P # {} /\ Len(s) \in Nat
  <2>1. Len(s) \in Nat
    BY Tokens
  <2>2. P \subseteq 0 .. Len(s)
    BY <1>1, <2>1
  <2>3. P # {}
    BY <1>4
  <2> QED
    BY <2>1, <2>2, <2>3
<1>6. k \in P /\ \A i \in P : i <= k
  BY <1>5, Greatest
<1> HIDE DEF k
<1>7. k = Len(u) + 1
  <2>1. k \in Nat /\ k <= Len(u) + 1 /\ Len(u) + 1 <= k
    BY <1>4, <1>5, <1>6
  <2> QED
    BY <2>1
<1>8. k - 1 = Len(u) /\ k + 1 = Len(u) + 2
  BY <1>7
<1> QED
  BY <1>2, <1>8

\* A token in front.
LEMMA InFront ==
  ASSUME NEW S, NEW c \in S, NEW v \in Seq(S), NEW s, s = <<c>> \o v
  PROVE  /\ s \in Seq(S) /\ s # <<>> /\ s[1] = c /\ Tail(s) = v /\ Range(s) = {c} \cup Range(v)
<1> DEFINE w == <<c>>
           j == w \o v
<1>1. w \in Seq(S) /\ Len(w) = 1 /\ w[1] = c /\ Range(w) = {c}
  BY One
<1>2. s = j
  OBVIOUS
<1> HIDE DEF w
<1>3. j \in Seq(S) /\ IsJoin(j, w, v)
  BY <1>1, JoinIs
<1>4. Range(j) = Range(w) \cup Range(v)
  BY <1>1, JoinedTokens
<1>5. SubSeq(j, 1, Len(w)) = w /\ SubSeq(j, Len(w) + 1, Len(w) + Len(v)) = v
  BY <1>1, CutsBack
<1> HIDE DEF j
<1>6. j[1] = c /\ Len(j) = 1 + Len(v) /\ Len(v) \in Nat
  BY <1>1, <1>3 DEF IsJoin
<1>7. j # <<>>
  BY <1>3, <1>6
<1>8. Tail(j) = v
  <2>1. Tail(j) = SubSeq(j, 2, Len(j))
    BY <1>3, <1>7, TailIsSubSeq
  <2> QED
    BY <1>1, <1>5, <1>6, <2>1
<1> QED
  BY <1>1, <1>2, <1>3, <1>4, <1>6, <1>7, <1>8

\* What Checked lets through.
LEMMA CheckedIs ==
  ASSUME NEW user, NEW host, NEW ports
  PROVE  /\ ports # {} /\ ~Empty(host) /\ Blank \notin Range(host) =>
              \E p \in ports : Checked(user, host, ports) = Target(user, host, p)
         /\ Checked(user, host, ports) # BadTarget => ports # {} /\ ~Empty(host) /\ Blank \notin Range(host)
<1> QED
  BY DEF Checked, Empty

\* A target is none that is bad, and holds what it was made of.
LEMMA TargetParts ==
  ASSUME NEW user, NEW host, NEW p
  PROVE  /\ Target(user, host, p) # BadTarget
         /\ Target(user, host, p).user = user /\ Target(user, host, p).host = host
         /\ Target(user, host, p).port = p
BY DEF Target, BadTarget

\* A port is a number some word stands for.
Port == {Digits[d] : d \in DOMAIN Digits} \cap 0 .. U16

\* The default port is one, and so is whatever a text stands for.
LEMMA PortsAre == SshPort \in Port /\ \A text : Ports(text) \subseteq Port
<1>1. SshPort \in Port
  <2>1. "22" \in DOMAIN Digits /\ Digits["22"] = SshPort
    BY SshTargetAssumption
  <2>2. U16 \in Nat /\ SshPort <= U16
    BY SshTargetAssumption
  <2>3. SshPort \in 0 .. U16
    BY <2>2 DEF SshPort
  <2> QED
    BY <2>1, <2>3 DEF Port
<1>2. ASSUME NEW text PROVE Ports(text) \subseteq Port
  BY DEF Port, Ports
<1> QED
  BY <1>1, <1>2

\* What parse_target accepts has a user without "@", a host without blanks, and a
\* port.
LEMMA ParsedIs ==
  ASSUME NEW s \in Text, parse_target(s) # BadTarget
  PROVE  \E user \in Text, host \in Text, p \in Port :
           /\ parse_target(s) = Target(user, host, p)
           /\ ~Empty(user) /\ "@" \notin Range(user) /\ Range(user) \subseteq Range(s)
           /\ ~Empty(host) /\ Blank \notin Range(host)
<1> DEFINE user == Before(s, "@")
           rest == After(s, "@")
<1>1. "@" \in Range(s)
  BY DEF parse_target
<1>2. ~Empty(user)
  BY <1>1 DEF parse_target, Empty
<1>3. user \in Text /\ rest \in Text /\ "@" \notin Range(user) /\ Range(user) \subseteq Range(s)
  BY <1>1, CutFirst
<1>0. /\ IsPrefix(<<"[">>, rest) => parse_target(s) = Bracketed(user, rest)
      /\ ~IsPrefix(<<"[">>, rest) /\ ":" \in Range(rest) =>
           parse_target(s) = Checked(user, BeforeLast(rest, ":"), Ports(AfterLast(rest, ":")))
      /\ ~IsPrefix(<<"[">>, rest) /\ ":" \notin Range(rest) =>
           parse_target(s) = Checked(user, rest, {SshPort})
  <2>1. parse_target(s) =
          CASE IsPrefix(<<"[">>, rest) -> Bracketed(user, rest)
            [] ~IsPrefix(<<"[">>, rest) /\ ":" \in Range(rest) ->
                 Checked(user, BeforeLast(rest, ":"), Ports(AfterLast(rest, ":")))
            [] OTHER -> Checked(user, rest, {SshPort})
    BY <1>1, <1>2 DEF parse_target, Empty
  <2> HIDE DEF user, rest
  <2> QED
    BY <2>1
<1> HIDE DEF user, rest
<1>4. ASSUME NEW host \in Text, NEW ports, ports \subseteq Port, parse_target(s) = Checked(user, host, ports)
      PROVE  \E p \in Port : /\ parse_target(s) = Target(user, host, p)
                              /\ ~Empty(host) /\ Blank \notin Range(host)
  <2>1. ports # {} /\ ~Empty(host) /\ Blank \notin Range(host)
    BY <1>4, CheckedIs
  <2>2. PICK p \in ports : Checked(user, host, ports) = Target(user, host, p)
    BY <2>1, CheckedIs
  <2> QED
    BY <1>4, <2>1, <2>2
<1>5. \E host \in Text, ports \in SUBSET Port : parse_target(s) = Checked(user, host, ports)
  <2>1. CASE IsPrefix(<<"[">>, rest)
    <3>1. parse_target(s) = Bracketed(user, rest)
      BY <1>0, <2>1
    <3> DEFINE inside == Tail(rest)
               addr == Before(inside, "]")
               tail == After(inside, "]")
    <3>2. "]" \in Range(rest)
      BY <3>1 DEF Bracketed
    <3>3. rest # <<>> /\ rest[1] = "["
      BY <1>3, <2>1, Tokens DEF IsPrefix, Text
    <3>4. inside \in Text /\ "]" \in Range(inside)
      <4> rest \in Seq(Token)
        BY <1>3 DEF Text
      <4>1. inside \in Seq(Token) /\ Len(inside) = Len(rest) - 1
            /\ \A i \in 1 .. Len(inside) : inside[i] = rest[i + 1]
        BY <3>3, HeadTailProperties
      <4>2. Range(rest) = {rest[i] : i \in 1 .. Len(rest)} /\ Len(rest) \in Nat
        BY Tokens
      <4> HIDE DEF inside
      <4>3. Range(inside) = {inside[i] : i \in 1 .. Len(inside)} /\ Len(inside) \in Nat
        BY <4>1, Tokens
      <4>4. PICK i \in 1 .. Len(rest) : rest[i] = "]"
        BY <3>2, <4>2
      <4>5. i # 1
        BY <3>3, <4>4
      <4>6. i - 1 \in 1 .. Len(inside) /\ i - 1 + 1 = i
        BY <4>1, <4>2, <4>5
      <4> QED
        BY <4>1, <4>3, <4>4, <4>6 DEF Text
    <3>5. addr \in Text /\ tail \in Text
      BY <3>4, CutFirst
    <3>6. CASE tail = <<>>
      BY <3>1, <3>2, <3>5, <3>6, PortsAre DEF Bracketed
    <3>7. CASE tail # <<>>
      <4>1. parse_target(s) = Checked(user, addr, Ports(Tail(tail)))
        BY <3>1, <3>2, <3>7 DEF Bracketed
      <4> QED
        BY <3>5, <4>1, PortsAre
    <3> QED
      BY <3>6, <3>7
  <2>2. CASE ~IsPrefix(<<"[">>, rest) /\ ":" \in Range(rest)
    <3>1. parse_target(s) = Checked(user, BeforeLast(rest, ":"), Ports(AfterLast(rest, ":")))
      BY <1>0, <2>2
    <3>2. BeforeLast(rest, ":") \in Text
      BY <1>3, <2>2, CutLast
    <3> QED
      BY <3>1, <3>2, PortsAre
  <2>3. CASE ~IsPrefix(<<"[">>, rest) /\ ":" \notin Range(rest)
    <3>1. parse_target(s) = Checked(user, rest, {SshPort})
      BY <1>0, <2>3
    <3> QED
      BY <1>3, <3>1, PortsAre
  <2> QED
    BY <2>1, <2>2, <2>3
<1>6. PICK host \in Text, ports \in SUBSET Port : parse_target(s) = Checked(user, host, ports)
  BY <1>5
<1> QED
  BY <1>2, <1>3, <1>4, <1>6

\* Whether a text starts with a token.
LEMMA StartsWith ==
  ASSUME NEW S, NEW s \in Seq(S), Len(s) >= 1, NEW b
  PROVE  IsPrefix(<<b>>, s) <=> s[1] = b
<1> DEFINE e == <<b>>
           t == SubSeq(s, 1, 1)
<1>1. e \in Seq({b}) /\ Len(e) = 1 /\ e[1] = b
  BY One
<1>2. IsPrefix(<<b>>, s) <=> Len(e) <= Len(s) /\ SubSeq(e, 1, Len(e)) = SubSeq(s, 1, Len(e))
  BY DEF IsPrefix
<1> HIDE DEF e
<1>3. SubSeq(e, 1, Len(e)) = e
  BY <1>1, SubSeqFull
<1>4. t \in Seq(S) /\ Len(t) = 1 /\ t[1] = s[1]
  <2>1. 1 \in Nat \ {0} /\ 1 \in Nat /\ 1 <= Len(s) /\ 1 <= 1 + 1
    OBVIOUS
  <2>2. t \in Seq(S) /\ Len(t) = 1 - 1 + 1 /\ \A i \in 1 .. 1 - 1 + 1 : t[i] = s[1 + i - 1]
    BY <2>1, Cuts
  <2> HIDE DEF t
  <2> QED
    BY <2>2
<1>5. IsPrefix(<<b>>, s) <=> e = t
  BY <1>1, <1>2, <1>3
<1> HIDE DEF t
<1>6. s[1] = b => \A i \in 1 .. Len(e) : e[i] = t[i]
  BY <1>1, <1>4
<1>7. e = t => s[1] = b
  BY <1>1, <1>4
<1>8. s[1] = b => e = t
  BY <1>1, <1>4, <1>6, SeqEqual
<1> QED
  BY <1>5, <1>7, <1>8

\* What stands between the parts of a target, and a word for a port, are tokens.
LEMMA Marks ==
  /\ "@" \in Token /\ "[" \in Token /\ "]" \in Token /\ ":" \in Token
  /\ \A d \in DOMAIN Digits : d \in Token /\ d \notin {"@", ":", "[", "]", Blank, "unset"}
<1>1. DOMAIN Digits \subseteq STRING \ {"@", ":", "[", "]", Blank, "unset"}
  BY SshTargetAssumption
<1> QED
  BY <1>1 DEF Token

\* The port a word stands for.
LEMMA PortOf ==
  ASSUME NEW d \in DOMAIN Digits, Digits[d] \in Port
  PROVE  Ports(<<d>>) = {Digits[d]}
<1>1. Len(<<d>>) = 1 /\ <<d>>[1] = d
  OBVIOUS
<1>2. Digits[d] \in 0 .. U16
  BY DEF Port
<1> QED
  BY <1>1, <1>2 DEF Ports

\* A target with one port.
LEMMA CheckedOne ==
  ASSUME NEW user, NEW host, NEW p, ~Empty(host), Blank \notin Range(host)
  PROVE  Checked(user, host, {p}) = Target(user, host, p)
<1>1. {p} # {}
  OBVIOUS
<1> QED
  BY <1>1, CheckedIs

\* Names for a concatenation and for a text of one token.
Then(a, b) == a \o b
Only(c) == <<c>>

\* A text and then another.
LEMMA ThenIs ==
  ASSUME NEW S, NEW a \in Seq(S), NEW b \in Seq(S)
  PROVE  /\ Then(a, b) \in Seq(S) /\ IsJoin(Then(a, b), a, b)
         /\ Range(Then(a, b)) = Range(a) \cup Range(b)
BY JoinIs, JoinedTokens DEF Then

\* A text of one token.
LEMMA OnlyIs ==
  ASSUME NEW S, NEW c \in S
  PROVE  Only(c) \in Seq(S) /\ Len(Only(c)) = 1 /\ Only(c)[1] = c /\ Range(Only(c)) = {c}
BY One DEF Only

\* Concatenation is associative.
LEMMA Regroups ==
  ASSUME NEW S, NEW a \in Seq(S), NEW b \in Seq(S), NEW c \in Seq(S)
  PROVE  Then(Then(a, b), c) = Then(a, Then(b, c))
BY ConcatAssociative DEF Then

\* A token between two texts.
LEMMA ThenAround ==
  ASSUME NEW S, NEW u \in Seq(S), NEW c \in S, NEW v \in Seq(S)
  PROVE  LET s == Then(u, Then(Only(c), v)) IN s \in Seq(S) /\ IsAround(s, u, c, v)
<1> DEFINE s == Then(u, Then(Only(c), v))
<1>1. Only(c) \in Seq(S)
  BY OnlyIs
<1>2. s = Then(Then(u, Only(c)), v)
  BY <1>1, Regroups
<1>3. Then(Then(u, Only(c)), v) = u \o <<c>> \o v
  BY DEF Then, Only
<1> HIDE DEF s
<1>4. s \in Seq(S) /\ IsAround(s, u, c, v)
  BY <1>2, <1>3, Around
<1> QED
  BY <1>4 DEF s

\* A token in front of a text.
LEMMA ThenInFront ==
  ASSUME NEW S, NEW c \in S, NEW v \in Seq(S)
  PROVE  LET s == Then(Only(c), v) IN
         s \in Seq(S) /\ ~Empty(s) /\ s[1] = c /\ Tail(s) = v /\ Range(s) = {c} \cup Range(v)
<1> DEFINE s == Then(Only(c), v)
<1>1. s = <<c>> \o v
  BY DEF Then, Only
<1> HIDE DEF s
<1>2. s \in Seq(S) /\ s # <<>> /\ s[1] = c /\ Tail(s) = v /\ Range(s) = {c} \cup Range(v)
  BY <1>1, InFront
<1> QED
  BY <1>2 DEF s, Empty

\* The same of texts.
LEMMA TextAround ==
  ASSUME NEW u \in Text, NEW c \in Token, NEW v \in Text, NEW s, s = Then(u, Then(Only(c), v))
  PROVE  /\ s \in Text /\ IsAround(s, u, c, v) /\ c \in Range(s)
         /\ c \notin Range(u) => Before(s, c) = u /\ After(s, c) = v
         /\ c \notin Range(v) => BeforeLast(s, c) = u /\ AfterLast(s, c) = v
<1>0. u \in Seq(Token) /\ v \in Seq(Token)
  BY DEF Text
<1>1. s \in Seq(Token) /\ IsAround(s, u, c, v)
  BY <1>0, ThenAround
<1>2. c \in Range(s)
  BY <1>1 DEF IsAround
<1>3. ASSUME c \notin Range(u) PROVE Before(s, c) = u /\ After(s, c) = v
  BY <1>0, <1>1, <1>3, FoundFirst
<1>4. ASSUME c \notin Range(v) PROVE BeforeLast(s, c) = u /\ AfterLast(s, c) = v
  BY <1>0, <1>1, <1>4, FoundLast
<1> QED
  BY <1>1, <1>2, <1>3, <1>4 DEF Text

\* A text that is not empty has a first token, one of its own.
LEMMA FirstToken ==
  ASSUME NEW S, NEW s \in Seq(S), ~Empty(s)
  PROVE  Len(s) \in Nat /\ Len(s) >= 1 /\ s[1] \in Range(s)
BY Tokens DEF Empty

\* Whether a text starts with a bracket.
Opens(rest) == IsPrefix(<<"[">>, rest)

\* It does when its first token is one.
LEMMA OpensIs ==
  ASSUME NEW S, NEW s \in Seq(S), Len(s) >= 1
  PROVE  Opens(s) <=> s[1] = "["
BY StartsWith DEF Opens

\* What parse_target makes of a user and a rest.
LEMMA ParsesRest ==
  ASSUME NEW user \in Text, NEW rest \in Text, ~Empty(user), "@" \notin Range(user),
         NEW s, s = Then(user, Then(Only("@"), rest))
  PROVE  /\ s \in Text
         /\ Opens(rest) => parse_target(s) = Bracketed(user, rest)
         /\ ~Opens(rest) /\ ":" \in Range(rest) =>
              parse_target(s) = Checked(user, BeforeLast(rest, ":"), Ports(AfterLast(rest, ":")))
         /\ ~Opens(rest) /\ ":" \notin Range(rest) =>
              parse_target(s) = Checked(user, rest, {SshPort})
<1>1. s \in Seq(Token) /\ IsAround(s, user, "@", rest)
  BY Marks, ThenAround DEF Text
<1>2. "@" \in Range(s) /\ Before(s, "@") = user /\ After(s, "@") = rest
  BY <1>1, FoundFirst DEF Text
<1>3. parse_target(s) =
        CASE Opens(rest) -> Bracketed(user, rest)
          [] ~Opens(rest) /\ ":" \in Range(rest) ->
               Checked(user, BeforeLast(rest, ":"), Ports(AfterLast(rest, ":")))
          [] OTHER -> Checked(user, rest, {SshPort})
  BY <1>2 DEF parse_target, Empty, Opens
<1> QED
  BY <1>1, <1>3 DEF Text

\* A host before a port.
LEMMA PortedReads ==
  ASSUME NEW user \in Text, NEW host \in Text, NEW d \in DOMAIN Digits, Digits[d] \in Port,
         ~Empty(user), "@" \notin Range(user), ~Empty(host), Blank \notin Range(host), "[" \notin Range(host),
         NEW s, s = Then(user, Then(Only("@"), Then(host, Then(Only(":"), Only(d)))))
  PROVE  parse_target(s) = Target(user, host, Digits[d])
<1> DEFINE word == Only(d)
           rest == Then(host, Then(Only(":"), word))
<1>1. d \in Token /\ d # ":" /\ ":" \in Token
  BY Marks
<1>2. word \in Seq(Token) /\ Range(word) = {d}
  BY <1>1, OnlyIs
<1>7. Ports(word) = {Digits[d]}
  BY PortOf DEF Only
<1>3. rest \in Seq(Token) /\ IsAround(rest, host, ":", word)
  BY <1>1, <1>2, ThenAround DEF Text
<1>4. s = Then(user, Then(Only("@"), rest))
  OBVIOUS
<1> HIDE DEF word, rest
<1>5. ":" \in Range(rest) /\ BeforeLast(rest, ":") = host /\ AfterLast(rest, ":") = word
  <2>1. ":" \notin Range(word) /\ word \in Text
    BY <1>1, <1>2 DEF Text
  <2> QED
    BY <1>1, <2>1, TextAround DEF rest
<1>6. ~Opens(rest)
  <2>1. Len(host) \in Nat /\ Len(host) >= 1 /\ host[1] \in Range(host)
    BY FirstToken DEF Text
  <2>2. host[1] # "["
    BY <2>1
  <2>3. rest[1] = host[1] /\ Len(rest) >= 1
    BY <1>3, <2>1 DEF IsAround
  <2> QED
    BY <1>3, <2>2, <2>3, OpensIs
<1>8. parse_target(s) = Checked(user, host, {Digits[d]})
  <2>1. rest \in Text
    BY <1>3 DEF Text
  <2>2. ":" \in Range(rest)
    BY <1>5
  <2>3. parse_target(s) = Checked(user, BeforeLast(rest, ":"), Ports(AfterLast(rest, ":")))
    BY <2>1, <2>2, <1>4, <1>6, ParsesRest
  <2> QED
    BY <2>3, <1>5, <1>7
<1> QED
  BY <1>7, <1>8, CheckedOne

\* A host without a port.
LEMMA PortlessReads ==
  ASSUME NEW user \in Text, NEW host \in Text,
         ~Empty(user), "@" \notin Range(user), ~Empty(host), Blank \notin Range(host), ":" \notin Range(host), "[" \notin Range(host),
         NEW s, s = Then(user, Then(Only("@"), host))
  PROVE  parse_target(s) = Target(user, host, SshPort)
<1>1. ~Opens(host)
  <2>1. Len(host) \in Nat /\ Len(host) >= 1 /\ host[1] \in Range(host)
    BY FirstToken DEF Text
  <2>2. host[1] # "["
    BY <2>1
  <2> QED
    BY <2>1, <2>2, OpensIs DEF Text
<1>3. parse_target(s) = Checked(user, host, {SshPort})
  BY <1>1, ParsesRest
<1> QED
  BY <1>3, CheckedOne

\* A host in brackets before a port.
LEMMA BracketedReads ==
  ASSUME NEW user \in Text, NEW host \in Text, NEW d \in DOMAIN Digits, Digits[d] \in Port,
         ~Empty(user), "@" \notin Range(user), ~Empty(host), Blank \notin Range(host), "]" \notin Range(host),
         NEW s, s = Then(user, Then(Only("@"),
                      Then(Only("["), Then(host, Then(Only("]"), Then(Only(":"), Only(d)))))))
  PROVE  parse_target(s) = Target(user, host, Digits[d])
<1> DEFINE port == Then(Only(":"), Only(d))
           inside == Then(host, Then(Only("]"), port))
           rest == Then(Only("["), inside)
<1>1. d \in Token /\ "[" \in Token /\ "]" \in Token /\ ":" \in Token
  BY Marks
<1>2. Only(d) \in Seq(Token)
  BY <1>1, OnlyIs
<1>3. port \in Seq(Token) /\ ~Empty(port) /\ port[1] = ":" /\ Tail(port) = Only(d)
  BY <1>1, <1>2, ThenInFront
<1>4. s = Then(user, Then(Only("@"), rest))
  OBVIOUS
<1> HIDE DEF port
<1>5. inside \in Seq(Token) /\ IsAround(inside, host, "]", port)
  BY <1>1, <1>3, ThenAround DEF Text
<1> HIDE DEF inside
<1>6. "]" \in Range(inside) /\ Before(inside, "]") = host /\ After(inside, "]") = port
  BY <1>3, <1>5, FoundFirst DEF Text
<1>7. rest \in Seq(Token) /\ Tail(rest) = inside /\ Range(rest) = {"["} \cup Range(inside) /\ Opens(rest)
  <2>1. rest \in Seq(Token) /\ ~Empty(rest) /\ rest[1] = "[" /\ Tail(rest) = inside
        /\ Range(rest) = {"["} \cup Range(inside)
    <3>1. "[" \in Token /\ inside \in Seq(Token)
      BY <1>1, <1>5
    <3> DEFINE mark == "["
    <3>2. mark \in Token /\ rest = Then(Only(mark), inside) /\ mark = "["
      BY <3>1
    <3> HIDE DEF mark, rest
    <3> QED
      BY <3>1, <3>2, ThenInFront
  <2> HIDE DEF rest
  <2>2. Len(rest) >= 1
    BY <2>1, FirstToken
  <2> QED
    BY <2>1, <2>2, OpensIs
<1> HIDE DEF rest
<1>8. Bracketed(user, rest) = Checked(user, host, Ports(Only(d)))
  <2>1. "]" \in Range(rest)
    BY <1>6, <1>7
  <2> QED
    BY <2>1, <1>3, <1>6, <1>7 DEF Bracketed, Empty
<1>9. Ports(Only(d)) = {Digits[d]}
  BY PortOf DEF Only
<1>10. parse_target(s) = Checked(user, host, {Digits[d]})
  <2>1. rest \in Text
    BY <1>7 DEF Text
  <2> QED
    BY <2>1, <1>4, <1>7, <1>8, <1>9, ParsesRest
<1> QED
  BY <1>9, <1>10, CheckedOne

\* Five texts in a row, grouped from the left and from the right.
LEMMA FiveTexts ==
  ASSUME NEW S, NEW a \in Seq(S), NEW b \in Seq(S), NEW c \in Seq(S), NEW d \in Seq(S), NEW e \in Seq(S)
  PROVE  Then(Then(Then(Then(a, b), c), d), e) = Then(a, Then(b, Then(c, Then(d, e))))
<1>1. Then(a, b) \in Seq(S) /\ Then(Then(a, b), c) \in Seq(S) /\ Then(d, e) \in Seq(S)
  BY ThenIs
<1>2. Then(c, Then(d, e)) \in Seq(S)
  BY <1>1, ThenIs
<1>3. Then(Then(Then(Then(a, b), c), d), e) = Then(Then(Then(a, b), c), Then(d, e))
  BY <1>1, Regroups
<1>4. Then(Then(Then(a, b), c), Then(d, e)) = Then(Then(a, b), Then(c, Then(d, e)))
  BY <1>1, Regroups
<1>5. Then(Then(a, b), Then(c, Then(d, e))) = Then(a, Then(b, Then(c, Then(d, e))))
  BY <1>2, Regroups
<1> QED
  BY <1>3, <1>4, <1>5

\* A target written out in full reads the same.
LEMMA ShownReads ==
  ASSUME NEW user \in Text, NEW host \in Text, NEW p \in Port,
         ~Empty(user), "@" \notin Range(user), ~Empty(host), Blank \notin Range(host), "[" \notin Range(host), "]" \notin Range(host)
  PROVE  parse_target(Show(Target(user, host, p))) = Target(user, host, p)
<1> DEFINE d == CHOOSE d \in DOMAIN Digits : Digits[d] = p
           t == Target(user, host, p)
           bracketed == Then(Then(Only("["), host), Only("]"))
           shown == IF ":" \in Range(host) THEN bracketed ELSE host
<1>1. d \in DOMAIN Digits /\ Digits[d] = p
  BY DEF Port
<1>2. Show(t) = Then(Then(Then(Then(user, Only("@")), shown), Only(":")), Only(d))
  <2>1. t.user = user /\ t.host = host /\ t.port = p
    BY TargetParts
  <2> HIDE DEF t
  <2> QED
    BY <2>1, Zenon DEF Show, Then, Only, shown, bracketed
<1> HIDE DEF d
<1>3. /\ user \in Seq(Token) /\ host \in Seq(Token) /\ Only("@") \in Seq(Token) /\ Only("[") \in Seq(Token)
      /\ Only("]") \in Seq(Token) /\ Only(":") \in Seq(Token) /\ Only(d) \in Seq(Token)
  <2>1. d \in Token /\ "@" \in Token /\ "[" \in Token /\ "]" \in Token /\ ":" \in Token
    BY <1>1, Marks
  <2> QED
    BY <2>1, OnlyIs DEF Text
<1>4. bracketed \in Seq(Token)
  BY <1>3, ThenIs
<1>5. CASE ":" \notin Range(host)
  <2>1. shown = host
    BY <1>5
  <2>2. Show(t) = Then(user, Then(Only("@"), Then(host, Then(Only(":"), Only(d)))))
    <3>1. Show(t) = Then(Then(Then(Then(user, Only("@")), host), Only(":")), Only(d))
      BY <1>2, <2>1
    <3> QED
      BY <1>3, <3>1, FiveTexts
  <2> QED
    BY <1>1, <2>2, PortedReads
<1>6. CASE ":" \in Range(host)
  <2>1. shown = bracketed
    BY <1>6
  <2>2. Show(t) = Then(user, Then(Only("@"), Then(bracketed, Then(Only(":"), Only(d)))))
    <3>1. Show(t) = Then(Then(Then(Then(user, Only("@")), bracketed), Only(":")), Only(d))
      BY <1>2, <2>1
    <3> HIDE DEF bracketed
    <3> QED
      BY <1>3, <1>4, <3>1, FiveTexts
  <2>3. Then(bracketed, Then(Only(":"), Only(d)))
          = Then(Only("["), Then(host, Then(Only("]"), Then(Only(":"), Only(d)))))
    <3> DEFINE port == Then(Only(":"), Only(d))
    <3>1. port \in Seq(Token) /\ Then(Only("["), host) \in Seq(Token)
      BY <1>3, ThenIs
    <3> HIDE DEF port
    <3>2. Then(bracketed, port) = Then(Then(Only("["), host), Then(Only("]"), port))
      BY <1>3, <3>1, Regroups
    <3>3. Then(Only("]"), port) \in Seq(Token)
      BY <1>3, <3>1, ThenIs
    <3>4. Then(Then(Only("["), host), Then(Only("]"), port)) = Then(Only("["), Then(host, Then(Only("]"), port)))
      BY <1>3, <3>3, Regroups
    <3> QED
      BY <3>2, <3>4 DEF port
  <2> QED
    BY <1>1, <2>2, <2>3, BracketedReads
<1> QED
  BY <1>5, <1>6

-----------------------------------------------------------------------------
(* Reading line by line, and token by token.                               *)

\* The two functions a sequence is folded with.
Step(kind, acc, c) == IF kind = "line" THEN take(acc, c) ELSE sh(acc, c)

\* g is a fold over the sets of indices of s.
IsFold(kind, base, s, I, g) ==
  g = [t \in SUBSET I |-> IF t = {} THEN base ELSE Step(kind, g[t \ {Max(t)}], s[Max(t)])]

\* The greatest number of a set that holds the greatest there can be.
LEMMA GreatestOfTop ==
  ASSUME NEW m \in Nat, NEW t, t \subseteq 1 .. m + 1, m + 1 \in t
  PROVE  Max(t) = m + 1
<1>1. Max(t) \in t /\ m + 1 <= Max(t)
  <2>1. t \subseteq 0 .. m + 1 /\ t # {} /\ m + 1 \in Nat
    OBVIOUS
  <2> QED
    BY <2>1, Greatest
<1>2. Max(t) \in 1 .. m + 1
  BY <1>1
<1> QED
  BY <1>1, <1>2

\* A fold over one index more.
LEMMA FoldsOneMore ==
  ASSUME NEW kind, NEW base, NEW s, NEW m \in Nat, NEW g, IsFold(kind, base, s, 1 .. m, g)
  PROVE  \E h : IsFold(kind, base, s, 1 .. m + 1, h)
<1> DEFINE S == SUBSET (1 .. m)
           T == SUBSET (1 .. m + 1)
           top == m + 1
           h == [t \in T |-> IF top \in t THEN Step(kind, g[t \ {top}], s[top]) ELSE g[t]]
<1>1. \A t \in S : g[t] = IF t = {} THEN base ELSE Step(kind, g[t \ {Max(t)}], s[Max(t)])
  BY DEF IsFold
<1>2. ASSUME NEW t \in T, top \in t
      PROVE  t # {} /\ Max(t) = top /\ t \ {top} \in S /\ top \notin t \ {top} /\ t \ {top} \in T
  <2>1. Max(t) = top
    BY <1>2, GreatestOfTop
  <2>2. t # {} /\ top \notin t \ {top} /\ t \ {top} \in T
    BY <1>2
  <2>3. ASSUME NEW i \in t \ {top} PROVE i \in 1 .. m
    OBVIOUS
  <2> QED
    BY <2>1, <2>2, <2>3
<1>3. ASSUME NEW t \in T, top \notin t PROVE t \in S /\ (t # {} => t \ {Max(t)} \in T /\ top \notin t \ {Max(t)})
  <2>1. ASSUME NEW i \in t PROVE i \in 1 .. m
    BY <1>3
  <2>2. ASSUME NEW i PROVE t \ {i} \in T /\ top \notin t \ {i}
    BY <1>3
  <2> QED
    BY <2>1, <2>2
<1> HIDE DEF S, T, top
<1>4. \A t \in T : h[t] = IF top \in t THEN Step(kind, g[t \ {top}], s[top]) ELSE g[t]
  OBVIOUS
<1> DEFINE f == [t \in T |-> IF t = {} THEN base ELSE Step(kind, h[t \ {Max(t)}], s[Max(t)])]
<1>5. ASSUME NEW t \in T PROVE h[t] = IF t = {} THEN base ELSE Step(kind, h[t \ {Max(t)}], s[Max(t)])
  <2>1. CASE top \in t
    <3>1. h[t \ {top}] = g[t \ {top}]
      BY <1>2, <1>4, <2>1
    <3> QED
      BY <1>2, <1>4, <2>1, <3>1
  <2>2. CASE top \notin t
    <3>1. h[t] = IF t = {} THEN base ELSE Step(kind, g[t \ {Max(t)}], s[Max(t)])
      BY <1>1, <1>3, <1>4, <2>2
    <3>2. t # {} => h[t \ {Max(t)}] = g[t \ {Max(t)}]
      BY <1>3, <1>4, <2>2
    <3> QED
      BY <3>1, <3>2
  <2> QED
    BY <2>1, <2>2
<1>6. h = f
  <2>1. h = [t \in T |-> h[t]]
    OBVIOUS
  <2> HIDE DEF h
  <2> QED
    BY <1>5, <2>1
<1> QED
  BY <1>6 DEF IsFold, T, top

\* There is a fold over every sequence.
LEMMA FoldExists ==
  ASSUME NEW kind, NEW base, NEW s, NEW n \in Nat
  PROVE  \E g : IsFold(kind, base, s, 1 .. n, g)
<1> DEFINE Bad == {m \in Nat : ~\E g : IsFold(kind, base, s, 1 .. m, g)}
<1>1. CASE Bad = {}
  BY <1>1
<1>2. CASE Bad # {}
  <2>1. PICK m \in Bad : \A y \in Bad : m <= y
    <3>1. Bad \subseteq Nat
      OBVIOUS
    <3> HIDE DEF Bad
    <3> QED
      BY <1>2, <3>1, Least
  <2>2. m \in Nat /\ ~\E g : IsFold(kind, base, s, 1 .. m, g)
    BY <2>1
  <2>3. m # 0
    <3> DEFINE e == [t \in SUBSET (1 .. 0) |-> base]
    <3>1. IsFold(kind, base, s, 1 .. 0, e)
      <4>1. \A t \in SUBSET (1 .. 0) : t = {}
        OBVIOUS
      <4>2. [t \in SUBSET (1 .. 0) |-> base]
              = [t \in SUBSET (1 .. 0) |-> IF t = {} THEN base ELSE Step(kind, e[t \ {Max(t)}], s[Max(t)])]
        BY <4>1
      <4> QED
        BY <4>2 DEF IsFold
    <3> QED
      BY <2>2, <3>1
  <2>4. m - 1 \in Nat /\ m - 1 \notin Bad /\ m - 1 + 1 = m
    BY <2>1, <2>2, <2>3
  <2>5. PICK g : IsFold(kind, base, s, 1 .. m - 1, g)
    BY <2>4
  <2>6. \E h : IsFold(kind, base, s, 1 .. m - 1 + 1, h)
    <3> HIDE DEF Bad
    <3> QED
      BY <2>4, <2>5, FoldsOneMore
  <2> QED
    BY <2>2, <2>4, <2>6
<1> QED
  BY <1>1, <1>2

\* r records a fold from its start to its end.
IsRun(kind, base, s, r) ==
  /\ r[0] = base
  /\ \A i \in 1 .. Len(s) : r[i] = Step(kind, r[i - 1], s[i])

\* A fold goes through the sequence from its start to its end.
LEMMA FoldRuns ==
  ASSUME NEW kind, NEW base, NEW S, NEW s \in Seq(S), NEW g, IsFold(kind, base, s, DOMAIN s, g)
  PROVE  \E r : IsRun(kind, base, s, r) /\ r[Len(s)] = g[DOMAIN s]
<1>1. Len(s) \in Nat /\ DOMAIN s = 1 .. Len(s)
  BY Tokens
<1> DEFINE n == Len(s)
           r == [i \in 0 .. n |-> g[1 .. i]]
<1>2. \A t \in SUBSET (1 .. n) : g[t] = IF t = {} THEN base ELSE Step(kind, g[t \ {Max(t)}], s[Max(t)])
  BY <1>1 DEF IsFold
<1>3. r[0] = base
  <2>1. 1 .. 0 = {} /\ 0 \in 0 .. n
    BY <1>1
  <2> QED
    BY <1>2, <2>1
<1>4. ASSUME NEW i \in 1 .. n PROVE r[i] = Step(kind, r[i - 1], s[i])
  <2> DEFINE j == i - 1
  <2>1. j \in Nat /\ i = j + 1 /\ i \in 0 .. n /\ j \in 0 .. n
    BY <1>1
  <2>2. 1 .. i \subseteq 1 .. n /\ 1 .. i # {} /\ 1 .. i \ {i} = 1 .. j
    BY <1>1
  <2>3. Max(1 .. i) = i
    <3>1. Max(1 .. j + 1) = j + 1
      <4>1. j + 1 \in 1 .. j + 1
        BY <2>1
      <4> HIDE DEF j
      <4> QED
        BY <2>1, <4>1, GreatestOfTop
    <3> QED
      BY <2>1, <3>1
  <2>4. g[1 .. i] = Step(kind, g[1 .. j], s[i])
    BY <1>2, <2>2, <2>3
  <2> QED
    BY <2>1, <2>4
<1>5. r[n] = g[1 .. n]
  BY <1>1
<1> QED
  BY <1>1, <1>3, <1>4, <1>5 DEF IsRun

\* So does the reading of ~/.ssh/config,
LEMMA LinesRun ==
  ASSUME NEW base, NEW S, NEW s \in Seq(S)
  PROVE  \E r : IsRun("line", base, s, r) /\ r[Len(s)] = FoldLeft(take, base, s)
<1> DEFINE g == CHOOSE g : g = [t \in SUBSET DOMAIN s |->
                                  IF t = {} THEN base ELSE take(g[t \ {Max(t)}], s[Max(t)])]
<1>1. FoldLeft(take, base, s) = g[DOMAIN s]
  BY DEF FoldLeft, MapThenFoldSet
<1>2. Len(s) \in Nat /\ DOMAIN s = 1 .. Len(s)
  BY Tokens
<1>3. PICK h : IsFold("line", base, s, DOMAIN s, h)
  BY <1>2, FoldExists
<1>4. h = [t \in SUBSET DOMAIN s |-> IF t = {} THEN base ELSE take(h[t \ {Max(t)}], s[Max(t)])]
  BY <1>3 DEF IsFold, Step
<1>5. g = [t \in SUBSET DOMAIN s |-> IF t = {} THEN base ELSE take(g[t \ {Max(t)}], s[Max(t)])]
  BY <1>4
<1>6. IsFold("line", base, s, DOMAIN s, g)
  <2> HIDE DEF g
  <2> QED
    BY <1>5 DEF IsFold, Step
<1> HIDE DEF g
<1> QED
  BY <1>1, <1>6, FoldRuns

\* and so does the shell.
LEMMA TokensRun ==
  ASSUME NEW base, NEW S, NEW s \in Seq(S)
  PROVE  \E r : IsRun("token", base, s, r) /\ r[Len(s)] = FoldLeft(sh, base, s)
<1> DEFINE g == CHOOSE g : g = [t \in SUBSET DOMAIN s |->
                                  IF t = {} THEN base ELSE sh(g[t \ {Max(t)}], s[Max(t)])]
<1>1. FoldLeft(sh, base, s) = g[DOMAIN s]
  BY DEF FoldLeft, MapThenFoldSet
<1>2. Len(s) \in Nat /\ DOMAIN s = 1 .. Len(s)
  BY Tokens
<1>3. PICK h : IsFold("token", base, s, DOMAIN s, h)
  BY <1>2, FoldExists
<1>4. h = [t \in SUBSET DOMAIN s |-> IF t = {} THEN base ELSE sh(h[t \ {Max(t)}], s[Max(t)])]
  BY <1>3 DEF IsFold, Step
<1>5. g = [t \in SUBSET DOMAIN s |-> IF t = {} THEN base ELSE sh(g[t \ {Max(t)}], s[Max(t)])]
  BY <1>4
<1>6. IsFold("token", base, s, DOMAIN s, g)
  <2> HIDE DEF g
  <2> QED
    BY <1>5 DEF IsFold, Step
<1> HIDE DEF g
<1> QED
  BY <1>1, <1>6, FoldRuns

-----------------------------------------------------------------------------
(* The shell.                                                              *)

Nil == <<>>

\* The empty text changes nothing.
LEMMA ThenNil ==
  ASSUME NEW S, NEW a \in Seq(S)
  PROVE  Nil \in Seq(S) /\ Len(Nil) = 0 /\ Then(Nil, a) = a /\ Then(a, Nil) = a
<1>1. Nil \in Seq(S) /\ Len(Nil) = 0
  BY EmptySeq DEF Nil
<1>2. Nil \o a = a /\ a \o Nil = a
  BY ConcatEmptySeq DEF Nil
<1> QED
  BY <1>1, <1>2, Zenon DEF Then

\* F holds the first i sequences of q joined, for every i.
IsFlat(F, q, n) == F = [i \in 1 .. n |-> IF i = 1 THEN q[i] ELSE F[i - 1] \o q[i]]

\* One sequence more to join.
LEMMA FlatOneMore ==
  ASSUME NEW q, NEW n \in Nat, NEW F, IsFlat(F, q, n)
  PROVE  \E G : IsFlat(G, q, n + 1)
<1> DEFINE top == n + 1
           G == [i \in 1 .. top |-> IF i = top THEN IF i = 1 THEN q[i] ELSE F[n] \o q[i] ELSE F[i]]
           H == [i \in 1 .. top |-> IF i = 1 THEN q[i] ELSE G[i - 1] \o q[i]]
<1>1. ASSUME NEW i \in 1 .. top PROVE G[i] = IF i = 1 THEN q[i] ELSE G[i - 1] \o q[i]
  <2>1. CASE i = top
    <3>1. i # 1 => n \in 1 .. top /\ n # top /\ i - 1 = n
      BY <2>1
    <3>2. i # 1 => G[i - 1] = F[n]
      BY <3>1
    <3> QED
      BY <2>1, <3>2
  <2>2. CASE i # top
    <3>1. i \in 1 .. n /\ (i # 1 => i - 1 \in 1 .. n)
      BY <2>2
    <3>2. F[i] = IF i = 1 THEN q[i] ELSE F[i - 1] \o q[i]
      BY <3>1 DEF IsFlat
    <3>3. G[i] = F[i] /\ (i # 1 => G[i - 1] = F[i - 1])
      BY <2>2, <3>1
    <3> QED
      BY <3>2, <3>3
  <2> QED
    BY <2>1, <2>2
<1>2. G = [i \in 1 .. top |-> G[i]]
  OBVIOUS
<1>3. G = H
  <2> HIDE DEF G, top
  <2> QED
    BY <1>1, <1>2
<1> HIDE DEF G
<1> QED
  BY <1>3 DEF IsFlat

\* However many sequences, they can be joined.
LEMMA FlatExists ==
  ASSUME NEW q, NEW n \in Nat
  PROVE  \E F : IsFlat(F, q, n)
<1> DEFINE Bad == {m \in Nat : ~\E F : IsFlat(F, q, m)}
<1>1. CASE Bad = {}
  BY <1>1
<1>2. CASE Bad # {}
  <2>1. PICK m \in Bad : \A y \in Bad : m <= y
    <3>1. Bad \subseteq Nat
      OBVIOUS
    <3> HIDE DEF Bad
    <3> QED
      BY <1>2, <3>1, Least
  <2>2. m \in Nat /\ ~\E F : IsFlat(F, q, m)
    BY <2>1
  <2>3. m # 0
    <3> DEFINE E == [i \in 1 .. 0 |-> q[i]]
    <3>1. IsFlat(E, q, 0)
      BY DEF IsFlat
    <3> QED
      BY <2>2, <3>1
  <2>4. m - 1 \in Nat /\ m - 1 \notin Bad /\ m - 1 + 1 = m
    BY <2>1, <2>2, <2>3
  <2>5. PICK F : IsFlat(F, q, m - 1)
    BY <2>4
  <2>6. \E G : IsFlat(G, q, m - 1 + 1)
    <3> HIDE DEF Bad
    <3> QED
      BY <2>4, <2>5, FlatOneMore
  <2> QED
    BY <2>2, <2>4, <2>6
<1> QED
  BY <1>1, <1>2

\* J joins the sequences of q, one after another.
Joined(S, J, q) ==
  /\ J[0] = Nil /\ \A i \in 0 .. Len(q) : J[i] \in Seq(S)
  /\ \A i \in 1 .. Len(q) : J[i] = Then(J[i - 1], q[i])

\* FlattenSeq is the last of the joins.
LEMMA Flattens ==
  ASSUME NEW S, NEW q \in Seq(Seq(S))
  PROVE  \E J : Joined(S, J, q) /\ FlattenSeq(q) = J[Len(q)]
<1> DEFINE n == Len(q)
           F == CHOOSE F : F = [i \in 1 .. n |-> IF i = 1 THEN q[i] ELSE F[i - 1] \o q[i]]
           J == [i \in 0 .. n |-> IF i = 0 THEN Nil ELSE F[i]]
<1>1. n \in Nat /\ \A i \in 1 .. n : q[i] \in Seq(S)
  BY Tokens
<1>2. FlattenSeq(q) = IF n = 0 THEN q ELSE F[n]
  BY DEF FlattenSeq
<1>3. n = 0 => q = Nil
  BY EmptySeq DEF Nil
<1>4. IsFlat(F, q, n)
  <2>1. \E G : IsFlat(G, q, n)
    BY <1>1, FlatExists
  <2> QED
    BY <2>1 DEF IsFlat
<1> HIDE DEF F, n
<1>5. \A i \in 1 .. n : F[i] = IF i = 1 THEN q[i] ELSE F[i - 1] \o q[i]
  BY <1>4 DEF IsFlat
<1>6. \A i \in 2 .. n : F[i] = Then(F[i - 1], q[i])
  <2> SUFFICES ASSUME NEW i \in 2 .. n PROVE F[i] = Then(F[i - 1], q[i])
    OBVIOUS
  <2>1. i \in 1 .. n /\ i # 1
    BY <1>1
  <2>2. F[i] = F[i - 1] \o q[i]
    BY <1>5, <2>1
  <2> QED
    BY <2>2 DEF Then
<1>7. n >= 1 => F[1] = Then(Nil, q[1])
  BY <1>1, <1>5, ThenNil
<1>8. \A i \in 1 .. n : J[i] = Then(J[i - 1], q[i])
  <2> SUFFICES ASSUME NEW i \in 1 .. n PROVE J[i] = Then(J[i - 1], q[i])
    OBVIOUS
  <2>1. J[i] = F[i] /\ J[i - 1] = IF i = 1 THEN Nil ELSE F[i - 1]
    BY <1>1
  <2> QED
    BY <1>1, <1>6, <1>7, <2>1
<1>9. J[0] = Nil /\ J[n] = IF n = 0 THEN Nil ELSE F[n]
  BY <1>1
<1> HIDE DEF J
<1>10. \A i \in 0 .. n : J[i] \in Seq(S)
  <2> DEFINE Bad == {i \in 0 .. n : J[i] \notin Seq(S)}
  <2> SUFFICES ASSUME Bad # {} PROVE FALSE
    OBVIOUS
  <2>1. PICK i \in Bad : \A j \in Bad : i <= j
    <3>1. Bad \subseteq Nat
      OBVIOUS
    <3> HIDE DEF Bad
    <3> QED
      BY <3>1, Least
  <2>2. i # 0
    BY <1>9, <2>1, EmptySeq DEF Nil
  <2>3. i \in 1 .. n /\ i - 1 \in 0 .. n /\ i - 1 \notin Bad
    BY <1>1, <2>1, <2>2
  <2>4. J[i - 1] \in Seq(S) /\ q[i] \in Seq(S) /\ J[i] = Then(J[i - 1], q[i])
    BY <1>1, <1>8, <2>3
  <2>5. J[i] \in Seq(S)
    <3> HIDE DEF Bad
    <3> QED
      BY <2>4, ThenIs
  <2> QED
    BY <2>1, <2>5
<1>11. Joined(S, J, q)
  BY <1>8, <1>9, <1>10 DEF Joined, n
<1>12. FlattenSeq(q) = J[n]
  BY <1>2, <1>3, <1>9
<1> QED
  BY <1>11, <1>12 DEF n

\* Reading s takes the shell from a to b.
Leads(a, s, b) == \E r : IsRun("token", a, s, r) /\ r[Len(s)] = b

\* Reading nothing,
LEMMA LeadsNil ==
  ASSUME NEW a
  PROVE  Leads(a, Nil, a)
<1> DEFINE r == [i \in 0 .. 0 |-> a]
<1>1. Len(Nil) = 0 /\ r[0] = a
  BY DEF Nil
<1> HIDE DEF r
<1> QED
  BY <1>1 DEF Leads, IsRun

\* one token,
LEMMA LeadsOne ==
  ASSUME NEW S, NEW c \in S, NEW a
  PROVE  Leads(a, Only(c), sh(a, c))
<1> DEFINE r == [i \in 0 .. 1 |-> IF i = 0 THEN a ELSE sh(a, c)]
<1>1. Len(Only(c)) = 1 /\ Only(c)[1] = c
  BY OnlyIs
<1>2. r[0] = a /\ r[1] = Step("token", r[0], c)
  BY DEF Step
<1> HIDE DEF r
<1>3. r[1] = sh(a, c)
  BY <1>2 DEF Step
<1> QED
  BY <1>1, <1>2, <1>3 DEF Leads, IsRun

\* and one text after another.
LEMMA LeadsOn ==
  ASSUME NEW S, NEW s \in Seq(S), NEW t \in Seq(S), NEW a, NEW b, NEW c, Leads(a, s, b), Leads(b, t, c)
  PROVE  Leads(a, Then(s, t), c)
<1> DEFINE n == Len(s)
           m == Len(t)
           j == Then(s, t)
<1>1. PICK p : IsRun("token", a, s, p) /\ p[n] = b
  BY DEF Leads
<1>2. PICK q : IsRun("token", b, t, q) /\ q[m] = c
  BY DEF Leads
<1>3. /\ n \in Nat /\ m \in Nat /\ Len(j) = n + m
      /\ \A i \in 1 .. n : j[i] = s[i]
      /\ \A i \in 1 .. m : j[n + i] = t[i]
  <2>1. IsJoin(j, s, t)
    BY ThenIs
  <2> HIDE DEF j
  <2> QED
    BY <2>1 DEF IsJoin
<1>4. p[0] = a /\ \A i \in 1 .. n : p[i] = Step("token", p[i - 1], s[i])
  BY <1>1 DEF IsRun
<1>5. q[0] = b /\ \A i \in 1 .. m : q[i] = Step("token", q[i - 1], t[i])
  BY <1>2 DEF IsRun
<1> HIDE DEF n, m, j
<1> DEFINE r == [i \in 0 .. n + m |-> IF i <= n THEN p[i] ELSE q[i - n]]
<1>6. \A i \in 0 .. n : r[i] = p[i]
  BY <1>3
<1>7. \A i \in 0 .. m : r[n + i] = q[i]
  <2> SUFFICES ASSUME NEW i \in 0 .. m PROVE r[n + i] = q[i]
    OBVIOUS
  <2>1. n + i \in 0 .. n + m /\ (n + i <= n => i = 0) /\ n + i - n = i
    BY <1>3
  <2> QED
    BY <1>1, <1>3, <1>5, <2>1
<1> HIDE DEF r
<1>8. ASSUME NEW i \in 1 .. n + m PROVE r[i] = Step("token", r[i - 1], j[i])
  <2>1. CASE i <= n
    <3>1. i \in 1 .. n /\ i \in 0 .. n /\ i - 1 \in 0 .. n
      BY <1>3, <2>1
    <3> QED
      BY <1>3, <1>4, <1>6, <3>1
  <2>2. CASE i > n
    <3> DEFINE k == i - n
    <3>1. k \in 1 .. m /\ k \in 0 .. m /\ k - 1 \in 0 .. m /\ i = n + k /\ i - 1 = n + (k - 1)
      BY <1>3, <2>2
    <3> HIDE DEF k
    <3>2. r[i] = q[k] /\ r[i - 1] = q[k - 1] /\ j[i] = t[k]
      BY <1>3, <1>7, <3>1
    <3> QED
      BY <1>5, <3>1, <3>2
  <2> QED
    BY <1>3, <2>1, <2>2
<1>9. r[0] = a /\ r[n + m] = c
  BY <1>2, <1>3, <1>4, <1>6, <1>7
<1>10. IsRun("token", a, j, r) /\ r[Len(j)] = c
  BY <1>3, <1>8, <1>9 DEF IsRun
<1> QED
  BY <1>10 DEF Leads, j

\* To one state only.
LEMMA LeadsToOne ==
  ASSUME NEW S, NEW s \in Seq(S), NEW a, NEW b, NEW c, Leads(a, s, b), Leads(a, s, c)
  PROVE  b = c
<1> DEFINE n == Len(s)
<1>0. n \in Nat
  BY Tokens
<1>1. PICK p : IsRun("token", a, s, p) /\ p[n] = b
  BY DEF Leads
<1>2. PICK q : IsRun("token", a, s, q) /\ q[n] = c
  BY DEF Leads
<1> DEFINE Bad == {i \in 0 .. n : p[i] # q[i]}
<1>3. CASE Bad = {}
  BY <1>0, <1>1, <1>2, <1>3
<1>4. CASE Bad # {}
  <2>1. PICK i \in Bad : \A j \in Bad : i <= j
    <3>1. Bad \subseteq Nat
      BY <1>0
    <3> HIDE DEF Bad
    <3> QED
      BY <1>4, <3>1, Least
  <2>2. p[0] = a /\ q[0] = a
    BY <1>1, <1>2 DEF IsRun
  <2>3. i \in 1 .. n /\ i - 1 \in 0 .. n /\ i - 1 \notin Bad
    BY <1>0, <2>1, <2>2
  <2>4. p[i] = Step("token", p[i - 1], s[i]) /\ q[i] = Step("token", q[i - 1], s[i])
    BY <1>1, <1>2, <2>3 DEF IsRun
  <2>5. p[i - 1] = q[i - 1]
    BY <2>3
  <2>6. p[i] = q[i]
    BY <2>4, <2>5
  <2> QED
    BY <2>1, <2>6
<1> QED
  BY <1>3, <1>4

\* And that is the state ShellWords looks at.
LEMMA ShellReads ==
  ASSUME NEW S, NEW s \in Seq(S), NEW a, NEW b, Leads(a, s, b)
  PROVE  FoldLeft(sh, a, s) = b
<1>1. Leads(a, s, FoldLeft(sh, a, s))
  BY TokensRun DEF Leads
<1> QED
  BY <1>1, LeadsToOne

\* A token that is a word to the shell.
Plainly == Token \ {Quote, Backslash, Blank}

\* What the shell looks for is a token each; an option is a word.
LEMMA ShellMarks ==
  /\ Quote \in Token /\ Backslash \in Token /\ Blank \in Token
  /\ Quote # Backslash /\ Quote # Blank /\ Backslash # Blank
  /\ "--stream-window" \in Plainly /\ "--allow" \in Plainly /\ "4194304" \in Plainly
  /\ STRING \subseteq Token
<1>1. Quote # Backslash /\ Quote # Blank /\ Backslash # Blank
  BY Zenon DEF Quote, Backslash, Blank
<1>2. "--stream-window" # Quote /\ "--allow" # Quote /\ "4194304" # Quote
  BY Zenon DEF Quote
<1>3. "--stream-window" # Backslash /\ "--allow" # Backslash /\ "4194304" # Backslash
  BY Zenon DEF Backslash
<1>4. "--stream-window" # Blank /\ "--allow" # Blank /\ "4194304" # Blank
  BY Zenon DEF Blank
<1> QED
  BY <1>1, <1>2, <1>3, <1>4 DEF Token, Plainly

\* The shell between two tokens.
State(at, word, words) == [at |-> at, word |-> word, words |-> words]

Moves(a, to, x) == [a EXCEPT !.at = to, !.word = x]

\* A move leaves the words before it alone.
LEMMA Moved ==
  ASSUME NEW at, NEW w, NEW words, NEW to, NEW x
  PROVE  Moves(State(at, w, words), to, x) = State(to, x, words)
<1> DEFINE a == State(at, w, words)
           R == [at : {to}, word : {x}, words : {words}]
<1>1. a \in [at : {at}, word : {w}, words : {words}]
  BY DEF State
<1> HIDE DEF a
<1>2. Moves(a, to, x) \in R
  BY <1>1 DEF Moves
<1>3. ASSUME NEW r \in R PROVE r = State(to, x, words)
  BY DEF State
<1> QED
  BY <1>2, <1>3 DEF a

\* To append is to add a text of one token.
LEMMA AppendThen ==
  ASSUME NEW S, NEW s \in Seq(S), NEW c \in S
  PROVE  Append(s, c) = Then(s, Only(c))
BY AppendIsConcat DEF Then, Only

\* A quote opens and closes.
LEMMA Opened ==
  ASSUME NEW at \in {"blank", "word"}, NEW w, NEW W
  PROVE  sh(State(at, w, W), Quote) = State("quoted", w, W)
<1>1. State(at, w, W).at = at /\ [State(at, w, W) EXCEPT !.at = "quoted"] = State("quoted", w, W)
  BY DEF State
<1> DEFINE a == State(at, w, W)
<1> HIDE DEF a
<1>2. a.at = at => sh(a, Quote) = [a EXCEPT !.at = "quoted"]
  BY ShellMarks DEF sh
<1> QED
  BY <1>1, <1>2 DEF a

\* The same quote ends what it began.
LEMMA Closed ==
  ASSUME NEW w, NEW W
  PROVE  sh(State("quoted", w, W), Quote) = State("word", w, W)
<1>1. State("quoted", w, W).at = "quoted" /\ [State("quoted", w, W) EXCEPT !.at = "word"] = State("word", w, W)
  BY DEF State
<1> DEFINE a == State("quoted", w, W)
<1> HIDE DEF a
<1>2. a.at = "quoted" => sh(a, Quote) = [a EXCEPT !.at = "word"]
  BY DEF sh
<1> QED
  BY <1>1, <1>2 DEF a

\* A token between quotes, behind a backslash, or a word, is added.
LEMMA Added ==
  ASSUME NEW w \in Text, NEW W, NEW c \in Token
  PROVE  /\ c # Quote => sh(State("quoted", w, W), c) = State("quoted", Then(w, Only(c)), W)
         /\ sh(State("escape", w, W), c) = State("word", Then(w, Only(c)), W)
         /\ c \in Plainly => sh(State("blank", w, W), c) = State("word", Then(w, Only(c)), W)
<1>1. Append(w, c) = Then(w, Only(c))
  BY AppendThen DEF Text
<1>2. ASSUME c # Quote PROVE sh(State("quoted", w, W), c) = State("quoted", Then(w, Only(c)), W)
  <2> DEFINE a == State("quoted", w, W)
  <2>1. a.at = "quoted" /\ a.word = w
    BY DEF State
  <2>2. [a EXCEPT !.word = Append(w, c)] = State("quoted", Append(w, c), W)
    BY DEF State
  <2> HIDE DEF a
  <2>3. sh(a, c) = [a EXCEPT !.word = Append(@, c)]
    BY <1>2, <2>1 DEF sh
  <2>4. sh(a, c) = [a EXCEPT !.word = Append(w, c)]
    BY <2>1, <2>3
  <2> QED
    BY <1>1, <2>2, <2>4 DEF a
<1>3. sh(State("escape", w, W), c) = State("word", Then(w, Only(c)), W)
  <2> DEFINE a == State("escape", w, W)
  <2>1. a.at = "escape" /\ a.word = w
    BY DEF State
  <2>2. Moves(a, "word", Append(w, c)) = State("word", Append(w, c), W)
    BY Moved
  <2> HIDE DEF a
  <2>3. sh(a, c) = Moves(a, "word", Append(a.word, c))
    BY <2>1 DEF sh, Moves
  <2>4. sh(a, c) = Moves(a, "word", Append(w, c))
    BY <2>1, <2>3
  <2> QED
    BY <1>1, <2>2, <2>4 DEF a
<1>4. ASSUME c \in Plainly PROVE sh(State("blank", w, W), c) = State("word", Then(w, Only(c)), W)
  <2> DEFINE a == State("blank", w, W)
  <2>1. a.at = "blank" /\ a.word = w
    BY DEF State
  <2>2. Moves(a, "word", Append(w, c)) = State("word", Append(w, c), W)
    BY Moved
  <2> HIDE DEF a
  <2>3. sh(a, c) = Moves(a, "word", Append(a.word, c))
    BY <1>4, <2>1 DEF sh, Plainly, Moves
  <2>4. sh(a, c) = Moves(a, "word", Append(w, c))
    BY <2>1, <2>3
  <2> QED
    BY <1>1, <2>2, <2>4 DEF a
<1> QED
  BY <1>2, <1>3, <1>4

\* A backslash outside quotes.
LEMMA Escaped ==
  ASSUME NEW w, NEW W
  PROVE  sh(State("word", w, W), Backslash) = State("escape", w, W)
<1>1. State("word", w, W).at = "word" /\ [State("word", w, W) EXCEPT !.at = "escape"] = State("escape", w, W)
  BY DEF State
<1> DEFINE a == State("word", w, W)
<1> HIDE DEF a
<1>2. a.at = "word" => sh(a, Backslash) = [a EXCEPT !.at = "escape"]
  BY ShellMarks DEF sh
<1> QED
  BY <1>1, <1>2 DEF a

\* A blank ends a word.
LEMMA Ended ==
  ASSUME NEW w \in Text, NEW W \in Seq(Text)
  PROVE  sh(State("word", w, W), Blank) = State("blank", Nil, Then(W, Only(w)))
<1>1. State("word", w, W).at = "word" /\ State("word", w, W).word = w /\ State("word", w, W).words = W
  BY DEF State
<1>2. Append(W, w) = Then(W, Only(w))
  BY AppendThen
<1> DEFINE a == State("word", w, W)
<1> HIDE DEF a
<1>3. a.at = "word" => sh(a, Blank) = [at |-> "blank", word |-> <<>>, words |-> Append(a.words, a.word)]
  BY ShellMarks DEF sh
<1> QED
  BY <1>1, <1>2, <1>3 DEF a, State, Nil

\* Four tokens, as a sequence and as a text.
LEMMA FourTokens ==
  ASSUME NEW S, NEW a \in S, NEW b \in S, NEW c \in S, NEW d \in S
  PROVE  /\ <<a, b, c, d>> \in Seq(S)
         /\ <<a, b, c, d>> = Then(Only(a), Then(Only(b), Then(Only(c), Only(d))))
<1> DEFINE t == <<a, b, c, d>>
           u == Then(Only(c), Only(d))
           v == Then(Only(b), u)
           w == Then(Only(a), v)
<1>1. t \in Seq(S) /\ Len(t) = 4 /\ t[1] = a /\ t[2] = b /\ t[3] = c /\ t[4] = d
  OBVIOUS
<1> HIDE DEF t
<1>2. /\ Only(a) \in Seq(S) /\ Len(Only(a)) = 1 /\ Only(a)[1] = a
      /\ Only(b) \in Seq(S) /\ Len(Only(b)) = 1 /\ Only(b)[1] = b
      /\ Only(c) \in Seq(S) /\ Len(Only(c)) = 1 /\ Only(c)[1] = c
      /\ Only(d) \in Seq(S) /\ Len(Only(d)) = 1 /\ Only(d)[1] = d
  BY OnlyIs
<1>3. u \in Seq(S) /\ IsJoin(u, Only(c), Only(d))
  BY <1>2, ThenIs
<1> HIDE DEF u
<1>4. v \in Seq(S) /\ IsJoin(v, Only(b), u)
  BY <1>2, <1>3, ThenIs
<1> HIDE DEF v
<1>5. w \in Seq(S) /\ IsJoin(w, Only(a), v)
  BY <1>2, <1>4, ThenIs
<1> HIDE DEF w
<1>6. Len(u) = 2 /\ u[1] = c /\ u[2] = d
  BY <1>2, <1>3 DEF IsJoin
<1>7. Len(v) = 3 /\ v[1] = b /\ v[2] = c /\ v[3] = d
  BY <1>2, <1>4, <1>6 DEF IsJoin
<1>8. Len(w) = 4 /\ w[1] = a /\ w[2] = b /\ w[3] = c /\ w[4] = d
  BY <1>2, <1>5, <1>7 DEF IsJoin
<1>9. \A i \in 1 .. 4 : t[i] = w[i]
  BY <1>1, <1>8
<1>10. t = w
  BY <1>1, <1>5, <1>8, <1>9, SeqEqual
<1> QED
  BY <1>1, <1>10 DEF t, u, v, w

\* How shell_quote writes a token, and what the shell makes of it between quotes.
Piece(c) == IF c = Quote THEN <<Quote, Backslash, Quote, Quote>> ELSE <<c>>

\* A token is written as itself, a quote as four tokens.
LEMMA PieceIs ==
  ASSUME NEW c \in Token
  PROVE  /\ Piece(c) \in Text
         /\ c # Quote => Piece(c) = Only(c)
         /\ c = Quote => Piece(c) = Then(Only(Quote), Then(Only(Backslash), Then(Only(Quote), Only(Quote))))
<1>1. Quote \in Token /\ Backslash \in Token
  BY ShellMarks
<1>2. ASSUME c # Quote PROVE Piece(c) = Only(c) /\ Only(c) \in Text
  <2>1. Only(c) \in Seq(Token)
    BY OnlyIs
  <2> QED
    BY <1>2, <2>1 DEF Piece, Only, Text
<1>3. ASSUME c = Quote
      PROVE  /\ Piece(c) = Then(Only(Quote), Then(Only(Backslash), Then(Only(Quote), Only(Quote))))
             /\ Piece(c) \in Text
  <2> DEFINE q == Quote
             b == Backslash
  <2>1. q \in Token /\ b \in Token
    BY <1>1
  <2>2. Piece(c) = <<q, b, q, q>>
    BY <1>3 DEF Piece
  <2> HIDE DEF q, b
  <2> QED
    BY <2>1, <2>2, FourTokens DEF Text, q, b
<1> QED
  BY <1>2, <1>3

\* Either way the shell adds the token to the word.
LEMMA PieceReads ==
  ASSUME NEW c \in Token, NEW w \in Text, NEW W
  PROVE  Leads(State("quoted", w, W), Piece(c), State("quoted", Then(w, Only(c)), W))
<1> DEFINE a == State("quoted", w, W)
           z == State("quoted", Then(w, Only(c)), W)
<1>1. CASE c # Quote
  <2>1. sh(a, c) = z
    BY <1>1, Added
  <2>2. Leads(a, Only(c), sh(a, c))
    BY LeadsOne
  <2> QED
    BY <1>1, <2>1, <2>2, PieceIs
<1>2. CASE c = Quote
  <2> DEFINE b == State("word", w, W)
             d == State("escape", w, W)
             e == State("word", Then(w, Only(Quote)), W)
  <2>0. Quote \in Token /\ Backslash \in Token
    BY ShellMarks
  <2>1. sh(a, Quote) = b /\ sh(b, Backslash) = d /\ sh(d, Quote) = e /\ sh(e, Quote) = z
    <3>1. sh(a, Quote) = b
      BY Closed
    <3>2. sh(b, Backslash) = d
      BY Escaped
    <3>3. sh(d, Quote) = e
      BY <2>0, Added
    <3>4. sh(e, Quote) = z
      BY <1>2, Opened
    <3> QED
      BY <3>1, <3>2, <3>3, <3>4
  <2> HIDE DEF a, b, d, e, z
  <2>2. Leads(a, Only(Quote), b) /\ Leads(b, Only(Backslash), d) /\ Leads(d, Only(Quote), e) /\ Leads(e, Only(Quote), z)
    BY <2>0, <2>1, LeadsOne
  <2> DEFINE oq == Only(Quote)
             ob == Only(Backslash)
  <2>3. oq \in Seq(Token) /\ ob \in Seq(Token)
    BY <2>0, OnlyIs
  <2> HIDE DEF oq, ob
  <2>4. Then(oq, oq) \in Seq(Token) /\ Leads(d, Then(oq, oq), z)
    BY <2>2, <2>3, ThenIs, LeadsOn DEF oq
  <2>5. Then(ob, Then(oq, oq)) \in Seq(Token) /\ Leads(b, Then(ob, Then(oq, oq)), z)
    BY <2>2, <2>3, <2>4, ThenIs, LeadsOn DEF ob
  <2>6. Leads(a, Then(oq, Then(ob, Then(oq, oq))), z)
    BY <2>2, <2>3, <2>5, LeadsOn DEF oq
  <2> QED
    BY <1>2, <2>6, PieceIs DEF oq, ob, a, z
<1> QED
  BY <1>1, <1>2

\* The tokens of a text up to the i-th.
LEMMA UpTo ==
  ASSUME NEW S, NEW s \in Seq(S)
  PROVE  \E P : /\ P[0] = Nil /\ P[Len(s)] = s
                /\ \A i \in 0 .. Len(s) : P[i] \in Seq(S)
                /\ \A i \in 1 .. Len(s) : P[i] = Then(P[i - 1], Only(s[i]))
<1> DEFINE n == Len(s)
           P == [i \in 0 .. n |-> SubSeq(s, 1, i)]
<1>1. n \in Nat /\ \A i \in 1 .. n : s[i] \in S
  BY Tokens
<1>2. ASSUME NEW i \in 0 .. n
      PROVE  P[i] \in Seq(S) /\ Len(P[i]) = i /\ \A k \in 1 .. i : P[i][k] = s[k]
  <2>1. 1 \in Nat \ {0} /\ i \in Nat /\ i <= Len(s) /\ 1 <= i + 1 /\ P[i] = SubSeq(s, 1, i)
    BY <1>1
  <2>2. /\ P[i] \in Seq(S) /\ Len(P[i]) = i - 1 + 1
        /\ \A k \in 1 .. i - 1 + 1 : P[i][k] = s[1 + k - 1]
    BY <2>1, Cuts
  <2>3. i - 1 + 1 = i /\ \A k \in 1 .. i : 1 + k - 1 = k
    BY <2>1
  <2> HIDE DEF P
  <2> QED
    BY <2>2, <2>3
<1> HIDE DEF P
<1>3. P[0] = Nil
  <2>1. P[0] \in Seq(S) /\ Len(P[0]) = 0
    BY <1>1, <1>2
  <2> QED
    BY <2>1, EmptySeq DEF Nil
<1>4. P[n] = s
  BY <1>1, <1>2, SeqEqual
<1>5. ASSUME NEW i \in 1 .. n PROVE P[i] = Then(P[i - 1], Only(s[i]))
  <2> DEFINE j == i - 1
             t == Then(P[j], Only(s[i]))
  <2>1. j \in 0 .. n /\ i \in 0 .. n /\ j + 1 = i /\ s[i] \in S
    BY <1>1
  <2>2. Only(s[i]) \in Seq(S) /\ Len(Only(s[i])) = 1 /\ Only(s[i])[1] = s[i]
    BY <2>1, OnlyIs
  <2>3. P[j] \in Seq(S) /\ Len(P[j]) = j /\ \A k \in 1 .. j : P[j][k] = s[k]
    BY <1>2, <2>1
  <2> HIDE DEF j
  <2>4. t \in Seq(S) /\ IsJoin(t, P[j], Only(s[i]))
    BY <2>2, <2>3, ThenIs
  <2> HIDE DEF t
  <2>5. Len(t) = i /\ t[i] = s[i] /\ \A k \in 1 .. j : t[k] = s[k]
    BY <2>1, <2>2, <2>3, <2>4 DEF IsJoin
  <2>6. P[i] \in Seq(S) /\ Len(P[i]) = i /\ \A k \in 1 .. i : P[i][k] = s[k]
    BY <1>2, <2>1
  <2>7. \A k \in 1 .. i : P[i][k] = t[k]
    BY <2>1, <2>5, <2>6
  <2>8. P[i] = t
    BY <2>4, <2>5, <2>6, <2>7, SeqEqual
  <2> QED
    BY <2>8 DEF t, j
<1> QED
  BY <1>1, <1>2, <1>3, <1>4, <1>5

\* What stands between the quotes.
LEMMA QuotedReads ==
  ASSUME NEW s \in Text, NEW w \in Text, NEW W
  PROVE  LET q == FlattenSeq([i \in DOMAIN s |-> Piece(s[i])]) IN
         q \in Text /\ Leads(State("quoted", w, W), q, State("quoted", Then(w, s), W))
<1> DEFINE n == Len(s)
           pieces == [i \in DOMAIN s |-> Piece(s[i])]
           q == FlattenSeq(pieces)
<1>1. n \in Nat /\ DOMAIN s = 1 .. n /\ \A i \in 1 .. n : s[i] \in Token
  BY Tokens DEF Text
<1>2. \A i \in 1 .. n : pieces[i] = Piece(s[i]) /\ Piece(s[i]) \in Text
  BY <1>1, PieceIs
<1>3. pieces \in Seq(Seq(Token)) /\ Len(pieces) = n
  <2>1. pieces = [i \in 1 .. n |-> Piece(s[i])]
    BY <1>1
  <2>2. [i \in 1 .. n |-> Piece(s[i])] \in Seq(Seq(Token)) /\ Len([i \in 1 .. n |-> Piece(s[i])]) = n
    BY <1>1, <1>2, IsASeq, LenProperties DEF Text
  <2> QED
    BY <2>1, <2>2
<1> HIDE DEF pieces
<1>4. PICK J : Joined(Token, J, pieces) /\ q = J[n]
  BY <1>3, Flattens
<1>5. /\ J[0] = Nil /\ \A i \in 0 .. n : J[i] \in Text
      /\ \A i \in 1 .. n : J[i] = Then(J[i - 1], Piece(s[i]))
  BY <1>2, <1>3, <1>4 DEF Joined, Text
<1>6. PICK P : /\ P[0] = Nil /\ P[n] = s
               /\ \A i \in 0 .. n : P[i] \in Text
               /\ \A i \in 1 .. n : P[i] = Then(P[i - 1], Only(s[i]))
  BY UpTo DEF Text
<1> HIDE DEF n, q
<1> DEFINE At_(i) == State("quoted", Then(w, P[i]), W)
           Bad == {i \in 0 .. n : ~Leads(State("quoted", w, W), J[i], At_(i))}
<1>7. CASE Bad = {}
  <2>1. n \in 0 .. n
    BY <1>1
  <2>2. Leads(State("quoted", w, W), J[n], At_(n))
    BY <1>7, <2>1
  <2> QED
    BY <1>4, <1>5, <1>6, <2>1, <2>2 DEF q, pieces
<1>8. CASE Bad # {}
  <2>1. PICK i \in Bad : \A j \in Bad : i <= j
    <3>1. Bad \subseteq Nat
      BY <1>1
    <3> HIDE DEF Bad
    <3> QED
      BY <1>8, <3>1, Least
  <2>2. i \in 0 .. n /\ ~Leads(State("quoted", w, W), J[i], At_(i))
    BY <2>1
  <2>3. i # 0
    <3>1. Then(w, Nil) = w
      BY ThenNil DEF Text
    <3>2. Leads(State("quoted", w, W), Nil, State("quoted", w, W))
      BY LeadsNil
    <3> QED
      BY <1>5, <1>6, <2>2, <3>1, <3>2
  <2> DEFINE j == i - 1
  <2>4. i \in 1 .. n /\ j \in 0 .. n /\ j \notin Bad /\ s[i] \in Token
    BY <1>1, <2>1, <2>2, <2>3
  <2>5. Leads(State("quoted", w, W), J[j], At_(j))
    BY <2>4
  <2>6. J[i] = Then(J[j], Piece(s[i])) /\ P[i] = Then(P[j], Only(s[i])) /\ J[j] \in Text /\ P[j] \in Text
    BY <1>5, <1>6, <2>4
  <2> HIDE DEF Bad, j
  <2>7. Then(w, P[j]) \in Text /\ Piece(s[i]) \in Text /\ Only(s[i]) \in Text
    BY <2>4, <2>6, ThenIs, OnlyIs, PieceIs DEF Text
  <2>8. Leads(At_(j), Piece(s[i]), State("quoted", Then(Then(w, P[j]), Only(s[i])), W))
    BY <2>4, <2>7, PieceReads
  <2>9. Then(Then(w, P[j]), Only(s[i])) = Then(w, P[i])
    BY <2>6, <2>7, Regroups DEF Text
  <2>10. Leads(State("quoted", w, W), Then(J[j], Piece(s[i])), At_(i))
    <3>1. Leads(At_(j), Piece(s[i]), At_(i))
      BY <2>8, <2>9
    <3> HIDE DEF At_
    <3> QED
      BY <2>5, <2>6, <2>7, <3>1, LeadsOn DEF Text
  <2> QED
    BY <2>2, <2>6, <2>10
<1> QED
  BY <1>7, <1>8

\* A quoted text is added to the word as it is.
LEMMA QuoteReads ==
  ASSUME NEW s \in Text, NEW at \in {"blank", "word"}, NEW w \in Text, NEW W
  PROVE  shell_quote(s) \in Text /\ Leads(State(at, w, W), shell_quote(s), State("word", Then(w, s), W))
<1> DEFINE q == FlattenSeq([i \in DOMAIN s |-> Piece(s[i])])
           o == Only(Quote)
           a == State(at, w, W)
           b == State("quoted", w, W)
           c == State("quoted", Then(w, s), W)
           d == State("word", Then(w, s), W)
<1>1. shell_quote(s) = Then(Then(o, q), o)
  BY DEF shell_quote, Then, Only, Piece
<1>2. q \in Text /\ Leads(b, q, c)
  BY QuotedReads
<1>3. sh(a, Quote) = b
  BY Opened
<1>4. sh(c, Quote) = d
  BY Closed
<1>5. o \in Text /\ Quote \in Token
  BY ShellMarks, OnlyIs DEF Text
<1> HIDE DEF a, b, c, d, q
<1>6. Leads(a, o, b) /\ Leads(c, o, d)
  BY <1>3, <1>4, <1>5, LeadsOne
<1> HIDE DEF o
<1>7. Then(o, q) \in Text /\ Leads(a, Then(o, q), c)
  BY <1>2, <1>5, <1>6, ThenIs, LeadsOn DEF Text
<1>8. Then(Then(o, q), o) \in Text /\ Leads(a, Then(Then(o, q), o), d)
  BY <1>5, <1>6, <1>7, ThenIs, LeadsOn DEF Text
<1> QED
  BY <1>1, <1>8 DEF a, d

\* An option begins a word of its own after the one before it.
Option == Only("--allow")

\* A blank and a word behind it.
LEMMA WordReads ==
  ASSUME NEW v \in Text, NEW W \in Seq(Text), NEW c \in Plainly
  PROVE  LET t == Then(Only(Blank), Only(c)) IN
         t \in Text /\ Only(c) \in Text /\ Then(W, Only(v)) \in Seq(Text)
         /\ Leads(State("word", v, W), t, State("word", Only(c), Then(W, Only(v))))
<1> DEFINE t == Then(Only(Blank), Only(c))
           V == Then(W, Only(v))
           a == State("word", v, W)
           b == State("blank", Nil, V)
           d == State("word", Only(c), V)
<1>0. c \in Token /\ Blank \in Token /\ Nil \in Text /\ Then(Nil, Only(c)) = Only(c)
      /\ Only(c) \in Text /\ Only(Blank) \in Text
  <2>1. c \in Token /\ Blank \in Token
    BY ShellMarks DEF Plainly
  <2>2. Only(c) \in Seq(Token) /\ Only(Blank) \in Seq(Token)
    BY <2>1, OnlyIs
  <2> QED
    BY <2>1, <2>2, ThenNil DEF Text
<1>1. Only(v) \in Seq(Text) /\ V \in Seq(Text)
  <2>1. Only(v) \in Seq(Text)
    BY OnlyIs
  <2> QED
    BY <2>1, ThenIs
<1>2. sh(a, Blank) = b
  BY Ended
<1>3. sh(b, c) = d
  BY <1>0, Added
<1> HIDE DEF a, b, d, V
<1>4. Leads(a, Only(Blank), b) /\ Leads(b, Only(c), d)
  BY <1>0, <1>2, <1>3, LeadsOne
<1>5. t \in Text /\ Leads(a, t, d)
  BY <1>0, <1>4, ThenIs, LeadsOn DEF Text
<1> QED
  BY <1>0, <1>1, <1>5 DEF a, d, V

\* --allow and its pattern.
Arg(x) == Then(Then(Only(Blank), Only("--allow")), Then(Only(Blank), shell_quote(x)))

\* The option and its pattern are two words.
LEMMA ArgReads ==
  ASSUME NEW x \in Text, NEW v \in Text, NEW W \in Seq(Text)
  PROVE  LET V == Then(Then(W, Only(v)), Only(Option)) IN
         /\ Arg(x) \in Text /\ V \in Seq(Text)
         /\ Leads(State("word", v, W), Arg(x), State("word", x, V))
<1> DEFINE U == Then(W, Only(v))
           V == Then(U, Only(Option))
           a == State("word", v, W)
           b == State("word", Option, U)
           c == State("blank", Nil, V)
           d == State("word", x, V)
           s == Then(Only(Blank), Only("--allow"))
           q == shell_quote(x)
           o == Only(Blank)
<1>1. s \in Text /\ Option \in Text /\ U \in Seq(Text) /\ Leads(a, s, b)
  BY WordReads, ShellMarks DEF Option
<1> HIDE DEF s, a
<1>2. Only(Option) \in Seq(Text) /\ V \in Seq(Text)
  <2>1. Only(Option) \in Seq(Text)
    BY <1>1, OnlyIs
  <2> QED
    BY <1>1, <2>1, ThenIs
<1>3. sh(b, Blank) = c
  BY <1>1, Ended
<1> HIDE DEF b, U
<1>4. Nil \in Text /\ Then(Nil, x) = x
  BY ThenNil DEF Text
<1>5. q \in Text /\ Leads(c, q, d)
  BY <1>4, QuoteReads
<1>6. o \in Text /\ Blank \in Token
  BY ShellMarks, OnlyIs DEF Text
<1> HIDE DEF c, d, V, q
<1>7. Leads(b, o, c)
  BY <1>3, <1>6, LeadsOne
<1> HIDE DEF o
<1>8. Then(o, q) \in Text /\ Leads(b, Then(o, q), d)
  BY <1>5, <1>6, <1>7, ThenIs, LeadsOn DEF Text
<1>9. Then(s, Then(o, q)) \in Text /\ Leads(a, Then(s, Then(o, q)), d)
  BY <1>1, <1>8, ThenIs, LeadsOn DEF Text
<1>10. Arg(x) = Then(s, Then(o, q))
  BY DEF Arg, s, o, q
<1> QED
  BY <1>2, <1>9, <1>10 DEF a, d, U, V

\* All of them: each a word, after --allow.
Args(C, x, n) ==
  /\ \A i \in 1 .. n : x[i] \in Text
  /\ C[0] = Nil /\ \A i \in 0 .. n : C[i] \in Text
  /\ \A i \in 1 .. n : C[i] = Then(C[i - 1], Arg(x[i]))
Pairs(K, x, n) ==
  /\ K[0] = Nil /\ \A i \in 0 .. n : K[i] \in Seq(Text)
  /\ \A i \in 1 .. n : K[i] = Then(K[i - 1], Then(Only(Option), Only(x[i])))

\* All of them are two words each, in their order.
LEMMA ArgsRead ==
  ASSUME NEW n \in Nat, NEW x, NEW v \in Text, NEW W \in Seq(Text),
         NEW C, Args(C, x, n), NEW K, Pairs(K, x, n)
  PROVE  \E u \in Text, U \in Seq(Text) :
           /\ Leads(State("word", v, W), C[n], State("word", u, U))
           /\ Then(U, Only(u)) = Then(Then(W, Only(v)), K[n])
<1> DEFINE H == Then(W, Only(v))
           Goal(i) == \E u \in Text, U \in Seq(Text) :
                        /\ Leads(State("word", v, W), C[i], State("word", u, U))
                        /\ Then(U, Only(u)) = Then(H, K[i])
           Bad == {i \in 0 .. n : ~Goal(i)}
<1>a. /\ \A i \in 1 .. n : x[i] \in Text
      /\ C[0] = Nil /\ \A i \in 0 .. n : C[i] \in Text
      /\ \A i \in 1 .. n : C[i] = Then(C[i - 1], Arg(x[i]))
  BY DEF Args
<1>b. /\ K[0] = Nil /\ \A i \in 0 .. n : K[i] \in Seq(Text)
      /\ \A i \in 1 .. n : K[i] = Then(K[i - 1], Then(Only(Option), Only(x[i])))
  BY DEF Pairs
<1>0. H \in Seq(Text) /\ Option \in Text /\ Only(Option) \in Seq(Text)
  <2>1. Only(v) \in Seq(Text)
    BY OnlyIs
  <2>2. "--allow" \in Token
    BY ShellMarks DEF Plainly
  <2>3. Option \in Seq(Token)
    BY <2>2, OnlyIs DEF Option
  <2>4. Option \in Text
    BY <2>3 DEF Text
  <2>5. Only(Option) \in Seq(Text)
    BY <2>4, OnlyIs
  <2> QED
    BY <2>1, <2>4, <2>5, ThenIs
<1>1. Goal(0)
  <2>1. Then(H, Nil) = H
    BY <1>0, ThenNil
  <2>2. Leads(State("word", v, W), Nil, State("word", v, W))
    BY LeadsNil
  <2>3. Then(W, Only(v)) = Then(H, K[0])
    BY <1>b, <2>1
  <2> HIDE DEF H
  <2> QED
    BY <1>a, <2>2, <2>3
<1>2. ASSUME NEW i \in 1 .. n, Goal(i - 1) PROVE Goal(i)
  <2> DEFINE j == i - 1
             y == x[i]
  <2>1. j \in 0 .. n /\ C[i] = Then(C[j], Arg(y)) /\ K[i] = Then(K[j], Then(Only(Option), Only(y)))
        /\ C[j] \in Text /\ K[j] \in Seq(Text) /\ y \in Text
    <3>1. j \in 0 .. n
      OBVIOUS
    <3> QED
      BY <1>a, <1>b, <3>1
  <2>2. PICK u \in Text, U \in Seq(Text) :
          /\ Leads(State("word", v, W), C[j], State("word", u, U))
          /\ Then(U, Only(u)) = Then(H, K[j])
    BY <1>2
  <2> HIDE DEF j, y, H
  <2> DEFINE V == Then(Then(U, Only(u)), Only(Option))
  <2>3. Arg(y) \in Text /\ V \in Seq(Text) /\ Leads(State("word", u, U), Arg(y), State("word", y, V))
    BY <2>1, ArgReads
  <2>4. Leads(State("word", v, W), Then(C[j], Arg(y)), State("word", y, V))
    <3> DEFINE a == State("word", v, W)
               b == State("word", u, U)
               c == State("word", y, V)
    <3>1. Leads(a, C[j], b) /\ Leads(b, Arg(y), c)
      BY <2>2, <2>3
    <3> HIDE DEF a, b, c
    <3>2. C[j] \in Seq(Token) /\ Arg(y) \in Seq(Token)
      BY <2>1, <2>3 DEF Text
    <3>3. Leads(a, Then(C[j], Arg(y)), c)
      BY <3>1, <3>2, LeadsOn
    <3> QED
      BY <3>3 DEF a, c
  <2>5. Then(V, Only(y)) = Then(H, K[i])
    <3> DEFINE p == Only(Option)
               o == Only(y)
    <3>1. p \in Seq(Text) /\ o \in Seq(Text)
      BY <1>0, <2>1, OnlyIs
    <3>2. V = Then(Then(H, K[j]), p)
      BY <2>2
    <3>3. K[i] = Then(K[j], Then(p, o))
      BY <2>1
    <3> HIDE DEF p, o, V
    <3>4. Then(H, K[j]) \in Seq(Text) /\ Then(p, o) \in Seq(Text)
      BY <1>0, <2>1, <3>1, ThenIs
    <3>5. Then(Then(Then(H, K[j]), p), o) = Then(Then(H, K[j]), Then(p, o))
      BY <3>1, <3>4, Regroups
    <3>6. Then(Then(H, K[j]), Then(p, o)) = Then(H, Then(K[j], Then(p, o)))
      BY <1>0, <2>1, <3>4, Regroups
    <3> QED
      BY <3>2, <3>3, <3>5, <3>6 DEF o
  <2> HIDE DEF V
  <2>6. /\ Leads(State("word", v, W), C[i], State("word", y, V))
        /\ y \in Text /\ V \in Seq(Text)
    BY <2>1, <2>3, <2>4
  <2> QED
    BY <2>5, <2>6
<1> HIDE DEF Goal
<1>3. CASE Bad = {}
  <2>1. Goal(n)
    BY <1>3
  <2> QED
    BY <2>1 DEF Goal
<1>4. CASE Bad # {}
  <2>1. PICK i \in Bad : \A j \in Bad : i <= j
    <3>1. Bad \subseteq Nat
      OBVIOUS
    <3> HIDE DEF Bad
    <3> QED
      BY <1>4, <3>1, Least
  <2>2. i # 0 /\ i \in 0 .. n /\ ~Goal(i)
    BY <1>1, <2>1
  <2>3. i \in 1 .. n /\ i - 1 \in 0 .. n /\ i - 1 \notin Bad
    BY <2>1, <2>2
  <2>4. Goal(i - 1)
    BY <2>3
  <2> QED
    BY <1>2, <2>2, <2>3, <2>4
<1> QED
  BY <1>3, <1>4

\* Three members of a sequence,
LEMMA ThreeTokens ==
  ASSUME NEW S, NEW a \in S, NEW b \in S, NEW c \in S
  PROVE  /\ <<a, b, c>> \in Seq(S)
         /\ <<a, b, c>> = Then(Then(Only(a), Only(b)), Only(c))
<1> DEFINE t == <<a, b, c>>
           u == Then(Only(a), Only(b))
           w == Then(u, Only(c))
<1>1. t \in Seq(S) /\ Len(t) = 3 /\ t[1] = a /\ t[2] = b /\ t[3] = c
  OBVIOUS
<1> HIDE DEF t
<1>2. /\ Only(a) \in Seq(S) /\ Len(Only(a)) = 1 /\ Only(a)[1] = a
      /\ Only(b) \in Seq(S) /\ Len(Only(b)) = 1 /\ Only(b)[1] = b
      /\ Only(c) \in Seq(S) /\ Len(Only(c)) = 1 /\ Only(c)[1] = c
  BY OnlyIs
<1>3. u \in Seq(S) /\ IsJoin(u, Only(a), Only(b))
  BY <1>2, ThenIs
<1> HIDE DEF u
<1>4. w \in Seq(S) /\ IsJoin(w, u, Only(c))
  BY <1>2, <1>3, ThenIs
<1> HIDE DEF w
<1>5. Len(u) = 2 /\ u[1] = a /\ u[2] = b
  BY <1>2, <1>3 DEF IsJoin
<1>6. Len(w) = 3 /\ w[1] = a /\ w[2] = b /\ w[3] = c
  BY <1>2, <1>4, <1>5 DEF IsJoin
<1>7. \A i \in 1 .. 3 : t[i] = w[i]
  BY <1>1, <1>6
<1>8. t = w
  BY <1>1, <1>4, <1>6, <1>7, SeqEqual
<1> QED
  BY <1>1, <1>8 DEF t, u, w

\* and two.
LEMMA TwoTokens ==
  ASSUME NEW S, NEW a \in S, NEW b \in S
  PROVE  <<a, b>> \in Seq(S) /\ <<a, b>> = Then(Only(a), Only(b))
<1> DEFINE t == <<a, b>>
           u == Then(Only(a), Only(b))
<1>1. t \in Seq(S) /\ Len(t) = 2 /\ t[1] = a /\ t[2] = b
  OBVIOUS
<1> HIDE DEF t
<1>2. /\ Only(a) \in Seq(S) /\ Len(Only(a)) = 1 /\ Only(a)[1] = a
      /\ Only(b) \in Seq(S) /\ Len(Only(b)) = 1 /\ Only(b)[1] = b
  BY OnlyIs
<1>3. u \in Seq(S) /\ IsJoin(u, Only(a), Only(b))
  BY <1>2, ThenIs
<1> HIDE DEF u
<1>4. Len(u) = 2 /\ u[1] = a /\ u[2] = b
  BY <1>2, <1>3 DEF IsJoin
<1>5. \A i \in 1 .. 2 : t[i] = u[i]
  BY <1>1, <1>4
<1>6. t = u
  BY <1>1, <1>3, <1>4, <1>5, SeqEqual
<1> QED
  BY <1>1, <1>6 DEF t, u

\* As build_command writes an argument.
LEMMA ArgIs ==
  ASSUME NEW x \in Text
  PROVE  <<Blank, "--allow", Blank>> \o shell_quote(x) = Arg(x) /\ Arg(x) \in Text
<1> DEFINE b == Only(Blank)
           o == Only("--allow")
           q == shell_quote(x)
<1>1. b \in Seq(Token) /\ o \in Seq(Token)
  BY ShellMarks, OnlyIs DEF Plainly
<1>2. q \in Seq(Token)
  <2>1. Nil \in Text
    BY ThenNil DEF Text
  <2> QED
    BY <2>1, QuoteReads DEF Text
<1>3. <<Blank, "--allow", Blank>> = Then(Then(b, o), b)
  BY ShellMarks, ThreeTokens DEF Plainly
<1>4. <<Blank, "--allow", Blank>> \o q = Then(Then(Then(b, o), b), q)
  BY <1>3 DEF Then
<1> HIDE DEF b, o, q
<1>5. Then(b, o) \in Seq(Token) /\ Then(b, q) \in Seq(Token)
  BY <1>1, <1>2, ThenIs
<1>6. Then(Then(Then(b, o), b), q) = Then(Then(b, o), Then(b, q)) /\ Then(Then(b, o), Then(b, q)) \in Seq(Token)
  BY <1>1, <1>2, <1>5, Regroups, ThenIs
<1> QED
  BY <1>4, <1>6 DEF Arg, b, o, q, Text

\* The texts made of a list, one after another.
Lists(f, S, n) == f = [i \in 1 .. n |-> f[i]] /\ \A i \in 1 .. n : f[i] \in Seq(S)

\* A list of texts is joined from its first to its last.
LEMMA ListJoins ==
  ASSUME NEW S, NEW n \in Nat, NEW f, Lists(f, S, n)
  PROVE  \E J : /\ J[0] = Nil /\ FlattenSeq(f) = J[n]
                /\ \A i \in 0 .. n : J[i] \in Seq(S)
                /\ \A i \in 1 .. n : J[i] = Then(J[i - 1], f[i])
<1>1. f \in Seq(Seq(S)) /\ Len(f) = n
  BY IsASeq, LenProperties DEF Lists
<1>2. PICK J : Joined(S, J, f) /\ FlattenSeq(f) = J[Len(f)]
  BY <1>1, Flattens
<1> QED
  BY <1>1, <1>2 DEF Joined

\* The command of the helper gives the shell its words.
LEMMA CommandReads ==
  ASSUME NEW helper, Empty(helper.command), helper.remote_path \in Text,
         helper.stream_window \in Plainly, helper.allow \in Seq(Text)
  PROVE  ShellWords(build_command(helper)) =
           <<helper.remote_path, <<"--stream-window">>, <<helper.stream_window>> >>
             \o FlattenSeq([i \in DOMAIN helper.allow |-> << <<"--allow">>, helper.allow[i]>>])
<1> DEFINE path == helper.remote_path
           window == helper.stream_window
           allow == helper.allow
           n == Len(allow)
           flag == "--stream-window"
           four == <<Blank, flag, Blank, window>>
           args == [i \in DOMAIN allow |-> <<Blank, "--allow", Blank>> \o shell_quote(allow[i])]
           pairs == [i \in DOMAIN allow |-> << <<"--allow">>, allow[i]>>]
           head == <<path, <<flag>>, <<window>> >>
           cmd == build_command(helper)
<1>1. cmd = Then(Then(shell_quote(path), four), FlattenSeq(args))
  BY DEF build_command, Then, Empty
<1>2. n \in Nat /\ DOMAIN allow = 1 .. n /\ \A i \in 1 .. n : allow[i] \in Text
  BY Tokens
<1>3. flag \in Token /\ window \in Token /\ Blank \in Token /\ flag \in Plainly /\ "--allow" \in Token
  BY ShellMarks DEF Plainly
<1> HIDE DEF path, window, allow, flag, cmd, n
<1>4. Only(flag) \in Text /\ Only(window) \in Text /\ Option \in Text /\ path \in Text
  <2>1. Only(flag) \in Seq(Token) /\ Only(window) \in Seq(Token) /\ Option \in Seq(Token)
    BY <1>3, OnlyIs DEF Option
  <2> QED
    BY <2>1 DEF Text, path
<1>5. four = Then(Then(Only(Blank), Only(flag)), Then(Only(Blank), Only(window))) /\ four \in Text
  <2> DEFINE b == Only(Blank)
             f == Only(flag)
             w == Only(window)
  <2>1. four \in Seq(Token) /\ four = Then(b, Then(f, Then(b, w)))
    BY <1>3, FourTokens
  <2>2. b \in Seq(Token) /\ f \in Seq(Token) /\ w \in Seq(Token)
    BY <1>3, OnlyIs
  <2> HIDE DEF b, f, w
  <2>3. Then(b, w) \in Seq(Token)
    BY <2>2, ThenIs
  <2>4. Then(Then(b, f), Then(b, w)) = Then(b, Then(f, Then(b, w)))
    BY <2>2, <2>3, Regroups
  <2> QED
    BY <2>1, <2>4 DEF Text, b, f, w
<1>6. args = [i \in 1 .. n |-> args[i]] /\ \A i \in 1 .. n : args[i] = Arg(allow[i]) /\ args[i] \in Seq(Token)
  <2>1. args = [i \in 1 .. n |-> args[i]]
    BY <1>2
  <2>2. ASSUME NEW i \in 1 .. n PROVE args[i] = Arg(allow[i]) /\ args[i] \in Seq(Token)
    <3>1. args[i] = <<Blank, "--allow", Blank>> \o shell_quote(allow[i])
      BY <1>2
    <3> HIDE DEF args
    <3> QED
      BY <1>2, <3>1, ArgIs DEF Text
  <2> QED
    BY <2>1, <2>2
<1>7. pairs = [i \in 1 .. n |-> pairs[i]]
      /\ \A i \in 1 .. n : pairs[i] = Then(Only(Option), Only(allow[i])) /\ pairs[i] \in Seq(Text)
  <2>1. pairs = [i \in 1 .. n |-> pairs[i]]
    BY <1>2
  <2>2. ASSUME NEW i \in 1 .. n
        PROVE  pairs[i] = Then(Only(Option), Only(allow[i])) /\ pairs[i] \in Seq(Text)
    <3>1. pairs[i] = <<Option, allow[i]>>
      BY <1>2 DEF Option, Only
    <3> HIDE DEF pairs
    <3> QED
      BY <1>2, <1>4, <3>1, TwoTokens
  <2> QED
    BY <2>1, <2>2
<1> HIDE DEF four, args, pairs
<1>8. PICK C : FlattenSeq(args) = C[n] /\ Args(C, allow, n)
  <2>1. PICK C : /\ C[0] = Nil /\ FlattenSeq(args) = C[n]
                 /\ \A i \in 0 .. n : C[i] \in Seq(Token)
                 /\ \A i \in 1 .. n : C[i] = Then(C[i - 1], args[i])
    <3>1. Lists(args, Token, n)
      BY <1>6 DEF Lists
    <3> QED
      BY <1>2, <3>1, ListJoins
  <2>2. Args(C, allow, n)
    BY <1>2, <1>6, <2>1 DEF Args, Text
  <2> QED
    BY <2>1, <2>2
<1>9. PICK K : FlattenSeq(pairs) = K[n] /\ Pairs(K, allow, n)
  <2>1. PICK K : /\ K[0] = Nil /\ FlattenSeq(pairs) = K[n]
                 /\ \A i \in 0 .. n : K[i] \in Seq(Text)
                 /\ \A i \in 1 .. n : K[i] = Then(K[i - 1], pairs[i])
    <3>1. Lists(pairs, Text, n)
      BY <1>7 DEF Lists
    <3> QED
      BY <1>2, <3>1, ListJoins
  <2>2. Pairs(K, allow, n)
    BY <1>7, <2>1 DEF Pairs
  <2> QED
    BY <2>1, <2>2
<1> DEFINE base == State("blank", Nil, Nil)
           W1 == Only(path)
           W2 == Then(W1, Only(Only(flag)))
           a == State("word", path, Nil)
           b == State("word", Only(flag), W1)
           c == State("word", Only(window), W2)
<1>10. shell_quote(path) \in Text /\ Leads(base, shell_quote(path), a)
  <2>1. Nil \in Text /\ Then(Nil, path) = path
    BY <1>4, ThenNil DEF Text
  <2> QED
    BY <1>4, <2>1, QuoteReads
<1>11. W1 \in Seq(Text) /\ W2 \in Seq(Text) /\ Then(Nil, Only(path)) = W1 /\ Nil \in Seq(Text)
  <2>1. W1 \in Seq(Text) /\ Only(Only(flag)) \in Seq(Text)
    BY <1>4, OnlyIs
  <2> QED
    BY <2>1, ThenIs, ThenNil
<1>12. Then(Only(Blank), Only(flag)) \in Text /\ Leads(a, Then(Only(Blank), Only(flag)), b)
  BY <1>3, <1>4, <1>11, WordReads
<1>13. Then(Only(Blank), Only(window)) \in Text /\ Leads(b, Then(Only(Blank), Only(window)), c)
  <2>1. window \in Plainly
    BY DEF window
  <2> QED
    BY <2>1, <1>4, <1>11, WordReads
<1> HIDE DEF W1, W2
<1>14. PICK u \in Text, U \in Seq(Text) :
         /\ Leads(c, C[n], State("word", u, U))
         /\ Then(U, Only(u)) = Then(Then(W2, Only(Only(window))), K[n])
  BY <1>2, <1>4, <1>8, <1>9, <1>11, ArgsRead
<1> DEFINE d == State("word", u, U)
<1> HIDE DEF a, b, c, d, base
<1>15. Leads(a, four, c)
  BY <1>5, <1>12, <1>13, LeadsOn DEF Text
<1>16. Then(shell_quote(path), four) \in Text /\ Leads(base, Then(shell_quote(path), four), c)
  BY <1>5, <1>10, <1>15, ThenIs, LeadsOn DEF Text
<1>17. C[n] \in Text /\ Leads(c, C[n], d)
  <2>1. n \in 0 .. n
    BY <1>2
  <2> QED
    BY <1>8, <1>14, <2>1 DEF d, Args
<1>18. cmd \in Text /\ Leads(base, cmd, d)
  BY <1>1, <1>8, <1>16, <1>17, ThenIs, LeadsOn DEF Text
<1>19. FoldLeft(sh, base, cmd) = d
  BY <1>18, ShellReads DEF Text
<1>20. ShellWords(cmd) = Append(U, u)
  <2> DEFINE read == FoldLeft(sh, base, cmd)
  <2>1. ShellWords(cmd) = IF read.at = "blank" THEN read.words
                          ELSE IF read.at = "word" THEN Append(read.words, read.word) ELSE << <<"unclosed">> >>
    BY DEF ShellWords, base, State, Nil
  <2>2. read.at = "word" /\ read.word = u /\ read.words = U
    BY <1>19 DEF d, State
  <2> HIDE DEF read
  <2> QED
    BY <2>1, <2>2
<1>21. Append(U, u) = Then(U, Only(u))
  BY AppendThen
<1>22. head = Then(W2, Only(Only(window)))
  BY <1>4, ThreeTokens DEF W1, W2, Only
<1>23. ShellWords(cmd) = head \o FlattenSeq(pairs)
  BY <1>9, <1>14, <1>20, <1>21, <1>22 DEF Then
<1> QED
  BY <1>23 DEF cmd, path, window, allow, flag, pairs

-----------------------------------------------------------------------------
(* ~/.ssh/config                                                           *)

Value == Seq(STRING \ {"unset"})
SomeLine == [key : STRING, val : Value]
SomeBlock == [host : Text, hostname : Text, user : Text, port : Text]
Names == {"hostname", "user", "port"}
Reading == [block : SomeBlock, hosts : Seq(Text)]

\* A value of a file is a text, and is never what stands for none.
LEMMA ValuesAreTexts ==
  /\ Value \subseteq Text /\ Unset \in Text /\ Unset \notin Value
  /\ <<"root">> \in Text /\ <<"22">> \in Text
<1>1. Value \subseteq Text
  <2>1. STRING \ {"unset"} \subseteq Token
    BY DEF Token
  <2> QED
    BY <2>1, SeqMonotonic DEF Value, Text
<1>2. <<"unset">> \in Seq(Token) /\ <<"root">> \in Seq(Token)
  <2>1. "unset" \in Token /\ "root" \in Token
    BY DEF Token
  <2> QED
    BY <2>1, One
<1>3. <<"22">> \in Seq(Token)
  <2>1. "22" \in Token
    BY SshTargetAssumption, Marks
  <2> QED
    BY <2>1, One
<1>4. <<"unset">> \notin Value
  <2> SUFFICES ASSUME <<"unset">> \in Value PROVE FALSE
    OBVIOUS
  <2>1. Len(<<"unset">>) = 1 /\ <<"unset">>[1] = "unset"
    OBVIOUS
  <2> DEFINE u == <<"unset">>
  <2> HIDE DEF u
  <2>2. u \in Seq(STRING \ {"unset"}) /\ Len(u) = 1 /\ u[1] = "unset"
    BY <2>1 DEF u, Value
  <2>3. u[1] \in STRING \ {"unset"}
    BY <2>2, Tokens
  <2> QED
    BY <2>2, <2>3
<1> QED
  BY <1>1, <1>2, <1>3, <1>4 DEF Text, Unset

\* What a block is offered as, when it is.
LEMMA OfferIs ==
  ASSUME NEW b \in SomeBlock
  PROVE  LET user == Or(b.user, <<"root">>)
             port == Or(b.port, <<"22">>)
         IN  /\ user \in Text /\ port \in Text
             /\ b.host \in {Unset, <<"*">>} \/ b.hostname = Unset \/ Empty(b.hostname)
                  \/ is_git_host(user, b.hostname) => Offer(b) = Nil
             /\ b.host \notin {Unset, <<"*">>} /\ b.hostname # Unset /\ ~Empty(b.hostname)
                  /\ ~is_git_host(user, b.hostname) =>
                  Offer(b) = Only(Then(Then(Then(user, Only("@")), b.hostname),
                                       IF port = <<"22">> THEN Nil ELSE Then(Only(":"), port)))
<1> DEFINE user == Or(b.user, <<"root">>)
           port == Or(b.port, <<"22">>)
<1>1. user \in Text /\ port \in Text
  BY ValuesAreTexts DEF Or, SomeBlock
<1>2. Offer(b) = IF b.host \in {Unset, <<"*">>} \/ b.hostname \in {Unset, <<>>} \/ is_git_host(user, b.hostname)
                 THEN Nil
                 ELSE Only(Then(Then(Then(user, Only("@")), b.hostname),
                                IF port = <<"22">> THEN Nil ELSE Then(Only(":"), port)))
  BY Zenon DEF Offer, Nil, Only, Then
<1> HIDE DEF user, port
<1>3. b.hostname \in {Unset, <<>>} <=> b.hostname = Unset \/ Empty(b.hostname)
  BY DEF Empty
<1> DEFINE cond == is_git_host(user, b.hostname)
           res == Only(Then(Then(Then(user, Only("@")), b.hostname),
                            IF port = <<"22">> THEN Nil ELSE Then(Only(":"), port)))
           hs == b.host \in {Unset, <<"*">>}
<1>4. Offer(b) = IF hs \/ b.hostname \in {Unset, <<>>} \/ cond THEN Nil ELSE res
  BY <1>2
<1> HIDE DEF cond, res, hs
<1>5. /\ hs \/ b.hostname = Unset \/ Empty(b.hostname) \/ cond => Offer(b) = Nil
      /\ ~hs /\ b.hostname # Unset /\ ~Empty(b.hostname) /\ ~cond => Offer(b) = res
  BY <1>3, <1>4
<1> QED
  BY <1>1, <1>5, Zenon DEF user, port, cond, res, hs

\* An offer is a text.
LEMMA OffersAreTexts ==
  ASSUME NEW b \in SomeBlock
  PROVE  Offer(b) \in Seq(Text)
<1> DEFINE user == Or(b.user, <<"root">>)
           port == Or(b.port, <<"22">>)
           tail == IF port = <<"22">> THEN Nil ELSE Then(Only(":"), port)
           text == Then(Then(Then(user, Only("@")), b.hostname), tail)
<1>1. user \in Seq(Token) /\ port \in Seq(Token) /\ b.hostname \in Seq(Token)
  BY OfferIs DEF SomeBlock, Text
<1>2. Offer(b) = Nil \/ Offer(b) = Only(text)
  BY OfferIs, Zenon
<1>3. Only("@") \in Seq(Token) /\ Only(":") \in Seq(Token) /\ Nil \in Seq(Token) /\ Nil \in Seq(Text)
  BY Marks, OnlyIs, EmptySeq DEF Nil
<1> HIDE DEF user, port
<1>4. Then(Only(":"), port) \in Seq(Token)
  BY <1>1, <1>3, ThenIs
<1>5. tail \in Seq(Token)
  BY <1>3, <1>4
<1> HIDE DEF tail
<1>6. Then(user, Only("@")) \in Seq(Token)
  BY <1>1, <1>3, ThenIs
<1>7. Then(Then(user, Only("@")), b.hostname) \in Seq(Token)
  BY <1>1, <1>6, ThenIs
<1>8. text \in Seq(Token)
  BY <1>5, <1>7, ThenIs
<1> HIDE DEF text
<1>9. Only(text) \in Seq(Text)
  BY <1>8, OnlyIs DEF Text
<1> QED
  BY <1>2, <1>3, <1>9

\* What a line changes.
LEMMA TakeIs ==
  ASSUME NEW acc \in Reading, NEW line \in SomeLine
  PROVE  LET next == take(acc, line) IN
         /\ next \in Reading
         /\ line.key \in {"blank", "host"} => next.hosts = Then(acc.hosts, Offer(acc.block))
         /\ line.key \notin {"blank", "host"} => next.hosts = acc.hosts
         /\ line.key = "blank" => next.block.host = Unset
         /\ line.key = "host" => next.block.host = line.val /\ \A f \in Names : next.block[f] = Unset
         /\ line.key \notin {"blank", "host"} => next.block.host = acc.block.host
         /\ line.key \notin {"blank", "host"} =>
              \A f \in Names : next.block[f] = IF f = line.key THEN line.val ELSE acc.block[f]
<1> DEFINE next == take(acc, line)
<1>0. acc.block \in SomeBlock /\ acc.hosts \in Seq(Text) /\ line.val \in Text /\ NoBlock \in SomeBlock
  BY ValuesAreTexts DEF Reading, SomeLine, NoBlock, SomeBlock
<1>1. Then(acc.hosts, Offer(acc.block)) \in Seq(Text)
  <2>1. Offer(acc.block) \in Seq(Text)
    BY <1>0, OffersAreTexts
  <2> QED
    BY <1>0, <2>1, ThenIs
<1> DEFINE more == Then(acc.hosts, Offer(acc.block))
<1>2. CASE line.key = "blank"
  <2>1. next = [block |-> NoBlock, hosts |-> more]
    BY <1>2 DEF take, Then
  <2> HIDE DEF next, more
  <2> QED
    BY <1>0, <1>1, <1>2, <2>1 DEF Reading, NoBlock, next, more
<1>3. CASE line.key = "host"
  <2>1. next = [block |-> [NoBlock EXCEPT !.host = line.val], hosts |-> more]
    BY <1>3 DEF take, Then
  <2> DEFINE block == [NoBlock EXCEPT !.host = line.val]
  <2>2. block \in SomeBlock /\ block.host = line.val /\ \A f \in Names : block[f] = Unset
    BY <1>0 DEF SomeBlock, NoBlock, Names
  <2> HIDE DEF next, more, block
  <2>3. next.block = block /\ next.hosts = more /\ next \in Reading
    BY <1>1, <2>1, <2>2 DEF Reading, block, more
  <2> QED
    BY <1>3, <2>2, <2>3 DEF next, more
<1>4. CASE line.key \in Names
  <2>1. next = [acc EXCEPT !.block[line.key] = line.val]
    BY <1>4 DEF take, Names
  <2> DEFINE block == [acc.block EXCEPT ![line.key] = line.val]
  <2>2. block \in SomeBlock /\ block.host = acc.block.host
        /\ \A f \in Names : block[f] = IF f = line.key THEN line.val ELSE acc.block[f]
    BY <1>0, <1>4 DEF SomeBlock, Names
  <2>3. next = [acc EXCEPT !.block = block]
    BY <2>1
  <2> HIDE DEF next, block
  <2>4. next.block = block /\ next.hosts = acc.hosts /\ next \in Reading
    BY <2>2, <2>3 DEF Reading
  <2>5. line.key \notin {"blank", "host"}
    BY <1>4 DEF Names
  <2> QED
    BY <2>2, <2>4, <2>5 DEF next
<1>5. CASE line.key \notin Names \cup {"blank", "host"}
  <2>1. next = acc
    BY <1>5 DEF take, Names
  <2> HIDE DEF next
  <2> QED
    BY <1>5, <2>1 DEF next
<1> QED
  BY <1>2, <1>3, <1>4, <1>5

Base == [block |-> NoBlock, hosts |-> <<>>]

\* r reads the lines one after another.
Reads(lines, r) ==
  /\ r[0] = Base /\ \A i \in 0 .. Len(lines) : r[i] \in Reading
  /\ \A i \in 1 .. Len(lines) : r[i] = take(r[i - 1], lines[i])

\* What is read is what the last line left, with the block that is still open.
LEMMA LinesRead ==
  ASSUME NEW lines \in Seq(SomeLine)
  PROVE  \E r : /\ Reads(lines, r)
                /\ discover_ssh_hosts(lines) = Then(r[Len(lines)].hosts, Offer(r[Len(lines)].block))
<1> DEFINE n == Len(lines)
<1>0. n \in Nat /\ \A i \in 1 .. n : lines[i] \in SomeLine
  BY Tokens
<1>1. PICK r : IsRun("line", Base, lines, r) /\ r[n] = FoldLeft(take, Base, lines)
  BY LinesRun
<1>2. discover_ssh_hosts(lines) = Then(r[n].hosts, Offer(r[n].block))
  BY <1>1 DEF discover_ssh_hosts, Base, Then
<1> HIDE DEF n
<1>3. r[0] = Base /\ \A i \in 1 .. n : r[i] = take(r[i - 1], lines[i])
  BY <1>1 DEF IsRun, Step, n
<1>4. Base \in Reading
  <2>1. NoBlock \in SomeBlock
    BY ValuesAreTexts DEF NoBlock, SomeBlock
  <2>2. <<>> \in Seq(Text)
    BY EmptySeq
  <2> QED
    BY <2>1, <2>2 DEF Base, Reading
<1> DEFINE Bad == {i \in 0 .. n : r[i] \notin Reading}
<1>5. CASE Bad # {}
  <2>1. PICK i \in Bad : \A j \in Bad : i <= j
    <3>1. Bad \subseteq Nat
      OBVIOUS
    <3> HIDE DEF Bad
    <3> QED
      BY <1>5, <3>1, Least
  <2>2. i # 0
    BY <1>3, <1>4, <2>1
  <2>3. i \in 1 .. n /\ i - 1 \in 0 .. n /\ i - 1 \notin Bad
    BY <1>0, <2>1, <2>2
  <2>4. r[i - 1] \in Reading /\ lines[i] \in SomeLine /\ r[i] = take(r[i - 1], lines[i])
    BY <1>0, <1>3, <2>3
  <2>5. take(r[i - 1], lines[i]) \in Reading
    BY <2>4, TakeIs
  <2> QED
    BY <2>1, <2>4, <2>5
<1>6. CASE Bad = {}
  <2>1. Reads(lines, r)
    BY <1>3, <1>6 DEF Reads, n
  <2> QED
    BY <1>2, <2>1 DEF n
<1> QED
  BY <1>5, <1>6

\* Every host of the dialogue is a text.
LEMMA HostsAreTexts ==
  ASSUME NEW lines \in Seq(SomeLine)
  PROVE  discover_ssh_hosts(lines) \in Seq(Text)
<1> DEFINE n == Len(lines)
<1>1. PICK r : /\ Reads(lines, r)
               /\ discover_ssh_hosts(lines) = Then(r[n].hosts, Offer(r[n].block))
  BY LinesRead
<1>2. n \in 0 .. n
  BY Tokens
<1>3. r[n].hosts \in Seq(Text) /\ r[n].block \in SomeBlock
  BY <1>1, <1>2 DEF Reads, Reading
<1> HIDE DEF n
<1>4. Offer(r[n].block) \in Seq(Text)
  BY <1>3, OffersAreTexts
<1> QED
  BY <1>1, <1>3, <1>4, ThenIs

-----------------------------------------------------------------------------
(* Blocks of a plain file.                                                 *)

\* Where the block of the i-th line says the name, up to the n-th line.
SaysAt(lines, i, n, name) == {j \in BlockOf(lines, i) : j <= n /\ lines[j].key = name}
SaysTo(lines, i, n, name) ==
  IF SaysAt(lines, i, n, name) = {} THEN Unset ELSE lines[Min(SaysAt(lines, i, n, name))].val

\* b is what the block of the i-th line says up to the n-th.
Records(lines, i, n, b) ==
  b.host = lines[i].val /\ \A f \in Names : b[f] = SaysTo(lines, i, n, f)

Ends(lines, i, k) == k > i /\ lines[k].key \in {"host", "blank"}
Open(lines, i, n) == i \in Blocks(lines) /\ i <= n /\ \A k \in 1 .. n : ~Ends(lines, i, k)
Shut(lines, i, n) == i \in Blocks(lines) /\ i <= n /\ \E k \in 1 .. n : Ends(lines, i, k)

\* Blocks and their lines, by their numbers.
LEMMA BlocksAre ==
  ASSUME NEW lines \in Seq(SomeLine)
  PROVE  /\ Len(lines) \in Nat /\ DOMAIN lines = 1 .. Len(lines)
         /\ \A i \in 1 .. Len(lines) : lines[i] \in SomeLine
         /\ \A i : i \in Blocks(lines) <=> i \in 1 .. Len(lines) /\ lines[i].key = "host"
         /\ \A i, j : j \in BlockOf(lines, i) <=>
              /\ j \in 1 .. Len(lines) /\ j > i
              /\ ~\E k \in i + 1 .. j : k \in Blocks(lines)
<1>1. Len(lines) \in Nat /\ DOMAIN lines = 1 .. Len(lines) /\ \A i \in 1 .. Len(lines) : lines[i] \in SomeLine
  BY Tokens
<1>2. \A i : i \in Blocks(lines) <=> i \in 1 .. Len(lines) /\ lines[i].key = "host"
  BY <1>1 DEF Blocks
<1>3. ASSUME NEW i, NEW j
      PROVE  j \in BlockOf(lines, i) <=>
              /\ j \in 1 .. Len(lines) /\ j > i
              /\ ~\E k \in i + 1 .. j : k \in Blocks(lines)
  BY <1>1 DEF BlockOf
<1> QED
  BY <1>1, <1>2, <1>3

\* Only the last block is open.
LEMMA OneOpen ==
  ASSUME NEW lines \in Seq(SomeLine), NEW n \in 0 .. Len(lines), NEW i, NEW j, Open(lines, i, n), Open(lines, j, n)
  PROVE  i = j
<1>1. i \in 1 .. n /\ j \in 1 .. n /\ lines[i].key = "host" /\ lines[j].key = "host"
  BY BlocksAre DEF Open
<1> QED
  BY <1>1 DEF Open, Ends

\* After the blank that ends a block of a plain file there is no more of it.
LEMMA NoMore ==
  ASSUME NEW lines \in Seq(SomeLine), Plain(lines), NEW n \in Nat, n + 1 <= Len(lines),
         NEW i, Open(lines, i, n), lines[n + 1].key \in {"host", "blank"},
         NEW j \in BlockOf(lines, i), j > n
  PROVE  lines[j].key = "blank"
<1> DEFINE N == Len(lines)
           Bad == {m \in n + 1 .. j : lines[m].key # "blank"}
<1>1. N \in Nat /\ DOMAIN lines = 1 .. N /\ j \in 1 .. N /\ i \in 1 .. n
      /\ \A k \in i + 1 .. j : k \in 1 .. N => lines[k].key # "host"
  BY BlocksAre DEF Open
<1>2. CASE Bad # {}
  <2>1. PICK m \in Bad : \A y \in Bad : m <= y
    <3>1. Bad \subseteq Nat
      OBVIOUS
    <3> HIDE DEF Bad
    <3> QED
      BY <1>2, <3>1, Least
  <2>2. m \in n + 1 .. j /\ m \in 1 .. N /\ m \in i + 1 .. j
    BY <1>1, <2>1
  <2>3. lines[m].key # "host" /\ lines[m].key # "blank"
    BY <1>1, <2>1, <2>2
  <2>4. m # n + 1
    BY <2>3
  <2> DEFINE p == m - 1
  <2>5. p \in n + 1 .. j /\ p \in DOMAIN lines /\ m \in DOMAIN lines /\ p < m /\ p + 1 = m /\ p \notin Bad
    BY <1>1, <2>1, <2>2, <2>4
  <2>6. lines[p].key = "blank"
    BY <2>5
  <2> HIDE DEF p, Bad
  <2>7. lines[p + 1].key \in {"blank", "host"}
    BY <2>5, <2>6 DEF Plain
  <2> QED
    BY <2>3, <2>5, <2>7
<1>3. CASE Bad = {}
  <2>1. j \in n + 1 .. j
    BY <1>1
  <2> QED
    BY <1>3, <2>1
<1> QED
  BY <1>2, <1>3

\* So what a block says when it ends is all it says.
LEMMA AllSaid ==
  ASSUME NEW lines \in Seq(SomeLine), Plain(lines), NEW n \in Nat, n + 1 <= Len(lines),
         NEW i, Open(lines, i, n), lines[n + 1].key \in {"host", "blank"}, NEW f \in Names
  PROVE  SaysTo(lines, i, n, f) = SaysTo(lines, i, Len(lines), f)
<1>1. ASSUME NEW j \in BlockOf(lines, i), lines[j].key = f PROVE j <= n
  <2> SUFFICES ASSUME j > n PROVE FALSE
    BY BlocksAre
  <2>1. lines[j].key = "blank"
    BY NoMore
  <2> QED
    BY <1>1, <2>1 DEF Names
<1>2. \A j \in BlockOf(lines, i) : j <= Len(lines)
  BY BlocksAre
<1>3. SaysAt(lines, i, n, f) = SaysAt(lines, i, Len(lines), f)
  BY <1>1, <1>2 DEF SaysAt
<1> QED
  BY <1>3 DEF SaysTo

\* One more line of an open block.
LEMMA OneMoreSaid ==
  ASSUME NEW lines \in Seq(SomeLine), Plain(lines), NEW n \in Nat, n + 1 <= Len(lines),
         NEW i, Open(lines, i, n), lines[n + 1].key \notin {"host", "blank"}, NEW f \in Names
  PROVE  SaysTo(lines, i, n + 1, f) = IF lines[n + 1].key = f THEN lines[n + 1].val ELSE SaysTo(lines, i, n, f)
<1> DEFINE N == Len(lines)
           m == n + 1
<1>1. N \in Nat /\ DOMAIN lines = 1 .. N /\ i \in 1 .. n /\ lines[i].key = "host" /\ m \in 1 .. N /\ i < m
  BY BlocksAre DEF Open
<1>2. ASSUME NEW k \in i + 1 .. m PROVE k \notin Blocks(lines)
  <2>1. k \in 1 .. m /\ k > i
    BY <1>1
  <2>2. CASE k = m
    BY <2>2, BlocksAre
  <2>3. CASE k # m
    <3>1. k \in 1 .. n
      BY <2>1, <2>3
    <3>2. lines[k].key # "host"
      BY <2>1, <3>1 DEF Open, Ends
    <3> QED
      BY <3>2, BlocksAre
  <2> QED
    BY <2>2, <2>3
<1>3. m \in BlockOf(lines, i)
  BY <1>1, <1>2, BlocksAre
<1>4. CASE lines[m].key # f
  <2>1. SaysAt(lines, i, m, f) = SaysAt(lines, i, n, f)
    <3>1. ASSUME NEW j \in BlockOf(lines, i), lines[j].key = f, j <= m PROVE j <= n
      BY <1>4, <3>1, BlocksAre
    <3> QED
      BY <3>1, BlocksAre DEF SaysAt
  <2> QED
    BY <1>4, <2>1 DEF SaysTo
<1>5. CASE lines[m].key = f
  <2>1. ASSUME NEW j \in BlockOf(lines, i), lines[j].key = f, j <= m PROVE j = m
    <3> SUFFICES ASSUME j < m PROVE FALSE
      BY <2>1, <1>1, BlocksAre
    <3>1. j \in DOMAIN lines /\ m \in DOMAIN lines /\ j > i
      BY <1>1, <2>1, BlocksAre
    <3>2. f \notin {"blank", "host"}
      BY DEF Names
    <3>3. PICK b \in Blocks(lines) : j < b /\ b < m
      BY <1>5, <2>1, <3>1, <3>2 DEF Plain
    <3>4. b \in i + 1 .. m
      BY <1>1, <3>1, <3>3, BlocksAre
    <3> QED
      BY <1>2, <3>4
  <2>2. SaysAt(lines, i, m, f) = {m}
    BY <1>1, <1>3, <1>5, <2>1 DEF SaysAt
  <2>3. Min({m}) = m
    <3>1. {m} \subseteq Nat /\ {m} # {}
      BY <1>1
    <3> QED
      BY <3>1, Smallest
  <2> QED
    BY <1>5, <2>2, <2>3 DEF SaysTo
<1> QED
  BY <1>4, <1>5

\* The block of the i-th line, as the whole file has it.
Full(lines, i) ==
  [host |-> lines[i].val, hostname |-> SaysTo(lines, i, Len(lines), "hostname"),
   user |-> SaysTo(lines, i, Len(lines), "user"), port |-> SaysTo(lines, i, Len(lines), "port")]

\* What a block says is a value of the file, or nothing.
LEMMA SaidIs ==
  ASSUME NEW lines \in Seq(SomeLine), NEW i, NEW n, NEW f
  PROVE  SaysTo(lines, i, n, f) \in Value \cup {Unset}
<1> DEFINE at == SaysAt(lines, i, n, f)
<1>1. at \subseteq 1 .. Len(lines) /\ at \subseteq Nat
  BY BlocksAre DEF SaysAt
<1>2. CASE at # {}
  <2> HIDE DEF at
  <2>1. Min(at) \in at
    BY <1>1, <1>2, Smallest
  <2>2. lines[Min(at)] \in SomeLine
    BY <1>1, <2>1, BlocksAre
  <2>3. lines[Min(at)].val \in Value
    BY <2>2 DEF SomeLine
  <2> QED
    BY <1>2, <2>3 DEF SaysTo, at
<1> QED
  BY <1>2 DEF SaysTo

\* The block of a Host line is one take can have made.
LEMMA FullIs ==
  ASSUME NEW lines \in Seq(SomeLine), NEW i \in Blocks(lines)
  PROVE  Full(lines, i) \in SomeBlock
<1>1. \A f : SaysTo(lines, i, Len(lines), f) \in Text
  BY SaidIs, ValuesAreTexts
<1>2. lines[i].val \in Text
  BY BlocksAre, ValuesAreTexts DEF SomeLine
<1> QED
  BY <1>1, <1>2 DEF Full, SomeBlock

\* A block that records all that is said is the block.
LEMMA RecordsAll ==
  ASSUME NEW lines \in Seq(SomeLine), NEW i, NEW b \in SomeBlock, Records(lines, i, Len(lines), b)
  PROVE  b = Full(lines, i)
<1>1. b = [host |-> b.host, hostname |-> b.hostname, user |-> b.user, port |-> b.port]
  BY DEF SomeBlock
<1>2. b.host = lines[i].val /\ b.hostname = b["hostname"] /\ b.user = b["user"] /\ b.port = b["port"]
  BY DEF Records
<1>3. \A f \in Names : b[f] = SaysTo(lines, i, Len(lines), f)
  BY DEF Records
<1>4. b["hostname"] = SaysTo(lines, i, Len(lines), "hostname") /\ b["user"] = SaysTo(lines, i, Len(lines), "user")
      /\ b["port"] = SaysTo(lines, i, Len(lines), "port")
  BY <1>3 DEF Names
<1> QED
  BY <1>1, <1>2, <1>4 DEF Full

\* A block no Host line began is not offered.
LEMMA NoHostNoOffer ==
  ASSUME NEW b \in SomeBlock, b.host = Unset
  PROVE  Offer(b) = Nil
BY OfferIs, Zenon

\* The empty text holds no token.
LEMMA NilIsEmpty == Range(Nil) = {} /\ \A S : Nil \in Seq(S)
<1>1. Range(<<>>) = {}
  BY DEF Range
<1> QED
  BY <1>1, EmptySeq DEF Nil

\* What a text is offered for.
Offers(lines, i, t) == t \in Range(Offer(Full(lines, i)))

\* After the n-th line: what was found are the offers of the blocks that are shut,
\* and the block records what the open one says.
Found(lines, n, hs) == \A t : t \in Range(hs) <=> \E i : Shut(lines, i, n) /\ Offers(lines, i, t)
Holds(lines, n, b) ==
  \/ \E i : Open(lines, i, n) /\ Records(lines, i, n, b)
  \/ b.host = Unset /\ \A i : ~Open(lines, i, n)

\* At the start.
LEMMA FoundAtFirst ==
  ASSUME NEW lines \in Seq(SomeLine)
  PROVE  Found(lines, 0, Base.hosts) /\ Holds(lines, 0, Base.block)
<1>1. \A i : ~Open(lines, i, 0) /\ ~Shut(lines, i, 0)
  BY BlocksAre DEF Open, Shut
<1>2. Base.hosts = Nil /\ Base.block.host = Unset
  BY DEF Base, NoBlock, Nil
<1> QED
  BY <1>1, <1>2, NilIsEmpty DEF Found, Holds

\* A line that is neither blank nor Host.
LEMMA FoundInside ==
  ASSUME NEW lines \in Seq(SomeLine), Plain(lines), NEW n \in Nat, n + 1 <= Len(lines),
         NEW acc \in Reading, Found(lines, n, acc.hosts), Holds(lines, n, acc.block),
         lines[n + 1].key \notin {"host", "blank"}
  PROVE  LET next == take(acc, lines[n + 1]) IN
         Found(lines, n + 1, next.hosts) /\ Holds(lines, n + 1, next.block)
<1> DEFINE m == n + 1
           next == take(acc, lines[m])
<1>1. m \in 1 .. Len(lines) /\ lines[m] \in SomeLine /\ m \notin Blocks(lines) /\ m \in Nat
  BY BlocksAre
<1>2. /\ next.hosts = acc.hosts /\ next.block.host = acc.block.host
      /\ \A f \in Names : next.block[f] = IF f = lines[m].key THEN lines[m].val ELSE acc.block[f]
  BY <1>1, TakeIs
<1>3. ASSUME NEW i PROVE (Shut(lines, i, m) <=> Shut(lines, i, n)) /\ (Open(lines, i, m) <=> Open(lines, i, n))
  <2>1. ~Ends(lines, i, m)
    BY DEF Ends
  <2>2. ASSUME i \in Blocks(lines) PROVE i <= m <=> i <= n
    BY <1>1, <2>2, BlocksAre
  <2>3. \A k : k \in 1 .. m <=> k \in 1 .. n \/ k = m
    OBVIOUS
  <2> HIDE DEF m
  <2> QED
    BY <2>1, <2>2, <2>3 DEF Shut, Open
<1>4. Found(lines, m, next.hosts)
  BY <1>2, <1>3 DEF Found
<1>5. Holds(lines, m, next.block)
  <2>1. CASE \E i : Open(lines, i, n) /\ Records(lines, i, n, acc.block)
    <3>1. PICK i : Open(lines, i, n) /\ Records(lines, i, n, acc.block)
      BY <2>1
    <3>2. ASSUME NEW f \in Names PROVE next.block[f] = SaysTo(lines, i, m, f)
      <4>1. SaysTo(lines, i, m, f) = IF lines[m].key = f THEN lines[m].val ELSE SaysTo(lines, i, n, f)
        BY <3>1, OneMoreSaid
      <4>2. acc.block[f] = SaysTo(lines, i, n, f)
        BY <3>1 DEF Records
      <4> QED
        BY <1>2, <4>1, <4>2
    <3>3. Records(lines, i, m, next.block)
      BY <1>2, <3>1, <3>2 DEF Records
    <3> QED
      BY <1>3, <3>1, <3>3 DEF Holds
  <2>2. CASE acc.block.host = Unset /\ \A i : ~Open(lines, i, n)
    BY <1>2, <1>3, <2>2 DEF Holds
  <2> QED
    BY <2>1, <2>2 DEF Holds
<1> QED
  BY <1>4, <1>5

\* A Host line, or a blank one: the block that was open is shut.
LEMMA FoundAtEnd ==
  ASSUME NEW lines \in Seq(SomeLine), Plain(lines), NEW n \in Nat, n + 1 <= Len(lines),
         NEW acc \in Reading, Found(lines, n, acc.hosts), Holds(lines, n, acc.block),
         lines[n + 1].key \in {"host", "blank"}
  PROVE  LET next == take(acc, lines[n + 1]) IN
         Found(lines, n + 1, next.hosts) /\ Holds(lines, n + 1, next.block)
<1> DEFINE m == n + 1
           next == take(acc, lines[m])
<1>1. m \in 1 .. Len(lines) /\ lines[m] \in SomeLine /\ m \in Nat /\ acc.block \in SomeBlock /\ acc.hosts \in Seq(Text)
  BY BlocksAre DEF Reading
<1>2. /\ next.hosts = Then(acc.hosts, Offer(acc.block))
      /\ lines[m].key = "blank" => next.block.host = Unset
      /\ lines[m].key = "host" => next.block.host = lines[m].val /\ \A f \in Names : next.block[f] = Unset
  BY <1>1, TakeIs
<1>3. Range(next.hosts) = Range(acc.hosts) \cup Range(Offer(acc.block))
  BY <1>1, <1>2, OffersAreTexts, ThenIs
<1>4. ASSUME NEW i PROVE /\ Shut(lines, i, m) <=> Shut(lines, i, n) \/ Open(lines, i, n)
                         /\ Open(lines, i, m) <=> i = m /\ lines[m].key = "host"
  <2>1. \A k : k \in 1 .. m <=> k \in 1 .. n \/ k = m
    OBVIOUS
  <2>2. i \in Blocks(lines) => i \in Nat /\ (i <= m <=> i <= n \/ i = m)
    BY BlocksAre
  <2>3. i \in Nat /\ i <= n => Ends(lines, i, m)
    BY DEF Ends
  <2>4. i = m => \A k \in 1 .. m : ~Ends(lines, i, k)
    BY DEF Ends
  <2>5. m \in Blocks(lines) <=> lines[m].key = "host"
    BY <1>1, BlocksAre
  <2>6. ~(m <= n) /\ m <= m
    OBVIOUS
  <2> HIDE DEF m
  <2>7. Shut(lines, i, m) <=> Shut(lines, i, n) \/ Open(lines, i, n)
    BY <2>1, <2>2, <2>3, <2>4, <2>6 DEF Shut, Open
  <2>8. Open(lines, i, m) <=> i = m /\ lines[m].key = "host"
    BY <1>1, <2>1, <2>2, <2>3, <2>4, <2>5, <2>6 DEF Shut, Open
  <2> QED
    BY <2>7, <2>8
<1>5. ASSUME NEW t PROVE t \in Range(Offer(acc.block)) <=> \E i : Open(lines, i, n) /\ Offers(lines, i, t)
  <2>1. CASE \E i : Open(lines, i, n) /\ Records(lines, i, n, acc.block)
    <3>1. PICK i : Open(lines, i, n) /\ Records(lines, i, n, acc.block)
      BY <2>1
    <3>2. ASSUME NEW f \in Names PROVE acc.block[f] = SaysTo(lines, i, Len(lines), f)
      <4>1. SaysTo(lines, i, n, f) = SaysTo(lines, i, Len(lines), f)
        BY <3>1, AllSaid
      <4> QED
        BY <3>1, <4>1 DEF Records
    <3>3. Records(lines, i, Len(lines), acc.block)
      BY <3>1, <3>2 DEF Records
    <3>4. acc.block = Full(lines, i)
      BY <1>1, <3>3, RecordsAll
    <3>5. \A j : Open(lines, j, n) => j = i
      <4>1. n \in 0 .. Len(lines)
        BY BlocksAre
      <4> QED
        BY <3>1, <4>1, OneOpen
    <3> QED
      BY <3>1, <3>4, <3>5 DEF Offers
  <2>2. CASE acc.block.host = Unset /\ \A i : ~Open(lines, i, n)
    <3>1. Range(Offer(acc.block)) = {}
      BY <1>1, <2>2, NoHostNoOffer, NilIsEmpty
    <3> QED
      BY <2>2, <3>1
  <2> QED
    BY <2>1, <2>2 DEF Holds
<1>6. Found(lines, m, next.hosts)
  <2> SUFFICES ASSUME NEW t PROVE t \in Range(next.hosts) <=> \E i : Shut(lines, i, m) /\ Offers(lines, i, t)
    BY DEF Found
  <2>1. t \in Range(next.hosts) <=> t \in Range(acc.hosts) \/ t \in Range(Offer(acc.block))
    BY <1>3
  <2>2. t \in Range(acc.hosts) <=> \E i : Shut(lines, i, n) /\ Offers(lines, i, t)
    BY DEF Found
  <2> HIDE DEF m, next
  <2> QED
    BY <1>4, <1>5, <2>1, <2>2
<1>7. Holds(lines, m, next.block)
  <2>1. CASE lines[m].key = "blank"
    BY <1>2, <1>4, <2>1 DEF Holds
  <2>2. CASE lines[m].key = "host"
    <3>1. ASSUME NEW f PROVE SaysTo(lines, m, m, f) = Unset
      <4>1. SaysAt(lines, m, m, f) = {}
        BY BlocksAre DEF SaysAt
      <4> QED
        BY <4>1 DEF SaysTo
    <3>2. Records(lines, m, m, next.block)
      BY <1>2, <2>2, <3>1 DEF Records
    <3>3. Open(lines, m, m)
      BY <1>4, <2>2
    <3> QED
      BY <3>2, <3>3 DEF Holds
  <2> QED
    BY <2>1, <2>2
<1> QED
  BY <1>6, <1>7

\* So after every line.
LEMMA FoundSoFar ==
  ASSUME NEW lines \in Seq(SomeLine), Plain(lines), NEW r, Reads(lines, r), NEW n \in 0 .. Len(lines)
  PROVE  Found(lines, n, r[n].hosts) /\ Holds(lines, n, r[n].block)
<1> DEFINE Good(i) == Found(lines, i, r[i].hosts) /\ Holds(lines, i, r[i].block)
           Bad == {i \in 0 .. Len(lines) : ~Good(i)}
<1>0. Len(lines) \in Nat
  BY BlocksAre
<1>1. Good(0)
  BY FoundAtFirst DEF Reads
<1>2. ASSUME NEW i \in 1 .. Len(lines), Good(i - 1) PROVE Good(i)
  <2> DEFINE p == i - 1
  <2>1. p \in Nat /\ p + 1 = i /\ p + 1 <= Len(lines) /\ p \in 0 .. Len(lines)
    BY <1>0
  <2>2. r[p] \in Reading /\ r[i] = take(r[p], lines[i])
    BY <2>1 DEF Reads
  <2>3. Found(lines, p, r[p].hosts) /\ Holds(lines, p, r[p].block)
    BY <1>2
  <2> HIDE DEF p, Good
  <2>4. Found(lines, i, r[i].hosts) /\ Holds(lines, i, r[i].block)
    BY <2>1, <2>2, <2>3, FoundInside, FoundAtEnd
  <2> QED
    BY <2>4 DEF Good
<1> SUFFICES ASSUME n \in Bad PROVE FALSE
  OBVIOUS
<1>3. Bad \subseteq Nat /\ Bad # {}
  BY <1>0
<1> HIDE DEF Good
<1>4. PICK i \in Bad : \A j \in Bad : i <= j
  <2> HIDE DEF Bad
  <2> QED
    BY <1>3, Least
<1>5. i # 0
  BY <1>1, <1>4
<1>6. i \in 1 .. Len(lines) /\ i - 1 \in 0 .. Len(lines) /\ i - 1 \notin Bad
  BY <1>0, <1>4, <1>5
<1> QED
  BY <1>2, <1>4, <1>6

\* The hosts of a plain file are the offers of its blocks.
LEMMA HostsAreOffers ==
  ASSUME NEW lines \in Seq(SomeLine), Plain(lines), NEW t
  PROVE  t \in Range(discover_ssh_hosts(lines)) <=> \E i \in Blocks(lines) : Offers(lines, i, t)
<1> DEFINE n == Len(lines)
<1>1. PICK r : /\ Reads(lines, r)
               /\ discover_ssh_hosts(lines) = Then(r[n].hosts, Offer(r[n].block))
  BY LinesRead
<1>2. n \in Nat /\ n \in 0 .. n
  BY BlocksAre
<1>3. r[n].hosts \in Seq(Text) /\ r[n].block \in SomeBlock
  BY <1>1, <1>2 DEF Reads, Reading
<1>4. Range(discover_ssh_hosts(lines)) = Range(r[n].hosts) \cup Range(Offer(r[n].block))
  <2>1. Offer(r[n].block) \in Seq(Text)
    BY <1>3, OffersAreTexts
  <2> HIDE DEF n
  <2> QED
    BY <1>1, <1>3, <2>1, ThenIs
<1>5. Found(lines, n, r[n].hosts) /\ Holds(lines, n, r[n].block)
  BY <1>1, <1>2, FoundSoFar
<1>6. t \in Range(Offer(r[n].block)) <=> \E i : Open(lines, i, n) /\ Offers(lines, i, t)
  <2>1. CASE \E i : Open(lines, i, n) /\ Records(lines, i, n, r[n].block)
    <3>1. PICK i : Open(lines, i, n) /\ Records(lines, i, n, r[n].block)
      BY <2>1
    <3>2. r[n].block = Full(lines, i)
      BY <1>3, <3>1, RecordsAll
    <3>3. \A j : Open(lines, j, n) => j = i
      BY <1>2, <3>1, OneOpen
    <3> QED
      BY <3>1, <3>2, <3>3 DEF Offers
  <2>2. CASE r[n].block.host = Unset /\ \A i : ~Open(lines, i, n)
    <3>1. Range(Offer(r[n].block)) = {}
      BY <1>3, <2>2, NoHostNoOffer, NilIsEmpty
    <3> QED
      BY <2>2, <3>1
  <2> QED
    BY <1>5, <2>1, <2>2 DEF Holds
<1>7. \A i : i \in Blocks(lines) <=> Open(lines, i, n) \/ Shut(lines, i, n)
  BY BlocksAre DEF Open, Shut
<1>8. t \in Range(r[n].hosts) <=> \E i : Shut(lines, i, n) /\ Offers(lines, i, t)
  BY <1>5 DEF Found
<1> HIDE DEF n
<1> QED
  BY <1>4, <1>6, <1>7, <1>8

\* What is said is said in a line.
LEMMA SaidInLine ==
  ASSUME NEW lines \in Seq(SomeLine), NEW i, NEW n, NEW f, SaysTo(lines, i, n, f) # Unset
  PROVE  \E j \in DOMAIN lines : lines[j].key = f /\ SaysTo(lines, i, n, f) = lines[j].val /\ lines[j].val \in Value
<1> DEFINE at == SaysAt(lines, i, n, f)
<1>1. at \subseteq DOMAIN lines /\ at \subseteq Nat /\ \A j \in at : lines[j].key = f
  BY BlocksAre DEF SaysAt
<1>2. at # {}
  BY DEF SaysTo
<1>3. SaysTo(lines, i, n, f) = lines[Min(at)].val
  BY <1>2 DEF SaysTo
<1> HIDE DEF at
<1>4. Min(at) \in at
  BY <1>1, <1>2, Smallest
<1>5. lines[Min(at)].val \in Value
  BY <1>1, <1>4, BlocksAre DEF SomeLine
<1> QED
  BY <1>1, <1>3, <1>4, <1>5

\* What is said, or else.
LEMMA SaysIs ==
  ASSUME NEW lines \in Seq(SomeLine), NEW i, NEW f, NEW default
  PROVE  Says(lines, i, f, default) = Or(SaysTo(lines, i, Len(lines), f), default)
<1> DEFINE at == {j \in BlockOf(lines, i) : lines[j].key = f}
<1>1. SaysAt(lines, i, Len(lines), f) = at
  BY BlocksAre DEF SaysAt
<1>2. Says(lines, i, f, default) = IF at = {} THEN default ELSE lines[Min(at)].val
  BY DEF Says
<1>3. SaysTo(lines, i, Len(lines), f) = IF at = {} THEN Unset ELSE lines[Min(at)].val
  BY <1>1 DEF SaysTo
<1>4. CASE at = {}
  <2> HIDE DEF at
  <2> QED
    BY <1>2, <1>3, <1>4 DEF Or
<1>5. CASE at # {}
  <2> HIDE DEF at
  <2> DEFINE v == lines[Min(at)].val
  <2>1. v = Unset => v \in Value
    <3>1. at \subseteq Nat /\ at \subseteq 1 .. Len(lines)
      BY BlocksAre DEF at
    <3>2. Min(at) \in at
      BY <1>5, <3>1, Smallest
    <3> QED
      BY <3>1, <3>2, BlocksAre DEF SomeLine
  <2>2. v # Unset
    BY <2>1, ValuesAreTexts
  <2> HIDE DEF v
  <2>3. Says(lines, i, f, default) = v /\ SaysTo(lines, i, Len(lines), f) = v
    BY <1>2, <1>3, <1>5 DEF v
  <2> QED
    BY <2>2, <2>3 DEF Or
<1> QED
  BY <1>4, <1>5

\* What a block says of a user, a host and a port.
SaidUser(lines, i) == Or(SaysTo(lines, i, Len(lines), "user"), <<"root">>)
SaidHost(lines, i) == SaysTo(lines, i, Len(lines), "hostname")
SaidPort(lines, i) == Or(SaysTo(lines, i, Len(lines), "port"), <<"22">>)

\* A user of a plain file can be said in a target,
LEMMA UserSaid ==
  ASSUME NEW lines \in Seq(SomeLine), Plain(lines), NEW i
  PROVE  SaidUser(lines, i) \in Text /\ ~Empty(SaidUser(lines, i)) /\ "@" \notin Range(SaidUser(lines, i))
<1> DEFINE v == SaysTo(lines, i, Len(lines), "user")
<1>1. CASE v = Unset
  <2>1. "root" \in Token /\ "root" # "@"
    BY DEF Token
  <2>2. SaidUser(lines, i) = Only("root")
    BY <1>1 DEF SaidUser, Or, Only
  <2>3. Only("root") \in Seq(Token) /\ Len(Only("root")) = 1 /\ Range(Only("root")) = {"root"}
    BY <2>1, OnlyIs
  <2>4. ~Empty(Only("root"))
    BY <2>3, Tokens DEF Empty
  <2> QED
    BY <2>1, <2>2, <2>3, <2>4 DEF Text
<1>2. CASE v # Unset
  <2>1. PICK j \in DOMAIN lines : lines[j].key = "user" /\ v = lines[j].val /\ lines[j].val \in Value
    BY <1>2, SaidInLine
  <2>2. lines[j].val # <<>> /\ "@" \notin Range(lines[j].val)
    BY <2>1 DEF Plain
  <2> HIDE DEF v
  <2>3. SaidUser(lines, i) = v
    BY <1>2 DEF SaidUser, Or, v
  <2> QED
    BY <2>1, <2>2, <2>3, ValuesAreTexts DEF Empty
<1> QED
  BY <1>1, <1>2

\* and so can a host,
LEMMA HostSaid ==
  ASSUME NEW lines \in Seq(SomeLine), Plain(lines), NEW i, SaidHost(lines, i) # Unset
  PROVE  /\ SaidHost(lines, i) \in Text /\ Blank \notin Range(SaidHost(lines, i))
         /\ ":" \notin Range(SaidHost(lines, i)) /\ "[" \notin Range(SaidHost(lines, i))
<1> DEFINE v == SaidHost(lines, i)
<1>1. PICK j \in DOMAIN lines : lines[j].key = "hostname" /\ v = lines[j].val /\ lines[j].val \in Value
  BY SaidInLine DEF SaidHost
<1>2. Range(lines[j].val) \cap {Blank, ":", "["} = {}
  BY <1>1 DEF Plain
<1> HIDE DEF v
<1>3. Blank \notin Range(v) /\ ":" \notin Range(v) /\ "[" \notin Range(v)
  BY <1>1, <1>2
<1> QED
  BY <1>1, <1>3, ValuesAreTexts DEF v

\* and a port.
LEMMA PortSaid ==
  ASSUME NEW lines \in Seq(SomeLine), Plain(lines), NEW i
  PROVE  \E d \in DOMAIN Digits : SaidPort(lines, i) = Only(d) /\ SaidPort(lines, i)[1] = d /\ Digits[d] \in Port
<1> DEFINE v == SaysTo(lines, i, Len(lines), "port")
<1>1. CASE v = Unset
  <2>1. SaidPort(lines, i) = Only("22")
    BY <1>1 DEF SaidPort, Or, Only
  <2>2. "22" \in DOMAIN Digits /\ Digits["22"] \in Port
    BY SshTargetAssumption, PortsAre
  <2>3. Only("22")[1] = "22"
    BY <2>2, OnlyIs
  <2> QED
    BY <2>1, <2>2, <2>3
<1>2. CASE v # Unset
  <2>1. PICK j \in DOMAIN lines : lines[j].key = "port" /\ v = lines[j].val /\ lines[j].val \in Value
    BY <1>2, SaidInLine
  <2>2. Ports(lines[j].val) # {}
    BY <2>1 DEF Plain
  <2> HIDE DEF v
  <2>3. Len(v) = 1 /\ v[1] \in DOMAIN Digits /\ Digits[v[1]] \in 0 .. U16
    BY <2>1, <2>2 DEF Ports
  <2>4. Digits[v[1]] \in Port
    BY <2>3 DEF Port
  <2>5. v = <<v[1]>>
    BY <2>1, <2>3 DEF Value
  <2>6. SaidPort(lines, i) = v
    BY <1>2 DEF SaidPort, Or, v
  <2> QED
    BY <2>3, <2>4, <2>5, <2>6 DEF Only
<1> QED
  BY <1>1, <1>2

\* The target a block is offered for.
Means(lines, i) == Target(SaidUser(lines, i), SaidHost(lines, i), Digits[SaidPort(lines, i)[1]])
Offered(lines, i) ==
  /\ lines[i].val # <<"*">> /\ SaidHost(lines, i) # Unset /\ ~Empty(SaidHost(lines, i))
  /\ ~is_git_host(SaidUser(lines, i), SaidHost(lines, i))

\* What is offered is read as what the block says.
LEMMA OfferReads ==
  ASSUME NEW lines \in Seq(SomeLine), Plain(lines), NEW i \in Blocks(lines), NEW t
  PROVE  /\ Offers(lines, i, t) => Offered(lines, i) /\ parse_target(t) = Means(lines, i)
         /\ Offered(lines, i) => \E o : Offers(lines, i, o)
<1> DEFINE b == Full(lines, i)
           user == SaidUser(lines, i)
           host == SaidHost(lines, i)
           port == SaidPort(lines, i)
<1>1. b \in SomeBlock /\ b.host = lines[i].val /\ b.hostname = host
      /\ Or(b.user, <<"root">>) = user /\ Or(b.port, <<"22">>) = port
  BY FullIs DEF Full, SaidUser, SaidHost, SaidPort
<1>2. b.host # Unset
  <2>1. lines[i] \in SomeLine
    BY BlocksAre
  <2>2. lines[i].val \in Value
    BY <2>1 DEF SomeLine
  <2> HIDE DEF b, host, user, port
  <2> QED
    BY <1>1, <2>2, ValuesAreTexts
<1> DEFINE tail == IF port = <<"22">> THEN Nil ELSE Then(Only(":"), port)
           text == Then(Then(Then(user, Only("@")), host), tail)
<1>3. /\ ~Offered(lines, i) => Offer(b) = Nil
      /\ Offered(lines, i) => Offer(b) = Only(text)
  <2> HIDE DEF b, user, host, port
  <2>1. /\ b.host \in {Unset, <<"*">>} \/ b.hostname = Unset \/ Empty(b.hostname)
                  \/ is_git_host(user, b.hostname) => Offer(b) = Nil
        /\ b.host \notin {Unset, <<"*">>} /\ b.hostname # Unset /\ ~Empty(b.hostname)
                  /\ ~is_git_host(user, b.hostname) =>
             Offer(b) = Only(Then(Then(Then(user, Only("@")), b.hostname), tail))
    BY <1>1, OfferIs
  <2> HIDE DEF tail
  <2>2. Offered(lines, i) <=> b.host \notin {Unset, <<"*">>} /\ b.hostname # Unset /\ ~Empty(b.hostname)
                  /\ ~is_git_host(user, b.hostname)
    BY <1>1, <1>2 DEF Offered, user, host
  <2> QED
    BY <1>1, <2>1, <2>2
<1>4. CASE ~Offered(lines, i)
  <2>1. Range(Offer(b)) = {}
    BY <1>3, <1>4, NilIsEmpty
  <2> QED
    BY <1>4, <2>1 DEF Offers
<1>5. CASE Offered(lines, i)
  <2>1. user \in Text /\ ~Empty(user) /\ "@" \notin Range(user)
    BY UserSaid
  <2>2. /\ host \in Text /\ Blank \notin Range(host) /\ ":" \notin Range(host) /\ "[" \notin Range(host)
        /\ ~Empty(host)
    BY <1>5, HostSaid DEF Offered
  <2>3. PICK d \in DOMAIN Digits : port = Only(d) /\ port[1] = d /\ Digits[d] \in Port
    BY PortSaid
  <2>4. Only("@") \in Text /\ Only(":") \in Text /\ Only(d) \in Text /\ Nil \in Text
    BY <2>3, Marks, OnlyIs, NilIsEmpty DEF Text
  <2>5. text = Then(Then(user, Only("@")), Then(host, tail)) /\ text = Then(user, Then(Only("@"), Then(host, tail)))
        /\ tail \in Text /\ text \in Text
    <3>1. Then(Only(":"), port) \in Text
      BY <2>3, <2>4, ThenIs DEF Text
    <3>2. tail \in Text
      BY <2>4, <3>1
    <3> HIDE DEF user, host, port, tail
    <3>3. Then(user, Only("@")) \in Text /\ Then(host, tail) \in Text
      BY <2>1, <2>2, <2>4, <3>2, ThenIs DEF Text
    <3>4. Then(Then(Then(user, Only("@")), host), tail) = Then(Then(user, Only("@")), Then(host, tail))
      BY <2>2, <3>2, <3>3, Regroups DEF Text
    <3>5. Then(Then(user, Only("@")), Then(host, tail)) = Then(user, Then(Only("@"), Then(host, tail)))
      BY <2>1, <2>4, <3>3, Regroups DEF Text
    <3>6. Then(user, Then(Only("@"), Then(host, tail))) \in Text
      BY <2>1, <2>4, <3>3, ThenIs DEF Text
    <3> QED
      BY <3>2, <3>4, <3>5, <3>6
  <2>6. parse_target(text) = Target(user, host, Digits[d])
    <3>1. CASE port = <<"22">>
      <4>1. tail = Nil
        BY <3>1
      <4>2. d = "22"
        <5>1. port[1] = "22"
          BY <3>1
        <5> QED
          BY <2>3, <5>1
      <4> HIDE DEF user, host, port, tail, text
      <4>3. Then(host, tail) = host
        BY <2>2, <4>1, ThenNil DEF Text
      <4>4. text = Then(user, Then(Only("@"), host))
        BY <2>5, <4>3 DEF text
      <4>5. parse_target(text) = Target(user, host, SshPort)
        BY <2>1, <2>2, <4>4, PortlessReads
      <4>6. Digits["22"] = SshPort
        BY SshTargetAssumption
      <4> QED
        BY <4>2, <4>5, <4>6
    <3>2. CASE port # <<"22">>
      <4>1. tail = Then(Only(":"), Only(d))
        BY <2>3, <3>2
      <4> HIDE DEF user, host, port, tail
      <4>2. text = Then(user, Then(Only("@"), Then(host, Then(Only(":"), Only(d)))))
        BY <2>5, <4>1
      <4> HIDE DEF text
      <4> QED
        BY <2>1, <2>2, <2>3, <4>2, PortedReads
    <3> QED
      BY <3>1, <3>2
  <2>7. Range(Offer(b)) = {text}
    <3> HIDE DEF text, b
    <3>1. Range(Only(text)) = {text}
      BY <2>5, OnlyIs
    <3> QED
      BY <1>3, <1>5, <3>1
  <2>8. Means(lines, i) = Target(user, host, Digits[d])
    BY <2>3 DEF Means
  <2> HIDE DEF text
  <2> QED
    BY <1>5, <2>6, <2>7, <2>8 DEF Offers
<1> QED
  BY <1>4, <1>5

\* What is described.
LEMMA DescribedIs ==
  ASSUME NEW lines \in Seq(SomeLine), NEW t
  PROVE  t \in Described(lines) <=> \E i \in Blocks(lines) : Offered(lines, i) /\ t = Means(lines, i)
<1> DEFINE D(i) == Target(SaidUser(lines, i), Or(SaidHost(lines, i), <<>>), Digits[SaidPort(lines, i)[1]])
<1>1. Described(lines) =
        {x \in {D(i) : i \in {b \in Blocks(lines) : lines[b].val # <<"*">>}} :
           x.host # <<>> /\ ~is_git_host(x.user, x.host)}
  <2>1. ASSUME NEW i PROVE /\ Says(lines, i, "user", <<"root">>) = SaidUser(lines, i)
                           /\ Says(lines, i, "hostname", <<>>) = Or(SaidHost(lines, i), <<>>)
                           /\ Says(lines, i, "port", <<"22">>) = SaidPort(lines, i)
    BY SaysIs DEF SaidUser, SaidHost, SaidPort
  <2> QED
    BY <2>1 DEF Described
<1>2. ASSUME NEW i PROVE /\ D(i).user = SaidUser(lines, i) /\ D(i).host = Or(SaidHost(lines, i), <<>>)
  BY TargetParts
<1>3. ASSUME NEW i PROVE Or(SaidHost(lines, i), <<>>) # <<>> <=> SaidHost(lines, i) # Unset /\ ~Empty(SaidHost(lines, i))
  BY DEF Or, Empty
<1>4. ASSUME NEW i, SaidHost(lines, i) # Unset PROVE Or(SaidHost(lines, i), <<>>) = SaidHost(lines, i) /\ D(i) = Means(lines, i)
  <2>1. Or(SaidHost(lines, i), <<>>) = SaidHost(lines, i)
    BY <1>4 DEF Or
  <2> QED
    BY <2>1 DEF Means
<1> HIDE DEF D
<1>5. ASSUME t \in Described(lines) PROVE \E i \in Blocks(lines) : Offered(lines, i) /\ t = Means(lines, i)
  <2>1. PICK i \in Blocks(lines) : lines[i].val # <<"*">> /\ t = D(i)
    BY <1>1, <1>5
  <2>2. t.host # <<>> /\ ~is_git_host(t.user, t.host)
    BY <1>1, <1>5
  <2>3. SaidHost(lines, i) # Unset /\ ~Empty(SaidHost(lines, i))
    BY <1>2, <1>3, <2>1, <2>2
  <2>4. t = Means(lines, i) /\ ~is_git_host(SaidUser(lines, i), SaidHost(lines, i))
    BY <1>2, <1>4, <2>1, <2>2, <2>3
  <2> QED
    BY <2>1, <2>3, <2>4 DEF Offered
<1>6. ASSUME NEW i \in Blocks(lines), Offered(lines, i), t = Means(lines, i) PROVE t \in Described(lines)
  <2>1. t = D(i) /\ lines[i].val # <<"*">> /\ t.host # <<>> /\ ~is_git_host(t.user, t.host)
    BY <1>2, <1>3, <1>4, <1>6 DEF Offered
  <2> QED
    BY <1>1, <2>1
<1> QED
  BY <1>5, <1>6

\* The dialogue offers what a plain file describes.
LEMMA PlainIsOffered ==
  ASSUME NEW lines \in Seq(SomeLine), Plain(lines)
  PROVE  {parse_target(h) : h \in Range(discover_ssh_hosts(lines))} = Described(lines)
<1>1. ASSUME NEW h \in Range(discover_ssh_hosts(lines)) PROVE parse_target(h) \in Described(lines)
  <2>1. PICK i \in Blocks(lines) : Offers(lines, i, h)
    BY HostsAreOffers
  <2>2. Offered(lines, i) /\ parse_target(h) = Means(lines, i)
    BY <2>1, OfferReads
  <2> QED
    BY <2>2, DescribedIs
<1>2. ASSUME NEW t \in Described(lines) PROVE \E h \in Range(discover_ssh_hosts(lines)) : parse_target(h) = t
  <2>1. PICK i \in Blocks(lines) : Offered(lines, i) /\ t = Means(lines, i)
    BY DescribedIs
  <2>2. PICK h : Offers(lines, i, h)
    BY <2>1, OfferReads
  <2>3. h \in Range(discover_ssh_hosts(lines))
    BY <2>2, HostsAreOffers
  <2>4. parse_target(h) = t
    BY <2>1, <2>2, OfferReads
  <2> QED
    BY <2>3, <2>4
<1> QED
  BY <1>1, <1>2

-----------------------------------------------------------------------------
(* The start.                                                              *)

\* The arguments, as far as build_config looks at them.
LEMMA ArgumentsKept ==
  ASSUME NEW a, CliTyped(a), NEW text
  PROVE  LET b == [a EXCEPT !.target = text] IN
         /\ b.target = text /\ b.config = a.config /\ CliTyped(b)
         /\ \A home : Auth(b, home) = Auth(a, home)
         /\ CliListen(b) = CliListen(a) /\ (ListenFault(b) <=> ListenFault(a))
<1> DEFINE b == [a EXCEPT !.target = text]
           Kept == {"config", "agent", "password", "identity", "socks5", "no_socks5", "http", "proxy_user",
                    "proxy_password", "helper_path", "allow", "keepalive", "dial_wait"}
<1>1. Kept \subseteq DOMAIN a /\ "target" \in DOMAIN a
  BY DEF CliTyped, CliDefault
<1>2. DOMAIN b = DOMAIN a /\ b.target = text /\ \A f \in Kept : b[f] = a[f]
  BY <1>1
<1>3. /\ b.config = a.config /\ b.agent = a.agent /\ b.password = a.password /\ b.identity = a.identity
      /\ b.socks5 = a.socks5 /\ b.no_socks5 = a.no_socks5 /\ b.http = a.http
      /\ b.proxy_user = a.proxy_user /\ b.proxy_password = a.proxy_password
      /\ b.helper_path = a.helper_path /\ b.allow = a.allow
      /\ b.keepalive = a.keepalive /\ b.dial_wait = a.dial_wait
  BY <1>1, <1>2
<1> HIDE DEF b
<1>4. CliTyped(b)
  BY <1>2, <1>3 DEF CliTyped
<1>5. \A home : Auth(b, home) = Auth(a, home)
  BY <1>3 DEF Auth
<1>6. CliListen(b) = CliListen(a)
  BY <1>3 DEF CliListen
<1>7. ListenFault(b) <=> ListenFault(a)
  BY <1>6 DEF ListenFault
<1> QED
  BY <1>2, <1>3, <1>4, <1>5, <1>6, <1>7 DEF b

\* The greater of two numbers.
LEMMA AtLeastOne ==
  ASSUME NEW k \in Nat
  PROVE  Max({k, 1}) \in Nat /\ Max({k, 1}) > 0
<1> DEFINE S == {k, 1}
<1>1. k + 1 \in Nat /\ S \subseteq 0 .. k + 1 /\ S # {} /\ 1 \in S
  OBVIOUS
<1> HIDE DEF S
<1>2. Max(S) \in S /\ \A y \in S : y <= Max(S)
  BY <1>1, Greatest
<1> DEFINE m == Max(S)
<1>3. m \in S /\ 1 <= m
  BY <1>1, <1>2
<1> HIDE DEF m
<1>4. m \in Nat /\ m > 0
  BY <1>1, <1>3
<1> QED
  BY <1>4 DEF S, m

\* The faults of a configuration from the command line: a blank host or user, or
\* nothing to listen on.
LEMMA CliFaults ==
  ASSUME NEW a, NEW gate, NEW auth
  PROVE  validate(CliConfig(a, gate, auth)) <=>
           /\ ~Blanks(gate.host) /\ ~Blanks(gate.user)
           /\ ~(CliListen(a).socks5 = None /\ CliListen(a).http = None)
<1> DEFINE c == CliConfig(a, gate, auth)
<1>1. /\ c.host = gate.host /\ c.user = gate.user /\ c.listen = CliListen(a) /\ c.keepalive_max = 3
      /\ c.reconnect = [ReconnectDefault EXCEPT !.dial_wait = Max({a.dial_wait, 1})]
      /\ c.helper = [HelperDefault EXCEPT !.remote_path = a.helper_path, !.allow = a.allow]
  BY DEF CliConfig
<1>2. c.reconnect.multiplier = 200 /\ c.reconnect.jitter = 20 /\ c.helper.stream_window = "4194304"
  BY <1>1 DEF ReconnectDefault, HelperDefault
<1> HIDE DEF c
<1>3. "4194304" # "0"
  OBVIOUS
<1>4. /\ ~(c.keepalive_max = 0) /\ ~(c.reconnect.multiplier < 100) /\ c.reconnect.jitter \in 0 .. 100
      /\ ~(c.helper.stream_window = "0")
  BY <1>1, <1>2, <1>3
<1>5. validate(c) <=> /\ ~Blanks(c.host) /\ ~Blanks(c.user)
                      /\ ~(c.listen.socks5 = None /\ c.listen.http = None)
  <2>1. validate(c) <=> \A f \in {"host", "user", "listen", "keepalive_max", "multiplier", "jitter", "window"} : f \notin Faults(c)
    BY DEF validate, Faults
  <2>2. /\ "host" \in Faults(c) <=> Blanks(c.host)
        /\ "user" \in Faults(c) <=> Blanks(c.user)
        /\ "listen" \in Faults(c) <=> c.listen.socks5 = None /\ c.listen.http = None
        /\ "keepalive_max" \notin Faults(c) /\ "multiplier" \notin Faults(c)
        /\ "jitter" \notin Faults(c) /\ "window" \notin Faults(c)
    BY <1>4 DEF Faults
  <2> QED
    BY <2>1, <2>2
<1> QED
  BY <1>1, <1>5 DEF c

\* What build_config refuses, when no file is given.
LEMMA RefusedIs ==
  ASSUME NEW a, NEW home, a.config = NoFile
  PROVE  LET gate == parse_target(a.target)
             auth == Auth(a, home)
             cfgs == CliConfig(a, gate, auth)
         IN  /\ build_config(a, home) = Refused <=>
                  \/ a.target = <<>> \/ gate = BadTarget
                  \/ auth = Refused \/ ListenFault(a) \/ ~validate(cfgs)
             /\ build_config(a, home) # Refused =>
                  build_config(a, home) = [cfg |-> cfgs, warnings |-> CliWarnings(a, gate)]
<1> DEFINE gate == parse_target(a.target)
           auth == Auth(a, home)
           cfgs == CliConfig(a, gate, auth)
           done == [cfg |-> cfgs, warnings |-> CliWarnings(a, gate)]
           bad == a.target = <<>> \/ gate = BadTarget
           worse == auth = Refused \/ ListenFault(a) \/ ~validate(cfgs)
<1>1. done # Refused
  <2>1. "cfg" \in DOMAIN done /\ "cfg" \notin DOMAIN Refused
    BY DEF Refused
  <2> HIDE DEF done
  <2> QED
    BY <2>1
<1>2. build_config(a, home) = IF bad THEN Refused ELSE IF worse THEN Refused ELSE done
  BY DEF build_config
<1> HIDE DEF done, bad, worse
<1>3. /\ build_config(a, home) = Refused <=> bad \/ worse
      /\ build_config(a, home) # Refused => build_config(a, home) = done
  BY <1>1, <1>2
<1> QED
  BY <1>3, Zenon DEF done, bad, worse

\* A target that can be read and holds no blank is never why build_config refuses.
LEMMA RefusedForAll ==
  ASSUME NEW a, CliTyped(a), NEW home, a.target \in Text, parse_target(a.target) # BadTarget,
         Blank \notin Range(a.target), build_config(a, home) = Refused, NEW text
  PROVE  build_config([a EXCEPT !.target = text], home) = Refused
<1> DEFINE b == [a EXCEPT !.target = text]
<1>0. /\ b.config = a.config /\ Auth(b, home) = Auth(a, home)
      /\ CliListen(b) = CliListen(a) /\ (ListenFault(b) <=> ListenFault(a))
  BY ArgumentsKept
<1> HIDE DEF b
<1>1. CASE a.config # NoFile
  BY <1>0, <1>1 DEF build_config, b
<1>2. CASE a.config = NoFile
  <2>1. a.target # <<>>
    <3>1. ASSUME a.target = <<>> PROVE FALSE
      <4>1. "@" \notin Range(a.target)
        BY <3>1, NilIsEmpty DEF Nil
      <4> QED
        BY <4>1 DEF parse_target
    <3> QED
      BY <3>1
  <2>2. PICK user \in Text, host \in Text, p \in Port :
           /\ parse_target(a.target) = Target(user, host, p)
           /\ ~Empty(user) /\ Range(user) \subseteq Range(a.target)
           /\ ~Empty(host) /\ Blank \notin Range(host)
    BY ParsedIs
  <2>3. ASSUME NEW s \in Text, ~Empty(s), Blank \notin Range(s) PROVE ~Blanks(s)
    BY <2>3, FirstToken DEF Blanks, Text
  <2>4. ~Blanks(user) /\ ~Blanks(host)
    <3>1. Blank \notin Range(user)
      BY <2>2
    <3> QED
      BY <2>2, <2>3, <3>1
  <2> DEFINE t == parse_target(a.target)
             u == parse_target(b.target)
  <2>5. ~Blanks(t.user) /\ ~Blanks(t.host)
    BY <2>2, <2>4, TargetParts
  <2>6. Auth(a, home) = Refused \/ ListenFault(a) \/ ~validate(CliConfig(a, t, Auth(a, home)))
    BY <1>2, <2>1, RefusedIs
  <2>7. Auth(b, home) = Refused \/ ListenFault(b) \/ ~validate(CliConfig(b, u, Auth(b, home)))
    <3> HIDE DEF t, u
    <3> QED
      BY <1>0, <2>5, <2>6, CliFaults
  <2>8. b.config = NoFile
    BY <1>0, <1>2
  <2>9. build_config(b, home) = Refused
    BY <2>7, <2>8, RefusedIs
  <2> QED
    BY <2>9 DEF b
<1> QED
  BY <1>1, <1>2

\* What is built is a configuration, is valid, and holds texts.
Helpful(helper) ==
  helper.remote_path \in Text /\ helper.stream_window \in Plainly /\ helper.allow \in Seq(Text)

\* A configuration that is built has been validated; from the command line its
\* keepalive and its wait for a dial are positive.
LEMMA BuiltIs ==
  ASSUME NEW a, CliTyped(a), NEW home, build_config(a, home) # Refused
  PROVE  LET c == build_config(a, home).cfg IN
         /\ c # Refused /\ validate(c) /\ Helpful(c.helper)
         /\ a.config = NoFile => c.keepalive > 0 /\ c.reconnect.dial_wait > 0
<1> DEFINE c == build_config(a, home).cfg
<1>0. STRING \subseteq Token /\ Seq(STRING) \subseteq Text /\ Seq(Seq(STRING)) \subseteq Seq(Text)
  BY ShellMarks, SeqMonotonic DEF Text
<1>1. CASE a.config # NoFile
  <2>1. build_config(a, home) = load(a.config)
    BY <1>1 DEF build_config
  <2>2. "cfg" \in DOMAIN a.config /\ validate(a.config.cfg) /\ c = a.config.cfg
    BY <2>1 DEF load
  <2>3. FileTyped(c)
    BY <2>2 DEF CliTyped
  <2> HIDE DEF c
  <2>4. c # Refused
    <3>1. "host" \in DOMAIN c /\ "host" \notin DOMAIN Refused
      BY <2>3 DEF FileTyped, Refused
    <3> QED
      BY <3>1
  <2>5. Helpful(c.helper)
    <3>1. c.helper.stream_window \in Plainly
      BY <1>0, <2>3 DEF FileTyped, Plainly
    <3> QED
      BY <1>0, <2>3, <3>1 DEF FileTyped, Helpful
  <2> QED
    BY <1>1, <2>2, <2>4, <2>5 DEF c
<1>2. CASE a.config = NoFile
  <2> DEFINE gate == parse_target(a.target)
             auth == Auth(a, home)
             made == CliConfig(a, gate, auth)
  <2>1. c = made /\ validate(made)
    BY <1>2, RefusedIs
  <2>2. /\ "host" \in DOMAIN made /\ made.keepalive = Max({a.keepalive, 1})
        /\ made.reconnect = [ReconnectDefault EXCEPT !.dial_wait = Max({a.dial_wait, 1})]
        /\ made.helper = [HelperDefault EXCEPT !.remote_path = a.helper_path, !.allow = a.allow]
    BY DEF CliConfig
  <2> HIDE DEF made, c
  <2>3. made # Refused
    <3>1. "host" \notin DOMAIN Refused
      BY DEF Refused
    <3> QED
      BY <2>2, <3>1
  <2>4. made.helper.remote_path = a.helper_path /\ made.helper.allow = a.allow /\ made.helper.stream_window = "4194304"
    BY <2>2 DEF HelperDefault
  <2>5. Helpful(made.helper)
    BY <1>0, <2>4, ShellMarks DEF CliTyped, Helpful
  <2>6. made.reconnect.dial_wait = Max({a.dial_wait, 1})
    BY <2>2 DEF ReconnectDefault
  <2>7. made.keepalive > 0 /\ made.reconnect.dial_wait > 0
    BY <2>2, <2>6, AtLeastOne DEF CliTyped
  <2> QED
    BY <2>1, <2>3, <2>5, <2>7 DEF c
<1> QED
  BY <1>1, <1>2

-----------------------------------------------------------------------------
(* The listeners.                                                          *)

\* The addresses of a valid configuration are one or two.
LEMMA ListensAre ==
  ASSUME NEW c
  PROVE  /\ \E S : Listens(c) \in Seq(S)
         /\ validate(c) => ~Empty(Listens(c))
<1> DEFINE x == c.listen.socks5
           y == c.listen.http
           S == {x, y}
<1>1. Given(x) \in Seq(S) /\ Given(y) \in Seq(S)
  <2>1. ASSUME NEW z \in S PROVE Given(z) \in Seq(S)
    <3>1. Nil \in Seq(S) /\ Only(z) \in Seq(S)
      BY OnlyIs, NilIsEmpty
    <3>2. Given(z) = Nil \/ Given(z) = Only(z)
      BY DEF Given, Nil, Only
    <3> QED
      BY <3>1, <3>2
  <2> QED
    BY <2>1
<1>2. Listens(c) = Then(Given(x), Given(y))
  BY DEF Listens, Then
<1>3. ASSUME NEW z \in S, z # None PROVE Range(Given(z)) = {z}
  <2>1. Given(z) = Only(z)
    BY <1>3 DEF Given, Only
  <2> QED
    BY <2>1, OnlyIs
<1>4. validate(c) => x # None \/ y # None
  BY DEF validate, Faults
<1> HIDE DEF S
<1>5. Listens(c) \in Seq(S) /\ Range(Listens(c)) = Range(Given(x)) \cup Range(Given(y))
  BY <1>1, <1>2, ThenIs
<1>6. ASSUME validate(c) PROVE Range(Listens(c)) # {}
  BY <1>3, <1>4, <1>5, <1>6 DEF S
<1>7. Empty(Listens(c)) => Range(Listens(c)) = {}
  BY NilIsEmpty DEF Empty, Nil
<1> QED
  BY <1>5, <1>6, <1>7

\* An address bound by everybody else's leave.
LEMMA WarnedOf ==
  ASSUME NEW c, "open" \notin security_warnings(c), NEW addr \in Range(Listens(c)), addr \notin Loopback
  PROVE  c.listen.username /\ c.listen.password
BY DEF security_warnings, is_loopback_listen, has_cred

\* The pause of accept_loop.
PauseAfter(e) == Min({50 * 2 ^ Min({e, 6}), 2000})

\* Between a tenth of a second and two seconds.
LEMMA PauseIs ==
  ASSUME NEW e \in Nat \ {0}
  PROVE  PauseAfter(e) \in Int /\ 100 <= PauseAfter(e) /\ PauseAfter(e) <= 2000
<1>1. PICK m \in 1 .. 6 : m = Min({e, 6})
  <2> DEFINE m == Min({e, 6})
  <2>1. m \in {e, 6} /\ m <= 6
    BY LeastIs
  <2> HIDE DEF m
  <2>2. m \in 1 .. 6
    BY <2>1
  <2> QED
    BY <2>2 DEF m
<1>2. PICK w \in {2, 4, 8, 16, 32, 64} : w = 2 ^ m
  <2>1. 2 ^ 1 = 2 /\ 2 ^ 2 = 4 /\ 2 ^ 3 = 8 /\ 2 ^ 4 = 16 /\ 2 ^ 5 = 32 /\ 2 ^ 6 = 64
    OBVIOUS
  <2>2. m = 1 \/ m = 2 \/ m = 3 \/ m = 4 \/ m = 5 \/ m = 6
    <3>1. m \in Int /\ 1 <= m /\ m <= 6
      OBVIOUS
    <3> QED
      BY <3>1
  <2>3. 2 ^ m = 2 \/ 2 ^ m = 4 \/ 2 ^ m = 8 \/ 2 ^ m = 16 \/ 2 ^ m = 32 \/ 2 ^ m = 64
    BY <2>1, <2>2, Zenon
  <2> QED
    BY <2>3, Zenon
<1> DEFINE p == 50 * w
<1>3. p \in 100 .. 3200
  OBVIOUS
<1> HIDE DEF p
<1> DEFINE least == Min({p, 2000})
<1>4. p \in Int /\ 100 <= p
  BY <1>3
<1>5. least \in {p, 2000} /\ least <= 2000
  BY <1>4, LeastIs
<1> HIDE DEF least
<1>6. least \in Int /\ 100 <= least /\ least <= 2000
  <2>1. CASE least = p
    BY <1>4, <1>5, <2>1
  <2>2. CASE least = 2000
    BY <2>2
  <2> QED
    BY <1>5, <2>1, <2>2
<1>7. PauseAfter(e) = least
  <2>1. PauseAfter(e) = Min({50 * 2 ^ Min({e, 6}), 2000})
    BY DEF PauseAfter
  <2>2. least = Min({50 * 2 ^ m, 2000})
    BY <1>2, Zenon DEF least, p
  <2> QED
    BY <1>1, <2>1, <2>2
<1> QED
  BY <1>6, <1>7

-----------------------------------------------------------------------------
(* From setup to the listeners.                                            *)

\* What was started is of the types of Begin; its target may have been replaced.
Started ==
  /\ {"lines", "cli", "home"} \subseteq DOMAIN begin
  /\ begin.lines \in Seq(SomeLine)
  /\ CliTyped(begin.cli) /\ begin.cli.target \in Text

\* What the user asked for, as a text.
Intended == IF "line" \in DOMAIN meant THEN hosts[meant.line] ELSE meant.text

\* No start would have helped.
Hopeless ==
  \A text \in Typed : build_config([begin.cli EXCEPT !.target = text], begin.home) = Refused

\* What was written is what was asked for; it can be read, and the start gets it
\* whole.
Dialogue ==
  /\ tries \in 1 .. MAX_TRIES /\ target \in Text /\ wrote \in Text
  /\ pc \in {"write", "written", "shown"} => parse_target(target) # BadTarget /\ target = Intended
  /\ ~Empty(wrote) => wrote = target /\ parse_target(wrote) # BadTarget
                      /\ pc \in {"written", "args", "bind", "serve", "gone", "failed"}
  /\ ~Empty(wrote) /\ pc = "args" => begin.cli.target = wrote /\ Blank \notin Range(wrote)
  /\ ~Empty(wrote) /\ pc = "failed" /\ cfg = Refused => Blank \in Range(wrote) \/ Hopeless

\* The configuration is the one that was built, and what it should be warned of
\* was.
Serving ==
  pc \in {"bind", "serve"} =>
    /\ build_config(begin.cli, begin.home) # Refused
    /\ cfg = build_config(begin.cli, begin.home).cfg
    /\ security_warnings(cfg) \subseteq warned

\* The listeners are those of the first addresses of the configuration, all different.
FirstOf(b, l) ==
  /\ b \in Seq(Socket) /\ Len(b) <= Len(l)
  /\ \A i \in 1 .. Len(b) : b[i] \in Resolves(l[i])
  /\ IsFiniteSet(Range(b)) /\ Cardinality(Range(b)) = Len(b)
Listening ==
  /\ pc \notin {"bind", "serve"} => bound = <<>>
  /\ pc \in {"bind", "serve"} => FirstOf(bound, Listens(cfg))
  /\ pc = "serve" => Len(bound) = Len(Listens(cfg))

Pausing == errors \in Nat /\ (pause = 0 \/ pause \in 100 .. 2000)

LaunchHolds == Started /\ Dialogue /\ Serving /\ Listening /\ Pausing

\* The invariant holds at the start.
LEMMA LaunchStarts == Init => LaunchHolds
<1> SUFFICES ASSUME Init PROVE LaunchHolds
  OBVIOUS
<1>1. /\ {"pc", "lines", "cli", "home"} \subseteq DOMAIN begin /\ begin.pc \in {"setup", "args"}
      /\ begin.lines \in Seq(SomeLine) /\ CliTyped(begin.cli) /\ begin.cli.target \in Seq(STRING)
  BY LaunchAssumption DEF Init, SomeLine, Value
<1>2. Seq(STRING) \subseteq Text /\ <<>> \in Text
  BY ShellMarks, SeqMonotonic, EmptySeq DEF Text
<1>3. Started
  BY <1>1, <1>2 DEF Started
<1>4. pc \in {"setup", "args"} /\ tries = 1 /\ target = <<>> /\ wrote = <<>> /\ bound = <<>> /\ errors = 0 /\ pause = 0
  BY <1>1 DEF Init
<1>5. Dialogue
  BY <1>2, <1>4 DEF Dialogue, Empty, MAX_TRIES
<1>6. Serving /\ Listening /\ Pausing
  BY <1>4 DEF Serving, Listening, Pausing
<1> QED
  BY <1>3, <1>5, <1>6 DEF LaunchHolds

\* The hosts of the dialogue are texts.
LEMMA HostTexts ==
  ASSUME Started
  PROVE  \A n \in DOMAIN hosts : hosts[n] \in Text
<1>1. hosts \in Seq(Text)
  BY HostsAreTexts DEF Started, hosts
<1> HIDE DEF hosts
<1> QED
  BY <1>1, Tokens

\* The dialogue: it goes on, it ends, or it has a target.
LEMMA DialogueGoes ==
  ASSUME LaunchHolds, Setup \/ Asks \/ AsksManually
  PROVE  LaunchHolds'
<1> DEFINE rest == UNCHANGED <<begin, wrote, bound, errors, pause>>
<1>0. Started /\ Dialogue /\ Serving /\ Listening /\ Pausing
  BY DEF LaunchHolds
<1>1. rest /\ pc \in {"setup", "ask", "manual"} /\ Empty(wrote) /\ bound = <<>>
  <2>1. rest /\ pc \in {"setup", "ask", "manual"}
    BY DEF Setup, Asks, AsksManually, setupVars, serveVars
  <2>2. Empty(wrote) /\ bound = <<>>
    BY <1>0, <2>1 DEF Dialogue, Listening
  <2> QED
    BY <2>1, <2>2
<1>2. Typed \subseteq Text /\ <<>> \in Text
  BY LaunchAssumption, ShellMarks, SeqMonotonic, EmptySeq DEF Text
<1> DEFINE Dialogued ==
      \/ /\ pc' \in {"ask", "guided", "cancelled", "manual"} /\ tries' \in 1 .. MAX_TRIES /\ target' \in Text
      \/ /\ pc' = "write" /\ tries' \in 1 .. MAX_TRIES /\ target' \in Text
         /\ parse_target(target') # BadTarget /\ target' = Intended'
<1>3. Dialogued
  <2>1. ASSUME Again PROVE pc' \in {"ask", "cancelled"} /\ tries' \in 1 .. MAX_TRIES /\ target' \in Text
    <3>1. tries \in 1 .. MAX_TRIES /\ MAX_TRIES = 3
      BY <1>0 DEF Dialogue, MAX_TRIES
    <3>2. tries' = (IF tries = MAX_TRIES THEN tries ELSE tries + 1) /\ target' = <<>>
          /\ pc' = IF tries = MAX_TRIES THEN "cancelled" ELSE "ask"
      BY <2>1 DEF Again
    <3>3. tries' \in 1 .. MAX_TRIES
      BY <3>1, <3>2
    <3> QED
      BY <1>2, <3>2, <3>3
  <2>2. ASSUME NEW text \in Text, Take(text, [text |-> text]) PROVE Dialogued
    <3>1. CASE parse_target(text) = BadTarget
      BY <2>1, <2>2, <3>1 DEF Take
    <3>2. CASE parse_target(text) # BadTarget
      <4>1. pc' = "write" /\ target' = text /\ meant' = [text |-> text] /\ UNCHANGED tries
        BY <2>2, <3>2 DEF Take
      <4>2. "line" \notin DOMAIN meant' /\ meant'.text = text
        BY <4>1
      <4>3. Intended' = text
        BY <4>2 DEF Intended
      <4>4. tries' \in 1 .. MAX_TRIES
        BY <1>0, <4>1 DEF Dialogue
      <4> QED
        BY <2>2, <3>2, <4>1, <4>3, <4>4
    <3> QED
      BY <3>1, <3>2
  <2>3. ASSUME NEW n \in DOMAIN hosts, Take(hosts[n], [line |-> n]) PROVE Dialogued
    <3>0. hosts[n] \in Text /\ hosts' = hosts
      BY <1>0, <1>1, HostTexts DEF hosts
    <3>1. CASE parse_target(hosts[n]) = BadTarget
      BY <2>1, <2>3, <3>1 DEF Take
    <3>2. CASE parse_target(hosts[n]) # BadTarget
      <4>1. pc' = "write" /\ target' = hosts[n] /\ meant' = [line |-> n] /\ UNCHANGED tries
        BY <2>3, <3>2 DEF Take
      <4>2. "line" \in DOMAIN meant' /\ meant'.line = n
        BY <4>1
      <4> HIDE DEF hosts
      <4>3. Intended' = hosts[n]
        BY <3>0, <4>2 DEF Intended
      <4>4. tries' \in 1 .. MAX_TRIES
        BY <1>0, <4>1 DEF Dialogue
      <4> QED
        BY <3>0, <3>2, <4>1, <4>3, <4>4
    <3> QED
      BY <3>1, <3>2
  <2>4. CASE Setup
    BY <1>0, <2>4 DEF Setup, setupVars, Dialogue
  <2>5. CASE Asks
    <3>1. PICK text \in Typed :
            \/ Again
            \/ pc' = "manual" /\ UNCHANGED <<tries, target, meant>>
            \/ \E n \in DOMAIN hosts : Take(hosts[n], [line |-> n])
            \/ Take(text, [text |-> text])
      BY <2>5 DEF Asks
    <3>2. CASE pc' = "manual" /\ UNCHANGED <<tries, target, meant>>
      BY <1>0, <3>2 DEF Dialogue
    <3> QED
      BY <1>2, <2>1, <2>2, <2>3, <3>1, <3>2
  <2>6. CASE AsksManually
    <3>1. PICK text \in Typed : Again \/ Take(text, [text |-> text])
      BY <2>6 DEF AsksManually
    <3> QED
      BY <1>2, <2>1, <2>2, <3>1
  <2> QED
    BY <2>4, <2>5, <2>6
<1>4. Started' /\ Pausing'
  BY <1>0, <1>1 DEF Started, Pausing
<1>5. Dialogue'
  BY <1>0, <1>1, <1>3 DEF Dialogue
<1>6. Serving' /\ Listening'
  BY <1>1, <1>3 DEF Serving, Listening
<1> QED
  BY <1>4, <1>5, <1>6 DEF LaunchHolds

\* What was asked for is written, and given to the service.
LEMMA WritingKeeps ==
  ASSUME LaunchHolds, Writes \/ ServiceStarts
  PROVE  LaunchHolds'
<1>0. Started /\ Dialogue /\ Serving /\ Listening /\ Pausing
  BY DEF LaunchHolds
<1>1. CASE Writes
  <2>1. pc = "write" /\ Empty(wrote) /\ UNCHANGED <<begin, tries, meant, target, bound, errors, pause>>
    BY <1>0, <1>1 DEF Writes, Dialogue, serveVars
  <2>2. \/ pc' = "written" /\ wrote' = target
        \/ pc' \in {"shown", "failed"} /\ UNCHANGED wrote
    BY <1>1 DEF Writes
  <2>3. Started' /\ Pausing' /\ Intended' = Intended
    BY <1>0, <2>1 DEF Started, Pausing, Intended, hosts
  <2>4. Dialogue'
    <3> HIDE DEF Intended
    <3> QED
      BY <1>0, <2>1, <2>2, <2>3 DEF Dialogue
  <2>5. Serving' /\ Listening'
    BY <1>0, <2>1, <2>2 DEF Serving, Listening
  <2> QED
    BY <2>3, <2>4, <2>5 DEF LaunchHolds
<1>2. CASE ServiceStarts
  <2>1. pc = "written" /\ UNCHANGED <<tries, meant, target, wrote, bound, errors, pause>>
        /\ bound = <<>> /\ wrote \in Text
    BY <1>0, <1>2 DEF ServiceStarts, setupVars, serveVars, Dialogue, Listening
  <2>2. CASE Blank \in Range(wrote)
    <3>1. pc' = "failed" /\ UNCHANGED begin
      BY <1>2, <2>2 DEF ServiceStarts
    <3>2. Started' /\ Pausing' /\ Serving' /\ Listening'
      BY <1>0, <2>1, <3>1 DEF Started, Pausing, Serving, Listening
    <3>3. Dialogue'
      BY <1>0, <2>1, <2>2, <3>1 DEF Dialogue
    <3> QED
      BY <3>2, <3>3 DEF LaunchHolds
  <2>3. CASE Blank \notin Range(wrote)
    <3>1. pc' = "args" /\ begin' = [begin EXCEPT !.cli.target = wrote]
      BY <1>2, <2>3 DEF ServiceStarts
    <3>2. begin' = [begin EXCEPT !.cli = [begin.cli EXCEPT !.target = wrote]]
      BY <3>1
    <3>3. /\ DOMAIN begin' = DOMAIN begin /\ begin'.cli = [begin.cli EXCEPT !.target = wrote]
          /\ begin'.lines = begin.lines
      BY <1>0, <3>2 DEF Started
    <3>4. CliTyped(begin'.cli) /\ begin'.cli.target = wrote
      BY <1>0, <3>3, ArgumentsKept DEF Started
    <3>5. Started'
      BY <1>0, <2>1, <3>3, <3>4 DEF Started
    <3>6. Dialogue'
      BY <1>0, <2>1, <2>3, <3>1, <3>4 DEF Dialogue
    <3>7. Pausing' /\ Serving' /\ Listening'
      BY <1>0, <2>1, <3>1 DEF Pausing, Serving, Listening
    <3> QED
      BY <3>5, <3>6, <3>7 DEF LaunchHolds
  <2> QED
    BY <2>2, <2>3
<1> QED
  BY <1>1, <1>2

\* The configuration is built, or there is none.
LEMMA BuildingKeeps ==
  ASSUME LaunchHolds, Builds
  PROVE  LaunchHolds'
<1> DEFINE built == build_config(begin.cli, begin.home)
<1>0. Started /\ Dialogue /\ Serving /\ Listening /\ Pausing
  BY DEF LaunchHolds
<1>1. pc = "args" /\ bound = <<>> /\ UNCHANGED <<begin, tries, meant, target, wrote, bound, errors, pause>>
  BY <1>0 DEF Builds, setupVars, serveVars, Listening
<1>2. Started' /\ Pausing'
  BY <1>0, <1>1 DEF Started, Pausing
<1>3. CASE built = Refused
  <2>1. pc' = "failed" /\ UNCHANGED cfg
    BY <1>3 DEF Builds
  <2>2. ASSUME ~Empty(wrote) PROVE Hopeless
    <3>1. begin.cli.target \in Text /\ parse_target(begin.cli.target) # BadTarget
          /\ Blank \notin Range(begin.cli.target) /\ CliTyped(begin.cli)
      BY <1>0, <1>1, <2>2 DEF Started, Dialogue
    <3> QED
      BY <1>3, <3>1, RefusedForAll DEF Hopeless
  <2>3. Hopeless' = Hopeless
    BY <1>1 DEF Hopeless
  <2>4. Dialogue'
    <3> HIDE DEF Hopeless
    <3> QED
      BY <1>0, <1>1, <2>1, <2>2, <2>3 DEF Dialogue
  <2>5. Serving' /\ Listening'
    BY <1>1, <2>1 DEF Serving, Listening
  <2> QED
    BY <1>2, <2>4, <2>5 DEF LaunchHolds
<1>4. CASE built # Refused
  <2>1. pc' = "bind" /\ cfg' = built.cfg /\ security_warnings(built.cfg) \subseteq warned'
    BY <1>4 DEF Builds
  <2>2. Dialogue'
    BY <1>0, <1>1, <2>1 DEF Dialogue
  <2>3. Serving'
    BY <1>1, <1>4, <2>1 DEF Serving
  <2>4. FirstOf(<<>>, Listens(built.cfg))
    <3>1. PICK S : Listens(built.cfg) \in Seq(S)
      BY ListensAre
    <3> DEFINE l == Listens(built.cfg)
    <3> HIDE DEF l
    <3>2. Len(l) \in Nat
      BY <3>1, Tokens DEF l
    <3>3. <<>> \in Seq(Range(l)) /\ Len(<<>>) = 0 /\ Range(<<>>) = {}
      BY EmptySeq, NilIsEmpty DEF Nil
    <3> QED
      BY <3>2, <3>3, FS_EmptySet DEF FirstOf, l
  <2>5. Listening'
    BY <1>1, <2>1, <2>4 DEF Listening
  <2> QED
    BY <1>2, <2>2, <2>3, <2>5 DEF LaunchHolds
<1> QED
  BY <1>3, <1>4

\* One listener more.
LEMMA OneMoreBound ==
  ASSUME NEW S, NEW l \in Seq(S), NEW b, FirstOf(b, l), Len(b) # Len(l),
         NEW c \in Resolves(l[Len(b) + 1]) \ Range(b)
  PROVE  FirstOf(Append(b, c), l)
<1> DEFINE n == Len(b)
           more == Append(b, c)
<1>1. b \in Seq(Socket) /\ n <= Len(l) /\ IsFiniteSet(Range(b)) /\ Cardinality(Range(b)) = n
      /\ \A i \in 1 .. n : b[i] \in Resolves(l[i])
  BY DEF FirstOf
<1>2. Len(l) \in Nat
  BY Tokens
<1>3. n \in Nat
  BY <1>1, Tokens
<1>4. n + 1 \in 1 .. Len(l)
  BY <1>1, <1>2, <1>3
<1>5. c \in Socket /\ c \in Resolves(l[n + 1]) /\ c \notin Range(b)
  BY LookupAssumption DEF Resolves
<1>6. more = Then(b, Only(c))
  BY <1>1, <1>5, AppendThen
<1>7. Only(c) \in Seq(Socket) /\ Len(Only(c)) = 1 /\ Only(c)[1] = c /\ Range(Only(c)) = {c}
  BY <1>5, OnlyIs
<1>8. more \in Seq(Socket) /\ IsJoin(more, b, Only(c)) /\ Range(more) = Range(b) \cup {c}
  BY <1>1, <1>6, <1>7, ThenIs
<1>9. Len(more) = n + 1 /\ (\A i \in 1 .. n : more[i] = b[i]) /\ more[n + 1] = c
  <2> HIDE DEF more
  <2>1. 1 \in 1 .. Len(Only(c))
    BY <1>7
  <2> QED
    BY <1>3, <1>7, <1>8, <2>1 DEF IsJoin
<1>10. \A i \in 1 .. Len(more) : more[i] \in Resolves(l[i])
  <2> HIDE DEF more
  <2> QED
    BY <1>1, <1>3, <1>5, <1>9
<1>11. IsFiniteSet(Range(more)) /\ Cardinality(Range(more)) = n + 1
  <2> HIDE DEF more
  <2> QED
    BY <1>1, <1>5, <1>8, FS_AddElement
<1>12. Len(more) <= Len(l)
  BY <1>2, <1>4, <1>9
<1> HIDE DEF more
<1> QED
  BY <1>8, <1>9, <1>10, <1>11, <1>12 DEF FirstOf, more

\* A listener more, the last one, or none at all.
LEMMA BindingKeeps ==
  ASSUME LaunchHolds, Binds
  PROVE  LaunchHolds'
<1>0. Started /\ Dialogue /\ Serving /\ Listening /\ Pausing
  BY DEF LaunchHolds
<1>1. pc = "bind" /\ UNCHANGED <<begin, tries, meant, target, wrote, warned, errors, pause, cfg>>
  BY DEF Binds, setupVars, connectVars
<1>2. cfg # Refused
  BY <1>0, <1>1, BuiltIs DEF Started, Serving
<1>3. Started' /\ Pausing'
  BY <1>0, <1>1 DEF Started, Pausing
<1>4. pc' \in {"bind", "serve", "failed"}
  BY <1>1 DEF Binds
<1>5. Dialogue' /\ Serving'
  BY <1>0, <1>1, <1>2, <1>4 DEF Dialogue, Serving
<1>6. Listening'
  <2> DEFINE l == Listens(cfg)
             n == Len(bound)
  <2>1. FirstOf(bound, l)
    BY <1>0, <1>1 DEF Listening
  <2>2. CASE n = Len(l)
    <3>1. pc' = "serve" /\ UNCHANGED bound
      BY <1>1, <2>2 DEF Binds
    <3> QED
      BY <1>1, <2>1, <2>2, <3>1 DEF Listening
  <2>3. ASSUME NEW c \in Resolves(l[n + 1]) \ (busy \cup Range(bound)),
               n # Len(l), pc' = "bind", bound' = Append(bound, c)
        PROVE  Listening'
    <3>1. PICK S : l \in Seq(S)
      BY ListensAre
    <3> HIDE DEF l
    <3>2. FirstOf(Append(bound, c), l)
      BY <2>1, <2>3, <3>1, OneMoreBound
    <3> QED
      BY <1>1, <2>3, <3>2 DEF Listening, l
  <2>4. CASE pc' = "failed" /\ bound' = <<>>
    BY <2>4 DEF Listening
  <2> QED
    BY <1>1, <2>2, <2>3, <2>4 DEF Binds
<1> QED
  BY <1>3, <1>5, <1>6 DEF LaunchHolds

\* Connections, errors and the end; a step of the tunnel; nothing.
LEMMA ServingKeeps ==
  ASSUME LaunchHolds,
         \/ Accepts_ \/ AcceptsAgain \/ ShutsDown \/ UNCHANGED vars
         \/ ConnectStep /\ UNCHANGED <<pc, begin, setupVars, warned, serveVars>>
  PROVE  LaunchHolds'
<1>0. Started /\ Dialogue /\ Serving /\ Listening /\ Pausing
  BY DEF LaunchHolds
<1>1. UNCHANGED <<begin, tries, meant, target, wrote, warned, cfg>>
  BY DEF Accepts_, AcceptsAgain, ShutsDown, vars, setupVars, connectVars, ConnectStep
<1>2. \/ UNCHANGED <<pc, bound>>
      \/ pc = "serve" /\ pc' = "gone" /\ bound' = <<>>
  BY DEF Accepts_, AcceptsAgain, ShutsDown, vars, serveVars
<1>3. Started'
  BY <1>0, <1>1 DEF Started
<1>4. Dialogue'
  <2>1. Intended' = Intended /\ Hopeless' = Hopeless
    BY <1>1 DEF Intended, Hopeless, hosts
  <2> HIDE DEF Intended, Hopeless
  <2> QED
    BY <1>0, <1>1, <1>2, <2>1 DEF Dialogue
<1>5. Serving' /\ Listening'
  BY <1>0, <1>1, <1>2 DEF Serving, Listening
<1>6. Pausing'
  <2>1. CASE UNCHANGED <<errors, pause>>
    BY <1>0, <2>1 DEF Pausing
  <2>2. CASE AcceptsAgain
    BY <1>0, <2>2 DEF AcceptsAgain, Pausing
  <2>3. CASE Accepts_
    <3>1. CASE errors' = 0 /\ pause' = 0
      BY <3>1 DEF Pausing
    <3>2. CASE errors' = Min({errors + 1, MaxErrors}) /\ pause' = Min({50 * 2 ^ Min({errors', 6}), 2000})
      <4>1. errors' \in {errors + 1, MaxErrors} /\ errors \in Nat /\ MaxErrors \in Nat \ {0}
        <5>1. errors \in Nat /\ MaxErrors \in Nat \ {0} /\ errors + 1 \in Int /\ MaxErrors \in Int
          BY <1>0, LaunchAssumption DEF Pausing
        <5>2. Min({errors + 1, MaxErrors}) \in {errors + 1, MaxErrors}
          BY <5>1, LeastIs
        <5> QED
          BY <3>2, <5>1, <5>2
      <4>2. errors' \in Nat \ {0}
        BY <4>1
      <4>3. pause' \in 100 .. 2000
        <5>1. PauseAfter(errors') \in Int /\ 100 <= PauseAfter(errors') /\ PauseAfter(errors') <= 2000
          BY <4>2, PauseIs
        <5>2. pause' = PauseAfter(errors')
          BY <3>2 DEF PauseAfter
        <5> QED
          BY <5>1, <5>2
      <4> QED
        BY <4>2, <4>3 DEF Pausing
    <3> QED
      BY <2>3, <3>1, <3>2 DEF Accepts_
  <2> QED
    BY <2>1, <2>2, <2>3 DEF ShutsDown, vars, serveVars
<1> QED
  BY <1>3, <1>4, <1>5, <1>6 DEF LaunchHolds

\* Every step keeps it.
LEMMA LaunchStep == LaunchHolds /\ [Next]_vars => LaunchHolds'
<1> SUFFICES ASSUME LaunchHolds, [Next]_vars PROVE LaunchHolds'
  OBVIOUS
<1>1. CASE Setup \/ Asks \/ AsksManually
  BY <1>1, DialogueGoes
<1>2. CASE Writes \/ ServiceStarts
  BY <1>2, WritingKeeps
<1>3. CASE Builds
  BY <1>3, BuildingKeeps
<1>4. CASE Binds
  BY <1>4, BindingKeeps
<1>5. CASE Accepts_ \/ AcceptsAgain \/ ShutsDown \/ UNCHANGED vars
  BY <1>5, ServingKeeps, Zenon
<1>6. CASE ConnectStep /\ UNCHANGED <<pc, begin, setupVars, warned, serveVars>>
  BY <1>6, ServingKeeps, Zenon
<1> QED
  BY <1>1, <1>2, <1>3, <1>4, <1>5, <1>6, Zenon DEF Next

-----------------------------------------------------------------------------
(* What it implies.                                                        *)

\* The dialogue,
LEMMA SetupFollows == LaunchHolds => SetupInv
<1> SUFFICES ASSUME LaunchHolds PROVE SetupInv
  OBVIOUS
<1>0. Started /\ Dialogue
  BY DEF LaunchHolds
<1>1. ASSUME Plain(begin.lines) PROVE {parse_target(h) : h \in Range(hosts)} = Described(begin.lines)
  BY <1>0, <1>1, PlainIsOffered DEF Started, hosts
<1> DEFINE given == {parse_target(h) : h \in Range(hosts)} = Described(begin.lines)
           asked == IF "line" \in DOMAIN meant THEN hosts[meant.line] ELSE meant.text
           lost == \A text \in Typed : build_config([begin.cli EXCEPT !.target = text], begin.home) = Refused
<1>2. /\ pc \in {"write", "written", "shown"} => target = asked
      /\ lost <=> Hopeless
  BY <1>0, Zenon DEF Dialogue, Intended, Hopeless
<1>3. given \/ ~Plain(begin.lines)
  BY <1>1
<1>4. SetupInv <=>
  /\ tries \in 1 .. MAX_TRIES
  /\ pc \in {"guided", "ask"} /\ Plain(begin.lines) => given
  /\ pc \in {"write", "written", "shown"} => target = asked
  /\ wrote # <<>> => wrote = target /\ parse_target(wrote) # BadTarget
                     /\ pc \in {"written", "args", "bind", "serve", "gone", "failed"}
  /\ wrote # <<>> /\ pc = "failed" /\ cfg = Refused => Blank \in Range(wrote) \/ lost
  BY Zenon DEF SetupInv
<1> HIDE DEF given, asked, lost
<1> QED
  BY <1>0, <1>2, <1>3, <1>4 DEF Dialogue, Empty

\* the target,
LEMMA TargetFollows == LaunchHolds => TargetInv
<1> SUFFICES ASSUME LaunchHolds PROVE TargetInv
  OBVIOUS
<1> DEFINE t == parse_target(begin.cli.target)
<1> SUFFICES ASSUME t # BadTarget, Range(t.host) \cap {"[", "]"} = {} PROVE parse_target(Show(t)) = t
  BY DEF TargetInv
<1>1. begin.cli.target \in Text
  BY DEF LaunchHolds, Started
<1>2. PICK user \in Text, host \in Text, p \in Port :
           /\ t = Target(user, host, p)
           /\ ~Empty(user) /\ "@" \notin Range(user)
           /\ ~Empty(host) /\ Blank \notin Range(host)
  BY <1>1, ParsedIs
<1> HIDE DEF t
<1>3. Range(host) \cap {"[", "]"} = {}
  BY <1>2, TargetParts
<1>4. "[" \notin Range(host) /\ "]" \notin Range(host)
  BY <1>3
<1> QED
  BY <1>2, <1>4, ShownReads

\* and the start.
LEMMA StartFollows == LaunchHolds => StartInv
<1> SUFFICES ASSUME LaunchHolds PROVE StartInv
  OBVIOUS
<1>0. Started /\ Serving /\ Listening /\ Pausing
  BY DEF LaunchHolds
<1> DEFINE l == Listens(cfg)
<1>1. ASSUME pc \in {"bind", "serve"}
      PROVE  /\ validate(cfg) /\ Helpful(cfg.helper) /\ security_warnings(cfg) \subseteq warned
             /\ begin.cli.config = NoFile => cfg.keepalive > 0 /\ cfg.reconnect.dial_wait > 0
  BY <1>0, <1>1, BuiltIs DEF Started, Serving
<1>2. ASSUME pc = "serve"
      PROVE  /\ Len(bound) = Len(l) /\ bound # <<>> /\ Cardinality(Range(bound)) = Len(bound)
             /\ bound \in Seq(Socket) /\ \A i \in 1 .. Len(bound) : bound[i] \in Resolves(l[i])
  <2>1. FirstOf(bound, l) /\ Len(bound) = Len(l) /\ ~Empty(l)
    BY <1>0, <1>1, <1>2, ListensAre DEF Listening
  <2>2. PICK S : l \in Seq(S)
    BY ListensAre
  <2> HIDE DEF l
  <2>3. bound # <<>>
    BY <2>1, <2>2, Tokens DEF Empty
  <2> QED
    BY <2>1, <2>3 DEF FirstOf
<1>3. ASSUME pc = "serve", Range(bound) \cap Loopback # Range(bound), "open" \notin warned
      PROVE  cfg.listen.username /\ cfg.listen.password
  <2> HIDE DEF l
  <2>1. PICK i \in 1 .. Len(bound) : bound[i] \notin Loopback
    BY <1>2, <1>3, Tokens
  <2>2. PICK S : l \in Seq(S)
    BY ListensAre DEF l
  <2>3. l[i] \in Range(l) /\ bound[i] \in Resolves(l[i])
    BY <1>2, <1>3, <2>2, Tokens
  <2>4. l[i] \notin Loopback
    BY <2>1, <2>3, LookupAssumption DEF Resolves
  <2>5. "open" \notin security_warnings(cfg)
    BY <1>1, <1>3
  <2> QED
    BY <2>3, <2>4, <2>5, WarnedOf DEF l
<1>4. ASSUME pc = "bind", cfg.helper.command = <<>>
      PROVE  ShellWords(build_command(cfg.helper)) =
               <<cfg.helper.remote_path, <<"--stream-window">>, <<cfg.helper.stream_window>> >>
                 \o FlattenSeq([i \in DOMAIN cfg.helper.allow |-> << <<"--allow">>, cfg.helper.allow[i]>>])
  <2>1. Helpful(cfg.helper) /\ Empty(cfg.helper.command)
    BY <1>1, <1>4 DEF Empty
  <2> QED
    BY <2>1, CommandReads, Zenon DEF Helpful
<1>5. pc \notin {"bind", "serve"} => bound = <<>>
  BY <1>0 DEF Listening
<1>6. pause = 0 \/ pause \in 100 .. 2000
  BY <1>0 DEF Pausing
<1>7. pc = "bind" /\ begin.cli.config = NoFile => cfg.keepalive > 0 /\ cfg.reconnect.dial_wait > 0
  BY <1>1
<1> DEFINE words == ShellWords(build_command(cfg.helper)) =
             <<cfg.helper.remote_path, <<"--stream-window">>, <<cfg.helper.stream_window>> >>
               \o FlattenSeq([i \in DOMAIN cfg.helper.allow |-> << <<"--allow">>, cfg.helper.allow[i]>>])
<1>8. pc = "bind" /\ cfg.helper.command = <<>> => words
  BY <1>4
<1>9. StartInv <=>
  /\ pc = "serve" =>
       /\ Len(bound) = Len(l) /\ bound # <<>>
       /\ \A i \in DOMAIN bound : bound[i] \in Resolves(l[i])
       /\ Cardinality(Range(bound)) = Len(bound)
  /\ pc \notin {"bind", "serve"} => bound = <<>>
  /\ pc = "serve" /\ Range(bound) \cap Loopback # Range(bound) /\ "open" \notin warned =>
       cfg.listen.username /\ cfg.listen.password
  /\ pc = "bind" /\ cfg.helper.command = <<>> => words
  /\ pc = "bind" /\ begin.cli.config = NoFile => cfg.keepalive > 0 /\ cfg.reconnect.dial_wait > 0
  /\ pause = 0 \/ pause \in 100 .. 2000
  BY Zenon DEF StartInv
<1> HIDE DEF l, words
<1> QED
  BY <1>2, <1>3, <1>5, <1>6, <1>7, <1>8, <1>9, Tokens

\* From setup to the service: what is offered is what a plain file describes, what
\* is written is what was asked for and is read as it is shown, and the program
\* serves on all its addresses, warned of the open ones, or on none
\* (discover_ssh_hosts, parse_target, run_setup, build_config, build_command, run).
THEOREM WhatWasAskedForIsServed == Spec => []LaunchInv
<1>1. LaunchHolds /\ [Next]_vars => LaunchHolds'
  BY LaunchStep
<1>2. LaunchHolds => LaunchInv
  BY SetupFollows, TargetFollows, StartFollows DEF LaunchInv
<1> QED
  BY LaunchStarts, <1>1, <1>2, PTL DEF Spec

=============================================================================
