------------------------------- MODULE Launch -------------------------------
(***************************************************************************)
(* The program from its command line to its end: `srp setup` and what it   *)
(* leaves for the service, the start (main of srp/src/bin/srp.rs), run and *)
(* accept_loop of srp/src/app.rs, with the tunnel of module Connect at     *)
(* work as soon as there is a configuration.                               *)
(***************************************************************************)
EXTENDS Integers, Connect

CONSTANTS
  Begin,      \* what is started: [pc, tty, lines, cli, home, world]; world says
              \* whether the tunnel is at work in this behaviour
  Typed,      \* what a user may type, without blanks around it
  Busy,       \* sets of addresses other programs may listen on
  Lookup,     \* the names the system resolves, with their ports |-> sets of addresses
  MaxErrors   \* where the errors of accept in a row saturate

\* What the types of a configuration file leave open: the multiplier is a number of
\* any sign, which validate is to refuse, and the window is written as a numeral.
FileTyped(c) ==
  /\ {"host", "user", "reconnect", "helper"} \subseteq DOMAIN c
  /\ c.reconnect.multiplier \in Int
  /\ c.helper.remote_path \in Seq(STRING) /\ c.helper.allow \in Seq(Seq(STRING))
  /\ c.helper.stream_window \in STRING \ {Quote, Backslash, Blank}

CliTyped(a) ==
  /\ DOMAIN CliDefault \subseteq DOMAIN a
  /\ a.helper_path \in Seq(STRING) /\ a.allow \in Seq(Seq(STRING))
  /\ a.keepalive \in Nat /\ a.dial_wait \in Nat
  /\ "cfg" \in DOMAIN a.config => FileTyped(a.config.cfg)

ASSUME LaunchAssumption ==
  /\ \A b \in Begin :
       /\ {"pc", "lines", "cli", "home"} \subseteq DOMAIN b /\ b.pc \in {"setup", "args"}
       /\ b.lines \in Seq([key : STRING, val : Seq(STRING \ {"unset"})])
       /\ CliTyped(b.cli) /\ b.cli.target \in Seq(STRING)
  /\ Typed \subseteq Seq(STRING)
  /\ MaxErrors \in Nat \ {0}

\* "localhost" is this machine: that is the system's word.
ASSUME LookupAssumption ==
  \A name \in DOMAIN Lookup :
    Lookup[name] \subseteq Socket /\ (name \in Loopback => Lookup[name] \subseteq Loopback)

VARIABLES
  pc,       \* where main is
  begin,    \* what was started
  tries, meant, target,  \* the dialogue: which attempt, what was asked for, its text
  wrote,    \* /etc/default/srp
  warned,   \* warnings the user has seen
  busy, bound,     \* addresses taken by others, and the listeners of the program
  errors, pause    \* one accept_loop

setupVars == <<tries, meant, target, wrote>>
serveVars == <<busy, bound, errors, pause>>
vars == <<pc, begin, setupVars, warned, serveVars, connectVars>>

MAX_TRIES == 3
NotMeant == [nobody |-> TRUE]

Init ==
  /\ begin \in Begin /\ pc = begin.pc
  /\ tries = 1 /\ meant = NotMeant /\ target = <<>> /\ wrote = <<>>
  /\ cfg = Refused /\ warned = {}
  /\ busy \in Busy /\ bound = <<>> /\ errors = 0 /\ pause = 0
  /\ ConnectInit
  /\ begin.world \/ /\ known = {} /\ file = "readable" /\ writable
                    /\ key = CHOOSE k \in Key : TRUE
                    /\ accepts = CHOOSE a \in Accepts : TRUE
                    /\ agent = CHOOSE a \in AgentHolds : TRUE

-----------------------------------------------------------------------------
(* srp setup                                                               *)

hosts == discover_ssh_hosts(begin.lines)

\* Without a terminal the user is told what to write.
Setup ==
  /\ pc = "setup"
  /\ pc' = IF begin.tty THEN "ask" ELSE "guided"
  /\ UNCHANGED <<begin, setupVars, warned, serveVars, connectVars>>

Again ==
  /\ pc' = IF tries = MAX_TRIES THEN "cancelled" ELSE "ask"
  /\ tries' = IF tries = MAX_TRIES THEN tries ELSE tries + 1
  /\ target' = <<>> /\ meant' = NotMeant

Take(text, asked) ==
  IF parse_target(text) = BadTarget THEN Again
  ELSE pc' = "write" /\ target' = text /\ meant' = asked /\ UNCHANGED tries

Empty(text) == text = <<>>
Number(text) == Len(text) = 1 /\ text[1] \in DOMAIN Digits

\* Nothing; a number, of a host or out of range, 0 for none of them; a target.
Asks ==
  /\ pc = "ask"
  /\ \E text \in Typed :
       LET n == Digits[text[1]] IN
       \/ Empty(text) /\ Again
       \/ /\ ~Empty(text) /\ Number(text) /\ n = 0
          /\ pc' = "manual" /\ UNCHANGED <<tries, target, meant>>
       \/ ~Empty(text) /\ Number(text) /\ n \in DOMAIN hosts /\ Take(hosts[n], [line |-> n])
       \/ ~Empty(text) /\ Number(text) /\ n > Len(hosts) /\ Again
       \/ ~Empty(text) /\ ~Number(text) /\ Take(text, [text |-> text])
  /\ UNCHANGED <<begin, wrote, warned, serveVars, connectVars>>

AsksManually ==
  /\ pc = "manual"
  /\ \E text \in Typed : IF Empty(text) THEN Again ELSE Take(text, [text |-> text])
  /\ UNCHANGED <<begin, wrote, warned, serveVars, connectVars>>

\* Written; or the commands are shown instead, without the right to write; or failed.
Writes ==
  /\ pc = "write"
  /\ \/ pc' = "written" /\ wrote' = target
     \/ pc' \in {"shown", "failed"} /\ UNCHANGED wrote
  /\ UNCHANGED <<begin, tries, meant, target, warned, serveVars, connectVars>>

\* The service: systemd makes words of SRP_ARGS, and there is one target.
ServiceStarts ==
  /\ pc = "written"
  /\ IF Blank \in Range(wrote) THEN pc' = "failed" /\ UNCHANGED begin
     ELSE pc' = "args" /\ begin' = [begin EXCEPT !.cli.target = wrote]
  /\ UNCHANGED <<setupVars, warned, serveVars, connectVars>>

-----------------------------------------------------------------------------
(* The start                                                               *)

Builds ==
  /\ pc = "args"
  /\ LET built == build_config(begin.cli, begin.home) IN
     IF built = Refused THEN pc' = "failed" /\ UNCHANGED <<cfg, warned>>
     ELSE /\ pc' = "bind" /\ cfg' = built.cfg
          /\ warned' = security_warnings(built.cfg)
                         \cup IF "warnings" \in DOMAIN built THEN built.warnings ELSE {}
  /\ UNCHANGED <<begin, setupVars, serveVars, world, ssh, attempts, delay, trusted>>

\* The addresses a text that is to be listened on stands for.
Resolves(addr) ==
  IF addr \in Socket THEN {addr} ELSE IF addr \in DOMAIN Lookup THEN Lookup[addr] ELSE {}

\* The listeners one after another, each on an address its text stands for. Whatever
\* the reason one cannot be bound (a resolver that fails, a right that is missing, a
\* wildcard address that overlaps), that ends the program, and with it what was
\* bound before.
Binds ==
  /\ pc = "bind"
  /\ LET addrs == Listens(cfg) IN
     IF Len(bound) = Len(addrs) THEN pc' = "serve" /\ UNCHANGED bound
     ELSE \/ /\ \E addr \in Resolves(addrs[Len(bound) + 1]) \ (busy \cup Range(bound)) :
                  bound' = Append(bound, addr)
             /\ UNCHANGED pc
          \/ pc' = "failed" /\ bound' = <<>>
  /\ UNCHANGED <<begin, setupVars, warned, busy, errors, pause, connectVars>>

\* accept_loop: a connection gets a task of its own; an error a pause.
Accepts_ ==
  /\ pc = "serve" /\ pause = 0
  /\ \/ errors' = 0 /\ pause' = 0
     \/ /\ errors' = Min({errors + 1, MaxErrors})
        /\ pause' = Min({50 * 2 ^ Min({errors', 6}), 2000})
  /\ UNCHANGED <<pc, begin, setupVars, warned, busy, bound, connectVars>>

AcceptsAgain ==
  /\ pc = "serve" /\ pause # 0 /\ pause' = 0
  /\ UNCHANGED <<pc, begin, setupVars, warned, busy, bound, errors, connectVars>>

\* SIGINT or SIGTERM.
ShutsDown ==
  /\ pc = "serve" /\ pc' = "gone" /\ bound' = <<>>
  /\ UNCHANGED <<begin, setupVars, warned, busy, errors, pause, connectVars>>

Next ==
  \/ Setup \/ Asks \/ AsksManually \/ Writes \/ ServiceStarts
  \/ Builds \/ Binds \/ Accepts_ \/ AcceptsAgain \/ ShutsDown
  \/ /\ pc \in {"bind", "serve"} /\ begin.world /\ ConnectStep
     /\ UNCHANGED <<pc, begin, setupVars, warned, serveVars>>

Spec == Init /\ [][Next]_vars

-----------------------------------------------------------------------------
(* What is meant                                                           *)

\* The targets ~/.ssh/config describes: of every Host block that names a
\* HostName, up to the next Host.
Blocks(lines) == {i \in DOMAIN lines : lines[i].key = "host"}
BlockOf(lines, i) ==
  {j \in DOMAIN lines : j > i /\ ~\E k \in Blocks(lines) : k \in i + 1 .. j}
Says(lines, i, name, default) ==
  LET at == {j \in BlockOf(lines, i) : lines[j].key = name}
  IN  IF at = {} THEN default ELSE lines[Min(at)].val
Described(lines) ==
  {t \in {Target(Says(lines, i, "user", <<"root">>), Says(lines, i, "hostname", <<>>),
                 Digits[Says(lines, i, "port", <<"22">>)[1]])
            : i \in {b \in Blocks(lines) : lines[b].val # <<"*">>}} :
     t.host # <<>> /\ ~is_git_host(t.user, t.host)}

\* A file with no blank line and no comment inside a block, each keyword once, and
\* values a target can say: a HostName without blank, colon and bracket, a user,
\* without "@", and a port.
Plain(lines) ==
  \A i, j \in DOMAIN lines :
    /\ lines[i].key = "hostname" => Range(lines[i].val) \cap {Blank, ":", "["} = {}
    /\ lines[i].key = "user" => lines[i].val # <<>> /\ "@" \notin Range(lines[i].val)
    /\ lines[i].key = "port" => Ports(lines[i].val) # {}
    /\ i < j /\ lines[i].key = "blank" => lines[i + 1].key \in {"blank", "host"}
    /\ i < j /\ lines[i].key = lines[j].key =>
         lines[i].key \in {"blank", "host"} \/ \E b \in Blocks(lines) : i < b /\ b < j

Show(t) == t.user \o <<"@">> \o (IF ":" \in Range(t.host) THEN <<"[">> \o t.host \o <<"]">> ELSE t.host)
             \o <<":">> \o <<CHOOSE d \in DOMAIN Digits : Digits[d] = t.port>>

-----------------------------------------------------------------------------
(* Properties                                                              *)

\* The dialogue of setup offers the targets of a plain file and no other, and what
\* it writes is what was asked for, in at most three tries; when the service then has
\* no configuration, a blank in the target is why, or no target would have helped.
SetupInv ==
  /\ tries \in 1 .. MAX_TRIES
  /\ pc \in {"guided", "ask"} /\ Plain(begin.lines) =>
       {parse_target(h) : h \in Range(hosts)} = Described(begin.lines)
  /\ pc \in {"write", "written", "shown"} =>
       target = IF "line" \in DOMAIN meant THEN hosts[meant.line] ELSE meant.text
  /\ wrote # <<>> => wrote = target /\ parse_target(wrote) # BadTarget
                     /\ pc \in {"written", "args", "bind", "serve", "gone", "failed"}
  /\ wrote # <<>> /\ pc = "failed" /\ cfg = Refused =>
       \/ Blank \in Range(wrote)
       \/ \A text \in Typed : build_config([begin.cli EXCEPT !.target = text], begin.home) = Refused

\* A target read from the command line, written out in full, reads the same.
TargetInv ==
  LET t == parse_target(begin.cli.target) IN
  pc = "args" /\ t # BadTarget /\ Range(t.host) \cap {"[", "]"} = {} => parse_target(Show(t)) = t

\* The program serves on an address of its own for every text of its configuration, a
\* name among them or not, or on none; an address others can reach, without
\* credentials, was warned of; the helper's shell gets the words that were
\* configured.
StartInv ==
  /\ pc = "serve" =>
       /\ Len(bound) = Len(Listens(cfg)) /\ bound # <<>>
       /\ \A i \in DOMAIN bound : bound[i] \in Resolves(Listens(cfg)[i])
       /\ Cardinality(Range(bound)) = Len(bound)
  /\ pc \notin {"bind", "serve"} => bound = <<>>
  /\ pc = "serve" /\ Range(bound) \cap Loopback # Range(bound) /\ "open" \notin warned =>
       cfg.listen.username /\ cfg.listen.password
  /\ pc = "bind" /\ cfg.helper.command = <<>> =>
       ShellWords(build_command(cfg.helper)) =
         <<cfg.helper.remote_path, <<"--stream-window">>, <<cfg.helper.stream_window>> >>
           \o FlattenSeq([i \in DOMAIN cfg.helper.allow |-> << <<"--allow">>, cfg.helper.allow[i]>>])
  /\ pc = "bind" /\ begin.cli.config = NoFile => cfg.keepalive > 0 /\ cfg.reconnect.dial_wait > 0
  /\ pause = 0 \/ pause \in 100 .. 2000

LaunchInv == SetupInv /\ TargetInv /\ StartInv

\* A command that is given and empty means the helper's path, as HelperConfig says.
EmptyMeansPath ==
  pc = "bind" /\ cfg.helper.command = << <<>> >> =>
    build_command(cfg.helper) = build_command([cfg.helper EXCEPT !.command = <<>>])

\* Other keys of the same algorithm.
Rivals(k, keys) == {r \in keys \ {k} : Algorithm[r] = Algorithm[k]}

\* Over changes of the server's key and of known_hosts: a pinned policy trusts its
\* fingerprint alone; strict only what the operator recorded, and nothing it cannot
\* read; accept_new, of what the operator did not record, no key the operator has
\* another of that algorithm for, nor, when it can record, two of one algorithm.
\* Nothing but a first contact under accept_new writes known_hosts, and nothing is
\* taken out of it. No identity the server accepts is passed over, and no delay
\* leaves its bounds.
TrustInv ==
  LET policy == cfg.host_key IN
  cfg # Refused =>
    /\ policy.type = "pinned" => \A k \in trusted : norm(policy.fp) = <<k>>
    /\ policy.type # "pinned" /\ file = "garbled" => trusted = {}
    /\ policy = Strict => trusted \subseteq IF file = "readable" THEN operator ELSE {}
    /\ policy = AcceptNew /\ file = "readable" =>
         \A k \in trusted \ operator :
           Rivals(k, operator \cup IF writable THEN trusted ELSE {}) = {}
    /\ operator \subseteq known /\ known \ operator \subseteq trusted
    /\ known # operator => policy = AcceptNew
    /\ ssh.st = "agent" /\ ssh.ids = <<>> /\ ssh.clean =>
         \A i \in DOMAIN agent : agent[i] = Certificate \/ agent[i] \notin accepts
    /\ ssh.st = "backoff" => delay * 2 <= BackoffMax * 3 /\ attempts > 0
    /\ ssh.st = "up" => attempts = 0

=============================================================================
