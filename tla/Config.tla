------------------------------ MODULE Config --------------------------------
(***************************************************************************)
(* The configuration: srp/src/tunnel/config.rs, and build_config of        *)
(* srp/src/bin/srp.rs that makes one of a command line. A path is the name *)
(* of what it leads to, a listening address is a name with the two facts   *)
(* about it the code looks at; fractions are in percent.                   *)
(***************************************************************************)
EXTENDS SshTarget

CONSTANTS
  Socket,    \* the addresses that are an IP address and a port, which is not 0
  Loopback   \* the addresses whose host part is "localhost" or a loopback IP address

None == "none"

\* No file given with --config, no path given with --identity.
NoFile == [none |-> TRUE]

Strict == [type |-> "strict"]
AcceptNew == [type |-> "accept_new"]
Pinned(fp) == [type |-> "pinned", fp |-> fp]

Password == [type |-> "password"]
PublicKey(path) == [type |-> "public_key", path |-> path]
Agent == [type |-> "agent"]

ListenDefault == [socks5 |-> "127.0.0.1:1080", http |-> None, username |-> FALSE, password |-> FALSE]
ReconnectDefault == [enabled |-> TRUE, multiplier |-> 200, jitter |-> 20, dial_wait |-> 30]
HelperDefault == [command |-> <<>>, remote_path |-> <<"srp-helper">>,
                  stream_window |-> "4194304", allow |-> <<>>]

\* A text trim leaves nothing of.
Blanks(text) == Range(text) \subseteq {Blank}

\* The faults of a configuration, of which validate reports the first.
Faults(cfg) ==
  {f \in {"host", "user", "listen", "keepalive_max", "multiplier", "jitter", "window"} :
     CASE f = "host" -> Blanks(cfg.host)
       [] f = "user" -> Blanks(cfg.user)
       [] f = "listen" -> cfg.listen.socks5 = None /\ cfg.listen.http = None
       [] f = "keepalive_max" -> cfg.keepalive_max = 0
       [] f = "multiplier" -> cfg.reconnect.multiplier < 100
       [] f = "jitter" -> cfg.reconnect.jitter \notin 0 .. 100
       [] f = "window" -> cfg.mode = "Helper" /\ cfg.helper.stream_window = "0"}

validate(cfg) == Faults(cfg) = {}

Given(addr) == IF addr = None THEN <<>> ELSE <<addr>>
Listens(cfg) == Given(cfg.listen.socks5) \o Given(cfg.listen.http)

is_loopback_listen(addr) == addr \in Loopback

has_cred(cfg) == cfg.listen.username /\ cfg.listen.password

security_warnings(cfg) ==
  {w \in {"open", "accept_new", "any_target"} :
     CASE w = "open" -> \E addr \in Range(Listens(cfg)) : ~is_loopback_listen(addr) /\ ~has_cred(cfg)
       [] w = "accept_new" -> cfg.host_key = AcceptNew
       [] w = "any_target" -> cfg.mode = "Helper" /\ cfg.helper.allow = <<>>}

Refused == [error |-> TRUE]

\* Config::load: what the file says, when it can be read, parsed and is valid.
load(file) == IF "cfg" \in DOMAIN file /\ validate(file.cfg) THEN file ELSE Refused

-----------------------------------------------------------------------------
(* The command line                                                        *)

\* The arguments when none is given; a target that is not given is empty.
CliDefault ==
  [config |-> NoFile, target |-> <<>>, agent |-> FALSE, password |-> FALSE, identity |-> NoFile,
   socks5 |-> "127.0.0.1:1080", no_socks5 |-> FALSE, http |-> None,
   proxy_user |-> FALSE, proxy_password |-> FALSE, host_key |-> <<"strict">>, helper |-> FALSE,
   helper_path |-> <<"srp-helper">>, allow |-> <<>>, keepalive |-> 15, dial_wait |-> 30]

validate_listen_addr(addr) == addr \in Socket

\* The private keys that are looked for, the preferred first.
Identities == <<"id_ed25519", "id_ecdsa", "id_rsa", "id_dsa">>
discover_default_identity(home) == SelectSeq(Identities, LAMBDA name : name \in home.files)

\* expand_tilde fails without HOME; the file must be there and be readable.
IdentityOk(identity, home) == identity.is = "file" /\ (identity.tilde => home.env)

Auth(a, home) ==
  LET found == discover_default_identity(home)
  IN  CASE a.agent -> Agent
        [] ~a.agent /\ a.password -> Password
        [] ~a.agent /\ ~a.password /\ a.identity # NoFile ->
             IF IdentityOk(a.identity, home) THEN PublicKey("--identity") ELSE Refused
        [] OTHER -> IF found # <<>> THEN PublicKey(found[1]) ELSE Agent

HostKey(word) ==
  CASE word = <<"strict">> -> Strict
    [] word \in {<<"accept-new">>, <<"accept_new">>} -> AcceptNew
    [] OTHER -> Pinned(word)

CliListen(a) ==
  [ListenDefault EXCEPT !.socks5 = IF a.no_socks5 THEN None ELSE a.socks5, !.http = a.http,
                        !.username = a.proxy_user, !.password = a.proxy_password]

\* An address that is asked for cannot be listened on, or two are the same.
ListenFault(a) ==
  LET listen == CliListen(a)
  IN  \/ \E addr \in {listen.socks5, listen.http} \ {None} : ~validate_listen_addr(addr)
      \/ listen.socks5 = listen.http /\ listen.http # None

CliConfig(a, target, auth) ==
  [host |-> target.host, user |-> target.user, port |-> target.port, auth |-> auth,
   host_key |-> HostKey(a.host_key), keepalive |-> Max({a.keepalive, 1}), keepalive_max |-> 3,
   mode |-> IF a.helper THEN "Helper" ELSE "DirectTcpip",
   listen |-> CliListen(a),
   reconnect |-> [ReconnectDefault EXCEPT !.dial_wait = Max({a.dial_wait, 1})],
   helper |-> [HelperDefault EXCEPT !.remote_path = a.helper_path, !.allow = a.allow]]

CliWarnings(a, target) ==
  {w \in {"port_0", "keepalive_0", "allow_unused"} :
     CASE w = "port_0" -> target.port = 0
       [] w = "keepalive_0" -> a.keepalive = 0
       [] w = "allow_unused" -> a.allow # <<>> /\ ~a.helper}

\* A configuration and the warnings on the way to it, or Refused. A file given
\* with --config is all there is to it.
build_config(a, home) ==
  LET target == parse_target(a.target)
      auth == Auth(a, home)
      cfg == CliConfig(a, target, auth)
  IN  CASE a.config # NoFile -> load(a.config)
        [] a.config = NoFile /\ (a.target = <<>> \/ target = BadTarget) -> Refused
        [] OTHER -> IF auth = Refused \/ ListenFault(a) \/ ~validate(cfg) THEN Refused
                    ELSE [cfg |-> cfg, warnings |-> CliWarnings(a, target)]

=============================================================================
