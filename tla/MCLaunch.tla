----------------------------- MODULE MCLaunch -------------------------------
(* Five groups of starts: every short ~/.ssh/config without a terminal, a    *)
(* dialogue over three of them, every short target, command lines that       *)
(* differ in a few arguments, and those with the tunnel at work.             *)
EXTENDS Launch

MCDigits == "0" :> 0 @@ "1" :> 1 @@ "2" :> 2 @@ "9" :> 9 @@ "22" :> 22 @@ "70000" :> 70000
MCGitPlatform == { <<"github.com">> }
MCSocket == {"127.0.0.1:1080", "0.0.0.0:1080", "[::1]:8080"}
MCLoopback == {"127.0.0.1:1080", "[::1]:8080", "localhost:1080", "localhost:8080"}

\* A name that is this machine, one of another network, one with no address left free.
MCLookup == "localhost:1080" :> {"127.0.0.1:1080"} @@ "lan:1080" :> {"0.0.0.0:1080"}
         @@ "localhost:8080" :> {"[::1]:8080"}

\* Two keys of one algorithm, and one of another.
MCKey == {"k1", "k2", "k3"}
MCAlgorithm == "k1" :> "ed25519" @@ "k2" :> "ed25519" @@ "k3" :> "rsa"
MCAccepts == {{"password", "public_key", "i2"}}
MCAgentHolds == { <<"cert", "i1", "i2">> }
MCBusy == {{}, {"[::1]:8080"}}

Cli0 == [CliDefault EXCEPT !.target = <<"root", "@", "gw">>]

Home == [env |-> TRUE, files |-> {"id_rsa", "id_ecdsa"}]
NoHome == [env |-> FALSE, files |-> {}]

Start(pc_, tty, lines, cli, home, world_) ==
  [pc |-> pc_, tty |-> tty, lines |-> lines, cli |-> cli, home |-> home, world |-> world_]
Args(cli, home, world_) == Start("args", FALSE, <<>>, cli, home, world_)

\* ~/.ssh/config
SomeLine == {Line("blank", <<>>), Line("other", <<"x">>), Line("host", <<"a">>), Line("host", <<"*">>),
             Line("hostname", <<"gw">>), Line("hostname", <<"ssh", ".", "github.com">>),
             Line("hostname", <<>>), Line("hostname", <<":", "1">>), Line("user", <<"bob">>), Line("user", <<"git">>), Line("port", <<"9">>)}
Files == UNION {[1 .. n -> SomeLine] : n \in 0 .. 4}

TwoHosts == << Line("host", <<"a">>), Line("hostname", <<"gw">>), Line("user", <<"bob">>),
               Line("host", <<"b">>), Line("hostname", <<"h", ".", "i">>), Line("port", <<"9">>) >>
SpacedHost == << Line("host", <<"a">>), Line("hostname", <<"g", " ", "w">>) >>

MCTyped == { <<>>, <<"0">>, <<"1">>, <<"2">>, <<"9">>, <<"bob", "@", "gw">>,
             <<"bob", "@", "[", ":", "1", "]", ":", "22">>, <<"gw">>, <<"bob", "@">>, <<"bob", "@", "g", " ", "-w">>, <<"b", " ", "@", "gw">> }

\* Targets
Texts == UNION {[1 .. n -> {"u", "@", ":", "[", "]", " ", "9", "70000"}] : n \in 1 .. 4}
           \cup {<<"u", "@", "[">> \o t : t \in [1 .. 3 -> {":", "]", "9"}]}

\* Command lines
File(cfg_) == [cfg |-> cfg_]
Cfg0 == CliConfig(Cli0, Target(<<"u">>, <<"gw">>, 22), Agent)
BadFiles == {[error |-> TRUE], File([Cfg0 EXCEPT !.host = <<" ">>]), File([Cfg0 EXCEPT !.user = <<>>]),
             File([Cfg0 EXCEPT !.keepalive_max = 0]), File([Cfg0 EXCEPT !.reconnect.multiplier = 50]),
             File([Cfg0 EXCEPT !.reconnect.jitter = 101]), File([Cfg0 EXCEPT !.listen.socks5 = None]),
             File([Cfg0 EXCEPT !.mode = "Helper", !.helper.stream_window = "0"]),
             File([Cfg0 EXCEPT !.listen.http = "127.0.0.1:1080"])}
\* Files that say what a command line cannot: names to listen on, and a command.
NamedFiles == {File([Cfg0 EXCEPT !.listen.socks5 = s, !.listen.http = h, !.listen.username = c, !.listen.password = c]) :
                 s \in {"localhost:1080", "lan:1080", "nowhere"}, h \in {None, "localhost:8080", "127.0.0.1:1080"}, c \in BOOLEAN}
Commands == {File([Cfg0 EXCEPT !.mode = "Helper", !.helper.command = <<c>>]) : c \in { <<>>, <<"my", " ", "h">> }}
Identity(is, tilde) == [is |-> is, tilde |-> tilde]
Lines ==
  {[Cli0 EXCEPT !.config = f] : f \in BadFiles \cup NamedFiles \cup Commands}
  \cup {[Cli0 EXCEPT !.agent = TRUE]}   \* excludes the other two
  \cup {[Cli0 EXCEPT !.password = p, !.identity = i] :
          p \in BOOLEAN,
          i \in {NoFile, Identity("file", TRUE), Identity("file", FALSE), Identity("missing", FALSE)}}
  \cup {[Cli0 EXCEPT !.socks5 = s, !.no_socks5 = n, !.http = h, !.proxy_user = u, !.proxy_password = p] :
          s \in {"127.0.0.1:1080", "0.0.0.0:1080", "localhost:1080"}, n \in BOOLEAN,
          h \in {None, "[::1]:8080", "127.0.0.1:1080"}, u \in BOOLEAN, p \in BOOLEAN}
  \cup {[Cli0 EXCEPT !.helper = b, !.helper_path = path, !.allow = allow, !.keepalive = k, !.dial_wait = k] :
          b \in BOOLEAN, path \in { <<"srp-helper">>, <<"my", " ", "h">>, <<"a", "'", "b">>, <<"a", "\\">> },
          allow \in { <<>>, << <<"*.i">>, <<"'", " ", "x">> >> }, k \in {0, 15}}
  \cup {[Cli0 EXCEPT !.target = t] : t \in { <<>>, <<"root", "@", "gw", ":", "0">>, <<" ", "@", "gw">> }}

\* With the tunnel at work, on one listener: policies, methods, and files that do not
\* reconnect, or with the widest jitter.
Policies == { <<"strict">>, <<"accept-new">> }
Http0 == [Cli0 EXCEPT !.no_socks5 = TRUE, !.http = "[::1]:8080"]
HttpCfg == [Cfg0 EXCEPT !.listen.socks5 = None, !.listen.http = "[::1]:8080"]
Once == File([HttpCfg EXCEPT !.host_key = Pinned(<<"k2", "=">>), !.reconnect.enabled = FALSE])
Wide == File([HttpCfg EXCEPT !.host_key = AcceptNew, !.reconnect.jitter = 100, !.auth = Password])
Tunnels == {[Http0 EXCEPT !.host_key = p, !.agent = TRUE] : p \in Policies}
           \cup {[Http0 EXCEPT !.host_key = <<"SHA256:", "k1">>, !.password = TRUE]}
           \cup {[Cli0 EXCEPT !.config = f] : f \in {Once, Wide}} \cup {Http0}

MCBegin ==
  {Start("setup", FALSE, f, Cli0, Home, FALSE) : f \in Files}
  \cup {Start("setup", TRUE, f, Cli0, Home, FALSE) : f \in { <<>>, TwoHosts, SpacedHost }}
  \cup {Start("setup", TRUE, <<>>, [Cli0 EXCEPT !.no_socks5 = TRUE], Home, FALSE)}
  \cup {Args([Cli0 EXCEPT !.target = t], Home, FALSE) : t \in Texts}
  \cup {Args(cli, h, FALSE) : cli \in Lines, h \in {Home, NoHome}}
  \cup {Args(cli, Home, TRUE) : cli \in Tunnels}

MCCommand == {Args([Cli0 EXCEPT !.config = f], Home, FALSE) : f \in Commands}

=============================================================================
