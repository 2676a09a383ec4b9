----------------------------- MODULE SshTarget ------------------------------
(***************************************************************************)
(* SSH targets on the command line and in ~/.ssh/config, and the command   *)
(* that starts the helper: srp/src/bin/srp.rs (parse_target,               *)
(* discover_ssh_hosts, is_git_host) and srp/src/tunnel/config.rs           *)
(* (build_command, shell_quote).                                           *)
(*                                                                         *)
(* A text is a sequence of tokens. A character that means something is a   *)
(* token of its own ("@", ":", "[", "]", ".", " ", a quote, a backslash),  *)
(* a word without such characters is one.                                  *)
(***************************************************************************)
EXTENDS Naturals, Sequences, SequencesExt, FiniteSetsExt

CONSTANTS
  Digits,       \* the words that are numbers: word |-> value
  U16,          \* the largest port
  GitPlatform   \* the code hosting services, as texts

Blank == " "
Quote == "'"
Backslash == "\\"
SshPort == 22

\* Numbers are words, none of which means anything else.
ASSUME SshTargetAssumption ==
  /\ DOMAIN Digits \subseteq STRING \ {"@", ":", "[", "]", Blank, "unset"}
  /\ \A d \in DOMAIN Digits : Digits[d] \in Nat
  /\ "22" \in DOMAIN Digits /\ Digits["22"] = SshPort
  /\ U16 \in Nat /\ SshPort <= U16

At(s, c) == {i \in DOMAIN s : s[i] = c}

\* split_once and rsplit_once, for a c that is in s.
Before(s, c) == SubSeq(s, 1, Min(At(s, c)) - 1)
After(s, c) == SubSeq(s, Min(At(s, c)) + 1, Len(s))
BeforeLast(s, c) == SubSeq(s, 1, Max(At(s, c)) - 1)
AfterLast(s, c) == SubSeq(s, Max(At(s, c)) + 1, Len(s))

Target(user, host, port) == [user |-> user, host |-> host, port |-> port]
BadTarget == [bad |-> TRUE]

\* The port a text stands for: u16::from_str, an error being no port at all.
Ports(text) ==
  IF Len(text) = 1 /\ text[1] \in DOMAIN Digits
  THEN {Digits[text[1]]} \cap 0 .. U16
  ELSE {}

Checked(user, host, ports) ==
  IF ports = {} \/ host = <<>> \/ Blank \in Range(host) THEN BadTarget
  ELSE Target(user, host, CHOOSE p \in ports : TRUE)

\* The part of rest that stands in brackets, and what follows it.
Bracketed(user, rest) ==
  LET addr == Before(Tail(rest), "]")
      tail == After(Tail(rest), "]")
  IN  CASE "]" \notin Range(rest) -> BadTarget
        [] "]" \in Range(rest) /\ tail = <<>> -> Checked(user, addr, {SshPort})
        [] OTHER -> IF tail[1] = ":" THEN Checked(user, addr, Ports(Tail(tail))) ELSE BadTarget

parse_target(s) ==
  LET user == Before(s, "@")
      rest == After(s, "@")
  IN  CASE "@" \notin Range(s) -> BadTarget
        [] "@" \in Range(s) /\ user = <<>> -> BadTarget
        [] OTHER ->
             CASE IsPrefix(<<"[">>, rest) -> Bracketed(user, rest)
               [] ~IsPrefix(<<"[">>, rest) /\ ":" \in Range(rest) ->
                    Checked(user, BeforeLast(rest, ":"), Ports(AfterLast(rest, ":")))
               [] OTHER -> Checked(user, rest, {SshPort})

-----------------------------------------------------------------------------
(* ~/.ssh/config                                                           *)

\* A line: a key in lower case and its value; "blank" also for a comment.
Line(key, val) == [key |-> key, val |-> val]
Unset == <<"unset">>
NoBlock == [host |-> Unset, hostname |-> Unset, user |-> Unset, port |-> Unset]

is_git_host(user, hostname) ==
  \/ user = <<"git">>
  \/ \E p \in GitPlatform : hostname = p \/ IsSuffix(<<".">> \o p, hostname)

Or(val, default) == IF val = Unset THEN default ELSE val

\* The target a block stands for, when it is to be offered.
Offer(b) ==
  LET user == Or(b.user, <<"root">>)
      port == Or(b.port, <<"22">>)
  IN  IF b.host \in {Unset, <<"*">>} \/ b.hostname \in {Unset, <<>>} \/ is_git_host(user, b.hostname)
      THEN <<>>
      ELSE << user \o <<"@">> \o b.hostname \o IF port = <<"22">> THEN <<>> ELSE <<":">> \o port >>

\* Mutant: a new Host line does not clear the block before it.
take_keeping(acc, line) ==
  CASE line.key = "blank" -> [block |-> NoBlock, hosts |-> acc.hosts \o Offer(acc.block)]
    [] line.key = "host"  -> [block |-> [acc.block EXCEPT !.host = line.val],
                              hosts |-> acc.hosts \o Offer(acc.block)]
    [] line.key \in {"hostname", "user", "port"} -> [acc EXCEPT !.block[line.key] = line.val]
    [] OTHER -> acc

\* One line: a blank or a Host ends the block before it.
take(acc, line) ==
  CASE line.key = "blank" -> [block |-> NoBlock, hosts |-> acc.hosts \o Offer(acc.block)]
    [] line.key = "host"  -> [block |-> [NoBlock EXCEPT !.host = line.val],
                              hosts |-> acc.hosts \o Offer(acc.block)]
    [] line.key \in {"hostname", "user", "port"} -> [acc EXCEPT !.block[line.key] = line.val]
    [] OTHER -> acc

discover_ssh_hosts(lines) ==
  LET read == FoldLeft(take, [block |-> NoBlock, hosts |-> <<>>], lines)
  IN  read.hosts \o Offer(read.block)

-----------------------------------------------------------------------------
(* The command of the helper                                               *)

shell_quote(s) ==
  <<Quote>>
    \o FlattenSeq([i \in DOMAIN s |-> IF s[i] = Quote THEN <<Quote, Backslash, Quote, Quote>>
                                      ELSE <<s[i]>>])
    \o <<Quote>>

\* helper.command as it is when it is given (a sequence of at most one text), be it
\* empty; or the path and the arguments of the helper.
build_command(helper) ==
  IF helper.command # <<>> THEN helper.command[1]
  ELSE shell_quote(helper.remote_path)
         \o <<Blank, "--stream-window", Blank, helper.stream_window>>
         \o FlattenSeq([i \in DOMAIN helper.allow |->
                          <<Blank, "--allow", Blank>> \o shell_quote(helper.allow[i])])

\* The words `sh -c` makes of a command without expansions.
sh(acc, c) ==
  CASE acc.at = "quoted" /\ c = Quote                -> [acc EXCEPT !.at = "word"]
    [] acc.at = "escape"                             -> [acc EXCEPT !.at = "word", !.word = Append(@, c)]
    [] acc.at = "quoted" /\ c # Quote                -> [acc EXCEPT !.word = Append(@, c)]
    [] acc.at \in {"blank", "word"} /\ c = Quote     -> [acc EXCEPT !.at = "quoted"]
    [] acc.at \in {"blank", "word"} /\ c = Backslash -> [acc EXCEPT !.at = "escape"]
    [] acc.at = "word" /\ c = Blank                  -> [at |-> "blank", word |-> <<>>,
                                                         words |-> Append(acc.words, acc.word)]
    [] acc.at = "blank" /\ c = Blank                 -> acc
    [] OTHER                                         -> [acc EXCEPT !.at = "word", !.word = Append(@, c)]

ShellWords(command) ==
  LET read == FoldLeft(sh, [at |-> "blank", word |-> <<>>, words |-> <<>>], command)
  IN  IF read.at = "blank" THEN read.words
      ELSE IF read.at = "word" THEN Append(read.words, read.word)
      ELSE << <<"unclosed">> >>

=============================================================================
