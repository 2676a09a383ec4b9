----------------------------- MODULE AllowList ------------------------------
(***************************************************************************)
(* The allow list of the helper, srp-helper/src/allow.rs: rules parsed     *)
(* from the patterns of the command line, matched against the target of    *)
(* every Open. Patterns and names are sequences of bytes.                  *)
(***************************************************************************)
EXTENDS TargetAddr

\* The bytes of a pattern that mean something.
Star == 42
Colon == 58
Open_ == 91
Close_ == 93
White == 9 .. 13 \cup {32}

\* The literals are texts, and none has a star in it.
ASSUME AllowAssumption == IpText \in Seq(Seq(Nat \ {Star}) \X Seq(Nat))

AsciiLower(host) == [i \in 1 .. Len(host) |->
                       IF host[i] \in 65 .. 90 THEN host[i] + 32 ELSE host[i]]

\* trim
Trim(text) ==
  LET keep == {i \in DOMAIN text : text[i] \notin White}
  IN  IF keep = {} THEN <<>> ELSE SubSeq(text, Min(keep), Max(keep))

\* trim_end_matches('.')
TrimDots(host) ==
  LET keep == {i \in 1 .. Len(host) : host[i] # Dot}
  IN  SubSeq(host, 1, Max(keep \cup {0}))

normalize_host(host) == AsciiLower(TrimDots(host))

host_key(addr) ==
  IF addr.kind = KIND_DOMAIN THEN normalize_host(addr.host) ELSE host_string(addr)

\* The numeric address of a target, also of a name that is a literal.
target_ip(addr) == IF addr.kind = KIND_DOMAIN THEN IpOf(addr.host) ELSE addr.host

Bad == [bad |-> TRUE]

\* A host and the ports that are asked for: one, or none for any.
Split(host, ports) == [host |-> host, ports |-> ports]

\* The port that text stands for, after host.
WithPort(host, text) ==
  IF Len(text) = 1 /\ text[1] \in Port \cup {0} THEN Split(host, {text[1]}) ELSE Bad

split_host_port(pattern) ==
  LET colons == {i \in 1 .. Len(pattern) : pattern[i] = Colon}
      last == Max(colons)
      before == SubSeq(pattern, 1, last - 1)
      closes == {i \in 1 .. Len(pattern) : pattern[i] = Close_}
      end == Min(closes)
      tail == SubSeq(pattern, end + 1, Len(pattern))
  IN
  IF Head(pattern) = Open_
  THEN IF closes = {} THEN Bad
       ELSE IF tail = <<>> THEN Split(SubSeq(pattern, 2, end - 1), {})
       ELSE IF tail[1] = Colon THEN WithPort(SubSeq(pattern, 2, end - 1), Tail(tail))
       ELSE Bad
  ELSE IF colons # {} /\ Colon \notin Range(before)
       THEN WithPort(before, SubSeq(pattern, last + 1, Len(pattern)))
       ELSE Split(pattern, {})

Rule(type, host, ports) == [type |-> type, host |-> host, ports |-> ports]

\* The rule a pattern without blanks around it stands for.
rule_of(pattern) ==
  LET split == split_host_port(pattern)
      host == split.host
      parent == normalize_host(SubSeq(host, 3, Len(host)))
  IN
  CASE pattern = <<>> -> Bad
    [] pattern # <<>> /\ (split = Bad \/ split.host = <<>>) -> Bad
    [] OTHER ->
       CASE host = <<Star>> -> Rule("Any", <<>>, split.ports)
         [] IsPrefix(<<Star, Dot>>, host) ->
              IF parent = <<>> \/ Star \in Range(parent) THEN Bad
              ELSE Rule("Suffix", parent, split.ports)
         [] OTHER ->
              IF IpOf(host) # <<>> THEN Rule("Ip", IpOf(host), split.ports)
              ELSE IF Star \in Range(host) THEN Bad
              ELSE Rule("Exact", normalize_host(host), split.ports)

parse_rule(pattern) == rule_of(Trim(pattern))

\* Mutant: the byte before the parent is not looked at.
matches_no_dot(rule, addr) ==
  /\ rule.ports = {} \/ addr.port \in rule.ports
  /\ CASE rule.type = "Any"    -> TRUE
       [] rule.type = "Ip"     -> target_ip(addr) = rule.host
       [] rule.type = "Exact"  -> host_key(addr) = rule.host
       [] rule.type = "Suffix" ->
            /\ Len(host_key(addr)) > Len(rule.host) + 1
            /\ IsSuffix(rule.host, host_key(addr))

matches(rule, addr) ==
  /\ rule.ports = {} \/ addr.port \in rule.ports
  /\ CASE rule.type = "Any"    -> TRUE
       [] rule.type = "Ip"     -> target_ip(addr) = rule.host
       [] rule.type = "Exact"  -> host_key(addr) = rule.host
       [] rule.type = "Suffix" ->
            LET key == host_key(addr) IN
            /\ Len(key) > Len(rule.host) + 1
            /\ IsSuffix(rule.host, key)
            /\ key[Len(key) - Len(rule.host)] = Dot

\* One bad pattern refuses the whole list, and the helper does not start.
parse(patterns) ==
  IF \E i \in DOMAIN patterns : parse_rule(patterns[i]) = Bad
  THEN Bad
  ELSE [rules |-> {parse_rule(patterns[i]) : i \in DOMAIN patterns}]

permits(allow, addr) == allow.rules = {} \/ \E rule \in allow.rules : matches(rule, addr)

=============================================================================
