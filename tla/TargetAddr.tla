----------------------------- MODULE TargetAddr -----------------------------
(***************************************************************************)
(* Target addresses (srp-proto/src/addr.rs) and the check of host names at *)
(* the frontends (validate_domain). Bytes are numbers, as on the wire; an  *)
(* IPv4 address takes V4_LEN of them (4 in the code), an IPv6 address      *)
(* V6_LEN (16), a port one (2). What matters is kept: a length is cast to  *)
(* one byte, that is taken modulo LenMod (256).                            *)
(***************************************************************************)
EXTENDS Naturals, Sequences, SequencesExt

CONSTANTS
  LenMod,   \* values of the length byte of a domain
  V4_LEN, V6_LEN,
  Port,     \* the ports that can be connected to, one byte each
  IpText    \* the IP literals: text |-> address, the canonical text first

ASSUME AddrAssumption ==
  /\ LenMod \in Nat \ {0}
  /\ V4_LEN \in Nat \ {0} /\ V6_LEN \in Nat \ {0, V4_LEN}
  /\ Port \subseteq Nat
  /\ \A i \in DOMAIN IpText : IpText[i][2] \in Seq(Nat) /\ Len(IpText[i][2]) \in {V4_LEN, V6_LEN}

KIND_V4 == 1
KIND_DOMAIN == 3
KIND_V6 == 4

\* Bytes of a host name that are not letters or digits; 255 is not UTF-8.
Dot == 46
Space == 32
NotUtf8 == 255

V4(ip, port) == [kind |-> KIND_V4, host |-> ip, port |-> port]
V6(ip, port) == [kind |-> KIND_V6, host |-> ip, port |-> port]
Domain(name, port) == [kind |-> KIND_DOMAIN, host |-> name, port |-> port]

\* No address.
NoTarget == [kind |-> 0, host |-> <<>>, port |-> 0]

IpOf(text) ==
  LET at == {i \in DOMAIN IpText : IpText[i][1] = text}
  IN  IF at = {} THEN <<>> ELSE IpText[CHOOSE i \in at : TRUE][2]

\* An address made of an IP literal, of either family.
OfIp(ip, port) == IF Len(ip) = V4_LEN THEN V4(ip, port) ELSE V6(ip, port)

host_string(addr) ==
  LET texts == {i \in DOMAIN IpText : IpText[i][2] = addr.host} IN
  IF addr.kind = KIND_DOMAIN THEN addr.host
  ELSE IF texts = {} THEN <<>> ELSE IpText[CHOOSE i \in texts : \A j \in texts : i <= j][1]

encode(addr) ==
  <<addr.kind>>
    \o (IF addr.kind = KIND_DOMAIN THEN <<Len(addr.host) % LenMod>> ELSE <<>>)
    \o addr.host \o <<addr.port>>

\* What the callers of encode see to: the address of a family, or a name that went
\* through validate_domain and is text.
Encodable(addr) ==
  /\ addr = [kind |-> addr.kind, host |-> addr.host, port |-> addr.port]
  /\ addr.host \in Seq(Nat) /\ addr.port \in Nat
  /\ \/ addr.kind = KIND_V4 /\ Len(addr.host) = V4_LEN
     \/ addr.kind = KIND_V6 /\ Len(addr.host) = V6_LEN
     \/ addr.kind = KIND_DOMAIN /\ Len(addr.host) \in 1 .. LenMod - 1 /\ NotUtf8 \notin Range(addr.host)

\* What decode returns: an address, or the name of the ProtoError.
AddrError == {"Truncated", "BadDomain", "BadAddrKind"}
Failed(error) == [error |-> error]
IsError(result) == "error" \in DOMAIN result

\* n bytes of host after the first k of src, and a port; more bytes are left.
Take(src, k, n) ==
  LET host == SubSeq(src, k + 1, k + n) IN
  IF Len(src) < k + n + 1 THEN Failed("Truncated")
  ELSE IF src[1] = KIND_DOMAIN /\ (host = <<>> \/ NotUtf8 \in Range(host)) THEN Failed("BadDomain")
  ELSE [kind |-> src[1], host |-> host, port |-> src[k + n + 1]]

decode(src) ==
  CASE src = <<>>           -> Failed("Truncated")
    [] src # <<>> /\ src[1] = KIND_V4 -> Take(src, 1, V4_LEN)
    [] src # <<>> /\ src[1] = KIND_V6 -> Take(src, 1, V6_LEN)
    [] src # <<>> /\ src[1] = KIND_DOMAIN ->
         IF Len(src) < 2 THEN Failed("Truncated") ELSE Take(src, 2, src[2])
    [] OTHER                -> Failed("BadAddrKind")

\* Mutant: the limit counts the values of the length byte.
validate_domain_long(host) ==
  /\ host # <<>> /\ Len(host) <= LenMod
  /\ \A b \in Range(host) : b > Space /\ b # 127

\* A name that fits the length byte, without blanks and control characters.
validate_domain(host) ==
  /\ host # <<>> /\ Len(host) <= LenMod - 1
  /\ \A b \in Range(host) : b > Space /\ b # 127

=============================================================================
