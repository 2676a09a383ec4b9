------------------------------ MODULE Frontend ------------------------------
(***************************************************************************)
(* One connection of an application to the proxy: SOCKS5                   *)
(* (srp/src/frontend/socks5.rs) or HTTP CONNECT (http.rs), from the first  *)
(* byte to the relay. The application writes a script, as fast as it likes *)
(* and without waiting for replies; its bytes arrive in pieces, and it may *)
(* close at any of them. The dialer is external: it may answer anything.   *)
(*                                                                         *)
(* The text of a head is abstracted to one byte per line: a byte of        *)
(* DOMAIN RequestLine or of DOMAIN Header stands for a whole line; CR and  *)
(* LF are themselves, because finding the end of the head is what matters. *)
(***************************************************************************)
EXTENDS TargetAddr, FiniteSetsExt

CONSTANTS
  Script,          \* protocol |-> scripts, see TypeOK
  User, Pass,      \* the credentials, when some are required
  RequestLine,     \* byte |-> [method, host, bracket, port, version]
  Header,          \* byte |-> [name, value]
  MAX_HEAD_BYTES, READ_CHUNK

\* Bytes are numbers, those of the credentials too, and the host of a request line is text.
ASSUME FrontendAssumption ==
  /\ \A p \in DOMAIN Script : \A s \in Script[p] : s.bytes \in Seq(Nat)
  /\ \A b \in DOMAIN RequestLine :
       RequestLine[b].host \in Seq(Nat) /\ NotUtf8 \notin Range(RequestLine[b].host)
  /\ User \in Seq(Nat) /\ Pass \in Seq(Nat)
  /\ READ_CHUNK \in Nat \ {0} /\ MAX_HEAD_BYTES \in Nat

VARIABLES
  proto,     \* "socks5" or "http"
  creds,     \* credentials are required
  script,    \* what the application says, and what it means by it
  arrived,   \* bytes of it that are in the socket's buffer or beyond
  closed,    \* the application closed its side after them
  pc,        \* where serve_conn is
  rd,        \* bytes serve_conn has read
  want,      \* bytes read_exact waits for
  held,      \* bytes of earlier reads that are still needed; in the relay, those the
             \* upstream was not given yet
  scanned,   \* prefix of the head that was searched for its end
  leftover,  \* bytes read together with the head
  target,    \* the address that is dialled
  out,       \* replies
  up,        \* bytes written to the upstream
  relay      \* the two directions of the relay: up is that from the application

client == <<proto, creds, script, arrived, closed>>
server == <<pc, rd, want, held, scanned, leftover, target, out, up, relay>>
fvars == <<client, server>>

DialError == {"HostUnreachable", "ConnectionRefused", "NetworkUnreachable",
              "TimedOut", "Forbidden", "Internal"}

\* Broken: a socket failed under the connection.
Ended == {"closed", "failed", "done", "broken"}

NoRelay == [up |-> "none", down |-> "none"]

FInit ==
  /\ proto \in DOMAIN Script
  /\ creds \in BOOLEAN
  /\ script \in Script[proto]
  /\ arrived = 0 /\ closed = FALSE
  /\ pc = IF proto = "socks5" THEN "greeting" ELSE "scan"
  /\ rd = 0 /\ want = IF proto = "socks5" THEN 2 ELSE 0
  /\ held = <<>> /\ scanned = 0 /\ leftover = <<>>
  /\ target = NoTarget
  /\ out = <<>> /\ up = <<>> /\ relay = NoRelay

-----------------------------------------------------------------------------
(* The application                                                         *)

Arrives ==
  /\ ~closed /\ pc \notin Ended
  /\ arrived' \in arrived + 1 .. Len(script.bytes)
  /\ UNCHANGED <<proto, creds, script, closed, server>>

Closes ==
  /\ ~closed /\ pc \notin Ended
  /\ closed' = TRUE
  /\ UNCHANGED <<proto, creds, script, arrived, server>>

-----------------------------------------------------------------------------
(* SOCKS5                                                                  *)

METHOD_NONE == 0
METHOD_USERPASS == 2
METHOD_UNACCEPTABLE == 255

REP_SUCCESS == 0
REP_CMD_NOT_SUPPORTED == 7
REP_ATYP_NOT_SUPPORTED == 8

rep_for(e) ==
  CASE e = "HostUnreachable"    -> 4
    [] e = "ConnectionRefused"  -> 5
    [] e = "NetworkUnreachable" -> 3
    [] e = "TimedOut"           -> 6
    [] e = "Forbidden"          -> 2
    [] e = "Internal"           -> 1

\* The bytes that read_exact returns.
Got == SubSeq(script.bytes, rd + 1, rd + want)

Reading(at) == pc = at /\ proto = "socks5" /\ arrived - rd >= want /\ rd' = rd + want

\* Goes on to a read of n bytes, keeping some of those read before.
Next_(at, n, keep) == pc' = at /\ want' = n /\ held' = keep

Unsaid == UNCHANGED <<scanned, leftover, up, relay>>
Quits(at) == pc' = at /\ UNCHANGED <<want, held, target>>
Says(reply) == out' = Append(out, reply)

required_method == IF creds THEN METHOD_USERPASS ELSE METHOD_NONE

\* Version and number of methods; neither mistake is answered.
Greeting ==
  /\ Reading("greeting")
  /\ IF Got[1] # 5 \/ Got[2] = 0
     THEN Quits("failed")
     ELSE Next_("methods", Got[2], <<>>) /\ UNCHANGED target
  /\ UNCHANGED out

Methods ==
  /\ Reading("methods")
  /\ IF required_method \in Range(Got)
     THEN /\ Says(<<5, required_method>>)
          /\ IF creds THEN Next_("auth", 2, <<>>) ELSE Next_("request", 3, <<>>)
          /\ UNCHANGED target
     ELSE Says(<<5, METHOD_UNACCEPTABLE>>) /\ Quits("closed")

\* Version 1 of the sub-negotiation; then the name and the next length.
Auth ==
  /\ Reading("auth")
  /\ IF Got[1] # 1 THEN Quits("failed")
                   ELSE Next_("user", Got[2] + 1, <<>>) /\ UNCHANGED target
  /\ UNCHANGED out

AuthUser ==
  /\ Reading("user")
  /\ Next_("pass", Got[want], Front(Got))
  /\ UNCHANGED <<target, out>>

AuthPass ==
  /\ Reading("pass")
  /\ IF held = User /\ Got = Pass
     THEN Says(<<1, 0>>) /\ Next_("request", 3, <<>>) /\ UNCHANGED target
     ELSE Says(<<1, 1>>) /\ Quits("closed")

\* The command is refused before the address is read.
Request ==
  /\ Reading("request")
  /\ IF Got[1] # 5 THEN Quits("failed") /\ UNCHANGED out
     ELSE IF Got[2] # 1 THEN Says(<<5, REP_CMD_NOT_SUPPORTED>>) /\ Quits("closed")
     ELSE Next_("atyp", 1, <<>>) /\ UNCHANGED <<target, out>>

AddrType ==
  /\ Reading("atyp")
  /\ CASE Got[1] = KIND_V4 -> Next_("addr", V4_LEN + 1, Got) /\ UNCHANGED <<target, out>>
       [] Got[1] = KIND_V6 -> Next_("addr", V6_LEN + 1, Got) /\ UNCHANGED <<target, out>>
       [] Got[1] = KIND_DOMAIN -> Next_("length", 1, Got) /\ UNCHANGED <<target, out>>
       [] OTHER -> Says(<<5, REP_ATYP_NOT_SUPPORTED>>) /\ Quits("closed")

NameLength ==
  /\ Reading("length")
  /\ IF Got[1] = 0 THEN Quits("failed")
                   ELSE Next_("addr", Got[1] + 1, held \o Got) /\ UNCHANGED target
  /\ UNCHANGED out

Address ==
  LET addr == decode(held \o Got) IN
  /\ Reading("addr")
  /\ IF IsError(addr) THEN Quits("failed")
     ELSE IF addr.kind = KIND_DOMAIN /\ ~validate_domain(addr.host) THEN Quits("failed")
     ELSE target' = addr /\ Next_("dial", 0, <<>>)
  /\ UNCHANGED out

\* read_exact meets the end of the stream.
Starves ==
  /\ proto = "socks5" /\ pc \notin Ended \cup {"dial", "relay"}
  /\ closed /\ arrived - rd < want
  /\ Quits("failed")
  /\ UNCHANGED <<rd, out>>

Socks5 ==
  /\ Greeting \/ Methods \/ Auth \/ AuthUser \/ AuthPass \/ Request \/ AddrType
       \/ NameLength \/ Address \/ Starves
  /\ Unsaid /\ UNCHANGED client

-----------------------------------------------------------------------------
(* HTTP CONNECT                                                            *)

CR == 13
LF == 10
CRLFCRLF == <<CR, LF, CR, LF>>

buf == SubSeq(script.bytes, 1, rd)

\* Positions (from 0) of the separator in buf[from ..].
Separators(from) == {k \in from .. rd - 4 : SubSeq(buf, k + 1, k + 4) = CRLFCRLF}

\* head.split("\r\n"), up to the empty line; a CR or LF alone ends nothing.
Lines(head) ==
  LET ends == SetToSortSeq({k \in 1 .. Len(head) - 1 : SubSeq(head, k, k + 1) = <<CR, LF>>}, <)
  IN  [i \in 1 .. Len(ends) - 1 |->
         SubSeq(head, IF i = 1 THEN 1 ELSE ends[i - 1] + 2, ends[i] - 1)]

parse_authority(a) ==
  CASE a.port \notin Port -> NoTarget
    [] a.port \in Port /\ IpOf(a.host) # <<>> -> OfIp(IpOf(a.host), a.port)
    [] a.port \in Port /\ IpOf(a.host) = <<>> ->
         IF a.bracket \/ ~validate_domain(a.host) THEN NoTarget
                                                  ELSE Domain(a.host, a.port)

\* The header of a line; CR around its name or value is blank and trimmed.
HeaderIn(line) == SelectSeq(line, LAMBDA b : b # CR)

IsHeader(line) == Len(HeaderIn(line)) = 1 /\ HeaderIn(line)[1] \in DOMAIN Header

\* The last Proxy-Authorization counts.
ProxyAuth(headers) ==
  LET auth == SelectSeq(headers, LAMBDA line :
                          Header[HeaderIn(line)[1]].name = "proxy-authorization")
  IN  IF auth = <<>> THEN "none" ELSE Header[HeaderIn(Last(auth))[1]].value

\* Basic credentials that decode to the configured ones; every other value is
\* met with the same challenge as none.
authorize(headers) == ~creds \/ ProxyAuth(headers) = "good"

\* What the first line of a head asks for, if it can be read.
Asked(head) == RequestLine[Lines(head)[1][1]]

\* The status that refuses a head, or 0: its request line, its other lines, and
\* the credentials last.
Refusal(head) ==
  LET lines == Lines(head)
      line == Asked(head)
      headers == Tail(lines)
  IN
  IF \/ NotUtf8 \in Range(head)
     \/ Len(lines[1]) # 1
     \/ lines[1][1] \notin DOMAIN RequestLine
     \/ line.version = "none" THEN 400
  ELSE IF line.method # "CONNECT" THEN 405
  ELSE IF \/ line.version \notin {"HTTP/1.1", "HTTP/1.0"}
          \/ parse_authority(line) = NoTarget
          \/ \E i \in DOMAIN headers : ~IsHeader(headers[i]) THEN 400
  ELSE IF ~authorize(headers) THEN 407
  ELSE 0

\* 407 ends the connection in order, the others are errors for the log.
Rejects(status) == Says(<<status>>) /\ pc' = IF status = 407 THEN "closed" ELSE "failed"

Head_(end) ==
  LET head == SubSeq(buf, 1, end)
      refusal == Refusal(head)
  IN
  IF end > MAX_HEAD_BYTES THEN Rejects(431) /\ UNCHANGED <<leftover, target>>
  ELSE IF refusal # 0 THEN Rejects(refusal) /\ UNCHANGED <<leftover, target>>
  ELSE /\ leftover' = SubSeq(buf, end + 1, rd)
       /\ target' = parse_authority(Asked(head))
       /\ pc' = "dial"
       /\ UNCHANGED out

\* One turn of the loop of read_head: search, then the limit.
Scan ==
  /\ pc = "scan"
  /\ IF Separators(scanned) # {}
     THEN Head_(Min(Separators(scanned)) + 4) /\ UNCHANGED scanned
     ELSE /\ scanned' = IF rd > 3 THEN rd - 3 ELSE 0
          /\ IF rd > MAX_HEAD_BYTES THEN Rejects(431) ELSE pc' = "read" /\ UNCHANGED out
          /\ UNCHANGED <<leftover, target>>
  /\ UNCHANGED rd

ReadChunk ==
  /\ pc = "read" /\ arrived > rd
  /\ rd' = rd + Min({READ_CHUNK, arrived - rd})
  /\ pc' = "scan"
  /\ UNCHANGED <<scanned, leftover, target, out>>

\* Mutant: an empty read is no end.
ReadEofAgain ==
  /\ pc = "read" /\ closed /\ arrived = rd
  /\ pc' = "scan"
  /\ UNCHANGED <<rd, scanned, leftover, target, out>>

ReadEof ==
  /\ pc = "read" /\ closed /\ arrived = rd
  /\ pc' = "failed"
  /\ UNCHANGED <<rd, scanned, leftover, target, out>>

HttpConnect ==
  /\ Scan \/ ReadChunk \/ ReadEof
  /\ UNCHANGED <<client, want, held, up, relay>>

-----------------------------------------------------------------------------
(* Dial and relay, for both                                                *)

from_dial(e) == CASE e = "Forbidden" -> 403
                  [] e = "TimedOut"  -> 504
                  [] OTHER           -> 502

Success == IF proto = "socks5" THEN <<5, REP_SUCCESS>> ELSE <<200>>

\* Mutant: what came with the head is dropped.
RelaysForgets(given) ==
  /\ Says(Success)
  /\ relay' = [up |-> "copying", down |-> "copying"]
  /\ up' = <<>> /\ held' = <<>>
  /\ UNCHANGED <<client, rd, want, scanned, leftover, target>>

\* The upstream is given the first bytes of what was read beyond the head, and the
\* others are held.
Relays(given) ==
  /\ Says(Success)
  /\ relay' = [up |-> "copying", down |-> "copying"]
  /\ up' = SubSeq(leftover, 1, given)
  /\ held' = SubSeq(leftover, given + 1, Len(leftover))
  /\ UNCHANGED <<client, rd, want, scanned, leftover, target>>

\* The upstream gets all of it before the relay begins.
DialOk == pc = "dial" /\ pc' = "relay" /\ Relays(Len(leftover))

\* The reply of success, or the write of those bytes, fails.
DialBreaks ==
  /\ pc = "dial" /\ pc' = "broken"
  /\ \E given \in 0 .. Len(leftover) : Relays(given)

\* The reply may fail on its way.
DialFails ==
  /\ pc = "dial" /\ pc' \in {"closed", "broken"}
  /\ \E e \in DialError :
       Says(IF proto = "socks5" THEN <<5, rep_for(e)>> ELSE <<from_dial(e)>>)
  /\ UNCHANGED <<client, rd, want, held, scanned, leftover, target, up, relay>>

\* copy_bidirectional, from the application to the upstream: reads into a buffer,
\* writes what the upstream takes, and shuts the upstream's half down at the end.
RelayReads ==
  /\ arrived > rd
  /\ held' = held \o SubSeq(script.bytes, rd + 1, arrived)
  /\ rd' = arrived
  /\ UNCHANGED <<pc, up, relay>>

RelayWrites ==
  /\ \E n \in 1 .. Len(held) :
       up' = up \o SubSeq(held, 1, n) /\ held' = SubSeq(held, n + 1, Len(held))
  /\ UNCHANGED <<pc, rd, relay>>

RelayShuts ==
  /\ relay.up = "copying" /\ closed /\ arrived = rd /\ held = <<>>
  /\ relay' = [relay EXCEPT !.up = "shut"]
  /\ UNCHANGED <<pc, rd, held, up>>

\* From the upstream to the application, whose bytes are not followed here.
RelayShutsDown ==
  /\ relay.down = "ended"
  /\ relay' = [relay EXCEPT !.down = "shut"]
  /\ UNCHANGED <<pc, rd, held, up>>

\* It returns when both directions are shut, not before.
RelayDone ==
  /\ relay = [up |-> "shut", down |-> "shut"]
  /\ pc' = "done"
  /\ UNCHANGED <<rd, held, up, relay>>

Relay ==
  /\ pc = "relay"
  /\ RelayReads \/ RelayWrites \/ RelayShuts \/ RelayShutsDown \/ RelayDone
  /\ UNCHANGED <<client, want, scanned, leftover, target, out>>

-----------------------------------------------------------------------------
(* What the sockets do                                                     *)

\* The upstream sends no more.
UpstreamEnds ==
  /\ pc = "relay" /\ relay.down = "copying"
  /\ relay' = [relay EXCEPT !.down = "ended"]
  /\ UNCHANGED <<client, pc, rd, want, held, scanned, leftover, target, out, up>>

\* A read or a write fails, of the application's socket or of the upstream's; the
\* dialer looks at neither.
Breaks ==
  /\ pc \notin Ended \cup {"dial"} /\ pc' = "broken"
  /\ UNCHANGED <<client, rd, want, held, scanned, leftover, target, out, up, relay>>

=============================================================================
