---------------------------- MODULE RequestPath -----------------------------
(***************************************************************************)
(* The path of a target: from the application's bytes (Frontend) over the  *)
(* dialer, an Open frame on the channel (FrameCodec) and the allow list    *)
(* (AllowList) to the egress connection of the helper, and the answer      *)
(* back. The channel delivers bytes in pieces of any size.                 *)
(*                                                                         *)
(* proto = "frames" is a connection of its own: two ends that exchange     *)
(* frames of every type, to see the codec at work, and at last bytes that  *)
(* no encoder writes.                                                      *)
(***************************************************************************)
EXTENDS Frontend, FrameCodec, AllowList

CONSTANTS
  AllowPatterns,   \* command lines of the helper
  SomeFrame,       \* frames exchanged when proto = "frames"
  Foreign,         \* byte sequences that are no frame
  MaxFrames        \* bound on the frames of a direction

\* An exchange of frames has no application, and no beginning of foreign bytes is a frame.
ASSUME PathAssumption ==
  /\ "frames" \in DOMAIN Script => \A s \in Script["frames"] : s.bytes = <<>>
  /\ \A f \in SomeFrame : Sendable(f)
  /\ AllowPatterns \subseteq Seq(Seq(Nat))
  /\ \A bytes \in Foreign :
       /\ bytes \in Seq(Nat)
       /\ \A n \in 0 .. Len(bytes) :
            LET result == decode_frame(SubSeq(bytes, 1, n)) IN IsMore(result) \/ IsError(result)

VARIABLES
  link,    \* direction |-> [wire, buf, sent, got, err, alien]
  egress,  \* the target the helper connects to
  ruling   \* what the allow list said, and which list it was

vars == <<fvars, link, egress, ruling>>

Direction == {"up", "down"}

Idle == [wire |-> <<>>, buf |-> <<>>, sent |-> <<>>, got |-> <<>>,
         err |-> FALSE, alien |-> FALSE]

\* An exchange of frames has no application: its script is empty.
NoScript == [bytes |-> <<>>, end |-> 0, target |-> NoTarget, authed |-> FALSE]

Init ==
  /\ FInit
  /\ link = [d \in Direction |-> Idle]
  /\ egress = NoTarget
  /\ ruling = [patterns |-> <<>>, permitted |-> TRUE]

\* What is on the wire after a frame was encoded into it.
Sent(ends, d, f) ==
  [ends EXCEPT ![d].wire = @ \o encode_frame(f), ![d].sent = Append(@, f)]

-----------------------------------------------------------------------------

\* Frames sent by the two ends of the exchange.
SendsFrame ==
  /\ proto = "frames"
  /\ Len(link["up"].sent) < MaxFrames /\ ~link["up"].alien
  /\ \E f \in SomeFrame : link' = Sent(link, "up", f)
  /\ UNCHANGED <<fvars, egress, ruling>>

SendsForeign ==
  /\ proto = "frames" /\ ~link["up"].alien
  /\ \E bytes \in Foreign :
       link' = [link EXCEPT !["up"].wire = @ \o bytes, !["up"].alien = TRUE]
  /\ UNCHANGED <<fvars, egress, ruling>>

\* HelperDialer::dial and open_stream: the Open is sent, and success answered
\* at once. A dial of DirectTcpipDialer hands host_string to sshd instead.
Dials ==
  /\ DialOk
  /\ link' = Sent(link, "up", Open(1, target))
  /\ UNCHANGED <<egress, ruling>>

\* The dialer gave the stream, but the application does not hear of it.
DialsInVain ==
  /\ DialBreaks
  /\ link' = Sent(link, "up", Open(1, target))
  /\ UNCHANGED <<egress, ruling>>

\* A read of the channel, which happens when no whole frame is left to decode.
Delivers(d) ==
  /\ link[d].wire # <<>> /\ ~link[d].err
  /\ IsMore(decode_frame(link[d].buf))
  /\ \E n \in 1 .. Len(link[d].wire) :
       link' = [link EXCEPT ![d].buf = @ \o SubSeq(link[d].wire, 1, n),
                            ![d].wire = SubSeq(@, n + 1, Len(@))]
  /\ UNCHANGED <<fvars, egress, ruling>>

\* The answer of the helper to an Open: the allow list it was started with (the
\* one Open of the run chooses it), then the connection, which is external.
Answer(f, ends) ==
  \E patterns \in AllowPatterns :
    LET allow == parse(patterns) IN
    /\ allow # Bad
    /\ ruling' = [patterns |-> patterns, permitted |-> permits(allow, f.addr)]
    /\ IF permits(allow, f.addr)
       THEN /\ egress' = f.addr
            /\ \/ link' = Sent(ends, "down", Frame(OPEN_OK, f.stream, <<>>))
               \/ link' = Sent(ends, "down", Frame(OPEN_ERR, f.stream,
                                                   <<ConnectFailed, <<120, 121, 122>> >>))
       ELSE /\ link' = Sent(ends, "down", Frame(OPEN_ERR, f.stream, <<Forbidden, <<120>>>>))
            /\ UNCHANGED egress

\* One turn of the inner loop of a reader.
Decodes(d) ==
  LET result == decode_frame(link[d].buf)
      ends == [link EXCEPT ![d].buf = result.rest, ![d].got = Append(@, result.frame)]
  IN
  /\ ~link[d].err /\ ~IsMore(result)
  /\ IF IsError(result)
     THEN link' = [link EXCEPT ![d].err = TRUE] /\ UNCHANGED <<egress, ruling>>
     ELSE IF d = "up" /\ proto # "frames" /\ result.frame.ty = OPEN
     THEN Answer(result.frame, ends)
     ELSE link' = ends /\ UNCHANGED <<egress, ruling>>
  /\ UNCHANGED fvars

Application == (Arrives \/ Closes) /\ UNCHANGED <<link, egress, ruling>>

Serves ==
  /\ Socks5 \/ HttpConnect \/ DialFails \/ Relay
  /\ UNCHANGED <<link, egress, ruling>>

Sockets == (UpstreamEnds \/ Breaks) /\ UNCHANGED <<link, egress, ruling>>

Next == \/ Application \/ Sockets \/ Serves \/ Dials \/ DialsInVain \/ SendsFrame \/ SendsForeign
        \/ \E d \in Direction : Delivers(d) \/ Decodes(d)

Spec == Init /\ [][Next]_vars

\* serve_conn runs, the dialer answers, and the upstream takes what is written to it,
\* but need not end. No socket need fail, and the channel need not deliver: a dial is
\* answered before the helper has decided.
FairSpec ==
  /\ Spec
  /\ WF_vars(Serves)
  /\ WF_vars(Dials)

-----------------------------------------------------------------------------
(* Properties                                                              *)

\* The n-th byte ends the empty line after a head.
EndsHead(n) == n >= 4 /\ SubSeq(script.bytes, n - 3, n) = CRLFCRLF

\* The first n bytes are a CONNECT that may be served.
HttpRequest(n) ==
  /\ EndsHead(n) /\ \A k \in 4 .. n - 1 : ~EndsHead(k)
  /\ n <= MAX_HEAD_BYTES
  /\ Refusal(SubSeq(script.bytes, 1, n)) = 0

\* The credentials, behind m bytes.
LogsIn(m) ==
  LET bytes == script.bytes
      u == m + 2 + Len(User)
  IN
  /\ bytes[m + 1] = 1 /\ bytes[m + 2] = Len(User) /\ SubSeq(bytes, m + 3, u) = User
  /\ bytes[u + 1] = Len(Pass) /\ SubSeq(bytes, u + 2, u + 1 + Len(Pass)) = Pass

\* The bytes of the greeting, and those before the request.
GreetingLen == 2 + script.bytes[2]
RequestAt == GreetingLen + IF creds THEN 3 + Len(User) + Len(Pass) ELSE 0

\* The first n bytes are the handshake of an application that may be served.
SocksRequest(n) ==
  LET bytes == script.bytes
      addr == decode(SubSeq(bytes, RequestAt + 4, n))
  IN
  /\ n >= 2 /\ n >= RequestAt + 4
  /\ bytes[1] = 5 /\ \E i \in 3 .. GreetingLen : bytes[i] = required_method
  /\ creds => LogsIn(GreetingLen)
  /\ bytes[RequestAt + 1] = 5 /\ bytes[RequestAt + 2] = 1
  /\ ~IsError(addr) /\ encode(addr) = SubSeq(bytes, RequestAt + 4, n)
  /\ addr.kind = KIND_DOMAIN => validate_domain(addr.host)

IsRequest(n) == IF proto = "socks5" THEN SocksRequest(n) ELSE HttpRequest(n)

\* The address in a request of n bytes.
Named(n) ==
  IF proto = "socks5" THEN decode(SubSeq(script.bytes, RequestAt + 4, n))
                      ELSE parse_authority(Asked(SubSeq(script.bytes, 1, n)))

\* The dialer gave a connection.
Served == relay # NoRelay

\* However its bytes are cut, an application is served according to a request that it
\* starts with, and what it sends behind that request is what the upstream gets.
ServedAsAsked ==
  target # NoTarget =>
    \E n \in 0 .. rd :
      /\ IsRequest(n) /\ target = Named(n)
      /\ Served => up \o held = SubSeq(script.bytes, n + 1, rd)

\* Who is not served did not say what may be served, or closed before that was said, or
\* the socket failed.
RefusedWithReason ==
  pc \in Ended \ {"broken"} /\ target = NoTarget =>
    \A n \in 0 .. Len(script.bytes) : IsRequest(n) => closed /\ arrived < n

\* The script gave the credentials, or, to a SOCKS5 proxy that wants none, offered that.
Welcome == creds = script.authed \/ (~creds /\ proto # "socks5")

\* A script says where its request ends and what it asks for, and has one if it names a target.
MeansIt ==
  /\ \A n \in 0 .. Len(script.bytes) :
       IsRequest(n) =>
         n = script.end /\ Named(n) = script.target /\ (creds => script.authed)
  /\ script.target # NoTarget /\ Welcome => \E n \in 0 .. Len(script.bytes) : IsRequest(n)

\* Types, and the bound on what a connection may make the proxy buffer.
PathInv ==
  /\ arrived \in 0 .. Len(script.bytes) /\ rd \in 0 .. arrived
  /\ scanned <= rd
  /\ pc \in {"read", "scan"} => rd <= MAX_HEAD_BYTES + READ_CHUNK
  /\ target.kind = KIND_DOMAIN => Len(target.host) < LenMod
  /\ ServedAsAsked /\ RefusedWithReason /\ (arrived = 0 => MeansIt)

\* The helper connects to the target the application named, if at all, and only
\* for an application that gave the credentials; a name never changes on its
\* way through two parsers and two encodings. The other way round, who named a
\* target and gave the credentials (or, to a SOCKS5 proxy that wants none, none)
\* is refused by the dialer or the helper only, unless it closed before it said so, or
\* the socket failed.
ServedAsMeant ==
  /\ PathInv
  /\ egress # NoTarget => egress = target
  /\ target # NoTarget =>
       target = script.target /\ (creds => script.authed) /\ rd >= script.end
  /\ pc \in Ended \ {"broken"} /\ target = NoTarget =>
       \/ script.target = NoTarget
       \/ ~Welcome
       \/ closed /\ arrived < script.end

\* The bytes after the request are the upstream's: all that were read, once and
\* in order, wherever the reads and writes cut the stream, and what it was not given
\* yet is held. Its half is shut down only behind all that the application sent.
PayloadIsExact ==
  Served =>
    /\ up \o held = SubSeq(script.bytes, script.end + 1, rd)
    /\ relay.up = "shut" => closed /\ up = SubSeq(script.bytes, script.end + 1, arrived)

\* A message longer than its length field is cut, in the answer to an Open.
Carried(f) ==
  IF f.ty = OPEN_ERR
  THEN [f EXCEPT !.fields[2] = SubSeq(@, 1, Least(Len(@), MSG_MAX))] ELSE f

\* Frames come out as they went in, in order, none twice and none forgotten in
\* the buffer, for every cut of the bytes; an error means bytes that are no frame.
FramesAsSent ==
  \A d \in Direction :
    LET sent == [i \in DOMAIN link[d].sent |-> Carried(link[d].sent[i])] IN
    /\ IsPrefix(link[d].got, sent)
    /\ link[d].err => link[d].alien
    /\ link[d].wire = <<>> /\ IsMore(decode_frame(link[d].buf)) /\ ~link[d].alien =>
         link[d].buf = <<>> /\ link[d].got = sent

\* A rule is a host, or a host in brackets, and a port behind it or none. Without
\* brackets a colon is that of the port if it is the only one.
Written(pattern, host, ports) ==
  LET behind == IF ports = {} THEN <<>> ELSE <<Colon, Last(pattern)>>
      colons == {i \in DOMAIN pattern : pattern[i] = Colon}
  IN
  \/ pattern = <<Open_>> \o host \o <<Close_>> \o behind /\ Close_ \notin Range(host)
  \/ /\ pattern = host \o behind /\ Head(pattern) # Open_
     /\ ports # {} <=> \E i \in colons : colons = {i}

\* What the documentation of the rules says, on names as text: a name below
\* *.parent is a text before .parent, case and the root dot do not matter, and
\* IP addresses are compared as numbers.
Covers(host, addr) ==
  LET name == host_key(addr) IN
  \/ host = <<Star>>
  \/ \E k \in 1 .. Len(name) - 1 :
       /\ name[k + 1] = Dot
       /\ normalize_host(host) = <<Star>> \o SubSeq(name, k + 1, Len(name))
  \/ IpOf(host) = <<>> /\ normalize_host(host) = name
  \/ IpOf(host) # <<>> /\ IpOf(host) = target_ip(addr)

Documented(pattern, addr) ==
  \E i \in {1, 2}, j \in DOMAIN pattern, ports \in {{}, {Last(pattern)}} :
    LET host == SubSeq(pattern, i, j) IN
    Written(pattern, host, ports) /\ (ports = {} \/ addr.port \in ports) /\ Covers(host, addr)

\* The allow list lets through exactly what the documentation of its rules says;
\* blanks around a rule are no part of it.
AllowedAsDocumented ==
  LET patterns == ruling.patterns IN
  /\ ruling.permitted <=>
       patterns = <<>> \/ \E i \in DOMAIN patterns : Documented(Trim(patterns[i]), target)
  /\ egress # NoTarget => ruling.permitted

\* When the application closes, its connection comes to an end, or the upstream is told
\* that no more will come; when the upstream ends as well, the connection ends.
ConnectionEnds ==
  /\ (closed /\ proto # "frames") ~> (pc \in Ended \/ relay.up = "shut")
  /\ (closed /\ relay.down \in {"ended", "shut"}) ~> pc \in Ended

\* The relay goes on until one of the sides is read to its end, as its comment says.
RelayEndsAtEof ==
  (pc = "relay" /\ (relay.up = "shut" \/ relay.down = "shut")) ~> pc \in Ended

=============================================================================
