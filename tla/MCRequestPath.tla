--------------------------- MODULE MCRequestPath ----------------------------
(* Applications, patterns and frames. A name has at most three bytes where  *)
(* the length byte has four values; "a" is 97, "B" 66, "4" and "6" are IP    *)
(* literals, and "66" and "::" are other texts of one IPv6 address.         *)
EXTENDS RequestPath

MCPort == {80, 81}
MCIpText == << << <<52>>, <<4>> >>, << <<54>>, <<6, 6>> >>, << <<54, 54>>, <<6, 6>> >>, << <<58, 58>>, <<6, 6>> >> >>

User1 == <<117>>
Pass1 == <<112, 113>>

Bytes(bytes, end, addr, authed) ==
  [bytes |-> bytes, end |-> end, target |-> addr, authed |-> authed]

\* SOCKS5: greeting, credentials, request, payload.
Greetings == {<<5, 1, 0>>, <<5, 2, 0, 2>>, <<5, 1, 2>>, <<5, 1, 9>>, <<5, 0>>, <<4, 1, 0>>}
Logins == {<<1, 1>> \o User1 \o <<2>> \o Pass1, <<1, 1>> \o User1 \o <<1, 112>>,
           <<1, 0, 0>>, <<2, 1>>}
Good == <<1, 1>> \o User1 \o <<2>> \o Pass1
Names == {<<97, 46, 66>>, <<46, 98>>, <<98, 46>>, <<97, 97, 98>>, <<52>>}
Asks == {[bytes |-> <<5, 1, 0, 3, Len(n)>> \o n \o <<80>>, addr |-> Domain(n, 80)] : n \in Names}
        \cup {[bytes |-> <<5, 1, 0, 1, 4, 81>>, addr |-> V4(<<4>>, 81)],
              [bytes |-> <<5, 1, 0, 4, 6, 6, 80>>, addr |-> V6(<<6, 6>>, 80)]}
BadAsks == {<<5, 2, 0, 3, 1, 97, 80>>, <<4, 1, 0, 1, 4, 80>>, <<5, 1, 0, 9, 1>>, <<5, 1, 0, 3, 0, 80>>,
            <<5, 1, 0, 3, 1, 32, 80>>, <<5, 1, 0, 3, 1, 255, 80>>}


\* Applications that offer the credentials and give them, or do not.
SocksScripts ==
  {Bytes(<<5, 1, 0>> \o a.bytes \o <<7>>, 3 + Len(a.bytes), a.addr, FALSE) : a \in Asks}
  \cup {Bytes(<<5, 1, 2>> \o Good \o a.bytes, 3 + Len(Good) + Len(a.bytes), a.addr, TRUE)
          : a \in {b \in Asks : b.addr.port = 81 \/ Len(b.addr.host) = 3}}
  \cup {Bytes(g \o l \o <<5, 1, 0, 1, 4, 80>>, Len(g \o l) + 6, NoTarget, FALSE)
          : g \in Greetings, l \in Logins \ {Good}}
  \cup {Bytes(<<5, 1, 0>> \o b, 3 + Len(b), NoTarget, FALSE) : b \in BadAsks}

\* HTTP: a byte from 100 is a request line, from 200 a header.
Line(method, host, bracket, port, version) ==
  [method |-> method, host |-> host, bracket |-> bracket, port |-> port, version |-> version]
MCRequestLine ==
     100 :> Line("CONNECT", <<97, 46, 66>>, FALSE, 80, "HTTP/1.1")
  @@ 101 :> Line("CONNECT", <<97, 46, 66, 46>>, FALSE, 80, "HTTP/1.1")
  @@ 102 :> Line("CONNECT", <<54, 54>>, TRUE, 80, "HTTP/1.0")
  @@ 103 :> Line("CONNECT", <<97>>, TRUE, 80, "HTTP/1.1")
  @@ 104 :> Line("GET", <<97>>, FALSE, 80, "HTTP/1.1")
  @@ 105 :> Line("CONNECT", <<97>>, FALSE, 0, "HTTP/1.1")
  @@ 106 :> Line("CONNECT", <<97>>, FALSE, 80, "HTTP/2")
  @@ 107 :> Line("CONNECT", <<97>>, FALSE, 80, "none")
  @@ 108 :> Line("CONNECT", <<52>>, FALSE, 81, "HTTP/1.1")
MCHeader == 200 :> [name |-> "proxy-authorization", value |-> "good"]
         @@ 201 :> [name |-> "proxy-authorization", value |-> "wrong"]
         @@ 202 :> [name |-> "host", value |-> "any"]

MeantBy == 100 :> Domain(<<97, 46, 66>>, 80) @@ 102 :> V6(<<6, 6>>, 80) @@ 108 :> V4(<<4>>, 81)
Meant(l) == IF l \in DOMAIN MeantBy THEN MeantBy[l] ELSE NoTarget

Nl == <<CR, LF>>
Http(head, addr, authed, early) == Bytes(head \o early, Len(head), addr, authed)
HttpScripts ==
  {Http(<<l>> \o Nl \o Nl, Meant(l), FALSE, e) : l \in DOMAIN MCRequestLine, e \in {<<>>, <<7, 8>>}}
  \cup {Http(<<108>> \o Nl \o <<200>> \o Nl \o Nl, Meant(108), TRUE, <<CR, LF>>),
        Http(<<100>> \o Nl \o <<200>> \o Nl \o <<201>> \o Nl \o Nl, Meant(100), FALSE, <<>>),
        Http(<<100>> \o Nl \o <<CR, 200>> \o Nl \o Nl, Meant(100), TRUE, <<7>>),
        Http(<<100>> \o Nl \o <<CR>> \o Nl \o Nl, NoTarget, FALSE, <<>>),
        Http(<<100>> \o Nl \o <<150>> \o Nl \o Nl, NoTarget, FALSE, <<>>),
        Http(<<100>> \o Nl \o <<255>> \o Nl \o Nl, NoTarget, FALSE, <<>>),
        Http(Nl \o Nl, NoTarget, FALSE, <<>>),
        Http(<<100, 202, 202, 202, 202, 202, 202, 202, 202, 202>> \o Nl \o Nl, NoTarget, FALSE, <<>>),
        Http(<<100, 202, 202, 202, 202, 202, 202, 202, 202, 202, 202, 202, 202, 202, 202, 202, 202>>,
             NoTarget, FALSE, <<>>)}

MCScript == "socks5" :> SocksScripts @@ "http" :> HttpScripts @@ "frames" :> {NoScript}

\* One application that closes and an upstream that need not.
MCOne == "http" :> {s \in HttpScripts : s.target = V4(<<4>>, 81) /\ Len(s.bytes) = s.end}

AnyTarget == {<<>>}

\* *.b  b  *:80  a:81  4  [66]:80  *.B.  " AAB\t"  *b  ::  a:0  [::]  b.:81
MCAllowPatterns == { <<>>, << <<42, 46, 98>> >>, << <<98>> >>, << <<42, 58, 80>> >>,
                     << <<97, 58, 81>>, <<52>> >>, << <<91, 54, 54, 93, 58, 80>>, <<42, 46, 66, 46>> >>,
                     << <<32, 65, 65, 66, 9>> >>, << <<42, 98>> >>, << <<58, 58>>, <<97, 58, 0>> >>,
                     << <<91, 58, 58, 93>>, <<98, 46, 58, 81>> >> }

MCSomeFrame ==
  {Frame(HELLO, 0, <<1, 9, 1>>), Open(1, Domain(<<97, 46, 66>>, 80)),
   Open(2, V4(<<4>>, 80)), Open(2, V6(<<6, 6>>, 80)), Frame(OPEN_OK, 1, <<>>),
   Frame(OPEN_ERR, 1, <<Forbidden, <<120, 121, 122>> >>), 
   Frame(DATA, 1, <<3, <<7, 8>> >>), Frame(ACK, 1, <<4>>), Frame(FIN, 1, <<>>),
   Frame(RESET, 1, <<Normal>>), Frame(RESUME, 1, <<2>>),
   Frame(RESUME_ERR, 1, <<ResumeImpossible>>), Frame(PING, 0, <<5>>)}

MCForeign == {<<0, 1, 0>>, <<ACK, 1, 0>>, <<DATA, 1, 9>>, <<OPEN, 1, 2, 3, 0>>, <<OPEN, 1, 1, 9>>, <<OPEN_ERR, 1, 2, 0, 1>>}

=============================================================================
