---- MODULE MCSocks5Parser ----
(***************************************************************************)
(* One message of a local peer arrives byte by byte, with bytes of later   *)
(* messages behind it, and the parser looks at what is there after each.   *)
(***************************************************************************)
EXTENDS Socks5Parser

CONSTANT NameLengths    \* how long the domain names of the requests are

ASSUME NameLengthsAssumption == NameLengths \subseteq 0 .. 255

VARIABLES asked,       \* the message: a greeting or a request, and its fields
          received     \* the bytes of it, and of what follows, read so far

vars == <<asked, received>>

Name(n) == [i \in 1 .. n |-> 96 + i]

Endpoints ==
    LET hosts == {<<Ipv4, <<10, 0, 0, 1>>>>, <<Ipv6, [i \in 1 .. 16 |-> 16 * i - 1]>>,
                  <<2, <<9, 9, 9, 9>>>>} \union {<<Dom, Name(n)>> : n \in NameLengths}
    IN  {Endpoint(host[1], host[2], port) : host \in hosts, port \in {80, 443, 256, 65535}}

Greetings ==
    [kind : {"greeting"}, version : {4, Version},
     methods : {<<>>, <<NoAuth>>, <<2>>, <<1, 2, NoAuth>>, <<1, NoAuth, 2>>}]
Requests ==
    [kind : {"request"}, version : {4, Version}, command : {TcpConnection, 2},
     endpoint : Endpoints]

Message ==
    IF asked.kind = "greeting" THEN Greeting(asked.version, asked.methods)
    ELSE Request(asked.version, asked.command, asked.endpoint)

(* The zero byte of what follows is also the number of a method.           *)
Following == <<NoAuth, 7, NoAuth>>

Init ==
    /\ asked \in Greetings \union Requests
    /\ received = <<>>

Arrive ==
    LET all == Message \o Following
    IN  /\ Len(received) < Len(all)
        /\ received' = SubSeq(all, 1, Len(received) + 1)
        /\ UNCHANGED asked

Next == Arrive

Spec == Init /\ [][Next]_vars

----
Beyond == {NoAuth, 7, 255}
Whole == Len(received) >= Len(Message)

(* A greeting is accepted if and only if all of it has arrived, it is of   *)
(* version 5 and offers to go without authentication; no byte behind it,   *)
(* in the buffer or beyond, is taken for one of its methods:               *)
(* socks5::is_socks5_auth_request.                                         *)
GreetingExact ==
    asked.kind = "greeting" => \A beyond \in Beyond :
        IsAuthRequest(received, beyond) <=>
            /\ Whole
            /\ asked.version = Version
            /\ \E i \in DOMAIN asked.methods : asked.methods[i] = NoAuth

(* Once a request of at least ten bytes is complete, it is served if and   *)
(* only if it asks for a TCP connection of version 5 to a host of a known  *)
(* type, and the endpoint is the one it names, whatever follows it:        *)
(* socks5::is_valid_request_packet and socks5::get_remote_address_info.    *)
VerdictExact ==
    asked.kind = "request" /\ Whole /\ Len(Message) >= RequestHeaderMinLength =>
        \A beyond \in Beyond :
            Requested(received, beyond) =
                IF /\ asked.version = Version
                   /\ asked.command = TcpConnection
                   /\ asked.endpoint.type \in {Ipv4, Ipv6, Dom}
                   /\ asked.endpoint.address # <<>>
                  THEN asked.endpoint
                  ELSE NoEndpoint
====
