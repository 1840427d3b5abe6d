---- MODULE Socks5ParserProofs ----
(***************************************************************************)
(* Theorems about the SOCKS5 parser: what it makes of a greeting and of a  *)
(* request with any fields, wherever the buffer ends and whatever follows  *)
(* the message in it.  MCSocks5Parser checks the same for some messages.   *)
(***************************************************************************)
EXTENDS MCSocks5Parser, SequenceTheorems, TLAPS

(* A buffer and a message have the same bytes where both have one.         *)
Agrees(buffer, message) ==
    \A i \in 1 .. Len(buffer) : i <= Len(message) => buffer[i] = message[i]

LEMMA GreetingBytes ==
    ASSUME NEW version \in Int, NEW methods \in Seq(Int)
    PROVE  LET message == Greeting(version, methods)
           IN  /\ message \in Seq(Int)
               /\ Len(message) = Len(methods) + 2
               /\ message[1] = version /\ message[2] = Len(methods)
               /\ \A i \in 1 .. Len(methods) : message[i + 2] = methods[i]
<1> DEFINE head == <<version, Len(methods)>>
           message == Greeting(version, methods)
<1>1. head \in Seq(Int) /\ Len(head) = 2 /\ head[1] = version /\ head[2] = Len(methods)
  OBVIOUS
<1>2. /\ head \o methods \in Seq(Int)
      /\ Len(head \o methods) = Len(head) + Len(methods)
      /\ \A i \in 1 .. Len(head) + Len(methods) :
           (head \o methods)[i] = IF i <= Len(head) THEN head[i] ELSE methods[i - Len(head)]
  <2> HIDE DEF head
  <2> QED
    BY <1>1, ConcatProperties
<1>3. message = head \o methods /\ Len(methods) \in Nat
  BY DEF Greeting
<1> HIDE DEF head, message
<1>4. message[1] = head[1] /\ message[2] = head[2]
  BY <1>1, <1>2, <1>3
<1>5. ASSUME NEW i \in 1 .. Len(methods) PROVE message[i + 2] = methods[i]
  <2>1. i + 2 \in 1 .. Len(head) + Len(methods) /\ ~(i + 2 <= Len(head)) /\ i + 2 - Len(head) = i
    BY <1>1, <1>3
  <2> QED
    BY <1>2, <1>3, <2>1
<1> QED
  BY <1>1, <1>2, <1>3, <1>4, <1>5 DEF message

(* A buffer with the first bytes of a greeting, and with what follows them *)
(* once the greeting is complete, is accepted if and only if all of the    *)
(* greeting is there, it is of version 5 and one of its methods is 0:      *)
(* socks5::is_socks5_auth_request, for every list of methods.              *)
THEOREM GreetingDecided ==
    ASSUME NEW version \in Int, NEW methods \in Seq(Int), NEW buffer \in Seq(Int), NEW beyond,
           Agrees(buffer, Greeting(version, methods))
    PROVE  IsAuthRequest(buffer, beyond) <=>
             /\ Len(buffer) >= Len(Greeting(version, methods))
             /\ version = Version
             /\ \E i \in DOMAIN methods : methods[i] = NoAuth
<1> DEFINE message == Greeting(version, methods)
           n == Len(methods)
           l == Len(buffer)
<1>1. /\ n \in Nat /\ l \in Nat /\ DOMAIN methods = 1 .. n
      /\ Len(message) = n + 2 /\ message[1] = version /\ message[2] = n
      /\ \A i \in 1 .. n : message[i + 2] = methods[i]
  BY GreetingBytes
<1>2. \A i \in 1 .. l : i <= Len(message) => buffer[i] = message[i]
  BY DEF Agrees
<1> HIDE DEF message, n, l
<1>3. CASE l < 2
  <2>1. ~IsAuthRequest(buffer, beyond)
    BY <1>1, <1>3 DEF IsAuthRequest, HeaderMinLength, l
  <2> QED
    BY <1>1, <1>3, <2>1 DEF message, l
<1>4. CASE l >= 2
  <2>1. buffer[1] = version /\ buffer[2] = n
    BY <1>1, <1>2, <1>4
  <2>2. n + 2 <= l <=> l >= Len(message)
    BY <1>1
  <2>3. ASSUME n + 2 <= l, NEW i \in 1 .. n
        PROVE  At(buffer, beyond, HeaderMinLength + i - 1) = methods[i]
    <3>1. i + 2 \in 1 .. l /\ i + 2 <= Len(message) /\ HeaderMinLength + i - 1 < l
          /\ HeaderMinLength + i - 1 + 1 = i + 2
      BY <1>1, <2>3 DEF HeaderMinLength
    <3> QED
      BY <1>1, <1>2, <3>1 DEF At, l
  <2>4. IsAuthRequest(buffer, beyond) <=>
          /\ version = Version
          /\ n + 2 <= l
          /\ \E i \in 1 .. n : At(buffer, beyond, HeaderMinLength + i - 1) = NoAuth
    BY <1>1, <1>4, <2>1 DEF IsAuthRequest, HeaderMinLength, l
  <2> QED
    BY <1>1, <2>2, <2>3, <2>4 DEF message, l
<1> QED
  BY <1>1, <1>3, <1>4

LEMMA Concat ==
    ASSUME NEW a \in Seq(Int), NEW b \in Seq(Int)
    PROVE  /\ a \o b \in Seq(Int) /\ Len(a \o b) = Len(a) + Len(b)
           /\ \A i \in 1 .. Len(a) : (a \o b)[i] = a[i]
           /\ \A i \in 1 .. Len(b) : (a \o b)[Len(a) + i] = b[i]
<1>1. /\ a \o b \in Seq(Int) /\ Len(a \o b) = Len(a) + Len(b)
      /\ \A i \in 1 .. Len(a) + Len(b) : (a \o b)[i] = IF i <= Len(a) THEN a[i] ELSE b[i - Len(a)]
  BY ConcatProperties
<1>2. Len(a) \in Nat /\ Len(b) \in Nat
  OBVIOUS
<1> DEFINE c == a \o b
           m == Len(a)
           n == Len(b)
<1> HIDE DEF c, m, n
<1>3. /\ m \in Nat /\ n \in Nat
      /\ \A i \in 1 .. m + n : c[i] = IF i <= m THEN a[i] ELSE b[i - m]
  BY <1>1, <1>2 DEF c, m, n
<1>4. \A i \in 1 .. m : c[i] = a[i]
  BY <1>3
<1>5. ASSUME NEW i \in 1 .. n PROVE c[m + i] = b[i]
  <2>1. m + i \in 1 .. m + n /\ ~(m + i <= m) /\ m + i - m = i
    BY <1>3
  <2> QED
    BY <1>3, <2>1
<1> QED
  BY <1>1, <1>4, <1>5 DEF c, m, n

(* Where the fields of a request are.                                      *)
Wellformed(endpoint) ==
    /\ endpoint \in [type : Int, address : Seq(Int), port : Int]
    /\ 0 <= endpoint.port /\ endpoint.port < 65536
    /\ endpoint.type = Ipv4 => Len(endpoint.address) = Ipv4Length
    /\ endpoint.type = Ipv6 => Len(endpoint.address) = Ipv6Length

LEMMA Fields ==
    ASSUME NEW endpoint, Wellformed(endpoint)
    PROVE  /\ endpoint.type \in Int /\ endpoint.address \in Seq(Int) /\ endpoint.port \in Int
           /\ Len(endpoint.address) \in Nat
           /\ endpoint = Endpoint(endpoint.type, endpoint.address, endpoint.port)
<1>1. endpoint \in [type : Int, address : Seq(Int), port : Int]
  BY DEF Wellformed
<1>2. endpoint.address \in Seq(Int)
  BY <1>1
<1> QED
  BY <1>1, <1>2 DEF Endpoint

AddressAt(endpoint) == IF endpoint.type = Dom THEN 5 ELSE 4

LEMMA RequestBytes ==
    ASSUME NEW version \in Int, NEW command \in Int, NEW endpoint, Wellformed(endpoint)
    PROVE  LET message == Request(version, command, endpoint)
               at      == AddressAt(endpoint)
               n       == Len(endpoint.address)
           IN  /\ message \in Seq(Int) /\ Len(message) = at + n + 2
               /\ message[1] = version /\ message[2] = command /\ message[4] = endpoint.type
               /\ endpoint.type = Dom => message[5] = n
               /\ \A i \in 1 .. n : message[at + i] = endpoint.address[i]
               /\ message[at + n + 1] = endpoint.port \div 256
               /\ message[at + n + 2] = endpoint.port % 256
<1> DEFINE a == endpoint.address
           h == <<version, command, 0, endpoint.type>>
           d == IF endpoint.type = Dom THEN <<Len(a)>> ELSE <<>>
           p == <<endpoint.port \div 256, endpoint.port % 256>>
           n == Len(a)
           at == AddressAt(endpoint)
           message == Request(version, command, endpoint)
           hd == h \o d
           hda == hd \o a
<1>1. message = hda \o p
  BY DEF Request
<1>2. endpoint.type \in Int /\ a \in Seq(Int) /\ endpoint.port \in Int /\ n \in Nat
  BY Fields
<1>3. /\ h \in Seq(Int) /\ Len(h) = 4 /\ h[1] = version /\ h[2] = command
      /\ h[4] = endpoint.type
  BY <1>2
<1>4. d \in Seq(Int) /\ Len(d) = at - 4 /\ (endpoint.type = Dom => d[1] = n)
  BY <1>2 DEF AddressAt
<1>5. p \in Seq(Int) /\ Len(p) = 2 /\ p[1] = endpoint.port \div 256 /\ p[2] = endpoint.port % 256
  BY <1>2
<1>6. at \in {4, 5} /\ (endpoint.type = Dom => at = 5)
  BY DEF AddressAt
<1> HIDE DEF h, d, p, n, at, message
<1>7. /\ hd \in Seq(Int) /\ Len(hd) = at
      /\ hd[1] = version /\ hd[2] = command /\ hd[4] = endpoint.type
      /\ endpoint.type = Dom => hd[5] = n
  <2>1. /\ hd \in Seq(Int) /\ Len(hd) = Len(h) + Len(d)
        /\ \A i \in 1 .. Len(h) : hd[i] = h[i]
        /\ \A i \in 1 .. Len(d) : hd[Len(h) + i] = d[i]
    BY <1>3, <1>4, Concat
  <2> HIDE DEF hd
  <2>2. Len(h) = 4 /\ Len(d) = at - 4 /\ Len(hd) = at
    BY <1>3, <1>4, <1>6, <2>1
  <2>3. hd[1] = version /\ hd[2] = command /\ hd[4] = endpoint.type
    BY <1>3, <2>1, <2>2
  <2>4. ASSUME endpoint.type = Dom PROVE hd[5] = n
    <3>1. Len(d) = 1 /\ 1 \in 1 .. 1 /\ Len(h) + 1 = 5
      BY <1>6, <2>2, <2>4
    <3>2. hd[Len(h) + 1] = d[1]
      BY <2>1, <3>1
    <3> HIDE DEF hd
    <3> QED
      BY <1>4, <2>4, <3>1, <3>2
  <2> QED
    BY <2>1, <2>2, <2>3, <2>4
<1> HIDE DEF hd
<1>8. /\ hda \in Seq(Int) /\ Len(hda) = at + n
      /\ hda[1] = version /\ hda[2] = command /\ hda[4] = endpoint.type
      /\ endpoint.type = Dom => hda[5] = n
      /\ \A i \in 1 .. n : hda[at + i] = a[i]
  <2>1. /\ hda \in Seq(Int) /\ Len(hda) = Len(hd) + Len(a)
        /\ \A i \in 1 .. Len(hd) : hda[i] = hd[i]
        /\ \A i \in 1 .. Len(a) : hda[Len(hd) + i] = a[i]
    BY <1>2, <1>7, Concat
  <2> HIDE DEF hda
  <2>2. 1 \in 1 .. at /\ 2 \in 1 .. at /\ 4 \in 1 .. at /\ (endpoint.type = Dom => 5 \in 1 .. at)
    BY <1>6
  <2> QED
    BY <1>7, <2>1, <2>2 DEF n
<1> HIDE DEF hda
<1>9. /\ message \in Seq(Int) /\ Len(message) = at + n + 2
      /\ \A i \in 1 .. at + n : message[i] = hda[i]
      /\ message[at + n + 1] = endpoint.port \div 256
      /\ message[at + n + 2] = endpoint.port % 256
  <2>1. /\ hda \o p \in Seq(Int) /\ Len(hda \o p) = Len(hda) + Len(p)
        /\ \A i \in 1 .. Len(hda) : (hda \o p)[i] = hda[i]
        /\ \A i \in 1 .. Len(p) : (hda \o p)[Len(hda) + i] = p[i]
    BY <1>5, <1>8, Concat
  <2>2. 1 \in 1 .. Len(p) /\ 2 \in 1 .. Len(p)
    BY <1>5
  <2>3. Len(hda) = at + n
    BY <1>8
  <2>4. message[at + n + 1] = p[1] /\ message[at + n + 2] = p[2]
    BY <1>1, <2>1, <2>2, <2>3
  <2>5. Len(message) = at + n + 2 /\ message \in Seq(Int)
    BY <1>1, <1>5, <2>1, <2>3
  <2>6. \A i \in 1 .. at + n : message[i] = hda[i]
    BY <1>1, <2>1, <2>3
  <2> QED
    BY <1>5, <2>4, <2>5, <2>6
<1>10. /\ 1 \in 1 .. at + n /\ 2 \in 1 .. at + n /\ 4 \in 1 .. at + n
       /\ endpoint.type = Dom => 5 \in 1 .. at + n
       /\ \A i \in 1 .. n : at + i \in 1 .. at + n
  BY <1>2, <1>6
<1>11. /\ message[1] = version /\ message[2] = command /\ message[4] = endpoint.type
       /\ endpoint.type = Dom => message[5] = n
       /\ \A i \in 1 .. n : message[at + i] = a[i]
  <2> HIDE DEF a
  <2> QED
    BY <1>8, <1>9, <1>10
<1> QED
  BY <1>9, <1>11 DEF message, n, at

LEMMA RequestSize ==
    ASSUME NEW version \in Int, NEW command \in Int, NEW endpoint, Wellformed(endpoint)
    PROVE  /\ Request(version, command, endpoint) \in Seq(Int)
           /\ Len(Request(version, command, endpoint)) =
                AddressAt(endpoint) + Len(endpoint.address) + 2
BY RequestBytes

LEMMA PortBytes ==
    ASSUME NEW port \in Int, 0 <= port, port < 65536
    PROVE  Port(port \div 256, port % 256) = port
<1> DEFINE q == port \div 256
           r == port % 256
<1>1. port = 256 * q + r /\ q \in Int /\ r \in Int
  BY SMT
<1> HIDE DEF q, r
<1>2. q * 256 + r = port
  BY <1>1, SMT
<1>3. port % 65536 = port
  BY SMT
<1>4. (q * 256 + r) % 65536 = port
  BY <1>2, <1>3
<1> QED
  BY <1>4 DEF Port, q, r

(* A buffer with all of a request of at least ten bytes, whatever follows  *)
(* it, is served if and only if the request asks for a TCP connection of   *)
(* version 5 to a host of a known type, and then with the very host and    *)
(* port it names: socks5::is_valid_request_packet and                      *)
(* socks5::get_remote_address_info, for every host and port.               *)
THEOREM VerdictDecided ==
    ASSUME NEW version \in Int, NEW command \in Int, NEW endpoint, Wellformed(endpoint),
           NEW buffer \in Seq(Int), NEW beyond,
           Agrees(buffer, Request(version, command, endpoint)),
           Len(buffer) >= Len(Request(version, command, endpoint)),
           Len(Request(version, command, endpoint)) >= RequestHeaderMinLength
    PROVE  Requested(buffer, beyond) =
             IF /\ version = Version /\ command = TcpConnection
                /\ endpoint.type \in {Ipv4, Ipv6, Dom}
                /\ endpoint.address # <<>>
               THEN endpoint ELSE NoEndpoint
<1> DEFINE message == Request(version, command, endpoint)
           a == endpoint.address
           n == Len(a)
           at == AddressAt(endpoint)
           l == Len(buffer)
           known == endpoint.type \in {Ipv4, Ipv6, Dom}
<1>1. /\ Len(message) = at + n + 2
      /\ message[1] = version /\ message[2] = command /\ message[4] = endpoint.type
      /\ endpoint.type = Dom => message[5] = n
      /\ \A i \in 1 .. n : message[at + i] = a[i]
      /\ message[at + n + 1] = endpoint.port \div 256
      /\ message[at + n + 2] = endpoint.port % 256
  BY RequestBytes
<1>2. \A i \in 1 .. l : i <= Len(message) => buffer[i] = message[i]
  BY DEF Agrees
<1>3. n \in Nat /\ l \in Nat /\ at \in {4, 5} /\ l >= at + n + 2 /\ at + n + 2 >= 10
  <2>1. n \in Nat /\ l \in Nat
    BY Fields
  <2>2. at \in {4, 5}
    BY DEF AddressAt
  <2>3. l >= Len(message) /\ Len(message) >= 10
    BY DEF RequestHeaderMinLength
  <2> HIDE DEF message, n, at, l
  <2> QED
    BY <1>1, <2>1, <2>2, <2>3
<1> HIDE DEF message, n, at, l, known
<1>4. /\ buffer[1] = version /\ buffer[2] = command /\ buffer[4] = endpoint.type
      /\ endpoint.type = Dom => buffer[5] = n
  <2>1. \A i \in {1, 2, 4, 5} : i \in 1 .. l /\ i <= Len(message)
    BY <1>1, <1>3
  <2> QED
    BY <1>1, <1>2, <2>1
<1>5. IsValidRequest(buffer) <=> version = Version /\ command = TcpConnection /\ known
  <2>1. Len(buffer) >= RequestHeaderMinLength
    BY <1>3 DEF RequestHeaderMinLength, l
  <2> QED
    BY <1>4, <2>1 DEF IsValidRequest, TypeOf, known
<1>6. ASSUME known PROVE RemoteAddressInfo(buffer, beyond) = IF a = <<>> THEN NoEndpoint ELSE endpoint
  <2>1. AddressOffset(buffer) = at /\ TypeOf(buffer) = endpoint.type
    BY <1>4 DEF AddressOffset, TypeOf, AddressAt, at
  <2>2. AddressLength(buffer) = n
    <3>1. /\ endpoint.type = Ipv4 => n = Ipv4Length
          /\ endpoint.type = Ipv6 => n = Ipv6Length
      BY DEF Wellformed, n
    <3>2. Ipv4 # Ipv6 /\ Ipv4 # Dom /\ Ipv6 # Dom
      BY DEF Ipv4, Ipv6, Dom
    <3>3. CASE endpoint.type = Ipv4
      <4>1. AddressLength(buffer) = Ipv4Length
        BY <2>1, <3>2, <3>3 DEF AddressLength
      <4> QED
        BY <3>1, <3>3, <4>1
    <3>4. CASE endpoint.type = Ipv6
      <4>1. AddressLength(buffer) = Ipv6Length
        BY <2>1, <3>2, <3>4 DEF AddressLength
      <4> QED
        BY <3>1, <3>4, <4>1
    <3>5. CASE endpoint.type = Dom
      BY <1>4, <2>1, <3>5 DEF AddressLength, Ipv4, Ipv6, Dom
    <3> QED
      BY <1>6, <3>3, <3>4, <3>5 DEF known
  <2>3. ASSUME NEW i \in 1 .. n + 2
        PROVE  At(buffer, beyond, at + i - 1) = message[at + i]
    <3>1. at + i \in 1 .. l /\ at + i <= Len(message) /\ at + i - 1 < l /\ at + i - 1 + 1 = at + i
      BY <1>1, <1>3
    <3> QED
      BY <1>2, <3>1 DEF At, l
  <2>4. Bytes(buffer, beyond, at, n) = a
    <3>1. \A i \in 1 .. n : i \in 1 .. n + 2
      BY <1>3
    <3>2. Bytes(buffer, beyond, at, n) = [i \in 1 .. n |-> a[i]]
      BY <1>1, <2>3, <3>1 DEF Bytes
    <3>3. a = [i \in 1 .. n |-> a[i]]
      BY Fields DEF n
    <3> QED
      BY <3>2, <3>3
  <2>5. /\ At(buffer, beyond, at + n) = endpoint.port \div 256
        /\ At(buffer, beyond, at + n + 1) = endpoint.port % 256
    <3>1. /\ n + 1 \in 1 .. n + 2 /\ n + 2 \in 1 .. n + 2
          /\ at + (n + 1) - 1 = at + n /\ at + (n + 2) - 1 = at + n + 1
          /\ at + (n + 1) = at + n + 1 /\ at + (n + 2) = at + n + 2
      BY <1>3
    <3> QED
      BY <1>1, <2>3, <3>1
  <2>6. PortOffset(buffer) = at + n
    BY <2>1, <2>2 DEF PortOffset
  <2>7. ~(Len(buffer) < RequestHeaderMinLength)
    BY <1>3 DEF RequestHeaderMinLength, l
  <2>8. Port(endpoint.port \div 256, endpoint.port % 256) = endpoint.port
    BY PortBytes, Fields DEF Wellformed
  <2>9. Endpoint(endpoint.type, a, endpoint.port) = endpoint
    BY Fields
  <2> HIDE DEF a
  <2> QED
    BY <2>1, <2>2, <2>4, <2>5, <2>6, <2>7, <2>8, <2>9 DEF RemoteAddressInfo
<1>7. ASSUME ~IsValidRequest(buffer) PROVE Requested(buffer, beyond) = NoEndpoint
  BY <1>7 DEF Requested
<1>8. ASSUME IsValidRequest(buffer)
      PROVE  Requested(buffer, beyond) = RemoteAddressInfo(buffer, beyond)
  BY <1>8 DEF Requested
<1>9. Requested(buffer, beyond) =
        IF version = Version /\ command = TcpConnection /\ known /\ a # <<>>
          THEN endpoint ELSE NoEndpoint
  <2> HIDE DEF a
  <2> QED
    BY <1>5, <1>6, <1>7, <1>8
<1> QED
  BY <1>9 DEF known

----
(* The messages that MCSocks5Parser lets arrive are among them, whatever   *)
(* the lengths of its domain names.                                        *)
LEMMA AskedGreeting ==
    ASSUME NEW a \in Greetings
    PROVE  a.kind = "greeting" /\ a.version \in Int /\ a.methods \in Seq(Int)
<1> DEFINE offered == {<<>>, <<NoAuth>>, <<2>>, <<1, 2, NoAuth>>, <<1, NoAuth, 2>>}
<1>1. a.version \in {4, Version} /\ a.kind = "greeting" /\ a.methods \in offered
  BY DEF Greetings
<1>2. NoAuth \in Int /\ Version \in Int
  BY DEF NoAuth, Version
<1>3. offered \subseteq Seq(Int)
  BY <1>2
<1>4. a.version \in Int
  BY <1>1, <1>2
<1> HIDE DEF offered
<1> QED
  BY <1>1, <1>3, <1>4

LEMMA NameBytes ==
    ASSUME NEW n \in Nat
    PROVE  Name(n) \in Seq(Int)
<1>1. Name(n) \in [1 .. n -> Int]
  BY DEF Name
<1> QED
  BY <1>1, IsASeq DEF Name

LEMMA EndpointFields ==
    ASSUME NEW type \in Int, NEW address \in Seq(Int), NEW port \in Int,
           0 <= port, port < 65536,
           type = Ipv4 => Len(address) = Ipv4Length, type = Ipv6 => Len(address) = Ipv6Length
    PROVE  Wellformed(Endpoint(type, address, port))
BY DEF Wellformed, Endpoint

LEMMA AskedEndpoint ==
    ASSUME NEW e \in Endpoints
    PROVE  Wellformed(e)
<1> DEFINE v6 == [i \in 1 .. 16 |-> 16 * i - 1]
           hosts == {<<Ipv4, <<10, 0, 0, 1>>>>, <<Ipv6, v6>>, <<2, <<9, 9, 9, 9>>>>}
                      \union {<<Dom, Name(n)>> : n \in NameLengths}
<1>1. PICK host \in hosts, port \in {80, 443, 256, 65535} : e = Endpoint(host[1], host[2], port)
  BY DEF Endpoints
<1>2. port \in Int /\ 0 <= port /\ port < 65536
  OBVIOUS
<1>3. /\ host[1] \in Int /\ host[2] \in Seq(Int)
      /\ host[1] = Ipv4 => Len(host[2]) = Ipv4Length
      /\ host[1] = Ipv6 => Len(host[2]) = Ipv6Length
  <2>1. CASE host = <<Ipv4, <<10, 0, 0, 1>>>>
    BY <2>1 DEF Ipv4, Ipv6, Ipv4Length
  <2>2. CASE host = <<Ipv6, v6>>
    <3>1. v6 \in Seq(Int) /\ Len(v6) = 16
      OBVIOUS
    <3> HIDE DEF v6
    <3> QED
      BY <2>2, <3>1 DEF Ipv4, Ipv6, Ipv6Length
  <2>3. CASE host = <<2, <<9, 9, 9, 9>>>>
    BY <2>3 DEF Ipv4, Ipv6
  <2>4. ASSUME NEW n \in NameLengths, host = <<Dom, Name(n)>>
        PROVE  /\ host[1] \in Int /\ host[2] \in Seq(Int)
               /\ host[1] # Ipv4 /\ host[1] # Ipv6
    <3>1. n \in Nat
      BY NameLengthsAssumption
    <3> QED
      BY <2>4, <3>1, NameBytes DEF Dom, Ipv4, Ipv6
  <2> QED
    BY <2>1, <2>2, <2>3, <2>4
<1> QED
  BY <1>1, <1>2, <1>3, EndpointFields

LEMMA AskedRequest ==
    ASSUME NEW a \in Requests
    PROVE  /\ a.kind = "request" /\ a.version \in Int /\ a.command \in Int
           /\ Wellformed(a.endpoint)
<1>1. /\ a.kind = "request" /\ a.version \in {4, Version} /\ a.command \in {TcpConnection, 2}
      /\ a.endpoint \in Endpoints
  BY DEF Requests
<1> QED
  BY <1>1, AskedEndpoint DEF Version, TcpConnection

LEMMA MessageBytes ==
    ASSUME asked \in Greetings \union Requests
    PROVE  Message \in Seq(Int)
<1>1. CASE asked \in Greetings
  BY <1>1, AskedGreeting, GreetingBytes DEF Message
<1>2. CASE asked \in Requests
  BY <1>2, AskedRequest, RequestBytes DEF Message
<1> QED
  BY <1>1, <1>2

(* What has arrived of a message agrees with it.                           *)
Arriving ==
    /\ asked \in Greetings \union Requests
    /\ received \in Seq(Int)
    /\ Agrees(received, Message)

LEMMA ArrivingInit == Init => Arriving
BY DEF Init, Arriving, Agrees

LEMMA ArrivingNext == Arriving /\ [Next]_vars => Arriving'
<1> SUFFICES ASSUME Arriving, [Next]_vars PROVE Arriving'
  OBVIOUS
<1>1. CASE UNCHANGED vars
  BY <1>1 DEF vars, Arriving, Message, Agrees
<1>2. CASE Arrive
  <2> DEFINE all == Message \o Following
             n == Len(received) + 1
  <2>1. Message \in Seq(Int) /\ Following \in Seq(Int) /\ received \in Seq(Int)
    BY MessageBytes DEF Arriving, Following, NoAuth
  <2>2. /\ all \in Seq(Int) /\ Len(all) = Len(Message) + Len(Following)
        /\ \A i \in 1 .. Len(Message) : all[i] = Message[i]
    BY <2>1, Concat
  <2>3. received' = SubSeq(all, 1, n) /\ Message' = Message /\ asked' = asked
    BY <1>2 DEF Arrive, Message
  <2>4. n \in Nat /\ n <= Len(all)
    BY <1>2, <2>1, <2>2 DEF Arrive
  <2> HIDE DEF all, n
  <2>5. \A i \in 1 .. n : all[i] \in Int
    BY <2>2, <2>4
  <2>6. /\ SubSeq(all, 1, n) \in Seq(Int) /\ Len(SubSeq(all, 1, n)) = n
        /\ \A i \in 1 .. n : SubSeq(all, 1, n)[i] = all[i]
    <3>1. /\ SubSeq(all, 1, n) \in Seq(Int)
          /\ Len(SubSeq(all, 1, n)) = IF 1 <= n THEN n - 1 + 1 ELSE 0
          /\ \A i \in 1 .. n - 1 + 1 : SubSeq(all, 1, n)[i] = all[1 + i - 1]
      BY <2>4, <2>5, SubSeqProperties
    <3> QED
      BY <2>4, <3>1
  <2>7. ASSUME NEW i \in 1 .. n, i <= Len(Message)
        PROVE  received'[i] = Message[i]
    <3>1. i \in 1 .. Len(Message)
      BY <2>1, <2>7
    <3>2. received'[i] = all[i]
      BY <2>3, <2>6
    <3> QED
      BY <2>2, <3>1, <3>2
  <2>8. Agrees(received, Message)'
    BY <2>3, <2>6, <2>7 DEF Agrees
  <2> QED
    BY <2>3, <2>6, <2>8 DEF Arriving
<1> QED
  BY <1>1, <1>2 DEF Next

LEMMA ArrivingAlways == Spec => []Arriving
BY ArrivingInit, ArrivingNext, PTL DEF Spec

LEMMA ArrivingGreeting == Arriving => GreetingExact
<1> SUFFICES ASSUME Arriving, asked.kind = "greeting", NEW beyond \in Beyond
             PROVE  IsAuthRequest(received, beyond) <=>
                      /\ Whole
                      /\ asked.version = Version
                      /\ \E i \in DOMAIN asked.methods : asked.methods[i] = NoAuth
  BY DEF GreetingExact
<1>1. asked \in Greetings
  BY AskedRequest DEF Arriving
<1>2. asked.version \in Int /\ asked.methods \in Seq(Int)
  BY <1>1, AskedGreeting
<1>3. Message = Greeting(asked.version, asked.methods)
  BY DEF Message
<1>4. received \in Seq(Int) /\ Agrees(received, Greeting(asked.version, asked.methods))
  BY <1>3 DEF Arriving
<1> QED
  BY <1>2, <1>3, <1>4, GreetingDecided DEF Whole

LEMMA ArrivingVerdict == Arriving => VerdictExact
<1> SUFFICES ASSUME Arriving, asked.kind = "request", Whole,
                    Len(Message) >= RequestHeaderMinLength, NEW beyond \in Beyond
             PROVE  Requested(received, beyond) =
                      IF /\ asked.version = Version
                         /\ asked.command = TcpConnection
                         /\ asked.endpoint.type \in {Ipv4, Ipv6, Dom}
                         /\ asked.endpoint.address # <<>>
                        THEN asked.endpoint
                        ELSE NoEndpoint
  BY DEF VerdictExact
<1>1. asked \in Requests
  BY AskedGreeting DEF Arriving
<1>2. asked.version \in Int /\ asked.command \in Int /\ Wellformed(asked.endpoint)
  BY <1>1, AskedRequest
<1>3. Message = Request(asked.version, asked.command, asked.endpoint)
  BY DEF Message
<1>4. /\ received \in Seq(Int)
      /\ Agrees(received, Request(asked.version, asked.command, asked.endpoint))
      /\ Len(received) >= Len(Request(asked.version, asked.command, asked.endpoint))
      /\ Len(Request(asked.version, asked.command, asked.endpoint)) >= RequestHeaderMinLength
  BY <1>3 DEF Arriving, Whole
<1> QED
  BY <1>2, <1>4, VerdictDecided

(* However the bytes of a greeting and of what follows it arrive.          *)
THEOREM GreetingIsExact == Spec => []GreetingExact
BY ArrivingAlways, ArrivingGreeting, PTL

(* However the bytes behind a request arrive, for domain names of any      *)
(* lengths.                                                                *)
THEOREM VerdictIsExact == Spec => []VerdictExact
BY ArrivingAlways, ArrivingVerdict, PTL
====
