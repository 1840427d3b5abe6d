---- MODULE FramingProofs ----
(***************************************************************************)
(* Socks5 with the bytes of the local peer implements Socks5: what is      *)
(* proved of the sessions holds wherever TCP splits their messages.  What  *)
(* the parser is proved to decide reaches the sessions: messages that      *)
(* arrive in one read each are granted, and a request of at most ten bytes *)
(* is served whole or not at all.                                          *)
(***************************************************************************)
EXTENDS Framing, Socks5Proofs, SequenceTheorems

LEMMA FramedStep == [FramedNext]_framedVars => [Next]_vars
<1> SUFFICES ASSUME [FramedNext]_framedVars PROVE Next \/ UNCHANGED vars
  OBVIOUS
<1>1. CASE UNCHANGED framedVars
  BY <1>1 DEF framedVars
<1>2. CASE Listener
  BY <1>2 DEF Listener, Next
<1>3. ASSUME NEW id \in Ids, PeerSends(id)
      PROVE  UNCHANGED vars
  BY <1>3 DEF PeerSends
<1>4. ASSUME NEW id \in Ids, ReceiveBytes(id)
      PROVE  Next
  BY <1>4, OpNames DEF ReceiveBytes, Kernel, Next
<1>5. ASSUME NEW id \in Ids, GreetingRead(id) \/ RequestServed(id) \/ RequestRefused(id)
      PROVE  Next
  BY <1>5 DEF GreetingRead, RequestServed, RequestRefused, Dispatch, Next
<1>6. ASSUME NEW id \in Ids, Elsewhere(id)
      PROVE  Next
  <2>1. CASE \/ Receive(id, "client") \/ (\E side \in Side : Send(id, side))
             \/ (\E op \in Op : Succeed(id, op) \/ Fail(id, op))
    BY <2>1, OpNames DEF Kernel, Next
  <2>2. CASE ~(\/ Receive(id, "client") \/ (\E side \in Side : Send(id, side))
               \/ (\E op \in Op : Succeed(id, op) \/ Fail(id, op)))
    BY <1>6, <2>2 DEF Elsewhere, Dispatch, Next
  <2> QED
    BY <2>1, <2>2
<1> QED
  BY <1>1, <1>2, <1>3, <1>4, <1>5, <1>6 DEF FramedNext

(* The sessions that parse bytes implement the sessions that choose their  *)
(* verdicts: socks5_auth_request and socks5_connection_request never do    *)
(* more than Socks5 allows, however the bytes of a message arrive.         *)
THEOREM FramedImplementsSocks5 == FramedSpec => Spec
<1>1. FramedInit => Init
  BY DEF FramedInit
<1> QED
  BY <1>1, FramedStep, PTL DEF FramedSpec, Spec

(* With split messages too, what the remote host is sent is, read by read, *)
(* what the local peer's reads returned after the first two, in order.     *)
THEOREM FramedInOrder == FramedSpec => [](RemoteInOrder /\ LocalInOrder /\ ReplyTruthful)
BY FramedImplementsSocks5, RemoteHearsInOrder, LocalHearsInOrder, RepliesAreTrue, PTL

----
(* What Socks5ParserProofs proves of every message, for the messages of    *)
(* the local peer.  It states it of MCSocks5Parser, of whose variables it  *)
(* needs none.                                                             *)
Messages == INSTANCE Socks5ParserProofs WITH received <- <<>>

LEMMA SameGreetings ==
    /\ \A buffer, beyond :
         Parser!IsAuthRequest(buffer, beyond) <=> Messages!IsAuthRequest(buffer, beyond)
    /\ \A version, methods : Parser!Greeting(version, methods) = Messages!Greeting(version, methods)
    /\ Messages!Version = Parser!Version /\ Messages!NoAuth = NoAuth
BY DEF Parser!IsAuthRequest, Messages!IsAuthRequest, Parser!At, Messages!At, Parser!HeaderMinLength,
   Messages!HeaderMinLength, Parser!Version, Messages!Version, Parser!NoAuth, Messages!NoAuth,
   Parser!Greeting, Messages!Greeting, NoAuth

LEMMA SameAddresses ==
    /\ Parser!Ipv4 = Messages!Ipv4 /\ Parser!Ipv6 = Messages!Ipv6 /\ Parser!Dom = Messages!Dom
    /\ Parser!Version = Messages!Version /\ Parser!TcpConnection = Messages!TcpConnection
    /\ Parser!RequestHeaderMinLength = Messages!RequestHeaderMinLength
    /\ Parser!NoEndpoint = Messages!NoEndpoint
    /\ \A type, address, port :
         Parser!Endpoint(type, address, port) = Messages!Endpoint(type, address, port)
    /\ \A buffer : Parser!AddressOffset(buffer) = Messages!AddressOffset(buffer)
    /\ \A buffer : Parser!AddressLength(buffer) = Messages!AddressLength(buffer)
    /\ \A buffer : Parser!TypeOf(buffer) = Messages!TypeOf(buffer)
BY DEF Parser!Ipv4, Messages!Ipv4, Parser!Ipv6, Messages!Ipv6, Parser!Dom, Messages!Dom,
   Parser!Version, Messages!Version, Parser!TcpConnection, Messages!TcpConnection,
   Parser!RequestHeaderMinLength, Messages!RequestHeaderMinLength, Parser!NoEndpoint,
   Messages!NoEndpoint, Parser!Endpoint, Messages!Endpoint, Parser!AddressOffset,
   Messages!AddressOffset, Parser!AddressLength, Messages!AddressLength, Parser!TypeOf,
   Messages!TypeOf, Parser!Ipv4Length, Messages!Ipv4Length, Parser!Ipv6Length, Messages!Ipv6Length

LEMMA SameBytes ==
    /\ \A buffer, beyond, i : Parser!At(buffer, beyond, i) = Messages!At(buffer, beyond, i)
    /\ \A buffer, beyond, i, n :
         Parser!Bytes(buffer, beyond, i, n) = Messages!Bytes(buffer, beyond, i, n)
    /\ \A high, low : Parser!Port(high, low) = Messages!Port(high, low)
BY DEF Parser!At, Messages!At, Parser!Bytes, Messages!Bytes, Parser!Port, Messages!Port

LEMMA SameRequests ==
    /\ \A version, command, endpoint :
         Parser!Request(version, command, endpoint) = Messages!Request(version, command, endpoint)
    /\ \A buffer, beyond : Parser!Requested(buffer, beyond) = Messages!Requested(buffer, beyond)
<1>1. ASSUME NEW version, NEW command, NEW endpoint
      PROVE  Parser!Request(version, command, endpoint) =
               Messages!Request(version, command, endpoint)
  BY SameAddresses DEF Parser!Request, Messages!Request
<1>2. ASSUME NEW buffer, NEW beyond
      PROVE  Parser!Requested(buffer, beyond) = Messages!Requested(buffer, beyond)
  <2>1. Parser!IsValidRequest(buffer) <=> Messages!IsValidRequest(buffer)
    BY SameAddresses DEF Parser!IsValidRequest, Messages!IsValidRequest
  <2>2. Parser!PortOffset(buffer) = Messages!PortOffset(buffer)
    BY SameAddresses DEF Parser!PortOffset, Messages!PortOffset
  <2>3. Parser!RemoteAddressInfo(buffer, beyond) = Messages!RemoteAddressInfo(buffer, beyond)
    BY <2>2, SameAddresses, SameBytes DEF Parser!RemoteAddressInfo, Messages!RemoteAddressInfo
  <2> QED
    BY <2>1, <2>3, SameAddresses DEF Parser!Requested, Messages!Requested
<1> QED
  BY <1>1, <1>2

----
(* The bytes of a script, message by message.                              *)
LEMMA Slice ==
    ASSUME NEW s, NEW i \in Int, NEW j \in Int, i <= j + 1, \A k \in i .. j : s[k] \in Int
    PROVE  /\ SubSeq(s, i, j) \in Seq(Int)
           /\ Len(SubSeq(s, i, j)) = j - i + 1
           /\ \A k \in 1 .. j - i + 1 : SubSeq(s, i, j)[k] = s[i + k - 1]
<1>1. /\ SubSeq(s, i, j) \in Seq(Int)
      /\ Len(SubSeq(s, i, j)) = IF i <= j THEN j - i + 1 ELSE 0
      /\ \A k \in 1 .. j - i + 1 : SubSeq(s, i, j)[k] = s[i + k - 1]
  BY SubSeqProperties
<1>2. (IF i <= j THEN j - i + 1 ELSE 0) = j - i + 1
  OBVIOUS
<1> QED
  BY <1>1, <1>2

LEMMA Slices ==
    ASSUME NEW a \in Seq(Int), NEW b \in Seq(Int), NEW c \in Seq(Int)
    PROVE  /\ SubSeq(a \o b \o c, 1, Len(a)) = a
           /\ SubSeq(a \o b \o c, Len(a) + 1, Len(a) + Len(b)) = b
<1> DEFINE m == Len(a)
           n == Len(b)
           s == a \o b \o c
<1>1. m \in Nat /\ n \in Nat /\ Len(c) \in Nat
  OBVIOUS
<1>2. /\ a \o b \in Seq(Int) /\ Len(a \o b) = m + n
      /\ \A i \in 1 .. m + n : (a \o b)[i] = IF i <= m THEN a[i] ELSE b[i - m]
  BY ConcatProperties DEF m, n
<1>3. /\ s \in Seq(Int) /\ Len(s) = Len(a \o b) + Len(c)
      /\ \A i \in 1 .. Len(a \o b) + Len(c) :
           s[i] = IF i <= Len(a \o b) THEN (a \o b)[i] ELSE c[i - Len(a \o b)]
  BY <1>2, ConcatProperties DEF s
<1>4. \A i \in 1 .. m + n : s[i] \in Int /\ s[i] = IF i <= m THEN a[i] ELSE b[i - m]
  <2>1. \A i \in 1 .. m + n : i \in 1 .. Len(s) /\ s[i] = (a \o b)[i]
    BY <1>1, <1>2, <1>3
  <2> QED
    BY <1>2, <1>3, <2>1
<1> HIDE DEF m, n, s
<1>5. SubSeq(s, 1, m) = a
  <2>1. /\ SubSeq(s, 1, m) \in Seq(Int)
        /\ Len(SubSeq(s, 1, m)) = m
        /\ \A i \in 1 .. m - 1 + 1 : SubSeq(s, 1, m)[i] = s[1 + i - 1]
    <3>1. \A i \in 1 .. m : s[i] \in Int
      BY <1>1, <1>4
    <3>2. 1 \in Int /\ m \in Int
      BY <1>1
    <3>3. /\ SubSeq(s, 1, m) \in Seq(Int) /\ Len(SubSeq(s, 1, m)) = m - 1 + 1
          /\ \A k \in 1 .. m - 1 + 1 : SubSeq(s, 1, m)[k] = s[1 + k - 1]
      BY <1>1, <3>1, <3>2, Slice
    <3>4. m - 1 + 1 = m
      BY <1>1
    <3> HIDE DEF m
    <3> QED
      BY <3>3, <3>4
  <2>2. \A i \in 1 .. m : SubSeq(s, 1, m)[i] = a[i]
    BY <1>1, <1>4, <2>1
  <2>3. Len(a) = m
    BY DEF m
  <2> QED
    BY <2>1, <2>2, <2>3, SeqEqual
<1>6. SubSeq(s, m + 1, m + n) = b
  <2>1. /\ SubSeq(s, m + 1, m + n) \in Seq(Int)
        /\ Len(SubSeq(s, m + 1, m + n)) = n
        /\ \A i \in 1 .. n : SubSeq(s, m + 1, m + n)[i] = s[m + i]
    <3>1. \A i \in m + 1 .. m + n : s[i] \in Int
      BY <1>1, <1>4
    <3>2. m + 1 \in Int /\ m + n \in Int
      BY <1>1
    <3> DEFINE p == m + 1
               q == m + n
    <3>3. /\ p \in Int /\ q \in Int /\ p <= q + 1 /\ q - p + 1 = n
          /\ \A k \in 1 .. n : p + k - 1 = m + k
      BY <1>1, <3>2
    <3>4. \A k \in p .. q : s[k] \in Int
      BY <3>1
    <3> HIDE DEF m, n, p, q
    <3>5. /\ SubSeq(s, p, q) \in Seq(Int) /\ Len(SubSeq(s, p, q)) = q - p + 1
          /\ \A k \in 1 .. q - p + 1 : SubSeq(s, p, q)[k] = s[p + k - 1]
      BY <3>3, <3>4, Slice
    <3>6. \A k \in 1 .. n : SubSeq(s, p, q)[k] = s[m + k]
      BY <3>3, <3>5
    <3>7. SubSeq(s, p, q) \in Seq(Int) /\ Len(SubSeq(s, p, q)) = n
      BY <3>3, <3>5
    <3> QED
      BY <3>6, <3>7 DEF p, q
  <2>2. \A i \in 1 .. n : SubSeq(s, m + 1, m + n)[i] = b[i]
    <3> SUFFICES ASSUME NEW i \in 1 .. n PROVE SubSeq(s, m + 1, m + n)[i] = b[i]
      OBVIOUS
    <3> DEFINE j == m + i
    <3>1. j \in 1 .. m + n /\ ~(j <= m) /\ j - m = i
      BY <1>1
    <3>2. SubSeq(s, m + 1, m + n)[i] = s[j]
      BY <2>1
    <3> HIDE DEF j
    <3>3. s[j] = b[j - m]
      BY <1>4, <3>1
    <3> QED
      BY <3>1, <3>2, <3>3
  <2>3. Len(b) = n
    BY DEF n
  <2> QED
    BY <2>1, <2>2, <2>3, SeqEqual
<1> QED
  BY <1>5, <1>6 DEF m, n, s

(* The endpoint a local peer asks for never changes.                       *)
Asking == \A id \in Ids : asked[id] \in Endpoints

LEMMA AskingAlways == FramedSpec => []Asking
<1>1. FramedInit => Asking
  BY DEF FramedInit, Asking
<1>2. Asking /\ [FramedNext]_framedVars => Asking'
  <2>1. FramedNext => asked' = asked
    <3>1. Listener => asked' = asked
      BY DEF Listener, framing
    <3>2. \A id \in Ids : PeerSends(id) \/ ReceiveBytes(id) \/ RequestServed(id) => asked' = asked
      BY DEF PeerSends, ReceiveBytes, RequestServed
    <3>3. \A id \in Ids : GreetingRead(id) \/ RequestRefused(id) \/ Elsewhere(id) => asked' = asked
      BY DEF GreetingRead, RequestRefused, Elsewhere, framing
    <3> QED
      BY <3>1, <3>2, <3>3 DEF FramedNext
  <2>2. UNCHANGED framedVars => asked' = asked
    BY DEF framedVars, framing
  <2> QED
    BY <2>1, <2>2 DEF Asking
<1> QED
  BY <1>1, <1>2, PTL DEF FramedSpec

LEMMA AskedEndpoint ==
    ASSUME NEW e \in Endpoints
    PROVE  /\ Messages!Wellformed(e) /\ e.address # <<>>
           /\ \E n \in NameLengths :
                \/ n = 0 /\ e.type = Messages!Ipv4 /\ Len(e.address) = 4
                \/ n # 0 /\ e.type = Messages!Dom /\ Len(e.address) = n
<1>1. PICK n \in NameLengths :
        e = IF n = 0 THEN Parser!Endpoint(Parser!Ipv4, <<10, 0, 0, 1>>, 443)
            ELSE Parser!Endpoint(Parser!Dom, [i \in 1 .. n |-> 96 + i], 443)
  BY DEF Endpoints
<1>2. n \in Nat
  BY NameLengthsAssumption
<1>3. CASE n = 0
  <2> DEFINE a == <<10, 0, 0, 1>>
  <2>1. a \in Seq(Int) /\ Len(a) = 4 /\ a # <<>>
    OBVIOUS
  <2> HIDE DEF a
  <2>2. e = [type |-> 1, address |-> a, port |-> 443]
    BY <1>1, <1>3 DEF Parser!Endpoint, Parser!Ipv4, a
  <2> QED
    BY <1>3, <2>1, <2>2 DEF Messages!Wellformed, Messages!Ipv4, Messages!Ipv6, Messages!Ipv4Length
<1>4. CASE n # 0
  <2> DEFINE a == [i \in 1 .. n |-> 96 + i]
  <2>1. n >= 1
    BY <1>2, <1>4
  <2>2. a \in [1 .. n -> Int]
    OBVIOUS
  <2>3. a \in Seq(Int) /\ Len(a) = n
    BY <1>2, <2>2, FcnSeq
  <2> HIDE DEF a
  <2>4. a # <<>>
    BY <2>1, <2>3
  <2>5. e = [type |-> 3, address |-> a, port |-> 443]
    BY <1>1, <1>4 DEF Parser!Endpoint, Parser!Dom, a
  <2> QED
    BY <1>4, <2>3, <2>4, <2>5 DEF Messages!Wellformed, Messages!Ipv4, Messages!Ipv6, Messages!Dom
<1> QED
  BY <1>3, <1>4

LEMMA GreetingTaken ==
    /\ Greeting \in Seq(Int)
    /\ \A beyond : Parser!IsAuthRequest(Greeting, beyond)
<1> DEFINE methods == <<NoAuth>>
           message == Messages!Greeting(Messages!Version, methods)
<1>1. /\ methods \in Seq(Int) /\ DOMAIN methods = 1 .. 1 /\ methods[1] = Messages!NoAuth
      /\ Messages!Version \in Int
  BY SameGreetings DEF NoAuth, Messages!Version
<1>2. message \in Seq(Int)
  <2> HIDE DEF methods
  <2> QED
    BY <1>1, NameLengthsAssumption, Messages!GreetingBytes
<1>3. Greeting = message
  BY SameGreetings DEF Greeting
<1> HIDE DEF methods
<1>4. Messages!Agrees(message, message) /\ Len(message) >= Len(message)
  BY <1>2 DEF Messages!Agrees
<1> SUFFICES ASSUME NEW beyond PROVE Messages!IsAuthRequest(message, beyond)
  BY <1>2, <1>3, SameGreetings
<1>5. 1 \in DOMAIN methods
  BY <1>1
<1> QED
  BY <1>1, <1>2, <1>4, <1>5, NameLengthsAssumption, Messages!GreetingDecided

LEMMA RequestUsable ==
    ASSUME NEW e, Messages!Wellformed(e), e.address # <<>>,
           e.type \in {Messages!Ipv4, Messages!Dom}
    PROVE  LET message == Messages!Request(Messages!Version, Messages!TcpConnection, e)
           IN  /\ message \in Seq(Int)
               /\ Len(message) = Messages!AddressAt(e) + Len(e.address) + 2
               /\ Len(message) >= 10 => \A beyond : Messages!Requested(message, beyond) = e
<1> DEFINE v == Messages!Version
           c == Messages!TcpConnection
           message == Messages!Request(v, c, e)
           at == Messages!AddressAt(e)
           n == Len(e.address)
<1>1. v \in Int /\ c \in Int
  BY DEF Messages!Version, Messages!TcpConnection
<1> HIDE DEF v, c
<1>2. message \in Seq(Int) /\ Len(message) = at + n + 2
  <2>1. Messages!Wellformed(e)
    OBVIOUS
  <2> QED
    BY <1>1, <2>1, NameLengthsAssumption, Messages!RequestSize
<1> HIDE DEF message
<1>3. Messages!Agrees(message, message) /\ Len(message) >= Len(message)
  BY <1>2 DEF Messages!Agrees
<1>4. e.type \in {Messages!Ipv4, Messages!Ipv6, Messages!Dom}
  OBVIOUS
<1>5. ASSUME Len(message) >= 10, NEW beyond
      PROVE  Messages!Requested(message, beyond) = e
  <2>1. Len(message) >= Messages!RequestHeaderMinLength
    BY <1>5 DEF Messages!RequestHeaderMinLength
  <2>2. Messages!Requested(message, beyond) =
          IF /\ v = Messages!Version /\ c = Messages!TcpConnection
             /\ e.type \in {Messages!Ipv4, Messages!Ipv6, Messages!Dom} /\ e.address # <<>>
            THEN e ELSE Messages!NoEndpoint
    BY <1>1, <1>2, <1>3, <2>1, NameLengthsAssumption, Messages!VerdictDecided DEF message
  <2> QED
    BY <1>4, <2>2 DEF v, c
<1> QED
  BY <1>2, <1>5 DEF message, v, c

(* A request is a message of seven bytes and the name's, or of ten; the    *)
(* parser finds its endpoint in it when it has at least ten.               *)
LEMMA RequestParsed ==
    ASSUME NEW id \in Ids, Asking
    PROVE  /\ Request(id) \in Seq(Int) /\ Len(Request(id)) \in Nat
           /\ \E n \in NameLengths : Len(Request(id)) = IF n = 0 THEN 10 ELSE n + 7
           /\ Len(Request(id)) >= 10 =>
                \A beyond : Parser!Requested(Request(id), beyond) = asked[id]
           /\ asked[id] # Parser!NoEndpoint
<1> DEFINE e == asked[id]
           message == Messages!Request(Messages!Version, Messages!TcpConnection, e)
<1>1. /\ Messages!Wellformed(e) /\ e.address # <<>>
      /\ \E n \in NameLengths :
           \/ n = 0 /\ e.type = Messages!Ipv4 /\ Len(e.address) = 4
           \/ n # 0 /\ e.type = Messages!Dom /\ Len(e.address) = n
  BY AskedEndpoint DEF Asking
<1>2. Request(id) = message
  BY SameRequests, SameAddresses DEF Request
<1> HIDE DEF e
<1>3. /\ message \in Seq(Int)
      /\ Len(message) = Messages!AddressAt(e) + Len(e.address) + 2
      /\ Len(message) >= 10 => \A beyond : Messages!Requested(message, beyond) = e
  BY <1>1, RequestUsable
<1> HIDE DEF message
<1>4. \E n \in NameLengths : Len(message) = IF n = 0 THEN 10 ELSE n + 7
  <2>1. PICK n \in NameLengths :
          \/ n = 0 /\ e.type = Messages!Ipv4 /\ Len(e.address) = 4
          \/ n # 0 /\ e.type = Messages!Dom /\ Len(e.address) = n
    BY <1>1
  <2>2. n \in Nat
    BY NameLengthsAssumption
  <2>3. CASE n = 0
    <3>1. Messages!AddressAt(e) = 4 /\ Len(e.address) = 4
      BY <2>1, <2>3 DEF Messages!AddressAt, Messages!Ipv4, Messages!Dom
    <3>2. Len(message) = 10
      BY <1>3, <3>1
    <3> QED
      BY <2>3, <3>2
  <2>4. CASE n # 0
    <3>1. Messages!AddressAt(e) = 5 /\ Len(e.address) = n
      BY <2>1, <2>4 DEF Messages!AddressAt
    <3>2. Len(message) = n + 7
      BY <1>3, <2>2, <3>1
    <3> QED
      BY <2>4, <3>2
  <2> QED
    BY <2>3, <2>4
<1>5. Messages!NoEndpoint.type = 0
  BY DEF Messages!NoEndpoint, Messages!Endpoint
<1>6. e # Messages!NoEndpoint
  BY <1>1, <1>5 DEF Messages!Ipv4, Messages!Dom
<1>7. Len(message) \in Nat
  BY <1>3
<1>8. /\ Request(id) \in Seq(Int) /\ Len(Request(id)) \in Nat
      /\ \E n \in NameLengths : Len(Request(id)) = IF n = 0 THEN 10 ELSE n + 7
  BY <1>2, <1>3, <1>4, <1>7
<1>9. Len(Request(id)) >= 10 => \A beyond : Parser!Requested(Request(id), beyond) = e
  BY <1>2, <1>3, SameRequests
<1>10. e # Parser!NoEndpoint
  BY <1>6, SameAddresses
<1> QED
  BY <1>8, <1>9, <1>10 DEF e

LEMMA RequestTaken ==
    ASSUME NEW id \in Ids, Asking, 1 \notin NameLengths, 2 \notin NameLengths
    PROVE  /\ Request(id) \in Seq(Int)
           /\ \A beyond : Parser!Requested(Request(id), beyond) # Parser!NoEndpoint
<1>1. PICK n \in NameLengths : Len(Request(id)) = IF n = 0 THEN 10 ELSE n + 7
  BY RequestParsed
<1>2. n \in Nat /\ n # 1 /\ n # 2
  BY NameLengthsAssumption
<1>3. Len(Request(id)) >= 10
  BY <1>1, <1>2
<1> QED
  BY <1>3, RequestParsed

LEMMA ScriptBytes ==
    ASSUME NEW id \in Ids, Asking
    PROVE  /\ Script(id) \in Seq(Int) /\ GreetingEnd = 3 /\ Len(Request(id)) \in Nat
           /\ RequestEnd(id) = 3 + Len(Request(id)) /\ Len(Script(id)) = RequestEnd(id) + 1
           /\ \A i \in 1 .. 3 : Script(id)[i] = Greeting[i]
<1> DEFINE b == Request(id)
           s == Script(id)
<1>1. Greeting \in Seq(Int) /\ b \in Seq(Int) /\ Len(b) \in Nat
  BY GreetingTaken, RequestParsed
<1>2. Len(Greeting) = 3
  <2> DEFINE methods == <<NoAuth>>
             message == Messages!Greeting(Messages!Version, methods)
  <2>1. methods \in Seq(Int) /\ Len(methods) = 1 /\ Messages!Version \in Int
    BY DEF NoAuth, Messages!Version
  <2>2. Greeting = message
    BY SameGreetings DEF Greeting
  <2> HIDE DEF methods
  <2>3. Len(message) = Len(methods) + 2
    BY <2>1, NameLengthsAssumption, Messages!GreetingBytes
  <2> QED
    BY <2>1, <2>2, <2>3
<1>3. Data \in Seq(Int) /\ Len(Data) = 1
  BY DEF Data
<1>4. s = (Greeting \o b) \o Data
  BY DEF Script
<1> HIDE DEF b, s
<1>5. /\ Greeting \o b \in Seq(Int) /\ Len(Greeting \o b) = Len(Greeting) + Len(b)
      /\ \A i \in 1 .. Len(Greeting) + Len(b) :
           (Greeting \o b)[i] = IF i <= Len(Greeting) THEN Greeting[i] ELSE b[i - Len(Greeting)]
  BY <1>1, ConcatProperties
<1> DEFINE g == Greeting \o b
<1> HIDE DEF g
<1>6. /\ s \in Seq(Int) /\ Len(s) = Len(g) + Len(Data)
      /\ \A i \in 1 .. Len(g) + Len(Data) :
           s[i] = IF i <= Len(g) THEN g[i] ELSE Data[i - Len(g)]
  <2>1. g \in Seq(Int) /\ s = g \o Data
    BY <1>4, <1>5 DEF g
  <2> QED
    BY <1>3, <2>1, ConcatProperties
<1>7. g \in Seq(Int) /\ Len(g) = 3 + Len(b) /\ \A i \in 1 .. 3 : g[i] = Greeting[i]
  BY <1>1, <1>2, <1>5 DEF g
<1>8. \A i \in 1 .. 3 : s[i] = Greeting[i]
  <2> SUFFICES ASSUME NEW i \in 1 .. 3 PROVE s[i] = Greeting[i]
    OBVIOUS
  <2>1. i \in 1 .. Len(g) + Len(Data) /\ i <= Len(g)
    BY <1>1, <1>3, <1>7
  <2>2. s[i] = g[i]
    BY <1>6, <2>1
  <2> QED
    BY <1>7, <2>2
<1>9. GreetingEnd = 3 /\ RequestEnd(id) = 3 + Len(b)
  BY <1>2 DEF GreetingEnd, RequestEnd, b
<1>10. Len(s) = RequestEnd(id) + 1
  BY <1>1, <1>3, <1>6, <1>9, <1>7
<1> QED
  BY <1>1, <1>6, <1>8, <1>9, <1>10 DEF b, s

(* A part of a greeting is none.                                           *)
LEMMA GreetingPart ==
    ASSUME NEW id \in Ids, Asking, NEW n \in 1 .. 2, NEW beyond
    PROVE  ~Parser!IsAuthRequest(SubSeq(Script(id), 1, n), beyond)
<1> DEFINE buffer == SubSeq(Script(id), 1, n)
           methods == <<NoAuth>>
           message == Messages!Greeting(Messages!Version, methods)
<1>1. /\ buffer \in Seq(Int) /\ Len(buffer) = n
      /\ \A i \in 1 .. n : buffer[i] = Greeting[i]
  <2> DEFINE s == Script(id)
  <2>1. s \in Seq(Int) /\ Len(s) \in Nat /\ Len(s) >= 3 /\ \A i \in 1 .. 3 : s[i] = Greeting[i]
    BY ScriptBytes
  <2> HIDE DEF s
  <2>2. 1 \in Int /\ n \in Int /\ 1 <= n + 1 /\ \A i \in 1 .. n : s[i] \in Int
    BY <2>1
  <2>3. /\ SubSeq(s, 1, n) \in Seq(Int) /\ Len(SubSeq(s, 1, n)) = n - 1 + 1
        /\ \A i \in 1 .. n - 1 + 1 : SubSeq(s, 1, n)[i] = s[1 + i - 1]
    BY <2>2, Slice
  <2>4. n - 1 + 1 = n
    OBVIOUS
  <2> QED
    BY <2>1, <2>3, <2>4 DEF s
<1>2. /\ methods \in Seq(Int) /\ Messages!Version \in Int
  BY DEF NoAuth, Messages!Version
<1>3. Greeting = message
  BY SameGreetings DEF Greeting
<1>4. Greeting \in Seq(Int) /\ Len(Greeting) = 3
  BY GreetingTaken, ScriptBytes DEF GreetingEnd
<1> HIDE DEF buffer, methods, message
<1>5. Messages!Agrees(buffer, message)
  BY <1>1, <1>3, <1>4 DEF Messages!Agrees
<1>6. ~(Len(buffer) >= Len(message))
  BY <1>1, <1>3, <1>4
<1>7. ~Messages!IsAuthRequest(buffer, beyond)
  BY <1>1, <1>2, <1>5, <1>6, NameLengthsAssumption, Messages!GreetingDecided DEF message
<1> QED
  BY <1>7, SameGreetings DEF buffer

(* A request is served from ten bytes at least.                            *)
LEMMA RequestPart ==
    ASSUME NEW id \in Ids, Asking, NEW m \in Nat, NEW n \in Nat, n <= Len(Script(id)), NEW beyond,
           Parser!Requested(SubSeq(Script(id), m + 1, n), beyond) # Parser!NoEndpoint
    PROVE  n - m >= 10
<1> DEFINE s == Script(id)
           p == m + 1
           buffer == SubSeq(s, p, n)
<1>1. Len(buffer) >= 10
  BY DEF Parser!Requested, Parser!IsValidRequest, Parser!RequestHeaderMinLength
<1>2. s \in Seq(Int) /\ n <= Len(s)
  BY ScriptBytes
<1> HIDE DEF s
<1>3. p \in Int /\ n \in Int /\ \A i \in p .. n : s[i] \in Int
  BY <1>2
<1>4. p = m + 1
  OBVIOUS
<1> HIDE DEF p
<1>5. Len(buffer) = IF p <= n THEN n - p + 1 ELSE 0
  BY <1>3, SubSeqProperties
<1> HIDE DEF buffer
<1> QED
  BY <1>1, <1>3, <1>4, <1>5

LEMMA ScriptReads ==
    ASSUME NEW id \in Ids, Request(id) \in Seq(Int)
    PROVE  /\ ends[id] = <<GreetingEnd>> => LastRead(id) = Greeting
           /\ ends[id] = <<GreetingEnd, RequestEnd(id)>> => LastRead(id) = Request(id)
<1>1. /\ SubSeq(Script(id), 1, GreetingEnd) = Greeting
      /\ SubSeq(Script(id), GreetingEnd + 1, RequestEnd(id)) = Request(id)
  <2>1. Data \in Seq(Int)
    BY DEF Data
  <2> QED
    BY <2>1, GreetingTaken, Slices DEF Script, GreetingEnd, RequestEnd
<1>2. ASSUME ends[id] = <<GreetingEnd>>
      PROVE  LastRead(id) = Greeting
  <2>1. Len(ends[id]) = 1 /\ Consumed(id) = GreetingEnd
    BY <1>2 DEF Consumed
  <2> QED
    BY <1>1, <2>1 DEF LastRead
<1>3. ASSUME ends[id] = <<GreetingEnd, RequestEnd(id)>>
      PROVE  LastRead(id) = Request(id)
  <2>1. Len(ends[id]) = 2 /\ ends[id][1] = GreetingEnd /\ Consumed(id) = RequestEnd(id)
    BY <1>3 DEF Consumed
  <2> QED
    BY <1>1, <2>1 DEF LastRead
<1> QED
  BY <1>2, <1>3

----
(* The handlers that can end the two phases an unsplit message goes        *)
(* through: one each, the one that parses it.                              *)
LEMMA GreetingStep ==
    ASSUME IInv, FramedNext, NEW id \in Ids,
           state[id] = "auth_request", state'[id] = "connection_request"
    PROVE  GreetingRead(id)
<1> USE DEF IInv, TypeOK
<1>1. ~Listener
  BY DEF Listener, Accept, AcceptError, Signal
<1>2. ASSUME NEW i \in Ids, PeerSends(i) \/ ReceiveBytes(i)
      PROVE  FALSE
  BY <1>2 DEF PeerSends, ReceiveBytes, Receive, vars
<1>3. ASSUME NEW i \in Ids, RequestServed(i) \/ RequestRefused(i)
      PROVE  FALSE
  BY <1>3 DEF RequestServed, RequestRefused, RequestAccepted, RequestRejected, Stop
<1>4. ASSUME NEW i \in Ids, Elsewhere(i)
      PROVE  FALSE
  <2>1. \/ state' = state
        \/ state' = [state EXCEPT ![i] = "erased"]
        \/ state' = [state EXCEPT ![i] = "ready_to_transfer_data"]
        \/ state' = [state EXCEPT ![i] = "data_transfer_mode"]
    BY <1>4 DEF Elsewhere, Receive, Send, Succeed, Fail, Resolved, AuthReplyWritten, Connected,
       ConnectFailed, ErrorReplyWritten, ReplyWritten, TransferRead, TransferWritten, ServerError,
       ClientError, Dropped, Stop
  <2> QED
    BY <2>1
<1>5. ASSUME NEW i \in Ids, GreetingRead(i)
      PROVE  i = id
  BY <1>5 DEF GreetingRead, AuthRequestRead
<1> QED
  BY <1>1, <1>2, <1>3, <1>4, <1>5 DEF FramedNext

LEMMA NoError ==
    ASSUME NEW a \in Nat, NEW b \in Nat, NEW c \in Nat
    PROVE  /\ a + b + c = 0 => c = 0
           /\ a + b + c = 1 /\ b > 0 => c = 0
OBVIOUS

(* A read that has returned leaves a waiting session nothing that could   *)
(* fail.                                                                   *)
LEMMA NothingFailed ==
    ASSUME IInv, NEW id \in Ids,
           state[id] = "connection_request", ops[id]["read_server"]["ok"] > 0
    PROVE  \A op \in Op : ops[id][op]["error"] = 0
<1>1. /\ ops[id] \in OpsType
      /\ Out(ops[id], "read_server") + Out(ops[id], "write_server") = 1
      /\ \A o \in Op \ {"read_server", "write_server"} : Out(ops[id], o) = 0
  BY ShapeFacts DEF Shape, IInv, TypeOK, OpsType
<1> DEFINE x == ops[id]
<1>2. \A o \in Op : /\ x[o]["pending"] \in Nat /\ x[o]["ok"] \in Nat /\ x[o]["error"] \in Nat
                     /\ Out(x, o) = x[o]["pending"] + x[o]["ok"] + x[o]["error"]
  BY <1>1, PhaseNat
<1>3. "read_server" \in Op /\ "write_server" \in Op /\ x["read_server"]["ok"] > 0
  BY OpNames
<1> HIDE DEF x
<1>4. /\ x["read_server"]["error"] = 0 /\ x["write_server"]["error"] = 0
      /\ \A o \in Op \ {"read_server", "write_server"} : x[o]["error"] = 0
  <2>1. Out(x, "read_server") >= 1
    BY <1>2, <1>3
  <2>2. Out(x, "read_server") + Out(x, "write_server") = 1
    BY <1>1 DEF x
  <2>3. \A o \in Op : Out(x, o) \in Nat
    BY <1>2
  <2>4. Out(x, "read_server") = 1 /\ Out(x, "write_server") = 0
    BY <1>3, <2>1, <2>2, <2>3
  <2>5. ASSUME NEW o \in Op
        PROVE  /\ Out(x, o) = 0 => x[o]["error"] = 0
               /\ Out(x, o) = 1 /\ x[o]["ok"] > 0 => x[o]["error"] = 0
    <3> DEFINE a == x[o]["pending"]
               b == x[o]["ok"]
               c == x[o]["error"]
    <3>1. a \in Nat /\ b \in Nat /\ c \in Nat /\ Out(x, o) = a + b + c
      BY <1>2
    <3> HIDE DEF a, b, c
    <3>2. (Out(x, o) = 0 => c = 0) /\ (Out(x, o) = 1 /\ b > 0 => c = 0)
      BY <3>1, NoError
    <3> QED
      BY <3>2 DEF b, c
  <2>6. \A o \in Op \ {"read_server", "write_server"} : Out(x, o) = 0
    BY <1>1 DEF x
  <2> QED
    BY <1>3, <2>4, <2>5, <2>6
<1> QED
  BY <1>4 DEF x

LEMMA RequestStep ==
    ASSUME IInv, FramedNext, NEW id \in Ids,
           state[id] = "connection_request", ops[id]["read_server"]["ok"] > 0, state'[id] = "erased"
    PROVE  RequestRefused(id)
<1>1. ~Listener
  BY DEF Listener, Accept, AcceptError, Signal, IInv, TypeOK
<1>2. ASSUME NEW i \in Ids, PeerSends(i) \/ ReceiveBytes(i)
      PROVE  FALSE
  BY <1>2 DEF PeerSends, ReceiveBytes, Receive, vars
<1>3. ASSUME NEW i \in Ids, GreetingRead(i) \/ RequestServed(i)
      PROVE  FALSE
  BY <1>3 DEF RequestServed, GreetingRead, RequestAccepted, AuthRequestRead, IInv, TypeOK
<1>4. \A op \in Op : ~Completed(id, op, "error")
  BY NothingFailed DEF Completed
<1>5. ASSUME NEW i \in Ids, Elsewhere(i)
      PROVE  FALSE
  <2>1. CASE ErrorReplyWritten(i)
    BY <2>1 DEF ErrorReplyWritten, Stop, IInv, TypeOK
  <2>2. CASE ServerError(i) \/ ClientError(i)
    <3>1. \E op \in Op : Completed(i, op, "error")
      BY <2>2 DEF ServerError, ClientError, Op
    <3>2. state' = [state EXCEPT ![i] = "erased"]
      BY <2>2 DEF ServerError, ClientError, Stop
    <3> QED
      BY <1>4, <3>1, <3>2 DEF IInv, TypeOK
  <2>3. CASE ~ErrorReplyWritten(i) /\ ~ServerError(i) /\ ~ClientError(i)
    <3>1. \/ state' = state
          \/ state' = [state EXCEPT ![i] = "ready_to_transfer_data"]
          \/ state' = [state EXCEPT ![i] = "data_transfer_mode"]
      BY <1>5, <2>3 DEF Elsewhere, Receive, Send, Succeed, Fail, Resolved, AuthReplyWritten,
         Connected, ConnectFailed, ReplyWritten, TransferRead, TransferWritten, Dropped
    <3> QED
      BY <3>1 DEF IInv, TypeOK
  <2> QED
    BY <2>1, <2>2, <2>3
<1>6. ASSUME NEW i \in Ids, RequestRefused(i)
      PROVE  i = id
  BY <1>6 DEF RequestRefused, RequestRejected, Stop, IInv, TypeOK
<1> QED
  BY <1>1, <1>2, <1>3, <1>5, <1>6 DEF FramedNext

(* What UnsplitServed says of one session in one step.                     *)
ServedStep(id) ==
    /\ state[id] = "auth_request" /\ state'[id] = "connection_request"
         /\ ends[id] = <<GreetingEnd>> => wbuf'[id]["server"].n = NoAuth
    /\ state[id] = "connection_request" /\ ops[id]["read_server"]["ok"] > 0
         /\ ends[id] = <<GreetingEnd, RequestEnd(id)>> => state'[id] # "erased"

LEMMA ServedNext ==
    ASSUME IInv, Asking, FramedNext, NEW id \in Ids, 1 \notin NameLengths, 2 \notin NameLengths
    PROVE  ServedStep(id)
<1>1. ASSUME state[id] = "auth_request", state'[id] = "connection_request",
             ends[id] = <<GreetingEnd>>
      PROVE  wbuf'[id]["server"].n = NoAuth
  <2>1. GreetingRead(id)
    BY <1>1, GreetingStep
  <2>2. LastRead(id) = Greeting
    BY <1>1, RequestTaken, ScriptReads
  <2> QED
    BY <2>1, <2>2, GreetingTaken DEF GreetingRead
<1>2. ASSUME state[id] = "connection_request", ops[id]["read_server"]["ok"] > 0,
             ends[id] = <<GreetingEnd, RequestEnd(id)>>
      PROVE  state'[id] # "erased"
  <2> SUFFICES ASSUME state'[id] = "erased" PROVE FALSE
    OBVIOUS
  <2>1. RequestRefused(id)
    BY <1>2, RequestStep
  <2>2. LastRead(id) = Request(id)
    BY <1>2, RequestTaken, ScriptReads
  <2> QED
    BY <2>1, <2>2, RequestTaken DEF RequestRefused
<1> QED
  BY <1>1, <1>2 DEF ServedStep

(* A greeting and a request that arrive in one read each are granted, for  *)
(* every IPv4 host and every domain name of three bytes or more: neither   *)
(* is_socks5_auth_request nor is_valid_request_packet refuses them.  The   *)
(* shorter names, whose requests are below the minimal length the parser   *)
(* asks for, are those framing_short shows refused.                        *)
THEOREM UnsplitIsServed ==
    ASSUME 1 \notin NameLengths, 2 \notin NameLengths
    PROVE  FramedSpec => UnsplitServed
<1>1. IInv /\ Asking /\ [FramedNext]_framedVars =>
        [\A id \in Ids :
           /\ state[id] = "auth_request" /\ state'[id] = "connection_request"
                /\ ends[id] = <<GreetingEnd>> => wbuf'[id]["server"].n = NoAuth
           /\ state[id] = "connection_request" /\ ops[id]["read_server"]["ok"] > 0
                /\ ends[id] = <<GreetingEnd, RequestEnd(id)>> => state'[id] # "erased"]_framedVars
  BY ServedNext DEF ServedStep
<1> QED
  BY <1>1, FramedImplementsSocks5, ShapeAlways, AskingAlways, PTL DEF FramedSpec, UnsplitServed

----
(* No part of a message is taken for the whole, as long as a request has   *)
(* no more bytes than the parser asks for: the invariant.                  *)

(* The greeting arrived in one read.                                       *)
GreetedWhole(e) == Len(e) >= 1 /\ e[1] = GreetingEnd

(* A session has read what its peer sent, in pieces of at least a byte.    *)
Pieces(id) ==
    /\ Len(ends[id]) = taken[id]["server"]
    /\ \A i \in 1 .. Len(ends[id]) : 1 <= ends[id][i] /\ ends[id][i] <= sent[id]

(* A patient peer has gone on only if it was answered.                     *)
Patience(id) ==
    /\ sent[id] \in {0, GreetingEnd, RequestEnd(id), RequestEnd(id) + 1}
    /\ sent[id] > GreetingEnd => GreetedWhole(ends[id])
    /\ sent[id] > RequestEnd(id) => Len(out[id]["server"]) >= 2

(* A greeting is accepted only whole: the answer about to be written and   *)
(* the one that was.                                                       *)
Accepted(id) ==
    /\ rbuf[id]["client"].kind # "auth"
    /\ wbuf[id]["server"] = Chunk("auth", NoAuth) => GreetedWhole(ends[id])
    /\ out[id]["server"] # <<>> /\ out[id]["server"][1] = Chunk("auth", NoAuth) =>
         GreetedWhole(ends[id])

(* A request is served only whole, and data goes to the remote host only   *)
(* of a session that was served.                                           *)
ServedWhole(id) ==
    /\ target[id] = asked[id]
    /\ Len(ends[id]) >= 2 /\ ends[id][2] = RequestEnd(id)
Later == {"connection_established", "ready_to_transfer_data", "data_transfer_mode"}

Whole(id) ==
    /\ target[id] # Parser!NoEndpoint => target[id] = asked[id]
    /\ state[id] \in Later => ServedWhole(id)
    /\ wbuf[id]["client"] # NoChunk => ServedWhole(id) /\ Len(ends[id]) > 2
    /\ out[id]["client"] # <<>> => ServedWhole(id) /\ Len(ends[id]) > 2

FramedTypes ==
    /\ asked \in [Ids -> Endpoints] /\ sent \in [Ids -> Nat] /\ ends \in [Ids -> Seq(Int)]
    /\ DOMAIN target = Ids /\ target = [id \in Ids |-> target[id]]

FInv ==
    /\ OInv /\ FramedTypes
    /\ \A id \in Ids : Pieces(id) /\ Patience(id) /\ Accepted(id) /\ Whole(id)

LEMMA InitFramed == FramedInit => FInv
<1> SUFFICES ASSUME FramedInit PROVE FInv
  OBVIOUS
<1>1. OInv /\ FramedTypes
  BY InitOrder DEF FramedInit, FramedTypes
<1>2. ASSUME NEW id \in Ids
      PROVE  Pieces(id) /\ Patience(id) /\ Accepted(id) /\ Whole(id)
  <2>1. /\ ends[id] = <<>> /\ sent[id] = 0 /\ target[id] = Parser!NoEndpoint
        /\ taken[id]["server"] = 0 /\ rbuf[id]["client"] = NoChunk
        /\ wbuf[id]["server"] = NoChunk /\ wbuf[id]["client"] = NoChunk
        /\ out[id]["server"] = <<>> /\ out[id]["client"] = <<>> /\ state[id] = "absent"
    BY Names DEF FramedInit, Init
  <2>2. Asking
    BY <1>1 DEF FramedTypes, Asking
  <2>3. GreetingEnd = 3 /\ RequestEnd(id) \in Nat
    BY <2>2, ScriptBytes
  <2>4. Pieces(id)
    BY <2>1 DEF Pieces
  <2>5. Patience(id)
    BY <2>1, <2>3 DEF Patience
  <2>6. Accepted(id)
    BY <2>1 DEF Accepted, NoChunk, Chunk
  <2>7. Whole(id)
    BY <2>1 DEF Whole, Later
  <2> QED
    BY <2>4, <2>5, <2>6, <2>7
<1> QED
  BY <1>1, <1>2 DEF FInv

(* What any step but those that read or send bytes, or parse them, does to *)
(* a session.                                                              *)
Moves(id) ==
    /\ taken'[id]["server"] = taken[id]["server"]
    /\ \/ rbuf'[id]["client"] = rbuf[id]["client"]
       \/ rbuf'[id]["client"].kind = "client"
    /\ \/ wbuf'[id]["server"] = wbuf[id]["server"]
       \/ wbuf'[id]["server"].kind = "reply"
       \/ wbuf'[id]["server"] = rbuf[id]["client"]
    /\ \/ wbuf'[id]["client"] = wbuf[id]["client"]
       \/ state[id] = "data_transfer_mode" /\ taken[id]["server"] > 2
    /\ \/ out'[id]["server"] = out[id]["server"]
       \/ out'[id]["server"] = Append(out[id]["server"], wbuf[id]["server"])
    /\ out'[id]["client"] = out[id]["client"] \/ wbuf[id]["client"] # NoChunk
    /\ state'[id] \in Later => state[id] \in Later

FramingStill(id) ==
    /\ asked'[id] = asked[id] /\ sent'[id] = sent[id]
    /\ ends'[id] = ends[id] /\ target'[id] = target[id]

LEMMA SameMoves ==
    ASSUME NEW id \in Ids, taken'[id] = taken[id], rbuf'[id] = rbuf[id], wbuf'[id] = wbuf[id],
           out'[id] = out[id], state'[id] = state[id]
    PROVE  Moves(id)
BY DEF Moves

LEMMA MovesKeep ==
    ASSUME FInv, NEW id \in Ids, Moves(id), FramingStill(id)
    PROVE  Pieces(id)' /\ Patience(id)' /\ Accepted(id)' /\ Whole(id)'
<1>1. Pieces(id) /\ Patience(id) /\ Accepted(id) /\ Whole(id)
  BY DEF FInv
<1>2. /\ RequestEnd(id)' = RequestEnd(id) /\ GreetingEnd' = GreetingEnd
      /\ ServedWhole(id)' <=> ServedWhole(id)
      /\ GreetedWhole(ends[id])' <=> GreetedWhole(ends[id])
  <2>1. RequestEnd(id)' = RequestEnd(id)
    BY DEF RequestEnd, Request, FramingStill
  <2> QED
    BY <2>1 DEF ServedWhole, GreetedWhole, FramingStill
<1>3. /\ out[id]["server"] \in Seq(Chunks) /\ Len(out[id]["server"]) \in Nat
      /\ wbuf[id]["server"] \in Chunks
  BY Names DEF FInv, OInv, IInv, TypeOK
<1>4. /\ Len(out'[id]["server"]) >= Len(out[id]["server"])
      /\ out'[id]["server"] # <<>> => \/ out'[id]["server"][1] = wbuf[id]["server"]
                                      \/ /\ out[id]["server"] # <<>>
                                         /\ out'[id]["server"][1] = out[id]["server"][1]
  <2> DEFINE v == out[id]["server"]
             w == wbuf[id]["server"]
  <2>1. CASE out'[id]["server"] = v
    BY <1>3, <2>1
  <2>2. CASE out'[id]["server"] = Append(v, w)
    <3>1. Len(Append(v, w)) = Len(v) + 1
      BY <1>3
    <3>2. CASE v = <<>>
      <4>1. Append(v, w)[1] = w
        BY <3>2
      <4> QED
        BY <1>3, <2>2, <3>1, <4>1
    <3>3. CASE v # <<>>
      <4>1. Append(v, w)[1] = v[1]
        BY <1>3, <3>3
      <4> QED
        BY <1>3, <2>2, <3>1, <3>3, <4>1
    <3> QED
      BY <3>2, <3>3
  <2> QED
    BY <2>1, <2>2 DEF Moves
<1>5. Pieces(id)'
  BY <1>1 DEF Pieces, Moves, FramingStill
<1>6. Patience(id)'
  <2>1. /\ sent[id] \in {0, GreetingEnd, RequestEnd(id), RequestEnd(id) + 1}
        /\ sent[id] > GreetingEnd => GreetedWhole(ends[id])
        /\ sent[id] > RequestEnd(id) => Len(out'[id]["server"]) >= 2
    <3>1. Len(out'[id]["server"]) \in Int
      BY <1>3 DEF Moves
    <3> QED
      BY <1>1, <1>3, <1>4, <3>1 DEF Patience
  <2> QED
    BY <1>2, <2>1 DEF Patience, FramingStill
<1>7. Accepted(id)'
  <2>1. rbuf'[id]["client"].kind # "auth"
    BY <1>1 DEF Accepted, Moves
  <2>2. ASSUME wbuf'[id]["server"] = Chunk("auth", NoAuth) PROVE GreetedWhole(ends[id])
    <3>1. wbuf'[id]["server"].kind = "auth"
      BY <2>2 DEF Chunk
    <3> QED
      BY <1>1, <2>2, <3>1 DEF Accepted, Moves
  <2>3. ASSUME out'[id]["server"] # <<>>, out'[id]["server"][1] = Chunk("auth", NoAuth)
        PROVE  GreetedWhole(ends[id])
    BY <1>1, <1>4, <2>3 DEF Accepted
  <2> QED
    BY <1>2, <2>1, <2>2, <2>3 DEF Accepted
<1>8. Whole(id)'
  <2>1. target[id] # Parser!NoEndpoint => target[id] = asked[id]
    BY <1>1 DEF Whole
  <2>2. state'[id] \in Later => ServedWhole(id)
    BY <1>1 DEF Whole, Moves
  <2>3. ASSUME wbuf'[id]["client"] # NoChunk PROVE ServedWhole(id) /\ Len(ends[id]) > 2
    BY <1>1, <2>3 DEF Whole, Moves, Pieces, Later
  <2>4. ASSUME out'[id]["client"] # <<>> PROVE ServedWhole(id) /\ Len(ends[id]) > 2
    BY <1>1, <2>4 DEF Whole, Moves
  <2> QED
    BY <1>2, <2>1, <2>2, <2>3, <2>4 DEF Whole, FramingStill
<1> QED
  BY <1>5, <1>6, <1>7, <1>8

LEMMA KernelMoves ==
    ASSUME OInv, NEW i \in Ids, NEW id \in Ids,
           \/ Receive(i, "client") \/ \E side \in Side : Send(i, side)
           \/ \E op \in Op : Succeed(i, op) \/ Fail(i, op)
    PROVE  Moves(id)
<1> USE Names DEF OInv, IInv, TypeOK
<1>1. CASE Receive(i, "client")
  <2>1. /\ taken'[id]["server"] = taken[id]["server"]
        /\ \/ rbuf'[id]["client"] = rbuf[id]["client"]
           \/ rbuf'[id]["client"] = Chunk("client", taken[i]["client"] + 1)
        /\ wbuf' = wbuf /\ out' = out /\ state' = state
    BY <1>1 DEF Receive
  <2> QED
    BY <2>1 DEF Moves, Chunk
<1>2. CASE Send(i, "server")
  <2>1. /\ taken' = taken /\ rbuf' = rbuf /\ wbuf' = wbuf /\ state' = state
        /\ out'[id]["client"] = out[id]["client"]
        /\ \/ out'[id]["server"] = out[id]["server"]
           \/ out'[id]["server"] = Append(out[id]["server"], wbuf[id]["server"])
    BY <1>2 DEF Send, buffers
  <2> QED
    BY <2>1 DEF Moves
<1>3. CASE Send(i, "client")
  <2>1. /\ taken' = taken /\ rbuf' = rbuf /\ wbuf' = wbuf /\ state' = state
        /\ out'[id]["server"] = out[id]["server"]
        /\ out'[id]["client"] = out[id]["client"] \/ id = i
    BY <1>3 DEF Send, buffers
  <2>2. wbuf[i]["client"].kind = "server"
    <3>1. DueRemote(ops[i], wbuf[i], out[i])
      BY DEF OrderOf, Order
    <3> QED
      BY <1>3, <3>1 DEF DueRemote, Send, Pending, WriteOp, Chunk
  <2>3. wbuf[i]["client"] # NoChunk
    BY <2>2 DEF NoChunk, Chunk
  <2> QED
    BY <2>1, <2>3 DEF Moves
<1>4. ASSUME NEW op \in Op, Succeed(i, op) \/ Fail(i, op)
      PROVE  Moves(id)
  BY <1>4, SameMoves DEF Succeed, Fail, buffers, peers
<1> QED
  BY <1>1, <1>2, <1>3, <1>4 DEF Side

LEMMA StopMoves ==
    ASSUME OInv, NEW i \in Ids, NEW id \in Ids, NEW op, NEW p, Stop(i, op, p)
    PROVE  Moves(id)
<1>1. /\ taken' = taken /\ rbuf' = rbuf /\ wbuf' = wbuf /\ out' = out
      /\ state'[id] = state[id] \/ state'[id] = "erased"
  BY DEF Stop, buffers, peers, OInv, IInv, TypeOK
<1> QED
  BY <1>1 DEF Moves, Later

LEMMA PositiveSum ==
    ASSUME NEW a \in Nat, NEW b \in Nat, NEW c \in Nat, b > 0
    PROVE  2 + a + b + c > 2
OBVIOUS

LEMMA RelayMoves ==
    ASSUME OInv, NEW i \in Ids, NEW id \in Ids, NEW side \in Side, TransferRead(i, side)
    PROVE  Moves(id)
<1> USE Names DEF OInv, IInv, TypeOK
<1>1. /\ state[i] = "data_transfer_mode" /\ ops[i][ReadOp(side)]["ok"] > 0
      /\ taken' = taken /\ rbuf' = rbuf /\ out' = out /\ state' = state
      /\ wbuf' = [wbuf EXCEPT ![i][Other(side)] = rbuf[i][side]]
  BY DEF TransferRead, Completed, peers
<1>2. CASE side = "client"
  <2>1. /\ wbuf'[id]["client"] = wbuf[id]["client"]
        /\ \/ wbuf'[id]["server"] = wbuf[id]["server"]
           \/ wbuf'[id]["server"] = rbuf[id]["client"]
    BY <1>1, <1>2 DEF Other
  <2> QED
    BY <1>1, <2>1 DEF Moves
<1>3. CASE side = "server"
  <2>1. /\ wbuf'[id]["server"] = wbuf[id]["server"]
        /\ wbuf'[id]["client"] = wbuf[id]["client"] \/ id = i
    BY <1>1, <1>3 DEF Other
  <2>2. taken[i]["server"] > 2
    <3> DEFINE o == ops[i]  t == taken[i]  u == out[i]
    <3>1. KnownOf(i)
      BY Facts
    <3>2. Transferring(o, sock[i], t, u, transferred[i])
      BY <1>1, <3>1, KnownCounted DEF KnownOf, Counted
    <3>3. /\ Unsent(o, "write_client") \in Nat /\ o["read_server"]["ok"] \in Nat
          /\ Len(u["client"]) \in Nat
      BY <3>1, KnownCounted, UnsentNat DEF KnownOf
    <3>4. o["read_server"]["ok"] > 0
      BY <1>1, <1>3 DEF ReadOp
    <3> HIDE DEF o, t, u
    <3>5. t["server"] = 2 + Len(u["client"]) + o["read_server"]["ok"] + Unsent(o, "write_client")
      BY <3>2 DEF Transferring
    <3> DEFINE x == t["server"]
               a == Len(u["client"])
               b == o["read_server"]["ok"]
               c == Unsent(o, "write_client")
    <3>6. a \in Nat /\ b \in Nat /\ c \in Nat /\ b > 0 /\ x = 2 + a + b + c
      BY <3>3, <3>4, <3>5
    <3> HIDE DEF x, a, b, c
    <3>7. x > 2
      BY <3>6, PositiveSum
    <3> QED
      BY <3>7 DEF t, x
  <2> QED
    BY <1>1, <2>1, <2>2 DEF Moves
<1> QED
  BY <1>2, <1>3 DEF Side

LEMMA ElsewhereMoves ==
    ASSUME OInv, NEW i \in Ids, NEW id \in Ids, Elsewhere(i)
    PROVE  Moves(id)
<1> USE Names DEF OInv, IInv, TypeOK
<1>1. CASE \/ Receive(i, "client") \/ (\E side \in Side : Send(i, side))
           \/ (\E op \in Op : Succeed(i, op) \/ Fail(i, op))
  BY <1>1, KernelMoves
<1>2. CASE Resolved(i) \/ AuthReplyWritten(i)
  BY <1>2, SameMoves DEF Resolved, AuthReplyWritten, buffers, peers
<1>3. CASE Connected(i)
  <2>1. /\ taken' = taken /\ rbuf' = rbuf /\ out' = out
        /\ wbuf'[id]["client"] = wbuf[id]["client"]
        /\ \/ wbuf'[id]["server"] = wbuf[id]["server"]
           \/ wbuf'[id]["server"] = Chunk("reply", Succeeded)
        /\ state'[id] = state[id] \/ state[id] = "connection_established"
    BY <1>3 DEF Connected, peers
  <2> QED
    BY <2>1 DEF Moves, Later, Chunk
<1>4. CASE ConnectFailed(i)
  <2>1. PICK n : wbuf' = [wbuf EXCEPT ![i]["server"] = Chunk("reply", n)]
    BY <1>4 DEF ConnectFailed
  <2>2. /\ taken' = taken /\ rbuf' = rbuf /\ out' = out /\ state' = state
    BY <1>4 DEF ConnectFailed, peers
  <2>3. /\ wbuf'[id]["client"] = wbuf[id]["client"]
        /\ \/ wbuf'[id]["server"] = wbuf[id]["server"]
           \/ wbuf'[id]["server"] = Chunk("reply", n)
    BY <2>1
  <2> QED
    BY <2>2, <2>3 DEF Moves, Chunk
<1>5. CASE ErrorReplyWritten(i) \/ ServerError(i) \/ ClientError(i)
  BY <1>5, StopMoves DEF ErrorReplyWritten, ServerError, ClientError
<1>6. CASE ReplyWritten(i)
  <2>1. /\ taken' = taken /\ rbuf' = rbuf /\ out' = out /\ wbuf' = wbuf
        /\ state'[id] = state[id] \/ state[id] = "ready_to_transfer_data"
    BY <1>6 DEF ReplyWritten, buffers, peers
  <2> QED
    BY <2>1 DEF Moves, Later
<1>7. ASSUME NEW side \in Side, TransferRead(i, side) \/ TransferWritten(i, side)
      PROVE  Moves(id)
  BY <1>7, RelayMoves, SameMoves DEF TransferWritten, buffers, peers
<1>8. CASE Dropped(i, Handles(state[i]))
  BY <1>8, SameMoves DEF Dropped, buffers, peers
<1> QED
  BY <1>1, <1>2, <1>3, <1>4, <1>5, <1>6, <1>7, <1>8 DEF Elsewhere

LEMMA ListenerMoves ==
    ASSUME OInv, NEW id \in Ids, Listener
    PROVE  Moves(id)
<1>1. CASE Accept("auth_request")
  <2>1. /\ taken' = taken /\ rbuf' = rbuf /\ wbuf' = wbuf /\ out' = out
        /\ state'[id] = state[id] \/ state'[id] = "auth_request"
    BY <1>1 DEF Accept, buffers, peers, OInv, IInv, TypeOK
  <2> QED
    BY <2>1 DEF Moves, Later
<1>2. CASE AcceptError \/ Signal
  BY <1>2, SameMoves DEF AcceptError, Signal, buffers, peers
<1> QED
  BY <1>1, <1>2 DEF Listener

----
(* The two handlers that parse, and what they take for a message.          *)
LEMMA ReadOnce ==
    ASSUME OInv, NEW id \in Ids, ops[id]["read_server"]["ok"] > 0
    PROVE  /\ state[id] = "auth_request" => taken[id]["server"] = 1
           /\ state[id] = "connection_request" =>
                taken[id]["server"] = 2 /\ ~(Len(out[id]["server"]) >= 2)
<1>1. KnownOf(id)
  BY Facts
<1> DEFINE o == ops[id]  t == taken[id]  u == out[id]
           s == state[id]  k == sock[id]  c == transferred[id]
<1>2. /\ Counted(s, o, k, t, u, c)
      /\ Unsent(o, "write_server") \in Nat
      /\ Single(o, "read_server")
      /\ Len(u["server"]) \in Nat
  BY <1>1, KnownCounted, UnsentNat DEF KnownOf, Known
<1>3. o["read_server"]["ok"] > 0
  OBVIOUS
<1> HIDE DEF o, t, u, s, k, c
<1>4. o["read_server"]["ok"] = 1
  BY <1>2, <1>3 DEF Single
<1>5. s = "auth_request" => t["server"] = 1
  BY <1>2, <1>4 DEF Counted
<1>6. s = "connection_request" => t["server"] = 2 /\ ~(Len(u["server"]) >= 2)
  <2> SUFFICES ASSUME s = "connection_request"
               PROVE  t["server"] = 2 /\ ~(Len(u["server"]) >= 2)
    OBVIOUS
  <2>1. /\ Len(u["server"]) = 1 - Unsent(o, "write_server")
        /\ t["server"] = 1 + o["read_server"]["ok"]
    BY <1>2 DEF Counted
  <2> QED
    BY <1>2, <1>4, <2>1
<1> QED
  BY <1>5, <1>6 DEF s, t, u

LEMMA GreetingWhole ==
    ASSUME FInv, NEW id \in Ids, GreetingRead(id), wbuf'[id]["server"].n = NoAuth
    PROVE  GreetedWhole(ends[id])
<1>1. /\ OInv /\ Asking /\ Pieces(id) /\ Patience(id) /\ ends[id] \in Seq(Int)
      /\ sent[id] \in Nat
  BY DEF FInv, FramedTypes, Asking
<1>2. taken[id]["server"] = 1
  BY <1>1, ReadOnce DEF GreetingRead, AuthRequestRead, Completed
<1> DEFINE e == ends[id]
           e1 == e[1]
<1>3. Len(e) = 1 /\ e1 \in Int /\ 1 <= e1 /\ e1 <= sent[id]
  BY <1>1, <1>2 DEF Pieces
<1>4. LastRead(id) = SubSeq(Script(id), 1, e1)
  <2>1. Consumed(id) = e1
    BY <1>3 DEF Consumed
  <2> QED
    BY <1>3, <2>1 DEF LastRead
<1>5. PICK beyond \in Beyond : Parser!IsAuthRequest(LastRead(id), beyond)
  BY DEF GreetingRead, NoAuth, NotSupported
<1> HIDE DEF e, e1
<1>6. e1 \notin 1 .. 2
  BY <1>1, <1>4, <1>5, GreetingPart
<1>7. GreetingEnd = 3
  BY <1>1, ScriptBytes
<1>8. CASE sent[id] > GreetingEnd
  BY <1>1, <1>8 DEF Patience
<1>9. CASE ~(sent[id] > GreetingEnd)
  <2>1. e1 = 3
    BY <1>1, <1>3, <1>6, <1>7, <1>9
  <2> QED
    BY <1>3, <1>7, <2>1 DEF GreetedWhole, e, e1
<1> QED
  BY <1>8, <1>9

LEMMA RequestWhole ==
    ASSUME FInv, NameLengths \subseteq 0 .. 3, NEW id \in Ids, RequestServed(id)
    PROVE  target'[id] = asked[id] /\ ends[id] = <<GreetingEnd, RequestEnd(id)>>
<1>1. /\ OInv /\ Asking /\ Pieces(id) /\ Patience(id) /\ ends[id] \in Seq(Int)
      /\ sent[id] \in Nat
  BY DEF FInv, FramedTypes, Asking
<1>2. taken[id]["server"] = 2 /\ ~(Len(out[id]["server"]) >= 2)
  BY <1>1, ReadOnce DEF RequestServed, RequestAccepted, Completed
<1> DEFINE e == ends[id]
           e1 == e[1]
           e2 == e[2]
           l == Len(Request(id))
           x == sent[id]
<1>3. /\ Len(e) = 2 /\ e1 \in Int /\ 1 <= e1 /\ e1 <= x
      /\ e2 \in Int /\ 1 <= e2 /\ e2 <= x
  BY <1>1, <1>2 DEF Pieces
<1>4. LastRead(id) = SubSeq(Script(id), e1 + 1, e2)
  <2>1. Consumed(id) = e2
    BY <1>3 DEF Consumed
  <2>2. Len(ends[id]) # 1 /\ Len(ends[id]) - 1 = 1
    BY <1>3
  <2> QED
    BY <2>1, <2>2 DEF LastRead
<1>5. PICK beyond \in Beyond :
        /\ Parser!Requested(LastRead(id), beyond) # Parser!NoEndpoint
        /\ target' = [target EXCEPT ![id] = Parser!Requested(LastRead(id), beyond)]
  BY DEF RequestServed
<1>6. target'[id] = Parser!Requested(LastRead(id), beyond)
  BY <1>5 DEF FInv, FramedTypes
<1>7. /\ GreetingEnd = 3 /\ l \in Nat /\ RequestEnd(id) = 3 + l
      /\ Len(Script(id)) = RequestEnd(id) + 1
  BY <1>1, ScriptBytes
<1>8. l <= 10
  <2>1. PICK n \in NameLengths : l = IF n = 0 THEN 10 ELSE n + 7
    BY <1>1, RequestParsed
  <2>2. n \in 0 .. 3
    OBVIOUS
  <2> HIDE DEF l
  <2> QED
    BY <2>1, <2>2
<1>9. x <= RequestEnd(id)
  <2>1. ~(x > RequestEnd(id))
    BY <1>1, <1>2 DEF Patience
  <2> HIDE DEF x, l
  <2> QED
    BY <1>1, <1>7, <2>1 DEF x
<1>10. e2 - e1 >= 10
  <2>1. e1 \in Nat /\ e2 \in Nat
    <3> HIDE DEF e1, e2, x
    <3> QED
      BY <1>3
  <2>2. e2 <= Len(Script(id))
    <3> HIDE DEF e2, x, l
    <3> QED
      BY <1>1, <1>3, <1>7, <1>9 DEF x
  <2>3. Parser!Requested(SubSeq(Script(id), e1 + 1, e2), beyond) # Parser!NoEndpoint
    BY <1>4, <1>5
  <2> HIDE DEF e1, e2
  <2> QED
    BY <1>1, <2>1, <2>2, <2>3, RequestPart
<1>11. e1 = 3
  <2>1. x > GreetingEnd
    <3> HIDE DEF e1, e2, x
    <3> QED
      BY <1>1, <1>3, <1>7, <1>10 DEF x
  <2>2. GreetedWhole(ends[id])
    BY <1>1, <2>1 DEF Patience
  <2> QED
    BY <1>7, <2>2 DEF GreetedWhole
<1>12. e2 = RequestEnd(id) /\ l = 10
  <2> HIDE DEF e1, e2, x, l
  <2> QED
    BY <1>1, <1>3, <1>7, <1>8, <1>9, <1>10, <1>11 DEF x
<1>13. ends[id] = <<GreetingEnd, RequestEnd(id)>>
  BY <1>1, <1>3, <1>7, <1>11, <1>12
<1>14. LastRead(id) = Request(id)
  BY <1>1, <1>13, RequestParsed, ScriptReads
<1>15. Parser!Requested(Request(id), beyond) = asked[id]
  <2>1. Len(Request(id)) >= 10
    BY <1>12
  <2>2. Len(Request(id)) >= 10 =>
          \A b : Parser!Requested(Request(id), b) = asked[id]
    BY <1>1, RequestParsed
  <2> QED
    BY <2>1, <2>2
<1> QED
  BY <1>6, <1>13, <1>14, <1>15

----
(* Every step keeps the invariant: of the session it is about, and of the  *)
(* others, which it leaves alone.                                          *)
Kept(id) == Pieces(id) /\ Patience(id) /\ Accepted(id) /\ Whole(id)

FramingElsewhere(id) ==
    /\ asked' = asked /\ DOMAIN target' = Ids
    /\ \A i \in Ids \ {id} :
         /\ sent'[i] = sent[i] /\ ends'[i] = ends[i] /\ target'[i] = target[i]
         /\ taken'[i] = taken[i] /\ rbuf'[i] = rbuf[i] /\ wbuf'[i] = wbuf[i]
         /\ out'[i] = out[i] /\ state'[i] = state[i]

LEMMA OneKept ==
    ASSUME FInv, NEW id \in Ids, FramingElsewhere(id), Kept(id)'
    PROVE  \A i \in Ids : Kept(i)'
<1> SUFFICES ASSUME NEW i \in Ids, i # id PROVE Kept(i)'
  OBVIOUS
<1>1. Moves(i)
  BY SameMoves DEF FramingElsewhere
<1>2. FramingStill(i)
  BY DEF FramingElsewhere, FramingStill
<1> QED
  BY <1>1, <1>2, MovesKeep DEF Kept

LEMMA SendsKept ==
    ASSUME FInv, NEW id \in Ids, PeerSends(id)
    PROVE  (\A i \in Ids : Kept(i)') /\ FramedTypes'
<1>1. /\ Pieces(id) /\ Patience(id) /\ Accepted(id) /\ Whole(id)
      /\ Asking /\ FramedTypes /\ sent[id] \in Nat /\ ends[id] \in Seq(Int)
  BY DEF FInv, FramedTypes, Asking
<1>2. /\ GreetingEnd = 3 /\ Len(Request(id)) \in Nat /\ Len(Request(id)) > 0
      /\ RequestEnd(id) = 3 + Len(Request(id)) /\ Len(Script(id)) = RequestEnd(id) + 1
  <2>1. PICK n \in NameLengths : Len(Request(id)) = IF n = 0 THEN 10 ELSE n + 7
    BY <1>1, RequestParsed
  <2>2. n \in Nat
    BY NameLengthsAssumption
  <2>3. Len(Request(id)) > 0
    BY <2>1, <2>2
  <2> QED
    BY <1>1, <2>3, ScriptBytes
<1> DEFINE g == GreetingEnd
           r == RequestEnd(id)
           x == sent[id]
           y == sent'[id]
<1>3. g = 3 /\ r \in Nat /\ r > g /\ Len(Script(id)) = r + 1 /\ x \in Nat
  BY <1>1, <1>2
<1>4. UNCHANGED <<vars, asked, ends, target>>
  BY DEF PeerSends
<1>5. /\ \/ x = 0 /\ y = g
         \/ x = g /\ Granted(id, 1, "auth", NoAuth) /\ y = r
         \/ x = r /\ Granted(id, 2, "reply", Succeeded) /\ y = r + 1
      /\ sent' = [sent EXCEPT ![id] = y]
  <2>1. sent \in [Ids -> Nat]
    BY <1>1 DEF FramedTypes
  <2> QED
    BY <1>3, <2>1 DEF PeerSends
<1>6. /\ Granted(id, 1, "auth", NoAuth) => GreetedWhole(ends[id])
      /\ Granted(id, 2, "reply", Succeeded) => Len(out[id]["server"]) >= 2
      /\ x > g => GreetedWhole(ends[id])
      /\ x > r => Len(out[id]["server"]) >= 2
  <2>1. Granted(id, 1, "auth", NoAuth) => out[id]["server"] # <<>>
    <3>1. Len(<<>>) = 0
      OBVIOUS
    <3> QED
      BY <3>1 DEF Granted
  <2> QED
    BY <1>1, <2>1 DEF Granted, Accepted, Patience
<1> HIDE DEF g, r, x, y
<1>7. /\ y \in {0, g, r, r + 1} /\ y \in Nat /\ x <= y
      /\ y > g => GreetedWhole(ends[id])
      /\ y > r => Len(out[id]["server"]) >= 2
  BY <1>3, <1>5, <1>6
<1>8. RequestEnd(id)' = RequestEnd(id)
  BY <1>4 DEF RequestEnd, Request
<1>9. Patience(id)'
  BY <1>4, <1>7, <1>8 DEF Patience, GreetedWhole, vars, peers, g, r, y
<1>10. Pieces(id)'
  <2>1. \A i \in 1 .. Len(ends[id]) : ends[id][i] \in Int
    BY <1>1
  <2>2. \A i \in 1 .. Len(ends[id]) : 1 <= ends[id][i] /\ ends[id][i] <= x
    BY <1>1 DEF Pieces, x
  <2>3. \A i \in 1 .. Len(ends[id]) : 1 <= ends[id][i] /\ ends[id][i] <= y
    BY <1>3, <1>7, <2>1, <2>2
  <2>4. Len(ends[id]) = taken[id]["server"]
    BY <1>1 DEF Pieces
  <2> QED
    BY <1>4, <2>3, <2>4 DEF Pieces, vars, y
<1>11. Accepted(id)' /\ Whole(id)'
  BY <1>1, <1>4, <1>8 DEF Accepted, Whole, ServedWhole, GreetedWhole, vars
<1>12. FramingElsewhere(id)
  BY <1>1, <1>4, <1>5 DEF FramingElsewhere, FramedTypes, vars
<1>13. FramedTypes'
  BY <1>1, <1>4, <1>5, <1>7 DEF FramedTypes
<1> QED
  BY <1>9, <1>10, <1>11, <1>12, <1>13, OneKept DEF Kept

LEMMA BytesKept ==
    ASSUME FInv, NEW id \in Ids, ReceiveBytes(id)
    PROVE  (\A i \in Ids : Kept(i)') /\ FramedTypes'
<1>1. /\ Pieces(id) /\ Patience(id) /\ Accepted(id) /\ Whole(id)
      /\ FramedTypes /\ sent[id] \in Nat /\ ends[id] \in Seq(Int)
      /\ TypeOK /\ taken[id]["server"] \in Nat
  BY Names DEF FInv, FramedTypes, OInv, IInv, TypeOK
<1>2. /\ taken' = [taken EXCEPT ![id]["server"] = @ + 1]
      /\ rbuf' = [rbuf EXCEPT ![id]["server"] = Chunk("server", taken[id]["server"] + 1)]
      /\ UNCHANGED <<wbuf, out, state, asked, sent, target>>
  BY DEF ReceiveBytes, Receive
<1>3. PICK end \in Consumed(id) + 1 .. sent[id] : ends' = [ends EXCEPT ![id] = Append(@, end)]
  BY DEF ReceiveBytes
<1> DEFINE e == ends[id]
           f == ends'[id]
           x == sent[id]
<1>4. f = Append(e, end)
  BY <1>1, <1>3 DEF FramedTypes
<1>5. Consumed(id) \in Nat
  <2>1. CASE e = <<>>
    BY <2>1 DEF Consumed
  <2>2. CASE e # <<>>
    <3>1. Len(e) \in 1 .. Len(e)
      BY <1>1, <2>2
    <3>2. Consumed(id) = e[Len(e)] /\ e[Len(e)] \in Int /\ 1 <= e[Len(e)]
      BY <1>1, <2>2, <3>1 DEF Consumed, Pieces
    <3> HIDE DEF e
    <3> QED
      BY <3>2
  <2> QED
    BY <2>1, <2>2
<1>6. end \in Int /\ 1 <= end /\ end <= x
  BY <1>1, <1>5
<1>7. e \in Seq(Int) /\ x \in Nat /\ Len(e) = taken[id]["server"]
      /\ \A i \in 1 .. Len(e) : 1 <= e[i] /\ e[i] <= x
  BY <1>1 DEF Pieces
<1> HIDE DEF e, f, x
<1>8. /\ f \in Seq(Int) /\ Len(f) = Len(e) + 1 /\ Len(e) \in Nat
      /\ \A i \in 1 .. Len(e) : f[i] = e[i]
      /\ f[Len(e) + 1] = end
  BY <1>4, <1>6, <1>7
<1>9. \A i \in 1 .. Len(f) : 1 <= f[i] /\ f[i] <= x
  <2> SUFFICES ASSUME NEW i \in 1 .. Len(f) PROVE 1 <= f[i] /\ f[i] <= x
    OBVIOUS
  <2>1. CASE i \in 1 .. Len(e)
    BY <1>7, <1>8, <2>1
  <2>2. CASE i = Len(e) + 1
    BY <1>6, <1>8, <2>2
  <2> QED
    BY <1>8, <2>1, <2>2
<1>10. /\ GreetedWhole(e) => GreetedWhole(f)
       /\ Len(e) >= 2 => Len(f) >= 2 /\ f[2] = e[2]
       /\ Len(e) > 2 => Len(f) > 2
  <2>1. Len(e) >= 1 => 1 \in 1 .. Len(e)
    BY <1>8
  <2>2. Len(e) >= 2 => 2 \in 1 .. Len(e)
    BY <1>8
  <2> QED
    BY <1>8, <2>1, <2>2 DEF GreetedWhole
<1>11. /\ taken'[id]["server"] = taken[id]["server"] + 1
       /\ rbuf'[id]["client"] = rbuf[id]["client"]
  BY <1>1, <1>2, Names DEF TypeOK
<1>12. RequestEnd(id)' = RequestEnd(id) /\ GreetingEnd' = GreetingEnd
  BY <1>2 DEF RequestEnd, Request
<1>13. GreetedWhole(f) <=> GreetedWhole(ends[id])'
  BY DEF GreetedWhole, f
<1>14. Pieces(id)'
  BY <1>2, <1>7, <1>8, <1>9, <1>11 DEF Pieces, f, x
<1>15. Patience(id)'
  BY <1>1, <1>2, <1>10, <1>12, <1>13 DEF Patience, e
<1>16. Accepted(id)'
  BY <1>1, <1>2, <1>10, <1>11, <1>13 DEF Accepted, e
<1>17. ServedWhole(id) => ServedWhole(id)'
  BY <1>2, <1>10, <1>12 DEF ServedWhole, e, f
<1>18. ServedWhole(id) /\ Len(ends[id]) > 2 => (ServedWhole(id) /\ Len(ends[id]) > 2)'
  BY <1>10, <1>17 DEF e, f
<1>19. Whole(id)'
  BY <1>1, <1>2, <1>17, <1>18 DEF Whole
<1>20. FramingElsewhere(id)
  BY <1>1, <1>2, <1>3 DEF FramingElsewhere, FramedTypes, TypeOK
<1>21. FramedTypes'
  <2>1. ends' \in [Ids -> Seq(Int)]
    BY <1>1, <1>3, <1>4, <1>8 DEF FramedTypes
  <2> QED
    BY <1>1, <1>2, <2>1 DEF FramedTypes
<1> QED
  BY <1>14, <1>15, <1>16, <1>19, <1>20, <1>21, OneKept DEF Kept

LEMMA GreetingKept ==
    ASSUME FInv, NEW id \in Ids, GreetingRead(id)
    PROVE  (\A i \in Ids : Kept(i)') /\ FramedTypes'
<1>1. /\ Pieces(id) /\ Patience(id) /\ Accepted(id) /\ Whole(id)
      /\ FramedTypes /\ TypeOK
  BY DEF FInv, OInv, IInv
<1>2. PICK m : wbuf' = [wbuf EXCEPT ![id]["server"] = Chunk("auth", m)]
  BY DEF GreetingRead, AuthRequestRead
<1>3. /\ state' = [state EXCEPT ![id] = "connection_request"]
      /\ UNCHANGED <<rbuf, taken, out, asked, sent, ends, target>>
  BY DEF GreetingRead, AuthRequestRead, peers, framing
<1>4. /\ wbuf'[id]["server"] = Chunk("auth", m)
      /\ wbuf'[id]["client"] = wbuf[id]["client"]
      /\ state'[id] = "connection_request"
  BY <1>1, <1>2, <1>3, Names DEF TypeOK
<1>5. wbuf'[id]["server"] = Chunk("auth", NoAuth) => GreetedWhole(ends[id])
  BY GreetingWhole DEF Chunk
<1>6. RequestEnd(id)' = RequestEnd(id)
  BY <1>3 DEF RequestEnd, Request
<1>7. Pieces(id)'
  BY <1>1, <1>3 DEF Pieces
<1>8. Patience(id)'
  BY <1>1, <1>3, <1>6 DEF Patience, GreetedWhole
<1>9. Accepted(id)'
  BY <1>1, <1>3, <1>5 DEF Accepted, GreetedWhole
<1>10. Whole(id)'
  BY <1>1, <1>3, <1>4, <1>6 DEF Whole, ServedWhole, Later
<1>11. FramingElsewhere(id)
  BY <1>1, <1>2, <1>3 DEF FramingElsewhere, FramedTypes, TypeOK
<1>12. FramedTypes'
  BY <1>1, <1>3 DEF FramedTypes
<1> QED
  BY <1>7, <1>8, <1>9, <1>10, <1>11, <1>12, OneKept DEF Kept

LEMMA ServedKept ==
    ASSUME FInv, NameLengths \subseteq 0 .. 3, NEW id \in Ids, RequestServed(id)
    PROVE  (\A i \in Ids : Kept(i)') /\ FramedTypes'
<1>1. /\ Pieces(id) /\ Patience(id) /\ Accepted(id) /\ Whole(id)
      /\ FramedTypes /\ TypeOK
  BY DEF FInv, OInv, IInv
<1>2. /\ state' = [state EXCEPT ![id] = "connection_established"]
      /\ UNCHANGED <<rbuf, wbuf, taken, out, asked, sent, ends>>
  BY DEF RequestServed, RequestAccepted, buffers, peers
<1>3. PICK endpoint : target' = [target EXCEPT ![id] = endpoint]
  BY DEF RequestServed
<1>4. target'[id] = asked[id] /\ ends[id] = <<GreetingEnd, RequestEnd(id)>>
  BY RequestWhole
<1>5. RequestEnd(id)' = RequestEnd(id)
  BY <1>2 DEF RequestEnd, Request
<1>6. Pieces(id)'
  BY <1>1, <1>2 DEF Pieces
<1>7. Patience(id)'
  BY <1>1, <1>2, <1>5 DEF Patience, GreetedWhole
<1>8. Accepted(id)'
  BY <1>1, <1>2 DEF Accepted, GreetedWhole
<1>9. ServedWhole(id)'
  <2>1. Len(ends[id]) >= 2 /\ ends[id][2] = RequestEnd(id)
    BY <1>4
  <2> QED
    BY <1>2, <1>4, <1>5, <2>1 DEF ServedWhole
<1>10. Whole(id)'
  BY <1>1, <1>2, <1>4, <1>9 DEF Whole
<1>11. FramingElsewhere(id)
  BY <1>1, <1>2, <1>3 DEF FramingElsewhere, FramedTypes, TypeOK
<1>12. FramedTypes'
  <2>1. DOMAIN target' = Ids /\ target' = [i \in Ids |-> target'[i]]
    BY <1>1, <1>3 DEF FramedTypes
  <2> QED
    BY <1>1, <1>2, <2>1 DEF FramedTypes
<1> QED
  BY <1>6, <1>7, <1>8, <1>10, <1>11, <1>12, OneKept DEF Kept

(* The others look at no byte.                                             *)
LEMMA StillKept ==
    ASSUME FInv, UNCHANGED framing, \A id \in Ids : Moves(id)
    PROVE  (\A id \in Ids : Kept(id)') /\ FramedTypes'
<1>1. \A id \in Ids : FramingStill(id)
  BY DEF FramingStill, framing
<1>2. \A id \in Ids : Kept(id)'
  BY <1>1, MovesKeep DEF Kept
<1>3. FramedTypes'
  BY DEF FInv, FramedTypes, framing
<1> QED
  BY <1>2, <1>3

LEMMA NextFramed ==
    ASSUME NameLengths \subseteq 0 .. 3
    PROVE  FInv /\ [FramedNext]_framedVars => FInv'
<1> SUFFICES ASSUME FInv, [FramedNext]_framedVars PROVE FInv'
  OBVIOUS
<1>1. OInv'
  BY FramedStep, NextOrder DEF FInv
<1>2. (\A id \in Ids : Kept(id)') /\ FramedTypes'
  <2>1. ASSUME NEW i \in Ids, PeerSends(i)
        PROVE  (\A id \in Ids : Kept(id)') /\ FramedTypes'
    BY <2>1, SendsKept
  <2>2. ASSUME NEW i \in Ids, ReceiveBytes(i)
        PROVE  (\A id \in Ids : Kept(id)') /\ FramedTypes'
    BY <2>2, BytesKept
  <2>3. ASSUME NEW i \in Ids, GreetingRead(i)
        PROVE  (\A id \in Ids : Kept(id)') /\ FramedTypes'
    BY <2>3, GreetingKept
  <2>4. ASSUME NEW i \in Ids, RequestServed(i)
        PROVE  (\A id \in Ids : Kept(id)') /\ FramedTypes'
    BY <2>4, ServedKept
  <2>5. ASSUME NEW i \in Ids, RequestRefused(i)
        PROVE  (\A id \in Ids : Kept(id)') /\ FramedTypes'
    <3>1. \A id \in Ids : Moves(id)
      BY <2>5, StopMoves DEF RequestRefused, RequestRejected, FInv
    <3> QED
      BY <2>5, <3>1, StillKept DEF RequestRefused
  <2>6. ASSUME NEW i \in Ids, Elsewhere(i)
        PROVE  (\A id \in Ids : Kept(id)') /\ FramedTypes'
    <3>1. \A id \in Ids : Moves(id)
      BY <2>6, ElsewhereMoves DEF FInv
    <3> QED
      BY <2>6, <3>1, StillKept DEF Elsewhere
  <2>7. CASE Listener
    <3>1. \A id \in Ids : Moves(id)
      BY <2>7, ListenerMoves DEF FInv
    <3> QED
      BY <2>7, <3>1, StillKept DEF Listener
  <2>8. CASE UNCHANGED framedVars
    <3>1. \A id \in Ids : Moves(id)
      BY <2>8, SameMoves DEF framedVars, vars
    <3> QED
      BY <2>8, <3>1, StillKept DEF framedVars
  <2> QED
    BY <2>1, <2>2, <2>3, <2>4, <2>5, <2>6, <2>7, <2>8 DEF FramedNext
<1> QED
  BY <1>1, <1>2 DEF FInv, Kept

LEMMA FramedAlways ==
    ASSUME NameLengths \subseteq 0 .. 3
    PROVE  FramedSpec => []FInv
<1>1. FInv /\ [FramedNext]_framedVars => FInv'
  BY NextFramed
<1> QED
  BY <1>1, InitFramed, PTL DEF FramedSpec

(* Wherever TCP splits its bytes, a session for an IPv4 host or a domain   *)
(* name of at most three bytes resolves what its peer asked for or nothing *)
(* at all: requests of at most ten bytes leave is_valid_request_packet no  *)
(* part that it could take for the whole.  Of a longer name framing_split  *)
(* shows a part served.                                                    *)
THEOREM ShortIsServedAsAsked ==
    ASSUME NameLengths \subseteq 0 .. 3
    PROVE  FramedSpec => []ServedAsAsked
<1>1. FInv => ServedAsAsked
  BY DEF FInv, Whole, ServedAsAsked
<1> QED
  BY <1>1, FramedAlways, PTL

(* And what the remote host is sent begins behind the request: no rest of  *)
(* a request that arrived in parts is relayed as data.                     *)
THEOREM ShortIsRelayedWhole ==
    ASSUME NameLengths \subseteq 0 .. 3
    PROVE  FramedSpec => []OnlyDataRelayed
<1>1. FInv => OnlyDataRelayed
  BY DEF FInv, Whole, ServedWhole, OnlyDataRelayed
<1> QED
  BY <1>1, FramedAlways, PTL
====
