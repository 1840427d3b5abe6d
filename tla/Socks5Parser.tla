---- MODULE Socks5Parser ----
(***************************************************************************)
(* The SOCKS5 messages as socks5.cpp reads them: pure operators on a       *)
(* buffer of bytes, the chunk one read returned.  Offsets are those of the *)
(* source, the first byte is at 0.  The parser checks a request for its    *)
(* minimal length only and may read behind the end of the buffer: such a   *)
(* byte is undefined, and every operator that may reach it takes its value *)
(* as the parameter beyond.                                                *)
(***************************************************************************)
EXTENDS Integers, Sequences

Version == 5
NoAuth == 0
HeaderMinLength == 2

TcpConnection == 1
Ipv4 == 1
Dom == 3
Ipv6 == 4
Ipv4Length == 4
Ipv6Length == 16

RequestHeaderMinLength9 == 9    \* bug: one byte short of the shortest request
RequestHeaderMinLength == 10

At(buffer, beyond, offset) ==
    IF offset < Len(buffer) THEN buffer[offset + 1] ELSE beyond

Bytes(buffer, beyond, first, n) ==
    [i \in 1 .. n |-> At(buffer, beyond, first + i - 1)]

----
(* A greeting: version, number of methods, the methods.                    *)

(* Bug: the methods announced are compared with the whole length.          *)
IsAuthRequestShort(buffer, beyond) ==
    /\ Len(buffer) >= HeaderMinLength
    /\ buffer[1] = Version
    /\ buffer[2] <= Len(buffer)
    /\ \E i \in 1 .. buffer[2] : At(buffer, beyond, HeaderMinLength + i - 1) = NoAuth

(* is_socks5_auth_request finds nothing to object to.                      *)
IsAuthRequest(buffer, beyond) ==
    /\ Len(buffer) >= HeaderMinLength
    /\ buffer[1] = Version
    /\ buffer[2] + HeaderMinLength <= Len(buffer)
    /\ \E i \in 1 .. buffer[2] : At(buffer, beyond, HeaderMinLength + i - 1) = NoAuth

----
(* A request: version, command, reserved, type, then the address (a domain *)
(* name behind one byte of length) and the port, high byte first.          *)

TypeOf(buffer) == buffer[4]

IsValidRequestStrict(buffer) ==    \* bug: a request of the minimal length is refused
    /\ Len(buffer) > RequestHeaderMinLength
    /\ buffer[1] = Version
    /\ buffer[2] = TcpConnection
    /\ TypeOf(buffer) \in {Ipv4, Ipv6, Dom}

IsValidRequest(buffer) ==
    /\ Len(buffer) >= RequestHeaderMinLength
    /\ buffer[1] = Version
    /\ buffer[2] = TcpConnection
    /\ TypeOf(buffer) \in {Ipv4, Ipv6, Dom}

AddressOffset(buffer) == IF TypeOf(buffer) = Dom THEN 5 ELSE 4

AddressLength(buffer) ==
    CASE TypeOf(buffer) = Ipv4 -> Ipv4Length
      [] TypeOf(buffer) = Ipv6 -> Ipv6Length
      [] TypeOf(buffer) = Dom -> buffer[5]

PortOffsetNoLengthByte(buffer) == 4 + AddressLength(buffer)    \* bug for names

PortOffset(buffer) == AddressOffset(buffer) + AddressLength(buffer)

Port(high, low) == (high * 256 + low) % 65536

(* What get_remote_address_info returns of a valid request: the host, in   *)
(* the text form of its type, and the port; a host without a character is  *)
(* an error.                                                               *)
Endpoint(type, address, port) == [type |-> type, address |-> address, port |-> port]
NoEndpoint == Endpoint(0, <<>>, 0)

RemoteAddressInfo(buffer, beyond) ==
    LET address == Bytes(buffer, beyond, AddressOffset(buffer), AddressLength(buffer))
        port    == Port(At(buffer, beyond, PortOffset(buffer)),
                        At(buffer, beyond, PortOffset(buffer) + 1))
    IN  IF Len(buffer) < RequestHeaderMinLength \/ address = <<>>
          THEN NoEndpoint
          ELSE Endpoint(TypeOf(buffer), address, port)

(* The endpoint a session is given: the two checks its handler makes.      *)
Requested(buffer, beyond) ==
    IF IsValidRequest(buffer) THEN RemoteAddressInfo(buffer, beyond) ELSE NoEndpoint

----
(* The messages a peer builds, field by field (struct request and          *)
(* request_header).                                                        *)
Greeting(version, methods) == <<version, Len(methods)>> \o methods

Request(version, command, endpoint) ==
    <<version, command, 0, endpoint.type>>
      \o (IF endpoint.type = Dom THEN <<Len(endpoint.address)>> ELSE <<>>)
      \o endpoint.address
      \o <<endpoint.port \div 256, endpoint.port % 256>>
====
