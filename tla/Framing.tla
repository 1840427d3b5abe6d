---- MODULE Framing ----
(***************************************************************************)
(* SOCKS5 sessions over TCP with the bytes of the local peer: the handlers *)
(* take what ONE read returned for one whole message, while TCP splits a   *)
(* message at any byte.  Socks5 decides freely whether a greeting and a    *)
(* request are good; here Socks5Parser decides, on the bytes the read      *)
(* returned.                                                               *)
(*                                                                         *)
(* The peer is patient, as SOCKS5 asks: it sends its request once its      *)
(* greeting is accepted and its data once its request is granted.          *)
(***************************************************************************)
EXTENDS Socks5

Parser == INSTANCE Socks5Parser

CONSTANT NameLengths    \* the domain names asked for; 0 stands for an IPv4 host

ASSUME NameLengthsAssumption == NameLengths \subseteq 0 .. 255
ASSUME TcpAssumption == Tls = FALSE

VARIABLES
    asked,     \* asked[id]: the endpoint the local peer of a session asks for
    sent,      \* sent[id]: how many bytes it has sent
    ends,      \* ends[id]: for each read of it, the byte the read ended with
    target     \* target[id]: set_endpoint_info

framing == <<asked, sent, ends, target>>
framedVars == <<vars, framing>>

Endpoints ==
    {IF n = 0 THEN Parser!Endpoint(Parser!Ipv4, <<10, 0, 0, 1>>, 443)
              ELSE Parser!Endpoint(Parser!Dom, [i \in 1 .. n |-> 96 + i], 443)
       : n \in NameLengths}

Greeting == Parser!Greeting(Parser!Version, <<NoAuth>>)
Request(id) == Parser!Request(Parser!Version, Parser!TcpConnection, asked[id])
Data == <<99>>
Script(id) == Greeting \o Request(id) \o Data

GreetingEnd == Len(Greeting)
RequestEnd(id) == GreetingEnd + Len(Request(id))

Consumed(id) == IF ends[id] = <<>> THEN 0 ELSE ends[id][Len(ends[id])]

(* The bytes the last read returned.                                       *)
LastRead(id) ==
    LET from == IF Len(ends[id]) = 1 THEN 0 ELSE ends[id][Len(ends[id]) - 1]
    IN  SubSeq(Script(id), from + 1, Consumed(id))

(* What a byte behind the end of the buffer may hold.                      *)
Beyond == {0, 255}

----
(* External: the peer sends a message when its turn has come.              *)
Granted(id, i, kind, n) ==
    Len(out[id]["server"]) >= i /\ out[id]["server"][i] = Chunk(kind, n)

PeerSends(id) ==
    /\ sock[id]["server"] = "open"
    /\ \/ sent[id] = 0 /\ sent' = [sent EXCEPT ![id] = GreetingEnd]
       \/ /\ sent[id] = GreetingEnd /\ Granted(id, 1, "auth", NoAuth)
          /\ sent' = [sent EXCEPT ![id] = RequestEnd(id)]
       \/ /\ sent[id] = RequestEnd(id) /\ Granted(id, 2, "reply", Succeeded)
          /\ sent' = [sent EXCEPT ![id] = Len(Script(id))]
    /\ UNCHANGED <<vars, asked, ends, target>>

(* A read returns some of the bytes that are there, at least one.          *)
ReceiveBytes(id) ==
    /\ Receive(id, "server")
    /\ \E end \in Consumed(id) + 1 .. sent[id] :
         ends' = [ends EXCEPT ![id] = Append(@, end)]
    /\ UNCHANGED <<asked, sent, target>>

----
(* socks5_auth_request::handle_server_read with its verdict.               *)
GreetingRead(id) ==
    /\ AuthRequestRead(id)
    /\ \E beyond \in Beyond :
         wbuf'[id]["server"].n =
           IF Parser!IsAuthRequest(LastRead(id), beyond) THEN NoAuth ELSE NotSupported
    /\ UNCHANGED framing

(* socks5_connection_request::handle_server_read with its verdict.         *)
RequestServed(id) ==
    /\ RequestAccepted(id)
    /\ \E beyond \in Beyond :
         LET endpoint == Parser!Requested(LastRead(id), beyond)
         IN  /\ endpoint # Parser!NoEndpoint
             /\ target' = [target EXCEPT ![id] = endpoint]
    /\ UNCHANGED <<asked, sent, ends>>

RequestRefused(id) ==
    /\ RequestRejected(id)
    /\ \E beyond \in Beyond : Parser!Requested(LastRead(id), beyond) = Parser!NoEndpoint
    /\ UNCHANGED framing

(* The handlers and the kernel steps that look at no byte.                 *)
Elsewhere(id) ==
    /\ \/ Receive(id, "client") \/ (\E side \in Side : Send(id, side))
       \/ (\E op \in Op : Succeed(id, op) \/ Fail(id, op))
       \/ Resolved(id) \/ AuthReplyWritten(id)
       \/ Connected(id) \/ ConnectFailed(id) \/ ErrorReplyWritten(id) \/ ReplyWritten(id)
       \/ (\E side \in Side : TransferRead(id, side) \/ TransferWritten(id, side))
       \/ ServerError(id) \/ ClientError(id)
       \/ Dropped(id, Handles(state[id]))
    /\ UNCHANGED framing

Listener == (Accept("auth_request") \/ AcceptError \/ Signal) /\ UNCHANGED framing

FramedInit ==
    /\ Init
    /\ asked \in [Ids -> Endpoints]
    /\ sent = [id \in Ids |-> 0]
    /\ ends = [id \in Ids |-> <<>>]
    /\ target = [id \in Ids |-> Parser!NoEndpoint]

FramedNext ==
    \/ \E id \in Ids :
         \/ PeerSends(id) \/ ReceiveBytes(id)
         \/ GreetingRead(id) \/ RequestServed(id) \/ RequestRefused(id)
         \/ Elsewhere(id)
    \/ Listener

FramedSpec == FramedInit /\ [][FramedNext]_framedVars

----
(* A session resolves the host and port its peer asked for or none at all, *)
(* wherever TCP splits the request: socks5_connection_request, which logs  *)
(* what it was "requested".                                                *)
ServedAsAsked ==
    \A id \in Ids : target[id] \in {Parser!NoEndpoint, asked[id]}

(* What the remote host is sent begins with the byte behind the request:   *)
(* the rest of a message that arrived in parts is never relayed as data.   *)
OnlyDataRelayed ==
    \A id \in Ids : out[id]["client"] # <<>> =>
        Len(ends[id]) > 2 /\ ends[id][2] = RequestEnd(id)

(* A well-formed greeting and a well-formed request that arrive in one     *)
(* read each are granted: the greeting is answered 0, the request does not *)
(* end the session (socks5_state.cpp logs "bad request packet" for those   *)
(* it refuses).                                                            *)
UnsplitServed ==
    [][\A id \in Ids :
         /\ state[id] = "auth_request" /\ state'[id] = "connection_request"
              /\ ends[id] = <<GreetingEnd>> => wbuf'[id]["server"].n = NoAuth
         /\ state[id] = "connection_request" /\ ops[id]["read_server"]["ok"] > 0
              /\ ends[id] = <<GreetingEnd, RequestEnd(id)>> => state'[id] # "erased"]_framedVars
====
