---- MODULE Http ----
(***************************************************************************)
(* The HTTP mode of amgi_proxy: the handlers of http_session's states      *)
(* (http_state.cpp) with the part of http_stream_manager that calls them.  *)
(* A CONNECT request opens a tunnel; a request with any other method is    *)
(* forwarded to the host it names.  What the first message of the local    *)
(* peer asks for is chosen when its handler parses it.                     *)
(***************************************************************************)
EXTENDS Transport

CONSTANT Methods    \* the methods the local peers use: "CONNECT", "GET"

ASSUME MethodsAssumption == Methods \subseteq {"CONNECT", "GET"}

VARIABLE response   \* response[id]: the session's response_, none yet or a chunk

httpVars == <<vars, response>>

Sessions == {"wait_request", "connection_established", "ready_to_transfer_data",
             "data_transfer_mode"}

HttpDone == Chunk("status", 200)
HttpError500 == Chunk("status", 500)

Handles(s) ==
    CASE s = "wait_request" -> {"read_server"}
      [] s = "connection_established" -> {"connect"}
      [] s = "ready_to_transfer_data" -> {"write_server", "write_client"}
      [] s = "data_transfer_mode" ->
           {"read_server", "write_server", "read_client", "write_client"}
      [] OTHER -> {}

----
(* Bug: the local peer is read, to see it close, while the name resolves.  *)
RequestAcceptedReads(id) ==
    /\ state[id] = "wait_request"
    /\ Completed(id, "read_server", "ok")
    /\ \E method \in Methods :
         response' = [response EXCEPT ![id] =
                        IF method = "CONNECT" THEN HttpDone ELSE rbuf[id]["server"]]
    /\ ops' = [ops EXCEPT ![id] =
                 Issue(Issue(Retire(@, "read_server", "ok"), "resolve"), "read_server")]
    /\ state' = [state EXCEPT ![id] = "connection_established"]
    /\ UNCHANGED <<sock, buffers, peers, transferred, listener>>

(* wait_request: a usable request is kept, or the answer to CONNECT is, and*)
(* the client stream starts.                                               *)
RequestAccepted(id) ==
    /\ state[id] = "wait_request"
    /\ Completed(id, "read_server", "ok")
    /\ \E method \in Methods :
         response' = [response EXCEPT ![id] =
                        IF method = "CONNECT" THEN HttpDone ELSE rbuf[id]["server"]]
    /\ Then(id, "read_server", "resolve")
    /\ state' = [state EXCEPT ![id] = "connection_established"]
    /\ UNCHANGED <<sock, buffers, peers, transferred, listener>>

(* No host or no service in the request: the write of the 500 answer is    *)
(* started and the session stopped in the same handler, so the answer goes *)
(* out only if the socket takes it at once.                                *)
Refusal(id, sent) ==
    LET o == Issue(Retire(ops[id], "read_server", "ok"), "write_server")
    IN  /\ ops' = [ops EXCEPT ![id] =
                     StopOps(IF sent THEN Settle(o, "write_server", "ok") ELSE o, sock[id])]
        /\ out' = IF sent THEN [out EXCEPT ![id]["server"] = Append(@, HttpError500)] ELSE out

(* Bug: no return after the 500 answer, the request is served all the same.*)
RequestRefusedGoesOn(id) ==
    /\ state[id] = "wait_request"
    /\ Completed(id, "read_server", "ok")
    /\ wbuf' = [wbuf EXCEPT ![id]["server"] = HttpError500]
    /\ ops' = [ops EXCEPT ![id] =
                 Issue(Issue(Retire(@, "read_server", "ok"), "write_server"), "resolve")]
    /\ response' = [response EXCEPT ![id] = HttpDone]
    /\ state' = [state EXCEPT ![id] = "connection_established"]
    /\ UNCHANGED <<sock, rbuf, peers, transferred, listener>>

RequestRefused(id) ==
    /\ state[id] = "wait_request"
    /\ Completed(id, "read_server", "ok")
    /\ \E sent \in BOOLEAN : Refusal(id, sent)
    /\ wbuf' = [wbuf EXCEPT ![id]["server"] = HttpError500]
    /\ sock' = [sock EXCEPT ![id] = StopSock(@)]
    /\ state' = [state EXCEPT ![id] = "erased"]
    /\ UNCHANGED <<rbuf, taken, transferred, listener, response>>

(* Bug: the request is not forwarded.                                      *)
ConnectedNoForward(id) ==
    /\ state[id] = "connection_established"
    /\ Completed(id, "connect", "ok")
    /\ ops' = [ops EXCEPT ![id] =
                 Issue(Issue(Retire(@, "connect", "ok"), "read_server"), "read_client")]
    /\ state' = [state EXCEPT ![id] = "data_transfer_mode"]
    /\ UNCHANGED <<sock, buffers, peers, transferred, listener, response>>

(* connection_established: a CONNECT is answered, another request is sent  *)
(* to the remote host.                                                     *)
Connected(id) ==
    LET to == IF response[id] = HttpDone THEN "server" ELSE "client"
    IN  /\ state[id] = "connection_established"
        /\ Completed(id, "connect", "ok")
        /\ wbuf' = [wbuf EXCEPT ![id][to] = response[id]]
        /\ Then(id, "connect", WriteOp(to))
        /\ state' = [state EXCEPT ![id] = "ready_to_transfer_data"]
        /\ UNCHANGED <<sock, rbuf, peers, transferred, listener, response>>

(* ready_to_transfer_data: both directions start with a read once the      *)
(* answer is written; once the request is written, the LOCAL peer is read  *)
(* twice and the remote host not at all.                                   *)
StartReads(id, written, first, second) ==
    /\ state[id] = "ready_to_transfer_data"
    /\ Completed(id, written, "ok")
    /\ ops' = [ops EXCEPT ![id] = Issue(Issue(Retire(@, written, "ok"), first), second)]
    /\ state' = [state EXCEPT ![id] = "data_transfer_mode"]
    /\ UNCHANGED <<sock, buffers, peers, transferred, listener, response>>

AnswerWrittenTwice(id) == StartReads(id, "write_server", "read_server", "read_server")  \* bug
AnswerWritten(id) == StartReads(id, "write_server", "read_server", "read_client")
RequestWritten(id) == StartReads(id, "write_client", "read_server", "read_server")

(* data_transfer_mode.                                                     *)
(* Bug: the next read does not wait for the write.                         *)
TransferReadEager(id, side) ==
    /\ state[id] = "data_transfer_mode"
    /\ Completed(id, ReadOp(side), "ok")
    /\ transferred' = [transferred EXCEPT ![id][Other(side)] = @ + 1]
    /\ wbuf' = [wbuf EXCEPT ![id][Other(side)] = rbuf[id][side]]
    /\ ops' = [ops EXCEPT ![id] =
                 Issue(Issue(Retire(@, ReadOp(side), "ok"), WriteOp(Other(side))), ReadOp(side))]
    /\ UNCHANGED <<sock, rbuf, peers, state, listener, response>>

TransferRead(id, side) ==
    /\ state[id] = "data_transfer_mode"
    /\ Completed(id, ReadOp(side), "ok")
    /\ transferred' = [transferred EXCEPT ![id][Other(side)] = @ + 1]
    /\ wbuf' = [wbuf EXCEPT ![id][Other(side)] = rbuf[id][side]]
    /\ Then(id, ReadOp(side), WriteOp(Other(side)))
    /\ UNCHANGED <<sock, rbuf, peers, state, listener, response>>

(* Bug: the handler reads without looking its session up.                  *)
TransferWrittenUnchecked(id, side) ==
    /\ state[id] \in {"data_transfer_mode", "erased"}
    /\ Completed(id, WriteOp(side), "ok")
    /\ Then(id, WriteOp(side), ReadOp(Other(side)))
    /\ UNCHANGED <<sock, buffers, peers, transferred, state, listener, response>>

TransferWritten(id, side) ==
    /\ state[id] = "data_transfer_mode"
    /\ Completed(id, WriteOp(side), "ok")
    /\ Then(id, WriteOp(side), ReadOp(Other(side)))
    /\ UNCHANGED <<sock, buffers, peers, transferred, state, listener, response>>

(* http_state::handle_server_error and handle_client_error: any error      *)
(* stops the session, without an answer.                                   *)
StreamError(id) ==
    /\ Live(id)
    /\ \E op \in Op \ {"shutdown", "null_write"} :
         /\ Completed(id, op, "error")
         /\ Stop(id, op, "error")
    /\ UNCHANGED response

Stream(id) ==
    /\ Handshaken(id) \/ Resolved(id) \/ TlsClosed(id) \/ Dropped(id, Handles(state[id]))
    /\ UNCHANGED response

Dispatch(id) ==
    \/ Stream(id)
    \/ RequestAccepted(id) \/ RequestRefused(id) \/ Connected(id)
    \/ AnswerWritten(id) \/ RequestWritten(id)
    \/ \E side \in Side : TransferRead(id, side) \/ TransferWritten(id, side)
    \/ StreamError(id)

HttpInit == Init /\ response = [id \in Ids |-> NoChunk]

KernelStep(id) == Kernel(id) /\ UNCHANGED response
Accepted == Accept("wait_request") /\ UNCHANGED response
AcceptFailed == AcceptError /\ UNCHANGED response
Signalled == Signal /\ UNCHANGED response

Next ==
    \/ \E id \in Ids : KernelStep(id) \/ Dispatch(id)
    \/ Accepted \/ AcceptFailed \/ Signalled

Spec == HttpInit /\ [][Next]_httpVars

(* As in Socks5: handlers run, and the kernel completes what needs no peer.*)
FairSpec ==
    /\ Spec
    /\ \A id \in Ids : WF_httpVars(Dispatch(id))
    /\ \A id \in Ids, op \in Op :
         WF_httpVars(KernelFinishes(id, op) /\ UNCHANGED response)

----
TypeOK ==
    /\ ops \in [Ids -> [Op -> [Phase -> Nat]]]
    /\ sock \in [Ids -> [Side -> SockState]]
    /\ rbuf \in [Ids -> [Side -> Chunks]]
    /\ wbuf \in [Ids -> [Side -> Chunks]]
    /\ taken \in [Ids -> [Side -> Nat]]
    /\ out \in [Ids -> [Side -> Seq(Chunks)]]
    /\ transferred \in [Ids -> [Side -> Nat]]
    /\ state \in [Ids -> Sessions \union {"absent", "erased"}]
    /\ stream_id \in Nat \ {0}
    /\ running \in BOOLEAN
    /\ response \in [Ids -> Chunks]

(* As in Socks5: a live session waits for what its state handles, one      *)
(* operation while it negotiates and one per direction while a tunnel      *)
(* relays; what a forwarded request waits for is ResponsePumped's matter.  *)
Awaits(s) ==
    CASE s = "wait_request" -> {"handshake", "read_server"}
      [] s = "connection_established" -> {"resolve", "connect"}
      [] s = "ready_to_transfer_data" -> {"write_server", "write_client"}

NeverIdle ==
    \A id \in Ids : Live(id) =>
        IF state[id] = "data_transfer_mode"
        THEN response[id] = HttpDone => Pumping(ops[id])
        ELSE Only(ops[id], Awaits(state[id]))

(* Until its request is usable the local peer gets a 500 and nothing else, *)
(* after a CONNECT first the 200; all that follows comes from the remote   *)
(* host, in order, and a refused request never opens a connection.         *)
AnswersInOrder ==
    \A id \in Ids : \A i \in DOMAIN out[id]["server"] :
        LET chunk == out[id]["server"][i]
            lead  == IF response[id] = HttpDone THEN 1 ELSE 0
        IN  IF chunk = HttpError500
              THEN i = 1 /\ response[id] = NoChunk /\ sock[id]["client"] = "none"
              ELSE IF i = lead THEN chunk = HttpDone ELSE chunk = Chunk("client", i - lead)

(* What the remote host is sent, once there is a connection to it: through *)
(* a tunnel every message behind the CONNECT, once and in order; otherwise *)
(* first the request, and then never an older message after a newer one,   *)
(* although two reads share one buffer and may lose or repeat a message.   *)
RemoteInOrder ==
    \A id \in Ids : LET sent == out[id]["client"] IN sent # <<>> =>
        /\ sock[id]["client"] # "none"
        /\ IF response[id] = HttpDone
             THEN \A i \in DOMAIN sent : sent[i] = Chunk("server", i + 1)
             ELSE /\ sent[1] = Chunk("server", 1)
                  /\ \A i, j \in DOMAIN sent :
                       sent[i].kind = "server" /\ (i <= j => sent[i].n <= sent[j].n)

(* In http mode a request is answered by its remote host: as soon as the   *)
(* session transfers data, the remote host is being read or what it sent   *)
(* is being written to the local peer.                                     *)
ResponsePumped ==
    \A id \in Ids : state[id] = "data_transfer_mode" =>
        Out(ops[id], "read_client") + Out(ops[id], "write_server") = 1

(* A stopped session releases its streams, the 500 answer included.        *)
StreamsReleased ==
    \A id \in Ids :
        state[id] = "erased" ~> (~running \/ \A op \in Op : Out(ops[id], op) = 0)
====
