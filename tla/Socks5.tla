---- MODULE Socks5 ----
(***************************************************************************)
(* The SOCKS5 mode of amgi_proxy: the handlers of socks5_session's states  *)
(* (socks5_state.cpp) with the part of socks5_stream_manager that calls    *)
(* them.  Each action is the dispatch of one completed operation, with all *)
(* that the handler does before it returns to the io_context.  What a      *)
(* message says (a well-formed greeting, a usable request) is chosen when  *)
(* its handler parses it.                                                  *)
(***************************************************************************)
EXTENDS Transport

Sessions == {"auth_request", "connection_request", "connection_established",
             "ready_to_transfer_data", "data_transfer_mode"}

NoAuth == 0
NotSupported == 255
Succeeded == 0

(* The kinds of error that get_response_error_code tells apart, as a       *)
(* resolve and a connect report them.                                      *)
ErrorsOf(op) ==
    IF op = "resolve" THEN {"host_not_found", "other"}
    ELSE {"network_unreachable", "host_unreachable", "connection_refused", "timed_out", "other"}

ResponseCodeNoDefault(error) ==    \* bug: an unforeseen error has no code
    CASE error = "network_unreachable" -> 3
      [] error \in {"host_unreachable", "host_not_found"} -> 4
      [] error = "connection_refused" -> 5
      [] error = "timed_out" -> 6
      [] OTHER -> 0

ResponseCode(error) ==
    CASE error = "network_unreachable" -> 3
      [] error \in {"host_unreachable", "host_not_found"} -> 4
      [] error = "connection_refused" -> 5
      [] error = "timed_out" -> 6
      [] OTHER -> 1

(* The completions for which a state overrides the empty handler; errors   *)
(* always have one.                                                        *)
Handles(s) ==
    CASE s = "auth_request" -> {"read_server"}
      [] s = "connection_request" -> {"read_server", "write_server"}
      [] s = "connection_established" -> {"connect", "write_server"}
      [] s = "ready_to_transfer_data" -> {"write_server"}
      [] s = "data_transfer_mode" ->
           {"read_server", "write_server", "read_client", "write_client"}
      [] OTHER -> {}

----
(* auth_request: the greeting is answered, and the session goes on to wait *)
(* for a request whatever the answer was.                                  *)
AuthRequestRead(id) ==
    /\ state[id] = "auth_request"
    /\ Completed(id, "read_server", "ok")
    /\ \E method \in {NoAuth, NotSupported} :
         wbuf' = [wbuf EXCEPT ![id]["server"] = Chunk("auth", method)]
    /\ Then(id, "read_server", "write_server")
    /\ state' = [state EXCEPT ![id] = "connection_request"]
    /\ UNCHANGED <<sock, rbuf, peers, transferred, listener>>

(* Bug: nothing reads the request.                                         *)
AuthReplyWrittenNoRead(id) ==
    /\ state[id] = "connection_request"
    /\ Completed(id, "write_server", "ok")
    /\ ops' = [ops EXCEPT ![id] = Retire(@, "write_server", "ok")]
    /\ UNCHANGED <<sock, buffers, peers, transferred, state, listener>>

(* connection_request: the answer is out, the request is read.             *)
AuthReplyWritten(id) ==
    /\ state[id] = "connection_request"
    /\ Completed(id, "write_server", "ok")
    /\ Then(id, "write_server", "read_server")
    /\ UNCHANGED <<sock, buffers, peers, transferred, state, listener>>

(* Bug: the local peer is read, to see it close, while the name resolves.  *)
RequestAcceptedReads(id) ==
    /\ state[id] = "connection_request"
    /\ Completed(id, "read_server", "ok")
    /\ ops' = [ops EXCEPT ![id] =
                 Issue(Issue(Retire(@, "read_server", "ok"), "resolve"), "read_server")]
    /\ state' = [state EXCEPT ![id] = "connection_established"]
    /\ UNCHANGED <<sock, buffers, peers, transferred, listener>>

(* A usable request: the client stream starts, that is, resolves.          *)
RequestAccepted(id) ==
    /\ state[id] = "connection_request"
    /\ Completed(id, "read_server", "ok")
    /\ Then(id, "read_server", "resolve")
    /\ state' = [state EXCEPT ![id] = "connection_established"]
    /\ UNCHANGED <<sock, buffers, peers, transferred, listener>>

(* A malformed request or remote address.                                  *)
RequestRejected(id) ==
    /\ state[id] = "connection_request"
    /\ Completed(id, "read_server", "ok")
    /\ Stop(id, "read_server", "ok")

(* Bug: the remote host is read before the reply is written.               *)
ConnectedReads(id) ==
    /\ state[id] = "connection_established"
    /\ Completed(id, "connect", "ok")
    /\ wbuf' = [wbuf EXCEPT ![id]["server"] = Chunk("reply", Succeeded)]
    /\ ops' = [ops EXCEPT ![id] =
                 Issue(Issue(Retire(@, "connect", "ok"), "write_server"), "read_client")]
    /\ state' = [state EXCEPT ![id] = "data_transfer_mode"]
    /\ UNCHANGED <<sock, rbuf, peers, transferred, listener>>

(* connection_established: the reply tells success.                        *)
Connected(id) ==
    /\ state[id] = "connection_established"
    /\ Completed(id, "connect", "ok")
    /\ wbuf' = [wbuf EXCEPT ![id]["server"] = Chunk("reply", Succeeded)]
    /\ Then(id, "connect", "write_server")
    /\ state' = [state EXCEPT ![id] = "ready_to_transfer_data"]
    /\ UNCHANGED <<sock, rbuf, peers, transferred, listener>>

(* The reply tells why there is no connection; the state stays, so that    *)
(* the completion of this write stops the session.                         *)
ConnectFailed(id) ==
    /\ state[id] = "connection_established"
    /\ \E op \in ClientOp :
         /\ Completed(id, op, "error")
         /\ \E error \in ErrorsOf(op) :
              wbuf' = [wbuf EXCEPT ![id]["server"] = Chunk("reply", ResponseCode(error))]
         /\ ops' = [ops EXCEPT ![id] = Issue(Retire(@, op, "error"), "write_server")]
    /\ UNCHANGED <<sock, rbuf, peers, transferred, state, listener>>

ErrorReplyWritten(id) ==
    /\ state[id] = "connection_established"
    /\ Completed(id, "write_server", "ok")
    /\ Stop(id, "write_server", "ok")

(* Bug: one side is read twice and the other never.                        *)
ReplyWrittenTwice(id) ==
    /\ state[id] = "ready_to_transfer_data"
    /\ Completed(id, "write_server", "ok")
    /\ ops' = [ops EXCEPT ![id] =
                 Issue(Issue(Retire(@, "write_server", "ok"), "read_server"), "read_server")]
    /\ state' = [state EXCEPT ![id] = "data_transfer_mode"]
    /\ UNCHANGED <<sock, buffers, peers, transferred, listener>>

(* ready_to_transfer_data: both directions start with a read.              *)
ReplyWritten(id) ==
    /\ state[id] = "ready_to_transfer_data"
    /\ Completed(id, "write_server", "ok")
    /\ ops' = [ops EXCEPT ![id] =
                 Issue(Issue(Retire(@, "write_server", "ok"), "read_server"), "read_client")]
    /\ state' = [state EXCEPT ![id] = "data_transfer_mode"]
    /\ UNCHANGED <<sock, buffers, peers, transferred, listener>>

(* data_transfer_mode: what was read on one side is counted and written to *)
(* the other; once it is written, the first side is read again.            *)
(* Bug: the next read does not wait for the write.                         *)
TransferReadEager(id, side) ==
    /\ state[id] = "data_transfer_mode"
    /\ Completed(id, ReadOp(side), "ok")
    /\ transferred' = [transferred EXCEPT ![id][Other(side)] = @ + 1]
    /\ wbuf' = [wbuf EXCEPT ![id][Other(side)] = rbuf[id][side]]
    /\ ops' = [ops EXCEPT ![id] =
                 Issue(Issue(Retire(@, ReadOp(side), "ok"), WriteOp(Other(side))), ReadOp(side))]
    /\ UNCHANGED <<sock, rbuf, peers, state, listener>>

(* Bug: the counters of the two directions are swapped.                    *)
TransferReadSwapped(id, side) ==
    /\ state[id] = "data_transfer_mode"
    /\ Completed(id, ReadOp(side), "ok")
    /\ transferred' = [transferred EXCEPT ![id][side] = @ + 1]
    /\ wbuf' = [wbuf EXCEPT ![id][Other(side)] = rbuf[id][side]]
    /\ Then(id, ReadOp(side), WriteOp(Other(side)))
    /\ UNCHANGED <<sock, rbuf, peers, state, listener>>

TransferRead(id, side) ==
    /\ state[id] = "data_transfer_mode"
    /\ Completed(id, ReadOp(side), "ok")
    /\ transferred' = [transferred EXCEPT ![id][Other(side)] = @ + 1]
    /\ wbuf' = [wbuf EXCEPT ![id][Other(side)] = rbuf[id][side]]
    /\ Then(id, ReadOp(side), WriteOp(Other(side)))
    /\ UNCHANGED <<sock, rbuf, peers, state, listener>>

(* Bug: the handler reads without looking its session up.                  *)
TransferWrittenUnchecked(id, side) ==
    /\ state[id] \in {"data_transfer_mode", "erased"}
    /\ Completed(id, WriteOp(side), "ok")
    /\ Then(id, WriteOp(side), ReadOp(Other(side)))
    /\ UNCHANGED <<sock, buffers, peers, transferred, state, listener>>

TransferWritten(id, side) ==
    /\ state[id] = "data_transfer_mode"
    /\ Completed(id, WriteOp(side), "ok")
    /\ Then(id, WriteOp(side), ReadOp(Other(side)))
    /\ UNCHANGED <<sock, buffers, peers, transferred, state, listener>>

----
(* Bug: that a failure reply cannot be written is logged and nothing else. *)
ServerErrorOfReplyLogged(id) ==
    /\ Live(id)
    /\ \E op \in ServerOp \ {"shutdown", "null_write"} :
         /\ Completed(id, op, "error")
         /\ IF state[id] # "connection_established" THEN Stop(id, op, "error")
            ELSE /\ ops' = [ops EXCEPT ![id] = Retire(@, op, "error")]
                 /\ UNCHANGED <<sock, buffers, peers, transferred, state, listener>>

(* socks5_state::handle_server_error and handle_client_error.              *)
ServerError(id) ==
    /\ Live(id)
    /\ \E op \in ServerOp \ {"shutdown", "null_write"} :
         /\ Completed(id, op, "error")
         /\ Stop(id, op, "error")

ClientError(id) ==
    /\ Live(id)
    /\ state[id] # "connection_established"
    /\ \E op \in ClientOp :
         /\ Completed(id, op, "error")
         /\ Stop(id, op, "error")

Dispatch(id) ==
    \/ Handshaken(id) \/ Resolved(id) \/ TlsClosed(id)
    \/ AuthRequestRead(id) \/ AuthReplyWritten(id)
    \/ RequestAccepted(id) \/ RequestRejected(id)
    \/ Connected(id) \/ ConnectFailed(id) \/ ErrorReplyWritten(id) \/ ReplyWritten(id)
    \/ \E side \in Side : TransferRead(id, side) \/ TransferWritten(id, side)
    \/ ServerError(id) \/ ClientError(id)
    \/ Dropped(id, Handles(state[id]))

Next ==
    \/ \E id \in Ids : Kernel(id) \/ Dispatch(id)
    \/ Accept("auth_request") \/ AcceptError \/ Signal

Spec == Init /\ [][Next]_vars

(* The io_context runs every queued handler, and the kernel completes what *)
(* needs no peer.  Nothing is assumed of a read or a write on an open      *)
(* socket, nor of a handshake: a peer may stay silent for ever.            *)
FairSpec ==
    /\ Spec
    /\ \A id \in Ids : WF_vars(Dispatch(id))
    /\ \A id \in Ids, op \in Op : WF_vars(KernelFinishes(id, op))

----
TypeOK ==
    /\ ops \in [Ids -> [Op -> [Phase -> Nat]]]
    /\ sock \in [Ids -> [Side -> SockState]]
    /\ rbuf \in [Ids -> [Side -> Chunks]]
    /\ wbuf \in [Ids -> [Side -> Chunks]]
    /\ taken \in [Ids -> [Side -> Nat]]
    /\ out \in [Ids -> [Side -> Seq(Chunks)]]
    /\ transferred \in [Ids -> [Side -> Nat]]
    /\ state \in [Ids -> Sessions \union {"absent", "erased"}]
    /\ stream_id \in Nat \ {0}
    /\ running \in BOOLEAN

(* What a live session waits for: in the negotiation exactly one operation,*)
(* the one its state handles, so that it never has nothing left to wake it *)
(* up; in data_transfer_mode exactly one per direction, a read on one side *)
(* or the write of what was read on the other.                             *)
Awaits(s) ==
    CASE s = "auth_request" -> {"handshake", "read_server"}
      [] s = "connection_request" -> {"read_server", "write_server"}
      [] s = "connection_established" -> {"resolve", "connect", "write_server"}
      [] s = "ready_to_transfer_data" -> {"write_server"}

NeverIdle ==
    \A id \in Ids : Live(id) =>
        IF state[id] = "data_transfer_mode" THEN Pumping(ops[id])
        ELSE Only(ops[id], Awaits(state[id]))

(* The remote host is sent what the local peer sent after its greeting and *)
(* its request, every message once and in order.                           *)
RemoteInOrder ==
    \A id \in Ids : \A i \in DOMAIN out[id]["client"] :
        out[id]["client"][i] = Chunk("server", i + 2)

(* The local peer is sent one answer to its greeting, one reply, and then, *)
(* if the reply tells success, what the remote host sent, in order.        *)
LocalInOrder ==
    \A id \in Ids : \A i \in DOMAIN out[id]["server"] :
        LET chunk == out[id]["server"][i]
        IN  CASE i = 1 -> chunk.kind = "auth"
              [] i = 2 -> chunk.kind = "reply"
              [] OTHER -> /\ chunk = Chunk("client", i - 2)
                          /\ out[id]["server"][2].n = Succeeded

(* The reply tells the truth: success if and only if there is a connection *)
(* to the remote host, and no data ever crosses a failed session.          *)
ReplyTruthful ==
    \A id \in Ids : Len(out[id]["server"]) >= 2 =>
        IF out[id]["server"][2].n = Succeeded
          THEN sock[id]["client"] # "none"
          ELSE sock[id]["client"] = "none" /\ out[id]["client"] = <<>>

(* When a peer of a relaying session closes, all that it sent has already  *)
(* been written to the other: stopping at once loses nothing it had sent.  *)
NothingLostOnEof ==
    \A id \in Ids : state[id] = "data_transfer_mode" =>
        /\ ops[id]["read_client"]["error"] > 0 =>
              Len(out[id]["server"]) = 2 + taken[id]["client"]
        /\ ops[id]["read_server"]["error"] > 0 =>
              Len(out[id]["client"]) + 2 = taken[id]["server"]

(* The byte counters logged at the end count at the read: they exceed what *)
(* was delivered by exactly the write that is still outstanding.           *)
Accounting ==
    \A id \in Ids : state[id] = "data_transfer_mode" =>
        /\ transferred[id]["client"] = Len(out[id]["client"])
             + ops[id]["write_client"]["pending"] + ops[id]["write_client"]["error"]
        /\ transferred[id]["server"] = Len(out[id]["server"]) - 2
             + ops[id]["write_server"]["pending"] + ops[id]["write_server"]["error"]

(* A peer whose greeting was refused is not served: the log says that its  *)
(* version or its authentication is not supported, the answer is 0xff.     *)
RejectedNotServed ==
    \A id \in Ids :
        out[id]["server"] # <<>> /\ out[id]["server"][1].n = NotSupported =>
            state[id] \in {"connection_request", "erased"}

----
(* A stopped session releases its streams: every operation that keeps one  *)
(* alive completes, although do_stop only shuts a TCP socket down and a    *)
(* TLS peer need not answer the closing handshake.                         *)
StreamsReleased ==
    \A id \in Ids :
        state[id] = "erased" ~> (~running \/ \A op \in Op : Out(ops[id], op) = 0)

(* A request is never left without an answer: no timer guards a session    *)
(* that resolves and connects, and it always gets to write its reply.      *)
RequestAnswered ==
    \A id \in Ids :
        state[id] = "connection_established" ~>
            (~running \/ Out(ops[id], "write_server") > 0 \/ ~Live(id))

(* An error on a stream ends its session, whatever its state.  Only that   *)
(* of a resolve or a connect is answered first (RequestAnswered), and the  *)
(* session ends once that answer is written, as it does when the write     *)
(* fails; a peer that takes no answer may keep the write waiting for ever. *)
Ending(id) ==
    \/ \E op \in Op \ {"resolve", "connect"} : ops[id][op]["error"] > 0
    \/ state[id] = "connection_established" /\ ops[id]["write_server"]["ok"] > 0

ErrorEnds ==
    \A id \in Ids : (Live(id) /\ Ending(id)) ~> (~running \/ state[id] = "erased")
====
