---- MODULE Transport ----
(***************************************************************************)
(* The streams, the accept loop and the session table of amgi_proxy.       *)
(*                                                                         *)
(* A session is a pair of streams with one id: the server stream (the      *)
(* accepted local peer, tcp_server_stream or tls_server_stream) and the    *)
(* client stream (the remote host, tcp_client_stream).  Everything runs in *)
(* one io_context thread: a stream starts an asynchronous operation, the   *)
(* kernel completes it some time later, and the io_context dispatches its  *)
(* handler some time after that.  The handlers of the two protocols are in *)
(* Socks5 and Http, which extend this module; here are what they share and *)
(* the steps of the kernel and of the peers (external to the repository).  *)
(*                                                                         *)
(* Each stream has ONE read buffer and ONE write buffer.  A handler copies *)
(* the read buffer when it is dispatched, the kernel sends the write       *)
(* buffer when it completes the write: outstanding operations are counted, *)
(* so that two of them on one buffer are a state an invariant can reject.  *)
(***************************************************************************)
EXTENDS Integers, Sequences

CONSTANTS MaxStreams,   \* ids given out: bounds the accept loop
          MaxReads,     \* messages a peer sends on one connection
          Tls           \* server streams are tls_server_streams

ASSUME MaxStreamsAssumption == MaxStreams \in Nat \ {0}
ASSUME MaxReadsAssumption == MaxReads \in Nat
ASSUME TlsAssumption == Tls \in BOOLEAN

VARIABLES
    ops,          \* ops[id][op][phase]: operations of that kind in that phase
    sock,         \* sock[id][side]: the socket of each stream
    rbuf, wbuf,   \* rbuf[id][side], wbuf[id][side]: read_buffer_, write_buffer_
    taken,        \* taken[id][side]: messages of that peer the kernel delivered
    out,          \* out[id][side]: what that peer was sent, in order
    transferred,  \* transferred[id][side]: what was counted as sent to that peer
    state,        \* state[id]: the entry of sessions_ and the state of its session
    stream_id,    \* the id of the stream waiting in async_accept
    running       \* ctx_ has not been stopped

buffers == <<rbuf, wbuf>>
peers == <<taken, out>>
listener == <<stream_id, running>>
vars == <<ops, sock, rbuf, wbuf, taken, out, transferred, state, stream_id, running>>

----
Ids == 1 .. MaxStreams
Side == {"server", "client"}
Phase == {"pending", "ok", "error"}
ServerOp == {"handshake", "read_server", "write_server", "shutdown", "null_write"}
ClientOp == {"resolve", "connect", "read_client", "write_client"}
Op == ServerOp \union ClientOp

SideOf(op) == IF op \in ServerOp THEN "server" ELSE "client"
ReadOp(side) == IF side = "server" THEN "read_server" ELSE "read_client"
WriteOp(side) == IF side = "server" THEN "write_server" ELSE "write_client"

Other(side) == IF side = "server" THEN "client" ELSE "server"

(* A chunk is what one read returns or one write sends: the n-th message   *)
(* of a peer, a greeting reply with its method, a reply with its code, an  *)
(* HTTP answer with its status.                                            *)
ChunkKind == {"none", "server", "client", "auth", "reply", "status"}
Chunk(k, n) == [kind |-> k, n |-> n]
Chunks == [kind : ChunkKind, n : Nat]
NoChunk == Chunk("none", 0)

Live(id) == state[id] \notin {"absent", "erased"}
SockState == {"none", "open", "shut", "closed"}

----
(* The operations o of one session: an operation is issued, the kernel     *)
(* settles it, its handler retires it.                                     *)
Idle == [op \in Op |-> [p \in Phase |-> 0]]
Issue(o, op) == [o EXCEPT ![op]["pending"] = @ + 1]
Settle(o, op, p) == [o EXCEPT ![op]["pending"] = @ - 1, ![op][p] = @ + 1]
RetireAgain(o, op, p) == [o EXCEPT ![op][p] = @ - 1, ![op]["pending"] = @ - 1]  \* bug
Retire(o, op, p) == [o EXCEPT ![op][p] = @ - 1]
Out(o, op) == o[op]["pending"] + o[op]["ok"] + o[op]["error"]

(* The handler of (op, "ok") starts one next operation.                    *)
Then(id, op, next) == ops' = [ops EXCEPT ![id] = Issue(Retire(@, op, "ok"), next)]

Pending(id, op) == running /\ ops[id][op]["pending"] > 0
Completed(id, op, p) == running /\ ops[id][op][p] > 0

(* do_stop of both streams, client first: a TCP socket is shut down in     *)
(* both directions and stays open, a TLS stream starts its two closing     *)
(* operations unless its socket is closed already.                         *)
StopOps(o, s) ==
    IF Tls /\ s["server"] # "closed" THEN Issue(Issue(o, "shutdown"), "null_write") ELSE o
StopSockLeftOpen(s) == s    \* bug: nothing is shut down
StopSock(s) ==
    [side \in Side |-> IF s[side] = "open" /\ ~(Tls /\ side = "server")
                         THEN "shut" ELSE s[side]]

----
(* External: the kernel and the peers.                                     *)

(* The peer's next message completes a read into the read buffer.  A       *)
(* socket that was only shut down still returns what arrived before.       *)
Receive(id, side) ==
    /\ Pending(id, ReadOp(side))
    /\ sock[id][side] \in {"open", "shut"}
    /\ taken[id][side] < MaxReads
    /\ taken' = [taken EXCEPT ![id][side] = @ + 1]
    /\ rbuf' = [rbuf EXCEPT ![id][side] = Chunk(side, taken[id][side] + 1)]
    /\ ops' = [ops EXCEPT ![id] = Settle(@, ReadOp(side), "ok")]
    /\ UNCHANGED <<sock, wbuf, out, transferred, state, listener>>

(* The write buffer, as it is now, has been sent.                          *)
Send(id, side) ==
    /\ Pending(id, WriteOp(side))
    /\ sock[id][side] = "open"
    /\ out' = [out EXCEPT ![id][side] = Append(@, wbuf[id][side])]
    /\ ops' = [ops EXCEPT ![id] = Settle(@, WriteOp(side), "ok")]
    /\ UNCHANGED <<sock, buffers, taken, transferred, state, listener>>

(* The other operations succeed; a connect opens the client socket.        *)
Succeed(id, op) ==
    /\ op \in {"handshake", "resolve", "connect", "shutdown", "null_write"}
    /\ Pending(id, op)
    /\ op \in {"handshake", "shutdown"} => sock[id]["server"] = "open"
    /\ ops' = [ops EXCEPT ![id] = Settle(@, op, "ok")]
    /\ sock' = IF op = "connect" THEN [sock EXCEPT ![id]["client"] = "open"] ELSE sock
    /\ UNCHANGED <<buffers, peers, transferred, state, listener>>

(* End of file, reset, refusal, timeout or cancellation; only a write of   *)
(* no bytes (null_write) cannot fail.                                      *)
Fail(id, op) ==
    /\ op # "null_write"
    /\ Pending(id, op)
    /\ ops' = [ops EXCEPT ![id] = Settle(@, op, "error")]
    /\ UNCHANGED <<sock, buffers, peers, transferred, state, listener>>

Kernel(id) ==
    \/ \E side \in Side : Receive(id, side) \/ Send(id, side)
    \/ \E op \in Op : Succeed(id, op) \/ Fail(id, op)

(* What the kernel completes without help from a peer: names resolve or    *)
(* time out, a connect times out, an empty write is done, and nothing      *)
(* stays pending on a socket that was shut down or closed.                 *)
Unaided(id, op) ==
    \/ op \in {"resolve", "connect", "null_write"}
    \/ sock[id][SideOf(op)] \in {"shut", "closed"}
KernelFinishes(id, op) == Unaided(id, op) /\ (Succeed(id, op) \/ Fail(id, op))

----
(* Handlers of the streams that do not reach the session.                  *)

(* Bug: the handshake is done and nothing is read.                         *)
HandshakenNoRead(id) ==
    /\ Completed(id, "handshake", "ok")
    /\ ops' = [ops EXCEPT ![id] = Retire(@, "handshake", "ok")]
    /\ UNCHANGED <<sock, buffers, peers, transferred, state, listener>>

(* tls_server_stream::do_handshake: reads, whether or not a session exists.*)
Handshaken(id) ==
    /\ Completed(id, "handshake", "ok")
    /\ Then(id, "handshake", "read_server")
    /\ UNCHANGED <<sock, buffers, peers, transferred, state, listener>>

(* Bug: the resolved endpoints are not connected to.                       *)
ResolvedNoConnect(id) ==
    /\ Completed(id, "resolve", "ok")
    /\ ops' = [ops EXCEPT ![id] = Retire(@, "resolve", "ok")]
    /\ UNCHANGED <<sock, buffers, peers, transferred, state, listener>>

(* tcp_client_stream::do_start: connects to the resolved endpoints.        *)
Resolved(id) ==
    /\ Completed(id, "resolve", "ok")
    /\ Then(id, "resolve", "connect")
    /\ UNCHANGED <<sock, buffers, peers, transferred, state, listener>>

(* Bug: the socket is left to the peer's answer.                           *)
TlsClosedLeftOpen(id) ==
    /\ \E op \in {"shutdown", "null_write"}, p \in {"ok", "error"} :
         /\ Completed(id, op, p)
         /\ ops' = [ops EXCEPT ![id] = Retire(@, op, p)]
    /\ UNCHANGED <<sock, buffers, peers, transferred, state, listener>>

(* tls_server_stream::do_stop: either closing operation closes the socket. *)
(* An error is reported first; CloseOnlyErased, checked here and proved in *)
(* Socks5Proofs, says that the manager then finds no session to stop.      *)
TlsClosed(id) ==
    /\ \E op \in {"shutdown", "null_write"}, p \in {"ok", "error"} :
         /\ Completed(id, op, p)
         /\ ops' = [ops EXCEPT ![id] = Retire(@, op, p)]
    /\ sock' = [sock EXCEPT ![id]["server"] = "closed"]
    /\ UNCHANGED <<buffers, peers, transferred, state, listener>>

(* A completion that reaches no handler: the manager finds no session with *)
(* the id of the stream, or the state of the session handles none such.    *)
Dropped(id, handled) ==
    /\ \E op \in Op \ {"shutdown", "null_write"}, p \in {"ok", "error"} :
         /\ p = "ok" => op \notin handled \union {"handshake", "resolve"}
         /\ p = "error" => ~Live(id)
         /\ Completed(id, op, p)
         /\ ops' = [ops EXCEPT ![id] = Retire(@, op, p)]
    /\ UNCHANGED <<sock, buffers, peers, transferred, state, listener>>

----
(* The manager and the server.                                             *)

(* Bug: the streams are stopped and the entry stays.                       *)
StopKeepsEntry(id, op, p) ==
    /\ ops' = [ops EXCEPT ![id] = StopOps(Retire(@, op, p), sock[id])]
    /\ sock' = [sock EXCEPT ![id] = StopSock(@)]
    /\ UNCHANGED <<buffers, peers, transferred, state, listener>>

(* stop(id), called in the handler of (op, p): both streams are stopped,   *)
(* then the entry is erased.                                               *)
Stop(id, op, p) ==
    /\ ops' = [ops EXCEPT ![id] = StopOps(Retire(@, op, p), sock[id])]
    /\ sock' = [sock EXCEPT ![id] = StopSock(@)]
    /\ state' = [state EXCEPT ![id] = "erased"]
    /\ UNCHANGED <<buffers, peers, transferred, listener>>

(* Bug: the next stream gets the same id.                                  *)
AcceptSameId(first) ==
    /\ running
    /\ stream_id \in Ids
    /\ ops' = [ops EXCEPT ![stream_id] =
                 Issue(@, IF Tls THEN "handshake" ELSE "read_server")]
    /\ sock' = [sock EXCEPT ![stream_id]["server"] = "open"]
    /\ state' = [state EXCEPT ![stream_id] = first]
    /\ UNCHANGED <<buffers, peers, transferred, listener>>

(* start_accept's handler without an error: on_accept starts the stream,   *)
(* then inserts the session, and the loop accepts with the next id.        *)
Accept(first) ==
    /\ running
    /\ stream_id \in Ids
    /\ ops' = [ops EXCEPT ![stream_id] =
                 Issue(@, IF Tls THEN "handshake" ELSE "read_server")]
    /\ sock' = [sock EXCEPT ![stream_id]["server"] = "open"]
    /\ state' = [state EXCEPT ![stream_id] = first]
    /\ stream_id' = stream_id + 1
    /\ UNCHANGED <<buffers, peers, transferred, running>>

(* The same handler with an error: that id is never used.                  *)
AcceptError ==
    /\ running
    /\ stream_id \in Ids
    /\ stream_id' = stream_id + 1
    /\ UNCHANGED <<ops, sock, buffers, peers, transferred, state, running>>

(* SIGINT or SIGTERM: ctx_.stop(), no handler runs any more.               *)
Signal ==
    /\ running
    /\ running' = FALSE
    /\ UNCHANGED <<ops, sock, buffers, peers, transferred, state, stream_id>>

Init ==
    /\ ops = [id \in Ids |-> Idle]
    /\ sock = [id \in Ids |-> [side \in Side |-> "none"]]
    /\ rbuf = [id \in Ids |-> [side \in Side |-> NoChunk]]
    /\ wbuf = [id \in Ids |-> [side \in Side |-> NoChunk]]
    /\ taken = [id \in Ids |-> [side \in Side |-> 0]]
    /\ out = [id \in Ids |-> [side \in Side |-> <<>>]]
    /\ transferred = [id \in Ids |-> [side \in Side |-> 0]]
    /\ state = [id \in Ids |-> "absent"]
    /\ stream_id = 1
    /\ running = TRUE

----
(* What a live session waits for: exactly one operation of S; or exactly   *)
(* one per direction, a read on one side or the write of it to the other.  *)
Only(o, S) ==
    /\ \E op \in S : Out(o, op) = 1 /\ \A other \in S \ {op} : Out(o, other) = 0
    /\ \A op \in Op \ S : Out(o, op) = 0

Pumping(o) ==
    /\ Out(o, "read_server") + Out(o, "write_client") = 1
    /\ Out(o, "read_client") + Out(o, "write_server") = 1
    /\ \A op \in {"handshake", "resolve", "connect", "shutdown", "null_write"} : Out(o, op) = 0

(* No two reads and no two writes are ever outstanding on one stream, so   *)
(* read_buffer_ and write_buffer_ (one of each per stream) are never       *)
(* overwritten between a completion and its use: tcp_server_stream.cpp     *)
(* do_read and do_write and their client and TLS counterparts.             *)
NoOverlap ==
    \A id \in Ids, side \in Side :
        /\ Out(ops[id], ReadOp(side)) <= 1
        /\ Out(ops[id], WriteOp(side)) <= 1

(* The closing handshake of a TLS stream runs only for an erased session:  *)
(* otherwise its handlers would report to, and close, a live one.          *)
CloseOnlyErased ==
    \A id \in Ids : \A op \in {"shutdown", "null_write"} :
        Out(ops[id], op) > 0 => state[id] = "erased"

(* The id of the stream waiting in async_accept, and every later one, is   *)
(* known to nobody yet: no entry of sessions_, no operation, no socket.    *)
(* A completion of an old stream can then never reach a new session.       *)
FreshId ==
    \A id \in Ids : id >= stream_id =>
        state[id] = "absent" /\ ops[id] = Idle /\ \A side \in Side : sock[id][side] = "none"

(* Resolve and connect are never cancelled by do_stop, so a session must   *)
(* not be stopped while one is outstanding: the connection would be opened *)
(* for nobody.                                                             *)
ConnectOnlyLive ==
    \A id \in Ids : \A op \in {"resolve", "connect"} :
        Out(ops[id], op) > 0 => Live(id)

(* Once erased, a session never returns under its id, and the handlers     *)
(* that were still queued start nothing new on its streams.                *)
QuietAfterErase ==
    [][\A id \in Ids : state[id] = "erased" =>
         /\ state'[id] = "erased"
         /\ \A op \in Op : Out(ops'[id], op) <= Out(ops[id], op)]_vars

====
