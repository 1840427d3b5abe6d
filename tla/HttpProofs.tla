---- MODULE HttpProofs ----
(***************************************************************************)
(* Theorems about Http, for any number of streams and messages, over TCP   *)
(* and over TLS: what a session waits for, and what its peers are sent;    *)
(* last, that a session implements Relay.                                  *)
(***************************************************************************)
EXTENDS HttpRelay, TransportProofs

HttpVars == response \in [Ids -> Chunks] /\ state \in [Ids -> Sessions \union {"absent", "erased"}]

(* Every variable keeps its type.                                          *)
LEMMA Typed == TypeOK <=> StreamsTyped /\ HttpVars
BY DEF TypeOK, StreamsTyped, HttpVars, OpsType

LEMMA TypedNext == StreamsTyped' /\ HttpVars' => TypeOK'
BY DEF TypeOK, StreamsTyped, HttpVars, OpsType

LEMMA StatusChunks == HttpDone \in Chunks /\ HttpError500 \in Chunks /\ NoChunk \in Chunks
BY ChunkType DEF HttpDone, HttpError500, NoChunk, ChunkKind

LEMMA InitType == HttpInit => TypeOK
<1> SUFFICES ASSUME HttpInit PROVE TypeOK
  OBVIOUS
<1>1. StreamsTyped
  BY InitTyped DEF HttpInit
<1>2. HttpVars
  BY StatusChunks DEF HttpInit, Init, HttpVars
<1> QED
  BY <1>1, <1>2, Typed

LEMMA ReadsType ==
    ASSUME StreamsTyped, NEW id \in Ids, NEW a \in Op, NEW b \in Op, NEW c \in Op,
           Completed(id, a, "ok"),
           ops' = [ops EXCEPT ![id] = Issue(Issue(Retire(@, a, "ok"), b), c)]
    PROVE  ops' \in [Ids -> OpsType]
<1>1. ops[id] \in OpsType /\ ops[id][a]["ok"] > 0
  BY DEF StreamsTyped, Completed
<1>2. Issue(Issue(Retire(ops[id], a, "ok"), b), c) \in OpsType
  BY <1>1, ThenType, IssueOut
<1> QED
  BY <1>2 DEF StreamsTyped

LEMMA RefusedType ==
    ASSUME StreamsTyped, NEW id \in Ids, RequestRefused(id)
    PROVE  StreamsTyped'
<1> USE OpNames
<1> DEFINE o == Issue(Retire(ops[id], "read_server", "ok"), "write_server")
<1>1. ops[id] \in OpsType /\ ops[id]["read_server"]["ok"] > 0
  BY DEF StreamsTyped, Completed, RequestRefused
<1>2. o \in OpsType
  BY <1>1, ThenType
<1>3. o["write_server"]["pending"] > 0
  <2>1. Retire(ops[id], "read_server", "ok") \in OpsType
    BY <1>1, RetireOut
  <2>2. Retire(ops[id], "read_server", "ok")["write_server"]["pending"] \in Nat
    BY <2>1, PhaseNat
  <2>3. o["write_server"]["pending"]
        = Retire(ops[id], "read_server", "ok")["write_server"]["pending"] + 1
    BY <2>1, IssueAt
  <2> QED
    BY <2>2, <2>3
<1>4. PICK sent \in BOOLEAN : Refusal(id, sent)
  BY DEF RequestRefused
<1> HIDE DEF o
<1>5. Settle(o, "write_server", "ok") \in OpsType
  BY <1>2, <1>3, SettleOut
<1> DEFINE y == IF sent THEN Settle(o, "write_server", "ok") ELSE o
<1>6. StopOps(y, sock[id]) \in OpsType
  BY <1>2, <1>5, StopOpsType
<1>7. ops' \in [Ids -> OpsType]
  BY <1>4, <1>6 DEF Refusal, o, StreamsTyped
<1>8. out' \in [Ids -> [Side -> Seq(Chunks)]]
  <2>1. Append(out[id]["server"], HttpError500) \in Seq(Chunks)
    BY StatusChunks DEF StreamsTyped
  <2> QED
    BY <1>4, <2>1 DEF Refusal, StreamsTyped
<1>9. StopSock(sock[id]) \in [Side -> SockState]
  BY DEF StreamsTyped, StopSock, SockState
<1> QED
  BY <1>7, <1>8, <1>9, StatusChunks DEF RequestRefused, StreamsTyped, listener

LEMMA DispatchType ==
    ASSUME TypeOK, NEW id \in Ids, Dispatch(id)
    PROVE  TypeOK'
<1> USE OpNames
<1>0. StreamsTyped /\ HttpVars
  BY Typed
<1>1. CASE Stream(id)
  <2>1. StreamsTyped' /\ state' = state
    BY <1>0, <1>1, StreamTyped DEF Stream
  <2> QED
    BY <1>1, <2>1, <1>0, TypedNext DEF Stream, HttpVars
<1>2. CASE RequestAccepted(id)
  <2>1. ops' \in [Ids -> OpsType]
    BY <1>0, <1>2, TypedThen DEF RequestAccepted, Then
  <2>2. StreamsTyped'
    BY <1>0, <1>2, <2>1 DEF StreamsTyped, RequestAccepted, listener, buffers, peers
  <2>3. HttpVars'
    <3>1. rbuf[id]["server"] \in Chunks
      BY <1>0 DEF StreamsTyped
    <3> QED
      BY <1>0, <1>2, <3>1, StatusChunks DEF HttpVars, RequestAccepted, Sessions
  <2> QED
    BY <2>2, <2>3, TypedNext
<1>3. CASE RequestRefused(id)
  <2>1. HttpVars'
    BY <1>0, <1>3 DEF HttpVars, RequestRefused
  <2> QED
    BY <1>0, <1>3, <2>1, RefusedType, TypedNext
<1>4. CASE Connected(id)
  <2>1. PICK to \in Side : /\ wbuf' = [wbuf EXCEPT ![id][to] = response[id]]
                           /\ Then(id, "connect", WriteOp(to))
    BY <1>4 DEF Connected
  <2>2. ops' \in [Ids -> OpsType]
    BY <1>0, <1>4, <2>1, TypedThen DEF Connected, Then
  <2>3. wbuf' \in [Ids -> [Side -> Chunks]]
    BY <1>0, <2>1 DEF StreamsTyped, HttpVars
  <2>4. StreamsTyped'
    BY <1>0, <1>4, <2>2, <2>3 DEF StreamsTyped, Connected, listener, peers
  <2>5. HttpVars'
    BY <1>0, <1>4 DEF HttpVars, Connected, Sessions
  <2> QED
    BY <2>4, <2>5, TypedNext
<1>5. CASE AnswerWritten(id) \/ RequestWritten(id)
  <2>1. ops' \in [Ids -> OpsType]
    BY <1>0, <1>5, ReadsType DEF AnswerWritten, RequestWritten, StartReads
  <2>2. StreamsTyped' /\ HttpVars'
    BY <1>0, <1>5, <2>1
    DEF StreamsTyped, HttpVars, AnswerWritten, RequestWritten, StartReads, listener, buffers,
        peers, Sessions
  <2> QED
    BY <2>2, TypedNext
<1>6. ASSUME NEW side \in Side, TransferRead(id, side)
      PROVE  TypeOK'
  <2>1. ops' \in [Ids -> OpsType]
    BY <1>0, <1>6, TypedThen DEF TransferRead, Then
  <2>2. wbuf' \in [Ids -> [Side -> Chunks]]
    <3>1. rbuf[id][side] \in Chunks /\ Other(side) \in Side
      BY <1>0 DEF StreamsTyped
    <3> QED
      BY <1>0, <1>6, <3>1 DEF StreamsTyped, TransferRead
  <2>3. transferred' \in [Ids -> [Side -> Nat]]
    <3>1. transferred[id][Other(side)] + 1 \in Nat /\ Other(side) \in Side
      BY <1>0 DEF StreamsTyped
    <3> QED
      BY <1>0, <1>6, <3>1 DEF StreamsTyped, TransferRead
  <2>4. StreamsTyped' /\ HttpVars'
    BY <1>0, <1>6, <2>1, <2>2, <2>3 DEF StreamsTyped, HttpVars, TransferRead, listener, peers
  <2> QED
    BY <2>4, TypedNext
<1>7. ASSUME NEW side \in Side, TransferWritten(id, side)
      PROVE  TypeOK'
  <2>1. ops' \in [Ids -> OpsType]
    BY <1>0, <1>7, TypedThen DEF TransferWritten, Then
  <2>2. StreamsTyped' /\ HttpVars'
    BY <1>0, <1>7, <2>1 DEF StreamsTyped, HttpVars, TransferWritten, listener, buffers, peers
  <2> QED
    BY <2>2, TypedNext
<1>8. CASE StreamError(id)
  <2>1. StreamsTyped' /\ state' = [state EXCEPT ![id] = "erased"] /\ response' = response
    BY <1>0, <1>8, StopTyped DEF StreamError
  <2> QED
    BY <1>0, <2>1, TypedNext DEF HttpVars
<1> QED
  BY <1>1, <1>2, <1>3, <1>4, <1>5, <1>6, <1>7, <1>8 DEF Dispatch

LEMMA NextType == TypeOK /\ [Next]_httpVars => TypeOK'
<1> SUFFICES ASSUME TypeOK, [Next]_httpVars PROVE TypeOK'
  OBVIOUS
<1>0. StreamsTyped /\ HttpVars
  BY Typed
<1>1. ASSUME NEW id \in Ids, KernelStep(id)
      PROVE  TypeOK'
  BY <1>0, <1>1, KernelTyped, TypedNext DEF KernelStep, HttpVars
<1>2. CASE Accepted \/ AcceptFailed \/ Signalled
  <2>1. Accept("wait_request") \/ AcceptError \/ Signal
    BY <1>2 DEF Accepted, AcceptFailed, Signalled
  <2>2. /\ StreamsTyped' /\ response' = response
        /\ state' = state \/ state' = [state EXCEPT ![stream_id] = "wait_request"]
    BY <1>0, <1>2, <2>1, AcceptTyped DEF Accepted, AcceptFailed, Signalled
  <2> QED
    BY <1>0, <2>2, TypedNext DEF HttpVars, Sessions
<1>3. CASE UNCHANGED httpVars
  BY <1>3 DEF TypeOK, vars, httpVars
<1> QED
  BY <1>1, <1>2, <1>3, DispatchType DEF Next

(* Every reachable state is well typed; in particular no operation is ever *)
(* retired that was not outstanding (its counts never fall below zero).    *)
THEOREM TypeCorrect == Spec => []TypeOK
BY InitType, NextType, PTL DEF Spec

----
(* The inductive invariant.  Of one session: s is its state, h its         *)
(* response, o its operations, k its sockets, r and w its buffers, t and u *)
(* what its peers handed in and were sent.                                 *)
Forwarded == Chunk("server", 1)

(* The response tells what became of the first request: none was usable, a *)
(* CONNECT, or a request to forward.                                       *)
Chosen(s, h) ==
    /\ h \in {NoChunk, HttpDone, Forwarded}
    /\ s \in {"absent", "wait_request"} => h = NoChunk
    /\ s \notin {"absent", "wait_request", "erased"} => h # NoChunk

(* What may be outstanding: how many operations of each kind, hs for the   *)
(* handshake, rs, ws, rc and wc for the reads and writes of the two        *)
(* streams, re and co for resolve and connect.  A forwarded request leaves *)
(* two operations of the local direction under way and none of the other,  *)
(* which is why nothing here calls it a relay.                             *)
Counts(s, h, hs, rs, ws, re, co, rc, wc) ==
    /\ s # "connection_established" => re = 0 /\ co = 0
    /\ s # "wait_request" => hs = 0
    /\ s = "absent" => rs = 0 /\ ws = 0 /\ rc = 0 /\ wc = 0
    /\ s = "wait_request" => hs + rs = 1 /\ ws = 0 /\ rc = 0 /\ wc = 0
    /\ s = "connection_established" => re + co = 1 /\ rs = 0 /\ ws = 0 /\ rc = 0 /\ wc = 0
    /\ s = "ready_to_transfer_data" =>
         /\ ws = (IF h = HttpDone THEN 1 ELSE 0) /\ wc = (IF h = HttpDone THEN 0 ELSE 1)
         /\ rs = 0 /\ rc = 0
    /\ s = "data_transfer_mode" =>
         rs + wc = (IF h = HttpDone THEN 1 ELSE 2) /\ rc + ws = (IF h = HttpDone THEN 1 ELSE 0)
    /\ s = "erased" =>
         /\ h = HttpDone => rs + wc <= 1 /\ rc + ws <= 1
         /\ h = NoChunk => ws <= 1 /\ rs = 0 /\ wc = 0 /\ rc = 0
         /\ h = Forwarded => rc = 0 /\ ws = 0

Shape(s, h, o) ==
    /\ Counts(s, h, Out(o, "handshake"), Out(o, "read_server"), Out(o, "write_server"),
              Out(o, "resolve"), Out(o, "connect"), Out(o, "read_client"), Out(o, "write_client"))
    /\ s # "erased" => Out(o, "shutdown") = 0 /\ Out(o, "null_write") = 0

(* An operation has not, or has, done what it was started for.             *)
Undone(o, op) == o[op]["pending"] > 0 \/ o[op]["error"] > 0
Done(o, op) == o[op]["ok"] > 0

(* A read buffer holds the last message read.                              *)
Recent(r, t) ==
    \A side \in Side : t[side] > 0 => r[side] = Chunk(side, t[side])

(* The client socket was opened before anything was sent on it.            *)
Reached(s, o, k, u) ==
    \/ u["client"] # <<>> \/ o["write_client"]["pending"] > 0 \/ Done(o, "connect")
    \/ s \in {"ready_to_transfer_data", "data_transfer_mode"}
    => k["client"] # "none"

(* What the local peer of a tunnel is sent: the 200, then messages.        *)
Line(n) == IF n = 0 THEN HttpDone ELSE Chunk("client", n)

(* Where the messages of a tunnel are: n were taken from one peer, its     *)
(* request included, l were sent to the other, and the difference is what  *)
(* the session holds between a read that is done and a write that is not.  *)
ToRemote(o, n, l) ==
    /\ Undone(o, "read_server") \/ Done(o, "write_client") => n = l + 1
    /\ Done(o, "read_server") \/ Undone(o, "write_client") => n = l + 2

(* The same of the other direction, where m counts the answer too.         *)
ToLocal(o, n, m) ==
    /\ Undone(o, "read_client") \/ Done(o, "write_server") => m = n + 1
    /\ Done(o, "read_client") \/ Undone(o, "write_server") => m = n
    /\ Done(o, "read_client") => m >= 1

Refusing(s, o, k, w, t, u) ==
    /\ k["client"] = "none" /\ u["client"] = <<>> /\ t["client"] = 0
    /\ u["server"] = <<>> \/ u["server"] = <<HttpError500>>
    /\ o["write_server"]["pending"] > 0 =>
         u["server"] = <<>> /\ w["server"] = HttpError500
    /\ s # "erased" =>
         /\ u["server"] = <<>>
         /\ Done(o, "read_server") => t["server"] = 1
         /\ ~Done(o, "read_server") => t["server"] = 0

SentRemote(u) == \A i \in DOMAIN u["client"] : u["client"][i] = Chunk("server", i + 1)
SentLocal(u) == \A i \in DOMAIN u["server"] : u["server"][i] = Line(i - 1)

DueRemote(o, w, u) ==
    o["write_client"]["pending"] > 0 => w["client"] = Chunk("server", Len(u["client"]) + 2)
DueLocal(o, w, u) ==
    o["write_server"]["pending"] > 0 => w["server"] = Line(Len(u["server"]))

Tunnelling(s, o, w, t, u) ==
    /\ SentLocal(u) /\ SentRemote(u)
    /\ DueLocal(o, w, u) /\ DueRemote(o, w, u)
    /\ ToRemote(o, t["server"], Len(u["client"]))
    /\ ToLocal(o, t["client"], Len(u["server"]))
    /\ s \in {"connection_established", "ready_to_transfer_data"} =>
         t["server"] = 1 /\ t["client"] = 0 /\ u["client"] = <<>>
    /\ s = "connection_established" => u["server"] = <<>>

(* The newest message to the remote host, c, is one of the n that were     *)
(* read, and what was sent before, l, is in order and not newer.           *)
InOrder(c, n, l) ==
    /\ c.kind = "server" /\ c.n <= n
    /\ \A i \in DOMAIN l : l[i].kind = "server" /\ l[i].n <= c.n
    /\ \A i, j \in DOMAIN l : i <= j => l[i].n <= l[j].n

Forwarding(s, o, w, t, u) ==
    /\ u["server"] = <<>> /\ t["server"] >= 1
    /\ s = "connection_established" => u["client"] = <<>>
    /\ o["write_client"]["pending"] > 0 \/ u["client"] # <<>> =>
         InOrder(w["client"], t["server"], u["client"])
    /\ u["client"] # <<>> => u["client"][1] = Forwarded
    /\ o["write_client"]["pending"] > 0 /\ u["client"] = <<>> => w["client"] = Forwarded
    /\ s = "ready_to_transfer_data" /\ Done(o, "write_client") => u["client"] # <<>>
    /\ s = "data_transfer_mode" => u["client"] # <<>>

Order(s, h, o, k, r, w, t, u) ==
    /\ Recent(r, t)
    /\ Reached(s, o, k, u)
    /\ h = NoChunk => Refusing(s, o, k, w, t, u)
    /\ h = HttpDone => Tunnelling(s, o, w, t, u)
    /\ h = Forwarded => Forwarding(s, o, w, t, u)

Sound(s, h, o, k, r, w, t, u) ==
    Chosen(s, h) /\ Shape(s, h, o) /\ Order(s, h, o, k, r, w, t, u)

SoundOf(id) ==
    Sound(state[id], response[id], ops[id], sock[id], rbuf[id], wbuf[id], taken[id], out[id])

HInv ==
    /\ TypeOK
    /\ FreshId
    /\ \A id \in Ids : SoundOf(id)

(* All that is known of a session before a step.                           *)
Known(s, h, o, k, r, w, t, u) ==
    /\ Sound(s, h, o, k, r, w, t, u)
    /\ s \in Sessions \union {"absent", "erased"} /\ o \in OpsType
    /\ k \in [Side -> SockState] /\ r \in [Side -> Chunks] /\ w \in [Side -> Chunks]
    /\ t["server"] \in Nat /\ t["client"] \in Nat /\ DOMAIN t = Side
    /\ u["server"] \in Seq(Chunks) /\ u["client"] \in Seq(Chunks) /\ DOMAIN u = Side
    /\ Len(u["server"]) \in Nat /\ Len(u["client"]) \in Nat

KnownOf(id) ==
    Known(state[id], response[id], ops[id], sock[id], rbuf[id], wbuf[id], taken[id], out[id])

LEMMA Facts ==
    ASSUME HInv, NEW id \in Ids
    PROVE  KnownOf(id)
<1>1. /\ ops[id] \in OpsType /\ state[id] \in Sessions \union {"absent", "erased"}
      /\ sock[id] \in [Side -> SockState] /\ rbuf[id] \in [Side -> Chunks]
      /\ wbuf[id] \in [Side -> Chunks] /\ taken[id] \in [Side -> Nat]
      /\ out[id] \in [Side -> Seq(Chunks)]
  BY DEF HInv, TypeOK, OpsType
<1>2. Len(out[id]["server"]) \in Nat /\ Len(out[id]["client"]) \in Nat
  BY <1>1, Names
<1>3. SoundOf(id)
  BY DEF HInv
<1> QED
  BY <1>1, <1>2, <1>3, Names DEF KnownOf, Known, SoundOf

LEMMA LaterInOrder ==
    ASSUME NEW c \in Chunks, NEW l \in Seq(Chunks), NEW n \in Nat, InOrder(c, n, l),
           NEW d \in Chunks, d.kind = "server", NEW m \in Nat, c.n <= d.n, d.n <= m
    PROVE  InOrder(d, m, l)
<1>1. \A i \in DOMAIN l : l[i] \in Chunks
  OBVIOUS
<1>2. c.n \in Nat /\ d.n \in Nat /\ \A i \in DOMAIN l : l[i].n \in Nat
  BY <1>1 DEF Chunks
<1> QED
  BY <1>2 DEF InOrder

LEMMA SentInOrder ==
    ASSUME NEW c \in Chunks, NEW l \in Seq(Chunks), NEW n, InOrder(c, n, l)
    PROVE  InOrder(c, n, Append(l, c))
<1> DEFINE z == Append(l, c)
           m == Len(l) + 1
<1>1. /\ z[m] = c /\ DOMAIN z = DOMAIN l \union {m} /\ Len(l) \in Nat
      /\ \A i \in DOMAIN l : z[i] = l[i] /\ i \in Nat /\ i < m
  OBVIOUS
<1>2. c.n \in Nat
  BY DEF Chunks
<1> HIDE DEF z, m
<1>3. \A i \in DOMAIN z : z[i].kind = "server" /\ z[i].n <= c.n
  BY <1>1, <1>2 DEF InOrder
<1>4. ASSUME NEW i \in DOMAIN z, NEW j \in DOMAIN z, i <= j
      PROVE  z[i].n <= z[j].n
  <2>1. CASE j = m
    BY <2>1, <1>1, <1>3
  <2>2. CASE j # m
    <3>1. j \in DOMAIN l
      BY <2>2, <1>1
    <3>2. i # m
      BY <3>1, <1>1, <1>4 DEF m
    <3>3. i \in DOMAIN l
      BY <3>2, <1>1
    <3> QED
      BY <3>1, <3>3, <1>1, <1>4 DEF InOrder
  <2> QED
    BY <2>1, <2>2
<1>5. c.kind = "server" /\ c.n <= n
  BY DEF InOrder
<1>6. InOrder(c, n, z)
  BY <1>3, <1>4, <1>5 DEF InOrder
<1> QED
  BY <1>6 DEF z

LEMMA Responses == NoChunk # HttpDone /\ NoChunk # Forwarded /\ HttpDone # Forwarded
BY DEF NoChunk, HttpDone, Forwarded, Chunk

----
(* What a step leaves outstanding.                                         *)
LEMMA Nine ==
    ASSUME NEW o \in OpsType
    PROVE  /\ Out(o, "handshake") \in Nat /\ Out(o, "read_server") \in Nat
           /\ Out(o, "write_server") \in Nat /\ Out(o, "resolve") \in Nat
           /\ Out(o, "connect") \in Nat /\ Out(o, "read_client") \in Nat
           /\ Out(o, "write_client") \in Nat /\ Out(o, "shutdown") \in Nat
           /\ Out(o, "null_write") \in Nat
BY OutNat, Names

LEMMA SameShape ==
    ASSUME NEW s, NEW h, NEW o, NEW x, \A op \in Op : Out(x, op) = Out(o, op), Shape(s, h, o)
    PROVE  Shape(s, h, x)
BY Names DEF Shape

LEMMA ErasedShape ==
    ASSUME NEW h, NEW o \in OpsType, NEW x \in OpsType, Shape("erased", h, o),
           \A op \in Op : Out(x, op) <= Out(o, op)
    PROVE  Shape("erased", h, x)
<1>1. /\ Out(x, "handshake") <= Out(o, "handshake")
      /\ Out(x, "read_server") <= Out(o, "read_server")
      /\ Out(x, "write_server") <= Out(o, "write_server")
      /\ Out(x, "resolve") <= Out(o, "resolve") /\ Out(x, "connect") <= Out(o, "connect")
      /\ Out(x, "read_client") <= Out(o, "read_client")
      /\ Out(x, "write_client") <= Out(o, "write_client")
  BY Names
<1> QED
  BY <1>1, Nine DEF Shape, Counts

(* A live session is stopped by the handler of one of its operations, and  *)
(* then neither resolves nor connects.                                     *)
LEMMA StopShape ==
    ASSUME NEW s \in Sessions, NEW h, Chosen(s, h), NEW o \in OpsType, Shape(s, h, o),
           NEW op \in Op, NEW p \in {"ok", "error"}, o[op][p] > 0, NEW k
    PROVE  Shape("erased", h, StopOps(Retire(o, op, p), k))
<1> DEFINE r == Retire(o, op, p)
           x == StopOps(r, k)
           N(c) == IF c = op THEN 1 ELSE 0
<1>1. /\ r \in OpsType /\ Out(o, op) >= 1
      /\ \A c \in Op : Out(r, c) = IF c = op THEN Out(o, c) - 1 ELSE Out(o, c)
  BY RetireOut
<1>2. x \in OpsType /\ \A c \in Op \ {"shutdown", "null_write"} : Out(x, c) = Out(r, c)
  BY <1>1, StopOut
<1>3. \A c \in Op : Out(o, c) \in Nat /\ N(c) \in Nat /\ N(c) <= Out(o, c)
  BY <1>1, OutNat
<1>4. \A c \in Op \ {"shutdown", "null_write"} : Out(x, c) = Out(o, c) - N(c)
  BY <1>1, <1>2, <1>3
<1>5. op \notin {"shutdown", "null_write"}
  BY <1>1 DEF Shape, Sessions
<1>6. N("handshake") + N("read_server") + N("write_server") + N("resolve") + N("connect")
        + N("read_client") + N("write_client") = 1
  BY <1>5 DEF Op, ServerOp, ClientOp
<1> DEFINE hs == Out(o, "handshake")    a == N("handshake")
           rs == Out(o, "read_server")  b == N("read_server")
           ws == Out(o, "write_server") c == N("write_server")
           re == Out(o, "resolve")      d == N("resolve")
           co == Out(o, "connect")      e == N("connect")
           rc == Out(o, "read_client")  f == N("read_client")
           wc == Out(o, "write_client") g == N("write_client")
<1> HIDE DEF x, N
<1>7. /\ hs \in Nat /\ rs \in Nat /\ ws \in Nat /\ re \in Nat /\ co \in Nat /\ rc \in Nat
      /\ wc \in Nat /\ a \in Nat /\ b \in Nat /\ c \in Nat /\ d \in Nat /\ e \in Nat /\ f \in Nat
      /\ g \in Nat /\ a <= hs /\ b <= rs /\ c <= ws /\ d <= re /\ e <= co /\ f <= rc /\ g <= wc
  BY <1>3, Names
<1>8. a + b + c + d + e + f + g = 1 /\ Counts(s, h, hs, rs, ws, re, co, rc, wc)
  BY <1>6 DEF Shape
<1> HIDE DEF hs, rs, ws, re, co, rc, wc, a, b, c, d, e, f, g
<1>9. Counts("erased", h, hs - a, rs - b, ws - c, re - d, co - e, rc - f, wc - g)
  <2>1. CASE s = "wait_request"
    BY <2>1, <1>7, <1>8, Responses DEF Counts, Chosen
  <2>2. CASE s = "connection_established"
    BY <2>2, <1>7, <1>8, Responses DEF Counts, Chosen
  <2>3. CASE s = "ready_to_transfer_data"
    BY <2>3, <1>7, <1>8, Responses DEF Counts, Chosen
  <2>4. CASE s = "data_transfer_mode"
    BY <2>4, <1>7, <1>8, Responses DEF Counts, Chosen
  <2> QED
    BY <2>1, <2>2, <2>3, <2>4 DEF Sessions
<1>10. Shape("erased", h, x)
  BY <1>4, <1>9, Names DEF Shape, hs, rs, ws, re, co, rc, wc, a, b, c, d, e, f, g
<1> QED
  BY <1>10 DEF x


(* The handlers that start one other operation, as their names say.        *)
LEMMA HandshakenShape ==
    ASSUME NEW h, NEW o \in OpsType, Shape("wait_request", h, o), o["handshake"]["ok"] > 0
    PROVE  Shape("wait_request", h, Issue(Retire(o, "handshake", "ok"), "read_server"))
<1> DEFINE x == Issue(Retire(o, "handshake", "ok"), "read_server")
<1>1. /\ Out(o, "handshake") >= 1
      /\ \A c \in Op : Out(x, c) =
           Out(o, c) + (IF c = "read_server" THEN 1 ELSE 0) - (IF c = "handshake" THEN 1 ELSE 0)
  BY Names, ThenOut
<1> HIDE DEF x
<1>3. Shape("wait_request", h, x)
  BY <1>1, Names, Nine DEF Shape, Counts
<1> QED
  BY <1>3 DEF x

LEMMA RequestShape ==
    ASSUME NEW h, NEW g, NEW o \in OpsType, Shape("wait_request", h, o), o["read_server"]["ok"] > 0
    PROVE  Shape("connection_established", g, Issue(Retire(o, "read_server", "ok"), "resolve"))
<1> DEFINE x == Issue(Retire(o, "read_server", "ok"), "resolve")
<1>1. /\ Out(o, "read_server") >= 1
      /\ \A c \in Op : Out(x, c) =
           Out(o, c) + (IF c = "resolve" THEN 1 ELSE 0) - (IF c = "read_server" THEN 1 ELSE 0)
  BY Names, ThenOut
<1> HIDE DEF x
<1>2. /\ Out(x, "handshake") = Out(o, "handshake")
      /\ Out(x, "read_server") = Out(o, "read_server") - 1
      /\ Out(x, "write_server") = Out(o, "write_server")
      /\ Out(x, "resolve") = Out(o, "resolve") + 1
      /\ Out(x, "connect") = Out(o, "connect")
      /\ Out(x, "read_client") = Out(o, "read_client")
      /\ Out(x, "write_client") = Out(o, "write_client")
      /\ Out(x, "shutdown") = Out(o, "shutdown")
      /\ Out(x, "null_write") = Out(o, "null_write")
  BY <1>1, Names, Nine
<1>3. Shape("connection_established", g, x)
  BY <1>1, <1>2, Nine DEF Shape, Counts
<1> QED
  BY <1>3 DEF x

LEMMA ResolvedShape ==
    ASSUME NEW h, NEW o \in OpsType, Shape("connection_established", h, o), o["resolve"]["ok"] > 0
    PROVE  Shape("connection_established", h, Issue(Retire(o, "resolve", "ok"), "connect"))
<1> DEFINE x == Issue(Retire(o, "resolve", "ok"), "connect")
<1>1. /\ Out(o, "resolve") >= 1
      /\ \A c \in Op : Out(x, c) =
           Out(o, c) + (IF c = "connect" THEN 1 ELSE 0) - (IF c = "resolve" THEN 1 ELSE 0)
  BY Names, ThenOut
<1> HIDE DEF x
<1>3. Shape("connection_established", h, x)
  BY <1>1, Names, Nine DEF Shape, Counts
<1> QED
  BY <1>3 DEF x

LEMMA AnswerShape ==
    ASSUME NEW h, NEW o \in OpsType, Shape("connection_established", h, o),
            o["connect"]["ok"] > 0, h = HttpDone
    PROVE  Shape("ready_to_transfer_data", h, Issue(Retire(o, "connect", "ok"), "write_server"))
<1> DEFINE x == Issue(Retire(o, "connect", "ok"), "write_server")
<1>1. /\ Out(o, "connect") >= 1
      /\ \A c \in Op : Out(x, c) =
           Out(o, c) + (IF c = "write_server" THEN 1 ELSE 0) - (IF c = "connect" THEN 1 ELSE 0)
  BY Names, ThenOut
<1> HIDE DEF x
<1>3. Shape("ready_to_transfer_data", h, x)
  BY <1>1, Names, Nine DEF Shape, Counts
<1> QED
  BY <1>3 DEF x

LEMMA ForwardShape ==
    ASSUME NEW h, NEW o \in OpsType, Shape("connection_established", h, o),
            o["connect"]["ok"] > 0, h # HttpDone
    PROVE  Shape("ready_to_transfer_data", h, Issue(Retire(o, "connect", "ok"), "write_client"))
<1> DEFINE x == Issue(Retire(o, "connect", "ok"), "write_client")
<1>1. /\ Out(o, "connect") >= 1
      /\ \A c \in Op : Out(x, c) =
           Out(o, c) + (IF c = "write_client" THEN 1 ELSE 0) - (IF c = "connect" THEN 1 ELSE 0)
  BY Names, ThenOut
<1> HIDE DEF x
<1>3. Shape("ready_to_transfer_data", h, x)
  BY <1>1, Names, Nine DEF Shape, Counts
<1> QED
  BY <1>3 DEF x

LEMMA ServerReadShape ==
    ASSUME NEW h, NEW o \in OpsType, Shape("data_transfer_mode", h, o), o["read_server"]["ok"] > 0
    PROVE  Shape("data_transfer_mode", h, Issue(Retire(o, "read_server", "ok"), "write_client"))
<1> DEFINE x == Issue(Retire(o, "read_server", "ok"), "write_client")
<1>1. /\ Out(o, "read_server") >= 1
      /\ \A c \in Op : Out(x, c) =
           Out(o, c) + (IF c = "write_client" THEN 1 ELSE 0) - (IF c = "read_server" THEN 1 ELSE 0)
  BY Names, ThenOut
<1> HIDE DEF x
<1>2. /\ Out(x, "handshake") = Out(o, "handshake")
      /\ Out(x, "read_server") = Out(o, "read_server") - 1
      /\ Out(x, "write_server") = Out(o, "write_server")
      /\ Out(x, "resolve") = Out(o, "resolve")
      /\ Out(x, "connect") = Out(o, "connect")
      /\ Out(x, "read_client") = Out(o, "read_client")
      /\ Out(x, "write_client") = Out(o, "write_client") + 1
      /\ Out(x, "shutdown") = Out(o, "shutdown")
      /\ Out(x, "null_write") = Out(o, "null_write")
  BY <1>1, Names, Nine
<1>3. Shape("data_transfer_mode", h, x)
  BY <1>1, <1>2, Nine DEF Shape, Counts
<1> QED
  BY <1>3 DEF x

LEMMA ClientReadShape ==
    ASSUME NEW h, NEW o \in OpsType, Shape("data_transfer_mode", h, o), o["read_client"]["ok"] > 0
    PROVE  Shape("data_transfer_mode", h, Issue(Retire(o, "read_client", "ok"), "write_server"))
<1> DEFINE x == Issue(Retire(o, "read_client", "ok"), "write_server")
<1>1. /\ Out(o, "read_client") >= 1
      /\ \A c \in Op : Out(x, c) =
           Out(o, c) + (IF c = "write_server" THEN 1 ELSE 0) - (IF c = "read_client" THEN 1 ELSE 0)
  BY Names, ThenOut
<1> HIDE DEF x
<1>2. /\ Out(x, "handshake") = Out(o, "handshake")
      /\ Out(x, "read_server") = Out(o, "read_server")
      /\ Out(x, "write_server") = Out(o, "write_server") + 1
      /\ Out(x, "resolve") = Out(o, "resolve")
      /\ Out(x, "connect") = Out(o, "connect")
      /\ Out(x, "read_client") = Out(o, "read_client") - 1
      /\ Out(x, "write_client") = Out(o, "write_client")
      /\ Out(x, "shutdown") = Out(o, "shutdown")
      /\ Out(x, "null_write") = Out(o, "null_write")
  BY <1>1, Names, Nine
<1>3. Shape("data_transfer_mode", h, x)
  BY <1>1, <1>2, Nine DEF Shape, Counts
<1> QED
  BY <1>3 DEF x

LEMMA ServerWrittenShape ==
    ASSUME NEW h, NEW o \in OpsType, Shape("data_transfer_mode", h, o), o["write_server"]["ok"] > 0
    PROVE  Shape("data_transfer_mode", h, Issue(Retire(o, "write_server", "ok"), "read_client"))
<1> DEFINE x == Issue(Retire(o, "write_server", "ok"), "read_client")
<1>1. /\ Out(o, "write_server") >= 1
      /\ \A c \in Op : Out(x, c) =
           Out(o, c) + (IF c = "read_client" THEN 1 ELSE 0) - (IF c = "write_server" THEN 1 ELSE 0)
  BY Names, ThenOut
<1> HIDE DEF x
<1>2. /\ Out(x, "handshake") = Out(o, "handshake")
      /\ Out(x, "read_server") = Out(o, "read_server")
      /\ Out(x, "write_server") = Out(o, "write_server") - 1
      /\ Out(x, "resolve") = Out(o, "resolve")
      /\ Out(x, "connect") = Out(o, "connect")
      /\ Out(x, "read_client") = Out(o, "read_client") + 1
      /\ Out(x, "write_client") = Out(o, "write_client")
      /\ Out(x, "shutdown") = Out(o, "shutdown")
      /\ Out(x, "null_write") = Out(o, "null_write")
  BY <1>1, Names, Nine
<1>3. Shape("data_transfer_mode", h, x)
  BY <1>1, <1>2, Nine DEF Shape, Counts
<1> QED
  BY <1>3 DEF x

LEMMA ClientWrittenShape ==
    ASSUME NEW h, NEW o \in OpsType, Shape("data_transfer_mode", h, o), o["write_client"]["ok"] > 0
    PROVE  Shape("data_transfer_mode", h, Issue(Retire(o, "write_client", "ok"), "read_server"))
<1> DEFINE x == Issue(Retire(o, "write_client", "ok"), "read_server")
<1>1. /\ Out(o, "write_client") >= 1
      /\ \A c \in Op : Out(x, c) =
           Out(o, c) + (IF c = "read_server" THEN 1 ELSE 0) - (IF c = "write_client" THEN 1 ELSE 0)
  BY Names, ThenOut
<1> HIDE DEF x
<1>2. /\ Out(x, "handshake") = Out(o, "handshake")
      /\ Out(x, "read_server") = Out(o, "read_server") + 1
      /\ Out(x, "write_server") = Out(o, "write_server")
      /\ Out(x, "resolve") = Out(o, "resolve")
      /\ Out(x, "connect") = Out(o, "connect")
      /\ Out(x, "read_client") = Out(o, "read_client")
      /\ Out(x, "write_client") = Out(o, "write_client") - 1
      /\ Out(x, "shutdown") = Out(o, "shutdown")
      /\ Out(x, "null_write") = Out(o, "null_write")
  BY <1>1, Names, Nine
<1>3. Shape("data_transfer_mode", h, x)
  BY <1>1, <1>2, Nine DEF Shape, Counts
<1> QED
  BY <1>3 DEF x

(* The handlers that start the two reads of a session.                     *)
LEMMA PumpShape ==
    ASSUME NEW h, NEW o \in OpsType, Shape("ready_to_transfer_data", h, o),
            o["write_server"]["ok"] > 0
    PROVE  /\ h = HttpDone
           /\ Shape("data_transfer_mode", h,
                    Issue(Issue(Retire(o, "write_server", "ok"), "read_server"), "read_client"))
<1> DEFINE y == Issue(Retire(o, "write_server", "ok"), "read_server")
           x == Issue(y, "read_client")
<1>1. /\ y \in OpsType /\ Out(o, "write_server") >= 1
      /\ \A c \in Op : Out(y, c) =
           Out(o, c) + (IF c = "read_server" THEN 1 ELSE 0) - (IF c = "write_server" THEN 1 ELSE 0)
  BY Names, ThenOut
<1>2. \A c \in Op : Out(x, c) = IF c = "read_client" THEN Out(y, c) + 1 ELSE Out(y, c)
  BY <1>1, Names, IssueOut
<1> HIDE DEF x, y
<1>3. h = HttpDone
  BY <1>1, Nine DEF Shape, Counts
<1>4. /\ Out(o, "handshake") = 0 /\ Out(o, "read_server") = 0
      /\ Out(o, "write_server") = 1 /\ Out(o, "resolve") = 0
      /\ Out(o, "connect") = 0 /\ Out(o, "read_client") = 0
      /\ Out(o, "write_client") = 0 /\ Out(o, "shutdown") = 0
      /\ Out(o, "null_write") = 0
  BY <1>3 DEF Shape, Counts
<1>5. /\ Out(y, "write_server") = Out(o, "write_server") - 1
      /\ Out(y, "read_server") = Out(o, "read_server") + 1
  BY <1>1, Names, Nine
<1>6. \A c \in Op \ {"write_server", "read_server"} : Out(y, c) = Out(o, c)
  BY <1>1, OutNat
<1>7. /\ Out(y, "handshake") = 0 /\ Out(y, "read_server") = 1
      /\ Out(y, "write_server") = 0 /\ Out(y, "resolve") = 0
      /\ Out(y, "connect") = 0 /\ Out(y, "read_client") = 0
      /\ Out(y, "write_client") = 0 /\ Out(y, "shutdown") = 0
      /\ Out(y, "null_write") = 0
  BY <1>4, <1>5, <1>6, Names
<1>8. /\ Out(x, "handshake") = 0 /\ Out(x, "read_server") = 1
      /\ Out(x, "write_server") = 0 /\ Out(x, "resolve") = 0
      /\ Out(x, "connect") = 0 /\ Out(x, "read_client") = 1
      /\ Out(x, "write_client") = 0 /\ Out(x, "shutdown") = 0
      /\ Out(x, "null_write") = 0
  BY <1>2, <1>7, Names
<1>9. Shape("data_transfer_mode", h, x)
  BY <1>3, <1>8 DEF Shape, Counts
<1> QED
  BY <1>3, <1>9 DEF x, y

LEMMA TwoReadsShape ==
    ASSUME NEW h, NEW o \in OpsType, Shape("ready_to_transfer_data", h, o),
            o["write_client"]["ok"] > 0
    PROVE  /\ h # HttpDone
           /\ Shape("data_transfer_mode", h,
                    Issue(Issue(Retire(o, "write_client", "ok"), "read_server"), "read_server"))
<1> DEFINE y == Issue(Retire(o, "write_client", "ok"), "read_server")
           x == Issue(y, "read_server")
<1>1. /\ y \in OpsType /\ Out(o, "write_client") >= 1
      /\ \A c \in Op : Out(y, c) =
           Out(o, c) + (IF c = "read_server" THEN 1 ELSE 0) - (IF c = "write_client" THEN 1 ELSE 0)
  BY Names, ThenOut
<1>2. \A c \in Op : Out(x, c) = IF c = "read_server" THEN Out(y, c) + 1 ELSE Out(y, c)
  BY <1>1, Names, IssueOut
<1> HIDE DEF x, y
<1>3. h # HttpDone
  BY <1>1, Nine DEF Shape, Counts
<1>4. /\ Out(o, "handshake") = 0 /\ Out(o, "read_server") = 0
      /\ Out(o, "write_server") = 0 /\ Out(o, "resolve") = 0
      /\ Out(o, "connect") = 0 /\ Out(o, "read_client") = 0
      /\ Out(o, "write_client") = 1 /\ Out(o, "shutdown") = 0
      /\ Out(o, "null_write") = 0
  BY <1>3 DEF Shape, Counts
<1>5. /\ Out(y, "write_client") = Out(o, "write_client") - 1
      /\ Out(y, "read_server") = Out(o, "read_server") + 1
  BY <1>1, Names, Nine
<1>6. \A c \in Op \ {"write_client", "read_server"} : Out(y, c) = Out(o, c)
  BY <1>1, OutNat
<1>7. /\ Out(y, "handshake") = 0 /\ Out(y, "read_server") = 1
      /\ Out(y, "write_server") = 0 /\ Out(y, "resolve") = 0
      /\ Out(y, "connect") = 0 /\ Out(y, "read_client") = 0
      /\ Out(y, "write_client") = 0 /\ Out(y, "shutdown") = 0
      /\ Out(y, "null_write") = 0
  BY <1>4, <1>5, <1>6, Names
<1>8. /\ Out(x, "handshake") = 0 /\ Out(x, "read_server") = 2
      /\ Out(x, "write_server") = 0 /\ Out(x, "resolve") = 0
      /\ Out(x, "connect") = 0 /\ Out(x, "read_client") = 0
      /\ Out(x, "write_client") = 0 /\ Out(x, "shutdown") = 0
      /\ Out(x, "null_write") = 0
  BY <1>2, <1>7, Names
<1>9. Shape("data_transfer_mode", h, x)
  BY <1>3, <1>8 DEF Shape, Counts
<1> QED
  BY <1>3, <1>9 DEF x, y

(* A refused request leaves the write of its answer, or none.              *)
LEMMA RefusalShape ==
    ASSUME NEW o \in OpsType, Shape("wait_request", NoChunk, o), o["read_server"]["ok"] > 0,
           NEW x \in OpsType, NEW z \in OpsType, NEW k,
           z = Issue(Retire(o, "read_server", "ok"), "write_server"),
           \A c \in Op : Out(x, c) <= Out(z, c)
    PROVE  Shape("erased", NoChunk, StopOps(x, k))
<1> DEFINE y == StopOps(x, k)
<1>1. /\ Out(o, "read_server") >= 1
      /\ \A c \in Op : Out(z, c) =
           Out(o, c) + (IF c = "write_server" THEN 1 ELSE 0) - (IF c = "read_server" THEN 1 ELSE 0)
  BY Names, ThenOut
<1>2. \A c \in Op \ {"shutdown", "null_write"} : Out(y, c) = Out(x, c)
  BY StopOut
<1>3. y \in OpsType
  BY StopOut
<1> HIDE DEF y
<1>4. /\ Out(z, "handshake") = 0 /\ Out(z, "read_server") = 0 /\ Out(z, "write_server") = 1
      /\ Out(z, "resolve") = 0 /\ Out(z, "connect") = 0 /\ Out(z, "read_client") = 0
      /\ Out(z, "write_client") = 0
  BY <1>1, Names, Nine DEF Shape, Counts
<1>5. /\ Out(y, "handshake") = 0 /\ Out(y, "read_server") = 0 /\ Out(y, "write_server") <= 1
      /\ Out(y, "resolve") = 0 /\ Out(y, "connect") = 0 /\ Out(y, "read_client") = 0
      /\ Out(y, "write_client") = 0
  BY <1>2, <1>4, Names, Nine
<1>6. Shape("erased", NoChunk, y)
  BY <1>5, Responses DEF Shape, Counts
<1> QED
  BY <1>6 DEF y

----
(* How an operation c stands, as far as the order of the messages goes.    *)
None(o, c) == ~Undone(o, c) /\ ~Done(o, c) /\ o[c]["pending"] = 0
Waiting(o, c) == Undone(o, c) /\ ~Done(o, c)
Ready(o, c) == ~Undone(o, c) /\ Done(o, c) /\ o[c]["pending"] = 0
Same(x, o, c) ==
    /\ Undone(x, c) <=> Undone(o, c)
    /\ Done(x, c) <=> Done(o, c)
    /\ x[c]["pending"] > 0 <=> o[c]["pending"] > 0
Fewer(x, o, c) ==
    /\ Undone(x, c) => Undone(o, c)
    /\ Done(x, c) => Done(o, c)
    /\ x[c]["pending"] > 0 => o[c]["pending"] > 0

LEMMA OutNone ==
    ASSUME NEW o \in OpsType, NEW c \in Op, Out(o, c) = 0
    PROVE  None(o, c)
<1>1. /\ o[c]["pending"] \in Nat /\ o[c]["ok"] \in Nat /\ o[c]["error"] \in Nat
      /\ Out(o, c) = o[c]["pending"] + o[c]["ok"] + o[c]["error"]
  BY PhaseNat
<1>2. o[c]["pending"] = 0 /\ o[c]["ok"] = 0 /\ o[c]["error"] = 0
  <2> DEFINE p == o[c]["pending"]  k == o[c]["ok"]  e == o[c]["error"]
  <2>1. p \in Nat /\ k \in Nat /\ e \in Nat /\ p + k + e = 0
    BY <1>1
  <2> HIDE DEF p, k, e
  <2>2. p = 0 /\ k = 0 /\ e = 0
    BY <2>1
  <2> QED
    BY <2>2 DEF p, k, e
<1> QED
  BY <1>2 DEF None, Undone, Done

LEMMA OutReady ==
    ASSUME NEW o \in OpsType, NEW c \in Op, o[c]["ok"] > 0, Out(o, c) <= 1
    PROVE  Ready(o, c)
<1>1. /\ o[c]["pending"] \in Nat /\ o[c]["ok"] \in Nat /\ o[c]["error"] \in Nat
      /\ Out(o, c) = o[c]["pending"] + o[c]["ok"] + o[c]["error"]
  BY PhaseNat
<1> QED
  BY <1>1 DEF Ready, Undone, Done

LEMMA OutWaiting ==
    ASSUME NEW o \in OpsType, NEW c \in Op, o[c]["pending"] > 0, Out(o, c) <= 1
    PROVE  Waiting(o, c)
<1>1. /\ o[c]["pending"] \in Nat /\ o[c]["ok"] \in Nat /\ o[c]["error"] \in Nat
      /\ Out(o, c) = o[c]["pending"] + o[c]["ok"] + o[c]["error"]
  BY PhaseNat
<1> QED
  BY <1>1 DEF Waiting, Undone, Done

LEMMA SettleStands ==
    ASSUME NEW o \in OpsType, NEW a \in Op, o[a]["pending"] > 0
    PROVE  /\ \A c \in Op \ {a} : Same(Settle(o, a, "ok"), o, c)
           /\ Out(o, a) <= 1 => Ready(Settle(o, a, "ok"), a)
           /\ \A c \in Op : Fewer(Settle(o, a, "error"), o, c)
           /\ \A c \in Op : Done(Settle(o, a, "error"), c) <=> Done(o, c)
<1> DEFINE x == Settle(o, a, "ok")
           y == Settle(o, a, "error")
<1>1. /\ \A c \in Op \ {a}, q \in Phase : x[c][q] = o[c][q]
      /\ x[a]["pending"] = o[a]["pending"] - 1 /\ x[a]["ok"] = o[a]["ok"] + 1
      /\ \A q \in {"ok", "error"} \ {"ok"} : x[a][q] = o[a][q]
  BY SettleAt
<1>2. /\ \A c \in Op \ {a}, q \in Phase : y[c][q] = o[c][q]
      /\ y[a]["pending"] = o[a]["pending"] - 1 /\ y[a]["error"] = o[a]["error"] + 1
      /\ \A q \in {"ok", "error"} \ {"error"} : y[a][q] = o[a][q]
  BY SettleAt
<1> HIDE DEF x, y
<1>3. /\ o[a]["pending"] \in Nat /\ o[a]["ok"] \in Nat /\ o[a]["error"] \in Nat
      /\ Out(o, a) = o[a]["pending"] + o[a]["ok"] + o[a]["error"]
  BY PhaseNat
<1>4. "pending" \in Phase /\ "ok" \in Phase /\ "error" \in Phase
  BY DEF Phase
<1>5. \A c \in Op \ {a} : Same(x, o, c) /\ Same(y, o, c)
  BY <1>1, <1>2, <1>4 DEF Same, Undone, Done
<1>6. x[a]["error"] = o[a]["error"] /\ y[a]["ok"] = o[a]["ok"]
  BY <1>1, <1>2
<1>7. ASSUME Out(o, a) <= 1
      PROVE  Ready(x, a)
  <2>1. o[a]["pending"] = 1 /\ o[a]["ok"] = 0 /\ o[a]["error"] = 0
    BY <1>3, <1>7
  <2>2. x[a]["pending"] = 0 /\ x[a]["ok"] = 1 /\ x[a]["error"] = 0
    BY <2>1, <1>1, <1>6
  <2> QED
    BY <2>2 DEF Ready, Undone, Done
<1>8. Fewer(y, o, a) /\ (Done(y, a) <=> Done(o, a))
  BY <1>2, <1>3, <1>6 DEF Fewer, Undone, Done
<1>9. \A c \in Op : Fewer(y, o, c) /\ (Done(y, c) <=> Done(o, c))
  BY <1>5, <1>8 DEF Fewer, Same
<1> QED
  BY <1>5, <1>7, <1>9 DEF x, y

LEMMA RetireStands ==
    ASSUME NEW o \in OpsType, NEW a \in Op, NEW p \in {"ok", "error"}, o[a][p] > 0
    PROVE  /\ \A c \in Op \ {a} : Same(Retire(o, a, p), o, c)
           /\ Fewer(Retire(o, a, p), o, a)
<1> DEFINE x == Retire(o, a, p)
<1>1. /\ \A c \in Op \ {a}, q \in Phase : x[c][q] = o[c][q]
      /\ x[a][p] = o[a][p] - 1
      /\ \A q \in Phase \ {p} : x[a][q] = o[a][q]
  BY RetireAt
<1> HIDE DEF x
<1>2. o[a]["pending"] \in Nat /\ o[a]["ok"] \in Nat /\ o[a]["error"] \in Nat
  BY PhaseNat
<1>3. "pending" \in Phase /\ "ok" \in Phase /\ "error" \in Phase
  BY DEF Phase
<1>4. \A c \in Op \ {a} : Same(x, o, c)
  BY <1>1, <1>3 DEF Same, Undone, Done
<1>5. CASE p = "ok"
  <2>1. x[a]["ok"] = o[a]["ok"] - 1 /\ x[a]["pending"] = o[a]["pending"]
        /\ x[a]["error"] = o[a]["error"]
    BY <1>1, <1>3, <1>5
  <2> QED
    BY <2>1, <1>2, <1>4 DEF Fewer, Undone, Done, x
<1>6. CASE p = "error"
  <2>1. x[a]["error"] = o[a]["error"] - 1 /\ x[a]["pending"] = o[a]["pending"]
        /\ x[a]["ok"] = o[a]["ok"]
    BY <1>1, <1>3, <1>6
  <2> QED
    BY <2>1, <1>2, <1>4 DEF Fewer, Undone, Done, x
<1> QED
  BY <1>5, <1>6

LEMMA RetireFewer ==
    ASSUME NEW o \in OpsType, NEW a \in Op, NEW p \in {"ok", "error"}, o[a][p] > 0
    PROVE  /\ Retire(o, a, p) \in OpsType
           /\ \A c \in Op : Out(Retire(o, a, p), c) <= Out(o, c)
           /\ \A c \in Op : Fewer(Retire(o, a, p), o, c)
<1> DEFINE x == Retire(o, a, p)
<1>1. /\ x \in OpsType
      /\ \A c \in Op : Out(x, c) = IF c = a THEN Out(o, c) - 1 ELSE Out(o, c)
  BY RetireOut
<1>2. (\A c \in Op \ {a} : Same(x, o, c)) /\ Fewer(x, o, a)
  BY RetireStands
<1>3. \A c \in Op : Out(o, c) \in Nat
  BY OutNat
<1> HIDE DEF x
<1>4. \A c \in Op : Out(x, c) <= Out(o, c)
  BY <1>1, <1>3
<1>5. \A c \in Op : Fewer(x, o, c)
  BY <1>2 DEF Same, Fewer
<1> QED
  BY <1>1, <1>4, <1>5 DEF x

LEMMA IssueStands ==
    ASSUME NEW o \in OpsType, NEW a \in Op
    PROVE  /\ \A c \in Op \ {a} : Same(Issue(o, a), o, c)
           /\ Undone(Issue(o, a), a)
           /\ Done(Issue(o, a), a) <=> Done(o, a)
<1> DEFINE x == Issue(o, a)
<1>1. \A b \in Op :
        /\ x[b]["pending"] = IF b = a THEN o[b]["pending"] + 1 ELSE o[b]["pending"]
        /\ x[b]["ok"] = o[b]["ok"] /\ x[b]["error"] = o[b]["error"]
  BY IssueAt
<1> HIDE DEF x
<1>2. o[a]["pending"] \in Nat
  BY PhaseNat
<1>3. \A c \in Op \ {a} : Same(x, o, c)
  BY <1>1 DEF Same, Undone, Done
<1>4. Undone(x, a) /\ (Done(x, a) <=> Done(o, a))
  BY <1>1, <1>2 DEF Undone, Done
<1> QED
  BY <1>3, <1>4 DEF x

LEMMA ThenStands ==
    ASSUME NEW o \in OpsType, NEW a \in Op, NEW b \in Op, a # b, o[a]["ok"] > 0
    PROVE  /\ \A c \in Op \ {a, b} : Same(Issue(Retire(o, a, "ok"), b), o, c)
           /\ Fewer(Issue(Retire(o, a, "ok"), b), o, a)
           /\ Undone(Issue(Retire(o, a, "ok"), b), b)
           /\ Done(Issue(Retire(o, a, "ok"), b), b) <=> Done(o, b)
<1> DEFINE y == Retire(o, a, "ok")
           x == Issue(y, b)
<1>1. y \in OpsType /\ (\A c \in Op \ {a} : Same(y, o, c)) /\ Fewer(y, o, a)
  BY RetireStands, RetireOut
<1>2. (\A c \in Op \ {b} : Same(x, y, c)) /\ Undone(x, b) /\ (Done(x, b) <=> Done(y, b))
  BY <1>1, IssueStands
<1> HIDE DEF x, y
<1> QED
  BY <1>1, <1>2 DEF Same, Fewer, x, y

LEMMA StopStands ==
    ASSUME NEW o \in OpsType, NEW k, NEW c \in Op \ {"shutdown", "null_write"}
    PROVE  Same(StopOps(o, k), o, c)
BY StopOut DEF Same, Undone, Done

LEMMA FewerOrder ==
    ASSUME NEW s, NEW h, NEW o, NEW k, NEW r, NEW w, NEW t, NEW u, Order(s, h, o, k, r, w, t, u),
           NEW x, NEW l, NEW v \in {s, "erased"}, l["client"] = "none" <=> k["client"] = "none",
           \A c \in Carriers : Fewer(x, o, c), Done(x, "connect") => Done(o, "connect"),
           v = "erased" \/ h # NoChunk \/ (Done(x, "read_server") <=> Done(o, "read_server"))
    PROVE  Order(v, h, x, l, r, w, t, u)
<1>1. /\ Fewer(x, o, "read_server") /\ Fewer(x, o, "write_server")
      /\ Fewer(x, o, "read_client") /\ Fewer(x, o, "write_client")
  BY DEF Carriers
<1>2. Recent(r, t) /\ Reached(v, x, l, u)
  BY <1>1 DEF Order, Reached, Fewer
<1>3. ASSUME h = NoChunk PROVE Refusing(v, x, l, w, t, u)
  BY <1>1, <1>3 DEF Order, Refusing, Fewer
<1>4. ASSUME h = HttpDone PROVE Tunnelling(v, x, w, t, u)
  <2>1. Tunnelling(s, o, w, t, u)
    BY <1>4 DEF Order
  <2>2. DueLocal(x, w, u) /\ DueRemote(x, w, u)
    BY <2>1, <1>1 DEF Tunnelling, DueLocal, DueRemote, Fewer
  <2>3. ToRemote(x, t["server"], Len(u["client"])) /\ ToLocal(x, t["client"], Len(u["server"]))
    BY <2>1, <1>1 DEF Tunnelling, ToRemote, ToLocal, Fewer
  <2> QED
    BY <2>1, <2>2, <2>3 DEF Tunnelling
<1>5. ASSUME h = Forwarded PROVE Forwarding(v, x, w, t, u)
  BY <1>1, <1>5 DEF Order, Forwarding, Fewer
<1> QED
  BY <1>2, <1>3, <1>4, <1>5 DEF Order

----
(* The steps of the kernel.  What a session may have outstanding, at its   *)
(* state and with its response, decides which messages can be under way.   *)
Underway(s, h, o) ==
    /\ h = HttpDone =>
         /\ Out(o, "read_server") + Out(o, "write_client") <= 1
         /\ Out(o, "read_client") + Out(o, "write_server") <= 1
    /\ h = Forwarded => Out(o, "read_client") = 0 /\ Out(o, "write_server") = 0
    /\ h = NoChunk =>
         /\ Out(o, "read_client") = 0 /\ Out(o, "write_client") = 0 /\ Out(o, "connect") = 0
         /\ Out(o, "read_server") <= 1 /\ Out(o, "write_server") <= 1
         /\ Out(o, "read_server") > 0 => s = "wait_request"
         /\ Out(o, "write_server") > 0 => s = "erased"
    /\ h \in {NoChunk, HttpDone, Forwarded}

LEMMA KnownUnderway ==
    ASSUME NEW s, NEW h, NEW o, NEW k, NEW r, NEW w, NEW t, NEW u, Known(s, h, o, k, r, w, t, u)
    PROVE  Underway(s, h, o)
<1>1. o \in OpsType /\ Shape(s, h, o) /\ Chosen(s, h)
  BY DEF Known, Sound
<1>2. s \in {"absent", "wait_request", "connection_established", "ready_to_transfer_data",
             "data_transfer_mode", "erased"}
  BY DEF Known, Sessions
<1>3. CASE h = HttpDone
  BY <1>1, <1>2, <1>3, Nine, Responses DEF Underway, Shape, Counts, Chosen
<1>4. CASE h = Forwarded
  BY <1>1, <1>2, <1>4, Nine, Responses DEF Underway, Shape, Counts, Chosen
<1>5. CASE h = NoChunk
  BY <1>1, <1>2, <1>5, Nine, Responses DEF Underway, Shape, Counts, Chosen
<1> QED
  BY <1>1, <1>3, <1>4, <1>5 DEF Chosen

LEMMA Settling ==
    ASSUME NEW o \in OpsType, NEW a \in Op, o[a]["pending"] > 0
    PROVE  /\ \A c \in Op \ {a} : Same(Settle(o, a, "ok"), o, c)
           /\ Out(o, a) <= 1 => Ready(Settle(o, a, "ok"), a) /\ Waiting(o, a)
           /\ Out(o, a) >= 1
<1>1. Out(o, a) >= 1
  BY PhaseNat
<1> QED
  BY <1>1, SettleStands, OutWaiting

LEMMA Receiving ==
    ASSUME NEW side \in Side, NEW r, NEW t, NEW q, NEW v, Recent(r, t),
           t["server"] \in Nat, t["client"] \in Nat, v[side] = t[side] + 1,
           q[side] = Chunk(side, t[side] + 1),
           \A other \in Side \ {side} : q[other] = r[other] /\ v[other] = t[other]
    PROVE  Recent(q, v)
BY DEF Recent, Side

LEMMA ServerReceived ==
    ASSUME NEW s, NEW h, NEW o, NEW k, NEW r, NEW w, NEW t, NEW u, Known(s, h, o, k, r, w, t, u),
           o["read_server"]["pending"] > 0, NEW q, NEW v,
           q["server"] = Chunk("server", t["server"] + 1), q["client"] = r["client"],
           v["server"] = t["server"] + 1, v["client"] = t["client"]
    PROVE  Order(s, h, Settle(o, "read_server", "ok"), k, q, w, v, u)
<1> DEFINE x == Settle(o, "read_server", "ok")
<1>1. /\ o \in OpsType /\ Order(s, h, o, k, r, w, t, u)
      /\ t["server"] \in Nat /\ t["client"] \in Nat /\ Len(u["client"]) \in Nat
  BY DEF Known, Sound
<1>2. /\ \A c \in Op \ {"read_server"} : Same(x, o, c)
      /\ Out(o, "read_server") <= 1 => Ready(x, "read_server") /\ Waiting(o, "read_server")
      /\ Out(o, "read_server") >= 1
  BY <1>1, Names, Settling
<1> HIDE DEF x
<1>3. /\ Same(x, o, "write_server") /\ Same(x, o, "connect")
      /\ Same(x, o, "read_client") /\ Same(x, o, "write_client")
  BY <1>2, Names
<1>10. Underway(s, h, o)
  BY KnownUnderway
<1>4. Recent(q, v)
  BY <1>1, Names, Receiving DEF Order, Recent, Side
<1>5. Reached(s, x, k, u)
  BY <1>1, <1>3 DEF Order, Reached, Same
<1>6. ASSUME h = NoChunk PROVE Refusing(s, x, k, w, v, u)
  <2>1. s = "wait_request" /\ Ready(x, "read_server") /\ Waiting(o, "read_server")
    BY <1>1, <1>2, <1>6, <1>10, Nine DEF Underway
  <2> QED
    BY <2>1, <1>1, <1>3, <1>6 DEF Order, Refusing, Same, Ready, Waiting
<1>7. ASSUME h = HttpDone PROVE Tunnelling(s, x, w, v, u)
  <2>1. Tunnelling(s, o, w, t, u)
    BY <1>1, <1>7 DEF Order
  <2>2. Ready(x, "read_server") /\ Waiting(o, "read_server") /\ Out(o, "write_client") = 0
    BY <1>1, <1>2, <1>7, <1>10, Nine DEF Underway
  <2>3. None(o, "write_client")
    BY <2>2, <1>1, Names, OutNone
  <2>4. ToRemote(x, v["server"], Len(u["client"]))
    BY <2>1, <2>2, <2>3, <1>1, <1>3 DEF Tunnelling, ToRemote, Ready, Waiting, None, Same
  <2>5. ToLocal(x, v["client"], Len(u["server"])) /\ DueLocal(x, w, u) /\ DueRemote(x, w, u)
    BY <2>1, <1>3 DEF Tunnelling, ToLocal, DueLocal, DueRemote, Same
  <2>6. s \notin {"connection_established", "ready_to_transfer_data"}
    BY <1>1, <1>2, Nine DEF Known, Sound, Shape, Counts
  <2> QED
    BY <2>1, <2>4, <2>5, <2>6 DEF Tunnelling
<1>8. ASSUME h = Forwarded PROVE Forwarding(s, x, w, v, u)
  <2>1. Forwarding(s, o, w, t, u)
    BY <1>1, <1>8 DEF Order
  <2>2. ASSUME InOrder(w["client"], t["server"], u["client"])
        PROVE  InOrder(w["client"], v["server"], u["client"])
    <3>1. /\ w["client"] \in Chunks /\ u["client"] \in Seq(Chunks)
          /\ t["server"] \in Nat /\ v["server"] = t["server"] + 1
      BY <1>1, Names DEF Known
    <3>2. /\ w["client"].kind = "server" /\ w["client"].n <= t["server"]
          /\ w["client"].n \in Nat
      BY <2>2, <3>1 DEF InOrder, Chunks
    <3> QED
      BY <2>2, <3>1, <3>2, LaterInOrder
  <2>3. v["server"] >= 1
    BY <1>1
  <2> QED
    BY <2>1, <2>2, <2>3, <1>3 DEF Forwarding, Same
<1>9. Order(s, h, x, k, q, w, v, u)
  BY <1>4, <1>5, <1>6, <1>7, <1>8 DEF Order
<1> QED
  BY <1>9 DEF x

LEMMA ClientReceived ==
    ASSUME NEW s, NEW h, NEW o, NEW k, NEW r, NEW w, NEW t, NEW u, Known(s, h, o, k, r, w, t, u),
           o["read_client"]["pending"] > 0, NEW q, NEW v,
           q["client"] = Chunk("client", t["client"] + 1), q["server"] = r["server"],
           v["client"] = t["client"] + 1, v["server"] = t["server"]
    PROVE  Order(s, h, Settle(o, "read_client", "ok"), k, q, w, v, u)
<1> DEFINE x == Settle(o, "read_client", "ok")
<1>1. /\ o \in OpsType /\ Order(s, h, o, k, r, w, t, u)
      /\ t["server"] \in Nat /\ t["client"] \in Nat /\ Len(u["server"]) \in Nat
  BY DEF Known, Sound
<1>2. /\ \A c \in Op \ {"read_client"} : Same(x, o, c)
      /\ Out(o, "read_client") <= 1 => Ready(x, "read_client") /\ Waiting(o, "read_client")
      /\ Out(o, "read_client") >= 1
  BY <1>1, Names, Settling
<1>3. Underway(s, h, o)
  BY KnownUnderway
<1>4. h = HttpDone
  BY <1>1, <1>2, <1>3, Nine DEF Underway
<1> HIDE DEF x
<1>5. /\ Same(x, o, "write_server") /\ Same(x, o, "connect")
      /\ Same(x, o, "read_server") /\ Same(x, o, "write_client")
  BY <1>2, Names
<1>6. Recent(q, v)
  BY <1>1, Names, Receiving DEF Order, Recent, Side
<1>7. Reached(s, x, k, u)
  BY <1>1, <1>5 DEF Order, Reached, Same
<1>8. Tunnelling(s, x, w, v, u)
  <2>1. Tunnelling(s, o, w, t, u)
    BY <1>1, <1>4 DEF Order
  <2>2. Ready(x, "read_client") /\ Waiting(o, "read_client") /\ Out(o, "write_server") = 0
    BY <1>1, <1>2, <1>4, <1>3, Nine DEF Underway
  <2>3. None(o, "write_server")
    BY <2>2, <1>1, Names, OutNone
  <2>4. ToLocal(x, v["client"], Len(u["server"]))
    BY <2>1, <2>2, <2>3, <1>1, <1>5 DEF Tunnelling, ToLocal, Ready, Waiting, None, Same
  <2>5. ToRemote(x, v["server"], Len(u["client"])) /\ DueLocal(x, w, u) /\ DueRemote(x, w, u)
    BY <2>1, <1>5 DEF Tunnelling, ToRemote, DueLocal, DueRemote, Same
  <2>6. s \notin {"connection_established", "ready_to_transfer_data"}
    BY <1>1, <1>2, Nine DEF Known, Sound, Shape, Counts
  <2> QED
    BY <2>1, <2>4, <2>5, <2>6 DEF Tunnelling
<1>9. Order(s, h, x, k, q, w, v, u)
  BY <1>4, <1>6, <1>7, <1>8, Responses DEF Order
<1> QED
  BY <1>9 DEF x

LEMMA AppendFacts ==
    ASSUME NEW S, NEW z \in Seq(S), NEW e \in S
    PROVE  /\ Len(Append(z, e)) = Len(z) + 1 /\ Append(z, e) # <<>>
           /\ Append(z, e)[Len(z) + 1] = e
           /\ \A i \in DOMAIN z : Append(z, e)[i] = z[i]
           /\ DOMAIN Append(z, e) = DOMAIN z \union {Len(z) + 1}
           /\ z # <<>> => 1 \in DOMAIN z
           /\ z = <<>> => Len(z) = 0
           /\ Len(z) \in Nat
OBVIOUS

LEMMA ServerSent ==
    ASSUME NEW s, NEW h, NEW o, NEW k, NEW r, NEW w, NEW t, NEW u, Known(s, h, o, k, r, w, t, u),
           o["write_server"]["pending"] > 0, NEW v,
           v["server"] = Append(u["server"], w["server"]), v["client"] = u["client"]
    PROVE  Order(s, h, Settle(o, "write_server", "ok"), k, r, w, t, v)
<1> DEFINE x == Settle(o, "write_server", "ok")
           m == Len(u["server"])
<1>1. /\ o \in OpsType /\ Order(s, h, o, k, r, w, t, u)
      /\ t["server"] \in Nat /\ t["client"] \in Nat
      /\ u["server"] \in Seq(Chunks) /\ w["server"] \in Chunks
  BY Names DEF Known, Sound
<1>2. /\ \A c \in Op \ {"write_server"} : Same(x, o, c)
      /\ Out(o, "write_server") <= 1 => Ready(x, "write_server") /\ Waiting(o, "write_server")
      /\ Out(o, "write_server") >= 1
  BY <1>1, Names, Settling
<1>3. Underway(s, h, o)
  BY KnownUnderway
<1>4. h \in {NoChunk, HttpDone} /\ Ready(x, "write_server") /\ Waiting(o, "write_server")
  BY <1>1, <1>2, <1>3, Nine DEF Underway
<1>5. /\ Len(v["server"]) = m + 1 /\ m \in Nat
      /\ v["server"][m + 1] = w["server"]
      /\ \A i \in DOMAIN u["server"] : v["server"][i] = u["server"][i]
      /\ DOMAIN v["server"] = DOMAIN u["server"] \union {m + 1}
  BY <1>1, AppendFacts
<1> HIDE DEF x, m
<1>6. /\ Same(x, o, "read_server") /\ Same(x, o, "connect")
      /\ Same(x, o, "read_client") /\ Same(x, o, "write_client")
  BY <1>2, Names
<1>7. Recent(r, t) /\ Reached(s, x, k, v)
  BY <1>1, <1>6 DEF Order, Reached, Same
<1>8. ASSUME h = NoChunk PROVE Refusing(s, x, k, w, t, v)
  <2>1. s = "erased"
    BY <1>1, <1>2, <1>3, <1>8, Nine DEF Underway
  <2>2. u["server"] = <<>> /\ w["server"] = HttpError500
    BY <1>1, <1>8, <1>4 DEF Order, Refusing
  <2>3. v["server"] = <<HttpError500>>
    BY <2>2
  <2> QED
    BY <2>1, <2>3, <1>1, <1>4, <1>8 DEF Order, Refusing, Ready
<1>9. ASSUME h = HttpDone PROVE Tunnelling(s, x, w, t, v)
  <2>1. Tunnelling(s, o, w, t, u)
    BY <1>1, <1>9 DEF Order
  <2>2. Out(o, "read_client") = 0
    BY <1>1, <1>2, <1>3, <1>9, Nine DEF Underway
  <2>3. None(o, "read_client")
    BY <2>2, <1>1, Names, OutNone
  <2>4. t["client"] = m
    BY <2>1, <1>4 DEF Tunnelling, ToLocal, Waiting, m
  <2>5. ToLocal(x, t["client"], Len(v["server"]))
    BY <2>3, <2>4, <1>4, <1>5, <1>6 DEF ToLocal, Ready, None, Same
  <2>6. w["server"] = Line(m)
    BY <2>1 DEF Tunnelling, DueLocal, m
  <2>7. SentLocal(v)
    BY <2>1, <2>6, <1>5 DEF Tunnelling, SentLocal
  <2>8. DueLocal(x, w, v) /\ DueRemote(x, w, v) /\ SentRemote(v)
    BY <2>1, <1>4, <1>6 DEF Tunnelling, DueLocal, DueRemote, SentRemote, Ready, Same
  <2>9. ToRemote(x, t["server"], Len(v["client"]))
    BY <2>1, <1>6 DEF Tunnelling, ToRemote, Same
  <2>10. s # "connection_established"
    BY <1>1, <1>2, Nine DEF Known, Sound, Shape, Counts
  <2> QED
    BY <2>1, <2>5, <2>7, <2>8, <2>9, <2>10 DEF Tunnelling
<1>10. Order(s, h, x, k, r, w, t, v)
  BY <1>4, <1>7, <1>8, <1>9, Responses DEF Order
<1> QED
  BY <1>10 DEF x

LEMMA ClientSent ==
    ASSUME NEW s, NEW h, NEW o, NEW k, NEW r, NEW w, NEW t, NEW u, Known(s, h, o, k, r, w, t, u),
           o["write_client"]["pending"] > 0, NEW v,
           v["client"] = Append(u["client"], w["client"]), v["server"] = u["server"]
    PROVE  Order(s, h, Settle(o, "write_client", "ok"), k, r, w, t, v)
<1> DEFINE x == Settle(o, "write_client", "ok")
           m == Len(u["client"])
<1>1. /\ o \in OpsType /\ Order(s, h, o, k, r, w, t, u)
      /\ t["server"] \in Nat /\ t["client"] \in Nat
      /\ u["client"] \in Seq(Chunks) /\ w["client"] \in Chunks
  BY Names DEF Known, Sound
<1>2. /\ \A c \in Op \ {"write_client"} : Same(x, o, c)
      /\ Out(o, "write_client") <= 1 => Ready(x, "write_client") /\ Waiting(o, "write_client")
      /\ Out(o, "write_client") >= 1
  BY <1>1, Names, Settling
<1>3. Underway(s, h, o)
  BY KnownUnderway
<1>4. h \in {HttpDone, Forwarded}
  BY <1>1, <1>2, <1>3, Nine DEF Underway
<1>5. /\ Len(v["client"]) = m + 1 /\ m \in Nat /\ v["client"] # <<>>
      /\ v["client"][m + 1] = w["client"]
      /\ \A i \in DOMAIN u["client"] : v["client"][i] = u["client"][i]
      /\ DOMAIN v["client"] = DOMAIN u["client"] \union {m + 1}
      /\ u["client"] # <<>> => 1 \in DOMAIN u["client"]
      /\ u["client"] = <<>> => m = 0
  BY <1>1, AppendFacts
<1> HIDE DEF x, m
<1>6. /\ Same(x, o, "read_server") /\ Same(x, o, "connect")
      /\ Same(x, o, "read_client") /\ Same(x, o, "write_server")
  BY <1>2, Names
<1>7. Recent(r, t) /\ Reached(s, x, k, v)
  BY <1>1 DEF Order, Reached
<1>8. ASSUME h = HttpDone PROVE Tunnelling(s, x, w, t, v)
  <2>1. Tunnelling(s, o, w, t, u)
    BY <1>1, <1>8 DEF Order
  <2>2. /\ Ready(x, "write_client") /\ Waiting(o, "write_client")
        /\ Out(o, "read_server") = 0
    BY <1>1, <1>2, <1>3, <1>8, Nine DEF Underway
  <2>3. None(o, "read_server")
    BY <2>2, <1>1, Names, OutNone
  <2>4. t["server"] = m + 2
    BY <2>1, <2>2 DEF Tunnelling, ToRemote, Waiting, m
  <2>5. ToRemote(x, t["server"], Len(v["client"]))
    BY <2>2, <2>3, <2>4, <1>5, <1>6 DEF ToRemote, Ready, None, Same
  <2>6. w["client"] = Chunk("server", m + 2)
    BY <2>1 DEF Tunnelling, DueRemote, m
  <2>7. SentRemote(v)
    BY <2>1, <2>6, <1>5 DEF Tunnelling, SentRemote
  <2>8. DueLocal(x, w, v) /\ DueRemote(x, w, v) /\ SentLocal(v)
    BY <2>1, <2>2, <1>6 DEF Tunnelling, DueLocal, DueRemote, SentLocal, Ready, Same
  <2>9. ToLocal(x, t["client"], Len(v["server"]))
    BY <2>1, <1>6 DEF Tunnelling, ToLocal, Same
  <2>10. s \notin {"connection_established", "ready_to_transfer_data"}
    BY <1>1, <1>2, <1>8, Nine DEF Known, Sound, Shape, Counts
  <2> QED
    BY <2>1, <2>5, <2>7, <2>8, <2>9, <2>10 DEF Tunnelling
<1>9. ASSUME h = Forwarded PROVE Forwarding(s, x, w, t, v)
  <2>1. Forwarding(s, o, w, t, u)
    BY <1>1, <1>9 DEF Order
  <2>2. v["client"][1] = Forwarded
    BY <2>1, <1>5 DEF Forwarding
  <2>3. InOrder(w["client"], t["server"], u["client"])
    BY <2>1 DEF Forwarding
  <2>4. InOrder(w["client"], t["server"], v["client"])
    BY <2>3, <1>1, SentInOrder
  <2>5. s # "connection_established"
    BY <1>1, <1>2, Nine DEF Known, Sound, Shape, Counts
  <2> QED
    BY <2>1, <2>2, <2>4, <2>5, <1>5 DEF Forwarding
<1>10. Order(s, h, x, k, r, w, t, v)
  BY <1>4, <1>7, <1>8, <1>9, Responses DEF Order
<1> QED
  BY <1>10 DEF x

LEMMA ConnectSucceeded ==
    ASSUME NEW s, NEW h, NEW o, NEW k, NEW r, NEW w, NEW t, NEW u, Known(s, h, o, k, r, w, t, u),
           o["connect"]["pending"] > 0, NEW l, l["client"] # "none"
    PROVE  Order(s, h, Settle(o, "connect", "ok"), l, r, w, t, u)
<1> DEFINE x == Settle(o, "connect", "ok")
<1>1. o \in OpsType /\ Order(s, h, o, k, r, w, t, u)
  BY DEF Known, Sound
<1>2. (\A c \in Op \ {"connect"} : Same(x, o, c)) /\ Out(o, "connect") >= 1
  BY <1>1, Names, Settling
<1>3. Underway(s, h, o)
  BY KnownUnderway
<1>4. h \in {HttpDone, Forwarded}
  BY <1>1, <1>2, <1>3, Nine DEF Underway
<1> HIDE DEF x
<1>5. /\ Same(x, o, "read_server") /\ Same(x, o, "write_client")
      /\ Same(x, o, "read_client") /\ Same(x, o, "write_server")
  BY <1>2, Names
<1>6. Recent(r, t) /\ Reached(s, x, l, u)
  BY <1>1 DEF Order, Reached
<1>7. ASSUME h = HttpDone PROVE Tunnelling(s, x, w, t, u)
  <2>1. Tunnelling(s, o, w, t, u)
    BY <1>1, <1>7 DEF Order
  <2>2. DueLocal(x, w, u) /\ DueRemote(x, w, u)
    BY <2>1, <1>5 DEF Tunnelling, DueLocal, DueRemote, Same
  <2>3. ToRemote(x, t["server"], Len(u["client"])) /\ ToLocal(x, t["client"], Len(u["server"]))
    BY <2>1, <1>5 DEF Tunnelling, ToRemote, ToLocal, Same
  <2> QED
    BY <2>1, <2>2, <2>3 DEF Tunnelling
<1>8. ASSUME h = Forwarded PROVE Forwarding(s, x, w, t, u)
  BY <1>1, <1>5, <1>8 DEF Order, Forwarding, Same
<1>9. Order(s, h, x, l, r, w, t, u)
  BY <1>4, <1>6, <1>7, <1>8, Responses DEF Order
<1> QED
  BY <1>9 DEF x

----
(* The handlers.  Before each, what its session knows:                     *)
Before(s, h, o, k, r, w, t, u) ==
    /\ Shape(s, h, o) /\ Chosen(s, h) /\ o \in OpsType
    /\ Order(s, h, o, k, r, w, t, u)
    /\ t["server"] \in Nat /\ t["client"] \in Nat
    /\ Len(u["server"]) \in Nat /\ Len(u["client"]) \in Nat

LEMMA KnownBefore ==
    ASSUME NEW s, NEW h, NEW o, NEW k, NEW r, NEW w, NEW t, NEW u, Known(s, h, o, k, r, w, t, u)
    PROVE  Before(s, h, o, k, r, w, t, u)
BY DEF Known, Sound, Before

(* A handler that starts one other operation, b, while b was not           *)
(* outstanding and its own operation a was so only once.                   *)
LEMMA Turn ==
    ASSUME NEW o \in OpsType, NEW a \in Op, NEW b \in Op, a # b, o[a]["ok"] > 0,
           Out(o, a) = 1, Out(o, b) = 0
    PROVE  /\ \A c \in Op \ {a, b} : Same(Issue(Retire(o, a, "ok"), b), o, c)
           /\ None(Issue(Retire(o, a, "ok"), b), a)
           /\ Waiting(Issue(Retire(o, a, "ok"), b), b)
           /\ Ready(o, a) /\ None(o, b)
<1> DEFINE x == Issue(Retire(o, a, "ok"), b)
<1>1. /\ \A c \in Op \ {a, b} : Same(x, o, c)
      /\ Undone(x, b) /\ (Done(x, b) <=> Done(o, b))
  BY ThenStands
<1>2. Ready(o, a) /\ None(o, b)
  BY OutReady, OutNone
<1>3. x \in OpsType /\ \A c \in Op : Out(x, c) =
        Out(o, c) + (IF c = b THEN 1 ELSE 0) - (IF c = a THEN 1 ELSE 0)
  BY ThenOut
<1> HIDE DEF x
<1>4. Out(x, a) = 0
  BY <1>3
<1>5. None(x, a)
  BY <1>3, <1>4, OutNone
<1> QED
  BY <1>1, <1>2, <1>5 DEF Waiting, None, x

LEMMA HandshakenOrder ==
    ASSUME NEW s, NEW h, NEW o, NEW k, NEW r, NEW w, NEW t, NEW u, Known(s, h, o, k, r, w, t, u),
           o["handshake"]["ok"] > 0
    PROVE  /\ s = "wait_request"
           /\ Order(s, h, Issue(Retire(o, "handshake", "ok"), "read_server"), k, r, w, t, u)
<1> DEFINE x == Issue(Retire(o, "handshake", "ok"), "read_server")
<1>1. Before(s, h, o, k, r, w, t, u) /\ o \in OpsType
  BY KnownBefore DEF Known
<1>2. Out(o, "handshake") >= 1
  BY <1>1, Names, PhaseNat
<1>3. s = "wait_request" /\ h = NoChunk
  BY <1>1, <1>2 DEF Before, Shape, Counts, Chosen
<1>4. /\ \A c \in Op \ {"handshake", "read_server"} : Same(x, o, c)
      /\ Done(x, "read_server") <=> Done(o, "read_server")
  BY <1>1, Names, ThenStands
<1> HIDE DEF x
<1>5. Same(x, o, "write_server") /\ Same(x, o, "write_client") /\ Same(x, o, "connect")
  BY <1>4, Names
<1>6. Recent(r, t) /\ Reached(s, x, k, u)
  BY <1>1, <1>5 DEF Before, Order, Reached, Same
<1>7. Refusing(s, x, k, w, t, u)
  BY <1>1, <1>3, <1>4, <1>5 DEF Before, Order, Refusing, Same
<1>8. Order(s, h, x, k, r, w, t, u)
  BY <1>3, <1>6, <1>7, Responses DEF Order
<1> QED
  BY <1>3, <1>8 DEF x

LEMMA AcceptedOrder ==
    ASSUME NEW h, NEW o, NEW k, NEW r, NEW w, NEW t, NEW u,
           Known("wait_request", h, o, k, r, w, t, u),
           o["read_server"]["ok"] > 0, NEW g \in {HttpDone, r["server"]}
    PROVE  /\ g \in {HttpDone, Forwarded}
           /\ Order("connection_established", g, Issue(Retire(o, "read_server", "ok"), "resolve"),
                    k, r, w, t, u)
<1> DEFINE x == Issue(Retire(o, "read_server", "ok"), "resolve")
<1>1. Before("wait_request", h, o, k, r, w, t, u) /\ o \in OpsType
  BY KnownBefore DEF Known
<1>2. /\ h = NoChunk /\ Refusing("wait_request", o, k, w, t, u) /\ Recent(r, t)
      /\ Done(o, "read_server")
  BY <1>1 DEF Before, Chosen, Order, Done
<1>3. /\ t["server"] = 1 /\ t["client"] = 0 /\ u["server"] = <<>> /\ u["client"] = <<>>
      /\ r["server"] = Forwarded
  BY <1>2, Names DEF Refusing, Recent, Forwarded
<1>4. Shape("connection_established", g, x) /\ x \in OpsType
  BY <1>1, Names, RequestShape, ThenType DEF Before
<1> HIDE DEF x
<1>5. /\ Out(x, "read_server") = 0 /\ Out(x, "write_client") = 0
      /\ Out(x, "read_client") = 0 /\ Out(x, "write_server") = 0
  BY <1>4 DEF Shape, Counts
<1>6. /\ None(x, "read_server") /\ None(x, "write_client")
      /\ None(x, "read_client") /\ None(x, "write_server")
  BY <1>4, <1>5, Names, OutNone
<1>7. Out(o, "connect") = 0
  BY <1>1 DEF Before, Shape, Counts
<1>8. ~Done(x, "connect")
  <2>1. "connect" \in Op \ {"read_server", "resolve"}
    BY Names
  <2>2. Same(x, o, "connect")
    BY <1>1, <2>1, Names, ThenStands DEF x
  <2>3. None(o, "connect")
    BY <1>1, <1>7, Names, OutNone
  <2> QED
    BY <2>2, <2>3 DEF Same, None
<1>9. Reached("connection_established", x, k, u)
  BY <1>3, <1>6, <1>8 DEF Reached, None
<1>10. Tunnelling("connection_established", x, w, t, u)
  BY <1>3, <1>6 DEF Tunnelling, SentLocal, SentRemote, DueLocal, DueRemote, ToRemote, ToLocal, None
<1>11. Forwarding("connection_established", x, w, t, u)
  BY <1>3, <1>6 DEF Forwarding, None
<1>12. g \in {HttpDone, Forwarded}
  BY <1>3
<1>13. Order("connection_established", g, x, k, r, w, t, u)
  BY <1>2, <1>9, <1>10, <1>11, <1>12, Responses DEF Order
<1> QED
  BY <1>12, <1>13 DEF x

LEMMA RefusedOrder ==
    ASSUME NEW h, NEW o, NEW k, NEW r, NEW w, NEW t, NEW u,
           Known("wait_request", h, o, k, r, w, t, u), o["read_server"]["ok"] > 0,
           NEW x, NEW l, NEW q, NEW v, l["client"] = "none" <=> k["client"] = "none",
           q["server"] = HttpError500, v["client"] = u["client"],
           \/ v["server"] = u["server"]
           \/ v["server"] = Append(u["server"], HttpError500) /\ x["write_server"]["pending"] = 0,
           ~Done(x, "connect"), x["write_client"]["pending"] = 0,
            x["write_server"]["pending"] \in Nat
    PROVE  Order("erased", h, x, l, r, q, t, v)
<1>1. Before("wait_request", h, o, k, r, w, t, u)
  BY KnownBefore
<1>2. h = NoChunk /\ Refusing("wait_request", o, k, w, t, u) /\ Recent(r, t)
  BY <1>1 DEF Before, Chosen, Order
<1>3. Reached("erased", x, l, v)
  BY <1>2 DEF Refusing, Reached
<1>4. \/ v["server"] = <<>>
      \/ v["server"] = <<HttpError500>> /\ x["write_server"]["pending"] = 0
  <2>1. u["server"] = <<>>
    BY <1>2 DEF Refusing
  <2>2. Append(u["server"], HttpError500) = <<HttpError500>>
    BY <2>1
  <2> QED
    BY <2>1, <2>2
<1>5. Refusing("erased", x, l, q, t, v)
  BY <1>2, <1>4 DEF Refusing
<1> QED
  BY <1>2, <1>3, <1>5, Responses DEF Order

LEMMA AnsweringOrder ==
    ASSUME NEW o, NEW k, NEW r, NEW w, NEW t, NEW u,
           Known("connection_established", HttpDone, o, k, r, w, t, u), o["connect"]["ok"] > 0,
           NEW q, q["server"] = HttpDone
    PROVE  Order("ready_to_transfer_data", HttpDone,
                 Issue(Retire(o, "connect", "ok"), "write_server"), k, r, q, t, u)
<1> DEFINE x == Issue(Retire(o, "connect", "ok"), "write_server")
<1>1. Before("connection_established", HttpDone, o, k, r, w, t, u) /\ o \in OpsType
  BY KnownBefore DEF Known
<1>2. /\ Recent(r, t) /\ Reached("connection_established", o, k, u)
      /\ Tunnelling("connection_established", o, w, t, u) /\ Done(o, "connect")
  BY <1>1 DEF Before, Order, Done
<1>3. t["server"] = 1 /\ u["client"] = <<>> /\ t["client"] = 0 /\ u["server"] = <<>>
  BY <1>2 DEF Tunnelling
<1>4. Shape("ready_to_transfer_data", HttpDone, x) /\ x \in OpsType
  BY <1>1, Names, AnswerShape, ThenType DEF Before
<1>5. Out(o, "connect") = 1 /\ Out(o, "write_server") = 0
  <2>1. Out(o, "connect") >= 1
    BY <1>1, Names, PhaseNat
  <2> QED
    BY <1>1, <2>1, Nine DEF Before, Shape, Counts
<1>6. Waiting(x, "write_server")
  BY <1>1, <1>5, Names, Turn
<1> HIDE DEF x
<1>7. Out(x, "read_server") = 0 /\ Out(x, "write_client") = 0 /\ Out(x, "read_client") = 0
  BY <1>4 DEF Shape, Counts
<1>8. None(x, "read_server") /\ None(x, "write_client") /\ None(x, "read_client")
  BY <1>4, <1>7, Names, OutNone
<1>9. Reached("ready_to_transfer_data", x, k, u)
  BY <1>2 DEF Reached
<1>10. DueLocal(x, q, u) /\ DueRemote(x, q, u)
  BY <1>3, <1>8 DEF DueLocal, DueRemote, Line, None
<1>11. ToRemote(x, t["server"], Len(u["client"])) /\ ToLocal(x, t["client"], Len(u["server"]))
  BY <1>3, <1>6, <1>8 DEF ToRemote, ToLocal, None, Waiting
<1>12. Order("ready_to_transfer_data", HttpDone, x, k, r, q, t, u)
  BY <1>2, <1>3, <1>9, <1>10, <1>11, Responses DEF Order, Tunnelling
<1> QED
  BY <1>12 DEF x

LEMMA ForwardingOrder ==
    ASSUME NEW o, NEW k, NEW r, NEW w, NEW t, NEW u,
           Known("connection_established", Forwarded, o, k, r, w, t, u), o["connect"]["ok"] > 0,
           NEW q, q["client"] = Forwarded
    PROVE  Order("ready_to_transfer_data", Forwarded,
                 Issue(Retire(o, "connect", "ok"), "write_client"), k, r, q, t, u)
<1> DEFINE x == Issue(Retire(o, "connect", "ok"), "write_client")
<1>1. Before("connection_established", Forwarded, o, k, r, w, t, u) /\ o \in OpsType
  BY KnownBefore DEF Known
<1>2. /\ Recent(r, t) /\ Reached("connection_established", o, k, u)
      /\ Forwarding("connection_established", o, w, t, u) /\ Done(o, "connect")
  BY <1>1 DEF Before, Order, Done
<1>3. Out(o, "connect") = 1 /\ Out(o, "write_client") = 0
  <2>1. Out(o, "connect") >= 1
    BY <1>1, Names, PhaseNat
  <2> QED
    BY <1>1, <2>1, Nine DEF Before, Shape, Counts
<1>4. Waiting(x, "write_client")
  BY <1>1, <1>3, Names, Turn
<1> HIDE DEF x
<1>5. Reached("ready_to_transfer_data", x, k, u)
  BY <1>2 DEF Reached
<1>6. u["client"] = <<>> /\ InOrder(q["client"], t["server"], u["client"])
  BY <1>1, <1>2 DEF Before, Forwarding, InOrder, Forwarded, Chunk
<1>7. Forwarding("ready_to_transfer_data", x, q, t, u)
  BY <1>2, <1>4, <1>6 DEF Forwarding, Waiting
<1>8. Order("ready_to_transfer_data", Forwarded, x, k, r, q, t, u)
  BY <1>2, <1>5, <1>7, Responses DEF Order
<1> QED
  BY <1>8 DEF x

LEMMA AnswerWrittenOrder ==
    ASSUME NEW h, NEW o, NEW k, NEW r, NEW w, NEW t, NEW u,
           Known("ready_to_transfer_data", h, o, k, r, w, t, u), o["write_server"]["ok"] > 0
    PROVE  Order("data_transfer_mode", h,
                 Issue(Issue(Retire(o, "write_server", "ok"), "read_server"), "read_client"),
                 k, r, w, t, u)
<1> DEFINE y == Issue(Retire(o, "write_server", "ok"), "read_server")
           x == Issue(y, "read_client")
<1>1. Before("ready_to_transfer_data", h, o, k, r, w, t, u) /\ o \in OpsType
  BY KnownBefore DEF Known
<1>2. h = HttpDone /\ Shape("data_transfer_mode", h, x)
  BY <1>1, PumpShape DEF Before
<1>3. y \in OpsType /\ x \in OpsType
  BY <1>1, Names, ThenType, IssueOut
<1>4. /\ Recent(r, t) /\ Reached("ready_to_transfer_data", o, k, u)
      /\ Tunnelling("ready_to_transfer_data", o, w, t, u) /\ Done(o, "write_server")
  BY <1>1, <1>2 DEF Before, Order, Done
<1>5. t["server"] = 1 /\ u["client"] = <<>> /\ Len(u["server"]) = t["client"] + 1
  BY <1>4 DEF Tunnelling, ToLocal
<1>6. Undone(x, "read_client") /\ Undone(y, "read_server") /\ Same(x, y, "read_server")
  BY <1>1, <1>3, Names, ThenStands, IssueStands
<1> HIDE DEF x, y
<1>7. Undone(x, "read_server") /\ Undone(x, "read_client")
  BY <1>6 DEF Same
<1>8. Out(x, "read_server") >= 1 /\ Out(x, "read_client") >= 1
  BY <1>3, <1>7, Names, PhaseNat DEF Undone
<1>9. /\ Out(x, "read_server") = 1 /\ Out(x, "read_client") = 1
      /\ Out(x, "write_server") = 0 /\ Out(x, "write_client") = 0
  BY <1>2, <1>3, <1>8, Nine DEF Shape, Counts
<1>10. None(x, "write_server") /\ None(x, "write_client")
  BY <1>3, <1>9, Names, OutNone
<1>11. ~Done(x, "read_server") /\ ~Done(x, "read_client")
  BY <1>3, <1>7, <1>9, Names, OutReady DEF Done, Ready
<1>12. Reached("data_transfer_mode", x, k, u)
  BY <1>4 DEF Reached
<1>13. DueLocal(x, w, u) /\ DueRemote(x, w, u)
  BY <1>10 DEF DueLocal, DueRemote, None
<1>14. ToRemote(x, t["server"], Len(u["client"])) /\ ToLocal(x, t["client"], Len(u["server"]))
  BY <1>5, <1>7, <1>10, <1>11 DEF ToRemote, ToLocal, None
<1>15. Order("data_transfer_mode", h, x, k, r, w, t, u)
  BY <1>2, <1>4, <1>12, <1>13, <1>14, Responses DEF Order, Tunnelling
<1> QED
  BY <1>15 DEF x, y

LEMMA RequestWrittenOrder ==
    ASSUME NEW h, NEW o, NEW k, NEW r, NEW w, NEW t, NEW u,
           Known("ready_to_transfer_data", h, o, k, r, w, t, u), o["write_client"]["ok"] > 0
    PROVE  Order("data_transfer_mode", h,
                 Issue(Issue(Retire(o, "write_client", "ok"), "read_server"), "read_server"),
                 k, r, w, t, u)
<1> DEFINE x == Issue(Issue(Retire(o, "write_client", "ok"), "read_server"), "read_server")
<1>1. Before("ready_to_transfer_data", h, o, k, r, w, t, u) /\ o \in OpsType
  BY KnownBefore DEF Known
<1>2. h = Forwarded
  BY <1>1, TwoReadsShape, Responses DEF Before, Chosen
<1>3. /\ Recent(r, t) /\ Reached("ready_to_transfer_data", o, k, u)
      /\ Forwarding("ready_to_transfer_data", o, w, t, u) /\ Done(o, "write_client")
  BY <1>1, <1>2 DEF Before, Order, Done
<1> HIDE DEF x
<1>4. Reached("data_transfer_mode", x, k, u)
  BY <1>3 DEF Reached
<1>5. Forwarding("data_transfer_mode", x, w, t, u)
  BY <1>3 DEF Forwarding
<1>6. Order("data_transfer_mode", h, x, k, r, w, t, u)
  BY <1>2, <1>3, <1>4, <1>5, Responses DEF Order
<1> QED
  BY <1>6 DEF x

(* A transfer of a session that is not a tunnel: whatever its two reads of *)
(* the local peer do to each other, it only ever sends a newer message.    *)
LEMMA LooseOrder ==
    ASSUME NEW o, NEW k, NEW r, NEW w, NEW t, NEW u, NEW x, NEW q,
           Known("data_transfer_mode", Forwarded, o, k, r, w, t, u),
           q["client"] \in {w["client"], r["server"]}
    PROVE  Order("data_transfer_mode", Forwarded, x, k, r, q, t, u)
<1>1. Order("data_transfer_mode", Forwarded, o, k, r, w, t, u)
  BY DEF Known, Sound
<1>2. Reached("data_transfer_mode", x, k, u)
  BY <1>1 DEF Order, Reached
<1>3. /\ Forwarding("data_transfer_mode", o, w, t, u) /\ Recent(r, t)
      /\ w["client"] \in Chunks /\ r["server"] \in Chunks
      /\ u["client"] \in Seq(Chunks) /\ t["server"] \in Nat
  BY <1>1, Names DEF Order, Known
<1>4. u["client"] # <<>> /\ InOrder(w["client"], t["server"], u["client"])
  BY <1>3 DEF Forwarding
<1>5. InOrder(r["server"], t["server"], u["client"])
  <2>1. r["server"] = Chunk("server", t["server"])
    BY <1>3, Names DEF Forwarding, Recent
  <2>2. r["server"].kind = "server" /\ r["server"].n = t["server"]
    BY <2>1 DEF Chunk
  <2>3. w["client"].n <= t["server"]
    BY <1>4 DEF InOrder
  <2> QED
    BY <1>3, <1>4, <2>2, <2>3, LaterInOrder
<1>6. InOrder(q["client"], t["server"], u["client"])
  BY <1>4, <1>5
<1>7. Forwarding("data_transfer_mode", x, q, t, u)
  BY <1>3, <1>4, <1>6 DEF Forwarding
<1> QED
  BY <1>1, <1>2, <1>7, Responses DEF Order

(* What a tunnel has outstanding while it relays.                          *)
LEMMA TunnelOut ==
    ASSUME NEW o, NEW k, NEW r, NEW w, NEW t, NEW u,
           Known("data_transfer_mode", HttpDone, o, k, r, w, t, u)
    PROVE  /\ Out(o, "read_server") + Out(o, "write_client") = 1
           /\ Out(o, "read_client") + Out(o, "write_server") = 1
           /\ o \in OpsType
           /\ Recent(r, t) /\ Reached("data_transfer_mode", o, k, u)
           /\ Tunnelling("data_transfer_mode", o, w, t, u)
           /\ t["server"] \in Nat /\ t["client"] \in Nat
           /\ Len(u["server"]) \in Nat /\ Len(u["client"]) \in Nat
BY DEF Known, Sound, Shape, Counts, Order

LEMMA OneOfTwo ==
    ASSUME NEW o \in OpsType, NEW a \in Op, NEW b \in Op, a # b, o[a]["ok"] > 0,
           Out(o, a) + Out(o, b) = 1
    PROVE  /\ \A c \in Op \ {a, b} : Same(Issue(Retire(o, a, "ok"), b), o, c)
           /\ None(Issue(Retire(o, a, "ok"), b), a)
           /\ Waiting(Issue(Retire(o, a, "ok"), b), b)
           /\ Ready(o, a) /\ None(o, b)
<1>1. Out(o, a) = 1 /\ Out(o, b) = 0
  BY PhaseNat, OutNat
<1> QED
  BY <1>1, Turn

LEMMA ServerReadOrder ==
    ASSUME NEW o, NEW k, NEW r, NEW w, NEW t, NEW u,
           Known("data_transfer_mode", HttpDone, o, k, r, w, t, u), o["read_server"]["ok"] > 0,
           NEW q, q["client"] = r["server"], q["server"] = w["server"]
    PROVE  Order("data_transfer_mode", HttpDone,
                 Issue(Retire(o, "read_server", "ok"), "write_client"), k, r, q, t, u)
<1> DEFINE x == Issue(Retire(o, "read_server", "ok"), "write_client")
<1>1. /\ o \in OpsType /\ Out(o, "read_server") + Out(o, "write_client") = 1
      /\ Recent(r, t) /\ Reached("data_transfer_mode", o, k, u)
      /\ Tunnelling("data_transfer_mode", o, w, t, u)
      /\ t["server"] \in Nat /\ Len(u["client"]) \in Nat
  BY TunnelOut
<1>2. /\ \A c \in Op \ {"read_server", "write_client"} : Same(x, o, c)
      /\ None(x, "read_server") /\ Waiting(x, "write_client") /\ Ready(o, "read_server")
  BY <1>1, Names, OneOfTwo
<1> HIDE DEF x
<1>3. Same(x, o, "read_client") /\ Same(x, o, "write_server")
  BY <1>2, Names
<1>4. t["server"] = Len(u["client"]) + 2
  BY <1>1, <1>2 DEF Tunnelling, ToRemote, Ready
<1>5. ToRemote(x, t["server"], Len(u["client"]))
  BY <1>2, <1>4 DEF ToRemote, None, Waiting
<1>6. ToLocal(x, t["client"], Len(u["server"]))
  BY <1>1, <1>3 DEF Tunnelling, ToLocal, Same
<1>7. r["server"] = Chunk("server", t["server"])
  BY <1>1, <1>4, Names DEF Recent
<1>8. DueRemote(x, q, u)
  BY <1>4, <1>7 DEF DueRemote
<1>9. DueLocal(x, q, u)
  BY <1>1, <1>3 DEF Tunnelling, DueLocal, Same
<1>10. Reached("data_transfer_mode", x, k, u)
  BY <1>1 DEF Reached
<1>11. Tunnelling("data_transfer_mode", x, q, t, u)
  BY <1>1, <1>5, <1>6, <1>8, <1>9 DEF Tunnelling
<1>12. Order("data_transfer_mode", HttpDone, x, k, r, q, t, u)
  BY <1>1, <1>10, <1>11, Responses DEF Order
<1> QED
  BY <1>12 DEF x

LEMMA ClientReadOrder ==
    ASSUME NEW o, NEW k, NEW r, NEW w, NEW t, NEW u,
           Known("data_transfer_mode", HttpDone, o, k, r, w, t, u), o["read_client"]["ok"] > 0,
           NEW q, q["server"] = r["client"], q["client"] = w["client"]
    PROVE  Order("data_transfer_mode", HttpDone,
                 Issue(Retire(o, "read_client", "ok"), "write_server"), k, r, q, t, u)
<1> DEFINE x == Issue(Retire(o, "read_client", "ok"), "write_server")
<1>1. /\ o \in OpsType /\ Out(o, "read_client") + Out(o, "write_server") = 1
      /\ Recent(r, t) /\ Reached("data_transfer_mode", o, k, u)
      /\ Tunnelling("data_transfer_mode", o, w, t, u)
      /\ t["client"] \in Nat /\ Len(u["server"]) \in Nat
  BY TunnelOut
<1>2. /\ \A c \in Op \ {"read_client", "write_server"} : Same(x, o, c)
      /\ None(x, "read_client") /\ Waiting(x, "write_server") /\ Ready(o, "read_client")
  BY <1>1, Names, OneOfTwo
<1> HIDE DEF x
<1>3. Same(x, o, "read_server") /\ Same(x, o, "write_client")
  BY <1>2, Names
<1>4. Len(u["server"]) = t["client"] /\ Len(u["server"]) >= 1
  BY <1>1, <1>2 DEF Tunnelling, ToLocal, Ready
<1>5. ToLocal(x, t["client"], Len(u["server"]))
  BY <1>2, <1>4 DEF ToLocal, None, Waiting
<1>6. ToRemote(x, t["server"], Len(u["client"]))
  BY <1>1, <1>3 DEF Tunnelling, ToRemote, Same
<1>7. r["client"] = Chunk("client", t["client"])
  BY <1>1, <1>4, Names DEF Recent
<1>8. DueLocal(x, q, u)
  BY <1>4, <1>7 DEF DueLocal, Line
<1>9. DueRemote(x, q, u)
  BY <1>1, <1>3 DEF Tunnelling, DueRemote, Same
<1>10. Reached("data_transfer_mode", x, k, u)
  BY <1>1 DEF Reached
<1>11. Tunnelling("data_transfer_mode", x, q, t, u)
  BY <1>1, <1>5, <1>6, <1>8, <1>9 DEF Tunnelling
<1>12. Order("data_transfer_mode", HttpDone, x, k, r, q, t, u)
  BY <1>1, <1>10, <1>11, Responses DEF Order
<1> QED
  BY <1>12 DEF x

LEMMA ServerWrittenOrder ==
    ASSUME NEW o, NEW k, NEW r, NEW w, NEW t, NEW u,
           Known("data_transfer_mode", HttpDone, o, k, r, w, t, u), o["write_server"]["ok"] > 0
    PROVE  Order("data_transfer_mode", HttpDone,
                 Issue(Retire(o, "write_server", "ok"), "read_client"), k, r, w, t, u)
<1> DEFINE x == Issue(Retire(o, "write_server", "ok"), "read_client")
<1>1. /\ o \in OpsType /\ Out(o, "write_server") + Out(o, "read_client") = 1
      /\ Recent(r, t) /\ Reached("data_transfer_mode", o, k, u)
      /\ Tunnelling("data_transfer_mode", o, w, t, u)
      /\ t["client"] \in Nat /\ Len(u["server"]) \in Nat
  BY TunnelOut, Nine
<1>2. /\ \A c \in Op \ {"write_server", "read_client"} : Same(x, o, c)
      /\ None(x, "write_server") /\ Waiting(x, "read_client") /\ Ready(o, "write_server")
  BY <1>1, Names, OneOfTwo
<1> HIDE DEF x
<1>3. Same(x, o, "read_server") /\ Same(x, o, "write_client")
  BY <1>2, Names
<1>4. Len(u["server"]) = t["client"] + 1
  BY <1>1, <1>2 DEF Tunnelling, ToLocal, Ready
<1>5. ToLocal(x, t["client"], Len(u["server"]))
  BY <1>2, <1>4 DEF ToLocal, None, Waiting
<1>6. ToRemote(x, t["server"], Len(u["client"]))
  BY <1>1, <1>3 DEF Tunnelling, ToRemote, Same
<1>7. DueLocal(x, w, u)
  BY <1>2 DEF DueLocal, None
<1>8. DueRemote(x, w, u)
  BY <1>1, <1>3 DEF Tunnelling, DueRemote, Same
<1>9. Reached("data_transfer_mode", x, k, u)
  BY <1>1 DEF Reached
<1>10. Tunnelling("data_transfer_mode", x, w, t, u)
  BY <1>1, <1>5, <1>6, <1>7, <1>8 DEF Tunnelling
<1>11. Order("data_transfer_mode", HttpDone, x, k, r, w, t, u)
  BY <1>1, <1>9, <1>10, Responses DEF Order
<1> QED
  BY <1>11 DEF x

LEMMA ClientWrittenOrder ==
    ASSUME NEW o, NEW k, NEW r, NEW w, NEW t, NEW u,
           Known("data_transfer_mode", HttpDone, o, k, r, w, t, u), o["write_client"]["ok"] > 0
    PROVE  Order("data_transfer_mode", HttpDone,
                 Issue(Retire(o, "write_client", "ok"), "read_server"), k, r, w, t, u)
<1> DEFINE x == Issue(Retire(o, "write_client", "ok"), "read_server")
<1>1. /\ o \in OpsType /\ Out(o, "write_client") + Out(o, "read_server") = 1
      /\ Recent(r, t) /\ Reached("data_transfer_mode", o, k, u)
      /\ Tunnelling("data_transfer_mode", o, w, t, u)
      /\ t["server"] \in Nat /\ Len(u["client"]) \in Nat
  BY TunnelOut, Nine
<1>2. /\ \A c \in Op \ {"write_client", "read_server"} : Same(x, o, c)
      /\ None(x, "write_client") /\ Waiting(x, "read_server") /\ Ready(o, "write_client")
  BY <1>1, Names, OneOfTwo
<1> HIDE DEF x
<1>3. Same(x, o, "read_client") /\ Same(x, o, "write_server")
  BY <1>2, Names
<1>4. t["server"] = Len(u["client"]) + 1
  BY <1>1, <1>2 DEF Tunnelling, ToRemote, Ready
<1>5. ToRemote(x, t["server"], Len(u["client"]))
  BY <1>2, <1>4 DEF ToRemote, None, Waiting
<1>6. ToLocal(x, t["client"], Len(u["server"]))
  BY <1>1, <1>3 DEF Tunnelling, ToLocal, Same
<1>7. DueRemote(x, w, u)
  BY <1>2 DEF DueRemote, None
<1>8. DueLocal(x, w, u)
  BY <1>1, <1>3 DEF Tunnelling, DueLocal, Same
<1>9. Reached("data_transfer_mode", x, k, u)
  BY <1>1 DEF Reached
<1>10. Tunnelling("data_transfer_mode", x, w, t, u)
  BY <1>1, <1>5, <1>6, <1>7, <1>8 DEF Tunnelling
<1>11. Order("data_transfer_mode", HttpDone, x, k, r, w, t, u)
  BY <1>1, <1>9, <1>10, Responses DEF Order
<1> QED
  BY <1>11 DEF x

LEMMA SameOrder ==
    ASSUME NEW s, NEW h, NEW o, NEW k, NEW r, NEW w, NEW t, NEW u, Known(s, h, o, k, r, w, t, u),
           NEW x, \A c \in Carriers \union {"connect"} : Same(x, o, c)
    PROVE  Order(s, h, x, k, r, w, t, u)
<1>1. Order(s, h, o, k, r, w, t, u)
  BY DEF Known, Sound
<1>2. (\A c \in Carriers : Fewer(x, o, c)) /\ (Done(x, "connect") => Done(o, "connect"))
  BY DEF Same, Fewer
<1>3. Done(x, "read_server") <=> Done(o, "read_server")
  BY DEF Same, Carriers
<1> QED
  BY <1>1, <1>2, <1>3, FewerOrder

----
(* One step on one session: what becomes of it, and that nothing becomes   *)
(* of the others.                                                          *)
Becomes(id, s, h, o, k, r, w, t, u) ==
    /\ state'[id] = s /\ response'[id] = h /\ ops'[id] = o /\ sock'[id] = k
    /\ rbuf'[id] = r /\ wbuf'[id] = w /\ taken'[id] = t /\ out'[id] = u

OthersSame(id) ==
    /\ stream_id' = stream_id
    /\ \A i \in Ids \ {id} :
         Becomes(i, state[i], response[i], ops[i], sock[i], rbuf[i], wbuf[i], taken[i], out[i])

LEMMA OneSession ==
    ASSUME HInv, NEW id \in Ids, NEW op \in Op, NEW p \in Phase, ops[id][op][p] > 0,
           OthersSame(id), NEW s, NEW h, NEW o, NEW k, NEW r, NEW w, NEW t, NEW u,
           Becomes(id, s, h, o, k, r, w, t, u), Sound(s, h, o, k, r, w, t, u)
    PROVE  FreshId' /\ \A i \in Ids : SoundOf(i)'
<1>1. SoundOf(id)'
  BY DEF Becomes, SoundOf
<1>2. ASSUME NEW i \in Ids \ {id} PROVE SoundOf(i)'
  <2>1. SoundOf(i)
    BY DEF HInv
  <2> QED
    BY <2>1 DEF SoundOf, OthersSame, Becomes
<1>3. FreshId'
  <2>1. \A i \in Ids \ {id} : ops'[i] = ops[i] /\ state'[i] = state[i] /\ sock'[i] = sock[i]
    BY DEF OthersSame, Becomes
  <2> QED
    BY <2>1, StillFresh, Typed DEF HInv, OthersSame
<1> QED
  BY <1>1, <1>2, <1>3

LEMMA KernelSound ==
    ASSUME HInv, NEW id \in Ids, KernelStep(id)
    PROVE  FreshId' /\ \A i \in Ids : SoundOf(i)'
<1> USE Names
<1> DEFINE s == state[id]  h == response[id]  o == ops[id]  k == sock[id]
           r == rbuf[id]   w == wbuf[id]      t == taken[id]  u == out[id]
           X(op, p) == Settle(o, op, p)
<1>1. Known(s, h, o, k, r, w, t, u) /\ o \in OpsType /\ Shape(s, h, o) /\ Chosen(s, h)
  BY Facts DEF KnownOf, Known, Sound
<1>2. ASSUME NEW op \in Op, NEW p \in {"ok", "error"}, o[op]["pending"] > 0
      PROVE  Shape(s, h, X(op, p))
  BY <1>1, <1>2, SettleOut, SameShape
<1>3. "pending" \in Phase
  BY DEF Phase
<1>4. CASE Receive(id, "server")
  <2> DEFINE q == [r EXCEPT !["server"] = Chunk("server", t["server"] + 1)]
             v == [t EXCEPT !["server"] = t["server"] + 1]
  <2>1. OthersSame(id) /\ Becomes(id, s, h, X("read_server", "ok"), k, q, w, v, u)
    BY <1>4 DEF HInv, TypeOK, KernelStep, Receive, ReadOp, OthersSame, Becomes, listener
  <2>2. o["read_server"]["pending"] > 0
    BY <1>4 DEF Receive, Pending, ReadOp
  <2>3. /\ q["server"] = Chunk("server", t["server"] + 1) /\ q["client"] = r["client"]
        /\ v["server"] = t["server"] + 1 /\ v["client"] = t["client"]
    BY <1>1 DEF Known
  <2> HIDE DEF s, h, o, k, r, w, t, u, q, v
  <2>4. Order(s, h, X("read_server", "ok"), k, q, w, v, u)
    BY <1>1, <2>2, <2>3, ServerReceived
  <2>5. Sound(s, h, X("read_server", "ok"), k, q, w, v, u)
    BY <1>1, <1>2, <2>2, <2>4 DEF Sound
  <2> QED
    BY <1>3, <2>1, <2>2, <2>5, OneSession DEF o
<1>5. CASE Receive(id, "client")
  <2> DEFINE q == [r EXCEPT !["client"] = Chunk("client", t["client"] + 1)]
             v == [t EXCEPT !["client"] = t["client"] + 1]
  <2>1. OthersSame(id) /\ Becomes(id, s, h, X("read_client", "ok"), k, q, w, v, u)
    BY <1>5 DEF HInv, TypeOK, KernelStep, Receive, ReadOp, OthersSame, Becomes, listener
  <2>2. o["read_client"]["pending"] > 0
    BY <1>5 DEF Receive, Pending, ReadOp
  <2>3. /\ q["client"] = Chunk("client", t["client"] + 1) /\ q["server"] = r["server"]
        /\ v["client"] = t["client"] + 1 /\ v["server"] = t["server"]
    BY <1>1 DEF Known
  <2> HIDE DEF s, h, o, k, r, w, t, u, q, v
  <2>4. Order(s, h, X("read_client", "ok"), k, q, w, v, u)
    BY <1>1, <2>2, <2>3, ClientReceived
  <2>5. Sound(s, h, X("read_client", "ok"), k, q, w, v, u)
    BY <1>1, <1>2, <2>2, <2>4 DEF Sound
  <2> QED
    BY <1>3, <2>1, <2>2, <2>5, OneSession DEF o
<1>6. CASE Send(id, "server")
  <2> DEFINE v == [u EXCEPT !["server"] = Append(u["server"], w["server"])]
  <2>1. OthersSame(id) /\ Becomes(id, s, h, X("write_server", "ok"), k, r, w, t, v)
    BY <1>6 DEF HInv, TypeOK, KernelStep, Send, WriteOp, OthersSame, Becomes, listener, buffers
  <2>2. o["write_server"]["pending"] > 0
    BY <1>6 DEF Send, Pending, WriteOp
  <2>3. v["server"] = Append(u["server"], w["server"]) /\ v["client"] = u["client"]
    BY <1>1 DEF Known
  <2> HIDE DEF s, h, o, k, r, w, t, u, v
  <2>4. Order(s, h, X("write_server", "ok"), k, r, w, t, v)
    BY <1>1, <2>2, <2>3, ServerSent
  <2>5. Sound(s, h, X("write_server", "ok"), k, r, w, t, v)
    BY <1>1, <1>2, <2>2, <2>4 DEF Sound
  <2> QED
    BY <1>3, <2>1, <2>2, <2>5, OneSession DEF o
<1>7. CASE Send(id, "client")
  <2> DEFINE v == [u EXCEPT !["client"] = Append(u["client"], w["client"])]
  <2>1. OthersSame(id) /\ Becomes(id, s, h, X("write_client", "ok"), k, r, w, t, v)
    BY <1>7 DEF HInv, TypeOK, KernelStep, Send, WriteOp, OthersSame, Becomes, listener, buffers
  <2>2. o["write_client"]["pending"] > 0
    BY <1>7 DEF Send, Pending, WriteOp
  <2>3. v["client"] = Append(u["client"], w["client"]) /\ v["server"] = u["server"]
    BY <1>1 DEF Known
  <2> HIDE DEF s, h, o, k, r, w, t, u, v
  <2>4. Order(s, h, X("write_client", "ok"), k, r, w, t, v)
    BY <1>1, <2>2, <2>3, ClientSent
  <2>5. Sound(s, h, X("write_client", "ok"), k, r, w, t, v)
    BY <1>1, <1>2, <2>2, <2>4 DEF Sound
  <2> QED
    BY <1>3, <2>1, <2>2, <2>5, OneSession DEF o
<1>8. CASE Succeed(id, "connect")
  <2> DEFINE l == [k EXCEPT !["client"] = "open"]
  <2>1. OthersSame(id) /\ Becomes(id, s, h, X("connect", "ok"), l, r, w, t, u)
    BY <1>8 DEF HInv, TypeOK, KernelStep, Succeed, OthersSame, Becomes, listener, buffers, peers
  <2>2. o["connect"]["pending"] > 0
    BY <1>8 DEF Succeed, Pending
  <2>3. l["client"] # "none"
    BY <1>1 DEF Known
  <2> HIDE DEF s, h, o, k, r, w, t, u, l
  <2>4. Order(s, h, X("connect", "ok"), l, r, w, t, u)
    BY <1>1, <2>2, <2>3, ConnectSucceeded
  <2>5. Sound(s, h, X("connect", "ok"), l, r, w, t, u)
    BY <1>1, <1>2, <2>2, <2>4 DEF Sound
  <2> QED
    BY <1>3, <2>1, <2>2, <2>5, OneSession DEF o
<1>9. ASSUME NEW op \in Op, Succeed(id, op), op # "connect"
      PROVE  FreshId' /\ \A i \in Ids : SoundOf(i)'
  <2>1. OthersSame(id) /\ Becomes(id, s, h, X(op, "ok"), k, r, w, t, u)
    BY <1>9 DEF HInv, TypeOK, KernelStep, Succeed, OthersSame, Becomes, listener, buffers, peers
  <2>2. o[op]["pending"] > 0 /\ op \notin Carriers \union {"connect"}
    BY <1>9 DEF Succeed, Pending, Carriers
  <2>3. Carriers \union {"connect"} \subseteq Op
    BY DEF Carriers
  <2> HIDE DEF s, h, o, k, r, w, t, u
  <2>4. \A c \in Carriers \union {"connect"} : Same(X(op, "ok"), o, c)
    BY <1>1, <2>2, <2>3, SettleStands
  <2>5. Order(s, h, X(op, "ok"), k, r, w, t, u)
    BY <1>1, <2>4, SameOrder
  <2>6. Sound(s, h, X(op, "ok"), k, r, w, t, u)
    BY <1>1, <1>2, <2>2, <2>5 DEF Sound
  <2> QED
    BY <1>3, <2>1, <2>2, <2>6, OneSession DEF o
<1>10. ASSUME NEW op \in Op, Fail(id, op)
       PROVE  FreshId' /\ \A i \in Ids : SoundOf(i)'
  <2>1. OthersSame(id) /\ Becomes(id, s, h, X(op, "error"), k, r, w, t, u)
    BY <1>10 DEF HInv, TypeOK, KernelStep, Fail, OthersSame, Becomes, listener, buffers, peers
  <2>2. o[op]["pending"] > 0
    BY <1>10 DEF Fail, Pending
  <2>3. Carriers \union {"connect"} \subseteq Op
    BY DEF Carriers
  <2> HIDE DEF s, h, o, k, r, w, t, u
  <2>4. /\ \A c \in Carriers : Fewer(X(op, "error"), o, c)
        /\ \A c \in Op : Done(X(op, "error"), c) <=> Done(o, c)
    BY <1>1, <2>2, <2>3, SettleStands
  <2>5. Order(s, h, X(op, "error"), k, r, w, t, u)
    BY <1>1, <2>4, FewerOrder DEF Known, Sound
  <2>6. Sound(s, h, X(op, "error"), k, r, w, t, u)
    BY <1>1, <1>2, <2>2, <2>5 DEF Sound
  <2> QED
    BY <1>3, <2>1, <2>2, <2>6, OneSession DEF o
<1> QED
  BY <1>4, <1>5, <1>6, <1>7, <1>8, <1>9, <1>10 DEF KernelStep, Kernel, Side

(* A completion that reaches no handler belongs to an erased session.      *)
LEMMA UnhandledErased ==
    ASSUME NEW s \in Sessions \union {"absent", "erased"}, NEW h, NEW o \in OpsType,
           Shape(s, h, o), NEW op \in Op \ {"shutdown", "null_write"}, Out(o, op) >= 1,
           s \in Sessions => op \notin Handles(s) \union {"handshake", "resolve"}
    PROVE  s = "erased"
<1> USE Nine
<1>1. op \in {"handshake", "read_server", "write_server", "resolve", "connect", "read_client",
              "write_client"}
  BY DEF Op, ServerOp, ClientOp
<1>2. s # "absent"
  BY <1>1 DEF Shape, Counts
<1>3. s # "wait_request"
  BY <1>1 DEF Shape, Counts, Handles, Sessions
<1>4. s # "connection_established"
  BY <1>1 DEF Shape, Counts, Handles, Sessions
<1>5. s # "ready_to_transfer_data"
  BY <1>1 DEF Shape, Counts, Handles, Sessions
<1>6. s # "data_transfer_mode"
  BY <1>1 DEF Shape, Counts, Handles, Sessions
<1> QED
  BY <1>2, <1>3, <1>4, <1>5, <1>6 DEF Sessions

LEMMA StopSound ==
    ASSUME HInv, NEW id \in Ids, NEW op \in Op, NEW p \in {"ok", "error"}, Live(id),
           Completed(id, op, p), Stop(id, op, p), response' = response
    PROVE  FreshId' /\ \A i \in Ids : SoundOf(i)'
<1> USE Names
<1> DEFINE s == state[id]  h == response[id]  o == ops[id]  k == sock[id]
           r == rbuf[id]   w == wbuf[id]      t == taken[id]  u == out[id]
           y == Retire(o, op, p)
           x == StopOps(y, k)
           l == StopSock(k)
<1>1. Known(s, h, o, k, r, w, t, u) /\ o \in OpsType /\ Shape(s, h, o) /\ Chosen(s, h)
  BY Facts DEF KnownOf, Known, Sound
<1>2. OthersSame(id) /\ Becomes(id, "erased", h, x, l, r, w, t, u)
  BY DEF HInv, TypeOK, Stop, OthersSame, Becomes, listener, buffers, peers
<1>3. o[op][p] > 0 /\ s \in Sessions /\ p \in Phase
  BY <1>1 DEF Completed, Live, Known, Phase
<1>4. (l["client"] = "none") <=> (k["client"] = "none")
  BY DEF StopSock, Side
<1>5. Shape("erased", h, x)
  BY <1>1, <1>3, StopShape
<1>6. (\A c \in Carriers : Fewer(x, o, c)) /\ (Done(x, "connect") => Done(o, "connect"))
  <2>1. Carriers \union {"connect"} \subseteq Op \ {"shutdown", "null_write"}
    BY DEF Carriers
  <2>2. y \in OpsType /\ \A c \in Op : Fewer(y, o, c)
    BY <1>1, <1>3, RetireFewer
  <2>3. \A c \in Op \ {"shutdown", "null_write"} : Same(x, y, c)
    BY <2>2, StopStands
  <2> HIDE DEF x, y
  <2> QED
    BY <2>1, <2>2, <2>3 DEF Same, Fewer
<1> HIDE DEF s, h, o, k, r, w, t, u, x, y, l
<1>7. Order("erased", h, x, l, r, w, t, u)
  BY <1>1, <1>4, <1>6, FewerOrder DEF Known, Sound
<1>8. Chosen("erased", h)
  BY <1>1 DEF Chosen
<1>9. Sound("erased", h, x, l, r, w, t, u)
  BY <1>5, <1>7, <1>8 DEF Sound
<1> QED
  BY <1>2, <1>3, <1>9, OneSession DEF o

(* The handlers of the streams.                                            *)
LEMMA StreamSound ==
    ASSUME HInv, NEW id \in Ids, Stream(id)
    PROVE  FreshId' /\ \A i \in Ids : SoundOf(i)'
<1> USE Names
<1> DEFINE s == state[id]  h == response[id]  o == ops[id]  k == sock[id]
           r == rbuf[id]   w == wbuf[id]      t == taken[id]  u == out[id]
           T(a, b) == Issue(Retire(o, a, "ok"), b)
<1>1. Known(s, h, o, k, r, w, t, u) /\ o \in OpsType /\ Shape(s, h, o) /\ Chosen(s, h)
  BY Facts DEF KnownOf, Known, Sound
<1>2. "ok" \in Phase /\ "error" \in Phase
  BY DEF Phase
<1>3. Carriers \union {"connect"} \subseteq Op \ {"shutdown", "null_write"}
  BY DEF Carriers
<1>4. CASE Handshaken(id)
  <2>1. OthersSame(id) /\ Becomes(id, s, h, T("handshake", "read_server"), k, r, w, t, u)
    BY <1>4 DEF Stream, HInv, TypeOK, Handshaken, Then, OthersSame, Becomes, listener,
         buffers, peers
  <2>2. o["handshake"]["ok"] > 0
    BY <1>4 DEF Handshaken, Completed
  <2> HIDE DEF s, h, o, k, r, w, t, u
  <2>3. /\ s = "wait_request"
        /\ Order(s, h, T("handshake", "read_server"), k, r, w, t, u)
    BY <1>1, <2>2, HandshakenOrder
  <2>4. Shape(s, h, T("handshake", "read_server"))
    BY <1>1, <2>2, <2>3, HandshakenShape
  <2>5. Sound(s, h, T("handshake", "read_server"), k, r, w, t, u)
    BY <1>1, <2>3, <2>4 DEF Sound
  <2> QED
    BY <1>2, <2>1, <2>2, <2>5, OneSession DEF o
<1>5. CASE Resolved(id)
  <2>1. OthersSame(id) /\ Becomes(id, s, h, T("resolve", "connect"), k, r, w, t, u)
    BY <1>5 DEF Stream, HInv, TypeOK, Resolved, Then, OthersSame, Becomes, listener, buffers, peers
  <2>2. o["resolve"]["ok"] > 0
    BY <1>5 DEF Resolved, Completed
  <2> HIDE DEF s, h, o, k, r, w, t, u
  <2>3. s = "connection_established"
    <3>1. Out(o, "resolve") >= 1
      BY <1>1, <2>2, PhaseNat
    <3> QED
      BY <3>1, <1>1 DEF Shape, Counts
  <2>4. Shape(s, h, T("resolve", "connect"))
    BY <1>1, <2>2, <2>3, ResolvedShape
  <2>5. /\ \A c \in Carriers : Fewer(T("resolve", "connect"), o, c)
        /\ Done(T("resolve", "connect"), "connect") => Done(o, "connect")
    <3>1. /\ \A c \in Op \ {"resolve", "connect"} : Same(T("resolve", "connect"), o, c)
          /\ Done(T("resolve", "connect"), "connect") <=> Done(o, "connect")
      BY <1>1, <2>2, ThenStands
    <3>2. Carriers \subseteq Op \ {"resolve", "connect"}
      BY DEF Carriers
    <3> QED
      BY <3>1, <3>2 DEF Same, Fewer
  <2>6. Order(s, h, T("resolve", "connect"), k, r, w, t, u)
    BY <1>1, <2>3, <2>5, FewerOrder DEF Known, Sound, Chosen
  <2>7. Sound(s, h, T("resolve", "connect"), k, r, w, t, u)
    BY <1>1, <2>4, <2>6 DEF Sound
  <2> QED
    BY <1>2, <2>1, <2>2, <2>7, OneSession DEF o
<1>6. CASE TlsClosed(id)
  <2>1. PICK op \in {"shutdown", "null_write"}, p \in {"ok", "error"} :
          Completed(id, op, p) /\ ops' = [ops EXCEPT ![id] = Retire(@, op, p)]
    BY <1>6 DEF TlsClosed
  <2> DEFINE x == Retire(o, op, p)
             l == [k EXCEPT !["server"] = "closed"]
  <2>2. OthersSame(id) /\ Becomes(id, s, h, x, l, r, w, t, u)
    BY <1>6, <2>1 DEF Stream, HInv, TypeOK, TlsClosed, OthersSame, Becomes, listener, buffers, peers
  <2>3. o[op][p] > 0 /\ op \in Op /\ p \in Phase
    BY <1>2, <2>1 DEF Completed
  <2>4. l["client"] = k["client"]
    BY <1>1 DEF Known
  <2>5. s = "erased"
    <3>1. Out(o, op) >= 1
      BY <1>1, <2>3, RetireOut
    <3> QED
      BY <3>1, <1>1 DEF Shape
  <2>6. x \in OpsType /\ \A c \in Op : Out(x, c) <= Out(o, c)
    BY <1>1, <2>3, RetireFewer
  <2>7. (\A c \in Carriers : Fewer(x, o, c)) /\ (Done(x, "connect") => Done(o, "connect"))
    BY <1>1, <1>3, <2>3, RetireFewer DEF Fewer
  <2> HIDE DEF s, h, o, k, r, w, t, u, x, l
  <2>8. Shape("erased", h, x)
    BY <1>1, <2>5, <2>6, <2>7, ErasedShape
  <2>9. Order("erased", h, x, l, r, w, t, u)
    BY <1>1, <2>4, <2>5, <2>7, FewerOrder DEF Known, Sound
  <2>10. Sound(s, h, x, l, r, w, t, u)
    BY <1>1, <2>5, <2>8, <2>9 DEF Sound
  <2> QED
    BY <2>2, <2>3, <2>10, OneSession DEF o
<1>7. CASE Dropped(id, Handles(state[id]))
  <2>1. PICK op \in Op \ {"shutdown", "null_write"}, p \in {"ok", "error"} :
          /\ p = "ok" => op \notin Handles(s) \union {"handshake", "resolve"}
          /\ p = "error" => ~Live(id)
          /\ Completed(id, op, p)
          /\ ops' = [ops EXCEPT ![id] = Retire(@, op, p)]
    BY <1>7 DEF Dropped
  <2> DEFINE x == Retire(o, op, p)
  <2>2. OthersSame(id) /\ Becomes(id, s, h, x, k, r, w, t, u)
    BY <1>7, <2>1 DEF Stream, HInv, TypeOK, Dropped, OthersSame, Becomes, listener, buffers, peers
  <2>3. o[op][p] > 0 /\ op \in Op /\ p \in Phase
    BY <1>2, <2>1 DEF Completed
  <2>4. s = "erased"
    <3>1. Out(o, op) >= 1
      BY <1>1, <2>3, RetireOut
    <3>2. s \in Sessions => p = "ok"
      BY <2>1 DEF Live, Sessions
    <3> QED
      BY <3>1, <3>2, <2>1, <1>1, UnhandledErased DEF Known
  <2>6. x \in OpsType /\ \A c \in Op : Out(x, c) <= Out(o, c)
    BY <1>1, <2>3, RetireFewer
  <2>7. (\A c \in Carriers : Fewer(x, o, c)) /\ (Done(x, "connect") => Done(o, "connect"))
    BY <1>1, <1>3, <2>3, RetireFewer DEF Fewer
  <2> HIDE DEF s, h, o, k, r, w, t, u, x
  <2>8. Shape("erased", h, x)
    BY <1>1, <2>4, <2>6, <2>7, ErasedShape
  <2>9. Order("erased", h, x, k, r, w, t, u)
    BY <1>1, <2>4, <2>7, FewerOrder DEF Known, Sound
  <2>10. Sound(s, h, x, k, r, w, t, u)
    BY <1>1, <2>4, <2>8, <2>9 DEF Sound
  <2> QED
    BY <2>2, <2>3, <2>10, OneSession DEF o
<1> QED
  BY <1>4, <1>5, <1>6, <1>7 DEF Stream

(* A refused request: the write of the answer, done or not, is what the    *)
(* stopped session leaves.                                                 *)
LEMMA RefusedSound ==
    ASSUME HInv, NEW id \in Ids, RequestRefused(id)
    PROVE  FreshId' /\ \A i \in Ids : SoundOf(i)'
<1> USE Names
<1> DEFINE h == response[id]  o == ops[id]  k == sock[id]
           r == rbuf[id]   w == wbuf[id]      t == taken[id]  u == out[id]
           z == Issue(Retire(o, "read_server", "ok"), "write_server")
           q == [w EXCEPT !["server"] = HttpError500]
           l == StopSock(k)
<1>1. /\ Known("wait_request", h, o, k, r, w, t, u) /\ o \in OpsType
      /\ Shape("wait_request", h, o) /\ Chosen("wait_request", h)
  BY Facts DEF KnownOf, Known, Sound, RequestRefused
<1>2. o["read_server"]["ok"] > 0 /\ "ok" \in Phase
  BY DEF RequestRefused, Completed, Phase
<1>3. PICK sent \in BOOLEAN : Refusal(id, sent)
  BY DEF RequestRefused
<1> DEFINE y == IF sent THEN Settle(z, "write_server", "ok") ELSE z
           x == StopOps(y, k)
           v == IF sent THEN [u EXCEPT !["server"] = Append(u["server"], HttpError500)] ELSE u
<1>4. OthersSame(id) /\ Becomes(id, "erased", h, x, l, r, q, t, v)
  BY <1>3 DEF HInv, TypeOK, RequestRefused, Refusal, OthersSame, Becomes, listener
<1>5. (l["client"] = "none") <=> (k["client"] = "none")
  BY DEF StopSock, Side
<1>6. q["server"] = HttpError500 /\ v["client"] = u["client"]
  BY <1>1 DEF Known
<1>7. z \in OpsType
  BY <1>1, <1>2, ThenType
<1>8. Out(z, "write_server") = 1 /\ Undone(z, "write_server")
  <2>1. Out(o, "write_server") = 0 /\ Out(o, "read_server") = 1
    <3>1. Out(o, "read_server") >= 1
      BY <1>1, <1>2, RetireOut
    <3> QED
      BY <3>1, <1>1, Nine DEF Shape, Counts
  <2>2. Waiting(z, "write_server")
    BY <2>1, <1>1, <1>2, Turn
  <2>3. Out(z, "write_server") = Out(o, "write_server") + 1
    <3> HIDE DEF o
    <3>1. /\ \A c \in Op : Out(o, c) \in Nat
          /\ \A c \in Op : Out(z, c) = Out(o, c) + (IF c = "write_server" THEN 1 ELSE 0)
                                                 - (IF c = "read_server" THEN 1 ELSE 0)
      BY <1>1, <1>2, ThenOut
    <3> HIDE DEF z
    <3> QED
      BY <3>1
  <2> QED
    BY <2>1, <2>2, <2>3 DEF Waiting
<1>9. h = NoChunk
  BY <1>1 DEF Chosen
<1>10. /\ z["write_client"]["pending"] = 0 /\ ~Done(z, "connect")
       /\ z["write_server"]["pending"] > 0
  <2>1. Out(o, "write_client") = 0 /\ Out(o, "connect") = 0
    BY <1>1 DEF Shape, Counts
  <2>2. None(o, "write_client") /\ None(o, "connect")
    BY <2>1, <1>1, OutNone
  <2>3. Same(z, o, "write_client") /\ Same(z, o, "connect")
    BY <1>1, <1>2, ThenStands
  <2>4. z["write_client"]["pending"] \in Nat
    BY <1>7, PhaseNat
  <2>5. z["write_server"]["pending"] > 0
    <3> DEFINE m == Retire(o, "read_server", "ok")
    <3>1. m \in OpsType
      BY <1>1, <1>2, RetireOut
    <3>2. m["write_server"]["pending"] \in Nat
      BY <3>1, PhaseNat
    <3>3. Issue(m, "write_server")["write_server"]["pending"] = m["write_server"]["pending"] + 1
      BY <3>1, IssueAt
    <3> HIDE DEF m
    <3>4. Issue(m, "write_server")["write_server"]["pending"] > 0
      BY <3>2, <3>3
    <3> QED
      BY <3>4 DEF m
  <2> HIDE DEF z
  <2> QED
    BY <2>2, <2>3, <2>4, <2>5 DEF None, Same
<1> HIDE DEF z
<1>11. /\ y \in OpsType /\ \A c \in Op : Out(y, c) = Out(z, c)
       /\ \A c \in Op \ {"write_server"} : Same(y, z, c)
       /\ sent => y["write_server"]["pending"] = 0
  <2>1. CASE sent
    <3> DEFINE g == Settle(z, "write_server", "ok")
    <3>1. g \in OpsType /\ \A c \in Op : Out(g, c) = Out(z, c)
      BY <1>7, <1>10, SettleOut
    <3>2. (\A c \in Op \ {"write_server"} : Same(g, z, c)) /\ Ready(g, "write_server")
      BY <1>7, <1>8, <1>10, SettleStands
    <3> HIDE DEF g
    <3>3. y = g
      BY <2>1 DEF g
    <3> QED
      BY <3>1, <3>2, <3>3 DEF Ready
  <2>2. CASE ~sent
    BY <2>2, <1>7 DEF Same
  <2> QED
    BY <2>1, <2>2
<1> HIDE DEF y
<1>12. x \in OpsType /\ \A c \in Op \ {"shutdown", "null_write"} : Same(x, y, c)
  BY <1>11, StopOut, StopStands
<1>13. Shape("erased", NoChunk, x)
  <2>1. \A c \in Op : Out(y, c) <= Out(z, c)
    BY <1>7, <1>11, OutNat
  <2> QED
    BY <2>1, <1>1, <1>2, <1>7, <1>9, <1>11, RefusalShape DEF z
<1>14. Same(y, z, "write_client") /\ Same(y, z, "connect")
  BY <1>11
<1> HIDE DEF x
<1>15. /\ Same(x, y, "write_client") /\ Same(x, y, "connect") /\ Same(x, y, "write_server")
       /\ x["write_client"]["pending"] \in Nat /\ x["write_server"]["pending"] \in Nat
  BY <1>12, PhaseNat
<1>16. x["write_client"]["pending"] = 0 /\ ~Done(x, "connect")
  BY <1>10, <1>14, <1>15 DEF Same
<1>17. \/ v["server"] = u["server"]
       \/ v["server"] = Append(u["server"], HttpError500) /\ x["write_server"]["pending"] = 0
  <2>1. CASE sent
    <3>1. v["server"] = Append(u["server"], HttpError500)
      BY <2>1, <1>1 DEF Known
    <3>2. x["write_server"]["pending"] = 0
      BY <2>1, <1>11, <1>15 DEF Same
    <3> QED
      BY <3>1, <3>2
  <2>2. CASE ~sent
    BY <2>2
  <2> QED
    BY <2>1, <2>2
<1> HIDE DEF h, o, k, r, w, t, u, q, l, v
<1>18. Order("erased", h, x, l, r, q, t, v)
  BY <1>1, <1>2, <1>5, <1>6, <1>15, <1>16, <1>17, RefusedOrder
<1>19. Sound("erased", h, x, l, r, q, t, v)
  BY <1>9, <1>13, <1>18 DEF Sound, Chosen
<1> QED
  BY <1>2, <1>4, <1>19, OneSession DEF o

(* The handlers of http_session's states.                                  *)
LEMMA DispatchSound ==
    ASSUME HInv, NEW id \in Ids, Dispatch(id)
    PROVE  FreshId' /\ \A i \in Ids : SoundOf(i)'
<1> USE Names
<1> DEFINE s == state[id]  h == response[id]  o == ops[id]  k == sock[id]
           r == rbuf[id]   w == wbuf[id]      t == taken[id]  u == out[id]
           T(a, b) == Issue(Retire(o, a, "ok"), b)
<1>1. Known(s, h, o, k, r, w, t, u) /\ o \in OpsType /\ Shape(s, h, o) /\ Chosen(s, h)
  BY Facts DEF KnownOf, Known, Sound
<1>2. "ok" \in Phase /\ "error" \in Phase
  BY DEF Phase
<1>3. CASE RequestAccepted(id)
  <2>1. PICK g \in {HttpDone, r["server"]} :
          response' = [response EXCEPT ![id] = g]
    BY <1>3 DEF RequestAccepted
  <2>2. /\ OthersSame(id)
        /\ Becomes(id, "connection_established", g, T("read_server", "resolve"), k, r, w, t, u)
    BY <1>3, <2>1
    DEF HInv, TypeOK, RequestAccepted, Then, OthersSame, Becomes, listener, buffers, peers
  <2>3. o["read_server"]["ok"] > 0 /\ s = "wait_request"
    BY <1>3 DEF RequestAccepted, Completed
  <2> HIDE DEF s, h, o, k, r, w, t, u
  <2>4. /\ g \in {HttpDone, Forwarded}
        /\ Order("connection_established", g, T("read_server", "resolve"), k, r, w, t, u)
    BY <1>1, <2>3, AcceptedOrder
  <2>5. Shape("connection_established", g, T("read_server", "resolve"))
    BY <1>1, <2>3, RequestShape
  <2>6. Sound("connection_established", g, T("read_server", "resolve"), k, r, w, t, u)
    BY <2>4, <2>5, Responses DEF Sound, Chosen
  <2> QED
    BY <1>2, <2>2, <2>3, <2>6, OneSession DEF o
<1>4. CASE Connected(id) /\ h = HttpDone
  <2> DEFINE q == [w EXCEPT !["server"] = h]
  <2>1. /\ OthersSame(id)
        /\ Becomes(id, "ready_to_transfer_data", h, T("connect", "write_server"), k, r, q, t, u)
    BY <1>4
    DEF HInv, TypeOK, Connected, Then, WriteOp, OthersSame, Becomes, listener, peers
  <2>2. o["connect"]["ok"] > 0 /\ s = "connection_established"
    BY <1>4 DEF Connected, Completed
  <2>3. q["server"] = HttpDone
    BY <1>1, <1>4 DEF Known
  <2> HIDE DEF s, h, o, k, r, w, t, u, q
  <2>4. Order("ready_to_transfer_data", h, T("connect", "write_server"), k, r, q, t, u)
    BY <1>1, <1>4, <2>2, <2>3, AnsweringOrder
  <2>5. Shape("ready_to_transfer_data", h, T("connect", "write_server"))
    BY <1>1, <1>4, <2>2, AnswerShape
  <2>6. Sound("ready_to_transfer_data", h, T("connect", "write_server"), k, r, q, t, u)
    BY <1>1, <1>4, <2>4, <2>5, Responses DEF Sound, Chosen
  <2> QED
    BY <1>2, <2>1, <2>2, <2>6, OneSession DEF o
<1>5. CASE Connected(id) /\ h # HttpDone
  <2> DEFINE q == [w EXCEPT !["client"] = h]
  <2>1. /\ OthersSame(id)
        /\ Becomes(id, "ready_to_transfer_data", h, T("connect", "write_client"), k, r, q, t, u)
    BY <1>5
    DEF HInv, TypeOK, Connected, Then, WriteOp, OthersSame, Becomes, listener, peers
  <2>2. o["connect"]["ok"] > 0 /\ s = "connection_established"
    BY <1>5 DEF Connected, Completed
  <2>3. q["client"] = h
    BY <1>1, <1>5 DEF Known
  <2> HIDE DEF s, h, o, k, r, w, t, u, q
  <2>4. h = Forwarded
    BY <1>1, <1>5, <2>2 DEF Chosen
  <2>5. Order("ready_to_transfer_data", h, T("connect", "write_client"), k, r, q, t, u)
    BY <1>1, <2>2, <2>3, <2>4, ForwardingOrder
  <2>6. Shape("ready_to_transfer_data", h, T("connect", "write_client"))
    BY <1>1, <1>5, <2>2, ForwardShape
  <2>7. Sound("ready_to_transfer_data", h, T("connect", "write_client"), k, r, q, t, u)
    BY <2>4, <2>5, <2>6, Responses DEF Sound, Chosen
  <2> QED
    BY <1>2, <2>1, <2>2, <2>7, OneSession DEF o
<1>6. CASE AnswerWritten(id)
  <2> DEFINE x == Issue(T("write_server", "read_server"), "read_client")
  <2>1. OthersSame(id) /\ Becomes(id, "data_transfer_mode", h, x, k, r, w, t, u)
    BY <1>6
    DEF HInv, TypeOK, AnswerWritten, StartReads, OthersSame, Becomes, listener, buffers, peers
  <2>2. o["write_server"]["ok"] > 0 /\ s = "ready_to_transfer_data"
    BY <1>6 DEF AnswerWritten, StartReads, Completed
  <2> HIDE DEF s, h, o, k, r, w, t, u
  <2>3. Order("data_transfer_mode", h, x, k, r, w, t, u)
    BY <1>1, <2>2, AnswerWrittenOrder
  <2>4. h = HttpDone /\ Shape("data_transfer_mode", h, x)
    BY <1>1, <2>2, PumpShape
  <2>5. Sound("data_transfer_mode", h, x, k, r, w, t, u)
    BY <2>3, <2>4, Responses DEF Sound, Chosen
  <2> QED
    BY <1>2, <2>1, <2>2, <2>5, OneSession DEF o
<1>7. CASE RequestWritten(id)
  <2> DEFINE x == Issue(T("write_client", "read_server"), "read_server")
  <2>1. OthersSame(id) /\ Becomes(id, "data_transfer_mode", h, x, k, r, w, t, u)
    BY <1>7
    DEF HInv, TypeOK, RequestWritten, StartReads, OthersSame, Becomes, listener, buffers, peers
  <2>2. o["write_client"]["ok"] > 0 /\ s = "ready_to_transfer_data"
    BY <1>7 DEF RequestWritten, StartReads, Completed
  <2> HIDE DEF s, h, o, k, r, w, t, u
  <2>3. Order("data_transfer_mode", h, x, k, r, w, t, u)
    BY <1>1, <2>2, RequestWrittenOrder
  <2>4. Shape("data_transfer_mode", h, x)
    BY <1>1, <2>2, TwoReadsShape
  <2>5. Sound("data_transfer_mode", h, x, k, r, w, t, u)
    BY <1>1, <2>2, <2>3, <2>4 DEF Sound, Chosen
  <2> QED
    BY <1>2, <2>1, <2>2, <2>5, OneSession DEF o
<1>8. CASE TransferRead(id, "server")
  <2> DEFINE q == [w EXCEPT !["client"] = r["server"]]
  <2>1. OthersSame(id) /\ Becomes(id, s, h, T("read_server", "write_client"), k, r, q, t, u)
    BY <1>8
    DEF HInv, TypeOK, TransferRead, Then, ReadOp, WriteOp, Other, OthersSame, Becomes,
         listener, peers
  <2>2. o["read_server"]["ok"] > 0 /\ s = "data_transfer_mode"
    BY <1>8 DEF TransferRead, Completed, ReadOp, WriteOp
  <2>3. q["client"] = r["server"] /\ q["server"] = w["server"]
    BY <1>1 DEF Known
  <2> HIDE DEF s, h, o, k, r, w, t, u, q
  <2>4. ASSUME h = HttpDone PROVE Order(s, h, T("read_server", "write_client"), k, r, q, t, u)
    <3>1. Order("data_transfer_mode", HttpDone, T("read_server", "write_client"), k, r, q, t, u)
      BY <1>1, <2>2, <2>3, <2>4, ServerReadOrder
    <3> QED
      BY <3>1, <2>2, <2>4
  <2>5. ASSUME h = Forwarded PROVE Order(s, h, T("read_server", "write_client"), k, r, q, t, u)
    <3>1. Order("data_transfer_mode", Forwarded, T("read_server", "write_client"), k, r, q, t, u)
      BY <1>1, <2>2, <2>3, <2>5, LooseOrder
    <3> QED
      BY <3>1, <2>2, <2>5
  <2>6. Order(s, h, T("read_server", "write_client"), k, r, q, t, u)
    BY <1>1, <2>2, <2>4, <2>5 DEF Chosen
  <2>7. Shape(s, h, T("read_server", "write_client"))
    BY <1>1, <2>2, ServerReadShape
  <2>8. Sound(s, h, T("read_server", "write_client"), k, r, q, t, u)
    BY <1>1, <2>6, <2>7 DEF Sound
  <2> QED
    BY <1>2, <2>1, <2>2, <2>8, OneSession DEF o
<1>9. CASE TransferRead(id, "client")
  <2> DEFINE q == [w EXCEPT !["server"] = r["client"]]
  <2>1. OthersSame(id) /\ Becomes(id, s, h, T("read_client", "write_server"), k, r, q, t, u)
    BY <1>9
    DEF HInv, TypeOK, TransferRead, Then, ReadOp, WriteOp, Other, OthersSame, Becomes,
         listener, peers
  <2>2. o["read_client"]["ok"] > 0 /\ s = "data_transfer_mode"
    BY <1>9 DEF TransferRead, Completed, ReadOp, WriteOp
  <2>3. q["server"] = r["client"] /\ q["client"] = w["client"]
    BY <1>1 DEF Known
  <2> HIDE DEF s, h, o, k, r, w, t, u, q
  <2>4. ASSUME h = HttpDone PROVE Order(s, h, T("read_client", "write_server"), k, r, q, t, u)
    <3>1. Order("data_transfer_mode", HttpDone, T("read_client", "write_server"), k, r, q, t, u)
      BY <1>1, <2>2, <2>3, <2>4, ClientReadOrder
    <3> QED
      BY <3>1, <2>2, <2>4
  <2>5. ASSUME h = Forwarded PROVE Order(s, h, T("read_client", "write_server"), k, r, q, t, u)
    <3>1. Order("data_transfer_mode", Forwarded, T("read_client", "write_server"), k, r, q, t, u)
      BY <1>1, <2>2, <2>3, <2>5, LooseOrder
    <3> QED
      BY <3>1, <2>2, <2>5
  <2>6. Order(s, h, T("read_client", "write_server"), k, r, q, t, u)
    BY <1>1, <2>2, <2>4, <2>5 DEF Chosen
  <2>7. Shape(s, h, T("read_client", "write_server"))
    BY <1>1, <2>2, ClientReadShape
  <2>8. Sound(s, h, T("read_client", "write_server"), k, r, q, t, u)
    BY <1>1, <2>6, <2>7 DEF Sound
  <2> QED
    BY <1>2, <2>1, <2>2, <2>8, OneSession DEF o
<1>10. CASE TransferWritten(id, "server")
  <2>1. OthersSame(id) /\ Becomes(id, s, h, T("write_server", "read_client"), k, r, w, t, u)
    BY <1>10
    DEF HInv, TypeOK, TransferWritten, Then, ReadOp, WriteOp, Other, OthersSame, Becomes,
         listener, peers, buffers
  <2>2. o["write_server"]["ok"] > 0 /\ s = "data_transfer_mode"
    BY <1>10 DEF TransferWritten, Completed, ReadOp, WriteOp
  <2> HIDE DEF s, h, o, k, r, w, t, u
  <2>4. ASSUME h = HttpDone PROVE Order(s, h, T("write_server", "read_client"), k, r, w, t, u)
    <3>1. Order("data_transfer_mode", HttpDone, T("write_server", "read_client"), k, r, w, t, u)
      BY <1>1, <2>2, <2>4, ServerWrittenOrder
    <3> QED
      BY <3>1, <2>2, <2>4
  <2>5. ASSUME h = Forwarded PROVE Order(s, h, T("write_server", "read_client"), k, r, w, t, u)
    <3>1. Order("data_transfer_mode", Forwarded, T("write_server", "read_client"), k, r, w, t, u)
      BY <1>1, <2>2, <2>5, LooseOrder
    <3> QED
      BY <3>1, <2>2, <2>5
  <2>6. Order(s, h, T("write_server", "read_client"), k, r, w, t, u)
    BY <1>1, <2>2, <2>4, <2>5 DEF Chosen
  <2>7. Shape(s, h, T("write_server", "read_client"))
    BY <1>1, <2>2, ServerWrittenShape
  <2>8. Sound(s, h, T("write_server", "read_client"), k, r, w, t, u)
    BY <1>1, <2>6, <2>7 DEF Sound
  <2> QED
    BY <1>2, <2>1, <2>2, <2>8, OneSession DEF o
<1>11. CASE TransferWritten(id, "client")
  <2>1. OthersSame(id) /\ Becomes(id, s, h, T("write_client", "read_server"), k, r, w, t, u)
    BY <1>11
    DEF HInv, TypeOK, TransferWritten, Then, ReadOp, WriteOp, Other, OthersSame, Becomes,
         listener, peers, buffers
  <2>2. o["write_client"]["ok"] > 0 /\ s = "data_transfer_mode"
    BY <1>11 DEF TransferWritten, Completed, ReadOp, WriteOp
  <2> HIDE DEF s, h, o, k, r, w, t, u
  <2>4. ASSUME h = HttpDone PROVE Order(s, h, T("write_client", "read_server"), k, r, w, t, u)
    <3>1. Order("data_transfer_mode", HttpDone, T("write_client", "read_server"), k, r, w, t, u)
      BY <1>1, <2>2, <2>4, ClientWrittenOrder
    <3> QED
      BY <3>1, <2>2, <2>4
  <2>5. ASSUME h = Forwarded PROVE Order(s, h, T("write_client", "read_server"), k, r, w, t, u)
    <3>1. Order("data_transfer_mode", Forwarded, T("write_client", "read_server"), k, r, w, t, u)
      BY <1>1, <2>2, <2>5, LooseOrder
    <3> QED
      BY <3>1, <2>2, <2>5
  <2>6. Order(s, h, T("write_client", "read_server"), k, r, w, t, u)
    BY <1>1, <2>2, <2>4, <2>5 DEF Chosen
  <2>7. Shape(s, h, T("write_client", "read_server"))
    BY <1>1, <2>2, ClientWrittenShape
  <2>8. Sound(s, h, T("write_client", "read_server"), k, r, w, t, u)
    BY <1>1, <2>6, <2>7 DEF Sound
  <2> QED
    BY <1>2, <2>1, <2>2, <2>8, OneSession DEF o
<1>12. CASE StreamError(id)
  <2>1. PICK op \in Op : Completed(id, op, "error") /\ Stop(id, op, "error")
    BY <1>12 DEF StreamError
  <2> QED
    BY <1>12, <2>1, StopSound DEF StreamError
<1> QED
  BY <1>3, <1>4, <1>5, <1>6, <1>7, <1>8, <1>9, <1>10, <1>11, <1>12, StreamSound, RefusedSound
  DEF Dispatch, Side

LEMMA AcceptSound ==
    ASSUME HInv, Accepted
    PROVE  FreshId' /\ \A i \in Ids : SoundOf(i)'
<1> USE Names
<1>0. FreshId'
  BY AcceptFresh, Typed DEF HInv, Accepted
<1> SUFFICES ASSUME NEW id \in Ids, id = stream_id
             PROVE  \A i \in Ids : SoundOf(i)'
  BY <1>0 DEF Accepted, Accept
<1> DEFINE h == response[id]  o == ops[id]  k == sock[id]
           r == rbuf[id]   w == wbuf[id]      t == taken[id]  u == out[id]
           first == IF Tls THEN "handshake" ELSE "read_server"
           x == Issue(o, first)
           l == [k EXCEPT !["server"] = "open"]
<1>1. stream_id \in Nat
  BY DEF HInv, TypeOK
<1>2. state[id] = "absent" /\ o = Idle
  BY <1>1 DEF HInv, FreshId
<1>3. /\ Known("absent", h, o, k, r, w, t, u) /\ o \in OpsType
      /\ Shape("absent", h, o) /\ Chosen("absent", h) /\ Order("absent", h, o, k, r, w, t, u)
  BY <1>2, Facts DEF KnownOf, Known, Sound
<1>4. Becomes(id, "wait_request", h, x, l, r, w, t, u)
  BY <1>2 DEF HInv, TypeOK, Accepted, Accept, Becomes, buffers, peers
<1>5. \A i \in Ids \ {id} :
        Becomes(i, state[i], response[i], ops[i], sock[i], rbuf[i], wbuf[i], taken[i], out[i])
  BY DEF HInv, TypeOK, Accepted, Accept, Becomes, buffers, peers
<1>6. l["client"] = k["client"]
  BY <1>3 DEF Known
<1>7. first \in {"handshake", "read_server"} /\ first \in Op
  OBVIOUS
<1> HIDE DEF first
<1>8. x \in OpsType /\ \A c \in Op : Out(x, c) = IF c = first THEN Out(o, c) + 1 ELSE Out(o, c)
  BY <1>3, <1>7, IssueOut
<1>9. (\A c \in Op \ {first} : Same(x, o, c)) /\ (Done(x, first) <=> Done(o, first))
  BY <1>3, <1>7, IssueStands
<1> HIDE DEF x, h, o, k, r, w, t, u, l
<1>10. Shape("wait_request", h, x)
  BY <1>3, <1>7, <1>8 DEF Shape, Counts
<1>11. h = NoChunk
  BY <1>3 DEF Chosen
<1>12. /\ Same(x, o, "write_server") /\ Same(x, o, "write_client") /\ Same(x, o, "connect")
       /\ Done(x, "read_server") <=> Done(o, "read_server")
  BY <1>7, <1>9 DEF Same
<1>13. Reached("wait_request", x, l, u) /\ Recent(r, t)
  BY <1>3, <1>6, <1>12 DEF Order, Reached, Same
<1>14. Refusing("wait_request", x, l, w, t, u)
  BY <1>3, <1>6, <1>11, <1>12 DEF Order, Refusing, Same
<1>15. Sound("wait_request", h, x, l, r, w, t, u)
  BY <1>10, <1>11, <1>13, <1>14, Responses DEF Sound, Chosen, Order
<1>16. SoundOf(id)'
  BY <1>4, <1>15 DEF Becomes, SoundOf
<1>17. ASSUME NEW i \in Ids \ {id} PROVE SoundOf(i)'
  <2>1. SoundOf(i)
    BY DEF HInv
  <2> QED
    BY <2>1, <1>5 DEF SoundOf, Becomes
<1> QED
  BY <1>16, <1>17

LEMMA InitSound == HttpInit => HInv
<1> SUFFICES ASSUME HttpInit PROVE HInv
  OBVIOUS
<1>1. TypeOK
  BY InitType
<1>2. FreshId
  BY DEF HttpInit, Init, FreshId
<1>3. ASSUME NEW id \in Ids PROVE SoundOf(id)
  <2>1. /\ state[id] = "absent" /\ response[id] = NoChunk /\ ops[id] = Idle
        /\ sock[id]["client"] = "none" /\ out[id]["server"] = <<>> /\ out[id]["client"] = <<>>
        /\ taken[id]["server"] = 0 /\ taken[id]["client"] = 0
    BY <1>3, Names DEF HttpInit, Init
  <2>2. Idle \in OpsType /\ \A c \in Op : Out(Idle, c) = 0
    BY DEF Idle, OpsType, Out, Phase
  <2>3. \A c \in Op : None(Idle, c)
    BY <2>2, OutNone
  <2>4. Shape("absent", NoChunk, Idle)
    BY <2>2, Names DEF Shape, Counts
  <2>5. Recent(rbuf[id], taken[id])
    BY <2>1 DEF Recent, Side
  <2>6. Reached("absent", Idle, sock[id], out[id])
    BY <2>1, <2>3, Names DEF Reached, None
  <2>7. Refusing("absent", Idle, sock[id], wbuf[id], taken[id], out[id])
    BY <2>1, <2>3, Names DEF Refusing, None
  <2> QED
    BY <2>1, <2>4, <2>5, <2>6, <2>7, Responses DEF SoundOf, Sound, Chosen, Order
<1> QED
  BY <1>1, <1>2, <1>3 DEF HInv

LEMMA NextSound == HInv /\ [Next]_httpVars => HInv'
<1> SUFFICES ASSUME HInv, [Next]_httpVars PROVE HInv'
  OBVIOUS
<1>1. TypeOK'
  BY NextType DEF HInv
<1>2. CASE AcceptFailed \/ Signalled
  <2>1. FreshId'
    BY <1>2, AcceptFresh, Typed DEF HInv, AcceptFailed, Signalled
  <2>2. ASSUME NEW i \in Ids PROVE SoundOf(i)'
    <3>1. SoundOf(i)
      BY DEF HInv
    <3> QED
      BY <1>2, <3>1 DEF AcceptFailed, Signalled, AcceptError, Signal, SoundOf, buffers, peers
  <2> QED
    BY <1>1, <2>1, <2>2 DEF HInv
<1>3. CASE UNCHANGED httpVars
  <2>1. FreshId'
    BY <1>3 DEF HInv, FreshId, httpVars, vars
  <2>2. ASSUME NEW i \in Ids PROVE SoundOf(i)'
    <3>1. SoundOf(i)
      BY DEF HInv
    <3> QED
      BY <1>3, <3>1 DEF httpVars, vars, SoundOf
  <2> QED
    BY <1>1, <2>1, <2>2 DEF HInv
<1> QED
  BY <1>1, <1>2, <1>3, KernelSound, DispatchSound, AcceptSound DEF Next, HInv

LEMMA SoundAlways == Spec => []HInv
BY InitSound, NextSound, PTL DEF Spec

----
(* What the invariant says in the words of Http.                           *)
LEMMA SoundNeverIdle == HInv => NeverIdle
<1> SUFFICES ASSUME HInv, NEW id \in Ids, Live(id)
             PROVE  IF state[id] = "data_transfer_mode"
                    THEN response[id] = HttpDone => Pumping(ops[id])
                    ELSE Only(ops[id], Awaits(state[id]))
  BY DEF NeverIdle
<1> DEFINE s == state[id]  h == response[id]  o == ops[id]
           n(op) == Out(o, op)
<1>1. s \in Sessions /\ Shape(s, h, o) /\ o \in OpsType /\ Chosen(s, h)
  BY Facts DEF KnownOf, Known, Sound, Live
<1> HIDE DEF s, h, o
<1>2. /\ n("handshake") \in Nat /\ n("read_server") \in Nat /\ n("write_server") \in Nat
      /\ n("resolve") \in Nat /\ n("connect") \in Nat /\ n("read_client") \in Nat
      /\ n("write_client") \in Nat /\ n("shutdown") = 0 /\ n("null_write") = 0
  BY <1>1, Nine DEF Shape, Sessions
<1>3. Op = {"handshake", "read_server", "write_server", "shutdown", "null_write", "resolve",
            "connect", "read_client", "write_client"}
  BY DEF Op, ServerOp, ClientOp
<1>4. Counts(s, h, n("handshake"), n("read_server"), n("write_server"), n("resolve"),
             n("connect"), n("read_client"), n("write_client"))
  BY <1>1 DEF Shape
<1>5. CASE s = "wait_request"
  <2>1. /\ n("handshake") + n("read_server") = 1 /\ n("write_server") = 0 /\ n("resolve") = 0
        /\ n("connect") = 0 /\ n("read_client") = 0 /\ n("write_client") = 0
    BY <1>4, <1>5 DEF Counts
  <2>2. Only(o, {"handshake", "read_server"})
    <3>1. CASE n("handshake") = 1 /\ n("read_server") = 0
      BY <2>1, <3>1, <1>2, <1>3 DEF Only
    <3>2. CASE n("handshake") = 0 /\ n("read_server") = 1
      BY <2>1, <3>2, <1>2, <1>3 DEF Only
    <3> HIDE DEF n
    <3> QED
      BY <2>1, <3>1, <3>2, <1>2
  <2> QED
    BY <1>5, <2>2 DEF Awaits, s, o
<1>6. CASE s = "connection_established"
  <2>1. /\ n("resolve") + n("connect") = 1 /\ n("write_server") = 0 /\ n("handshake") = 0
        /\ n("read_server") = 0 /\ n("read_client") = 0 /\ n("write_client") = 0
    BY <1>4, <1>6 DEF Counts
  <2>2. Only(o, {"resolve", "connect"})
    <3>1. CASE n("resolve") = 1 /\ n("connect") = 0
      BY <2>1, <3>1, <1>2, <1>3 DEF Only
    <3>2. CASE n("resolve") = 0 /\ n("connect") = 1
      BY <2>1, <3>2, <1>2, <1>3 DEF Only
    <3> HIDE DEF n
    <3> QED
      BY <2>1, <3>1, <3>2, <1>2
  <2> QED
    BY <1>6, <2>2 DEF Awaits, s, o
<1>7. CASE s = "ready_to_transfer_data"
  <2>1. /\ n("resolve") = 0 /\ n("connect") = 0 /\ n("handshake") = 0
        /\ n("read_server") = 0 /\ n("read_client") = 0
        /\ \/ n("write_client") = 0 /\ n("write_server") = 1
           \/ n("write_client") = 1 /\ n("write_server") = 0
    BY <1>4, <1>7 DEF Counts
  <2>2. Only(o, {"write_server", "write_client"})
    <3>1. CASE n("write_client") = 0 /\ n("write_server") = 1
      BY <2>1, <3>1, <1>2, <1>3 DEF Only
    <3>2. CASE n("write_client") = 1 /\ n("write_server") = 0
      BY <2>1, <3>2, <1>2, <1>3 DEF Only
    <3> QED
      BY <2>1, <3>1, <3>2
  <2> QED
    BY <1>7, <2>2 DEF Awaits, s, o
<1>8. CASE s = "data_transfer_mode"
  <2>1. ASSUME h = HttpDone PROVE Pumping(o)
    BY <2>1, <1>2, <1>4, <1>8 DEF Counts, Pumping
  <2> QED
    BY <1>8, <2>1 DEF s, h, o
<1> QED
  BY <1>1, <1>5, <1>6, <1>7, <1>8 DEF Sessions

LEMMA SoundAnswers == HInv => AnswersInOrder /\ RemoteInOrder
<1> SUFFICES ASSUME HInv PROVE AnswersInOrder /\ RemoteInOrder
  OBVIOUS
<1>1. ASSUME NEW id \in Ids, NEW i \in DOMAIN out[id]["server"]
      PROVE  LET chunk == out[id]["server"][i]
                 lead  == IF response[id] = HttpDone THEN 1 ELSE 0
             IN  IF chunk = HttpError500
                   THEN i = 1 /\ response[id] = NoChunk /\ sock[id]["client"] = "none"
                   ELSE IF i = lead THEN chunk = HttpDone ELSE chunk = Chunk("client", i - lead)
  <2> DEFINE u == out[id]  h == response[id]  c == u["server"][i]
  <2>1. /\ Order(state[id], h, ops[id], sock[id], rbuf[id], wbuf[id], taken[id], u)
        /\ Chosen(state[id], h) /\ u["server"] \in Seq(Chunks)
    BY Facts DEF KnownOf, Known, Sound
  <2>2. i \in DOMAIN u["server"]
    OBVIOUS
  <2> HIDE DEF u
  <2>3. h \in {NoChunk, HttpDone, Forwarded}
    BY <2>1 DEF Chosen
  <2>4. CASE h = NoChunk
    <3>1. u["server"] = <<HttpError500>> /\ sock[id]["client"] = "none"
      <4>1. u["server"] # <<>>
        BY <2>2
      <4> QED
        BY <4>1, <2>1, <2>4 DEF Order, Refusing
    <3>2. i = 1 /\ c = HttpError500
      <4>1. i = 1
        BY <2>2, <3>1
      <4> QED
        BY <4>1, <3>1
    <3> QED
      BY <2>4, <3>1, <3>2 DEF u
  <2>5. CASE h = HttpDone
    <3>1. c = Line(i - 1) /\ i \in Nat \ {0}
      <4>1. SentLocal(u)
        BY <2>1, <2>5 DEF Order, Tunnelling
      <4>2. i \in Nat \ {0}
        BY <2>1, <2>2
      <4> QED
        BY <4>1, <4>2, <2>2 DEF SentLocal
    <3>2. /\ i = 1 => c = HttpDone
          /\ i # 1 => c = Chunk("client", i - 1)
      BY <3>1 DEF Line
    <3>3. c # HttpError500
      BY <3>2 DEF HttpDone, HttpError500, Chunk
    <3> QED
      BY <2>5, <3>2, <3>3 DEF u
  <2>6. CASE h = Forwarded
    <3>1. u["server"] = <<>>
      BY <2>1, <2>6, Responses DEF Order, Forwarding
    <3> QED
      BY <3>1, <2>2
  <2> QED
    BY <2>3, <2>4, <2>5, <2>6
<1>2. ASSUME NEW id \in Ids, NEW sent, sent = out[id]["client"], sent # <<>>
      PROVE  /\ sock[id]["client"] # "none"
             /\ IF response[id] = HttpDone
                  THEN \A i \in DOMAIN sent : sent[i] = Chunk("server", i + 1)
                  ELSE /\ sent[1] = Chunk("server", 1)
                       /\ \A i, j \in DOMAIN sent :
                            sent[i].kind = "server" /\ (i <= j => sent[i].n <= sent[j].n)
  <2>1. /\ Order(state[id], response[id], ops[id], sock[id], rbuf[id], wbuf[id], taken[id], out[id])
        /\ Chosen(state[id], response[id])
    BY Facts DEF KnownOf, Known, Sound
  <2>2. sock[id]["client"] # "none"
    BY <1>2, <2>1 DEF Order, Reached
  <2>3. response[id] # NoChunk
    BY <1>2, <2>1 DEF Order, Refusing
  <2>4. ASSUME response[id] = Forwarded
        PROVE  /\ sent[1] = Chunk("server", 1)
               /\ \A i, j \in DOMAIN sent :
                    sent[i].kind = "server" /\ (i <= j => sent[i].n <= sent[j].n)
    <3>1. Forwarding(state[id], ops[id], wbuf[id], taken[id], out[id])
      BY <2>1, <2>4 DEF Order
    <3>2. InOrder(wbuf[id]["client"], taken[id]["server"], sent) /\ sent[1] = Forwarded
      BY <1>2, <3>1 DEF Forwarding
    <3> QED
      BY <3>2 DEF InOrder, Forwarded
  <2>5. ASSUME response[id] = HttpDone
        PROVE  \A i \in DOMAIN sent : sent[i] = Chunk("server", i + 1)
    BY <1>2, <2>1, <2>5 DEF Order, Tunnelling, SentRemote
  <2> QED
    BY <2>1, <2>2, <2>3, <2>4, <2>5, Responses DEF Chosen
<1>3. AnswersInOrder
  BY <1>1 DEF AnswersInOrder
<1>4. RemoteInOrder
  BY <1>2 DEF RemoteInOrder
<1> QED
  BY <1>3, <1>4

LEMMA SoundClosing == HInv => CloseOnlyErased /\ ConnectOnlyLive
<1> SUFFICES ASSUME HInv, NEW id \in Ids
             PROVE  /\ \A op \in {"shutdown", "null_write"} :
                         Out(ops[id], op) > 0 => state[id] = "erased"
                    /\ \A op \in {"resolve", "connect"} : Out(ops[id], op) > 0 => Live(id)
  BY DEF CloseOnlyErased, ConnectOnlyLive
<1>1. Shape(state[id], response[id], ops[id]) /\ ops[id] \in OpsType
  BY Facts DEF KnownOf, Known, Sound
<1> QED
  BY <1>1, Nine DEF Shape, Counts, Live

(* A live HTTP session always waits for what its state handles: a tunnel   *)
(* for one operation per direction, any session while it negotiates for    *)
(* exactly one, so that no session hangs in the table with nothing under   *)
(* way.                                                                    *)
THEOREM SessionsNeverIdle == Spec => []NeverIdle
BY SoundAlways, SoundNeverIdle, PTL

(* The local peer of an HTTP session gets the 500 answer alone, or the 200 *)
(* and then the remote host's messages, each once and in order; a refused  *)
(* request never opens a connection.                                       *)
THEOREM AnswersAreOrdered == Spec => []AnswersInOrder
BY SoundAlways, SoundAnswers, PTL

(* Nothing is sent to a remote host before there is a connection to it.  A *)
(* tunnel sends it every message behind the CONNECT, once and in order; a  *)
(* session that forwards sends the request first and never an older        *)
(* message after a newer one, but may lose or repeat one.                  *)
THEOREM RemoteHearsInOrder == Spec => []RemoteInOrder
BY SoundAlways, SoundAnswers, PTL

(* In http mode too, a TLS stream closes only when its session is erased.  *)
THEOREM ClosingIsSafe == Spec => []CloseOnlyErased
BY SoundAlways, SoundClosing, PTL

(* In http mode too, a session that resolves or connects is never stopped: *)
(* do_stop cancels neither.                                                *)
THEOREM ConnectsOnlyLive == Spec => []ConnectOnlyLive
BY SoundAlways, SoundClosing, PTL

(* In http mode too, the id of the next stream is known to nobody yet.     *)
THEOREM IdsAreFresh == Spec => []FreshId
BY SoundAlways, PTL DEF HInv

(* NoOverlap for the sessions of which it is true: all but those of a      *)
(* forwarded request, which http_response shows to read the local peer     *)
(* twice.                                                                  *)
TunnelsShareNothing ==
    \A id \in Ids, side \in Side : response[id] # Forwarded =>
        /\ Out(ops[id], ReadOp(side)) <= 1
        /\ Out(ops[id], WriteOp(side)) <= 1

(* When a peer of a tunnel closes, all that it sent behind its request, or *)
(* in answer to it, has been written to the other.                         *)
TunnelsLoseNothing ==
    \A id \in Ids : state[id] = "data_transfer_mode" /\ response[id] = HttpDone =>
        /\ ops[id]["read_client"]["error"] > 0 =>
              Len(out[id]["server"]) = 1 + taken[id]["client"]
        /\ ops[id]["read_server"]["error"] > 0 =>
              Len(out[id]["client"]) + 1 = taken[id]["server"]

LEMMA SoundTunnels == HInv => TunnelsShareNothing /\ TunnelsLoseNothing
<1>1. ASSUME HInv, NEW id \in Ids, response[id] # Forwarded
      PROVE  /\ Out(ops[id], "read_server") <= 1 /\ Out(ops[id], "write_server") <= 1
             /\ Out(ops[id], "read_client") <= 1 /\ Out(ops[id], "write_client") <= 1
  <2> DEFINE s == state[id]  h == response[id]  o == ops[id]
  <2>1. /\ Chosen(s, h) /\ Shape(s, h, o) /\ o \in OpsType
        /\ s \in Sessions \union {"absent", "erased"}
    BY <1>1, Facts DEF KnownOf, Known, Sound
  <2> HIDE DEF s, h, o
  <2>2. /\ Out(o, "handshake") \in Nat /\ Out(o, "read_server") \in Nat
        /\ Out(o, "write_server") \in Nat /\ Out(o, "read_client") \in Nat
        /\ Out(o, "write_client") \in Nat
    BY <2>1, Nine
  <2>3. h = HttpDone \/ h = NoChunk
    BY <1>1, <2>1 DEF Chosen, h
  <2>4. s \in {"absent", "wait_request", "connection_established", "ready_to_transfer_data",
               "data_transfer_mode", "erased"}
    BY <2>1 DEF Sessions
  <2>5. Counts(s, h, Out(o, "handshake"), Out(o, "read_server"), Out(o, "write_server"),
               Out(o, "resolve"), Out(o, "connect"), Out(o, "read_client"), Out(o, "write_client"))
    BY <2>1 DEF Shape
  <2>6. h = NoChunk => s \in {"absent", "wait_request", "erased"}
    BY <2>1 DEF Chosen
  <2>7. /\ Out(o, "read_server") <= 1 /\ Out(o, "write_server") <= 1
        /\ Out(o, "read_client") <= 1 /\ Out(o, "write_client") <= 1
    BY <2>2, <2>3, <2>4, <2>5, <2>6 DEF Counts
  <2> QED
    BY <2>7 DEF o
<1>2. ASSUME HInv, NEW id \in Ids, state[id] = "data_transfer_mode", response[id] = HttpDone
      PROVE  /\ ops[id]["read_client"]["error"] > 0 =>
                   Len(out[id]["server"]) = 1 + taken[id]["client"]
             /\ ops[id]["read_server"]["error"] > 0 =>
                   Len(out[id]["client"]) + 1 = taken[id]["server"]
  <2>1. /\ ToRemote(ops[id], taken[id]["server"], Len(out[id]["client"]))
        /\ ToLocal(ops[id], taken[id]["client"], Len(out[id]["server"]))
        /\ taken[id]["server"] \in Nat /\ taken[id]["client"] \in Nat
        /\ Len(out[id]["server"]) \in Nat /\ Len(out[id]["client"]) \in Nat
    BY <1>2, Facts DEF KnownOf, Known, Sound, Order, Tunnelling
  <2> QED
    BY <2>1 DEF ToRemote, ToLocal, Undone
<1>3. ASSUME HInv PROVE TunnelsShareNothing
  <2>1. ASSUME NEW id \in Ids, NEW side \in Side, response[id] # Forwarded
        PROVE  Out(ops[id], ReadOp(side)) <= 1 /\ Out(ops[id], WriteOp(side)) <= 1
    BY <1>1, <1>3, <2>1 DEF Side, ReadOp, WriteOp
  <2> QED
    BY <2>1 DEF TunnelsShareNothing
<1>4. ASSUME HInv PROVE TunnelsLoseNothing
  BY <1>2, <1>4 DEF TunnelsLoseNothing
<1> QED
  BY <1>3, <1>4

(* No buffer of a tunnel, or of a session that is refused, is used twice   *)
(* at a time, live or erased: the sharing that http_response leads to is   *)
(* confined to forwarded requests.                                         *)
THEOREM TunnelBuffersNotShared == Spec => []TunnelsShareNothing
BY SoundAlways, SoundTunnels, PTL

(* The end of what a peer of a tunnel sends is handled, and the session    *)
(* stopped for it, only when all of it was written to the other.           *)
THEOREM TunnelEofLosesNothing == Spec => []TunnelsLoseNothing
BY SoundAlways, SoundTunnels, PTL

----
(* What QuietAfterErase says of one session in one step.                   *)
QuietStep(id) ==
    state[id] = "erased" =>
        /\ state'[id] = "erased"
        /\ \A op \in Op : Out(ops'[id], op) <= Out(ops[id], op)

LEMMA OthersQuiet ==
    ASSUME HInv, NEW id \in Ids, NEW i \in Ids \ {id}, KernelStep(i) \/ Dispatch(i)
    PROVE  state'[id] = state[id] /\ ops'[id] = ops[id]
<1> USE DEF HInv, TypeOK
<1>1. CASE KernelStep(i)
  <2>1. PICK op \in Op, p \in {"ok", "error"} : Settles(i, op, p)
    BY <1>1, KernelSettles, Typed DEF KernelStep
  <2> QED
    BY <2>1 DEF Settles
<1>2. CASE Stream(i)
  BY <1>2 DEF Stream, Handshaken, Resolved, TlsClosed, Dropped, Then
<1>3. CASE RequestAccepted(i) \/ Connected(i) \/ AnswerWritten(i) \/ RequestWritten(i)
  BY <1>3 DEF RequestAccepted, Connected, AnswerWritten, RequestWritten, StartReads, Then
<1>4. CASE RequestRefused(i)
  BY <1>4 DEF RequestRefused, Refusal
<1>5. ASSUME NEW side \in Side, TransferRead(i, side) \/ TransferWritten(i, side)
      PROVE  state'[id] = state[id] /\ ops'[id] = ops[id]
  BY <1>5 DEF TransferRead, TransferWritten, Then
<1>6. CASE StreamError(i)
  BY <1>6 DEF StreamError, Stop
<1> QED
  BY <1>1, <1>2, <1>3, <1>4, <1>5, <1>6 DEF Dispatch

LEMMA QuietNext ==
    ASSUME HInv, [Next]_httpVars, NEW id \in Ids
    PROVE  QuietStep(id)
<1> USE OpNames
<1> SUFFICES ASSUME state[id] = "erased"
             PROVE  /\ state'[id] = "erased"
                    /\ \A op \in Op : Out(ops'[id], op) <= Out(ops[id], op)
  BY DEF QuietStep
<1>1. ops[id] \in OpsType /\ \A op \in Op : Out(ops[id], op) \in Nat
  BY OutNat DEF HInv, TypeOK, OpsType
<1>2. CASE state'[id] = state[id] /\ ops'[id] = ops[id]
  BY <1>1, <1>2
<1>3. CASE KernelStep(id)
  <2>1. PICK op \in Op, p \in {"ok", "error"} : Settles(id, op, p)
    BY <1>3, KernelSettles, Typed DEF HInv, KernelStep
  <2>2. ops'[id] = Settle(ops[id], op, p) /\ state' = state /\ ops[id][op]["pending"] > 0
    BY <2>1 DEF HInv, TypeOK, Settles
  <2>3. \A b \in Op : Out(ops'[id], b) = Out(ops[id], b)
    BY <1>1, <2>2, SettleOut
  <2> QED
    BY <1>1, <2>2, <2>3
<1>4. CASE TlsClosed(id) \/ Dropped(id, Handles(state[id]))
  <2>1. PICK op \in Op, p \in {"ok", "error"} :
          /\ ops[id][op][p] > 0
          /\ ops' = [ops EXCEPT ![id] = Retire(@, op, p)]
          /\ state' = state
    BY <1>4 DEF TlsClosed, Dropped, Completed
  <2>2. ops'[id] = Retire(ops[id], op, p)
    BY <2>1 DEF HInv, TypeOK
  <2>3. \A b \in Op : Out(Retire(ops[id], op, p), b) =
                        IF b = op THEN Out(ops[id], b) - 1 ELSE Out(ops[id], b)
    BY <1>1, <2>1, RetireOut
  <2> QED
    BY <1>1, <2>1, <2>2, <2>3
<1>5. CASE Handshaken(id) \/ Resolved(id)
  <2>1. Shape(state[id], response[id], ops[id])
    BY Facts DEF KnownOf, Known, Sound
  <2>2. Out(ops[id], "handshake") = 0 /\ Out(ops[id], "resolve") = 0
    BY <2>1 DEF Shape, Counts
  <2>3. PICK op \in {"handshake", "resolve"} : ops[id][op]["ok"] > 0
    BY <1>5 DEF Handshaken, Resolved, Completed
  <2>4. Out(ops[id], op) >= 1
    BY <1>1, <2>3, RetireOut
  <2> QED
    BY <2>2, <2>4
<1>6. ASSUME Dispatch(id), ~(TlsClosed(id) \/ Dropped(id, Handles(state[id]))),
             ~(Handshaken(id) \/ Resolved(id))
      PROVE  FALSE
  BY <1>6 DEF Dispatch, Stream, RequestAccepted, RequestRefused, Connected, AnswerWritten,
     RequestWritten, StartReads, TransferRead, TransferWritten, StreamError, Live
<1>7. ASSUME NEW i \in Ids \ {id}, KernelStep(i) \/ Dispatch(i)
      PROVE  state'[id] = state[id] /\ ops'[id] = ops[id]
  BY <1>7, OthersQuiet
<1>8. CASE Accepted \/ AcceptFailed \/ Signalled
  <2>1. id # stream_id
    <3>1. stream_id \in Int
      BY DEF HInv, TypeOK
    <3>2. id >= stream_id => state[id] = "absent"
      BY DEF HInv, FreshId
    <3> QED
      BY <3>1, <3>2
  <2>2. state'[id] = state[id] /\ ops'[id] = ops[id]
    BY <1>8, <2>1 DEF Accepted, AcceptFailed, Signalled, Accept, AcceptError, Signal, HInv, TypeOK
  <2> QED
    BY <1>2, <2>2
<1>9. CASE UNCHANGED httpVars
  BY <1>2, <1>9 DEF httpVars, vars
<1> QED
  BY <1>2, <1>3, <1>4, <1>5, <1>6, <1>7, <1>8, <1>9 DEF Next

(* In http mode too an erased session never returns, and nothing starts on *)
(* its streams: neither for a tunnel nor for the two reads of a forwarded  *)
(* request nor behind a 500 answer that is still being written.            *)
THEOREM ErasedStaysQuiet == Spec => QuietAfterErase
<1>1. HInv /\ [Next]_httpVars =>
        [\A id \in Ids : state[id] = "erased" =>
           /\ state'[id] = "erased"
           /\ \A op \in Op : Out(ops'[id], op) <= Out(ops[id], op)]_vars
  BY QuietNext DEF QuietStep
<1> QED
  BY <1>1, SoundAlways, PTL DEF Spec, QuietAfterErase

----
(* An HTTP session implements Relay.  The invariant is enough as it is:    *)
(* Tunnelling says what the operations of a tunnel carry, of an erased     *)
(* session too, and a session that is no tunnel relays nothing.            *)

(* What the relay has delivered, as a part of what a peer was sent.        *)
RemotePart(v) == [i \in DOMAIN v |-> v[i].n - 1]
LocalPart(v) == [i \in 1 .. Beyond(Len(v)) |-> v[i + 1].n]

LEMMA RemotePartAppend ==
    ASSUME NEW v \in Seq(Chunks), NEW c \in Chunks
    PROVE  /\ Len(RemotePart(v)) = Len(v)
           /\ RemotePart(Append(v, c)) = Append(RemotePart(v), c.n - 1)
<1> DEFINE n == Len(v)
           f == RemotePart(v)
           g == RemotePart(Append(v, c))
<1>1. /\ n \in Nat /\ DOMAIN v = 1 .. n /\ \A i \in 1 .. n : v[i] \in Chunks
  OBVIOUS
<1>2. /\ DOMAIN Append(v, c) = 1 .. n + 1 /\ \A i \in 1 .. n : Append(v, c)[i] = v[i]
      /\ Append(v, c)[n + 1] = c
  <2>1. /\ Append(v, c) \in Seq(Chunks) /\ Len(Append(v, c)) = n + 1
        /\ \A i \in 1 .. n : Append(v, c)[i] = v[i] /\ Append(v, c)[n + 1] = c
    BY AppendProperties
  <2> QED
    BY <2>1
<1>3. \A d \in Chunks : d.n - 1 \in Int
  BY DEF Chunks
<1>4. f \in [1 .. n -> Int]
  BY <1>1, <1>3 DEF RemotePart
<1>5. /\ \A i \in 1 .. n : g[i] = f[i]
      /\ g[n + 1] = c.n - 1
  BY <1>1, <1>2 DEF RemotePart
<1>6. g \in [1 .. n + 1 -> Int]
  <2>1. \A i \in 1 .. n + 1 : Append(v, c)[i] \in Chunks
    BY <1>1, <1>2
  <2> QED
    BY <1>2, <1>3, <2>1 DEF RemotePart
<1> HIDE DEF n, f, g
<1>7. Len(f) = n /\ g = Append(f, g[n + 1])
  BY <1>1, <1>4, <1>5, <1>6, FcnSeq, FcnAppend
<1> QED
  BY <1>5, <1>7 DEF n, f, g

LEMMA LocalPartAppend ==
    ASSUME NEW v \in Seq(Chunks), NEW c \in Chunks
    PROVE  /\ Len(LocalPart(v)) = Beyond(Len(v))
           /\ Len(v) < 1 => LocalPart(Append(v, c)) = LocalPart(v)
           /\ Len(v) >= 1 => LocalPart(Append(v, c)) = Append(LocalPart(v), c.n)
<1> DEFINE n == Len(v)
           f == LocalPart(v)
           g == LocalPart(Append(v, c))
           m == Beyond(n)
<1>1. /\ n \in Nat /\ DOMAIN v = 1 .. n /\ \A i \in 1 .. n : v[i] \in Chunks
  OBVIOUS
<1>2. /\ Len(Append(v, c)) = n + 1 /\ \A i \in 1 .. n : Append(v, c)[i] = v[i]
      /\ Append(v, c)[n + 1] = c
  BY AppendProperties
<1>3. \A d \in Chunks : d.n \in Nat
  BY DEF Chunks
<1>4. m \in Nat /\ \A i \in 1 .. m : i + 1 \in 1 .. n
  BY <1>1 DEF Beyond
<1>5. f \in [1 .. m -> Nat]
  BY <1>1, <1>3, <1>4 DEF LocalPart
<1>6. CASE n < 1
  <2>1. Beyond(n) = 0 /\ Beyond(n + 1) = 0
    BY <1>1, <1>6 DEF Beyond
  <2>2. f \in [1 .. 0 -> Nat] /\ g \in [1 .. 0 -> Nat]
    BY <1>2, <2>1 DEF LocalPart
  <2>3. f = <<>> /\ g = <<>>
    BY <2>2, FcnEmpty
  <2> HIDE DEF n, f, g, m
  <2>4. Len(f) = m
    BY <1>4, <1>5, FcnSeq
  <2> QED
    BY <1>1, <1>6, <2>3, <2>4 DEF n, f, g, m
<1>7. CASE n >= 1
  <2>1. m = n - 1 /\ Beyond(n + 1) = m + 1
    BY <1>1, <1>7 DEF Beyond
  <2>2. /\ \A i \in 1 .. m : g[i] = f[i]
        /\ g[m + 1] = c.n
    <3>1. \A i \in 1 .. m + 1 : g[i] = Append(v, c)[i + 1].n
      BY <1>2, <2>1 DEF LocalPart
    <3>2. \A i \in 1 .. m : f[i] = v[i + 1].n
      BY DEF LocalPart
    <3>3. m + 1 \in 1 .. m + 1 /\ m + 1 + 1 = n + 1 /\ \A i \in 1 .. m : i \in 1 .. m + 1
      BY <1>1, <1>4, <2>1
    <3> HIDE DEF n, f, g, m
    <3> QED
      BY <1>2, <1>4, <3>1, <3>2, <3>3
  <2>3. g \in [1 .. m + 1 -> Nat]
    <3>1. DOMAIN g = 1 .. m + 1 /\ g = [i \in DOMAIN g |-> g[i]]
      BY <1>2, <2>1 DEF LocalPart
    <3>2. \A i \in 1 .. m : f[i] \in Nat
      BY <1>5
    <3>3. c.n \in Nat
      BY <1>3
    <3> HIDE DEF n, f, g, m
    <3>4. \A i \in 1 .. m + 1 : g[i] \in Nat
      BY <1>4, <2>2, <3>2, <3>3
    <3> QED
      BY <3>1, <3>4
  <2> HIDE DEF n, f, g, m
  <2>4. Len(f) = m /\ g = Append(f, g[m + 1])
    BY <1>4, <1>5, <2>2, <2>3, FcnSeq, FcnAppend
  <2>5. ~(n < 1)
    BY <1>1, <1>7
  <2> QED
    BY <1>1, <1>7, <2>2, <2>4, <2>5 DEF n, f, g, m
<1> QED
  BY <1>1, <1>6, <1>7

----
(* A session implements Relay: the values its variables are mapped to.     *)
Phases == [id \in Ids |-> PhaseOf(id)]
Fetches == [id \in Ids |-> Fetched(id)]
Deliveries == [id \in Ids |-> Delivered(id)]

LEMMA Mapped ==
    ASSUME NEW id \in Ids, IsTunnel(id)
    PROVE  /\ Fetched(id) = [to_remote |-> Beyond(taken[id]["server"]),
                             to_local |-> taken[id]["client"]]
           /\ Delivered(id) = [to_remote |-> RemotePart(out[id]["client"]),
                               to_local |-> LocalPart(out[id]["server"])]
BY DEF Fetched, Delivered, RemotePart, LocalPart

LEMMA EmptyParts ==
    /\ RemotePart(<<>>) = <<>> /\ LocalPart(<<>>) = <<>>
    /\ Beyond(0) = 0 /\ Beyond(1) = 0
<1>1. RemotePart(<<>>) \in [1 .. 0 -> Int]
  BY DEF RemotePart
<1>2. LocalPart(<<>>) \in [1 .. 0 -> Int]
  BY DEF LocalPart, Beyond
<1> QED
  BY <1>1, <1>2, FcnEmpty DEF Beyond

LEMMA InitRelay == HttpInit => Abstract!Init
<1> SUFFICES ASSUME HttpInit PROVE Abstract!Init
  OBVIOUS
<1>1. ASSUME NEW id \in Ids
      PROVE  /\ PhaseOf(id) = "idle"
             /\ Fetched(id) = [dir \in {"to_remote", "to_local"} |-> 0]
             /\ Delivered(id) = [dir \in {"to_remote", "to_local"} |-> <<>>]
  <2>1. ~IsTunnel(id) /\ state[id] = "absent"
    BY Responses DEF HttpInit, Init, IsTunnel
  <2> QED
    BY <2>1 DEF PhaseOf, Fetched, Delivered
<1> QED
  BY <1>1 DEF Abstract!Init, Abstract!Direction

LEMMA RelaySame ==
    ASSUME \A i \in Ids : /\ PhaseOf(i)' = PhaseOf(i)
                          /\ Fetched(i)' = Fetched(i) /\ Delivered(i)' = Delivered(i)
    PROVE  UNCHANGED Abstract!vars
<1>1. Phases' = Phases /\ Fetches' = Fetches /\ Deliveries' = Deliveries
  BY DEF Phases, Fetches, Deliveries
<1> QED
  BY <1>1 DEF Abstract!vars, Phases, Fetches, Deliveries

LEMMA RelayEnter ==
    ASSUME NEW id \in Ids, NEW from, NEW to,
           \A i \in Ids : Fetched(i)' = Fetched(i) /\ Delivered(i)' = Delivered(i),
           \A i \in Ids \ {id} : PhaseOf(i)' = PhaseOf(i),
           PhaseOf(id) \in from, PhaseOf(id)' = to
    PROVE  Abstract!Enter(id, from, to)
<1>1. Phases' = [Phases EXCEPT ![id] = to] /\ Phases[id] \in from
  BY DEF Phases
<1>2. Fetches' = Fetches /\ Deliveries' = Deliveries
  BY DEF Fetches, Deliveries
<1> QED
  BY <1>1, <1>2 DEF Abstract!Enter, Phases, Fetches, Deliveries

LEMMA RelayFetch ==
    ASSUME NEW id \in Ids, NEW dir \in Abstract!Direction,
           \A i \in Ids : PhaseOf(i)' = PhaseOf(i) /\ Delivered(i)' = Delivered(i),
           \A i \in Ids \ {id} : Fetched(i)' = Fetched(i),
           Fetched(id)' = [Fetched(id) EXCEPT ![dir] = @ + 1],
           PhaseOf(id) \in {"relaying", "closed"},
           Fetched(id)[dir] - Len(Delivered(id)[dir]) = 0
    PROVE  Abstract!Fetch(id, dir)
<1>1. /\ Phases' = Phases /\ Deliveries' = Deliveries
      /\ Fetches' = [Fetches EXCEPT ![id][dir] = @ + 1]
  BY DEF Phases, Fetches, Deliveries
<1>2. /\ Fetches[id][dir] - Len(Deliveries[id][dir]) = 0
      /\ Phases[id] \in {"relaying", "closed"}
  BY DEF Phases, Fetches, Deliveries
<1> QED
  BY <1>1, <1>2 DEF Abstract!Fetch, Abstract!Holds, Phases, Fetches, Deliveries

LEMMA RelayDeliver ==
    ASSUME NEW id \in Ids, NEW dir \in Abstract!Direction,
           \A i \in Ids : PhaseOf(i)' = PhaseOf(i) /\ Fetched(i)' = Fetched(i),
           \A i \in Ids \ {id} : Delivered(i)' = Delivered(i),
           Delivered(id)' = [Delivered(id) EXCEPT ![dir] = Append(@, Fetched(id)[dir])],
           PhaseOf(id) \in {"relaying", "closed"},
           Fetched(id)[dir] - Len(Delivered(id)[dir]) = 1
    PROVE  Abstract!Deliver(id, dir)
<1>1. /\ Phases' = Phases /\ Fetches' = Fetches
      /\ Deliveries' = [Deliveries EXCEPT ![id][dir] = Append(@, Fetched(id)[dir])]
  BY DEF Phases, Fetches, Deliveries
<1>2. /\ Fetches[id][dir] - Len(Deliveries[id][dir]) = 1
      /\ Phases[id] \in {"relaying", "closed"}
  BY DEF Phases, Fetches, Deliveries
<1> QED
  BY <1>1, <1>2 DEF Abstract!Deliver, Abstract!Holds, Phases, Fetches, Deliveries

----
(* The steps of the program that are steps of Relay.                       *)
LEMMA Parts ==
    ASSUME NEW a, NEW b, NEW n, NEW d, d = [to_remote |-> a, to_local |-> b]
    PROVE  /\ d["to_remote"] = a /\ d["to_local"] = b
           /\ [d EXCEPT !["to_remote"] = n] = [to_remote |-> n, to_local |-> b]
           /\ [d EXCEPT !["to_local"] = n] = [to_remote |-> a, to_local |-> n]
<1>1. [[to_remote |-> a, to_local |-> b] EXCEPT !["to_remote"] = n]
      = [to_remote |-> n, to_local |-> b]
  OBVIOUS
<1>2. [[to_remote |-> a, to_local |-> b] EXCEPT !["to_local"] = n]
      = [to_remote |-> a, to_local |-> n]
  OBVIOUS
<1> QED
  BY <1>1, <1>2

(* An operation of the data phase is under way in a tunnel only while it   *)
(* relays and after it was erased; of an answer it may be the write.       *)
LEMMA TunnelPhase ==
    ASSUME HInv, NEW id \in Ids, IsTunnel(id),
           \/ \E op \in {"read_server", "read_client", "write_client"} : Out(ops[id], op) >= 1
           \/ Out(ops[id], "write_server") >= 1 /\ taken[id]["client"] >= 1
    PROVE  PhaseOf(id) \in {"relaying", "closed"}
<1> DEFINE s == state[id]  o == ops[id]
<1>1. KnownOf(id)
  BY Facts
<1>2. /\ o \in OpsType /\ Shape(s, HttpDone, o) /\ Chosen(s, HttpDone)
      /\ Tunnelling(s, o, wbuf[id], taken[id], out[id])
      /\ s \in Sessions \union {"absent", "erased"}
  BY <1>1 DEF KnownOf, Known, Sound, Order, IsTunnel
<1> DEFINE rs == Out(o, "read_server")  ws == Out(o, "write_server")
           rc == Out(o, "read_client")  wc == Out(o, "write_client")
<1>3. rs \in Nat /\ ws \in Nat /\ rc \in Nat /\ wc \in Nat
  BY <1>2, Nine
<1>4. /\ s = "connection_established" => rs = 0 /\ ws = 0 /\ rc = 0 /\ wc = 0
      /\ s = "ready_to_transfer_data" => rs = 0 /\ rc = 0 /\ wc = 0
  BY <1>2 DEF Shape, Counts
<1>5. rs >= 1 \/ rc >= 1 \/ wc >= 1 \/ (ws >= 1 /\ taken[id]["client"] >= 1)
  OBVIOUS
<1>6. s = "ready_to_transfer_data" => taken[id]["client"] = 0
  BY <1>2 DEF Tunnelling
<1>7. s \notin {"absent", "wait_request"}
  BY <1>2, Responses DEF Chosen
<1> HIDE DEF rs, ws, rc, wc
<1>8. s # "connection_established" /\ s # "ready_to_transfer_data"
  BY <1>3, <1>4, <1>5, <1>6
<1>9. s \in {"data_transfer_mode", "erased"}
  BY <1>2, <1>7, <1>8 DEF Sessions
<1> QED
  BY <1>9 DEF PhaseOf

(* What Tunnelling says of a session, and the types it needs.              *)
LEMMA TunnelKnown ==
    ASSUME HInv, NEW id \in Ids, IsTunnel(id)
    PROVE  /\ KnownOf(id) /\ ops[id] \in OpsType
           /\ Tunnelling(state[id], ops[id], wbuf[id], taken[id], out[id])
           /\ taken[id]["server"] \in Nat /\ taken[id]["client"] \in Nat
           /\ out[id]["server"] \in Seq(Chunks) /\ out[id]["client"] \in Seq(Chunks)
           /\ Len(out[id]["server"]) \in Nat /\ Len(out[id]["client"]) \in Nat
           /\ wbuf[id]["server"] \in Chunks /\ wbuf[id]["client"] \in Chunks
<1>1. KnownOf(id)
  BY Facts
<1> QED
  BY <1>1, Names DEF KnownOf, Known, Sound, Order, IsTunnel

LEMMA ReceivedServer ==
    ASSUME HInv, NEW id \in Ids, Receive(id, "server"), response' = response, IsTunnel(id)
    PROVE  Abstract!Fetch(id, "to_remote")
<1> DEFINE o == ops[id]  t == taken[id]  u == out[id]
           n == t["server"]
           l == Len(u["client"])
<1>1. /\ o \in OpsType /\ n \in Nat /\ l \in Nat /\ u["client"] \in Seq(Chunks)
      /\ ToRemote(o, n, l) /\ o["read_server"]["pending"] > 0
  BY TunnelKnown DEF Receive, Pending, ReadOp, Tunnelling
<1>2. n = l + 1
  BY <1>1 DEF ToRemote, Undone
<1>3. /\ state' = state /\ out' = out
      /\ \A i \in Ids \ {id} : taken'[i] = taken[i]
      /\ taken'[id]["server"] = n + 1 /\ taken'[id]["client"] = t["client"]
  BY Names DEF Receive, HInv, TypeOK
<1>4. /\ \A i \in Ids : PhaseOf(i)' = PhaseOf(i) /\ Delivered(i)' = Delivered(i)
      /\ \A i \in Ids \ {id} : Fetched(i)' = Fetched(i)
  BY <1>3 DEF PhaseOf, IsTunnel, Delivered, Fetched
<1>5. /\ Fetched(id) = [to_remote |-> Beyond(n), to_local |-> t["client"]]
      /\ Fetched(id)' = [to_remote |-> Beyond(n + 1), to_local |-> t["client"]]
  BY <1>3 DEF Fetched, IsTunnel
<1>6. Beyond(n) = l /\ Beyond(n + 1) = l + 1
  <2> HIDE DEF n, l
  <2> QED
    BY <1>1, <1>2 DEF Beyond
<1>7. PhaseOf(id) \in {"relaying", "closed"}
  <2>1. Out(o, "read_server") >= 1
    BY <1>1, Names, Settling
  <2> QED
    BY <2>1, TunnelPhase
<1>8. /\ Fetched(id)["to_remote"] = l
      /\ [Fetched(id) EXCEPT !["to_remote"] = l + 1]
         = [to_remote |-> l + 1, to_local |-> t["client"]]
  BY <1>5, <1>6, Parts
<1>9. Fetched(id)' = [Fetched(id) EXCEPT !["to_remote"] = @ + 1]
  BY <1>5, <1>6, <1>8
<1>10. Fetched(id)["to_remote"] - Len(Delivered(id)["to_remote"]) = 0
  <2>1. Len(Delivered(id)["to_remote"]) = l
    BY <1>1, Mapped, StatusChunks, RemotePartAppend
  <2> QED
    BY <1>1, <1>8, <2>1
<1>11. "to_remote" \in Abstract!Direction
  BY DEF Abstract!Direction
<1> QED
  BY <1>4, <1>7, <1>9, <1>10, <1>11, RelayFetch

LEMMA ReceivedClient ==
    ASSUME HInv, NEW id \in Ids, Receive(id, "client"), response' = response, IsTunnel(id)
    PROVE  Abstract!Fetch(id, "to_local")
<1> DEFINE o == ops[id]  t == taken[id]  u == out[id]
           n == t["client"]
           m == Len(u["server"])
           b == Beyond(t["server"])
<1>1. /\ o \in OpsType /\ n \in Nat /\ m \in Nat /\ u["server"] \in Seq(Chunks)
      /\ ToLocal(o, n, m) /\ o["read_client"]["pending"] > 0
  BY TunnelKnown DEF Receive, Pending, ReadOp, Tunnelling
<1>2. m = n + 1
  BY <1>1 DEF ToLocal, Undone
<1>3. /\ state' = state /\ out' = out
      /\ \A i \in Ids \ {id} : taken'[i] = taken[i]
      /\ taken'[id]["client"] = n + 1 /\ taken'[id]["server"] = t["server"]
  BY Names DEF Receive, HInv, TypeOK
<1>4. /\ \A i \in Ids : PhaseOf(i)' = PhaseOf(i) /\ Delivered(i)' = Delivered(i)
      /\ \A i \in Ids \ {id} : Fetched(i)' = Fetched(i)
  BY <1>3 DEF PhaseOf, IsTunnel, Delivered, Fetched
<1>5. /\ Fetched(id) = [to_remote |-> b, to_local |-> n]
      /\ Fetched(id)' = [to_remote |-> b, to_local |-> n + 1]
  BY <1>3 DEF Fetched, IsTunnel
<1>6. Beyond(m) = n
  <2> HIDE DEF n, m
  <2> QED
    BY <1>1, <1>2 DEF Beyond
<1>7. PhaseOf(id) \in {"relaying", "closed"}
  <2>1. Out(o, "read_client") >= 1
    BY <1>1, Names, Settling
  <2> QED
    BY <2>1, TunnelPhase
<1>8. /\ Fetched(id)["to_local"] = n
      /\ [Fetched(id) EXCEPT !["to_local"] = n + 1] = [to_remote |-> b, to_local |-> n + 1]
  BY <1>5, Parts
<1>9. Fetched(id)' = [Fetched(id) EXCEPT !["to_local"] = @ + 1]
  BY <1>5, <1>8
<1>10. Fetched(id)["to_local"] - Len(Delivered(id)["to_local"]) = 0
  <2>1. Len(Delivered(id)["to_local"]) = n
    BY <1>1, <1>6, Mapped, StatusChunks, LocalPartAppend
  <2> QED
    BY <1>1, <1>8, <2>1
<1>11. "to_local" \in Abstract!Direction
  BY DEF Abstract!Direction
<1> QED
  BY <1>4, <1>7, <1>9, <1>10, <1>11, RelayFetch

LEMMA SentClient ==
    ASSUME HInv, NEW id \in Ids, Send(id, "client"), response' = response, IsTunnel(id)
    PROVE  Abstract!Deliver(id, "to_remote")
<1> DEFINE o == ops[id]  t == taken[id]  u == out[id]
           v == u["client"]
           c == wbuf[id]["client"]
           n == t["server"]
           l == Len(v)
           p == RemotePart(v)
           q == LocalPart(u["server"])
           f == Beyond(n)
           d == Append(p, f)
<1>1. /\ o \in OpsType /\ n \in Nat /\ l \in Nat /\ v \in Seq(Chunks) /\ c \in Chunks
      /\ ToRemote(o, n, l) /\ DueRemote(o, wbuf[id], u) /\ o["write_client"]["pending"] > 0
  BY TunnelKnown DEF Send, Pending, WriteOp, Tunnelling
<1>2. n = l + 2 /\ c = Chunk("server", l + 2)
  BY <1>1 DEF ToRemote, Undone, DueRemote
<1>3. /\ state' = state /\ taken' = taken
      /\ \A i \in Ids \ {id} : out'[i] = out[i]
      /\ out'[id]["client"] = Append(v, c) /\ out'[id]["server"] = u["server"]
  BY Names DEF Send, HInv, TypeOK
<1>4. /\ \A i \in Ids : PhaseOf(i)' = PhaseOf(i) /\ Fetched(i)' = Fetched(i)
      /\ \A i \in Ids \ {id} : Delivered(i)' = Delivered(i)
  BY <1>3 DEF PhaseOf, IsTunnel, Delivered, Fetched
<1>5. /\ Delivered(id) = [to_remote |-> p, to_local |-> q]
      /\ Delivered(id)' = [to_remote |-> RemotePart(Append(v, c)), to_local |-> q]
  BY <1>3 DEF Delivered, RemotePart, LocalPart, IsTunnel
<1>6. f = l + 1 /\ c.n - 1 = f
  <2>1. c.n = l + 2
    BY <1>2 DEF Chunk
  <2> HIDE DEF n, l, c
  <2> QED
    BY <1>1, <1>2, <2>1 DEF Beyond
<1>7. Len(p) = l /\ RemotePart(Append(v, c)) = d
  BY <1>1, <1>6, RemotePartAppend
<1>8. PhaseOf(id) \in {"relaying", "closed"}
  <2>1. Out(o, "write_client") >= 1
    BY <1>1, Names, Settling
  <2> QED
    BY <2>1, TunnelPhase
<1>9. Fetched(id)["to_remote"] = f
  BY Mapped
<1> HIDE DEF v, c, p, q, f, d
<1>10. /\ Delivered(id)["to_remote"] = p
       /\ [Delivered(id) EXCEPT !["to_remote"] = d] = [to_remote |-> d, to_local |-> q]
  BY <1>5, Parts
<1>11. Delivered(id)' = [Delivered(id) EXCEPT !["to_remote"] = Append(@, Fetched(id)["to_remote"])]
  BY <1>5, <1>7, <1>9, <1>10 DEF d
<1>12. Fetched(id)["to_remote"] - Len(Delivered(id)["to_remote"]) = 1
  BY <1>1, <1>6, <1>7, <1>9, <1>10
<1>13. "to_remote" \in Abstract!Direction
  BY DEF Abstract!Direction
<1> QED
  BY <1>4, <1>8, <1>11, <1>12, <1>13, RelayDeliver

LEMMA SentServer ==
    ASSUME HInv, NEW id \in Ids, Send(id, "server"), response' = response, IsTunnel(id)
    PROVE  UNCHANGED Abstract!vars \/ Abstract!Deliver(id, "to_local")
<1> DEFINE o == ops[id]  t == taken[id]  u == out[id]
           v == u["server"]
           c == wbuf[id]["server"]
           f == t["client"]
           m == Len(v)
           p == LocalPart(v)
           q == RemotePart(u["client"])
           d == Append(p, f)
<1>1. /\ o \in OpsType /\ f \in Nat /\ m \in Nat /\ v \in Seq(Chunks) /\ c \in Chunks
      /\ ToLocal(o, f, m) /\ DueLocal(o, wbuf[id], u) /\ o["write_server"]["pending"] > 0
  BY TunnelKnown DEF Send, Pending, WriteOp, Tunnelling
<1>2. m = f /\ c = Line(m)
  BY <1>1 DEF ToLocal, Undone, DueLocal
<1>3. /\ state' = state /\ taken' = taken
      /\ \A i \in Ids \ {id} : out'[i] = out[i]
      /\ out'[id]["server"] = Append(v, c) /\ out'[id]["client"] = u["client"]
  BY Names DEF Send, HInv, TypeOK
<1>4. /\ \A i \in Ids : PhaseOf(i)' = PhaseOf(i) /\ Fetched(i)' = Fetched(i)
      /\ \A i \in Ids \ {id} : Delivered(i)' = Delivered(i)
  BY <1>3 DEF PhaseOf, IsTunnel, Delivered, Fetched
<1>5. /\ Delivered(id) = [to_remote |-> q, to_local |-> p]
      /\ Delivered(id)' = [to_remote |-> q, to_local |-> LocalPart(Append(v, c))]
  BY <1>3 DEF Delivered, RemotePart, LocalPart, IsTunnel
<1>6. /\ Len(p) = Beyond(m)
      /\ m < 1 => LocalPart(Append(v, c)) = p
      /\ m >= 1 => LocalPart(Append(v, c)) = Append(p, c.n)
  BY <1>1, LocalPartAppend
<1>7. Fetched(id)["to_local"] = f
  BY Mapped
<1>8. CASE m < 1
  <2>1. Delivered(id)' = Delivered(id)
    BY <1>5, <1>6, <1>8
  <2> QED
    BY <1>4, <2>1, RelaySame
<1>9. CASE m >= 1
  <2>1. c.n = f
    BY <1>1, <1>2, <1>9 DEF Line, Chunk
  <2>2. PhaseOf(id) \in {"relaying", "closed"}
    <3>1. Out(o, "write_server") >= 1 /\ f >= 1
      BY <1>1, <1>2, <1>9, Names, Settling
    <3> QED
      BY <3>1, TunnelPhase
  <2>3. LocalPart(Append(v, c)) = d
    BY <1>6, <1>9, <2>1
  <2>4. Beyond(m) = m - 1
    <3> HIDE DEF m
    <3> QED
      BY <1>1, <1>9 DEF Beyond
  <2> HIDE DEF v, c, p, q, f, d, m
  <2>5. /\ Delivered(id)["to_local"] = p
        /\ [Delivered(id) EXCEPT !["to_local"] = d] = [to_remote |-> q, to_local |-> d]
    BY <1>5, Parts
  <2>6. Delivered(id)' = [Delivered(id) EXCEPT !["to_local"] = Append(@, Fetched(id)["to_local"])]
    BY <1>5, <1>7, <2>3, <2>5 DEF d
  <2>7. Fetched(id)["to_local"] - Len(Delivered(id)["to_local"]) = 1
    BY <1>1, <1>2, <1>6, <1>7, <2>4, <2>5
  <2>8. "to_local" \in Abstract!Direction
    BY DEF Abstract!Direction
  <2> QED
    BY <1>4, <2>2, <2>6, <2>7, <2>8, RelayDeliver
<1> QED
  BY <1>1, <1>8, <1>9

(* A session that is no tunnel, before and after a step, maps to a session *)
(* that has relayed nothing.                                               *)
LEMMA NoTunnel ==
    ASSUME NEW id \in Ids, ~IsTunnel(id), ~IsTunnel(id)'
    PROVE  Fetched(id)' = Fetched(id) /\ Delivered(id)' = Delivered(id)
BY DEF Fetched, Delivered

LEMMA KernelRelay ==
    ASSUME HInv, NEW id \in Ids, KernelStep(id)
    PROVE  \/ UNCHANGED Abstract!vars
           \/ \E dir \in Abstract!Direction : Abstract!Fetch(id, dir) \/ Abstract!Deliver(id, dir)
<1>0. "to_remote" \in Abstract!Direction /\ "to_local" \in Abstract!Direction
  BY DEF Abstract!Direction
<1>1. response' = response /\ Kernel(id)
  BY DEF KernelStep
<1>2. /\ state' = state
      /\ \A i \in Ids \ {id} : taken'[i] = taken[i] /\ out'[i] = out[i]
  BY <1>1 DEF Kernel, Receive, Send, Succeed, Fail, peers, HInv, TypeOK
<1>3. CASE ~IsTunnel(id)
  <2>1. \A i \in Ids : PhaseOf(i)' = PhaseOf(i)
    BY <1>1, <1>2 DEF PhaseOf, IsTunnel
  <2>2. \A i \in Ids \ {id} : Fetched(i)' = Fetched(i) /\ Delivered(i)' = Delivered(i)
    BY <1>1, <1>2 DEF Fetched, Delivered, IsTunnel
  <2>3. Fetched(id)' = Fetched(id) /\ Delivered(id)' = Delivered(id)
    BY <1>1, <1>3, NoTunnel DEF IsTunnel
  <2> QED
    BY <2>1, <2>2, <2>3, RelaySame
<1>4. ASSUME IsTunnel(id), NEW side \in Side, Receive(id, side) \/ Send(id, side)
      PROVE  \/ UNCHANGED Abstract!vars
             \/ \E dir \in Abstract!Direction :
                  Abstract!Fetch(id, dir) \/ Abstract!Deliver(id, dir)
  <2>1. CASE side = "server"
    BY <1>0, <1>1, <1>4, <2>1, ReceivedServer, SentServer
  <2>2. CASE side = "client"
    BY <1>0, <1>1, <1>4, <2>2, ReceivedClient, SentClient
  <2> QED
    BY <2>1, <2>2 DEF Side
<1>5. ASSUME NEW op \in Op, Succeed(id, op) \/ Fail(id, op)
      PROVE  UNCHANGED Abstract!vars
  <2>1. taken' = taken /\ out' = out
    BY <1>5 DEF Succeed, Fail, peers
  <2> QED
    BY <1>1, <1>2, <2>1, RelaySame DEF PhaseOf, Fetched, Delivered, IsTunnel
<1> QED
  BY <1>1, <1>3, <1>4, <1>5 DEF Kernel

(* A request that was accepted has relayed nothing, tunnel or not.         *)
LEMMA AcceptedRelay ==
    ASSUME HInv, NEW id \in Ids, RequestAccepted(id)
    PROVE  UNCHANGED Abstract!vars
<1>1. /\ state[id] = "wait_request" /\ state'[id] = "connection_established"
      /\ taken' = taken /\ out' = out /\ Done(ops[id], "read_server")
      /\ \A i \in Ids \ {id} : state'[i] = state[i] /\ response'[i] = response[i]
  BY DEF RequestAccepted, Completed, Done, peers, HInv, TypeOK
<1>2. KnownOf(id) /\ response[id] = NoChunk
  BY <1>1, Facts DEF KnownOf, Known, Sound, Chosen
<1>3. Refusing(state[id], ops[id], sock[id], wbuf[id], taken[id], out[id])
  BY <1>2 DEF KnownOf, Known, Sound, Order
<1>4. /\ taken[id]["server"] = 1 /\ taken[id]["client"] = 0
      /\ out[id]["server"] = <<>> /\ out[id]["client"] = <<>>
  BY <1>1, <1>3 DEF Refusing
<1>5. PhaseOf(id) = "negotiating" /\ PhaseOf(id)' = "negotiating"
  BY <1>1 DEF PhaseOf
<1>6. ~IsTunnel(id)
  BY <1>2, Responses DEF IsTunnel
<1>7. Fetched(id)' = Fetched(id) /\ Delivered(id)' = Delivered(id)
  <2>1. CASE IsTunnel(id)'
    <3>1. /\ Fetched(id)' = [to_remote |-> 0, to_local |-> 0]
          /\ Delivered(id)' = [to_remote |-> <<>>, to_local |-> <<>>]
      BY <1>1, <1>4, <2>1, EmptyParts DEF Fetched, Delivered, RemotePart, LocalPart
    <3> QED
      BY <1>6, <3>1 DEF Fetched, Delivered
  <2>2. CASE ~IsTunnel(id)'
    BY <1>6, <2>2, NoTunnel
  <2> QED
    BY <2>1, <2>2
<1>8. \A i \in Ids \ {id} : /\ PhaseOf(i)' = PhaseOf(i)
                            /\ Fetched(i)' = Fetched(i) /\ Delivered(i)' = Delivered(i)
  BY <1>1 DEF PhaseOf, Fetched, Delivered, IsTunnel
<1> QED
  BY <1>5, <1>7, <1>8, RelaySame

(* The refusal closes a session that never was a tunnel.                   *)
LEMMA RefusedRelay ==
    ASSUME HInv, NEW id \in Ids, RequestRefused(id)
    PROVE  Abstract!Close(id)
<1>1. /\ state[id] = "wait_request" /\ state'[id] = "erased"
      /\ taken' = taken /\ response' = response
      /\ \A i \in Ids \ {id} : state'[i] = state[i] /\ out'[i] = out[i]
  BY DEF RequestRefused, Refusal, HInv, TypeOK
<1>2. response[id] = NoChunk
  BY <1>1, Facts DEF KnownOf, Known, Sound, Chosen
<1>3. Fetched(id)' = Fetched(id) /\ Delivered(id)' = Delivered(id)
  BY <1>1, <1>2, Responses, NoTunnel DEF IsTunnel
<1>4. \A i \in Ids \ {id} : /\ PhaseOf(i)' = PhaseOf(i)
                            /\ Fetched(i)' = Fetched(i) /\ Delivered(i)' = Delivered(i)
  BY <1>1 DEF PhaseOf, Fetched, Delivered, IsTunnel
<1>5. PhaseOf(id) \in {"negotiating", "relaying"} /\ PhaseOf(id)' = "closed"
  BY <1>1 DEF PhaseOf
<1> QED
  BY <1>3, <1>4, <1>5, RelayEnter DEF Abstract!Close

(* A tunnel starts to relay when its answer is written.                    *)
LEMMA WrittenRelay ==
    ASSUME HInv, NEW id \in Ids, AnswerWritten(id) \/ RequestWritten(id)
    PROVE  UNCHANGED Abstract!vars \/ Abstract!StartRelaying(id)
<1>1. /\ state[id] = "ready_to_transfer_data" /\ state'[id] = "data_transfer_mode"
      /\ taken' = taken /\ out' = out /\ response' = response
      /\ \A i \in Ids \ {id} : state'[i] = state[i]
  BY DEF AnswerWritten, RequestWritten, StartReads, peers, HInv, TypeOK
<1>2. /\ \A i \in Ids : Fetched(i)' = Fetched(i) /\ Delivered(i)' = Delivered(i)
      /\ \A i \in Ids \ {id} : PhaseOf(i)' = PhaseOf(i)
  BY <1>1 DEF PhaseOf, Fetched, Delivered, IsTunnel
<1>3. PhaseOf(id) = "negotiating"
  BY <1>1 DEF PhaseOf
<1>4. CASE IsTunnel(id)
  <2>1. PhaseOf(id)' = "relaying"
    BY <1>1, <1>4 DEF PhaseOf, IsTunnel
  <2> QED
    BY <1>2, <1>3, <2>1, RelayEnter DEF Abstract!StartRelaying
<1>5. CASE ~IsTunnel(id)
  <2>1. PhaseOf(id)' = "negotiating"
    BY <1>1, <1>5 DEF PhaseOf, IsTunnel
  <2> QED
    BY <1>2, <1>3, <2>1, RelaySame
<1> QED
  BY <1>4, <1>5

LEMMA DispatchRelay ==
    ASSUME HInv, NEW id \in Ids, Dispatch(id)
    PROVE  UNCHANGED Abstract!vars \/ Abstract!StartRelaying(id) \/ Abstract!Close(id)
<1>1. ASSUME taken' = taken, out' = out, response' = response,
             \A i \in Ids \ {id} : state'[i] = state[i]
      PROVE  /\ \A i \in Ids : Fetched(i)' = Fetched(i) /\ Delivered(i)' = Delivered(i)
             /\ \A i \in Ids \ {id} : PhaseOf(i)' = PhaseOf(i)
  BY <1>1 DEF PhaseOf, Fetched, Delivered, IsTunnel
<1>2. ASSUME taken' = taken, out' = out, response' = response, state' = state
      PROVE  UNCHANGED Abstract!vars
  BY <1>2, RelaySame DEF PhaseOf, Fetched, Delivered, IsTunnel
<1>3. CASE Stream(id)
  BY <1>2, <1>3 DEF Stream, Handshaken, Resolved, TlsClosed, Dropped, peers
<1>4. ASSUME NEW side \in Side, TransferRead(id, side) \/ TransferWritten(id, side)
      PROVE  UNCHANGED Abstract!vars
  BY <1>2, <1>4 DEF TransferRead, TransferWritten, peers
<1>5. CASE Connected(id)
  <2>1. /\ state[id] = "connection_established" /\ state'[id] = "ready_to_transfer_data"
        /\ taken' = taken /\ out' = out /\ response' = response
        /\ \A i \in Ids \ {id} : state'[i] = state[i]
    BY <1>5 DEF Connected, peers, HInv, TypeOK
  <2>2. PhaseOf(id) = "negotiating" /\ PhaseOf(id)' = "negotiating"
    BY <2>1 DEF PhaseOf
  <2> QED
    BY <1>1, <2>1, <2>2, RelaySame
<1>6. CASE StreamError(id)
  <2>1. /\ state[id] \in Sessions /\ state'[id] = "erased"
        /\ taken' = taken /\ out' = out /\ response' = response
        /\ \A i \in Ids \ {id} : state'[i] = state[i]
    BY <1>6 DEF StreamError, Stop, Live, peers, HInv, TypeOK
  <2>2. PhaseOf(id) \in {"negotiating", "relaying"} /\ PhaseOf(id)' = "closed"
    BY <2>1 DEF PhaseOf, Sessions
  <2> QED
    BY <1>1, <2>1, <2>2, RelayEnter DEF Abstract!Close
<1> QED
  BY <1>3, <1>4, <1>5, <1>6, AcceptedRelay, RefusedRelay, WrittenRelay DEF Dispatch

LEMMA AcceptRelay ==
    ASSUME HInv, Accepted
    PROVE  \E id \in Ids : Abstract!Open(id)
<1>1. PICK id \in Ids : id = stream_id
  BY DEF Accepted, Accept
<1>2. /\ state[id] = "absent" /\ state'[id] = "wait_request"
      /\ taken' = taken /\ out' = out /\ response' = response
      /\ \A i \in Ids \ {id} : state'[i] = state[i]
  BY <1>1 DEF Accepted, Accept, peers, HInv, TypeOK, FreshId
<1>3. /\ \A i \in Ids : Fetched(i)' = Fetched(i) /\ Delivered(i)' = Delivered(i)
      /\ \A i \in Ids \ {id} : PhaseOf(i)' = PhaseOf(i)
  BY <1>2 DEF PhaseOf, Fetched, Delivered, IsTunnel
<1>4. PhaseOf(id) = "idle" /\ PhaseOf(id)' = "negotiating"
  BY <1>2 DEF PhaseOf
<1> QED
  BY <1>3, <1>4, RelayEnter DEF Abstract!Open

LEMMA NextRelay ==
    ASSUME HInv, [Next]_httpVars
    PROVE  [Abstract!Next]_(Abstract!vars)
<1>1. CASE AcceptFailed \/ Signalled \/ UNCHANGED httpVars
  <2>1. state' = state /\ taken' = taken /\ out' = out /\ response' = response
    BY <1>1 DEF AcceptFailed, Signalled, AcceptError, Signal, httpVars, vars, peers
  <2> QED
    BY <2>1, RelaySame DEF PhaseOf, Fetched, Delivered, IsTunnel
<1> QED
  BY <1>1, KernelRelay, DispatchRelay, AcceptRelay DEF Next, Abstract!Next

(* An HTTP session implements Relay: a tunnel relays nothing before its    *)
(* 200 is written, and from then on the pumps of http_data_transfer_mode   *)
(* lose, double and reorder nothing; an erased tunnel still takes or sends *)
(* at most the one message a direction had under way.                      *)
THEOREM SessionsImplementRelay == Spec => ImplementsRelay
BY InitRelay, NextRelay, SoundAlways, PTL DEF Spec, ImplementsRelay, Abstract!Spec
====
