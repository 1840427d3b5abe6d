---- MODULE Socks5Proofs ----
(***************************************************************************)
(* Theorems about Socks5, for any number of streams and messages, over TCP *)
(* and over TLS: what is outstanding when, and what is told and relayed.   *)
(***************************************************************************)
EXTENDS Socks5, TransportProofs

----
(* Every variable keeps its type.                                          *)
LEMMA Typed == TypeOK <=> StreamsTyped /\ state \in [Ids -> Sessions \union {"absent", "erased"}]
BY DEF TypeOK, StreamsTyped, OpsType

LEMMA InitType == Init => TypeOK
<1>1. Init => state \in [Ids -> Sessions \union {"absent", "erased"}]
  BY DEF Init
<1> QED
  BY <1>1, InitTyped, Typed

LEMMA KernelType ==
    ASSUME TypeOK, NEW id \in Ids, Kernel(id)
    PROVE  TypeOK'
BY KernelTyped, Typed DEF TypeOK, StreamsTyped, OpsType

LEMMA StopType ==
    ASSUME TypeOK, NEW id \in Ids, NEW op \in Op, NEW p \in {"ok", "error"},
           Completed(id, op, p), Stop(id, op, p)
    PROVE  TypeOK'
<1>1. StreamsTyped' /\ state' = [state EXCEPT ![id] = "erased"]
  BY StopTyped, Typed
<1>2. state' \in [Ids -> Sessions \union {"absent", "erased"}]
  BY <1>1, Typed
<1> QED
  BY <1>1, <1>2 DEF TypeOK, StreamsTyped, OpsType

LEMMA DispatchType ==
    ASSUME TypeOK, NEW id \in Ids, Dispatch(id)
    PROVE  TypeOK'
<1> USE OpNames
<1>0. StreamsTyped
  BY Typed
<1>1. CASE Handshaken(id) \/ Resolved(id) \/ TlsClosed(id) \/ Dropped(id, Handles(state[id]))
  <2>1. StreamsTyped' /\ state' = state
    BY <1>0, <1>1, StreamTyped
  <2> QED
    BY <2>1 DEF TypeOK, StreamsTyped, OpsType
<1>5. CASE AuthRequestRead(id)
  <2>1. ops' \in [Ids -> OpsType]
    BY <1>0, <1>5, TypedThen DEF AuthRequestRead, Then
  <2>2. \A n \in Nat : Chunk("auth", n) \in Chunks
    BY ChunkType DEF ChunkKind
  <2>3. wbuf' \in [Ids -> [Side -> Chunks]]
    BY <1>5, <2>2 DEF TypeOK, AuthRequestRead, NoAuth, NotSupported
  <2> QED
    BY <1>5, <2>1, <2>3 DEF TypeOK, AuthRequestRead, listener, peers, OpsType, Sessions
<1>6. CASE AuthReplyWritten(id)
  <2>1. ops' \in [Ids -> OpsType]
    BY <1>0, <1>6, TypedThen DEF AuthReplyWritten, Then
  <2> QED
    BY <1>6, <2>1 DEF TypeOK, AuthReplyWritten, listener, buffers, peers, OpsType
<1>7. CASE RequestAccepted(id)
  <2>1. ops' \in [Ids -> OpsType]
    BY <1>0, <1>7, TypedThen DEF RequestAccepted, Then
  <2> QED
    BY <1>7, <2>1 DEF TypeOK, RequestAccepted, listener, buffers, peers, OpsType, Sessions
<1>8. CASE RequestRejected(id)
  BY <1>8, StopType DEF RequestRejected
<1>9. CASE Connected(id)
  <2>1. ops' \in [Ids -> OpsType]
    BY <1>0, <1>9, TypedThen DEF Connected, Then
  <2>2. Chunk("reply", Succeeded) \in Chunks
    BY ChunkType DEF ChunkKind, Succeeded
  <2> QED
    BY <1>9, <2>1, <2>2 DEF TypeOK, Connected, listener, peers, OpsType, Sessions
<1>10. CASE ConnectFailed(id)
  <2>1. PICK op \in ClientOp :
          /\ Completed(id, op, "error")
          /\ \E error \in ErrorsOf(op) :
               wbuf' = [wbuf EXCEPT ![id]["server"] = Chunk("reply", ResponseCode(error))]
          /\ ops' = [ops EXCEPT ![id] = Issue(Retire(@, op, "error"), "write_server")]
    BY <1>10 DEF ConnectFailed
  <2>2. ops' \in [Ids -> OpsType]
    BY <1>0, <2>1, TypedThen
  <2>3. \A error : ResponseCode(error) \in Nat
    BY DEF ResponseCode
  <2>4. \A n \in Nat : Chunk("reply", n) \in Chunks
    BY ChunkType DEF ChunkKind
  <2> QED
    BY <1>10, <2>1, <2>2, <2>3, <2>4 DEF TypeOK, ConnectFailed, listener, peers, OpsType
<1>11. CASE ErrorReplyWritten(id)
  BY <1>11, StopType DEF ErrorReplyWritten
<1>12. CASE ReplyWritten(id)
  <2>1. ops[id] \in OpsType /\ ops[id]["write_server"]["ok"] > 0
    BY <1>12 DEF TypeOK, ReplyWritten, Completed, OpsType
  <2>2. Issue(Issue(Retire(ops[id], "write_server", "ok"), "read_server"), "read_client") \in OpsType
    BY <2>1, ThenType, IssueOut
  <2> QED
    BY <1>12, <2>2 DEF TypeOK, ReplyWritten, listener, buffers, peers, OpsType, Sessions
<1>13. ASSUME NEW side \in Side, TransferRead(id, side)
       PROVE  TypeOK'
  <2>1. ops' \in [Ids -> OpsType]
    BY <1>0, <1>13, TypedThen DEF TransferRead, Then
  <2>2. wbuf' \in [Ids -> [Side -> Chunks]]
    <3>1. rbuf[id][side] \in Chunks /\ Other(side) \in Side
      BY DEF TypeOK
    <3> QED
      BY <1>13, <3>1 DEF TypeOK, TransferRead
  <2>3. transferred' \in [Ids -> [Side -> Nat]]
    <3>1. transferred[id][Other(side)] + 1 \in Nat /\ Other(side) \in Side
      BY DEF TypeOK
    <3> QED
      BY <1>13, <3>1 DEF TypeOK, TransferRead
  <2> QED
    BY <1>13, <2>1, <2>2, <2>3 DEF TypeOK, TransferRead, listener, peers, OpsType
<1>14. ASSUME NEW side \in Side, TransferWritten(id, side)
       PROVE  TypeOK'
  <2>1. ops' \in [Ids -> OpsType]
    BY <1>0, <1>14, TypedThen DEF TransferWritten, Then
  <2> QED
    BY <1>14, <2>1 DEF TypeOK, TransferWritten, listener, buffers, peers, OpsType
<1>15. CASE ServerError(id)
  BY <1>15, StopType DEF ServerError
<1>16. CASE ClientError(id)
  BY <1>16, StopType DEF ClientError
<1> QED
  BY <1>1, <1>5, <1>6, <1>7, <1>8, <1>9, <1>10, <1>11, <1>12, <1>13,
     <1>14, <1>15, <1>16 DEF Dispatch

LEMMA AcceptType ==
    ASSUME TypeOK, Accept("auth_request") \/ AcceptError \/ Signal
    PROVE  TypeOK'
<1>1. StreamsTyped' /\ (state' = state \/ state' = [state EXCEPT ![stream_id] = "auth_request"])
  BY AcceptTyped, Typed
<1>2. state' \in [Ids -> Sessions \union {"absent", "erased"}]
  BY <1>1, Typed DEF Sessions
<1> QED
  BY <1>1, <1>2 DEF TypeOK, StreamsTyped, OpsType

LEMMA NextType == TypeOK /\ [Next]_vars => TypeOK'
<1> SUFFICES ASSUME TypeOK, [Next]_vars PROVE TypeOK'
  OBVIOUS
<1>1. CASE UNCHANGED vars
  BY <1>1 DEF TypeOK, vars
<1> QED
  BY <1>1, KernelType, DispatchType, AcceptType DEF Next

(* Every reachable state is well typed; in particular no operation is ever *)
(* retired that was not outstanding (its counts never fall below zero).    *)
THEOREM TypeCorrect == Spec => []TypeOK
BY InitType, NextType, PTL DEF Spec

----
(* The inductive invariant: what may be outstanding in each state.  It     *)
(* strengthens NeverIdle with the states that are not live: nothing before *)
(* the accept; after the erase at most what each direction had left, and   *)
(* the two closing operations.                                             *)
Shape(s, o) ==
    /\ s = "absent" => \A op \in Op : Out(o, op) = 0
    /\ s = "auth_request" =>
         /\ Out(o, "handshake") + Out(o, "read_server") = 1
         /\ \A op \in Op \ {"handshake", "read_server"} : Out(o, op) = 0
    /\ s = "connection_request" =>
         /\ Out(o, "read_server") + Out(o, "write_server") = 1
         /\ \A op \in Op \ {"read_server", "write_server"} : Out(o, op) = 0
    /\ s = "connection_established" =>
         /\ Out(o, "resolve") + Out(o, "connect") + Out(o, "write_server") = 1
         /\ \A op \in Op \ {"resolve", "connect", "write_server"} : Out(o, op) = 0
    /\ s = "ready_to_transfer_data" =>
         /\ Out(o, "write_server") = 1
         /\ \A op \in Op \ {"write_server"} : Out(o, op) = 0
    /\ s = "data_transfer_mode" => Pumping(o)
    /\ s = "erased" =>
         /\ Out(o, "read_server") + Out(o, "write_client") <= 1
         /\ Out(o, "read_client") + Out(o, "write_server") <= 1
         /\ Out(o, "shutdown") <= 1 /\ Out(o, "null_write") <= 1
         /\ \A op \in {"handshake", "resolve", "connect"} : Out(o, op) = 0

IInv ==
    /\ TypeOK
    /\ FreshId
    /\ \A id \in Ids : Shape(state[id], ops[id])

LEMMA InitShape == Init => IInv
<1> SUFFICES ASSUME Init PROVE IInv
  OBVIOUS
<1>1. TypeOK
  BY InitType
<1>2. \A op \in Op : Out(Idle, op) = 0
  BY DEF Idle, Out, Phase
<1>3. FreshId
  BY DEF Init, FreshId
<1>4. \A id \in Ids : Shape(state[id], ops[id])
  BY <1>2 DEF Init, Shape
<1> QED
  BY <1>1, <1>3, <1>4 DEF IInv

(* A step on one session that has something outstanding leaves the others  *)
(* and the unused ids alone.                                               *)
LEMMA OneSession ==
    ASSUME IInv, NEW id \in Ids, NEW op \in Op, NEW p \in Phase, ops[id][op][p] > 0,
           NEW x, NEW y,
           ops' = [ops EXCEPT ![id] = x], state' = [state EXCEPT ![id] = y],
           \A i \in Ids \ {id} : sock'[i] = sock[i],
           stream_id' = stream_id, Shape(y, x)
    PROVE  FreshId' /\ \A i \in Ids : Shape(state'[i], ops'[i])
<1>1. \A i \in Ids : Shape(state'[i], ops'[i])
  BY DEF IInv, TypeOK
<1>2. \A i \in Ids \ {id} : ops'[i] = ops[i] /\ state'[i] = state[i]
  BY DEF IInv, TypeOK
<1>3. FreshId'
  BY <1>2, StillFresh, Typed DEF IInv
<1> QED
  BY <1>1, <1>3

LEMMA SameShape ==
    ASSUME NEW s, NEW o, NEW x, \A op \in Op : Out(x, op) = Out(o, op), Shape(s, o)
    PROVE  Shape(s, x)
BY OpNames DEF Shape, Pumping

LEMMA KernelShape ==
    ASSUME IInv, NEW id \in Ids, Kernel(id)
    PROVE  FreshId' /\ \A i \in Ids : Shape(state'[i], ops'[i])
<1>1. PICK op \in Op, p \in {"ok", "error"} : Settles(id, op, p)
  BY KernelSettles, Typed DEF IInv
<1>2. ops[id] \in OpsType
  BY DEF IInv, TypeOK, OpsType
<1>3. Shape(state[id], Settle(ops[id], op, p))
  BY <1>1, <1>2, SettleOut, SameShape DEF IInv, Settles
<1>4. ops' = [ops EXCEPT ![id] = Settle(ops[id], op, p)] /\ state' = [state EXCEPT ![id] = state[id]]
  BY <1>1 DEF IInv, TypeOK, Settles
<1> QED
  BY <1>1, <1>3, <1>4, OneSession DEF Phase, Settles

(* Stopping a session in any handler but those of the states that own a    *)
(* resolve or a connect leaves the shape of an erased session.             *)
LEMMA StopShape ==
    ASSUME IInv, NEW id \in Ids, NEW op \in Op, NEW p \in {"ok", "error"},
           Live(id), Completed(id, op, p), Stop(id, op, p)
    PROVE  FreshId' /\ \A i \in Ids : Shape(state'[i], ops'[i])
<1> USE OpNames
<1> DEFINE o == ops[id]
           r == Retire(o, op, p)
           x == StopOps(r, sock[id])
<1>1. o \in OpsType /\ o[op][p] > 0
  BY DEF IInv, TypeOK, OpsType, Completed
<1>2. /\ r \in OpsType /\ Out(o, op) >= 1
      /\ \A c \in Op : Out(r, c) = IF c = op THEN Out(o, c) - 1 ELSE Out(o, c)
  BY <1>1, RetireOut
<1>3. \A c \in Op : Out(o, c) \in Nat
  BY <1>1, OutNat
<1>4. Shape(state[id], o) /\ state[id] \in Sessions
  BY DEF IInv, TypeOK, Live
<1>5. /\ Out(r, "read_server") + Out(r, "write_client") <= 1
      /\ Out(r, "read_client") + Out(r, "write_server") <= 1
      /\ \A c \in {"handshake", "resolve", "connect", "shutdown", "null_write"} : Out(r, c) = 0
  <2> HIDE DEF o, r
  <2>1. CASE state[id] = "auth_request"
    BY <2>1, <1>2, <1>3, <1>4 DEF Shape
  <2>2. CASE state[id] = "connection_request"
    BY <2>2, <1>2, <1>3, <1>4 DEF Shape
  <2>3. CASE state[id] = "connection_established"
    BY <2>3, <1>2, <1>3, <1>4 DEF Shape
  <2>4. CASE state[id] = "ready_to_transfer_data"
    BY <2>4, <1>2, <1>3, <1>4 DEF Shape
  <2>5. CASE state[id] = "data_transfer_mode"
    BY <2>5, <1>2, <1>3, <1>4 DEF Shape, Pumping
  <2> QED
    BY <1>4, <2>1, <2>2, <2>3, <2>4, <2>5 DEF Sessions
<1>6. /\ x \in OpsType
      /\ \A c \in Op \ {"shutdown", "null_write"} : Out(x, c) = Out(r, c)
      /\ \A c \in {"shutdown", "null_write"} : Out(x, c) <= Out(r, c) + 1
  BY <1>2, StopOut
<1>7. \A c \in Op : Out(x, c) \in Nat /\ Out(r, c) \in Nat
  BY <1>2, <1>6, OutNat
<1>8. Shape("erased", x)
  <2> HIDE DEF x, r
  <2> QED
    BY <1>5, <1>6, <1>7 DEF Shape
<1>9. /\ ops' = [ops EXCEPT ![id] = x]
      /\ state' = [state EXCEPT ![id] = "erased"]
      /\ \A i \in Ids \ {id} : sock'[i] = sock[i]
      /\ stream_id' = stream_id
  BY DEF Stop, IInv, TypeOK, listener
<1> HIDE DEF x
<1> QED
  BY <1>1, <1>8, <1>9, OneSession DEF Phase, o

LEMMA DispatchShape ==
    ASSUME IInv, NEW id \in Ids, Dispatch(id)
    PROVE  FreshId' /\ \A i \in Ids : Shape(state'[i], ops'[i])
<1> USE OpNames
<1> DEFINE o == ops[id]
<1>1. CASE AuthRequestRead(id)
  <2> DEFINE x == Issue(Retire(o, "read_server", "ok"), "write_server")
  <2>1. o \in OpsType /\ o["read_server"]["ok"] > 0 /\ Shape("auth_request", o)
    BY <1>1 DEF IInv, TypeOK, OpsType, Completed, AuthRequestRead
  <2>2. /\ Out(o, "read_server") >= 1 /\ \A c \in Op : Out(o, c) \in Nat
        /\ \A c \in Op : Out(x, c) =
             Out(o, c) + (IF c = "write_server" THEN 1 ELSE 0) - (IF c = "read_server" THEN 1 ELSE 0)
    BY <2>1, ThenOut
  <2>3. /\ ops' = [ops EXCEPT ![id] = x] /\ state' = [state EXCEPT ![id] = "connection_request"]
        /\ sock' = sock /\ stream_id' = stream_id
    BY <1>1 DEF AuthRequestRead, Then, IInv, TypeOK, listener
  <2> HIDE DEF x, o
  <2>4. Shape("connection_request", x)
    BY <2>1, <2>2 DEF Shape
  <2> QED
    BY <2>1, <2>3, <2>4, OneSession DEF Phase, o
<1>2. CASE AuthReplyWritten(id)
  <2> DEFINE x == Issue(Retire(o, "write_server", "ok"), "read_server")
  <2>1. o \in OpsType /\ o["write_server"]["ok"] > 0 /\ Shape("connection_request", o)
    BY <1>2 DEF IInv, TypeOK, OpsType, Completed, AuthReplyWritten
  <2>2. /\ Out(o, "write_server") >= 1 /\ \A c \in Op : Out(o, c) \in Nat
        /\ \A c \in Op : Out(x, c) =
             Out(o, c) + (IF c = "read_server" THEN 1 ELSE 0) - (IF c = "write_server" THEN 1 ELSE 0)
    BY <2>1, ThenOut
  <2>3. /\ ops' = [ops EXCEPT ![id] = x] /\ state' = [state EXCEPT ![id] = "connection_request"]
        /\ sock' = sock /\ stream_id' = stream_id
    BY <1>2 DEF AuthReplyWritten, Then, IInv, TypeOK, listener
  <2> HIDE DEF x, o
  <2>4. Shape("connection_request", x)
    BY <2>1, <2>2 DEF Shape
  <2> QED
    BY <2>1, <2>3, <2>4, OneSession DEF Phase, o
<1>3. CASE RequestAccepted(id)
  <2> DEFINE x == Issue(Retire(o, "read_server", "ok"), "resolve")
  <2>1. o \in OpsType /\ o["read_server"]["ok"] > 0 /\ Shape("connection_request", o)
    BY <1>3 DEF IInv, TypeOK, OpsType, Completed, RequestAccepted
  <2>2. /\ Out(o, "read_server") >= 1 /\ \A c \in Op : Out(o, c) \in Nat
        /\ \A c \in Op : Out(x, c) =
             Out(o, c) + (IF c = "resolve" THEN 1 ELSE 0) - (IF c = "read_server" THEN 1 ELSE 0)
    BY <2>1, ThenOut
  <2>3. /\ ops' = [ops EXCEPT ![id] = x] /\ state' = [state EXCEPT ![id] = "connection_established"]
        /\ sock' = sock /\ stream_id' = stream_id
    BY <1>3 DEF RequestAccepted, Then, IInv, TypeOK, listener
  <2> HIDE DEF x, o
  <2>4. Out(o, "read_server") = 1 /\ \A c \in Op \ {"read_server"} : Out(o, c) = 0
    BY <2>1, <2>2 DEF Shape
  <2>5. Out(x, "resolve") = 1 /\ \A c \in Op \ {"resolve"} : Out(x, c) = 0
    <3>1. Out(x, "resolve") = Out(o, "resolve") + 1 - 0
      BY <2>2
    <3>2. Out(x, "read_server") = Out(o, "read_server") + 0 - 1
      BY <2>2
    <3>3. \A c \in Op \ {"resolve", "read_server"} : Out(x, c) = Out(o, c) + 0 - 0
      BY <2>2
    <3> QED
      BY <2>4, <3>1, <3>2, <3>3
  <2>6. Shape("connection_established", x)
    BY <2>5 DEF Shape
  <2> QED
    BY <2>1, <2>3, <2>6, OneSession DEF Phase, o
<1>4. CASE Connected(id)
  <2> DEFINE x == Issue(Retire(o, "connect", "ok"), "write_server")
  <2>1. o \in OpsType /\ o["connect"]["ok"] > 0 /\ Shape("connection_established", o)
    BY <1>4 DEF IInv, TypeOK, OpsType, Completed, Connected
  <2>2. /\ Out(o, "connect") >= 1 /\ \A c \in Op : Out(o, c) \in Nat
        /\ \A c \in Op : Out(x, c) =
             Out(o, c) + (IF c = "write_server" THEN 1 ELSE 0) - (IF c = "connect" THEN 1 ELSE 0)
    BY <2>1, ThenOut
  <2>3. /\ ops' = [ops EXCEPT ![id] = x] /\ state' = [state EXCEPT ![id] = "ready_to_transfer_data"]
        /\ sock' = sock /\ stream_id' = stream_id
    BY <1>4 DEF Connected, Then, IInv, TypeOK, listener
  <2> HIDE DEF x, o
  <2>4. Shape("ready_to_transfer_data", x)
    BY <2>1, <2>2 DEF Shape
  <2> QED
    BY <2>1, <2>3, <2>4, OneSession DEF Phase, o
<1>5. CASE Handshaken(id)
  <2> DEFINE x == Issue(Retire(o, "handshake", "ok"), "read_server")
  <2>1. o \in OpsType /\ o["handshake"]["ok"] > 0 /\ Shape(state[id], o)
    BY <1>5 DEF IInv, TypeOK, OpsType, Completed, Handshaken
  <2>2. /\ Out(o, "handshake") >= 1 /\ \A c \in Op : Out(o, c) \in Nat
        /\ \A c \in Op : Out(x, c) =
             Out(o, c) + (IF c = "read_server" THEN 1 ELSE 0) - (IF c = "handshake" THEN 1 ELSE 0)
    BY <2>1, ThenOut
  <2>3. state[id] \in Sessions \union {"absent", "erased"}
    BY DEF IInv, TypeOK
  <2>4. /\ ops' = [ops EXCEPT ![id] = x] /\ state' = [state EXCEPT ![id] = state[id]]
        /\ sock' = sock /\ stream_id' = stream_id
    BY <1>5 DEF Handshaken, Then, IInv, TypeOK, listener
  <2> HIDE DEF x, o
  <2>5. state[id] = "auth_request"
    BY <2>1, <2>2, <2>3 DEF Shape, Pumping, Sessions
  <2>6. Shape("auth_request", x)
    BY <2>1, <2>2, <2>5 DEF Shape
  <2> QED
    BY <2>1, <2>4, <2>5, <2>6, OneSession DEF Phase, o
<1>6. CASE Resolved(id)
  <2> DEFINE x == Issue(Retire(o, "resolve", "ok"), "connect")
  <2>1. o \in OpsType /\ o["resolve"]["ok"] > 0 /\ Shape(state[id], o)
    BY <1>6 DEF IInv, TypeOK, OpsType, Completed, Resolved
  <2>2. /\ Out(o, "resolve") >= 1 /\ \A c \in Op : Out(o, c) \in Nat
        /\ \A c \in Op : Out(x, c) =
             Out(o, c) + (IF c = "connect" THEN 1 ELSE 0) - (IF c = "resolve" THEN 1 ELSE 0)
    BY <2>1, ThenOut
  <2>3. state[id] \in Sessions \union {"absent", "erased"}
    BY DEF IInv, TypeOK
  <2>4. /\ ops' = [ops EXCEPT ![id] = x] /\ state' = [state EXCEPT ![id] = state[id]]
        /\ sock' = sock /\ stream_id' = stream_id
    BY <1>6 DEF Resolved, Then, IInv, TypeOK, listener
  <2> HIDE DEF x, o
  <2>5. state[id] = "connection_established"
    BY <2>1, <2>2, <2>3 DEF Shape, Pumping, Sessions
  <2>6. Shape("connection_established", x)
    BY <2>1, <2>2, <2>5 DEF Shape
  <2> QED
    BY <2>1, <2>4, <2>5, <2>6, OneSession DEF Phase, o
<1>7. CASE TlsClosed(id)
  <2>1. PICK op \in {"shutdown", "null_write"}, p \in {"ok", "error"} :
          /\ Completed(id, op, p)
          /\ ops' = [ops EXCEPT ![id] = Retire(@, op, p)]
    BY <1>7 DEF TlsClosed
  <2> DEFINE x == Retire(o, op, p)
  <2>2. o \in OpsType /\ o[op][p] > 0 /\ Shape(state[id], o)
    BY <2>1 DEF IInv, TypeOK, OpsType, Completed
  <2>3. /\ Out(o, op) >= 1 /\ \A c \in Op : Out(o, c) \in Nat
        /\ \A c \in Op : Out(x, c) = IF c = op THEN Out(o, c) - 1 ELSE Out(o, c)
    BY <2>2, RetireOut, OutNat
  <2>4. /\ ops' = [ops EXCEPT ![id] = x] /\ state' = [state EXCEPT ![id] = state[id]]
        /\ \A i \in Ids \ {id} : sock'[i] = sock[i]
        /\ stream_id' = stream_id
    BY <1>7, <2>1 DEF TlsClosed, IInv, TypeOK, listener
  <2>5. state[id] \in Sessions \union {"absent", "erased"}
    BY DEF IInv, TypeOK
  <2> HIDE DEF x, o
  <2>6. state[id] = "erased"
    BY <2>2, <2>3, <2>5 DEF Shape, Pumping, Sessions
  <2>7. Shape("erased", x)
    BY <2>2, <2>3, <2>6 DEF Shape
  <2> QED
    BY <2>2, <2>4, <2>6, <2>7, OneSession DEF Phase, o
<1>8. CASE Dropped(id, Handles(state[id]))
  <2>1. PICK op \in Op \ {"shutdown", "null_write"}, p \in {"ok", "error"} :
          /\ p = "ok" => op \notin Handles(state[id]) \union {"handshake", "resolve"}
          /\ p = "error" => ~Live(id)
          /\ Completed(id, op, p)
          /\ ops' = [ops EXCEPT ![id] = Retire(@, op, p)]
    BY <1>8 DEF Dropped
  <2> DEFINE x == Retire(o, op, p)
  <2>2. o \in OpsType /\ o[op][p] > 0 /\ Shape(state[id], o)
    BY <2>1 DEF IInv, TypeOK, OpsType, Completed
  <2>3. /\ Out(o, op) >= 1 /\ \A c \in Op : Out(o, c) \in Nat
        /\ \A c \in Op : Out(x, c) = IF c = op THEN Out(o, c) - 1 ELSE Out(o, c)
    BY <2>2, RetireOut, OutNat
  <2>4. state[id] \in Sessions \union {"absent", "erased"}
    BY DEF IInv, TypeOK
  <2>5. /\ ops' = [ops EXCEPT ![id] = x] /\ state' = [state EXCEPT ![id] = state[id]]
        /\ sock' = sock /\ stream_id' = stream_id
    BY <1>8, <2>1 DEF Dropped, IInv, TypeOK, listener
  <2> HIDE DEF x, o
  <2>6. state[id] = "erased"
    <3>1. CASE p = "error"
      BY <3>1, <2>1, <2>2, <2>3, <2>4 DEF Shape, Live
    <3>2. CASE p = "ok"
      <4>1. state[id] # "absent"
        BY <2>2, <2>3 DEF Shape
      <4>2. op \notin Handles(state[id]) \union {"handshake", "resolve", "shutdown", "null_write"}
        BY <3>2, <2>1
      <4>3. op \in Op
        BY <2>1
      <4>4. CASE state[id] = "auth_request"
        BY <4>2, <4>3, <4>4, <2>2, <2>3 DEF Shape, Handles
      <4>5. CASE state[id] = "connection_request"
        BY <4>2, <4>3, <4>5, <2>2, <2>3 DEF Shape, Handles
      <4>6. CASE state[id] = "connection_established"
        BY <4>2, <4>3, <4>6, <2>2, <2>3 DEF Shape, Handles
      <4>7. CASE state[id] = "ready_to_transfer_data"
        BY <4>2, <4>3, <4>7, <2>2, <2>3 DEF Shape, Handles
      <4>8. CASE state[id] = "data_transfer_mode"
        BY <4>2, <4>3, <4>8, <2>2, <2>3 DEF Shape, Pumping, Handles, Op, ServerOp, ClientOp
      <4> QED
        BY <4>1, <4>4, <4>5, <4>6, <4>7, <4>8, <2>4 DEF Sessions
    <3> QED
      BY <3>1, <3>2
  <2>7. Shape("erased", x)
    BY <2>2, <2>3, <2>6 DEF Shape
  <2> QED
    BY <2>1, <2>2, <2>5, <2>6, <2>7, OneSession DEF Phase, o
<1>9. CASE ConnectFailed(id)
  <2>1. PICK op \in ClientOp :
          /\ Completed(id, op, "error")
          /\ ops' = [ops EXCEPT ![id] = Issue(Retire(@, op, "error"), "write_server")]
    BY <1>9 DEF ConnectFailed
  <2> DEFINE x == Issue(Retire(o, op, "error"), "write_server")
  <2>2. o \in OpsType /\ o[op]["error"] > 0 /\ Shape("connection_established", o)
    BY <1>9, <2>1 DEF IInv, TypeOK, OpsType, Completed, ConnectFailed
  <2>3. /\ Out(o, op) >= 1 /\ \A c \in Op : Out(o, c) \in Nat
        /\ \A c \in Op : Out(x, c) =
             Out(o, c) + (IF c = "write_server" THEN 1 ELSE 0) - (IF c = op THEN 1 ELSE 0)
    BY <2>2, ThenOut
  <2>4. /\ ops' = [ops EXCEPT ![id] = x]
        /\ state' = [state EXCEPT ![id] = "connection_established"]
        /\ sock' = sock /\ stream_id' = stream_id
    BY <1>9, <2>1 DEF ConnectFailed, IInv, TypeOK, listener
  <2> HIDE DEF x, o
  <2>5. op \in {"resolve", "connect"}
    BY <2>2, <2>3 DEF Shape, ClientOp
  <2>6. Shape("connection_established", x)
    BY <2>2, <2>3, <2>5 DEF Shape
  <2> QED
    BY <2>2, <2>4, <2>6, OneSession DEF Phase, o
<1>10. CASE ReplyWritten(id)
  <2> DEFINE r == Retire(o, "write_server", "ok")
             y == Issue(r, "read_server")
             x == Issue(y, "read_client")
  <2>1. /\ o \in OpsType /\ o["write_server"]["ok"] > 0
        /\ Shape("ready_to_transfer_data", o)
    BY <1>10 DEF IInv, TypeOK, OpsType, Completed, ReplyWritten
  <2>2. y \in OpsType /\ \A c \in Op : Out(y, c) =
          Out(o, c) + (IF c = "read_server" THEN 1 ELSE 0) - (IF c = "write_server" THEN 1 ELSE 0)
    BY <2>1, ThenOut
  <2>3. \A c \in Op : Out(x, c) = IF c = "read_client" THEN Out(y, c) + 1 ELSE Out(y, c)
    BY <2>2, IssueOut
  <2>4. Shape("data_transfer_mode", x)
    <3> HIDE DEF x, y, o
    <3> QED
      BY <2>1, <2>2, <2>3 DEF Shape, Pumping
  <2>5. /\ ops' = [ops EXCEPT ![id] = x]
        /\ state' = [state EXCEPT ![id] = "data_transfer_mode"]
        /\ sock' = sock /\ stream_id' = stream_id
    BY <1>10 DEF ReplyWritten, listener
  <2> HIDE DEF x
  <2> QED
    BY <2>1, <2>4, <2>5, OneSession DEF Phase
<1>11. ASSUME NEW side \in Side, TransferRead(id, side)
       PROVE  FreshId' /\ \A i \in Ids : Shape(state'[i], ops'[i])
  <2> DEFINE a == ReadOp(side)
             b == WriteOp(Other(side))
             x == Issue(Retire(o, a, "ok"), b)
  <2>1. o \in OpsType /\ o[a]["ok"] > 0 /\ Shape("data_transfer_mode", o)
    BY <1>11 DEF IInv, TypeOK, OpsType, Completed, TransferRead
  <2>2. \/ a = "read_server" /\ b = "write_client"
        \/ a = "read_client" /\ b = "write_server"
    BY DEF Side, ReadOp, WriteOp, Other
  <2>3. /\ ops' = [ops EXCEPT ![id] = x]
        /\ state' = [state EXCEPT ![id] = "data_transfer_mode"]
        /\ sock' = sock /\ stream_id' = stream_id
    BY <1>11 DEF TransferRead, Then, IInv, TypeOK, listener
  <2> HIDE DEF a, b, o
  <2>4. /\ Out(o, a) >= 1 /\ \A c \in Op : Out(o, c) \in Nat
        /\ \A c \in Op : Out(x, c) =
             Out(o, c) + (IF c = b THEN 1 ELSE 0) - (IF c = a THEN 1 ELSE 0)
    BY <2>1, <2>2, ThenOut
  <2> HIDE DEF x
  <2>5. Shape("data_transfer_mode", x)
    BY <2>1, <2>2, <2>4 DEF Shape, Pumping
  <2> QED
    BY <2>1, <2>2, <2>3, <2>5, OneSession DEF Phase, o
<1>12. ASSUME NEW side \in Side, TransferWritten(id, side)
       PROVE  FreshId' /\ \A i \in Ids : Shape(state'[i], ops'[i])
  <2> DEFINE a == WriteOp(side)
             b == ReadOp(Other(side))
             x == Issue(Retire(o, a, "ok"), b)
  <2>1. o \in OpsType /\ o[a]["ok"] > 0 /\ Shape("data_transfer_mode", o)
    BY <1>12 DEF IInv, TypeOK, OpsType, Completed, TransferWritten
  <2>2. \/ a = "write_server" /\ b = "read_client"
        \/ a = "write_client" /\ b = "read_server"
    BY DEF Side, ReadOp, WriteOp, Other
  <2>3. /\ ops' = [ops EXCEPT ![id] = x]
        /\ state' = [state EXCEPT ![id] = "data_transfer_mode"]
        /\ sock' = sock /\ stream_id' = stream_id
    BY <1>12 DEF TransferWritten, Then, IInv, TypeOK, listener
  <2> HIDE DEF a, b, o
  <2>4. /\ Out(o, a) >= 1 /\ \A c \in Op : Out(o, c) \in Nat
        /\ \A c \in Op : Out(x, c) =
             Out(o, c) + (IF c = b THEN 1 ELSE 0) - (IF c = a THEN 1 ELSE 0)
    BY <2>1, <2>2, ThenOut
  <2> HIDE DEF x
  <2>5. Shape("data_transfer_mode", x)
    BY <2>1, <2>2, <2>4 DEF Shape, Pumping
  <2> QED
    BY <2>1, <2>2, <2>3, <2>5, OneSession DEF Phase, o
<1>13. CASE RequestRejected(id)
  BY <1>13, StopShape DEF RequestRejected, Live
<1>14. CASE ErrorReplyWritten(id)
  BY <1>14, StopShape DEF ErrorReplyWritten, Live
<1>15. CASE ServerError(id)
  BY <1>15, StopShape DEF ServerError
<1>16. CASE ClientError(id)
  BY <1>16, StopShape DEF ClientError
<1> QED
  BY <1>1, <1>2, <1>3, <1>4, <1>5, <1>6, <1>7, <1>8, <1>9, <1>10, <1>11, <1>12, <1>13,
     <1>14, <1>15, <1>16 DEF Dispatch

LEMMA AcceptShape ==
    ASSUME IInv, Accept("auth_request") \/ AcceptError \/ Signal
    PROVE  FreshId' /\ \A i \in Ids : Shape(state'[i], ops'[i])
<1> USE OpNames
<1>0. FreshId'
  BY AcceptFresh, Typed DEF IInv
<1>1. CASE Accept("auth_request")
  <2> DEFINE first == IF Tls THEN "handshake" ELSE "read_server"
             x == Issue(ops[stream_id], first)
  <2>1. stream_id \in Ids /\ ops[stream_id] \in OpsType /\ Shape("absent", ops[stream_id])
    BY <1>1 DEF Accept, IInv, TypeOK, OpsType, FreshId
  <2>2. \A c \in Op : Out(x, c) =
          IF c = first THEN Out(ops[stream_id], c) + 1 ELSE Out(ops[stream_id], c)
    <3>1. first \in Op
      OBVIOUS
    <3> HIDE DEF first
    <3> QED
      BY <2>1, <3>1, IssueOut
  <2>3. Shape("auth_request", x)
    <3>1. \A c \in Op : Out(ops[stream_id], c) = 0
      BY <2>1 DEF Shape
    <3>2. first \in {"handshake", "read_server"}
      OBVIOUS
    <3> HIDE DEF x, first
    <3> QED
      BY <2>2, <3>1, <3>2 DEF Shape
  <2>4. /\ ops' = [ops EXCEPT ![stream_id] = x]
        /\ state' = [state EXCEPT ![stream_id] = "auth_request"]
        /\ \A i \in Ids \ {stream_id} : sock'[i] = sock[i]
        /\ stream_id' = stream_id + 1
    BY <1>1 DEF Accept, IInv, TypeOK
  <2> HIDE DEF x
  <2>5. \A i \in Ids : Shape(state'[i], ops'[i])
    BY <2>3, <2>4 DEF IInv, TypeOK
  <2> QED
    BY <1>0, <2>5
<1>2. CASE AcceptError
  BY <1>2 DEF AcceptError, IInv, TypeOK, FreshId, Ids
<1>3. CASE Signal
  BY <1>3 DEF Signal, IInv, FreshId
<1> QED
  BY <1>1, <1>2, <1>3

LEMMA NextShape == IInv /\ [Next]_vars => IInv'
<1> SUFFICES ASSUME IInv, [Next]_vars PROVE IInv'
  OBVIOUS
<1>1. TypeOK'
  BY NextType DEF IInv
<1>2. CASE UNCHANGED vars
  BY <1>2, <1>1 DEF IInv, FreshId, vars
<1> QED
  BY <1>1, <1>2, KernelShape, DispatchShape, AcceptShape DEF Next, IInv

LEMMA ShapeAlways == Spec => []IInv
BY InitShape, NextShape, PTL DEF Spec

----
LEMMA ShapeFacts ==
    ASSUME IInv, NEW id \in Ids
    PROVE  /\ Shape(state[id], ops[id])
           /\ state[id] \in Sessions \union {"absent", "erased"}
           /\ \A op \in Op : Out(ops[id], op) \in Nat
BY OutNat DEF IInv, TypeOK, OpsType

LEMMA ShapeNoOverlap == IInv => NoOverlap
<1> SUFFICES ASSUME IInv, NEW id \in Ids, NEW side \in Side
             PROVE  /\ Out(ops[id], ReadOp(side)) <= 1
                    /\ Out(ops[id], WriteOp(side)) <= 1
  BY DEF NoOverlap
<1> DEFINE o == ops[id]
           s == state[id]
<1>1. Shape(s, o) /\ s \in Sessions \union {"absent", "erased"} /\ \A op \in Op : Out(o, op) \in Nat
  BY ShapeFacts
<1> HIDE DEF o, s
<1>2. \A op \in {"read_server", "write_server", "read_client", "write_client"} : Out(o, op) <= 1
  <2>1. CASE s \in {"absent", "auth_request", "connection_request"}
    BY <1>1, <2>1, OpNames DEF Shape
  <2>2. CASE s \in {"connection_established", "ready_to_transfer_data"}
    BY <1>1, <2>2, OpNames DEF Shape
  <2>3. CASE s \in {"data_transfer_mode", "erased"}
    BY <1>1, <2>3, OpNames DEF Shape, Pumping
  <2> QED
    BY <1>1, <2>1, <2>2, <2>3 DEF Sessions
<1> QED
  BY <1>2 DEF o, ReadOp, WriteOp, Side

LEMMA ShapeNeverIdle == IInv => NeverIdle
<1> SUFFICES ASSUME IInv, NEW id \in Ids, Live(id)
             PROVE  IF state[id] = "data_transfer_mode" THEN Pumping(ops[id])
                    ELSE Only(ops[id], Awaits(state[id]))
  BY DEF NeverIdle
<1> DEFINE o == ops[id]
           s == state[id]
<1>1. Shape(s, o) /\ s \in Sessions /\ \A op \in Op : Out(o, op) \in Nat
  BY ShapeFacts DEF Live
<1> HIDE DEF o, s
<1>2. CASE s = "data_transfer_mode"
  BY <1>1, <1>2 DEF Shape, o, s
<1>3. CASE s = "auth_request"
  BY <1>1, <1>3, OpNames DEF Shape, Only, Awaits, o, s
<1>4. CASE s = "connection_request"
  BY <1>1, <1>4, OpNames DEF Shape, Only, Awaits, o, s
<1>5. CASE s = "connection_established"
  BY <1>1, <1>5, OpNames DEF Shape, Only, Awaits, o, s
<1>6. CASE s = "ready_to_transfer_data"
  BY <1>1, <1>6, OpNames DEF Shape, Only, Awaits, o, s
<1> QED
  BY <1>1, <1>2, <1>3, <1>4, <1>5, <1>6 DEF Sessions

LEMMA ShapeClosing == IInv => CloseOnlyErased /\ ConnectOnlyLive
<1> SUFFICES ASSUME IInv, NEW id \in Ids
             PROVE  /\ \A op \in {"shutdown", "null_write"} :
                         Out(ops[id], op) > 0 => state[id] = "erased"
                    /\ \A op \in {"resolve", "connect"} : Out(ops[id], op) > 0 => Live(id)
  BY DEF CloseOnlyErased, ConnectOnlyLive
<1> DEFINE o == ops[id]
           s == state[id]
<1>1. Shape(s, o) /\ s \in Sessions \union {"absent", "erased"} /\ \A op \in Op : Out(o, op) \in Nat
  BY ShapeFacts
<1> HIDE DEF o, s
<1>2. \A op \in {"shutdown", "null_write"} : Out(o, op) > 0 => s = "erased"
  BY <1>1, OpNames DEF Shape, Pumping, Sessions
<1>3. \A op \in {"resolve", "connect"} : Out(o, op) > 0 => s \notin {"absent", "erased"}
  BY <1>1, OpNames DEF Shape
<1> QED
  BY <1>2, <1>3 DEF o, s, Live

(* Each stream has at most one read and one write outstanding at any time, *)
(* also while its session closes: the single buffers are never overwritten.*)
THEOREM BuffersNeverShared == Spec => []NoOverlap
BY ShapeAlways, ShapeNoOverlap, PTL

(* A live session always waits for exactly the operations its state        *)
(* handles: it cannot be forgotten in the table with nothing to wake it.   *)
THEOREM SessionsNeverIdle == Spec => []NeverIdle
BY ShapeAlways, ShapeNeverIdle, PTL

(* The TLS closing handshake never runs under a live session: its handlers *)
(* would report to that session and close its socket.                      *)
THEOREM ClosingIsSafe == Spec => []CloseOnlyErased
BY ShapeAlways, ShapeClosing, PTL

(* No session is stopped while it resolves or connects, which do_stop of   *)
(* the client stream cannot cancel: no connection is opened for nobody.    *)
THEOREM ConnectsOnlyLive == Spec => []ConnectOnlyLive
BY ShapeAlways, ShapeClosing, PTL

(* The accept loop never gives a new stream an id that a session or a      *)
(* queued completion still carries.                                        *)
THEOREM IdsAreFresh == Spec => []FreshId
<1>1. IInv => FreshId
  BY DEF IInv
<1> QED
  BY <1>1, ShapeAlways, PTL

----
(* What QuietAfterErase says of one session in one step.                   *)
QuietStep(id) ==
    state[id] = "erased" =>
        /\ state'[id] = "erased"
        /\ \A op \in Op : Out(ops'[id], op) <= Out(ops[id], op)

LEMMA QuietNext ==
    ASSUME IInv, [Next]_vars, NEW id \in Ids
    PROVE  QuietStep(id)
<1> USE OpNames
<1> SUFFICES ASSUME state[id] = "erased"
             PROVE  /\ state'[id] = "erased"
                    /\ \A op \in Op : Out(ops'[id], op) <= Out(ops[id], op)
  BY DEF QuietStep
<1>1. /\ ops[id] \in OpsType /\ \A op \in Op : Out(ops[id], op) \in Nat
      /\ \A op \in {"handshake", "resolve", "connect"} : Out(ops[id], op) = 0
  BY ShapeFacts DEF Shape, IInv, TypeOK, OpsType
<1>2. CASE state'[id] = state[id] /\ ops'[id] = ops[id]
  BY <1>1, <1>2
<1>3. CASE Kernel(id)
  <2>1. PICK op \in Op, p \in {"ok", "error"} : Settles(id, op, p)
    BY <1>3, KernelSettles, Typed DEF IInv
  <2>2. ops'[id] = Settle(ops[id], op, p) /\ state' = state /\ ops[id][op]["pending"] > 0
    BY <2>1 DEF IInv, TypeOK, Settles
  <2>3. \A b \in Op : Out(ops'[id], b) = Out(ops[id], b)
    BY <1>1, <2>2, SettleOut
  <2> QED
    BY <1>1, <2>2, <2>3
<1>4. CASE TlsClosed(id) \/ Dropped(id, Handles(state[id]))
  <2>1. PICK op \in Op, p \in {"ok", "error"} :
          /\ ops[id][op][p] > 0
          /\ ops' = [ops EXCEPT ![id] = Retire(@, op, p)]
          /\ state' = state
    BY <1>4 DEF TlsClosed, Dropped, Completed
  <2>2. ops'[id] = Retire(ops[id], op, p)
    BY <2>1 DEF IInv, TypeOK
  <2> QED
    BY <1>1, <2>1, <2>2, RetireOut
<1>5. CASE Handshaken(id) \/ Resolved(id)
  <2>1. PICK op \in {"handshake", "resolve"} : ops[id][op]["ok"] > 0
    BY <1>5 DEF Handshaken, Resolved, Completed
  <2> QED
    BY <1>1, <2>1, RetireOut
<1>6. ASSUME Dispatch(id), ~(TlsClosed(id) \/ Dropped(id, Handles(state[id])) \/ Handshaken(id) \/ Resolved(id))
      PROVE  FALSE
  BY <1>6 DEF Dispatch, AuthRequestRead, AuthReplyWritten, RequestAccepted, RequestRejected, Connected,
     ConnectFailed, ErrorReplyWritten, ReplyWritten, TransferRead, TransferWritten, ServerError,
     ClientError, Live
<1>7. ASSUME NEW i \in Ids \ {id}, Kernel(i)
      PROVE  state'[id] = state[id] /\ ops'[id] = ops[id]
  <2>1. PICK op \in Op, p \in {"ok", "error"} : Settles(i, op, p)
    BY <1>7, KernelSettles, Typed DEF IInv
  <2> QED
    BY <2>1 DEF Settles, IInv, TypeOK
<1>8. ASSUME NEW i \in Ids \ {id}, Dispatch(i)
      PROVE  state'[id] = state[id] /\ ops'[id] = ops[id]
  <2> USE DEF IInv, TypeOK, Stop, Then
  <2>1. CASE Handshaken(i) \/ Resolved(i) \/ TlsClosed(i) \/ Dropped(i, Handles(state[i]))
    BY <2>1 DEF Handshaken, Resolved, TlsClosed, Dropped
  <2>2. CASE AuthRequestRead(i) \/ AuthReplyWritten(i) \/ RequestAccepted(i) \/ RequestRejected(i)
    BY <2>2 DEF AuthRequestRead, AuthReplyWritten, RequestAccepted, RequestRejected
  <2>3. CASE Connected(i) \/ ConnectFailed(i) \/ ErrorReplyWritten(i) \/ ReplyWritten(i)
    BY <2>3 DEF Connected, ConnectFailed, ErrorReplyWritten, ReplyWritten
  <2>4. CASE \E side \in Side : TransferRead(i, side) \/ TransferWritten(i, side)
    <3>1. PICK side \in Side : TransferRead(i, side) \/ TransferWritten(i, side)
      BY <2>4
    <3> QED
      BY <3>1 DEF TransferRead, TransferWritten
  <2>5. CASE ServerError(i) \/ ClientError(i)
    BY <2>5 DEF ServerError, ClientError
  <2> QED
    BY <1>8, <2>1, <2>2, <2>3, <2>4, <2>5 DEF Dispatch
<1>9. CASE Accept("auth_request") \/ AcceptError \/ Signal
  <2>1. id # stream_id
    <3>1. stream_id \in Int
      BY DEF IInv, TypeOK
    <3>2. id >= stream_id => state[id] = "absent"
      BY DEF IInv, FreshId
    <3> QED
      BY <3>1, <3>2
  <2>2. CASE Accept("auth_request")
    <3>1. state'[id] = state[id]
      BY <2>1, <2>2 DEF Accept, IInv, TypeOK
    <3>2. ops'[id] = ops[id]
      BY <2>1, <2>2 DEF Accept, IInv, TypeOK
    <3> QED
      BY <1>2, <3>1, <3>2
  <2>3. CASE AcceptError \/ Signal
    BY <1>2, <2>3 DEF AcceptError, Signal
  <2> QED
    BY <1>9, <2>2, <2>3
<1>10. CASE UNCHANGED vars
  BY <1>2, <1>10 DEF vars
<1> QED
  BY <1>2, <1>3, <1>4, <1>5, <1>6, <1>7, <1>8, <1>9, <1>10 DEF Next

(* After the erase a session is never revived under its id and what is     *)
(* still queued for its streams only drains.                               *)
THEOREM ErasedStaysQuiet == Spec => QuietAfterErase
<1>1. IInv /\ [Next]_vars =>
        [\A id \in Ids : state[id] = "erased" =>
           /\ state'[id] = "erased"
           /\ \A op \in Op : Out(ops'[id], op) <= Out(ops[id], op)]_vars
  BY QuietNext DEF QuietStep
<1> QED
  BY <1>1, ShapeAlways, PTL DEF Spec, QuietAfterErase

----
(* What a SOCKS5 session tells and relays: the order of the messages, the  *)
(* truth of the reply, what is left behind at an end of file and what the  *)
(* byte counters say.  It rests on Shape, which says what is outstanding,  *)
(* and on Order, which says what the buffers hold and how many messages    *)
(* are where.                                                              *)

(* Of one session: s is its state, o its operations, k its sockets, r and  *)
(* w its buffers, t and u what its peers handed in and were sent, c its    *)
(* counters.                                                               *)

(* A read buffer holds the last message read.                              *)
Recent(r, t) ==
    \A side \in Side : t[side] > 0 => r[side] = Chunk(side, t[side])

(* What was sent so far, as RemoteInOrder, LocalInOrder and ReplyTruthful  *)
(* say it of every session.                                                *)
SentRemote(u) ==
    \A i \in DOMAIN u["client"] : u["client"][i] = Chunk("server", i + 2)

SentLocal(u) ==
    \A i \in DOMAIN u["server"] :
        /\ i = 1 => u["server"][i].kind = "auth"
        /\ i = 2 => u["server"][i].kind = "reply"
        /\ i > 2 => /\ u["server"][i] = Chunk("client", i - 2)
                    /\ u["server"][2].n = Succeeded

Told(n, k, u) ==
    IF n = Succeeded THEN k["client"] # "none"
    ELSE k["client"] = "none" /\ u["client"] = <<>>

Truthful(k, u) == Len(u["server"]) >= 2 => Told(u["server"][2].n, k, u)

(* A write that is under way sends what its peer is due next.              *)
DueRemote(o, w, u) ==
    o["write_client"]["pending"] > 0 =>
        w["client"] = Chunk("server", Len(u["client"]) + 3)

DueLocal(o, k, w, u) ==
    o["write_server"]["pending"] > 0 =>
        /\ Len(u["server"]) = 0 => w["server"].kind = "auth"
        /\ Len(u["server"]) = 1 => w["server"].kind = "reply" /\ Told(w["server"].n, k, u)
        /\ Len(u["server"]) >= 2 => /\ w["server"] = Chunk("client", Len(u["server"]) - 1)
                                    /\ u["server"][2].n = Succeeded

(* How many messages were read, are held, were sent and counted.           *)
Nothing(k, t, u, c) ==
    /\ k["client"] = "none" /\ u["client"] = <<>> /\ t["client"] = 0
    /\ c["client"] = 0 /\ c["server"] = 0

Transferring(o, k, t, u, c) ==
    /\ k["client"] # "none" /\ Len(u["server"]) >= 2
    /\ t["server"] = 2 + Len(u["client"]) + o["read_server"]["ok"] + Unsent(o, "write_client")
    /\ t["client"] = Len(u["server"]) - 2 + o["read_client"]["ok"] + Unsent(o, "write_server")
    /\ c["client"] = t["server"] - 2 - o["read_server"]["ok"]
    /\ c["server"] = t["client"] - o["read_client"]["ok"]

Counted(s, o, k, t, u, c) ==
    /\ s = "absent" =>
         Nothing(k, t, u, c) /\ t["server"] = 0 /\ Len(u["server"]) = 0
    /\ s = "auth_request" =>
         /\ Nothing(k, t, u, c) /\ Len(u["server"]) = 0
         /\ t["server"] = o["read_server"]["ok"]
    /\ s = "connection_request" =>
         /\ Nothing(k, t, u, c) /\ Len(u["server"]) = 1 - Unsent(o, "write_server")
         /\ t["server"] = 1 + o["read_server"]["ok"]
    /\ s = "connection_established" =>
         /\ o["connect"]["ok"] = 0 => k["client"] = "none"
         /\ o["connect"]["ok"] > 0 => k["client"] # "none"
         /\ u["client"] = <<>> /\ t["client"] = 0 /\ t["server"] = 2
         /\ c["client"] = 0 /\ c["server"] = 0
         /\ Len(u["server"]) = 1 + o["write_server"]["ok"]
    /\ s = "ready_to_transfer_data" =>
         /\ k["client"] # "none"
         /\ u["client"] = <<>> /\ t["client"] = 0 /\ t["server"] = 2
         /\ c["client"] = 0 /\ c["server"] = 0
         /\ Len(u["server"]) = 2 - Unsent(o, "write_server")
    /\ s = "data_transfer_mode" => Transferring(o, k, t, u, c)

Order(s, o, k, r, w, t, u, c) ==
    /\ Recent(r, t)
    /\ SentRemote(u) /\ SentLocal(u) /\ Truthful(k, u)
    /\ DueRemote(o, w, u) /\ DueLocal(o, k, w, u)
    /\ Counted(s, o, k, t, u, c)

OrderOf(id) ==
    Order(state[id], ops[id], sock[id], rbuf[id], wbuf[id], taken[id], out[id], transferred[id])

OInv == IInv /\ \A id \in Ids : OrderOf(id)

----
(* A step on one session leaves what Order says of the others.             *)
OthersSame(id) ==
    \A i \in Ids \ {id} :
        /\ state'[i] = state[i] /\ ops'[i] = ops[i] /\ sock'[i] = sock[i]
        /\ rbuf'[i] = rbuf[i] /\ wbuf'[i] = wbuf[i]
        /\ taken'[i] = taken[i] /\ out'[i] = out[i] /\ transferred'[i] = transferred[i]

LEMMA OneOrder ==
    ASSUME OInv, NEW id \in Ids, OthersSame(id), OrderOf(id)'
    PROVE  \A i \in Ids : OrderOf(i)'
<1> SUFFICES ASSUME NEW i \in Ids, i # id PROVE OrderOf(i)'
  OBVIOUS
<1>1. OrderOf(i)
  BY DEF OInv
<1> QED
  BY <1>1 DEF OrderOf, OthersSame

LEMMA InitOrder == Init => OInv
<1> SUFFICES ASSUME Init PROVE OInv
  OBVIOUS
<1>1. IInv
  BY InitShape
<1>2. ASSUME NEW id \in Ids PROVE OrderOf(id)
  BY OpNames DEF Init, OrderOf, Order, Recent, SentRemote, SentLocal, Truthful, DueRemote,
     DueLocal, Counted, Nothing, Idle, Sessions, Phase, Side, Op, ServerOp, ClientOp
<1> QED
  BY <1>1, <1>2 DEF OInv

----
(* All that is known of a session before a step.                           *)
Known(s, o, k, r, w, t, u, c) ==
    /\ o \in OpsType /\ Shape(s, o) /\ s \in Sessions \union {"absent", "erased"}
    /\ Order(s, o, k, r, w, t, u, c)
    /\ Single(o, "read_server") /\ Single(o, "write_server")
    /\ Single(o, "read_client") /\ Single(o, "write_client")
    /\ Single(o, "connect") /\ Single(o, "resolve")
    /\ k \in [Side -> SockState] /\ r \in [Side -> Chunks] /\ w \in [Side -> Chunks]
    /\ t["server"] \in Nat /\ t["client"] \in Nat /\ DOMAIN t = Side
    /\ c["server"] \in Nat /\ c["client"] \in Nat /\ DOMAIN c = Side
    /\ u["server"] \in Seq(Chunks) /\ u["client"] \in Seq(Chunks) /\ DOMAIN u = Side
    /\ Len(u["server"]) \in Nat /\ Len(u["client"]) \in Nat

KnownOf(id) ==
    Known(state[id], ops[id], sock[id], rbuf[id], wbuf[id], taken[id], out[id], transferred[id])

LEMMA OneEach ==
    ASSUME NEW s \in Sessions \union {"absent", "erased"}, NEW o \in OpsType, Shape(s, o)
    PROVE  /\ Single(o, "read_server") /\ Single(o, "write_server")
           /\ Single(o, "read_client") /\ Single(o, "write_client")
           /\ Single(o, "connect") /\ Single(o, "resolve")
<1> USE Names
<1> DEFINE Some == {"read_server", "write_server", "read_client", "write_client",
                    "connect", "resolve"}
<1>1. \A op \in Op : Out(o, op) \in Nat
  BY OutNat
<1>2. \A op \in Some : Out(o, op) <= 1
  <2>1. CASE s \in {"absent", "auth_request", "connection_request"}
    BY <1>1, <2>1 DEF Shape
  <2>2. CASE s \in {"connection_established", "ready_to_transfer_data"}
    BY <1>1, <2>2 DEF Shape
  <2>3. CASE s \in {"data_transfer_mode", "erased"}
    BY <1>1, <2>3 DEF Shape, Pumping
  <2> QED
    BY <2>1, <2>2, <2>3 DEF Sessions
<1>3. \A op \in Some : Single(o, op)
  BY <1>2, PhaseNat DEF Single
<1> QED
  BY <1>3

LEMMA Facts ==
    ASSUME OInv, NEW id \in Ids
    PROVE  KnownOf(id)
<1>1. ops[id] \in OpsType /\ Shape(state[id], ops[id])
      /\ state[id] \in Sessions \union {"absent", "erased"}
  BY DEF OInv, IInv, TypeOK, OpsType
<1>2. out[id] \in [Side -> Seq(Chunks)]
  BY DEF OInv, IInv, TypeOK
<1>3. Len(out[id]["server"]) \in Nat /\ Len(out[id]["client"]) \in Nat
  BY <1>2, Names
<1>4. /\ sock[id] \in [Side -> SockState] /\ rbuf[id] \in [Side -> Chunks]
      /\ wbuf[id] \in [Side -> Chunks] /\ taken[id] \in [Side -> Nat]
      /\ transferred[id] \in [Side -> Nat]
  BY DEF OInv, IInv, TypeOK
<1>5. Order(state[id], ops[id], sock[id], rbuf[id], wbuf[id], taken[id], out[id], transferred[id])
  BY DEF OInv, OrderOf
<1> QED
  BY <1>1, <1>2, <1>3, <1>4, <1>5, OneEach, Names DEF KnownOf, Known

(* Operations that come to the same, for Order.                            *)
Alike(o, x) ==
    /\ x["read_server"]["ok"] = o["read_server"]["ok"]
    /\ x["read_client"]["ok"] = o["read_client"]["ok"]
    /\ x["write_server"]["ok"] = o["write_server"]["ok"]
    /\ x["connect"]["ok"] = o["connect"]["ok"]
    /\ Unsent(x, "write_server") = Unsent(o, "write_server")
    /\ Unsent(x, "write_client") = Unsent(o, "write_client")
    /\ x["write_server"]["pending"] > 0 => o["write_server"]["pending"] > 0
    /\ x["write_client"]["pending"] > 0 => o["write_client"]["pending"] > 0

LEMMA AlikeOrder ==
    ASSUME NEW s, NEW o, NEW k, NEW r, NEW w, NEW t, NEW u, NEW c, NEW x,
           Order(s, o, k, r, w, t, u, c), Alike(o, x)
    PROVE  Order(s, x, k, r, w, t, u, c)
BY DEF Order, Alike, DueRemote, DueLocal, Counted, Transferring

(* Once erased, a session may only finish the writes it had under way.     *)
LEMMA ErasedOrder ==
    ASSUME NEW s, NEW o, NEW k, NEW r, NEW w, NEW t, NEW u, NEW c, NEW x, NEW l,
           Order(s, o, k, r, w, t, u, c),
           (l["client"] = "none") <=> (k["client"] = "none"),
           x["write_server"]["pending"] > 0 => o["write_server"]["pending"] > 0,
           x["write_client"]["pending"] > 0 => o["write_client"]["pending"] > 0
    PROVE  Order("erased", x, l, r, w, t, u, c)
BY DEF Order, Truthful, Told, DueRemote, DueLocal, Counted, Transferring

LEMMA UnsentNat ==
    ASSUME NEW s, NEW o, NEW k, NEW r, NEW w, NEW t, NEW u, NEW c,
           Known(s, o, k, r, w, t, u, c)
    PROVE  Unsent(o, "write_server") \in Nat /\ Unsent(o, "write_client") \in Nat
<1>1. Single(o, "write_server") /\ Single(o, "write_client")
  BY DEF Known
<1>2. Unsent(o, "write_server") \in Nat
  BY <1>1 DEF Single, Unsent
<1>3. Unsent(o, "write_client") \in Nat
  BY <1>1 DEF Single, Unsent
<1> QED
  BY <1>2, <1>3

LEMMA KnownShape ==
    ASSUME NEW s, NEW o, NEW k, NEW r, NEW w, NEW t, NEW u, NEW c,
           Known(s, o, k, r, w, t, u, c)
    PROVE  /\ Out(o, "read_server") = 1 =>
                s \in {"auth_request", "connection_request", "data_transfer_mode", "erased"}
           /\ Out(o, "read_client") = 1 => s \in {"data_transfer_mode", "erased"}
           /\ Out(o, "write_client") = 1 => s \in {"data_transfer_mode", "erased"}
           /\ Out(o, "write_server") = 1 =>
                s \in {"connection_request", "connection_established",
                       "ready_to_transfer_data", "data_transfer_mode", "erased"}
<1>1. /\ s \in Sessions \union {"absent", "erased"} /\ Shape(s, o)
  BY DEF Known
<1>2. CASE s = "absent"
  BY <1>1, <1>2, Names DEF Shape
<1>3. CASE s = "auth_request"
  BY <1>1, <1>3, Names DEF Shape
<1>4. CASE s = "connection_request"
  BY <1>1, <1>4, Names DEF Shape
<1>5. CASE s = "connection_established"
  BY <1>1, <1>5, Names DEF Shape
<1>6. CASE s = "ready_to_transfer_data"
  BY <1>1, <1>6, Names DEF Shape
<1> QED
  BY <1>1, <1>2, <1>3, <1>4, <1>5, <1>6 DEF Sessions

LEMMA KnownCounted ==
    ASSUME NEW s, NEW o, NEW k, NEW r, NEW w, NEW t, NEW u, NEW c,
           Known(s, o, k, r, w, t, u, c)
    PROVE  /\ Counted(s, o, k, t, u, c)
           /\ t["server"] \in Nat /\ t["client"] \in Nat
           /\ c["server"] \in Nat /\ c["client"] \in Nat
           /\ Len(u["server"]) \in Nat /\ Len(u["client"]) \in Nat
           /\ o["read_server"]["ok"] \in Nat /\ o["read_client"]["ok"] \in Nat
<1>1. o["read_server"]["ok"] \in Nat
  BY DEF Known, Single
<1>2. o["read_client"]["ok"] \in Nat
  BY DEF Known, Single
<1> QED
  BY <1>1, <1>2 DEF Known, Order

(* What cannot be outstanding beside an operation, in each state.          *)
LEMMA Turns ==
    ASSUME NEW s, NEW o, NEW k, NEW r, NEW w, NEW t, NEW u, NEW c,
           Known(s, o, k, r, w, t, u, c)
    PROVE  /\ s = "auth_request" =>
                /\ Out(o, "write_server") = 0 /\ Out(o, "write_client") = 0
           /\ s = "connection_request" =>
                /\ Out(o, "read_server") = 1 => Out(o, "write_server") = 0
                /\ Out(o, "write_server") = 1 => Out(o, "read_server") = 0
                /\ Out(o, "write_client") = 0 /\ Out(o, "connect") = 0
           /\ s = "connection_established" =>
                /\ Out(o, "connect") = 1 => Out(o, "write_server") = 0
                /\ Out(o, "resolve") = 1 =>
                     Out(o, "write_server") = 0 /\ Out(o, "connect") = 0
                /\ Out(o, "write_client") = 0 /\ Out(o, "read_client") = 0
           /\ s = "ready_to_transfer_data" =>
                /\ Out(o, "read_server") = 0 /\ Out(o, "read_client") = 0
                /\ Out(o, "write_client") = 0
           /\ s = "data_transfer_mode" =>
                /\ Out(o, "read_server") = 1 => Out(o, "write_client") = 0
                /\ Out(o, "write_client") = 1 => Out(o, "read_server") = 0
                /\ Out(o, "read_client") = 1 => Out(o, "write_server") = 0
                /\ Out(o, "write_server") = 1 => Out(o, "read_client") = 0
<1>1. Shape(s, o)
  BY DEF Known
<1>2. \A op \in Op : Out(o, op) \in Nat
  BY OutNat DEF Known
<1>3. CASE s = "auth_request"
  BY <1>1, <1>2, <1>3, Names DEF Shape
<1>4. CASE s = "connection_request"
  BY <1>1, <1>2, <1>4, Names DEF Shape
<1>5. CASE s = "connection_established"
  BY <1>1, <1>2, <1>5, Names DEF Shape
<1>6. CASE s = "ready_to_transfer_data"
  BY <1>1, <1>2, <1>6, Names DEF Shape
<1>7. CASE s = "data_transfer_mode"
  BY <1>1, <1>2, <1>7, Names DEF Shape, Pumping
<1> QED
  BY <1>3, <1>4, <1>5, <1>6, <1>7

----
(* The steps of the kernel, on one session.                                *)
LEMMA ServerReceived ==
    ASSUME NEW s, NEW o, NEW k, NEW r, NEW w, NEW t, NEW u, NEW c,
           Known(s, o, k, r, w, t, u, c), o["read_server"]["pending"] > 0
    PROVE  Order(s, Settle(o, "read_server", "ok"), k,
                 [r EXCEPT !["server"] = Chunk("server", t["server"] + 1)], w,
                 [t EXCEPT !["server"] = @ + 1], u, c)
<1> USE Names
<1>0. Single(o, "read_server")
  BY DEF Known
<1> DEFINE x == Settle(o, "read_server", "ok")
           v == [t EXCEPT !["server"] = @ + 1]
<1>1. /\ \A b \in Op \ {"read_server"}, q \in Phase : x[b][q] = o[b][q]
      /\ x["read_server"]["ok"] = o["read_server"]["ok"] + 1
  BY SettleAt DEF Known
<1>2. o["read_server"]["ok"] = 0 /\ Out(o, "read_server") = 1
  BY <1>0 DEF Single
<1>3. v["server"] = t["server"] + 1 /\ v["client"] = t["client"]
  BY DEF Known
<1> HIDE DEF x, v
<1>4. /\ x["write_server"]["pending"] = o["write_server"]["pending"]
      /\ x["write_client"]["pending"] = o["write_client"]["pending"]
      /\ x["read_client"]["ok"] = o["read_client"]["ok"]
      /\ Unsent(x, "write_server") = Unsent(o, "write_server")
      /\ Unsent(x, "write_client") = Unsent(o, "write_client")
  BY <1>1 DEF Unsent, Phase
<1>5. Unsent(o, "write_server") \in Nat /\ Unsent(o, "write_client") \in Nat
  BY UnsentNat
<1>6. s \in {"auth_request", "connection_request", "data_transfer_mode", "erased"}
  BY <1>2, KnownShape
<1>7. Counted(s, x, k, v, u, c)
  <2>1. CASE s = "auth_request"
    BY <1>1, <1>2, <1>3, <1>4, <1>5, <2>1, KnownCounted DEF Counted, Nothing
  <2>2. CASE s = "connection_request"
    BY <1>1, <1>2, <1>3, <1>4, <1>5, <2>2, KnownCounted DEF Counted, Nothing
  <2>3. CASE s = "data_transfer_mode"
    <3>1. Transferring(o, k, t, u, c)
      BY <2>3, KnownCounted DEF Counted
    <3>2. v["server"] = 2 + Len(u["client"]) + x["read_server"]["ok"] + Unsent(x, "write_client")
      BY <1>1, <1>2, <1>3, <1>4, <1>5, <3>1, KnownCounted DEF Transferring
    <3>3. v["client"] = Len(u["server"]) - 2 + x["read_client"]["ok"] + Unsent(x, "write_server")
      BY <1>1, <1>2, <1>3, <1>4, <1>5, <3>1, KnownCounted DEF Transferring
    <3>4. c["client"] = v["server"] - 2 - x["read_server"]["ok"]
      BY <1>1, <1>2, <1>3, <1>4, <1>5, <3>1, KnownCounted DEF Transferring
    <3>5. c["server"] = v["client"] - x["read_client"]["ok"]
      BY <1>1, <1>2, <1>3, <1>4, <1>5, <3>1, KnownCounted DEF Transferring
    <3>6. k["client"] # "none" /\ Len(u["server"]) >= 2
      BY <1>3, <3>1, KnownCounted DEF Transferring
    <3> QED
      BY <2>3, <3>2, <3>3, <3>4, <3>5, <3>6 DEF Counted, Transferring
  <2>4. CASE s = "erased"
    BY <2>4 DEF Counted
  <2> QED
    BY <1>6, <2>1, <2>2, <2>3, <2>4
<1>8. Recent([r EXCEPT !["server"] = Chunk("server", t["server"] + 1)], v)
  BY <1>3 DEF Known, Order, Recent, Side
<1>9. DueRemote(x, w, u) /\ DueLocal(x, k, w, u)
  BY <1>4 DEF Known, Order, DueRemote, DueLocal
<1> QED
  BY <1>7, <1>8, <1>9 DEF Known, Order, x, v

LEMMA ClientReceived ==
    ASSUME NEW s, NEW o, NEW k, NEW r, NEW w, NEW t, NEW u, NEW c,
           Known(s, o, k, r, w, t, u, c), o["read_client"]["pending"] > 0
    PROVE  Order(s, Settle(o, "read_client", "ok"), k,
                 [r EXCEPT !["client"] = Chunk("client", t["client"] + 1)], w,
                 [t EXCEPT !["client"] = @ + 1], u, c)
<1> USE Names
<1>0. Single(o, "read_client")
  BY DEF Known
<1> DEFINE x == Settle(o, "read_client", "ok")
           v == [t EXCEPT !["client"] = @ + 1]
<1>1. /\ \A b \in Op \ {"read_client"}, q \in Phase : x[b][q] = o[b][q]
      /\ x["read_client"]["ok"] = o["read_client"]["ok"] + 1
  BY SettleAt DEF Known
<1>2. o["read_client"]["ok"] = 0 /\ Out(o, "read_client") = 1
  BY <1>0 DEF Single
<1>3. v["client"] = t["client"] + 1 /\ v["server"] = t["server"]
  BY DEF Known
<1> HIDE DEF x, v
<1>4. /\ x["write_server"]["pending"] = o["write_server"]["pending"]
      /\ x["write_client"]["pending"] = o["write_client"]["pending"]
      /\ x["read_server"]["ok"] = o["read_server"]["ok"]
      /\ Unsent(x, "write_server") = Unsent(o, "write_server")
      /\ Unsent(x, "write_client") = Unsent(o, "write_client")
  BY <1>1 DEF Unsent, Phase
<1>5. Unsent(o, "write_server") \in Nat /\ Unsent(o, "write_client") \in Nat
  BY UnsentNat
<1>6. s \in {"data_transfer_mode", "erased"}
  BY <1>2, KnownShape
<1>7. Counted(s, x, k, v, u, c)
  <2>1. CASE s = "data_transfer_mode"
    <3>1. Transferring(o, k, t, u, c)
      BY <2>1, KnownCounted DEF Counted
    <3>2. v["server"] = 2 + Len(u["client"]) + x["read_server"]["ok"] + Unsent(x, "write_client")
      BY <1>1, <1>2, <1>3, <1>4, <1>5, <3>1, KnownCounted DEF Transferring
    <3>3. v["client"] = Len(u["server"]) - 2 + x["read_client"]["ok"] + Unsent(x, "write_server")
      BY <1>1, <1>2, <1>3, <1>4, <1>5, <3>1, KnownCounted DEF Transferring
    <3>4. c["client"] = v["server"] - 2 - x["read_server"]["ok"]
      BY <1>1, <1>2, <1>3, <1>4, <1>5, <3>1, KnownCounted DEF Transferring
    <3>5. c["server"] = v["client"] - x["read_client"]["ok"]
      BY <1>1, <1>2, <1>3, <1>4, <1>5, <3>1, KnownCounted DEF Transferring
    <3>6. k["client"] # "none" /\ Len(u["server"]) >= 2
      BY <1>3, <3>1, KnownCounted DEF Transferring
    <3> QED
      BY <2>1, <3>2, <3>3, <3>4, <3>5, <3>6 DEF Counted, Transferring
  <2>2. CASE s = "erased"
    BY <2>2 DEF Counted
  <2> QED
    BY <1>6, <2>1, <2>2
<1>8. Recent([r EXCEPT !["client"] = Chunk("client", t["client"] + 1)], v)
  BY <1>3 DEF Known, Order, Recent, Side
<1>9. DueRemote(x, w, u) /\ DueLocal(x, k, w, u)
  BY <1>4 DEF Known, Order, DueRemote, DueLocal
<1> QED
  BY <1>7, <1>8, <1>9 DEF Known, Order, x, v

LEMMA ClientSent ==
    ASSUME NEW s, NEW o, NEW k, NEW r, NEW w, NEW t, NEW u, NEW c,
           Known(s, o, k, r, w, t, u, c), o["write_client"]["pending"] > 0,
           k["client"] = "open"
    PROVE  Order(s, Settle(o, "write_client", "ok"), k, r, w, t,
                 [u EXCEPT !["client"] = Append(@, w["client"])], c)
<1> USE Names
<1>0. Single(o, "write_client")
  BY DEF Known
<1> DEFINE x == Settle(o, "write_client", "ok")
           v == [u EXCEPT !["client"] = Append(@, w["client"])]
<1>1. /\ \A b \in Op \ {"write_client"}, q \in Phase : x[b][q] = o[b][q]
      /\ x["write_client"]["pending"] = o["write_client"]["pending"] - 1
      /\ x["write_client"]["error"] = o["write_client"]["error"]
  BY SettleAt DEF Known
<1>2. /\ o["write_client"]["pending"] = 1 /\ o["write_client"]["error"] = 0
      /\ Out(o, "write_client") = 1
  BY <1>0 DEF Single
<1>3. /\ v["server"] = u["server"] /\ v["client"] = Append(u["client"], w["client"])
      /\ Len(v["client"]) = Len(u["client"]) + 1
      /\ DOMAIN v["client"] = 1 .. Len(u["client"]) + 1
      /\ \A i \in DOMAIN u["client"] : v["client"][i] = u["client"][i]
      /\ v["client"][Len(u["client"]) + 1] = w["client"]
      /\ DOMAIN u["client"] = 1 .. Len(u["client"])
  BY DEF Known
<1> HIDE DEF x, v
<1>4. /\ x["write_server"]["pending"] = o["write_server"]["pending"]
      /\ x["write_client"]["pending"] = 0
      /\ x["read_server"]["ok"] = o["read_server"]["ok"]
      /\ x["read_client"]["ok"] = o["read_client"]["ok"]
      /\ Unsent(x, "write_server") = Unsent(o, "write_server")
      /\ Unsent(o, "write_client") = 1 /\ Unsent(x, "write_client") = 0
  BY <1>1, <1>2 DEF Unsent, Phase
<1>5. Unsent(o, "write_server") \in Nat
  BY UnsentNat
<1>6. s \in {"data_transfer_mode", "erased"}
  BY <1>2, KnownShape
<1>7. Counted(s, x, k, t, v, c)
  <2>1. CASE s = "data_transfer_mode"
    <3>1. Transferring(o, k, t, u, c)
      BY <2>1, KnownCounted DEF Counted
    <3>2. t["server"] = 2 + Len(v["client"]) + x["read_server"]["ok"] + Unsent(x, "write_client")
      <4>1. t["server"] = 2 + Len(u["client"]) + o["read_server"]["ok"] + 1
        BY <1>4, <3>1 DEF Transferring
      <4>2. Len(v["client"]) = Len(u["client"]) + 1
        BY <1>3
      <4> QED
        BY <1>4, <4>1, <4>2, KnownCounted
    <3>3. t["client"] = Len(v["server"]) - 2 + x["read_client"]["ok"] + Unsent(x, "write_server")
      BY <1>2, <1>3, <1>4, <1>5, <3>1, KnownCounted DEF Transferring
    <3>4. c["client"] = t["server"] - 2 - x["read_server"]["ok"]
      BY <1>2, <1>3, <1>4, <1>5, <3>1, KnownCounted DEF Transferring
    <3>5. c["server"] = t["client"] - x["read_client"]["ok"]
      BY <1>2, <1>3, <1>4, <1>5, <3>1, KnownCounted DEF Transferring
    <3>6. k["client"] # "none" /\ Len(v["server"]) >= 2
      BY <1>3, <3>1, KnownCounted DEF Transferring
    <3> QED
      BY <2>1, <3>2, <3>3, <3>4, <3>5, <3>6 DEF Counted, Transferring
  <2>2. CASE s = "erased"
    BY <2>2 DEF Counted
  <2> QED
    BY <1>6, <2>1, <2>2
<1>8. SentRemote(v)
  <2>1. w["client"] = Chunk("server", Len(u["client"]) + 3)
    BY DEF Known, Order, DueRemote
  <2>2. ASSUME NEW i \in DOMAIN v["client"]
        PROVE  v["client"][i] = Chunk("server", i + 2)
    <3>1. CASE i = Len(u["client"]) + 1
      BY <1>3, <2>1, <3>1 DEF Known
    <3>2. CASE i # Len(u["client"]) + 1
      <4>1. i \in DOMAIN u["client"]
        BY <1>3, <3>2 DEF Known
      <4> QED
        BY <1>3, <4>1 DEF Known, Order, SentRemote
    <3> QED
      BY <3>1, <3>2
  <2> QED
    BY <2>2 DEF SentRemote
<1>9. SentLocal(v)
  BY <1>3 DEF Known, Order, SentLocal
<1>10. Truthful(k, v)
  BY <1>3 DEF Known, Order, Truthful, Told
<1>11. DueRemote(x, w, v)
  BY <1>4 DEF DueRemote
<1>12. DueLocal(x, k, w, v)
  BY <1>3, <1>4 DEF Known, Order, DueLocal, Told
<1> QED
  BY <1>7, <1>8, <1>9, <1>10, <1>11, <1>12 DEF Known, Order, x, v

LEMMA ServerSent ==
    ASSUME NEW s, NEW o, NEW k, NEW r, NEW w, NEW t, NEW u, NEW c,
           Known(s, o, k, r, w, t, u, c), o["write_server"]["pending"] > 0
    PROVE  Order(s, Settle(o, "write_server", "ok"), k, r, w, t,
                 [u EXCEPT !["server"] = Append(@, w["server"])], c)
<1> USE Names
<1>0. Single(o, "write_server")
  BY DEF Known
<1> DEFINE x == Settle(o, "write_server", "ok")
           v == [u EXCEPT !["server"] = Append(@, w["server"])]
           n == Len(u["server"])
<1>1. /\ \A b \in Op \ {"write_server"}, q \in Phase : x[b][q] = o[b][q]
      /\ x["write_server"]["pending"] = o["write_server"]["pending"] - 1
      /\ x["write_server"]["ok"] = o["write_server"]["ok"] + 1
      /\ x["write_server"]["error"] = o["write_server"]["error"]
  BY SettleAt DEF Known
<1>2. /\ o["write_server"]["pending"] = 1 /\ o["write_server"]["error"] = 0
      /\ o["write_server"]["ok"] = 0 /\ Out(o, "write_server") = 1
  BY <1>0 DEF Single
<1>3. /\ v["client"] = u["client"] /\ v["server"] = Append(u["server"], w["server"])
      /\ Len(v["server"]) = n + 1
      /\ DOMAIN v["server"] = 1 .. n + 1
      /\ \A i \in DOMAIN u["server"] : v["server"][i] = u["server"][i]
      /\ v["server"][n + 1] = w["server"]
      /\ DOMAIN u["server"] = 1 .. n /\ n \in Nat
  BY DEF Known
<1> HIDE DEF x, v
<1>4. /\ x["write_server"]["pending"] = 0 /\ x["write_server"]["ok"] = 1
      /\ x["write_client"]["pending"] = o["write_client"]["pending"]
      /\ x["read_server"]["ok"] = o["read_server"]["ok"]
      /\ x["read_client"]["ok"] = o["read_client"]["ok"]
      /\ x["connect"]["ok"] = o["connect"]["ok"]
      /\ Unsent(x, "write_client") = Unsent(o, "write_client")
      /\ Unsent(o, "write_server") = 1 /\ Unsent(x, "write_server") = 0
  BY <1>1, <1>2 DEF Unsent, Phase
<1>5. Unsent(o, "write_client") \in Nat
  BY UnsentNat
<1>6. s \in {"connection_request", "connection_established", "ready_to_transfer_data",
             "data_transfer_mode", "erased"}
  BY <1>2, KnownShape
<1>7. Counted(s, x, k, t, v, c)
  <2>1. CASE s = "connection_request"
    BY <1>2, <1>3, <1>4, <1>5, <2>1, KnownCounted DEF Counted, Nothing
  <2>2. CASE s = "connection_established"
    BY <1>2, <1>3, <1>4, <1>5, <2>2, KnownCounted DEF Counted, Nothing
  <2>3. CASE s = "ready_to_transfer_data"
    BY <1>2, <1>3, <1>4, <1>5, <2>3, KnownCounted DEF Counted, Nothing
  <2>4. CASE s = "data_transfer_mode"
    <3>1. Transferring(o, k, t, u, c)
      BY <2>4, KnownCounted DEF Counted
    <3>2. t["server"] = 2 + Len(v["client"]) + x["read_server"]["ok"] + Unsent(x, "write_client")
      BY <1>2, <1>3, <1>4, <1>5, <3>1, KnownCounted DEF Transferring
    <3>3. t["client"] = Len(v["server"]) - 2 + x["read_client"]["ok"] + Unsent(x, "write_server")
      <4>1. t["client"] = Len(u["server"]) - 2 + o["read_client"]["ok"] + 1
        BY <1>4, <3>1 DEF Transferring
      <4>2. Len(v["server"]) = Len(u["server"]) + 1
        BY <1>3
      <4> QED
        BY <1>4, <4>1, <4>2, KnownCounted
    <3>4. c["client"] = t["server"] - 2 - x["read_server"]["ok"]
      BY <1>2, <1>3, <1>4, <1>5, <3>1, KnownCounted DEF Transferring
    <3>5. c["server"] = t["client"] - x["read_client"]["ok"]
      BY <1>2, <1>3, <1>4, <1>5, <3>1, KnownCounted DEF Transferring
    <3>6. k["client"] # "none" /\ Len(v["server"]) >= 2
      BY <1>3, <3>1, KnownCounted DEF Transferring
    <3> QED
      BY <2>4, <3>2, <3>3, <3>4, <3>5, <3>6 DEF Counted, Transferring
  <2>5. CASE s = "erased"
    BY <2>5 DEF Counted
  <2> QED
    BY <1>6, <2>1, <2>2, <2>3, <2>4, <2>5
<1>8. /\ n = 0 => w["server"].kind = "auth"
      /\ n = 1 => w["server"].kind = "reply" /\ Told(w["server"].n, k, u)
      /\ n >= 2 => w["server"] = Chunk("client", n - 1) /\ u["server"][2].n = Succeeded
  BY <1>2 DEF Known, Order, DueLocal
<1> HIDE DEF n
<1>9. n >= 2 => v["server"][2] = u["server"][2]
  BY <1>3
<1>10. SentLocal(v)
  <2>1. ASSUME NEW i \in DOMAIN v["server"]
        PROVE  /\ i = 1 => v["server"][i].kind = "auth"
               /\ i = 2 => v["server"][i].kind = "reply"
               /\ i > 2 => /\ v["server"][i] = Chunk("client", i - 2)
                           /\ v["server"][2].n = Succeeded
    <3>1. CASE i = n + 1
      <4>1. v["server"][i] = w["server"]
        BY <1>3, <3>1
      <4>2. CASE n >= 2
        BY <1>3, <1>8, <1>9, <3>1, <4>1, <4>2
      <4>3. CASE n = 1
        BY <1>8, <3>1, <4>1, <4>3
      <4>4. CASE n = 0
        BY <1>8, <3>1, <4>1, <4>4
      <4> QED
        BY <1>3, <4>2, <4>3, <4>4
    <3>2. CASE i # n + 1
      <4>1. i \in DOMAIN u["server"] /\ i \in Nat /\ (i > 2 => n >= 2)
        BY <1>3, <3>2
      <4> QED
        BY <1>3, <1>9, <4>1 DEF Known, Order, SentLocal
    <3> QED
      BY <3>1, <3>2
  <2> QED
    BY <2>1 DEF SentLocal
<1>11. Truthful(k, v)
  <2>1. CASE n >= 2
    BY <1>3, <1>9, <2>1 DEF Known, Order, Truthful, Told, n
  <2>2. CASE n = 1
    BY <1>3, <1>8, <2>2 DEF Truthful, Told
  <2>3. CASE n = 0
    BY <1>3, <2>3 DEF Truthful
  <2> QED
    BY <1>3, <2>1, <2>2, <2>3
<1>12. DueLocal(x, k, w, v)
  BY <1>4 DEF DueLocal
<1>13. SentRemote(v) /\ DueRemote(x, w, v)
  BY <1>3, <1>4 DEF Known, Order, SentRemote, DueRemote
<1> QED
  BY <1>7, <1>10, <1>11, <1>12, <1>13 DEF Known, Order, x, v

LEMMA FailedAlike ==
    ASSUME NEW o \in OpsType, NEW a \in Op
    PROVE  Alike(o, Settle(o, a, "error"))
<1> USE Names
<1> DEFINE x == Settle(o, a, "error")
<1>1. /\ \A b \in Op \ {a}, q \in Phase : x[b][q] = o[b][q]
      /\ x[a]["pending"] = o[a]["pending"] - 1
      /\ x[a]["error"] = o[a]["error"] + 1
      /\ \A q \in {"ok", "error"} \ {"error"} : x[a][q] = o[a][q]
  BY SettleAt
<1>2. o[a]["pending"] \in Nat /\ o[a]["error"] \in Nat
  BY PhaseNat
<1> HIDE DEF x
<1>3. \A b \in Op : /\ x[b]["ok"] = o[b]["ok"]
                    /\ Unsent(x, b) = Unsent(o, b)
                    /\ x[b]["pending"] > 0 => o[b]["pending"] > 0
  <2> SUFFICES ASSUME NEW b \in Op
               PROVE  /\ x[b]["ok"] = o[b]["ok"]
                      /\ Unsent(x, b) = Unsent(o, b)
                      /\ x[b]["pending"] > 0 => o[b]["pending"] > 0
    OBVIOUS
  <2>1. CASE b = a
    BY <1>1, <1>2, <2>1 DEF Unsent
  <2>2. CASE b # a
    BY <1>1, <2>2 DEF Unsent, Phase
  <2> QED
    BY <2>1, <2>2
<1> QED
  BY <1>3 DEF Alike, x

LEMMA SucceededAlike ==
    ASSUME NEW o \in OpsType, NEW a \in {"handshake", "resolve", "shutdown", "null_write"}
    PROVE  Alike(o, Settle(o, a, "ok"))
<1> USE Names
<1> DEFINE x == Settle(o, a, "ok")
<1>1. \A b \in Op \ {a}, q \in Phase : x[b][q] = o[b][q]
  BY SettleAt
<1> HIDE DEF x
<1>2. \A b \in {"read_server", "read_client", "write_server", "write_client", "connect"},
        q \in Phase : x[b][q] = o[b][q]
  BY <1>1
<1> QED
  BY <1>2 DEF Alike, Unsent, Phase, x

(* A connect that succeeds opens the client socket.                        *)
LEMMA ConnectSucceeded ==
    ASSUME NEW s, NEW o, NEW k, NEW r, NEW w, NEW t, NEW u, NEW c,
           Known(s, o, k, r, w, t, u, c), o["connect"]["pending"] > 0
    PROVE  Order(s, Settle(o, "connect", "ok"), [k EXCEPT !["client"] = "open"], r, w, t, u, c)
<1> USE Names
<1>0. Single(o, "connect") /\ Single(o, "write_server")
  BY DEF Known
<1> DEFINE x == Settle(o, "connect", "ok")
           l == [k EXCEPT !["client"] = "open"]
<1>1. /\ \A b \in Op \ {"connect"}, q \in Phase : x[b][q] = o[b][q]
      /\ x["connect"]["ok"] = o["connect"]["ok"] + 1
  BY SettleAt DEF Known
<1>2. o["connect"]["ok"] = 0 /\ Out(o, "connect") = 1
  <2>1. Single(o, "connect")
    BY <1>0
  <2> QED
    BY <2>1 DEF Single
<1>3. l["client"] = "open"
  BY DEF Known
<1> HIDE DEF x, l
<1>4. s = "connection_established" /\ Out(o, "write_server") = 0 /\ Out(o, "write_client") = 0
  <2>1. Shape(s, o) /\ s \in Sessions \union {"absent", "erased"}
    BY DEF Known
  <2>2. s = "connection_established"
    BY <1>2, <2>1 DEF Shape, Sessions, Pumping
  <2>3. Out(o, "write_server") \in Nat /\ Out(o, "resolve") \in Nat
    BY OutNat DEF Known
  <2> QED
    BY <1>2, <2>1, <2>2, <2>3 DEF Shape
<1>5. /\ o["write_server"]["pending"] = 0 /\ o["write_server"]["ok"] = 0
  BY <1>0, <1>4, NoneLeft
<1>6. o["write_client"]["pending"] = 0
  <2>1. Single(o, "write_client")
    BY DEF Known
  <2> QED
    BY <1>4, <2>1, NoneLeft
<1>7. Counted(s, o, k, t, u, c)
  BY KnownCounted
<1>8. Len(u["server"]) = 1
  BY <1>4, <1>5, <1>7 DEF Counted
<1>9. /\ x["connect"]["ok"] = 1
      /\ x["write_server"]["ok"] = o["write_server"]["ok"]
      /\ x["write_server"]["pending"] = 0 /\ x["write_client"]["pending"] = 0
  BY <1>1, <1>2, <1>5, <1>6 DEF Phase
<1>10. Counted(s, x, l, t, u, c)
  BY <1>3, <1>4, <1>7, <1>9 DEF Counted
<1> QED
  BY <1>8, <1>9, <1>10 DEF Known, Order, Truthful, DueRemote, DueLocal, x, l

----
(* The handlers, on one session.                                           *)
LEMMA GreetingMoves ==
    ASSUME NEW o, NEW k, NEW r, NEW w, NEW t, NEW u, NEW c, NEW m,
           Known("auth_request", o, k, r, w, t, u, c), o["read_server"]["ok"] > 0
    PROVE  Order("connection_request", Issue(Retire(o, "read_server", "ok"), "write_server"), k, r,
                 [w EXCEPT !["server"] = Chunk("auth", m)], t, u, c)
<1> USE Names
<1>0. Single(o, "read_server") /\ Single(o, "write_server") /\ Single(o, "write_client")
  BY DEF Known
<1> DEFINE x == Issue(Retire(o, "read_server", "ok"), "write_server")
           v == [w EXCEPT !["server"] = Chunk("auth", m)]
<1>1. /\ o["read_server"]["ok"] = 1
      /\ o["write_server"]["pending"] = 0 /\ o["write_server"]["error"] = 0
      /\ o["write_client"]["pending"] = 0
  BY <1>0, OneDone, NoneLeft, Turns
<1>2. /\ x["read_server"]["ok"] = o["read_server"]["ok"] - 1
      /\ x["write_server"]["pending"] = o["write_server"]["pending"] + 1
      /\ x["write_server"]["error"] = o["write_server"]["error"]
      /\ x["write_client"]["pending"] = o["write_client"]["pending"]
  BY ThenAt DEF Known, Phase
<1>3. v["server"].kind = "auth"
  BY DEF Known, Chunk
<1> HIDE DEF x, v
<1>4. /\ x["read_server"]["ok"] = 0 /\ x["write_client"]["pending"] = 0
      /\ Unsent(x, "write_server") = 1
  BY <1>1, <1>2 DEF Unsent
<1>5. Nothing(k, t, u, c) /\ Len(u["server"]) = 0 /\ t["server"] = 1
  <2>1. /\ Counted("auth_request", o, k, t, u, c) /\ Len(u["server"]) \in Nat
        /\ t["server"] \in Nat
    BY KnownCounted
  <2> QED
    BY <1>1, <2>1 DEF Counted
<1>6. Counted("connection_request", x, k, t, u, c)
  BY <1>4, <1>5 DEF Counted
<1> QED
  BY <1>3, <1>4, <1>5, <1>6 DEF Known, Order, DueRemote, DueLocal, x, v

LEMMA GreetingAnswered ==
    ASSUME NEW o, NEW k, NEW r, NEW w, NEW t, NEW u, NEW c,
           Known("connection_request", o, k, r, w, t, u, c), o["write_server"]["ok"] > 0
    PROVE  Order("connection_request", Issue(Retire(o, "write_server", "ok"), "read_server"),
                 k, r, w, t, u, c)
<1> USE Names
<1>0. Single(o, "read_server") /\ Single(o, "write_server") /\ Single(o, "write_client")
  BY DEF Known
<1> DEFINE x == Issue(Retire(o, "write_server", "ok"), "read_server")
<1>1. /\ o["write_server"]["pending"] = 0 /\ o["write_server"]["error"] = 0
      /\ o["write_client"]["pending"] = 0
  BY <1>0, OneDone, NoneLeft, Turns
<1>2. /\ x["read_server"]["ok"] = o["read_server"]["ok"]
      /\ x["write_server"]["pending"] = o["write_server"]["pending"]
      /\ x["write_server"]["error"] = o["write_server"]["error"]
      /\ x["write_client"]["pending"] = o["write_client"]["pending"]
  BY ThenAt DEF Known, Phase
<1> HIDE DEF x
<1>3. Counted("connection_request", x, k, t, u, c)
  BY <1>2, KnownCounted DEF Counted, Unsent
<1> QED
  BY <1>1, <1>2, <1>3 DEF Known, Order, DueRemote, DueLocal, x

LEMMA RequestMoves ==
    ASSUME NEW o, NEW k, NEW r, NEW w, NEW t, NEW u, NEW c,
           Known("connection_request", o, k, r, w, t, u, c), o["read_server"]["ok"] > 0
    PROVE  Order("connection_established", Issue(Retire(o, "read_server", "ok"), "resolve"),
                 k, r, w, t, u, c)
<1> USE Names
<1>0. /\ Single(o, "read_server") /\ Single(o, "write_server") /\ Single(o, "write_client")
      /\ Single(o, "connect")
  BY DEF Known
<1> DEFINE x == Issue(Retire(o, "read_server", "ok"), "resolve")
<1>1. /\ o["read_server"]["ok"] = 1 /\ o["connect"]["ok"] = 0
      /\ o["write_server"]["pending"] = 0 /\ o["write_server"]["ok"] = 0
      /\ Unsent(o, "write_server") = 0 /\ o["write_client"]["pending"] = 0
  BY <1>0, OneDone, NoneLeft, Turns
<1>2. /\ x["connect"]["ok"] = o["connect"]["ok"]
      /\ x["write_server"]["pending"] = o["write_server"]["pending"]
      /\ x["write_server"]["ok"] = o["write_server"]["ok"]
      /\ x["write_client"]["pending"] = o["write_client"]["pending"]
  BY ThenAt DEF Known, Phase
<1> HIDE DEF x
<1>3. Nothing(k, t, u, c) /\ Len(u["server"]) = 1 /\ t["server"] = 2
  <2>1. /\ Counted("connection_request", o, k, t, u, c) /\ Len(u["server"]) \in Nat
        /\ t["server"] \in Nat
    BY KnownCounted
  <2>2. /\ Nothing(k, t, u, c)
        /\ Len(u["server"]) = 1 - Unsent(o, "write_server")
        /\ t["server"] = 1 + o["read_server"]["ok"]
    BY <2>1 DEF Counted
  <2> QED
    BY <1>1, <2>2
<1>4. Counted("connection_established", x, k, t, u, c)
  BY <1>1, <1>2, <1>3 DEF Counted, Nothing
<1> QED
  BY <1>1, <1>2, <1>4 DEF Known, Order, DueRemote, DueLocal, x

LEMMA ConnectTold ==
    ASSUME NEW o, NEW k, NEW r, NEW w, NEW t, NEW u, NEW c,
           Known("connection_established", o, k, r, w, t, u, c), o["connect"]["ok"] > 0
    PROVE  Order("ready_to_transfer_data", Issue(Retire(o, "connect", "ok"), "write_server"), k, r,
                 [w EXCEPT !["server"] = Chunk("reply", Succeeded)], t, u, c)
<1> USE Names
<1>0. Single(o, "connect") /\ Single(o, "write_server") /\ Single(o, "write_client")
  BY DEF Known
<1> DEFINE x == Issue(Retire(o, "connect", "ok"), "write_server")
           v == [w EXCEPT !["server"] = Chunk("reply", Succeeded)]
<1>1. /\ o["write_server"]["pending"] = 0 /\ o["write_server"]["error"] = 0
      /\ o["write_server"]["ok"] = 0 /\ o["write_client"]["pending"] = 0
  BY <1>0, OneDone, NoneLeft, Turns
<1>2. /\ x["write_server"]["pending"] = o["write_server"]["pending"] + 1
      /\ x["write_server"]["error"] = o["write_server"]["error"]
      /\ x["write_client"]["pending"] = o["write_client"]["pending"]
  BY ThenAt DEF Known, Phase
<1>3. v["server"].kind = "reply" /\ v["server"].n = Succeeded
  BY DEF Known, Chunk
<1> HIDE DEF x, v
<1>4. x["write_client"]["pending"] = 0 /\ Unsent(x, "write_server") = 1
  BY <1>1, <1>2 DEF Unsent
<1>5. /\ k["client"] # "none" /\ u["client"] = <<>> /\ t["client"] = 0 /\ t["server"] = 2
      /\ c["client"] = 0 /\ c["server"] = 0 /\ Len(u["server"]) = 1
  <2>1. /\ Counted("connection_established", o, k, t, u, c) /\ Len(u["server"]) \in Nat
        /\ t["server"] \in Nat
    BY KnownCounted
  <2> QED
    BY <1>1, <2>1 DEF Counted
<1>6. Counted("ready_to_transfer_data", x, k, t, u, c)
  BY <1>4, <1>5 DEF Counted
<1> QED
  BY <1>3, <1>4, <1>5, <1>6 DEF Known, Order, DueRemote, DueLocal, Told, x, v

LEMMA FailureTold ==
    ASSUME NEW o, NEW k, NEW r, NEW w, NEW t, NEW u, NEW c, NEW n, n # Succeeded,
           Known("connection_established", o, k, r, w, t, u, c),
           NEW op \in ClientOp, o[op]["error"] > 0
    PROVE  Order("connection_established", Issue(Retire(o, op, "error"), "write_server"), k, r,
                 [w EXCEPT !["server"] = Chunk("reply", n)], t, u, c)
<1> USE Names
<1>0. /\ Single(o, "connect") /\ Single(o, "write_server") /\ Single(o, "write_client")
      /\ Single(o, "resolve") /\ Single(o, "read_client")
  BY DEF Known
<1> DEFINE x == Issue(Retire(o, op, "error"), "write_server")
           v == [w EXCEPT !["server"] = Chunk("reply", n)]
<1>1. op \in {"resolve", "connect"} /\ Out(o, op) = 1
  <2>1. op # "read_client" /\ op # "write_client"
    BY <1>0, NoneLeft, Turns
  <2>2. op \in {"resolve", "connect"}
    BY <2>1 DEF ClientOp
  <2>3. Single(o, op)
    BY <1>0, <2>2
  <2> QED
    BY <2>2, <2>3, OneFailed
<1>2. /\ o["write_server"]["pending"] = 0 /\ o["write_server"]["ok"] = 0
      /\ o["write_client"]["pending"] = 0
  BY <1>0, <1>1, NoneLeft, Turns
<1>3. o["connect"]["ok"] = 0
  <2>1. CASE op = "resolve"
    BY <1>0, <1>1, <2>1, NoneLeft, Turns
  <2>2. CASE op = "connect"
    <3>1. Single(o, "connect") /\ o["connect"]["error"] > 0
      BY <1>0, <2>2
    <3> QED
      BY <3>1, OneFailed
  <2> QED
    BY <1>1, <2>1, <2>2
<1>4. /\ x["write_server"]["ok"] = o["write_server"]["ok"]
      /\ x["write_client"]["pending"] = o["write_client"]["pending"]
      /\ x["connect"]["ok"] = o["connect"]["ok"]
  <2>1. op # "write_server" /\ op \in Op
    BY <1>1
  <2>2. /\ \A e \in Op \ {op, "write_server"}, q \in Phase : x[e][q] = o[e][q]
        /\ \A q \in Phase \ {"error"} : x[op][q] = o[op][q]
        /\ \A q \in {"ok", "error"} : x["write_server"][q] = o["write_server"][q]
    BY <2>1, ThenAt DEF Known
  <2> HIDE DEF x
  <2>3. x["connect"]["ok"] = o["connect"]["ok"]
    BY <1>1, <2>2 DEF Phase
  <2> QED
    BY <1>1, <2>2, <2>3 DEF Phase
<1>5. v["server"].kind = "reply" /\ v["server"].n = n
  BY DEF Known, Chunk
<1> HIDE DEF x, v
<1>6. /\ k["client"] = "none" /\ u["client"] = <<>> /\ t["client"] = 0 /\ t["server"] = 2
      /\ c["client"] = 0 /\ c["server"] = 0 /\ Len(u["server"]) = 1
  <2>1. /\ Counted("connection_established", o, k, t, u, c) /\ Len(u["server"]) \in Nat
        /\ t["server"] \in Nat
    BY KnownCounted
  <2> QED
    BY <1>2, <1>3, <2>1 DEF Counted
<1>7. Counted("connection_established", x, k, t, u, c)
  BY <1>2, <1>3, <1>4, <1>6 DEF Counted
<1> QED
  BY <1>2, <1>4, <1>5, <1>6, <1>7 DEF Known, Order, DueRemote, DueLocal, Told, x, v

LEMMA RelayStarts ==
    ASSUME NEW o, NEW k, NEW r, NEW w, NEW t, NEW u, NEW c,
           Known("ready_to_transfer_data", o, k, r, w, t, u, c), o["write_server"]["ok"] > 0
    PROVE  Order("data_transfer_mode",
                 Issue(Issue(Retire(o, "write_server", "ok"), "read_server"), "read_client"),
                 k, r, w, t, u, c)
<1> USE Names
<1>0. /\ Single(o, "read_server") /\ Single(o, "write_server")
      /\ Single(o, "read_client") /\ Single(o, "write_client")
  BY DEF Known
<1> DEFINE y == Issue(Retire(o, "write_server", "ok"), "read_server")
           x == Issue(y, "read_client")
<1>1. /\ o["write_server"]["pending"] = 0 /\ Unsent(o, "write_server") = 0
      /\ o["read_server"]["ok"] = 0 /\ o["read_client"]["ok"] = 0
      /\ o["write_client"]["pending"] = 0 /\ o["write_client"]["error"] = 0
      /\ o["write_server"]["error"] = 0
  BY <1>0, OneDone, NoneLeft, Turns
<1>2. /\ y \in OpsType
      /\ y["read_server"]["ok"] = o["read_server"]["ok"]
      /\ y["read_client"]["ok"] = o["read_client"]["ok"]
      /\ y["write_server"]["pending"] = o["write_server"]["pending"]
      /\ y["write_server"]["error"] = o["write_server"]["error"]
      /\ y["write_client"]["pending"] = o["write_client"]["pending"]
      /\ y["write_client"]["error"] = o["write_client"]["error"]
  <2>1. o \in OpsType
    BY DEF Known
  <2>2. /\ y \in OpsType
        /\ \A e \in Op \ {"write_server", "read_server"}, q \in Phase : y[e][q] = o[e][q]
        /\ \A q \in Phase \ {"ok"} : y["write_server"][q] = o["write_server"][q]
        /\ \A q \in {"ok", "error"} : y["read_server"][q] = o["read_server"][q]
    BY <2>1, ThenAt
  <2> HIDE DEF y
  <2> QED
    BY <2>2 DEF Phase
<1> HIDE DEF y
<1>3. /\ x["read_server"]["ok"] = y["read_server"]["ok"]
      /\ x["read_client"]["ok"] = y["read_client"]["ok"]
      /\ x["write_server"]["pending"] = y["write_server"]["pending"]
      /\ x["write_server"]["error"] = y["write_server"]["error"]
      /\ x["write_client"]["pending"] = y["write_client"]["pending"]
      /\ x["write_client"]["error"] = y["write_client"]["error"]
  BY <1>2, IssueAt
<1> HIDE DEF x
<1>4. /\ x["read_server"]["ok"] = 0 /\ x["read_client"]["ok"] = 0
      /\ x["write_server"]["pending"] = 0 /\ x["write_client"]["pending"] = 0
      /\ Unsent(x, "write_server") = 0 /\ Unsent(x, "write_client") = 0
  BY <1>1, <1>2, <1>3 DEF Unsent
<1>5. /\ k["client"] # "none" /\ u["client"] = <<>> /\ t["client"] = 0 /\ t["server"] = 2
      /\ c["client"] = 0 /\ c["server"] = 0 /\ Len(u["server"]) = 2
  <2>1. /\ Counted("ready_to_transfer_data", o, k, t, u, c) /\ Len(u["server"]) \in Nat
        /\ t["server"] \in Nat
    BY KnownCounted
  <2>2. /\ k["client"] # "none" /\ u["client"] = <<>> /\ t["client"] = 0 /\ t["server"] = 2
        /\ c["client"] = 0 /\ c["server"] = 0
        /\ Len(u["server"]) = 2 - Unsent(o, "write_server")
    BY <2>1 DEF Counted
  <2> QED
    BY <1>1, <2>2
<1>6. Transferring(x, k, t, u, c)
  <2>1. Len(u["client"]) = 0
    BY <1>5
  <2> QED
    BY <1>4, <1>5, <2>1 DEF Transferring
<1>7. Counted("data_transfer_mode", x, k, t, u, c)
  BY <1>6 DEF Counted
<1> QED
  BY <1>4, <1>7 DEF Known, Order, DueRemote, DueLocal, x, y

LEMMA ServerRelayed ==
    ASSUME NEW o, NEW k, NEW r, NEW w, NEW t, NEW u, NEW c,
           Known("data_transfer_mode", o, k, r, w, t, u, c), o["read_server"]["ok"] > 0
    PROVE  Order("data_transfer_mode", Issue(Retire(o, "read_server", "ok"), "write_client"), k, r,
                 [w EXCEPT !["client"] = r["server"]], t, u, [c EXCEPT !["client"] = @ + 1])
<1> USE Names
<1>0. Single(o, "read_server") /\ Single(o, "write_client")
  BY DEF Known
<1> DEFINE x == Issue(Retire(o, "read_server", "ok"), "write_client")
           v == [w EXCEPT !["client"] = r["server"]]
           d == [c EXCEPT !["client"] = @ + 1]
<1>1. /\ o["read_server"]["ok"] = 1
      /\ o["write_client"]["pending"] = 0 /\ o["write_client"]["error"] = 0
      /\ Unsent(o, "write_client") = 0
  BY <1>0, OneDone, NoneLeft, Turns
<1>2. /\ x["read_server"]["ok"] = o["read_server"]["ok"] - 1
      /\ x["read_client"]["ok"] = o["read_client"]["ok"]
      /\ x["write_client"]["pending"] = o["write_client"]["pending"] + 1
      /\ x["write_client"]["error"] = o["write_client"]["error"]
      /\ x["write_server"]["pending"] = o["write_server"]["pending"]
      /\ x["write_server"]["error"] = o["write_server"]["error"]
  BY ThenAt DEF Known, Phase
<1>3. v["client"] = r["server"] /\ v["server"] = w["server"]
  BY DEF Known
<1>4. d["client"] = c["client"] + 1 /\ d["server"] = c["server"]
  BY DEF Known
<1> HIDE DEF x, v, d
<1>5. x["read_server"]["ok"] = 0 /\ Unsent(x, "write_client") = 1
      /\ Unsent(x, "write_server") = Unsent(o, "write_server")
  BY <1>1, <1>2 DEF Unsent
<1>6. Transferring(o, k, t, u, c)
  BY KnownCounted DEF Counted
<1>7. t["server"] = Len(u["client"]) + 3
  <2>1. t["server"] = 2 + Len(u["client"]) + 1 + 0
    BY <1>1, <1>6 DEF Transferring
  <2> QED
    BY <2>1, KnownCounted
<1>8. Transferring(x, k, t, u, d)
  <2>1. t["server"] = 2 + Len(u["client"]) + x["read_server"]["ok"] + Unsent(x, "write_client")
    BY <1>5, <1>7, KnownCounted
  <2>2. d["client"] = t["server"] - 2 - x["read_server"]["ok"]
    <3>1. c["client"] = t["server"] - 2 - 1
      BY <1>1, <1>6 DEF Transferring
    <3> QED
      BY <1>4, <1>5, <3>1, KnownCounted
  <2> QED
    BY <1>2, <1>4, <1>5, <1>6, <2>1, <2>2 DEF Transferring
<1>9. v["client"] = Chunk("server", Len(u["client"]) + 3)
  <2>1. Recent(r, t)
    BY DEF Known, Order
  <2>2. t["server"] > 0
    BY <1>7, KnownCounted
  <2> QED
    BY <1>3, <1>7, <2>1, <2>2 DEF Recent
<1>10. DueLocal(x, k, v, u)
  BY <1>2, <1>3 DEF Known, Order, DueLocal
<1> QED
  BY <1>8, <1>9, <1>10 DEF Known, Order, DueRemote, Counted, x, v, d

LEMMA ClientRelayed ==
    ASSUME NEW o, NEW k, NEW r, NEW w, NEW t, NEW u, NEW c,
           Known("data_transfer_mode", o, k, r, w, t, u, c), o["read_client"]["ok"] > 0
    PROVE  Order("data_transfer_mode", Issue(Retire(o, "read_client", "ok"), "write_server"), k, r,
                 [w EXCEPT !["server"] = r["client"]], t, u, [c EXCEPT !["server"] = @ + 1])
<1> USE Names
<1>0. Single(o, "read_client") /\ Single(o, "write_server")
  BY DEF Known
<1> DEFINE x == Issue(Retire(o, "read_client", "ok"), "write_server")
           v == [w EXCEPT !["server"] = r["client"]]
           d == [c EXCEPT !["server"] = @ + 1]
<1>1. /\ o["read_client"]["ok"] = 1
      /\ o["write_server"]["pending"] = 0 /\ o["write_server"]["error"] = 0
      /\ Unsent(o, "write_server") = 0
  BY <1>0, OneDone, NoneLeft, Turns
<1>2. /\ x["read_client"]["ok"] = o["read_client"]["ok"] - 1
      /\ x["read_server"]["ok"] = o["read_server"]["ok"]
      /\ x["write_server"]["pending"] = o["write_server"]["pending"] + 1
      /\ x["write_server"]["error"] = o["write_server"]["error"]
      /\ x["write_client"]["pending"] = o["write_client"]["pending"]
      /\ x["write_client"]["error"] = o["write_client"]["error"]
  BY ThenAt DEF Known, Phase
<1>3. v["server"] = r["client"] /\ v["client"] = w["client"]
  BY DEF Known
<1>4. d["server"] = c["server"] + 1 /\ d["client"] = c["client"]
  BY DEF Known
<1> HIDE DEF x, v, d
<1>5. x["read_client"]["ok"] = 0 /\ Unsent(x, "write_server") = 1
      /\ Unsent(x, "write_client") = Unsent(o, "write_client")
  BY <1>1, <1>2 DEF Unsent
<1>6. Transferring(o, k, t, u, c)
  BY KnownCounted DEF Counted
<1>7. t["client"] = Len(u["server"]) - 1 /\ Len(u["server"]) >= 2
  <2>1. t["client"] = Len(u["server"]) - 2 + 1 + 0 /\ Len(u["server"]) >= 2
    BY <1>1, <1>6 DEF Transferring
  <2> QED
    BY <2>1, KnownCounted
<1>8. Transferring(x, k, t, u, d)
  <2>1. t["client"] = Len(u["server"]) - 2 + x["read_client"]["ok"] + Unsent(x, "write_server")
    BY <1>5, <1>7, KnownCounted
  <2>2. d["server"] = t["client"] - x["read_client"]["ok"]
    <3>1. c["server"] = t["client"] - 1
      BY <1>1, <1>6 DEF Transferring
    <3> QED
      BY <1>4, <1>5, <3>1, KnownCounted
  <2> QED
    BY <1>2, <1>4, <1>5, <1>6, <2>1, <2>2 DEF Transferring
<1>9. v["server"] = Chunk("client", Len(u["server"]) - 1)
  <2>1. Recent(r, t)
    BY DEF Known, Order
  <2>2. t["client"] > 0
    BY <1>7, KnownCounted
  <2> QED
    BY <1>3, <1>7, <2>1, <2>2 DEF Recent
<1>10. u["server"][2].n = Succeeded
  BY <1>6, <1>7 DEF Known, Order, Truthful, Told, Transferring
<1>11. DueLocal(x, k, v, u)
  <2>1. Len(u["server"]) # 0 /\ Len(u["server"]) # 1
    <3>1. Len(u["server"]) \in Nat /\ Len(u["server"]) >= 2
      BY <1>7, KnownCounted
    <3>2. \A n \in Nat : n >= 2 => n # 0 /\ n # 1
      OBVIOUS
    <3> QED
      BY <3>1, <3>2
  <2> QED
    BY <1>9, <1>10, <2>1 DEF DueLocal
<1>12. DueRemote(x, v, u)
  BY <1>2, <1>3 DEF Known, Order, DueRemote
<1> QED
  BY <1>8, <1>11, <1>12 DEF Known, Order, Counted, x, v, d

LEMMA ServerWritten ==
    ASSUME NEW o, NEW k, NEW r, NEW w, NEW t, NEW u, NEW c,
           Known("data_transfer_mode", o, k, r, w, t, u, c), o["write_server"]["ok"] > 0
    PROVE  Order("data_transfer_mode", Issue(Retire(o, "write_server", "ok"), "read_client"),
                 k, r, w, t, u, c)
<1> USE Names
<1> DEFINE x == Issue(Retire(o, "write_server", "ok"), "read_client")
<1>1. /\ x["read_server"]["ok"] = o["read_server"]["ok"]
      /\ x["read_client"]["ok"] = o["read_client"]["ok"]
      /\ x["write_server"]["pending"] = o["write_server"]["pending"]
      /\ x["write_server"]["error"] = o["write_server"]["error"]
      /\ x["write_client"]["pending"] = o["write_client"]["pending"]
      /\ x["write_client"]["error"] = o["write_client"]["error"]
  BY ThenAt DEF Known, Phase
<1> HIDE DEF x
<1> QED
  BY <1>1 DEF Known, Order, DueRemote, DueLocal, Counted, Transferring, Unsent, x

LEMMA ClientWritten ==
    ASSUME NEW o, NEW k, NEW r, NEW w, NEW t, NEW u, NEW c,
           Known("data_transfer_mode", o, k, r, w, t, u, c), o["write_client"]["ok"] > 0
    PROVE  Order("data_transfer_mode", Issue(Retire(o, "write_client", "ok"), "read_server"),
                 k, r, w, t, u, c)
<1> USE Names
<1> DEFINE x == Issue(Retire(o, "write_client", "ok"), "read_server")
<1>1. /\ x["read_server"]["ok"] = o["read_server"]["ok"]
      /\ x["read_client"]["ok"] = o["read_client"]["ok"]
      /\ x["write_server"]["pending"] = o["write_server"]["pending"]
      /\ x["write_server"]["error"] = o["write_server"]["error"]
      /\ x["write_client"]["pending"] = o["write_client"]["pending"]
      /\ x["write_client"]["error"] = o["write_client"]["error"]
  BY ThenAt DEF Known, Phase
<1> HIDE DEF x
<1> QED
  BY <1>1 DEF Known, Order, DueRemote, DueLocal, Counted, Transferring, Unsent, x

(* The handlers of the streams go on with what Order says nothing of.      *)
LEMMA StreamAlike ==
    ASSUME NEW o \in OpsType
    PROVE  /\ o["handshake"]["ok"] > 0 =>
                Alike(o, Issue(Retire(o, "handshake", "ok"), "read_server"))
           /\ o["resolve"]["ok"] > 0 => Alike(o, Issue(Retire(o, "resolve", "ok"), "connect"))
           /\ \A op \in {"shutdown", "null_write"}, p \in {"ok", "error"} :
                Alike(o, Retire(o, op, p))
<1> USE Names
<1>1. ASSUME o["handshake"]["ok"] > 0
      PROVE  Alike(o, Issue(Retire(o, "handshake", "ok"), "read_server"))
  <2> DEFINE x == Issue(Retire(o, "handshake", "ok"), "read_server")
  <2>1. /\ \A e \in Op \ {"handshake", "read_server"}, q \in Phase : x[e][q] = o[e][q]
        /\ x["read_server"]["ok"] = o["read_server"]["ok"]
    BY <1>1, ThenAt
  <2> HIDE DEF x
  <2> QED
    BY <2>1 DEF Alike, Unsent, Phase, x
<1>2. ASSUME o["resolve"]["ok"] > 0
      PROVE  Alike(o, Issue(Retire(o, "resolve", "ok"), "connect"))
  <2> DEFINE x == Issue(Retire(o, "resolve", "ok"), "connect")
  <2>1. /\ \A e \in Op \ {"resolve", "connect"}, q \in Phase : x[e][q] = o[e][q]
        /\ x["connect"]["ok"] = o["connect"]["ok"]
    BY <1>2, ThenAt
  <2> HIDE DEF x
  <2> QED
    BY <2>1 DEF Alike, Unsent, Phase, x
<1>3. ASSUME NEW op \in {"shutdown", "null_write"}, NEW p \in {"ok", "error"}
      PROVE  Alike(o, Retire(o, op, p))
  <2> DEFINE x == Retire(o, op, p)
  <2>1. \A e \in Op \ {op}, q \in Phase : x[e][q] = o[e][q]
    BY RetireAt
  <2> HIDE DEF x
  <2>2. \A e \in {"read_server", "read_client", "write_server", "write_client", "connect"},
          q \in Phase : x[e][q] = o[e][q]
    BY <2>1
  <2> QED
    BY <2>2 DEF Alike, Unsent, Phase, x
<1> QED
  BY <1>1, <1>2, <1>3

(* A retired completion starts no write, nor do the streams' do_stop.      *)
LEMMA RetiredWrites ==
    ASSUME NEW o \in OpsType, NEW a \in Op, NEW p \in {"ok", "error"},
           NEW b \in {"write_server", "write_client"}
    PROVE  Retire(o, a, p)[b]["pending"] = o[b]["pending"]
BY RetiredPending, Names

LEMMA StoppedWrites ==
    ASSUME NEW x \in OpsType, NEW z, NEW b \in {"write_server", "write_client"}
    PROVE  StopOps(x, z)[b]["pending"] = x[b]["pending"]
BY StoppedPending DEF Carriers

----
(* The steps of the whole program.                                         *)
LEMMA KernelOrder ==
    ASSUME OInv, NEW id \in Ids, Kernel(id)
    PROVE  \A i \in Ids : OrderOf(i)'
<1> USE DEF OInv, IInv, TypeOK
<1>1. KnownOf(id)
  BY Facts
<1>2. CASE Receive(id, "server")
  <2>1. OrderOf(id)'
    BY <1>1, <1>2, ServerReceived DEF Receive, Pending, ReadOp, OrderOf, KnownOf
  <2> QED
    BY <1>2, <2>1, OneOrder DEF Receive, OthersSame
<1>3. CASE Receive(id, "client")
  <2>1. OrderOf(id)'
    BY <1>1, <1>3, ClientReceived DEF Receive, Pending, ReadOp, OrderOf, KnownOf
  <2> QED
    BY <1>3, <2>1, OneOrder DEF Receive, OthersSame
<1>4. CASE Send(id, "server")
  <2>1. OrderOf(id)'
    BY <1>1, <1>4, ServerSent DEF Send, Pending, WriteOp, OrderOf, KnownOf, buffers
  <2> QED
    BY <1>4, <2>1, OneOrder DEF Send, OthersSame, buffers
<1>5. CASE Send(id, "client")
  <2>1. OrderOf(id)'
    BY <1>1, <1>5, ClientSent DEF Send, Pending, WriteOp, OrderOf, KnownOf, buffers
  <2> QED
    BY <1>5, <2>1, OneOrder DEF Send, OthersSame, buffers
<1>6. ASSUME NEW op \in Op, Succeed(id, op)
      PROVE  \A i \in Ids : OrderOf(i)'
  <2>1. CASE op = "connect"
    <3>1. OrderOf(id)'
      BY <1>1, <1>6, <2>1, ConnectSucceeded DEF Succeed, Pending, OrderOf, KnownOf, buffers, peers
    <3> QED
      BY <1>6, <3>1, OneOrder DEF Succeed, OthersSame, buffers, peers
  <2>2. CASE op # "connect"
    <3>1. Alike(ops[id], Settle(ops[id], op, "ok"))
      BY <1>1, <1>6, <2>2, SucceededAlike DEF Succeed, KnownOf, Known
    <3>2. OrderOf(id)'
      BY <1>1, <1>6, <2>2, <3>1, AlikeOrder DEF Succeed, OrderOf, KnownOf, Known, buffers, peers
    <3> QED
      BY <1>6, <3>2, OneOrder DEF Succeed, OthersSame, buffers, peers
  <2> QED
    BY <2>1, <2>2
<1>7. ASSUME NEW op \in Op, Fail(id, op)
      PROVE  \A i \in Ids : OrderOf(i)'
  <2>1. Alike(ops[id], Settle(ops[id], op, "error"))
    BY <1>1, FailedAlike DEF KnownOf, Known
  <2>2. OrderOf(id)'
    BY <1>1, <1>7, <2>1, AlikeOrder DEF Fail, OrderOf, KnownOf, Known, buffers, peers
  <2> QED
    BY <1>7, <2>2, OneOrder DEF Fail, OthersSame, buffers, peers
<1> QED
  BY <1>2, <1>3, <1>4, <1>5, <1>6, <1>7 DEF Kernel, Side

LEMMA StopOrder ==
    ASSUME OInv, NEW id \in Ids, NEW op \in Op, NEW p \in {"ok", "error"},
           Completed(id, op, p), Stop(id, op, p)
    PROVE  \A i \in Ids : OrderOf(i)'
<1> USE DEF OInv, IInv, TypeOK
<1> DEFINE x == StopOps(Retire(ops[id], op, p), sock[id])
           l == StopSock(sock[id])
<1>1. Order(state[id], ops[id], sock[id], rbuf[id], wbuf[id], taken[id], out[id], transferred[id])
  BY DEF OrderOf
<1>2. \A b \in {"write_server", "write_client"} : x[b]["pending"] = ops[id][b]["pending"]
  <2>1. ops[id] \in OpsType /\ ops[id][op][p] > 0
    BY DEF OpsType, Completed
  <2>2. Retire(ops[id], op, p) \in OpsType
    BY <2>1, RetireOut
  <2> QED
    BY <2>1, <2>2, RetiredWrites, StoppedWrites
<1>3. (l["client"] = "none") <=> (sock[id]["client"] = "none")
  BY DEF StopSock, Side
<1>4. /\ state'[id] = "erased" /\ ops'[id] = x /\ sock'[id] = l /\ rbuf'[id] = rbuf[id]
      /\ wbuf'[id] = wbuf[id] /\ taken'[id] = taken[id] /\ out'[id] = out[id]
      /\ transferred'[id] = transferred[id]
  BY DEF Stop, buffers, peers
<1>5. OthersSame(id)
  BY DEF Stop, OthersSame, buffers, peers
<1> HIDE DEF x, l
<1>6. Order("erased", x, l, rbuf[id], wbuf[id], taken[id], out[id], transferred[id])
  BY <1>1, <1>2, <1>3, ErasedOrder
<1>7. OrderOf(id)'
  BY <1>4, <1>6 DEF OrderOf
<1> QED
  BY <1>5, <1>7, OneOrder

(* A completion that reaches no handler belongs to an erased session.      *)
LEMMA DroppedErased ==
    ASSUME NEW s, NEW o \in OpsType, NEW op \in Op, NEW p \in {"ok", "error"}, o[op][p] > 0,
           Shape(s, o), s \in Sessions \union {"absent", "erased"},
           op \notin {"shutdown", "null_write"},
           p = "ok" => op \notin Handles(s) \union {"handshake", "resolve"},
           p = "error" => s \in {"absent", "erased"}
    PROVE  s = "erased"
<1> USE Names
<1>1. Out(o, op) \in Nat /\ Out(o, op) > 0
  BY RetireOut, OutNat
<1>2. s # "absent"
  BY <1>1 DEF Shape
<1>3. s # "auth_request"
  BY <1>1 DEF Shape, Handles
<1>4. s # "connection_request"
  BY <1>1 DEF Shape, Handles
<1>5. s # "connection_established"
  BY <1>1 DEF Shape, Handles
<1>6. s # "ready_to_transfer_data"
  BY <1>1 DEF Shape, Handles
<1>7. s # "data_transfer_mode"
  BY <1>1 DEF Shape, Pumping, Handles, Op, ServerOp, ClientOp
<1> QED
  BY <1>2, <1>3, <1>4, <1>5, <1>6, <1>7 DEF Sessions

LEMMA DispatchOrder ==
    ASSUME OInv, NEW id \in Ids, Dispatch(id)
    PROVE  \A i \in Ids : OrderOf(i)'
<1> USE DEF OInv, IInv, TypeOK
<1> USE Names
<1>0. KnownOf(id) /\ ops[id] \in OpsType
  BY Facts DEF OpsType
<1>1. CASE Handshaken(id)
  <2>1. OrderOf(id)'
    BY <1>0, <1>1, StreamAlike, AlikeOrder
    DEF Handshaken, Then, Completed, OrderOf, KnownOf, Known, buffers, peers
  <2> QED
    BY <1>1, <2>1, OneOrder DEF Handshaken, Then, OthersSame, buffers, peers
<1>2. CASE Resolved(id)
  <2>1. OrderOf(id)'
    BY <1>0, <1>2, StreamAlike, AlikeOrder
    DEF Resolved, Then, Completed, OrderOf, KnownOf, Known, buffers, peers
  <2> QED
    BY <1>2, <2>1, OneOrder DEF Resolved, Then, OthersSame, buffers, peers
<1>3. CASE TlsClosed(id)
  <2>1. PICK op \in {"shutdown", "null_write"}, p \in {"ok", "error"} :
          ops' = [ops EXCEPT ![id] = Retire(@, op, p)]
    BY <1>3 DEF TlsClosed
  <2>2. ops'[id] = Retire(ops[id], op, p) /\ Alike(ops[id], Retire(ops[id], op, p))
    BY <1>0, <2>1, StreamAlike
  <2>3. sock'[id]["client"] = sock[id]["client"]
    BY <1>3 DEF TlsClosed
  <2>4. state'[id] = "erased" /\ state[id] = "erased"
    <3>1. PICK o \in {"shutdown", "null_write"}, p2 \in {"ok", "error"} : Completed(id, o, p2)
      BY <1>3 DEF TlsClosed
    <3>2. o \in Op /\ ops[id][o][p2] > 0
      BY <3>1 DEF Completed
    <3>3. Out(ops[id], o) \in Nat /\ Out(ops[id], o) >= 1
      BY <1>0, <3>2, RetireOut, OutNat
    <3>4. Out(ops[id], o) > 0
      BY <3>3
    <3> QED
      BY <1>3, <3>4, ShapeClosing DEF CloseOnlyErased, TlsClosed
  <2>5. /\ rbuf'[id] = rbuf[id] /\ wbuf'[id] = wbuf[id] /\ taken'[id] = taken[id]
        /\ out'[id] = out[id] /\ transferred'[id] = transferred[id]
    BY <1>3 DEF TlsClosed, buffers, peers
  <2>6. Order("erased", ops'[id], sock'[id], rbuf[id], wbuf[id], taken[id], out[id],
              transferred[id])
    <3>1. Order(state[id], ops[id], sock[id], rbuf[id], wbuf[id], taken[id], out[id],
                transferred[id])
      BY <1>0 DEF KnownOf, Known
    <3>2. /\ ops'[id]["write_server"]["pending"] > 0 => ops[id]["write_server"]["pending"] > 0
          /\ ops'[id]["write_client"]["pending"] > 0 => ops[id]["write_client"]["pending"] > 0
      BY <2>2 DEF Alike
    <3>3. (sock'[id]["client"] = "none") <=> (sock[id]["client"] = "none")
      BY <2>3
    <3> QED
      BY <3>1, <3>2, <3>3, ErasedOrder
  <2>7. OrderOf(id)'
    BY <2>4, <2>5, <2>6 DEF OrderOf
  <2> QED
    BY <1>3, <2>1, <2>7, OneOrder DEF TlsClosed, OthersSame, buffers, peers
<1>4. CASE Dropped(id, Handles(state[id]))
  <2>1. PICK op \in Op \ {"shutdown", "null_write"}, p \in {"ok", "error"} :
          /\ p = "ok" => op \notin Handles(state[id]) \union {"handshake", "resolve"}
          /\ p = "error" => ~Live(id)
          /\ Completed(id, op, p)
          /\ ops' = [ops EXCEPT ![id] = Retire(@, op, p)]
    BY <1>4 DEF Dropped
  <2>2. state[id] = "erased"
    BY <1>0, <2>1, DroppedErased DEF Live, Completed
  <2>3. /\ ops'[id] = Retire(ops[id], op, p)
        /\ \A b \in {"write_server", "write_client"} :
             Retire(ops[id], op, p)[b]["pending"] = ops[id][b]["pending"]
    <3>1. ops'[id] = Retire(ops[id], op, p)
      BY <2>1
    <3> QED
      BY <1>0, <3>1, RetiredWrites
  <2>5. /\ state'[id] = "erased" /\ sock'[id] = sock[id] /\ rbuf'[id] = rbuf[id]
        /\ wbuf'[id] = wbuf[id] /\ taken'[id] = taken[id]
        /\ out'[id] = out[id] /\ transferred'[id] = transferred[id]
    BY <1>4, <2>2 DEF Dropped, buffers, peers
  <2>6. Order("erased", ops'[id], sock[id], rbuf[id], wbuf[id], taken[id], out[id], transferred[id])
    BY <1>0, <2>3, ErasedOrder DEF KnownOf, Known
  <2>4. OrderOf(id)'
    BY <2>5, <2>6 DEF OrderOf
  <2> QED
    BY <1>4, <2>1, <2>4, OneOrder DEF Dropped, OthersSame, buffers, peers
<1>5. CASE AuthRequestRead(id)
  <2>1. PICK method \in {NoAuth, NotSupported} :
          wbuf' = [wbuf EXCEPT ![id]["server"] = Chunk("auth", method)]
    BY <1>5 DEF AuthRequestRead
  <2> DEFINE x == Issue(Retire(ops[id], "read_server", "ok"), "write_server")
             v == [wbuf[id] EXCEPT !["server"] = Chunk("auth", method)]
  <2>2. /\ state'[id] = "connection_request" /\ ops'[id] = x /\ wbuf'[id] = v
        /\ transferred'[id] = transferred[id] /\ sock'[id] = sock[id] /\ rbuf'[id] = rbuf[id]
        /\ taken'[id] = taken[id] /\ out'[id] = out[id]
    BY <1>5, <2>1 DEF AuthRequestRead, Then, peers
  <2>3. Known("auth_request", ops[id], sock[id], rbuf[id], wbuf[id], taken[id], out[id],
              transferred[id])
        /\ ops[id]["read_server"]["ok"] > 0
    BY <1>0, <1>5 DEF AuthRequestRead, Completed, KnownOf
  <2>4. Order("connection_request", x, sock[id], rbuf[id], v, taken[id], out[id], transferred[id])
    BY <2>3, GreetingMoves
  <2>5. OrderOf(id)'
    BY <2>2, <2>4 DEF OrderOf
  <2> QED
    BY <1>5, <2>1, <2>5, OneOrder DEF AuthRequestRead, Then, OthersSame, peers
<1>6. CASE AuthReplyWritten(id)
  <2>1. OrderOf(id)'
    BY <1>0, <1>6, GreetingAnswered
    DEF AuthReplyWritten, Then, Completed, OrderOf, KnownOf, buffers, peers
  <2> QED
    BY <1>6, <2>1, OneOrder DEF AuthReplyWritten, Then, OthersSame, buffers, peers
<1>7. CASE RequestAccepted(id)
  <2>1. OrderOf(id)'
    BY <1>0, <1>7, RequestMoves
    DEF RequestAccepted, Then, Completed, OrderOf, KnownOf, buffers, peers
  <2> QED
    BY <1>7, <2>1, OneOrder DEF RequestAccepted, Then, OthersSame, buffers, peers
<1>8. CASE Connected(id)
  <2>1. OrderOf(id)'
    BY <1>0, <1>8, ConnectTold
    DEF Connected, Then, Completed, OrderOf, KnownOf, peers
  <2> QED
    BY <1>8, <2>1, OneOrder DEF Connected, Then, OthersSame, peers
<1>9. CASE ConnectFailed(id)
  <2>1. PICK op \in ClientOp :
          /\ Completed(id, op, "error")
          /\ \E error \in ErrorsOf(op) :
               wbuf' = [wbuf EXCEPT ![id]["server"] = Chunk("reply", ResponseCode(error))]
          /\ ops' = [ops EXCEPT ![id] = Issue(Retire(@, op, "error"), "write_server")]
    BY <1>9 DEF ConnectFailed
  <2>2. PICK error \in ErrorsOf(op) :
          wbuf' = [wbuf EXCEPT ![id]["server"] = Chunk("reply", ResponseCode(error))]
    BY <2>1
  <2>3. ResponseCode(error) # Succeeded
    BY DEF ResponseCode, Succeeded
  <2> DEFINE n == ResponseCode(error)
             x == Issue(Retire(ops[id], op, "error"), "write_server")
             v == [wbuf[id] EXCEPT !["server"] = Chunk("reply", n)]
  <2>4. /\ state'[id] = "connection_established" /\ ops'[id] = x /\ wbuf'[id] = v
        /\ transferred'[id] = transferred[id] /\ sock'[id] = sock[id] /\ rbuf'[id] = rbuf[id]
        /\ taken'[id] = taken[id] /\ out'[id] = out[id]
    BY <1>9, <2>1, <2>2 DEF ConnectFailed, peers
  <2>5. Known("connection_established", ops[id], sock[id], rbuf[id], wbuf[id], taken[id], out[id],
              transferred[id])
        /\ ops[id][op]["error"] > 0
    BY <1>0, <1>9, <2>1 DEF ConnectFailed, Completed, KnownOf
  <2> HIDE DEF n
  <2>6. Order("connection_established", x, sock[id], rbuf[id], v, taken[id], out[id],
              transferred[id])
    BY <2>3, <2>5, FailureTold DEF n
  <2>7. OrderOf(id)'
    BY <2>4, <2>6 DEF OrderOf
  <2> QED
    BY <1>9, <2>1, <2>2, <2>7, OneOrder DEF ConnectFailed, OthersSame, peers
<1>10. CASE ReplyWritten(id)
  <2>1. OrderOf(id)'
    BY <1>0, <1>10, RelayStarts
    DEF ReplyWritten, Completed, OrderOf, KnownOf, buffers, peers
  <2> QED
    BY <1>10, <2>1, OneOrder DEF ReplyWritten, OthersSame, buffers, peers
<1>11. CASE TransferRead(id, "server")
  <2> DEFINE x == Issue(Retire(ops[id], "read_server", "ok"), "write_client")
             v == [wbuf[id] EXCEPT !["client"] = rbuf[id]["server"]]
             d == [transferred[id] EXCEPT !["client"] = @ + 1]
  <2>1. /\ state'[id] = "data_transfer_mode" /\ ops'[id] = x /\ wbuf'[id] = v
        /\ transferred'[id] = d /\ sock'[id] = sock[id] /\ rbuf'[id] = rbuf[id]
        /\ taken'[id] = taken[id] /\ out'[id] = out[id]
    BY <1>11 DEF TransferRead, Then, ReadOp, WriteOp, Other, peers
  <2>2. Known("data_transfer_mode", ops[id], sock[id], rbuf[id], wbuf[id], taken[id], out[id],
              transferred[id])
        /\ ops[id]["read_server"]["ok"] > 0
    BY <1>0, <1>11 DEF TransferRead, Then, ReadOp, WriteOp, Other, peers, Completed, KnownOf
  <2>3. Order("data_transfer_mode", x, sock[id], rbuf[id], v, taken[id], out[id], d)
    BY <2>2, ServerRelayed
  <2>4. OrderOf(id)'
    BY <2>1, <2>3 DEF OrderOf
  <2> QED
    BY <1>11, <2>4, OneOrder DEF TransferRead, Then, ReadOp, WriteOp, Other, peers, OthersSame
<1>12. CASE TransferRead(id, "client")
  <2> DEFINE x == Issue(Retire(ops[id], "read_client", "ok"), "write_server")
             v == [wbuf[id] EXCEPT !["server"] = rbuf[id]["client"]]
             d == [transferred[id] EXCEPT !["server"] = @ + 1]
  <2>1. /\ state'[id] = "data_transfer_mode" /\ ops'[id] = x /\ wbuf'[id] = v
        /\ transferred'[id] = d /\ sock'[id] = sock[id] /\ rbuf'[id] = rbuf[id]
        /\ taken'[id] = taken[id] /\ out'[id] = out[id]
    BY <1>12 DEF TransferRead, Then, ReadOp, WriteOp, Other, peers
  <2>2. Known("data_transfer_mode", ops[id], sock[id], rbuf[id], wbuf[id], taken[id], out[id],
              transferred[id])
        /\ ops[id]["read_client"]["ok"] > 0
    BY <1>0, <1>12 DEF TransferRead, Then, ReadOp, WriteOp, Other, peers, Completed, KnownOf
  <2>3. Order("data_transfer_mode", x, sock[id], rbuf[id], v, taken[id], out[id], d)
    BY <2>2, ClientRelayed
  <2>4. OrderOf(id)'
    BY <2>1, <2>3 DEF OrderOf
  <2> QED
    BY <1>12, <2>4, OneOrder DEF TransferRead, Then, ReadOp, WriteOp, Other, peers, OthersSame
<1>13. CASE TransferWritten(id, "server")
  <2>1. OrderOf(id)'
    BY <1>0, <1>13, ServerWritten
    DEF TransferWritten, Then, ReadOp, WriteOp, Other, Completed, OrderOf, KnownOf, buffers, peers
  <2> QED
    BY <1>13, <2>1, OneOrder DEF TransferWritten, Then, OthersSame, buffers, peers
<1>14. CASE TransferWritten(id, "client")
  <2>1. OrderOf(id)'
    BY <1>0, <1>14, ClientWritten
    DEF TransferWritten, Then, ReadOp, WriteOp, Other, Completed, OrderOf, KnownOf, buffers, peers
  <2> QED
    BY <1>14, <2>1, OneOrder DEF TransferWritten, Then, OthersSame, buffers, peers
<1>15. CASE RequestRejected(id) \/ ErrorReplyWritten(id) \/ ServerError(id) \/ ClientError(id)
  <2>1. PICK op \in Op, p \in {"ok", "error"} : Completed(id, op, p) /\ Stop(id, op, p)
    BY <1>15, OpNames DEF RequestRejected, ErrorReplyWritten, ServerError, ClientError
  <2> QED
    BY <2>1, StopOrder
<1> QED
  BY <1>1, <1>2, <1>3, <1>4, <1>5, <1>6, <1>7, <1>8, <1>9, <1>10, <1>11, <1>12, <1>13, <1>14,
     <1>15 DEF Dispatch, Side

LEMMA AcceptOrder ==
    ASSUME OInv, Accept("auth_request")
    PROVE  \A i \in Ids : OrderOf(i)'
<1> USE DEF OInv, IInv, TypeOK
<1> USE Names
<1> SUFFICES ASSUME NEW id \in Ids, id = stream_id
             PROVE  \A i \in Ids : OrderOf(i)'
  BY DEF Accept
<1> DEFINE first == IF Tls THEN "handshake" ELSE "read_server"
           x == Issue(ops[id], first)
           l == [sock[id] EXCEPT !["server"] = "open"]
<1>1. state[id] = "absent" /\ ops[id] = Idle
  BY DEF Accept, FreshId
<1>2. /\ state'[id] = "auth_request" /\ ops'[id] = x /\ sock'[id] = l /\ rbuf'[id] = rbuf[id]
      /\ wbuf'[id] = wbuf[id] /\ taken'[id] = taken[id] /\ out'[id] = out[id]
      /\ transferred'[id] = transferred[id]
  BY <1>1 DEF Accept, buffers, peers
<1>3. OthersSame(id)
  BY <1>1 DEF Accept, OthersSame, buffers, peers
<1>4. l["client"] = sock[id]["client"]
  BY <1>1
<1>5. /\ x["read_server"]["ok"] = 0 /\ x["write_server"]["pending"] = 0
      /\ x["write_client"]["pending"] = 0
  <2>1. Idle \in OpsType /\ first \in Op /\ first \notin {"write_server", "write_client"}
    BY DEF Idle, OpsType
  <2>2. /\ Idle["read_server"]["ok"] = 0 /\ Idle["write_server"]["pending"] = 0
        /\ Idle["write_client"]["pending"] = 0
    BY DEF Idle, Phase
  <2> HIDE DEF first
  <2>3. /\ Issue(Idle, first)["read_server"]["ok"] = Idle["read_server"]["ok"]
        /\ Issue(Idle, first)["write_server"]["pending"] = Idle["write_server"]["pending"]
        /\ Issue(Idle, first)["write_client"]["pending"] = Idle["write_client"]["pending"]
    BY <2>1, IssueAt
  <2> QED
    BY <1>1, <2>2, <2>3
<1>6. Order(state[id], ops[id], sock[id], rbuf[id], wbuf[id], taken[id], out[id], transferred[id])
  BY <1>1 DEF OrderOf
<1> HIDE DEF x, l
<1>7. Order("auth_request", x, l, rbuf[id], wbuf[id], taken[id], out[id], transferred[id])
  BY <1>1, <1>4, <1>5, <1>6
  DEF Order, Truthful, Told, DueRemote, DueLocal, Counted, Nothing
<1>8. OrderOf(id)'
  BY <1>2, <1>7 DEF OrderOf
<1> QED
  BY <1>3, <1>8, OneOrder

LEMMA NextOrder == OInv /\ [Next]_vars => OInv'
<1> SUFFICES ASSUME OInv, [Next]_vars PROVE OInv'
  OBVIOUS
<1>1. IInv'
  BY NextShape DEF OInv
<1>2. CASE AcceptError \/ Signal \/ UNCHANGED vars
  BY <1>1, <1>2 DEF AcceptError, Signal, vars, OInv, OrderOf, buffers, peers
<1>3. CASE ~(AcceptError \/ Signal \/ UNCHANGED vars)
  <2>1. \A i \in Ids : OrderOf(i)'
    BY <1>3, KernelOrder, DispatchOrder, AcceptOrder DEF Next
  <2> QED
    BY <1>1, <2>1 DEF OInv
<1> QED
  BY <1>2, <1>3

LEMMA OrderAlways == Spec => []OInv
BY InitOrder, NextOrder, PTL DEF Spec

----
(* What Order says in the words of Socks5.                                 *)
LEMMA OrderFacts ==
    ASSUME OInv
    PROVE  RemoteInOrder /\ LocalInOrder /\ ReplyTruthful
<1>1. \A id \in Ids : /\ SentRemote(out[id]) /\ SentLocal(out[id])
                      /\ Truthful(sock[id], out[id])
  BY DEF OInv, OrderOf, Order
<1>2. RemoteInOrder
  BY <1>1 DEF SentRemote, RemoteInOrder
<1>3. LocalInOrder
  <2> SUFFICES ASSUME NEW id \in Ids, NEW i \in DOMAIN out[id]["server"]
               PROVE  LET chunk == out[id]["server"][i]
                      IN  CASE i = 1 -> chunk.kind = "auth"
                            [] i = 2 -> chunk.kind = "reply"
                            [] OTHER -> /\ chunk = Chunk("client", i - 2)
                                        /\ out[id]["server"][2].n = Succeeded
    BY DEF LocalInOrder
  <2>1. i \in Nat /\ i >= 1
    <3>1. out[id] \in [Side -> Seq(Chunks)]
      BY DEF OInv, IInv, TypeOK
    <3>2. out[id]["server"] \in Seq(Chunks)
      BY <3>1, Names
    <3> QED
      BY <3>2
  <2>2. /\ i = 1 => out[id]["server"][i].kind = "auth"
        /\ i = 2 => out[id]["server"][i].kind = "reply"
        /\ i > 2 => /\ out[id]["server"][i] = Chunk("client", i - 2)
                    /\ out[id]["server"][2].n = Succeeded
    BY <1>1 DEF SentLocal
  <2>3. i = 1 \/ i = 2 \/ i > 2
    BY <2>1
  <2>4. CASE i = 1
    BY <2>2, <2>4
  <2>5. CASE i = 2
    BY <2>2, <2>5
  <2>6. CASE i > 2
    <3>1. i # 1 /\ i # 2
      BY <2>1, <2>6
    <3> QED
      BY <2>2, <2>6, <3>1
  <2> QED
    BY <2>3, <2>4, <2>5, <2>6
<1>4. ReplyTruthful
  BY <1>1 DEF Truthful, Told, ReplyTruthful
<1> QED
  BY <1>2, <1>3, <1>4

LEMMA CountFacts ==
    ASSUME OInv
    PROVE  NothingLostOnEof /\ Accounting
<1> SUFFICES ASSUME NEW id \in Ids, state[id] = "data_transfer_mode"
             PROVE  /\ ops[id]["read_client"]["error"] > 0 =>
                         Len(out[id]["server"]) = 2 + taken[id]["client"]
                    /\ ops[id]["read_server"]["error"] > 0 =>
                         Len(out[id]["client"]) + 2 = taken[id]["server"]
                    /\ transferred[id]["client"] = Len(out[id]["client"])
                         + ops[id]["write_client"]["pending"] + ops[id]["write_client"]["error"]
                    /\ transferred[id]["server"] = Len(out[id]["server"]) - 2
                         + ops[id]["write_server"]["pending"] + ops[id]["write_server"]["error"]
  BY DEF NothingLostOnEof, Accounting
<1> DEFINE o == ops[id]  k == sock[id]  r == rbuf[id]  w == wbuf[id]
           t == taken[id]  u == out[id]  c == transferred[id]
<1>1. Known("data_transfer_mode", o, k, r, w, t, u, c)
  BY Facts DEF KnownOf
<1> HIDE DEF o, k, r, w, t, u, c
<1>2. Transferring(o, k, t, u, c)
  BY <1>1, KnownCounted DEF Counted
<1>3. /\ t["server"] \in Nat /\ t["client"] \in Nat
      /\ c["server"] \in Nat /\ c["client"] \in Nat
      /\ Len(u["server"]) \in Nat /\ Len(u["client"]) \in Nat
      /\ o["read_server"]["ok"] \in Nat /\ o["read_client"]["ok"] \in Nat
  BY <1>1, KnownCounted
<1>5. ASSUME o["read_client"]["error"] > 0
      PROVE  Len(u["server"]) = 2 + t["client"]
  <2>1. Single(o, "read_client") /\ Single(o, "write_server")
    BY <1>1 DEF Known
  <2>2. o["read_client"]["ok"] = 0 /\ Out(o, "read_client") = 1
    BY <1>5, <2>1, OneFailed
  <2>3. Unsent(o, "write_server") = 0
    BY <1>1, <2>1, <2>2, Turns, NoneLeft
  <2>4. t["client"] = Len(u["server"]) - 2 + 0 + 0
    BY <1>2, <2>2, <2>3 DEF Transferring
  <2> QED
    BY <1>3, <2>4
<1>6. ASSUME o["read_server"]["error"] > 0
      PROVE  Len(u["client"]) + 2 = t["server"]
  <2>1. Single(o, "read_server") /\ Single(o, "write_client")
    BY <1>1 DEF Known
  <2>2. o["read_server"]["ok"] = 0 /\ Out(o, "read_server") = 1
    BY <1>6, <2>1, OneFailed
  <2>3. Unsent(o, "write_client") = 0
    BY <1>1, <2>1, <2>2, Turns, NoneLeft
  <2>4. t["server"] = 2 + Len(u["client"]) + 0 + 0
    BY <1>2, <2>2, <2>3 DEF Transferring
  <2> QED
    BY <1>3, <2>4
<1>7. Single(o, "write_client") /\ Single(o, "write_server")
  BY <1>1 DEF Known
<1>8. c["client"] = Len(u["client"]) + o["write_client"]["pending"] + o["write_client"]["error"]
  <2> DEFINE l == Len(u["client"])
             a == o["read_server"]["ok"]
             p == o["write_client"]["pending"]
             e == o["write_client"]["error"]
             x == c["client"]
  <2>1. l \in Nat /\ a \in Nat /\ p \in Nat /\ e \in Nat
    BY <1>3, <1>7 DEF Single
  <2>2. x = (2 + l + a + (p + e)) - 2 - a
    BY <1>2 DEF Transferring, Unsent
  <2> HIDE DEF l, a, p, e, x
  <2>3. x = l + p + e
    BY <2>1, <2>2
  <2> QED
    BY <2>3 DEF l, a, p, e, x
<1>9. c["server"] = Len(u["server"]) - 2 + o["write_server"]["pending"] + o["write_server"]["error"]
  <2> DEFINE l == Len(u["server"])
             a == o["read_client"]["ok"]
             p == o["write_server"]["pending"]
             e == o["write_server"]["error"]
             x == c["server"]
  <2>1. l \in Nat /\ a \in Nat /\ p \in Nat /\ e \in Nat
    BY <1>3, <1>7 DEF Single
  <2>2. x = (l - 2 + a + (p + e)) - a
    BY <1>2 DEF Transferring, Unsent
  <2> HIDE DEF l, a, p, e, x
  <2>3. x = l - 2 + p + e
    BY <2>1, <2>2
  <2> QED
    BY <2>3 DEF l, a, p, e, x
<1> QED
  BY <1>5, <1>6, <1>8, <1>9 DEF o, k, r, w, t, u, c

(* The remote host is sent every message of the local peer that follows    *)
(* the request, each once and in the order it was sent: two buffers and    *)
(* alternating reads and writes never repeat, skip or swap one.            *)
THEOREM RemoteHearsInOrder == Spec => []RemoteInOrder
BY OrderAlways, OrderFacts, PTL

(* The local peer is sent the answer to its greeting, one reply, and, only *)
(* after a reply that tells success, the remote host's messages in order.  *)
THEOREM LocalHearsInOrder == Spec => []LocalInOrder
BY OrderAlways, OrderFacts, PTL

(* A reply tells success exactly when the client socket was opened, and    *)
(* nothing is sent to the remote host of a session told of a failure.      *)
THEOREM RepliesAreTrue == Spec => []ReplyTruthful
BY OrderAlways, OrderFacts, PTL

(* An end of file or an error of one peer is handled when all that this    *)
(* peer sent has been delivered: do_stop then loses none of it.            *)
THEOREM EofLosesNothing == Spec => []NothingLostOnEof
BY OrderAlways, CountFacts, PTL

(* The byte counters of a relaying session exceed what was delivered by    *)
(* the write under way, or the one that failed, and by nothing else.       *)
THEOREM CountersAreExact == Spec => []Accounting
BY OrderAlways, CountFacts, PTL
====
