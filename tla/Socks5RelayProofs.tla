---- MODULE Socks5RelayProofs ----
(***************************************************************************)
(* A SOCKS5 session implements Relay, for any number of sessions and of    *)
(* messages.  Order of Socks5Proofs says what a live session holds; a      *)
(* session that was erased while its operations were under way may still   *)
(* take or deliver the message they carry, and Pumps says which one.       *)
(***************************************************************************)
EXTENDS Socks5Relay, Socks5Proofs

(* An operation of a relaying direction that is under way: the reader has  *)
(* nothing in its hand, the writer one message.                            *)
Pumps(o, t, u) ==
    /\ o["read_server"]["pending"] > 0 => Beyond(t["server"]) = Len(u["client"])
    /\ o["write_client"]["pending"] > 0 => Beyond(t["server"]) = Len(u["client"]) + 1
    /\ o["read_client"]["pending"] > 0 =>
         Len(u["server"]) >= 2 /\ t["client"] = Len(u["server"]) - 2
    /\ o["write_server"]["pending"] > 0 /\ Len(u["server"]) >= 2 =>
         t["client"] = Len(u["server"]) - 1

PumpsOf(id) == Pumps(ops[id], taken[id], out[id])
Pumped == \A id \in Ids : PumpsOf(id)

(* A live session holds what Order counts.                                 *)
LEMMA LivePumps ==
    ASSUME NEW s, NEW o, NEW k, NEW r, NEW w, NEW t, NEW u, NEW c,
           Known(s, o, k, r, w, t, u, c), s # "erased"
    PROVE  Pumps(o, t, u)
<1>1. /\ Single(o, "read_server") /\ Single(o, "write_server")
      /\ Single(o, "read_client") /\ Single(o, "write_client")
  BY DEF Known
<1>2. /\ Counted(s, o, k, t, u, c)
      /\ t["server"] \in Nat /\ t["client"] \in Nat
      /\ Len(u["server"]) \in Nat /\ Len(u["client"]) \in Nat
  BY KnownCounted
<1>3. ASSUME o["read_server"]["pending"] > 0
      PROVE  Beyond(t["server"]) = Len(u["client"])
  <2>1. o["read_server"]["ok"] = 0 /\ Out(o, "read_server") = 1
    BY <1>1, <1>3, OnePending
  <2>2. s \in {"auth_request", "connection_request", "data_transfer_mode"}
    BY <2>1, KnownShape
  <2>3. CASE s = "auth_request"
    <3>1. t["server"] = 0 /\ u["client"] = <<>>
      BY <1>2, <2>1, <2>3 DEF Counted, Nothing
    <3> QED
      BY <3>1 DEF Beyond
  <2>4. CASE s = "connection_request"
    <3>1. t["server"] = 1 + 0 /\ u["client"] = <<>>
      BY <1>2, <2>1, <2>4 DEF Counted, Nothing
    <3> QED
      BY <3>1 DEF Beyond
  <2>5. CASE s = "data_transfer_mode"
    <3>1. Unsent(o, "write_client") = 0
      BY <1>1, <2>1, <2>5, Turns, NoneLeft
    <3>2. t["server"] = 2 + Len(u["client"]) + 0 + 0
      BY <1>2, <2>1, <2>5, <3>1 DEF Counted, Transferring
    <3> DEFINE n == t["server"]
               m == Len(u["client"])
    <3>3. n = 2 + m /\ n \in Nat /\ m \in Nat
      BY <1>2, <3>2
    <3> HIDE DEF n, m
    <3>4. Beyond(n) = m
      BY <3>3 DEF Beyond
    <3> QED
      BY <3>4 DEF n, m
  <2> QED
    BY <2>2, <2>3, <2>4, <2>5
<1>4. ASSUME o["write_client"]["pending"] > 0
      PROVE  Beyond(t["server"]) = Len(u["client"]) + 1
  <2>1. Unsent(o, "write_client") = 1 /\ Out(o, "write_client") = 1
    BY <1>1, <1>4, OnePending
  <2>2. s = "data_transfer_mode"
    BY <2>1, KnownShape
  <2>3. o["read_server"]["ok"] = 0
    BY <1>1, <2>1, <2>2, Turns, NoneLeft
  <2>4. t["server"] = 2 + Len(u["client"]) + 0 + 1
    BY <1>2, <2>1, <2>2, <2>3 DEF Counted, Transferring
  <2> DEFINE n == t["server"]
             m == Len(u["client"])
  <2>5. n = 2 + m + 1 /\ n \in Nat /\ m \in Nat
    BY <1>2, <2>4
  <2> HIDE DEF n, m
  <2>6. Beyond(n) = m + 1
    BY <2>5 DEF Beyond
  <2> QED
    BY <2>6 DEF n, m
<1>5. ASSUME o["read_client"]["pending"] > 0
      PROVE  Len(u["server"]) >= 2 /\ t["client"] = Len(u["server"]) - 2
  <2>1. o["read_client"]["ok"] = 0 /\ Out(o, "read_client") = 1
    BY <1>1, <1>5, OnePending
  <2>2. s = "data_transfer_mode"
    BY <2>1, KnownShape
  <2>3. Unsent(o, "write_server") = 0
    BY <1>1, <2>1, <2>2, Turns, NoneLeft
  <2>4. t["client"] = Len(u["server"]) - 2 + 0 + 0 /\ Len(u["server"]) >= 2
    BY <1>2, <2>1, <2>2, <2>3 DEF Counted, Transferring
  <2> QED
    BY <1>2, <2>4
<1>6. ASSUME o["write_server"]["pending"] > 0, Len(u["server"]) >= 2
      PROVE  t["client"] = Len(u["server"]) - 1
  <2>1. /\ Unsent(o, "write_server") = 1 /\ Out(o, "write_server") = 1
        /\ o["write_server"]["ok"] = 0
    BY <1>1, <1>6, OnePending
  <2>2. s \in {"connection_request", "connection_established",
               "ready_to_transfer_data", "data_transfer_mode"}
    BY <2>1, KnownShape
  <2>3. s # "connection_request"
    <3>1. s = "connection_request" => Len(u["server"]) = 1 - 1
      BY <1>2, <2>1 DEF Counted
    <3> QED
      BY <1>6, <3>1
  <2>4. s # "connection_established"
    <3>1. s = "connection_established" => Len(u["server"]) = 1
      <4>1. s = "connection_established" => Len(u["server"]) = 1 + 0
        BY <1>2, <2>1 DEF Counted
      <4> QED
        BY <4>1
    <3>2. Len(u["server"]) # 1
      <4> DEFINE m == Len(u["server"])
      <4>1. m >= 2 /\ m \in Nat
        BY <1>2, <1>6
      <4> HIDE DEF m
      <4>2. m # 1
        BY <4>1
      <4> QED
        BY <4>2 DEF m
    <3> QED
      BY <3>1, <3>2
  <2>5. s # "ready_to_transfer_data"
    <3>1. s = "ready_to_transfer_data" => Len(u["server"]) = 1
      <4>1. s = "ready_to_transfer_data" => Len(u["server"]) = 2 - 1
        BY <1>2, <2>1 DEF Counted
      <4> QED
        BY <4>1
    <3>2. Len(u["server"]) # 1
      <4> DEFINE m == Len(u["server"])
      <4>1. m >= 2 /\ m \in Nat
        BY <1>2, <1>6
      <4> HIDE DEF m
      <4>2. m # 1
        BY <4>1
      <4> QED
        BY <4>2 DEF m
    <3> QED
      BY <3>1, <3>2
  <2>6. s = "data_transfer_mode"
    BY <2>2, <2>3, <2>4, <2>5
  <2>7. o["read_client"]["ok"] = 0
    BY <1>1, <2>1, <2>6, Turns, NoneLeft
  <2>8. t["client"] = Len(u["server"]) - 2 + 0 + 1
    BY <1>2, <2>1, <2>6, <2>7 DEF Counted, Transferring
  <2> QED
    BY <1>2, <2>8
<1> QED
  BY <1>3, <1>4, <1>5, <1>6 DEF Pumps

----
(* What a step leaves alone.                                               *)
LEMMA KernelAlone ==
    ASSUME OInv, NEW id \in Ids, Kernel(id)
    PROVE  /\ state' = state
           /\ \A i \in Ids \ {id} : /\ ops'[i] = ops[i] /\ taken'[i] = taken[i]
                                    /\ out'[i] = out[i]
<1> USE DEF OInv, IInv, TypeOK
<1>1. ASSUME NEW side \in Side, Receive(id, side) \/ Send(id, side)
      PROVE  /\ state' = state
             /\ \A i \in Ids \ {id} : /\ ops'[i] = ops[i] /\ taken'[i] = taken[i]
                                      /\ out'[i] = out[i]
  BY <1>1 DEF Receive, Send
<1>2. ASSUME NEW op \in Op, Succeed(id, op) \/ Fail(id, op)
      PROVE  /\ state' = state
             /\ \A i \in Ids \ {id} : /\ ops'[i] = ops[i] /\ taken'[i] = taken[i]
                                      /\ out'[i] = out[i]
  BY <1>2 DEF Succeed, Fail, peers
<1> QED
  BY <1>1, <1>2 DEF Kernel

LEMMA DispatchAlone ==
    ASSUME OInv, NEW id \in Ids, Dispatch(id)
    PROVE  /\ taken' = taken /\ out' = out
           /\ \A i \in Ids \ {id} : state'[i] = state[i] /\ ops'[i] = ops[i]
<1> USE DEF OInv, IInv, TypeOK, Stop, Then, peers
<1>1. CASE Handshaken(id) \/ Resolved(id) \/ TlsClosed(id) \/ Dropped(id, Handles(state[id]))
  BY <1>1 DEF Handshaken, Resolved, TlsClosed, Dropped
<1>2. CASE AuthRequestRead(id) \/ AuthReplyWritten(id) \/ RequestAccepted(id) \/ RequestRejected(id)
  BY <1>2 DEF AuthRequestRead, AuthReplyWritten, RequestAccepted, RequestRejected
<1>3. CASE Connected(id) \/ ConnectFailed(id) \/ ErrorReplyWritten(id) \/ ReplyWritten(id)
  BY <1>3 DEF Connected, ConnectFailed, ErrorReplyWritten, ReplyWritten
<1>4. ASSUME NEW side \in Side, TransferRead(id, side) \/ TransferWritten(id, side)
      PROVE  /\ taken' = taken /\ out' = out
             /\ \A i \in Ids \ {id} : state'[i] = state[i] /\ ops'[i] = ops[i]
  BY <1>4 DEF TransferRead, TransferWritten
<1>5. CASE ServerError(id) \/ ClientError(id)
  BY <1>5 DEF ServerError, ClientError
<1> QED
  BY <1>1, <1>2, <1>3, <1>4, <1>5 DEF Dispatch

LEMMA FewerPumps ==
    ASSUME NEW o, NEW x, NEW t, NEW u, Pumps(o, t, u),
           \A b \in Carriers : x[b]["pending"] = o[b]["pending"]
    PROVE  Pumps(x, t, u)
BY DEF Pumps, Carriers

(* A handler that leaves or finds the session erased starts no carrier.    *)
LEMMA DispatchPumps ==
    ASSUME OInv, Pumped, NEW id \in Ids, Dispatch(id), state'[id] = "erased"
    PROVE  PumpsOf(id)'
<1> USE DEF OInv, IInv, TypeOK
<1> USE Names
<1>0. ops[id] \in OpsType /\ PumpsOf(id)
  BY DEF OpsType, Pumped
<1>1. ASSUME NEW op \in Op, NEW p \in {"ok", "error"}, Completed(id, op, p),
             \/ ops' = [ops EXCEPT ![id] = Retire(@, op, p)]
             \/ Stop(id, op, p)
      PROVE  PumpsOf(id)'
  <2>1. ops[id][op][p] > 0
    BY <1>1 DEF Completed
  <2>2. Retire(ops[id], op, p) \in OpsType
    BY <1>0, <2>1, RetireOut
  <2>3. \/ ops'[id] = Retire(ops[id], op, p)
        \/ ops'[id] = StopOps(Retire(ops[id], op, p), sock[id])
    BY <1>1 DEF Stop
  <2>4. \A b \in Carriers : Retire(ops[id], op, p)[b]["pending"] = ops[id][b]["pending"]
    <3> SUFFICES ASSUME NEW b \in Carriers
                 PROVE  Retire(ops[id], op, p)[b]["pending"] = ops[id][b]["pending"]
      OBVIOUS
    <3> DEFINE o == ops[id]
    <3>1. b \in Op /\ o \in OpsType
      BY <1>0 DEF Carriers
    <3>2. op \in Op /\ p \in {"ok", "error"}
      BY <1>1
    <3> HIDE DEF o
    <3>3. Retire(o, op, p)[b]["pending"] = o[b]["pending"]
      BY <3>1, <3>2, RetiredPending
    <3> QED
      BY <3>3 DEF o
  <2>5. \A b \in Carriers : ops'[id][b]["pending"] = ops[id][b]["pending"]
    <3> DEFINE x == Retire(ops[id], op, p)
               z == sock[id]
    <3> HIDE DEF x, z
    <3>1. \A b \in Carriers : StopOps(x, z)[b]["pending"] = x[b]["pending"]
      BY <2>2, StoppedPending DEF x
    <3> QED
      BY <2>3, <2>4, <3>1 DEF x, z
  <2>6. Pumps(ops'[id], taken[id], out[id])
    BY <1>0, <2>5, FewerPumps DEF PumpsOf
  <2> QED
    BY <2>6, DispatchAlone DEF PumpsOf
<1>2. CASE TlsClosed(id)
  BY <1>1, <1>2 DEF TlsClosed
<1>3. CASE Dropped(id, Handles(state[id]))
  BY <1>1, <1>3 DEF Dropped
<1>4. CASE RequestRejected(id) \/ ErrorReplyWritten(id) \/ ServerError(id) \/ ClientError(id)
  <2>1. PICK op \in Op, p \in {"ok", "error"} : Completed(id, op, p) /\ Stop(id, op, p)
    BY <1>4, OpNames DEF RequestRejected, ErrorReplyWritten, ServerError, ClientError
  <2> QED
    BY <1>1, <2>1
<1>5. CASE Handshaken(id) \/ Resolved(id)
  <2>1. PICK op \in {"handshake", "resolve"} : ops[id][op]["ok"] > 0
    BY <1>5 DEF Handshaken, Resolved, Completed
  <2>2. state[id] = "erased"
    BY <1>5 DEF Handshaken, Resolved
  <2>3. Out(ops[id], op) = 0
    BY <2>1, <2>2, ShapeFacts DEF Shape
  <2>4. Out(ops[id], op) >= 1 /\ Out(ops[id], op) \in Nat
    BY <1>0, <2>1, RetireOut, OutNat
  <2> QED
    BY <2>3, <2>4
<1>6. CASE AuthRequestRead(id) \/ AuthReplyWritten(id) \/ RequestAccepted(id) \/ Connected(id)
           \/ ConnectFailed(id) \/ ReplyWritten(id)
  BY <1>6 DEF AuthRequestRead, AuthReplyWritten, RequestAccepted, Connected, ConnectFailed,
     ReplyWritten
<1>7. ASSUME NEW side \in Side, TransferRead(id, side) \/ TransferWritten(id, side)
      PROVE  FALSE
  BY <1>7 DEF TransferRead, TransferWritten
<1> QED
  BY <1>2, <1>3, <1>4, <1>5, <1>6, <1>7 DEF Dispatch

(* One of the two carriers of a direction at a time, also once erased.     *)
LEMMA ErasedTurns ==
    ASSUME NEW o, NEW k, NEW r, NEW w, NEW t, NEW u, NEW c,
           Known("erased", o, k, r, w, t, u, c)
    PROVE  /\ o["read_server"]["pending"] > 0 => o["write_client"]["pending"] = 0
           /\ o["write_client"]["pending"] > 0 => o["read_server"]["pending"] = 0
           /\ o["read_client"]["pending"] > 0 => o["write_server"]["pending"] = 0
           /\ o["write_server"]["pending"] > 0 => o["read_client"]["pending"] = 0
<1>1. /\ Single(o, "read_server") /\ Single(o, "write_server")
      /\ Single(o, "read_client") /\ Single(o, "write_client")
  BY DEF Known
<1>2. /\ Out(o, "read_server") + Out(o, "write_client") <= 1
      /\ Out(o, "read_client") + Out(o, "write_server") <= 1
  BY DEF Known, Shape
<1>3. ASSUME NEW a, NEW b, Single(o, a), Single(o, b), Out(o, a) + Out(o, b) <= 1,
             o[a]["pending"] > 0
      PROVE  o[b]["pending"] = 0
  <2>1. Out(o, a) = 1
    BY <1>3, OnePending
  <2>2. Out(o, b) \in Nat
    BY <1>3 DEF Single
  <2>3. Out(o, b) = 0
    BY <1>3, <2>1, <2>2
  <2> QED
    BY <1>3, <2>3, NonePending
<1>4. /\ Out(o, "write_client") + Out(o, "read_server") <= 1
      /\ Out(o, "write_server") + Out(o, "read_client") <= 1
  BY <1>1, <1>2 DEF Single
<1> QED
  BY <1>1, <1>2, <1>3, <1>4

(* The kernel finishes an operation of an erased session: nothing of that  *)
(* direction is under way any more.                                        *)
LEMMA ErasedSettles ==
    ASSUME NEW o, NEW k, NEW r, NEW w, NEW t, NEW u, NEW c,
           Known("erased", o, k, r, w, t, u, c), Pumps(o, t, u)
    PROVE  /\ o["read_server"]["pending"] > 0 =>
                Pumps(Settle(o, "read_server", "ok"), [t EXCEPT !["server"] = @ + 1], u)
           /\ o["read_client"]["pending"] > 0 =>
                Pumps(Settle(o, "read_client", "ok"), [t EXCEPT !["client"] = @ + 1], u)
           /\ o["write_client"]["pending"] > 0 =>
                Pumps(Settle(o, "write_client", "ok"), t,
                      [u EXCEPT !["client"] = Append(@, w["client"])])
           /\ o["write_server"]["pending"] > 0 =>
                Pumps(Settle(o, "write_server", "ok"), t,
                      [u EXCEPT !["server"] = Append(@, w["server"])])
<1> USE Names
<1>1. /\ Single(o, "read_server") /\ Single(o, "write_server")
      /\ Single(o, "read_client") /\ Single(o, "write_client") /\ o \in OpsType
      /\ DOMAIN t = Side /\ DOMAIN u = Side
  BY DEF Known
<1>2. ASSUME NEW a \in Carriers, Single(o, a), o[a]["pending"] > 0
      PROVE  /\ Settle(o, a, "ok")[a]["pending"] = 0
             /\ \A b \in Carriers \ {a} : Settle(o, a, "ok")[b]["pending"] = o[b]["pending"]
  <2>1. a \in Op /\ Carriers \subseteq Op /\ o[a]["pending"] = 1
    BY <1>2, OnePending DEF Carriers
  <2>2. /\ \A b \in Op \ {a}, q \in Phase : Settle(o, a, "ok")[b][q] = o[b][q]
        /\ Settle(o, a, "ok")[a]["pending"] = o[a]["pending"] - 1
    BY <1>1, <2>1, SettleAt
  <2> QED
    BY <2>1, <2>2 DEF Phase
<1>3. ASSUME o["read_server"]["pending"] > 0
      PROVE  Pumps(Settle(o, "read_server", "ok"), [t EXCEPT !["server"] = @ + 1], u)
  <2> DEFINE x == Settle(o, "read_server", "ok")
             v == [t EXCEPT !["server"] = @ + 1]
  <2>1. /\ x["read_server"]["pending"] = 0
        /\ x["write_client"]["pending"] = o["write_client"]["pending"]
        /\ x["read_client"]["pending"] = o["read_client"]["pending"]
        /\ x["write_server"]["pending"] = o["write_server"]["pending"]
    BY <1>1, <1>2, <1>3 DEF Carriers
  <2>2. o["write_client"]["pending"] = 0 /\ v["client"] = t["client"]
    BY <1>1, <1>3, ErasedTurns
  <2> HIDE DEF x, v
  <2>3. Pumps(x, v, u)
    BY <2>1, <2>2 DEF Pumps
  <2> QED
    BY <2>3 DEF x, v
<1>4. ASSUME o["read_client"]["pending"] > 0
      PROVE  Pumps(Settle(o, "read_client", "ok"), [t EXCEPT !["client"] = @ + 1], u)
  <2> DEFINE x == Settle(o, "read_client", "ok")
             v == [t EXCEPT !["client"] = @ + 1]
  <2>1. /\ x["read_client"]["pending"] = 0
        /\ x["write_client"]["pending"] = o["write_client"]["pending"]
        /\ x["read_server"]["pending"] = o["read_server"]["pending"]
        /\ x["write_server"]["pending"] = o["write_server"]["pending"]
    BY <1>1, <1>2, <1>4 DEF Carriers
  <2>2. o["write_server"]["pending"] = 0 /\ v["server"] = t["server"]
    BY <1>1, <1>4, ErasedTurns
  <2> HIDE DEF x, v
  <2>3. Pumps(x, v, u)
    BY <2>1, <2>2 DEF Pumps
  <2> QED
    BY <2>3 DEF x, v
<1>5. ASSUME o["write_client"]["pending"] > 0
      PROVE  Pumps(Settle(o, "write_client", "ok"), t,
                   [u EXCEPT !["client"] = Append(@, w["client"])])
  <2> DEFINE x == Settle(o, "write_client", "ok")
             v == [u EXCEPT !["client"] = Append(@, w["client"])]
  <2>1. /\ x["write_client"]["pending"] = 0
        /\ x["read_server"]["pending"] = o["read_server"]["pending"]
        /\ x["read_client"]["pending"] = o["read_client"]["pending"]
        /\ x["write_server"]["pending"] = o["write_server"]["pending"]
    BY <1>1, <1>2, <1>5 DEF Carriers
  <2>2. o["read_server"]["pending"] = 0 /\ v["server"] = u["server"]
    BY <1>1, <1>5, ErasedTurns
  <2> HIDE DEF x, v
  <2>3. Pumps(x, t, v)
    BY <2>1, <2>2 DEF Pumps
  <2> QED
    BY <2>3 DEF x, v
<1>6. ASSUME o["write_server"]["pending"] > 0
      PROVE  Pumps(Settle(o, "write_server", "ok"), t,
                   [u EXCEPT !["server"] = Append(@, w["server"])])
  <2> DEFINE x == Settle(o, "write_server", "ok")
             v == [u EXCEPT !["server"] = Append(@, w["server"])]
  <2>1. /\ x["write_server"]["pending"] = 0
        /\ x["read_server"]["pending"] = o["read_server"]["pending"]
        /\ x["read_client"]["pending"] = o["read_client"]["pending"]
        /\ x["write_client"]["pending"] = o["write_client"]["pending"]
    BY <1>1, <1>2, <1>6 DEF Carriers
  <2>2. o["read_client"]["pending"] = 0 /\ v["client"] = u["client"]
    BY <1>1, <1>6, ErasedTurns
  <2> HIDE DEF x, v
  <2>3. Pumps(x, t, v)
    BY <2>1, <2>2 DEF Pumps
  <2> QED
    BY <2>3 DEF x, v
<1> QED
  BY <1>3, <1>4, <1>5, <1>6

LEMMA KernelPumps ==
    ASSUME OInv, Pumped, NEW id \in Ids, Kernel(id), state[id] = "erased"
    PROVE  PumpsOf(id)'
<1> DEFINE o == ops[id]  k == sock[id]  r == rbuf[id]  w == wbuf[id]
           t == taken[id]  u == out[id]  c == transferred[id]
<1>0. Known("erased", o, k, r, w, t, u, c) /\ Pumps(o, t, u) /\ o \in OpsType
  BY Facts DEF KnownOf, Known, Pumped, PumpsOf
<1>1. CASE Receive(id, "server")
  <2>1. /\ ops'[id] = Settle(o, "read_server", "ok") /\ o["read_server"]["pending"] > 0
        /\ taken'[id] = [t EXCEPT !["server"] = @ + 1] /\ out'[id] = u
    BY <1>1 DEF Receive, Pending, ReadOp, OInv, IInv, TypeOK
  <2> HIDE DEF o, k, r, w, t, u, c
  <2>2. Pumps(Settle(o, "read_server", "ok"), [t EXCEPT !["server"] = @ + 1], u)
    BY <1>0, <2>1, ErasedSettles
  <2> QED
    BY <2>1, <2>2 DEF PumpsOf
<1>2. CASE Receive(id, "client")
  <2>1. /\ ops'[id] = Settle(o, "read_client", "ok") /\ o["read_client"]["pending"] > 0
        /\ taken'[id] = [t EXCEPT !["client"] = @ + 1] /\ out'[id] = u
    BY <1>2 DEF Receive, Pending, ReadOp, OInv, IInv, TypeOK
  <2> HIDE DEF o, k, r, w, t, u, c
  <2>2. Pumps(Settle(o, "read_client", "ok"), [t EXCEPT !["client"] = @ + 1], u)
    BY <1>0, <2>1, ErasedSettles
  <2> QED
    BY <2>1, <2>2 DEF PumpsOf
<1>3. CASE Send(id, "client")
  <2>1. /\ ops'[id] = Settle(o, "write_client", "ok") /\ o["write_client"]["pending"] > 0
        /\ out'[id] = [u EXCEPT !["client"] = Append(@, w["client"])]
        /\ taken'[id] = t
    BY <1>3 DEF Send, Pending, WriteOp, OInv, IInv, TypeOK
  <2> HIDE DEF o, k, r, w, t, u, c
  <2>2. Pumps(Settle(o, "write_client", "ok"), t, [u EXCEPT !["client"] = Append(@, w["client"])])
    BY <1>0, <2>1, ErasedSettles
  <2> QED
    BY <2>1, <2>2 DEF PumpsOf
<1>4. CASE Send(id, "server")
  <2>1. /\ ops'[id] = Settle(o, "write_server", "ok") /\ o["write_server"]["pending"] > 0
        /\ out'[id] = [u EXCEPT !["server"] = Append(@, w["server"])]
        /\ taken'[id] = t
    BY <1>4 DEF Send, Pending, WriteOp, OInv, IInv, TypeOK
  <2> HIDE DEF o, k, r, w, t, u, c
  <2>2. Pumps(Settle(o, "write_server", "ok"), t, [u EXCEPT !["server"] = Append(@, w["server"])])
    BY <1>0, <2>1, ErasedSettles
  <2> QED
    BY <2>1, <2>2 DEF PumpsOf
<1>5. ASSUME NEW op \in Op, NEW p \in {"ok", "error"}, Succeed(id, op) \/ Fail(id, op),
             ops'[id] = Settle(o, op, p), o[op]["pending"] > 0
      PROVE  PumpsOf(id)'
  <2>1. taken'[id] = t /\ out'[id] = u
    BY <1>5 DEF Succeed, Fail, peers
  <2>2. /\ \A b \in Op \ {op}, q \in Phase : Settle(o, op, p)[b][q] = o[b][q]
        /\ Settle(o, op, p)[op]["pending"] = o[op]["pending"] - 1
    BY <1>0, SettleAt
  <2>3. o[op]["pending"] \in Nat
    BY <1>0, PhaseNat
  <2> DEFINE x == Settle(o, op, p)
  <2>4. x[op]["pending"] > 0 => o[op]["pending"] > 0
    BY <1>5
  <2> HIDE DEF x, o, t, u
  <2>5. \A b \in Carriers : x[b]["pending"] > 0 => o[b]["pending"] > 0
    BY <2>2, <2>4, Names DEF Carriers, Phase, x
  <2>6. Pumps(x, t, u)
    BY <1>0, <2>5 DEF Pumps, Carriers
  <2> QED
    BY <1>5, <2>1, <2>6 DEF PumpsOf, x
<1>6. ASSUME NEW op \in Op, Succeed(id, op) \/ Fail(id, op)
      PROVE  PumpsOf(id)'
  <2>1. PICK p \in {"ok", "error"} : ops'[id] = Settle(o, op, p) /\ o[op]["pending"] > 0
    BY <1>6 DEF Succeed, Fail, Pending, OInv, IInv, TypeOK
  <2> QED
    BY <1>5, <1>6, <2>1
<1> QED
  BY <1>1, <1>2, <1>3, <1>4, <1>6 DEF Kernel, Side

LEMMA NextPumps ==
    ASSUME OInv, Pumped, [Next]_vars, \A i \in Ids : state'[i] # "erased" => PumpsOf(i)'
    PROVE  Pumped'
<1> SUFFICES ASSUME NEW i \in Ids, state'[i] = "erased" PROVE PumpsOf(i)'
  BY DEF Pumped
<1>1. PumpsOf(i)
  BY DEF Pumped
<1>2. ASSUME ops'[i] = ops[i], taken'[i] = taken[i], out'[i] = out[i]
      PROVE  PumpsOf(i)'
  BY <1>1, <1>2 DEF PumpsOf
<1>3. ASSUME NEW id \in Ids, Kernel(id)
      PROVE  PumpsOf(i)'
  <2>1. CASE i = id
    BY <1>3, <2>1, KernelAlone, KernelPumps
  <2>2. CASE i # id
    BY <1>2, <1>3, <2>2, KernelAlone
  <2> QED
    BY <2>1, <2>2
<1>4. ASSUME NEW id \in Ids, Dispatch(id)
      PROVE  PumpsOf(i)'
  <2>1. CASE i = id
    BY <1>4, <2>1, DispatchPumps
  <2>2. CASE i # id
    BY <1>2, <1>4, <2>2, DispatchAlone
  <2> QED
    BY <2>1, <2>2
<1>5. CASE Accept("auth_request")
  <2>1. taken'[i] = taken[i] /\ out'[i] = out[i]
    BY <1>5 DEF Accept, peers
  <2>2. i # stream_id
    BY <1>5 DEF Accept, OInv, IInv, TypeOK
  <2>3. ops'[i] = ops[i]
    BY <1>5, <2>2 DEF Accept, OInv, IInv, TypeOK
  <2> QED
    BY <1>2, <2>1, <2>3
<1>6. CASE AcceptError \/ Signal \/ UNCHANGED vars
  BY <1>2, <1>6 DEF AcceptError, Signal, vars, peers
<1> QED
  BY <1>3, <1>4, <1>5, <1>6 DEF Next

LEMMA LivePumped == OInv => \A i \in Ids : state[i] # "erased" => PumpsOf(i)
BY Facts, LivePumps DEF KnownOf, PumpsOf

LEMMA InitPumps == Init => Pumped
<1> SUFFICES ASSUME Init, NEW i \in Ids PROVE PumpsOf(i)
  BY DEF Pumped
<1>1. OInv /\ state[i] # "erased"
  BY InitOrder DEF Init
<1> QED
  BY <1>1, LivePumped

LEMMA PumpsAlways == Spec => [](OInv /\ Pumped)
<1>1. OInv /\ Pumped /\ [Next]_vars /\ (\A i \in Ids : state[i] # "erased" => PumpsOf(i))'
        => Pumped'
  BY NextPumps
<1> QED
  BY <1>1, InitPumps, LivePumped, OrderAlways, PTL DEF Spec

----
(* What the relay has delivered, as a part of what a peer was sent.        *)
RemotePart(v) == [i \in DOMAIN v |-> v[i].n - 2]
LocalPart(v) == [i \in 1 .. Beyond(Len(v)) |-> v[i + 2].n]

LEMMA RemotePartAppend ==
    ASSUME NEW v \in Seq(Chunks), NEW c \in Chunks
    PROVE  /\ Len(RemotePart(v)) = Len(v)
           /\ RemotePart(Append(v, c)) = Append(RemotePart(v), c.n - 2)
<1> DEFINE n == Len(v)
           f == RemotePart(v)
           g == RemotePart(Append(v, c))
<1>1. /\ n \in Nat /\ DOMAIN v = 1 .. n /\ \A i \in 1 .. n : v[i] \in Chunks
  OBVIOUS
<1>2. /\ DOMAIN Append(v, c) = 1 .. n + 1 /\ \A i \in 1 .. n : Append(v, c)[i] = v[i]
      /\ Append(v, c)[n + 1] = c
  <2>1. /\ Append(v, c) \in Seq(Chunks) /\ Len(Append(v, c)) = n + 1
        /\ \A i \in 1 .. n : Append(v, c)[i] = v[i] /\ Append(v, c)[n + 1] = c
    BY AppendProperties
  <2> QED
    BY <2>1
<1>3. \A d \in Chunks : d.n - 2 \in Int
  BY DEF Chunks
<1>4. f \in [1 .. n -> Int]
  BY <1>1, <1>3 DEF RemotePart
<1>5. /\ \A i \in 1 .. n : g[i] = f[i]
      /\ g[n + 1] = c.n - 2
  BY <1>1, <1>2 DEF RemotePart
<1>6. g \in [1 .. n + 1 -> Int]
  <2>1. \A i \in 1 .. n + 1 : Append(v, c)[i] \in Chunks
    BY <1>1, <1>2
  <2> QED
    BY <1>2, <1>3, <2>1 DEF RemotePart
<1> HIDE DEF n, f, g
<1>7. Len(f) = n /\ g = Append(f, g[n + 1])
  BY <1>1, <1>4, <1>5, <1>6, FcnSeq, FcnAppend
<1> QED
  BY <1>5, <1>7 DEF n, f, g

LEMMA LocalPartAppend ==
    ASSUME NEW v \in Seq(Chunks), NEW c \in Chunks
    PROVE  /\ Len(LocalPart(v)) = Beyond(Len(v))
           /\ Len(v) < 2 => LocalPart(Append(v, c)) = LocalPart(v)
           /\ Len(v) >= 2 => LocalPart(Append(v, c)) = Append(LocalPart(v), c.n)
<1> DEFINE n == Len(v)
           f == LocalPart(v)
           g == LocalPart(Append(v, c))
           m == Beyond(n)
<1>1. /\ n \in Nat /\ DOMAIN v = 1 .. n /\ \A i \in 1 .. n : v[i] \in Chunks
  OBVIOUS
<1>2. /\ Len(Append(v, c)) = n + 1 /\ \A i \in 1 .. n : Append(v, c)[i] = v[i]
      /\ Append(v, c)[n + 1] = c
  BY AppendProperties
<1>3. \A d \in Chunks : d.n \in Nat
  BY DEF Chunks
<1>4. m \in Nat /\ \A i \in 1 .. m : i + 2 \in 1 .. n
  BY <1>1 DEF Beyond
<1>5. f \in [1 .. m -> Nat]
  BY <1>1, <1>3, <1>4 DEF LocalPart
<1>6. CASE n < 2
  <2>1. Beyond(n) = 0 /\ Beyond(n + 1) = 0
    BY <1>1, <1>6 DEF Beyond
  <2>2. f \in [1 .. 0 -> Nat] /\ g \in [1 .. 0 -> Nat]
    BY <1>2, <2>1 DEF LocalPart
  <2>3. f = <<>> /\ g = <<>>
    BY <2>2, FcnEmpty
  <2> HIDE DEF n, f, g, m
  <2>4. Len(f) = m
    BY <1>4, <1>5, FcnSeq
  <2> QED
    BY <1>1, <1>6, <2>3, <2>4 DEF n, f, g, m
<1>7. CASE n >= 2
  <2>1. m = n - 2 /\ Beyond(n + 1) = m + 1
    BY <1>1, <1>7 DEF Beyond
  <2>2. /\ \A i \in 1 .. m : g[i] = f[i]
        /\ g[m + 1] = c.n
    <3>1. \A i \in 1 .. m + 1 : g[i] = Append(v, c)[i + 2].n
      BY <1>2, <2>1 DEF LocalPart
    <3>2. \A i \in 1 .. m : f[i] = v[i + 2].n
      BY DEF LocalPart
    <3>3. m + 1 \in 1 .. m + 1 /\ m + 1 + 2 = n + 1 /\ \A i \in 1 .. m : i \in 1 .. m + 1
      BY <1>1, <1>4, <2>1
    <3> HIDE DEF n, f, g, m
    <3> QED
      BY <1>2, <1>4, <3>1, <3>2, <3>3
  <2>3. g \in [1 .. m + 1 -> Nat]
    <3>1. DOMAIN g = 1 .. m + 1 /\ g = [i \in DOMAIN g |-> g[i]]
      BY <1>2, <2>1 DEF LocalPart
    <3>2. \A i \in 1 .. m : f[i] \in Nat
      BY <1>5
    <3>3. c.n \in Nat
      BY <1>3
    <3> HIDE DEF n, f, g, m
    <3>4. \A i \in 1 .. m + 1 : g[i] \in Nat
      BY <1>4, <2>2, <3>2, <3>3
    <3> QED
      BY <3>1, <3>4
  <2> HIDE DEF n, f, g, m
  <2>4. Len(f) = m /\ g = Append(f, g[m + 1])
    BY <1>4, <1>5, <2>2, <2>3, FcnSeq, FcnAppend
  <2>5. ~(n < 2)
    BY <1>1, <1>7
  <2> QED
    BY <1>1, <1>7, <2>2, <2>4, <2>5 DEF n, f, g, m
<1> QED
  BY <1>1, <1>6, <1>7

----
(* A session implements Relay: the values its variables are mapped to.     *)
Phases == [id \in Ids |-> PhaseOf(state[id])]
Fetches == [id \in Ids |-> Fetched(id)]
Deliveries == [id \in Ids |-> Delivered(id)]

LEMMA Mapped ==
    ASSUME NEW id \in Ids
    PROVE  /\ Fetched(id) = [to_remote |-> Beyond(taken[id]["server"]),
                             to_local |-> taken[id]["client"]]
           /\ Delivered(id) = [to_remote |-> RemotePart(out[id]["client"]),
                               to_local |-> LocalPart(out[id]["server"])]
BY DEF Fetched, Delivered, RemotePart, LocalPart

LEMMA InitRelay == Init => Abstract!Init
<1> SUFFICES ASSUME Init PROVE Abstract!Init
  OBVIOUS
<1>1. RemotePart(<<>>) = <<>> /\ LocalPart(<<>>) = <<>>
  <2>1. RemotePart(<<>>) \in [1 .. 0 -> Int]
    BY DEF RemotePart
  <2>2. LocalPart(<<>>) \in [1 .. 0 -> Int]
    BY DEF LocalPart, Beyond
  <2> QED
    BY <2>1, <2>2, FcnEmpty
<1>2. \A id \in Ids : PhaseOf(state[id]) = "idle"
  BY DEF Init, PhaseOf
<1>3. Beyond(0) = 0
  BY DEF Beyond
<1>4. ASSUME NEW id \in Ids
      PROVE  /\ Fetched(id) = [dir \in {"to_remote", "to_local"} |-> 0]
             /\ Delivered(id) = [dir \in {"to_remote", "to_local"} |-> <<>>]
  <2>1. /\ taken[id]["server"] = 0 /\ taken[id]["client"] = 0
        /\ out[id]["server"] = <<>> /\ out[id]["client"] = <<>>
    BY Names DEF Init
  <2> QED
    BY <1>1, <1>3, <2>1, Mapped
<1> QED
  BY <1>2, <1>4 DEF Abstract!Init, Abstract!Direction

LEMMA RelaySame ==
    ASSUME \A i \in Ids : /\ PhaseOf(state[i])' = PhaseOf(state[i])
                          /\ Fetched(i)' = Fetched(i) /\ Delivered(i)' = Delivered(i)
    PROVE  UNCHANGED Abstract!vars
<1>1. Phases' = Phases /\ Fetches' = Fetches /\ Deliveries' = Deliveries
  BY DEF Phases, Fetches, Deliveries
<1> QED
  BY <1>1 DEF Abstract!vars, Phases, Fetches, Deliveries

LEMMA RelayEnter ==
    ASSUME NEW id \in Ids, NEW from, NEW to,
           \A i \in Ids : Fetched(i)' = Fetched(i) /\ Delivered(i)' = Delivered(i),
           \A i \in Ids \ {id} : state'[i] = state[i],
           PhaseOf(state[id]) \in from, PhaseOf(state'[id]) = to
    PROVE  Abstract!Enter(id, from, to)
<1>1. Phases' = [Phases EXCEPT ![id] = to] /\ Phases[id] \in from
  BY DEF Phases
<1>2. Fetches' = Fetches /\ Deliveries' = Deliveries
  BY DEF Fetches, Deliveries
<1> QED
  BY <1>1, <1>2 DEF Abstract!Enter, Phases, Fetches, Deliveries

LEMMA RelayFetch ==
    ASSUME NEW id \in Ids, NEW dir \in Abstract!Direction, state' = state,
           \A i \in Ids \ {id} : Fetched(i)' = Fetched(i),
           \A i \in Ids : Delivered(i)' = Delivered(i),
           Fetched(id)' = [Fetched(id) EXCEPT ![dir] = @ + 1],
           PhaseOf(state[id]) \in {"relaying", "closed"},
           Fetched(id)[dir] - Len(Delivered(id)[dir]) = 0
    PROVE  Abstract!Fetch(id, dir)
<1>1. /\ Phases' = Phases /\ Deliveries' = Deliveries
      /\ Fetches' = [Fetches EXCEPT ![id][dir] = @ + 1]
  BY DEF Phases, Fetches, Deliveries
<1>2. /\ Fetches[id][dir] - Len(Deliveries[id][dir]) = 0
      /\ Phases[id] \in {"relaying", "closed"}
  BY DEF Phases, Fetches, Deliveries
<1> QED
  BY <1>1, <1>2 DEF Abstract!Fetch, Abstract!Holds, Phases, Fetches, Deliveries

LEMMA RelayDeliver ==
    ASSUME NEW id \in Ids, NEW dir \in Abstract!Direction, state' = state,
           \A i \in Ids \ {id} : Delivered(i)' = Delivered(i),
           \A i \in Ids : Fetched(i)' = Fetched(i),
           Delivered(id)' = [Delivered(id) EXCEPT ![dir] = Append(@, Fetched(id)[dir])],
           PhaseOf(state[id]) \in {"relaying", "closed"},
           Fetched(id)[dir] - Len(Delivered(id)[dir]) = 1
    PROVE  Abstract!Deliver(id, dir)
<1>1. /\ Phases' = Phases /\ Fetches' = Fetches
      /\ Deliveries' = [Deliveries EXCEPT ![id][dir] = Append(@, Fetched(id)[dir])]
  BY DEF Phases, Fetches, Deliveries
<1>2. /\ Fetches[id][dir] - Len(Deliveries[id][dir]) = 1
      /\ Phases[id] \in {"relaying", "closed"}
  BY DEF Phases, Fetches, Deliveries
<1> QED
  BY <1>1, <1>2 DEF Abstract!Deliver, Abstract!Holds, Phases, Fetches, Deliveries

----
(* The steps of the program that are steps of Relay.                       *)
LEMMA Parts ==
    ASSUME NEW a, NEW b, NEW n, NEW d, d = [to_remote |-> a, to_local |-> b]
    PROVE  /\ d["to_remote"] = a /\ d["to_local"] = b
           /\ [d EXCEPT !["to_remote"] = n] = [to_remote |-> n, to_local |-> b]
           /\ [d EXCEPT !["to_local"] = n] = [to_remote |-> a, to_local |-> n]
<1>1. [[to_remote |-> a, to_local |-> b] EXCEPT !["to_remote"] = n]
      = [to_remote |-> n, to_local |-> b]
  OBVIOUS
<1>2. [[to_remote |-> a, to_local |-> b] EXCEPT !["to_local"] = n]
      = [to_remote |-> a, to_local |-> n]
  OBVIOUS
<1> QED
  BY <1>1, <1>2

LEMMA ReceivedServer ==
    ASSUME OInv, Pumped, NEW id \in Ids, Receive(id, "server")
    PROVE  UNCHANGED Abstract!vars \/ Abstract!Fetch(id, "to_remote")
<1> DEFINE o == ops[id]  t == taken[id]  u == out[id]
           n == t["server"]
<1>1. KnownOf(id) /\ Pumps(o, t, u) /\ o["read_server"]["pending"] > 0
  BY Facts DEF Receive, Pending, ReadOp, Pumped, PumpsOf
<1>2. /\ n \in Nat /\ DOMAIN t = Side /\ u["client"] \in Seq(Chunks) /\ Single(o, "read_server")
  BY <1>1 DEF KnownOf, Known
<1>3. Beyond(n) = Len(u["client"])
  BY <1>1 DEF Pumps
<1>4. /\ state' = state /\ out' = out
      /\ \A i \in Ids \ {id} : taken'[i] = taken[i]
      /\ taken'[id]["server"] = n + 1 /\ taken'[id]["client"] = t["client"]
  BY <1>2, Names DEF Receive, OInv, IInv, TypeOK
<1>5. /\ \A i \in Ids : Delivered(i)' = Delivered(i)
      /\ \A i \in Ids \ {id} : Fetched(i)' = Fetched(i)
  BY <1>4 DEF Delivered, Fetched
<1>6. /\ Fetched(id) = [to_remote |-> Beyond(n), to_local |-> t["client"]]
      /\ Fetched(id)' = [to_remote |-> Beyond(n + 1), to_local |-> t["client"]]
  BY <1>4 DEF Fetched
<1>7. CASE n < 2
  <2>1. Beyond(n + 1) = Beyond(n)
    BY <1>2, <1>7 DEF Beyond
  <2>2. Fetched(id)' = Fetched(id)
    BY <1>6, <2>1
  <2> QED
    BY <1>4, <1>5, <2>2, RelaySame
<1>8. CASE n >= 2
  <2>1. Beyond(n + 1) = Beyond(n) + 1
    BY <1>2, <1>8 DEF Beyond
  <2>2. state[id] \in {"data_transfer_mode", "erased"}
    <3>1. Out(o, "read_server") = 1 /\ o["read_server"]["ok"] = 0
      BY <1>1, <1>2, OnePending
    <3>2. state[id] \in {"auth_request", "connection_request", "data_transfer_mode", "erased"}
      BY <1>1, <3>1, KnownShape DEF KnownOf
    <3>3. Counted(state[id], o, sock[id], t, u, transferred[id])
      BY <1>1, KnownCounted DEF KnownOf
    <3>4. state[id] = "auth_request" => n = 0
      BY <3>1, <3>3 DEF Counted
    <3>5. state[id] = "connection_request" => n = 1
      <4>1. state[id] = "connection_request" => n = 1 + 0
        BY <3>1, <3>3 DEF Counted
      <4> QED
        BY <4>1
    <3> HIDE DEF n
    <3>6. n # 0 /\ n # 1
      BY <1>2, <1>8
    <3> QED
      BY <3>2, <3>4, <3>5, <3>6
  <2>3. PhaseOf(state[id]) \in {"relaying", "closed"}
    BY <2>2 DEF PhaseOf
  <2>4. /\ Fetched(id)["to_remote"] = Beyond(n)
        /\ [Fetched(id) EXCEPT !["to_remote"] = Beyond(n) + 1]
           = [to_remote |-> Beyond(n) + 1, to_local |-> t["client"]]
    BY <1>6, Parts
  <2>5. Fetched(id)' = [Fetched(id) EXCEPT !["to_remote"] = @ + 1]
    BY <1>6, <2>1, <2>4
  <2>6. Len(Delivered(id)["to_remote"]) = Len(u["client"])
    <3>1. Delivered(id)["to_remote"] = RemotePart(u["client"])
      BY Mapped
    <3>2. NoChunk \in Chunks
      BY DEF NoChunk, Chunk, Chunks, ChunkKind
    <3> QED
      BY <1>2, <3>1, <3>2, RemotePartAppend
  <2>7. Fetched(id)["to_remote"] - Len(Delivered(id)["to_remote"]) = 0
    BY <1>2, <1>3, <2>4, <2>6
  <2>8. "to_remote" \in Abstract!Direction
    BY DEF Abstract!Direction
  <2> QED
    BY <1>4, <1>5, <2>3, <2>5, <2>7, <2>8, RelayFetch
<1> QED
  BY <1>2, <1>7, <1>8

LEMMA ReceivedClient ==
    ASSUME OInv, Pumped, NEW id \in Ids, Receive(id, "client")
    PROVE  Abstract!Fetch(id, "to_local")
<1> DEFINE o == ops[id]  t == taken[id]  u == out[id]
           n == t["client"]
           l == Len(u["server"])
           b == Beyond(t["server"])
<1>1. KnownOf(id) /\ Pumps(o, t, u) /\ o["read_client"]["pending"] > 0
  BY Facts DEF Receive, Pending, ReadOp, Pumped, PumpsOf
<1>2. /\ n \in Nat /\ DOMAIN t = Side /\ u["server"] \in Seq(Chunks) /\ Single(o, "read_client")
      /\ l \in Nat
  BY <1>1 DEF KnownOf, Known
<1>3. l >= 2 /\ n = l - 2
  BY <1>1 DEF Pumps
<1>4. /\ state' = state /\ out' = out
      /\ \A i \in Ids \ {id} : taken'[i] = taken[i]
      /\ taken'[id]["client"] = n + 1 /\ taken'[id]["server"] = t["server"]
  BY <1>2, Names DEF Receive, OInv, IInv, TypeOK
<1>5. /\ \A i \in Ids : Delivered(i)' = Delivered(i)
      /\ \A i \in Ids \ {id} : Fetched(i)' = Fetched(i)
  BY <1>4 DEF Delivered, Fetched
<1>6. /\ Fetched(id) = [to_remote |-> b, to_local |-> n]
      /\ Fetched(id)' = [to_remote |-> b, to_local |-> n + 1]
  BY <1>4 DEF Fetched
<1>7. state[id] \in {"data_transfer_mode", "erased"}
  <2>1. Out(o, "read_client") = 1
    BY <1>1, <1>2, OnePending
  <2> QED
    BY <1>1, <2>1, KnownShape DEF KnownOf
<1>8. PhaseOf(state[id]) \in {"relaying", "closed"}
  BY <1>7 DEF PhaseOf
<1>9. /\ Fetched(id)["to_local"] = n
      /\ [Fetched(id) EXCEPT !["to_local"] = n + 1] = [to_remote |-> b, to_local |-> n + 1]
  BY <1>6, Parts
<1>10. Fetched(id)' = [Fetched(id) EXCEPT !["to_local"] = @ + 1]
  BY <1>6, <1>9
<1>11. Len(Delivered(id)["to_local"]) = Beyond(l)
  <2>1. Delivered(id)["to_local"] = LocalPart(u["server"])
    BY Mapped
  <2>2. NoChunk \in Chunks
    BY DEF NoChunk, Chunk, Chunks, ChunkKind
  <2> QED
    BY <1>2, <2>1, <2>2, LocalPartAppend
<1>12. Fetched(id)["to_local"] - Len(Delivered(id)["to_local"]) = 0
  <2>1. Beyond(l) = n
    BY <1>2, <1>3 DEF Beyond
  <2> QED
    BY <1>2, <1>9, <1>11, <2>1
<1>13. "to_local" \in Abstract!Direction
  BY DEF Abstract!Direction
<1> QED
  BY <1>4, <1>5, <1>8, <1>10, <1>12, <1>13, RelayFetch

LEMMA SentClient ==
    ASSUME OInv, Pumped, NEW id \in Ids, Send(id, "client")
    PROVE  Abstract!Deliver(id, "to_remote")
<1> DEFINE o == ops[id]  t == taken[id]  u == out[id]
           v == u["client"]
           c == wbuf[id]["client"]
           f == Beyond(t["server"])
           q == LocalPart(u["server"])
<1>1. KnownOf(id) /\ Pumps(o, t, u) /\ o["write_client"]["pending"] > 0
  BY Facts DEF Send, Pending, WriteOp, Pumped, PumpsOf
<1>2. /\ v \in Seq(Chunks) /\ Len(v) \in Nat /\ DOMAIN u = Side /\ c \in Chunks
      /\ Single(o, "write_client")
  BY <1>1, Names DEF KnownOf, Known
<1>3. f = Len(v) + 1
  BY <1>1 DEF Pumps
<1>4. c = Chunk("server", Len(v) + 3)
  BY <1>1 DEF KnownOf, Known, Order, DueRemote
<1>5. /\ state' = state /\ taken' = taken
      /\ \A i \in Ids \ {id} : out'[i] = out[i]
      /\ out'[id]["client"] = Append(v, c) /\ out'[id]["server"] = u["server"]
  BY <1>2, Names DEF Send, OInv, IInv, TypeOK
<1>6. /\ \A i \in Ids : Fetched(i)' = Fetched(i)
      /\ \A i \in Ids \ {id} : Delivered(i)' = Delivered(i)
  BY <1>5 DEF Delivered, Fetched
<1>7. c.n - 2 = f
  <2>1. c.n = Len(v) + 3
    BY <1>4 DEF Chunk
  <2> HIDE DEF v, c, f
  <2> QED
    BY <1>2, <1>3, <2>1
<1>8. Fetched(id)["to_remote"] = f
  BY Mapped
<1>9. /\ Delivered(id) = [to_remote |-> RemotePart(v), to_local |-> q]
      /\ Delivered(id)' = [to_remote |-> RemotePart(Append(v, c)), to_local |-> q]
  BY <1>5 DEF Delivered, RemotePart, LocalPart
<1>10. Len(RemotePart(v)) = Len(v) /\ RemotePart(Append(v, c)) = Append(RemotePart(v), f)
  BY <1>2, <1>7, RemotePartAppend
<1>11. /\ Delivered(id)["to_remote"] = RemotePart(v)
       /\ [Delivered(id) EXCEPT !["to_remote"] = Append(RemotePart(v), f)]
          = [to_remote |-> Append(RemotePart(v), f), to_local |-> q]
  <2> DEFINE p == RemotePart(v)
             n == Append(p, f)
  <2> HIDE DEF p, n, q
  <2>1. Delivered(id) = [to_remote |-> p, to_local |-> q]
    BY <1>9 DEF p
  <2>2. /\ Delivered(id)["to_remote"] = p
        /\ [Delivered(id) EXCEPT !["to_remote"] = n] = [to_remote |-> n, to_local |-> q]
    BY <2>1, Parts
  <2> QED
    BY <2>2 DEF p, n
<1>12. Delivered(id)' = [Delivered(id) EXCEPT !["to_remote"] = Append(@, Fetched(id)["to_remote"])]
  BY <1>8, <1>9, <1>10, <1>11
<1>13. PhaseOf(state[id]) \in {"relaying", "closed"}
  <2>1. Out(o, "write_client") = 1
    BY <1>1, <1>2, OnePending
  <2>2. state[id] \in {"data_transfer_mode", "erased"}
    BY <1>1, <2>1, KnownShape DEF KnownOf
  <2> QED
    BY <2>2 DEF PhaseOf
<1>14. Fetched(id)["to_remote"] - Len(Delivered(id)["to_remote"]) = 1
  BY <1>2, <1>3, <1>8, <1>10, <1>11
<1>15. "to_remote" \in Abstract!Direction
  BY DEF Abstract!Direction
<1> QED
  BY <1>5, <1>6, <1>12, <1>13, <1>14, <1>15, RelayDeliver

LEMMA SentServer ==
    ASSUME OInv, Pumped, NEW id \in Ids, Send(id, "server")
    PROVE  UNCHANGED Abstract!vars \/ Abstract!Deliver(id, "to_local")
<1> DEFINE o == ops[id]  t == taken[id]  u == out[id]
           v == u["server"]
           c == wbuf[id]["server"]
           f == t["client"]
           q == RemotePart(u["client"])
<1>1. KnownOf(id) /\ Pumps(o, t, u) /\ o["write_server"]["pending"] > 0
  BY Facts DEF Send, Pending, WriteOp, Pumped, PumpsOf
<1>2. /\ v \in Seq(Chunks) /\ Len(v) \in Nat /\ DOMAIN u = Side /\ c \in Chunks
      /\ Single(o, "write_server") /\ f \in Nat
  BY <1>1, Names DEF KnownOf, Known
<1>3. /\ state' = state /\ taken' = taken
      /\ \A i \in Ids \ {id} : out'[i] = out[i]
      /\ out'[id]["server"] = Append(v, c) /\ out'[id]["client"] = u["client"]
  BY <1>2, Names DEF Send, OInv, IInv, TypeOK
<1>4. /\ \A i \in Ids : Fetched(i)' = Fetched(i)
      /\ \A i \in Ids \ {id} : Delivered(i)' = Delivered(i)
  BY <1>3 DEF Delivered, Fetched
<1>5. /\ Delivered(id) = [to_remote |-> q, to_local |-> LocalPart(v)]
      /\ Delivered(id)' = [to_remote |-> q, to_local |-> LocalPart(Append(v, c))]
  BY <1>3 DEF Delivered, RemotePart, LocalPart
<1>6. /\ Len(LocalPart(v)) = Beyond(Len(v))
      /\ Len(v) < 2 => LocalPart(Append(v, c)) = LocalPart(v)
      /\ Len(v) >= 2 => LocalPart(Append(v, c)) = Append(LocalPart(v), c.n)
  BY <1>2, LocalPartAppend
<1>7. CASE Len(v) < 2
  <2>1. Delivered(id)' = Delivered(id)
    BY <1>5, <1>6, <1>7
  <2> QED
    BY <1>3, <1>4, <2>1, RelaySame
<1>8. CASE Len(v) >= 2
  <2>1. f = Len(v) - 1
    BY <1>1, <1>8 DEF Pumps
  <2>2. c = Chunk("client", Len(v) - 1)
    BY <1>1, <1>8 DEF KnownOf, Known, Order, DueLocal
  <2>3. c.n = f
    BY <2>1, <2>2 DEF Chunk
  <2>4. Fetched(id)["to_local"] = f
    BY Mapped
  <2>5. /\ Delivered(id)["to_local"] = LocalPart(v)
        /\ [Delivered(id) EXCEPT !["to_local"] = Append(LocalPart(v), f)]
           = [to_remote |-> q, to_local |-> Append(LocalPart(v), f)]
    <3> DEFINE p == LocalPart(v)
               n == Append(p, f)
    <3> HIDE DEF p, n, q
    <3>1. Delivered(id) = [to_remote |-> q, to_local |-> p]
      BY <1>5 DEF p
    <3>2. /\ Delivered(id)["to_local"] = p
          /\ [Delivered(id) EXCEPT !["to_local"] = n] = [to_remote |-> q, to_local |-> n]
      BY <3>1, Parts
    <3> QED
      BY <3>2 DEF p, n
  <2>6. Delivered(id)' = [Delivered(id) EXCEPT !["to_local"] = Append(@, Fetched(id)["to_local"])]
    BY <1>5, <1>6, <1>8, <2>3, <2>4, <2>5
  <2>7. PhaseOf(state[id]) \in {"relaying", "closed"}
    <3>1. /\ Unsent(o, "write_server") = 1 /\ Out(o, "write_server") = 1
          /\ o["write_server"]["ok"] = 0
      BY <1>1, <1>2, OnePending
    <3>2. state[id] \in {"connection_request", "connection_established",
                         "ready_to_transfer_data", "data_transfer_mode", "erased"}
      BY <1>1, <3>1, KnownShape DEF KnownOf
    <3>3. Counted(state[id], o, sock[id], t, u, transferred[id])
      BY <1>1, KnownCounted DEF KnownOf
    <3>4. state[id] = "connection_request" => Len(v) = 1 - 1
      BY <3>1, <3>3 DEF Counted
    <3>5. state[id] = "connection_established" => Len(v) = 1 + 0
      BY <3>1, <3>3 DEF Counted
    <3>6. state[id] = "ready_to_transfer_data" => Len(v) = 2 - 1
      BY <3>1, <3>3 DEF Counted
    <3> DEFINE m == Len(v)
    <3>7. m \in Nat /\ m >= 2
      BY <1>2, <1>8
    <3> HIDE DEF m
    <3>8. m # 1 - 1 /\ m # 1 + 0 /\ m # 2 - 1
      BY <3>7
    <3>9. state[id] \in {"data_transfer_mode", "erased"}
      BY <3>2, <3>4, <3>5, <3>6, <3>8 DEF m
    <3> QED
      BY <3>9 DEF PhaseOf
  <2>8. Fetched(id)["to_local"] - Len(Delivered(id)["to_local"]) = 1
    <3> DEFINE m == Len(v)
    <3>1. m \in Nat /\ m >= 2 /\ f = m - 1
      BY <1>2, <1>8, <2>1
    <3> HIDE DEF m, f
    <3>2. f - Beyond(m) = 1
      BY <3>1 DEF Beyond
    <3> QED
      BY <1>6, <2>4, <2>5, <3>2 DEF m
  <2>9. "to_local" \in Abstract!Direction
    BY DEF Abstract!Direction
  <2> QED
    BY <1>3, <1>4, <2>6, <2>7, <2>8, <2>9, RelayDeliver
<1> QED
  BY <1>2, <1>7, <1>8

LEMMA KernelRelay ==
    ASSUME OInv, Pumped, NEW id \in Ids, Kernel(id)
    PROVE  \/ UNCHANGED Abstract!vars
           \/ \E dir \in Abstract!Direction : Abstract!Fetch(id, dir) \/ Abstract!Deliver(id, dir)
<1>0. "to_remote" \in Abstract!Direction /\ "to_local" \in Abstract!Direction
  BY DEF Abstract!Direction
<1>1. ASSUME NEW side \in Side, Receive(id, side) \/ Send(id, side)
      PROVE  \/ UNCHANGED Abstract!vars
             \/ \E dir \in Abstract!Direction :
                  Abstract!Fetch(id, dir) \/ Abstract!Deliver(id, dir)
  <2>1. CASE side = "server"
    BY <1>0, <1>1, <2>1, ReceivedServer, SentServer
  <2>2. CASE side = "client"
    BY <1>0, <1>1, <2>2, ReceivedClient, SentClient
  <2> QED
    BY <2>1, <2>2 DEF Side
<1>2. ASSUME NEW op \in Op, Succeed(id, op) \/ Fail(id, op)
      PROVE  UNCHANGED Abstract!vars
  <2>1. state' = state /\ taken' = taken /\ out' = out
    BY <1>2 DEF Succeed, Fail, peers
  <2> QED
    BY <2>1, RelaySame DEF Fetched, Delivered
<1> QED
  BY <1>1, <1>2 DEF Kernel

LEMMA DispatchRelay ==
    ASSUME OInv, NEW id \in Ids, Dispatch(id)
    PROVE  \/ UNCHANGED Abstract!vars
           \/ Abstract!StartRelaying(id) \/ Abstract!Close(id)
<1>1. /\ \A i \in Ids : Fetched(i)' = Fetched(i) /\ Delivered(i)' = Delivered(i)
      /\ \A i \in Ids \ {id} : state'[i] = state[i]
  BY DispatchAlone DEF Fetched, Delivered
<1>2. ASSUME PhaseOf(state'[id]) = PhaseOf(state[id])
      PROVE  UNCHANGED Abstract!vars
  BY <1>1, <1>2, RelaySame
<1> USE DEF OInv, IInv, TypeOK
<1>3. CASE Handshaken(id) \/ Resolved(id) \/ TlsClosed(id) \/ Dropped(id, Handles(state[id]))
           \/ AuthReplyWritten(id) \/ ConnectFailed(id)
  <2>1. state' = state
    BY <1>3 DEF Handshaken, Resolved, TlsClosed, Dropped, AuthReplyWritten, ConnectFailed
  <2> QED
    BY <1>2, <2>1
<1>4. ASSUME NEW side \in Side, TransferRead(id, side) \/ TransferWritten(id, side)
      PROVE  UNCHANGED Abstract!vars
  <2>1. state' = state
    BY <1>4 DEF TransferRead, TransferWritten
  <2> QED
    BY <1>2, <2>1
<1>5. CASE AuthRequestRead(id) \/ RequestAccepted(id) \/ Connected(id)
  <2>1. /\ state[id] \in {"auth_request", "connection_request", "connection_established"}
        /\ state'[id] \in {"connection_request", "connection_established",
                           "ready_to_transfer_data"}
    BY <1>5 DEF AuthRequestRead, RequestAccepted, Connected
  <2>2. PhaseOf(state[id]) = "negotiating" /\ PhaseOf(state'[id]) = "negotiating"
    BY <2>1 DEF PhaseOf
  <2> QED
    BY <1>2, <2>2
<1>6. CASE ReplyWritten(id)
  <2>1. state[id] = "ready_to_transfer_data" /\ state'[id] = "data_transfer_mode"
    BY <1>6 DEF ReplyWritten
  <2>2. PhaseOf(state[id]) = "negotiating" /\ PhaseOf(state'[id]) = "relaying"
    BY <2>1 DEF PhaseOf
  <2> QED
    BY <1>1, <2>2, RelayEnter DEF Abstract!StartRelaying
<1>7. CASE RequestRejected(id) \/ ErrorReplyWritten(id) \/ ServerError(id) \/ ClientError(id)
  <2>1. state'[id] = "erased" /\ state[id] \in Sessions
    BY <1>7 DEF RequestRejected, ErrorReplyWritten, ServerError, ClientError, Stop, Live, Sessions
  <2>2. PhaseOf(state[id]) \in {"negotiating", "relaying"} /\ PhaseOf(state'[id]) = "closed"
    BY <2>1 DEF PhaseOf, Sessions
  <2> QED
    BY <1>1, <2>2, RelayEnter DEF Abstract!Close
<1> QED
  BY <1>3, <1>4, <1>5, <1>6, <1>7 DEF Dispatch

LEMMA AcceptRelay ==
    ASSUME OInv, Accept("auth_request")
    PROVE  \E id \in Ids : Abstract!Open(id)
<1>1. PICK id \in Ids : id = stream_id
  BY DEF Accept
<1>2. /\ \A i \in Ids : Fetched(i)' = Fetched(i) /\ Delivered(i)' = Delivered(i)
      /\ \A i \in Ids \ {id} : state'[i] = state[i]
  BY <1>1 DEF Accept, peers, Fetched, Delivered, OInv, IInv, TypeOK
<1>3. state[id] = "absent" /\ state'[id] = "auth_request"
  BY <1>1 DEF Accept, OInv, IInv, TypeOK, FreshId
<1>4. PhaseOf(state[id]) = "idle" /\ PhaseOf(state'[id]) = "negotiating"
  BY <1>3 DEF PhaseOf
<1> QED
  BY <1>2, <1>4, RelayEnter DEF Abstract!Open

LEMMA NextRelay ==
    ASSUME OInv, Pumped, [Next]_vars
    PROVE  [Abstract!Next]_(Abstract!vars)
<1>1. CASE AcceptError \/ Signal \/ UNCHANGED vars
  <2>1. state' = state /\ taken' = taken /\ out' = out
    BY <1>1 DEF AcceptError, Signal, vars, peers
  <2> QED
    BY <2>1, RelaySame DEF Fetched, Delivered
<1> QED
  BY <1>1, KernelRelay, DispatchRelay, AcceptRelay DEF Next, Abstract!Next

(* A SOCKS5 session implements Relay: of what follows the request and the  *)
(* reply, the pumps of socks5_data_transfer_mode lose, double and reorder  *)
(* nothing, nothing passes before the reply, and an erased session never   *)
(* relays again what it did not hold.                                      *)
THEOREM SessionsImplementRelay == Spec => ImplementsRelay
BY InitRelay, NextRelay, PumpsAlways, PTL DEF Spec, ImplementsRelay, Abstract!Spec
====
