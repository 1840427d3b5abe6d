---- MODULE TransportProofs ----
(***************************************************************************)
(* Lemmas about the operators of Transport, which the proofs of the two    *)
(* protocols share: the moves of an operation and what they do to the      *)
(* outstanding ones, and sequences that are given as functions.            *)
(***************************************************************************)
EXTENDS Transport, SequenceTheorems, TLAPS

OpsType == [Op -> [Phase -> Nat]]

----
LEMMA OpNames ==
    /\ \A side \in Side : ReadOp(side) \in Op /\ WriteOp(side) \in Op /\ Other(side) \in Side
    /\ "handshake" \in Op /\ "resolve" \in Op /\ "connect" \in Op
    /\ "read_server" \in Op /\ "write_server" \in Op /\ "read_client" \in Op
    /\ "write_client" \in Op /\ "shutdown" \in Op /\ "null_write" \in Op
    /\ "server" \in Side /\ "client" \in Side
    /\ ServerOp \subseteq Op /\ ClientOp \subseteq Op
BY DEF Op, ServerOp, ClientOp, Side, ReadOp, WriteOp, Other

LEMMA Names ==
    /\ "handshake" \in Op /\ "resolve" \in Op /\ "connect" \in Op
    /\ "read_server" \in Op /\ "write_server" \in Op /\ "read_client" \in Op
    /\ "write_client" \in Op /\ "shutdown" \in Op /\ "null_write" \in Op
    /\ "server" \in Side /\ "client" \in Side
BY OpNames

LEMMA ChunkType ==
    ASSUME NEW k \in ChunkKind, NEW n \in Nat
    PROVE  Chunk(k, n) \in Chunks
BY DEF Chunk, Chunks

----
(* The moves of an operation, and what they do to the outstanding ones.    *)
LEMMA OutNat ==
    ASSUME NEW o \in OpsType, NEW op \in Op
    PROVE  /\ Out(o, op) \in Nat
           /\ \A p \in Phase : o[op][p] <= Out(o, op)
BY DEF OpsType, Out, Phase

LEMMA IssueOut ==
    ASSUME NEW o \in OpsType, NEW a \in Op
    PROVE  /\ Issue(o, a) \in OpsType
           /\ \A b \in Op : Out(Issue(o, a), b) = IF b = a THEN Out(o, b) + 1 ELSE Out(o, b)
BY DEF OpsType, Issue, Out, Phase

LEMMA SettleOut ==
    ASSUME NEW o \in OpsType, NEW a \in Op, NEW p \in {"ok", "error"}, o[a]["pending"] > 0
    PROVE  /\ Settle(o, a, p) \in OpsType
           /\ \A b \in Op : Out(Settle(o, a, p), b) = Out(o, b)
BY DEF OpsType, Settle, Out, Phase

LEMMA RetireOut ==
    ASSUME NEW o \in OpsType, NEW a \in Op, NEW p \in {"ok", "error"}, o[a][p] > 0
    PROVE  /\ Retire(o, a, p) \in OpsType
           /\ Out(o, a) >= 1
           /\ \A b \in Op : Out(Retire(o, a, p), b) = IF b = a THEN Out(o, b) - 1 ELSE Out(o, b)
BY DEF OpsType, Retire, Out, Phase

LEMMA ThenType ==
    ASSUME NEW o \in OpsType, NEW a \in Op, NEW b \in Op,
           NEW p \in {"ok", "error"}, o[a][p] > 0
    PROVE  Issue(Retire(o, a, p), b) \in OpsType
BY RetireOut, IssueOut

(* The outstanding operations after a handler that starts one other.       *)
LEMMA ThenOut ==
    ASSUME NEW o \in OpsType, NEW a \in Op, NEW b \in Op, NEW p \in {"ok", "error"}, o[a][p] > 0
    PROVE  /\ Issue(Retire(o, a, p), b) \in OpsType
           /\ Out(o, a) >= 1
           /\ \A c \in Op : Out(o, c) \in Nat
           /\ \A c \in Op : Out(Issue(Retire(o, a, p), b), c) =
                Out(o, c) + (IF c = b THEN 1 ELSE 0) - (IF c = a THEN 1 ELSE 0)
<1> DEFINE r == Retire(o, a, p)
<1>1. /\ r \in OpsType /\ Out(o, a) >= 1
      /\ \A c \in Op : Out(r, c) = IF c = a THEN Out(o, c) - 1 ELSE Out(o, c)
  BY RetireOut
<1>2. /\ Issue(r, b) \in OpsType
      /\ \A c \in Op : Out(Issue(r, b), c) = IF c = b THEN Out(r, c) + 1 ELSE Out(r, c)
  BY <1>1, IssueOut
<1>3. \A c \in Op : Out(o, c) \in Nat
  BY OutNat
<1> HIDE DEF r
<1>4. \A c \in Op : Out(Issue(r, b), c) =
                Out(o, c) + (IF c = b THEN 1 ELSE 0) - (IF c = a THEN 1 ELSE 0)
  BY <1>1, <1>2, <1>3
<1> QED
  BY <1>1, <1>2, <1>3, <1>4 DEF r

LEMMA StopOpsType ==
    ASSUME NEW o \in OpsType, NEW s
    PROVE  StopOps(o, s) \in OpsType
<1> "shutdown" \in Op /\ "null_write" \in Op
  BY DEF Op, ServerOp
<1> QED
  BY IssueOut DEF StopOps

(* The moves of an operation, phase by phase.                              *)
LEMMA PhaseNat ==
    ASSUME NEW o \in OpsType, NEW op \in Op
    PROVE  /\ o[op]["pending"] \in Nat /\ o[op]["ok"] \in Nat /\ o[op]["error"] \in Nat
           /\ Out(o, op) = o[op]["pending"] + o[op]["ok"] + o[op]["error"]
BY DEF OpsType, Out, Phase

LEMMA IssueAt ==
    ASSUME NEW o \in OpsType, NEW a \in Op
    PROVE  \A b \in Op :
             /\ Issue(o, a)[b]["pending"] = IF b = a THEN o[b]["pending"] + 1 ELSE o[b]["pending"]
             /\ Issue(o, a)[b]["ok"] = o[b]["ok"] /\ Issue(o, a)[b]["error"] = o[b]["error"]
BY DEF OpsType, Issue, Phase

LEMMA SettleAt ==
    ASSUME NEW o \in OpsType, NEW a \in Op, NEW p \in {"ok", "error"}
    PROVE  /\ \A b \in Op \ {a}, q \in Phase : Settle(o, a, p)[b][q] = o[b][q]
           /\ Settle(o, a, p)[a]["pending"] = o[a]["pending"] - 1
           /\ Settle(o, a, p)[a][p] = o[a][p] + 1
           /\ \A q \in {"ok", "error"} \ {p} : Settle(o, a, p)[a][q] = o[a][q]
BY DEF OpsType, Settle, Phase

LEMMA RetireAt ==
    ASSUME NEW o \in OpsType, NEW a \in Op, NEW p \in {"ok", "error"}
    PROVE  /\ \A b \in Op \ {a}, q \in Phase : Retire(o, a, p)[b][q] = o[b][q]
           /\ Retire(o, a, p)[a][p] = o[a][p] - 1
           /\ \A q \in Phase \ {p} : Retire(o, a, p)[a][q] = o[a][q]
BY DEF OpsType, Retire, Phase

LEMMA ThenAt ==
    ASSUME NEW o \in OpsType, NEW a \in Op, NEW b \in Op, a # b, NEW p \in {"ok", "error"},
           o[a][p] > 0
    PROVE  /\ Issue(Retire(o, a, p), b) \in OpsType
           /\ \A e \in Op \ {a, b}, q \in Phase : Issue(Retire(o, a, p), b)[e][q] = o[e][q]
           /\ Issue(Retire(o, a, p), b)[a][p] = o[a][p] - 1
           /\ \A q \in Phase \ {p} : Issue(Retire(o, a, p), b)[a][q] = o[a][q]
           /\ Issue(Retire(o, a, p), b)[b]["pending"] = o[b]["pending"] + 1
           /\ \A q \in {"ok", "error"} : Issue(Retire(o, a, p), b)[b][q] = o[b][q]
<1> DEFINE r == Retire(o, a, p)
<1>1. r \in OpsType
  BY RetireOut
<1>2. /\ \A e \in Op \ {a}, q \in Phase : r[e][q] = o[e][q]
      /\ r[a][p] = o[a][p] - 1
      /\ \A q \in Phase \ {p} : r[a][q] = o[a][q]
  BY RetireAt
<1>3. /\ Issue(r, b) \in OpsType
      /\ \A e \in Op :
           /\ Issue(r, b)[e]["pending"] = IF e = b THEN r[e]["pending"] + 1 ELSE r[e]["pending"]
           /\ Issue(r, b)[e]["ok"] = r[e]["ok"] /\ Issue(r, b)[e]["error"] = r[e]["error"]
  BY <1>1, IssueAt, IssueOut
<1> HIDE DEF r
<1> QED
  BY <1>2, <1>3 DEF Phase, r

----
(* The writes whose message its peer has not got: under way, or failed.    *)
Unsent(o, op) == o[op]["pending"] + o[op]["error"]

(* At most one such operation is outstanding, so it is in one phase.       *)
Single(o, op) ==
    /\ o[op]["pending"] \in Nat /\ o[op]["ok"] \in Nat /\ o[op]["error"] \in Nat
    /\ Out(o, op) = o[op]["pending"] + o[op]["ok"] + o[op]["error"]
    /\ Out(o, op) <= 1

LEMMA NoneLeft ==
    ASSUME NEW o, NEW op, Single(o, op), Out(o, op) = 0
    PROVE  /\ o[op]["pending"] = 0 /\ o[op]["ok"] = 0 /\ o[op]["error"] = 0
           /\ Unsent(o, op) = 0
BY DEF Single, Unsent

LEMMA OneDone ==
    ASSUME NEW o, NEW op, Single(o, op), o[op]["ok"] > 0
    PROVE  /\ o[op]["pending"] = 0 /\ o[op]["ok"] = 1 /\ o[op]["error"] = 0
           /\ Unsent(o, op) = 0 /\ Out(o, op) = 1
BY DEF Single, Unsent

LEMMA OneFailed ==
    ASSUME NEW o, NEW op, Single(o, op), o[op]["error"] > 0
    PROVE  o[op]["pending"] = 0 /\ o[op]["ok"] = 0 /\ Out(o, op) = 1
BY DEF Single

LEMMA OnePending ==
    ASSUME NEW o, NEW op, Single(o, op), o[op]["pending"] > 0
    PROVE  o[op]["pending"] = 1 /\ o[op]["ok"] = 0 /\ o[op]["error"] = 0
           /\ Unsent(o, op) = 1 /\ Out(o, op) = 1
BY DEF Single, Unsent

LEMMA NonePending ==
    ASSUME NEW o, NEW op, Single(o, op), Out(o, op) = 0
    PROVE  o[op]["pending"] = 0
BY DEF Single

----
(* The operations that carry messages.                                     *)
Carriers == {"read_server", "write_client", "read_client", "write_server"}

LEMMA RetiredPending ==
    ASSUME NEW o \in OpsType, NEW a \in Op, NEW p \in {"ok", "error"}, NEW b \in Op
    PROVE  Retire(o, a, p)[b]["pending"] = o[b]["pending"]
<1>1. CASE b = a
  <2>1. \A q \in Phase \ {p} : Retire(o, a, p)[a][q] = o[a][q]
    BY RetireAt
  <2>2. "pending" \in Phase \ {p}
    BY DEF Phase
  <2> QED
    BY <1>1, <2>1, <2>2
<1>2. CASE b # a
  BY <1>2, RetireAt DEF Phase
<1> QED
  BY <1>1, <1>2

LEMMA StoppedPending ==
    ASSUME NEW x \in OpsType, NEW z, NEW b \in Carriers
    PROVE  StopOps(x, z)[b]["pending"] = x[b]["pending"]
<1> USE Names
<1> DEFINE y == Issue(x, "shutdown")
<1>1. b \in Op /\ b # "shutdown" /\ b # "null_write"
  BY DEF Carriers
<1>2. y \in OpsType /\ y[b]["pending"] = x[b]["pending"]
  BY <1>1, IssueAt, IssueOut
<1> HIDE DEF y
<1>3. Issue(y, "null_write")[b]["pending"] = y[b]["pending"]
  BY <1>1, <1>2, IssueAt
<1> QED
  BY <1>2, <1>3 DEF StopOps, y

----
(* The variables of Transport, but for state, whose values a protocol has  *)
(* yet to name, keep their types in every step this module defines.        *)
StreamsTyped ==
    /\ ops \in [Ids -> OpsType]
    /\ sock \in [Ids -> [Side -> SockState]]
    /\ rbuf \in [Ids -> [Side -> Chunks]]
    /\ wbuf \in [Ids -> [Side -> Chunks]]
    /\ taken \in [Ids -> [Side -> Nat]]
    /\ out \in [Ids -> [Side -> Seq(Chunks)]]
    /\ transferred \in [Ids -> [Side -> Nat]]
    /\ stream_id \in Nat \ {0}
    /\ running \in BOOLEAN

LEMMA InitTyped == Init => StreamsTyped
<1> SUFFICES ASSUME Init PROVE StreamsTyped
  OBVIOUS
<1> NoChunk \in Chunks
  BY ChunkType DEF NoChunk, ChunkKind
<1> QED
  BY DEF Init, StreamsTyped, OpsType, Idle, SockState

LEMMA KernelTyped ==
    ASSUME StreamsTyped, NEW id \in Ids, Kernel(id)
    PROVE  StreamsTyped' /\ state' = state
<1> USE OpNames
<1>1. ASSUME NEW side \in Side, Receive(id, side)
      PROVE  StreamsTyped' /\ state' = state
  <2>1. ops[id] \in OpsType /\ ops[id][ReadOp(side)]["pending"] > 0
    BY <1>1 DEF StreamsTyped, Receive, Pending
  <2>2. Settle(ops[id], ReadOp(side), "ok") \in OpsType
    BY <2>1, SettleOut
  <2>3. Chunk(side, taken[id][side] + 1) \in Chunks
    BY ChunkType DEF StreamsTyped, Side, ChunkKind
  <2> QED
    BY <1>1, <2>2, <2>3 DEF StreamsTyped, Receive, listener
<1>2. ASSUME NEW side \in Side, Send(id, side)
      PROVE  StreamsTyped' /\ state' = state
  <2>1. ops[id] \in OpsType /\ ops[id][WriteOp(side)]["pending"] > 0
    BY <1>2 DEF StreamsTyped, Send, Pending
  <2>2. Settle(ops[id], WriteOp(side), "ok") \in OpsType
    BY <2>1, SettleOut
  <2>3. Append(out[id][side], wbuf[id][side]) \in Seq(Chunks)
    BY DEF StreamsTyped
  <2> QED
    BY <1>2, <2>2, <2>3 DEF StreamsTyped, Send, listener, buffers
<1>3. ASSUME NEW op \in Op, Succeed(id, op)
      PROVE  StreamsTyped' /\ state' = state
  <2>1. ops[id] \in OpsType /\ ops[id][op]["pending"] > 0
    BY <1>3 DEF StreamsTyped, Succeed, Pending
  <2>2. Settle(ops[id], op, "ok") \in OpsType
    BY <2>1, SettleOut
  <2>3. sock' \in [Ids -> [Side -> SockState]]
    BY <1>3 DEF StreamsTyped, Succeed, SockState
  <2> QED
    BY <1>3, <2>2, <2>3 DEF StreamsTyped, Succeed, listener, buffers, peers
<1>4. ASSUME NEW op \in Op, Fail(id, op)
      PROVE  StreamsTyped' /\ state' = state
  <2>1. ops[id] \in OpsType /\ ops[id][op]["pending"] > 0
    BY <1>4 DEF StreamsTyped, Fail, Pending
  <2>2. Settle(ops[id], op, "error") \in OpsType
    BY <2>1, SettleOut
  <2> QED
    BY <1>4, <2>2 DEF StreamsTyped, Fail, listener, buffers, peers
<1> QED
  BY <1>1, <1>2, <1>3, <1>4 DEF Kernel

LEMMA TypedThen ==
    ASSUME StreamsTyped, NEW id \in Ids, NEW a \in Op, NEW b \in Op, NEW p \in {"ok", "error"},
           Completed(id, a, p), ops' = [ops EXCEPT ![id] = Issue(Retire(@, a, p), b)]
    PROVE  ops' \in [Ids -> OpsType]
<1>1. ops[id] \in OpsType /\ ops[id][a][p] > 0
  BY DEF StreamsTyped, Completed
<1>2. Issue(Retire(ops[id], a, p), b) \in OpsType
  BY <1>1, ThenType
<1> QED
  BY <1>2 DEF StreamsTyped

LEMMA StreamTyped ==
    ASSUME StreamsTyped, NEW id \in Ids, NEW handled,
           Handshaken(id) \/ Resolved(id) \/ TlsClosed(id) \/ Dropped(id, handled)
    PROVE  StreamsTyped' /\ state' = state
<1> USE OpNames
<1>1. CASE Handshaken(id)
  <2>1. ops' \in [Ids -> OpsType]
    BY <1>1, TypedThen DEF Handshaken, Then
  <2> QED
    BY <1>1, <2>1 DEF StreamsTyped, Handshaken, listener, buffers, peers
<1>2. CASE Resolved(id)
  <2>1. ops' \in [Ids -> OpsType]
    BY <1>2, TypedThen DEF Resolved, Then
  <2> QED
    BY <1>2, <2>1 DEF StreamsTyped, Resolved, listener, buffers, peers
<1>3. CASE TlsClosed(id)
  <2>1. PICK op \in {"shutdown", "null_write"}, p \in {"ok", "error"} :
          /\ Completed(id, op, p)
          /\ ops' = [ops EXCEPT ![id] = Retire(@, op, p)]
    BY <1>3 DEF TlsClosed
  <2>2. Retire(ops[id], op, p) \in OpsType
    BY <2>1, RetireOut DEF StreamsTyped, Completed
  <2> QED
    BY <1>3, <2>1, <2>2 DEF StreamsTyped, TlsClosed, listener, buffers, peers, SockState
<1>4. CASE Dropped(id, handled)
  <2>1. PICK op \in Op, p \in {"ok", "error"} :
          /\ Completed(id, op, p)
          /\ ops' = [ops EXCEPT ![id] = Retire(@, op, p)]
    BY <1>4 DEF Dropped
  <2>2. Retire(ops[id], op, p) \in OpsType
    BY <2>1, RetireOut DEF StreamsTyped, Completed
  <2> QED
    BY <1>4, <2>1, <2>2 DEF StreamsTyped, Dropped, listener, buffers, peers
<1> QED
  BY <1>1, <1>2, <1>3, <1>4

LEMMA StopTyped ==
    ASSUME StreamsTyped, NEW id \in Ids, NEW op \in Op, NEW p \in {"ok", "error"},
           Completed(id, op, p), Stop(id, op, p)
    PROVE  StreamsTyped' /\ state' = [state EXCEPT ![id] = "erased"]
<1>1. ops[id] \in OpsType /\ ops[id][op][p] > 0
  BY DEF StreamsTyped, Completed
<1>2. StopOps(Retire(ops[id], op, p), sock[id]) \in OpsType
  BY <1>1, RetireOut, StopOpsType
<1>3. StopSock(sock[id]) \in [Side -> SockState]
  BY DEF StreamsTyped, StopSock, SockState
<1> QED
  BY <1>2, <1>3 DEF StreamsTyped, Stop, listener, buffers, peers

LEMMA AcceptTyped ==
    ASSUME StreamsTyped, NEW first, Accept(first) \/ AcceptError \/ Signal
    PROVE  StreamsTyped' /\ (state' = state \/ state' = [state EXCEPT ![stream_id] = first])
<1> USE OpNames
<1>1. CASE Accept(first)
  <2>1. ops[stream_id] \in OpsType
    BY <1>1 DEF Accept, StreamsTyped
  <2>2. Issue(ops[stream_id], IF Tls THEN "handshake" ELSE "read_server") \in OpsType
    BY <2>1, IssueOut
  <2>3. ops' \in [Ids -> OpsType]
    BY <1>1, <2>2 DEF Accept, StreamsTyped
  <2>4. sock' \in [Ids -> [Side -> SockState]]
    BY <1>1 DEF Accept, StreamsTyped, SockState
  <2> QED
    BY <1>1, <2>3, <2>4 DEF Accept, StreamsTyped, buffers, peers
<1>2. CASE AcceptError
  BY <1>2 DEF AcceptError, StreamsTyped, listener, buffers, peers
<1>3. CASE Signal
  BY <1>3 DEF Signal, StreamsTyped, listener, buffers, peers
<1> QED
  BY <1>1, <1>2, <1>3

----
(* What a step on one session leaves alone.                                *)

(* A kernel step settles one operation and changes no table entry.         *)
Settles(id, op, p) ==
    /\ ops[id][op]["pending"] > 0
    /\ ops' = [ops EXCEPT ![id] = Settle(@, op, p)]
    /\ state' = state /\ stream_id' = stream_id
    /\ \A i \in Ids \ {id} : sock'[i] = sock[i]

LEMMA KernelSettles ==
    ASSUME StreamsTyped, NEW id \in Ids, Kernel(id)
    PROVE  \E op \in Op, p \in {"ok", "error"} : Settles(id, op, p)
<1> USE OpNames
<1>1. ASSUME NEW side \in Side, Receive(id, side)
      PROVE  Settles(id, ReadOp(side), "ok")
  BY <1>1 DEF Settles, Receive, Pending, listener
<1>2. ASSUME NEW side \in Side, Send(id, side)
      PROVE  Settles(id, WriteOp(side), "ok")
  BY <1>2 DEF Settles, Send, Pending, listener
<1>3. ASSUME NEW op \in Op, Succeed(id, op)
      PROVE  Settles(id, op, "ok")
  BY <1>3 DEF Settles, Succeed, Pending, listener, StreamsTyped
<1>4. ASSUME NEW op \in Op, Fail(id, op)
      PROVE  Settles(id, op, "error")
  BY <1>4 DEF Settles, Fail, Pending, listener
<1> QED
  BY <1>1, <1>2, <1>3, <1>4 DEF Kernel

(* An id with an operation is not fresh, so a step on it leaves the fresh  *)
(* ones as they are.                                                       *)
LEMMA StillFresh ==
    ASSUME StreamsTyped, FreshId, NEW id \in Ids, NEW op \in Op, NEW p \in Phase,
           ops[id][op][p] > 0,
           \A i \in Ids \ {id} : /\ ops'[i] = ops[i] /\ state'[i] = state[i]
                                 /\ sock'[i] = sock[i],
           stream_id' = stream_id
    PROVE  FreshId'
<1>1. ~(id >= stream_id)
  BY DEF FreshId, Idle
<1> QED
  BY <1>1 DEF FreshId

LEMMA AcceptFresh ==
    ASSUME StreamsTyped, FreshId, NEW first, Accept(first) \/ AcceptError \/ Signal
    PROVE  FreshId'
<1>1. CASE Accept(first)
  <2>1. /\ \A i \in Ids \ {stream_id} : /\ ops'[i] = ops[i] /\ state'[i] = state[i]
                                        /\ sock'[i] = sock[i]
        /\ stream_id' = stream_id + 1
    BY <1>1 DEF Accept, StreamsTyped
  <2> QED
    BY <2>1 DEF FreshId, StreamsTyped, Ids
<1>2. CASE AcceptError
  BY <1>2 DEF AcceptError, StreamsTyped, FreshId, Ids
<1>3. CASE Signal
  BY <1>3 DEF Signal, FreshId
<1> QED
  BY <1>1, <1>2, <1>3

(* Stopping the streams starts their two closing operations, or none.      *)
LEMMA StopOut ==
    ASSUME NEW r \in OpsType, NEW s
    PROVE  /\ StopOps(r, s) \in OpsType
           /\ \A c \in Op \ {"shutdown", "null_write"} :
                StopOps(r, s)[c] = r[c] /\ Out(StopOps(r, s), c) = Out(r, c)
           /\ \A c \in {"shutdown", "null_write"} : Out(StopOps(r, s), c) <= Out(r, c) + 1
<1> USE OpNames
<1> DEFINE x == StopOps(r, s)
           y == Issue(r, "shutdown")
<1>1. CASE x = r
  BY <1>1, OutNat
<1>2. CASE x = Issue(y, "null_write")
  <2>1. y \in OpsType /\ \A c \in Op : Out(y, c) = IF c = "shutdown" THEN Out(r, c) + 1 ELSE Out(r, c)
    BY IssueOut
  <2>2. /\ Issue(y, "null_write") \in OpsType
        /\ \A c \in Op : Out(Issue(y, "null_write"), c) =
             IF c = "null_write" THEN Out(y, c) + 1 ELSE Out(y, c)
    BY <2>1, IssueOut
  <2>3. \A c \in Op : Out(r, c) \in Nat
    BY OutNat
  <2>4. \A c \in Op \ {"shutdown", "null_write"} : Issue(y, "null_write")[c] = r[c]
    BY DEF Issue, OpsType
  <2> HIDE DEF x, y
  <2> QED
    BY <1>2, <2>1, <2>2, <2>3, <2>4 DEF x
<1> QED
  BY <1>1, <1>2 DEF StopOps

----
(* Sequences given as functions.                                           *)
LEMMA SameLen == ASSUME NEW a \in Nat, NEW b \in Nat, 1 .. a = 1 .. b PROVE a = b
<1>1. ASSUME a < b PROVE FALSE
  <2>1. b \in 1 .. b /\ b \notin 1 .. a
    BY <1>1
  <2> QED BY <2>1
<1>2. ASSUME b < a PROVE FALSE
  <2>1. a \in 1 .. a /\ a \notin 1 .. b
    BY <1>2
  <2> QED BY <2>1
<1> QED BY <1>1, <1>2

LEMMA FcnSeq ==
    ASSUME NEW S, NEW n \in Nat, NEW f \in [1 .. n -> S]
    PROVE  f \in Seq(S) /\ Len(f) = n
<1>1. f \in Seq(S)
  BY SeqDef
<1>2. Len(f) \in Nat /\ DOMAIN f = 1 .. Len(f)
  BY <1>1
<1>3. DOMAIN f = 1 .. n
  OBVIOUS
<1> QED
  BY <1>1, <1>2, <1>3, SameLen

LEMMA FcnAppend ==
    ASSUME NEW S, NEW n \in Nat, NEW f \in [1 .. n -> S], NEW g \in [1 .. n + 1 -> S],
           \A i \in 1 .. n : g[i] = f[i]
    PROVE  g = Append(f, g[n + 1])
<1>1. f \in Seq(S) /\ Len(f) = n
  BY FcnSeq
<1>2. g \in Seq(S) /\ Len(g) = n + 1
  BY FcnSeq
<1>3. g[n + 1] \in S
  OBVIOUS
<1> DEFINE h == Append(f, g[n + 1])
<1>4. h \in Seq(S) /\ Len(h) = n + 1 /\ (\A i \in 1 .. n : h[i] = f[i]) /\ h[n + 1] = g[n + 1]
  BY <1>1, <1>3, AppendProperties
<1> HIDE DEF h
<1>5. \A i \in 1 .. n + 1 : g[i] = h[i]
  BY <1>4
<1>6. g = h
  BY <1>2, <1>4, <1>5, SeqEqual
<1> QED
  BY <1>6 DEF h

LEMMA FcnEmpty ==
    ASSUME NEW S, NEW f \in [1 .. 0 -> S]
    PROVE  f = <<>>
BY FcnSeq, EmptySeq
====
