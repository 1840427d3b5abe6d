---- MODULE TunnelProofs ----
(***************************************************************************)
(* Theorems about the tunnel, for any number of sessions and messages.  A  *)
(* session has no state variable, so that the invariant is about what it   *)
(* has outstanding (Stands) and about what its two directions carry        *)
(* (Carries).  The last part proves that a session implements Relay.       *)
(***************************************************************************)
EXTENDS TunnelRelay, TLAPS

OpsType == [Op -> [Phase -> Nat]]

----
(* The moves of an operation, and what they do to the outstanding ones.    *)
LEMMA Names ==
    /\ "resolve" \in Op /\ "connect" \in Op /\ "handshake" \in Op
    /\ "shutdown" \in Op /\ "null_write" \in Op
    /\ "read_local" \in Op /\ "write_remote" \in Op
    /\ "read_remote" \in Op /\ "write_local" \in Op
    /\ "local" \in Side /\ "remote" \in Side
BY DEF Op, Connecting, Closing, Pump, Side

LEMMA SideNames ==
    ASSUME NEW side \in Side
    PROVE  /\ Other(side) \in Side /\ Other(side) # side /\ Other(Other(side)) = side
           /\ ReadOp(side) \in Op /\ WriteOp(side) \in Op
BY DEF Side, Other, ReadOp, WriteOp, Op, Connecting, Closing, Pump

LEMMA OutNat ==
    ASSUME NEW o \in OpsType, NEW op \in Op
    PROVE  /\ Out(o, op) \in Nat
           /\ o[op]["pending"] \in Nat /\ o[op]["ok"] \in Nat /\ o[op]["error"] \in Nat
           /\ Out(o, op) = o[op]["pending"] + o[op]["ok"] + o[op]["error"]
BY DEF OpsType, Out, Phase

LEMMA IssueOut ==
    ASSUME NEW o \in OpsType, NEW a \in Op
    PROVE  /\ Issue(o, a) \in OpsType
           /\ \A b \in Op : Out(Issue(o, a), b) = IF b = a THEN Out(o, b) + 1 ELSE Out(o, b)
           /\ \A b \in Op :
                /\ Issue(o, a)[b]["pending"] = IF b = a THEN o[b]["pending"] + 1 ELSE o[b]["pending"]
                /\ Issue(o, a)[b]["ok"] = o[b]["ok"] /\ Issue(o, a)[b]["error"] = o[b]["error"]
BY DEF OpsType, Issue, Out, Phase

LEMMA SettleOut ==
    ASSUME NEW o \in OpsType, NEW a \in Op, NEW p \in {"ok", "error"}, o[a]["pending"] > 0
    PROVE  /\ Settle(o, a, p) \in OpsType
           /\ \A b \in Op : Out(Settle(o, a, p), b) = Out(o, b)
           /\ \A b \in Op \ {a} : Settle(o, a, p)[b] = o[b]
           /\ Settle(o, a, p)[a]["pending"] = o[a]["pending"] - 1
           /\ Settle(o, a, p)[a][p] = o[a][p] + 1
           /\ \A q \in {"ok", "error"} \ {p} : Settle(o, a, p)[a][q] = o[a][q]
BY DEF OpsType, Settle, Out, Phase

LEMMA RetireOut ==
    ASSUME NEW o \in OpsType, NEW a \in Op, NEW p \in {"ok", "error"}, o[a][p] > 0
    PROVE  /\ Retire(o, a, p) \in OpsType
           /\ Out(o, a) >= 1
           /\ \A b \in Op : Out(Retire(o, a, p), b) = IF b = a THEN Out(o, b) - 1 ELSE Out(o, b)
           /\ \A b \in Op \ {a} : Retire(o, a, p)[b] = o[b]
           /\ Retire(o, a, p)[a][p] = o[a][p] - 1
           /\ \A q \in Phase \ {p} : Retire(o, a, p)[a][q] = o[a][q]
BY DEF OpsType, Retire, Out, Phase

LEMMA ThenOut ==
    ASSUME NEW o \in OpsType, NEW a \in Op, NEW b \in Op, a # b, o[a]["ok"] > 0
    PROVE  /\ Issue(Retire(o, a, "ok"), b) \in OpsType
           /\ Out(o, a) >= 1
           /\ \A e \in Op \ {a, b} : Out(Issue(Retire(o, a, "ok"), b), e) = Out(o, e)
           /\ Out(Issue(Retire(o, a, "ok"), b), a) = Out(o, a) - 1
           /\ Out(Issue(Retire(o, a, "ok"), b), b) = Out(o, b) + 1
           /\ \A e \in Op \ {a, b}, q \in Phase : Issue(Retire(o, a, "ok"), b)[e][q] = o[e][q]
           /\ Issue(Retire(o, a, "ok"), b)[a]["ok"] = o[a]["ok"] - 1
           /\ \A q \in {"pending", "error"} : Issue(Retire(o, a, "ok"), b)[a][q] = o[a][q]
           /\ Issue(Retire(o, a, "ok"), b)[b]["pending"] = o[b]["pending"] + 1
           /\ \A q \in {"ok", "error"} : Issue(Retire(o, a, "ok"), b)[b][q] = o[b][q]
<1> DEFINE r == Retire(o, a, "ok")
<1>1. /\ r \in OpsType /\ Out(o, a) >= 1
      /\ \A e \in Op : Out(r, e) = IF e = a THEN Out(o, e) - 1 ELSE Out(o, e)
      /\ \A e \in Op \ {a} : r[e] = o[e]
      /\ r[a]["ok"] = o[a]["ok"] - 1
      /\ \A q \in Phase \ {"ok"} : r[a][q] = o[a][q]
  BY RetireOut
<1>2. /\ Issue(r, b) \in OpsType
      /\ \A e \in Op : Out(Issue(r, b), e) = IF e = b THEN Out(r, e) + 1 ELSE Out(r, e)
      /\ \A e \in Op :
           /\ Issue(r, b)[e]["pending"] = IF e = b THEN r[e]["pending"] + 1 ELSE r[e]["pending"]
           /\ Issue(r, b)[e]["ok"] = r[e]["ok"] /\ Issue(r, b)[e]["error"] = r[e]["error"]
  BY <1>1, IssueOut
<1> HIDE DEF r
<1> QED
  BY <1>1, <1>2 DEF Phase, r

----
(* Every variable keeps its type.                                          *)
LEMMA InitType == Init => TypeOK
BY DEF Init, TypeOK, Idle

LEMMA KernelType ==
    ASSUME TypeOK, NEW id \in Ids, Kernel(id)
    PROVE  TypeOK'
<1> USE SideNames, Names DEF OpsType
<1>1. ASSUME NEW side \in Side, Receive(id, side)
      PROVE  TypeOK'
  <2>1. Settle(ops[id], ReadOp(side), "ok") \in OpsType
    BY <1>1, SettleOut DEF TypeOK, Receive, Pending
  <2> QED
    BY <1>1, <2>1 DEF TypeOK, Receive, server
<1>2. ASSUME NEW side \in Side, Send(id, side)
      PROVE  TypeOK'
  <2>1. Settle(ops[id], WriteOp(side), "ok") \in OpsType
    BY <1>2, SettleOut DEF TypeOK, Send, Pending
  <2>2. Append(out[id][side], buffer[id][Other(side)]) \in Seq(Nat)
    BY DEF TypeOK
  <2> QED
    BY <1>2, <2>1, <2>2 DEF TypeOK, Send, server
<1>3. ASSUME NEW op \in Op, Succeed(id, op)
      PROVE  TypeOK'
  <2>1. Settle(ops[id], op, "ok") \in OpsType
    BY <1>3, SettleOut DEF TypeOK, Succeed, Pending
  <2>2. sock' \in [Ids -> [Side -> {"none", "open", "closed"}]]
    BY <1>3 DEF TypeOK, Succeed
  <2> QED
    BY <1>3, <2>1, <2>2 DEF TypeOK, Succeed, server, data
<1>4. ASSUME NEW op \in Op, Fail(id, op)
      PROVE  TypeOK'
  <2>1. Settle(ops[id], op, "error") \in OpsType
    BY <1>4, SettleOut DEF TypeOK, Fail, Pending
  <2>2. sock' \in [Ids -> [Side -> {"none", "open", "closed"}]]
    <3>1. sock' = sock \/ sock' = [sock EXCEPT ![id]["remote"] = "open"]
      BY <1>4 DEF Fail
    <3>2. CASE sock' = [sock EXCEPT ![id]["remote"] = "open"]
      BY <3>2 DEF TypeOK
    <3> QED
      BY <3>1, <3>2 DEF TypeOK
  <2> QED
    BY <1>4, <2>1, <2>2 DEF TypeOK, Fail, server, data
<1> QED
  BY <1>1, <1>2, <1>3, <1>4 DEF Kernel

LEMMA CloseType ==
    ASSUME NEW o \in OpsType, NEW s
    PROVE  CloseRemote(o, s) \in OpsType
BY IssueOut, Names DEF CloseRemote

LEMMA TypedThen ==
    ASSUME TypeOK, NEW id \in Ids, NEW a \in Op, NEW b \in Op, Completed(id, a, "ok"), Then(id, a, b)
    PROVE  ops' \in [Ids -> OpsType]
<1>1. Issue(Retire(ops[id], a, "ok"), b) \in OpsType
  BY RetireOut, IssueOut DEF TypeOK, Completed, OpsType
<1> QED
  BY <1>1 DEF TypeOK, OpsType, Then

LEMMA DispatchType ==
    ASSUME TypeOK, NEW id \in Ids, Dispatch(id)
    PROVE  TypeOK'
<1> USE Names
<1>1. CASE Resolved(id)
  <2>1. ops' \in [Ids -> OpsType]
    BY <1>1, TypedThen DEF Resolved
  <2> QED
    BY <1>1, <2>1 DEF Resolved, TypeOK, server, data, OpsType
<1>2. CASE Connected(id)
  <2>1. ops' \in [Ids -> OpsType]
    BY <1>2, TypedThen DEF Connected
  <2> QED
    BY <1>2, <2>1 DEF Connected, TypeOK, server, data, OpsType
<1>3. CASE Handshaken(id)
  <2>1. Issue(Issue(Retire(ops[id], "handshake", "ok"), "read_local"), "read_remote") \in OpsType
    BY <1>3, RetireOut, IssueOut DEF Handshaken, TypeOK, Completed, OpsType
  <2> QED
    BY <1>3, <2>1 DEF Handshaken, TypeOK, server, data, OpsType
<1>4. ASSUME NEW side \in Side, Read(id, side) \/ Written(id, side)
      PROVE  TypeOK'
  <2>1. ops' \in [Ids -> OpsType]
    BY <1>4, TypedThen, SideNames DEF Read, Written
  <2> QED
    BY <1>4, <2>1 DEF Read, Written, TypeOK, server, data, OpsType
<1>5. CASE Leave(id)
  <2>1. PICK op \in Op : /\ Completed(id, op, "error")
                         /\ ops' = [ops EXCEPT ![id] = CloseRemote(Retire(@, op, "error"), sock[id])]
    BY <1>5 DEF Leave, Op
  <2>2. CloseRemote(Retire(ops[id], op, "error"), sock[id]) \in OpsType
    BY <2>1, RetireOut, CloseType DEF TypeOK, Completed, OpsType
  <2>3. CloseLocal(sock[id]) \in [Side -> {"none", "open", "closed"}]
    BY DEF CloseLocal, TypeOK
  <2> QED
    BY <1>5, <2>1, <2>2, <2>3 DEF Leave, TypeOK, server, data, OpsType
<1>6. CASE RemoteClosed(id)
  <2>1. PICK op \in Op, p \in {"ok", "error"} :
          Completed(id, op, p) /\ ops' = [ops EXCEPT ![id] = Retire(@, op, p)]
    BY <1>6 DEF RemoteClosed, Op
  <2>2. Retire(ops[id], op, p) \in OpsType
    BY <2>1, RetireOut DEF TypeOK, Completed, OpsType
  <2> QED
    BY <1>6, <2>1, <2>2 DEF RemoteClosed, TypeOK, server, data, OpsType
<1> QED
  BY <1>1, <1>2, <1>3, <1>4, <1>5, <1>6 DEF Dispatch

LEMMA ServerType ==
    ASSUME TypeOK, Accept \/ AcceptError \/ Signal
    PROVE  TypeOK'
<1>1. CASE Accept
  <2>1. Issue(ops[new_session], "resolve") \in OpsType
    BY <1>1, IssueOut, Names DEF Accept, TypeOK, OpsType
  <2>2. new_session \in Ids /\ new_session + 1 \in Nat \ {0}
    BY <1>1 DEF Accept, TypeOK
  <2>3. sock' \in [Ids -> [Side -> {"none", "open", "closed"}]]
    BY <1>1 DEF Accept, TypeOK
  <2>4. sessions' \subseteq Ids
    BY <1>1 DEF Accept, TypeOK
  <2> QED
    BY <1>1, <2>1, <2>2, <2>3, <2>4 DEF Accept, TypeOK, data, OpsType
<1>2. CASE AcceptError
  BY <1>2 DEF AcceptError, TypeOK, data
<1>3. CASE Signal
  BY <1>3 DEF Signal, TypeOK, data
<1> QED
  BY <1>1, <1>2, <1>3

LEMMA NextType == TypeOK /\ [Next]_vars => TypeOK'
<1> SUFFICES ASSUME TypeOK, [Next]_vars PROVE TypeOK'
  OBVIOUS
<1>1. CASE UNCHANGED vars
  BY <1>1 DEF TypeOK, vars
<1> QED
  BY <1>1, KernelType, DispatchType, ServerType DEF Next

(* Every reachable state of the tunnel is well typed; in particular no     *)
(* operation is retired that was not outstanding.                          *)
THEOREM TypeCorrect == Spec => []TypeOK
BY InitType, NextType, PTL DEF Spec

----
(* The inductive invariant.  Stands: what a session has outstanding, which *)
(* strengthens NeverIdle with the sessions that have not joined the        *)
(* manager yet and with those that have left it.                           *)
Stands(id, S, o, k) ==
    /\ id \in S =>
         /\ k["local"] = "open"
         /\ \A op \in Closing : Out(o, op) = 0
         /\ \/ Step(o) = 1 /\ \A side \in Side : Chain(o, side) = 0
            \/ Step(o) = 0 /\ \A side \in Side : Chain(o, side) = 1
    /\ id \notin S =>
         /\ k["local"] # "open" /\ Step(o) = 0
         /\ \A side \in Side : Chain(o, side) <= 1
    /\ k["local"] = "none" => \A op \in Op : Out(o, op) = 0

(* Carries: the buffer of a direction holds its last message, which has    *)
(* been sent unless the direction is between its read and its write.       *)
Held(o, side) ==
    o[ReadOp(side)]["ok"] + o[WriteOp(Other(side))]["pending"] + o[WriteOp(Other(side))]["error"]

Carries(id, S, o, k, b, t, u, side) ==
    /\ t[side] > 0 => b[side] = t[side]
    /\ Chain(o, side) = 1 => t[side] = Len(u[Other(side)]) + Held(o, side)
    /\ (id \in S /\ Chain(o, side) = 0) \/ k["local"] = "none" =>
         t[side] = 0 /\ u[Other(side)] = <<>>

SessionOf(id) ==
    /\ Stands(id, sessions, ops[id], sock[id])
    /\ \A side \in Side :
         Carries(id, sessions, ops[id], sock[id], buffer[id], taken[id], out[id], side)

Unused == \A id \in Ids : id >= new_session => id \notin sessions /\ sock[id]["local"] = "none"

IInv == TypeOK /\ Unused /\ \A id \in Ids : SessionOf(id)

LEMMA InitInv == Init => IInv
<1> SUFFICES ASSUME Init PROVE IInv
  OBVIOUS
<1>1. TypeOK
  BY InitType
<1>2. Unused
  BY Names DEF Init, Unused
<1>3. ASSUME NEW id \in Ids PROVE SessionOf(id)
  <2>1. ops[id] \in OpsType
    BY <1>1, <1>3 DEF TypeOK, OpsType
  <2>2. \A op \in Op : Out(ops[id], op) = 0
    BY <1>3 DEF Init, Idle, Out, Phase
  <2>3. Step(ops[id]) = 0 /\ \A side \in Side : Chain(ops[id], side) = 0
    BY <2>2, SideNames, Names DEF Step, Chain
  <2>4. sessions = {} /\ sock[id]["local"] = "none"
    BY <1>3, Names DEF Init
  <2>5. \A side \in Side : taken[id][side] = 0 /\ out[id][side] = <<>>
    BY <1>3 DEF Init
  <2> QED
    BY <2>2, <2>3, <2>4, <2>5, SideNames DEF SessionOf, Stands, Carries
<1> QED
  BY <1>1, <1>2, <1>3 DEF IInv

----
(* A step on one session that has something outstanding leaves the others, *)
(* and those not accepted yet, alone.                                      *)
OthersSame(id) ==
    \A i \in Ids \ {id} :
        /\ ops'[i] = ops[i] /\ sock'[i] = sock[i] /\ buffer'[i] = buffer[i]
        /\ taken'[i] = taken[i] /\ out'[i] = out[i]
        /\ (i \in sessions') <=> (i \in sessions)

LEMMA OneSession ==
    ASSUME IInv, NEW id \in Ids, OthersSame(id), new_session' = new_session,
           sock[id]["local"] # "none", SessionOf(id)'
    PROVE  Unused' /\ \A i \in Ids : SessionOf(i)'
<1>1. ASSUME NEW i \in Ids, i # id PROVE SessionOf(i)'
  <2>1. SessionOf(i)
    BY DEF IInv
  <2> QED
    BY <1>1, <2>1 DEF SessionOf, OthersSame, Stands, Carries
<1>2. Unused'
  BY DEF IInv, Unused, OthersSame
<1> QED
  BY <1>1, <1>2

(* What is known of a session that has something outstanding.              *)
LEMMA Facts ==
    ASSUME IInv, NEW id \in Ids
    PROVE  /\ ops[id] \in OpsType /\ sock[id] \in [Side -> {"none", "open", "closed"}]
           /\ buffer[id] \in [Side -> Nat] /\ taken[id] \in [Side -> Nat]
           /\ out[id] \in [Side -> Seq(Nat)]
           /\ \A side \in Side : Len(out[id][side]) \in Nat
           /\ Stands(id, sessions, ops[id], sock[id])
           /\ \A side \in Side :
                Carries(id, sessions, ops[id], sock[id], buffer[id], taken[id], out[id], side)
           /\ \A op \in Op, p \in Phase : ops[id][op][p] > 0 => sock[id]["local"] # "none"
<1>1. ops[id] \in OpsType /\ SessionOf(id)
  BY DEF IInv, TypeOK, OpsType
<1>2. \A op \in Op, p \in Phase : ops[id][op][p] > 0 => Out(ops[id], op) > 0
  BY <1>1, OutNat DEF Phase
<1>3. out[id] \in [Side -> Seq(Nat)]
  BY DEF IInv, TypeOK
<1> QED
  BY <1>1, <1>2, <1>3 DEF IInv, TypeOK, SessionOf, Stands

LEMMA Sums ==
    ASSUME NEW o \in OpsType
    PROVE  /\ Chain(o, "local") = Out(o, "read_local") + Out(o, "write_remote")
           /\ Chain(o, "remote") = Out(o, "read_remote") + Out(o, "write_local")
           /\ Held(o, "local") = o["read_local"]["ok"]
                               + o["write_remote"]["pending"] + o["write_remote"]["error"]
           /\ Held(o, "remote") = o["read_remote"]["ok"]
                                + o["write_local"]["pending"] + o["write_local"]["error"]
           /\ \A side \in Side : Chain(o, side) \in Nat /\ Held(o, side) \in Nat
           /\ Step(o) \in Nat
<1>1. /\ Chain(o, "local") = Out(o, "read_local") + Out(o, "write_remote")
      /\ Chain(o, "remote") = Out(o, "read_remote") + Out(o, "write_local")
      /\ Held(o, "local") = o["read_local"]["ok"]
                               + o["write_remote"]["pending"] + o["write_remote"]["error"]
      /\ Held(o, "remote") = o["read_remote"]["ok"]
                                + o["write_local"]["pending"] + o["write_local"]["error"]
  BY DEF Chain, Held, ReadOp, WriteOp, Other
<1>2. /\ Chain(o, "local") \in Nat /\ Chain(o, "remote") \in Nat
      /\ Held(o, "local") \in Nat /\ Held(o, "remote") \in Nat
  BY <1>1, OutNat, Names
<1>3. Step(o) \in Nat
  BY OutNat, Names DEF Step
<1> QED
  BY <1>1, <1>2, <1>3 DEF Side

----
(* The kernel settles one operation: what is outstanding stays.            *)
LEMMA SettledStands ==
    ASSUME NEW id, NEW S, NEW o \in OpsType, NEW x \in OpsType, NEW k,
           \A op \in Op : Out(x, op) = Out(o, op), Stands(id, S, o, k)
    PROVE  /\ Stands(id, S, x, k)
           /\ \A side \in Side : Chain(x, side) = Chain(o, side)
           /\ Step(x) = Step(o)
<1>1. \A side \in Side : Chain(x, side) = Chain(o, side)
  BY SideNames DEF Chain
<1>2. Step(x) = Step(o)
  BY Names DEF Step
<1> QED
  BY <1>1, <1>2 DEF Stands, Closing, Op

LEMMA LocalStands ==
    ASSUME NEW id, NEW S, NEW o, NEW k, NEW l, l["local"] = k["local"], Stands(id, S, o, k)
    PROVE  Stands(id, S, o, l)
BY DEF Stands

(* The operations of a direction are its own.                              *)
LEMMA OwnOps ==
    ASSUME NEW side \in Side, NEW other \in Side, other # side
    PROVE  /\ ReadOp(side) # WriteOp(Other(side)) /\ ReadOp(side) # ReadOp(other)
           /\ ReadOp(side) # WriteOp(Other(other)) /\ WriteOp(Other(side)) # WriteOp(Other(other))
           /\ ReadOp(side) \notin Connecting \union Closing
           /\ WriteOp(side) \notin Connecting \union Closing
           /\ other = Other(side)
BY DEF Side, ReadOp, WriteOp, Other, Connecting, Closing

(* One that is no data operation, or fails, changes nothing of what is     *)
(* carried.                                                                *)
LEMMA SettledHeld ==
    ASSUME NEW o \in OpsType, NEW a \in Op, NEW p \in {"ok", "error"}, o[a]["pending"] > 0,
           a \in Connecting \union Closing \/ p = "error", NEW side \in Side
    PROVE  Held(Settle(o, a, p), side) = Held(o, side)
<1> DEFINE x == Settle(o, a, p)
           r == ReadOp(side)
           w == WriteOp(Other(side))
<1>1. r \in Op /\ w \in Op /\ r # w /\ r \notin Connecting \union Closing
      /\ w \notin Connecting \union Closing
  BY SideNames, OwnOps
<1>2. /\ \A b \in Op \ {a} : x[b] = o[b]
      /\ x[a]["pending"] = o[a]["pending"] - 1
      /\ x[a][p] = o[a][p] + 1
      /\ \A q \in {"ok", "error"} \ {p} : x[a][q] = o[a][q]
  BY SettleOut
<1>3. o[a]["pending"] \in Nat /\ o[a]["error"] \in Nat /\ o[r]["ok"] \in Nat
  BY <1>1, OutNat
<1> HIDE DEF x, r, w
<1>4. CASE a \notin {r, w}
  BY <1>1, <1>2, <1>4 DEF Held, x, r, w
<1>5. CASE a = r
  <2>1. p = "error"
    BY <1>1, <1>5
  <2>2. x[r]["ok"] = o[r]["ok"] /\ x[w] = o[w]
    BY <1>1, <1>2, <1>5, <2>1
  <2> QED
    BY <2>2 DEF Held, x, r, w
<1>6. CASE a = w
  <2>1. p = "error"
    BY <1>1, <1>6
  <2>2. /\ x[r] = o[r] /\ x[w]["pending"] = o[w]["pending"] - 1
        /\ x[w]["error"] = o[w]["error"] + 1
    BY <1>1, <1>2, <1>6, <2>1
  <2>3. x[r]["ok"] + x[w]["pending"] + x[w]["error"] = o[r]["ok"] + o[w]["pending"] + o[w]["error"]
    BY <2>2, <1>3, <1>6
  <2> QED
    BY <2>3 DEF Held, x, r, w
<1> QED
  BY <1>4, <1>5, <1>6

(* A read that succeeds puts a message into its direction.                 *)
LEMMA ReadHeld ==
    ASSUME NEW o \in OpsType, NEW side \in Side, o[ReadOp(side)]["pending"] > 0
    PROVE  /\ Held(Settle(o, ReadOp(side), "ok"), side) = Held(o, side) + 1
           /\ \A other \in Side \ {side} :
                Held(Settle(o, ReadOp(side), "ok"), other) = Held(o, other)
<1> DEFINE r == ReadOp(side)
           w == WriteOp(Other(side))
           x == Settle(o, r, "ok")
<1>1. r \in Op /\ w \in Op /\ r # w
  BY SideNames DEF ReadOp, WriteOp, Other
<1>2. (\A b \in Op \ {r} : x[b] = o[b]) /\ x[r]["ok"] = o[r]["ok"] + 1
  BY <1>1, SettleOut
<1>3. o[r]["ok"] \in Nat /\ o[w]["pending"] \in Nat /\ o[w]["error"] \in Nat
  BY <1>1, OutNat
<1>4. \A other \in Side \ {side} : Held(x, other) = Held(o, other)
  BY <1>2, SideNames, OwnOps DEF Held
<1>5. Held(x, side) = o[r]["ok"] + 1 + o[w]["pending"] + o[w]["error"]
  BY <1>1, <1>2 DEF Held
<1>6. Held(o, side) = o[r]["ok"] + o[w]["pending"] + o[w]["error"]
  BY DEF Held
<1> HIDE DEF x, r, w
<1>7. Held(x, side) = Held(o, side) + 1
  BY <1>3, <1>5, <1>6
<1> QED
  BY <1>4, <1>7 DEF x, r

(* A write that succeeds takes it out.                                     *)
LEMMA WriteHeld ==
    ASSUME NEW o \in OpsType, NEW side \in Side, o[WriteOp(Other(side))]["pending"] > 0
    PROVE  /\ Held(Settle(o, WriteOp(Other(side)), "ok"), side) = Held(o, side) - 1
           /\ \A other \in Side \ {side} :
                Held(Settle(o, WriteOp(Other(side)), "ok"), other) = Held(o, other)
<1> DEFINE r == ReadOp(side)
           w == WriteOp(Other(side))
           x == Settle(o, w, "ok")
<1>1. r \in Op /\ w \in Op /\ r # w
  BY SideNames DEF ReadOp, WriteOp, Other
<1>2. /\ \A b \in Op \ {w} : x[b] = o[b]
      /\ x[w]["pending"] = o[w]["pending"] - 1 /\ x[w]["error"] = o[w]["error"]
  BY <1>1, SettleOut
<1>3. o[r]["ok"] \in Nat /\ o[w]["pending"] \in Nat /\ o[w]["error"] \in Nat
  BY <1>1, OutNat
<1>4. \A other \in Side \ {side} : Held(x, other) = Held(o, other)
  BY <1>2, SideNames, OwnOps DEF Held
<1>5. Held(x, side) = o[r]["ok"] + (o[w]["pending"] - 1) + o[w]["error"]
  BY <1>1, <1>2 DEF Held
<1>6. Held(o, side) = o[r]["ok"] + o[w]["pending"] + o[w]["error"]
  BY DEF Held
<1> HIDE DEF x, r, w
<1>7. Held(x, side) = Held(o, side) - 1
  BY <1>3, <1>5, <1>6
<1> QED
  BY <1>4, <1>7 DEF x, w

(* A direction with something outstanding has exactly that.                *)
LEMMA ChainBusy ==
    ASSUME NEW id, NEW S, NEW o \in OpsType, NEW k, Stands(id, S, o, k), NEW side \in Side,
           NEW op \in {ReadOp(side), WriteOp(Other(side))}, NEW p \in Phase, o[op][p] > 0
    PROVE  Out(o, op) = 1 /\ Chain(o, side) = 1 /\ Step(o) = 0 /\ k["local"] # "none"
<1>1. op \in Op /\ ReadOp(side) \in Op /\ WriteOp(Other(side)) \in Op
  BY SideNames
<1>2. /\ Out(o, op) \in Nat /\ Out(o, op) >= 1
      /\ Out(o, ReadOp(side)) \in Nat /\ Out(o, WriteOp(Other(side))) \in Nat
  BY <1>1, OutNat DEF Phase
<1>3. Chain(o, side) \in Nat /\ Chain(o, side) >= Out(o, op) /\ Step(o) \in Nat
  BY <1>2, Sums DEF Chain
<1>4. Chain(o, side) <= 1
  BY <1>3 DEF Stands
<1>5. k["local"] # "none"
  BY <1>1, <1>2 DEF Stands
<1> QED
  BY <1>2, <1>3, <1>4, <1>5 DEF Stands

LEMMA KernelInv ==
    ASSUME IInv, NEW id \in Ids, Kernel(id)
    PROVE  Unused' /\ \A i \in Ids : SessionOf(i)'
<1> DEFINE o == ops[id]
           t == taken[id]
           u == out[id]
<1>0. /\ o \in OpsType /\ sock[id] \in [Side -> {"none", "open", "closed"}]
      /\ t \in [Side -> Nat] /\ u \in [Side -> Seq(Nat)] /\ buffer[id] \in [Side -> Nat]
      /\ \A side \in Side : Len(u[side]) \in Nat
      /\ Stands(id, sessions, o, sock[id])
      /\ \A side \in Side : Carries(id, sessions, o, sock[id], buffer[id], t, u, side)
      /\ \A op \in Op, p \in Phase : o[op][p] > 0 => sock[id]["local"] # "none"
  BY Facts
<1>1. ASSUME NEW side \in Side, Receive(id, side)
      PROVE  Unused' /\ \A i \in Ids : SessionOf(i)'
  <2> DEFINE r == ReadOp(side)
             x == Settle(o, r, "ok")
  <2>1. o[r]["pending"] > 0 /\ r \in Op
    BY <1>1, SideNames DEF Receive, Pending
  <2>2. /\ ops'[id] = x /\ sock'[id] = sock[id] /\ out'[id] = u
        /\ taken'[id] = [t EXCEPT ![side] = t[side] + 1]
        /\ buffer'[id] = [buffer[id] EXCEPT ![side] = t[side] + 1]
        /\ sessions' = sessions /\ new_session' = new_session
    BY <1>1 DEF Receive, IInv, TypeOK, server
  <2>3. OthersSame(id)
    BY <1>1 DEF Receive, OthersSame, IInv, TypeOK
  <2>4. x \in OpsType /\ \A op \in Op : Out(x, op) = Out(o, op)
    BY <1>0, <2>1, SettleOut
  <2>5. /\ Stands(id, sessions, x, sock[id])
        /\ \A d \in Side : Chain(x, d) = Chain(o, d)
    <3>1. Stands(id, sessions, o, sock[id]) /\ o \in OpsType
      BY <1>0
    <3> HIDE DEF x, o
    <3> QED
      BY <2>4, <3>1, SettledStands
  <2>6. Held(x, side) = Held(o, side) + 1 /\ \A d \in Side \ {side} : Held(x, d) = Held(o, d)
    BY <1>0, <2>1, ReadHeld
  <2>7. Chain(o, side) = 1 /\ sock[id]["local"] # "none"
    BY <1>0, <2>1, ChainBusy DEF Phase
  <2>8. Held(o, side) \in Nat
    BY <1>0, Sums
  <2> HIDE DEF x, o, t, u
  <2>9. Carries(id, sessions, x, sock[id], buffer'[id], taken'[id], u, side)
    <3>1. /\ taken'[id][side] = t[side] + 1 /\ buffer'[id][side] = t[side] + 1
          /\ Len(u[Other(side)]) \in Nat /\ Chain(x, side) = 1
      BY <1>0, <2>2, <2>5, <2>7, SideNames
    <3>2. t[side] = Len(u[Other(side)]) + Held(o, side)
      BY <1>0, <2>7 DEF Carries
    <3>3. taken'[id][side] = Len(u[Other(side)]) + Held(x, side)
      BY <2>6, <2>8, <3>1, <3>2
    <3> QED
      BY <2>7, <3>1, <3>3 DEF Carries
  <2>10. ASSUME NEW d \in Side, d # side
         PROVE  Carries(id, sessions, x, sock[id], buffer'[id], taken'[id], u, d)
    <3>1. taken'[id][d] = t[d] /\ buffer'[id][d] = buffer[id][d]
      BY <1>0, <2>2, <2>10
    <3>2. Carries(id, sessions, o, sock[id], buffer[id], t, u, d)
      BY <1>0
    <3> QED
      BY <3>1, <3>2, <2>5, <2>6, <2>10 DEF Carries
  <2>11. SessionOf(id)'
    BY <2>2, <2>5, <2>9, <2>10 DEF SessionOf
  <2> QED
    BY <2>2, <2>3, <2>7, <2>11, OneSession
<1>2. ASSUME NEW to \in Side, Send(id, to)
      PROVE  Unused' /\ \A i \in Ids : SessionOf(i)'
  <2> DEFINE side == Other(to)
             w == WriteOp(to)
             x == Settle(o, w, "ok")
  <2>0. side \in Side /\ Other(side) = to /\ side # to
    BY SideNames
  <2>1. o[w]["pending"] > 0 /\ w \in Op
    BY <1>2, SideNames DEF Send, Pending
  <2>2. /\ ops'[id] = x /\ sock'[id] = sock[id] /\ taken'[id] = t /\ buffer'[id] = buffer[id]
        /\ out'[id] = [u EXCEPT ![to] = Append(u[to], buffer[id][side])]
        /\ sessions' = sessions /\ new_session' = new_session
    BY <1>2 DEF Send, IInv, TypeOK, server
  <2>3. OthersSame(id)
    BY <1>2 DEF Send, OthersSame, IInv, TypeOK
  <2>4. x \in OpsType /\ \A op \in Op : Out(x, op) = Out(o, op)
    BY <1>0, <2>1, SettleOut
  <2>5. /\ Stands(id, sessions, x, sock[id])
        /\ \A d \in Side : Chain(x, d) = Chain(o, d)
    <3>1. Stands(id, sessions, o, sock[id]) /\ o \in OpsType
      BY <1>0
    <3> HIDE DEF x, o
    <3> QED
      BY <2>4, <3>1, SettledStands
  <2>6. Held(x, side) = Held(o, side) - 1 /\ \A d \in Side \ {side} : Held(x, d) = Held(o, d)
    BY <1>0, <2>0, <2>1, WriteHeld
  <2>7. Chain(o, side) = 1 /\ sock[id]["local"] # "none"
    BY <1>0, <2>0, <2>1, ChainBusy DEF Phase
  <2>8. Held(o, side) \in Nat
    BY <1>0, <2>0, Sums
  <2>9. out'[id][to] = Append(u[to], buffer[id][side]) /\ out'[id][side] = u[side]
    BY <1>0, <2>0, <2>2
  <2>10. Len(out'[id][to]) = Len(u[to]) + 1
    BY <1>0, <2>0, <2>9
  <2> HIDE DEF x, o, t, u, side
  <2>11. Carries(id, sessions, x, sock[id], buffer[id], t, out'[id], side)
    <3>1. t[side] = Len(u[to]) + Held(o, side) /\ (t[side] > 0 => buffer[id][side] = t[side])
      BY <1>0, <2>0, <2>7 DEF Carries
    <3>2. Len(u[to]) \in Nat
      BY <1>0
    <3>3. t[side] = Len(out'[id][to]) + Held(x, side)
      BY <2>6, <2>8, <2>10, <3>1, <3>2
    <3> QED
      BY <2>0, <2>5, <2>7, <3>1, <3>3 DEF Carries
  <2>12. Carries(id, sessions, x, sock[id], buffer[id], t, out'[id], to)
    <3>1. Carries(id, sessions, o, sock[id], buffer[id], t, u, to)
      BY <1>0
    <3>2. Other(to) = side
      BY DEF side
    <3> QED
      BY <2>0, <2>5, <2>6, <2>9, <3>1, <3>2 DEF Carries
  <2>13. SessionOf(id)'
    <3>1. \A d \in Side : d = side \/ d = to
      BY <2>0 DEF Side
    <3> QED
      BY <2>2, <2>5, <2>11, <2>12, <3>1 DEF SessionOf
  <2> QED
    BY <2>2, <2>3, <2>7, <2>13, OneSession
<1>3. ASSUME NEW op \in Op, NEW p \in {"ok", "error"}, o[op]["pending"] > 0,
             op \in Connecting \union Closing \/ p = "error",
             ops' = [ops EXCEPT ![id] = Settle(@, op, p)],
             sock' = sock \/ sock' = [sock EXCEPT ![id]["remote"] = "open"],
             UNCHANGED <<data, sessions, server>>
      PROVE  Unused' /\ \A i \in Ids : SessionOf(i)'
  <2> DEFINE x == Settle(o, op, p)
  <2>1. ops'[id] = x
    BY <1>3 DEF IInv, TypeOK
  <2>2. sock'[id]["local"] = sock[id]["local"]
    <3>1. CASE sock' = sock
      BY <3>1
    <3>2. CASE sock' = [sock EXCEPT ![id]["remote"] = "open"]
      BY <3>2 DEF IInv, TypeOK
    <3> QED
      BY <1>3, <3>1, <3>2
  <2>3. OthersSame(id) /\ new_session' = new_session /\ sessions' = sessions
        /\ taken'[id] = t /\ out'[id] = u /\ buffer'[id] = buffer[id]
    BY <1>3 DEF OthersSame, data, server, IInv, TypeOK
  <2>4. x \in OpsType /\ \A b \in Op : Out(x, b) = Out(o, b)
    BY <1>0, <1>3, SettleOut
  <2>5. /\ Stands(id, sessions, x, sock'[id])
        /\ \A d \in Side : Chain(x, d) = Chain(o, d)
    <3>1. Stands(id, sessions, o, sock[id]) /\ o \in OpsType
      BY <1>0
    <3> HIDE DEF x, o
    <3>2. Stands(id, sessions, x, sock[id]) /\ \A d \in Side : Chain(x, d) = Chain(o, d)
      BY <2>4, <3>1, SettledStands
    <3> QED
      BY <2>2, <3>2, LocalStands
  <2>6. \A d \in Side : Held(x, d) = Held(o, d)
    BY <1>0, <1>3, SettledHeld
  <2>7. sock[id]["local"] # "none"
    BY <1>0, <1>3 DEF Phase
  <2> HIDE DEF x, o, t, u
  <2>8. \A d \in Side : Carries(id, sessions, x, sock'[id], buffer[id], t, u, d)
    BY <1>0, <2>2, <2>5, <2>6 DEF Carries
  <2>9. SessionOf(id)'
    BY <2>1, <2>3, <2>5, <2>8 DEF SessionOf
  <2> QED
    BY <2>3, <2>7, <2>9, OneSession
<1>4. ASSUME NEW op \in Op, Succeed(id, op)
      PROVE  Unused' /\ \A i \in Ids : SessionOf(i)'
  BY <1>3, <1>4 DEF Succeed, Pending
<1>5. ASSUME NEW op \in Op, Fail(id, op)
      PROVE  Unused' /\ \A i \in Ids : SessionOf(i)'
  BY <1>3, <1>5 DEF Fail, Pending
<1> QED
  BY <1>1, <1>2, <1>4, <1>5 DEF Kernel

----
(* The handlers.  One that touches no data operation changes nothing of    *)
(* what is carried.                                                        *)
LEMMA SamePump ==
    ASSUME NEW o, NEW x, \A op \in Pump, p \in Phase : x[op][p] = o[op][p]
    PROVE  \A side \in Side : Chain(x, side) = Chain(o, side) /\ Held(x, side) = Held(o, side)
BY DEF Pump, Phase, Side, Chain, Held, Out, ReadOp, WriteOp, Other

LEMMA SameCarries ==
    ASSUME NEW id, NEW S, NEW o, NEW x, NEW k, NEW b, NEW t, NEW u, NEW side \in Side,
           Chain(x, side) = Chain(o, side), Held(x, side) = Held(o, side),
           Carries(id, S, o, k, b, t, u, side)
    PROVE  Carries(id, S, x, k, b, t, u, side)
BY DEF Carries

(* The connecting operations follow one another.                           *)
LEMMA ConnectingThen ==
    ASSUME NEW id, NEW S, NEW o \in OpsType, NEW k, Stands(id, S, o, k),
           NEW a \in Connecting, NEW b \in Connecting, a # b, o[a]["ok"] > 0
    PROVE  /\ Stands(id, S, Issue(Retire(o, a, "ok"), b), k)
           /\ \A side \in Side : /\ Chain(Issue(Retire(o, a, "ok"), b), side) = Chain(o, side)
                                 /\ Held(Issue(Retire(o, a, "ok"), b), side) = Held(o, side)
           /\ Step(Issue(Retire(o, a, "ok"), b)) = Step(o)
<1> DEFINE x == Issue(Retire(o, a, "ok"), b)
<1>1. a \in Op /\ b \in Op /\ a \notin Pump /\ b \notin Pump
      /\ a \notin Closing /\ b \notin Closing
  BY DEF Op, Connecting, Pump, Closing
<1>2. /\ x \in OpsType
      /\ Out(o, a) >= 1
      /\ \A e \in Op \ {a, b} : Out(x, e) = Out(o, e)
      /\ Out(x, a) = Out(o, a) - 1
      /\ Out(x, b) = Out(o, b) + 1
      /\ \A e \in Op \ {a, b}, q \in Phase : x[e][q] = o[e][q]
  BY <1>1, ThenOut
<1>3. Out(o, "resolve") \in Nat /\ Out(o, "connect") \in Nat /\ Out(o, "handshake") \in Nat
  BY OutNat, Names
<1>4. Out(o, a) > 0
  BY <1>1, <1>2, OutNat
<1> HIDE DEF x
<1>5. \A side \in Side : Chain(x, side) = Chain(o, side) /\ Held(x, side) = Held(o, side)
  <2>1. \A op \in Pump, p \in Phase : x[op][p] = o[op][p]
    BY <1>1, <1>2 DEF Op
  <2> QED
    BY <2>1, SamePump
<1>6. Step(x) = Step(o)
  BY <1>2, <1>3, Names DEF Step, Connecting
<1>7. \A op \in Closing : Out(x, op) = Out(o, op)
  BY <1>1, <1>2 DEF Op
<1>8. k["local"] # "none"
  BY <1>1, <1>4 DEF Stands
<1>9. Stands(id, S, x, k)
  BY <1>5, <1>6, <1>7, <1>8 DEF Stands
<1> QED
  BY <1>5, <1>6, <1>9 DEF x

(* The handshake starts both directions, empty.                            *)
LEMMA HandshakenStands ==
    ASSUME NEW id, NEW S, NEW o \in OpsType, NEW k, Stands(id, S, o, k),
           o["handshake"]["ok"] > 0,
           NEW x, x = Issue(Issue(Retire(o, "handshake", "ok"), "read_local"), "read_remote")
    PROVE  /\ id \in S /\ k["local"] = "open" /\ Stands(id, S, x, k) /\ Step(o) = 1
           /\ \A side \in Side : Chain(o, side) = 0 /\ Chain(x, side) = 1 /\ Held(x, side) = 0
<1> DEFINE y == Issue(Retire(o, "handshake", "ok"), "read_local")
<1>1. /\ y \in OpsType
      /\ Out(o, "handshake") >= 1
      /\ \A e \in Op \ {"handshake", "read_local"} : Out(y, e) = Out(o, e)
      /\ Out(y, "handshake") = Out(o, "handshake") - 1
      /\ Out(y, "read_local") = Out(o, "read_local") + 1
      /\ \A e \in Op \ {"handshake", "read_local"}, q \in Phase : y[e][q] = o[e][q]
      /\ \A q \in {"ok", "error"} : y["read_local"][q] = o["read_local"][q]
  BY Names, ThenOut
<1>2. /\ x \in OpsType
      /\ \A e \in Op : Out(x, e) = IF e = "read_remote" THEN Out(y, e) + 1 ELSE Out(y, e)
      /\ \A e \in Op :
           /\ x[e]["pending"] = IF e = "read_remote" THEN y[e]["pending"] + 1 ELSE y[e]["pending"]
           /\ x[e]["ok"] = y[e]["ok"] /\ x[e]["error"] = y[e]["error"]
  <2>1. x = Issue(y, "read_remote")
    OBVIOUS
  <2> HIDE DEF y
  <2>2. y \in OpsType /\ "read_remote" \in Op
    BY <1>1, Names
  <2> QED
    BY <2>1, <2>2, IssueOut
<1> HIDE DEF y
<1>3. /\ Out(o, "resolve") \in Nat /\ Out(o, "connect") \in Nat /\ Out(o, "handshake") \in Nat
      /\ Out(o, "read_local") \in Nat /\ Out(o, "write_remote") \in Nat
      /\ Out(o, "read_remote") \in Nat /\ Out(o, "write_local") \in Nat
  BY OutNat, Names
<1>4. Step(o) >= 1
  BY <1>1, <1>3 DEF Step
<1>5. /\ id \in S /\ Step(o) = 1 /\ k["local"] = "open" /\ \A side \in Side : Chain(o, side) = 0
      /\ \A op \in Closing : Out(o, op) = 0
  BY <1>4 DEF Stands
<1>6. Step(x) = 0
  <2>1. Out(x, "resolve") = Out(o, "resolve") /\ Out(x, "connect") = Out(o, "connect")
    BY <1>1, <1>2, Names
  <2>2. Out(x, "handshake") = Out(o, "handshake") - 1
    BY <1>1, <1>2, Names
  <2> QED
    BY <2>1, <2>2, <1>3, <1>5 DEF Step
<1>7. /\ Out(o, "read_local") = 0 /\ Out(o, "write_remote") = 0
      /\ Out(o, "read_remote") = 0 /\ Out(o, "write_local") = 0
  BY <1>3, <1>5, Sums, Names
<1>8. /\ Out(x, "read_local") = 1 /\ Out(x, "write_remote") = 0
      /\ Out(x, "read_remote") = 1 /\ Out(x, "write_local") = 0
  <2>1. Out(x, "read_local") = Out(y, "read_local") /\ Out(x, "read_remote") = Out(y, "read_remote") + 1
    BY <1>2, Names
  <2>2. Out(x, "write_remote") = Out(o, "write_remote") /\ Out(x, "write_local") = Out(o, "write_local")
    BY <1>1, <1>2, Names
  <2>3. Out(y, "read_local") = Out(o, "read_local") + 1 /\ Out(y, "read_remote") = Out(o, "read_remote")
    BY <1>1, Names
  <2> QED
    BY <2>1, <2>2, <2>3, <1>7
<1>9. \A side \in Side : Chain(x, side) = 1
  BY <1>2, <1>8, Sums DEF Side
<1>10. \A side \in Side : Held(x, side) = 0
  <2>1. ASSUME NEW op \in Pump PROVE x[op]["ok"] = 0 /\ x[op]["error"] = 0
    <3>1. op \in Op /\ Out(o, op) = 0
      BY <1>7 DEF Pump, Op
    <3>2. o[op]["ok"] = 0 /\ o[op]["error"] = 0
      BY <3>1, OutNat
    <3>3. x[op]["ok"] = y[op]["ok"] /\ x[op]["error"] = y[op]["error"]
      BY <1>2, <3>1
    <3>4. y[op]["ok"] = o[op]["ok"] /\ y[op]["error"] = o[op]["error"]
      BY <1>1, <3>1 DEF Pump, Phase
    <3> QED
      BY <3>2, <3>3, <3>4
  <2>2. ASSUME NEW op \in {"write_local", "write_remote"} PROVE x[op]["pending"] = 0
    <3>1. op \in Op /\ Out(x, op) = 0
      BY <1>8, Names
    <3>2. /\ x[op]["pending"] \in Nat /\ x[op]["ok"] \in Nat /\ x[op]["error"] \in Nat
          /\ Out(x, op) = x[op]["pending"] + x[op]["ok"] + x[op]["error"]
      BY <1>2, <3>1, OutNat
    <3> QED
      BY <3>1, <3>2
  <2> QED
    BY <2>1, <2>2, <1>2, Sums DEF Pump, Side
<1>11. \A op \in Closing : Out(x, op) = 0
  BY <1>1, <1>2, <1>5 DEF Closing, Op
<1>12. Stands(id, S, x, k)
  BY <1>5, <1>6, <1>9, <1>11 DEF Stands
<1> QED
  BY <1>5, <1>9, <1>10, <1>12

(* The read and the write of a direction follow one another; what it holds *)
(* stays.                                                                  *)
LEMMA PumpThen ==
    ASSUME NEW id, NEW S, NEW o \in OpsType, NEW k, Stands(id, S, o, k), NEW side \in Side,
           NEW a \in Op, NEW b \in Op, o[a]["ok"] > 0,
           \/ a = ReadOp(side) /\ b = WriteOp(Other(side))
           \/ a = WriteOp(Other(side)) /\ b = ReadOp(side)
    PROVE  /\ Stands(id, S, Issue(Retire(o, a, "ok"), b), k)
           /\ k["local"] # "none"
           /\ \A d \in Side : /\ Chain(Issue(Retire(o, a, "ok"), b), d) = Chain(o, d)
                              /\ Held(Issue(Retire(o, a, "ok"), b), d) = Held(o, d)
           /\ Step(Issue(Retire(o, a, "ok"), b)) = Step(o)
<1> DEFINE x == Issue(Retire(o, a, "ok"), b)
           r == ReadOp(side)
           w == WriteOp(Other(side))
<1>1. /\ a \in Op /\ b \in Op /\ a # b /\ r \in Op /\ w \in Op /\ r # w
      /\ a \notin Connecting \union Closing /\ b \notin Connecting \union Closing
  BY SideNames, OwnOps
<1>2. /\ x \in OpsType
      /\ \A e \in Op \ {a, b} : Out(x, e) = Out(o, e)
      /\ Out(x, a) = Out(o, a) - 1
      /\ Out(x, b) = Out(o, b) + 1
      /\ \A e \in Op \ {a, b}, q \in Phase : x[e][q] = o[e][q]
      /\ x[a]["ok"] = o[a]["ok"] - 1
      /\ \A q \in {"pending", "error"} : x[a][q] = o[a][q]
      /\ x[b]["pending"] = o[b]["pending"] + 1
      /\ \A q \in {"ok", "error"} : x[b][q] = o[b][q]
  BY <1>1, ThenOut
<1>3. Out(o, a) \in Nat /\ Out(o, b) \in Nat
  BY <1>1, OutNat
<1>4. /\ o[r]["ok"] \in Nat /\ o[w]["pending"] \in Nat /\ o[w]["error"] \in Nat
  BY <1>1, OutNat
<1>5. Chain(o, side) = 1 /\ Step(o) = 0 /\ k["local"] # "none"
  BY ChainBusy DEF Phase
<1> HIDE DEF x, r, w
<1>6. Chain(x, side) = Chain(o, side)
  <2>1. CASE a = r /\ b = w
    <3>1. Out(x, r) + Out(x, w) = Out(o, r) + Out(o, w)
      BY <1>2, <1>3, <2>1
    <3> QED
      BY <3>1 DEF Chain, r, w
  <2>2. CASE a = w /\ b = r
    <3>1. Out(x, r) + Out(x, w) = Out(o, r) + Out(o, w)
      BY <1>2, <1>3, <2>2
    <3> QED
      BY <3>1 DEF Chain, r, w
  <2> QED
    BY <2>1, <2>2 DEF r, w
<1>7. Held(x, side) = Held(o, side)
  <2>1. CASE a = r /\ b = w
    <3>1. x[r]["ok"] = o[r]["ok"] - 1 /\ x[w]["pending"] = o[w]["pending"] + 1
          /\ x[w]["error"] = o[w]["error"]
      BY <1>2, <2>1
    <3>2. x[r]["ok"] + x[w]["pending"] + x[w]["error"]
            = o[r]["ok"] + o[w]["pending"] + o[w]["error"]
      BY <1>4, <3>1
    <3> QED
      BY <3>2 DEF Held, r, w
  <2>2. CASE a = w /\ b = r
    <3>1. x[r]["ok"] = o[r]["ok"] /\ x[w]["pending"] = o[w]["pending"]
          /\ x[w]["error"] = o[w]["error"]
      BY <1>2, <2>2
    <3> QED
      BY <3>1 DEF Held, r, w
  <2> QED
    BY <2>1, <2>2 DEF r, w
<1>8. ASSUME NEW d \in Side, d # side
      PROVE  Chain(x, d) = Chain(o, d) /\ Held(x, d) = Held(o, d)
  <2>1. /\ ReadOp(d) \in Op \ {a, b} /\ WriteOp(Other(d)) \in Op \ {a, b}
    BY <1>8, SideNames, OwnOps
  <2> QED
    BY <1>2, <2>1 DEF Chain, Held, Phase
<1>9. Step(x) = Step(o) /\ \A op \in Closing : Out(x, op) = Out(o, op)
  BY <1>1, <1>2 DEF Step, Connecting, Closing, Op
<1>10. Stands(id, S, x, k)
  BY <1>5, <1>6, <1>8, <1>9 DEF Stands
<1> QED
  BY <1>5, <1>6, <1>7, <1>8, <1>9, <1>10 DEF x

LEMMA CloseOut ==
    ASSUME NEW o \in OpsType, NEW s
    PROVE  /\ CloseRemote(o, s) \in OpsType
           /\ \A e \in Op \ Closing : /\ Out(CloseRemote(o, s), e) = Out(o, e)
                                      /\ \A q \in Phase : CloseRemote(o, s)[e][q] = o[e][q]
           /\ \A e \in Closing : Out(CloseRemote(o, s), e) <= Out(o, e) + 1
<1>1. CASE s["remote"] = "open"
  <2> DEFINE y == Issue(o, "shutdown")
             x == Issue(y, "null_write")
  <2>1. /\ y \in OpsType
        /\ \A b \in Op : Out(y, b) = IF b = "shutdown" THEN Out(o, b) + 1 ELSE Out(o, b)
        /\ \A b \in Op :
             /\ y[b]["pending"] = IF b = "shutdown" THEN o[b]["pending"] + 1 ELSE o[b]["pending"]
             /\ y[b]["ok"] = o[b]["ok"] /\ y[b]["error"] = o[b]["error"]
    BY IssueOut, Names
  <2> HIDE DEF y
  <2>2. /\ x \in OpsType
        /\ \A b \in Op : Out(x, b) = IF b = "null_write" THEN Out(y, b) + 1 ELSE Out(y, b)
        /\ \A b \in Op :
             /\ x[b]["pending"] = IF b = "null_write" THEN y[b]["pending"] + 1 ELSE y[b]["pending"]
             /\ x[b]["ok"] = y[b]["ok"] /\ x[b]["error"] = y[b]["error"]
    BY <2>1, IssueOut, Names
  <2> HIDE DEF x
  <2>3. CloseRemote(o, s) = x
    BY <1>1 DEF CloseRemote, x, y
  <2>4. \A e \in Op \ Closing : e # "shutdown" /\ e # "null_write"
    BY DEF Closing
  <2>5. \A e \in Closing : Out(x, e) <= Out(o, e) + 1
    <3>1. /\ Out(x, "shutdown") = Out(o, "shutdown") + 1
          /\ Out(x, "null_write") = Out(o, "null_write") + 1
      BY <2>1, <2>2, Names
    <3>2. Out(o, "shutdown") \in Nat /\ Out(o, "null_write") \in Nat
      BY OutNat, Names
    <3> QED
      BY <3>1, <3>2 DEF Closing
  <2> QED
    BY <2>1, <2>2, <2>3, <2>4, <2>5 DEF Phase
<1>2. CASE ~(s["remote"] = "open")
  <2>1. \A e \in Closing : Out(o, e) \in Nat
    BY OutNat, Names DEF Closing
  <2> QED
    BY <1>2, <2>1 DEF CloseRemote
<1> QED
  BY <1>1, <1>2

(* Leaving, for the first time or again: a direction stops, the other one  *)
(* keeps what it holds.                                                    *)
LeftBehind(o, k, op) == CloseRemote(Retire(o, op, "error"), k)

OnlyStops(o, x) ==
    \A side \in Side : /\ Chain(x, side) <= Chain(o, side)
                       /\ Chain(x, side) = 1 => Held(x, side) = Held(o, side)

LEMMA LeaveStands ==
    ASSUME NEW id, NEW S, NEW T, id \notin T, NEW o \in OpsType, NEW k, Stands(id, S, o, k),
           k \in [Side -> {"none", "open", "closed"}],
           NEW op \in Connecting \union Pump, o[op]["error"] > 0
    PROVE  /\ Stands(id, T, LeftBehind(o, k, op), CloseLocal(k))
           /\ k["local"] # "none" /\ CloseLocal(k)["local"] # "none"
           /\ id \notin S => CloseLocal(k)["local"] = k["local"]
           /\ Step(LeftBehind(o, k, op)) <= Step(o)
           /\ OnlyStops(o, LeftBehind(o, k, op))
           /\ Running(LeftBehind(o, k, op)) + 1 <= Running(o)
           /\ \A e \in Closing : Out(LeftBehind(o, k, op), e) <= Out(o, e) + 1
<1> DEFINE x == LeftBehind(o, k, op)
           l == CloseLocal(k)
           r == Retire(o, op, "error")
<1>1. op \in Op /\ op \notin Closing
  BY DEF Op, Connecting, Closing, Pump
<1>2. /\ r \in OpsType /\ Out(o, op) >= 1
      /\ \A b \in Op : Out(r, b) = IF b = op THEN Out(o, b) - 1 ELSE Out(o, b)
      /\ \A b \in Op \ {op} : r[b] = o[b]
  BY <1>1, RetireOut
<1> HIDE DEF r, x, l
<1>3. /\ x \in OpsType
      /\ \A e \in Op \ Closing : Out(x, e) = Out(r, e) /\ \A q \in Phase : x[e][q] = r[e][q]
      /\ \A e \in Closing : Out(x, e) <= Out(r, e) + 1
  BY <1>2, CloseOut DEF r, x, LeftBehind
<1>4. \A e \in Op \ Closing : Out(x, e) = IF e = op THEN Out(o, e) - 1 ELSE Out(o, e)
  BY <1>2, <1>3
<1>5. Out(o, op) \in Nat /\ k["local"] # "none"
  <2>1. Out(o, op) \in Nat
    BY <1>1, OutNat
  <2> QED
    BY <2>1, <1>1, <1>2 DEF Stands
<1>6. l["local"] = "closed" /\ (id \notin S => l["local"] = k["local"])
  BY <1>5, Names DEF Stands, CloseLocal, l
<1>7. /\ Step(o) \in Nat /\ Chain(o, "local") \in Nat /\ Chain(o, "remote") \in Nat
      /\ Out(o, "resolve") \in Nat /\ Out(o, "connect") \in Nat /\ Out(o, "handshake") \in Nat
      /\ Out(o, "read_local") \in Nat /\ Out(o, "write_remote") \in Nat
      /\ Out(o, "read_remote") \in Nat /\ Out(o, "write_local") \in Nat
  BY OutNat, Sums, Names
<1>8. /\ Chain(o, "local") = Out(o, "read_local") + Out(o, "write_remote")
      /\ Chain(o, "remote") = Out(o, "read_remote") + Out(o, "write_local")
      /\ Chain(x, "local") = Out(x, "read_local") + Out(x, "write_remote")
      /\ Chain(x, "remote") = Out(x, "read_remote") + Out(x, "write_local")
      /\ Step(o) = Out(o, "resolve") + Out(o, "connect") + Out(o, "handshake")
      /\ Step(x) = Out(x, "resolve") + Out(x, "connect") + Out(x, "handshake")
  BY <1>3, Sums DEF Step
<1>9. {"resolve", "connect", "handshake", "read_local", "write_local", "read_remote", "write_remote"}
        \subseteq Op \ Closing
  BY DEF Op, Connecting, Closing, Pump
<1>14. \A e \in Closing : Out(x, e) <= Out(o, e) + 1
  <2>1. \A e \in Closing : e \in Op /\ e # op
    BY <1>1 DEF Op
  <2> QED
    BY <1>2, <1>3, <2>1
<1>10. CASE op \in Connecting
  <2>1. /\ \A e \in {"read_local", "write_local", "read_remote", "write_remote"} : Out(x, e) = Out(o, e)
    BY <1>4, <1>9, <1>10 DEF Connecting
  <2>2. Step(x) = Step(o) - 1
    BY <1>4, <1>7, <1>8, <1>9, <1>10 DEF Connecting
  <2>3. Chain(x, "local") = Chain(o, "local") /\ Chain(x, "remote") = Chain(o, "remote")
    BY <2>1, <1>8
  <2>4. Step(o) >= 1
    <3>1. CASE op = "resolve"
      BY <3>1, <1>2, <1>7, <1>8
    <3>2. CASE op = "connect"
      BY <3>2, <1>2, <1>7, <1>8
    <3>3. CASE op = "handshake"
      BY <3>3, <1>2, <1>7, <1>8
    <3> QED
      BY <1>10, <3>1, <3>2, <3>3 DEF Connecting
  <2>5. Step(o) = 1 /\ \A side \in Side : Chain(o, side) = 0
    BY <1>7, <2>4 DEF Stands
  <2>6. Running(x) + 1 <= Running(o)
    BY <1>7, <2>2, <2>3 DEF Running
  <2> QED
    BY <1>5, <1>6, <1>14, <2>2, <2>3, <2>5, <2>6 DEF OnlyStops, Stands, Side, x, l
<1>11. ASSUME NEW side \in Side, op \in {ReadOp(side), WriteOp(Other(side))}
       PROVE  /\ Stands(id, T, x, l) /\ Step(x) <= Step(o) /\ Running(x) + 1 <= Running(o)
              /\ \A d \in Side : /\ Chain(x, d) <= Chain(o, d)
                                 /\ Chain(x, d) = 1 => Held(x, d) = Held(o, d)
  <2>1. Chain(o, side) = 1 /\ Step(o) = 0 /\ Out(o, op) = 1
    BY <1>11, ChainBusy DEF Phase
  <2>2. Step(x) = 0
    <3>1. op \notin Connecting
      BY <1>11, OwnOps, SideNames
    <3> QED
      BY <3>1, <2>1, <1>4, <1>8, <1>9 DEF Connecting
  <2>3. Chain(x, side) = 0
    <3> DEFINE r1 == ReadOp(side)
               w1 == WriteOp(Other(side))
    <3>1. r1 \in Op \ Closing /\ w1 \in Op \ Closing /\ r1 # w1
      BY SideNames, OwnOps
    <3>2. Out(o, r1) \in Nat /\ Out(o, w1) \in Nat /\ Out(o, r1) + Out(o, w1) = 1
      BY <2>1, <3>1, OutNat DEF Chain
    <3> HIDE DEF r1, w1
    <3>3. Out(x, r1) + Out(x, w1) = 0
      BY <1>4, <1>11, <3>1, <3>2 DEF r1, w1
    <3> QED
      BY <3>3 DEF Chain, r1, w1
  <2>4. ASSUME NEW d \in Side, d # side
        PROVE  Chain(x, d) = Chain(o, d) /\ Held(x, d) = Held(o, d)
    <3>1. /\ ReadOp(d) \in Op \ Closing /\ WriteOp(Other(d)) \in Op \ Closing
          /\ ReadOp(d) # op /\ WriteOp(Other(d)) # op
      BY <1>11, <2>4, SideNames, OwnOps
    <3>2. Chain(x, d) = Chain(o, d)
      BY <1>4, <3>1 DEF Chain
    <3>3. \A q \in Phase : /\ x[ReadOp(d)][q] = o[ReadOp(d)][q]
                           /\ x[WriteOp(Other(d))][q] = o[WriteOp(Other(d))][q]
      BY <1>2, <1>3, <3>1
    <3> QED
      BY <3>2, <3>3 DEF Held, Phase
  <2>5. \A d \in Side : Chain(x, d) <= Chain(o, d) /\ Chain(o, d) <= 1
                        /\ (Chain(x, d) = 1 => Held(x, d) = Held(o, d))
    <3>1. \A d \in Side : Chain(o, d) \in Nat /\ Chain(o, d) <= 1
      BY <2>1, Sums DEF Stands
    <3> QED
      BY <2>1, <2>3, <2>4, <3>1
  <2>6. \A d \in Side : Chain(x, d) <= 1
    BY <2>1, <2>3, <2>4, <2>5
  <2>7. Stands(id, T, x, l)
    BY <1>6, <2>2, <2>6 DEF Stands
  <2>8. Running(x) + 1 <= Running(o)
    <3>1. \/ Chain(x, "local") + 1 = Chain(o, "local") /\ Chain(x, "remote") = Chain(o, "remote")
          \/ Chain(x, "remote") + 1 = Chain(o, "remote") /\ Chain(x, "local") = Chain(o, "local")
      BY <2>1, <2>3, <2>4 DEF Side
    <3>2. /\ Step(o) = 0 /\ Step(x) = 0
          /\ Chain(o, "local") \in Nat /\ Chain(o, "remote") \in Nat
          /\ Chain(x, "local") \in Nat /\ Chain(x, "remote") \in Nat
      BY <1>3, <2>1, <2>2, Sums, Names
    <3>3. /\ Running(o) = Chain(o, "local") + Chain(o, "remote")
          /\ Running(x) = Chain(x, "local") + Chain(x, "remote")
      BY <3>2 DEF Running
    <3> QED
      BY <3>1, <3>2, <3>3
  <2> QED
    BY <2>1, <2>2, <2>5, <2>7, <2>8
<1>12. op \in Connecting \/ \E side \in Side : op \in {ReadOp(side), WriteOp(Other(side))}
  BY DEF Pump, Side, ReadOp, WriteOp, Other
<1>13. CASE op \notin Connecting
  BY <1>5, <1>6, <1>11, <1>12, <1>13, <1>14 DEF OnlyStops, x, l
<1> QED
  BY <1>10, <1>13 DEF x, l

(* The closing operations are those of a session that left.                *)
LEMMA ClosedStands ==
    ASSUME NEW id, NEW S, NEW o \in OpsType, NEW k, Stands(id, S, o, k),
           NEW op \in Closing, NEW p \in {"ok", "error"}, o[op][p] > 0
    PROVE  /\ Stands(id, S, Retire(o, op, p), k) /\ id \notin S /\ k["local"] # "none"
           /\ \A side \in Side : /\ Chain(Retire(o, op, p), side) = Chain(o, side)
                                 /\ Held(Retire(o, op, p), side) = Held(o, side)
           /\ Step(Retire(o, op, p)) = Step(o)
           /\ \A e \in Closing : Out(Retire(o, op, p), e) <= Out(o, e)
<1> DEFINE x == Retire(o, op, p)
<1>1. op \in Op /\ op \notin Connecting /\ op \notin Pump
  BY DEF Op, Connecting, Closing, Pump
<1>2. /\ x \in OpsType /\ Out(o, op) >= 1
      /\ \A b \in Op : Out(x, b) = IF b = op THEN Out(o, b) - 1 ELSE Out(o, b)
      /\ \A b \in Op \ {op} : x[b] = o[b]
  BY <1>1, RetireOut
<1>3. Out(o, op) # 0 /\ id \notin S /\ k["local"] # "none"
  <2>1. Out(o, op) \in Nat
    BY <1>1, OutNat
  <2> QED
    BY <2>1, <1>1, <1>2 DEF Stands
<1> HIDE DEF x
<1>4. \A side \in Side : Chain(x, side) = Chain(o, side) /\ Held(x, side) = Held(o, side)
  <2>1. \A b \in Pump, q \in Phase : x[b][q] = o[b][q]
    BY <1>1, <1>2 DEF Op
  <2> QED
    BY <2>1, SamePump
<1>5. Step(x) = Step(o)
  BY <1>1, <1>2, Names DEF Step, Connecting
<1>6. Stands(id, S, x, k)
  BY <1>3, <1>4, <1>5 DEF Stands
<1>7. \A e \in Closing : Out(x, e) <= Out(o, e)
  <2>1. \A e \in Closing : e \in Op /\ Out(o, e) \in Nat
    BY OutNat DEF Op
  <2> QED
    BY <1>2, <2>1
<1> QED
  BY <1>3, <1>4, <1>5, <1>6, <1>7 DEF x

----
LEMMA DispatchInv ==
    ASSUME IInv, NEW id \in Ids, Dispatch(id)
    PROVE  Unused' /\ \A i \in Ids : SessionOf(i)'
<1> DEFINE o == ops[id]
           k == sock[id]
           b == buffer[id]
           t == taken[id]
           u == out[id]
<1>0. /\ o \in OpsType /\ k \in [Side -> {"none", "open", "closed"}]
      /\ Stands(id, sessions, o, k)
      /\ \A side \in Side : Carries(id, sessions, o, k, b, t, u, side)
      /\ \A op \in Op, p \in Phase : o[op][p] > 0 => k["local"] # "none"
  BY Facts
<1>1. ASSUME NEW x, ops' = [ops EXCEPT ![id] = x], UNCHANGED <<data, sessions, server>>,
             \A i \in Ids \ {id} : sock'[i] = sock[i],
             sock'[id]["local"] = k["local"], k["local"] # "none",
             Stands(id, sessions, x, k),
             \A side \in Side : Chain(x, side) = Chain(o, side) /\ Held(x, side) = Held(o, side)
      PROVE  Unused' /\ \A i \in Ids : SessionOf(i)'
  <2>1. ops'[id] = x /\ taken'[id] = t /\ out'[id] = u /\ buffer'[id] = b
        /\ sessions' = sessions /\ new_session' = new_session
    BY <1>1 DEF IInv, TypeOK, data, server
  <2>2. OthersSame(id)
    BY <1>1 DEF OthersSame, IInv, TypeOK, data
  <2> HIDE DEF o, k, b, t, u
  <2>3. Stands(id, sessions, x, sock'[id])
    BY <1>1, LocalStands
  <2>4. \A side \in Side : Carries(id, sessions, x, sock'[id], b, t, u, side)
    BY <1>0, <1>1 DEF Carries
  <2>5. SessionOf(id)'
    BY <2>1, <2>3, <2>4 DEF SessionOf
  <2> QED
    BY <1>1, <2>1, <2>2, <2>5, OneSession DEF k
<1>2. ASSUME NEW op \in Connecting, NEW next \in Connecting, op # next,
             Completed(id, op, "ok"), Then(id, op, next), UNCHANGED <<sock, data, sessions, server>>
      PROVE  Unused' /\ \A i \in Ids : SessionOf(i)'
  <2> DEFINE x == Issue(Retire(o, op, "ok"), next)
  <2>1. o[op]["ok"] > 0 /\ ops' = [ops EXCEPT ![id] = x]
    BY <1>2 DEF Completed, Then
  <2>2. k["local"] # "none"
    BY <1>0, <2>1 DEF Op, Phase
  <2>3. /\ Stands(id, sessions, x, k)
        /\ \A side \in Side : Chain(x, side) = Chain(o, side) /\ Held(x, side) = Held(o, side)
    BY <1>0, <1>2, <2>1, ConnectingThen
  <2> HIDE DEF x
  <2> QED
    BY <1>1, <1>2, <2>1, <2>2, <2>3
<1>3. CASE Resolved(id)
  BY <1>2, <1>3 DEF Resolved, Connecting
<1>4. CASE Connected(id)
  BY <1>2, <1>4 DEF Connected, Connecting
<1>5. CASE Handshaken(id)
  <2> DEFINE x == Issue(Issue(Retire(o, "handshake", "ok"), "read_local"), "read_remote")
  <2>1. /\ o["handshake"]["ok"] > 0 /\ ops'[id] = x
        /\ sock'[id] = k /\ taken'[id] = t /\ out'[id] = u /\ buffer'[id] = b
        /\ sessions' = sessions /\ new_session' = new_session
    BY <1>5 DEF Handshaken, Completed, data, server, IInv, TypeOK
  <2>2. OthersSame(id)
    BY <1>5 DEF Handshaken, OthersSame, IInv, TypeOK, data
  <2>3. /\ id \in sessions /\ k["local"] = "open" /\ Stands(id, sessions, x, k)
        /\ \A side \in Side : Chain(o, side) = 0 /\ Chain(x, side) = 1 /\ Held(x, side) = 0
    BY <1>0, <2>1, HandshakenStands
  <2> HIDE DEF x, o, k, b, t, u
  <2>4. \A side \in Side : Carries(id, sessions, x, k, b, t, u, side)
    BY <1>0, <2>3 DEF Carries
  <2>5. SessionOf(id)'
    BY <2>1, <2>3, <2>4 DEF SessionOf
  <2> QED
    BY <2>1, <2>2, <2>3, <2>5, OneSession DEF k
<1>6. ASSUME NEW side \in Side, NEW op, NEW next,
             \/ op = ReadOp(side) /\ next = WriteOp(Other(side))
             \/ op = WriteOp(Other(side)) /\ next = ReadOp(side),
             Completed(id, op, "ok"), Then(id, op, next), UNCHANGED <<sock, data, sessions, server>>
      PROVE  Unused' /\ \A i \in Ids : SessionOf(i)'
  <2> DEFINE x == Issue(Retire(o, op, "ok"), next)
  <2>1. o[op]["ok"] > 0 /\ ops' = [ops EXCEPT ![id] = x]
    BY <1>6 DEF Completed, Then
  <2>2. /\ Stands(id, sessions, x, k) /\ k["local"] # "none"
        /\ \A d \in Side : Chain(x, d) = Chain(o, d) /\ Held(x, d) = Held(o, d)
    <3>1. o \in OpsType /\ Stands(id, sessions, o, k) /\ o[op]["ok"] > 0
      BY <1>0, <2>1
    <3>2. op \in Op /\ next \in Op
      BY <1>6, SideNames
    <3>3. \/ op = ReadOp(side) /\ next = WriteOp(Other(side))
          \/ op = WriteOp(Other(side)) /\ next = ReadOp(side)
      BY <1>6
    <3> HIDE DEF o, k
    <3> QED
      BY <3>1, <3>2, <3>3, PumpThen, Z3
  <2> HIDE DEF x
  <2> QED
    BY <1>1, <1>6, <2>1, <2>2
<1>7. ASSUME NEW side \in Side, Read(id, side)
      PROVE  Unused' /\ \A i \in Ids : SessionOf(i)'
  BY <1>6, <1>7 DEF Read
<1>8. ASSUME NEW side \in Side, Written(id, side)
      PROVE  Unused' /\ \A i \in Ids : SessionOf(i)'
  <2>1. Other(side) \in Side /\ Other(Other(side)) = side
    BY SideNames
  <2> QED
    BY <1>6, <1>8, <2>1 DEF Written
<1>9. CASE Leave(id)
  <2>1. PICK op \in Connecting \union Pump :
          /\ Completed(id, op, "error")
          /\ ops' = [ops EXCEPT ![id] = CloseRemote(Retire(@, op, "error"), sock[id])]
    BY <1>9 DEF Leave
  <2> DEFINE x == CloseRemote(Retire(o, op, "error"), k)
             l == CloseLocal(k)
             S == sessions \ {id}
  <2>2. /\ o[op]["error"] > 0 /\ ops'[id] = x /\ sock'[id] = l
        /\ taken'[id] = t /\ out'[id] = u /\ buffer'[id] = b
        /\ sessions' = S /\ new_session' = new_session
    BY <1>9, <2>1 DEF Leave, Completed, data, server, IInv, TypeOK
  <2>3. OthersSame(id)
    BY <1>9, <2>1 DEF Leave, OthersSame, IInv, TypeOK, data
  <2>4. /\ Stands(id, S, x, l)
        /\ k["local"] # "none" /\ l["local"] # "none"
        /\ \A side \in Side : /\ Chain(x, side) <= Chain(o, side)
                              /\ Chain(x, side) = 1 => Held(x, side) = Held(o, side)
    <3>1. /\ o \in OpsType /\ Stands(id, sessions, o, k) /\ o[op]["error"] > 0
          /\ k \in [Side -> {"none", "open", "closed"}]
      BY <1>0, <2>2
    <3>2. op \in Connecting \union Pump
      BY <2>1
    <3>3. id \notin S
      OBVIOUS
    <3> HIDE DEF o, k, S, x, l
    <3>4. /\ Stands(id, S, LeftBehind(o, k, op), CloseLocal(k))
          /\ k["local"] # "none" /\ CloseLocal(k)["local"] # "none"
          /\ OnlyStops(o, LeftBehind(o, k, op))
      BY <3>1, <3>2, <3>3, LeaveStands
    <3>5. x = LeftBehind(o, k, op) /\ l = CloseLocal(k)
      BY DEF x, l, LeftBehind
    <3> QED
      BY <3>4, <3>5 DEF OnlyStops
  <2>5. \A side \in Side : Chain(x, side) = 1 => Chain(o, side) = 1
    <3>1. \A side \in Side : Chain(o, side) \in Nat /\ Chain(o, side) <= 1
      BY <1>0, Sums DEF Stands
    <3> QED
      BY <2>4, <3>1
  <2> HIDE DEF x, l, o, k, b, t, u
  <2>6. \A side \in Side : Carries(id, S, x, l, b, t, u, side)
    BY <1>0, <2>4, <2>5 DEF Carries
  <2>7. SessionOf(id)'
    BY <2>2, <2>4, <2>6 DEF SessionOf
  <2> QED
    BY <2>2, <2>3, <2>4, <2>7, OneSession DEF k
<1>10. CASE RemoteClosed(id)
  <2>1. PICK op \in Closing, p \in {"ok", "error"} :
          Completed(id, op, p) /\ ops' = [ops EXCEPT ![id] = Retire(@, op, p)]
    BY <1>10 DEF RemoteClosed
  <2> DEFINE x == Retire(o, op, p)
  <2>2. o[op][p] > 0 /\ ops' = [ops EXCEPT ![id] = x]
    BY <2>1 DEF Completed
  <2>3. /\ Stands(id, sessions, x, k) /\ k["local"] # "none"
        /\ \A side \in Side : Chain(x, side) = Chain(o, side) /\ Held(x, side) = Held(o, side)
    <3>1. o \in OpsType /\ Stands(id, sessions, o, k) /\ o[op][p] > 0
      BY <1>0, <2>2
    <3> HIDE DEF o, k
    <3> QED
      BY <3>1, ClosedStands
  <2>4. /\ sock'[id]["local"] = k["local"] /\ \A i \in Ids \ {id} : sock'[i] = sock[i]
        /\ UNCHANGED <<data, sessions, server>>
    BY <1>10 DEF RemoteClosed, IInv, TypeOK
  <2> HIDE DEF x
  <2> QED
    BY <1>1, <2>2, <2>3, <2>4
<1> QED
  BY <1>3, <1>4, <1>5, <1>7, <1>8, <1>9, <1>10 DEF Dispatch

LEMMA ServerInv ==
    ASSUME IInv, Accept \/ AcceptError \/ Signal
    PROVE  Unused' /\ \A i \in Ids : SessionOf(i)'
<1>1. CASE Accept
  <2>1. PICK id \in Ids : id = new_session
    BY <1>1 DEF Accept
  <2> DEFINE o == ops[id]
             x == Issue(o, "resolve")
  <2>2. /\ o \in OpsType /\ sock[id] \in [Side -> {"none", "open", "closed"}]
        /\ Stands(id, sessions, o, sock[id])
        /\ \A side \in Side :
             Carries(id, sessions, o, sock[id], buffer[id], taken[id], out[id], side)
    BY Facts
  <2>3. id \notin sessions /\ sock[id]["local"] = "none"
    BY <2>1 DEF IInv, Unused, Ids, TypeOK
  <2>4. /\ ops'[id] = x /\ sock'[id] = [sock[id] EXCEPT !["local"] = "open"]
        /\ buffer'[id] = buffer[id] /\ taken'[id] = taken[id] /\ out'[id] = out[id]
        /\ sessions' = sessions \union {id}
        /\ new_session' = new_session + 1
    BY <1>1, <2>1 DEF Accept, data, IInv, TypeOK
  <2>5. OthersSame(id)
    BY <1>1, <2>1 DEF Accept, OthersSame, data, IInv, TypeOK
  <2>6. sock'[id]["local"] = "open"
    BY <2>2, <2>4, Names
  <2>7. \A op \in Op : Out(o, op) = 0
    BY <2>2, <2>3 DEF Stands
  <2>8. x \in OpsType /\ \A op \in Op : Out(x, op) = IF op = "resolve" THEN 1 ELSE 0
    <3>1. /\ Issue(o, "resolve") \in OpsType
          /\ \A op \in Op : Out(Issue(o, "resolve"), op) = IF op = "resolve" THEN Out(o, op) + 1 ELSE Out(o, op)
      BY <2>2, IssueOut, Names
    <3> QED
      BY <2>7, <3>1
  <2> HIDE DEF x, o
  <2>9. Step(x) = 1 /\ \A side \in Side : Chain(x, side) = 0
    <3>1. Chain(x, "local") = 0 /\ Chain(x, "remote") = 0
      BY <2>8, Sums, Names
    <3> QED
      BY <2>8, <3>1, Names DEF Step, Side
  <2>10. Stands(id, sessions', x, sock'[id])
    <3>1. \A op \in Closing : Out(x, op) = 0
      BY <2>8 DEF Closing, Op
    <3> QED
      BY <2>4, <2>6, <2>9, <3>1 DEF Stands
  <2>11. \A side \in Side :
           Carries(id, sessions', x, sock'[id], buffer[id], taken[id], out[id], side)
    BY <2>2, <2>3, <2>9 DEF Carries
  <2>12. SessionOf(id)'
    BY <2>4, <2>10, <2>11 DEF SessionOf
  <2>13. ASSUME NEW i \in Ids, i # id PROVE SessionOf(i)'
    <3>1. SessionOf(i)
      BY DEF IInv
    <3> QED
      BY <2>5, <2>13, <3>1 DEF SessionOf, OthersSame, Stands, Carries
  <2>14. Unused'
    BY <2>1, <2>4, <2>5 DEF IInv, Unused, OthersSame, Ids, TypeOK
  <2> QED
    BY <2>12, <2>13, <2>14
<1>2. CASE AcceptError
  <2>1. \A i \in Ids : SessionOf(i)'
    BY <1>2 DEF AcceptError, IInv, SessionOf, Stands, Carries, data
  <2>2. Unused'
    BY <1>2 DEF AcceptError, IInv, Unused, Ids, TypeOK
  <2> QED
    BY <2>1, <2>2
<1>3. CASE Signal
  BY <1>3 DEF Signal, IInv, Unused, SessionOf, Stands, Carries, data
<1> QED
  BY <1>1, <1>2, <1>3

LEMMA NextInv == IInv /\ [Next]_vars => IInv'
<1> SUFFICES ASSUME IInv, [Next]_vars PROVE IInv'
  OBVIOUS
<1>1. TypeOK'
  BY NextType DEF IInv
<1>2. CASE UNCHANGED vars
  BY <1>1, <1>2 DEF IInv, Unused, SessionOf, Stands, Carries, vars
<1> QED
  BY <1>1, <1>2, KernelInv, DispatchInv, ServerInv DEF Next, IInv

LEMMA InvAlways == Spec => []IInv
BY InitInv, NextInv, PTL DEF Spec

----
LEMMA InvNeverIdle == IInv => NeverIdle
BY DEF IInv, SessionOf, Stands, NeverIdle, TypeOK

LEMMA InvOneUse == IInv => OneUsePerBuffer
<1> SUFFICES ASSUME IInv, NEW id \in Ids, NEW side \in Side PROVE Chain(ops[id], side) <= 1
  BY DEF OneUsePerBuffer
<1>1. ops[id] \in OpsType /\ Stands(id, sessions, ops[id], sock[id])
  BY Facts
<1>2. Chain(ops[id], side) \in Nat
  BY <1>1, Sums
<1> QED
  BY <1>1, <1>2 DEF Stands

LEMMA InvNothingLost == IInv => NothingLostOnEof
<1> SUFFICES ASSUME IInv, NEW id \in sessions, NEW side \in Side,
                    ops[id][ReadOp(side)]["error"] > 0
             PROVE  Len(out[id][Other(side)]) = taken[id][side]
  BY DEF NothingLostOnEof
<1> DEFINE o == ops[id]
           r == ReadOp(side)
           w == WriteOp(Other(side))
<1>1. /\ id \in Ids /\ o \in OpsType /\ Stands(id, sessions, o, sock[id])
      /\ Carries(id, sessions, o, sock[id], buffer[id], taken[id], out[id], side)
      /\ Len(out[id][Other(side)]) \in Nat
  <2>1. id \in Ids
    BY DEF IInv, TypeOK
  <2> QED
    BY <2>1, Facts, SideNames
<1>2. Chain(o, side) = 1
  BY <1>1, ChainBusy DEF Phase
<1>3. r \in Op /\ w \in Op
  BY SideNames
<1>4. /\ o[r]["pending"] \in Nat /\ o[r]["ok"] \in Nat /\ o[r]["error"] \in Nat
      /\ Out(o, r) = o[r]["pending"] + o[r]["ok"] + o[r]["error"]
  BY <1>1, <1>3, OutNat
<1>5. /\ o[w]["pending"] \in Nat /\ o[w]["ok"] \in Nat /\ o[w]["error"] \in Nat
      /\ Out(o, w) = o[w]["pending"] + o[w]["ok"] + o[w]["error"]
  BY <1>1, <1>3, OutNat
<1>6. o[r]["error"] > 0 /\ Out(o, r) + Out(o, w) = 1 /\ Held(o, side) = o[r]["ok"] + o[w]["pending"] + o[w]["error"]
  BY <1>2 DEF Chain, Held
<1> HIDE DEF o, r, w
<1>7. o[r]["ok"] = 0 /\ Out(o, w) = 0
  <2>1. Out(o, r) >= 1 + o[r]["ok"]
    BY <1>4, <1>6
  <2>2. Out(o, r) \in Nat /\ Out(o, w) \in Nat
    BY <1>4, <1>5
  <2>3. Out(o, r) + Out(o, w) = 1
    BY <1>6
  <2> QED
    BY <1>4, <2>1, <2>2, <2>3
<1>8. Held(o, side) = 0
  BY <1>5, <1>6, <1>7
<1>9. taken[id][side] = Len(out[id][Other(side)]) + 0
  BY <1>1, <1>2, <1>8 DEF Carries
<1> QED
  BY <1>1, <1>9

(* A session of the manager always has what it takes to go on: one         *)
(* connecting operation, or both of its directions.                        *)
THEOREM SessionsNeverIdle == Spec => []NeverIdle
BY InvAlways, InvNeverIdle, PTL

(* No direction ever has two operations on its one buffer, also when its   *)
(* session has left and its handlers go on.                                *)
THEOREM OneUse == Spec => []OneUsePerBuffer
BY InvAlways, InvOneUse, PTL

(* At the end of file of a peer all it sent has been sent on.              *)
THEOREM NothingLost == Spec => []NothingLostOnEof
BY InvAlways, InvNothingLost, PTL

----
(* What a step of one session leaves alone.                                *)
LEMMA ActsAlone ==
    ASSUME TypeOK, NEW id \in Ids, Kernel(id) \/ Dispatch(id)
    PROVE  OthersSame(id) /\ new_session' = new_session
<1> USE DEF TypeOK, OthersSame, data, server
<1>1. ASSUME NEW side \in Side, Receive(id, side) \/ Send(id, side)
      PROVE  OthersSame(id) /\ new_session' = new_session
  BY <1>1 DEF Receive, Send
<1>2. ASSUME NEW op \in Op, Succeed(id, op)
      PROVE  OthersSame(id) /\ new_session' = new_session
  BY <1>2 DEF Succeed
<1>3. ASSUME NEW op \in Op, Fail(id, op)
      PROVE  OthersSame(id) /\ new_session' = new_session
  <2>1. CASE sock' = sock
    BY <1>3, <2>1 DEF Fail
  <2>2. CASE sock' = [sock EXCEPT ![id]["remote"] = "open"]
    BY <1>3, <2>2 DEF Fail
  <2> QED
    BY <1>3, <2>1, <2>2 DEF Fail
<1>4. CASE Resolved(id) \/ Connected(id) \/ Handshaken(id)
  BY <1>4 DEF Resolved, Connected, Handshaken, Then
<1>5. ASSUME NEW side \in Side, Read(id, side) \/ Written(id, side)
      PROVE  OthersSame(id) /\ new_session' = new_session
  BY <1>5 DEF Read, Written, Then
<1>6. CASE Leave(id)
  BY <1>6 DEF Leave
<1>7. CASE RemoteClosed(id)
  BY <1>7 DEF RemoteClosed
<1> QED
  BY <1>1, <1>2, <1>3, <1>4, <1>5, <1>6, <1>7 DEF Kernel, Dispatch

(* A kernel step of a session settles one operation.                       *)
LEMMA KernelSettles ==
    ASSUME IInv, NEW id \in Ids, Kernel(id)
    PROVE  /\ ops'[id] \in OpsType
           /\ \A op \in Op : Out(ops'[id], op) = Out(ops[id], op)
           /\ sessions' = sessions /\ sock'[id]["local"] = sock[id]["local"]
<1> USE SideNames
<1>1. ASSUME NEW op \in Op, NEW p \in {"ok", "error"}, ops[id][op]["pending"] > 0,
             ops' = [ops EXCEPT ![id] = Settle(@, op, p)]
      PROVE  ops'[id] \in OpsType /\ \A b \in Op : Out(ops'[id], b) = Out(ops[id], b)
  <2>1. ops[id] \in OpsType /\ ops'[id] = Settle(ops[id], op, p)
    BY <1>1, Facts DEF IInv, TypeOK
  <2> QED
    BY <1>1, <2>1, SettleOut
<1>2. ASSUME NEW side \in Side, Receive(id, side)
      PROVE  /\ ops'[id] \in OpsType /\ \A op \in Op : Out(ops'[id], op) = Out(ops[id], op)
             /\ sessions' = sessions /\ sock'[id]["local"] = sock[id]["local"]
  BY <1>1, <1>2 DEF Receive, Pending
<1>3. ASSUME NEW side \in Side, Send(id, side)
      PROVE  /\ ops'[id] \in OpsType /\ \A op \in Op : Out(ops'[id], op) = Out(ops[id], op)
             /\ sessions' = sessions /\ sock'[id]["local"] = sock[id]["local"]
  BY <1>1, <1>3 DEF Send, Pending
<1>4. ASSUME NEW op \in Op, Succeed(id, op)
      PROVE  /\ ops'[id] \in OpsType /\ \A b \in Op : Out(ops'[id], b) = Out(ops[id], b)
             /\ sessions' = sessions /\ sock'[id]["local"] = sock[id]["local"]
  <2>1. sock'[id]["local"] = sock[id]["local"]
    BY <1>4 DEF Succeed, IInv, TypeOK
  <2> QED
    BY <1>1, <1>4, <2>1 DEF Succeed, Pending
<1>5. ASSUME NEW op \in Op, Fail(id, op)
      PROVE  /\ ops'[id] \in OpsType /\ \A b \in Op : Out(ops'[id], b) = Out(ops[id], b)
             /\ sessions' = sessions /\ sock'[id]["local"] = sock[id]["local"]
  <2>1. sock'[id]["local"] = sock[id]["local"]
    <3>1. CASE sock' = sock
      BY <3>1
    <3>2. CASE sock' = [sock EXCEPT ![id]["remote"] = "open"]
      BY <3>2 DEF IInv, TypeOK
    <3> QED
      BY <1>5, <3>1, <3>2 DEF Fail
  <2> QED
    BY <1>1, <1>5, <2>1 DEF Fail, Pending
<1> QED
  BY <1>2, <1>3, <1>4, <1>5 DEF Kernel

(* What WindsDown says of one session in one step.                         *)
WindsDownStep(id) ==
    (id < new_session /\ id \notin sessions) =>
         /\ id \notin sessions'
         /\ sock'[id]["local"] = sock[id]["local"]
         /\ Step(ops'[id]) <= Step(ops[id])
         /\ \A side \in Side : Chain(ops'[id], side) <= Chain(ops[id], side)
         /\ \A op \in Closing :
              Out(ops'[id], op) + Running(ops'[id]) <= Out(ops[id], op) + Running(ops[id])

(* A closing operation is started only in the place of another that ends.  *)
LEMMA Paid ==
    ASSUME NEW o \in OpsType, NEW x \in OpsType, NEW n \in {0, 1},
           \A op \in Closing : Out(x, op) <= Out(o, op) + n,
           Running(x) + n <= Running(o)
    PROVE  \A op \in Closing : Out(x, op) + Running(x) <= Out(o, op) + Running(o)
<1>1. \A op \in Closing : Out(x, op) \in Nat /\ Out(o, op) \in Nat
  BY OutNat DEF Op
<1>2. Running(x) \in Nat /\ Running(o) \in Nat
  BY Sums, Names DEF Running
<1> QED
  BY <1>1, <1>2

LEMMA WindsDownNext ==
    ASSUME IInv, [Next]_vars, NEW id \in Ids
    PROVE  WindsDownStep(id)
<1> SUFFICES ASSUME id < new_session, id \notin sessions
             PROVE  /\ id \notin sessions'
                    /\ sock'[id]["local"] = sock[id]["local"]
                    /\ Step(ops'[id]) <= Step(ops[id])
                    /\ \A side \in Side : Chain(ops'[id], side) <= Chain(ops[id], side)
                    /\ \A op \in Closing : Out(ops'[id], op) + Running(ops'[id])
                                           <= Out(ops[id], op) + Running(ops[id])
  BY DEF WindsDownStep
<1> DEFINE o == ops[id]
           k == sock[id]
           Down == /\ id \notin sessions'
                   /\ sock'[id]["local"] = k["local"]
                   /\ Step(ops'[id]) <= Step(o)
                   /\ \A side \in Side : Chain(ops'[id], side) <= Chain(o, side)
                   /\ \A op \in Closing : Out(ops'[id], op) + Running(ops'[id])
                                          <= Out(o, op) + Running(o)
<1>1. /\ o \in OpsType /\ k \in [Side -> {"none", "open", "closed"}]
      /\ Stands(id, sessions, o, k)
  BY Facts
<1>2. /\ Step(o) = 0 /\ \A side \in Side : Chain(o, side) \in Nat
      /\ Out(o, "resolve") \in Nat /\ Out(o, "connect") \in Nat /\ Out(o, "handshake") \in Nat
  BY <1>1, Sums, OutNat, Names DEF Stands
<1>13. \A op \in Closing : Out(o, op) \in Nat
  BY <1>1, OutNat DEF Op
<1>14. ops'[id] \in OpsType /\ Running(o) \in Nat /\ Running(ops'[id]) \in Nat
  <2>1. TypeOK'
    BY NextType DEF IInv
  <2>2. ops'[id] \in OpsType
    BY <2>1 DEF TypeOK, OpsType
  <2> QED
    BY <1>1, <2>2, Sums, Names DEF Running
<1>3. CASE ops'[id] = o /\ sock'[id] = k /\ id \notin sessions'
  BY <1>2, <1>3, <1>13, <1>14
<1>4. CASE Kernel(id)
  <2>1. /\ \A op \in Op : Out(ops'[id], op) = Out(o, op)
        /\ sessions' = sessions /\ sock'[id]["local"] = k["local"]
    BY <1>4, KernelSettles
  <2>2. Step(ops'[id]) = Step(o) /\ \A side \in Side : Chain(ops'[id], side) = Chain(o, side)
    BY <2>1, SideNames, Names DEF Step, Chain
  <2>3. \A op \in Closing : Out(ops'[id], op) = Out(o, op)
    BY <2>1 DEF Op
  <2>4. Running(ops'[id]) = Running(o)
    BY <2>2, Names DEF Running
  <2> QED
    BY <1>2, <1>13, <1>14, <2>1, <2>2, <2>3, <2>4
<1>5. ASSUME Resolved(id) \/ Connected(id) \/ Handshaken(id)
      PROVE  FALSE
  <2>1. PICK op \in {"resolve", "connect", "handshake"} : o[op]["ok"] > 0
    BY <1>5 DEF Resolved, Connected, Handshaken, Completed
  <2>2. Out(o, op) >= 1
    BY <1>1, <2>1, RetireOut, Names
  <2>3. Out(o, "resolve") + Out(o, "connect") + Out(o, "handshake") = 0
    BY <1>2 DEF Step
  <2>4. Out(o, "resolve") = 0 /\ Out(o, "connect") = 0 /\ Out(o, "handshake") = 0
    BY <1>2, <2>3
  <2> QED
    BY <2>1, <2>2, <2>4
<1>6. ASSUME NEW side \in Side, NEW op \in Op, NEW next \in Op,
             \/ op = ReadOp(side) /\ next = WriteOp(Other(side))
             \/ op = WriteOp(Other(side)) /\ next = ReadOp(side),
             Completed(id, op, "ok"), Then(id, op, next), sock' = sock, sessions' = sessions
      PROVE  Down
  <2>1. o[op]["ok"] > 0 /\ ops'[id] = Issue(Retire(o, op, "ok"), next)
    BY <1>6 DEF Completed, Then, IInv, TypeOK
  <2> HIDE DEF o, k
  <2>2. /\ \A d \in Side : Chain(Issue(Retire(o, op, "ok"), next), d) = Chain(o, d)
        /\ Step(Issue(Retire(o, op, "ok"), next)) = Step(o)
    BY <1>1, <1>6, <2>1, PumpThen, Z3
  <2>3. Running(Issue(Retire(o, op, "ok"), next)) = Running(o)
    BY <2>2, Names DEF Running
  <2>4. \A c \in Closing : Out(Issue(Retire(o, op, "ok"), next), c) = Out(o, c)
    <3>1. op \notin Closing /\ next \notin Closing /\ op # next
      BY <1>6, SideNames, OwnOps
    <3>2. \A c \in Op \ {op, next} : Out(Issue(Retire(o, op, "ok"), next), c) = Out(o, c)
      BY <1>1, <2>1, <3>1, ThenOut
    <3> QED
      BY <3>1, <3>2 DEF Op
  <2>5. \A c \in Closing : Out(ops'[id], c) + Running(ops'[id]) <= Out(o, c) + Running(o)
    BY <1>13, <1>14, <2>1, <2>3, <2>4
  <2> QED
    BY <1>2, <1>6, <2>1, <2>2, <2>5 DEF k
<1>7. ASSUME NEW side \in Side, Read(id, side) \/ Written(id, side)
      PROVE  Down
  <2>1. Other(side) \in Side /\ Other(Other(side)) = side
        /\ ReadOp(side) \in Op /\ WriteOp(side) \in Op
        /\ ReadOp(Other(side)) \in Op /\ WriteOp(Other(side)) \in Op
    BY SideNames
  <2>2. CASE Read(id, side)
    BY <1>6, <2>1, <2>2 DEF Read
  <2>3. CASE Written(id, side)
    BY <1>6, <2>1, <2>3 DEF Written
  <2> QED
    BY <1>7, <2>2, <2>3
<1>8. CASE Leave(id)
  <2>1. PICK op \in Connecting \union Pump :
          /\ Completed(id, op, "error")
          /\ ops' = [ops EXCEPT ![id] = CloseRemote(Retire(@, op, "error"), sock[id])]
    BY <1>8 DEF Leave
  <2>2. /\ o[op]["error"] > 0 /\ ops'[id] = LeftBehind(o, k, op) /\ sock'[id] = CloseLocal(k)
        /\ sessions' = sessions \ {id}
    BY <1>8, <2>1 DEF Leave, Completed, IInv, TypeOK, LeftBehind
  <2>3. op \in Connecting \union Pump
    BY <2>1
  <2> HIDE DEF o, k
  <2>4. /\ CloseLocal(k)["local"] = k["local"]
        /\ Step(LeftBehind(o, k, op)) <= Step(o)
        /\ OnlyStops(o, LeftBehind(o, k, op))
        /\ Running(LeftBehind(o, k, op)) + 1 <= Running(o)
        /\ \A c \in Closing : Out(LeftBehind(o, k, op), c) <= Out(o, c) + 1
    BY <1>1, <2>2, <2>3, LeaveStands
  <2>5. \A c \in Closing : Out(LeftBehind(o, k, op), c) + Running(LeftBehind(o, k, op))
                           <= Out(o, c) + Running(o)
    BY <1>1, <1>14, <2>2, <2>4, Paid
  <2> QED
    BY <2>2, <2>4, <2>5 DEF OnlyStops, o, k
<1>9. CASE RemoteClosed(id)
  <2>1. PICK op \in Closing, p \in {"ok", "error"} :
          Completed(id, op, p) /\ ops' = [ops EXCEPT ![id] = Retire(@, op, p)]
    BY <1>9 DEF RemoteClosed
  <2>2. /\ o[op][p] > 0 /\ ops'[id] = Retire(o, op, p) /\ sessions' = sessions
        /\ sock'[id]["local"] = k["local"]
    BY <1>9, <2>1 DEF RemoteClosed, Completed, IInv, TypeOK
  <2> HIDE DEF o, k
  <2>3. /\ \A side \in Side : Chain(Retire(o, op, p), side) = Chain(o, side)
        /\ Step(Retire(o, op, p)) = Step(o)
        /\ \A c \in Closing : Out(Retire(o, op, p), c) <= Out(o, c)
    BY <1>1, <2>1, <2>2, ClosedStands
  <2>4. Running(Retire(o, op, p)) = Running(o)
    BY <2>3, Names DEF Running
  <2>5. \A c \in Closing : Out(Retire(o, op, p), c) \in Nat
    BY <1>14, <2>2, OutNat DEF Op
  <2>6. \A c \in Closing : Out(Retire(o, op, p), c) + Running(Retire(o, op, p))
                           <= Out(o, c) + Running(o)
    BY <1>13, <1>14, <2>3, <2>4, <2>5
  <2> QED
    BY <1>2, <2>2, <2>3, <2>6 DEF o, k
<1>10. ASSUME NEW i \in Ids, i # id, Kernel(i) \/ Dispatch(i)
       PROVE  Down
  BY <1>3, <1>10, ActsAlone DEF OthersSame, IInv
<1>11. CASE Accept \/ AcceptError \/ Signal
  BY <1>3, <1>11 DEF Accept, AcceptError, Signal, IInv, TypeOK
<1>12. CASE UNCHANGED vars
  BY <1>3, <1>12 DEF vars
<1> QED
  BY <1>4, <1>5, <1>7, <1>8, <1>9, <1>10, <1>11, <1>12 DEF Next, Dispatch

(* A session that left stays out and its local socket as it is.  A handler *)
(* that runs after it left may start the next read or write of its         *)
(* direction in the place of the one it finishes, but a direction that     *)
(* stopped never starts again; and a shutdown or an empty write is started *)
(* again only by a direction that stops with it.                           *)
THEOREM LeftWindsDown == Spec => WindsDown
<1>1. IInv /\ [Next]_vars =>
        [\A id \in Ids : (id < new_session /\ id \notin sessions) =>
           /\ id \notin sessions'
           /\ sock'[id]["local"] = sock[id]["local"]
           /\ Step(ops'[id]) <= Step(ops[id])
           /\ \A side \in Side : Chain(ops'[id], side) <= Chain(ops[id], side)
           /\ \A op \in Closing :
                Out(ops'[id], op) + Running(ops'[id]) <= Out(ops[id], op) + Running(ops[id])]_vars
  BY WindsDownNext DEF WindsDownStep
<1> QED
  BY <1>1, InvAlways, PTL DEF Spec, WindsDown

----
(* A session implements Relay: the values its variables are mapped to.     *)
FetchedOf(id) == [to_remote |-> taken[id]["local"], to_local |-> taken[id]["remote"]]
DeliveredOf(id) == [to_remote |-> out[id]["remote"], to_local |-> out[id]["local"]]

Phases == [id \in Ids |-> PhaseOf(id)]
Fetches == [id \in Ids |-> FetchedOf(id)]
Deliveries == [id \in Ids |-> DeliveredOf(id)]

LEMMA InitRelay == Init => Abstract!Init
<1> SUFFICES ASSUME Init PROVE Abstract!Init
  OBVIOUS
<1>1. \A id \in Ids : PhaseOf(id) = "idle"
  BY Names DEF Init, PhaseOf
<1>2. \A id \in Ids : FetchedOf(id) = [dir \in {"to_remote", "to_local"} |-> 0]
  BY Names DEF Init, FetchedOf
<1>3. \A id \in Ids : DeliveredOf(id) = [dir \in {"to_remote", "to_local"} |-> <<>>]
  BY Names DEF Init, DeliveredOf
<1> QED
  BY <1>1, <1>2, <1>3 DEF Abstract!Init, Abstract!Direction, FetchedOf, DeliveredOf

LEMMA RelaySame ==
    ASSUME \A i \in Ids : /\ PhaseOf(i)' = PhaseOf(i) /\ FetchedOf(i)' = FetchedOf(i)
                          /\ DeliveredOf(i)' = DeliveredOf(i)
    PROVE  UNCHANGED Abstract!vars
<1>1. Phases' = Phases /\ Fetches' = Fetches /\ Deliveries' = Deliveries
  BY DEF Phases, Fetches, Deliveries
<1> QED
  BY <1>1 DEF Abstract!vars, Phases, Fetches, Deliveries, FetchedOf, DeliveredOf

LEMMA RelayEnter ==
    ASSUME NEW id \in Ids, NEW from, NEW to,
           \A i \in Ids : FetchedOf(i)' = FetchedOf(i) /\ DeliveredOf(i)' = DeliveredOf(i),
           \A i \in Ids \ {id} : PhaseOf(i)' = PhaseOf(i),
           PhaseOf(id) \in from, PhaseOf(id)' = to
    PROVE  Abstract!Enter(id, from, to)
<1>1. Phases' = [Phases EXCEPT ![id] = to] /\ Phases[id] \in from
  BY DEF Phases
<1>2. Fetches' = Fetches /\ Deliveries' = Deliveries
  BY DEF Fetches, Deliveries
<1> QED
  BY <1>1, <1>2 DEF Abstract!Enter, Phases, Fetches, Deliveries, FetchedOf, DeliveredOf

LEMMA RelayOthers ==
    ASSUME NEW id \in Ids, OthersSame(id)
    PROVE  \A i \in Ids \ {id} : /\ PhaseOf(i)' = PhaseOf(i) /\ FetchedOf(i)' = FetchedOf(i)
                                 /\ DeliveredOf(i)' = DeliveredOf(i)
BY DEF OthersSame, PhaseOf, FetchedOf, DeliveredOf

(* The direction of Relay that a side of the tunnel feeds.                 *)
DirOf(side) == IF side = "local" THEN "to_remote" ELSE "to_local"

LEMMA RelayDirections ==
    ASSUME NEW id \in Ids, NEW side \in Side
    PROVE  /\ DirOf(side) \in Abstract!Direction
           /\ FetchedOf(id)[DirOf(side)] = taken[id][side]
           /\ DeliveredOf(id)[DirOf(side)] = out[id][Other(side)]
BY DEF Side, DirOf, Abstract!Direction, FetchedOf, DeliveredOf, Other

LEMMA RelayBusy ==
    ASSUME IInv, NEW id \in Ids, NEW side \in Side,
           NEW op \in {ReadOp(side), WriteOp(Other(side))}, NEW p \in Phase, ops[id][op][p] > 0
    PROVE  /\ PhaseOf(id) \in {"relaying", "closed"}
           /\ taken[id][side] = Len(out[id][Other(side)]) + Held(ops[id], side)
<1>1. /\ ops[id] \in OpsType /\ Stands(id, sessions, ops[id], sock[id])
      /\ Carries(id, sessions, ops[id], sock[id], buffer[id], taken[id], out[id], side)
  BY Facts
<1>2. Chain(ops[id], side) = 1 /\ Step(ops[id]) = 0 /\ sock[id]["local"] # "none"
  BY <1>1, ChainBusy
<1> QED
  BY <1>1, <1>2 DEF PhaseOf, Carries

LEMMA ReceiveRelay ==
    ASSUME IInv, NEW id \in Ids, NEW side \in Side, Receive(id, side)
    PROVE  Abstract!Fetch(id, DirOf(side))
<1> DEFINE o == ops[id]
           r == ReadOp(side)
           w == WriteOp(Other(side))
<1>1. /\ o \in OpsType /\ taken[id] \in [Side -> Nat] /\ Stands(id, sessions, o, sock[id])
      /\ Len(out[id][Other(side)]) \in Nat
  BY Facts, SideNames
<1>2. o[r]["pending"] > 0 /\ r \in Op /\ w \in Op
  BY SideNames DEF Receive, Pending
<1>3. /\ PhaseOf(id) \in {"relaying", "closed"}
      /\ taken[id][side] = Len(out[id][Other(side)]) + Held(o, side)
  BY <1>2, RelayBusy DEF Phase
<1>4. Held(o, side) = 0
  <2>1. Out(o, r) = 1 /\ Chain(o, side) = 1
    BY <1>1, <1>2, ChainBusy DEF Phase
  <2>2. Out(o, w) = 0
    <3>1. Out(o, w) \in Nat /\ Out(o, r) + Out(o, w) = 1
      BY <1>1, <1>2, <2>1, OutNat DEF Chain
    <3> QED
      BY <2>1, <3>1
  <2>3. o[r]["ok"] = 0
    <3>1. /\ o[r]["pending"] \in Nat /\ o[r]["ok"] \in Nat /\ o[r]["error"] \in Nat
          /\ Out(o, r) = o[r]["pending"] + o[r]["ok"] + o[r]["error"]
      BY <1>1, <1>2, OutNat
    <3> QED
      BY <1>2, <2>1, <3>1
  <2>4. o[w]["pending"] = 0 /\ o[w]["error"] = 0
    <3>1. /\ o[w]["pending"] \in Nat /\ o[w]["ok"] \in Nat /\ o[w]["error"] \in Nat
          /\ Out(o, w) = o[w]["pending"] + o[w]["ok"] + o[w]["error"]
      BY <1>1, <1>2, OutNat
    <3> DEFINE f == o[w]["pending"]
               g == o[w]["ok"]
               h == o[w]["error"]
    <3>2. f \in Nat /\ g \in Nat /\ h \in Nat /\ f + g + h = 0
      BY <2>2, <3>1
    <3> HIDE DEF f, g, h
    <3>3. f = 0 /\ h = 0
      BY <3>2
    <3> QED
      BY <3>3 DEF f, h
  <2> QED
    BY <2>3, <2>4 DEF Held
<1>5. FetchedOf(id)[DirOf(side)] = taken[id][side] /\ DeliveredOf(id)[DirOf(side)] = out[id][Other(side)]
  BY RelayDirections
<1>6. /\ OthersSame(id) /\ sessions' = sessions /\ sock' = sock /\ out' = out
      /\ taken' = [taken EXCEPT ![id][side] = @ + 1]
  BY ActsAlone DEF IInv, Kernel, Receive
<1>7. PhaseOf(id)' = PhaseOf(id)
  <2>1. Step(ops'[id]) = Step(o)
    BY KernelSettles, Names DEF Kernel, Step
  <2> QED
    BY <1>6, <2>1 DEF PhaseOf
<1>8. Phases' = Phases /\ Deliveries' = Deliveries
  BY <1>6, <1>7, RelayOthers DEF Phases, Deliveries, DeliveredOf
<1>9. Fetches' = [Fetches EXCEPT ![id][DirOf(side)] = @ + 1]
  <2>1. FetchedOf(id)' = [FetchedOf(id) EXCEPT ![DirOf(side)] = @ + 1]
    <3>1. taken'[id] = [taken[id] EXCEPT ![side] = @ + 1]
      BY <1>6 DEF IInv, TypeOK
    <3>2. CASE side = "local"
      BY <1>1, <3>1, <3>2, Names DEF FetchedOf, DirOf
    <3>3. CASE side = "remote"
      BY <1>1, <3>1, <3>3, Names DEF FetchedOf, DirOf
    <3> QED
      BY <3>2, <3>3 DEF Side
  <2> QED
    BY <1>6, <2>1, RelayOthers DEF Fetches
<1>10. Fetches[id][DirOf(side)] - Len(Deliveries[id][DirOf(side)]) = 0
  BY <1>1, <1>3, <1>4, <1>5 DEF Fetches, Deliveries
<1>11. Phases[id] \in {"relaying", "closed"}
  BY <1>3 DEF Phases
<1> QED
  BY <1>8, <1>9, <1>10, <1>11 DEF Abstract!Fetch, Abstract!Holds, Phases, Fetches, Deliveries,
     FetchedOf, DeliveredOf

LEMMA SendRelay ==
    ASSUME IInv, NEW id \in Ids, NEW to \in Side, Send(id, to)
    PROVE  Abstract!Deliver(id, DirOf(Other(to)))
<1> DEFINE o == ops[id]
           side == Other(to)
           w == WriteOp(to)
           r == ReadOp(side)
<1>0. side \in Side /\ Other(side) = to /\ side # to
  BY SideNames
<1>1. /\ o \in OpsType /\ taken[id] \in [Side -> Nat] /\ Stands(id, sessions, o, sock[id])
      /\ Len(out[id][to]) \in Nat /\ out[id] \in [Side -> Seq(Nat)]
      /\ taken[id][side] > 0 => buffer[id][side] = taken[id][side]
  BY <1>0, Facts DEF Carries
<1>2. o[w]["pending"] > 0 /\ r \in Op /\ w \in Op
  BY <1>0, SideNames DEF Send, Pending
<1>3. /\ PhaseOf(id) \in {"relaying", "closed"}
      /\ taken[id][side] = Len(out[id][to]) + Held(o, side)
  BY <1>0, <1>2, RelayBusy DEF Phase
<1>4. Held(o, side) = 1
  <2>1. Out(o, w) = 1 /\ Chain(o, side) = 1
    BY <1>0, <1>1, <1>2, ChainBusy DEF Phase
  <2>2. Out(o, r) = 0
    <3>1. Out(o, r) \in Nat /\ Out(o, r) + Out(o, w) = 1
      BY <1>0, <1>1, <1>2, <2>1, OutNat DEF Chain
    <3> QED
      BY <2>1, <3>1
  <2>3. o[r]["ok"] = 0
    <3>1. /\ o[r]["pending"] \in Nat /\ o[r]["ok"] \in Nat /\ o[r]["error"] \in Nat
          /\ Out(o, r) = o[r]["pending"] + o[r]["ok"] + o[r]["error"]
      BY <1>1, <1>2, OutNat
    <3> DEFINE f == o[r]["pending"]
               g == o[r]["ok"]
               h == o[r]["error"]
    <3>2. f \in Nat /\ g \in Nat /\ h \in Nat /\ f + g + h = 0
      BY <2>2, <3>1
    <3> HIDE DEF f, g, h
    <3>3. g = 0
      BY <3>2
    <3> QED
      BY <3>3 DEF g
  <2>4. o[w]["pending"] = 1 /\ o[w]["error"] = 0
    <3>1. /\ o[w]["pending"] \in Nat /\ o[w]["ok"] \in Nat /\ o[w]["error"] \in Nat
          /\ Out(o, w) = o[w]["pending"] + o[w]["ok"] + o[w]["error"]
      BY <1>1, <1>2, OutNat
    <3> DEFINE f == o[w]["pending"]
               g == o[w]["ok"]
               h == o[w]["error"]
    <3>2. f \in Nat /\ g \in Nat /\ h \in Nat /\ f + g + h = 1 /\ f > 0
      BY <1>2, <2>1, <3>1
    <3> HIDE DEF f, g, h
    <3>3. f = 1 /\ h = 0
      BY <3>2
    <3> QED
      BY <3>3 DEF f, h
  <2> QED
    BY <1>0, <2>3, <2>4 DEF Held
<1>5. FetchedOf(id)[DirOf(side)] = taken[id][side] /\ DeliveredOf(id)[DirOf(side)] = out[id][to]
  BY <1>0, RelayDirections
<1>6. /\ OthersSame(id) /\ sessions' = sessions /\ sock' = sock /\ taken' = taken
      /\ out' = [out EXCEPT ![id][to] = Append(@, buffer[id][side])]
  BY ActsAlone DEF IInv, Kernel, Send
<1>7. PhaseOf(id)' = PhaseOf(id)
  <2>1. Step(ops'[id]) = Step(o)
    BY KernelSettles, Names DEF Kernel, Step
  <2> QED
    BY <1>6, <2>1 DEF PhaseOf
<1>8. Phases' = Phases /\ Fetches' = Fetches
  BY <1>6, <1>7, RelayOthers DEF Phases, Fetches, FetchedOf
<1>9. buffer[id][side] = taken[id][side] /\ taken[id][side] - Len(out[id][to]) = 1
  <2>1. taken[id][side] = Len(out[id][to]) + 1
    BY <1>3, <1>4
  <2> QED
    BY <1>1, <2>1
<1>10. Deliveries' = [Deliveries EXCEPT ![id][DirOf(side)] = Append(@, FetchedOf(id)[DirOf(side)])]
  <2>1. DeliveredOf(id)' = [DeliveredOf(id) EXCEPT ![DirOf(side)] = Append(@, taken[id][side])]
    <3>1. out'[id] = [out[id] EXCEPT ![to] = Append(@, taken[id][side])]
      BY <1>6, <1>9 DEF IInv, TypeOK
    <3> DEFINE u == out[id]
               v == out'[id]
               m == taken[id][side]
    <3>2. /\ DeliveredOf(id) = [to_remote |-> u["remote"], to_local |-> u["local"]]
          /\ DeliveredOf(id)' = [to_remote |-> v["remote"], to_local |-> v["local"]]
      BY DEF DeliveredOf
    <3>3. u \in [Side -> Seq(Nat)] /\ v = [u EXCEPT ![to] = Append(@, m)]
      BY <1>1, <3>1
    <3>4. /\ to = "remote" => DirOf(side) = "to_remote"
          /\ to = "local" => DirOf(side) = "to_local"
      BY <1>0 DEF Side, Other, DirOf
    <3>5. DeliveredOf(id)[DirOf(side)] = u[to]
      BY <1>5
    <3> HIDE DEF u, v, m, side
    <3>6. CASE to = "remote"
      <4>1. v["remote"] = Append(u["remote"], m) /\ v["local"] = u["local"]
        BY <3>3, <3>6, Names
      <4>2. DeliveredOf(id)' = [to_remote |-> Append(u["remote"], m), to_local |-> u["local"]]
        BY <3>2, <4>1
      <4>3. /\ [DeliveredOf(id) EXCEPT !["to_remote"] = Append(u["remote"], m)] = [to_remote |-> Append(u["remote"], m), to_local |-> u["local"]]
            /\ DeliveredOf(id)["to_remote"] = u["remote"]
        <5> DEFINE a == u["remote"]
                   b == u["local"]
                   n == Append(u["remote"], m)
        <5> HIDE DEF n, a, b
        <5>1. [[to_remote |-> a, to_local |-> b] EXCEPT !["to_remote"] = n] = [to_remote |-> n, to_local |-> b]
          OBVIOUS
        <5>2. DeliveredOf(id) = [to_remote |-> a, to_local |-> b]
          BY <3>2 DEF a, b
        <5> QED
          BY <5>1, <5>2 DEF n, a, b
      <4>4. DirOf(side) = "to_remote"
        BY <3>4, <3>6
      <4> QED
        BY <4>2, <4>3, <4>4 DEF m
    <3>7. CASE to = "local"
      <4>1. v["local"] = Append(u["local"], m) /\ v["remote"] = u["remote"]
        BY <3>3, <3>7, Names
      <4>2. DeliveredOf(id)' = [to_remote |-> u["remote"], to_local |-> Append(u["local"], m)]
        BY <3>2, <4>1
      <4>3. /\ [DeliveredOf(id) EXCEPT !["to_local"] = Append(u["local"], m)] = [to_remote |-> u["remote"], to_local |-> Append(u["local"], m)]
            /\ DeliveredOf(id)["to_local"] = u["local"]
        <5> DEFINE a == u["remote"]
                   b == u["local"]
                   n == Append(u["local"], m)
        <5> HIDE DEF n, a, b
        <5>1. [[to_remote |-> a, to_local |-> b] EXCEPT !["to_local"] = n] = [to_remote |-> a, to_local |-> n]
          OBVIOUS
        <5>2. DeliveredOf(id) = [to_remote |-> a, to_local |-> b]
          BY <3>2 DEF a, b
        <5> QED
          BY <5>1, <5>2 DEF n, a, b
      <4>4. DirOf(side) = "to_local"
        BY <3>4, <3>7
      <4> QED
        BY <4>2, <4>3, <4>4 DEF m
    <3> QED
      BY <3>6, <3>7 DEF Side
  <2> QED
    BY <1>5, <1>6, <2>1, RelayOthers DEF Deliveries
<1>11. Fetches[id][DirOf(side)] - Len(Deliveries[id][DirOf(side)]) = 1
  BY <1>5, <1>9 DEF Fetches, Deliveries
<1>12. Phases[id] \in {"relaying", "closed"}
  BY <1>3 DEF Phases
<1> QED
  BY <1>8, <1>10, <1>11, <1>12 DEF Abstract!Deliver, Abstract!Holds, Phases, Fetches, Deliveries,
     FetchedOf, DeliveredOf

(* A step that keeps the manager, the step of the connection and what went *)
(* over it.                                                                *)
LEMMA RelayStutters ==
    ASSUME NEW id \in Ids, OthersSame(id), UNCHANGED <<data, sessions>>,
           sock'[id]["local"] = sock[id]["local"], Step(ops'[id]) = Step(ops[id])
    PROVE  UNCHANGED Abstract!vars
<1>1. /\ PhaseOf(id)' = PhaseOf(id) /\ FetchedOf(id)' = FetchedOf(id)
      /\ DeliveredOf(id)' = DeliveredOf(id)
  BY DEF PhaseOf, FetchedOf, DeliveredOf, data
<1> QED
  BY <1>1, RelayOthers, RelaySame

LEMMA KernelRelay ==
    ASSUME IInv, NEW id \in Ids, Kernel(id)
    PROVE  \/ UNCHANGED Abstract!vars
           \/ \E dir \in Abstract!Direction : Abstract!Fetch(id, dir) \/ Abstract!Deliver(id, dir)
<1>1. ASSUME NEW side \in Side, Receive(id, side)
      PROVE  \E dir \in Abstract!Direction : Abstract!Fetch(id, dir)
  BY <1>1, ReceiveRelay, RelayDirections
<1>2. ASSUME NEW side \in Side, Send(id, side)
      PROVE  \E dir \in Abstract!Direction : Abstract!Deliver(id, dir)
  BY <1>2, SendRelay, RelayDirections, SideNames
<1>3. ASSUME NEW op \in Op, Succeed(id, op) \/ Fail(id, op)
      PROVE  UNCHANGED Abstract!vars
  <2>1. Step(ops'[id]) = Step(ops[id]) /\ sessions' = sessions
        /\ sock'[id]["local"] = sock[id]["local"]
    BY KernelSettles, Names DEF Step
  <2>2. OthersSame(id) /\ UNCHANGED data
    BY <1>3, ActsAlone DEF IInv, Succeed, Fail
  <2> QED
    BY <2>1, <2>2, RelayStutters
<1> QED
  BY <1>1, <1>2, <1>3 DEF Kernel

LEMMA DispatchRelay ==
    ASSUME IInv, NEW id \in Ids, Dispatch(id)
    PROVE  \/ UNCHANGED Abstract!vars
           \/ Abstract!StartRelaying(id) \/ Abstract!Close(id)
<1> DEFINE o == ops[id]
           k == sock[id]
<1>1. /\ o \in OpsType /\ k \in [Side -> {"none", "open", "closed"}]
      /\ Stands(id, sessions, o, k) /\ Step(o) \in Nat
  BY Facts, Sums
<1>2. OthersSame(id)
  BY ActsAlone DEF IInv
<1>3. ASSUME NEW op \in Connecting, NEW next \in Connecting, op # next,
             Completed(id, op, "ok"), Then(id, op, next), UNCHANGED <<sock, data, sessions, server>>
      PROVE  UNCHANGED Abstract!vars
  <2>1. o[op]["ok"] > 0 /\ ops'[id] = Issue(Retire(o, op, "ok"), next)
    BY <1>3 DEF Completed, Then, IInv, TypeOK
  <2>2. Step(Issue(Retire(o, op, "ok"), next)) = Step(o)
    BY <1>1, <1>3, <2>1, ConnectingThen
  <2> QED
    BY <1>2, <1>3, <2>1, <2>2, RelayStutters
<1>4. CASE Resolved(id) \/ Connected(id)
  BY <1>3, <1>4 DEF Resolved, Connected, Connecting
<1>5. CASE Handshaken(id)
  <2> DEFINE x == Issue(Issue(Retire(o, "handshake", "ok"), "read_local"), "read_remote")
  <2>1. /\ o["handshake"]["ok"] > 0 /\ ops'[id] = x /\ sessions' = sessions /\ sock' = sock
        /\ taken' = taken /\ out' = out
    BY <1>5 DEF Handshaken, Completed, data, IInv, TypeOK
  <2>2. /\ id \in sessions /\ Stands(id, sessions, x, k) /\ Step(o) = 1
        /\ \A side \in Side : Chain(x, side) = 1
    BY <1>1, <2>1, HandshakenStands
  <2>3. Step(x) = 0
    BY <2>2, Names DEF Stands
  <2>4. PhaseOf(id) = "negotiating"
    BY <2>2 DEF PhaseOf
  <2>5. PhaseOf(id)' = "relaying"
    BY <2>1, <2>2, <2>3 DEF PhaseOf
  <2>6. \A i \in Ids : FetchedOf(i)' = FetchedOf(i) /\ DeliveredOf(i)' = DeliveredOf(i)
    BY <2>1 DEF FetchedOf, DeliveredOf
  <2>7. \A i \in Ids \ {id} : PhaseOf(i)' = PhaseOf(i)
    BY <1>2, RelayOthers
  <2> QED
    BY <2>4, <2>5, <2>6, <2>7, RelayEnter DEF Abstract!StartRelaying
<1>6. ASSUME NEW side \in Side, NEW op \in Op, NEW next \in Op,
             \/ op = ReadOp(side) /\ next = WriteOp(Other(side))
             \/ op = WriteOp(Other(side)) /\ next = ReadOp(side),
             Completed(id, op, "ok"), Then(id, op, next), UNCHANGED <<sock, data, sessions, server>>
      PROVE  UNCHANGED Abstract!vars
  <2>1. o[op]["ok"] > 0 /\ ops'[id] = Issue(Retire(o, op, "ok"), next)
    BY <1>6 DEF Completed, Then, IInv, TypeOK
  <2>2. Step(Issue(Retire(o, op, "ok"), next)) = Step(o)
    <3>1. o \in OpsType /\ Stands(id, sessions, o, k) /\ o[op]["ok"] > 0
      BY <1>1, <2>1
    <3>2. op \in Op /\ next \in Op
      BY <1>6
    <3>3. \/ op = ReadOp(side) /\ next = WriteOp(Other(side))
          \/ op = WriteOp(Other(side)) /\ next = ReadOp(side)
      BY <1>6
    <3> HIDE DEF o, k
    <3>4. /\ Stands(id, sessions, Issue(Retire(o, op, "ok"), next), k)
          /\ k["local"] # "none"
          /\ Step(Issue(Retire(o, op, "ok"), next)) = Step(o)
      BY <3>1, <3>2, <3>3, PumpThen, Z3
    <3> QED
      BY <3>4
  <2> QED
    BY <1>2, <1>6, <2>1, <2>2, RelayStutters
<1>7. ASSUME NEW side \in Side, Read(id, side) \/ Written(id, side)
      PROVE  UNCHANGED Abstract!vars
  <2>1. Other(side) \in Side /\ Other(Other(side)) = side
        /\ ReadOp(side) \in Op /\ WriteOp(side) \in Op
        /\ ReadOp(Other(side)) \in Op /\ WriteOp(Other(side)) \in Op
    BY SideNames
  <2>2. CASE Read(id, side)
    BY <1>6, <2>1, <2>2 DEF Read
  <2>3. CASE Written(id, side)
    BY <1>6, <2>1, <2>3 DEF Written
  <2> QED
    BY <1>7, <2>2, <2>3
<1>8. CASE Leave(id)
  <2>1. PICK op \in Connecting \union Pump :
          /\ Completed(id, op, "error")
          /\ ops' = [ops EXCEPT ![id] = CloseRemote(Retire(@, op, "error"), sock[id])]
    BY <1>8 DEF Leave
  <2>2. /\ o[op]["error"] > 0 /\ sock'[id] = CloseLocal(k)
        /\ sessions' = sessions \ {id} /\ taken' = taken /\ out' = out
        /\ op \in Connecting \union Pump
    BY <1>8, <2>1 DEF Leave, Completed, IInv, TypeOK, data
  <2>3. k["local"] # "none" /\ CloseLocal(k)["local"] # "none"
    <3> DEFINE S == sessions \ {id}
    <3>1. /\ o \in OpsType /\ Stands(id, sessions, o, k) /\ o[op]["error"] > 0
          /\ k \in [Side -> {"none", "open", "closed"}]
      BY <1>1, <2>2
    <3>2. op \in Connecting \union Pump
      BY <2>1
    <3>3. id \notin S
      OBVIOUS
    <3> HIDE DEF o, k, S
    <3>4. /\ Stands(id, S, LeftBehind(o, k, op), CloseLocal(k))
          /\ k["local"] # "none" /\ CloseLocal(k)["local"] # "none"
      BY <3>1, <3>2, <3>3, LeaveStands
    <3> QED
      BY <3>4
  <2>4. PhaseOf(id) \in {"negotiating", "relaying", "closed"}
    BY <1>1, <2>3 DEF PhaseOf
  <2>5. PhaseOf(id)' = "closed"
    BY <2>2, <2>3 DEF PhaseOf
  <2>6. \A i \in Ids : FetchedOf(i)' = FetchedOf(i) /\ DeliveredOf(i)' = DeliveredOf(i)
    BY <2>2 DEF FetchedOf, DeliveredOf
  <2>7. \A i \in Ids \ {id} : PhaseOf(i)' = PhaseOf(i)
    BY <1>2, RelayOthers
  <2>8. CASE PhaseOf(id) = "closed"
    BY <2>5, <2>6, <2>7, <2>8, RelaySame
  <2>9. CASE PhaseOf(id) # "closed"
    BY <2>4, <2>5, <2>6, <2>7, <2>9, RelayEnter DEF Abstract!Close
  <2> QED
    BY <2>8, <2>9
<1>9. CASE RemoteClosed(id)
  <2>1. PICK op \in Closing, p \in {"ok", "error"} :
          Completed(id, op, p) /\ ops' = [ops EXCEPT ![id] = Retire(@, op, p)]
    BY <1>9 DEF RemoteClosed
  <2>2. /\ o[op][p] > 0 /\ ops'[id] = Retire(o, op, p) /\ UNCHANGED <<data, sessions>>
        /\ sock'[id]["local"] = k["local"]
    BY <1>9, <2>1 DEF RemoteClosed, Completed, IInv, TypeOK
  <2>3. Step(Retire(o, op, p)) = Step(o)
    <3>1. o \in OpsType /\ Stands(id, sessions, o, k) /\ o[op][p] > 0
      BY <1>1, <2>2
    <3>2. op \in Closing /\ p \in {"ok", "error"}
      BY <2>1
    <3> HIDE DEF o, k
    <3>3. Stands(id, sessions, Retire(o, op, p), k) /\ Step(Retire(o, op, p)) = Step(o)
      BY <3>1, <3>2, ClosedStands
    <3> QED
      BY <3>3
  <2> QED
    BY <1>2, <2>2, <2>3, RelayStutters
<1> QED
  BY <1>4, <1>5, <1>7, <1>8, <1>9 DEF Dispatch

LEMMA ServerRelay ==
    ASSUME IInv, Accept \/ AcceptError \/ Signal
    PROVE  UNCHANGED Abstract!vars \/ \E id \in Ids : Abstract!Open(id)
<1>1. CASE Accept
  <2>1. PICK id \in Ids : id = new_session
    BY <1>1 DEF Accept
  <2> DEFINE o == ops[id]
  <2>2. o \in OpsType /\ Stands(id, sessions, o, sock[id])
    BY Facts
  <2>3. id \notin sessions /\ sock[id]["local"] = "none"
    BY <2>1 DEF IInv, Unused, Ids, TypeOK
  <2>4. /\ ops'[id] = Issue(o, "resolve") /\ id \in sessions'
        /\ taken' = taken /\ out' = out
    BY <1>1, <2>1 DEF Accept, data, IInv, TypeOK
  <2>5. OthersSame(id)
    BY <1>1, <2>1 DEF Accept, OthersSame, data, IInv, TypeOK
  <2>6. Step(Issue(o, "resolve")) > 0
    <3>1. \A op \in Op : Out(o, op) = 0
      BY <2>2, <2>3 DEF Stands
    <3>2. \A op \in Op : Out(Issue(o, "resolve"), op) = IF op = "resolve" THEN Out(o, op) + 1 ELSE Out(o, op)
      BY <2>2, IssueOut, Names
    <3> HIDE DEF o
    <3>3. /\ Out(Issue(o, "resolve"), "resolve") = 1 /\ Out(Issue(o, "resolve"), "connect") = 0
          /\ Out(Issue(o, "resolve"), "handshake") = 0
      BY <3>1, <3>2, Names
    <3> QED
      BY <3>3 DEF Step
  <2>7. PhaseOf(id) = "idle" /\ PhaseOf(id)' = "negotiating"
    BY <2>3, <2>4, <2>6 DEF PhaseOf
  <2>8. \A i \in Ids : FetchedOf(i)' = FetchedOf(i) /\ DeliveredOf(i)' = DeliveredOf(i)
    BY <2>4 DEF FetchedOf, DeliveredOf
  <2>9. \A i \in Ids \ {id} : PhaseOf(i)' = PhaseOf(i)
    BY <2>5, RelayOthers
  <2> QED
    BY <2>7, <2>8, <2>9, RelayEnter DEF Abstract!Open
<1>2. CASE AcceptError \/ Signal
  BY <1>2, RelaySame DEF AcceptError, Signal, PhaseOf, FetchedOf, DeliveredOf, data
<1> QED
  BY <1>1, <1>2

LEMMA NextRelay ==
    ASSUME IInv, [Next]_vars
    PROVE  [Abstract!Next]_(Abstract!vars)
<1>1. CASE UNCHANGED vars
  BY <1>1, RelaySame DEF vars, PhaseOf, FetchedOf, DeliveredOf
<1> QED
  BY <1>1, KernelRelay, DispatchRelay, ServerRelay DEF Next, Abstract!Next

(* The tunnel implements Relay: what its two pumps carry is neither lost   *)
(* nor doubled nor reordered, nothing passes before the handshake, and a   *)
(* session that is closed is never opened again.                           *)
THEOREM TunnelImplementsRelay == Spec => ImplementsRelay
BY InitRelay, NextRelay, InvAlways, PTL DEF Spec, ImplementsRelay, Abstract!Spec
====
