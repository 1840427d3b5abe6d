---- MODULE Tunnel ----
(***************************************************************************)
(* amgi_tunnel: a session connects an accepted local peer, in clear, with  *)
(* one configured remote host, in TLS (session.hpp, manager.hpp,           *)
(* server.hpp).  A session has no state variable: where it stands is which *)
(* operations it has outstanding.  One chain of operations connects it;    *)
(* after the handshake two chains pump, one per direction, and each of     *)
(* them ends by leaving the manager, so that a session leaves twice.       *)
(*                                                                         *)
(* Each direction has ONE buffer, filled by the read and sent by the write.*)
(* As in Transport an operation is issued, the kernel settles it, and its  *)
(* handler retires it: all that one handler does is one action here.       *)
(***************************************************************************)
EXTENDS Integers, Sequences

CONSTANTS MaxSessions,  \* session objects created: bounds the accept loop
          MaxReads      \* messages a peer sends on one connection

ASSUME MaxSessionsAssumption == MaxSessions \in Nat \ {0}
ASSUME MaxReadsAssumption == MaxReads \in Nat

VARIABLES
    ops,          \* ops[id][op][phase]: operations of that kind in that phase
    sock,         \* sock[id][side]: local_sock_ and remote_sock_
    buffer,       \* buffer[id][side]: local_buffer_ and remote_buffer_
    taken,        \* taken[id][side]: messages of that peer the kernel delivered
    out,          \* out[id][side]: what that peer was sent, in order
    sessions,     \* sessions_ of the manager
    new_session,  \* the session waiting in async_accept
    running       \* ioc_ has not been stopped

data == <<buffer, taken, out>>
server == <<new_session, running>>
vars == <<ops, sock, buffer, taken, out, sessions, new_session, running>>

----
Ids == 1 .. MaxSessions
Side == {"local", "remote"}
Phase == {"pending", "ok", "error"}
Connecting == {"resolve", "connect", "handshake"}
Closing == {"shutdown", "null_write"}
Pump == {"read_local", "write_remote", "read_remote", "write_local"}
Op == Connecting \union Closing \union Pump

Other(side) == IF side = "local" THEN "remote" ELSE "local"
ReadOp(side) == IF side = "local" THEN "read_local" ELSE "read_remote"
WriteOp(side) == IF side = "local" THEN "write_local" ELSE "write_remote"
SideOf(op) == IF op \in {"read_local", "write_local"} THEN "local" ELSE "remote"

Idle == [op \in Op |-> [p \in Phase |-> 0]]
Issue(o, op) == [o EXCEPT ![op]["pending"] = @ + 1]
Settle(o, op, p) == [o EXCEPT ![op]["pending"] = @ - 1, ![op][p] = @ + 1]
RetireAgain(o, op, p) == [o EXCEPT ![op][p] = @ - 1, ![op]["pending"] = @ - 1]  \* bug
Retire(o, op, p) == [o EXCEPT ![op][p] = @ - 1]
Out(o, op) == o[op]["pending"] + o[op]["ok"] + o[op]["error"]

Pending(id, op) == running /\ ops[id][op]["pending"] > 0
Completed(id, op, p) == running /\ ops[id][op][p] > 0

----
(* External: the kernel, TLS and the peers.                                *)

Receive(id, side) ==
    /\ Pending(id, ReadOp(side))
    /\ sock[id][side] = "open"
    /\ taken[id][side] < MaxReads
    /\ taken' = [taken EXCEPT ![id][side] = @ + 1]
    /\ buffer' = [buffer EXCEPT ![id][side] = taken[id][side] + 1]
    /\ ops' = [ops EXCEPT ![id] = Settle(@, ReadOp(side), "ok")]
    /\ UNCHANGED <<sock, out, sessions, server>>

(* The buffer of the other direction, as it is now, has been sent.         *)
Send(id, side) ==
    /\ Pending(id, WriteOp(side))
    /\ sock[id][side] = "open"
    /\ out' = [out EXCEPT ![id][side] = Append(@, buffer[id][Other(side)])]
    /\ ops' = [ops EXCEPT ![id] = Settle(@, WriteOp(side), "ok")]
    /\ UNCHANGED <<sock, buffer, taken, sessions, server>>

Succeed(id, op) ==
    /\ op \in Connecting \union Closing
    /\ Pending(id, op)
    /\ op \in {"handshake", "shutdown"} => sock[id]["remote"] = "open"
    /\ ops' = [ops EXCEPT ![id] = Settle(@, op, "ok")]
    /\ sock' = IF op = "connect" THEN [sock EXCEPT ![id]["remote"] = "open"] ELSE sock
    /\ UNCHANGED <<data, sessions, server>>

(* End of file, reset, refusal, a certificate that does not verify,        *)
(* cancellation; a write of no bytes cannot fail.  A failed connect leaves *)
(* the socket of its last attempt open, if it made one.                    *)
Fail(id, op) ==
    /\ op # "null_write"
    /\ Pending(id, op)
    /\ ops' = [ops EXCEPT ![id] = Settle(@, op, "error")]
    /\ \/ sock' = sock
       \/ op = "connect" /\ sock' = [sock EXCEPT ![id]["remote"] = "open"]
    /\ UNCHANGED <<data, sessions, server>>

Kernel(id) ==
    \/ \E side \in Side : Receive(id, side) \/ Send(id, side)
    \/ \E op \in Op : Succeed(id, op) \/ Fail(id, op)

(* Completed without help from a peer: as in Transport.                    *)
Unaided(id, op) ==
    op \in {"resolve", "connect", "null_write"} \/ sock[id][SideOf(op)] = "closed"
KernelFinishes(id, op) == Unaided(id, op) /\ (Succeed(id, op) \/ Fail(id, op))

----
(* The session's handlers.                                                 *)

(* close: the local socket is closed at once; the TLS stream, while its    *)
(* socket is open, starts to close with whatever else it has outstanding.  *)
CloseWaitsForPeer(o, s) == IF s["remote"] = "open" THEN Issue(o, "shutdown") ELSE o    \* bug
CloseRemote(o, s) ==
    IF s["remote"] = "open" THEN Issue(Issue(o, "shutdown"), "null_write") ELSE o
CloseLocal(s) == [s EXCEPT !["local"] = IF @ = "open" THEN "closed" ELSE @]

(* Every handler answers an error by leaving: the session is stopped and   *)
(* erased from sessions_, if it is still there.                            *)
Leave(id) ==
    /\ \E op \in Connecting \union Pump :
         /\ Completed(id, op, "error")
         /\ ops' = [ops EXCEPT ![id] = CloseRemote(Retire(@, op, "error"), sock[id])]
    /\ sock' = [sock EXCEPT ![id] = CloseLocal(@)]
    /\ sessions' = sessions \ {id}
    /\ UNCHANGED <<data, server>>

(* The handlers of async_shutdown and of the empty write.                  *)
RemoteClosed(id) ==
    /\ \E op \in Closing, p \in {"ok", "error"} :
         /\ Completed(id, op, p)
         /\ ops' = [ops EXCEPT ![id] = Retire(@, op, p)]
    /\ sock' = [sock EXCEPT ![id]["remote"] = "closed"]
    /\ UNCHANGED <<data, sessions, server>>

Then(id, op, next) == ops' = [ops EXCEPT ![id] = Issue(Retire(@, op, "ok"), next)]

Resolved(id) ==
    /\ Completed(id, "resolve", "ok")
    /\ Then(id, "resolve", "connect")
    /\ UNCHANGED <<sock, data, sessions, server>>

(* Bug: the local peer is read while the handshake runs.                   *)
ConnectedReads(id) ==
    /\ Completed(id, "connect", "ok")
    /\ ops' = [ops EXCEPT ![id] =
                 Issue(Issue(Retire(@, "connect", "ok"), "handshake"), "read_local")]
    /\ UNCHANGED <<sock, data, sessions, server>>

Connected(id) ==
    /\ Completed(id, "connect", "ok")
    /\ Then(id, "connect", "handshake")
    /\ UNCHANGED <<sock, data, sessions, server>>

Handshaken(id) ==
    /\ Completed(id, "handshake", "ok")
    /\ ops' = [ops EXCEPT ![id] =
                 Issue(Issue(Retire(@, "handshake", "ok"), "read_local"), "read_remote")]
    /\ UNCHANGED <<sock, data, sessions, server>>

(* Bug: the next read does not wait for the write, into the same buffer.   *)
ReadEager(id, side) ==
    /\ Completed(id, ReadOp(side), "ok")
    /\ ops' = [ops EXCEPT ![id] =
                 Issue(Issue(Retire(@, ReadOp(side), "ok"), WriteOp(Other(side))), ReadOp(side))]
    /\ UNCHANGED <<sock, data, sessions, server>>

(* do_read_from_local, do_read_from_remote: neither asks whether the       *)
(* session has left, it is the next operation that fails.                  *)
Read(id, side) ==
    /\ Completed(id, ReadOp(side), "ok")
    /\ Then(id, ReadOp(side), WriteOp(Other(side)))
    /\ UNCHANGED <<sock, data, sessions, server>>

(* do_write_to_remote, do_write_to_local.                                  *)
Written(id, side) ==
    /\ Completed(id, WriteOp(side), "ok")
    /\ Then(id, WriteOp(side), ReadOp(Other(side)))
    /\ UNCHANGED <<sock, data, sessions, server>>

Dispatch(id) ==
    \/ Resolved(id) \/ Connected(id) \/ Handshaken(id)
    \/ \E side \in Side : Read(id, side) \/ Written(id, side)
    \/ Leave(id) \/ RemoteClosed(id)

----
(* server::start_accept: the session joins the manager and resolves.       *)
Accept ==
    /\ running
    /\ new_session \in Ids
    /\ ops' = [ops EXCEPT ![new_session] = Issue(@, "resolve")]
    /\ sock' = [sock EXCEPT ![new_session]["local"] = "open"]
    /\ sessions' = sessions \union {new_session}
    /\ new_session' = new_session + 1
    /\ UNCHANGED <<data, running>>

(* With an error that session is dropped and another one is created.       *)
AcceptError ==
    /\ running
    /\ new_session \in Ids
    /\ new_session' = new_session + 1
    /\ UNCHANGED <<ops, sock, data, sessions, running>>

(* SIGINT or SIGTERM: ioc_.stop().                                         *)
Signal ==
    /\ running
    /\ running' = FALSE
    /\ UNCHANGED <<ops, sock, data, sessions, new_session>>

Init ==
    /\ ops = [id \in Ids |-> Idle]
    /\ sock = [id \in Ids |-> [side \in Side |-> "none"]]
    /\ buffer = [id \in Ids |-> [side \in Side |-> 0]]
    /\ taken = [id \in Ids |-> [side \in Side |-> 0]]
    /\ out = [id \in Ids |-> [side \in Side |-> <<>>]]
    /\ sessions = {}
    /\ new_session = 1
    /\ running = TRUE

Next ==
    \/ \E id \in Ids : Kernel(id) \/ Dispatch(id)
    \/ Accept \/ AcceptError \/ Signal

Spec == Init /\ [][Next]_vars

(* As in Socks5: handlers run, and the kernel completes what needs no peer.*)
FairSpec ==
    /\ Spec
    /\ \A id \in Ids : WF_vars(Dispatch(id))
    /\ \A id \in Ids, op \in Op : WF_vars(KernelFinishes(id, op))

----
TypeOK ==
    /\ ops \in [Ids -> [Op -> [Phase -> Nat]]]
    /\ sock \in [Ids -> [Side -> {"none", "open", "closed"}]]
    /\ buffer \in [Ids -> [Side -> Nat]]
    /\ taken \in [Ids -> [Side -> Nat]]
    /\ out \in [Ids -> [Side -> Seq(Nat)]]
    /\ sessions \subseteq Ids
    /\ new_session \in Nat \ {0}
    /\ running \in BOOLEAN

(* A direction is a read on one side or the write of it to the other.      *)
Chain(o, side) == Out(o, ReadOp(side)) + Out(o, WriteOp(Other(side)))
Step(o) == Out(o, "resolve") + Out(o, "connect") + Out(o, "handshake")

(* A session of the manager has exactly one connecting operation and no    *)
(* data in flight, or both directions running: nothing of the local peer   *)
(* is read before TLS is up, no direction stops alone, and no session of   *)
(* the manager has nothing left to wake it up.                             *)
NeverIdle ==
    \A id \in sessions :
        LET o == ops[id]
        IN  /\ \A op \in Closing : Out(o, op) = 0
            /\ \/ Step(o) = 1 /\ \A side \in Side : Chain(o, side) = 0
               \/ Step(o) = 0 /\ \A side \in Side : Chain(o, side) = 1

(* One buffer carries a direction through its read and its write: at most  *)
(* one operation uses it, also in a session that left while the handlers   *)
(* of its other direction go on (do_write_to_remote, do_read_from_local).  *)
OneUsePerBuffer ==
    \A id \in Ids, side \in Side : Chain(ops[id], side) <= 1

(* When a peer of a session closes, what it sent has been sent on.         *)
NothingLostOnEof ==
    \A id \in sessions, side \in Side :
        ops[id][ReadOp(side)]["error"] > 0 => Len(out[id][Other(side)]) = taken[id][side]

(* A session that left never comes back, and the socket of its local peer  *)
(* is not opened again.  Its queued handlers may still start operations,   *)
(* but only in the place of what they finish: in a direction the next read *)
(* or write, and, where a direction ends by leaving again, at most one     *)
(* more shutdown and one more empty write.                                 *)
Running(o) == Step(o) + Chain(o, "local") + Chain(o, "remote")

WindsDown ==
    [][\A id \in Ids : (id < new_session /\ id \notin sessions) =>
         /\ id \notin sessions'
         /\ sock'[id]["local"] = sock[id]["local"]
         /\ Step(ops'[id]) <= Step(ops[id])
         /\ \A side \in Side : Chain(ops'[id], side) <= Chain(ops[id], side)
         /\ \A op \in Closing :
              Out(ops'[id], op) + Running(ops'[id]) <= Out(ops[id], op) + Running(ops[id])]_vars

(* An error anywhere ends the session: both directions stop, the closing   *)
(* operations finish although the remote host need not answer them, and    *)
(* no handler keeps the session object alive.                              *)
SessionEnds ==
    \A id \in Ids : \A op \in Op :
        ops[id][op]["error"] > 0 ~> (~running \/ (id \notin sessions /\ ops[id] = Idle))
====
