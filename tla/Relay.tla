---- MODULE Relay ----
(***************************************************************************)
(* What the proxy promises of one session, whatever the protocol it        *)
(* negotiates with: nothing is relayed before the negotiation is over, and *)
(* from then on each direction is a lossless, ordered channel that holds   *)
(* at most one message (the reader waits for the writer, so a slow peer    *)
(* stops the fast one).  A closed session may drop what it holds; it never *)
(* duplicates or reorders.  Translated from the state graph that           *)
(* socks5_state.cpp and http_state.cpp share.                              *)
(***************************************************************************)
EXTENDS Naturals, Sequences

CONSTANT Ids

VARIABLES phase,      \* phase[id]
          fetched,    \* fetched[id][dir]: messages taken from the sender
          delivered   \* delivered[id][dir]: messages handed to the receiver

vars == <<phase, fetched, delivered>>

Direction == {"to_remote", "to_local"}

Init ==
    /\ phase = [id \in Ids |-> "idle"]
    /\ fetched = [id \in Ids |-> [dir \in Direction |-> 0]]
    /\ delivered = [id \in Ids |-> [dir \in Direction |-> <<>>]]

Enter(id, from, to) ==
    /\ phase[id] \in from
    /\ phase' = [phase EXCEPT ![id] = to]
    /\ UNCHANGED <<fetched, delivered>>

Open(id) == Enter(id, {"idle"}, "negotiating")
StartRelaying(id) == Enter(id, {"negotiating"}, "relaying")
Close(id) == Enter(id, {"negotiating", "relaying"}, "closed")

Holds(id, dir) == fetched[id][dir] - Len(delivered[id][dir])

(* A read that was outstanding when the session closed may still complete. *)
Fetch(id, dir) ==
    /\ phase[id] \in {"relaying", "closed"}
    /\ Holds(id, dir) = 0
    /\ fetched' = [fetched EXCEPT ![id][dir] = @ + 1]
    /\ UNCHANGED <<phase, delivered>>

Deliver(id, dir) ==
    /\ phase[id] \in {"relaying", "closed"}
    /\ Holds(id, dir) = 1
    /\ delivered' = [delivered EXCEPT ![id][dir] = Append(@, fetched[id][dir])]
    /\ UNCHANGED <<phase, fetched>>

Next ==
    \E id \in Ids :
        \/ Open(id) \/ StartRelaying(id) \/ Close(id)
        \/ \E dir \in Direction : Fetch(id, dir) \/ Deliver(id, dir)

Spec == Init /\ [][Next]_vars
====
