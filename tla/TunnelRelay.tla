---- MODULE TunnelRelay ----
(***************************************************************************)
(* A session of the tunnel implements Relay: the negotiation is resolve,   *)
(* connect and handshake, and every message of either peer is relayed.     *)
(***************************************************************************)
EXTENDS Tunnel

PhaseOf(id) ==
    CASE id \in sessions /\ Step(ops[id]) > 0 -> "negotiating"
      [] id \in sessions /\ Step(ops[id]) = 0 -> "relaying"
      [] id \notin sessions /\ sock[id]["local"] = "none" -> "idle"
      [] OTHER -> "closed"

Abstract == INSTANCE Relay WITH
    phase <- [id \in Ids |-> PhaseOf(id)],
    fetched <- [id \in Ids |-> [to_remote |-> taken[id]["local"], to_local |-> taken[id]["remote"]]],
    delivered <- [id \in Ids |-> [to_remote |-> out[id]["remote"], to_local |-> out[id]["local"]]]

(* What the two pumps of session.hpp carry through local_buffer_ and       *)
(* remote_buffer_ is neither lost, doubled nor reordered, and nothing      *)
(* passes before the handshake.                                            *)
ImplementsRelay == Abstract!Spec
====
