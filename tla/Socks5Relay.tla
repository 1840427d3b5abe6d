---- MODULE Socks5Relay ----
(***************************************************************************)
(* A SOCKS5 session implements Relay.  The greeting and the request are    *)
(* the first two messages of the local peer and the answers to them the    *)
(* first two it is sent: the relayed messages are the others.              *)
(***************************************************************************)
EXTENDS Socks5

Beyond(n) == IF n > 2 THEN n - 2 ELSE 0

PhaseOf(s) ==
    CASE s = "absent" -> "idle"
      [] s = "erased" -> "closed"
      [] s = "data_transfer_mode" -> "relaying"
      [] OTHER -> "negotiating"

Fetched(id) == [to_remote |-> Beyond(taken[id]["server"]),
                to_local |-> taken[id]["client"]]
Delivered(id) ==
    [to_remote |-> [i \in DOMAIN out[id]["client"] |-> out[id]["client"][i].n - 2],
     to_local |-> [i \in 1 .. Beyond(Len(out[id]["server"])) |-> out[id]["server"][i + 2].n]]

Abstract == INSTANCE Relay WITH
    phase <- [id \in Ids |-> PhaseOf(state[id])],
    fetched <- [id \in Ids |-> Fetched(id)],
    delivered <- [id \in Ids |-> Delivered(id)]

(* Every step of the proxy is a step of the channels Relay describes: what *)
(* socks5_data_transfer_mode pumps through the two streams is neither      *)
(* lost, doubled nor reordered, and nothing passes before the reply.       *)
ImplementsRelay == Abstract!Spec
====
