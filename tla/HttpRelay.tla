---- MODULE HttpRelay ----
(***************************************************************************)
(* An HTTP session whose local peer uses CONNECT implements Relay: the     *)
(* request and the 200 answer are the first message of either direction,   *)
(* the relayed messages are the others.  A forwarded request is not a      *)
(* relay: it counts as negotiating, until it is closed, and as no message. *)
(***************************************************************************)
EXTENDS Http

Beyond(n) == IF n > 1 THEN n - 1 ELSE 0

IsTunnel(id) == response[id] = HttpDone

PhaseOf(id) ==
    CASE state[id] = "absent" -> "idle"
      [] state[id] = "erased" -> "closed"
      [] state[id] = "data_transfer_mode" /\ IsTunnel(id) -> "relaying"
      [] OTHER -> "negotiating"

Fetched(id) ==
    IF IsTunnel(id)
    THEN [to_remote |-> Beyond(taken[id]["server"]), to_local |-> taken[id]["client"]]
    ELSE [to_remote |-> 0, to_local |-> 0]

Delivered(id) ==
    IF IsTunnel(id)
    THEN [to_remote |-> [i \in DOMAIN out[id]["client"] |-> out[id]["client"][i].n - 1],
          to_local |-> [i \in 1 .. Beyond(Len(out[id]["server"])) |-> out[id]["server"][i + 1].n]]
    ELSE [to_remote |-> <<>>, to_local |-> <<>>]

Abstract == INSTANCE Relay WITH
    phase <- [id \in Ids |-> PhaseOf(id)],
    fetched <- [id \in Ids |-> Fetched(id)],
    delivered <- [id \in Ids |-> Delivered(id)]

(* What http_data_transfer_mode pumps through the two streams of a CONNECT *)
(* session is neither lost, doubled nor reordered.                         *)
ImplementsRelay == Abstract!Spec
====
