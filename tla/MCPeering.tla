------------------------------ MODULE MCPeering ------------------------------
(* One ordinary peer p and one, q, that may be a relay or sit behind a      *)
(* symmetric NAT, seen from an agent that is plain, behind a symmetric NAT  *)
(* or itself the relay.  Two loopback octets: a second lease is refused.    *)
EXTENDS Peering

CONSTANTS p, q

MCPeers == {p, q}
MCSelves == [relay : {FALSE}, relayOnly : {FALSE}, sym : BOOLEAN]
            \cup {[relay |-> TRUE, relayOnly |-> FALSE, sym |-> FALSE]}

MCWays == {{}, {"public", "loop"}}
MCLiveWays == {{"local"}, {"public", "loop"}}

Plain == [relay |-> "no", sym |-> FALSE, routes |-> FALSE, twin |-> FALSE,
          named |-> FALSE, at |-> 1, group |-> 1]
Routed == [Plain EXCEPT !.sym = TRUE, !.routes = TRUE]
MCDeviceKinds == (p :> {Plain, Routed})
           @@ (q :> {Routed, [Plain EXCEPT !.relay = "wg"],
                     [Plain EXCEPT !.relay = "derp"],
                     [Plain EXCEPT !.relay = "derp", !.named = TRUE]})
=============================================================================
