--------------------------- MODULE MCGatewayAgent ---------------------------
(* Answers: two clients, one of whose keys the commands refuse; then that    *)
(* one revoked and its address given to a new key, and the other's network  *)
(* withdrawn; then a relay with a network the commands refuse.              *)
EXTENDS GatewayAgent, TLC

CONSTANTS ka, kb, kc, kr, a1, a2, n1, n2, bad

Peer(k, ips) == [key |-> k, ips |-> ips]

TwoClients ==
    [peers |-> {Peer(ka, {a1}), Peer(kb, {a2})}, relays |-> {Peer(None, {n2})},
     rules |-> {<<a1, n1>>, <<a2, n2>>}, masq |-> {a1}]

Reused ==
    [peers |-> {Peer(kc, {a1}), Peer(kb, {a2})}, relays |-> {Peer(kr, {n2})},
     rules |-> {<<a1, n2>>}, masq |-> {a1}]

\* A client registered a key wg does not parse.
BadClient ==
    [TwoClients EXCEPT !.peers = {Peer(bad, {a1}), Peer(kb, {a2})}]

\* The relay's networks include one that ip does not parse.
BadRelay ==
    [peers |-> {Peer(kb, {a2})}, relays |-> {Peer(kr, {n1, bad})},
     rules |-> {<<a2, n1>>}, masq |-> {a1}]

WithBadEntries == {BadClient, Reused, BadRelay}

\* A network is withdrawn from the first client, whose key stays.
Withdrawn == {TwoClients, [TwoClients EXCEPT !.rules = {<<a2, n2>>}]}
=============================================================================
