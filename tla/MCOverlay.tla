----------------------------- MODULE MCOverlay ------------------------------
(* Gateways each of its own service, entries 1 and 2, and relay 3.          *)
EXTENDS Overlay

CONSTANTS u1, n1

Table(l, m) ==
    [links |-> l, legs |-> m, service |-> [g \in Gateways |-> g],
     accepts |-> {1, 2}, defaults |-> {}, svcs |-> [u \in Users |-> Services],
     nets |-> [u \in Users |-> Nets], devices |-> Users \X {1}]

LegAt(G) == [g \in Gateways |-> IF g \in G THEN Nets ELSE {}]

\* A chain, a star, and a relay path over a gateway's own leg.
Simple == {Table(<<<<1, 2>>, <<2, 3>>>>, LegAt({3})),
           Table(<<<<1, 2>>, <<1, 3>>>>, LegAt({2})),
           Table(<<<<1, 2>>>>, LegAt({1, 2}))}
=============================================================================
