----------------------------- MODULE MCResolver -----------------------------
(* Every relay graph over three gateways that a few possible links make, in *)
(* every order of creation, with every placement of the networks' legs.     *)
EXTENDS Resolver

CONSTANTS u1, n1

Orders(E) == UNION {SetToSeqs(S) : S \in SUBSET E}

AllGranted == [u \in Users |-> Services]
AllNets == [u \in Users |-> Nets]
OwnService == [g \in Gateways |-> g]

Tables(wirings, placements, services, entries, catchalls) ==
    {[links |-> l, legs |-> m, service |-> services, accepts |-> entries,
      defaults |-> catchalls, svcs |-> AllGranted, nets |-> AllNets,
      devices |-> Users \X {1}] : l \in wirings, m \in placements}

(* Two entries into a chain that may close into a cycle. *)
Triangles ==
    Tables(Orders({<<1, 2>>, <<1, 3>>, <<2, 3>>, <<3, 2>>}),
           [Gateways -> SUBSET Nets], OwnService, {1, 2}, {})

(* An entry service with two instances, 1 and 2, and a default-route one. *)
Pools ==
    Tables({<<>>, <<<<1, 3>>>>, <<<<2, 3>>>>},
           [Gateways -> SUBSET Nets], (1 :> 1 @@ 2 :> 1 @@ 3 :> 2), {1, 2}, {2})

TrianglesAndPools == Triangles \cup Pools
=============================================================================
