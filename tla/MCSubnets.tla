------------------------------ MODULE MCSubnets ------------------------------
(* Two halves of a network, one of them typed in two ways, the network      *)
(* itself, and a text that is no CIDR.                                      *)
EXTENDS Subnets, TLC

CONSTANTS low, lowToo, high, both, bad

Typed == {low, lowToo, high, both, bad}
Denoted == (low :> <<0, 4>>) @@ (lowToo :> <<0, 4>>) @@ (high :> <<4, 4>>) @@ (both :> <<0, 8>>)

SameRoles == Permutations(Users) \cup Permutations(Admins) \cup Permutations(Gateways)
=============================================================================
