--------------------------- MODULE MCRegistration ---------------------------
(***************************************************************************)
(* Instances of Registration for TLC.  Besides the empty table, states     *)
(* that a few requests and regroupings reach, so that two more requests    *)
(* are enough to rotate keys and to wait in a circle.  Users, keys and     *)
(* workers are interchangeable.                                            *)
(***************************************************************************)
EXTENDS Registration, TLC

SameRoles == Permutations(Users) \cup Permutations(Keys) \cup Permutations(Workers)

Device(u, g, k) == [user |-> u, gw |-> g, key |-> k, addr |-> 2, active |-> TRUE]
Second(u, g, k) == [Device(u, g, k) EXCEPT !.addr = 3]

(* One user has registered on every gateway. *)
RegisteredInit ==
    /\ \E u \in Users, k \in Keys : devices = {Device(u, g, k) : g \in Gateways}
    /\ grants = [u \in Users |-> Gateways]
    /\ Idle
    /\ count = [c \in Counters |-> 0]

(* Two users registered on one gateway each, and were then granted all. *)
RegroupedInit ==
    /\ \E u, v \in Users, k, l \in Keys :
          u # v /\ k # l /\ devices = {Device(u, 1, k), Device(v, 2, l)}
    /\ grants = [u \in Users |-> Gateways]
    /\ Idle
    /\ count = [c \in Counters |-> IF c = "regroups" THEN MaxRegroups ELSE 0]

(* Two users registered on the first and the last gateway, and were then
   granted those between; one more regrouping is left. *)
BetweenInit ==
    /\ \E u, v \in Users, k, l \in Keys :
          u # v /\ k # l /\ devices = {Device(u, g, k) : g \in {1, NGateways}}
                                     \cup {Second(v, g, l) : g \in {1, NGateways}}
    /\ grants = [u \in Users |-> Gateways]
    /\ Idle
    /\ count = [c \in Counters |-> 0]

\* Devices are edited only where nobody is regrouped and every user has all
\* the gateways: the product of all of it is too large.
EditsApart ==
    count["edits"] > 0 =>
        count["regroups"] = 0 /\ \A u \in Users : grants[u] = Gateways

MCSpec == (Init \/ RegisteredInit \/ RegroupedInit) /\ [][Next]_vars

WaitingSpec ==
    /\ RegroupedInit \/ BetweenInit
    /\ [][Next]_vars /\ Fairness
=============================================================================
