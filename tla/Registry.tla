------------------------------- MODULE Registry --------------------------------
(***************************************************************************)
(* What registration promises, whatever transactions overlap: a request    *)
(* takes effect at once on all the gateways its user could enter by when   *)
(* it was asked, or not at all; it leaves a device its address; only the   *)
(* user's own request or a saved page (re)activates a device; and no page  *)
(* makes two devices share an address or a user on one gateway.            *)
(*                                                                         *)
(* It does not promise that a key has one user: two requests may carry the *)
(* same key, and neither sees the other's devices before it took effect.   *)
(***************************************************************************)
CONSTANTS Users, Keys, Gateways, Hosts, GatewayHost, Workers, NoRow

Row == [user : Users, gw : Gateways, key : Keys, addr : Hosts, active : BOOLEAN]

VARIABLES
    devices,    \* the rows everybody sees
    grants,     \* gateways each user may enter by
    open        \* requests asked: user, key and gateways

vars == <<devices, grants, open>>

\* Every row has an address of its own, and a user one row per gateway.
Sound ==
    \A d, e \in devices :
        /\ d.addr # GatewayHost
        /\ (d.gw = e.gw /\ (d.addr = e.addr \/ d.user = e.user)) => d = e

Init ==
    /\ devices \subseteq Row
    /\ Sound
    /\ grants \in [Users -> SUBSET Gateways]
    /\ open = [w \in Workers |-> NoRow]

Ask(w, u, k) ==
    /\ open[w] = NoRow
    /\ open' = [open EXCEPT ![w] = [user |-> u, key |-> k, gws |-> grants[u]]]
    /\ UNCHANGED <<devices, grants>>

Has(u, g) == \E d \in devices : d.user = u /\ d.gw = g

\* Addresses for r: those its user has, free ones where the user has none.
Fits(r, addr) ==
    /\ \A d \in devices :
          d.gw \in r.gws => (d.addr = addr[d.gw] <=> d.user = r.user)
    /\ \A g \in r.gws : Has(r.user, g) \/ addr[g] # GatewayHost

Register(w) ==
    LET r == open[w]
    IN  /\ r # NoRow
        /\ open' = [open EXCEPT ![w] = NoRow]
        /\ UNCHANGED grants
        /\ \E addr \in [r.gws -> Hosts] :
              /\ Fits(r, addr)
              /\ devices' =
                    {d \in devices : ~(d.user = r.user /\ d.gw \in r.gws)}
                    \cup {[user |-> r.user, gw |-> g, key |-> r.key,
                           addr |-> addr[g], active |-> TRUE] : g \in r.gws}

\* No effect: a conflict, a full subnet, a lost server.
Refuse(w) ==
    /\ open[w] # NoRow
    /\ open' = [open EXCEPT ![w] = NoRow]
    /\ UNCHANGED <<devices, grants>>

Regroup(u, gs) ==
    /\ grants' = [grants EXCEPT ![u] = gs]
    /\ UNCHANGED <<devices, open>>

\* A page writes any row, over the one it shows or as a new one, and the
\* constraints hold.
Administer(old, row) ==
    /\ \A d \in devices \ old :
          d.gw = row.gw => d.addr # row.addr /\ d.user # row.user
    /\ devices' = (devices \ old) \cup {row}
    /\ UNCHANGED <<grants, open>>

Delete(d) ==
    /\ devices' = devices \ {d}
    /\ UNCHANGED <<grants, open>>

Next ==
    \/ \E u \in Users, gs \in SUBSET Gateways : Regroup(u, gs)
    \/ \E w \in Workers :
          Register(w) \/ Refuse(w) \/ \E u \in Users, k \in Keys : Ask(w, u, k)
    \/ \E d \in devices : Delete(d)
    \/ \E row \in Row : \E old \in {{}} \cup {{d} : d \in devices} :
          Administer(old, row)

Spec == Init /\ [][Next]_vars
=============================================================================
