------------------------------ MODULE Overlay -------------------------------
(***************************************************************************)
(* The fleet: gateways that synchronise one after another with the control *)
(* plane's tables (Resolver), and the packets they forward meanwhile, each *)
(* with what its last sync gave it.  A sync and the agent's cycle after it *)
(* are one step here; GatewayAgent takes the cycle apart.                  *)
(*                                                                         *)
(* A flow <<d, n>> is a new connection from the device with address d to   *)
(* network n, routed by its client into the tunnel to gateway d[2].        *)
(***************************************************************************)
EXTENDS Resolver

CONSTANT Client     \* where a packet comes from at its entry gateway

ASSUME ClientAssumption == Client \notin Gateways /\ None # Client

VARIABLES
    reported,   \* gateways whose agent has reported its public key
    kernel,     \* what each gateway's agent last programmed
    overwritten \* each host's own routes that a route to the tunnel replaced

vars == <<tables, edits, reported, kernel, overwritten>>

Flows == Addresses \X Nets

Kernel ==
    [clients : SUBSET Addresses,
     forward : [Nets -> Gateways \cup {None}],          \* AllowedIPs and routes
     return  : [Gateways -> Gateways \cup {None}],
     rules   : SUBSET Flows,
     masq    : SUBSET Gateways]

TypeOK ==
    /\ ResolverTypeOK
    /\ reported \subseteq Gateways
    /\ kernel \in [Gateways -> Kernel]
    /\ overwritten \in [Gateways -> SUBSET (Nets \cup Gateways)]

Blank == [clients |-> {}, forward |-> [n \in Nets |-> None],
          return |-> [s \in Gateways |-> None], rules |-> {}, masq |-> {}]

Init ==
    /\ ResolverInit
    /\ reported = {}
    /\ kernel = [g \in Gateways |-> Blank]
    /\ overwritten = [g \in Gateways |-> {}]

-----------------------------------------------------------------------------
(* A sync.                                                                 *)

\* Mutant of LastOf: no route reads as gateway 0.
LastOrZero(S) == Max(S \cup {0})

\* Peers are programmed in name order; wg gives a CIDR to the last of them.
LastOf(S) == IF S = {} THEN None ELSE Max(S)

\* gateway_sync's answer as reconcile programs it; old masquerades stay.
Programmed(g, known) ==
    LET ready == RelayPeers(g) \cap known
    IN  [clients |-> {d \in devices : d[2] = g},
         forward |-> [n \in Nets |-> LastOf({p \in ready : n \in AllowedIPs(g, p).nets})],
         return  |-> [s \in Gateways |-> LastOf({p \in ready : s \in AllowedIPs(g, p).subnets})],
         rules   |-> ForwardRules(g),
         masq    |-> kernel[g].masq \cup MasqSubnets(g)]

\* The routes of its own a host has: to its legs and to its clients.
OwnRoutes(g) == legs[g] \cup {g}

Routed(k) ==
    {n \in Nets : k.forward[n] # None} \cup {s \in Gateways : k.return[s] # None}

\* `ip route replace` overwrites a route of the host's own to the same CIDR,
\* and no `ip route del` brings that one back.
Overwrites(g) == OwnRoutes(g) \cap (Routed(kernel'[g]) \ Routed(kernel[g]))

\* The agent reports its key first.  A deactivated gateway's token is refused: it keeps what it has.
Sync(g) ==
    /\ g \in active
    /\ reported' = reported \cup {g}
    /\ kernel' = [kernel EXCEPT ![g] = Programmed(g, reported')]
    /\ overwritten' = [overwritten EXCEPT ![g] = @ \cup Overwrites(g)]
    /\ UNCHANGED <<tables, edits>>

AdminEdit == Edit /\ UNCHANGED <<reported, kernel, overwritten>>

Next == AdminEdit \/ \E g \in Gateways : Sync(g)

Spec == Init /\ [][Next]_vars

\* Every agent polls for ever.
FairSpec == Spec /\ \A g \in Gateways : WF_vars(Sync(g))

-----------------------------------------------------------------------------
(* A packet's way.  wg accepts a source only from the peer that owns it,   *)
(* so the replies retrace the hops, whose conntrack entries let them pass. *)

Admits(g, from, d) ==
    IF d \in kernel[g].clients THEN from = Client
    ELSE kernel[g].return[d[2]] = from

Passes(g, from, f) == Admits(g, from, f[1]) /\ f \in kernel[g].rules

\* The gateways a packet of f crosses; none when one of them drops it.  A
\* route through the tunnel replaces the one to the gateway's own leg.
Way(f) ==
    LET entered == IF Passes(f[1][2], Client, f) THEN <<f[1][2]>> ELSE <<>>
        onward[hops \in Seq(Gateways)] ==
            LET next == kernel[Last(hops)].forward[f[2]]
            IN  IF hops = <<>> \/ next = None THEN hops
                ELSE IF Passes(next, Last(hops), f) THEN Append(hops, next)
                ELSE <<>>
        way[k \in 1 .. NGateways + 1] == IF k = 1 THEN entered ELSE onward[way[k - 1]]
    IN  way[NGateways + 1]

\* It comes to a gateway that has a leg there and does not route it on.
Arrives(f) ==
    LET way == Way(f)
    IN  /\ way # <<>>
        /\ kernel[Last(way)].forward[f[2]] = None
        /\ f[2] \in legs[Last(way)]

\* The host's own route takes it out by the leg.
Delivered(f) == Arrives(f) /\ f[2] \notin overwritten[Last(Way(f))]

\* The leg's masquerade brings the reply back, and the entry gateway has a
\* route to its clients still, its own or one to the tunnel in its place.
Answered(f) ==
    LET entry == f[1][2]
    IN  /\ Delivered(f) /\ entry \in kernel[Last(Way(f))].masq
        /\ entry \notin overwritten[entry] \/ kernel[entry].return[entry] # None

-----------------------------------------------------------------------------
(* What must hold.                                                         *)

Fresh(g) == g \in active /\ kernel[g].rules = ForwardRules(g)

\* Every hop enforces on its own: one gateway on the way that has seen the
\* present tables is enough to stop what they no longer grant, however old
\* the state of the others ("a compromised entry gateway cannot widen access
\* behind a relay").  What is granted is said by the plan's own walk.
OneFreshHopEnforces ==
    \A f \in Flows : Arrives(f) =>
        \A g \in {h \in ToSet(Way(f)) : Fresh(h)} :
            /\ f[1] \in devices /\ service[f[1][2]] \in EntryServices(f[1][1])
            /\ f[2] \in ReachableNets(f[1][1], f[1][2])
            /\ service[g] \in svcs[f[1][1]]

\* No gateway has two ways to choose from: a network behind two of its peers,
\* or behind a peer and at its own leg, or a subnet behind two peers.
Unambiguous ==
    \A g \in active :
        /\ \A n \in Nets :
              LET ways == {p \in RelayPeers(g) : n \in AllowedIPs(g, p).nets}
              IN  Cardinality(ways) <= IF n \in legs[g] THEN 0 ELSE 1
        /\ \A s \in Gateways :
              LET ways == {p \in RelayPeers(g) : s \in AllowedIPs(g, p).subnets}
              IN  Cardinality(ways) <= IF s = g THEN 0 ELSE 1

\* The flows the plan promises to the entitled devices.
Promised == {f \in Flows : f[1] \in Entitled /\ f[2] \in ReachableNets(f[1][1], f[1][2])}

\* A relay path that the tables no longer have went, at one of the gateways
\* that f leaves by or enters by, to what that host has a route of its own to.
Stranded(f) ==
    /\ Arrives(f)
    /\ \/ f[2] \in overwritten[Last(Way(f))]
       \/ f[1][2] \in overwritten[f[1][2]]

\* Once the edits stop, polling alone brings up every promised flow of an
\* unambiguous topology, first key reports included, and keeps it up, unless
\* it is stranded; no other flow gets anywhere unless it enters by a
\* deactivated gateway.
Settles ==
    <>[](/\ Unambiguous => \A f \in Promised : Answered(f) \/ Stranded(f)
         /\ \A f \in Flows : Arrives(f) => f \in Promised \/ f[1][2] \notin active)
=============================================================================
