------------------------------ MODULE Resolver ------------------------------
(***************************************************************************)
(* The control plane's tables and what core/resolve.py derives from them:  *)
(* the multi-tunnel plan a client gets, and the relay peers, forward rules *)
(* and masqueraded subnets a gateway gets.  Plan and rules walk the relay  *)
(* graph each with its own code; the system works only if they agree.      *)
(*                                                                         *)
(* Gateways and services are numbered in name order.  A gateway's number   *)
(* stands for its tunnel subnet too, and <<u, g>> for the address of user  *)
(* u's device on g: subnets are unique and addresses unique in them.       *)
(***************************************************************************)
EXTENDS Naturals, FiniteSets, FiniteSetsExt, Sequences, SequencesExt

CONSTANTS
    Users, Nets,
    NGateways, NServices,
    None,           \* the service of a gateway that has none
    InitialTables,  \* the tables the administrators start from
    MaxEdits        \* bound on their edits

Gateways == 1 .. NGateways
Services == 1 .. NServices
Addresses == Users \X Gateways
Edges == {e \in Gateways \X Gateways : e[1] # e[2]}

\* No link is there twice: unique_relay_link.
Links == {l \in Seq(Edges) : IsInjective(l)}

ASSUME ResolverAssumption ==
    /\ NGateways \in Nat /\ NServices \in Nat /\ MaxEdits \in Nat
    /\ None \notin Nat
    /\ \A t \in InitialTables :
          /\ t.links \in Links
          /\ t.legs \in [Gateways -> SUBSET Nets]
          /\ t.service \in [Gateways -> Services \cup {None}]
          /\ t.accepts \subseteq Services /\ t.defaults \subseteq Services
          /\ t.svcs \in [Users -> SUBSET Services]
          /\ t.nets \in [Users -> SUBSET Nets]
          /\ t.devices \subseteq Addresses

VARIABLES
    links,      \* RelayLink rows <<from, to>>, oldest first
    legs,       \* Gateway.networks
    service,    \* Gateway.service
    active,     \* gateways with is_active
    accepts,    \* services with accepts_clients
    defaults,   \* services with default_route
    svcs,       \* services each user's groups grant
    nets,       \* networks each user's groups grant
    devices,    \* addresses of the active devices
    edits       \* edits made so far

tables == <<links, legs, service, active, accepts, defaults, svcs, nets, devices>>
resolverVars == <<tables, edits>>

ResolverTypeOK ==
    /\ links \in Links
    /\ legs \in [Gateways -> SUBSET Nets]
    /\ service \in [Gateways -> Services \cup {None}]
    /\ active \subseteq Gateways
    /\ accepts \subseteq Services /\ defaults \subseteq Services
    /\ svcs \in [Users -> SUBSET Services]
    /\ nets \in [Users -> SUBSET Nets]
    /\ devices \subseteq Addresses
    /\ edits \in 0 .. MaxEdits

ResolverInit ==
    /\ \E t \in InitialTables :
          /\ links = t.links /\ legs = t.legs /\ service = t.service
          /\ accepts = t.accepts /\ defaults = t.defaults
          /\ svcs = t.svcs /\ nets = t.nets /\ devices = t.devices
    /\ active = Gateways /\ edits = 0

-----------------------------------------------------------------------------
(* Walks of the relay graph.                                               *)

\* Breadth first from start along those of the edges that are in E: the way to
\* each gateway found.  The next one found is the first that the earliest one
\* found leads to.
Branches(start, edges, E) ==
    LET found(tree) == {Last(tree[j]) : j \in DOMAIN tree}
        \* the edges from the j-th gateway found to one that is not
        ahead(tree, j) == {i \in DOMAIN edges : /\ edges[i] \in E /\ edges[i][1] = Last(tree[j])
                                               /\ edges[i][2] \notin found(tree)}
        grown[tree \in Seq(Seq(Gateways))] ==
            LET queue == {j \in DOMAIN tree : ahead(tree, j) # {}}
                next == edges[Min(ahead(tree, Min(queue)))][2]
            IN  IF queue = {} THEN tree
                ELSE Append(tree, Append(tree[Min(queue)], next))
        walk[k \in Gateways] == IF k = 1 THEN <<<<start>>>> ELSE grown[walk[k - 1]]
    IN  ToSet(walk[NGateways])

\* The gateways it visits.
Bfs(start, edges, E) == {Last(b) : b \in Branches(start, edges, E)}

-----------------------------------------------------------------------------
(* The client's side: plan_for_user.                                       *)

\* reachable_gateways: only into active gateways of a granted service.
Reachable(entry, granted) ==
    Bfs(entry, links, {e \in Edges : e[2] \in active /\ service[e[2]] \in granted})

\* _reachable_cidrs.
ReachableNets(u, entry) ==
    nets[u] \cap UNION {legs[g] : g \in Reachable(entry, svcs[u])}

EntryServices(u) == svcs[u] \cap accepts
Instances(s) == {g \in active : service[g] = s}

\* Union over the instances of s: each alone may reach less.
Cidrs(u, s) == UNION {ReachableNets(u, g) : g \in Instances(s)}

\* Mutant of Claims: nothing is claimed by an earlier tunnel.
ClaimsAll(u, s) == Cidrs(u, s)

\* What the services before s in plan order left to its tunnel.
Claims(u, s) ==
    Cidrs(u, s) \ UNION {Cidrs(u, t) : t \in {t \in EntryServices(u) \ defaults : t < s}}

\* The services with a tunnel; a default-route one has 0.0.0.0/0.
Tunnels(u) ==
    {s \in EntryServices(u) : /\ Instances(s) # {}
                              /\ s \in defaults \/ Claims(u, s) # {}}

\* access_for_user, and those of its gateways get_config has an answer for.
EntryGateways(u) == {g \in active : service[g] \in EntryServices(u)}
Configured(u) == {g \in EntryGateways(u) : <<u, g>> \in devices}

\* networks_via_gateway: a single-tunnel configuration has the direct legs only.
LegacyNets(u, g) == legs[g] \cap nets[u]

-----------------------------------------------------------------------------
(* The gateways' side: what gateway_sync answers.                          *)

\* _active_topology.
ActiveLinks == ToSet(links) \cap (active \X active)
Flip(edges) == [i \in DOMAIN edges |-> <<edges[i][2], edges[i][1]>>]

\* Mutant of NetsBehind: the next relay's own legs only, no chain.
NetsNextDoor(p) == legs[p]

\* relay_peers_for_gateway: the networks behind the gateways g relays to.
NetsBehind(p) == UNION {legs[h] : h \in Bfs(p, links, ActiveLinks)}

\* Mutant of SubnetsBehind: the upstream gateway's own subnet only.
SubnetNextDoor(p) == {p}

\* ... and the client subnets behind those that relay to it.
SubnetsBehind(p) == Bfs(p, Flip(links), active \X active)

RelayPeers(g) == {p \in Gateways : <<g, p>> \in ActiveLinks \/ <<p, g>> \in ActiveLinks}

AllowedIPs(g, p) ==
    [nets    |-> IF <<g, p>> \in ActiveLinks THEN NetsBehind(p) ELSE {},
     subnets |-> IF <<p, g>> \in ActiveLinks THEN SubnetsBehind(p) ELSE {}]

\* masq_subnets_for_gateway.
MasqSubnets(g) == SubnetsBehind(g)

\* forward_rules_for_gateway: devices whose entry service is granted.
Entitled ==
    {d \in devices : /\ d[2] \in active
                     /\ service[d[2]] \in svcs[d[1]] \cap accepts}

\* Mutant of RuleEdges: a relay hop is no privilege.
RuleEdgesAll(granted) == ActiveLinks

RuleEdges(granted) == {e \in ActiveLinks : service[e[2]] \in granted}

\* <<address, network>> for the devices whose path to the network meets g.
ForwardRules(g) ==
    UNION {{<<d, n>> : n \in nets[d[1]] \cap UNION {legs[Last(b)] : b \in
                {b \in Branches(d[2], links, RuleEdges(svcs[d[1]])) : Contains(b, g)}}}
           : d \in Entitled}

-----------------------------------------------------------------------------
(* The administrators' edits, one row each.                                *)

Toggle(S, x) == (S \ {x}) \cup ({x} \ S)

Edited == edits < MaxEdits /\ edits' = edits + 1

\* Mutant of AddLink: no unique_relay_link.
AddLinkAgain(e) ==
    /\ Edited
    /\ links' = Append(links, e)
    /\ UNCHANGED <<legs, service, active, accepts, defaults, svcs, nets, devices>>

AddLink(e) ==
    /\ ~Contains(links, e) /\ Edited
    /\ links' = Append(links, e)
    /\ UNCHANGED <<legs, service, active, accepts, defaults, svcs, nets, devices>>

DeleteLink(e) ==
    /\ Edited
    /\ \E i \in DOMAIN links : links[i] = e /\ links' = RemoveAt(links, i)
    /\ UNCHANGED <<legs, service, active, accepts, defaults, svcs, nets, devices>>

EditLeg(g, n) ==
    /\ Edited
    /\ legs' = [legs EXCEPT ![g] = Toggle(@, n)]
    /\ UNCHANGED <<links, service, active, accepts, defaults, svcs, nets, devices>>

EditGateway(g) ==
    /\ Edited
    /\ active' = Toggle(active, g)
    /\ UNCHANGED <<links, legs, service, accepts, defaults, svcs, nets, devices>>

EditService(s) ==
    /\ Edited
    /\ \/ accepts' = Toggle(accepts, s) /\ UNCHANGED defaults
       \/ defaults' = Toggle(defaults, s) /\ UNCHANGED accepts
    /\ UNCHANGED <<links, legs, service, active, svcs, nets, devices>>

EditServiceGrant(u, s) ==
    /\ Edited
    /\ svcs' = [svcs EXCEPT ![u] = Toggle(@, s)]
    /\ UNCHANGED <<links, legs, service, active, accepts, defaults, nets, devices>>

EditNetworkGrant(u, n) ==
    /\ Edited
    /\ nets' = [nets EXCEPT ![u] = Toggle(@, n)]
    /\ UNCHANGED <<links, legs, service, active, accepts, defaults, svcs, devices>>

\* A device is registered, deactivated or reactivated.
EditDevice(d) ==
    /\ Edited
    /\ devices' = Toggle(devices, d)
    /\ UNCHANGED <<links, legs, service, active, accepts, defaults, svcs, nets>>

Edit ==
    \/ \E e \in Edges : AddLink(e) \/ DeleteLink(e)
    \/ \E g \in Gateways : EditGateway(g) \/ \E n \in Nets : EditLeg(g, n)
    \/ \E s \in Services : EditService(s) \/ \E u \in Users : EditServiceGrant(u, s)
    \/ \E u \in Users, n \in Nets : EditNetworkGrant(u, n)
    \/ \E d \in Addresses : EditDevice(d)

ResolverSpec == ResolverInit /\ [][Edit]_resolverVars

-----------------------------------------------------------------------------
(* What must hold of the tables' derived data, whatever the tables.        *)

\* A network the user reaches by some entry service that is not a default
\* route is in the AllowedIPs of exactly one tunnel of the plan, although
\* services and instances reach it along different relays.
PlanPartitions ==
    \A u \in Users, n \in Nets :
        LET claiming == {s \in Tunnels(u) \ defaults : n \in Claims(u, s)}
        IN  /\ Cardinality(claiming) <= 1
            /\ claiming = {} =>
                  \A s \in EntryServices(u) \ defaults : n \notin Cidrs(u, s)

\* plan_for_user and forward_rules_for_gateway walk the graph separately, and
\* old clients' configurations do not walk it: yet a device's entry gateway lets
\* through what the plan routes into it, and all a configuration does.
PlanEnforcedAtEntry ==
    \A u \in Users : \A g \in Configured(u) :
        LET granted == {r[2] : r \in {r \in ForwardRules(g) : r[1] = <<u, g>>}}
        IN  granted = ReachableNets(u, g) /\ LegacyNets(u, g) \subseteq granted

\* A rule at a gateway is usable: the gateways from the device's entry to it
\* and on to a leg are wired as peers both ways, each one carries the rule,
\* the subnet is masqueraded at the leg, and no hop's service is ungranted.
PathIsWired ==
    \A g \in active : \A r \in ForwardRules(g) :
        LET u == r[1][1]  entry == r[1][2]
        IN  \E b \in Branches(entry, links, RuleEdges(svcs[u])) :
               /\ Contains(b, g)
               /\ r[2] \in legs[Last(b)] /\ entry \in MasqSubnets(Last(b))
               /\ \A i \in DOMAIN b : r \in ForwardRules(b[i]) /\ service[b[i]] \in svcs[u]
               /\ \A i \in 1 .. Len(b) - 1 :
                     /\ r[2] \in AllowedIPs(b[i], b[i + 1]).nets
                     /\ entry \in AllowedIPs(b[i + 1], b[i]).subnets
=============================================================================
