-------------------------------- MODULE Subnets --------------------------------
(***************************************************************************)
(* The fleet's address plan: administrators give gateways their tunnel     *)
(* subnets through forms that check and save in two steps (Gateway.clean in *)
(* server/core/models.py), while devices are given addresses of the subnet *)
(* their gateway has at that time (allocate_address in                     *)
(* server/core/resolve.py) and keep them.                                  *)
(*                                                                         *)
(* Addresses are numbers, a CIDR an interval of them.  A subnet is stored  *)
(* as its text: two texts may denote one CIDR (host bits are ignored).     *)
(***************************************************************************)
EXTENDS Naturals, FiniteSets, FiniteSetsExt

CONSTANTS
    Gateways, Users, Admins, None,
    Texts,          \* what administrators type as a subnet
    Net,            \* the CIDR a valid text denotes: its first address and size
    MaxForms, MaxDevices, MaxDeletes        \* bounds

ASSUME SubnetsAssumption ==
    /\ DOMAIN Net \subseteq Texts
    /\ \A t \in DOMAIN Net : Net[t][1] \in Nat /\ Net[t][2] \in Nat /\ Net[t][2] > 3
    /\ None \notin Texts
    /\ {MaxForms, MaxDevices, MaxDeletes} \subseteq Nat

VARIABLES
    subnet,     \* tunnel_subnet of each gateway, None when it does not exist
    devices,    \* rows: user, gateway, address; history: the subnet it is from
    form,       \* a page checked and not yet saved
    raced,      \* history: a page was saved after another saved since its check
    count

vars == <<subnet, devices, form, raced, count>>

Counters == {"forms", "devices", "deletes"}
Form == [gw : Gateways, new : BOOLEAN, text : DOMAIN Net, fresh : BOOLEAN]
Addresses == UNION {Net[t][1] .. Net[t][1] + Net[t][2] - 1 : t \in DOMAIN Net}

TypeOK ==
    /\ subnet \in [Gateways -> {None} \cup DOMAIN Net]
    /\ devices \subseteq [user : Users, gw : Gateways, addr : Addresses, under : DOMAIN Net]
    /\ form \in [Admins -> {None} \cup Form]
    /\ raced \in BOOLEAN
    /\ count \in [Counters -> Nat]

Init ==
    /\ subnet = [g \in Gateways |-> None] /\ devices = {}
    /\ form = [a \in Admins |-> None] /\ raced = FALSE
    /\ count = [c \in Counters |-> 0]

Counted(c, bound) == count[c] < bound /\ count' = [count EXCEPT ![c] = @ + 1]

Existing == {g \in Gateways : subnet[g] # None}

-----------------------------------------------------------------------------
(* CIDRs.                                                                  *)

\* Mutant of Overlaps: ip_network.subnet_of.
Inside(s, t) ==
    Net[t][1] <= Net[s][1] /\ Net[s][1] + Net[s][2] <= Net[t][1] + Net[t][2]

\* ip_network.overlaps.
Overlaps(s, t) ==
    /\ Net[s][1] < Net[t][1] + Net[t][2]
    /\ Net[t][1] < Net[s][1] + Net[s][2]

\* ip_network.hosts: without the network's and the broadcast address.
HostsOf(t) == Net[t][1] + 1 .. Net[t][1] + Net[t][2] - 2

\* _gateway_address: the first host.
OwnAddress(t) == Net[t][1] + 1

-----------------------------------------------------------------------------
(* The gateway's page.                                                     *)

\* Mutant of Passes: only the text is compared, as the column's constraint does.
PassesByText(g, t) == t \in DOMAIN Net /\ \A h \in Existing \ {g} : subnet[h] # t

\* Mutant of Passes: a text that does not parse is let through.
PassesUnparsed(g, t) ==
    t \notin DOMAIN Net \/ \A h \in Existing \ {g} : ~Overlaps(t, subnet[h])

\* clean: a valid CIDR, disjoint from those of the other gateways.
Passes(g, t) ==
    t \in DOMAIN Net /\ \A h \in Existing \ {g} : ~Overlaps(t, subnet[h])

\* A gateway is created or edited: the page's fields are checked.
Check(a, g, t) ==
    /\ form[a] = None /\ Passes(g, t)
    /\ Counted("forms", MaxForms)
    /\ form' = [form EXCEPT ![a] = [gw |-> g, new |-> g \notin Existing,
                                    text |-> t, fresh |-> TRUE]]
    /\ UNCHANGED <<subnet, devices, raced>>

\* Names and subnets, as texts, are unique columns.
Duplicate(f) ==
    \/ f.new /\ f.gw \in Existing
    \/ \E h \in Existing \ {f.gw} : subnet[h] = f.text

\* The page is saved; a gateway deleted since its check comes back.
Save(a) ==
    /\ form[a] # None /\ ~Duplicate(form[a])
    /\ subnet' = [subnet EXCEPT ![form[a].gw] = form[a].text]
    /\ raced' = (raced \/ ~form[a].fresh)
    /\ form' = [b \in Admins |->
                  IF b = a \/ form[b] = None THEN None
                  ELSE [form[b] EXCEPT !.fresh = FALSE]]
    /\ UNCHANGED <<devices, count>>

\* IntegrityError: nothing is saved.
SaveFails(a) ==
    /\ form[a] # None /\ Duplicate(form[a])
    /\ form' = [form EXCEPT ![a] = None]
    /\ UNCHANGED <<subnet, devices, raced, count>>

\* A gateway is deleted with its devices.
DeleteGateway(g) ==
    /\ g \in Existing /\ Counted("deletes", MaxDeletes)
    /\ subnet' = [subnet EXCEPT ![g] = None]
    /\ devices' = {d \in devices : d.gw # g}
    /\ UNCHANGED <<form, raced>>

-----------------------------------------------------------------------------
(* Devices.                                                                *)

Used(g) == {d.addr : d \in {e \in devices : e.gw = g}}

\* allocate_address: unused hosts but the gateway's own.
Free(g) == HostsOf(subnet[g]) \ (Used(g) \cup {OwnAddress(subnet[g])})

\* A user's first registration on g; later ones keep the address.
Register(u, g) ==
    /\ g \in Existing /\ \A d \in devices : ~(d.user = u /\ d.gw = g)
    /\ Free(g) # {}
    /\ Counted("devices", MaxDevices)
    /\ devices' = devices \cup
          {[user |-> u, gw |-> g, addr |-> Min(Free(g)), under |-> subnet[g]]}
    /\ UNCHANGED <<subnet, form, raced>>

DeleteDevice(d) ==
    /\ Counted("deletes", MaxDeletes)
    /\ devices' = devices \ {d}
    /\ UNCHANGED <<subnet, form, raced>>

-----------------------------------------------------------------------------
Next ==
    \/ \E a \in Admins :
          Save(a) \/ SaveFails(a) \/ \E g \in Gateways, t \in Texts : Check(a, g, t)
    \/ \E g \in Gateways : DeleteGateway(g) \/ \E u \in Users : Register(u, g)
    \/ \E d \in devices : DeleteDevice(d)

Spec == Init /\ [][Next]_vars

-----------------------------------------------------------------------------
(* What must hold.                                                         *)

\* "disjoint across the fleet" (Gateway.clean), through any creations, moves
\* and deletions, as long as no page was saved while another one was.
SubnetsDisjoint ==
    ~raced => \A g, h \in Existing : g # h => HostsOf(subnet[g]) \cap HostsOf(subnet[h]) = {}

\* The device's gateway was given another subnet since.
Stale(d) == Net[d.under] # Net[subnet[d.gw]]

\* "client addresses must be unambiguous in the overlay": no two devices of
\* the fleet, and no device and gateway, have one address, except those whose
\* gateway's subnet was changed under them.
AddressesUnambiguous ==
    ~raced => \A d \in devices :
        /\ \A e \in devices \ {d} : d.addr = e.addr => Stale(d) \/ Stale(e)
        /\ \A g \in Existing : d.addr = OwnAddress(subnet[g]) => Stale(d)
=============================================================================
