---------------------------- MODULE Subnets_proofs ----------------------------
(***************************************************************************)
(* The address plan's type invariant and its two safety properties, for any *)
(* gateways, users, administrators, CIDRs of more than three addresses and *)
(* numbers of operations.                                                  *)
(***************************************************************************)
EXTENDS Subnets, WellFoundedInduction, TLAPS

(***************************************************************************)
(* The inductive invariant, in named parts.                                *)
(***************************************************************************)

\* A page that was checked after the last save still denotes a CIDR that is
\* disjoint from those of the gateways it does not edit.
FreshFormFits ==
    ~raced => \A a \in Admins : (form[a] # None /\ form[a].fresh) =>
        \A h \in Existing \ {form[a].gw} : ~Overlaps(form[a].text, subnet[h])

\* The CIDRs of the gateways, host bits and end addresses included, are disjoint.
PlanDisjoint ==
    ~raced => \A g, h \in Existing : g # h => ~Overlaps(subnet[g], subnet[h])

\* A device's address is a host of the subnet it was given from, and not the
\* gateway's; it is the device's alone on that gateway, whatever its subnet
\* has become.
AddressesHeld ==
    \A d \in devices :
        /\ d.gw \in Existing
        /\ d.addr \in HostsOf(d.under) /\ d.addr # OwnAddress(d.under)
        /\ \A e \in devices : d.gw = e.gw /\ d.addr = e.addr => d = e

IInv == TypeOK /\ FreshFormFits /\ PlanDisjoint /\ AddressesHeld

(***************************************************************************)
(* CIDRs and their addresses.                                              *)
(***************************************************************************)

(* Overlapping is symmetric.                                               *)
LEMMA OverlapSymmetric ==
  ASSUME NEW s \in DOMAIN Net, NEW t \in DOMAIN Net
  PROVE  Overlaps(s, t) <=> Overlaps(t, s)
BY DEF Overlaps

(* A host that two CIDRs share is one at which they overlap.               *)
LEMMA SharedHostOverlaps ==
  ASSUME NEW s \in DOMAIN Net, NEW t \in DOMAIN Net,
         NEW x \in HostsOf(s), x \in HostsOf(t)
  PROVE  Overlaps(s, t)
<1>1. /\ Net[s][1] \in Nat /\ Net[s][2] \in Nat
      /\ Net[t][1] \in Nat /\ Net[t][2] \in Nat
  BY SubnetsAssumption
<1> QED BY <1>1 DEF HostsOf, Overlaps

(* A host is an address of the plan; the gateway's own address is a host.  *)
LEMMA HostsAreAddresses ==
  ASSUME NEW t \in DOMAIN Net
  PROVE  /\ HostsOf(t) \in SUBSET Nat /\ HostsOf(t) \subseteq Addresses
         /\ OwnAddress(t) \in HostsOf(t)
<1>1. Net[t][1] \in Nat /\ Net[t][2] \in Nat /\ Net[t][2] > 3
  BY SubnetsAssumption
<1>2. HostsOf(t) \subseteq Net[t][1] .. Net[t][1] + Net[t][2] - 1
  BY <1>1 DEF HostsOf
<1>3. HostsOf(t) \in SUBSET Nat
  BY <1>1 DEF HostsOf
<1>4. OwnAddress(t) \in HostsOf(t)
  BY <1>1 DEF HostsOf, OwnAddress
<1> QED BY <1>2, <1>3, <1>4 DEF Addresses

(* Min chooses a member.                                                   *)
LEMMA MinChooses ==
  ASSUME NEW S \in SUBSET Nat, S # {}
  PROVE  Min(S) \in S
<1>1. IsWellFoundedOn(OpToRel(<, Nat), Nat)
  BY NatLessThanWellFounded, Zenon
<1>2. PICK x \in S : \A y \in S : ~(<<y, x>> \in OpToRel(<, Nat))
  BY <1>1, WFMin, Zenon
<1>3. \A y \in S : ~(y < x)
  BY <1>2 DEF OpToRel
<1>4. \A y \in S : x <= y
  BY <1>3
<1> QED BY <1>4 DEF Min

(* What registration hands out.                                            *)
LEMMA AddressFound ==
  ASSUME TypeOK, NEW g \in Existing, Free(g) # {}
  PROVE  /\ subnet[g] \in DOMAIN Net /\ Min(Free(g)) \in HostsOf(subnet[g])
         /\ Min(Free(g)) \in Addresses /\ Min(Free(g)) # OwnAddress(subnet[g])
         /\ \A d \in devices : d.gw = g => d.addr # Min(Free(g))
<1>1. subnet[g] \in DOMAIN Net
  BY DEF TypeOK, Existing
<1>2. Free(g) \in SUBSET Nat
  BY <1>1, HostsAreAddresses DEF Free
<1>3. Min(Free(g)) \in Free(g)
  BY <1>2, MinChooses
<1>4. Min(Free(g)) \in HostsOf(subnet[g])
  BY <1>3 DEF Free
<1>5. Min(Free(g)) # OwnAddress(subnet[g]) /\ Min(Free(g)) \notin Used(g)
  BY <1>3 DEF Free
<1>6. \A d \in devices : d.gw = g => d.addr \in Used(g)
  BY DEF Used
<1> QED BY <1>1, <1>4, <1>5, <1>6, HostsAreAddresses

(* A counted operation leaves the counters numbers.                        *)
LEMMA CountedTyped ==
  ASSUME TypeOK, NEW c \in Counters, NEW n, Counted(c, n)
  PROVE  count' \in [Counters -> Nat]
BY DEF TypeOK, Counted

(***************************************************************************)
(* One lemma per action: it preserves the inductive invariant.             *)
(***************************************************************************)

(* A checked page fits the plan as it stands.                              *)
LEMMA CheckStep ==
  ASSUME IInv, NEW a \in Admins, NEW g \in Gateways, NEW t \in Texts, Check(a, g, t)
  PROVE  IInv'
<1> USE DEF IInv
<1>1. [gw |-> g, new |-> g \notin Existing, text |-> t, fresh |-> TRUE] \in Form
  BY DEF Check, Passes, Form
<1>2. TypeOK'
  BY <1>1, CountedTyped DEF Check, TypeOK, Counters
<1>3. Existing' = Existing
  BY DEF Check, Existing
<1>4. FreshFormFits'
  <2> SUFFICES ASSUME ~raced', NEW b \in Admins, form'[b] # None, form'[b].fresh,
                      NEW h \in Existing' \ {form'[b].gw}
               PROVE  ~Overlaps(form'[b].text, subnet'[h])
    BY DEF FreshFormFits, Overlaps
  <2>1. CASE b = a
    BY <1>3, <2>1 DEF Check, TypeOK, Passes
  <2>2. CASE b # a
    BY <1>3, <2>2 DEF Check, TypeOK, FreshFormFits
  <2> QED BY <2>1, <2>2
<1>5. PlanDisjoint'
  BY <1>3 DEF Check, PlanDisjoint, Overlaps
<1>6. AddressesHeld'
  BY <1>3 DEF Check, AddressesHeld, HostsOf, OwnAddress
<1> QED BY <1>2, <1>4, <1>5, <1>6

(* A page is saved: either it was checked after the last save, or the plan  *)
(* is now one that two administrators made at the same time.               *)
LEMMA SaveStep ==
  ASSUME IInv, NEW a \in Admins, Save(a)
  PROVE  IInv'
<1> USE DEF IInv
<1>1. form[a] \in Form /\ form[a].gw \in Gateways /\ form[a].text \in DOMAIN Net
  BY DEF Save, TypeOK, Form
<1>2. form[a].text # None
  BY <1>1, SubnetsAssumption
<1>3. subnet' = [subnet EXCEPT ![form[a].gw] = form[a].text]
  BY DEF Save
<1>4. Existing' = Existing \cup {form[a].gw}
  BY <1>1, <1>2, <1>3 DEF TypeOK, Existing
<1>5. TypeOK'
  <2>1. \A b \in Admins : form'[b] \in {None} \cup Form
    BY DEF Save, TypeOK, Form
  <2>2. form' \in [Admins -> {None} \cup Form]
    BY <2>1 DEF Save
  <2>3. raced' \in BOOLEAN
    BY <1>1 DEF Save, TypeOK, Form
  <2> QED BY <1>1, <1>3, <2>2, <2>3 DEF Save, TypeOK
<1>6. FreshFormFits'
  <2>1. \A b \in Admins : form'[b] = None \/ ~form'[b].fresh
    BY DEF Save, TypeOK, Form
  <2> QED BY <2>1 DEF FreshFormFits
<1>7. PlanDisjoint'
  <2> SUFFICES ASSUME ~raced', NEW g \in Existing', NEW h \in Existing', g # h
               PROVE  ~Overlaps(subnet'[g], subnet'[h])
    BY DEF PlanDisjoint, Overlaps
  <2>1. ~raced /\ form[a] # None /\ form[a].fresh
    BY <1>1 DEF Save, TypeOK, Form
  <2>2. g \in Gateways /\ h \in Gateways
    BY DEF Existing
  <2>3. CASE g = form[a].gw
    BY <1>3, <1>4, <2>1, <2>2, <2>3 DEF FreshFormFits, TypeOK
  <2>4. CASE h = form[a].gw
    <3>1. subnet'[h] = form[a].text /\ subnet'[g] = subnet[g] /\ g \in Existing
      BY <1>3, <1>4, <2>2, <2>4 DEF TypeOK
    <3>2. subnet[g] \in DOMAIN Net
      BY <3>1 DEF TypeOK, Existing
    <3>3. ~Overlaps(form[a].text, subnet[g])
      BY <2>1, <2>4, <3>1 DEF FreshFormFits
    <3> QED BY <1>1, <3>1, <3>2, <3>3, OverlapSymmetric
  <2>5. CASE g # form[a].gw /\ h # form[a].gw
    BY <1>3, <1>4, <2>1, <2>2, <2>5 DEF PlanDisjoint, TypeOK
  <2> QED BY <2>3, <2>4, <2>5
<1>8. AddressesHeld'
  BY <1>4 DEF Save, AddressesHeld, HostsOf, OwnAddress
<1> QED BY <1>5, <1>6, <1>7, <1>8

(* A page whose save failed is gone.                                       *)
LEMMA SaveFailsStep ==
  ASSUME IInv, NEW a \in Admins, SaveFails(a)
  PROVE  IInv'
<1> USE DEF IInv
<1>1. TypeOK'
  BY DEF SaveFails, TypeOK
<1>2. Existing' = Existing
  BY DEF SaveFails, Existing
<1>3. \A b \in Admins : form'[b] = None \/ form'[b] = form[b]
  BY DEF SaveFails, TypeOK
<1>4. FreshFormFits'
  BY <1>2, <1>3 DEF SaveFails, FreshFormFits, Overlaps
<1>5. PlanDisjoint'
  BY <1>2 DEF SaveFails, PlanDisjoint, Overlaps
<1>6. AddressesHeld'
  BY <1>2 DEF SaveFails, AddressesHeld, HostsOf, OwnAddress
<1> QED BY <1>1, <1>4, <1>5, <1>6

(* A deleted gateway takes its devices with it.                            *)
LEMMA DeleteGatewayStep ==
  ASSUME IInv, NEW g \in Gateways, DeleteGateway(g)
  PROVE  IInv'
<1> USE DEF IInv
<1>1. TypeOK'
  BY CountedTyped DEF DeleteGateway, TypeOK, Counters
<1>2. Existing' = Existing \ {g} /\ \A h \in Existing' : subnet'[h] = subnet[h]
  BY DEF DeleteGateway, TypeOK, Existing
<1>3. FreshFormFits'
  BY <1>2 DEF DeleteGateway, FreshFormFits, Overlaps
<1>4. PlanDisjoint'
  BY <1>2 DEF DeleteGateway, PlanDisjoint, Overlaps
<1>5. AddressesHeld'
  BY <1>2 DEF DeleteGateway, AddressesHeld, HostsOf, OwnAddress
<1> QED BY <1>1, <1>3, <1>4, <1>5

(* A new device gets a free host of its gateway's subnet.                  *)
LEMMA RegisterStep ==
  ASSUME IInv, NEW u \in Users, NEW g \in Gateways, Register(u, g)
  PROVE  IInv'
<1> USE DEF IInv
<1> DEFINE new == [user |-> u, gw |-> g, addr |-> Min(Free(g)), under |-> subnet[g]]
<1>1. g \in Existing /\ devices' = devices \cup {new} /\ UNCHANGED <<subnet, form, raced>>
  BY DEF Register
<1>2. /\ subnet[g] \in DOMAIN Net /\ Min(Free(g)) \in HostsOf(subnet[g])
      /\ Min(Free(g)) \in Addresses /\ Min(Free(g)) # OwnAddress(subnet[g])
      /\ \A d \in devices : d.gw = g => d.addr # Min(Free(g))
  BY AddressFound DEF Register
<1>3. TypeOK'
  BY <1>1, <1>2, CountedTyped DEF Register, TypeOK, Counters
<1>4. Existing' = Existing
  BY <1>1 DEF Existing
<1>5. FreshFormFits' /\ PlanDisjoint'
  BY <1>1, <1>4 DEF FreshFormFits, PlanDisjoint, Overlaps
<1>6. AddressesHeld'
  BY <1>1, <1>2, <1>4 DEF AddressesHeld, HostsOf, OwnAddress
<1> QED BY <1>3, <1>5, <1>6

(* A deleted device frees its address.                                     *)
LEMMA DeleteDeviceStep ==
  ASSUME IInv, NEW d \in devices, DeleteDevice(d)
  PROVE  IInv'
<1> USE DEF IInv
<1>1. TypeOK'
  BY CountedTyped DEF DeleteDevice, TypeOK, Counters
<1>2. Existing' = Existing
  BY DEF DeleteDevice, Existing
<1>3. FreshFormFits' /\ PlanDisjoint'
  BY <1>2 DEF DeleteDevice, FreshFormFits, PlanDisjoint, Overlaps
<1>4. AddressesHeld'
  BY <1>2 DEF DeleteDevice, AddressesHeld, HostsOf, OwnAddress
<1> QED BY <1>1, <1>3, <1>4

(***************************************************************************)
(* The theorems.                                                           *)
(***************************************************************************)

(* The inductive invariant holds of every reachable address plan.          *)
THEOREM PlanInvariance == Spec => []IInv
<1>1. Init => IInv
  <2> SUFFICES ASSUME Init
               PROVE  IInv
    OBVIOUS
  <2>1. TypeOK
    BY DEF Init, TypeOK
  <2>2. Existing = {} /\ \A a \in Admins : form[a] = None
    BY DEF Init, Existing
  <2> QED BY <2>1, <2>2 DEF Init, IInv, FreshFormFits, PlanDisjoint, AddressesHeld
<1>2. IInv /\ [Next]_vars => IInv'
  <2> SUFFICES ASSUME IInv, [Next]_vars
               PROVE  IInv'
    OBVIOUS
  <2>1. CASE \E a \in Admins : Save(a)
    BY <2>1, SaveStep
  <2>2. CASE \E a \in Admins : SaveFails(a)
    BY <2>2, SaveFailsStep
  <2>3. CASE \E a \in Admins, g \in Gateways, t \in Texts : Check(a, g, t)
    BY <2>3, CheckStep
  <2>4. CASE \E g \in Gateways : DeleteGateway(g)
    BY <2>4, DeleteGatewayStep
  <2>5. CASE \E g \in Gateways, u \in Users : Register(u, g)
    BY <2>5, RegisterStep
  <2>6. CASE \E d \in devices : DeleteDevice(d)
    BY <2>6, DeleteDeviceStep
  <2>7. CASE UNCHANGED vars
    <3>1. Existing' = Existing
      BY <2>7 DEF vars, Existing
    <3> QED BY <2>7, <3>1 DEF vars, IInv, TypeOK, FreshFormFits, PlanDisjoint,
               AddressesHeld, Overlaps, HostsOf, OwnAddress
  <2> QED BY <2>1, <2>2, <2>3, <2>4, <2>5, <2>6, <2>7 DEF Next
<1> QED BY <1>1, <1>2, PTL DEF Spec

(* Disjoint CIDRs have no host in common.                                  *)
LEMMA NoSharedHost ==
  ASSUME IInv
  PROVE  SubnetsDisjoint
<1> SUFFICES ASSUME ~raced, NEW g \in Existing, NEW h \in Existing, g # h,
                    NEW x \in HostsOf(subnet[g]), x \in HostsOf(subnet[h])
             PROVE  FALSE
  BY DEF SubnetsDisjoint
<1>1. subnet[g] \in DOMAIN Net /\ subnet[h] \in DOMAIN Net
  BY DEF IInv, TypeOK, Existing
<1>2. ~Overlaps(subnet[g], subnet[h])
  BY DEF IInv, PlanDisjoint
<1> QED BY <1>1, <1>2, SharedHostOverlaps

(* The plan's state keeps its shape.                                       *)
THEOREM TypeCorrect == Spec => []TypeOK
<1>1. IInv => TypeOK
  BY DEF IInv
<1> QED BY <1>1, PlanInvariance, PTL

(* The gateways' tunnel subnets are disjoint through any creations, moves   *)
(* and deletions (Gateway.clean), for any CIDRs the administrators type, as *)
(* long as no page is saved on a check that another save made stale.       *)
THEOREM SubnetsAreDisjoint == Spec => []SubnetsDisjoint
<1> QED BY NoSharedHost, PlanInvariance, PTL

(* No two devices of the fleet, and no device and gateway, have the same    *)
(* address, except a device whose gateway's subnet was changed under it    *)
(* (allocate_address, _gateway_address).                                   *)
THEOREM AddressesAreUnambiguous == Spec => []AddressesUnambiguous
<1>1. IInv => AddressesUnambiguous
  <2> SUFFICES ASSUME IInv, ~raced, NEW d \in devices, ~Stale(d)
               PROVE  /\ \A e \in devices \ {d} : d.addr = e.addr => Stale(e)
                      /\ \A g \in Existing : d.addr # OwnAddress(subnet[g])
    BY DEF AddressesUnambiguous
  <2>1. \A e \in devices : /\ e.gw \in Existing /\ subnet[e.gw] \in DOMAIN Net
                           /\ ~Stale(e) => e.addr \in HostsOf(subnet[e.gw])
    BY DEF IInv, TypeOK, AddressesHeld, Existing, Stale, HostsOf
  <2>2. \A g \in Existing, x \in HostsOf(subnet[d.gw]) :
            x \in HostsOf(subnet[g]) => g = d.gw
    BY <2>1, NoSharedHost DEF SubnetsDisjoint
  <2>3. ASSUME NEW e \in devices \ {d}, d.addr = e.addr
        PROVE  Stale(e)
    BY <2>1, <2>2, <2>3 DEF IInv, AddressesHeld
  <2>4. ASSUME NEW g \in Existing, d.addr = OwnAddress(subnet[g])
        PROVE  FALSE
    <3>1. subnet[g] \in DOMAIN Net
      BY DEF IInv, TypeOK, Existing
    <3>2. d.addr \in HostsOf(subnet[g])
      BY <2>4, <3>1, HostsAreAddresses
    <3>3. g = d.gw
      BY <2>1, <2>2, <3>2
    <3>4. d.addr = OwnAddress(d.under)
      BY <2>4, <3>3 DEF Stale, OwnAddress
    <3> QED BY <3>4 DEF IInv, AddressesHeld
  <2> QED BY <2>3, <2>4
<1> QED BY <1>1, PlanInvariance, PTL
=============================================================================
