------------------------- MODULE Registration_proofs -------------------------
(***************************************************************************)
(* Registration's type invariant and its safety properties, for any users, *)
(* keys, workers, gateways, subnet size and numbers of operations.         *)
(***************************************************************************)
EXTENDS Registration, WellFoundedInduction, TLAPS

(***************************************************************************)
(* The inductive invariant, in named parts.                                *)
(***************************************************************************)
\* A worker that serves nothing, or has not started its loop, holds nothing.
Fresh ==
    \A w \in Workers :
        /\ pc[w] # "idle" => req[w] # NoRow
        /\ pc[w] \in {"idle", "check", "list"} => writes[w] = {} /\ locked[w] = {}
        /\ pc[w] # "commit" => shared[w] = {}
        /\ pc[w] \in Looping \ {"lookup"} => todo[w] # {}

\* FOR UPDATE locks are exclusive: on gateways, on a user's device, on users.
LocksExclusive ==
    \A v, w \in Workers : v # w => locked[v] \cap locked[w] = {}

DevicesExclusive ==
    \A v, w \in Workers : (v # w /\ req[v].user = req[w].user) =>
        DeviceLocks(v) \cap DeviceLocks(w) = {}

UsersExclusive ==
    \A v, w \in Workers : (v # w /\ req[v].user = req[w].user) =>
        ~(HoldsUser(v) /\ HoldsUser(w))

\* A gateway is locked with a device of the requester on it.
LockedHeld ==
    \A w \in Workers : \A g \in locked[w] :
        \E d \in devices : d.user = req[w].user /\ d.gw = g

\* The loop has touched the gateways before those it has left.
NameOrder ==
    \A w \in Workers : pc[w] \in Looping =>
        \A h \in todo[w] :
            /\ \A r \in writes[w] : r.gw < h
            /\ \A g \in locked[w] : g < h \/ (pc[w] = "update" /\ g <= h)

\* What a transaction wrote: its own user's rows, one to a gateway; those it
\* inserted do not have the gateway's address.
OwnWrites ==
    \A w \in Workers :
        /\ \A r \in writes[w] : /\ r.user = req[w].user
                                /\ r.gw \in locked[w] \/ r.addr # GatewayHost
        /\ \A r, s \in writes[w] : r.gw = s.gw => r = s

\* The row read under lock is still the committed one; the row about to be
\* inserted is the requester's on the current gateway.
FoundCurrent ==
    \A w \in Workers :
        /\ pc[w] \in {"user", "gateway", "update"} =>
                /\ found[w] \in devices
                /\ found[w].user = req[w].user
                /\ found[w].gw = Current(w)
        /\ pc[w] = "update" => Current(w) \in locked[w]
        /\ pc[w] = "insert" => /\ found[w] \in Row
                               /\ found[w].user = req[w].user
                               /\ found[w].gw = Current(w)
                               /\ found[w].addr # GatewayHost

\* No two transactions have written rows that clash.
PendingCompatible ==
    \A v, w \in Workers : v # w =>
        \A r \in writes[v], s \in writes[w] : ~Clash(r, s)

\* A written row clashes only with the committed row it updates under lock.
WritesCompatible ==
    \A w \in Workers : \A r \in writes[w], d \in devices :
        Clash(r, d) => r.gw \in locked[w] /\ r.user = d.user /\ r.addr = d.addr

\* An open page shows a row that still exists, at the same address.
FormCurrent ==
    form # NoRow => \E d \in devices : /\ d.user = form.user
                                       /\ d.gw = form.gw
                                       /\ d.addr = form.addr

\* A page is open only after it was counted.
FormCounted == count["edits"] = 0 => form = NoRow

IInv ==
    /\ TypeOK
    /\ Fresh
    /\ LocksExclusive
    /\ DevicesExclusive
    /\ UsersExclusive
    /\ LockedHeld
    /\ FormCounted
    /\ NameOrder
    /\ OwnWrites
    /\ FoundCurrent
    /\ PendingCompatible
    /\ WritesCompatible
    /\ FormCurrent
    /\ UniqueAddresses

(* What Min chooses.                                                        *)
LEMMA MinLeast ==
  ASSUME NEW S \in SUBSET Nat, S # {}
  PROVE  Min(S) \in S /\ \A y \in S : Min(S) <= y
<1>1. IsWellFoundedOn(OpToRel(<, Nat), Nat)
  BY NatLessThanWellFounded, Zenon
<1>2. PICK x \in S : \A y \in S : ~(<<y, x>> \in OpToRel(<, Nat))
  BY <1>1, WFMin, Zenon
<1>3. \A y \in S : ~(y < x)
  BY <1>2 DEF OpToRel
<1>4. \A y \in S : x <= y
  BY <1>3
<1> QED BY <1>4 DEF Min

(* A non-empty set of numbers up to n has a largest element.                *)
LEMMA LargestInInterval ==
  ASSUME NEW n \in Nat, NEW S \in SUBSET (1 .. n), S # {}
  PROVE  \E x \in S : \A y \in S : y <= x
<1> DEFINE R == {n - x : x \in S}
<1>1. \A x \in S : x \in Nat /\ n - x \in 0 .. n
  OBVIOUS
<1>2. R \in SUBSET (0 .. n) /\ R # {}
  BY <1>1
<1> HIDE DEF R
<1>3. Min(R) \in R /\ \A y \in R : Min(R) <= y
  BY <1>2, MinLeast
<1>4. PICK x \in S : Min(R) = n - x
  BY <1>3 DEF R
<1>5. \A y \in S : n - x <= n - y
  BY <1>3, <1>4 DEF R
<1>6. \A y \in S : y <= x
  BY <1>1, <1>5
<1> QED BY <1>6

(* The loop's current gateway is the first in name order of those left.     *)
LEMMA CurrentLeast ==
  ASSUME TypeOK, NEW w \in Workers, todo[w] # {}
  PROVE  /\ Current(w) \in todo[w] /\ Current(w) \in Gateways
         /\ \A h \in todo[w] : Current(w) <= h
<1>1. todo[w] \subseteq Gateways
  BY DEF TypeOK
<1> QED BY <1>1, MinLeast DEF Current, Gateways

(* A statement of w that takes no lock leaves all locks as they are.        *)
LEMMA HoldingsKept ==
  ASSUME IInv, NEW w \in Workers, UNCHANGED <<locked, req>>,
         pc[w] \notin {"user", "gateway"}, pc'[w] \notin {"user", "gateway"},
         \A v \in Workers \ {w} : pc'[v] = pc[v] /\ todo'[v] = todo[v]
  PROVE  DevicesExclusive' /\ UsersExclusive'
<1>1. \A v \in Workers : DeviceLocks(v)' = DeviceLocks(v) /\ HoldsUser(v)' = HoldsUser(v)
  BY DEF DeviceLocks, HoldsUser, Current
<1> QED BY <1>1 DEF IInv, DevicesExclusive, UsersExclusive

(***************************************************************************)
(* One lemma per action: it preserves the inductive invariant.             *)
(***************************************************************************)
LEMMA CheckKeyStep ==
  ASSUME IInv, NEW w \in Workers, CheckKey(w)
  PROVE  IInv'
<1> USE DEF CheckKey, Goto
<1>1. TypeOK'
  BY DEF IInv, TypeOK
<1>2. Fresh'
  BY DEF IInv, TypeOK, Fresh, Looping
<1>3. LocksExclusive'
  BY DEF IInv, TypeOK, LocksExclusive
<1>4. NameOrder'
  BY DEF IInv, TypeOK, NameOrder, Looping
<1>5. OwnWrites'
  BY DEF IInv, TypeOK, OwnWrites
<1>6. FoundCurrent'
  BY DEF IInv, TypeOK, FoundCurrent, Current
<1>7. PendingCompatible'
  BY DEF IInv, TypeOK, PendingCompatible
<1>8. WritesCompatible'
  BY DEF IInv, TypeOK, WritesCompatible
<1>9. FormCurrent'
  BY DEF IInv, FormCurrent
<1>10. UniqueAddresses'
  BY DEF IInv, UniqueAddresses
<1>11. DevicesExclusive' /\ UsersExclusive'
  BY HoldingsKept DEF IInv, TypeOK
<1>12. LockedHeld' /\ FormCounted'
  BY DEF IInv, LockedHeld, FormCounted
<1> QED
  BY <1>1, <1>2, <1>3, <1>4, <1>5, <1>6, <1>7, <1>8, <1>9, <1>10, <1>11, <1>12 DEF IInv

\* A worker that has listed gateways has written and locked nothing.
LEMMA ListGatewaysStep ==
  ASSUME IInv, NEW w \in Workers, ListGateways(w)
  PROVE  IInv'
<1> USE DEF ListGateways, Goto
<1>1. TypeOK'
  BY DEF IInv, TypeOK, Fresh, Looping
<1>2. Fresh'
  BY DEF IInv, TypeOK, Fresh, Looping
<1>3. LocksExclusive'
  BY DEF IInv, TypeOK, LocksExclusive
<1>4. NameOrder'
  BY DEF IInv, TypeOK, Fresh, NameOrder
<1>5. OwnWrites'
  BY DEF IInv, TypeOK, OwnWrites
<1>6. FoundCurrent'
  BY DEF IInv, TypeOK, FoundCurrent, Current
<1>7. PendingCompatible'
  BY DEF IInv, TypeOK, PendingCompatible
<1>8. WritesCompatible'
  BY DEF IInv, TypeOK, WritesCompatible
<1>9. FormCurrent'
  BY DEF IInv, FormCurrent
<1>10. UniqueAddresses'
  BY DEF IInv, UniqueAddresses
<1>11. DevicesExclusive' /\ UsersExclusive'
  BY HoldingsKept DEF IInv, TypeOK
<1>12. LockedHeld' /\ FormCounted'
  BY DEF IInv, LockedHeld, FormCounted
<1> QED
  BY <1>1, <1>2, <1>3, <1>4, <1>5, <1>6, <1>7, <1>8, <1>9, <1>10, <1>11, <1>12 DEF IInv

(* A device's lock is taken only when no request of its user holds it.      *)
LEMMA LookupHitStep ==
  ASSUME IInv, NEW w \in Workers, LookupHit(w)
  PROVE  IInv'
<1> USE DEF LookupHit, Goto
<1>b. PICK d \in devices : /\ d.user = req[w].user /\ d.gw = Current(w)
                           /\ found' = [found EXCEPT ![w] = d]
  BY DEF OwnRows
<1>c. \A v \in Workers : (v # w /\ req[v].user = req[w].user) => Current(w) \notin DeviceLocks(v)
  <2>1. ASSUME NEW v \in Workers, v # w, req[v].user = req[w].user,
               Current(w) \in DeviceLocks(v)
        PROVE  FALSE
    <3>1. req[v] # NoRow
      BY <2>1 DEF IInv, Fresh, DeviceLocks
    <3>2. WaitsFor(w, v)
      BY <1>b, <2>1, <3>1 DEF WaitsFor, OwnRows, Serves
    <3> QED BY <3>2 DEF Blocked
  <2> QED BY <2>1
<1>1. TypeOK'
  BY <1>b DEF IInv, TypeOK, Looping
<1>2. Fresh'
  BY DEF IInv, TypeOK, Fresh, Looping
<1>3. LocksExclusive' /\ LockedHeld' /\ FormCounted'
  BY DEF IInv, TypeOK, LocksExclusive, LockedHeld, FormCounted
<1>4. NameOrder'
  BY DEF IInv, TypeOK, NameOrder, Looping
<1>5. OwnWrites'
  BY DEF IInv, TypeOK, OwnWrites
<1>6. FoundCurrent'
  BY <1>b DEF IInv, TypeOK, FoundCurrent, Current
<1>7. PendingCompatible' /\ WritesCompatible'
  BY DEF IInv, TypeOK, PendingCompatible, WritesCompatible
<1>8. FormCurrent' /\ UniqueAddresses'
  BY DEF IInv, FormCurrent, UniqueAddresses
<1>9. /\ \A v \in Workers \ {w} : DeviceLocks(v)' = DeviceLocks(v)
      /\ DeviceLocks(w)' = DeviceLocks(w) \cup {Current(w)}
      /\ \A v \in Workers : HoldsUser(v)' = HoldsUser(v)
  BY DEF IInv, TypeOK, DeviceLocks, HoldsUser, Current
<1>10. DevicesExclusive' /\ UsersExclusive'
  BY <1>c, <1>9 DEF IInv, DevicesExclusive, UsersExclusive
<1> QED BY <1>1, <1>2, <1>3, <1>4, <1>5, <1>6, <1>7, <1>8, <1>10 DEF IInv

(* A user's row is locked only when no other request of the user holds it.  *)
LEMMA LockUserStep ==
  ASSUME IInv, NEW w \in Workers, LockUser(w)
  PROVE  IInv'
<1> USE DEF LockUser, Goto
<1>c. \A v \in Workers : (v # w /\ req[v].user = req[w].user) => ~HoldsUser(v)
  <2>1. ASSUME NEW v \in Workers, v # w, req[v].user = req[w].user, HoldsUser(v)
        PROVE  FALSE
    <3>1. req[v] # NoRow
      BY <2>1 DEF IInv, Fresh, HoldsUser
    <3>2. WaitsFor(w, v)
      BY <2>1, <3>1 DEF WaitsFor, Serves
    <3> QED BY <3>2 DEF Blocked
  <2> QED BY <2>1
<1>1. TypeOK'
  BY DEF IInv, TypeOK, Looping
<1>2. Fresh'
  BY DEF IInv, TypeOK, Fresh, Looping
<1>3. LocksExclusive' /\ LockedHeld' /\ FormCounted'
  BY DEF IInv, TypeOK, LocksExclusive, LockedHeld, FormCounted
<1>4. NameOrder'
  BY DEF IInv, TypeOK, NameOrder, Looping
<1>5. OwnWrites'
  BY DEF IInv, TypeOK, OwnWrites
<1>6. FoundCurrent'
  BY DEF IInv, TypeOK, FoundCurrent, Current
<1>7. PendingCompatible' /\ WritesCompatible'
  BY DEF IInv, TypeOK, PendingCompatible, WritesCompatible
<1>8. FormCurrent' /\ UniqueAddresses'
  BY DEF IInv, FormCurrent, UniqueAddresses
<1>9. /\ \A v \in Workers : DeviceLocks(v)' = DeviceLocks(v)
      /\ \A v \in Workers \ {w} : HoldsUser(v)' = HoldsUser(v)
  BY DEF IInv, TypeOK, DeviceLocks, HoldsUser, Current
<1>10. DevicesExclusive' /\ UsersExclusive'
  BY <1>c, <1>9 DEF IInv, DevicesExclusive, UsersExclusive
<1> QED BY <1>1, <1>2, <1>3, <1>4, <1>5, <1>6, <1>7, <1>8, <1>10 DEF IInv

(* A gateway's row is locked only when nobody holds it.                     *)
LEMMA LockGatewayStep ==
  ASSUME IInv, NEW w \in Workers, LockGateway(w)
  PROVE  IInv'
<1> USE DEF LockGateway, Goto
<1>a. Current(w) \in todo[w] /\ Current(w) \in Gateways /\ \A h \in todo[w] : Current(w) <= h
  BY CurrentLeast DEF IInv, Fresh, Looping
<1>c. \A v \in Workers : v # w => Current(w) \notin locked[v]
  BY DEF Blocked, WaitsFor
<1>1. TypeOK'
  BY <1>a DEF IInv, TypeOK, Looping
<1>2. Fresh'
  BY DEF IInv, TypeOK, Fresh, Looping
<1>3. LocksExclusive'
  BY <1>c DEF IInv, TypeOK, LocksExclusive
<1>4. NameOrder'
  BY <1>a DEF IInv, TypeOK, NameOrder, Looping, Gateways
<1>5. OwnWrites'
  BY DEF IInv, TypeOK, OwnWrites
<1>6. FoundCurrent'
  BY <1>a DEF IInv, TypeOK, FoundCurrent, Current
<1>7. PendingCompatible' /\ WritesCompatible'
  BY DEF IInv, TypeOK, PendingCompatible, WritesCompatible
<1>8. FormCurrent' /\ UniqueAddresses' /\ FormCounted'
  BY DEF IInv, FormCurrent, UniqueAddresses, FormCounted
<1>9. LockedHeld'
  BY DEF IInv, TypeOK, LockedHeld, FoundCurrent
<1>10. \A v \in Workers : DeviceLocks(v)' = DeviceLocks(v) /\ HoldsUser(v)' = HoldsUser(v)
  BY DEF IInv, TypeOK, DeviceLocks, HoldsUser, Current
<1>11. DevicesExclusive' /\ UsersExclusive'
  BY <1>10 DEF IInv, DevicesExclusive, UsersExclusive
<1> QED BY <1>1, <1>2, <1>3, <1>4, <1>5, <1>6, <1>7, <1>8, <1>9, <1>11 DEF IInv

\* A missing row locks nothing.
LEMMA LookupMissStep ==
  ASSUME IInv, NEW w \in Workers, LookupMiss(w)
  PROVE  IInv'
<1> USE DEF LookupMiss, Goto
<1>1. TypeOK'
  BY DEF IInv, TypeOK, Looping
<1>2. Fresh'
  BY DEF IInv, TypeOK, Fresh, Looping
<1>3. LocksExclusive'
  BY DEF IInv, TypeOK, LocksExclusive
<1>4. NameOrder'
  BY DEF IInv, TypeOK, NameOrder, Looping
<1>5. OwnWrites'
  BY DEF IInv, TypeOK, OwnWrites
<1>6. FoundCurrent'
  BY DEF IInv, TypeOK, FoundCurrent, Current
<1>7. PendingCompatible'
  BY DEF IInv, TypeOK, PendingCompatible
<1>8. WritesCompatible'
  BY DEF IInv, TypeOK, WritesCompatible
<1>9. FormCurrent'
  BY DEF IInv, FormCurrent
<1>10. UniqueAddresses'
  BY DEF IInv, UniqueAddresses
<1>11. DevicesExclusive' /\ UsersExclusive'
  BY HoldingsKept DEF IInv, TypeOK
<1>12. LockedHeld' /\ FormCounted'
  BY DEF IInv, LockedHeld, FormCounted
<1> QED
  BY <1>1, <1>2, <1>3, <1>4, <1>5, <1>6, <1>7, <1>8, <1>9, <1>10, <1>11, <1>12 DEF IInv

(* The row written has the user, gateway and address of the locked row, so  *)
(* it clashes with nothing the locked row does not clash with.              *)
LEMMA UpdateDeviceStep ==
  ASSUME IInv, NEW w \in Workers, UpdateDevice(w)
  PROVE  IInv'
<1> USE DEF UpdateDevice, NextGateway, Goto
<1> DEFINE new == Registered(found[w], req[w].key)
<1>a. Current(w) \in todo[w] /\ Current(w) \in Gateways /\ \A h \in todo[w] : Current(w) <= h
  BY CurrentLeast DEF IInv, Fresh, Looping
<1>b. /\ found[w] \in devices /\ found[w] \in Row
      /\ found[w].user = req[w].user /\ found[w].gw = Current(w)
      /\ Current(w) \in locked[w]
  BY DEF IInv, FoundCurrent, TypeOK
<1>c. /\ new \in Row /\ new.user = req[w].user /\ new.gw = Current(w)
      /\ new.addr = found[w].addr
  <2>1. req[w].key \in Keys
    BY DEF IInv, TypeOK, Fresh
  <2> QED BY <1>b, <2>1 DEF Registered, Row
<1>d. /\ \A v \in Workers \ {w} : writes'[v] = writes[v]
      /\ \A r \in writes'[w] : r \in writes[w] \/ r = new
  BY DEF IInv, TypeOK
<1>e. \A r \in writes[w] : r.gw # Current(w) /\ r.gw \in Nat
  BY <1>a DEF IInv, NameOrder, Looping, TypeOK, Row, Gateways
<1> HIDE DEF new
<1>1. TypeOK'
  BY <1>c DEF IInv, TypeOK, new, Looping
<1>2. Fresh'
  BY DEF IInv, TypeOK, Fresh, Looping
<1>3. LocksExclusive'
  BY DEF IInv, TypeOK, LocksExclusive
<1>4. NameOrder'
  <2>1. \A h \in todo'[w] : h \in todo[w] /\ h # Current(w) /\ h \in Nat
    BY <1>a DEF IInv, TypeOK, Gateways
  <2>2. \A h \in todo'[w] : Current(w) < h
    BY <1>a, <2>1 DEF Gateways
  <2>3. ASSUME NEW h \in todo'[w] PROVE /\ \A r \in writes'[w] : r.gw < h
                                        /\ \A g \in locked[w] : g < h
    <3>1. \A r \in writes'[w] : r.gw < h
      BY <1>c, <1>d, <2>1, <2>2 DEF IInv, NameOrder, Looping
    <3>2. \A g \in locked[w] : g <= Current(w) /\ g \in Nat
      BY <1>a DEF IInv, NameOrder, Looping, TypeOK, Gateways
    <3>3. Current(w) \in Nat /\ h \in Nat /\ Current(w) < h
      BY <1>a, <2>1, <2>2 DEF Gateways
    <3>4. \A g \in locked[w] : g < h
      BY <3>2, <3>3
    <3> QED BY <3>1, <3>4
  <2> QED BY <2>3, <1>d DEF IInv, TypeOK, NameOrder, Looping
<1>5. OwnWrites'
  BY <1>b, <1>c, <1>d, <1>e DEF IInv, OwnWrites
<1>6. FoundCurrent'
  BY DEF IInv, TypeOK, FoundCurrent, Current
<1>7. PendingCompatible'
  <2>1. \A v \in Workers \ {w} : \A s \in writes[v] : ~Clash(new, s) /\ ~Clash(s, new)
    BY <1>b, <1>c DEF IInv, WritesCompatible, LocksExclusive, Clash
  <2> QED BY <1>d, <2>1 DEF IInv, PendingCompatible
<1>8. WritesCompatible'
  <2>1. \A d \in devices : Clash(new, d) => d = found[w]
    BY <1>b, <1>c DEF IInv, UniqueAddresses, Clash
  <2> QED BY <1>b, <1>c, <1>d, <2>1 DEF IInv, WritesCompatible
<1>9. FormCurrent'
  BY DEF IInv, FormCurrent
<1>10. UniqueAddresses'
  BY DEF IInv, UniqueAddresses
<1>11. DevicesExclusive' /\ UsersExclusive'
  BY HoldingsKept DEF IInv, TypeOK
<1>12. LockedHeld' /\ FormCounted'
  BY DEF IInv, LockedHeld, FormCounted
<1> QED
  BY <1>1, <1>2, <1>3, <1>4, <1>5, <1>6, <1>7, <1>8, <1>9, <1>10, <1>11, <1>12 DEF IInv

(* The host chosen is free and is not the gateway's.                        *)
LEMMA AllocateStep ==
  ASSUME IInv, NEW w \in Workers, Allocate(w)
  PROVE  IInv'
<1> USE DEF Allocate, Goto
<1>a. Current(w) \in Gateways
  BY CurrentLeast DEF IInv, Fresh, Looping
<1>b. Min(FreeHosts(Current(w))) \in Hosts \ {GatewayHost}
  <2>1. FreeHosts(Current(w)) \subseteq Hosts \ {GatewayHost}
    BY DEF FreeHosts
  <2> QED BY <2>1, MinLeast DEF Hosts
<1>c. req[w] \in [user : Users, key : Keys]
  BY DEF IInv, TypeOK, Fresh
<1>1. TypeOK'
  BY <1>a, <1>b, <1>c DEF IInv, TypeOK, Row, Looping
<1>2. Fresh'
  BY DEF IInv, TypeOK, Fresh, Looping
<1>3. LocksExclusive'
  BY DEF IInv, TypeOK, LocksExclusive
<1>4. NameOrder'
  BY DEF IInv, TypeOK, NameOrder, Looping
<1>5. OwnWrites'
  BY DEF IInv, TypeOK, OwnWrites
<1>6. FoundCurrent'
  BY <1>a, <1>b, <1>c DEF IInv, TypeOK, FoundCurrent, Current, Row
<1>7. PendingCompatible'
  BY DEF IInv, TypeOK, PendingCompatible
<1>8. WritesCompatible'
  BY DEF IInv, TypeOK, WritesCompatible
<1>9. FormCurrent'
  BY DEF IInv, FormCurrent
<1>10. UniqueAddresses'
  BY DEF IInv, UniqueAddresses
<1>11. DevicesExclusive' /\ UsersExclusive'
  BY HoldingsKept DEF IInv, TypeOK
<1>12. LockedHeld' /\ FormCounted'
  BY DEF IInv, LockedHeld, FormCounted
<1> QED
  BY <1>1, <1>2, <1>3, <1>4, <1>5, <1>6, <1>7, <1>8, <1>9, <1>10, <1>11, <1>12 DEF IInv

(* The unique constraints and the wait for uncommitted clashes are what     *)
(* keeps the new row apart from every other one.                            *)
LEMMA InsertDeviceStep ==
  ASSUME IInv, NEW w \in Workers, InsertDevice(w)
  PROVE  IInv'
<1> USE DEF InsertDevice, NextGateway, Goto
<1>a. Current(w) \in todo[w] /\ Current(w) \in Gateways /\ \A h \in todo[w] : Current(w) <= h
  BY CurrentLeast DEF IInv, Fresh, Looping
<1>b. /\ found[w] \in Row /\ found[w].user = req[w].user
      /\ found[w].gw = Current(w) /\ found[w].addr # GatewayHost
  BY DEF IInv, FoundCurrent
<1>c. \A v \in Workers \ {w} : \A r \in writes[v] : ~Clash(r, found[w])
  BY DEF Blocked, WaitsFor
<1>d. /\ \A v \in Workers \ {w} : writes'[v] = writes[v]
      /\ \A r \in writes'[w] : r \in writes[w] \/ r = found[w]
  BY DEF IInv, TypeOK
<1>e. \A r \in writes[w] : r.gw # Current(w) /\ r.gw \in Nat
  BY <1>a DEF IInv, NameOrder, Looping, TypeOK, Row, Gateways
<1>1. TypeOK'
  BY <1>b DEF IInv, TypeOK, Looping
<1>2. Fresh'
  BY DEF IInv, TypeOK, Fresh, Looping
<1>3. LocksExclusive'
  BY DEF IInv, TypeOK, LocksExclusive
<1>4. NameOrder'
  <2>1. \A h \in todo'[w] : h \in todo[w] /\ h # Current(w) /\ h \in Nat
    BY <1>a DEF IInv, TypeOK, Gateways
  <2>2. \A h \in todo'[w] : Current(w) < h
    BY <1>a, <2>1 DEF Gateways
  <2>3. ASSUME NEW h \in todo'[w] PROVE /\ \A r \in writes'[w] : r.gw < h
                                        /\ \A g \in locked[w] : g < h
    BY <1>b, <1>d, <2>1, <2>2 DEF IInv, NameOrder, Looping
  <2> QED BY <2>3, <1>d DEF IInv, TypeOK, NameOrder, Looping
<1>5. OwnWrites'
  BY <1>b, <1>d, <1>e DEF IInv, OwnWrites
<1>6. FoundCurrent'
  BY DEF IInv, TypeOK, FoundCurrent, Current
<1>7. PendingCompatible'
  BY <1>c, <1>d DEF IInv, PendingCompatible, Clash
<1>8. WritesCompatible'
  BY <1>d DEF IInv, WritesCompatible, Duplicate, Clash
<1>9. FormCurrent'
  BY DEF IInv, FormCurrent
<1>10. UniqueAddresses'
  BY DEF IInv, UniqueAddresses
<1>11. DevicesExclusive' /\ UsersExclusive'
  BY HoldingsKept DEF IInv, TypeOK
<1>12. LockedHeld' /\ FormCounted'
  BY DEF IInv, LockedHeld, FormCounted
<1> QED
  BY <1>1, <1>2, <1>3, <1>4, <1>5, <1>6, <1>7, <1>8, <1>9, <1>10, <1>11, <1>12 DEF IInv

\* After the loop the rows inserted are what COMMIT checks.
LEMMA EndLoopStep ==
  ASSUME IInv, NEW w \in Workers, EndLoop(w)
  PROVE  IInv'
<1> USE DEF EndLoop, Goto
<1>1. TypeOK'
  BY DEF IInv, TypeOK, Inserted, Row
<1>2. Fresh'
  BY DEF IInv, TypeOK, Fresh, Looping
<1>3. LocksExclusive'
  BY DEF IInv, TypeOK, LocksExclusive
<1>4. NameOrder'
  BY DEF IInv, TypeOK, NameOrder, Looping
<1>5. OwnWrites'
  BY DEF IInv, TypeOK, OwnWrites
<1>6. FoundCurrent'
  BY DEF IInv, TypeOK, FoundCurrent, Current
<1>7. PendingCompatible'
  BY DEF IInv, TypeOK, PendingCompatible
<1>8. WritesCompatible'
  BY DEF IInv, TypeOK, WritesCompatible
<1>9. FormCurrent'
  BY DEF IInv, FormCurrent
<1>10. UniqueAddresses'
  BY DEF IInv, UniqueAddresses
<1>11. DevicesExclusive' /\ UsersExclusive'
  BY HoldingsKept DEF IInv, TypeOK
<1>12. LockedHeld' /\ FormCounted'
  BY DEF IInv, LockedHeld, FormCounted
<1> QED
  BY <1>1, <1>2, <1>3, <1>4, <1>5, <1>6, <1>7, <1>8, <1>9, <1>10, <1>11, <1>12 DEF IInv

\* COMMIT's share lock on the user changes no row.
LEMMA CheckUserStep ==
  ASSUME IInv, NEW w \in Workers, CheckUser(w)
  PROVE  IInv'
<1> USE DEF CheckUser, Goto
<1>1. TypeOK'
  BY DEF IInv, TypeOK
<1>2. Fresh'
  BY DEF IInv, TypeOK, Fresh, Looping
<1>3. LocksExclusive'
  BY DEF IInv, TypeOK, LocksExclusive
<1>4. NameOrder'
  BY DEF IInv, TypeOK, NameOrder, Looping
<1>5. OwnWrites'
  BY DEF IInv, TypeOK, OwnWrites
<1>6. FoundCurrent'
  BY DEF IInv, TypeOK, FoundCurrent, Current
<1>7. PendingCompatible'
  BY DEF IInv, TypeOK, PendingCompatible
<1>8. WritesCompatible'
  BY DEF IInv, TypeOK, WritesCompatible
<1>9. FormCurrent'
  BY DEF IInv, FormCurrent
<1>10. UniqueAddresses'
  BY DEF IInv, UniqueAddresses
<1>11. DevicesExclusive' /\ UsersExclusive'
  BY HoldingsKept DEF IInv, TypeOK
<1>12. LockedHeld' /\ FormCounted'
  BY DEF IInv, LockedHeld, FormCounted
<1> QED
  BY <1>1, <1>2, <1>3, <1>4, <1>5, <1>6, <1>7, <1>8, <1>9, <1>10, <1>11, <1>12 DEF IInv

\* COMMIT's share locks change no row.
LEMMA CheckForeignKeyStep ==
  ASSUME IInv, NEW w \in Workers, CheckForeignKey(w)
  PROVE  IInv'
<1> USE DEF CheckForeignKey, Goto
<1>1. TypeOK'
  BY CurrentLeast DEF IInv, TypeOK
<1>2. Fresh'
  BY DEF IInv, TypeOK, Fresh, Looping
<1>3. LocksExclusive'
  BY DEF IInv, TypeOK, LocksExclusive
<1>4. NameOrder'
  BY DEF IInv, TypeOK, NameOrder, Looping
<1>5. OwnWrites'
  BY DEF IInv, TypeOK, OwnWrites
<1>6. FoundCurrent'
  BY DEF IInv, TypeOK, FoundCurrent, Current
<1>7. PendingCompatible'
  BY DEF IInv, TypeOK, PendingCompatible
<1>8. WritesCompatible'
  BY DEF IInv, TypeOK, WritesCompatible
<1>9. FormCurrent'
  BY DEF IInv, FormCurrent
<1>10. UniqueAddresses'
  BY DEF IInv, UniqueAddresses
<1>11. DevicesExclusive' /\ UsersExclusive'
  BY HoldingsKept DEF IInv, TypeOK
<1>12. LockedHeld' /\ FormCounted'
  BY DEF IInv, LockedHeld, FormCounted
<1> QED
  BY <1>1, <1>2, <1>3, <1>4, <1>5, <1>6, <1>7, <1>8, <1>9, <1>10, <1>11, <1>12 DEF IInv

(* A transaction that ends without a commit leaves nothing behind.          *)
LEMMA EndStep ==
  ASSUME IInv, NEW w \in Workers, Abort(w)
  PROVE  IInv'
<1> USE DEF Abort, End, Goto
<1>1. TypeOK'
  BY DEF IInv, TypeOK
<1>2. Fresh'
  BY DEF IInv, TypeOK, Fresh, Looping
<1>3. LocksExclusive'
  BY DEF IInv, TypeOK, LocksExclusive
<1>4. NameOrder'
  BY DEF IInv, TypeOK, NameOrder, Looping
<1>5. OwnWrites'
  BY DEF IInv, TypeOK, OwnWrites
<1>6. FoundCurrent'
  BY DEF IInv, TypeOK, FoundCurrent, Current
<1>7. PendingCompatible' /\ WritesCompatible'
  BY DEF IInv, TypeOK, PendingCompatible, WritesCompatible
<1>8. FormCurrent' /\ UniqueAddresses'
  BY DEF IInv, FormCurrent, UniqueAddresses
<1>9. /\ \A v \in Workers \ {w} : DeviceLocks(v)' = DeviceLocks(v) /\ HoldsUser(v)' = HoldsUser(v)
      /\ DeviceLocks(w)' = {} /\ ~HoldsUser(w)'
  BY DEF IInv, TypeOK, DeviceLocks, HoldsUser, Current
<1>10. DevicesExclusive' /\ UsersExclusive'
  BY <1>9 DEF IInv, TypeOK, DevicesExclusive, UsersExclusive
<1>11. LockedHeld' /\ FormCounted'
  BY DEF IInv, TypeOK, LockedHeld, FormCounted
<1> QED
  BY <1>1, <1>2, <1>3, <1>4, <1>5, <1>6, <1>7, <1>8, <1>10, <1>11 DEF IInv

(* A new request starts with nothing written and nothing locked.            *)
LEMMA RequestStep ==
  ASSUME IInv, NEW w \in Workers, NEW u \in Users, NEW k \in Keys, Request(w, u, k)
  PROVE  IInv'
<1> USE DEF Request, Goto, Counted
<1>a. [user |-> u, key |-> k] # NoRow
  BY NoRowAssumption
<1>1. TypeOK'
  BY DEF IInv, TypeOK, Counters
<1>2. Fresh'
  BY <1>a DEF IInv, TypeOK, Fresh, Looping
<1>3. LocksExclusive' /\ NameOrder'
  BY DEF IInv, TypeOK, LocksExclusive, NameOrder, Looping
<1>4. OwnWrites'
  BY DEF IInv, TypeOK, OwnWrites, Fresh
<1>5. FoundCurrent'
  BY DEF IInv, TypeOK, FoundCurrent, Current
<1>6. PendingCompatible' /\ WritesCompatible' /\ FormCurrent'
  BY DEF IInv, PendingCompatible, WritesCompatible, FormCurrent
<1>7. UniqueAddresses' /\ FormCounted'
  BY DEF IInv, TypeOK, Counters, UniqueAddresses, FormCounted
<1>8. /\ \A v \in Workers : DeviceLocks(v)' = DeviceLocks(v) /\ HoldsUser(v)' = HoldsUser(v)
      /\ DeviceLocks(w) = {} /\ ~HoldsUser(w)
  BY DEF IInv, TypeOK, Fresh, DeviceLocks, HoldsUser, Current
<1>9. DevicesExclusive' /\ UsersExclusive'
  BY <1>8 DEF IInv, TypeOK, DevicesExclusive, UsersExclusive
<1>10. LockedHeld'
  BY DEF IInv, TypeOK, Fresh, LockedHeld
<1> QED BY <1>1, <1>2, <1>3, <1>4, <1>5, <1>6, <1>7, <1>9, <1>10 DEF IInv

(* What a commit leaves of a committed row: the row itself, or the row that *)
(* updates it, which has its user, gateway and address.                     *)
LEMMA UpsertRows ==
  ASSUME IInv, NEW w \in Workers
  PROVE  /\ \A d \in Upsert(w) : d \in devices \/ d \in writes[w]
         /\ \A d \in devices : \E e \in Upsert(w) :
               e.user = d.user /\ e.gw = d.gw /\ e.addr = d.addr
         /\ \A d \in devices : (\A r \in writes[w] : ~Clash(r, d)) => d \in Upsert(w)
         /\ \A d \in devices, e \in Upsert(w) :
               (d.user = e.user /\ d.gw = e.gw) => d.addr = e.addr
<1>1. \A r \in writes[w], d \in devices :
         (r.user = d.user /\ r.gw = d.gw) => r.addr = d.addr
  BY DEF IInv, WritesCompatible, Clash
<1>2. \A d, e \in devices : (d.user = e.user /\ d.gw = e.gw) => d = e
  BY DEF IInv, UniqueAddresses
<1> QED BY <1>1, <1>2 DEF Upsert, Clash

(* A commit makes the transaction's rows visible: they clash with no         *)
(* committed row but the one they update, and with nobody's pending row.     *)
LEMMA CommitStep ==
  ASSUME IInv, NEW w \in Workers, Commit(w)
  PROVE  IInv'
<1> USE DEF Commit, End, Goto
<1>a. devices' = Upsert(w) /\ \A v \in Workers \ {w} : writes'[v] = writes[v]
  BY DEF IInv, TypeOK
<1>1. TypeOK'
  <2>1. Upsert(w) \subseteq Row
    BY UpsertRows DEF IInv, TypeOK
  <2> QED BY <2>1 DEF IInv, TypeOK
<1>2. Fresh' /\ LocksExclusive' /\ NameOrder'
  BY DEF IInv, TypeOK, Fresh, LocksExclusive, NameOrder, Looping
<1>3. OwnWrites'
  BY DEF IInv, TypeOK, OwnWrites
<1>4. FoundCurrent'
  <2>1. ASSUME NEW v \in Workers, v # w, pc[v] \in {"user", "gateway", "update"}
        PROVE  found[v] \in Upsert(w)
    <3>1. /\ found[v] \in devices /\ found[v].gw \in DeviceLocks(v)
          /\ found[v].user = req[v].user
      BY <2>1 DEF IInv, FoundCurrent, DeviceLocks
    <3>2. ASSUME NEW r \in writes[w], Clash(r, found[v]) PROVE FALSE
      <4>1. r.gw \in locked[w] /\ r.user = found[v].user /\ r.gw = found[v].gw
        BY <3>1, <3>2 DEF IInv, WritesCompatible, Clash
      <4>2. r.gw \in DeviceLocks(w) /\ req[w].user = req[v].user
        BY <3>1, <4>1 DEF IInv, OwnWrites, DeviceLocks
      <4> QED BY <2>1, <3>1, <4>1, <4>2 DEF IInv, DevicesExclusive
    <3> QED BY <3>1, <3>2, UpsertRows
  <2> QED BY <2>1, <1>a DEF IInv, TypeOK, FoundCurrent, Current
<1>5. PendingCompatible'
  BY DEF IInv, TypeOK, PendingCompatible
<1>6. WritesCompatible'
  <2>1. ASSUME NEW v \in Workers, v # w, NEW r \in writes[v], NEW d \in Upsert(w),
               Clash(r, d)
        PROVE  r.gw \in locked[v] /\ r.user = d.user /\ r.addr = d.addr
    BY <2>1, UpsertRows DEF IInv, PendingCompatible, WritesCompatible
  <2> QED BY <2>1, <1>a DEF IInv, TypeOK, WritesCompatible
<1>7. FormCurrent'
  BY <1>a, UpsertRows DEF IInv, FormCurrent
<1>8. UniqueAddresses'
  <2>1. ASSUME count["edits"] = 0, NEW d \in Upsert(w) PROVE d.addr # GatewayHost
    <3>1. CASE d \in devices
      BY <2>1, <3>1 DEF IInv, UniqueAddresses
    <3>2. CASE d \in writes[w] /\ d.gw \in locked[w]
      <4>1. PICK e \in devices : e.user = req[w].user /\ e.gw = d.gw
        BY <3>2 DEF IInv, LockedHeld
      <4>2. d.user = e.user /\ d.addr = e.addr
        BY <3>2, <4>1 DEF IInv, OwnWrites, WritesCompatible, Clash
      <4> QED BY <2>1, <4>1, <4>2 DEF IInv, UniqueAddresses
    <3>3. CASE d \in writes[w] /\ d.gw \notin locked[w]
      BY <3>3 DEF IInv, OwnWrites
    <3> QED BY <3>1, <3>2, <3>3, UpsertRows
  <2>2. ASSUME NEW d \in Upsert(w), NEW e \in Upsert(w), Clash(d, e)
        PROVE  d = e
    <3>1. CASE d \in writes[w] /\ e \in writes[w]
      BY <2>2, <3>1 DEF IInv, OwnWrites, Clash
    <3>2. CASE d \in devices /\ e \in devices
      BY <2>2, <3>2 DEF IInv, UniqueAddresses, Clash
    <3>3. CASE d \in writes[w] /\ e \notin writes[w]
      BY <2>2, <3>3 DEF Upsert, IInv, WritesCompatible, Clash
    <3>4. CASE d \notin writes[w] /\ e \in writes[w]
      BY <2>2, <3>4 DEF Upsert, IInv, WritesCompatible, Clash
    <3> QED BY <3>1, <3>2, <3>3, <3>4, UpsertRows
  <2> QED BY <1>a, <2>1, <2>2 DEF UniqueAddresses, Clash
<1>9. /\ \A v \in Workers \ {w} : DeviceLocks(v)' = DeviceLocks(v) /\ HoldsUser(v)' = HoldsUser(v)
      /\ DeviceLocks(w)' = {} /\ ~HoldsUser(w)'
  BY DEF IInv, TypeOK, DeviceLocks, HoldsUser, Current
<1>10. DevicesExclusive' /\ UsersExclusive'
  BY <1>9 DEF IInv, TypeOK, DevicesExclusive, UsersExclusive
<1>11. LockedHeld' /\ FormCounted'
  <2>1. ASSUME NEW v \in Workers, v # w, NEW g \in locked[v]
        PROVE  \E e \in Upsert(w) : e.user = req[v].user /\ e.gw = g
    BY <2>1, UpsertRows DEF IInv, LockedHeld
  <2> QED BY <1>a, <2>1 DEF IInv, TypeOK, LockedHeld, FormCounted
<1> QED
  BY <1>1, <1>2, <1>3, <1>4, <1>5, <1>6, <1>7, <1>8, <1>10, <1>11 DEF IInv

(* The administrators' actions leave every transaction as it is.            *)
LEMMA TransactionsKept ==
  ASSUME IInv, UNCHANGED txVars
  PROVE  /\ Fresh' /\ LocksExclusive' /\ NameOrder' /\ OwnWrites'
         /\ PendingCompatible' /\ DevicesExclusive' /\ UsersExclusive'
<1> USE DEF txVars
<1>1. Fresh' /\ LocksExclusive'
  BY DEF IInv, Fresh, LocksExclusive
<1>2. NameOrder'
  BY DEF IInv, NameOrder
<1>3. OwnWrites' /\ PendingCompatible'
  BY DEF IInv, OwnWrites, PendingCompatible
<1>4. \A v \in Workers : DeviceLocks(v)' = DeviceLocks(v) /\ HoldsUser(v)' = HoldsUser(v)
  BY DEF DeviceLocks, HoldsUser, Current
<1>5. DevicesExclusive' /\ UsersExclusive'
  BY <1>4 DEF IInv, DevicesExclusive, UsersExclusive
<1> QED BY <1>1, <1>2, <1>3, <1>5

\* So does a step that leaves the table as well, and is at most counted.
LEMMA TableUntouched ==
  ASSUME IInv, UNCHANGED <<devices, txVars>>,
         count'["edits"] = 0 => count["edits"] = 0
  PROVE  /\ FoundCurrent' /\ WritesCompatible' /\ UniqueAddresses' /\ LockedHeld'
<1> USE DEF txVars
<1>1. FoundCurrent'
  BY DEF IInv, FoundCurrent, Current
<1>2. WritesCompatible' /\ LockedHeld'
  BY DEF IInv, WritesCompatible, LockedHeld
<1>3. UniqueAddresses'
  BY DEF IInv, UniqueAddresses
<1> QED BY <1>1, <1>2, <1>3

\* A change of groups changes no device.
LEMMA RegroupStep ==
  ASSUME IInv, NEW u \in Users, NEW gs \in SUBSET Gateways, Regroup(u, gs)
  PROVE  IInv'
<1> USE DEF Regroup, Counted
<1>1. TypeOK' /\ count'["edits"] = count["edits"]
  BY DEF IInv, TypeOK, Counters, txVars
<1>2. FormCurrent' /\ FormCounted'
  BY <1>1 DEF IInv, FormCurrent, FormCounted
<1> QED BY <1>1, <1>2, TransactionsKept, TableUntouched DEF IInv

\* A page shows a committed row.
LEMMA OpenFormStep ==
  ASSUME IInv, NEW d \in devices, OpenForm(d)
  PROVE  IInv'
<1> USE DEF OpenForm, Counted
<1>1. TypeOK' /\ count'["edits"] # 0
  BY DEF IInv, TypeOK, Counters, txVars
<1>2. FormCurrent' /\ FormCounted'
  BY <1>1 DEF IInv, FormCurrent, FormCounted
<1> QED BY <1>1, <1>2, TransactionsKept, TableUntouched DEF IInv

(* A row that clashes with no other row, committed or not, takes the place   *)
(* of one that no request holds.                                            *)
LEMMA SavedStep ==
  ASSUME IInv, NEW row \in Row, NEW old \in SUBSET devices, Saved(old, row),
         UNCHANGED txVars, count'["edits"] # 0,
         \A d \in old : ~RowLocked(d)
  PROVE  /\ devices' \subseteq Row
         /\ FoundCurrent' /\ WritesCompatible' /\ UniqueAddresses' /\ LockedHeld'
<1> USE DEF txVars
<1>a. /\ \A e \in devices' : e = row \/ (e \in devices /\ e \notin old)
      /\ \A e \in devices : e \in old \/ e \in devices'
      /\ \A e \in devices \ old : ~Clash(row, e)
  BY DEF Saved
<1>1. devices' \subseteq Row
  BY <1>a DEF IInv, TypeOK
<1>b. ASSUME NEW d \in devices, NEW w \in Workers, req[w] # NoRow,
             d.user = req[w].user, d.gw \in DeviceLocks(w)
      PROVE  d \in devices'
  BY <1>a, <1>b DEF RowLocked, Serves
<1>2. FoundCurrent'
  <2>1. ASSUME NEW w \in Workers, pc[w] \in {"user", "gateway", "update"}
        PROVE  found[w] \in devices'
    BY <1>b, <2>1 DEF IInv, FoundCurrent, DeviceLocks, Fresh
  <2> QED BY <2>1 DEF IInv, FoundCurrent, Current
<1>3. WritesCompatible'
  <2>1. \A w \in Workers : \A r \in writes[w] : ~Clash(r, row)
    BY DEF Saved, Clash
  <2> QED BY <1>a, <2>1 DEF IInv, WritesCompatible
<1>4. UniqueAddresses'
  BY <1>a DEF IInv, UniqueAddresses, Clash
<1>5. LockedHeld'
  <2>1. ASSUME NEW w \in Workers, NEW g \in locked[w]
        PROVE  \E d \in devices' : d.user = req[w].user /\ d.gw = g
    <3>1. PICK d \in devices : d.user = req[w].user /\ d.gw = g
      BY <2>1 DEF IInv, LockedHeld
    <3>2. req[w] # NoRow
      BY <2>1 DEF IInv, Fresh
    <3> QED BY <1>b, <3>1, <3>2 DEF DeviceLocks
  <2> QED BY <2>1 DEF LockedHeld
<1> QED BY <1>1, <1>2, <1>3, <1>4, <1>5

\* The page's row is the one it showed, wherever it goes.
LEMMA SaveFormStep ==
  ASSUME IInv, NEW row \in Row, SaveForm(row)
  PROVE  IInv'
<1> USE DEF SaveForm
<1> DEFINE old == OwnRows(form.user, form.gw)
<1>1. old \subseteq devices /\ \A d \in old : ~RowLocked(d)
  BY DEF OwnRows, RowLocked
<1>2. count'["edits"] # 0
  BY DEF IInv, FormCounted
<1> HIDE DEF old
<1>3. Saved(old, row)
  BY DEF old
<1>4. /\ devices' \subseteq Row
      /\ FoundCurrent' /\ WritesCompatible' /\ UniqueAddresses' /\ LockedHeld'
  BY <1>1, <1>2, <1>3, SavedStep
<1>5. TypeOK'
  BY <1>4 DEF IInv, TypeOK, txVars
<1>6. FormCurrent' /\ FormCounted'
  BY DEF FormCurrent, FormCounted
<1> QED BY <1>4, <1>5, <1>6, TransactionsKept DEF IInv

\* A row added takes the place of none.
LEMMA AddDeviceStep ==
  ASSUME IInv, NEW row \in Row, AddDevice(row)
  PROVE  IInv'
<1> USE DEF AddDevice, Counted
<1>1. count'["edits"] # 0 /\ count' \in [Counters -> Nat]
  BY DEF IInv, TypeOK, Counters
<1>2. /\ devices' \subseteq Row
      /\ FoundCurrent' /\ WritesCompatible' /\ UniqueAddresses' /\ LockedHeld'
  BY <1>1, SavedStep
<1>3. TypeOK'
  BY <1>1, <1>2 DEF IInv, TypeOK, txVars
<1>4. FormCurrent' /\ FormCounted'
  BY <1>1 DEF IInv, FormCurrent, FormCounted, Saved
<1> QED BY <1>2, <1>3, <1>4, TransactionsKept DEF IInv

\* A row under a lock is not deleted, and an open page's is shown no more.
LEMMA DeleteDeviceStep ==
  ASSUME IInv, NEW d \in devices, DeleteDevice(d)
  PROVE  IInv'
<1> USE DEF DeleteDevice, Counted
<1>1. TypeOK' /\ count'["edits"] = count["edits"]
  BY DEF IInv, TypeOK, Counters, txVars
<1>b. ASSUME NEW e \in devices, NEW w \in Workers, req[w] # NoRow,
             e.user = req[w].user, e.gw \in DeviceLocks(w)
      PROVE  e \in devices'
  BY <1>b DEF RowLocked, Serves
<1>2. FoundCurrent'
  <2>1. ASSUME NEW w \in Workers, pc[w] \in {"user", "gateway", "update"}
        PROVE  found[w] \in devices'
    BY <1>b, <2>1 DEF IInv, FoundCurrent, DeviceLocks, Fresh
  <2> QED BY <2>1 DEF IInv, FoundCurrent, Current, txVars
<1>3. WritesCompatible'
  BY DEF IInv, WritesCompatible, txVars
<1>4. FormCurrent' /\ FormCounted'
  BY <1>1 DEF IInv, FormCurrent, FormCounted
<1>5. UniqueAddresses'
  BY <1>1 DEF IInv, UniqueAddresses
<1>6. LockedHeld'
  <2>1. ASSUME NEW w \in Workers, NEW g \in locked[w]
        PROVE  \E e \in devices' : e.user = req[w].user /\ e.gw = g
    <3>1. PICK e \in devices : e.user = req[w].user /\ e.gw = g
      BY <2>1 DEF IInv, LockedHeld
    <3>2. req[w] # NoRow
      BY <2>1 DEF IInv, Fresh
    <3> QED BY <1>b, <3>1, <3>2 DEF DeviceLocks
  <2> QED BY <2>1 DEF LockedHeld, txVars
<1> QED BY <1>1, <1>2, <1>3, <1>4, <1>5, <1>6, TransactionsKept DEF IInv

(* The invariant is inductive, and holds.                                   *)
LEMMA Inductive == IInv /\ [Next]_vars => IInv'
<1> SUFFICES ASSUME IInv, [Next]_vars PROVE IInv'
  OBVIOUS
<1>1. ASSUME NEW w \in Workers, Serve(w) PROVE IInv'
  BY <1>1, CheckKeyStep, ListGatewaysStep, LookupHitStep, LockUserStep,
     LockGatewayStep, LookupMissStep, UpdateDeviceStep, AllocateStep,
     InsertDeviceStep, EndLoopStep, CheckUserStep, CheckForeignKeyStep,
     CommitStep, EndStep
     DEF Serve, RejectKey, Exhausted, InsertFails, BreakDeadlock
<1>2. ASSUME NEW w \in Workers, Crash(w) PROVE IInv'
  BY <1>2, EndStep DEF Crash
<1>3. ASSUME NEW w \in Workers, NEW u \in Users, NEW k \in Keys, Request(w, u, k)
      PROVE  IInv'
  BY <1>3, RequestStep
<1>4. ASSUME Admin PROVE IInv'
  BY <1>4, RegroupStep, OpenFormStep, SaveFormStep, AddDeviceStep, DeleteDeviceStep DEF Admin
<1>5. ASSUME UNCHANGED vars PROVE IInv'
  <2>1. UNCHANGED txVars /\ UNCHANGED <<devices, grants, form, count>>
    BY <1>5 DEF vars
  <2>2. TypeOK'
    BY <2>1 DEF IInv, TypeOK, txVars
  <2>3. FormCurrent' /\ FormCounted'
    BY <2>1 DEF IInv, FormCurrent, FormCounted
  <2> QED BY <2>1, <2>2, <2>3, TransactionsKept, TableUntouched DEF IInv
<1> QED BY <1>1, <1>2, <1>3, <1>4, <1>5 DEF Next

\* The invariant holds initially: the tables are those of earlier requests.
LEMMA Initial == Init => IInv
<1> SUFFICES ASSUME Init PROVE IInv
  OBVIOUS
<1> USE DEF Init, Idle
<1>1. TypeOK
  BY DEF TypeOK, Counters
<1>2. Fresh /\ LocksExclusive /\ NameOrder /\ OwnWrites /\ LockedHeld
  BY DEF Fresh, LocksExclusive, NameOrder, OwnWrites, LockedHeld, Looping
<1>3. FoundCurrent /\ PendingCompatible /\ WritesCompatible
  BY DEF FoundCurrent, PendingCompatible, WritesCompatible
<1>4. FormCurrent /\ FormCounted /\ UniqueAddresses
  BY DEF FormCurrent, FormCounted, UniqueAddresses
<1>5. DevicesExclusive /\ UsersExclusive
  BY DEF DevicesExclusive, UsersExclusive, DeviceLocks, HoldsUser
<1> QED BY <1>1, <1>2, <1>3, <1>4, <1>5 DEF IInv

\* The inductive invariant holds throughout.
LEMMA Invariance == Spec => []IInv
BY Initial, Inductive, PTL DEF Spec

(* Every reachable state is well typed.                                     *)
THEOREM TypeCorrect == Spec => []TypeOK
<1>1. IInv => TypeOK
  BY DEF IInv
<1> QED BY <1>1, Invariance, PTL

(* However the registrations interleave, with each other, with crashes and  *)
(* with the administrators, no two devices of a gateway share an address or *)
(* a user; and until an administrator types one, none has the gateway's own *)
(* address.                                                                 *)
THEOREM AddressesAreUnique == Spec => []UniqueAddresses
<1>1. IInv => UniqueAddresses
  BY DEF IInv
<1> QED BY <1>1, Invariance, PTL

(* A step leaves a device that survives it at its address, or saves its page. *)
LEMMA StableStep ==
  ASSUME IInv, [Next]_vars, NEW d \in devices, NEW e \in devices',
         d.user = e.user, d.gw = e.gw
  PROVE  \/ d.addr = e.addr
         \/ /\ form # NoRow /\ form' = NoRow
            /\ form.user = d.user /\ form.gw = d.gw
<1>1. \A c \in devices : (c.user = d.user /\ c.gw = d.gw) => c = d
  BY DEF IInv, UniqueAddresses
<1>2. CASE e \in devices
  BY <1>1, <1>2
<1>3. CASE \E w \in Workers : Commit(w)
  BY <1>3, UpsertRows DEF Commit
<1>4. CASE \E row \in Row : SaveForm(row)
  <2>1. PICK row \in Row : SaveForm(row)
    BY <1>4
  <2>2. CASE e \in devices
    BY <1>2, <2>2
  <2>3. CASE e \notin devices
    <3>1. e = row /\ \A c \in devices : c \in OwnRows(form.user, form.gw) \/ ~Clash(row, c)
      BY <2>1, <2>3 DEF SaveForm, Saved
    <3>2. d \in OwnRows(form.user, form.gw)
      BY <3>1 DEF Clash
    <3> QED BY <2>1, <3>2 DEF SaveForm, OwnRows
  <2> QED BY <2>2, <2>3
<1>5. CASE \E row \in Row : AddDevice(row)
  <2>1. e \in devices \/ ~Clash(e, d)
    BY <1>5 DEF AddDevice, Saved
  <2> QED BY <1>2, <2>1 DEF Clash
<1>6. CASE \E c \in devices : DeleteDevice(c)
  BY <1>1, <1>6 DEF DeleteDevice
<1>7. CASE UNCHANGED devices
  BY <1>1, <1>7
<1> QED
  BY <1>3, <1>4, <1>5, <1>6, <1>7
     DEF Next, Serve, Admin, vars, CheckKey, RejectKey, ListGateways, LookupHit,
         LockUser, LockGateway, LookupMiss, UpdateDevice, NextGateway, Allocate,
         Exhausted, InsertDevice, InsertFails, EndLoop, CheckUser, CheckForeignKey,
         BreakDeadlock, Abort, Crash, Request, Regroup, OpenForm

(* A device that exists keeps its address: re-registration, key rotation,   *)
(* and the edit of any other device never move it; only its own page does.  *)
THEOREM AddressesAreStable == Spec => AddressStable
<1>1. IInv /\ [Next]_vars =>
        [\A d \in devices, e \in devices' :
            (d.user = e.user /\ d.gw = e.gw) =>
                \/ d.addr = e.addr
                \/ /\ form # NoRow /\ form' = NoRow
                   /\ form.user = d.user /\ form.gw = d.gw]_vars
  BY StableStep
<1> QED BY <1>1, Invariance, PTL DEF Spec, AddressStable

(***************************************************************************)
(* No circle of waits inside the loops: the waits climb.                   *)
(***************************************************************************)
\* How far a request is: its gateway, and there the device's lock or not yet.
Rank(w) == 2 * Current(w) + (IF pc[w] \in {"user", "gateway"} THEN 1 ELSE 0)

(* A request that has no lock has written on every gateway it passed, so    *)
(* none of its user's devices there is committed.                           *)
LEMMA PassedWritten ==
  ASSUME IInv, NEW w \in Workers, pc[w] \in Looping, todo[w] # {}, locked[w] = {},
         NEW d \in devices, d.user = req[w].user, d.gw \in Asked(w)
  PROVE  Current(w) <= d.gw
<1>1. \A h \in todo[w] : Current(w) <= h
  BY CurrentLeast DEF IInv
<1>2. CASE d.gw \in todo[w]
  BY <1>1, <1>2
<1>3. ASSUME NEW r \in writes[w], r.gw = d.gw PROVE FALSE
  <2>1. Clash(r, d)
    BY <1>3 DEF IInv, OwnWrites, Clash
  <2> QED BY <2>1 DEF IInv, WritesCompatible
<1> QED BY <1>2, <1>3 DEF Asked

(* Who waits inside the loop waits for a request that, if it waits too, is  *)
(* further: at a later gateway, or with the device's lock at the same one.  *)
LEMMA WaitsClimb ==
  ASSUME IInv, NEW v \in Workers, NEW w \in Workers, WaitsFor(w, v),
         pc[w] \in Looping, pc[v] \in {"lookup", "user", "gateway", "insert"},
         todo[v] # {}, todo[w] # {},
         Serves(v, req[w].user) => Asked(v) = Asked(w)
  PROVE  Rank(w) < Rank(v)
<1>1. /\ Current(w) \in Nat /\ Current(v) \in Nat
      /\ Current(v) \in todo[v] /\ Current(w) \in todo[w]
  BY CurrentLeast DEF IInv, Gateways
<1>2. shared[v] = {} /\ v # w /\ pc[v] # "commit"
  BY DEF IInv, Fresh, WaitsFor
<1>3. \A g \in locked[v] : g < Current(v)
  BY <1>1 DEF IInv, NameOrder, Looping
<1>4. Current(w) < Current(v) => Rank(w) < Rank(v)
  BY <1>1 DEF Rank
<1>5. CASE pc[w] = "lookup"
  <2>1. Current(w) \in DeviceLocks(v)
    BY <1>5 DEF WaitsFor
  <2>2. CASE Current(w) \in locked[v]
    BY <1>3, <1>4, <2>2
  <2>3. CASE pc[v] \in {"user", "gateway"} /\ Current(w) = Current(v)
    BY <1>1, <1>5, <2>3 DEF Rank
  <2> QED BY <2>1, <2>2, <2>3 DEF DeviceLocks
<1>6. CASE pc[w] = "gateway"
  BY <1>2, <1>3, <1>4, <1>6 DEF WaitsFor
<1>7. CASE pc[w] = "insert"
  <2>1. PICK r \in writes[v] : r.gw = found[w].gw
    BY <1>7 DEF WaitsFor, Clash
  <2>2. found[w].gw = Current(w)
    BY <1>7 DEF IInv, FoundCurrent
  <2>3. r.gw < Current(v)
    BY <1>1 DEF IInv, NameOrder, Looping
  <2> QED BY <1>4, <2>1, <2>2, <2>3
<1>8. CASE pc[w] = "user"
  <2>1. /\ HoldsUser(v) /\ req[v].user = req[w].user
        /\ Asked(v) = Asked(w)
    BY <1>2, <1>8 DEF WaitsFor, SharesUser, Serves
  <2>2. locked[w] = {}
    BY <1>2, <2>1 DEF IInv, UsersExclusive, HoldsUser
  <2>3. CASE pc[v] = "gateway"
    <3>1. /\ found[v] \in devices /\ found[v].user = req[w].user
          /\ found[v].gw = Current(v)
      BY <2>1, <2>3 DEF IInv, FoundCurrent
    <3>2. Current(v) \in Asked(w)
      BY <1>1, <2>1 DEF Asked
    <3>3. Current(w) <= Current(v)
      BY <2>2, <3>1, <3>2, PassedWritten
    <3>4. Current(w) # Current(v)
      BY <1>2, <1>8, <2>1, <2>3 DEF IInv, DevicesExclusive, DeviceLocks
    <3> QED BY <1>1, <1>4, <3>3, <3>4
  <2>4. CASE locked[v] # {}
    <3>1. PICK g \in locked[v] : TRUE
      BY <2>4
    <3>2. PICK d \in devices : d.user = req[w].user /\ d.gw = g
      BY <2>1, <3>1 DEF IInv, LockedHeld
    <3>3. g \in Asked(w) /\ g \in Nat
      BY <2>1, <3>1 DEF Asked, IInv, TypeOK, Gateways
    <3>4. Current(w) <= g
      BY <2>2, <3>2, <3>3, PassedWritten
    <3>5. g < Current(v)
      BY <1>3
    <3> QED BY <1>1, <1>4, <3>3, <3>4, <3>5
  <2> QED BY <2>1, <2>3, <2>4 DEF HoldsUser
<1> QED BY <1>5, <1>6, <1>7, <1>8 DEF WaitsFor, Looping

(* No set of requests that are still in their loops waits only for itself,   *)
(* over devices, users and gateways together, as long as requests of one     *)
(* user in it took the same list of gateways: of those that wait, one of the  *)
(* furthest waits for nobody in it.                                          *)
THEOREM LoopsNeverDeadlock == Spec => []NoDeadlockInLoop
<1>1. ASSUME IInv, NEW S \in SUBSET {w \in Workers : pc[w] \in Looping}, S # {},
             \A v, w \in S : Serves(v, req[w].user) => Asked(v) = Asked(w),
             \A w \in S : \E v \in S : WaitsFor(w, v)
      PROVE  FALSE
  <2> DEFINE Ranks == {Rank(w) : w \in S}
  <2>1. \A w \in S : /\ w \in Workers /\ pc[w] \in {"lookup", "user", "gateway", "insert"}
                     /\ pc[w] \in Looping /\ todo[w] # {}
    BY <1>1 DEF WaitsFor, IInv, Fresh, Looping
  <2>2. \A w \in S : Rank(w) \in 1 .. (2 * NGateways + 1)
    <3>1. \A w \in S : Current(w) \in 1 .. NGateways
      BY <1>1, <2>1, CurrentLeast DEF IInv, Gateways
    <3> QED BY <3>1, RegistrationAssumption DEF Rank
  <2>3. \A w \in S : \E v \in S : Rank(w) < Rank(v)
    BY <1>1, <2>1, WaitsClimb
  <2>4. PICK n \in Ranks : \A m \in Ranks : m <= n
    <3>1. Ranks # {} /\ Ranks \subseteq 1 .. (2 * NGateways + 1)
      BY <1>1, <2>2
    <3>2. 2 * NGateways + 1 \in Nat
      BY RegistrationAssumption
    <3> HIDE DEF Ranks
    <3> QED BY <3>1, <3>2, LargestInInterval
  <2>5. PICK w \in S : n = Rank(w)
    BY <2>4
  <2>6. PICK v \in S : Rank(w) < Rank(v)
    BY <2>3
  <2>7. Rank(v) <= Rank(w)
    BY <2>4, <2>5
  <2> QED BY <2>2, <2>6, <2>7
<1>2. IInv => NoDeadlockInLoop
  BY <1>1 DEF NoDeadlockInLoop
<1> QED BY <1>2, Invariance, PTL

=============================================================================
