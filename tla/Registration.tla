---------------------------- MODULE Registration ----------------------------
(***************************************************************************)
(* Device registration: POST /api/peers/ handled by concurrent requests,   *)
(* each one PostgreSQL transaction at READ COMMITTED                       *)
(* (server/provisioning/service.py), next to the admin pages that edit the *)
(* same rows.  One action per database statement.                          *)
(*                                                                         *)
(* What the database does for the code, and the model with it:             *)
(*  - a SELECT sees the rows committed when it runs, never those another   *)
(*    transaction has written but not committed;                           *)
(*  - Device.Meta.ordering joins the user and the gateway, so the FOR      *)
(*    UPDATE of _register_on locks three rows, one after the other: the    *)
(*    device's, its user's and its gateway's;                              *)
(*  - an INSERT that meets an uncommitted row with the same unique key     *)
(*    waits for that transaction;                                          *)
(*  - the foreign keys are checked at COMMIT, in the order of the inserts, *)
(*    the user's before the gateway's, and each check shares the row it    *)
(*    names, hence waits for FOR UPDATE;                                   *)
(*  - a cycle of waits is broken by aborting one of its transactions.      *)
(***************************************************************************)
EXTENDS Naturals, FiniteSets, FiniteSetsExt

CONSTANTS
    Users, Keys, Workers,
    NGateways,      \* gateways 1..NGateways, numbered in name order
    NHosts,         \* usable hosts of every tunnel subnet, 1..NHosts
    NoRow,          \* Python's None where a row or a request is expected
    MaxRequests, MaxRegroups, MaxEdits, MaxDeletes    \* bounds on operations

ASSUME RegistrationAssumption ==
    /\ NGateways \in Nat
    /\ NHosts \in Nat \ {0}
    /\ {MaxRequests, MaxRegroups, MaxEdits, MaxDeletes} \subseteq Nat
    /\ IsFiniteSet(Workers)

Gateways == 1 .. NGateways
Hosts == 1 .. NHosts
GatewayHost == 1

Row == [user : Users, gw : Gateways, key : Keys, addr : Hosts, active : BOOLEAN]

ASSUME NoRowAssumption ==
    NoRow \notin Row \cup [user : Users, key : Keys]
                    \cup [user : Users, key : Keys, gws : SUBSET Gateways]

VARIABLES
    devices,    \* committed rows of core_device
    grants,     \* gateways each user may enter by (Group.services and .members)
    pc,         \* statement each worker runs next
    req,        \* the request a worker serves: user and key
    todo,       \* gateways left in the loop, then foreign keys left at COMMIT
    found,      \* the row a worker read, or is about to insert
    writes,     \* rows a worker wrote and did not commit
    locked,     \* gateways whose rows a worker holds FOR UPDATE
    shared,     \* gateways whose rows a worker holds FOR KEY SHARE
    form,       \* the device row an administrator's page shows
    count       \* operations made so far, against the bounds

txVars == <<pc, req, todo, found, writes, locked, shared>>
vars == <<devices, grants, txVars, form, count>>

Counters == {"requests", "regroups", "edits", "deletes"}

\* The statements of the loop over the user's gateways.
Looping == {"lookup", "user", "gateway", "update", "alloc", "insert"}

TypeOK ==
    /\ devices \subseteq Row
    /\ grants \in [Users -> SUBSET Gateways]
    /\ pc \in [Workers -> {"idle", "check", "list", "share", "commit"} \cup Looping]
    /\ req \in [Workers -> [user : Users, key : Keys] \cup {NoRow}]
    /\ todo \in [Workers -> SUBSET Gateways]
    /\ found \in [Workers -> Row \cup {NoRow}]
    /\ writes \in [Workers -> SUBSET Row]
    /\ locked \in [Workers -> SUBSET Gateways]
    /\ shared \in [Workers -> SUBSET Gateways]
    /\ form \in Row \cup {NoRow}
    /\ count \in [Counters -> Nat]

\* No request is being served and no page is open.
Idle ==
    /\ pc = [w \in Workers |-> "idle"]
    /\ req = [w \in Workers |-> NoRow]
    /\ todo = [w \in Workers |-> {}]
    /\ found = [w \in Workers |-> NoRow]
    /\ writes = [w \in Workers |-> {}]
    /\ locked = [w \in Workers |-> {}]
    /\ shared = [w \in Workers |-> {}]
    /\ form = NoRow

Init ==
    /\ devices = {} /\ grants \in [Users -> SUBSET Gateways]
    /\ Idle
    /\ count = [c \in Counters |-> 0]

Counted(c) == count' = [count EXCEPT ![c] = @ + 1]

-----------------------------------------------------------------------------
(* The rows and who waits for whom.                                        *)

\* Mutant of Clash: no unique_address_per_gateway.
ClashByUser(r, s) == r.gw = s.gw /\ r.user = s.user

\* unique_address_per_gateway and unique_device_per_user_gateway.
Clash(r, s) == r.gw = s.gw /\ (r.addr = s.addr \/ r.user = s.user)

OwnRows(u, g) == {d \in devices : d.user = u /\ d.gw = g}

\* Mutant of Current: an order of the gateways that depends on the user.
CurrentByUser(w) ==
    IF req[w].user = CHOOSE u \in Users : TRUE THEN Min(todo[w]) ELSE Max(todo[w])

\* The loop takes the gateways in name order.
Current(w) == Min(todo[w])

Serves(w, u) == req[w] # NoRow /\ req[w].user = u

\* Gateways where w holds its user's device FOR UPDATE.
DeviceLocks(w) ==
    locked[w] \cup (IF pc[w] \in {"user", "gateway"} THEN {Current(w)} ELSE {})

\* w holds its user's row FOR UPDATE, with the first device it locked.
HoldsUser(w) == pc[w] = "gateway" \/ locked[w] # {}

\* Gateways where w inserted a device: those it found no row to lock on.
Inserted(w) == {r.gw : r \in writes[w]} \ locked[w]

\* w holds its user's row FOR KEY SHARE, after COMMIT's first check.
SharesUser(w) == pc[w] = "commit" /\ Inserted(w) # {}

\* Worker w cannot go on before worker v ends its transaction.
WaitsFor(w, v) ==
    /\ v # w
    /\ \/ /\ pc[w] = "lookup" /\ todo[w] # {}
          /\ OwnRows(req[w].user, Current(w)) # {}
          /\ Current(w) \in DeviceLocks(v) /\ Serves(v, req[w].user)
       \/ /\ pc[w] = "user"
          /\ HoldsUser(v) \/ SharesUser(v)
          /\ Serves(v, req[w].user)
       \/ /\ pc[w] = "gateway"
          /\ Current(w) \in locked[v] \cup shared[v]
       \/ /\ pc[w] = "insert"
          /\ \E r \in writes[v] : Clash(r, found[w])
       \/ /\ pc[w] = "share"
          /\ HoldsUser(v) /\ Serves(v, req[w].user)
       \/ /\ pc[w] = "commit" /\ todo[w] # {}
          /\ Current(w) \in locked[v]

Blocked(w) == \E v \in Workers : WaitsFor(w, v)

Goto(w, label) == pc' = [pc EXCEPT ![w] = label]

\* Mutant of End: the row locks are not released.
EndHoldingLocks(w) ==
    /\ Goto(w, "idle")
    /\ todo' = [todo EXCEPT ![w] = {}]
    /\ found' = [found EXCEPT ![w] = NoRow]
    /\ writes' = [writes EXCEPT ![w] = {}]
    /\ req' = [req EXCEPT ![w] = NoRow]
    /\ UNCHANGED <<locked, shared>>

\* The transaction ends: its locks and its uncommitted rows are gone.
End(w) ==
    /\ Goto(w, "idle")
    /\ todo' = [todo EXCEPT ![w] = {}]
    /\ found' = [found EXCEPT ![w] = NoRow]
    /\ writes' = [writes EXCEPT ![w] = {}]
    /\ locked' = [locked EXCEPT ![w] = {}]
    /\ shared' = [shared EXCEPT ![w] = {}]
    /\ req' = [req EXCEPT ![w] = NoRow]

Abort(w) == End(w) /\ UNCHANGED <<devices, grants, form, count>>

-----------------------------------------------------------------------------
(* The request.                                                            *)

\* register_peer: the bearer token gave the user, the body a public key.
Request(w, u, k) ==
    /\ pc[w] = "idle"
    /\ count["requests"] < MaxRequests
    /\ Counted("requests")
    /\ Goto(w, "check")
    /\ req' = [req EXCEPT ![w] = [user |-> u, key |-> k]]
    /\ UNCHANGED <<devices, grants, todo, found, writes, locked, shared, form>>

KeyTaken(u, k) == \E d \in devices : d.user # u /\ d.key = k

\* register_devices: no other user's device has this key.
CheckKey(w) ==
    /\ pc[w] = "check"
    /\ ~KeyTaken(req[w].user, req[w].key)
    /\ Goto(w, "list")
    /\ UNCHANGED <<devices, grants, req, todo, found, writes, locked, shared,
                   form, count>>

RejectKey(w) ==
    /\ pc[w] = "check"
    /\ KeyTaken(req[w].user, req[w].key)
    /\ Abort(w)

\* gateways_for_user, read once for the whole loop.
ListGateways(w) ==
    /\ pc[w] = "list"
    /\ Goto(w, "lookup")
    /\ todo' = [todo EXCEPT ![w] = grants[req[w].user]]
    /\ UNCHANGED <<devices, grants, req, found, writes, locked, shared,
                   form, count>>

\* Mutant of LookupHit: a plain SELECT that locks nothing.
LookupHitUnlocked(w) ==
    /\ pc[w] = "lookup" /\ todo[w] # {}
    /\ \E d \in OwnRows(req[w].user, Current(w)) :
          found' = [found EXCEPT ![w] = d]
    /\ Goto(w, "update")
    /\ UNCHANGED <<devices, grants, req, todo, writes, locked, shared, form, count>>

\* _register_on: SELECT ... FOR UPDATE finds the device and locks it ...
LookupHit(w) ==
    /\ pc[w] = "lookup" /\ todo[w] # {} /\ ~Blocked(w)
    /\ \E d \in OwnRows(req[w].user, Current(w)) :
          found' = [found EXCEPT ![w] = d]
    /\ Goto(w, "user")
    /\ UNCHANGED <<devices, grants, req, todo, writes, locked, shared, form, count>>

\* ... then the user's row, unless an earlier gateway's SELECT did ...
LockUser(w) ==
    /\ pc[w] = "user" /\ ~Blocked(w)
    /\ Goto(w, "gateway")
    /\ UNCHANGED <<devices, grants, req, todo, found, writes, locked, shared,
                   form, count>>

\* ... then the gateway's row.
LockGateway(w) ==
    /\ pc[w] = "gateway" /\ ~Blocked(w)
    /\ locked' = [locked EXCEPT ![w] = @ \cup {Current(w)}]
    /\ Goto(w, "update")
    /\ UNCHANGED <<devices, grants, req, todo, found, writes, shared, form, count>>

LookupMiss(w) ==
    /\ pc[w] = "lookup" /\ todo[w] # {}
    /\ OwnRows(req[w].user, Current(w)) = {}
    /\ Goto(w, "alloc")
    /\ UNCHANGED <<devices, grants, req, todo, found, writes, locked, shared,
                   form, count>>

\* The loop over the gateways goes on, having written the rows rs.
NextGateway(w, rs) ==
    /\ Goto(w, "lookup")
    /\ writes' = [writes EXCEPT ![w] = @ \cup rs]
    /\ todo' = [todo EXCEPT ![w] = @ \ {Current(w)}]
    /\ found' = [found EXCEPT ![w] = NoRow]
    /\ UNCHANGED <<devices, grants, req, locked, shared, form, count>>

\* Mutant of Registered: a registered device gets another address.
Readdressed(d, k) ==
    [d EXCEPT !.key = k, !.active = TRUE, !.addr = Min(Hosts \ {GatewayHost, d.addr})]

Registered(d, k) == [d EXCEPT !.key = k, !.active = TRUE]

\* _register_on, existing device: save() runs only when a field changed.
UpdateDevice(w) ==
    /\ pc[w] = "update"
    /\ NextGateway(w, {Registered(found[w], req[w].key)} \ {found[w]})

UsedHosts(g) == {d.addr : d \in {e \in devices : e.gw = g}}

\* Mutant of FreeHosts: the network's own address is offered too.
FreeHostsFromZero(g) == (0 .. NHosts) \ (UsedHosts(g) \cup {GatewayHost})

FreeHosts(g) == Hosts \ (UsedHosts(g) \cup {GatewayHost})

\* allocate_address: the first free host among the committed rows.
Allocate(w) ==
    /\ pc[w] = "alloc"
    /\ FreeHosts(Current(w)) # {}
    /\ Goto(w, "insert")
    /\ found' = [found EXCEPT ![w] =
          [user |-> req[w].user, gw |-> Current(w), key |-> req[w].key,
           addr |-> Min(FreeHosts(Current(w))), active |-> TRUE]]
    /\ UNCHANGED <<devices, grants, req, todo, writes, locked, shared,
                   form, count>>

Exhausted(w) ==
    /\ pc[w] = "alloc"
    /\ FreeHosts(Current(w)) = {}
    /\ Abort(w)

Duplicate(w) == \E d \in devices : Clash(d, found[w])

\* Device.objects.create; an IntegrityError rolls the whole loop back.
InsertDevice(w) ==
    /\ pc[w] = "insert" /\ ~Blocked(w)
    /\ ~Duplicate(w)
    /\ NextGateway(w, {found[w]})

\* Mutant of InsertFails: the conflict is skipped, not raised.
InsertSkipped(w) ==
    /\ pc[w] = "insert" /\ ~Blocked(w)
    /\ Duplicate(w)
    /\ NextGateway(w, {})

InsertFails(w) ==
    /\ pc[w] = "insert" /\ ~Blocked(w)
    /\ Duplicate(w)
    /\ Abort(w)

\* COMMIT, with the foreign keys of the rows inserted left to check.
EndLoop(w) ==
    /\ pc[w] = "lookup" /\ todo[w] = {}
    /\ Goto(w, IF Inserted(w) = {} THEN "commit" ELSE "share")
    /\ todo' = [todo EXCEPT ![w] = Inserted(w)]
    /\ UNCHANGED <<devices, grants, req, found, writes, locked, shared,
                   form, count>>

\* The deferred check of the user, the same for every row inserted.
CheckUser(w) ==
    /\ pc[w] = "share" /\ ~Blocked(w)
    /\ Goto(w, "commit")
    /\ UNCHANGED <<devices, grants, req, todo, found, writes, locked, shared,
                   form, count>>

\* The deferred checks of the gateways.
CheckForeignKey(w) ==
    /\ pc[w] = "commit" /\ todo[w] # {} /\ ~Blocked(w)
    /\ shared' = [shared EXCEPT ![w] = @ \cup {Current(w)}]
    /\ todo' = [todo EXCEPT ![w] = @ \ {Current(w)}]
    /\ UNCHANGED <<devices, grants, pc, req, found, writes, locked,
                   form, count>>

\* The committed rows once w's writes replaced the rows they update.
Upsert(w) ==
    {d \in devices : \A r \in writes[w] : ~(r.user = d.user /\ r.gw = d.gw)}
        \cup writes[w]

\* 200 with the devices; 403 when the user had no gateway to loop over.
Commit(w) ==
    /\ pc[w] = "commit" /\ todo[w] = {}
    /\ devices' = Upsert(w)
    /\ End(w)
    /\ UNCHANGED <<grants, form, count>>

\* PostgreSQL aborts a transaction of a cycle of waits.
BreakDeadlock(w) ==
    /\ \E S \in SUBSET Workers :
          /\ w \in S
          /\ \A x \in S : /\ \E y \in S : WaitsFor(x, y)
                          /\ \E y \in S : WaitsFor(y, x)
    /\ Abort(w)

\* The server process dies: the database rolls its transaction back.
Crash(w) == pc[w] # "idle" /\ Abort(w)

-----------------------------------------------------------------------------
(* The administrators, and CAS logins that resync groups.                  *)

\* sync_membership or the group page: the user's entry gateways change.
Regroup(u, gs) ==
    /\ count["regroups"] < MaxRegroups /\ Counted("regroups")
    /\ grants' = [grants EXCEPT ![u] = gs]
    /\ UNCHANGED <<devices, txVars, form>>

\* Mutant of RowLocked: the device's lock comes with its gateway's, not first.
RowLockedLate(d) == \E w \in Workers : d.gw \in locked[w] /\ Serves(w, d.user)

RowLocked(d) == \E w \in Workers : d.gw \in DeviceLocks(w) /\ Serves(w, d.user)

UserLocked(u) == \E w \in Workers : HoldsUser(w) /\ Serves(w, u)

GatewayLocked(g) == \E w \in Workers : g \in locked[w]

\* The device page is opened: it shows every field of the row.
OpenForm(d) ==
    /\ form = NoRow
    /\ count["edits"] < MaxEdits /\ Counted("edits")
    /\ form' = d
    /\ UNCHANGED <<devices, grants, txVars>>

\* A page's row replaces the rows old; the unique constraints hold against
\* committed rows, and uncommitted ones are waited for.
Saved(old, row) ==
    /\ \A d \in devices \ old : ~Clash(row, d)
    /\ \A w \in Workers : \A r \in writes[w] : ~Clash(row, r)
    /\ devices' = (devices \ old) \cup {row}

\* The page is saved: whatever fields the administrator changed, every field
\* is written, and a foreign key that changed shares the row it names.
SaveForm(row) ==
    /\ form # NoRow /\ ~RowLocked(form)
    /\ row.user # form.user => ~UserLocked(row.user)
    /\ row.gw # form.gw => ~GatewayLocked(row.gw)
    /\ Saved(OwnRows(form.user, form.gw), row)
    /\ form' = NoRow
    /\ UNCHANGED <<grants, txVars, count>>

\* A device is added by its page.
AddDevice(row) ==
    /\ count["edits"] < MaxEdits /\ Counted("edits")
    /\ ~UserLocked(row.user) /\ ~GatewayLocked(row.gw)
    /\ Saved({}, row)
    /\ UNCHANGED <<grants, txVars, form>>

\* A device is deleted; a page that shows it can no longer be saved.
DeleteDevice(d) ==
    /\ count["deletes"] < MaxDeletes /\ Counted("deletes")
    /\ ~RowLocked(d)
    /\ devices' = devices \ {d}
    /\ form' = IF form # NoRow /\ form.user = d.user /\ form.gw = d.gw
               THEN NoRow ELSE form
    /\ UNCHANGED <<grants, txVars>>

-----------------------------------------------------------------------------
Serve(w) ==
    \/ CheckKey(w) \/ RejectKey(w) \/ ListGateways(w)
    \/ LookupHit(w) \/ LockUser(w) \/ LockGateway(w)
    \/ LookupMiss(w) \/ UpdateDevice(w)
    \/ Allocate(w) \/ Exhausted(w) \/ InsertDevice(w) \/ InsertFails(w)
    \/ EndLoop(w) \/ CheckUser(w) \/ CheckForeignKey(w) \/ Commit(w)
    \/ BreakDeadlock(w)

Admin ==
    \/ \E u \in Users, gs \in SUBSET Gateways : Regroup(u, gs)
    \/ \E d \in devices : OpenForm(d) \/ DeleteDevice(d)
    \/ \E row \in Row : SaveForm(row) \/ AddDevice(row)

Next ==
    \/ \E w \in Workers :
          Serve(w) \/ Crash(w) \/ \E u \in Users, k \in Keys : Request(w, u, k)
    \/ Admin

Spec == Init /\ [][Next]_vars

\* A server process that is not stopped runs its next statement.
Fairness == \A w \in Workers : WF_vars(Serve(w))
FairSpec == Spec /\ Fairness

-----------------------------------------------------------------------------
(* What must hold.                                                         *)

\* No two devices of a gateway share an address or a user, although
\* allocate_address reads before it inserts; and until an administrator types
\* an address, none has the gateway's own.
UniqueAddresses ==
    \A d, e \in devices :
        /\ count["edits"] = 0 => d.addr # GatewayHost
        /\ (d.gw = e.gw /\ (d.addr = e.addr \/ d.user = e.user)) => d = e

\* "One keypair is reused across gateways": while nobody else touched the
\* rows, a user's devices all carry the same key, whichever of the user's
\* concurrent registrations was served last.
OneKeypair ==
    (count["edits"] = 0 /\ count["regroups"] = 0) =>
        \A d, e \in devices : d.user = e.user => d.key = e.key

\* register_devices is atomic: while nobody else touched the rows, a user has
\* a device on each of the gateways the user may enter by, or on none.
AllOrNothing ==
    (count["edits"] = 0 /\ count["deletes"] = 0 /\ count["regroups"] = 0) =>
        \A u \in Users : {d.gw : d \in {e \in devices : e.user = u}}
                            \in {{}, grants[u]}

\* "A public key may belong to only one user" (register_devices).
KeyOwnership == \A d, e \in devices : d.key = e.key => d.user = e.user

\* Gateways of w's request: passed with a lock or with a write, or still ahead.
Asked(w) == todo[w] \cup locked[w] \cup {r.gw : r \in writes[w]}

\* The loop takes the gateways in name order, so requests still in the loop
\* never wait in a circle, over devices, users and gateways together, unless a
\* regrouping gave two requests of one user different gateways; otherwise only
\* COMMIT's foreign-key checks can close one.
NoDeadlockInLoop ==
    \A S \in SUBSET {w \in Workers : pc[w] \in Looping} :
        /\ S # {}
        /\ \A v, w \in S : Serves(v, req[w].user) => Asked(v) = Asked(w)
        => \E w \in S : \A v \in S : ~WaitsFor(w, v)

\* Addresses are stable: whatever registers, rotates a key or edits, a user's
\* device on a gateway keeps its address, but for the device whose own page
\* this step saves.
AddressStable ==
    [][\A d \in devices, e \in devices' :
          (d.user = e.user /\ d.gw = e.gw) =>
              \/ d.addr = e.addr
              \/ /\ form # NoRow /\ form' = NoRow
                 /\ form.user = d.user /\ form.gw = d.gw]_vars

\* Every request is answered, deadlocks and lock waits included.
RequestAnswered == \A w \in Workers : (pc[w] # "idle") ~> (pc[w] = "idle")

-----------------------------------------------------------------------------
(* The registrations implement Registry.                                   *)

\* A request counts as asked once its gateways were listed.
Open(w) ==
    IF pc[w] \in Looping \cup {"share", "commit"}
    THEN [user |-> req[w].user, key |-> req[w].key, gws |-> Asked(w)]
    ELSE NoRow

Atomic == INSTANCE Registry WITH open <- [w \in Workers |-> Open(w)]

\* Statement by statement, with all that overlaps, fails or is aborted, the
\* registrations do what atomic ones would do (transaction.atomic).
ImplementsRegistry == Atomic!Spec
=============================================================================
