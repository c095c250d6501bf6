# WDG in TLA+

WDG (WireGuard Distributed Gateways) is a VPN: a Django control plane signs
users in through CAS, registers their devices and computes who may reach what;
gateway agents poll it and program WireGuard, routes and iptables; clients fetch
a plan of tunnels and bring them up with failover. This directory holds TLA+
modules of its core logic, TLC configurations that check them, and proofs that
TLAPS checks. Paths below are relative to the repository.

## 1. Inventory

| Component | State | Operations | Hard behaviour |
|---|---|---|---|
| Registration (`server/provisioning/service.py`, `POST /api/peers/`) | rows of `core_device` | `register_devices`, `_register_on`, `allocate_address` | concurrent transactions, check-then-insert, row locks, rollback, the admin pages on the same rows |
| Address plan (`Gateway.clean` in `server/core/models.py`) | each gateway's `tunnel_subnet` | the gateway's admin page, deletion | checked and saved in two steps; devices keep the addresses of a subnet that has gone |
| Resolver (`server/core/resolve.py`) | none; reads services, gateways, relay links, networks, groups, devices | `plan_for_user`, `networks_via_gateway`, `relay_peers_for_gateway`, `forward_rules_for_gateway`, `masq_subnets_for_gateway` | separate graph walks that must agree |
| Sync endpoint (`server/provisioning/views.py`) | the gateway's reported public key | `gateway_sync` | several queries without a transaction; gateways see different versions of the tables; requests nobody waits for are served all the same |
| Gateway agent (`gateway/agent.py`) | key file, process memory (`_current_plane`, `configured`, `_egress_rules`, `_relay_routes`) and kernel state that outlives it | `load_or_create_keypair`, `sync`, `ensure_*`, `reconcile` and its parts | one command after another, each may fail; crash and restart in between; failover between planes; packets meanwhile |
| Overlay (all gateways together) | kernel state of each gateway | forwarding of packets along relays | unequal ages of that state; two ways to one network |
| Client operations (`wg_client/ops.py`, `plan.py`, `tunnel.py`, `config.py`) | interfaces, `tunnels.json` | `connect`, `disconnect`, reconnect, `identity`, `status` | failover, rollback, interrupts, kills, commands and files that fail, two frontends at once |
| GUI and tray (`wg_client/gui.py`) | worker thread, buttons, queued signals, warnings, status table | `run_op`, `_op_done`, `_op_failed`, `refresh_status`, `quit` | queued signals against the worker's thread, nested event loops, the CLI next to it |
| Sign-in (`server/casauth`, `server/core/sync.py`, `wg_client/auth.py`) | session and tabs of a browser, one-time codes, groups, membership, home site, the keyring's token | `cas_login`, `cas_callback`, `cas_exchange`, `sync_membership`, `sync_site`, `login`, `get_token`, `logout` | racing exchanges and callbacks, workers that die, expiry, replayed codes, stray requests, edits by hand next to what CAS releases |
| Not protocol: pqtls, keygen, i18n, topology export, seeds, migrations, packaging, development stack | | | |

Interaction: the client calls sign-in, then registration, then the plan; the
administrators and the CAS callbacks edit the tables; agents pull the tables'
consequences every `POLL_INTERVAL`; packets meet whatever the agents last
programmed. Nothing is pushed: every staleness lasts until a poll or a
`reconnect`.

What makes each part correct, in words: addresses are unique and stable, subnets
disjoint, and a key has one owner; registrations take effect as if one at a time;
plan, rules, relay peers and masquerades describe one and the same reachability;
a gateway keeps one key, and control plane, agent and interface agree on it; the
kernel ends up doing what the last answer says and never more; no hop forwards
what it knows to be ungranted; the client uses the first instance that answers
and forgets no interface, and its window shows what is there; a code gives one
token at most, and no call is accepted later than the lifetimes allow.

## 2. Modules

| Module | Models | Uses |
|---|---|---|
| `Registration` | concurrent registrations, one database statement per action, the admin device page, group changes | refines `Registry` |
| `Registry` | what registration promises: atomic registrations | |
| `Subnets` | the gateways' subnets under concurrent admin pages, and the addresses devices get | |
| `Resolver` | tables, the resolver's functions as operators, the administrators' edits | |
| `Overlay` | gateways that synchronise, and a packet's way | extends `Resolver` |
| `AgentSync` | an agent's start, key file, interface and failover between planes; the token check and key report of `gateway_sync` | |
| `GatewayAgent` | what one agent does with an answer, one command per action, with crashes, failures and packets | |
| `ClientConnect` | connect, reconnect, disconnect and identity of several frontends | |
| `Desktop` | the GUI around its worker, next to the CLI | extends `ClientConnect` |
| `Login` | login, callback, exchange, tokens and the API's check of them | |
| `MC...` | instances for TLC: model values, tables, answers and plans, symmetry | the module named |
| `..._proofs` | theorems about the module named, proved with TLAPS (section 4) | the module named |
| `Atomicity_proofs` | `Registration` implements `Registry` | `Registration_proofs` |
| `Overlay_proofs` | theorems about `Resolver` and `Overlay` | `Overlay` |
| `Desktop_proofs` | theorems about `ClientConnect` and `Desktop` | `Desktop` |

Some definitions are preceded by a *mutant*: the same definition with a
plausible mistake. Nothing uses it; substituting it for the definition it stands
before must make the property it is listed with fail, which shows that the
property depends on that code.

### Registration

A worker serves one request in one transaction. Its `pc` names the next
statement: `check` (the key's owner), `list` (`gateways_for_user`), then per
gateway `lookup` (`SELECT ... FOR UPDATE`), `update` or `alloc` and `insert`, and
at the end `share` and `commit`. Rows a worker wrote stay in `writes[w]` until
`Commit`; other workers do not see them, but an insert with the same unique key
waits (`WaitsFor`). Because `Device.Meta.ordering` names columns of the user and
the gateway, the `FOR UPDATE` query joins their tables and locks their rows too,
after the device's: `LookupHit`, `LockUser` and `LockGateway` are its three locks
in turn, each of which may wait. Django's foreign keys are `DEFERRABLE INITIALLY
DEFERRED`, so their checks run at COMMIT and share-lock the user's row
(`CheckUser`) and then the gateways' (`CheckForeignKey`).
Runs start from an empty table or from two tables that a few earlier
requests leave (`MCRegistration`); `Idle` is what they have in common.
`BreakDeadlock` is PostgreSQL's deadlock detection, `Crash` the loss of a
process. `OpenForm`/`SaveForm` is a Django admin page: none of its fields is
read-only, so it writes any row, old fields of the page it showed included;
`AddDevice` is the empty page. What a page writes is checked against the
constraints when it is saved (`Saved`), against uncommitted rows too. An address
typed by hand is one of the subnet's hosts here, `GatewayHost` standing for any
that the allocator does not offer. Preshared keys are left out: they are random
and never compared; so are deletions of users and gateways.

`Registry` is its abstraction: a request is asked (`Ask`, with the gateways the
user may enter by at that moment), and then takes effect on all of them at once
or not at all; a page (`Administer`) may write any row that the constraints admit.
`ImplementsRegistry` instantiates it with the committed rows and
with `open <- Open(w)`, the request a worker has listed gateways for: its
gateways are those passed (locked or written) and those ahead. `Commit` is
`Register`; a conflict, a full subnet, a deadlock's victim or a lost process is
`Refuse`; the statements in between are stutters. The key's check is no part of
the promise, since it is not kept (see the findings).

### Subnets

A gateway's page is a `Check` (`Gateway.clean`) and a later `Save`, by
administrators who do not see each other. CIDRs are intervals of numbers and a
text denotes one, so that nested subnets, and two texts for one subnet, occur.
`Register` is the address part of a first registration: the least free host that
is not the gateway's own. `under` remembers the subnet an address was taken
from, `raced` whether a page was saved while another one was between its two
steps; both only serve the properties.

### Resolver and Overlay

Tables are variables, each edit of one row an action. Gateways and services are
numbers in name order, since name order decides ties. `Branches` is the
breadth-first walk, the path to each gateway it finds, written as a recursive
function because the walk's order decides which of two paths a rule follows;
`Bfs` is the set of those paths' ends. `Reachable`,
`Cidrs`, `Claims`, `Tunnels` are the client's side, `Configured` and `LegacyNets`
that of clients that still ask for one gateway's configuration; `AllowedIPs`,
`MasqSubnets`, `ForwardRules` the gateways'. An address is the pair of user and
gateway, because `Registration` shows addresses unique and `Gateway.clean` keeps
subnets disjoint; a network's CIDR is the network itself.

`Overlay` gives each gateway the kernel state its last `Sync` programmed.
`LastOf` says which peer owns a CIDR two peers claim: the last one programmed.
`Way` follows a packet from its entry: at each hop WireGuard must accept its
source from the peer it came from and the chain must hold its rule, and a route
into the tunnel is preferred to the leg. A deactivated gateway's token is
refused, so it keeps its state: `Sync` requires an active gateway. A route to the
tunnel replaces the host's own route to the same CIDR, of a leg or of the tunnel
subnet, and its removal does not bring that one back: `overwritten` keeps which
ones a host lost (`Overwrites`), and a packet that needs one is not `Delivered`, or
its reply not `Answered`. The agent never restores such a route, and neither a
restart of the host nor its reconfiguration by hand is modelled. Links are a
sequence: their order, which the code leaves to the database, is one that all
answers share (see the known limits).

### AgentSync

`pc` is the agent's next command, file operation or request. The key file is
created and then written (`OpenKeyFile`, `WriteKeyFile`); the interface goes
through `added`, `keyed`, `addressed` and `up`, and one that exists gets the key
and nothing else (`SetupInterface`). A request is served in two statements, the
token's row (`CheckToken`) and the key report (`SaveKey`), while the agent waits;
a request it gives up on, or dies over, moves to `late` and may still be served
(`ServeLate`). The planes share one database, as the two-plane deployment's do.
`health` says what a plane does with a request now: serves it, fails (no
connection, time-out, 5xx) or answers 200 with no JSON. `OpenPage`/`SavePage` is
the gateway's admin page, which writes back the key it showed. `told` (the keys
the row has had) and `steady` (planes up since the cycle began) are history. Keys
are interchangeable, so `GenerateKey` takes any unused one.

### GatewayAgent

`pc` is the next command of `main` and `reconcile`; `pending` what is left of
the loop it is in. `Stops` is an uncaught `CalledProcessError`. The kernel's
variables survive `Crash` and `Restart`, the memory does not. A client peer has an
address (`Clients`), a relay networks (`Nets`), and the two never meet, since
tunnel addresses are given from subnets of their own. Commands whose
errors the code catches are skipped (`ApplyPeer`), those it does not are fatal
(`AddRoute`, `AppendRule`). `Malformed` keys, addresses or networks are what the
commands refuse; `Network.cidr` is unvalidated text, so any answer may have some
(`BadNetwork`). `listed` (whether this cycle's `wg show` worked) and `inherited`
(routes of earlier processes) are history. A packet that is accepted becomes a flow conntrack knows, and flows are
never forgotten, which is the case that can hurt. The agent of a deactivated or
unreachable plane is `SyncFails`. `gateway_sync` reads table after table without a
transaction: `SyncOverEdit` answers with the peers of one version and the rest of
the next, or with the peers and relays of one and the rules and masquerades of
the next. The interface's key and address are `AgentSync`'s.

### ClientConnect and Desktop

A plan is a sequence of tunnels, a tunnel a sequence of instances. `alive` are
the gateways that would answer a handshake; it may change at any moment.
`failed` is a history variable: the gateways that, in their turn, did not answer
or had a command or file of this machine fail under them; `lost` another: interfaces
that an interrupt, a kill or a local failure left unrecorded. Local failures
(`faults`) may meet any command and file, whatever the gateway: `UpFails` (which
also covers an interface that exists and a name that does not resolve), `Down`
(whose every caller swallows the failure), `WaitFails` (`wg show` cannot be run, an
exception that `wait_handshake` does not expect) and `FileFails` (the record file
cannot be read, removed, opened or written). `Interrupt` is
Ctrl-C during `connect_plan`, `Kill` the end of the process anywhere.
`tunnels.json` is truncated and then written (`OpenRecords`, `SaveRecords`), and a
torn file is an error to `load_tunnels`. Everything before the plan (PQ check,
keyring, sign-in, registration) is one step that succeeds or fails (`FetchPlan`),
since no tunnel exists yet; sign-in and registration have modules of their own.
`ReportsHandshakes` is false on Windows.

`Desktop` makes one frontend the GUI's worker. `thread` is "ending" from the
moment `run` has emitted its outcome until `isRunning` turns false, `signals` the
outcomes queued to the UI thread, `dialogs` the warnings on screen: each runs an
event loop of its own, so the timer and further signals are handled under it.
The tray's entries are not disabled with the buttons: `RunOp` asks only that no
thread runs. `Quit` kills a running worker; `Launch` starts the application
again.

### Login

The clock may start anywhere (`Init`). Callback and exchange run on workers, one
statement per action. A browser may
have several CAS pages open (`tabs`), while its session remembers one redirect,
which the first callback takes (`Bounce` is the next one, or one whose ticket CAS
refuses). CAS releases names: `GroupOf` is the group whose `cas_names` declares a
name, or whose name it is, several names to one group allowed; `SiteOf` is the same
for sites, and None where no site matches. `resolve_group` looks and then creates, so two callbacks can collide (`CreateGroup`), and
`wdg_groups.set` reads and then writes the difference (`ReadMembership`,
`ReplaceMembership`). The row lock of `select_for_update` is the guard of
`SelectCode`; `DeleteCode` is the delete and the commit. Codes stay in `issued`
for ever, because a browser's history keeps them, and `Present` may replay any of
them. `StrayRequest` is a request without a code on the client's loopback port.
An exchange reads the code's age (`CheckAge`), then the account (`CheckAccount`),
then mints (`MintToken`), and time and the account may change in between.
`SaveGroup` and `SaveProfile` are the administrator's pages, `Die` a worker that is
killed between two statements: at the latest at gunicorn's timeout, `RequestAge`
(30 seconds, since `server/Dockerfile:22` gives none), so that no request is older.
`mirrored` and `mingled` are history variables. `mirrored[u]` is what u was given
last, by a callback that has ended or died or by an administrator: groups and site
separately, since a callback without groups (or without a site that exists) leaves
them alone, and one that died may have written the groups only. `mingled[u]` is
"yes" once callbacks of u, or one and an edit of u, overlap, "sole" while one
callback runs alone after that, and "no" again when that one has replaced both. Tokens are values,
as in the code: the server stores none; `Valid` is its check. Deleting or renaming
groups and sites and editing their CAS names are not modelled.

## 3. Runs

Times are with two TLC workers.

| Run | Instance | Shows | Time |
|---|---|---|---|
| `registration` | 2 users, 2 keys, 2 workers, 2 gateways with 2 hosts to give away each, 2 requests, 1 deletion, 1 regrouping or, where every user has both gateways (`EditsApart`), 1 admin page that adds a device or changes any field of one; from an empty table, from a user registered everywhere, and from two users on one gateway each who were then granted both | `UniqueAddresses`, `OneKeypair`, `AllOrNothing`, `AddressStable`, `ImplementsRegistry` | 2 minutes |
| `registration_answered` | 3 gateways; two users who registered on one gateway each, or both on the first and last, and were then granted all; 2 requests, 1 regrouping, fair statements | `NoDeadlockInLoop`, `RequestAnswered`: row locks, inserts and COMMIT's checks do wait in a circle there | 1 minute |
| `subnets` | 2 gateways, 2 administrators, 2 users; two halves of a network (one typed in two ways), the network, and a text that is no CIDR; 4 pages, 4 devices, 1 deletion | `SubnetsDisjoint`, `AddressesUnambiguous` | seconds |
| `agent_sync` | 2 planes, 3 keys, 2 subnets; a new host or one with a foreign interface; 1 crash, 1 loss of the state directory, 2 changes of planes, 1 admin page | `KeyKept`, `HealthyPlaneKept`, `FailsOnlyWithoutPlane`, `KeysAgree` | 2 minutes |
| `agent` | answers in which a key, an address and a network move, one with a malformed client key, one with a malformed network; 2 changes (a torn answer counts as both), 1 failing sync or listing, 1 crash, FORWARD policy ACCEPT | `NothingBeyondAnswer`, `RoutesMatch`, `MalformedPeerTolerated`, `Converges` | 3 minutes |
| `resolver` | 3 gateways: every set and order of 4 links that may close a cycle, and pools of instances with a default route (`TrianglesAndPools`), every placement of the legs, 2 edits | `PlanPartitions`, `PlanEnforcedAtEntry`, `PathIsWired` | seconds |
| `overlay` | 3 gateways in a chain, in a star, or two of them with a relay path over a leg, 1 edit, syncs at any time, fair polling | `OneFreshHopEnforces`, `Settles` | 1 to 2 minutes |
| `client` | GUI and CLI; 2 plans of different lengths, an instance without credentials; from nothing and from connected states; 2 operations, 2 of: gateway failures or recoveries, local failures, interrupts, kills, connects over live tunnels, quits, or one overlap of operations | `SkipsOnlyFailed`, `ConnectedAreUp`, `NothingForgotten`, `OperationEnds`, `ButtonsReturn`, `StatusCatchesUp` | 2 to 3 minutes |
| `login` | 1 user, 2 workers, 2 logins, 3 names of 2 groups, a site and a value of no site; 1 of: a replayed code, a stray request, a worker's death, a change of account or attributes, an edit; 4 units of time, lifetimes of 1, and the same attributes released while the clock runs (`TimeOrAttributes`), or any from the beginning and no time | `CodeSpentOnce`, `SessionBounded`, `AttributesMirrored` | 1 to 2 minutes |

Each run checks its module's type invariant too, `registration_answered` excepted.
`Registry` has none of its own: the refinement maps it to typed
variables.

Why the bounds are enough. Two workers and two gateways are the least with which
a circle of waits, a lost update and a partial loop can happen, two hosts the
least at which a second allocation finds the first free host taken and a third
device none. The tables to start from stand for the requests before, so that two
more overlap with rows already there. A third gateway lets two requests wait on
each other inside the loop, on one gateway's row and one insert, or for one user's
row. One admin page is saved before, between or after two requests; `EditsApart` leaves
out the product of pages and regroupings, which is too large. Two gateways and three subnets of which one
holds the others are the least with which subnets can nest, coincide and be
reused; four pages create both gateways and move one back and forth. Two planes
are the least with a failover and an abandoned request that is served late; one
crash may fall between any two commands, and one loss of the state directory
makes a second key. Three gateways are the least with a chain, a star, a cycle
and a shortcut; for `overlay` one edit suffices, because what matters is which
gateways have synchronised before and after it; one of the tables it starts from has
a relay path over a gateway's own leg, so that the edit may take the path away. Two changes of the answer let an
address move to another key and back while the agent is between commands. For
the client an index and its successor already show what carries over from one
tunnel to the next; the states `client` starts from are those earlier connects
leave, so that two operations are a connect or reconnect and what follows it, or
two at once, and two local failures make, for one, a down fail under the instance
that comes next. For the login two callbacks or two exchanges can overlap, and four
units of time let a code, a request and then a token grow old, each at its limit.
Where any attributes are released the clock stands still: no group or site depends
on it, and the workers may die at any moment all the same. `registration`, `subnets` and
`login` use symmetry: workers, users, keys, administrators and gateways of `Subnets`
are interchangeable; none of these runs checks liveness.

Deadlock checking is off where the bounds on operations make the system stop
(registration, subnets, resolver, client, login). The agent and the overlay never
stop in their runs.

### Where the code and its documents disagree

Each of these runs checks one property and TLC finds it violated.

| Run | What TLC's trace shows | Statement it contradicts |
|---|---|---|
| `registration_key_race` | two users register one key at once and both get it | docstring of `register_devices` (`server/provisioning/service.py:69`) |
| `agent_revoked` | a connection opened before its network was withdrawn is forwarded after the next poll | `docs/PARCOURS-UTILISATEUR.md:196-199` |
| `client_windows` | a healthy instance is given up because no handshake is ever reported | docstring of `connect_plan` (`wg_client/plan.py:76-77`) |

### Known limits

The models contain these behaviours too, and the properties are worded around
them. None is a surprise to a reader of the code, but a reader of the properties
should know what they leave out.

Registration and addresses

- A device that an administrator deactivated is active again after the user's
  next connect (`service.py:52`): `Registry!Register` says so.
- An administrator's page may give a device any free address, the gateway's own and
  those outside the subnet included, or another user's key (`admin.py:52`):
  `UniqueAddresses` forbids the gateway's own only before an edit, `OneKeypair` and
  `AllOrNothing` speak of tables no page has touched, and `AddressesUnambiguous` of
  addresses the allocator gave.
- Two requests of one user whose gateways changed in between (`resolve.py:39`) can
  wait for each other inside the loop, one holding the user's row and waiting for an
  insert of the other's: `NoDeadlockInLoop` excepts them, and PostgreSQL aborts one.
- Two pages of different administrators that overlap can give two gateways
  overlapping subnets (`models.py:109`): `SubnetsDisjoint` excepts them.
- A gateway that is moved to another subnet keeps its devices' old addresses
  (`models.py:79-81`): `AddressesUnambiguous` excepts devices that are `Stale`.

Gateways

- A key file cut short by a crash stops the agent at every start
  (`agent.py:60-62`), a plane that answers 200 with something else than JSON is
  kept (`agent.py:285`), and an interface created by an agent that died before
  raising it stays down (`agent.py:91`): `KeysAgree` and `Converges` except them.
- Nothing in the repository restarts an agent: the liveness properties except one
  that stays down.
- Between the flush of the chain and its final DROP the FORWARD policy decides
  (`agent.py:158`), and peers are programmed before the firewall, so that a reused
  address briefly meets the previous holder's rules: `NothingBeyondAnswer` holds
  between cycles.
- A torn answer (`views.py:188`) may give one client's key another's rules until
  the next poll: `NothingBeyondAnswer` speaks of the answer the agent got,
  `Converges` of what the tables say.
- Established connections of a key that stays survive a withdrawal
  (`agent.py:159`): the finding `agent_revoked`.
- When `wg show` fails (`agent.py:170`) the cycle removes no peers: until the next one
  a revoked key keeps its open connections, and what the answer accepts from its
  address. `NothingBeyondAnswer` says this of cycles that are not `listed`.
- A network the commands refuse ends the agent (`agent.py:162`, `agent.py:215`), at
  every restart again, although `agent.py:228` says a malformed peer must not, and
  `Network.cidr` is not validated (`models.py:167`): `MalformedPeerTolerated` and
  `Converges` name the case (`BadNetwork`), and it happens in the run `agent`.
- Routes programmed before a crash or a stop are not known after it (`agent.py:204`) and
  stay when the answer no longer has them: `RoutesMatch` excepts what is `inherited`.
- A route to the tunnel that a sync removes does not bring back the host's own route
  that it replaced (`agent.py:215-217`): a network at a gateway's own leg, or the
  gateway's own clients, are out of reach from then on. `Settles` excepts the promised
  flows that are `Stranded` by it, and no others.
- Relay links have no ordering of their own (`models.py:136`), while the walks'
  breadth-first order, and so which of two equally long paths carries the rules,
  follows the order the database returns them in. `Resolver` takes one order for all
  answers; answers that each see another order may put a flow's rules on different
  paths.
- A network behind two peers is routed to the one programmed last
  (`resolve.py:245`), whose path need not be the one that has the rules, although
  `docs/DESIGN-MULTITUNNEL.md:19-21` calls relays chainable and the whole a graph:
  `Settles` asks for promised flows of `Unambiguous` topologies.
- A tunnel claims what any instance of its service reaches (`resolve.py:156`):
  connected to another instance, a network may be unreachable although a second
  service would reach it. `PlanPartitions` speaks of services, and
  `PlanEnforcedAtEntry` of each instance alone.
- Two granted default-route services both claim 0.0.0.0/0 (`resolve.py:165`):
  `PlanPartitions` speaks of the others.

Client and sign-in

- connect over interfaces that are up takes them for dead instances and tears them
  down (`plan.py:95`), and a plan that shrank replaces the records of tunnels still
  up: `SkipsOnlyFailed` and `NothingForgotten` ask for no `repeats`.
- Any local failure of `up` counts as a dead instance (`plan.py:95`), so a healthy one
  may be skipped for it: `SkipsOnlyFailed` says that nothing else makes connect do so.
- A `down` that fails is not noticed (`plan.py:34`, `plan.py:123`, `plan.py:137`), and
  disconnect clears the records all the same (`ops.py:130`); a record file that cannot
  be written leaves the tunnels of connect up (`ops.py:118`); `wg show` that cannot be
  run leaves the one waited for (`tunnel.py:179`). An interrupt forgets the interface
  being tried (`plan.py:120`), a kill the tunnels not recorded yet; a file torn by a
  kill or a failed write (`config.py:56`) makes status and disconnect fail until the
  next connect. `NothingForgotten` counts exactly these as `lost`.
- Two frontends at once overwrite each other's interfaces and records: only
  `OperationEnds`, `ButtonsReturn` and `StatusCatchesUp` hold of overlapping
  operations.
- Two callbacks that overlap may leave the union of both memberships (`sync.py:46`),
  although the docstring at `sync.py:35-36` says "exactly those groups", and an edit
  during a callback may be undone in part: `AttributesMirrored` excepts users whose
  changes `mingled`, until a callback that replaces both groups and site has run alone.
- A user deactivated while an exchange runs may still get a token (`casauth/views.py:123`);
  every call checks the account again, as `Valid` does.
- A session at CAS may be much older than the code it gives: `SessionBounded` counts
  from the code's issue.
- The client sends a stored token whatever its age and keeps it when it is
  refused (`auth.py:107`): connect fails until `login --force` or a logout.

### Fairness

`Registration`: a server process that is not stopped runs its next statement;
deadlocks are resolved by PostgreSQL, so `BreakDeadlock` is among the steps.
`AgentSync`: a running agent goes on, and a plane serves the request somebody
waits for; nothing is assumed of late requests, of planes' recoveries or of
restarts.
`GatewayAgent`: the loop of `main` is unconditional, so its next command runs;
nothing is assumed of `Restart`, no code of the repository restarts an agent.
`Overlay`: every active gateway polls for ever, for the same reason.
`Desktop`: a frontend that is not killed runs its next command, `wait_handshake`
has a deadline, a thread whose `run` returned ends, Qt delivers queued signals
and the timer fires; nobody has to close a warning. No fairness is put on
requests, edits, crashes, packets, flips or interrupts.

## 4. Proofs

TLAPS proves the following for every value of the constants that satisfies the
assumptions named: any number of users, keys, workers, gateways, planes and
networks, any tables, answers and plans, and any bounds. Every invariant, every
action property and the refinement that the passing runs check is among them.
Bounds on operations occur in guards only, and the theorems hold for all of their
values.

| Module | Theorem | States |
|---|---|---|
| `Registration_proofs` | `TypeCorrect` | `[]TypeOK` |
| | `AddressesAreUnique` | `[]UniqueAddresses` |
| | `AddressesAreStable` | `AddressStable` |
| | `LoopsNeverDeadlock` | `[]NoDeadlockInLoop` |
| `Atomicity_proofs` | `KeypairsAreShared` | `[]OneKeypair` |
| | `RegistersAllOrNothing` | `[]AllOrNothing` |
| | `RegistrationsAreAtomic` | `ImplementsRegistry` |
| `Subnets_proofs` | `TypeCorrect` | `[]TypeOK` |
| | `SubnetsAreDisjoint` | `[]SubnetsDisjoint` |
| | `AddressesAreUnambiguous` | `[]AddressesUnambiguous` |
| `Overlay_proofs` | `TablesTyped` | `[]ResolverTypeOK` |
| | `PlanIsAPartition` | `[]PlanPartitions` |
| | `PlanIsEnforced` | `[]PlanEnforcedAtEntry` |
| | `RulesAreWired` | `[]PathIsWired` |
| | `TypeCorrect` | `[]TypeOK` |
| | `OneFreshHopIsEnough` | `[]OneFreshHopEnforces` |
| `AgentSync_proofs` | `TypeCorrect` | `[]TypeOK` |
| | `KeyIsKept` | `[]KeyKept` |
| | `FailsOnlyForWantOfPlanes` | `[]FailsOnlyWithoutPlane` |
| | `PlaneIsKept` | `HealthyPlaneKept` |
| `GatewayAgent_proofs` | `TypeCorrect` | `[]TypeOK` |
| | `NothingIsForwardedBeyond` | `[]NothingBeyondAnswer` |
| | `MalformedPeersAreTolerated` | `[]MalformedPeerTolerated` |
| | `RoutesAreTheAnswers` | `[]RoutesMatch` |
| `Desktop_proofs` | `DesktopIsStarted` | `DesktopSpec => StartedSpec` |
| | `TypeCorrect` | `[]DesktopTypeOK` |
| | `CountedTunnelsAreUp` | `[]ConnectedAreUp` |
| | `TunnelsAreRemembered` | `[]NothingForgotten` |
| | `OnlyFailedAreSkipped` | `[]SkipsOnlyFailed`, given `ReportsHandshakes` |
| `Login_proofs` | `TypeCorrect` | `[]TypeOK` |
| | `CodesAreSingleUse` | `[]CodeSpentOnce` |
| | `SessionsAreBounded` | `[]SessionBounded` |
| | `AttributesAreMirrored` | `[]AttributesMirrored` |

### Assumptions

- All modules: bounds are naturals, and the values that stand for "nothing" are
  none of the others.
- `RegistrationAssumption`: a subnet has at least one host to give away; finitely
  many workers. `LoginAssumption` too: finitely many workers. A login's codes are
  numbered by `Cardinality(issued)`, and `Numbered` is what makes them distinct.
- `SubnetsAssumption`: a CIDR has at least four addresses (/30). Of a /31 or /32,
  which `Gateway.clean` accepts too, Python's `hosts()` also counts the end
  addresses, which `HostsOf` leaves out.
- `ResolverAssumption`: the tables a run starts from are well typed.
- `AgentSyncAssumption`: there is a plane and a key.
- `AgentAssumption`: the answers are answers; no relay network is a client's
  address.
- `ClientAssumption` of `ClientConnect`: there is a longest plan, and `NIfaces` is
  its length.
- `MappingAssumption` of `Login`: a name no group declares has a group of its own,
  named after it.
- `ReportsHandshakes`, the hypothesis of `OnlyFailedAreSkipped`: Windows is the
  finding `client_windows`.

### Arguments

Each module first states its inductive invariant in named parts; every action has
a lemma that it keeps it; the theorems follow with PTL.

**Registration.** `UniqueAddresses` is not inductive: a commit merges uncommitted
rows, so it needs to know what those are. `IInv` adds that uncommitted rows are
the worker's own user's (`OwnWrites`) and do not clash with those of another
worker (`PendingCompatible`) or with committed ones (`WritesCompatible`); that a
row found under `FOR UPDATE` is still the committed one, whatever pages are saved
(`FoundCurrent`, `LockedHeld`), and a page's row is still at its address
(`FormCurrent`); that two workers never hold one lock on a gateway, a device or a user
(`LocksExclusive`, `DevicesExclusive`, `UsersExclusive`); and that the gateways
passed precede those left in the loop (`NameOrder`). For `LoopsNeverDeadlock` each
worker in the loop gets a rank, twice its current gateway, and one more while it
waits for its user's or its gateway's row. Along a wait the rank grows
(`WaitsClimb`) unless the two serve one user with different gateways
(`PassedWritten` is where equal gateways are needed), so in a finite set of workers
the one with the greatest waits for nobody.

**Atomicity.** `AInv` adds to `IInv` what a transaction's locks and writes amount
to: rows written carry the request's key and are active (`WritesKeyed`); a
gateway locked has a device of the requester (`LockedHeld`), which is rewritten
or was already as requested (`LockedSettled`); the gateways whose foreign keys
COMMIT has yet to check were written (`ChecksWritten`). Hence `Asked(w)`, the
gateways passed and those ahead, does not change from listing to commit
(`AskedKept`), and at the commit each of them has a device with the key asked
for: a page is kept from rows that are locked, and waits for those that are
written (`SavedSettled`). With that every statement is a stutter of `Registry` or one of its steps,
`Commit` is its `Register`, and the refinement is shown step by step.

**Subnets.** A page checked after the last save still fits the plan
(`FreshFormFits`), so `Save` keeps the CIDRs disjoint (`PlanDisjoint`); a device's
address is a host of the subnet it came from (`AddressesHeld`), and hosts of
disjoint CIDRs differ.

**Resolver and overlay.** What the graph walks compute is shown by induction over
their length, written out with a least counterexample, because the library's
induction theorems take an operator. `WalkGrows`: after k steps there are k paths
with distinct ends, or a set of them that no edge extends; `FullTree`: as many
paths as gateways cannot be extended, by the pigeonhole principle. So
(`BranchesFacts`) the walk returns paths from its start, and their ends are
closed under its edges. `PathReaches`, `PathReturns` and `WalkMonotone` turn that
into statements about walks forward and backward; `SameWalks` equates the plan's
walk, which filters gateways, with the rules', which filters links. `PlanIsEnforced`
and `RulesAreWired` follow without induction over states, since they hold of
every well-typed table. For the overlay, each hop of a packet's way has a rule
for it (`WayRuled`, again by induction over the way), and a rule of a gateway
with the present version is planned (`RuleIsPlanned`): one such hop is enough.

**AgentSync.** `KeyOfFile` says where a key can be while the state directory is
kept: nowhere before the file holds one, and everywhere (memory, row, admin page,
late requests) the file's own afterwards. It must cover the page and the late
requests, or a stale save would break it. `TriedOutOfOrder`: the planes before the
one in turn were out of order at some time in this cycle, which gives both
properties about planes, `InTurn` showing that the offsets of the loop reach every
plane wherever it starts.

**GatewayAgent.** Between cycles the kernel equals the last answer because of what
holds inside one: the loops run over the answer (`LoopsOverAnswer`), cryptokey
routing leads to peers of the interface (`OwnersArePeers`), a key applied in this
cycle has only what the answer gives it (`OwnedAsAnswered`), old peers are about to
be removed or gone (`StaleRemoved`), and what the agent remembers of chain and
routes is there (`FirewallKnown`, `RoutesKnown`). Memory is compared with the
answer, not with the kernel, so the last two are what makes skipping an unchanged
firewall sound. `Inherits` says that a route is remembered, about to be, about to be
deleted, or an earlier process's; `NotCrashed` what an agent that did not crash may
rely on: an interface that is up, so that only a malformed network can end it.

**Desktop.** `ConnectedAreUp` and `NothingForgotten` hold at the end of an
operation because of what a running one keeps: its tunnels are up in the plan's
order (`InOrder`, `WaitedIsUp`), and everything up is on a list of its own, which
its next steps bring down or record (`NothingUnlisted`), but for what `lost` names.
`PassedFailed` is the same for `SkipsOnlyFailed`: instances of the current tunnel
already passed have failed, and the interface is free for the next one unless `lost`
names it, which `Alert` shows. The theorems are
about `StartedSpec`, `DesktopSpec` without its fairness and from any state
earlier connects may leave; `DesktopIsStarted` connects the two.

**Login.** A code between its select and its token is one worker's and in the
table no more (`RowHeld`), and a token's code is spent (`Accounted`):
`CodeSpentOnce`. For `SessionBounded`, no request is older than the timeout, and one
past the check of its code's age began while the code was young enough (`Timely`). `AloneExact` and `MirrorKept` say which of old and new attributes the tables
hold at each statement of a callback that runs alone, hence also when it dies
there: `AttributesMirrored`.

### What the proofs corrected

- `Login`: a code's number and a browser's tabs were bounded by the number of
  logins, which is a fact about the run and no type; and the history of a user's
  callbacks did not tell a callback that replaced groups and site from one that
  left either alone, so `AttributesMirrored` was not inductive.
- `GatewayAgent`: nothing said that a relay's networks are networks and no
  client's address.
- `Resolver`, `Overlay`: the walks and a packet's way are now recursive functions
  with a named step, so that a proof can speak of each step; and where a UNION
  met an intersection the expression now says which comes first.

### What stays with TLC

The liveness properties `RequestAnswered`, `KeysAgree`, `Converges`, `Settles`,
`OperationEnds`, `ButtonsReturn` and `StatusCatchesUp`: liveness under fairness and
ENABLED are outside TLAPS's reach here. So are, of course, the three findings. No
module declares a RECURSIVE operator.

## 5. Not modelled

- sites as rows: they order a service's instances; `ClientConnect` takes any order
- the text of configurations, preshared keys, TLS and post-quantum checks
- networks' CIDR arithmetic: in `Resolver` networks are disjoint values;
  overlapping CIDRs of different networks would be longest-prefix matched by the
  kernel (tunnel subnets are intervals in `Subnets`)
- the listen port and endpoints of gateways
- the client's settings, key generation, widgets and icons, translations
- control-plane settings, seeds, topology export, migrations, packaging, the
  development stack: configuration, drawing and demonstration data, no protocol

## 6. Plan

What is modelled is proved, liveness aside. Left, in this order:

1. `GatewayAgent` as a refinement of a gateway whose kernel jumps from one answer
   to the next between cycles: the step `Overlay!Sync` takes, which is assumed
   there and argued here (`NothingBeyondAnswer`, `RoutesMatch`, `Converges`). Its
   invariant exists (`GatewayAgent_proofs`); the abstract module does not.
2. A user's first connect from sign-in to a tunnel the gateways accept, which
   composes `Login`, `Registration` and `Overlay`.
3. `Subnets` and `Registration` composed: one table of devices, with the address
   of a row as a number of the plan.
4. Plans ordered by site in `ClientConnect`.
