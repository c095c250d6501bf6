------------------------------- MODULE AgentSync -------------------------------
(***************************************************************************)
(* How a gateway agent starts and keeps in touch (gateway/agent.py): the   *)
(* key file it loads or creates, the interface it finds or creates, and    *)
(* the synchronisation with control planes that share one database         *)
(* (gateway_sync in server/provisioning/views.py).  One action per command,*)
(* file operation, request or database statement; the agent may be killed  *)
(* between any two.  What a sync's answer makes it program is GatewayAgent.*)
(***************************************************************************)
EXTENDS Naturals

CONSTANTS
    NPlanes,        \* control planes, numbered from 0 as in CONTROL_PLANES
    Keys,           \* key pairs wg genkey may yield, a pair being one value
    Subnets,        \* tunnel subnets an administrator may give the gateway
    None, Empty,    \* no key or file; the content of a file not written yet
    MaxCrashes, MaxLosses, MaxFlips, MaxEdits       \* bounds

Planes == 0 .. NPlanes - 1

ASSUME AgentSyncAssumption ==
    /\ NPlanes \in Nat \ {0}
    /\ Keys # {} /\ {None, Empty} \cap Keys = {} /\ None # Empty
    /\ {MaxCrashes, MaxLosses, MaxFlips, MaxEdits} \subseteq Nat

VARIABLES
    file,       \* wg-private.key
    iface,      \* the interface: how far it was set up, its key, its subnet
    row,        \* the gateway's row: the public key reported, tunnel_subnet
    page,       \* the row as the gateway's page in the admin site shows it
    told,       \* history: the keys the row has had
    authorized, \* the row is active and has the agent's token
    health,     \* planes: "up", "failing" (unreachable, slow or 5xx), "garbled"
    pc,         \* the agent's next step, or "down"
    key,        \* private_key
    current,    \* _current_plane
    offset,     \* how many planes this cycle has tried
    configured,
    request,    \* what the plane it waits for does with its request
    late,       \* requests it gave up on, which a plane may still serve
    outcome,    \* of the cycle that ended
    steady,     \* history: planes up ever since the cycle began
    count       \* crashes, losses, flips and edits so far

memory == <<pc, key, current, offset, configured, request, outcome, steady>>
table == <<row, authorized, page, told>>
vars == <<file, iface, table, health, memory, late, count>>

Counters == {"crashes", "losses", "flips", "edits"}
Foreign == CHOOSE k \in Keys : TRUE
Absent == [state |-> "absent", key |-> None, subnet |-> None]
NoRequest == [stage |-> "none", subnet |-> None]

TypeOK ==
    /\ file \in Keys \cup {None, Empty}
    /\ iface \in [state : {"absent", "added", "keyed", "addressed", "up"},
                  key : Keys \cup {None}, subnet : Subnets \cup {None}]
    /\ row \in [key : Keys \cup {None}, subnet : Subnets]
    /\ page \in [key : Keys \cup {None}, subnet : Subnets] \cup {None}
    /\ told \subseteq Keys
    /\ authorized \in BOOLEAN
    /\ health \in [Planes -> {"up", "failing", "garbled"}]
    /\ pc \in {"boot", "genkey", "open", "write", "pubkey", "post", "wait",
               "setup", "key", "address", "raise", "sleep", "down"}
    /\ key \in Keys \cup {None, Empty}
    /\ current \in Planes /\ offset \in Planes
    /\ configured \in BOOLEAN
    /\ request \in [stage : {"none", "check", "save", "done", "refused"},
                    subnet : Subnets \cup {None}]
    /\ late \subseteq [key : Keys, stage : {"check", "save"}]
    /\ outcome \in {"none", "ok", "unavailable", "refused", "garbled"}
    /\ steady \subseteq Planes
    /\ count \in [Counters -> Nat]

\* Memory of a process that starts.
Fresh(p) ==
    /\ pc = p /\ key = None /\ current = 0 /\ offset = 0 /\ configured = FALSE
    /\ request = NoRequest /\ outcome = "none" /\ steady = {}

\* A new gateway, or a host where an earlier one left its interface.
Init ==
    /\ file = None /\ authorized = TRUE /\ late = {} /\ page = None /\ told = {}
    /\ \E s \in Subnets :
          /\ row = [key |-> None, subnet |-> s]
          /\ iface \in {Absent, [state |-> "up", key |-> Foreign, subnet |-> s]}
    /\ health = [p \in Planes |-> "up"]
    /\ Fresh("boot")
    /\ count = [c \in Counters |-> 0]

Counted(c, bound) == count[c] < bound /\ count' = [count EXCEPT ![c] = @ + 1]

\* The agent's files, interface, planes and database are as before.
world == <<file, iface, table, health, late, count>>
cycle == <<current, offset, configured, request, outcome, steady>>

-----------------------------------------------------------------------------
(* load_or_create_keypair.                                                 *)

\* Mutant of LoadKey: the key is not kept from one start to the next.
IgnoreKeyFile ==
    /\ pc = "boot"
    /\ pc' = "genkey"
    /\ UNCHANGED <<world, cycle, key>>

LoadKey ==
    /\ pc = "boot"
    /\ IF file = None THEN pc' = "genkey" /\ UNCHANGED key
                      ELSE pc' = "pubkey" /\ key' = file
    /\ UNCHANGED <<world, cycle>>

\* wg genkey yields a key nobody has; which one does not matter.
GenerateKey ==
    /\ pc = "genkey"
    /\ LET used == {file, row.key, iface.key} \cup {r.key : r \in late}
       IN  Keys \ used # {} /\ key' = CHOOSE k \in Keys \ used : TRUE
    /\ pc' = "open"
    /\ UNCHANGED <<world, cycle>>

OpenKeyFile ==
    /\ pc = "open"
    /\ file' = Empty /\ pc' = "write"
    /\ UNCHANGED <<iface, table, health, late, count, cycle, key>>

WriteKeyFile ==
    /\ pc = "write"
    /\ file' = key /\ pc' = "pubkey"
    /\ UNCHANGED <<iface, table, health, late, count, cycle, key>>

\* A sync starts with the plane that answered last.
BeginCycle ==
    /\ pc' = "post" /\ offset' = 0
    /\ steady' = {p \in Planes : health[p] = "up"}
    /\ UNCHANGED <<current, configured, request, outcome, key>>

\* wg pubkey refuses an empty key: check=True, uncaught.
DeriveKey ==
    /\ pc = "pubkey"
    /\ IF key = Empty THEN pc' = "down" /\ UNCHANGED <<key, cycle>> ELSE BeginCycle
    /\ UNCHANGED world

-----------------------------------------------------------------------------
(* sync: the planes in turn, from the sticky one.                          *)

\* Mutant of Tried: every cycle starts at the first plane.
TriedFromFirst == offset

Tried == (current + offset) % NPlanes

\* requests.post to the plane in turn.
Post ==
    /\ pc = "post"
    /\ request' = [NoRequest EXCEPT !.stage = "check"]
    /\ pc' = "wait"
    /\ UNCHANGED <<world, key, current, offset, configured, outcome, steady>>

\* What a request the agent no longer waits for may still do.
Abandoned ==
    IF request.stage \in {"check", "save"} THEN {[key |-> key, stage |-> request.stage]}
                                           ELSE {}

EndCycle(o) == outcome' = o /\ pc' = "sleep" /\ UNCHANGED offset

\* Mutant of NextPlane: the last plane is never tried.
NextPlaneButLast ==
    IF offset + 2 < NPlanes
    THEN offset' = offset + 1 /\ pc' = "post" /\ UNCHANGED outcome
    ELSE EndCycle("unavailable")

\* Mutant of NextPlane: the planes are tried again and again.
NextPlaneUnbounded == offset' = offset + 1 /\ pc' = "post" /\ UNCHANGED outcome

NextPlane ==
    IF offset + 1 < NPlanes
    THEN offset' = offset + 1 /\ pc' = "post" /\ UNCHANGED outcome
    ELSE EndCycle("unavailable")

\* ConnectionError, Timeout or 5xx; the request is lost, or served all the same.
PlaneFails ==
    /\ pc = "wait" /\ health[Tried] = "failing"
    /\ NextPlane
    /\ request' = NoRequest
    /\ late' \in {late, late \cup Abandoned}
    /\ UNCHANGED <<file, iface, table, health, count, key, current,
                   configured, steady>>

\* 401: sync raises, no other plane is asked.
Refused ==
    /\ pc = "wait" /\ health[Tried] = "up" /\ request.stage = "refused"
    /\ EndCycle("refused")
    /\ request' = NoRequest
    /\ UNCHANGED <<world, key, current, configured, steady>>

\* 200, and a body that is no JSON: the plane is kept, main sees an exception.
Garbled ==
    /\ pc = "wait" /\ health[Tried] = "garbled"
    /\ current' = Tried
    /\ EndCycle("garbled")
    /\ request' = NoRequest /\ late' = late \cup Abandoned
    /\ UNCHANGED <<file, iface, table, health, count, key, configured, steady>>

\* The sticky plane is the one that answered; offset counts from it again.
Answered ==
    /\ pc = "wait" /\ health[Tried] = "up" /\ request.stage = "done"
    /\ current' = Tried /\ offset' = 0
    /\ outcome' = "ok"
    /\ pc' = IF configured THEN "sleep" ELSE "setup"
    /\ UNCHANGED <<world, key, configured, request, steady>>

PollAgain ==
    /\ pc = "sleep"
    /\ BeginCycle
    /\ UNCHANGED world

-----------------------------------------------------------------------------
(* ensure_interface, once in the life of a process.                        *)

\* Mutant of SetupInterface: the key of an interface that exists is trusted.
TrustInterface ==
    /\ pc = "setup"
    /\ IF iface.state = "absent"
       THEN /\ iface' = [iface EXCEPT !.state = "added"]
            /\ pc' = "key" /\ UNCHANGED configured
       ELSE UNCHANGED iface /\ configured' = TRUE /\ pc' = "sleep"
    /\ UNCHANGED <<file, table, health, late, count, key, current,
                   offset, request, outcome, steady>>

\* An interface that exists gets the agent's key and is left as it is.
SetupInterface ==
    /\ pc = "setup"
    /\ IF iface.state = "absent"
       THEN /\ iface' = [iface EXCEPT !.state = "added"]
            /\ pc' = "key" /\ UNCHANGED configured
       ELSE /\ iface' = [iface EXCEPT !.key = key]
            /\ configured' = TRUE /\ pc' = "sleep"
    /\ UNCHANGED <<file, table, health, late, count, key, current,
                   offset, request, outcome, steady>>

SetKey ==
    /\ pc = "key"
    /\ iface' = [iface EXCEPT !.state = "keyed", !.key = key]
    /\ pc' = "address"
    /\ UNCHANGED <<file, table, health, late, count, key, cycle>>

\* The address is the first host of the subnet the sync answered with.
SetAddress ==
    /\ pc = "address"
    /\ iface' = [iface EXCEPT !.state = "addressed", !.subnet = request.subnet]
    /\ pc' = "raise"
    /\ UNCHANGED <<file, table, health, late, count, key, cycle>>

RaiseInterface ==
    /\ pc = "raise"
    /\ iface' = [iface EXCEPT !.state = "up"]
    /\ configured' = TRUE /\ pc' = "sleep"
    /\ UNCHANGED <<file, table, health, late, count, key, current,
                   offset, request, outcome, steady>>

-----------------------------------------------------------------------------
(* gateway_sync on a plane: the token's row is read, then the key saved.   *)

\* Mutant of NewStage: a key once reported is not replaced.
FirstKeyOnly(k) == IF row.key = None THEN "save" ELSE "done"

\* The key in the request is compared with the row's, as read with the token.
NewStage(k) == IF row.key # k THEN "save" ELSE "done"

CheckToken ==
    /\ request.stage = "check"
    /\ request' = IF authorized
                  THEN [stage |-> NewStage(key), subnet |-> row.subnet]
                  ELSE [NoRequest EXCEPT !.stage = "refused"]
    /\ UNCHANGED <<world, pc, key, current, offset, configured, outcome, steady>>

\* gateway.save(update_fields=["public_key"])
Report(k) ==
    /\ row' = [row EXCEPT !.key = k] /\ told' = told \cup {k}
    /\ UNCHANGED <<authorized, page>>

SaveKey ==
    /\ request.stage = "save"
    /\ Report(key)
    /\ request' = [request EXCEPT !.stage = "done"]
    /\ UNCHANGED <<file, iface, health, late, count, pc, key, current,
                   offset, configured, outcome, steady>>

\* A request nobody waits for is served like any other.
ServeLate(r) ==
    /\ r \in late
    /\ \/ /\ r.stage = "check"
          /\ late' = (late \ {r})
                \cup (IF authorized /\ NewStage(r.key) = "save"
                      THEN {[r EXCEPT !.stage = "save"]} ELSE {})
          /\ UNCHANGED table
       \/ /\ r.stage = "save"
          /\ Report(r.key)
          /\ late' = late \ {r}
    /\ UNCHANGED <<file, iface, health, memory, count>>

-----------------------------------------------------------------------------
(* The surroundings.                                                       *)

\* The process ends; what it waited for may still be served.
Killed ==
    /\ pc' = "down" /\ request' = NoRequest /\ late' = late \cup Abandoned
    /\ UNCHANGED <<file, table, health, key, current, offset,
                   configured, outcome, steady>>

Crash ==
    /\ pc # "down" /\ Counted("crashes", MaxCrashes)
    /\ Killed
    /\ UNCHANGED iface

\* On the same host, or after the host or the container was started again.
Restart ==
    /\ pc = "down"
    /\ pc' = "boot" /\ key' = None /\ current' = 0 /\ offset' = 0
    /\ configured' = FALSE /\ request' = NoRequest
    /\ outcome' = "none" /\ steady' = {}
    /\ iface' \in {iface, Absent}
    /\ UNCHANGED <<file, table, health, late, count>>

\* WDG_STATE_DIR was not kept on a volume.
LoseState ==
    /\ pc = "down" /\ file # None /\ Counted("losses", MaxLosses)
    /\ file' = None
    /\ UNCHANGED <<iface, table, health, memory, late>>

Flip(p, h) ==
    /\ h # health[p] /\ Counted("flips", MaxFlips)
    /\ health' = [health EXCEPT ![p] = h]
    /\ steady' = steady \ {p}
    /\ UNCHANGED <<file, iface, table, late, pc, key, current, offset,
                   configured, request, outcome>>

OpenPage ==
    /\ page = None /\ Counted("edits", MaxEdits)
    /\ page' = row
    /\ UNCHANGED <<file, iface, row, authorized, told, health, memory, late>>

\* The gateway is (de)activated or given another subnet; the page writes every
\* field back, the key it showed included.
SavePage ==
    /\ page # None /\ page' = None
    /\ \/ row' = page /\ authorized' = ~authorized
       \/ /\ \E s \in Subnets \ {page.subnet} : row' = [page EXCEPT !.subnet = s]
          /\ UNCHANGED authorized
    /\ UNCHANGED <<file, iface, told, health, memory, late, count>>

-----------------------------------------------------------------------------
Agent ==
    \/ LoadKey \/ GenerateKey \/ OpenKeyFile \/ WriteKeyFile \/ DeriveKey
    \/ Post \/ PlaneFails \/ Refused \/ Garbled \/ Answered \/ PollAgain
    \/ SetupInterface \/ SetKey \/ SetAddress \/ RaiseInterface

Serve == CheckToken \/ SaveKey

Next ==
    \/ Agent \/ Serve \/ \E r \in late : ServeLate(r)
    \/ Crash \/ Restart \/ LoseState \/ OpenPage \/ SavePage
    \/ \E p \in Planes, h \in {"up", "failing", "garbled"} : Flip(p, h)

\* A running agent goes on, and a plane serves the request somebody waits for.
Spec == Init /\ [][Next]_vars /\ WF_vars(Agent) /\ WF_vars(Serve)

-----------------------------------------------------------------------------
(* What must hold.                                                         *)

\* "an ephemeral key would silently break every tunnel": the control plane
\* never has another key for the gateway than its first one, whenever the
\* agent is killed, whatever planes serve late, whatever interface it finds
\* and whatever page is saved, as long as its state directory is kept.
KeyKept == count["losses"] = 0 => \A k, l \in told : k = l

\* "a healthy plane is not abandoned between polls": the agent leaves its
\* plane only when that plane was out of order at some time in the cycle.
HealthyPlaneKept == [][current' # current => pc = "down" \/ current \notin steady]_vars

\* A cycle ends for want of a plane only when every one of them was out of
\* order at some time in it, wherever the cycle began.
FailsOnlyWithoutPlane ==
    (pc = "sleep" /\ outcome = "unavailable") => steady = {}

\* The agent runs with the key it reported and its interface carries it, on
\* the control plane's subnet unless that was edited.
Agreed ==
    /\ row.key = file /\ iface.key = file
    /\ count["edits"] = 0 => iface.subnet = row.subnet

\* What keeps an agent from that: it is down or its key file was cut short, it
\* is deactivated, no plane answers or one answers with something else than
\* JSON, or an earlier process left the interface half set up.
Hindered ==
    \/ pc = "down" \/ file = Empty \/ ~authorized
    \/ \A p \in Planes : health[p] # "up"
    \/ \E p \in Planes : health[p] = "garbled"
    \/ iface.state \in {"added", "keyed", "addressed"}

\* Unless it is hindered for ever, the agent, its interface and the control
\* plane end up with one and the same key, also after a key was lost and a
\* late request, or a page opened before, put the old one back.
KeysAgree == <>[]Hindered \/ <>[]Agreed
=============================================================================
