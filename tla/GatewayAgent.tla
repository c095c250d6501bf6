---------------------------- MODULE GatewayAgent ----------------------------
(***************************************************************************)
(* The gateway agent (gateway/agent.py): it polls the control plane and    *)
(* programs the kernel with one command after another.  One action per     *)
(* command, so that a crash, a failed command or a client's packet can     *)
(* fall between any two of them.                                           *)
(*                                                                         *)
(* The agent's memory is lost when it stops; the kernel's state is not.    *)
(* A packet is a pair <<source address, destination network>>.             *)
(***************************************************************************)
EXTENDS Naturals, FiniteSets

CONSTANTS
    Keys,           \* public keys of peers
    Clients,        \* client addresses, each the allowed-ips of its device
    Nets,           \* CIDRs of networks and of other gateways' clients
    Malformed,      \* keys and CIDRs the commands refuse
    Answers,        \* what the control plane may answer to a sync
    None,
    ForwardAccepts, \* the host's FORWARD policy is ACCEPT
    MaxChanges, MaxFailures, MaxCrashes     \* bounds

Flows == Clients \X Nets
Cidrs == Clients \cup Nets

\* peers: devices; relays: gateways to peer with, key None until reported;
\* rules: forward_rules; masq: masq_subnets.
Answer == [peers : SUBSET [key : Keys, ips : SUBSET Clients],
           relays : SUBSET [key : Keys \cup {None}, ips : SUBSET Nets],
           rules : SUBSET Flows, masq : SUBSET Cidrs]

ASSUME AgentAssumption ==
    /\ Answers \subseteq Answer /\ Answers # {}
    /\ Clients \cap Nets = {}
    /\ None \notin Keys /\ \A rules \in SUBSET Flows : rules # None
    /\ ForwardAccepts \in BOOLEAN
    /\ {MaxChanges, MaxFailures, MaxCrashes} \subseteq Nat

VARIABLES
    plane,      \* the control plane's present answer
    pc,         \* next command of the agent, or "down"
    answer,     \* the state it reconciles with
    pending,    \* what is left of its current loop
    desired,    \* keys applied in this cycle
    configured, \* the interface and the scaffolding were set up
    memoRules,  \* _egress_rules
    memoRoutes, \* _relay_routes
    listed,     \* history: this cycle's `wg show` of the peers has not failed
    inherited,  \* history: routes of earlier processes this one never added
    iface,      \* wg0: "absent", "bare" (created) or "up"
    peers,      \* keys wg0 has as peers
    owner,      \* allowed-ips: the peer a CIDR belongs to, or None
    routes,     \* CIDRs routed to wg0
    jump,       \* FORWARD -i wg0 jumps to WDG_FWD
    chain,      \* WDG_FWD: established rule, accepted pairs, final DROP
    masq,       \* subnets masqueraded on the legs
    flows,      \* connections conntrack has seen accepted
    count       \* changes, failures and crashes so far

history == <<listed, inherited>>
memory == <<pc, answer, pending, desired, configured, memoRules, memoRoutes, history>>
kernel == <<iface, peers, owner, routes, jump, chain, masq>>
vars == <<plane, memory, kernel, flows, count>>

Counters == {"changes", "failures", "crashes"}
Empty == [est |-> FALSE, pairs |-> {}, drop |-> FALSE]

\* gateway_sync reads the tables query by query, in no transaction: what it
\* reads before an edit is from a, what it reads after it from b.
Torn(a, b) == {[b EXCEPT !.peers = a.peers], [a EXCEPT !.rules = b.rules, !.masq = b.masq]}

Replies == Answers \cup UNION {Torn(a, b) : a, b \in Answers}

TypeOK ==
    /\ plane \in Answers
    /\ pc \in {"sync", "setup", "bring_up", "forwarding", "peers", "relays",
               "list", "remove", "route", "unroute", "flush", "establish",
               "rules", "masq", "sleep", "down"}
    /\ answer \in Replies
    /\ desired \subseteq Keys
    /\ configured \in BOOLEAN
    /\ memoRules \in {None} \cup SUBSET Flows
    /\ memoRoutes \subseteq Cidrs
    /\ listed \in BOOLEAN /\ inherited \subseteq Cidrs
    /\ iface \in {"absent", "bare", "up"}
    /\ peers \subseteq Keys
    /\ owner \in [Cidrs -> Keys \cup {None}]
    /\ routes \subseteq Cidrs /\ masq \subseteq Cidrs
    /\ jump \in BOOLEAN
    /\ chain \in [est : BOOLEAN, pairs : SUBSET Flows, drop : BOOLEAN]
    /\ flows \subseteq Flows
    /\ count \in [Counters -> Nat]

Init ==
    /\ plane \in Answers /\ answer = plane
    /\ pc = "sync" /\ pending = {} /\ desired = {} /\ configured = FALSE
    /\ memoRules = None /\ memoRoutes = {}
    /\ listed = TRUE /\ inherited = {}
    /\ iface = "absent" /\ peers = {} /\ owner = [c \in Cidrs |-> None]
    /\ routes = {} /\ jump = FALSE /\ chain = Empty /\ masq = {}
    /\ flows = {} /\ count = [c \in Counters |-> 0]

Counted(c, bound) == count[c] < bound /\ count' = [count EXCEPT ![c] = @ + 1]

\* The agent goes on at l with the items of a loop, the kernel aside.
Move(l, items) ==
    /\ pc' = l /\ pending' = items
    /\ UNCHANGED <<plane, flows, answer, configured>>

Goto(l, items) == Move(l, items) /\ UNCHANGED history

\* The process ends: its memory is gone, the kernel keeps its state.
Stops ==
    /\ pc' = "down" /\ pending' = {} /\ desired' = {} /\ configured' = FALSE
    /\ memoRules' = None /\ memoRoutes' = {}
    /\ inherited' = routes
    /\ UNCHANGED <<answer, listed>>

-----------------------------------------------------------------------------
(* sync() and the one-time configuration.                                  *)

\* With a plane's answer the agent configures itself once, then reconciles.
GoesOn(a) ==
    /\ answer' = a /\ desired' = {} /\ listed' = TRUE
    /\ IF configured THEN pc' = "peers" /\ pending' = a.peers
                     ELSE pc' = "setup" /\ pending' = {}
    /\ UNCHANGED <<kernel, flows, configured, memoRules, memoRoutes, inherited>>

SyncAnswered ==
    /\ pc = "sync"
    /\ GoesOn(plane)
    /\ UNCHANGED <<plane, count>>

\* It counts as two changes.
SyncOverEdit(b) ==
    /\ pc = "sync" /\ b # plane /\ count["changes"] + 2 <= MaxChanges
    /\ count' = [count EXCEPT !["changes"] = @ + 2]
    /\ plane' = b
    /\ \E a \in Torn(plane, b) : GoesOn(a)

\* No plane answers, or one refuses the token: the agent sleeps and retries.
SyncFails ==
    /\ pc = "sync"
    /\ Counted("failures", MaxFailures)
    /\ UNCHANGED <<plane, memory, kernel, flows>>

\* ensure_interface: an interface that exists is left as it is.
SetupInterface ==
    /\ pc = "setup"
    /\ IF iface = "absent"
       THEN iface' = "bare" /\ Goto("bring_up", {})
       ELSE UNCHANGED iface /\ Goto("forwarding", {})
    /\ UNCHANGED <<peers, owner, routes, jump, chain, masq, desired,
                   memoRules, memoRoutes, count>>

BringUp ==
    /\ pc = "bring_up"
    /\ iface' = "up" /\ Goto("forwarding", {})
    /\ UNCHANGED <<peers, owner, routes, jump, chain, masq, desired,
                   memoRules, memoRoutes, count>>

EnsureForwarding ==
    /\ pc = "forwarding"
    /\ jump' = TRUE /\ configured' = TRUE
    /\ pc' = "peers" /\ pending' = answer.peers
    /\ UNCHANGED <<plane, answer, desired, memoRules, memoRoutes, history, iface,
                   peers, owner, routes, chain, masq, flows, count>>

-----------------------------------------------------------------------------
(* reconcile(): peers.                                                     *)

\* wg set: the peer gets exactly these allowed-ips, whoever had them before.
WgSet(k, ips) ==
    /\ peers' = peers \cup {k}
    /\ owner' = [c \in Cidrs |-> IF c \in ips THEN k
                                 ELSE IF owner[c] = k THEN None ELSE owner[c]]

Refused(p) == p.key \in Malformed \/ p.ips \cap Malformed # {}

\* Mutant of ApplyPeer: a refused peer ends the agent.
ApplyPeerOrStop(p) ==
    /\ pc \in {"peers", "relays"} /\ p \in pending
    /\ IF Refused(p)
       THEN Stops /\ UNCHANGED <<plane, flows, peers, owner>>
       ELSE /\ Goto(pc, pending \ {p})
            /\ WgSet(p.key, p.ips) /\ desired' = desired \cup {p.key}
            /\ UNCHANGED <<memoRules, memoRoutes>>
    /\ UNCHANGED <<iface, routes, jump, chain, masq, count>>

\* apply_peer or apply_relay_peer; a refused peer is skipped.
ApplyPeer(p) ==
    /\ pc \in {"peers", "relays"} /\ p \in pending
    /\ Goto(pc, pending \ {p})
    /\ IF Refused(p)
       THEN UNCHANGED <<peers, owner, desired>>
       ELSE WgSet(p.key, p.ips) /\ desired' = desired \cup {p.key}
    /\ UNCHANGED <<iface, routes, jump, chain, masq, memoRules, memoRoutes, count>>

\* Mutant of ReadyRelays: a relay peer without a key is not left out.
AllRelays == answer.relays

\* Relay peers whose agent has reported its key.
ReadyRelays == {p \in answer.relays : p.key # None}

PeersApplied ==
    /\ pc = "peers" /\ pending = {}
    /\ Goto("relays", ReadyRelays)
    /\ UNCHANGED <<kernel, desired, memoRules, memoRoutes, count>>

RelaysApplied ==
    /\ pc = "relays" /\ pending = {}
    /\ Goto("list", {})
    /\ UNCHANGED <<kernel, desired, memoRules, memoRoutes, count>>

\* current_peers ignores the exit status: a failure reads as no peers.
ListPeers ==
    /\ pc = "list"
    /\ \/ Goto("remove", peers \ desired) /\ UNCHANGED count
       \/ /\ Move("remove", {}) /\ listed' = FALSE /\ UNCHANGED inherited
          /\ Counted("failures", MaxFailures)
    /\ UNCHANGED <<kernel, desired, memoRules, memoRoutes>>

RemovePeer(k) ==
    /\ pc = "remove" /\ k \in pending
    /\ Goto("remove", pending \ {k})
    /\ peers' = peers \ {k}
    /\ owner' = [c \in Cidrs |-> IF owner[c] = k THEN None ELSE owner[c]]
    /\ UNCHANGED <<iface, routes, jump, chain, masq, desired, memoRules,
                   memoRoutes, count>>

-----------------------------------------------------------------------------
(* reconcile(): routes, firewall, masquerade.                              *)

\* Every relay peer's networks, those of a skipped peer included.
RelayCidrs == UNION {p.ips : p \in ReadyRelays}

StalePeersRemoved ==
    /\ pc = "remove" /\ pending = {}
    /\ Goto("route", RelayCidrs \ memoRoutes)
    /\ UNCHANGED <<kernel, desired, memoRules, memoRoutes, count>>

AddRoute(c) ==
    /\ pc = "route" /\ c \in pending
    /\ IF c \in Malformed \/ iface # "up"
       THEN Stops /\ UNCHANGED <<plane, flows, routes>>    \* check=True, uncaught
       ELSE /\ Move("route", pending \ {c})
            /\ routes' = routes \cup {c} /\ inherited' = inherited \ {c}
            /\ UNCHANGED <<desired, memoRules, memoRoutes, listed>>
    /\ UNCHANGED <<iface, peers, owner, jump, chain, masq, count>>

RoutesAdded ==
    /\ pc = "route" /\ pending = {}
    /\ Goto("unroute", memoRoutes \ RelayCidrs)
    /\ UNCHANGED <<kernel, desired, memoRules, memoRoutes, count>>

DeleteRoute(c) ==
    /\ pc = "unroute" /\ c \in pending
    /\ Goto("unroute", pending \ {c})
    /\ routes' = routes \ {c}
    /\ UNCHANGED <<iface, peers, owner, jump, chain, masq, desired, memoRules,
                   memoRoutes, count>>

\* Mutant of RoutesDeleted: the firewall is built once, never rebuilt.
RulesBuiltOnce ==
    /\ pc = "unroute" /\ pending = {}
    /\ memoRoutes' = RelayCidrs
    /\ Goto(IF memoRules # None THEN "masq" ELSE "flush", {})
    /\ UNCHANGED <<kernel, desired, memoRules, count>>

\* Mutant of RoutesDeleted: _relay_routes is not updated.
RoutesForgotten ==
    /\ pc = "unroute" /\ pending = {}
    /\ Goto(IF memoRules = answer.rules THEN "masq" ELSE "flush", {})
    /\ UNCHANGED <<kernel, desired, memoRules, memoRoutes, count>>

\* The firewall is rebuilt only when its rules changed.
RoutesDeleted ==
    /\ pc = "unroute" /\ pending = {}
    /\ memoRoutes' = RelayCidrs
    /\ Goto(IF memoRules = answer.rules THEN "masq" ELSE "flush", {})
    /\ UNCHANGED <<kernel, desired, memoRules, count>>

\* Mutant of FlushChain: the new rules follow the old ones.
FlushNothing ==
    /\ pc = "flush"
    /\ Goto("establish", {})
    /\ UNCHANGED <<kernel, desired, memoRules, memoRoutes, count>>

FlushChain ==
    /\ pc = "flush"
    /\ chain' = Empty
    /\ Goto("establish", {})
    /\ UNCHANGED <<iface, peers, owner, routes, jump, masq, desired, memoRules,
                   memoRoutes, count>>

AcceptEstablished ==
    /\ pc = "establish"
    /\ chain' = [chain EXCEPT !.est = TRUE]
    /\ Goto("rules", answer.rules)
    /\ UNCHANGED <<iface, peers, owner, routes, jump, masq, desired, memoRules,
                   memoRoutes, count>>

AppendRule(r) ==
    /\ pc = "rules" /\ r \in pending
    /\ IF r[2] \in Malformed
       THEN Stops /\ UNCHANGED <<plane, flows, chain>>     \* check=True, uncaught
       ELSE /\ Goto("rules", pending \ {r})
            /\ chain' = [chain EXCEPT !.pairs = @ \cup {r}]
            /\ UNCHANGED <<desired, memoRules, memoRoutes>>
    /\ UNCHANGED <<iface, peers, owner, routes, jump, masq, count>>

AppendDrop ==
    /\ pc = "rules" /\ pending = {}
    /\ chain' = [chain EXCEPT !.drop = TRUE]
    /\ memoRules' = answer.rules
    /\ Goto("masq", {})
    /\ UNCHANGED <<iface, peers, owner, routes, jump, masq, desired, memoRoutes, count>>

EnsureMasquerade ==
    /\ pc = "masq"
    /\ masq' = masq \cup answer.masq
    /\ Goto("sleep", {})
    /\ UNCHANGED <<iface, peers, owner, routes, jump, chain, desired, memoRules,
                   memoRoutes, count>>

PollAgain ==
    /\ pc = "sleep"
    /\ Goto("sync", {})
    /\ UNCHANGED <<kernel, desired, memoRules, memoRoutes, count>>

-----------------------------------------------------------------------------
(* The agent's surroundings.                                               *)

ChangeAnswer(a) ==
    /\ a # plane /\ Counted("changes", MaxChanges)
    /\ plane' = a
    /\ UNCHANGED <<memory, kernel, flows>>

Crash ==
    /\ pc # "down" /\ Counted("crashes", MaxCrashes)
    /\ Stops
    /\ UNCHANGED <<plane, kernel, flows>>

\* A new process starts with empty memory next to the kernel's old state.
Restart ==
    /\ pc = "down" /\ pc' = "sync"
    /\ UNCHANGED <<plane, answer, pending, desired, configured, memoRules, memoRoutes,
                   history, kernel, flows, count>>

\* What WDG_FWD and then the FORWARD policy do with a packet.
Accepts(f) ==
    IF ~jump THEN ForwardAccepts
    ELSE \/ chain.est /\ f \in flows
         \/ f \in chain.pairs
         \/ ~chain.drop /\ ForwardAccepts

\* A packet enters from the tunnel: cryptokey routing, then the firewall.
Forwards(k, f) == iface = "up" /\ owner[f[1]] = k /\ Accepts(f)

Packet(f) ==
    /\ f \notin flows
    /\ \E k \in peers : Forwards(k, f)
    /\ flows' = flows \cup {f}
    /\ UNCHANGED <<plane, memory, kernel, count>>

-----------------------------------------------------------------------------
Agent ==
    \/ SyncAnswered \/ SetupInterface \/ BringUp \/ EnsureForwarding
    \/ \E p \in answer.peers \cup answer.relays : ApplyPeer(p)
    \/ PeersApplied \/ RelaysApplied \/ ListPeers
    \/ \E k \in Keys : RemovePeer(k)
    \/ StalePeersRemoved
    \/ \E c \in Cidrs : AddRoute(c) \/ DeleteRoute(c)
    \/ RoutesAdded \/ RoutesDeleted \/ FlushChain \/ AcceptEstablished
    \/ \E r \in Flows : AppendRule(r)
    \/ AppendDrop \/ EnsureMasquerade \/ PollAgain

Next ==
    \/ Agent \/ SyncFails \/ Crash \/ Restart
    \/ \E a \in Answers : ChangeAnswer(a) \/ SyncOverEdit(a)
    \/ \E f \in Flows : Packet(f)

Spec == Init /\ [][Next]_vars

\* A running agent runs its next command; nothing restarts a stopped one.
FairSpec == Spec /\ WF_vars(Agent)

-----------------------------------------------------------------------------
(* What must hold.                                                         *)

\* New connections the answer allows peer k.
Granted(a, k) == {r \in a.rules : \E p \in a.peers : p.key = k /\ r[1] \in p.ips}

Served(a) == {k \in Keys : \E p \in a.peers : p.key = k /\ ~Refused(p)}

\* Between two cycles no client's new connection is forwarded that the last
\* answer does not grant to that very key, and a key the answer does not serve
\* has nothing forwarded at all, not even on a connection it had open: whatever
\* keys and addresses were before, and however often the agent crashed in the
\* middle of a cycle.  A cycle whose `wg show` failed leaves the peers of
\* earlier ones to the next: a revoked key keeps its open connections until
\* then, and new ones to what the answer accepts from its address.
NothingBeyondAnswer ==
    pc = "sleep" =>
        \A k \in Keys, f \in Flows :
            Forwards(k, f) => \/ f \in Granted(answer, k)
                              \/ k \in Served(answer) /\ f \in flows
                              \/ ~listed /\ f \in flows \cup answer.rules

\* The kernel does for new connections exactly what the answer says.
Enforces(a) ==
    /\ peers = Served(a) \cup {p.key : p \in {q \in a.relays : q.key # None /\ ~Refused(q)}}
    /\ \A k \in Served(a), f \in Flows \ flows :
          Forwards(k, f) <=> f \in Granted(a, k)

\* A network is free text in its table (Network.cidr): what ip or iptables
\* refuse of it ends the agent.
BadNetwork(a) ==
    \/ \E r \in a.rules : r[2] \in Malformed
    \/ \E p \in a.relays : p.ips \cap Malformed # {}

\* When the control plane stops changing, a running agent brings the kernel
\* to its answer for good, whatever failed meanwhile.  The exceptions are an
\* answer with a malformed network, which ends the agent again after every
\* restart, and an interface that a crash left created and down, which
\* ensure_interface keeps so.
Converges ==
    \/ <>[](pc = "down" \/ iface = "bare" \/ BadNetwork(plane))
    \/ <>[]Enforces(plane)

\* Between two cycles the relay peers' CIDRs are routed to the tunnel, and
\* nothing else is but what an earlier process had routed before it crashed
\* or stopped: every route of its own the agent also removes.
RoutesMatch ==
    pc = "sleep" => RelayCidrs \subseteq routes /\ routes \subseteq RelayCidrs \cup inherited

\* "A single malformed peer must not take the whole gateway down" (reconcile):
\* an agent that did not crash ends on a malformed network, of a rule or of a
\* relay peer, and on nothing else: not on a client's key or address.
MalformedPeerTolerated ==
    pc = "down" /\ count["crashes"] = 0 => BadNetwork(answer)

\* Traffic to a withdrawn network dies at the next poll, "including on an
\* established tunnel: the session under way to that network dies"
\* (docs/PARCOURS-UTILISATEUR.md): between cycles nothing is forwarded that the
\* answer does not grant, open connections included.
RevokedFlowsDie ==
    pc = "sleep" => \A k \in Keys, f \in Flows :
                        Forwards(k, f) => f \in Granted(answer, k)
=============================================================================
