--------------------------- MODULE ClientConnect ----------------------------
(***************************************************************************)
(* The client's connect, reconnect, disconnect and identity                *)
(* (wg_client/ops.py, plan.py, config.py): frontends, the CLI or the GUI's *)
(* worker, bring the plan's tunnels up one instance after another over     *)
(* interfaces and a record file they share.  One action per command run,   *)
(* file written or wait ended; any of them may fail locally, and a         *)
(* frontend may be killed between any two.                                 *)
(*                                                                         *)
(* A plan is a sequence of tunnels, tunnel t on interface t; a tunnel is   *)
(* the sequence of its instances' gateways in failover order.              *)
(***************************************************************************)
EXTENDS Naturals, Sequences, FiniteSets, FiniteSetsExt, Functions

CONSTANTS
    Frontends, Gateways,
    Plans,          \* what the control plane may answer
    Usable,         \* gateways the plan gives an address and a key for
    None,
    ReportsHandshakes,  \* handshake_age works: not so on Windows
    MaxOps,         \* bound on operations
    MaxEvents       \* bound on everything else that is counted

NIfaces == Max({Len(p) : p \in Plans})
Ifaces == 1 .. NIfaces

ASSUME ClientAssumption ==
    /\ Plans # {} /\ Plans \subseteq Seq(Seq(Gateways))
    /\ NIfaces \in Nat /\ \A p \in Plans : Len(p) <= NIfaces
    /\ Usable \subseteq Gateways /\ None \notin Gateways
    /\ ReportsHandshakes \in BOOLEAN
    /\ {MaxOps, MaxEvents} \subseteq Nat

VARIABLES
    alive,      \* gateways that answer a handshake within HANDSHAKE_TIMEOUT
    iface,      \* the gateway each interface has as its peer, None when down
    records,    \* tunnels.json: the gateway recorded for each interface
    torn,       \* tunnels.json is truncated and not yet written again
    lost,       \* history: interfaces that interrupts, kills and local failures left
    pc,         \* next step of each frontend
    after,      \* the operation goes on with connect after the disconnect
    plan,       \* the plan being brought up
    at,         \* tunnel and instance tried: <<index, index>>
    connected,  \* connect_plan's `active`: gateways of the tunnels up so far
    downing,    \* interfaces still to bring down
    failed,     \* history: gateways that failed when their turn came
    count       \* events so far, by kind

file == <<records, torn>>
locals == <<after, plan, at, connected, downing, failed>>
vars == <<alive, iface, file, lost, pc, locals, count>>

Unrecorded == [i \in Ifaces |-> None]

\* Gateways going down or coming back, Ctrl-C and processes that die, commands
\* and files that fail on this machine, connects over recorded tunnels,
\* operations begun while another frontend runs one, the application's ends.
Events == {"flips", "interrupts", "kills", "faults", "repeats", "overlaps", "quits"}
Up == {i \in Ifaces : iface[i] # None}

TypeOK ==
    /\ alive \subseteq Gateways
    /\ iface \in [Ifaces -> Gateways \cup {None}]
    /\ records \in [Ifaces -> Gateways \cup {None}]
    /\ torn \in BOOLEAN /\ lost \subseteq Ifaces
    /\ pc \in [Frontends -> {"idle", "load", "down", "identity", "fetch",
                             "choose", "up", "wait", "cleanup", "write", "rollback"}]
    /\ after \in [Frontends -> BOOLEAN]
    /\ plan \in [Frontends -> Plans \cup {<<>>}]
    /\ at \in [Frontends -> (1 .. NIfaces + 1) \X Nat]
    /\ connected \in [Frontends -> Seq(Gateways)]
    /\ downing \in [Frontends -> SUBSET Ifaces]
    /\ failed \in [Frontends -> SUBSET Gateways]
    /\ count \in [Events \cup {"ops"} -> Nat]

\* No operation has begun.
Fresh ==
    /\ torn = FALSE /\ lost = {}
    /\ pc = [p \in Frontends |-> "idle"]
    /\ after = [p \in Frontends |-> FALSE]
    /\ plan = [p \in Frontends |-> <<>>]
    /\ at = [p \in Frontends |-> <<1, 1>>]
    /\ connected = [p \in Frontends |-> <<>>]
    /\ downing = [p \in Frontends |-> {}]
    /\ failed = [p \in Frontends |-> {}]
    /\ count = [c \in Events \cup {"ops"} |-> 0]

Init ==
    /\ alive \in SUBSET Usable
    /\ iface = Unrecorded /\ records = Unrecorded
    /\ Fresh

\* An overlap, which multiplies the states most, counts twice.
Happened == SumFunctionOnSet(count, Events) + count["overlaps"]
Counted(c) == Happened < MaxEvents /\ count' = [count EXCEPT ![c] = @ + 1]
Goto(p, label) == pc' = [pc EXCEPT ![p] = label]
Keeps == UNCHANGED <<alive, file, count>>

\* The operation returns or raises: its local variables are gone.
Finish(p) ==
    /\ Goto(p, "idle")
    /\ after' = [after EXCEPT ![p] = FALSE]
    /\ plan' = [plan EXCEPT ![p] = <<>>]
    /\ at' = [at EXCEPT ![p] = <<1, 1>>]
    /\ connected' = [connected EXCEPT ![p] = <<>>]
    /\ downing' = [downing EXCEPT ![p] = {}]
    /\ failed' = [failed EXCEPT ![p] = {}]

Tunnel(p) == plan[p][at[p][1]]
Instance(p) == Tunnel(p)[at[p][2]]

-----------------------------------------------------------------------------
(* disconnect, alone or as the first half of reconnect.                    *)

Idle(p) == pc[p] = "idle"

\* How often something happened that `one` says happens now.
Plus(n, one) == IF one THEN n + 1 ELSE n

FirstStep(op) == CASE op = "connect"  -> "fetch"
                   [] op = "identity" -> "identity"
                   [] OTHER           -> "load"

\* The user asks p for connect, reconnect, disconnect or identity.
Start(p, op) ==
    /\ Idle(p)
    /\ count' = [count EXCEPT
           !["ops"] = @ + 1,
           !["repeats"] = Plus(@, op = "connect" /\ records # Unrecorded),
           !["overlaps"] = Plus(@, \E q \in Frontends \ {p} : ~Idle(q))]
    /\ count'["ops"] <= MaxOps /\ Happened' <= MaxEvents
    /\ Goto(p, FirstStep(op))
    /\ after' = [after EXCEPT ![p] = (op = "reconnect")]
    /\ UNCHANGED <<alive, iface, file, lost, plan, at, connected, downing, failed>>

\* What follows the disconnect: connect, or nothing.
Continue(p) == IF after[p] THEN Goto(p, "fetch") /\ UNCHANGED locals ELSE Finish(p)

Recorded == {i \in Ifaces : records[i] # None}

\* load_tunnels: a truncated file is an error; without records disconnect
\* returns at once.
LoadRecords(p) ==
    /\ pc[p] = "load"
    /\ \/ torn /\ Finish(p)
       \/ ~torn /\ Recorded = {} /\ Continue(p)
       \/ /\ ~torn /\ Recorded # {}
          /\ downing' = [downing EXCEPT ![p] = Recorded]
          /\ Goto(p, "down")
          /\ UNCHANGED <<after, plan, at, connected, failed>>
    /\ Keeps /\ UNCHANGED <<iface, lost>>

TakeDown(i) == iface' = [iface EXCEPT ![i] = None] /\ lost' = lost \ {i}

\* tunnel.down: every caller swallows its failure, and goes on with the
\* interface still there.
Down(i) ==
    \/ TakeDown(i) /\ UNCHANGED count
    \/ Counted("faults") /\ lost' = lost \cup ({i} \cap Up) /\ UNCHANGED iface

\* disconnect_all or connect_plan's rollback; one that is not up is skipped.
BringDown(p, i) ==
    /\ pc[p] \in {"down", "rollback"} /\ i \in downing[p]
    /\ Down(i)
    /\ downing' = [downing EXCEPT ![p] = @ \ {i}]
    /\ UNCHANGED <<alive, file, pc, after, plan, at, connected, failed>>

\* clear_tunnels removes the file, whatever is in it, and whatever is still up.
ClearRecords(p) ==
    /\ pc[p] = "down" /\ downing[p] = {}
    /\ records' = Unrecorded /\ torn' = FALSE
    /\ Continue(p)
    /\ UNCHANGED <<alive, iface, lost, count>>

\* identity: a login and a whoami that succeed or fail; no tunnel is touched.
Identity(p) ==
    /\ pc[p] = "identity"
    /\ Finish(p)
    /\ Keeps /\ UNCHANGED <<iface, lost>>

-----------------------------------------------------------------------------
(* connect.                                                                *)

\* Settings, keys, login, registration or plan fail before a tunnel is up.
FetchFails(p) ==
    /\ pc[p] = "fetch"
    /\ Finish(p)
    /\ Keeps /\ UNCHANGED <<iface, lost>>

FetchPlan(p) ==
    /\ pc[p] = "fetch"
    /\ \E pl \in Plans : plan' = [plan EXCEPT ![p] = pl]
    /\ Goto(p, "choose")
    /\ Keeps /\ UNCHANGED <<iface, lost, after, at, connected, downing, failed>>

\* Mutant of NextInstance: the same instance is tried again.
SameInstance(p) == Goto(p, "choose") /\ UNCHANGED at

NextInstance(p) ==
    /\ at' = [at EXCEPT ![p][2] = @ + 1]
    /\ Goto(p, "choose")

\* The next instance that can be tried; one without credentials is skipped.
ChooseInstance(p) ==
    /\ pc[p] = "choose" /\ at[p][1] <= Len(plan[p]) /\ at[p][2] <= Len(Tunnel(p))
    /\ IF Instance(p) \in Usable
       THEN Goto(p, "up") /\ UNCHANGED at
       ELSE NextInstance(p)
    /\ Keeps /\ UNCHANGED <<iface, lost, after, plan, connected, downing, failed>>

\* The instance is given up; `why` tells whether it has failed.
GiveUp(p, why) ==
    /\ failed' = [failed EXCEPT ![p] = IF why THEN @ \cup {Instance(p)} ELSE @]
    /\ Goto(p, "cleanup")
    /\ UNCHANGED <<alive, iface, file, lost, after, plan, at, connected, downing>>

\* Mutant of UpSucceeds: an interface that exists is taken as it is.
UpOverExisting(p) ==
    /\ pc[p] = "up"
    /\ iface' = [iface EXCEPT ![at[p][1]] = IF @ = None THEN Instance(p) ELSE @]
    /\ Goto(p, "wait")
    /\ Keeps /\ UNCHANGED <<lost, locals>>

\* wg-quick up refuses an interface that exists.
UpSucceeds(p) ==
    /\ pc[p] = "up" /\ iface[at[p][1]] = None
    /\ iface' = [iface EXCEPT ![at[p][1]] = Instance(p)]
    /\ Goto(p, "wait")
    /\ Keeps /\ UNCHANGED <<lost, locals>>

\* ... or a peer whose name does not resolve; and whatever the gateway, the
\* tools may be missing, the configuration not writable, the command fail.
UpFails(p) ==
    /\ pc[p] = "up"
    /\ \/ /\ iface[at[p][1]] # None \/ Instance(p) \notin alive
          /\ GiveUp(p, at[p][1] \in lost \/ Instance(p) \notin alive)
          /\ UNCHANGED count
       \/ Counted("faults") /\ GiveUp(p, TRUE)

\* wait_handshake sees a handshake on the interface, whoever set it up.
Shakes(p) == ReportsHandshakes /\ iface[at[p][1]] \in alive

Handshake(p) ==
    /\ pc[p] = "wait" /\ Shakes(p)
    /\ connected' = [connected EXCEPT ![p] = Append(@, Instance(p))]
    /\ at' = [at EXCEPT ![p] = <<@[1] + 1, 1>>]
    /\ Goto(p, "choose")
    /\ Keeps /\ UNCHANGED <<iface, lost, after, plan, downing, failed>>

HandshakeTimeout(p) ==
    /\ pc[p] = "wait" /\ ~Shakes(p)
    /\ GiveUp(p, Instance(p) \notin alive)
    /\ UNCHANGED count

\* Mutant of QuietDown: an instance that was given up stays on the interface.
NoQuietDown(p) ==
    /\ pc[p] = "cleanup"
    /\ NextInstance(p)
    /\ Keeps /\ UNCHANGED <<iface, lost, after, plan, connected, downing, failed>>

\* _quiet_down, whatever is on the interface.
QuietDown(p) ==
    /\ pc[p] = "cleanup"
    /\ Down(at[p][1])
    /\ NextInstance(p)
    /\ UNCHANGED <<alive, file, after, plan, connected, downing, failed>>

\* Mutant of Rollback: the tunnels already up stay.
NoRollback(p) ==
    /\ Goto(p, "rollback")
    /\ UNCHANGED <<alive, iface, file, after, plan, at, connected, downing, failed>>

Rollback(p) ==
    /\ Goto(p, "rollback")
    /\ downing' = [downing EXCEPT ![p] = 1 .. Len(connected[p])]
    /\ UNCHANGED <<alive, iface, file, after, plan, at, connected, failed>>

\* No instance of the tunnel answered: TunnelError.
NoInstance(p) ==
    /\ pc[p] = "choose" /\ at[p][1] <= Len(plan[p]) /\ at[p][2] > Len(Tunnel(p))
    /\ Rollback(p)
    /\ UNCHANGED <<lost, count>>

RolledBack(p) ==
    /\ pc[p] = "rollback" /\ downing[p] = {}
    /\ Finish(p)
    /\ Keeps /\ UNCHANGED <<iface, lost>>

\* save_tunnels truncates the file ...
OpenRecords(p) ==
    /\ pc[p] = "choose" /\ at[p][1] > Len(plan[p])
    /\ records' = Unrecorded /\ torn' = TRUE
    /\ Goto(p, "write")
    /\ UNCHANGED <<alive, iface, lost, count, locals>>

\* ... and writes the tunnels of this plan, replacing what was recorded.
SaveRecords(p) ==
    /\ pc[p] = "write"
    /\ records' = [i \in Ifaces |-> IF i \in DOMAIN connected[p]
                                    THEN connected[p][i] ELSE None]
    /\ torn' = FALSE
    /\ Finish(p)
    /\ UNCHANGED <<alive, iface, lost, count>>

-----------------------------------------------------------------------------
(* What stops an operation.                                                *)

\* BaseException rolls `active` back; the interface being tried is in no list.
Abandon(p) ==
    /\ Rollback(p)
    /\ lost' = lost \cup ({at[p][1]} \cap Up)

\* Ctrl-C in connect_plan ...
Interrupt(p) ==
    /\ pc[p] \in {"choose", "up", "wait", "cleanup"}
    /\ Counted("interrupts")
    /\ Abandon(p)

\* ... or `wg show` cannot be run, which wait_handshake does not expect.
WaitFails(p) ==
    /\ pc[p] = "wait"
    /\ Counted("faults")
    /\ Abandon(p)

LeftOut == {i \in Up : torn \/ records[i] # iface[i]}

\* tunnels.json cannot be read, removed, opened or written: the OSError ends
\* the operation, and connect leaves its tunnels up and unrecorded.
FileFails(p) ==
    /\ \/ pc[p] \in {"load", "write"}
       \/ pc[p] = "down" /\ downing[p] = {}
       \/ pc[p] = "choose" /\ at[p][1] > Len(plan[p])
    /\ Counted("faults")
    /\ Finish(p)
    /\ lost' = lost \cup (DOMAIN connected[p] \cap LeftOut)
    /\ UNCHANGED <<alive, iface, file>>

\* The frontend's process dies: what is up and not recorded is lost.
Kill(p) ==
    /\ ~Idle(p)
    /\ Counted("kills")
    /\ Finish(p)
    /\ lost' = lost \cup LeftOut
    /\ UNCHANGED <<alive, iface, file>>

\* A gateway goes down or comes back.
Flip(g) ==
    /\ Counted("flips")
    /\ alive' = (alive \ {g}) \cup ({g} \ alive)
    /\ UNCHANGED <<iface, file, lost, pc, locals>>

Step(p) ==
    \/ LoadRecords(p) \/ ClearRecords(p) \/ Identity(p)
    \/ FetchPlan(p) \/ FetchFails(p)
    \/ ChooseInstance(p) \/ UpSucceeds(p) \/ UpFails(p)
    \/ Handshake(p) \/ HandshakeTimeout(p) \/ WaitFails(p) \/ QuietDown(p)
    \/ NoInstance(p) \/ RolledBack(p) \/ OpenRecords(p) \/ SaveRecords(p)
    \/ \E i \in Ifaces : BringDown(p, i)

-----------------------------------------------------------------------------
(* What must hold.                                                         *)

Never(events) == \A c \in events : count[c] = 0

\* connect moves past an instance, and in the end gives a tunnel up, only
\* when that instance failed in its turn: it did not answer, a command or a
\* file of this machine failed under it, or its interface was still there
\* since an interrupt, a kill or a failed down.  So a healthy preferred site
\* is used, and nothing an earlier instance left stands in the way of the
\* next.  A connect over recorded tunnels may pass a healthy one.
SkipsOnlyFailed ==
    Never({"repeats", "overlaps"}) =>
        \A p \in Frontends :
            (pc[p] \in {"choose", "up", "wait"} /\ at[p][1] <= Len(plan[p])) =>
                \A j \in 1 .. at[p][2] - 1 :
                    Tunnel(p)[j] \in Usable => Tunnel(p)[j] \in failed[p]

\* The tunnels a connect counts as up, and then records, are up on their
\* interfaces with the gateways it names, whatever interrupted, killed,
\* failed or repeated operations left there before.
ConnectedAreUp ==
    Never({"overlaps"}) => \A p \in Frontends :
        pc[p] \in {"choose", "up", "wait", "cleanup", "write"} =>
            \A i \in DOMAIN connected[p] : iface[i] = connected[p][i]

\* With no operation running, an interface that is up is in the records with
\* its gateway, so that status shows it and disconnect brings it down, after
\* any sequence of failed, interrupted and killed operations.  All that can be
\* forgotten is what `lost` names: the interface an interrupt or a failed wait
\* left, one whose down failed, and the tunnels of a connect that was killed
\* or could not write its records.
NothingForgotten ==
    (Never({"repeats", "overlaps"}) /\ \A p \in Frontends : Idle(p)) =>
        \A i \in Up \ lost : ~torn /\ records[i] = iface[i]

\* Every operation ends, whatever gateways go down meanwhile and whatever
\* another frontend does to the interfaces and the file at the same time.
OperationEnds == \A p \in Frontends : ~Idle(p) ~> Idle(p)
=============================================================================
