---------------------------- MODULE Desktop_proofs ----------------------------
(***************************************************************************)
(* What connect, reconnect and disconnect leave on the interfaces and in   *)
(* the records, for any frontends, gateways, plans and numbers of          *)
(* operations, local failures, interrupts and kills; and the window's      *)
(* shape.                                                                  *)
(***************************************************************************)
EXTENDS Desktop, SequenceTheorems, TLAPS

(***************************************************************************)
(* The inductive invariant, in named parts.                                *)
(***************************************************************************)

\* connect works on one tunnel after another: it has as many tunnels up as it
\* has gone through, and the instance it tries is one of the plan's.
InOrder ==
    \A p \in Frontends :
        /\ at[p][2] >= 1
        /\ pc[p] \in {"idle", "load", "down", "identity", "fetch"} =>
              at[p] = <<1, 1>> /\ connected[p] = <<>>
        /\ pc[p] \in {"choose", "up", "wait", "cleanup"} =>
              /\ plan[p] \in Plans
              /\ at[p][1] = Len(connected[p]) + 1
              /\ at[p][1] <= Len(plan[p]) + 1
        /\ pc[p] \in {"up", "wait", "cleanup"} =>
              at[p][1] <= Len(plan[p]) /\ at[p][2] <= Len(Tunnel(p))
        /\ pc[p] \in {"write", "rollback"} => Len(connected[p]) <= NIfaces

\* One frontend at a time, unless operations overlapped.
OneAtATime ==
    Never({"overlaps"}) => \A p, q \in Frontends : ~Idle(p) /\ ~Idle(q) => p = q

\* The interface being waited for has the instance being tried.
WaitedIsUp ==
    Never({"overlaps"}) => \A p \in Frontends :
        pc[p] = "wait" => iface[at[p][1]] = Instance(p)

\* Interfaces that are up, and that no interrupt, kill or failure left there.
Mine == Up \ lost

\* With no operation running they are recorded.
Accounted == \A i \in Mine : ~torn /\ records[i] = iface[i]

\* A running operation has them on its list: the records still to bring down,
\* the tunnels up so far and the one being tried.
ListedBy(p) ==
    CASE pc[p] \in {"down", "rollback"} -> Mine \subseteq downing[p]
      [] pc[p] = "fetch"                -> Mine = {}
      [] pc[p] \in {"choose", "up"}     -> Mine \subseteq DOMAIN connected[p]
      [] pc[p] \in {"wait", "cleanup"}  -> Mine \subseteq DOMAIN connected[p] \cup {at[p][1]}
      [] pc[p] = "write"                -> Mine \subseteq DOMAIN connected[p]
      [] OTHER                          -> Accounted

NothingUnlisted ==
    Never({"repeats", "overlaps"}) =>
        /\ \A p \in Frontends : ~Idle(p) => ListedBy(p)
        /\ (\A p \in Frontends : Idle(p)) => Accounted

IInv ==
    /\ TypeOK
    /\ InOrder
    /\ OneAtATime
    /\ WaitedIsUp
    /\ ConnectedAreUp
    /\ NothingUnlisted

\* The instances of the current tunnel that connect has passed, the one being
\* cleaned up included, have failed.
PassedBy(p) ==
    /\ pc[p] \in {"choose", "up", "wait", "cleanup"} /\ at[p][1] <= Len(plan[p]) =>
          \A j \in 1 .. at[p][2] - 1 : Tunnel(p)[j] \in Usable => Tunnel(p)[j] \in failed[p]
    /\ pc[p] = "cleanup" => Instance(p) \in failed[p]

Undisturbed == Never({"repeats", "overlaps"})

PassedFailed == Undisturbed => \A p \in Frontends : PassedBy(p)

-----------------------------------------------------------------------------
(* What the operations' helpers do.                                        *)

Labels == {"idle", "load", "down", "identity", "fetch", "choose", "up", "wait",
           "cleanup", "write", "rollback"}

\* A frontend's own half of two invariants ...
HoldsUp(p) ==
    /\ pc[p] = "wait" => iface[at[p][1]] = Instance(p)
    /\ pc[p] \in {"choose", "up", "wait", "cleanup", "write"} =>
          \A i \in DOMAIN connected[p] : iface[i] = connected[p][i]

\* ... and what it owes to the third.
Lists(p) == IF Idle(p) THEN Accounted ELSE ListedBy(p)

\* The local variables of all frontends but p stay.
OthersKept(p) ==
    \A q \in Frontends \ {p} :
        /\ pc'[q] = pc[q] /\ plan'[q] = plan[q] /\ at'[q] = at[q]
        /\ connected'[q] = connected[q] /\ failed'[q] = failed[q]

\* The local variables' types.
LocalsTyped ==
    /\ pc \in [Frontends -> Labels]
    /\ after \in [Frontends -> BOOLEAN]
    /\ plan \in [Frontends -> Plans \cup {<<>>}]
    /\ at \in [Frontends -> (1 .. NIfaces + 1) \X Nat]
    /\ connected \in [Frontends -> Seq(Gateways)]
    /\ downing \in [Frontends -> SUBSET Ifaces]
    /\ failed \in [Frontends -> SUBSET Gateways]

\* The types of what a frontend's process has in memory.
LEMMA LocalTypes == TypeOK => LocalsTyped
BY DEF TypeOK, LocalsTyped, Labels

(* A step keeps the types when it keeps those of the local variables and of *)
(* the ones the frontends share.                                           *)
LEMMA TypesTogether ==
  ASSUME LocalsTyped', alive' \subseteq Gateways, iface' \in [Ifaces -> Gateways \cup {None}],
         records' \in [Ifaces -> Gateways \cup {None}], torn' \in BOOLEAN,
         lost' \subseteq Ifaces, count' \in [Events \cup {"ops"} -> Nat]
  PROVE  TypeOK'
BY DEF TypeOK, LocalsTyped, Labels

(* The step that comes next is one of the labels.                         *)
LEMMA GotoTyped ==
  ASSUME TypeOK, NEW p \in Frontends, NEW l \in Labels, Goto(p, l)
  PROVE  /\ pc' \in [Frontends -> Labels] /\ pc'[p] = l
         /\ \A q \in Frontends \ {p} : pc'[q] = pc[q]
<1>1. pc \in [Frontends -> Labels]
  BY LocalTypes DEF LocalsTyped
<1> QED BY <1>1 DEF Goto

(* An operation that ends leaves no local variables.                       *)
LEMMA FinishTyped ==
  ASSUME TypeOK, NEW p \in Frontends, Finish(p)
  PROVE  /\ LocalsTyped' /\ OthersKept(p)
         /\ pc'[p] = "idle" /\ at'[p] = <<1, 1>> /\ connected'[p] = <<>>
<1>1. LocalsTyped
  BY LocalTypes
<1>2. <<1, 1>> \in (1 .. NIfaces + 1) \X Nat /\ <<>> \in Seq(Gateways)
  BY ClientAssumption
<1>3. pc' \in [Frontends -> Labels] /\ pc'[p] = "idle" /\ \A q \in Frontends \ {p} : pc'[q] = pc[q]
  BY GotoTyped DEF Finish, Labels
<1>4. /\ at' \in [Frontends -> (1 .. NIfaces + 1) \X Nat] /\ at'[p] = <<1, 1>>
      /\ \A q \in Frontends \ {p} : at'[q] = at[q]
  BY <1>1, <1>2 DEF Finish, LocalsTyped
<1>5. /\ connected' \in [Frontends -> Seq(Gateways)] /\ connected'[p] = <<>>
      /\ \A q \in Frontends \ {p} : connected'[q] = connected[q]
  BY <1>1, <1>2 DEF Finish, LocalsTyped
<1>6. /\ plan' \in [Frontends -> Plans \cup {<<>>}]
      /\ \A q \in Frontends \ {p} : plan'[q] = plan[q]
  BY <1>1 DEF Finish, LocalsTyped
<1>7. /\ failed' \in [Frontends -> SUBSET Gateways] /\ downing' \in [Frontends -> SUBSET Ifaces]
      /\ \A q \in Frontends \ {p} : failed'[q] = failed[q]
  BY <1>1 DEF Finish, LocalsTyped
<1>8. after' \in [Frontends -> BOOLEAN]
  BY <1>1 DEF Finish, LocalsTyped
<1> QED BY <1>3, <1>4, <1>5, <1>6, <1>7, <1>8 DEF LocalsTyped, OthersKept

(* A plan is a sequence of tunnels, no longer than there are interfaces.   *)
LEMMA PlanTyped ==
  ASSUME NEW pl \in Plans
  PROVE  /\ pl \in Seq(Seq(Gateways)) /\ Len(pl) \in Nat /\ Len(pl) <= NIfaces
         /\ \A t \in 1 .. Len(pl) : pl[t] \in Seq(Gateways)
BY ClientAssumption

(* The interface and the instance being tried.                             *)
LEMMA Tried ==
  ASSUME TypeOK, InOrder, NEW p \in Frontends, pc[p] \in {"up", "wait", "cleanup"}
  PROVE  /\ at[p][1] \in Ifaces /\ at[p][1] = Len(connected[p]) + 1
         /\ at[p][2] \in 1 .. Len(Tunnel(p)) /\ Tunnel(p) \in Seq(Gateways)
         /\ Instance(p) \in Gateways
<1>1. plan[p] \in Plans /\ at[p][1] \in 1 .. NIfaces + 1 /\ at[p][2] \in Nat
  BY DEF InOrder, TypeOK
<1>2. /\ at[p][1] <= Len(plan[p]) /\ at[p][2] >= 1 /\ at[p][2] <= Len(Tunnel(p))
      /\ at[p][1] = Len(connected[p]) + 1
  BY DEF InOrder
<1>3. at[p][1] \in 1 .. Len(plan[p]) /\ at[p][1] \in Ifaces
  BY <1>1, <1>2, PlanTyped, ClientAssumption DEF Ifaces
<1>4. Tunnel(p) \in Seq(Gateways)
  BY <1>1, <1>3, PlanTyped DEF Tunnel
<1>5. at[p][2] \in 1 .. Len(Tunnel(p))
  BY <1>1, <1>2, <1>4
<1> QED BY <1>2, <1>3, <1>4, <1>5 DEF Instance

(* The tunnels that are up so far are on the first interfaces.             *)
LEMMA ConnectedIfaces ==
  ASSUME TypeOK, InOrder, NEW p \in Frontends,
         pc[p] \in {"choose", "up", "wait", "cleanup", "write", "rollback"}
  PROVE  /\ DOMAIN connected[p] = 1 .. Len(connected[p]) /\ Len(connected[p]) \in Nat
         /\ 1 .. Len(connected[p]) \subseteq Ifaces
<1>1. connected[p] \in Seq(Gateways)
  BY DEF TypeOK
<1>2. DOMAIN connected[p] = 1 .. Len(connected[p]) /\ Len(connected[p]) \in Nat
  BY <1>1
<1>3. Len(connected[p]) <= NIfaces
  <2>1. CASE pc[p] \in {"write", "rollback"}
    BY <2>1 DEF InOrder
  <2>2. CASE pc[p] \in {"choose", "up", "wait", "cleanup"}
    <3>1. plan[p] \in Plans /\ Len(connected[p]) + 1 <= Len(plan[p]) + 1
      BY <2>2 DEF InOrder
    <3> QED BY <1>2, <3>1, PlanTyped, ClientAssumption
  <2> QED BY <2>1, <2>2
<1> QED BY <1>2, <1>3, ClientAssumption DEF Ifaces

(* The order of one frontend's work says nothing of another's.             *)
LEMMA InOrderKept ==
  ASSUME InOrder, NEW p \in Frontends, OthersKept(p),
         at'[p][2] >= 1,
         pc'[p] \in {"idle", "load", "down", "identity", "fetch"} =>
             at'[p] = <<1, 1>> /\ connected'[p] = <<>>,
         pc'[p] \in {"choose", "up", "wait", "cleanup"} =>
             /\ plan'[p] \in Plans
             /\ at'[p][1] = Len(connected'[p]) + 1
             /\ at'[p][1] <= Len(plan'[p]) + 1,
         pc'[p] \in {"up", "wait", "cleanup"} =>
             at'[p][1] <= Len(plan'[p]) /\ at'[p][2] <= Len(Tunnel(p)'),
         pc'[p] \in {"write", "rollback"} => Len(connected'[p]) <= NIfaces
  PROVE  InOrder'
BY DEF InOrder, OthersKept, Tunnel

(* A step of the only running operation: what it owes is all that is owed. *)
LEMMA Alone ==
  ASSUME IInv, NEW p \in Frontends, ~Idle(p), OthersKept(p),
         \A c \in Events : count'[c] = 0 => count[c] = 0,
         Never({"overlaps"}) => HoldsUp(p)',
         Never({"repeats", "overlaps"}) => Lists(p)'
  PROVE  OneAtATime' /\ WaitedIsUp' /\ ConnectedAreUp' /\ NothingUnlisted'
<1>1. \A S \in SUBSET Events : Never(S)' => Never(S)
  BY DEF Never
<1>2. /\ Never({"overlaps"})' => Never({"overlaps"})
      /\ Never({"repeats", "overlaps"})' =>
            Never({"repeats", "overlaps"}) /\ Never({"overlaps"})
  BY <1>1 DEF Events, Never
<1>3. Never({"overlaps"}) => \A q \in Frontends \ {p} : Idle(q) /\ Idle(q)'
  BY DEF IInv, OneAtATime, OthersKept, Idle
<1>4. OneAtATime'
  BY <1>2, <1>3 DEF OneAtATime
<1>5. WaitedIsUp' /\ ConnectedAreUp'
  BY <1>2, <1>3 DEF WaitedIsUp, ConnectedAreUp, HoldsUp, Idle
<1>6. NothingUnlisted'
  BY <1>2, <1>3 DEF NothingUnlisted, Lists
<1> QED BY <1>4, <1>5, <1>6

-----------------------------------------------------------------------------
(* One lemma per action: it preserves the inductive invariant.             *)

(* What the beginning of an operation counts.                              *)
LEMMA StartCounted ==
  ASSUME TypeOK, NEW p \in Frontends, NEW op, Start(p, op)
  PROVE  /\ count' \in [Events \cup {"ops"} -> Nat]
         /\ \A c \in Events : count'[c] = 0 => count[c] = 0
         /\ count'["overlaps"] = 0 => \A q \in Frontends \ {p} : Idle(q)
         /\ count'["repeats"] = 0 /\ op = "connect" => records = Unrecorded
<1>1. count \in [Events \cup {"ops"} -> Nat]
  BY DEF TypeOK
<1>2. \A n \in Nat : \A one : Plus(n, one) \in Nat /\ (Plus(n, one) = 0 => n = 0 /\ ~one)
  BY DEF Plus
<1>3. count' = [count EXCEPT
          !["ops"] = @ + 1,
          !["repeats"] = Plus(@, op = "connect" /\ records # Unrecorded),
          !["overlaps"] = Plus(@, \E q \in Frontends \ {p} : ~Idle(q))]
  BY DEF Start
<1>4. /\ count["repeats"] \in Nat /\ count["overlaps"] \in Nat /\ count["ops"] + 1 \in Nat
  BY <1>1 DEF Events
<1>5. /\ count'["repeats"] = Plus(count["repeats"], op = "connect" /\ records # Unrecorded)
      /\ count'["overlaps"] = Plus(count["overlaps"], \E q \in Frontends \ {p} : ~Idle(q))
      /\ \A c \in Events \ {"repeats", "overlaps"} : count'[c] = count[c]
  BY <1>1, <1>3 DEF Events
<1>6. count' \in [Events \cup {"ops"} -> Nat]
  BY <1>1, <1>2, <1>3, <1>4
<1> QED BY <1>2, <1>4, <1>5, <1>6

(* An operation begins: nothing of its own is up yet.                      *)
LEMMA StartStep ==
  ASSUME IInv, NEW p \in Frontends, NEW op, Start(p, op)
  PROVE  IInv'
<1>1. FirstStep(op) \in {"fetch", "identity", "load"}
  BY DEF FirstStep
<1>2. /\ pc' \in [Frontends -> Labels] /\ pc'[p] = FirstStep(op)
      /\ \A q \in Frontends \ {p} : pc'[q] = pc[q]
  BY <1>1, GotoTyped DEF IInv, Start, Labels
<1>3. /\ Idle(p) /\ after' = [after EXCEPT ![p] = (op = "reconnect")]
      /\ UNCHANGED <<alive, iface, file, lost, plan, at, connected, downing, failed>>
  BY DEF Start
<1>4. /\ count' \in [Events \cup {"ops"} -> Nat]
      /\ \A c \in Events : count'[c] = 0 => count[c] = 0
      /\ count'["overlaps"] = 0 => \A q \in Frontends \ {p} : Idle(q)
      /\ count'["repeats"] = 0 /\ op = "connect" => records = Unrecorded
  BY StartCounted DEF IInv
<1>5. TypeOK'
  <2>1. after' \in [Frontends -> BOOLEAN]
    BY <1>3 DEF IInv, TypeOK
  <2>2. LocalsTyped'
    BY <1>2, <1>3, <2>1, LocalTypes DEF IInv, LocalsTyped
  <2> QED BY <1>3, <1>4, <2>2, TypesTogether DEF IInv, TypeOK, file
<1>6. InOrder'
  <2>1. at[p] = <<1, 1>> /\ connected[p] = <<>>
    BY <1>3 DEF IInv, InOrder, Idle
  <2> QED BY <1>1, <1>2, <1>3, <2>1, InOrderKept DEF IInv, OthersKept
<1>7. Never({"overlaps"})' => /\ Never({"overlaps"})
                              /\ \A q \in Frontends : Idle(q)
                              /\ \A q \in Frontends \ {p} : Idle(q)'
  BY <1>2, <1>3, <1>4 DEF Never, Idle, Events
<1>8. OneAtATime'
  BY <1>7 DEF OneAtATime
<1>9. WaitedIsUp' /\ ConnectedAreUp'
  BY <1>1, <1>2, <1>7 DEF WaitedIsUp, ConnectedAreUp, Idle
<1>10. Mine' = Mine /\ Accounted' = Accounted
  BY <1>3 DEF Mine, Up, Accounted, file
<1>11. NothingUnlisted'
  <2> SUFFICES ASSUME Never({"repeats", "overlaps"})'
               PROVE  ListedBy(p)'
    BY <1>1, <1>2, <1>7 DEF NothingUnlisted, Never, Idle
  <2>1. Never({"repeats", "overlaps"}) /\ \A q \in Frontends : Idle(q)
    BY <1>4, <1>7 DEF Never, Events
  <2>2. Accounted
    BY <2>1 DEF IInv, NothingUnlisted
  <2>3. CASE pc'[p] \in {"identity", "load"}
    BY <1>10, <2>2, <2>3 DEF ListedBy
  <2>4. CASE pc'[p] = "fetch"
    <3>1. op = "connect"
      BY <1>2, <2>4 DEF FirstStep
    <3>2. records = Unrecorded
      BY <1>4, <3>1 DEF Never
    <3>3. Mine = {}
      BY <2>2, <3>2 DEF Accounted, Mine, Up, Unrecorded
    <3> QED BY <1>10, <2>4, <3>3 DEF ListedBy
  <2> QED BY <1>1, <1>2, <2>3, <2>4
<1> QED BY <1>5, <1>6, <1>8, <1>9, <1>11 DEF IInv

(* An operation that ends leaves all that is up recorded, or lost.         *)
LEMMA FinishStep ==
  ASSUME IInv, NEW p \in Frontends, ~Idle(p), Finish(p),
         alive' = alive,
         iface' \in [Ifaces -> Gateways \cup {None}],
         records' \in [Ifaces -> Gateways \cup {None}], torn' \in BOOLEAN,
         lost' \subseteq Ifaces, count' \in [Events \cup {"ops"} -> Nat],
         \A c \in Events : count'[c] = 0 => count[c] = 0,
         Never({"repeats", "overlaps"}) => Accounted'
  PROVE  IInv'
<1>1. /\ LocalsTyped' /\ OthersKept(p)
      /\ pc'[p] = "idle" /\ at'[p] = <<1, 1>> /\ connected'[p] = <<>>
  BY FinishTyped DEF IInv
<1>2. TypeOK'
  BY <1>1, TypesTogether DEF IInv, TypeOK
<1>3. InOrder'
  BY <1>1, InOrderKept DEF IInv
<1>4. HoldsUp(p)' /\ (Accounted' => Lists(p)')
  BY <1>1 DEF HoldsUp, Lists, Idle
<1>5. OneAtATime' /\ WaitedIsUp' /\ ConnectedAreUp' /\ NothingUnlisted'
  BY <1>1, <1>4, Alone
<1> QED BY <1>2, <1>3, <1>5 DEF IInv

(* An operation goes on; only its pc, and perhaps its list, change.        *)
LEMMA GoOnStep ==
  ASSUME IInv, NEW p \in Frontends, ~Idle(p), NEW l \in Labels \ {"idle"}, Goto(p, l),
         LocalsTyped', OthersKept(p), InOrder',
         iface' \in [Ifaces -> Gateways \cup {None}],
         records' \in [Ifaces -> Gateways \cup {None}], torn' \in BOOLEAN,
         lost' \subseteq Ifaces, alive' = alive, count' \in [Events \cup {"ops"} -> Nat],
         \A c \in Events : count'[c] = 0 => count[c] = 0,
         Never({"overlaps"}) => HoldsUp(p)',
         Never({"repeats", "overlaps"}) => ListedBy(p)'
  PROVE  IInv'
<1>1. TypeOK'
  BY TypesTogether DEF IInv, TypeOK
<1>2. pc'[p] = l /\ (ListedBy(p)' => Lists(p)')
  BY GotoTyped DEF IInv, Lists, Idle
<1>3. OneAtATime' /\ WaitedIsUp' /\ ConnectedAreUp' /\ NothingUnlisted'
  BY <1>2, Alone
<1> QED BY <1>1, <1>3 DEF IInv

(* What a running operation owes before its step.                          *)
LEMMA Owed ==
  ASSUME IInv, NEW p \in Frontends, ~Idle(p)
  PROVE  /\ Never({"overlaps"}) => HoldsUp(p)
         /\ Never({"repeats", "overlaps"}) => ListedBy(p) /\ HoldsUp(p)
<1>1. Never({"repeats", "overlaps"}) => Never({"overlaps"})
  BY DEF Never
<1>2. Never({"overlaps"}) => HoldsUp(p)
  BY DEF IInv, WaitedIsUp, ConnectedAreUp, HoldsUp
<1> QED BY <1>1, <1>2 DEF IInv, NothingUnlisted

(* What is counted has happened, and stays counted.                        *)
LEMMA CountedTyped ==
  ASSUME TypeOK, NEW c \in Events, Counted(c)
  PROVE  /\ count' \in [Events \cup {"ops"} -> Nat] /\ count'[c] # 0
         /\ \A d \in Events : count'[d] = 0 => count[d] = 0
<1>1. count \in [Events \cup {"ops"} -> Nat] /\ count' = [count EXCEPT ![c] = @ + 1]
  BY DEF TypeOK, Counted
<1>2. count[c] \in Nat /\ count[c] + 1 \in Nat /\ count[c] + 1 # 0
  BY <1>1
<1>3. count'[c] = count[c] + 1 /\ \A d \in Events \ {c} : count'[d] = count[d]
  BY <1>1
<1>4. count' \in [Events \cup {"ops"} -> Nat]
  BY <1>1, <1>2
<1> QED BY <1>2, <1>3, <1>4

(* An interface brought down is nobody's any more.                         *)
LEMMA TakenDown ==
  ASSUME TypeOK, NEW i \in Ifaces, TakeDown(i)
  PROVE  /\ iface' \in [Ifaces -> Gateways \cup {None}] /\ lost' \subseteq Ifaces
         /\ \A j \in Ifaces \ {i} : iface'[j] = iface[j]
         /\ Mine' = Mine \ {i}
<1>1. /\ iface \in [Ifaces -> Gateways \cup {None}] /\ lost \subseteq Ifaces
      /\ iface' = [iface EXCEPT ![i] = None] /\ lost' = lost \ {i}
  BY DEF TypeOK, TakeDown
<1>2. iface' \in [Ifaces -> Gateways \cup {None}]
  BY <1>1
<1>3. iface'[i] = None /\ \A j \in Ifaces \ {i} : iface'[j] = iface[j]
  BY <1>1
<1>4. Up' = Up \ {i}
  BY <1>3 DEF Up
<1>5. Mine' = Mine \ {i}
  BY <1>1, <1>4 DEF Mine
<1> QED BY <1>1, <1>2, <1>3, <1>5

(* The shared variables' types, for the actions that leave them alone.     *)
LEMMA SharedTypes ==
  TypeOK => /\ iface \in [Ifaces -> Gateways \cup {None}]
            /\ records \in [Ifaces -> Gateways \cup {None}] /\ torn \in BOOLEAN
            /\ lost \subseteq Ifaces /\ count \in [Events \cup {"ops"} -> Nat]
BY DEF TypeOK

(* An interface whose down was called is off every list, brought down or   *)
(* not.                                                                    *)
LEMMA Downed ==
  ASSUME TypeOK, NEW i \in Ifaces, Down(i)
  PROVE  /\ iface' \in [Ifaces -> Gateways \cup {None}] /\ lost' \subseteq Ifaces
         /\ \A j \in Ifaces \ {i} : iface'[j] = iface[j]
         /\ Mine' = Mine \ {i}
         /\ count' \in [Events \cup {"ops"} -> Nat]
         /\ \A d \in Events : count'[d] = 0 => count[d] = 0
<1>1. CASE TakeDown(i) /\ UNCHANGED count
  BY <1>1, TakenDown, SharedTypes
<1>2. CASE Counted("faults") /\ lost' = lost \cup ({i} \cap Up) /\ UNCHANGED iface
  <2>1. "faults" \in Events
    BY DEF Events
  <2>2. Up' = Up /\ Up \subseteq Ifaces
    BY <1>2 DEF Up
  <2>3. Mine' = Mine \ {i} /\ lost' \subseteq Ifaces
    BY <1>2, <2>2, SharedTypes DEF Mine
  <2> QED BY <1>2, <2>1, <2>3, CountedTyped, SharedTypes
<1> QED BY <1>1, <1>2 DEF Down

(* A step that leaves the interfaces, the records and the history alone    *)
(* leaves alone what is up and what is recorded.                           *)
LEMMA MineKept ==
  ASSUME UNCHANGED <<iface, file, lost>>
  PROVE  Mine' = Mine /\ (Accounted <=> Accounted')
BY DEF Mine, Up, Accounted, file

(* What ends without having touched an interface or the file.              *)
LEMMA FinishQuietly ==
  ASSUME IInv, NEW p \in Frontends, ~Idle(p), Finish(p), Keeps, UNCHANGED <<iface, lost>>,
         Never({"repeats", "overlaps"}) => Accounted
  PROVE  IInv'
<1>1. /\ alive' = alive /\ iface' = iface /\ records' = records /\ torn' = torn
      /\ lost' = lost /\ count' = count
  BY DEF Keeps, file
<1>2. Never({"repeats", "overlaps"}) => Accounted'
  BY <1>1, MineKept DEF file
<1> QED BY <1>1, <1>2, SharedTypes, FinishStep DEF IInv

(* What remains owed by an operation after the disconnect when connect     *)
(* follows, or at its end.                                                 *)
LEMMA ContinueStep ==
  ASSUME IInv, NEW p \in Frontends, pc[p] \in {"load", "down"}, Continue(p),
         UNCHANGED <<alive, iface, lost, count>>,
         records' \in [Ifaces -> Gateways \cup {None}], torn' \in BOOLEAN,
         Never({"repeats", "overlaps"}) => Mine = {}
  PROVE  IInv'
<1>1. ~Idle(p) /\ Mine' = Mine
  BY DEF Idle, Mine, Up
<1>3. Never({"repeats", "overlaps"}) => Accounted'
  BY <1>1 DEF Accounted
<1>4. CASE Finish(p)
  BY <1>1, <1>3, <1>4, SharedTypes, FinishStep DEF IInv
<1>5. CASE Goto(p, "fetch") /\ UNCHANGED locals
  <2>1. pc' \in [Frontends -> Labels] /\ pc'[p] = "fetch" /\ \A q \in Frontends \ {p} : pc'[q] = pc[q]
    BY <1>5, GotoTyped DEF IInv, Labels
  <2>2. /\ after' = after /\ plan' = plan /\ at' = at /\ connected' = connected
        /\ downing' = downing /\ failed' = failed
    BY <1>5 DEF locals
  <2>3. LocalsTyped' /\ OthersKept(p)
    BY <2>1, <2>2, LocalTypes DEF IInv, LocalsTyped, OthersKept
  <2>4. at[p] = <<1, 1>> /\ connected[p] = <<>>
    BY DEF IInv, InOrder
  <2>5. InOrder'
    BY <2>1, <2>2, <2>3, <2>4, InOrderKept DEF IInv
  <2>6. HoldsUp(p)' /\ (Never({"repeats", "overlaps"}) => ListedBy(p)')
    BY <1>1, <2>1 DEF HoldsUp, ListedBy
  <2> QED BY <1>1, <1>5, <2>3, <2>5, <2>6, SharedTypes, GoOnStep DEF IInv, Labels
<1> QED BY <1>4, <1>5 DEF Continue

(* disconnect reads the records.                                           *)
LEMMA LoadRecordsStep ==
  ASSUME IInv, NEW p \in Frontends, LoadRecords(p)
  PROVE  IInv'
<1>1. /\ pc[p] = "load" /\ ~Idle(p) /\ Keeps /\ UNCHANGED <<iface, lost>>
      /\ Never({"repeats", "overlaps"}) => Accounted
  BY Owed DEF LoadRecords, Idle, ListedBy
<1>2. /\ alive' = alive /\ records' = records /\ torn' = torn /\ count' = count
      /\ UNCHANGED <<iface, file, lost>>
  BY <1>1 DEF Keeps, file
<1>3. Accounted => Mine \subseteq Recorded
  BY DEF Accounted, Mine, Up, Recorded, IInv, TypeOK
<1>4. CASE torn /\ Finish(p)
  BY <1>1, <1>4, FinishQuietly
<1>5. CASE ~torn /\ Recorded = {} /\ Continue(p)
  BY <1>1, <1>2, <1>3, <1>5, SharedTypes, ContinueStep DEF IInv
<1>6. CASE /\ downing' = [downing EXCEPT ![p] = Recorded]
           /\ Goto(p, "down")
           /\ UNCHANGED <<after, plan, at, connected, failed>>
  <2>1. pc' \in [Frontends -> Labels] /\ pc'[p] = "down" /\ \A q \in Frontends \ {p} : pc'[q] = pc[q]
    BY <1>6, GotoTyped DEF IInv, Labels
  <2>2. Recorded \in SUBSET Ifaces /\ downing \in [Frontends -> SUBSET Ifaces]
    BY DEF Recorded, IInv, TypeOK
  <2>3. downing' \in [Frontends -> SUBSET Ifaces] /\ downing'[p] = Recorded
    BY <1>6, <2>2
  <2>4. LocalsTyped' /\ OthersKept(p)
    BY <1>6, <2>1, <2>3, LocalTypes DEF IInv, LocalsTyped, OthersKept
  <2>5. at[p] = <<1, 1>> /\ connected[p] = <<>>
    BY <1>1 DEF IInv, InOrder
  <2>6. InOrder'
    BY <1>6, <2>1, <2>4, <2>5, InOrderKept DEF IInv
  <2>7. HoldsUp(p)' /\ (Never({"repeats", "overlaps"}) => ListedBy(p)')
    BY <1>1, <1>2, <1>3, <2>1, <2>3, MineKept DEF HoldsUp, ListedBy
  <2> QED BY <1>1, <1>2, <1>6, <2>4, <2>6, <2>7, SharedTypes, GoOnStep DEF IInv, Labels
<1> QED BY <1>4, <1>5, <1>6 DEF LoadRecords

(* One interface of the list is brought down.                              *)
LEMMA BringDownStep ==
  ASSUME IInv, NEW p \in Frontends, NEW i \in Ifaces, BringDown(p, i)
  PROVE  IInv'
<1>1. /\ pc[p] \in {"down", "rollback"} /\ ~Idle(p) /\ Down(i)
      /\ downing' = [downing EXCEPT ![p] = @ \ {i}]
      /\ UNCHANGED <<pc, after, plan, at, connected, failed>>
  BY DEF BringDown, Idle
<1>2. alive' = alive /\ records' = records /\ torn' = torn
  BY DEF BringDown, file
<1>3. Goto(p, pc[p]) /\ pc[p] \in Labels \ {"idle"}
  BY <1>1 DEF Goto, IInv, TypeOK, Labels
<1>4. downing \in [Frontends -> SUBSET Ifaces] /\ downing[p] \ {i} \in SUBSET Ifaces
  BY DEF IInv, TypeOK
<1>5. downing' \in [Frontends -> SUBSET Ifaces] /\ downing'[p] = downing[p] \ {i}
  BY <1>1, <1>4
<1>6. LocalsTyped' /\ OthersKept(p)
  BY <1>1, <1>5, LocalTypes DEF IInv, LocalsTyped, OthersKept
<1>7. InOrder'
  BY <1>1 DEF IInv, InOrder, Tunnel
<1>8. HoldsUp(p)'
  BY <1>1 DEF HoldsUp
<1>9. Never({"repeats", "overlaps"}) => Mine \subseteq downing[p]
  BY <1>1, Owed DEF ListedBy
<1>10. Never({"repeats", "overlaps"}) => ListedBy(p)'
  BY <1>1, <1>5, <1>9, Downed DEF ListedBy, IInv
<1> QED BY <1>1, <1>2, <1>3, <1>6, <1>7, <1>8, <1>10, Downed, SharedTypes, GoOnStep DEF IInv

(* disconnect has brought its list down and removes the records.           *)
LEMMA ClearRecordsStep ==
  ASSUME IInv, NEW p \in Frontends, ClearRecords(p)
  PROVE  IInv'
<1>1. /\ pc[p] = "down" /\ ~Idle(p) /\ downing[p] = {}
      /\ records' = Unrecorded /\ torn' = FALSE /\ Continue(p)
      /\ UNCHANGED <<alive, iface, lost, count>>
  BY DEF ClearRecords, Idle
<1>2. records' \in [Ifaces -> Gateways \cup {None}]
  BY <1>1 DEF Unrecorded
<1>3. Never({"repeats", "overlaps"}) => Mine = {}
  BY <1>1, Owed DEF ListedBy
<1> QED BY <1>1, <1>2, <1>3, ContinueStep

(* identity touches no tunnel.                                             *)
LEMMA IdentityStep ==
  ASSUME IInv, NEW p \in Frontends, Identity(p)
  PROVE  IInv'
<1>1. Never({"repeats", "overlaps"}) => Accounted
  BY Owed DEF Identity, Idle, ListedBy
<1> QED BY <1>1, FinishQuietly DEF Identity, Idle

(* connect fails before it has touched a tunnel.                           *)
LEMMA FetchFailsStep ==
  ASSUME IInv, NEW p \in Frontends, FetchFails(p)
  PROVE  IInv'
<1>1. Never({"repeats", "overlaps"}) => Accounted
  BY Owed DEF FetchFails, Idle, ListedBy, Accounted
<1> QED BY <1>1, FinishQuietly DEF FetchFails, Idle

(* connect gets its plan.                                                  *)
LEMMA FetchPlanStep ==
  ASSUME IInv, NEW p \in Frontends, FetchPlan(p)
  PROVE  IInv'
<1>1. /\ pc[p] = "fetch" /\ ~Idle(p) /\ Goto(p, "choose") /\ Keeps
      /\ UNCHANGED <<iface, lost, after, at, connected, downing, failed>>
  BY DEF FetchPlan, Idle
<1>2. PICK pl \in Plans : plan' = [plan EXCEPT ![p] = pl]
  BY DEF FetchPlan
<1>3. /\ alive' = alive /\ records' = records /\ torn' = torn /\ count' = count
      /\ UNCHANGED <<iface, file, lost>>
  BY <1>1 DEF Keeps, file
<1>4. pc' \in [Frontends -> Labels] /\ pc'[p] = "choose" /\ \A q \in Frontends \ {p} : pc'[q] = pc[q]
  BY <1>1, GotoTyped DEF IInv, Labels
<1>5. /\ plan' \in [Frontends -> Plans \cup {<<>>}] /\ plan'[p] = pl
      /\ \A q \in Frontends \ {p} : plan'[q] = plan[q]
  BY <1>2 DEF IInv, TypeOK
<1>6. LocalsTyped' /\ OthersKept(p)
  BY <1>1, <1>4, <1>5, LocalTypes DEF IInv, LocalsTyped, OthersKept
<1>7. at[p] = <<1, 1>> /\ connected[p] = <<>>
  BY <1>1 DEF IInv, InOrder
<1>8. InOrder'
  <2>1. Len(pl) \in Nat
    BY PlanTyped
  <2> QED BY <1>1, <1>4, <1>5, <1>6, <1>7, <2>1, InOrderKept DEF IInv
<1>9. HoldsUp(p)'
  BY <1>1, <1>4, <1>7 DEF HoldsUp
<1>10. Never({"repeats", "overlaps"}) => ListedBy(p)'
  <2>1. Never({"repeats", "overlaps"}) => Mine = {}
    BY <1>1, Owed DEF ListedBy
  <2> QED BY <1>3, <1>4, <2>1, MineKept DEF ListedBy
<1> QED BY <1>1, <1>3, <1>6, <1>8, <1>9, <1>10, SharedTypes, GoOnStep DEF IInv, Labels

(* A frontend in the middle of a connect: what it owes.                    *)
LEMMA OwedByConnect ==
  ASSUME IInv, NEW p \in Frontends, pc[p] \in {"choose", "up", "wait", "cleanup", "write"}
  PROVE  /\ ~Idle(p)
         /\ Never({"overlaps"}) => \A i \in DOMAIN connected[p] : iface[i] = connected[p][i]
         /\ Never({"repeats", "overlaps"}) =>
              Mine \subseteq DOMAIN connected[p] \cup (IF pc[p] \in {"wait", "cleanup"}
                                                       THEN {at[p][1]} ELSE {})
<1>1. ~Idle(p)
  BY DEF Idle
<1>2. Never({"overlaps"}) => \A i \in DOMAIN connected[p] : iface[i] = connected[p][i]
  BY <1>1, Owed DEF HoldsUp
<1>3. Never({"repeats", "overlaps"}) => ListedBy(p)
  BY <1>1, Owed
<1> QED BY <1>1, <1>2, <1>3 DEF ListedBy

(* Where connect is in its plan.                                           *)
LEMMA InThePlan ==
  ASSUME IInv, NEW p \in Frontends, pc[p] \in {"choose", "up", "wait", "cleanup"}
  PROVE  /\ plan[p] \in Plans /\ Len(plan[p]) \in Nat /\ Len(plan[p]) <= NIfaces
         /\ at[p] \in (1 .. NIfaces + 1) \X Nat
         /\ at[p][1] \in Nat /\ at[p][2] \in Nat /\ at[p][2] >= 1
         /\ connected[p] \in Seq(Gateways) /\ Len(connected[p]) \in Nat
         /\ DOMAIN connected[p] = 1 .. Len(connected[p])
         /\ at[p][1] = Len(connected[p]) + 1 /\ at[p][1] <= Len(plan[p]) + 1
         /\ at[p][1] <= Len(plan[p]) => Tunnel(p) \in Seq(Gateways) /\ Len(Tunnel(p)) \in Nat
<1>1. plan[p] \in Plans /\ at[p] \in (1 .. NIfaces + 1) \X Nat /\ connected[p] \in Seq(Gateways)
  BY DEF IInv, InOrder, TypeOK
<1>2. Len(plan[p]) \in Nat /\ Len(plan[p]) <= NIfaces
  BY <1>1, PlanTyped
<1>3. /\ at[p][1] = Len(connected[p]) + 1 /\ at[p][1] <= Len(plan[p]) + 1 /\ at[p][2] >= 1
      /\ at[p][1] \in Nat /\ at[p][1] >= 1 /\ at[p][2] \in Nat
  BY <1>1, ClientAssumption DEF IInv, InOrder
<1>4. at[p][1] <= Len(plan[p]) => Tunnel(p) \in Seq(Gateways)
  BY <1>1, <1>2, <1>3, PlanTyped DEF Tunnel
<1> QED BY <1>1, <1>2, <1>3, <1>4

(* The next instance of the same tunnel.                                   *)
LEMMA NextTyped ==
  ASSUME TypeOK, NEW p \in Frontends, NextInstance(p)
  PROVE  /\ at' \in [Frontends -> (1 .. NIfaces + 1) \X Nat]
         /\ at'[p] = <<at[p][1], at[p][2] + 1>>
         /\ \A q \in Frontends \ {p} : at'[q] = at[q]
<1>1. at \in [Frontends -> (1 .. NIfaces + 1) \X Nat]
  BY DEF TypeOK
<1>2. PICK t \in 1 .. NIfaces + 1, n \in Nat : at[p] = <<t, n>>
  BY <1>1
<1>3. at' = [at EXCEPT ![p] = [at[p] EXCEPT ![2] = n + 1]]
  BY <1>1, <1>2 DEF NextInstance
<1>4. [<<t, n>> EXCEPT ![2] = n + 1] = <<t, n + 1>>
  OBVIOUS
<1>5. <<t, n + 1>> \in (1 .. NIfaces + 1) \X Nat
  OBVIOUS
<1>6. at' = [at EXCEPT ![p] = <<t, n + 1>>]
  BY <1>2, <1>3, <1>4
<1> QED BY <1>1, <1>2, <1>5, <1>6

(* The instance to try is chosen, or passed for want of credentials.       *)
LEMMA ChooseInstanceStep ==
  ASSUME IInv, NEW p \in Frontends, ChooseInstance(p)
  PROVE  IInv'
<1>1. /\ pc[p] = "choose" /\ at[p][1] <= Len(plan[p]) /\ at[p][2] <= Len(Tunnel(p))
      /\ Keeps /\ UNCHANGED <<iface, lost, after, plan, connected, downing, failed>>
  BY DEF ChooseInstance
<1>2. PICK l \in {"up", "choose"} :
         /\ Goto(p, l)
         /\ \/ at' = at
            \/ NextInstance(p) /\ l = "choose"
  BY DEF ChooseInstance, NextInstance
<1>3. /\ alive' = alive /\ records' = records /\ torn' = torn /\ count' = count
      /\ UNCHANGED <<iface, file, lost>>
  BY <1>1, <1>2 DEF Keeps, file
<1>4. pc' \in [Frontends -> Labels] /\ pc'[p] = l /\ \A q \in Frontends \ {p} : pc'[q] = pc[q]
  BY <1>2, GotoTyped DEF IInv, Labels
<1>5. /\ at' \in [Frontends -> (1 .. NIfaces + 1) \X Nat]
      /\ \A q \in Frontends \ {p} : at'[q] = at[q]
      /\ at'[p][1] = at[p][1] /\ at'[p][2] \in {at[p][2], at[p][2] + 1}
      /\ l = "up" => at'[p] = at[p]
  <2>1. at \in [Frontends -> (1 .. NIfaces + 1) \X Nat]
    BY DEF IInv, TypeOK
  <2>2. CASE at' = at
    BY <2>1, <2>2
  <2>3. CASE NextInstance(p) /\ l = "choose"
    BY <2>1, <2>3, NextTyped DEF IInv
  <2> QED BY <1>2, <2>2, <2>3
<1>6. LocalsTyped' /\ OthersKept(p)
  BY <1>1, <1>4, <1>5, LocalTypes DEF IInv, LocalsTyped, OthersKept
<1>7. InOrder'
  <2>1. Tunnel(p)' = Tunnel(p)
    BY <1>1, <1>5 DEF Tunnel
  <2>2. /\ plan'[p] = plan[p] /\ connected'[p] = connected[p]
        /\ plan[p] \in Plans /\ at[p][1] = Len(connected[p]) + 1
        /\ at[p][2] \in Nat /\ at[p][2] >= 1 /\ at[p][1] <= Len(plan[p]) + 1
    BY <1>1, InThePlan
  <2>3. at'[p][2] >= 1 /\ (l = "up" => at'[p][2] <= Len(Tunnel(p)'))
    BY <1>1, <1>5, <2>1, <2>2
  <2> QED BY <1>1, <1>4, <1>5, <1>6, <2>2, <2>3, InOrderKept DEF IInv
<1>8. Never({"overlaps"}) => HoldsUp(p)'
  BY <1>1, <1>4, OwedByConnect DEF HoldsUp
<1>9. Never({"repeats", "overlaps"}) => ListedBy(p)'
  BY <1>1, <1>3, <1>4, OwedByConnect, MineKept DEF ListedBy
<1>11. l \in Labels \ {"idle"}
  BY DEF Labels
<1> QED BY <1>1, <1>2, <1>3, <1>6, <1>7, <1>8, <1>9, <1>11, SharedTypes, GoOnStep, OwedByConnect
        DEF IInv

(* wg-quick up puts the instance being tried on its interface.             *)
LEMMA UpSucceedsStep ==
  ASSUME IInv, NEW p \in Frontends, UpSucceeds(p)
  PROVE  IInv'
<1>1. /\ pc[p] = "up" /\ iface' = [iface EXCEPT ![at[p][1]] = Instance(p)]
      /\ Goto(p, "wait") /\ Keeps
      /\ lost' = lost /\ after' = after /\ plan' = plan /\ at' = at
      /\ connected' = connected /\ downing' = downing /\ failed' = failed
  BY DEF UpSucceeds, locals
<1>2. alive' = alive /\ records' = records /\ torn' = torn /\ count' = count
  BY <1>1 DEF Keeps, file
<1>3. pc' \in [Frontends -> Labels] /\ pc'[p] = "wait" /\ \A q \in Frontends \ {p} : pc'[q] = pc[q]
  BY <1>1, GotoTyped DEF IInv, Labels
<1>4. LocalsTyped' /\ OthersKept(p)
  BY <1>1, <1>3, LocalTypes DEF IInv, LocalsTyped, OthersKept
<1>5. /\ at[p][1] \in Ifaces /\ at[p][1] = Len(connected[p]) + 1
      /\ Instance(p) \in Gateways
      /\ iface \in [Ifaces -> Gateways \cup {None}]
  BY <1>1, Tried DEF IInv, TypeOK
<1>6. /\ iface' \in [Ifaces -> Gateways \cup {None}]
      /\ iface'[at[p][1]] = Instance(p)
      /\ \A i \in Ifaces \ {at[p][1]} : iface'[i] = iface[i]
  BY <1>1, <1>5
<1>7. /\ DOMAIN connected[p] = 1 .. Len(connected[p]) /\ Len(connected[p]) \in Nat
      /\ DOMAIN connected[p] \subseteq Ifaces
  BY <1>1, ConnectedIfaces DEF IInv
<1>8. Tunnel(p)' = Tunnel(p) /\ Instance(p)' = Instance(p)
  BY <1>1 DEF Tunnel, Instance
<1>9. InOrder'
  BY <1>1, <1>3, <1>4, <1>8, InOrderKept DEF IInv, InOrder
<1>10. Never({"overlaps"}) => HoldsUp(p)'
  <2>1. \A i \in DOMAIN connected[p] : iface'[i] = iface[i]
    BY <1>5, <1>6, <1>7
  <2> QED BY <1>1, <1>3, <1>6, <1>8, <2>1, OwedByConnect DEF HoldsUp
<1>11. Never({"repeats", "overlaps"}) => ListedBy(p)'
  <2>1. Mine' \subseteq Mine \cup {at[p][1]}
    BY <1>1, <1>6 DEF Mine, Up
  <2>2. Never({"repeats", "overlaps"}) => Mine \subseteq DOMAIN connected[p]
    BY <1>1, OwedByConnect
  <2> QED BY <1>1, <1>3, <2>1, <2>2 DEF ListedBy
<1> QED BY <1>1, <1>2, <1>3, <1>4, <1>6, <1>9, <1>10, <1>11, SharedTypes, GoOnStep, OwedByConnect
        DEF IInv, Labels

(* An instance that could not be set up, or did not answer, is to be       *)
(* cleaned up.                                                             *)
LEMMA GiveUpStep ==
  ASSUME IInv, NEW p \in Frontends, pc[p] \in {"up", "wait"}, NEW why \in BOOLEAN, GiveUp(p, why),
         count' \in [Events \cup {"ops"} -> Nat],
         \A d \in Events : count'[d] = 0 => count[d] = 0
  PROVE  /\ IInv' /\ OthersKept(p)
         /\ pc'[p] = "cleanup" /\ plan' = plan /\ at' = at
         /\ failed[p] \subseteq failed'[p] /\ (why => Instance(p) \in failed'[p])
<1> DEFINE gone == IF why THEN failed[p] \cup {Instance(p)} ELSE failed[p]
<1>1. /\ alive' = alive /\ records' = records /\ torn' = torn
      /\ after' = after /\ plan' = plan /\ at' = at /\ connected' = connected
      /\ downing' = downing /\ iface' = iface /\ lost' = lost
      /\ UNCHANGED <<iface, file, lost>> /\ Goto(p, "cleanup")
      /\ failed' = [failed EXCEPT ![p] = gone]
  BY DEF GiveUp, file
<1>2. pc' \in [Frontends -> Labels] /\ pc'[p] = "cleanup" /\ \A q \in Frontends \ {p} : pc'[q] = pc[q]
  BY <1>1, GotoTyped DEF IInv, Labels
<1>3. /\ failed \in [Frontends -> SUBSET Gateways] /\ gone \in SUBSET Gateways
  BY Tried DEF IInv, TypeOK
<1>4. /\ failed' \in [Frontends -> SUBSET Gateways]
      /\ failed'[p] = gone
      /\ \A q \in Frontends \ {p} : failed'[q] = failed[q]
  BY <1>1, <1>3
<1>5. LocalsTyped' /\ OthersKept(p)
  BY <1>1, <1>2, <1>4, LocalTypes DEF IInv, LocalsTyped, OthersKept
<1>6. InOrder'
  <2>1. Tunnel(p)' = Tunnel(p)
    BY <1>1 DEF Tunnel
  <2> QED BY <1>1, <1>2, <1>5, <2>1, InOrderKept DEF IInv, InOrder
<1>7. Never({"overlaps"}) => HoldsUp(p)'
  BY <1>1, <1>2, OwedByConnect DEF HoldsUp
<1>8. Never({"repeats", "overlaps"}) => ListedBy(p)'
  BY <1>1, <1>2, OwedByConnect, MineKept DEF ListedBy
<1>9. IInv'
  BY <1>1, <1>5, <1>6, <1>7, <1>8, SharedTypes, GoOnStep, OwedByConnect DEF IInv, Labels
<1> QED BY <1>1, <1>2, <1>4, <1>5, <1>9

(* The gateway on the interface waited for has answered.                   *)
LEMMA HandshakeStep ==
  ASSUME IInv, NEW p \in Frontends, Handshake(p)
  PROVE  IInv'
<1>1. /\ pc[p] = "wait" /\ connected' = [connected EXCEPT ![p] = Append(@, Instance(p))]
      /\ at' = [at EXCEPT ![p] = <<@[1] + 1, 1>>]
      /\ Goto(p, "choose") /\ Keeps
      /\ UNCHANGED <<iface, lost, after, plan, downing, failed>>
  BY DEF Handshake
<1>2. /\ alive' = alive /\ records' = records /\ torn' = torn /\ count' = count
      /\ UNCHANGED <<iface, file, lost>>
  BY <1>1 DEF Keeps, file
<1>3. pc' \in [Frontends -> Labels] /\ pc'[p] = "choose" /\ \A q \in Frontends \ {p} : pc'[q] = pc[q]
  BY <1>1, GotoTyped DEF IInv, Labels
<1> DEFINE n == Len(connected[p])
<1>4. /\ at[p][1] \in Ifaces /\ at[p][1] = n + 1 /\ Instance(p) \in Gateways
  BY <1>1, Tried DEF IInv
<1>5. /\ connected[p] \in Seq(Gateways) /\ n \in Nat /\ DOMAIN connected[p] = 1 .. n
      /\ plan[p] \in Plans /\ Len(plan[p]) \in Nat
      /\ at[p][1] <= Len(plan[p]) /\ at[p][1] \in Nat
  BY <1>1, InThePlan DEF IInv, InOrder
<1>6. /\ Append(connected[p], Instance(p)) \in Seq(Gateways)
      /\ Len(Append(connected[p], Instance(p))) = n + 1
      /\ DOMAIN Append(connected[p], Instance(p)) = 1 .. n + 1
      /\ \A i \in 1 .. n : Append(connected[p], Instance(p))[i] = connected[p][i]
      /\ Append(connected[p], Instance(p))[n + 1] = Instance(p)
  BY <1>4, <1>5
<1>7. /\ connected' \in [Frontends -> Seq(Gateways)]
      /\ connected'[p] = Append(connected[p], Instance(p))
      /\ \A q \in Frontends \ {p} : connected'[q] = connected[q]
  BY <1>1, <1>6 DEF IInv, TypeOK
<1>8. <<at[p][1] + 1, 1>> \in (1 .. NIfaces + 1) \X Nat
  BY <1>4, ClientAssumption DEF Ifaces
<1>9. /\ at' \in [Frontends -> (1 .. NIfaces + 1) \X Nat] /\ at'[p] = <<at[p][1] + 1, 1>>
      /\ \A q \in Frontends \ {p} : at'[q] = at[q]
  BY <1>1, <1>8 DEF IInv, TypeOK
<1>10. LocalsTyped' /\ OthersKept(p)
  BY <1>1, <1>3, <1>7, <1>9, LocalTypes DEF IInv, LocalsTyped, OthersKept
<1>11. InOrder'
  <2>1. /\ plan'[p] = plan[p] /\ at'[p][1] = Len(connected'[p]) + 1
        /\ at'[p][1] <= Len(plan'[p]) + 1 /\ at'[p][2] >= 1
    BY <1>1, <1>4, <1>5, <1>6, <1>7, <1>9
  <2> QED BY <1>3, <1>5, <1>10, <2>1, InOrderKept DEF IInv
<1>12. Never({"overlaps"}) => HoldsUp(p)'
  <2>1. Never({"overlaps"}) => iface[at[p][1]] = Instance(p)
    BY <1>1, OwedByConnect, Owed DEF HoldsUp
  <2>2. Never({"overlaps"}) => \A i \in 1 .. n + 1 : iface[i] = connected'[p][i]
    BY <1>1, <1>4, <1>5, <1>6, <1>7, <2>1, OwedByConnect
  <2> QED BY <1>1, <1>3, <1>6, <1>7, <2>2 DEF HoldsUp
<1>13. Never({"repeats", "overlaps"}) => ListedBy(p)'
  <2>1. DOMAIN connected[p] \cup {at[p][1]} \subseteq DOMAIN connected'[p]
    BY <1>4, <1>5, <1>6, <1>7
  <2> QED BY <1>1, <1>2, <1>3, <2>1, OwedByConnect, MineKept DEF ListedBy
<1> QED BY <1>1, <1>2, <1>10, <1>11, <1>12, <1>13, SharedTypes, GoOnStep, OwedByConnect
        DEF IInv, Labels

(* The instance that did not answer is brought down, the next one's turn.  *)
LEMMA QuietDownStep ==
  ASSUME IInv, NEW p \in Frontends, QuietDown(p)
  PROVE  IInv'
<1>1. /\ pc[p] = "cleanup" /\ Down(at[p][1]) /\ NextInstance(p)
      /\ Goto(p, "choose")
      /\ UNCHANGED <<after, plan, connected, downing, failed>>
  BY DEF QuietDown, NextInstance
<1>2. alive' = alive /\ records' = records /\ torn' = torn
  BY DEF QuietDown, file
<1>3. pc' \in [Frontends -> Labels] /\ pc'[p] = "choose" /\ \A q \in Frontends \ {p} : pc'[q] = pc[q]
  BY <1>1, GotoTyped DEF IInv, Labels
<1>4. /\ at' \in [Frontends -> (1 .. NIfaces + 1) \X Nat]
      /\ at'[p] = <<at[p][1], at[p][2] + 1>> /\ \A q \in Frontends \ {p} : at'[q] = at[q]
  BY <1>1, NextTyped DEF IInv
<1>5. LocalsTyped' /\ OthersKept(p)
  BY <1>1, <1>3, <1>4, LocalTypes DEF IInv, LocalsTyped, OthersKept
<1>6. /\ at[p][1] \in Ifaces /\ at[p][1] = Len(connected[p]) + 1
      /\ DOMAIN connected[p] = 1 .. Len(connected[p]) /\ Len(connected[p]) \in Nat
      /\ DOMAIN connected[p] \subseteq Ifaces
  BY <1>1, Tried, ConnectedIfaces DEF IInv
<1>7. InOrder'
  <2>1. /\ plan'[p] = plan[p] /\ connected'[p] = connected[p] /\ plan[p] \in Plans
        /\ at'[p][1] = Len(connected[p]) + 1 /\ at'[p][1] <= Len(plan[p]) + 1
    BY <1>1, <1>4, InThePlan
  <2>2. at'[p][2] >= 1
    BY <1>1, <1>4, InThePlan
  <2> QED BY <1>3, <1>5, <2>1, <2>2, InOrderKept DEF IInv
<1>8. /\ iface' \in [Ifaces -> Gateways \cup {None}] /\ lost' \subseteq Ifaces
      /\ \A j \in Ifaces \ {at[p][1]} : iface'[j] = iface[j]
      /\ count' \in [Events \cup {"ops"} -> Nat]
      /\ \A d \in Events : count'[d] = 0 => count[d] = 0
      /\ Mine' = Mine \ {at[p][1]}
  BY <1>1, <1>6, Downed DEF IInv
<1>9. Never({"overlaps"}) => HoldsUp(p)'
  <2>1. \A i \in DOMAIN connected[p] : iface'[i] = iface[i]
    BY <1>6, <1>8
  <2> QED BY <1>1, <1>3, <2>1, OwedByConnect DEF HoldsUp
<1>10. Never({"repeats", "overlaps"}) => ListedBy(p)'
  <2>1. Never({"repeats", "overlaps"}) => Mine \subseteq DOMAIN connected[p] \cup {at[p][1]}
    BY <1>1, OwedByConnect
  <2>2. Never({"repeats", "overlaps"}) => Mine' \subseteq DOMAIN connected'[p]
    BY <1>1, <1>8, <2>1
  <2> QED BY <1>3, <2>2 DEF ListedBy
<1> QED BY <1>1, <1>2, <1>5, <1>7, <1>8, <1>9, <1>10, SharedTypes, GoOnStep, OwedByConnect
        DEF IInv, Labels

(* The rollback's list is all that connect has up and that is not lost.    *)
LEMMA RollbackStep ==
  ASSUME IInv, NEW p \in Frontends, pc[p] \in {"choose", "up", "wait", "cleanup"}, Rollback(p),
         lost' \subseteq Ifaces, count' \in [Events \cup {"ops"} -> Nat],
         \A c \in Events : count'[c] = 0 => count[c] = 0,
         lost \subseteq lost',
         pc[p] \in {"wait", "cleanup"} => {at[p][1]} \cap Up \subseteq lost'
  PROVE  IInv'
<1>1. /\ Goto(p, "rollback") /\ downing' = [downing EXCEPT ![p] = 1 .. Len(connected[p])]
      /\ alive' = alive /\ iface' = iface /\ records' = records /\ torn' = torn
      /\ after' = after /\ plan' = plan /\ at' = at /\ connected' = connected /\ failed' = failed
  BY DEF Rollback, file
<1>2. pc' \in [Frontends -> Labels] /\ pc'[p] = "rollback" /\ \A q \in Frontends \ {p} : pc'[q] = pc[q]
  BY <1>1, GotoTyped DEF IInv, Labels
<1>3. /\ DOMAIN connected[p] = 1 .. Len(connected[p]) /\ Len(connected[p]) \in Nat
      /\ 1 .. Len(connected[p]) \in SUBSET Ifaces
  BY ConnectedIfaces DEF IInv
<1>4. downing' \in [Frontends -> SUBSET Ifaces] /\ downing'[p] = DOMAIN connected[p]
  BY <1>1, <1>3 DEF IInv, TypeOK
<1>5. LocalsTyped' /\ OthersKept(p)
  BY <1>1, <1>2, <1>4, LocalTypes DEF IInv, LocalsTyped, OthersKept
<1>6. InOrder'
  <2>1. Len(connected[p]) <= NIfaces /\ at[p][2] >= 1
    BY InThePlan, ClientAssumption
  <2> QED BY <1>1, <1>2, <1>5, <2>1, InOrderKept DEF IInv
<1>7. HoldsUp(p)'
  BY <1>2 DEF HoldsUp
<1>8. Never({"repeats", "overlaps"}) => ListedBy(p)'
  <2>1. Mine' \subseteq Mine \ (IF pc[p] \in {"wait", "cleanup"} THEN {at[p][1]} ELSE {})
    BY <1>1 DEF Mine, Up
  <2>2. Never({"repeats", "overlaps"}) => Mine' \subseteq DOMAIN connected[p]
    BY <2>1, OwedByConnect
  <2> QED BY <1>2, <1>4, <2>2 DEF ListedBy
<1> QED BY <1>1, <1>5, <1>6, <1>7, <1>8, SharedTypes, GoOnStep, OwedByConnect DEF IInv, Labels

(* No instance of a tunnel answered.                                       *)
LEMMA NoInstanceStep ==
  ASSUME IInv, NEW p \in Frontends, NoInstance(p)
  PROVE  IInv'
<1>1. pc[p] = "choose" /\ Rollback(p) /\ lost' = lost /\ count' = count
  BY DEF NoInstance
<1> QED BY <1>1, SharedTypes, RollbackStep DEF IInv

(* Ctrl-C, or a wait that fails: the interface being tried is the one that *)
(* is in no list.                                                          *)
LEMMA AbandonStep ==
  ASSUME IInv, NEW p \in Frontends, pc[p] \in {"choose", "up", "wait", "cleanup"}, Abandon(p),
         NEW c \in Events, Counted(c)
  PROVE  IInv'
<1>1. Rollback(p) /\ lost' = lost \cup ({at[p][1]} \cap Up)
  BY DEF Abandon
<1>2. /\ count' \in [Events \cup {"ops"} -> Nat]
      /\ \A d \in Events : count'[d] = 0 => count[d] = 0
  BY CountedTyped DEF IInv
<1>3. lost' \subseteq Ifaces /\ lost \subseteq lost' /\ {at[p][1]} \cap Up \subseteq lost'
  BY <1>1, SharedTypes DEF IInv, Up
<1> QED BY <1>1, <1>2, <1>3, RollbackStep

(* The rollback has brought its list down.                                 *)
LEMMA RolledBackStep ==
  ASSUME IInv, NEW p \in Frontends, RolledBack(p)
  PROVE  IInv'
<1>1. Never({"repeats", "overlaps"}) => Accounted
  BY Owed DEF RolledBack, Idle, ListedBy, Accounted
<1> QED BY <1>1, FinishQuietly DEF RolledBack, Idle

(* connect has all tunnels of its plan up and opens the file.              *)
LEMMA OpenRecordsStep ==
  ASSUME IInv, NEW p \in Frontends, OpenRecords(p)
  PROVE  IInv'
<1>1. /\ pc[p] = "choose" /\ records' = Unrecorded /\ torn' = TRUE /\ Goto(p, "write")
      /\ alive' = alive /\ iface' = iface /\ lost' = lost /\ count' = count
      /\ after' = after /\ plan' = plan /\ at' = at /\ connected' = connected
      /\ downing' = downing /\ failed' = failed
  BY DEF OpenRecords, locals
<1>2. pc' \in [Frontends -> Labels] /\ pc'[p] = "write" /\ \A q \in Frontends \ {p} : pc'[q] = pc[q]
  BY <1>1, GotoTyped DEF IInv, Labels
<1>3. LocalsTyped' /\ OthersKept(p)
  BY <1>1, <1>2, LocalTypes DEF IInv, LocalsTyped, OthersKept
<1>4. InOrder'
  <2>1. Len(connected[p]) <= NIfaces /\ at[p][2] >= 1
    BY <1>1, InThePlan, ClientAssumption
  <2> QED BY <1>1, <1>2, <1>3, <2>1, InOrderKept DEF IInv
<1>5. Never({"overlaps"}) => HoldsUp(p)'
  BY <1>1, <1>2, OwedByConnect DEF HoldsUp
<1>6. Never({"repeats", "overlaps"}) => ListedBy(p)'
  <2>1. Mine' = Mine
    BY <1>1 DEF Mine, Up
  <2> QED BY <1>1, <1>2, <2>1, OwedByConnect DEF ListedBy
<1>8. records' \in [Ifaces -> Gateways \cup {None}] /\ torn' \in BOOLEAN
  BY <1>1 DEF Unrecorded
<1> QED BY <1>1, <1>3, <1>4, <1>5, <1>6, <1>8, SharedTypes, GoOnStep, OwedByConnect
        DEF IInv, Labels

(* ... and records them: they are all that is up.                          *)
LEMMA SaveRecordsStep ==
  ASSUME IInv, NEW p \in Frontends, SaveRecords(p)
  PROVE  IInv'
<1>1. /\ pc[p] = "write" /\ Finish(p) /\ torn' = FALSE
      /\ records' = [i \in Ifaces |-> IF i \in DOMAIN connected[p]
                                      THEN connected[p][i] ELSE None]
      /\ alive' = alive /\ iface' = iface /\ lost' = lost /\ count' = count
  BY DEF SaveRecords
<1>2. /\ connected[p] \in Seq(Gateways)
      /\ \A i \in DOMAIN connected[p] : connected[p][i] \in Gateways
  BY DEF IInv, TypeOK
<1>3. records' \in [Ifaces -> Gateways \cup {None}]
  BY <1>1, <1>2
<1>4. Never({"repeats", "overlaps"}) => Accounted'
  <2>1. Never({"repeats", "overlaps"}) => Never({"overlaps"})
    BY DEF Never
  <2>2. Mine' = Mine /\ Mine \subseteq Ifaces
    BY <1>1 DEF Mine, Up
  <2>3. Never({"repeats", "overlaps"}) =>
          \A i \in Mine : i \in DOMAIN connected[p] /\ iface[i] = connected[p][i]
    BY <1>1, <2>1, OwedByConnect
  <2>4. Never({"repeats", "overlaps"}) => \A i \in Mine : records'[i] = iface'[i]
    BY <1>1, <2>2, <2>3
  <2> QED BY <1>1, <2>2, <2>4 DEF Accounted
<1> QED BY <1>1, <1>3, <1>4, SharedTypes, FinishStep, OwedByConnect DEF IInv

(* A file that fails ends the operation: the history takes over the        *)
(* tunnels it leaves unrecorded ...                                        *)
LEMMA FileFailsStep ==
  ASSUME IInv, NEW p \in Frontends, FileFails(p)
  PROVE  IInv'
<1>1. /\ ~Idle(p) /\ Finish(p) /\ Counted("faults")
      /\ lost' = lost \cup (DOMAIN connected[p] \cap LeftOut)
      /\ alive' = alive /\ iface' = iface /\ records' = records /\ torn' = torn
  BY DEF FileFails, Idle, file
<1>2. "faults" \in Events
  BY DEF Events
<1>3. /\ count' \in [Events \cup {"ops"} -> Nat]
      /\ \A d \in Events : count'[d] = 0 => count[d] = 0
  BY <1>1, <1>2, CountedTyped DEF IInv
<1>4. lost' \subseteq Ifaces /\ Mine' = Mine \ (DOMAIN connected[p] \cap LeftOut)
  BY <1>1, SharedTypes DEF IInv, LeftOut, Up, Mine
<1>5. Never({"repeats", "overlaps"}) => Accounted'
  <2>1. CASE pc[p] = "load"
    <3>1. Never({"repeats", "overlaps"}) => Accounted
      BY <1>1, <2>1, Owed DEF ListedBy
    <3> QED BY <1>1, <1>4, <3>1 DEF Accounted
  <2>2. CASE pc[p] = "down" /\ downing[p] = {}
    <3>1. Never({"repeats", "overlaps"}) => Mine = {}
      BY <1>1, <2>2, Owed DEF ListedBy
    <3> QED BY <1>1, <1>4, <3>1 DEF Accounted
  <2>3. CASE pc[p] \in {"choose", "write"}
    <3>1. Never({"repeats", "overlaps"}) => Mine \subseteq DOMAIN connected[p]
      BY <2>3, OwedByConnect
    <3>2. Never({"repeats", "overlaps"}) => Mine' \subseteq Up \ LeftOut
      BY <1>4, <3>1 DEF Mine
    <3>3. \A i \in Up \ LeftOut : ~torn /\ records[i] = iface[i]
      BY DEF LeftOut
    <3> QED BY <1>1, <3>2, <3>3 DEF Accounted
  <2> QED BY <2>1, <2>2, <2>3 DEF FileFails
<1> QED BY <1>1, <1>3, <1>4, <1>5, SharedTypes, FinishStep DEF IInv

(* ... and, when the process dies, all that is up and unrecorded.          *)
LEMMA KillStep ==
  ASSUME IInv, NEW p \in Frontends, Kill(p)
  PROVE  IInv'
<1>1. /\ ~Idle(p) /\ Finish(p) /\ Counted("kills")
      /\ lost' = lost \cup LeftOut
      /\ alive' = alive /\ iface' = iface /\ records' = records /\ torn' = torn
  BY DEF Kill, file
<1>2. "kills" \in Events
  BY DEF Events
<1>3. /\ count' \in [Events \cup {"ops"} -> Nat]
      /\ \A d \in Events : count'[d] = 0 => count[d] = 0
  BY <1>1, <1>2, CountedTyped DEF IInv
<1>4. lost' \subseteq Ifaces
  BY <1>1, SharedTypes DEF IInv, LeftOut, Up
<1>5. Accounted'
  BY <1>1, SharedTypes DEF Accounted, Mine, Up, LeftOut, IInv
<1> QED BY <1>1, <1>3, <1>4, <1>5, SharedTypes, FinishStep DEF IInv

(* What leaves interfaces, records and operations alone: gateways that     *)
(* come and go, the application's end, the window's own events.            *)
LEMMA ElsewhereStep ==
  ASSUME IInv, UNCHANGED <<iface, file, lost, pc, locals>>, alive' \subseteq Gateways,
         count' \in [Events \cup {"ops"} -> Nat],
         \A c \in Events : count'[c] = 0 => count[c] = 0
  PROVE  IInv'
<1>1. /\ iface' = iface /\ records' = records /\ torn' = torn /\ lost' = lost /\ pc' = pc
      /\ after' = after /\ plan' = plan /\ at' = at /\ connected' = connected
      /\ downing' = downing /\ failed' = failed
  BY DEF file, locals
<1>2. LocalsTyped'
  BY <1>1, LocalTypes DEF IInv, LocalsTyped
<1>3. TypeOK'
  BY <1>1, <1>2, SharedTypes, TypesTogether DEF IInv
<1>4. InOrder'
  BY <1>1 DEF IInv, InOrder, Tunnel
<1>5. \A S \in SUBSET Events : Never(S)' => Never(S)
  BY DEF Never
<1>6. /\ Never({"overlaps"})' => Never({"overlaps"})
      /\ Never({"repeats", "overlaps"})' => Never({"repeats", "overlaps"})
  BY <1>5 DEF Events
<1>7. OneAtATime'
  BY <1>1, <1>6 DEF IInv, OneAtATime, Idle
<1>8. WaitedIsUp' /\ ConnectedAreUp'
  BY <1>1, <1>6 DEF IInv, WaitedIsUp, ConnectedAreUp, Instance, Tunnel
<1>9. NothingUnlisted'
  BY <1>1, <1>6 DEF IInv, NothingUnlisted, ListedBy, Accounted, Mine, Up, Idle
<1> QED BY <1>3, <1>4, <1>7, <1>8, <1>9 DEF IInv

(* A gateway goes down or comes back.                                      *)
LEMMA FlipStep ==
  ASSUME IInv, NEW g \in Usable, Flip(g)
  PROVE  IInv'
<1>1. "flips" \in Events
  BY DEF Events
<1>2. Counted("flips") /\ UNCHANGED <<iface, file, lost, pc, locals>> /\ alive' \subseteq Gateways
  BY ClientAssumption DEF Flip, IInv, TypeOK
<1> QED BY <1>1, <1>2, CountedTyped, ElsewhereStep DEF IInv

-----------------------------------------------------------------------------
(* All of them together.                                                   *)

(* An instance given up, for a reason of its own or not.                   *)
LEMMA GivenUp ==
  ASSUME IInv, NEW p \in Frontends, UpFails(p) \/ HandshakeTimeout(p)
  PROVE  /\ pc[p] \in {"up", "wait"}
         /\ \A d \in Events : count'[d] = 0 => count[d] = 0
         /\ IInv' /\ OthersKept(p)
         /\ pc'[p] = "cleanup" /\ plan' = plan /\ at' = at
         /\ failed[p] \subseteq failed'[p]
         /\ \/ Instance(p) \in failed'[p]
            \/ pc[p] = "up" /\ iface[at[p][1]] # None /\ at[p][1] \notin lost
            \/ pc[p] = "wait" /\ ~Shakes(p) /\ Instance(p) \in alive
<1>1. count \in [Events \cup {"ops"} -> Nat] /\ "faults" \in Events
  BY DEF IInv, TypeOK, Events
<1>2. CASE /\ pc[p] = "up"
           /\ GiveUp(p, at[p][1] \in lost \/ Instance(p) \notin alive)
           /\ iface[at[p][1]] # None \/ Instance(p) \notin alive
           /\ UNCHANGED count
  <2>1. ASSUME NEW why \in BOOLEAN, GiveUp(p, why)
        PROVE  /\ IInv' /\ OthersKept(p)
               /\ pc'[p] = "cleanup" /\ plan' = plan /\ at' = at
               /\ failed[p] \subseteq failed'[p] /\ (why => Instance(p) \in failed'[p])
    BY <1>1, <1>2, <2>1, GiveUpStep
  <2>2. CASE at[p][1] \in lost \/ Instance(p) \notin alive
    <3>1. GiveUp(p, TRUE)
      BY <1>2, <2>2 DEF GiveUp
    <3> QED BY <1>2, <2>1, <3>1
  <2>3. CASE ~(at[p][1] \in lost \/ Instance(p) \notin alive)
    <3>1. GiveUp(p, FALSE)
      BY <1>2, <2>3 DEF GiveUp
    <3> QED BY <1>2, <2>1, <2>3, <3>1
  <2> QED BY <2>2, <2>3
<1>3. CASE pc[p] = "up" /\ Counted("faults") /\ GiveUp(p, TRUE)
  BY <1>1, <1>3, CountedTyped, GiveUpStep DEF IInv
<1>4. CASE HandshakeTimeout(p)
  <2>1. (Instance(p) \notin alive) \in BOOLEAN
    OBVIOUS
  <2>2. pc[p] = "wait" /\ ~Shakes(p) /\ GiveUp(p, Instance(p) \notin alive) /\ count' = count
    BY <1>4 DEF HandshakeTimeout
  <2> QED BY <1>1, <2>1, <2>2, GiveUpStep
<1> QED BY <1>2, <1>3, <1>4 DEF UpFails

(* Every step of an operation preserves the invariant.                     *)
LEMMA OperationStep ==
  ASSUME IInv, NEW p \in Frontends, Step(p)
  PROVE  IInv'
<1>1. CASE WaitFails(p)
  BY <1>1, AbandonStep DEF WaitFails, Events
<1> QED BY <1>1, LoadRecordsStep, ClearRecordsStep, IdentityStep, FetchPlanStep, FetchFailsStep,
        ChooseInstanceStep, UpSucceedsStep, GivenUp, HandshakeStep, QuietDownStep,
        NoInstanceStep, RolledBackStep, OpenRecordsStep, SaveRecordsStep, BringDownStep
        DEF Step

(* So does every step of the desktop application and of the CLI.           *)
LEMMA DesktopStep ==
  ASSUME IInv, [DesktopNext]_desktop
  PROVE  IInv'
<1>1. TypeOK /\ alive \subseteq Gateways /\ count \in [Events \cup {"ops"} -> Nat]
  BY DEF IInv, TypeOK
<1>2. ASSUME UNCHANGED vars PROVE IInv'
  BY <1>1, <1>2, ElsewhereStep DEF vars
<1>3. CASE Elsewhere
  <2>1. ASSUME NEW p \in Frontends, Step(p) \/ Interrupt(p) \/ FileFails(p) \/ Kill(p)
        PROVE  IInv'
    <3>1. CASE Interrupt(p)
      BY <3>1, AbandonStep DEF Interrupt, Events
    <3> QED BY <2>1, <3>1, OperationStep, FileFailsStep, KillStep
  <2>2. ASSUME NEW p \in Frontends, NEW op \in Operations, Start(p, op)
        PROVE  IInv'
    BY <2>2, StartStep
  <2>3. ASSUME NEW g \in Usable, Flip(g)
        PROVE  IInv'
    BY <2>3, FlipStep
  <2> QED BY <1>3, <2>1, <2>2, <2>3 DEF Elsewhere
<1>4. CASE Work
  BY <1>4, OperationStep, FileFailsStep, DesktopAssumption DEF Work
<1>5. CASE Quit
  <2>1. CASE Idle(Gui)
    <3>1. "quits" \in Events
      BY DEF Events
    <3>2. Counted("quits") /\ UNCHANGED <<alive, iface, file, lost, pc, locals>>
      BY <1>5, <2>1 DEF Quit
    <3> QED BY <1>1, <3>1, <3>2, CountedTyped, ElsewhereStep
  <2>2. CASE ~Idle(Gui)
    BY <1>5, <2>2, KillStep, DesktopAssumption DEF Quit
  <2> QED BY <2>1, <2>2
<1>6. CASE ThreadEnds \/ Succeeded \/ Failed \/ CloseWarning \/ Timer \/ Launch
  BY <1>2, <1>6 DEF ThreadEnds, Succeeded, Failed, CloseWarning, Timer, Launch
<1>7. CASE \E op \in Operations : RunOp(op)
  BY <1>7, StartStep, DesktopAssumption DEF RunOp
<1>8. CASE UNCHANGED desktop
  BY <1>2, <1>8 DEF desktop
<1> QED BY <1>3, <1>4, <1>5, <1>6, <1>7, <1>8 DEF DesktopNext, Handlers

(***************************************************************************)
(* What connect passes over.                                               *)
(***************************************************************************)

\* The operation ends, or is at a step that tries no instance.
Leaves(p) ==
    \/ Finish(p)
    \/ /\ \E l \in Labels \ {"choose", "up", "wait", "cleanup"} : Goto(p, l)
       /\ UNCHANGED <<plan, at, connected, failed>>

(* One frontend's instances say nothing of another's.                      *)
LEMMA PassedKept ==
  ASSUME PassedFailed, NEW p \in Frontends, OthersKept(p),
         \A c \in Events : count'[c] = 0 => count[c] = 0,
         Undisturbed => PassedBy(p)'
  PROVE  PassedFailed'
<1>1. Undisturbed' => Undisturbed
  BY DEF Undisturbed, Never, Events
<1>2. ASSUME NEW q \in Frontends \ {p}, PassedBy(q)
      PROVE  PassedBy(q)'
  BY <1>2 DEF PassedBy, OthersKept, Tunnel, Instance
<1> QED BY <1>1, <1>2 DEF PassedFailed

(* A step that tries no instance passes none.                              *)
LEMMA LeavesStep ==
  ASSUME TypeOK, PassedFailed, NEW p \in Frontends, Leaves(p),
         \A c \in Events : count'[c] = 0 => count[c] = 0
  PROVE  PassedFailed'
<1>1. CASE Finish(p)
  <2>1. OthersKept(p) /\ pc'[p] = "idle"
    BY <1>1, FinishTyped
  <2> QED BY <2>1, PassedKept DEF PassedBy
<1>2. CASE /\ \E l \in Labels \ {"choose", "up", "wait", "cleanup"} : Goto(p, l)
           /\ UNCHANGED <<plan, at, connected, failed>>
  <2>1. PICK l \in Labels \ {"choose", "up", "wait", "cleanup"} : Goto(p, l)
    BY <1>2
  <2>2. pc'[p] = l /\ \A q \in Frontends \ {p} : pc'[q] = pc[q]
    BY <2>1, GotoTyped
  <2>3. OthersKept(p)
    BY <1>2, <2>2 DEF OthersKept
  <2> QED BY <2>2, <2>3, PassedKept DEF PassedBy
<1> QED BY <1>1, <1>2 DEF Leaves

(* Undisturbed, all that is up is on the operation's list or lost: the     *)
(* interface of the tunnel to bring up is free, or known to be taken.      *)
LEMMA Alert ==
  ASSUME IInv, PassedFailed, NEW p \in Frontends, Undisturbed
  PROVE  /\ PassedBy(p)
         /\ pc[p] = "wait" => iface[at[p][1]] = Instance(p)
         /\ pc[p] = "up" => iface[at[p][1]] = None \/ at[p][1] \in lost
<1>1. Never({"overlaps"}) /\ Never({"repeats", "overlaps"})
  BY DEF Undisturbed, Never
<1>2. pc[p] = "wait" => iface[at[p][1]] = Instance(p)
  BY <1>1 DEF IInv, WaitedIsUp
<1>3. ASSUME pc[p] = "up" PROVE iface[at[p][1]] = None \/ at[p][1] \in lost
  <2>1. Mine \subseteq DOMAIN connected[p]
    BY <1>1, <1>3, OwedByConnect
  <2>2. /\ at[p][1] \in Ifaces /\ at[p][1] = Len(connected[p]) + 1
        /\ DOMAIN connected[p] = 1 .. Len(connected[p]) /\ Len(connected[p]) \in Nat
    BY <1>3, Tried, ConnectedIfaces DEF IInv
  <2>3. at[p][1] \notin Mine
    BY <2>1, <2>2
  <2> QED BY <2>2, <2>3 DEF Mine, Up
<1> QED BY <1>2, <1>3 DEF PassedFailed

(* An instance that connect gives up has failed.                           *)
LEMMA GivenUpFailed ==
  ASSUME IInv, PassedFailed, ReportsHandshakes, NEW p \in Frontends,
         UpFails(p) \/ HandshakeTimeout(p)
  PROVE  PassedFailed'
<1>1. /\ pc[p] \in {"up", "wait"} /\ OthersKept(p)
      /\ pc'[p] = "cleanup" /\ plan' = plan /\ at' = at
      /\ failed[p] \subseteq failed'[p]
      /\ \A d \in Events : count'[d] = 0 => count[d] = 0
  BY GivenUp
<1>2. Undisturbed => Instance(p) \in failed'[p]
  BY GivenUp, Alert DEF Shakes
<1>3. Instance(p)' = Instance(p) /\ Tunnel(p)' = Tunnel(p)
  BY <1>1 DEF Instance, Tunnel
<1>4. Undisturbed => PassedBy(p)'
  BY <1>1, <1>2, <1>3, Alert DEF PassedBy
<1> QED BY <1>1, <1>4, PassedKept

(* Every step of an operation keeps to that.                               *)
LEMMA PassedByStep ==
  ASSUME IInv, PassedFailed, ReportsHandshakes, NEW p \in Frontends, Step(p)
  PROVE  PassedFailed'
<1> USE DEF Labels
<1>1. CASE LoadRecords(p) \/ ClearRecords(p) \/ Identity(p) \/ FetchFails(p)
           \/ RolledBack(p) \/ SaveRecords(p)
  <2>1. Leaves(p) /\ count' = count
    BY <1>1 DEF LoadRecords, ClearRecords, Identity, FetchFails, RolledBack, SaveRecords,
                Continue, Keeps, Leaves, locals
  <2> QED BY <2>1, LeavesStep DEF IInv
<1>2. CASE NoInstance(p) \/ OpenRecords(p)
  <2>1. Leaves(p) /\ count' = count
    BY <1>2 DEF NoInstance, Rollback, OpenRecords, Leaves, locals
  <2> QED BY <2>1, LeavesStep DEF IInv
<1>8. CASE WaitFails(p)
  <2>1. Leaves(p) /\ Counted("faults") /\ "faults" \in Events
    BY <1>8 DEF WaitFails, Abandon, Rollback, Leaves, Events
  <2> QED BY <2>1, CountedTyped, LeavesStep DEF IInv
<1>9. ASSUME NEW i \in Ifaces, BringDown(p, i)
      PROVE  PassedFailed'
  <2>1. pc = [pc EXCEPT ![p] = pc[p]]
    BY DEF IInv, TypeOK
  <2>2. Leaves(p) /\ Down(i)
    BY <1>9, <2>1 DEF BringDown, Goto, Leaves
  <2> QED BY <2>2, Downed, LeavesStep DEF IInv
<1>3. CASE FetchPlan(p)
  <2>1. /\ Goto(p, "choose") /\ count' = count /\ at' = at /\ at[p] = <<1, 1>>
        /\ connected' = connected /\ failed' = failed
    BY <1>3 DEF FetchPlan, Keeps, IInv, InOrder
  <2>2. pc'[p] = "choose" /\ \A q \in Frontends \ {p} : pc'[q] = pc[q]
    BY <2>1, GotoTyped DEF IInv
  <2>3. \A q \in Frontends \ {p} : plan'[q] = plan[q]
    BY <1>3 DEF FetchPlan, IInv, TypeOK
  <2>4. PassedBy(p)'
    BY <2>1, <2>2 DEF PassedBy
  <2> QED BY <2>1, <2>2, <2>3, <2>4, PassedKept DEF OthersKept
<1>4. CASE (ChooseInstance(p) /\ Instance(p) \in Usable) \/ UpSucceeds(p)
  <2>1. PICK l \in {"up", "wait"} : Goto(p, l)
    BY <1>4 DEF ChooseInstance, UpSucceeds
  <2>2. /\ count' = count /\ plan' = plan /\ at' = at /\ connected' = connected /\ failed' = failed
        /\ pc[p] \in {"choose", "up"}
    BY <1>4 DEF ChooseInstance, UpSucceeds, Keeps, locals
  <2>3. pc'[p] = l /\ \A q \in Frontends \ {p} : pc'[q] = pc[q]
    BY <2>1, GotoTyped DEF IInv
  <2>4. Undisturbed => PassedBy(p)'
    BY <2>2, <2>3, Alert DEF PassedBy, Tunnel
  <2> QED BY <2>2, <2>3, <2>4, PassedKept DEF OthersKept
<1>5. CASE (ChooseInstance(p) /\ Instance(p) \notin Usable) \/ QuietDown(p)
  <2>1. /\ NextInstance(p) /\ Goto(p, "choose")
        /\ plan' = plan /\ connected' = connected /\ failed' = failed
        /\ pc[p] \in {"choose", "cleanup"} /\ at[p][1] <= Len(plan[p])
    BY <1>5 DEF ChooseInstance, QuietDown, NextInstance, IInv, InOrder
  <2>2. \A d \in Events : count'[d] = 0 => count[d] = 0
    <3>1. CASE QuietDown(p)
      BY <3>1, Tried, Downed DEF IInv, QuietDown
    <3> QED BY <1>5, <3>1 DEF ChooseInstance, Keeps
  <2>3. pc'[p] = "choose" /\ \A q \in Frontends \ {p} : pc'[q] = pc[q]
    BY <2>1, GotoTyped DEF IInv
  <2>4. at'[p] = <<at[p][1], at[p][2] + 1>> /\ \A q \in Frontends \ {p} : at'[q] = at[q]
    BY <2>1, NextTyped DEF IInv
  <2>5. Undisturbed => PassedBy(p)'
    <3> SUFFICES ASSUME Undisturbed, NEW j \in 1 .. at[p][2], Tunnel(p)[j] \in Usable
                 PROVE  Tunnel(p)[j] \in failed[p]
      BY <2>1, <2>3, <2>4, InThePlan DEF PassedBy, Tunnel
    <3>1. CASE j = at[p][2]
      BY <1>5, <3>1, Alert DEF PassedBy, Instance, QuietDown
    <3>2. CASE j # at[p][2]
      <4>1. j \in 1 .. at[p][2] - 1
        BY <2>1, <3>2, InThePlan
      <4> QED BY <2>1, <4>1, Alert DEF PassedBy
    <3> QED BY <3>1, <3>2
  <2> QED BY <2>1, <2>2, <2>3, <2>4, <2>5, PassedKept DEF OthersKept
<1>6. CASE Handshake(p)
  <2>1. /\ Goto(p, "choose") /\ count' = count /\ plan' = plan /\ failed' = failed
        /\ at' = [at EXCEPT ![p] = <<@[1] + 1, 1>>]
        /\ connected' = [connected EXCEPT ![p] = Append(@, Instance(p))]
    BY <1>6 DEF Handshake, Keeps
  <2>2. pc'[p] = "choose" /\ \A q \in Frontends \ {p} : pc'[q] = pc[q]
    BY <2>1, GotoTyped DEF IInv
  <2>3. at'[p][2] = 1 /\ \A q \in Frontends \ {p} : at'[q] = at[q] /\ connected'[q] = connected[q]
    BY <2>1 DEF IInv, TypeOK
  <2>4. PassedBy(p)'
    BY <2>2, <2>3 DEF PassedBy
  <2> QED BY <2>1, <2>2, <2>3, <2>4, PassedKept DEF OthersKept
<1>7. CASE UpFails(p) \/ HandshakeTimeout(p)
  BY <1>7, GivenUpFailed
<1> QED BY <1>1, <1>2, <1>3, <1>4, <1>5, <1>6, <1>7, <1>8, <1>9 DEF Step, ChooseInstance

(* Nothing else tries an instance.                                         *)
LEMMA PassedStep ==
  ASSUME IInv, PassedFailed, ReportsHandshakes, [DesktopNext]_desktop
  PROVE  PassedFailed'
<1>1. TypeOK /\ Gui \in Frontends
  BY DesktopAssumption DEF IInv
<1>2. ASSUME UNCHANGED <<pc, locals>>, \A c \in Events : count'[c] = 0 => count[c] = 0
      PROVE  PassedFailed'
  <2>1. Undisturbed' => Undisturbed
    BY <1>2 DEF Undisturbed, Never, Events
  <2> QED BY <1>2, <2>1 DEF PassedFailed, PassedBy, Instance, Tunnel, locals
<1>3. ASSUME NEW p \in Frontends, Interrupt(p)
      PROVE  PassedFailed'
  <2>1. Leaves(p)
    BY <1>3 DEF Interrupt, Abandon, Rollback, Leaves, Labels
  <2>2. \A c \in Events : count'[c] = 0 => count[c] = 0
    BY <1>1, <1>3, CountedTyped DEF Interrupt, Events
  <2> QED BY <1>1, <2>1, <2>2, LeavesStep
<1>4. ASSUME NEW p \in Frontends, Kill(p) \/ FileFails(p)
      PROVE  PassedFailed'
  <2>1. \A c \in Events : count'[c] = 0 => count[c] = 0
    BY <1>1, <1>4, CountedTyped DEF Kill, FileFails, Events
  <2> QED BY <1>1, <1>4, <2>1, LeavesStep DEF Kill, FileFails, Leaves
<1>5. ASSUME NEW p \in Frontends, NEW op, Start(p, op)
      PROVE  PassedFailed'
  <2>1. Leaves(p)
    BY <1>5 DEF Start, FirstStep, Leaves, Labels
  <2>2. \A c \in Events : count'[c] = 0 => count[c] = 0
    BY <1>1, <1>5, StartCounted
  <2> QED BY <1>1, <2>1, <2>2, LeavesStep
<1>6. CASE Elsewhere
  <2>1. ASSUME NEW g \in Usable, Flip(g)
        PROVE  PassedFailed'
    <3>1. \A c \in Events : count'[c] = 0 => count[c] = 0
      BY <1>1, <2>1, CountedTyped DEF Flip, Events
    <3> QED BY <1>2, <2>1, <3>1 DEF Flip
  <2> QED BY <1>3, <1>4, <1>5, <1>6, <2>1, PassedByStep DEF Elsewhere
<1>7. CASE Work
  BY <1>1, <1>4, <1>7, PassedByStep DEF Work
<1>8. CASE Quit
  <2>1. CASE Idle(Gui)
    <3>1. \A c \in Events : count'[c] = 0 => count[c] = 0
      BY <1>1, <1>8, <2>1, CountedTyped DEF Quit, Events
    <3> QED BY <1>2, <1>8, <2>1, <3>1 DEF Quit
  <2>2. CASE ~Idle(Gui)
    BY <1>1, <1>4, <1>8, <2>2 DEF Quit
  <2> QED BY <2>1, <2>2
<1>9. CASE ThreadEnds \/ Succeeded \/ Failed \/ CloseWarning \/ Timer \/ Launch \/ UNCHANGED desktop
  <2>1. UNCHANGED vars
    BY <1>9 DEF ThreadEnds, Succeeded, Failed, CloseWarning, Timer, Launch, desktop
  <2> QED BY <1>2, <2>1 DEF vars
<1>10. CASE \E op \in Operations : RunOp(op)
  BY <1>1, <1>5, <1>10 DEF RunOp
<1> QED BY <1>6, <1>7, <1>8, <1>9, <1>10 DEF DesktopNext, Handlers

(***************************************************************************)
(* The window.                                                             *)
(***************************************************************************)
WindowTyped ==
    /\ open \in BOOLEAN /\ buttons \in BOOLEAN
    /\ thread \in {"none", "running", "ending"}
    /\ thread = "running" <=> ~Idle(Gui)
    /\ signals \in Seq({"succeeded", "failed"})
    /\ dialogs \in Nat
    /\ \A row \in shown : row \in Ifaces \X Gateways \X BOOLEAN

(* A frontend's step moves no other frontend.                              *)
LEMMA OthersStay ==
  ASSUME TypeOK, NEW p \in Frontends,
         Step(p) \/ Interrupt(p) \/ FileFails(p) \/ Kill(p) \/ \E op \in Operations : Start(p, op)
  PROVE  \A q \in Frontends \ {p} : pc'[q] = pc[q]
<1>1. CASE pc' = pc
  BY <1>1
<1>2. CASE \E l \in Labels : Goto(p, l)
  BY <1>2, GotoTyped
<1>3. ASSUME NEW op, Start(p, op)
      PROVE  \E l \in Labels : Goto(p, l)
  BY <1>3 DEF Start, FirstStep, Labels
<1>4. CASE LoadRecords(p) \/ ClearRecords(p) \/ Identity(p) \/ FetchPlan(p) \/ FetchFails(p)
           \/ RolledBack(p) \/ SaveRecords(p) \/ Kill(p) \/ Interrupt(p) \/ NoInstance(p)
           \/ OpenRecords(p) \/ FileFails(p) \/ WaitFails(p)
  BY <1>2, <1>4 DEF LoadRecords, ClearRecords, Identity, FetchPlan, FetchFails, RolledBack,
       SaveRecords, Kill, Interrupt, NoInstance, OpenRecords, FileFails, WaitFails, Abandon,
       Rollback, Continue, Finish, Labels
<1>5. CASE ChooseInstance(p) \/ UpSucceeds(p) \/ UpFails(p) \/ Handshake(p)
           \/ HandshakeTimeout(p) \/ QuietDown(p)
  BY <1>2, <1>5 DEF ChooseInstance, UpSucceeds, UpFails, Handshake, HandshakeTimeout,
       GiveUp, QuietDown, NextInstance, Labels
<1>6. CASE \E i \in Ifaces : BringDown(p, i)
  BY <1>1, <1>6 DEF BringDown
<1> QED BY <1>2, <1>3, <1>4, <1>5, <1>6 DEF Step

(* The status has a row for each recorded tunnel.                          *)
LEMMA StatusTyped ==
  ASSUME TypeOK
  PROVE  \A row \in Status : row \in Ifaces \X Gateways \X BOOLEAN
<1> SUFFICES ASSUME NEW i \in Recorded
             PROVE  <<i, records[i], i \in Up>> \in Ifaces \X Gateways \X BOOLEAN
  BY Zenon DEF Status
<1>1. i \in Ifaces /\ records[i] \in Gateways
  BY DEF Recorded, TypeOK
<1>2. \A b \in BOOLEAN : <<i, records[i], b>> \in Ifaces \X Gateways \X BOOLEAN
  BY <1>1
<1>3. CASE i \in Up
  <2>1. (i \in Up) = TRUE
    BY <1>3
  <2> QED BY <1>2, <2>1, Zenon
<1>4. CASE i \notin Up
  <2>1. (i \in Up) = FALSE
    BY <1>4
  <2> QED BY <1>2, <2>1, Zenon
<1> QED BY <1>3, <1>4

(* A refresh shows them, or leaves what was shown.                         *)
LEMMA RefreshTyped ==
  ASSUME TypeOK, WindowTyped, Refresh
  PROVE  \A row \in shown' : row \in Ifaces \X Gateways \X BOOLEAN
BY StatusTyped DEF Refresh, WindowTyped

(* Handlers and worker keep the window as the type invariant says.         *)
LEMMA WindowStep ==
  ASSUME TypeOK, WindowTyped, [DesktopNext]_desktop
  PROVE  WindowTyped'
<1>1. Gui \in Frontends
  BY DesktopAssumption
<1>2. CASE Elsewhere
  <2>1. ASSUME NEW p \in Frontends \ {Gui},
               Step(p) \/ Interrupt(p) \/ FileFails(p) \/ Kill(p) \/ \E op \in Operations : Start(p, op)
        PROVE  pc'[Gui] = pc[Gui]
    BY <1>1, <2>1, OthersStay
  <2>2. pc'[Gui] = pc[Gui] /\ UNCHANGED <<open, thread, buttons, signals, dialogs, shown>>
    BY <1>2, <2>1 DEF Elsewhere, Flip, ui
  <2> QED BY <2>2 DEF WindowTyped, Idle
<1>3. CASE Work
  <2>1. UNCHANGED <<open, buttons, dialogs, shown>>
    BY <1>3 DEF Work
  <2>2. ~Idle(Gui)
    BY <1>3 DEF Work, Step, Idle, LoadRecords, ClearRecords, Identity, FetchPlan, FetchFails,
         ChooseInstance, UpSucceeds, UpFails, Handshake, HandshakeTimeout, QuietDown, NoInstance,
         WaitFails, FileFails, RolledBack, OpenRecords, SaveRecords, BringDown
  <2>3. Outcome \in Seq({"succeeded", "failed"})
    <3>1. Outcome \in {<<"failed">>, <<"succeeded">>}
      BY DEF Outcome
    <3>2. <<"failed">> \in Seq({"succeeded", "failed"}) /\ <<"succeeded">> \in Seq({"succeeded", "failed"})
      OBVIOUS
    <3> QED BY <3>1, <3>2
  <2>4. /\ signals' \in {signals, signals \o Outcome, Append(signals, "failed")}
        /\ IF Idle(Gui)' THEN thread' = "ending" ELSE thread' = thread
    <3>1. FileFails(Gui) => Idle(Gui)'
      BY <1>1, FinishTyped DEF FileFails, Idle
    <3> QED BY <1>3, <3>1 DEF Work
  <2>5. \A f \in Seq({"succeeded", "failed"}) :
           Append(f, "failed") \in Seq({"succeeded", "failed"})
    OBVIOUS
  <2>6. \A f, g \in Seq({"succeeded", "failed"}) : f \o g \in Seq({"succeeded", "failed"})
    OBVIOUS
  <2>7. signals' \in Seq({"succeeded", "failed"})
    BY <2>3, <2>4, <2>5, <2>6, Zenon DEF WindowTyped
  <2> QED BY <2>1, <2>2, <2>4, <2>7 DEF WindowTyped
<1>4. CASE Quit
  <2>1. Idle(Gui)'
    BY <1>1, <1>4, FinishTyped DEF Quit, Kill, Idle
  <2>2. <<>> \in Seq({"succeeded", "failed"})
    OBVIOUS
  <2> QED BY <1>4, <2>1, <2>2 DEF Quit, WindowTyped
<1>5. CASE \E op \in Operations : RunOp(op)
  <2>1. PICK op \in Operations : RunOp(op)
    BY <1>5
  <2>2. Goto(Gui, FirstStep(op)) /\ FirstStep(op) \in Labels \ {"idle"}
    BY <2>1 DEF RunOp, Start, FirstStep, Labels
  <2>3. ~Idle(Gui)'
    BY <1>1, <2>2, GotoTyped DEF Idle
  <2>4. /\ thread' = "running" /\ buttons' = FALSE /\ signals' \in {signals, <<>>}
        /\ open' = open /\ dialogs' = dialogs /\ shown' = shown
    BY <2>1 DEF RunOp
  <2>5. signals' \in Seq({"succeeded", "failed"})
    <3>1. <<>> \in Seq({"succeeded", "failed"})
      OBVIOUS
    <3> QED BY <2>4, <3>1, Zenon DEF WindowTyped
  <2> QED BY <2>3, <2>4, <2>5, Zenon DEF WindowTyped
<1>6. CASE Succeeded \/ Failed
  <2>1. Tail(signals) \in Seq({"succeeded", "failed"})
    BY <1>6 DEF Succeeded, Failed, WindowTyped
  <2>2. \A row \in shown' : row \in Ifaces \X Gateways \X BOOLEAN
    BY <1>6, RefreshTyped DEF Succeeded, Failed, WindowTyped
  <2>3. Idle(Gui)' = Idle(Gui)
    BY <1>6 DEF Succeeded, Failed, vars, Idle
  <2>4. open' = open /\ thread' = thread /\ buttons' = TRUE /\ signals' = Tail(signals)
    BY <1>6 DEF Succeeded, Failed
  <2>5. dialogs' \in Nat
    BY <1>6 DEF Succeeded, Failed, WindowTyped
  <2> QED BY <2>1, <2>2, <2>3, <2>4, <2>5 DEF WindowTyped
<1>7. CASE CloseWarning \/ Timer \/ Launch
  <2>1. \A row \in shown' : row \in Ifaces \X Gateways \X BOOLEAN
    BY <1>7, RefreshTyped DEF CloseWarning, Timer, Launch
  <2>2. Idle(Gui)' = Idle(Gui)
    BY <1>7 DEF CloseWarning, Timer, Launch, vars, Idle
  <2>3. /\ open' \in {open, TRUE} /\ thread' = thread /\ buttons' = buttons
        /\ signals' = signals
    BY <1>7 DEF CloseWarning, Timer, Launch
  <2>4. dialogs' \in Nat
    BY <1>7 DEF CloseWarning, Timer, Launch, WindowTyped
  <2> QED BY <2>1, <2>2, <2>3, <2>4 DEF WindowTyped
<1>8. CASE ThreadEnds
  BY <1>8 DEF ThreadEnds, vars, Idle, WindowTyped
<1>9. CASE UNCHANGED desktop
  BY <1>9 DEF desktop, ui, vars, Idle, WindowTyped
<1> QED BY <1>2, <1>3, <1>4, <1>5, <1>6, <1>7, <1>8, <1>9 DEF DesktopNext, Handlers

(***************************************************************************)
(* The theorems.                                                           *)
(***************************************************************************)

\* The application has just started over what earlier connects have left up
\* and recorded, or over nothing.
Started ==
    /\ alive \subseteq Gateways
    /\ iface \in [Ifaces -> Gateways \cup {None}] /\ records = iface
    /\ Fresh
    /\ FreshUi /\ shown = Status

StartedSpec == Started /\ [][DesktopNext]_desktop

(* That is how the invariants begin.                                       *)
LEMMA StartedInvariant ==
  ASSUME Started
  PROVE  IInv /\ PassedFailed /\ WindowTyped
<1>1. /\ torn = FALSE /\ lost = {} /\ pc = [p \in Frontends |-> "idle"]
      /\ after = [p \in Frontends |-> FALSE] /\ plan = [p \in Frontends |-> <<>>]
      /\ at = [p \in Frontends |-> <<1, 1>>] /\ connected = [p \in Frontends |-> <<>>]
      /\ downing = [p \in Frontends |-> {}] /\ failed = [p \in Frontends |-> {}]
      /\ count = [c \in Events \cup {"ops"} |-> 0]
      /\ records = iface
  BY DEF Started, Fresh
<1>2. TypeOK
  <2>1. <<1, 1>> \in (1 .. NIfaces + 1) \X Nat /\ <<>> \in Seq(Gateways)
    BY ClientAssumption
  <2> QED BY <1>1, <2>1 DEF Started, TypeOK
<1>3. InOrder
  BY <1>1 DEF InOrder
<1>4. OneAtATime /\ WaitedIsUp /\ ConnectedAreUp
  BY <1>1 DEF OneAtATime, WaitedIsUp, ConnectedAreUp, Idle
<1>5. NothingUnlisted
  BY <1>1 DEF NothingUnlisted, Accounted, Idle
<1>6. PassedFailed
  BY <1>1 DEF PassedFailed, PassedBy
<1>7. WindowTyped
  <2>1. \A row \in shown : row \in Ifaces \X Gateways \X BOOLEAN
    BY <1>2, StatusTyped DEF Started
  <2>2. Idle(Gui)
    BY <1>1, DesktopAssumption DEF Idle
  <2>3. <<>> \in Seq({"succeeded", "failed"})
    OBVIOUS
  <2> QED BY <2>1, <2>2, <2>3 DEF Started, FreshUi, WindowTyped
<1> QED BY <1>2, <1>3, <1>4, <1>5, <1>6, <1>7 DEF IInv

\* The specification of the application, fresh after its installation, is one
\* that starts so: what follows holds of it.
THEOREM DesktopIsStarted == DesktopSpec => StartedSpec
<1>1. DesktopInit => Started
  BY ClientAssumption DEF DesktopInit, Init, Started, Unrecorded
<1> QED BY <1>1, PTL DEF DesktopSpec, StartedSpec

\* The inductive invariant holds of every behaviour that starts with nothing
\* running, whatever earlier connects left up and recorded.
THEOREM DesktopInvariance == StartedSpec => []IInv
<1>1. Started => IInv
  BY StartedInvariant
<1>2. IInv /\ [DesktopNext]_desktop => IInv'
  BY DesktopStep
<1> QED BY <1>1, <1>2, PTL DEF StartedSpec

\* Whatever the CLI and the window do at once, both stay well-formed, and the
\* worker thread runs exactly while the GUI's operation does (run_op).
THEOREM TypeCorrect == StartedSpec => []DesktopTypeOK
<1>1. Started => WindowTyped
  BY StartedInvariant
<1>2. IInv => TypeOK
  BY DEF IInv
<1>3. TypeOK /\ WindowTyped /\ [DesktopNext]_desktop => WindowTyped'
  BY WindowStep
<1>4. TypeOK /\ WindowTyped => DesktopTypeOK
  BY DEF WindowTyped, DesktopTypeOK
<1> QED BY <1>1, <1>2, <1>3, <1>4, DesktopInvariance, PTL DEF StartedSpec

\* The tunnels a connect counts as up, and records, are up with the gateways
\* it names, after any failures, interrupts, kills and repeats (connect_plan).
THEOREM CountedTunnelsAreUp == StartedSpec => []ConnectedAreUp
<1>1. IInv => ConnectedAreUp
  BY DEF IInv
<1> QED BY <1>1, DesktopInvariance, PTL

\* With no operation running all that is up is recorded, but for what an
\* interrupt, a kill, a failed down or wait, or records that could not be
\* written left (save_tunnels, disconnect_all, rollback of connect_plan).
THEOREM TunnelsAreRemembered == StartedSpec => []NothingForgotten
<1>1. IInv => NothingForgotten
  BY DEF IInv, NothingUnlisted, NothingForgotten, Accounted, Mine
<1> QED BY <1>1, DesktopInvariance, PTL

\* Where handshakes are reported, connect gives up an instance, and a tunnel,
\* only when the instance did not answer or could not be brought up on this
\* machine, whatever failed or was interrupted or killed before
\* (wait_handshake, connect_plan).
THEOREM OnlyFailedAreSkipped ==
  ASSUME ReportsHandshakes
  PROVE  StartedSpec => []SkipsOnlyFailed
<1>1. Started => PassedFailed
  BY StartedInvariant
<1>2. IInv /\ PassedFailed /\ [DesktopNext]_desktop => PassedFailed'
  BY PassedStep
<1>3. PassedFailed => SkipsOnlyFailed
  BY DEF PassedFailed, PassedBy, Undisturbed, SkipsOnlyFailed
<1> QED BY <1>1, <1>2, <1>3, DesktopInvariance, PTL DEF StartedSpec
=============================================================================
