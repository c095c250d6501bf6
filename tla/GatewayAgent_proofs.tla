-------------------------- MODULE GatewayAgent_proofs --------------------------
(***************************************************************************)
(* What one agent leaves in the kernel, for any answers, keys, addresses,  *)
(* networks and refused values, and any number of changes, failures and    *)
(* crashes.                                                                *)
(***************************************************************************)
EXTENDS GatewayAgent, TLAPS

(***************************************************************************)
(* The inductive invariant, in named parts.                                *)
(***************************************************************************)
AfterRemoval == {"route", "unroute", "flush", "establish", "rules", "masq", "sleep"}
Reconciling == {"peers", "relays", "list", "remove"} \cup AfterRemoval

\* The peers a loop is about to apply are the answer's.
LoopsOverAnswer ==
    /\ pc = "peers" => pending \subseteq answer.peers
    /\ pc = "relays" => pending \subseteq ReadyRelays

\* Cryptokey routing leads to peers of the interface.
OwnersArePeers == \A c \in Cidrs : owner[c] # None => owner[c] \in peers

\* What leads to a key applied in this cycle is what the answer gives it, not
\* what it had before.
OwnedAsAnswered ==
    \A c \in Cidrs : owner[c] \in desired =>
        \E p \in answer.peers \cup ReadyRelays :
            ~Refused(p) /\ p.key = owner[c] /\ c \in p.ips

\* Peers of earlier cycles are about to be removed, or are gone, when they
\* could be listed.
StaleRemoved ==
    listed =>
        /\ pc = "remove" => peers \ desired \subseteq pending
        /\ pc \in AfterRemoval => peers \subseteq desired

\* What the agent remembers of the firewall is what the firewall is, except
\* while it rebuilds it.
FirewallKnown ==
    /\ (pc \in Reconciling => configured) /\ (configured => jump)
    /\ (memoRules # None /\ pc \notin {"establish", "rules"}) =>
           chain.pairs = memoRules /\ chain.drop
    /\ pc = "establish" => chain.pairs = {}
    /\ pc = "rules" => chain.pairs \cup pending = answer.rules
    /\ pc \in {"masq", "sleep"} => memoRules = answer.rules

\* What it remembers of the routes is there; what it is about to remember is
\* there once the loops are over.
RoutesKnown ==
    /\ pc # "unroute" => memoRoutes \subseteq routes
    /\ pc = "route" => RelayCidrs \subseteq routes \cup pending /\ pending \subseteq RelayCidrs
    /\ pc = "unroute" => RelayCidrs \subseteq routes /\ pending \cap RelayCidrs = {}
    /\ pc \in {"flush", "establish", "rules", "masq", "sleep"} => memoRoutes = RelayCidrs

\* A route is remembered, about to be, about to be deleted, or an earlier
\* process's.
Inherits ==
    /\ pc \notin {"route", "unroute"} => routes \subseteq memoRoutes \cup inherited
    /\ pc = "route" => routes \subseteq memoRoutes \cup RelayCidrs \cup inherited
    /\ pc = "unroute" => routes \subseteq RelayCidrs \cup pending \cup inherited

IInv ==
    /\ TypeOK
    /\ LoopsOverAnswer
    /\ OwnersArePeers
    /\ OwnedAsAnswered
    /\ StaleRemoved
    /\ FirewallKnown
    /\ RoutesKnown
    /\ Inherits

\* An agent that did not crash ended, if it did, on a malformed network, and
\* never found an interface that was created and left down.
NotCrashed ==
    count["crashes"] = 0 =>
        /\ pc = "down" => BadNetwork(answer)
        /\ pc # "bring_up" => iface \in {"absent", "up"}
        /\ pc = "forwarding" \/ configured => iface = "up"

-----------------------------------------------------------------------------
(* Answers.                                                                *)

(* A torn answer is an answer like any other.                              *)
LEMMA RepliesTyped ==
  /\ Answers \subseteq Replies
  /\ \A a, b \in Answers : Torn(a, b) \subseteq Replies
  /\ Replies \subseteq Answer
<1>1. ASSUME NEW a \in Answer, NEW b \in Answer
      PROVE  Torn(a, b) \subseteq Answer
  BY DEF Torn, Answer
<1>2. Answers \subseteq Replies /\ \A a, b \in Answers : Torn(a, b) \subseteq Replies
  BY DEF Replies
<1>3. Replies \subseteq Answer
  BY <1>1, AgentAssumption DEF Replies
<1> QED BY <1>2, <1>3

(* What the answer being reconciled consists of.                           *)
LEMMA AnswerTyped ==
  ASSUME TypeOK
  PROVE  /\ \A p \in answer.peers : p.key \in Keys /\ p.ips \subseteq Clients
         /\ \A p \in ReadyRelays : p.key \in Keys /\ p.ips \subseteq Nets
         /\ answer.rules \in SUBSET Flows /\ answer.masq \in SUBSET Cidrs
         /\ RelayCidrs \in SUBSET Cidrs
<1>1. answer \in Answer
  BY RepliesTyped DEF TypeOK
<1>2. \A p \in ReadyRelays : p.key \in Keys /\ p.ips \subseteq Nets
  BY <1>1 DEF Answer, ReadyRelays
<1>3. RelayCidrs \in SUBSET Cidrs
  BY <1>2 DEF RelayCidrs, Cidrs
<1> QED BY <1>1, <1>2, <1>3 DEF Answer

(* A counted event leaves the counters numbers, and moves its own.         *)
LEMMA CountedTyped ==
  ASSUME TypeOK, NEW c \in Counters, NEW n, Counted(c, n)
  PROVE  /\ count' \in [Counters -> Nat] /\ count'[c] # 0
         /\ \A d \in Counters \ {c} : count'[d] = count[d]
BY DEF TypeOK, Counted

-----------------------------------------------------------------------------
(* One lemma per action: it preserves the inductive invariant.             *)

(* A cycle begins with a new answer and nothing applied.                   *)
LEMMA GoesOnStep ==
  ASSUME IInv, pc = "sync", NEW a \in Replies, GoesOn(a), plane' \in Answers,
         count' \in [Counters -> Nat]
  PROVE  IInv'
<1> USE DEF GoesOn, kernel, history
<1>1. /\ answer' = a /\ pc' \in {"peers", "setup"}
      /\ pc' = "peers" => pending' = a.peers /\ configured
  BY DEF IInv, TypeOK
<1>2. TypeOK'
  BY <1>1 DEF IInv, TypeOK
<1>3. LoopsOverAnswer'
  BY <1>1 DEF IInv, LoopsOverAnswer, ReadyRelays
<1>4. OwnersArePeers'
  BY <1>1 DEF IInv, OwnersArePeers
<1>5. OwnedAsAnswered'
  BY <1>1 DEF IInv, OwnedAsAnswered, ReadyRelays
<1>6. StaleRemoved'
  BY <1>1 DEF IInv, StaleRemoved, AfterRemoval
<1>7. FirewallKnown'
  BY <1>1 DEF IInv, FirewallKnown, Reconciling, AfterRemoval
<1>8. RoutesKnown'
  BY <1>1 DEF IInv, RoutesKnown, RelayCidrs, ReadyRelays
<1>9. Inherits'
  BY DEF IInv, Inherits, RelayCidrs, ReadyRelays
<1> QED BY <1>2, <1>3, <1>4, <1>5, <1>6, <1>7, <1>8, <1>9 DEF IInv

(* No answer: nothing changes.                                             *)
LEMMA SyncFailsStep ==
  ASSUME IInv, SyncFails
  PROVE  IInv'
<1> USE DEF SyncFails, memory, kernel, history
<1>1. count' \in [Counters -> Nat]
  BY CountedTyped DEF IInv, Counters
<1>2. TypeOK'
  BY <1>1 DEF IInv, TypeOK, Counted
<1>3. LoopsOverAnswer'
  BY DEF IInv, LoopsOverAnswer, ReadyRelays, Counted
<1>4. OwnersArePeers'
  BY DEF IInv, OwnersArePeers, Counted
<1>5. OwnedAsAnswered'
  BY DEF IInv, OwnedAsAnswered, ReadyRelays, Counted
<1>6. StaleRemoved'
  BY DEF IInv, StaleRemoved, AfterRemoval, Counted
<1>7. FirewallKnown'
  BY DEF IInv, FirewallKnown, Reconciling, AfterRemoval, Counted
<1>8. RoutesKnown'
  BY DEF IInv, RoutesKnown, RelayCidrs, ReadyRelays, Counted
<1>9. Inherits'
  BY DEF IInv, Inherits, RelayCidrs, ReadyRelays, Counted, Counters
<1> QED BY <1>2, <1>3, <1>4, <1>5, <1>6, <1>7, <1>8, <1>9 DEF IInv

(* The interface is created, or found.                                     *)
LEMMA SetupInterfaceStep ==
  ASSUME IInv, SetupInterface
  PROVE  IInv'
<1> USE DEF SetupInterface, Goto, Move, history
<1>1. TypeOK'
  BY DEF IInv, TypeOK
<1>2. LoopsOverAnswer'
  BY DEF IInv, LoopsOverAnswer, ReadyRelays
<1>3. OwnersArePeers'
  BY DEF IInv, OwnersArePeers
<1>4. OwnedAsAnswered'
  BY DEF IInv, OwnedAsAnswered, ReadyRelays
<1>5. StaleRemoved'
  BY DEF IInv, StaleRemoved, AfterRemoval
<1>6. FirewallKnown'
  BY DEF IInv, FirewallKnown, Reconciling, AfterRemoval
<1>7. RoutesKnown'
  BY DEF IInv, RoutesKnown, RelayCidrs, ReadyRelays
<1>8. Inherits'
  BY DEF IInv, Inherits, RelayCidrs, ReadyRelays
<1> QED BY <1>1, <1>2, <1>3, <1>4, <1>5, <1>6, <1>7, <1>8 DEF IInv

(* The interface is up.                                                    *)
LEMMA BringUpStep ==
  ASSUME IInv, BringUp
  PROVE  IInv'
<1> USE DEF BringUp, Goto, Move, history
<1>1. TypeOK'
  BY DEF IInv, TypeOK
<1>2. LoopsOverAnswer'
  BY DEF IInv, LoopsOverAnswer, ReadyRelays
<1>3. OwnersArePeers'
  BY DEF IInv, OwnersArePeers
<1>4. OwnedAsAnswered'
  BY DEF IInv, OwnedAsAnswered, ReadyRelays
<1>5. StaleRemoved'
  BY DEF IInv, StaleRemoved, AfterRemoval
<1>6. FirewallKnown'
  BY DEF IInv, FirewallKnown, Reconciling, AfterRemoval
<1>7. RoutesKnown'
  BY DEF IInv, RoutesKnown, RelayCidrs, ReadyRelays
<1>8. Inherits'
  BY DEF IInv, Inherits, RelayCidrs, ReadyRelays
<1> QED BY <1>1, <1>2, <1>3, <1>4, <1>5, <1>6, <1>7, <1>8 DEF IInv

(* The tunnel's packets are led to the agent's chain.                      *)
LEMMA EnsureForwardingStep ==
  ASSUME IInv, EnsureForwarding
  PROVE  IInv'
<1> USE DEF EnsureForwarding, Goto, Move, history
<1>1. TypeOK'
  BY DEF IInv, TypeOK
<1>2. LoopsOverAnswer'
  BY DEF IInv, LoopsOverAnswer, ReadyRelays
<1>3. OwnersArePeers'
  BY DEF IInv, OwnersArePeers
<1>4. OwnedAsAnswered'
  BY DEF IInv, OwnedAsAnswered, ReadyRelays
<1>5. StaleRemoved'
  BY DEF IInv, StaleRemoved, AfterRemoval
<1>6. FirewallKnown'
  BY DEF IInv, FirewallKnown, Reconciling, AfterRemoval
<1>7. RoutesKnown'
  BY DEF IInv, RoutesKnown, RelayCidrs, ReadyRelays
<1>8. Inherits'
  BY DEF IInv, Inherits, RelayCidrs, ReadyRelays
<1> QED BY <1>1, <1>2, <1>3, <1>4, <1>5, <1>6, <1>7, <1>8 DEF IInv

(* A peer gets what the answer gives it.                                   *)
LEMMA ApplyPeerStep ==
  ASSUME IInv, NEW p, ApplyPeer(p)
  PROVE  IInv'
<1> USE DEF ApplyPeer, Goto, Move, history
<1>1. p.key \in Keys /\ p \in answer.peers \cup ReadyRelays
  BY AnswerTyped DEF IInv, LoopsOverAnswer
<1>2. TypeOK'
  BY <1>1 DEF IInv, TypeOK, WgSet
<1>3. LoopsOverAnswer'
  BY DEF IInv, LoopsOverAnswer, ReadyRelays, WgSet
<1>4. OwnersArePeers'
  BY <1>1 DEF IInv, OwnersArePeers, WgSet
<1>5. OwnedAsAnswered'
  <2>1. ReadyRelays' = ReadyRelays /\ answer' = answer
    BY DEF ReadyRelays
  <2>2. CASE Refused(p)
    BY <2>1, <2>2 DEF IInv, OwnedAsAnswered, Refused
  <2>3. CASE ~Refused(p)
    <3> SUFFICES ASSUME NEW c \in Cidrs, owner'[c] \in desired'
                 PROVE  \E q \in answer.peers \cup ReadyRelays :
                            ~Refused(q) /\ q.key = owner'[c] /\ c \in q.ips
      BY <2>1 DEF OwnedAsAnswered, Refused
    <3>1. desired' = desired \cup {p.key}
      BY <2>3
    <3>2. CASE c \in p.ips
      BY <1>1, <2>3, <3>2 DEF WgSet
    <3>3. CASE c \notin p.ips
      <4>1. owner'[c] = IF owner[c] = p.key THEN None ELSE owner[c]
        BY <2>3, <3>3 DEF WgSet
      <4>2. None \notin desired'
        BY <1>1, <3>1, AgentAssumption DEF IInv, TypeOK
      <4> QED BY <3>1, <4>1, <4>2 DEF IInv, OwnedAsAnswered
    <3> QED BY <3>2, <3>3
  <2> QED BY <2>2, <2>3
<1>6. StaleRemoved'
  BY DEF IInv, StaleRemoved, AfterRemoval, WgSet
<1>7. FirewallKnown'
  BY DEF IInv, FirewallKnown, Reconciling, AfterRemoval, WgSet
<1>8. RoutesKnown'
  BY DEF IInv, RoutesKnown, RelayCidrs, ReadyRelays, WgSet
<1>9. Inherits'
  BY DEF IInv, Inherits, RelayCidrs, ReadyRelays
<1> QED BY <1>2, <1>3, <1>4, <1>5, <1>6, <1>7, <1>8, <1>9 DEF IInv

(* The clients are applied; the relays follow.                             *)
LEMMA PeersAppliedStep ==
  ASSUME IInv, PeersApplied
  PROVE  IInv'
<1> USE DEF PeersApplied, Goto, Move, history, kernel
<1>1. TypeOK'
  BY DEF IInv, TypeOK
<1>2. LoopsOverAnswer'
  BY DEF IInv, LoopsOverAnswer, ReadyRelays
<1>3. OwnersArePeers'
  BY DEF IInv, OwnersArePeers
<1>4. OwnedAsAnswered'
  BY DEF IInv, OwnedAsAnswered, ReadyRelays
<1>5. StaleRemoved'
  BY DEF IInv, StaleRemoved, AfterRemoval
<1>6. FirewallKnown'
  BY DEF IInv, FirewallKnown, Reconciling, AfterRemoval
<1>7. RoutesKnown'
  BY DEF IInv, RoutesKnown, RelayCidrs, ReadyRelays
<1>8. Inherits'
  BY DEF IInv, Inherits, RelayCidrs, ReadyRelays
<1> QED BY <1>1, <1>2, <1>3, <1>4, <1>5, <1>6, <1>7, <1>8 DEF IInv

(* The relays are applied; the stale peers follow.                         *)
LEMMA RelaysAppliedStep ==
  ASSUME IInv, RelaysApplied
  PROVE  IInv'
<1> USE DEF RelaysApplied, Goto, Move, history, kernel
<1>1. TypeOK'
  BY DEF IInv, TypeOK
<1>2. LoopsOverAnswer'
  BY DEF IInv, LoopsOverAnswer, ReadyRelays
<1>3. OwnersArePeers'
  BY DEF IInv, OwnersArePeers
<1>4. OwnedAsAnswered'
  BY DEF IInv, OwnedAsAnswered, ReadyRelays
<1>5. StaleRemoved'
  BY DEF IInv, StaleRemoved, AfterRemoval
<1>6. FirewallKnown'
  BY DEF IInv, FirewallKnown, Reconciling, AfterRemoval
<1>7. RoutesKnown'
  BY DEF IInv, RoutesKnown, RelayCidrs, ReadyRelays
<1>8. Inherits'
  BY DEF IInv, Inherits, RelayCidrs, ReadyRelays
<1> QED BY <1>1, <1>2, <1>3, <1>4, <1>5, <1>6, <1>7, <1>8 DEF IInv

(* The peers are listed, or nothing is.                                    *)
LEMMA ListPeersStep ==
  ASSUME IInv, ListPeers
  PROVE  IInv'
<1> USE DEF ListPeers, Goto, Move, history, kernel
<1>1. /\ count' \in [Counters -> Nat]
      /\ pending' = peers \ desired \/ count'["failures"] # 0
      /\ count' = count \/ count'["failures"] # 0
  BY CountedTyped DEF IInv, TypeOK, Counters
<1>2. TypeOK'
  BY <1>1 DEF IInv, TypeOK, Counted, Counters
<1>3. LoopsOverAnswer'
  BY DEF IInv, LoopsOverAnswer, ReadyRelays, Counted, Counters
<1>4. OwnersArePeers'
  BY DEF IInv, OwnersArePeers, Counted, Counters
<1>5. OwnedAsAnswered'
  BY DEF IInv, OwnedAsAnswered, ReadyRelays, Counted, Counters
<1>6. StaleRemoved'
  BY <1>1 DEF IInv, StaleRemoved, AfterRemoval
<1>7. FirewallKnown'
  BY DEF IInv, FirewallKnown, Reconciling, AfterRemoval, Counted, Counters
<1>8. RoutesKnown'
  BY DEF IInv, RoutesKnown, RelayCidrs, ReadyRelays, Counted, Counters
<1>9. Inherits'
  BY DEF IInv, Inherits, RelayCidrs, ReadyRelays, Counted, Counters
<1> QED BY <1>2, <1>3, <1>4, <1>5, <1>6, <1>7, <1>8, <1>9 DEF IInv

(* A stale peer leaves nothing that leads to it.                           *)
LEMMA RemovePeerStep ==
  ASSUME IInv, NEW k \in Keys, RemovePeer(k)
  PROVE  IInv'
<1> USE DEF RemovePeer, Goto, Move, history
<1>1. TypeOK'
  BY DEF IInv, TypeOK
<1>2. LoopsOverAnswer'
  BY DEF IInv, LoopsOverAnswer, ReadyRelays
<1>3. OwnersArePeers'
  BY DEF IInv, OwnersArePeers
<1>4. OwnedAsAnswered'
  <2>1. ReadyRelays' = ReadyRelays /\ answer' = answer /\ desired' = desired
    BY DEF ReadyRelays
  <2>2. None \notin desired
    BY AgentAssumption DEF IInv, TypeOK
  <2>3. \A c \in Cidrs : owner'[c] \in {None, owner[c]}
    OBVIOUS
  <2> QED BY <2>1, <2>2, <2>3 DEF IInv, OwnedAsAnswered, Refused
<1>5. StaleRemoved'
  BY DEF IInv, StaleRemoved, AfterRemoval
<1>6. FirewallKnown'
  BY DEF IInv, FirewallKnown, Reconciling, AfterRemoval
<1>7. RoutesKnown'
  BY DEF IInv, RoutesKnown, RelayCidrs, ReadyRelays
<1>8. Inherits'
  BY DEF IInv, Inherits, RelayCidrs, ReadyRelays
<1> QED BY <1>1, <1>2, <1>3, <1>4, <1>5, <1>6, <1>7, <1>8 DEF IInv

(* The routes the agent does not remember are to be added.                 *)
LEMMA StalePeersRemovedStep ==
  ASSUME IInv, StalePeersRemoved
  PROVE  IInv'
<1> USE DEF StalePeersRemoved, Goto, Move, history, kernel
<1>1. TypeOK'
  BY DEF IInv, TypeOK
<1>2. LoopsOverAnswer'
  BY DEF IInv, LoopsOverAnswer, ReadyRelays
<1>3. OwnersArePeers'
  BY DEF IInv, OwnersArePeers
<1>4. OwnedAsAnswered'
  BY DEF IInv, OwnedAsAnswered, ReadyRelays
<1>5. StaleRemoved'
  BY DEF IInv, StaleRemoved, AfterRemoval
<1>6. FirewallKnown'
  BY DEF IInv, FirewallKnown, Reconciling, AfterRemoval
<1>7. RoutesKnown'
  BY DEF IInv, RoutesKnown, RelayCidrs, ReadyRelays
<1>8. Inherits'
  BY DEF IInv, Inherits, RelayCidrs, ReadyRelays
<1> QED BY <1>1, <1>2, <1>3, <1>4, <1>5, <1>6, <1>7, <1>8 DEF IInv

(* A route is added, or the agent stops.                                   *)
LEMMA AddRouteStep ==
  ASSUME IInv, NEW c \in Cidrs, AddRoute(c)
  PROVE  IInv'
<1> USE DEF AddRoute, Goto, Move, history, Stops
<1>1. TypeOK'
  <2>1. CASE c \in Malformed \/ iface # "up"
    BY <2>1 DEF IInv, TypeOK
  <2>2. CASE ~(c \in Malformed \/ iface # "up")
    BY <2>2 DEF IInv, TypeOK
  <2> QED BY <2>1, <2>2
<1>2. LoopsOverAnswer'
  BY DEF IInv, LoopsOverAnswer, ReadyRelays
<1>3. OwnersArePeers'
  BY DEF IInv, OwnersArePeers
<1>4. OwnedAsAnswered'
  BY DEF IInv, OwnedAsAnswered, ReadyRelays
<1>5. StaleRemoved'
  BY DEF IInv, StaleRemoved, AfterRemoval
<1>6. FirewallKnown'
  BY DEF IInv, FirewallKnown, Reconciling, AfterRemoval
<1>7. RoutesKnown'
  BY DEF IInv, RoutesKnown, RelayCidrs, ReadyRelays
<1>8. Inherits'
  <2>1. RelayCidrs' = RelayCidrs
    BY DEF RelayCidrs, ReadyRelays
  <2>2. c \in RelayCidrs /\ routes \subseteq memoRoutes \cup RelayCidrs \cup inherited
    BY DEF IInv, RoutesKnown, Inherits
  <2>3. CASE c \in Malformed \/ iface # "up"
    BY <2>3 DEF Inherits
  <2>4. CASE ~(c \in Malformed \/ iface # "up")
    <3>1. pc' = "route" /\ routes' = routes \cup {c} /\ inherited' = inherited \ {c}
          /\ memoRoutes' = memoRoutes
      BY <2>4
    <3>2. routes' \subseteq memoRoutes' \cup RelayCidrs' \cup inherited'
      BY <2>1, <2>2, <3>1
    <3> QED BY <3>1, <3>2 DEF Inherits
  <2> QED BY <2>3, <2>4
<1> QED BY <1>1, <1>2, <1>3, <1>4, <1>5, <1>6, <1>7, <1>8 DEF IInv

(* The routes that are not the answer's are to be deleted.                 *)
LEMMA RoutesAddedStep ==
  ASSUME IInv, RoutesAdded
  PROVE  IInv'
<1> USE DEF RoutesAdded, Goto, Move, history, kernel
<1>1. TypeOK'
  BY DEF IInv, TypeOK
<1>2. LoopsOverAnswer'
  BY DEF IInv, LoopsOverAnswer, ReadyRelays
<1>3. OwnersArePeers'
  BY DEF IInv, OwnersArePeers
<1>4. OwnedAsAnswered'
  BY DEF IInv, OwnedAsAnswered, ReadyRelays
<1>5. StaleRemoved'
  BY DEF IInv, StaleRemoved, AfterRemoval
<1>6. FirewallKnown'
  BY DEF IInv, FirewallKnown, Reconciling, AfterRemoval
<1>7. RoutesKnown'
  BY DEF IInv, RoutesKnown, RelayCidrs, ReadyRelays
<1>8. Inherits'
  BY DEF IInv, Inherits, RelayCidrs, ReadyRelays
<1> QED BY <1>1, <1>2, <1>3, <1>4, <1>5, <1>6, <1>7, <1>8 DEF IInv

(* A route is deleted.                                                     *)
LEMMA DeleteRouteStep ==
  ASSUME IInv, NEW c \in Cidrs, DeleteRoute(c)
  PROVE  IInv'
<1> USE DEF DeleteRoute, Goto, Move, history
<1>1. TypeOK'
  BY DEF IInv, TypeOK
<1>2. LoopsOverAnswer'
  BY DEF IInv, LoopsOverAnswer, ReadyRelays
<1>3. OwnersArePeers'
  BY DEF IInv, OwnersArePeers
<1>4. OwnedAsAnswered'
  BY DEF IInv, OwnedAsAnswered, ReadyRelays
<1>5. StaleRemoved'
  BY DEF IInv, StaleRemoved, AfterRemoval
<1>6. FirewallKnown'
  BY DEF IInv, FirewallKnown, Reconciling, AfterRemoval
<1>7. RoutesKnown'
  BY DEF IInv, RoutesKnown, RelayCidrs, ReadyRelays
<1>8. Inherits'
  BY DEF IInv, Inherits, RelayCidrs, ReadyRelays
<1> QED BY <1>1, <1>2, <1>3, <1>4, <1>5, <1>6, <1>7, <1>8 DEF IInv

(* The agent remembers the routes; an unchanged firewall stays.            *)
LEMMA RoutesDeletedStep ==
  ASSUME IInv, RoutesDeleted
  PROVE  IInv'
<1> USE DEF RoutesDeleted, Goto, Move, history, kernel
<1>1. answer.rules # None /\ RelayCidrs \in SUBSET Cidrs
  BY AnswerTyped, AgentAssumption DEF IInv
<1>2. TypeOK'
  BY <1>1 DEF IInv, TypeOK
<1>3. LoopsOverAnswer'
  BY DEF IInv, LoopsOverAnswer, ReadyRelays
<1>4. OwnersArePeers'
  BY DEF IInv, OwnersArePeers
<1>5. OwnedAsAnswered'
  BY DEF IInv, OwnedAsAnswered, ReadyRelays
<1>6. StaleRemoved'
  BY DEF IInv, StaleRemoved, AfterRemoval
<1>7. FirewallKnown'
  BY <1>1 DEF IInv, FirewallKnown, Reconciling, AfterRemoval
<1>8. RoutesKnown'
  BY DEF IInv, RoutesKnown, RelayCidrs, ReadyRelays
<1>9. Inherits'
  BY DEF IInv, Inherits, RelayCidrs, ReadyRelays
<1> QED BY <1>2, <1>3, <1>4, <1>5, <1>6, <1>7, <1>8, <1>9 DEF IInv

(* The rebuilt chain starts empty.                                         *)
LEMMA FlushChainStep ==
  ASSUME IInv, FlushChain
  PROVE  IInv'
<1> USE DEF FlushChain, Goto, Move, history, Empty
<1>1. TypeOK'
  BY DEF IInv, TypeOK
<1>2. LoopsOverAnswer'
  BY DEF IInv, LoopsOverAnswer, ReadyRelays
<1>3. OwnersArePeers'
  BY DEF IInv, OwnersArePeers
<1>4. OwnedAsAnswered'
  BY DEF IInv, OwnedAsAnswered, ReadyRelays
<1>5. StaleRemoved'
  BY DEF IInv, StaleRemoved, AfterRemoval
<1>6. FirewallKnown'
  BY DEF IInv, FirewallKnown, Reconciling, AfterRemoval
<1>7. RoutesKnown'
  BY DEF IInv, RoutesKnown, RelayCidrs, ReadyRelays
<1>8. Inherits'
  BY DEF IInv, Inherits, RelayCidrs, ReadyRelays
<1> QED BY <1>1, <1>2, <1>3, <1>4, <1>5, <1>6, <1>7, <1>8 DEF IInv

(* Open connections first.                                                 *)
LEMMA AcceptEstablishedStep ==
  ASSUME IInv, AcceptEstablished
  PROVE  IInv'
<1> USE DEF AcceptEstablished, Goto, Move, history, Empty
<1>1. TypeOK'
  BY DEF IInv, TypeOK
<1>2. LoopsOverAnswer'
  BY DEF IInv, LoopsOverAnswer, ReadyRelays
<1>3. OwnersArePeers'
  BY DEF IInv, OwnersArePeers
<1>4. OwnedAsAnswered'
  BY DEF IInv, OwnedAsAnswered, ReadyRelays
<1>5. StaleRemoved'
  BY DEF IInv, StaleRemoved, AfterRemoval
<1>6. FirewallKnown'
  BY DEF IInv, FirewallKnown, Reconciling, AfterRemoval
<1>7. RoutesKnown'
  BY DEF IInv, RoutesKnown, RelayCidrs, ReadyRelays
<1>8. Inherits'
  BY DEF IInv, Inherits, RelayCidrs, ReadyRelays
<1> QED BY <1>1, <1>2, <1>3, <1>4, <1>5, <1>6, <1>7, <1>8 DEF IInv

(* A pair is accepted, or the agent stops in the middle of the chain.      *)
LEMMA AppendRuleStep ==
  ASSUME IInv, NEW r \in Flows, AppendRule(r)
  PROVE  IInv'
<1> USE DEF AppendRule, Goto, Move, history, Stops
<1>1. TypeOK'
  <2>1. CASE r[2] \in Malformed
    BY <2>1 DEF IInv, TypeOK
  <2>2. CASE r[2] \notin Malformed
    BY <2>2 DEF IInv, TypeOK
  <2> QED BY <2>1, <2>2
<1>2. LoopsOverAnswer'
  BY DEF IInv, LoopsOverAnswer, ReadyRelays
<1>3. OwnersArePeers'
  BY DEF IInv, OwnersArePeers
<1>4. OwnedAsAnswered'
  BY DEF IInv, OwnedAsAnswered, ReadyRelays
<1>5. StaleRemoved'
  BY DEF IInv, StaleRemoved, AfterRemoval
<1>6. FirewallKnown'
  <2>1. CASE r[2] \in Malformed
    BY <2>1 DEF IInv, FirewallKnown, Reconciling, AfterRemoval
  <2>2. CASE r[2] \notin Malformed
    <3>1. chain'.pairs = chain.pairs \cup {r}
      BY <2>2 DEF IInv, TypeOK
    <3>2. chain.pairs \cup pending = answer.rules /\ jump /\ configured
      BY DEF IInv, FirewallKnown, Reconciling, AfterRemoval
    <3>3. chain'.pairs \cup pending' = answer'.rules
      BY <2>2, <3>1, <3>2
    <3> QED BY <2>2, <3>2, <3>3 DEF FirewallKnown
  <2> QED BY <2>1, <2>2
<1>7. RoutesKnown'
  BY DEF IInv, RoutesKnown, RelayCidrs, ReadyRelays
<1>8. Inherits'
  BY DEF IInv, Inherits, RelayCidrs, ReadyRelays
<1> QED BY <1>1, <1>2, <1>3, <1>4, <1>5, <1>6, <1>7, <1>8 DEF IInv

(* The chain is complete, and remembered.                                  *)
LEMMA AppendDropStep ==
  ASSUME IInv, AppendDrop
  PROVE  IInv'
<1> USE DEF AppendDrop, Goto, Move, history
<1>1. answer.rules \in SUBSET Flows
  BY AnswerTyped DEF IInv
<1>2. TypeOK'
  BY <1>1 DEF IInv, TypeOK
<1>3. LoopsOverAnswer'
  BY DEF IInv, LoopsOverAnswer, ReadyRelays
<1>4. OwnersArePeers'
  BY DEF IInv, OwnersArePeers
<1>5. OwnedAsAnswered'
  BY DEF IInv, OwnedAsAnswered, ReadyRelays
<1>6. StaleRemoved'
  BY DEF IInv, StaleRemoved, AfterRemoval
<1>7. FirewallKnown'
  BY DEF IInv, FirewallKnown, Reconciling, AfterRemoval
<1>8. RoutesKnown'
  BY DEF IInv, RoutesKnown, RelayCidrs, ReadyRelays
<1>9. Inherits'
  BY DEF IInv, Inherits, RelayCidrs, ReadyRelays
<1> QED BY <1>2, <1>3, <1>4, <1>5, <1>6, <1>7, <1>8, <1>9 DEF IInv

(* The subnets are masqueraded.                                            *)
LEMMA EnsureMasqueradeStep ==
  ASSUME IInv, EnsureMasquerade
  PROVE  IInv'
<1> USE DEF EnsureMasquerade, Goto, Move, history
<1>1. answer.masq \in SUBSET Cidrs
  BY AnswerTyped DEF IInv
<1>2. TypeOK'
  BY <1>1 DEF IInv, TypeOK
<1>3. LoopsOverAnswer'
  BY DEF IInv, LoopsOverAnswer, ReadyRelays
<1>4. OwnersArePeers'
  BY DEF IInv, OwnersArePeers
<1>5. OwnedAsAnswered'
  BY DEF IInv, OwnedAsAnswered, ReadyRelays
<1>6. StaleRemoved'
  BY DEF IInv, StaleRemoved, AfterRemoval
<1>7. FirewallKnown'
  BY DEF IInv, FirewallKnown, Reconciling, AfterRemoval
<1>8. RoutesKnown'
  BY DEF IInv, RoutesKnown, RelayCidrs, ReadyRelays
<1>9. Inherits'
  BY DEF IInv, Inherits, RelayCidrs, ReadyRelays
<1> QED BY <1>2, <1>3, <1>4, <1>5, <1>6, <1>7, <1>8, <1>9 DEF IInv

(* The next cycle starts from what this one left.                          *)
LEMMA PollAgainStep ==
  ASSUME IInv, PollAgain
  PROVE  IInv'
<1> USE DEF PollAgain, Goto, Move, history, kernel
<1>1. TypeOK'
  BY DEF IInv, TypeOK
<1>2. LoopsOverAnswer'
  BY DEF IInv, LoopsOverAnswer, ReadyRelays
<1>3. OwnersArePeers'
  BY DEF IInv, OwnersArePeers
<1>4. OwnedAsAnswered'
  BY DEF IInv, OwnedAsAnswered, ReadyRelays
<1>5. StaleRemoved'
  BY DEF IInv, StaleRemoved, AfterRemoval
<1>6. FirewallKnown'
  BY DEF IInv, FirewallKnown, Reconciling, AfterRemoval
<1>7. RoutesKnown'
  BY DEF IInv, RoutesKnown, RelayCidrs, ReadyRelays
<1>8. Inherits'
  BY DEF IInv, Inherits, RelayCidrs, ReadyRelays
<1> QED BY <1>1, <1>2, <1>3, <1>4, <1>5, <1>6, <1>7, <1>8 DEF IInv

(* The kernel outlives the agent.                                          *)
LEMMA CrashStep ==
  ASSUME IInv, Crash
  PROVE  IInv'
<1> USE DEF Crash, Stops, kernel, history
<1>1. count' \in [Counters -> Nat]
  BY CountedTyped DEF IInv, Counters
<1>2. TypeOK'
  BY <1>1 DEF IInv, TypeOK, Counted, Counters
<1>3. LoopsOverAnswer'
  BY DEF IInv, LoopsOverAnswer, ReadyRelays, Counted, Counters
<1>4. OwnersArePeers'
  BY DEF IInv, OwnersArePeers, Counted, Counters
<1>5. OwnedAsAnswered'
  BY DEF IInv, OwnedAsAnswered, ReadyRelays, Counted, Counters
<1>6. StaleRemoved'
  BY DEF IInv, StaleRemoved, AfterRemoval, Counted, Counters
<1>7. FirewallKnown'
  BY DEF IInv, FirewallKnown, Reconciling, AfterRemoval, Counted, Counters
<1>8. RoutesKnown'
  BY DEF IInv, RoutesKnown, RelayCidrs, ReadyRelays, Counted, Counters
<1>9. Inherits'
  BY DEF IInv, Inherits, RelayCidrs, ReadyRelays, Counted, Counters
<1> QED BY <1>2, <1>3, <1>4, <1>5, <1>6, <1>7, <1>8, <1>9 DEF IInv

(* A new process remembers nothing.                                        *)
LEMMA RestartStep ==
  ASSUME IInv, Restart
  PROVE  IInv'
<1> USE DEF Restart, kernel, history
<1>1. TypeOK'
  BY DEF IInv, TypeOK
<1>2. LoopsOverAnswer'
  BY DEF IInv, LoopsOverAnswer, ReadyRelays
<1>3. OwnersArePeers'
  BY DEF IInv, OwnersArePeers
<1>4. OwnedAsAnswered'
  BY DEF IInv, OwnedAsAnswered, ReadyRelays
<1>5. StaleRemoved'
  BY DEF IInv, StaleRemoved, AfterRemoval
<1>6. FirewallKnown'
  BY DEF IInv, FirewallKnown, Reconciling, AfterRemoval
<1>7. RoutesKnown'
  BY DEF IInv, RoutesKnown, RelayCidrs, ReadyRelays
<1>8. Inherits'
  BY DEF IInv, Inherits, RelayCidrs, ReadyRelays
<1> QED BY <1>1, <1>2, <1>3, <1>4, <1>5, <1>6, <1>7, <1>8 DEF IInv

(* The control plane and the packets touch neither memory nor kernel.      *)
LEMMA WorldStep ==
  ASSUME IInv, plane' \in Answers, flows' \subseteq Flows, UNCHANGED <<memory, kernel>>,
         count' \in [Counters -> Nat]
  PROVE  IInv'
<1> USE DEF memory, kernel, history
<1>1. TypeOK'
  BY DEF IInv, TypeOK
<1>2. LoopsOverAnswer'
  BY DEF IInv, LoopsOverAnswer, ReadyRelays
<1>3. OwnersArePeers'
  BY DEF IInv, OwnersArePeers
<1>4. OwnedAsAnswered'
  BY DEF IInv, OwnedAsAnswered, ReadyRelays
<1>5. StaleRemoved'
  BY DEF IInv, StaleRemoved, AfterRemoval
<1>6. FirewallKnown'
  BY DEF IInv, FirewallKnown, Reconciling, AfterRemoval
<1>7. RoutesKnown'
  BY DEF IInv, RoutesKnown, RelayCidrs, ReadyRelays
<1>8. Inherits'
  BY DEF IInv, Inherits, RelayCidrs, ReadyRelays
<1> QED BY <1>1, <1>2, <1>3, <1>4, <1>5, <1>6, <1>7, <1>8 DEF IInv

\* The invariant holds initially: the agent and its kernel know nothing.
LEMMA IInvInitial == Init => IInv
<1> SUFFICES ASSUME Init
             PROVE  IInv
  OBVIOUS
<1>1. TypeOK
  BY RepliesTyped DEF Init, TypeOK, Empty
<1>2. None \notin desired
  BY DEF Init
<1> QED BY <1>1, <1>2 DEF Init, IInv, LoopsOverAnswer, OwnersArePeers, OwnedAsAnswered,
           StaleRemoved, FirewallKnown, RoutesKnown, Inherits, Reconciling, AfterRemoval

(* Every step of the agent and of its surroundings keeps the invariant.    *)
LEMMA IInvInductive ==
  ASSUME IInv, [Next]_vars
  PROVE  IInv'
<1>1. CASE SyncAnswered
  BY <1>1, GoesOnStep, RepliesTyped DEF SyncAnswered, IInv, TypeOK
<1>2. ASSUME NEW b \in Answers, SyncOverEdit(b)
      PROVE  IInv'
  <2>1. PICK a \in Torn(plane, b) : GoesOn(a)
    BY <1>2 DEF SyncOverEdit
  <2>2. a \in Replies /\ plane' \in Answers /\ pc = "sync"
    BY <1>2, RepliesTyped DEF SyncOverEdit, IInv, TypeOK
  <2>3. count' \in [Counters -> Nat]
    BY <1>2 DEF SyncOverEdit, IInv, TypeOK, Counters
  <2> QED BY <2>1, <2>2, <2>3, GoesOnStep
<1>3. ASSUME NEW c \in Cidrs, AddRoute(c) \/ DeleteRoute(c)
      PROVE  IInv'
  BY <1>3, AddRouteStep, DeleteRouteStep
<1>4. ASSUME NEW a \in Answers, ChangeAnswer(a)
      PROVE  IInv'
  BY <1>4, CountedTyped, WorldStep DEF ChangeAnswer, IInv, TypeOK, Counters
<1>5. ASSUME NEW f \in Flows, Packet(f)
      PROVE  IInv'
  BY <1>5, WorldStep DEF Packet, IInv, TypeOK
<1>6. CASE UNCHANGED vars
  BY <1>6, WorldStep DEF vars, IInv, TypeOK
<1>7. CASE Agent
  BY <1>1, <1>3, <1>7, SetupInterfaceStep, BringUpStep, EnsureForwardingStep, ApplyPeerStep,
     PeersAppliedStep, RelaysAppliedStep, ListPeersStep, RemovePeerStep,
     StalePeersRemovedStep, RoutesAddedStep, RoutesDeletedStep, FlushChainStep,
     AcceptEstablishedStep, AppendRuleStep, AppendDropStep, EnsureMasqueradeStep,
     PollAgainStep DEF Agent
<1> QED BY <1>2, <1>4, <1>5, <1>6, <1>7, SyncFailsStep, CrashStep, RestartStep DEF Next

(* Only a malformed network ends an agent that does not crash.             *)
LEMMA NotCrashedStep ==
  ASSUME IInv, NotCrashed, [Next]_vars
  PROVE  NotCrashed'
<1> SUFFICES ASSUME count'["crashes"] = 0
             PROVE  NotCrashed'
  BY DEF NotCrashed
<1> USE DEF NotCrashed, Counted
<1>1. ASSUME NEW a, GoesOn(a), pc = "sync", count["crashes"] = 0
      PROVE  NotCrashed'
  BY <1>1 DEF GoesOn, kernel
<1>2. CASE SyncAnswered
  BY <1>1, <1>2 DEF SyncAnswered
<1>3. ASSUME NEW b \in Answers, SyncOverEdit(b)
      PROVE  NotCrashed'
  BY <1>1, <1>3 DEF SyncOverEdit, IInv, TypeOK, Counters
<1>4. CASE SetupInterface \/ BringUp \/ EnsureForwarding
  BY <1>4 DEF SetupInterface, BringUp, EnsureForwarding, Goto, Move, IInv, FirewallKnown
<1>5. ASSUME NEW p, ApplyPeer(p)
      PROVE  NotCrashed'
  BY <1>5 DEF ApplyPeer, Goto, Move
<1>6. CASE PeersApplied \/ RelaysApplied \/ \E k \in Keys : RemovePeer(k)
  BY <1>6 DEF PeersApplied, RelaysApplied, RemovePeer, Goto, Move, kernel
<1>7. CASE ListPeers
  BY <1>7 DEF ListPeers, Goto, Move, kernel, IInv, TypeOK, Counters
<1>8. CASE StalePeersRemoved \/ RoutesAdded \/ RoutesDeleted
  BY <1>8 DEF StalePeersRemoved, RoutesAdded, RoutesDeleted, Goto, Move, kernel
<1>9. ASSUME NEW c \in Cidrs, AddRoute(c)
      PROVE  NotCrashed'
  <2>1. c \in RelayCidrs /\ configured
    BY <1>9 DEF AddRoute, IInv, RoutesKnown, FirewallKnown, Reconciling, AfterRemoval
  <2>2. CASE c \in Malformed \/ iface # "up"
    <3>1. c \in Malformed /\ iface = "up"
      BY <1>9, <2>1, <2>2 DEF AddRoute
    <3>2. BadNetwork(answer)
      BY <2>1, <3>1 DEF RelayCidrs, ReadyRelays, BadNetwork
    <3> QED BY <1>9, <2>2, <3>1, <3>2 DEF AddRoute, Stops
  <2>3. CASE ~(c \in Malformed \/ iface # "up")
    BY <1>9, <2>3 DEF AddRoute, Move
  <2> QED BY <2>2, <2>3
<1>10. ASSUME NEW c \in Cidrs, DeleteRoute(c)
       PROVE  NotCrashed'
  BY <1>10 DEF DeleteRoute, Goto, Move
<1>11. ASSUME NEW r \in Flows, AppendRule(r)
       PROVE  NotCrashed'
  <2>1. r \in answer.rules /\ configured
    BY <1>11 DEF AppendRule, IInv, FirewallKnown, Reconciling, AfterRemoval
  <2>2. CASE r[2] \in Malformed
    BY <1>11, <2>1, <2>2 DEF AppendRule, Stops, BadNetwork
  <2>3. CASE r[2] \notin Malformed
    BY <1>11, <2>3 DEF AppendRule, Goto, Move
  <2> QED BY <2>2, <2>3
<1>12. CASE FlushChain \/ AcceptEstablished \/ AppendDrop \/ EnsureMasquerade \/ PollAgain
  BY <1>12 DEF FlushChain, AcceptEstablished, AppendDrop, EnsureMasquerade, PollAgain, Goto, Move,
     kernel
<1>13. CASE Crash
  BY <1>13, CountedTyped DEF Crash, IInv, Counters
<1>14. CASE Restart
  BY <1>14 DEF Restart, kernel
<1>15. CASE \/ SyncFails \/ UNCHANGED vars
            \/ \E a \in Answers : ChangeAnswer(a)
            \/ \E f \in Flows : Packet(f)
  BY <1>15 DEF SyncFails, ChangeAnswer, Packet, vars, memory, kernel, IInv, TypeOK, Counters
<1>16. CASE Agent
  BY <1>2, <1>4, <1>5, <1>6, <1>7, <1>8, <1>9, <1>10, <1>11, <1>12, <1>16 DEF Agent
<1> QED BY <1>3, <1>13, <1>14, <1>15, <1>16 DEF Next

-----------------------------------------------------------------------------
(* The theorems.                                                           *)

(* Every reachable state satisfies the inductive invariant.                *)
THEOREM AgentInvariance == Spec => []IInv
<1>1. IInv /\ [Next]_vars => IInv'
  BY IInvInductive
<1> QED BY <1>1, IInvInitial, PTL DEF Spec

(* The agent's state and the kernel's keep their shape.                    *)
THEOREM TypeCorrect == Spec => []TypeOK
<1>1. IInv => TypeOK
  BY DEF IInv
<1> QED BY <1>1, AgentInvariance, PTL

(* Between two cycles nothing is forwarded for a client that the last       *)
(* answer does not grant to its key, open connections of served keys       *)
(* aside, wherever earlier cycles crashed; after a `wg show` that failed,   *)
(* nothing but open connections and what the answer accepts (reconcile).   *)
THEOREM NothingIsForwardedBeyond == Spec => []NothingBeyondAnswer
<1>1. IInv => NothingBeyondAnswer
  <2> SUFFICES ASSUME IInv, pc = "sleep", NEW k \in Keys, NEW f \in Flows, Forwards(k, f)
               PROVE  \/ f \in Granted(answer, k)
                      \/ k \in Served(answer) /\ f \in flows
                      \/ ~listed /\ f \in flows \cup answer.rules
    BY DEF NothingBeyondAnswer
  <2>1. f[1] \in Clients /\ f[1] \in Cidrs /\ owner[f[1]] = k
    BY DEF Flows, Cidrs, Forwards
  <2>2. f \in flows \/ f \in answer.rules
    <3>1. memoRules = answer.rules /\ answer.rules # None /\ jump
      BY AnswerTyped, AgentAssumption DEF IInv, FirewallKnown, Reconciling, AfterRemoval
    <3>2. chain.pairs = answer.rules /\ chain.drop
      BY <3>1 DEF IInv, FirewallKnown
    <3> QED BY <3>1, <3>2 DEF Forwards, Accepts
  <2>3. CASE ~listed
    BY <2>2, <2>3
  <2>4. CASE listed
    <3>1. k \in desired
      BY <2>1, <2>4, AgentAssumption DEF IInv, OwnersArePeers, StaleRemoved, AfterRemoval
    <3>2. PICK p \in answer.peers \cup ReadyRelays :
              ~Refused(p) /\ p.key = k /\ f[1] \in p.ips
      BY <2>1, <3>1 DEF IInv, OwnedAsAnswered
    <3>3. p \in answer.peers
      BY <2>1, <3>2, AnswerTyped, AgentAssumption DEF IInv
    <3>4. k \in Served(answer)
      BY <3>2, <3>3 DEF Served
    <3> QED BY <2>2, <3>2, <3>3, <3>4 DEF Granted
  <2> QED BY <2>3, <2>4
<1> QED BY <1>1, AgentInvariance, PTL

(* A malformed client peer does not end the agent: without a crash only a   *)
(* malformed network does (reconcile's "must not take the whole gateway    *)
(* down").                                                                 *)
THEOREM MalformedPeersAreTolerated == Spec => []MalformedPeerTolerated
<1>1. Init => NotCrashed
  BY DEF Init, NotCrashed
<1>2. IInv /\ NotCrashed /\ [Next]_vars => NotCrashed'
  BY NotCrashedStep
<1>3. NotCrashed => MalformedPeerTolerated
  BY DEF NotCrashed, MalformedPeerTolerated
<1> QED BY <1>1, <1>2, <1>3, AgentInvariance, PTL DEF Spec

(* Between two cycles the relays' networks are routed to the tunnel, and    *)
(* nothing else is but what an earlier process left (_relay_routes).       *)
THEOREM RoutesAreTheAnswers == Spec => []RoutesMatch
<1>1. IInv => RoutesMatch
  BY DEF IInv, RoutesKnown, Inherits, RoutesMatch
<1> QED BY <1>1, AgentInvariance, PTL
=============================================================================
