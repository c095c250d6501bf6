--------------------------- MODULE AgentSync_proofs ---------------------------
(***************************************************************************)
(* AgentSync's type invariant and its safety properties, for any number of *)
(* control planes, any keys and subnets, and any numbers of crashes, losses, *)
(* changes of a plane's health and edits.                                   *)
(***************************************************************************)
EXTENDS AgentSync, TLAPS

(***************************************************************************)
(* The inductive invariant, in named parts.                                *)
(***************************************************************************)
Running == {"post", "wait", "setup", "key", "address", "raise", "sleep"}

\* The private key the process holds, by how far it has come.
KeyHeld ==
    /\ pc \in {"open", "write"} \cup Running => key \in Keys
    /\ pc = "pubkey" => key # None

\* A plane works on a request only while the agent waits for it.
RequestAwaited == request.stage \in {"check", "save", "refused"} => pc = "wait"

\* The interface is set up in a cycle that had its answer.
SetupAnswered == pc \in {"setup", "key", "address", "raise"} => outcome = "ok"

\* The planes tried before the one in turn were out of order in this cycle,
\* and those that were not are up.
TriedOutOfOrder ==
    pc \in {"post", "wait"} =>
        /\ \A p \in steady : health[p] = "up"
        /\ \A i \in 0 .. offset - 1 : ((current + i) % NPlanes) \notin steady

\* Where a key can be while the state directory is kept: nowhere before the
\* key file holds one, and everywhere the same afterwards.
KeyOfFile ==
    count["losses"] = 0 =>
        /\ told \subseteq {file}
        /\ \A r \in late : r.key = file
        /\ row.key \in {None, file}
        /\ page # None => page.key \in {None, file}
        /\ file = None => pc \in {"boot", "genkey", "open", "down"}
        /\ file = Empty => pc \in {"boot", "write", "pubkey", "down"}
        /\ pc = "write" => file = Empty
        /\ pc \in {"genkey", "open"} => file = None
        /\ pc \in {"pubkey"} \cup Running => key = file

IInv ==
    /\ TypeOK
    /\ KeyHeld
    /\ RequestAwaited
    /\ SetupAnswered
    /\ TriedOutOfOrder
    /\ KeyOfFile
    /\ FailsOnlyWithoutPlane

(* The planes in turn: every offset names a plane, offset 0 the sticky one,  *)
(* and all the offsets together all the planes.                              *)
LEMMA InTurn ==
  ASSUME NEW c \in Planes
  PROVE  /\ \A i \in Planes : (c + i) % NPlanes \in Planes
         /\ (c + 0) % NPlanes = c
         /\ \A p \in Planes : \E i \in Planes : (c + i) % NPlanes = p
<1> USE AgentSyncAssumption DEF Planes
<1>1. \A x \in Nat : x % NPlanes \in 0 .. NPlanes - 1
  OBVIOUS
<1>2. \A x \in 0 .. NPlanes - 1 : x % NPlanes = x
  OBVIOUS
<1>3. \A x \in 0 .. NPlanes - 1 : (x + NPlanes) % NPlanes = x
  OBVIOUS
<1>4. \A i \in Planes : (c + i) % NPlanes \in Planes
  BY <1>1
<1>5. (c + 0) % NPlanes = c
  BY <1>2
<1>6. ASSUME NEW p \in Planes PROVE \E i \in Planes : (c + i) % NPlanes = p
  <2>1. CASE c <= p
    <3>1. p - c \in Planes /\ c + (p - c) = p
      BY <2>1
    <3> QED BY <1>2, <3>1
  <2>2. CASE p < c
    <3>1. p + NPlanes - c \in Planes /\ c + (p + NPlanes - c) = p + NPlanes
      BY <2>2
    <3> QED BY <1>3, <3>1
  <2> QED BY <2>1, <2>2
<1> QED BY <1>4, <1>5, <1>6

\* The first plane is one of them.
LEMMA FirstPlane == 0 \in Planes
BY AgentSyncAssumption DEF Planes

(* What a request that is given up may still report is the agent's key.     *)
LEMMA AbandonedKey ==
  ASSUME IInv
  PROVE  /\ Abandoned \subseteq [key : Keys, stage : {"check", "save"}]
         /\ \A r \in Abandoned : r.key = key /\ pc = "wait"
BY DEF IInv, KeyHeld, RequestAwaited, Running, Abandoned

(***************************************************************************)
(* One lemma per action: it preserves the inductive invariant.              *)
(***************************************************************************)
(* The key a process loads is the one its file holds.                       *)
LEMMA LoadKeyStep ==
  ASSUME IInv, LoadKey
  PROVE  IInv'
<1> USE AgentSyncAssumption DEF LoadKey, world, cycle, table
<1>1. TypeOK'
  BY DEF IInv, TypeOK, KeyHeld, RequestAwaited, Counters
<1>2. KeyHeld' /\ RequestAwaited' /\ SetupAnswered'
  BY DEF IInv, TypeOK, KeyHeld, RequestAwaited, SetupAnswered, Running
<1>3. TriedOutOfOrder'
  BY DEF IInv, TypeOK, TriedOutOfOrder
<1>4. KeyOfFile'
  BY DEF IInv, TypeOK, KeyOfFile, KeyHeld, RequestAwaited, Running, Counters
<1>5. FailsOnlyWithoutPlane'
  BY DEF IInv, TypeOK, FailsOnlyWithoutPlane
<1> QED BY <1>1, <1>2, <1>3, <1>4, <1>5 DEF IInv

\* A generated key is in the agent's memory only.
LEMMA GenerateKeyStep ==
  ASSUME IInv, GenerateKey
  PROVE  IInv'
<1> USE AgentSyncAssumption DEF GenerateKey, world, cycle, table
<1>1. TypeOK'
  BY DEF IInv, TypeOK, KeyHeld, RequestAwaited, Counters
<1>2. KeyHeld' /\ RequestAwaited' /\ SetupAnswered'
  BY DEF IInv, TypeOK, KeyHeld, RequestAwaited, SetupAnswered, Running
<1>3. TriedOutOfOrder'
  BY DEF IInv, TypeOK, TriedOutOfOrder
<1>4. KeyOfFile'
  BY DEF IInv, TypeOK, KeyOfFile, KeyHeld, RequestAwaited, Running, Counters
<1>5. FailsOnlyWithoutPlane'
  BY DEF IInv, TypeOK, FailsOnlyWithoutPlane
<1> QED BY <1>1, <1>2, <1>3, <1>4, <1>5 DEF IInv

\* The key file is created empty: the key is still in memory.
LEMMA OpenKeyFileStep ==
  ASSUME IInv, OpenKeyFile
  PROVE  IInv'
<1> USE AgentSyncAssumption DEF OpenKeyFile, cycle, table
<1>1. TypeOK'
  BY DEF IInv, TypeOK, KeyHeld, RequestAwaited, Counters
<1>2. KeyHeld' /\ RequestAwaited' /\ SetupAnswered'
  BY DEF IInv, TypeOK, KeyHeld, RequestAwaited, SetupAnswered, Running
<1>3. TriedOutOfOrder'
  BY DEF IInv, TypeOK, TriedOutOfOrder
<1>4. KeyOfFile'
  BY DEF IInv, TypeOK, KeyOfFile, KeyHeld, RequestAwaited, Running, Counters
<1>5. FailsOnlyWithoutPlane'
  BY DEF IInv, TypeOK, FailsOnlyWithoutPlane
<1> QED BY <1>1, <1>2, <1>3, <1>4, <1>5 DEF IInv

\* The key the file gets is the one in memory.
LEMMA WriteKeyFileStep ==
  ASSUME IInv, WriteKeyFile
  PROVE  IInv'
<1> USE AgentSyncAssumption DEF WriteKeyFile, cycle, table
<1>1. TypeOK'
  BY DEF IInv, TypeOK, KeyHeld, RequestAwaited, Counters
<1>2. KeyHeld' /\ RequestAwaited' /\ SetupAnswered'
  BY DEF IInv, TypeOK, KeyHeld, RequestAwaited, SetupAnswered, Running
<1>3. TriedOutOfOrder'
  BY DEF IInv, TypeOK, TriedOutOfOrder
<1>4. KeyOfFile'
  BY DEF IInv, TypeOK, KeyOfFile, KeyHeld, RequestAwaited, Running, Counters
<1>5. FailsOnlyWithoutPlane'
  BY DEF IInv, TypeOK, FailsOnlyWithoutPlane
<1> QED BY <1>1, <1>2, <1>3, <1>4, <1>5 DEF IInv

\* The key the agent derives is the file's.
LEMMA DeriveKeyStep ==
  ASSUME IInv, DeriveKey
  PROVE  IInv'
<1> USE AgentSyncAssumption DEF DeriveKey, BeginCycle, world, cycle, table
<1>1. TypeOK'
  BY FirstPlane DEF IInv, TypeOK, KeyHeld, Running
<1>2. KeyHeld' /\ RequestAwaited' /\ SetupAnswered'
  BY DEF IInv, TypeOK, KeyHeld, RequestAwaited, SetupAnswered, Running
<1>3. TriedOutOfOrder'
  BY DEF IInv, TypeOK, TriedOutOfOrder
<1>4. KeyOfFile'
  BY DEF IInv, TypeOK, KeyOfFile, KeyHeld, RequestAwaited, Running, Counters
<1>5. FailsOnlyWithoutPlane'
  BY DEF IInv, TypeOK, FailsOnlyWithoutPlane
<1> QED BY <1>1, <1>2, <1>3, <1>4, <1>5 DEF IInv

\* A request asks the plane whose turn it is.
LEMMA PostStep ==
  ASSUME IInv, Post
  PROVE  IInv'
<1> USE AgentSyncAssumption DEF Post, world, table, NoRequest
<1>1. TypeOK'
  BY DEF IInv, TypeOK, KeyHeld, RequestAwaited, Counters
<1>2. KeyHeld' /\ RequestAwaited' /\ SetupAnswered'
  BY DEF IInv, TypeOK, KeyHeld, RequestAwaited, SetupAnswered, Running
<1>3. TriedOutOfOrder'
  BY DEF IInv, TypeOK, TriedOutOfOrder
<1>4. KeyOfFile'
  BY DEF IInv, TypeOK, KeyOfFile, KeyHeld, RequestAwaited, Running, Counters
<1>5. FailsOnlyWithoutPlane'
  BY DEF IInv, TypeOK, FailsOnlyWithoutPlane
<1> QED BY <1>1, <1>2, <1>3, <1>4, <1>5 DEF IInv

(* The plane in turn is failing: it was not up throughout, and when it is the *)
(* last one, neither was any other.                                         *)
LEMMA PlaneFailsStep ==
  ASSUME IInv, PlaneFails
  PROVE  IInv'
<1> USE AgentSyncAssumption DEF PlaneFails, NextPlane, EndCycle, table, NoRequest
<1>1. TypeOK'
  <2>1. offset + 1 < NPlanes => offset + 1 \in Planes
    BY DEF IInv, TypeOK, Planes
  <2> QED BY AbandonedKey, <2>1 DEF IInv, TypeOK
<1>2. KeyHeld' /\ RequestAwaited' /\ SetupAnswered'
  BY DEF IInv, TypeOK, KeyHeld, RequestAwaited, SetupAnswered, Running
<1>3. TriedOutOfOrder'
  <2>1. Tried \notin steady
    BY DEF IInv, TriedOutOfOrder
  <2>2. \A i \in 0 .. offset : ((current + i) % NPlanes) \notin steady
    BY <2>1 DEF IInv, TypeOK, TriedOutOfOrder, Tried, Planes
  <2>3. offset' = offset + 1 => \A i \in 0 .. offset' - 1 : i \in 0 .. offset
    BY DEF IInv, TypeOK, Planes
  <2> QED BY <2>2, <2>3 DEF IInv, TriedOutOfOrder
<1>4. KeyOfFile'
  BY AbandonedKey DEF IInv, TypeOK, KeyOfFile, KeyHeld, RequestAwaited, Running, Counters
<1>5. FailsOnlyWithoutPlane'
  <2>1. CASE offset + 1 < NPlanes
    BY <2>1 DEF FailsOnlyWithoutPlane
  <2>2. CASE ~(offset + 1 < NPlanes)
    <3>a. offset \in 0 .. NPlanes - 1
      BY DEF IInv, TypeOK, Planes
    <3>1. offset = NPlanes - 1
      BY <2>2, <3>a
    <3>2. Tried \notin steady
      BY DEF IInv, TriedOutOfOrder
    <3>3. \A i \in Planes : ((current + i) % NPlanes) \notin steady
      BY <3>1, <3>2 DEF IInv, TypeOK, TriedOutOfOrder, Tried, Planes
    <3>4. steady \subseteq Planes /\ current \in Planes
      BY DEF IInv, TypeOK
    <3>5. steady = {}
      BY <3>3, <3>4, InTurn
    <3> QED BY <3>5 DEF FailsOnlyWithoutPlane
  <2> QED BY <2>1, <2>2
<1> QED BY <1>1, <1>2, <1>3, <1>4, <1>5 DEF IInv

\* A refused sync ends the cycle and keeps the plane.
LEMMA RefusedStep ==
  ASSUME IInv, Refused
  PROVE  IInv'
<1> USE AgentSyncAssumption DEF Refused, EndCycle, world, table, NoRequest
<1>1. TypeOK'
  BY DEF IInv, TypeOK, KeyHeld, RequestAwaited, Counters
<1>2. KeyHeld' /\ RequestAwaited' /\ SetupAnswered'
  BY DEF IInv, TypeOK, KeyHeld, RequestAwaited, SetupAnswered, Running
<1>3. TriedOutOfOrder'
  BY DEF IInv, TypeOK, TriedOutOfOrder
<1>4. KeyOfFile'
  BY DEF IInv, TypeOK, KeyOfFile, KeyHeld, RequestAwaited, Running, Counters
<1>5. FailsOnlyWithoutPlane'
  BY DEF IInv, TypeOK, FailsOnlyWithoutPlane
<1> QED BY <1>1, <1>2, <1>3, <1>4, <1>5 DEF IInv

\* An answer that is no JSON ends the cycle at the plane that gave it.
LEMMA GarbledStep ==
  ASSUME IInv, Garbled
  PROVE  IInv'
<1> USE AgentSyncAssumption DEF Garbled, EndCycle, table, NoRequest
<1>1. TypeOK'
  <2>1. Tried \in Planes
    BY InTurn DEF IInv, TypeOK, Tried
  <2> QED BY AbandonedKey, <2>1 DEF IInv, TypeOK
<1>2. KeyHeld' /\ RequestAwaited' /\ SetupAnswered'
  BY DEF IInv, TypeOK, KeyHeld, RequestAwaited, SetupAnswered, Running
<1>3. TriedOutOfOrder'
  BY DEF IInv, TypeOK, TriedOutOfOrder
<1>4. KeyOfFile'
  BY AbandonedKey DEF IInv, TypeOK, KeyOfFile, KeyHeld, RequestAwaited, Running, Counters
<1>5. FailsOnlyWithoutPlane'
  BY DEF IInv, TypeOK, FailsOnlyWithoutPlane
<1> QED BY <1>1, <1>2, <1>3, <1>4, <1>5 DEF IInv

\* The plane that answers is the one kept, and its answer ends the cycle.
LEMMA AnsweredStep ==
  ASSUME IInv, Answered
  PROVE  IInv'
<1> USE AgentSyncAssumption DEF Answered, world, table
<1>1. TypeOK'
  <2>1. Tried \in Planes
    BY InTurn DEF IInv, TypeOK, Tried
  <2> QED BY FirstPlane, <2>1 DEF IInv, TypeOK
<1>2. KeyHeld' /\ RequestAwaited' /\ SetupAnswered'
  BY DEF IInv, TypeOK, KeyHeld, RequestAwaited, SetupAnswered, Running
<1>3. TriedOutOfOrder'
  BY DEF IInv, TypeOK, TriedOutOfOrder
<1>4. KeyOfFile'
  BY DEF IInv, TypeOK, KeyOfFile, KeyHeld, RequestAwaited, Running, Counters
<1>5. FailsOnlyWithoutPlane'
  BY DEF IInv, TypeOK, FailsOnlyWithoutPlane
<1> QED BY <1>1, <1>2, <1>3, <1>4, <1>5 DEF IInv

\* A new cycle has tried no plane, and counts those that are up.
LEMMA PollAgainStep ==
  ASSUME IInv, PollAgain
  PROVE  IInv'
<1> USE AgentSyncAssumption DEF PollAgain, BeginCycle, world, table
<1>1. TypeOK'
  BY FirstPlane DEF IInv, TypeOK, KeyHeld, Running
<1>2. KeyHeld' /\ RequestAwaited' /\ SetupAnswered'
  BY DEF IInv, TypeOK, KeyHeld, RequestAwaited, SetupAnswered, Running
<1>3. TriedOutOfOrder'
  BY DEF IInv, TypeOK, TriedOutOfOrder
<1>4. KeyOfFile'
  BY DEF IInv, TypeOK, KeyOfFile, KeyHeld, RequestAwaited, Running, Counters
<1>5. FailsOnlyWithoutPlane'
  BY DEF IInv, TypeOK, FailsOnlyWithoutPlane
<1> QED BY <1>1, <1>2, <1>3, <1>4, <1>5 DEF IInv

\* A missing interface is created with the key in memory.
LEMMA SetupInterfaceStep ==
  ASSUME IInv, SetupInterface
  PROVE  IInv'
<1> USE AgentSyncAssumption DEF SetupInterface, table
<1>1. TypeOK'
  <2>1. key \in Keys
    BY DEF IInv, KeyHeld, Running
  <2>2. iface' \in [state : {"absent", "added", "keyed", "addressed", "up"},
                     key : Keys \cup {None}, subnet : Subnets \cup {None}]
    BY <2>1 DEF IInv, TypeOK
  <2>3. pc' \in {"key", "sleep"} /\ configured' \in BOOLEAN
    BY DEF IInv, TypeOK
  <2>4. UNCHANGED <<file, table, health, late, count, key, current, offset, request,
                    outcome, steady>>
    OBVIOUS
  <2> HIDE DEF SetupInterface
  <2> QED BY <2>2, <2>3, <2>4 DEF IInv, TypeOK
<1>2. KeyHeld' /\ RequestAwaited' /\ SetupAnswered'
  BY DEF IInv, TypeOK, KeyHeld, RequestAwaited, SetupAnswered, Running
<1>3. TriedOutOfOrder'
  BY DEF IInv, TypeOK, TriedOutOfOrder
<1>4. KeyOfFile'
  BY DEF IInv, TypeOK, KeyOfFile, KeyHeld, RequestAwaited, Running, Counters
<1>5. FailsOnlyWithoutPlane'
  BY DEF IInv, TypeOK, SetupAnswered, FailsOnlyWithoutPlane
<1> QED BY <1>1, <1>2, <1>3, <1>4, <1>5 DEF IInv

\* The interface goes through its stages with that key.
LEMMA RaiseInterfaceStep ==
  ASSUME IInv, RaiseInterface
  PROVE  IInv'
<1> USE AgentSyncAssumption DEF RaiseInterface, table
<1>1. TypeOK'
  BY DEF IInv, TypeOK, KeyHeld, RequestAwaited, Counters
<1>2. KeyHeld' /\ RequestAwaited' /\ SetupAnswered'
  BY DEF IInv, TypeOK, KeyHeld, RequestAwaited, SetupAnswered, Running
<1>3. TriedOutOfOrder'
  BY DEF IInv, TypeOK, TriedOutOfOrder
<1>4. KeyOfFile'
  BY DEF IInv, TypeOK, KeyOfFile, KeyHeld, RequestAwaited, Running, Counters
<1>5. FailsOnlyWithoutPlane'
  BY DEF IInv, TypeOK, SetupAnswered, FailsOnlyWithoutPlane
<1> QED BY <1>1, <1>2, <1>3, <1>4, <1>5 DEF IInv

\* An existing interface gets the key in memory.
LEMMA SetKeyStep ==
  ASSUME IInv, SetKey
  PROVE  IInv'
<1> USE AgentSyncAssumption DEF SetKey, table, cycle
<1>1. TypeOK'
  <2>1. key \in Keys
    BY DEF IInv, KeyHeld, Running
  <2>2. iface' \in [state : {"absent", "added", "keyed", "addressed", "up"},
                     key : Keys \cup {None}, subnet : Subnets \cup {None}]
    BY <2>1 DEF IInv, TypeOK
  <2> QED BY <2>2 DEF IInv, TypeOK
<1>2. KeyHeld' /\ RequestAwaited' /\ SetupAnswered'
  BY DEF IInv, TypeOK, KeyHeld, RequestAwaited, SetupAnswered, Running
<1>3. TriedOutOfOrder'
  BY DEF IInv, TypeOK, TriedOutOfOrder
<1>4. KeyOfFile'
  BY DEF IInv, TypeOK, KeyOfFile, KeyHeld, RequestAwaited, Running, Counters
<1>5. FailsOnlyWithoutPlane'
  BY DEF IInv, TypeOK, FailsOnlyWithoutPlane
<1> QED BY <1>1, <1>2, <1>3, <1>4, <1>5 DEF IInv

\* An address moves no key.
LEMMA SetAddressStep ==
  ASSUME IInv, SetAddress
  PROVE  IInv'
<1> USE AgentSyncAssumption DEF SetAddress, table, cycle
<1>1. TypeOK'
  <2>1. iface' \in [state : {"absent", "added", "keyed", "addressed", "up"},
                     key : Keys \cup {None}, subnet : Subnets \cup {None}]
    BY DEF IInv, TypeOK
  <2> QED BY <2>1 DEF IInv, TypeOK
<1>2. KeyHeld' /\ RequestAwaited' /\ SetupAnswered'
  BY DEF IInv, TypeOK, KeyHeld, RequestAwaited, SetupAnswered, Running
<1>3. TriedOutOfOrder'
  BY DEF IInv, TypeOK, TriedOutOfOrder
<1>4. KeyOfFile'
  BY DEF IInv, TypeOK, KeyOfFile, KeyHeld, RequestAwaited, Running, Counters
<1>5. FailsOnlyWithoutPlane'
  BY DEF IInv, TypeOK, FailsOnlyWithoutPlane
<1> QED BY <1>1, <1>2, <1>3, <1>4, <1>5 DEF IInv

\* The token's check changes no row.
LEMMA CheckTokenStep ==
  ASSUME IInv, CheckToken
  PROVE  IInv'
<1> USE AgentSyncAssumption DEF CheckToken, NewStage, world, table, NoRequest
<1>1. TypeOK'
  BY DEF IInv, TypeOK, KeyHeld, RequestAwaited, Counters
<1>2. KeyHeld' /\ RequestAwaited' /\ SetupAnswered'
  BY DEF IInv, TypeOK, KeyHeld, RequestAwaited, SetupAnswered, Running
<1>3. TriedOutOfOrder'
  BY DEF IInv, TypeOK, TriedOutOfOrder
<1>4. KeyOfFile'
  BY DEF IInv, TypeOK, KeyOfFile, KeyHeld, RequestAwaited, Running, Counters
<1>5. FailsOnlyWithoutPlane'
  BY DEF IInv, TypeOK, FailsOnlyWithoutPlane
<1> QED BY <1>1, <1>2, <1>3, <1>4, <1>5 DEF IInv

\* The key saved is the agent's, which waits for the answer.
LEMMA SaveKeyStep ==
  ASSUME IInv, SaveKey
  PROVE  IInv'
<1> USE AgentSyncAssumption DEF SaveKey, Report
<1>1. TypeOK'
  <2>1. key \in Keys
    BY DEF IInv, KeyHeld, RequestAwaited, Running
  <2>2. row' \in [key : Keys \cup {None}, subnet : Subnets]
    BY <2>1 DEF IInv, TypeOK
  <2>3. request' \in [stage : {"none", "check", "save", "done", "refused"},
                       subnet : Subnets \cup {None}]
    BY DEF IInv, TypeOK
  <2> QED BY <2>1, <2>2, <2>3 DEF IInv, TypeOK
<1>2. KeyHeld' /\ RequestAwaited' /\ SetupAnswered'
  BY DEF IInv, TypeOK, KeyHeld, RequestAwaited, SetupAnswered, Running
<1>3. TriedOutOfOrder'
  BY DEF IInv, TypeOK, TriedOutOfOrder
<1>4. KeyOfFile'
  BY DEF IInv, TypeOK, KeyOfFile, KeyHeld, RequestAwaited, Running, Counters
<1>5. FailsOnlyWithoutPlane'
  BY DEF IInv, TypeOK, FailsOnlyWithoutPlane
<1> QED BY <1>1, <1>2, <1>3, <1>4, <1>5 DEF IInv

\* A late request saves the key the agent had when it sent it.
LEMMA ServeLateStep ==
  ASSUME IInv, NEW r \in late, ServeLate(r)
  PROVE  IInv'
<1> USE AgentSyncAssumption DEF ServeLate, NewStage, Report, memory, table
<1>1. TypeOK'
  BY DEF IInv, TypeOK, KeyHeld, RequestAwaited, Counters
<1>2. KeyHeld' /\ RequestAwaited' /\ SetupAnswered'
  BY DEF IInv, TypeOK, KeyHeld, RequestAwaited, SetupAnswered, Running
<1>3. TriedOutOfOrder'
  BY DEF IInv, TypeOK, TriedOutOfOrder
<1>4. KeyOfFile'
  BY DEF IInv, TypeOK, KeyOfFile, KeyHeld, RequestAwaited, Running, Counters
<1>5. FailsOnlyWithoutPlane'
  BY DEF IInv, TypeOK, FailsOnlyWithoutPlane
<1> QED BY <1>1, <1>2, <1>3, <1>4, <1>5 DEF IInv

\* A crash loses the memory; a request on its way becomes a late one.
LEMMA CrashStep ==
  ASSUME IInv, Crash
  PROVE  IInv'
<1> USE AgentSyncAssumption DEF Crash, Counted, Killed, table, NoRequest
<1>1. TypeOK'
  <2>1. count' \in [Counters -> Nat]
    BY DEF IInv, TypeOK, Counters
  <2> QED BY AbandonedKey, <2>1 DEF IInv, TypeOK
<1>2. KeyHeld' /\ RequestAwaited' /\ SetupAnswered'
  BY DEF IInv, TypeOK, KeyHeld, RequestAwaited, SetupAnswered, Running
<1>3. TriedOutOfOrder'
  BY DEF IInv, TypeOK, TriedOutOfOrder
<1>4. KeyOfFile'
  BY AbandonedKey DEF IInv, TypeOK, KeyOfFile, KeyHeld, RequestAwaited, Running, Counters
<1>5. FailsOnlyWithoutPlane'
  BY DEF IInv, TypeOK, FailsOnlyWithoutPlane
<1> QED BY <1>1, <1>2, <1>3, <1>4, <1>5 DEF IInv

\* A restarted agent knows nothing but what its file says.
LEMMA RestartStep ==
  ASSUME IInv, Restart
  PROVE  IInv'
<1> USE AgentSyncAssumption DEF Restart, table, NoRequest, Absent
<1>1. TypeOK'
  <2>1. iface' \in [state : {"absent", "added", "keyed", "addressed", "up"},
                     key : Keys \cup {None}, subnet : Subnets \cup {None}]
    BY DEF IInv, TypeOK
  <2>2. request' \in [stage : {"none", "check", "save", "done", "refused"},
                       subnet : Subnets \cup {None}]
    OBVIOUS
  <2> QED BY FirstPlane, <2>1, <2>2 DEF IInv, TypeOK
<1>2. KeyHeld' /\ RequestAwaited' /\ SetupAnswered'
  BY DEF IInv, TypeOK, KeyHeld, RequestAwaited, SetupAnswered, Running
<1>3. TriedOutOfOrder'
  BY DEF IInv, TypeOK, TriedOutOfOrder
<1>4. KeyOfFile'
  BY DEF IInv, TypeOK, KeyOfFile, KeyHeld, RequestAwaited, Running, Counters
<1>5. FailsOnlyWithoutPlane'
  BY DEF IInv, TypeOK, FailsOnlyWithoutPlane
<1> QED BY <1>1, <1>2, <1>3, <1>4, <1>5 DEF IInv

\* Without its state directory the agent has no key any more.
LEMMA LoseStateStep ==
  ASSUME IInv, LoseState
  PROVE  IInv'
<1> USE AgentSyncAssumption DEF LoseState, Counted, table, memory
<1>1. TypeOK'
  BY DEF IInv, TypeOK, KeyHeld, RequestAwaited, Counters
<1>2. KeyHeld' /\ RequestAwaited' /\ SetupAnswered'
  BY DEF IInv, TypeOK, KeyHeld, RequestAwaited, SetupAnswered, Running
<1>3. TriedOutOfOrder'
  BY DEF IInv, TypeOK, TriedOutOfOrder
<1>4. KeyOfFile'
  BY DEF IInv, TypeOK, KeyOfFile, KeyHeld, RequestAwaited, Running, Counters
<1>5. FailsOnlyWithoutPlane'
  BY DEF IInv, TypeOK, FailsOnlyWithoutPlane
<1> QED BY <1>1, <1>2, <1>3, <1>4, <1>5 DEF IInv

\* A plane that goes down is no longer steady.
LEMMA FlipStep ==
  ASSUME IInv, NEW p \in Planes, NEW h \in {"up", "failing", "garbled"},
         Flip(p, h)
  PROVE  IInv'
<1> USE AgentSyncAssumption DEF Flip, Counted, table
<1>1. TypeOK'
  BY DEF IInv, TypeOK, KeyHeld, RequestAwaited, Counters
<1>2. KeyHeld' /\ RequestAwaited' /\ SetupAnswered'
  BY DEF IInv, TypeOK, KeyHeld, RequestAwaited, SetupAnswered, Running
<1>3. TriedOutOfOrder'
  BY DEF IInv, TypeOK, TriedOutOfOrder
<1>4. KeyOfFile'
  BY DEF IInv, TypeOK, KeyOfFile, KeyHeld, RequestAwaited, Running, Counters
<1>5. FailsOnlyWithoutPlane'
  BY DEF IInv, TypeOK, FailsOnlyWithoutPlane
<1> QED BY <1>1, <1>2, <1>3, <1>4, <1>5 DEF IInv

\* The admin page shows a key the row has.
LEMMA OpenPageStep ==
  ASSUME IInv, OpenPage
  PROVE  IInv'
<1> USE AgentSyncAssumption DEF OpenPage, Counted, memory
<1>1. TypeOK'
  BY DEF IInv, TypeOK, KeyHeld, RequestAwaited, Counters
<1>2. KeyHeld' /\ RequestAwaited' /\ SetupAnswered'
  BY DEF IInv, TypeOK, KeyHeld, RequestAwaited, SetupAnswered, Running
<1>3. TriedOutOfOrder'
  BY DEF IInv, TypeOK, TriedOutOfOrder
<1>4. KeyOfFile'
  BY DEF IInv, TypeOK, KeyOfFile, KeyHeld, RequestAwaited, Running, Counters
<1>5. FailsOnlyWithoutPlane'
  BY DEF IInv, TypeOK, FailsOnlyWithoutPlane
<1> QED BY <1>1, <1>2, <1>3, <1>4, <1>5 DEF IInv

\* ... and writes back one it had.
LEMMA SavePageStep ==
  ASSUME IInv, SavePage
  PROVE  IInv'
<1> USE AgentSyncAssumption DEF SavePage, memory
<1>1. TypeOK'
  <2>1. page \in [key : Keys \cup {None}, subnet : Subnets]
    BY DEF IInv, TypeOK
  <2>2. row' \in [key : Keys \cup {None}, subnet : Subnets]
    BY <2>1
  <2>3. authorized' \in BOOLEAN /\ page' = None
    BY DEF IInv, TypeOK
  <2>4. UNCHANGED <<file, iface, told, health, memory, late, count>>
    OBVIOUS
  <2> HIDE DEF SavePage
  <2> QED BY <2>2, <2>3, <2>4 DEF IInv, TypeOK
<1>2. KeyHeld' /\ RequestAwaited' /\ SetupAnswered'
  BY DEF IInv, TypeOK, KeyHeld, RequestAwaited, SetupAnswered, Running
<1>3. TriedOutOfOrder'
  BY DEF IInv, TypeOK, TriedOutOfOrder
<1>4. KeyOfFile'
  BY DEF IInv, TypeOK, KeyOfFile, KeyHeld, RequestAwaited, Running, Counters
<1>5. FailsOnlyWithoutPlane'
  BY DEF IInv, TypeOK, FailsOnlyWithoutPlane
<1> QED BY <1>1, <1>2, <1>3, <1>4, <1>5 DEF IInv

(* The invariant is inductive, and holds.                                   *)
LEMMA Inductive == IInv /\ [Next]_vars => IInv'
<1> SUFFICES ASSUME IInv, [Next]_vars PROVE IInv'
  OBVIOUS
<1>1. ASSUME Agent PROVE IInv'
  BY <1>1, LoadKeyStep, GenerateKeyStep, OpenKeyFileStep, WriteKeyFileStep,
     DeriveKeyStep, PostStep, PlaneFailsStep, RefusedStep, GarbledStep, AnsweredStep,
     PollAgainStep, SetupInterfaceStep, SetKeyStep, SetAddressStep, RaiseInterfaceStep
     DEF Agent
<1>2. ASSUME Serve PROVE IInv'
  BY <1>2, CheckTokenStep, SaveKeyStep DEF Serve
<1>3. ASSUME NEW r \in late, ServeLate(r) PROVE IInv'
  BY <1>3, ServeLateStep
<1>4. ASSUME Crash \/ Restart \/ LoseState \/ OpenPage \/ SavePage PROVE IInv'
  BY <1>4, CrashStep, RestartStep, LoseStateStep, OpenPageStep, SavePageStep
<1>5. ASSUME NEW p \in Planes, NEW h \in {"up", "failing", "garbled"}, Flip(p, h)
      PROVE  IInv'
  BY <1>5, FlipStep
<1>6. ASSUME UNCHANGED vars PROVE IInv'
  <2> USE <1>6 DEF vars, memory, table
  <2>1. TypeOK'
    BY DEF IInv, TypeOK
  <2>2. KeyHeld' /\ RequestAwaited' /\ SetupAnswered' /\ FailsOnlyWithoutPlane'
    BY DEF IInv, KeyHeld, RequestAwaited, SetupAnswered, FailsOnlyWithoutPlane
  <2>3. TriedOutOfOrder' /\ KeyOfFile'
    BY DEF IInv, TriedOutOfOrder, KeyOfFile
  <2> QED BY <2>1, <2>2, <2>3 DEF IInv
<1> QED BY <1>1, <1>2, <1>3, <1>4, <1>5, <1>6 DEF Next

\* The invariant holds initially.
LEMMA Initial == Init => IInv
<1> SUFFICES ASSUME Init PROVE IInv
  OBVIOUS
<1> USE AgentSyncAssumption DEF Init, Fresh
<1>1. TypeOK
  <2>1. Foreign \in Keys
    BY DEF Foreign
  <2>2. request \in [stage : {"none", "check", "save", "done", "refused"},
                     subnet : Subnets \cup {None}]
    BY DEF NoRequest
  <2>3. /\ iface \in [state : {"absent", "added", "keyed", "addressed", "up"},
                      key : Keys \cup {None}, subnet : Subnets \cup {None}]
        /\ row \in [key : Keys \cup {None}, subnet : Subnets]
    BY <2>1 DEF Absent
  <2>4. count \in [Counters -> Nat]
    OBVIOUS
  <2> QED BY FirstPlane, <2>2, <2>3, <2>4 DEF TypeOK
<1>2. KeyHeld /\ RequestAwaited /\ SetupAnswered /\ FailsOnlyWithoutPlane
  BY DEF KeyHeld, Running, RequestAwaited, SetupAnswered, FailsOnlyWithoutPlane, NoRequest
<1>3. TriedOutOfOrder /\ KeyOfFile
  BY DEF TriedOutOfOrder, KeyOfFile, Running
<1> QED BY <1>1, <1>2, <1>3 DEF IInv

\* The inductive invariant holds throughout.
LEMMA Invariance == Spec => []IInv
BY Initial, Inductive, PTL DEF Spec

(* The agent's, the planes' and the table's state keeps its shape.          *)
THEOREM TypeCorrect == Spec => []TypeOK
<1>1. IInv => TypeOK
  BY DEF IInv
<1> QED BY <1>1, Invariance, PTL

(* As long as its state directory is kept, the gateway has one key for the   *)
(* control plane (load_or_create_keypair, gateway_sync): whenever the agent  *)
(* is killed, whichever plane serves what it gave up on, whatever interface  *)
(* it finds and whatever page is saved.                                      *)
THEOREM KeyIsKept == Spec => []KeyKept
<1>1. IInv => KeyKept
  BY DEF IInv, KeyOfFile, KeyKept
<1> QED BY <1>1, Invariance, PTL

(* A cycle that starts anywhere in the list fails for want of a plane only   *)
(* after it tried them all, each out of order at some time in the cycle      *)
(* (sync's loop over the planes).                                            *)
THEOREM FailsOnlyForWantOfPlanes == Spec => []FailsOnlyWithoutPlane
<1>1. IInv => FailsOnlyWithoutPlane
  BY DEF IInv
<1> QED BY <1>1, Invariance, PTL

(* A step leaves a plane that was up throughout the cycle only by dying:     *)
(* when another plane answers, the first one was tried and was out of order. *)
LEMMA PlaneLeft ==
  ASSUME IInv, [Next]_vars, current' # current
  PROVE  pc = "down" \/ current \notin steady
<1>1. CASE Restart
  BY <1>1 DEF Restart
<1>2. CASE Garbled \/ Answered
  <2>1. pc = "wait" /\ current' = Tried
    BY <1>2 DEF Garbled, Answered
  <2>2. current \in Planes /\ offset \in 0 .. NPlanes - 1
    BY DEF IInv, TypeOK, Planes
  <2>3. (current + 0) % NPlanes = current
    BY <2>2, InTurn
  <2>4. offset # 0
    BY <2>1, <2>3 DEF Tried
  <2>5. 0 \in 0 .. offset - 1
    BY <2>2, <2>4, AgentSyncAssumption
  <2>6. ((current + 0) % NPlanes) \notin steady
    BY <2>1, <2>5 DEF IInv, TriedOutOfOrder
  <2> QED BY <2>3, <2>6
<1> QED
  BY <1>1, <1>2
     DEF Next, Agent, Serve, vars, memory, world, cycle, LoadKey, GenerateKey,
         OpenKeyFile, WriteKeyFile, DeriveKey, BeginCycle, Post, PlaneFails, Refused,
         PollAgain, SetupInterface, SetKey, SetAddress, RaiseInterface, CheckToken,
         SaveKey, ServeLate, Crash, Killed, LoseState, OpenPage, SavePage, Flip

(* "A healthy plane is not abandoned between polls": the agent changes      *)
(* planes (sync) only when its own was out of order during the cycle.       *)
THEOREM PlaneIsKept == Spec => HealthyPlaneKept
<1>1. IInv /\ [Next]_vars =>
        [current' # current => pc = "down" \/ current \notin steady]_vars
  BY PlaneLeft
<1> QED BY <1>1, Invariance, PTL DEF Spec, HealthyPlaneKept
=============================================================================
