--------------------------- MODULE Atomicity_proofs ---------------------------
(***************************************************************************)
(* Registrations are atomic, for any users, keys, workers, gateways, subnet *)
(* size and numbers of operations: whatever transactions overlap, they do   *)
(* what Registry's one-step requests do, a user keeps one key pair, and has *)
(* a device on all of the gateways the user may enter by or on none.        *)
(***************************************************************************)
EXTENDS Registration_proofs

(***************************************************************************)
(* What IInv does not say: what a transaction's locks and writes amount to  *)
(* for the request it serves.                                               *)
(***************************************************************************)
Listed == Looping \cup {"share", "commit"}

WrittenOn(w) == {r.gw : r \in writes[w]}

\* Every row a transaction writes carries the request's key, and is active.
WritesKeyed ==
    \A w \in Workers :
        /\ \A r \in writes[w] : r.key = req[w].key /\ r.active = TRUE
        /\ pc[w] = "insert" => found[w].key = req[w].key /\ found[w].active = TRUE

\* COMMIT checks the foreign keys of rows the transaction wrote.
ChecksWritten ==
    \A w \in Workers : pc[w] \in {"share", "commit"} => todo[w] \subseteq WrittenOn(w)

\* A device locked and passed is rewritten, or was already as requested.
LockedSettled ==
    \A w \in Workers : \A g \in locked[w] : \A d \in devices :
        (d.user = req[w].user /\ d.gw = g) =>
            \/ pc[w] = "update" /\ g = Current(w)
            \/ g \in WrittenOn(w)
            \/ d.key = req[w].key /\ d.active = TRUE

\* While no user is regrouped, the requests in progress are on the gateways
\* their users may enter by, and so are the devices no administrator edited.
GrantsKept ==
    count["regroups"] = 0 =>
        /\ count["edits"] = 0 => \A d \in devices : d.gw \in grants[d.user]
        /\ \A w \in Workers : pc[w] \in Listed => Asked(w) = grants[req[w].user]

AInv ==
    /\ IInv
    /\ WritesKeyed
    /\ ChecksWritten
    /\ LockedSettled
    /\ GrantsKept
    /\ OneKeypair
    /\ AllOrNothing

(* A step that leaves the table and the grants alone keeps what is said of   *)
(* them: an operation that is counted only weakens it.                       *)
LEMMA TableKept ==
  ASSUME AInv, UNCHANGED <<devices, grants>>,
         \A c \in Counters : count'[c] = 0 => count[c] = 0
  PROVE  /\ OneKeypair' /\ AllOrNothing'
         /\ (count'["regroups"] = 0 /\ count'["edits"] = 0) =>
               \A d \in devices' : d.gw \in grants'[d.user]
<1>1. OneKeypair'
  BY DEF AInv, OneKeypair, Counters
<1>2. AllOrNothing'
  BY DEF AInv, AllOrNothing, Counters
<1>3. (count'["regroups"] = 0 /\ count'["edits"] = 0) =>
         \A d \in devices' : d.gw \in grants'[d.user]
  BY DEF AInv, GrantsKept, Counters
<1> QED BY <1>1, <1>2, <1>3

(* From its listing to its commit, a request stays asked on the same         *)
(* gateways: one that leaves the loop's list is locked or written on.        *)
LEMMA AskedKept ==
  ASSUME AInv, NEW w \in Workers,
         \/ LookupHit(w) \/ LockUser(w) \/ LockGateway(w) \/ LookupMiss(w)
         \/ UpdateDevice(w) \/ Allocate(w) \/ InsertDevice(w) \/ EndLoop(w)
         \/ CheckUser(w) \/ CheckForeignKey(w)
  PROVE  \A v \in Workers : Asked(v)' = Asked(v)
<1> USE DEF NextGateway, Goto, Asked
<1>a. todo[w] # {} => Current(w) \in todo[w]
  BY CurrentLeast DEF AInv, IInv
<1>1. CASE LockGateway(w)
  BY <1>a, <1>1 DEF AInv, IInv, TypeOK, Fresh, Looping, LockGateway
<1>2. CASE UpdateDevice(w)
  <2> DEFINE new == Registered(found[w], req[w].key)
  <2>1. /\ Current(w) \in locked[w] /\ found[w] \in Row /\ found[w].gw = Current(w)
    BY <1>2 DEF AInv, IInv, FoundCurrent, TypeOK, UpdateDevice
  <2>2. new.gw = Current(w)
    BY <2>1 DEF Registered, Row
  <2> HIDE DEF new
  <2>3. /\ writes'[w] = writes[w] \cup ({new} \ {found[w]})
        /\ \A v \in Workers \ {w} : writes'[v] = writes[v]
    BY <1>2 DEF AInv, IInv, TypeOK, UpdateDevice, new
  <2>4. Asked(w)' = Asked(w)
    BY <1>2, <2>1, <2>2, <2>3 DEF AInv, IInv, TypeOK, UpdateDevice
  <2> QED BY <1>2, <2>3, <2>4 DEF AInv, IInv, TypeOK, UpdateDevice
<1>3. CASE InsertDevice(w)
  <2>1. todo[w] # {} /\ found[w].gw = Current(w)
    BY <1>3 DEF AInv, IInv, Fresh, Looping, FoundCurrent, InsertDevice
  <2>2. /\ writes'[w] = writes[w] \cup {found[w]}
        /\ \A v \in Workers \ {w} : writes'[v] = writes[v]
    BY <1>3 DEF AInv, IInv, TypeOK, InsertDevice
  <2>3. Asked(w)' = Asked(w)
    BY <1>a, <1>3, <2>1, <2>2 DEF AInv, IInv, TypeOK, InsertDevice
  <2> QED BY <1>3, <2>2, <2>3 DEF AInv, IInv, TypeOK, InsertDevice
<1>4. CASE EndLoop(w)
  BY <1>4 DEF AInv, IInv, TypeOK, EndLoop, Inserted
<1>5. CASE CheckForeignKey(w)
  <2>1. Current(w) \in WrittenOn(w)
    BY <1>a, <1>5 DEF AInv, ChecksWritten, CheckForeignKey
  <2> QED BY <1>5, <2>1 DEF AInv, IInv, TypeOK, CheckForeignKey, WrittenOn
<1>6. CASE LookupHit(w) \/ LockUser(w) \/ LookupMiss(w) \/ Allocate(w) \/ CheckUser(w)
  BY <1>6 DEF LookupHit, LockUser, LookupMiss, Allocate, CheckUser
<1> QED BY <1>1, <1>2, <1>3, <1>4, <1>5, <1>6

(* A request in its first statements, or at its foreign keys.               *)
LEMMA CheckKeyKeeps ==
  ASSUME AInv, NEW w \in Workers, CheckKey(w)
  PROVE  AInv'
<1> USE DEF CheckKey, Goto
<1>1. IInv'
  BY CheckKeyStep DEF AInv
<1>2. WritesKeyed' /\ ChecksWritten'
  BY DEF AInv, IInv, TypeOK, WritesKeyed, ChecksWritten, WrittenOn
<1>3. LockedSettled'
  BY DEF AInv, IInv, TypeOK, LockedSettled, WrittenOn, Current
<1>5. OneKeypair' /\ AllOrNothing' /\ GrantsKept'
  BY TableKept DEF AInv, IInv, TypeOK, GrantsKept, Listed, Looping, Asked
<1> QED BY <1>1, <1>2, <1>3, <1>5 DEF AInv

\* The gateways listed are the ones the user may enter by.
LEMMA ListGatewaysKeeps ==
  ASSUME AInv, NEW w \in Workers, ListGateways(w)
  PROVE  AInv'
<1> USE DEF ListGateways, Goto
<1>1. IInv'
  BY ListGatewaysStep DEF AInv
<1>2. WritesKeyed' /\ ChecksWritten'
  BY DEF AInv, IInv, TypeOK, WritesKeyed, ChecksWritten, WrittenOn
<1>3. LockedSettled'
  BY DEF AInv, IInv, TypeOK, LockedSettled, WrittenOn, Current
<1>5. todo'[w] = grants[req[w].user] /\ writes'[w] = {} /\ locked'[w] = {}
  BY DEF AInv, IInv, TypeOK, Fresh
<1>6. GrantsKept'
  <2>1. \A v \in Workers \ {w} : Asked(v)' = Asked(v) /\ pc'[v] = pc[v]
    BY DEF AInv, IInv, TypeOK, Asked
  <2>2. Asked(w)' = grants[req[w].user]
    BY <1>5 DEF Asked
  <2> QED BY <2>1, <2>2 DEF AInv, GrantsKept
<1>7. OneKeypair' /\ AllOrNothing'
  BY TableKept DEF AInv
<1> QED BY <1>1, <1>2, <1>3, <1>6, <1>7 DEF AInv

\* The device is locked, the gateway still to be.
LEMMA LookupHitKeeps ==
  ASSUME AInv, NEW w \in Workers, LookupHit(w)
  PROVE  AInv'
<1> USE DEF LookupHit, Goto
<1>1. IInv'
  BY LookupHitStep DEF AInv
<1>2. WritesKeyed' /\ ChecksWritten'
  BY DEF AInv, IInv, TypeOK, WritesKeyed, ChecksWritten, WrittenOn
<1>3. LockedSettled'
  BY DEF AInv, IInv, TypeOK, LockedSettled, WrittenOn, Current
<1>4. \A v \in Workers : Asked(v)' = Asked(v)
  BY AskedKept
<1>5. OneKeypair' /\ AllOrNothing' /\ GrantsKept'
  BY <1>4, TableKept DEF AInv, IInv, TypeOK, GrantsKept, Listed, Looping
<1> QED BY <1>1, <1>2, <1>3, <1>5 DEF AInv

\* The user's row is in no table of the model.
LEMMA LockUserKeeps ==
  ASSUME AInv, NEW w \in Workers, LockUser(w)
  PROVE  AInv'
<1> USE DEF LockUser, Goto
<1>1. IInv'
  BY LockUserStep DEF AInv
<1>2. WritesKeyed' /\ ChecksWritten'
  BY DEF AInv, IInv, TypeOK, WritesKeyed, ChecksWritten, WrittenOn
<1>3. LockedSettled'
  BY DEF AInv, IInv, TypeOK, LockedSettled, WrittenOn, Current
<1>4. \A v \in Workers : Asked(v)' = Asked(v)
  BY AskedKept
<1>5. OneKeypair' /\ AllOrNothing' /\ GrantsKept'
  BY <1>4, TableKept DEF AInv, IInv, TypeOK, GrantsKept, Listed, Looping
<1> QED BY <1>1, <1>2, <1>3, <1>5 DEF AInv

\* The gateway locked is the current one.
LEMMA LockGatewayKeeps ==
  ASSUME AInv, NEW w \in Workers, LockGateway(w)
  PROVE  AInv'
<1> USE DEF LockGateway, Goto
<1>1. IInv'
  BY LockGatewayStep DEF AInv
<1>2. WritesKeyed' /\ ChecksWritten'
  BY DEF AInv, IInv, TypeOK, WritesKeyed, ChecksWritten, WrittenOn
<1>3. LockedSettled'
  BY DEF AInv, IInv, TypeOK, LockedSettled, WrittenOn, Current
<1>4. \A v \in Workers : Asked(v)' = Asked(v)
  BY AskedKept
<1>5. OneKeypair' /\ AllOrNothing' /\ GrantsKept'
  BY <1>4, TableKept DEF AInv, IInv, TypeOK, GrantsKept, Listed, Looping
<1> QED BY <1>1, <1>2, <1>3, <1>5 DEF AInv

\* A gateway without a row stays the loop's current one.
LEMMA LookupMissKeeps ==
  ASSUME AInv, NEW w \in Workers, LookupMiss(w)
  PROVE  AInv'
<1> USE DEF LookupMiss, Goto
<1>1. IInv'
  BY LookupMissStep DEF AInv
<1>2. WritesKeyed' /\ ChecksWritten'
  BY DEF AInv, IInv, TypeOK, WritesKeyed, ChecksWritten, WrittenOn
<1>3. LockedSettled'
  BY DEF AInv, IInv, TypeOK, LockedSettled, WrittenOn, Current
<1>5. OneKeypair' /\ AllOrNothing' /\ GrantsKept'
  BY TableKept DEF AInv, IInv, TypeOK, GrantsKept, Listed, Looping, Asked
<1> QED BY <1>1, <1>2, <1>3, <1>5 DEF AInv

(* The row read under lock is rewritten as requested, or already was so.    *)
LEMMA UpdateDeviceKeeps ==
  ASSUME AInv, NEW w \in Workers, UpdateDevice(w)
  PROVE  AInv'
<1> USE DEF UpdateDevice, NextGateway, Goto
<1> DEFINE new == Registered(found[w], req[w].key)
<1>b. /\ found[w] \in devices /\ found[w] \in Row
      /\ found[w].user = req[w].user /\ found[w].gw = Current(w)
      /\ Current(w) \in locked[w]
  BY DEF AInv, IInv, FoundCurrent, TypeOK
<1>c. /\ new.key = req[w].key /\ new.active = TRUE
      /\ new.gw = Current(w)
  BY <1>b DEF Registered, Row
<1>d. /\ writes'[w] = writes[w] \cup ({new} \ {found[w]})
      /\ \A v \in Workers \ {w} : writes'[v] = writes[v]
  BY DEF AInv, IInv, TypeOK
<1> HIDE DEF new
<1>1. IInv'
  BY UpdateDeviceStep DEF AInv
<1>2. WritesKeyed'
  BY <1>c, <1>d DEF AInv, IInv, TypeOK, WritesKeyed
<1>3. ChecksWritten'
  BY <1>d DEF AInv, IInv, TypeOK, ChecksWritten, WrittenOn
<1>5. LockedSettled'
  <2>1. ASSUME NEW d \in devices, d.user = req[w].user, d.gw = Current(w)
        PROVE  Current(w) \in WrittenOn(w)' \/ (d.key = req[w].key /\ d.active = TRUE)
    <3>1. d = found[w]
      BY <1>b, <2>1 DEF AInv, IInv, UniqueAddresses
    <3>2. CASE new = found[w]
      BY <1>c, <3>1, <3>2
    <3>3. CASE new # found[w]
      BY <1>c, <1>d, <3>3 DEF WrittenOn
    <3> QED BY <3>2, <3>3
  <2>2. \A v \in Workers : WrittenOn(v) \subseteq WrittenOn(v)'
    BY <1>d DEF WrittenOn
  <2>3. SUFFICES ASSUME NEW v \in Workers, NEW g \in locked[v], NEW d \in devices,
                        d.user = req[v].user, d.gw = g
                 PROVE  \/ pc'[v] = "update" /\ g = Current(v)'
                        \/ g \in WrittenOn(v)'
                        \/ d.key = req[v].key /\ d.active = TRUE
    BY DEF LockedSettled
  <2>4. CASE v = w /\ g = Current(w)
    BY <2>1, <2>3, <2>4 DEF WrittenOn
  <2>5. CASE v # w \/ g # Current(w)
    BY <2>2, <2>3, <2>5 DEF AInv, IInv, TypeOK, LockedSettled, Current
  <2> QED BY <2>4, <2>5
<1>7. \A v \in Workers : Asked(v)' = Asked(v)
  BY AskedKept
<1>8. OneKeypair' /\ AllOrNothing' /\ GrantsKept'
  BY <1>7, TableKept DEF AInv, IInv, TypeOK, GrantsKept, Listed, Looping
<1> QED BY <1>1, <1>2, <1>3, <1>5, <1>8 DEF AInv

\* An address chosen, the gateway is still the current one.
LEMMA AllocateKeeps ==
  ASSUME AInv, NEW w \in Workers, Allocate(w)
  PROVE  AInv'
<1> USE DEF Allocate, Goto
<1>1. IInv'
  BY AllocateStep DEF AInv
<1>2. WritesKeyed' /\ ChecksWritten'
  BY DEF AInv, IInv, TypeOK, WritesKeyed, ChecksWritten, WrittenOn
<1>3. LockedSettled'
  BY DEF AInv, IInv, TypeOK, LockedSettled, WrittenOn, Current
<1>5. OneKeypair' /\ AllOrNothing' /\ GrantsKept'
  BY TableKept DEF AInv, IInv, TypeOK, GrantsKept, Listed, Looping, Asked
<1> QED BY <1>1, <1>2, <1>3, <1>5 DEF AInv

(* The new row puts the current gateway among those written on.             *)
LEMMA InsertDeviceKeeps ==
  ASSUME AInv, NEW w \in Workers, InsertDevice(w)
  PROVE  AInv'
<1> USE DEF InsertDevice, NextGateway, Goto
<1>b. found[w].key = req[w].key /\ found[w].active = TRUE
  BY DEF AInv, WritesKeyed
<1>c. /\ writes'[w] = writes[w] \cup {found[w]}
      /\ \A v \in Workers \ {w} : writes'[v] = writes[v]
  BY DEF AInv, IInv, TypeOK
<1>1. IInv'
  BY InsertDeviceStep DEF AInv
<1>2. WritesKeyed'
  BY <1>b, <1>c DEF AInv, IInv, TypeOK, WritesKeyed
<1>3. ChecksWritten'
  BY <1>c DEF AInv, IInv, TypeOK, ChecksWritten, WrittenOn
<1>5. LockedSettled'
  <2>1. \A v \in Workers : WrittenOn(v) \subseteq WrittenOn(v)'
    BY <1>c DEF WrittenOn
  <2> QED BY <2>1 DEF AInv, IInv, TypeOK, LockedSettled, Current
<1>7. \A v \in Workers : Asked(v)' = Asked(v)
  BY AskedKept
<1>8. OneKeypair' /\ AllOrNothing' /\ GrantsKept'
  BY <1>7, TableKept DEF AInv, IInv, TypeOK, GrantsKept, Listed, Looping
<1> QED BY <1>1, <1>2, <1>3, <1>5, <1>8 DEF AInv

\* After the loop the rows inserted are what COMMIT checks.
LEMMA EndLoopKeeps ==
  ASSUME AInv, NEW w \in Workers, EndLoop(w)
  PROVE  AInv'
<1> USE DEF EndLoop, Goto
<1>1. IInv'
  BY EndLoopStep DEF AInv
<1>2. WritesKeyed' /\ ChecksWritten'
  BY DEF AInv, IInv, TypeOK, WritesKeyed, ChecksWritten, WrittenOn, Inserted
<1>3. LockedSettled'
  BY DEF AInv, IInv, TypeOK, LockedSettled, WrittenOn, Current
<1>5. \A v \in Workers : Asked(v)' = Asked(v)
  BY AskedKept
<1>6. OneKeypair' /\ AllOrNothing' /\ GrantsKept'
  BY <1>5, TableKept DEF AInv, IInv, TypeOK, GrantsKept, Listed, Looping
<1> QED BY <1>1, <1>2, <1>3, <1>6 DEF AInv

\* COMMIT's check of the user changes no row.
LEMMA CheckUserKeeps ==
  ASSUME AInv, NEW w \in Workers, CheckUser(w)
  PROVE  AInv'
<1> USE DEF CheckUser, Goto
<1>1. IInv'
  BY CheckUserStep DEF AInv
<1>2. WritesKeyed' /\ ChecksWritten'
  BY DEF AInv, IInv, TypeOK, WritesKeyed, ChecksWritten, WrittenOn
<1>3. LockedSettled'
  BY DEF AInv, IInv, TypeOK, LockedSettled, WrittenOn, Current
<1>4. \A v \in Workers : Asked(v)' = Asked(v)
  BY AskedKept
<1>5. OneKeypair' /\ AllOrNothing' /\ GrantsKept'
  BY <1>4, TableKept DEF AInv, IInv, TypeOK, GrantsKept, Listed, Looping
<1> QED BY <1>1, <1>2, <1>3, <1>5 DEF AInv

\* COMMIT's checks change no row.
LEMMA CheckForeignKeyKeeps ==
  ASSUME AInv, NEW w \in Workers, CheckForeignKey(w)
  PROVE  AInv'
<1> USE DEF CheckForeignKey
<1>1. IInv'
  BY CheckForeignKeyStep DEF AInv
<1>2. WritesKeyed' /\ ChecksWritten'
  BY DEF AInv, IInv, TypeOK, WritesKeyed, ChecksWritten, WrittenOn
<1>3. LockedSettled'
  BY DEF AInv, IInv, TypeOK, LockedSettled, WrittenOn, Current
<1>5. \A v \in Workers : Asked(v)' = Asked(v)
  BY AskedKept
<1>6. OneKeypair' /\ AllOrNothing' /\ GrantsKept'
  BY <1>5, TableKept DEF AInv, IInv, TypeOK, GrantsKept, Listed, Looping
<1> QED BY <1>1, <1>2, <1>3, <1>6 DEF AInv

\* A rollback discards what the worker wrote.
LEMMA AbortKeeps ==
  ASSUME AInv, NEW w \in Workers, Abort(w)
  PROVE  AInv'
<1> USE DEF Abort, End, Goto
<1>1. IInv'
  BY EndStep DEF AInv
<1>2. WritesKeyed' /\ ChecksWritten'
  BY DEF AInv, IInv, TypeOK, WritesKeyed, ChecksWritten, WrittenOn
<1>3. LockedSettled'
  BY DEF AInv, IInv, TypeOK, LockedSettled, WrittenOn, Current
<1>5. OneKeypair' /\ AllOrNothing' /\ GrantsKept'
  BY TableKept DEF AInv, IInv, TypeOK, GrantsKept, Listed, Looping, Asked
<1> QED BY <1>1, <1>2, <1>3, <1>5 DEF AInv

\* A new request has written nothing.
LEMMA RequestKeeps ==
  ASSUME AInv, NEW w \in Workers, NEW u \in Users, NEW k \in Keys, Request(w, u, k)
  PROVE  AInv'
<1> USE DEF Request, Goto, Counted
<1>a. locked[w] = {} /\ writes[w] = {}
  BY DEF AInv, IInv, Fresh
<1>b. \A c \in Counters : count'[c] = 0 => count[c] = 0
  BY DEF AInv, IInv, TypeOK, Counters
<1>1. IInv'
  BY RequestStep DEF AInv
<1>2. WritesKeyed' /\ ChecksWritten'
  BY <1>a DEF AInv, IInv, TypeOK, WritesKeyed, ChecksWritten, WrittenOn
<1>3. LockedSettled'
  BY <1>a DEF AInv, IInv, TypeOK, LockedSettled, WrittenOn, Current
<1>5. \A v \in Workers : pc'[v] \in Listed =>
         pc[v] \in Listed /\ req'[v] = req[v] /\ Asked(v)' = Asked(v)
  BY DEF AInv, IInv, TypeOK, Listed, Looping, Asked
<1>6. OneKeypair' /\ AllOrNothing' /\ GrantsKept'
  BY <1>b, <1>5, TableKept DEF AInv, GrantsKept, Counters
<1> QED BY <1>1, <1>2, <1>3, <1>6 DEF AInv

(* What a commit leaves on the gateways asked for: a device of the requester *)
(* on each of them, with the key asked for and active; elsewhere the table   *)
(* is as it was.                                                             *)
LEMMA CommitEffect ==
  ASSUME AInv, NEW w \in Workers, pc[w] = "commit", todo[w] = {}
  PROVE  /\ \A e \in Upsert(w) : (e.user = req[w].user /\ e.gw \in Asked(w)) =>
               e.key = req[w].key /\ e.active = TRUE
         /\ \A g \in Asked(w) : \E e \in Upsert(w) : e.user = req[w].user /\ e.gw = g
         /\ \A d \in devices : d \in Upsert(w) \/ (d.user = req[w].user /\ d.gw \in Asked(w))
         /\ \A e \in Upsert(w) : e \in devices \/ (e.user = req[w].user /\ e.gw \in Asked(w))
<1>1. Asked(w) = locked[w] \cup WrittenOn(w)
  BY DEF Asked, WrittenOn
<1>2. \A r \in writes[w] : r.user = req[w].user /\ r.gw \in WrittenOn(w)
  BY DEF AInv, IInv, OwnWrites, WrittenOn
<1>3. ASSUME NEW e \in Upsert(w), e.user = req[w].user, e.gw \in Asked(w)
      PROVE  e.key = req[w].key /\ e.active = TRUE
  <2>1. CASE e \in writes[w]
    BY <2>1 DEF AInv, WritesKeyed
  <2>2. CASE e \notin writes[w]
    <3>1. e \in devices /\ e.gw \notin WrittenOn(w)
      BY <1>2, <1>3, <2>2 DEF Upsert, WrittenOn
    <3>2. e.gw \in locked[w]
      BY <1>1, <1>3, <3>1
    <3> QED BY <1>3, <3>1, <3>2 DEF AInv, LockedSettled
  <2> QED BY <2>1, <2>2
<1>4. ASSUME NEW g \in Asked(w)
      PROVE  \E e \in Upsert(w) : e.user = req[w].user /\ e.gw = g
  <2>1. CASE g \in locked[w]
    BY <2>1, UpsertRows DEF AInv, IInv, LockedHeld
  <2>2. CASE g \in WrittenOn(w)
    BY <1>2, <2>2 DEF Upsert, WrittenOn
  <2> QED BY <1>1, <2>1, <2>2
<1>5. \A d \in devices : d \in Upsert(w) \/ (d.user = req[w].user /\ d.gw \in Asked(w))
  BY <1>1, <1>2 DEF Upsert
<1>6. \A e \in Upsert(w) : e \in devices \/ (e.user = req[w].user /\ e.gw \in Asked(w))
  BY <1>1, <1>2 DEF Upsert
<1> QED BY <1>3, <1>4, <1>5, <1>6

(* The requester's devices were on the gateways asked for, so all of them    *)
(* now carry the key asked for, and they are on all of these gateways.       *)
LEMMA CommitKeeps ==
  ASSUME AInv, NEW w \in Workers, Commit(w)
  PROVE  AInv'
<1> USE DEF Commit, End, Goto
<1>a. devices' = Upsert(w) /\ \A v \in Workers \ {w} : writes'[v] = writes[v]
  BY DEF AInv, IInv, TypeOK
<1>1. IInv'
  BY CommitStep DEF AInv
<1>2. WritesKeyed' /\ ChecksWritten'
  BY DEF AInv, IInv, TypeOK, WritesKeyed, ChecksWritten, WrittenOn
<1>4. LockedSettled'
  <2>1. ASSUME NEW v \in Workers, v # w, NEW g \in locked[v], NEW e \in Upsert(w),
               e.user = req[v].user, e.gw = g
        PROVE  e \in devices
    <3>1. PICK d \in devices : d.user = req[v].user /\ d.gw = g
      BY <2>1 DEF AInv, IInv, LockedHeld
    <3>2. e \notin writes[w]
      BY <2>1, <3>1 DEF AInv, IInv, WritesCompatible, LocksExclusive, Clash
    <3> QED BY <3>2, UpsertRows DEF AInv
  <2> QED BY <1>a, <2>1 DEF AInv, IInv, TypeOK, LockedSettled, WrittenOn, Current
<1>b. ASSUME count["regroups"] = 0
      PROVE  /\ count["edits"] = 0 => \A d \in devices : d.gw \in grants[d.user]
             /\ Asked(w) = grants[req[w].user]
  BY <1>b DEF AInv, GrantsKept, Listed
<1>c. /\ \A e \in Upsert(w) : (e.user = req[w].user /\ e.gw \in Asked(w)) =>
             e.key = req[w].key /\ e.active = TRUE
      /\ \A g \in Asked(w) : \E e \in Upsert(w) : e.user = req[w].user /\ e.gw = g
      /\ \A d \in devices : d \in Upsert(w) \/ (d.user = req[w].user /\ d.gw \in Asked(w))
      /\ \A e \in Upsert(w) : e \in devices \/ (e.user = req[w].user /\ e.gw \in Asked(w))
  BY CommitEffect
<1> HIDE DEF Commit, End, Goto
<1>d. count' = count /\ grants' = grants
  BY DEF Commit
<1>6. GrantsKept'
  <2>1. \A v \in Workers : pc'[v] \in Listed =>
           pc[v] \in Listed /\ req'[v] = req[v] /\ Asked(v)' = Asked(v)
    BY DEF AInv, IInv, TypeOK, Commit, End, Goto, Listed, Looping, Asked
  <2>2. ASSUME count["regroups"] = 0, count["edits"] = 0, NEW e \in Upsert(w)
        PROVE  e.gw \in grants[e.user]
    BY <1>b, <1>c, <2>2
  <2>3. (count["regroups"] = 0 /\ count["edits"] = 0) =>
           \A e \in devices' : e.gw \in grants[e.user]
    BY <1>a, <2>2
  <2> QED BY <1>d, <2>1, <2>3 DEF AInv, GrantsKept
<1>7. OneKeypair'
  <2>1. ASSUME count["edits"] = 0, count["regroups"] = 0,
               NEW d \in Upsert(w), NEW e \in Upsert(w), d.user = e.user
        PROVE  d.key = e.key
    <3>1. CASE d.user = req[w].user
      <4>a. \A c \in devices : c.user = req[w].user => c.gw \in Asked(w)
        BY <1>b, <2>1
      <4>b. \A c \in Upsert(w) : c.user = req[w].user => c.gw \in Asked(w)
        BY <1>c, <4>a
      <4>1. d.gw \in Asked(w) /\ e.gw \in Asked(w)
        BY <2>1, <3>1, <4>b
      <4>2. d.key = req[w].key
        BY <1>c, <3>1, <4>1
      <4>3. e.key = req[w].key
        BY <1>c, <2>1, <3>1, <4>1
      <4> QED BY <4>2, <4>3
    <3>2. CASE d.user # req[w].user
      BY <1>c, <2>1, <3>2 DEF AInv, OneKeypair
    <3> QED BY <3>1, <3>2
  <2> QED BY <1>a, <1>d, <2>1 DEF OneKeypair
<1>8. AllOrNothing'
  <2> DEFINE On(u, S) == {d.gw : d \in {e \in S : e.user = u}}
  <2>1. ASSUME count["edits"] = 0, count["deletes"] = 0, count["regroups"] = 0,
               NEW u \in Users
        PROVE  On(u, Upsert(w)) \in {{}, grants[u]}
    <3>1. CASE u = req[w].user
      <4>1. \A e \in Upsert(w) : e.user = u => e.gw \in grants[u]
        BY <1>b, <1>c, <2>1, <3>1
      <4>2. \A g \in grants[u] : \E e \in Upsert(w) : e.user = u /\ e.gw = g
        BY <1>b, <1>c, <2>1, <3>1
      <4> QED BY <4>1, <4>2
    <3>2. CASE u # req[w].user
      <4>1. \A e : e \in Upsert(w) /\ e.user = u <=> e \in devices /\ e.user = u
        BY <1>c, <3>2
      <4>2. On(u, Upsert(w)) = On(u, devices)
        BY <4>1
      <4> QED BY <2>1, <4>2 DEF AInv, AllOrNothing
    <3> QED BY <3>1, <3>2
  <2> QED BY <1>a, <1>d, <2>1 DEF AllOrNothing
<1> QED BY <1>1, <1>2, <1>4, <1>6, <1>7, <1>8 DEF AInv

(* The administrators: a grant that changes ends the promises that rest on   *)
(* it, and a page or a deletion spares the rows that requests hold.          *)
LEMMA RegroupKeeps ==
  ASSUME AInv, NEW u \in Users, NEW gs \in SUBSET Gateways, Regroup(u, gs)
  PROVE  AInv'
<1> USE DEF Regroup, Counted, txVars
<1>a. count'["regroups"] # 0 /\ count'["edits"] = count["edits"]
  BY DEF AInv, IInv, TypeOK, Counters
<1>1. IInv'
  BY RegroupStep DEF AInv
<1>2. WritesKeyed' /\ ChecksWritten'
  BY DEF AInv, WritesKeyed, ChecksWritten, WrittenOn
<1>3. LockedSettled'
  BY DEF AInv, LockedSettled, WrittenOn, Current
<1>5. OneKeypair' /\ AllOrNothing' /\ GrantsKept'
  BY <1>a DEF OneKeypair, AllOrNothing, GrantsKept
<1> QED BY <1>1, <1>2, <1>3, <1>5 DEF AInv

\* Opening a page changes no row and is counted.
LEMMA OpenFormKeeps ==
  ASSUME AInv, NEW d \in devices, OpenForm(d)
  PROVE  AInv'
<1> USE DEF OpenForm, Counted, txVars
<1>a. /\ count'["edits"] # 0
      /\ \A c \in Counters : count'[c] = 0 => count[c] = 0
  BY DEF AInv, IInv, TypeOK, Counters
<1>1. IInv'
  BY OpenFormStep DEF AInv
<1>2. WritesKeyed' /\ ChecksWritten'
  BY DEF AInv, WritesKeyed, ChecksWritten, WrittenOn
<1>3. LockedSettled'
  BY DEF AInv, LockedSettled, WrittenOn, Current
<1>5. OneKeypair' /\ AllOrNothing' /\ GrantsKept'
  BY <1>a, TableKept DEF AInv, GrantsKept, Counters, Asked
<1> QED BY <1>1, <1>2, <1>3, <1>5 DEF AInv

(* A page's row is on no gateway locked by a request of its user: there the *)
(* user has a device already, which the page does not show.                 *)
LEMMA SavedSettled ==
  ASSUME AInv, NEW row \in Row, NEW old \in SUBSET devices, Saved(old, row),
         UNCHANGED txVars, \A d \in old : ~RowLocked(d)
  PROVE  LockedSettled'
<1> USE DEF txVars
<1>1. ASSUME NEW w \in Workers, NEW g \in locked[w], row.user = req[w].user, row.gw = g
      PROVE  FALSE
  <2>1. PICK d \in devices : d.user = req[w].user /\ d.gw = g
    BY <1>1 DEF AInv, IInv, LockedHeld
  <2>2. req[w] # NoRow
    BY <1>1 DEF AInv, IInv, Fresh
  <2>3. d \notin old
    BY <1>1, <2>1, <2>2 DEF RowLocked, Serves, DeviceLocks
  <2> QED BY <1>1, <2>1, <2>3 DEF Saved, Clash
<1>2. \A e \in devices' : e = row \/ e \in devices
  BY DEF Saved
<1> QED BY <1>1, <1>2 DEF AInv, LockedSettled, WrittenOn, Current

\* A saved page was counted, and spares the rows that requests hold.
LEMMA SaveFormKeeps ==
  ASSUME AInv, NEW row \in Row, SaveForm(row)
  PROVE  AInv'
<1> USE DEF SaveForm
<1>1. IInv'
  BY SaveFormStep DEF AInv
<1>2. WritesKeyed' /\ ChecksWritten'
  BY DEF AInv, WritesKeyed, ChecksWritten, WrittenOn, txVars
<1>3. LockedSettled'
  <2>1. /\ OwnRows(form.user, form.gw) \in SUBSET devices
        /\ \A d \in OwnRows(form.user, form.gw) : ~RowLocked(d)
    BY DEF OwnRows, RowLocked
  <2> QED BY <2>1, SavedSettled
<1>4. count'["edits"] # 0
  BY DEF AInv, IInv, FormCounted
<1>5. OneKeypair' /\ AllOrNothing' /\ GrantsKept'
  BY <1>4 DEF AInv, OneKeypair, AllOrNothing, GrantsKept, Asked, txVars
<1> QED BY <1>1, <1>2, <1>3, <1>5 DEF AInv

\* A row added likewise.
LEMMA AddDeviceKeeps ==
  ASSUME AInv, NEW row \in Row, AddDevice(row)
  PROVE  AInv'
<1> USE DEF AddDevice, Counted
<1>a. /\ count'["edits"] # 0
      /\ \A c \in Counters : count'[c] = 0 => count[c] = 0
  BY DEF AInv, IInv, TypeOK, Counters
<1>1. IInv'
  BY AddDeviceStep DEF AInv
<1>2. WritesKeyed' /\ ChecksWritten'
  BY DEF AInv, WritesKeyed, ChecksWritten, WrittenOn, txVars
<1>3. LockedSettled'
  BY SavedSettled
<1>4. OneKeypair' /\ AllOrNothing' /\ GrantsKept'
  BY <1>a DEF AInv, OneKeypair, AllOrNothing, GrantsKept, Asked, Counters, txVars
<1> QED BY <1>1, <1>2, <1>3, <1>4 DEF AInv

\* A deleted row is under no transaction's lock.
LEMMA DeleteDeviceKeeps ==
  ASSUME AInv, NEW d \in devices, DeleteDevice(d)
  PROVE  AInv'
<1> USE DEF DeleteDevice, Counted, txVars
<1>a. /\ count'["deletes"] # 0
      /\ \A c \in Counters : count'[c] = 0 => count[c] = 0
  BY DEF AInv, IInv, TypeOK, Counters
<1>1. IInv'
  BY DeleteDeviceStep DEF AInv
<1>2. WritesKeyed' /\ ChecksWritten'
  BY DEF AInv, WritesKeyed, ChecksWritten, WrittenOn
<1>4. LockedSettled'
  BY DEF AInv, LockedSettled, WrittenOn, Current
<1>6. OneKeypair' /\ AllOrNothing'
  BY <1>a DEF AInv, OneKeypair, AllOrNothing, Counters
<1>7. GrantsKept'
  BY <1>a DEF AInv, GrantsKept, Asked, Counters
<1> QED BY <1>1, <1>2, <1>4, <1>6, <1>7 DEF AInv

(* The strengthened invariant is inductive, and holds.                      *)
LEMMA AInductive == AInv /\ [Next]_vars => AInv'
<1> SUFFICES ASSUME AInv, [Next]_vars PROVE AInv'
  OBVIOUS
<1>1. ASSUME NEW w \in Workers, Serve(w) PROVE AInv'
  BY <1>1, CheckKeyKeeps, ListGatewaysKeeps, LookupHitKeeps, LockUserKeeps,
     LockGatewayKeeps, LookupMissKeeps, UpdateDeviceKeeps, AllocateKeeps,
     InsertDeviceKeeps, EndLoopKeeps, CheckUserKeeps, CheckForeignKeyKeeps,
     CommitKeeps, AbortKeeps
     DEF Serve, RejectKey, Exhausted, InsertFails, BreakDeadlock
<1>2. ASSUME NEW w \in Workers, Crash(w) PROVE AInv'
  BY <1>2, AbortKeeps DEF Crash
<1>3. ASSUME NEW w \in Workers, NEW u \in Users, NEW k \in Keys, Request(w, u, k)
      PROVE  AInv'
  BY <1>3, RequestKeeps
<1>4. ASSUME Admin PROVE AInv'
  BY <1>4, RegroupKeeps, OpenFormKeeps, SaveFormKeeps, AddDeviceKeeps,
     DeleteDeviceKeeps DEF Admin
<1>5. ASSUME UNCHANGED vars PROVE AInv'
  <2>1. UNCHANGED txVars /\ UNCHANGED <<devices, grants, form, count>>
    BY <1>5 DEF vars
  <2>2. IInv'
    BY <1>5, Inductive DEF AInv
  <2>3. WritesKeyed' /\ ChecksWritten' /\ LockedSettled'
    BY <2>1 DEF AInv, WritesKeyed, ChecksWritten, LockedSettled,
                WrittenOn, Current, txVars
  <2>4. OneKeypair' /\ AllOrNothing' /\ GrantsKept'
    BY <2>1, TableKept DEF AInv, GrantsKept, Asked, txVars
  <2> QED BY <2>2, <2>3, <2>4 DEF AInv
<1> QED BY <1>1, <1>2, <1>3, <1>4, <1>5 DEF Next

\* The invariant holds initially: the tables are those of earlier requests.
LEMMA AInitial == Init => AInv
<1> SUFFICES ASSUME Init PROVE AInv
  OBVIOUS
<1>1. IInv
  BY Initial
<1> USE DEF Init, Idle
<1>2. WritesKeyed /\ ChecksWritten /\ LockedSettled
  BY DEF WritesKeyed, ChecksWritten, LockedSettled
<1>3. GrantsKept
  BY DEF GrantsKept, Listed, Looping
<1>4. OneKeypair /\ AllOrNothing
  BY DEF OneKeypair, AllOrNothing
<1> QED BY <1>1, <1>2, <1>3, <1>4 DEF AInv

\* The invariant of atomicity holds throughout.
LEMMA AInvariance == Spec => []AInv
BY AInitial, AInductive, PTL DEF Spec

(* "One keypair is reused across gateways": as long as no administrator      *)
(* edits a device or regroups a user, all of a user's devices carry the same *)
(* key, however many of the user's registrations run at once, crash or are   *)
(* aborted.                                                                  *)
THEOREM KeypairsAreShared == Spec => []OneKeypair
<1>1. AInv => OneKeypair
  BY DEF AInv
<1> QED BY <1>1, AInvariance, PTL

(* register_devices is atomic: as long as no device is edited or deleted and *)
(* no user regrouped, a user has a device on all of the gateways the user may enter  *)
(* by, or on none.                                                           *)
THEOREM RegistersAllOrNothing == Spec => []AllOrNothing
<1>1. AInv => AllOrNothing
  BY DEF AInv
<1> QED BY <1>1, AInvariance, PTL

(***************************************************************************)
(* The refinement: every step of the statements is a step of Registry.      *)
(***************************************************************************)
Requests == [v \in Workers |-> Open(v)]

(* What Registry sees of a request whose gateways were listed.              *)
LEMMA OpenListed ==
  ASSUME AInv, NEW w \in Workers, pc[w] \in Listed
  PROVE  /\ Open(w) = [user |-> req[w].user, key |-> req[w].key, gws |-> Asked(w)]
         /\ Open(w) # NoRow
         /\ Asked(w) \subseteq Gateways
<1>1. Open(w) = [user |-> req[w].user, key |-> req[w].key, gws |-> Asked(w)]
  BY DEF Open, Listed, Looping
<1>2. req[w].user \in Users /\ req[w].key \in Keys
  BY DEF AInv, IInv, TypeOK, Fresh, Listed, Looping
<1>3. Asked(w) \subseteq Gateways
  BY DEF AInv, IInv, TypeOK, Asked, Row
<1>4. Open(w) # NoRow
  BY <1>1, <1>2, <1>3, NoRowAssumption
<1> QED BY <1>1, <1>3, <1>4

(* One worker's request changes, the others' do not.                        *)
LEMMA OneRequest ==
  ASSUME NEW w \in Workers, \A v \in Workers \ {w} : Open(v)' = Open(v)
  PROVE  Requests' = [Requests EXCEPT ![w] = Open(w)']
BY DEF Requests, Open, Asked

(* A statement that neither lists gateways nor ends the request is a stutter. *)
LEMMA StatementStutters ==
  ASSUME AInv, NEW w \in Workers,
         \/ CheckKey(w) \/ LookupHit(w) \/ LockUser(w) \/ LockGateway(w)
         \/ LookupMiss(w) \/ UpdateDevice(w) \/ Allocate(w) \/ InsertDevice(w)
         \/ EndLoop(w) \/ CheckUser(w) \/ CheckForeignKey(w)
  PROVE  UNCHANGED <<devices, grants, Requests>>
<1>1. UNCHANGED <<devices, grants, req>>
  BY DEF CheckKey, LookupHit, LockUser, LockGateway, LookupMiss, UpdateDevice,
         NextGateway, Allocate, InsertDevice, EndLoop, CheckUser, CheckForeignKey
<1>2. CASE CheckKey(w)
  <2>1. \A v \in Workers : Open(v)' = Open(v)
    BY <1>2 DEF CheckKey, Goto, AInv, IInv, TypeOK, Open, Asked, Looping
  <2> QED BY <1>1, <2>1 DEF Requests
<1>3. CASE ~CheckKey(w)
  <2>1. \A v \in Workers : Asked(v)' = Asked(v)
    BY <1>3, AskedKept
  <2>2. \A v \in Workers : pc'[v] \in Listed <=> pc[v] \in Listed
    BY <1>3 DEF LookupHit, LockUser, LockGateway, LookupMiss, UpdateDevice,
         NextGateway, Allocate, InsertDevice, EndLoop, CheckUser, CheckForeignKey,
         Goto, AInv, IInv, TypeOK, Listed, Looping
  <2>3. \A v \in Workers : Open(v)' = Open(v)
    BY <1>1, <2>1, <2>2 DEF Open, Listed, Looping
  <2> QED BY <1>1, <2>3 DEF Requests
<1> QED BY <1>2, <1>3

(* A request is asked when its gateways are listed.                         *)
LEMMA ListGatewaysAsks ==
  ASSUME AInv, NEW w \in Workers, ListGateways(w)
  PROVE  Atomic!Next
<1> USE DEF ListGateways, Goto
<1>a. /\ pc'[w] = "lookup" /\ todo'[w] = grants[req[w].user]
      /\ writes'[w] = {} /\ locked'[w] = {}
  BY DEF AInv, IInv, TypeOK, Fresh
<1>1. /\ Open(w) = NoRow
      /\ Open(w)' = [user |-> req[w].user, key |-> req[w].key, gws |-> grants[req[w].user]]
  BY <1>a DEF Open, Asked, Looping
<1>2. \A v \in Workers \ {w} : Open(v)' = Open(v)
  BY DEF AInv, IInv, TypeOK, Open, Asked
<1>3. req[w].user \in Users /\ req[w].key \in Keys
  BY DEF AInv, IInv, TypeOK, Fresh
<1>4. Atomic!Ask(w, req[w].user, req[w].key)
  BY <1>1, <1>2, OneRequest DEF Atomic!Ask, Requests
<1> QED BY <1>3, <1>4 DEF Atomic!Next

(* A transaction that ends without a commit is a refusal, or nothing at all  *)
(* before its gateways were listed.                                         *)
LEMMA AbortRefuses ==
  ASSUME AInv, NEW w \in Workers, Abort(w)
  PROVE  Atomic!Next \/ UNCHANGED <<devices, grants, Requests>>
<1> USE DEF Abort, End, Goto
<1>1. Open(w)' = NoRow /\ \A v \in Workers \ {w} : Open(v)' = Open(v)
  BY DEF AInv, IInv, TypeOK, Open, Asked, Looping
<1>2. CASE Open(w) = NoRow
  BY <1>1, <1>2 DEF Requests
<1>3. CASE Open(w) # NoRow
  <2>1. Atomic!Refuse(w)
    BY <1>1, <1>3, OneRequest DEF Atomic!Refuse, Requests
  <2> QED BY <2>1 DEF Atomic!Next
<1> QED BY <1>2, <1>3

(* A commit registers, at once, on every gateway the request asked for.      *)
LEMMA CommitRegisters ==
  ASSUME AInv, NEW w \in Workers, Commit(w)
  PROVE  Atomic!Next
<1> DEFINE Made(g) == CHOOSE e \in Upsert(w) : e.user = req[w].user /\ e.gw = g
           addr == [g \in Asked(w) |-> Made(g).addr]
           new == {[user |-> req[w].user, gw |-> g, key |-> req[w].key,
                    addr |-> addr[g], active |-> TRUE] : g \in Asked(w)}
<1>a. pc[w] = "commit" /\ todo[w] = {} /\ devices' = Upsert(w) /\ grants' = grants
  BY DEF Commit
<1>b. /\ Open(w) = [user |-> req[w].user, key |-> req[w].key, gws |-> Asked(w)]
      /\ Open(w) # NoRow /\ Asked(w) \subseteq Gateways
  BY <1>a, OpenListed DEF Listed
<1>c. /\ \A e \in Upsert(w) : (e.user = req[w].user /\ e.gw \in Asked(w)) =>
             e.key = req[w].key /\ e.active = TRUE
      /\ \A g \in Asked(w) : \E e \in Upsert(w) : e.user = req[w].user /\ e.gw = g
      /\ \A d \in devices : d \in Upsert(w) \/ (d.user = req[w].user /\ d.gw \in Asked(w))
      /\ \A e \in Upsert(w) : e \in devices \/ (e.user = req[w].user /\ e.gw \in Asked(w))
  BY <1>a, CommitEffect
<1>d. /\ Upsert(w) \subseteq Row
      /\ \A d, e \in Upsert(w) :
           (d.gw = e.gw /\ (d.addr = e.addr \/ d.user = e.user)) => d = e
  BY <1>a, CommitStep DEF AInv, IInv, TypeOK, UniqueAddresses
<1>1. \A g \in Asked(w) : /\ Made(g) \in Upsert(w)
                          /\ Made(g).user = req[w].user /\ Made(g).gw = g
  BY <1>c
<1> HIDE DEF Made
<1>2. addr \in [Asked(w) -> Hosts]
  BY <1>1, <1>d DEF Row
<1>3. \A d \in devices : d.gw \in Asked(w) =>
         (d.addr = addr[d.gw] <=> d.user = req[w].user)
  <2> SUFFICES ASSUME NEW d \in devices, d.gw \in Asked(w)
               PROVE  d.addr = Made(d.gw).addr <=> d.user = req[w].user
    OBVIOUS
  <2>1. CASE d.user = req[w].user
    <3>1. \A e \in Upsert(w) : (d.user = e.user /\ d.gw = e.gw) => d.addr = e.addr
      BY UpsertRows DEF AInv
    <3> QED BY <1>1, <2>1, <3>1
  <2>2. CASE d.user # req[w].user
    <3>1. d \in Upsert(w)
      BY <1>c, <2>2
    <3> QED BY <1>1, <1>d, <2>2, <3>1
  <2> QED BY <2>1, <2>2
<1>e. \A g \in Asked(w) : Atomic!Has(req[w].user, g) \/ addr[g] # GatewayHost
  <2> SUFFICES ASSUME NEW g \in Asked(w), ~Atomic!Has(req[w].user, g)
               PROVE  Made(g).addr # GatewayHost
    OBVIOUS
  <2>1. Made(g) \notin devices
    BY <1>1 DEF Atomic!Has
  <2>2. Made(g) \in writes[w]
    BY <1>1, <2>1, UpsertRows DEF AInv
  <2>3. g \notin locked[w]
    BY DEF AInv, IInv, LockedHeld, Atomic!Has
  <2> QED BY <1>1, <2>2, <2>3 DEF AInv, IInv, OwnWrites
<1>4. \A g \in Asked(w) :
         Made(g) = [user |-> req[w].user, gw |-> g, key |-> req[w].key,
                    addr |-> Made(g).addr, active |-> TRUE]
  BY <1>1, <1>c, <1>d DEF Row
<1>5. Upsert(w) = {d \in devices : ~(d.user = req[w].user /\ d.gw \in Asked(w))} \cup new
  <2>1. ASSUME NEW e \in Upsert(w), e.user = req[w].user, e.gw \in Asked(w)
        PROVE  e \in new
    <3>1. e = Made(e.gw)
      BY <1>1, <1>d, <2>1
    <3> QED BY <1>4, <2>1, <3>1
  <2>2. \A e \in new : e \in Upsert(w)
    BY <1>1, <1>4
  <2> HIDE DEF new
  <2>3. Upsert(w) \subseteq {d \in devices : ~(d.user = req[w].user /\ d.gw \in Asked(w))} \cup new
    BY <1>c, <2>1
  <2> QED BY <1>c, <2>2, <2>3
<1>6. Open(w)' = NoRow /\ \A v \in Workers \ {w} : Open(v)' = Open(v)
  BY DEF Commit, End, Goto, AInv, IInv, TypeOK, Open, Asked, Looping
<1>7. /\ Requests[w].user = req[w].user /\ Requests[w].key = req[w].key
      /\ Requests[w].gws = Asked(w) /\ Requests[w] # NoRow
  BY <1>b DEF Requests
<1>8. Requests' = [Requests EXCEPT ![w] = NoRow]
  BY <1>6, OneRequest
<1>9. /\ addr \in [Requests[w].gws -> Hosts]
      /\ Atomic!Fits(Requests[w], addr)
      /\ devices' =
            {d \in devices : ~(d.user = Requests[w].user /\ d.gw \in Requests[w].gws)}
            \cup {[user |-> Requests[w].user, gw |-> g, key |-> Requests[w].key,
                   addr |-> addr[g], active |-> TRUE] : g \in Requests[w].gws}
  BY <1>a, <1>e, <1>2, <1>3, <1>5, <1>7 DEF Atomic!Fits
<1> HIDE DEF addr
<1>10. Atomic!Register(w)
  BY <1>a, <1>7, <1>8, <1>9 DEF Atomic!Register, Requests
<1> QED BY <1>10 DEF Atomic!Next

(* A page writes its row over the one it shows, or adds one.                 *)
LEMMA SavedAdministers ==
  ASSUME NEW row \in Row, NEW old \in {{}} \cup {{d} : d \in devices},
         Saved(old, row), UNCHANGED <<grants, txVars>>
  PROVE  Atomic!Next
<1>1. Requests' = Requests
  BY DEF txVars, Requests, Open, Asked
<1>2. Atomic!Administer(old, row)
  BY <1>1 DEF Saved, Clash, Atomic!Administer, Requests
<1> QED BY <1>2 DEF Atomic!Next, Atomic!Row, Row

\* A page over the one row its user and gateway have.
LEMMA SaveFormAdministers ==
  ASSUME AInv, NEW row \in Row, SaveForm(row)
  PROVE  Atomic!Next
<1>1. PICK d \in devices : d.user = form.user /\ d.gw = form.gw
  BY DEF SaveForm, AInv, IInv, FormCurrent
<1>2. OwnRows(form.user, form.gw) = {d}
  BY <1>1 DEF OwnRows, AInv, IInv, UniqueAddresses
<1> QED BY <1>2, SavedAdministers DEF SaveForm

\* A page over no row.
LEMMA AddDeviceAdministers ==
  ASSUME NEW row \in Row, AddDevice(row)
  PROVE  Atomic!Next
BY SavedAdministers DEF AddDevice

(* A regrouping and a deletion are what they are there.                     *)
LEMMA RegroupRegroups ==
  ASSUME NEW u \in Users, NEW gs \in SUBSET Gateways, Regroup(u, gs)
  PROVE  Atomic!Next
<1>1. Requests' = Requests
  BY DEF Regroup, txVars, Requests, Open, Asked
<1>2. Atomic!Regroup(u, gs)
  BY <1>1 DEF Regroup, Atomic!Regroup, Requests
<1> QED BY <1>2 DEF Atomic!Next

\* A deletion is one of the abstract registry.
LEMMA DeleteDeletes ==
  ASSUME NEW d \in devices, DeleteDevice(d)
  PROVE  Atomic!Next
<1>1. Requests' = Requests
  BY DEF DeleteDevice, txVars, Requests, Open, Asked
<1>2. Atomic!Delete(d)
  BY <1>1 DEF DeleteDevice, Atomic!Delete, Requests
<1> QED BY <1>2 DEF Atomic!Next

(* A request that arrives, and a page that opens, change nothing there.     *)
LEMMA RequestStutters ==
  ASSUME AInv, NEW w \in Workers, NEW u \in Users, NEW k \in Keys, Request(w, u, k)
  PROVE  UNCHANGED <<devices, grants, Requests>>
<1>1. \A v \in Workers : Open(v)' = Open(v)
  BY DEF Request, Goto, AInv, IInv, TypeOK, Open, Asked, Looping
<1> QED BY <1>1 DEF Request, Requests

\* Opening a page is no step of the abstract registry.
LEMMA OpenFormStutters ==
  ASSUME NEW d \in devices, OpenForm(d)
  PROVE  UNCHANGED <<devices, grants, Requests>>
BY DEF OpenForm, txVars, Requests, Open, Asked

(* Every step is a step of Registry, or changes nothing that Registry sees.  *)
LEMMA RegistryStep == AInv /\ [Next]_vars => [Atomic!Next]_<<devices, grants, Requests>>
<1> SUFFICES ASSUME AInv, [Next]_vars
             PROVE  Atomic!Next \/ UNCHANGED <<devices, grants, Requests>>
  OBVIOUS
<1>1. ASSUME NEW w \in Workers, Serve(w)
      PROVE  Atomic!Next \/ UNCHANGED <<devices, grants, Requests>>
  BY <1>1, StatementStutters, ListGatewaysAsks, AbortRefuses, CommitRegisters
     DEF Serve, RejectKey, Exhausted, InsertFails, BreakDeadlock
<1>2. ASSUME NEW w \in Workers, Crash(w)
      PROVE  Atomic!Next \/ UNCHANGED <<devices, grants, Requests>>
  BY <1>2, AbortRefuses DEF Crash
<1>3. ASSUME NEW w \in Workers, NEW u \in Users, NEW k \in Keys, Request(w, u, k)
      PROVE  UNCHANGED <<devices, grants, Requests>>
  BY <1>3, RequestStutters
<1>4. ASSUME Admin
      PROVE  Atomic!Next \/ UNCHANGED <<devices, grants, Requests>>
  BY <1>4, RegroupRegroups, OpenFormStutters, SaveFormAdministers, AddDeviceAdministers,
     DeleteDeletes DEF Admin
<1>5. ASSUME UNCHANGED vars
      PROVE  UNCHANGED <<devices, grants, Requests>>
  BY <1>5 DEF vars, txVars, Requests, Open, Asked
<1> QED BY <1>1, <1>2, <1>3, <1>4, <1>5 DEF Next

(* Statement by statement, whatever overlaps, crashes or is aborted, the     *)
(* registrations do what Registry's atomic requests would do.                *)
THEOREM RegistrationsAreAtomic == Spec => ImplementsRegistry
<1>1. Init => Atomic!Init
  <2> SUFFICES ASSUME Init PROVE Atomic!Init
    OBVIOUS
  <2>1. \A w \in Workers : Open(w) = NoRow
    BY DEF Init, Idle, Open, Looping
  <2> QED BY <2>1 DEF Init, Atomic!Init, Atomic!Sound
<1>2. AInv /\ [Next]_vars => [Atomic!Next]_Atomic!vars
  BY RegistryStep DEF Atomic!vars, Requests
<1> QED BY <1>1, <1>2, AInvariance, PTL DEF Spec, ImplementsRegistry, Atomic!Spec
=============================================================================
