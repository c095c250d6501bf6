----------------------------- MODULE Login_proofs -----------------------------
(***************************************************************************)
(* Signing in, for any users, workers, groups, sites, lifetimes and numbers *)
(* of logins: type correctness, single-use codes, the age of a session and *)
(* what the callbacks leave in the tables.                                 *)
(***************************************************************************)
EXTENDS Login, FiniteSetTheorems, TLAPS

(***************************************************************************)
(* The inductive invariant, in named parts.                                *)
(***************************************************************************)
Deleted == {"check", "account", "mint"}
Owning == {"delete"} \cup Deleted
InExchange == {"select"} \cup Owning

\* A worker's job is what its step is about.
Serving ==
    \A w \in Workers :
        /\ pc[w] = "idle" => job[w] = None
        /\ pc[w] \in InCallback => job[w] \in Users
        /\ pc[w] \in InExchange => job[w] \in issued

\* Codes are numbered in the order of their issue, none from the future.
Numbered ==
    /\ IsFiniteSet(issued)
    /\ \A c \in issued : c.id <= Cardinality(issued) /\ c.born <= now

\* A code whose row an exchange holds or has deleted is no other exchange's,
\* and a deleted one is in the table no more.
RowHeld ==
    \A w \in Workers :
        /\ pc[w] \in Deleted => job[w] \notin codes
        /\ \A v \in Workers \ {w} :
              (pc[v] \in Owning /\ pc[w] \in Owning) => job[v] # job[w]

\* No request outlives the timeout, and one past the check of a code's age
\* began while the code was young enough.
Running(w) == since[w] <= now /\ now <= since[w] + RequestAge
Timely ==
    \A w \in Workers :
        /\ pc[w] # "idle" => Running(w)
        /\ pc[w] \in {"account", "mint"} => since[w] <= job[w].born + CodeAge

\* A token's code is spent: issued, in the table no more, held by no exchange;
\* it was young enough when the exchange began.
Accounted ==
    \A t \in minted :
        /\ t.code \in issued \ codes /\ t.code.user = t.user
        /\ t.born <= t.code.born + CodeAge + RequestAge
        /\ \A w \in Workers : pc[w] \in Owning => job[w] # t.code

\* The codes' and tokens' half of the invariant.
Signing == Serving /\ Numbered /\ RowHeld /\ Timely /\ Accounted /\ CodeSpentOnce

\* A callback that runs alone has the membership it read, and has replaced
\* what CAS released by the time it is past it.
AloneExact ==
    \A w \in Workers, u \in Users : (job[w] = u /\ mingled[u] # "yes") =>
        /\ \A v \in Workers : job[v] = u => v = w
        /\ pc[w] \in {"resolve", "create", "replace"} => want[w].names # {}
        /\ pc[w] = "replace" => old[w] = members[u]
        /\ pc[w] \in {"site", "issue"} /\ want[w].names # {} =>
              members[u] = Mapped(want[w].names)
        /\ pc[w] = "issue" /\ SiteOf[want[w].site] # None =>
              site[u] = SiteOf[want[w].site]

\* A callback of u has replaced the membership, or the site.
Regrouped(u) ==
    \E w \in Callbacks(u) : pc[w] \in {"site", "issue"} /\ want[w].names # {}
Moved(u) == \E w \in Callbacks(u) : pc[w] = "issue" /\ SiteOf[want[w].site] # None

\* Until then both are as the callbacks and the edits before left them.
MirrorKept ==
    \A u \in Users : mingled[u] = "no" =>
        /\ ~Regrouped(u) => members[u] = mirrored[u].groups
        /\ ~Moved(u) => site[u] = mirrored[u].site

IInv == TypeOK /\ Signing /\ AloneExact /\ MirrorKept

-----------------------------------------------------------------------------
(* What the actions' helpers do.                                           *)

(* The steps' names.                                                       *)
LEMMA LabelsAre ==
  /\ {"idle", "resolve", "create", "replace", "site", "issue", "select",
      "delete", "check", "account", "mint"} \subseteq Labels
  /\ InCallback \subseteq Labels /\ InExchange \subseteq Labels
BY DEF Labels, InCallback, InExchange, Owning, Deleted

(* A timestamp is a number, and every worker has one.                      *)
LEMMA TimesAre ==
  ASSUME TypeOK
  PROVE  /\ now \in Nat /\ CodeAge \in Nat /\ TokenAge \in Nat /\ RequestAge \in Nat
         /\ \A w \in Workers : since[w] \in Nat
         /\ \A c \in issued : c \in Code /\ c.born \in Nat /\ c.user \in Users
BY LoginAssumption DEF TypeOK, Times, Code

(* A release that names nothing.                                           *)
LEMMA FreeTyped == Free \in Attributes /\ Free.names = {}
BY MappingAssumption DEF Free, Attributes

(* Setting one worker's step keeps the steps' type.                        *)
LEMMA GotoTyped ==
  ASSUME TypeOK, NEW w \in Workers,
         NEW l \in Labels,
         Goto(w, l)
  PROVE  /\ pc' \in [Workers -> Labels]
         /\ pc'[w] = l /\ \A v \in Workers \ {w} : pc'[v] = pc[v]
BY DEF TypeOK, Goto

(* A worker that is done holds nothing; the others go on.                  *)
LEMMA FinishTyped ==
  ASSUME TypeOK, NEW w \in Workers, Finish(w)
  PROVE  /\ pc' \in [Workers -> Labels]
         /\ job' \in [Workers -> {None} \cup Users \cup Code]
         /\ replay' \in [Workers -> BOOLEAN] /\ since' \in [Workers -> Times]
         /\ want' \in [Workers -> Attributes] /\ todo' \in [Workers -> SUBSET Names]
         /\ old' \in [Workers -> SUBSET Groups]
         /\ pc'[w] = "idle" /\ job'[w] = None
         /\ \A v \in Workers \ {w} : /\ pc'[v] = pc[v] /\ job'[v] = job[v]
                                     /\ since'[v] = since[v]
                                     /\ want'[v] = want[v] /\ old'[v] = old[v]
<1>1. Free \in Attributes
  BY FreeTyped
<1>2. "idle" \in Labels /\ 0 \in Times
  BY LoginAssumption DEF Labels, Times
<1>3. /\ pc' = [pc EXCEPT ![w] = "idle"] /\ job' = [job EXCEPT ![w] = None]
      /\ replay' = [replay EXCEPT ![w] = FALSE] /\ since' = [since EXCEPT ![w] = 0]
      /\ want' = [want EXCEPT ![w] = Free] /\ todo' = [todo EXCEPT ![w] = {}]
      /\ old' = [old EXCEPT ![w] = {}]
  BY DEF Finish, Goto
<1> QED BY <1>1, <1>2, <1>3 DEF TypeOK

(* What a client may go on to.                                             *)
LEMMA ClientTyped ==
  ASSUME TypeOK, NEW u,
         NEW s \in {"idle", "browser", "exchange", "posted", "call"},
         NEW c \in {None} \cup Code, ClientGoes(u, s, c)
  PROVE  /\ client' \in [Users -> {"idle", "browser", "exchange", "posted", "call"}]
         /\ received' \in [Users -> {None} \cup Code]
BY DEF TypeOK, ClientGoes

(* An event is counted.                                                    *)
LEMMA HappensTyped == ASSUME TypeOK, Happens PROVE events' \in Nat
BY DEF TypeOK, Happens

(* A membership that is what was read becomes what was released.           *)
LEMMA DifferenceExact ==
  ASSUME NEW ms, NEW to
  PROVE  Difference(ms, ms, to) = to
BY DEF Difference

(* The groups and the site a release means.                                *)
LEMMA MappedTyped == \A names \in SUBSET Names : Mapped(names) \in SUBSET Groups
BY MappingAssumption DEF Mapped

LEMMA MirroredTyped ==
  \A current \in Sites \cup {None}, value \in SiteValues :
      MirroredSite(current, value) \in Sites \cup {None}
BY MappingAssumption DEF MirroredSite

-----------------------------------------------------------------------------
(* What leaves half of the invariant alone.                                *)

(* A step of a client or of the world touches no worker and no table.      *)
LEMMA Untouched ==
  ASSUME IInv, TypeOK', UNCHANGED <<tables, sign, worker, history>>,
         \/ now' = now
         \/ /\ now' = now + 1
            /\ \A w \in Workers : pc[w] # "idle" => now < since[w] + RequestAge
  PROVE  IInv'
<1>1. Serving' /\ RowHeld' /\ Accounted' /\ CodeSpentOnce'
  BY DEF IInv, Signing, Serving, RowHeld, Accounted, CodeSpentOnce, sign, worker
<1>2. Numbered'
  <2>1. now \in Nat /\ now' \in Nat /\ \A c \in issued : c.born \in Nat
    BY TimesAre, LoginAssumption DEF IInv, TypeOK, Times
  <2>2. \A c \in issued : c.born <= now'
    BY <2>1 DEF IInv, Signing, Numbered
  <2> QED BY <2>2 DEF IInv, Signing, Numbered, sign
<1>3. Timely'
  <2>1. now \in Nat /\ RequestAge \in Nat /\ \A w \in Workers : since[w] \in Nat
    BY TimesAre DEF IInv
  <2>2. \A w \in Workers : pc[w] # "idle" => since[w] <= now' /\ now' <= since[w] + RequestAge
    BY <2>1 DEF IInv, Signing, Timely, Running
  <2> QED BY <2>2 DEF IInv, Signing, Timely, Running, worker
<1>4. AloneExact'
  BY DEF IInv, AloneExact, tables, worker, history
<1>5. MirrorKept'
  BY DEF IInv, MirrorKept, Regrouped, Moved, Callbacks, tables, worker, history
<1> QED BY <1>1, <1>2, <1>3, <1>4, <1>5 DEF IInv, Signing

(* A step of a callback that issues nothing leaves codes and tokens alone, *)
(* and so does a step that ends a request.                                 *)
LEMMA SigningKept ==
  ASSUME IInv, NEW w \in Workers, UNCHANGED <<now, sign>>,
         \A v \in Workers \ {w} : pc'[v] = pc[v] /\ job'[v] = job[v] /\ since'[v] = since[v],
         \/ pc'[w] = "idle" /\ job'[w] = None
         \/ pc'[w] \in InCallback /\ job'[w] \in Users /\ Running(w)'
  PROVE  Signing'
<1> USE DEF InCallback, InExchange, Owning, Deleted
<1>1. pc'[w] \notin InExchange
  OBVIOUS
<1>2. Serving'
  BY DEF IInv, Signing, Serving, sign
<1>3. Numbered'
  BY DEF IInv, Signing, Numbered, sign
<1>4. RowHeld'
  BY <1>1 DEF IInv, Signing, RowHeld, sign
<1>5. Accounted'
  BY <1>1 DEF IInv, Signing, Accounted, sign
<1>6. CodeSpentOnce'
  BY DEF IInv, Signing, CodeSpentOnce, sign
<1>7. Timely'
  BY <1>1 DEF IInv, Signing, Timely, Running
<1> QED BY <1>2, <1>3, <1>4, <1>5, <1>6, <1>7 DEF Signing

(* A step of an exchange leaves the tables and the callbacks alone.        *)
LEMMA MirrorUntouched ==
  ASSUME IInv, NEW w \in Workers, UNCHANGED <<tables, history>>,
         \A v \in Workers \ {w} : /\ pc'[v] = pc[v] /\ job'[v] = job[v]
                                  /\ want'[v] = want[v] /\ old'[v] = old[v],
         job[w] \notin Users, job'[w] \notin Users
  PROVE  AloneExact' /\ MirrorKept'
<1>1. AloneExact'
  BY DEF IInv, AloneExact, tables, history
<1>2. \A u \in Users : /\ \A v \in Callbacks(u) : v # w
                       /\ \A v \in Callbacks(u)' : v # w
                       /\ Callbacks(u)' = Callbacks(u)
  BY DEF Callbacks
<1>3. \A u \in Users : Regrouped(u)' = Regrouped(u) /\ Moved(u)' = Moved(u)
  BY <1>2 DEF Regrouped, Moved, Callbacks
<1>4. MirrorKept'
  BY <1>3 DEF IInv, MirrorKept, tables, history
<1> QED BY <1>1, <1>4

-----------------------------------------------------------------------------
(* One lemma per action of the client and of the world.                    *)

\* A login may open a tab; no worker serves it yet.
LEMMA BeginStep ==
  ASSUME IInv, NEW u \in Users, NEW force \in BOOLEAN, Begin(u, force)
  PROVE  IInv'
<1>1. client' \in [Users -> {"idle", "browser", "exchange", "posted", "call"}]
  BY DEF IInv, TypeOK, Begin
<1>2. tabs' \in [Users -> Nat] /\ session' \subseteq Users
  BY DEF IInv, TypeOK, Begin, CasLogin
<1>3. TypeOK'
  BY <1>1, <1>2 DEF IInv, TypeOK, Begin, directory, tables, sign, worker, history
<1>4. now' = now /\ UNCHANGED <<tables, sign, worker, history>>
  BY DEF Begin
<1> QED BY <1>3, <1>4, Untouched

\* A callback occupies an idle worker.
LEMMA ReturnStep ==
  ASSUME IInv, NEW u \in Users, ClientGoes(u, "idle", None), events' \in Nat,
         UNCHANGED <<now, directory, tables, sign, worker, history, session, tabs, stored>>
  PROVE  IInv'
<1>1. /\ client' \in [Users -> {"idle", "browser", "exchange", "posted", "call"}]
      /\ received' \in [Users -> {None} \cup Code]
  BY ClientTyped DEF IInv
<1>2. TypeOK'
  BY <1>1 DEF IInv, TypeOK, directory, tables, sign, worker, history
<1>3. now' = now /\ UNCHANGED <<tables, sign, worker, history>>
  OBVIOUS
<1> QED BY <1>2, <1>3, Untouched

\* A logout forgets the client's token only.
LEMMA LogoutStep ==
  ASSUME IInv, NEW u \in Users, Logout(u)
  PROVE  IInv'
<1>1. TypeOK'
  BY DEF IInv, TypeOK, Logout, directory, tables, sign, worker, history
<1>2. now' = now /\ UNCHANGED <<tables, sign, worker, history>>
  BY DEF Logout
<1> QED BY <1>1, <1>2, Untouched

\* A callback without a redirect issues no code.
LEMMA BounceStep ==
  ASSUME IInv, NEW u \in Users, Bounce(u)
  PROVE  IInv'
<1>1. tabs' \in [Users -> Nat]
  BY DEF IInv, TypeOK, Bounce
<1>2. TypeOK'
  BY <1>1 DEF IInv, TypeOK, Bounce, directory, tables, sign, worker, history
<1>3. now' = now /\ UNCHANGED <<tables, sign, worker, history>>
  BY DEF Bounce
<1> QED BY <1>2, <1>3, Untouched

\* New attributes at the CAS are mirrored by the next callback.
LEMMA ChangeReleasedStep ==
  ASSUME IInv, NEW u \in Users, NEW attributes \in Attributes, ChangeReleased(u, attributes)
  PROVE  IInv'
<1>1. TypeOK'
  BY HappensTyped DEF IInv, TypeOK, ChangeReleased, tables, sign, worker, history, user
<1>2. now' = now /\ UNCHANGED <<tables, sign, worker, history>>
  BY DEF ChangeReleased
<1> QED BY <1>1, <1>2, Untouched

\* A disabled account keeps its codes and tokens, which no longer count.
LEMMA ToggleAccountStep ==
  ASSUME IInv, NEW u \in Users, ToggleAccount(u)
  PROVE  IInv'
<1>1. TypeOK'
  BY HappensTyped DEF IInv, TypeOK, ToggleAccount, tables, sign, worker, history, user
<1>2. now' = now /\ UNCHANGED <<tables, sign, worker, history>>
  BY DEF ToggleAccount
<1> QED BY <1>1, <1>2, Untouched

\* Time passes: codes and tokens only grow older.
LEMMA TickStep ==
  ASSUME IInv, Tick
  PROVE  IInv'
<1>1. now \in Nat /\ now' = now + 1 /\ now' \in Times
  BY LoginAssumption DEF IInv, TypeOK, Times, Tick
<1>2. TypeOK'
  BY <1>1 DEF IInv, TypeOK, Tick, directory, tables, sign, worker, history, user
<1>3. /\ UNCHANGED <<tables, sign, worker, history>> /\ now' = now + 1
      /\ \A w \in Workers : pc[w] # "idle" => now < since[w] + RequestAge
  BY DEF Tick
<1> QED BY <1>2, <1>3, Untouched

-----------------------------------------------------------------------------
(* One lemma per step of a callback.                                       *)

\* A validated callback knows the attributes released to it.
LEMMA ValidateStep ==
  ASSUME IInv, NEW w \in Workers, NEW u \in Users, Validate(w, u)
  PROVE  IInv'
<1> DEFINE l == AfterNames(released[u].names)
<1>1. released[u] \in Attributes /\ released[u].names \subseteq Names
  BY DEF IInv, TypeOK, Attributes
<1>2. l \in {"resolve", "site"} /\ l \in Labels /\ Goto(w, l)
  BY LabelsAre DEF AfterNames, Validate
<1>3. /\ pc' \in [Workers -> Labels]
      /\ pc'[w] = l /\ \A v \in Workers \ {w} : pc'[v] = pc[v]
  BY <1>2, GotoTyped DEF IInv
<1>4. /\ job' = [job EXCEPT ![w] = u] /\ want' = [want EXCEPT ![w] = released[u]]
      /\ old' = old /\ UNCHANGED <<now, sign, tables, mirrored>>
      /\ todo' = [todo EXCEPT ![w] = released[u].names]
      /\ since' = [since EXCEPT ![w] = now]
  BY DEF Validate
<1>5. /\ job \in [Workers -> {None} \cup Users \cup Code] /\ want \in [Workers -> Attributes]
      /\ todo \in [Workers -> SUBSET Names]
  BY DEF IInv, TypeOK
<1>6. /\ job'[w] = u /\ want'[w] = released[u]
      /\ \A v \in Workers \ {w} : job'[v] = job[v] /\ want'[v] = want[v]
  BY <1>4, <1>5
<1>7. mingled' = [mingled EXCEPT ![u] = IF Callbacks(u) # {} THEN "yes"
                                        ELSE IF @ = "no" THEN "no" ELSE "sole"]
  BY DEF Validate
<1>15. /\ since' \in [Workers -> Times] /\ since'[w] = now /\ now \in Times
       /\ \A v \in Workers \ {w} : since'[v] = since[v]
  BY <1>4 DEF IInv, TypeOK
<1>8. TypeOK'
  <2>1. tabs' \in [Users -> Nat]
    BY DEF IInv, TypeOK, Validate
  <2>2. mingled' \in [Users -> {"no", "yes", "sole"}]
    BY <1>7 DEF IInv, TypeOK
  <2>3. job' \in [Workers -> {None} \cup Users \cup Code] /\ want' \in [Workers -> Attributes]
        /\ todo' \in [Workers -> SUBSET Names]
    BY <1>1, <1>4, <1>5
  <2> QED BY <1>3, <1>15, <2>1, <2>2, <2>3 DEF IInv, TypeOK, Validate, directory, tables, sign
<1>9. Signing'
  <2>1. Running(w)'
    BY <1>4, <1>15, TimesAre DEF IInv, Running
  <2> QED BY <1>2, <1>3, <1>4, <1>6, <1>15, <2>1, SigningKept DEF InCallback
<1>10. \A v \in Workers : job[v] = u => Callbacks(u) # {}
  BY DEF Callbacks
<1>11. job[w] = None /\ \A x \in Users : job[w] # x
  BY LoginAssumption DEF IInv, Signing, Serving, Validate
<1>12. \A x \in Users : /\ mingled'[x] = "no" => mingled[x] = "no"
                        /\ mingled'[x] # "yes" /\ x # u => mingled[x] # "yes"
                        /\ mingled'[u] # "yes" => Callbacks(u) = {}
  BY <1>7 DEF IInv, TypeOK
<1>13. AloneExact'
  <2> SUFFICES ASSUME NEW v \in Workers, NEW x \in Users, job'[v] = x, mingled'[x] # "yes"
               PROVE  /\ \A q \in Workers : job'[q] = x => q = v
                      /\ pc'[v] \in {"resolve", "create", "replace"} => want'[v].names # {}
                      /\ pc'[v] = "replace" => old'[v] = members'[x]
                      /\ pc'[v] \in {"site", "issue"} /\ want'[v].names # {} =>
                            members'[x] = Mapped(want'[v].names)
                      /\ pc'[v] = "issue" /\ SiteOf[want'[v].site] # None =>
                            site'[x] = SiteOf[want'[v].site]
    BY DEF AloneExact
  <2>1. CASE v = w
    <3>1. x = u /\ Callbacks(u) = {}
      BY <1>6, <1>12, <2>1
    <3>2. \A q \in Workers : job'[q] = x => q = v
      BY <1>6, <1>10, <2>1, <3>1
    <3>3. pc'[v] = "resolve" => want'[v].names # {}
      BY <1>3, <1>6, <2>1 DEF AfterNames
    <3>4. pc'[v] = "site" => want'[v].names = {}
      BY <1>3, <1>6, <2>1 DEF AfterNames
    <3> QED BY <1>2, <1>3, <2>1, <3>2, <3>3, <3>4
  <2>2. CASE v # w
    <3>1. x # u
      BY <1>6, <1>10, <1>12, <2>2
    <3>2. mingled[x] # "yes" /\ job[v] = x
      BY <1>6, <1>12, <2>2, <3>1
    <3> QED BY <1>3, <1>4, <1>6, <2>2, <3>1, <3>2 DEF IInv, AloneExact, tables
  <2> QED BY <2>1, <2>2
<1>14. MirrorKept'
  <2> SUFFICES ASSUME NEW x \in Users, mingled'[x] = "no"
               PROVE  /\ ~Regrouped(x)' => members'[x] = mirrored'[x].groups
                      /\ ~Moved(x)' => site'[x] = mirrored'[x].site
    BY DEF MirrorKept
  <2>1. \A v \in Callbacks(x) : v \in Callbacks(x)' /\ pc'[v] = pc[v] /\ want'[v] = want[v]
    BY <1>3, <1>6, <1>11 DEF Callbacks
  <2>2. (Regrouped(x) => Regrouped(x)') /\ (Moved(x) => Moved(x)')
    BY <2>1 DEF Regrouped, Moved
  <2> QED BY <1>4, <1>12, <2>2 DEF IInv, MirrorKept, tables
<1> QED BY <1>8, <1>9, <1>13, <1>14 DEF IInv

(* While it resolves the groups a callback has replaced nothing.           *)
LEMMA ResolvingStep ==
  ASSUME IInv, NEW w \in Workers,
         UNCHANGED <<now, sign, members, site, history, job, since, want>>,
         pc[w] \in {"resolve", "create"}, pc'[w] \in {"resolve", "create", "replace"},
         pc'[w] = "replace" => old'[w] = members[job[w]],
         \A v \in Workers \ {w} : pc'[v] = pc[v] /\ old'[v] = old[v]
  PROVE  Signing' /\ AloneExact' /\ MirrorKept'
<1>1. job[w] \in Users
  BY DEF IInv, Signing, Serving, InCallback
<1>2. Signing'
  <2>1. Running(w)'
    BY DEF IInv, Signing, Timely, Running
  <2> QED BY <1>1, <2>1, SigningKept DEF InCallback
<1>3. AloneExact'
  BY DEF IInv, AloneExact, history
<1>4. \A u \in Users : Regrouped(u)' = Regrouped(u) /\ Moved(u)' = Moved(u)
  BY DEF Regrouped, Moved, Callbacks
<1>5. MirrorKept'
  BY <1>4 DEF IInv, MirrorKept, history
<1> QED BY <1>2, <1>3, <1>5

\* A group found or created is one of those released.
LEMMA ResolveGroupStep ==
  ASSUME IInv, NEW w \in Workers, NEW n \in Names, ResolveGroup(w, n)
  PROVE  IInv'
<1>1. /\ pc' \in [Workers -> Labels]
      /\ pc'[w] \in {"resolve", "create"} /\ \A v \in Workers \ {w} : pc'[v] = pc[v]
  <2>1. CASE GroupOf[n] \in groups
    BY <2>1 DEF IInv, TypeOK, ResolveGroup
  <2>2. CASE GroupOf[n] \notin groups
    BY <2>2, GotoTyped, LabelsAre DEF IInv, ResolveGroup
  <2> QED BY <2>1, <2>2
<1>2. /\ old' \in [Workers -> SUBSET Groups] /\ todo' \in [Workers -> SUBSET Names]
      /\ \A v \in Workers \ {w} : old'[v] = old[v]
  <2>1. todo[w] \ {n} \in SUBSET Names /\ {GroupOf[n]} \in SUBSET Groups
    BY MappingAssumption DEF IInv, TypeOK
  <2>2. /\ old' = old \/ old' = [old EXCEPT ![w] = {GroupOf[n]}]
        /\ todo' = [todo EXCEPT ![w] = @ \ {n}]
    BY DEF ResolveGroup
  <2>3. old \in [Workers -> SUBSET Groups] /\ todo \in [Workers -> SUBSET Names]
    BY DEF IInv, TypeOK
  <2>4. old' \in [Workers -> SUBSET Groups] /\ \A v \in Workers \ {w} : old'[v] = old[v]
    BY <2>1, <2>2, <2>3
  <2>5. todo' \in [Workers -> SUBSET Names]
    BY <2>1, <2>2, <2>3
  <2> QED BY <2>4, <2>5
<1>3. TypeOK'
  BY <1>1, <1>2 DEF IInv, TypeOK, ResolveGroup, directory, tables, sign, history, user
<1>4. Signing' /\ AloneExact' /\ MirrorKept'
  BY <1>1, <1>2, ResolvingStep DEF ResolveGroup, tables
<1> QED BY <1>3, <1>4 DEF IInv

(* A callback that ends in an error has replaced nothing.                  *)
LEMMA CreateGroupStep ==
  ASSUME IInv, NEW w \in Workers, NEW g \in Groups, CreateGroup(w, g)
  PROVE  IInv'
<1>1. CASE g \in groups
  <2>1. Finish(w) /\ UNCHANGED <<now, directory, tables, sign, history, user, events>>
    BY <1>1 DEF CreateGroup, tables

  <2>2. TypeOK'
    BY <2>1, FinishTyped DEF IInv, TypeOK, directory, tables, sign, history, user
  <2>3. /\ pc'[w] = "idle" /\ job'[w] = None
        /\ \A v \in Workers \ {w} : /\ pc'[v] = pc[v] /\ job'[v] = job[v]
                                    /\ since'[v] = since[v]
                                    /\ want'[v] = want[v] /\ old'[v] = old[v]
    BY <2>1, FinishTyped DEF IInv
  <2>4. Signing'
    BY <2>1, <2>3, SigningKept
  <2>5. AloneExact'
    BY <2>1, <2>3, LoginAssumption DEF IInv, AloneExact, tables, history
  <2>6. \A u \in Users : (Regrouped(u) => Regrouped(u)') /\ (Moved(u) => Moved(u)')
    BY <2>3 DEF Regrouped, Moved, Callbacks, CreateGroup
  <2>7. MirrorKept'
    BY <2>1, <2>6 DEF IInv, MirrorKept, tables, history
  <2> QED BY <2>2, <2>4, <2>5, <2>7 DEF IInv
<1>2. CASE g \notin groups
  <2>1. Goto(w, "resolve")
    BY <1>2 DEF CreateGroup
  <2>2. /\ pc' \in [Workers -> Labels]
        /\ pc'[w] = "resolve" /\ \A v \in Workers \ {w} : pc'[v] = pc[v]
    BY <2>1, GotoTyped, LabelsAre DEF IInv
  <2>3. TypeOK'
    BY <1>2, <2>2 DEF IInv, TypeOK, CreateGroup, directory, sign, history, user
  <2>4. Signing' /\ AloneExact' /\ MirrorKept'
    BY <1>2, <2>2, ResolvingStep DEF CreateGroup
  <2> QED BY <2>3, <2>4 DEF IInv
<1> QED BY <1>1, <1>2

\* What set() reads is the membership, until another callback writes.
LEMMA ReadMembershipStep ==
  ASSUME IInv, NEW w \in Workers, ReadMembership(w)
  PROVE  IInv'
<1>1. /\ pc' \in [Workers -> Labels]
      /\ pc'[w] = "replace" /\ \A v \in Workers \ {w} : pc'[v] = pc[v]
  BY GotoTyped, LabelsAre DEF IInv, ReadMembership
<1>2. job[w] \in Users
  BY DEF IInv, Signing, Serving, InCallback, ReadMembership
<1>3. /\ old' \in [Workers -> SUBSET Groups] /\ old'[w] = members[job[w]]
      /\ \A v \in Workers \ {w} : old'[v] = old[v]
  BY <1>2 DEF IInv, TypeOK, ReadMembership
<1>4. TypeOK'
  BY <1>1, <1>3 DEF IInv, TypeOK, ReadMembership, directory, tables, sign, history, user
<1>5. Signing' /\ AloneExact' /\ MirrorKept'
  BY <1>1, <1>3, ResolvingStep DEF ReadMembership, tables
<1> QED BY <1>4, <1>5 DEF IInv

\* A callback alone replaces the membership by the groups it was told.
LEMMA ReplaceMembershipStep ==
  ASSUME IInv, NEW w \in Workers, ReplaceMembership(w)
  PROVE  IInv'
<1> DEFINE u == job[w]
<1>1. /\ pc' \in [Workers -> Labels]
      /\ pc'[w] = "site" /\ \A v \in Workers \ {w} : pc'[v] = pc[v]
  BY GotoTyped, LabelsAre DEF IInv, ReplaceMembership
<1>2. u \in Users /\ pc[w] = "replace"
  BY DEF IInv, Signing, Serving, InCallback, ReplaceMembership
<1>3. members' = [members EXCEPT ![u] = Difference(@, old[w], Mapped(want[w].names))]
  BY DEF ReplaceMembership
<1>4. Difference(members[u], old[w], Mapped(want[w].names)) \in SUBSET Groups
  BY <1>2, MappedTyped DEF IInv, TypeOK, Difference, Attributes
<1>5. TypeOK'
  <2>1. members' \in [Users -> SUBSET Groups]
    BY <1>3, <1>4 DEF IInv, TypeOK
  <2> QED BY <1>1, <2>1 DEF IInv, TypeOK, ReplaceMembership, directory, sign, history, user
<1>6. UNCHANGED <<now, sign, site, history, job, since, want, old>>
  BY DEF ReplaceMembership
<1>7. Signing'
  <2>1. Running(w)'
    BY <1>2, <1>6 DEF IInv, Signing, Timely, Running
  <2> QED BY <1>1, <1>2, <1>6, <2>1, SigningKept DEF InCallback
<1>8. \A x \in Users \ {u} : members'[x] = members[x]
  BY <1>3 DEF IInv, TypeOK
<1>9. mingled[u] # "yes" => /\ members'[u] = Mapped(want[w].names) /\ want[w].names # {}
                            /\ \A v \in Workers : job[v] = u => v = w
  BY <1>2, <1>3, DifferenceExact DEF IInv, TypeOK, AloneExact
<1>10. AloneExact'
  BY <1>1, <1>2, <1>6, <1>8, <1>9 DEF IInv, AloneExact, history
<1>11. \A x \in Users : /\ Moved(x)' = Moved(x)
                        /\ x # u => Regrouped(x)' = Regrouped(x)
  BY <1>1, <1>2, <1>6 DEF Regrouped, Moved, Callbacks
<1>12. mingled[u] # "yes" => Regrouped(u)'
  BY <1>1, <1>6, <1>9 DEF Regrouped, Callbacks
<1>13. MirrorKept'
  BY <1>6, <1>8, <1>11, <1>12 DEF IInv, MirrorKept, history
<1> QED BY <1>5, <1>7, <1>10, <1>13 DEF IInv

\* ... and the home site, which ends the mirroring.
LEMMA SyncSiteStep ==
  ASSUME IInv, NEW w \in Workers, SyncSite(w)
  PROVE  IInv'
<1> DEFINE u == job[w]
<1>1. /\ pc' \in [Workers -> Labels]
      /\ pc'[w] = "issue" /\ \A v \in Workers \ {w} : pc'[v] = pc[v]
  BY GotoTyped, LabelsAre DEF IInv, SyncSite
<1>2. u \in Users /\ pc[w] = "site"
  BY DEF IInv, Signing, Serving, InCallback, SyncSite
<1>3. site' = [site EXCEPT ![u] = MirroredSite(@, want[w].site)]
  BY DEF SyncSite
<1>4. MirroredSite(site[u], want[w].site) \in Sites \cup {None}
  BY <1>2, MirroredTyped DEF IInv, TypeOK, Attributes
<1>5. TypeOK'
  <2>1. site' \in [Users -> Sites \cup {None}]
    BY <1>3, <1>4 DEF IInv, TypeOK
  <2> QED BY <1>1, <2>1 DEF IInv, TypeOK, SyncSite, directory, sign, history, user
<1>6. UNCHANGED <<now, sign, members, history, job, since, want, old>>
  BY DEF SyncSite
<1>7. Signing'
  <2>1. Running(w)'
    BY <1>2, <1>6 DEF IInv, Signing, Timely, Running
  <2> QED BY <1>1, <1>2, <1>6, <2>1, SigningKept DEF InCallback
<1>8. /\ \A x \in Users \ {u} : site'[x] = site[x]
      /\ site'[u] = IF SiteOf[want[w].site] = None THEN site[u] ELSE SiteOf[want[w].site]
  BY <1>2, <1>3 DEF IInv, TypeOK, MirroredSite
<1>9. AloneExact'
  BY <1>1, <1>2, <1>6, <1>8 DEF IInv, AloneExact, history
<1>10. \A x \in Users : /\ Regrouped(x)' = Regrouped(x)
                        /\ x # u => Moved(x)' = Moved(x)
  BY <1>1, <1>2, <1>6 DEF Regrouped, Moved, Callbacks
<1>11. (Moved(u) => Moved(u)') /\ (SiteOf[want[w].site] # None => Moved(u)')
  BY <1>1, <1>2, <1>6 DEF Moved, Callbacks
<1>12. MirrorKept'
  BY <1>6, <1>8, <1>10, <1>11 DEF IInv, MirrorKept, history
<1> QED BY <1>5, <1>7, <1>9, <1>12 DEF IInv

(* What a callback leaves of its attributes.                               *)
LEMMA LatestTyped ==
  ASSUME NEW before \in Assigned, NEW attributes \in Attributes, NEW l
  PROVE  Latest(before, attributes, l) \in Assigned
<1>1. attributes.names \in SUBSET Names /\ attributes.site \in SiteValues
  BY DEF Attributes
<1>2. before.groups \in SUBSET Groups /\ before.site \in Sites \cup {None}
  BY DEF Assigned
<1> QED BY <1>1, <1>2, MappedTyped, MirroredTyped DEF Latest, Assigned

(* The code a callback issues is a new one.                                *)
LEMMA NewCode ==
  ASSUME IInv, NEW u \in Users
  PROVE  LET code == [id |-> Cardinality(issued) + 1, user |-> u, born |-> now]
         IN  /\ code \in Code \ issued
             /\ IsFiniteSet(issued \cup {code})
             /\ Cardinality(issued \cup {code}) = Cardinality(issued) + 1
<1> DEFINE code == [id |-> Cardinality(issued) + 1, user |-> u, born |-> now]
<1>1. IsFiniteSet(issued) /\ Cardinality(issued) \in Nat
  BY FS_CardinalityType DEF IInv, Signing, Numbered
<1>2. code \in Code
  BY <1>1 DEF IInv, TypeOK, Code
<1>3. code \notin issued
  <2> SUFFICES ASSUME code \in issued
               PROVE  FALSE
    OBVIOUS
  <2>1. code.id <= Cardinality(issued)
    BY DEF IInv, Signing, Numbered
  <2> QED BY <1>1, <2>1
<1> HIDE DEF code
<1>4. IsFiniteSet(issued \cup {code}) /\ Cardinality(issued \cup {code}) = Cardinality(issued) + 1
  BY <1>1, <1>3, FS_AddElement
<1> QED BY <1>2, <1>3, <1>4 DEF code

\* A code issued is new, and its callback's attributes are the last mirrored.
LEMMA IssueCodeStep ==
  ASSUME IInv, NEW w \in Workers, IssueCode(w)
  PROVE  IInv'
<1> DEFINE u == job[w]
           code == [id |-> Cardinality(issued) + 1, user |-> u, born |-> now]
<1>1. u \in Users /\ pc[w] = "issue"
  BY DEF IInv, Signing, Serving, InCallback, IssueCode
<1>2. /\ code \in Code \ issued /\ IsFiniteSet(issued \cup {code})
      /\ Cardinality(issued \cup {code}) = Cardinality(issued) + 1
  BY <1>1, NewCode
<1>3. /\ codes' \subseteq codes \cup {code} /\ issued' = issued \cup {code}
      /\ code \in codes' /\ session' = session \ {u}
      /\ mirrored' = [mirrored EXCEPT ![u] = Latest(@, want[w], "issue")]
      /\ mingled' = [mingled EXCEPT ![u] = Settled(@, want[w])]
      /\ \/ ClientGoes(u, "exchange", code)
         \/ UNCHANGED <<client, received>>
      /\ Finish(w)
      /\ UNCHANGED <<now, directory, tables, minted, tabs, stored, events>>
  BY DEF IssueCode
<1>4. code.born = now /\ code.id = Cardinality(issued) + 1
  OBVIOUS
<1> HIDE DEF code
<1>5. /\ pc' \in [Workers -> Labels]
      /\ job' \in [Workers -> {None} \cup Users \cup Code]
      /\ replay' \in [Workers -> BOOLEAN] /\ since' \in [Workers -> Times]
      /\ want' \in [Workers -> Attributes] /\ todo' \in [Workers -> SUBSET Names]
      /\ old' \in [Workers -> SUBSET Groups]
      /\ pc'[w] = "idle" /\ job'[w] = None
      /\ \A v \in Workers \ {w} : /\ pc'[v] = pc[v] /\ job'[v] = job[v]
                                  /\ since'[v] = since[v]
                                  /\ want'[v] = want[v] /\ old'[v] = old[v]
  BY <1>3, FinishTyped DEF IInv
<1>6. TypeOK'
  <2>1. /\ client' \in [Users -> {"idle", "browser", "exchange", "posted", "call"}]
        /\ received' \in [Users -> {None} \cup Code]
    BY <1>2, <1>3, ClientTyped DEF IInv, TypeOK
  <2>2. want[w] \in Attributes /\ mirrored[u] \in Assigned
    BY <1>1 DEF IInv, TypeOK
  <2>3. Latest(mirrored[u], want[w], "issue") \in Assigned
    BY <2>2, LatestTyped
  <2>4. mirrored' \in [Users -> Assigned]
    BY <1>3, <2>3 DEF IInv, TypeOK
  <2>5. mingled' \in [Users -> {"no", "yes", "sole"}]
    BY <1>3 DEF IInv, TypeOK, Settled
  <2>6. codes' \subseteq issued' /\ issued' \subseteq Code
    BY <1>2, <1>3 DEF IInv, TypeOK
  <2> QED BY <1>3, <1>5, <2>1, <2>4, <2>5, <2>6 DEF IInv, TypeOK, directory, tables
<1>7. Signing'
  <2>1. Serving'
    BY <1>3, <1>5 DEF IInv, Signing, Serving, InCallback, InExchange, Owning, Deleted
  <2>2. Numbered'
    <3>1. now \in Nat /\ Cardinality(issued) \in Nat /\ \A c \in issued : c.id \in Nat
      BY FS_CardinalityType DEF IInv, TypeOK, Times, Code, Signing, Numbered
    <3>2. Cardinality(issued') = Cardinality(issued) + 1 /\ IsFiniteSet(issued') /\ now' = now
      BY <1>2, <1>3
    <3>3. ASSUME NEW c \in issued'
          PROVE  c.id <= Cardinality(issued') /\ c.born <= now'
      <4>1. CASE c = code
        BY <1>4, <3>1, <3>2, <4>1
      <4>2. CASE c \in issued
        BY <3>1, <3>2, <4>2 DEF IInv, Signing, Numbered
      <4> QED BY <1>3, <4>1, <4>2
    <3> QED BY <3>2, <3>3 DEF Numbered
  <2>3. \A v \in Workers : pc[v] \in InExchange => job[v] # code
    BY <1>2 DEF IInv, Signing, Serving
  <2>4. RowHeld'
    BY <1>3, <1>5, <2>3 DEF IInv, Signing, RowHeld, InExchange, Owning, Deleted
  <2>5. \A t \in minted : t.code # code
    BY <1>2 DEF IInv, Signing, Accounted
  <2>6. Accounted'
    BY <1>3, <1>5, <2>3, <2>5 DEF IInv, Signing, Accounted, InExchange, Owning, Deleted
  <2>7. CodeSpentOnce'
    BY <1>3 DEF IInv, Signing, CodeSpentOnce
  <2>8. Timely'
    BY <1>3, <1>5 DEF IInv, Signing, Timely, Running
  <2> QED BY <2>1, <2>2, <2>4, <2>6, <2>7, <2>8 DEF Signing
<1>8. /\ \A x \in Users \ {u} : mingled'[x] = mingled[x] /\ mirrored'[x] = mirrored[x]
      /\ mingled'[u] = Settled(mingled[u], want[w])
      /\ mirrored'[u] = Latest(mirrored[u], want[w], "issue")
  BY <1>1, <1>3 DEF IInv, TypeOK
<1>9. mingled'[u] # "yes" => /\ mingled[u] # "yes"
                             /\ \A v \in Workers : job'[v] # u
  BY <1>1, <1>5, <1>8, LoginAssumption DEF IInv, AloneExact, Settled
<1>10. AloneExact'
  BY <1>3, <1>5, <1>8, <1>9, LoginAssumption DEF IInv, AloneExact, tables
<1>11. ASSUME mingled'[u] = "no"
       PROVE  members'[u] = mirrored'[u].groups /\ site'[u] = mirrored'[u].site
  <2>1. /\ want[w].names # {} => members[u] = Mapped(want[w].names)
        /\ SiteOf[want[w].site] # None => site[u] = SiteOf[want[w].site]
    BY <1>1, <1>9, <1>11 DEF IInv, AloneExact
  <2>2. CASE mingled[u] = "sole"
    BY <1>3, <1>8, <1>11, <2>1, <2>2 DEF Settled, Latest, MirroredSite, tables
  <2>3. CASE mingled[u] = "no"
    <3>1. Callbacks(u) = {w}
      BY <1>1, <2>3 DEF IInv, AloneExact, Callbacks
    <3>2. /\ Regrouped(u) <=> want[w].names # {}
          /\ Moved(u) <=> SiteOf[want[w].site] # None
      BY <1>1, <3>1 DEF Regrouped, Moved
    <3>3. /\ want[w].names = {} => members[u] = mirrored[u].groups
          /\ SiteOf[want[w].site] = None => site[u] = mirrored[u].site
      BY <1>1, <2>3, <3>2 DEF IInv, MirrorKept
    <3> QED BY <1>3, <1>8, <2>1, <3>3 DEF Latest, MirroredSite, tables
  <2> QED BY <1>8, <1>11, <2>2, <2>3 DEF Settled
<1>12. \A x \in Users \ {u} : Regrouped(x)' = Regrouped(x) /\ Moved(x)' = Moved(x)
  <2>1. \A x \in Users \ {u} : \A v \in Workers : (job'[v] = x <=> job[v] = x)
                                               /\ (job[v] = x => v # w)
    BY <1>5, LoginAssumption
  <2> QED BY <1>5, <2>1 DEF Regrouped, Moved, Callbacks
<1>13. MirrorKept'
  BY <1>3, <1>8, <1>11, <1>12 DEF IInv, MirrorKept, tables
<1> QED BY <1>6, <1>7, <1>10, <1>13 DEF IInv

-----------------------------------------------------------------------------
(* One lemma per step of an exchange.                                      *)

(* A worker that takes up a code leaves the callbacks alone.               *)
LEMMA PresentStep ==
  ASSUME IInv, NEW w \in Workers, NEW c \in issued, Present(w, c)
  PROVE  IInv'
<1>1. c \in Code /\ c \notin Users /\ job[w] = None /\ None \notin Users
  BY LoginAssumption, JobAssumption DEF IInv, TypeOK, Signing, Serving, Present
<1>2. /\ pc' \in [Workers -> Labels]
      /\ pc'[w] = "select" /\ \A v \in Workers \ {w} : pc'[v] = pc[v]
  BY GotoTyped, LabelsAre DEF IInv, Present
<1>3. /\ job' \in [Workers -> {None} \cup Users \cup Code] /\ job'[w] = c
      /\ \A v \in Workers \ {w} : job'[v] = job[v]
  BY <1>1 DEF IInv, TypeOK, Present
<1>4. UNCHANGED <<now, directory, tables, sign, want, todo, old, history, session, tabs, stored>>
  BY DEF Present
<1>8. /\ since' \in [Workers -> Times] /\ since'[w] = now
      /\ \A v \in Workers \ {w} : since'[v] = since[v]
  BY DEF IInv, TypeOK, Present
<1>5. TypeOK'
  <2>1. CASE /\ ClientGoes(c.user, "posted", c) /\ UNCHANGED <<replay, events>>
    <3>1. /\ client' \in [Users -> {"idle", "browser", "exchange", "posted", "call"}]
          /\ received' \in [Users -> {None} \cup Code]
      BY <1>1, <2>1, ClientTyped DEF IInv
    <3> QED BY <1>2, <1>3, <1>4, <1>8, <2>1, <3>1 DEF IInv, TypeOK, directory, tables,
               sign, history
  <2>2. CASE /\ Happens /\ replay' = [replay EXCEPT ![w] = TRUE]
             /\ UNCHANGED <<client, received>>
    <3>1. replay' \in [Workers -> BOOLEAN] /\ events' \in Nat
      BY <2>2, HappensTyped DEF IInv, TypeOK
    <3> QED BY <1>2, <1>3, <1>4, <1>8, <2>2, <3>1 DEF IInv, TypeOK, directory, tables,
               sign, history
  <2> QED BY <2>1, <2>2 DEF Present
<1>6. Signing'
  <2>1. Serving' /\ Numbered' /\ CodeSpentOnce'
    BY <1>2, <1>3, <1>4 DEF IInv, Signing, Serving, Numbered, CodeSpentOnce, InCallback,
       InExchange, Owning, Deleted, sign
  <2>2. RowHeld' /\ Accounted'
    BY <1>2, <1>3, <1>4 DEF IInv, Signing, RowHeld, Accounted, Owning, Deleted, sign
  <2>3. now \in Nat /\ RequestAge \in Nat
    BY TimesAre DEF IInv
  <2>4. Timely'
    BY <1>2, <1>3, <1>4, <1>8, <2>3 DEF IInv, Signing, Timely, Running
  <2> QED BY <2>1, <2>2, <2>4 DEF Signing
<1>7. AloneExact' /\ MirrorKept'
  BY <1>1, <1>2, <1>3, <1>4, MirrorUntouched
<1> QED BY <1>5, <1>6, <1>7 DEF IInv

(* A refused exchange ends; its code is neither given back nor kept.       *)
LEMMA RefuseStep ==
  ASSUME IInv, NEW w \in Workers, pc[w] \in InExchange, Refuse(w),
         UNCHANGED <<now, directory, tables, sign, history, session, tabs, stored, events>>
  PROVE  IInv'
<1>1. /\ pc' \in [Workers -> Labels]
      /\ job' \in [Workers -> {None} \cup Users \cup Code]
      /\ replay' \in [Workers -> BOOLEAN] /\ since' \in [Workers -> Times]
      /\ want' \in [Workers -> Attributes] /\ todo' \in [Workers -> SUBSET Names]
      /\ old' \in [Workers -> SUBSET Groups]
      /\ pc'[w] = "idle" /\ job'[w] = None
      /\ \A v \in Workers \ {w} : /\ pc'[v] = pc[v] /\ job'[v] = job[v]
                                  /\ since'[v] = since[v]
                                  /\ want'[v] = want[v] /\ old'[v] = old[v]
  BY FinishTyped DEF IInv, Refuse
<1>2. /\ client' \in [Users -> {"idle", "browser", "exchange", "posted", "call"}]
      /\ received' \in [Users -> {None} \cup Code]
  BY ClientTyped DEF IInv, TypeOK, Refuse
<1>3. TypeOK'
  BY <1>1, <1>2 DEF IInv, TypeOK, directory, tables, sign, history
<1>4. Signing'
  BY <1>1, SigningKept
<1>5. job[w] \notin Users /\ job'[w] \notin Users
  BY <1>1, LoginAssumption, JobAssumption DEF IInv, TypeOK, Signing, Serving
<1>6. AloneExact' /\ MirrorKept'
  BY <1>1, <1>5, MirrorUntouched
<1> QED BY <1>3, <1>4, <1>6 DEF IInv

(* An exchange that only goes on to its next statement.                    *)
LEMMA NextStatement ==
  ASSUME IInv, NEW w \in Workers, NEW l \in InExchange, pc[w] \in InExchange, Goto(w, l),
         UNCHANGED <<now, directory, tables, sign, job, replay, since, want, todo, old,
                     history, user, events>>,
         l \in Deleted => pc[w] \in Deleted,
         l \in Owning /\ pc[w] \notin Owning =>
            /\ job[w] \in codes
            /\ \A v \in Workers : pc[v] \in Owning => job[v] # job[w],
         l \in {"account", "mint"} => since[w] <= job[w].born + CodeAge
  PROVE  IInv'
<1>1. /\ pc' \in [Workers -> Labels]
      /\ pc'[w] = l /\ \A v \in Workers \ {w} : pc'[v] = pc[v]
  BY GotoTyped, LabelsAre DEF IInv
<1>2. TypeOK'
  BY <1>1 DEF IInv, TypeOK, directory, tables, sign, history, user
<1>3. Serving' /\ Numbered' /\ CodeSpentOnce'
  BY <1>1 DEF IInv, Signing, Serving, Numbered, CodeSpentOnce, InCallback, InExchange,
     Owning, Deleted, sign
<1>4. RowHeld'
  BY <1>1 DEF IInv, Signing, RowHeld, sign
<1>5. Accounted'
  <2>1. \A t \in minted : t.code \notin codes
    BY DEF IInv, Signing, Accounted
  <2>2. \A t \in minted : l \in Owning => job[w] # t.code
    BY <2>1 DEF IInv, Signing, Accounted
  <2> QED BY <1>1, <2>2 DEF IInv, Signing, Accounted, sign
<1>6. Timely'
  <2>1. pc[w] # "idle"
    BY DEF InExchange, Owning, Deleted
  <2> QED BY <1>1, <2>1 DEF IInv, Signing, Timely, Running
<1>7. job[w] \notin Users
  BY JobAssumption DEF IInv, TypeOK, Signing, Serving
<1>8. AloneExact' /\ MirrorKept'
  BY <1>1, <1>7, MirrorUntouched
<1> QED BY <1>2, <1>3, <1>4, <1>5, <1>6, <1>8 DEF IInv, Signing

(* The row lock: a code found in the table is no other exchange's.         *)
LEMMA SelectCodeStep ==
  ASSUME IInv, NEW w \in Workers, SelectCode(w)
  PROVE  IInv'
<1> USE DEF InExchange, Owning, Deleted
<1>1. CASE job[w] \notin codes
  BY <1>1, RefuseStep DEF SelectCode
<1>2. CASE job[w] \in codes
  <2>1. \A v \in Workers : pc[v] \in Owning => job[v] # job[w]
    BY <1>2 DEF IInv, Signing, RowHeld, SelectCode
  <2>2. /\ pc[w] = "select" /\ Goto(w, "delete")
        /\ UNCHANGED <<now, directory, tables, sign, job, replay, since, want, todo, old,
                       history, user, events>>
    BY <1>2 DEF SelectCode, user
  <2> QED BY <1>2, <2>1, <2>2, NextStatement
<1> QED BY <1>1, <1>2

\* A code leaves the table before a token is made of it.
LEMMA DeleteCodeStep ==
  ASSUME IInv, NEW w \in Workers, DeleteCode(w)
  PROVE  IInv'
<1> USE DEF InExchange, Owning, Deleted
<1>1. /\ pc' \in [Workers -> Labels]
      /\ pc'[w] = "check" /\ \A v \in Workers \ {w} : pc'[v] = pc[v]
  BY GotoTyped, LabelsAre DEF IInv, DeleteCode
<1>2. /\ pc[w] = "delete" /\ codes' = codes \ {job[w]}
      /\ UNCHANGED <<now, directory, tables, issued, minted, job, replay, since, want,
                     todo, old, history, user, events>>
  BY DEF DeleteCode
<1>3. TypeOK'
  BY <1>1, <1>2 DEF IInv, TypeOK, directory, tables, history, user
<1>4. Serving' /\ Numbered' /\ CodeSpentOnce'
  BY <1>1, <1>2 DEF IInv, Signing, Serving, Numbered, CodeSpentOnce, InCallback
<1>5. RowHeld'
  BY <1>1, <1>2 DEF IInv, Signing, RowHeld
<1>6. Accounted'
  BY <1>1, <1>2 DEF IInv, Signing, Accounted
<1>7. Timely'
  BY <1>1, <1>2 DEF IInv, Signing, Timely, Running
<1>8. job[w] \notin Users
  BY <1>2, JobAssumption DEF IInv, TypeOK, Signing, Serving
<1>9. AloneExact' /\ MirrorKept'
  BY <1>1, <1>2, <1>8, MirrorUntouched
<1> QED BY <1>3, <1>4, <1>5, <1>6, <1>7, <1>9 DEF IInv, Signing

\* An exchange past the check of the age began when the code was young.
LEMMA CheckAgeStep ==
  ASSUME IInv, NEW w \in Workers, CheckAge(w)
  PROVE  IInv'
<1> USE DEF InExchange, Owning, Deleted
<1>1. CASE Expired(job[w])
  BY <1>1, RefuseStep DEF CheckAge
<1>2. CASE ~Expired(job[w])
  <2>1. /\ pc[w] = "check" /\ Goto(w, "account")
        /\ UNCHANGED <<now, directory, tables, sign, job, replay, since, want, todo, old,
                       history, user, events>>
    BY <1>2 DEF CheckAge, user
  <2>2. job[w] \in issued /\ Running(w)
    BY <2>1 DEF IInv, Signing, Serving, Timely
  <2>3. since[w] <= job[w].born + CodeAge
    BY <1>2, <2>2, TimesAre DEF IInv, Expired, Running
  <2> QED BY <2>1, <2>3, NextStatement
<1> QED BY <1>1, <1>2

LEMMA CheckAccountStep ==
  ASSUME IInv, NEW w \in Workers, CheckAccount(w)
  PROVE  IInv'
<1> USE DEF InExchange, Owning, Deleted
<1>1. CASE job[w].user \notin enabled
  BY <1>1, RefuseStep DEF CheckAccount
<1>2. CASE job[w].user \in enabled
  <2>1. /\ pc[w] = "account" /\ Goto(w, "mint")
        /\ UNCHANGED <<now, directory, tables, sign, job, replay, since, want, todo, old,
                       history, user, events>>
    BY <1>2 DEF CheckAccount, user
  <2>2. since[w] <= job[w].born + CodeAge
    BY <2>1 DEF IInv, Signing, Timely
  <2> QED BY <2>1, <2>2, NextStatement
<1> QED BY <1>1, <1>2

(* A token is the first of its code, and the code is not too old.          *)
LEMMA MintTokenStep ==
  ASSUME IInv, NEW w \in Workers, MintToken(w)
  PROVE  IInv'
<1> DEFINE u == job[w].user
           t == [user |-> u, born |-> now, code |-> job[w]]
<1> USE DEF InExchange, Owning, Deleted
<1>1. /\ pc[w] = "mint" /\ minted' = minted \cup {t} /\ Finish(w)
      /\ UNCHANGED <<now, directory, tables, codes, issued, history, session, tabs, events>>
  BY DEF MintToken
<1>2. \/ stored' = [stored EXCEPT ![u] = t] /\ ClientGoes(u, "call", None)
      \/ UNCHANGED <<stored, client, received>>
  BY DEF MintToken
<1>3. job[w] \in issued /\ job[w] \in Code /\ u \in Users /\ now \in Times
  BY <1>1 DEF IInv, TypeOK, Signing, Serving, Code
<1>4. t \in Token /\ t.code = job[w] /\ t.user = u /\ t.born = now
  BY <1>3 DEF Token
<1> HIDE DEF t
<1>5. /\ pc' \in [Workers -> Labels]
      /\ job' \in [Workers -> {None} \cup Users \cup Code]
      /\ replay' \in [Workers -> BOOLEAN] /\ since' \in [Workers -> Times]
      /\ want' \in [Workers -> Attributes] /\ todo' \in [Workers -> SUBSET Names]
      /\ old' \in [Workers -> SUBSET Groups]
      /\ pc'[w] = "idle" /\ job'[w] = None
      /\ \A v \in Workers \ {w} : /\ pc'[v] = pc[v] /\ job'[v] = job[v]
                                  /\ since'[v] = since[v]
                                  /\ want'[v] = want[v] /\ old'[v] = old[v]
  BY <1>1, FinishTyped DEF IInv
<1>6. TypeOK'
  <2>1. /\ client' \in [Users -> {"idle", "browser", "exchange", "posted", "call"}]
        /\ received' \in [Users -> {None} \cup Code]
    BY <1>2, ClientTyped DEF IInv, TypeOK
  <2>2. stored' \in [Users -> {None} \cup Token] /\ minted' \subseteq Token
    BY <1>1, <1>2, <1>4 DEF IInv, TypeOK
  <2> QED BY <1>1, <1>5, <2>1, <2>2 DEF IInv, TypeOK, directory, tables, history
<1>7. Serving' /\ Numbered' /\ RowHeld'
  BY <1>1, <1>5 DEF IInv, Signing, Serving, Numbered, RowHeld, InCallback
<1>8. Accounted'
  <2>1. t.born <= t.code.born + CodeAge + RequestAge
    <3>1. Running(w) /\ since[w] <= job[w].born + CodeAge
      BY <1>1 DEF IInv, Signing, Timely
    <3> QED BY <1>3, <1>4, <3>1, TimesAre DEF IInv, Running
  <2>2. t.code \in issued \ codes /\ t.code.user = t.user
    BY <1>1, <1>3, <1>4 DEF IInv, Signing, RowHeld
  <2>3. \A v \in Workers \ {w} : pc[v] \in Owning => job[v] # t.code
    BY <1>1, <1>4 DEF IInv, Signing, RowHeld
  <2> QED BY <1>1, <1>5, <2>1, <2>2, <2>3 DEF IInv, Signing, Accounted
<1>9. CodeSpentOnce'
  <2>1. \A s \in minted : s.code # t.code
    BY <1>1, <1>4 DEF IInv, Signing, Accounted
  <2> QED BY <1>1, <2>1 DEF IInv, Signing, CodeSpentOnce
<1>10. Timely'
  BY <1>1, <1>5 DEF IInv, Signing, Timely, Running
<1>11. job[w] \notin Users /\ job'[w] \notin Users
  BY <1>3, <1>5, LoginAssumption, JobAssumption
<1>12. AloneExact' /\ MirrorKept'
  BY <1>1, <1>5, <1>11, MirrorUntouched
<1> QED BY <1>6, <1>7, <1>8, <1>9, <1>10, <1>12 DEF IInv, Signing

-----------------------------------------------------------------------------
(* The administrator, and the death of a worker.                           *)

(* An edit of a membership becomes what the user was given last; one that   *)
(* a callback of the user may overwrite is counted as mingled.             *)
LEMMA SaveGroupStep ==
  ASSUME IInv, NEW g \in Groups, NEW form \in SUBSET Users, SaveGroup(g, form)
  PROVE  IInv'
<1> DEFINE changed == {u \in Users : u \in form <=> g \notin members[u]}
<1>1. /\ members' = [u \in Users |-> IF u \in form THEN members[u] \cup {g}
                                                   ELSE members[u] \ {g}]
      /\ mirrored' = [u \in Users |->
            IF u \in changed THEN [mirrored[u] EXCEPT !.groups = members'[u]]
                             ELSE mirrored[u]]
      /\ mingled' = [u \in Users |->
            IF u \in changed /\ Callbacks(u) # {} THEN "yes" ELSE mingled[u]]
      /\ UNCHANGED <<now, directory, groups, site, sign, worker, user>> /\ Happens
  BY DEF SaveGroup
<1>2. members \in [Users -> SUBSET Groups] /\ mirrored \in [Users -> Assigned]
  BY DEF IInv, TypeOK
<1>3. members' \in [Users -> SUBSET Groups] /\ \A u \in Users \ changed : members'[u] = members[u]
  BY <1>1, <1>2
<1>4. \A u \in Users : /\ mirrored'[u] \in Assigned /\ mirrored'[u].site = mirrored[u].site
                       /\ u \in changed => mirrored'[u].groups = members'[u]
                       /\ u \notin changed => mirrored'[u].groups = mirrored[u].groups
  <2> SUFFICES ASSUME NEW u \in Users
               PROVE  /\ mirrored'[u] \in Assigned /\ mirrored'[u].site = mirrored[u].site
                      /\ u \in changed => mirrored'[u].groups = members'[u]
                      /\ u \notin changed => mirrored'[u].groups = mirrored[u].groups
    OBVIOUS
  <2>1. mirrored[u] \in Assigned /\ members'[u] \in SUBSET Groups
    BY <1>2, <1>3
  <2>2. CASE u \in changed
    <3>1. mirrored'[u] = [mirrored[u] EXCEPT !.groups = members'[u]]
      BY <1>1, <2>2
    <3> QED BY <2>1, <2>2, <3>1 DEF Assigned
  <2>3. CASE u \notin changed
    <3>1. mirrored'[u] = mirrored[u]
      BY <1>1, <2>3
    <3> QED BY <2>1, <2>3, <3>1
  <2> QED BY <2>2, <2>3
<1>5. TypeOK'
  <2>1. mirrored' \in [Users -> Assigned]
    BY <1>1, <1>4
  <2>2. mingled' \in [Users -> {"no", "yes", "sole"}]
    BY <1>1 DEF IInv, TypeOK
  <2> QED BY <1>1, <1>3, <2>1, <2>2, HappensTyped DEF IInv, TypeOK, directory, sign, worker, user
<1>6. Signing'
  BY <1>1 DEF IInv, Signing, Serving, Numbered, RowHeld, Timely, Running, Accounted,
     CodeSpentOnce, sign, worker
<1>7. \A u \in Users : mingled'[u] # "yes" => /\ mingled'[u] = mingled[u]
                                              /\ u \in changed => Callbacks(u) = {}
  BY <1>1
<1> HIDE DEF changed
<1>8. AloneExact'
  <2>1. \A v \in Workers, u \in Users : job[v] = u /\ mingled'[u] # "yes" =>
           mingled[u] # "yes" /\ members'[u] = members[u]
    BY <1>3, <1>7 DEF Callbacks
  <2>2. UNCHANGED <<pc, job, want, site>> /\ old' = old
    BY <1>1 DEF worker
  <2>3. old' = old /\ \A v \in Workers, u \in Users : job[v] = u /\ mingled'[u] # "yes" =>
        /\ \A q \in Workers : job[q] = u => q = v
        /\ pc[v] \in {"resolve", "create", "replace"} => want[v].names # {}
        /\ pc[v] = "replace" => old[v] = members'[u]
        /\ pc[v] \in {"site", "issue"} /\ want[v].names # {} =>
              members'[u] = Mapped(want[v].names)
        /\ pc[v] = "issue" /\ SiteOf[want[v].site] # None =>
              site[u] = SiteOf[want[v].site]
    BY <2>1, <2>2 DEF IInv, AloneExact
  <2> QED BY <2>2, <2>3 DEF AloneExact
<1>9. \A u \in Users : Regrouped(u)' = Regrouped(u) /\ Moved(u)' = Moved(u)
  BY <1>1 DEF Regrouped, Moved, Callbacks, worker
<1>10. MirrorKept'
  BY <1>1, <1>3, <1>4, <1>7, <1>9 DEF IInv, MirrorKept
<1> QED BY <1>5, <1>6, <1>8, <1>10 DEF IInv

\* ... and so an edit of a home site.
LEMMA SaveProfileStep ==
  ASSUME IInv, NEW u \in Users, NEW s \in Sites \cup {None}, SaveProfile(u, s)
  PROVE  IInv'
<1>1. /\ site' = [site EXCEPT ![u] = s] /\ mirrored' = [mirrored EXCEPT ![u].site = s]
      /\ mingled' = [mingled EXCEPT ![u] = IF Callbacks(u) # {} THEN "yes" ELSE @]
      /\ UNCHANGED <<now, directory, groups, members, sign, worker, user>> /\ Happens
  BY DEF SaveProfile
<1>2. /\ site \in [Users -> Sites \cup {None}] /\ mirrored \in [Users -> Assigned]
      /\ mingled \in [Users -> {"no", "yes", "sole"}]
  BY DEF IInv, TypeOK
<1>3. /\ mirrored'[u].site = s /\ mirrored'[u].groups = mirrored[u].groups
      /\ mirrored'[u] \in Assigned /\ \A x \in Users \ {u} : mirrored'[x] = mirrored[x]
  <2>1. mirrored[u] \in Assigned /\ mirrored'[u] = [mirrored[u] EXCEPT !.site = s]
    BY <1>1, <1>2
  <2> QED BY <1>1, <1>2, <2>1 DEF Assigned
<1>4. TypeOK'
  <2>1. mirrored' \in [Users -> Assigned]
    BY <1>1, <1>2, <1>3
  <2>2. site' \in [Users -> Sites \cup {None}] /\ mingled' \in [Users -> {"no", "yes", "sole"}]
    BY <1>1, <1>2
  <2> QED BY <1>1, <2>1, <2>2, HappensTyped DEF IInv, TypeOK, directory, sign, worker, user
<1>5. Signing'
  BY <1>1 DEF IInv, Signing, Serving, Numbered, RowHeld, Timely, Running, Accounted,
     CodeSpentOnce, sign, worker
<1>6. /\ site'[u] = s /\ \A x \in Users \ {u} : site'[x] = site[x] /\ mingled'[x] = mingled[x]
      /\ mingled'[u] # "yes" => Callbacks(u) = {} /\ mingled'[u] = mingled[u]
  BY <1>1, <1>2
<1>7. AloneExact'
  <2>1. \A v \in Workers, x \in Users : job[v] = x /\ mingled'[x] # "yes" =>
           mingled[x] # "yes" /\ site'[x] = site[x]
    BY <1>6 DEF Callbacks
  <2> QED BY <1>1, <2>1 DEF IInv, AloneExact, worker
<1>8. \A x \in Users : Regrouped(x)' = Regrouped(x) /\ Moved(x)' = Moved(x)
  BY <1>1 DEF Regrouped, Moved, Callbacks, worker
<1>9. MirrorKept'
  BY <1>1, <1>3, <1>6, <1>8 DEF IInv, MirrorKept
<1> QED BY <1>4, <1>5, <1>7, <1>9 DEF IInv

(* What a callback has replaced when it dies is what was given last.       *)
LEMMA DieStep ==
  ASSUME IInv, NEW w \in Workers, Die(w)
  PROVE  IInv'
<1>1. /\ pc' \in [Workers -> Labels]
      /\ job' \in [Workers -> {None} \cup Users \cup Code]
      /\ replay' \in [Workers -> BOOLEAN] /\ since' \in [Workers -> Times]
      /\ want' \in [Workers -> Attributes] /\ todo' \in [Workers -> SUBSET Names]
      /\ old' \in [Workers -> SUBSET Groups]
      /\ pc'[w] = "idle" /\ job'[w] = None
      /\ \A v \in Workers \ {w} : /\ pc'[v] = pc[v] /\ job'[v] = job[v]
                                  /\ since'[v] = since[v]
                                  /\ want'[v] = want[v] /\ old'[v] = old[v]
  BY FinishTyped DEF IInv, Die
<1>2. /\ mirrored' = [u \in Users |->
            IF u = job[w] THEN Latest(mirrored[u], want[w], pc[w]) ELSE mirrored[u]]
      /\ UNCHANGED <<now, directory, tables, sign, mingled, user>> /\ pc[w] # "idle"
  BY DEF Die
<1>3. TypeOK'
  <2>1. events' \in Nat
    BY HappensTyped DEF IInv, TypeOK, Die
  <2>2. want[w] \in Attributes /\ \A u \in Users : mirrored[u] \in Assigned
    BY DEF IInv, TypeOK
  <2>3. mirrored' \in [Users -> Assigned]
    BY <1>2, <2>2, LatestTyped
  <2> QED BY <1>1, <1>2, <2>1, <2>3 DEF IInv, TypeOK, directory, tables, sign, user
<1>4. Signing'
  BY <1>1, <1>2, SigningKept
<1>5. AloneExact'
  BY <1>1, <1>2, LoginAssumption DEF IInv, AloneExact, tables
<1>6. ASSUME NEW u \in Users, mingled'[u] = "no"
      PROVE  /\ ~Regrouped(u)' => members'[u] = mirrored'[u].groups
             /\ ~Moved(u)' => site'[u] = mirrored'[u].site
  <2>1. CASE u # job[w]
    <3>1. mirrored'[u] = mirrored[u]
      BY <1>2, <2>1
    <3>2. \A v \in Workers : (job'[v] = u <=> job[v] = u) /\ (job[v] = u => v # w)
      BY <1>1, <2>1, LoginAssumption
    <3>3. Regrouped(u)' = Regrouped(u) /\ Moved(u)' = Moved(u)
      BY <1>1, <3>2 DEF Regrouped, Moved, Callbacks
    <3> QED BY <1>2, <1>6, <3>1, <3>3 DEF IInv, MirrorKept, tables
  <2>2. CASE u = job[w]
    <3>1. Callbacks(u) = {w} /\ mingled[u] = "no"
      BY <1>2, <1>6, <2>2 DEF IInv, AloneExact, Callbacks
    <3>2. mirrored'[u] = Latest(mirrored[u], want[w], pc[w])
      BY <1>2, <2>2
    <3>3. /\ Regrouped(u) <=> pc[w] \in {"site", "issue"} /\ want[w].names # {}
          /\ Moved(u) <=> pc[w] = "issue" /\ SiteOf[want[w].site] # None
      BY <3>1 DEF Regrouped, Moved
    <3>4. /\ ~Regrouped(u) => members[u] = mirrored[u].groups
          /\ ~Moved(u) => site[u] = mirrored[u].site
      BY <3>1 DEF IInv, MirrorKept
    <3>5. /\ Regrouped(u) => members[u] = Mapped(want[w].names)
          /\ Moved(u) => site[u] = SiteOf[want[w].site]
      BY <2>2, <3>1, <3>3 DEF IInv, AloneExact
    <3> QED BY <1>2, <3>2, <3>3, <3>4, <3>5 DEF Latest, MirroredSite, tables
  <2> QED BY <2>1, <2>2
<1>7. MirrorKept'
  BY <1>6 DEF MirrorKept
<1> QED BY <1>3, <1>4, <1>5, <1>7 DEF IInv

-----------------------------------------------------------------------------
(* The theorems.                                                           *)

\* The invariant holds initially.
LEMMA InitialInvariant == Init => IInv
<1> SUFFICES ASSUME Init
             PROVE  IInv
  OBVIOUS
<1>1. [groups |-> {}, site |-> None] \in Assigned
  BY DEF Assigned
<1>2. TypeOK
  BY <1>1, FreeTyped, LabelsAre, LoginAssumption, MappingAssumption DEF Init, TypeOK, Times
<1>3. Signing
  BY FS_EmptySet DEF Init, Signing, Serving, Numbered, RowHeld, Timely, Accounted,
     CodeSpentOnce, InCallback, InExchange, Owning, Deleted
<1>4. AloneExact
  BY LoginAssumption DEF Init, AloneExact
<1>5. MirrorKept
  BY DEF Init, MirrorKept
<1> QED BY <1>2, <1>3, <1>4, <1>5 DEF IInv

(* Every reachable state of the sign-in satisfies the inductive invariant. *)
THEOREM LoginInvariance == Spec => []IInv
<1>1. IInv /\ [Next]_vars => IInv'
  <2> SUFFICES ASSUME IInv, [Next]_vars
               PROVE  IInv'
    OBVIOUS
  <2>1. CASE \E w \in Workers : Serve(w)
    <3> SUFFICES ASSUME NEW w \in Workers, Serve(w)
                 PROVE  IInv'
      BY <2>1
    <3> QED BY ResolveGroupStep, CreateGroupStep, ReadMembershipStep,
               ReplaceMembershipStep, SyncSiteStep, IssueCodeStep, SelectCodeStep,
               DeleteCodeStep, CheckAgeStep, CheckAccountStep, MintTokenStep DEF Serve
  <2>2. CASE \E w \in Workers, u \in Users : Validate(w, u)
    BY <2>2, ValidateStep
  <2>3. CASE \E w \in Workers, c \in issued : Present(w, c)
    BY <2>3, PresentStep
  <2>4. ASSUME NEW u \in Users, GiveUp(u) \/ StrayRequest(u) \/ Call(u)
        PROVE  IInv'
    <3>1. ClientGoes(u, "idle", None)
      BY <2>4 DEF GiveUp, StrayRequest, Call
    <3>2. UNCHANGED <<now, directory, tables, sign, worker, history, session, tabs, stored>>
      BY <2>4 DEF GiveUp, StrayRequest, Call
    <3>3. events' \in Nat
      BY <2>4, HappensTyped DEF GiveUp, StrayRequest, Call, IInv, TypeOK
    <3> QED BY <3>1, <3>2, <3>3, ReturnStep
  <2>5. ASSUME NEW u \in Users,
               \/ \E force \in BOOLEAN : Begin(u, force)
               \/ Logout(u) \/ Bounce(u) \/ ToggleAccount(u)
               \/ \E attributes \in Attributes : ChangeReleased(u, attributes)
               \/ \E s \in Sites \cup {None} : SaveProfile(u, s)
        PROVE  IInv'
    BY <2>5, SaveProfileStep, BeginStep, LogoutStep, BounceStep, ToggleAccountStep, ChangeReleasedStep
  <2>6. CASE Tick
    BY <2>6, TickStep
  <2>7. CASE UNCHANGED vars
    <3>1. TypeOK' /\ now' = now /\ UNCHANGED <<tables, sign, worker, history>>
      BY <2>7 DEF vars, IInv, TypeOK, directory, tables, sign, worker, history, user
    <3> QED BY <3>1, Untouched
  <2>8. CASE \E w \in Workers : Die(w)
    BY <2>8, DieStep
  <2>9. CASE \E g \in Groups, form \in SUBSET Users : SaveGroup(g, form)
    BY <2>9, SaveGroupStep
  <2> QED BY <2>1, <2>2, <2>3, <2>4, <2>5, <2>6, <2>7, <2>8, <2>9 DEF Next
<1> QED BY <1>1, InitialInvariant, PTL DEF Spec

(* The sign-in's state keeps its shape.                                    *)
THEOREM TypeCorrect == Spec => []TypeOK
<1>1. IInv => TypeOK
  BY DEF IInv
<1> QED BY <1>1, LoginInvariance, PTL

(* A one-time code gives one token at most, however many exchanges race for *)
(* it and however often it is replayed (cas_exchange's select_for_update). *)
THEOREM CodesAreSingleUse == Spec => []CodeSpentOnce
<1>1. IInv => CodeSpentOnce
  BY DEF IInv, Signing
<1> QED BY <1>1, LoginInvariance, PTL

(* An accepted call uses a token of a code that was issued to its user not  *)
(* longer ago than the lifetimes of a code and of a token and the longest  *)
(* request together (cas_exchange, tokens.verify).  How long CAS has known *)
(* the user is not bounded.                                                *)
THEOREM SessionsAreBounded == Spec => []SessionBounded
<1>1. IInv => SessionBounded
  <2> SUFFICES ASSUME IInv, NEW t \in minted, Valid(t)
               PROVE  /\ t.code \in issued /\ t.code.user = t.user
                      /\ now <= t.code.born + CodeAge + RequestAge + TokenAge
    BY DEF SessionBounded
  <2>1. t.code \in issued /\ t.code.user = t.user /\ t.born <= t.code.born + CodeAge + RequestAge
    BY DEF IInv, Signing, Accounted
  <2>2. now \in Nat /\ t.born \in Nat /\ t.code.born \in Nat
    BY DEF IInv, TypeOK, Times, Token, Code
  <2> QED BY <2>1, <2>2, LoginAssumption DEF Valid
<1> QED BY <1>1, LoginInvariance, PTL

(* With no callback running a user is in the groups and at the site that    *)
(* CAS released last, or that an administrator set since, whatever         *)
(* callbacks died on the way; unless callbacks overlapped, or an edit of    *)
(* the user fell into one, and none that replaces both has run alone since *)
(* (sync_membership, sync_site, core/admin.py).                            *)
THEOREM AttributesAreMirrored == Spec => []AttributesMirrored
<1>1. IInv => AttributesMirrored
  BY DEF IInv, MirrorKept, Regrouped, Moved, AttributesMirrored
<1> QED BY <1>1, LoginInvariance, PTL
=============================================================================
