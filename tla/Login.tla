------------------------------- MODULE Login --------------------------------
(***************************************************************************)
(* Signing in: the client opens the browser, the CAS callback mirrors the  *)
(* user's groups and home site and issues a one-time code, the client      *)
(* exchanges the code for a signed token and then calls the API with it    *)
(* (server/casauth, server/core/sync.py, wg_client/auth.py).  Server       *)
(* workers run one database statement at a time at READ COMMITTED.         *)
(*                                                                         *)
(* A worker may be killed between two statements, and is once its request  *)
(* has run for gunicorn's timeout.  Administrators edit memberships and    *)
(* home sites by hand meanwhile (core/admin.py).                           *)
(*                                                                         *)
(* Each user has one client and one browser.  Tokens are signed and        *)
(* nothing is stored of them, so a token is what it says: its user and     *)
(* when it was minted; `code` names the code it was minted for.            *)
(***************************************************************************)
EXTENDS Naturals, FiniteSets

CONSTANTS
    Users, Groups, Workers, None,
    Wired,                  \* groups the administrator has made
    Names, GroupOf,         \* names CAS releases; by Group.cas_names and name
    Sites,                  \* rows of core_site
    SiteValues, SiteOf,     \* what CAS releases as a site; by Site.cas_values
    CodeAge,                \* WDG_AUTH_CODE_MAX_AGE
    TokenAge,               \* WDG_TOKEN_MAX_AGE
    RequestAge,             \* gunicorn's --timeout
    MaxTime, MaxLogins, MaxEvents       \* bounds

ASSUME LoginAssumption ==
    /\ {CodeAge, TokenAge, RequestAge, MaxTime, MaxLogins, MaxEvents} \subseteq Nat
    /\ None \notin Users \cup Sites
    /\ IsFiniteSet(Workers)

\* Names that no group declares get a group each; a site value may be unknown.
ASSUME MappingAssumption ==
    /\ Wired \subseteq Groups /\ GroupOf \in [Names -> Groups]
    /\ \A m, n \in Names : GroupOf[m] = GroupOf[n] => m = n \/ GroupOf[m] \in Wired
    /\ SiteValues # {} /\ SiteOf \in [SiteValues -> Sites \cup {None}]

Times == 0 .. MaxTime
Code == [id : Nat, user : Users, born : Times]
Token == [user : Users, born : Times, code : Code]
Attributes == [names : SUBSET Names, site : SiteValues]
Assigned == [groups : SUBSET Groups, site : Sites \cup {None}]

\* A worker serves a user's callback or a code, and these are told apart.
ASSUME JobAssumption == None \notin Code \cup Token /\ Users \cap Code = {}

VARIABLES
    now,
    enabled,    \* users with is_active
    released,   \* the attributes CAS releases for each user
    groups,     \* rows of core_group
    members,    \* Group.members, by user
    site,       \* UserProfile.site
    session,    \* browsers whose session holds client_redirect
    tabs,       \* CAS login pages open in each browser
    codes,      \* rows of casauth_authcode
    issued,     \* every code ever issued: they stay in browser histories
    minted,     \* every token ever minted
    pc,         \* next statement of each worker
    job,        \* the user or the code a worker serves
    replay,     \* the exchange was not posted by the user's client
    since,      \* when its request began
    want,       \* attributes CAS released to the callback
    todo,       \* names still to resolve
    old,        \* what the callback read last: a membership, or a missing group
    mirrored,   \* history: the groups and the site given last to each user, by a
                \* callback that has ended or by an administrator
    mingled,    \* history: whether overlapping callbacks, or an edit during one, may
                \* have mixed them: "no", "yes", or "sole" while one runs alone since
    client,     \* what each user's client does
    received,   \* the code each client got on its loopback port
    stored,     \* the token in the user's keyring
    events      \* replays, stray requests, deaths of workers, changes and edits

directory == <<enabled, released>>
tables == <<groups, members, site>>
sign == <<codes, issued, minted>>
worker == <<pc, job, replay, since, want, todo, old>>
history == <<mirrored, mingled>>
user == <<session, tabs, client, received, stored>>
vars == <<now, directory, tables, sign, worker, history, user, events>>

Free == [names |-> {}, site |-> CHOOSE v \in SiteValues : TRUE]
Labels == {"idle", "resolve", "create", "replace", "site", "issue",
           "select", "delete", "check", "account", "mint"}
InCallback == {"resolve", "create", "replace", "site", "issue"}

TypeOK ==
    /\ now \in Times /\ enabled \subseteq Users /\ session \subseteq Users
    /\ released \in [Users -> Attributes] /\ groups \subseteq Groups
    /\ members \in [Users -> SUBSET Groups] /\ site \in [Users -> Sites \cup {None}]
    /\ tabs \in [Users -> Nat]
    /\ codes \subseteq issued /\ issued \subseteq Code /\ minted \subseteq Token
    /\ pc \in [Workers -> Labels]
    /\ job \in [Workers -> {None} \cup Users \cup Code]
    /\ replay \in [Workers -> BOOLEAN]
    /\ since \in [Workers -> Times]
    /\ want \in [Workers -> Attributes] /\ todo \in [Workers -> SUBSET Names]
    /\ old \in [Workers -> SUBSET Groups]
    /\ mirrored \in [Users -> Assigned]
    /\ mingled \in [Users -> {"no", "yes", "sole"}]
    /\ client \in [Users -> {"idle", "browser", "exchange", "posted", "call"}]
    /\ received \in [Users -> {None} \cup Code]
    /\ stored \in [Users -> {None} \cup Token]
    /\ events \in Nat

Init ==
    /\ now \in Times /\ enabled = Users
    /\ released \in [Users -> Attributes]
    /\ groups = Wired /\ members = [u \in Users |-> {}] /\ site = [u \in Users |-> None]
    /\ session = {} /\ tabs = [u \in Users |-> 0]
    /\ codes = {} /\ issued = {} /\ minted = {}
    /\ pc = [w \in Workers |-> "idle"] /\ job = [w \in Workers |-> None]
    /\ replay = [w \in Workers |-> FALSE] /\ since = [w \in Workers |-> 0]
    /\ want = [w \in Workers |-> Free] /\ todo = [w \in Workers |-> {}]
    /\ old = [w \in Workers |-> {}]
    /\ mirrored = [u \in Users |-> [groups |-> {}, site |-> None]]
    /\ mingled = [u \in Users |-> "no"]
    /\ client = [u \in Users |-> "idle"] /\ received = [u \in Users |-> None]
    /\ stored = [u \in Users |-> None]
    /\ events = 0

Happens == events < MaxEvents /\ events' = events + 1
Goto(w, label) == pc' = [pc EXCEPT ![w] = label]
Finish(w) ==
    /\ Goto(w, "idle")
    /\ job' = [job EXCEPT ![w] = None] /\ replay' = [replay EXCEPT ![w] = FALSE]
    /\ since' = [since EXCEPT ![w] = 0]
    /\ want' = [want EXCEPT ![w] = Free] /\ todo' = [todo EXCEPT ![w] = {}]
    /\ old' = [old EXCEPT ![w] = {}]

\* The client goes on to state s, with the code it got or without one.
ClientGoes(u, s, code) ==
    /\ client' = [client EXCEPT ![u] = s]
    /\ received' = [received EXCEPT ![u] = code]

Callbacks(u) == {w \in Workers : job[w] = u}

-----------------------------------------------------------------------------
(* The client.                                                             *)

\* get_token: a stored token is used as it is, however old.
NeedsLogin(u, force) == force \/ stored[u] = None

\* cas_login remembers the redirect in the session and bounces to CAS.
CasLogin(u) == session' = session \cup {u} /\ tabs' = [tabs EXCEPT ![u] = @ + 1]

\* connect, or with force identity: login opens the browser on cas_login.
Begin(u, force) ==
    /\ client[u] = "idle"
    /\ IF NeedsLogin(u, force)
       THEN /\ Cardinality(issued) + tabs[u] + Cardinality(Callbacks(u)) < MaxLogins
            /\ client' = [client EXCEPT ![u] = "browser"]
            /\ CasLogin(u)
       ELSE /\ client' = [client EXCEPT ![u] = "call"]
            /\ UNCHANGED <<tabs, session>>
    /\ UNCHANGED <<now, directory, tables, sign, worker, history, received, stored, events>>

\* No redirect came within CALLBACK_TIMEOUT, or no answer to the exchange.
GiveUp(u) ==
    /\ client[u] \in {"browser", "posted"}
    /\ ClientGoes(u, "idle", None)
    /\ UNCHANGED <<now, directory, tables, sign, worker, history, session, tabs,
                   stored, events>>

\* The loopback server serves one request: one without a code ends the login.
StrayRequest(u) ==
    /\ client[u] = "browser" /\ Happens
    /\ ClientGoes(u, "idle", None)
    /\ UNCHANGED <<now, directory, tables, sign, worker, history, session, tabs, stored>>

\* bearer_user and tokens.verify.
Valid(t) == now <= t.born + TokenAge /\ t.user \in enabled

\* The API call; refused or not, the token stays stored.
Call(u) ==
    /\ client[u] = "call"
    /\ ClientGoes(u, "idle", None)
    /\ UNCHANGED <<now, directory, tables, sign, worker, history, session, tabs,
                   stored, events>>

Logout(u) ==
    /\ client[u] = "idle" /\ stored[u] # None
    /\ stored' = [stored EXCEPT ![u] = None]
    /\ UNCHANGED <<now, directory, tables, sign, worker, history, session, tabs,
                   client, received, events>>

-----------------------------------------------------------------------------
(* cas_callback.                                                           *)

AfterNames(names) == IF names = {} THEN "site" ELSE "resolve"

\* The user signs in at CAS, or is signed in there; CAS validates the ticket
\* and releases the attributes; get_or_create(user).
Validate(w, u) ==
    /\ pc[w] = "idle" /\ tabs[u] > 0 /\ u \in session
    /\ tabs' = [tabs EXCEPT ![u] = @ - 1]
    /\ job' = [job EXCEPT ![w] = u] /\ since' = [since EXCEPT ![w] = now]
    /\ want' = [want EXCEPT ![w] = released[u]]
    /\ todo' = [todo EXCEPT ![w] = released[u].names]
    /\ Goto(w, AfterNames(released[u].names))
    /\ mingled' = [mingled EXCEPT ![u] = IF Callbacks(u) # {} THEN "yes"
                                         ELSE IF @ = "no" THEN "no" ELSE "sole"]
    /\ UNCHANGED <<now, directory, tables, sign, old, replay, mirrored, session,
                   client, received, stored, events>>

\* "missing ticket or session": an earlier callback took the redirect; or CAS
\* does not validate the ticket.
Bounce(u) ==
    /\ tabs[u] > 0
    /\ tabs' = [tabs EXCEPT ![u] = @ - 1]
    /\ UNCHANGED <<now, directory, tables, sign, worker, history, session, client,
                   received, stored, events>>

\* resolve_group finds the name's group, or goes on to create it (kept in old).
ResolveGroup(w, n) ==
    /\ pc[w] = "resolve" /\ n \in todo[w]
    /\ todo' = [todo EXCEPT ![w] = @ \ {n}]
    /\ IF GroupOf[n] \in groups
       THEN UNCHANGED <<pc, old>>
       ELSE Goto(w, "create") /\ old' = [old EXCEPT ![w] = {GroupOf[n]}]
    /\ UNCHANGED <<now, directory, tables, sign, job, replay, since, want, history,
                   user, events>>

\* A group created meanwhile by another callback is an IntegrityError: 500.
CreateGroup(w, g) ==
    /\ pc[w] = "create" /\ old[w] = {g}
    /\ IF g \in groups
       THEN Finish(w) /\ UNCHANGED groups
       ELSE /\ groups' = groups \cup {g}
            /\ Goto(w, "resolve")
            /\ UNCHANGED <<job, replay, since, want, todo, old>>
    /\ UNCHANGED <<now, directory, members, site, sign, history, user, events>>

\* wdg_groups.set reads the membership, then removes and adds the difference.
ReadMembership(w) ==
    /\ pc[w] = "resolve" /\ todo[w] = {}
    /\ old' = [old EXCEPT ![w] = members[job[w]]]
    /\ Goto(w, "replace")
    /\ UNCHANGED <<now, directory, tables, sign, job, replay, since, want, todo,
                   history, user, events>>

Mapped(names) == {GroupOf[n] : n \in names}

\* Mutant of Difference: groups are added and never removed.
OnlyAdded(ms, from, to) == ms \cup (to \ from)

Difference(ms, from, to) == (ms \ (from \ to)) \cup (to \ from)

ReplaceMembership(w) ==
    /\ pc[w] = "replace"
    /\ members' = [members EXCEPT ![job[w]] =
                      Difference(@, old[w], Mapped(want[w].names))]
    /\ Goto(w, "site")
    /\ UNCHANGED <<now, directory, groups, site, sign, job, replay, since, want,
                   todo, old, history, user, events>>

\* Unmatched or missing values leave the current site.
MirroredSite(current, value) == IF SiteOf[value] = None THEN current ELSE SiteOf[value]

SyncSite(w) ==
    /\ pc[w] = "site"
    /\ site' = [site EXCEPT ![job[w]] = MirroredSite(@, want[w].site)]
    /\ Goto(w, "issue")
    /\ UNCHANGED <<now, directory, groups, members, sign, job, replay, since, want,
                   todo, old, history, user, events>>

\* What a callback with these attributes has given the user before a statement.
Latest(before, attributes, label) ==
    [groups |-> IF label \in {"site", "issue"} /\ attributes.names # {}
                THEN Mapped(attributes.names) ELSE before.groups,
     site |-> IF label = "issue" THEN MirroredSite(before.site, attributes.site)
              ELSE before.site]

\* A callback that replaces both, and ran alone, ends what was mixed before.
Settled(before, attributes) ==
    IF before = "sole" /\ attributes.names # {} /\ SiteOf[attributes.site] # None
    THEN "no" ELSE before

\* The redirect leaves the session and reaches the client if it still listens,
\* be it for a later login than the tab's.
IssueCode(w) ==
    /\ pc[w] = "issue"
    /\ LET u == job[w]
           code == [id |-> Cardinality(issued) + 1, user |-> u, born |-> now]
       IN  /\ codes' = {c \in codes : now <= c.born + CodeAge} \cup {code}
           /\ issued' = issued \cup {code}
           /\ session' = session \ {u}
           /\ mirrored' = [mirrored EXCEPT ![u] = Latest(@, want[w], "issue")]
           /\ mingled' = [mingled EXCEPT ![u] = Settled(@, want[w])]
           /\ IF client[u] = "browser" THEN ClientGoes(u, "exchange", code)
                                       ELSE UNCHANGED <<client, received>>
    /\ Finish(w)
    /\ UNCHANGED <<now, directory, tables, minted, tabs, stored, events>>

-----------------------------------------------------------------------------
(* cas_exchange.                                                           *)

\* The client posts its code, or somebody posts a code again.
Present(w, c) ==
    /\ pc[w] = "idle" /\ c \in issued
    /\ \/ /\ client[c.user] = "exchange" /\ received[c.user] = c
          /\ ClientGoes(c.user, "posted", c)
          /\ UNCHANGED <<replay, events>>
       \/ /\ Happens
          /\ replay' = [replay EXCEPT ![w] = TRUE]
          /\ UNCHANGED <<client, received>>
    /\ job' = [job EXCEPT ![w] = c] /\ since' = [since EXCEPT ![w] = now]
    /\ Goto(w, "select")
    /\ UNCHANGED <<now, directory, tables, sign, want, todo, old, history, session,
                   tabs, stored>>

\* The client that posted w's code still waits for the answer.
Waits(w) == ~replay[w] /\ client[job[w].user] = "posted" /\ received[job[w].user] = job[w]

\* 401: invalid or expired code.
Refuse(w) ==
    /\ IF Waits(w) THEN ClientGoes(job[w].user, "idle", None)
                   ELSE UNCHANGED <<client, received>>
    /\ Finish(w)

\* Mutant of SelectCode: without select_for_update.
SelectUnlocked(w) ==
    /\ pc[w] = "select"
    /\ IF job[w] \in codes
       THEN /\ Goto(w, "delete")
            /\ UNCHANGED <<job, replay, since, want, todo, old, client, received>>
       ELSE Refuse(w)
    /\ UNCHANGED <<now, directory, tables, sign, history, session, tabs, stored, events>>

\* SELECT ... FOR UPDATE waits for the exchange that holds the row.
SelectCode(w) ==
    /\ pc[w] = "select"
    /\ \A v \in Workers : ~(pc[v] = "delete" /\ job[v] = job[w])
    /\ IF job[w] \in codes
       THEN /\ Goto(w, "delete")
            /\ UNCHANGED <<job, replay, since, want, todo, old, client, received>>
       ELSE Refuse(w)
    /\ UNCHANGED <<now, directory, tables, sign, history, session, tabs, stored, events>>

DeleteCode(w) ==
    /\ pc[w] = "delete"
    /\ codes' = codes \ {job[w]}
    /\ Goto(w, "check")
    /\ UNCHANGED <<now, directory, tables, issued, minted, job, replay, since, want,
                   todo, old, history, user, events>>

\* Mutant of Expired: the lifetime is that of a token.
ExpiredLate(c) == now > c.born + CodeAge + TokenAge

Expired(c) == now > c.born + CodeAge

\* row.created_at: too old, 401 and the code is spent.
CheckAge(w) ==
    /\ pc[w] = "check"
    /\ IF Expired(job[w])
       THEN Refuse(w)
       ELSE /\ Goto(w, "account")
            /\ UNCHANGED <<job, replay, since, want, todo, old, client, received>>
    /\ UNCHANGED <<now, directory, tables, sign, history, session, tabs, stored, events>>

\* row.user is read now; its is_active decides, whatever happens to it next.
CheckAccount(w) ==
    /\ pc[w] = "account"
    /\ IF job[w].user \notin enabled
       THEN Refuse(w)
       ELSE /\ Goto(w, "mint")
            /\ UNCHANGED <<job, replay, since, want, todo, old, client, received>>
    /\ UNCHANGED <<now, directory, tables, sign, history, session, tabs, stored, events>>

\* Mutant of MintToken: the client stores the code.
MintAndStoreCode(w) ==
    /\ pc[w] = "mint"
    /\ LET u == job[w].user
           t == [user |-> u, born |-> now, code |-> job[w]]
       IN  /\ minted' = minted \cup {t}
           /\ \/ /\ Waits(w)
                 /\ stored' = [stored EXCEPT ![u] = job[w]]
                 /\ ClientGoes(u, "call", None)
              \/ UNCHANGED <<stored, client, received>>
    /\ Finish(w)
    /\ UNCHANGED <<now, directory, tables, codes, issued, history, session, tabs, events>>

\* The answer reaches the waiting client, or is lost on the way.
MintToken(w) ==
    /\ pc[w] = "mint"
    /\ LET u == job[w].user
           t == [user |-> u, born |-> now, code |-> job[w]]
       IN  /\ minted' = minted \cup {t}
           /\ \/ /\ Waits(w)
                 /\ stored' = [stored EXCEPT ![u] = t]
                 /\ ClientGoes(u, "call", None)
              \/ UNCHANGED <<stored, client, received>>
    /\ Finish(w)
    /\ UNCHANGED <<now, directory, tables, codes, issued, history, session, tabs, events>>

-----------------------------------------------------------------------------
(* The administrator and the world.                                        *)

\* The group's page: its members become those on the form.  A callback of one
\* of them may be between the statements that read and write the membership.
SaveGroup(g, form) ==
    /\ Happens /\ g \in groups
    /\ LET changed == {u \in Users : u \in form <=> g \notin members[u]}
       IN  /\ changed # {}
           /\ members' = [u \in Users |-> IF u \in form THEN members[u] \cup {g}
                                                        ELSE members[u] \ {g}]
           /\ mirrored' = [u \in Users |->
                 IF u \in changed THEN [mirrored[u] EXCEPT !.groups = members'[u]]
                                  ELSE mirrored[u]]
           /\ mingled' = [u \in Users |->
                 IF u \in changed /\ Callbacks(u) # {} THEN "yes" ELSE mingled[u]]
    /\ UNCHANGED <<now, directory, groups, site, sign, worker, user>>

\* The profile's page: the user's home site, or none.
SaveProfile(u, s) ==
    /\ Happens /\ s # site[u]
    /\ site' = [site EXCEPT ![u] = s]
    /\ mirrored' = [mirrored EXCEPT ![u].site = s]
    /\ mingled' = [mingled EXCEPT ![u] = IF Callbacks(u) # {} THEN "yes" ELSE @]
    /\ UNCHANGED <<now, directory, groups, members, sign, worker, user>>

\* The worker of a request dies, at gunicorn's timeout if not before, and the
\* transaction it is in is rolled back.  What a callback wrote stays.
Die(w) ==
    /\ pc[w] # "idle"
    /\ \/ now = since[w] + RequestAge /\ UNCHANGED events
       \/ Happens
    /\ mirrored' = [u \in Users |->
          IF u = job[w] THEN Latest(mirrored[u], want[w], pc[w]) ELSE mirrored[u]]
    /\ Finish(w)
    /\ UNCHANGED <<now, directory, tables, sign, mingled, user>>

\* CAS releases other attributes for a user, or an account is (de)activated.
ChangeReleased(u, attributes) ==
    /\ Happens
    /\ released' = [released EXCEPT ![u] = attributes]
    /\ UNCHANGED <<now, enabled, tables, sign, worker, history, user>>

ToggleAccount(u) ==
    /\ Happens
    /\ enabled' = (enabled \ {u}) \cup ({u} \ enabled)
    /\ UNCHANGED <<now, released, tables, sign, worker, history, user>>

\* No request outlives the timeout.
Tick ==
    /\ now < MaxTime /\ now' = now + 1
    /\ \A w \in Workers : pc[w] # "idle" => now < since[w] + RequestAge
    /\ UNCHANGED <<directory, tables, sign, worker, history, user, events>>

Serve(w) ==
    \/ \E n \in Names : ResolveGroup(w, n)
    \/ \E g \in Groups : CreateGroup(w, g)
    \/ ReadMembership(w) \/ ReplaceMembership(w) \/ SyncSite(w) \/ IssueCode(w)
    \/ SelectCode(w) \/ DeleteCode(w) \/ CheckAge(w) \/ CheckAccount(w) \/ MintToken(w)

Next ==
    \/ \E w \in Workers :
          \/ Serve(w) \/ Die(w)
          \/ \E u \in Users : Validate(w, u)
          \/ \E c \in issued : Present(w, c)
    \/ \E u \in Users :
          \/ \E force \in BOOLEAN : Begin(u, force)
          \/ GiveUp(u) \/ StrayRequest(u) \/ Call(u) \/ Logout(u) \/ Bounce(u)
          \/ ToggleAccount(u)
          \/ \E s \in Sites \cup {None} : SaveProfile(u, s)
          \/ \E attributes \in Attributes : ChangeReleased(u, attributes)
    \/ \E g \in Groups, form \in SUBSET Users : SaveGroup(g, form)
    \/ Tick

Spec == Init /\ [][Next]_vars

-----------------------------------------------------------------------------
(* What must hold.                                                         *)

\* A code gives one token at most, however many exchanges race for it
\* ("single-use even under concurrent exchange attempts").
CodeSpentOnce == \A s, t \in minted : s.code = t.code => s = t

\* A call that the server accepts uses a token of a code that it issued to the
\* same user, not longer ago than the lifetimes of a code and of a token and
\* the longest request together, by whatever way the code and the token were
\* kept, lost, replayed or stored meanwhile.  The time is counted from the
\* code's issue: CAS may have known the user for as long as its own session.
SessionBounded ==
    \A t \in minted : Valid(t) => \E c \in issued :
        c = t.code /\ c.user = t.user /\ now <= c.born + CodeAge + RequestAge + TokenAge

\* "Membership is set to exactly those groups", "the existing membership is
\* left untouched" when CAS releases none, and an unknown or missing site
\* leaves the one assigned (sync_membership, sync_site): with no callback
\* running a user is in exactly the groups of the names released last, or in
\* those an administrator left since, and likewise at the site, whatever
\* logins were given up, refused or killed meanwhile.  Callbacks that overlap,
\* or an edit of the user during one, may leave a mixture until a callback that
\* replaces both runs alone, see the README.
AttributesMirrored ==
    \A u \in Users :
        (mingled[u] = "no" /\ Callbacks(u) = {}) =>
            members[u] = mirrored[u].groups /\ site[u] = mirrored[u].site
=============================================================================
