--------------------------- MODULE PageAnalytics ---------------------------
(***************************************************************************)
(* What a page is measured with, in one tab: the tenant group its events   *)
(* carry (observability/route-telemetry.ts), the flag values read for it   *)
(* (observability/flags) and the `$feature/*` properties registered from   *)
(* them.  The router drives all three.  A navigation runs the              *)
(* destination's loaders, commits (onLoad) and resolves (onResolved); the  *)
(* tenant read, the flags read, the ten second waits, a hovered link, a    *)
(* change of the signed-in user and a dropped tenant happen in between.    *)
(*                                                                         *)
(* posthog-js is loaded and everyone is opted in: AnalyticsIdentity has    *)
(* the commands queued before that.  A page is its tenant, Home (in the    *)
(* shell, no tenant) or Link (outside the shell: login, a sign-in link).   *)
(***************************************************************************)
EXTENDS Naturals, Sequences, SequencesExt

CONSTANTS
  Tenants,      \* tenant slugs
  People,       \* users of this browser
  Nobody,       \* no signed-in user, no owner of a value or of a request
  NoTenant,     \* no tenant group, no slug; the flag scope without a tenant
  Home, Link,   \* the pages without a tenant, in the shell and outside it
  Nowhere,      \* no navigation under way
  MaxNavs,      \* how many navigations a behaviour starts
  MaxSwitches   \* how many times somebody signs in

ASSUME PeopleAssumption == Nobody \notin People
ASSUME TenantsAssumption ==
  /\ Tenants \cap {NoTenant, Home, Link, Nowhere} = {}
  /\ Home # Link /\ Nowhere \notin {Home, Link}

Pages  == Tenants \cup {Home, Link}
Scopes == Tenants \cup {NoTenant}
Groups == Tenants \cup {NoTenant}

VARIABLES
  user,       \* the store's user
  left,       \* a sign-out is loading /login as a new document
  page,       \* the committed page
  nav,        \* the destination whose loaders run
  resolving,  \* committed, and onResolved still to come
  detail,     \* [t] the tenant's cached detail: absent, pending, found, missing
  promise,    \* [t] the read the router holds as t's loader data
  queue,      \* the resolves whose group and page view are still due
  group,      \* the tenant group of events sent now
  inForce,    \* installRouteAnalytics: the tenant of the latest resolve
  earlier,    \* installRouteAnalytics: the tenant of the latest tenant page
  lastTenant, \* installFlagScopeReset: the tenant its last resolve was on
  flags,      \* [s] whose values are cached under the scope
  fetch,      \* [s] whose read of the scope is in flight
  features,   \* the scope whose values the SDK has registered
  known,      \* registeredFeatureProperties: what this tab believes it has
  dated,      \* history: tenants with values or a read older than the stay on another
  navs, switches

routeVars == <<page, nav, resolving, promise, navs>>
groupVars == <<queue, group, inForce, earlier>>
flagVars  == <<lastTenant, flags, fetch, dated>>
featVars  == <<features, known>>
userVars  == <<user, left, switches>>
vars == <<routeVars, groupVars, flagVars, featVars, userVars, detail>>

Status == {"wait", "tenant", "none"}
Turns  == [slug : Groups, status : Status]

TypeOK ==
  /\ user \in People \cup {Nobody} /\ left \in BOOLEAN
  /\ page \in Pages /\ nav \in Pages \cup {Nowhere} /\ resolving \in BOOLEAN
  /\ detail \in [Tenants -> {"absent", "pending", "found", "missing"}]
  /\ promise \in [Tenants -> Status \cup {"never"}]
  /\ queue \in Seq(Turns)
  /\ group \in Groups /\ inForce \in Groups /\ earlier \in Groups
  /\ lastTenant \in Groups
  /\ flags \in [Scopes -> People \cup {Nobody}]
  /\ fetch \in [Scopes -> People \cup {Nobody}]
  /\ features \in Scopes \cup {Nowhere} /\ known \in Scopes \cup {Nowhere}
  /\ dated \subseteq Tenants
  /\ navs \in Nat /\ switches \in Nat

\* flagScopeFor, and the slug of a page's tenant layout match.
ScopeOf(p) == IF p \in Tenants THEN p ELSE NoTenant
InShell(p) == p # Link

-----------------------------------------------------------------------------
\* A link opened in a new document: nobody, or a restored session.
Init ==
  /\ user \in People \cup {Nobody} /\ left = FALSE
  /\ page = Link /\ nav = Nowhere /\ resolving = FALSE
  /\ detail = [t \in Tenants |-> "absent"]
  /\ promise = [t \in Tenants |-> "never"]
  /\ queue = <<>>
  /\ group = NoTenant /\ inForce = NoTenant /\ earlier = NoTenant
  /\ lastTenant = NoTenant
  /\ flags = [s \in Scopes |-> Nobody] /\ fetch = [s \in Scopes |-> Nobody]
  /\ features = Nowhere /\ known = Nowhere
  /\ dated = {}
  /\ navs = 0 /\ switches = 0

\* The queue's promise chain runs as microtasks: no other step gets in while
\* its head has settled.
Due  == queue # <<>> /\ Head(queue).status # "wait"
Idle == ~Due /\ ~left

-----------------------------------------------------------------------------
\* ensureQueryData(tenantQueryOptions(slug)): cached data, a 404's null
\* included, is the answer; a read in flight is joined; else one starts.
Ensured(t) == IF detail[t] = "absent" THEN "pending" ELSE detail[t]
Answer(d) ==
  CASE d = "pending" -> "wait" [] d = "found" -> "tenant" [] OTHER -> "none"

\* startTenantRoute's read, and the promise it hands to the router.
StartRead(t) ==
  /\ detail' = [detail EXCEPT ![t] = Ensured(t)]
  /\ promise' = [promise EXCEPT ![t] = Answer(Ensured(t))]

\* ensureFlags: cached values answer, a read in flight is joined, else one starts.
EnsureFlags(s) ==
  fetch' = IF flags[s] = Nobody /\ fetch[s] = Nobody
             THEN [fetch EXCEPT ![s] = user] ELSE fetch

\* A hovered link: the loader of a tenant's route that is not the page's own
\* runs as a preload, with no flags.
Preload(t) ==
  /\ Idle /\ user # Nobody /\ t \notin {page, nav}
  /\ StartRead(t)
  /\ UNCHANGED <<page, nav, resolving, navs, groupVars, flagVars, featVars, userVars>>

\* A navigation's guards and loaders; it replaces one still under way.  A
\* tenant's loader data may be what the router kept from its last load of that
\* route, with the read it starts now only in the background.  The shell's own
\* loader runs on entering it.
Navigate(p) ==
  /\ Idle /\ navs < MaxNavs
  /\ InShell(p) => user # Nobody
  /\ nav' = p /\ navs' = navs + 1
  /\ IF p \in Tenants
       THEN StartRead(p)
            \/ /\ promise[p] # "never"
               /\ detail' = [detail EXCEPT ![p] = Ensured(p)]
               /\ UNCHANGED promise
       ELSE UNCHANGED <<detail, promise>>
  /\ IF p \in Tenants \/ (p = Home /\ ~InShell(page))
       THEN EnsureFlags(ScopeOf(p)) ELSE UNCHANGED fetch
  /\ UNCHANGED <<page, resolving, groupVars, lastTenant, flags, dated, featVars, userVars>>

\* syncFeatureProperties: nothing is written when the registered values are
\* the ones given; Nowhere is no values.
SyncFeatures(s) ==
  IF known = s THEN UNCHANGED featVars ELSE features' = s /\ known' = s
Cached(s) == IF flags[s] = Nobody THEN Nowhere ELSE s

\* Mutant: no sync on commit: the layout's effect alone keeps the properties.
CommitWithoutSync ==
  /\ Idle /\ nav # Nowhere
  /\ page' = nav /\ nav' = Nowhere /\ resolving' = TRUE
  /\ UNCHANGED <<featVars, promise, navs, groupVars, flagVars, userVars, detail>>

\* The router commits: the loaders are done, or their ten seconds are.
\* installRouteFeatureProperties syncs to the new page's cached scope.
Commit ==
  /\ Idle /\ nav # Nowhere
  /\ page' = nav /\ nav' = Nowhere /\ resolving' = TRUE
  /\ SyncFeatures(Cached(ScopeOf(nav)))
  /\ UNCHANGED <<promise, navs, groupVars, flagVars, userVars, detail>>

\* Whether a tenant's values, or a read of them, have outlived a stay.
Aged(old) == {t \in old : flags'[t] # Nobody \/ fetch'[t] # Nobody}

\* Mutant: values are dropped and reads in flight are left to land.
ClearFlagsLetsReadsLand(keep) ==
  /\ flags' = [s \in Scopes |-> IF s \in keep THEN flags[s] ELSE Nobody]
  /\ fetch' = fetch

\* clearFlags, with every scope but `keep`: removing a query cancels its read.
ClearFlags(keep) ==
  /\ flags' = [s \in Scopes |-> IF s \in keep THEN flags[s] ELSE Nobody]
  /\ fetch' = [s \in Scopes |-> IF s \in keep THEN fetch[s] ELSE Nobody]

\* Every wait that `which` picks settles with `status`.
Settle(q, which, status) ==
  [i \in DOMAIN q |-> IF q[i].status = "wait" /\ q[i].slug \in which
                        THEN [q[i] EXCEPT !.status = status] ELSE q[i]]

\* Mutant: a tenant page keeps the group of the tenant before it while its read is out.
RouteAnalyticsKeepsGroup ==
  LET cut == IF page \in Tenants /\ earlier # page
               THEN Settle(queue, {earlier}, "none") ELSE queue
  IN /\ queue' = Append(cut, [slug |-> ScopeOf(page),
                              status |-> IF page \in Tenants THEN promise[page] ELSE "none"])
     /\ group' = group
     /\ inForce' = ScopeOf(page)
     /\ earlier' = IF page \in Tenants THEN page ELSE earlier

\* Mutant: the cut of a page is not chained to those of the same tenant before it.
SettleLast(q, which, status) ==
  [i \in DOMAIN q |-> IF /\ q[i].status = "wait" /\ q[i].slug \in which
                         /\ \A j \in DOMAIN q : j > i => q[j].slug # q[i].slug
                        THEN [q[i] EXCEPT !.status = status] ELSE q[i]]
RouteAnalyticsCutsOne ==
  LET cut == IF page \in Tenants /\ earlier # page
               THEN SettleLast(queue, {earlier}, "none") ELSE queue
  IN /\ queue' = Append(cut, [slug |-> ScopeOf(page),
                              status |-> IF page \in Tenants THEN promise[page] ELSE "none"])
     /\ group' = IF page \in Tenants /\ inForce # page THEN NoTenant ELSE group
     /\ inForce' = ScopeOf(page)
     /\ earlier' = IF page \in Tenants THEN page ELSE earlier

\* installRouteAnalytics: a different tenant's page cuts every wait out for
\* the tenant before it and leaves the group; the same tenant's keeps both.
RouteAnalytics ==
  LET cut == IF page \in Tenants /\ earlier # page
               THEN Settle(queue, {earlier}, "none") ELSE queue
      turn == [slug |-> ScopeOf(page),
               status |-> IF page \in Tenants THEN promise[page] ELSE "none"]
  IN /\ queue' = Append(cut, turn)
     /\ group' = IF page \in Tenants /\ inForce # page THEN NoTenant ELSE group
     /\ inForce' = ScopeOf(page)
     /\ earlier' = IF page \in Tenants THEN page ELSE earlier

\* Mutant: the scope kept is the one left.
FlagScopeResetKeepsLast ==
  IF page \notin Tenants THEN UNCHANGED flagVars
  ELSE /\ IF lastTenant \notin {NoTenant, page}
            THEN ClearFlags({lastTenant}) ELSE UNCHANGED <<flags, fetch>>
       /\ lastTenant' = page
       /\ dated' = Aged(dated \cup ({earlier} \ {NoTenant, page}))

\* installFlagScopeReset: a tenant page after another tenant's drops every
\* other scope's values.
FlagScopeReset ==
  IF page \notin Tenants THEN UNCHANGED flagVars
  ELSE /\ IF lastTenant \notin {NoTenant, page}
            THEN ClearFlags({page}) ELSE UNCHANGED <<flags, fetch>>
       /\ lastTenant' = page
       /\ dated' = Aged(dated \cup ({earlier} \ {NoTenant, page}))

\* onResolved: nothing is pending any more.
Resolve ==
  /\ Idle /\ resolving /\ nav = Nowhere
  /\ resolving' = FALSE
  /\ RouteAnalytics /\ FlagScopeReset
  /\ UNCHANGED <<page, nav, promise, navs, featVars, userVars, detail>>

\* setTenantGroup and clearTenantGroup: the SDK is loaded, so both act at once.
SetTenantGroup(t) == group' = t
ClearTenantGroup == group' = NoTenant

\* Mutant: a tenant already in force is taken to be the group already.
TakeTurnInForce ==
  /\ Due /\ ~left
  /\ group' = CASE Head(queue).status # "tenant" -> NoTenant
                [] Head(queue).slug = inForce    -> group
                [] OTHER                         -> Head(queue).slug
  /\ queue' = Tail(queue)
  /\ UNCHANGED <<inForce, earlier, routeVars, flagVars, featVars, userVars, detail>>

\* The next resolve's turn: into its tenant's group, or out of any, and its
\* page view is captured.
TakeTurn ==
  /\ Due /\ ~left
  /\ \/ Head(queue).status = "tenant" /\ SetTenantGroup(Head(queue).slug)
     \/ Head(queue).status = "none" /\ ClearTenantGroup
  /\ queue' = Tail(queue)
  /\ UNCHANGED <<inForce, earlier, routeVars, flagVars, featVars, userVars, detail>>

\* Mutant: the wait's timer is cleared once the user has left the tenant's page.
WaitEndsOnPage ==
  /\ Idle
  /\ \E i \in DOMAIN queue :
       /\ queue[i].status = "wait" /\ queue[i].slug = page
       /\ \A j \in 1..(i - 1) : queue[j].status # "wait"
       /\ queue' = [queue EXCEPT ![i].status = "none"]
  /\ UNCHANGED <<group, inForce, earlier, routeVars, flagVars, featVars, userVars, detail>>

\* TENANT_GROUP_WAIT_MS is over for the oldest wait.
WaitEnds ==
  /\ Idle
  /\ \E i \in DOMAIN queue :
       /\ queue[i].status = "wait"
       /\ \A j \in 1..(i - 1) : queue[j].status # "wait"
       /\ queue' = [queue EXCEPT ![i].status = "none"]
  /\ UNCHANGED <<group, inForce, earlier, routeVars, flagVars, featVars, userVars, detail>>

\* The tenants in `which` settle their promise and their waits with `status`.
SettleReads(which, status) ==
  /\ promise' = [t \in Tenants |-> IF t \in which /\ promise[t] = "wait"
                                     THEN status ELSE promise[t]]
  /\ queue' = Settle(queue, which, status)

\* The tenant read is answered: the tenant, a 404 or a failure.
TenantLands(t) ==
  /\ Idle /\ detail[t] = "pending"
  /\ \E d \in {"found", "missing", "absent"} :
       /\ detail' = [detail EXCEPT ![t] = d]
       /\ SettleReads({t}, Answer(d))
  /\ UNCHANGED <<page, nav, resolving, navs, group, inForce, earlier, flagVars,
                 featVars, userVars>>

\* dropTenantCache and refreshJoinedTenant remove the detail; a read in
\* flight is cancelled, and the loader's promise of it is null.
DetailRemoved(t) ==
  /\ Idle /\ user # Nobody /\ detail[t] # "absent"
  /\ detail' = [detail EXCEPT ![t] = "absent"]
  /\ SettleReads({t}, "none")
  /\ UNCHANGED <<page, nav, resolving, navs, group, inForce, earlier, flagVars,
                 featVars, userVars>>

\* A flags read is answered, or fails; ensureFlags' wait may be over by then.
FlagsLand(s) ==
  /\ Idle /\ fetch[s] # Nobody
  /\ fetch' = [fetch EXCEPT ![s] = Nobody]
  /\ \/ flags' = [flags EXCEPT ![s] = fetch[s]]
     \/ UNCHANGED flags
  /\ UNCHANGED <<lastTenant, dated, routeVars, groupVars, featVars, userVars, detail>>

\* The shell's flag hooks: mounted on a new scope, on focus, on the interval.
HookReads ==
  /\ Idle /\ InShell(page) /\ user # Nobody /\ fetch[ScopeOf(page)] = Nobody
  /\ fetch' = [fetch EXCEPT ![ScopeOf(page)] = user]
  /\ UNCHANGED <<lastTenant, flags, dated, routeVars, groupVars, featVars, userVars, detail>>

\* useFeaturePropertiesSync, once the values of the page's scope changed.
SyncEffect ==
  /\ Idle /\ InShell(page)
  /\ SyncFeatures(Cached(ScopeOf(page)))
  /\ UNCHANGED <<routeVars, groupVars, flagVars, userVars, detail>>

\* Mutant: the reset forgets the properties, and the record of them stays.
ForgetNotTheRecord ==
  /\ group' = NoTenant
  /\ features' = Nowhere /\ known' = known
  /\ ClearFlags({}) /\ dated' = {}

\* Mutant: the sign-out resets analytics without the flags.
ForgetNotTheFlags ==
  /\ group' = NoTenant
  /\ features' = Nowhere /\ known' = Nowhere
  /\ UNCHANGED <<flags, fetch, dated>>

\* installAnalyticsIdentity's apply when a person goes: resetAnalytics leaves
\* the group and the properties, the flags and what was registered go too.
Forget ==
  /\ group' = NoTenant
  /\ features' = Nowhere /\ known' = Nowhere
  /\ ClearFlags({}) /\ dated' = {}

\* A sign-in link, passkey or invitation of p succeeds.  switchIdentity
\* empties the query cache of somebody else first.
SignIn(p) ==
  /\ Idle /\ switches < MaxSwitches
  /\ switches' = switches + 1 /\ user' = p
  /\ IF user \notin {Nobody, p}
       THEN /\ detail' = [t \in Tenants |-> "absent"]
            /\ SettleReads(Tenants, "none")
            /\ Forget
       ELSE UNCHANGED <<detail, promise, queue, group, featVars, flags, fetch, dated>>
  /\ UNCHANGED <<left, page, nav, resolving, navs, inForce, earlier, lastTenant>>

\* A sign-out, or the session's end: the store is cleared and /login loads.
SignOut ==
  /\ Idle /\ user # Nobody
  /\ user' = Nobody /\ left' = TRUE
  /\ Forget
  /\ UNCHANGED <<switches, routeVars, queue, inForce, earlier, lastTenant, detail>>

Next ==
  \/ \E t \in Tenants : Preload(t) \/ TenantLands(t) \/ DetailRemoved(t)
  \/ \E p \in Pages : Navigate(p)
  \/ Commit \/ Resolve \/ TakeTurn \/ WaitEnds
  \/ \E s \in Scopes : FlagsLand(s)
  \/ HookReads \/ SyncEffect
  \/ \E p \in People : SignIn(p)
  \/ SignOut

Spec == Init /\ [][Next]_vars
\* Timers fire and microtasks run; no read need ever be answered.
FairSpec == Spec /\ WF_vars(TakeTurn) /\ WF_vars(WaitEnds)

-----------------------------------------------------------------------------
(* Properties *)

\* Once a page has resolved and the settled turns are taken, its events carry
\* its own tenant's group or none.  The one exception the code leaves: a page
\* without a tenant keeps the group of the page before it while that page's
\* own view still waits, the group having stood because the same tenant was
\* in force when its detail was read again (route-telemetry.ts:159).
GroupFits ==
  Idle /\ ~resolving /\ group \notin {NoTenant, ScopeOf(page)} =>
    /\ page \notin Tenants
    /\ queue # <<>> /\ Head(queue).slug = group

\* No resolve waits for the read of a tenant whose page another tenant's has
\* followed: its view goes at once, in no group (route-telemetry.ts:122).
NoWaitForAnother ==
  Idle => \A i \in DOMAIN queue :
    queue[i].status = "wait" => queue[i].slug = earlier

\* Nobody's page shows, registers or is about to receive another person's
\* flag values (session.ts:165-177, flag-query.ts:110-139).
OwnFlags == \A s \in Scopes : {flags[s], fetch[s]} \subseteq {Nobody, user}

\* The `$feature/*` values events carry are those of the page's own scope,
\* cached, and are the ones this tab believes it registered, so a later sync
\* never skips what the SDK has lost (flag-scope.ts:92-101, register.ts:42-51).
FeaturesFit ==
  /\ features = known
  /\ features # Nowhere => features = ScopeOf(page) /\ flags[features] # Nobody

\* A tenant's page is never shown on values, or a read, from before the stay
\* on another tenant it returns from (flag-scope.ts:63-75).
ReadAfresh == ~resolving => page \notin dated

\* No view waits for ever, whatever the tenant reads do, and a page whose read
\* landed in time has its tenant's group once the views before it are out.
EveryTurnComes == []<>(queue = <<>> \/ left)
LandedGroups ==
  (/\ page \in Tenants /\ ~resolving /\ queue # <<>>
   /\ Last(queue) = [slug |-> page, status |-> "tenant"])
    ~> (group = page /\ queue = <<>>)
ViewsGo == EveryTurnComes /\ LandedGroups

\* Where the page's measures stand: one invariant for the group and one for
\* the flag values and the properties registered from them.
PageGrouped == TypeOK /\ GroupFits /\ NoWaitForAnother
PageFlagged == OwnFlags /\ FeaturesFit /\ ReadAfresh

=============================================================================
