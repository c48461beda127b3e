-------------------------- MODULE AnalyticsIdentity --------------------------
(***************************************************************************)
(* Who the browser's analytics events belong to (telemetry.ts, and         *)
(* installAnalyticsIdentity in session.ts): every tab runs posthog-js over *)
(* one stored identity, a tab that signs in takes it over, and the tabs it *)
(* was taken from find out by their next event, a BroadcastChannel and a   *)
(* registry in localStorage that has no compare-and-set.                   *)
(*                                                                         *)
(* A call on the facade is a command, run at once when the SDK has loaded  *)
(* and queued until then.  A command that touches storage is a plan of     *)
(* operations, one step each, since other tabs run in parallel; everything *)
(* else a tab does is one step.  posthog-js and the API are external.      *)
(* Everybody has opted in: consent, the tenant group and the features'     *)
(* properties are left out.                                                *)
(***************************************************************************)
EXTENDS Naturals, Sequences, FiniteSets

CONSTANTS
    Tabs,      \* the tabs of one browser
    People,    \* who signs in
    Website,   \* a person that a site sharing the identity cookie identified
    Nobody,    \* no user, or an anonymous identity
    MaxActs    \* bound: sign-ins, sign-outs, closed tabs, background refreshes, foreign
               \* identities and ended sessions altogether

ASSUME IdentityAssumption ==
    /\ Website \notin People /\ Nobody \notin People \union {Website}
    /\ MaxActs \in Nat

VARIABLES
    account,    \* the person the browser's session cookie belongs to
    stored,     \* the identity in the storage all tabs share
    registry,   \* who some tab identified lately (localStorage)
    page,       \* each tab's page
    loaded,     \* whether its SDK has loaded
    user,       \* the auth store's user
    queue,      \* commands the tab has asked for
    plan,       \* storage operations of the command that runs
    text,       \* the registry as the change under way last read it, if it has
    held,       \* the identity the tab's SDK holds in memory
    signedIn,   \* signedInUserId: whom this tab identified
    superseded, \* isSuperseded
    repair,     \* identityRepair: whether the timer is set
    siblings,   \* siblingIdentities; liveSiblingIdentities too, as only a load asks
    channel,    \* analytics-identity messages the tab has yet to hear: a set, as a
                \* message tells nothing twice and their order tells nothing
    logouts,    \* whether it has yet to hear a logout message
    refreshing, \* whether it refreshes the session: "recheck" when analytics' listener
                \* waits for it, to settle who the tab is, "refresh" for another reason
    acts,       \* how much of the bound is used
    overtaken,  \* history: a registry write undid what another tab wrote
    known       \* history: who was signed in anywhere in this page's life

browser == <<account, stored, registry>>
facade  == <<queue, plan, text, held, signedIn, superseded, repair, siblings>>
history == <<acts, overtaken>>
vars    == <<browser, page, loaded, user, facade, channel, logouts, refreshing,
             history, known>>

-----------------------------------------------------------------------------
Identities == People \union {Website, Nobody}
Users      == People \union {Nobody}
Commands   == ({"identify", "confirm"} \X People) \union
              ({"forget", "forget unless held", "yield", "reset"} \X {Nobody})
Operations == ({"register", "unregister", "identify"} \X People) \union
              {<<"reset", Nobody>>}
News       == ({"identified"} \X People) \union {<<"who", Nobody>>}

TypeOK ==
    /\ account \in Users /\ stored \in Identities /\ registry \subseteq People
    /\ page \in [Tabs -> {"closed", "open", "leaving"}]
    /\ loaded \in [Tabs -> BOOLEAN]
    /\ refreshing \in [Tabs -> {"no", "refresh", "recheck"}]
    /\ user \in [Tabs -> Users] /\ signedIn \in [Tabs -> Users]
    /\ queue \in [Tabs -> Seq(Commands)] /\ plan \in [Tabs -> Seq(Operations)]
    /\ text \in [Tabs -> {<<>>} \union {<<r>> : r \in SUBSET People}]
    /\ held \in [Tabs -> Identities]
    /\ superseded \in [Tabs -> BOOLEAN] /\ repair \in [Tabs -> BOOLEAN]
    /\ siblings \in [Tabs -> SUBSET People]
    /\ channel \in [Tabs -> SUBSET News] /\ logouts \in [Tabs -> BOOLEAN]
    /\ acts \in 0 .. MaxActs
    /\ overtaken \in BOOLEAN /\ known \in [Tabs -> SUBSET People]

\* A tab's JavaScript runs to its end: nothing else of the tab happens between
\* a command and its last operation.
Idle(t) == plan[t] = <<>> /\ (loaded[t] => queue[t] = <<>>)
Open(t) == page[t] # "closed"
Others(t) == {o \in Tabs \ {t} : Open(o)}
Act == acts < MaxActs /\ acts' = acts + 1

Init ==
    /\ account \in Users
    /\ stored \in Identities
    /\ registry = {}
    /\ page = [t \in Tabs |-> "closed"]
    /\ loaded = [t \in Tabs |-> FALSE] /\ refreshing = [t \in Tabs |-> "no"]
    /\ user = [t \in Tabs |-> Nobody] /\ signedIn = [t \in Tabs |-> Nobody]
    /\ queue = [t \in Tabs |-> <<>>] /\ plan = [t \in Tabs |-> <<>>]
    /\ text = [t \in Tabs |-> <<>>]
    /\ held = [t \in Tabs |-> Nobody]
    /\ superseded = [t \in Tabs |-> FALSE] /\ repair = [t \in Tabs |-> FALSE]
    /\ siblings = [t \in Tabs |-> {}]
    /\ channel = [t \in Tabs |-> {}] /\ logouts = [t \in Tabs |-> FALSE]
    /\ acts = 0
    /\ overtaken = FALSE /\ known = [t \in Tabs |-> {}]

-----------------------------------------------------------------------------
(* What the app asks of analytics. *)

\* apply() of installAnalyticsIdentity: the store's user changed.
\* Mutant: a person who leaves is not reset.
NeverForgotten(previous, next) ==
    IF next \notin {Nobody, previous} THEN <<<<"identify", next>>>> ELSE <<>>
UserChanged(previous, next) ==
    (IF previous \notin {Nobody, next} THEN <<<<"reset", Nobody>>>> ELSE <<>>)
    \o (IF next \notin {Nobody, previous} THEN <<<<"identify", next>>>> ELSE <<>>)

Asks(t, commands) == queue' = [queue EXCEPT ![t] = @ \o commands]

Posted(t, m) == [o \in Tabs |-> IF o \in Others(t) THEN channel[o] \union {m}
                                ELSE channel[o]]
LoggedOut(t) == [o \in Tabs |-> logouts[o] \/ o \in Others(t)]

SignedInSomewhere == {signedIn[o] : o \in {x \in Tabs : Open(x)}} \ {Nobody}

\* bootstrapSession(): a page load restores the session, then analytics is told
\* who it is, or to forget whoever the browser still holds; after a failure that
\* judged nobody it asks the other tabs first whether they hold them.
Restore(t) ==
    /\ page[t] = "closed"
    /\ page' = [page EXCEPT ![t] = "open"]
    /\ known' = [known EXCEPT ![t] = SignedInSomewhere]
    /\ \/ /\ account # Nobody
          /\ user' = [user EXCEPT ![t] = account]
          /\ Asks(t, UserChanged(Nobody, account))
          /\ UNCHANGED channel
       \/ /\ account = Nobody
          /\ Asks(t, <<<<"forget", Nobody>>>>)
          /\ UNCHANGED <<user, channel>>
       \/ /\ channel' = Posted(t, <<"who", Nobody>>)
          /\ Asks(t, <<<<"forget unless held", Nobody>>>>)
          /\ UNCHANGED user
    /\ UNCHANGED <<browser, loaded, plan, text, held, signedIn, superseded, repair,
                   siblings, logouts, refreshing, history>>

\* The SDK arrives and reads the storage; the queue then runs in order.
SDKLoaded(t) ==
    /\ Open(t) /\ ~loaded[t]
    /\ loaded' = [loaded EXCEPT ![t] = TRUE]
    /\ held' = [held EXCEPT ![t] = stored]
    /\ UNCHANGED <<browser, page, user, queue, plan, text, signedIn, superseded, repair,
                   siblings, channel, logouts, refreshing, history, known>>

\* A page goes with its memory; what it stored stays.
Discard(t) ==
    /\ page' = [page EXCEPT ![t] = "closed"]
    /\ loaded' = [loaded EXCEPT ![t] = FALSE]
    /\ refreshing' = [refreshing EXCEPT ![t] = "no"]
    /\ user' = [user EXCEPT ![t] = Nobody]
    /\ signedIn' = [signedIn EXCEPT ![t] = Nobody]
    /\ queue' = [queue EXCEPT ![t] = <<>>]
    /\ held' = [held EXCEPT ![t] = Nobody]
    /\ superseded' = [superseded EXCEPT ![t] = FALSE]
    /\ repair' = [repair EXCEPT ![t] = FALSE]
    /\ siblings' = [siblings EXCEPT ![t] = {}]
    /\ channel' = [channel EXCEPT ![t] = {}]
    /\ logouts' = [logouts EXCEPT ![t] = FALSE]
    /\ known' = [known EXCEPT ![t] = {}]
    /\ UNCHANGED <<browser, plan, text, overtaken>>

Unload(t) ==
    /\ page[t] = "leaving" /\ Idle(t)
    /\ Discard(t)
    /\ UNCHANGED acts

CloseTab(t) ==
    /\ page[t] = "open" /\ Idle(t)
    /\ Act
    /\ Discard(t)

\* A verified sign-in replaces the session; over another person, switchIdentity()
\* hands the identity over, resets this tab and tells the others.
SignIn(t, p) ==
    /\ page[t] = "open" /\ Idle(t)
    /\ user[t] # p
    /\ Act
    /\ account' = p
    /\ user' = [user EXCEPT ![t] = p]
    /\ IF user[t] = Nobody
       THEN Asks(t, UserChanged(Nobody, p)) /\ UNCHANGED logouts
       ELSE /\ Asks(t, <<<<"yield", Nobody>>>> \o UserChanged(user[t], Nobody)
                       \o UserChanged(Nobody, p))
            /\ logouts' = LoggedOut(t)
    /\ UNCHANGED <<stored, registry, page, loaded, plan, text, held, signedIn, superseded,
                   repair, siblings, channel, refreshing, overtaken, known>>

SignOut(t) ==
    /\ page[t] = "open" /\ Idle(t)
    /\ user[t] # Nobody
    /\ Act
    /\ account' = Nobody
    /\ user' = [user EXCEPT ![t] = Nobody]
    /\ Asks(t, UserChanged(user[t], Nobody))
    /\ logouts' = LoggedOut(t)
    /\ page' = [page EXCEPT ![t] = "leaving"]
    /\ UNCHANGED <<stored, registry, loaded, plan, text, held, signedIn, superseded, repair,
                   siblings, channel, refreshing, overtaken, known>>

\* Another tab's logout ends a signed-in tab, once.
HearLogout(t) ==
    /\ logouts[t] /\ Idle(t)
    /\ logouts' = [logouts EXCEPT ![t] = FALSE]
    /\ user' = [user EXCEPT ![t] = Nobody]
    /\ Asks(t, UserChanged(user[t], Nobody))
    /\ page' = [page EXCEPT ![t] = IF user[t] = Nobody THEN @ ELSE "leaving"]
    /\ UNCHANGED <<browser, loaded, plan, text, held, signedIn, superseded, repair,
                   siblings, channel, refreshing, history, known>>

RefreshInBackground(t) ==
    /\ page[t] = "open" /\ Idle(t)
    /\ user[t] # Nobody /\ refreshing[t] = "no"
    /\ Act
    /\ refreshing' = [refreshing EXCEPT ![t] = "refresh"]
    /\ UNCHANGED <<browser, page, loaded, user, facade, channel, logouts, overtaken, known>>

\* The refresh returns this tab's user, whom the listener confirms to analytics;
\* somebody else, to whom this tab yields before it signs out; a verdict; or
\* nothing that judges anybody.  The listener leaves for the login page, as a failed
\* request does; a recovery and an emailed confirmation stay.
Leaves(t) ==
    \/ page' = [page EXCEPT ![t] = "leaving"]
    \/ refreshing[t] = "refresh" /\ UNCHANGED page
Confirmed(t) ==
    /\ account # Nobody /\ user[t] \in {Nobody, account}
    /\ user' = [user EXCEPT ![t] = account]
    /\ Asks(t, UserChanged(user[t], account)
               \o IF refreshing[t] = "recheck" THEN <<<<"confirm", account>>>> ELSE <<>>)
    /\ UNCHANGED <<page, logouts>>
SomebodyElse(t) ==
    /\ account # Nobody /\ user[t] \notin {Nobody, account}
    /\ user' = [user EXCEPT ![t] = Nobody]
    /\ Asks(t, <<<<"yield", Nobody>>>> \o UserChanged(user[t], Nobody))
    /\ Leaves(t)
    /\ UNCHANGED logouts
Ended(t) ==
    /\ account = Nobody
    /\ user' = [user EXCEPT ![t] = Nobody]
    /\ Asks(t, UserChanged(user[t], Nobody))
    /\ Leaves(t)
    /\ logouts' = IF user[t] = Nobody THEN logouts ELSE LoggedOut(t)

Refreshed(t) ==
    /\ refreshing[t] # "no" /\ Idle(t)
    /\ refreshing' = [refreshing EXCEPT ![t] = "no"]
    /\ Confirmed(t) \/ SomebodyElse(t) \/ Ended(t)
    /\ UNCHANGED <<browser, loaded, plan, text, held, signedIn, superseded, repair,
                   siblings, channel, history, known>>

RefreshFailed(t) ==
    /\ refreshing[t] # "no" /\ Idle(t)
    /\ refreshing' = [refreshing EXCEPT ![t] = "no"]
    /\ UNCHANGED <<browser, page, loaded, user, facade, channel, logouts, history, known>>

-----------------------------------------------------------------------------
(* Commands. *)

\* resetKeepingConsent()
ResetPlan(t) ==
    (IF signedIn[t] # Nobody THEN <<<<"unregister", signedIn[t]>>>> ELSE <<>>)
    \o <<<<"reset", Nobody>>>>

\* applyIdentity().  Mutant: the registry is written after identify().
LatePlan(t, u) ==
    (IF held[t] \notin {Nobody, u} THEN ResetPlan(t) ELSE <<>>)
    \o <<<<"identify", u>>, <<"register", u>>>>
IdentityPlan(t, u) ==
    (IF held[t] \notin {Nobody, u} THEN ResetPlan(t) ELSE <<>>)
    \o <<<<"register", u>>, <<"identify", u>>>>

Identify(t, u) ==
    /\ plan' = [plan EXCEPT ![t] = IdentityPlan(t, u)]
    /\ superseded' = [superseded EXCEPT ![t] = FALSE]
    /\ signedIn' = [signedIn EXCEPT ![t] = u]
    /\ UNCHANGED <<held, repair>>

\* forgetStaleIdentity(), with the answers that came since the question.
\* Mutant: a handed person is kept without an answer.
ForgetNobody(t, unlessHeld) == UNCHANGED <<plan, signedIn, held, superseded, repair>>
Forget(t, unlessHeld) ==
    /\ IF held[t] = Nobody \/ (unlessHeld /\ held[t] \in siblings[t])
       THEN UNCHANGED <<plan, signedIn>>
       ELSE /\ plan' = [plan EXCEPT ![t] = ResetPlan(t)]
            /\ signedIn' = [signedIn EXCEPT ![t] = Nobody]
    /\ UNCHANGED <<held, superseded, repair>>

\* yieldSharedIdentity(): reads the storage again first.
Yield(t) ==
    /\ held' = [held EXCEPT ![t] = stored]
    /\ superseded' = [superseded EXCEPT ![t] = @ \/ signedIn[t] \notin {Nobody, stored}]
    /\ UNCHANGED <<plan, signedIn, repair>>

\* resetAnalytics(): a superseded tab forgets its own state only.
Reset(t) ==
    /\ repair' = [repair EXCEPT ![t] = FALSE]
    /\ superseded' = [superseded EXCEPT ![t] = FALSE]
    /\ signedIn' = [signedIn EXCEPT ![t] = Nobody]
    /\ plan' = [plan EXCEPT ![t] =
          IF ~superseded[t] THEN ResetPlan(t)
          ELSE IF signedIn[t] # Nobody THEN <<<<"unregister", signedIn[t]>>>> ELSE <<>>]
    /\ UNCHANGED held

\* confirmSignedInUser().  Mutant: the tab stays superseded.
NotConfirmed(t, u) == UNCHANGED <<held, superseded, signedIn, repair, plan>>
Confirm(t, u) ==
    IF ~superseded[t] \/ signedIn[t] # u
    THEN UNCHANGED <<held, superseded, signedIn, repair, plan>>
    ELSE IF held[t] # u THEN Identify(t, u)
    ELSE /\ superseded' = [superseded EXCEPT ![t] = FALSE]
         /\ UNCHANGED <<held, signedIn, repair, plan>>

RunCommand(t) ==
    /\ loaded[t] /\ plan[t] = <<>> /\ queue[t] # <<>>
    /\ queue' = [queue EXCEPT ![t] = Tail(@)]
    /\ LET cmd == Head(queue[t])[1]
           who == Head(queue[t])[2]
       IN \/ cmd = "identify" /\ Identify(t, who)
          \/ cmd = "confirm" /\ Confirm(t, who)
          \/ cmd = "forget" /\ Forget(t, FALSE)
          \/ cmd = "forget unless held" /\ Forget(t, TRUE)
          \/ cmd = "yield" /\ Yield(t)
          \/ cmd = "reset" /\ Reset(t)
    /\ UNCHANGED <<browser, page, loaded, user, text, siblings, channel, logouts,
                   refreshing, history, known>>

-----------------------------------------------------------------------------
(* Operations on the storage the tabs share. *)

PlanGoesOn(t) == plan' = [plan EXCEPT ![t] = Tail(@)]

\* changeIdentityRegistry(): the text is read once more just before the write,
\* for up to three times, which leaves one last read with nothing after it.
\* Bound: the browser shows a write of localStorage to every tab at once.
RegistryRead(t) ==
    /\ plan[t] # <<>> /\ Head(plan[t])[1] \in {"register", "unregister"}
    /\ text[t] = <<>>
    /\ text' = [text EXCEPT ![t] = <<registry>>]
    /\ UNCHANGED <<browser, page, loaded, user, queue, plan, held, signedIn, superseded,
                   repair, siblings, channel, logouts, refreshing, history, known>>

RegistryWritten(t) ==
    /\ text[t] # <<>>
    /\ registry' = IF Head(plan[t])[1] = "register" THEN text[t][1] \union {Head(plan[t])[2]}
                   ELSE text[t][1] \ {Head(plan[t])[2]}
    /\ overtaken' = (overtaken \/ registry # text[t][1]
                     \/ \E o \in Tabs \ {t} : signedIn[o] \in registry \ registry')
    /\ text' = [text EXCEPT ![t] = <<>>]
    /\ PlanGoesOn(t)
    /\ UNCHANGED <<account, stored, page, loaded, user, queue, held, signedIn, superseded,
                   repair, siblings, channel, logouts, refreshing, acts, known>>

\* identify() and reset() change the tab's identity and the stored one; posthog
\* need not store again what the tab already held.  An identity is announced.
IdentityWritten(t) ==
    /\ plan[t] # <<>> /\ Head(plan[t])[1] \in {"identify", "reset"}
    /\ LET id == Head(plan[t])[2]
       IN /\ held' = [held EXCEPT ![t] = id]
          /\ stored' \in (IF held[t] = id THEN {id, stored} ELSE {id})
          /\ known' = [o \in Tabs |-> IF Open(o) /\ id # Nobody THEN known[o] \union {id}
                                      ELSE known[o]]
          /\ IF id = Nobody THEN UNCHANGED channel
             ELSE channel' = Posted(t, <<"identified", id>>)
    /\ PlanGoesOn(t)
    /\ UNCHANGED <<account, registry, page, loaded, user, queue, text, signedIn, superseded,
                   repair, siblings, logouts, refreshing, history>>

-----------------------------------------------------------------------------
(* What a tab learns of the others. *)

\* A question is answered by a tab that holds its person undisputed.
HearNews(t) ==
    /\ Idle(t)
    /\ \E m \in channel[t] :
          IF m[1] = "who"
          THEN /\ UNCHANGED siblings
               /\ channel' = [IF signedIn[t] = Nobody \/ superseded[t] THEN channel
                              ELSE Posted(t, <<"identified", signedIn[t]>>)
                                EXCEPT ![t] = @ \ {m}]
          ELSE /\ siblings' = [siblings EXCEPT ![t] = @ \union {m[2]}]
               /\ channel' = [channel EXCEPT ![t] = @ \ {m}]
    /\ UNCHANGED <<browser, page, loaded, user, queue, plan, text, held, signedIn,
                   superseded, repair, logouts, refreshing, history, known>>

\* The SDK takes over what another tab or site stored.
Adopt(t) ==
    /\ loaded[t] /\ Idle(t)
    /\ held[t] # stored
    /\ held' = [held EXCEPT ![t] = stored]
    /\ UNCHANGED <<browser, page, loaded, user, queue, plan, text, signedIn, superseded,
                   repair, siblings, channel, logouts, refreshing, history, known>>

\* isSiblingIdentity().  Mutant: the registry is not read.
OnlyHeard(t, id) == id \in siblings[t]
IsSibling(t, id) == id \in siblings[t] \union registry

\* supersede(); within five seconds of the last time it does nothing more.
Supersede(t) ==
    /\ superseded' = [superseded EXCEPT ![t] = TRUE]
    /\ refreshing' = [refreshing EXCEPT ![t] = "recheck"]

\* guardEvent(): the event is dropped when the SDK's identity is not this tab's
\* user; when another tab of the app took it this tab is superseded, otherwise
\* the identity is repaired a little later.
EventDropped(t) ==
    /\ loaded[t] /\ Idle(t)
    /\ signedIn[t] \notin {Nobody, held[t]}
    /\ IF superseded[t] \/ IsSibling(t, held[t])
       THEN Supersede(t) /\ UNCHANGED repair
       ELSE /\ repair' = [repair EXCEPT ![t] = TRUE]
            /\ UNCHANGED <<superseded, refreshing>>
    /\ UNCHANGED <<browser, page, loaded, user, queue, plan, text, held, signedIn, siblings,
                   channel, logouts, history, known>>

\* It is sent otherwise; a superseded tab whose user is back is no longer so.
EventSent(t) ==
    /\ loaded[t] /\ Idle(t)
    /\ signedIn[t] \in {Nobody, held[t]}
    /\ superseded' = [superseded EXCEPT ![t] = FALSE]
    /\ UNCHANGED <<browser, page, loaded, user, queue, plan, text, held, signedIn, repair,
                   siblings, channel, logouts, refreshing, history, known>>

\* The repair timer: a foreign identity that still stands is replaced.
RepairFires(t) ==
    /\ repair[t] /\ Idle(t)
    /\ repair' = [repair EXCEPT ![t] = FALSE]
    /\ IF superseded[t] \/ signedIn[t] \in {Nobody, held[t]}
       THEN UNCHANGED <<plan, superseded, refreshing>>
       ELSE IF IsSibling(t, held[t])
       THEN Supersede(t) /\ UNCHANGED plan
       ELSE /\ plan' = [plan EXCEPT ![t] = IdentityPlan(t, signedIn[t])]
            /\ UNCHANGED <<superseded, refreshing>>
    /\ UNCHANGED <<browser, page, loaded, user, queue, text, held, signedIn, siblings,
                   channel, logouts, history, known>>

-----------------------------------------------------------------------------
(* The outside. *)

\* A site on the same cookie identifies its visitor, or resets.
WebsiteWrites ==
    /\ Act
    /\ stored' \in {Website, Nobody} \ {stored}
    /\ UNCHANGED <<account, registry, page, loaded, user, facade, channel, logouts,
                   refreshing, overtaken, known>>

SessionEnds ==
    /\ Act
    /\ account # Nobody
    /\ account' = Nobody
    /\ UNCHANGED <<stored, registry, page, loaded, user, facade, channel, logouts,
                   refreshing, overtaken, known>>

\* An entry counts for a minute: past every repair and message that is about it.
RegistryExpires(p) ==
    /\ p \in registry
    \* bound: no tab stalls for a minute with a repair, a message or a command to go
    /\ \A t \in Tabs : ~repair[t] /\ text[t] = <<>> /\ channel[t] = {}
                       /\ plan[t] = <<>>
    /\ registry' = registry \ {p}
    /\ UNCHANGED <<account, stored, page, loaded, user, facade, channel, logouts,
                   refreshing, history, known>>

Next ==
    \/ \E t \in Tabs :
          \/ Restore(t) \/ SDKLoaded(t) \/ Unload(t) \/ CloseTab(t)
          \/ SignOut(t) \/ HearLogout(t)
          \/ RefreshInBackground(t) \/ Refreshed(t) \/ RefreshFailed(t)
          \/ RunCommand(t)
          \/ RegistryRead(t) \/ RegistryWritten(t) \/ IdentityWritten(t)
          \/ HearNews(t) \/ Adopt(t)
          \/ EventDropped(t) \/ EventSent(t) \/ RepairFires(t)
          \/ \E p \in People : SignIn(t, p)
    \/ \E p \in People : RegistryExpires(p)
    \/ WebsiteWrites \/ SessionEnds

Spec == Init /\ [][Next]_vars

\* A command goes on to its end, an event loop serves its messages, timers and
\* navigations, a page that is open goes on sending events, and the refresh that
\* an event of a superseded tab asks for does not fail for ever.  A tab does not
\* for ever find the storage between the two writes of another tab's command,
\* which that tab makes in one go.
Glimpse == \E t, o \in Tabs : Adopt(t) /\ plan[o] # <<>>

Fairness ==
    /\ \A t \in Tabs :
          /\ WF_vars(SDKLoaded(t)) /\ WF_vars(RunCommand(t)) /\ WF_vars(RegistryRead(t))
          /\ WF_vars(RegistryWritten(t)) /\ WF_vars(IdentityWritten(t))
          /\ WF_vars(Unload(t)) /\ WF_vars(HearNews(t)) /\ WF_vars(HearLogout(t))
          /\ WF_vars(Adopt(t)) /\ WF_vars(EventDropped(t)) /\ WF_vars(RepairFires(t))
          /\ WF_vars(EventSent(t)) /\ SF_vars(Refreshed(t))
    /\ <>[][~Glimpse]_vars

FairSpec == Spec /\ Fairness

-----------------------------------------------------------------------------
(* Properties. *)

\* Analytics follows the store (session.ts:145-180): once nothing is queued, the
\* person a tab sends events as is its own user, whatever was superseded,
\* repaired, yielded or confirmed on the way.
InStep == \A t \in Tabs : loaded[t] /\ Idle(t) => signedIn[t] = user[t]

\* A tab where nobody is signed in never sends events as an earlier visitor
\* (telemetry.ts:684-711): a person its SDK holds was signed in, in some tab,
\* during the life of this page.
NoStranger ==
    \A t \in Tabs :
        loaded[t] /\ Idle(t) /\ user[t] = Nobody /\ held[t] \in People
            => held[t] \in known[t]

\* Whose events a tab sends (telemetry.ts:550-588): its own user's, or those of
\* nobody it has not seen here.
Attributed == TypeOK /\ InStep /\ NoStranger

\* Tabs do not fight over the identity: a tab neither sets its repair timer against a
\* tab that holds the identity it sees, nor lets the timer take that identity from it
\* (telemetry.ts:467-500, 550-588), unless a registry write undid another tab's.  What
\* a tab sees is what its SDK took over last: an identity stored since then, it does
\* replace unseen, and the tab it was taken from stands aside.  A tab whose own
\* identify() is under way has not told of it yet, and stores it again.
Arms(t) == ~repair[t] /\ repair'[t]
Takes(t) ==
    /\ repair[t] /\ ~repair'[t] /\ queue'[t] = queue[t]
    /\ plan[t] = <<>> /\ plan'[t] # <<>>
Identifies(o) == \E i \in DOMAIN plan[o] : plan[o][i][1] = "identify"
Holds(o) ==
    signedIn[o] \in People /\ held[o] = signedIn[o] /\ ~superseded[o] /\ ~Identifies(o)
RepairSpares ==
    [][\A t \in Tabs : Arms(t) \/ Takes(t) =>
          overtaken \/ \A o \in Tabs \ {t} : Holds(o) => signedIn[o] # held[t]]_vars

\* Once the outside stops, the tabs agree (telemetry.ts:467-500, 844-864): every
\* tab left signed in has the same user, and the identity is theirs.
Agreed ==
    \A t, o \in Tabs :
        Open(t) /\ Open(o) /\ user[t] # Nobody /\ user[o] # Nobody =>
            user[t] = user[o] /\ held[t] = user[t] /\ ~superseded[t]
AllSettle == <>[]Agreed
=============================================================================
