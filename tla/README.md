# Formal models of react-boilerplate

TLA+ modules that model the parts of this web app in which something can go
wrong *over time*: the browser session shared by its tabs, the notification
stream, optimistic writes, step-up confirmations, checkouts, maintenance mode,
the error reporter, the analytics identity that all tabs share, the measures of
a page, and the pages that wait to be signed in.  TLC model-checks them on small
instances; TLAPS proves the safety properties of the session, the stream, the
inbox, step-up, checkout, maintenance mode, the page measures and the sign-in pages
for every value of the constants.

Paths below are relative to the repository (`src/http/session.ts` is the file of
that name in the app's own `src/`); modules cite the lines they model by file
name.

    tlc -config SessionTurns.cfg MCSession      # any run: its cfg, its MC module
    tlapm Session_proofs.tla                    # any *_proofs module

Contents: [1 the system](#1-the-system) · [2 the modules](#2-the-modules) ·
[3 the runs](#3-the-runs) · [4 the proofs](#4-the-proofs) ·
[5 where code and words disagree](#5-where-code-and-words-disagree) ·
[6 what is not modelled](#6-what-is-not-modelled) · [7 the plan](#7-the-plan)

## 1 The system

A single-page React app (TanStack Router and Query, zustand stores, axios) over
an API this repository does not contain.  There is no backend code here:
everything that is hard in this code comes from

* **many tabs**, which share a refresh cookie, BroadcastChannels, Web Locks and
  localStorage, and nothing else;
* **awaits**: a function continues after an answer in a page whose user, route,
  token, dialog or cached data is no longer what it was before;
* **answers that are lost, late, or out of order**, and writes of which the app
  cannot know whether they happened;
* **pages that go away** in the middle of any of it.

### 1.1 Components

For each: the state it keeps; its operations; what makes it hard; what makes it
correct.  `PROJECT.json` lists the same parts with their files.

**Session** (`http/refresh-core.ts`, `http/session.ts`, `http/interceptors.ts`,
`http/auth-verdict.ts`, `states/auth.store.ts`, `queries/auth.queries.ts`,
`router.tsx`).  *State*: per tab the access token and user in memory, one
`inFlight` refresh with its callers, requests that wait to be replayed; per
browser the refresh cookie, the Web Lock `auth-refresh`, the `auth`
BroadcastChannel.  *Operations*: restore at load, `ensureSession`, the 401
interceptor and its replay, sign-in, sign-out, `switchIdentity`, hearing
`logout` / `signed_in`.  *Hard*: the API rotates the refresh token at each use
and revokes the session if a used one comes back after a grace window, and every
tab uses the same cookie; identity can change during any await.  *Correct*: a
browser does not get its own session revoked; every caller of a refresh is
answered; nothing of one person reaches another.

**Notification stream** (`hooks/use-notifications.ts`, `http/sse.ts`).  *State*:
the effect's run (its token), its fetch, timer, and refs for backoff and the last
event id.  *Operations*: the effect and its cleanup, connect, refusals, drops,
reconnect by timer and refresh, frames.  *Hard*: the reconnect's own refresh
changes the token the effect depends on, so cleanup and continuation race.
*Correct*: one stream, always a way back to one, no stale cache under it.

**Inbox** (`queries/notification.queries.ts`).  *State*: cached list pages per
filter, their reads, the writes in flight with snapshots.  *Operations*: mark
read, mark all, delete; rollback; the refetch left to the last write.  *Hard*: a
rollback may undo another write's edit; reads cross writes.  *Correct*: edits
stand while their write runs; everything converges to the server.

**Step-up** (`components/features/step-up/`, `lib/step-up*.ts`,
`queries/step-up.queries.ts`, `pages/auth/confirm.tsx`).  *State*: the waiters
of actions refused as too old a sign-in, the dialog's view, a passkey attempt, a
mailed link, a Web Lock that says "a tab waits", a confirm page in another tab
and its channel.  *Hard*: two ways to confirm, two tabs, and refreshes already
in flight that bring tokens from before the confirmation.  *Correct*: nobody is
forgotten; a confirmation is a newer sign-in and nothing else is; the confirm
page is right about who waits.

**Checkout** (`hooks/use-checkout-flow.ts`, `lib/razorpay-checkout.ts`,
`queries/billing.queries.ts`).  *State*: a flow's status and goal, the line it
shows and the subscription it was written against, the cached billing view, the
shared script.  *Operations*: start, the payment window's outcomes, confirm,
poll, wait, clear.  *Hard*: money moves elsewhere (Razorpay, a webhook), and the
view can come from four sources.  *Correct*: a payment taken is never told as an
error; success is told when and only when the change is there.

**Maintenance mode** (`lib/maintenance-*.ts`, `states/maintenance-mode.store.ts`,
`queries/maintenance-status.queries.ts`, `components/features/maintenance/`).
*State*: the mode with its message and start, reports in memory and
sessionStorage.  *Operations*: every answer's header, a 503's body, the status
read and its polls, the recovery when `full` ends.  *Hard*: answers of several
periods land in any order.  *Correct*: the notice fits the mode; the screen
leaves; nobody sees the app without a user.

**Error reporter** (`observability/errors/`, `observability/identity-epoch.ts`).
*State*: a buffer before its chunk loads, throttle counts, a queue, events that
wait for an identity, requests, retries, the keepalive quota.  *Hard*: page
hides, retries, identity and timers all compete for the same event.  *Correct*:
never twice but for a retry, never in another's name, never held for ever.

**Analytics identity** (`observability/telemetry/`, and its part of
`http/session.ts`).  *State*: per tab what its SDK holds in memory, whom the tab
identified, whether another tab superseded it, a repair timer, the identities of
siblings it heard of; per browser the SDK's stored identity, a registry in
localStorage, a channel.  *Operations*: identify, reset, yield, confirm and
forget, each a plan of storage operations; the guard of every event; repair.
*Hard*: storage has no compare-and-set, tabs run in parallel, and one cookie is
everybody's identity.  *Correct*: no event in another's name; tabs that have
heard everything agree; a repair takes nothing from a sibling.

**Feature flags and page analytics** (`observability/flags/`,
`observability/route-telemetry.ts`).  *State*: the flag values cached per scope,
the properties registered from them, the tenant group of events, a queue of page
views that wait for their tenant.  *Operations*: loaders, commits and resolves of
the router; reads that land; waits that end; identity changes.  *Hard*: every
read may outlast the page it was started for.  *Correct*: a page is measured
with its own tenant's group and its own person's flags, or with none.

**Passkey prompts** (`lib/webauthn.ts`, `hooks/use-passkey-autofill.ts`,
`components/features/auth/passkey-sign-in.tsx`).  *State*: the browser's one
pending request, a cancel count, the effect's run and its ref.  *Hard*: a request
is cancelled while its options are fetched; runs are cleaned up before their
microtask; a button's sheet and autofill take turns.  *Correct*: the pending
request is the page's own; the sheet a person opened is not taken away.

**Sign-in, link pages and invitations** (`pages/_auth/`, `pages/auth/`,
`pages/invitations/`, `hooks/use-signed-in-elsewhere.ts`).  *State*: the view of
a page that mailed a link, a listener and its restore.  *Hard*: the link is opened
in another tab, whose message says neither who nor how.  *Correct*: the waiting
tab follows, only while it waits, and claims only what is so.

**Passkey setup** (`lib/passkey-setup.ts`), **current tenant**
(`lib/current-tenant.ts`), **list URL state** (`components/shared/data-table/`),
**command palette**: each keeps a little state across awaits or navigations.  Not
modelled yet; section 7.

Everything else (forms over one query, billing pages, the UI kit, schemas,
formatting, build scripts, nginx) keeps no state over time beyond the query
cache, or none.

### 1.2 How they interact

* Everything that sends a request goes through the 401 interceptor, so through
  `ensureSession()`; the stream, the step-up dialog, analytics and the
  maintenance recovery call `ensureSession()` themselves.  Only Session models
  that refresh in full.  The others model what they can see of it: it settles
  with a token, a verdict, or another failure, for whoever awaits it, and other
  callers may start it first.
* The auth store's token is the dependency of the stream's effect.
* Stream frames invalidate the notification pages (Inbox: `FrameHeard`) and the
  billing view (Checkout: `Told`).
* A step-up confirmation and a sign-in both change the token and tell the other
  tabs through BroadcastChannels.
* The maintenance recovery runs the session's restore and the router's guards
  again.
* Identity changes (sign-in, sign-out) bump the epoch that the error reporter
  compares, are commands to the analytics identity (AnalyticsIdentity), and empty
  the flags and the tenant group (PageAnalytics: `Forget`).
* A sign-in of any tab is broadcast; a page that waits for it restores the session
  (SignIn: `HearMessage`), its autofill and its sheets being PasskeyPrompt's,
  which SignIn extends: the field of the one is the view of the other.

## 2 The modules

| module | models | kept with it |
|---|---|---|
| `Session` | the session in any number of tabs, with the API's rotation | `MCSession`, `Session_proofs` |
| `RefreshTurns` | what the tabs' refreshes promise: turns | implemented by `Session` (`Turns`) |
| `NotificationStream` | the stream hook of one page, across page loads | `MCNotificationStream`, `Notifications_proofs` |
| `Inbox` | optimistic writes over two cached pages | `MCInbox`, `Notifications_proofs` |
| `StepUp` | the asking tab and the confirm page | `MCStepUp`, `StepUp_proofs` |
| `Checkout` | two flows over one cached view | `MCCheckout`, `Checkout_proofs` |
| `Maintenance` | one tab, across reloads | `MCMaintenance`, `Maintenance_proofs` |
| `ErrorReporter` | one page's errors | `MCErrorReporter`, `Observability_proofs` |
| `AnalyticsIdentity` | the analytics identity of any number of tabs | `MCAnalyticsIdentity`, `AnalyticsIdentity_proofs` |
| `PageAnalytics` | tenant group, flags and registered features of one tab | `MCPageAnalytics`, `Observability_proofs` |
| `PasskeyPrompt` | the passkey requests of the sign-in page | extended by `SignIn` |
| `SignIn` | a tab that waits to be signed in, and the tabs that sign it in | `MCSignIn`, `SignIn_proofs` |

Common conventions.  One step is one uninterrupted run of the page's JavaScript,
from an event or an answered await to the next await, together with everything
that run does; or one decision of a server; or one thing a browser does.
Requests in flight are records: sent, then served (the server decides, and that
is when its state changes), then landed (the page hears it) or lost.  What is
not in this repository is external and is modelled by how this code uses it.
Variables marked *history* in a module record what happened for a property to
speak of; no guard of the modelled code reads them.  Definitions marked `Mutant`
are forms of another definition with a plausible bug in it, used to see that a
property notices; no specification uses them.

### 2.1 Session

An access token is modelled by the session it was issued for, and a refresh
token by its session and its age in the rotation: `current`, `grace` (used, and
the API still answers it with a sibling), `reused` (used, and the API revokes
the session).  Copies of a refresh token are in the cookie jar, in posts and
answers on the wire, and in the posts of pages that are gone (`orphans`).

| code | actions |
|---|---|
| `bootstrapSession` (router.tsx) | `Load`, then a refresh for the caller `boot`, `Bootstrapped` |
| `ensureSession`, `inFlight` (refresh-core.ts) | `Join`: join the refresh, or start one and queue on the lock |
| `acrossTabs` (session.ts) | `LockGranted`, `Released`; with `UseLock = FALSE` the post goes out at once |
| `refreshSession` | `RefreshAnswered`, `ProfileAnswered`, `RefreshLost`, `Abandon` (the post timed out), `FailRefresh`, `Settled`; `Verdict`, with whom it is announced to (`Announces`) and what becomes of the page (`PageAfterVerdict`) |
| the stream's, analytics' and step-up's refreshes | `RefreshInBackground`: they leave for `/login` on a verdict |
| the recovery from maintenance, the emailed confirmation | `RefreshToRecover`: they swallow it, and the page is `kept` |
| the request and response interceptors | `SendRequest`, `RequestSucceeded`, `RequestRejected`, `RequestExpired` (wait for the refresh and replay once), `RequestRefused` (another 401 signs out), `WaiterRejected` |
| sign-in (`switchIdentity`) | `SendVerify`, `VerifyAnswered`, `VerifyFailed` |
| `useLogout` | `SendLogout`, `LogoutAnswered`, `LogoutFailed` |
| the auth channel | `Broadcast`, `HearMessage` |
| `redirectToLogin` | a page becomes `leaving`, then `Unload`; a `kept` page stays `Open`, with its memory |
| the browser and the API | `CloseTab`, `ServeRefresh`, `ServeOrphan`, `GraceEnds`, `SessionEnds` |

`RefreshTurns` is the abstract specification: a tab's refresh waits or works, at
most one works, whoever waits and stays gets a turn.  The run `session_turns`
checks `EveryTurnComes == Turns!FairSpec` with
`Turns == INSTANCE RefreshTurns WITH ...`, mapping the stages of `refresh`.

Fairness: the Web Lock is granted to a waiting tab again and again
(`SF LockGranted`: a lock manager's queue is first in first out, and a tab may
leave the queue, so weak fairness would say too little); the API answers or the
30-second axios timeout gives up (`WF ServeRefresh`, with `Abandon` as the
alternative); a page continues when an answer, an unload or a message is there
(`WF` of `RefreshAnswered`, `ProfileAnswered`, `Unload`, `HearMessage`).

A 401 of the profile is a verdict whether the session is over or a clock takes the
token it has just minted for an expired one (`skew` in `Activity`); a 401 of the
sign-out ends the session in this browser and nowhere else.

Bounds: `MaxMessages` undelivered messages per tab; `Activity`, which says which
tab may do what, keeps an instance to the question it is asked.

### 2.2 NotificationStream

`run` is the token of the effect run that is up, `conn` the fetches of this and of
cancelled runs (`Slots`), `abort` the one whose controller the run holds, `waiters`
who awaits the refresh: the run, an earlier run, another request. `EffectRuns` is
cleanup and effect together, as React runs them.  `Quiet` states an ordering the
browser guarantees and the code relies on: React's re-render after a store change
and the promise continuations of one answer come before the next timer or network
task.  A page that is asked to leave for `/login` is `leaving` until `NextPage`.
`Frame` invalidates and refetches at once: the reads that an invalidation starts are
Inbox's (`FrameHeard`).  The SSE parser is abstracted to the frames it yields; a
line too long for its buffer ends the stream like any drop.  Backoff is doubled
between `InitialBackoff` and `MaxBackoff`, counted in units.

Fairness: the effect runs, timers fire, a Retry-After runs out, a refresh
settles; and, strongly, a server asked again and again accepts at last and a
refresh the stream waits for succeeds at last.  These last two are the premise
of liveness, not a guarantee of the code: without them the claim is that the
stream keeps trying, which is what `NeverParked` says.

### 2.3 Inbox

Two cached pages: all notifications, and the unread ones cut to one row with the
capped total the bell shows.  A write's record and its snapshot follow
`onMutate` (`StartWrite`: cancel the reads, snapshot, edit), the server
(`WriteServed`: applied or not) and `onSettled` (`SettleWrite`: roll back or
leave that to the last write, then refetch).  `setQueryData` clears a page's
invalid mark, as the query client does.  A page is read again when it is marked
stale, which is what the code asks for; focus refetches are left out.

### 2.4 StepUp

`auth_time` is the number of confirmations so far.  The tab's part is the
provider (`Start`, `Settle`, `RetryAtOnce`, `Ask`, `Surface`, `Finish`), the
dialog's lazy chunk, its body from mount to unmount (`MountBody`,
`UnmountBody`), its passkey attempts (`PromptPasskey`, `OptionsArrive`,
`PromptAnswered`, and the posted answers in `verify`: of the current attempt, of
a superseded one, of one whose dialog is gone), its links (`SendLink`,
`LinkMailed`, `LinkRefused`) and the resume (`Hear`, `Resume`, `LastTry`,
`RefreshLands`, `TryAgain`).  The confirm page is `OpenLink` to `PostFails`,
with what it read of the wait lock.  The sign-in the page was loaded with may be
recent or already too old (`threshold` in `Init`).  Bounds: `MaxConfirms`; one
superseded and one orphaned passkey answer; time passes only with no request in
flight.  An action's request and the API's refusal of it are one step with its
answer.

### 2.5 Checkout

`server` is the subscription, `payment` what Razorpay took for a flow's checkout
and whether it counts yet, `cache` the billing view on screen, `flow` where each
hook instance is.  The poll's pause and read are `Tick` and the shared billing
read; `See` is everything that happens when a view is stored, in the order of
React's effects: the line of another subscription is cleared, a wait that is
reached is finished.  A read and a confirm are answered by the API in one step
(`ReadServed`, `ConfirmServed`) and seen by the page in a later one (`ReadLands`,
`ConfirmAnswered`), with any other step between: a click may come while a view from
before it is on its way (`OnTheirWay`).  A confirm may be refused although the webhook
has applied the payment.  `Elsewhere` is other hands on the subscription: another
owner, a charge, the end of a period.  `touched` (history) records that they changed
it during a flow, or that at its click a view was on its way that shows the very
change it asks for, undone by them since (`UndoneOnItsWay`).  Fairness: reads,
confirms and the webhook arrive in the end, and the poll's clock ticks.

### 2.6 Maintenance

Periods are numbered; each has one mode, and its message and start time are its
number.  Every answer carries the period it was served in and lands in any
order.  `app` is how far the load is: `booting` (the guards have not run),
`loading` (`router.load` is done, the gate is not mounted), `mounted`.  A
recovery is at one of three stages, and several may be under way.  A reload
forgets the store and the memory marks and keeps sessionStorage.  Fairness: the
guards finish, the app mounts, polls fire, and reads are served and land
(strongly: any one may fail).

### 2.7 ErrorReporter

Errors have a size and a fingerprint; `reporter` is the chunk's state (queue,
events that await an identity, counts, the keepalive bytes, requests in flight).
An event's `name` is the epoch of the identity put on it, or `Anonymous`.
Limits are constants kept small.  Requests in flight and batches that wait for a
retry are sets: nothing is lost in them, since no error is in two of them (proved,
section 4).  `tries` (history) counts the requests and beacons that carried an
error.  Names that another module could have are the reporter's own here
(`ReporterInit`, `ReporterSpec`, `IdleLoad`), because one proof module extends both
this one and PageAnalytics.  Fairness: the cap on the wait for analytics and the
flush timer fire.

### 2.8 AnalyticsIdentity

A facade call is a command in the tab's `queue` (it waits there until the SDK has
loaded); a command that touches storage becomes a `plan` of operations, one step
each, because other tabs run between them; everything else a tab does is one
step, after its plan is done (`Idle`).

| code | actions |
|---|---|
| `bootstrapSession`, `installAnalyticsIdentity` (session.ts) | `Restore`, `SignIn`, `SignOut`, `HearLogout`, `Refreshed`, `RefreshFailed`, `UserChanged` |
| `identify`, `reset`, `yield`, `confirm`, `forget` (telemetry.ts) | `RunCommand` with `Identify`, `Reset`, `Yield`, `Confirm`, `Forget` |
| `changeIdentityRegistry` | `RegistryRead`, `RegistryWritten`: the last of its reads, and the write |
| posthog's `identify()` and `reset()` | `IdentityWritten`, `Adopt` (the stored identity is read again) |
| the channel's `identified` and `who` | `HearNews`: a set of messages, since hearing one twice or in another order tells nothing new |
| `guardEvent`, the repair timer | `EventDropped`, `EventSent`, `RepairFires`, with `Supersede` |
| other pages, other sites, the API | `Unload`, `CloseTab`, `WebsiteWrites`, `SessionEnds`, `RegistryExpires` |

A refresh is `refreshing` for analytics' own listener (`recheck`: its answer is
confirmed to analytics, and a verdict leaves the page) or for another caller
(`refresh`: `Leaves` allows both, for the callers that swallow a verdict).

A repair takes its decision by what the tab's SDK last took over (`held`), not by
what the storage has: `supersede` and the timer (telemetry.ts:470-481) read
`get_distinct_id()`, which is the memory of that tab.  `RepairSpares` is about that
decision: no tab arms or takes up a repair against an identity *it sees* and
another tab holds.  An identity stored since it last looked is
replaced unseen; the tab that loses it drops its events and stands aside, which is
what `Attributed` and `AllSettle` go on to show (section 5).

`overtaken` (history) records that a write of the registry undid another tab's,
which three reads make rare and cannot exclude; `RepairSpares` exempts what
follows from it.  It also exempts a holder whose own `identify()` is under way: the
registry may have lost or not yet have its name, and it stores its identity again
with its next operation (three tabs are needed: one repairs, one is read as the
holder while it is in the middle of an `identify()` of the same person, which a
third one held before).  Bounds in the guards: a registry entry expires only when no
repair, registry write or message is under way, which is when no tab stalls for
a minute; and a write of localStorage is seen by every tab at once.  Everybody has
opted in: consent, the tenant group, feature
properties and the cap on queued commands are left out.  Bound: `MaxActs` sign-ins,
sign-outs, closed tabs, background refreshes, foreign identities and ended
sessions altogether.  Fairness: a plan and a queue go on; messages, timers and
unloads are served; an open page goes on sending events; the refresh that a
superseded tab's events ask for, again and again, does not fail for ever
(`SF Refreshed`: without it the tabs may disagree for as long as the API is
down).  A tab does not for ever read the storage in the instant between the two
writes of a sibling's command (`Glimpse`).

### 2.9 PageAnalytics

`page` and `nav` are the router's committed location and the destination whose
loaders run; `Navigate`, `Commit` (onLoad) and `Resolve` (onResolved) are its
three moments, and `RouteAnalytics`, `FlagScopeReset` and `SyncFeatures` what the
code hangs on them.  `queue` is the promise chain of page views, each waiting for
its tenant's detail (`TenantLands`, `DetailRemoved`) or cut by the ten second timer
(`WaitEnds`) or by another tenant's page; `TakeTurn` is a link of the chain.
`flags` and `fetch` hold whose values are cached for a scope and whose read is in
flight; removing a query cancels its read.  The router may hand a loader the data
it kept from the last load (`promise`).  Bounds: `MaxNavs`, `MaxSwitches`.
Fairness: microtasks run and timers fire; no read need ever be answered.

### 2.10 PasskeyPrompt and SignIn

A request of `prompt` is the live run's (`autofill`), one that was cleaned up
before its microtask (`discarded`) or while its pick was verified (`late`), the
button's, or that of a button that is gone (`old`).  A request that was cancelled
while its options are on the way is `stale` and never opens.

| code | actions |
|---|---|
| `usePasskeyAutofill`: effect, microtask, cleanup, catch | `Learn`, `Begin`, `Discard`, `Run`, `CleanedUp`, `Caught`, `Lose` |
| `startPasskeyPrompt`, `cancelPasskeyPrompt` (webauthn.ts) | `Open`, `Cancelled`, `Aborted` |
| `PasskeySignIn` (`Verified` lands also when the button has gone: passkey-sign-in.tsx:43) | `Click`, `Settle`, `Dismiss`, `Pick`, `Verified`, `VerifyFails`, `Fails` |
| the email form, the inbox, leaving | `FieldHides`, `FieldShows`, `PageLeaves`, within SignIn's `Mailed`, `ChangeEmail`, `Leave` |
| `SignInLinkForm`, `accept.tsx` | `Send`, `Preview`, `PostServed`, `Mailed`, `PostFails`, `Dead` |
| `useSignedInElsewhere` | `HearMessage`, `RestoreServed`, `RestoreAnswers`, `RestoreFails`; `JoinLands`, for the invitation page's claim once the tenant is read again, which lands even if the person has left the page (accept.tsx:329) |
| `pages/auth/link.tsx`, `pages/invitations/confirm.tsx` in another tab | `OpenMail`, `SwitchAccount`, `LinkServed`, `LinkAnswered`, `LinkLost` |
| the browser's other tabs | `SignsInElsewhere`, `SignsOutElsewhere` |

Histories: `unasked` (autofill told of a failure nobody picked a passkey for),
`heard` (a message is still to be acted on), `strays` (the invitee was signed in by
something other than the mailed link).  Bounds: `MaxMessages`, one old sheet, one
late verify; whose passkey it is does not matter on the sign-in page.  Fairness:
messages are delivered, and a restore is served and settles.

## 3 The runs

All runs are exhaustive for their constants.  Times are of two TLC workers.

| run | instance | distinct states | checks |
|---|---|---|---|
| `session_turns` | 2 tabs, 1 session, Web Locks; sign-out, closing, background refreshes, the API ending the session | 78 k, 45 s | `TypeOK` `RevokedOnlyAfterLostAnswer` `AllAnswered` `EveryTurnComes` |
| `session_people` | 2 tabs, 2 people with a session each, Web Locks; one tab works, recovers and may sign in while it refreshes, the other signs out, and its fresh tokens may be refused | 4.5 M, 125 s | `OwnData` `AnnouncedOnlyWhenGone` |
| `stream` | 2 tokens, 2 fetches, backoff up to 3 | 38 k, 28 s | `StreamKept` `CaughtUp` `BackoffHolds` `StreamReturns` |
| `inbox` | 2 notifications (one arrives later), count capped at 1, 2 writes of 3 kinds at once | 3.5 M, 90 s | `InboxSettled` `EditsStand` `EditsCount` |
| `stepup` | 2 interchangeable actions, 1 confirmation, passkeys, links, background refreshes and a third tab | 2.8 M, 85 s | `WaitersKept` `LockMeansAction` `ConfirmedMeansFresh` `AsksOnlyIfStale` `GenuineResumes` |
| `checkout` | the page's and the banner's flow, 2 purposes, the page may be left, 1 poll | 637 k, 120 s | `DoneMeansApplied` `TakenStays` `LinesKept` `PaidIsTold` |
| `maintenance` | 1 call and the status read, 3 periods, 1 reload | 423 k, 35 s | `NoticeKept` `HeaderStands` `NobodysPage` `FullEnds` |
| `maintenance_off` | the same, no reload | violation | `OffStands` |
| `errors` | 4 errors of 2, 1, 3 and 4 bytes, batches of 3, quota of 4, 1 identity change, 1 hide | 195 k, 115 s | `BytesKept` `TwiceAtMost` `OwnName` `EveryErrorGoes` |
| `analytics` | 2 tabs, 2 people and a foreign site, 1 act beyond the loads | 490 k, 46 s | `Attributed` `RepairSpares` `AllSettle` |
| `pages` | 2 tenants, home and a link page, 2 people, 3 navigations, 1 sign-in | 2.8 M, 135 s | `PageGrouped` `PageFlagged` `ViewsGo` |
| `signin` | 2 people, both kinds of page, 1 message on its way | 1.4 M, 120 s | `PromptsKept` `ClaimsFit` `SheetStands` `Followed` |

Several properties are conjunctions of named parts that the modules state one by
one: `AllAnswered` is `RefreshSettles` and `ReplaySettles`; `OwnData` is
`ReplayedAsItself` and `CacheIsOwn`; `StreamKept` is `TypeOK`, `OneStream` and
`NeverParked`; `InboxSettled` is `TypeOK` and `Converged`; `WaitersKept` is `TypeOK`
and `NobodyForgotten`; `LinesKept` is `TypeOK` and `LineFits`; `NoticeKept` is
`TypeOK`, `NoticeFits` and `ReportedOncePerLoad`; `BytesKept` is the types, the
count of `Keepalive` bytes and the limits of every `Batch`; `Attributed` is
`TypeOK`, `InStep` and `NoStranger`; `PageGrouped` is `TypeOK`, `GroupFits` and
`NoWaitForAnother`; `PageFlagged` is `OwnFlags`, `FeaturesFit` and `ReadAfresh`;
`PromptsKept` is `TypeOK`, `CeremonyOwned`, `AutofillOffered` and `QuietTillPicked`.

What the properties say, in a line each (the modules state them in full, with
the lines of code they are about):

* **Session.** With Web Locks a session is revoked for reuse only if an answer
  to one of its refreshes was lost.  Every caller of a refresh is answered;
  every waiting request is replayed or rejected; every queued tab gets its turn.
  A replayed request goes out as the person who made it.  The cache holds the
  signed-in person's data only.  A refresh tells the others to sign out only about
  a session that is over or left.  All three exempt a page whose own refresh a sign-in
  overtook; the first two a page that was kept after a verdict; the last one a fresh
  token that the API refuses.
* **Stream.** Never two streams.  Never none without a timer or refresh that
  leads to one.  While open, everything cached is fresh but for unread frames.
  Backoff goes down for a notification or an unmount only.  A stream comes back.
* **Inbox.** When all is quiet the pages are the server's.  A row does not flick
  back while its write runs.  The count and the rows move together.
* **StepUp.** An action waits only under a dialog with a way out.  It is retried
  only with a newer sign-in.  It asks only while the token is stale.  The wait
  lock means an action waits.  A genuine confirmation is not forgotten.
* **Checkout.** A payment taken is never an error.  A plan is announced only
  when paid for and applied, whatever views from before the click land after it,
  unless other hands changed the subscription meanwhile or undid the very change
  while a view of it was on its way; and always then (by the flow that stays; the
  banner's is left out of `PaidIsTold`).  A line fits what is on screen.
* **Maintenance.** The notice is of its mode's period.  No older read undoes a
  header that turned the mode on.  One report per period and load.  No app
  without a user but under the screen or about to be guarded again.  `full`
  ends.
* **Errors.** The quota's count is right.  At most one retry.  Own name or none.
  Every accepted error goes.
* **AnalyticsIdentity.** Once its queue is empty a tab sends events as its own
  user; one where nobody is signed in never as somebody from before its time.  A
  tab takes up no repair against an identity it sees another tab hold, unless a
  registry write was undone.
  When the outside stops, the signed-in tabs agree.
* **PageAnalytics.** The group in force on a tenant's page is that tenant's or none,
  and on a page with no tenant at most that of the view whose turn it is; a view
  whose wait was cut or timed out is counted in no group, and no view waits for
  another tenant.  Flag values, and reads of them, are the user's own and
  read afresh on return to a tenant; what is registered is what is cached for the
  page.  Every view goes, and a tenant that landed in time has its group.
* **SignIn.** The browser's pending request is the live run's, behind a field that
  is shown; autofill is offered again after every cancel, and is quiet until a
  passkey is picked.  A sheet the person opened stands, but for two exceptions.  A
  join is claimed only to the mailed address.  A sign-in that was heard is acted
  on, and a page is replaced only while it waits.

**Why the bounds are enough.**  Two tabs are the least that race for a cookie;
that no third one matters for the revocation is proved (section 4).  Two people
are what a confusion of identities needs.  The stream has two fetches because at
most one cancelled run can be unfinished when the next one connects: the
invariant `OneStream` would be violated by a second live one, and a slot is
reused as soon as its fetch is through.  Two writes are what a rollback race
needs, and a cap of one makes the unread count both exact and capped.  Three
maintenance periods are a mode, its successor, and the older answer of a third.
Four errors exceed the page's limit of two, and one fits beside the first in its
batch, one goes beside that batch over the quota, and one is too big for any batch.
One act beyond the loads of two tabs is enough for the analytics identity to be
taken over, because a load with another person's cookie takes it as well; a
foreign site, a lost session or a third sign-in needs an act each.  Three
navigations are a tenant, another tenant and the return to the first.  One
message on its way, for a waiting page as for the session's two people, is every
overlap of a message with a restore or a refresh; a second one only repeats the first.
Every property of a passing run is violated by at least one small bug put into
the modelled code (`mutants` in `PROJECT.json`), so none holds for want of an
interesting state.

Larger instances than the runs' were checked by hand, safety only, and held:
`PageAnalytics` with four navigations (2.7 M, tenants and people interchangeable),
`StepUp` with two confirmations and no background refreshes (4.9 M).

What matters and is left out, with section 5 saying what happens there: `OwnData`
and `AnnouncedOnlyWhenGone` exempt a tab whose own refresh a sign-in overtook,
`OwnData` a page that was kept after a verdict, `AnnouncedOnlyWhenGone` a refused
fresh token, and `ReplayedAsItself` a request that was out when its tab was switched
to another person; `DoneMeansApplied` exempts a change undone by other hands.
Besides, no run has people without Web Locks, for which `OwnData` is proved and
`AnnouncedOnlyWhenGone` does not hold (section 5); `Inbox` reads a page only once it
is invalid.

**Deadlock** is checked wherever the system cannot stop.  It is off in `Inbox`,
`AnalyticsIdentity`, `PageAnalytics` and `SignIn`, which come to rest when the
bounded acts are done or the page has left, and in `ErrorReporter`, where the page
may be gone.

## 4 The proofs

### Session

`Session_proofs` proves, with TLAPS, under `SessionAssumption` only (the
constants' types: each session has an owner, the null values are no sessions or
tabs), for every set of tabs, sessions and people:

* `TypeCorrect == Spec => []TypeOK`.  `TypeStep` has a step per action; the
  operators that several actions share (`Join`, `Settled`, `Verdict`,
  `FailRefresh`, `Discard`, `Aged`, `Broadcast`) have typing lemmas.
* `RotationSafe == Spec => []RotationInv`, the inductive invariant.
* `NoSelfRevocation == Spec => []RevokedOnlyAfterLostAnswer`.
* `RefreshesTakeTurns`: with `UseLock`, `Spec => Turns!Spec`.  Session implements
  `RefreshTurns`, its fairness apart.
* `DataStaysFit == Spec => []DataInv`, a second inductive invariant, and
  `DataStaysOwn == Spec => []OwnData`.
* `JudgedSafe == Spec => []JudgedInv`, a third, and `AnnouncementsHold`: the action
  property `AnnouncedOnlyWhenGone`.

*The argument.*  `RevokedOnlyAfterLostAnswer` says that with Web Locks a revoked
session is in `unanswered`.  It is not inductive: a state with two current
copies of one token on the wire satisfies it, and two steps later does not.
What excludes that state is `RotationInv`, under `UseLock`:

1. `OneAtATime`: a tab's refresh is past the queue exactly when that tab holds
   the lock.  So at most one tab has a token on the wire.
2. `Unspoilt(s)` for every session `s` with no lost answer: `s` is not revoked;
   no page that is gone has a post of `s` under way; a post or answer of `s` on
   the wire carries a current token; and if the cookie holds a used token of `s`,
   then some tab holds the answer with its successor.

`ServeRefresh` is the step where it matters: it ages every other copy, and by (1)
and (2) there is none but the cookie, whose replacement is the answer just made.
`RefreshAnswered` puts that into the cookie before the lock is released.
`GraceEnds` turns used copies into revoking ones, and by (2) only the cookie can
be such a copy, for as long as the answer is on its way.  `Abandon`, `Discard`
and `CloseTab` are what breaks (2), and they put the session into `unanswered`.
Each action that can disturb the invariant has its lemma; the others are covered
by `QuietStep`.

The refinement rests on (1).  `Place(t)` says whether a tab is out of the queue,
in it or in its turn; `ChangesPlace` maps the four ways one tab may change place
to `Ask`, `Take`, `Finish` and `GiveUp`, and `KeepsPlaces` maps every other step to
a stutter.  `LockGranted` is a `Take` only because `OneAtATime` leaves no tab in
its turn while the lock is free.

`OwnData` speaks of the cache and of replayed requests; what makes it last is
`OfOneUser`, of every page that stays: a request with a token, and what is cached,
is its user's, and while a refresh is under way for a signed-in page one of its
callers makes a verdict move the page: it leaves, or it is `kept` (`VerdictMoves`).
Then a refresh can only bring that user's token back or end the page's claim:
`ProfileAnswered` compares the two, and `Verdict` and `SessionIdentityChangedError`
move the page.  The steps that break this are a sign-in that lands during the tab's
own refresh, which is what `overtaken` records, and a verdict that nobody leaves on.
The invariant says nothing of other tabs (`OneTabFits`), so it needs no lock.

`AnnouncedOnlyWhenGone` does.  `JudgedFits` says of a refresh in progress in a
signed-in tab: a denial is about a session that is over or that the cookie has
left, unless it is the refusal of a fresh token, and a token of another session means
that the cookie has left this tab's.
That stays true because the cookie does not go back: with `OneAtATime` no other
answer is on its way that could put an earlier session into it, and a sign-in only
brings a session that was never used (`SessionsFit`).

`session_turns` and `session_people` check these properties on the instances
above; the theorems remove their bounds.

### StepUp

`StepUp_proofs` proves, under `StepUpAssumption` only (the confirmations are
counted by a natural number, the switches are Booleans), for every set of actions:

* `StepUpSafe == Spec => []StepUpInv`, the inductive invariant;
* `WaitersHold` and `LocksHold`: `[]WaitersKept`, which has the type invariant in
  it, and `[]LockMeansAction`;
* `ConfirmationsAreFresh`, `OnlyStaleAsks`, `GenuineResumesGoOn`: the three action
  properties `ConfirmedMeansFresh`, `AsksOnlyIfStale` and `GenuineResumes`.

*The argument.*  That an action is retried only with a newer sign-in needs an
order of five clocks: what the API counts as recent, the sign-in times of the
store's token, of an answer on its way, and of the refused actions, and the
`baseline` a link must beat.  `TimesFit` says that no token is newer than the last
confirmation, that a posted passkey's answer is recent, and that a refresh brings
nothing older than the store's token unless a recent one landed since.
`WaitersFit` says that every waiter was refused for a token that is stale and no
newer than what store and refresh bring, and that while the wait lock is held some
waiter is as old as the baseline: so an answer that beats the baseline beats that
waiter.  `BodyFits` ties the dialog's body, its attempt, link, resume and the wait
lock to the waiters; `ResumeFits` says that a resume's second refresh began after
its message.  Actions fall into clusters that leave the same variables alone; each
part of the invariant is proved for each cluster.  The proof uses the bound that
time passes only while no request is in flight (`TimePasses`): a request answered
on the other side of that boundary is not modelled.

### SignIn

`SignIn_proofs` proves, under `SignInAssumption` only, for any people and any
number of messages on their way:

* `SignInSafe == Spec => []SignInInv`, the inductive invariant;
* `PromptsHold` and `ClaimsHold`: `[]PromptsKept` (with the type invariant) and
  `[]ClaimsFit`;
* `SheetsStand`: the action property `SheetStands`;
* `LandingsAsked`: `LandsIfAsked`, the safety half of `Followed`.

*The argument.*  `PromptInv` is about the requests alone and is kept by every step
of PasskeyPrompt (`PromptInvStep`), which `SignIn` takes whole.  `AutofillOffered`
and `QuietTillPicked` need to know what a cleaned-up run can leave behind
(`Stray`), that the ref tells of the live run's own pick (`PickMarked`), and that
a button's request that could still open has no rival but a restart (`OneSheet`),
from which `SheetStands` follows.  `RestNext` adds the page: a wanted restore
belongs to a listener that listens, an account that was checked is still the
invitee's when the claim lands (`JoinFits`), and a claim was made for the invitee.

### NotificationStream

`Notifications_proofs` proves of the stream, under `StreamAssumption` (the null values are no
tokens or connections, the first backoff is positive and at most the last one), for
any tokens, any connections and any backoff:

* `StreamSafe == Spec => []StreamInv`, the inductive invariant;
* `StreamsKept` and `CachesCaughtUp`: `[]StreamKept` (types, one stream, never
  parked) and `[]CaughtUp`;
* `BackoffsHold`: the action property `BackoffHolds`.

*The argument.*  A page could end up with two streams, or with none and no way back,
only if two of stream, timer and awaited refresh were there at once, or none.
`OneWay` says that a timer or a refresh the run awaits rules out the other and a
live connection, and that a run that is over has none of the three; `WayBack` that
a run that is wanted has one.  The cleanup of an effect is the step that both parts
are for: it ends all three before the next run begins.

### Inbox

`Notifications_proofs` proves of the inbox, under `InboxAssumption`, for any number of
notifications, writes in flight and any cap on the count:

* `InboxSafe == InboxSpec => []InboxInv`, the inductive invariant;
* `InboxSettles` and `EditsHold`: `[]InboxSettled` (with the types) and `[]EditsStand`;
* `CountsHold`: the action property `EditsCount`.

*The argument.*  `ReadsKnown`: a page whose read is out is marked stale, and every
write in flight began before that read (a write that starts cancels the reads).  So
no answer older than a write can make a page fresh.  `FreshIsServers`: with no write
in flight and no frame to hear, a page not marked stale, and an answer on its way,
are the server's.  The last write to settle marks both pages stale, which is where
it is re-established.  `EditsCount` is about one edit, and counts: the rows that it
changes are a subset of the unread ones, by lemmas on finite sets.

### Checkout

`Checkout_proofs` proves, under `CheckoutAssumption`, for any set of the two flows,
any purposes and any number of polls:

* `CheckoutSafe == Spec => []CheckoutInv`, the inductive invariant;
* `PaymentsStay`, `PlansArePaid` and `LinesHold`: `[]TakenStays`,
  `[]DoneMeansApplied` and `[]LinesKept` (with the types).

*The argument.*  Both flows watch one cached view and one read, and several steps
first change the view and then run what watches it.  So the invariant is a predicate
on a single record, `Good(f, r, p, C, s, W)`: flow `f` with record `r` and payment
`p`, on a page that shows a view of the set `C`, with the subscription `s` and the
views `W` on their way.  A step that brings a view goes from `C` to a larger set and back to one
view; `Watching`, `Polling`, `Rereading`, `Showing` and `Arriving` say that the effects,
the poll, the refetch, the new view and a view that arrives or is served keep a good
record good.  Its heart is that an unpaid
checkout under way stands on a subscription that does not show the change, and no
view that the page has or is being sent shows it (`Before`, `Unseen`).  At the click
that is so unless the change was there and has been undone, which `touched` records.
The proof uses two facts that the model states: other hands do not change the
subscription while a payment is taken and not applied, and the banner sells cards
only.

### Maintenance

`Maintenance_proofs` proves, under `MaintenanceAssumption` (finitely many calls), for
any number of calls, periods and reloads:

* `ModesSafe == Spec => []ModeInv`, the inductive invariant;
* `NoticesKept` and `NobodyStays`: `[]NoticeKept` (with the types) and `[]NobodysPage`;
* `HeadersStand`: the action property `HeaderStands`.

*The argument.*  Every answer on its way names a period there was (`AnswersDated`), so
what it writes into the store is that period's mode and start, or no start.
`OncePerLoad` counts reports per period against reloads.  `ReadIsNewer`: while the
mode has no start, the one read that would bring it was not served before the header
that set the mode, because the gate's effect cancelled the older one.
`PageGuarded` is `NobodysPage` without its exception for a page that still loads:
leaving `full` starts a recovery, whose guards run once the session was validated,
or came before the gate (`early`).

### PageAnalytics

`Observability_proofs` proves, under the assumptions on people and tenants only, for
any people, tenants, navigations and sign-ins:

* `FlagsSafe == Spec => []FlagInv` and `PagesFlagged`: `[]PageFlagged`;
* `GroupsSafe == Spec => []GroupInv` and `PagesGrouped`: `[]PageGrouped` (with the
  types).

*The argument.*  Two invariants that need nothing of each other.  `FlagInv`: the two
records of the tenant shown last agree, so the reset that the one guards comes
whenever the other has another tenant; then a page's flags are of its own reader,
and its features of the flags read for its scope.  `GroupInv`: in the queue of page
views only those of the current tenant wait, and none has a tenant set before its
turn; the last view is of the tenant in force, which is the page's once no loader is
out; so the group is that page's, or none, or of the view whose turn it is.  The
queue is shifted and its waits are settled in place, which rests on lemmas about
sequences (`Settling` and those after it).

### ErrorReporter

`Observability_proofs` proves, under `ErrorReporterAssumption` only (a finite set of
errors, each of some bytes; limits that are numbers, with batches of one event at
least and no larger than the quota), for any errors, fingerprints, limits, identity
changes and hidden pages:

* `ReporterInductive == ReporterSpec => []ReporterInv`;
* `ReporterBytesKept`: `[]BytesKept` (with the types), `ReporterTwiceAtMost`:
  `[]TwiceAtMost`, `ReporterOwnName`: `[]OwnName`.

*The argument.*  None of the three is inductive: that no error leaves a third time
depends on where it is now.  `ReporterInv` says that every error is in one place at
most, and once there: in the buffer, waiting for its identity, in the queue, in one
request, or in one batch that waits for its retry (`Distinct`, `Apart`), and that
`tries` is what that place says (`Tried`): none before it is sent, one in a first
request and while it waits for the retry, two in the retry.  So what a pagehide
beacons was tried once at most, and what it leaves in flight retries once at most.
Beside it, every waiting error is dated with the epoch it was noted in, so the name
it gets is that one or none (`Dated`, `Own`), and the count of bytes is the sum over
the requests (`Fit`).

*The loops.*  A flush, a release and the handing over of the buffer are folds over
sequences of any length, and bytes are sums over sets: the operators of the community
modules, chosen recursive functions over subsets.  A theorem of induction that takes
a predicate cannot be instantiated, but a set can: `Induction` says that a set of
numbers which has 0 and with each number the next one, up to n, has n, which
follows from the least number it misses (the order on the naturals is well-founded).
With it `FoldExists` and `SumExists` show that the functions these operators choose
exist; `FoldTrace`, that a fold is the last value of a sequence that goes through it
step by step (`BatchesTrace`, `FlushTrace`, `ReleaseTrace`, `HandedTrace`); and
`SumSplits`, that any member of a sum can be taken first, so that a request adds its
bytes and takes them back (`KeepaliveMore`).  The lemmas that end in `Fits` then
carry the invariant along each trace, one request or one error at a time.

TLC checked `ReporterInv` before, on the run's instance.

### AnalyticsIdentity

`AnalyticsIdentity_proofs` proves, under `IdentityAssumption` only (nobody and the
foreign site are no people of the app), for any tabs and people and any number of
outside acts:

* `QueuesFollow == Spec => []FollowInv`;
* `EventsAttributed`: `[]Attributed` (with the types), from `SeenInv`;
* `StrangersTold == Spec => []ToldInv`, and `RepairsSpare`: the action property
  `RepairSpares`.

*The argument.*  Three layers, each on the one before.

1. `FollowInv`, tab by tab: the queue of commands leads from the person analytics
   holds to the store's user (`Leads`: its last command that decides is about that
   user), which is `InStep` once the queue is empty; and the plan of storage
   operations is what is left of one of a few plans (`Plans`), so its first
   operation tells the rest.  What a change of user asks for is put together and
   taken apart by lemmas on sequences (`LeadsOn`, `LeadsNext`).
2. `SeenInv`, for `NoStranger`, which is not inductive: a page loads with the last
   visitor's identity in the storage.  A stranger that a tab's SDK holds is on its
   way out: the bootstrap's command is still to run, or its reset is planned, or
   the tab itself is identifying that person.  What is adopted later was stored
   under the page's eyes, and what is heard of was signed in somewhere.
3. `ToldInv`, for `RepairSpares`.  An identity that a tab holds or the storage has,
   and that is not the tab's own, was announced to it (`Knows`): the message was
   heard, or is still in the channel while the registry has the name, unless the
   tab is about to reset it or every tab of that person is still identifying.  A
   name is registered before it is identified (`FirstRegistered`), and only an
   overtaking write takes it away (`overtaken`).  An event that arms the timer, and a
   repair that is taken up, find a name that the tab holds and neither heard nor can
   read in the registry (`ArmsDrops`, `TakesRepairs`): then no tab is done identifying
   it.

TLC checked the three invariants on the run's instance.

**Only model-checked.**  Every safety property that a run finds to hold is a theorem.  What
TLC alone says is the fairness part of Session's refinement and every liveness
property: `AllAnswered`, `EveryTurnComes`, `StreamReturns`, `PaidIsTold`,
`FullEnds`, `EveryErrorGoes`, `AllSettle`, `ViewsGo`, and of `Followed` the part that
says a sign-in heard of is followed (`HeardInTheEnd`).  Liveness under fairness and
anything with `ENABLED` is out of the proof system's reach.  The library's theorems
of induction take an operator for their parameter, which its provers cannot
instantiate; where a proof needs induction over data it goes over a set instead (see
ErrorReporter).

## 5 Where code and words disagree

One run checks what the repository says and finds that the code does otherwise:

* `maintenance_off`: the test at `maintenance-gate.test.tsx:362` and the comment
  at `maintenance-gate.tsx:60` say that a status read in flight is dropped when
  a header turns the mode off.  It is dropped only while the start time is
  unknown; otherwise the late answer puts `read_only` and its notice back.

Met while modelling, with no run of their own:

* `step-up-dialog.tsx:260`: the comment at `step-up-dialog.tsx:166-171` says that
  the wait lock means a tab that listens, "so the confirm page never reports a tab
  that stopped waiting".  Email me a link, then Use your passkey: the link's answer
  takes the lock, the passkey options that arrive next show the passkey view,
  which does not listen.  The confirm page then says that the tab can be closed.
  (`LockMeansAction` is the part that holds.)
* `use-passkey-autofill.ts:67`: `passkey-sign-in.tsx:29-30` says that autofill
  cannot start after the sheet and abort it.  The restart of a stale pick reads a
  fresh cancel count and opens over the sheet; and a button's prompt from before
  the inbox that settles late restarts autofill, whose cleanup cancels the new
  button's sheet.  `SheetStands` exempts these two and nothing else.
* `use-passkey-autofill.ts:64`: its doc (lines 12-13) says that `onSignedIn` is
  called once a picked passkey has signed the tab in.  A run that was cleaned up
  while its verify was out signs the tab in and does not land: the tab stays on
  the form or the inbox, whose listener ignores messages once signed in.
* `accept.tsx:315-331`: the page says that the mailed address joined whenever a
  restore after a message finds that account, by whatever it was signed in
  (`strays`, in `ClaimsFit`).
* `sign-in-link-form.tsx:91-97`: the late answer of a resend takes the page back
  to the old address's inbox after "Use a different email".
* `use-signed-in-elsewhere.ts:30`: a message that arrives while a restore is under
  way is dropped, the one whose session that restore is too early for included.
  The Google callback, and a link opened by a tab that is signed in as the same
  person, broadcast nothing.
* `session.ts:112`: a tab that is still restoring is not signed in, so it ignores
  a `logout` message and then signs in with the refresh that was under way;
  SECURITY.md:127 says every tab follows a sign-out, and also that one not
  signed in ignores it.
* `refresh-core.ts:128`: the identity is compared with the user at the time the
  profile arrives.  A sign-in of another person in the same tab, while a request
  of the first waits for a refresh or is about to need one, makes the comparison
  pass, and that request is replayed as the second person; auth-verdict.ts:14-16
  says nothing a tab started is.
* The same overtaking, the other way round (`overtake` in `Activity` allows it, and
  `overtaken` exempts the page from `OwnData` and `AnnouncedOnlyWhenGone`): a
  refresh for `signed_in` that settles after this tab has signed in by itself
  signs it out again, and announces that, when its answer is a verdict on the
  session before; with `SessionIdentityChangedError` the tab stays on its page,
  and an answer that is then still out leaves its data in the cache.
* `session.ts:34-36` calls a dead session "the moment to discard all in-memory state",
  which `redirectToLogin` does by loading `/login` anew.  Two callers of a refresh
  swallow the verdict and do not: the recovery from maintenance
  (`maintenance-mode.ts:66-69`, which only invalidates the router) and the emailed
  confirmation (`step-up.queries.ts:49-54`).  The store is empty, the query cache is
  not, the guards go to `/login` within the same document, and whoever signs in there
  next does so over it: `switchIdentity` finds nobody to switch from.  With an answer
  of the first person still out, TLC shows the second one's page with the first one's
  data once the exemption for `kept` pages is taken out of `Stays`.
* `refresh-core.ts:134-144`, `auth-verdict.ts:58-62`: a verdict is announced as the end
  of the session.  Where a clock is off, the profile answers the token that was just
  minted with `ACCESS_TOKEN_EXPIRED` (`interceptors.ts:26-29`), and every tab is signed
  out of a session that lives.
* `use-checkout-flow.ts:330-355, 376-384`: a view is judged by itself.  Billing is read
  while a plan is active, other hands cancel and end it, the person buys it again, and
  the late answer of that read passes for the change, whether or not it is paid for
  (`UndoneOnItsWay`).
* `telemetry.ts:470-481`: the repair compares what its own SDK holds.  A sibling that
  has stored its identity since loses it, until it adopts, drops its events and asks
  who is signed in.
* `accept.tsx:329`: the claim of a join lands after the person has left the page.
* `use-notifications.ts:264`: a token rotated by another request connects at once
  inside a refusal's Retry-After, which the hook's doc (112-116) says is waited.
* `step-up-provider.tsx:80`: a retry with a newer token that is refused as stale
  again surfaces its error with no dialog; `use-step-up.ts:5-9` says the action
  waits for a confirmation.
* `confirm.tsx:133`: a link whose answer was lost is spent, and Try again can
  only say that it is used or expired.
* `_app.tsx:36`: `full` that ends after a guard let the page through and before
  the gate is mounted starts no recovery (`early`, in `NobodysPage`).
* `maintenance-mode.ts:86`: sessionStorage keeps the last period only, so after a
  reload a late answer of an earlier one is reported again; the doc says once
  per tab session (`ReportedOncePerLoad` is what holds).
* `report.ts:393`: the beacons of a hidden page share one 64 KiB quota with what
  is in flight, and sendBeacon's result is not read.

Three behaviours are accepted by the models as the API's or the browser's to
decide: a late 401 on an ended session makes its tab broadcast a logout, which
ends a newer session of a sibling; without Web Locks, or with a post that is
delayed beyond the grace window, a browser can have its session revoked; and
without Web Locks a late answer of a third tab can put a session back into the
cookie while another tab announces that it was left (`AnnouncedOnlyWhenGone` is
stated with Web Locks).

Hazards of modelled code that are covered by no property, or are consequences of
the listed ones: the cancelled run that still hears its refresh
(`use-notifications.ts:186`, inside `OneStream` and `NeverParked`); a confirmation
heard by nobody because the request for the link has not answered yet
(`step-up-dialog.tsx:391`); a background refresh that overwrites the token of a
passkey confirmation (`step-up-dialog.tsx:274`); a billing read that overwrites
the confirm's view (`billing.queries.ts:231`, made good by the wait); two
Checkouts opened by two flows (`use-checkout-flow.ts:378`); the shared script
load that fails (`razorpay-checkout.ts:84`); the one explaining status read that
fails (`maintenance-gate.tsx:56`); the reporter's chunk that fails and is not
asked for again (`listen.ts:53`); a repair ahead of its message, and events
captured under a sibling's cookie (`telemetry.ts:484`, `:487`, both part of
`RepairSpares` and `Attributed`); a run cleaned up before its microtask
(`use-passkey-autofill.ts:75`, part of `PromptsKept`).

## 6 What is not modelled

*In modelled components.*  Session: the body transport and `tokenStore` of
another client, trace headers, malformed bodies.  Stream: parsing of bytes into
frames.  Inbox: the preferences mutation, the table and its filters, focus
refetches.  StepUp: resend countdowns, focus and wording, the confirm page of a
signed-out browser (it posts nothing), the retry of an action whose token has
simply expired.  Checkout: invoices, entitlements, upgrade requests, cancel and
interval writes but for the checkouts they start.  ErrorReporter: scrubbing,
fingerprints and ignore rules, de-duplication of re-thrown errors, the age limit
(its effect is kept).  AnalyticsIdentity: consent, opting out, the cap on queued
commands, capturing itself.  PageAnalytics: pages viewed before the SDK has
loaded, values of single flags.  SignIn: register and forgotten passwords (forms
that mail a link and end there), resend countdowns, the wording of failures,
creating and managing passkeys.

*Whole components.*  Those of section 1.1 marked so, for want of a module yet.
Forms over one query, pages that render an answer, schemas, formatting, the UI
kit, tracing headers, generated code, nginx and build scripts have no behaviour
over time that a state machine would show.

*External.*  The API (rotation, reuse window, verdicts, `auth_time`, billing,
maintenance headers), Razorpay, the browser's BroadcastChannel, Web Locks, page
life cycle and storage, React's effects and TanStack Query's cache.  Their
definitions are marked external in `PROJECT.json` and are no more than what this
code relies on.

## 7 The plan

Done, in the order of importance: Session with its abstract specification;
NotificationStream; Inbox; StepUp; Checkout; Maintenance; ErrorReporter;
AnalyticsIdentity; PageAnalytics, which covers the flags; PasskeyPrompt and SignIn,
which cover the link and invitation pages.  All have their proofs.

Next modules, each with its promise:

1. `PasskeySetup` (`lib/passkey-setup.ts` with Session's identity changes): a
   late 403 of the last person's request raises no screen for the next one
   (`passkey-setup.ts:26`).
2. `CurrentTenant` (`current-tenant.ts:33`) and `ListState`
   (`use-list-search.ts:120`): URL state against module state over navigations;
   the detail of a tenant just joined that is cached as not found
   (`invitation.queries.ts:30`).
3. `api-restart-guard.mjs` (`:529`), the command palette, countdowns.

Runs to widen: a restore
against a logout, Retry-After against a rotated token, reports across reloads.

Theorems: every safety property that holds has its own, and a module that is added
brings its own.
