-------------------------------- MODULE StepUp --------------------------------
(***************************************************************************)
(* "Confirm it's you": an action the API refuses for a stale sign-in waits  *)
(* on one dialog, which confirms by passkey in this tab or by an emailed    *)
(* link in another, and is retried with the token the confirmation brought. *)
(*                                                                         *)
(* One tab with the provider and its dialog, one confirm page in the same   *)
(* browser, and the API, which is external.  A sign-in time (auth_time) is  *)
(* the number of confirmations so far; the API refuses a token whose time   *)
(* is below `threshold`.  The tab's refresh is the one of module Session,   *)
(* cut down to what it brings.                                              *)
(***************************************************************************)
EXTENDS Naturals, FiniteSets

CONSTANTS
    Acts,         \* the actions that need a recent sign-in
    MaxConfirms,  \* bound: confirmations of the session
    Passkey,      \* whether the account may have a passkey
    Links,        \* whether links are asked for
    Background,   \* whether other requests refresh the session too
    Elsewhere     \* whether the session may be confirmed in yet another tab

ASSUME StepUpAssumption ==
    /\ MaxConfirms \in Nat \ {0}
    /\ {Passkey, Links, Background, Elsewhere} \subseteq BOOLEAN

VARIABLES
    \* the API
    session,    \* when the session last confirmed
    threshold,  \* the oldest sign-in that still counts as recent
    mailed,     \* whether an unspent link is in the person's inbox
    \* the tab
    token,      \* the auth_time of the token the store holds
    refresh,    \* the tab's single-flight refresh
    act,        \* the actions
    open, chunk, \* the provider: whether it asks, and the dialog's code
    view,       \* the dialog's view; closed while its body is not mounted
    attempt,    \* the current passkey attempt, and the view it began in
    hasPasskey,
    verify,     \* passkey answers posted: by the current attempt, by one left
                \* for another, and by one whose dialog has gone
    link,       \* the request for a link, and the view it was made in
    lock,       \* whether the dialog holds the step-up wait lock
    baseline,   \* the auth_time a link's confirmation must beat
    resume,     \* the resume after a message; heard: what the message told of
    \* the confirm page and its channel
    confirm, message

api      == <<session, threshold, mailed>>
store    == <<token, refresh>>
provider == <<act, open, chunk>>
keys     == <<attempt, hasPasskey>>
links    == <<link, lock, baseline, resume>>
body     == <<view, keys, links>>
page     == <<confirm, message>>
vars     == <<api, store, provider, body, verify, page>>

Times   == 0 .. MaxConfirms
Views   == {"closed", "opening", "passkey", "start", "email", "resuming", "resume_failed"}
Posts   == {"live", "left", "orphan"}

TypeOK ==
    /\ session \in Times /\ threshold \in Times /\ mailed \in BOOLEAN
    /\ token \in Times
    /\ refresh \in [stage : {"none", "sent", "served"}, auth : Times]
    /\ act \in [Acts -> [stage : {"idle", "sent", "resent", "waiting", "retried", "refused"},
                         auth : Times, current : BOOLEAN]]
    /\ open \in BOOLEAN /\ chunk \in {"none", "loading", "loaded"}
    /\ view \in Views
    /\ attempt \in [stage : {"none", "options", "prompt", "verify"}, from : Views]
    /\ hasPasskey \in BOOLEAN
    /\ verify \in [Posts -> [stage : {"none", "sent", "served"}, auth : Times]]
    /\ link \in [stage : {"none", "sent", "mailed"}, from : Views]
    /\ lock \in BOOLEAN /\ baseline \in Times
    /\ resume \in [stage : {"none", "first", "second"}, heard : Times]
    /\ confirm \in [stage : {"none", "posting", "again", "spent", "confirmed", "failed",
                              "over"},
                    held : BOOLEAN]
    /\ message \in BOOLEAN
    \* and the current attempt is the one whose answer is posted
    /\ attempt.stage = "verify" <=> verify["live"].stage # "none"

Idle      == [stage |-> "idle", auth |-> 0, current |-> FALSE]
NoRefresh == [stage |-> "none", auth |-> 0]
NoPost    == [stage |-> "none", auth |-> 0]
NoAttempt == [stage |-> "none", from |-> "closed"]
NoLink    == [stage |-> "none", from |-> "closed"]
NoResume  == [stage |-> "none", heard |-> 0]

Init ==
    /\ session = 0 /\ threshold \in {0, 1} /\ mailed = FALSE
    /\ token = 0 /\ refresh = NoRefresh
    /\ act = [a \in Acts |-> Idle] /\ open = FALSE /\ chunk = "none"
    /\ view = "closed" /\ attempt = NoAttempt /\ hasPasskey = FALSE
    /\ verify = [p \in Posts |-> NoPost]
    /\ link = NoLink /\ lock = FALSE /\ baseline = 0 /\ resume = NoResume
    /\ confirm = [stage |-> "none", held |-> FALSE] /\ message = FALSE

Stale(auth) == auth < threshold
InFlight(a) == act[a].stage \in {"sent", "resent", "retried"}
Mounted     == view # "closed"

-----------------------------------------------------------------------------
(* The provider: useStepUp().run and its waiters. *)

\* Whether the refused request carried the token the store holds now.
AnyTokenCounts(a) == TRUE
SentWithCurrentToken(a) == act[a].current

Sent(stage, auth) == [stage |-> stage, auth |-> auth, current |-> TRUE]

\* A token lands in the store: requests on their way carry an older one.
Outdated(acts) ==
    [a \in Acts |-> IF acts[a].stage \in {"sent", "resent", "retried"}
                    THEN [acts[a] EXCEPT !.current = FALSE] ELSE acts[a]]

\* The body mounts as the dialog opens, and fetches the passkey options.
MountBody ==
    /\ view' = "opening"
    /\ attempt' = [stage |-> "options", from |-> "opening"]
    /\ hasPasskey' = FALSE /\ link' = NoLink
    /\ lock' = FALSE /\ baseline' = 0 /\ resume' = NoResume

\* As it unmounts it lets go of the lock, and whatever it waits for comes too
\* late.  The answer to a posted passkey still brings its token.  Bound: one.
StillHeld == lock
Released  == FALSE
Orphaned(posts) ==
    [p \in Posts |-> IF p # "orphan" THEN NoPost
                     ELSE CHOOSE post \in {posts[q] : q \in Posts} :
                            post = NoPost => \A q \in Posts : posts[q] = NoPost]
UnmountBody(posts) ==
    /\ view' = "closed" /\ attempt' = NoAttempt /\ hasPasskey' = FALSE
    /\ link' = NoLink /\ lock' = Released /\ baseline' = 0 /\ resume' = NoResume
    /\ verify' = Orphaned(posts)

\* Every waiter retries with the token tok, or is told of its refusal.
Told(act1, confirmed, tok) ==
    IF confirmed THEN Sent("retried", tok) ELSE [act1 EXCEPT !.stage = "refused"]
OneAnswered(acts, confirmed, tok) ==
    LET one == CHOOSE a \in Acts : acts[a].stage = "waiting"
    IN  [acts EXCEPT ![one] = Told(@, confirmed, tok)]
Answered(acts, confirmed, tok) ==
    [a \in Acts |-> IF acts[a].stage = "waiting" THEN Told(acts[a], confirmed, tok) ELSE acts[a]]

Finish(acts, confirmed, tok, posts) ==
    /\ act' = Answered(acts, confirmed, tok)
    /\ open' = FALSE
    /\ UnmountBody(posts)

Becomes(a, state) ==
    /\ act' = [act EXCEPT ![a] = state]
    /\ UNCHANGED <<api, store, open, chunk, body, verify, page>>

\* The modal dialog keeps further actions from being started.
Start(a) ==
    act[a].stage \in {"idle", "refused"} /\ ~open /\ Becomes(a, Sent("sent", token))

\* It succeeds, or fails for another reason.
Settle(a) == InFlight(a) /\ Becomes(a, Idle)

RetryAtOnce(a) ==
    /\ act[a].stage = "sent" /\ Stale(act[a].auth) /\ ~SentWithCurrentToken(a)
    /\ Becomes(a, Sent("resent", token))

Ask(a) ==
    /\ act[a].stage = "sent" /\ Stale(act[a].auth) /\ SentWithCurrentToken(a)
    /\ act' = [act EXCEPT ![a].stage = "waiting"]
    /\ open' = TRUE
    /\ chunk' = IF chunk = "none" THEN "loading" ELSE chunk
    /\ IF chunk = "loaded" /\ ~open THEN MountBody ELSE UNCHANGED body
    /\ UNCHANGED <<api, store, verify, page>>

\* A second refusal is final.
Surface(a) ==
    /\ act[a].stage \in {"resent", "retried"} /\ Stale(act[a].auth)
    /\ Becomes(a, [act[a] EXCEPT !.stage = "refused"])

ChunkLoads ==
    /\ chunk = "loading"
    /\ chunk' = "loaded"
    /\ IF open THEN MountBody ELSE UNCHANGED body
    /\ UNCHANGED <<api, store, act, open, verify, page>>

ChunkFails ==
    /\ chunk = "loading"
    /\ chunk' = "none"
    /\ Finish(act, FALSE, token, verify)
    /\ UNCHANGED <<api, store, page>>

\* Everything but a resume can be dismissed.
Dismiss ==
    /\ Mounted /\ view # "resuming"
    /\ Finish(act, FALSE, token, verify)
    /\ UNCHANGED <<api, store, chunk, page>>

-----------------------------------------------------------------------------
(* By passkey, in this tab. *)

\* The attempt before it is no longer current; the browser drops its prompt.
Unbumped == UNCHANGED verify
Superseded ==
    /\ verify["live"] # NoPost => verify["left"] = NoPost   \* bound: one at a time
    /\ verify' = IF verify["live"] = NoPost THEN verify
                 ELSE [verify EXCEPT !["live"] = NoPost, !["left"] = verify["live"]]

PromptPasskey ==
    /\ \/ view = "passkey" /\ attempt = NoAttempt
       \/ view = "start" /\ hasPasskey
    /\ attempt' = [stage |-> "options", from |-> view]
    /\ view' = "passkey"
    /\ Superseded
    /\ UNCHANGED <<api, store, provider, hasPasskey, links, page>>

SwitchToLink ==
    /\ view = "passkey"
    /\ attempt' = NoAttempt
    /\ view' = "start"
    /\ Superseded
    /\ UNCHANGED <<api, store, provider, hasPasskey, links, page>>

OptionsArrive ==
    /\ attempt.stage = "options" /\ Passkey
    /\ attempt' = [attempt EXCEPT !.stage = "prompt"]
    /\ hasPasskey' = TRUE
    /\ view' = "passkey"
    /\ UNCHANGED <<api, store, provider, links, verify, page>>

\* No passkey to use, or a failure on opening: the link; a later failure: a notice.
OptionsRefused ==
    /\ attempt.stage = "options"
    /\ attempt' = NoAttempt
    /\ \/ view' = "start" /\ hasPasskey' = FALSE
       \/ attempt.from # "opening" /\ UNCHANGED <<view, hasPasskey>>
    /\ UNCHANGED <<api, store, provider, links, verify, page>>

PromptAnswered ==
    /\ attempt.stage = "prompt"
    /\ attempt' = [attempt EXCEPT !.stage = "verify"]
    /\ verify' = [verify EXCEPT !["live"] = [stage |-> "sent", auth |-> 0]]
    /\ UNCHANGED <<api, store, provider, view, hasPasskey, links, page>>

PromptDismissed ==
    /\ attempt.stage = "prompt"
    /\ attempt' = NoAttempt
    /\ UNCHANGED <<api, store, provider, view, hasPasskey, links, verify, page>>

VerifyServed(p) ==
    /\ verify[p].stage = "sent" /\ session < MaxConfirms
    /\ session' = session + 1
    /\ verify' = [verify EXCEPT ![p] = [stage |-> "served", auth |-> session + 1]]
    /\ UNCHANGED <<threshold, mailed, store, provider, body, page>>

\* The new token lands; unless its dialog has gone, the waiters go on with it.
VerifyLands(p) ==
    /\ verify[p].stage = "served"
    /\ token' = verify[p].auth
    /\ LET rest == [verify EXCEPT ![p] = NoPost] IN
       IF p = "orphan"
       THEN act' = Outdated(act) /\ verify' = rest /\ UNCHANGED <<open, body>>
       ELSE Finish(Outdated(act), TRUE, token', rest)
    /\ UNCHANGED <<api, refresh, chunk, page>>

\* Only the current attempt shows its failure.
VerifyFails(p) ==
    /\ verify[p] # NoPost
    /\ verify' = [verify EXCEPT ![p] = NoPost]
    /\ attempt' = IF p = "live" THEN NoAttempt ELSE attempt
    /\ UNCHANGED <<api, store, provider, view, hasPasskey, links, page>>

-----------------------------------------------------------------------------
(* By an emailed link, in another tab. *)

SendLink ==
    /\ Links /\ view \in {"start", "email"} /\ link = NoLink
    /\ link' = [stage |-> "sent", from |-> view]
    /\ UNCHANGED <<api, store, provider, view, keys, lock, baseline, resume, verify, page>>

LinkServed ==
    /\ link.stage = "sent"
    /\ mailed' = TRUE
    /\ link' = [link EXCEPT !.stage = "mailed"]
    /\ UNCHANGED <<session, threshold, store, provider, view, keys, lock, baseline, resume,
                   verify, page>>

\* The wait starts with the first link: the lock, and the auth_time to beat.
BeginWait ==
    /\ lock' = TRUE
    /\ baseline' = IF lock THEN baseline ELSE token

LinkMailed ==
    /\ link.stage = "mailed"
    /\ link' = NoLink
    /\ BeginWait
    /\ view' = "email"
    /\ UNCHANGED <<api, store, provider, keys, resume, verify, page>>

\* A failed resend is a toast.  From the start, a cooldown means a link is out.
LinkRefused ==
    /\ link # NoLink
    /\ link' = NoLink
    /\ \/ link.from = "email" /\ UNCHANGED <<view, lock, baseline>>
       \/ link.from = "start" /\ BeginWait /\ view' = "email"
       \/ link.from = "start" /\ view' = "start" /\ UNCHANGED <<lock, baseline>>
    /\ UNCHANGED <<api, store, provider, keys, resume, verify, page>>

\* A refresh that is under way is shared.
AskRefresh == IF refresh = NoRefresh THEN [NoRefresh EXCEPT !.stage = "sent"] ELSE refresh

\* Only the email view listens; a refused refresh that follows is Reload.
Resume ==
    /\ resume' = [stage |-> "first", heard |-> session]
    /\ view' = "resuming"
    /\ refresh' = AskRefresh

Hear ==
    /\ message
    /\ message' = FALSE
    /\ IF view = "email" /\ resume = NoResume THEN Resume ELSE UNCHANGED <<resume, view, refresh>>
    /\ UNCHANGED <<api, token, provider, keys, link, lock, baseline, verify, confirm>>

TryAgain ==
    /\ view = "resume_failed" /\ resume = NoResume
    /\ Resume
    /\ UNCHANGED <<api, token, provider, keys, link, lock, baseline, verify, page>>

AnyAnswerCounts(before, after) == TRUE
IsNewConfirmation(before, after) == after > before

\* How many refreshes a resume tries before it waits on.
OneTry  == "first"
LastTry == "second"

RefreshServed ==
    /\ refresh.stage = "sent"
    /\ refresh' = [stage |-> "served", auth |-> session]
    /\ UNCHANGED <<api, token, provider, body, verify, page>>

\* The token lands.  A resume goes on if it brings a new confirmation; the first
\* may be one that was already on its way, so it asks once more.
RefreshLands ==
    /\ refresh.stage = "served"
    /\ token' = refresh.auth
    /\ LET new == IsNewConfirmation(baseline, refresh.auth) IN
       IF resume # NoResume /\ new
       THEN /\ Finish(Outdated(act), TRUE, refresh.auth, verify)
            /\ refresh' = NoRefresh
       ELSE /\ act' = Outdated(act)
            /\ UNCHANGED <<open, keys, link, lock, baseline, verify>>
            /\ \/ /\ resume.stage = "first" /\ LastTry # "first"
                  /\ refresh' = [NoRefresh EXCEPT !.stage = "sent"]
                  /\ resume' = [resume EXCEPT !.stage = "second"]
                  /\ view' = view
               \/ /\ resume.stage = LastTry
                  /\ resume' = NoResume /\ view' = "email" /\ refresh' = NoRefresh
               \/ /\ resume = NoResume
                  /\ refresh' = NoRefresh /\ UNCHANGED <<resume, view>>
    /\ UNCHANGED <<api, chunk, page>>

\* What a resume that could not refresh shows.
FailedView == "resume_failed"
RefreshFails ==
    /\ refresh # NoRefresh
    /\ refresh' = NoRefresh
    /\ resume' = NoResume
    /\ view' = IF resume = NoResume THEN view ELSE FailedView
    /\ UNCHANGED <<api, token, provider, keys, link, lock, baseline, verify, page>>

\* Another request's expired token.
BackgroundRefresh ==
    /\ Background /\ refresh = NoRefresh
    /\ refresh' = AskRefresh
    /\ UNCHANGED <<api, token, provider, body, verify, page>>

\* The page goes, with everything it waits for: a refused refresh sends it to
\* /login, or the person closes it; then it comes back.
Reload ==
    /\ token' = session /\ refresh' = NoRefresh
    /\ act' = [a \in Acts |-> Idle] /\ open' = FALSE /\ chunk' = "none"
    /\ UnmountBody([p \in Posts |-> NoPost])
    /\ message' = FALSE
    /\ UNCHANGED <<api, confirm>>

-----------------------------------------------------------------------------
(* The confirm page (pages/auth/confirm), once per link. *)

Page(stage, held) ==
    /\ confirm' = [stage |-> stage, held |-> held]
    /\ UNCHANGED <<store, provider, body, verify>>

\* It asks whether a tab waits as it posts, never again for that post.
WaitingTab == lock
OpenLink ==
    /\ confirm.stage \in {"none", "confirmed", "over"} /\ mailed
    /\ Page("posting", WaitingTab) /\ UNCHANGED <<api, message>>
PostAgain ==
    confirm.stage = "failed" /\ Page("posting", WaitingTab) /\ UNCHANGED <<api, message>>

\* An expired token is refreshed once, without the interceptor.
PostExpired ==
    confirm.stage = "posting" /\ Page("again", confirm.held) /\ UNCHANGED <<api, message>>

PostServed ==
    /\ confirm.stage \in {"posting", "again"} /\ mailed /\ session < MaxConfirms
    /\ session' = session + 1 /\ mailed' = FALSE
    /\ Page("spent", confirm.held) /\ UNCHANGED <<threshold, message>>

\* Confirmed: the waiting tab is told.
PostAnswered ==
    /\ confirm.stage = "spent"
    /\ message' = TRUE
    /\ Page("confirmed", confirm.held) /\ UNCHANGED api

\* A dead link (400) or the session's end (401) is final; any other failure
\* offers to try again.
PostFinal ==
    /\ confirm.stage \in {"posting", "again"}
    /\ Page("over", confirm.held) /\ UNCHANGED <<api, message>>
PostFails ==
    /\ confirm.stage \in {"posting", "again", "spent"}
    /\ Page("failed", confirm.held) /\ UNCHANGED <<api, message>>

-----------------------------------------------------------------------------
(* The world. *)

\* Requests are answered, or given up, long before a sign-in grows old.
TimePasses ==
    /\ threshold <= session /\ session < MaxConfirms
    /\ refresh = NoRefresh /\ link = NoLink /\ ~message
    /\ \A p \in Posts : verify[p] = NoPost
    /\ \A a \in Acts : ~InFlight(a)
    /\ confirm.stage \notin {"posting", "again", "spent"}
    /\ threshold' = session + 1
    /\ UNCHANGED <<session, mailed, store, provider, body, verify, page>>

ConfirmedElsewhere ==
    /\ Elsewhere /\ session < MaxConfirms
    /\ session' = session + 1
    /\ UNCHANGED <<threshold, mailed, store, provider, body, verify, page>>

Next ==
    \/ \E a \in Acts : Start(a) \/ Settle(a) \/ RetryAtOnce(a) \/ Ask(a) \/ Surface(a)
    \/ ChunkLoads \/ ChunkFails \/ Dismiss
    \/ PromptPasskey \/ SwitchToLink \/ OptionsArrive \/ OptionsRefused
    \/ PromptAnswered \/ PromptDismissed
    \/ \E p \in Posts : VerifyServed(p) \/ VerifyLands(p) \/ VerifyFails(p)
    \/ SendLink \/ LinkServed \/ LinkMailed \/ LinkRefused \/ Hear \/ TryAgain
    \/ RefreshServed \/ RefreshLands \/ RefreshFails \/ BackgroundRefresh \/ Reload
    \/ OpenLink \/ PostAgain \/ PostExpired \/ PostServed \/ PostAnswered \/ PostFinal \/ PostFails
    \/ TimePasses \/ ConfirmedElsewhere

Spec == Init /\ [][Next]_vars

-----------------------------------------------------------------------------
(* Properties. *)

\* An action is retried after a confirmation only with a token whose sign-in is
\* newer than some waiter's refused one: neither a stray message nor a refresh
\* that was already under way passes for a confirmation (step-up.ts:54-65,
\* step-up-dialog.tsx:355-374).
ConfirmedMeansFresh ==
    [][\A a \in Acts :
         act[a].stage = "waiting" /\ act'[a].stage = "retried"
           => \E b \in Acts : act[b].stage = "waiting" /\ act[b].auth < act'[a].auth]_vars

\* The person is asked only while the token in the store is stale: a refusal
\* that another confirmation has overtaken never asks (step-up.ts:17-31).
AsksOnlyIfStale ==
    [][\A a \in Acts :
         act[a].stage # "waiting" /\ act'[a].stage = "waiting" => Stale(token)]_vars

\* Nobody is forgotten: while an action waits, the dialog is there to be
\* answered or on its way, and in it there is a way out; a dialog that says
\* "Continuing" is always waiting for a refresh (step-up-provider.tsx:48-70,
\* step-up-dialog.tsx:361-387).
NobodyForgotten ==
    /\ open <=> \E a \in Acts : act[a].stage = "waiting"
    /\ open => Mounted \/ chunk = "loading"
    /\ view = "resuming" => resume # NoResume
    /\ resume # NoResume => refresh # NoRefresh

\* The waiters and the dialog fit each other, in states that are well formed
\* (step-up-provider.tsx:48-70).
WaitersKept == TypeOK /\ NobodyForgotten

\* A resume that was told of a confirmation newer than the wait never goes back
\* to waiting (step-up-dialog.tsx:366-370).
GenuineResumes ==
    [][resume # NoResume /\ resume' = NoResume /\ view' = "email"
         => resume.heard <= baseline]_vars

\* The wait lock is held only while some action waits on the dialog, so the
\* confirm page never tells a person whose action was dismissed or retried that
\* a tab is waiting (step-up-presence.ts:1-8).
LockMeansAction == lock => Mounted /\ \E a \in Acts : act[a].stage = "waiting"
=============================================================================
