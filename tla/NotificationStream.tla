------------------------- MODULE NotificationStream -------------------------
(***************************************************************************)
(* The notification stream of one signed-in page (hooks/use-notifications): *)
(* an effect that keeps one server-sent-event connection up for the access *)
(* token in the store, reconnects it under a doubling backoff, and keeps   *)
(* the cached inbox and billing answers in step with the server.           *)
(*                                                                         *)
(* A step is a task of the page (a timer, a response, a frame), or one     *)
(* microtask of it: React's re-run of the effect and the continuations of  *)
(* ensureSession() come in any order, but before the next task (Quiet).    *)
(***************************************************************************)
EXTENDS Naturals, FiniteSets

CONSTANTS
    Tokens,      \* access tokens the API hands out; a refresh may repeat one
    NoToken,     \* signed out
    Slots,       \* connections the page can have at once
    NoSlot,
    InitialBackoff, MaxBackoff

ASSUME StreamAssumption ==
    /\ NoToken \notin Tokens
    /\ NoSlot \notin Slots
    /\ InitialBackoff \in Nat \ {0} /\ MaxBackoff \in Nat
    /\ InitialBackoff <= MaxBackoff

VARIABLES
    page,        \* "here", or "leaving" once a redirect to /login was asked for
    token,       \* the store's access token
    required,    \* the passkey-setup flag, which unmounts the stream
    run,         \* the token of the effect run that is up, or NoToken
    conn,        \* the connections' progress
    abort,       \* the connection whose controller the run holds
    frames,      \* what the server sent on a connection and nobody read yet
    timer,       \* the run's reconnect timer
    backoff,     \* survives a re-run of the effect, not an unmount
    seen,        \* whether there is a Last-Event-ID to send
    refresh,     \* ensureSession()
    waiters,     \* who awaits it: this run, an earlier one, another request
    stale,       \* the cached answers older than the server's
    hold         \* history: a refusal's Retry-After is still running

hook == <<run, conn, abort, frames, timer, backoff, seen>>
vars == <<page, token, required, hook, refresh, waiters, stale, hold>>

Kinds   == {"notification", "entitlements"}
Access  == Tokens \union {NoToken}
Stages  == {"none", "connecting", "accepted", "open"}
Timers  == [kind : {"none", "connect", "refresh"}, waits : BOOLEAN]
NoTimer == [kind |-> "none", waits |-> FALSE]

TypeOK ==
    /\ page \in {"here", "leaving"}
    /\ token \in Access
    /\ required \in BOOLEAN
    /\ run \in Access
    /\ conn \in [Slots -> Stages]
    /\ abort \in Slots \union {NoSlot}
    /\ frames \in [Slots -> SUBSET Kinds]
    /\ timer \in Timers
    /\ backoff \in InitialBackoff .. MaxBackoff
    /\ seen \in BOOLEAN
    /\ refresh \in {"idle", "inflight", "ok", "verdict", "failed"}
    /\ waiters \subseteq {"run", "old", "other"}
    /\ stale \subseteq Kinds
    /\ hold \in BOOLEAN

SignedIn == token # NoToken

\* What the effect runs for: nothing while signed out or unmounted by the setup.
Wanted == IF required THEN NoToken ELSE token

\* React has rendered and no promise continuation is queued: a task may start.
Settled == refresh \in {"ok", "verdict", "failed"}
Quiet   == page = "here" /\ run = Wanted /\ ~Settled

Live(s) == conn[s] # "none"

Init ==
    /\ page = "here"
    /\ token \in Tokens
    /\ required = FALSE
    /\ run = NoToken
    /\ conn = [s \in Slots |-> "none"]
    /\ abort = NoSlot
    /\ frames = [s \in Slots |-> {}]
    /\ timer = NoTimer
    /\ backoff = InitialBackoff
    /\ seen = FALSE
    /\ refresh = "idle"
    /\ waiters = {}
    /\ stale = {}
    /\ hold = FALSE

-----------------------------------------------------------------------------
(* The effect: connect, its timer, its cleanup. *)

\* The connections c, with a new one that the run can abort.
Connect(c) ==
    \E s \in Slots :
        /\ c[s] = "none"
        /\ conn' = [c EXCEPT ![s] = "connecting"]
        /\ abort' = s
        /\ frames' = [f \in Slots |-> IF f = s \/ c[f] = "none" THEN {} ELSE frames[f]]

\* The cleanup aborts the last connection.  Mutant: it leaves it open.
LeftOpen == conn
Aborted  == IF abort = NoSlot THEN conn ELSE [conn EXCEPT ![abort] = "none"]

\* It clears the timer.  Mutant: the timer outlives its run.
KeptTimer    == timer
ClearedTimer == NoTimer

\* The backoff lives as long as the mount.  Mutant: as long as the run.
StartedOver(b) == InitialBackoff
AtUnmount(b)   == IF required THEN InitialBackoff ELSE b

\* The effect re-runs for another token, or the layout is unmounted and its
\* refs go with it: the old run is cancelled, a new one connects.
EffectRuns ==
    /\ page = "here" /\ run # Wanted
    /\ run' = Wanted
    /\ timer' = ClearedTimer
    /\ waiters' = IF "run" \in waiters THEN (waiters \ {"run"}) \union {"old"} ELSE waiters
    /\ IF Wanted # NoToken
       THEN Connect(Aborted)
       ELSE /\ conn' = Aborted
            /\ abort' = NoSlot
            /\ frames' = [s \in Slots |-> IF Aborted[s] = "none" THEN {} ELSE frames[s]]
    /\ backoff' = AtUnmount(backoff)
    /\ seen' = (seen /\ ~required)
    /\ UNCHANGED <<page, token, required, refresh, stale, hold>>

\* Mutant: the backoff has no cap.
Uncapped(b) == 2 * b
Doubled(b)  == IF 2 * b < MaxBackoff THEN 2 * b ELSE MaxBackoff

\* scheduleReconnect(): the delay is the backoff, or the refusal's Retry-After
\* when that is longer.
ScheduleReconnect(kind, retryAfter) ==
    /\ backoff' = Doubled(backoff)
    /\ timer' = [kind |-> kind, waits |-> retryAfter]

\* Connection s is over and the hook heard of it.
Ends(s) ==
    /\ conn' = [conn EXCEPT ![s] = "none"]
    /\ frames' = [frames EXCEPT ![s] = {}]
    /\ UNCHANGED abort

\* The network fails, the stream ends, or a frame outgrows the parser's buffer.
Dropped(s) ==
    /\ Live(s) /\ s = abort /\ Quiet
    /\ Ends(s)
    /\ ScheduleReconnect("refresh", FALSE)
    /\ UNCHANGED <<page, token, required, run, seen, refresh, waiters, stale, hold>>

\* The server refuses the connect; only a 401 says anything about the session.
Refused(s) ==
    /\ conn[s] = "connecting" /\ s = abort /\ Quiet
    /\ Ends(s)
    /\ \E kind \in {"connect", "refresh"}, retryAfter \in BOOLEAN :
          /\ ScheduleReconnect(kind, retryAfter)
          /\ hold' = (hold \/ retryAfter)
    /\ UNCHANGED <<page, token, required, run, seen, refresh, waiters, stale>>

\* Required mode was switched on: 403 PASSKEY_SETUP_REQUIRED raises the flag.
RefusedForSetup(s) ==
    /\ conn[s] = "connecting" /\ s = abort /\ Quiet
    /\ Ends(s)
    /\ required' = TRUE
    /\ UNCHANGED <<page, token, run, timer, backoff, seen, refresh, waiters, stale, hold>>

\* The timer fires, never before the Retry-After it was set for.
TimerFires ==
    /\ Quiet /\ timer # NoTimer
    /\ timer.waits => ~hold
    /\ timer' = NoTimer
    /\ \/ /\ timer.kind = "connect"
          /\ Connect(conn)
          /\ UNCHANGED <<refresh, waiters>>
       \/ /\ timer.kind = "refresh"
          /\ waiters' = waiters \union {"run"}
          /\ refresh' = "inflight"
          /\ UNCHANGED <<conn, abort, frames>>
    /\ UNCHANGED <<page, token, required, run, backoff, seen, stale, hold>>

-----------------------------------------------------------------------------
(* The answers of ensureSession(), which other requests share. *)

OtherRefresh ==
    /\ Quiet /\ SignedIn
    /\ "other" \notin waiters
    /\ refresh' = "inflight"
    /\ waiters' = waiters \union {"other"}
    /\ UNCHANGED <<page, token, required, hook, stale, hold>>

\* It rotates the token (or the API repeats it), signs the store out, or
\* fails without judging anybody.  Losing the user drops the setup flag.
RefreshSettles(outcome) ==
    /\ Quiet /\ refresh = "inflight"
    /\ refresh' = outcome
    /\ \/ outcome = "ok" /\ token' \in Tokens /\ UNCHANGED required
       \/ outcome = "verdict" /\ token' = NoToken /\ required' = FALSE
       \/ outcome = "failed" /\ UNCHANGED <<token, required>>
    /\ UNCHANGED <<page, hook, waiters, stale, hold>>

Heard(w) ==
    /\ page = "here" /\ w \in waiters
    /\ waiters' = waiters \ {w}
    /\ refresh' = IF waiters = {w} THEN "idle" ELSE refresh

\* A new token re-runs the effect, which owns that reconnect; the same one
\* does not, so the run connects again itself.  Mutant: it never does.
NeverReconnects == FALSE
SameToken == token = run

HearsOk(w) ==
    /\ refresh = "ok" /\ Heard(w)
    /\ IF w = "run" /\ SameToken
       THEN Connect(conn)
       ELSE UNCHANGED <<conn, abort, frames>>
    /\ UNCHANGED <<page, token, required, run, timer, backoff, seen, stale, hold>>

\* An auth verdict sends the page to /login, even from a run that was cancelled
\* meanwhile: the sign-out itself cancels it.
HearsVerdict(w) ==
    /\ refresh = "verdict" /\ Heard(w)
    /\ page' = "leaving"
    /\ UNCHANGED <<token, required, hook, stale, hold>>

\* Any other failure keeps retrying, for a run that is up and signed in.
\* Mutant: no run does.
GivesUp(w) == FALSE
Retries(w) == w = "run" /\ SignedIn

HearsFailure(w) ==
    /\ refresh = "failed" /\ Heard(w)
    /\ IF Retries(w)
       THEN ScheduleReconnect("refresh", FALSE)
       ELSE UNCHANGED <<backoff, timer>>
    /\ UNCHANGED <<page, token, required, run, conn, abort, frames, seen, stale, hold>>

-----------------------------------------------------------------------------
(* The server's end. *)

\* The server subscribes the connection; with a Last-Event-ID it replays the
\* notifications since.
ServerAccepts(s) ==
    /\ conn[s] = "connecting" /\ page = "here"
    /\ conn' = [conn EXCEPT ![s] = "accepted"]
    /\ \E replay \in IF seen THEN {{}, {"notification"}} ELSE {{}} :
          frames' = [frames EXCEPT ![s] = replay]
    /\ UNCHANGED <<page, token, required, run, abort, timer, backoff, seen, refresh, waiters,
                   stale, hold>>

\* A notification, or a change of plan, reaches every connection that is up.
ServerChanges(k) ==
    /\ page = "here"
    /\ stale' = stale \union {k}
    /\ frames' = [s \in Slots |-> IF conn[s] \in {"accepted", "open"}
                                  THEN frames[s] \union {k} ELSE frames[s]]
    /\ UNCHANGED <<page, token, required, run, conn, abort, timer, backoff, seen, refresh,
                   waiters, hold>>

\* The kinds an accepted connect refetches.  Mutant: the list only.
RefetchesList == {"notification"}
Refetches     == Kinds

\* The hook sees the response: whatever changed while it was down is refetched.
Opens(s) ==
    /\ conn[s] = "accepted" /\ Quiet
    /\ conn' = [conn EXCEPT ![s] = "open"]
    /\ stale' = stale \ Refetches
    /\ UNCHANGED <<page, token, required, run, abort, frames, timer, backoff, seen, refresh,
                   waiters, hold>>

\* A frame is handled; only a notification has an id and resets the backoff.
Frame(s, k) ==
    /\ conn[s] = "open" /\ k \in frames[s] /\ Quiet
    /\ frames' = [frames EXCEPT ![s] = @ \ {k}]
    /\ stale' = stale \ {k}
    /\ IF k = "notification"
       THEN backoff' = InitialBackoff /\ seen' = TRUE
       ELSE UNCHANGED <<backoff, seen>>
    /\ UNCHANGED <<page, token, required, run, conn, abort, timer, refresh, waiters, hold>>

RetryAfterOver ==
    /\ hold /\ hold' = FALSE
    /\ UNCHANGED <<page, token, required, hook, refresh, waiters, stale>>

-----------------------------------------------------------------------------
(* The rest of the page. *)

\* Any other request answered 403 PASSKEY_SETUP_REQUIRED.
SetupRequired ==
    /\ Quiet /\ SignedIn /\ ~required
    /\ required' = TRUE
    /\ UNCHANGED <<page, token, hook, refresh, waiters, stale, hold>>

\* finishPasskeySetup(): the passkey exists.
SetupFinished ==
    /\ Quiet /\ required
    /\ required' = FALSE
    /\ UNCHANGED <<page, token, hook, refresh, waiters, stale, hold>>

\* A sign-out in this tab or another leaves the page.
SignOut ==
    /\ Quiet /\ SignedIn
    /\ token' = NoToken /\ required' = FALSE
    /\ page' = "leaving"
    /\ UNCHANGED <<hook, refresh, waiters, stale, hold>>

\* The next page, signed in again, with an empty cache.
NextPage ==
    /\ page = "leaving"
    /\ page' = "here"
    /\ token' \in Tokens
    /\ required' = FALSE
    /\ run' = NoToken
    /\ conn' = [s \in Slots |-> "none"]
    /\ abort' = NoSlot
    /\ frames' = [s \in Slots |-> {}]
    /\ timer' = NoTimer
    /\ backoff' = InitialBackoff
    /\ seen' = FALSE
    /\ refresh' = "idle"
    /\ waiters' = {}
    /\ stale' = {}
    /\ hold' = FALSE

ConnStep(s) ==
    \/ Dropped(s) \/ Refused(s) \/ RefusedForSetup(s)
    \/ ServerAccepts(s) \/ Opens(s)
    \/ \E k \in Kinds : Frame(s, k)

RefreshStep ==
    \/ \E outcome \in {"ok", "verdict", "failed"} : RefreshSettles(outcome)
    \/ \E w \in waiters : HearsOk(w) \/ HearsVerdict(w) \/ HearsFailure(w)

Next ==
    \/ EffectRuns \/ TimerFires \/ OtherRefresh \/ RefreshStep
    \/ \E s \in Slots : ConnStep(s)
    \/ \E k \in Kinds : ServerChanges(k)
    \/ RetryAfterOver \/ SetupRequired \/ SetupFinished \/ SignOut \/ NextPage

Spec == Init /\ [][Next]_vars

\* Effects run, requests settle (axios: 30 s), and a timer that is due fires
\* whatever else keeps the page busy (the event loop starves no timer).  The
\* server and the refresh are not down for ever, and an accepted connect is not
\* always dropped before its response is read.
Fairness ==
    /\ WF_vars(EffectRuns) /\ WF_vars(RetryAfterOver)
    /\ SF_vars(TimerFires)
    /\ WF_vars(RefreshStep)
    /\ SF_vars("run" \in waiters /\ RefreshSettles("ok"))
    /\ \A s \in Slots : SF_vars(ServerAccepts(s)) /\ SF_vars(Opens(s))

FairSpec == Spec /\ Fairness

-----------------------------------------------------------------------------
(* Properties. *)

\* One stream per page, through token rotations, reconnects and the refreshes
\* of runs that were cancelled: two would show every notification twice and
\* count twice against the server's per-user cap (use-notifications.ts:118-120,
\* 185-188, 259-263).
OneStream == \A s \in Slots : Live(s) => s = abort

\* A signed-in page never sits with no stream and nothing that would bring it
\* back: every exit of a connection, a timer or a refresh leads to the next
\* one (use-notifications.ts:167-201, 249-253).
NeverParked ==
    Quiet /\ run # NoToken =>
        (\E s \in Slots : Live(s)) \/ timer # NoTimer \/ "run" \in waiters

\* A signed-in page has one stream, or one way back to it, and its state is well
\* formed (use-notifications.ts:98-201).
StreamKept == TypeOK /\ OneStream /\ NeverParked

\* While the stream is up, a cached answer is older than the server's only if
\* the frame that says so is still to be read: what changed while it was down
\* is refetched on connect (use-notifications.ts:141-154, 238-247).
CaughtUp == \A s \in Slots : conn[s] = "open" => stale \subseteq frames[s]

\* The backoff goes down only for a notification or when the stream unmounts,
\* never for a connect or a new token: each retry rotates the refresh cookie
\* (use-notifications.ts:98-102).
BackoffHolds ==
    [][backoff' < backoff =>
          \/ \E s \in Slots : frames[s] \ frames'[s] = {"notification"}
          \/ required \/ page = "leaving"]_vars

\* The stream comes back, unless the page signs out or leaves for setup, or other
\* requests rotate the token for ever (use-notifications.ts:167-201).
StreamReturns ==
    <>[][~OtherRefresh]_vars =>
        (run # NoToken ~>
            (\E s \in Slots : conn[s] = "open") \/ run = NoToken \/ page = "leaving")
=============================================================================
