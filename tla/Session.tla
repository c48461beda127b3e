------------------------------ MODULE Session ------------------------------
(***************************************************************************)
(* The browser session of the app: every open tab holds an access token in *)
(* memory (auth.store.ts), all tabs share one rotating refresh cookie, and *)
(* each tab restores, refreshes, switches and ends that session while the  *)
(* others do the same.                                                     *)
(*                                                                         *)
(* One step is one uninterrupted run of a tab's JavaScript (from one await *)
(* or event to the next), one decision of the API, or one page load.  What *)
(* the API does is external: it is modelled from the way http/ uses it.    *)
(*                                                                         *)
(* An access token is represented by the session it was issued for, so the *)
(* store's user is Owner[store[t]]; its expiry is the API's to declare at  *)
(* any answer.  A refresh token is a session and its age in the rotation.  *)
(***************************************************************************)
EXTENDS Naturals, FiniteSets, Sequences

CONSTANTS
    Tabs,         \* the tabs of one browser
    Sessions,     \* the sessions the API can create, in any order
    Users,        \* the people who sign in
    Owner,        \* the person each session belongs to
    NoSession,    \* "signed out", "no cookie", "nothing in flight"
    NoTab,        \* nobody holds the Web Lock
    UseLock,      \* whether the browser has Web Locks
    MaxMessages,  \* bound: undelivered auth-channel messages per tab
    Activity      \* bound: which tab does what, a set of <<tab, kind>>

ASSUME SessionAssumption ==
    /\ Owner \in [Sessions -> Users]
    /\ NoSession \notin Sessions \union Users
    /\ NoTab \notin Tabs
    /\ UseLock \in BOOLEAN
    /\ MaxMessages \in Nat \ {0}
    /\ Activity \subseteq Tabs \X
          {"close", "lose", "request", "background", "recover", "skew",
           "sign in", "sign out", "expire", "overtake"}

VARIABLES
    session,      \* the API's view of each session
    cookie,       \* the refresh token in the browser's cookie jar
    orphans,      \* refreshes on the wire whose page is gone
    page,         \* where each tab's page is in its life
    store,        \* the access token in each tab's auth store
    refresh,      \* the tab's one refresh (refresh-core's inFlight)
    callers,      \* who awaits that refresh
    request,      \* one API request of the tab
    verify,       \* a sign-in verify in flight, with the session it will open
    signout,      \* whether POST /auth/logout is in flight
    cached,       \* people whose answers are in the tab's query cache
    inbox,        \* auth-channel messages each tab has yet to hear
    holder,       \* the tab that holds the auth-refresh Web Lock
    unanswered,   \* history: sessions with a refresh whose answer nobody got
    overtaken     \* history: tabs whose own refresh a sign-in there overtook

server  == <<session, orphans, unanswered>>
tabVars == <<page, store, refresh, callers, request, verify, signout, cached,
             overtaken>>
vars    == <<server, cookie, tabVars, inbox, holder>>

-----------------------------------------------------------------------------
Ages     == {"current", "grace", "reused"}
Access   == Sessions \union {NoSession}
Tokens   == [session : Access, age : Ages]
NoCookie == [session |-> NoSession, age |-> "current"]
Messages == {"logout", "signed_in"}
Callers  == {"boot", "request", "elsewhere", "background", "recovery"}
\* "kept" is a ready page that a verdict signed out with nobody to leave it.
Pages    == {"closed", "loading", "ready", "kept", "leaving"}
Stages   == {"idle", "queued", "posting", "answered", "profiling"}
Refreshes == [stage : Stages, cred : Tokens, res : {"ok", "denied"}]
Requests  == [stage : {"none", "sent", "waiting"}, token : Access,
              by : Users \union {NoSession}, retried : BOOLEAN, kept : BOOLEAN]

Current(s)  == [session |-> s, age |-> "current"]
UserOf(a)   == IF a = NoSession THEN NoSession ELSE Owner[a]
IdleRefresh == [stage |-> "idle", cred |-> NoCookie, res |-> "ok"]
NoRequest   == [stage |-> "none", token |-> NoSession, by |-> NoSession,
                retried |-> FALSE, kept |-> TRUE]

May(t, kind) == <<t, kind>> \in Activity
SignedIn(t) == store[t] # NoSession
Loaded(t)   == page[t] # "closed"
Open(t)     == page[t] \in {"ready", "kept"}
Alive(s)    == s \in Sessions /\ session[s] = "alive"

TypeOK ==
    /\ session \in [Sessions -> {"unused", "alive", "ended", "revoked"}]
    /\ cookie \in Tokens
    /\ orphans \subseteq Tokens
    /\ page \in [Tabs -> Pages]
    /\ store \in [Tabs -> Access]
    /\ refresh \in [Tabs -> Refreshes]
    /\ callers \in [Tabs -> SUBSET Callers]
    /\ request \in [Tabs -> Requests]
    /\ verify \in [Tabs -> Access]
    /\ signout \in [Tabs -> BOOLEAN]
    /\ cached \in [Tabs -> SUBSET Users]
    /\ inbox \in [Tabs -> Seq(Messages)]
    /\ holder \in Tabs \union {NoTab}
    /\ unanswered \subseteq Sessions
    /\ overtaken \subseteq Tabs

-----------------------------------------------------------------------------
(* The API's refresh-token rotation (external). *)

\* A rotation of session s turns every other copy of its token into a used one
\* ("current" to "grace"); when the grace window closes, a used copy becomes one
\* the API answers by revoking ("grace" to "reused").
Aged(tok, s, old, new) ==
    IF tok.session = s /\ tok.age = old THEN [tok EXCEPT !.age = new] ELSE tok

\* Copies of a refresh token live in the cookie jar, in posts and answers on
\* the wire, and in the posts of pages that are gone.
OnWire(t) == refresh[t].stage \in {"posting", "answered"}
AgedRefresh(s, old, new) ==
    [t \in Tabs |-> IF OnWire(t) THEN [refresh[t] EXCEPT !.cred = Aged(@, s, old, new)]
                    ELSE refresh[t]]
AgedAll(toks, s, old, new) == {Aged(o, s, old, new) : o \in toks}

\* What POST /auth/refresh makes of tok: rotate a current token, answer a used
\* one inside the grace window with a sibling, revoke the session of one used
\* again after it, refuse one whose session is over.
Rotates(tok)   == Alive(tok.session) /\ tok.age = "current"
Honoured(tok)  == Alive(tok.session) /\ tok.age # "reused"
SessionAfter(tok) ==
    IF Alive(tok.session) /\ tok.age = "reused"
    THEN [session EXCEPT ![tok.session] = "revoked"] ELSE session

-----------------------------------------------------------------------------
(* The auth BroadcastChannel and the tab-local effects. *)

\* Bound: a tab posts while every other has room.
Room(t) == \A o \in Tabs \ {t} : Len(inbox[o]) < MaxMessages

\* Every other loaded tab hears m; the poster does not.
Broadcast(t, m, box) ==
    [o \in Tabs |-> IF o # t /\ Loaded(o) THEN Append(box[o], m) ELSE box[o]]

\* Mutant: the refresh does not queue on the Web Lock.
JoinUnlocked(t, c) ==
    /\ callers' = [callers EXCEPT ![t] = @ \union {c}]
    /\ UNCHANGED holder
    /\ IF refresh[t].stage # "idle"
       THEN UNCHANGED refresh
       ELSE refresh' = [refresh EXCEPT ![t] =
               [IdleRefresh EXCEPT !.stage = "posting", !.cred = cookie]]

\* ensureSession() called by c: join the refresh in flight, or start one.
Join(t, c) ==
    /\ callers' = [callers EXCEPT ![t] = @ \union {c}]
    /\ UNCHANGED holder
    /\ IF refresh[t].stage # "idle"
       THEN UNCHANGED refresh
       ELSE refresh' = [refresh EXCEPT ![t] =
               IF UseLock THEN [IdleRefresh EXCEPT !.stage = "queued"]
               ELSE [IdleRefresh EXCEPT !.stage = "posting", !.cred = cookie]]

\* The lock passes on when its holder's refresh settles or its page goes.
\* Mutant: it never does.
NeverReleased(t) == holder
Released(t) == IF holder = t THEN NoTab ELSE holder

Init ==
    /\ \E s \in Sessions \union {NoSession} :
          /\ session = [x \in Sessions |-> IF x = s THEN "alive" ELSE "unused"]
          /\ cookie = Current(s)
    /\ orphans = {}
    /\ page = [t \in Tabs |-> "closed"]
    /\ store = [t \in Tabs |-> NoSession]
    /\ refresh = [t \in Tabs |-> IdleRefresh]
    /\ callers = [t \in Tabs |-> {}]
    /\ request = [t \in Tabs |-> NoRequest]
    /\ verify = [t \in Tabs |-> NoSession]
    /\ signout = [t \in Tabs |-> FALSE]
    /\ cached = [t \in Tabs |-> {}]
    /\ inbox = [t \in Tabs |-> <<>>]
    /\ holder = NoTab
    /\ unanswered = {}
    /\ overtaken = {}

-----------------------------------------------------------------------------
(* Page loads. *)

\* Mutant: a refresh that carried no cookie counts as a lost rotation.
AbandonAny(t) ==
    /\ orphans' = IF refresh[t].stage = "posting"
                  THEN orphans \union {refresh[t].cred} ELSE orphans
    /\ unanswered' = IF OnWire(t)
                     THEN unanswered \union {refresh[t].cred.session} ELSE unanswered

\* Nobody will hear the answer to t's refresh.  A post the API has not handled
\* stays on the wire; an answer that rotated the token is lost with its cookie.
Abandon(t) ==
    /\ orphans' = IF refresh[t].stage = "posting"
                  THEN orphans \union {refresh[t].cred} ELSE orphans
    /\ unanswered' = IF OnWire(t) /\ refresh[t].cred.session # NoSession
                     THEN unanswered \union {refresh[t].cred.session} ELSE unanswered

\* A page is discarded with its memory, its place in the lock's queue and its
\* unread messages.
Discard(t) ==
    /\ store' = [store EXCEPT ![t] = NoSession]
    /\ request' = [request EXCEPT ![t] = NoRequest]
    /\ verify' = [verify EXCEPT ![t] = NoSession]
    /\ signout' = [signout EXCEPT ![t] = FALSE]
    /\ cached' = [cached EXCEPT ![t] = {}]
    /\ overtaken' = overtaken \ {t}
    /\ inbox' = [inbox EXCEPT ![t] = <<>>]
    /\ callers' = [callers EXCEPT ![t] = {}]
    /\ refresh' = [refresh EXCEPT ![t] = IdleRefresh]
    /\ holder' = Released(t)
    /\ Abandon(t)
    /\ UNCHANGED <<session, cookie>>

\* bootstrapSession(): every page load restores the session with one refresh.
Load(t) ==
    /\ page[t] = "closed"
    /\ page' = [page EXCEPT ![t] = "loading"]
    /\ Join(t, "boot")
    /\ UNCHANGED <<server, cookie, store, request, verify, signout, cached, overtaken,
                   inbox>>

\* The document redirectToLogin() asked for replaces the page.
Unload(t) ==
    /\ page[t] = "leaving"
    /\ page' = [page EXCEPT ![t] = "closed"]
    /\ Discard(t)

\* The person closes or reloads the tab, in the middle of anything.
CloseTab(t) ==
    /\ May(t, "close")
    /\ page[t] = "loading" \/ Open(t)
    /\ page' = [page EXCEPT ![t] = "closed"]
    /\ Discard(t)

-----------------------------------------------------------------------------
(* ensureSession(). *)

\* The Web Lock is free and granted to a tab that waits for it: its refresh goes
\* out with the cookie of that moment.
LockGranted(t) ==
    /\ refresh[t].stage = "queued"
    /\ holder = NoTab
    /\ holder' = t
    /\ refresh' = [refresh EXCEPT ![t] = [@ EXCEPT !.stage = "posting", !.cred = cookie]]
    /\ UNCHANGED <<server, cookie, page, store, callers, request, verify, signout,
                   cached, overtaken, inbox>>

\* The API answers a refresh.  A rotation ages every other copy of the token.
ServeRefresh(t) ==
    LET tok == refresh[t].cred
        s   == tok.session
        answered == [stage |-> "answered",
                     cred  |-> IF Honoured(tok) THEN Current(s) ELSE NoCookie,
                     res   |-> IF Honoured(tok) THEN "ok" ELSE "denied"]
    IN /\ refresh[t].stage = "posting"
       /\ session' = SessionAfter(tok)
       /\ IF Rotates(tok)
          THEN /\ cookie' = Aged(cookie, s, "current", "grace")
               /\ orphans' = AgedAll(orphans, s, "current", "grace")
               /\ refresh' = [AgedRefresh(s, "current", "grace") EXCEPT ![t] = answered]
          ELSE /\ refresh' = [refresh EXCEPT ![t] = answered]
               /\ UNCHANGED <<cookie, orphans>>
       /\ UNCHANGED <<page, store, callers, request, verify, signout, cached, overtaken,
                      inbox, holder, unanswered>>

\* The API handles a refresh nobody waits for any more, or never gets it.
ServeOrphan(tok) ==
    /\ tok \in orphans
    /\ \/ /\ session' = SessionAfter(tok)
          /\ IF Rotates(tok)
             THEN /\ cookie' = Aged(cookie, tok.session, "current", "grace")
                  /\ orphans' = AgedAll(orphans \ {tok}, tok.session, "current", "grace")
                  /\ refresh' = AgedRefresh(tok.session, "current", "grace")
             ELSE /\ orphans' = orphans \ {tok}
                  /\ UNCHANGED <<cookie, refresh>>
       \/ /\ orphans' = orphans \ {tok}
          /\ UNCHANGED <<session, cookie, refresh>>
    /\ UNCHANGED <<unanswered, page, store, callers, request, verify, signout, cached,
                   overtaken, inbox, holder>>

\* Ten seconds after a rotation, the API's reuse grace window closes.
GraceEnds(s) ==
    /\ cookie' = Aged(cookie, s, "grace", "reused")
    /\ orphans' = AgedAll(orphans, s, "grace", "reused")
    /\ refresh' = AgedRefresh(s, "grace", "reused")
    /\ refresh' # refresh \/ cookie' # cookie \/ orphans' # orphans
    /\ UNCHANGED <<session, unanswered, page, store, callers, request, verify,
                   signout, cached, overtaken, inbox, holder>>

\* The refresh promise settles, inFlight is cleared, every caller runs and the
\* lock passes on.  Mutant: inFlight is kept.
SettledKept(t) ==
    /\ callers' = [callers EXCEPT ![t] = {}]
    /\ UNCHANGED <<refresh, holder>>
Settled(t) ==
    /\ refresh' = [refresh EXCEPT ![t] = IdleRefresh]
    /\ callers' = [callers EXCEPT ![t] = {}]
    /\ holder' = Released(t)

\* bootstrapSession() marks the page bootstrapped however the refresh settled.
Bootstrapped(p) == IF p = "loading" THEN "ready" ELSE p

\* A request that waited for the refresh rejects.  Mutant: its error is swallowed.
WaiterKept(r) == r
WaiterRejected(r) == IF r.stage = "waiting" THEN NoRequest ELSE r

\* It rejects without judging anybody (a 5xx, a 429, a timeout, no response):
\* the store is left alone.
FailRefresh(t) ==
    /\ Settled(t)
    /\ page' = [page EXCEPT ![t] = Bootstrapped(@)]
    /\ request' = [request EXCEPT ![t] = WaiterRejected(@)]
    /\ UNCHANGED <<store, inbox>>

\* The other tabs are told only when this tab was signed in and the cookie is
\* still its own.  Mutants: whenever the cookie is, and whoever's it is.
AnnouncesAnyway(t, identityChanged) == ~identityChanged
AnnouncesTheOther(t, identityChanged) == SignedIn(t)
Announces(t, identityChanged) == SignedIn(t) /\ ~identityChanged

\* What a verdict does to the page.  The callers that work behind sign-in load
\* /login anew, which drops the page's memory.  The end of maintenance and an
\* emailed confirmation do not: the page is kept, and at most the router takes
\* it to /login.  Nor does a page load, or a tab that waits for a link.
\* Mutant: none of them leaves.
PageStays(t) == Bootstrapped(page[t])
PageAfterVerdict(t) ==
    IF callers[t] \intersect {"request", "background"} # {} THEN "leaving"
    ELSE IF "recovery" \in callers[t] /\ SignedIn(t) THEN "kept"
    ELSE Bootstrapped(page[t])

\* It rejects with an auth verdict, which signs the store out.
Verdict(t, identityChanged) ==
    /\ Settled(t)
    /\ store' = [store EXCEPT ![t] = NoSession]
    /\ IF Announces(t, identityChanged)
       THEN Room(t) /\ inbox' = Broadcast(t, "logout", inbox)
       ELSE UNCHANGED inbox
    /\ page' = [page EXCEPT ![t] = PageAfterVerdict(t)]
    /\ request' = [request EXCEPT ![t] = WaiterRejected(@)]

\* Mutant: the lock covers the POST alone.
RefreshAnsweredUnlocks(t) ==
    /\ refresh[t].stage = "answered" /\ refresh[t].res = "ok"
    /\ cookie' = refresh[t].cred
    /\ refresh' = [refresh EXCEPT ![t].stage = "profiling"]
    /\ holder' = Released(t)
    /\ UNCHANGED <<server, page, store, callers, request, inbox, verify, signout, cached,
                   overtaken>>

\* The answer to POST /auth/refresh reaches the tab.
RefreshAnswered(t) ==
    /\ refresh[t].stage = "answered"
    /\ \/ /\ refresh[t].res = "ok"
          /\ cookie' = refresh[t].cred
          /\ refresh' = [refresh EXCEPT ![t] =
                [stage |-> "profiling", cred |-> Current(refresh[t].cred.session),
                 res |-> "ok"]]
          /\ UNCHANGED <<page, store, callers, request, inbox, holder>>
       \/ /\ refresh[t].res = "denied"
          /\ Verdict(t, FALSE)
          /\ UNCHANGED cookie
    /\ UNCHANGED <<server, verify, signout, cached, overtaken>>

\* The refresh gets no answer: it is refused on the way, times out, or is
\* answered by something that judges nobody (a 502, a 429).
RefreshLost(t) ==
    /\ May(t, "lose")
    /\ OnWire(t)
    /\ FailRefresh(t)
    /\ Abandon(t)
    /\ UNCHANGED <<session, cookie, verify, signout, cached, overtaken>>

\* Whether the refreshed session is this tab's person's, or the tab has none.
\* Mutant: the identity is not compared.
AnyPerson(t, s) == TRUE
SamePerson(t, s) == SignedIn(t) => UserOf(store[t]) = Owner[s]

\* GET /profile answers with the person the new token belongs to, with a 401
\* once the session is over or when a clock takes the token it has just minted
\* for an expired one, or not at all.  Every 401 counts as a verdict; somebody
\* else than the tab's user is one that is not announced.
ProfileAnswered(t) ==
    LET s == refresh[t].cred.session
    IN /\ refresh[t].stage = "profiling"
       /\ \/ /\ SamePerson(t, s)
             /\ Settled(t)
             /\ store' = [store EXCEPT ![t] = s]
             /\ page' = [page EXCEPT ![t] = Bootstrapped(@)]
             /\ request' = [request EXCEPT ![t] =
                   IF @.stage = "waiting" THEN [@ EXCEPT !.stage = "sent", !.token = s]
                   ELSE @]
             /\ UNCHANGED inbox
          \/ ~SamePerson(t, s) /\ Verdict(t, TRUE)
          \/ (~Alive(s) \/ May(t, "skew")) /\ Verdict(t, FALSE)
          \/ May(t, "lose") /\ FailRefresh(t)
       /\ UNCHANGED <<server, cookie, verify, signout, cached, overtaken>>

\* A signed-in tab refreshes for a caller that leaves on a verdict: the
\* notification stream's reconnect, analytics' report of another person, a
\* step-up that resumes.
RefreshInBackground(t) ==
    /\ May(t, "background")
    /\ Open(t) /\ SignedIn(t)
    /\ "background" \notin callers[t]
    /\ Join(t, "background")
    /\ UNCHANGED <<server, cookie, page, store, request, verify, signout, cached,
                   overtaken, inbox>>

\* A page refreshes for one that swallows a verdict: the recovery when full
\* maintenance ends, signed in or out, or the page of an emailed confirmation.
RefreshToRecover(t) ==
    /\ May(t, "recover")
    /\ Open(t)
    /\ "recovery" \notin callers[t]
    /\ Join(t, "recovery")
    /\ UNCHANGED <<server, cookie, page, store, request, verify, signout, cached,
                   overtaken, inbox>>

-----------------------------------------------------------------------------
(* API requests and the 401 interceptor. *)

\* The request interceptor attaches the store's token, when it has one.
SendRequest(t) ==
    /\ May(t, "request")
    /\ Open(t)
    /\ request[t].stage = "none"
    /\ request' = [request EXCEPT ![t] = [NoRequest EXCEPT !.stage = "sent",
                                          !.token = store[t], !.by = UserOf(store[t])]]
    /\ UNCHANGED <<server, cookie, page, store, refresh, callers, verify, signout,
                   cached, overtaken, inbox, holder>>

\* Any plain rejection: no response, a status that judges nobody, a 401 on a
\* request without a token, or a second expiry.
RequestRejected(t) ==
    /\ request[t].stage = "sent"
    /\ request' = [request EXCEPT ![t] = NoRequest]
    /\ UNCHANGED <<server, cookie, page, store, refresh, callers, verify, signout,
                   cached, overtaken, inbox, holder>>

\* A 2xx: the answer, the token owner's data, enters the query cache unless the
\* query was dropped from it meanwhile.
RequestSucceeded(t) ==
    /\ request[t].stage = "sent"
    /\ request[t].token # NoSession
    /\ request' = [request EXCEPT ![t] = NoRequest]
    /\ cached' = [cached EXCEPT ![t] =
                    IF request[t].kept THEN @ \union {Owner[request[t].token]} ELSE @]
    /\ UNCHANGED <<server, cookie, page, store, refresh, callers, verify, signout,
                   overtaken, inbox, holder>>

\* 401 ACCESS_TOKEN_EXPIRED, once per request: refresh and wait to replay.
RequestExpired(t) ==
    /\ request[t].stage = "sent"
    /\ request[t].token # NoSession
    /\ ~request[t].retried
    /\ request' = [request EXCEPT ![t] = [@ EXCEPT !.stage = "waiting", !.retried = TRUE]]
    /\ Join(t, "request")
    /\ UNCHANGED <<server, cookie, page, store, verify, signout, cached, overtaken,
                   inbox>>

\* Whether a 401 judges the session of the request's token.
Refused(t)    == request[t].token # NoSession /\ ~Alive(request[t].token)

\* Any other 401 on a request that carried a token: the verdict on its session
\* signs this tab out, tells the others and leaves for /login.
RequestRefused(t) ==
    /\ request[t].stage = "sent"
    /\ Refused(t)
    /\ Room(t)
    /\ request' = [request EXCEPT ![t] = NoRequest]
    /\ store' = [store EXCEPT ![t] = NoSession]
    /\ inbox' = Broadcast(t, "logout", inbox)
    /\ page' = [page EXCEPT ![t] = "leaving"]
    /\ UNCHANGED <<server, cookie, refresh, callers, verify, signout, cached, overtaken,
                   holder>>

-----------------------------------------------------------------------------
(* Sign-in, sign-out and the other tabs' messages. *)

\* A mailed link, a passkey or an invitation is verified, signed out.
SendVerify(t, s) ==
    /\ May(t, "sign in")
    /\ Open(t) /\ ~SignedIn(t)
    /\ verify[t] = NoSession
    /\ session[s] = "unused"
    /\ \A o \in Tabs : verify[o] # s
    /\ verify' = [verify EXCEPT ![t] = s]
    /\ UNCHANGED <<server, cookie, page, store, refresh, callers, request, signout,
                   cached, overtaken, inbox, holder>>

\* It signs in: switchIdentity() first ends a different user's session in this
\* tab and tells the others, then login(), then signed_in.  Bound: whether it may
\* land while the tab's own refresh is under way ("overtake").
VerifyAnswered(t) ==
    LET s == verify[t]
        switched == SignedIn(t) /\ UserOf(store[t]) # Owner[s]
    IN /\ s # NoSession
       /\ refresh[t].stage = "idle" \/ May(t, "overtake")
       /\ Room(t)
       /\ verify' = [verify EXCEPT ![t] = NoSession]
       /\ session' = [session EXCEPT ![s] = "alive"]
       /\ cookie' = Current(s)
       /\ store' = [store EXCEPT ![t] = s]
       /\ cached' = [cached EXCEPT ![t] = IF switched THEN {} ELSE @]
       /\ overtaken' = IF refresh[t].stage = "idle" THEN overtaken
                        ELSE overtaken \union {t}
       /\ request' = [request EXCEPT ![t] =
             IF switched /\ @.stage # "none" THEN [@ EXCEPT !.kept = FALSE] ELSE @]
       /\ inbox' = Broadcast(t, "signed_in",
                             IF switched THEN Broadcast(t, "logout", inbox) ELSE inbox)
       /\ UNCHANGED <<orphans, unanswered, page, refresh, callers, signout, holder>>

VerifyFailed(t) ==
    /\ verify[t] # NoSession
    /\ verify' = [verify EXCEPT ![t] = NoSession]
    /\ UNCHANGED <<server, cookie, page, store, refresh, callers, request, signout,
                   cached, overtaken, inbox, holder>>

\* useLogout(): the API is asked first.
SendLogout(t) ==
    /\ May(t, "sign out")
    /\ Open(t) /\ SignedIn(t) /\ ~signout[t]
    /\ signout' = [signout EXCEPT ![t] = TRUE]
    /\ UNCHANGED <<server, cookie, page, store, refresh, callers, request, verify,
                   cached, overtaken, inbox, holder>>

\* A success ends the session of the browser's refresh cookie; a 401, whatever
\* it judged, ends the session here alone.  Both are told to the other tabs.
LogoutAnswered(t) ==
    /\ signout[t]
    /\ Room(t)
    /\ signout' = [signout EXCEPT ![t] = FALSE]
    /\ \/ session' = [x \in Sessions |-> IF x = cookie.session /\ Alive(x) THEN "ended"
                                         ELSE session[x]]
       \/ UNCHANGED session
    /\ store' = [store EXCEPT ![t] = NoSession]
    /\ inbox' = Broadcast(t, "logout", inbox)
    /\ page' = [page EXCEPT ![t] = "leaving"]
    /\ UNCHANGED <<orphans, unanswered, cookie, refresh, callers, request, verify,
                   cached, overtaken, holder>>

LogoutFailed(t) ==
    /\ signout[t]
    /\ signout' = [signout EXCEPT ![t] = FALSE]
    /\ UNCHANGED <<server, cookie, page, store, refresh, callers, request, verify,
                   cached, overtaken, inbox, holder>>

\* A logout ends a signed-in tab and sends it to /login; a signed-out tab with
\* a link out restores the shared session on signed_in.  Otherwise: ignored.
HearMessage(t) ==
    /\ inbox[t] # <<>>
    /\ LET m == Head(inbox[t])
       IN \/ /\ m = "logout" /\ SignedIn(t)
             /\ store' = [store EXCEPT ![t] = NoSession]
             /\ page' = [page EXCEPT ![t] = "leaving"]
             /\ UNCHANGED <<refresh, callers, holder>>
          \/ /\ m = "signed_in" /\ ~SignedIn(t) /\ Open(t)
             /\ "elsewhere" \notin callers[t]
             /\ Join(t, "elsewhere")
             /\ UNCHANGED <<store, page>>
          \/ /\ m = "logout" => ~SignedIn(t)
             /\ UNCHANGED <<store, page, refresh, callers, holder>>
    /\ inbox' = [inbox EXCEPT ![t] = Tail(@)]
    /\ UNCHANGED <<server, cookie, request, verify, signout, cached, overtaken>>

\* The API ends a session by itself: absolute lifetime, "sign out everywhere".
SessionEnds(s) ==
    /\ \E t \in Tabs : May(t, "expire")
    /\ Alive(s)
    /\ session' = [session EXCEPT ![s] = "ended"]
    /\ UNCHANGED <<orphans, unanswered, cookie, tabVars, inbox, holder>>

TabStep(t) ==
    \/ Load(t) \/ Unload(t) \/ CloseTab(t)
    \/ LockGranted(t) \/ ServeRefresh(t) \/ RefreshAnswered(t) \/ RefreshLost(t)
    \/ ProfileAnswered(t) \/ RefreshInBackground(t) \/ RefreshToRecover(t)
    \/ SendRequest(t) \/ RequestRejected(t) \/ RequestSucceeded(t)
    \/ RequestExpired(t) \/ RequestRefused(t)
    \/ VerifyAnswered(t) \/ VerifyFailed(t)
    \/ SendLogout(t) \/ LogoutAnswered(t) \/ LogoutFailed(t)
    \/ HearMessage(t)
    \/ \E s \in Sessions : SendVerify(t, s)

Next ==
    \/ \E t \in Tabs : TabStep(t)
    \/ \E tok \in Tokens : ServeOrphan(tok)
    \/ \E s \in Sessions : GraceEnds(s) \/ SessionEnds(s)

Spec == Init /\ [][Next]_vars

\* Every request is answered or times out (axios: 30 s), a navigation commits,
\* and Web Locks serve their queue in order, so a waiting tab is not passed
\* over for ever.
Fairness ==
    \A t \in Tabs :
        /\ SF_vars(LockGranted(t))
        /\ WF_vars(ServeRefresh(t))
        /\ WF_vars(RefreshAnswered(t))
        /\ WF_vars(ProfileAnswered(t))
        /\ WF_vars(Unload(t))
        /\ WF_vars(HearMessage(t))

FairSpec == Spec /\ Fairness

-----------------------------------------------------------------------------
(* Properties. *)

\* Presenting a used refresh token after the grace window makes the API revoke
\* the whole session.  Tabs that queue on the Web Lock do that to themselves
\* only after a refresh whose answer nobody received (refresh-core.ts:68-98,
\* session.ts:200-211).
RevokedOnlyAfterLostAnswer ==
    UseLock => \A s \in Sessions : session[s] = "revoked" => s \in unanswered

\* Why: while the lock covers every refresh, a session that lost no answer has
\* one usable copy of its token, in the cookie jar or on its way there.
Working(t) == refresh[t].stage \notin {"idle", "queued"}
OneAtATime == \A t \in Tabs : Working(t) <=> holder = t
Unspoilt(s) ==
    /\ session[s] # "revoked"
    /\ \A o \in orphans : o.session # s
    /\ \A t \in Tabs : OnWire(t) /\ refresh[t].cred.session = s
                         => refresh[t].cred.age = "current"
    /\ cookie.session = s /\ cookie.age # "current"
          => \E t \in Tabs : /\ refresh[t].stage = "answered" /\ refresh[t].res = "ok"
                             /\ refresh[t].cred.session = s
RotationInv == UseLock => OneAtATime /\ \A s \in Sessions \ unanswered : Unspoilt(s)

\* A request replayed after a refresh goes out as the person who made it, for
\* as long as its page stays and nobody else signs in there while it is out
\* (refresh-core.ts:128-130, interceptors.ts:200-214).  Two kinds of page are
\* exempt: one whose own refresh a sign-in overtook, since the check reads a later
\* user, and one that was kept after a verdict, whose memory nothing drops.
Stays(t) == page[t] = "ready" /\ t \notin overtaken
ReplayedAsItself ==
    \A t \in Tabs :
        Stays(t) /\ request[t].stage = "sent" /\ request[t].retried /\ request[t].kept =>
            UserOf(request[t].token) = request[t].by

\* A page that stays shows the signed-in person's data only: whatever ended
\* another person's session there also emptied the cache or left the page
\* (session.ts:134-141, 110-115), but for the recovery of maintenance-mode.ts:66-69
\* and the confirmation of step-up.queries.ts:49-54, which keep both.
CacheIsOwn ==
    \A t \in Tabs : Stays(t) => cached[t] \subseteq {UserOf(store[t])}

\* Neither a request nor the data on a page passes from one person to the next
\* (refresh-core.ts:128-130, session.ts:110-115) unless a sign-in overtook a
\* refresh there or nobody left the page on a verdict.
OwnData == ReplayedAsItself /\ CacheIsOwn

\* A refresh tells the other tabs to sign out only when its own tab was signed
\* in, on a session that is over or no longer the browser's; and one that came
\* back with a profile, only when the session it came back with is over too, and
\* not when it is somebody else's (refresh-core.ts:134-144).  Exempt: a tab whose
\* refresh a sign-in overtook, and one whose fresh token the API refuses, since
\* that 401 judges no session and is announced like one that does
\* (interceptors.ts:26-29, auth-verdict.ts:58-62).  Without Web Locks, a late
\* answer of a third tab may put the session back under a verdict on another one.
Gone(s) == s \in Sessions /\ (session'[s] # "alive" \/ cookie'.session # s)
HearsLogout(o) ==
    \E i \in DOMAIN inbox'[o] \ DOMAIN inbox[o] : inbox'[o][i] = "logout"
Settles(t) == refresh[t].stage # "idle" /\ refresh'[t].stage = "idle"
Excused(t) ==
    /\ SignedIn(t)
    /\ \/ t \in overtaken
       \/ refresh[t].stage = "profiling" /\ May(t, "skew")
       \/ /\ Gone(store[t])
          /\ refresh[t].stage = "profiling" => Gone(refresh[t].cred.session)
AnnouncedOnlyWhenGone ==
    [][UseLock /\ (\E o \in Tabs : HearsLogout(o)) =>
         \A t \in Tabs : Settles(t) => Excused(t)]_vars

\* Every caller of ensureSession() gets an answer (session.ts:216-218): no
\* rejection, closed tab or other tab's refresh wedges the next one.
RefreshSettles == \A t \in Tabs : callers[t] # {} ~> callers[t] = {}

\* A request that waits for a refresh is replayed or rejected.
ReplaySettles ==
    \A t \in Tabs : request[t].stage = "waiting" ~> request[t].stage # "waiting"

\* Whoever waits for a refresh is answered (session.ts:216-218, interceptors.ts:200-214).
AllAnswered == RefreshSettles /\ ReplaySettles

\* Across tabs, refreshes take turns (RefreshTurns), when the browser has Web
\* Locks: a turn lasts from the POST to the settled profile, and a closed tab
\* gives its own up, and every tab that keeps waiting gets one.
Turns == INSTANCE RefreshTurns WITH
    Workers <- Tabs,
    waiting <- {t \in Tabs : refresh[t].stage = "queued"},
    working <- {t \in Tabs : Working(t)}
EveryTurnComes == Turns!FairSpec
=============================================================================
