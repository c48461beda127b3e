--------------------------- MODULE Session_proofs ---------------------------
(* Proofs about Session, for every set of tabs, sessions and people. *)
EXTENDS Session, TLAPS

-----------------------------------------------------------------------------
(* Type correctness. *)

\* What starts out empty, and every session's current token, are well typed.
LEMMA Constants ==
    /\ NoCookie \in Tokens
    /\ IdleRefresh \in Refreshes
    /\ NoRequest \in Requests
    /\ \A s \in Access : Current(s) \in Tokens
    /\ \A s \in Access : UserOf(s) \in Users \union {NoSession}
BY SessionAssumption DEF NoCookie, Tokens, Access, Ages, IdleRefresh, Refreshes, Stages,
   NoRequest, Requests, Current, UserOf

\* A broadcast keeps every inbox a sequence of messages.
LEMMA BroadcastType ==
    ASSUME NEW box \in [Tabs -> Seq(Messages)], NEW t \in Tabs, NEW m \in Messages
    PROVE  Broadcast(t, m, box) \in [Tabs -> Seq(Messages)]
BY DEF Broadcast, Loaded

\* Ageing a refresh token yields a refresh token.
LEMMA AgedType ==
    ASSUME NEW tok \in Tokens, NEW s, NEW old \in Ages, NEW new \in Ages
    PROVE  Aged(tok, s, old, new) \in Tokens
BY DEF Aged, Tokens

\* Aging the tokens on the wire leaves every refresh well typed.
LEMMA AgedRefreshType ==
    ASSUME TypeOK, NEW s, NEW old \in Ages, NEW new \in Ages
    PROVE  AgedRefresh(s, old, new) \in [Tabs -> Refreshes]
<1>1. ASSUME NEW t \in Tabs
      PROVE  [refresh[t] EXCEPT !.cred = Aged(refresh[t].cred, s, old, new)] \in Refreshes
  <2>1. refresh[t] \in Refreshes /\ refresh[t].cred \in Tokens
    BY DEF TypeOK, Refreshes
  <2>2. Aged(refresh[t].cred, s, old, new) \in Tokens
    BY <2>1, AgedType
  <2> QED
    BY <2>1, <2>2 DEF Refreshes
<1> QED
  BY <1>1 DEF AgedRefresh, TypeOK

\* Joining or starting a refresh keeps its types.
LEMMA JoinType ==
    ASSUME TypeOK, NEW t \in Tabs, NEW c \in Callers, Join(t, c)
    PROVE  /\ refresh' \in [Tabs -> Refreshes]
           /\ callers' \in [Tabs -> SUBSET Callers]
           /\ holder' = holder
<1>1. /\ [IdleRefresh EXCEPT !.stage = "queued"] \in Refreshes
      /\ [IdleRefresh EXCEPT !.stage = "posting", !.cred = cookie] \in Refreshes
  BY Constants DEF Refreshes, Stages, TypeOK
<1> QED
  BY <1>1 DEF Join, TypeOK

\* So does a refresh that settles, for its callers and the lock.
LEMMA SettledType ==
    ASSUME TypeOK, NEW t \in Tabs, Settled(t)
    PROVE  /\ refresh' \in [Tabs -> Refreshes]
           /\ callers' \in [Tabs -> SUBSET Callers]
           /\ holder' \in Tabs \union {NoTab}
BY Constants DEF Settled, Released, TypeOK

\* A request whose refresh was rejected is still a request.
LEMMA WaiterType ==
    ASSUME NEW r \in Requests
    PROVE  WaiterRejected(r) \in Requests
BY Constants DEF WaiterRejected

\* A page that has restored its session is still a page.
LEMMA PageType ==
    ASSUME NEW p \in Pages
    PROVE  Bootstrapped(p) \in Pages
BY DEF Bootstrapped, Pages

\* A rejected refresh keeps the types of what it touches, verdict or not.
LEMMA FailType ==
    ASSUME TypeOK, NEW t \in Tabs, FailRefresh(t)
    PROVE  /\ page' \in [Tabs -> Pages]
           /\ store' \in [Tabs -> Access]
           /\ request' \in [Tabs -> Requests]
           /\ inbox' \in [Tabs -> Seq(Messages)]
BY WaiterType, PageType DEF FailRefresh, TypeOK

\* A verdict on the session keeps the page, the store, the request and the channel typed.
LEMMA VerdictType ==
    ASSUME TypeOK, NEW t \in Tabs, NEW c \in BOOLEAN, Verdict(t, c)
    PROVE  /\ page' \in [Tabs -> Pages]
           /\ store' \in [Tabs -> Access]
           /\ request' \in [Tabs -> Requests]
           /\ inbox' \in [Tabs -> Seq(Messages)]
<1>1. inbox' \in [Tabs -> Seq(Messages)]
  <2>1. inbox \in [Tabs -> Seq(Messages)] /\ "logout" \in Messages
    BY DEF TypeOK, Messages
  <2>2. Broadcast(t, "logout", inbox) \in [Tabs -> Seq(Messages)]
    BY <2>1, BroadcastType
  <2> QED
    BY <2>1, <2>2 DEF Verdict
<1>2. page' \in [Tabs -> Pages]
  <2>1. PageAfterVerdict(t) \in Pages
    BY PageType DEF PageAfterVerdict, TypeOK, Pages
  <2> QED
    BY <2>1 DEF Verdict, TypeOK
<1>3. request' \in [Tabs -> Requests]
  BY WaiterType DEF Verdict, TypeOK
<1>4. store' \in [Tabs -> Access]
  BY DEF Verdict, TypeOK, Access
<1> QED
  BY <1>1, <1>2, <1>3, <1>4

\* The types hold at the start.
LEMMA TypeInit == Init => TypeOK
<1> SUFFICES ASSUME Init PROVE TypeOK
  OBVIOUS
<1>1. PICK s \in Access : /\ session = [x \in Sessions |-> IF x = s THEN "alive" ELSE "unused"]
                          /\ cookie = Current(s)
  BY DEF Init, Access
<1>2. cookie \in Tokens
  BY <1>1, Constants
<1> QED
  BY <1>1, <1>2, Constants DEF Init, TypeOK, Pages, Access

\* A post that nobody waits for is a token, of a session that went unanswered.
LEMMA AbandonType ==
    ASSUME TypeOK, NEW t \in Tabs, Abandon(t)
    PROVE  orphans' \subseteq Tokens /\ unanswered' \subseteq Sessions
<1>1. refresh[t] \in Refreshes /\ refresh[t].cred \in Tokens
  BY DEF TypeOK, Refreshes
<1>2. refresh[t].cred.session # NoSession => refresh[t].cred.session \in Sessions
  BY <1>1 DEF Tokens, Access
<1> QED
  BY <1>1, <1>2 DEF Abandon, TypeOK

\* A page that goes keeps the types, whatever it was waiting for.
LEMMA DiscardType ==
    ASSUME TypeOK, NEW t \in Tabs, Discard(t), page' \in [Tabs -> Pages]
    PROVE  TypeOK'
<1>1. orphans' \subseteq Tokens /\ unanswered' \subseteq Sessions
  BY AbandonType DEF Discard
<1>2. inbox' \in [Tabs -> Seq(Messages)]
  BY DEF Discard, TypeOK
<1>3. /\ request' \in [Tabs -> Requests] /\ refresh' \in [Tabs -> Refreshes]
      /\ session' = session /\ cookie' = cookie /\ overtaken' \subseteq Tabs
      /\ holder' \in Tabs \union {NoTab}
  BY Constants DEF Discard, Released, TypeOK
<1>4. /\ store' \in [Tabs -> Access] /\ verify' \in [Tabs -> Access]
      /\ signout' \in [Tabs -> BOOLEAN] /\ cached' \in [Tabs -> SUBSET Users]
      /\ callers' \in [Tabs -> SUBSET Callers]
  BY DEF Discard, TypeOK, Access
<1> QED
  BY <1>1, <1>2, <1>3, <1>4 DEF TypeOK

\* And a page goes in one of two ways.
LEMMA LeaveType ==
    ASSUME TypeOK, NEW t \in Tabs, Unload(t) \/ CloseTab(t)
    PROVE  TypeOK'
<1>1. Discard(t) /\ page' = [page EXCEPT ![t] = "closed"]
  BY DEF Unload, CloseTab
<1>2. page' \in [Tabs -> Pages]
  BY <1>1 DEF TypeOK, Pages
<1> QED
  BY <1>1, <1>2, DiscardType

\* Every step keeps the types.
LEMMA TypeStep ==
    ASSUME TypeOK, [Next]_vars
    PROVE  TypeOK'
<1> USE DEF TypeOK
<1>1. ASSUME NEW t \in Tabs, Load(t) PROVE TypeOK'
  BY <1>1, JoinType DEF Load, server, Callers, Pages
<1>2. ASSUME NEW t \in Tabs, Unload(t) \/ CloseTab(t) PROVE TypeOK'
  BY <1>2, LeaveType
<1>3. ASSUME NEW t \in Tabs, LockGranted(t) PROVE TypeOK'
  BY <1>3 DEF LockGranted, server, Refreshes, Stages
<1>4. ASSUME NEW t \in Tabs, ServeRefresh(t) PROVE TypeOK'
  <2> DEFINE tok == refresh[t].cred
             answered == [stage |-> "answered",
                          cred  |-> IF Honoured(tok) THEN Current(tok.session) ELSE NoCookie,
                          res   |-> IF Honoured(tok) THEN "ok" ELSE "denied"]
  <2>1. tok \in Tokens /\ tok.session \in Access
    BY DEF Refreshes, Tokens
  <2>2. answered \in Refreshes
    BY <2>1, Constants DEF Refreshes, Stages
  <2>3. session' \in [Sessions -> {"unused", "alive", "ended", "revoked"}]
    BY <1>4 DEF ServeRefresh, SessionAfter
  <2>4. cookie' \in Tokens /\ orphans' \subseteq Tokens
    BY <1>4, AgedType DEF ServeRefresh, Ages, AgedAll
  <2>5. refresh' \in [Tabs -> Refreshes]
    <3>1. AgedRefresh(tok.session, "current", "grace") \in [Tabs -> Refreshes]
      BY AgedRefreshType DEF Ages
    <3> QED
      BY <1>4, <2>2, <3>1 DEF ServeRefresh
  <2> QED
    BY <1>4, <2>3, <2>4, <2>5 DEF ServeRefresh
<1>5. ASSUME NEW t \in Tabs, RefreshAnswered(t) PROVE TypeOK'
  <2>1. refresh[t] \in Refreshes /\ refresh[t].cred \in Tokens
        /\ refresh[t].cred.session \in Access
    BY DEF Refreshes, Tokens
  <2>2. CASE refresh[t].res = "ok"
    <3>1. [stage |-> "profiling", cred |-> Current(refresh[t].cred.session), res |-> "ok"]
             \in Refreshes
      BY <2>1, Constants DEF Refreshes, Stages
    <3> QED
      BY <1>5, <2>1, <2>2, <3>1 DEF RefreshAnswered, server
  <2>3. CASE refresh[t].res = "denied"
    BY <1>5, <2>3, SettledType, VerdictType DEF RefreshAnswered, Verdict, server
  <2> QED
    BY <2>1, <2>2, <2>3 DEF Refreshes
<1>6. ASSUME NEW t \in Tabs, RefreshLost(t) PROVE TypeOK'
  <2>1. orphans' \subseteq Tokens /\ unanswered' \subseteq Sessions
    BY <1>6, AbandonType DEF RefreshLost
  <2> QED
    BY <1>6, <2>1, SettledType, FailType DEF RefreshLost, FailRefresh
<1>7. ASSUME NEW t \in Tabs, ProfileAnswered(t) PROVE TypeOK'
  <2> DEFINE s == refresh[t].cred.session
  <2>1. s \in Access
    BY DEF Refreshes, Tokens
  <2>2. CASE Verdict(t, TRUE) \/ Verdict(t, FALSE)
    BY <1>7, <2>2, SettledType, VerdictType DEF ProfileAnswered, Verdict, server
  <2>3. CASE FailRefresh(t)
    BY <1>7, <2>3, SettledType, FailType DEF ProfileAnswered, FailRefresh, server
  <2>4. CASE /\ Settled(t)
             /\ store' = [store EXCEPT ![t] = s]
             /\ page' = [page EXCEPT ![t] = Bootstrapped(@)]
             /\ request' = [request EXCEPT ![t] =
                   IF @.stage = "waiting" THEN [@ EXCEPT !.stage = "sent", !.token = s]
                   ELSE @]
             /\ UNCHANGED inbox
    <3>1. request' \in [Tabs -> Requests]
      <4> DEFINE r == request[t]
      <4>1. r \in Requests
        OBVIOUS
      <4>2. [r EXCEPT !.stage = "sent", !.token = s] \in Requests
        BY <2>1, <4>1 DEF Requests
      <4>3. (IF r.stage = "waiting" THEN [r EXCEPT !.stage = "sent", !.token = s] ELSE r)
               \in Requests
        BY <4>1, <4>2
      <4> QED
        BY <2>4, <4>3
    <3>2. page' \in [Tabs -> Pages]
      BY <2>4, PageType
    <3> QED
      BY <1>7, <2>1, <2>4, <3>1, <3>2, SettledType DEF ProfileAnswered, server
  <2> QED
    BY <1>7, <2>2, <2>3, <2>4 DEF ProfileAnswered
<1>8. ASSUME NEW t \in Tabs, RefreshInBackground(t) \/ RefreshToRecover(t) PROVE TypeOK'
  BY <1>8, JoinType DEF RefreshInBackground, RefreshToRecover, server, Callers
<1>9. ASSUME NEW t \in Tabs,
             SendRequest(t) \/ RequestRejected(t) \/ RequestSucceeded(t)
      PROVE  TypeOK'
  <2>1. [NoRequest EXCEPT !.stage = "sent", !.token = store[t], !.by = UserOf(store[t])]
           \in Requests
    BY Constants DEF Requests
  <2>2. request' \in [Tabs -> Requests]
    BY <1>9, <2>1, Constants DEF SendRequest, RequestRejected, RequestSucceeded
  <2>3. RequestSucceeded(t) => Owner[request[t].token] \in Users
    <3>1. request[t] \in Requests
      OBVIOUS
    <3>2. request[t].token \in Access
      BY <3>1 DEF Requests
    <3> QED
      BY <3>2, SessionAssumption DEF RequestSucceeded, Access
  <2>4. cached' \in [Tabs -> SUBSET Users]
    <3>1. CASE RequestSucceeded(t)
      <4>1. cached[t] \in SUBSET Users /\ Owner[request[t].token] \in Users
        BY <2>3, <3>1
      <4>2. cached[t] \union {Owner[request[t].token]} \in SUBSET Users
        BY <4>1
      <4> QED
        BY <3>1, <4>1, <4>2 DEF RequestSucceeded
    <3> QED
      BY <1>9, <3>1 DEF SendRequest, RequestRejected
  <2> QED
    BY <1>9, <2>2, <2>4 DEF SendRequest, RequestRejected, RequestSucceeded, server
<1>10. ASSUME NEW t \in Tabs, RequestExpired(t) PROVE TypeOK'
  <2>1. request' \in [Tabs -> Requests]
    BY <1>10 DEF RequestExpired, Requests
  <2> QED
    BY <1>10, <2>1, JoinType DEF RequestExpired, server, Callers
<1>11. ASSUME NEW t \in Tabs, RequestRefused(t) PROVE TypeOK'
  BY <1>11, BroadcastType, Constants DEF RequestRefused, server, Messages, Pages, Access
<1>12. ASSUME NEW t \in Tabs, VerifyAnswered(t) PROVE TypeOK'
  <2>1. verify[t] \in Sessions
    BY <1>12 DEF VerifyAnswered, Access
  <2>2. request' \in [Tabs -> Requests]
    BY <1>12, ZenonT(60) DEF VerifyAnswered, Requests
  <2>3. inbox' \in [Tabs -> Seq(Messages)]
    <3>1. "logout" \in Messages /\ "signed_in" \in Messages
      BY DEF Messages
    <3>2. Broadcast(t, "logout", inbox) \in [Tabs -> Seq(Messages)]
      BY <3>1, BroadcastType
    <3> QED
      BY <1>12, <3>1, <3>2, BroadcastType DEF VerifyAnswered
  <2>4. cookie' \in Tokens
    BY <1>12, <2>1, Constants DEF VerifyAnswered, Access
  <2> QED
    BY <1>12, <2>1, <2>2, <2>3, <2>4 DEF VerifyAnswered, Access
<1>13. ASSUME NEW t \in Tabs, NEW s \in Sessions, SendVerify(t, s) PROVE TypeOK'
  BY <1>13 DEF SendVerify, server, Access
<1>14. ASSUME NEW t \in Tabs, VerifyFailed(t) \/ SendLogout(t) \/ LogoutFailed(t)
       PROVE  TypeOK'
  BY <1>14 DEF VerifyFailed, SendLogout, LogoutFailed, server, Access
<1>15. ASSUME NEW t \in Tabs, LogoutAnswered(t) PROVE TypeOK'
  BY <1>15, BroadcastType DEF LogoutAnswered, Messages, Pages, Access
<1>16. ASSUME NEW t \in Tabs, HearMessage(t) PROVE TypeOK'
  <2>1. inbox' \in [Tabs -> Seq(Messages)]
    BY <1>16 DEF HearMessage
  <2>2. CASE Join(t, "elsewhere") /\ UNCHANGED <<store, page>>
    BY <1>16, <2>1, <2>2, JoinType DEF HearMessage, server, Callers
  <2>3. CASE UNCHANGED <<refresh, callers, holder>>
    BY <1>16, <2>1, <2>3 DEF HearMessage, server, Pages, Access
  <2> QED
    BY <1>16, <2>2, <2>3 DEF HearMessage
<1>17. ASSUME NEW tok \in Tokens, ServeOrphan(tok) PROVE TypeOK'
  <2>1. AgedRefresh(tok.session, "current", "grace") \in [Tabs -> Refreshes]
    BY AgedRefreshType DEF Ages
  <2>2. cookie' \in Tokens /\ orphans' \subseteq Tokens
    BY <1>17, AgedType DEF ServeOrphan, Ages, AgedAll
  <2> QED
    BY <1>17, <2>1, <2>2 DEF ServeOrphan, SessionAfter
<1>18. ASSUME NEW s \in Sessions, GraceEnds(s) PROVE TypeOK'
  <2>1. AgedRefresh(s, "grace", "reused") \in [Tabs -> Refreshes]
    BY AgedRefreshType DEF Ages
  <2>2. cookie' \in Tokens /\ orphans' \subseteq Tokens
    BY <1>18, AgedType DEF GraceEnds, Ages, AgedAll
  <2> QED
    BY <1>18, <2>1, <2>2 DEF GraceEnds
<1>19. ASSUME NEW s \in Sessions, SessionEnds(s) PROVE TypeOK'
  BY <1>19 DEF SessionEnds, tabVars
<1>20. CASE UNCHANGED vars
  BY <1>20 DEF vars, server, tabVars
<1> QED
  BY <1>1, <1>2, <1>3, <1>4, <1>5, <1>6, <1>7, <1>8, <1>9, <1>10, <1>11, <1>12, <1>13,
     <1>14, <1>15, <1>16, <1>17, <1>18, <1>19, <1>20 DEF Next, TabStep

\* Every reachable state is well typed, whatever the tabs, people and sessions.
THEOREM TypeCorrect == Spec => []TypeOK
<1>1. TypeOK /\ [Next]_vars => TypeOK'
  BY TypeStep
<1> QED
  BY <1>1, TypeInit, PTL DEF Spec

-----------------------------------------------------------------------------
(* Rotation under the Web Lock. *)

\* A step that touches no copy of a token and revokes nothing.
LEMMA QuietStep ==
    ASSUME RotationInv, UNCHANGED <<refresh, holder, cookie, orphans, unanswered>>,
           \A s \in Sessions : session'[s] = "revoked" => session[s] = "revoked"
    PROVE  RotationInv'
BY DEF RotationInv, OneAtATime, Working, Unspoilt, OnWire

\* Joining a refresh, or queueing for one, touches no copy of a token.
LEMMA JoinStep ==
    ASSUME TypeOK, RotationInv, NEW t \in Tabs, NEW c \in Callers, Join(t, c),
           UNCHANGED <<session, cookie, orphans, unanswered>>
    PROVE  RotationInv'
<1> SUFFICES ASSUME UseLock PROVE RotationInv'
  BY DEF RotationInv
<1>1. CASE refresh[t].stage # "idle"
  BY <1>1, QuietStep DEF Join
<1>2. CASE refresh[t].stage = "idle"
  <2>1. refresh' = [refresh EXCEPT ![t] = [IdleRefresh EXCEPT !.stage = "queued"]]
    BY <1>2 DEF Join
  <2>2. /\ refresh'[t].stage = "queued"
        /\ \A o \in Tabs \ {t} : refresh'[o] = refresh[o]
    BY <2>1, Constants DEF TypeOK, Refreshes, Stages, IdleRefresh
  <2>3. OneAtATime'
    BY <1>2, <2>2 DEF RotationInv, OneAtATime, Working, Join
  <2>4. ASSUME NEW s \in Sessions \ unanswered PROVE Unspoilt(s)'
    BY <1>2, <2>2 DEF RotationInv, Unspoilt, OnWire
  <2> QED
    BY <2>3, <2>4 DEF RotationInv
<1> QED
  BY <1>1, <1>2

\* A refresh settles: the lock passes on.  A session keeps its one good copy
\* unless the settled refresh carried the answer that held it.
LEMMA SettledStep ==
    ASSUME TypeOK, RotationInv, UseLock, NEW t \in Tabs,
           refresh' = [refresh EXCEPT ![t] = IdleRefresh], holder' = Released(t),
           UNCHANGED <<session, cookie>>,
           unanswered \subseteq unanswered',
           \A s \in Sessions \ unanswered' : \A o \in orphans' : o.session # s,
           \A s \in Sessions \ unanswered' :
               ~(refresh[t].stage = "answered" /\ refresh[t].res = "ok"
                 /\ refresh[t].cred.session = s)
    PROVE  RotationInv'
<1>1. /\ refresh'[t].stage = "idle"
      /\ \A o \in Tabs \ {t} : refresh'[o] = refresh[o]
  BY DEF TypeOK, IdleRefresh
<1>2. OneAtATime'
  BY <1>1, SessionAssumption DEF RotationInv, OneAtATime, Working, Released
<1>3. ASSUME NEW s \in Sessions \ unanswered' PROVE Unspoilt(s)'
  BY <1>1, <1>3 DEF RotationInv, Unspoilt, OnWire
<1> QED
  BY <1>2, <1>3 DEF RotationInv

\* A page that goes takes its post with it, and that session is unanswered from then on.
LEMMA DiscardStep ==
    ASSUME TypeOK, RotationInv, UseLock, NEW t \in Tabs, Discard(t)
    PROVE  RotationInv'
<1>1. refresh[t].cred.session \in Access
  BY DEF TypeOK, Refreshes, Tokens
<1>2. unanswered \subseteq unanswered'
  BY DEF Discard, Abandon
<1>3. \A s \in Sessions \ unanswered' : \A o \in orphans' : o.session # s
  <2> SUFFICES ASSUME NEW s \in Sessions \ unanswered', NEW o \in orphans', o.session = s
               PROVE  FALSE
    OBVIOUS
  <2>1. CASE o \in orphans
    BY <1>2, <2>1 DEF RotationInv, Unspoilt
  <2>2. CASE refresh[t].stage = "posting" /\ o = refresh[t].cred
    BY <2>2, SessionAssumption DEF Discard, Abandon, OnWire
  <2> QED
    BY <2>1, <2>2 DEF Discard, Abandon
<1>4. \A s \in Sessions \ unanswered' :
         ~(refresh[t].stage = "answered" /\ refresh[t].res = "ok"
           /\ refresh[t].cred.session = s)
  BY <1>1, SessionAssumption DEF Discard, Abandon, OnWire, Access
<1> QED
  BY <1>2, <1>3, <1>4, SettledStep DEF Discard

\* The lock goes to one tab, which posts the token that the cookie holds.
LEMMA LockGrantedStep ==
    ASSUME TypeOK, RotationInv, UseLock, NEW t \in Tabs, LockGranted(t)
    PROVE  RotationInv'
<1>1. /\ refresh'[t].stage = "posting" /\ refresh'[t].cred = cookie
      /\ \A o \in Tabs \ {t} : refresh'[o] = refresh[o]
  BY DEF LockGranted, TypeOK, Refreshes
<1>2. \A o \in Tabs : ~Working(o)
  BY SessionAssumption DEF LockGranted, RotationInv, OneAtATime
<1>3. OneAtATime'
  BY <1>1, <1>2 DEF OneAtATime, Working, LockGranted
<1>4. ASSUME NEW s \in Sessions \ unanswered' PROVE Unspoilt(s)'
  BY <1>1, <1>2, <1>4 DEF RotationInv, Unspoilt, OnWire, Working, LockGranted, server
<1> QED
  BY <1>3, <1>4 DEF RotationInv

\* The API rotates: every other copy of the token ages, and only the cookie is one.
LEMMA ServeRefreshStep ==
    ASSUME TypeOK, RotationInv, UseLock, NEW t \in Tabs, ServeRefresh(t)
    PROVE  RotationInv'
<1> DEFINE tok == refresh[t].cred
           answered == [stage |-> "answered",
                        cred  |-> IF Honoured(tok) THEN Current(tok.session) ELSE NoCookie,
                        res   |-> IF Honoured(tok) THEN "ok" ELSE "denied"]
<1>1. /\ tok.session \in Access /\ cookie.session \in Access
      /\ \A o \in Tabs \ {t} : ~Working(o)
      /\ refresh[t].stage = "posting"
  BY DEF TypeOK, Refreshes, Tokens, RotationInv, OneAtATime, Working, ServeRefresh
<1>2. refresh'[t] = answered
  BY AgedRefreshType DEF ServeRefresh, TypeOK, Ages
<1>3. \A o \in Tabs \ {t} : refresh'[o] = refresh[o]
  BY <1>1 DEF ServeRefresh, AgedRefresh, OnWire, Working, TypeOK
<1>4. OneAtATime'
  BY <1>1, <1>2, <1>3 DEF ServeRefresh, RotationInv, OneAtATime, Working
<1>5. ASSUME NEW s \in Sessions \ unanswered PROVE Unspoilt(s)'
  <2>1. tok.session = s => tok.age = "current"
    BY <1>1 DEF RotationInv, Unspoilt, OnWire
  <2>2. session'[s] # "revoked"
    BY <2>1 DEF ServeRefresh, SessionAfter, RotationInv, Unspoilt, TypeOK
  <2>3. \A o \in orphans' : o.session # s
    <3>1. orphans \subseteq Tokens /\ \A o \in orphans : o.session # s
      BY DEF RotationInv, Unspoilt, TypeOK
    <3>2. orphans' = orphans \/ orphans' = AgedAll(orphans, tok.session, "current", "grace")
      BY DEF ServeRefresh
    <3> QED
      BY <3>1, <3>2 DEF AgedAll, Aged, Tokens
  <2>4. \A o \in Tabs : OnWire(o)' /\ refresh'[o].cred.session = s
                        => refresh'[o].cred.age = "current"
    <3>1. answered.cred.age = "current"
      BY DEF Current, NoCookie
    <3> QED
      BY <1>1, <1>2, <1>3, <3>1 DEF OnWire, Working
  <2>5. cookie'.session = s /\ cookie'.age # "current"
           => refresh'[t].res = "ok" /\ refresh'[t].cred.session = s
    <3>1. cookie.session = s => cookie.age = "current"
      BY <1>1 DEF RotationInv, Unspoilt, Working
    <3> QED
      BY <1>2, <2>1, <3>1 DEF ServeRefresh, Rotates, Honoured, Aged, Current, TypeOK, Tokens
  <2> QED
    BY <1>2, <2>2, <2>3, <2>4, <2>5 DEF Unspoilt
<1> QED
  BY <1>4, <1>5 DEF RotationInv, ServeRefresh

\* Aging changes nothing of a refresh but the age of its own session's token.
LEMMA AgedWire ==
    ASSUME TypeOK, NEW s \in Access, NEW old \in Ages, NEW new \in Ages,
           refresh' = AgedRefresh(s, old, new), NEW t \in Tabs
    PROVE  /\ refresh'[t].stage = refresh[t].stage
           /\ refresh'[t].res = refresh[t].res
           /\ refresh'[t].cred.session = refresh[t].cred.session
           /\ refresh[t].cred.session # s \/ refresh[t].cred.age # old
                 => refresh'[t].cred = refresh[t].cred
BY DEF AgedRefresh, Aged, TypeOK, Refreshes, Tokens

\* A post of a page that is gone spoils no session but one that went unanswered.
LEMMA ServeOrphanStep ==
    ASSUME TypeOK, RotationInv, UseLock, NEW tok \in Tokens, ServeOrphan(tok)
    PROVE  RotationInv'
<1>1. /\ tok.session \in Access /\ tok \in orphans
      /\ orphans \subseteq Tokens
  BY DEF Tokens, ServeOrphan, TypeOK
<1>2. \A t \in Tabs :
         /\ refresh'[t].stage = refresh[t].stage /\ refresh'[t].res = refresh[t].res
         /\ refresh'[t].cred.session = refresh[t].cred.session
         /\ refresh[t].cred.session # tok.session => refresh'[t].cred = refresh[t].cred
  BY <1>1, AgedWire DEF ServeOrphan, Ages
<1>3. OneAtATime'
  BY <1>2 DEF ServeOrphan, RotationInv, OneAtATime, Working
<1>4. ASSUME NEW s \in Sessions \ unanswered PROVE Unspoilt(s)'
  <2>1. tok.session # s
    BY <1>1 DEF RotationInv, Unspoilt
  <2>2. session'[s] = session[s]
    BY <2>1 DEF ServeOrphan, SessionAfter, TypeOK
  <2>3. \A o \in orphans' : o.session # s
    BY <1>1 DEF ServeOrphan, AgedAll, Aged, RotationInv, Unspoilt, Tokens
  <2>4. /\ cookie'.session = cookie.session
        /\ cookie.session = s => cookie' = cookie
    BY <2>1 DEF ServeOrphan, Aged, TypeOK, Tokens
  <2> QED
    BY <1>2, <2>1, <2>2, <2>3, <2>4 DEF RotationInv, Unspoilt, OnWire
<1> QED
  BY <1>3, <1>4 DEF RotationInv, ServeOrphan

\* The window closes on used tokens, the cookie's among them only while the answer is out.
LEMMA GraceEndsStep ==
    ASSUME TypeOK, RotationInv, UseLock, NEW x \in Sessions, GraceEnds(x)
    PROVE  RotationInv'
<1>1. \A t \in Tabs :
         /\ refresh'[t].stage = refresh[t].stage /\ refresh'[t].res = refresh[t].res
         /\ refresh'[t].cred.session = refresh[t].cred.session
         /\ refresh[t].cred.age # "grace" => refresh'[t].cred = refresh[t].cred
  BY AgedWire DEF GraceEnds, Ages, Access
<1>2. OneAtATime'
  BY <1>1 DEF GraceEnds, RotationInv, OneAtATime, Working
<1>3. ASSUME NEW s \in Sessions \ unanswered PROVE Unspoilt(s)'
  <2>1. /\ cookie'.session = cookie.session
        /\ cookie'.age # "current" => cookie.age # "current"
    BY DEF GraceEnds, Aged, TypeOK, Tokens
  <2>2. \A o \in orphans' : o.session # s
    BY DEF GraceEnds, AgedAll, Aged, RotationInv, Unspoilt, TypeOK, Tokens
  <2> QED
    BY <1>1, <2>1, <2>2 DEF GraceEnds, RotationInv, Unspoilt, OnWire
<1> QED
  BY <1>2, <1>3 DEF RotationInv, GraceEnds

\* The answer's token is in the cookie before the lock is free.
LEMMA RefreshAnsweredStep ==
    ASSUME TypeOK, RotationInv, UseLock, NEW t \in Tabs, RefreshAnswered(t)
    PROVE  RotationInv'
<1>1. CASE refresh[t].res = "denied"
  BY <1>1, SettledStep DEF RefreshAnswered, Verdict, Settled, server, RotationInv, Unspoilt
<1>2. CASE refresh[t].res = "ok"
  <2>1. /\ refresh'[t].stage = "profiling"
        /\ \A o \in Tabs \ {t} : refresh'[o] = refresh[o]
    BY <1>2 DEF RefreshAnswered, TypeOK
  <2>2. \A o \in Tabs \ {t} : ~Working(o)
    BY DEF RefreshAnswered, RotationInv, OneAtATime, Working
  <2>3. OneAtATime'
    BY <1>2, <2>1 DEF RefreshAnswered, RotationInv, OneAtATime, Working
  <2>4. ASSUME NEW s \in Sessions \ unanswered PROVE Unspoilt(s)'
    BY <1>2, <2>1, <2>2 DEF RefreshAnswered, RotationInv, Unspoilt, OnWire, Working, server
  <2> QED
    BY <1>2, <2>3, <2>4 DEF RefreshAnswered, RotationInv, server
<1> QED
  BY <1>1, <1>2 DEF TypeOK, Refreshes

\* A lost answer leaves its session unanswered.
LEMMA RefreshLostStep ==
    ASSUME TypeOK, RotationInv, UseLock, NEW t \in Tabs, RefreshLost(t)
    PROVE  RotationInv'
<1>1. refresh[t].cred.session \in Access
  BY DEF TypeOK, Refreshes, Tokens
<1>2. \A s \in Sessions \ unanswered' :
         /\ \A o \in orphans' : o.session # s
         /\ ~(OnWire(t) /\ refresh[t].cred.session = s)
  <2> SUFFICES ASSUME NEW s \in Sessions \ unanswered'
               PROVE  /\ \A o \in orphans' : o.session # s
                      /\ ~(OnWire(t) /\ refresh[t].cred.session = s)
    OBVIOUS
  <2>1. ~(OnWire(t) /\ refresh[t].cred.session = s)
    BY SessionAssumption DEF RefreshLost, Abandon
  <2>2. \A o \in orphans : o.session # s
    BY DEF RefreshLost, Abandon, RotationInv, Unspoilt
  <2> QED
    BY <2>1, <2>2 DEF RefreshLost, Abandon, OnWire
<1> QED
  BY <1>2, SettledStep DEF RefreshLost, FailRefresh, Settled, Abandon, OnWire

\* The profile ends the refresh, and touches no token.
LEMMA ProfileAnsweredStep ==
    ASSUME TypeOK, RotationInv, UseLock, NEW t \in Tabs, ProfileAnswered(t)
    PROVE  RotationInv'
<1>1. Settled(t) /\ refresh[t].stage = "profiling"
  BY DEF ProfileAnswered, Verdict, FailRefresh
<1> QED
  BY <1>1, SettledStep, ZenonT(60) DEF ProfileAnswered, Settled, server, RotationInv, Unspoilt

\* A sign-in brings a token of its own.
LEMMA VerifyAnsweredStep ==
    ASSUME TypeOK, RotationInv, UseLock, NEW t \in Tabs, VerifyAnswered(t)
    PROVE  RotationInv'
<1>1. cookie'.age = "current" /\ UNCHANGED <<refresh, holder, orphans, unanswered>>
  BY DEF VerifyAnswered, Current
<1>2. \A s \in Sessions : session'[s] = "revoked" => session[s] = "revoked"
  BY DEF VerifyAnswered, TypeOK
<1> QED
  BY <1>1, <1>2 DEF RotationInv, OneAtATime, Working, Unspoilt, OnWire

\* Every step keeps the invariant.
LEMMA RotationStep ==
    ASSUME TypeOK, RotationInv, [Next]_vars
    PROVE  RotationInv'
<1> SUFFICES ASSUME UseLock PROVE RotationInv'
  BY DEF RotationInv
<1>1. ASSUME NEW t \in Tabs, Load(t) PROVE RotationInv'
  BY <1>1, JoinStep DEF Load, server, Callers
<1>2. ASSUME NEW t \in Tabs, Unload(t) \/ CloseTab(t) PROVE RotationInv'
  BY <1>2, DiscardStep DEF Unload, CloseTab
<1>3. ASSUME NEW t \in Tabs, RefreshInBackground(t) \/ RefreshToRecover(t)
      PROVE  RotationInv'
  BY <1>3, JoinStep DEF RefreshInBackground, RefreshToRecover, server, Callers
<1>4. ASSUME NEW t \in Tabs, RequestExpired(t) PROVE RotationInv'
  BY <1>4, JoinStep DEF RequestExpired, server, Callers
<1>5. ASSUME NEW t \in Tabs,
             SendRequest(t) \/ RequestRejected(t) \/ RequestSucceeded(t) \/ RequestRefused(t)
      PROVE  RotationInv'
  BY <1>5, QuietStep DEF SendRequest, RequestRejected, RequestSucceeded, RequestRefused, server
<1>6. ASSUME NEW t \in Tabs,
             VerifyFailed(t) \/ SendLogout(t) \/ LogoutFailed(t)
             \/ \E s \in Sessions : SendVerify(t, s)
      PROVE  RotationInv'
  BY <1>6, QuietStep DEF VerifyFailed, SendLogout, LogoutFailed, SendVerify, server
<1>7. ASSUME NEW t \in Tabs, LogoutAnswered(t) PROVE RotationInv'
  BY <1>7, QuietStep DEF LogoutAnswered
<1>8. ASSUME NEW t \in Tabs, HearMessage(t) PROVE RotationInv'
  <2>1. CASE Join(t, "elsewhere")
    BY <1>8, <2>1, JoinStep DEF HearMessage, server, Callers
  <2>2. CASE UNCHANGED <<refresh, callers, holder>>
    BY <1>8, <2>2, QuietStep DEF HearMessage, server
  <2> QED
    BY <1>8, <2>1, <2>2 DEF HearMessage
<1>9. ASSUME NEW s \in Sessions, SessionEnds(s) PROVE RotationInv'
  BY <1>9, QuietStep DEF SessionEnds, tabVars, TypeOK
<1>10. CASE UNCHANGED vars
  BY <1>10, QuietStep DEF vars, server, tabVars
<1> QED
  BY <1>1, <1>2, <1>3, <1>4, <1>5, <1>6, <1>7, <1>8, <1>9, <1>10, LockGrantedStep,
     ServeRefreshStep, RefreshAnsweredStep, RefreshLostStep, ProfileAnsweredStep,
     VerifyAnsweredStep, ServeOrphanStep, GraceEndsStep DEF Next, TabStep

\* The invariant holds at the start.
LEMMA RotationInit == Init => RotationInv
<1> SUFFICES ASSUME Init PROVE RotationInv
  OBVIOUS
<1>1. \A t \in Tabs : refresh[t].stage = "idle"
  BY DEF Init, IdleRefresh
<1>2. holder = NoTab /\ NoTab \notin Tabs
  BY SessionAssumption DEF Init
<1>3. cookie.age = "current" /\ orphans = {} /\ \A s \in Sessions : session[s] # "revoked"
  BY DEF Init, Current
<1> QED
  BY <1>1, <1>2, <1>3 DEF RotationInv, OneAtATime, Working, Unspoilt, OnWire

\* The inductive invariant: with Web Locks one refresh runs at a time across
\* all tabs, and a session that lost no answer keeps one good copy of its token.
THEOREM RotationSafe == Spec => []RotationInv
<1>1. TypeOK /\ RotationInv /\ [Next]_vars => RotationInv'
  BY RotationStep
<1> QED
  BY <1>1, RotationInit, TypeCorrect, PTL DEF Spec

\* With Web Locks, the API revokes no session for a reused refresh token unless
\* a refresh of that session went unanswered (refresh-core.ts, session.ts).
THEOREM NoSelfRevocation == Spec => []RevokedOnlyAfterLostAnswer
<1>1. RotationInv => RevokedOnlyAfterLostAnswer
  BY DEF RotationInv, Unspoilt, RevokedOnlyAfterLostAnswer
<1> QED
  BY <1>1, RotationSafe, PTL

-----------------------------------------------------------------------------
(* Refreshes take turns across tabs. *)

\* Where tab t stands: out of the queue, in it, or in its turn.
Place(t) ==
    IF refresh[t].stage = "idle" THEN "out"
    ELSE IF refresh[t].stage = "queued" THEN "waiting" ELSE "turn"

\* A step in which no tab changes place is a stutter of RefreshTurns.
LEMMA KeepsPlaces ==
    ASSUME \A t \in Tabs : Place(t)' = Place(t)
    PROVE  UNCHANGED Turns!vars
<1>1. \A t \in Tabs : /\ (refresh[t].stage = "queued") <=> (refresh'[t].stage = "queued")
                      /\ Working(t) <=> Working(t)'
  BY DEF Place, Working
<1> QED
  BY <1>1 DEF Turns!vars

\* The four ways one tab may change place are the four steps of RefreshTurns.
LEMMA ChangesPlace ==
    ASSUME NEW t \in Tabs, \A o \in Tabs \ {t} : Place(o)' = Place(o),
           \/ Place(t) = "out" /\ Place(t)' = "waiting"
           \/ Place(t) = "waiting" /\ Place(t)' = "turn" /\ \A o \in Tabs : ~Working(o)
           \/ Place(t) = "turn" /\ Place(t)' = "out"
           \/ Place(t) = "waiting" /\ Place(t)' = "out"
    PROVE  Turns!Next
<1> DEFINE Q == {o \in Tabs : refresh[o].stage = "queued"}
           W == {o \in Tabs : Working(o)}
<1>1. /\ \A o \in Tabs : o \in Q <=> Place(o) = "waiting"
      /\ \A o \in Tabs : o \in W <=> Place(o) = "turn"
      /\ \A o \in Tabs : o \in Q' <=> Place(o)' = "waiting"
      /\ \A o \in Tabs : o \in W' <=> Place(o)' = "turn"
  BY DEF Place, Working
<1>2. Q \subseteq Tabs /\ W \subseteq Tabs /\ Q' \subseteq Tabs /\ W' \subseteq Tabs
  OBVIOUS
<1>3. CASE Place(t) = "out" /\ Place(t)' = "waiting"
  <2>1. t \notin Q \union W /\ Q' = Q \union {t} /\ W' = W
    BY <1>1, <1>2, <1>3
  <2> QED
    BY <2>1 DEF Turns!Next, Turns!Ask
<1>4. CASE Place(t) = "waiting" /\ Place(t)' = "turn" /\ \A o \in Tabs : ~Working(o)
  <2>1. t \in Q /\ W = {} /\ Q' = Q \ {t} /\ W' = {t}
    BY <1>1, <1>2, <1>4
  <2> QED
    BY <2>1 DEF Turns!Next, Turns!Take
<1>5. CASE Place(t) = "turn" /\ Place(t)' = "out"
  <2>1. t \in W /\ W' = W \ {t} /\ Q' = Q
    BY <1>1, <1>2, <1>5
  <2> QED
    BY <2>1 DEF Turns!Next, Turns!Finish
<1>6. CASE Place(t) = "waiting" /\ Place(t)' = "out"
  <2>1. t \in Q /\ Q' = Q \ {t} /\ W' = W
    BY <1>1, <1>2, <1>6
  <2> QED
    BY <2>1 DEF Turns!Next, Turns!GiveUp
<1> QED
  BY <1>3, <1>4, <1>5, <1>6

\* A tab whose refresh ends, or that had none, leaves the queue or its turn.
LEMMA LeavesTurn ==
    ASSUME TypeOK, NEW t \in Tabs, refresh' = [refresh EXCEPT ![t] = IdleRefresh]
    PROVE  [Turns!Next]_Turns!vars
<1>1. Place(t)' = "out" /\ \A o \in Tabs \ {t} : Place(o)' = Place(o)
  BY DEF Place, IdleRefresh, TypeOK
<1>2. CASE Place(t) = "out"
  BY <1>1, <1>2, KeepsPlaces
<1>3. CASE Place(t) # "out"
  BY <1>1, <1>3, ChangesPlace DEF Place
<1> QED
  BY <1>2, <1>3

\* Under the lock, ensureSession() asks for a turn or joins the tab's own.
LEMMA JoinAsks ==
    ASSUME TypeOK, UseLock, NEW t \in Tabs, NEW c \in Callers, Join(t, c)
    PROVE  [Turns!Next]_Turns!vars
<1>1. CASE refresh[t].stage # "idle"
  BY <1>1, KeepsPlaces DEF Join, Place
<1>2. CASE refresh[t].stage = "idle"
  <2>1. refresh' = [refresh EXCEPT ![t] = [IdleRefresh EXCEPT !.stage = "queued"]]
    BY <1>2 DEF Join
  <2>2. /\ Place(t) = "out" /\ Place(t)' = "waiting"
        /\ \A o \in Tabs \ {t} : Place(o)' = Place(o)
    BY <1>2, <2>1 DEF Place, TypeOK, IdleRefresh
  <2> QED
    BY <2>2, ChangesPlace
<1> QED
  BY <1>1, <1>2

\* Ageing tokens moves nobody.
LEMMA AgedKeepsPlaces ==
    ASSUME TypeOK, NEW s \in Access, NEW old \in Ages, NEW new \in Ages,
           refresh' = AgedRefresh(s, old, new)
    PROVE  UNCHANGED Turns!vars
BY AgedWire, KeepsPlaces DEF Place

\* An answer of the API changes nobody's place in the turns.
LEMMA ServedInTurn ==
    ASSUME TypeOK, NEW t \in Tabs, ServeRefresh(t)
    PROVE  UNCHANGED Turns!vars
<1> DEFINE tok == refresh[t].cred
           aged == AgedRefresh(tok.session, "current", "grace")
<1>1. /\ refresh'[t].stage = "answered"
      /\ \A o \in Tabs \ {t} : refresh'[o] = aged[o] \/ refresh'[o] = refresh[o]
  BY AgedRefreshType DEF ServeRefresh, TypeOK, Ages
<1>2. \A o \in Tabs : aged[o].stage = refresh[o].stage
  BY DEF AgedRefresh, TypeOK, Refreshes
<1>3. refresh[t].stage = "posting"
  BY DEF ServeRefresh
<1>4. \A o \in Tabs : Place(o)' = Place(o)
  BY <1>1, <1>2, <1>3 DEF Place
<1> QED
  BY <1>4, KeepsPlaces

\* An answer that arrives keeps its tab in its turn, or finishes it.
LEMMA AnsweredInTurn ==
    ASSUME TypeOK, NEW t \in Tabs, RefreshAnswered(t)
    PROVE  [Turns!Next]_Turns!vars
<1>1. CASE refresh[t].res = "ok"
  <2>1. /\ refresh[t].stage = "answered" /\ refresh'[t].stage = "profiling"
        /\ \A o \in Tabs \ {t} : refresh'[o] = refresh[o]
    BY <1>1 DEF RefreshAnswered, TypeOK
  <2>2. \A o \in Tabs : Place(o)' = Place(o)
    BY <2>1 DEF Place
  <2> QED
    BY <2>2, KeepsPlaces
<1>2. CASE refresh[t].res # "ok"
  BY <1>2, LeavesTurn DEF RefreshAnswered, Verdict, Settled
<1> QED
  BY <1>1, <1>2

\* The lock is granted as a turn is taken: with nobody in one.
LEMMA GrantedWhenFree ==
    ASSUME TypeOK, RotationInv, UseLock, NEW t \in Tabs, LockGranted(t)
    PROVE  Turns!Next
<1>1. \A o \in Tabs : ~Working(o)
  BY SessionAssumption DEF LockGranted, RotationInv, OneAtATime
<1>2. /\ Place(t) = "waiting" /\ Place(t)' = "turn"
      /\ \A o \in Tabs \ {t} : Place(o)' = Place(o)
  BY DEF LockGranted, Place, TypeOK, Refreshes
<1> QED
  BY <1>1, <1>2, ChangesPlace

\* Every step is one of RefreshTurns, or changes no place.
LEMMA TurnsStep ==
    ASSUME UseLock, TypeOK, RotationInv, [Next]_vars
    PROVE  [Turns!Next]_Turns!vars
<1>1. CASE UNCHANGED refresh
  BY <1>1, KeepsPlaces DEF Place
<1>2. ASSUME NEW t \in Tabs,
             Load(t) \/ RefreshInBackground(t) \/ RefreshToRecover(t)
                           \/ RequestExpired(t)
      PROVE  [Turns!Next]_Turns!vars
  BY <1>2, JoinAsks DEF Load, RefreshInBackground, RefreshToRecover, RequestExpired,
     Callers
<1>3. ASSUME NEW t \in Tabs, HearMessage(t)
      PROVE  [Turns!Next]_Turns!vars
  BY <1>1, <1>3, JoinAsks DEF HearMessage, Callers
<1>4. ASSUME NEW t \in Tabs, Unload(t) \/ CloseTab(t) \/ RefreshLost(t) \/ ProfileAnswered(t)
      PROVE  [Turns!Next]_Turns!vars
  BY <1>4, LeavesTurn DEF Unload, CloseTab, Discard, RefreshLost, ProfileAnswered,
     FailRefresh, Verdict, Settled
<1>5. ASSUME NEW t \in Tabs,
             \/ SendRequest(t) \/ RequestRejected(t) \/ RequestSucceeded(t)
             \/ RequestRefused(t) \/ VerifyAnswered(t) \/ VerifyFailed(t)
             \/ SendLogout(t) \/ LogoutAnswered(t) \/ LogoutFailed(t)
             \/ \E s \in Sessions : SendVerify(t, s)
      PROVE  UNCHANGED refresh
  BY <1>5 DEF SendRequest, RequestRejected, RequestSucceeded, RequestRefused,
     VerifyAnswered, VerifyFailed, SendLogout, LogoutAnswered, LogoutFailed, SendVerify
<1>6. ASSUME NEW tok \in Tokens, ServeOrphan(tok)
      PROVE  [Turns!Next]_Turns!vars
  BY <1>1, <1>6, AgedKeepsPlaces DEF ServeOrphan, Tokens, Ages
<1>7. ASSUME NEW s \in Sessions, GraceEnds(s)
      PROVE  [Turns!Next]_Turns!vars
  BY <1>7, AgedKeepsPlaces DEF GraceEnds, Access, Ages
<1>8. ASSUME NEW s \in Sessions, SessionEnds(s)
      PROVE  UNCHANGED refresh
  BY <1>8 DEF SessionEnds, tabVars
<1>9. CASE UNCHANGED vars
  BY <1>1, <1>9 DEF vars, tabVars
<1> QED
  BY <1>1, <1>2, <1>3, <1>4, <1>5, <1>6, <1>7, <1>8, <1>9, ServedInTurn, AnsweredInTurn,
     GrantedWhenFree DEF Next, TabStep

\* With Web Locks, the refreshes of all tabs take turns (session.ts,
\* refresh-core.ts): Session implements RefreshTurns, its fairness apart.
THEOREM RefreshesTakeTurns ==
    ASSUME UseLock
    PROVE  Spec => Turns!Spec
<1>1. Init => Turns!Init
  BY DEF Init, Turns!Init, Working, IdleRefresh
<1>2. TypeOK /\ RotationInv /\ [Next]_vars => [Turns!Next]_Turns!vars
  BY TurnsStep
<1> QED
  BY <1>1, <1>2, TypeCorrect, RotationSafe, PTL DEF Spec, Turns!Spec

-----------------------------------------------------------------------------
(* A page that stays holds one person's data. *)

\* A page that is gone, or has not restored its session, holds nothing.
Blank(t) ==
    /\ store[t] = NoSession /\ verify[t] = NoSession
    /\ request[t] = NoRequest /\ cached[t] = {} /\ t \notin overtaken

\* A verdict on a signed-in tab makes it leave, or keeps its page with whatever
\* is on it: somebody behind sign-in, or a recovery, waits for its refresh.
VerdictMoves(t) == callers[t] \intersect {"request", "background", "recovery"} # {}

\* A page that stays holds its user's data and requests, and a verdict of its
\* refresh on that user would make it leave, or be kept.
OfOneUser(t) ==
    /\ SignedIn(t) /\ refresh[t].stage # "idle" => VerdictMoves(t)
    /\ request[t].stage # "none" /\ request[t].kept /\ request[t].token # NoSession =>
          /\ UserOf(request[t].token) = UserOf(store[t])
          /\ request[t].by = UserOf(store[t])
    /\ cached[t] \subseteq {UserOf(store[t])}

\* A refresh that was honoured carries a session.
Honours(t) ==
    (\/ refresh[t].stage = "profiling"
     \/ refresh[t].stage = "answered" /\ refresh[t].res = "ok")
       => refresh[t].cred.session \in Sessions

\* The inductive invariant behind OwnData, tab by tab.
DataFits(t) ==
    /\ page[t] = "closed" => refresh[t].stage = "idle"
    /\ page[t] \in {"closed", "loading"} => Blank(t)
    /\ Honours(t)
    /\ request[t].stage = "waiting" \/ request[t].retried => request[t].token # NoSession
    /\ Stays(t) => OfOneUser(t)
DataInv == \A t \in Tabs : DataFits(t)

\* What DataFits reads of tab o, and the ages of tokens that it does not.
Same(o) ==
    /\ page'[o] = page[o] /\ store'[o] = store[o] /\ verify'[o] = verify[o]
    /\ request'[o] = request[o] /\ cached'[o] = cached[o] /\ callers'[o] = callers[o]
    /\ o \in overtaken' <=> o \in overtaken
    /\ refresh'[o].stage = refresh[o].stage /\ refresh'[o].res = refresh[o].res
    /\ refresh'[o].cred.session = refresh[o].cred.session

\* A step that leaves all that alone keeps a tab fit.
LEMMA SameFits ==
    ASSUME NEW o \in Tabs, DataFits(o), Same(o)
    PROVE  DataFits(o)'
BY DEF Same, DataFits, Blank, Honours, Stays, OfOneUser, SignedIn, VerdictMoves, UserOf

\* A step of tab t alone is judged by that tab.
LEMMA OneTabFits ==
    ASSUME DataInv, NEW t \in Tabs, \A o \in Tabs \ {t} : Same(o), DataFits(t)'
    PROVE  DataInv'
BY SameFits DEF DataInv

\* The people of a page: nobody is NoSession, and a session has an owner.
LEMMA PeopleOf ==
    /\ NoSession \notin Users
    /\ \A s \in Sessions : s # NoSession /\ UserOf(s) = Owner[s] /\ Owner[s] \in Users
    /\ UserOf(NoSession) = NoSession
BY SessionAssumption DEF UserOf

\* A tab that is signed out has no data and no request that carries a token.
LEMMA SignedOutBlank ==
    ASSUME TypeOK, NEW t \in Tabs, OfOneUser(t), ~SignedIn(t)
    PROVE  /\ cached[t] = {}
           /\ request[t].stage # "none" /\ request[t].kept => request[t].token = NoSession
<1>1. store[t] = NoSession /\ UserOf(store[t]) = NoSession
  BY PeopleOf DEF SignedIn
<1>2. cached[t] \subseteq Users /\ request[t].token \in Access
  BY DEF TypeOK, Requests
<1>3. cached[t] = {}
  BY <1>1, <1>2, PeopleOf DEF OfOneUser
<1>4. request[t].stage # "none" /\ request[t].kept => request[t].token = NoSession
  BY <1>1, <1>2, PeopleOf DEF OfOneUser, Access
<1> QED
  BY <1>3, <1>4

\* Joining a refresh adds a caller; the page is not a closed one by then.
LEMMA JoinFits ==
    ASSUME TypeOK, NEW t \in Tabs, NEW c \in Callers, Join(t, c)
    PROVE  /\ refresh'[t].stage # "idle"
           /\ callers'[t] = callers[t] \union {c}
           /\ Honours(t) => Honours(t)'
           /\ \A o \in Tabs \ {t} : refresh'[o] = refresh[o] /\ callers'[o] = callers[o]
<1>1. callers'[t] = callers[t] \union {c} /\ \A o \in Tabs \ {t} : callers'[o] = callers[o]
  BY DEF Join, TypeOK
<1>2. CASE refresh[t].stage # "idle"
  BY <1>1, <1>2 DEF Join, Honours
<1>3. CASE refresh[t].stage = "idle"
  <2>1. /\ refresh'[t].stage \in {"queued", "posting"}
        /\ \A o \in Tabs \ {t} : refresh'[o] = refresh[o]
    BY <1>3, ZenonT(60) DEF Join, TypeOK, IdleRefresh
  <2> QED
    BY <1>1, <2>1 DEF Honours
<1> QED
  BY <1>2, <1>3

\* A refresh that settles leaves its tab idle, with nobody waiting.
LEMMA SettledFits ==
    ASSUME TypeOK, NEW t \in Tabs, Settled(t)
    PROVE  /\ refresh'[t].stage = "idle" /\ callers'[t] = {}
           /\ Honours(t)'
           /\ \A o \in Tabs \ {t} : refresh'[o] = refresh[o] /\ callers'[o] = callers[o]
BY DEF Settled, IdleRefresh, TypeOK, Honours

\* A page load starts a refresh on a page that holds nothing.
LEMMA LoadFits ==
    ASSUME TypeOK, DataInv, NEW t \in Tabs, Load(t)
    PROVE  DataInv'
<1>1. /\ Honours(t) => Honours(t)'
      /\ \A o \in Tabs \ {t} : refresh'[o] = refresh[o] /\ callers'[o] = callers[o]
  BY JoinFits DEF Load, Callers
<1>2. page'[t] = "loading" /\ \A o \in Tabs \ {t} : page'[o] = page[o]
  BY DEF Load, TypeOK
<1>3. \A o \in Tabs \ {t} : Same(o)
  BY <1>1, <1>2 DEF Load, Same
<1>4. Blank(t) /\ Honours(t)
  BY DEF Load, DataInv, DataFits
<1>5. Blank(t)'
  BY <1>4 DEF Load, Blank
<1>6. DataFits(t)'
  BY <1>1, <1>2, <1>4, <1>5 DEF DataFits, Stays, Blank, NoRequest
<1> QED
  BY <1>3, <1>6, OneTabFits

\* A page that goes leaves nothing.
LEMMA DiscardFits ==
    ASSUME TypeOK, DataInv, NEW t \in Tabs, Unload(t) \/ CloseTab(t)
    PROVE  DataInv'
<1>1. Discard(t) /\ page' = [page EXCEPT ![t] = "closed"]
  BY DEF Unload, CloseTab
<1>2. Blank(t)' /\ page'[t] = "closed" /\ refresh'[t] = IdleRefresh
  BY <1>1 DEF Discard, Blank, TypeOK
<1>3. DataFits(t)'
  BY <1>2 DEF DataFits, Honours, Stays, Blank, IdleRefresh, NoRequest
<1>4. \A o \in Tabs \ {t} : Same(o)
  BY <1>1 DEF Discard, Same, TypeOK
<1> QED
  BY <1>3, <1>4, OneTabFits

\* The lock, an answer of the API and the end of the grace window touch tokens only.
LEMMA TokensFit ==
    ASSUME TypeOK, DataInv, NEW t \in Tabs, LockGranted(t) \/ ServeRefresh(t)
    PROVE  DataInv'
<1>1. CASE LockGranted(t)
  <2>1. /\ refresh[t].stage = "queued" /\ refresh'[t].stage = "posting"
        /\ \A o \in Tabs \ {t} : refresh'[o] = refresh[o]
    BY <1>1 DEF LockGranted, TypeOK, Refreshes
  <2>2. \A o \in Tabs \ {t} : Same(o)
    BY <1>1, <2>1 DEF LockGranted, Same
  <2>3. DataFits(t)'
    BY <1>1, <2>1 DEF LockGranted, DataInv, DataFits, Blank, Honours, Stays, OfOneUser,
       SignedIn, VerdictMoves, UserOf
  <2> QED
    BY <2>2, <2>3, OneTabFits
<1>2. CASE ServeRefresh(t)
  <2> DEFINE tok == refresh[t].cred
             aged == AgedRefresh(tok.session, "current", "grace")
  <2>1. \A o \in Tabs : /\ aged[o].stage = refresh[o].stage /\ aged[o].res = refresh[o].res
                        /\ aged[o].cred.session = refresh[o].cred.session
    BY DEF AgedRefresh, Aged, TypeOK, Refreshes, Tokens
  <2>2. \A o \in Tabs \ {t} : refresh'[o] = aged[o] \/ refresh'[o] = refresh[o]
    BY <1>2, AgedRefreshType DEF ServeRefresh, TypeOK, Ages
  <2>3. \A o \in Tabs \ {t} : Same(o)
    BY <1>2, <2>1, <2>2 DEF ServeRefresh, Same
  <2>4. /\ refresh[t].stage = "posting" /\ refresh'[t].stage = "answered"
        /\ refresh'[t].res = "ok" => refresh'[t].cred.session \in Sessions
    BY <1>2, AgedRefreshType DEF ServeRefresh, TypeOK, Ages, Honoured, Alive, Current
  <2>5. DataFits(t)'
    BY <1>2, <2>4 DEF ServeRefresh, DataInv, DataFits, Blank, Honours, Stays, OfOneUser,
       SignedIn, VerdictMoves, UserOf
  <2> QED
    BY <2>3, <2>5, OneTabFits
<1> QED
  BY <1>1, <1>2

LEMMA AgedFits ==
    ASSUME TypeOK, DataInv,
           (\E tok \in Tokens : ServeOrphan(tok)) \/ (\E s \in Sessions : GraceEnds(s))
    PROVE  DataInv'
<1>1. \A o \in Tabs : /\ refresh'[o].stage = refresh[o].stage
                      /\ refresh'[o].res = refresh[o].res
                      /\ refresh'[o].cred.session = refresh[o].cred.session
  BY AgedWire DEF ServeOrphan, GraceEnds, Tokens, Access, Ages
<1>2. \A o \in Tabs : Same(o)
  BY <1>1 DEF ServeOrphan, GraceEnds, Same
<1> QED
  BY <1>2, SameFits DEF DataInv

\* A refresh that fails, or is judged, signs nobody else in.
LEMMA RejectedFits ==
    ASSUME TypeOK, DataInv, NEW t \in Tabs, refresh[t].stage # "idle",
           FailRefresh(t) \/ Verdict(t, TRUE) \/ Verdict(t, FALSE),
           UNCHANGED <<verify, cached, overtaken>>
    PROVE  DataInv'
<1>1. Settled(t)
  BY DEF FailRefresh, Verdict
<1>2. \A o \in Tabs \ {t} : Same(o)
  BY <1>1, SettledFits DEF FailRefresh, Verdict, Same, TypeOK
<1>3. /\ request'[t] = WaiterRejected(request[t])
      /\ request'[t] = request[t] \/ request'[t] = NoRequest
  BY DEF FailRefresh, Verdict, TypeOK, WaiterRejected
<1>4. page'[t] \in {Bootstrapped(page[t]), "leaving", "kept"} /\ page[t] # "closed"
  BY DEF FailRefresh, Verdict, PageAfterVerdict, TypeOK, DataInv, DataFits
<1>5. store'[t] = store[t] \/ store'[t] = NoSession
  BY DEF FailRefresh, Verdict, TypeOK
<1>6. Stays(t)' => store'[t] = store[t]
  <2>1. CASE FailRefresh(t)
    BY <2>1 DEF FailRefresh
  <2>2. CASE Verdict(t, TRUE) \/ Verdict(t, FALSE)
    <3>1. page'[t] = PageAfterVerdict(t) /\ store'[t] = NoSession
      BY <2>2 DEF Verdict, TypeOK
    <3>2. Stays(t)' => /\ ~(SignedIn(t) /\ VerdictMoves(t))
                       /\ page[t] \in {"loading", "ready"} /\ t \notin overtaken
      BY <1>4, <3>1 DEF PageAfterVerdict, VerdictMoves, Stays, Bootstrapped, TypeOK, Pages
    <3> QED
      BY <3>1, <3>2 DEF DataInv, DataFits, Blank, Stays, OfOneUser, SignedIn
  <2> QED
    BY <2>1, <2>2
<1>7. Stays(t)' => OfOneUser(t)'
  <2> SUFFICES ASSUME Stays(t)' PROVE OfOneUser(t)'
    OBVIOUS
  <2>1. page[t] \in {"loading", "ready"} /\ t \notin overtaken
    BY <1>4 DEF Stays, Bootstrapped
  <2>2. CASE page[t] = "loading"
    BY <1>1, <1>3, <1>6, <2>2, SettledFits DEF DataInv, DataFits, Blank, OfOneUser,
       SignedIn, UserOf, NoRequest
  <2>3. CASE page[t] = "ready"
    BY <1>1, <1>3, <1>6, <2>1, <2>3, SettledFits DEF DataInv, DataFits, Stays, OfOneUser,
       SignedIn, UserOf, NoRequest
  <2> QED
    BY <2>1, <2>2, <2>3
<1>8. DataFits(t)'
  <2>1. page'[t] \notin {"closed", "loading"}
    BY <1>4 DEF Bootstrapped
  <2>2. request'[t].stage = "waiting" \/ request'[t].retried => request'[t].token # NoSession
    BY <1>3 DEF DataInv, DataFits, NoRequest
  <2> QED
    BY <1>1, <1>7, <2>1, <2>2, SettledFits DEF DataFits
<1> QED
  BY <1>2, <1>8, OneTabFits

\* The answer to the POST keeps the session it brought, or is a verdict.
LEMMA RefreshAnsweredFits ==
    ASSUME TypeOK, DataInv, NEW t \in Tabs, RefreshAnswered(t)
    PROVE  DataInv'
<1>1. CASE refresh[t].res = "denied"
  BY <1>1, RejectedFits DEF RefreshAnswered
<1>2. CASE refresh[t].res = "ok"
  <2>1. /\ refresh[t].stage = "answered" /\ refresh'[t].stage = "profiling"
        /\ refresh'[t].cred.session = refresh[t].cred.session
        /\ \A o \in Tabs \ {t} : refresh'[o] = refresh[o]
    BY <1>2 DEF RefreshAnswered, TypeOK, Current
  <2>2. \A o \in Tabs \ {t} : Same(o)
    BY <1>2, <2>1 DEF RefreshAnswered, Same
  <2>3. DataFits(t)'
    BY <1>2, <2>1 DEF RefreshAnswered, DataInv, DataFits, Blank, Honours, Stays, OfOneUser,
       SignedIn, VerdictMoves, UserOf
  <2> QED
    BY <2>2, <2>3, OneTabFits
<1> QED
  BY <1>1, <1>2 DEF TypeOK, Refreshes

\* The profile signs in the tab's own person, or somebody on a signed-out page.
LEMMA ProfileAnsweredFits ==
    ASSUME TypeOK, DataInv, NEW t \in Tabs, ProfileAnswered(t)
    PROVE  DataInv'
<1> DEFINE s == refresh[t].cred.session
<1>1. CASE FailRefresh(t) \/ Verdict(t, TRUE) \/ Verdict(t, FALSE)
  BY <1>1, RejectedFits DEF ProfileAnswered
<1>2. CASE /\ SamePerson(t, s)
           /\ Settled(t)
           /\ store' = [store EXCEPT ![t] = s]
           /\ page' = [page EXCEPT ![t] = Bootstrapped(@)]
           /\ request' = [request EXCEPT ![t] =
                 IF @.stage = "waiting" THEN [@ EXCEPT !.stage = "sent", !.token = s]
                 ELSE @]
           /\ UNCHANGED inbox
  <2>1. s \in Sessions /\ s # NoSession /\ UserOf(s) = Owner[s]
    BY PeopleOf DEF ProfileAnswered, DataInv, DataFits, Honours
  <2>2. \A o \in Tabs \ {t} : Same(o)
    BY <1>2, SettledFits DEF ProfileAnswered, Same, TypeOK
  <2>3. store'[t] = s /\ page'[t] = Bootstrapped(page[t]) /\ page[t] # "closed"
    BY <1>2 DEF ProfileAnswered, TypeOK, DataInv, DataFits
  <2>4. /\ request'[t].by = request[t].by /\ request'[t].kept = request[t].kept
        /\ request'[t].retried = request[t].retried
        /\ \/ request'[t] = request[t]
           \/ /\ request[t].stage = "waiting"
              /\ request'[t].stage = "sent" /\ request'[t].token = s
    BY <1>2 DEF TypeOK, Requests
  <2>5. Stays(t)' => OfOneUser(t)'
    <3> SUFFICES ASSUME Stays(t)' PROVE OfOneUser(t)'
      OBVIOUS
    <3>1. page[t] \in {"loading", "ready"} /\ t \notin overtaken
      BY <2>3 DEF ProfileAnswered, Stays, Bootstrapped
    <3>2. CASE page[t] = "loading"
      <4>1. Blank(t) /\ request[t] = NoRequest
        BY <3>2 DEF DataInv, DataFits, Blank
      <4>2. request'[t] = NoRequest
        BY <2>4, <4>1 DEF NoRequest
      <4> QED
        BY <1>2, <4>1, <4>2, SettledFits DEF ProfileAnswered, OfOneUser, Blank, NoRequest
    <3>3. CASE page[t] = "ready"
      <4>1. OfOneUser(t)
        BY <3>1, <3>3 DEF DataInv, DataFits, Stays
      <4>2. CASE SignedIn(t)
        <5>1. UserOf(store[t]) = UserOf(s) /\ UserOf(store'[t]) = UserOf(s)
          BY <1>2, <2>1, <2>3, <4>2 DEF SamePerson
        <5>2. request'[t].stage # "none" /\ request'[t].kept /\ request'[t].token # NoSession
                => UserOf(request'[t].token) = UserOf(s) /\ request'[t].by = UserOf(s)
          BY <2>1, <2>4, <4>1, <5>1 DEF OfOneUser, DataInv, DataFits
        <5> QED
          BY <1>2, <4>1, <5>1, <5>2, SettledFits DEF ProfileAnswered, OfOneUser, UserOf
      <4>3. CASE ~SignedIn(t)
        <5>1. cached[t] = {}
              /\ (request[t].stage # "none" /\ request[t].kept => request[t].token = NoSession)
          BY <4>1, <4>3, SignedOutBlank
        <5>2. request'[t].stage # "none" /\ request'[t].kept => request'[t].token = NoSession
          BY <2>4, <5>1 DEF DataInv, DataFits
        <5> QED
          BY <1>2, <5>1, <5>2, SettledFits DEF ProfileAnswered, OfOneUser
      <4> QED
        BY <4>2, <4>3
    <3> QED
      BY <3>1, <3>2, <3>3
  <2>6. request'[t].stage = "waiting" \/ request'[t].retried => request'[t].token # NoSession
    BY <2>1, <2>4 DEF DataInv, DataFits
  <2>7. DataFits(t)'
    BY <1>2, <2>3, <2>5, <2>6, SettledFits DEF DataFits, Bootstrapped
  <2> QED
    BY <2>2, <2>7, OneTabFits
<1> QED
  BY <1>1, <1>2 DEF ProfileAnswered

\* A caller that joins while the person is signed in is one that moves the page on
\* a verdict.
LEMMA JoinedFits ==
    ASSUME TypeOK, DataInv, NEW t \in Tabs,
           \/ RefreshInBackground(t) \/ RefreshToRecover(t) \/ RequestExpired(t)
           \/ /\ HearMessage(t) /\ Join(t, "elsewhere") /\ UNCHANGED <<store, page>>
              /\ ~SignedIn(t) /\ Open(t)
    PROVE  DataInv'
<1> DEFINE c == IF RefreshInBackground(t) THEN "background"
                ELSE IF RefreshToRecover(t) THEN "recovery"
                ELSE IF RequestExpired(t) THEN "request" ELSE "elsewhere"
<1>1. Join(t, c) /\ c \in Callers
  BY DEF RefreshInBackground, RefreshToRecover, RequestExpired, Callers
<1>2. /\ refresh'[t].stage # "idle" /\ callers'[t] = callers[t] \union {c}
      /\ Honours(t) => Honours(t)'
      /\ \A o \in Tabs \ {t} : refresh'[o] = refresh[o] /\ callers'[o] = callers[o]
  BY <1>1, JoinFits
<1>3. UNCHANGED <<page, store, verify, cached, overtaken>>
  BY DEF RefreshInBackground, RefreshToRecover, RequestExpired, HearMessage
<1>4. \/ request' = request
      \/ /\ RequestExpired(t) /\ request[t].stage = "sent" /\ request[t].token # NoSession
         /\ request'[t] = [request[t] EXCEPT !.stage = "waiting", !.retried = TRUE]
         /\ \A o \in Tabs \ {t} : request'[o] = request[o]
  BY DEF RefreshInBackground, RefreshToRecover, RequestExpired, HearMessage, TypeOK
<1>5. \A o \in Tabs \ {t} : Same(o)
  BY <1>2, <1>3, <1>4 DEF Same
<1>6. page[t] \notin {"closed", "loading"}
  BY DEF RefreshInBackground, RefreshToRecover, RequestExpired, DataInv, DataFits,
     Blank, NoRequest, Open
<1>7. ~SignedIn(t) \/ VerdictMoves(t)'
  BY <1>2 DEF RefreshInBackground, RefreshToRecover, RequestExpired, VerdictMoves
<1>8. /\ request'[t].token = request[t].token /\ request'[t].by = request[t].by
      /\ request'[t].kept = request[t].kept
      /\ request'[t].stage # "none" => request[t].stage # "none"
      /\ request'[t].stage = "waiting" \/ request'[t].retried => request'[t].token # NoSession
  BY <1>4 DEF TypeOK, Requests, DataInv, DataFits
<1>9. DataFits(t)'
  BY <1>2, <1>3, <1>6, <1>7, <1>8 DEF DataInv, DataFits, Stays, OfOneUser, SignedIn, UserOf
<1> QED
  BY <1>5, <1>9, OneTabFits

\* A request is the store's person's, and so is the answer that enters the cache.
LEMMA RequestFits ==
    ASSUME TypeOK, DataInv, NEW t \in Tabs,
           SendRequest(t) \/ RequestRejected(t) \/ RequestSucceeded(t)
    PROVE  DataInv'
<1>1. UNCHANGED <<page, store, refresh, callers, verify, overtaken>>
  BY DEF SendRequest, RequestRejected, RequestSucceeded
<1>2. \A o \in Tabs \ {t} : Same(o)
  BY DEF SendRequest, RequestRejected, RequestSucceeded, Same, TypeOK
<1>3. page[t] \notin {"closed", "loading"}
  BY DEF SendRequest, RequestRejected, RequestSucceeded, DataInv, DataFits, Blank,
     NoRequest, Open
<1>4. CASE SendRequest(t)
  <2>1. /\ request'[t].token = store[t] /\ request'[t].by = UserOf(store[t])
        /\ request'[t].stage = "sent" /\ ~request'[t].retried
        /\ cached' = cached
    BY <1>4 DEF SendRequest, TypeOK, NoRequest
  <2> QED
    BY <1>1, <1>2, <1>3, <2>1, OneTabFits DEF DataInv, DataFits, Honours, Stays, OfOneUser,
       SignedIn, VerdictMoves, UserOf
<1>5. CASE RequestRejected(t) \/ RequestSucceeded(t)
  <2>1. request'[t].stage = "none" /\ ~request'[t].retried
    BY <1>5 DEF RequestRejected, RequestSucceeded, NoRequest, TypeOK
  <2>2. Stays(t) => cached'[t] \subseteq {UserOf(store[t])}
    <3>1. CASE cached' = cached
      BY <3>1 DEF DataInv, DataFits, OfOneUser
    <3>2. CASE RequestSucceeded(t)
      <4>1. /\ cached'[t] = IF request[t].kept THEN cached[t] \union {Owner[request[t].token]}
                            ELSE cached[t]
            /\ request[t].stage = "sent" /\ request[t].token # NoSession
        BY <3>2 DEF RequestSucceeded, TypeOK
      <4>2. UserOf(request[t].token) = Owner[request[t].token]
        BY <4>1 DEF UserOf
      <4> QED
        BY <4>1, <4>2 DEF DataInv, DataFits, OfOneUser
    <3> QED
      BY <1>5, <3>1, <3>2 DEF RequestRejected
  <2> QED
    BY <1>1, <1>2, <1>3, <2>1, <2>2, OneTabFits DEF DataInv, DataFits, Honours, Stays,
       OfOneUser, SignedIn, VerdictMoves, UserOf
<1> QED
  BY <1>4, <1>5

\* A page that a verdict, a sign-out or another tab's message ends does not stay.
LEMMA LeavingFits ==
    ASSUME TypeOK, DataInv, NEW t \in Tabs,
           \/ RequestRefused(t) \/ LogoutAnswered(t)
           \/ /\ HearMessage(t) /\ page' = [page EXCEPT ![t] = "leaving"]
              /\ store' = [store EXCEPT ![t] = NoSession] /\ UNCHANGED <<refresh, callers>>
    PROVE  DataInv'
<1>1. /\ page' = [page EXCEPT ![t] = "leaving"] /\ store' = [store EXCEPT ![t] = NoSession]
      /\ UNCHANGED <<refresh, callers, verify, cached, overtaken>>
  BY DEF RequestRefused, LogoutAnswered, HearMessage
<1>2. request' = request \/ request' = [request EXCEPT ![t] = NoRequest]
  BY DEF RequestRefused, LogoutAnswered, HearMessage
<1>3. \A o \in Tabs \ {t} : Same(o)
  BY <1>1, <1>2 DEF Same, TypeOK
<1>4. page'[t] = "leaving" /\ (request'[t] = request[t] \/ request'[t] = NoRequest)
  BY <1>1, <1>2 DEF TypeOK
<1>5. DataFits(t)'
  BY <1>1, <1>4 DEF DataInv, DataFits, Honours, Stays, NoRequest
<1> QED
  BY <1>3, <1>5, OneTabFits

\* A sign-in for somebody else empties the cache and drops the request; one that
\* overtakes a refresh leaves the page exempt.
LEMMA VerifyAnsweredFits ==
    ASSUME TypeOK, DataInv, NEW t \in Tabs, VerifyAnswered(t)
    PROVE  DataInv'
<1> DEFINE s == verify[t]
           switched == SignedIn(t) /\ UserOf(store[t]) # Owner[s]
<1>1. s \in Sessions /\ UserOf(s) = Owner[s] /\ page[t] \notin {"closed", "loading"}
  BY PeopleOf DEF VerifyAnswered, TypeOK, Access, DataInv, DataFits, Blank
<1>2. /\ store'[t] = s /\ verify'[t] = NoSession
      /\ cached'[t] = IF switched THEN {} ELSE cached[t]
      /\ request'[t] = IF switched /\ request[t].stage # "none"
                       THEN [request[t] EXCEPT !.kept = FALSE] ELSE request[t]
      /\ UNCHANGED <<page, refresh, callers>>
  BY DEF VerifyAnswered, TypeOK
<1>3. \A o \in Tabs \ {t} : Same(o)
  BY DEF VerifyAnswered, Same, TypeOK
<1>4. /\ request'[t].token = request[t].token /\ request'[t].by = request[t].by
      /\ request'[t].stage = request[t].stage /\ request'[t].retried = request[t].retried
      /\ request'[t].kept = IF switched /\ request[t].stage # "none" THEN FALSE
                            ELSE request[t].kept
  BY <1>2 DEF TypeOK, Requests
<1>5. Stays(t)' => OfOneUser(t)'
  <2> SUFFICES ASSUME Stays(t)' PROVE OfOneUser(t)'
    OBVIOUS
  <2>1. refresh[t].stage = "idle" /\ Stays(t)
    BY DEF VerifyAnswered, Stays
  <2>2. OfOneUser(t)
    BY <2>1 DEF DataInv, DataFits
  <2>3. CASE switched
    BY <1>2, <1>4, <2>1, <2>3 DEF OfOneUser
  <2>4. CASE SignedIn(t) /\ ~switched
    BY <1>1, <1>2, <1>4, <2>1, <2>2, <2>4 DEF OfOneUser, UserOf
  <2>5. CASE ~SignedIn(t)
    BY <1>2, <1>4, <2>1, <2>2, <2>5, SignedOutBlank DEF OfOneUser
  <2> QED
    BY <2>3, <2>4, <2>5
<1>6. DataFits(t)'
  BY <1>1, <1>2, <1>4, <1>5 DEF DataInv, DataFits, Honours
<1> QED
  BY <1>3, <1>6, OneTabFits

\* A sign-in starts on a page that has restored its session.
LEMMA VerifyFits ==
    ASSUME TypeOK, DataInv, NEW t \in Tabs,
           VerifyFailed(t) \/ \E s \in Sessions : SendVerify(t, s)
    PROVE  DataInv'
<1>1. UNCHANGED <<page, store, refresh, callers, request, cached, overtaken>>
  BY DEF VerifyFailed, SendVerify
<1>2. \A o \in Tabs \ {t} : Same(o)
  BY DEF VerifyFailed, SendVerify, Same, TypeOK
<1>3. page[t] \notin {"closed", "loading"}
  BY DEF VerifyFailed, SendVerify, DataInv, DataFits, Blank, Open
<1>4. DataFits(t)'
  BY <1>1, <1>3 DEF DataInv, DataFits, Honours, Stays, OfOneUser, SignedIn,
     VerdictMoves, UserOf
<1> QED
  BY <1>2, <1>4, OneTabFits

\* Every step keeps every tab fit.
LEMMA DataStep ==
    ASSUME TypeOK, DataInv, [Next]_vars
    PROVE  DataInv'
<1>1. ASSUME NEW t \in Tabs,
             RefreshLost(t)
      PROVE  DataInv'
  BY <1>1, RejectedFits DEF RefreshLost, OnWire
<1>2. ASSUME NEW t \in Tabs, HearMessage(t) PROVE DataInv'
  <2>1. CASE UNCHANGED <<store, page, refresh, callers>>
    BY <1>2, <2>1, SameFits DEF HearMessage, DataInv, Same
  <2> QED
    BY <1>2, <2>1, JoinedFits, LeavingFits DEF HearMessage
<1>3. ASSUME NEW t \in Tabs, SendLogout(t) \/ LogoutFailed(t) PROVE DataInv'
  BY <1>3, SameFits DEF SendLogout, LogoutFailed, DataInv, Same
<1>4. ASSUME NEW s \in Sessions, SessionEnds(s) PROVE DataInv'
  BY <1>4, SameFits DEF SessionEnds, tabVars, DataInv, Same
<1>5. CASE UNCHANGED vars
  BY <1>5, SameFits DEF vars, tabVars, DataInv, Same
<1> QED
  BY <1>1, <1>2, <1>3, <1>4, <1>5, LoadFits, DiscardFits, TokensFit, AgedFits,
     RefreshAnsweredFits, ProfileAnsweredFits, JoinedFits, RequestFits, LeavingFits,
     VerifyAnsweredFits, VerifyFits DEF Next, TabStep

\* At the start every page is closed and blank.
LEMMA DataInit == Init => DataInv
BY DEF Init, DataInv, DataFits, Blank, Honours, Stays, OfOneUser, IdleRefresh, NoRequest

\* The inductive invariant of a page's data, whatever the tabs, the people, the
\* locks and what each tab does.
THEOREM DataStaysFit == Spec => []DataInv
<1>1. TypeOK /\ DataInv /\ [Next]_vars => DataInv'
  BY DataStep
<1> QED
  BY <1>1, DataInit, TypeCorrect, PTL DEF Spec

\* A request is replayed as the person who made it, and a page shows its user's
\* data only (refresh-core.ts, session.ts): with or without Web Locks, on every
\* page that no sign-in overtook.
THEOREM DataStaysOwn == Spec => []OwnData
<1>1. TypeOK /\ DataInv => OwnData
  <2> SUFFICES ASSUME TypeOK, DataInv, NEW t \in Tabs, Stays(t)
               PROVE  /\ request[t].stage = "sent" /\ request[t].retried /\ request[t].kept
                            => UserOf(request[t].token) = request[t].by
                      /\ cached[t] \subseteq {UserOf(store[t])}
    BY DEF OwnData, ReplayedAsItself, CacheIsOwn
  <2> QED
    BY DEF DataInv, DataFits, OfOneUser
<1> QED
  BY <1>1, DataStaysFit, TypeCorrect, PTL

-----------------------------------------------------------------------------
(* A logout is announced of a session that is gone. *)

\* A session somebody holds a token of has begun.
Begun(s) == s \in Sessions => session[s] # "unused"

\* A sign-in in flight will open a session of its own.
SessionsFit ==
    /\ \A t \in Tabs : Begun(store[t]) /\ Begun(refresh[t].cred.session)
    /\ \A t \in Tabs : verify[t] # NoSession => session[verify[t]] = "unused"
    /\ \A t \in Tabs, o \in Tabs : verify[t] = verify[o] => t = o \/ verify[t] = NoSession
    /\ Begun(cookie.session)

\* What every step but a sign-in does to the tokens: they pass from the cookie
\* into a refresh, from there into the store and back into the cookie.
TokensPass ==
    /\ \A s \in Sessions : session'[s] = "unused" <=> session[s] = "unused"
    /\ \A t \in Tabs : verify'[t] = verify[t] \/ verify'[t] = NoSession
    /\ \A t \in Tabs : store'[t] \in {store[t], NoSession, refresh[t].cred.session}
    /\ \A t \in Tabs :
          refresh'[t].cred.session \in {refresh[t].cred.session, cookie.session, NoSession}
    /\ \/ cookie'.session = cookie.session
       \/ \E t \in Tabs : cookie'.session = refresh[t].cred.session

\* Tokens that pass are of sessions that have begun.
LEMMA PassingFits ==
    ASSUME TypeOK, SessionsFit, TokensPass
    PROVE  SessionsFit'
<1>1. NoSession \notin Sessions
  BY SessionAssumption
<1>2. \A t \in Tabs : Begun(store[t])' /\ Begun(refresh[t].cred.session)'
  BY <1>1 DEF SessionsFit, TokensPass, Begun
<1>3. \A t \in Tabs : verify'[t] # NoSession => session'[verify'[t]] = "unused"
  BY DEF SessionsFit, TokensPass, TypeOK, Access
<1>4. \A t \in Tabs, o \in Tabs : verify'[t] = verify'[o] => t = o \/ verify'[t] = NoSession
  BY DEF SessionsFit, TokensPass
<1>5. Begun(cookie.session)'
  BY <1>1 DEF SessionsFit, TokensPass, Begun
<1> QED
  BY <1>2, <1>3, <1>4, <1>5 DEF SessionsFit

\* Joining a refresh takes the cookie at most.
LEMMA JoinPasses ==
    ASSUME TypeOK, NEW t \in Tabs, NEW c \in Callers, Join(t, c)
    PROVE  \A o \in Tabs : refresh'[o].cred.session
                              \in {refresh[o].cred.session, cookie.session, NoSession}
<1> DEFINE new == IF UseLock THEN [IdleRefresh EXCEPT !.stage = "queued"]
                  ELSE [IdleRefresh EXCEPT !.stage = "posting", !.cred = cookie]
<1>1. new.cred.session \in {cookie.session, NoSession}
  BY DEF IdleRefresh, NoCookie
<1>2. refresh' = refresh \/ refresh' = [refresh EXCEPT ![t] = new]
  BY DEF Join
<1>3. \A o \in Tabs : refresh'[o] = refresh[o] \/ refresh'[o] = new
  BY <1>2 DEF TypeOK
<1> QED
  BY <1>1, <1>3

\* The API begins no session when it answers a refresh.
LEMMA ServedBeginsNone ==
    ASSUME TypeOK, NEW tok \in Tokens, session' = SessionAfter(tok), NEW s \in Sessions
    PROVE  /\ session'[s] = "unused" <=> session[s] = "unused"
           /\ session'[s] = "alive" => session[s] = "alive"
BY DEF SessionAfter, Alive, TypeOK

\* The API's answer and the grace window leave every token its session.
LEMMA ServedPasses ==
    ASSUME TypeOK, SessionsFit, NEW t \in Tabs, ServeRefresh(t)
    PROVE  /\ TokensPass
           /\ cookie'.session = cookie.session
           /\ \A s \in Sessions : session'[s] = "alive" => session[s] = "alive"
<1> DEFINE tok == refresh[t].cred
           aged == AgedRefresh(tok.session, "current", "grace")
<1>1. tok \in Tokens
  BY DEF TypeOK, Refreshes
<1>2. \A o \in Tabs : aged[o].cred.session = refresh[o].cred.session
  BY DEF AgedRefresh, Aged, TypeOK, Refreshes, Tokens
<1>3. \A o \in Tabs \ {t} : refresh'[o] = aged[o] \/ refresh'[o] = refresh[o]
  BY AgedRefreshType DEF ServeRefresh, TypeOK, Ages
<1>4. refresh'[t].cred.session \in {tok.session, NoSession}
  BY AgedRefreshType DEF ServeRefresh, TypeOK, Ages, Current, NoCookie
<1>5. cookie'.session = cookie.session
  BY DEF ServeRefresh, Aged, TypeOK, Tokens
<1>6. \A s \in Sessions : /\ session'[s] = "unused" <=> session[s] = "unused"
                          /\ session'[s] = "alive" => session[s] = "alive"
  BY <1>1, ServedBeginsNone DEF ServeRefresh
<1> QED
  BY <1>2, <1>3, <1>4, <1>5, <1>6 DEF ServeRefresh, TokensPass

LEMMA AgedPasses ==
    ASSUME TypeOK, SessionsFit,
           (\E tok \in Tokens : ServeOrphan(tok)) \/ (\E s \in Sessions : GraceEnds(s))
    PROVE  /\ TokensPass
           /\ cookie'.session = cookie.session
           /\ \A s \in Sessions : session'[s] = "alive" => session[s] = "alive"
           /\ \A o \in Tabs : /\ refresh'[o].stage = refresh[o].stage
                              /\ refresh'[o].res = refresh[o].res
                              /\ refresh'[o].cred.session = refresh[o].cred.session
           /\ UNCHANGED <<store, overtaken>>
<1>1. \A o \in Tabs : /\ refresh'[o].stage = refresh[o].stage
                      /\ refresh'[o].res = refresh[o].res
                      /\ refresh'[o].cred.session = refresh[o].cred.session
  BY AgedWire DEF ServeOrphan, GraceEnds, Tokens, Access, Ages
<1>2. cookie'.session = cookie.session
  BY DEF ServeOrphan, GraceEnds, Aged, TypeOK, Tokens
<1>3. \A s \in Sessions : /\ session'[s] = "unused" <=> session[s] = "unused"
                          /\ session'[s] = "alive" => session[s] = "alive"
  BY ServedBeginsNone DEF ServeOrphan, GraceEnds
<1> QED
  BY <1>1, <1>2, <1>3 DEF ServeOrphan, GraceEnds, TokensPass

\* What a tab's refresh in progress may do to the person it was started for:
\* unless a sign-in overtook it, a verdict is about a session that is over, or
\* that the cookie left behind, and so is a token of another session.
JudgedFits(t) ==
    Working(t) /\ SignedIn(t) /\ t \notin overtaken =>
        IF refresh[t].stage = "answered" /\ refresh[t].res = "denied"
        THEN session[store[t]] # "alive" \/ cookie.session # store[t]
        ELSE refresh[t].cred.session # store[t] => cookie.session # store[t]

\* The inductive invariant behind AnnouncedOnlyWhenGone; it needs the lock.
JudgedInv == UseLock => SessionsFit /\ \A t \in Tabs : JudgedFits(t)

\* Sessions that end, in a tab whose own tokens stay, keep a verdict right.
LEMMA JudgedKept ==
    ASSUME TypeOK, NEW o \in Tabs, JudgedFits(o),
           cookie'.session = cookie.session,
           \A s \in Sessions : session'[s] = "alive" => session[s] = "alive",
           store'[o] = store[o] \/ store'[o] = NoSession,
           o \in overtaken' <=> o \in overtaken,
           refresh'[o].stage = refresh[o].stage, refresh'[o].res = refresh[o].res,
           refresh'[o].cred.session = refresh[o].cred.session
    PROVE  JudgedFits(o)'
<1>1. store[o] \in Sessions \union {NoSession}
  BY DEF TypeOK, Access
<1> QED
  BY <1>1 DEF JudgedFits, Working, SignedIn

\* A step that moves no token.
LEMMA QuietJudged ==
    ASSUME TypeOK, SessionsFit, \A t \in Tabs : JudgedFits(t),
           UNCHANGED <<cookie, refresh, overtaken>>,
           \A s \in Sessions : /\ session'[s] = "unused" <=> session[s] = "unused"
                               /\ session'[s] = "alive" => session[s] = "alive",
           \A o \in Tabs : verify'[o] = verify[o] \/ verify'[o] = NoSession,
           \A o \in Tabs : store'[o] = store[o] \/ store'[o] = NoSession
    PROVE  SessionsFit' /\ \A t \in Tabs : JudgedFits(t)'
<1>1. TokensPass
  BY DEF TokensPass
<1> QED
  BY <1>1, PassingFits, JudgedKept

\* A refresh that queues, or settles, is nobody's verdict yet, or any more.
LEMMA IdleJudged ==
    ASSUME TypeOK, SessionsFit, \A o \in Tabs : JudgedFits(o), NEW t \in Tabs,
           ~Working(t)', TokensPass,
           UNCHANGED <<session, cookie>>,
           \A o \in Tabs \ {t} : /\ refresh'[o] = refresh[o] /\ store'[o] = store[o]
                                 /\ o \in overtaken' <=> o \in overtaken
    PROVE  SessionsFit' /\ \A o \in Tabs : JudgedFits(o)'
<1>1. JudgedFits(t)'
  BY DEF JudgedFits
<1>2. \A o \in Tabs \ {t} : JudgedFits(o)'
  BY JudgedKept
<1> QED
  BY <1>1, <1>2, PassingFits

\* Under the lock, joining a refresh queues for it.
LEMMA JoinJudged ==
    ASSUME TypeOK, SessionsFit, \A o \in Tabs : JudgedFits(o), UseLock,
           NEW t \in Tabs, NEW c \in Callers, Join(t, c),
           UNCHANGED <<session, cookie, store, verify, overtaken>>
    PROVE  SessionsFit' /\ \A o \in Tabs : JudgedFits(o)'
<1>1. CASE refresh[t].stage # "idle"
  BY <1>1, QuietJudged DEF Join
<1>2. CASE refresh[t].stage = "idle"
  <2>1. refresh' = [refresh EXCEPT ![t] = [IdleRefresh EXCEPT !.stage = "queued"]]
    BY <1>2 DEF Join
  <2>2. ~Working(t)' /\ \A o \in Tabs \ {t} : refresh'[o] = refresh[o]
    BY <2>1 DEF Working, TypeOK, IdleRefresh
  <2>3. TokensPass
    BY JoinPasses DEF TokensPass
  <2> QED
    BY <2>2, <2>3, IdleJudged
<1> QED
  BY <1>1, <1>2

\* A refresh settles, on whatever it brought.
LEMMA SettledJudged ==
    ASSUME TypeOK, SessionsFit, \A o \in Tabs : JudgedFits(o), NEW t \in Tabs,
           refresh' = [refresh EXCEPT ![t] = IdleRefresh],
           UNCHANGED <<session, cookie>>,
           \A o \in Tabs : verify'[o] = verify[o] \/ verify'[o] = NoSession,
           store'[t] \in {store[t], NoSession, refresh[t].cred.session},
           \A o \in Tabs \ {t} : /\ store'[o] = store[o]
                                 /\ o \in overtaken' <=> o \in overtaken
    PROVE  SessionsFit' /\ \A o \in Tabs : JudgedFits(o)'
<1>1. /\ refresh'[t].stage = "idle" /\ refresh'[t].cred.session = NoSession
      /\ \A o \in Tabs \ {t} : refresh'[o] = refresh[o]
  BY DEF IdleRefresh, NoCookie, TypeOK
<1>2. ~Working(t)' /\ TokensPass
  BY <1>1 DEF Working, TokensPass
<1> QED
  BY <1>1, <1>2, IdleJudged

\* The refresh goes out with the cookie of that moment.
LEMMA GrantedJudged ==
    ASSUME TypeOK, RotationInv, UseLock, SessionsFit, \A o \in Tabs : JudgedFits(o),
           NEW t \in Tabs, LockGranted(t)
    PROVE  SessionsFit' /\ \A o \in Tabs : JudgedFits(o)'
<1>1. /\ refresh'[t].stage = "posting" /\ refresh'[t].cred = cookie
      /\ \A o \in Tabs \ {t} : refresh'[o] = refresh[o]
  BY DEF LockGranted, TypeOK, Refreshes
<1>2. TokensPass
  BY <1>1 DEF LockGranted, TokensPass, server
<1>3. JudgedFits(t)'
  BY <1>1 DEF LockGranted, JudgedFits
<1>4. \A o \in Tabs \ {t} : JudgedFits(o)'
  BY <1>1, JudgedKept DEF LockGranted, server
<1> QED
  BY <1>2, <1>3, <1>4, PassingFits

\* A token is denied when its session is over, or when the API revokes it now.
LEMMA ServedJudged ==
    ASSUME TypeOK, RotationInv, UseLock, SessionsFit, \A o \in Tabs : JudgedFits(o),
           NEW t \in Tabs, ServeRefresh(t)
    PROVE  SessionsFit' /\ \A o \in Tabs : JudgedFits(o)'
<1> DEFINE tok == refresh[t].cred
<1>1. /\ TokensPass /\ cookie'.session = cookie.session
      /\ \A s \in Sessions : session'[s] = "alive" => session[s] = "alive"
  BY ServedPasses
<1>2. \A o \in Tabs \ {t} : ~Working(o)
  BY DEF RotationInv, OneAtATime, Working, ServeRefresh
<1>3. \A o \in Tabs \ {t} : JudgedFits(o)'
  <2>1. \A o \in Tabs \ {t} : refresh'[o] = refresh[o]
    BY <1>2 DEF ServeRefresh, AgedRefresh, OnWire, Working, TypeOK
  <2> QED
    BY <1>2, <2>1 DEF JudgedFits, Working
<1>4. /\ refresh[t].stage = "posting" /\ refresh'[t].stage = "answered"
      /\ refresh'[t].res = IF Honoured(tok) THEN "ok" ELSE "denied"
      /\ refresh'[t].cred = IF Honoured(tok) THEN Current(tok.session) ELSE NoCookie
      /\ UNCHANGED <<store, overtaken>> /\ session' = SessionAfter(tok)
  BY AgedRefreshType DEF ServeRefresh, TypeOK, Ages
<1>5. JudgedFits(t)'
  <2> SUFFICES ASSUME SignedIn(t), t \notin overtaken PROVE JudgedFits(t)'
    BY <1>4 DEF JudgedFits, SignedIn
  <2>1. /\ store[t] \in Sessions
        /\ tok.session # store[t] => cookie.session # store[t]
    BY <1>4 DEF SignedIn, TypeOK, Access, JudgedFits, Working
  <2>2. CASE Honoured(tok)
    BY <1>1, <1>4, <2>1, <2>2 DEF JudgedFits, Current
  <2>3. CASE ~Honoured(tok)
    <3>1. tok.session = store[t] => session'[store[t]] # "alive"
      BY <1>4, <2>1, <2>3 DEF Honoured, SessionAfter, Alive, TypeOK
    <3> QED
      BY <1>1, <1>4, <2>1, <2>3, <3>1 DEF JudgedFits
  <2> QED
    BY <2>2, <2>3
<1> QED
  BY <1>1, <1>3, <1>5, PassingFits

\* The answer's token replaces the cookie: another session's is left behind.
LEMMA AnsweredJudged ==
    ASSUME TypeOK, RotationInv, UseLock, SessionsFit, \A o \in Tabs : JudgedFits(o),
           NEW t \in Tabs, RefreshAnswered(t)
    PROVE  SessionsFit' /\ \A o \in Tabs : JudgedFits(o)'
<1>1. CASE refresh[t].res = "denied"
  <2>1. Verdict(t, FALSE) /\ UNCHANGED <<session, cookie, verify, overtaken>>
    BY <1>1 DEF RefreshAnswered, server
  <2>2. /\ refresh' = [refresh EXCEPT ![t] = IdleRefresh]
        /\ store' = [store EXCEPT ![t] = NoSession]
    BY <2>1 DEF Verdict, Settled
  <2>3. store'[t] = NoSession /\ \A o \in Tabs \ {t} : store'[o] = store[o]
    BY <2>2 DEF TypeOK
  <2> QED
    BY <2>1, <2>2, <2>3, SettledJudged
<1>2. CASE refresh[t].res = "ok"
  <2>1. /\ refresh'[t].stage = "profiling"
        /\ refresh'[t].cred.session = refresh[t].cred.session
        /\ \A o \in Tabs \ {t} : refresh'[o] = refresh[o]
        /\ cookie'.session = refresh[t].cred.session
        /\ UNCHANGED <<session, store, verify, overtaken>>
    BY <1>2 DEF RefreshAnswered, TypeOK, Current, server
  <2>2. TokensPass
    BY <2>1 DEF TokensPass
  <2>3. JudgedFits(t)'
    BY <2>1 DEF JudgedFits
  <2>4. \A o \in Tabs \ {t} : ~Working(o)
    BY DEF RefreshAnswered, RotationInv, OneAtATime, Working
  <2>5. \A o \in Tabs \ {t} : JudgedFits(o)'
    BY <2>1, <2>4 DEF JudgedFits, Working
  <2> QED
    BY <2>2, <2>3, <2>5, PassingFits
<1> QED
  BY <1>1, <1>2 DEF TypeOK, Refreshes

\* The profile settles the refresh on the session it brought, or on a verdict.
LEMMA ProfileJudged ==
    ASSUME TypeOK, SessionsFit, \A o \in Tabs : JudgedFits(o),
           NEW t \in Tabs, ProfileAnswered(t) \/ RefreshLost(t)
    PROVE  SessionsFit' /\ \A o \in Tabs : JudgedFits(o)'
<1>1. /\ refresh' = [refresh EXCEPT ![t] = IdleRefresh]
      /\ UNCHANGED <<session, cookie, verify, overtaken>>
  BY DEF ProfileAnswered, RefreshLost, Verdict, FailRefresh, Settled, server
<1>2. \/ store' = store \/ store' = [store EXCEPT ![t] = NoSession]
      \/ store' = [store EXCEPT ![t] = refresh[t].cred.session]
  BY DEF ProfileAnswered, RefreshLost, Verdict, FailRefresh
<1>3. /\ store'[t] \in {store[t], NoSession, refresh[t].cred.session}
      /\ \A o \in Tabs \ {t} : store'[o] = store[o]
  BY <1>2 DEF TypeOK
<1> QED
  BY <1>1, <1>3, SettledJudged

\* A sign-in opens a session that nobody had, and overtakes what its tab does.
LEMMA VerifyJudged ==
    ASSUME TypeOK, SessionsFit, \A o \in Tabs : JudgedFits(o),
           NEW t \in Tabs, VerifyAnswered(t)
    PROVE  SessionsFit' /\ \A o \in Tabs : JudgedFits(o)'
<1> DEFINE s == verify[t]
<1>1. s \in Sessions /\ s # NoSession /\ session[s] = "unused"
  BY DEF VerifyAnswered, SessionsFit, TypeOK, Access
<1>2. /\ session' = [session EXCEPT ![s] = "alive"] /\ cookie'.session = s
      /\ refresh' = refresh
      /\ store'[t] = s /\ \A o \in Tabs \ {t} : store'[o] = store[o]
      /\ verify'[t] = NoSession /\ \A o \in Tabs \ {t} : verify'[o] = verify[o]
      /\ \A o \in Tabs \ {t} : o \in overtaken' <=> o \in overtaken
      /\ refresh[t].stage = "idle" \/ t \in overtaken'
  BY DEF VerifyAnswered, TypeOK, Current
<1>3. \A x \in Sessions : session'[x] = IF x = s THEN "alive" ELSE session[x]
  BY <1>1, <1>2 DEF TypeOK
<1>4. SessionsFit'
  <2>1. \A o \in Tabs : Begun(store[o])' /\ Begun(refresh[o].cred.session)'
    BY <1>2, <1>3 DEF SessionsFit, Begun
  <2>2. \A o \in Tabs : verify'[o] # NoSession => session'[verify'[o]] = "unused"
    <3> SUFFICES ASSUME NEW o \in Tabs, verify'[o] # NoSession
                 PROVE  session'[verify'[o]] = "unused"
      OBVIOUS
    <3>1. o # t /\ verify'[o] = verify[o] /\ verify[o] \in Sessions /\ verify[o] # s
      BY <1>1, <1>2 DEF SessionsFit, TypeOK, Access
    <3> QED
      BY <1>3, <3>1 DEF SessionsFit
  <2>3. \A o \in Tabs, p \in Tabs :
           verify'[o] = verify'[p] => o = p \/ verify'[o] = NoSession
    BY <1>2 DEF SessionsFit
  <2>4. Begun(cookie.session)'
    BY <1>1, <1>2, <1>3 DEF Begun
  <2> QED
    BY <2>1, <2>2, <2>3, <2>4 DEF SessionsFit, Begun
<1>5. JudgedFits(t)'
  BY <1>2 DEF JudgedFits, Working
<1>6. ASSUME NEW o \in Tabs \ {t} PROVE JudgedFits(o)'
  <2>1. store[o] # s
    BY <1>1 DEF SessionsFit, Begun
  <2> QED
    BY <1>2, <1>6, <2>1 DEF JudgedFits, Working, SignedIn
<1> QED
  BY <1>4, <1>5, <1>6

\* A sign-in starts with a session nobody else is opening.
LEMMA SendVerifyJudged ==
    ASSUME TypeOK, SessionsFit, \A o \in Tabs : JudgedFits(o),
           NEW t \in Tabs, NEW s \in Sessions, SendVerify(t, s)
    PROVE  SessionsFit' /\ \A o \in Tabs : JudgedFits(o)'
<1>1. /\ verify'[t] = s /\ \A o \in Tabs \ {t} : verify'[o] = verify[o]
      /\ session[s] = "unused" /\ \A o \in Tabs : verify[o] # s
      /\ UNCHANGED <<session, cookie, store, refresh, overtaken>>
  BY DEF SendVerify, server, TypeOK
<1>2. SessionsFit'
  BY <1>1 DEF SessionsFit, Begun
<1>3. \A o \in Tabs : JudgedFits(o)'
  BY <1>1, JudgedKept
<1> QED
  BY <1>2, <1>3

\* Every step keeps the invariant.
LEMMA JudgedStep ==
    ASSUME TypeOK, RotationInv, JudgedInv, [Next]_vars
    PROVE  JudgedInv'
<1> SUFFICES ASSUME UseLock PROVE SessionsFit' /\ \A t \in Tabs : JudgedFits(t)'
  BY DEF JudgedInv
<1> USE DEF JudgedInv
<1>1. ASSUME NEW t \in Tabs, Load(t) \/ RefreshInBackground(t) \/ RefreshToRecover(t)
                           \/ RequestExpired(t)
      PROVE  JudgedInv'
  BY <1>1, JoinJudged DEF Load, RefreshInBackground, RefreshToRecover,
     RequestExpired, Callers, server
<1>2. ASSUME NEW t \in Tabs, Unload(t) \/ CloseTab(t) PROVE JudgedInv'
  <2>1. Discard(t)
    BY <1>2 DEF Unload, CloseTab
  <2>2. /\ refresh' = [refresh EXCEPT ![t] = IdleRefresh] /\ UNCHANGED <<session, cookie>>
        /\ \A o \in Tabs : verify'[o] = verify[o] \/ verify'[o] = NoSession
        /\ store'[t] = NoSession
        /\ \A o \in Tabs \ {t} : store'[o] = store[o] /\ (o \in overtaken' <=> o \in overtaken)
    BY <2>1 DEF Discard, TypeOK
  <2> QED
    BY <2>2, SettledJudged
<1>3. ASSUME NEW t \in Tabs, HearMessage(t) PROVE JudgedInv'
  <2>1. UNCHANGED <<session, cookie, verify, overtaken>>
    BY <1>3 DEF HearMessage, server
  <2>2. CASE Join(t, "elsewhere") /\ UNCHANGED store
    BY <2>1, <2>2, JoinJudged DEF Callers
  <2>3. CASE /\ UNCHANGED refresh
             /\ store' = store \/ store' = [store EXCEPT ![t] = NoSession]
    <3>1. \A o \in Tabs : store'[o] = store[o] \/ store'[o] = NoSession
      BY <2>3 DEF TypeOK
    <3> QED
      BY <2>1, <2>3, <3>1, QuietJudged
  <2> QED
    BY <1>3, <2>2, <2>3 DEF HearMessage
<1>4. ASSUME NEW t \in Tabs, RequestRefused(t) \/ LogoutAnswered(t) PROVE JudgedInv'
  <2>1. UNCHANGED <<cookie, refresh, overtaken, verify>>
    BY <1>4 DEF RequestRefused, LogoutAnswered
  <2>2. \A s \in Sessions : /\ session'[s] = "unused" <=> session[s] = "unused"
                            /\ session'[s] = "alive" => session[s] = "alive"
    BY <1>4 DEF RequestRefused, LogoutAnswered, server, Alive
  <2>3. \A o \in Tabs : store'[o] = store[o] \/ store'[o] = NoSession
    BY <1>4 DEF RequestRefused, LogoutAnswered, TypeOK
  <2> QED
    BY <2>1, <2>2, <2>3, QuietJudged
<1>5. ASSUME NEW t \in Tabs,
             \/ SendRequest(t) \/ RequestRejected(t) \/ RequestSucceeded(t)
             \/ SendLogout(t) \/ LogoutFailed(t)
      PROVE  JudgedInv'
  BY <1>5, QuietJudged DEF SendRequest, RequestRejected, RequestSucceeded, SendLogout,
     LogoutFailed, server
<1>6. ASSUME NEW t \in Tabs, VerifyFailed(t) PROVE JudgedInv'
  <2>1. UNCHANGED <<session, cookie, store, refresh, overtaken>>
    BY <1>6 DEF VerifyFailed, server
  <2>2. \A o \in Tabs : verify'[o] = verify[o] \/ verify'[o] = NoSession
    BY <1>6 DEF VerifyFailed, TypeOK
  <2> QED
    BY <2>1, <2>2, QuietJudged
<1>7. ASSUME (\E tok \in Tokens : ServeOrphan(tok)) \/ (\E s \in Sessions : GraceEnds(s))
      PROVE  JudgedInv'
  BY <1>7, AgedPasses, PassingFits, JudgedKept
<1>8. ASSUME NEW s \in Sessions, SessionEnds(s) PROVE JudgedInv'
  <2>1. UNCHANGED <<cookie, store, refresh, verify, overtaken>>
    BY <1>8 DEF SessionEnds, tabVars
  <2>2. \A x \in Sessions : /\ session'[x] = "unused" <=> session[x] = "unused"
                            /\ session'[x] = "alive" => session[x] = "alive"
    BY <1>8 DEF SessionEnds, Alive, TypeOK
  <2> QED
    BY <2>1, <2>2, QuietJudged
<1>9. CASE UNCHANGED vars
  BY <1>9, QuietJudged DEF vars, server, tabVars
<1> QED
  BY <1>1, <1>2, <1>3, <1>4, <1>5, <1>6, <1>7, <1>8, <1>9, GrantedJudged, ServedJudged,
     AnsweredJudged, ProfileJudged, VerifyJudged, SendVerifyJudged DEF Next, TabStep

\* At the start no refresh works, and the only session begun is the cookie's.
LEMMA JudgedInit == Init => JudgedInv
<1> SUFFICES ASSUME Init PROVE SessionsFit /\ \A t \in Tabs : JudgedFits(t)
  BY DEF JudgedInv
<1>1. NoSession \notin Sessions
  BY SessionAssumption
<1>2. \A t \in Tabs : /\ store[t] = NoSession /\ refresh[t].stage = "idle"
                      /\ refresh[t].cred.session = NoSession /\ verify[t] = NoSession
  BY DEF Init, IdleRefresh, NoCookie
<1>3. Begun(cookie.session)
  BY DEF Init, Begun, Current
<1> QED
  BY <1>1, <1>2, <1>3 DEF SessionsFit, JudgedFits, Working, Begun

\* With Web Locks, a refresh judges the session its tab has, for every tab.
THEOREM JudgedSafe == Spec => []JudgedInv
<1>1. TypeOK /\ RotationInv /\ JudgedInv /\ [Next]_vars => JudgedInv'
  BY JudgedStep
<1> QED
  BY <1>1, JudgedInit, TypeCorrect, RotationSafe, PTL DEF Spec

-----------------------------------------------------------------------------
(* Who says that, and about what. *)

\* A tab that reads, drops or is told of a sign-in hears no logout by it.
LEMMA NoLogoutHeard ==
    ASSUME TypeOK, NEW o \in Tabs,
           \/ inbox'[o] = inbox[o] \/ inbox'[o] = <<>>
           \/ inbox[o] # <<>> /\ inbox'[o] = Tail(inbox[o])
           \/ inbox'[o] = Append(inbox[o], "signed_in")
    PROVE  ~HearsLogout(o)
<1>1. inbox[o] \in Seq(Messages)
  BY DEF TypeOK
<1>2. CASE inbox'[o] = inbox[o] \/ inbox'[o] = <<>>
  BY <1>2 DEF HearsLogout
<1>3. CASE inbox[o] # <<>> /\ inbox'[o] = Tail(inbox[o])
  <2>1. DOMAIN Tail(inbox[o]) \subseteq DOMAIN inbox[o]
    BY <1>1, <1>3
  <2> QED
    BY <1>3, <2>1 DEF HearsLogout
<1>4. CASE inbox'[o] = Append(inbox[o], "signed_in")
  <2>1. \A i \in DOMAIN Append(inbox[o], "signed_in") \ DOMAIN inbox[o] :
           Append(inbox[o], "signed_in")[i] = "signed_in"
    BY <1>1
  <2> QED
    BY <1>4, <2>1 DEF HearsLogout
<1> QED
  BY <1>2, <1>3, <1>4

\* A verdict is announced of the tab's own session, and only if it is gone.
LEMMA VerdictExcused ==
    ASSUME TypeOK, UseLock, JudgedInv, DataInv, NEW t \in Tabs,
           RefreshAnswered(t) \/ ProfileAnswered(t), \E o \in Tabs : HearsLogout(o)
    PROVE  Excused(t)
<1>1. inbox' # inbox
  BY NoLogoutHeard
<1>2. /\ SignedIn(t)
      /\ \/ refresh[t].stage = "answered" /\ refresh[t].res = "denied"
         \/ /\ refresh[t].stage = "profiling"
            /\ ~Alive(refresh[t].cred.session) \/ May(t, "skew")
      /\ UNCHANGED <<session, cookie>>
  BY <1>1 DEF RefreshAnswered, ProfileAnswered, Verdict, FailRefresh, Announces, server
<1>3. store[t] \in Sessions
  BY <1>2 DEF SignedIn, TypeOK, Access
<1>4. CASE t \in overtaken \/ (refresh[t].stage = "profiling" /\ May(t, "skew"))
  BY <1>2, <1>4 DEF Excused
<1>5. CASE /\ t \notin overtaken
           /\ refresh[t].stage = "answered" /\ refresh[t].res = "denied"
  <2>1. session[store[t]] # "alive" \/ cookie.session # store[t]
    BY <1>2, <1>5 DEF JudgedInv, JudgedFits, Working
  <2> QED
    BY <1>2, <1>3, <1>5, <2>1 DEF Excused, Gone
<1>6. CASE /\ t \notin overtaken
           /\ refresh[t].stage = "profiling" /\ ~Alive(refresh[t].cred.session)
  <2> DEFINE s == refresh[t].cred.session
  <2>1. s # store[t] => cookie.session # store[t]
    BY <1>2, <1>6 DEF JudgedInv, JudgedFits, Working
  <2>2. s \in Sessions
    BY <1>6 DEF DataInv, DataFits, Honours
  <2>3. session[s] # "alive"
    BY <1>6, <2>2 DEF Alive
  <2> QED
    BY <1>2, <1>3, <1>6, <2>1, <2>2, <2>3 DEF Excused, Gone
<1> QED
  BY <1>2, <1>4, <1>5, <1>6

\* A refresh settles by its answer, or without a word to the others.
LEMMA SettlesByAnswer ==
    ASSUME TypeOK, [Next]_vars, NEW t \in Tabs, Settles(t), \E o \in Tabs : HearsLogout(o)
    PROVE  RefreshAnswered(t) \/ ProfileAnswered(t)
<1>1. \E o \in Tabs : inbox'[o] # inbox[o]
  BY NoLogoutHeard
<1>2. ASSUME NEW x \in Tabs, Unload(x) \/ CloseTab(x) \/ HearMessage(x)
      PROVE  FALSE
  <2>1. \A o \in Tabs : \/ inbox'[o] = inbox[o] \/ inbox'[o] = <<>>
                        \/ inbox[o] # <<>> /\ inbox'[o] = Tail(inbox[o])
    BY <1>2 DEF Unload, CloseTab, Discard, HearMessage, TypeOK
  <2> QED
    BY <2>1, NoLogoutHeard
<1>3. ASSUME NEW x \in Tabs,
             \/ Load(x) \/ LockGranted(x) \/ ServeRefresh(x) \/ RefreshLost(x)
             \/ RefreshInBackground(x) \/ RefreshToRecover(x) \/ SendRequest(x)
             \/ RequestRejected(x) \/ RequestSucceeded(x) \/ RequestExpired(x)
             \/ VerifyFailed(x) \/ SendLogout(x) \/ LogoutFailed(x)
             \/ \E s \in Sessions : SendVerify(x, s)
      PROVE  UNCHANGED inbox
  BY <1>3 DEF Load, LockGranted, ServeRefresh, RefreshLost, FailRefresh, RefreshInBackground,
     RefreshToRecover, SendRequest, RequestRejected, RequestSucceeded, RequestExpired,
     VerifyFailed, SendLogout, LogoutFailed, SendVerify
<1>4. ASSUME \/ \E tok \in Tokens : ServeOrphan(tok)
             \/ \E s \in Sessions : GraceEnds(s) \/ SessionEnds(s)
             \/ UNCHANGED vars
      PROVE  UNCHANGED inbox
  BY <1>4 DEF ServeOrphan, GraceEnds, SessionEnds, vars
<1>5. ASSUME NEW x \in Tabs, RequestRefused(x) \/ VerifyAnswered(x) \/ LogoutAnswered(x)
      PROVE  FALSE
  <2>1. UNCHANGED refresh
    BY <1>5 DEF RequestRefused, VerifyAnswered, LogoutAnswered
  <2> QED
    BY <2>1 DEF Settles
<1>6. ASSUME NEW x \in Tabs, x # t, RefreshAnswered(x) \/ ProfileAnswered(x)
      PROVE  FALSE
  <2>1. refresh'[t] = refresh[t]
    BY <1>6 DEF RefreshAnswered, ProfileAnswered, Verdict, FailRefresh, Settled, TypeOK
  <2> QED
    BY <2>1 DEF Settles
<1> QED
  BY <1>1, <1>2, <1>3, <1>4, <1>5, <1>6 DEF Next, TabStep

\* With Web Locks, a refresh tells the others to sign out only about a session
\* that is over or no longer the browser's, but for a sign-in that overtook it
\* and a fresh token that the API refused (refresh-core.ts:134-144).
THEOREM AnnouncementsHold == Spec => AnnouncedOnlyWhenGone
<1>1. TypeOK /\ JudgedInv /\ DataInv /\ [Next]_vars
         => [UseLock /\ (\E o \in Tabs : HearsLogout(o)) =>
                \A t \in Tabs : Settles(t) => Excused(t)]_vars
  BY SettlesByAnswer, VerdictExcused
<1> QED
  BY <1>1, JudgedSafe, DataStaysFit, TypeCorrect, PTL DEF Spec, AnnouncedOnlyWhenGone
=============================================================================
