------------------------- MODULE Notifications_proofs -------------------------
(***************************************************************************)
(* Notifications, the stream that tells of them and the cached inbox.      *)
(*                                                                         *)
(* Why a page has one stream or one way back to it, for any tokens, any    *)
(* number of connections and any backoff: a stream, a timer and a refresh  *)
(* that the run awaits exclude one another, and a run that is wanted has   *)
(* one of the three.                                                       *)
(*                                                                         *)
(* Why the cached inbox ends up right, for any number of notifications,    *)
(* writes and capped counts: a read that could bring an older answer is    *)
(* cancelled when a write starts or asked again when the last one settles, *)
(* and a page whose read is out is marked stale until it lands.            *)
(***************************************************************************)
EXTENDS NotificationStream, Inbox, FiniteSetTheorems, TLAPS

-----------------------------------------------------------------------------
(* The stream: the invariant. *)

NoStream == \A s \in Slots : ~Live(s)

\* A way back rules out a stream and the other way back; a run that is over, or
\* that has not begun, has neither.
OneWay ==
    /\ timer # NoTimer => NoStream /\ "run" \notin waiters
    /\ "run" \in waiters => NoStream
    /\ run = NoToken => NoStream /\ timer = NoTimer /\ "run" \notin waiters

\* NeverParked, and while the continuations of a refresh are queued, too.
WayBack ==
    page = "here" /\ run = Wanted /\ run # NoToken =>
        ~NoStream \/ timer # NoTimer \/ "run" \in waiters

StreamInv == TypeOK /\ OneStream /\ OneWay /\ WayBack /\ CaughtUp

-----------------------------------------------------------------------------
(* The stream: lemmas. *)

\* What the run is for is a token or nothing.
LEMMA WantedTyped == TypeOK => Wanted \in Access
BY DEF TypeOK, Wanted, Access

\* A doubled backoff stays within its bounds, and goes down for nothing.
LEMMA DoublingHolds ==
    \A b \in InitialBackoff .. MaxBackoff :
        Doubled(b) \in InitialBackoff .. MaxBackoff /\ b <= Doubled(b)
BY StreamAssumption DEF Doubled

\* A mount's first backoff is within the bounds.
LEMMA BackoffBegins == InitialBackoff \in InitialBackoff .. MaxBackoff
BY StreamAssumption

\* A timer that is set is a timer, and another than none.
LEMMA TimersTyped ==
    /\ NoTimer \in Timers
    /\ \A kind \in {"connect", "refresh"}, waits \in BOOLEAN :
          /\ [kind |-> kind, waits |-> waits] \in Timers
          /\ [kind |-> kind, waits |-> waits] # NoTimer
BY DEF Timers, NoTimer

\* A connect where there is no stream makes one, which nothing was sent on yet.
LEMMA Connecting ==
    ASSUME TypeOK, NEW c \in [Slots -> Stages], \A s \in Slots : c[s] = "none", Connect(c)
    PROVE  /\ conn' \in [Slots -> Stages] /\ abort' \in Slots \union {NoSlot}
           /\ frames' \in [Slots -> SUBSET Kinds]
           /\ OneStream' /\ ~NoStream' /\ CaughtUp'
BY DEF TypeOK, Connect, OneStream, NoStream, Live, CaughtUp, Stages

\* The cleanup leaves no stream.
LEMMA Cleaned ==
    ASSUME TypeOK, OneStream
    PROVE  Aborted \in [Slots -> Stages] /\ \A s \in Slots : Aborted[s] = "none"
BY StreamAssumption DEF TypeOK, OneStream, Live, Aborted, Stages

\* A page starts with no stream, no timer and no run that would want one.
LEMMA StreamInit == Init => StreamInv
BY BackoffBegins, TimersTyped DEF Init, StreamInv, TypeOK, OneStream, OneWay, WayBack, CaughtUp,
   NoStream, Live, Access, Stages

\* Every task and every microtask of the page keeps the invariant.
LEMMA StreamStep == ASSUME StreamInv, [Next]_vars PROVE StreamInv'
<1> USE DEF StreamInv
<1>1. CASE EffectRuns
  <2>1. Wanted' = Wanted
    BY <1>1 DEF EffectRuns, Wanted
  <2>2. /\ run' = Wanted /\ timer' = NoTimer /\ "run" \notin waiters'
        /\ waiters' \subseteq {"run", "old", "other"}
        /\ backoff' \in InitialBackoff .. MaxBackoff /\ seen' \in BOOLEAN
        /\ UNCHANGED <<page, token, required, refresh, stale, hold>>
    BY <1>1, BackoffBegins DEF EffectRuns, ClearedTimer, AtUnmount, TypeOK
  <2>3. CASE Wanted # NoToken
    BY <1>1, <2>1, <2>2, <2>3, Cleaned, Connecting, WantedTyped, TimersTyped DEF EffectRuns,
       TypeOK, OneWay, WayBack
  <2>4. CASE Wanted = NoToken
    <3>1. /\ conn' = Aborted /\ abort' = NoSlot
          /\ frames' = [s \in Slots |-> IF Aborted[s] = "none" THEN {} ELSE frames[s]]
      BY <1>1, <2>4 DEF EffectRuns
    <3> QED
      BY <2>1, <2>2, <2>4, <3>1, Cleaned, WantedTyped, TimersTyped DEF TypeOK, OneStream, OneWay,
         WayBack, CaughtUp, NoStream, Live
  <2> QED
    BY <2>3, <2>4
<1>2. CASE TimerFires
  <2>1. Wanted' = Wanted /\ NoStream /\ timer' = NoTimer /\ run # NoToken
        /\ UNCHANGED <<page, token, required, run, backoff, seen, stale, hold>>
    BY <1>2 DEF TimerFires, Wanted, OneWay
  <2>2. CASE Connect(conn) /\ UNCHANGED <<refresh, waiters>>
    BY <1>2, <2>1, <2>2, Connecting, TimersTyped DEF TypeOK, OneWay, WayBack, NoStream, Live,
       TimerFires
  <2>3. CASE /\ waiters' = waiters \union {"run"} /\ refresh' = "inflight"
             /\ UNCHANGED <<conn, abort, frames>>
    BY <2>1, <2>3, TimersTyped DEF TypeOK, OneStream, OneWay, WayBack, CaughtUp, NoStream, Live
  <2> QED
    BY <1>2, <2>2, <2>3 DEF TimerFires
<1>3. CASE OtherRefresh
  BY <1>3 DEF OtherRefresh, hook, TypeOK, OneStream, OneWay, WayBack, CaughtUp, NoStream, Live,
     Wanted
<1>4. ASSUME NEW outcome \in {"ok", "verdict", "failed"}, RefreshSettles(outcome) PROVE StreamInv'
  BY <1>4 DEF RefreshSettles, Quiet, Wanted, hook, TypeOK, OneStream, OneWay, WayBack, CaughtUp,
     NoStream, Live, Access
<1>5. ASSUME NEW w \in waiters, HearsOk(w) PROVE StreamInv'
  <2>1. /\ waiters' = waiters \ {w} /\ refresh' \in {"idle", "ok"} /\ Wanted' = Wanted
        /\ UNCHANGED <<page, token, required, run, timer, backoff, seen, stale, hold>>
    BY <1>5 DEF HearsOk, Heard, Wanted
  <2>2. CASE w = "run" /\ SameToken
    BY <1>5, <2>1, <2>2, Connecting DEF HearsOk, TypeOK, OneWay, WayBack, NoStream, Live
  <2>3. CASE ~(w = "run" /\ SameToken)
    BY <1>5, <2>1, <2>3 DEF HearsOk, SameToken, TypeOK, OneStream, OneWay, WayBack, CaughtUp,
       NoStream, Live, Wanted
  <2> QED
    BY <2>2, <2>3
<1>6. ASSUME NEW w \in waiters, HearsVerdict(w) PROVE StreamInv'
  BY <1>6 DEF HearsVerdict, Heard, hook, TypeOK, OneStream, OneWay, WayBack, CaughtUp, NoStream,
     Live
<1>7. ASSUME NEW w \in waiters, HearsFailure(w) PROVE StreamInv'
  BY <1>7, DoublingHolds, TimersTyped DEF HearsFailure, Heard, Retries, ScheduleReconnect,
     SignedIn, TypeOK, OneStream, OneWay, WayBack, CaughtUp, NoStream, Live, Wanted
<1>8. ASSUME NEW s \in Slots, Dropped(s) PROVE StreamInv'
  BY <1>8, DoublingHolds, TimersTyped DEF Dropped, Ends, ScheduleReconnect, TypeOK, OneStream,
     OneWay, WayBack, CaughtUp, NoStream, Live, Wanted, Stages
<1>9. ASSUME NEW s \in Slots, Refused(s) PROVE StreamInv'
  BY <1>9, DoublingHolds, TimersTyped DEF Refused, Ends, ScheduleReconnect, TypeOK, OneStream,
     OneWay, WayBack, CaughtUp, NoStream, Live, Wanted, Stages
<1>10. ASSUME NEW s \in Slots, RefusedForSetup(s) PROVE StreamInv'
  BY <1>10 DEF RefusedForSetup, Ends, TypeOK, OneStream, OneWay, WayBack, CaughtUp, NoStream,
     Live, Wanted, Stages
<1>11. ASSUME NEW s \in Slots, ServerAccepts(s) PROVE StreamInv'
  BY <1>11 DEF ServerAccepts, TypeOK, OneStream, OneWay, WayBack, CaughtUp, NoStream, Live,
     Wanted, Stages, Kinds
<1>12. ASSUME NEW s \in Slots, Opens(s) PROVE StreamInv'
  BY <1>12 DEF Opens, Refetches, TypeOK, OneStream, OneWay, WayBack, CaughtUp, NoStream, Live,
     Wanted, Stages, Kinds
<1>13. ASSUME NEW s \in Slots, NEW k \in Kinds, Frame(s, k) PROVE StreamInv'
  BY <1>13, BackoffBegins DEF Frame, TypeOK, OneStream, OneWay, WayBack, CaughtUp, NoStream,
     Live, Wanted
<1>14. ASSUME NEW k \in Kinds, ServerChanges(k) PROVE StreamInv'
  BY <1>14 DEF ServerChanges, TypeOK, OneStream, OneWay, WayBack, CaughtUp, NoStream, Live, Wanted
<1>15. CASE RetryAfterOver
  BY <1>15 DEF RetryAfterOver, hook, TypeOK, OneStream, OneWay, WayBack, CaughtUp, NoStream,
     Live, Wanted
<1>16. CASE SetupRequired
  BY <1>16 DEF SetupRequired, Quiet, hook, TypeOK, OneStream, OneWay, WayBack, CaughtUp,
     NoStream, Live, Wanted
<1>17. CASE SetupFinished
  BY <1>17 DEF SetupFinished, Quiet, hook, TypeOK, OneStream, OneWay, WayBack, CaughtUp,
     NoStream, Live, Wanted
<1>18. CASE SignOut
  BY <1>18 DEF SignOut, hook, TypeOK, OneStream, OneWay, WayBack, CaughtUp, NoStream, Live, Access
<1>19. CASE NextPage
  BY <1>19, BackoffBegins, TimersTyped DEF NextPage, TypeOK, OneStream, OneWay, WayBack,
     CaughtUp, NoStream, Live, Access, Stages
<1>20. CASE UNCHANGED vars
  BY <1>20 DEF vars, hook, TypeOK, OneStream, OneWay, WayBack, CaughtUp, NoStream, Live, Wanted
<1> QED
  BY <1>1, <1>2, <1>3, <1>4, <1>5, <1>6, <1>7, <1>8, <1>9, <1>10, <1>11, <1>12, <1>13, <1>14,
     <1>15, <1>16, <1>17, <1>18, <1>19, <1>20 DEF Next, RefreshStep, ConnStep

-----------------------------------------------------------------------------
(* The stream: the theorems. *)

\* The invariant holds on every page: a run's stream, its timer and the refresh
\* it awaits exclude one another (use-notifications.ts:167-201, 259-263).
THEOREM StreamSafe == Spec => []StreamInv
BY StreamInit, StreamStep, PTL DEF Spec

\* A signed-in page has one stream, or one way back to it, whatever the refreshes
\* of its cancelled runs and of other requests do (use-notifications.ts:98-201).
THEOREM StreamsKept == Spec => []StreamKept
<1>1. StreamInv => StreamKept
  BY DEF StreamInv, WayBack, StreamKept, NeverParked, Quiet, NoStream
<1> QED
  BY <1>1, StreamSafe, PTL

\* While the stream is up, whatever the cache is behind on is a frame still to be
\* read (use-notifications.ts:141-154, 238-247).
THEOREM CachesCaughtUp == Spec => []CaughtUp
<1>1. StreamInv => CaughtUp
  BY DEF StreamInv
<1> QED
  BY <1>1, StreamSafe, PTL

\* The backoff goes down for a notification or an unmount only, for any first
\* backoff and any cap (use-notifications.ts:98-102).
THEOREM BackoffsHold == Spec => BackoffHolds
<1> DEFINE Falls == backoff' < backoff =>
             \/ \E s \in Slots : frames[s] \ frames'[s] = {"notification"}
             \/ required \/ page = "leaving"
<1>1. StreamInv /\ [Next]_vars => [Falls]_vars
  <2> SUFFICES ASSUME StreamInv, [Next]_vars, backoff' < backoff PROVE Falls
    OBVIOUS
  <2>1. backoff \in InitialBackoff .. MaxBackoff /\ backoff \in Nat
    BY StreamAssumption DEF StreamInv, TypeOK
  <2>2. backoff' # backoff /\ backoff' # Doubled(backoff)
    BY <2>1, DoublingHolds, StreamAssumption DEF Doubled
  <2>3. ASSUME NEW s \in Slots, NEW k \in Kinds, Frame(s, k) PROVE Falls
    BY <2>2, <2>3 DEF Frame, StreamInv, TypeOK
  <2>4. CASE EffectRuns
    BY <2>2, <2>4 DEF EffectRuns, AtUnmount
  <2>5. CASE NextPage
    BY <2>5 DEF NextPage
  <2> QED
    BY <2>2, <2>3, <2>4, <2>5 DEF Next, RefreshStep, ConnStep, TimerFires, OtherRefresh,
       RefreshSettles,
       HearsOk, HearsVerdict, HearsFailure, Dropped, Refused, RefusedForSetup,
       ScheduleReconnect, ServerAccepts,
       Opens, ServerChanges, RetryAfterOver, SetupRequired, SetupFinished, SignOut, vars, hook
<1> QED
  BY <1>1, StreamSafe, PTL DEF Spec, BackoffHolds

-----------------------------------------------------------------------------
(* The inbox: the invariant. *)

\* With no write in flight and no frame to hear, what is fresh is the server's.
FreshIsServers ==
    InFlight = {} /\ ~frame =>
        \A v \in Views : /\ fetch[v].stage = "answered" => fetch[v].at = server
                         /\ v \notin invalid => pages[v] = View(v, server)

\* A page whose read is out is stale, and the writes in flight know of the read.
ReadsKnown ==
    \A v \in Views : fetch[v] # NoFetch => v \in invalid /\ InFlight \subseteq overtaken

InboxInv == InboxTypeOK /\ FreshIsServers /\ ReadsKnown /\ EditsStand

-----------------------------------------------------------------------------
(* The inbox: lemmas. *)

\* What the API answers is a page.
LEMMA UnreadFinite ==
    \A R \in SUBSET Rows : IsFiniteSet(R) /\ Cardinality(R) \in Nat
<1>1. IsFiniteSet(Rows)
  BY FS_Interval, InboxAssumption DEF Rows
<1>2. ASSUME NEW R \in SUBSET Rows PROVE IsFiniteSet(R)
  BY <1>1, FS_Subset
<1> QED
  BY <1>2, FS_CardinalityType

LEMMA ViewTyped == ASSUME NEW v \in Views, NEW s \in [Rows -> States] PROVE View(v, s) \in Page
<1>1. Cardinality(Unread(s)) \in Nat
  BY UnreadFinite DEF Unread
<1>2. [count  |-> IF Cardinality(Unread(s)) < Cap THEN Cardinality(Unread(s)) ELSE Cap,
       capped |-> Cardinality(Unread(s)) > Cap] \in Totals
  BY <1>1, InboxAssumption DEF Totals
<1>3. [r \in Rows |->
         IF v = "all" THEN (IF s[r] \in {"unread", "read"} THEN s[r] ELSE "absent")
         ELSE IF r \in Newest(Unread(s)) THEN "unread" ELSE "absent"]
        \in [Rows -> {"absent", "unread", "read"}]
  OBVIOUS
<1> QED
  BY <1>2, <1>3 DEF View, Page

\* The empty inbox, and the stages of a read.
LEMMA ReadsTyped ==
    /\ Nothing \in [Rows -> States] /\ NoPages \in [Views -> Page]
    /\ NoFetch.stage = "none" /\ NoFetch.at = Nothing
    /\ Asked.stage = "asked" /\ Asked.at = Nothing
    /\ NoFetch # Asked
<1>1. Nothing \in [Rows -> States]
  BY DEF Nothing, States
<1> QED
  BY <1>1, ViewTyped DEF NoPages, NoFetch, Asked

\* What an edit makes of a page.
LEMMA EditedTyped ==
    ASSUME InboxTypeOK, NEW w, NEW v \in Views
    PROVE  Edited(w)[v].items = EditedItems(w, v) /\ Edited(w)[v].total = EditedTotal(w, v)
<1>1. pages[v] \in [items : [Rows -> {"absent", "unread", "read"}], total : Totals]
  BY DEF InboxTypeOK, Page
<1>2. pages[v] = [items |-> pages[v].items, total |-> pages[v].total]
  BY <1>1
<1>3. Edited(w)[v] = [pages[v] EXCEPT !.items = EditedItems(w, v), !.total = EditedTotal(w, v)]
  BY DEF Edited
<1> QED
  BY <1>2, <1>3

\* An edit only takes away: what was not unread is not, what was gone is gone.
LEMMA EditsTakeAway ==
    ASSUME InboxTypeOK, NEW w \in Writes
    PROVE  /\ Edited(w) \in [Views -> Page]
           /\ \A v \in Views, r \in Rows :
                 /\ pages[v].items[r] = "absent" => Edited(w)[v].items[r] = "absent"
                 /\ pages[v].items[r] # "unread" => Edited(w)[v].items[r] # "unread"
                 /\ w.kind = "all" \/ r = w.row => Edited(w)[v].items[r] # "unread"
                 /\ w.kind = "delete" /\ r = w.row => Edited(w)[v].items[r] = "absent"
<1>1. ASSUME NEW v \in Views PROVE EditedTotal(w, v) \in Totals
  <2>1. pages[v].total \in Totals /\ [count |-> 0, capped |-> FALSE] \in Totals
    BY InboxAssumption DEF InboxTypeOK, Page, Totals
  <2>2. Lowered(pages[v].total, WasUnread(w)) \in Totals
    BY <2>1, InboxAssumption DEF Lowered, Totals
  <2> QED
    BY <2>1, <2>2 DEF EditedTotal
<1>2. ASSUME NEW v \in Views
      PROVE  /\ EditedItems(w, v) \in [Rows -> {"absent", "unread", "read"}]
             /\ \A r \in Rows :
                 /\ pages[v].items[r] = "absent" => EditedItems(w, v)[r] = "absent"
                 /\ pages[v].items[r] # "unread" => EditedItems(w, v)[r] # "unread"
                 /\ w.kind = "all" \/ r = w.row => EditedItems(w, v)[r] # "unread"
                 /\ w.kind = "delete" /\ r = w.row => EditedItems(w, v)[r] = "absent"
  BY DEF EditedItems, InboxTypeOK, Page
<1>3. ASSUME NEW v \in Views PROVE Edited(w)[v] \in Page
  <2>1. pages[v] \in [items : [Rows -> {"absent", "unread", "read"}], total : Totals]
    BY DEF InboxTypeOK, Page
  <2>2. Edited(w)[v] = [pages[v] EXCEPT !.items = EditedItems(w, v), !.total = EditedTotal(w, v)]
    BY DEF Edited
  <2> QED
    BY <1>1, <1>2, <2>1, <2>2 DEF Page
<1>4. Edited(w) \in [Views -> Page]
  BY <1>3 DEF Edited
<1> QED
  BY <1>2, <1>4, EditedTyped

\* The kinds of a write have a row, or are for all of them.
LEMMA WritesTyped ==
    \A w \in Writes : w.kind \in {"read", "delete", "all"} /\ (w.kind # "all" => w.row \in Rows)
<1> TAKE w \in Writes
<1>1. /\ w \in [kind : WriteKinds, row : 0 .. N] /\ (w.kind = "all" <=> w.row = 0)
  BY DEF Writes
<1>2. w.kind \in WriteKinds /\ w.row \in 0 .. N
  BY <1>1
<1>3. w.kind \in {"read", "delete", "all"}
  BY <1>2, InboxAssumption
<1>4. w.row # 0 => w.row \in 1 .. N
  BY <1>2, InboxAssumption
<1> QED
  BY <1>1, <1>3, <1>4 DEF Rows

\* The inbox starts with what the server has.
LEMMA InboxStart == InboxInit => InboxInv
<1> SUFFICES ASSUME InboxInit PROVE InboxInv
  OBVIOUS
<1>1. server \in [Rows -> States]
  BY DEF InboxInit, States
<1>2. \A v \in Views : fetch[v] = NoFetch /\ pages[v] = View(v, server)
  BY DEF InboxInit
<1>3. InFlight = {}
  BY DEF InboxInit, InFlight
<1>4. InboxTypeOK
  BY <1>1, ViewTyped, ReadsTyped DEF InboxInit, InboxTypeOK, NoFetch
<1> QED
  BY <1>2, <1>3, <1>4, ReadsTyped DEF InboxInit, InboxInv, FreshIsServers, ReadsKnown, EditsStand

\* The page's reads.
LEMMA ReadStep ==
    ASSUME InboxInv,
           \E v \in Views : Reread(v) \/ FetchServed(v) \/ FetchLands(v) \/ FetchFails(v)
    PROVE  InboxInv'
<1> USE DEF InboxInv
<1>1. ASSUME NEW v \in Views, Reread(v) PROVE InboxInv'
  <2>1. /\ fetch' = [u \in Views |-> IF u = v THEN Asked ELSE fetch[u]]
        /\ overtaken' = overtaken \union InFlight /\ v \in invalid
        /\ UNCHANGED <<server, pages, invalid, write, snapshot, frame>> /\ InFlight' = InFlight
    BY <1>1 DEF Reread, Ask, InFlight
  <2>2. InboxTypeOK'
    BY <2>1, ReadsTyped DEF InboxTypeOK, Asked, InFlight
  <2> QED
    BY <2>1, <2>2, ReadsTyped DEF FreshIsServers, ReadsKnown, EditsStand, Shows
<1>2. ASSUME NEW v \in Views, FetchServed(v) PROVE InboxInv'
  <2>1. /\ fetch' = [fetch EXCEPT ![v] = [stage |-> "answered", at |-> server]]
        /\ fetch[v] = Asked
        /\ UNCHANGED <<server, pages, invalid, write, snapshot, frame, overtaken>>
        /\ InFlight' = InFlight
    BY <1>2 DEF FetchServed, InFlight
  <2>2. InboxTypeOK'
    BY <2>1 DEF InboxTypeOK
  <2> QED
    BY <2>1, <2>2, ReadsTyped DEF InboxTypeOK, FreshIsServers, ReadsKnown, EditsStand, Shows
<1>3. ASSUME NEW v \in Views, FetchLands(v) PROVE InboxInv'
  <2>1. /\ pages' = [pages EXCEPT ![v] = View(v, fetch[v].at)]
        /\ fetch' = [fetch EXCEPT ![v] = NoFetch] /\ invalid' = invalid \ {v}
        /\ fetch[v].stage = "answered" /\ fetch[v] # NoFetch
        /\ UNCHANGED <<server, write, snapshot, frame, overtaken>> /\ InFlight' = InFlight
    BY <1>3, ReadsTyped DEF FetchLands, InFlight
  <2>2. fetch[v].at \in [Rows -> States] /\ View(v, fetch[v].at) \in Page
    BY ViewTyped DEF InboxTypeOK
  <2>3. InboxTypeOK'
    BY <2>1, <2>2, ReadsTyped DEF InboxTypeOK, NoFetch
  <2> QED
    BY <2>1, <2>3, ReadsTyped DEF InboxTypeOK, FreshIsServers, ReadsKnown, EditsStand
<1>4. ASSUME NEW v \in Views, FetchFails(v) PROVE InboxInv'
  <2>1. /\ fetch' = [fetch EXCEPT ![v] = NoFetch]
        /\ UNCHANGED <<server, pages, invalid, write, snapshot, frame, overtaken>>
        /\ InFlight' = InFlight
    BY <1>4 DEF FetchFails, InFlight
  <2>2. InboxTypeOK'
    BY <2>1, ReadsTyped DEF InboxTypeOK, NoFetch
  <2> QED
    BY <2>1, <2>2, ReadsTyped DEF InboxTypeOK, FreshIsServers, ReadsKnown, EditsStand, Shows
<1> QED
  BY <1>1, <1>2, <1>3, <1>4

\* A notification comes, and the stream tells of it.
LEMMA HeardStep == ASSUME InboxInv, (\E r \in Rows : Arrives(r)) \/ FrameHeard PROVE InboxInv'
<1> USE DEF InboxInv
<1>1. ASSUME NEW r \in Rows, Arrives(r) PROVE InboxInv'
  <2>1. /\ server' = [server EXCEPT ![r] = "unread"] /\ frame' = TRUE
        /\ UNCHANGED <<pages, fetch, invalid, write, snapshot, overtaken>>
        /\ InFlight' = InFlight
    BY <1>1 DEF Arrives, InFlight
  <2>2. InboxTypeOK'
    BY <2>1 DEF InboxTypeOK, States
  <2> QED
    BY <2>1, <2>2 DEF FreshIsServers, ReadsKnown, EditsStand, Shows
<1>2. CASE FrameHeard
  <2>1. /\ fetch' = [v \in Views |-> Asked] /\ overtaken' = overtaken \union InFlight
        /\ invalid' = Views /\ UNCHANGED <<server, pages, write, snapshot>> /\ frame' = FALSE
        /\ InFlight' = InFlight
    BY <1>2 DEF FrameHeard, Ask, InFlight, Views
  <2>2. InboxTypeOK'
    BY <2>1, ReadsTyped DEF InboxTypeOK, Asked, InFlight
  <2> QED
    BY <2>1, <2>2, ReadsTyped DEF FreshIsServers, ReadsKnown, EditsStand, Shows
<1> QED
  BY <1>1, <1>2

\* A write edits the pages, reaches the server and settles.
LEMMA WriteStep ==
    ASSUME InboxInv, NEW w \in Writes, StartWrite(w) \/ WriteServed(w) \/ SettleWrite(w)
    PROVE  InboxInv'
<1> USE DEF InboxInv
<1>1. CASE StartWrite(w)
  <2>1. /\ fetch' = [v \in Views |-> NoFetch] /\ snapshot' = [snapshot EXCEPT ![w] = pages]
        /\ pages' = Edited(w) /\ invalid' = {} /\ write' = [write EXCEPT ![w] = "sent"]
        /\ UNCHANGED <<server, frame, overtaken>>
    BY <1>1 DEF StartWrite, FetchesCancelled
  <2>2. InFlight' = InFlight \union {w}
    BY <2>1 DEF InboxTypeOK, InFlight
  <2>3. InboxTypeOK'
    BY <2>1, EditsTakeAway, ReadsTyped DEF InboxTypeOK, NoFetch
  <2>4. ASSUME NEW x \in InFlight' \ overtaken' PROVE Shows(x)'
    <3>1. x \in Writes /\ (x # w => Shows(x))
      BY <2>1, <2>2 DEF EditsStand, InFlight
    <3> QED
      BY <2>1, <3>1, EditsTakeAway, WritesTyped DEF Shows, Views
  <2> QED
    BY <2>1, <2>2, <2>3, <2>4 DEF FreshIsServers, ReadsKnown, EditsStand
<1>2. CASE WriteServed(w)
  <2>1. /\ write[w] = "sent" /\ server' \in {server, Applied(w)}
        /\ write' \in {[write EXCEPT ![w] = "done"], [write EXCEPT ![w] = "failed"]}
        /\ UNCHANGED <<pages, fetch, invalid, snapshot, frame, overtaken>>
    BY <1>2 DEF WriteServed
  <2>2. InFlight' = InFlight /\ w \in InFlight
    BY <2>1 DEF InboxTypeOK, InFlight
  <2>3. Applied(w) \in [Rows -> States]
    BY DEF Applied, InboxTypeOK, States
  <2>4. InboxTypeOK'
    BY <2>1, <2>3 DEF InboxTypeOK
  <2> QED
    BY <2>1, <2>2, <2>4 DEF FreshIsServers, ReadsKnown, EditsStand, Shows
<1>3. CASE SettleWrite(w)
  <2>1. /\ write' = [write EXCEPT ![w] = "none"] /\ snapshot' = [snapshot EXCEPT ![w] = NoPages]
        /\ overtaken' = overtaken \ {w} /\ UNCHANGED <<server, frame>>
    BY <1>3 DEF SettleWrite
  <2>2. InFlight' = InFlight \ {w}
    BY <2>1 DEF InboxTypeOK, InFlight
  <2>3. CASE OtherWrite(w)
    <3>1. UNCHANGED <<pages, fetch, invalid>> /\ InFlight' # {}
      BY <1>3, <2>2, <2>3 DEF SettleWrite, OtherWrite
    <3>2. InboxTypeOK'
      BY <2>1, <3>1, ReadsTyped DEF InboxTypeOK
    <3> QED
      BY <2>1, <2>2, <3>1, <3>2 DEF FreshIsServers, ReadsKnown, EditsStand, Shows
  <2>4. CASE ~OtherWrite(w)
    <3>1. /\ pages' \in {pages, snapshot[w]} /\ fetch' = [v \in Views |-> Asked]
          /\ invalid' = Views /\ InFlight' = {}
      BY <1>3, <2>2, <2>4 DEF SettleWrite, OtherWrite
    <3>2. InboxTypeOK'
      BY <2>1, <3>1, ReadsTyped DEF InboxTypeOK, Asked
    <3> QED
      BY <2>1, <3>1, <3>2, ReadsTyped DEF FreshIsServers, ReadsKnown, EditsStand
  <2> QED
    BY <2>3, <2>4
<1> QED
  BY <1>1, <1>2, <1>3

\* Every step of the page and of the server keeps the invariant.
LEMMA InboxStep == ASSUME InboxInv, [InboxNext]_inboxVars PROVE InboxInv'
<1>1. CASE UNCHANGED inboxVars
  <2>1. InFlight' = InFlight
    BY <1>1 DEF inboxVars, InFlight
  <2> QED
    BY <1>1, <2>1 DEF inboxVars, InboxInv, InboxTypeOK, FreshIsServers, ReadsKnown, EditsStand,
       Shows
<1> QED
  BY <1>1, ReadStep, HeardStep, WriteStep DEF InboxNext

\* One row less is one unread less, if it was unread.
LEMMA OneLess ==
    ASSUME NEW R \in SUBSET Rows, NEW r
    PROVE  /\ r \in R => Cardinality(R) > 0 /\ Cardinality(R \ {r}) = Cardinality(R) - 1
           /\ r \notin R => R \ {r} = R
<1>1. IsFiniteSet(R) /\ Cardinality(R) \in Nat
  BY UnreadFinite
<1>2. ASSUME r \in R PROVE Cardinality(R) > 0 /\ Cardinality(R \ {r}) = Cardinality(R) - 1
  <2>1. Cardinality(R \ {r}) = Cardinality(R) - 1
    BY <1>1, <1>2, FS_RemoveElement
  <2>2. Cardinality(R \ {r}) \in Nat
    BY UnreadFinite
  <2> QED
    BY <1>1, <2>1, <2>2
<1> QED
  BY <1>2

\* An edit takes its rows from the unread ones, and as many from an exact count.
LEMMA Counting ==
    ASSUME InboxTypeOK, Agree, NEW w \in Writes, StartWrite(w) PROVE Agree'
<1> DEFINE U == UnreadIn("all")
           total == pages["unread"].total
<1>1. pages' = Edited(w) /\ {"all", "unread"} = Views
  BY DEF StartWrite, Views
<1>2. /\ total \in Totals /\ total.count \in Nat /\ total.capped \in BOOLEAN
      /\ U \in SUBSET Rows /\ UnreadIn("unread") \subseteq U
      /\ ~total.capped => total.count = Cardinality(U)
  BY <1>1, InboxAssumption DEF InboxTypeOK, Page, Totals, Agree, UnreadIn
<1>3. \A v \in Views : /\ Edited(w)[v].items = EditedItems(w, v)
                       /\ Edited(w)[v].total = EditedTotal(w, v)
  BY EditedTyped
<1>4. UnreadIn("unread")' \subseteq UnreadIn("all")'
  BY <1>1, <1>2, <1>3, WritesTyped DEF UnreadIn, EditedItems
<1>5. CASE w.kind = "all"
  <2>1. UnreadIn("all")' = {}
    <3>1. \A r \in Rows : Edited(w)["all"].items[r] # "unread"
      BY <1>1, <1>5, EditsTakeAway
    <3> QED
      BY <1>1, <3>1 DEF UnreadIn
  <2>2. pages'["unread"].total = [count |-> 0, capped |-> FALSE]
    BY <1>1, <1>3, <1>5 DEF EditedTotal
  <2> QED
    BY <1>4, <2>1, <2>2, FS_EmptySet DEF Agree
<1>6. CASE w.kind # "all"
  <2>1. UnreadIn("all")' = U \ {w.row}
    BY <1>1, <1>3, <1>6, WritesTyped DEF UnreadIn, EditedItems
  <2>2. pages'["unread"].total = Lowered(total, WasUnread(w))
    BY <1>1, <1>3, <1>6 DEF EditedTotal
  <2>3. WasUnread(w) <=> w.row \in U
    <3>1. w.row \in Rows
      BY <1>6, WritesTyped
    <3>2. \A v \in Views : pages[v].items[w.row] = "unread" <=> w.row \in UnreadIn(v)
      BY <3>1 DEF UnreadIn
    <3> QED
      BY <1>1, <1>2, <3>2 DEF WasUnread
  <2>4. CASE total.capped
    BY <1>4, <2>2, <2>4 DEF Lowered, Agree
  <2>5. CASE ~total.capped
    <3>1. /\ w.row \in U => total.count > 0 /\ Cardinality(U \ {w.row}) = total.count - 1
          /\ w.row \notin U => U \ {w.row} = U
      BY <1>2, <2>5, OneLess
    <3>2. CASE w.row \in U
      <4>1. Lowered(total, WasUnread(w)) = [total EXCEPT !.count = @ - 1]
        BY <2>3, <2>5, <3>1, <3>2 DEF Lowered
      <4>2. Lowered(total, WasUnread(w)).count = total.count - 1
        BY <1>2, <4>1 DEF Totals
      <4> QED
        BY <1>4, <2>1, <2>2, <3>1, <3>2, <4>2 DEF Agree
    <3>3. CASE w.row \notin U
      <4>1. Lowered(total, WasUnread(w)) = total
        BY <2>3, <3>3 DEF Lowered
      <4> QED
        BY <1>2, <1>4, <2>1, <2>2, <2>5, <3>1, <3>3, <4>1 DEF Agree
    <3> QED
      BY <3>2, <3>3
  <2> QED
    BY <2>4, <2>5
<1> QED
  BY <1>5, <1>6

-----------------------------------------------------------------------------
(* The inbox: the theorems. *)

\* The invariant holds of the cached inbox (notification.queries.ts:127-189).
THEOREM InboxSafe == InboxSpec => []InboxInv
BY InboxStart, InboxStep, PTL DEF InboxSpec

\* The lists end up right, however rollbacks, refetches and lost writes overtake
\* each other (notification.queries.ts:158-178).
THEOREM InboxSettles == InboxSpec => []InboxSettled
<1>1. InboxInv => InboxSettled
  <2> SUFFICES ASSUME InboxInv, InFlight = {}, ~frame, NEW v \in Views \ invalid
               PROVE  pages[v] = View(v, server)
    BY DEF InboxInv, InboxSettled, Converged
  <2> QED
    BY DEF InboxInv, FreshIsServers
<1> QED
  BY <1>1, InboxSafe, PTL

\* A row does not flick back while its write is in flight, unless a read was asked
\* for meanwhile (notification.queries.ts:150-165, 188-189).
THEOREM EditsHold == InboxSpec => []EditsStand
<1>1. InboxInv => EditsStand
  BY DEF InboxInv
<1> QED
  BY <1>1, InboxSafe, PTL

\* An edit keeps the bell's count and the list in step, for any cap
\* (notification.queries.ts:127-148).
THEOREM CountsHold == InboxSpec => EditsCount
<1> DEFINE Starts == \E w \in Writes : write[w] = "none" /\ write'[w] = "sent"
<1>1. InboxInv /\ [InboxNext]_inboxVars => [Agree /\ Starts => Agree']_inboxVars
  <2> SUFFICES ASSUME InboxInv, InboxNext, Agree, Starts PROVE Agree'
    BY DEF inboxVars, Agree, UnreadIn
  <2>1. PICK w \in Writes : StartWrite(w)
    BY DEF InboxNext, Reread, FetchServed, FetchLands, FetchFails, Arrives, FrameHeard,
       WriteServed, SettleWrite, InboxInv, InboxTypeOK
  <2> QED
    BY <2>1, Counting DEF InboxInv
<1> QED
  BY <1>1, InboxSafe, PTL DEF InboxSpec, EditsCount

===============================================================================
