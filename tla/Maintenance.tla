---------------------------- MODULE Maintenance ----------------------------
(***************************************************************************)
(* Maintenance mode as one tab hears it: the store (maintenance-mode.store, *)
(* maintenance-state), the response interceptor and the recovery            *)
(* (lib/maintenance-mode), the status query (maintenance-status.queries),   *)
(* the gate around every route (maintenance-gate) and the guards that stand *)
(* aside while the mode is `full`.                                          *)
(*                                                                         *)
(* The API goes through periods, numbered from 1, each with one mode: a     *)
(* period stands for the start time and the message that name it.  Answers  *)
(* carry the period they were served in and land in any order.  React's     *)
(* effects run in the same task as the store's change.                      *)
(***************************************************************************)
EXTENDS Naturals, Sequences, FiniteSets, SequencesExt

CONSTANTS
    Calls,       \* the API calls other than the status read
    MaxPeriods,  \* bound: the periods the API goes through
    MaxReloads   \* bound: reloads of the tab

ASSUME MaintenanceAssumption ==
    IsFiniteSet(Calls) /\ MaxPeriods \in Nat \ {0} /\ MaxReloads \in Nat

VARIABLES
    periods,    \* the mode of each period so far, the last one current
    mode, since, \* the store: its mode, and the period known to have begun it
    call,       \* each call: none, sent, or its answer on the way
    read,       \* the status read in flight
    app,        \* how far the page's load is
    user, page, \* whether someone is signed in, and the page's kind
    recovery,   \* the stages at which recoveries are
    viewed, stored, \* the periods reported in this load, and the stored one
    reloads,
    reports,    \* history: how often each period was reported
    switched,   \* history: the period of the header that last changed the mode
    early       \* history: whether `full` ended before the gate was there

store  == <<mode, since>>
marks  == <<viewed, stored, reports>>
past   == <<switched, early>>
vars == <<periods, store, call, read, app, user, page, recovery, marks, reloads, past>>

Modes   == {"off", "read_only", "full"}
Periods == 1 .. MaxPeriods
Nothing == [at |-> "none", period |-> 0, refused |-> FALSE]
Asked   == [Nothing EXCEPT !.at = "sent"]

Answer == [at : {"none", "sent", "answered"}, period : 0 .. MaxPeriods, refused : BOOLEAN]

TypeOK ==
    /\ periods \in Seq(Modes) /\ Len(periods) \in Periods
    /\ mode \in Modes /\ since \in 0 .. MaxPeriods
    /\ call \in [Calls -> Answer] /\ read \in Answer
    /\ app \in {"booting", "loading", "mounted"}
    /\ user \in BOOLEAN /\ page \in {"app", "login"}
    /\ recovery \subseteq {"session", "routes", "queries"}
    /\ viewed \subseteq Periods /\ stored \in 0 .. MaxPeriods
    /\ reloads \in 0 .. MaxReloads
    /\ reports \in [Periods -> Nat]
    /\ switched \in 0 .. MaxPeriods /\ early \in BOOLEAN

-----------------------------------------------------------------------------
(* What follows a change of the store. *)

(* Mutant: a recovery only when maintenance is over. *)
RecoversWhenOff(m) ==
    LET left == mode = "full" /\ m = "off" IN
    /\ recovery' = IF left /\ app = "mounted" THEN recovery \union {"session"} ELSE recovery
    /\ early' = (early \/ (left /\ app # "mounted"))

(* Leaving `full` starts a recovery, once the gate has installed it. *)
Recovers(m) ==
    LET left == mode = "full" /\ m # "full" IN
    /\ recovery' = IF left /\ app = "mounted" THEN recovery \union {"session"} ELSE recovery
    /\ early' = (early \/ (left /\ app # "mounted"))

(* Mutant: only the stored mark counts. *)
FreshByStorage(p) == stored # p

Fresh(p) == p \notin viewed /\ stored # p

(* A period whose start is known is reported, once in this tab session. *)
Mark(m, p) ==
    IF m = "off" \/ p = 0
    THEN UNCHANGED marks
    ELSE /\ viewed' = viewed \union {p}
         /\ stored' = IF p \in viewed THEN stored ELSE p
         /\ reports' = IF Fresh(p) THEN [reports EXCEPT ![p] = @ + 1] ELSE reports

Enter(m, p) ==
    /\ mode' = m /\ since' = p
    /\ Recovers(m)
    /\ IF app = "mounted" THEN Mark(m, p) ELSE UNCHANGED marks

Unexplained(m, p) == m # "off" /\ p = 0

Moves(m, p) == app = "mounted" /\ <<m, p>> # <<mode, since>>

(* Mutant: the older read is left to finish. *)
RereadJoining(m, p) ==
    CASE Moves(m, p) /\ Unexplained(m, p) /\ read = Nothing   -> Asked
      [] Moves(m, p) /\ m = "off" /\ Unexplained(mode, since) -> Nothing
      [] OTHER                                                -> read

(* What the gate's effect makes of the status read when the store moves from *)
(* (mode, since) to (m, p): a mode that is on without its start time is read *)
(* anew, the older read cancelled; turning it off cancels the read that was  *)
(* made for it.                                                             *)
Reread(m, p) ==
    CASE Moves(m, p) /\ Unexplained(m, p)                     -> Asked
      [] Moves(m, p) /\ m = "off" /\ Unexplained(mode, since) -> Nothing
      [] OTHER                                                -> read

-----------------------------------------------------------------------------
(* The API. *)

NewPeriod(m) ==
    /\ Len(periods) < MaxPeriods /\ m # Last(periods)
    /\ periods' = Append(periods, m)
    /\ UNCHANGED <<store, call, read, app, user, page, recovery, marks, reloads, past>>

CallSent(c) ==
    /\ call[c].at = "none"
    /\ call' = [call EXCEPT ![c] = Asked]
    /\ UNCHANGED <<periods, store, read, app, user, page, recovery, marks, reloads, past>>

(* A call is let through, or refused with 503 and a body that says why. *)
Served(refused) ==
    [at |-> "answered", period |-> Len(periods), refused |-> refused]

CallServed(c) ==
    /\ call[c].at = "sent"
    /\ \E refused \in {FALSE, Last(periods) # "off"} :
           call' = [call EXCEPT ![c] = Served(refused)]
    /\ UNCHANGED <<periods, store, read, app, user, page, recovery, marks, reloads, past>>

(* A network failure, or a proxy's 502, whose page carries no header. *)
CallFails(c) ==
    /\ call[c].at = "sent"
    /\ call' = [call EXCEPT ![c] = Nothing]
    /\ UNCHANGED <<periods, store, read, app, user, page, recovery, marks, reloads, past>>

-----------------------------------------------------------------------------
(* The interceptor. *)

(* Mutant: the notice outlives its mode. *)
FromHeaderKeeping(p) ==
    IF periods[p] = mode
    THEN UNCHANGED <<store, read, recovery, marks, past>>
    ELSE /\ Enter(periods[p], since)
         /\ read' = Reread(periods[p], 0)
         /\ switched' = p

(* A header says the mode and no more; the mode already held changes nothing. *)
FromHeader(p) ==
    IF periods[p] = mode
    THEN UNCHANGED <<store, read, recovery, marks, past>>
    ELSE /\ Enter(periods[p], 0)
         /\ read' = Reread(periods[p], 0)
         /\ switched' = p

(* A refusal's body names the period too, in the same task. *)
FromError(p) ==
    /\ Enter(periods[p], p)
    /\ read' = Reread(periods[p], p)
    /\ UNCHANGED switched

CallLands(c) ==
    /\ call[c].at = "answered"
    /\ IF call[c].refused THEN FromError(call[c].period) ELSE FromHeader(call[c].period)
    /\ call' = [call EXCEPT ![c] = Nothing]
    /\ UNCHANGED <<periods, app, user, page, reloads>>

-----------------------------------------------------------------------------
(* The status query. *)

ReadServed ==
    /\ read.at = "sent"
    /\ read' = Served(FALSE)
    /\ UNCHANGED <<periods, store, call, app, user, page, recovery, marks, reloads, past>>

KnownFrom(p) == IF periods[p] = "off" THEN 0 ELSE p

(* The status is complete.  Its own header, read just before, may have set   *)
(* the gate off: it cancels this read, too late, and perhaps asks again.     *)
ReadLands ==
    /\ read.at = "answered"
    /\ LET p == read.period IN
       /\ Enter(periods[p], KnownFrom(p))
       /\ \/ read' = Nothing
          \/ periods[p] \notin {mode, "off"} /\ app = "mounted" /\ read' = Asked
    /\ UNCHANGED <<periods, call, app, user, page, reloads, switched>>

(* Mutant: a failed poll stops the polling. *)
ReadFailsForGood ==
    /\ read.at = "sent"
    /\ read' = [Nothing EXCEPT !.period = 1]
    /\ UNCHANGED <<periods, store, call, app, user, page, recovery, marks, reloads, past>>

(* A 502, or a body that names no known mode. *)
ReadFails ==
    /\ read.at = "sent"
    /\ read' = Nothing
    /\ UNCHANGED <<periods, store, call, app, user, page, recovery, marks, reloads, past>>

Poll ==
    /\ app = "mounted" /\ mode = "full" /\ read = Nothing
    /\ read' = Asked
    /\ UNCHANGED <<periods, store, call, app, user, page, recovery, marks, reloads, past>>

(* Focus, or the network back: a stale status is read again. *)
Refocus ==
    /\ app = "mounted" /\ read = Nothing
    /\ read' = Asked
    /\ UNCHANGED <<periods, store, call, app, user, page, recovery, marks, reloads, past>>

-----------------------------------------------------------------------------
(* The guards. *)

Guarded(p, someone) ==
    IF mode = "full" THEN p
    ELSE IF someone THEN "app" ELSE "login"

Navigate(p) ==
    /\ app = "mounted"
    /\ page' = Guarded(p, user)
    /\ UNCHANGED <<periods, store, call, read, app, user, recovery, marks, reloads, past>>

(* The session restored or not, the guards of the page asked for. *)
Guard(p, someone) ==
    /\ app = "booting"
    /\ app' = "loading"
    /\ user' = someone
    /\ page' = Guarded(p, someone)
    /\ UNCHANGED <<periods, store, call, read, recovery, marks, reloads, past>>

(* The loaders are through: React mounts the gate. *)
Mount ==
    /\ app = "loading"
    /\ app' = "mounted"
    /\ read' = Asked
    /\ Mark(mode, since)
    /\ UNCHANGED <<periods, store, call, user, page, recovery, reloads, past>>

(* A recovery validates the session (whoever it finds), then *)
RecoverSession(someone) ==
    /\ "session" \in recovery
    /\ user' = someone
    /\ recovery' = (recovery \ {"session"}) \union {"routes"}
    /\ UNCHANGED <<periods, store, call, read, app, page, marks, reloads, past>>

(* runs every guard again, then *)
RecoverRoutes ==
    /\ "routes" \in recovery
    /\ page' = Guarded(page, user)
    /\ recovery' = (recovery \ {"routes"}) \union {"queries"}
    /\ UNCHANGED <<periods, store, call, read, app, user, marks, reloads, past>>

(* refetches every query on the page: a first status read is let finish.  *)
RecoverQueries ==
    /\ "queries" \in recovery
    /\ recovery' = recovery \ {"queries"}
    /\ \/ read' = Asked
       \/ read # Nothing /\ read' = read
    /\ UNCHANGED <<periods, store, call, app, user, page, marks, reloads, past>>

Reload ==
    /\ app = "mounted" /\ reloads < MaxReloads
    /\ reloads' = reloads + 1
    /\ mode' = "off" /\ since' = 0 /\ viewed' = {}
    /\ call' = [c \in Calls |-> Nothing] /\ read' = Nothing
    /\ app' = "booting" /\ user' = FALSE /\ page' = "login"
    /\ recovery' = {} /\ switched' = 0 /\ early' = FALSE
    /\ UNCHANGED <<periods, stored, reports>>

-----------------------------------------------------------------------------

Init ==
    /\ periods \in {<<m>> : m \in Modes}
    /\ mode = "off" /\ since = 0
    /\ call = [c \in Calls |-> Nothing] /\ read = Nothing
    /\ app = "booting" /\ user = FALSE /\ page = "login"
    /\ recovery = {} /\ viewed = {} /\ stored = 0 /\ reloads = 0
    /\ reports = [p \in Periods |-> 0]
    /\ switched = 0 /\ early = FALSE

Next ==
    \/ \E m \in Modes : NewPeriod(m)
    \/ \E c \in Calls : CallSent(c) \/ CallServed(c) \/ CallFails(c) \/ CallLands(c)
    \/ ReadServed \/ ReadLands \/ ReadFails \/ Poll \/ Refocus
    \/ \E p \in {"app", "login"} :
           Navigate(p) \/ \E someone \in BOOLEAN : Guard(p, someone)
    \/ Mount
    \/ \E someone \in BOOLEAN : RecoverSession(someone)
    \/ RecoverRoutes \/ RecoverQueries \/ Reload

Spec == Init /\ [][Next]_vars

(* The load finishes, polls fire (the tab in front), not every read fails   *)
(* and answers land.                                                       *)
FairSpec ==
    /\ Spec
    /\ WF_vars(\E p \in {"app", "login"}, someone \in BOOLEAN : Guard(p, someone))
    /\ WF_vars(Mount) /\ WF_vars(Poll) /\ SF_vars(ReadServed) /\ SF_vars(ReadLands)

-----------------------------------------------------------------------------
(* Properties. *)

(* The notice on screen (maintenance-gate) belongs to the mode it is shown  *)
(* with: the store never pairs one period's message and start with the mode *)
(* of another, in whatever order answers land.                              *)
NoticeFits == since # 0 => periods[since] = mode

(* A header that turned the mode on without its start time stands: the     *)
(* status read that then lands was served in that period or a later one,    *)
(* the older read cancelled (the gate's effect).                            *)
HeaderStands ==
    [][ReadLands /\ Unexplained(mode, since) => read.period >= switched]_vars

(* A page load reports a maintenance period at most once                   *)
(* (markMaintenanceViewed), whatever answers of old periods land late.      *)
ReportedOncePerLoad == \A p \in Periods : reports[p] <= 1 + reloads

(* The store's mode, notice and start are of one period, well formed, and  *)
(* what it takes for a new period is one (maintenance-mode.store,           *)
(* markMaintenanceViewed).                                                  *)
NoticeKept == TypeOK /\ NoticeFits /\ ReportedOncePerLoad

(* A signed-in page without a user is only ever shown under the maintenance *)
(* screen, or just before the guards run again (installMaintenanceRecovery) *)
(* -- unless `full` ended before the gate was there.                        *)
NobodysPage ==
    page = "app" /\ ~user => \/ mode = "full" \/ recovery \intersect {"session", "routes"} # {}
                             \/ early \/ app # "mounted"

(* The maintenance screen leaves once maintenance is over: `full` is polled *)
(* until an answer says otherwise, through failed polls.                    *)
FullEnds == mode = "full" /\ Last(periods) # "full" ~> mode # "full" \/ Last(periods) = "full"

(* What a test says: a status read in flight when a header turns the mode   *)
(* off is dropped, "so its late answer cannot put read_only back".          *)
OffStands ==
    [][ReadLands /\ mode = "off" => periods[read.period] = "off" \/ read.period >= switched]_vars
=============================================================================
