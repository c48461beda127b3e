-------------------------- MODULE Maintenance_proofs --------------------------
(***************************************************************************)
(* Why the maintenance notice is never one period's words over another's   *)
(* mode, for any number of calls, periods and reloads: an answer on its way *)
(* names a period there was, and what the store holds is one period's or   *)
(* no period's.  And why nobody's page stays: leaving `full` either starts  *)
(* a recovery, whose guards run once the session was validated, or came     *)
(* before the gate.                                                        *)
(***************************************************************************)
EXTENDS Maintenance, TLAPS

-----------------------------------------------------------------------------
(* The invariant. *)

\* What is on its way names a period there was.
Dated(a) == a.at = "answered" => a.period \in DOMAIN periods

AnswersDated ==
    /\ Dated(read) /\ \A c \in Calls : Dated(call[c])
    /\ switched \in 0 .. Len(periods) /\ since \in 0 .. Len(periods)

\* A period not looked at in this load was reported in earlier loads at most.
OncePerLoad ==
    \A p \in Periods : /\ reports[p] <= 1 + reloads
                       /\ p \notin viewed => reports[p] <= reloads

\* While the store's mode has no start time, the read that would bring it was not
\* served before the header that set the mode; before the gate there is no read, and
\* no recovery.
ReadIsNewer ==
    /\ app # "mounted" => read = Nothing /\ recovery = {}
    /\ Unexplained(mode, since) /\ read.at = "answered" => read.period >= switched

\* NobodysPage, without the exception of a page that is still loading.
PageGuarded ==
    /\ app = "booting" => page = "login"
    /\ page = "app" /\ ~user =>
           mode = "full" \/ recovery \intersect {"session", "routes"} # {} \/ early

ModeInv == TypeOK /\ NoticeFits /\ AnswersDated /\ OncePerLoad /\ ReadIsNewer /\ PageGuarded

-----------------------------------------------------------------------------
(* Lemmas. *)

\* Periods are numbered from 1, and have a mode.
LEMMA PeriodsTyped ==
    ASSUME TypeOK
    PROVE  /\ DOMAIN periods = 1 .. Len(periods) /\ Len(periods) \in Nat
           /\ Len(periods) \in 1 .. MaxPeriods
           /\ \A p \in DOMAIN periods : periods[p] \in Modes /\ p \in Periods /\ p # 0
           /\ Len(periods) \in DOMAIN periods /\ Last(periods) = periods[Len(periods)]
BY MaintenanceAssumption DEF TypeOK, Periods, Last

\* No answer, a request sent, and an answer of the period that is current.
LEMMA AnswersTyped ==
    ASSUME TypeOK
    PROVE  /\ Nothing \in Answer /\ Nothing.at = "none"
           /\ Asked \in Answer /\ Asked.at = "sent"
           /\ \A b \in BOOLEAN : /\ Served(b) \in Answer /\ Served(b).at = "answered"
                                 /\ Served(b).period = Len(periods)
                                 /\ Served(b).refused = b
<1>1. 0 \in 0 .. MaxPeriods /\ Len(periods) \in 0 .. MaxPeriods
  BY PeriodsTyped, MaintenanceAssumption
<1>2. /\ Nothing \in Answer /\ Nothing.at = "none"
      /\ Asked \in Answer /\ Asked.at = "sent"
  BY <1>1 DEF Answer, Nothing, Asked
<1> QED
  BY <1>1, <1>2 DEF Answer, Served

\* A mark counts a period that this load had not counted.
LEMMA Marking ==
    ASSUME TypeOK, OncePerLoad, NEW m \in Modes, NEW p \in 0 .. MaxPeriods, Mark(m, p),
           UNCHANGED reloads
    PROVE  /\ viewed' \subseteq Periods /\ stored' \in 0 .. MaxPeriods
           /\ reports' \in [Periods -> Nat] /\ OncePerLoad'
<1>1. CASE UNCHANGED marks
  BY <1>1 DEF marks, TypeOK, OncePerLoad
<1>2. CASE m # "off" /\ p # 0
  <2>1. p \in Periods /\ reloads \in Nat
    BY <1>2, MaintenanceAssumption DEF Periods, TypeOK
  <2>2. viewed' = viewed \union {p} /\ stored' \in {stored, p}
    BY <1>2 DEF Mark
  <2>3. \/ p \notin viewed /\ reports' = [reports EXCEPT ![p] = @ + 1]
        \/ reports' = reports
    BY <1>2 DEF Mark, Fresh
  <2> QED
    BY <2>1, <2>2, <2>3 DEF TypeOK, OncePerLoad
<1> QED
  BY <1>1, <1>2 DEF Mark

\* Entering a mode marks its period, and starts a recovery when it leaves `full`.
LEMMA Entering ==
    ASSUME ModeInv, NEW m \in Modes, NEW p \in 0 .. MaxPeriods, Enter(m, p),
           UNCHANGED <<periods, app, user, page, reloads>>
    PROVE  /\ mode' = m /\ since' = p
           /\ viewed' \subseteq Periods /\ stored' \in 0 .. MaxPeriods
           /\ reports' \in [Periods -> Nat] /\ OncePerLoad'
           /\ recovery' \subseteq {"session", "routes", "queries"} /\ early' \in BOOLEAN
           /\ PageGuarded' /\ (app # "mounted" => recovery' = {})
<1>1. /\ mode' = m /\ since' = p
      /\ viewed' \subseteq Periods /\ stored' \in 0 .. MaxPeriods
      /\ reports' \in [Periods -> Nat] /\ OncePerLoad'
  BY Marking DEF Enter, ModeInv, marks, TypeOK, OncePerLoad
<1>2. /\ recovery' = IF mode = "full" /\ m # "full" /\ app = "mounted"
                     THEN recovery \union {"session"} ELSE recovery
      /\ early' = (early \/ (mode = "full" /\ m # "full" /\ app # "mounted"))
  BY DEF Enter, Recovers
<1> QED
  BY <1>1, <1>2 DEF ModeInv, TypeOK, PageGuarded, ReadIsNewer

\* The gate's effect leaves the read, drops it, or asks anew; anew whenever a mode
\* that is on has no start time.
LEMMA Rereading ==
    ASSUME ModeInv, NEW m \in Modes, NEW p \in 0 .. MaxPeriods
    PROVE  /\ Reread(m, p) \in {read, Asked, Nothing}
           /\ app # "mounted" => Reread(m, p) = Nothing
           /\ Unexplained(m, p) /\ ~(m = mode /\ p = since) => Reread(m, p) \in {Nothing, Asked}
BY DEF Reread, Moves, Unexplained, ModeInv, ReadIsNewer

\* A page that boots has asked nothing, and shows nothing of any period.
LEMMA ModeInit == Init => ModeInv
<1> SUFFICES ASSUME Init PROVE ModeInv
  OBVIOUS
<1>1. periods \in Seq(Modes) /\ Len(periods) = 1 /\ 1 \in Periods /\ 0 \in 0 .. MaxPeriods
  <2>1. PICK m \in Modes : periods = <<m>>
    BY DEF Init
  <2> QED
    BY <2>1, MaintenanceAssumption DEF Periods
<1>2. Nothing \in Answer /\ Nothing.at = "none"
  BY MaintenanceAssumption DEF Nothing, Answer
<1>3. TypeOK
  <2>1. periods \in Seq(Modes) /\ Len(periods) \in Periods
    BY <1>1
  <2>2. mode \in Modes /\ since \in 0 .. MaxPeriods /\ stored \in 0 .. MaxPeriods
        /\ switched \in 0 .. MaxPeriods /\ reloads \in 0 .. MaxReloads
    BY <1>1, MaintenanceAssumption DEF Init, Modes
  <2>3. call \in [Calls -> Answer] /\ read \in Answer
    BY <1>2 DEF Init
  <2>4. reports \in [Periods -> Nat]
    BY DEF Init
  <2>5. recovery \subseteq {"session", "routes", "queries"} /\ viewed \subseteq Periods
    BY DEF Init
  <2> QED
    BY <2>1, <2>2, <2>3, <2>4, <2>5 DEF Init, TypeOK
<1> QED
  BY <1>1, <1>2, <1>3, MaintenanceAssumption
  DEF Init, ModeInv, NoticeFits, AnswersDated, Dated, OncePerLoad, ReadIsNewer, PageGuarded,
      Unexplained

\* The API's periods, the calls and the reads leave the store alone.
LEMMA ApiStep ==
    ASSUME ModeInv,
           \/ \E m \in Modes : NewPeriod(m)
           \/ \E c \in Calls : CallSent(c) \/ CallServed(c) \/ CallFails(c)
           \/ ReadServed \/ ReadFails \/ Poll \/ Refocus
    PROVE  ModeInv'
<1> USE DEF ModeInv
<1>1. ASSUME NEW m \in Modes, NewPeriod(m) PROVE ModeInv'
  <2>1. /\ periods' \in Seq(Modes) /\ Len(periods') = Len(periods) + 1
        /\ \A p \in DOMAIN periods : periods'[p] = periods[p]
        /\ DOMAIN periods' = 1 .. Len(periods) + 1
    BY <1>1, PeriodsTyped DEF NewPeriod, TypeOK
  <2>2. Len(periods') \in Periods /\ DOMAIN periods \subseteq DOMAIN periods'
    BY <1>1, <2>1, PeriodsTyped, MaintenanceAssumption DEF NewPeriod, Periods
  <2> QED
    BY <1>1, <2>1, <2>2, PeriodsTyped
    DEF NewPeriod, store, marks, past, TypeOK, NoticeFits, AnswersDated, Dated, OncePerLoad,
        ReadIsNewer, PageGuarded, Unexplained
<1>2. ASSUME NEW c \in Calls, CallSent(c) \/ CallServed(c) \/ CallFails(c) PROVE ModeInv'
  <2>1. \E a \in Answer : call' = [call EXCEPT ![c] = a] /\ Dated(a)
    BY <1>2, AnswersTyped, PeriodsTyped DEF CallSent, CallServed, CallFails, Dated
  <2> QED
    BY <1>2, <2>1, ZenonT(60)
    DEF CallSent, CallServed, CallFails, store, marks, past, TypeOK, NoticeFits, AnswersDated,
        Dated, OncePerLoad, ReadIsNewer, PageGuarded, Unexplained
<1>3. CASE ReadServed \/ ReadFails \/ Poll \/ Refocus
  <2>1. /\ read' \in Answer
        /\ app # "mounted" => read' = Nothing
        /\ read'.at = "answered" => read'.period = Len(periods)
    BY <1>3, AnswersTyped DEF ReadServed, ReadFails, Poll, Refocus, ReadIsNewer
  <2>2. Dated(read)'
    BY <1>3, <2>1, PeriodsTyped DEF ReadServed, ReadFails, Poll, Refocus, Dated
  <2>3. UNCHANGED <<periods, store, call, app, user, page, recovery, marks, reloads, past>>
    BY <1>3 DEF ReadServed, ReadFails, Poll, Refocus
  <2>4. TypeOK'
    BY <2>1, <2>3 DEF store, marks, past, TypeOK
  <2> QED
    BY <2>1, <2>2, <2>3, <2>4, PeriodsTyped
    DEF store, marks, past, NoticeFits, AnswersDated, Dated, OncePerLoad, ReadIsNewer,
        PageGuarded, Unexplained
<1> QED
  BY <1>1, <1>2, <1>3

\* An answer that lands, of whatever period, brings a mode with its own start or none.
LEMMA LandingStep ==
    ASSUME ModeInv, (\E c \in Calls : CallLands(c)) \/ ReadLands PROVE ModeInv'
<1> USE DEF ModeInv
<1>1. ASSUME NEW c \in Calls, CallLands(c) PROVE ModeInv'
  <2> DEFINE p == call[c].period
  <2>1. /\ p \in DOMAIN periods /\ p \in Periods /\ p \in 0 .. MaxPeriods /\ p # 0
        /\ periods[p] \in Modes /\ 0 \in 0 .. MaxPeriods
        /\ UNCHANGED <<periods, app, user, page, reloads>>
    BY <1>1, PeriodsTyped, MaintenanceAssumption DEF CallLands, AnswersDated, Dated, Periods
  <2>2. /\ call' \in [Calls -> Answer]
        /\ Dated(read)' /\ \A d \in Calls : Dated(call[d])'
    <3>1. call' = [call EXCEPT ![c] = Nothing]
      BY <1>1 DEF CallLands
    <3>2. read' \in {read, Asked, Nothing}
      BY <1>1, <2>1, Rereading DEF CallLands, FromError, FromHeader
    <3> QED
      BY <2>1, <3>1, <3>2, AnswersTyped DEF TypeOK, AnswersDated, Dated
  <2>3. CASE call[c].refused
    <3>1. Enter(periods[p], p) /\ read' = Reread(periods[p], p) /\ UNCHANGED switched
      BY <1>1, <2>3 DEF CallLands, FromError
    <3> HIDE DEF p
    <3>2. /\ read' \in Answer
          /\ app # "mounted" => read' = Nothing
          /\ ~Unexplained(periods[p], p)
      BY <2>1, <3>1, Rereading, AnswersTyped DEF TypeOK, Unexplained
    <3>3. TypeOK'
      BY <2>1, <2>2, <3>1, <3>2, Entering DEF TypeOK
    <3> QED
      BY <2>1, <2>2, <3>1, <3>2, <3>3, Entering, PeriodsTyped
      DEF NoticeFits, AnswersDated, ReadIsNewer
  <2>4. CASE ~call[c].refused /\ periods[p] # mode
    <3>1. Enter(periods[p], 0) /\ read' = Reread(periods[p], 0) /\ switched' = p
      BY <1>1, <2>4 DEF CallLands, FromHeader
    <3> HIDE DEF p
    <3> QED
      BY <2>1, <2>2, <2>4, <3>1, Entering, Rereading, AnswersTyped, PeriodsTyped, SMTT(60)
      DEF TypeOK, NoticeFits, AnswersDated, ReadIsNewer, Unexplained
  <2>5. CASE ~call[c].refused /\ periods[p] = mode
    <3>1. UNCHANGED <<store, read, recovery, marks, past>>
      BY <1>1, <2>5 DEF CallLands, FromHeader
    <3> HIDE DEF p
    <3>2. TypeOK'
      BY <2>1, <2>2, <3>1 DEF store, marks, past, TypeOK
    <3> QED
      BY <2>1, <2>2, <3>1, <3>2
      DEF store, marks, past, NoticeFits, AnswersDated, OncePerLoad, ReadIsNewer, PageGuarded,
          Unexplained
  <2> QED
    BY <2>3, <2>4, <2>5
<1>2. CASE ReadLands
  <2> DEFINE p == read.period
  <2>1. /\ p \in DOMAIN periods /\ p \in 0 .. MaxPeriods /\ periods[p] \in Modes
        /\ KnownFrom(p) \in {0, p} /\ KnownFrom(p) \in 0 .. MaxPeriods
        /\ ~Unexplained(periods[p], KnownFrom(p))
    BY <1>2, PeriodsTyped, MaintenanceAssumption
    DEF ReadLands, AnswersDated, Dated, Periods, KnownFrom, Unexplained
  <2>2. /\ Enter(periods[p], KnownFrom(p))
        /\ read' = Nothing \/ (app = "mounted" /\ read' = Asked)
        /\ UNCHANGED <<periods, call, app, user, page, reloads, switched>>
    BY <1>2 DEF ReadLands
  <2> HIDE DEF p
  <2> QED
    BY <2>1, <2>2, Entering, AnswersTyped, PeriodsTyped, SMTT(60)
    DEF TypeOK, NoticeFits, AnswersDated, Dated, ReadIsNewer
<1> QED
  BY <1>1, <1>2

\* The guards, the load and the recovery; a reload begins again.
LEMMA PageStep ==
    ASSUME ModeInv,
           \/ \E p \in {"app", "login"} :
                  Navigate(p) \/ \E someone \in BOOLEAN : Guard(p, someone)
           \/ Mount \/ \E someone \in BOOLEAN : RecoverSession(someone)
           \/ RecoverRoutes \/ RecoverQueries \/ Reload
    PROVE  ModeInv'
<1> USE DEF ModeInv
<1>1. ASSUME NEW p \in {"app", "login"}, Navigate(p) PROVE ModeInv'
  BY <1>1
  DEF Navigate, Guarded, store, marks, past, TypeOK, NoticeFits, AnswersDated, Dated,
      OncePerLoad, ReadIsNewer, PageGuarded, Unexplained
<1>2. ASSUME NEW p \in {"app", "login"}, NEW someone \in BOOLEAN, Guard(p, someone)
      PROVE  ModeInv'
  BY <1>2
  DEF Guard, Guarded, store, marks, past, TypeOK, NoticeFits, AnswersDated, Dated,
      OncePerLoad, ReadIsNewer, PageGuarded, Unexplained
<1>3. CASE Mount
  <2>1. Mark(mode, since) /\ read' = Asked /\ app' = "mounted" /\ app # "booting"
        /\ UNCHANGED <<periods, store, call, user, page, recovery, reloads, past>>
    BY <1>3 DEF Mount
  <2>2. /\ viewed' \subseteq Periods /\ stored' \in 0 .. MaxPeriods
        /\ reports' \in [Periods -> Nat] /\ OncePerLoad'
    BY <2>1, Marking DEF TypeOK
  <2> QED
    BY <2>1, <2>2, AnswersTyped
    DEF store, past, TypeOK, NoticeFits, AnswersDated, Dated, ReadIsNewer, PageGuarded,
        Unexplained
<1>4. ASSUME NEW someone \in BOOLEAN, RecoverSession(someone) PROVE ModeInv'
  BY <1>4
  DEF RecoverSession, store, marks, past, TypeOK, NoticeFits, AnswersDated, Dated,
      OncePerLoad, ReadIsNewer, PageGuarded, Unexplained
<1>5. CASE RecoverRoutes
  BY <1>5
  DEF RecoverRoutes, Guarded, store, marks, past, TypeOK, NoticeFits, AnswersDated, Dated,
      OncePerLoad, ReadIsNewer, PageGuarded, Unexplained
<1>6. CASE RecoverQueries
  <2>1. app = "mounted"
    BY <1>6 DEF RecoverQueries, ReadIsNewer
  <2> QED
    BY <1>6, <2>1, AnswersTyped
    DEF RecoverQueries, store, marks, past, TypeOK, NoticeFits, AnswersDated, Dated,
        OncePerLoad, ReadIsNewer, PageGuarded, Unexplained
<1>7. CASE Reload
  <2>1. /\ mode' = "off" /\ since' = 0 /\ viewed' = {} /\ reloads' = reloads + 1
        /\ call' = [c \in Calls |-> Nothing] /\ read' = Nothing /\ page' = "login"
        /\ app' = "booting" /\ user' = FALSE /\ recovery' = {} /\ switched' = 0
        /\ early' = FALSE /\ UNCHANGED <<periods, stored, reports>> /\ reloads < MaxReloads
    BY <1>7 DEF Reload
  <2>2. reloads' \in 0 .. MaxReloads /\ 0 \in 0 .. MaxPeriods /\ 0 \in 0 .. Len(periods)
    BY <2>1, PeriodsTyped, MaintenanceAssumption DEF TypeOK
  <2>3. TypeOK'
    BY <2>1, <2>2, AnswersTyped DEF TypeOK, Modes
  <2>4. OncePerLoad'
    BY <2>1, MaintenanceAssumption DEF OncePerLoad, TypeOK
  <2> QED
    BY <2>1, <2>2, <2>3, <2>4, AnswersTyped
    DEF NoticeFits, AnswersDated, Dated, ReadIsNewer, PageGuarded, Unexplained
<1> QED
  BY <1>1, <1>2, <1>3, <1>4, <1>5, <1>6, <1>7

\* Every step of the tab and of the API keeps the invariant.
LEMMA ModeStep == ASSUME ModeInv, [Next]_vars PROVE ModeInv'
<1>1. CASE UNCHANGED vars
  BY <1>1
  DEF vars, store, marks, past, ModeInv, TypeOK, NoticeFits, AnswersDated, Dated, OncePerLoad,
      ReadIsNewer, PageGuarded, Unexplained
<1> QED
  BY <1>1, ApiStep, LandingStep, PageStep DEF Next

-----------------------------------------------------------------------------
(* The theorems. *)

\* The invariant holds in every tab, whatever order answers land in
\* (maintenance-mode.ts, maintenance-gate.tsx).
THEOREM ModesSafe == Spec => []ModeInv
BY ModeInit, ModeStep, PTL DEF Spec

\* The notice is the mode's own, and a load reports a period once, for any number
\* of periods and late answers (maintenance-mode.store, markMaintenanceViewed).
THEOREM NoticesKept == Spec => []NoticeKept
<1>1. ModeInv => NoticeKept
  BY DEF ModeInv, OncePerLoad, NoticeKept, ReportedOncePerLoad
<1> QED
  BY <1>1, ModesSafe, PTL

\* A signed-in page without a user is under the maintenance screen, or about to be
\* guarded again, unless `full` ended before the gate (installMaintenanceRecovery).
THEOREM NobodyStays == Spec => []NobodysPage
<1>1. ModeInv => NobodysPage
  BY DEF ModeInv, PageGuarded, NobodysPage
<1> QED
  BY <1>1, ModesSafe, PTL

\* The read that explains a header's mode is not older than the header: the older
\* one was cancelled (maintenance-gate.tsx).
THEOREM HeadersStand == Spec => HeaderStands
<1>1. ModeInv /\ [Next]_vars =>
        [ReadLands /\ Unexplained(mode, since) => read.period >= switched]_vars
  BY DEF ModeInv, ReadIsNewer, ReadLands
<1> QED
  BY <1>1, ModesSafe, PTL DEF Spec, HeaderStands
=============================================================================
