---------------------------- MODULE SignIn_proofs ----------------------------
(***************************************************************************)
(* What the properties of SignIn and PasskeyPrompt rest on, for any people  *)
(* and any number of messages on their way: an invariant of the prompts,    *)
(* which every step of the sign-in page keeps (PromptInvStep), and one of   *)
(* the page, the listener and the tabs elsewhere (SignInInv).               *)
(***************************************************************************)
EXTENDS SignIn, TLAPS

-----------------------------------------------------------------------------
(* The prompts. *)

\* A request that is open in the browser, or will be when its options come.
Fresh(r) == prompt[r].stage = "asked" \/ (prompt[r].stage = "options" /\ ~prompt[r].stale)

\* What a cleaned-up run can leave, and a live run only behind its field.
Stray ==
    /\ prompt["discarded"].stage \in {"none", "starting"}
    /\ prompt["late"].stage \in {"none", "verify"}
    /\ ~Active => prompt["autofill"].stage = "none"

\* The ref tells of the live run's own pick while its request is out.
PickMarked == prompt["autofill"].stage \in {"options", "asked", "rejected", "verify"} /\ picked
                 => prompt["autofill"].chosen

\* The button's fresh request has no rival: an earlier button's is stale, and
\* autofill is stale too unless it restarted for a stale pick.
OneSheet ==
    /\ able = "unknown" => \A r \in Sheets : prompt[r].stage = "none"
    /\ field # "shown" => prompt["button"].stage = "none"
    /\ able = "autofill" \/ InFlight("button") => ~Fresh("old")
    /\ Fresh("button") => /\ prompt["autofill"].stage # "starting"
                          /\ prompt["autofill"].stage = "options" /\ ~prompt["autofill"].stale => retried

PromptInv ==
    PromptTypeOK /\ Stray /\ AutofillOffered /\ PickMarked /\ QuietTillPicked /\ OneSheet

PromptRecords == [stage : Stages, stale : BOOLEAN, chosen : BOOLEAN]

\* The three ways a request starts or ends are requests.
LEMMA Starters == Idle \in PromptRecords /\ Starting \in PromptRecords /\ Asking \in PromptRecords
BY DEF Idle, Starting, Asking, PromptRecords, Stages

\* A page that has just mounted has asked for nothing.
LEMMA PromptInvInit == PromptInit => PromptInv
<1> SUFFICES ASSUME PromptInit PROVE PromptInv
  OBVIOUS
<1>1. \A r \in Requests : prompt[r] = Idle
  BY DEF PromptInit
<1>2. PromptTypeOK
  BY Starters DEF PromptInit, PromptTypeOK, PromptRecords
<1>3. prompt["discarded"].stage = "none" /\ prompt["late"].stage = "none" /\ prompt["autofill"].stage = "none"
      /\ prompt["button"].stage = "none" /\ prompt["old"].stage = "none"
  BY <1>1 DEF Idle, Requests
<1> QED
  BY <1>2, <1>3 DEF PromptInit, PromptInv, Stray, AutofillOffered, PickMarked, QuietTillPicked,
    OneSheet, Active, Sheets, Fresh, InFlight

\* The cleanup of a run leaves no request that could still open, and at most its
\* microtask and its verify; the buttons' own requests stay, spoilt.
LEMMA AfterCleanup ==
    ASSUME PromptInv
    PROVE  /\ CleanedUp(prompt) \in [Requests -> PromptRecords]
           /\ CleanedUp(prompt)["autofill"] = Idle
           /\ CleanedUp(prompt)["discarded"].stage \in {"none", "starting"}
           /\ CleanedUp(prompt)["late"].stage \in {"none", "verify"}
           /\ \A r \in Sheets :
                /\ CleanedUp(prompt)[r].stage # "asked"
                /\ CleanedUp(prompt)[r].stage = "options" => CleanedUp(prompt)[r].stale
                /\ CleanedUp(prompt)[r].stage = "none" <=> prompt[r].stage = "none"
<1> DEFINE c == Cancelled(prompt)
<1>1. c \in [Requests -> PromptRecords]
  BY DEF PromptInv, PromptTypeOK, PromptRecords, Stages, Cancelled, Aborted
<1>2. \A r \in Requests :
        /\ c[r].stage # "asked"
        /\ c[r].stage = "options" => c[r].stale
        /\ c[r].stage = "none" <=> prompt[r].stage = "none"
        /\ prompt[r].stage \in {"starting", "verify"} => c[r] = prompt[r]
        /\ c[r].stage \in {"starting", "verify"} => c[r] = prompt[r]
  BY DEF PromptInv, PromptTypeOK, PromptRecords, Stages, Cancelled, Aborted
<1>3. /\ c["discarded"].stage \in {"none", "starting"} /\ c["late"].stage \in {"none", "verify"}
  BY <1>2 DEF PromptInv, Stray, Requests
<1>4. CleanedUp(prompt) = [c EXCEPT !["autofill"] = Idle,
              !["discarded"] = IF c["autofill"].stage = "starting" THEN Starting ELSE @,
              !["late"] = IF c["autofill"].stage = "verify" THEN c["autofill"] ELSE @]
  BY DEF CleanedUp, CleanedUpOnly
<1>5. CleanedUp(prompt) \in [Requests -> PromptRecords]
  BY <1>1, <1>4, Starters DEF Requests
<1>6. \A r \in Sheets : CleanedUp(prompt)[r] = c[r]
  BY <1>1, <1>4 DEF Requests, Sheets
<1>7. CleanedUp(prompt)["autofill"] = Idle
  BY <1>1, <1>4 DEF Requests
<1>8. CleanedUp(prompt)["discarded"] \in {c["discarded"], Starting}
  BY <1>1, <1>4 DEF Requests
<1>9. CleanedUp(prompt)["late"] = IF c["autofill"].stage = "verify" THEN c["autofill"] ELSE c["late"]
  BY <1>1, <1>4 DEF Requests
<1> QED
  BY <1>2, <1>3, <1>5, <1>6, <1>7, <1>8, <1>9 DEF Requests, Sheets, Starting, Idle

\* Every step of the passkey requests keeps their invariant.
LEMMA PromptInvStep ==
    ASSUME PromptInv,
           PromptNext \/ FieldHides \/ FieldShows \/ PageLeaves \/ \E r \in Requests : Verified(r)
    PROVE  PromptInv'
<1> USE Starters DEF PromptInv, PromptTypeOK, Stray, AutofillOffered, PickMarked,
      QuietTillPicked, OneSheet, Active, Stages, Requests, Sheets, Fresh, InFlight
<1>1. CASE Learn
  BY <1>1 DEF Learn, Run, Idle, Starting
<1>2. CASE Begin
  BY <1>2 DEF Begin, PickForgotten, Asking, Idle
<1>3. CASE Discard
  BY <1>3 DEF Discard, Unbegun, Idle
<1>4. CASE Click
  BY <1>4, ZenonT(60) DEF Click, Clicked, Cancelled, Aborted, TaskOver, Asking, Idle
<1>5. CASE Lose
  BY <1>5 DEF Lose, Caught, To, PickForgotten, Asking, Idle
<1>6. ASSUME NEW r \in Requests, Open(r) PROVE PromptInv'
  BY <1>6 DEF Open, To, Aborted
<1>7. ASSUME NEW r \in Requests, Fails(r) PROVE PromptInv'
  BY <1>7 DEF Fails, Caught, To, PickForgotten, Asking, Idle
<1>8. ASSUME NEW r \in Requests, Dismiss(r) PROVE PromptInv'
  BY <1>8 DEF Dismiss, To
<1>9. ASSUME NEW r \in Requests, Pick(r) PROVE PromptInv'
  BY <1>9, ZenonT(60) DEF Pick
<1>10. ASSUME NEW r \in Requests, Settle(r) PROVE PromptInv'
  <2>1. CASE Active
    BY <1>10, <2>1, AfterCleanup DEF Settle, Settled, Run, Idle, Starting, PromptRecords
  <2>2. CASE ~Active
    BY <1>10, <2>2 DEF Settle, Settled, Idle
  <2> QED
    BY <2>1, <2>2
<1>11. ASSUME NEW r \in Requests, NEW expired \in BOOLEAN, VerifyFails(r, expired) PROVE PromptInv'
  <2>1. CASE r = "autofill"
    <3>1. prompt["autofill"].stage = "verify" /\ Caught("ended", expired)
      BY <1>11, <2>1 DEF VerifyFails
    <3>2. CASE picked /\ expired /\ ~retried
      <4>1. Asking \in PromptRecords /\ Asking.stage = "options" /\ ~Asking.stale
        BY Starters DEF Asking, Idle
      <4>2. /\ prompt' = [prompt EXCEPT !["autofill"] = Asking]
            /\ picked' = FALSE /\ retried' = TRUE
            /\ UNCHANGED <<able, field, landing, unasked>>
        BY <3>1, <3>2 DEF Caught, PickForgotten
      <4> QED
        BY <3>1, <4>1, <4>2 DEF PromptRecords
    <3>3. CASE ~(picked /\ expired /\ ~retried)
      <4>1. /\ prompt' = To(prompt, "autofill", "ended")
            /\ unasked' = (unasked \/ (picked /\ ~prompt["autofill"].chosen))
            /\ UNCHANGED <<able, field, picked, retried, landing>>
        BY <3>1, <3>3 DEF Caught
      <4>2. ~unasked'
        BY <3>1, <4>1
      <4> QED
        BY <3>1, <4>1, <4>2 DEF To
    <3> QED
      BY <3>2, <3>3
  <2>2. CASE r = "late"
    <3>1. /\ prompt' = [prompt EXCEPT !["late"] = Idle]
          /\ UNCHANGED <<able, field, picked, retried, landing, unasked>>
      BY <1>11, <2>2 DEF VerifyFails
    <3> QED
      BY <3>1 DEF Idle
  <2>3. CASE r \in Sheets
    BY <1>11, <2>3 DEF VerifyFails, To
  <2> QED
    BY <1>11, <2>1, <2>2, <2>3 DEF VerifyFails
<1>12. CASE FieldHides
  <2>1. CASE Active
    BY <1>12, <2>1, AfterCleanup DEF FieldHides, Goes, ButtonGone, Idle, PromptRecords
  <2>2. CASE ~Active
    BY <1>12, <2>2 DEF FieldHides, Goes, ButtonGone, Idle
  <2> QED
    BY <2>1, <2>2
<1>13. CASE FieldShows
  BY <1>13, ZenonT(60) DEF FieldShows, Run, Idle, Starting
<1>14. CASE PageLeaves
  <2>1. CASE Active
    BY <1>14, <2>1, AfterCleanup DEF PageLeaves, Goes, ButtonGone, Idle, PromptRecords
  <2>2. CASE ~Active
    BY <1>14, <2>2 DEF PageLeaves, Goes, ButtonGone, Idle
  <2> QED
    BY <2>1, <2>2
<1>15. ASSUME NEW r \in Requests, Verified(r) PROVE PromptInv'
  <2>1. CASE r = "autofill"
    BY <1>15, <2>1 DEF Verified, Idle
  <2>2. CASE r # "autofill"
    BY <1>15, <2>2, ZenonT(60) DEF Verified, Idle
  <2> QED
    BY <2>1, <2>2
<1> QED
  BY <1>1, <1>2, <1>3, <1>4, <1>5, <1>6, <1>7, <1>8, <1>9, <1>10, <1>11, <1>12, <1>13, <1>14,
     <1>15
     DEF PromptNext

PromptMove ==
    PromptNext \/ FieldHides \/ FieldShows \/ PageLeaves \/ \E r \in Requests : Verified(r)

\* A sheet is taken away by a step only as SheetStands says.
LEMMA SheetStep ==
    ASSUME PromptInv, PromptMove, NEW r \in Sheets,
           prompt[r].stage = "asked", prompt'[r].stage = "rejected"
    PROVE  \/ field' # field
           \/ Dismiss(r)
           \/ r = "old" /\ Click
           \/ retried /\ prompt["autofill"].stage = "options"
           \/ r = "button" /\ InFlight("old") /\ prompt'["old"] = Idle
<1> USE DEF PromptInv, PromptTypeOK, Stages, Requests, Sheets
<1>1. CASE Learn
  BY <1>1 DEF Learn, Run, Idle, Starting
<1>2. CASE Begin \/ Discard
  BY <1>2 DEF Begin, Discard
<1>3. CASE Click
  BY <1>3 DEF Click, InFlight
<1>4. CASE Lose
  BY <1>4 DEF Lose, Caught, To
<1>5. ASSUME NEW q \in Requests, Open(q)
      PROVE  retried /\ prompt["autofill"].stage = "options"
  <2>1. prompt[q].stage = "options" /\ ~prompt[q].stale
    BY <1>5 DEF Open, To
  <2>2. q = "autofill"
    BY <2>1 DEF OneSheet, Fresh, InFlight, Stray
  <2> QED
    BY <2>1, <2>2 DEF OneSheet, Fresh, InFlight, Stray, Active
<1>6. ASSUME NEW q \in Requests, Fails(q) PROVE FALSE
  BY <1>6 DEF Fails, Caught, To
<1>7. ASSUME NEW q \in Requests, Dismiss(q) PROVE Dismiss(r)
  <2>1. q = r
    BY <1>7 DEF Dismiss, To
  <2> QED
    BY <1>7, <2>1
<1>8. ASSUME NEW q \in Requests, Pick(q) PROVE FALSE
  BY <1>8 DEF Pick
<1>9. ASSUME NEW q \in Requests, Settle(q)
      PROVE  r = "button" /\ InFlight("old") /\ prompt'["old"] = Idle
  BY <1>9 DEF Settle, Settled, Run, CleanedUp, CleanedUpOnly, Cancelled, Aborted,
     Idle, Starting, OneSheet, Fresh, InFlight, Active
<1>10. ASSUME NEW q \in Requests, NEW expired \in BOOLEAN, VerifyFails(q, expired) PROVE FALSE
  <2>1. \/ Caught("ended", expired)
        \/ prompt' = [prompt EXCEPT !["late"] = Idle]
        \/ prompt' = To(prompt, q, "ended")
    BY <1>10 DEF VerifyFails
  <2> QED
    BY <2>1 DEF Caught, To
<1>11. CASE FieldHides \/ FieldShows \/ PageLeaves
  BY <1>11 DEF FieldHides, FieldShows, PageLeaves
<1>12. ASSUME NEW q \in Requests, Verified(q) PROVE FALSE
  BY <1>12 DEF Verified, Idle
<1> QED
  BY <1>1, <1>2, <1>3, <1>4, <1>5, <1>6, <1>7, <1>8, <1>9, <1>10, <1>11, <1>12
     DEF PromptMove, PromptNext

\* The page moves the passkey requests by their own steps, or leaves them alone;
\* a restore that answers only lands.
LEMMA PromptsMove ==
    ASSUME [Next]_vars
    PROVE  \/ PromptMove
           \/ UNCHANGED promptVars
           \/ RestoreAnswers \/ JoinLands
BY DEF Next, PromptMove, vars, promptVars, PromptStep, PasskeySignsIn, Send, Preview, PostServed,
   Mailed, PostFails, Dead, ChangeEmail, Leave, HearMessage, RestoreServed, RestoreFails,
   OpenMail, SwitchAccount, LinkServed, LinkAnswered, LinkLost, SignsInElsewhere,
   SignsOutElsewhere, HereUnchanged

-----------------------------------------------------------------------------
(* The page, its listener and the tabs elsewhere. *)

\* An invitation's page has no email field and no passkey request.
FitsKind ==
    kind = "invitation" => view # "email" /\ \A r \in Requests : prompt[r].stage = "none"

\* A restore is wanted only by a listener that still listens.
WantedHere == restore.wanted => Listening

\* Where the invitee's session can be found, the invitation was joined or they
\* signed in by something else.
InviteeKnown ==
    kind = "invitation" =>
        /\ store # Nobody => restore.stage \in {"none", "joining"} /\ restore.found = Nobody
        /\ Invitee \in {cookie, restore.found} => joined \/ strays
        /\ other = "served" => joined

\* The page that reads its tenant again was asked for by the invitee.
JoinFits == restore.stage = "joining" =>
    kind = "invitation" /\ store = Invitee /\ (joined \/ strays)

ClaimKept == claimed => kind = "invitation" /\ store = Invitee /\ (joined \/ strays)

SignInInv ==
    /\ PromptInv /\ TypeOK /\ FitsKind /\ WantedHere
    /\ InviteeKnown /\ JoinFits /\ ClaimKept

RestoreRecords == [stage : {"none", "asked", "served", "joining"},
                   found : People \union {Nobody}, wanted : BOOLEAN]

\* Every way a restore moves on leaves a restore.
LEMMA RestoreMoves ==
    /\ NoRestore \in RestoreRecords /\ Joining \in RestoreRecords
    /\ \A r \in RestoreRecords :
         /\ [r EXCEPT !.wanted = FALSE] \in RestoreRecords
         /\ [r EXCEPT !.wanted = TRUE, !.stage = IF @ = "none" THEN "asked" ELSE @] \in RestoreRecords
         /\ \A p \in People \union {Nobody} :
              [r EXCEPT !.stage = "served", !.found = p] \in RestoreRecords
BY DEF NoRestore, Joining, RestoreRecords

\* A page that has just opened satisfies the invariant.
LEMMA SignInInvInit == Init => SignInInv
<1> SUFFICES ASSUME Init PROVE SignInInv
  OBVIOUS
<1>1. PromptInv
  BY PromptInvInit DEF Init
<1>2. TypeOK
  <2>1. PromptTypeOK /\ restore \in RestoreRecords
    BY <1>1, RestoreMoves DEF Init, PromptInv
  <2>2. heard = FALSE /\ claimed = FALSE /\ restoring = FALSE /\ joined = FALSE /\ strays = FALSE
        /\ mailedTo = FALSE
    BY DEF Init
  <2>3. messages \in 0 .. MaxMessages
    BY SignInAssumption DEF Init
  <2> QED
    BY <2>1, <2>2, <2>3 DEF Init, TypeOK, RestoreRecords
<1>4. ClaimKept /\ WantedHere
  BY DEF Init, NoRestore, ClaimKept, WantedHere
<1>3. FitsKind /\ InviteeKnown
  BY SignInAssumption DEF Init, FitsKind, InviteeKnown, PromptInit, Idle, NoRestore
<1>5. JoinFits
  BY DEF Init, NoRestore, JoinFits
<1> QED
  BY <1>1, <1>2, <1>3, <1>4, <1>5 DEF SignInInv

\* Whatever the page does, the invariant of its passkey requests stands.
LEMMA PromptInvNext ==
    ASSUME PromptInv, [Next]_vars
    PROVE  PromptInv'
<1>1. CASE UNCHANGED promptVars
  BY <1>1 DEF promptVars, PromptInv, PromptTypeOK, Stray, AutofillOffered, PickMarked,
     QuietTillPicked, OneSheet, Active, Fresh, InFlight
<1>2. CASE RestoreAnswers \/ JoinLands
  <2>1. landing' \in BOOLEAN /\ (landing => landing')
    BY <1>2, Zenon DEF RestoreAnswers, JoinLands, PromptInv, PromptTypeOK
  <2>2. UNCHANGED <<able, field, prompt, picked, retried, unasked>>
    BY <1>2 DEF RestoreAnswers, JoinLands
  <2> QED
    BY <2>1, <2>2 DEF PromptInv, PromptTypeOK, Stray, AutofillOffered, PickMarked,
       QuietTillPicked,
       OneSheet, Active, Fresh, InFlight
<1> QED
  BY <1>1, <1>2, PromptsMove, PromptInvStep DEF PromptMove

\* Every step of the page, the listener and the tabs elsewhere keeps the types.
LEMMA TypeNext ==
    ASSUME SignInInv, [Next]_vars
    PROVE  TypeOK'
<1> USE SignInAssumption DEF TypeOK
<1> TypeOK /\ FitsKind /\ PromptTypeOK'
  BY PromptInvNext DEF SignInInv, PromptInv
<1>0. ASSUME NEW v, ListensAt(v, mailedTo)
      PROVE  /\ restoring' \in BOOLEAN /\ heard' \in BOOLEAN /\ messages' \in 0 .. MaxMessages
             /\ restore' \in [stage : {"none", "asked", "served", "joining"},
                              found : People \union {Nobody}, wanted : BOOLEAN]
  BY <1>0 DEF ListensAt, Hushed, earVars
<1>1. CASE PromptStep
  <2>1. UNCHANGED field
    BY <1>1 DEF PromptStep, PromptNext, Learn, Begin, Discard, Click, Lose, Caught, Open, Fails,
       Dismiss, Pick, Settle, VerifyFails
  <2>2. UNCHANGED <<pageVars, earVars, worldVars, store, claimed>>
    BY <1>1 DEF PromptStep
  <2> QED
    BY <2>1, <2>2 DEF pageVars, earVars, worldVars
<1>2. ASSUME NEW r \in Requests, PasskeySignsIn(r) PROVE TypeOK'
  BY <1>2 DEF PasskeySignsIn, Verified, pageVars, earVars
<1>3. CASE Send
  BY <1>3 DEF Send, promptVars, earVars, worldVars
<1>4. CASE Preview
  BY <1>4 DEF Preview, promptVars, earVars, worldVars
<1>5. CASE PostServed
  BY <1>5 DEF PostServed, promptVars, earVars
<1>6. CASE Mailed
  BY <1>0, <1>6 DEF Mailed, Show, FieldHides, promptVars, worldVars
<1>7. CASE PostFails
  BY <1>0, <1>7 DEF PostFails, Show, FitsKind, promptVars, worldVars
<1>8. CASE Dead
  BY <1>0, <1>8 DEF Dead, Show, FitsKind, promptVars, worldVars
<1>9. CASE ChangeEmail
  BY <1>0, <1>9 DEF ChangeEmail, FieldShows, Show, worldVars
<1>10. CASE Leave
  BY <1>0, <1>10 DEF Leave, PageLeaves, Show, worldVars
<1>11. CASE HearMessage
  <2>0. restore \in RestoreRecords
    BY DEF RestoreRecords
  <2>1. restore' \in RestoreRecords /\ restoring' \in BOOLEAN
    <3>1. \/ restoring' = TRUE
             /\ restore' = [restore EXCEPT !.wanted = TRUE,
                                          !.stage = IF @ = "none" THEN "asked" ELSE @]
          \/ UNCHANGED <<restoring, restore>>
      BY <1>11, Zenon DEF HearMessage
    <3>2. [restore EXCEPT !.wanted = TRUE, !.stage = IF @ = "none" THEN "asked" ELSE @]
            \in RestoreRecords
      BY <2>0, RestoreMoves
    <3> QED
      BY <2>0, <3>1, <3>2
  <2>2. heard' \in BOOLEAN
    BY <1>11, Zenon DEF HearMessage
  <2>3. messages' \in 0 .. MaxMessages
    BY <1>11 DEF HearMessage
  <2>4. UNCHANGED <<promptVars, pageVars, worldVars, store, claimed>>
    BY <1>11 DEF HearMessage
  <2> QED
    BY <2>1, <2>2, <2>3, <2>4 DEF RestoreRecords, promptVars, pageVars, worldVars
<1>12. CASE RestoreServed
  <2>1. restore' \in RestoreRecords
    BY <1>12, RestoreMoves DEF RestoreServed, RestoreRecords
  <2>2. UNCHANGED <<promptVars, pageVars, worldVars, restoring, heard, messages, store, claimed>>
    BY <1>12 DEF RestoreServed
  <2> QED
    BY <2>1, <2>2 DEF RestoreRecords, promptVars, pageVars, worldVars
<1>13. CASE RestoreAnswers
  <2>1. restore' \in RestoreRecords /\ store' \in People \union {Nobody} /\ heard' \in BOOLEAN
    BY <1>13, RestoreMoves DEF RestoreAnswers
  <2>2. UNCHANGED <<field, pageVars, worldVars, restoring, messages, claimed>>
    BY <1>13 DEF RestoreAnswers
  <2> QED
    BY <2>1, <2>2 DEF RestoreRecords, pageVars, worldVars
<1>22. CASE JoinLands
  <2>1. restore' \in RestoreRecords /\ claimed' \in BOOLEAN
    BY <1>22, RestoreMoves DEF JoinLands
  <2>2. UNCHANGED <<field, pageVars, worldVars, restoring, heard, messages, store>>
    BY <1>22 DEF JoinLands
  <2> QED
    BY <2>1, <2>2 DEF RestoreRecords, pageVars, worldVars
<1>14. CASE RestoreFails
  <2>1. restore' \in RestoreRecords /\ heard' \in BOOLEAN
    BY <1>14, RestoreMoves DEF RestoreFails
  <2>2. restoring' \in BOOLEAN
    BY <1>14, Zenon DEF RestoreFails, Again
  <2>3. UNCHANGED <<promptVars, pageVars, worldVars, messages, store, claimed>>
    BY <1>14 DEF RestoreFails
  <2> QED
    BY <2>1, <2>2, <2>3 DEF RestoreRecords, promptVars, pageVars, worldVars
<1>15. CASE OpenMail \/ SwitchAccount
  BY <1>15 DEF OpenMail, SwitchAccount, HereUnchanged, promptVars, pageVars
<1>16. CASE LinkServed
  <2>1. joined' \in BOOLEAN
    BY <1>16, Zenon DEF LinkServed
  <2>2. mail' \in {"none", "live", "spent"} /\ other' \in {"none", "served"}
    BY <1>16 DEF LinkServed
  <2>3. HereUnchanged /\ UNCHANGED <<messages, cookie, strays>>
    BY <1>16 DEF LinkServed
  <2> QED
    BY <2>1, <2>2, <2>3 DEF HereUnchanged, promptVars, pageVars
<1>17. CASE LinkAnswered
  BY <1>17 DEF LinkAnswered, Broadcast, HereUnchanged, promptVars, pageVars
<1>18. CASE LinkLost
  BY <1>18 DEF LinkLost, HereUnchanged, promptVars, pageVars
<1>19. ASSUME NEW p \in People, SignsInElsewhere(p) PROVE TypeOK'
  BY <1>19 DEF SignsInElsewhere, Broadcast, HereUnchanged, promptVars, pageVars
<1>20. CASE SignsOutElsewhere
  BY <1>20 DEF SignsOutElsewhere, HereUnchanged, promptVars, pageVars
<1>21. CASE UNCHANGED vars
  BY <1>21 DEF vars, promptVars, pageVars, earVars, worldVars
<1> QED
  BY <1>1, <1>2, <1>3, <1>4, <1>5, <1>6, <1>7, <1>8, <1>9, <1>10, <1>11, <1>12, <1>13, <1>14,
     <1>15, <1>16, <1>17, <1>18, <1>19, <1>20, <1>21, <1>22 DEF Next

\* ... and the rest of the invariant.
LEMMA RestNext ==
    ASSUME SignInInv, [Next]_vars
    PROVE  FitsKind' /\ WantedHere' /\ InviteeKnown' /\ JoinFits' /\ ClaimKept'
<1> USE SignInAssumption
<1> TypeOK /\ FitsKind /\ WantedHere /\ InviteeKnown /\ JoinFits /\ ClaimKept
  BY DEF SignInInv
<1> DEFINE Rest == FitsKind /\ WantedHere /\ InviteeKnown /\ JoinFits /\ ClaimKept
<1>a. ASSUME UNCHANGED <<prompt, kind, view>> PROVE FitsKind'
  BY <1>a DEF FitsKind
<1>b. ASSUME UNCHANGED <<restore, kind, view, mailedTo>> PROVE WantedHere'
  BY <1>b DEF WantedHere, Listening, HearsAt
<1>c. ASSUME UNCHANGED <<kind, store, restore, cookie, joined, strays, other, claimed>>
        PROVE  InviteeKnown' /\ JoinFits' /\ ClaimKept'
  BY <1>c DEF InviteeKnown, JoinFits, ClaimKept
<1>1. CASE PromptStep
  BY <1>1, <1>b, <1>c DEF PromptStep, FitsKind, pageVars, earVars, worldVars
<1>2. ASSUME NEW r \in Requests, PasskeySignsIn(r) PROVE Rest'
  <2>1. kind = "login" /\ UNCHANGED <<pageVars, earVars, claimed>>
    BY <1>2 DEF PasskeySignsIn, Verified, FitsKind, TypeOK
  <2> QED
    BY <2>1, <1>b DEF FitsKind, InviteeKnown, JoinFits, ClaimKept, pageVars, earVars
<1>3. CASE Send
  BY <1>3, <1>a, <1>b, <1>c DEF Send, promptVars, earVars, worldVars
<1>4. CASE Preview
  BY <1>4, <1>c DEF Preview, FitsKind, WantedHere, Listening, HearsAt, promptVars, earVars,
     worldVars
<1>5. CASE PostServed
  BY <1>5, <1>a, <1>b, <1>c DEF PostServed, promptVars, earVars
<1>6. CASE Mailed
  BY <1>6 DEF Mailed, TypeOK, Show, ListensAt, Hushed, FieldHides, FitsKind, WantedHere,
     Listening, HearsAt,
     InviteeKnown, JoinFits, ClaimKept, NoRestore, promptVars, earVars, worldVars
<1>7. CASE PostFails
  BY <1>7 DEF PostFails, TypeOK, Show, ListensAt, Hushed, FitsKind, WantedHere, Listening,
     HearsAt,
     InviteeKnown, JoinFits, ClaimKept, NoRestore, promptVars, earVars, worldVars
<1>8. CASE Dead
  BY <1>8 DEF Dead, TypeOK, Show, ListensAt, Hushed, FitsKind, WantedHere, Listening, HearsAt,
     InviteeKnown, JoinFits, ClaimKept, NoRestore, promptVars, earVars, worldVars
<1>9. CASE ChangeEmail
  BY <1>9 DEF ChangeEmail, TypeOK, Show, ListensAt, Hushed, FitsKind, WantedHere, Listening,
     HearsAt,
     InviteeKnown, JoinFits, ClaimKept, NoRestore, earVars, worldVars
<1>10. CASE Leave
  <2>1. kind = "invitation" => prompt' = [prompt EXCEPT !["button"] = Idle]
    BY <1>10 DEF Leave, PageLeaves, Goes, ButtonGone, Active, InFlight, FitsKind, TypeOK,
       PromptTypeOK, Requests
  <2>2. /\ view' = "gone" /\ UNCHANGED mailedTo
        /\ restoring' = FALSE /\ heard' = FALSE /\ restore' = [restore EXCEPT !.wanted = FALSE]
        /\ UNCHANGED <<kind, store, claimed, worldVars>>
    BY <1>10 DEF Leave, Show, ListensAt, HearsAt, Hushed, TypeOK
  <2>3. FitsKind'
    BY <2>1, <2>2 DEF FitsKind, TypeOK, PromptTypeOK, Requests, Idle
  <2>4. WantedHere'
    BY <2>2 DEF WantedHere, TypeOK
  <2>5. restore'.found = restore.found /\ restore'.stage = restore.stage
    BY <2>2 DEF TypeOK
  <2>6. UNCHANGED <<kind, store, claimed, cookie, other, joined, strays>>
    BY <2>2 DEF worldVars
  <2>7. InviteeKnown' /\ JoinFits' /\ ClaimKept'
    BY <2>5, <2>6 DEF InviteeKnown, JoinFits, ClaimKept, NoRestore
  <2> QED
    BY <2>3, <2>4, <2>7
<1>11. CASE HearMessage
  BY <1>11, <1>a DEF HearMessage, TypeOK, WantedHere, Listening, HearsAt, InviteeKnown, JoinFits,
     ClaimKept, NoRestore, promptVars, pageVars, worldVars
<1>12. CASE RestoreServed
  BY <1>12, <1>a DEF RestoreServed, TypeOK, WantedHere, Listening, HearsAt, InviteeKnown,
     JoinFits,
     ClaimKept, NoRestore, promptVars, pageVars, worldVars
<1>13. CASE RestoreAnswers
  <2>1. /\ UNCHANGED <<prompt, kind, view, cookie, other, joined, strays, claimed>>
        /\ restore.stage = "served" /\ restore.found \in People /\ store' = restore.found
    BY <1>13 DEF RestoreAnswers, TypeOK, pageVars, worldVars
  <2>2. CASE kind = "invitation" /\ Wanted /\ Mailee(restore.found)
    <3>1. restore' = Joining /\ restore.found = Invitee
      BY <1>13, <2>2 DEF RestoreAnswers, Mailee
    <3>2. restore'.stage = "joining" /\ restore'.found = Nobody /\ restore'.wanted = FALSE
      BY <3>1 DEF Joining, NoRestore
    <3> QED
      BY <1>a, <2>1, <2>2, <3>1, <3>2 DEF WantedHere, InviteeKnown, JoinFits, ClaimKept
  <2>3. CASE ~(kind = "invitation" /\ Wanted /\ Mailee(restore.found))
    <3>1. restore'.stage = "none" /\ restore'.found = Nobody /\ restore'.wanted = FALSE
      BY <1>13, <2>3 DEF RestoreAnswers, NoRestore
    <3> QED
      BY <1>a, <2>1, <3>1 DEF WantedHere, InviteeKnown, JoinFits, ClaimKept
  <2> QED
    BY <2>2, <2>3
<1>23. CASE JoinLands
  BY <1>23, <1>a DEF JoinLands, TypeOK, WantedHere, InviteeKnown, JoinFits, ClaimKept, NoRestore,
     pageVars, worldVars
<1>14. CASE RestoreFails
  BY <1>14, <1>a DEF RestoreFails, TypeOK, WantedHere, Listening, HearsAt, InviteeKnown, JoinFits,
     ClaimKept, NoRestore, promptVars, pageVars, worldVars
<1>15. CASE OpenMail
  BY <1>15, <1>a, <1>b DEF OpenMail, TypeOK, InviteeKnown, JoinFits, ClaimKept, HereUnchanged,
     promptVars, pageVars
<1>22. CASE SwitchAccount
  BY <1>22, <1>a, <1>b DEF SwitchAccount, TypeOK, InviteeKnown, JoinFits, ClaimKept,
     HereUnchanged, promptVars, pageVars
<1>16. CASE LinkServed
  BY <1>16, <1>a, <1>b DEF LinkServed, TypeOK, InviteeKnown, JoinFits, ClaimKept, HereUnchanged,
     promptVars, pageVars
<1>17. CASE LinkAnswered
  BY <1>17, <1>a, <1>b DEF LinkAnswered, TypeOK, InviteeKnown, JoinFits, ClaimKept,
     HereUnchanged, promptVars, pageVars
<1>18. CASE LinkLost
  BY <1>18, <1>a, <1>b DEF LinkLost, TypeOK, InviteeKnown, JoinFits, ClaimKept, HereUnchanged,
     promptVars, pageVars
<1>19. ASSUME NEW p \in People, SignsInElsewhere(p) PROVE Rest'
  BY <1>19, <1>a, <1>b DEF SignsInElsewhere, TypeOK, InviteeKnown, JoinFits, ClaimKept,
     HereUnchanged, promptVars, pageVars
<1>20. CASE SignsOutElsewhere
  BY <1>20, <1>a, <1>b DEF SignsOutElsewhere, TypeOK, InviteeKnown, JoinFits, ClaimKept,
     HereUnchanged, promptVars, pageVars
<1>21. CASE UNCHANGED vars
  BY <1>21, <1>a, <1>b, <1>c DEF vars, promptVars, pageVars, earVars, worldVars
<1> QED
  BY <1>1, <1>2, <1>3, <1>4, <1>5, <1>6, <1>7, <1>8, <1>9, <1>10, <1>11, <1>12, <1>13, <1>14,
     <1>15, <1>16, <1>17, <1>18, <1>19, <1>20, <1>21, <1>22, <1>23 DEF Next

-----------------------------------------------------------------------------
(* The theorems. *)

\* The invariant, for the whole of a signed-out tab's life.
THEOREM SignInSafe == Spec => []SignInInv
<1>1. Init => SignInInv
  BY SignInInvInit
<1>2. SignInInv /\ [Next]_vars => SignInInv'
  <2> SUFFICES ASSUME SignInInv, [Next]_vars PROVE SignInInv'
    OBVIOUS
  <2>1. PromptInv'
    BY PromptInvNext DEF SignInInv
  <2> QED
    BY <2>1, TypeNext, RestNext DEF SignInInv
<1> QED
  BY <1>1, <1>2, PTL DEF Spec

\* Only the live run waits in the browser, behind a field that is shown.
LEMMA AutofillAlone ==
    ASSUME PromptInv
    PROVE  CeremonyOwned
BY DEF PromptInv, PromptTypeOK, Stray, CeremonyOwned, Requests, Sheets, Active

\* The browser's pending request is the page's own, passkeys are offered behind
\* the field, and autofill is quiet till somebody picks, whatever mail, messages
\* and restarts do to the page (use-passkey-autofill.ts, webauthn.ts).
THEOREM PromptsHold == Spec => []PromptsKept
<1>1. SignInInv => PromptsKept
  BY AutofillAlone DEF SignInInv, PromptInv, PromptsKept
<1> QED
  BY <1>1, SignInSafe, PTL

\* Nobody is told they joined who did not (accept.tsx:307-331).
THEOREM ClaimsHold == Spec => []ClaimsFit
<1>1. SignInInv => ClaimsFit
  BY DEF SignInInv, ClaimKept, ClaimsFit
<1> QED
  BY <1>1, SignInSafe, PTL

\* The sheet the person opened is not taken away from under them
\* (passkey-sign-in.tsx:28-30).
THEOREM SheetsStand == Spec => SheetStands
<1> DEFINE Sheet ==
      \A r \in Sheets :
         prompt[r].stage = "asked" /\ prompt'[r].stage = "rejected" =>
           \/ field' # field
           \/ Dismiss(r)
           \/ r = "old" /\ Click
           \/ retried /\ prompt["autofill"].stage = "options"
           \/ r = "button" /\ InFlight("old") /\ prompt'["old"] = Idle
<1>1. SignInInv /\ [Next]_vars => [Sheet]_promptVars
  <2> SUFFICES ASSUME SignInInv, [Next]_vars, NEW r \in Sheets,
                      prompt[r].stage = "asked", prompt'[r].stage = "rejected", promptVars' # promptVars
               PROVE  \/ field' # field
                      \/ Dismiss(r)
                      \/ r = "old" /\ Click
                      \/ retried /\ prompt["autofill"].stage = "options"
                      \/ r = "button" /\ InFlight("old") /\ prompt'["old"] = Idle
    OBVIOUS
  <2>1. PromptMove
    <3>1. ~RestoreAnswers /\ ~JoinLands
      BY DEF RestoreAnswers, JoinLands
    <3> QED
      BY <3>1, PromptsMove
  <2> QED
    BY <2>1, SheetStep DEF SignInInv
<1> QED
  BY <1>1, SignInSafe, PTL DEF Spec, SheetStands

\* The page is replaced by the landing only while it waits to be signed in, or by
\* its own passkey, or by the answer that an invitation had waited for
\* (use-signed-in-elsewhere.ts:21-45).
THEOREM LandingsAsked == Spec => LandsIfAsked
<1>1. ASSUME SignInInv, [Next]_vars, ~landing, landing'
      PROVE  Listening \/ restore.stage = "joining" \/ \E r \in Requests : Verified(r)
  <2>1. ASSUME PromptMove PROVE \E r \in Requests : Verified(r)
    <3>1. ASSUME UNCHANGED landing PROVE FALSE
      BY <1>1, <3>1
    <3> QED
      BY <2>1, <3>1 DEF PromptMove, PromptNext, Learn, Begin, Discard, Click, Lose, Caught, Open,
         Fails, Dismiss, Pick, Settle, VerifyFails, FieldHides, FieldShows, PageLeaves
  <2>2. CASE UNCHANGED promptVars
    BY <1>1, <2>2 DEF promptVars
  <2>3. CASE RestoreAnswers
    BY <1>1, <2>3 DEF RestoreAnswers, Wanted, SignInInv, WantedHere
  <2>4. CASE JoinLands
    BY <2>4 DEF JoinLands
  <2> QED
    BY <1>1, <2>1, <2>2, <2>3, <2>4, PromptsMove
<1>2. SignInInv /\ [Next]_vars
        => [~landing /\ landing' =>
              Listening \/ restore.stage = "joining" \/ \E r \in Requests : Verified(r)]_vars
  BY <1>1
<1> QED
  BY <1>2, SignInSafe, PTL DEF Spec, LandsIfAsked
=============================================================================
